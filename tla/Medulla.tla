------------------------------ MODULE Medulla ------------------------------
(***************************************************************************)
(* forks/medulla-pow-go: the in-memory chain of chain.go behind the JSON   *)
(* calls of rpc.go.  Each call holds the chain's mutex from beginning to   *)
(* end and is one step.  A header's hash stands for the whole header: no   *)
(* two blocks have the same one, since the height of the parent, the time  *)
(* and the nonce go into it, so it is <<life, height>>.  Mining either     *)
(* finds a nonce within its 50,000,000 attempts or fails.  Difficulty,     *)
(* pools and subscribers decide nothing here and are left out.  leaves is  *)
(* a history variable: what the field was given in this life, in order.    *)
(***************************************************************************)
EXTENDS MerkleMountainRange

CONSTANTS
    Tuples,         \* coherence tuples; their hash is their identity
    ZeroTuple,      \* the tuple of genesis and of `mineblock`
    MaxLeaves,      \* SYNAPTIC_FIELD_DEPTH
    MaxBlocks,      \* bound: blocks of one life of the daemon, genesis included
    MaxFailures,    \* bound: mining failures
    MaxRestarts     \* bound: restarts of the daemon

ASSUME MedullaAssumption ==
    /\ ZeroTuple \in Tuples
    /\ {MaxLeaves, MaxBlocks, MaxFailures, MaxRestarts} \subseteq Nat

VARIABLES
    blocks,         \* the chain, genesis first
    field,          \* the Synaptic Field MMR
    leaves,         \* history: all leaves of the field, dropped ones included
    epoch,          \* the chain's epoch counter
    life,           \* starts of the daemon so far
    failures        \* mining failures so far

medullaVars == <<blocks, field, leaves, epoch, life, failures>>

Tip == blocks[Len(blocks)]

Genesis(n, m) == <<[hash |-> <<n, 0>>, epoch |-> 0, tuple |-> ZeroTuple, fieldRoot |-> Root(m)]>>

GenesisField == AppendLeaf(EmptyField, ZeroTuple, MaxLeaves)

MedullaInit ==
    /\ field = GenesisField
    /\ leaves = <<ZeroTuple>>
    /\ blocks = Genesis(0, GenesisField)
    /\ epoch = 0
    /\ life = 0
    /\ failures = 0

\* The header over tuple t that SubmitCoherenceRoot mines, once the field has its leaf.
Header(t, m) ==
    [hash |-> <<life, Len(blocks)>>, epoch |-> epoch + 1, tuple |-> t, fieldRoot |-> Root(m)]

AppendToField(t) ==
    /\ field' = AppendLeaf(field, t, MaxLeaves)
    /\ leaves' = Append(leaves, t)

\* Mutated form of SubmitCoherenceRoot: the field is appended to after the header is made.
SubmitWithOldField(t) ==
    /\ Len(blocks) < MaxBlocks
    /\ AppendToField(t)
    /\ blocks' = Append(blocks, Header(t, field))
    /\ epoch' = epoch + 1
    /\ UNCHANGED <<life, failures>>

\* submitcoherenceroot and mineblock (with the zero tuple), when a nonce is found.
SubmitCoherenceRoot(t) ==
    /\ Len(blocks) < MaxBlocks
    /\ AppendToField(t)
    /\ blocks' = Append(blocks, Header(t, field'))
    /\ epoch' = epoch + 1
    /\ UNCHANGED <<life, failures>>

\* The same call when mining fails: the field keeps the leaf of the lost block.
MiningFails(t) ==
    /\ failures < MaxFailures
    /\ failures' = failures + 1
    /\ AppendToField(t)
    /\ UNCHANGED <<blocks, epoch, life>>

\* The daemon starts over from NewChain: it persists nothing.
Restart ==
    /\ life < MaxRestarts
    /\ life' = life + 1
    /\ field' = GenesisField
    /\ leaves' = <<ZeroTuple>>
    /\ blocks' = Genesis(life + 1, GenesisField)
    /\ epoch' = 0
    /\ UNCHANGED failures

MedullaNext ==
    \/ \E t \in Tuples : SubmitCoherenceRoot(t) \/ MiningFails(t)
    \/ Restart

MedullaSpec == MedullaInit /\ [][MedullaNext]_medullaVars

\* What the calls answer about block b; the height is the constant 0 of rpc.go.
AnchorOf(b) ==
    [blockHash |-> b.hash, height |-> 0, epoch |-> b.epoch, tuple |-> b.tuple, fieldRoot |-> b.fieldRoot]

\* The zero root: a term of a shape no hash has.
NoProof == <<0, 0, 0>>

\* getsynapticproof, and the router's fallback when the block is unknown: the answer
\* is the root of the field as it is now.
SynapticProofRoot(hash) ==
    IF \E i \in DOMAIN blocks : blocks[i].hash = hash THEN Root(field) ELSE NoProof

-----------------------------------------------------------------------------
MedullaTypeOK ==
    /\ \A i \in DOMAIN blocks : blocks[i].tuple \in Tuples
    /\ field.count = Len(leaves) /\ Len(leaves) >= Len(blocks)
    /\ field.peaks # <<>>
    /\ epoch \in Nat
    /\ life \in Nat

\* The epoch counter, the epochs in the headers and the heights agree, through
\* mining failures and restarts: getepochanchor(e) finds exactly the block at height e.
EpochIsHeight ==
    /\ MedullaTypeOK
    /\ epoch = Len(blocks) - 1
    /\ \A i \in DOMAIN blocks : blocks[i].epoch = i - 1

\* The blocks of a chain are told apart by their epochs, which are their heights, and
\* until the window is full by the field they commit to, even over equal tuples and with
\* failures and restarts in between: a repeated root means a stall.
BlocksToldApart ==
    /\ EpochIsHeight
    /\ field.count <= MaxLeaves =>
          \A i, j \in DOMAIN blocks : i # j => blocks[i].fieldRoot # blocks[j].fieldRoot
=============================================================================
