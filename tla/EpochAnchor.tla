---------------------------- MODULE EpochAnchor ----------------------------
(***************************************************************************)
(* contracts/src/EpochAnchor.sol: the cortex contract that stores, for     *)
(* each epoch, the anchor a bridger carried over from the medulla chain.   *)
(* A transaction that fails a `require` reverts and is no step here.  The  *)
(* four shard roots of an anchor travel together and are one value.        *)
(***************************************************************************)
EXTENDS Integers

CONSTANTS
    Accounts,       \* addresses that may send a transaction
    Deployer,       \* the contract's owner, msg.sender of the constructor
    Roots,          \* coherence tuples (crossRoot, evmRoot, ipfsRoot, sleevesRoot)
    Fields,         \* synaptic-field roots
    MaxUint         \* largest uint256

ASSUME AccountAssumption == Deployer \in Accounts
ASSUME WidthAssumption == MaxUint \in Nat

Uint == 0 .. MaxUint

Anchor == [root : Roots, field : Fields, height : Uint]

\* The zero value of the mapping: `ts` is 0 exactly where nothing was committed.
NoAnchor == [committed |-> FALSE]

VARIABLES
    byEpoch,            \* epoch -> Anchor, or NoAnchor
    head,               \* epoch of the latest commit
    lastMedullaHeight,  \* medulla height of the latest commit
    bridgers            \* accounts allowed to commit

vars == <<byEpoch, head, lastMedullaHeight, bridgers>>

Anchored(e) == byEpoch[e] # NoAnchor

TypeOK ==
    /\ byEpoch \in [Uint -> Anchor \cup {NoAnchor}]
    /\ head \in Uint
    /\ lastMedullaHeight \in Uint
    /\ bridgers \subseteq Accounts

Init ==
    /\ byEpoch = [e \in Uint |-> NoAnchor]
    /\ head = 0
    /\ lastMedullaHeight = 0
    /\ bridgers = {}

SetBridger(sender, b, ok) ==
    /\ sender = Deployer
    /\ bridgers' = IF ok THEN bridgers \cup {b} ELSE bridgers \ {b}
    /\ UNCHANGED <<byEpoch, head, lastMedullaHeight>>

\* Mutated forms of CanCommit: one `require` dropped.
CanCommitAnyHeight(sender, epoch, height) ==
    /\ sender \in bridgers
    /\ epoch > head \/ head = 0
CanCommitAnyEpoch(sender, epoch, height) ==
    /\ sender \in bridgers
    /\ height > lastMedullaHeight

\* The three `require`s of commitAnchor.
CanCommit(sender, epoch, height) ==
    /\ sender \in bridgers
    /\ epoch > head \/ head = 0
    /\ height > lastMedullaHeight

CommitAnchor(sender, epoch, root, field, height) ==
    /\ CanCommit(sender, epoch, height)
    /\ byEpoch' = [byEpoch EXCEPT ![epoch] =
                      [root |-> root, field |-> field, height |-> height]]
    /\ head' = epoch
    /\ lastMedullaHeight' = height
    /\ UNCHANGED bridgers

Next ==
    \E sender \in Accounts :
        \/ \E b \in Accounts, ok \in BOOLEAN : SetBridger(sender, b, ok)
        \/ \E epoch, height \in Uint, root \in Roots, field \in Fields :
                CommitAnchor(sender, epoch, root, field, height)

Spec == Init /\ [][Next]_vars

-----------------------------------------------------------------------------
\* What verifyContinuity(epoch) answers an inspector.
VerifyContinuity(e) ==
    IF e = 0 \/ ~Anchored(e) \/ ~Anchored(e - 1)
        THEN [exists |-> FALSE, extended |-> FALSE]
        ELSE [exists |-> TRUE,
              extended |-> /\ byEpoch[e].field # byEpoch[e - 1].field
                           /\ byEpoch[e].height > byEpoch[e - 1].height]

-----------------------------------------------------------------------------
\* Later epochs were sourced from strictly higher medulla blocks: the anchors
\* form one increasing-height chain whatever epochs the bridgers skip.
HeightsFollowEpochs ==
    \A e, f \in Uint :
        (Anchored(e) /\ Anchored(f) /\ e < f) => byEpoch[e].height < byEpoch[f].height

\* head and lastMedullaHeight describe the newest anchor, head is no hole, and nothing
\* is anchored beyond them: the two scalars the guards read summarise the mapping.
HeadIsNewest ==
    /\ lastMedullaHeight > 0 => Anchored(head)
    /\ \A e \in Uint : Anchored(e) =>
        /\ e <= head
        /\ byEpoch[e].height <= lastMedullaHeight
        /\ e = head => byEpoch[e].height = lastMedullaHeight

\* Once the head has moved past epoch 0, what verifyContinuity says of an epoch at
\* or below the head is final: no later commit turns a gap into a continuity, or
\* rewrites an anchor an inspector has relied on.
VerdictIsFinal ==
    [][\A e \in Uint : (head > 0 /\ e <= head) =>
            VerifyContinuity(e)' = VerifyContinuity(e)]_vars
=============================================================================
