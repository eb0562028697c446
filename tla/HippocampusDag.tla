--------------------------- MODULE HippocampusDag ---------------------------
(***************************************************************************)
(* forks/hippocampus-dag-go: the memory lattice of dag.go behind the HTTP  *)
(* handlers of hippod.  Every operation of the DAG holds its lock and is   *)
(* one step, but /pin/status takes the lock twice and reads the expiry     *)
(* through the pointer it got, so its answer is put together in two steps. *)
(*                                                                         *)
(* A CID is the hash of the stack, epoch, links and kind of its node, so   *)
(* what it stands for (content) is fixed though nothing may be stored yet. *)
(* Ciphertexts and the peer table, which nothing fills, are left out, and  *)
(* so is the encoding of the nodes that /dag/get and /dhf/recall answer.   *)
(***************************************************************************)
EXTENDS Integers, Sequences, Functions

CONSTANTS
    Cids,           \* the content addresses used
    Contents,       \* what they may stand for: functions to [stack, epoch, kind, links]
    Epochs,         \* epochs that callers name
    Readers         \* requests for /pin/status under way

ASSUME DagAssumption ==
    /\ Epochs \subseteq Nat
    /\ \A f \in Contents : DOMAIN f = Cids /\ \A c \in Cids : f[c].epoch \in Nat

VARIABLES
    content,        \* CID -> what it is the hash of
    nodes,          \* stored CID -> its pinned and pinExpiry, a partial function
    index,          \* byEpoch, byStack and byKind: attribute -> sequence of CIDs
    pinned,         \* the pinned CIDs
    reader,         \* request -> what it has read
    legacy          \* history: CIDs ever pinned without an expiry in this life

vars == <<content, nodes, index, pinned, reader, legacy>>

Idle == [at |-> "idle"]

AttributesOf(c) ==
    {<<"epoch", content[c].epoch>>, <<"stack", content[c].stack>>, <<"kind", content[c].kind>>}

Attributes == UNION {AttributesOf(c) : c \in Cids}

Init ==
    /\ content \in Contents
    /\ nodes = <<>>
    /\ index = [a \in Attributes |-> <<>>]
    /\ pinned = {}
    /\ reader = [r \in Readers |-> Idle]
    /\ legacy = {}

Stored == DOMAIN nodes

\* Mutated form of Put: a node that is stored already is indexed again.
PutAgain(c, pin) ==
    /\ nodes' = [d \in Stored \cup {c} |-> IF d = c THEN [pinned |-> pin, pinExpiry |-> 0] ELSE nodes[d]]
    /\ index' = [a \in Attributes |-> IF a \in AttributesOf(c) THEN Append(index[a], c) ELSE index[a]]
    /\ pinned' = IF pin THEN pinned \cup {c} ELSE pinned
    /\ legacy' = IF pin THEN legacy \cup {c} ELSE legacy
    /\ UNCHANGED <<content, reader>>

\* Putting what is stored already changes nothing, not even its pin.
Put(c, pin) ==
    /\ c \notin Stored
    /\ nodes' = [d \in Stored \cup {c} |-> IF d = c THEN [pinned |-> pin, pinExpiry |-> 0] ELSE nodes[d]]
    /\ index' = [a \in Attributes |-> IF a \in AttributesOf(c) THEN Append(index[a], c) ELSE index[a]]
    /\ pinned' = IF pin THEN pinned \cup {c} ELSE pinned
    /\ legacy' = IF pin THEN legacy \cup {c} ELSE legacy
    /\ UNCHANGED <<content, reader>>

Pin(c) ==
    /\ c \in Stored
    /\ nodes' = [nodes EXCEPT ![c].pinned = TRUE]
    /\ pinned' = pinned \cup {c}
    /\ legacy' = IF nodes[c].pinExpiry = 0 THEN legacy \cup {c} ELSE legacy
    /\ UNCHANGED <<content, index, reader>>

\* Mutated form of Lease: the lease may also be cut short.
LeaseAny(c, untilEpoch) ==
    /\ c \in Stored
    /\ nodes' = [nodes EXCEPT ![c] = [pinned |-> TRUE, pinExpiry |-> untilEpoch]]
    /\ pinned' = pinned \cup {c}
    /\ UNCHANGED <<content, index, reader, legacy>>

Lease(c, untilEpoch) ==
    /\ c \in Stored
    /\ untilEpoch > nodes[c].pinExpiry
    /\ nodes' = [nodes EXCEPT ![c] = [pinned |-> TRUE, pinExpiry |-> untilEpoch]]
    /\ pinned' = pinned \cup {c}
    /\ UNCHANGED <<content, index, reader, legacy>>

\* Mutated form of LeaseActive: the lease holds for one epoch more.
LeaseActiveTooLong(c, epoch) ==
    /\ c \in Stored
    /\ nodes[c].pinned
    /\ nodes[c].pinExpiry = 0 \/ nodes[c].pinExpiry + 1 >= epoch

LeaseActive(c, epoch) ==
    /\ c \in Stored
    /\ nodes[c].pinned
    /\ nodes[c].pinExpiry = 0 \/ nodes[c].pinExpiry >= epoch

\* /pin/status: LeaseActive under the lock ...
StatusActive(r, c, epoch) ==
    /\ reader[r] = Idle
    /\ reader' = [reader EXCEPT ![r] =
                    [at |-> "active", cid |-> c, epoch |-> epoch, active |-> LeaseActive(c, epoch)]]
    /\ UNCHANGED <<content, nodes, index, pinned, legacy>>

\* ... then Get, and the answer.
StatusExpiry(r) ==
    /\ reader[r].at = "active"
    /\ reader' = [reader EXCEPT ![r] =
                    [at |-> "answered", cid |-> @.cid, epoch |-> @.epoch, active |-> @.active,
                     until |-> IF @.cid \in Stored THEN nodes[@.cid].pinExpiry ELSE 0]]
    /\ UNCHANGED <<content, nodes, index, pinned, legacy>>

Leave(r) ==
    /\ reader[r].at = "answered"
    /\ reader' = [reader EXCEPT ![r] = Idle]
    /\ UNCHANGED <<content, nodes, index, pinned, legacy>>

\* hippod starts with an empty DAG; its requests are gone.
Restart ==
    /\ nodes' = <<>>
    /\ index' = [a \in Attributes |-> <<>>]
    /\ pinned' = {}
    /\ reader' = [r \in Readers |-> Idle]
    /\ legacy' = {}
    /\ UNCHANGED content

Next ==
    \/ \E c \in Cids, pin \in BOOLEAN : Put(c, pin)
    \/ \E c \in Cids : Pin(c)
    \/ \E c \in Cids, untilEpoch \in Epochs : Lease(c, untilEpoch)
    \/ \E r \in Readers :
        \/ \E c \in Cids, epoch \in Epochs : StatusActive(r, c, epoch)
        \/ StatusExpiry(r) \/ Leave(r)
    \/ Restart

Spec == Init /\ [][Next]_vars

-----------------------------------------------------------------------------
TypeOK ==
    /\ content \in Contents
    /\ Stored \subseteq Cids
    /\ nodes \in [Stored -> [pinned : BOOLEAN, pinExpiry : {0} \cup Epochs]]
    /\ \A r \in Readers : reader[r].at \in {"idle", "active", "answered"}

\* The secondary indices list each stored node once under each of its attributes and
\* nothing else, and the pinned set is the set of nodes that carry the flag.
IndicesAgree ==
    /\ TypeOK
    /\ \A a \in Attributes :
        /\ IsInjective(index[a])
        /\ Range(index[a]) = {c \in Stored : a \in AttributesOf(c)}
    /\ pinned = {c \in Stored : nodes[c].pinned}

\* A lease, once it is granted, holds until its expiry whatever else is asked of the
\* node: short of a restart no later call unpins it or brings the expiry closer.
LeasesHold ==
    [][\A c \in Stored \cap DOMAIN nodes', e \in Epochs :
            (LeaseActive(c, e) /\ nodes[c].pinExpiry > 0) => LeaseActive(c, e)']_vars

\* A status that says active gives an expiry that covers the epoch it was asked for,
\* although the two come from two reads, unless the node was pinned for ever before.
StatusCovers ==
    \A r \in Readers :
        (reader[r].at = "answered" /\ reader[r].active /\ reader[r].cid \notin legacy)
            => reader[r].until >= reader[r].epoch

=============================================================================
