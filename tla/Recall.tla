------------------------------- MODULE Recall -------------------------------
(***************************************************************************)
(* The reads of dag.go: the gated walk of Recall, and EpochScan, against   *)
(* what they promise in every state of the DAG.                            *)
(***************************************************************************)
EXTENDS HippocampusDag, SequencesExt

CONSTANTS
    Depths,         \* depths that callers ask for
    Tokens          \* memory tokens that callers present

ASSUME RecallAssumption ==
    /\ Depths \subseteq Nat /\ Tokens \subseteq Nat
    /\ \A f \in Contents : \A c \in Cids : f[c].links \in Seq(Cids)

Drift(e, c) == IF e >= content[c].epoch THEN e - content[c].epoch ELSE content[c].epoch - e

\* Mutated form of Admits: every pin counts, expired or not.
AdmitsExpired(q, c, used) ==
    /\ c \in Stored
    /\ content[c].stack = q.stack
    /\ q.token >= used
    /\ Drift(q.epoch, c) <= 2 \/ nodes[c].pinned

\* The gates of the walk, for a node `used` links away from the root.
Admits(q, c, used) ==
    /\ c \in Stored
    /\ content[c].stack = q.stack
    /\ q.token >= used
    /\ Drift(q.epoch, c) <= 2 \/ LeaseActive(c, q.epoch)

\* What a walk has visited, the fragments it returns and the links it reports, in order.
Found == [visited : SUBSET Cids, fragments : Seq(Cids), broken : Seq(Cids)]

Nothing == [visited |-> {}, fragments |-> <<>>, broken |-> <<>>]

\* One link after the other is walked.
Follow(walk, out, links) ==
    LET after[i \in 0 .. Len(links)] == IF i = 0 THEN out ELSE walk[links[i]][after[i - 1]]
    IN  after[Len(links)]

\* The walk comes to c, `used` links away from the root.
Visit(q, walk, out, c, used) ==
    IF c \in out.visited THEN out
    ELSE LET met == [out EXCEPT !.visited = @ \cup {c}]
         IN  IF Admits(q, c, used)
                 THEN Follow(walk, [met EXCEPT !.fragments = Append(@, c)], content[c].links)
                 ELSE [met EXCEPT !.broken = Append(@, c)]

\* A walk that may go no further, and one that goes on with `walk`.
Stay == [c \in Cids |-> [out \in Found |-> out]]
Visits(q, walk, used) == [c \in Cids |-> [out \in Found |-> Visit(q, walk, out, c, used)]]

\* The depth-first walk, by the number of nodes it may still go down.
Walk(q) ==
    LET walk[left \in 0 .. q.depth + 1] ==
            IF left = 0 THEN Stay ELSE Visits(q, walk[left - 1], q.depth + 1 - left)
    IN  walk[q.depth + 1]

RecallOf(q) == Walk(q)[q.root][Nothing]

EpochScan(from, to) ==
    FlattenSeq([i \in 1 .. to - from + 1 |-> IF <<"epoch", from + i - 1>> \in Attributes
                                                THEN index[<<"epoch", from + i - 1>>] ELSE <<>>])

-----------------------------------------------------------------------------
Requests == [root : Cids, stack : {content[c].stack : c \in Cids}, epoch : Epochs, depth : Depths, token : Tokens]

\* The reads depend on the nodes alone; they are judged where no status is under way.
Quiet == \A r \in Readers : reader[r] = Idle

Links(S) == UNION {Range(content[p].links) : p \in S}

\* Reference: the nodes within n links of the root along admitted nodes, breadth first.
Within(q) ==
    LET level[n \in 0 .. q.depth] ==
            IF n = 0 THEN {c \in {q.root} : Admits(q, c, 0)}
            ELSE level[n - 1] \cup {c \in Links(level[n - 1]) : Admits(q, c, n)}
    IN  level[q.depth]

\* A recall returns each fragment once, and only fragments that some admitted path of
\* at most `depth` links and `memoryToken` tokens leads to, all of the caller's stack
\* and none that is out of the epoch window without a lease.  Over histories with one
\* link each, all that siyana-api writes, it finds every such fragment and reports at
\* most one broken link.
RecallSound ==
    Quiet => \A q \in Requests :
        LET found == RecallOf(q).fragments
        IN  /\ IsInjective(found)
            /\ Range(found) \subseteq Within(q)
            /\ \A c \in Range(found) :
                /\ content[c].stack = q.stack
                /\ Drift(q.epoch, c) <= 2 \/ (c \in pinned /\ (nodes[c].pinExpiry = 0 \/ nodes[c].pinExpiry >= q.epoch))
            /\ (\A c \in Cids : Len(content[c].links) <= 1) =>
                /\ Range(found) = Within(q)
                /\ Len(RecallOf(q).broken) <= 1

\* The secondary indices agree with the nodes at all times, so that a scan returns the
\* nodes of the window, each once, by epoch.
ScanIsWindow ==
    /\ IndicesAgree
    /\ Quiet => \A from, to \in Epochs : from <= to =>
        LET found == EpochScan(from, to)
        IN  /\ IsInjective(found)
            /\ Range(found) = {c \in Stored : content[c].epoch \in from .. to}
            /\ \A i, j \in DOMAIN found : i < j => content[found[i]].epoch <= content[found[j]].epoch
=============================================================================
