-------------------------- MODULE HippocampusProofs --------------------------
(***************************************************************************)
(* Proofs about the memory lattice of hippod, for any content addresses,   *)
(* whatever they stand for, any epochs and any number of status requests.  *)
(* A status is put together from two reads of a node that leases may       *)
(* change in between; it is right because a lease is never cut short, so   *)
(* what the first read saw of the expiry still bounds the second.  Then    *)
(* the reads: what EpochScan and the walk of Recall return, for windows    *)
(* and walks of any length.  Last the services over the lattice: what a    *)
(* reconstruction decodes, what a bond and a reconciler's pass hold.       *)
(***************************************************************************)
EXTENDS Reconstruction, NaturalsInduction, WellFoundedInduction, TLAPS

Node == [pinned : BOOLEAN, pinExpiry : {0} \cup Epochs]
Asked == [at : {"active"}, cid : Cids, epoch : Epochs, active : BOOLEAN]
Answered == [at : {"answered"}, cid : Cids, epoch : Epochs, active : BOOLEAN, until : {0} \cup Epochs]
ReadersOK == reader \in [Readers -> {Idle} \cup Asked \cup Answered]

NodesOK == content \in Contents /\ Stored \subseteq Cids /\ nodes \in [Stored -> Node]

\* Each index lists the stored nodes that have the attribute, each once.
Listed(a) == IsInjective(index[a]) /\ Range(index[a]) = {c \in Stored : a \in AttributesOf(c)}
IndicesOK ==
    /\ index \in [Attributes -> Seq(Cids)]
    /\ \A a \in Attributes : Listed(a)
    /\ pinned = {c \in Stored : nodes[c].pinned}

\* A pin without an expiry is known as such.
LegacyKnown == \A c \in Stored : nodes[c].pinned /\ nodes[c].pinExpiry = 0 => c \in legacy

\* What a request read of a lease, the lease still grants.
StillCovered ==
    \A r \in Readers :
        (reader[r].at = "active" /\ reader[r].active /\ reader[r].cid \notin legacy)
            => reader[r].cid \in Stored /\ nodes[reader[r].cid].pinExpiry >= reader[r].epoch

IInv == NodesOK /\ ReadersOK /\ IndicesOK /\ LegacyKnown /\ StillCovered /\ StatusCovers

LEMMA Naturals == {0} \cup Epochs \subseteq Nat
BY DagAssumption

-----------------------------------------------------------------------------
(* The indices.                                                             *)

LEMMA AppendListed ==
  ASSUME NEW S, NEW f \in Seq(S), NEW c \in S, IsInjective(f), c \notin Range(f)
  PROVE  /\ Append(f, c) \in Seq(S)
         /\ IsInjective(Append(f, c))
         /\ Range(Append(f, c)) = Range(f) \cup {c}
<1>1. PICK n : n = Len(f)
  OBVIOUS
<1>2. PICK g : g = Append(f, c)
  OBVIOUS
<1>3. /\ n \in Nat /\ DOMAIN f = 1 .. n /\ DOMAIN g = 1 .. n + 1 /\ g \in Seq(S)
      /\ (\A i \in 1 .. n : g[i] = f[i]) /\ g[n + 1] = c
  BY <1>1, <1>2
<1>4. \A i, j \in 1 .. n : f[i] = f[j] => i = j
  BY <1>3 DEF IsInjective
<1>5. \A i \in 1 .. n : f[i] # c
  BY <1>3 DEF Range
<1>6. \A i \in 1 .. n + 1 : i \in 1 .. n \/ i = n + 1
  BY <1>3
<1>7. \A i, j \in 1 .. n + 1 : g[i] = g[j] => i = j
  BY <1>3, <1>4, <1>5, <1>6
<1>8. IsInjective(g)
  BY <1>3, <1>7 DEF IsInjective
<1>9. Range(g) = Range(f) \cup {c}
  <2>1. ASSUME NEW x \in Range(g) PROVE x \in Range(f) \cup {c}
    <3>1. PICK i \in 1 .. n + 1 : x = g[i]
      BY <1>3, <2>1 DEF Range
    <3>2. CASE i \in 1 .. n
      BY <1>3, <3>1, <3>2 DEF Range
    <3>3. CASE i = n + 1
      BY <1>3, <3>1, <3>3
    <3> QED BY <1>6, <3>2, <3>3
  <2>2. ASSUME NEW x \in Range(f) PROVE x \in Range(g)
    <3>1. PICK i \in 1 .. n : x = f[i]
      BY <1>3, <2>2 DEF Range
    <3>2. i \in 1 .. n + 1 /\ x = g[i]
      BY <1>3, <3>1
    <3> QED BY <1>3, <3>2 DEF Range
  <2>3. c \in Range(g)
    <3>1. n + 1 \in 1 .. n + 1
      BY <1>3
    <3> QED BY <1>3, <3>1 DEF Range
  <2> QED BY <2>1, <2>2, <2>3
<1> QED BY <1>2, <1>3, <1>8, <1>9

\* Putting a node that is not stored lists it once under each of its attributes.
LEMMA PutListed ==
  ASSUME NodesOK, IndicesOK, NEW c \in Cids, NEW pin \in BOOLEAN, Put(c, pin)
  PROVE  IndicesOK' /\ NodesOK'
<1>1. /\ c \notin Stored /\ Stored' = Stored \cup {c} /\ content' = content
      /\ nodes'[c] = [pinned |-> pin, pinExpiry |-> 0]
      /\ \A d \in Stored : nodes'[d] = nodes[d]
  BY DEF Put, Stored
<1>2. Attributes' = Attributes /\ \A d : (AttributesOf(d))' = AttributesOf(d)
  BY <1>1 DEF Attributes, AttributesOf
<1>3. NodesOK'
  <2>1. nodes' = [d \in Stored \cup {c} |-> IF d = c THEN [pinned |-> pin, pinExpiry |-> 0] ELSE nodes[d]]
    BY DEF Put
  <2>2. [pinned |-> pin, pinExpiry |-> 0] \in Node
    BY DEF Node
  <2>3. nodes' \in [Stored \cup {c} -> Node]
    BY <2>1, <2>2 DEF NodesOK
  <2> QED BY <1>1, <2>3 DEF NodesOK
<1>4. ASSUME NEW a \in Attributes
      PROVE  index'[a] \in Seq(Cids) /\ IsInjective(index'[a])
             /\ Range(index'[a]) = {d \in Stored \cup {c} : a \in AttributesOf(d)}
  <2>1. index[a] \in Seq(Cids) /\ IsInjective(index[a]) /\ Range(index[a]) = {d \in Stored : a \in AttributesOf(d)}
    BY DEF IndicesOK, Listed
  <2>2. CASE a \in AttributesOf(c)
    <3>1. index'[a] = Append(index[a], c)
      BY <2>2 DEF Put
    <3>2. c \notin Range(index[a])
      BY <1>1, <2>1
    <3> QED BY <2>1, <2>2, <3>1, <3>2, AppendListed
  <2>3. CASE a \notin AttributesOf(c)
    <3>1. index'[a] = index[a]
      BY <2>3 DEF Put
    <3> QED BY <2>1, <2>3, <3>1
  <2> QED BY <2>2, <2>3
<1>5. index' \in [Attributes -> Seq(Cids)]
  BY <1>4 DEF Put
<1>6. \A a \in Attributes' : Listed(a)'
  <2>1. ASSUME NEW a \in Attributes PROVE Listed(a)'
    <3>1. Range(index'[a]) = {d \in Stored' : a \in (AttributesOf(d))'}
      BY <1>1, <1>2, <1>4
    <3> QED BY <1>4, <3>1 DEF Listed
  <2> QED BY <1>2, <2>1
<1>7. pinned' = {d \in Stored' : nodes'[d].pinned}
  <2>1. nodes'[c].pinned = pin
    BY <1>1
  <2>2. pinned' = IF pin THEN pinned \cup {c} ELSE pinned
    BY DEF Put
  <2> QED BY <1>1, <2>1, <2>2 DEF IndicesOK
<1> QED BY <1>2, <1>3, <1>5, <1>6, <1>7 DEF IndicesOK

\* Writing a stored node, pinned, changes no list.
LEMMA WriteListed ==
  ASSUME NodesOK, IndicesOK, NEW c \in Stored, NEW w \in Node, w.pinned = TRUE,
         nodes' = [nodes EXCEPT ![c] = w], pinned' = pinned \cup {c}, UNCHANGED <<content, index>>
  PROVE  IndicesOK' /\ NodesOK' /\ Stored' = Stored
         /\ \A d \in Stored : nodes'[d] = IF d = c THEN w ELSE nodes[d]
<1>1. Stored' = Stored /\ nodes' \in [Stored -> Node] /\ \A d \in Stored : nodes'[d] = IF d = c THEN w ELSE nodes[d]
  BY DEF NodesOK, Stored
<1>2. Attributes' = Attributes /\ \A d : (AttributesOf(d))' = AttributesOf(d)
  BY DEF Attributes, AttributesOf
<1>3. \A a \in Attributes : Listed(a)'
  <2>1. SUFFICES ASSUME NEW a \in Attributes PROVE Listed(a)'
    OBVIOUS
  <2>2. {d \in Stored' : a \in (AttributesOf(d))'} = {d \in Stored : a \in AttributesOf(d)}
    BY <1>1, <1>2
  <2> QED BY <2>2 DEF IndicesOK, Listed
<1>4. pinned' = {d \in Stored' : nodes'[d].pinned}
  BY <1>1 DEF IndicesOK
<1> QED BY <1>1, <1>2, <1>3, <1>4 DEF IndicesOK, NodesOK

-----------------------------------------------------------------------------
(* The steps.                                                               *)

LEMMA ReaderPlaces ==
  ASSUME NEW x \in {Idle} \cup Asked \cup Answered
  PROVE  /\ x.at \in {"idle", "active", "answered"}
         /\ x.at = "active" => x \in Asked
         /\ x.at = "answered" => x \in Answered
BY DEF Idle, Asked, Answered

LEMMA PutKeeps ==
  ASSUME IInv, NEW c \in Cids, NEW pin \in BOOLEAN, Put(c, pin)
  PROVE  IInv'
<1>1. IndicesOK' /\ NodesOK'
  BY PutListed DEF IInv
<1>2. /\ c \notin Stored /\ Stored' = Stored \cup {c} /\ reader' = reader /\ legacy \subseteq legacy'
      /\ nodes'[c] = [pinned |-> pin, pinExpiry |-> 0] /\ (pin => c \in legacy')
      /\ \A d \in Stored : nodes'[d] = nodes[d]
  BY DEF Put, Stored
<1>3. ReadersOK' /\ StatusCovers'
  BY <1>2 DEF IInv, ReadersOK, StatusCovers
<1>4. LegacyKnown'
  <2>1. ASSUME NEW d \in Stored', nodes'[d].pinned, nodes'[d].pinExpiry = 0
        PROVE  d \in legacy'
    <3>1. CASE d = c
      BY <1>2, <2>1, <3>1
    <3>2. CASE d # c
      BY <1>2, <2>1, <3>2 DEF IInv, LegacyKnown
    <3> QED BY <3>1, <3>2
  <2> QED BY <2>1 DEF LegacyKnown
<1>5. StillCovered'
  BY <1>2 DEF IInv, StillCovered
<1> QED BY <1>1, <1>3, <1>4, <1>5 DEF IInv

\* Writing a node so that it is pinned and its expiry comes no closer.
LEMMA WriteKeeps ==
  ASSUME IInv, NEW c \in Stored, NEW w \in Node, w.pinned = TRUE, w.pinExpiry >= nodes[c].pinExpiry,
         nodes' = [nodes EXCEPT ![c] = w], pinned' = pinned \cup {c}, UNCHANGED <<content, index, reader>>,
         legacy \subseteq legacy', w.pinExpiry = 0 => c \in legacy'
  PROVE  IInv'
<1>1. /\ IndicesOK' /\ NodesOK' /\ Stored' = Stored
      /\ \A d \in Stored : nodes'[d] = IF d = c THEN w ELSE nodes[d]
  BY WriteListed DEF IInv
<1>2. ReadersOK' /\ StatusCovers'
  BY DEF IInv, ReadersOK, StatusCovers
<1>3. LegacyKnown'
  BY <1>1 DEF IInv, LegacyKnown
<1>4. StillCovered'
  <2>1. ASSUME NEW r \in Readers, reader[r].at = "active", reader[r].active, reader[r].cid \notin legacy'
        PROVE  reader[r].cid \in Stored /\ nodes'[reader[r].cid].pinExpiry >= reader[r].epoch
    <3>1. PICK d : d = reader[r].cid
      OBVIOUS
    <3>2. d \in Stored /\ nodes[d].pinExpiry >= reader[r].epoch
      BY <2>1, <3>1 DEF IInv, StillCovered
    <3>3. reader[r].epoch \in Nat
      BY <2>1, ReaderPlaces, Naturals DEF IInv, ReadersOK, Asked
    <3>4. nodes[d].pinExpiry \in Nat /\ w.pinExpiry \in Nat
      BY <3>2, Naturals DEF IInv, NodesOK, Node
    <3>5. nodes'[d].pinExpiry >= reader[r].epoch
      BY <1>1, <3>2, <3>3, <3>4
    <3> QED BY <3>1, <3>2, <3>5
  <2> QED BY <1>1, <2>1 DEF StillCovered
<1> QED BY <1>1, <1>2, <1>3, <1>4 DEF IInv

LEMMA PinKeeps ==
  ASSUME IInv, NEW c \in Cids, Pin(c)
  PROVE  IInv'
<1>1. c \in Stored /\ nodes[c] \in Node
  BY DEF Pin, IInv, NodesOK
<1>2. PICK w : w = [nodes[c] EXCEPT !.pinned = TRUE]
  OBVIOUS
<1>3. w \in Node /\ w.pinned = TRUE /\ w.pinExpiry = nodes[c].pinExpiry /\ w.pinExpiry \in Nat
  BY <1>1, <1>2, Naturals DEF Node
<1>4. nodes' = [nodes EXCEPT ![c] = w]
  BY <1>2 DEF Pin
<1>5. w.pinExpiry >= nodes[c].pinExpiry
  BY <1>3
<1>6. legacy \subseteq legacy' /\ (w.pinExpiry = 0 => c \in legacy')
  BY <1>3 DEF Pin
<1> QED BY <1>1, <1>3, <1>4, <1>5, <1>6, WriteKeeps DEF Pin

LEMMA LeaseKeeps ==
  ASSUME IInv, NEW c \in Cids, NEW untilEpoch \in Epochs, Lease(c, untilEpoch)
  PROVE  IInv'
<1>1. c \in Stored /\ nodes[c].pinExpiry \in Nat /\ untilEpoch \in Nat /\ untilEpoch > nodes[c].pinExpiry
  BY Naturals DEF Lease, IInv, NodesOK, Node
<1>2. PICK w : w = [pinned |-> TRUE, pinExpiry |-> untilEpoch]
  OBVIOUS
<1>3. w \in Node /\ w.pinned = TRUE /\ w.pinExpiry >= nodes[c].pinExpiry /\ w.pinExpiry # 0
  BY <1>1, <1>2 DEF Node
<1>4. nodes' = [nodes EXCEPT ![c] = w]
  BY <1>2 DEF Lease
<1> QED BY <1>1, <1>3, <1>4, WriteKeeps DEF Lease

\* Steps of a request leave the nodes alone.
LEMMA ReaderKeeps ==
  ASSUME IInv, NEW r \in Readers, NEW x \in {Idle} \cup Asked \cup Answered,
         reader' = [reader EXCEPT ![r] = x], UNCHANGED <<content, nodes, index, pinned, legacy>>,
         (x.at = "active" /\ x.active /\ x.cid \notin legacy)
            => x.cid \in Stored /\ nodes[x.cid].pinExpiry >= x.epoch,
         (x.at = "answered" /\ x.active /\ x.cid \notin legacy) => x.until >= x.epoch
  PROVE  IInv'
<1>1. ReadersOK' /\ \A q \in Readers : reader'[q] = IF q = r THEN x ELSE reader[q]
  BY DEF IInv, ReadersOK
<1>2. NodesOK' /\ IndicesOK' /\ LegacyKnown' /\ Stored' = Stored
  BY DEF IInv, NodesOK, IndicesOK, LegacyKnown, Listed, Stored, Attributes, AttributesOf
<1>3. StillCovered'
  BY <1>1, <1>2 DEF IInv, StillCovered
<1>4. StatusCovers'
  BY <1>1 DEF IInv, StatusCovers
<1> QED BY <1>1, <1>2, <1>3, <1>4 DEF IInv

LEMMA StatusActiveKeeps ==
  ASSUME IInv, NEW r \in Readers, NEW c \in Cids, NEW epoch \in Epochs, StatusActive(r, c, epoch)
  PROVE  IInv'
<1>1. PICK b \in BOOLEAN : b = LeaseActive(c, epoch)
  BY DEF LeaseActive
<1>2. PICK x : x = [at |-> "active", cid |-> c, epoch |-> epoch, active |-> b]
  OBVIOUS
<1>3. x \in Asked /\ x.at = "active" /\ x.cid = c /\ x.epoch = epoch /\ x.active = b
  BY <1>1, <1>2 DEF Asked
<1>4. reader' = [reader EXCEPT ![r] = x]
  BY <1>1, <1>2 DEF StatusActive
<1>5. b /\ c \notin legacy => c \in Stored /\ nodes[c].pinExpiry >= epoch
  BY <1>1 DEF LeaseActive, IInv, LegacyKnown
<1> QED BY <1>3, <1>4, <1>5, ReaderKeeps DEF StatusActive

LEMMA StatusExpiryKeeps ==
  ASSUME IInv, NEW r \in Readers, StatusExpiry(r)
  PROVE  IInv'
<1>1. PICK a : a = reader[r]
  OBVIOUS
<1>2. a \in Asked /\ a.at = "active"
  BY <1>1, ReaderPlaces DEF StatusExpiry, IInv, ReadersOK
<1>3. PICK u : u = IF a.cid \in Stored THEN nodes[a.cid].pinExpiry ELSE 0
  OBVIOUS
<1>4. u \in {0} \cup Epochs
  BY <1>3 DEF IInv, NodesOK, Node
<1>5. PICK x : x = [at |-> "answered", cid |-> a.cid, epoch |-> a.epoch, active |-> a.active, until |-> u]
  OBVIOUS
<1>6. x \in Answered /\ x.at = "answered" /\ x.cid = a.cid /\ x.epoch = a.epoch /\ x.active = a.active /\ x.until = u
  BY <1>2, <1>4, <1>5 DEF Asked, Answered
<1>7. reader' = [reader EXCEPT ![r] = x]
  BY <1>1, <1>3, <1>5 DEF StatusExpiry
<1>8. a.active /\ a.cid \notin legacy => u >= a.epoch
  BY <1>1, <1>2, <1>3 DEF IInv, StillCovered
<1> QED BY <1>6, <1>7, <1>8, ReaderKeeps DEF StatusExpiry

LEMMA LeaveKeeps ==
  ASSUME IInv, NEW r \in Readers, Leave(r)
  PROVE  IInv'
<1>1. Idle.at = "idle"
  BY DEF Idle
<1> QED BY <1>1, ReaderKeeps DEF Leave

LEMMA EmptyHolds ==
  ASSUME content \in Contents, nodes = <<>>, index = [a \in Attributes |-> <<>>], pinned = {},
         reader = [r \in Readers |-> Idle], legacy = {}
  PROVE  IInv
<1>1. Stored = {}
  BY DEF Stored
<1>2. nodes \in [{} -> Node]
  OBVIOUS
<1>3. \A a \in Attributes : index[a] = <<>> /\ index[a] \in Seq(Cids) /\ DOMAIN index[a] = {}
  OBVIOUS
<1>4. IndicesOK
  <2>1. index \in [Attributes -> Seq(Cids)]
    BY <1>3
  <2>2. \A a \in Attributes : Listed(a)
    BY <1>1, <1>3 DEF Listed, IsInjective, Range
  <2> QED BY <1>1, <2>1, <2>2 DEF IndicesOK
<1>5. ReadersOK /\ \A r \in Readers : reader[r].at = "idle"
  BY DEF ReadersOK, Idle
<1>6. NodesOK
  BY <1>1, <1>2 DEF NodesOK
<1> QED BY <1>1, <1>4, <1>5, <1>6 DEF IInv, LegacyKnown, StillCovered, StatusCovers

LEMMA StepHolds ==
  ASSUME IInv, [Next]_vars
  PROVE  IInv'
<1>1. CASE UNCHANGED vars
  <2>1. NodesOK' /\ ReadersOK' /\ LegacyKnown' /\ StillCovered' /\ StatusCovers'
    BY <1>1 DEF vars, IInv, NodesOK, ReadersOK, LegacyKnown, StillCovered, StatusCovers, Stored
  <2>2. Attributes' = Attributes /\ (\A d : (AttributesOf(d))' = AttributesOf(d)) /\ Stored' = Stored
    BY <1>1 DEF vars, Attributes, AttributesOf, Stored
  <2>3. \A a : (Listed(a))' <=> Listed(a)
    BY <1>1, <2>2 DEF vars, Listed
  <2>4. IndicesOK'
    BY <1>1, <2>2, <2>3 DEF vars, IInv, IndicesOK
  <2> QED BY <2>1, <2>4 DEF IInv
<1>2. CASE Restart
  <2>1. /\ content' \in Contents /\ nodes' = <<>> /\ pinned' = {}
        /\ reader' = [r \in Readers |-> Idle] /\ legacy' = {}
    BY <1>2 DEF Restart, IInv, NodesOK
  <2>2. index' = [a \in Attributes' |-> <<>>]
    BY <1>2 DEF Restart, Attributes, AttributesOf
  <2>3. Stored' = {} /\ nodes' \in [{} -> Node]
    BY <2>1 DEF Stored
  <2>4. \A a \in Attributes' : index'[a] = <<>> /\ index'[a] \in Seq(Cids) /\ DOMAIN index'[a] = {}
    BY <2>2
  <2>5. IndicesOK'
    <3>1. index' \in [Attributes' -> Seq(Cids)]
      BY <2>2, <2>4
    <3>2. \A a \in Attributes' : Listed(a)'
      BY <2>3, <2>4 DEF Listed, IsInjective, Range
    <3> QED BY <2>1, <2>3, <3>1, <3>2 DEF IndicesOK
  <2>6. ReadersOK' /\ \A r \in Readers : reader'[r].at = "idle"
    BY <2>1 DEF ReadersOK, Idle
  <2>7. NodesOK'
    BY <2>1, <2>3 DEF NodesOK
  <2> QED BY <2>3, <2>5, <2>6, <2>7 DEF IInv, LegacyKnown, StillCovered, StatusCovers
<1> QED BY <1>1, <1>2, PutKeeps, PinKeeps, LeaseKeeps, StatusActiveKeeps, StatusExpiryKeeps, LeaveKeeps DEF Next

\* The inductive invariant: the strengthening is LegacyKnown and StillCovered, that what
\* a request read of a lease at its first read is still granted until its second.
THEOREM InductiveInvariant == Spec => []IInv
<1>1. Init => IInv
  BY EmptyHolds DEF Init
<1>2. IInv /\ [Next]_vars => IInv'
  BY StepHolds
<1> QED BY <1>1, <1>2, PTL DEF Spec

LEMMA InvAgrees == IInv => IndicesAgree
<1>1. SUFFICES ASSUME IInv PROVE IndicesAgree
  OBVIOUS
<1>2. \A r \in Readers : reader[r].at \in {"idle", "active", "answered"}
  BY <1>1, ReaderPlaces DEF IInv, ReadersOK
<1>3. TypeOK
  BY <1>1, <1>2 DEF IInv, NodesOK, TypeOK, Node
<1> QED BY <1>1, <1>3 DEF IInv, IndicesOK, Listed, IndicesAgree

\* However puts, pins, leases and restarts of dag.go interleave, byEpoch, byStack and
\* byKind list each stored node once under each of its attributes and nothing else, and
\* the pinned set is the set of nodes with the flag.
THEOREM IndicesAlwaysAgree == Spec => []IndicesAgree
BY InvAgrees, InductiveInvariant, PTL

\* /pin/status never answers that a lease is active with an expiry that does not cover
\* the epoch asked for, although dag.go is locked twice for the answer.
THEOREM StatusAlwaysCovers == Spec => []StatusCovers
<1>1. IInv => StatusCovers
  BY DEF IInv
<1> QED BY <1>1, InductiveInvariant, PTL

\* No call of dag.go but a restart takes back a lease that was granted.
THEOREM NoLeaseTakenBack == Spec => LeasesHold
<1>1. ASSUME IInv, [Next]_vars, NEW c \in Stored \cap DOMAIN nodes', NEW e \in Epochs,
             LeaseActive(c, e), nodes[c].pinExpiry > 0
      PROVE  LeaseActive(c, e)'
  <2>1. nodes[c] \in Node /\ e \in Nat /\ nodes[c].pinExpiry \in Nat /\ nodes[c].pinned /\ nodes[c].pinExpiry >= e
    BY <1>1, Naturals DEF IInv, NodesOK, Node, LeaseActive
  <2>2. SUFFICES nodes'[c].pinned /\ nodes'[c].pinExpiry >= nodes[c].pinExpiry /\ nodes'[c].pinExpiry \in Nat
    BY <1>1, <2>1 DEF LeaseActive, Stored
  <2>3. CASE nodes'[c] = nodes[c]
    BY <2>1, <2>3
  <2>4. ASSUME NEW d \in Cids, NEW pin \in BOOLEAN, Put(d, pin)
        PROVE  nodes'[c] = nodes[c]
    BY <1>1, <2>4 DEF Put, Stored
  <2>5. ASSUME NEW d \in Cids, Pin(d)
        PROVE  nodes'[c].pinned /\ nodes'[c].pinExpiry = nodes[c].pinExpiry
    <3>1. nodes' = [nodes EXCEPT ![d].pinned = TRUE] /\ c \in DOMAIN nodes
      BY <1>1, <2>5 DEF Pin, Stored
    <3>2. CASE c = d
      BY <2>1, <3>1, <3>2 DEF Node
    <3>3. CASE c # d
      BY <2>1, <3>1, <3>3
    <3> QED BY <3>2, <3>3
  <2>6. ASSUME NEW d \in Cids, NEW u \in Epochs, Lease(d, u)
        PROVE  nodes'[c].pinned /\ nodes'[c].pinExpiry >= nodes[c].pinExpiry /\ nodes'[c].pinExpiry \in Nat
    <3>1. nodes' = [nodes EXCEPT ![d] = [pinned |-> TRUE, pinExpiry |-> u]] /\ c \in DOMAIN nodes
          /\ u > nodes[d].pinExpiry /\ u \in Nat
      BY <1>1, <2>6, Naturals DEF Lease, Stored
    <3>2. CASE c = d
      BY <2>1, <3>1, <3>2
    <3>3. CASE c # d
      BY <2>1, <3>1, <3>3
    <3> QED BY <3>2, <3>3
  <2>7. CASE UNCHANGED nodes
    BY <2>3, <2>7
  <2>8. ~Restart
    <3>1. Restart => DOMAIN nodes' = {}
      BY DEF Restart
    <3> QED BY <1>1, <3>1
  <2> QED BY <1>1, <2>1, <2>3, <2>4, <2>5, <2>6, <2>7, <2>8
          DEF Next, vars, StatusActive, StatusExpiry, Leave
<1>2. IInv /\ [Next]_vars => [\A c \in Stored \cap DOMAIN nodes', e \in Epochs :
            (LeaseActive(c, e) /\ nodes[c].pinExpiry > 0) => LeaseActive(c, e)']_vars
  BY <1>1
<1> QED BY <1>2, InductiveInvariant, PTL DEF Spec, LeasesHold

-----------------------------------------------------------------------------
(* The scan of a window of epochs.                                          *)

\* What holds for 0, and for one more whenever it holds, holds for every number.
LEMMA InductiveSet ==
    ASSUME NEW A \in SUBSET Nat, 0 \in A, \A k \in A : k + 1 \in A
    PROVE  A = Nat
<1> DEFINE less == OpToRel(<, Nat)
           rest == Nat \ A
<1>1. IsWellFoundedOn(less, Nat)
  BY NatLessThanWellFounded
<1>2. SUFFICES ASSUME rest # {} PROVE FALSE
  OBVIOUS
<1>3. PICK n \in rest : \A m \in rest : <<m, n>> \notin less
  <2> HIDE DEF less
  <2> QED BY <1>1, <1>2, WFMin
<1>4. n \in Nat /\ n # 0 /\ n - 1 \in Nat
  OBVIOUS
<1>5. <<n - 1, n>> \in less
  BY <1>4 DEF OpToRel
<1>6. n - 1 \in A
  BY <1>3, <1>4, <1>5
<1>7. (n - 1) + 1 = n
  BY <1>4
<1> QED BY <1>3, <1>6, <1>7

\* FlattenSeq is a recursive function: f gives what the first i of the sequences ss hold.
Flattens(ss, n, f) == f = [i \in 1 .. n |-> IF i = 1 THEN ss[i] ELSE f[i - 1] \o ss[i]]

LEMMA FlattensExists ==
    ASSUME NEW ss, NEW n \in Nat
    PROVE  \E f : Flattens(ss, n, f)
<1> DEFINE A == {k \in Nat : \E f : Flattens(ss, k, f)}
<1>1. A \in SUBSET Nat /\ \A k \in Nat : k \in A <=> \E f : Flattens(ss, k, f)
  OBVIOUS
<1> HIDE DEF A
<1>2. 0 \in A
  <2>1. Flattens(ss, 0, [i \in 1 .. 0 |-> 0])
    BY DEF Flattens
  <2> QED BY <1>1, <2>1
<1>3. ASSUME NEW k \in A PROVE k + 1 \in A
  <2>1. PICK f : Flattens(ss, k, f)
    BY <1>1
  <2> DEFINE h == [i \in 1 .. k + 1 |-> IF i = 1 THEN ss[i] ELSE f[i - 1] \o ss[i]]
  <2>2. k \in Nat
    BY <1>1
  <2>3. ASSUME NEW i \in 1 .. k PROVE h[i] = f[i]
    <3>1. i \in 1 .. k + 1
      BY <2>2
    <3>2. h[i] = IF i = 1 THEN ss[i] ELSE f[i - 1] \o ss[i]
      BY <3>1
    <3>3. f[i] = IF i = 1 THEN ss[i] ELSE f[i - 1] \o ss[i]
      BY <2>1, Zenon DEF Flattens
    <3> QED BY <3>2, <3>3, Zenon
  <2>4. \A i \in 1 .. k + 1 : i # 1 => h[i - 1] = f[i - 1]
    <3>1. \A i \in 1 .. k + 1 : i # 1 => i - 1 \in 1 .. k
      BY <2>2
    <3> HIDE DEF h
    <3> QED BY <2>3, <3>1
  <2>5. h = [i \in 1 .. k + 1 |-> IF i = 1 THEN ss[i] ELSE h[i - 1] \o ss[i]]
    BY <2>4
  <2>6. Flattens(ss, k + 1, h)
    <3> HIDE DEF h
    <3> QED BY <2>5 DEF Flattens
  <2> QED BY <1>1, <2>2, <2>6
<1>4. A = Nat
  BY <1>1, <1>2, <1>3, InductiveSet
<1> QED BY <1>1, <1>4

LEMMA FlattenIs ==
    ASSUME NEW ss, Len(ss) \in Nat \ {0}
    PROVE  \E f : Flattens(ss, Len(ss), f) /\ FlattenSeq(ss) = f[Len(ss)]
<1> DEFINE g == CHOOSE f : f = [i \in 1 .. Len(ss) |-> IF i = 1 THEN ss[i] ELSE f[i - 1] \o ss[i]]
<1>1. FlattenSeq(ss) = g[Len(ss)]
  BY DEF FlattenSeq
<1>2. \E f : f = [i \in 1 .. Len(ss) |-> IF i = 1 THEN ss[i] ELSE f[i - 1] \o ss[i]]
  BY FlattensExists DEF Flattens
<1>3. g = [i \in 1 .. Len(ss) |-> IF i = 1 THEN ss[i] ELSE g[i - 1] \o ss[i]]
  BY <1>2
<1> HIDE DEF g
<1>4. Flattens(ss, Len(ss), g)
  BY <1>3 DEF Flattens
<1> QED BY <1>1, <1>4

\* s lists the members of S, each once, by epoch.
InOrder(s) == \A i, j \in DOMAIN s : i < j => content[s[i]].epoch <= content[s[j]].epoch
Lists(s, S) == s \in Seq(Cids) /\ IsInjective(s) /\ Range(s) = S /\ InOrder(s)

\* What comes in later epochs is put after what is there.
LEMMA ConcatLists ==
    ASSUME NEW s, NEW t, NEW S, NEW T, Lists(s, S), Lists(t, T),
           \A c \in S, d \in T : content[c].epoch \in Nat /\ content[d].epoch \in Nat
                                    /\ content[c].epoch < content[d].epoch
    PROVE  Lists(s \o t, S \cup T)
<1>1. PICK m, n, u : m = Len(s) /\ n = Len(t) /\ u = s \o t
  OBVIOUS
<1>2. /\ m \in Nat /\ n \in Nat /\ u \in Seq(Cids)
      /\ DOMAIN s = 1 .. m /\ DOMAIN t = 1 .. n /\ DOMAIN u = 1 .. m + n
      /\ (\A i \in 1 .. m : u[i] = s[i])
      /\ (\A i \in m + 1 .. m + n : u[i] = t[i - m])
  BY <1>1 DEF Lists
<1>3. /\ \A i \in 1 .. m : u[i] \in S
      /\ \A i \in m + 1 .. m + n : i - m \in 1 .. n /\ u[i] \in T
  <2>1. ASSUME NEW i \in 1 .. m PROVE u[i] \in S
    BY <1>2 DEF Lists, Range
  <2>2. ASSUME NEW i \in m + 1 .. m + n PROVE i - m \in 1 .. n /\ u[i] \in T
    <3>1. i - m \in 1 .. n /\ u[i] = t[i - m]
      BY <1>2
    <3> QED BY <1>2, <3>1 DEF Lists, Range
  <2> QED BY <2>1, <2>2
<1>4. \A i \in 1 .. m + n : i \in 1 .. m \/ i \in m + 1 .. m + n
  BY <1>2
<1>5. IsInjective(u)
  <2> SUFFICES ASSUME NEW i \in 1 .. m + n, NEW j \in 1 .. m + n, u[i] = u[j] PROVE i = j
    BY <1>2 DEF IsInjective
  <2>1. CASE i \in 1 .. m /\ j \in 1 .. m
    BY <1>2, <2>1 DEF Lists, IsInjective
  <2>2. CASE i \in m + 1 .. m + n /\ j \in m + 1 .. m + n
    <3>1. i - m \in 1 .. n /\ j - m \in 1 .. n /\ t[i - m] = t[j - m]
      BY <1>2, <1>3, <2>2
    <3>2. i - m = j - m
      BY <1>2, <3>1 DEF Lists, IsInjective
    <3> QED BY <1>2, <3>2
  <2>3. CASE \/ i \in 1 .. m /\ j \in m + 1 .. m + n
             \/ j \in 1 .. m /\ i \in m + 1 .. m + n
    BY <1>3, <2>3
  <2> QED BY <1>4, <2>1, <2>2, <2>3
<1>6. Range(u) = S \cup T
  <2>1. ASSUME NEW x \in Range(u) PROVE x \in S \cup T
    BY <1>2, <1>3, <1>4, <2>1 DEF Range
  <2>2. ASSUME NEW x \in S PROVE x \in Range(u)
    <3>1. PICK i \in 1 .. m : x = s[i]
      BY <1>2, <2>2 DEF Lists, Range
    <3>2. i \in 1 .. m + n /\ u[i] = x
      BY <1>2, <3>1
    <3> QED BY <1>2, <3>2 DEF Range
  <2>3. ASSUME NEW x \in T PROVE x \in Range(u)
    <3>1. PICK i \in 1 .. n : x = t[i]
      BY <1>2, <2>3 DEF Lists, Range
    <3>2. i + m \in m + 1 .. m + n /\ (i + m) - m = i /\ i + m \in 1 .. m + n
      BY <1>2, <3>1
    <3>3. u[i + m] = x
      BY <1>2, <3>1, <3>2
    <3> QED BY <1>2, <3>2, <3>3 DEF Range
  <2> QED BY <2>1, <2>2, <2>3
<1>7. InOrder(u)
  <2> SUFFICES ASSUME NEW i \in 1 .. m + n, NEW j \in 1 .. m + n, i < j
               PROVE  content[u[i]].epoch <= content[u[j]].epoch
    BY <1>2 DEF InOrder
  <2>1. CASE i \in 1 .. m /\ j \in 1 .. m
    BY <1>2, <2>1 DEF Lists, InOrder
  <2>2. CASE i \in m + 1 .. m + n /\ j \in m + 1 .. m + n
    <3>1. i - m \in 1 .. n /\ j - m \in 1 .. n /\ i - m < j - m
      BY <1>2, <1>3, <2>2
    <3>2. content[t[i - m]].epoch <= content[t[j - m]].epoch
      BY <1>2, <3>1 DEF Lists, InOrder
    <3> QED BY <1>2, <2>2, <3>2
  <2>3. CASE i \in 1 .. m /\ j \in m + 1 .. m + n
    BY <1>3, <2>3
  <2>4. ~(j \in 1 .. m /\ i \in m + 1 .. m + n)
    BY <1>2
  <2> QED BY <1>4, <2>1, <2>2, <2>3, <2>4
<1> QED BY <1>1, <1>2, <1>5, <1>6, <1>7 DEF Lists

At(e) == {c \in Stored : content[c].epoch = e}
Between(from, to) == {c \in Stored : content[c].epoch \in from .. to}

\* The index of an epoch lists the nodes of the epoch; without one there are none.
LEMMA EpochLists ==
    ASSUME IInv, NEW e \in Nat
    PROVE  Lists(IF <<"epoch", e>> \in Attributes THEN index[<<"epoch", e>>] ELSE <<>>, At(e))
<1>1. /\ Stored \subseteq Cids /\ \A c \in Cids : content[c].epoch \in Nat
      /\ index \in [Attributes -> Seq(Cids)] /\ \A a \in Attributes : Listed(a)
  BY DagAssumption DEF IInv, NodesOK, IndicesOK
<1>2. \A c \in Cids : <<"epoch", e>> \in AttributesOf(c) <=> content[c].epoch = e
  BY DEF AttributesOf
<1>3. CASE <<"epoch", e>> \in Attributes
  <2> DEFINE a == <<"epoch", e>>
  <2>1. Listed(a) /\ index[a] \in Seq(Cids)
    BY <1>1, <1>3
  <2>2. \A c \in Stored : a \in AttributesOf(c) <=> content[c].epoch = e
    BY <1>1, <1>2
  <2> HIDE DEF a
  <2>3. Range(index[a]) = At(e)
    BY <2>1, <2>2 DEF Listed, At
  <2>4. InOrder(index[a])
    <3> SUFFICES ASSUME NEW i \in DOMAIN index[a], NEW j \in DOMAIN index[a]
                 PROVE  content[index[a][i]].epoch <= content[index[a][j]].epoch
      BY DEF InOrder
    <3>1. index[a][i] \in At(e) /\ index[a][j] \in At(e)
      BY <2>3 DEF Range
    <3> QED BY <3>1 DEF At
  <2> QED BY <1>3, <2>1, <2>3, <2>4 DEF Lists, Listed, a
<1>4. CASE <<"epoch", e>> \notin Attributes
  <2>1. At(e) = {}
    BY <1>1, <1>2, <1>4 DEF Attributes, At
  <2>2. Lists(<<>>, {})
    <3>1. <<>> \in Seq(Cids) /\ DOMAIN <<>> = {}
      OBVIOUS
    <3>2. Range(<<>>) = {} /\ IsInjective(<<>>) /\ InOrder(<<>>)
      BY <3>1 DEF Range, IsInjective, InOrder
    <3> QED BY <3>1, <3>2 DEF Lists
  <2> QED BY <1>4, <2>1, <2>2
<1> QED BY <1>3, <1>4

LEMMA ScanLists ==
    ASSUME IInv, NEW from \in Epochs, NEW to \in Epochs, from <= to
    PROVE  Lists(EpochScan(from, to), Between(from, to))
<1>1. from \in Nat /\ to \in Nat
  BY Naturals
<1>2. PICK n : n = to - from + 1
  OBVIOUS
<1>3. n \in Nat \ {0}
  BY <1>1, <1>2
<1> DEFINE part(e) == IF <<"epoch", e>> \in Attributes THEN index[<<"epoch", e>>] ELSE <<>>
           ss == [i \in 1 .. n |-> part(from + i - 1)]
<1>4. EpochScan(from, to) = FlattenSeq(ss)
  BY <1>2 DEF EpochScan
<1>5. \A i \in 1 .. n : ss[i] = part(from + i - 1)
  OBVIOUS
<1>6. Len(ss) = n
  <2> HIDE DEF part
  <2> QED BY <1>3
<1>7. ASSUME NEW i \in 1 .. n PROVE Lists(ss[i], At(from + i - 1))
  <2>1. from + i - 1 \in Nat
    BY <1>1, <1>3
  <2> QED BY <1>5, <2>1, EpochLists
<1> HIDE DEF ss
<1>8. PICK f : Flattens(ss, n, f) /\ FlattenSeq(ss) = f[n]
  BY <1>3, <1>6, FlattenIs
<1>9. \A i \in 1 .. n : f[i] = IF i = 1 THEN ss[i] ELSE f[i - 1] \o ss[i]
  BY <1>8, Zenon DEF Flattens
<1> DEFINE A == {k \in Nat : k < n => Lists(f[k + 1], Between(from, from + k))}
<1>10. A \in SUBSET Nat /\ \A k \in Nat : k \in A <=> (k < n => Lists(f[k + 1], Between(from, from + k)))
  OBVIOUS
<1> HIDE DEF A
<1>11. \A c \in Stored : content[c].epoch \in Nat
  BY DagAssumption DEF IInv, NodesOK
<1>12. 0 \in A
  <2>1. 1 \in 1 .. n
    BY <1>3
  <2>2. f[1] = ss[1] /\ Lists(ss[1], At(from + 1 - 1))
    BY <1>7, <1>9, <2>1
  <2>3. At(from + 1 - 1) = Between(from, from + 0)
    BY <1>1, <1>11 DEF At, Between
  <2> QED BY <1>10, <2>2, <2>3
<1>13. ASSUME NEW k \in A PROVE k + 1 \in A
  <2>1. SUFFICES ASSUME k + 1 < n PROVE Lists(f[k + 2], Between(from, from + (k + 1)))
    BY <1>10
  <2>2. k \in Nat /\ k < n /\ k + 2 \in 1 .. n /\ (k + 2) - 1 = k + 1 /\ k + 2 # 1
    BY <1>3, <1>10, <2>1
  <2>3. Lists(f[k + 1], Between(from, from + k))
    BY <1>10, <2>2
  <2>4. f[k + 2] = f[k + 1] \o ss[k + 2] /\ Lists(ss[k + 2], At(from + (k + 2) - 1))
    BY <1>7, <1>9, <2>2
  <2>5. from + (k + 2) - 1 = from + (k + 1)
    BY <1>1, <2>2
  <2>6. Lists(f[k + 2], Between(from, from + k) \cup At(from + (k + 1)))
    <3>1. \A c \in Between(from, from + k), d \in At(from + (k + 1)) :
            content[c].epoch \in Nat /\ content[d].epoch \in Nat /\ content[c].epoch < content[d].epoch
      BY <1>1, <1>11, <2>2 DEF At, Between
    <3> QED BY <2>3, <2>4, <2>5, <3>1, ConcatLists
  <2>7. Between(from, from + k) \cup At(from + (k + 1)) = Between(from, from + (k + 1))
    BY <1>1, <1>11, <2>2 DEF At, Between
  <2> QED BY <2>6, <2>7
<1>14. A = Nat
  BY <1>10, <1>12, <1>13, InductiveSet
<1>15. n - 1 \in Nat /\ n - 1 < n /\ (n - 1) + 1 = n /\ from + (n - 1) = to
  BY <1>1, <1>2, <1>3
<1>16. Lists(f[n], Between(from, to))
  BY <1>10, <1>14, <1>15
<1> QED BY <1>4, <1>8, <1>16

\* EpochScan of dag.go returns the nodes of the window of epochs, each once and by epoch,
\* after any history of puts, pins and restarts, whatever the lattice holds.
THEOREM ScansAreWindows == Spec => []ScanIsWindow
<1>1. ASSUME IInv, NEW from \in Epochs, NEW to \in Epochs, from <= to
      PROVE  LET found == EpochScan(from, to)
             IN  /\ IsInjective(found)
                 /\ Range(found) = {c \in Stored : content[c].epoch \in from .. to}
                 /\ \A i, j \in DOMAIN found : i < j => content[found[i]].epoch <= content[found[j]].epoch
  BY <1>1, ScanLists DEF Lists, InOrder, Between
<1>2. IInv => IndicesAgree
  BY InvAgrees
<1>3. IInv => ScanIsWindow
  BY <1>1, <1>2 DEF ScanIsWindow
<1> QED BY <1>3, InductiveInvariant, PTL

-----------------------------------------------------------------------------
(* The walk of a recall.  It is made of recursive functions: w gives what   *)
(* a walk of up to k nodes does, f what the first n links lead to, l the    *)
(* nodes that admitted paths of up to k links lead to.                      *)

Walks(q, k, w) ==
    w = [left \in 0 .. k |-> IF left = 0 THEN Stay ELSE Visits(q, w[left - 1], q.depth + 1 - left)]

Follows(walk, out, links, n, f) ==
    f = [i \in 0 .. n |-> IF i = 0 THEN out ELSE walk[links[i]][f[i - 1]]]

Levels(q, k, l) ==
    l = [n \in 0 .. k |-> IF n = 0 THEN {c \in {q.root} : Admits(q, c, 0)}
                          ELSE l[n - 1] \cup {c \in Links(l[n - 1]) : Admits(q, c, n)}]

LEMMA WalksExist ==
    ASSUME NEW q, NEW n \in Nat
    PROVE  \E x : Walks(q, n, x)
<1> DEFINE A == {k \in Nat : \E x : Walks(q, k, x)}
<1>1. A \in SUBSET Nat /\ \A k \in Nat : k \in A <=> \E x : Walks(q, k, x)
  OBVIOUS
<1> HIDE DEF A
<1>2. 0 \in A
  <2>1. Walks(q, 0, [i \in 0 .. 0 |-> Stay])
    BY DEF Walks
  <2> QED BY <1>1, <2>1
<1>3. ASSUME NEW k \in A PROVE k + 1 \in A
  <2>1. PICK x : Walks(q, k, x)
    BY <1>1
  <2> DEFINE h == [i \in 0 .. k + 1 |-> IF i = 0 THEN Stay ELSE Visits(q, x[i - 1], q.depth + 1 - i)]
  <2>2. k \in Nat
    BY <1>1
  <2>3. ASSUME NEW i \in 0 .. k PROVE h[i] = x[i]
    <3>1. i \in 0 .. k + 1
      BY <2>2
    <3>2. h[i] = IF i = 0 THEN Stay ELSE Visits(q, x[i - 1], q.depth + 1 - i)
      BY <3>1
    <3>3. x[i] = IF i = 0 THEN Stay ELSE Visits(q, x[i - 1], q.depth + 1 - i)
      BY <2>1, Zenon DEF Walks
    <3> QED BY <3>2, <3>3, Zenon
  <2>4. \A i \in 0 .. k + 1 : i # 0 => h[i - 1] = x[i - 1]
    <3>1. \A i \in 0 .. k + 1 : i # 0 => i - 1 \in 0 .. k
      BY <2>2
    <3> HIDE DEF h
    <3> QED BY <2>3, <3>1
  <2>5. h = [i \in 0 .. k + 1 |-> IF i = 0 THEN Stay ELSE Visits(q, h[i - 1], q.depth + 1 - i)]
    BY <2>4
  <2>6. Walks(q, k + 1, h)
    <3> HIDE DEF h
    <3> QED BY <2>5, Zenon DEF Walks
  <2> QED BY <1>1, <2>2, <2>6
<1>4. A = Nat
  BY <1>1, <1>2, <1>3, InductiveSet
<1> QED BY <1>1, <1>4

LEMMA FollowsExist ==
    ASSUME NEW walk, NEW out, NEW links, NEW n \in Nat
    PROVE  \E x : Follows(walk, out, links, n, x)
<1> DEFINE A == {k \in Nat : \E x : Follows(walk, out, links, k, x)}
<1>1. A \in SUBSET Nat /\ \A k \in Nat : k \in A <=> \E x : Follows(walk, out, links, k, x)
  OBVIOUS
<1> HIDE DEF A
<1>2. 0 \in A
  <2>1. Follows(walk, out, links, 0, [i \in 0 .. 0 |-> out])
    BY DEF Follows
  <2> QED BY <1>1, <2>1
<1>3. ASSUME NEW k \in A PROVE k + 1 \in A
  <2>1. PICK x : Follows(walk, out, links, k, x)
    BY <1>1
  <2> DEFINE h == [i \in 0 .. k + 1 |-> IF i = 0 THEN out ELSE walk[links[i]][x[i - 1]]]
  <2>2. k \in Nat
    BY <1>1
  <2>3. ASSUME NEW i \in 0 .. k PROVE h[i] = x[i]
    <3>1. i \in 0 .. k + 1
      BY <2>2
    <3>2. h[i] = IF i = 0 THEN out ELSE walk[links[i]][x[i - 1]]
      BY <3>1
    <3>3. x[i] = IF i = 0 THEN out ELSE walk[links[i]][x[i - 1]]
      BY <2>1, Zenon DEF Follows
    <3> QED BY <3>2, <3>3, Zenon
  <2>4. \A i \in 0 .. k + 1 : i # 0 => h[i - 1] = x[i - 1]
    <3>1. \A i \in 0 .. k + 1 : i # 0 => i - 1 \in 0 .. k
      BY <2>2
    <3> HIDE DEF h
    <3> QED BY <2>3, <3>1
  <2>5. h = [i \in 0 .. k + 1 |-> IF i = 0 THEN out ELSE walk[links[i]][h[i - 1]]]
    BY <2>4
  <2>6. Follows(walk, out, links, k + 1, h)
    <3> HIDE DEF h
    <3> QED BY <2>5, Zenon DEF Follows
  <2> QED BY <1>1, <2>2, <2>6
<1>4. A = Nat
  BY <1>1, <1>2, <1>3, InductiveSet
<1> QED BY <1>1, <1>4

LEMMA LevelsExist ==
    ASSUME NEW q, NEW n \in Nat
    PROVE  \E x : Levels(q, n, x)
<1> DEFINE A == {k \in Nat : \E x : Levels(q, k, x)}
<1>1. A \in SUBSET Nat /\ \A k \in Nat : k \in A <=> \E x : Levels(q, k, x)
  OBVIOUS
<1> HIDE DEF A
<1>2. 0 \in A
  <2>1. Levels(q, 0, [i \in 0 .. 0 |-> {c \in {q.root} : Admits(q, c, 0)}])
    BY DEF Levels
  <2> QED BY <1>1, <2>1
<1>3. ASSUME NEW k \in A PROVE k + 1 \in A
  <2>1. PICK x : Levels(q, k, x)
    BY <1>1
  <2> DEFINE h == [i \in 0 .. k + 1 |-> IF i = 0 THEN {c \in {q.root} : Admits(q, c, 0)}
                                  ELSE x[i - 1] \cup {c \in Links(x[i - 1]) : Admits(q, c, i)}]
  <2>2. k \in Nat
    BY <1>1
  <2>3. ASSUME NEW i \in 0 .. k PROVE h[i] = x[i]
    <3>1. i \in 0 .. k + 1
      BY <2>2
    <3>2. h[i] = IF i = 0 THEN {c \in {q.root} : Admits(q, c, 0)}
                                  ELSE x[i - 1] \cup {c \in Links(x[i - 1]) : Admits(q, c, i)}
      BY <3>1
    <3>3. x[i] = IF i = 0 THEN {c \in {q.root} : Admits(q, c, 0)}
                                  ELSE x[i - 1] \cup {c \in Links(x[i - 1]) : Admits(q, c, i)}
      BY <2>1, Zenon DEF Levels
    <3> QED BY <3>2, <3>3, Zenon
  <2>4. \A i \in 0 .. k + 1 : i # 0 => h[i - 1] = x[i - 1]
    <3>1. \A i \in 0 .. k + 1 : i # 0 => i - 1 \in 0 .. k
      BY <2>2
    <3> HIDE DEF h
    <3> QED BY <2>3, <3>1
  <2>5. h = [i \in 0 .. k + 1 |-> IF i = 0 THEN {c \in {q.root} : Admits(q, c, 0)}
                                  ELSE h[i - 1] \cup {c \in Links(h[i - 1]) : Admits(q, c, i)}]
    BY <2>4
  <2>6. Levels(q, k + 1, h)
    <3> HIDE DEF h
    <3> QED BY <2>5, Zenon DEF Levels
  <2> QED BY <1>1, <2>2, <2>6
<1>4. A = Nat
  BY <1>1, <1>2, <1>3, InductiveSet
<1> QED BY <1>1, <1>4

LEMMA WalkIs ==
    ASSUME NEW q, q.depth \in Nat
    PROVE  \E w : Walks(q, q.depth + 1, w) /\ Walk(q) = w[q.depth + 1]
<1> DEFINE g == CHOOSE w : w = [left \in 0 .. q.depth + 1 |->
                    IF left = 0 THEN Stay ELSE Visits(q, w[left - 1], q.depth + 1 - left)]
<1>1. Walk(q) = g[q.depth + 1]
  BY DEF Walk
<1>2. q.depth + 1 \in Nat
  OBVIOUS
<1>3. \E w : w = [left \in 0 .. q.depth + 1 |->
                    IF left = 0 THEN Stay ELSE Visits(q, w[left - 1], q.depth + 1 - left)]
  BY <1>2, WalksExist, Zenon DEF Walks
<1>4. g = [left \in 0 .. q.depth + 1 |->
                    IF left = 0 THEN Stay ELSE Visits(q, g[left - 1], q.depth + 1 - left)]
  BY <1>3, Zenon
<1> HIDE DEF g
<1>5. Walks(q, q.depth + 1, g)
  BY <1>4, Zenon DEF Walks
<1> QED BY <1>1, <1>5

LEMMA FollowIs ==
    ASSUME NEW walk, NEW out, NEW links, Len(links) \in Nat
    PROVE  \E f : Follows(walk, out, links, Len(links), f) /\ Follow(walk, out, links) = f[Len(links)]
<1> DEFINE g == CHOOSE f : f = [i \in 0 .. Len(links) |-> IF i = 0 THEN out ELSE walk[links[i]][f[i - 1]]]
<1>1. Follow(walk, out, links) = g[Len(links)]
  BY DEF Follow
<1>a. \E f : Follows(walk, out, links, Len(links), f)
  BY FollowsExist
<1>2. \E f : f = [i \in 0 .. Len(links) |-> IF i = 0 THEN out ELSE walk[links[i]][f[i - 1]]]
  BY <1>a, Zenon DEF Follows
<1>3. g = [i \in 0 .. Len(links) |-> IF i = 0 THEN out ELSE walk[links[i]][g[i - 1]]]
  BY <1>2, Zenon
<1> HIDE DEF g
<1>4. Follows(walk, out, links, Len(links), g)
  BY <1>3, Zenon DEF Follows
<1> QED BY <1>1, <1>4

LEMMA WithinIs ==
    ASSUME NEW q, q.depth \in Nat
    PROVE  \E l : Levels(q, q.depth, l) /\ Within(q) = l[q.depth]
<1> DEFINE g == CHOOSE l : l = [n \in 0 .. q.depth |->
                    IF n = 0 THEN {c \in {q.root} : Admits(q, c, 0)}
                    ELSE l[n - 1] \cup {c \in Links(l[n - 1]) : Admits(q, c, n)}]
<1>1. Within(q) = g[q.depth]
  BY DEF Within
<1>a. \E l : Levels(q, q.depth, l)
  BY LevelsExist
<1>2. \E l : l = [n \in 0 .. q.depth |->
                    IF n = 0 THEN {c \in {q.root} : Admits(q, c, 0)}
                    ELSE l[n - 1] \cup {c \in Links(l[n - 1]) : Admits(q, c, n)}]
  BY <1>a, Zenon DEF Levels
<1>3. g = [n \in 0 .. q.depth |->
                    IF n = 0 THEN {c \in {q.root} : Admits(q, c, 0)}
                    ELSE g[n - 1] \cup {c \in Links(g[n - 1]) : Admits(q, c, n)}]
  BY <1>2, Zenon
<1> HIDE DEF g
<1>4. Levels(q, q.depth, g)
  BY <1>3, Zenon DEF Levels
<1> QED BY <1>1, <1>4

\* A set of finds that no single link leaves is not left by following all of them.
LEMMA FollowStays ==
    ASSUME NEW P, NEW walk, NEW out \in P, NEW links \in Seq(Cids),
           \A i \in 1 .. Len(links) : \A o \in P : walk[links[i]][o] \in P
    PROVE  Follow(walk, out, links) \in P
<1>1. Len(links) \in Nat
  OBVIOUS
<1>2. PICK f : Follows(walk, out, links, Len(links), f) /\ Follow(walk, out, links) = f[Len(links)]
  BY <1>1, FollowIs
<1> DEFINE A == {k \in Nat : k <= Len(links) => f[k] \in P}
<1>3. A \in SUBSET Nat /\ \A k \in Nat : k \in A <=> (k <= Len(links) => f[k] \in P)
  OBVIOUS
<1> HIDE DEF A
<1>4. 0 \in A
  <2>1. 0 \in 0 .. Len(links)
    BY <1>1
  <2>2. f[0] = out
    BY <1>2, <2>1, Zenon DEF Follows
  <2> QED BY <1>3, <2>2
<1>5. ASSUME NEW k \in A PROVE k + 1 \in A
  <2>1. SUFFICES ASSUME k + 1 <= Len(links) PROVE f[k + 1] \in P
    BY <1>3
  <2>2. k \in Nat /\ k <= Len(links) /\ f[k] \in P
    BY <1>1, <1>3, <2>1
  <2>3. k + 1 \in 0 .. Len(links) /\ k + 1 # 0 /\ (k + 1) - 1 = k /\ k + 1 \in 1 .. Len(links)
    BY <1>1, <2>1, <2>2
  <2>4. f[k + 1] = walk[links[k + 1]][f[(k + 1) - 1]]
    BY <1>2, <2>3, Zenon DEF Follows
  <2>5. f[k + 1] = walk[links[k + 1]][f[k]]
    BY <2>3, <2>4
  <2> QED BY <2>2, <2>3, <2>5
<1>6. A = Nat
  BY <1>3, <1>4, <1>5, InductiveSet
<1> QED BY <1>1, <1>2, <1>3, <1>6

LEMMA AtMostOne == ASSUME NEW n \in Nat, n <= 1 PROVE n = 0 \/ n = 1
OBVIOUS

LEMMA RangeOfOne ==
    ASSUME NEW S, NEW s \in Seq(S), Len(s) = 1
    PROVE  Range(s) = {s[1]} /\ s[1] \in S
<1>1. DOMAIN s = 1 .. 1 /\ s[1] \in S
  OBVIOUS
<1>2. \A i \in 1 .. 1 : i = 1
  OBVIOUS
<1> QED BY <1>1, <1>2 DEF Range

\* No link leads nowhere, and a single one is walked.
LEMMA FollowShort ==
    ASSUME NEW walk, NEW out, NEW links \in Seq(Cids), Len(links) <= 1
    PROVE  Follow(walk, out, links) = IF Len(links) = 0 THEN out ELSE walk[links[1]][out]
<1>1. Len(links) \in Nat
  OBVIOUS
<1>2. PICK f : Follows(walk, out, links, Len(links), f) /\ Follow(walk, out, links) = f[Len(links)]
  BY <1>1, FollowIs
<1>3. 0 \in 0 .. Len(links)
  BY <1>1
<1>4. f[0] = out
  BY <1>2, <1>3, Zenon DEF Follows
<1>5. CASE Len(links) = 0
  BY <1>2, <1>4, <1>5
<1>6. CASE Len(links) = 1
  <2>1. 1 \in 0 .. Len(links) /\ 1 # 0 /\ 1 - 1 = 0
    BY <1>6
  <2>2. f[1] = walk[links[1]][f[1 - 1]]
    BY <1>2, <2>1, Zenon DEF Follows
  <2>3. f[1] = walk[links[1]][out]
    BY <1>4, <2>1, <2>2
  <2> QED BY <1>2, <1>6, <2>3
<1>7. Len(links) = 0 \/ Len(links) = 1
  BY <1>1, AtMostOne
<1> QED BY <1>5, <1>6, <1>7

\* What a walk does at the nodes that `left` more levels remain for.
LEMMA WalkStep ==
    ASSUME NEW q, q.depth \in Nat, NEW w, Walks(q, q.depth + 1, w), NEW c \in Cids, NEW out \in Found
    PROVE  /\ w[0][c][out] = out
           /\ \A k \in 0 .. q.depth : w[k + 1][c][out] = Visit(q, w[k], out, c, q.depth - k)
<1>1. w[0][c][out] = out
  <2>1. 0 \in 0 .. q.depth + 1
    OBVIOUS
  <2>2. w[0] = Stay
    BY <2>1, Zenon DEF Walks
  <2> QED BY <2>2 DEF Stay
<1>2. ASSUME NEW k \in 0 .. q.depth PROVE w[k + 1][c][out] = Visit(q, w[k], out, c, q.depth - k)
  <2>1. k + 1 \in 0 .. q.depth + 1 /\ k + 1 # 0 /\ (k + 1) - 1 = k /\ q.depth + 1 - (k + 1) = q.depth - k
    OBVIOUS
  <2>2. w[k + 1] = Visits(q, w[(k + 1) - 1], q.depth + 1 - (k + 1))
    BY <2>1, Zenon DEF Walks
  <2>3. w[k + 1] = Visits(q, w[k], q.depth - k)
    BY <2>1, <2>2
  <2> QED BY <2>3 DEF Visits
<1> QED BY <1>1, <1>2

\* What finding a node, or reporting it, makes of what was found before.
Met(out, c) == [visited |-> out.visited \cup {c}, fragments |-> Append(out.fragments, c), broken |-> out.broken]
Lost(out, c) == [visited |-> out.visited \cup {c}, fragments |-> out.fragments, broken |-> Append(out.broken, c)]

LEMMA SameFound ==
    ASSUME NEW a \in Found, NEW b \in Found,
           a.visited = b.visited, a.fragments = b.fragments, a.broken = b.broken
    PROVE  a = b
BY DEF Found

LEMMA VisitIs ==
    ASSUME NEW q, NEW walk, NEW out \in Found, NEW c \in Cids, NEW used
    PROVE  /\ Met(out, c) \in Found /\ Lost(out, c) \in Found
           /\ c \in out.visited => Visit(q, walk, out, c, used) = out
           /\ c \notin out.visited /\ Admits(q, c, used) =>
                Visit(q, walk, out, c, used) = Follow(walk, Met(out, c), content[c].links)
           /\ c \notin out.visited /\ ~ Admits(q, c, used) => Visit(q, walk, out, c, used) = Lost(out, c)
<1> DEFINE met == [out EXCEPT !.visited = @ \cup {c}]
<1>1. out.visited \in SUBSET Cids /\ out.fragments \in Seq(Cids) /\ out.broken \in Seq(Cids)
  BY DEF Found
<1>2. Append(out.fragments, c) \in Seq(Cids) /\ Append(out.broken, c) \in Seq(Cids)
  BY <1>1
<1>3. Met(out, c) \in Found /\ Lost(out, c) \in Found
  BY <1>1, <1>2 DEF Met, Lost, Found
<1>4. met \in Found /\ met.visited = out.visited \cup {c} /\ met.fragments = out.fragments /\ met.broken = out.broken
  BY <1>1 DEF Found
<1>5. [met EXCEPT !.fragments = Append(@, c)] = Met(out, c) /\ [met EXCEPT !.broken = Append(@, c)] = Lost(out, c)
  <2> HIDE DEF met
  <2> DEFINE a == [met EXCEPT !.fragments = Append(@, c)]
             b == [met EXCEPT !.broken = Append(@, c)]
  <2>1. /\ a \in Found /\ a.visited = met.visited /\ a.fragments = Append(met.fragments, c)
        /\ a.broken = met.broken
    BY <1>2, <1>4 DEF Found
  <2>2. /\ b \in Found /\ b.visited = met.visited /\ b.fragments = met.fragments
        /\ b.broken = Append(met.broken, c)
    BY <1>2, <1>4 DEF Found
  <2> HIDE DEF a, b
  <2>3. a = Met(out, c)
    <3>1. /\ Met(out, c).visited = out.visited \cup {c} /\ Met(out, c).broken = out.broken
          /\ Met(out, c).fragments = Append(out.fragments, c)
      BY DEF Met
    <3> QED BY <1>3, <1>4, <2>1, <3>1, SameFound
  <2>4. b = Lost(out, c)
    <3>1. /\ Lost(out, c).visited = out.visited \cup {c} /\ Lost(out, c).fragments = out.fragments
          /\ Lost(out, c).broken = Append(out.broken, c)
      BY DEF Lost
    <3> QED BY <1>3, <1>4, <2>2, <3>1, SameFound
  <2> QED BY <2>3, <2>4 DEF a, b
<1>6. Visit(q, walk, out, c, used) =
        IF c \in out.visited THEN out
        ELSE IF Admits(q, c, used) THEN Follow(walk, [met EXCEPT !.fragments = Append(@, c)], content[c].links)
                                   ELSE [met EXCEPT !.broken = Append(@, c)]
  BY Zenon DEF Visit
<1> HIDE DEF met
<1> QED BY <1>3, <1>5, <1>6, Zenon

-----------------------------------------------------------------------------
(* The levels that the walk explores.                                       *)

\* All that the walk asks of a request.
Proper(q) == q.depth \in Nat /\ q.token \in Nat /\ q.root \in Cids

LEMMA RequestIs == \A q \in Requests : Proper(q)
BY RecallAssumption DEF Requests, Proper

LEMMA Upto == ASSUME NEW d \in Nat, NEW n \in 0 .. d PROVE n \in Nat
OBVIOUS

LEMMA LinksAre ==
    ASSUME NodesOK
    PROVE  /\ \A c \in Cids : content[c].links \in Seq(Cids)
           /\ \A S \in SUBSET Cids : Links(S) \in SUBSET Cids
<1>1. \A c \in Cids : content[c].links \in Seq(Cids)
  BY RecallAssumption DEF NodesOK
<1>2. ASSUME NEW c \in Cids PROVE Range(content[c].links) \subseteq Cids
  <2>1. content[c].links \in Seq(Cids)
    BY <1>1
  <2>2. PICK s \in Seq(Cids) : s = content[c].links
    BY <2>1
  <2>3. Range(s) \subseteq Cids
    BY DEF Range
  <2> QED BY <2>2, <2>3
<1>3. ASSUME NEW S \in SUBSET Cids PROVE Links(S) \in SUBSET Cids
  BY <1>2 DEF Links
<1> QED BY <1>1, <1>3

\* A node that the tokens still pay for further away, they pay for nearby.
LEMMA AdmittedNearer ==
    ASSUME NEW q, Proper(q), NEW c, NEW u \in Nat, NEW v \in Nat, u <= v, Admits(q, c, v)
    PROVE  Admits(q, c, u)
<1>1. q.token \in Nat
  BY DEF Proper
<1>2. q.token >= v
  BY DEF Admits
<1>3. q.token >= u
  BY <1>1, <1>2
<1> QED BY <1>3 DEF Admits

LEMMA LevelStep ==
    ASSUME NEW q, q.depth \in Nat, NEW l, Levels(q, q.depth, l)
    PROVE  /\ l[0] = {c \in {q.root} : Admits(q, c, 0)}
           /\ \A n \in Nat : n + 1 <= q.depth =>
                l[n + 1] = l[n] \cup {c \in Links(l[n]) : Admits(q, c, n + 1)}
<1>1. l[0] = {c \in {q.root} : Admits(q, c, 0)}
  <2>1. 0 \in 0 .. q.depth
    OBVIOUS
  <2> QED BY <2>1, Zenon DEF Levels
<1>2. ASSUME NEW n \in Nat, n + 1 <= q.depth
      PROVE  l[n + 1] = l[n] \cup {c \in Links(l[n]) : Admits(q, c, n + 1)}
  <2>1. n + 1 \in 0 .. q.depth /\ n + 1 # 0 /\ (n + 1) - 1 = n
    BY <1>2
  <2>2. l[n + 1] = l[(n + 1) - 1] \cup {c \in Links(l[(n + 1) - 1]) : Admits(q, c, n + 1)}
    BY <2>1, Zenon DEF Levels
  <2> QED BY <2>1, <2>2
<1> QED BY <1>1, <1>2

LEMMA LevelNext ==
    ASSUME NEW q, Proper(q), NEW l, Levels(q, q.depth, l)
    PROVE  \A m \in Nat : m + 1 <= q.depth =>
              l[m + 1] = l[m] \cup {c \in Links(l[m]) : Admits(q, c, m + 1)}
<1>1. q.depth \in Nat
  BY DEF Proper
<1> QED BY <1>1, LevelStep

\* What the gates let through at some distance from the root.
Allowed(q) == {c \in Cids : \E u \in Nat : Admits(q, c, u)}

LEMMA LevelsAllowed ==
    ASSUME NodesOK, NEW q, Proper(q), NEW l, Levels(q, q.depth, l), NEW n \in 0 .. q.depth
    PROVE  l[n] \subseteq Allowed(q)
<1>0. q.depth \in Nat /\ q.root \in Cids
  BY DEF Proper
<1>1. /\ l[0] = {c \in {q.root} : Admits(q, c, 0)}
      /\ \A m \in Nat : m + 1 <= q.depth => l[m + 1] = l[m] \cup {c \in Links(l[m]) : Admits(q, c, m + 1)}
  BY <1>0, LevelStep, Zenon
<1> DEFINE A == {k \in Nat : k <= q.depth => l[k] \subseteq Allowed(q)}
<1>2. A \in SUBSET Nat /\ \A k \in Nat : k \in A <=> (k <= q.depth => l[k] \subseteq Allowed(q))
  OBVIOUS
<1> HIDE DEF A
<1>3. 0 \in A
  BY <1>0, <1>1, <1>2 DEF Allowed
<1>4. ASSUME NEW k \in A PROVE k + 1 \in A
  <2>1. SUFFICES ASSUME k + 1 <= q.depth PROVE l[k + 1] \subseteq Allowed(q)
    BY <1>2
  <2>2. k \in Nat /\ k <= q.depth /\ l[k] \subseteq Allowed(q)
    BY <1>0, <1>2, <2>1
  <2>3. l[k] \in SUBSET Cids
    BY <2>2 DEF Allowed
  <2>4. Links(l[k]) \in SUBSET Cids
    BY <2>3, LinksAre
  <2>5. l[k + 1] = l[k] \cup {c \in Links(l[k]) : Admits(q, c, k + 1)}
    BY <1>1, <2>1, <2>2
  <2>6. k + 1 \in Nat
    BY <2>2
  <2>7. {c \in Links(l[k]) : Admits(q, c, k + 1)} \subseteq Allowed(q)
    BY <2>4, <2>6 DEF Allowed
  <2> QED BY <2>2, <2>5, <2>7
<1>5. A = Nat
  BY <1>2, <1>3, <1>4, InductiveSet
<1> QED BY <1>0, <1>2, <1>5

LEMMA LevelsGrow ==
    ASSUME NEW q, Proper(q), NEW l, Levels(q, q.depth, l), NEW n \in 0 .. q.depth
    PROVE  l[n] \subseteq l[q.depth]
<1>0. q.depth \in Nat /\ n \in Nat
  BY Upto DEF Proper
<1>1. \A m \in Nat : m + 1 <= q.depth => l[m + 1] = l[m] \cup {c \in Links(l[m]) : Admits(q, c, m + 1)}
  BY LevelNext, Zenon
<1> DEFINE A == {k \in Nat : n + k <= q.depth => l[n] \subseteq l[n + k]}
<1>2. A \in SUBSET Nat /\ \A k \in Nat : k \in A <=> (n + k <= q.depth => l[n] \subseteq l[n + k])
  OBVIOUS
<1> HIDE DEF A
<1>3. 0 \in A
  <2>1. n + 0 = n
    BY <1>0
  <2> QED BY <1>2, <2>1
<1>4. ASSUME NEW k \in A PROVE k + 1 \in A
  <2>1. SUFFICES ASSUME n + (k + 1) <= q.depth PROVE l[n] \subseteq l[n + (k + 1)]
    BY <1>2
  <2>2. k \in Nat /\ n + k \in Nat /\ (n + k) + 1 = n + (k + 1) /\ (n + k) + 1 <= q.depth /\ n + k <= q.depth
    BY <1>0, <1>2, <2>1
  <2>3. l[n] \subseteq l[n + k]
    BY <1>2, <2>2
  <2>4. l[(n + k) + 1] = l[n + k] \cup {c \in Links(l[n + k]) : Admits(q, c, (n + k) + 1)}
    BY <1>1, <2>2
  <2>5. l[n] \subseteq l[(n + k) + 1]
    BY <2>3, <2>4
  <2> QED BY <2>2, <2>5
<1>5. A = Nat
  BY <1>2, <1>3, <1>4, InductiveSet
<1>6. q.depth - n \in Nat /\ n + (q.depth - n) = q.depth
  BY <1>0
<1> QED BY <1>0, <1>2, <1>5, <1>6

\* Once no further link is let through, the levels stay the same.
LEMMA LevelsStay ==
    ASSUME NEW q, Proper(q), NEW l, Levels(q, q.depth, l), NEW n \in 0 .. q.depth,
           \A c \in Links(l[n]) : c \in l[n] \/ ~ Admits(q, c, n + 1)
    PROVE  l[q.depth] = l[n]
<1>0. q.depth \in Nat /\ n \in Nat
  BY Upto DEF Proper
<1>1. \A m \in Nat : m + 1 <= q.depth => l[m + 1] = l[m] \cup {c \in Links(l[m]) : Admits(q, c, m + 1)}
  BY LevelNext, Zenon
<1> DEFINE A == {k \in Nat : n + k <= q.depth => l[n + k] = l[n]}
<1>2. A \in SUBSET Nat /\ \A k \in Nat : k \in A <=> (n + k <= q.depth => l[n + k] = l[n])
  OBVIOUS
<1> HIDE DEF A
<1>3. 0 \in A
  <2>1. n + 0 = n
    BY <1>0
  <2> QED BY <1>2, <2>1
<1>4. ASSUME NEW k \in A PROVE k + 1 \in A
  <2>1. SUFFICES ASSUME n + (k + 1) <= q.depth PROVE l[n + (k + 1)] = l[n]
    BY <1>2
  <2>2. /\ k \in Nat /\ n + k \in Nat /\ (n + k) + 1 = n + (k + 1)
        /\ (n + k) + 1 <= q.depth /\ n + k <= q.depth /\ n + 1 \in Nat /\ n + 1 <= (n + k) + 1 /\ (n + k) + 1 \in Nat
    BY <1>0, <1>2, <2>1
  <2>3. l[n + k] = l[n]
    BY <1>2, <2>2
  <2>4. l[(n + k) + 1] = l[n + k] \cup {c \in Links(l[n + k]) : Admits(q, c, (n + k) + 1)}
    BY <1>1, <2>2
  <2>5. \A c \in Links(l[n]) : Admits(q, c, (n + k) + 1) => c \in l[n]
    BY <2>2, AdmittedNearer
  <2>6. l[(n + k) + 1] = l[n]
    BY <2>3, <2>4, <2>5
  <2> QED BY <2>2, <2>6
<1>5. A = Nat
  BY <1>2, <1>3, <1>4, InductiveSet
<1>6. q.depth - n \in Nat /\ n + (q.depth - n) = q.depth
  BY <1>0
<1>7. n + (q.depth - n) <= q.depth => l[n + (q.depth - n)] = l[n]
  BY <1>2, <1>5, <1>6
<1>8. n + (q.depth - n) <= q.depth
  BY <1>0, <1>6
<1> QED BY <1>6, <1>7, <1>8, Zenon

-----------------------------------------------------------------------------
(* What the walk finds.                                                     *)

\* Finds that return each fragment once, only fragments they visited, all of them in S.
Good(S) == {o \in Found : IsInjective(o.fragments) /\ Range(o.fragments) \subseteq o.visited \cap S}

\* The nodes that a walk may come to after n links.
Reachable(q, l, n) == IF n = 0 THEN {q.root} ELSE Links(l[n - 1])

LEMMA AdmittedReached ==
    ASSUME NEW q, Proper(q), NEW l, Levels(q, q.depth, l), NEW n \in 0 .. q.depth,
           NEW c \in Reachable(q, l, n), Admits(q, c, n)
    PROVE  c \in l[n]
<1>0. q.depth \in Nat /\ n \in Nat
  BY Upto DEF Proper
<1>1. /\ l[0] = {x \in {q.root} : Admits(q, x, 0)}
      /\ \A m \in Nat : m + 1 <= q.depth => l[m + 1] = l[m] \cup {x \in Links(l[m]) : Admits(q, x, m + 1)}
  BY <1>0, LevelStep, Zenon
<1>2. CASE n = 0
  BY <1>1, <1>2 DEF Reachable
<1>3. CASE n # 0
  <2>1. n - 1 \in Nat /\ (n - 1) + 1 = n /\ (n - 1) + 1 <= q.depth
    BY <1>0, <1>3
  <2>2. l[(n - 1) + 1] = l[n - 1] \cup {x \in Links(l[n - 1]) : Admits(q, x, (n - 1) + 1)}
    BY <1>1, <2>1
  <2>3. l[n] = l[n - 1] \cup {x \in Links(l[n - 1]) : Admits(q, x, n)}
    BY <2>1, <2>2
  <2> QED BY <1>3, <2>3 DEF Reachable
<1> QED BY <1>2, <1>3

LEMMA MetGood ==
    ASSUME NEW S, NEW o \in Good(S), NEW c \in Cids, c \notin o.visited
    PROVE  /\ c \in S => Met(o, c) \in Good(S)
           /\ Range(Met(o, c).fragments) = Range(o.fragments) \cup {c}
           /\ Lost(o, c) \in Good(S)
<1>1. o \in Found /\ IsInjective(o.fragments) /\ Range(o.fragments) \subseteq o.visited \cap S
  BY DEF Good
<1>2. o.fragments \in Seq(Cids) /\ o.visited \in SUBSET Cids /\ o.broken \in Seq(Cids)
  BY <1>1 DEF Found
<1>3. c \notin Range(o.fragments)
  BY <1>1
<1>4. /\ Append(o.fragments, c) \in Seq(Cids) /\ IsInjective(Append(o.fragments, c))
      /\ Range(Append(o.fragments, c)) = Range(o.fragments) \cup {c}
  BY <1>1, <1>2, <1>3, AppendListed
<1>5. Append(o.broken, c) \in Seq(Cids)
  BY <1>2
<1>6. /\ Met(o, c).fragments = Append(o.fragments, c) /\ Met(o, c).visited = o.visited \cup {c}
      /\ Lost(o, c).fragments = o.fragments /\ Lost(o, c).visited = o.visited \cup {c}
      /\ Met(o, c) \in Found /\ Lost(o, c) \in Found
  BY <1>2, <1>4, <1>5 DEF Met, Lost, Found
<1>7. Lost(o, c) \in Good(S)
  BY <1>1, <1>6 DEF Good
<1>8. ASSUME c \in S PROVE Met(o, c) \in Good(S)
  BY <1>1, <1>4, <1>6, <1>8 DEF Good
<1> QED BY <1>4, <1>6, <1>7, <1>8

\* One node: the walk stays good if it does on all nodes one link further away.
LEMMA VisitGood ==
    ASSUME NodesOK, NEW q, Proper(q), NEW l, Levels(q, q.depth, l), NEW n \in 0 .. q.depth,
           NEW walk, NEW c \in Cids, c \in Reachable(q, l, n), NEW o \in Good(l[q.depth]),
           \A d \in Links(l[n]) : \A p \in Good(l[q.depth]) : walk[d][p] \in Good(l[q.depth])
    PROVE  Visit(q, walk, o, c, n) \in Good(l[q.depth])
<1>1. o \in Found
  BY DEF Good
<1>2. CASE c \in o.visited
  BY <1>1, <1>2, VisitIs
<1>3. CASE c \notin o.visited /\ ~ Admits(q, c, n)
  <2>1. Lost(o, c) \in Good(l[q.depth])
    BY <1>3, MetGood
  <2> QED BY <1>1, <1>3, <2>1, VisitIs
<1>4. CASE c \notin o.visited /\ Admits(q, c, n)
  <2>1. c \in l[n]
    BY <1>4, AdmittedReached
  <2>2. c \in l[q.depth]
    BY <2>1, LevelsGrow
  <2>3. Met(o, c) \in Good(l[q.depth])
    BY <1>4, <2>2, MetGood
  <2>4. PICK links \in Seq(Cids) : links = content[c].links
    BY LinksAre
  <2>5. Range(links) \subseteq Links(l[n])
    BY <2>1, <2>4 DEF Links
  <2>6. \A i \in 1 .. Len(links) : links[i] \in Links(l[n])
    BY <2>5 DEF Range
  <2>7. \A i \in 1 .. Len(links) : \A p \in Good(l[q.depth]) : walk[links[i]][p] \in Good(l[q.depth])
    BY <2>6
  <2>8. Follow(walk, Met(o, c), links) \in Good(l[q.depth])
    BY <2>3, <2>7, FollowStays
  <2> QED BY <1>1, <1>4, <2>4, <2>8, VisitIs
<1> QED BY <1>2, <1>3, <1>4

LEMMA WalkGood ==
    ASSUME NodesOK, NEW q, Proper(q), NEW l, Levels(q, q.depth, l),
           NEW w, Walks(q, q.depth + 1, w)
    PROVE  w[q.depth + 1][q.root][Nothing] \in Good(l[q.depth])
<1>0. q.depth \in Nat /\ q.root \in Cids
  BY DEF Proper
<1> DEFINE S == Good(l[q.depth])
           GoodFrom(k) == \A c \in Cids : \A o \in S :
                              (k = 0 \/ c \in Reachable(q, l, q.depth + 1 - k)) => w[k][c][o] \in S
           A == {k \in Nat : k <= q.depth + 1 => GoodFrom(k)}
<1>1. S \subseteq Found
  BY DEF Good
<1>2. A \in SUBSET Nat /\ \A k \in Nat : k \in A <=> (k <= q.depth + 1 => GoodFrom(k))
  OBVIOUS
<1> HIDE DEF A
<1>3. 0 \in A
  <2>1. ASSUME NEW c \in Cids, NEW o \in S PROVE w[0][c][o] = o
    <3>1. o \in Found
      BY <1>1
    <3> QED BY <1>0, <3>1, WalkStep
  <2>2. GoodFrom(0)
    BY <2>1
  <2> QED BY <1>2, <2>2
<1>4. ASSUME NEW k \in A PROVE k + 1 \in A
  <2> HIDE DEF GoodFrom
  <2>1. SUFFICES ASSUME k + 1 <= q.depth + 1 PROVE GoodFrom(k + 1)
    BY <1>2
  <2> USE DEF GoodFrom
  <2>2. /\ k \in Nat /\ k <= q.depth + 1 /\ k \in 0 .. q.depth /\ q.depth - k \in 0 .. q.depth
        /\ q.depth + 1 - (k + 1) = q.depth - k /\ k + 1 # 0
        /\ (k # 0 => q.depth + 1 - k # 0 /\ (q.depth + 1 - k) - 1 = q.depth - k)
    BY <1>0, <1>2, <2>1
  <2>3. GoodFrom(k)
    BY <1>2, <2>2
  <2>4. l[q.depth - k] \in SUBSET Cids
    BY <2>2, LevelsAllowed DEF Allowed
  <2>5. Links(l[q.depth - k]) \in SUBSET Cids
    BY <2>4, LinksAre
  <2>6. \A d \in Links(l[q.depth - k]) : \A p \in S : w[k][d][p] \in S
    <3>1. k # 0 => Reachable(q, l, q.depth + 1 - k) = Links(l[q.depth - k])
      BY <2>2 DEF Reachable
    <3> HIDE DEF S
    <3> QED BY <2>3, <2>5, <3>1
  <2>7. ASSUME NEW c \in Cids, NEW o \in S, c \in Reachable(q, l, q.depth - k)
        PROVE  w[k + 1][c][o] \in S
    <3>1. o \in Found
      BY <1>1
    <3>2. w[k + 1][c][o] = Visit(q, w[k], o, c, q.depth - k)
      BY <1>0, <2>2, <3>1, WalkStep
    <3>3. Visit(q, w[k], o, c, q.depth - k) \in S
      BY <2>2, <2>6, <2>7, VisitGood
    <3> QED BY <3>2, <3>3
  <2> HIDE DEF S
  <2> QED BY <2>2, <2>7
<1>5. A = Nat
  BY <1>2, <1>3, <1>4, InductiveSet
<1>6. GoodFrom(q.depth + 1)
  <2>1. q.depth + 1 \in Nat
    BY <1>0
  <2> QED BY <1>2, <1>5, <2>1
<1>7. Nothing \in S
  BY DEF Nothing, Good, Found, IsInjective, Range
<1>8. q.root \in Reachable(q, l, q.depth + 1 - (q.depth + 1))
  BY <1>0 DEF Reachable
<1>9. w[q.depth + 1][q.root][Nothing] \in S
  <2> HIDE DEF S
  <2> QED BY <1>0, <1>6, <1>7, <1>8
<1> QED BY <1>9

-----------------------------------------------------------------------------
(* Histories with one link each.                                            *)

\* The walk found all of S and reports at most one link.
Whole(o, S) == Range(o.fragments) = S /\ Len(o.broken) <= 1

\* A walk along single links has found all that n links less one lead to, and has no
\* other way to go on than c.
Ready(q, l, o, c, n) ==
    /\ o \in Good(l[q.depth])
    /\ o.broken = <<>> /\ Range(o.fragments) = o.visited
    /\ c \in Reachable(q, l, n)
    /\ n = 0 => o.visited = {}
    /\ n # 0 => o.visited = l[n - 1] /\ Links(l[n - 1]) \subseteq l[n - 1] \cup {c}

\* The levels once c is met, n links away, and once it is not.
LEMMA ReadyLevels ==
    ASSUME NEW q, Proper(q), NEW l, Levels(q, q.depth, l), NEW n \in 0 .. q.depth,
           NEW c \in Cids, NEW o, Ready(q, l, o, c, n)
    PROVE  /\ c \in o.visited => l[q.depth] = o.visited
           /\ c \notin o.visited /\ ~ Admits(q, c, n) => l[q.depth] = o.visited
           /\ c \notin o.visited /\ Admits(q, c, n) =>
                /\ l[n] = o.visited \cup {c}
                /\ Links(l[n]) \subseteq l[n] \cup Range(content[c].links)
<1>0. q.depth \in Nat /\ n \in Nat
  BY Upto DEF Proper
<1>1. /\ l[0] = {x \in {q.root} : Admits(q, x, 0)}
      /\ \A m \in Nat : m + 1 <= q.depth => l[m + 1] = l[m] \cup {x \in Links(l[m]) : Admits(q, x, m + 1)}
  BY <1>0, LevelStep, Zenon
<1>2. CASE n = 0
  <2>1. o.visited = {} /\ c = q.root
    BY <1>2 DEF Ready, Reachable
  <2>2. Links({}) = {}
    BY DEF Links
  <2>3. ASSUME ~ Admits(q, c, n) PROVE l[q.depth] = {}
    <3>1. l[0] = {}
      BY <1>1, <1>2, <2>1, <2>3
    <3>2. \A x \in Links(l[0]) : x \in l[0] \/ ~ Admits(q, x, 0 + 1)
      BY <2>2, <3>1
    <3>3. 0 \in 0 .. q.depth
      BY <1>0
    <3> QED BY <3>1, <3>2, <3>3, LevelsStay
  <2>4. ASSUME Admits(q, c, n) PROVE l[n] = {c} /\ Links(l[n]) \subseteq Range(content[c].links)
    <3>1. l[n] = {c}
      BY <1>1, <1>2, <2>1, <2>4
    <3> QED BY <3>1 DEF Links
  <2> QED BY <2>1, <2>3, <2>4
<1>3. CASE n # 0
  <2>1. n - 1 \in Nat /\ (n - 1) + 1 = n /\ (n - 1) + 1 <= q.depth /\ n - 1 \in 0 .. q.depth
    BY <1>0, <1>3
  <2>2. l[(n - 1) + 1] = l[n - 1] \cup {x \in Links(l[n - 1]) : Admits(q, x, (n - 1) + 1)}
    BY <1>1, <2>1
  <2>3. l[n] = l[n - 1] \cup {x \in Links(l[n - 1]) : Admits(q, x, n)}
    BY <2>1, <2>2
  <2>4. o.visited = l[n - 1] /\ Links(l[n - 1]) \subseteq l[n - 1] \cup {c} /\ c \in Links(l[n - 1])
    BY <1>3 DEF Ready, Reachable
  <2>5. ASSUME c \in o.visited \/ ~ Admits(q, c, n) PROVE l[q.depth] = o.visited
    <3>1. \A x \in Links(l[n - 1]) : x \in l[n - 1] \/ ~ Admits(q, x, n)
      BY <2>4, <2>5
    <3>2. \A x \in Links(l[n - 1]) : x \in l[n - 1] \/ ~ Admits(q, x, (n - 1) + 1)
      BY <2>1, <3>1
    <3>3. l[q.depth] = l[n - 1]
      BY <2>1, <3>2, LevelsStay
    <3> QED BY <2>4, <3>3
  <2>6. ASSUME Admits(q, c, n)
        PROVE  l[n] = o.visited \cup {c} /\ Links(l[n]) \subseteq l[n] \cup Range(content[c].links)
    <3>1. l[n] = l[n - 1] \cup {c}
      BY <2>3, <2>4, <2>6
    <3>2. Links(l[n - 1] \cup {c}) = Links(l[n - 1]) \cup Range(content[c].links)
      BY DEF Links
    <3> QED BY <2>4, <3>1, <3>2
  <2> QED BY <2>5, <2>6
<1> QED BY <1>2, <1>3

LEMMA VisitWhole ==
    ASSUME NodesOK, \A x \in Stored : Len(content[x].links) <= 1,
           NEW q, Proper(q), NEW l, Levels(q, q.depth, l), NEW n \in 0 .. q.depth,
           NEW walk, NEW c \in Cids, NEW o, Ready(q, l, o, c, n),
           \A d \in Cids, p \in Found :
               (n # q.depth /\ Ready(q, l, p, d, n + 1)) => Whole(walk[d][p], l[q.depth]),
           n = q.depth => \A d \in Cids, p \in Found : walk[d][p] = p
    PROVE  Whole(Visit(q, walk, o, c, n), l[q.depth])
<1>0. q.depth \in Nat /\ n \in Nat
  BY Upto DEF Proper
<1>1. o \in Good(l[q.depth]) /\ o \in Found /\ o.broken = <<>> /\ Range(o.fragments) = o.visited
  BY DEF Ready, Good
<1>2. /\ c \in o.visited => l[q.depth] = o.visited
      /\ c \notin o.visited /\ ~ Admits(q, c, n) => l[q.depth] = o.visited
      /\ c \notin o.visited /\ Admits(q, c, n) =>
            /\ l[n] = o.visited \cup {c}
            /\ Links(l[n]) \subseteq l[n] \cup Range(content[c].links)
  BY ReadyLevels
<1>3. CASE c \in o.visited
  <2>1. Visit(q, walk, o, c, n) = o
    BY <1>1, <1>3, VisitIs
  <2>2. Len(o.broken) <= 1
    BY <1>1
  <2> QED BY <1>1, <1>2, <1>3, <2>1, <2>2 DEF Whole
<1>4. CASE c \notin o.visited /\ ~ Admits(q, c, n)
  <2>1. Visit(q, walk, o, c, n) = Lost(o, c)
    BY <1>1, <1>4, VisitIs
  <2>2. Lost(o, c).fragments = o.fragments /\ Lost(o, c).broken = Append(<<>>, c)
    BY <1>1 DEF Lost
  <2>3. Len(Append(<<>>, c)) = 1
    OBVIOUS
  <2> QED BY <1>1, <1>2, <1>4, <2>1, <2>2, <2>3 DEF Whole
<1>5. CASE c \notin o.visited /\ Admits(q, c, n)
  <2> DEFINE met == Met(o, c)
  <2>1. l[n] = o.visited \cup {c} /\ Links(l[n]) \subseteq l[n] \cup Range(content[c].links)
    BY <1>2, <1>5
  <2>2. c \in l[n] /\ l[n] \subseteq l[q.depth] /\ l[n] \in SUBSET Cids
    BY <2>1, LevelsGrow, LevelsAllowed DEF Allowed
  <2>3. /\ met \in Good(l[q.depth]) /\ met \in Found
        /\ met.broken = <<>> /\ Range(met.fragments) = l[n] /\ met.visited = l[n]
    <3>1. met \in Good(l[q.depth]) /\ Range(met.fragments) = Range(o.fragments) \cup {c}
      <4>1. o \in Good(l[q.depth]) /\ c \in l[q.depth] /\ c \notin o.visited
        BY <1>1, <1>5, <2>2
      <4> QED BY <4>1, MetGood
    <3>2. met.visited = o.visited \cup {c} /\ met.broken = o.broken
      BY DEF Met
    <3> QED BY <1>1, <2>1, <3>1, <3>2 DEF Good
  <2>4. PICK links \in Seq(Cids) : links = content[c].links
    BY LinksAre
  <2>5. Len(links) \in Nat /\ Len(links) <= 1
    <3>1. c \in Stored
      BY <1>5 DEF Admits
    <3>2. Len(content[c].links) <= 1
      BY <3>1
    <3> QED BY <2>4, <3>2
  <2>6. Visit(q, walk, o, c, n) = Follow(walk, met, links)
    BY <1>1, <1>5, <2>4, VisitIs
  <2>7. Visit(q, walk, o, c, n) = IF Len(links) = 0 THEN met ELSE walk[links[1]][met]
    BY <2>5, <2>6, FollowShort
  <2>8. Len(met.broken) <= 1
    BY <2>3
  <2> HIDE DEF met
  <2>9. CASE Len(links) = 0
    <3>1. Range(links) = {}
      BY <2>9 DEF Range
    <3>2. \A x \in Links(l[n]) : x \in l[n] \/ ~ Admits(q, x, n + 1)
      BY <2>1, <2>4, <3>1
    <3>3. l[q.depth] = l[n]
      BY <3>2, LevelsStay
    <3> QED BY <2>3, <2>7, <2>8, <2>9, <3>3 DEF Whole
  <2>10. CASE Len(links) = 1
    <3>1. Range(links) = {links[1]} /\ links[1] \in Cids
      BY <2>10, RangeOfOne
    <3>2. Visit(q, walk, o, c, n) = walk[links[1]][met]
      BY <2>7, <2>10
    <3>3. CASE n = q.depth
      <4>1. walk[links[1]][met] = met
        BY <2>3, <3>1, <3>3
      <4> QED BY <2>3, <2>8, <3>2, <3>3, <4>1 DEF Whole
    <3>4. CASE n # q.depth
      <4>1. n + 1 # 0 /\ (n + 1) - 1 = n
        BY <1>0
      <4>2. links[1] \in Links(l[n])
        BY <2>2, <2>4, <3>1 DEF Links
      <4>3. links[1] \in Reachable(q, l, n + 1)
        BY <4>1, <4>2 DEF Reachable
      <4>4. Links(l[n]) \subseteq l[n] \cup {links[1]}
        BY <2>1, <2>4, <3>1
      <4>5. Ready(q, l, met, links[1], n + 1)
        BY <2>3, <4>1, <4>3, <4>4 DEF Ready
      <4> QED BY <2>3, <3>1, <3>2, <3>4, <4>5
    <3> QED BY <3>3, <3>4
  <2>11. Len(links) = 0 \/ Len(links) = 1
    BY <2>5, AtMostOne
  <2> QED BY <2>9, <2>10, <2>11
<1> QED BY <1>3, <1>4, <1>5

LEMMA WalkWhole ==
    ASSUME NodesOK, \A x \in Stored : Len(content[x].links) <= 1,
           NEW q, Proper(q), NEW l, Levels(q, q.depth, l),
           NEW w, Walks(q, q.depth + 1, w)
    PROVE  Whole(w[q.depth + 1][q.root][Nothing], l[q.depth])
<1>0. q.depth \in Nat /\ q.root \in Cids
  BY DEF Proper
<1> DEFINE WholeFrom(k) == \A c \in Cids, o \in Found :
                              Ready(q, l, o, c, q.depth - k) => Whole(w[k + 1][c][o], l[q.depth])
           A == {k \in Nat : k <= q.depth => WholeFrom(k)}
<1>1. A \in SUBSET Nat /\ \A k \in Nat : k \in A <=> (k <= q.depth => WholeFrom(k))
  OBVIOUS
<1> HIDE DEF A
<1>2. \A c \in Cids, o \in Found :
        /\ w[0][c][o] = o
        /\ \A k \in 0 .. q.depth : w[k + 1][c][o] = Visit(q, w[k], o, c, q.depth - k)
  BY <1>0, WalkStep
<1>3. 0 \in A
  <2>1. ASSUME NEW c \in Cids, NEW o \in Found, Ready(q, l, o, c, q.depth - 0)
        PROVE  Whole(w[0 + 1][c][o], l[q.depth])
    <3>1. q.depth - 0 = q.depth /\ q.depth \in 0 .. q.depth /\ 0 \in 0 .. q.depth
      BY <1>0
    <3>2. w[0 + 1][c][o] = Visit(q, w[0], o, c, q.depth)
      BY <1>2, <3>1
    <3>3. Ready(q, l, o, c, q.depth)
      BY <2>1, <3>1
    <3>4. Whole(Visit(q, w[0], o, c, q.depth), l[q.depth])
      BY <1>2, <3>1, <3>3, VisitWhole
    <3> QED BY <3>2, <3>4
  <2>2. WholeFrom(0)
    BY <2>1
  <2> QED BY <1>1, <2>2
<1>4. ASSUME NEW k \in A PROVE k + 1 \in A
  <2> HIDE DEF WholeFrom
  <2>1. SUFFICES ASSUME k + 1 <= q.depth PROVE WholeFrom(k + 1)
    BY <1>1
  <2> USE DEF WholeFrom
  <2>2. /\ k \in Nat /\ k <= q.depth /\ k + 1 \in 0 .. q.depth
        /\ q.depth - (k + 1) \in 0 .. q.depth /\ q.depth - (k + 1) # q.depth
        /\ (q.depth - (k + 1)) + 1 = q.depth - k
    BY <1>0, <1>1, <2>1
  <2>3. WholeFrom(k)
    BY <1>1, <2>2
  <2>4. ASSUME NEW c \in Cids, NEW o \in Found, Ready(q, l, o, c, q.depth - (k + 1))
        PROVE  Whole(w[(k + 1) + 1][c][o], l[q.depth])
    <3>1. w[(k + 1) + 1][c][o] = Visit(q, w[k + 1], o, c, q.depth - (k + 1))
      BY <1>2, <2>2
    <3>2. \A d \in Cids, p \in Found :
            Ready(q, l, p, d, (q.depth - (k + 1)) + 1) => Whole(w[k + 1][d][p], l[q.depth])
      BY <2>2, <2>3
    <3>3. PICK n \in 0 .. q.depth : n = q.depth - (k + 1)
      BY <2>2
    <3>4. PICK walk : walk = w[k + 1]
      OBVIOUS
    <3>5. \A d \in Cids, p \in Found :
               (n # q.depth /\ Ready(q, l, p, d, n + 1)) => Whole(walk[d][p], l[q.depth])
      BY <3>2, <3>3, <3>4
    <3>6. n # q.depth /\ Ready(q, l, o, c, n)
      BY <2>2, <2>4, <3>3
    <3>7. Whole(Visit(q, walk, o, c, n), l[q.depth])
      BY <3>5, <3>6, VisitWhole
    <3> QED BY <3>1, <3>3, <3>4, <3>7
  <2> QED BY <2>4
<1>5. A = Nat
  BY <1>1, <1>3, <1>4, InductiveSet
<1>6. WholeFrom(q.depth)
  BY <1>0, <1>1, <1>5
<1>7. Nothing \in Good(l[q.depth]) /\ Nothing \in Found
  BY DEF Nothing, Good, Found, IsInjective, Range
<1>8. Ready(q, l, Nothing, q.root, q.depth - q.depth)
  <2>1. q.depth - q.depth = 0
    BY <1>0
  <2>2. q.root \in Reachable(q, l, 0)
    BY DEF Reachable
  <2>3. Nothing.broken = <<>> /\ Nothing.visited = {} /\ Range(Nothing.fragments) = {}
    BY DEF Nothing, Range
  <2> QED BY <1>7, <2>1, <2>2, <2>3 DEF Ready
<1> QED BY <1>0, <1>6, <1>7, <1>8

\* Recall of dag.go, after any history of the lattice: it returns each fragment once and
\* only those of the caller's stack that some path of admitted nodes within the depth and
\* the tokens leads to, each in the epoch window or under a lease that covers the epoch
\* asked for; over histories of single links it returns all of them and reports at most
\* one broken link.
THEOREM RecallsAreSound == Spec => []RecallSound
<1>1. ASSUME IInv, NEW q \in Requests
      PROVE  LET found == RecallOf(q).fragments
             IN  /\ IsInjective(found)
                 /\ Range(found) \subseteq Within(q)
                 /\ \A c \in Range(found) :
                     /\ content[c].stack = q.stack
                     /\ Drift(q.epoch, c) <= 2 \/ (c \in pinned /\ (nodes[c].pinExpiry = 0 \/ nodes[c].pinExpiry >= q.epoch))
                 /\ (\A c \in Cids : Len(content[c].links) <= 1) =>
                     /\ Range(found) = Within(q)
                     /\ Len(RecallOf(q).broken) <= 1
  <2>1. NodesOK /\ pinned = {c \in Stored : nodes[c].pinned} /\ Proper(q) /\ q.depth \in Nat
    BY <1>1, RequestIs DEF IInv, IndicesOK, Proper
  <2>2. PICK l : Levels(q, q.depth, l) /\ Within(q) = l[q.depth]
    BY <2>1, WithinIs
  <2>3. PICK w : Walks(q, q.depth + 1, w) /\ Walk(q) = w[q.depth + 1]
    BY <2>1, WalkIs
  <2>4. RecallOf(q) = w[q.depth + 1][q.root][Nothing]
    BY <2>3 DEF RecallOf
  <2>5. RecallOf(q) \in Good(l[q.depth])
    BY <2>1, <2>2, <2>3, <2>4, WalkGood
  <2>6. IsInjective(RecallOf(q).fragments) /\ Range(RecallOf(q).fragments) \subseteq l[q.depth]
    BY <2>5 DEF Good
  <2>7. q.depth \in 0 .. q.depth
    BY <2>1
  <2>8. l[q.depth] \subseteq Allowed(q)
    BY <2>1, <2>2, <2>7, LevelsAllowed
  <2>9. ASSUME NEW c \in Allowed(q)
        PROVE  /\ content[c].stack = q.stack
               /\ Drift(q.epoch, c) <= 2 \/ (c \in pinned /\ (nodes[c].pinExpiry = 0 \/ nodes[c].pinExpiry >= q.epoch))
    BY <2>1 DEF Allowed, Admits, LeaseActive
  <2>10. (\A c \in Cids : Len(content[c].links) <= 1) => Whole(RecallOf(q), l[q.depth])
    <3>1. SUFFICES ASSUME \A c \in Cids : Len(content[c].links) <= 1
                   PROVE  Whole(RecallOf(q), l[q.depth])
      OBVIOUS
    <3>2. \A x \in Stored : Len(content[x].links) <= 1
      BY <2>1, <3>1 DEF NodesOK
    <3> QED BY <2>1, <2>2, <2>3, <2>4, <3>2, WalkWhole
  <2> QED BY <2>2, <2>6, <2>8, <2>9, <2>10 DEF Whole
<1>2. IInv => RecallSound
  BY <1>1 DEF RecallSound
<1> QED BY <1>2, InductiveInvariant, PTL

-----------------------------------------------------------------------------
(* What the walk returns and reports, for the services that go on with it.  *)

Linked(s) == \A i \in 1 .. Len(s) : i + 1 <= Len(s) => s[i + 1] \in Range(content[s[i]].links)

\* The walk along single links has n fragments so far and comes to c.
Trail(q, o, c, n) ==
    /\ o \in Found /\ Len(o.fragments) = n /\ Linked(o.fragments)
    /\ n = 0 => c = q.root
    /\ n # 0 => o.fragments[1] = q.root /\ c \in Range(content[o.fragments[n]].links)

\* It returns a chain of linked fragments that begins with the root.
Chained(q, o) ==
    /\ Linked(o.fragments) /\ Len(o.fragments) <= q.depth + 1
    /\ Len(o.fragments) # 0 => o.fragments[1] = q.root

LEMMA AppendLinked ==
    ASSUME NEW s \in Seq(Cids), NEW c \in Cids, Linked(s),
           Len(s) # 0 => c \in Range(content[s[Len(s)]].links)
    PROVE  Linked(Append(s, c)) /\ Len(Append(s, c)) = Len(s) + 1
           /\ Append(s, c)[Len(s) + 1] = c /\ (Len(s) # 0 => Append(s, c)[1] = s[1])
<1>1. PICK n \in Nat : n = Len(s)
  OBVIOUS
<1>2. PICK g : g = Append(s, c)
  OBVIOUS
<1>3. Len(g) = n + 1 /\ (\A i \in 1 .. n : g[i] = s[i]) /\ g[n + 1] = c
  BY <1>1, <1>2
<1>4. ASSUME NEW i \in 1 .. n + 1, i + 1 <= n + 1 PROVE g[i + 1] \in Range(content[g[i]].links)
  <2>1. i \in 1 .. n /\ (i + 1 \in 1 .. n \/ i = n)
    BY <1>4
  <2>2. CASE i + 1 \in 1 .. n
    <3>1. i + 1 <= n
      BY <2>2
    <3>2. s[i + 1] \in Range(content[s[i]].links)
      BY <1>1, <2>1, <3>1 DEF Linked
    <3> QED BY <1>3, <2>1, <2>2, <3>2
  <2>3. CASE i = n
    <3>1. n # 0 /\ g[i + 1] = c /\ g[i] = s[n]
      BY <1>3, <2>1, <2>3
    <3> QED BY <1>1, <3>1
  <2> QED BY <2>1, <2>2, <2>3
<1>5. Linked(g)
  BY <1>3, <1>4 DEF Linked
<1>6. n # 0 => 1 \in 1 .. n
  OBVIOUS
<1> QED BY <1>1, <1>2, <1>3, <1>5, <1>6

LEMMA VisitChained ==
    ASSUME NodesOK, \A x \in Stored : Len(content[x].links) <= 1,
           NEW q, Proper(q), NEW n \in 0 .. q.depth, NEW walk, NEW c \in Cids, NEW o, Trail(q, o, c, n),
           \A d \in Cids, p \in Found : Trail(q, p, d, n + 1) => Chained(q, walk[d][p])
    PROVE  Chained(q, Visit(q, walk, o, c, n))
<1>0. q.depth \in Nat /\ n \in Nat /\ n <= q.depth /\ n <= q.depth + 1 /\ n + 1 <= q.depth + 1
  BY Upto DEF Proper
<1>1. /\ o \in Found /\ Len(o.fragments) = n /\ Linked(o.fragments)
      /\ n # 0 => o.fragments[1] = q.root
  BY DEF Trail
<1>2. o.fragments \in Seq(Cids)
  BY <1>1 DEF Found
<1>3. Chained(q, o)
  BY <1>0, <1>1 DEF Chained
<1>4. CASE c \in o.visited
  <2>1. Visit(q, walk, o, c, n) = o
    BY <1>1, <1>4, VisitIs
  <2> QED BY <1>3, <2>1
<1>5. CASE c \notin o.visited /\ ~ Admits(q, c, n)
  <2>1. Visit(q, walk, o, c, n) = Lost(o, c)
    BY <1>1, <1>5, VisitIs
  <2>2. Lost(o, c).fragments = o.fragments
    BY DEF Lost
  <2> QED BY <1>3, <2>1, <2>2 DEF Chained
<1>6. CASE c \notin o.visited /\ Admits(q, c, n)
  <2> DEFINE met == Met(o, c)
  <2>1. met \in Found
    BY <1>1, VisitIs
  <2>2. met.fragments = Append(o.fragments, c)
    BY DEF Met
  <2>3. Len(o.fragments) # 0 => c \in Range(content[o.fragments[Len(o.fragments)]].links)
    BY <1>1 DEF Trail
  <2>4. /\ Linked(met.fragments) /\ Len(met.fragments) = n + 1 /\ met.fragments[n + 1] = c
        /\ n # 0 => met.fragments[1] = o.fragments[1]
    BY <1>1, <1>2, <2>2, <2>3, AppendLinked
  <2>5. met.fragments[1] = q.root
    <3>1. CASE n = 0
      <4>1. c = q.root /\ n + 1 = 1
        BY <3>1 DEF Trail
      <4> QED BY <2>4, <4>1
    <3>2. CASE n # 0
      BY <1>1, <2>4, <3>2
    <3> QED BY <3>1, <3>2
  <2>6. Chained(q, met)
    BY <1>0, <2>4, <2>5 DEF Chained
  <2>7. PICK links \in Seq(Cids) : links = content[c].links
    BY LinksAre
  <2>8. Len(links) \in Nat /\ Len(links) <= 1
    <3>1. c \in Stored
      BY <1>6 DEF Admits
    <3>2. Len(content[c].links) <= 1
      BY <3>1
    <3> QED BY <2>7, <3>2
  <2>9. Visit(q, walk, o, c, n) = Follow(walk, met, links)
    BY <1>1, <1>6, <2>7, VisitIs
  <2>10. Visit(q, walk, o, c, n) = IF Len(links) = 0 THEN met ELSE walk[links[1]][met]
    BY <2>8, <2>9, FollowShort
  <2> HIDE DEF met
  <2>11. CASE Len(links) = 0
    BY <2>6, <2>10, <2>11
  <2>12. CASE Len(links) = 1
    <3>1. Range(links) = {links[1]} /\ links[1] \in Cids
      BY <2>12, RangeOfOne
    <3>2. links[1] \in Range(content[met.fragments[n + 1]].links)
      BY <2>4, <2>7, <3>1
    <3>3. n + 1 # 0
      BY <1>0
    <3>4. Trail(q, met, links[1], n + 1)
      BY <2>1, <2>4, <2>5, <3>2, <3>3 DEF Trail
    <3>5. Chained(q, walk[links[1]][met])
      BY <2>1, <3>1, <3>4
    <3>6. Visit(q, walk, o, c, n) = walk[links[1]][met]
      BY <2>10, <2>12
    <3> QED BY <3>5, <3>6
  <2>13. Len(links) = 0 \/ Len(links) = 1
    BY <2>8, AtMostOne
  <2> QED BY <2>11, <2>12, <2>13
<1> QED BY <1>4, <1>5, <1>6

LEMMA WalkChained ==
    ASSUME NodesOK, \A x \in Stored : Len(content[x].links) <= 1,
           NEW q, Proper(q), NEW w, Walks(q, q.depth + 1, w)
    PROVE  Chained(q, w[q.depth + 1][q.root][Nothing])
<1>0. q.depth \in Nat /\ q.root \in Cids
  BY DEF Proper
<1> DEFINE From(k) == \A c \in Cids, o \in Found : Trail(q, o, c, q.depth + 1 - k) => Chained(q, w[k][c][o])
           A == {k \in Nat : k <= q.depth + 1 => From(k)}
<1>1. A \in SUBSET Nat /\ \A k \in Nat : k \in A <=> (k <= q.depth + 1 => From(k))
  OBVIOUS
<1> HIDE DEF A
<1>2. \A c \in Cids, o \in Found :
        /\ w[0][c][o] = o
        /\ \A k \in 0 .. q.depth : w[k + 1][c][o] = Visit(q, w[k], o, c, q.depth - k)
  BY <1>0, WalkStep
<1>3. 0 \in A
  <2>1. ASSUME NEW c \in Cids, NEW o \in Found, Trail(q, o, c, q.depth + 1 - 0) PROVE Chained(q, w[0][c][o])
    <3>1. q.depth + 1 - 0 = q.depth + 1 /\ q.depth + 1 # 0 /\ q.depth + 1 <= q.depth + 1
      BY <1>0
    <3>2. Trail(q, o, c, q.depth + 1)
      BY <2>1, <3>1
    <3>3. Chained(q, o)
      BY <3>1, <3>2 DEF Trail, Chained
    <3> QED BY <1>2, <3>3
  <2> QED BY <1>1, <2>1
<1>4. ASSUME NEW k \in A PROVE k + 1 \in A
  <2> HIDE DEF From
  <2>1. SUFFICES ASSUME k + 1 <= q.depth + 1 PROVE From(k + 1)
    BY <1>1
  <2>2. /\ k \in Nat /\ k <= q.depth + 1 /\ k \in 0 .. q.depth /\ q.depth - k \in 0 .. q.depth
        /\ q.depth + 1 - (k + 1) = q.depth - k /\ (q.depth - k) + 1 = q.depth + 1 - k
    BY <1>0, <1>1, <2>1
  <2>3. From(k)
    BY <1>1, <2>2
  <2> USE DEF From
  <2>4. PICK n \in 0 .. q.depth : n = q.depth - k
    BY <2>2
  <2>5. PICK walk : walk = w[k]
    OBVIOUS
  <2>6. \A d \in Cids, p \in Found : Trail(q, p, d, n + 1) => Chained(q, walk[d][p])
    BY <2>2, <2>3, <2>4, <2>5
  <2>7. ASSUME NEW c \in Cids, NEW o \in Found, Trail(q, o, c, q.depth + 1 - (k + 1))
        PROVE  Chained(q, w[k + 1][c][o])
    <3>1. w[k + 1][c][o] = Visit(q, walk, o, c, n)
      BY <1>2, <2>2, <2>4, <2>5
    <3>2. Trail(q, o, c, n)
      BY <2>2, <2>4, <2>7
    <3>3. Chained(q, Visit(q, walk, o, c, n))
      BY <2>6, <3>2, VisitChained
    <3> QED BY <3>1, <3>3
  <2> QED BY <2>7
<1>5. A = Nat
  BY <1>1, <1>3, <1>4, InductiveSet
<1>6. From(q.depth + 1)
  <2> HIDE DEF From
  <2>1. q.depth + 1 \in Nat /\ q.depth + 1 <= q.depth + 1
    BY <1>0
  <2> QED BY <1>1, <1>5, <2>1
<1>7. Nothing \in Found /\ Nothing.fragments = <<>>
  BY DEF Nothing, Found
<1>8. Trail(q, Nothing, q.root, q.depth + 1 - (q.depth + 1))
  <2>1. q.depth + 1 - (q.depth + 1) = 0
    BY <1>0
  <2>2. Linked(<<>>) /\ Len(<<>>) = 0
    BY DEF Linked
  <2> QED BY <1>7, <2>1, <2>2 DEF Trail
<1> QED BY <1>0, <1>6, <1>7, <1>8

\* Only the root and links of stored nodes are reported.
LEMMA WalkReports ==
    ASSUME NodesOK, NEW q, Proper(q), NEW w, Walks(q, q.depth + 1, w),
           NEW B \in SUBSET Cids, q.root \in B, Links(Stored) \subseteq B
    PROVE  w[q.depth + 1][q.root][Nothing] \in {o \in Found : Range(o.broken) \subseteq B}
<1>0. q.depth \in Nat /\ q.root \in Cids
  BY DEF Proper
<1> DEFINE S == {o \in Found : Range(o.broken) \subseteq B}
           From(k) == \A c \in B, o \in S : w[k][c][o] \in S
           A == {k \in Nat : k <= q.depth + 1 => From(k)}
<1>1. A \in SUBSET Nat /\ \A k \in Nat : k \in A <=> (k <= q.depth + 1 => From(k))
  OBVIOUS
<1> HIDE DEF A
<1>2. \A c \in Cids, o \in Found :
        /\ w[0][c][o] = o
        /\ \A k \in 0 .. q.depth : w[k + 1][c][o] = Visit(q, w[k], o, c, q.depth - k)
  BY <1>0, WalkStep
<1>3. S \subseteq Found
  OBVIOUS
<1>4. 0 \in A
  <2> HIDE DEF S
  <2> QED BY <1>1, <1>2, <1>3
<1>5. ASSUME NEW walk, \A c \in B, o \in S : walk[c][o] \in S, NEW c \in B, NEW o \in S, NEW used
      PROVE  Visit(q, walk, o, c, used) \in S
  <2>1. o \in Found /\ c \in Cids /\ o.broken \in Seq(Cids) /\ Range(o.broken) \subseteq B
    BY DEF Found
  <2>2. CASE c \in o.visited
    BY <2>1, <2>2, VisitIs
  <2>3. CASE c \notin o.visited /\ ~ Admits(q, c, used)
    <3>1. Lost(o, c) \in Found /\ Lost(o, c).broken = Append(o.broken, c)
      BY <2>1, VisitIs DEF Lost
    <3>2. Range(Append(o.broken, c)) \subseteq B
      <4>1. PICK g : g = Append(o.broken, c)
        OBVIOUS
      <4>2. PICK n \in Nat : n = Len(o.broken)
        BY <2>1
      <4>3. DOMAIN g = 1 .. n + 1 /\ (\A i \in 1 .. n : g[i] \in B) /\ g[n + 1] = c
        BY <2>1, <4>1, <4>2 DEF Range
      <4>4. \A i \in 1 .. n + 1 : i \in 1 .. n \/ i = n + 1
        OBVIOUS
      <4>5. \A i \in 1 .. n + 1 : g[i] \in B
        BY <4>3, <4>4
      <4> QED BY <4>1, <4>3, <4>5 DEF Range
    <3>3. Lost(o, c) \in S
      BY <3>1, <3>2
    <3> HIDE DEF S
    <3> QED BY <2>1, <2>3, <3>3, VisitIs
  <2>4. CASE c \notin o.visited /\ Admits(q, c, used)
    <3>1. Met(o, c) \in Found /\ Met(o, c).broken = o.broken
      BY <2>1, VisitIs DEF Met
    <3>2. Met(o, c) \in S
      BY <2>1, <3>1
    <3> HIDE DEF S
    <3>3. PICK links \in Seq(Cids) : links = content[c].links
      BY <2>1, LinksAre
    <3>4. c \in Stored
      BY <2>4 DEF Admits
    <3>5. Range(links) \subseteq B
      BY <3>3, <3>4 DEF Links
    <3>6. \A i \in 1 .. Len(links) : links[i] \in B
      BY <3>5 DEF Range
    <3>7. \A i \in 1 .. Len(links) : \A p \in S : walk[links[i]][p] \in S
      BY <1>5, <3>6
    <3>8. Follow(walk, Met(o, c), links) \in S
      BY <3>2, <3>7, FollowStays
    <3> QED BY <2>1, <2>4, <3>3, <3>8, VisitIs
  <2> QED BY <2>2, <2>3, <2>4
<1>6. ASSUME NEW k \in A PROVE k + 1 \in A
  <2> HIDE DEF From, S
  <2>1. SUFFICES ASSUME k + 1 <= q.depth + 1 PROVE From(k + 1)
    BY <1>1
  <2>2. k \in Nat /\ k <= q.depth + 1 /\ k \in 0 .. q.depth
    BY <1>0, <1>1, <2>1
  <2>3. From(k)
    BY <1>1, <2>2
  <2>4. PICK walk : walk = w[k]
    OBVIOUS
  <2>5. PICK used : used = q.depth - k
    OBVIOUS
  <2>6. \A c \in B, o \in S : walk[c][o] \in S
    BY <2>3, <2>4 DEF From
  <2>7. ASSUME NEW c \in B, NEW o \in S PROVE w[k + 1][c][o] \in S
    <3>1. w[k + 1][c][o] = Visit(q, walk, o, c, used)
      BY <1>2, <1>3, <2>2, <2>4, <2>5
    <3>2. Visit(q, walk, o, c, used) \in S
      BY <1>5, <2>6
    <3> QED BY <3>1, <3>2
  <2> QED BY <2>7 DEF From
<1>7. A = Nat
  BY <1>1, <1>4, <1>6, InductiveSet
<1>8. From(q.depth + 1)
  <2> HIDE DEF From
  <2>1. q.depth + 1 \in Nat /\ q.depth + 1 <= q.depth + 1
    BY <1>0
  <2> QED BY <1>1, <1>7, <2>1
<1>9. Nothing \in S
  BY DEF Nothing, Found, Range
<1>10. w[q.depth + 1][q.root][Nothing] \in S
  <2> HIDE DEF S
  <2> QED BY <1>8, <1>9
<1> QED BY <1>10

-----------------------------------------------------------------------------
(* Picked is a recursive function as well: f gives what is picked of the    *)
(* first i elements.                                                        *)

Picks(s, S, n, f) ==
    f = [i \in 0 .. n |-> IF i = 0 THEN <<>>
                          ELSE IF s[i] \in S THEN Append(f[i - 1], s[i]) ELSE f[i - 1]]

LEMMA PicksExist ==
    ASSUME NEW s, NEW S, NEW n \in Nat
    PROVE  \E x : Picks(s, S, n, x)
<1> DEFINE A == {k \in Nat : \E x : Picks(s, S, k, x)}
<1>1. A \in SUBSET Nat /\ \A k \in Nat : k \in A <=> \E x : Picks(s, S, k, x)
  OBVIOUS
<1> HIDE DEF A
<1>2. 0 \in A
  <2>1. Picks(s, S, 0, [i \in 0 .. 0 |-> <<>>])
    BY DEF Picks
  <2> QED BY <1>1, <2>1
<1>3. ASSUME NEW k \in A PROVE k + 1 \in A
  <2>1. PICK x : Picks(s, S, k, x)
    BY <1>1
  <2> DEFINE h == [i \in 0 .. k + 1 |-> IF i = 0 THEN <<>>
                                        ELSE IF s[i] \in S THEN Append(x[i - 1], s[i]) ELSE x[i - 1]]
  <2>2. k \in Nat
    BY <1>1
  <2>3. ASSUME NEW i \in 0 .. k PROVE h[i] = x[i]
    <3>1. i \in 0 .. k + 1
      BY <2>2
    <3>2. h[i] = IF i = 0 THEN <<>> ELSE IF s[i] \in S THEN Append(x[i - 1], s[i]) ELSE x[i - 1]
      BY <3>1
    <3>3. x[i] = IF i = 0 THEN <<>> ELSE IF s[i] \in S THEN Append(x[i - 1], s[i]) ELSE x[i - 1]
      BY <2>1, Zenon DEF Picks
    <3> QED BY <3>2, <3>3, Zenon
  <2>4. \A i \in 0 .. k + 1 : i # 0 => h[i - 1] = x[i - 1]
    <3>1. \A i \in 0 .. k + 1 : i # 0 => i - 1 \in 0 .. k
      BY <2>2
    <3> HIDE DEF h
    <3> QED BY <2>3, <3>1
  <2>5. h = [i \in 0 .. k + 1 |-> IF i = 0 THEN <<>>
                                  ELSE IF s[i] \in S THEN Append(h[i - 1], s[i]) ELSE h[i - 1]]
    BY <2>4
  <2>6. Picks(s, S, k + 1, h)
    <3> HIDE DEF h
    <3> QED BY <2>5, Zenon DEF Picks
  <2> QED BY <1>1, <2>2, <2>6
<1>4. A = Nat
  BY <1>1, <1>2, <1>3, InductiveSet
<1> QED BY <1>1, <1>4

LEMMA PickedIs ==
    ASSUME NEW s, NEW S, Len(s) \in Nat
    PROVE  \E f : /\ Picked(s, S) = f[Len(s)] /\ f[0] = <<>>
                  /\ \A i \in Nat : i + 1 <= Len(s) =>
                        f[i + 1] = IF s[i + 1] \in S THEN Append(f[i], s[i + 1]) ELSE f[i]
<1> DEFINE g == CHOOSE f : f = [i \in 0 .. Len(s) |-> IF i = 0 THEN <<>>
                                ELSE IF s[i] \in S THEN Append(f[i - 1], s[i]) ELSE f[i - 1]]
<1>1. Picked(s, S) = g[Len(s)]
  BY DEF Picked
<1>2. \E f : Picks(s, S, Len(s), f)
  BY PicksExist
<1>3. \E f : f = [i \in 0 .. Len(s) |-> IF i = 0 THEN <<>>
                                ELSE IF s[i] \in S THEN Append(f[i - 1], s[i]) ELSE f[i - 1]]
  BY <1>2, Zenon DEF Picks
<1>4. g = [i \in 0 .. Len(s) |-> IF i = 0 THEN <<>>
                                ELSE IF s[i] \in S THEN Append(g[i - 1], s[i]) ELSE g[i - 1]]
  BY <1>3, Zenon
<1> HIDE DEF g
<1>5. g[0] = <<>>
  <2>1. 0 \in 0 .. Len(s)
    OBVIOUS
  <2> QED BY <1>4, <2>1, Zenon
<1>6. ASSUME NEW i \in Nat, i + 1 <= Len(s)
      PROVE  g[i + 1] = IF s[i + 1] \in S THEN Append(g[i], s[i + 1]) ELSE g[i]
  <2>1. i + 1 \in 0 .. Len(s) /\ i + 1 # 0 /\ (i + 1) - 1 = i
    BY <1>6
  <2>2. g[i + 1] = IF s[i + 1] \in S THEN Append(g[(i + 1) - 1], s[i + 1]) ELSE g[(i + 1) - 1]
    BY <1>4, <2>1, Zenon
  <2> QED BY <2>1, <2>2
<1> QED BY <1>1, <1>5, <1>6

LEMMA PickedIn ==
    ASSUME NEW T, NEW s \in Seq(T), NEW S
    PROVE  Picked(s, S) \in Seq(T) /\ Range(Picked(s, S)) \subseteq S
<1>0. Len(s) \in Nat
  OBVIOUS
<1>1. PICK f : /\ Picked(s, S) = f[Len(s)] /\ f[0] = <<>>
               /\ \A i \in Nat : i + 1 <= Len(s) =>
                     f[i + 1] = IF s[i + 1] \in S THEN Append(f[i], s[i + 1]) ELSE f[i]
  BY <1>0, PickedIs
<1> DEFINE Fine(x) == x \in Seq(T) /\ Range(x) \subseteq S
           A == {k \in Nat : k <= Len(s) => Fine(f[k])}
<1>2. A \in SUBSET Nat /\ \A k \in Nat : k \in A <=> (k <= Len(s) => Fine(f[k]))
  OBVIOUS
<1> HIDE DEF A
<1>3. 0 \in A
  <2>1. Fine(<<>>)
    BY DEF Range
  <2> QED BY <1>1, <1>2, <2>1
<1>4. ASSUME NEW k \in A PROVE k + 1 \in A
  <2> HIDE DEF Fine
  <2>1. SUFFICES ASSUME k + 1 <= Len(s) PROVE Fine(f[k + 1])
    BY <1>2
  <2>2. k \in Nat /\ k <= Len(s) /\ k + 1 \in 1 .. Len(s)
    BY <1>0, <1>2, <2>1
  <2>3. Fine(f[k])
    BY <1>2, <2>2
  <2>4. s[k + 1] \in T
    BY <2>2
  <2>5. CASE s[k + 1] \notin S
    <3>1. f[k + 1] = f[k]
      BY <1>1, <2>1, <2>2, <2>5
    <3> QED BY <2>3, <3>1
  <2>6. CASE s[k + 1] \in S
    <3>1. f[k + 1] = Append(f[k], s[k + 1])
      BY <1>1, <2>1, <2>2, <2>6
    <3>2. PICK x \in Seq(T) : x = f[k]
      BY <2>3 DEF Fine
    <3>a. Append(x, s[k + 1]) \in Seq(T)
      BY <2>4
    <3>3. PICK g \in Seq(T) : g = Append(x, s[k + 1])
      BY <3>a
    <3>4. PICK n \in Nat : n = Len(x)
      OBVIOUS
    <3>5. DOMAIN g = 1 .. n + 1 /\ (\A i \in 1 .. n : g[i] = x[i]) /\ g[n + 1] = s[k + 1]
      BY <2>4, <3>3, <3>4
    <3>6. \A i \in 1 .. n : x[i] \in S
      BY <2>3, <3>2, <3>4 DEF Fine, Range
    <3>7. \A i \in 1 .. n + 1 : i \in 1 .. n \/ i = n + 1
      OBVIOUS
    <3>8. \A i \in 1 .. n + 1 : g[i] \in S
      BY <2>6, <3>5, <3>6, <3>7
    <3>9. Fine(g)
      BY <3>5, <3>8 DEF Fine, Range
    <3> QED BY <3>1, <3>2, <3>3, <3>9
  <2> QED BY <2>5, <2>6
<1>5. A = Nat
  BY <1>2, <1>3, <1>4, InductiveSet
<1>6. Fine(f[Len(s)])
  <2> HIDE DEF Fine
  <2> QED BY <1>0, <1>2, <1>5
<1> QED BY <1>1, <1>6

LEMMA StartGrows ==
    ASSUME NEW T, NEW s \in Seq(T), NEW m \in Nat, m + 1 <= Len(s)
    PROVE  Append(SubSeq(s, 1, m), s[m + 1]) = SubSeq(s, 1, m + 1)
<1>1. /\ SubSeq(s, 1, m) \in Seq(T) /\ Len(SubSeq(s, 1, m)) = m
      /\ \A i \in 1 .. m : SubSeq(s, 1, m)[i] = s[i]
  OBVIOUS
<1>2. /\ SubSeq(s, 1, m + 1) \in Seq(T) /\ Len(SubSeq(s, 1, m + 1)) = m + 1
      /\ \A i \in 1 .. m + 1 : SubSeq(s, 1, m + 1)[i] = s[i]
  OBVIOUS
<1>3. s[m + 1] \in T
  OBVIOUS
<1>a. Append(SubSeq(s, 1, m), s[m + 1]) \in Seq(T)
  BY <1>1, <1>3
<1>4. PICK g \in Seq(T) : g = Append(SubSeq(s, 1, m), s[m + 1])
  BY <1>a
<1>5. Len(g) = m + 1 /\ (\A i \in 1 .. m : g[i] = s[i]) /\ g[m + 1] = s[m + 1]
  BY <1>1, <1>3, <1>4
<1>6. \A i \in 1 .. m + 1 : i \in 1 .. m \/ i = m + 1
  OBVIOUS
<1>7. \A i \in 1 .. m + 1 : g[i] = SubSeq(s, 1, m + 1)[i]
  BY <1>2, <1>5, <1>6
<1>8. PICK h \in Seq(T) : h = SubSeq(s, 1, m + 1)
  BY <1>2
<1>9. g = h
  BY <1>2, <1>5, <1>7, <1>8
<1> QED BY <1>4, <1>8, <1>9

\* If what is in S comes first, picking it takes a prefix.
LEMMA PickedPrefix ==
    ASSUME NEW T, NEW s \in Seq(T), NEW S,
           \A i, j \in 1 .. Len(s) : i < j /\ s[j] \in S => s[i] \in S
    PROVE  IsPrefix(Picked(s, S), s)
<1>0. Len(s) \in Nat
  OBVIOUS
<1>1. PICK f : /\ Picked(s, S) = f[Len(s)] /\ f[0] = <<>>
               /\ \A i \in Nat : i + 1 <= Len(s) =>
                     f[i + 1] = IF s[i + 1] \in S THEN Append(f[i], s[i + 1]) ELSE f[i]
  BY <1>0, PickedIs
<1> DEFINE Fine(x, k) == \E m \in 0 .. k : x = SubSeq(s, 1, m) /\ \A i \in 1 .. k : s[i] \in S <=> i <= m
           A == {k \in Nat : k <= Len(s) => Fine(f[k], k)}
<1>2. A \in SUBSET Nat /\ \A k \in Nat : k \in A <=> (k <= Len(s) => Fine(f[k], k))
  OBVIOUS
<1> HIDE DEF A
<1>3. 0 \in A
  <2>1. <<>> = SubSeq(s, 1, 0)
    OBVIOUS
  <2>2. 0 \in 0 .. 0 /\ \A i \in 1 .. 0 : s[i] \in S <=> i <= 0
    OBVIOUS
  <2>3. Fine(<<>>, 0)
    BY <2>1, <2>2
  <2> HIDE DEF Fine
  <2> QED BY <1>1, <1>2, <2>3
<1>4. ASSUME NEW k \in A PROVE k + 1 \in A
  <2> HIDE DEF Fine
  <2>1. SUFFICES ASSUME k + 1 <= Len(s) PROVE Fine(f[k + 1], k + 1)
    BY <1>2
  <2>2. k \in Nat /\ k <= Len(s) /\ k + 1 \in 1 .. Len(s)
    BY <1>0, <1>2, <2>1
  <2>3. Fine(f[k], k)
    BY <1>2, <2>2
  <2>4. PICK m \in 0 .. k : f[k] = SubSeq(s, 1, m) /\ \A i \in 1 .. k : s[i] \in S <=> i <= m
    BY <2>3 DEF Fine
  <2>5. \A i \in 1 .. k + 1 : i \in 1 .. k \/ i = k + 1
    BY <2>2
  <2>6. CASE s[k + 1] \notin S
    <3>1. f[k + 1] = SubSeq(s, 1, m)
      BY <1>1, <2>1, <2>2, <2>4, <2>6
    <3>2. m \in 0 .. k + 1 /\ ~ (k + 1 <= m)
      BY <2>2
    <3>3. \A i \in 1 .. k + 1 : s[i] \in S <=> i <= m
      BY <2>4, <2>5, <2>6, <3>2
    <3> QED BY <3>1, <3>2, <3>3 DEF Fine
  <2>7. CASE s[k + 1] \in S
    <3>1. \A i \in 1 .. k : i \in 1 .. Len(s) /\ i < k + 1
      BY <1>0, <2>2
    <3>2. \A i \in 1 .. k : s[i] \in S
      BY <2>2, <2>7, <3>1
    <3>3. m = k
      <4>1. k # 0 => k \in 1 .. k
        BY <2>2
      <4>2. k # 0 => k <= m
        BY <2>4, <3>2, <4>1
      <4> QED BY <2>2, <4>2
    <3>4. f[k + 1] = Append(SubSeq(s, 1, k), s[k + 1])
      BY <1>1, <2>1, <2>2, <2>4, <2>7, <3>3
    <3>5. f[k + 1] = SubSeq(s, 1, k + 1)
      BY <2>1, <2>2, <3>4, StartGrows
    <3>6. \A i \in 1 .. k + 1 : s[i] \in S <=> i <= k + 1
      BY <2>2, <2>5, <2>7, <3>2
    <3>7. k + 1 \in 0 .. k + 1
      BY <2>2
    <3> QED BY <3>5, <3>6, <3>7 DEF Fine
  <2> QED BY <2>6, <2>7
<1>5. A = Nat
  BY <1>2, <1>3, <1>4, InductiveSet
<1>6. Fine(f[Len(s)], Len(s))
  <2> HIDE DEF Fine
  <2> QED BY <1>0, <1>2, <1>5
<1>7. PICK m \in 0 .. Len(s) : Picked(s, S) = SubSeq(s, 1, m)
  BY <1>1, <1>6
<1>8. Len(SubSeq(s, 1, m)) = m /\ SubSeq(SubSeq(s, 1, m), 1, m) = SubSeq(s, 1, m) /\ m <= Len(s)
  <2>a. SubSeq(s, 1, m) \in Seq(T)
    BY <1>0
  <2>1. PICK g \in Seq(T) : g = SubSeq(s, 1, m)
    BY <2>a
  <2>2. Len(g) = m
    BY <1>0, <2>1
  <2>3. SubSeq(g, 1, m) = g
    BY <2>2
  <2> QED BY <1>0, <2>1, <2>2, <2>3
<1> QED BY <1>7, <1>8 DEF IsPrefix

-----------------------------------------------------------------------------
(* The memory of a stack.  What siyana-api wrote is made of single links,   *)
(* which lead to what was written before.                                   *)

Histories ==
    /\ Stored \subseteq written /\ written \subseteq Cids
    /\ \A c \in written :
        /\ content[c].stack = Stack
        /\ content[c].links = <<>> \/ \E h \in written : content[c].links = <<h>>

LEMMA HistoryLinks ==
    ASSUME NodesOK, Histories
    PROVE  /\ \A c \in Stored : Len(content[c].links) <= 1
           /\ \A c \in written : Range(content[c].links) \subseteq written
           /\ Links(Stored) \subseteq written
<1>1. ASSUME NEW c \in written
      PROVE  Len(content[c].links) <= 1 /\ Range(content[c].links) \subseteq written
  <2>1. CASE content[c].links = <<>>
    <3>1. Len(<<>>) <= 1 /\ Range(<<>>) = {}
      BY DEF Range
    <3> QED BY <2>1, <3>1
  <2>2. ASSUME NEW h \in written, content[c].links = <<h>>
        PROVE  Len(content[c].links) <= 1 /\ Range(content[c].links) \subseteq written
    <3>a. <<h>> \in Seq(written) /\ Len(<<h>>) = 1
      OBVIOUS
    <3>1. PICK s \in Seq(written) : s = <<h>>
      BY <3>a
    <3>2. Len(s) = 1
      BY <3>a, <3>1
    <3>3. Range(s) = {s[1]} /\ s[1] \in written
      BY <3>2, RangeOfOne
    <3> QED BY <2>2, <3>1, <3>2, <3>3
  <2> QED BY <2>1, <2>2 DEF Histories
<1>2. Stored \subseteq written
  BY DEF Histories
<1>3. Links(Stored) \subseteq written
  BY <1>1, <1>2 DEF Links
<1> QED BY <1>1, <1>2, <1>3

\* What the services get from a recall.
LEMMA Recalled ==
    ASSUME NodesOK, Histories, NEW q, Proper(q), q.root \in written
    PROVE  /\ RecallOf(q) \in Found
           /\ Range(RecallOf(q).fragments) \subseteq Stored
           /\ \A c \in Range(RecallOf(q).fragments) : content[c].stack = q.stack
           /\ Range(RecallOf(q).broken) \subseteq written
           /\ Chained(q, RecallOf(q))
           /\ Range(RecallOf(q).fragments) = Within(q)
<1>0. q.depth \in Nat
  BY DEF Proper
<1>1. PICK l : Levels(q, q.depth, l) /\ Within(q) = l[q.depth]
  BY <1>0, WithinIs
<1>2. PICK w : Walks(q, q.depth + 1, w) /\ Walk(q) = w[q.depth + 1]
  BY <1>0, WalkIs
<1>3. RecallOf(q) = w[q.depth + 1][q.root][Nothing]
  BY <1>2 DEF RecallOf
<1>4. /\ \A c \in Stored : Len(content[c].links) <= 1
      /\ Links(Stored) \subseteq written /\ written \in SUBSET Cids
  BY HistoryLinks DEF Histories
<1>5. RecallOf(q) \in Good(l[q.depth])
  BY <1>1, <1>2, <1>3, WalkGood
<1>6. l[q.depth] \subseteq Allowed(q)
  <2>1. q.depth \in 0 .. q.depth
    BY <1>0
  <2> QED BY <1>1, <2>1, LevelsAllowed
<1>7. \A c \in Allowed(q) : c \in Stored /\ content[c].stack = q.stack
  BY DEF Allowed, Admits
<1>8. Chained(q, RecallOf(q))
  BY <1>2, <1>3, <1>4, WalkChained
<1>9. Whole(RecallOf(q), l[q.depth])
  BY <1>1, <1>2, <1>3, <1>4, WalkWhole
<1>10. RecallOf(q) \in {o \in Found : Range(o.broken) \subseteq written}
  BY <1>2, <1>3, <1>4, WalkReports
<1> QED BY <1>1, <1>5, <1>6, <1>7, <1>8, <1>9, <1>10 DEF Good, Whole

\* Along a chain whose epochs never rise, the fragments of the newest epoch come first.
LEMMA DecodedIsPrefix ==
    ASSUME NodesOK, NEW s \in Seq(Cids), Linked(s), NEW e \in Nat,
           \A c \in Range(s) : \A l \in Range(content[c].links) : content[l].epoch <= content[c].epoch,
           Len(s) # 0 => content[s[1]].epoch <= e
    PROVE  IsPrefix(Decoded(s, e), s)
<1>0. PICK n \in Nat : n = Len(s)
  OBVIOUS
<1> DEFINE age(i) == content[s[i]].epoch
<1>1. \A i \in 1 .. n : s[i] \in Cids /\ s[i] \in Range(s)
  BY <1>0 DEF Range
<1>2. \A i \in 1 .. n : age(i) \in Nat
  BY <1>1, DagAssumption DEF NodesOK
<1>3. ASSUME NEW i \in 1 .. n, i + 1 \in 1 .. n PROVE age(i + 1) <= age(i)
  <2>1. s[i + 1] \in Range(content[s[i]].links)
    BY <1>0, <1>3 DEF Linked
  <2> QED BY <1>1, <2>1
<1> HIDE DEF age
<1> DEFINE A == {k \in Nat : \A i \in 1 .. n : i + k \in 1 .. n => age(i + k) <= age(i)}
<1>4. A \in SUBSET Nat /\ \A k \in Nat : k \in A <=> \A i \in 1 .. n : i + k \in 1 .. n => age(i + k) <= age(i)
  OBVIOUS
<1> HIDE DEF A
<1>5. 0 \in A
  <2>1. \A i \in 1 .. n : i + 0 = i /\ age(i) <= age(i)
    BY <1>2
  <2> QED BY <1>4, <2>1
<1>6. ASSUME NEW k \in A PROVE k + 1 \in A
  <2>1. k \in Nat /\ \A i \in 1 .. n : i + k \in 1 .. n => age(i + k) <= age(i)
    BY <1>4
  <2>2. ASSUME NEW i \in 1 .. n, i + (k + 1) \in 1 .. n PROVE age(i + (k + 1)) <= age(i)
    <3>1. i + k \in 1 .. n /\ (i + k) + 1 = i + (k + 1) /\ (i + k) + 1 \in 1 .. n
      BY <2>1, <2>2
    <3>2. age(i + k) <= age(i)
      BY <2>1, <3>1
    <3>3. age((i + k) + 1) <= age(i + k)
      BY <1>3, <3>1
    <3>4. age((i + k) + 1) \in Nat /\ age(i + k) \in Nat /\ age(i) \in Nat
      BY <1>2, <3>1
    <3>5. age((i + k) + 1) <= age(i)
      BY <3>2, <3>3, <3>4
    <3> QED BY <3>1, <3>5
  <2> QED BY <1>4, <2>1, <2>2
<1>7. A = Nat
  BY <1>4, <1>5, <1>6, InductiveSet
<1>8. ASSUME NEW i \in 1 .. n, NEW j \in 1 .. n, i < j PROVE age(j) <= age(i)
  <2>1. j - i \in Nat /\ i + (j - i) = j
    BY <1>8
  <2>2. j - i \in A
    BY <1>7, <2>1
  <2>3. i + (j - i) \in 1 .. n => age(i + (j - i)) <= age(i)
    BY <1>4, <2>1, <2>2
  <2> QED BY <2>1, <2>3
<1>9. ASSUME NEW i \in 1 .. n PROVE age(i) <= e
  <2>1. 1 \in 1 .. n /\ (i = 1 \/ 1 < i)
    OBVIOUS
  <2>2. age(1) <= e
    BY <1>0, <2>1 DEF age
  <2>3. age(i) \in Nat /\ age(1) \in Nat /\ age(i) <= age(1)
    BY <1>2, <1>8, <2>1
  <2> QED BY <2>2, <2>3
<1> DEFINE S == {c \in Cids : content[c].epoch = e}
<1>10. \A i \in 1 .. n : s[i] \in S <=> age(i) = e
  BY <1>1 DEF age
<1> HIDE DEF S
<1>11. ASSUME NEW i \in 1 .. n, NEW j \in 1 .. n, i < j, s[j] \in S PROVE s[i] \in S
  <2>1. age(j) = e /\ age(j) <= age(i) /\ age(i) <= e /\ age(i) \in Nat
    BY <1>2, <1>8, <1>9, <1>10, <1>11
  <2>2. age(i) = e
    BY <2>1
  <2> QED BY <1>10, <2>2
<1>12. IsPrefix(Picked(s, S), s)
  BY <1>0, <1>11, PickedPrefix
<1> QED BY <1>12 DEF Decoded, S

\* A chain whose nodes are held for ever is found from its first node at every epoch.
LEMMA BondRecalled ==
    ASSUME NodesOK, Histories, NEW s \in Seq(Cids), Len(s) # 0, Len(s) <= 9, Linked(s), NEW e \in Epochs,
           \A c \in Range(s) : /\ c \in Stored /\ content[c].stack = Stack
                               /\ nodes[c].pinned /\ nodes[c].pinExpiry = 0
    PROVE  Range(s) \subseteq Range(RecallOf([root |-> Head(s), stack |-> Stack, epoch |-> e,
                                              depth |-> 8, token |-> 1000]).fragments)
<1> DEFINE q == [root |-> Head(s), stack |-> Stack, epoch |-> e, depth |-> 8, token |-> 1000]
<1>0. PICK n \in Nat : n = Len(s)
  OBVIOUS
<1>1. n \in 1 .. 9 /\ 1 \in 1 .. n /\ Head(s) = s[1] /\ \A i \in 1 .. n : s[i] \in Range(s) /\ s[i] \in Cids
  <2>1. n # 0 /\ n <= 9
    BY <1>0
  <2>2. \A i \in 1 .. n : s[i] \in Range(s) /\ s[i] \in Cids
    BY <1>0 DEF Range
  <2>3. s # <<>> => Head(s) = s[1]
    OBVIOUS
  <2>4. s # <<>>
    <3>1. Len(<<>>) = 0
      OBVIOUS
    <3> QED BY <1>0, <2>1, <3>1
  <2> QED BY <2>1, <2>2, <2>3, <2>4
<1>2. q.root = s[1] /\ q.stack = Stack /\ q.depth = 8 /\ q.token = 1000
  BY <1>1
<1> HIDE DEF q
<1>3. Proper(q) /\ q.root \in written
  BY <1>1, <1>2 DEF Proper, Histories
<1>4. PICK l : Levels(q, q.depth, l) /\ Within(q) = l[q.depth]
  BY <1>2, WithinIs
<1>5. /\ l[0] = {c \in {q.root} : Admits(q, c, 0)}
      /\ \A m \in Nat : m + 1 <= 8 => l[m + 1] = l[m] \cup {c \in Links(l[m]) : Admits(q, c, m + 1)}
  BY <1>2, <1>4, LevelStep
<1>6. ASSUME NEW c \in Range(s), NEW m \in 0 .. 8 PROVE Admits(q, c, m)
  BY <1>2 DEF Admits, LeaseActive
<1> DEFINE A == {k \in Nat : k + 1 <= n => s[k + 1] \in l[k]}
<1>7. A \in SUBSET Nat /\ \A k \in Nat : k \in A <=> (k + 1 <= n => s[k + 1] \in l[k])
  OBVIOUS
<1> HIDE DEF A
<1>8. 0 \in A
  <2>1. Admits(q, s[1], 0)
    BY <1>1, <1>6
  <2>2. s[0 + 1] \in l[0]
    BY <1>2, <1>5, <2>1
  <2> QED BY <1>7, <2>2
<1>9. ASSUME NEW k \in A PROVE k + 1 \in A
  <2>1. SUFFICES ASSUME (k + 1) + 1 <= n PROVE s[(k + 1) + 1] \in l[k + 1]
    BY <1>7
  <2>2. k \in Nat /\ k + 1 <= n /\ k + 1 <= 8 /\ k + 1 \in 0 .. 8 /\ k + 1 \in 1 .. n /\ (k + 1) + 1 \in 1 .. n
    BY <1>1, <1>7, <2>1
  <2>3. s[k + 1] \in l[k]
    BY <1>7, <2>2
  <2>4. s[(k + 1) + 1] \in Range(content[s[k + 1]].links)
    BY <1>0, <2>1, <2>2 DEF Linked
  <2>5. s[(k + 1) + 1] \in Links(l[k])
    BY <2>3, <2>4 DEF Links
  <2>6. Admits(q, s[(k + 1) + 1], k + 1)
    BY <1>1, <1>6, <2>2
  <2> QED BY <1>5, <2>2, <2>5, <2>6
<1>10. A = Nat
  BY <1>7, <1>8, <1>9, InductiveSet
<1>11. ASSUME NEW i \in 1 .. n PROVE s[i] \in l[8]
  <2>1. i - 1 \in Nat /\ (i - 1) + 1 = i /\ i <= n /\ i - 1 \in 0 .. 8
    BY <1>1
  <2>2. (i - 1) + 1 <= n => s[(i - 1) + 1] \in l[i - 1]
    BY <1>7, <1>10, <2>1
  <2>3. s[i] \in l[i - 1]
    BY <2>1, <2>2
  <2>4. l[i - 1] \subseteq l[8]
    BY <1>2, <1>3, <1>4, <2>1, LevelsGrow
  <2> QED BY <2>3, <2>4
<1>12. Range(RecallOf(q).fragments) = l[8]
  BY <1>2, <1>3, <1>4, Recalled
<1>13. Range(s) \subseteq l[8]
  BY <1>0, <1>11 DEF Range
<1> QED BY <1>12, <1>13 DEF q

-----------------------------------------------------------------------------
(* The life of a memory: the invariant.                                     *)

Heads == written \cup {None}
Ages == {0} \cup Epochs
Calls == [root : written, stack : {Stack}, epoch : Ages, depth : Nat, token : Nat]

\* What the saga and the pinning-service hold: a chain of at most nine fragments.
Chains == {s \in Seq(written) : s # <<>> /\ Len(s) <= 9 /\ Linked(s)}

\* Nobody takes a lease on a fragment: what is pinned is pinned for ever.
Forever == \A c \in Stored : nodes[c].pinExpiry = 0

RowOK == row \in [head : Heads, epoch : Ages]

WritersOK ==
    writer \in [Writers -> {Off} \cup [at : {"put"}, head : Heads, epoch : Ages] \cup [at : {"write"}, cid : written]]

CompositorOK == compositor.at = "recall" => compositor.request \in Calls

\* Whom c was given to has pinned it or was refused, unless hippod lost it.
Held(who, c) == c \in Stored => nodes[c].pinned \/ <<who, c>> \in refused

CastOK ==
    /\ cast.at = "recall" => cast.request \in Calls /\ cast.request.depth = 8
    /\ cast.at = "pin" =>
        /\ cast \in [at : {"pin"}, shards : Chains, left : Seq(written)]
        /\ \A c \in Range(cast.shards) \ Range(cast.left) : Held("cast", c)

RouteOK ==
    /\ route.at = "pin" =>
        /\ route \in [at : {"pin"}, shards : Chains, left : Seq(written) \ {<<>>}]
        /\ \A c \in Range(route.shards) :
            Held("cast", c) /\ (c \notin Range(route.left) => Held("pinning-service", c))
    /\ route.at = "done" =>
        /\ route.shards \in Chains
        /\ \A c \in Range(route.shards) : Held("cast", c) /\ Held("pinning-service", c)

ReconcilerOK ==
    /\ reconciler.at = "recall" => reconciler.request \in Calls
    /\ reconciler.at = "pin" =>
        /\ reconciler \in [at : {"pin"}, left : Seq(written) \ {<<>>}]
        /\ Range(reconciler.left) \cap Stored = {}

\* As long as no old transition is handled after a later one, what links to a fragment,
\* or is about to, is of an epoch that is not before it.
AgedHistory == \A c \in written : \A l \in Range(content[c].links) : content[l].epoch <= content[c].epoch
AgedRow == row.head # None => content[row.head].epoch <= row.epoch
AgedWriter(x) ==
    /\ x.at = "put" => x.epoch <= row.epoch /\ (x.head # None => content[x.head].epoch <= x.epoch)
    /\ x.at = "write" => content[x.cid].epoch <= row.epoch
AgedCompositor ==
    /\ compositor.at = "recall" => content[compositor.request.root].epoch <= compositor.request.epoch
    /\ compositor.at = "answered" => IsPrefix(compositor.decoded, compositor.fragments)
Aged ==
    ~turnedBack => AgedHistory /\ AgedRow /\ AgedCompositor /\ \A w \in Writers : AgedWriter(writer[w])

MemoryIInv ==
    /\ IInv /\ Histories /\ Forever
    /\ RowOK /\ WritersOK /\ CompositorOK /\ CastOK /\ RouteOK /\ ReconcilerOK
    /\ Aged

-----------------------------------------------------------------------------
(* What each step moves.                                                    *)

\* What a step does to hippod and to the histories.
Lattice ==
    \/ UNCHANGED <<vars, written, refused>>
    \/ \E w \in Writers, c \in Cids, pin \in BOOLEAN : WritePut(w, c, pin)
    \/ (\E who, c : PinOrNot(who, c)) /\ UNCHANGED written
    \/ Restart /\ UNCHANGED <<written, refused>>

RowMoves ==
    \/ UNCHANGED rowVars
    \/ \E w \in Writers : WriteHead(w)
    \/ \E e \in Epochs : TakeEpoch(e)

WriterMoves ==
    \/ UNCHANGED writer
    \/ \E w \in Writers :
        \/ WriteRead(w) \/ WriteHead(w) \/ WriteEnds(w)
        \/ \E c \in Cids, pin \in BOOLEAN : WritePut(w, c, pin)

CompositorMoves ==
    \/ UNCHANGED compositor
    \/ \E depth \in Depths, token \in Tokens : ReconstructRead(depth, token)
    \/ ReconstructAnswer \/ ReconstructDone

CastMoves ==
    \/ UNCHANGED cast
    \/ CastRead \/ CastRecall \/ CastPin \/ CastRoute \/ CastEnds

RouteMoves ==
    \/ UNCHANGED route
    \/ CastRoute \/ PinShard \/ RouteAgain

ReconcilerMoves ==
    \/ UNCHANGED reconciler
    \/ ReconcileRead \/ ReconcileRecall \/ ReconcilePin \/ PassEnds

LEMMA StepMoves ==
    ASSUME [MemoryNext]_allVars
    PROVE  /\ Lattice /\ RowMoves /\ WriterMoves /\ CompositorMoves
           /\ CastMoves /\ RouteMoves /\ ReconcilerMoves
<1> USE DEF Lattice, RowMoves, WriterMoves, CompositorMoves, CastMoves, RouteMoves, ReconcilerMoves
<1>1. ASSUME NEW w \in Writers, WriteRead(w) \/ WriteHead(w) \/ WriteEnds(w)
      PROVE  /\ Lattice /\ RowMoves /\ WriterMoves /\ CompositorMoves
             /\ CastMoves /\ RouteMoves /\ ReconcilerMoves
  <2>1. CASE WriteRead(w)
    BY <2>1 DEF WriteRead, vars, rowVars
  <2>2. CASE WriteHead(w)
    BY <2>2 DEF WriteHead, vars, rowVars
  <2>3. CASE WriteEnds(w)
    BY <2>3 DEF WriteEnds, vars, rowVars
  <2> QED BY <1>1, <2>1, <2>2, <2>3
<1>2. ASSUME NEW w \in Writers, NEW c \in Cids, NEW pin \in BOOLEAN, WritePut(w, c, pin)
      PROVE  /\ Lattice /\ RowMoves /\ WriterMoves /\ CompositorMoves
             /\ CastMoves /\ RouteMoves /\ ReconcilerMoves
  <2>1. UNCHANGED <<rowVars, compositor, cast, route, reconciler>>
    BY <1>2 DEF WritePut
  <2> QED BY <1>2, <2>1
<1>3. ASSUME NEW e \in Epochs, TakeEpoch(e)
      PROVE  /\ Lattice /\ RowMoves /\ WriterMoves /\ CompositorMoves
             /\ CastMoves /\ RouteMoves /\ ReconcilerMoves
  <2>1. UNCHANGED <<vars, writer, compositor, cast, route, reconciler, written, refused>>
    BY <1>3 DEF TakeEpoch
  <2> QED BY <1>3, <2>1
<1>4. ASSUME NEW depth \in Depths, NEW token \in Tokens, ReconstructRead(depth, token)
      PROVE  /\ Lattice /\ RowMoves /\ WriterMoves /\ CompositorMoves
             /\ CastMoves /\ RouteMoves /\ ReconcilerMoves
  <2>1. UNCHANGED <<vars, rowVars, writer, cast, route, reconciler, written, refused>>
    BY <1>4 DEF ReconstructRead
  <2> QED BY <1>4, <2>1
<1>5. CASE ReconstructAnswer \/ ReconstructDone
  <2>1. UNCHANGED <<vars, rowVars, writer, cast, route, reconciler, written, refused>>
    BY <1>5 DEF ReconstructAnswer, ReconstructDone
  <2> QED BY <1>5, <2>1
<1>6. CASE CastRead \/ CastRecall \/ CastEnds
  <2>1. UNCHANGED <<vars, rowVars, writer, compositor, route, reconciler, written, refused>>
    BY <1>6 DEF CastRead, CastRecall, CastEnds
  <2> QED BY <1>6, <2>1
<1>7. CASE CastPin
  <2>1. (\E who, c : PinOrNot(who, c)) /\ UNCHANGED <<rowVars, writer, compositor, route, reconciler, written>>
    BY <1>7 DEF CastPin
  <2> QED BY <1>7, <2>1
<1>8. CASE CastRoute
  <2>1. UNCHANGED <<vars, rowVars, writer, compositor, reconciler, written, refused>>
    BY <1>8 DEF CastRoute
  <2> QED BY <1>8, <2>1
<1>9. CASE PinShard
  <2>1. (\E who, c : PinOrNot(who, c)) /\ UNCHANGED <<rowVars, writer, compositor, cast, reconciler, written>>
    BY <1>9 DEF PinShard
  <2> QED BY <1>9, <2>1
<1>10. CASE RouteAgain
  <2>1. UNCHANGED <<vars, rowVars, writer, compositor, cast, reconciler, written, refused>>
    BY <1>10 DEF RouteAgain
  <2> QED BY <1>10, <2>1
<1>11. CASE ReconcileRead \/ ReconcileRecall \/ PassEnds
  <2>1. UNCHANGED <<vars, rowVars, writer, compositor, cast, route, written, refused>>
    BY <1>11 DEF ReconcileRead, ReconcileRecall, PassEnds
  <2> QED BY <1>11, <2>1
<1>12. CASE ReconcilePin
  <2>1. (\E who, c : PinOrNot(who, c)) /\ UNCHANGED <<rowVars, writer, compositor, cast, route, written>>
    BY <1>12 DEF ReconcilePin
  <2> QED BY <1>12, <2>1
<1>13. CASE HippodRestart
  <2>1. Restart /\ UNCHANGED <<rowVars, writer, compositor, cast, route, reconciler, written, refused>>
    BY <1>13 DEF HippodRestart
  <2> QED BY <2>1
<1>14. CASE UNCHANGED allVars
  BY <1>14 DEF allVars, memoryVars
<1>15. MemoryNext \/ UNCHANGED allVars
  OBVIOUS
<1> HIDE DEF Lattice, RowMoves, WriterMoves, CompositorMoves, CastMoves, RouteMoves, ReconcilerMoves
<1> QED BY <1>1, <1>2, <1>3, <1>4, <1>5, <1>6, <1>7, <1>8, <1>9, <1>10, <1>11, <1>12, <1>13, <1>14, <1>15
        DEF MemoryNext

\* A written fragment that hippod holds it has held, and a pin stays.
Keeping ==
    /\ content' = content /\ written \subseteq written' /\ refused \subseteq refused'
    /\ \A c \in written : c \in Stored' => c \in Stored /\ (nodes[c].pinned => nodes'[c].pinned)

LEMMA LatticeKeeps ==
    ASSUME IInv, Histories, Forever, WritersOK, Lattice
    PROVE  IInv' /\ Histories' /\ Forever' /\ Keeping
<1>0. Stored \subseteq written /\ written \subseteq Cids
  BY DEF Histories
<1>1. CASE UNCHANGED <<vars, written, refused>>
  <2>1. IInv'
    BY <1>1, StepHolds
  <2>2. Stored' = Stored /\ nodes' = nodes /\ content' = content /\ written' = written /\ refused' = refused
    BY <1>1 DEF vars, Stored
  <2> QED BY <2>1, <2>2 DEF Histories, Forever, Keeping
<1>2. ASSUME NEW w \in Writers, NEW c \in Cids, NEW pin \in BOOLEAN, WritePut(w, c, pin)
      PROVE  IInv' /\ Histories' /\ Forever' /\ Keeping
  <2>1. IInv'
    BY <1>2, PutKeeps DEF WritePut
  <2>2. /\ Stored' = Stored \cup {c} /\ content' = content /\ nodes'[c].pinExpiry = 0
        /\ \A d \in Stored : nodes'[d] = nodes[d]
    BY <1>2 DEF WritePut, Put, Stored
  <2>3. c \notin written /\ written' = written \cup {c} /\ refused' = refused
    BY <1>2 DEF WritePut
  <2>4. Keeping
    BY <1>0, <2>2, <2>3 DEF Keeping
  <2>5. Forever'
    BY <2>2 DEF Forever
  <2>6. writer[w].head \in Heads
    <3>1. writer[w].at = "put"
      BY <1>2 DEF WritePut
    <3> QED BY <3>1 DEF WritersOK, Off
  <2>7. content[c].stack = Stack /\ (content[c].links = <<>> \/ \E h \in written : content[c].links = <<h>>)
    <3>1. content[c] = [stack |-> Stack, epoch |-> writer[w].epoch, kind |-> "episodic",
                        links |-> IF writer[w].head = None THEN <<>> ELSE <<writer[w].head>>]
      BY <1>2 DEF WritePut
    <3>2. content[c].links = IF writer[w].head = None THEN <<>> ELSE <<writer[w].head>>
      BY <3>1
    <3>3. content[c].stack = Stack
      BY <3>1
    <3> QED BY <2>6, <3>2, <3>3, Zenon DEF Heads
  <2>8. Histories'
    <3>1. Stored' \subseteq written' /\ written' \subseteq Cids
      BY <1>0, <2>2, <2>3
    <3>2. \A d \in written' : content'[d].stack = Stack
      BY <2>2, <2>3, <2>7 DEF Histories
    <3>3. \A d \in written' : content'[d].links = <<>> \/ \E h \in written' : content'[d].links = <<h>>
      <4>1. ASSUME NEW d \in written'
            PROVE  content[d].links = <<>> \/ \E h \in written : content[d].links = <<h>>
        <5>1. d \in written \/ d = c
          BY <2>3
        <5> QED BY <2>7, <5>1 DEF Histories
      <4> QED BY <2>2, <2>3, <4>1
    <3> QED BY <3>1, <3>2, <3>3 DEF Histories
  <2> QED BY <2>1, <2>4, <2>5, <2>8
<1>3. ASSUME NEW who, NEW c, PinOrNot(who, c), UNCHANGED written
      PROVE  IInv' /\ Histories' /\ Forever' /\ Keeping
  <2>1. CASE c \in Stored /\ Pin(c) /\ UNCHANGED <<faults, refused>>
    <3>1. c \in Stored /\ c \in Cids
      BY <1>0, <2>1
    <3>2. IInv'
      BY <2>1, <3>1, PinKeeps
    <3>3. /\ nodes' = [nodes EXCEPT ![c].pinned = TRUE] /\ content' = content /\ refused' = refused
      BY <2>1 DEF Pin
    <3>4. Stored' = Stored
      BY <3>3 DEF Stored
    <3>5. \A d \in Stored : nodes[d] \in Node
      BY DEF IInv, NodesOK
    <3>6. \A d \in Stored : nodes'[d].pinExpiry = nodes[d].pinExpiry /\ (nodes[d].pinned => nodes'[d].pinned)
      BY <3>1, <3>3, <3>5 DEF Node, Stored
    <3> QED BY <1>3, <3>2, <3>3, <3>4, <3>6 DEF Histories, Forever, Keeping
  <2>2. CASE UNCHANGED vars /\ refused \subseteq refused'
    <3>1. IInv'
      BY <2>2, StepHolds
    <3>2. Stored' = Stored /\ nodes' = nodes /\ content' = content
      BY <2>2 DEF vars, Stored
    <3> QED BY <1>3, <2>2, <3>1, <3>2 DEF Histories, Forever, Keeping
  <2> QED BY <1>3, <2>1, <2>2 DEF PinOrNot
<1>4. CASE Restart /\ UNCHANGED <<written, refused>>
  <2>1. IInv'
    BY <1>4, StepHolds DEF Next
  <2>2. Stored' = {} /\ content' = content
    BY <1>4 DEF Restart, Stored
  <2> QED BY <1>4, <2>1, <2>2 DEF Histories, Forever, Keeping
<1> QED BY <1>1, <1>2, <1>3, <1>4 DEF Lattice

-----------------------------------------------------------------------------
(* The parts of the invariant.                                              *)

LEMMA Tails ==
    ASSUME NEW T, NEW s \in Seq(T), s # <<>>
    PROVE  /\ Tail(s) \in Seq(T) /\ Head(s) \in T
           /\ Range(s) = {Head(s)} \cup Range(Tail(s))
           /\ Len(s) = 1 => Range(s) = {Head(s)}
           /\ Len(s) # 1 => Tail(s) # <<>>
<1>1. PICK n \in Nat : n = Len(s)
  OBVIOUS
<1>2. n # 0
  <2>a. <<>> \in Seq(T) /\ Len(<<>>) = 0
    OBVIOUS
  <2>1. PICK g \in Seq(T) : g = <<>>
    BY <2>a
  <2>2. Len(g) = 0
    BY <2>a, <2>1
  <2>3. ASSUME n = 0 PROVE s = g
    <3>1. Len(s) = Len(g) /\ \A i \in 1 .. Len(g) : s[i] = g[i]
      BY <1>1, <2>2, <2>3
    <3> QED BY <3>1
  <2> QED BY <2>1, <2>3
<1>a. Tail(s) \in Seq(T)
  OBVIOUS
<1>3. PICK t \in Seq(T) : t = Tail(s)
  BY <1>a
<1>4. Head(s) = s[1] /\ s[1] \in T
  BY <1>1, <1>2
<1>5. Len(t) = n - 1 /\ \A i \in 1 .. n - 1 : t[i] = s[i + 1]
  BY <1>1, <1>2, <1>3
<1>6. Range(s) = {s[1]} \cup Range(t)
  <2>1. DOMAIN s = 1 .. n /\ DOMAIN t = 1 .. n - 1
    BY <1>1, <1>5
  <2>2. ASSUME NEW x \in Range(s) PROVE x = s[1] \/ x \in Range(t)
    <3>1. PICK i \in 1 .. n : x = s[i]
      BY <2>1, <2>2 DEF Range
    <3>2. i = 1 \/ (i - 1 \in 1 .. n - 1 /\ (i - 1) + 1 = i)
      BY <1>1
    <3>3. i - 1 \in 1 .. n - 1 => x = t[i - 1]
      BY <1>5, <3>1
    <3> QED BY <2>1, <3>1, <3>2, <3>3 DEF Range
  <2>3. ASSUME NEW x \in Range(t) PROVE x \in Range(s)
    <3>1. PICK i \in 1 .. n - 1 : x = t[i]
      BY <2>1, <2>3 DEF Range
    <3>2. i + 1 \in 1 .. n /\ x = s[i + 1]
      BY <1>5, <3>1
    <3> QED BY <2>1, <3>2 DEF Range
  <2>4. s[1] \in Range(s)
    <3>1. 1 \in 1 .. n
      BY <1>2
    <3> QED BY <2>1, <3>1 DEF Range
  <2> QED BY <2>2, <2>3, <2>4
<1>7. n = 1 => Range(t) = {}
  <2>1. n = 1 => DOMAIN t = {}
    BY <1>5
  <2> QED BY <2>1 DEF Range
<1>8. n # 1 => t # <<>>
  <2>1. Len(<<>>) = 0
    OBVIOUS
  <2> QED BY <1>2, <1>5, <2>1
<1> QED BY <1>1, <1>3, <1>4, <1>6, <1>7, <1>8

LEMMA Chain ==
    ASSUME NEW s \in Chains
    PROVE  s \in Seq(written) /\ s # <<>> /\ Range(s) \subseteq written
<1>1. s \in Seq(written) /\ s # <<>>
  BY DEF Chains
<1>2. \A i \in DOMAIN s : s[i] \in written
  BY <1>1
<1> QED BY <1>1, <1>2 DEF Range

\* What is well formed stays so while the histories grow.
LEMMA Wider ==
    ASSUME Keeping
    PROVE  /\ Heads \subseteq Heads' /\ Calls \subseteq Calls' /\ Chains \subseteq Chains'
           /\ Seq(written) \subseteq Seq(written')
<1>1. content' = content /\ written \subseteq written'
  BY DEF Keeping
<1>2. Seq(written) \subseteq Seq(written')
  BY <1>1
<1>3. Heads \subseteq Heads' /\ Calls \subseteq Calls'
  BY <1>1 DEF Heads, Calls
<1>4. Chains \subseteq Chains'
  <2>1. ASSUME NEW s PROVE Linked(s)' <=> Linked(s)
    BY <1>1 DEF Linked
  <2> QED BY <1>2, <2>1 DEF Chains
<1> QED BY <1>2, <1>3, <1>4

LEMMA HeldKept ==
    ASSUME Keeping, NEW who, NEW c \in written, Held(who, c)
    PROVE  Held(who, c)'
BY DEF Keeping, Held

LEMMA PinHolds ==
    ASSUME NodesOK, NEW who, NEW c, PinOrNot(who, c)
    PROVE  Held(who, c)'
<1>1. CASE c \in Stored /\ Pin(c)
  <2>1. nodes' = [nodes EXCEPT ![c].pinned = TRUE] /\ nodes \in [Stored -> Node]
    BY <1>1 DEF Pin, NodesOK
  <2>2. nodes'[c].pinned
    BY <1>1, <2>1 DEF Node
  <2> QED BY <2>2 DEF Held
<1>2. CASE c \notin Stored /\ UNCHANGED vars
  BY <1>2 DEF Held, Stored, vars
<1>3. CASE <<who, c>> \in refused'
  BY <1>3 DEF Held
<1> QED BY <1>1, <1>2, <1>3 DEF PinOrNot

\* A request made from a row with a head.
LEMMA RequestMade ==
    ASSUME RowOK, row.head # None, NEW depth \in Nat, NEW token \in Nat
    PROVE  /\ Request(row, depth, token) \in Calls
           /\ Request(row, depth, token).depth = depth
           /\ Request(row, depth, token).root = row.head
           /\ Request(row, depth, token).epoch = row.epoch
<1>1. row.head \in written /\ row.epoch \in Ages
  BY DEF RowOK, Heads
<1> QED BY <1>1 DEF Request, Calls

LEMMA CallRecalled ==
    ASSUME NodesOK, Histories, NEW q \in Calls
    PROVE  /\ Proper(q) /\ q.root \in written /\ q.stack = Stack /\ q.epoch \in Nat
           /\ RecallOf(q).fragments \in Seq(written) /\ Linked(RecallOf(q).fragments)
           /\ Len(RecallOf(q).fragments) <= q.depth + 1
           /\ Len(RecallOf(q).fragments) # 0 => RecallOf(q).fragments[1] = q.root
           /\ RecallOf(q).broken \in Seq(written)
<1>1. Proper(q) /\ q.root \in written /\ q.stack = Stack /\ q.epoch \in Nat
  BY Naturals DEF Calls, Proper, Ages, Histories
<1>2. /\ RecallOf(q) \in Found
      /\ Range(RecallOf(q).fragments) \subseteq Stored
      /\ Range(RecallOf(q).broken) \subseteq written
      /\ Chained(q, RecallOf(q))
  BY <1>1, Recalled
<1>3. ASSUME NEW s \in Seq(Cids), Range(s) \subseteq written PROVE s \in Seq(written)
  <2>1. \A i \in 1 .. Len(s) : s[i] \in written
    BY <1>3 DEF Range
  <2> QED BY <2>1
<1>4. RecallOf(q).fragments \in Seq(Cids) /\ RecallOf(q).broken \in Seq(Cids)
  BY <1>2 DEF Found
<1>5. Range(RecallOf(q).fragments) \subseteq written
  BY <1>2 DEF Histories
<1>6. RecallOf(q).fragments \in Seq(written) /\ RecallOf(q).broken \in Seq(written)
  BY <1>2, <1>3, <1>4, <1>5
<1> QED BY <1>1, <1>2, <1>6 DEF Chained

LEMMA RowKept ==
    ASSUME RowOK, WritersOK, Keeping, RowMoves
    PROVE  RowOK'
<1>1. Heads \subseteq Heads' /\ written \subseteq Heads' /\ Ages' = Ages
  BY Wider DEF Keeping, Heads, Ages
<1>2. CASE UNCHANGED rowVars
  BY <1>1, <1>2 DEF RowOK, rowVars
<1>3. ASSUME NEW w \in Writers, WriteHead(w) PROVE RowOK'
  <2>1. writer[w].cid \in written
    BY <1>3 DEF WriteHead, WritersOK, Off
  <2>2. row' = [row EXCEPT !.head = writer[w].cid]
    BY <1>3 DEF WriteHead
  <2> QED BY <1>1, <2>1, <2>2 DEF RowOK
<1>4. ASSUME NEW e \in Epochs, TakeEpoch(e) PROVE RowOK'
  <2>1. row' = [row EXCEPT !.epoch = e]
    BY <1>4 DEF TakeEpoch
  <2> QED BY <1>1, <2>1 DEF RowOK, Ages
<1> QED BY <1>2, <1>3, <1>4 DEF RowMoves

LEMMA WritersKept ==
    ASSUME RowOK, WritersOK, Keeping, WriterMoves
    PROVE  WritersOK'
<1> DEFINE Of == {Off} \cup [at : {"put"}, head : Heads, epoch : Ages] \cup [at : {"write"}, cid : written]
<1>1. Of \subseteq Of' /\ Off \in Of
  <2>1. Heads \subseteq Heads' /\ written \subseteq written' /\ Ages' = Ages /\ Off' = Off
    BY Wider DEF Keeping, Ages, Off
  <2> QED BY <2>1
<1>2. writer \in [Writers -> Of]
  BY DEF WritersOK
<1>3. CASE UNCHANGED writer
  BY <1>1, <1>2, <1>3 DEF WritersOK
<1>4. ASSUME NEW w \in Writers, NEW x \in Of', writer' = [writer EXCEPT ![w] = x] PROVE WritersOK'
  <2> HIDE DEF Of
  <2>1. writer' \in [Writers -> Of']
    BY <1>1, <1>2, <1>4
  <2> QED BY <2>1 DEF WritersOK, Of
<1>5. ASSUME NEW w \in Writers, WriteRead(w) PROVE WritersOK'
  <2>1. writer' = [writer EXCEPT ![w] = [at |-> "put", head |-> row.head, epoch |-> row.epoch]]
    BY <1>5 DEF WriteRead
  <2>2. [at |-> "put", head |-> row.head, epoch |-> row.epoch] \in Of
    BY DEF RowOK
  <2> QED BY <1>1, <1>4, <2>1, <2>2
<1>6. ASSUME NEW w \in Writers, WriteHead(w) \/ WriteEnds(w) PROVE WritersOK'
  <2>1. writer' = [writer EXCEPT ![w] = Off]
    BY <1>6 DEF WriteHead, WriteEnds
  <2> QED BY <1>1, <1>4, <2>1
<1>7. ASSUME NEW w \in Writers, NEW c \in Cids, NEW pin \in BOOLEAN, WritePut(w, c, pin) PROVE WritersOK'
  <2>1. writer' = [writer EXCEPT ![w] = [at |-> "write", cid |-> c]] /\ c \in written'
    BY <1>7 DEF WritePut
  <2>2. [at |-> "write", cid |-> c] \in Of'
    BY <2>1
  <2> QED BY <1>4, <2>1, <2>2
<1> QED BY <1>3, <1>5, <1>6, <1>7 DEF WriterMoves

LEMMA CompositorKept ==
    ASSUME RowOK, CompositorOK, Keeping, CompositorMoves
    PROVE  CompositorOK'
<1>1. Calls \subseteq Calls'
  BY Wider
<1>2. CASE UNCHANGED compositor
  BY <1>1, <1>2 DEF CompositorOK
<1>3. ASSUME NEW depth \in Depths, NEW token \in Tokens, ReconstructRead(depth, token) PROVE CompositorOK'
  <2>1. depth \in Nat /\ token \in Nat
    BY RecallAssumption
  <2>2. Request(row, depth, token) \in Calls
    BY <1>3, <2>1, RequestMade DEF ReconstructRead
  <2>3. compositor'.request = Request(row, depth, token)
    BY <1>3 DEF ReconstructRead
  <2> QED BY <1>1, <2>2, <2>3 DEF CompositorOK
<1>4. CASE ReconstructAnswer \/ ReconstructDone
  <2>1. compositor'.at # "recall"
    BY <1>4 DEF ReconstructAnswer, ReconstructDone, Off
  <2> QED BY <2>1 DEF CompositorOK
<1> QED BY <1>2, <1>3, <1>4 DEF CompositorMoves

LEMMA CastKept ==
    ASSUME IInv, Histories, RowOK, CastOK, Keeping, CastMoves
    PROVE  CastOK'
<1>0. NodesOK
  BY DEF IInv
<1>1. Calls \subseteq Calls' /\ Chains \subseteq Chains' /\ Seq(written) \subseteq Seq(written')
  BY Wider
<1>2. CASE UNCHANGED cast
  <2>1. cast.at = "recall" => cast.request \in Calls' /\ cast.request.depth = 8
    BY <1>1 DEF CastOK
  <2>2. ASSUME cast.at = "pin"
        PROVE  /\ cast \in [at : {"pin"}, shards : Chains', left : Seq(written')]
               /\ \A c \in Range(cast.shards) \ Range(cast.left) : Held("cast", c)'
    <3>1. cast \in [at : {"pin"}, shards : Chains, left : Seq(written)] /\ cast.shards \in Chains
      BY <2>2 DEF CastOK
    <3>2. Range(cast.shards) \subseteq written
      BY <3>1, Chain
    <3>3. \A c \in Range(cast.shards) \ Range(cast.left) : Held("cast", c)
      BY <2>2 DEF CastOK
    <3>4. \A c \in Range(cast.shards) \ Range(cast.left) : Held("cast", c)'
      BY <3>2, <3>3, HeldKept
    <3> QED BY <1>1, <3>1, <3>4
  <2> QED BY <1>2, <2>1, <2>2 DEF CastOK
<1>3. CASE CastRead
  <2>1. Request(row, 8, 1000) \in Calls /\ Request(row, 8, 1000).depth = 8
    BY <1>3, RequestMade DEF CastRead
  <2>2. cast'.at = "recall" /\ cast'.request = Request(row, 8, 1000)
    BY <1>3 DEF CastRead
  <2> QED BY <1>1, <2>1, <2>2 DEF CastOK
<1>4. CASE CastRecall
  <2>1. PICK s : s = RecallOf(cast.request).fragments
    OBVIOUS
  <2>2. cast' = IF s = <<>> THEN Off ELSE [at |-> "pin", shards |-> s, left |-> s]
    BY <1>4, <2>1 DEF CastRecall
  <2>3. CASE s = <<>>
    <3>1. cast'.at = "off"
      BY <2>2, <2>3 DEF Off
    <3> QED BY <3>1 DEF CastOK
  <2>4. CASE s # <<>>
    <3>1. cast.request \in Calls /\ cast.request.depth = 8
      BY <1>4 DEF CastOK, CastRecall
    <3>2. s \in Seq(written) /\ Linked(s) /\ Len(s) <= 8 + 1
      BY <1>0, <2>1, <3>1, CallRecalled
    <3>3. s \in Chains
      BY <2>4, <3>2 DEF Chains
    <3>4. /\ cast' \in [at : {"pin"}, shards : Chains', left : Seq(written')]
          /\ cast'.at = "pin" /\ cast'.shards = s /\ cast'.left = s
      BY <1>1, <2>2, <2>4, <3>2, <3>3
    <3>5. Range(s) \ Range(s) = {}
      OBVIOUS
    <3> QED BY <3>4, <3>5 DEF CastOK
  <2> QED BY <2>3, <2>4
<1>5. CASE CastPin
  <2>1. cast.at = "pin" /\ cast.left # <<>> /\ PinOrNot("cast", Head(cast.left))
        /\ cast' = [cast EXCEPT !.left = Tail(@)]
    BY <1>5 DEF CastPin
  <2>2. cast \in [at : {"pin"}, shards : Chains, left : Seq(written)]
    BY <2>1 DEF CastOK
  <2>3. PICK s \in Chains, l \in Seq(written) : s = cast.shards /\ l = cast.left
    BY <2>2
  <2>4. PICK h : h = Head(l)
    OBVIOUS
  <2>5. PICK t : t = Tail(l)
    OBVIOUS
  <2>6. t \in Seq(written) /\ Range(l) = {h} \cup Range(t)
    BY <2>1, <2>3, <2>4, <2>5, Tails
  <2>7. /\ cast' \in [at : {"pin"}, shards : Chains', left : Seq(written')]
        /\ cast'.at = "pin" /\ cast'.shards = s /\ cast'.left = t
    BY <1>1, <2>1, <2>2, <2>3, <2>5, <2>6
  <2>8. Held("cast", h)'
    BY <1>0, <2>1, <2>3, <2>4, PinHolds
  <2>9. Range(s) \subseteq written
    BY Chain
  <2>10. \A c \in Range(s) \ Range(l) : Held("cast", c)
    BY <2>1, <2>3 DEF CastOK
  <2>11. \A c \in Range(s) \ Range(l) : Held("cast", c)'
    BY <2>9, <2>10, HeldKept
  <2>12. \A c \in Range(s) \ Range(t) : Held("cast", c)'
    BY <2>6, <2>8, <2>11
  <2> QED BY <2>7, <2>12 DEF CastOK
<1>6. CASE CastRoute \/ CastEnds
  <2>1. cast'.at = "off"
    BY <1>6 DEF CastRoute, CastEnds, Off
  <2> QED BY <2>1 DEF CastOK
<1> QED BY <1>2, <1>3, <1>4, <1>5, <1>6 DEF CastMoves

\* The pinning-service with some of the shards left to pin.
RoutePins(s, l) ==
    /\ s \in Chains /\ l \in Seq(written) \ {<<>>}
    /\ \A c \in Range(s) : Held("cast", c) /\ (c \notin Range(l) => Held("pinning-service", c))

LEMMA RoutePinsIs ==
    ASSUME RouteOK, route.at = "pin"
    PROVE  /\ route = [at |-> "pin", shards |-> route.shards, left |-> route.left]
           /\ RoutePins(route.shards, route.left)
BY DEF RouteOK, RoutePins

LEMMA PinsRoute ==
    ASSUME NEW s, NEW l, route' = [at |-> "pin", shards |-> s, left |-> l], RoutePins(s, l)'
    PROVE  RouteOK'
<1>1. /\ route' \in [at : {"pin"}, shards : Chains', left : Seq(written') \ {<<>>}]
      /\ route'.at = "pin" /\ route'.shards = s /\ route'.left = l
  BY DEF RoutePins
<1>2. \A c \in Range(s) : Held("cast", c)' /\ (c \notin Range(l) => Held("pinning-service", c)')
  BY DEF RoutePins
<1> QED BY <1>1, <1>2 DEF RouteOK

LEMMA RouteKept ==
    ASSUME NodesOK, CastOK, RouteOK, Keeping, RouteMoves
    PROVE  RouteOK'
<1>1. Chains \subseteq Chains' /\ Seq(written) \subseteq Seq(written')
  BY Wider
<1>2. ASSUME NEW s \in Chains, NEW who PROVE \A c \in Range(s) : Held(who, c) => Held(who, c)'
  BY Chain, HeldKept
<1>3. ASSUME NEW s, NEW l, RoutePins(s, l) PROVE RoutePins(s, l)'
  <2>1. s \in Chains /\ l \in Seq(written) \ {<<>>}
    BY <1>3 DEF RoutePins
  <2>2. \A c \in Range(s) : Held("cast", c)' /\ (c \notin Range(l) => Held("pinning-service", c)')
    BY <1>2, <1>3, <2>1 DEF RoutePins
  <2> QED BY <1>1, <2>1, <2>2 DEF RoutePins
<1>4. CASE UNCHANGED route
  <2>1. CASE route.at = "pin"
    BY <1>3, <1>4, <2>1, RoutePinsIs, PinsRoute
  <2>2. CASE route.at = "done"
    <3>1. route.shards \in Chains
          /\ \A c \in Range(route.shards) : Held("cast", c) /\ Held("pinning-service", c)
      BY <2>2 DEF RouteOK
    <3>2. PICK s \in Chains : s = route.shards
      BY <3>1
    <3>3. \A c \in Range(s) : Held("cast", c)' /\ Held("pinning-service", c)'
      BY <1>2, <3>1, <3>2
    <3> QED BY <1>1, <1>4, <2>2, <3>2, <3>3 DEF RouteOK
  <2>3. CASE route.at \notin {"pin", "done"}
    BY <1>4, <2>3 DEF RouteOK
  <2> QED BY <2>1, <2>2, <2>3
<1>5. CASE CastRoute
  <2>1. cast.at = "pin" /\ cast.left = <<>> /\ route' = [at |-> "pin", shards |-> cast.shards, left |-> cast.shards]
    BY <1>5 DEF CastRoute
  <2>2. PICK s \in Chains : s = cast.shards
    BY <2>1 DEF CastOK
  <2>3. Range(cast.left) = {}
    BY <2>1 DEF Range
  <2>4. \A c \in Range(s) : Held("cast", c)
    BY <2>1, <2>2, <2>3 DEF CastOK
  <2>5. RoutePins(s, s)
    BY <2>4, Chain DEF RoutePins
  <2> QED BY <1>3, <2>1, <2>2, <2>5, PinsRoute
<1>6. CASE RouteAgain
  <2>1. route.at = "pin" /\ route' = [route EXCEPT !.left = route.shards]
    BY <1>6 DEF RouteAgain
  <2>2. PICK s, l : /\ route = [at |-> "pin", shards |-> s, left |-> l]
                    /\ s = route.shards /\ RoutePins(s, l)
    BY <2>1, RoutePinsIs
  <2>3. route' = [at |-> "pin", shards |-> s, left |-> s]
    BY <2>1, <2>2
  <2>4. RoutePins(s, s)
    BY <2>2, Chain DEF RoutePins
  <2> QED BY <1>3, <2>3, <2>4, PinsRoute
<1>7. CASE PinShard
  <2>1. /\ route.at = "pin" /\ PinOrNot("pinning-service", Head(route.left))
        /\ route' = IF Len(route.left) = 1 THEN [at |-> "done", shards |-> route.shards]
                    ELSE [route EXCEPT !.left = Tail(@)]
    BY <1>7 DEF PinShard
  <2>2. PICK s, l : /\ route = [at |-> "pin", shards |-> s, left |-> l]
                    /\ s = route.shards /\ l = route.left /\ RoutePins(s, l)
    BY <2>1, RoutePinsIs
  <2>3. PICK h : h = Head(l)
    OBVIOUS
  <2>4. PICK t : t = Tail(l)
    OBVIOUS
  <2>5. /\ t \in Seq(written) /\ Range(l) = {h} \cup Range(t)
        /\ Len(l) = 1 => Range(l) = {h}
        /\ Len(l) # 1 => t # <<>>
    BY <2>2, <2>3, <2>4, Tails DEF RoutePins
  <2>6. Held("pinning-service", h)'
    BY <2>1, <2>2, <2>3, PinHolds
  <2>7. s \in Chains /\ \A c \in Range(s) : Held("cast", c)' /\ (c \notin Range(l) => Held("pinning-service", c)')
    BY <1>3, <2>2 DEF RoutePins
  <2>8. CASE Len(l) = 1
    <3>1. route'.at = "done" /\ route'.shards = s
      BY <2>1, <2>2, <2>8
    <3>2. \A c \in Range(s) : Held("cast", c)' /\ Held("pinning-service", c)'
      BY <2>5, <2>6, <2>7, <2>8
    <3> QED BY <1>1, <2>7, <3>1, <3>2 DEF RouteOK
  <2>9. CASE Len(l) # 1
    <3>1. route' = [at |-> "pin", shards |-> s, left |-> t]
      BY <2>1, <2>2, <2>4, <2>9
    <3>2. \A c \in Range(s) : Held("cast", c)' /\ (c \notin Range(t) => Held("pinning-service", c)')
      BY <2>5, <2>6, <2>7
    <3>3. RoutePins(s, t)'
      BY <1>1, <2>5, <2>7, <2>9, <3>2 DEF RoutePins
    <3> QED BY <3>1, <3>3, PinsRoute
  <2> QED BY <2>8, <2>9
<1> QED BY <1>4, <1>5, <1>6, <1>7 DEF RouteMoves

LEMMA ReconcilerKept ==
    ASSUME NodesOK, Histories, RowOK, ReconcilerOK, Keeping, ReconcilerMoves
    PROVE  ReconcilerOK'
<1>1. /\ Calls \subseteq Calls' /\ Seq(written) \subseteq Seq(written')
      /\ \A c \in written : c \notin Stored => c \notin Stored'
  BY Wider DEF Keeping
<1>2. ASSUME NEW l \in Seq(written), l # <<>>, Range(l) \cap Stored = {},
             reconciler' = [at |-> "pin", left |-> l]
      PROVE  ReconcilerOK'
  <2>1. Range(l) \subseteq written
    BY DEF Range
  <2>2. Range(l) \cap Stored' = {}
    BY <1>1, <1>2, <2>1
  <2> QED BY <1>1, <1>2, <2>2 DEF ReconcilerOK
<1>3. ASSUME reconciler.at = "pin"
      PROVE  \E l \in Seq(written) : /\ reconciler = [at |-> "pin", left |-> l] /\ l = reconciler.left
                                     /\ l # <<>> /\ Range(l) \cap Stored = {}
  BY <1>3 DEF ReconcilerOK
<1>4. CASE UNCHANGED reconciler
  <2>1. CASE reconciler.at = "pin"
    BY <1>2, <1>3, <1>4, <2>1
  <2>2. CASE reconciler.at # "pin"
    BY <1>1, <1>4, <2>2 DEF ReconcilerOK
  <2> QED BY <2>1, <2>2
<1>5. CASE ReconcileRead
  <2>1. Request(row, 4, 100) \in Calls
    BY <1>5, RequestMade DEF ReconcileRead
  <2>2. reconciler'.at = "recall" /\ reconciler'.request = Request(row, 4, 100)
    BY <1>5 DEF ReconcileRead
  <2> QED BY <1>1, <2>1, <2>2 DEF ReconcilerOK
<1>6. CASE ReconcileRecall
  <2>1. PICK b : b = RecallOf(reconciler.request).broken
    OBVIOUS
  <2>2. PICK l : l = Picked(b, Cids \ Stored)
    OBVIOUS
  <2>3. reconciler' = IF l = <<>> THEN Off ELSE [at |-> "pin", left |-> l]
    BY <1>6, <2>1, <2>2 DEF ReconcileRecall
  <2>4. b \in Seq(written)
    BY <1>6, <2>1, CallRecalled DEF ReconcileRecall, ReconcilerOK
  <2>5. l \in Seq(written) /\ Range(l) \subseteq Cids \ Stored
    BY <2>2, <2>4, PickedIn
  <2>6. CASE l = <<>>
    <3>1. reconciler'.at = "off"
      BY <2>3, <2>6 DEF Off
    <3> QED BY <3>1 DEF ReconcilerOK
  <2>7. CASE l # <<>>
    BY <1>2, <2>3, <2>5, <2>7
  <2> QED BY <2>6, <2>7
<1>7. CASE ReconcilePin
  <2>1. /\ reconciler.at = "pin"
        /\ reconciler' = IF Len(reconciler.left) = 1 THEN Off ELSE [reconciler EXCEPT !.left = Tail(@)]
    BY <1>7 DEF ReconcilePin
  <2>2. PICK l \in Seq(written) : /\ reconciler = [at |-> "pin", left |-> l] /\ l = reconciler.left
                                  /\ l # <<>> /\ Range(l) \cap Stored = {}
    BY <1>3, <2>1
  <2>3. PICK t : t = Tail(l)
    OBVIOUS
  <2>4. t \in Seq(written) /\ Range(t) \subseteq Range(l) /\ (Len(l) # 1 => t # <<>>)
    BY <2>2, <2>3, Tails
  <2>5. CASE Len(l) = 1
    <3>1. reconciler'.at = "off"
      BY <2>1, <2>2, <2>5 DEF Off
    <3> QED BY <3>1 DEF ReconcilerOK
  <2>6. CASE Len(l) # 1
    <3>1. reconciler' = [at |-> "pin", left |-> t]
      BY <2>1, <2>2, <2>3, <2>6
    <3> QED BY <1>2, <2>2, <2>4, <2>6, <3>1
  <2> QED BY <2>5, <2>6
<1>8. CASE PassEnds
  <2>1. reconciler'.at = "off"
    BY <1>8 DEF PassEnds, Off
  <2> QED BY <2>1 DEF ReconcilerOK
<1> QED BY <1>4, <1>5, <1>6, <1>7, <1>8 DEF ReconcilerMoves

LEMMA EpochNumbers ==
    ASSUME NodesOK, Histories, RowOK, WritersOK
    PROVE  /\ \A c \in Cids : content[c].epoch \in Nat
           /\ row.epoch \in Nat /\ (row.head # None => row.head \in written)
           /\ \A w \in Writers :
                /\ writer[w].at = "put" => /\ writer[w].epoch \in Nat
                                           /\ writer[w].head # None => writer[w].head \in written
                /\ writer[w].at = "write" => writer[w].cid \in written
<1>1. Ages \subseteq Nat
  BY Naturals DEF Ages
<1>2. \A c \in Cids : content[c].epoch \in Nat
  BY DagAssumption DEF NodesOK
<1>3. row.epoch \in Nat /\ (row.head # None => row.head \in written)
  BY <1>1 DEF RowOK, Heads
<1>4. ASSUME NEW w \in Writers
      PROVE  /\ writer[w].at = "put" => /\ writer[w].epoch \in Nat
                                        /\ writer[w].head # None => writer[w].head \in written
             /\ writer[w].at = "write" => writer[w].cid \in written
  <2>1. PICK x : x = writer[w]
    OBVIOUS
  <2>2. x = Off \/ x \in [at : {"put"}, head : Heads, epoch : Ages] \/ x \in [at : {"write"}, cid : written]
    BY <2>1 DEF WritersOK
  <2>3. x = Off => x.at = "off"
    BY DEF Off
  <2>4. x \in [at : {"put"}, head : Heads, epoch : Ages]
          => x.at = "put" /\ x.epoch \in Nat /\ (x.head # None => x.head \in written)
    BY <1>1 DEF Heads
  <2>5. x \in [at : {"write"}, cid : written] => x.at = "write" /\ x.cid \in written
    OBVIOUS
  <2> QED BY <2>1, <2>2, <2>3, <2>4, <2>5
<1> QED BY <1>2, <1>3, <1>4

\* A fragment is as old as its writer read the stack to be, and its link no younger.
LEMMA PutAged ==
    ASSUME NodesOK, Histories, RowOK, WritersOK, NEW w \in Writers, NEW c \in Cids, NEW pin \in BOOLEAN,
           WritePut(w, c, pin), AgedWriter(writer[w])
    PROVE  /\ content[c].epoch <= row.epoch
           /\ \A l \in Range(content[c].links) : content[l].epoch <= content[c].epoch
<1>1. writer[w].at = "put"
  BY DEF WritePut
<1>2. PICK h, e : h = writer[w].head /\ e = writer[w].epoch
  OBVIOUS
<1>3. content[c] = [stack |-> Stack, epoch |-> e, kind |-> "episodic", links |-> IF h = None THEN <<>> ELSE <<h>>]
  BY <1>2 DEF WritePut
<1>4. content[c].epoch = e /\ content[c].links = IF h = None THEN <<>> ELSE <<h>>
  BY <1>3
<1>5. e <= row.epoch /\ (h # None => content[h].epoch <= e)
  BY <1>1, <1>2 DEF AgedWriter
<1>6. h # None => h \in written
  BY <1>1, <1>2, EpochNumbers
<1>7. ASSUME NEW l \in Range(content[c].links) PROVE content[l].epoch <= e
  <2>1. CASE h = None
    <3>1. Range(<<>>) = {}
      BY DEF Range
    <3> QED BY <1>4, <1>7, <2>1, <3>1
  <2>2. CASE h # None
    <3>1. <<h>> \in Seq(written) /\ Len(<<h>>) = 1
      BY <1>6, <2>2
    <3>2. PICK s \in Seq(written) : s = <<h>>
      BY <3>1
    <3>3. Range(s) = {s[1]} /\ s[1] = h
      BY <3>1, <3>2, RangeOfOne
    <3>4. l = h
      BY <1>4, <1>7, <2>2, <3>2, <3>3
    <3> QED BY <1>5, <2>2, <3>4
  <2> QED BY <2>1, <2>2
<1> QED BY <1>4, <1>5, <1>7

\* Short of an old transition the epoch of the row does not go down.
LEMMA RowAges ==
    ASSUME RowOK, RowMoves, ~turnedBack'
    PROVE  ~turnedBack /\ row'.epoch >= row.epoch
<1>1. row.epoch \in Nat
  BY Naturals DEF RowOK, Ages
<1>2. CASE UNCHANGED rowVars
  BY <1>1, <1>2 DEF rowVars
<1>3. ASSUME NEW w \in Writers, WriteHead(w) PROVE ~turnedBack /\ row'.epoch >= row.epoch
  <2>1. row' = [row EXCEPT !.head = writer[w].cid] /\ turnedBack' = turnedBack
    BY <1>3 DEF WriteHead
  <2>2. row'.epoch = row.epoch
    BY <2>1 DEF RowOK
  <2> QED BY <1>1, <2>1, <2>2
<1>4. ASSUME NEW e \in Epochs, TakeEpoch(e) PROVE ~turnedBack /\ row'.epoch >= row.epoch
  <2>1. row' = [row EXCEPT !.epoch = e] /\ turnedBack' = (turnedBack \/ e < row.epoch)
    BY <1>4 DEF TakeEpoch
  <2>2. row'.epoch = e
    BY <2>1 DEF RowOK
  <2>3. ~turnedBack /\ ~(e < row.epoch)
    BY <2>1
  <2>4. e \in Nat
    BY DagAssumption
  <2> QED BY <1>1, <2>2, <2>3, <2>4
<1> QED BY <1>2, <1>3, <1>4 DEF RowMoves

LEMMA HistoryAges ==
    ASSUME NodesOK, Histories, RowOK, WritersOK, Lattice, Keeping,
           AgedHistory, \A w \in Writers : AgedWriter(writer[w])
    PROVE  AgedHistory'
<1>1. content' = content
  BY DEF Keeping
<1>2. CASE UNCHANGED written
  BY <1>1, <1>2 DEF AgedHistory
<1>3. ASSUME NEW w \in Writers, NEW c \in Cids, NEW pin \in BOOLEAN, WritePut(w, c, pin) PROVE AgedHistory'
  <2>1. written' = written \cup {c}
    BY <1>3 DEF WritePut
  <2>2. \A l \in Range(content[c].links) : content[l].epoch <= content[c].epoch
    BY <1>3, PutAged
  <2> QED BY <1>1, <2>1, <2>2 DEF AgedHistory
<1> QED BY <1>2, <1>3 DEF Lattice

LEMMA RowHeadAges ==
    ASSUME NodesOK, Histories, RowOK, WritersOK, RowMoves, Keeping, ~turnedBack',
           AgedRow, \A w \in Writers : AgedWriter(writer[w])
    PROVE  AgedRow'
<1>1. content' = content
  BY DEF Keeping
<1>2. CASE UNCHANGED rowVars
  BY <1>1, <1>2 DEF AgedRow, rowVars
<1>3. ASSUME NEW w \in Writers, WriteHead(w) PROVE AgedRow'
  <2>1. row' = [row EXCEPT !.head = writer[w].cid] /\ writer[w].at = "write"
    BY <1>3 DEF WriteHead
  <2>2. row'.epoch = row.epoch /\ row'.head = writer[w].cid
    BY <2>1 DEF RowOK
  <2> QED BY <1>1, <2>1, <2>2 DEF AgedRow, AgedWriter
<1>4. ASSUME NEW e \in Epochs, TakeEpoch(e) PROVE AgedRow'
  <2>1. row' = [row EXCEPT !.epoch = e]
    BY <1>4 DEF TakeEpoch
  <2>2. row'.head = row.head
    BY <2>1 DEF RowOK
  <2>3. row'.epoch >= row.epoch
    BY RowAges
  <2>4. row.head # None => content[row.head].epoch <= row.epoch
    BY DEF AgedRow
  <2>5. row.head # None => content[row.head].epoch \in Nat
    BY EpochNumbers DEF Histories
  <2>6. row.epoch \in Nat /\ row'.epoch \in Nat
    BY <1>4, <2>1, EpochNumbers, DagAssumption DEF RowOK
  <2>7. row.head # None => content[row.head].epoch <= row'.epoch
    BY <2>3, <2>4, <2>5, <2>6
  <2> QED BY <1>1, <2>2, <2>7 DEF AgedRow
<1> QED BY <1>2, <1>3, <1>4 DEF RowMoves

LEMMA WriterAges ==
    ASSUME NodesOK, Histories, RowOK, WritersOK, RowMoves, WriterMoves, Keeping, RowOK', ~turnedBack',
           AgedRow, \A w \in Writers : AgedWriter(writer[w])
    PROVE  \A w \in Writers : AgedWriter(writer[w])'
<1>1. content' = content /\ row'.epoch >= row.epoch /\ row.epoch \in Nat /\ row'.epoch \in Nat
  <2>1. row'.epoch \in Nat
    BY Naturals DEF RowOK, Ages
  <2> QED BY <2>1, RowAges, EpochNumbers DEF Keeping
\* A writer that has not moved.
<1>2. ASSUME NEW v \in Writers, NEW x, x = writer[v], x = writer'[v] PROVE AgedWriter(x)'
  <2>1. x.at = "put" => /\ x.epoch <= row.epoch /\ x.epoch \in Nat
                        /\ x.head # None => content[x.head].epoch <= x.epoch
    BY <1>2, EpochNumbers DEF AgedWriter
  <2>2. x.at = "write" => content[x.cid].epoch <= row.epoch /\ content[x.cid].epoch \in Nat
    BY <1>2, EpochNumbers DEF AgedWriter, Histories
  <2>3. x.at = "put" => x.epoch <= row'.epoch
    BY <1>1, <2>1
  <2>4. x.at = "write" => content[x.cid].epoch <= row'.epoch
    BY <1>1, <2>2
  <2> QED BY <1>1, <2>1, <2>3, <2>4 DEF AgedWriter
<1>3. ASSUME NEW w \in Writers, NEW x, writer' = [writer EXCEPT ![w] = x], AgedWriter(x)',
             NEW v \in Writers
      PROVE  AgedWriter(writer[v])'
  <2>1. writer'[v] = IF v = w THEN x ELSE writer[v]
    BY <1>3 DEF WritersOK
  <2>2. CASE v = w
    BY <1>3, <2>1, <2>2
  <2>3. CASE v # w
    BY <1>2, <2>1, <2>3
  <2> QED BY <2>2, <2>3
<1>4. SUFFICES ASSUME NEW v \in Writers PROVE AgedWriter(writer[v])'
  OBVIOUS
<1>5. CASE UNCHANGED writer
  BY <1>2, <1>5
<1>6. ASSUME NEW w \in Writers, WriteRead(w) PROVE AgedWriter(writer[v])'
  <2>1. PICK x : x = [at |-> "put", head |-> row.head, epoch |-> row.epoch]
    OBVIOUS
  <2>2. writer' = [writer EXCEPT ![w] = x]
    BY <1>6, <2>1 DEF WriteRead
  <2>3. x.at = "put" /\ x.head = row.head /\ x.epoch = row.epoch
    BY <2>1
  <2>4. AgedWriter(x)'
    BY <1>1, <2>3 DEF AgedWriter, AgedRow
  <2> QED BY <1>3, <2>2, <2>4
<1>7. ASSUME NEW w \in Writers, WriteHead(w) \/ WriteEnds(w) PROVE AgedWriter(writer[v])'
  <2>1. writer' = [writer EXCEPT ![w] = Off]
    BY <1>7 DEF WriteHead, WriteEnds
  <2>2. AgedWriter(Off)'
    BY DEF AgedWriter, Off
  <2>3. PICK x : x = Off
    OBVIOUS
  <2>4. AgedWriter(x)'
    BY <2>3 DEF AgedWriter, Off
  <2> QED BY <1>3, <2>1, <2>3, <2>4
<1>8. ASSUME NEW w \in Writers, NEW c \in Cids, NEW pin \in BOOLEAN, WritePut(w, c, pin)
      PROVE  AgedWriter(writer[v])'
  <2>1. PICK x : x = [at |-> "write", cid |-> c]
    OBVIOUS
  <2>2. writer' = [writer EXCEPT ![w] = x]
    BY <1>8, <2>1 DEF WritePut
  <2>3. x.at = "write" /\ x.cid = c
    BY <2>1
  <2>4. content[c].epoch <= row.epoch /\ content[c].epoch \in Nat
    BY <1>8, PutAged, EpochNumbers
  <2>5. content[c].epoch <= row'.epoch
    BY <1>1, <2>4
  <2>6. AgedWriter(x)'
    BY <1>1, <2>3, <2>5 DEF AgedWriter
  <2> QED BY <1>3, <2>2, <2>6
<1> QED BY <1>5, <1>6, <1>7, <1>8 DEF WriterMoves

LEMMA CompositorAges ==
    ASSUME NodesOK, Histories, RowOK, WritersOK, CompositorOK, CompositorMoves, Keeping,
           AgedHistory, AgedRow, AgedCompositor
    PROVE  AgedCompositor'
<1>1. content' = content
  BY DEF Keeping
<1>2. CASE UNCHANGED compositor
  BY <1>1, <1>2 DEF AgedCompositor
<1>3. ASSUME NEW depth \in Depths, NEW token \in Tokens, ReconstructRead(depth, token) PROVE AgedCompositor'
  <2>1. compositor' = [at |-> "recall", request |-> Request(row, depth, token)] /\ row.head # None
    BY <1>3 DEF ReconstructRead
  <2>2. Request(row, depth, token).root = row.head /\ Request(row, depth, token).epoch = row.epoch
    BY DEF Request
  <2>3. /\ compositor'.at = "recall"
        /\ compositor'.request.root = row.head /\ compositor'.request.epoch = row.epoch
    BY <2>1, <2>2
  <2> QED BY <1>1, <2>1, <2>3 DEF AgedCompositor, AgedRow
<1>4. CASE ReconstructAnswer
  <2>1. PICK q : q = compositor.request
    OBVIOUS
  <2>2. PICK s : s = RecallOf(q).fragments
    OBVIOUS
  <2>3. compositor.at = "recall" /\ q \in Calls
    BY <1>4, <2>1 DEF ReconstructAnswer, CompositorOK
  <2>4. compositor' = IF s = <<>> THEN [at |-> "failed", broken |-> RecallOf(q).broken]
                      ELSE [at |-> "answered", fragments |-> s, decoded |-> Decoded(s, q.epoch)]
    BY <1>4, <2>1, <2>2 DEF ReconstructAnswer
  <2>5. CASE s = <<>>
    <3>1. compositor'.at = "failed"
      BY <2>4, <2>5
    <3> QED BY <3>1 DEF AgedCompositor
  <2>6. CASE s # <<>>
    <3>1. compositor'.at = "answered" /\ compositor'.fragments = s /\ compositor'.decoded = Decoded(s, q.epoch)
      BY <2>4, <2>6
    <3>2. /\ q.epoch \in Nat /\ s \in Seq(written) /\ Linked(s)
          /\ Len(s) # 0 => s[1] = q.root
      BY <2>2, <2>3, CallRecalled
    <3>3. Range(s) \subseteq written /\ s \in Seq(Cids)
      BY <3>2 DEF Histories, Range
    <3>4. content[q.root].epoch <= q.epoch
      BY <2>1, <2>3 DEF AgedCompositor
    <3>5. \A c \in Range(s) : \A l \in Range(content[c].links) : content[l].epoch <= content[c].epoch
      BY <3>3 DEF AgedHistory
    <3>6. IsPrefix(Decoded(s, q.epoch), s)
      BY <3>2, <3>3, <3>4, <3>5, DecodedIsPrefix
    <3> QED BY <3>1, <3>6 DEF AgedCompositor
  <2> QED BY <2>5, <2>6
<1>5. CASE ReconstructDone
  <2>1. compositor'.at = "off"
    BY <1>5 DEF ReconstructDone, Off
  <2> QED BY <2>1 DEF AgedCompositor
<1> QED BY <1>2, <1>3, <1>4, <1>5 DEF CompositorMoves

LEMMA MemoryStarts ==
    ASSUME MemoryInit
    PROVE  MemoryIInv
<1>1. /\ row = [head |-> None, epoch |-> 0] /\ writer = [w \in Writers |-> Off]
      /\ compositor.at = "off" /\ cast.at = "off" /\ route.at = "off" /\ reconciler.at = "off"
      /\ written = {} /\ nodes = <<>>
  BY DEF MemoryInit, Init, Off
<1>2. IInv
  BY EmptyHolds DEF MemoryInit, Init
<1>3. Stored = {}
  BY <1>1 DEF Stored
<1>4. Histories /\ Forever
  BY <1>1, <1>3 DEF Histories, Forever
<1>5. RowOK /\ row.head = None
  BY <1>1 DEF RowOK, Heads, Ages
<1>6. WritersOK /\ \A w \in Writers : writer[w].at = "off"
  BY <1>1 DEF WritersOK, Off
<1>7. CompositorOK /\ CastOK /\ RouteOK /\ ReconcilerOK
  BY <1>1 DEF CompositorOK, CastOK, RouteOK, ReconcilerOK
<1>8. Aged
  BY <1>1, <1>5, <1>6 DEF Aged, AgedHistory, AgedRow, AgedCompositor, AgedWriter
<1> QED BY <1>2, <1>4, <1>5, <1>6, <1>7, <1>8 DEF MemoryIInv

LEMMA MemoryKept ==
    ASSUME MemoryIInv, [MemoryNext]_allVars
    PROVE  MemoryIInv'
<1>1. /\ IInv /\ NodesOK /\ Histories /\ Forever
      /\ RowOK /\ WritersOK /\ CompositorOK /\ CastOK /\ RouteOK /\ ReconcilerOK /\ Aged
  BY DEF MemoryIInv, IInv
<1>2. /\ Lattice /\ RowMoves /\ WriterMoves /\ CompositorMoves
      /\ CastMoves /\ RouteMoves /\ ReconcilerMoves
  BY StepMoves
<1>3. IInv' /\ Histories' /\ Forever' /\ Keeping
  BY <1>1, <1>2, LatticeKeeps
<1>4. RowOK' /\ WritersOK' /\ CompositorOK'
  BY <1>1, <1>2, <1>3, RowKept, WritersKept, CompositorKept
<1>5. CastOK' /\ RouteOK' /\ ReconcilerOK'
  BY <1>1, <1>2, <1>3, CastKept, RouteKept, ReconcilerKept
<1>6. Aged'
  <2>1. SUFFICES ASSUME ~turnedBack' PROVE (AgedHistory /\ AgedRow /\ AgedCompositor
                                            /\ \A w \in Writers : AgedWriter(writer[w]))'
    BY DEF Aged
  <2>2. ~turnedBack
    BY <1>1, <1>2, <2>1, RowAges
  <2>3. AgedHistory /\ AgedRow /\ AgedCompositor /\ \A w \in Writers : AgedWriter(writer[w])
    BY <1>1, <2>2 DEF Aged
  <2>4. AgedHistory'
    BY <1>1, <1>2, <1>3, <2>3, HistoryAges
  <2>5. AgedRow'
    BY <1>1, <1>2, <1>3, <2>1, <2>3, RowHeadAges
  <2>6. AgedCompositor'
    BY <1>1, <1>2, <1>3, <2>3, CompositorAges
  <2>7. \A w \in Writers : AgedWriter(writer[w])'
    BY <1>1, <1>2, <1>3, <1>4, <2>1, <2>3, WriterAges
  <2> QED BY <2>4, <2>5, <2>6, <2>7
<1> QED BY <1>3, <1>4, <1>5, <1>6 DEF MemoryIInv

\* The inductive invariant of a memory's life: the fragments that siyana-api wrote are a
\* history of single links to what was written before, and every pin of one is for ever;
\* the row, the requests under way and the shards to pin name only such fragments; a shard
\* that was handed to a pinner is pinned, was refused to it, or is lost; and until an old
\* transition is handled, epochs do not rise along what is linked or about to be.
THEOREM MemoryInvariant == MemorySpec => []MemoryIInv
<1>1. MemoryInit => MemoryIInv
  BY MemoryStarts
<1>2. MemoryIInv /\ [MemoryNext]_allVars => MemoryIInv'
  BY MemoryKept
<1> QED BY <1>1, <1>2, PTL DEF MemorySpec

\* What the services do to hippod, together and with all their failures, are steps of the
\* lattice: all that is proved of hippod holds of the hippod they use.
THEOREM MemoryUsesHippod == MemorySpec => Spec
<1>1. MemoryInit => Init
  BY DEF MemoryInit
<1>2. MemoryIInv /\ [MemoryNext]_allVars => [Next]_vars
  <2>1. SUFFICES ASSUME MemoryIInv, [MemoryNext]_allVars PROVE [Next]_vars
    OBVIOUS
  <2>2. Lattice
    BY <2>1, StepMoves
  <2>3. ASSUME NEW w \in Writers, NEW c \in Cids, NEW pin \in BOOLEAN, WritePut(w, c, pin) PROVE Next
    BY <2>3 DEF WritePut, Next
  <2>4. ASSUME NEW who, NEW c, PinOrNot(who, c) PROVE [Next]_vars
    <3>1. c \in Stored => c \in Cids
      BY <2>1 DEF MemoryIInv, Histories
    <3>2. (c \in Stored /\ Pin(c)) \/ UNCHANGED vars
      BY <2>4 DEF PinOrNot
    <3> QED BY <3>1, <3>2 DEF Next
  <2>5. Restart => Next
    BY DEF Next
  <2> QED BY <2>2, <2>3, <2>4, <2>5 DEF Lattice, vars
<1> QED BY <1>1, <1>2, MemoryInvariant, PTL DEF MemorySpec, Spec

\* The reconciler heals nothing: whatever its pass set out to pin, hippod does not hold,
\* and as long as the pass runs nobody writes it again.
THEOREM NeverHeals == MemorySpec => []NothingToHeal
<1>1. MemoryIInv => NothingToHeal
  BY DEF MemoryIInv, ReconcilerOK, NothingToHeal
<1> QED BY <1>1, MemoryInvariant, PTL

\* Until an old transition is handled after a later one, epochs never rise along the
\* links of the stored fragments, and what a reconstruction decodes is the newest part of
\* what it returns.
THEOREM NewestDecoded == MemorySpec => []DecodesNewest
<1>1. MemoryIInv => DecodesNewest
  <2>1. SUFFICES ASSUME MemoryIInv, ~turnedBack
                 PROVE  /\ \A c \in Stored : \A l \in Range(content[c].links) : content[l].epoch <= content[c].epoch
                        /\ compositor.at = "answered" => IsPrefix(compositor.decoded, compositor.fragments)
    BY DEF DecodesNewest
  <2>2. AgedHistory /\ AgedCompositor /\ Stored \subseteq written
    BY <2>1 DEF MemoryIInv, Aged, Histories
  <2> QED BY <2>2 DEF AgedHistory, AgedCompositor
<1> QED BY <1>1, MemoryInvariant, PTL

\* Once the pinning-service is done with the event of a needlecast, its shards are found
\* from the first of them at every epoch, if hippod still holds them and did not refuse
\* one of them to both the saga and the pinning-service.
THEOREM BondsHold == MemorySpec => []BondHolds
<1>1. ASSUME MemoryIInv, route.at = "done",
             NEW s, s = route.shards,
             \A c \in Range(s) : c \in Stored /\ ~({"cast", "pinning-service"} \X {c} \subseteq refused),
             NEW e \in Epochs
      PROVE  Range(s) \subseteq Range(RecallOf([root |-> Head(s), stack |-> Stack, epoch |-> e,
                                                depth |-> 8, token |-> 1000]).fragments)
  <2>1. NodesOK /\ Histories
    BY <1>1 DEF MemoryIInv, IInv
  <2>2. s \in Chains /\ \A c \in Range(s) : Held("cast", c) /\ Held("pinning-service", c)
    BY <1>1 DEF MemoryIInv, RouteOK
  <2>3. s \in Seq(written) /\ s # <<>> /\ Len(s) <= 9 /\ Linked(s) /\ Range(s) \subseteq written
    BY <2>2, Chain DEF Chains
  <2>4. s \in Seq(Cids)
    <3>1. \A i \in 1 .. Len(s) : s[i] \in Cids
      BY <2>1, <2>3 DEF Histories
    <3> QED BY <2>3, <3>1
  <2>5. Len(s) # 0
    BY <2>3
  <2>6. ASSUME NEW c \in Range(s)
        PROVE  /\ c \in Stored /\ content[c].stack = Stack
               /\ nodes[c].pinned /\ nodes[c].pinExpiry = 0
    <3>1. ~(<<"cast", c>> \in refused /\ <<"pinning-service", c>> \in refused)
      <4>1. \A p \in {"cast", "pinning-service"} \X {c} : p = <<"cast", c>> \/ p = <<"pinning-service", c>>
        OBVIOUS
      <4> QED BY <1>1, <4>1
    <3>2. c \in Stored /\ (nodes[c].pinned \/ <<"cast", c>> \in refused)
          /\ (nodes[c].pinned \/ <<"pinning-service", c>> \in refused)
      BY <1>1, <2>2 DEF Held
    <3>3. content[c].stack = Stack
      BY <2>1, <2>3 DEF Histories
    <3>4. nodes[c].pinExpiry = 0
      BY <1>1, <3>2 DEF MemoryIInv, Forever
    <3> QED BY <3>1, <3>2, <3>3, <3>4
  <2> QED BY <2>1, <2>3, <2>4, <2>5, <2>6, BondRecalled
<1>2. MemoryIInv => BondHolds
  <2>1. SUFFICES ASSUME MemoryIInv, route.at = "done",
                        \A c \in Range(route.shards) :
                            c \in Stored /\ ~({"cast", "pinning-service"} \X {c} \subseteq refused),
                        NEW e \in Epochs
                 PROVE  Range(route.shards) \subseteq
                            Range(RecallOf([root |-> Head(route.shards), stack |-> Stack, epoch |-> e,
                                            depth |-> 8, token |-> 1000]).fragments)
    BY DEF BondHolds
  <2>2. PICK s : s = route.shards
    OBVIOUS
  <2>3. Range(s) \subseteq Range(RecallOf([root |-> Head(s), stack |-> Stack, epoch |-> e,
                                           depth |-> 8, token |-> 1000]).fragments)
    BY <1>1, <2>1, <2>2
  <2> QED BY <2>2, <2>3
<1> QED BY <1>2, MemoryInvariant, PTL
=============================================================================
