------------------------ MODULE CoherenceCycleProofs ------------------------
(***************************************************************************)
(* Proofs about the daemon's chain and its field, the Merkle tree and the  *)
(* router that drives the chain, for any events, deliveries, failures,     *)
(* window, and restarts.                                                   *)
(***************************************************************************)
EXTENDS CoherenceCycle, SynapticField, FiniteSetTheorems, WellFoundedInduction, TLAPS

(* Sequences over what they hold.                                           *)

IsSeq(s) == s \in Seq({s[i] : i \in DOMAIN s})

\* A sequence over any set is one.
LEMMA SeqIsSeq ==
    ASSUME NEW S, NEW s \in Seq(S)
    PROVE  IsSeq(s)
<1>1. Len(s) \in Nat /\ DOMAIN s = 1 .. Len(s) /\ s = [i \in 1 .. Len(s) |-> s[i]]
  OBVIOUS
<1>2. s \in [1 .. Len(s) -> {s[i] : i \in DOMAIN s}]
  BY <1>1
<1> QED BY <1>1, <1>2 DEF IsSeq

\* What Append does to a sequence.
LEMMA Appended ==
    ASSUME NEW s, NEW x, IsSeq(s)
    PROVE  /\ IsSeq(Append(s, x))
           /\ Len(s) \in Nat /\ DOMAIN s = 1 .. Len(s)
           /\ Len(Append(s, x)) = Len(s) + 1
           /\ DOMAIN Append(s, x) = 1 .. Len(s) + 1
           /\ \A i \in 1 .. Len(s) : Append(s, x)[i] = s[i]
           /\ Append(s, x)[Len(s) + 1] = x
           /\ Append(s, x) # <<>>
<1> DEFINE S == {s[i] : i \in DOMAIN s}
<1>1. s \in Seq(S)
  BY DEF IsSeq
<1>2. s \in Seq(S \cup {x}) /\ x \in S \cup {x}
  <2> HIDE DEF S
  <2>1. Len(s) \in Nat /\ s \in [1 .. Len(s) -> S]
    BY <1>1
  <2>2. s \in [1 .. Len(s) -> S \cup {x}]
    BY <2>1
  <2> QED BY <2>1, <2>2
<1> HIDE DEF S
<1>3. Append(s, x) \in Seq(S \cup {x})
  BY <1>2
<1>4. IsSeq(Append(s, x))
  BY <1>3, SeqIsSeq
<1> QED BY <1>2, <1>3, <1>4

-----------------------------------------------------------------------------
(* The field.                                                               *)

\* The least of some numbers.
LEMMA LeastOfNumbers ==
    ASSUME NEW S \in SUBSET Nat, S # {}
    PROVE  Min(S) \in S /\ \A m \in S : Min(S) =< m
<1> DEFINE less == OpToRel(<, Nat)
<1>1. IsWellFoundedOn(less, Nat)
  BY NatLessThanWellFounded
<1>2. \A i, j \in Nat : i < j => <<i, j>> \in less
  BY DEF OpToRel
<1> HIDE DEF less
<1>3. PICK n \in S : \A m \in S : <<m, n>> \notin less
  BY <1>1, WFMin
<1>4. ASSUME NEW m \in S PROVE n =< m
  <2>1. m \in Nat /\ n \in Nat
    BY <1>3
  <2>2. ~(m < n)
    BY <1>2, <1>3, <2>1
  <2> QED BY <2>1, <2>2
<1>5. PICK x : x = Min(S)
  OBVIOUS
<1>6. x \in S /\ \A m \in S : x =< m
  BY <1>4, <1>5 DEF Min
<1> QED BY <1>5, <1>6

\* The loop of mmr.go merges with peaks that are there.
LEMMA MergesBounded ==
    ASSUME NEW n, NEW len \in Nat
    PROVE  Merges(n, len, 1) \in 0 .. len
<1>1. Max({0, len - 1 + 1}) = len
  <2>1. \A x \in {0, len - 1 + 1} : (\A y \in {0, len - 1 + 1} : x >= y) <=> x = len
    OBVIOUS
  <2>2. len \in {0, len - 1 + 1}
    OBVIOUS
  <2> QED BY <2>1, <2>2 DEF Max
<1> DEFINE S == {len} \cup {h \in 0 .. len : Bit(n, h) = 1}
<1>2. S \in SUBSET (0 .. len) /\ S # {}
  OBVIOUS
<1>3. Merges(n, len, 1) = Min(S)
  BY <1>1 DEF Merges
<1> HIDE DEF S
<1>4. Min(S) \in S
  BY <1>2, LeastOfNumbers
<1> QED BY <1>2, <1>3, <1>4

\* A field as the daemon keeps it: peaks in a row, some as soon as there is a leaf.
FieldOK(m) == IsSeq(m.peaks) /\ m.count \in Nat

\* Whatever merges and is dropped, a field counts every leaf and is never left without peaks.
LEMMA FieldGrows ==
    ASSUME NEW m, NEW x, NEW w, FieldOK(m)
    PROVE  /\ FieldOK(AppendLeaf(m, x, w))
           /\ AppendLeaf(m, x, w).count = m.count + 1
           /\ AppendLeaf(m, x, w).peaks # <<>>
<1>1. IsSeq(m.peaks) /\ m.count \in Nat
  BY DEF FieldOK
<1>2. Len(m.peaks) \in Nat
  BY <1>1, Appended
<1> DEFINE kept == Len(m.peaks) - Merges(m.count + 1, Len(m.peaks), 1)
           left == SubSeq(m.peaks, 1, kept)
           carried == Carry(SubSeq(m.peaks, kept + 1, Len(m.peaks)), HashLeaf(x))
           pushed == Push(m, x, 1)
           grown == AppendLeaf(m, x, w)
<1>3. kept \in 0 .. Len(m.peaks)
  BY <1>2, MergesBounded
<1>4. pushed = [peaks |-> Append(left, carried), count |-> m.count + 1]
  BY DEF Push
<1>5. grown = IF w > 0 /\ pushed.count > w /\ Len(pushed.peaks) > 1
              THEN [pushed EXCEPT !.peaks = Tail(@)] ELSE pushed
  BY DEF AppendLeaf
<1> HIDE DEF kept, carried, grown
<1>11. IsSeq(left)
  <2> DEFINE T == {m.peaks[i] : i \in DOMAIN m.peaks}
  <2>1. m.peaks \in Seq(T)
    BY <1>1 DEF IsSeq
  <2> HIDE DEF T
  <2>2. left \in Seq(T)
    BY <2>1, <1>3
  <2> QED BY <2>2, SeqIsSeq
<1> HIDE DEF left, pushed
<1>6. PICK q : q = Append(left, carried)
  OBVIOUS
<1>7. IsSeq(q) /\ q # <<>>
  BY <1>11, <1>6, Appended
<1>8. pushed = [peaks |-> q, count |-> m.count + 1]
  BY <1>4, <1>6
<1>9. CASE grown = pushed
  BY <1>1, <1>7, <1>8, <1>9 DEF FieldOK, grown
<1>10. CASE Len(q) > 1 /\ grown = [pushed EXCEPT !.peaks = Tail(@)]
  <2>1. grown = [peaks |-> Tail(q), count |-> m.count + 1]
    BY <1>8, <1>10
  <2> DEFINE T == {q[i] : i \in DOMAIN q}
  <2>2. q \in Seq(T)
    BY <1>7 DEF IsSeq
  <2> HIDE DEF T
  <2>3. Tail(q) \in Seq(T) /\ Len(Tail(q)) = Len(q) - 1 /\ Len(q) \in Nat
    BY <2>2, <1>7
  <2>4. Tail(q) # <<>>
    <3>1. Len(q) > 1
      BY <1>10
    <3>2. Len(Tail(q)) > 0
      BY <2>3, <3>1
    <3>3. Len(<<>>) = 0
      OBVIOUS
    <3> QED BY <3>2, <3>3
  <2>5. IsSeq(Tail(q))
    BY <2>3, SeqIsSeq
  <2> QED BY <1>1, <2>1, <2>4, <2>5 DEF FieldOK, grown
<1> QED BY <1>5, <1>8, <1>9, <1>10

-----------------------------------------------------------------------------
(* The daemon.                                                              *)

ChainOK ==
    /\ IsSeq(blocks) /\ IsSeq(leaves) /\ FieldOK(field)
    /\ Len(blocks) >= 1
    /\ EpochIsHeight

\* Genesis alone is a chain, whatever the number of the life.
LEMMA GenesisIsChain ==
    ASSUME NEW n, NEW b, NEW l, NEW f,
           b = Genesis(n, f), l = <<ZeroTuple>>, f = GenesisField
    PROVE  /\ IsSeq(b) /\ IsSeq(l) /\ FieldOK(f) /\ f.count = 1 /\ f.peaks # <<>>
           /\ DOMAIN b = {1} /\ Len(b) = 1 /\ Len(l) = 1
           /\ b[1].epoch = 0 /\ b[1].tuple = ZeroTuple
<1>1. IsSeq(EmptyField.peaks)
  <2>1. EmptyField.peaks = <<>>
    BY DEF EmptyField
  <2>2. <<>> \in Seq({})
    OBVIOUS
  <2> QED BY <2>1, <2>2, SeqIsSeq
<1>2. FieldOK(EmptyField) /\ EmptyField.count = 0
  BY <1>1 DEF EmptyField, FieldOK
<1>3. FieldOK(f) /\ f.count = 1 /\ f.peaks # <<>>
  BY <1>2, FieldGrows DEF GenesisField
<1>4. PICK g : b = <<g>> /\ g.epoch = 0 /\ g.tuple = ZeroTuple
  BY DEF Genesis
<1>5. <<g>> \in Seq({g}) /\ <<ZeroTuple>> \in Seq({ZeroTuple})
  OBVIOUS
<1>6. IsSeq(b) /\ IsSeq(l)
  BY <1>4, <1>5, SeqIsSeq
<1> QED BY <1>3, <1>4, <1>6

LEMMA ChainStarts == MedullaInit => ChainOK
<1> SUFFICES ASSUME MedullaInit PROVE ChainOK
  OBVIOUS
<1>0. ZeroTuple \in Tuples
  BY MedullaAssumption
<1>1. field = GenesisField /\ leaves = <<ZeroTuple>> /\ blocks = Genesis(0, field) /\ epoch = 0 /\ life = 0
  BY DEF MedullaInit
<1>2. /\ IsSeq(blocks) /\ IsSeq(leaves) /\ FieldOK(field) /\ field.count = 1 /\ field.peaks # <<>>
      /\ DOMAIN blocks = {1} /\ Len(blocks) = 1 /\ Len(leaves) = 1
      /\ blocks[1].epoch = 0 /\ blocks[1].tuple = ZeroTuple
  BY ONLY <1>1, GenesisIsChain
<1>3. \A i \in DOMAIN blocks : blocks[i].tuple \in Tuples /\ blocks[i].epoch = i - 1
  BY <1>0, <1>1, <1>2
<1>4. MedullaTypeOK
  <2>1. epoch \in Nat /\ life \in Nat
    BY <1>1
  <2> QED BY <1>2, <1>3, <2>1 DEF MedullaTypeOK
<1>5. EpochIsHeight
  BY <1>0, <1>1, <1>2, <1>3, <1>4 DEF EpochIsHeight
<1> QED BY <1>0, <1>1, <1>2, <1>5 DEF ChainOK

LEMMA RestartKeepsChain ==
    ASSUME ChainOK, Restart
    PROVE  ChainOK' /\ life' = life + 1 /\ life' # 0
<1>0. ZeroTuple \in Tuples
  BY MedullaAssumption
<1>1. field' = GenesisField /\ leaves' = <<ZeroTuple>> /\ blocks' = Genesis(life + 1, field') /\ epoch' = 0
  BY DEF Restart
<1>2. life \in Nat /\ life' = life + 1
  BY DEF Restart, ChainOK, EpochIsHeight, MedullaTypeOK
<1>3. /\ IsSeq(blocks') /\ IsSeq(leaves') /\ FieldOK(field') /\ field'.count = 1 /\ field'.peaks # <<>>
      /\ DOMAIN blocks' = {1} /\ Len(blocks') = 1 /\ Len(leaves') = 1
      /\ blocks'[1].epoch = 0 /\ blocks'[1].tuple = ZeroTuple
  BY ONLY <1>1, GenesisIsChain
<1>4. \A i \in DOMAIN blocks' : blocks'[i].tuple \in Tuples /\ blocks'[i].epoch = i - 1
  BY <1>0, <1>1, <1>2, <1>3
<1>5. MedullaTypeOK'
  <2>1. epoch' \in Nat /\ life' \in Nat
    BY <1>1, <1>2
  <2> QED BY <1>3, <1>4, <2>1 DEF MedullaTypeOK
<1>6. EpochIsHeight'
  BY <1>0, <1>1, <1>2, <1>3, <1>4, <1>5 DEF EpochIsHeight
<1> QED BY <1>0, <1>1, <1>2, <1>3, <1>6 DEF ChainOK

LEMMA FieldKeepsUp ==
    ASSUME ChainOK, NEW t, AppendToField(t)
    PROVE  /\ IsSeq(leaves') /\ FieldOK(field')
           /\ field'.count = Len(leaves') /\ field'.peaks # <<>>
           /\ Len(leaves') = Len(leaves) + 1 /\ Len(leaves) \in Nat /\ Len(blocks) =< Len(leaves)
<1>1. IsSeq(leaves) /\ FieldOK(field) /\ field.count = Len(leaves) /\ Len(blocks) =< Len(leaves)
  BY DEF ChainOK, EpochIsHeight, MedullaTypeOK
<1>2. field' = AppendLeaf(field, t, MaxLeaves) /\ leaves' = Append(leaves, t)
  BY DEF AppendToField
<1>3. FieldOK(field') /\ field'.count = field.count + 1 /\ field'.peaks # <<>>
  BY <1>1, <1>2, FieldGrows
<1>4. IsSeq(leaves') /\ Len(leaves') = Len(leaves) + 1 /\ Len(leaves) \in Nat
  BY <1>1, <1>2, Appended
<1> QED BY <1>1, <1>3, <1>4

LEMMA FailureKeepsChain ==
    ASSUME ChainOK, NEW t, MiningFails(t)
    PROVE  ChainOK' /\ blocks' = blocks /\ life' = life
<1>1. AppendToField(t) /\ UNCHANGED <<blocks, epoch, life>>
  BY DEF MiningFails
<1>2. IsSeq(blocks) /\ Len(blocks) \in Nat
  BY Appended DEF ChainOK
<1> QED BY <1>1, <1>2, FieldKeepsUp DEF ChainOK, EpochIsHeight, MedullaTypeOK

\* A block is put on top of the others, under the number that is its height.
LEMMA BlockKeepsChain ==
    ASSUME ChainOK, NEW t \in Tuples, SubmitCoherenceRoot(t)
    PROVE  /\ ChainOK' /\ life' = life
           /\ Len(blocks) \in Nat \ {0} /\ Len(blocks) < MaxBlocks /\ Len(blocks') = Len(blocks) + 1
           /\ \A i \in 1 .. Len(blocks) : blocks'[i] = blocks[i]
           /\ blocks'[Len(blocks) + 1].tuple = t
           /\ Tip'.epoch = Len(blocks) /\ Tip'.tuple = t
<1>1. AppendToField(t) /\ Len(blocks) < MaxBlocks /\ epoch' = epoch + 1 /\ life' = life
  BY DEF SubmitCoherenceRoot
<1>2. PICK h : h = Header(t, field')
  OBVIOUS
<1>3. blocks' = Append(blocks, h)
  BY <1>2 DEF SubmitCoherenceRoot
<1>4. h.epoch = epoch + 1 /\ h.tuple = t
  BY <1>2 DEF Header
<1>5. /\ IsSeq(blocks') /\ Len(blocks) \in Nat
      /\ DOMAIN blocks = 1 .. Len(blocks)
      /\ Len(blocks') = Len(blocks) + 1
      /\ DOMAIN blocks' = 1 .. Len(blocks) + 1
      /\ \A i \in 1 .. Len(blocks) : blocks'[i] = blocks[i]
      /\ blocks'[Len(blocks) + 1] = h
  BY <1>3, Appended DEF ChainOK
<1>6. epoch = Len(blocks) - 1 /\ Len(blocks) >= 1 /\ life \in Nat
  BY DEF ChainOK, EpochIsHeight, MedullaTypeOK
<1>7. Tip' = h
  BY <1>5 DEF Tip
<1>8. \A i \in 1 .. Len(blocks) : blocks[i].tuple \in Tuples /\ blocks[i].epoch = i - 1
  BY <1>5 DEF ChainOK, EpochIsHeight, MedullaTypeOK
<1>9. \A i \in DOMAIN blocks' : blocks'[i].tuple \in Tuples /\ blocks'[i].epoch = i - 1
  <2> SUFFICES ASSUME NEW i \in DOMAIN blocks'
               PROVE  blocks'[i].tuple \in Tuples /\ blocks'[i].epoch = i - 1
    OBVIOUS
  <2>1. CASE i \in 1 .. Len(blocks)
    BY <1>5, <1>8, <2>1
  <2>2. CASE i = Len(blocks) + 1
    BY <1>4, <1>5, <1>6, <2>2
  <2> QED BY <1>5, <2>1, <2>2
<1>10. ChainOK'
  BY <1>1, <1>5, <1>6, <1>9, FieldKeepsUp DEF ChainOK, EpochIsHeight, MedullaTypeOK
<1> QED BY <1>1, <1>4, <1>5, <1>6, <1>7, <1>10

LEMMA ChainFrame == ChainOK /\ UNCHANGED medullaVars => ChainOK'
BY DEF ChainOK, EpochIsHeight, MedullaTypeOK, medullaVars, Tip

\* The epoch counter of chain.go, the epochs in the headers and the heights of the blocks
\* agree for ever, through failed mining and restarts of the daemon and for any window of
\* the field, and no header is over a field without peaks.
THEOREM EpochsAreHeights == MedullaSpec => []EpochIsHeight
<1>1. MedullaInit => ChainOK
  BY ChainStarts
<1>2. ChainOK /\ [MedullaNext]_medullaVars => ChainOK'
  BY RestartKeepsChain, FailureKeepsChain, BlockKeepsChain, ChainFrame DEF MedullaNext
<1>3. ChainOK => EpochIsHeight
  BY DEF ChainOK
<1> QED BY <1>1, <1>2, <1>3, PTL DEF MedullaSpec

-----------------------------------------------------------------------------
(* Induction.                                                               *)

\* Induction on the natural numbers, for a set that holds 0 and is closed under successors.
LEMMA InductiveSet ==
    ASSUME NEW A \in SUBSET Nat, 0 \in A, \A n \in A : n + 1 \in A
    PROVE  A = Nat
<1> DEFINE less == OpToRel(<, Nat)
           T == Nat \ A
<1>1. SUFFICES ASSUME T # {} PROVE FALSE
  OBVIOUS
<1>2. IsWellFoundedOn(less, Nat)
  BY NatLessThanWellFounded
<1>3. PICK n \in T : \A m \in T : <<m, n>> \notin less
  <2> HIDE DEF less
  <2> QED BY <1>1, <1>2, WFMin
<1>4. n # 0 /\ n - 1 \in Nat
  OBVIOUS
<1>5. <<n - 1, n>> \in less
  BY <1>4 DEF OpToRel
<1>6. n - 1 \in A
  BY <1>3, <1>4, <1>5
<1>7. n \in A
  <2>1. (n - 1) + 1 \in A
    BY <1>6
  <2>2. (n - 1) + 1 = n
    BY <1>4
  <2> QED BY <2>1, <2>2
<1> QED BY <1>7

-----------------------------------------------------------------------------
(* Opening the nodes of a row, again and again.                             *)

SidesOf(r, k, prev) == prev \o Sides(r[k])
OpeningSteps(f, r, n) ==
    f = [k \in 0 .. n |-> IF k = 0 THEN <<>> ELSE SidesOf(r, k, f[k - 1])]

\* A row of any length can be opened hash by hash, since each result follows from the one before.
LEMMA OpeningStepsExist ==
    ASSUME NEW r, NEW n \in Nat
    PROVE  \E f : OpeningSteps(f, r, n)
<1> DEFINE A == {m \in Nat : \E f : OpeningSteps(f, r, m)}
<1>1. A \in SUBSET Nat /\ \A m \in Nat : m \in A <=> \E f : OpeningSteps(f, r, m)
  OBVIOUS
<1> HIDE DEF A
<1>2. 0 \in A
  <2>1. OpeningSteps([k \in 0 .. 0 |-> <<>>], r, 0)
    BY DEF OpeningSteps
  <2> QED BY <1>1, <2>1
<1>3. ASSUME NEW m \in A PROVE m + 1 \in A
  <2>1. m \in Nat
    BY <1>1
  <2>2. PICK g : OpeningSteps(g, r, m)
    BY <1>1
  <2> DEFINE f == [k \in 0 .. m + 1 |-> IF k = 0 THEN <<>> ELSE SidesOf(r, k, g[k - 1])]
  <2>3. ASSUME NEW k \in 0 .. m PROVE f[k] = g[k]
    <3>1. k \in 0 .. m + 1
      BY <2>1
    <3>2. f[k] = IF k = 0 THEN <<>> ELSE SidesOf(r, k, g[k - 1])
      BY <3>1, Zenon
    <3>3. g[k] = IF k = 0 THEN <<>> ELSE SidesOf(r, k, g[k - 1])
      BY <2>2, Zenon DEF OpeningSteps
    <3> QED BY <3>2, <3>3, Zenon
  <2>4. \A k \in 0 .. m + 1 : k # 0 => f[k - 1] = g[k - 1]
    <3>1. \A k \in 0 .. m + 1 : k # 0 => k - 1 \in 0 .. m
      BY <2>1
    <3> HIDE DEF f
    <3> QED BY <2>3, <3>1
  <2>5. f = [k \in 0 .. m + 1 |-> IF k = 0 THEN <<>> ELSE SidesOf(r, k, f[k - 1])]
    BY <2>4
  <2>6. OpeningSteps(f, r, m + 1)
    <3> HIDE DEF f
    <3> QED BY <2>5, Zenon DEF OpeningSteps
  <2> QED BY <1>1, <2>1, <2>6
<1>4. A = Nat
  BY <1>1, <1>2, <1>3, InductiveSet
<1> QED BY <1>1, <1>4

\* f is the row r opened as far as n.
Opening(f, r, n) ==
    f[0] = <<>> /\ \A k \in 1 .. n : f[k] = SidesOf(r, k, f[k - 1])

\* Opened is computed by such steps.
LEMMA OpeningExists ==
    ASSUME NEW r, NEW n \in Nat, n = Len(r)
    PROVE  \E f : Opening(f, r, n) /\ Opened(r) = f[n]
<1> DEFINE f == CHOOSE g : g = [k \in 0 .. n |-> IF k = 0 THEN <<>> ELSE SidesOf(r, k, g[k - 1])]
<1>1. Opened(r) = f[n]
  BY Zenon DEF Opened, SidesOf
<1>2. OpeningSteps(f, r, n)
  <2>1. \E g : OpeningSteps(g, r, n)
    BY OpeningStepsExist
  <2>2. f = CHOOSE g : OpeningSteps(g, r, n)
    BY Zenon DEF OpeningSteps
  <2> HIDE DEF f
  <2> QED BY <2>1, <2>2, Zenon
<1> HIDE DEF f
<1>3. f[0] = <<>>
  <2>1. 0 \in 0 .. n
    OBVIOUS
  <2> QED BY <1>2, <2>1, Zenon DEF OpeningSteps
<1>4. ASSUME NEW k \in 1 .. n PROVE f[k] = SidesOf(r, k, f[k - 1])
  <2>1. k \in 0 .. n /\ k # 0
    OBVIOUS
  <2> QED BY <1>2, <2>1, Zenon DEF OpeningSteps
<1>5. Opening(f, r, n)
  BY <1>3, <1>4, Zenon DEF Opening
<1> QED BY <1>1, <1>5

LevelsSteps(f, r, n) ==
    f = [k \in 0 .. n |-> IF k = 0 THEN r ELSE Opened(f[k - 1])]

\* A row can be opened any number of times.
LEMMA LevelsStepsExist ==
    ASSUME NEW r, NEW n \in Nat
    PROVE  \E f : LevelsSteps(f, r, n)
<1> DEFINE A == {m \in Nat : \E f : LevelsSteps(f, r, m)}
<1>1. A \in SUBSET Nat /\ \A m \in Nat : m \in A <=> \E f : LevelsSteps(f, r, m)
  OBVIOUS
<1> HIDE DEF A
<1>2. 0 \in A
  <2>1. LevelsSteps([k \in 0 .. 0 |-> r], r, 0)
    BY DEF LevelsSteps
  <2> QED BY <1>1, <2>1
<1>3. ASSUME NEW m \in A PROVE m + 1 \in A
  <2>1. m \in Nat
    BY <1>1
  <2>2. PICK g : LevelsSteps(g, r, m)
    BY <1>1
  <2> DEFINE f == [k \in 0 .. m + 1 |-> IF k = 0 THEN r ELSE Opened(g[k - 1])]
  <2>3. ASSUME NEW k \in 0 .. m PROVE f[k] = g[k]
    <3>1. k \in 0 .. m + 1
      BY <2>1
    <3>2. f[k] = IF k = 0 THEN r ELSE Opened(g[k - 1])
      BY <3>1, Zenon
    <3>3. g[k] = IF k = 0 THEN r ELSE Opened(g[k - 1])
      BY <2>2, Zenon DEF LevelsSteps
    <3> QED BY <3>2, <3>3, Zenon
  <2>4. \A k \in 0 .. m + 1 : k # 0 => f[k - 1] = g[k - 1]
    <3>1. \A k \in 0 .. m + 1 : k # 0 => k - 1 \in 0 .. m
      BY <2>1
    <3> HIDE DEF f
    <3> QED BY <2>3, <3>1
  <2>5. f = [k \in 0 .. m + 1 |-> IF k = 0 THEN r ELSE Opened(f[k - 1])]
    BY <2>4
  <2>6. LevelsSteps(f, r, m + 1)
    <3> HIDE DEF f
    <3> QED BY <2>5, Zenon DEF LevelsSteps
  <2> QED BY <1>1, <2>1, <2>6
<1>4. A = Nat
  BY <1>1, <1>2, <1>3, InductiveSet
<1> QED BY <1>1, <1>4

\* f is the row r opened again and again.
Levels(f, r, n) ==
    f[0] = r /\ \A k \in 1 .. n : f[k] = Opened(f[k - 1])

\* So is Below.
LEMMA LevelsExists ==
    ASSUME NEW r, NEW n \in Nat
    PROVE  \E f : Levels(f, r, n) /\ Below(r, n) = f[n]
<1> DEFINE f == CHOOSE g : g = [k \in 0 .. n |-> IF k = 0 THEN r ELSE Opened(g[k - 1])]
<1>1. Below(r, n) = f[n]
  BY Zenon DEF Below
<1>2. LevelsSteps(f, r, n)
  <2>1. \E g : LevelsSteps(g, r, n)
    BY LevelsStepsExist
  <2>2. f = CHOOSE g : LevelsSteps(g, r, n)
    BY Zenon DEF LevelsSteps
  <2> HIDE DEF f
  <2> QED BY <2>1, <2>2, Zenon
<1> HIDE DEF f
<1>3. f[0] = r
  <2>1. 0 \in 0 .. n
    OBVIOUS
  <2> QED BY <1>2, <2>1, Zenon DEF LevelsSteps
<1>4. ASSUME NEW k \in 1 .. n PROVE f[k] = Opened(f[k - 1])
  <2>1. k \in 0 .. n /\ k # 0
    OBVIOUS
  <2> QED BY <1>2, <2>1, Zenon DEF LevelsSteps
<1>5. Levels(f, r, n)
  BY <1>3, <1>4, Zenon DEF Levels
<1> QED BY <1>1, <1>5

-----------------------------------------------------------------------------
(* Rows side by side.                                                       *)

\* c is a and then b.
Joins(c, a, b) ==
    /\ IsSeq(c) /\ Len(c) = Len(a) + Len(b)
    /\ \A i \in 1 .. Len(a) : c[i] = a[i]
    /\ \A i \in 1 .. Len(b) : c[Len(a) + i] = b[i]

\* Two rows side by side are a row.
LEMMA JoinedSeq ==
    ASSUME NEW a, NEW b, IsSeq(a), IsSeq(b)
    PROVE  Joins(a \o b, a, b)
<1> DEFINE S == {a[i] : i \in DOMAIN a} \cup {b[i] : i \in DOMAIN b}
<1>1. PICK A, B : A = {a[i] : i \in DOMAIN a} /\ B = {b[i] : i \in DOMAIN b}
  OBVIOUS
<1>2. a \in Seq(A) /\ b \in Seq(B)
  BY <1>1 DEF IsSeq
<1>3. PICK T : T = A \cup B
  OBVIOUS
<1>4. a \in Seq(T) /\ b \in Seq(T)
  <2>1. Len(a) \in Nat /\ a \in [1 .. Len(a) -> A] /\ Len(b) \in Nat /\ b \in [1 .. Len(b) -> B]
    BY <1>2
  <2>2. a \in [1 .. Len(a) -> T] /\ b \in [1 .. Len(b) -> T]
    BY <1>3, <2>1
  <2> QED BY <2>1, <2>2
<1>5. PICK c : c = a \o b
  OBVIOUS
<1>6. c \in Seq(T)
  BY <1>4, <1>5
<1>7. /\ Len(c) = Len(a) + Len(b)
      /\ \A i \in 1 .. Len(a) : c[i] = a[i]
      /\ \A i \in 1 .. Len(b) : c[Len(a) + i] = b[i]
  BY <1>4, <1>5
<1>8. IsSeq(c)
  BY <1>6, SeqIsSeq
<1> QED BY <1>5, <1>7, <1>8 DEF Joins

\* Rows of the same hashes are the same row.
LEMMA SameSeq ==
    ASSUME NEW a, NEW b, IsSeq(a), IsSeq(b), Len(a) = Len(b), \A i \in 1 .. Len(a) : a[i] = b[i]
    PROVE  a = b
<1>1. DOMAIN a = 1 .. Len(a) /\ DOMAIN b = 1 .. Len(b)
  BY Appended
<1>2. a = [i \in DOMAIN a |-> a[i]] /\ b = [i \in DOMAIN b |-> b[i]]
  <2>1. PICK A : a \in Seq(A)
    BY DEF IsSeq
  <2>2. PICK B : b \in Seq(B)
    BY DEF IsSeq
  <2> QED BY <2>1, <2>2
<1> QED BY <1>1, <1>2

\* A row of both is the one next to the other.
LEMMA JoinOf ==
    ASSUME NEW a, NEW b, NEW c, IsSeq(a), IsSeq(b), Joins(c, a, b)
    PROVE  c = a \o b
<1>1. PICK d : d = a \o b
  OBVIOUS
<1>2. Joins(d, a, b)
  BY <1>1, JoinedSeq
<1>3. Len(a) \in Nat /\ Len(b) \in Nat
  BY Appended
<1>4. ASSUME NEW i \in 1 .. Len(c) PROVE c[i] = d[i]
  <2>1. CASE i \in 1 .. Len(a)
    BY <1>2, <2>1 DEF Joins
  <2>2. CASE i \notin 1 .. Len(a)
    <3>1. Len(c) = Len(a) + Len(b)
      BY DEF Joins
    <3>2. i - Len(a) \in 1 .. Len(b) /\ Len(a) + (i - Len(a)) = i
      BY <1>3, <2>2, <3>1
    <3> QED BY <1>2, <3>2 DEF Joins
  <2> QED BY <2>1, <2>2
<1>5. IsSeq(c) /\ IsSeq(d) /\ Len(c) = Len(d)
  BY <1>2 DEF Joins
<1> QED BY <1>1, <1>4, <1>5, SameSeq

\* Rows side by side may be put together in any order.
LEMMA JoinsAssoc ==
    ASSUME NEW a, NEW b, NEW c, IsSeq(a), IsSeq(b), IsSeq(c),
           NEW ab, ab = a \o b, NEW bc, bc = b \o c
    PROVE  ab \o c = a \o bc
<1>1. ab = a \o b /\ bc = b \o c
  OBVIOUS
<1>2. Joins(ab, a, b) /\ Joins(bc, b, c)
  BY <1>1, JoinedSeq
<1>3. PICK l : l = ab \o c
  OBVIOUS
<1>4. Joins(l, ab, c)
  <2>1. IsSeq(ab)
    BY <1>2 DEF Joins
  <2> QED BY <1>3, <2>1, JoinedSeq
<1>5. Len(a) \in Nat /\ Len(b) \in Nat /\ Len(c) \in Nat
  BY Appended
<1>6. Len(ab) = Len(a) + Len(b) /\ Len(bc) = Len(b) + Len(c) /\ Len(l) = Len(ab) + Len(c)
  BY <1>2, <1>4 DEF Joins
<1>7. ASSUME NEW i \in 1 .. Len(a) PROVE l[i] = a[i]
  <2>1. i \in 1 .. Len(ab)
    BY <1>5, <1>6
  <2> QED BY <1>2, <1>4, <2>1 DEF Joins
<1>8. ASSUME NEW i \in 1 .. Len(bc) PROVE l[Len(a) + i] = bc[i]
  <2>1. CASE i \in 1 .. Len(b)
    <3>1. Len(a) + i \in 1 .. Len(ab)
      BY <1>5, <1>6, <2>1
    <3> QED BY <1>2, <1>4, <2>1, <3>1 DEF Joins
  <2>2. CASE i \notin 1 .. Len(b)
    <3>1. PICK j \in 1 .. Len(c) : i = Len(b) + j /\ Len(a) + i = Len(ab) + j
      <4>1. i - Len(b) \in 1 .. Len(c)
        BY <1>5, <1>6, <2>2
      <4>2. i = Len(b) + (i - Len(b)) /\ Len(a) + i = Len(ab) + (i - Len(b))
        BY <1>5, <1>6
      <4> QED BY <4>1, <4>2
    <3> QED BY <1>2, <1>4, <3>1 DEF Joins
  <2> QED BY <2>1, <2>2
<1>9. Joins(l, a, bc)
  <2>1. IsSeq(l) /\ Len(l) = Len(a) + Len(bc)
    <3>1. IsSeq(l)
      BY <1>4 DEF Joins
    <3> QED BY <1>5, <1>6, <3>1
  <2> QED BY <1>7, <1>8, <2>1 DEF Joins
<1>10. l = a \o bc
  <2>1. IsSeq(bc)
    BY <1>2 DEF Joins
  <2> QED BY <1>9, <2>1, JoinOf
<1> QED BY <1>1, <1>3, <1>10

\* Rows of none, one and two.
LEMMA NothingIsSeq ==
    ASSUME NEW e, e = <<>>
    PROVE  IsSeq(e) /\ Len(e) = 0
<1>1. e \in Seq({}) /\ Len(e) = 0
  OBVIOUS
<1> QED BY <1>1, SeqIsSeq

LEMMA OneSeq ==
    ASSUME NEW x
    PROVE  IsSeq(<<x>>) /\ Len(<<x>>) = 1 /\ <<x>>[1] = x
<1>1. <<x>> \in Seq({x}) /\ Len(<<x>>) = 1 /\ <<x>>[1] = x
  OBVIOUS
<1> QED BY <1>1, SeqIsSeq

LEMMA TwoSeq ==
    ASSUME NEW x, NEW y
    PROVE  IsSeq(<<x, y>>) /\ Len(<<x, y>>) = 2 /\ <<x, y>>[1] = x /\ <<x, y>>[2] = y
<1>1. <<x, y>> \in Seq({x, y}) /\ Len(<<x, y>>) = 2 /\ <<x, y>>[1] = x /\ <<x, y>>[2] = y
  OBVIOUS
<1> QED BY <1>1, SeqIsSeq

\* Nothing changes a row it is put next to.
LEMMA JoinEmpty ==
    ASSUME NEW a, IsSeq(a), NEW e, IsSeq(e), Len(e) = 0
    PROVE  a \o e = a /\ e \o a = a
<1>2. IsSeq(e) /\ Len(e) = 0
  OBVIOUS
<1>3. Len(a) \in Nat
  BY Appended
<1>4. Joins(a, a, e)
  <2>1. \A i \in 1 .. 0 : FALSE
    OBVIOUS
  <2> QED BY <1>2, <1>3, <2>1 DEF Joins
<1>5. Joins(a, e, a)
  <2>1. \A i \in 1 .. 0 : FALSE
    OBVIOUS
  <2>2. \A i \in 1 .. Len(a) : 0 + i = i
    OBVIOUS
  <2> QED BY <1>2, <1>3, <2>1, <2>2 DEF Joins
<1> QED BY <1>2, <1>4, <1>5, JoinOf

\* Two hashes are one next to the other.
LEMMA TwoJoined ==
    ASSUME NEW x, NEW y
    PROVE  <<x, y>> = <<x>> \o <<y>>
<1>1. PICK a, b, c : a = <<x>> /\ b = <<y>> /\ c = <<x, y>>
  OBVIOUS
<1>2. /\ IsSeq(a) /\ Len(a) = 1 /\ a[1] = x /\ IsSeq(b) /\ Len(b) = 1 /\ b[1] = y
      /\ IsSeq(c) /\ Len(c) = 2 /\ c[1] = x /\ c[2] = y
  BY <1>1, OneSeq, TwoSeq
<1>3. \A i \in 1 .. 1 : i = 1
  OBVIOUS
<1>4. Joins(c, a, b)
  BY <1>2, <1>3 DEF Joins
<1> QED BY <1>1, <1>2, <1>4, JoinOf

-----------------------------------------------------------------------------
(* Opened rows.                                                             *)

\* What a hash is opened to is a row.
LEMMA SidesAreSeq ==
    ASSUME NEW t
    PROVE  IsSeq(Sides(t))
BY OneSeq, TwoSeq DEF Sides

\* So is what the first hashes of a row are opened to.
LEMMA OpeningIsSeq ==
    ASSUME NEW f, NEW r, NEW n \in Nat, Opening(f, r, n)
    PROVE  \A k \in 0 .. n : IsSeq(f[k])
<1> DEFINE A == {k \in Nat : k <= n => IsSeq(f[k])}
<1>1. A \in SUBSET Nat /\ \A k \in Nat : k \in A <=> (k <= n => IsSeq(f[k]))
  OBVIOUS
<1> HIDE DEF A
<1>2. 0 \in A
  <2>1. f[0] = <<>>
    BY DEF Opening
  <2>2. IsSeq(f[0])
    BY <2>1, NothingIsSeq
  <2> QED BY <1>1, <2>2
<1>3. ASSUME NEW k \in A PROVE k + 1 \in A
  <2>1. k \in Nat
    BY <1>1
  <2>2. SUFFICES ASSUME k + 1 <= n PROVE IsSeq(f[k + 1])
    BY <1>1, <2>1
  <2>3. k + 1 \in 1 .. n /\ (k + 1) - 1 = k /\ k <= n
    BY <2>1, <2>2
  <2>4. IsSeq(f[k])
    BY <1>1, <2>3
  <2>5. f[k + 1] = f[k] \o Sides(r[k + 1])
    BY <2>3 DEF Opening, SidesOf
  <2>6. PICK s : s = Sides(r[k + 1])
    OBVIOUS
  <2>7. IsSeq(s)
    BY <2>6, SidesAreSeq
  <2>8. Joins(f[k] \o s, f[k], s)
    BY <2>4, <2>7, JoinedSeq
  <2> QED BY <2>5, <2>6, <2>8 DEF Joins
<1>4. A = Nat
  BY <1>1, <1>2, <1>3, InductiveSet
<1> QED BY <1>1, <1>4

\* And what all of them are.
LEMMA OpenedIsSeq ==
    ASSUME NEW r, IsSeq(r)
    PROVE  IsSeq(Opened(r))
<1>1. PICK n \in Nat : n = Len(r)
  BY Appended
<1>2. PICK f : Opening(f, r, n) /\ Opened(r) = f[n]
  BY <1>1, OpeningExists
<1>3. n \in 0 .. n
  OBVIOUS
<1> QED BY <1>2, <1>3, OpeningIsSeq

\* The sides of two rows side by side are the sides of the one and of the other.
LEMMA OpenedJoin ==
    ASSUME NEW a, NEW b, IsSeq(a), IsSeq(b)
    PROVE  Opened(a \o b) = Opened(a) \o Opened(b)
<1>1. PICK l \in Nat, m \in Nat : l = Len(a) /\ m = Len(b)
  BY Appended
<1>2. PICK c : c = a \o b
  OBVIOUS
<1>3. Joins(c, a, b)
  BY <1>2, JoinedSeq
<1>4. PICK n \in Nat : n = Len(c) /\ n = l + m
  BY <1>1, <1>3 DEF Joins
<1>5. PICK f : Opening(f, a, l) /\ Opened(a) = f[l]
  BY <1>1, OpeningExists
<1>6. PICK g : Opening(g, b, m) /\ Opened(b) = g[m]
  BY <1>1, OpeningExists
<1>7. PICK h : Opening(h, c, n) /\ Opened(c) = h[n]
  BY <1>4, OpeningExists
<1> DEFINE A == {k \in Nat : k <= l => h[k] = f[k]}
<1>8. A \in SUBSET Nat /\ \A k \in Nat : k \in A <=> (k <= l => h[k] = f[k])
  OBVIOUS
<1> HIDE DEF A
<1>9. 0 \in A
  BY <1>5, <1>7, <1>8 DEF Opening
<1>10. ASSUME NEW k \in A PROVE k + 1 \in A
  <2>1. k \in Nat
    BY <1>8
  <2>2. SUFFICES ASSUME k + 1 <= l PROVE h[k + 1] = f[k + 1]
    BY <1>8, <2>1
  <2>3. k + 1 \in 1 .. l /\ k + 1 \in 1 .. n /\ (k + 1) - 1 = k /\ k <= l
    BY <1>4, <2>1, <2>2
  <2>4. h[k] = f[k]
    BY <1>8, <2>3
  <2>5. c[k + 1] = a[k + 1]
    BY <1>1, <1>3, <2>3 DEF Joins
  <2>6. h[k + 1] = SidesOf(c, k + 1, h[k]) /\ f[k + 1] = SidesOf(a, k + 1, f[k])
    BY <1>5, <1>7, <2>3 DEF Opening
  <2> QED BY <2>4, <2>5, <2>6 DEF SidesOf
<1>11. A = Nat
  BY <1>8, <1>9, <1>10, InductiveSet
<1>12. h[l] = f[l]
  BY <1>8, <1>11
<1>13. PICK o : o = f[l]
  OBVIOUS
<1>14. IsSeq(o) /\ \A k \in 0 .. m : IsSeq(g[k])
  <2>1. l \in 0 .. l
    OBVIOUS
  <2> QED BY <1>5, <1>6, <1>13, <2>1, OpeningIsSeq
<1> DEFINE B == {k \in Nat : k <= m => h[l + k] = o \o g[k]}
<1>15. B \in SUBSET Nat /\ \A k \in Nat : k \in B <=> (k <= m => h[l + k] = o \o g[k])
  OBVIOUS
<1> HIDE DEF B
<1>16. 0 \in B
  <2>1. g[0] = <<>>
    BY <1>6 DEF Opening
  <2>2. IsSeq(g[0]) /\ Len(g[0]) = 0
    BY <2>1, NothingIsSeq
  <2>3. o \o g[0] = o
    BY <1>14, <2>2, JoinEmpty
  <2>4. l + 0 = l
    OBVIOUS
  <2> QED BY <1>12, <1>13, <1>15, <2>3, <2>4
<1>17. ASSUME NEW k \in B PROVE k + 1 \in B
  <2>1. k \in Nat
    BY <1>15
  <2>2. SUFFICES ASSUME k + 1 <= m PROVE h[l + (k + 1)] = o \o g[k + 1]
    BY <1>15, <2>1
  <2>3. k + 1 \in 1 .. m /\ l + (k + 1) \in 1 .. n /\ (k + 1) - 1 = k /\ k <= m
        /\ (l + (k + 1)) - 1 = l + k /\ k \in 0 .. m
    BY <1>4, <2>1, <2>2
  <2>4. h[l + k] = o \o g[k]
    BY <1>15, <2>1, <2>3
  <2>5. c[l + (k + 1)] = b[k + 1]
    BY <1>1, <1>3, <2>3 DEF Joins
  <2>6. h[l + (k + 1)] = SidesOf(c, l + (k + 1), h[l + k]) /\ g[k + 1] = SidesOf(b, k + 1, g[k])
    BY <1>6, <1>7, <2>3 DEF Opening
  <2>7. PICK s : s = Sides(b[k + 1])
    OBVIOUS
  <2>8. h[l + (k + 1)] = (o \o g[k]) \o s /\ g[k + 1] = g[k] \o s
    BY <2>4, <2>5, <2>6, <2>7 DEF SidesOf
  <2>9. IsSeq(s) /\ IsSeq(g[k])
    BY <1>14, <2>3, <2>7, SidesAreSeq
  <2>10. PICK q : q = g[k]
    OBVIOUS
  <2>11. IsSeq(o) /\ IsSeq(q) /\ IsSeq(s)
    BY <1>14, <2>9, <2>10
  <2>12. PICK oq, qs : oq = o \o q /\ qs = q \o s
    OBVIOUS
  <2>13. oq \o s = o \o qs
    BY <2>11, <2>12, JoinsAssoc
  <2>14. h[l + (k + 1)] = oq \o s /\ g[k + 1] = qs
    BY <2>8, <2>10, <2>12
  <2> QED BY <2>13, <2>14
<1>18. B = Nat
  BY <1>15, <1>16, <1>17, InductiveSet
<1>19. h[l + m] = o \o g[m]
  BY <1>15, <1>18
<1> QED BY <1>2, <1>4, <1>5, <1>6, <1>7, <1>13, <1>19

\* A row of leaves.
AllLeaves(r) == IsSeq(r) /\ \A i \in 1 .. Len(r) : \E x : r[i] = HashLeaf(x)

\* A leaf stays, a node is replaced by its sides.
LEMMA SidesOfHashes ==
    ASSUME NEW x, NEW a, NEW b
    PROVE  Sides(HashLeaf(x)) = <<HashLeaf(x)>> /\ Sides(HashNode(a, b)) = <<a, b>>
<1>1. PICK t, u : t = HashLeaf(x) /\ u = HashNode(a, b)
  OBVIOUS
<1>2. Len(t) = 1 /\ Len(u) = 2 /\ u[1] = a /\ u[2] = b
  BY <1>1 DEF HashLeaf, HashNode
<1> QED BY <1>1, <1>2 DEF Sides

\* There is nothing to open in a row of leaves.
LEMMA OpenedLeaves ==
    ASSUME NEW r, AllLeaves(r)
    PROVE  Opened(r) = r
<1>1. PICK n \in Nat : n = Len(r)
  BY Appended DEF AllLeaves
<1>2. PICK f : Opening(f, r, n) /\ Opened(r) = f[n]
  BY <1>1, OpeningExists
<1> DEFINE A == {k \in Nat : k <= n => Len(f[k]) = k /\ \A i \in 1 .. k : f[k][i] = r[i]}
<1>3. A \in SUBSET Nat
      /\ \A k \in Nat : k \in A <=> (k <= n => Len(f[k]) = k /\ \A i \in 1 .. k : f[k][i] = r[i])
  OBVIOUS
<1> HIDE DEF A
<1>4. 0 \in A
  <2>1. f[0] = <<>>
    BY <1>2 DEF Opening
  <2>2. Len(f[0]) = 0
    BY <2>1, NothingIsSeq
  <2>3. \A i \in 1 .. 0 : FALSE
    OBVIOUS
  <2> QED BY <1>3, <2>2, <2>3
<1>5. ASSUME NEW k \in A PROVE k + 1 \in A
  <2>1. k \in Nat
    BY <1>3
  <2>2. SUFFICES ASSUME k + 1 <= n
                 PROVE  Len(f[k + 1]) = k + 1 /\ \A i \in 1 .. k + 1 : f[k + 1][i] = r[i]
    BY <1>3, <2>1
  <2>3. k + 1 \in 1 .. n /\ (k + 1) - 1 = k /\ k <= n /\ k \in 0 .. n
    BY <2>1, <2>2
  <2>4. Len(f[k]) = k /\ \A i \in 1 .. k : f[k][i] = r[i]
    BY <1>3, <2>1, <2>3
  <2>5. f[k + 1] = f[k] \o Sides(r[k + 1])
    BY <1>2, <2>3 DEF Opening, SidesOf
  <2>6. PICK x : r[k + 1] = HashLeaf(x)
    BY <1>1, <2>3 DEF AllLeaves
  <2>7. PICK s : s = <<r[k + 1]>>
    OBVIOUS
  <2>8. f[k + 1] = f[k] \o s
    BY <2>5, <2>6, <2>7, SidesOfHashes
  <2>9. IsSeq(s) /\ Len(s) = 1 /\ s[1] = r[k + 1]
    BY <2>7, OneSeq
  <2>10. IsSeq(f[k])
    BY <1>2, <2>3, OpeningIsSeq
  <2>11. Joins(f[k + 1], f[k], s)
    BY <2>8, <2>9, <2>10, JoinedSeq
  <2>12. Len(f[k + 1]) = k + 1 /\ f[k + 1][k + 1] = r[k + 1]
         /\ \A i \in 1 .. k : f[k + 1][i] = f[k][i]
    <3>1. 1 \in 1 .. 1
      OBVIOUS
    <3> QED BY <2>4, <2>9, <2>11, <3>1 DEF Joins
  <2>13. \A i \in 1 .. k + 1 : i \in 1 .. k \/ i = k + 1
    BY <2>1
  <2> QED BY <2>4, <2>12, <2>13
<1>6. A = Nat
  BY <1>3, <1>4, <1>5, InductiveSet
<1>7. Len(f[n]) = n /\ \A i \in 1 .. n : f[n][i] = r[i]
  BY <1>3, <1>6
<1>8. IsSeq(f[n]) /\ IsSeq(r)
  <2>1. n \in 0 .. n
    OBVIOUS
  <2> QED BY <1>2, <2>1, OpeningIsSeq DEF AllLeaves
<1>9. f[n] = r
  BY <1>1, <1>7, <1>8, SameSeq
<1> QED BY <1>2, <1>9

\* A row with one node in it.
LEMMA OpenedNode ==
    ASSUME NEW a, NEW b, NEW r, r = <<HashNode(a, b)>>
    PROVE  Opened(r) = <<a, b>>
<1>1. Len(r) = 1 /\ r[1] = HashNode(a, b)
  OBVIOUS
<1>2. PICK n \in Nat : n = 1
  OBVIOUS
<1>3. PICK f : Opening(f, r, n) /\ Opened(r) = f[n]
  BY <1>1, <1>2, OpeningExists
<1>4. f[0] = <<>> /\ f[1] = f[0] \o Sides(r[1])
  <2>1. 1 \in 1 .. n /\ 1 - 1 = 0
    BY <1>2
  <2> QED BY <1>3, <2>1 DEF Opening, SidesOf
<1>5. PICK s : s = <<a, b>>
  OBVIOUS
<1>6. f[1] = f[0] \o s
  BY <1>1, <1>4, <1>5, SidesOfHashes
<1>7. IsSeq(f[0]) /\ Len(f[0]) = 0
  BY <1>4, NothingIsSeq
<1>8. IsSeq(s)
  BY <1>5, TwoSeq
<1>9. f[0] \o s = s
  BY <1>7, <1>8, JoinEmpty
<1> QED BY <1>2, <1>3, <1>5, <1>6, <1>9

\* The number of further steps does not matter.
LEMMA LevelsSame ==
    ASSUME NEW f, NEW g, NEW r, NEW n \in Nat, NEW m \in Nat, n <= m,
           Levels(f, r, n), Levels(g, r, m)
    PROVE  f[n] = g[n]
<1> DEFINE A == {k \in Nat : k <= n => f[k] = g[k]}
<1>1. A \in SUBSET Nat /\ \A k \in Nat : k \in A <=> (k <= n => f[k] = g[k])
  OBVIOUS
<1> HIDE DEF A
<1>2. 0 \in A
  BY <1>1 DEF Levels
<1>3. ASSUME NEW k \in A PROVE k + 1 \in A
  <2>1. k \in Nat
    BY <1>1
  <2>2. SUFFICES ASSUME k + 1 <= n PROVE f[k + 1] = g[k + 1]
    BY <1>1, <2>1
  <2>3. k + 1 \in 1 .. n /\ k + 1 \in 1 .. m /\ (k + 1) - 1 = k /\ k <= n
    BY <2>1, <2>2
  <2>4. f[k] = g[k]
    BY <1>1, <2>1, <2>3
  <2>5. f[k + 1] = Opened(f[k]) /\ g[k + 1] = Opened(g[k])
    BY <2>3 DEF Levels
  <2> QED BY <2>4, <2>5
<1>4. A = Nat
  BY <1>1, <1>2, <1>3, InductiveSet
<1> QED BY <1>1, <1>4

\* Below is opening again and again.
LEMMA BelowSteps ==
    ASSUME NEW r, NEW d \in Nat
    PROVE  Below(r, 0) = r /\ Below(r, d + 1) = Opened(Below(r, d))
<1>1. PICK f : Levels(f, r, 0) /\ Below(r, 0) = f[0]
  <2>1. 0 \in Nat
    OBVIOUS
  <2> QED BY <2>1, LevelsExists
<1>2. PICK g : Levels(g, r, d) /\ Below(r, d) = g[d]
  BY LevelsExists
<1>3. PICK e \in Nat : e = d + 1
  OBVIOUS
<1>4. PICK h : Levels(h, r, e) /\ Below(r, e) = h[e]
  BY LevelsExists
<1>5. g[d] = h[d]
  <2>1. d <= e
    BY <1>3
  <2> QED BY <1>2, <1>4, <2>1, LevelsSame
<1>6. h[e] = Opened(h[d])
  <2>1. e \in 1 .. e /\ e - 1 = d
    BY <1>3
  <2> QED BY <1>4, <2>1 DEF Levels
<1>7. f[0] = r
  BY <1>1 DEF Levels
<1> QED BY <1>1, <1>2, <1>3, <1>4, <1>5, <1>6, <1>7

\* However often it is opened, a row stays a row.
LEMMA BelowIsSeq ==
    ASSUME NEW r, IsSeq(r), NEW d \in Nat
    PROVE  IsSeq(Below(r, d))
<1> DEFINE A == {k \in Nat : IsSeq(Below(r, k))}
<1>1. A \in SUBSET Nat /\ \A k \in Nat : k \in A <=> IsSeq(Below(r, k))
  OBVIOUS
<1> HIDE DEF A
<1>2. 0 \in A
  <2>1. Below(r, 0) = r
    BY BelowSteps
  <2> QED BY <1>1, <2>1
<1>3. ASSUME NEW k \in A PROVE k + 1 \in A
  <2>1. k \in Nat /\ IsSeq(Below(r, k))
    BY <1>1
  <2>2. Below(r, k + 1) = Opened(Below(r, k))
    BY <2>1, BelowSteps
  <2>3. IsSeq(Opened(Below(r, k)))
    BY <2>1, OpenedIsSeq
  <2> QED BY <1>1, <2>1, <2>2, <2>3
<1>4. A = Nat
  BY <1>1, <1>2, <1>3, InductiveSet
<1> QED BY <1>1, <1>4

\* Rows side by side are opened each for itself.
LEMMA BelowJoin ==
    ASSUME NEW a, NEW b, IsSeq(a), IsSeq(b), NEW d \in Nat
    PROVE  Below(a \o b, d) = Below(a, d) \o Below(b, d)
<1>1. PICK c : c = a \o b
  OBVIOUS
<1> DEFINE A == {k \in Nat : Below(c, k) = Below(a, k) \o Below(b, k)}
<1>2. A \in SUBSET Nat /\ \A k \in Nat : k \in A <=> Below(c, k) = Below(a, k) \o Below(b, k)
  OBVIOUS
<1> HIDE DEF A
<1>3. 0 \in A
  <2>1. Below(a, 0) = a /\ Below(b, 0) = b /\ Below(c, 0) = c
    BY BelowSteps
  <2> QED BY <1>1, <1>2, <2>1
<1>4. ASSUME NEW k \in A PROVE k + 1 \in A
  <2>1. k \in Nat
    BY <1>2
  <2>2. PICK p, q : p = Below(a, k) /\ q = Below(b, k)
    OBVIOUS
  <2>3. IsSeq(p) /\ IsSeq(q)
    BY <2>1, <2>2, BelowIsSeq
  <2>4. Below(c, k) = p \o q
    BY <1>2, <2>1, <2>2
  <2>5. /\ Below(a, k + 1) = Opened(p) /\ Below(b, k + 1) = Opened(q)
        /\ Below(c, k + 1) = Opened(p \o q)
    <3>1. /\ Below(a, k + 1) = Opened(Below(a, k)) /\ Below(b, k + 1) = Opened(Below(b, k))
          /\ Below(c, k + 1) = Opened(Below(c, k))
      BY <2>1, BelowSteps
    <3> QED BY <2>2, <2>4, <3>1
  <2>6. Opened(p \o q) = Opened(p) \o Opened(q)
    BY <2>3, OpenedJoin
  <2>7. PICK n \in Nat : n = k + 1
    BY <2>1
  <2>8. Below(c, n) = Below(a, n) \o Below(b, n)
    BY <2>5, <2>6, <2>7
  <2>9. n \in A
    BY <1>2, <2>8, Zenon
  <2> QED BY <2>7, <2>9
<1>5. A = Nat
  BY <1>2, <1>3, <1>4, InductiveSet
<1> QED BY <1>1, <1>2, <1>5

\* An opened row is one step further.
LEMMA BelowOpened ==
    ASSUME NEW r, NEW d \in Nat
    PROVE  Below(Opened(r), d) = Below(r, d + 1)
<1>1. PICK o : o = Opened(r)
  OBVIOUS
<1> DEFINE A == {k \in Nat : Below(o, k) = Below(r, k + 1)}
<1>2. A \in SUBSET Nat /\ \A k \in Nat : k \in A <=> Below(o, k) = Below(r, k + 1)
  OBVIOUS
<1> HIDE DEF A
<1>3. 0 \in A
  <2>1. Below(o, 0) = o
    BY BelowSteps
  <2>2. Below(r, 0) = r /\ Below(r, 0 + 1) = Opened(Below(r, 0))
    <3>1. 0 \in Nat
      OBVIOUS
    <3> QED BY <3>1, BelowSteps
  <2> QED BY <1>1, <1>2, <2>1, <2>2
<1>4. ASSUME NEW k \in A PROVE k + 1 \in A
  <2>1. k \in Nat /\ k + 1 \in Nat
    BY <1>2
  <2>2. Below(o, k + 1) = Opened(Below(o, k))
    BY <2>1, BelowSteps
  <2>3. Below(r, (k + 1) + 1) = Opened(Below(r, k + 1))
    BY <2>1, BelowSteps
  <2>4. Below(o, k) = Below(r, k + 1)
    BY <1>2
  <2> QED BY <1>2, <2>1, <2>2, <2>3, <2>4
<1>5. A = Nat
  BY <1>2, <1>3, <1>4, InductiveSet
<1> QED BY <1>1, <1>2, <1>5

\* Leaves cannot be opened further.
LEMMA BelowLeaves ==
    ASSUME NEW r, AllLeaves(r), NEW d \in Nat
    PROVE  Below(r, d) = r
<1> DEFINE A == {k \in Nat : Below(r, k) = r}
<1>1. A \in SUBSET Nat /\ \A k \in Nat : k \in A <=> Below(r, k) = r
  OBVIOUS
<1> HIDE DEF A
<1>2. 0 \in A
  BY <1>1, BelowSteps
<1>3. ASSUME NEW k \in A PROVE k + 1 \in A
  <2>1. k \in Nat /\ Below(r, k) = r
    BY <1>1
  <2>2. Below(r, k + 1) = Opened(Below(r, k))
    BY <2>1, BelowSteps
  <2>3. Opened(r) = r
    BY OpenedLeaves
  <2> QED BY <1>1, <2>1, <2>2, <2>3
<1>4. A = Nat
  BY <1>1, <1>2, <1>3, InductiveSet
<1> QED BY <1>1, <1>4

-----------------------------------------------------------------------------
(* Hashes over the leaves of a row w.                                       *)

\* The leaves of w past the a-th, as far as the b-th.
LeafRow(w, a, b) == [i \in 1 .. b - a |-> HashLeaf(w[a + i])]

\* Opened d times or more, the hashes of r are those leaves.
Reads(r, w, a, b, d) == \A e \in Nat : e >= d => Below(r, e) = LeafRow(w, a, b)

\* Under t are the leaves of w past the a-th, as far as the b-th.
Fits(t, w, a, b) ==
    /\ a \in Nat /\ b \in Nat /\ a < b
    /\ Reads(<<t>>, w, a, b, b - a)

\* The leaves of a part of w.
LEMMA LeafRowIsSeq ==
    ASSUME NEW w, NEW a \in Nat, NEW b \in Nat, a <= b
    PROVE  /\ IsSeq(LeafRow(w, a, b)) /\ Len(LeafRow(w, a, b)) = b - a
           /\ \A i \in 1 .. b - a : LeafRow(w, a, b)[i] = HashLeaf(w[a + i])
<1>1. PICK n \in Nat : n = b - a
  OBVIOUS
<1>2. PICK r : r = LeafRow(w, a, b)
  OBVIOUS
<1>3. r = [i \in 1 .. n |-> HashLeaf(w[a + i])]
  BY <1>1, <1>2 DEF LeafRow
<1>4. PICK S : S = {HashLeaf(w[a + i]) : i \in 1 .. n}
  OBVIOUS
<1>5. r \in [1 .. n -> S]
  BY <1>3, <1>4
<1>6. r \in Seq(S) /\ Len(r) = n
  BY <1>5
<1>7. IsSeq(r)
  BY <1>6, SeqIsSeq
<1>8. \A i \in 1 .. n : r[i] = HashLeaf(w[a + i])
  BY <1>3
<1> QED BY <1>1, <1>2, <1>6, <1>7, <1>8

\* The leaves of two parts that meet.
LEMMA LeafRowJoin ==
    ASSUME NEW w, NEW a \in Nat, NEW b \in Nat, NEW c \in Nat, a <= b, b <= c
    PROVE  LeafRow(w, a, b) \o LeafRow(w, b, c) = LeafRow(w, a, c)
<1>1. PICK p, q, r : p = LeafRow(w, a, b) /\ q = LeafRow(w, b, c) /\ r = LeafRow(w, a, c)
  OBVIOUS
<1>2. a <= c
  OBVIOUS
<1>3. /\ IsSeq(p) /\ Len(p) = b - a /\ \A i \in 1 .. b - a : p[i] = HashLeaf(w[a + i])
      /\ IsSeq(q) /\ Len(q) = c - b /\ \A i \in 1 .. c - b : q[i] = HashLeaf(w[b + i])
      /\ IsSeq(r) /\ Len(r) = c - a /\ \A i \in 1 .. c - a : r[i] = HashLeaf(w[a + i])
  BY <1>1, <1>2, LeafRowIsSeq
<1>4. \A i \in 1 .. b - a : r[i] = p[i]
  <2>1. \A i \in 1 .. b - a : i \in 1 .. c - a
    OBVIOUS
  <2> QED BY <1>3, <2>1
<1>5. \A i \in 1 .. c - b : r[(b - a) + i] = q[i]
  <2>1. \A i \in 1 .. c - b : (b - a) + i \in 1 .. c - a /\ a + ((b - a) + i) = b + i
    OBVIOUS
  <2> QED BY <1>3, <2>1
<1>6. Joins(r, p, q)
  <2>1. (b - a) + (c - b) = c - a
    OBVIOUS
  <2> QED BY <1>3, <1>4, <1>5, <2>1 DEF Joins
<1> QED BY <1>1, <1>3, <1>6, JoinOf

\* Rows over parts that meet read as both.
LEMMA ReadsJoin ==
    ASSUME NEW r, NEW q, IsSeq(r), IsSeq(q), NEW w, NEW a \in Nat, NEW b \in Nat, NEW c \in Nat,
           a <= b, b <= c, NEW d \in Nat, Reads(r, w, a, b, d), Reads(q, w, b, c, d)
    PROVE  Reads(r \o q, w, a, c, d)
<1>1. PICK s : s = r \o q
  OBVIOUS
<1>2. ASSUME NEW e \in Nat, e >= d PROVE Below(s, e) = LeafRow(w, a, c)
  <2>1. Below(s, e) = Below(r, e) \o Below(q, e)
    BY <1>1, BelowJoin
  <2>2. Below(r, e) = LeafRow(w, a, b) /\ Below(q, e) = LeafRow(w, b, c)
    BY <1>2 DEF Reads
  <2>3. LeafRow(w, a, b) \o LeafRow(w, b, c) = LeafRow(w, a, c)
    BY LeafRowJoin
  <2> QED BY <2>1, <2>2, <2>3
<1> QED BY <1>1, <1>2 DEF Reads

\* A leaf covers itself.
LEMMA LeafFits ==
    ASSUME NEW w, NEW a \in Nat
    PROVE  Fits(HashLeaf(w[a + 1]), w, a, a + 1)
<1>1. PICK t : t = HashLeaf(w[a + 1])
  OBVIOUS
<1>2. PICK r : r = <<t>>
  OBVIOUS
<1>3. IsSeq(r) /\ Len(r) = 1 /\ r[1] = t
  BY <1>2, OneSeq
<1>4. AllLeaves(r)
  <2>1. \A i \in 1 .. 1 : i = 1
    OBVIOUS
  <2> QED BY <1>1, <1>3, <2>1 DEF AllLeaves
<1>5. r = LeafRow(w, a, a + 1)
  <2>0. PICK b \in Nat : b = a + 1 /\ a <= b /\ b - a = 1
    <3>1. a + 1 \in Nat /\ a <= a + 1 /\ (a + 1) - a = 1
      OBVIOUS
    <3> QED BY <3>1
  <2>1. PICK q : q = LeafRow(w, a, a + 1)
    OBVIOUS
  <2>2. IsSeq(LeafRow(w, a, b)) /\ Len(LeafRow(w, a, b)) = b - a
        /\ \A i \in 1 .. b - a : LeafRow(w, a, b)[i] = HashLeaf(w[a + i])
    BY <2>0, LeafRowIsSeq
  <2>3. IsSeq(q) /\ Len(q) = 1 /\ \A i \in 1 .. 1 : q[i] = HashLeaf(w[a + i])
    BY <2>0, <2>1, <2>2
  <2>4. \A i \in 1 .. 1 : i = 1
    OBVIOUS
  <2>5. \A i \in 1 .. 1 : r[i] = q[i]
    BY <1>1, <1>3, <2>3, <2>4
  <2> QED BY <1>3, <2>1, <2>3, <2>5, SameSeq
<1>6. \A e \in Nat : Below(r, e) = r
  BY <1>4, BelowLeaves
<1>7. Reads(r, w, a, a + 1, (a + 1) - a)
  BY <1>5, <1>6 DEF Reads
<1>8. a + 1 \in Nat /\ a < a + 1
  OBVIOUS
<1> QED BY <1>1, <1>2, <1>7, <1>8 DEF Fits

\* A node covers what its sides cover.
LEMMA NodeFits ==
    ASSUME NEW s, NEW t, NEW w, NEW a, NEW b, NEW c, Fits(s, w, a, b), Fits(t, w, b, c)
    PROVE  Fits(HashNode(s, t), w, a, c)
<1>1. a \in Nat /\ b \in Nat /\ c \in Nat /\ a < b /\ b < c
  BY DEF Fits
<1>2. PICK d \in Nat : d = (c - a) - 1
  BY <1>1
<1>3. PICK p, q, r, u : p = <<s>> /\ q = <<t>> /\ r = <<s, t>> /\ u = <<HashNode(s, t)>>
  OBVIOUS
<1>4. IsSeq(p) /\ IsSeq(q) /\ r = p \o q
  BY <1>3, OneSeq, TwoJoined
<1>5. Reads(p, w, a, b, d)
  <2>1. Reads(p, w, a, b, b - a)
    BY <1>3 DEF Fits
  <2>2. \A e \in Nat : e >= d => e >= b - a
    BY <1>1, <1>2
  <2> QED BY <2>1, <2>2 DEF Reads
<1>6. Reads(q, w, b, c, d)
  <2>1. Reads(q, w, b, c, c - b)
    BY <1>3 DEF Fits
  <2>2. \A e \in Nat : e >= d => e >= c - b
    BY <1>1, <1>2
  <2> QED BY <2>1, <2>2 DEF Reads
<1>7. Reads(r, w, a, c, d)
  <2>1. a <= b /\ b <= c
    BY <1>1
  <2>2. Reads(p \o q, w, a, c, d)
    BY <1>1, <1>4, <1>5, <1>6, <2>1, ReadsJoin
  <2> QED BY <1>4, <2>2
<1>8. Opened(u) = r
  BY <1>3, OpenedNode
<1>9. ASSUME NEW e \in Nat, e >= c - a PROVE Below(u, e) = LeafRow(w, a, c)
  <2>1. PICK k \in Nat : e = k + 1 /\ k >= d
    <3>1. e - 1 \in Nat /\ e = (e - 1) + 1 /\ e - 1 >= d
      BY <1>1, <1>2, <1>9
    <3> QED BY <3>1
  <2>2. Below(Opened(u), k) = Below(u, k + 1)
    BY BelowOpened
  <2>3. Below(r, k) = LeafRow(w, a, c)
    BY <1>7, <2>1 DEF Reads
  <2> QED BY <1>8, <2>1, <2>2, <2>3
<1>10. Reads(u, w, a, c, c - a)
  BY <1>9 DEF Reads
<1>11. a < c
  BY <1>1
<1> QED BY <1>1, <1>3, <1>10, <1>11 DEF Fits

\* A hash tells how many leaves are under it.
LEMMA FitsOnce ==
    ASSUME NEW t, NEW v, NEW w, NEW m, NEW n, Fits(t, v, 0, m), Fits(t, w, 0, n)
    PROVE  m = n
<1>1. m \in Nat /\ n \in Nat
  BY DEF Fits
<1>2. PICK e \in Nat : e >= m - 0 /\ e >= n - 0
  <2>1. m + n \in Nat /\ m + n >= m - 0 /\ m + n >= n - 0
    BY <1>1
  <2> QED BY <2>1
<1>3. PICK p, q : p = LeafRow(v, 0, m) /\ q = LeafRow(w, 0, n)
  OBVIOUS
<1>4. p = q
  <2>1. Below(<<t>>, e) = LeafRow(v, 0, m)
    BY <1>2 DEF Fits, Reads
  <2>2. Below(<<t>>, e) = LeafRow(w, 0, n)
    BY <1>2 DEF Fits, Reads
  <2> QED BY <1>3, <2>1, <2>2
<1>5. Len(p) = m - 0 /\ Len(q) = n - 0
  <2>1. 0 \in Nat /\ 0 <= m /\ 0 <= n
    BY <1>1
  <2> QED BY <1>1, <1>3, <2>1, LeafRowIsSeq
<1> QED BY <1>1, <1>4, <1>5

\* A leaf that is carried over the k last of p, merged[k] = the k-th of p from the right.
Carried(p, k, prev) == HashNode(p[Len(p) - k + 1], prev)

CarryingSteps(f, p, t, n) ==
    f = [k \in 0 .. n |-> IF k = 0 THEN t ELSE Carried(p, k, f[k - 1])]

\* A leaf can be carried over any number of peaks.
LEMMA CarryingStepsExist ==
    ASSUME NEW p, NEW t, NEW n \in Nat
    PROVE  \E f : CarryingSteps(f, p, t, n)
<1> DEFINE A == {m \in Nat : \E f : CarryingSteps(f, p, t, m)}
<1>1. A \in SUBSET Nat /\ \A m \in Nat : m \in A <=> \E f : CarryingSteps(f, p, t, m)
  OBVIOUS
<1> HIDE DEF A
<1>2. 0 \in A
  <2>1. CarryingSteps([k \in 0 .. 0 |-> t], p, t, 0)
    BY DEF CarryingSteps
  <2> QED BY <1>1, <2>1
<1>3. ASSUME NEW m \in A PROVE m + 1 \in A
  <2>1. m \in Nat
    BY <1>1
  <2>2. PICK g : CarryingSteps(g, p, t, m)
    BY <1>1
  <2> DEFINE f == [k \in 0 .. m + 1 |-> IF k = 0 THEN t ELSE Carried(p, k, g[k - 1])]
  <2>3. ASSUME NEW k \in 0 .. m PROVE f[k] = g[k]
    <3>1. k \in 0 .. m + 1
      BY <2>1
    <3>2. f[k] = IF k = 0 THEN t ELSE Carried(p, k, g[k - 1])
      BY <3>1, Zenon
    <3>3. g[k] = IF k = 0 THEN t ELSE Carried(p, k, g[k - 1])
      BY <2>2, Zenon DEF CarryingSteps
    <3> QED BY <3>2, <3>3, Zenon
  <2>4. \A k \in 0 .. m + 1 : k # 0 => f[k - 1] = g[k - 1]
    <3>1. \A k \in 0 .. m + 1 : k # 0 => k - 1 \in 0 .. m
      BY <2>1
    <3> HIDE DEF f
    <3> QED BY <2>3, <3>1
  <2>5. f = [k \in 0 .. m + 1 |-> IF k = 0 THEN t ELSE Carried(p, k, f[k - 1])]
    BY <2>4
  <2>6. CarryingSteps(f, p, t, m + 1)
    <3> HIDE DEF f
    <3> QED BY <2>5, Zenon DEF CarryingSteps
  <2> QED BY <1>1, <2>1, <2>6
<1>4. A = Nat
  BY <1>1, <1>2, <1>3, InductiveSet
<1> QED BY <1>1, <1>4

\* f[k] is t carried over the k last of the peaks p.
Carrying(f, p, t, n) ==
    f[0] = t /\ \A k \in 1 .. n : f[k] = Carried(p, k, f[k - 1])

\* Carry is computed by such steps.
LEMMA CarryingExists ==
    ASSUME NEW p, NEW t, NEW n \in Nat, n = Len(p)
    PROVE  \E f : Carrying(f, p, t, n) /\ Carry(p, t) = f[n]
<1> DEFINE f == CHOOSE g : g = [k \in 0 .. n |-> IF k = 0 THEN t ELSE Carried(p, k, g[k - 1])]
<1>1. Carry(p, t) = f[n]
  BY Zenon DEF Carry, Carried
<1>2. CarryingSteps(f, p, t, n)
  <2>1. \E g : CarryingSteps(g, p, t, n)
    BY CarryingStepsExist
  <2>2. f = CHOOSE g : CarryingSteps(g, p, t, n)
    BY Zenon DEF CarryingSteps
  <2> HIDE DEF f
  <2> QED BY <2>1, <2>2, Zenon
<1> HIDE DEF f
<1>3. f[0] = t
  <2>1. 0 \in 0 .. n
    OBVIOUS
  <2> QED BY <1>2, <2>1, Zenon DEF CarryingSteps
<1>4. ASSUME NEW k \in 1 .. n PROVE f[k] = Carried(p, k, f[k - 1])
  <2>1. k \in 0 .. n /\ k # 0
    OBVIOUS
  <2> QED BY <1>2, <2>1, Zenon DEF CarryingSteps
<1>5. Carrying(f, p, t, n)
  BY <1>3, <1>4, Zenon DEF Carrying
<1> QED BY <1>1, <1>5

\* What a hash covers depends on the leaves of its own part only.
LEMMA FitsFrame ==
    ASSUME NEW t, NEW w, NEW v, NEW a, NEW b, Fits(t, w, a, b), \A i \in 1 .. b : v[i] = w[i]
    PROVE  Fits(t, v, a, b)
<1>1. a \in Nat /\ b \in Nat /\ a < b
  BY DEF Fits
<1>2. \A i \in 1 .. b - a : a + i \in 1 .. b
  BY <1>1
<1>3. LeafRow(v, a, b) = LeafRow(w, a, b)
  BY <1>2 DEF LeafRow
<1> QED BY <1>3 DEF Fits, Reads

\* The n peaks of p lie side by side: under the i-th are the leaves of w from s[i - 1] to s[i].
Spans(p, n, w, s) ==
    /\ \A i \in 0 .. n : s[i] \in Nat
    /\ \A i \in 1 .. n : Fits(p[i], w, s[i - 1], s[i])

\* By induction on the peaks merged with: under a carry are their leaves and its own.
LEMMA CarryFits ==
    ASSUME NEW p, NEW n \in Nat, Len(p) = n, NEW w, NEW s, Spans(p, n, w, s),
           NEW t, NEW b, Fits(t, w, s[n], b)
    PROVE  Fits(Carry(p, t), w, s[0], b)
<1>1. PICK f : Carrying(f, p, t, n) /\ Carry(p, t) = f[n]
  BY CarryingExists
<1> DEFINE A == {k \in Nat : k <= n => Fits(f[k], w, s[n - k], b)}
<1>2. A \in SUBSET Nat /\ \A k \in Nat : k \in A <=> (k <= n => Fits(f[k], w, s[n - k], b))
  OBVIOUS
<1> HIDE DEF A
<1>3. 0 \in A
  <2>1. n - 0 = n /\ f[0] = t
    BY <1>1 DEF Carrying
  <2> QED BY <1>2, <2>1
<1>4. ASSUME NEW k \in A PROVE k + 1 \in A
  <2>1. k \in Nat
    BY <1>2
  <2>2. SUFFICES ASSUME k + 1 <= n PROVE Fits(f[k + 1], w, s[n - (k + 1)], b)
    BY <1>2, <2>1
  <2>3. k + 1 \in 1 .. n /\ (k + 1) - 1 = k /\ n - k \in 1 .. n /\ k <= n
        /\ n - (k + 1) = (n - k) - 1 /\ (n - (k + 1)) + 1 = n - k
    BY <2>1, <2>2
  <2>4. Fits(f[k], w, s[n - k], b)
    BY <1>2, <2>1, <2>3
  <2>5. f[k + 1] = HashNode(p[n - k], f[k])
    <3>1. f[k + 1] = Carried(p, k + 1, f[k])
      BY <1>1, <2>3 DEF Carrying
    <3> QED BY <2>3, <3>1 DEF Carried
  <2>6. Fits(p[n - k], w, s[(n - k) - 1], s[n - k])
    BY <2>3 DEF Spans
  <2>7. Fits(HashNode(p[n - k], f[k]), w, s[(n - k) - 1], b)
    BY <2>4, <2>6, NodeFits
  <2> QED BY <2>3, <2>5, <2>7
<1>5. A = Nat
  BY <1>2, <1>3, <1>4, InductiveSet
<1>6. Fits(f[n], w, s[n - n], b)
  BY <1>2, <1>5
<1>7. n - n = 0
  OBVIOUS
<1> QED BY <1>1, <1>6, <1>7

\* The peaks go on and on over the leaves.
LEMMA SpansRise ==
    ASSUME NEW p, NEW n \in Nat, NEW w, NEW s, Spans(p, n, w, s)
    PROVE  \A i \in 0 .. n : s[0] <= s[i] /\ s[i] <= s[n]
<1>1. \A i \in 1 .. n : s[i - 1] < s[i]
  BY DEF Spans, Fits
<1>2. \A i \in 0 .. n : s[i] \in Nat
  BY DEF Spans
<1> DEFINE A == {k \in Nat : k <= n => \A i \in 0 .. k : s[0] <= s[i] /\ s[i] <= s[k]}
<1>3. A \in SUBSET Nat
      /\ \A k \in Nat : k \in A <=> (k <= n => \A i \in 0 .. k : s[0] <= s[i] /\ s[i] <= s[k])
  OBVIOUS
<1> HIDE DEF A
<1>4. 0 \in A
  <2>1. \A i \in 0 .. 0 : i = 0
    OBVIOUS
  <2>2. s[0] \in Nat
    BY <1>2
  <2> QED BY <1>3, <2>1, <2>2
<1>5. ASSUME NEW k \in A PROVE k + 1 \in A
  <2>1. k \in Nat
    BY <1>3
  <2>2. SUFFICES ASSUME k + 1 <= n, NEW i \in 0 .. k + 1 PROVE s[0] <= s[i] /\ s[i] <= s[k + 1]
    BY <1>3, <2>1
  <2>3. k + 1 \in 1 .. n /\ (k + 1) - 1 = k /\ k <= n /\ k \in 0 .. n /\ k + 1 \in 0 .. n
        /\ k \in 0 .. k /\ 0 \in 0 .. n
    BY <2>1, <2>2
  <2>4. s[k] < s[k + 1] /\ s[k] \in Nat /\ s[k + 1] \in Nat /\ s[0] \in Nat
    BY <1>1, <1>2, <2>3
  <2>5. \A j \in 0 .. k : s[0] <= s[j] /\ s[j] <= s[k]
    BY <1>3, <2>1, <2>3
  <2>6. CASE i = k + 1
    BY <2>3, <2>4, <2>5, <2>6
  <2>7. CASE i \in 0 .. k
    <3>1. s[0] <= s[i] /\ s[i] <= s[k] /\ s[i] \in Nat
      <4>1. i \in 0 .. n
        BY <2>3, <2>7
      <4> QED BY <1>2, <2>5, <2>7, <4>1
    <3> QED BY <2>4, <3>1
  <2>8. i = k + 1 \/ i \in 0 .. k
    BY <2>1
  <2> QED BY <2>6, <2>7, <2>8
<1>6. A = Nat
  BY <1>3, <1>4, <1>5, InductiveSet
<1> QED BY <1>3, <1>6

-----------------------------------------------------------------------------
(* The field.                                                               *)

\* The peaks of m cover the leaves of w past the a-th, as far as they were counted.
CoversFrom(m, w, a) ==
    \E s : Spans(m.peaks, Len(m.peaks), w, s) /\ s[0] = a /\ s[Len(m.peaks)] = m.count

\* The most merges that leave minPeaks peaks.
LEMMA MaxMerges ==
    ASSUME NEW len \in Nat, NEW k \in {1, 2}
    PROVE  Max({0, len - k + 1}) \in 0 .. len
<1> DEFINE S == {0, len - k + 1}
<1>1. CASE len - k + 1 >= 0
  <2>1. \A x \in S : (\A y \in S : x >= y) <=> x = len - k + 1
    BY <1>1
  <2>2. Max(S) = len - k + 1
    BY <2>1 DEF Max
  <2> QED BY <1>1, <2>2
<1>2. CASE ~(len - k + 1 >= 0)
  <2>1. \A x \in S : (\A y \in S : x >= y) <=> x = 0
    BY <1>2
  <2>2. Max(S) = 0
    BY <2>1 DEF Max
  <2> QED BY <2>2
<1> QED BY <1>1, <1>2

\* No merge takes a peak that is not there.
LEMMA MergesWithin ==
    ASSUME NEW n, NEW len \in Nat, NEW k \in {1, 2}
    PROVE  Merges(n, len, k) \in 0 .. len
<1>1. PICK x : x = Max({0, len - k + 1})
  OBVIOUS
<1>2. x \in 0 .. len
  BY <1>1, MaxMerges
<1>3. PICK S : S = {x} \cup {h \in 0 .. len : Bit(n, h) = 1}
  OBVIOUS
<1>4. S \in SUBSET (0 .. len) /\ S # {} /\ S \in SUBSET Nat
  BY <1>2, <1>3
<1>5. Merges(n, len, k) = Min(S)
  BY <1>1, <1>3 DEF Merges
<1>6. Min(S) \in S
  BY <1>4, LeastOfNumbers
<1> QED BY <1>4, <1>5, <1>6

\* The first k of a row, and the others.
Divided(p, n, k, a, b) ==
    /\ IsSeq(a) /\ Len(a) = k /\ \A i \in 1 .. k : a[i] = p[i]
    /\ IsSeq(b) /\ Len(b) = n - k /\ \A i \in 1 .. n - k : b[i] = p[k + i]

\* Both parts of a row that is divided.
LEMMA Parts ==
    ASSUME NEW p, IsSeq(p), NEW n, n = Len(p), NEW k \in 0 .. n,
           NEW a, a = SubSeq(p, 1, k), NEW b, b = SubSeq(p, k + 1, n)
    PROVE  Divided(p, n, k, a, b)
<1> DEFINE S == {p[i] : i \in DOMAIN p}
<1>1. p \in Seq(S)
  BY DEF IsSeq
<1> HIDE DEF S
<1>2. n \in Nat /\ k \in Nat /\ k <= n
  BY <1>1
<1>3. a \in Seq(S) /\ Len(a) = k /\ \A i \in 1 .. k : a[i] = p[i]
  BY <1>1, <1>2
<1>4. b \in Seq(S) /\ Len(b) = n - k /\ \A i \in 1 .. n - k : b[i] = p[k + i]
  BY <1>1, <1>2
<1>5. IsSeq(a) /\ IsSeq(b)
  BY <1>3, <1>4, SeqIsSeq
<1> QED BY <1>3, <1>4, <1>5 DEF Divided

\* The n first leaves of v are those of w.
Agree(v, w, n) == \A i \in 1 .. n : v[i] = w[i]

\* Whatever a leaf merges with, the peaks cover what they covered and the leaf.
LEMMA PushCovers ==
    ASSUME NEW m, NEW w, NEW v, FieldOK(m), NEW a, CoversFrom(m, w, a), NEW min \in {1, 2},
           Agree(v, w, m.count)
    PROVE  /\ CoversFrom(Push(m, v[m.count + 1], min), v, a)
           /\ FieldOK(Push(m, v[m.count + 1], min))
           /\ Push(m, v[m.count + 1], min).count = m.count + 1
<1>1. PICK p : p = m.peaks
  OBVIOUS
<1>2. PICK n \in Nat : n = Len(p)
  BY <1>1, Appended DEF FieldOK
<1>3. PICK c \in Nat : c = m.count
  BY DEF FieldOK
<1>4. PICK k \in 0 .. n : k = n - Merges(c + 1, n, min)
  BY MergesWithin
<1>5. PICK left, rest : left = SubSeq(p, 1, k) /\ rest = SubSeq(p, k + 1, n)
  OBVIOUS
<1>6. PICK x : x = v[c + 1]
  OBVIOUS
<1>7. PICK carried : carried = Carry(rest, HashLeaf(x))
  OBVIOUS
<1>8. PICK q : q = Append(left, carried)
  OBVIOUS
<1>9. Push(m, x, min) = [peaks |-> q, count |-> c + 1]
  BY <1>1, <1>2, <1>3, <1>4, <1>5, <1>7, <1>8 DEF Push
<1>10. PICK s : Spans(p, n, w, s) /\ s[0] = a /\ s[n] = c
  BY <1>1, <1>2, <1>3 DEF CoversFrom
<1>11. \A i \in 0 .. n : s[i] \in Nat /\ s[i] <= c
  BY <1>10, SpansRise DEF Spans
<1>12. \A i \in 1 .. n : Fits(p[i], v, s[i - 1], s[i])
  <2> SUFFICES ASSUME NEW i \in 1 .. n PROVE Fits(p[i], v, s[i - 1], s[i])
    OBVIOUS
  <2>1. Fits(p[i], w, s[i - 1], s[i])
    BY <1>10 DEF Spans
  <2>2. s[i] \in Nat /\ s[i] <= c
    <3>1. i \in 0 .. n
      OBVIOUS
    <3> QED BY <1>11, <3>1
  <2>3. \A j \in 1 .. s[i] : v[j] = w[j]
    <3>1. \A j \in 1 .. s[i] : j \in 1 .. c
      BY <2>2
    <3> QED BY <1>3, <3>1 DEF Agree
  <2> QED BY <2>1, <2>3, FitsFrame
<1>13. k \in Nat /\ k <= n /\ n - k \in Nat
  OBVIOUS
<1>14. /\ IsSeq(left) /\ Len(left) = k /\ \A i \in 1 .. k : left[i] = p[i]
       /\ Len(rest) = n - k /\ \A i \in 1 .. n - k : rest[i] = p[k + i]
  <2>1. IsSeq(p)
    BY <1>1 DEF FieldOK
  <2>2. k \in 0 .. n
    OBVIOUS
  <2>3. Divided(p, n, k, left, rest)
    BY <1>2, <1>5, <2>1, <2>2, Parts, Zenon
  <2> QED BY <2>3 DEF Divided
<1>15. Fits(carried, v, s[k], c + 1)
  <2>1. PICK u : u = [i \in 0 .. n - k |-> s[k + i]]
    OBVIOUS
  <2>2. \A i \in 0 .. n - k : u[i] = s[k + i] /\ k + i \in 0 .. n
    BY <1>13, <2>1
  <2>3. ASSUME NEW i \in 1 .. n - k PROVE Fits(rest[i], v, u[i - 1], u[i])
    <3>1. i \in 0 .. n - k /\ i - 1 \in 0 .. n - k /\ k + i \in 1 .. n
          /\ k + (i - 1) = (k + i) - 1
      BY <1>13
    <3>2. Fits(p[k + i], v, s[(k + i) - 1], s[k + i])
      BY <1>12, <3>1
    <3> QED BY <1>14, <2>2, <3>1, <3>2
  <2>4. \A i \in 0 .. n - k : u[i] \in Nat
    BY <1>11, <2>2
  <2>5. PICK l \in Nat : l = n - k
    BY <1>13
  <2>6. Spans(rest, l, v, u) /\ Len(rest) = l
    BY <1>14, <2>3, <2>4, <2>5 DEF Spans
  <2>7. u[l] = c /\ u[0] = s[k]
    <3>1. l \in 0 .. n - k /\ 0 \in 0 .. n - k /\ k + l = n /\ k + 0 = k
      BY <1>13, <2>5
    <3> QED BY <1>10, <2>2, <3>1
  <2>8. Fits(HashLeaf(x), v, u[l], c + 1)
    BY <1>6, <2>7, LeafFits
  <2>9. Fits(carried, v, u[0], c + 1)
    BY <1>7, <2>6, <2>8, CarryFits
  <2> QED BY <2>7, <2>9
<1>16. /\ IsSeq(q) /\ Len(q) = k + 1 /\ \A i \in 1 .. k : q[i] = left[i]
       /\ q[k + 1] = carried
  BY <1>8, <1>14, Appended
<1>17. PICK z : z = [i \in 0 .. k + 1 |-> IF i = k + 1 THEN c + 1 ELSE s[i]]
  OBVIOUS
<1>18. z[k + 1] = c + 1 /\ \A i \in 0 .. k : z[i] = s[i]
  BY <1>13, <1>17
<1>19. ASSUME NEW i \in 0 .. k + 1 PROVE z[i] \in Nat
  <2>1. i \in 0 .. k \/ i = k + 1
    BY <1>13
  <2>2. \A j \in 0 .. k : j \in 0 .. n
    BY <1>13
  <2> QED BY <1>11, <1>18, <2>1, <2>2
<1>20. ASSUME NEW i \in 1 .. k + 1 PROVE Fits(q[i], v, z[i - 1], z[i])
  <2>1. CASE i \in 1 .. k
    <3>1. i \in 0 .. k /\ i - 1 \in 0 .. k /\ i \in 1 .. n
      BY <1>13, <2>1
    <3> QED BY <1>12, <1>14, <1>16, <1>18, <2>1, <3>1
  <2>2. CASE i = k + 1
    <3>1. i - 1 = k /\ k \in 0 .. k
      BY <1>13, <2>2
    <3> QED BY <1>15, <1>16, <1>18, <2>2, <3>1
  <2>3. i \in 1 .. k \/ i = k + 1
    BY <1>13
  <2> QED BY <2>1, <2>2, <2>3
<1>21. Spans(q, k + 1, v, z)
  BY <1>19, <1>20 DEF Spans
<1>22. z[0] = a
  BY <1>10, <1>13, <1>18
<1>23. PICK r : r = [peaks |-> q, count |-> c + 1]
  OBVIOUS
<1>24. r.peaks = q /\ r.count = c + 1
  BY <1>23
<1>25. CoversFrom(r, v, a) /\ FieldOK(r)
  BY <1>16, <1>18, <1>21, <1>22, <1>24 DEF CoversFrom, FieldOK
<1> QED BY <1>3, <1>6, <1>9, <1>23, <1>24, <1>25

\* Under the root are the leaves that the field covers.
LEMMA RootFits ==
    ASSUME NEW m, FieldOK(m), m.peaks # <<>>, NEW w, NEW a, CoversFrom(m, w, a)
    PROVE  Fits(Root(m), w, a, m.count)
<1>1. PICK p : p = m.peaks
  OBVIOUS
<1>2. PICK n \in Nat : n = Len(p)
  BY <1>1, Appended DEF FieldOK
<1>3. PICK s : Spans(p, n, w, s) /\ s[0] = a /\ s[n] = m.count
  BY <1>1, <1>2 DEF CoversFrom
<1>4. n # 0
  <2> DEFINE S == {p[i] : i \in DOMAIN p}
  <2>1. p \in Seq(S) /\ p # <<>>
    BY <1>1 DEF FieldOK, IsSeq
  <2> HIDE DEF S
  <2> QED BY <1>2, <2>1
<1>5. PICK k \in 0 .. n : k = n - 1
  BY <1>4
<1>6. PICK front : front = SubSeq(p, 1, k)
  OBVIOUS
<1>7. Root(m) = Carry(front, p[n])
  BY <1>1, <1>2, <1>5, <1>6 DEF Root, Front, Last
<1>8. Len(front) = k /\ \A i \in 1 .. k : front[i] = p[i]
  <2>1. IsSeq(p) /\ k \in 0 .. n
    BY <1>1 DEF FieldOK
  <2>2. PICK rest : rest = SubSeq(p, k + 1, n)
    OBVIOUS
  <2>3. Divided(p, n, k, front, rest)
    BY <1>2, <1>6, <2>1, <2>2, Parts, Zenon
  <2> QED BY <2>3 DEF Divided
<1>9. k \in Nat /\ k <= n
  OBVIOUS
<1>10. Spans(front, k, w, s)
  <2>1. \A i \in 0 .. k : i \in 0 .. n
    BY <1>9
  <2>2. \A i \in 1 .. k : i \in 1 .. n
    BY <1>9
  <2> QED BY <1>3, <1>8, <2>1, <2>2 DEF Spans
<1>11. Fits(p[n], w, s[k], s[n])
  <2>1. n \in 1 .. n /\ n - 1 = k
    BY <1>4, <1>5
  <2> QED BY <1>3, <2>1 DEF Spans
<1>12. Fits(Carry(front, p[n]), w, s[0], s[n])
  BY <1>8, <1>9, <1>10, <1>11, CarryFits
<1> QED BY <1>3, <1>7, <1>12

-----------------------------------------------------------------------------
(* The TypeScript field.                                                    *)

MirroredOnce(w, k, prev) == AppendLeafTs(prev, w[k])

MirroringSteps(f, w, n) ==
    f = [k \in 0 .. n |-> IF k = 0 THEN EmptyField ELSE MirroredOnce(w, k, f[k - 1])]

\* The mirror can be given any number of leaves.
LEMMA MirroringStepsExist ==
    ASSUME NEW w, NEW n \in Nat
    PROVE  \E f : MirroringSteps(f, w, n)
<1> DEFINE A == {m \in Nat : \E f : MirroringSteps(f, w, m)}
<1>1. A \in SUBSET Nat /\ \A m \in Nat : m \in A <=> \E f : MirroringSteps(f, w, m)
  OBVIOUS
<1> HIDE DEF A
<1>2. 0 \in A
  <2>1. MirroringSteps([k \in 0 .. 0 |-> EmptyField], w, 0)
    BY DEF MirroringSteps
  <2> QED BY <1>1, <2>1
<1>3. ASSUME NEW m \in A PROVE m + 1 \in A
  <2>1. m \in Nat
    BY <1>1
  <2>2. PICK g : MirroringSteps(g, w, m)
    BY <1>1
  <2> DEFINE f == [k \in 0 .. m + 1 |-> IF k = 0 THEN EmptyField ELSE MirroredOnce(w, k, g[k - 1])]
  <2>3. ASSUME NEW k \in 0 .. m PROVE f[k] = g[k]
    <3>1. k \in 0 .. m + 1
      BY <2>1
    <3>2. f[k] = IF k = 0 THEN EmptyField ELSE MirroredOnce(w, k, g[k - 1])
      BY <3>1, Zenon
    <3>3. g[k] = IF k = 0 THEN EmptyField ELSE MirroredOnce(w, k, g[k - 1])
      BY <2>2, Zenon DEF MirroringSteps
    <3> QED BY <3>2, <3>3, Zenon
  <2>4. \A k \in 0 .. m + 1 : k # 0 => f[k - 1] = g[k - 1]
    <3>1. \A k \in 0 .. m + 1 : k # 0 => k - 1 \in 0 .. m
      BY <2>1
    <3> HIDE DEF f
    <3> QED BY <2>3, <3>1
  <2>5. f = [k \in 0 .. m + 1 |-> IF k = 0 THEN EmptyField ELSE MirroredOnce(w, k, f[k - 1])]
    BY <2>4
  <2>6. MirroringSteps(f, w, m + 1)
    <3> HIDE DEF f
    <3> QED BY <2>5, Zenon DEF MirroringSteps
  <2> QED BY <1>1, <2>1, <2>6
<1>4. A = Nat
  BY <1>1, <1>2, <1>3, InductiveSet
<1> QED BY <1>1, <1>4

\* f[k] is the mirror of the k first leaves of w.
Mirroring(f, w, n) ==
    f[0] = EmptyField /\ \A k \in 1 .. n : f[k] = MirroredOnce(w, k, f[k - 1])

\* Mirror is computed by such appends.
LEMMA MirroringExists ==
    ASSUME NEW w, NEW n \in Nat, n = Len(w)
    PROVE  \E f : Mirroring(f, w, n) /\ Mirror(w) = f[n]
<1> DEFINE f == CHOOSE g : g = [k \in 0 .. n |-> IF k = 0 THEN EmptyField ELSE MirroredOnce(w, k, g[k - 1])]
<1>1. Mirror(w) = f[n]
  BY Zenon DEF Mirror, MirroredOnce
<1>2. MirroringSteps(f, w, n)
  <2>1. \E g : MirroringSteps(g, w, n)
    BY MirroringStepsExist
  <2>2. f = CHOOSE g : MirroringSteps(g, w, n)
    BY Zenon DEF MirroringSteps
  <2> HIDE DEF f
  <2> QED BY <2>1, <2>2, Zenon
<1> HIDE DEF f
<1>3. f[0] = EmptyField
  <2>1. 0 \in 0 .. n
    OBVIOUS
  <2> QED BY <1>2, <2>1, Zenon DEF MirroringSteps
<1>4. ASSUME NEW k \in 1 .. n PROVE f[k] = MirroredOnce(w, k, f[k - 1])
  <2>1. k \in 0 .. n /\ k # 0
    OBVIOUS
  <2> QED BY <1>2, <2>1, Zenon DEF MirroringSteps
<1>5. Mirroring(f, w, n)
  BY <1>3, <1>4, Zenon DEF Mirroring
<1> QED BY <1>1, <1>5

\* A new field covers nothing yet.
LEMMA EmptyCovers ==
    ASSUME NEW w
    PROVE  FieldOK(EmptyField) /\ CoversFrom(EmptyField, w, 0) /\ EmptyField.count = 0
<1>1. PICK m : m = EmptyField
  OBVIOUS
<1>2. m.peaks = <<>> /\ m.count = 0
  BY <1>1 DEF EmptyField
<1>3. IsSeq(m.peaks) /\ Len(m.peaks) = 0
  BY <1>2, NothingIsSeq
<1>4. PICK s : s = [i \in 0 .. 0 |-> 0]
  OBVIOUS
<1>5. s[0] = 0 /\ (\A i \in 0 .. 0 : s[i] \in Nat) /\ \A i \in 1 .. 0 : FALSE
  BY <1>4
<1>6. Spans(m.peaks, 0, w, s)
  BY <1>5 DEF Spans
<1> QED BY <1>1, <1>2, <1>3, <1>5, <1>6 DEF CoversFrom, FieldOK

\* What the mirror is after each of its appends.
LEMMA MirrorCovers ==
    ASSUME NEW w, IsSeq(w), NEW n \in Nat, n = Len(w)
    PROVE  /\ FieldOK(Mirror(w)) /\ CoversFrom(Mirror(w), w, 0)
           /\ Mirror(w).count = n
<1>1. PICK f : Mirroring(f, w, n) /\ Mirror(w) = f[n]
  BY MirroringExists
<1> DEFINE Good(m, k) == FieldOK(m) /\ CoversFrom(m, w, 0) /\ m.count = k
           A == {k \in Nat : k <= n => Good(f[k], k)}
<1>2. A \in SUBSET Nat /\ \A k \in Nat : k \in A <=> (k <= n => Good(f[k], k))
  OBVIOUS
<1> HIDE DEF A
<1>3. 0 \in A
  <2>1. f[0] = EmptyField
    BY <1>1 DEF Mirroring
  <2> QED BY <1>2, <2>1, EmptyCovers
<1>4. ASSUME NEW k \in A PROVE k + 1 \in A
  <2>1. k \in Nat
    BY <1>2
  <2>2. SUFFICES ASSUME k + 1 <= n PROVE Good(f[k + 1], k + 1)
    BY <1>2, <2>1
  <2>3. k + 1 \in 1 .. n /\ (k + 1) - 1 = k /\ k <= n
    BY <2>1, <2>2
  <2>4. PICK m : m = f[k]
    OBVIOUS
  <2>5. Good(m, k)
    BY <1>2, <2>1, <2>3, <2>4
  <2>6. f[k + 1] = Push(m, w[m.count + 1], 2)
    <3>1. f[k + 1] = MirroredOnce(w, k + 1, f[k])
      BY <1>1, <2>3 DEF Mirroring
    <3> QED BY <2>4, <2>5, <3>1 DEF MirroredOnce, AppendLeafTs
  <2>7. /\ CoversFrom(Push(m, w[m.count + 1], 2), w, 0) /\ FieldOK(Push(m, w[m.count + 1], 2))
        /\ Push(m, w[m.count + 1], 2).count = m.count + 1
    <3>1. 2 \in {1, 2} /\ Agree(w, w, m.count)
      BY DEF Agree
    <3> QED BY <2>5, <3>1, PushCovers
  <2> QED BY <2>5, <2>6, <2>7
<1>5. A = Nat
  BY <1>2, <1>3, <1>4, InductiveSet
<1>6. Good(f[n], n)
  BY <1>2, <1>5
<1> QED BY <1>1, <1>6

\* Peaks side by side, opened, are the leaves that they cover.
LEMMA SpansRead ==
    ASSUME NEW p, IsSeq(p), NEW n \in Nat, Len(p) = n, NEW w, NEW s, Spans(p, n, w, s),
           NEW d \in Nat, s[n] <= d
    PROVE  Reads(p, w, s[0], s[n], d)
<1> DEFINE Starts(q, k) == IsSeq(q) /\ Len(q) = k /\ \A i \in 1 .. k : q[i] = p[i]
           A == {k \in Nat : k <= n => \A q : Starts(q, k) => Reads(q, w, s[0], s[k], d)}
<1>1. /\ A \in SUBSET Nat
      /\ \A k \in Nat : k \in A <=> (k <= n => \A q : Starts(q, k) => Reads(q, w, s[0], s[k], d))
  OBVIOUS
<1> HIDE DEF A
<1>2. \A i \in 0 .. n : s[i] \in Nat /\ s[0] <= s[i] /\ s[i] <= s[n]
  BY SpansRise DEF Spans
<1>3. 0 \in A
  <2>1. SUFFICES ASSUME NEW q, Starts(q, 0) PROVE Reads(q, w, s[0], s[0], d)
    BY <1>1
  <2>2. AllLeaves(q)
    <3>1. \A i \in 1 .. 0 : FALSE
      OBVIOUS
    <3> QED BY <2>1, <3>1 DEF AllLeaves
  <2>3. q = LeafRow(w, s[0], s[0])
    <3>1. PICK a \in Nat : a = s[0]
      BY <1>2
    <3>2. PICK r : r = LeafRow(w, a, a)
      OBVIOUS
    <3>3. a <= a /\ a - a = 0
      OBVIOUS
    <3>4. IsSeq(r) /\ Len(r) = 0
      BY <3>2, <3>3, LeafRowIsSeq
    <3>5. \A i \in 1 .. 0 : q[i] = r[i]
      OBVIOUS
    <3> QED BY <2>1, <3>1, <3>2, <3>4, <3>5, SameSeq
  <2>4. \A e \in Nat : Below(q, e) = q
    BY <2>2, BelowLeaves
  <2> QED BY <2>3, <2>4 DEF Reads
<1>4. ASSUME NEW k \in A PROVE k + 1 \in A
  <2>1. k \in Nat
    BY <1>1
  <2>2. SUFFICES ASSUME k + 1 <= n, NEW q, Starts(q, k + 1) PROVE Reads(q, w, s[0], s[k + 1], d)
    BY <1>1, <2>1
  <2>3. k + 1 \in 1 .. n /\ (k + 1) - 1 = k /\ k <= n /\ k \in 0 .. n /\ k + 1 \in 0 .. n
    BY <2>1, <2>2
  <2>4. PICK a, b, z : a = SubSeq(q, 1, k) /\ b = SubSeq(q, k + 1, k + 1) /\ z = <<q[k + 1]>>
    OBVIOUS
  <2>5. PICK l \in Nat : l = k + 1
    BY <2>1
  <2>6. Divided(q, l, k, a, b)
    <3>1. k \in 0 .. l /\ IsSeq(q) /\ l = Len(q) /\ b = SubSeq(q, k + 1, l)
      BY <2>1, <2>2, <2>4, <2>5
    <3> QED BY <2>4, <3>1, Parts, Zenon
  <2>7. Starts(a, k)
    <3>1. \A i \in 1 .. k : i \in 1 .. k + 1
      BY <2>1
    <3> QED BY <2>2, <2>6, <3>1 DEF Divided
  <2>8. Reads(a, w, s[0], s[k], d)
    BY <1>1, <2>1, <2>3, <2>7
  <2>9. Reads(z, w, s[k], s[k + 1], d)
    <3>1. Fits(p[k + 1], w, s[k], s[k + 1])
      BY <2>3 DEF Spans
    <3>2. q[k + 1] = p[k + 1]
      <4>1. k + 1 \in 1 .. k + 1
        BY <2>1
      <4> QED BY <2>2, <4>1
    <3>3. Reads(z, w, s[k], s[k + 1], s[k + 1] - s[k])
      BY <2>4, <3>1, <3>2 DEF Fits
    <3>4. s[k + 1] - s[k] <= d
      BY <1>2, <2>3
    <3>5. \A e \in Nat : e >= d => e >= s[k + 1] - s[k]
      BY <1>2, <2>3, <3>4
    <3> QED BY <3>3, <3>5 DEF Reads
  <2>10. IsSeq(z) /\ Len(z) = 1 /\ z[1] = q[k + 1]
    BY <2>4, OneSeq
  <2>11. q = a \o z
    <3>1. \A i \in 1 .. 1 : i = 1
      OBVIOUS
    <3>2. \A i \in 1 .. k : i \in 1 .. k + 1
      BY <2>1
    <3>3. Joins(q, a, z)
      BY <2>2, <2>7, <2>10, <3>1, <3>2 DEF Joins
    <3> QED BY <2>7, <2>10, <3>3, JoinOf
  <2>12. s[0] \in Nat /\ s[k] \in Nat /\ s[k + 1] \in Nat /\ s[0] <= s[k] /\ s[k] <= s[k + 1]
    <3>1. Fits(p[k + 1], w, s[k], s[k + 1])
      BY <2>3 DEF Spans
    <3>2. s[k] < s[k + 1]
      BY <3>1 DEF Fits
    <3>3. 0 \in 0 .. n
      OBVIOUS
    <3> QED BY <1>2, <2>3, <3>2, <3>3
  <2>13. Reads(a \o z, w, s[0], s[k + 1], d)
    BY <2>7, <2>8, <2>9, <2>10, <2>12, ReadsJoin
  <2> QED BY <2>11, <2>13
<1>5. A = Nat
  BY <1>1, <1>3, <1>4, InductiveSet
<1>6. Starts(p, n)
  OBVIOUS
<1> HIDE DEF Starts
<1> QED BY <1>1, <1>5, <1>6

\* The leaves under the peaks are those of w past the a-th.
LEMMA CoveredRow ==
    ASSUME NEW m, FieldOK(m), NEW w, NEW a, CoversFrom(m, w, a)
    PROVE  /\ a \in Nat /\ a <= m.count
           /\ Covered(m) = [i \in 1 .. m.count - a |-> w[a + i]]
<1>1. PICK p : p = m.peaks
  OBVIOUS
<1>2. PICK n \in Nat : n = Len(p)
  BY <1>1, Appended DEF FieldOK
<1>3. PICK c \in Nat : c = m.count
  BY DEF FieldOK
<1>4. PICK s : Spans(p, n, w, s) /\ s[0] = a /\ s[n] = c
  BY <1>1, <1>2, <1>3 DEF CoversFrom
<1>5. a \in Nat /\ a <= c
  <2>1. 0 \in 0 .. n /\ n \in 0 .. n
    OBVIOUS
  <2> QED BY <1>4, <2>1, SpansRise DEF Spans
<1>6. Reads(p, w, a, c, c)
  <2>1. IsSeq(p) /\ s[n] <= c
    BY <1>1, <1>4 DEF FieldOK
  <2> QED BY <1>2, <1>4, <2>1, SpansRead
<1>7. PICK row : row = Below(p, c)
  OBVIOUS
<1>8. row = LeafRow(w, a, c)
  BY <1>6, <1>7 DEF Reads
<1>9. Len(row) = c - a /\ \A i \in 1 .. c - a : row[i] = HashLeaf(w[a + i])
  BY <1>5, <1>8, LeafRowIsSeq
<1>10. Covered(m) = [i \in 1 .. Len(row) |-> row[i][1]]
  BY <1>1, <1>3, <1>7 DEF Covered
<1>11. \A i \in 1 .. c - a : row[i][1] = w[a + i]
  <2>1. \A x : HashLeaf(x)[1] = x
    BY DEF HashLeaf
  <2> QED BY <1>9, <2>1
<1>12. Covered(m) = [i \in 1 .. c - a |-> w[a + i]]
  BY <1>9, <1>10, <1>11
<1> QED BY <1>3, <1>5, <1>12

\* The TypeScript field covers all of its leaves.
LEMMA MirrorIsWhole ==
    ASSUME NEW w, IsSeq(w)
    PROVE  Covered(Mirror(w)) = w
<1>1. PICK n \in Nat : n = Len(w)
  BY Appended
<1>2. PICK m : m = Mirror(w)
  OBVIOUS
<1>3. FieldOK(m) /\ CoversFrom(m, w, 0) /\ m.count = n
  BY <1>1, <1>2, MirrorCovers
<1>4. Covered(m) = [i \in 1 .. n - 0 |-> w[0 + i]]
  BY <1>3, CoveredRow
<1>5. [i \in 1 .. n - 0 |-> w[0 + i]] = [i \in 1 .. n |-> w[i]]
  OBVIOUS
<1>6. w = [i \in 1 .. n |-> w[i]]
  <2>1. DOMAIN w = 1 .. n
    BY <1>1, Appended
  <2>2. PICK S : w \in Seq(S)
    BY DEF IsSeq
  <2> QED BY <2>1, <2>2
<1> QED BY <1>2, <1>4, <1>5, <1>6

-----------------------------------------------------------------------------
(* The field of the daemon, whose oldest peak may be dropped.               *)

\* A field that is left by its oldest peak covers what it covered from the second on.
LEMMA TailCovers ==
    ASSUME NEW m, FieldOK(m), NEW w, NEW a, CoversFrom(m, w, a), Len(m.peaks) > 1,
           NEW q, q = [m EXCEPT !.peaks = Tail(@)], m = [peaks |-> m.peaks, count |-> m.count]
    PROVE  FieldOK(q) /\ q.count = m.count /\ \E b : CoversFrom(q, w, b) /\ a < b /\ b < m.count
<1>1. PICK p : p = m.peaks
  OBVIOUS
<1>2. PICK n \in Nat : n = Len(p)
  BY <1>1, Appended DEF FieldOK
<1>3. PICK c \in Nat : c = m.count
  BY DEF FieldOK
<1>4. PICK s : Spans(p, n, w, s) /\ s[0] = a /\ s[n] = c
  BY <1>1, <1>2, <1>3 DEF CoversFrom
<1>5. PICK r : r = Tail(p)
  OBVIOUS
<1>6. q = [peaks |-> r, count |-> c]
  BY <1>1, <1>3, <1>5
<1>7. q.peaks = r /\ q.count = c
  BY <1>6
<1>8. PICK k \in Nat : k = n - 1 /\ k > 0
  BY <1>1, <1>2
<1>9. IsSeq(r) /\ Len(r) = k /\ \A i \in 1 .. k : r[i] = p[i + 1]
  <2> DEFINE S == {p[i] : i \in DOMAIN p}
  <2>1. p \in Seq(S)
    BY <1>1 DEF FieldOK, IsSeq
  <2> HIDE DEF S
  <2>2. Len(p) = k + 1 /\ p # <<>>
    BY <1>2, <1>8, <2>1
  <2>3. r \in Seq(S) /\ Len(r) = k /\ \A i \in 1 .. k : r[i] = p[i + 1]
    BY <1>5, <1>8, <2>1, <2>2
  <2> QED BY <2>3, SeqIsSeq
<1>10. PICK z : z = [i \in 0 .. k |-> s[i + 1]]
  OBVIOUS
<1>11. \A i \in 0 .. k : z[i] = s[i + 1] /\ i + 1 \in 0 .. n
  BY <1>8, <1>10
<1>12. ASSUME NEW i \in 1 .. k PROVE Fits(r[i], w, z[i - 1], z[i])
  <2>1. i \in 0 .. k /\ i - 1 \in 0 .. k /\ (i - 1) + 1 = i /\ i + 1 \in 1 .. n /\ (i + 1) - 1 = i
    BY <1>8
  <2>2. Fits(p[i + 1], w, s[(i + 1) - 1], s[i + 1])
    BY <1>4, <2>1 DEF Spans
  <2> QED BY <1>9, <1>11, <2>1, <2>2
<1>13. Spans(r, k, w, z)
  BY <1>4, <1>11, <1>12 DEF Spans
<1>14. z[0] = s[1] /\ z[k] = c
  <2>1. 0 \in 0 .. k /\ k \in 0 .. k /\ 0 + 1 = 1 /\ k + 1 = n
    BY <1>8
  <2> QED BY <1>4, <1>11, <2>1
<1>15. a < s[1] /\ s[1] < c
  <2>1. 1 \in 1 .. n /\ 1 - 1 = 0 /\ n \in 1 .. n /\ k \in 0 .. n /\ 1 \in 0 .. n /\ k = n - 1
        /\ 1 \in 0 .. k
    BY <1>8
  <2>2. Fits(p[1], w, s[0], s[1]) /\ Fits(p[n], w, s[k], s[n])
    BY <1>4, <2>1 DEF Spans
  <2>3. s[0] < s[1] /\ s[k] < s[n] /\ s[k] \in Nat /\ s[1] \in Nat /\ s[n] \in Nat
    BY <2>2 DEF Fits
  <2>4. s[1] <= s[k]
    <3>1. z[0] <= z[k - 1]
      <4>1. k - 1 \in 0 .. k
        BY <1>8
      <4> QED BY <1>13, <4>1, SpansRise
    <3>2. z[k - 1] = s[k]
      <4>1. k - 1 \in 0 .. k /\ (k - 1) + 1 = k
        BY <1>8
      <4> QED BY <1>11, <4>1
    <3> QED BY <1>14, <3>1, <3>2
  <2> QED BY <1>4, <2>3, <2>4
<1>16. CoversFrom(q, w, s[1])
  BY <1>7, <1>9, <1>13, <1>14 DEF CoversFrom
<1>17. FieldOK(q)
  BY <1>7, <1>9 DEF FieldOK
<1> QED BY <1>3, <1>7, <1>15, <1>16, <1>17

\* A record with a field's parts.
LEMMA PushIsField ==
    ASSUME NEW m, NEW x, NEW q, q = Push(m, x, 1)
    PROVE  q = [peaks |-> q.peaks, count |-> q.count]
BY DEF Push

\* Appending to a field keeps a run of leaves that ends with the newest, and all of them
\* as long as the window of max leaves is not full.
LEMMA AppendCovers ==
    ASSUME NEW m, FieldOK(m), NEW w, NEW a, CoversFrom(m, w, a), NEW v, NEW max \in Nat,
           Agree(v, w, m.count)
    PROVE  \E b : /\ CoversFrom(AppendLeaf(m, v[m.count + 1], max), v, b)
                  /\ a <= b /\ b <= m.count
                  /\ m.count + 1 <= max => b = a
<1>1. PICK c \in Nat : c = m.count
  BY DEF FieldOK
<1>2. PICK x : x = v[c + 1]
  OBVIOUS
<1>3. PICK q : q = Push(m, x, 1)
  OBVIOUS
<1>4. CoversFrom(q, v, a) /\ FieldOK(q) /\ q.count = c + 1
  <2>1. PICK min \in {1, 2} : min = 1
    OBVIOUS
  <2>2. CoversFrom(Push(m, v[m.count + 1], min), v, a) /\ FieldOK(Push(m, v[m.count + 1], min))
        /\ Push(m, v[m.count + 1], min).count = m.count + 1
    BY PushCovers
  <2> QED BY <1>1, <1>2, <1>3, <2>1, <2>2
<1>5. a \in Nat /\ a <= c
  BY <1>1, CoveredRow
<1>6. PICK r : r = AppendLeaf(m, x, max)
  OBVIOUS
<1>7. r = IF max > 0 /\ q.count > max /\ Len(q.peaks) > 1 THEN [q EXCEPT !.peaks = Tail(@)] ELSE q
  BY <1>3, <1>6 DEF AppendLeaf
<1>8. CASE max > 0 /\ q.count > max /\ Len(q.peaks) > 1
  <2>1. r = [q EXCEPT !.peaks = Tail(@)]
    BY <1>7, <1>8
  <2>2. q = [peaks |-> q.peaks, count |-> q.count]
    BY <1>3, PushIsField
  <2>3. PICK b : CoversFrom(r, v, b) /\ a < b /\ b < c + 1
    BY <1>4, <1>8, <2>1, <2>2, TailCovers
  <2>4. b \in Nat
    <3>1. FieldOK(r)
      BY <1>4, <1>8, <2>1, <2>2, TailCovers
    <3> QED BY <2>3, <3>1, CoveredRow
  <2>5. ~(c + 1 <= max) /\ a <= b /\ b <= c
    BY <1>4, <1>5, <1>8, <2>3, <2>4
  <2> QED BY <1>1, <1>2, <1>6, <2>3, <2>5
<1>9. CASE ~(max > 0 /\ q.count > max /\ Len(q.peaks) > 1)
  <2>1. r = q
    BY <1>7, <1>9
  <2> QED BY <1>1, <1>2, <1>4, <1>5, <1>6, <2>1
<1> QED BY <1>8, <1>9

-----------------------------------------------------------------------------
(* Bits of a number, perfect trees and their peaks.                         *)

Halved(prev) == prev \div 2

ShiftingSteps(f, x, n) ==
    f = [k \in 0 .. n |-> IF k = 0 THEN x ELSE Halved(f[k - 1])]

\* A number can be halved any number of times.
LEMMA ShiftingStepsExist ==
    ASSUME NEW x, NEW n \in Nat
    PROVE  \E f : ShiftingSteps(f, x, n)
<1> DEFINE A == {m \in Nat : \E f : ShiftingSteps(f, x, m)}
<1>1. A \in SUBSET Nat /\ \A m \in Nat : m \in A <=> \E f : ShiftingSteps(f, x, m)
  OBVIOUS
<1> HIDE DEF A
<1>2. 0 \in A
  <2>1. ShiftingSteps([k \in 0 .. 0 |-> x], x, 0)
    BY DEF ShiftingSteps
  <2> QED BY <1>1, <2>1
<1>3. ASSUME NEW m \in A PROVE m + 1 \in A
  <2>1. m \in Nat
    BY <1>1
  <2>2. PICK g : ShiftingSteps(g, x, m)
    BY <1>1
  <2> DEFINE f == [k \in 0 .. m + 1 |-> IF k = 0 THEN x ELSE Halved(g[k - 1])]
  <2>3. ASSUME NEW k \in 0 .. m PROVE f[k] = g[k]
    <3>1. k \in 0 .. m + 1
      BY <2>1
    <3>2. f[k] = IF k = 0 THEN x ELSE Halved(g[k - 1])
      BY <3>1, Zenon
    <3>3. g[k] = IF k = 0 THEN x ELSE Halved(g[k - 1])
      BY <2>2, Zenon DEF ShiftingSteps
    <3> QED BY <3>2, <3>3, Zenon
  <2>4. \A k \in 0 .. m + 1 : k # 0 => f[k - 1] = g[k - 1]
    <3>1. \A k \in 0 .. m + 1 : k # 0 => k - 1 \in 0 .. m
      BY <2>1
    <3> HIDE DEF f
    <3> QED BY <2>3, <3>1
  <2>5. f = [k \in 0 .. m + 1 |-> IF k = 0 THEN x ELSE Halved(f[k - 1])]
    BY <2>4
  <2>6. ShiftingSteps(f, x, m + 1)
    <3> HIDE DEF f
    <3> QED BY <2>5, Zenon DEF ShiftingSteps
  <2> QED BY <1>1, <2>1, <2>6
<1>4. A = Nat
  BY <1>1, <1>2, <1>3, InductiveSet
<1> QED BY <1>1, <1>4

\* f[k] is x shifted by k.
Shifting(f, x, n) ==
    f[0] = x /\ \A k \in 1 .. n : f[k] = Halved(f[k - 1])

\* Shifted is computed by halving.
LEMMA ShiftingExists ==
    ASSUME NEW x, NEW n \in Nat
    PROVE  \E f : Shifting(f, x, n) /\ Shifted(x, n) = f[n]
<1> DEFINE f == CHOOSE g : g = [k \in 0 .. n |-> IF k = 0 THEN x ELSE Halved(g[k - 1])]
<1>1. Shifted(x, n) = f[n]
  BY Zenon DEF Shifted, Halved
<1>2. ShiftingSteps(f, x, n)
  <2>1. \E g : ShiftingSteps(g, x, n)
    BY ShiftingStepsExist
  <2>2. f = CHOOSE g : ShiftingSteps(g, x, n)
    BY Zenon DEF ShiftingSteps
  <2> HIDE DEF f
  <2> QED BY <2>1, <2>2, Zenon
<1> HIDE DEF f
<1>3. f[0] = x
  <2>1. 0 \in 0 .. n
    OBVIOUS
  <2> QED BY <1>2, <2>1, Zenon DEF ShiftingSteps
<1>4. ASSUME NEW k \in 1 .. n PROVE f[k] = Halved(f[k - 1])
  <2>1. k \in 0 .. n /\ k # 0
    OBVIOUS
  <2> QED BY <1>2, <2>1, Zenon DEF ShiftingSteps
<1>5. Shifting(f, x, n)
  BY <1>3, <1>4, Zenon DEF Shifting
<1> QED BY <1>1, <1>5

\* The number of further steps does not matter.
LEMMA ShiftingSame ==
    ASSUME NEW f, NEW g, NEW x, NEW n \in Nat, NEW l \in Nat, n <= l, Shifting(f, x, n), Shifting(g, x, l)
    PROVE  f[n] = g[n]
<1> DEFINE A == {k \in Nat : k <= n => f[k] = g[k]}
<1>1. A \in SUBSET Nat /\ \A k \in Nat : k \in A <=> (k <= n => f[k] = g[k])
  OBVIOUS
<1> HIDE DEF A
<1>2. 0 \in A
  BY <1>1 DEF Shifting
<1>3. ASSUME NEW k \in A PROVE k + 1 \in A
  <2>1. k \in Nat
    BY <1>1
  <2>2. SUFFICES ASSUME k + 1 <= n PROVE f[k + 1] = g[k + 1]
    BY <1>1, <2>1
  <2>3. k + 1 \in 1 .. n /\ k + 1 \in 1 .. l /\ (k + 1) - 1 = k /\ k <= n
    BY <2>1, <2>2
  <2>4. f[k] = g[k]
    BY <1>1, <2>1, <2>3
  <2>5. f[k + 1] = Halved(f[k]) /\ g[k + 1] = Halved(g[k])
    BY <2>3 DEF Shifting
  <2> QED BY <2>4, <2>5
<1>4. A = Nat
  BY <1>1, <1>2, <1>3, InductiveSet
<1> QED BY <1>1, <1>4

\* Shifted by one more is half as much.
LEMMA ShiftingUnfolds ==
    ASSUME NEW x, NEW d \in Nat
    PROVE  /\ Shifted(x, 0) = x
           /\ Shifted(x, d + 1) = Halved(Shifted(x, d))
<1>1. PICK f : Shifting(f, x, 0) /\ Shifted(x, 0) = f[0]
  <2>1. 0 \in Nat
    OBVIOUS
  <2> QED BY <2>1, ShiftingExists
<1>2. PICK g : Shifting(g, x, d) /\ Shifted(x, d) = g[d]
  BY ShiftingExists
<1>3. PICK e \in Nat : e = d + 1
  OBVIOUS
<1>4. PICK h : Shifting(h, x, e) /\ Shifted(x, e) = h[e]
  BY ShiftingExists
<1>5. g[d] = h[d]
  <2>1. d <= e
    BY <1>3
  <2> QED BY <1>2, <1>4, <2>1, ShiftingSame
<1>6. h[e] = Halved(h[d])
  <2>1. e \in 1 .. e /\ e - 1 = d
    BY <1>3
  <2> QED BY <1>4, <2>1 DEF Shifting
<1>7. f[0] = x
  BY <1>1 DEF Shifting
<1> QED BY <1>1, <1>2, <1>3, <1>4, <1>5, <1>6, <1>7

LeafTrees(s) == [i \in Nat |-> HashLeaf(s[i + 1])]
TreesOver(prev) == [i \in Nat |-> HashNode(prev[2 * i], prev[2 * i + 1])]

TreesSteps(f, s, n) ==
    f = [k \in 0 .. n |-> IF k = 0 THEN LeafTrees(s) ELSE TreesOver(f[k - 1])]

\* Trees of any height can be built.
LEMMA TreesStepsExist ==
    ASSUME NEW s, NEW n \in Nat
    PROVE  \E f : TreesSteps(f, s, n)
<1> DEFINE A == {m \in Nat : \E f : TreesSteps(f, s, m)}
<1>1. A \in SUBSET Nat /\ \A m \in Nat : m \in A <=> \E f : TreesSteps(f, s, m)
  OBVIOUS
<1> HIDE DEF A
<1>2. 0 \in A
  <2>1. TreesSteps([k \in 0 .. 0 |-> LeafTrees(s)], s, 0)
    BY DEF TreesSteps
  <2> QED BY <1>1, <2>1
<1>3. ASSUME NEW m \in A PROVE m + 1 \in A
  <2>1. m \in Nat
    BY <1>1
  <2>2. PICK g : TreesSteps(g, s, m)
    BY <1>1
  <2> DEFINE f == [k \in 0 .. m + 1 |-> IF k = 0 THEN LeafTrees(s) ELSE TreesOver(g[k - 1])]
  <2>3. ASSUME NEW k \in 0 .. m PROVE f[k] = g[k]
    <3>1. k \in 0 .. m + 1
      BY <2>1
    <3>2. f[k] = IF k = 0 THEN LeafTrees(s) ELSE TreesOver(g[k - 1])
      BY <3>1, Zenon
    <3>3. g[k] = IF k = 0 THEN LeafTrees(s) ELSE TreesOver(g[k - 1])
      BY <2>2, Zenon DEF TreesSteps
    <3> QED BY <3>2, <3>3, Zenon
  <2>4. \A k \in 0 .. m + 1 : k # 0 => f[k - 1] = g[k - 1]
    <3>1. \A k \in 0 .. m + 1 : k # 0 => k - 1 \in 0 .. m
      BY <2>1
    <3> HIDE DEF f
    <3> QED BY <2>3, <3>1
  <2>5. f = [k \in 0 .. m + 1 |-> IF k = 0 THEN LeafTrees(s) ELSE TreesOver(f[k - 1])]
    BY <2>4
  <2>6. TreesSteps(f, s, m + 1)
    <3> HIDE DEF f
    <3> QED BY <2>5, Zenon DEF TreesSteps
  <2> QED BY <1>1, <2>1, <2>6
<1>4. A = Nat
  BY <1>1, <1>2, <1>3, InductiveSet
<1> QED BY <1>1, <1>4

\* f[k] is the trees of height k.
Trees(f, s, n) ==
    f[0] = LeafTrees(s) /\ \A k \in 1 .. n : f[k] = TreesOver(f[k - 1])

\* PerfectTrees is computed by such steps.
LEMMA TreesExists ==
    ASSUME NEW s, NEW n \in Nat
    PROVE  \E f : Trees(f, s, n) /\ PerfectTrees(s, n) = f[n]
<1> DEFINE f == CHOOSE g : g = [k \in 0 .. n |-> IF k = 0 THEN LeafTrees(s) ELSE TreesOver(g[k - 1])]
<1>1. PerfectTrees(s, n) = f[n]
  BY Zenon DEF PerfectTrees, LeafTrees, TreesOver
<1>2. TreesSteps(f, s, n)
  <2>1. \E g : TreesSteps(g, s, n)
    BY TreesStepsExist
  <2>2. f = CHOOSE g : TreesSteps(g, s, n)
    BY Zenon DEF TreesSteps
  <2> HIDE DEF f
  <2> QED BY <2>1, <2>2, Zenon
<1> HIDE DEF f
<1>3. f[0] = LeafTrees(s)
  <2>1. 0 \in 0 .. n
    OBVIOUS
  <2> QED BY <1>2, <2>1, Zenon DEF TreesSteps
<1>4. ASSUME NEW k \in 1 .. n PROVE f[k] = TreesOver(f[k - 1])
  <2>1. k \in 0 .. n /\ k # 0
    OBVIOUS
  <2> QED BY <1>2, <2>1, Zenon DEF TreesSteps
<1>5. Trees(f, s, n)
  BY <1>3, <1>4, Zenon DEF Trees
<1> QED BY <1>1, <1>5

\* The number of further steps does not matter.
LEMMA TreesSame ==
    ASSUME NEW f, NEW g, NEW s, NEW n \in Nat, NEW l \in Nat, n <= l, Trees(f, s, n), Trees(g, s, l)
    PROVE  f[n] = g[n]
<1> DEFINE A == {k \in Nat : k <= n => f[k] = g[k]}
<1>1. A \in SUBSET Nat /\ \A k \in Nat : k \in A <=> (k <= n => f[k] = g[k])
  OBVIOUS
<1> HIDE DEF A
<1>2. 0 \in A
  BY <1>1 DEF Trees
<1>3. ASSUME NEW k \in A PROVE k + 1 \in A
  <2>1. k \in Nat
    BY <1>1
  <2>2. SUFFICES ASSUME k + 1 <= n PROVE f[k + 1] = g[k + 1]
    BY <1>1, <2>1
  <2>3. k + 1 \in 1 .. n /\ k + 1 \in 1 .. l /\ (k + 1) - 1 = k /\ k <= n
    BY <2>1, <2>2
  <2>4. f[k] = g[k]
    BY <1>1, <2>1, <2>3
  <2>5. f[k + 1] = TreesOver(f[k]) /\ g[k + 1] = TreesOver(g[k])
    BY <2>3 DEF Trees
  <2> QED BY <2>4, <2>5
<1>4. A = Nat
  BY <1>1, <1>2, <1>3, InductiveSet
<1> QED BY <1>1, <1>4

\* Trees one higher are over two trees each.
LEMMA TreesUnfolds ==
    ASSUME NEW s, NEW d \in Nat
    PROVE  /\ PerfectTrees(s, 0) = LeafTrees(s)
           /\ PerfectTrees(s, d + 1) = TreesOver(PerfectTrees(s, d))
<1>1. PICK f : Trees(f, s, 0) /\ PerfectTrees(s, 0) = f[0]
  <2>1. 0 \in Nat
    OBVIOUS
  <2> QED BY <2>1, TreesExists
<1>2. PICK g : Trees(g, s, d) /\ PerfectTrees(s, d) = g[d]
  BY TreesExists
<1>3. PICK e \in Nat : e = d + 1
  OBVIOUS
<1>4. PICK h : Trees(h, s, e) /\ PerfectTrees(s, e) = h[e]
  BY TreesExists
<1>5. g[d] = h[d]
  <2>1. d <= e
    BY <1>3
  <2> QED BY <1>2, <1>4, <2>1, TreesSame
<1>6. h[e] = TreesOver(h[d])
  <2>1. e \in 1 .. e /\ e - 1 = d
    BY <1>3
  <2> QED BY <1>4, <2>1 DEF Trees
<1>7. f[0] = LeafTrees(s)
  BY <1>1 DEF Trees
<1> QED BY <1>1, <1>2, <1>3, <1>4, <1>5, <1>6, <1>7

PeakOver(s, k, prev) ==
    IF Bit(Len(s), k - 1) = 1
        THEN <<PerfectTree(s, k - 1, Shifted(Len(s), k - 1) - 1)>> \o prev
    ELSE prev

PeaksSteps(f, s, n) ==
    f = [k \in 0 .. n |-> IF k = 0 THEN <<>> ELSE PeakOver(s, k, f[k - 1])]

\* The peaks can be collected up to any height.
LEMMA PeaksStepsExist ==
    ASSUME NEW s, NEW n \in Nat
    PROVE  \E f : PeaksSteps(f, s, n)
<1> DEFINE A == {m \in Nat : \E f : PeaksSteps(f, s, m)}
<1>1. A \in SUBSET Nat /\ \A m \in Nat : m \in A <=> \E f : PeaksSteps(f, s, m)
  OBVIOUS
<1> HIDE DEF A
<1>2. 0 \in A
  <2>1. PeaksSteps([k \in 0 .. 0 |-> <<>>], s, 0)
    BY DEF PeaksSteps
  <2> QED BY <1>1, <2>1
<1>3. ASSUME NEW m \in A PROVE m + 1 \in A
  <2>1. m \in Nat
    BY <1>1
  <2>2. PICK g : PeaksSteps(g, s, m)
    BY <1>1
  <2> DEFINE f == [k \in 0 .. m + 1 |-> IF k = 0 THEN <<>> ELSE PeakOver(s, k, g[k - 1])]
  <2>3. ASSUME NEW k \in 0 .. m PROVE f[k] = g[k]
    <3>1. k \in 0 .. m + 1
      BY <2>1
    <3>2. f[k] = IF k = 0 THEN <<>> ELSE PeakOver(s, k, g[k - 1])
      BY <3>1, Zenon
    <3>3. g[k] = IF k = 0 THEN <<>> ELSE PeakOver(s, k, g[k - 1])
      BY <2>2, Zenon DEF PeaksSteps
    <3> QED BY <3>2, <3>3, Zenon
  <2>4. \A k \in 0 .. m + 1 : k # 0 => f[k - 1] = g[k - 1]
    <3>1. \A k \in 0 .. m + 1 : k # 0 => k - 1 \in 0 .. m
      BY <2>1
    <3> HIDE DEF f
    <3> QED BY <2>3, <3>1
  <2>5. f = [k \in 0 .. m + 1 |-> IF k = 0 THEN <<>> ELSE PeakOver(s, k, f[k - 1])]
    BY <2>4
  <2>6. PeaksSteps(f, s, m + 1)
    <3> HIDE DEF f
    <3> QED BY <2>5, Zenon DEF PeaksSteps
  <2> QED BY <1>1, <2>1, <2>6
<1>4. A = Nat
  BY <1>1, <1>2, <1>3, InductiveSet
<1> QED BY <1>1, <1>4

\* f[k] is the peaks lower than k.
Peaks(f, s, n) ==
    f[0] = <<>> /\ \A k \in 1 .. n : f[k] = PeakOver(s, k, f[k - 1])

\* PeaksBelow is computed by such steps.
LEMMA PeaksExists ==
    ASSUME NEW s, NEW n \in Nat
    PROVE  \E f : Peaks(f, s, n) /\ PeaksBelow(s, n) = f[n]
<1> DEFINE f == CHOOSE g : g = [k \in 0 .. n |-> IF k = 0 THEN <<>> ELSE PeakOver(s, k, g[k - 1])]
<1>1. PeaksBelow(s, n) = f[n]
  BY Zenon DEF PeaksBelow, PeakOver
<1>2. PeaksSteps(f, s, n)
  <2>1. \E g : PeaksSteps(g, s, n)
    BY PeaksStepsExist
  <2>2. f = CHOOSE g : PeaksSteps(g, s, n)
    BY Zenon DEF PeaksSteps
  <2> HIDE DEF f
  <2> QED BY <2>1, <2>2, Zenon
<1> HIDE DEF f
<1>3. f[0] = <<>>
  <2>1. 0 \in 0 .. n
    OBVIOUS
  <2> QED BY <1>2, <2>1, Zenon DEF PeaksSteps
<1>4. ASSUME NEW k \in 1 .. n PROVE f[k] = PeakOver(s, k, f[k - 1])
  <2>1. k \in 0 .. n /\ k # 0
    OBVIOUS
  <2> QED BY <1>2, <2>1, Zenon DEF PeaksSteps
<1>5. Peaks(f, s, n)
  BY <1>3, <1>4, Zenon DEF Peaks
<1> QED BY <1>1, <1>5

\* The number of further steps does not matter.
LEMMA PeaksSame ==
    ASSUME NEW f, NEW g, NEW s, NEW n \in Nat, NEW l \in Nat, n <= l, Peaks(f, s, n), Peaks(g, s, l)
    PROVE  f[n] = g[n]
<1> DEFINE A == {k \in Nat : k <= n => f[k] = g[k]}
<1>1. A \in SUBSET Nat /\ \A k \in Nat : k \in A <=> (k <= n => f[k] = g[k])
  OBVIOUS
<1> HIDE DEF A
<1>2. 0 \in A
  BY <1>1 DEF Peaks
<1>3. ASSUME NEW k \in A PROVE k + 1 \in A
  <2>1. k \in Nat
    BY <1>1
  <2>2. SUFFICES ASSUME k + 1 <= n PROVE f[k + 1] = g[k + 1]
    BY <1>1, <2>1
  <2>3. k + 1 \in 1 .. n /\ k + 1 \in 1 .. l /\ (k + 1) - 1 = k /\ k <= n
    BY <2>1, <2>2
  <2>4. f[k] = g[k]
    BY <1>1, <2>1, <2>3
  <2>5. f[k + 1] = PeakOver(s, k + 1, f[k]) /\ g[k + 1] = PeakOver(s, k + 1, g[k])
    BY <2>3 DEF Peaks
  <2> QED BY <2>4, <2>5
<1>4. A = Nat
  BY <1>1, <1>2, <1>3, InductiveSet
<1> QED BY <1>1, <1>4

\* The peaks below the next height have at most one more.
LEMMA PeaksUnfolds ==
    ASSUME NEW s, NEW d \in Nat
    PROVE  /\ PeaksBelow(s, 0) = <<>>
           /\ PeaksBelow(s, d + 1) = PeakOver(s, d + 1, PeaksBelow(s, d))
<1>1. PICK f : Peaks(f, s, 0) /\ PeaksBelow(s, 0) = f[0]
  <2>1. 0 \in Nat
    OBVIOUS
  <2> QED BY <2>1, PeaksExists
<1>2. PICK g : Peaks(g, s, d) /\ PeaksBelow(s, d) = g[d]
  BY PeaksExists
<1>3. PICK e \in Nat : e = d + 1
  OBVIOUS
<1>4. PICK h : Peaks(h, s, e) /\ PeaksBelow(s, e) = h[e]
  BY PeaksExists
<1>5. g[d] = h[d]
  <2>1. d <= e
    BY <1>3
  <2> QED BY <1>2, <1>4, <2>1, PeaksSame
<1>6. h[e] = PeakOver(s, e, h[d])
  <2>1. e \in 1 .. e /\ e - 1 = d
    BY <1>3
  <2> QED BY <1>4, <2>1 DEF Peaks
<1>7. f[0] = <<>>
  BY <1>1 DEF Peaks
<1> QED BY <1>1, <1>2, <1>3, <1>4, <1>5, <1>6, <1>7

-----------------------------------------------------------------------------
(* Bits of the next number.                                                 *)

\* A bit is what halving leaves over.
LEMMA ShiftedBy ==
    ASSUME NEW n \in Nat, NEW h \in Nat
    PROVE  /\ Shifted(n, 0) = n /\ Shifted(n, h + 1) = Shifted(n, h) \div 2
           /\ Shifted(n, h) \in Nat
           /\ Bit(n, h) = Shifted(n, h) - 2 * Shifted(n, h + 1) /\ Bit(n, h) \in {0, 1}
<1>1. \A k \in Nat : Shifted(n, 0) = n /\ Shifted(n, k + 1) = Shifted(n, k) \div 2
  BY ShiftingUnfolds DEF Halved
<1> DEFINE A == {k \in Nat : Shifted(n, k) \in Nat}
<1>2. A \in SUBSET Nat /\ \A k \in Nat : k \in A <=> Shifted(n, k) \in Nat
  OBVIOUS
<1> HIDE DEF A
<1>3. 0 \in A
  BY <1>1, <1>2
<1>4. ASSUME NEW k \in A PROVE k + 1 \in A
  <2>1. k \in Nat /\ Shifted(n, k) \in Nat
    BY <1>2
  <2>2. Shifted(n, k) \div 2 \in Nat
    BY <2>1
  <2> QED BY <1>1, <1>2, <2>1, <2>2
<1>5. A = Nat
  BY <1>2, <1>3, <1>4, InductiveSet
<1>6. Shifted(n, h) \in Nat
  BY <1>2, <1>5
<1>7. PICK s \in Nat : s = Shifted(n, h)
  BY <1>6
<1>8. s % 2 = s - 2 * (s \div 2) /\ s % 2 \in {0, 1}
  OBVIOUS
<1>9. Bit(n, h) = s % 2
  BY <1>7 DEF Bit
<1> QED BY <1>1, <1>6, <1>7, <1>8, <1>9

\* A number has fewer bits than it counts.
LEMMA ShiftedOut ==
    ASSUME NEW n \in Nat, NEW h \in Nat, h >= n
    PROVE  Shifted(n, h) = 0
<1> DEFINE A == {k \in Nat : Shifted(n, k) = 0 \/ Shifted(n, k) + k <= n}
<1>1. A \in SUBSET Nat /\ \A k \in Nat : k \in A <=> Shifted(n, k) = 0 \/ Shifted(n, k) + k <= n
  OBVIOUS
<1> HIDE DEF A
<1>2. 0 \in A
  <2>1. Shifted(n, 0) = n
    BY ShiftedBy
  <2> QED BY <1>1, <2>1
<1>3. ASSUME NEW k \in A PROVE k + 1 \in A
  <2>1. k \in Nat /\ (Shifted(n, k) = 0 \/ Shifted(n, k) + k <= n)
    BY <1>1
  <2>2. PICK s \in Nat : s = Shifted(n, k)
    BY <2>1, ShiftedBy
  <2>3. Shifted(n, k + 1) = s \div 2
    BY <2>1, <2>2, ShiftedBy
  <2>4. s = 0 => s \div 2 = 0
    OBVIOUS
  <2>5. s > 0 => (s \div 2) + 1 <= s /\ s \div 2 \in Nat
    OBVIOUS
  <2>6. s \div 2 = 0 \/ (s \div 2) + (k + 1) <= n
    BY <2>1, <2>2, <2>4, <2>5
  <2> QED BY <1>1, <2>1, <2>3, <2>6
<1>4. A = Nat
  BY <1>1, <1>2, <1>3, InductiveSet
<1>5. Shifted(n, h) \in Nat
  BY ShiftedBy
<1> QED BY <1>1, <1>4, <1>5

\* The lowest bit of n that is set.
Lowest(n, z) == Bit(n, z) = 1 /\ \A h \in 0 .. z - 1 : Bit(n, h) = 0

\* The lowest bit of a number that is not 0.
LEMMA LowestBit ==
    ASSUME NEW n \in Nat, n # 0
    PROVE  \E z \in 0 .. n - 1 : Lowest(n, z)
<1> DEFINE S == {h \in Nat : Bit(n, h) = 1}
<1>1. \A h \in Nat : h \in S <=> Bit(n, h) = 1
  OBVIOUS
<1>2. S \in SUBSET Nat
  OBVIOUS
<1> HIDE DEF S
<1>3. S # {}
  <2> SUFFICES ASSUME S = {} PROVE FALSE
    OBVIOUS
  <2> DEFINE A == {k \in Nat : Shifted(n, k) # 0}
  <2>1. A \in SUBSET Nat /\ \A k \in Nat : k \in A <=> Shifted(n, k) # 0
    OBVIOUS
  <2> HIDE DEF A
  <2>2. 0 \in A
    <3>1. Shifted(n, 0) = n
      BY ShiftedBy
    <3> QED BY <2>1, <3>1
  <2>3. ASSUME NEW k \in A PROVE k + 1 \in A
    <3>1. k \in Nat /\ Shifted(n, k) # 0
      BY <2>1
    <3>2. Bit(n, k) # 1
      BY <1>1, <3>1
    <3>3. Bit(n, k) = Shifted(n, k) - 2 * Shifted(n, k + 1) /\ Bit(n, k) \in {0, 1}
      BY <3>1, ShiftedBy
    <3>4. k + 1 \in Nat /\ Shifted(n, k + 1) \in Nat /\ Shifted(n, k) \in Nat
      <4>1. k + 1 \in Nat
        BY <3>1
      <4> QED BY <3>1, <4>1, ShiftedBy
    <3>5. Shifted(n, k + 1) # 0
      BY <3>1, <3>2, <3>3, <3>4
    <3> QED BY <2>1, <3>4, <3>5
  <2>4. A = Nat
    BY <2>1, <2>2, <2>3, InductiveSet
  <2>5. Shifted(n, n) = 0
    BY ShiftedOut
  <2> QED BY <2>1, <2>4, <2>5
<1>4. PICK z : z = Min(S)
  OBVIOUS
<1>5. z \in S
  BY <1>2, <1>3, <1>4, LeastOfNumbers
<1>6. \A h \in S : z <= h
  BY <1>2, <1>3, <1>4, LeastOfNumbers
<1>7. z \in Nat /\ Bit(n, z) = 1
  BY <1>1, <1>2, <1>5
<1>8. z < n
  <2> SUFFICES ASSUME z >= n PROVE FALSE
    BY <1>7
  <2>1. Shifted(n, z) = 0
    BY <1>7, ShiftedOut
  <2>2. 0 % 2 = 0
    OBVIOUS
  <2> QED BY <1>7, <2>1, <2>2 DEF Bit
<1>9. ASSUME NEW h \in 0 .. z - 1 PROVE Bit(n, h) = 0
  <2>1. h \in Nat /\ ~(z <= h)
    BY <1>7
  <2>2. Bit(n, h) # 1
    BY <1>1, <1>6, <2>1
  <2> QED BY <2>1, <2>2, ShiftedBy
<1>10. z \in 0 .. n - 1
  BY <1>7, <1>8
<1> QED BY <1>7, <1>9, <1>10 DEF Lowest

\* Adding one to n changes its bits as far as the lowest that is set afterwards.
LEMMA OneMore ==
    ASSUME NEW n \in Nat, NEW z \in Nat, Lowest(n + 1, z)
    PROVE  /\ \A h \in 0 .. z : Shifted(n + 1, h) = Shifted(n, h) + 1
           /\ \A h \in 0 .. z - 1 : Bit(n, h) = 1
           /\ Bit(n, z) = 0
           /\ \A h \in Nat : h > z => Shifted(n + 1, h) = Shifted(n, h)
<1>0. PICK o \in Nat : o = n + 1
  OBVIOUS
<1>1. Lowest(o, z)
  BY <1>0
<1>2. \A h \in Nat : /\ Shifted(n, h) \in Nat /\ Shifted(o, h) \in Nat
                     /\ Shifted(n, h + 1) = Shifted(n, h) \div 2
                     /\ Shifted(o, h + 1) = Shifted(o, h) \div 2
                     /\ Bit(n, h) = Shifted(n, h) - 2 * Shifted(n, h + 1) /\ Bit(n, h) \in {0, 1}
                     /\ Bit(o, h) = Shifted(o, h) - 2 * Shifted(o, h + 1) /\ Bit(o, h) \in {0, 1}
  BY ShiftedBy
<1> DEFINE A == {k \in Nat : k <= z => Shifted(o, k) = Shifted(n, k) + 1}
<1>3. A \in SUBSET Nat /\ \A k \in Nat : k \in A <=> (k <= z => Shifted(o, k) = Shifted(n, k) + 1)
  OBVIOUS
<1> HIDE DEF A
<1>4. 0 \in A
  <2>1. Shifted(n, 0) = n /\ Shifted(o, 0) = o
    BY ShiftedBy
  <2> QED BY <1>0, <1>3, <2>1
<1>5. ASSUME NEW k \in A PROVE k + 1 \in A
  <2>1. k \in Nat
    BY <1>3
  <2>2. SUFFICES ASSUME k + 1 <= z PROVE Shifted(o, k + 1) = Shifted(n, k + 1) + 1
    BY <1>3, <2>1
  <2>3. k \in 0 .. z - 1 /\ k <= z
    BY <2>1, <2>2
  <2>4. Shifted(o, k) = Shifted(n, k) + 1
    BY <1>3, <2>1, <2>3
  <2>5. Bit(o, k) = 0
    BY <1>1, <2>3 DEF Lowest
  <2>6. PICK s \in Nat, t \in Nat : s = Shifted(n, k + 1) /\ t = Shifted(o, k + 1)
    <3>1. k + 1 \in Nat
      BY <2>1
    <3> QED BY <1>2, <3>1
  <2>7. PICK u \in Nat : u = Shifted(n, k)
    BY <1>2, <2>1
  <2>8. u + 1 - 2 * t = 0 /\ (u - 2 * s = 0 \/ u - 2 * s = 1)
    <3>1. /\ Bit(n, k) = Shifted(n, k) - 2 * Shifted(n, k + 1) /\ Bit(n, k) \in {0, 1}
          /\ Bit(o, k) = Shifted(o, k) - 2 * Shifted(o, k + 1)
      BY <1>2, <2>1
    <3>2. Bit(n, k) = u - 2 * s /\ Bit(o, k) = (u + 1) - 2 * t
      BY <2>4, <2>6, <2>7, <3>1
    <3> QED BY <2>5, <3>1, <3>2
  <2>9. t = s + 1
    BY <2>8
  <2> QED BY <2>6, <2>9
<1>6. A = Nat
  BY <1>3, <1>4, <1>5, InductiveSet
<1>7. \A h \in 0 .. z : Shifted(o, h) = Shifted(n, h) + 1
  BY <1>3, <1>6
<1>8. ASSUME NEW h \in 0 .. z - 1 PROVE Bit(n, h) = 1
  <2>1. h \in Nat /\ h \in 0 .. z /\ h + 1 \in 0 .. z /\ h + 1 \in Nat
    OBVIOUS
  <2>2. Shifted(o, h) = Shifted(n, h) + 1 /\ Shifted(o, h + 1) = Shifted(n, h + 1) + 1
    BY <1>7, <2>1
  <2>3. Bit(o, h) = 0
    BY <1>1 DEF Lowest
  <2>4. Shifted(n, h) \in Nat /\ Shifted(n, h + 1) \in Nat
        /\ Bit(n, h) = Shifted(n, h) - 2 * Shifted(n, h + 1)
        /\ Bit(o, h) = Shifted(o, h) - 2 * Shifted(o, h + 1)
    BY <1>2, <2>1
  <2> QED BY <2>2, <2>3, <2>4
<1>9. Bit(n, z) = 0 /\ Shifted(o, z + 1) = Shifted(n, z + 1)
  <2>1. Shifted(o, z) = Shifted(n, z) + 1
    <3>1. z \in 0 .. z
      OBVIOUS
    <3> QED BY <1>7, <3>1
  <2>2. Bit(o, z) = 1
    BY <1>1 DEF Lowest
  <2>3. PICK s \in Nat, t \in Nat : s = Shifted(n, z + 1) /\ t = Shifted(o, z + 1)
    BY <1>2
  <2>4. PICK u \in Nat : u = Shifted(n, z)
    BY <1>2
  <2>5. u + 1 - 2 * t = 1 /\ (u - 2 * s = 0 \/ u - 2 * s = 1) /\ Bit(n, z) = u - 2 * s
    <3>1. /\ Bit(n, z) = Shifted(n, z) - 2 * Shifted(n, z + 1) /\ Bit(n, z) \in {0, 1}
          /\ Bit(o, z) = Shifted(o, z) - 2 * Shifted(o, z + 1)
      BY <1>2
    <3>2. Bit(n, z) = u - 2 * s /\ Bit(o, z) = (u + 1) - 2 * t
      BY <2>1, <2>3, <2>4, <3>1
    <3> QED BY <2>2, <3>1, <3>2
  <2>6. u - 2 * s = 0 /\ s = t
    BY <2>5
  <2> QED BY <2>3, <2>5, <2>6
<1> DEFINE B == {k \in Nat : Shifted(o, z + 1 + k) = Shifted(n, z + 1 + k)}
<1>10. B \in SUBSET Nat /\ \A k \in Nat : k \in B <=> Shifted(o, z + 1 + k) = Shifted(n, z + 1 + k)
  OBVIOUS
<1> HIDE DEF B
<1>11. 0 \in B
  <2>1. z + 1 + 0 = z + 1
    OBVIOUS
  <2> QED BY <1>9, <1>10, <2>1
<1>12. ASSUME NEW k \in B PROVE k + 1 \in B
  <2>1. k \in Nat /\ Shifted(o, z + 1 + k) = Shifted(n, z + 1 + k)
    BY <1>10
  <2>2. z + 1 + k \in Nat /\ z + 1 + (k + 1) = (z + 1 + k) + 1
    BY <2>1
  <2>3. Shifted(o, z + 1 + (k + 1)) = Shifted(n, z + 1 + (k + 1))
    BY <1>2, <2>1, <2>2
  <2> QED BY <1>10, <2>1, <2>3
<1>13. B = Nat
  BY <1>10, <1>11, <1>12, InductiveSet
<1>14. ASSUME NEW h \in Nat, h > z PROVE Shifted(o, h) = Shifted(n, h)
  <2>1. PICK k \in Nat : h = z + 1 + k
    <3>1. h - (z + 1) \in Nat /\ h = z + 1 + (h - (z + 1))
      BY <1>14
    <3> QED BY <3>1
  <2> QED BY <1>10, <1>13, <2>1
<1> QED BY <1>0, <1>7, <1>8, <1>9, <1>14

-----------------------------------------------------------------------------
(* Perfect trees and peaks.                                                 *)

\* A leaf, and a tree over two trees.
LEMMA TreeNow ==
    ASSUME NEW s, NEW h \in Nat, NEW b \in Nat
    PROVE  /\ PerfectTree(s, 0, b) = HashLeaf(s[b + 1])
           /\ PerfectTree(s, h + 1, b) = HashNode(PerfectTree(s, h, 2 * b), PerfectTree(s, h, 2 * b + 1))
<1>1. PerfectTrees(s, 0) = LeafTrees(s) /\ PerfectTrees(s, h + 1) = TreesOver(PerfectTrees(s, h))
  BY TreesUnfolds
<1>2. LeafTrees(s)[b] = HashLeaf(s[b + 1])
  BY DEF LeafTrees
<1>3. \A f : TreesOver(f)[b] = HashNode(f[2 * b], f[2 * b + 1])
  BY DEF TreesOver
<1> QED BY <1>1, <1>2, <1>3 DEF PerfectTree

\* A tree depends on its own leaves only.
LEMMA TreeFrame ==
    ASSUME NEW n \in Nat, NEW v, NEW w, \A i \in 1 .. n : v[i] = w[i],
           NEW h \in Nat, NEW b \in Nat, b < Shifted(n, h)
    PROVE  PerfectTree(v, h, b) = PerfectTree(w, h, b)
<1> DEFINE A == {k \in Nat : \A c \in Nat : c < Shifted(n, k) => PerfectTree(v, k, c) = PerfectTree(w, k, c)}
<1>1. /\ A \in SUBSET Nat
      /\ \A k \in Nat : k \in A <=>
            \A c \in Nat : c < Shifted(n, k) => PerfectTree(v, k, c) = PerfectTree(w, k, c)
  OBVIOUS
<1> HIDE DEF A
<1>2. 0 \in A
  <2> SUFFICES ASSUME NEW c \in Nat, c < Shifted(n, 0) PROVE PerfectTree(v, 0, c) = PerfectTree(w, 0, c)
    BY <1>1
  <2>1. Shifted(n, 0) = n
    BY ShiftedBy
  <2>2. c + 1 \in 1 .. n
    BY <2>1
  <2>3. 0 \in Nat
    OBVIOUS
  <2>4. PerfectTree(v, 0, c) = HashLeaf(v[c + 1]) /\ PerfectTree(w, 0, c) = HashLeaf(w[c + 1])
    BY <2>3, TreeNow
  <2> QED BY <2>2, <2>4
<1>3. ASSUME NEW k \in A PROVE k + 1 \in A
  <2>1. k \in Nat
    BY <1>1
  <2>2. SUFFICES ASSUME NEW c \in Nat, c < Shifted(n, k + 1)
                 PROVE  PerfectTree(v, k + 1, c) = PerfectTree(w, k + 1, c)
    BY <1>1, <2>1
  <2>3. PICK s \in Nat, t \in Nat : s = Shifted(n, k) /\ t = Shifted(n, k + 1)
    <3>1. k + 1 \in Nat
      BY <2>1
    <3> QED BY <2>1, <3>1, ShiftedBy
  <2>4. t = s \div 2
    BY <2>1, <2>3, ShiftedBy
  <2>5. 2 * c \in Nat /\ 2 * c + 1 \in Nat /\ 2 * c < s /\ 2 * c + 1 < s
    BY <2>2, <2>3, <2>4
  <2>6. /\ PerfectTree(v, k, 2 * c) = PerfectTree(w, k, 2 * c)
        /\ PerfectTree(v, k, 2 * c + 1) = PerfectTree(w, k, 2 * c + 1)
    BY <1>1, <2>1, <2>3, <2>5
  <2>7. /\ PerfectTree(v, k + 1, c) = HashNode(PerfectTree(v, k, 2 * c), PerfectTree(v, k, 2 * c + 1))
        /\ PerfectTree(w, k + 1, c) = HashNode(PerfectTree(w, k, 2 * c), PerfectTree(w, k, 2 * c + 1))
    BY <2>1, TreeNow
  <2> QED BY <2>6, <2>7
<1>4. A = Nat
  BY <1>1, <1>2, <1>3, InductiveSet
<1> QED BY <1>1, <1>4

\* The peak of height h over the leaves s.
PeakAt(s, h) == PerfectTree(s, h, Shifted(Len(s), h) - 1)

\* A peak where the bit is set, and none where it is not.
LEMMA PeaksNow ==
    ASSUME NEW s, NEW h \in Nat
    PROVE  /\ PeaksBelow(s, 0) = <<>>
           /\ PeaksBelow(s, h + 1) = IF Bit(Len(s), h) = 1 THEN <<PeakAt(s, h)>> \o PeaksBelow(s, h)
                                     ELSE PeaksBelow(s, h)
<1>1. PeaksBelow(s, 0) = <<>> /\ PeaksBelow(s, h + 1) = PeakOver(s, h + 1, PeaksBelow(s, h))
  BY PeaksUnfolds
<1>2. (h + 1) - 1 = h
  OBVIOUS
<1> QED BY <1>1, <1>2 DEF PeakOver, PeakAt

\* The peaks are a row, with one for each bit.
LEMMA PeaksAreSeq ==
    ASSUME NEW s, NEW b \in Nat
    PROVE  IsSeq(PeaksBelow(s, b))
<1> DEFINE A == {k \in Nat : IsSeq(PeaksBelow(s, k))}
<1>1. A \in SUBSET Nat /\ \A k \in Nat : k \in A <=> IsSeq(PeaksBelow(s, k))
  OBVIOUS
<1> HIDE DEF A
<1>2. 0 \in A
  <2>1. PeaksBelow(s, 0) = <<>>
    BY PeaksNow
  <2>2. IsSeq(PeaksBelow(s, 0))
    BY <2>1, NothingIsSeq
  <2> QED BY <1>1, <2>2
<1>3. ASSUME NEW k \in A PROVE k + 1 \in A
  <2>1. k \in Nat /\ IsSeq(PeaksBelow(s, k))
    BY <1>1
  <2>2. PICK one, p : one = <<PeakAt(s, k)>> /\ p = PeaksBelow(s, k)
    OBVIOUS
  <2>3. IsSeq(one) /\ IsSeq(p)
    BY <2>1, <2>2, OneSeq
  <2>4. IsSeq(one \o p)
    BY <2>3, JoinedSeq DEF Joins
  <2>5. PeaksBelow(s, k + 1) = one \o p \/ PeaksBelow(s, k + 1) = p
    BY <2>1, <2>2, PeaksNow
  <2>6. IsSeq(PeaksBelow(s, k + 1))
    BY <2>3, <2>4, <2>5
  <2> QED BY <1>1, <2>1, <2>6
<1>4. A = Nat
  BY <1>1, <1>2, <1>3, InductiveSet
<1> QED BY <1>1, <1>4

\* Where no bit is set there is no peak.
LEMMA NoPeaks ==
    ASSUME NEW s, NEW a \in Nat, NEW b \in Nat, a <= b, \A h \in a .. b - 1 : Bit(Len(s), h) # 1
    PROVE  PeaksBelow(s, b) = PeaksBelow(s, a)
<1> DEFINE A == {k \in Nat : a + k <= b => PeaksBelow(s, a + k) = PeaksBelow(s, a)}
<1>1. /\ A \in SUBSET Nat
      /\ \A k \in Nat : k \in A <=> (a + k <= b => PeaksBelow(s, a + k) = PeaksBelow(s, a))
  OBVIOUS
<1> HIDE DEF A
<1>2. 0 \in A
  <2>1. a + 0 = a
    OBVIOUS
  <2> QED BY <1>1, <2>1
<1>3. ASSUME NEW k \in A PROVE k + 1 \in A
  <2>1. k \in Nat
    BY <1>1
  <2>2. SUFFICES ASSUME a + (k + 1) <= b PROVE PeaksBelow(s, a + (k + 1)) = PeaksBelow(s, a)
    BY <1>1, <2>1
  <2>3. a + k <= b /\ a + k \in a .. b - 1 /\ a + k \in Nat /\ a + (k + 1) = (a + k) + 1
    BY <2>1, <2>2
  <2>4. PeaksBelow(s, a + k) = PeaksBelow(s, a)
    BY <1>1, <2>1, <2>3
  <2>5. PeaksBelow(s, (a + k) + 1) = PeaksBelow(s, a + k)
    BY <2>3, PeaksNow
  <2> QED BY <2>3, <2>4, <2>5
<1>4. A = Nat
  BY <1>1, <1>2, <1>3, InductiveSet
<1>5. PICK k \in Nat : a + k = b
  <2>1. b - a \in Nat /\ a + (b - a) = b
    OBVIOUS
  <2> QED BY <2>1
<1>6. a + k <= b => PeaksBelow(s, a + k) = PeaksBelow(s, a)
  BY <1>1, <1>4
<1> QED BY <1>5, <1>6

\* Where each bit is set there is a peak of every height.
LEMMA AllPeaks ==
    ASSUME NEW s, NEW b \in Nat, \A h \in 0 .. b - 1 : Bit(Len(s), h) = 1
    PROVE  /\ Len(PeaksBelow(s, b)) = b
           /\ \A i \in 1 .. b : PeaksBelow(s, b)[i] = PeakAt(s, b - i)
<1> DEFINE Good(k) == Len(PeaksBelow(s, k)) = k /\ \A i \in 1 .. k : PeaksBelow(s, k)[i] = PeakAt(s, k - i)
           A == {k \in Nat : k <= b => Good(k)}
<1>1. A \in SUBSET Nat /\ \A k \in Nat : k \in A <=> (k <= b => Good(k))
  OBVIOUS
<1> HIDE DEF A
<1>2. 0 \in A
  <2>1. PeaksBelow(s, 0) = <<>>
    BY PeaksNow
  <2>2. Len(PeaksBelow(s, 0)) = 0
    BY <2>1, NothingIsSeq
  <2>3. \A i \in 1 .. 0 : FALSE
    OBVIOUS
  <2> QED BY <1>1, <2>2, <2>3
<1>3. ASSUME NEW k \in A PROVE k + 1 \in A
  <2>1. k \in Nat
    BY <1>1
  <2>2. SUFFICES ASSUME k + 1 <= b PROVE Good(k + 1)
    BY <1>1, <2>1
  <2>3. k <= b /\ k \in 0 .. b - 1
    BY <2>1, <2>2
  <2>4. PICK p, one, q : p = PeaksBelow(s, k) /\ one = <<PeakAt(s, k)>> /\ q = PeaksBelow(s, k + 1)
    OBVIOUS
  <2>5. q = one \o p
    <3>1. Bit(Len(s), k) = 1
      BY <2>3
    <3> QED BY <2>1, <2>4, <3>1, PeaksNow
  <2>6. IsSeq(p) /\ IsSeq(one) /\ Len(one) = 1 /\ one[1] = PeakAt(s, k)
    BY <2>1, <2>4, PeaksAreSeq, OneSeq
  <2>7. Len(p) = k /\ \A i \in 1 .. k : p[i] = PeakAt(s, k - i)
    BY <1>1, <2>1, <2>3, <2>4
  <2>8. Joins(q, one, p)
    BY <2>5, <2>6, JoinedSeq
  <2>9. Len(q) = k + 1
    BY <2>1, <2>6, <2>7, <2>8 DEF Joins
  <2>10. ASSUME NEW i \in 1 .. k + 1 PROVE q[i] = PeakAt(s, (k + 1) - i)
    <3>1. CASE i = 1
      <4>1. 1 \in 1 .. 1 /\ (k + 1) - 1 = k
        BY <2>1
      <4> QED BY <2>6, <2>8, <3>1, <4>1 DEF Joins
    <3>2. CASE i # 1
      <4>1. i - 1 \in 1 .. k /\ 1 + (i - 1) = i /\ k - (i - 1) = (k + 1) - i
        BY <2>1, <3>2
      <4>2. q[1 + (i - 1)] = p[i - 1]
        BY <2>6, <2>7, <2>8, <4>1 DEF Joins
      <4> QED BY <2>7, <4>1, <4>2
    <3> QED BY <3>1, <3>2
  <2> QED BY <2>4, <2>9, <2>10
<1>4. A = Nat
  BY <1>1, <1>2, <1>3, InductiveSet
<1>5. Good(b)
  <2> HIDE DEF Good
  <2> QED BY <1>1, <1>4
<1> QED BY <1>5

\* Above the lowest bit that a further leaf sets nothing but the carry is new.
HighPeaks(w, v, z, b, hi) ==
    /\ IsSeq(hi)
    /\ PeaksBelow(w, b) = hi \o PeaksBelow(w, z)
    /\ b > z => PeaksBelow(v, b) = Append(hi, PeakAt(v, z))

\* v is w and one leaf more.
OneLonger(w, v, n) == Len(w) = n /\ Len(v) = n + 1 /\ \A i \in 1 .. n : v[i] = w[i]

\* Appending puts a row of one next to the other.
LEMMA AppendIsJoin ==
    ASSUME NEW a, IsSeq(a), NEW x, NEW one, one = <<x>>
    PROVE  Append(a, x) = a \o one
<1>1. PICK c : c = Append(a, x)
  OBVIOUS
<1>2. IsSeq(one) /\ Len(one) = 1 /\ one[1] = x
  BY OneSeq
<1>3. /\ IsSeq(c) /\ Len(a) \in Nat /\ Len(c) = Len(a) + 1
      /\ (\A i \in 1 .. Len(a) : c[i] = a[i]) /\ c[Len(a) + 1] = x
  BY <1>1, Appended
<1>4. \A i \in 1 .. 1 : i = 1
  OBVIOUS
<1>5. Joins(c, a, one)
  BY <1>2, <1>3, <1>4 DEF Joins
<1> QED BY <1>1, <1>2, <1>5, JoinOf

\* A peak of either half that is above the carry is the same tree.
LEMMA SamePeak ==
    ASSUME NEW n \in Nat, NEW w, NEW v, OneLonger(w, v, n), NEW z \in Nat, Lowest(n + 1, z),
           NEW h \in Nat, h > z
    PROVE  /\ Bit(n + 1, h) = Bit(n, h)
           /\ Bit(n, h) = 1 => PeakAt(v, h) = PeakAt(w, h)
<1>1. PICK o \in Nat : o = n + 1
  OBVIOUS
<1>2. Shifted(o, h) = Shifted(n, h)
  BY <1>1, OneMore
<1>3. Len(w) = n /\ Len(v) = o /\ \A i \in 1 .. n : v[i] = w[i]
  BY <1>1 DEF OneLonger
<1>4. ASSUME Bit(n, h) = 1 PROVE PeakAt(v, h) = PeakAt(w, h)
  <2>1. PICK s \in Nat : s = Shifted(n, h)
    BY ShiftedBy
  <2>2. s # 0
    <3>1. 0 % 2 = 0
      OBVIOUS
    <3> QED BY <1>4, <2>1, <3>1 DEF Bit
  <2>3. s - 1 \in Nat /\ s - 1 < s
    BY <2>2
  <2>4. PerfectTree(v, h, s - 1) = PerfectTree(w, h, s - 1)
    BY <1>3, <2>1, <2>3, TreeFrame
  <2> QED BY <1>2, <1>3, <2>1, <2>4 DEF PeakAt
<1> QED BY <1>1, <1>2, <1>4 DEF Bit

\* The peaks below a height are those between, and those below.
LEMMA PeaksSplit ==
    ASSUME NEW n \in Nat, NEW w, NEW v, OneLonger(w, v, n), NEW z \in Nat, Lowest(n + 1, z),
           NEW b \in Nat, b >= z
    PROVE  \E hi : HighPeaks(w, v, z, b, hi)
<1>0. PICK o \in Nat : o = n + 1
  OBVIOUS
<1>1. Len(w) = n /\ Len(v) = o /\ \A i \in 1 .. n : v[i] = w[i]
  BY <1>0 DEF OneLonger
<1>2. PICK low : low = PeaksBelow(w, z)
  OBVIOUS
<1>3. IsSeq(low)
  BY <1>2, PeaksAreSeq
<1> DEFINE A == {k \in Nat : \E hi : HighPeaks(w, v, z, z + k, hi)}
<1>4. A \in SUBSET Nat /\ \A k \in Nat : k \in A <=> \E hi : HighPeaks(w, v, z, z + k, hi)
  OBVIOUS
<1> HIDE DEF A
<1>5. PICK nothing : nothing = <<>>
  OBVIOUS
<1>6. IsSeq(nothing) /\ Len(nothing) = 0
  BY <1>5, NothingIsSeq
<1>7. nothing \o low = low
  BY <1>3, <1>6, JoinEmpty
<1>8. 0 \in A
  <2>1. z + 0 = z /\ ~(z > z)
    OBVIOUS
  <2>2. HighPeaks(w, v, z, z, nothing)
    BY <1>2, <1>6, <1>7, <2>1 DEF HighPeaks
  <2> QED BY <1>4, <2>1, <2>2
<1>9. 1 \in A
  <2>1. Bit(n, z) = 0
    BY OneMore
  <2>2. PeaksBelow(w, z + 1) = low
    <3>1. Bit(Len(w), z) # 1
      BY <1>1, <2>1
    <3>2. PeaksBelow(w, z + 1) = PeaksBelow(w, z)
      BY <3>1, PeaksNow
    <3> QED BY <1>2, <3>2
  <2>3. Bit(o, z) = 1 /\ \A h \in 0 .. z - 1 : Bit(o, h) = 0
    BY <1>0 DEF Lowest
  <2>4. PeaksBelow(v, z) = nothing
    <3>1. \A h \in 0 .. z - 1 : Bit(Len(v), h) # 1
      BY <1>1, <2>3
    <3>2. 0 \in Nat /\ 0 <= z
      OBVIOUS
    <3>3. PeaksBelow(v, z) = PeaksBelow(v, 0)
      BY <3>1, <3>2, NoPeaks
    <3> QED BY <1>5, <3>3, PeaksNow
  <2>5. PICK one : one = <<PeakAt(v, z)>>
    OBVIOUS
  <2>6. PeaksBelow(v, z + 1) = one \o nothing
    <3>1. Bit(Len(v), z) = 1
      BY <1>1, <2>3
    <3>2. PeaksBelow(v, z + 1) = <<PeakAt(v, z)>> \o PeaksBelow(v, z)
      BY <3>1, PeaksNow
    <3> QED BY <2>4, <2>5, <3>2
  <2>7. one \o nothing = one /\ nothing \o one = one
    BY <1>6, <2>5, OneSeq, JoinEmpty
  <2>8. Append(nothing, PeakAt(v, z)) = nothing \o one
    BY <1>6, <2>5, AppendIsJoin
  <2>9. HighPeaks(w, v, z, z + 1, nothing)
    BY <1>2, <1>6, <1>7, <2>2, <2>6, <2>7, <2>8 DEF HighPeaks
  <2> QED BY <1>4, <2>9
<1>10. ASSUME NEW k \in A PROVE k + 1 \in A
  <2>1. k \in Nat
    BY <1>4
  <2>2. CASE k = 0
    BY <1>9, <2>2
  <2>3. CASE k # 0
    <3>1. PICK h \in Nat : h = z + k /\ h > z /\ z + (k + 1) = h + 1 /\ h + 1 > z
      BY <2>1, <2>3
    <3>2. PICK hi : HighPeaks(w, v, z, h, hi)
      BY <1>4, <2>1, <3>1
    <3>3. PICK p, q : p = PeaksBelow(w, h) /\ q = PeaksBelow(v, h)
      OBVIOUS
    <3>4. IsSeq(hi) /\ p = hi \o low /\ q = Append(hi, PeakAt(v, z))
      BY <1>2, <3>1, <3>2, <3>3 DEF HighPeaks
    <3>5. Bit(o, h) = Bit(n, h) /\ (Bit(n, h) = 1 => PeakAt(v, h) = PeakAt(w, h))
      BY <1>0, <3>1, SamePeak
    <3>6. CASE Bit(n, h) = 1
      <4>1. PICK one, c : one = <<PeakAt(w, h)>> /\ c = <<PeakAt(v, z)>>
        OBVIOUS
      <4>2. PICK hi2 : hi2 = one \o hi
        OBVIOUS
      <4>3. IsSeq(one) /\ IsSeq(c) /\ IsSeq(hi2)
        <5>1. IsSeq(one) /\ IsSeq(c)
          BY <4>1, OneSeq
        <5> QED BY <3>4, <4>2, <5>1, JoinedSeq DEF Joins
      <4>4. PeaksBelow(w, h + 1) = one \o p
        BY <1>1, <3>3, <3>6, <4>1, PeaksNow
      <4>5. hi2 \o low = one \o p
        BY <1>3, <3>4, <4>2, <4>3, JoinsAssoc
      <4>6. PeaksBelow(v, h + 1) = one \o q
        BY <1>1, <3>3, <3>5, <3>6, <4>1, PeaksNow
      <4>7. q = hi \o c
        BY <3>4, <4>1, AppendIsJoin
      <4>8. hi2 \o c = one \o q
        BY <3>4, <4>2, <4>3, <4>7, JoinsAssoc
      <4>9. Append(hi2, PeakAt(v, z)) = hi2 \o c
        BY <4>1, <4>3, AppendIsJoin
      <4>10. HighPeaks(w, v, z, h + 1, hi2)
        BY <1>2, <4>3, <4>4, <4>5, <4>6, <4>8, <4>9 DEF HighPeaks
      <4> QED BY <1>4, <2>1, <3>1, <4>10
    <3>7. CASE Bit(n, h) # 1
      <4>1. PeaksBelow(w, h + 1) = p /\ PeaksBelow(v, h + 1) = q
        BY <1>1, <3>3, <3>5, <3>7, PeaksNow
      <4>2. HighPeaks(w, v, z, h + 1, hi)
        BY <1>2, <3>4, <4>1 DEF HighPeaks
      <4> QED BY <1>4, <2>1, <3>1, <4>2
    <3> QED BY <3>6, <3>7
  <2> QED BY <2>2, <2>3
<1>11. A = Nat
  BY <1>4, <1>8, <1>10, InductiveSet
<1>12. PICK k \in Nat : z + k = b
  <2>1. b - z \in Nat /\ z + (b - z) = b
    OBVIOUS
  <2> QED BY <2>1
<1> QED BY <1>4, <1>11, <1>12

-----------------------------------------------------------------------------
(* An append makes the peaks of the longer row.                             *)

\* The leaf that is carried over the peaks below k makes the peak of height k.
LEMMA CarryTrees ==
    ASSUME NEW n \in Nat, NEW w, NEW v, OneLonger(w, v, n), NEW z \in Nat, Lowest(n + 1, z),
           NEW k \in 0 .. z
    PROVE  /\ Len(PeaksBelow(w, k)) = k
           /\ Carry(PeaksBelow(w, k), HashLeaf(v[n + 1])) = PeakAt(v, k)
<1>0. PICK o \in Nat : o = n + 1
  OBVIOUS
<1>1. Len(w) = n /\ Len(v) = o /\ \A i \in 1 .. n : v[i] = w[i]
  BY <1>0 DEF OneLonger
<1>2. PICK low : low = PeaksBelow(w, k)
  OBVIOUS
<1>3. k \in Nat /\ \A h \in 0 .. k - 1 : h \in 0 .. z - 1
  OBVIOUS
<1>4. Len(low) = k /\ \A i \in 1 .. k : low[i] = PeakAt(w, k - i)
  <2>1. \A h \in 0 .. k - 1 : Bit(Len(w), h) = 1
    BY <1>1, <1>3, OneMore
  <2> QED BY <1>2, <1>3, <2>1, AllPeaks
<1>5. PICK t : t = HashLeaf(v[n + 1])
  OBVIOUS
<1>6. PICK f : Carrying(f, low, t, k) /\ Carry(low, t) = f[k]
  BY <1>3, <1>4, CarryingExists
<1> DEFINE A == {j \in Nat : j <= k => f[j] = PeakAt(v, j)}
<1>7. A \in SUBSET Nat /\ \A j \in Nat : j \in A <=> (j <= k => f[j] = PeakAt(v, j))
  OBVIOUS
<1> HIDE DEF A
<1>8. 0 \in A
  <2>1. f[0] = t
    BY <1>6 DEF Carrying
  <2>2. Shifted(o, 0) - 1 = n
    <3>1. Shifted(o, 0) = o
      BY ShiftedBy
    <3> QED BY <1>0, <3>1
  <2>3. PeakAt(v, 0) = HashLeaf(v[n + 1])
    <3>1. PeakAt(v, 0) = PerfectTree(v, 0, n)
      BY <1>1, <2>2 DEF PeakAt
    <3>2. 0 \in Nat
      OBVIOUS
    <3> QED BY <3>1, <3>2, TreeNow
  <2> QED BY <1>5, <1>7, <2>1, <2>3
<1>9. ASSUME NEW j \in A PROVE j + 1 \in A
  <2>1. j \in Nat
    BY <1>7
  <2>2. SUFFICES ASSUME j + 1 <= k PROVE f[j + 1] = PeakAt(v, j + 1)
    BY <1>7, <2>1
  <2>3. /\ j + 1 \in 1 .. k /\ (j + 1) - 1 = j /\ j <= k /\ k - j \in 1 .. k /\ k - (k - j) = j
        /\ k - (j + 1) + 1 = k - j /\ j \in 0 .. z /\ j + 1 \in 0 .. z /\ j \in 0 .. z - 1
        /\ j + 1 \in Nat
    BY <1>3, <2>1, <2>2
  <2>4. f[j] = PeakAt(v, j)
    BY <1>7, <2>1, <2>3
  <2>5. f[j + 1] = HashNode(low[k - j], f[j])
    <3>1. f[j + 1] = Carried(low, j + 1, f[j])
      BY <1>6, <2>3 DEF Carrying
    <3> QED BY <1>4, <2>3, <3>1 DEF Carried
  <2>6. low[k - j] = PeakAt(w, j)
    BY <1>4, <2>3
  <2>7. PICK u \in Nat, s \in Nat : u = Shifted(o, j) /\ s = Shifted(o, j + 1)
    BY <2>1, <2>3, ShiftedBy
  <2>8. Shifted(n, j) + 1 = u /\ Shifted(n, j + 1) + 1 = s /\ Shifted(n, j) \in Nat /\ Shifted(n, j + 1) \in Nat
    <3>1. \A h \in 0 .. z : Shifted(o, h) = Shifted(n, h) + 1
      BY <1>0, OneMore
    <3> QED BY <2>1, <2>3, <2>7, <3>1, ShiftedBy
  <2>9. u = 2 * s
    <3>1. Bit(o, j) = 0
      BY <1>0, <2>3 DEF Lowest
    <3>2. Bit(o, j) = Shifted(o, j) - 2 * Shifted(o, j + 1)
      BY <2>1, ShiftedBy
    <3> QED BY <2>7, <3>1, <3>2
  <2>10. PICK c \in Nat : c = s - 1
    BY <2>8
  <2>11. 2 * c = Shifted(n, j) - 1 /\ 2 * c \in Nat /\ 2 * c < Shifted(n, j) /\ 2 * c + 1 = u - 1
    BY <2>8, <2>9, <2>10
  <2>12. PeakAt(w, j) = PerfectTree(v, j, 2 * c)
    <3>1. PeakAt(w, j) = PerfectTree(w, j, 2 * c)
      BY <1>1, <2>11 DEF PeakAt
    <3>2. PerfectTree(v, j, 2 * c) = PerfectTree(w, j, 2 * c)
      BY <1>1, <2>1, <2>11, TreeFrame
    <3> QED BY <3>1, <3>2
  <2>13. PeakAt(v, j) = PerfectTree(v, j, 2 * c + 1) /\ PeakAt(v, j + 1) = PerfectTree(v, j + 1, c)
    BY <1>1, <2>7, <2>10, <2>11 DEF PeakAt
  <2>14. PerfectTree(v, j + 1, c) = HashNode(PerfectTree(v, j, 2 * c), PerfectTree(v, j, 2 * c + 1))
    BY <2>1, TreeNow
  <2> QED BY <2>4, <2>5, <2>6, <2>12, <2>13, <2>14
<1>10. A = Nat
  BY <1>7, <1>8, <1>9, InductiveSet
<1> QED BY <1>2, <1>3, <1>4, <1>5, <1>6, <1>7, <1>10

\* The loop of mmr.go merges as many peaks as there are low bits not set, or all.
LEMMA MergesFew ==
    ASSUME NEW o \in Nat, NEW z \in Nat, Lowest(o, z), NEW len \in Nat
    PROVE  Merges(o, len, 1) = IF len < z THEN len ELSE z
<1>1. Max({0, len - 1 + 1}) = len
  <2>1. \A x \in {0, len - 1 + 1} : (\A y \in {0, len - 1 + 1} : x >= y) <=> x = len
    OBVIOUS
  <2>2. len \in {0, len - 1 + 1}
    OBVIOUS
  <2> QED BY <2>1, <2>2 DEF Max
<1> DEFINE S == {len} \cup {h \in 0 .. len : Bit(o, h) = 1}
<1>2. S \in SUBSET Nat /\ S # {} /\ len \in S
  OBVIOUS
<1>3. Merges(o, len, 1) = Min(S)
  BY <1>1 DEF Merges
<1>4. \A h \in S : h = len \/ (h \in 0 .. len /\ Bit(o, h) = 1)
  OBVIOUS
<1>5. z <= len => z \in S
  BY DEF Lowest
<1> HIDE DEF S
<1>6. PICK x : x = Min(S)
  OBVIOUS
<1>7. x \in S /\ \A h \in S : x <= h
  BY <1>2, <1>6, LeastOfNumbers
<1>8. x \in Nat /\ x <= len
  BY <1>2, <1>7
<1>9. x < z => x = len
  <2> SUFFICES ASSUME x < z, x # len PROVE FALSE
    OBVIOUS
  <2>1. Bit(o, x) = 1
    BY <1>4, <1>7
  <2>2. x \in 0 .. z - 1
    BY <1>8
  <2> QED BY <2>1, <2>2 DEF Lowest
<1>10. z <= len => x <= z
  BY <1>5, <1>7
<1> QED BY <1>3, <1>6, <1>8, <1>9, <1>10

\* The peaks that are merged with, and those that are kept.
PeaksParted(m, hi, low) ==
    /\ IsSeq(hi) /\ IsSeq(low) /\ m.peaks = hi \o low
    /\ Len(low) = Merges(m.count + 1, Len(m.peaks), 1)

\* The leaf is carried over the ones and put after the others.
LEMMA PushOver ==
    ASSUME NEW m, NEW hi, NEW low, PeaksParted(m, hi, low), NEW x
    PROVE  Push(m, x, 1) = [peaks |-> Append(hi, Carry(low, HashLeaf(x))), count |-> m.count + 1]
<1>0. /\ IsSeq(hi) /\ IsSeq(low) /\ m.peaks = hi \o low
      /\ Len(low) = Merges(m.count + 1, Len(m.peaks), 1)
  BY DEF PeaksParted
<1>1. PICK p : p = m.peaks
  OBVIOUS
<1>2. Joins(p, hi, low)
  BY <1>0, <1>1, JoinedSeq
<1>3. PICK k \in Nat, l \in Nat, n \in Nat : k = Len(hi) /\ l = Len(low) /\ n = Len(p) /\ n = k + l
  <2>1. Len(hi) \in Nat /\ Len(low) \in Nat /\ Len(p) = Len(hi) + Len(low)
    BY <1>2, Appended DEF Joins
  <2> QED BY <2>1
<1>4. PICK a, b : a = SubSeq(p, 1, k) /\ b = SubSeq(p, k + 1, n)
  OBVIOUS
<1>5. Divided(p, n, k, a, b)
  <2>1. k \in 0 .. n /\ IsSeq(p)
    BY <1>2, <1>3 DEF Joins
  <2> QED BY <1>3, <1>4, <2>1, Parts, Zenon
<1>6. a = hi
  <2>1. IsSeq(a) /\ Len(a) = k /\ \A i \in 1 .. k : a[i] = p[i]
    BY <1>5 DEF Divided
  <2>2. \A i \in 1 .. k : p[i] = hi[i]
    BY <1>2, <1>3 DEF Joins
  <2>3. \A i \in 1 .. Len(a) : a[i] = hi[i]
    BY <2>1, <2>2
  <2> QED BY <1>0, <1>3, <2>1, <2>3, SameSeq
<1>7. b = low
  <2>1. n - k = l
    BY <1>3
  <2>2. IsSeq(b) /\ Len(b) = l /\ \A i \in 1 .. l : b[i] = p[k + i]
    BY <1>5, <2>1 DEF Divided
  <2>3. \A i \in 1 .. l : p[k + i] = low[i]
    BY <1>2, <1>3 DEF Joins
  <2>4. \A i \in 1 .. Len(b) : b[i] = low[i]
    BY <2>2, <2>3
  <2> QED BY <1>0, <1>3, <2>2, <2>4, SameSeq
<1>8. Len(p) - Merges(m.count + 1, Len(p), 1) = k
  BY <1>0, <1>1, <1>3
<1> QED BY <1>1, <1>3, <1>4, <1>6, <1>7, <1>8 DEF Push

\* The first of two rows side by side.
LEMMA TailOfJoin ==
    ASSUME NEW p, IsSeq(p), NEW one, NEW x, one = <<x>>
    PROVE  Tail(one \o p) = p
<1>1. IsSeq(one) /\ Len(one) = 1
  BY OneSeq
<1>2. PICK q : q = one \o p
  OBVIOUS
<1>3. Joins(q, one, p)
  BY <1>1, <1>2, JoinedSeq
<1>4. PICK n \in Nat : n = Len(p) /\ Len(q) = n + 1
  <2>1. Len(p) \in Nat /\ Len(q) = 1 + Len(p)
    BY <1>1, <1>3, Appended DEF Joins
  <2> QED BY <2>1
<1>5. IsSeq(Tail(q)) /\ Len(Tail(q)) = n /\ \A i \in 1 .. n : Tail(q)[i] = q[i + 1]
  <2> DEFINE S == {q[i] : i \in DOMAIN q}
  <2>1. q \in Seq(S)
    BY <1>3 DEF IsSeq, Joins
  <2> HIDE DEF S
  <2>2. q # <<>>
    BY <1>4, <2>1
  <2>3. Tail(q) \in Seq(S) /\ Len(Tail(q)) = n /\ \A i \in 1 .. n : Tail(q)[i] = q[i + 1]
    BY <1>4, <2>1, <2>2
  <2> QED BY <2>3, SeqIsSeq
<1>6. \A i \in 1 .. n : q[1 + i] = p[i] /\ 1 + i = i + 1
  BY <1>1, <1>3, <1>4 DEF Joins
<1>7. \A i \in 1 .. n : Tail(q)[i] = p[i]
  <2>1. \A i \in 1 .. n : q[i + 1] = p[i]
    BY <1>6
  <2> QED BY <1>5, <2>1
<1> QED BY <1>2, <1>4, <1>5, <1>7, SameSeq

\* The peaks but the highest.
LEMMA TailOfPeaks ==
    ASSUME NEW s, NEW b \in Nat, Len(PeaksBelow(s, b)) > 0
    PROVE  \E c \in Nat : Tail(PeaksBelow(s, b)) = PeaksBelow(s, c)
<1> DEFINE Good(k) == \E c \in Nat : Tail(PeaksBelow(s, k)) = PeaksBelow(s, c)
           A == {k \in Nat : Len(PeaksBelow(s, k)) > 0 => Good(k)}
<1>1. A \in SUBSET Nat /\ \A k \in Nat : k \in A <=> (Len(PeaksBelow(s, k)) > 0 => Good(k))
  OBVIOUS
<1> HIDE DEF A
<1>2. 0 \in A
  <2>1. PeaksBelow(s, 0) = <<>>
    BY PeaksNow
  <2>2. Len(PeaksBelow(s, 0)) = 0
    BY <2>1, NothingIsSeq
  <2> QED BY <1>1, <2>2
<1>3. ASSUME NEW k \in A PROVE k + 1 \in A
  <2>1. k \in Nat
    BY <1>1
  <2>2. CASE Bit(Len(s), k) = 1
    <3>1. PICK one, p : one = <<PeakAt(s, k)>> /\ p = PeaksBelow(s, k)
      OBVIOUS
    <3>2. PeaksBelow(s, k + 1) = one \o p
      BY <2>1, <2>2, <3>1, PeaksNow
    <3>3. IsSeq(p)
      BY <2>1, <3>1, PeaksAreSeq
    <3>4. Tail(one \o p) = p
      BY <3>1, <3>3, TailOfJoin
    <3>5. Good(k + 1)
      BY <2>1, <3>1, <3>2, <3>4
    <3> QED BY <1>1, <2>1, <3>5
  <2>3. CASE Bit(Len(s), k) # 1
    <3>1. PeaksBelow(s, k + 1) = PeaksBelow(s, k)
      BY <2>1, <2>3, PeaksNow
    <3>2. Good(k) => Good(k + 1)
      BY <3>1
    <3> HIDE DEF Good
    <3> QED BY <1>1, <2>1, <3>1, <3>2
  <2> QED BY <2>2, <2>3
<1>4. A = Nat
  BY <1>1, <1>2, <1>3, InductiveSet
<1>5. Good(b)
  <2> HIDE DEF Good
  <2> QED BY <1>1, <1>4
<1> QED BY <1>5

\* The peaks of a range are those of its heights.
LEMMA PeaksAreTrees ==
    ASSUME NEW s, NEW b \in Nat
    PROVE  \A i \in 1 .. Len(PeaksBelow(s, b)) :
              \E h \in Nat : Bit(Len(s), h) = 1 /\ PeaksBelow(s, b)[i] = PeakAt(s, h)
<1> DEFINE Tree(t) == \E h \in Nat : Bit(Len(s), h) = 1 /\ t = PeakAt(s, h)
           A == {k \in Nat : \A i \in 1 .. Len(PeaksBelow(s, k)) : Tree(PeaksBelow(s, k)[i])}
<1>1. /\ A \in SUBSET Nat
      /\ \A k \in Nat : k \in A <=> \A i \in 1 .. Len(PeaksBelow(s, k)) : Tree(PeaksBelow(s, k)[i])
  OBVIOUS
<1> HIDE DEF A
<1>2. 0 \in A
  <2>1. PeaksBelow(s, 0) = <<>>
    BY PeaksNow
  <2>2. Len(PeaksBelow(s, 0)) = 0
    BY <2>1, NothingIsSeq
  <2>3. \A i \in 1 .. 0 : FALSE
    OBVIOUS
  <2> QED BY <1>1, <2>2, <2>3
<1>3. ASSUME NEW k \in A PROVE k + 1 \in A
  <2>1. k \in Nat /\ \A i \in 1 .. Len(PeaksBelow(s, k)) : Tree(PeaksBelow(s, k)[i])
    BY <1>1
  <2>2. CASE Bit(Len(s), k) = 1
    <3>1. PICK one, p, q : one = <<PeakAt(s, k)>> /\ p = PeaksBelow(s, k) /\ q = PeaksBelow(s, k + 1)
      OBVIOUS
    <3>2. q = one \o p
      BY <2>1, <2>2, <3>1, PeaksNow
    <3>3. IsSeq(p) /\ IsSeq(one) /\ Len(one) = 1 /\ one[1] = PeakAt(s, k)
      BY <2>1, <3>1, PeaksAreSeq, OneSeq
    <3>4. Joins(q, one, p)
      BY <3>2, <3>3, JoinedSeq
    <3>5. PICK l \in Nat : l = Len(p)
      BY <3>3, Appended
    <3>6. Len(q) = 1 + l
      BY <3>3, <3>4, <3>5 DEF Joins
    <3>7. ASSUME NEW i \in 1 .. 1 + l PROVE Tree(q[i])
      <4>1. CASE i = 1
        <5>1. 1 \in 1 .. 1
          OBVIOUS
        <5>2. q[i] = PeakAt(s, k)
          BY <3>3, <3>4, <4>1, <5>1 DEF Joins
        <5> QED BY <2>1, <2>2, <5>2
      <4>2. CASE i # 1
        <5>1. PICK j \in 1 .. l : i = 1 + j
          <6>1. i - 1 \in 1 .. l /\ i = 1 + (i - 1)
            BY <3>5, <4>2
          <6> QED BY <6>1
        <5>2. q[i] = p[j]
          BY <3>3, <3>4, <3>5, <5>1 DEF Joins
        <5>3. Tree(p[j])
          BY <2>1, <3>1, <3>5
        <5> QED BY <5>2, <5>3
      <4> QED BY <4>1, <4>2
    <3> HIDE DEF Tree
    <3>8. \A i \in 1 .. Len(PeaksBelow(s, k + 1)) : Tree(PeaksBelow(s, k + 1)[i])
      BY <3>1, <3>6, <3>7
    <3> QED BY <1>1, <2>1, <3>8
  <2>3. CASE Bit(Len(s), k) # 1
    <3>1. PeaksBelow(s, k + 1) = PeaksBelow(s, k)
      BY <2>1, <2>3, PeaksNow
    <3> HIDE DEF Tree
    <3>2. \A i \in 1 .. Len(PeaksBelow(s, k + 1)) : Tree(PeaksBelow(s, k + 1)[i])
      BY <2>1, <3>1
    <3> QED BY <1>1, <2>1, <3>2
  <2> QED BY <2>2, <2>3
<1>4. A = Nat
  BY <1>1, <1>2, <1>3, InductiveSet
<1>5. \A i \in 1 .. Len(PeaksBelow(s, b)) : Tree(PeaksBelow(s, b)[i])
  <2> HIDE DEF Tree
  <2> QED BY <1>1, <1>4
<1> QED BY <1>5

-----------------------------------------------------------------------------
(* The window of the field.                                                 *)

\* A peak that found none to merge with: dropping left a single one, and leaves came until
\* it was merged with all there was.
Alone(m, w, max) ==
    /\ 0 < max /\ max < Len(w) /\ Bit(Len(w), 0) = 0
    /\ \E b \in Nat : Shifted(Len(w), b) >= 1 /\ m.peaks = <<PeakAt(w, b)>>

\* The peaks are those of the range, without the highest if some were dropped.
InRange(m, w, max) ==
    \E b \in Nat : m.peaks = PeaksBelow(w, b) /\ (b >= Len(w) \/ (0 < max /\ max < Len(w)))

RangeOK(m, w, max) == m.count = Len(w) /\ (InRange(m, w, max) \/ Alone(m, w, max))

\* What is left of a range once the oldest peak may go.
LEMMA DropKeepsRange ==
    ASSUME NEW q, NEW v, NEW max \in Nat, NEW o \in Nat, Len(v) = o, q.count = o,
           q = [peaks |-> q.peaks, count |-> q.count], IsSeq(q.peaks), InRange(q, v, max),
           NEW r, r = IF max > 0 /\ q.count > max /\ Len(q.peaks) > 1
                      THEN [q EXCEPT !.peaks = Tail(@)] ELSE q
    PROVE  RangeOK(r, v, max)
<1>1. PICK b \in Nat : q.peaks = PeaksBelow(v, b) /\ (b >= o \/ (0 < max /\ max < o))
  BY DEF InRange
<1>2. CASE max > 0 /\ o > max /\ Len(q.peaks) > 1
  <2>1. r = [q EXCEPT !.peaks = Tail(@)]
    BY <1>2
  <2>2. r = [peaks |-> Tail(q.peaks), count |-> o]
    BY <2>1
  <2>3. PICK c \in Nat : Tail(PeaksBelow(v, b)) = PeaksBelow(v, c)
    <3>1. Len(PeaksBelow(v, b)) > 0
      <4>1. Len(q.peaks) \in Nat
        BY Appended
      <4> QED BY <1>1, <1>2, <4>1
    <3> QED BY <3>1, TailOfPeaks
  <2>4. r.peaks = PeaksBelow(v, c) /\ r.count = o
    <3>1. PICK t : t = Tail(q.peaks)
      OBVIOUS
    <3>2. r = [peaks |-> t, count |-> o]
      BY <2>2, <3>1
    <3>3. t = PeaksBelow(v, c)
      BY <1>1, <2>3, <3>1
    <3> QED BY ONLY <3>2, <3>3
  <2>5. InRange(r, v, max)
    BY <1>2, <2>4 DEF InRange
  <2> QED BY <2>4, <2>5 DEF RangeOK
<1>3. CASE ~(max > 0 /\ o > max /\ Len(q.peaks) > 1)
  <2>1. r = q
    BY <1>3
  <2> QED BY <2>1 DEF RangeOK
<1> QED BY <1>2, <1>3

\* An append keeps the range, whatever it merges and drops.
LEMMA AppendKeepsRange ==
    ASSUME NEW m, FieldOK(m), NEW n \in Nat, NEW w, NEW v, OneLonger(w, v, n), NEW max \in Nat,
           RangeOK(m, w, max)
    PROVE  RangeOK(AppendLeaf(m, v[n + 1], max), v, max)
<1>1. PICK o \in Nat : o = n + 1
  OBVIOUS
<1>2. Len(w) = n /\ Len(v) = o /\ m.count = n
  BY <1>1 DEF OneLonger, RangeOK
<1>3. PICK z \in 0 .. n : Lowest(o, z)
  <2>1. PICK y \in 0 .. o - 1 : Lowest(o, y)
    BY <1>1, LowestBit
  <2>2. y \in 0 .. n
    BY <1>1
  <2> QED BY <2>1, <2>2
<1>4. z \in Nat /\ z <= n
  OBVIOUS
<1>5. PICK x, leaf : x = v[n + 1] /\ leaf = HashLeaf(v[n + 1])
  OBVIOUS
<1>6. PICK p : p = m.peaks
  OBVIOUS
<1>7. PICK q : q = Push(m, x, 1)
  OBVIOUS
<1>8. PICK r : r = AppendLeaf(m, x, max)
  OBVIOUS
<1>9. r = IF max > 0 /\ q.count > max /\ Len(q.peaks) > 1 THEN [q EXCEPT !.peaks = Tail(@)] ELSE q
  BY <1>7, <1>8 DEF AppendLeaf
<1>10. Bit(n, z) = 0 /\ \A h \in 0 .. z - 1 : Bit(n, h) = 1
  BY <1>1, <1>3, <1>4, OneMore
<1>11. ASSUME NEW len \in Nat PROVE Merges(o, len, 1) = IF len < z THEN len ELSE z
  BY <1>3, <1>4, MergesFew
<1>12. ASSUME NEW b \in Nat, b > z, p = PeaksBelow(w, b), b >= o \/ (0 < max /\ max < o)
       PROVE  RangeOK(r, v, max)
  <2>1. PICK hi : HighPeaks(w, v, z, b, hi)
    BY <1>1, <1>3, <1>4, <1>12, PeaksSplit
  <2>2. PICK low : low = PeaksBelow(w, z)
    OBVIOUS
  <2>3. IsSeq(hi) /\ p = hi \o low /\ PeaksBelow(v, b) = Append(hi, PeakAt(v, z))
    BY <1>12, <2>1, <2>2 DEF HighPeaks
  <2>4. IsSeq(low) /\ Len(low) = z /\ Carry(low, leaf) = PeakAt(v, z)
    <3>1. z \in 0 .. z
      BY <1>4
    <3>2. IsSeq(low)
      BY <1>4, <2>2, PeaksAreSeq
    <3>3. Lowest(n + 1, z)
      BY <1>1, <1>3
    <3>4. Len(PeaksBelow(w, z)) = z /\ Carry(PeaksBelow(w, z), HashLeaf(v[n + 1])) = PeakAt(v, z)
      BY <1>4, <3>1, <3>3, CarryTrees
    <3> QED BY <1>5, <2>2, <3>2, <3>4
  <2>5. Merges(o, Len(p), 1) = z
    <3>1. Joins(p, hi, low)
      BY <2>3, <2>4, JoinedSeq
    <3>2. Len(hi) \in Nat /\ Len(p) = Len(hi) + z
      BY <2>3, <2>4, <3>1, Appended DEF Joins
    <3>3. Len(p) \in Nat /\ ~(Len(p) < z)
      BY <1>4, <3>2
    <3> QED BY <1>11, <3>3
  <2>6. q = [peaks |-> Append(hi, Carry(low, HashLeaf(x))), count |-> m.count + 1]
    <3>1. Len(low) = Merges(m.count + 1, Len(m.peaks), 1)
      BY <1>1, <1>2, <1>6, <2>4, <2>5
    <3>2. PeaksParted(m, hi, low)
      BY <1>6, <2>3, <2>4, <3>1 DEF PeaksParted
    <3> QED BY <1>7, <3>2, PushOver
  <2>7. PICK s : s = Append(hi, PeakAt(v, z))
    OBVIOUS
  <2>8. q = [peaks |-> s, count |-> o] /\ s = PeaksBelow(v, b)
    BY <1>1, <1>2, <1>5, <2>3, <2>4, <2>6, <2>7
  <2>9. q.peaks = PeaksBelow(v, b) /\ q.count = o /\ IsSeq(q.peaks) /\ q = [peaks |-> q.peaks, count |-> q.count]
    BY <2>3, <2>7, <2>8, Appended
  <2>10. InRange(q, v, max)
    BY <1>2, <1>12, <2>9 DEF InRange
  <2> QED BY <1>2, <1>9, <2>9, <2>10, DropKeepsRange
<1>13. ASSUME InRange(m, w, max) PROVE RangeOK(r, v, max)
  <2>1. PICK a \in Nat : p = PeaksBelow(w, a) /\ (a >= n \/ (0 < max /\ max < n))
    BY <1>2, <1>6, <1>13 DEF InRange
  <2>2. CASE a >= n
    <3>1. Bit(Len(w), a) # 1
      <4>1. Shifted(n, a) = 0 /\ 0 % 2 = 0
        BY <2>2, ShiftedOut
      <4> QED BY <1>2, <4>1 DEF Bit
    <3>2. PICK b \in Nat : b = a + 1
      BY <2>1
    <3>3. p = PeaksBelow(w, b)
      BY <2>1, <3>1, <3>2, PeaksNow
    <3>4. b > z /\ b >= o
      BY <1>1, <1>4, <2>2, <3>2
    <3> QED BY <1>5, <1>8, <1>12, <3>3, <3>4
  <2>3. CASE 0 < max /\ max < n
    <3>1. 0 < max /\ max < o
      BY <1>1, <2>3
    <3>2. CASE a > z
      BY <1>5, <1>8, <1>12, <2>1, <3>1, <3>2
    <3>3. CASE a = z
      <4>1. Bit(Len(w), a) # 1
        BY <1>2, <1>10, <3>3
      <4>2. PICK b \in Nat : b = a + 1
        BY <2>1
      <4>3. p = PeaksBelow(w, b)
        BY <2>1, <4>1, <4>2, PeaksNow
      <4>4. b > z
        BY <1>4, <3>3, <4>2
      <4> QED BY <1>5, <1>8, <1>12, <3>1, <4>3, <4>4
    <3>4. CASE a < z
      <4>1. Len(p) = a /\ Carry(p, leaf) = PeakAt(v, a)
        <5>1. a \in 0 .. z
          BY <1>4, <3>4
        <5>2. Lowest(n + 1, z)
          BY <1>1, <1>3
        <5>3. Len(PeaksBelow(w, a)) = a /\ Carry(PeaksBelow(w, a), HashLeaf(v[n + 1])) = PeakAt(v, a)
          BY <1>4, <5>1, <5>2, CarryTrees
        <5> QED BY <1>5, <2>1, <5>3
      <4>2. Merges(o, Len(p), 1) = Len(p)
        BY <1>11, <3>4, <4>1
      <4>3. PICK none : none = <<>>
        OBVIOUS
      <4>4. IsSeq(none) /\ Len(none) = 0 /\ IsSeq(p)
        BY <1>6, <4>3, NothingIsSeq DEF FieldOK
      <4>5. m.peaks = none \o p
        BY <1>6, <4>4, JoinEmpty
      <4>6. q = [peaks |-> Append(none, Carry(p, HashLeaf(x))), count |-> m.count + 1]
        <5>1. Len(p) = Merges(m.count + 1, Len(m.peaks), 1)
          BY <1>1, <1>2, <1>6, <4>2
        <5>2. PeaksParted(m, none, p)
          BY ONLY <4>4, <4>5, <5>1 DEF PeaksParted
        <5> QED BY <1>7, <5>2, PushOver
      <4>7. PICK one : one = <<PeakAt(v, a)>>
        OBVIOUS
      <4>8. Append(none, PeakAt(v, a)) = one
        <5>1. Append(none, PeakAt(v, a)) = none \o one
          BY <4>4, <4>7, AppendIsJoin
        <5>2. IsSeq(one)
          BY <4>7, OneSeq
        <5> QED BY <4>4, <5>1, <5>2, JoinEmpty
      <4>9. q = [peaks |-> one, count |-> o] /\ Len(one) = 1
        BY <1>1, <1>2, <1>5, <4>1, <4>6, <4>7, <4>8
      <4>10. r = q /\ r.peaks = one /\ r.count = o
        <5>1. q.peaks = one /\ q.count = o /\ ~(Len(one) > 1)
          BY <4>9
        <5>2. r = q
          BY <1>9, <5>1
        <5> QED BY <5>1, <5>2
      <4>11. Bit(o, 0) = 0 /\ Shifted(o, a) >= 1
        <5>1. 0 \in 0 .. z - 1 /\ a \in 0 .. z
          BY <1>4, <3>4
        <5>2. Shifted(o, a) = Shifted(n, a) + 1 /\ Shifted(n, a) \in Nat
          <6>1. \A h \in 0 .. z : Shifted(o, h) = Shifted(n, h) + 1
            BY <1>1, <1>3, <1>4, OneMore
          <6> QED BY <2>1, <5>1, <6>1, ShiftedBy
        <5> QED BY <1>3, <5>1, <5>2 DEF Lowest
      <4>12. Alone(r, v, max)
        BY <1>2, <3>1, <4>7, <4>10, <4>11 DEF Alone
      <4> QED BY <1>2, <4>10, <4>12 DEF RangeOK
    <3> QED BY <1>4, <3>2, <3>3, <3>4
  <2> QED BY <1>5, <1>8, <2>1, <2>2, <2>3
<1>14. ASSUME Alone(m, w, max) PROVE RangeOK(r, v, max)
  <2>1. 0 < max /\ max < n /\ Bit(n, 0) = 0
    BY <1>2, <1>14 DEF Alone
  <2>2. PICK b \in Nat : p = <<PeakAt(w, b)>>
    BY <1>6, <1>14 DEF Alone
  <2>3. IsSeq(p) /\ Len(p) = 1
    BY <2>2, OneSeq
  <2>4. z = 0
    <3>1. SUFFICES ASSUME z # 0 PROVE FALSE
      OBVIOUS
    <3>2. 0 \in 0 .. z - 1
      BY <1>4, <3>1
    <3> QED BY <1>10, <2>1, <3>2
  <2>5. Merges(o, Len(p), 1) = 0
    BY <1>11, <2>3, <2>4
  <2>6. PICK none : none = <<>>
    OBVIOUS
  <2>7. IsSeq(none) /\ Len(none) = 0
    BY <2>6, NothingIsSeq
  <2>8. q = [peaks |-> Append(p, Carry(none, HashLeaf(x))), count |-> m.count + 1]
    <3>1. Len(none) = Merges(m.count + 1, Len(m.peaks), 1)
      BY <1>1, <1>2, <1>6, <2>5, <2>7
    <3>2. m.peaks = p \o none
      BY <1>6, <2>3, <2>7, JoinEmpty
    <3>3. PeaksParted(m, p, none)
      BY ONLY <2>3, <2>7, <3>1, <3>2 DEF PeaksParted
    <3> QED BY <1>7, <3>3, PushOver
  <2>9. Carry(none, leaf) = PeakAt(v, 0)
    <3>1. 0 \in 0 .. z /\ Lowest(n + 1, z)
      BY <1>1, <1>3, <1>4
    <3>2. Carry(PeaksBelow(w, 0), HashLeaf(v[n + 1])) = PeakAt(v, 0)
      BY <1>4, <3>1, CarryTrees
    <3>3. PeaksBelow(w, 0) = none
      BY <2>6, PeaksNow
    <3> QED BY <1>5, <3>2, <3>3
  <2>10. PICK one, s : one = <<PeakAt(v, 0)>> /\ s = Append(p, PeakAt(v, 0))
    OBVIOUS
  <2>11. s = p \o one /\ Len(s) = 2
    BY <2>3, <2>10, AppendIsJoin, Appended
  <2>12. q = [peaks |-> s, count |-> o]
    BY <1>1, <1>2, <1>5, <2>8, <2>9, <2>10
  <2>13. r = [q EXCEPT !.peaks = Tail(@)]
    <3>1. max > 0 /\ q.count > max /\ Len(q.peaks) > 1
      BY <1>1, <2>1, <2>11, <2>12
    <3> QED BY <1>9, <3>1
  <2>14. Tail(s) = one
    <3>1. IsSeq(one)
      BY <2>10, OneSeq
    <3> QED BY <2>2, <2>11, <3>1, TailOfJoin
  <2>15. r = [peaks |-> one, count |-> o]
    BY <2>12, <2>13, <2>14
  <2>16. r.peaks = one /\ r.count = o
    BY <2>15
  <2>17. one = PeaksBelow(v, 1)
    <3>1. Bit(Len(v), 0) = 1
      BY <1>2, <1>3, <2>4 DEF Lowest
    <3>2. 0 \in Nat /\ 0 + 1 = 1
      OBVIOUS
    <3>3. PeaksBelow(v, 0 + 1) = <<PeakAt(v, 0)>> \o PeaksBelow(v, 0) /\ PeaksBelow(v, 0) = <<>>
      BY <3>1, <3>2, PeaksNow
    <3>4. PeaksBelow(v, 1) = one \o none
      BY <2>6, <2>10, <3>2, <3>3
    <3>5. IsSeq(one)
      BY <2>10, OneSeq
    <3> QED BY <2>7, <3>4, <3>5, JoinEmpty
  <2>18. 1 \in Nat /\ 0 < max /\ max < o
    BY <1>1, <2>1
  <2>19. InRange(r, v, max)
    BY <1>2, <2>16, <2>17, <2>18 DEF InRange
  <2> QED BY <1>2, <2>16, <2>19 DEF RangeOK
<1>15. RangeOK(r, v, max)
  BY <1>13, <1>14 DEF RangeOK
<1> QED BY <1>5, <1>8, <1>15

\* The field m over the leaves w: the range of them, without what was dropped.
FieldOver(m, w) ==
    /\ FieldOK(m) /\ IsSeq(w)
    /\ RangeOK(m, w, MaxLeaves)
    /\ \E a : /\ CoversFrom(m, w, a)
              /\ a < m.count \/ m.count = 0
              /\ m.count <= MaxLeaves => a = 0

\* A new field is over no leaves.
LEMMA EmptyIsOver ==
    ASSUME NEW w, w = <<>>
    PROVE  FieldOver(EmptyField, w)
<1>1. IsSeq(w) /\ Len(w) = 0
  BY NothingIsSeq
<1>2. PICK m : m = EmptyField
  OBVIOUS
<1>3. m.peaks = <<>> /\ m.count = 0
  BY <1>2 DEF EmptyField
<1>4. FieldOK(m) /\ CoversFrom(m, w, 0)
  BY <1>2, EmptyCovers
<1>5. RangeOK(m, w, MaxLeaves)
  <2>1. 0 \in Nat /\ 0 >= Len(w)
    BY <1>1
  <2>2. m.peaks = PeaksBelow(w, 0)
    BY <1>3, <2>1, PeaksNow
  <2> QED BY <1>1, <1>3, <2>1, <2>2 DEF RangeOK, InRange
<1> QED BY <1>1, <1>2, <1>3, <1>4, <1>5 DEF FieldOver

\* By induction on the appends: the field is over the leaves it was given.
LEMMA AppendIsOver ==
    ASSUME NEW m, NEW w, FieldOver(m, w), NEW x, NEW v, v = Append(w, x)
    PROVE  FieldOver(AppendLeaf(m, x, MaxLeaves), v)
<1>1. FieldOK(m) /\ IsSeq(w) /\ RangeOK(m, w, MaxLeaves)
  BY DEF FieldOver
<1>2. MaxLeaves \in Nat
  BY MedullaAssumption
<1>3. PICK n \in Nat : n = Len(w) /\ m.count = n
  <2>1. Len(w) \in Nat /\ m.count = Len(w)
    BY <1>1, Appended DEF RangeOK
  <2> QED BY <2>1
<1>4. IsSeq(v) /\ Len(v) = n + 1 /\ v[n + 1] = x /\ \A i \in 1 .. n : v[i] = w[i]
  BY <1>1, <1>3, Appended
<1>5. OneLonger(w, v, n)
  BY <1>3, <1>4 DEF OneLonger
<1>6. PICK r : r = AppendLeaf(m, x, MaxLeaves)
  OBVIOUS
<1>7. RangeOK(r, v, MaxLeaves)
  BY <1>1, <1>2, <1>4, <1>5, <1>6, AppendKeepsRange
<1>8. FieldOK(r) /\ r.count = n + 1
  BY <1>1, <1>3, <1>6, FieldGrows
<1>9. PICK a : /\ CoversFrom(m, w, a)
               /\ m.count <= MaxLeaves => a = 0
  BY DEF FieldOver
<1>10. PICK b : /\ CoversFrom(r, v, b)
                /\ a <= b /\ b <= n
                /\ n + 1 <= MaxLeaves => b = a
  <2>1. Agree(v, w, m.count)
    BY <1>3, <1>4 DEF Agree
  <2>2. \E b : /\ CoversFrom(AppendLeaf(m, v[m.count + 1], MaxLeaves), v, b)
               /\ a <= b /\ b <= m.count
               /\ m.count + 1 <= MaxLeaves => b = a
    BY ONLY <1>1, <1>2, <1>9, <2>1, AppendCovers
  <2>3. v[m.count + 1] = x /\ m.count = n
    BY <1>3, <1>4
  <2> QED BY ONLY <1>6, <2>2, <2>3
<1>11. b \in Nat
  BY <1>8, <1>10, CoveredRow
<1>12. b < r.count
  BY <1>8, <1>10, <1>11
<1>13. r.count <= MaxLeaves => b = 0
  BY <1>2, <1>3, <1>8, <1>9, <1>10
<1>14. FieldOver(r, v)
  BY <1>4, <1>7, <1>8, <1>10, <1>12, <1>13 DEF FieldOver
<1> QED BY <1>6, <1>14

\* The field of genesis.
LEMMA GenesisIsOver ==
    ASSUME NEW w, w = <<ZeroTuple>>
    PROVE  FieldOver(GenesisField, w)
<1>1. PICK e : e = <<>>
  OBVIOUS
<1>2. PICK v : v = Append(e, ZeroTuple)
  OBVIOUS
<1>3. FieldOver(AppendLeaf(EmptyField, ZeroTuple, MaxLeaves), v)
  BY <1>1, <1>2, EmptyIsOver, AppendIsOver
<1>4. v = w
  <2>1. IsSeq(e) /\ Len(e) = 0
    BY <1>1, NothingIsSeq
  <2>2. v = e \o w
    BY <1>2, <2>1, AppendIsJoin
  <2>3. IsSeq(w)
    BY OneSeq
  <2> QED BY <2>1, <2>2, <2>3, JoinEmpty
<1> QED BY <1>3, <1>4 DEF GenesisField

\* What IsMountainRange says of such a field.
LEMMA OverIsRange ==
    ASSUME FieldOver(field, leaves), Len(leaves) >= 1
    PROVE  IsMountainRange
<1>1. FieldOK(field) /\ IsSeq(leaves) /\ RangeOK(field, leaves, MaxLeaves)
  BY DEF FieldOver
<1>2. PICK n \in Nat : n = Len(leaves) /\ n = field.count /\ DOMAIN leaves = 1 .. n
  <2>1. Len(leaves) \in Nat /\ field.count = Len(leaves) /\ DOMAIN leaves = 1 .. Len(leaves)
    BY <1>1, Appended DEF RangeOK
  <2> QED BY <2>1
<1>3. MaxLeaves \in Nat
  BY MedullaAssumption
<1>4. ASSUME field.count <= MaxLeaves PROVE field.peaks = PeaksOf(leaves)
  <2>1. ~Alone(field, leaves, MaxLeaves)
    BY <1>2, <1>3, <1>4 DEF Alone
  <2>2. PICK b \in Nat : field.peaks = PeaksBelow(leaves, b) /\ b >= n
    BY <1>1, <1>2, <1>3, <1>4, <2>1 DEF RangeOK, InRange
  <2>3. \A h \in n .. b - 1 : Bit(Len(leaves), h) # 1
    <3> SUFFICES ASSUME NEW h \in n .. b - 1 PROVE Bit(n, h) # 1
      BY <1>2
    <3>1. h \in Nat /\ h >= n
      BY <2>2
    <3>2. Shifted(n, h) = 0 /\ 0 % 2 = 0
      BY <3>1, ShiftedOut
    <3> QED BY <3>2 DEF Bit
  <2>4. PeaksBelow(leaves, b) = PeaksBelow(leaves, n)
    BY <2>2, <2>3, NoPeaks
  <2> QED BY <1>2, <2>2, <2>4 DEF PeaksOf
<1>5. \E i \in DOMAIN leaves : Covered(field) = SubSeq(leaves, i, Len(leaves))
  <2>1. PICK a : CoversFrom(field, leaves, a) /\ (a < field.count \/ field.count = 0)
    BY DEF FieldOver
  <2>2. a \in Nat /\ Covered(field) = [i \in 1 .. n - a |-> leaves[a + i]]
    BY <1>1, <1>2, <2>1, CoveredRow
  <2>3. PICK k \in 1 .. n : k = a + 1
    <3>1. a + 1 \in 1 .. n
      BY <1>2, <2>1, <2>2
    <3> QED BY <3>1
  <2>4. SubSeq(leaves, k, n) = [i \in 1 .. n - a |-> leaves[a + i]]
    <3> DEFINE S == {leaves[i] : i \in DOMAIN leaves}
    <3>1. leaves \in Seq(S)
      BY <1>1 DEF IsSeq
    <3> HIDE DEF S
    <3>2. PICK s : s = SubSeq(leaves, k, n)
      OBVIOUS
    <3>3. PICK l \in Nat : l = n - a
      BY <2>2, <2>3
    <3>4. s \in Seq(S) /\ Len(s) = l /\ \A i \in 1 .. l : s[i] = leaves[a + i]
      BY <1>2, <2>2, <2>3, <3>1, <3>2, <3>3
    <3>5. s = [i \in 1 .. l |-> s[i]]
      BY <3>4
    <3>6. [i \in 1 .. l |-> s[i]] = [i \in 1 .. l |-> leaves[a + i]]
      BY <3>4
    <3> QED BY <3>2, <3>3, <3>5, <3>6
  <2> QED BY <1>2, <2>2, <2>3, <2>4
<1>6. ASSUME NEW h \in Nat, Shifted(n, h) >= 1
      PROVE  /\ h \in 0 .. Len(leaves) /\ Shifted(n, h) - 1 \in 0 .. Shifted(Len(leaves), h) - 1
             /\ PeakAt(leaves, h) = PerfectTree(leaves, h, Shifted(n, h) - 1)
  <2>1. Shifted(n, h) \in Nat
    BY ShiftedBy
  <2>2. ~(h >= n)
    <3>1. SUFFICES ASSUME h >= n PROVE FALSE
      OBVIOUS
    <3>2. Shifted(n, h) = 0
      BY <3>1, ShiftedOut
    <3> QED BY <1>6, <3>2
  <2> QED BY <1>2, <1>6, <2>1, <2>2 DEF PeakAt
<1>7. ASSUME NEW i \in DOMAIN field.peaks
      PROVE  \E h \in Nat : Shifted(n, h) >= 1 /\ field.peaks[i] = PeakAt(leaves, h)
  <2>1. i \in 1 .. Len(field.peaks)
    BY <1>1, Appended DEF FieldOK
  <2>2. CASE Alone(field, leaves, MaxLeaves)
    <3>1. PICK b \in Nat : Shifted(n, b) >= 1 /\ field.peaks = <<PeakAt(leaves, b)>>
      BY <1>2, <2>2 DEF Alone
    <3>2. Len(field.peaks) = 1 /\ field.peaks[1] = PeakAt(leaves, b)
      BY <3>1, OneSeq
    <3>3. i = 1
      BY <2>1, <3>2
    <3> QED BY <3>1, <3>2, <3>3
  <2>3. CASE InRange(field, leaves, MaxLeaves)
    <3>1. PICK b \in Nat : field.peaks = PeaksBelow(leaves, b)
      BY <2>3 DEF InRange
    <3>2. PICK h \in Nat : Bit(n, h) = 1 /\ field.peaks[i] = PeakAt(leaves, h)
      BY <1>2, <2>1, <3>1, PeaksAreTrees
    <3>3. Shifted(n, h) \in Nat /\ Shifted(n, h) # 0
      <4>1. 0 % 2 = 0
        OBVIOUS
      <4> QED BY <3>2, <4>1, ShiftedBy DEF Bit
    <3> QED BY <3>2, <3>3
  <2> QED BY <1>1, <2>2, <2>3 DEF RangeOK
<1>8. ASSUME NEW i \in DOMAIN field.peaks
      PROVE  \E h \in 0 .. Len(leaves) : \E b \in 0 .. Shifted(Len(leaves), h) - 1 :
                field.peaks[i] = PerfectTree(leaves, h, b)
  <2>1. PICK h \in Nat : Shifted(n, h) >= 1 /\ field.peaks[i] = PeakAt(leaves, h)
    BY <1>7
  <2> QED BY <1>6, <2>1
<1> QED BY <1>4, <1>5, <1>8 DEF IsMountainRange

-----------------------------------------------------------------------------
(* The blocks and the fields they commit to.                                *)

\* Under t are the n first leaves of some row.
Covers(t, n) == \E w : Fits(t, w, 0, n)

\* A hash covers one number of leaves.
LEMMA CoversOnce ==
    ASSUME NEW t, NEW m, NEW n, Covers(t, m), Covers(t, n)
    PROVE  m = n
<1>1. PICK v, w : Fits(t, v, 0, m) /\ Fits(t, w, 0, n)
  BY DEF Covers
<1> QED BY <1>1, FitsOnce

\* Until the window is full the root is over every leaf.
LEMMA RootCovers ==
    ASSUME NEW m, NEW w, FieldOver(m, w), m.peaks # <<>>, m.count <= MaxLeaves
    PROVE  Covers(Root(m), m.count)
<1>1. FieldOK(m) /\ CoversFrom(m, w, 0)
  BY DEF FieldOver
<1>2. Fits(Root(m), w, 0, m.count)
  BY <1>1, RootFits
<1> QED BY <1>2 DEF Covers

\* The fields that the headers of b commit to had ever more leaves, and at most n.
Growing(b, n) ==
    \E c : /\ \A i \in 1 .. Len(b) : c[i] \in Nat /\ c[i] <= n /\ Covers(b[i].fieldRoot, c[i])
           /\ \A i, j \in 1 .. Len(b) : i < j => c[i] < c[j]

\* What is known of a chain b and its field m until the window is full.
ToldApart(b, m) == m.count <= MaxLeaves => Growing(b, m.count)

LEMMA GenesisToldApart ==
    ASSUME NEW n, NEW m, m = GenesisField
    PROVE  ToldApart(Genesis(n, m), m)
<1>1. FieldOK(m) /\ m.count = 1 /\ m.peaks # <<>>
  <2>1. FieldOK(EmptyField) /\ EmptyField.count = 0
    BY EmptyCovers
  <2> QED BY <2>1, FieldGrows DEF GenesisField
<1>2. SUFFICES ASSUME m.count <= MaxLeaves PROVE Growing(Genesis(n, m), m.count)
  BY Zenon DEF ToldApart
<1>3. PICK w : w = <<ZeroTuple>>
  OBVIOUS
<1>4. FieldOver(m, w)
  BY <1>3, GenesisIsOver
<1>5. Covers(Root(m), 1)
  <2>1. Covers(Root(m), m.count)
    BY <1>1, <1>2, <1>4, RootCovers
  <2> QED BY <1>1, <2>1
<1>6. PICK b : b = Genesis(n, m)
  OBVIOUS
<1>7. Len(b) = 1 /\ b[1].fieldRoot = Root(m)
  BY <1>6 DEF Genesis
<1>8. PICK c : c = [i \in 1 .. 1 |-> 1]
  OBVIOUS
<1>9. ASSUME NEW i \in 1 .. Len(b)
      PROVE  i = 1 /\ c[i] \in Nat /\ c[i] <= m.count /\ Covers(b[i].fieldRoot, c[i])
  <2>1. i = 1 /\ c[1] = 1
    BY <1>7, <1>8
  <2> QED BY <1>1, <1>5, <1>7, <2>1
<1>10. \A i, j \in 1 .. Len(b) : i < j => c[i] < c[j]
  BY <1>9
<1> QED BY <1>6, <1>9, <1>10 DEF Growing

\* A leaf without a block.
LEMMA FailureToldApart ==
    ASSUME ChainOK, ToldApart(blocks, field), NEW t, MiningFails(t)
    PROVE  ToldApart(blocks', field')
<1>1. FieldOK(field) /\ field.count \in Nat
  BY DEF ChainOK, FieldOK
<1>2. field' = AppendLeaf(field, t, MaxLeaves) /\ blocks' = blocks
  BY DEF MiningFails, AppendToField
<1>3. PICK n \in Nat : n = field.count
  BY <1>1
<1>4. field'.count = n + 1
  BY <1>1, <1>2, <1>3, FieldGrows
<1>5. SUFFICES ASSUME n + 1 <= MaxLeaves PROVE Growing(blocks, n + 1)
  BY <1>2, <1>4 DEF ToldApart
<1>6. MaxLeaves \in Nat
  BY MedullaAssumption
<1>7. Growing(blocks, n)
  BY <1>3, <1>5, <1>6 DEF ToldApart
<1>8. PICK c : /\ \A i \in 1 .. Len(blocks) : c[i] \in Nat /\ c[i] <= n /\ Covers(blocks[i].fieldRoot, c[i])
               /\ \A i, j \in 1 .. Len(blocks) : i < j => c[i] < c[j]
  BY <1>7 DEF Growing
<1>9. \A i \in 1 .. Len(blocks) : c[i] \in Nat /\ c[i] <= n + 1 /\ Covers(blocks[i].fieldRoot, c[i])
  BY <1>8
<1> QED BY <1>8, <1>9 DEF Growing

\* A leaf and the block that commits to it.
LEMMA BlockToldApart ==
    ASSUME ChainOK, FieldOver(field', leaves'), ToldApart(blocks, field), NEW t, SubmitCoherenceRoot(t)
    PROVE  ToldApart(blocks', field')
<1>1. FieldOK(field) /\ field.count \in Nat /\ IsSeq(blocks)
  BY DEF ChainOK, FieldOK
<1>2. field' = AppendLeaf(field, t, MaxLeaves) /\ blocks' = Append(blocks, Header(t, field'))
  BY DEF SubmitCoherenceRoot, AppendToField
<1>3. PICK n \in Nat : n = field.count
  BY <1>1
<1>4. FieldOK(field') /\ field'.count = n + 1 /\ field'.peaks # <<>>
  BY <1>1, <1>2, <1>3, FieldGrows
<1>5. SUFFICES ASSUME n + 1 <= MaxLeaves PROVE Growing(blocks', n + 1)
  BY <1>4 DEF ToldApart
<1>6. MaxLeaves \in Nat
  BY MedullaAssumption
<1>7. Growing(blocks, n)
  BY <1>3, <1>5, <1>6 DEF ToldApart
<1>9. PICK c : /\ \A i \in 1 .. Len(blocks) : c[i] \in Nat /\ c[i] <= n /\ Covers(blocks[i].fieldRoot, c[i])
               /\ \A i, j \in 1 .. Len(blocks) : i < j => c[i] < c[j]
  BY <1>7 DEF Growing
<1>10. PICK h : h = Header(t, field')
  OBVIOUS
<1>11. Covers(h.fieldRoot, n + 1)
  <2>1. h.fieldRoot = Root(field')
    BY <1>10 DEF Header
  <2>2. Covers(Root(field'), field'.count)
    BY <1>4, <1>5, RootCovers
  <2> QED BY <1>4, <2>1, <2>2
<1>12. PICK l \in Nat : l = Len(blocks)
  BY <1>1, Appended
<1>13. /\ Len(blocks') = l + 1 /\ blocks'[l + 1] = h
       /\ \A i \in 1 .. l : blocks'[i] = blocks[i]
  BY <1>1, <1>2, <1>10, <1>12, Appended
<1>14. PICK d : d = [i \in 1 .. l + 1 |-> IF i = l + 1 THEN n + 1 ELSE c[i]]
  OBVIOUS
<1>15. d[l + 1] = n + 1 /\ \A i \in 1 .. l : d[i] = c[i]
  BY <1>14
<1>16. ASSUME NEW i \in 1 .. l + 1, i # l + 1 PROVE i \in 1 .. l
  BY <1>16
<1>17. ASSUME NEW i \in 1 .. l
       PROVE  d[i] \in Nat /\ d[i] <= n /\ Covers(blocks'[i].fieldRoot, d[i])
  BY <1>9, <1>12, <1>13, <1>15
<1>18. ASSUME NEW i \in 1 .. l + 1
       PROVE  d[i] \in Nat /\ d[i] <= n + 1 /\ Covers(blocks'[i].fieldRoot, d[i])
  <2>1. CASE i = l + 1
    BY <1>11, <1>13, <1>15, <2>1
  <2>2. CASE i \in 1 .. l
    BY <1>17, <2>2
  <2> QED BY <1>16, <2>1, <2>2
<1>19. ASSUME NEW i \in 1 .. l + 1, NEW j \in 1 .. l + 1, i < j PROVE d[i] < d[j]
  <2>1. i \in 1 .. l
    BY <1>19
  <2>2. CASE j = l + 1
    BY <1>15, <1>17, <2>1, <2>2
  <2>3. CASE j \in 1 .. l
    BY <1>9, <1>12, <1>15, <1>19, <2>1, <2>3
  <2> QED BY <1>16, <2>2, <2>3
<1>20. Growing(blocks', n + 1)
  BY <1>13, <1>18, <1>19 DEF Growing
<1> QED BY <1>20

\* Roots over different numbers of leaves are different roots.
LEMMA GrowingTellsApart ==
    ASSUME NEW b, NEW n, IsSeq(b), Growing(b, n)
    PROVE  \A i, j \in DOMAIN b : i # j => b[i].fieldRoot # b[j].fieldRoot
<1>1. Len(b) \in Nat /\ DOMAIN b = 1 .. Len(b)
  BY Appended
<1>2. PICK c : /\ \A i \in 1 .. Len(b) : c[i] \in Nat /\ c[i] <= n /\ Covers(b[i].fieldRoot, c[i])
               /\ \A i, j \in 1 .. Len(b) : i < j => c[i] < c[j]
  BY DEF Growing
<1>3. ASSUME NEW i \in 1 .. Len(b), NEW j \in 1 .. Len(b), i < j
      PROVE  b[i].fieldRoot # b[j].fieldRoot
  <2>1. SUFFICES ASSUME b[i].fieldRoot = b[j].fieldRoot PROVE FALSE
    OBVIOUS
  <2>2. Covers(b[i].fieldRoot, c[i]) /\ Covers(b[i].fieldRoot, c[j])
    BY <1>2, <2>1
  <2>3. c[i] = c[j]
    BY <2>2, CoversOnce
  <2>4. c[i] < c[j] /\ c[i] \in Nat
    BY <1>2, <1>3
  <2> QED BY <2>3, <2>4
<1>4. \A i, j \in 1 .. Len(b) : i # j => i < j \/ j < i
  BY <1>1
<1> QED BY <1>1, <1>3, <1>4

-----------------------------------------------------------------------------
(* What holds of the chain and its field.                                   *)

ChainInv == ChainOK /\ FieldOver(field, leaves) /\ ToldApart(blocks, field)

\* The field of the daemon stays over its leaves.
LEMMA OverGrows ==
    ASSUME FieldOver(field, leaves), NEW t, AppendToField(t)
    PROVE  FieldOver(field', leaves')
<1>1. field' = AppendLeaf(field, t, MaxLeaves) /\ leaves' = Append(leaves, t)
  BY DEF AppendToField
<1> QED BY <1>1, AppendIsOver

\* A chain that starts, or starts over.
LEMMA OverStarts ==
    ASSUME NEW n, NEW b, NEW m, NEW w, m = GenesisField, w = <<ZeroTuple>>, b = Genesis(n, m)
    PROVE  FieldOver(m, w) /\ ToldApart(b, m)
BY GenesisIsOver, GenesisToldApart

\* The inductive invariant of the chain: the chain is as the theorems below need it, the
\* field is the range of the leaves without what was dropped, and the headers are over ever
\* more leaves.
THEOREM ChainInvariant == MedullaSpec => []ChainInv
<1>1. MedullaInit => ChainInv
  <2> SUFFICES ASSUME MedullaInit PROVE ChainInv
    OBVIOUS
  <2>1. field = GenesisField /\ leaves = <<ZeroTuple>> /\ blocks = Genesis(0, field)
    BY DEF MedullaInit
  <2>2. FieldOver(field, leaves) /\ ToldApart(blocks, field)
    BY ONLY <2>1, OverStarts
  <2> QED BY <2>2, ChainStarts DEF ChainInv
<1>2. ASSUME ChainInv, [MedullaNext]_medullaVars PROVE ChainInv'
  <2>0. ChainOK /\ FieldOver(field, leaves) /\ ToldApart(blocks, field)
    BY <1>2 DEF ChainInv
  <2>1. CASE Restart
    <3>1. ChainOK'
      BY <2>0, <2>1, RestartKeepsChain
    <3>2. field' = GenesisField /\ leaves' = <<ZeroTuple>> /\ blocks' = Genesis(life + 1, field')
      BY <2>1 DEF Restart
    <3>3. FieldOver(field', leaves') /\ ToldApart(blocks', field')
      BY ONLY <3>2, OverStarts
    <3> QED BY <3>1, <3>3 DEF ChainInv
  <2>2. ASSUME NEW t \in Tuples, SubmitCoherenceRoot(t) PROVE ChainInv'
    <3>1. ChainOK'
      BY <2>0, <2>2, BlockKeepsChain
    <3>2. FieldOver(field', leaves')
      BY <2>0, <2>2, OverGrows DEF SubmitCoherenceRoot
    <3>3. ToldApart(blocks', field')
      BY <2>0, <2>2, <3>2, BlockToldApart
    <3> QED BY <3>1, <3>2, <3>3 DEF ChainInv
  <2>3. ASSUME NEW t \in Tuples, MiningFails(t) PROVE ChainInv'
    <3>1. ChainOK'
      BY <2>0, <2>3, FailureKeepsChain
    <3>2. FieldOver(field', leaves')
      BY <2>0, <2>3, OverGrows DEF MiningFails
    <3>3. ToldApart(blocks', field')
      BY <2>0, <2>3, FailureToldApart
    <3> QED BY <3>1, <3>2, <3>3 DEF ChainInv
  <2>4. CASE UNCHANGED medullaVars
    <3>1. ChainOK'
      BY <2>0, <2>4, ChainFrame
    <3>2. blocks' = blocks /\ field' = field /\ leaves' = leaves
      BY <2>4 DEF medullaVars
    <3>3. FieldOver(field', leaves') /\ ToldApart(blocks', field')
      BY ONLY <2>0, <3>2
    <3> QED BY <3>1, <3>3 DEF ChainInv
  <2> QED BY <1>2, <2>1, <2>2, <2>3, <2>4 DEF MedullaNext
<1> QED BY <1>1, <1>2, PTL DEF MedullaSpec

\* Until the window of the field is full, each block commits to a field that no other block
\* of its chain commits to: the hashes of mmr.go tell how many leaves are under them, every
\* merge keeps the sum, and a block is mined over at least one leaf more than the one before.
THEOREM BlocksDiffer == MedullaSpec => []BlocksToldApart
<1>1. ASSUME ChainInv PROVE BlocksToldApart
  <2>1. EpochIsHeight /\ IsSeq(blocks)
    BY <1>1 DEF ChainInv, ChainOK
  <2>2. ASSUME field.count <= MaxLeaves
        PROVE  \A i, j \in DOMAIN blocks : i # j => blocks[i].fieldRoot # blocks[j].fieldRoot
    <3>1. Growing(blocks, field.count)
      BY <1>1, <2>2 DEF ChainInv, ToldApart
    <3> QED BY <2>1, <3>1, GrowingTellsApart
  <2> QED BY <2>1, <2>2 DEF BlocksToldApart
<1> QED BY <1>1, ChainInvariant, PTL

\* Whatever the window of mmr.go and however often it drops a peak, the daemon's field is
\* the Merkle Mountain Range of its leaves until the window is full, and perfect trees over
\* an unbroken run of leaves that ends with the newest ever after: the carries that an
\* append makes are those of the binary number of all leaves, also past dropped peaks.
THEOREM FieldIsRange == MedullaSpec => []IsMountainRange
<1>1. ASSUME ChainInv PROVE IsMountainRange
  <2>1. FieldOver(field, leaves)
    BY <1>1 DEF ChainInv
  <2>2. Len(leaves) >= 1
    <3>1. Len(leaves) \in Nat /\ Len(blocks) \in Nat
      BY <1>1, Appended DEF ChainInv, ChainOK
    <3>2. Len(blocks) >= 1 /\ Len(leaves) >= Len(blocks)
      BY <1>1 DEF ChainInv, ChainOK, EpochIsHeight, MedullaTypeOK
    <3> QED BY <3>1, <3>2
  <2> QED BY <2>1, <2>2, OverIsRange
<1> QED BY <1>1, ChainInvariant, PTL

\* SynapticFieldMMR of packages/crypto, which stops merging one peak earlier than mmr.go,
\* covers every leaf it was given, each once and in order, for any leaves of the chain.
THEOREM MirrorIsComplete == MedullaSpec => []MirrorCoversAll
<1>1. ASSUME ChainInv PROVE MirrorCoversAll
  <2>1. IsSeq(leaves)
    BY <1>1 DEF ChainInv, ChainOK
  <2> QED BY <2>1, MirrorIsWhole DEF MirrorCoversAll
<1> QED BY <1>1, ChainInvariant, PTL

-----------------------------------------------------------------------------
(* The Merkle tree.                                                         *)

\* The i-th node over the row r.
NodeOver(r, i) == HashNode(r[2 * i - 1], Sibling(r, 2 * i - 2))

LayeringSteps(f, r, n) ==
    f = [k \in 0 .. n |-> IF k = 0 THEN <<>> ELSE Append(f[k - 1], NodeOver(r, k))]

\* Any number of nodes can be put over a layer.
LEMMA LayeringStepsExist ==
    ASSUME NEW r, NEW n \in Nat
    PROVE  \E f : LayeringSteps(f, r, n)
<1> DEFINE A == {m \in Nat : \E f : LayeringSteps(f, r, m)}
<1>1. A \in SUBSET Nat /\ \A m \in Nat : m \in A <=> \E f : LayeringSteps(f, r, m)
  OBVIOUS
<1> HIDE DEF A
<1>2. 0 \in A
  <2>1. LayeringSteps([k \in 0 .. 0 |-> <<>>], r, 0)
    BY DEF LayeringSteps
  <2> QED BY <1>1, <2>1
<1>3. ASSUME NEW m \in A PROVE m + 1 \in A
  <2>1. m \in Nat
    BY <1>1
  <2>2. PICK g : LayeringSteps(g, r, m)
    BY <1>1
  <2> DEFINE f == [k \in 0 .. m + 1 |-> IF k = 0 THEN <<>> ELSE Append(g[k - 1], NodeOver(r, k))]
  <2>3. ASSUME NEW k \in 0 .. m PROVE f[k] = g[k]
    <3>1. k \in 0 .. m + 1
      BY <2>1
    <3>2. f[k] = IF k = 0 THEN <<>> ELSE Append(g[k - 1], NodeOver(r, k))
      BY <3>1, Zenon
    <3>3. g[k] = IF k = 0 THEN <<>> ELSE Append(g[k - 1], NodeOver(r, k))
      BY <2>2, Zenon DEF LayeringSteps
    <3> QED BY <3>2, <3>3, Zenon
  <2>4. \A k \in 0 .. m + 1 : k # 0 => f[k - 1] = g[k - 1]
    <3>1. \A k \in 0 .. m + 1 : k # 0 => k - 1 \in 0 .. m
      BY <2>1
    <3> HIDE DEF f
    <3> QED BY <2>3, <3>1
  <2>5. f = [k \in 0 .. m + 1 |-> IF k = 0 THEN <<>> ELSE Append(f[k - 1], NodeOver(r, k))]
    BY <2>4
  <2>6. LayeringSteps(f, r, m + 1)
    <3> HIDE DEF f
    <3> QED BY <2>5, Zenon DEF LayeringSteps
  <2> QED BY <1>1, <2>1, <2>6
<1>4. A = Nat
  BY <1>1, <1>2, <1>3, InductiveSet
<1> QED BY <1>1, <1>4

\* f[k] is the k first nodes over r.
Layering(f, r, n) ==
    f[0] = <<>> /\ \A k \in 1 .. n : f[k] = Append(f[k - 1], NodeOver(r, k))

\* LayerAbove is computed by such steps.
LEMMA LayeringExists ==
    ASSUME NEW r, NEW n \in Nat, n = (Len(r) + 1) \div 2
    PROVE  \E f : Layering(f, r, n) /\ LayerAbove(r) = f[n]
<1> DEFINE f == CHOOSE g : g = [k \in 0 .. n |-> IF k = 0 THEN <<>> ELSE Append(g[k - 1], NodeOver(r, k))]
<1>1. LayerAbove(r) = f[n]
  BY Zenon DEF LayerAbove, NodeOver
<1>2. LayeringSteps(f, r, n)
  <2>1. \E g : LayeringSteps(g, r, n)
    BY LayeringStepsExist
  <2>2. f = CHOOSE g : LayeringSteps(g, r, n)
    BY Zenon DEF LayeringSteps
  <2> HIDE DEF f
  <2> QED BY <2>1, <2>2, Zenon
<1> HIDE DEF f
<1>3. f[0] = <<>>
  <2>1. 0 \in 0 .. n
    OBVIOUS
  <2> QED BY <1>2, <2>1, Zenon DEF LayeringSteps
<1>4. ASSUME NEW k \in 1 .. n PROVE f[k] = Append(f[k - 1], NodeOver(r, k))
  <2>1. k \in 0 .. n /\ k # 0
    OBVIOUS
  <2> QED BY <1>2, <2>1, Zenon DEF LayeringSteps
<1>5. Layering(f, r, n)
  BY <1>3, <1>4, Zenon DEF Layering
<1> QED BY <1>1, <1>5

\* The layer on top of a tower, unless that is complete.
LayerPut(below) ==
    IF Len(Last(below)) <= 1 THEN below ELSE Append(below, LayerAbove(Last(below)))

LeafLayer(w) == [i \in 1 .. Len(w) |-> HashLeaf(w[i])]

ToweringSteps(f, w, n) ==
    f = [k \in 0 .. n |-> IF k = 0 THEN <<LeafLayer(w)>> ELSE LayerPut(f[k - 1])]

\* Any number of layers can be put on the leaves.
LEMMA ToweringStepsExist ==
    ASSUME NEW w, NEW n \in Nat
    PROVE  \E f : ToweringSteps(f, w, n)
<1> DEFINE A == {m \in Nat : \E f : ToweringSteps(f, w, m)}
<1>1. A \in SUBSET Nat /\ \A m \in Nat : m \in A <=> \E f : ToweringSteps(f, w, m)
  OBVIOUS
<1> HIDE DEF A
<1>2. 0 \in A
  <2>1. ToweringSteps([k \in 0 .. 0 |-> <<LeafLayer(w)>>], w, 0)
    BY DEF ToweringSteps
  <2> QED BY <1>1, <2>1
<1>3. ASSUME NEW m \in A PROVE m + 1 \in A
  <2>1. m \in Nat
    BY <1>1
  <2>2. PICK g : ToweringSteps(g, w, m)
    BY <1>1
  <2> DEFINE f == [k \in 0 .. m + 1 |-> IF k = 0 THEN <<LeafLayer(w)>> ELSE LayerPut(g[k - 1])]
  <2>3. ASSUME NEW k \in 0 .. m PROVE f[k] = g[k]
    <3>1. k \in 0 .. m + 1
      BY <2>1
    <3>2. f[k] = IF k = 0 THEN <<LeafLayer(w)>> ELSE LayerPut(g[k - 1])
      BY <3>1, Zenon
    <3>3. g[k] = IF k = 0 THEN <<LeafLayer(w)>> ELSE LayerPut(g[k - 1])
      BY <2>2, Zenon DEF ToweringSteps
    <3> QED BY <3>2, <3>3, Zenon
  <2>4. \A k \in 0 .. m + 1 : k # 0 => f[k - 1] = g[k - 1]
    <3>1. \A k \in 0 .. m + 1 : k # 0 => k - 1 \in 0 .. m
      BY <2>1
    <3> HIDE DEF f
    <3> QED BY <2>3, <3>1
  <2>5. f = [k \in 0 .. m + 1 |-> IF k = 0 THEN <<LeafLayer(w)>> ELSE LayerPut(f[k - 1])]
    BY <2>4
  <2>6. ToweringSteps(f, w, m + 1)
    <3> HIDE DEF f
    <3> QED BY <2>5, Zenon DEF ToweringSteps
  <2> QED BY <1>1, <2>1, <2>6
<1>4. A = Nat
  BY <1>1, <1>2, <1>3, InductiveSet
<1> QED BY <1>1, <1>4

\* f[k] is the tower over w after k layers were put on it.
Towering(f, w, n) ==
    f[0] = <<LeafLayer(w)>> /\ \A k \in 1 .. n : f[k] = LayerPut(f[k - 1])

\* Layers is computed by such steps.
LEMMA ToweringExists ==
    ASSUME NEW w, NEW n \in Nat, n = Len(w)
    PROVE  \E f : Towering(f, w, n) /\ Layers(w) = f[n]
<1> DEFINE f == CHOOSE g : g = [k \in 0 .. n |-> IF k = 0 THEN <<LeafLayer(w)>> ELSE LayerPut(g[k - 1])]
<1>1. Layers(w) = f[n]
  BY Zenon DEF Layers, LayerPut, LeafLayer
<1>2. ToweringSteps(f, w, n)
  <2>1. \E g : ToweringSteps(g, w, n)
    BY ToweringStepsExist
  <2>2. f = CHOOSE g : ToweringSteps(g, w, n)
    BY Zenon DEF ToweringSteps
  <2> HIDE DEF f
  <2> QED BY <2>1, <2>2, Zenon
<1> HIDE DEF f
<1>3. f[0] = <<LeafLayer(w)>>
  <2>1. 0 \in 0 .. n
    OBVIOUS
  <2> QED BY <1>2, <2>1, Zenon DEF ToweringSteps
<1>4. ASSUME NEW k \in 1 .. n PROVE f[k] = LayerPut(f[k - 1])
  <2>1. k \in 0 .. n /\ k # 0
    OBVIOUS
  <2> QED BY <1>2, <2>1, Zenon DEF ToweringSteps
<1>5. Towering(f, w, n)
  BY <1>3, <1>4, Zenon DEF Towering
<1> QED BY <1>1, <1>5

\* The hash at one height from the one below it, t, and its sibling there.
Joined(b, t, s) == IF b = 0 THEN HashNode(t, s) ELSE HashNode(s, t)

ClimbingSteps(f, x, p, n) ==
    f = [k \in 0 .. n |-> IF k = 0 THEN HashLeaf(x) ELSE Joined(Bit(p.index, k - 1), f[k - 1], p.siblings[k])]

\* A proof can be followed to any height.
LEMMA ClimbingStepsExist ==
    ASSUME NEW x, NEW p, NEW n \in Nat
    PROVE  \E f : ClimbingSteps(f, x, p, n)
<1> DEFINE A == {m \in Nat : \E f : ClimbingSteps(f, x, p, m)}
<1>1. A \in SUBSET Nat /\ \A m \in Nat : m \in A <=> \E f : ClimbingSteps(f, x, p, m)
  OBVIOUS
<1> HIDE DEF A
<1>2. 0 \in A
  <2>1. ClimbingSteps([k \in 0 .. 0 |-> HashLeaf(x)], x, p, 0)
    BY DEF ClimbingSteps
  <2> QED BY <1>1, <2>1
<1>3. ASSUME NEW m \in A PROVE m + 1 \in A
  <2>1. m \in Nat
    BY <1>1
  <2>2. PICK g : ClimbingSteps(g, x, p, m)
    BY <1>1
  <2> DEFINE f == [k \in 0 .. m + 1 |-> IF k = 0 THEN HashLeaf(x) ELSE Joined(Bit(p.index, k - 1), g[k - 1], p.siblings[k])]
  <2>3. ASSUME NEW k \in 0 .. m PROVE f[k] = g[k]
    <3>1. k \in 0 .. m + 1
      BY <2>1
    <3>2. f[k] = IF k = 0 THEN HashLeaf(x) ELSE Joined(Bit(p.index, k - 1), g[k - 1], p.siblings[k])
      BY <3>1, Zenon
    <3>3. g[k] = IF k = 0 THEN HashLeaf(x) ELSE Joined(Bit(p.index, k - 1), g[k - 1], p.siblings[k])
      BY <2>2, Zenon DEF ClimbingSteps
    <3> QED BY <3>2, <3>3, Zenon
  <2>4. \A k \in 0 .. m + 1 : k # 0 => f[k - 1] = g[k - 1]
    <3>1. \A k \in 0 .. m + 1 : k # 0 => k - 1 \in 0 .. m
      BY <2>1
    <3> HIDE DEF f
    <3> QED BY <2>3, <3>1
  <2>5. f = [k \in 0 .. m + 1 |-> IF k = 0 THEN HashLeaf(x) ELSE Joined(Bit(p.index, k - 1), f[k - 1], p.siblings[k])]
    BY <2>4
  <2>6. ClimbingSteps(f, x, p, m + 1)
    <3> HIDE DEF f
    <3> QED BY <2>5, Zenon DEF ClimbingSteps
  <2> QED BY <1>1, <2>1, <2>6
<1>4. A = Nat
  BY <1>1, <1>2, <1>3, InductiveSet
<1> QED BY <1>1, <1>4

\* f[k] is what the leaf x becomes at the k-th step of the proof p.
Climbing(f, x, p, n) ==
    f[0] = HashLeaf(x) /\ \A k \in 1 .. n : f[k] = Joined(Bit(p.index, k - 1), f[k - 1], p.siblings[k])

\* VerifyMerkleProof is computed by such steps.
LEMMA ClimbingExists ==
    ASSUME NEW x, NEW p, NEW n \in Nat, n = Len(p.siblings)
    PROVE  \E f : /\ Climbing(f, x, p, n)
                /\ \A root : VerifyMerkleProof(x, p, root) <=> f[n] = root
<1> DEFINE f == CHOOSE g : g = [k \in 0 .. n |-> IF k = 0 THEN HashLeaf(x) ELSE Joined(Bit(p.index, k - 1), g[k - 1], p.siblings[k])]
<1>1. \A root : VerifyMerkleProof(x, p, root) <=> f[n] = root
  BY Zenon DEF VerifyMerkleProof, Joined
<1>2. ClimbingSteps(f, x, p, n)
  <2>1. \E g : ClimbingSteps(g, x, p, n)
    BY ClimbingStepsExist
  <2>2. f = CHOOSE g : ClimbingSteps(g, x, p, n)
    BY Zenon DEF ClimbingSteps
  <2> HIDE DEF f
  <2> QED BY <2>1, <2>2, Zenon
<1> HIDE DEF f
<1>3. f[0] = HashLeaf(x)
  <2>1. 0 \in 0 .. n
    OBVIOUS
  <2> QED BY <1>2, <2>1, Zenon DEF ClimbingSteps
<1>4. ASSUME NEW k \in 1 .. n PROVE f[k] = Joined(Bit(p.index, k - 1), f[k - 1], p.siblings[k])
  <2>1. k \in 0 .. n /\ k # 0
    OBVIOUS
  <2> QED BY <1>2, <2>1, Zenon DEF ClimbingSteps
<1>5. Climbing(f, x, p, n)
  BY <1>3, <1>4, Zenon DEF Climbing
<1> QED BY <1>1, <1>5

-----------------------------------------------------------------------------
(* Layers over layers.                                                      *)

\* A layer is a row of at least one node.
IsLayer(r, c) == IsSeq(r) /\ c \in Nat /\ c >= 1 /\ Len(r) = c

\* Half of c, rounded up.
HalfUp(c, h) == h \in Nat /\ (c = 2 * h \/ c = 2 * h - 1)

\* Every number has a half, rounded up.
LEMMA Halves ==
    ASSUME NEW c \in Nat, c >= 1
    PROVE  \E h \in Nat : HalfUp(c, h) /\ h = (c + 1) \div 2 /\ h >= 1
<1>1. PICK h \in Nat : h = (c + 1) \div 2
  OBVIOUS
<1>2. c = 2 * h \/ c = 2 * h - 1
  BY <1>1
<1> QED BY <1>1, <1>2 DEF HalfUp

\* The nodes over a layer are half as many, each over the two below it.
LEMMA LayerOver ==
    ASSUME NEW r, NEW c, IsLayer(r, c), NEW h, HalfUp(c, h)
    PROVE  /\ IsLayer(LayerAbove(r), h)
           /\ \A i \in 1 .. h : LayerAbove(r)[i] = NodeOver(r, i)
<1>1. c \in Nat /\ c >= 1 /\ h \in Nat /\ Len(r) = c /\ h >= 1
  BY DEF IsLayer, HalfUp
<1>2. h = (Len(r) + 1) \div 2
  <2>1. CASE c = 2 * h
    BY <1>1, <2>1
  <2>2. CASE c = 2 * h - 1
    BY <1>1, <2>2
  <2> QED BY <2>1, <2>2 DEF HalfUp
<1>3. PICK f : Layering(f, r, h) /\ LayerAbove(r) = f[h]
  BY <1>1, <1>2, LayeringExists
<1> DEFINE Good(s, k) == IsSeq(s) /\ Len(s) = k /\ \A i \in 1 .. k : s[i] = NodeOver(r, i)
           A == {k \in Nat : k <= h => Good(f[k], k)}
<1>4. A \in SUBSET Nat /\ \A k \in Nat : k \in A <=> (k <= h => Good(f[k], k))
  <2> HIDE DEF Good
  <2> QED OBVIOUS
<1> HIDE DEF A
<1>5. 0 \in A
  <2>1. PICK e : e = f[0]
    OBVIOUS
  <2>2. e = <<>>
    BY <1>3, <2>1 DEF Layering
  <2>3. IsSeq(e) /\ Len(e) = 0
    BY <2>2, NothingIsSeq
  <2>4. Good(e, 0)
    BY <2>3
  <2> HIDE DEF Good
  <2> QED BY <1>4, <2>1, <2>4
<1>6. ASSUME NEW k \in A PROVE k + 1 \in A
  <2>1. k \in Nat
    BY <1>4
  <2>2. SUFFICES ASSUME k + 1 <= h PROVE Good(f[k + 1], k + 1)
    <3> HIDE DEF Good
    <3> QED BY <1>4, <2>1
  <2>3. k + 1 \in 1 .. h /\ (k + 1) - 1 = k /\ k <= h
    BY <1>1, <2>1, <2>2
  <2>4. Good(f[k], k)
    <3> HIDE DEF Good
    <3> QED BY <1>4, <2>1, <2>3
  <2>5. f[k + 1] = Append(f[k], NodeOver(r, k + 1))
    BY <1>3, <2>3 DEF Layering
  <2>6. PICK s, t : s = f[k] /\ t = f[k + 1]
    OBVIOUS
  <2>7. PICK x : x = NodeOver(r, k + 1)
    OBVIOUS
  <2>8. t = Append(s, x) /\ IsSeq(s) /\ Len(s) = k
    BY <2>4, <2>5, <2>6, <2>7
  <2>9. /\ IsSeq(t) /\ Len(t) = k + 1 /\ t[k + 1] = x
        /\ \A i \in 1 .. k : t[i] = s[i]
    BY <2>8, Appended
  <2>10. ASSUME NEW i \in 1 .. k + 1 PROVE t[i] = NodeOver(r, i)
    <3>1. CASE i = k + 1
      BY <2>7, <2>9, <3>1
    <3>2. CASE i \in 1 .. k
      <4>1. t[i] = s[i] /\ s[i] = NodeOver(r, i)
        BY <2>4, <2>6, <2>9, <3>2
      <4> QED BY <4>1
    <3> QED BY <2>1, <3>1, <3>2
  <2>11. Good(t, k + 1)
    BY <2>9, <2>10
  <2> HIDE DEF Good
  <2> QED BY <2>6, <2>11
<1>7. A = Nat
  BY <1>4, <1>5, <1>6, InductiveSet
<1>8. Good(f[h], h)
  <2> HIDE DEF Good
  <2> QED BY <1>1, <1>4, <1>7
<1> QED BY <1>1, <1>3, <1>8 DEF IsLayer

\* The last node of a layer ends in the last node of the layer below.
LEMMA LastOver ==
    ASSUME NEW r, NEW c, IsLayer(r, c), NEW h, HalfUp(c, h)
    PROVE  \E x : LayerAbove(r)[h] = HashNode(x, r[c])
<1>1. c \in Nat /\ c >= 1 /\ h \in Nat /\ Len(r) = c /\ h >= 1
  BY DEF IsLayer, HalfUp
<1>2. LayerAbove(r)[h] = HashNode(r[2 * h - 1], Sibling(r, 2 * h - 2))
  <2>1. h \in 1 .. h
    BY <1>1
  <2> QED BY <2>1, LayerOver DEF NodeOver
<1>3. PICK q \in Nat : q = 2 * h - 2
  <2>1. 2 * h - 2 \in Nat
    BY <1>1
  <2> QED BY <2>1
<1>4. q % 2 = 0
  BY <1>1, <1>3
<1>5. Sibling(r, q) = r[c]
  <2>1. CASE c = 2 * h
    <3>1. q + 2 = c
      BY <1>3, <2>1
    <3> QED BY <1>1, <1>4, <3>1 DEF Sibling
  <2>2. CASE c = 2 * h - 1
    <3>1. q + 1 = c /\ ~(q + 2 <= c)
      BY <1>1, <1>3, <2>2
    <3> QED BY <1>1, <1>4, <3>1 DEF Sibling
  <2> QED BY <2>1, <2>2 DEF HalfUp
<1> QED BY <1>2, <1>3, <1>5

\* The node over the c-th of a layer, counted from 0, is over it and its sibling.
LEMMA NodeAt ==
    ASSUME NEW r, NEW c, IsLayer(r, c), NEW h, HalfUp(c, h),
           NEW j \in Nat, j < c, NEW q \in Nat, q = j \div 2
    PROVE  /\ q < h
           /\ LayerAbove(r)[q + 1] = Joined(j % 2, r[j + 1], Sibling(r, j))
<1>1. c \in Nat /\ c >= 1 /\ h \in Nat /\ Len(r) = c
  BY DEF IsLayer, HalfUp
<1>2. PICK b \in {0, 1} : j = 2 * q + b /\ b = j % 2
  <2>1. j = 2 * (j \div 2) + (j % 2) /\ j % 2 \in {0, 1}
    OBVIOUS
  <2> QED BY <2>1
<1>3. q < h
  <2>1. c = 2 * h \/ c = 2 * h - 1
    BY DEF HalfUp
  <2> QED BY <1>1, <1>2, <2>1
<1>4. PICK e \in Nat : e = 2 * q
  OBVIOUS
<1>5. LayerAbove(r)[q + 1] = HashNode(r[e + 1], Sibling(r, e))
  <2>1. q + 1 \in 1 .. h
    BY <1>1, <1>3
  <2>2. LayerAbove(r)[q + 1] = NodeOver(r, q + 1)
    BY <2>1, LayerOver
  <2>3. 2 * (q + 1) - 1 = e + 1 /\ 2 * (q + 1) - 2 = e
    BY <1>4
  <2> QED BY <2>2, <2>3 DEF NodeOver
<1>6. CASE b = 0
  <2>1. j = e /\ j % 2 = 0
    BY <1>2, <1>4, <1>6
  <2> QED BY <1>3, <1>5, <2>1 DEF Joined
<1>7. CASE b = 1
  <2>1. j = e + 1 /\ j % 2 = 1 /\ e % 2 = 0
    BY <1>2, <1>4, <1>7
  <2>2. Sibling(r, e) = r[j + 1]
    <3>1. e + 2 <= Len(r) /\ e + 2 = j + 1
      BY <1>1, <2>1
    <3> QED BY <2>1, <3>1 DEF Sibling
  <2>3. Sibling(r, j) = r[e + 1]
    BY <2>1 DEF Sibling
  <2> QED BY <1>3, <1>5, <2>1, <2>2, <2>3 DEF Joined
<1> QED BY <1>2, <1>6, <1>7

\* The layers l lie on top of each other, the lowest of them r, up to the first of one node.
Tower(l, r) ==
    /\ IsSeq(l) /\ Len(l) >= 1 /\ l[1] = r
    /\ \A k \in 1 .. Len(l) : \E c \in Nat : IsLayer(l[k], c) /\ (k < Len(l) => c > 1)
    /\ \A k \in 1 .. Len(l) - 1 : l[k + 1] = LayerAbove(l[k])

\* A row on its own.
LEMMA OneLayer ==
    ASSUME NEW r, NEW c, IsLayer(r, c), NEW l, l = <<r>>
    PROVE  Tower(l, r) /\ Last(l) = r
<1>1. IsSeq(l) /\ Len(l) = 1 /\ l[1] = r
  BY OneSeq
<1>2. c \in Nat
  BY DEF IsLayer
<1>3. Last(l) = r
  BY <1>1 DEF Last
<1>4. \A k \in 1 .. 1 : k = 1 /\ ~(k < 1)
  OBVIOUS
<1>5. \A k \in 1 .. Len(l) : \E d \in Nat : IsLayer(l[k], d) /\ (k < Len(l) => d > 1)
  BY <1>1, <1>2, <1>4
<1>6. \A k \in 1 .. Len(l) - 1 : FALSE
  BY <1>1
<1> QED BY <1>1, <1>3, <1>5, <1>6 DEF Tower

\* One layer more on top of one of c nodes.
LEMMA OneLayerMore ==
    ASSUME NEW l, NEW r, Tower(l, r), NEW c, IsLayer(Last(l), c), c > 1,
           NEW h, HalfUp(c, h), NEW t, t = Append(l, LayerAbove(Last(l)))
    PROVE  Tower(t, r) /\ IsLayer(Last(t), h)
<1>1. PICK n \in Nat : n = Len(l) /\ n >= 1
  BY Appended DEF Tower
<1>2. PICK x, y : x = l[n] /\ y = LayerAbove(x)
  OBVIOUS
<1>3. Last(l) = x /\ t = Append(l, y)
  BY <1>1, <1>2 DEF Last
<1>4. IsSeq(t) /\ Len(t) = n + 1 /\ t[n + 1] = y /\ \A k \in 1 .. n : t[k] = l[k]
  <2>1. IsSeq(l)
    BY DEF Tower
  <2> QED BY <1>1, <1>3, <2>1, Appended
<1>5. IsLayer(y, h) /\ Last(t) = y
  <2>1. IsLayer(y, h)
    BY <1>2, <1>3, LayerOver
  <2> QED BY <1>4, <2>1 DEF Last
<1>6. t[1] = r
  <2>1. 1 \in 1 .. n
    BY <1>1
  <2> QED BY <1>4, <2>1 DEF Tower
<1>7. ASSUME NEW k \in 1 .. n + 1
      PROVE  \E d \in Nat : IsLayer(t[k], d) /\ (k < n + 1 => d > 1)
  <2>1. CASE k = n + 1
    <3>1. h \in Nat
      BY DEF HalfUp
    <3> QED BY <1>1, <1>4, <1>5, <2>1, <3>1
  <2>2. CASE k = n
    <3>1. t[k] = x /\ c \in Nat
      <4>1. k \in 1 .. n
        BY <1>1, <2>2
      <4> QED BY <1>2, <1>4, <2>2, <4>1 DEF IsLayer
    <3> QED BY <1>3, <3>1
  <2>3. CASE k \in 1 .. n /\ k < n
    <3>1. PICK d \in Nat : IsLayer(l[k], d) /\ (k < n => d > 1)
      BY <1>1, <2>3 DEF Tower
    <3> QED BY <1>4, <2>3, <3>1
  <2> QED BY <1>1, <2>1, <2>2, <2>3
<1>8. ASSUME NEW k \in 1 .. n PROVE t[k + 1] = LayerAbove(t[k])
  <2>1. CASE k = n
    <3>1. t[k] = x
      BY <1>2, <1>4, <2>1
    <3> QED BY <1>2, <1>4, <2>1, <3>1
  <2>2. CASE k < n
    <3>1. k \in 1 .. n - 1 /\ k + 1 \in 1 .. n
      BY <1>1, <2>2
    <3>2. l[k + 1] = LayerAbove(l[k])
      BY <1>1, <3>1 DEF Tower
    <3> QED BY <1>4, <3>1, <3>2
  <2> QED BY <1>1, <2>1, <2>2
<1>9. \A k \in 1 .. Len(t) : \E d \in Nat : IsLayer(t[k], d) /\ (k < Len(t) => d > 1)
  BY <1>4, <1>7
<1>10. \A k \in 1 .. Len(t) - 1 : t[k + 1] = LayerAbove(t[k])
  <2>1. Len(t) - 1 = n
    BY <1>4
  <2> QED BY <1>8, <2>1
<1>11. Len(t) >= 1
  BY <1>1, <1>4
<1> QED BY <1>4, <1>5, <1>6, <1>9, <1>10, <1>11 DEF Tower

\* The leaves are the lowest layer.
LEMMA LeavesAreLayer ==
    ASSUME NEW w, IsSeq(w), NEW n \in Nat, n >= 1, n = Len(w)
    PROVE  IsLayer(LeafLayer(w), n) /\ \A i \in 1 .. n : LeafLayer(w)[i] = HashLeaf(w[i])
<1>1. PICK r : r = LeafLayer(w)
  OBVIOUS
<1>2. r = [i \in 1 .. n |-> HashLeaf(w[i])]
  BY <1>1 DEF LeafLayer
<1> DEFINE S == {HashLeaf(w[i]) : i \in 1 .. n}
<1>3. r \in [1 .. n -> S]
  BY <1>2
<1> HIDE DEF S
<1>4. r \in Seq(S) /\ Len(r) = n
  BY <1>3
<1>5. IsSeq(r)
  BY <1>4, SeqIsSeq
<1> QED BY <1>1, <1>2, <1>4, <1>5 DEF IsLayer

\* The layers over w end with a single node.
LEMMA LayersAreTower ==
    ASSUME NEW w, IsSeq(w), NEW n \in Nat, n >= 1, n = Len(w)
    PROVE  Tower(Layers(w), LeafLayer(w)) /\ IsLayer(Last(Layers(w)), 1)
<1>1. PICK r : r = LeafLayer(w)
  OBVIOUS
<1>2. IsLayer(r, n)
  BY <1>1, LeavesAreLayer
<1>3. PICK f : Towering(f, w, n) /\ Layers(w) = f[n]
  BY ToweringExists
<1> DEFINE Good(l, k) == Tower(l, r) /\ \E c \in Nat : IsLayer(Last(l), c) /\ (c = 1 \/ c + k <= n)
           A == {k \in Nat : k <= n => Good(f[k], k)}
<1>4. A \in SUBSET Nat /\ \A k \in Nat : k \in A <=> (k <= n => Good(f[k], k))
  <2> HIDE DEF Good
  <2> QED OBVIOUS
<1> HIDE DEF A
<1>5. 0 \in A
  <2>1. PICK l : l = f[0]
    OBVIOUS
  <2>2. l = <<r>>
    BY <1>1, <1>3, <2>1 DEF Towering
  <2>3. Tower(l, r) /\ Last(l) = r
    BY <1>2, <2>2, OneLayer
  <2>4. Good(l, 0)
    BY <1>2, <2>3
  <2> HIDE DEF Good
  <2> QED BY <1>4, <2>1, <2>4
<1>6. ASSUME NEW k \in A PROVE k + 1 \in A
  <2>1. k \in Nat
    BY <1>4
  <2>2. SUFFICES ASSUME k + 1 <= n PROVE Good(f[k + 1], k + 1)
    <3> HIDE DEF Good
    <3> QED BY <1>4, <2>1
  <2>3. k + 1 \in 1 .. n /\ (k + 1) - 1 = k /\ k <= n
    BY <2>1, <2>2
  <2>4. Good(f[k], k)
    <3> HIDE DEF Good
    <3> QED BY <1>4, <2>1, <2>3
  <2>5. PICK s, t : s = f[k] /\ t = f[k + 1]
    OBVIOUS
  <2>6. t = LayerPut(s)
    <3>1. f[k + 1] = LayerPut(f[k])
      BY <1>3, <2>3 DEF Towering
    <3> QED BY <2>5, <3>1
  <2>7. Tower(s, r)
    BY <2>4, <2>5
  <2>8. PICK c \in Nat : IsLayer(Last(s), c) /\ (c = 1 \/ c + k <= n)
    BY <2>4, <2>5
  <2>9. c = Len(Last(s)) /\ c >= 1
    BY <2>8 DEF IsLayer
  <2>10. CASE c = 1
    <3>1. t = s
      BY <2>6, <2>9, <2>10 DEF LayerPut
    <3>2. Good(t, k + 1)
      BY <2>7, <2>8, <2>10, <3>1
    <3> HIDE DEF Good
    <3> QED BY <2>5, <3>2
  <2>11. CASE c > 1
    <3>1. t = Append(s, LayerAbove(Last(s)))
      BY <2>6, <2>9, <2>11 DEF LayerPut
    <3>2. PICK h \in Nat : HalfUp(c, h)
      BY <2>9, Halves
    <3>3. Tower(t, r) /\ IsLayer(Last(t), h)
      BY <2>7, <2>8, <2>11, <3>1, <3>2, OneLayerMore
    <3>4. h + (k + 1) <= n
      <4>1. c = 2 * h \/ c = 2 * h - 1
        BY <3>2 DEF HalfUp
      <4>2. h + 1 <= c
        BY <2>11, <4>1
      <4>3. c + k <= n
        BY <2>8, <2>11
      <4> QED BY <2>1, <4>2, <4>3
    <3>5. Good(t, k + 1)
      BY <3>3, <3>4
    <3> HIDE DEF Good
    <3> QED BY <2>5, <3>5
  <2> HIDE DEF Good
  <2> QED BY <2>9, <2>10, <2>11
<1>7. A = Nat
  BY <1>4, <1>5, <1>6, InductiveSet
<1>8. Good(f[n], n)
  <2> HIDE DEF Good
  <2> QED BY <1>4, <1>7
<1>9. PICK l : l = f[n]
  OBVIOUS
<1>10. Good(l, n)
  <2> HIDE DEF Good
  <2> QED BY <1>8, <1>9
<1>11. PICK c \in Nat : IsLayer(Last(l), c) /\ (c = 1 \/ c + n <= n)
  BY <1>10
<1>12. c = 1
  BY <1>11 DEF IsLayer
<1> QED BY <1>1, <1>3, <1>9, <1>10, <1>11, <1>12

-----------------------------------------------------------------------------
(* Proofs.                                                                  *)

\* The place of the j-th leaf in each layer, and its node there.
LEMMA PlaceInLayer ==
    ASSUME NEW l, NEW r, NEW c, IsLayer(r, c), Tower(l, r), NEW j \in Nat, j < c,
           NEW k \in Nat, k + 1 <= Len(l)
    PROVE  /\ Shifted(j, k) \in Nat
           /\ \E d : IsLayer(l[k + 1], d) /\ Shifted(j, k) < d
<1>1. PICK n \in Nat : n = Len(l) /\ n >= 1
  BY Appended DEF Tower
<1> DEFINE Good(m) == Shifted(j, m) \in Nat /\ \E d : IsLayer(l[m + 1], d) /\ Shifted(j, m) < d
           A == {m \in Nat : m + 1 <= n => Good(m)}
<1>2. A \in SUBSET Nat /\ \A m \in Nat : m \in A <=> (m + 1 <= n => Good(m))
  <2> HIDE DEF Good
  <2> QED OBVIOUS
<1> HIDE DEF A
<1>3. 0 \in A
  <2>1. Shifted(j, 0) = j
    BY ShiftedBy
  <2>2. l[0 + 1] = r
    BY DEF Tower
  <2>3. Good(0)
    BY <2>1, <2>2
  <2> HIDE DEF Good
  <2> QED BY <1>2, <2>3
<1>4. ASSUME NEW m \in A PROVE m + 1 \in A
  <2>1. m \in Nat /\ m + 1 \in Nat
    BY <1>2
  <2>2. SUFFICES ASSUME (m + 1) + 1 <= n PROVE Good(m + 1)
    <3> HIDE DEF Good
    <3> QED BY <1>2, <2>1
  <2>3. m + 1 <= n /\ m + 1 \in 1 .. n - 1
    BY <1>1, <2>1, <2>2
  <2>4. Good(m)
    <3> HIDE DEF Good
    <3> QED BY <1>2, <2>1, <2>3
  <2>5. PICK d \in Nat : IsLayer(l[m + 1], d) /\ Shifted(j, m) < d
    BY <2>4 DEF IsLayer
  <2>6. PICK h \in Nat : HalfUp(d, h)
    BY <2>5, Halves DEF IsLayer
  <2>7. l[(m + 1) + 1] = LayerAbove(l[m + 1])
    BY <1>1, <2>3 DEF Tower
  <2>8. IsLayer(l[(m + 1) + 1], h)
    BY <2>5, <2>6, <2>7, LayerOver
  <2>9. PICK s \in Nat : s = Shifted(j, m)
    BY <2>4
  <2>10. Shifted(j, m + 1) = s \div 2
    BY <2>1, <2>9, ShiftedBy
  <2>11. PICK q \in Nat : q = s \div 2
    OBVIOUS
  <2>12. q < h
    <3>1. s < d
      BY <2>5, <2>9
    <3>2. d = 2 * h \/ d = 2 * h - 1
      BY <2>6 DEF HalfUp
    <3> QED BY <2>11, <3>1, <3>2
  <2>13. Shifted(j, m + 1) = q
    BY <2>10, <2>11
  <2>14. Good(m + 1)
    BY <2>8, <2>12, <2>13
  <2> HIDE DEF Good
  <2> QED BY <2>14
<1>5. A = Nat
  BY <1>2, <1>3, <1>4, InductiveSet
<1>6. Good(k)
  <2> HIDE DEF Good
  <2> QED BY <1>1, <1>2, <1>5
<1> QED BY <1>6

\* The node above that of the j-th leaf in the layer k + 1.
LEMMA NextPlace ==
    ASSUME NEW l, NEW r, NEW c, IsLayer(r, c), Tower(l, r), NEW j \in Nat, j < c,
           NEW k \in Nat, k + 1 < Len(l)
    PROVE  l[(k + 1) + 1][Shifted(j, k + 1) + 1]
             = Joined(Bit(j, k), l[k + 1][Shifted(j, k) + 1], Sibling(l[k + 1], Shifted(j, k)))
<1>1. PICK n \in Nat : n = Len(l) /\ n >= 1
  BY Appended DEF Tower
<1>2. PICK s \in Nat : s = Shifted(j, k)
  BY ShiftedBy
<1>3. PICK d \in Nat : IsLayer(l[k + 1], d) /\ s < d
  <2>1. k + 1 <= Len(l)
    BY <1>1
  <2> QED BY <1>2, <2>1, PlaceInLayer DEF IsLayer
<1>4. PICK h \in Nat : HalfUp(d, h)
  BY <1>3, Halves DEF IsLayer
<1>5. PICK q \in Nat : q = s \div 2
  OBVIOUS
<1>6. PICK row : row = l[k + 1]
  OBVIOUS
<1>7. l[(k + 1) + 1] = LayerAbove(row)
  <2>1. k + 1 \in 1 .. n - 1
    BY <1>1
  <2> QED BY <1>1, <1>6, <2>1 DEF Tower
<1>8. Shifted(j, k + 1) = q
  BY <1>2, <1>5, ShiftedBy
<1>9. LayerAbove(row)[q + 1] = Joined(s % 2, row[s + 1], Sibling(row, s))
  BY <1>3, <1>4, <1>5, <1>6, NodeAt
<1> QED BY <1>2, <1>6, <1>7, <1>8, <1>9 DEF Bit

\* One step up a proof loses nothing.
LEMMA JoinedSame ==
    ASSUME NEW b, NEW s, NEW t, NEW u
    PROVE  Joined(b, s, u) = Joined(b, t, u) <=> s = t
<1>1. \A x, y, z : HashNode(x, z) = HashNode(y, z) <=> x = y
  BY DEF HashNode
<1>2. \A x, y, z : HashNode(z, x) = HashNode(z, y) <=> x = y
  BY DEF HashNode
<1> QED BY <1>1, <1>2 DEF Joined

\* Different leaves have different hashes.
LEMMA LeavesSame ==
    ASSUME NEW x, NEW y
    PROVE  HashLeaf(x) = HashLeaf(y) <=> x = y
BY DEF HashLeaf

\* Of a row that is not empty, the root is the node at the top.
LEMMA RootOnTop ==
    ASSUME NEW w, IsSeq(w), NEW n \in Nat, n >= 1, n = Len(w)
    PROVE  /\ MerkleRoot(w) = Last(Layers(w))[1]
           /\ Tower(Layers(w), LeafLayer(w)) /\ IsLayer(Last(Layers(w)), 1)
<1>1. w # <<>>
  <2> DEFINE S == {w[i] : i \in DOMAIN w}
  <2>1. w \in Seq(S) /\ Len(w) >= 1
    BY DEF IsSeq
  <2> HIDE DEF S
  <2> QED BY <2>1
<1> QED BY <1>1, LayersAreTower DEF MerkleRoot

\* A proof of the place of a leaf verifies with that leaf and with no other.
LEMMA ProofHolds ==
    ASSUME NEW w, IsSeq(w), NEW n \in Nat, n = Len(w), NEW i \in 1 .. n, NEW t
    PROVE  VerifyMerkleProof(t, MerkleProof(w, i - 1), MerkleRoot(w)) <=> t = w[i]
<1>1. PICK j \in Nat : j = i - 1 /\ j < n /\ j + 1 = i
  <2>1. i - 1 \in Nat /\ i - 1 < n /\ (i - 1) + 1 = i
    OBVIOUS
  <2> QED BY <2>1
<1>2. n >= 1
  BY <1>1
<1>3. PICK l : l = Layers(w)
  OBVIOUS
<1>4. PICK r : r = LeafLayer(w)
  OBVIOUS
<1>5. /\ MerkleRoot(w) = Last(l)[1]
      /\ Tower(l, r) /\ IsLayer(Last(l), 1)
  BY <1>2, <1>3, <1>4, RootOnTop
<1>6. IsLayer(r, n) /\ r[j + 1] = HashLeaf(w[i])
  BY <1>1, <1>2, <1>4, LeavesAreLayer
<1>7. PICK d \in Nat : Len(l) = d + 1
  <2>1. PICK m \in Nat : m = Len(l) /\ m >= 1
    BY <1>5, Appended DEF Tower
  <2>2. m - 1 \in Nat /\ m = (m - 1) + 1
    BY <2>1
  <2> QED BY <2>1, <2>2
<1>8. PICK p : p = MerkleProof(w, j)
  OBVIOUS
<1>9. /\ p.index = j /\ Len(p.siblings) = d
      /\ \A k \in 1 .. d : p.siblings[k] = Sibling(l[k], Shifted(j, k - 1))
  <2>1. p = [siblings |-> [k \in 1 .. Len(l) - 1 |-> Sibling(l[k], Shifted(j, k - 1))], index |-> j]
    BY <1>3, <1>8 DEF MerkleProof
  <2>2. PICK s : s = [k \in 1 .. Len(l) - 1 |-> Sibling(l[k], Shifted(j, k - 1))]
    OBVIOUS
  <2>3. p.index = j /\ p.siblings = s
    BY <2>1, <2>2
  <2>4. s = [k \in 1 .. d |-> Sibling(l[k], Shifted(j, k - 1))]
    BY <1>7, <2>2
  <2>5. IsSeq(s) /\ Len(s) = d
    <3> DEFINE S == {Sibling(l[k], Shifted(j, k - 1)) : k \in 1 .. d}
    <3>1. s \in [1 .. d -> S]
      BY <2>4
    <3> HIDE DEF S
    <3>2. s \in Seq(S) /\ Len(s) = d
      BY <3>1
    <3> QED BY <3>2, SeqIsSeq
  <2>6. \A k \in 1 .. d : s[k] = Sibling(l[k], Shifted(j, k - 1))
    BY <2>4
  <2> QED BY <2>3, <2>5, <2>6
<1>10. PICK f : /\ Climbing(f, t, p, d)
                /\ \A root : VerifyMerkleProof(t, p, root) <=> f[d] = root
  BY <1>9, ClimbingExists
<1> DEFINE A == {k \in Nat : k <= d => (f[k] = l[k + 1][Shifted(j, k) + 1] <=> t = w[i])}
<1>11. A \in SUBSET Nat /\ \A k \in Nat : k \in A <=>
          (k <= d => (f[k] = l[k + 1][Shifted(j, k) + 1] <=> t = w[i]))
  OBVIOUS
<1> HIDE DEF A
<1>12. 0 \in A
  <2>1. f[0] = HashLeaf(t)
    BY <1>10 DEF Climbing
  <2>2. l[0 + 1] = r /\ Shifted(j, 0) = j
    BY <1>5, ShiftedBy DEF Tower
  <2>3. f[0] = l[0 + 1][Shifted(j, 0) + 1] <=> t = w[i]
    BY <1>6, <2>1, <2>2, LeavesSame
  <2> QED BY <1>11, <2>3
<1>13. ASSUME NEW k \in A PROVE k + 1 \in A
  <2>1. k \in Nat /\ k + 1 \in Nat
    BY <1>11
  <2>2. SUFFICES ASSUME k + 1 <= d
                 PROVE  f[k + 1] = l[(k + 1) + 1][Shifted(j, k + 1) + 1] <=> t = w[i]
    BY <1>11, <2>1
  <2>3. k <= d /\ k + 1 \in 1 .. d /\ (k + 1) - 1 = k /\ k + 1 < Len(l)
    BY <1>7, <2>1, <2>2
  <2>4. f[k] = l[k + 1][Shifted(j, k) + 1] <=> t = w[i]
    BY <1>11, <2>1, <2>3
  <2>5. PICK u : u = Sibling(l[k + 1], Shifted(j, k))
    OBVIOUS
  <2>6. PICK b : b = Bit(j, k)
    OBVIOUS
  <2>7. f[k + 1] = Joined(b, f[k], u)
    <3>1. f[k + 1] = Joined(Bit(p.index, (k + 1) - 1), f[(k + 1) - 1], p.siblings[k + 1])
      BY <1>10, <2>3 DEF Climbing
    <3>2. p.siblings[k + 1] = Sibling(l[k + 1], Shifted(j, (k + 1) - 1))
      BY <1>9, <2>3
    <3> QED BY <1>9, <2>3, <2>5, <2>6, <3>1, <3>2
  <2>8. l[(k + 1) + 1][Shifted(j, k + 1) + 1] = Joined(b, l[k + 1][Shifted(j, k) + 1], u)
    BY <1>1, <1>5, <1>6, <2>1, <2>3, <2>5, <2>6, NextPlace
  <2> QED BY <2>4, <2>7, <2>8, JoinedSame
<1>14. A = Nat
  BY <1>11, <1>12, <1>13, InductiveSet
<1>15. f[d] = l[d + 1][Shifted(j, d) + 1] <=> t = w[i]
  BY <1>11, <1>14
<1>16. l[d + 1][Shifted(j, d) + 1] = MerkleRoot(w)
  <2>1. l[d + 1] = Last(l)
    BY <1>7 DEF Last
  <2>2. Shifted(j, d) \in Nat /\ \E c : IsLayer(l[d + 1], c) /\ Shifted(j, d) < c
    <3>1. d + 1 <= Len(l) /\ j < n
      BY <1>1, <1>7
    <3> QED BY ONLY <1>5, <1>6, <3>1, PlaceInLayer
  <2>3. Shifted(j, d) = 0
    BY <1>5, <2>1, <2>2 DEF IsLayer
  <2> QED BY <1>5, <2>1, <2>3
<1>17. VerifyMerkleProof(t, p, MerkleRoot(w)) <=> t = w[i]
  BY <1>10, <1>15, <1>16
<1> QED BY <1>1, <1>8, <1>17

-----------------------------------------------------------------------------
(* The last leaf and the root.                                              *)

\* Towers that are the same from the second layer on have the same top.
LEMMA SameTop ==
    ASSUME NEW l, NEW r, NEW o, NEW s, Tower(l, r), Tower(o, s),
           IsLayer(Last(l), 1), IsLayer(Last(o), 1),
           Len(l) > 1, Len(o) > 1, l[2] = o[2], Len(l) <= Len(o)
    PROVE  Last(l) = Last(o)
<1>1. PICK n \in Nat : n = Len(l) /\ n > 1
  BY Appended DEF Tower
<1>2. PICK m \in Nat : m = Len(o) /\ n <= m
  BY <1>1, Appended DEF Tower
<1> DEFINE A == {k \in Nat : k + 2 <= n => l[k + 2] = o[k + 2]}
<1>3. A \in SUBSET Nat /\ \A k \in Nat : k \in A <=> (k + 2 <= n => l[k + 2] = o[k + 2])
  OBVIOUS
<1> HIDE DEF A
<1>4. 0 \in A
  <2>1. 0 + 2 = 2
    OBVIOUS
  <2> QED BY <1>3, <2>1
<1>5. ASSUME NEW k \in A PROVE k + 1 \in A
  <2>1. k \in Nat /\ k + 1 \in Nat
    BY <1>3
  <2>2. SUFFICES ASSUME (k + 1) + 2 <= n PROVE l[(k + 1) + 2] = o[(k + 1) + 2]
    BY <1>3, <2>1
  <2>3. PICK e \in Nat : e = k + 2
    BY <2>1
  <2>4. e <= n /\ e \in 1 .. n - 1 /\ e \in 1 .. m - 1 /\ (k + 1) + 2 = e + 1
    BY <1>2, <2>1, <2>2, <2>3
  <2>5. l[e] = o[e]
    BY <1>3, <2>1, <2>3, <2>4
  <2>6. l[e + 1] = LayerAbove(l[e]) /\ o[e + 1] = LayerAbove(o[e])
    BY <1>1, <1>2, <2>4 DEF Tower
  <2> QED BY <2>4, <2>5, <2>6
<1>6. A = Nat
  BY <1>3, <1>4, <1>5, InductiveSet
<1>7. l[n] = o[n]
  <2>1. PICK k \in Nat : k = n - 2 /\ k + 2 = n
    <3>1. n - 2 \in Nat /\ (n - 2) + 2 = n
      BY <1>1
    <3> QED BY <3>1
  <2> QED BY <1>3, <1>6, <2>1
<1>8. n = m
  <2>1. SUFFICES ASSUME n < m PROVE FALSE
    BY <1>2
  <2>2. n \in 1 .. Len(o) /\ n < Len(o)
    BY <1>1, <1>2, <2>1
  <2>3. PICK c \in Nat : IsLayer(o[n], c) /\ c > 1
    BY <2>2 DEF Tower
  <2>4. Len(o[n]) = c
    BY <2>3 DEF IsLayer
  <2>5. Len(l[n]) = 1
    BY <1>1 DEF IsLayer, Last
  <2>6. c = 1
    BY ONLY <1>7, <2>4, <2>5, Zenon
  <2> QED BY ONLY <2>3, <2>6
<1> QED BY <1>1, <1>2, <1>7, <1>8 DEF Last

\* The last node d layers below the top.
RightEnd(l, d) == l[Len(l) - d][Len(l[Len(l) - d])]

\* Going down, the last node of a layer is the right side of the last node above it.
LEMMA RightSide ==
    ASSUME NEW l, NEW r, Tower(l, r), NEW d \in Nat, d + 1 < Len(l)
    PROVE  \E x : RightEnd(l, d) = HashNode(x, RightEnd(l, d + 1))
<1>1. PICK n \in Nat : n = Len(l)
  BY Appended DEF Tower
<1>2. PICK k \in Nat : k = n - (d + 1) /\ k \in 1 .. n - 1 /\ k + 1 = n - d /\ k \in 1 .. n
  <2>1. n - (d + 1) \in Nat /\ n - (d + 1) \in 1 .. n - 1 /\ (n - (d + 1)) + 1 = n - d
        /\ n - (d + 1) \in 1 .. n
    BY <1>1
  <2> QED BY <2>1
<1>3. PICK c \in Nat : IsLayer(l[k], c)
  BY <1>1, <1>2 DEF Tower
<1>4. PICK h \in Nat : HalfUp(c, h)
  BY <1>3, Halves DEF IsLayer
<1>5. l[k + 1] = LayerAbove(l[k])
  BY <1>1, <1>2 DEF Tower
<1>6. IsLayer(l[k + 1], h)
  BY <1>3, <1>4, <1>5, LayerOver
<1>7. PICK x : l[k + 1][h] = HashNode(x, l[k][c])
  <2>1. \E x : LayerAbove(l[k])[h] = HashNode(x, l[k][c])
    BY <1>3, <1>4, LastOver
  <2> QED BY <1>5, <2>1
<1>8. RightEnd(l, d) = l[k + 1][h]
  BY <1>1, <1>2, <1>6 DEF RightEnd, IsLayer
<1>9. RightEnd(l, d + 1) = l[k][c]
  BY <1>1, <1>2, <1>3 DEF RightEnd, IsLayer
<1> QED BY <1>7, <1>8, <1>9

\* A hash is of a leaf or of a node, and of one only.
LEMMA HashesDiffer ==
    ASSUME NEW x, NEW a, NEW b
    PROVE  HashLeaf(x) # HashNode(a, b)
<1>1. <<x>> # <<a, b>>
  <2>1. Len(<<x>>) = 1 /\ Len(<<a, b>>) = 2
    OBVIOUS
  <2> QED BY <2>1
<1> QED BY <1>1 DEF HashLeaf, HashNode

\* A node tells its sides.
LEMMA NodesDiffer ==
    ASSUME NEW a, NEW b, NEW c, NEW d, HashNode(a, b) = HashNode(c, d)
    PROVE  a = c /\ b = d
BY DEF HashNode

\* The lowest right end is the last leaf.
LEMMA LastLeaf ==
    ASSUME NEW w, IsSeq(w), NEW n \in Nat, n >= 1, n = Len(w), NEW l, Tower(l, LeafLayer(w)),
           NEW d \in Nat, d + 1 = Len(l)
    PROVE  RightEnd(l, d) = HashLeaf(w[n])
<1>1. Len(l) - d = 1
  <2>1. Len(l) \in Nat
    BY Appended DEF Tower
  <2> QED BY <2>1
<1>2. l[1] = LeafLayer(w)
  BY DEF Tower
<1>3. Len(LeafLayer(w)) = n /\ LeafLayer(w)[n] = HashLeaf(w[n])
  <2>1. n \in 1 .. n
    OBVIOUS
  <2> QED BY <2>1, LeavesAreLayer DEF IsLayer
<1> QED BY <1>1, <1>2, <1>3 DEF RightEnd

\* l is the tower over the n leaves of w.
TowerOver(l, w, n) ==
    /\ IsSeq(w) /\ n \in Nat /\ n >= 1 /\ n = Len(w)
    /\ Tower(l, LeafLayer(w)) /\ IsLayer(Last(l), 1)

\* Equal roots are of towers of the same height that end in the same leaf.
LEMMA SameRoot ==
    ASSUME NEW l, NEW w, NEW n, TowerOver(l, w, n), NEW o, NEW v, NEW m, TowerOver(o, v, m),
           Last(l)[1] = Last(o)[1], Len(l) <= Len(o)
    PROVE  Len(l) = Len(o) /\ w[n] = v[m]
<1>0. /\ IsSeq(w) /\ n \in Nat /\ n >= 1 /\ n = Len(w)
      /\ Tower(l, LeafLayer(w)) /\ IsLayer(Last(l), 1)
      /\ IsSeq(v) /\ m \in Nat /\ m >= 1 /\ m = Len(v)
      /\ Tower(o, LeafLayer(v)) /\ IsLayer(Last(o), 1)
  BY DEF TowerOver
<1>1. PICK a \in Nat : a = Len(l) /\ a >= 1
  BY <1>0, Appended DEF Tower
<1>2. PICK b \in Nat : b = Len(o) /\ b >= a
  BY <1>0, <1>1, Appended DEF Tower
<1> DEFINE A == {k \in Nat : k + 1 <= a => RightEnd(l, k) = RightEnd(o, k)}
<1>3. A \in SUBSET Nat /\ \A k \in Nat : k \in A <=> (k + 1 <= a => RightEnd(l, k) = RightEnd(o, k))
  OBVIOUS
<1> HIDE DEF A
<1>4. 0 \in A
  <2>1. RightEnd(l, 0) = Last(l)[1]
    <3>1. Len(l) - 0 = Len(l) /\ Len(Last(l)) = 1
      BY <1>0, <1>1 DEF IsLayer
    <3> QED BY <3>1 DEF RightEnd, Last
  <2>2. RightEnd(o, 0) = Last(o)[1]
    <3>1. Len(o) - 0 = Len(o) /\ Len(Last(o)) = 1
      BY <1>0, <1>2 DEF IsLayer
    <3> QED BY <3>1 DEF RightEnd, Last
  <2> QED BY <1>3, <2>1, <2>2
<1>5. ASSUME NEW k \in A PROVE k + 1 \in A
  <2>1. k \in Nat /\ k + 1 \in Nat
    BY <1>3
  <2>2. SUFFICES ASSUME (k + 1) + 1 <= a PROVE RightEnd(l, k + 1) = RightEnd(o, k + 1)
    BY <1>3, <2>1
  <2>3. k + 1 <= a /\ k + 1 < Len(l) /\ k + 1 < Len(o)
    BY <1>1, <1>2, <2>1, <2>2
  <2>4. RightEnd(l, k) = RightEnd(o, k)
    BY <1>3, <2>1, <2>3
  <2>5. PICK x : RightEnd(l, k) = HashNode(x, RightEnd(l, k + 1))
    BY <1>0, <2>1, <2>3, RightSide
  <2>6. PICK y : RightEnd(o, k) = HashNode(y, RightEnd(o, k + 1))
    BY <1>0, <2>1, <2>3, RightSide
  <2>7. HashNode(x, RightEnd(l, k + 1)) = HashNode(y, RightEnd(o, k + 1))
    BY <2>4, <2>5, <2>6
  <2> QED BY <2>7, NodesDiffer
<1>6. A = Nat
  BY <1>3, <1>4, <1>5, InductiveSet
<1>7. PICK d \in Nat : d + 1 = a
  <2>1. a - 1 \in Nat /\ (a - 1) + 1 = a
    BY <1>1
  <2> QED BY <2>1
<1>8. RightEnd(l, d) = RightEnd(o, d)
  BY <1>3, <1>6, <1>7
<1>9. RightEnd(l, d) = HashLeaf(w[n])
  BY <1>0, <1>1, <1>7, LastLeaf
<1>10. a = b
  <2>1. SUFFICES ASSUME a < b PROVE FALSE
    BY <1>2
  <2>2. d + 1 < Len(o)
    BY <1>2, <1>7, <2>1
  <2>3. PICK y : RightEnd(o, d) = HashNode(y, RightEnd(o, d + 1))
    BY <1>0, <2>2, RightSide
  <2> QED BY <1>8, <1>9, <2>3, HashesDiffer
<1>11. RightEnd(o, d) = HashLeaf(v[m])
  BY <1>0, <1>2, <1>7, <1>10, LastLeaf
<1> QED BY <1>1, <1>2, <1>8, <1>9, <1>10, <1>11, LeavesSame

\* A single leaf is its own tower.
LEMMA HeightOfTower ==
    ASSUME NEW w, IsSeq(w), NEW n \in Nat, n >= 1, n = Len(w), NEW l, Tower(l, LeafLayer(w)),
           IsLayer(Last(l), 1)
    PROVE  /\ Len(l) \in Nat
           /\ n = 1 <=> Len(l) = 1
           /\ n > 1 => Len(l) > 1 /\ l[2] = LayerAbove(LeafLayer(w))
<1>1. PICK a \in Nat : a = Len(l) /\ a >= 1
  BY Appended DEF Tower
<1>2. l[1] = LeafLayer(w) /\ Len(LeafLayer(w)) = n
  BY LeavesAreLayer DEF Tower, IsLayer
<1>3. ASSUME a = 1 PROVE n = 1
  BY <1>1, <1>2, <1>3 DEF Last, IsLayer
<1>4. ASSUME a > 1 PROVE n > 1 /\ l[2] = LayerAbove(LeafLayer(w))
  <2>1. 1 \in 1 .. Len(l) /\ 1 < Len(l) /\ 1 \in 1 .. Len(l) - 1 /\ 1 + 1 = 2
    BY <1>1, <1>4
  <2>2. PICK c \in Nat : IsLayer(l[1], c) /\ c > 1
    BY <2>1 DEF Tower
  <2>3. l[1 + 1] = LayerAbove(l[1])
    BY <2>1 DEF Tower
  <2> QED BY <1>2, <2>1, <2>2, <2>3 DEF IsLayer
<1> QED BY <1>1, <1>3, <1>4

\* v is w without its last leaf.
AllButLast(v, w, n) ==
    IsSeq(v) /\ Len(v) = n - 1 /\ \A i \in 1 .. n - 1 : v[i] = w[i]

LEMMA FrontOf ==
    ASSUME NEW w, IsSeq(w), NEW n \in Nat, n >= 1, n = Len(w)
    PROVE  AllButLast(Front(w), w, n)
<1>1. PICK v : v = Front(w)
  OBVIOUS
<1>2. v = SubSeq(w, 1, n - 1)
  BY <1>1 DEF Front
<1>3. PICK k \in 0 .. n : k = n - 1
  <2>1. n - 1 \in 0 .. n
    OBVIOUS
  <2> QED BY <2>1
<1>4. PICK b : b = SubSeq(w, k + 1, n)
  OBVIOUS
<1>5. Divided(w, n, k, v, b)
  BY <1>2, <1>3, <1>4, Parts
<1> QED BY <1>1, <1>3, <1>5 DEF Divided, AllButLast

\* An even number of leaves, the last of them twice, and one leaf less: the same second layer.
LEMMA SameSecond ==
    ASSUME NEW w, IsSeq(w), NEW n \in Nat, n = Len(w), n > 2, n % 2 = 0,
           NEW v, AllButLast(v, w, n), w[n] = w[n - 1]
    PROVE  LayerAbove(LeafLayer(v)) = LayerAbove(LeafLayer(w))
<1>1. PICK h \in Nat : n = 2 * h /\ h >= 1
  <2>1. n \div 2 \in Nat /\ n = 2 * (n \div 2) /\ n \div 2 >= 1
    OBVIOUS
  <2> QED BY <2>1
<1>2. PICK m \in Nat : m = n - 1
  <2>1. n - 1 \in Nat
    OBVIOUS
  <2> QED BY <2>1
<1>3. PICK r, s : r = LeafLayer(v) /\ s = LeafLayer(w)
  OBVIOUS
<1>4. IsLayer(r, m) /\ \A i \in 1 .. m : r[i] = HashLeaf(v[i])
  BY <1>2, <1>3, LeavesAreLayer DEF AllButLast
<1>5. IsLayer(s, n) /\ \A i \in 1 .. n : s[i] = HashLeaf(w[i])
  BY <1>3, LeavesAreLayer
<1>6. \A i \in 1 .. m : r[i] = s[i]
  <2>1. \A i \in 1 .. m : v[i] = w[i] /\ i \in 1 .. n
    BY <1>2 DEF AllButLast
  <2> QED BY <1>4, <1>5, <2>1
<1>7. s[n] = r[m]
  <2>1. m \in 1 .. m /\ n \in 1 .. n /\ w[n] = w[m] /\ v[m] = w[m]
    BY <1>2 DEF AllButLast
  <2> QED BY <1>4, <1>5, <2>1
<1>8. HalfUp(m, h) /\ HalfUp(n, h)
  BY <1>1, <1>2 DEF HalfUp
<1>9. PICK a, b : a = LayerAbove(r) /\ b = LayerAbove(s)
  OBVIOUS
<1>10. IsLayer(a, h) /\ \A i \in 1 .. h : a[i] = NodeOver(r, i)
  BY <1>4, <1>8, <1>9, LayerOver
<1>11. IsLayer(b, h) /\ \A i \in 1 .. h : b[i] = NodeOver(s, i)
  BY <1>5, <1>8, <1>9, LayerOver
<1>12. Len(r) = m /\ Len(s) = n
  BY <1>4, <1>5 DEF IsLayer
<1>13. ASSUME NEW i \in 1 .. h PROVE NodeOver(r, i) = NodeOver(s, i)
  <2>1. PICK e \in Nat : e = 2 * i - 2
    <3>1. 2 * i - 2 \in Nat
      OBVIOUS
    <3> QED BY <3>1
  <2>2. e % 2 = 0 /\ 2 * i - 1 = e + 1 /\ e + 1 \in 1 .. m /\ e + 2 <= n
    BY <1>1, <1>2, <2>1
  <2>3. Sibling(s, e) = s[e + 2]
    BY <1>12, <2>2 DEF Sibling
  <2>4. Sibling(r, e) = s[e + 2]
    <3>1. CASE e + 2 <= m
      <4>1. e + 2 \in 1 .. m
        BY <3>1
      <4>2. Sibling(r, e) = r[e + 2]
        BY <1>12, <2>2, <3>1 DEF Sibling
      <4> QED BY <1>6, <4>1, <4>2
    <3>2. CASE e + 2 = n
      <4>1. e + 1 = m /\ ~(e + 2 <= m)
        BY <1>2, <3>2
      <4>2. Sibling(r, e) = r[m]
        BY <1>12, <2>2, <4>1 DEF Sibling
      <4> QED BY <1>7, <3>2, <4>2
    <3> QED BY <1>2, <2>2, <3>1, <3>2
  <2>5. r[e + 1] = s[e + 1]
    BY <1>6, <2>2
  <2> QED BY <2>1, <2>2, <2>3, <2>4, <2>5 DEF NodeOver
<1>14. \A i \in 1 .. h : a[i] = b[i]
  BY <1>10, <1>11, <1>13
<1>15. a = b
  BY <1>10, <1>11, <1>14, SameSeq DEF IsLayer
<1> QED BY <1>3, <1>9, <1>15

\* The last of an odd number of leaves is paired with itself.
LEMMA RepeatUnseen ==
    ASSUME NEW w, IsSeq(w), NEW n \in Nat, n = Len(w), n > 2, n % 2 = 0,
           NEW v, AllButLast(v, w, n), w[n] = w[n - 1]
    PROVE  MerkleRoot(v) = MerkleRoot(w)
<1>1. PICK m \in Nat : m = Len(v) /\ m > 1 /\ m >= 1 /\ IsSeq(v)
  <2>1. n - 1 \in Nat /\ n - 1 > 1 /\ n - 1 >= 1
    OBVIOUS
  <2> QED BY <2>1 DEF AllButLast
<1>2. n >= 1 /\ n > 1
  OBVIOUS
<1>3. PICK o, l : o = Layers(v) /\ l = Layers(w)
  OBVIOUS
<1>4. MerkleRoot(w) = Last(l)[1] /\ Tower(l, LeafLayer(w)) /\ IsLayer(Last(l), 1)
  BY <1>2, <1>3, RootOnTop
<1>5. MerkleRoot(v) = Last(o)[1] /\ Tower(o, LeafLayer(v)) /\ IsLayer(Last(o), 1)
  BY <1>1, <1>3, RootOnTop
<1>6. Len(l) \in Nat /\ Len(l) > 1 /\ l[2] = LayerAbove(LeafLayer(w))
  BY <1>2, <1>4, HeightOfTower
<1>7. Len(o) \in Nat /\ Len(o) > 1 /\ o[2] = LayerAbove(LeafLayer(v))
  BY <1>1, <1>5, HeightOfTower
<1>8. l[2] = o[2]
  BY <1>6, <1>7, SameSecond
<1>9. Last(l) = Last(o)
  <2>1. CASE Len(l) <= Len(o)
    BY <1>4, <1>5, <1>6, <1>7, <1>8, <2>1, SameTop
  <2>2. CASE Len(o) <= Len(l)
    BY <1>4, <1>5, <1>6, <1>7, <1>8, <2>2, SameTop
  <2> QED BY <1>6, <1>7, <2>1, <2>2
<1> QED BY <1>4, <1>5, <1>9

\* A last leaf that differs from the one before it is seen in the root.
LEMMA LastLeafSeen ==
    ASSUME NEW w, IsSeq(w), NEW n \in Nat, n = Len(w), n >= 1,
           NEW v, AllButLast(v, w, n), ~(n > 2 /\ w[n] = w[n - 1])
    PROVE  MerkleRoot(v) # MerkleRoot(w)
<1>1. SUFFICES ASSUME MerkleRoot(v) = MerkleRoot(w) PROVE FALSE
  OBVIOUS
<1>2. PICK l : l = Layers(w)
  OBVIOUS
<1>3. MerkleRoot(w) = Last(l)[1] /\ Tower(l, LeafLayer(w)) /\ IsLayer(Last(l), 1)
  BY <1>2, RootOnTop
<1>4. Len(l) \in Nat /\ (n = 1 <=> Len(l) = 1)
  BY <1>3, HeightOfTower
<1>5. CASE n = 1
  <2>1. Last(l) = LeafLayer(w)
    BY <1>3, <1>4, <1>5 DEF Tower, Last
  <2>2. LeafLayer(w)[1] = HashLeaf(w[1])
    <3>1. 1 \in 1 .. n
      BY <1>5
    <3> QED BY <3>1, LeavesAreLayer
  <2>3. PICK e : e = <<>>
    OBVIOUS
  <2>4. v = e
    <3>1. IsSeq(v) /\ Len(v) = 0
      BY <1>5 DEF AllButLast
    <3>2. IsSeq(e) /\ Len(e) = 0
      BY <2>3, NothingIsSeq
    <3>3. \A i \in 1 .. 0 : v[i] = e[i]
      OBVIOUS
    <3> QED BY <3>1, <3>2, <3>3, SameSeq
  <2>5. MerkleRoot(v) = <<>>
    BY <2>3, <2>4 DEF MerkleRoot, EmptyRoot
  <2>6. PICK x : x = w[1]
    OBVIOUS
  <2>7. <<>> = <<x>>
    BY <1>1, <1>3, <2>1, <2>2, <2>5, <2>6 DEF HashLeaf
  <2>8. Len(<<>>) = 0 /\ Len(<<x>>) = 1
    OBVIOUS
  <2> QED BY <2>7, <2>8
<1>6. CASE n > 1
  <2>1. PICK m \in Nat : m = Len(v) /\ m >= 1 /\ m = n - 1 /\ IsSeq(v)
    <3>1. n - 1 \in Nat /\ n - 1 >= 1
      BY <1>6
    <3> QED BY <3>1 DEF AllButLast
  <2>2. PICK o : o = Layers(v)
    OBVIOUS
  <2>3. MerkleRoot(v) = Last(o)[1] /\ Tower(o, LeafLayer(v)) /\ IsLayer(Last(o), 1)
    BY <2>1, <2>2, RootOnTop
  <2>4. Len(o) \in Nat /\ (m = 1 <=> Len(o) = 1)
    BY <2>1, <2>3, HeightOfTower
  <2>5. Last(l)[1] = Last(o)[1]
    BY <1>1, <1>3, <2>3
  <2>6. Len(l) = Len(o) /\ w[n] = v[m]
    <3>1. TowerOver(l, w, n) /\ TowerOver(o, v, m)
      BY <1>3, <2>1, <2>3 DEF TowerOver
    <3>2. CASE Len(l) <= Len(o)
      BY <2>5, <3>1, <3>2, SameRoot
    <3>3. CASE Len(o) <= Len(l)
      <4>1. Last(o)[1] = Last(l)[1]
        BY <2>5
      <4> QED BY <3>1, <3>3, <4>1, SameRoot
    <3> QED BY <1>4, <2>4, <3>2, <3>3
  <2>7. CASE n = 2
    BY <1>4, <2>1, <2>4, <2>6, <2>7
  <2>8. CASE n > 2
    <3>1. n - 1 \in 1 .. n - 1 /\ m = n - 1
      BY <2>1, <2>8
    <3>2. v[m] = w[n - 1]
      BY <3>1 DEF AllButLast
    <3> QED BY <2>6, <2>8, <3>2
  <2> QED BY <1>6, <2>7, <2>8
<1> QED BY <1>5, <1>6

\* The Merkle tree of packages/crypto, with which the router folds its buffers: over the
\* leaves of any chain the proof made of the siblings verifies for the leaf it was made for
\* and for no other, at every place and every height; and one more leaf goes unseen in the
\* root only when it repeats the last of an odd number.
THEOREM TreeProofsVerify == MedullaSpec => []ProofsVerify
<1>1. ASSUME ChainInv PROVE ProofsVerify
  <2>1. IsSeq(leaves)
    BY <1>1 DEF ChainInv, ChainOK
  <2>2. PICK n \in Nat : n = Len(leaves) /\ n >= 1 /\ DOMAIN leaves = 1 .. n
    <3>1. Len(leaves) \in Nat /\ Len(blocks) \in Nat /\ DOMAIN leaves = 1 .. Len(leaves)
      BY <1>1, Appended DEF ChainInv, ChainOK
    <3>2. Len(blocks) >= 1 /\ Len(leaves) >= Len(blocks)
      BY <1>1 DEF ChainInv, ChainOK, EpochIsHeight, MedullaTypeOK
    <3>3. PICK n \in Nat : n = Len(leaves)
      BY <3>1
    <3>4. n >= 1
      BY <3>1, <3>2, <3>3
    <3>5. DOMAIN leaves = 1 .. n
      BY <3>1, <3>3
    <3> QED BY <3>3, <3>4, <3>5
  <2>3. PICK v : v = Front(leaves)
    OBVIOUS
  <2>4. AllButLast(v, leaves, n)
    BY <2>1, <2>2, <2>3, FrontOf
  <2>5. ASSUME NEW i \in 1 .. n, NEW t
        PROVE  VerifyMerkleProof(t, MerkleProof(leaves, i - 1), MerkleRoot(leaves)) <=> t = leaves[i]
    BY <2>1, <2>2, ProofHolds
  <2>6. ASSUME n > 2, leaves[n] = leaves[n - 1], n % 2 = 0
        PROVE  MerkleRoot(v) = MerkleRoot(leaves)
    BY <2>1, <2>2, <2>4, <2>6, RepeatUnseen
  <2>7. ASSUME ~(n > 2 /\ leaves[n] = leaves[n - 1])
        PROVE  MerkleRoot(v) # MerkleRoot(leaves)
    BY <2>1, <2>2, <2>4, <2>7, LastLeafSeen
  <2> QED BY <2>2, <2>3, <2>5, <2>6, <2>7 DEF ProofsVerify
<1> QED BY <1>1, ChainInvariant, PTL

-----------------------------------------------------------------------------
(* The router.                                                              *)

\* Past the submission, and past the taking over of the anchor's epoch.
Placed == {"prove", "send", "commit", "record", "publish", "clear"}
Folding == {"answered"} \cup Placed
Places == {"idle", "submit", "failed"} \cup Folding

Locals == {"at", "tuple", "anchor", "root", "epoch"}

\* A call c when the blocks mined are m and the router's epoch is n: what it has an
\* anchor for was mined under the anchor's epoch.
CallOK(c, m, n) ==
    /\ DOMAIN c = Locals /\ c.at \in Places /\ c.tuple \subseteq Events
    /\ c.at \in Folding => c.anchor.epoch \in 1 .. MaxBlocks /\ <<c.anchor.epoch, c.tuple>> \in m
    /\ c.at \in Placed => n \in 1 .. MaxBlocks

\* In the daemon's first life the anchor's epoch says where in the chain b the block is.
OnChain(c, b, l) ==
    c.at \in Folding /\ l = 0 => c.anchor.epoch < Len(b) /\ b[c.anchor.epoch + 1].tuple = c.tuple

RouterOK ==
    /\ buffered \subseteq {e \in Events : kind[e] \in Subscribed}
    /\ deliveries \in [Events -> Nat]
    /\ unpublished \in Nat
    /\ currentEpoch \in 0 .. MaxBlocks
    /\ DOMAIN tick = Ticks
    /\ \A p \in Ticks : CallOK(tick[p], mined, currentEpoch) /\ OnChain(tick[p], blocks, life)
    /\ DOMAIN rows \subseteq 1 .. MaxBlocks
    /\ IsFiniteSet(mined)

\* A tick starts only when the one before it has ended, as with an interval longer than any tick.
OneAtATime == \A p, q \in Ticks : p = q

FoldsOf(e, m) == {b \in m : b[2] # ZeroTuple /\ e \in b[2]}

\* A buffered event is still to be folded unless the only tick has folded it, or lost it.
Owed(e, b, c) == IF e \in b /\ c.at \in {"idle", "submit"} THEN 1 ELSE 0

\* A call c when the router's epoch is n and b is buffered.
CallInStep(c, n, b) ==
    /\ c.at \in Placed => n = c.anchor.epoch
    /\ c.at = "submit" => c.tuple \subseteq b

RowsAreMined ==
    /\ \A n \in DOMAIN rows : <<n, rows[n]>> \in mined
    /\ life = 0 => \A n \in DOMAIN rows : n < Len(blocks) /\ blocks[n + 1].tuple = rows[n]
    /\ announced \subseteq mined

InStep ==
    /\ \A p \in Ticks : CallInStep(tick[p], currentEpoch, buffered)
    /\ RowsAreMined
    /\ FoldedPerDelivery
    /\ \A p \in Ticks, e \in Events :
            Cardinality(FoldsOf(e, mined)) + Owed(e, buffered, tick[p]) =< deliveries[e] + unpublished

IInv ==
    /\ ChainOK
    /\ RouterOK
    /\ restarts \in Nat
    /\ OneAtATime => InStep

-----------------------------------------------------------------------------
(* What a step leaves as it is.                                             *)

\* While the daemon lives its chain only grows.
ChainGrows ==
    life' = 0 => /\ life = 0 /\ Len(blocks) =< Len(blocks')
                 /\ \A i \in 1 .. Len(blocks) : blocks'[i] = blocks[i]

LEMMA ChainStep ==
    ASSUME IInv, [Next]_vars
    PROVE  ChainOK' /\ ChainGrows
<1>1. ChainOK /\ RouterOK
  BY DEF IInv
<1>2. Len(blocks) \in Nat /\ life \in Nat
  BY <1>1, Appended DEF ChainOK, EpochIsHeight, MedullaTypeOK
<1>3. CASE UNCHANGED medullaVars
  BY <1>1, <1>2, <1>3, ChainFrame DEF ChainGrows, medullaVars
<1>4. CASE Restart
  BY <1>1, <1>4, RestartKeepsChain DEF ChainGrows
<1>5. ASSUME NEW t, MiningFails(t) PROVE ChainOK' /\ ChainGrows
  BY <1>1, <1>2, <1>5, FailureKeepsChain DEF ChainGrows
<1>6. ASSUME NEW t \in Tuples, SubmitCoherenceRoot(t) PROVE ChainOK' /\ ChainGrows
  BY <1>1, <1>2, <1>6, BlockKeepsChain DEF ChainGrows
<1>7. ASSUME NEW p \in Ticks PROVE tick[p].tuple \in Tuples
  BY <1>1, CycleAssumption DEF RouterOK, CallOK
<1>8. ASSUME NEW p \in Ticks, Begin(p) \/ Step(p) PROVE ChainOK' /\ ChainGrows
  <2>1. CASE Begin(p)
    BY <1>3, <2>1 DEF Begin
  <2>2. CASE Mined(p)
    BY <1>6, <1>7, <2>2 DEF Mined
  <2>3. CASE SubmitFails(p)
    BY <1>3, <1>5, <2>3 DEF SubmitFails
  <2>4. CASE GiveUp(p)
    BY <1>3, <2>4 DEF GiveUp
  <2>5. CASE Answered(p)
    BY <1>3, <2>5 DEF Answered
  <2>6. CASE Prove(p)
    BY <1>3, <2>6 DEF Prove
  <2>7. CASE Send(p)
    BY <1>3, <2>7 DEF Send
  <2>8. CASE Commit(p)
    BY <1>3, <2>8 DEF Commit
  <2>9. CASE Record(p)
    BY <1>3, <2>9 DEF Record
  <2>10. CASE Publish(p)
    BY <1>3, <2>10 DEF Publish
  <2>11. CASE PublishFails(p)
    BY <1>3, <2>11 DEF PublishFails
  <2>12. CASE Clear(p)
    BY <1>3, <2>12 DEF Clear
  <2> QED BY <1>8, <2>1, <2>2, <2>3, <2>4, <2>5, <2>6, <2>7, <2>8, <2>9, <2>10, <2>11, <2>12 DEF Step
<1>9. CASE UNCHANGED vars
  BY <1>3, <1>9 DEF vars
<1>10. CASE \E e \in Events : Deliver(e)
  BY <1>3, <1>10 DEF Deliver
<1>11. CASE MineBlock
  BY <1>6, <1>11, MedullaAssumption DEF MineBlock
<1>12. CASE MedullaRestart
  BY <1>4, <1>12 DEF MedullaRestart
<1>13. CASE RouterRestart
  BY <1>3, <1>13 DEF RouterRestart
<1> QED BY <1>8, <1>9, <1>10, <1>11, <1>12, <1>13 DEF Next

\* A call stays as good as it was while more is mined and the router's epoch is an anchor's.
LEMMA CallKept ==
    ASSUME NEW c, NEW m, NEW k, NEW n, NEW o, CallOK(c, m, n),
           m \subseteq k, o = n \/ o \in 1 .. MaxBlocks
    PROVE  CallOK(c, k, o)
BY DEF CallOK

LEMMA OnChainKept ==
    ASSUME NEW c, NEW b, NEW d, NEW l, NEW j, NEW m, NEW n, CallOK(c, m, n), OnChain(c, b, l),
           Len(b) \in Nat, Len(d) \in Nat,
           j = 0 => l = 0 /\ Len(b) =< Len(d) /\ \A i \in 1 .. Len(b) : d[i] = b[i]
    PROVE  OnChain(c, d, j)
<1> SUFFICES ASSUME c.at \in Folding, j = 0
             PROVE  c.anchor.epoch < Len(d) /\ d[c.anchor.epoch + 1].tuple = c.tuple
  BY DEF OnChain
<1>1. MaxBlocks \in Nat
  BY MedullaAssumption
<1>2. c.anchor.epoch \in Nat
  BY <1>1 DEF CallOK
<1>3. c.anchor.epoch < Len(b) /\ b[c.anchor.epoch + 1].tuple = c.tuple
  BY DEF OnChain
<1>4. c.anchor.epoch + 1 \in 1 .. Len(b)
  BY <1>2, <1>3
<1> QED BY <1>2, <1>3, <1>4

\* The step of one call, which goes on as c.
LEMMA RouterKept ==
    ASSUME ChainOK, RouterOK, ChainOK', ChainGrows,
           NEW p \in Ticks, NEW c, tick' = [tick EXCEPT ![p] = c],
           CallOK(c, mined', currentEpoch'), OnChain(c, blocks', life'),
           mined \subseteq mined', IsFiniteSet(mined'),
           currentEpoch' = currentEpoch \/ currentEpoch' \in 1 .. MaxBlocks,
           buffered' \in {buffered, {}}, deliveries' = deliveries,
           unpublished' \in {unpublished, unpublished + 1},
           DOMAIN rows' \subseteq 1 .. MaxBlocks
    PROVE  RouterOK'
<1>1. Len(blocks) \in Nat /\ Len(blocks') \in Nat
  BY Appended DEF ChainOK
<1>2. DOMAIN tick' = Ticks /\ tick'[p] = c /\ \A q \in Ticks \ {p} : tick'[q] = tick[q]
  BY DEF RouterOK
<1>3. ASSUME NEW q \in Ticks
      PROVE  CallOK(tick'[q], mined', currentEpoch') /\ OnChain(tick'[q], blocks', life')
  <2>1. CASE q = p
    BY <1>2, <2>1
  <2>2. CASE q # p
    <3> DEFINE d == tick[q]
    <3>1. tick'[q] = d
      BY <1>2, <2>2
    <3>2. CallOK(d, mined, currentEpoch) /\ OnChain(d, blocks, life)
      BY DEF RouterOK
    <3> HIDE DEF d
    <3>3. CallOK(d, mined', currentEpoch')
      BY <3>2, CallKept
    <3>4. OnChain(d, blocks', life')
      BY <1>1, <3>2, OnChainKept DEF ChainGrows
    <3> QED BY <3>1, <3>3, <3>4
  <2> QED BY <2>1, <2>2
<1>4. buffered' \subseteq {e \in Events : kind[e] \in Subscribed}
  BY DEF RouterOK
<1>5. currentEpoch' \in 0 .. MaxBlocks /\ unpublished' \in Nat /\ deliveries' \in [Events -> Nat]
  BY MedullaAssumption DEF RouterOK
<1> QED BY <1>2, <1>3, <1>4, <1>5 DEF RouterOK

\* A step that is not a call's.
LEMMA RouterFrame ==
    ASSUME ChainOK, RouterOK, ChainOK', ChainGrows,
           UNCHANGED <<currentEpoch, tick, unpublished, rows>>,
           mined \subseteq mined', IsFiniteSet(mined'),
           buffered' \subseteq {e \in Events : kind[e] \in Subscribed},
           deliveries' \in [Events -> Nat]
    PROVE  RouterOK'
<1>1. Len(blocks) \in Nat /\ Len(blocks') \in Nat
  BY Appended DEF ChainOK
<1>2. ASSUME NEW q \in Ticks
      PROVE  CallOK(tick'[q], mined', currentEpoch') /\ OnChain(tick'[q], blocks', life')
  <2> DEFINE d == tick[q]
  <2>1. tick'[q] = d /\ currentEpoch' = currentEpoch
    OBVIOUS
  <2>2. CallOK(d, mined, currentEpoch) /\ OnChain(d, blocks, life)
    BY DEF RouterOK
  <2> HIDE DEF d
  <2>3. CallOK(d, mined', currentEpoch')
    BY <2>1, <2>2, CallKept
  <2>4. OnChain(d, blocks', life')
    BY <1>1, <2>2, OnChainKept DEF ChainGrows
  <2> QED BY <2>1, <2>3, <2>4
<1> QED BY <1>2 DEF RouterOK

LEMMA RowsKept ==
    ASSUME ChainOK, ChainOK', ChainGrows, RouterOK, RowsAreMined,
           mined \subseteq mined', rows' = rows, announced' = announced
    PROVE  RowsAreMined'
<1>1. Len(blocks) \in Nat /\ Len(blocks') \in Nat /\ DOMAIN blocks = 1 .. Len(blocks)
  BY Appended DEF ChainOK
<1>2. ASSUME life' = 0, NEW n \in DOMAIN rows
      PROVE  n < Len(blocks') /\ blocks'[n + 1].tuple = rows[n]
  <2>1. n \in Nat
    BY MedullaAssumption DEF RouterOK
  <2>2. n < Len(blocks) /\ blocks[n + 1].tuple = rows[n] /\ Len(blocks) =< Len(blocks')
    BY <1>2 DEF RowsAreMined, ChainGrows
  <2>3. n + 1 \in 1 .. Len(blocks)
    BY <1>1, <2>1, <2>2
  <2>4. blocks'[n + 1] = blocks[n + 1]
    BY <1>2, <2>3 DEF ChainGrows
  <2> QED BY <1>1, <2>1, <2>2, <2>4
<1> QED BY <1>2 DEF RowsAreMined

LEMMA CountType ==
    ASSUME NEW e, NEW m, IsFiniteSet(m)
    PROVE  IsFiniteSet(FoldsOf(e, m)) /\ Cardinality(FoldsOf(e, m)) \in Nat
BY FS_Subset, FS_CardinalityType DEF FoldsOf

\* A block more holds an event once more at most, and not at all if it is not over it.
LEMMA FoldsAfter ==
    ASSUME NEW e, NEW m, IsFiniteSet(m), NEW n, NEW t
    PROVE  /\ Cardinality(FoldsOf(e, m \cup {<<n, t>>})) =< Cardinality(FoldsOf(e, m)) + 1
           /\ t = ZeroTuple \/ e \notin t => FoldsOf(e, m \cup {<<n, t>>}) = FoldsOf(e, m)
<1>1. IsFiniteSet(FoldsOf(e, m)) /\ Cardinality(FoldsOf(e, m)) \in Nat
  BY CountType
<1>2. CASE t = ZeroTuple \/ e \notin t
  <2>1. FoldsOf(e, m \cup {<<n, t>>}) = FoldsOf(e, m)
    BY <1>2 DEF FoldsOf
  <2> QED BY <1>1, <2>1
<1>3. CASE ~(t = ZeroTuple \/ e \notin t)
  <2>1. FoldsOf(e, m \cup {<<n, t>>}) = FoldsOf(e, m) \cup {<<n, t>>}
    BY <1>3 DEF FoldsOf
  <2>2. Cardinality(FoldsOf(e, m) \cup {<<n, t>>}) =< Cardinality(FoldsOf(e, m)) + 1
    <3>1. ASSUME NEW F, NEW x, IsFiniteSet(F), Cardinality(F) \in Nat
          PROVE  Cardinality(F \cup {x}) =< Cardinality(F) + 1
      BY <3>1, FS_AddElement
    <3> QED BY <1>1, <3>1
  <2> QED BY <1>3, <2>1, <2>2
<1> QED BY <1>2, <1>3

\* The step of the only call, which goes on as c and mines nothing.
LEMMA InStepKept ==
    ASSUME OneAtATime, RouterOK, InStep, RowsAreMined',
           NEW p \in Ticks, NEW c, tick' = [tick EXCEPT ![p] = c],
           CallInStep(c, currentEpoch', buffered'),
           mined' = mined, deliveries' = deliveries,
           unpublished' \in {unpublished, unpublished + 1},
           \A e \in Events : Owed(e, buffered', c) =< Owed(e, buffered, tick[p]) + (unpublished' - unpublished)
    PROVE  InStep'
<1>1. \A q \in Ticks : q = p /\ tick'[q] = c
  BY DEF OneAtATime, RouterOK
<1>2. ASSUME NEW e \in Events
      PROVE  /\ Cardinality(FoldsOf(e, mined)) \in Nat /\ Owed(e, buffered, tick[p]) \in Nat
             /\ Owed(e, buffered', c) \in Nat
             /\ deliveries[e] \in Nat /\ unpublished \in Nat
             /\ Cardinality(FoldsOf(e, mined)) + Owed(e, buffered, tick[p]) =< deliveries[e] + unpublished
  BY CountType DEF Owed, RouterOK, InStep
<1>3. ASSUME NEW e \in Events
      PROVE  /\ Cardinality(FoldsOf(e, mined)) + Owed(e, buffered', c) =< deliveries[e] + unpublished'
             /\ Cardinality(FoldsOf(e, mined)) =< deliveries[e] + unpublished'
  BY <1>2
<1>4. FoldedPerDelivery'
  BY <1>3 DEF FoldedPerDelivery, FoldsOf
<1>5. \A q \in Ticks, e \in Events :
        Cardinality(FoldsOf(e, mined')) + Owed(e, buffered', tick'[q]) =< deliveries'[e] + unpublished'
  BY <1>1, <1>3
<1> QED BY <1>1, <1>4, <1>5 DEF InStep

LEMMA IdleIsACall ==
    /\ DOMAIN Idle = Locals /\ Idle.at = "idle" /\ Idle.tuple = {}
    /\ \A m, n : CallOK(Idle, m, n)
    /\ \A b, l : OnChain(Idle, b, l)
    /\ \A n, b : CallInStep(Idle, n, b)
<1>1. DOMAIN Idle = Locals
  BY DEF Idle, Locals
<1>2. Idle.at = "idle" /\ Idle.tuple = {}
  BY DEF Idle
<1>3. Idle.at \in Places /\ Idle.at \notin Folding /\ Idle.at \notin Placed /\ Idle.at # "submit"
  BY <1>2 DEF Places, Folding, Placed
<1> QED BY <1>1, <1>2, <1>3 DEF CallOK, OnChain, CallInStep

-----------------------------------------------------------------------------
(* The steps of a tick.                                                     *)

LEMMA BeginKeeps ==
    ASSUME IInv, ChainOK', ChainGrows, NEW p \in Ticks, Begin(p)
    PROVE  RouterOK' /\ (OneAtATime => InStep')
<1>1. ChainOK /\ RouterOK /\ (OneAtATime => InStep)
  BY DEF IInv
<1>2. DOMAIN tick = Ticks /\ CallOK(tick[p], mined, currentEpoch)
  BY <1>1 DEF RouterOK
<1>3. PICK c : c = [tick[p] EXCEPT !.at = "submit", !.tuple = buffered]
  OBVIOUS
<1>4. /\ tick' = [tick EXCEPT ![p] = c] /\ tick[p].at = "idle"
      /\ UNCHANGED <<buffered, deliveries, currentEpoch, mined, rows, announced, unpublished>>
  <2>1. tick' = [tick EXCEPT ![p] = c]
    BY <1>3 DEF Begin
  <2> QED BY <2>1, IdleIsACall DEF Begin
<1>5. DOMAIN c = Locals /\ c.at = "submit" /\ c.tuple = buffered
  BY <1>2, <1>3 DEF CallOK, Locals
<1>6. CallOK(c, mined', currentEpoch') /\ OnChain(c, blocks', life')
  BY <1>1, <1>5 DEF CallOK, OnChain, RouterOK, Places, Folding, Placed
<1>7. RouterOK'
  BY <1>1, <1>4, <1>6, RouterKept DEF RouterOK
<1>8. ASSUME OneAtATime PROVE InStep'
  <2>1. InStep /\ RowsAreMined'
    BY <1>1, <1>4, <1>8, RowsKept DEF InStep
  <2>2. CallInStep(c, currentEpoch', buffered')
    BY <1>4, <1>5 DEF CallInStep, Placed
  <2>3. unpublished \in Nat
    BY <1>1 DEF RouterOK
  <2>4. \A e \in Events : Owed(e, buffered', c) =< Owed(e, buffered, tick[p]) + (unpublished' - unpublished)
    BY <1>4, <1>5, <2>3 DEF Owed
  <2> QED BY <1>1, <1>4, <1>8, <2>1, <2>2, <2>4, InStepKept
<1> QED BY <1>7, <1>8

\* A call that has an anchor goes on with it, and the router is in the anchor's epoch.
LEMMA PassesOn ==
    ASSUME IInv, ChainOK', ChainGrows, NEW p \in Ticks, NEW c, tick' = [tick EXCEPT ![p] = c],
           DOMAIN c = Locals, c.tuple = tick[p].tuple, c.anchor = tick[p].anchor,
           tick[p].at \in Folding, c.at \in Placed,
           currentEpoch' = tick[p].anchor.epoch \/ (tick[p].at \in Placed /\ currentEpoch' = currentEpoch),
           UNCHANGED <<buffered, deliveries, mined, unpublished>>,
           DOMAIN rows' \subseteq 1 .. MaxBlocks,
           OneAtATime => RowsAreMined'
    PROVE  RouterOK' /\ (OneAtATime => InStep')
<1>1. ChainOK /\ RouterOK /\ (OneAtATime => InStep)
  BY DEF IInv
<1>2. CallOK(tick[p], mined, currentEpoch) /\ OnChain(tick[p], blocks, life)
  BY <1>1 DEF RouterOK
<1>3. Len(blocks) \in Nat /\ Len(blocks') \in Nat
  BY <1>1, Appended DEF ChainOK
<1>4. /\ c.anchor.epoch \in 1 .. MaxBlocks /\ <<c.anchor.epoch, c.tuple>> \in mined
      /\ c.tuple \subseteq Events /\ currentEpoch' \in 1 .. MaxBlocks
  BY <1>2 DEF CallOK
<1>5. CallOK(c, mined', currentEpoch')
  BY <1>4 DEF CallOK, Places, Folding
<1>6. OnChain(c, blocks', life')
  <2>1. CallOK(c, mined, currentEpoch')
    BY <1>5
  <2>2. OnChain(c, blocks, life)
    BY <1>2 DEF OnChain, Folding
  <2>3. life' = 0 => life = 0 /\ Len(blocks) =< Len(blocks') /\ \A i \in 1 .. Len(blocks) : blocks'[i] = blocks[i]
    BY DEF ChainGrows
  <2> QED BY <1>3, <2>1, <2>2, <2>3, OnChainKept
<1>7. RouterOK'
  <2>1. IsFiniteSet(mined') /\ mined \subseteq mined'
    BY <1>1 DEF RouterOK
  <2> QED BY <1>1, <1>4, <1>5, <1>6, <2>1, RouterKept
<1>8. ASSUME OneAtATime PROVE InStep'
  <2>1. CallInStep(tick[p], currentEpoch, buffered)
    BY <1>1, <1>8 DEF InStep
  <2>2. CallInStep(c, currentEpoch', buffered')
    BY <2>1 DEF CallInStep, Placed
  <2>3. unpublished \in Nat
    BY <1>1 DEF RouterOK
  <2>4. \A e \in Events : Owed(e, buffered', c) =< Owed(e, buffered, tick[p]) + (unpublished' - unpublished)
    BY <2>3 DEF Owed, Folding, Placed
  <2> QED BY <1>1, <1>8, <2>2, <2>4, InStepKept
<1> QED BY <1>7, <1>8

\* A call gives up, or ends: what is buffered stays only if the call has just failed to
\* submit or to publish.
LEMMA Stops ==
    ASSUME IInv, ChainOK', ChainGrows, NEW p \in Ticks, NEW c, tick' = [tick EXCEPT ![p] = c],
           DOMAIN c = Locals, c.tuple \subseteq Events, c.at \in {"idle", "failed"},
           UNCHANGED <<currentEpoch, deliveries, mined, rows>>,
           OneAtATime => RowsAreMined',
           buffered' \in {buffered, {}}, unpublished' \in {unpublished, unpublished + 1},
           c.at = "failed" \/ buffered' = {} \/ unpublished' = unpublished + 1
    PROVE  RouterOK' /\ (OneAtATime => InStep')
<1>1. ChainOK /\ RouterOK /\ (OneAtATime => InStep)
  BY DEF IInv
<1>2. c.at \in Places /\ c.at \notin Folding /\ c.at \notin Placed /\ c.at # "submit"
  BY DEF Places, Folding, Placed
<1>3. CallOK(c, mined', currentEpoch') /\ OnChain(c, blocks', life') /\ CallInStep(c, currentEpoch', buffered')
  BY <1>2 DEF CallOK, OnChain, CallInStep
<1>4. RouterOK'
  <2>1. IsFiniteSet(mined') /\ mined \subseteq mined' /\ DOMAIN rows' \subseteq 1 .. MaxBlocks
    BY <1>1 DEF RouterOK
  <2> QED BY <1>1, <1>3, <2>1, RouterKept
<1>5. ASSUME OneAtATime PROVE InStep'
  <2>1. unpublished \in Nat
    BY <1>1 DEF RouterOK
  <2>2. ASSUME NEW e \in Events
        PROVE  Owed(e, buffered', c) =< Owed(e, buffered, tick[p]) + (unpublished' - unpublished)
    <3>1. Owed(e, buffered, tick[p]) \in {0, 1} /\ Owed(e, buffered', c) \in {0, 1}
      BY DEF Owed
    <3>2. CASE c.at = "failed" \/ buffered' = {}
      <4>1. Owed(e, buffered', c) = 0
        BY <3>2 DEF Owed
      <4> QED BY <2>1, <3>1, <4>1
    <3>3. CASE unpublished' = unpublished + 1
      BY <2>1, <3>1, <3>3
    <3> QED BY <3>2, <3>3
  <2> QED BY <1>1, <1>3, <1>5, <2>2, InStepKept
<1> QED BY <1>4, <1>5

LEMMA SubmitFailsKeeps ==
    ASSUME IInv, ChainOK', ChainGrows, NEW p \in Ticks, SubmitFails(p)
    PROVE  RouterOK' /\ (OneAtATime => InStep')
<1>1. ChainOK /\ RouterOK /\ (OneAtATime => InStep) /\ CallOK(tick[p], mined, currentEpoch)
  BY DEF IInv, RouterOK
<1>2. PICK c : c = [tick[p] EXCEPT !.at = "failed"]
  OBVIOUS
<1>3. /\ tick' = [tick EXCEPT ![p] = c]
      /\ UNCHANGED <<buffered, deliveries, currentEpoch, mined, rows, announced, unpublished>>
  BY <1>2 DEF SubmitFails, Goes
<1>4. DOMAIN c = Locals /\ c.at = "failed" /\ c.tuple \subseteq Events
  BY <1>1, <1>2 DEF CallOK, Locals
<1>5. OneAtATime => RowsAreMined'
  BY <1>1, <1>3, RowsKept DEF InStep
<1> QED BY <1>3, <1>4, <1>5, Stops

LEMMA GiveUpKeeps ==
    ASSUME IInv, ChainOK', ChainGrows, NEW p \in Ticks, GiveUp(p)
    PROVE  RouterOK' /\ (OneAtATime => InStep')
<1>1. ChainOK /\ RouterOK /\ (OneAtATime => InStep)
  BY DEF IInv
<1>2. /\ tick' = [tick EXCEPT ![p] = Idle] /\ buffered' = {}
      /\ UNCHANGED <<deliveries, currentEpoch, mined, rows, announced, unpublished>>
  BY DEF GiveUp, Ends
<1>3. OneAtATime => RowsAreMined'
  BY <1>1, <1>2, RowsKept DEF InStep
<1>4. DOMAIN Idle = Locals /\ Idle.tuple \subseteq Events /\ Idle.at \in {"idle", "failed"}
  BY IdleIsACall
<1> QED BY <1>2, <1>3, <1>4, Stops

LEMMA ClearKeeps ==
    ASSUME IInv, ChainOK', ChainGrows, NEW p \in Ticks, Clear(p)
    PROVE  RouterOK' /\ (OneAtATime => InStep')
<1>1. ChainOK /\ RouterOK /\ (OneAtATime => InStep)
  BY DEF IInv
<1>2. /\ tick' = [tick EXCEPT ![p] = Idle] /\ buffered' = {}
      /\ UNCHANGED <<deliveries, currentEpoch, mined, rows, announced, unpublished>>
  BY DEF Clear, Ends
<1>3. OneAtATime => RowsAreMined'
  BY <1>1, <1>2, RowsKept DEF InStep
<1>4. DOMAIN Idle = Locals /\ Idle.tuple \subseteq Events /\ Idle.at \in {"idle", "failed"}
  BY IdleIsACall
<1> QED BY <1>2, <1>3, <1>4, Stops

\* What is announced of the router's epoch is what was mined under that number.
LEMMA AnnouncedIsMined ==
    ASSUME IInv, OneAtATime, ChainOK', ChainGrows, NEW p \in Ticks, tick[p].at = "publish",
           UNCHANGED <<mined, rows>>,
           announced' \in {announced, announced \cup {<<currentEpoch, tick[p].tuple>>}}
    PROVE  RowsAreMined'
<1>1. ChainOK /\ RouterOK /\ InStep
  BY DEF IInv
<1>2. <<currentEpoch, tick[p].tuple>> \in mined
  BY <1>1 DEF RouterOK, InStep, CallOK, CallInStep, Folding, Placed
<1>3. RowsAreMined /\ announced \subseteq mined
  BY <1>1 DEF InStep, RowsAreMined
<1>4. announced' \subseteq mined'
  BY <1>2, <1>3
<1>5. ASSUME life' = 0, NEW n \in DOMAIN rows
      PROVE  n < Len(blocks') /\ blocks'[n + 1].tuple = rows[n]
  <2>1. n \in Nat /\ Len(blocks) \in Nat /\ Len(blocks') \in Nat
    BY <1>1, MedullaAssumption, Appended DEF RouterOK, ChainOK
  <2>2. n < Len(blocks) /\ blocks[n + 1].tuple = rows[n] /\ Len(blocks) =< Len(blocks')
    BY <1>3, <1>5 DEF RowsAreMined, ChainGrows
  <2>3. n + 1 \in 1 .. Len(blocks)
    BY <2>1, <2>2
  <2>4. blocks'[n + 1] = blocks[n + 1]
    BY <1>5, <2>3 DEF ChainGrows
  <2> QED BY <2>1, <2>2, <2>4
<1> QED BY <1>3, <1>4, <1>5 DEF RowsAreMined

LEMMA PublishFailsKeeps ==
    ASSUME IInv, ChainOK', ChainGrows, NEW p \in Ticks, PublishFails(p)
    PROVE  RouterOK' /\ (OneAtATime => InStep')
<1>1. /\ tick' = [tick EXCEPT ![p] = Idle] /\ tick[p].at = "publish" /\ unpublished' = unpublished + 1
      /\ UNCHANGED <<buffered, deliveries, currentEpoch, mined, rows>>
      /\ announced' \in {announced, announced \cup {<<currentEpoch, tick[p].tuple>>}}
  BY DEF PublishFails, Ends
<1>2. OneAtATime => RowsAreMined'
  BY <1>1, AnnouncedIsMined
<1>3. DOMAIN Idle = Locals /\ Idle.tuple \subseteq Events /\ Idle.at \in {"idle", "failed"}
  BY IdleIsACall
<1> QED BY <1>1, <1>2, <1>3, Stops

LEMMA PublishKeeps ==
    ASSUME IInv, ChainOK', ChainGrows, NEW p \in Ticks, Publish(p)
    PROVE  RouterOK' /\ (OneAtATime => InStep')
<1>1. RouterOK /\ CallOK(tick[p], mined, currentEpoch)
  BY DEF IInv, RouterOK
<1>2. PICK c : c = [tick[p] EXCEPT !.at = "clear"]
  OBVIOUS
<1>3. /\ tick' = [tick EXCEPT ![p] = c] /\ tick[p].at = "publish"
      /\ UNCHANGED <<buffered, deliveries, currentEpoch, mined, rows, unpublished>>
      /\ announced' \in {announced, announced \cup {<<currentEpoch, tick[p].tuple>>}}
  BY <1>2 DEF Publish, Goes
<1>4. DOMAIN c = Locals /\ c.at \in Placed /\ c.tuple = tick[p].tuple /\ c.anchor = tick[p].anchor
  BY <1>1, <1>2 DEF CallOK, Locals, Placed
<1>5. OneAtATime => RowsAreMined'
  BY <1>3, AnnouncedIsMined
<1>6. DOMAIN rows' \subseteq 1 .. MaxBlocks /\ tick[p].at \in Folding /\ tick[p].at \in Placed
  BY <1>1, <1>3 DEF RouterOK, Folding, Placed
<1> QED BY <1>3, <1>4, <1>5, <1>6, PassesOn

LEMMA AnsweredKeeps ==
    ASSUME IInv, ChainOK', ChainGrows, NEW p \in Ticks, Answered(p)
    PROVE  RouterOK' /\ (OneAtATime => InStep')
<1>1. ChainOK /\ RouterOK /\ (OneAtATime => InStep) /\ CallOK(tick[p], mined, currentEpoch)
  BY DEF IInv, RouterOK
<1>2. PICK c : c = [tick[p] EXCEPT !.at = "prove"]
  OBVIOUS
<1>3. /\ tick' = [tick EXCEPT ![p] = c] /\ tick[p].at = "answered"
      /\ currentEpoch' = tick[p].anchor.epoch
      /\ UNCHANGED <<buffered, deliveries, mined, rows, announced, unpublished>>
  BY <1>2 DEF Answered, Goes
<1>4. DOMAIN c = Locals /\ c.at \in Placed /\ c.tuple = tick[p].tuple /\ c.anchor = tick[p].anchor
  BY <1>1, <1>2 DEF CallOK, Locals, Placed
<1>5. OneAtATime => RowsAreMined'
  BY <1>1, <1>3, RowsKept DEF InStep
<1>6. DOMAIN rows' \subseteq 1 .. MaxBlocks /\ tick[p].at \in Folding
  BY <1>1, <1>3 DEF RouterOK, Folding, Placed
<1> QED BY <1>3, <1>4, <1>5, <1>6, PassesOn

LEMMA SendKeeps ==
    ASSUME IInv, ChainOK', ChainGrows, NEW p \in Ticks, Send(p)
    PROVE  RouterOK' /\ (OneAtATime => InStep')
<1>1. ChainOK /\ RouterOK /\ (OneAtATime => InStep) /\ CallOK(tick[p], mined, currentEpoch)
  BY DEF IInv, RouterOK
<1>2. PICK c : c = [tick[p] EXCEPT !.at = "commit", !.epoch = currentEpoch]
  OBVIOUS
<1>3. /\ tick' = [tick EXCEPT ![p] = c] /\ tick[p].at = "send"
      /\ UNCHANGED <<buffered, deliveries, currentEpoch, mined, rows, announced, unpublished>>
  BY <1>2 DEF Send
<1>4. DOMAIN c = Locals /\ c.at \in Placed /\ c.tuple = tick[p].tuple /\ c.anchor = tick[p].anchor
  BY <1>1, <1>2 DEF CallOK, Locals, Placed
<1>5. OneAtATime => RowsAreMined'
  BY <1>1, <1>3, RowsKept DEF InStep
<1>6. DOMAIN rows' \subseteq 1 .. MaxBlocks /\ tick[p].at \in Folding /\ tick[p].at \in Placed
  BY <1>1, <1>3 DEF RouterOK, Folding, Placed
<1> QED BY <1>3, <1>4, <1>5, <1>6, PassesOn

LEMMA CommitKeeps ==
    ASSUME IInv, ChainOK', ChainGrows, NEW p \in Ticks, Commit(p)
    PROVE  RouterOK' /\ (OneAtATime => InStep')
<1>1. ChainOK /\ RouterOK /\ (OneAtATime => InStep) /\ CallOK(tick[p], mined, currentEpoch)
  BY DEF IInv, RouterOK
<1>2. PICK c : c = [tick[p] EXCEPT !.at = "record"]
  OBVIOUS
<1>3. /\ tick' = [tick EXCEPT ![p] = c] /\ tick[p].at = "commit"
      /\ UNCHANGED <<buffered, deliveries, currentEpoch, mined, rows, announced, unpublished>>
  BY <1>2 DEF Commit, Goes
<1>4. DOMAIN c = Locals /\ c.at \in Placed /\ c.tuple = tick[p].tuple /\ c.anchor = tick[p].anchor
  BY <1>1, <1>2 DEF CallOK, Locals, Placed
<1>5. OneAtATime => RowsAreMined'
  BY <1>1, <1>3, RowsKept DEF InStep
<1>6. DOMAIN rows' \subseteq 1 .. MaxBlocks /\ tick[p].at \in Folding /\ tick[p].at \in Placed
  BY <1>1, <1>3 DEF RouterOK, Folding, Placed
<1> QED BY <1>3, <1>4, <1>5, <1>6, PassesOn

LEMMA ProveKeeps ==
    ASSUME IInv, ChainOK', ChainGrows, NEW p \in Ticks, Prove(p)
    PROVE  RouterOK' /\ (OneAtATime => InStep')
<1>1. ChainOK /\ RouterOK /\ (OneAtATime => InStep) /\ CallOK(tick[p], mined, currentEpoch)
  BY DEF IInv, RouterOK
<1>2. PICK root : tick' = [tick EXCEPT ![p].at = "send", ![p].root = root]
  BY DEF Prove
<1>3. PICK c : c = [tick[p] EXCEPT !.at = "send", !.root = root]
  OBVIOUS
<1>4. /\ tick' = [tick EXCEPT ![p] = c] /\ tick[p].at = "prove"
      /\ UNCHANGED <<buffered, deliveries, currentEpoch, mined, rows, announced, unpublished>>
  <2>1. tick' = [tick EXCEPT ![p] = c]
    BY <1>2, <1>3
  <2> QED BY <2>1 DEF Prove
<1>5. DOMAIN c = Locals /\ c.at \in Placed /\ c.tuple = tick[p].tuple /\ c.anchor = tick[p].anchor
  BY <1>1, <1>3 DEF CallOK, Locals, Placed
<1>6. OneAtATime => RowsAreMined'
  BY <1>1, <1>4, RowsKept DEF InStep
<1>7. DOMAIN rows' \subseteq 1 .. MaxBlocks /\ tick[p].at \in Folding /\ tick[p].at \in Placed
  BY <1>1, <1>4 DEF RouterOK, Folding, Placed
<1> QED BY <1>4, <1>5, <1>6, <1>7, PassesOn

\* The row of the router's epoch is the tick's tuple unless there is one already.
LEMMA RecordKeeps ==
    ASSUME IInv, ChainOK', ChainGrows, NEW p \in Ticks, Record(p)
    PROVE  RouterOK' /\ (OneAtATime => InStep')
<1>1. ChainOK /\ RouterOK /\ (OneAtATime => InStep) /\ CallOK(tick[p], mined, currentEpoch)
  BY DEF IInv, RouterOK
<1>2. PICK c : c = [tick[p] EXCEPT !.at = "publish"]
  OBVIOUS
<1>3. /\ tick' = [tick EXCEPT ![p] = c] /\ tick[p].at = "record"
      /\ UNCHANGED <<medullaVars, buffered, deliveries, currentEpoch, mined, announced, unpublished>>
  BY <1>2 DEF Record, Goes
<1>4. DOMAIN c = Locals /\ c.at \in Placed /\ c.tuple = tick[p].tuple /\ c.anchor = tick[p].anchor
  BY <1>1, <1>2 DEF CallOK, Locals, Placed
<1>5. tick[p].at \in Folding /\ tick[p].at \in Placed
  BY <1>3 DEF Folding, Placed
<1>6. \/ rows' = rows
      \/ /\ DOMAIN rows' = DOMAIN rows \cup {currentEpoch}
         /\ \A n \in DOMAIN rows : rows'[n] = rows[n]
         /\ currentEpoch \notin DOMAIN rows => rows'[currentEpoch] = tick[p].tuple
  BY DEF Record
<1>7. DOMAIN rows' \subseteq 1 .. MaxBlocks
  BY <1>1, <1>5, <1>6 DEF RouterOK, CallOK
<1>8. ASSUME OneAtATime PROVE RowsAreMined'
  <2>1. currentEpoch = tick[p].anchor.epoch /\ RowsAreMined
    BY <1>1, <1>5, <1>8 DEF InStep, CallInStep
  <2>2. <<currentEpoch, tick[p].tuple>> \in mined
    BY <1>1, <1>5, <2>1 DEF CallOK
  <2>3. life = 0 => currentEpoch < Len(blocks) /\ blocks[currentEpoch + 1].tuple = tick[p].tuple
    BY <1>1, <1>5, <2>1 DEF RouterOK, OnChain
  <2>4. \A n \in DOMAIN rows' :
          \/ n \in DOMAIN rows /\ rows'[n] = rows[n]
          \/ n = currentEpoch /\ rows'[n] = tick[p].tuple
    BY <1>6
  <2>5. life' = life /\ blocks' = blocks /\ mined' = mined /\ announced' = announced
    BY <1>3 DEF medullaVars
  <2> QED BY <2>1, <2>2, <2>3, <2>4, <2>5 DEF RowsAreMined
<1> QED BY <1>3, <1>4, <1>5, <1>7, <1>8, PassesOn

\* A block over the tuple of tick p: the epoch in its header is new, and while the events
\* under its roots are in one block more, none of them is owed one any longer.
LEMMA MinedKeeps ==
    ASSUME IInv, ChainOK', ChainGrows, NEW p \in Ticks, Mined(p)
    PROVE  RouterOK' /\ (OneAtATime => InStep')
<1> DEFINE t == tick[p].tuple
           n == Len(blocks)
<1>1. ChainOK /\ RouterOK /\ (OneAtATime => InStep) /\ CallOK(tick[p], mined, currentEpoch)
  BY DEF IInv, RouterOK
<1>2. t \subseteq Events /\ t \in Tuples /\ t # ZeroTuple
  BY <1>1, CycleAssumption DEF CallOK
<1>3. /\ n \in 1 .. MaxBlocks /\ n < Len(blocks') /\ life' = life
      /\ blocks'[n + 1].tuple = t /\ Tip'.epoch = n /\ Tip'.tuple = t
  <2> HIDE DEF t
  <2>1. SubmitCoherenceRoot(t)
    BY DEF Mined, t
  <2>2. MaxBlocks \in Nat
    BY MedullaAssumption
  <2> QED BY <1>1, <1>2, <2>1, <2>2, BlockKeepsChain
<1>4. /\ mined' = mined \cup {<<n, t>>} /\ tick[p].at = "submit"
      /\ UNCHANGED <<buffered, deliveries, currentEpoch, rows, announced, unpublished>>
  BY <1>3 DEF Mined
<1>5. PICK c : /\ tick' = [tick EXCEPT ![p] = c]
               /\ DOMAIN c = Locals /\ c.tuple = t
               /\ c.at = "failed" \/ (c.at = "answered" /\ c.anchor.epoch = n)
  <2>1. CASE Goes(p, "failed")
    <3> WITNESS [tick[p] EXCEPT !.at = "failed"]
    <3> QED BY <1>1, <2>1 DEF Goes, CallOK, Locals
  <2>2. CASE tick' = [tick EXCEPT ![p].at = "answered", ![p].anchor = AnchorOf(Tip')]
    <3>1. PICK a : a = AnchorOf(Tip')
      OBVIOUS
    <3>2. a.epoch = n
      BY <1>3, <3>1 DEF AnchorOf
    <3>3. tick' = [tick EXCEPT ![p].at = "answered", ![p].anchor = a]
      BY <2>2, <3>1
    <3> HIDE DEF n
    <3> WITNESS [tick[p] EXCEPT !.at = "answered", !.anchor = a]
    <3> QED BY <1>1, <3>2, <3>3 DEF CallOK, Locals
  <2> QED BY <2>1, <2>2 DEF Mined
<1> HIDE DEF t, n
<1>6. CallOK(c, mined', currentEpoch') /\ OnChain(c, blocks', life')
  BY <1>2, <1>3, <1>4, <1>5 DEF CallOK, OnChain, Places, Folding, Placed
<1>7. IsFiniteSet(mined') /\ mined \subseteq mined' /\ DOMAIN rows' \subseteq 1 .. MaxBlocks
  BY <1>1, <1>4, FS_AddElement DEF RouterOK
<1>8. RouterOK'
  BY <1>1, <1>4, <1>5, <1>6, <1>7, RouterKept
<1>9. ASSUME OneAtATime PROVE InStep'
  <2>1. InStep /\ RowsAreMined'
    BY <1>1, <1>4, <1>7, <1>9, RowsKept DEF InStep
  <2>2. \A q \in Ticks : q = p /\ tick'[q] = c
    BY <1>1, <1>5, <1>9 DEF OneAtATime, RouterOK
  <2>3. CallInStep(c, currentEpoch', buffered')
    BY <1>5 DEF CallInStep, Placed
  <2>4. ASSUME NEW e \in Events
        PROVE  /\ Cardinality(FoldsOf(e, mined')) =< deliveries[e] + unpublished
               /\ Owed(e, buffered', c) = 0 /\ Cardinality(FoldsOf(e, mined')) \in Nat
    <3>1. /\ Cardinality(FoldsOf(e, mined)) \in Nat /\ Cardinality(FoldsOf(e, mined')) \in Nat
          /\ deliveries[e] \in Nat /\ unpublished \in Nat
      BY <1>1, <1>7, CountType DEF RouterOK
    <3>2. Cardinality(FoldsOf(e, mined)) + Owed(e, buffered, tick[p]) =< deliveries[e] + unpublished
      BY <2>1 DEF InStep
    <3>3. Owed(e, buffered', c) = 0
      BY <1>5 DEF Owed
    <3>4. CASE e \in t
      <4>1. Owed(e, buffered, tick[p]) = 1
        BY <1>4, <2>1, <3>4 DEF InStep, CallInStep, Owed, t
      <4>2. Cardinality(FoldsOf(e, mined')) =< Cardinality(FoldsOf(e, mined)) + 1
        BY <1>1, <1>4, FoldsAfter DEF RouterOK
      <4> QED BY <3>1, <3>2, <3>3, <4>1, <4>2
    <3>5. CASE e \notin t
      <4>1. FoldsOf(e, mined') = FoldsOf(e, mined)
        BY <1>1, <1>4, <3>5, FoldsAfter DEF RouterOK
      <4>2. Owed(e, buffered, tick[p]) \in {0, 1}
        BY DEF Owed
      <4> QED BY <3>1, <3>2, <3>3, <4>1, <4>2
    <3> QED BY <3>4, <3>5
  <2>5. FoldedPerDelivery'
    BY <1>4, <2>4 DEF FoldedPerDelivery, FoldsOf
  <2>6. \A q \in Ticks, e \in Events :
          Cardinality(FoldsOf(e, mined')) + Owed(e, buffered', tick'[q]) =< deliveries'[e] + unpublished'
    BY <1>4, <2>2, <2>4
  <2> QED BY <2>1, <2>2, <2>3, <2>5, <2>6 DEF InStep
<1> QED BY <1>8, <1>9

-----------------------------------------------------------------------------
(* The other steps.                                                         *)

\* A delivery more: one more block may have the event, and it may be owed one.
LEMMA DeliverKeeps ==
    ASSUME IInv, ChainOK', ChainGrows, NEW e \in Events, Deliver(e)
    PROVE  RouterOK' /\ (OneAtATime => InStep')
<1>1. ChainOK /\ RouterOK /\ (OneAtATime => InStep)
  BY DEF IInv
<1>2. /\ UNCHANGED <<currentEpoch, tick, mined, rows, announced, unpublished>>
      /\ deliveries' = [deliveries EXCEPT ![e] = @ + 1]
      /\ buffered \subseteq buffered' /\ buffered' \subseteq buffered \cup {e}
      /\ kind[e] \notin Subscribed => buffered' = buffered
  BY DEF Deliver
<1>3. RouterOK'
  <2>1. buffered' \subseteq {x \in Events : kind[x] \in Subscribed}
    BY <1>1, <1>2 DEF RouterOK
  <2>2. deliveries' \in [Events -> Nat] /\ IsFiniteSet(mined') /\ mined \subseteq mined'
    BY <1>1, <1>2 DEF RouterOK
  <2> QED BY <1>1, <1>2, <2>1, <2>2, RouterFrame
<1>4. ASSUME OneAtATime PROVE InStep'
  <2>1. InStep /\ RowsAreMined'
    BY <1>1, <1>2, <1>4, RowsKept DEF InStep
  <2>2. \A q \in Ticks : CallInStep(tick'[q], currentEpoch', buffered')
    BY <1>2, <2>1 DEF InStep, CallInStep
  <2>3. ASSUME NEW x \in Events
        PROVE  /\ Cardinality(FoldsOf(x, mined)) =< deliveries'[x] + unpublished
               /\ \A q \in Ticks :
                    Cardinality(FoldsOf(x, mined)) + Owed(x, buffered', tick[q]) =< deliveries'[x] + unpublished
    <3>1. Cardinality(FoldsOf(x, mined)) \in Nat /\ deliveries[x] \in Nat /\ unpublished \in Nat
      BY <1>1, CountType DEF RouterOK
    <3>2. Cardinality(FoldsOf(x, mined)) =< deliveries[x] + unpublished
      BY <2>1 DEF InStep, FoldedPerDelivery, FoldsOf
    <3>3. CASE x = e
      <4>1. deliveries'[x] = deliveries[x] + 1
        BY <1>1, <1>2, <3>3 DEF RouterOK
      <4>2. \A q \in Ticks : Owed(x, buffered', tick[q]) \in {0, 1}
        BY DEF Owed
      <4> QED BY <3>1, <3>2, <4>1, <4>2
    <3>4. CASE x # e
      <4>1. deliveries'[x] = deliveries[x]
        BY <1>1, <1>2, <3>4 DEF RouterOK
      <4>2. \A q \in Ticks : Owed(x, buffered', tick[q]) = Owed(x, buffered, tick[q])
        BY <1>2, <3>4 DEF Owed
      <4>3. \A q \in Ticks :
              Cardinality(FoldsOf(x, mined)) + Owed(x, buffered, tick[q]) =< deliveries[x] + unpublished
        BY <2>1 DEF InStep
      <4> QED BY <3>2, <4>1, <4>2, <4>3
    <3> QED BY <3>3, <3>4
  <2>4. FoldedPerDelivery'
    BY <1>2, <2>3 DEF FoldedPerDelivery, FoldsOf
  <2> QED BY <1>2, <2>1, <2>2, <2>3, <2>4 DEF InStep
<1> QED BY <1>3, <1>4

\* A block over the zero tuple folds no event.
LEMMA MineBlockKeeps ==
    ASSUME IInv, ChainOK', ChainGrows, MineBlock
    PROVE  RouterOK' /\ (OneAtATime => InStep')
<1>1. ChainOK /\ RouterOK /\ (OneAtATime => InStep)
  BY DEF IInv
<1>2. PICK n : mined' = mined \cup {<<n, ZeroTuple>>}
  BY DEF MineBlock
<1>3. UNCHANGED <<buffered, deliveries, currentEpoch, tick, rows, announced, unpublished>>
  BY DEF MineBlock, routerVars
<1>4. IsFiniteSet(mined') /\ mined \subseteq mined'
  BY <1>1, <1>2, FS_AddElement DEF RouterOK
<1>5. RouterOK'
  <2>1. deliveries' \in [Events -> Nat] /\ buffered' \subseteq {x \in Events : kind[x] \in Subscribed}
    BY <1>1, <1>3 DEF RouterOK
  <2> QED BY <1>1, <1>3, <1>4, <2>1, RouterFrame
<1>6. ASSUME OneAtATime PROVE InStep'
  <2>1. InStep /\ RowsAreMined'
    BY <1>1, <1>3, <1>4, <1>6, RowsKept DEF InStep
  <2>2. \A x \in Events : FoldsOf(x, mined') = FoldsOf(x, mined)
    BY <1>2 DEF FoldsOf
  <2>3. FoldedPerDelivery'
    BY <1>3, <2>1, <2>2 DEF InStep, FoldedPerDelivery, FoldsOf
  <2> QED BY <1>3, <2>1, <2>2, <2>3 DEF InStep
<1> QED BY <1>5, <1>6

LEMMA MedullaRestartKeeps ==
    ASSUME IInv, ChainOK', ChainGrows, MedullaRestart
    PROVE  RouterOK' /\ (OneAtATime => InStep')
<1>1. ChainOK /\ RouterOK /\ (OneAtATime => InStep)
  BY DEF IInv
<1>2. UNCHANGED <<buffered, deliveries, currentEpoch, tick, rows, announced, unpublished, mined>>
  BY DEF MedullaRestart, routerVars
<1>3. IsFiniteSet(mined') /\ mined \subseteq mined' /\ deliveries' \in [Events -> Nat]
      /\ buffered' \subseteq {x \in Events : kind[x] \in Subscribed}
  BY <1>1, <1>2 DEF RouterOK
<1>4. RouterOK'
  BY <1>1, <1>2, <1>3, RouterFrame
<1>5. ASSUME OneAtATime PROVE InStep'
  <2>1. InStep /\ RowsAreMined'
    BY <1>1, <1>2, <1>3, <1>5, RowsKept DEF InStep
  <2>2. FoldedPerDelivery'
    BY <1>2, <2>1 DEF InStep, FoldedPerDelivery
  <2> QED BY <1>2, <2>1, <2>2 DEF InStep
<1> QED BY <1>4, <1>5

LEMMA RouterRestartKeeps ==
    ASSUME IInv, ChainOK', ChainGrows, RouterRestart
    PROVE  RouterOK' /\ (OneAtATime => InStep')
<1>1. ChainOK /\ RouterOK /\ (OneAtATime => InStep)
  BY DEF IInv
<1>2. /\ UNCHANGED <<deliveries, rows, announced, unpublished, mined>>
      /\ buffered' = {} /\ currentEpoch' = 0 /\ tick' = [p \in Ticks |-> Idle]
  BY DEF RouterRestart
<1>3. DOMAIN tick' = Ticks /\ \A p \in Ticks : tick'[p] = Idle
  BY <1>2
<1>4. currentEpoch' \in 0 .. MaxBlocks
  BY <1>2, MedullaAssumption
<1>5. RouterOK'
  BY <1>1, <1>2, <1>3, <1>4, IdleIsACall DEF RouterOK
<1>6. ASSUME OneAtATime PROVE InStep'
  <2>1. InStep /\ RowsAreMined'
    BY <1>1, <1>2, <1>6, RowsKept DEF InStep
  <2>2. FoldedPerDelivery'
    BY <1>2, <2>1 DEF InStep, FoldedPerDelivery
  <2>3. ASSUME NEW p \in Ticks, NEW e \in Events
        PROVE  Cardinality(FoldsOf(e, mined')) + Owed(e, buffered', tick'[p]) =< deliveries'[e] + unpublished'
    <3>1. Cardinality(FoldsOf(e, mined)) \in Nat
      BY <1>1, CountType DEF RouterOK
    <3>2. Owed(e, buffered', tick'[p]) = 0
      BY <1>2 DEF Owed
    <3>3. Cardinality(FoldsOf(e, mined)) =< deliveries[e] + unpublished
      BY <2>1 DEF InStep, FoldedPerDelivery, FoldsOf
    <3> QED BY <1>2, <3>1, <3>2, <3>3
  <2> QED BY <1>3, <2>1, <2>2, <2>3, IdleIsACall DEF InStep
<1> QED BY <1>5, <1>6

LEMMA StutterKeeps ==
    ASSUME IInv, ChainOK', ChainGrows, UNCHANGED vars
    PROVE  RouterOK' /\ (OneAtATime => InStep')
<1>1. ChainOK /\ RouterOK /\ (OneAtATime => InStep)
  BY DEF IInv
<1>2. UNCHANGED <<buffered, deliveries, currentEpoch, tick, rows, announced, unpublished, mined>>
  BY DEF vars, routerVars
<1>3. IsFiniteSet(mined') /\ mined \subseteq mined' /\ deliveries' \in [Events -> Nat]
      /\ buffered' \subseteq {x \in Events : kind[x] \in Subscribed}
  BY <1>1, <1>2 DEF RouterOK
<1>4. RouterOK'
  BY <1>1, <1>2, <1>3, RouterFrame
<1>5. ASSUME OneAtATime PROVE InStep'
  <2>1. InStep /\ RowsAreMined'
    BY <1>1, <1>2, <1>3, <1>5, RowsKept DEF InStep
  <2>2. FoldedPerDelivery'
    BY <1>2, <2>1 DEF InStep, FoldedPerDelivery
  <2> QED BY <1>2, <2>1, <2>2 DEF InStep
<1> QED BY <1>4, <1>5

LEMMA StepKeeps == IInv /\ [Next]_vars => IInv'
<1> SUFFICES ASSUME IInv, [Next]_vars PROVE IInv'
  OBVIOUS
<1>1. ChainOK' /\ ChainGrows
  BY ChainStep
<1>2. ASSUME NEW p \in Ticks, Step(p) PROVE RouterOK' /\ (OneAtATime => InStep')
  BY <1>1, <1>2, MinedKeeps, SubmitFailsKeeps, GiveUpKeeps, AnsweredKeeps, ProveKeeps, SendKeeps,
     CommitKeeps, RecordKeeps, PublishKeeps, PublishFailsKeeps, ClearKeeps DEF Step
<1>3. RouterOK' /\ (OneAtATime => InStep')
  BY <1>1, <1>2, BeginKeeps, DeliverKeeps, MineBlockKeeps, MedullaRestartKeeps, RouterRestartKeeps,
     StutterKeeps DEF Next
<1>4. restarts' \in Nat
  <2>1. \A p \in Ticks : Step(p) => restarts' = restarts
    BY DEF Step, Mined, SubmitFails, GiveUp, Answered, Prove, Send, Commit, Record, Publish,
           PublishFails, Clear
  <2>2. RouterRestart => restarts' = restarts + 1
    BY DEF RouterRestart
  <2>3. restarts' = restarts \/ restarts' = restarts + 1
    BY <2>1, <2>2 DEF Next, Deliver, Begin, MineBlock, MedullaRestart, routerVars, vars
  <2> QED BY <2>3 DEF IInv
<1> QED BY <1>1, <1>3, <1>4 DEF IInv, OneAtATime

LEMMA InitKeeps == Init => IInv
<1> SUFFICES ASSUME Init PROVE IInv
  OBVIOUS
<1>1. ChainOK
  BY ChainStarts DEF Init
<1>2. /\ buffered = {} /\ deliveries = [e \in Events |-> 0] /\ currentEpoch = 0
      /\ DOMAIN tick = Ticks /\ \A p \in Ticks : tick[p] = Idle
      /\ mined = {} /\ DOMAIN rows = {} /\ announced = {} /\ unpublished = 0
  BY DEF Init
<1>3. RouterOK
  <2>1. IsFiniteSet(mined)
    BY <1>2, FS_EmptySet
  <2>2. currentEpoch \in 0 .. MaxBlocks
    BY <1>2, MedullaAssumption
  <2> QED BY <1>2, <2>1, <2>2, IdleIsACall DEF RouterOK
<1>4. InStep
  <2>1. \A e \in Events : Cardinality(FoldsOf(e, mined)) = 0
    <3>1. \A e \in Events : FoldsOf(e, mined) = {}
      BY <1>2 DEF FoldsOf
    <3> QED BY <3>1, FS_EmptySet
  <2>2. FoldedPerDelivery
    BY <1>2, <2>1 DEF FoldedPerDelivery, FoldsOf
  <2>3. \A p \in Ticks, e \in Events : Owed(e, buffered, tick[p]) = 0
    BY <1>2 DEF Owed
  <2>4. RowsAreMined
    BY <1>2 DEF RowsAreMined
  <2> QED BY <1>2, <2>1, <2>2, <2>3, <2>4, IdleIsACall DEF InStep
<1>5. restarts \in Nat
  BY DEF Init
<1> QED BY <1>1, <1>3, <1>4, <1>5 DEF IInv

-----------------------------------------------------------------------------

\* Whatever is delivered, fails, is lost, overlaps or restarts: the daemon's chain stays in
\* order, what a tick of server.ts has an anchor for was mined under the anchor's epoch, and
\* as long as ticks do not overlap the router is in step with the daemon.
THEOREM InductiveInvariant == Spec => []IInv
BY InitKeeps, StepKeeps, PTL DEF Spec

LEMMA TypeCorrect == IInv => TypeOK
<1> SUFFICES ASSUME IInv PROVE TypeOK
  OBVIOUS
<1>1. ChainOK /\ RouterOK
  BY DEF IInv
<1>2. MedullaTypeOK
  BY <1>1 DEF ChainOK, EpochIsHeight
<1>3. \A p \in Ticks : tick[p].tuple \subseteq Events
  BY <1>1 DEF RouterOK, CallOK
<1> QED BY <1>1, <1>2, <1>3 DEF TypeOK, RouterOK

\* What the Epoch table and the epoch.transition events say of an epoch was mined under
\* that number, and until the daemon restarts the row is the block of that height, provided
\* that a tick of server.ts ends before the next one begins: currentEpoch is read again after
\* the awaits, so an overlapping tick would put its own epoch under another's roots.
THEOREM RecordsStayTrue == OneAtATime /\ Spec => []RecordsAreMined
<1> SUFFICES ASSUME OneAtATime PROVE Spec => []RecordsAreMined
  OBVIOUS
<1>1. IInv => RecordsAreMined
  BY TypeCorrect DEF IInv, InStep, RowsAreMined, RecordsAreMined
<1> QED BY <1>1, InductiveInvariant, PTL

\* Under the same proviso an event is folded into no more blocks than it was delivered and
\* publishes of server.ts failed, however many events and restarts there are.
THEOREM FoldsAreAccounted == OneAtATime /\ Spec => []FoldedPerDelivery
<1> SUFFICES ASSUME OneAtATime PROVE Spec => []FoldedPerDelivery
  OBVIOUS
<1>1. IInv => FoldedPerDelivery
  BY DEF IInv, InStep
<1> QED BY <1>1, InductiveInvariant, PTL

\* What leaves the buffers of server.ts without being in a block was delivered after the roots
\* of the tick that empties them were computed, or the submission of that tick failed: for
\* any number of overlapping ticks.
THEOREM BuffersHeard == Spec => HeardUntilFolded
<1> DEFINE Heard ==
      \A e \in buffered \ buffered' :
        \/ restarts' # restarts
        \/ \E m \in mined : m[2] # ZeroTuple /\ e \in m[2]
        \/ \E p \in Ticks :
            /\ tick'[p] = Idle
            /\ tick[p].at = "failed" \/ (tick[p].at = "clear" /\ e \notin tick[p].tuple)
<1>1. IInv /\ [Next]_vars => [Heard]_vars
  <2> SUFFICES ASSUME IInv, Next, NEW e \in buffered \ buffered'
               PROVE  \/ restarts' # restarts
                      \/ \E m \in mined : m[2] # ZeroTuple /\ e \in m[2]
                      \/ \E p \in Ticks :
                           /\ tick'[p] = Idle
                           /\ tick[p].at = "failed" \/ (tick[p].at = "clear" /\ e \notin tick[p].tuple)
    BY DEF vars
  <2>1. RouterOK /\ DOMAIN tick = Ticks
    BY DEF IInv, RouterOK
  <2>2. ASSUME NEW p \in Ticks, GiveUp(p) PROVE tick[p].at = "failed" /\ tick'[p] = Idle
    BY <2>1, <2>2 DEF GiveUp, Ends
  <2>3. ASSUME NEW p \in Ticks, Clear(p) PROVE tick[p].at = "clear" /\ tick'[p] = Idle
    BY <2>1, <2>3 DEF Clear, Ends
  <2>4. ASSUME NEW p \in Ticks, Clear(p), e \in tick[p].tuple
        PROVE  \E m \in mined : m[2] # ZeroTuple /\ e \in m[2]
    <3> DEFINE m == <<tick[p].anchor.epoch, tick[p].tuple>>
    <3>1. CallOK(tick[p], mined, currentEpoch)
      BY <2>1 DEF RouterOK
    <3>2. m \in mined /\ tick[p].tuple \subseteq Events
      BY <2>3, <2>4, <3>1 DEF CallOK, Folding, Placed
    <3>3. tick[p].tuple # ZeroTuple
      BY <3>2, CycleAssumption
    <3> QED BY <2>4, <3>2, <3>3
  <2>5. ASSUME NEW p \in Ticks, Begin(p) \/ Step(p), buffered' # buffered
        PROVE  GiveUp(p) \/ Clear(p)
    BY <2>5 DEF Begin, Step, Mined, SubmitFails, Answered, Prove, Send, Commit, Record, Publish,
                PublishFails
  <2>6. ASSUME NEW x \in Events, Deliver(x) PROVE FALSE
    BY <2>6 DEF Deliver
  <2>7. CASE MineBlock \/ MedullaRestart
    BY <2>7 DEF MineBlock, MedullaRestart, routerVars
  <2>8. ASSUME RouterRestart PROVE restarts' # restarts
    <3>1. restarts' = restarts + 1 /\ restarts \in Nat
      BY <2>8 DEF RouterRestart, IInv
    <3> QED BY <3>1
  <2> QED BY <2>2, <2>3, <2>4, <2>5, <2>6, <2>7, <2>8 DEF Next
<1> QED BY <1>1, InductiveInvariant, PTL DEF Spec, HeardUntilFolded
=============================================================================
