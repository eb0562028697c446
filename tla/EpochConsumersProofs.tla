-------------------------- MODULE EpochConsumersProofs -------------------------
(***************************************************************************)
(* Proofs about the three consumers, for any stacks, desyncs and bounds,   *)
(* and any redelivery: a stack is paid for an epoch at most as often as    *)
(* the epoch was handed over, its epoch falls only when one was handed     *)
(* over twice, and the meter's rows add up to the uses handed to it.       *)
(*                                                                         *)
(* How often a message was handed over is a tally along the stream, a      *)
(* recursive function; an append that nobody was given leaves it, and a    *)
(* delivery adds one to the tally of its message: both by induction over a *)
(* set of numbers in place of a predicate.                                 *)
(*                                                                         *)
(* The strengthening says of the bus that what a handler is busy with, and *)
(* what is due again, was handed over and is no newer than the newest      *)
(* message that was; of the stream that the epochs of its transitions      *)
(* rise; of the treasury that a row still owed in the turn of its loop is  *)
(* covered by the tally too, and that a stack's epoch is that of a message *)
(* handed over; of the meter that its rows and what it has not flushed     *)
(* never exceed the tally, and while undisturbed make it up, during a      *)
(* flush included.                                                         *)
(***************************************************************************)
EXTENDS EpochConsumers, FiniteSetTheorems, WellFoundedInduction, TLAPS

\* Induction on the natural numbers, for a set that holds 0 and is closed under successors.
LEMMA InductiveSet ==
  ASSUME NEW A \in SUBSET Nat, 0 \in A, \A n \in A : n + 1 \in A
  PROVE  A = Nat
<1> DEFINE less == OpToRel(<, Nat)
           T == Nat \ A
<1>1. SUFFICES ASSUME T # {} PROVE FALSE
  OBVIOUS
<1>2. IsWellFoundedOn(less, Nat)
  BY NatLessThanWellFounded
<1>3. PICK n \in T : \A m \in T : <<m, n>> \notin less
  <2> HIDE DEF less
  <2> QED BY <1>1, <1>2, WFMin
<1>4. n # 0 /\ n - 1 \in Nat
  OBVIOUS
<1>5. <<n - 1, n>> \in less
  BY <1>4 DEF OpToRel
<1>6. n - 1 \in A
  BY <1>3, <1>4, <1>5
<1>7. n \in A
  <2>1. (n - 1) + 1 \in A
    BY <1>6
  <2>2. (n - 1) + 1 = n
    BY <1>4
  <2> QED BY <2>1, <2>2
<1> QED BY <1>7

-----------------------------------------------------------------------------
(* Tallies.                                                                 *)

\* g adds up the counts at the places of message m, place by place up to k.
Adds(g, st, h, m, k) ==
  /\ g[0] = 0
  /\ \A n \in 1 .. k : g[n] = g[n - 1] + IF st[n] = m THEN h[n] ELSE 0

Partial(g, st, h, m, k) ==
  g = [n \in 0 .. k |-> IF n = 0 THEN 0 ELSE g[n - 1] + IF st[n] = m THEN h[n] ELSE 0]

LEMMA PartialExists ==
  ASSUME NEW st, NEW h, NEW m, NEW k \in Nat
  PROVE  \E g : Partial(g, st, h, m, k)
<1> DEFINE A == {n \in Nat : \E g : Partial(g, st, h, m, n)}
<1>1. A \in SUBSET Nat /\ \A n \in Nat : n \in A <=> \E g : Partial(g, st, h, m, n)
  OBVIOUS
<1> HIDE DEF A
<1>2. 0 \in A
  <2>1. Partial([n \in 0 .. 0 |-> 0], st, h, m, 0)
    BY DEF Partial
  <2> QED BY <1>1, <2>1
<1>3. ASSUME NEW n \in A PROVE n + 1 \in A
  <2>1. n \in Nat
    BY <1>1
  <2>2. PICK g : Partial(g, st, h, m, n)
    BY <1>1
  <2> DEFINE f == [i \in 0 .. n + 1 |-> IF i = 0 THEN 0 ELSE g[i - 1] + IF st[i] = m THEN h[i] ELSE 0]
  <2>3. ASSUME NEW i \in 0 .. n PROVE f[i] = g[i]
    <3>1. i \in 0 .. n + 1
      BY <2>1
    <3>2. f[i] = IF i = 0 THEN 0 ELSE g[i - 1] + IF st[i] = m THEN h[i] ELSE 0
      BY <3>1
    <3>3. g[i] = IF i = 0 THEN 0 ELSE g[i - 1] + IF st[i] = m THEN h[i] ELSE 0
      BY <2>2, Zenon DEF Partial
    <3> QED BY <3>2, <3>3, Zenon
  <2>4. \A i \in 0 .. n + 1 : i # 0 => f[i - 1] = g[i - 1]
    <3>1. \A i \in 0 .. n + 1 : i # 0 => i - 1 \in 0 .. n
      BY <2>1
    <3> HIDE DEF f
    <3> QED BY <2>3, <3>1
  <2>5. f = [i \in 0 .. n + 1 |-> IF i = 0 THEN 0 ELSE f[i - 1] + IF st[i] = m THEN h[i] ELSE 0]
    BY <2>4
  <2>6. Partial(f, st, h, m, n + 1)
    <3> HIDE DEF f
    <3> QED BY <2>5, Zenon DEF Partial
  <2> QED BY <1>1, <2>1, <2>6
<1>4. A = Nat
  BY <1>1, <1>2, <1>3, InductiveSet
<1> QED BY <1>1, <1>4

LEMMA TallyIs ==
  ASSUME NEW st, NEW h, NEW m, Len(st) \in Nat
  PROVE  \E g : Adds(g, st, h, m, Len(st)) /\ Tally(st, h, m) = g[Len(st)]
<1> DEFINE k == Len(st)
           g == CHOOSE f : f = [n \in 0 .. Len(st) |->
                  IF n = 0 THEN 0 ELSE f[n - 1] + IF st[n] = m THEN h[n] ELSE 0]
<1>1. Tally(st, h, m) = g[Len(st)]
  BY DEF Tally
<1>2. \E f : Partial(f, st, h, m, Len(st))
  BY PartialExists
<1>3. g = [n \in 0 .. Len(st) |-> IF n = 0 THEN 0 ELSE g[n - 1] + IF st[n] = m THEN h[n] ELSE 0]
  BY <1>2, Zenon DEF Partial
<1> HIDE DEF g
<1>4. g[0] = 0
  <2>1. 0 \in 0 .. Len(st)
    OBVIOUS
  <2> QED BY <1>3, <2>1, Zenon
<1>5. ASSUME NEW n \in 1 .. Len(st) PROVE g[n] = g[n - 1] + IF st[n] = m THEN h[n] ELSE 0
  <2>1. n \in 0 .. Len(st) /\ n # 0
    OBVIOUS
  <2> QED BY <1>3, <2>1, Zenon
<1> QED BY <1>1, <1>4, <1>5 DEF Adds

\* The same messages, and at place i one more.
OneMore(st, h, tt, e, i, k) ==
  \A n \in 1 .. k : tt[n] = st[n] /\ h[n] \in Nat /\ e[n] = h[n] + IF n = i THEN 1 ELSE 0

LEMMA AddsCompared ==
  ASSUME NEW g, NEW f, NEW st, NEW tt, NEW h, NEW e, NEW m, NEW k \in Nat, NEW i \in Nat,
         Adds(g, st, h, m, k), Adds(f, tt, e, m, k),
         OneMore(st, h, tt, e, i, k)
  PROVE  /\ g[k] \in Nat
         /\ f[k] = g[k] + IF i \in 1 .. k /\ st[i] = m THEN 1 ELSE 0
<1> DEFINE Fine(n) == n <= k => /\ g[n] \in Nat
                                /\ f[n] = g[n] + IF i \in 1 .. n /\ st[i] = m THEN 1 ELSE 0
           A == {n \in Nat : Fine(n)}
<1>1. A \in SUBSET Nat /\ \A n \in Nat : n \in A <=> Fine(n)
  OBVIOUS
<1> HIDE DEF A
<1>2. 0 \in A
  <2>1. Fine(0)
    BY DEF Adds
  <2> QED BY <1>1, <2>1
<1>3. ASSUME NEW n \in A PROVE n + 1 \in A
  <2>1. n \in Nat /\ Fine(n)
    BY <1>1
  <2>2. SUFFICES ASSUME n + 1 <= k
                 PROVE  /\ g[n + 1] \in Nat
                        /\ f[n + 1] = g[n + 1] + IF i \in 1 .. n + 1 /\ st[i] = m THEN 1 ELSE 0
    BY <1>1, <2>1
  <2>3. n + 1 \in 1 .. k /\ (n + 1) - 1 = n
    BY <2>1, <2>2
  <2>4. /\ g[n + 1] = g[n] + IF st[n + 1] = m THEN h[n + 1] ELSE 0
        /\ f[n + 1] = f[n] + IF tt[n + 1] = m THEN e[n + 1] ELSE 0
    BY <2>3 DEF Adds
  <2>5. /\ tt[n + 1] = st[n + 1] /\ h[n + 1] \in Nat
        /\ e[n + 1] = h[n + 1] + IF n + 1 = i THEN 1 ELSE 0
    BY <2>3 DEF OneMore
  <2>6. /\ g[n] \in Nat
        /\ f[n] = g[n] + IF i \in 1 .. n /\ st[i] = m THEN 1 ELSE 0
    BY <2>1, <2>2
  <2>7. CASE i = n + 1
    BY <2>1, <2>4, <2>5, <2>6, <2>7
  <2>8. CASE i # n + 1
    <3>1. i \in 1 .. n + 1 <=> i \in 1 .. n
      BY <2>1, <2>8
    <3> QED BY <2>1, <2>4, <2>5, <2>6, <2>8, <3>1
  <2> QED BY <2>7, <2>8
<1>4. A = Nat
  BY <1>1, <1>2, <1>3, InductiveSet
<1>5. Fine(k)
  <2> HIDE DEF Fine
  <2> QED BY <1>1, <1>4
<1> QED BY <1>5

Counts(st, h) == Len(st) \in Nat /\ Len(h) = Len(st) /\ h \in Seq(Nat)

LEMMA TallyNat ==
  ASSUME NEW st, NEW h, NEW m, Counts(st, h)
  PROVE  Tally(st, h, m) \in Nat
<1>1. PICK g : Adds(g, st, h, m, Len(st)) /\ Tally(st, h, m) = g[Len(st)]
  BY TallyIs DEF Counts
<1>2. PICK k : k = Len(st)
  OBVIOUS
<1>3. k \in Nat /\ \A n \in 1 .. k : h[n] \in Nat
  BY <1>2 DEF Counts
<1>4. Adds(g, st, h, m, k)
  BY <1>1, <1>2
<1> DEFINE A == {n \in Nat : n <= k => g[n] \in Nat}
<1>5. A \in SUBSET Nat /\ \A n \in Nat : n \in A <=> (n <= k => g[n] \in Nat)
  OBVIOUS
<1> HIDE DEF A
<1>6. 0 \in A
  BY <1>4, <1>5 DEF Adds
<1>7. ASSUME NEW n \in A PROVE n + 1 \in A
  <2>1. n \in Nat
    BY <1>5
  <2>2. SUFFICES ASSUME n + 1 <= k PROVE g[n + 1] \in Nat
    BY <1>5, <2>1
  <2>3. n + 1 \in 1 .. k /\ (n + 1) - 1 = n /\ g[n] \in Nat
    BY <1>3, <1>5, <2>1, <2>2
  <2>4. g[n + 1] = g[n] + IF st[n + 1] = m THEN h[n + 1] ELSE 0
    BY <1>4, <2>3 DEF Adds
  <2> QED BY <1>3, <2>3, <2>4
<1>8. A = Nat
  BY <1>5, <1>6, <1>7, InductiveSet
<1> QED BY <1>1, <1>2, <1>3, <1>5, <1>8

\* A message that has not been handed over adds nothing.
LEMMA TallyAppend ==
  ASSUME NEW S, NEW st \in Seq(S), NEW x \in S, NEW h, NEW m, Counts(st, h)
  PROVE  /\ Counts(Append(st, x), Append(h, 0))
         /\ Tally(Append(st, x), Append(h, 0), m) = Tally(st, h, m)
<1>1. PICK k \in Nat : k = Len(st)
  BY DEF Counts
<1>2. PICK tt, e : tt = Append(st, x) /\ e = Append(h, 0)
  OBVIOUS
<1>3. h \in Seq(Nat) /\ Len(h) = k
  BY <1>1 DEF Counts
<1>4. /\ Len(tt) = k + 1 /\ Len(e) = k + 1 /\ e \in Seq(Nat)
      /\ \A n \in 1 .. k : tt[n] = st[n] /\ e[n] = h[n] /\ h[n] \in Nat
      /\ e[k + 1] = 0
  BY <1>1, <1>2, <1>3
<1>5. PICK g : Adds(g, st, h, m, k) /\ Tally(st, h, m) = g[k]
  BY <1>1, TallyIs
<1>6. PICK f : Adds(f, tt, e, m, k + 1) /\ Tally(tt, e, m) = f[k + 1]
  BY <1>4, TallyIs
<1>7. Adds(f, tt, e, m, k)
  BY <1>6 DEF Adds
<1>8. OneMore(st, h, tt, e, 0, k)
  BY <1>4 DEF OneMore
<1>9. g[k] \in Nat /\ f[k] = g[k] + IF 0 \in 1 .. k /\ st[0] = m THEN 1 ELSE 0
  <2>1. 0 \in Nat
    OBVIOUS
  <2> QED BY <1>5, <1>7, <1>8, <2>1, AddsCompared
<1>10. f[k] = g[k]
  BY <1>9
<1>11. f[k + 1] = f[k] + IF tt[k + 1] = m THEN e[k + 1] ELSE 0
  <2>1. k + 1 \in 1 .. k + 1 /\ (k + 1) - 1 = k
    OBVIOUS
  <2>2. f[k + 1] = f[(k + 1) - 1] + IF tt[k + 1] = m THEN e[k + 1] ELSE 0
    BY <1>6, <2>1 DEF Adds
  <2> QED BY <2>1, <2>2
<1>12. f[k + 1] = g[k]
  BY <1>4, <1>9, <1>10, <1>11
<1>13. Counts(tt, e)
  BY <1>4 DEF Counts
<1> QED BY <1>2, <1>5, <1>6, <1>12, <1>13

\* Handing over what is at place i adds one to the tally of that message.
LEMMA TallyOneMore ==
  ASSUME NEW st, NEW h, NEW m, NEW i \in 1 .. Len(st), Counts(st, h)
  PROVE  /\ Counts(st, [h EXCEPT ![i] = @ + 1])
         /\ Tally(st, [h EXCEPT ![i] = @ + 1], m) = Tally(st, h, m) + IF st[i] = m THEN 1 ELSE 0
<1>1. PICK k \in Nat : k = Len(st)
  BY DEF Counts
<1>2. PICK e : e = [h EXCEPT ![i] = @ + 1]
  OBVIOUS
<1>3. h \in Seq(Nat) /\ Len(h) = k /\ i \in 1 .. k
  BY <1>1 DEF Counts
<1>4. DOMAIN h = 1 .. k /\ \A n \in 1 .. k : h[n] \in Nat
  BY <1>1, <1>3
<1>5. /\ Len(e) = k /\ e \in Seq(Nat)
      /\ \A n \in 1 .. k : h[n] \in Nat /\ e[n] = h[n] + IF n = i THEN 1 ELSE 0
  <2>1. e \in [1 .. k -> Nat]
    BY <1>2, <1>3, <1>4
  <2> QED BY <1>2, <1>3, <1>4, <2>1
<1>6. PICK g : Adds(g, st, h, m, k) /\ Tally(st, h, m) = g[k]
  BY <1>1, TallyIs
<1>7. PICK f : Adds(f, st, e, m, k) /\ Tally(st, e, m) = f[k]
  BY <1>1, TallyIs
<1>8. i \in Nat
  BY <1>3
<1>9. f[k] = g[k] + IF i \in 1 .. k /\ st[i] = m THEN 1 ELSE 0
  <2>1. OneMore(st, h, st, e, i, k)
    BY <1>5 DEF OneMore
  <2> QED BY <1>6, <1>7, <1>8, <2>1, AddsCompared
<1>10. Counts(st, e)
  BY <1>1, <1>5 DEF Counts
<1> QED BY <1>2, <1>3, <1>6, <1>7, <1>9, <1>10

-----------------------------------------------------------------------------
(* The bus.                                                                 *)

Message == ({"epoch.transition"} \X (1 .. MaxEpoch)) \cup ({"use"} \X Stacks) \cup ({"sleeve.desync"} \X Desyncs)

\* Message i was handed to durable d, which asked for its kind.
Given(d, i) == i \in 1 .. last[d] /\ Wants(d, stream[i]) /\ handed[d][i] > 0

DurableOK(d) ==
  /\ last[d] \in 0 .. Len(stream)
  /\ again[d] \in SUBSET Nat /\ \A i \in again[d] : Given(d, i)
  /\ current[d] \in Nat /\ (current[d] # 0 => Given(d, current[d]))
  /\ Counts(stream, handed[d])
  /\ \A i \in 1 .. Len(stream) : handed[d][i] > 0 => Wants(d, stream[i]) /\ i <= last[d]

BusOK ==
  /\ stream \in Seq(Message)
  /\ DOMAIN last = Durables /\ DOMAIN again = Durables
  /\ DOMAIN current = Durables /\ DOMAIN handed = Durables
  /\ \A d \in Durables : DurableOK(d)

\* What a step leaves of the subscription of durable d and of the messages so far.
Aside(d) ==
  /\ current'[d] = current[d] /\ last'[d] = last[d]
  /\ Len(stream') \in Nat /\ Len(stream) <= Len(stream')
  /\ \A i \in 1 .. Len(stream) : stream'[i] = stream[i] /\ handed'[d][i] = handed[d][i]
  /\ \A x : Handed(d, x)' = Handed(d, x)

LEMMA Published ==
  ASSUME BusOK, NEW m \in Message, Bus!Publish(m)
  PROVE  /\ BusOK'
         /\ stream' = Append(stream, m)
         /\ \A d \in Durables : Aside(d)
<1>1. /\ stream' = Append(stream, m) /\ handed' = [d \in Durables |-> Append(handed[d], 0)]
      /\ UNCHANGED <<last, again, current>>
  BY DEF Bus!Publish
<1>2. stream \in Seq(Message) /\ stream' \in Seq(Message) /\ Len(stream) \in Nat
      /\ Len(stream') = Len(stream) + 1
      /\ \A i \in 1 .. Len(stream) : stream'[i] = stream[i]
  BY <1>1 DEF BusOK
<1>3. ASSUME NEW d \in Durables
      PROVE  DurableOK(d)' /\ Aside(d)
  <2>1. handed'[d] = Append(handed[d], 0) /\ Counts(stream, handed[d])
    BY <1>1 DEF BusOK, DurableOK
  <2>2. Counts(stream', handed'[d]) /\ \A x : Tally(stream', handed'[d], x) = Tally(stream, handed[d], x)
    BY <1>1, <1>2, <2>1, TallyAppend
  <2>3. /\ handed[d] \in Seq(Nat) /\ Len(handed[d]) = Len(stream)
        /\ \A i \in 1 .. Len(stream) : handed'[d][i] = handed[d][i]
        /\ handed'[d][Len(stream) + 1] = 0
    BY <2>1 DEF Counts
  <2>4. last[d] \in 0 .. Len(stream') /\ last[d] \in 0 .. Len(stream)
    BY <1>2 DEF BusOK, DurableOK
  <2>5. \A i : Given(d, i) => Given(d, i)'
    BY <1>1, <1>2, <2>3, <2>4 DEF Given
  <2>6. DurableOK(d)'
    <3>1. \A i \in 1 .. Len(stream') : i \in 1 .. Len(stream) \/ i = Len(stream) + 1
      BY <1>2
    <3>2. \A i \in 1 .. Len(stream') : handed'[d][i] > 0 => Wants(d, stream'[i]) /\ i <= last'[d]
      BY <1>1, <1>2, <2>3, <3>1 DEF BusOK, DurableOK
    <3> QED BY <1>1, <2>2, <2>4, <2>5, <3>2 DEF BusOK, DurableOK
  <2>7. \A x : Handed(d, x)' = Handed(d, x)
    BY <2>2 DEF Handed
  <2> QED BY <1>1, <1>2, <2>3, <2>6, <2>7 DEF Aside
<1> QED BY <1>1, <1>2, <1>3 DEF BusOK

\* A message is handed over: a new one, the next that is wanted, or one that is due again.
LEMMA Delivered ==
  ASSUME BusOK, NEW d \in Durables, Bus!Deliver(d)
  PROVE  /\ BusOK'
         /\ current[d] = 0 /\ stream' = stream
         /\ \A c \in Durables \ {d} : Aside(c)
         /\ \E i \in 1 .. Len(stream) :
              /\ current' = [current EXCEPT ![d] = i]
              /\ Wants(d, stream[i])
              /\ \A j \in 1 .. Len(stream) : handed'[d][j] = IF j = i THEN handed[d][j] + 1 ELSE handed[d][j]
              /\ \A x : Handed(d, x)' = Handed(d, x) + IF stream[i] = x THEN 1 ELSE 0
              /\ last'[d] >= last[d] /\ last'[d] >= i
              /\ handed[d][i] = 0 => last'[d] = i
<1>1. current[d] = 0 /\ stream' = stream
  BY DEF Bus!Deliver
<1>2. PICK i \in again[d] \cup {j \in Bus!New(d) : j = Bus!Min(Bus!New(d))} :
        /\ current' = [current EXCEPT ![d] = i]
        /\ last' = [last EXCEPT ![d] = Bus!Max({@, i})]
        /\ again' = [again EXCEPT ![d] = @ \ {i}]
        /\ handed' = [handed EXCEPT ![d][i] = @ + 1]
  BY DEF Bus!Deliver
<1>3. /\ stream \in Seq(Message) /\ Len(stream) \in Nat /\ DurableOK(d)
      /\ last[d] \in 0 .. Len(stream) /\ DOMAIN stream = 1 .. Len(stream)
  BY DEF BusOK, DurableOK
<1>4. /\ i \in 1 .. Len(stream) /\ Wants(d, stream[i])
      /\ i \in again[d] => i <= last[d] /\ handed[d][i] > 0
      /\ i \notin again[d] => i > last[d]
  <2>1. CASE i \in again[d]
    <3>1. Given(d, i)
      BY <1>3, <2>1 DEF DurableOK
    <3> QED BY <1>3, <2>1, <3>1 DEF Given
  <2>2. CASE i \notin again[d]
    BY <1>2, <1>3, <2>2 DEF Bus!New
  <2> QED BY <2>1, <2>2
<1>5. Bus!Max({last[d], i}) = IF i <= last[d] THEN last[d] ELSE i
  <2>1. last[d] \in Nat /\ i \in Nat
    BY <1>3, <1>4
  <2>2. PICK l \in Nat : l = last[d]
    BY <2>1
  <2>3. \A x \in {l, i} : (\A y \in {l, i} : x >= y) <=> x = IF i <= l THEN l ELSE i
    BY <2>1
  <2> QED BY <2>2, <2>3 DEF Bus!Max
<1>6. last'[d] = IF i <= last[d] THEN last[d] ELSE i
  BY <1>2, <1>5 DEF BusOK
<1>7. PICK e : e = [handed[d] EXCEPT ![i] = @ + 1]
  OBVIOUS
<1>8. handed' = [handed EXCEPT ![d] = e] /\ handed'[d] = e
  BY <1>2, <1>7 DEF BusOK
<1>9. Counts(stream, handed[d])
  BY <1>3 DEF DurableOK
<1>10. Counts(stream, e) /\ \A x : Tally(stream, e, x) = Tally(stream, handed[d], x) + IF stream[i] = x THEN 1 ELSE 0
  BY <1>4, <1>7, <1>9, TallyOneMore
<1>11. /\ \A j \in 1 .. Len(stream) : handed[d][j] \in Nat /\ e[j] = IF j = i THEN handed[d][j] + 1 ELSE handed[d][j]
       /\ e[i] > 0
  <2>1. handed[d] \in Seq(Nat) /\ Len(handed[d]) = Len(stream)
    BY <1>9 DEF Counts
  <2>2. \A j \in 1 .. Len(stream) : handed[d][j] \in Nat
    BY <2>1
  <2>3. \A j \in 1 .. Len(stream) : e[j] = IF j = i THEN handed[d][j] + 1 ELSE handed[d][j]
    BY <1>7, <2>1
  <2> QED BY <1>4, <2>2, <2>3
<1>12. DurableOK(d)'
  <2>1. \A j : Given(d, j) => Given(d, j)'
    <3> SUFFICES ASSUME NEW j, Given(d, j) PROVE Given(d, j)'
      OBVIOUS
    <3>1. j \in 1 .. last[d] /\ Wants(d, stream[j]) /\ handed[d][j] > 0 /\ j \in 1 .. Len(stream)
      BY <1>3 DEF Given
    <3>2. j \in 1 .. last'[d]
      BY <1>3, <1>4, <1>6, <3>1
    <3>3. e[j] > 0
      BY <1>11, <3>1
    <3> QED BY <1>1, <1>8, <3>1, <3>2, <3>3 DEF Given
  <2>2. Given(d, i)'
    <3>1. i \in 1 .. last'[d]
      BY <1>3, <1>4, <1>6
    <3> QED BY <1>1, <1>4, <1>8, <1>11, <3>1 DEF Given
  <2>3. last'[d] \in 0 .. Len(stream)
    BY <1>3, <1>4, <1>6
  <2>4. again'[d] \in SUBSET Nat /\ again'[d] \subseteq again[d] /\ current'[d] = i
    BY <1>2 DEF BusOK, DurableOK
  <2>5. \A j \in 1 .. Len(stream) : e[j] > 0 => Wants(d, stream[j]) /\ j <= last'[d]
    <3> SUFFICES ASSUME NEW j \in 1 .. Len(stream), e[j] > 0 PROVE Wants(d, stream[j]) /\ j <= last'[d]
      OBVIOUS
    <3>1. CASE j = i
      BY <1>3, <1>4, <1>6, <3>1
    <3>2. CASE j # i
      <4>1. Wants(d, stream[j]) /\ j <= last[d]
        BY <1>3, <1>11, <3>2 DEF DurableOK
      <4> QED BY <1>3, <1>4, <1>6, <4>1
    <3> QED BY <3>1, <3>2
  <2>6. i \in Nat
    BY <1>4
  <2> QED BY <1>1, <1>3, <1>8, <1>10, <2>1, <2>2, <2>3, <2>4, <2>5, <2>6 DEF DurableOK
<1>13. ASSUME NEW c \in Durables, c # d PROVE DurableOK(c)' /\ Aside(c)
  <2>1. /\ last'[c] = last[c] /\ again'[c] = again[c] /\ current'[c] = current[c] /\ handed'[c] = handed[c]
    BY <1>2, <1>8, <1>13 DEF BusOK
  <2>2. \A j : Given(c, j)' <=> Given(c, j)
    BY <1>1, <2>1 DEF Given
  <2>3. DurableOK(c)'
    BY <1>1, <2>1, <2>2 DEF BusOK, DurableOK
  <2>4. \A x : Handed(c, x)' = Handed(c, x)
    BY <1>1, <2>1 DEF Handed
  <2> QED BY <1>1, <1>3, <2>1, <2>3, <2>4 DEF Aside
<1>14. BusOK'
  BY <1>1, <1>2, <1>8, <1>12, <1>13 DEF BusOK
<1>15. \A x : Handed(d, x)' = Handed(d, x) + IF stream[i] = x THEN 1 ELSE 0
  BY <1>1, <1>8, <1>10 DEF Handed
<1>16. last'[d] >= last[d] /\ last'[d] >= i /\ (handed[d][i] = 0 => last'[d] = i)
  BY <1>3, <1>4, <1>6
<1>17. current' = [current EXCEPT ![d] = i]
  BY <1>2
<1>18. \A j \in 1 .. Len(stream) : handed'[d][j] = IF j = i THEN handed[d][j] + 1 ELSE handed[d][j]
  BY <1>8, <1>11
<1> QED BY <1>1, <1>4, <1>13, <1>14, <1>15, <1>16, <1>17, <1>18

\* Nothing is published or handed over: what a handler was busy with may be let go, and
\* be due again.
Quiet ==
  /\ UNCHANGED <<stream, last, handed>>
  /\ DOMAIN again' = Durables /\ DOMAIN current' = Durables
  /\ \A d \in Durables :
        /\ current'[d] \in {0, current[d]}
        /\ again'[d] \subseteq again[d] \cup ({current[d]} \ {0})

LEMMA Quieted ==
  ASSUME BusOK, Quiet
  PROVE  BusOK' /\ \A d \in Durables : current'[d] = current[d] => Aside(d)
<1>1. \A d : \A x : Handed(d, x)' = Handed(d, x)
  BY DEF Quiet, Handed
<1>2. ASSUME NEW d \in Durables PROVE DurableOK(d)'
  <2>1. \A j : Given(d, j)' <=> Given(d, j)
    BY DEF Quiet, Given
  <2>2. DurableOK(d)
    BY DEF BusOK
  <2>3. current'[d] \in {0, current[d]} /\ again'[d] \subseteq again[d] \cup ({current[d]} \ {0})
    BY DEF Quiet
  <2> QED BY <2>1, <2>2, <2>3 DEF Quiet, DurableOK
<1>3. Len(stream) \in Nat
  BY DEF BusOK
<1>4. \A d \in Durables : current'[d] = current[d] => Aside(d)
  BY <1>1, <1>3 DEF Quiet, Aside
<1> QED BY <1>2, <1>4 DEF Quiet, BusOK

LEMMA QuietSteps ==
  ASSUME BusOK
  PROVE  /\ \A d \in Durables : Bus!Ack(d) => Quiet /\ current' = [current EXCEPT ![d] = 0]
         /\ \A d \in Durables : Bus!Busy(d) /\ Bus!Nak(d) => Quiet /\ current' = [current EXCEPT ![d] = 0]
         /\ \A d \in Durables : Bus!AckWaitExpires(d) => Quiet /\ current' = current
         /\ \A ds \in SUBSET Durables : Bus!Drop(ds) =>
              Quiet /\ current' = [d \in Durables |-> IF d \in ds THEN 0 ELSE current[d]]
         /\ UNCHANGED messageVars => Quiet
<1>1. DOMAIN again = Durables /\ DOMAIN current = Durables
  BY DEF BusOK
<1>2. ASSUME NEW d \in Durables, Bus!Ack(d) PROVE Quiet /\ current' = [current EXCEPT ![d] = 0]
  BY <1>1, <1>2 DEF Bus!Ack, Quiet
<1>3. ASSUME NEW d \in Durables, Bus!Busy(d), Bus!Nak(d) PROVE Quiet /\ current' = [current EXCEPT ![d] = 0]
  BY <1>1, <1>3 DEF Bus!Nak, Bus!Busy, Quiet
<1>4. ASSUME NEW d \in Durables, Bus!AckWaitExpires(d) PROVE Quiet /\ current' = current
  BY <1>1, <1>4 DEF Bus!AckWaitExpires, Quiet
<1>5. ASSUME NEW ds \in SUBSET Durables, Bus!Drop(ds)
      PROVE  Quiet /\ current' = [d \in Durables |-> IF d \in ds THEN 0 ELSE current[d]]
  BY <1>1, <1>5 DEF Bus!Drop, Quiet
<1>6. UNCHANGED messageVars => Quiet
  BY <1>1 DEF messageVars, Quiet
<1> QED BY <1>2, <1>3, <1>4, <1>5, <1>6

LEMMA Deliveries ==
  ASSUME BusOK
  PROVE  /\ \A d \in Durables : \A x : Handed(d, x) \in Nat
         /\ \A d \in Durables : current[d] # 0 =>
              current[d] \in 1 .. Len(stream) /\ current[d] <= last[d] /\ Wants(d, stream[current[d]])
         /\ Len(stream) \in Nat /\ DOMAIN stream = 1 .. Len(stream)
         /\ \A d \in Durables : last[d] \in 0 .. Len(stream)
<1>1. ASSUME NEW d \in Durables, NEW x PROVE Handed(d, x) \in Nat
  BY TallyNat DEF BusOK, DurableOK, Handed
<1>2. Len(stream) \in Nat /\ DOMAIN stream = 1 .. Len(stream)
  BY DEF BusOK
<1>3. ASSUME NEW d \in Durables, current[d] # 0
      PROVE  current[d] \in 1 .. Len(stream) /\ current[d] <= last[d] /\ Wants(d, stream[current[d]])
  <2>1. Given(d, current[d]) /\ last[d] \in 0 .. Len(stream)
    BY <1>3 DEF BusOK, DurableOK
  <2> QED BY <1>2, <2>1 DEF Given
<1> QED BY <1>1, <1>2, <1>3 DEF BusOK, DurableOK

\* What the kinds of messages carry.
LEMMA Payloads ==
  ASSUME NEW m \in Message
  PROVE  /\ m[1] = "epoch.transition" => m[2] \in 1 .. MaxEpoch /\ m = <<"epoch.transition", m[2]>>
         /\ m[1] = "use" => m[2] \in Stacks /\ m = <<"use", m[2]>>
         /\ m[1] = "sleeve.desync" => m[2] \in Desyncs
<1>1. CASE m \in {"epoch.transition"} \X (1 .. MaxEpoch)
  BY <1>1
<1>2. CASE m \in {"use"} \X Stacks
  BY <1>2
<1>3. CASE m \in {"sleeve.desync"} \X Desyncs
  BY <1>3
<1> QED BY <1>1, <1>2, <1>3 DEF Message

LEMMA Asked ==
  ASSUME NEW m \in Message
  PROVE  /\ Wants("treasury-emit", m) => m[2] \in 1 .. MaxEpoch /\ m = <<"epoch.transition", m[2]>>
         /\ Wants("worker-bw", m) => m[2] \in Stacks /\ m = <<"use", m[2]>>
<1>1. Wants("treasury-emit", m) => m[1] = "epoch.transition"
  BY DEF Wants
<1>2. Wants("worker-bw", m) => m[1] = "use"
  BY DEF Wants
<1> QED BY <1>1, <1>2, Payloads

-----------------------------------------------------------------------------
(* The epochs of the transitions rise along the stream.                     *)

IsTransition(i) == stream[i][1] = "epoch.transition"

Rising ==
  /\ \A i, j \in 1 .. Len(stream) :
        i < j /\ IsTransition(i) /\ IsTransition(j) => stream[i][2] < stream[j][2]
  /\ \A i \in 1 .. Len(stream) : IsTransition(i) => stream[i][2] <= Count("epoch.transition")

LEMMA Counted ==
  ASSUME BusOK, NEW m \in Message, stream' = Append(stream, m), NEW k
  PROVE  /\ Count(k) \in Nat
         /\ Count(k)' = Count(k) + IF m[1] = k THEN 1 ELSE 0
<1> DEFINE A == {i \in DOMAIN stream : stream[i][1] = k}
           B == {i \in DOMAIN stream' : stream'[i][1] = k}
           n == Len(stream) + 1
<1>1. /\ stream \in Seq(Message) /\ Len(stream) \in Nat /\ DOMAIN stream = 1 .. Len(stream)
      /\ DOMAIN stream' = 1 .. n /\ stream'[n] = m
      /\ \A i \in 1 .. Len(stream) : stream'[i] = stream[i]
  BY DEF BusOK
<1>2. IsFiniteSet(A)
  <2>1. IsFiniteSet(1 .. Len(stream))
    BY <1>1, FS_Interval
  <2> QED BY <1>1, <2>1, FS_Subset
<1>3. Cardinality(A) \in Nat /\ n \notin A
  BY <1>1, <1>2, FS_CardinalityType
<1>4. CASE m[1] = k
  <2>1. B = A \cup {n}
    BY <1>1, <1>4
  <2>2. Cardinality(A \cup {n}) = Cardinality(A) + 1
    BY <1>2, <1>3, FS_AddElement
  <2> QED BY <1>3, <1>4, <2>1, <2>2 DEF Count
<1>5. CASE m[1] # k
  <2>1. B = A
    BY <1>1, <1>5
  <2>2. Count(k) = Cardinality(A) /\ Count(k)' = Cardinality(B)
    BY DEF Count
  <2> HIDE DEF A, B
  <2> QED BY <1>3, <1>5, <2>1, <2>2
<1> QED BY <1>4, <1>5

LEMMA RisingStays ==
  ASSUME Rising, stream' = stream
  PROVE  Rising'
BY DEF Rising, IsTransition, Count

LEMMA RisingGrows ==
  ASSUME BusOK, Rising, NEW m \in Message, stream' = Append(stream, m),
         m[1] = "epoch.transition" => m[2] = Count("epoch.transition") + 1
  PROVE  Rising'
<1> DEFINE k == Count("epoch.transition")
<1>0. PICK n : n = Len(stream) + 1
  OBVIOUS
<1>1. /\ Len(stream) \in Nat /\ Len(stream') = n /\ stream'[n] = m
      /\ \A i \in 1 .. Len(stream) : stream'[i] = stream[i] /\ stream[i] \in Message
  BY <1>0 DEF BusOK
<1>2. k \in Nat /\ k' = k + IF m[1] = "epoch.transition" THEN 1 ELSE 0
  BY Counted
<1>3. \A i \in 1 .. Len(stream) : IsTransition(i) => stream[i][2] \in Nat /\ stream[i][2] <= k
  <2>1. \A i \in 1 .. Len(stream) : IsTransition(i) => stream[i][2] \in 1 .. MaxEpoch
    BY <1>1, Payloads DEF IsTransition
  <2> QED BY <2>1 DEF Rising
<1>4. \A i \in 1 .. n : i \in 1 .. Len(stream) \/ i = n
  BY <1>0, <1>1
<1>5. \A i \in 1 .. Len(stream) : IsTransition(i)' <=> IsTransition(i)
  BY <1>1 DEF IsTransition
<1>6. IsTransition(n)' => m[2] = k + 1 /\ k' = k + 1
  BY <1>1, <1>2 DEF IsTransition
<1> HIDE DEF k
<1>7. ASSUME NEW i \in 1 .. n, IsTransition(i)' PROVE stream'[i][2] <= k'
  <2>1. CASE i \in 1 .. Len(stream)
    BY <1>1, <1>2, <1>3, <1>5, <1>7, <2>1
  <2>2. CASE i = n
    BY <1>1, <1>2, <1>6, <1>7, <2>2
  <2> QED BY <1>4, <2>1, <2>2
<1>8. ASSUME NEW i \in 1 .. n, NEW j \in 1 .. n, i < j, IsTransition(i)', IsTransition(j)'
      PROVE  stream'[i][2] < stream'[j][2]
  <2>0. i \in 1 .. Len(stream)
    BY <1>0, <1>1, <1>8
  <2>1. CASE j \in 1 .. Len(stream)
    BY <1>1, <1>5, <1>8, <2>0, <2>1 DEF Rising
  <2>2. CASE j = n
    BY <1>1, <1>2, <1>3, <1>5, <1>6, <1>8, <2>0, <2>2
  <2> QED BY <1>4, <2>1, <2>2
<1> QED BY <1>1, <1>7, <1>8 DEF Rising, k

-----------------------------------------------------------------------------
(* The treasury.                                                            *)

TreasuryDurable == "treasury-emit"
Transit(e) == <<"epoch.transition", e>>

\* A row that the turn of the loop has still to write.
Owed(s, e) ==
  IF s \in left /\ s \notin emitting /\ stream[current[TreasuryDurable]] = Transit(e) THEN 1 ELSE 0

OnceOnly == \A i \in 1 .. Len(stream) : handed[TreasuryDurable][i] <= 1

TreasuryOK ==
  /\ left \in SUBSET Stacks /\ emitting \in SUBSET left /\ \A s, t \in emitting : s = t
  /\ left # {} => current[TreasuryDurable] # 0
  /\ emitted \in [Stacks -> [1 .. MaxEpoch -> Nat]]
  /\ stackEpoch \in [Stacks -> 0 .. MaxEpoch]
  /\ \A s \in Stacks : stackEpoch[s] = 0
                         \/ \E i \in 1 .. last[TreasuryDurable] : stream[i] = Transit(stackEpoch[s])
  /\ \A s \in Stacks, e \in 1 .. MaxEpoch :
        emitted[s][e] + Owed(s, e) <= Handed(TreasuryDurable, Transit(e))
  /\ OnceOnly => current[TreasuryDurable] \in {0, last[TreasuryDurable]}

LEMMA TreasuryAside ==
  ASSUME BusOK, TreasuryOK, UNCHANGED treasuryVars, Aside(TreasuryDurable)
  PROVE  TreasuryOK'
<1>0. TreasuryDurable \in Durables
  BY DEF TreasuryDurable, Durables
<1>1. UNCHANGED <<left, emitting, emitted, stackEpoch>>
  BY DEF treasuryVars
<1>2. /\ current'[TreasuryDurable] = current[TreasuryDurable] /\ last'[TreasuryDurable] = last[TreasuryDurable]
      /\ \A i \in 1 .. Len(stream) : stream'[i] = stream[i] /\ handed'[TreasuryDurable][i] = handed[TreasuryDurable][i]
      /\ \A x : Handed(TreasuryDurable, x)' = Handed(TreasuryDurable, x)
      /\ Len(stream') \in Nat /\ Len(stream) <= Len(stream')
  BY DEF Aside, TreasuryDurable
<1>3. /\ Len(stream) \in Nat /\ last[TreasuryDurable] \in 0 .. Len(stream)
      /\ current[TreasuryDurable] # 0 => current[TreasuryDurable] \in 1 .. Len(stream)
  BY <1>0, Deliveries
<1>4. OnceOnly' => OnceOnly
  <2>1. \A i \in 1 .. Len(stream) : i \in 1 .. Len(stream')
    BY <1>2, <1>3
  <2> QED BY <1>2, <2>1 DEF OnceOnly, TreasuryDurable
<1>5. \A s \in Stacks, e \in 1 .. MaxEpoch : Owed(s, e)' = Owed(s, e)
  <2>1. left = {} \/ stream'[current'[TreasuryDurable]] = stream[current[TreasuryDurable]]
    BY <1>2, <1>3 DEF TreasuryOK
  <2> QED BY <1>1, <2>1 DEF Owed, Transit, TreasuryDurable
<1>6. \A i \in 1 .. last[TreasuryDurable] : stream'[i] = stream[i]
  BY <1>2, <1>3
<1>7. \A s \in Stacks, e \in 1 .. MaxEpoch :
        emitted'[s][e] + Owed(s, e)' <= Handed(TreasuryDurable, Transit(e))'
  BY <1>1, <1>2, <1>5 DEF TreasuryOK
<1>8. \A s \in Stacks : stackEpoch'[s] = 0
                         \/ \E i \in 1 .. last'[TreasuryDurable] : stream'[i] = Transit(stackEpoch'[s])
  BY <1>1, <1>2, <1>6 DEF TreasuryOK
<1>9. OnceOnly' => current'[TreasuryDurable] \in {0, last'[TreasuryDurable]}
  BY <1>2, <1>4 DEF TreasuryOK
<1> QED BY <1>1, <1>2, <1>7, <1>8, <1>9 DEF TreasuryOK, Transit, TreasuryDurable

\* A step of the treasury that neither delivers nor publishes.
LEMMA TreasuryStep ==
  ASSUME BusOK, TreasuryOK, UNCHANGED <<stream, last, handed>>,
         left' \in SUBSET Stacks, emitting' \in SUBSET left', \A s, t \in emitting' : s = t,
         left' # {} => current'[TreasuryDurable] # 0,
         current'[TreasuryDurable] \in {0, current[TreasuryDurable]},
         emitted' \in [Stacks -> [1 .. MaxEpoch -> Nat]],
         stackEpoch' \in [Stacks -> 0 .. MaxEpoch],
         \A s \in Stacks : \/ stackEpoch'[s] = stackEpoch[s]
                           \/ /\ current[TreasuryDurable] # 0
                              /\ stream[current[TreasuryDurable]] = Transit(stackEpoch'[s]),
         \A s \in Stacks, e \in 1 .. MaxEpoch :
            emitted'[s][e] + Owed(s, e)' <= emitted[s][e] + Owed(s, e)
  PROVE  TreasuryOK'
<1>0. TreasuryDurable \in Durables
  BY DEF TreasuryDurable, Durables
<1>1. /\ Len(stream) \in Nat /\ last[TreasuryDurable] \in 0 .. Len(stream)
      /\ current[TreasuryDurable] # 0 => current[TreasuryDurable] \in 1 .. last[TreasuryDurable]
  BY <1>0, Deliveries
<1>2. ASSUME NEW s \in Stacks, NEW e \in 1 .. MaxEpoch
      PROVE  emitted'[s][e] + Owed(s, e)' <= Handed(TreasuryDurable, Transit(e))'
  <2>1. Handed(TreasuryDurable, Transit(e))' = Handed(TreasuryDurable, Transit(e))
    BY DEF Handed, TreasuryDurable, Transit
  <2>2. Handed(TreasuryDurable, Transit(e)) \in Nat
    BY <1>0, Deliveries
  <2>3. emitted[s][e] \in Nat /\ emitted'[s][e] \in Nat
    BY DEF TreasuryOK
  <2>4. Owed(s, e) \in Nat /\ Owed(s, e)' \in Nat
    BY DEF Owed
  <2>5. emitted[s][e] + Owed(s, e) <= Handed(TreasuryDurable, Transit(e))
    BY DEF TreasuryOK
  <2> QED BY <2>1, <2>2, <2>3, <2>4, <2>5
<1>3. ASSUME NEW s \in Stacks
      PROVE  stackEpoch'[s] = 0 \/ \E i \in 1 .. last'[TreasuryDurable] : stream'[i] = Transit(stackEpoch'[s])
  <2>1. last' = last /\ stream' = stream
    OBVIOUS
  <2>2. CASE stackEpoch'[s] = stackEpoch[s]
    BY <2>1, <2>2 DEF TreasuryOK
  <2>3. CASE /\ current[TreasuryDurable] # 0
             /\ stream[current[TreasuryDurable]] = Transit(stackEpoch'[s])
    BY <1>1, <2>1, <2>3
  <2> QED BY <2>2, <2>3
<1>4. OnceOnly' => current'[TreasuryDurable] \in {0, last'[TreasuryDurable]}
  BY DEF TreasuryOK, OnceOnly, TreasuryDurable
<1> HIDE DEF Owed, Transit, TreasuryDurable
<1>5. /\ TreasuryDurable' = TreasuryDurable
      /\ \A e : Transit(e)' = Transit(e)
  BY DEF Transit, TreasuryDurable
<1> QED BY <1>2, <1>3, <1>4, <1>5 DEF TreasuryOK

\* The epoch that the treasury's handler was given.
LEMMA EpochHandled ==
  ASSUME BusOK, current[TreasuryDurable] # 0
  PROVE  /\ EpochOf("treasury-emit") \in 1 .. MaxEpoch
         /\ stream[current[TreasuryDurable]] = Transit(EpochOf("treasury-emit"))
<1>1. current[TreasuryDurable] \in 1 .. Len(stream) /\ Wants(TreasuryDurable, stream[current[TreasuryDurable]])
  BY Deliveries DEF TreasuryDurable, Durables
<1>2. stream[current[TreasuryDurable]] \in Message
  BY <1>1 DEF BusOK
<1> QED BY <1>1, <1>2, Asked DEF TreasuryDurable, Transit, EpochOf, Bus!Handling

LEMMA TreasuryBegins ==
  ASSUME BusOK, TreasuryOK, TreasuryBegin
  PROVE  BusOK' /\ TreasuryOK'
<1>0. TreasuryDurable \in Durables
  BY DEF TreasuryDurable, Durables
<1>1. Bus!Deliver(TreasuryDurable) /\ left' = Stacks /\ UNCHANGED <<emitting, emitted, stackEpoch>>
  BY DEF TreasuryBegin, TreasuryDurable
<1>2. /\ BusOK' /\ current[TreasuryDurable] = 0 /\ stream' = stream
      /\ \E i \in 1 .. Len(stream) :
              /\ current' = [current EXCEPT ![TreasuryDurable] = i]
              /\ Wants(TreasuryDurable, stream[i])
              /\ \A j \in 1 .. Len(stream) :
                    handed'[TreasuryDurable][j] = IF j = i THEN handed[TreasuryDurable][j] + 1 ELSE handed[TreasuryDurable][j]
              /\ \A x : Handed(TreasuryDurable, x)' = Handed(TreasuryDurable, x) + IF stream[i] = x THEN 1 ELSE 0
              /\ last'[TreasuryDurable] >= last[TreasuryDurable] /\ last'[TreasuryDurable] >= i
              /\ handed[TreasuryDurable][i] = 0 => last'[TreasuryDurable] = i
  <2> HIDE DEF TreasuryDurable
  <2>1. TreasuryDurable' = TreasuryDurable
    BY DEF TreasuryDurable
  <2> QED BY <1>0, <1>1, <2>1, Delivered
<1>3. PICK i \in 1 .. Len(stream) :
              /\ current' = [current EXCEPT ![TreasuryDurable] = i]
              /\ \A j \in 1 .. Len(stream) :
                    handed'[TreasuryDurable][j] = IF j = i THEN handed[TreasuryDurable][j] + 1 ELSE handed[TreasuryDurable][j]
              /\ \A x : Handed(TreasuryDurable, x)' = Handed(TreasuryDurable, x) + IF stream[i] = x THEN 1 ELSE 0
              /\ last'[TreasuryDurable] >= last[TreasuryDurable]
              /\ handed[TreasuryDurable][i] = 0 => last'[TreasuryDurable] = i
  BY <1>2
<1>4. /\ Len(stream) \in Nat /\ last[TreasuryDurable] \in 0 .. Len(stream)
      /\ last'[TreasuryDurable] \in 0 .. Len(stream)
      /\ handed[TreasuryDurable][i] \in Nat
      /\ current'[TreasuryDurable] = i
  BY <1>0, <1>2, <1>3 DEF BusOK, DurableOK, Counts, TreasuryDurable
<1>5. left = {} /\ emitting = {}
  BY <1>2 DEF TreasuryOK
<1>6. ASSUME NEW s \in Stacks, NEW e \in 1 .. MaxEpoch
      PROVE  emitted'[s][e] + Owed(s, e)' <= Handed(TreasuryDurable, Transit(e))'
  <2>1. Owed(s, e) = 0
    BY <1>5 DEF Owed
  <2>2. Owed(s, e)' = IF stream[i] = Transit(e) THEN 1 ELSE 0
    BY <1>1, <1>2, <1>4, <1>5 DEF Owed, TreasuryDurable, Transit
  <2>3. emitted'[s][e] \in Nat /\ emitted'[s][e] <= Handed(TreasuryDurable, Transit(e))
    <3>1. emitted[s][e] \in Nat /\ emitted[s][e] + Owed(s, e) <= Handed(TreasuryDurable, Transit(e))
      BY DEF TreasuryOK
    <3> QED BY <1>1, <2>1, <3>1
  <2>4. Handed(TreasuryDurable, Transit(e)) \in Nat
    BY <1>0, Deliveries
  <2>5. Handed(TreasuryDurable, Transit(e))' = Handed(TreasuryDurable, Transit(e)) + IF stream[i] = Transit(e) THEN 1 ELSE 0
    BY <1>3 DEF Transit, TreasuryDurable
  <2> QED BY <2>2, <2>3, <2>4, <2>5
<1>7. \A s \in Stacks : stackEpoch'[s] = 0
                         \/ \E j \in 1 .. last'[TreasuryDurable] : stream'[j] = Transit(stackEpoch'[s])
  <2>1. 1 .. last[TreasuryDurable] \subseteq 1 .. last'[TreasuryDurable]
    BY <1>3, <1>4
  <2> QED BY <1>1, <1>2, <2>1 DEF TreasuryOK
<1>8. OnceOnly' => current'[TreasuryDurable] \in {0, last'[TreasuryDurable]}
  <2>1. OnceOnly' => handed'[TreasuryDurable][i] <= 1
    BY <1>2 DEF OnceOnly, TreasuryDurable
  <2> QED BY <1>3, <1>4, <2>1
<1>9. left' \in SUBSET Stacks /\ emitting' \in SUBSET left' /\ \A s, t \in emitting' : s = t
  BY <1>1, <1>5
<1>10. current'[TreasuryDurable] # 0
  BY <1>4
<1>11. emitted' \in [Stacks -> [1 .. MaxEpoch -> Nat]] /\ stackEpoch' \in [Stacks -> 0 .. MaxEpoch]
  BY <1>1 DEF TreasuryOK
<1>12. TreasuryDurable' = TreasuryDurable /\ \A e : Transit(e)' = Transit(e)
  BY DEF TreasuryDurable, Transit
<1> QED BY <1>2, <1>6, <1>7, <1>8, <1>9, <1>10, <1>11, <1>12 DEF TreasuryOK

\* A row for epoch e0 at stack s, or none.
Row(f, g, s, e0) == g = f \/ g = [f EXCEPT ![s][e0] = @ + 1]

LEMMA RowAdded ==
  ASSUME NEW f \in [Stacks -> [1 .. MaxEpoch -> Nat]], NEW s, NEW e0 \in 1 .. MaxEpoch, NEW g,
         Row(f, g, s, e0)
  PROVE  /\ g \in [Stacks -> [1 .. MaxEpoch -> Nat]]
         /\ \A t \in Stacks, e \in 1 .. MaxEpoch :
              g[t][e] = f[t][e] \/ (t = s /\ e = e0 /\ g[t][e] = f[t][e] + 1)
<1>1. ASSUME NEW t \in Stacks, t # s, g = [f EXCEPT ![s][e0] = @ + 1]
      PROVE  g[t] = f[t]
  BY <1>1
<1>2. ASSUME s \in Stacks, g = [f EXCEPT ![s][e0] = @ + 1]
      PROVE  g[s] = [f[s] EXCEPT ![e0] = @ + 1]
  BY <1>2
<1>3. ASSUME NEW t \in Stacks
      PROVE  /\ g[t] \in [1 .. MaxEpoch -> Nat]
             /\ \A e \in 1 .. MaxEpoch :
                  g[t][e] = f[t][e] \/ (t = s /\ e = e0 /\ g[t][e] = f[t][e] + 1)
  <2>1. f[t] \in [1 .. MaxEpoch -> Nat]
    OBVIOUS
  <2>2. g[t] = f[t] \/ (t = s /\ g[t] = [f[t] EXCEPT ![e0] = @ + 1])
    BY <1>1, <1>2 DEF Row
  <2>3. CASE g[t] = f[t]
    BY <2>1, <2>3
  <2>4. CASE t = s /\ g[t] = [f[t] EXCEPT ![e0] = @ + 1]
    BY <2>1, <2>4
  <2> QED BY <2>2, <2>3, <2>4
<1>4. g = [t \in Stacks |-> g[t]]
  BY DEF Row
<1> QED BY <1>3, <1>4

LEMMA TreasuryEmits ==
  ASSUME BusOK, TreasuryOK, NEW s \in Stacks, TreasuryEmit(s)
  PROVE  TreasuryOK'
<1>1. /\ current[TreasuryDurable] # 0 /\ emitting = {} /\ s \in left
      /\ emitting' = {s} /\ UNCHANGED <<stream, last, handed, current, left, stackEpoch>>
      /\ emitted' \in {emitted, [emitted EXCEPT ![s][EpochOf("treasury-emit")] = @ + 1]}
  BY DEF TreasuryEmit, TreasuryDurable, messageVars, Bus!Busy
<1>2. PICK e0 : e0 = EpochOf("treasury-emit")
  OBVIOUS
<1>3. e0 \in 1 .. MaxEpoch /\ stream[current[TreasuryDurable]] = Transit(e0)
  BY <1>1, <1>2, EpochHandled
<1>4. emitted \in [Stacks -> [1 .. MaxEpoch -> Nat]] /\ left \in SUBSET Stacks
  BY DEF TreasuryOK
<1>5. /\ emitted' \in [Stacks -> [1 .. MaxEpoch -> Nat]]
      /\ \A t \in Stacks, e \in 1 .. MaxEpoch :
            emitted'[t][e] = emitted[t][e] \/ (t = s /\ e = e0 /\ emitted'[t][e] = emitted[t][e] + 1)
  <2>1. emitted' = emitted \/ emitted' = [emitted EXCEPT ![s][e0] = @ + 1]
    BY <1>1, <1>2
  <2>2. PICK f, g : f = emitted /\ g = emitted'
    OBVIOUS
  <2>3. f \in [Stacks -> [1 .. MaxEpoch -> Nat]] /\ e0 \in 1 .. MaxEpoch
    BY <1>3, <1>4, <2>2
  <2>4. Row(f, g, s, e0)
    BY <2>1, <2>2 DEF Row
  <2>5. /\ g \in [Stacks -> [1 .. MaxEpoch -> Nat]]
        /\ \A t \in Stacks, e \in 1 .. MaxEpoch :
              g[t][e] = f[t][e] \/ (t = s /\ e = e0 /\ g[t][e] = f[t][e] + 1)
    <3>1. f \in [Stacks -> [1 .. MaxEpoch -> Nat]]
      BY <2>3
    <3>2. e0 \in 1 .. MaxEpoch
      BY <2>3
    <3>3. Row(f, g, s, e0) => g \in [Stacks -> [1 .. MaxEpoch -> Nat]]
      BY ONLY <3>1, <3>2, RowAdded
    <3>4. ASSUME NEW t \in Stacks, NEW e \in 1 .. MaxEpoch, Row(f, g, s, e0)
          PROVE  g[t][e] = f[t][e] \/ (t = s /\ e = e0 /\ g[t][e] = f[t][e] + 1)
      BY ONLY <3>1, <3>2, <3>4, RowAdded
    <3> QED BY <3>3, <3>4, <2>4
  <2> QED BY <2>2, <2>5
<1>6. ASSUME NEW t \in Stacks, NEW e \in 1 .. MaxEpoch
      PROVE  emitted'[t][e] + Owed(t, e)' <= emitted[t][e] + Owed(t, e)
  <2>1. /\ emitted[t][e] \in Nat
        /\ emitted'[t][e] = emitted[t][e] \/ (t = s /\ e = e0 /\ emitted'[t][e] = emitted[t][e] + 1)
    BY <1>4, <1>5
  <2>2. stream'[current'[TreasuryDurable]] = stream[current[TreasuryDurable]]
    BY <1>1
  <2>3. CASE t = s
    <3>1. Owed(t, e)' = 0
      BY <1>1, <2>3 DEF Owed
    <3>2. Owed(t, e) = IF e = e0 THEN 1 ELSE 0
      BY <1>1, <1>3, <2>3 DEF Owed, Transit
    <3> QED BY <2>1, <3>1, <3>2
  <2>4. CASE t # s
    <3>1. Owed(t, e)' = Owed(t, e)
      BY <1>1, <2>2, <2>4 DEF Owed, Transit, TreasuryDurable
    <3>2. Owed(t, e) \in Nat
      BY DEF Owed
    <3> QED BY <2>1, <2>4, <3>1, <3>2
  <2> QED BY <2>3, <2>4
<1>7. /\ left' \in SUBSET Stacks /\ emitting' \in SUBSET left' /\ \A x, y \in emitting' : x = y
      /\ current'[TreasuryDurable] # 0 /\ current'[TreasuryDurable] \in {0, current[TreasuryDurable]}
  BY <1>1, <1>4
<1>8. stackEpoch' \in [Stacks -> 0 .. MaxEpoch] /\ \A x \in Stacks : stackEpoch'[x] = stackEpoch[x]
  BY <1>1 DEF TreasuryOK
<1> QED BY <1>1, <1>5, <1>6, <1>7, <1>8, TreasuryStep

LEMMA TreasuryUpdates ==
  ASSUME BusOK, TreasuryOK, NEW s \in Stacks, TreasuryUpdate(s)
  PROVE  TreasuryOK'
<1>1. /\ current[TreasuryDurable] # 0 /\ s \in emitting
      /\ emitting' = {} /\ left' = left \ {s} /\ UNCHANGED <<stream, last, handed, current, emitted>>
      /\ stackEpoch' \in {stackEpoch, [stackEpoch EXCEPT ![s] = EpochOf("treasury-emit")]}
  BY DEF TreasuryUpdate, TreasuryDurable, messageVars, Bus!Busy
<1>2. PICK e0 : e0 = EpochOf("treasury-emit")
  OBVIOUS
<1>3. e0 \in 1 .. MaxEpoch /\ stream[current[TreasuryDurable]] = Transit(e0)
  BY <1>1, <1>2, EpochHandled
<1>4. /\ emitting = {s} /\ left \in SUBSET Stacks /\ emitted \in [Stacks -> [1 .. MaxEpoch -> Nat]]
      /\ stackEpoch \in [Stacks -> 0 .. MaxEpoch]
  BY <1>1 DEF TreasuryOK
<1>5. /\ stackEpoch' \in [Stacks -> 0 .. MaxEpoch]
      /\ \A x \in Stacks : stackEpoch'[x] \in {stackEpoch[x], e0}
  <2>1. stackEpoch' = stackEpoch \/ stackEpoch' = [stackEpoch EXCEPT ![s] = e0]
    BY <1>1, <1>2
  <2>2. e0 \in 0 .. MaxEpoch
    BY <1>3, ConsumersAssumption
  <2> QED BY <1>4, <2>1, <2>2
<1>6. ASSUME NEW t \in Stacks, NEW e \in 1 .. MaxEpoch
      PROVE  emitted'[t][e] + Owed(t, e)' <= emitted[t][e] + Owed(t, e)
  <2>1. emitted[t][e] \in Nat /\ emitted'[t][e] = emitted[t][e]
    BY <1>1, <1>4
  <2>2. stream'[current'[TreasuryDurable]] = stream[current[TreasuryDurable]]
    BY <1>1
  <2>3. Owed(t, e)' = Owed(t, e) /\ Owed(t, e) \in Nat
    BY <1>1, <1>4, <2>2 DEF Owed, Transit, TreasuryDurable
  <2> QED BY <2>1, <2>3
<1>7. /\ left' \in SUBSET Stacks /\ emitting' \in SUBSET left' /\ \A x, y \in emitting' : x = y
      /\ current'[TreasuryDurable] # 0 /\ current'[TreasuryDurable] \in {0, current[TreasuryDurable]}
  BY <1>1, <1>4
<1>8. \A x \in Stacks : stackEpoch'[x] = stackEpoch[x]
                          \/ stream[current[TreasuryDurable]] = Transit(stackEpoch'[x])
  BY <1>3, <1>5
<1>9. emitted' \in [Stacks -> [1 .. MaxEpoch -> Nat]]
  BY <1>1, <1>4
<1> QED BY <1>1, <1>5, <1>6, <1>7, <1>8, <1>9, TreasuryStep

\* The loop is left: at its end, by a throw, or by a crash.
LEMMA TreasuryLeaves ==
  ASSUME BusOK, TreasuryOK, UNCHANGED <<stream, last, handed, emitted, stackEpoch>>,
         left' = {}, emitting' = {}, current'[TreasuryDurable] \in {0, current[TreasuryDurable]}
  PROVE  TreasuryOK'
<1>1. emitted \in [Stacks -> [1 .. MaxEpoch -> Nat]] /\ stackEpoch \in [Stacks -> 0 .. MaxEpoch]
  BY DEF TreasuryOK
<1>2. ASSUME NEW t \in Stacks, NEW e \in 1 .. MaxEpoch
      PROVE  emitted'[t][e] + Owed(t, e)' <= emitted[t][e] + Owed(t, e)
  <2>1. emitted[t][e] \in Nat /\ emitted'[t][e] = emitted[t][e]
    BY <1>1
  <2>2. Owed(t, e)' = 0 /\ Owed(t, e) \in {0, 1}
    BY DEF Owed
  <2> QED BY <2>1, <2>2
<1>3. /\ left' \in SUBSET Stacks /\ emitting' \in SUBSET left' /\ \A x, y \in emitting' : x = y
      /\ (left' # {} => current'[TreasuryDurable] # 0)
  OBVIOUS
<1>4. \A x \in Stacks : stackEpoch'[x] = stackEpoch[x]
  OBVIOUS
<1>5. emitted' \in [Stacks -> [1 .. MaxEpoch -> Nat]] /\ stackEpoch' \in [Stacks -> 0 .. MaxEpoch]
  BY <1>1
<1> QED BY <1>2, <1>3, <1>4, <1>5, TreasuryStep

-----------------------------------------------------------------------------
(* The meter.                                                               *)

MeterDurable == "worker-bw"
FlushDurable == "worker-bw-flush"
Used(s) == <<"use", s>>

\* The count of a stack that has not reached the audit log.
Unflushed(s) == IF s \in flushed THEN 0 ELSE acc[s]

MeterOK ==
  /\ acc \in [Stacks -> Nat] /\ recorded \in [Stacks -> Nat] /\ flushed \in SUBSET Stacks
  /\ current[FlushDurable] = 0 => flushed = {}
  /\ \A s \in Stacks : recorded[s] + Unflushed(s) <= Handed(MeterDurable, Used(s))
  /\ ~disturbed => \A s \in Stacks : recorded[s] + Unflushed(s) = Handed(MeterDurable, Used(s))

LEMMA MeterAside ==
  ASSUME MeterOK, UNCHANGED meterVars, Aside(MeterDurable),
         current'[FlushDurable] = current[FlushDurable]
  PROVE  MeterOK'
<1>1. UNCHANGED <<acc, flushed, recorded, disturbed>>
  BY DEF meterVars
<1>2. \A s : Handed(MeterDurable, Used(s))' = Handed(MeterDurable, Used(s))
  BY DEF Aside, MeterDurable, Used
<1>3. \A s : Unflushed(s)' = Unflushed(s)
  BY <1>1 DEF Unflushed
<1> QED BY <1>1, <1>2, <1>3 DEF MeterOK, FlushDurable

\* A step of the meter that hands over no use.
LEMMA MeterStep ==
  ASSUME BusOK, MeterOK, UNCHANGED <<stream, handed>>,
         acc' \in [Stacks -> Nat], recorded' \in [Stacks -> Nat], flushed' \in SUBSET Stacks,
         current'[FlushDurable] = 0 => flushed' = {},
         \A s \in Stacks : recorded'[s] + Unflushed(s)' <= recorded[s] + Unflushed(s),
         ~disturbed' => /\ ~disturbed
                        /\ \A s \in Stacks : recorded'[s] + Unflushed(s)' = recorded[s] + Unflushed(s)
  PROVE  MeterOK'
<1>1. \A s : Handed(MeterDurable, Used(s))' = Handed(MeterDurable, Used(s))
  BY DEF Handed, MeterDurable, Used
<1>2. ASSUME NEW s \in Stacks
      PROVE  recorded'[s] + Unflushed(s)' <= Handed(MeterDurable, Used(s))'
  <2>1. recorded[s] \in Nat /\ recorded'[s] \in Nat /\ Unflushed(s) \in Nat /\ Unflushed(s)' \in Nat
    BY DEF MeterOK, Unflushed
  <2>2. Handed(MeterDurable, Used(s)) \in Nat
    BY Deliveries DEF MeterDurable, Durables
  <2>3. recorded[s] + Unflushed(s) <= Handed(MeterDurable, Used(s))
    BY DEF MeterOK
  <2>4. recorded'[s] + Unflushed(s)' <= recorded[s] + Unflushed(s)
    OBVIOUS
  <2> HIDE DEF Unflushed, Used, MeterDurable
  <2> QED BY <1>1, <2>1, <2>2, <2>3, <2>4
<1>3. ASSUME ~disturbed', NEW s \in Stacks
      PROVE  recorded'[s] + Unflushed(s)' = Handed(MeterDurable, Used(s))'
  BY <1>1, <1>3 DEF MeterOK
<1>4. FlushDurable' = FlushDurable
  BY DEF FlushDurable
<1> QED BY <1>2, <1>3, <1>4 DEF MeterOK

LEMMA BumpKeeps ==
  ASSUME BusOK, MeterOK, Bump
  PROVE  MeterOK'
<1>0. MeterDurable \in Durables /\ FlushDurable \in Durables /\ MeterDurable # FlushDurable
  BY DEF MeterDurable, FlushDurable, Durables
<1>1. /\ Bus!Deliver(MeterDurable) /\ UNCHANGED <<flushed, recorded>>
      /\ acc' = [acc EXCEPT ![stream[current'[MeterDurable]][2]] = @ + 1]
      /\ disturbed' = (disturbed \/ current[FlushDurable] # 0)
  BY DEF Bump, MeterDurable, FlushDurable, Bus!Busy
<1>2. /\ \A c \in Durables \ {MeterDurable} : Aside(c)
      /\ \E i \in 1 .. Len(stream) :
           /\ current' = [current EXCEPT ![MeterDurable] = i]
           /\ Wants(MeterDurable, stream[i])
           /\ \A x : Handed(MeterDurable, x)' = Handed(MeterDurable, x) + IF stream[i] = x THEN 1 ELSE 0
  <2>1. ASSUME NEW d \in Durables, Bus!Deliver(d)
        PROVE  /\ \A c \in Durables \ {d} : Aside(c)
               /\ \E i \in 1 .. Len(stream) :
                    /\ current' = [current EXCEPT ![d] = i]
                    /\ Wants(d, stream[i])
                    /\ \A x : Handed(d, x)' = Handed(d, x) + IF stream[i] = x THEN 1 ELSE 0
    BY <2>1, Delivered
  <2>2. PICK d \in Durables : d = MeterDurable
    BY <1>0
  <2>3. MeterDurable' = d
    BY <2>2 DEF MeterDurable
  <2> QED BY <1>1, <2>1, <2>2, <2>3
<1>3. PICK i \in 1 .. Len(stream) :
           /\ current' = [current EXCEPT ![MeterDurable] = i]
           /\ Wants(MeterDurable, stream[i])
           /\ \A x : Handed(MeterDurable, x)' = Handed(MeterDurable, x) + IF stream[i] = x THEN 1 ELSE 0
  BY <1>2
<1>4. current'[MeterDurable] = i /\ current'[FlushDurable] = current[FlushDurable]
  BY <1>0, <1>3 DEF BusOK
<1>5. PICK u : u = stream[i][2]
  OBVIOUS
<1>6. u \in Stacks /\ stream[i] = Used(u)
  <2>1. stream[i] \in Message
    BY <1>3 DEF BusOK
  <2> QED BY <1>3, <1>5, <2>1, Asked DEF Used, MeterDurable
<1>7. /\ acc \in [Stacks -> Nat] /\ recorded \in [Stacks -> Nat] /\ flushed \in SUBSET Stacks
  BY DEF MeterOK
<1>8. acc' = [acc EXCEPT ![u] = @ + 1]
  BY <1>1, <1>4, <1>5
<1>9. ASSUME NEW s \in Stacks
      PROVE  /\ recorded[s] \in Nat /\ Unflushed(s) \in Nat /\ Handed(MeterDurable, Used(s)) \in Nat
             /\ Handed(MeterDurable, Used(s))' = Handed(MeterDurable, Used(s)) + IF s = u THEN 1 ELSE 0
             /\ Unflushed(s)' = Unflushed(s) + IF s = u /\ u \notin flushed THEN 1 ELSE 0
             /\ recorded'[s] = recorded[s]
  <2>1. recorded[s] \in Nat /\ acc[s] \in Nat /\ recorded'[s] = recorded[s]
    BY <1>1, <1>7
  <2>2. Handed(MeterDurable, Used(s)) \in Nat
    BY <1>0, Deliveries
  <2>3. Handed(MeterDurable, Used(s))' = Handed(MeterDurable, Used(s)) + IF stream[i] = Used(s) THEN 1 ELSE 0
    BY <1>3 DEF Used, MeterDurable
  <2>4. stream[i] = Used(s) <=> s = u
    BY <1>6 DEF Used
  <2>5. acc'[s] = acc[s] + IF s = u THEN 1 ELSE 0
    BY <1>6, <1>7, <1>8, <2>1
  <2>6. /\ Unflushed(s) \in Nat
        /\ Unflushed(s)' = Unflushed(s) + IF s = u /\ u \notin flushed THEN 1 ELSE 0
    BY <1>1, <2>1, <2>5 DEF Unflushed
  <2> QED BY <2>1, <2>2, <2>3, <2>4, <2>6
<1>10. ASSUME NEW s \in Stacks
       PROVE  recorded'[s] + Unflushed(s)' <= Handed(MeterDurable, Used(s))'
  <2>1. recorded[s] + Unflushed(s) <= Handed(MeterDurable, Used(s))
    BY DEF MeterOK
  <2> QED BY <1>9, <2>1
<1>11. ASSUME NEW s \in Stacks, ~disturbed'
       PROVE  recorded'[s] + Unflushed(s)' = Handed(MeterDurable, Used(s))'
  <2>1. ~disturbed /\ flushed = {}
    BY <1>1, <1>11 DEF MeterOK
  <2>2. recorded[s] + Unflushed(s) = Handed(MeterDurable, Used(s))
    BY <2>1 DEF MeterOK
  <2> QED BY <1>9, <2>1, <2>2
<1>12. acc' \in [Stacks -> Nat]
  BY <1>6, <1>7, <1>8
<1>13. current'[FlushDurable] = 0 => flushed' = {}
  BY <1>1, <1>4 DEF MeterOK
<1>14. FlushDurable' = FlushDurable
  BY DEF FlushDurable
<1> QED BY <1>1, <1>7, <1>10, <1>11, <1>12, <1>13, <1>14 DEF MeterOK

LEMMA FlushBegins ==
  ASSUME BusOK, MeterOK, Aside(MeterDurable), current[FlushDurable] = 0,
         flushed' = {}, UNCHANGED <<acc, recorded, disturbed>>
  PROVE  MeterOK'
<1>1. flushed = {}
  BY DEF MeterOK
<1>2. \A s : Handed(MeterDurable, Used(s))' = Handed(MeterDurable, Used(s))
  BY DEF Aside, MeterDurable, Used
<1>3. \A s : Unflushed(s)' = Unflushed(s)
  BY <1>1 DEF Unflushed
<1> QED BY <1>1, <1>2, <1>3 DEF MeterOK, FlushDurable

LEMMA FlushRows ==
  ASSUME BusOK, MeterOK, NEW s \in Stacks, FlushRow(s)
  PROVE  MeterOK'
<1>1. /\ current[FlushDurable] # 0 /\ s \notin flushed /\ flushed' = flushed \cup {s}
      /\ UNCHANGED <<stream, handed, current, acc>>
      /\ \/ recorded' = [recorded EXCEPT ![s] = @ + acc[s]] /\ disturbed' = disturbed
         \/ recorded' = recorded /\ disturbed'
  BY DEF FlushRow, FlushDurable, messageVars, Bus!Busy
<1>2. /\ acc \in [Stacks -> Nat] /\ recorded \in [Stacks -> Nat] /\ flushed \in SUBSET Stacks
  BY DEF MeterOK
<1>3. recorded' \in [Stacks -> Nat]
  BY <1>1, <1>2
<1>4. ASSUME NEW t \in Stacks
      PROVE  /\ recorded'[t] + Unflushed(t)' <= recorded[t] + Unflushed(t)
             /\ ~disturbed' => recorded'[t] + Unflushed(t)' = recorded[t] + Unflushed(t)
  <2>1. recorded[t] \in Nat /\ acc[t] \in Nat /\ acc' = acc
    BY <1>1, <1>2
  <2>2. CASE t = s
    <3>1. Unflushed(t) = acc[t] /\ Unflushed(t)' = 0
      BY <1>1, <2>2 DEF Unflushed
    <3>2. recorded'[t] = recorded[t] + acc[t] \/ (recorded'[t] = recorded[t] /\ disturbed')
      BY <1>1, <1>2, <2>2
    <3> QED BY <2>1, <3>1, <3>2
  <2>3. CASE t # s
    <3>1. Unflushed(t)' = Unflushed(t)
      BY <1>1, <2>3 DEF Unflushed
    <3>2. recorded'[t] = recorded[t]
      BY <1>1, <1>2, <2>3
    <3>3. Unflushed(t) \in Nat
      BY <2>1 DEF Unflushed
    <3> QED BY <2>1, <3>1, <3>2, <3>3
  <2> QED BY <2>2, <2>3
<1>5. ~disturbed' => ~disturbed
  BY <1>1
<1>6. current'[FlushDurable] # 0
  BY <1>1 DEF FlushDurable
<1>7. acc' \in [Stacks -> Nat] /\ flushed' \in SUBSET Stacks
  BY <1>1, <1>2
<1> QED BY <1>1, <1>3, <1>4, <1>5, <1>6, <1>7, MeterStep

\* The counts are cleared: all that had a row at the end of a flush, or all when the
\* process dies.
LEMMA CountsCleared ==
  ASSUME BusOK, MeterOK, UNCHANGED <<stream, handed, recorded>>,
         acc' = [s \in Stacks |-> 0], flushed' = {},
         \/ disturbed'
         \/ disturbed' = disturbed /\ \A s \in Stacks : acc[s] > 0 => s \in flushed
  PROVE  MeterOK'
<1>1. acc \in [Stacks -> Nat] /\ recorded \in [Stacks -> Nat] /\ acc' \in [Stacks -> Nat]
  BY DEF MeterOK
<1>2. ASSUME NEW t \in Stacks
      PROVE  /\ recorded'[t] + Unflushed(t)' <= recorded[t] + Unflushed(t)
             /\ ~disturbed' => recorded'[t] + Unflushed(t)' = recorded[t] + Unflushed(t)
  <2>1. recorded[t] \in Nat /\ acc[t] \in Nat /\ recorded'[t] = recorded[t]
    BY <1>1
  <2>2. Unflushed(t)' = 0 /\ Unflushed(t) \in {0, acc[t]}
    BY DEF Unflushed
  <2>3. ~disturbed' => Unflushed(t) = 0
    BY <2>1 DEF Unflushed
  <2> QED BY <2>1, <2>2, <2>3
<1>3. ~disturbed' => ~disturbed
  OBVIOUS
<1>4. recorded' \in [Stacks -> Nat] /\ flushed' \in SUBSET Stacks
  BY <1>1
<1> QED BY <1>1, <1>2, <1>3, <1>4, MeterStep

-----------------------------------------------------------------------------
(* The invariant.                                                           *)

CollectorDurable == "worker-residue"
CollectorOK == created => current[CollectorDurable] # 0

IInv == BusOK /\ Rising /\ TreasuryOK /\ MeterOK /\ CollectorOK

LEMMA CollectorAside ==
  ASSUME CollectorOK, UNCHANGED collectorVars, current'[CollectorDurable] = current[CollectorDurable]
  PROVE  CollectorOK'
BY DEF CollectorOK, collectorVars, CollectorDurable

\* What a step leaves as it was for the three processes.
SparesTreasury == UNCHANGED treasuryVars /\ Aside(TreasuryDurable)
SparesMeter ==
  UNCHANGED meterVars /\ Aside(MeterDurable) /\ current'[FlushDurable] = current[FlushDurable]
SparesCollector == UNCHANGED collectorVars /\ current'[CollectorDurable] = current[CollectorDurable]

LEMMA Spared ==
  ASSUME IInv
  PROVE  /\ SparesTreasury => TreasuryOK'
         /\ SparesMeter => MeterOK'
         /\ SparesCollector => CollectorOK'
BY TreasuryAside, MeterAside, CollectorAside DEF SparesTreasury, SparesMeter, SparesCollector, IInv

LEMMA FourDurables ==
  /\ Durables = {TreasuryDurable, MeterDurable, FlushDurable, CollectorDurable}
  /\ TreasuryDurable \notin {MeterDurable, FlushDurable, CollectorDurable}
  /\ MeterDurable \notin {FlushDurable, CollectorDurable}
  /\ FlushDurable # CollectorDurable
BY DEF Durables, TreasuryDurable, MeterDurable, FlushDurable, CollectorDurable

LEMMA InitInv == Init => IInv
<1> SUFFICES ASSUME Init PROVE IInv
  OBVIOUS
<1>1. /\ stream = <<>> /\ last = [d \in Durables |-> 0] /\ again = [d \in Durables |-> {}]
      /\ current = [d \in Durables |-> 0] /\ handed = [d \in Durables |-> <<>>]
  BY DEF Init, Bus!BusInit
<1>2. stream \in Seq(Message) /\ Len(stream) = 0 /\ DOMAIN stream = {}
  BY <1>1
<1>3. ASSUME NEW d \in Durables PROVE DurableOK(d)
  <2>1. Counts(stream, handed[d])
    BY <1>1 DEF Counts
  <2> QED BY <1>1, <1>2, <2>1 DEF DurableOK
<1>4. BusOK
  BY <1>1, <1>2, <1>3 DEF BusOK
<1>5. Rising
  BY <1>2 DEF Rising
<1>6. /\ \A d \in Durables : \A x : Handed(d, x) \in Nat
      /\ current[TreasuryDurable] = 0 /\ current[FlushDurable] = 0 /\ current[CollectorDurable] = 0
      /\ MeterDurable \in Durables /\ TreasuryDurable \in Durables
  BY <1>1, <1>4, FourDurables, Deliveries
<1>7. TreasuryOK
  <2>1. left = {} /\ emitting = {} /\ emitted = [s \in Stacks |-> [e \in 1 .. MaxEpoch |-> 0]]
        /\ stackEpoch = [s \in Stacks |-> 0]
    BY DEF Init
  <2>2. MaxEpoch \in Nat
    BY ConsumersAssumption
  <2>3. ASSUME NEW s \in Stacks, NEW e \in 1 .. MaxEpoch
        PROVE  emitted[s][e] + Owed(s, e) <= Handed(TreasuryDurable, Transit(e))
    <3>1. emitted[s][e] = 0 /\ Owed(s, e) = 0
      BY <2>1 DEF Owed
    <3> QED BY <1>6, <3>1
  <2>4. emitted \in [Stacks -> [1 .. MaxEpoch -> Nat]] /\ stackEpoch \in [Stacks -> 0 .. MaxEpoch]
    BY <2>1, <2>2
  <2> QED BY <1>6, <2>1, <2>3, <2>4 DEF TreasuryOK
<1>8. MeterOK
  <2>1. acc = [s \in Stacks |-> 0] /\ flushed = {} /\ recorded = [s \in Stacks |-> 0]
    BY DEF Init
  <2>2. ASSUME NEW s \in Stacks
        PROVE  recorded[s] + Unflushed(s) = 0 /\ Handed(MeterDurable, Used(s)) = 0
    <3>1. Handed(MeterDurable, Used(s)) = 0
      <4>1. PICK h, m : h = handed[MeterDurable] /\ m = Used(s)
        OBVIOUS
      <4>2. Len(stream) \in Nat /\ Len(stream) = 0
        BY <1>2
      <4>3. PICK g : Adds(g, stream, h, m, Len(stream)) /\ Tally(stream, h, m) = g[Len(stream)]
        BY <4>2, TallyIs
      <4>4. g[0] = 0
        BY <4>3 DEF Adds
      <4> QED BY <4>1, <4>2, <4>3, <4>4 DEF Handed
    <3> QED BY <2>1, <3>1 DEF Unflushed
  <2> QED BY <1>6, <2>1, <2>2 DEF MeterOK
<1>9. CollectorOK
  BY DEF Init, CollectorOK
<1> QED BY <1>4, <1>5, <1>7, <1>8, <1>9 DEF IInv

LEMMA PublishKeeps ==
  ASSUME IInv, NEW m \in Message, Bus!Publish(m), UNCHANGED <<treasuryVars, meterVars, collectorVars>>,
         m[1] = "epoch.transition" => m[2] = Count("epoch.transition") + 1
  PROVE  IInv'
<1>1. BusOK' /\ stream' = Append(stream, m) /\ \A d \in Durables : Aside(d)
  BY Published DEF IInv
<1>2. Rising'
  BY <1>1, RisingGrows DEF IInv
<1>3. SparesTreasury /\ SparesMeter /\ SparesCollector
  BY <1>1, FourDurables DEF SparesTreasury, SparesMeter, SparesCollector, Aside
<1> QED BY <1>1, <1>2, <1>3, Spared DEF IInv

LEMMA Publishes ==
  ASSUME IInv, Transition \/ (\E s \in Stacks : Use(s)) \/ (\E x \in Desyncs : Desync(x))
  PROVE  IInv'
<1>1. CASE Transition
  <2> DEFINE k == Count("epoch.transition")
  <2>1. PICK m : m = <<"epoch.transition", k + 1>>
    OBVIOUS
  <2>2. k \in Nat
    <3>1. IsFiniteSet(1 .. Len(stream)) /\ DOMAIN stream = 1 .. Len(stream)
      BY FS_Interval DEF IInv, BusOK
    <3>2. IsFiniteSet({i \in DOMAIN stream : stream[i][1] = "epoch.transition"})
      BY <3>1, FS_Subset
    <3> QED BY <3>2, FS_CardinalityType DEF Count
  <2>3. k < MaxEpoch /\ Bus!Publish(m) /\ UNCHANGED <<treasuryVars, meterVars, collectorVars>>
    BY <1>1, <2>1 DEF Transition
  <2>4. MaxEpoch \in Nat
    BY ConsumersAssumption
  <2>5. m \in Message /\ m[2] = k + 1
    <3> HIDE DEF k
    <3>1. k + 1 \in 1 .. MaxEpoch
      BY <2>2, <2>3, <2>4
    <3> QED BY <2>1, <3>1 DEF Message
  <2> QED BY <2>3, <2>5, PublishKeeps
<1>2. ASSUME NEW s \in Stacks, Use(s) PROVE IInv'
  <2>1. PICK m : m = <<"use", s>>
    OBVIOUS
  <2>2. Bus!Publish(m) /\ UNCHANGED <<treasuryVars, meterVars, collectorVars>>
    BY <1>2, <2>1 DEF Use
  <2>3. m \in Message /\ m[1] # "epoch.transition"
    BY <2>1 DEF Message
  <2> QED BY <2>2, <2>3, PublishKeeps
<1>3. ASSUME NEW x \in Desyncs, Desync(x) PROVE IInv'
  <2>1. PICK m : m = <<"sleeve.desync", x>>
    OBVIOUS
  <2>2. Bus!Publish(m) /\ UNCHANGED <<treasuryVars, meterVars, collectorVars>>
    BY <1>3, <2>1 DEF Desync
  <2>3. m \in Message /\ m[1] # "epoch.transition"
    BY <2>1 DEF Message
  <2> QED BY <2>2, <2>3, PublishKeeps
<1> QED BY <1>1, <1>2, <1>3

\* A quiet step spares the processes whose variables it leaves and whose handlers go on.
LEMMA QuietSpares ==
  ASSUME IInv, Quiet
  PROVE  /\ BusOK' /\ Rising'
         /\ UNCHANGED treasuryVars /\ current'[TreasuryDurable] = current[TreasuryDurable] => SparesTreasury
         /\ UNCHANGED meterVars /\ current'[MeterDurable] = current[MeterDurable]
              /\ current'[FlushDurable] = current[FlushDurable] => SparesMeter
         /\ UNCHANGED collectorVars /\ current'[CollectorDurable] = current[CollectorDurable] => SparesCollector
<1>1. BusOK' /\ \A d \in Durables : current'[d] = current[d] => Aside(d)
  BY Quieted DEF IInv
<1>2. Rising'
  BY RisingStays DEF IInv, Quiet
<1> QED BY <1>1, <1>2, FourDurables DEF SparesTreasury, SparesMeter, SparesCollector

\* A delivery spares the other durables.
LEMMA DeliverSpares ==
  ASSUME IInv, NEW d \in Durables, Bus!Deliver(d)
  PROVE  /\ BusOK' /\ Rising' /\ current[d] = 0 /\ current'[d] # 0
         /\ \A c \in Durables \ {d} : Aside(c) /\ current'[c] = current[c]
<1>1. /\ BusOK' /\ current[d] = 0 /\ stream' = stream
      /\ \A c \in Durables \ {d} : Aside(c)
      /\ \E i \in 1 .. Len(stream) : current' = [current EXCEPT ![d] = i]
  <2>1. BusOK
    BY DEF IInv
  <2> QED BY <2>1, Delivered
<1>2. Rising'
  BY <1>1, RisingStays DEF IInv
<1>3. DOMAIN current = Durables /\ Len(stream) \in Nat
  BY DEF IInv, BusOK
<1> QED BY <1>1, <1>2, <1>3 DEF Aside

LEMMA TreasuryKeeps ==
  ASSUME IInv, Treasury
  PROVE  IInv'
<1>0. BusOK /\ TreasuryOK /\ DOMAIN current = Durables /\ TreasuryDurable \in Durables
  BY FourDurables DEF IInv, BusOK
<1>1. CASE TreasuryBegin
  <2>1. Bus!Deliver(TreasuryDurable) /\ UNCHANGED <<meterVars, collectorVars>>
    BY <1>1 DEF TreasuryBegin, TreasuryDurable
  <2>2. Rising' /\ \A c \in Durables \ {TreasuryDurable} : Aside(c) /\ current'[c] = current[c]
    <3> HIDE DEF TreasuryDurable
    <3> QED BY <1>0, <2>1, DeliverSpares
  <2>3. SparesMeter /\ SparesCollector
    BY <2>1, <2>2, FourDurables DEF SparesMeter, SparesCollector
  <2> QED BY <1>0, <1>1, <2>2, <2>3, TreasuryBegins, Spared DEF IInv
<1>2. CASE TreasuryThrows \/ TreasuryDone
  <2>1. /\ Quiet /\ current' = [current EXCEPT ![TreasuryDurable] = 0]
        /\ UNCHANGED <<emitted, stackEpoch, meterVars, collectorVars>>
        /\ left' = {} /\ emitting' = {}
    <3>1. CASE TreasuryThrows
      BY <1>0, <3>1, QuietSteps DEF TreasuryThrows, TreasuryDurable
    <3>2. CASE TreasuryDone
      BY <1>0, <3>2, QuietSteps DEF TreasuryDone, TreasuryDurable, treasuryVars, TreasuryOK
    <3> QED BY <1>2, <3>1, <3>2
  <2>2. \A c \in Durables \ {TreasuryDurable} : current'[c] = current[c]
    BY <1>0, <2>1
  <2>3. BusOK' /\ Rising' /\ SparesMeter /\ SparesCollector
    BY <2>1, <2>2, FourDurables, QuietSpares
  <2>4. TreasuryOK'
    <3>1. current'[TreasuryDurable] \in {0, current[TreasuryDurable]}
      BY <1>0, <2>1
    <3> QED BY <1>0, <2>1, <3>1, TreasuryLeaves DEF Quiet
  <2> QED BY <2>3, <2>4, Spared DEF IInv
<1>3. ASSUME NEW s \in Stacks, TreasuryEmit(s) \/ TreasuryUpdate(s)
      PROVE  IInv'
  <2>1. UNCHANGED messageVars /\ UNCHANGED <<meterVars, collectorVars>>
    BY <1>3 DEF TreasuryEmit, TreasuryUpdate
  <2>2. Quiet /\ current' = current
    BY <1>0, <2>1, QuietSteps DEF messageVars
  <2>3. BusOK' /\ Rising' /\ SparesMeter /\ SparesCollector
    BY <2>1, <2>2, QuietSpares
  <2>4. TreasuryOK'
    BY <1>0, <1>3, TreasuryEmits, TreasuryUpdates
  <2> QED BY <2>3, <2>4, Spared DEF IInv
<1> QED BY <1>1, <1>2, <1>3 DEF Treasury

LEMMA MeterKeeps ==
  ASSUME IInv, Bumps \/ Flush
  PROVE  IInv'
<1>0. BusOK /\ MeterOK /\ DOMAIN current = Durables /\ MeterDurable \in Durables /\ FlushDurable \in Durables
  BY FourDurables DEF IInv, BusOK
<1>1. CASE Bump
  <2>1. Bus!Deliver(MeterDurable) /\ UNCHANGED <<treasuryVars, collectorVars>>
    BY <1>1 DEF Bump, MeterDurable
  <2>2. BusOK' /\ Rising' /\ \A c \in Durables \ {MeterDurable} : Aside(c) /\ current'[c] = current[c]
    <3> HIDE DEF MeterDurable
    <3> QED BY <1>0, <2>1, DeliverSpares
  <2>3. SparesTreasury /\ SparesCollector
    BY <2>1, <2>2, FourDurables DEF SparesTreasury, SparesCollector
  <2> QED BY <1>0, <1>1, <2>2, <2>3, BumpKeeps, Spared DEF IInv
<1>2. CASE BumpDone
  <2>1. Quiet /\ current' = [current EXCEPT ![MeterDurable] = 0]
        /\ UNCHANGED <<treasuryVars, meterVars, collectorVars>>
    BY <1>0, <1>2, QuietSteps DEF BumpDone, MeterDurable
  <2>2. \A c \in Durables \ {MeterDurable} : current'[c] = current[c]
    BY <1>0, <2>1
  <2>3. BusOK' /\ Rising' /\ SparesTreasury /\ SparesCollector
    BY <2>1, <2>2, FourDurables, QuietSpares
  <2>4. MeterOK'
    <3>1. UNCHANGED <<stream, handed, acc, recorded, flushed, disturbed>>
      BY <2>1 DEF Quiet, meterVars
    <3>2. current'[FlushDurable] = current[FlushDurable]
      BY <2>2, FourDurables
    <3>3. acc \in [Stacks -> Nat] /\ recorded \in [Stacks -> Nat] /\ flushed \in SUBSET Stacks
          /\ (current[FlushDurable] = 0 => flushed = {})
      BY <1>0 DEF MeterOK
    <3>4. \A s \in Stacks : Unflushed(s)' = Unflushed(s) /\ recorded[s] \in Nat /\ Unflushed(s) \in Nat
      BY <3>1, <3>3 DEF Unflushed
    <3>5. \A s \in Stacks : recorded'[s] + Unflushed(s)' = recorded[s] + Unflushed(s)
                            /\ recorded'[s] + Unflushed(s)' <= recorded[s] + Unflushed(s)
      BY <3>1, <3>4
    <3> QED BY <1>0, <3>1, <3>2, <3>3, <3>5, MeterStep
  <2> QED BY <2>3, <2>4, Spared DEF IInv
<1>3. CASE FlushBegin
  <2>1. /\ Bus!Deliver(FlushDurable) /\ UNCHANGED <<treasuryVars, collectorVars>>
        /\ flushed' = {} /\ UNCHANGED <<acc, recorded, disturbed>>
    BY <1>3 DEF FlushBegin, FlushDurable
  <2>2. /\ BusOK' /\ Rising' /\ current[FlushDurable] = 0
        /\ \A c \in Durables \ {FlushDurable} : Aside(c) /\ current'[c] = current[c]
    <3> HIDE DEF FlushDurable
    <3> QED BY <1>0, <2>1, DeliverSpares
  <2>3. SparesTreasury /\ SparesCollector /\ Aside(MeterDurable)
    BY <2>1, <2>2, FourDurables DEF SparesTreasury, SparesCollector
  <2> QED BY <1>0, <2>1, <2>2, <2>3, FlushBegins, Spared DEF IInv
<1>4. CASE FlushDone
  <2>1. /\ Quiet /\ current' = [current EXCEPT ![FlushDurable] = 0]
        /\ UNCHANGED <<treasuryVars, recorded, disturbed, collectorVars>>
        /\ acc' = [s \in Stacks |-> 0] /\ flushed' = {}
        /\ \A s \in Stacks : acc[s] > 0 => s \in flushed
    BY <1>0, <1>4, QuietSteps DEF FlushDone, FlushDurable
  <2>2. \A c \in Durables \ {FlushDurable} : current'[c] = current[c]
    BY <1>0, <2>1
  <2>3. BusOK' /\ Rising' /\ SparesTreasury /\ SparesCollector
    BY <2>1, <2>2, FourDurables, QuietSpares
  <2>4. MeterOK'
    BY <1>0, <2>1, CountsCleared DEF Quiet
  <2> QED BY <2>3, <2>4, Spared DEF IInv
<1>5. ASSUME NEW s \in Stacks, FlushRow(s) PROVE IInv'
  <2>1. UNCHANGED messageVars /\ UNCHANGED <<treasuryVars, collectorVars>>
    BY <1>5 DEF FlushRow
  <2>2. Quiet /\ current' = current
    BY <1>0, <2>1, QuietSteps DEF messageVars
  <2>3. BusOK' /\ Rising' /\ SparesTreasury /\ SparesCollector
    BY <2>1, <2>2, QuietSpares
  <2>4. MeterOK'
    BY <1>0, <1>5, FlushRows
  <2> QED BY <2>3, <2>4, Spared DEF IInv
<1> QED BY <1>1, <1>2, <1>3, <1>4, <1>5 DEF Bumps, Flush

LEMMA CollectorKeeps ==
  ASSUME IInv, Collector
  PROVE  IInv'
<1>0. BusOK /\ CollectorOK /\ DOMAIN current = Durables /\ CollectorDurable \in Durables
  BY FourDurables DEF IInv, BusOK
<1>1. UNCHANGED <<treasuryVars, meterVars>>
  BY DEF Collector, CollectorBegin, CollectorCreate, CollectorAnnounce, CollectorThrows
<1>2. CASE CollectorBegin
  <2>1. Bus!Deliver(CollectorDurable) /\ ~created'
    BY <1>2 DEF CollectorBegin, CollectorDurable
  <2>2. BusOK' /\ Rising' /\ \A c \in Durables \ {CollectorDurable} : Aside(c) /\ current'[c] = current[c]
    <3> HIDE DEF CollectorDurable
    <3> QED BY <1>0, <2>1, DeliverSpares
  <2>3. SparesTreasury /\ SparesMeter
    BY <1>1, <2>2, FourDurables DEF SparesTreasury, SparesMeter
  <2>4. CollectorOK'
    BY <2>1 DEF CollectorOK
  <2> QED BY <2>2, <2>3, <2>4, Spared DEF IInv
<1>3. CASE CollectorCreate
  <2>1. UNCHANGED messageVars /\ current[CollectorDurable] # 0
    BY <1>3 DEF CollectorCreate, CollectorDurable, Bus!Busy
  <2>2. Quiet /\ current' = current
    BY <1>0, <2>1, QuietSteps DEF messageVars
  <2>3. BusOK' /\ Rising' /\ SparesTreasury /\ SparesMeter
    BY <1>1, <2>2, QuietSpares
  <2>4. CollectorOK'
    BY <2>1, <2>2 DEF CollectorOK, CollectorDurable
  <2> QED BY <2>3, <2>4, Spared DEF IInv
<1>4. CASE CollectorAnnounce \/ CollectorThrows
  <2>1. Quiet /\ current' = [current EXCEPT ![CollectorDurable] = 0] /\ ~created'
    BY <1>0, <1>4, QuietSteps DEF CollectorAnnounce, CollectorThrows, CollectorDurable
  <2>2. \A c \in Durables \ {CollectorDurable} : current'[c] = current[c]
    BY <1>0, <2>1
  <2>3. BusOK' /\ Rising' /\ SparesTreasury /\ SparesMeter
    BY <1>1, <2>1, <2>2, FourDurables, QuietSpares
  <2>4. CollectorOK'
    BY <2>1 DEF CollectorOK
  <2> QED BY <2>3, <2>4, Spared DEF IInv
<1> QED BY <1>2, <1>3, <1>4 DEF Collector

LEMMA FaultsKeep ==
  ASSUME IInv, (\E d \in Durables : Expire(d)) \/ TreasuryCrash \/ MeterCrash \/ CollectorCrash
  PROVE  IInv'
<1>0. BusOK /\ TreasuryOK /\ MeterOK /\ DOMAIN current = Durables
  BY DEF IInv, BusOK
<1>1. ASSUME NEW d \in Durables, Expire(d) PROVE IInv'
  <2>1. Quiet /\ current' = current /\ UNCHANGED <<treasuryVars, meterVars, collectorVars>>
    BY <1>0, <1>1, QuietSteps DEF Expire
  <2>2. BusOK' /\ Rising' /\ SparesTreasury /\ SparesMeter /\ SparesCollector
    BY <2>1, QuietSpares
  <2> QED BY <2>2, Spared DEF IInv
<1>2. CASE TreasuryCrash
  <2> DEFINE ds == {TreasuryDurable}
  <2>1. Bus!Drop(ds) /\ ds \in SUBSET Durables
    BY <1>2, FourDurables DEF TreasuryCrash, TreasuryDurable
  <2>2. /\ UNCHANGED <<emitted, stackEpoch, meterVars, collectorVars>>
        /\ left' = {} /\ emitting' = {}
    BY <1>2 DEF TreasuryCrash
  <2>3. Quiet /\ current' = [d \in Durables |-> IF d \in ds THEN 0 ELSE current[d]]
    BY <1>0, <2>1, QuietSteps
  <2>4. /\ current'[MeterDurable] = current[MeterDurable] /\ current'[FlushDurable] = current[FlushDurable]
        /\ current'[CollectorDurable] = current[CollectorDurable] /\ current'[TreasuryDurable] = 0
    BY <2>3, FourDurables
  <2>5. BusOK' /\ Rising' /\ SparesMeter /\ SparesCollector
    BY <2>2, <2>3, <2>4, QuietSpares
  <2>6. TreasuryOK'
    BY <1>0, <2>2, <2>3, <2>4, TreasuryLeaves DEF Quiet
  <2> QED BY <2>5, <2>6, Spared DEF IInv
<1>3. CASE MeterCrash
  <2> DEFINE ds == {MeterDurable, FlushDurable}
  <2>1. Bus!Drop(ds) /\ ds \in SUBSET Durables
    BY <1>3, FourDurables DEF MeterCrash, MeterDurable, FlushDurable
  <2>2. /\ UNCHANGED <<treasuryVars, recorded, collectorVars>>
        /\ acc' = [s \in Stacks |-> 0] /\ flushed' = {} /\ disturbed'
    BY <1>3 DEF MeterCrash
  <2>3. Quiet /\ current' = [d \in Durables |-> IF d \in ds THEN 0 ELSE current[d]]
    BY <1>0, <2>1, QuietSteps
  <2>4. /\ current'[TreasuryDurable] = current[TreasuryDurable]
        /\ current'[CollectorDurable] = current[CollectorDurable]
    BY <2>3, FourDurables
  <2>5. BusOK' /\ Rising' /\ SparesTreasury /\ SparesCollector
    BY <2>2, <2>3, <2>4, QuietSpares
  <2>6. MeterOK'
    BY <1>0, <2>2, <2>3, CountsCleared DEF Quiet
  <2> QED BY <2>5, <2>6, Spared DEF IInv
<1>4. CASE CollectorCrash
  <2> DEFINE ds == {CollectorDurable}
  <2>1. Bus!Drop(ds) /\ ds \in SUBSET Durables
    BY <1>4, FourDurables DEF CollectorCrash, CollectorDurable
  <2>2. UNCHANGED <<treasuryVars, meterVars>> /\ ~created'
    BY <1>4 DEF CollectorCrash
  <2>3. Quiet /\ current' = [d \in Durables |-> IF d \in ds THEN 0 ELSE current[d]]
    BY <1>0, <2>1, QuietSteps
  <2>4. /\ current'[MeterDurable] = current[MeterDurable] /\ current'[FlushDurable] = current[FlushDurable]
        /\ current'[TreasuryDurable] = current[TreasuryDurable]
    BY <2>3, FourDurables
  <2>5. BusOK' /\ Rising' /\ SparesTreasury /\ SparesMeter
    BY <2>2, <2>3, <2>4, QuietSpares
  <2>6. CollectorOK'
    BY <2>2 DEF CollectorOK
  <2> QED BY <2>5, <2>6, Spared DEF IInv
<1> QED BY <1>1, <1>2, <1>3, <1>4

LEMMA NextInv == IInv /\ [Next]_vars => IInv'
<1> SUFFICES ASSUME IInv, [Next]_vars PROVE IInv'
  OBVIOUS
<1>1. CASE UNCHANGED vars
  <2>1. UNCHANGED messageVars /\ UNCHANGED <<treasuryVars, meterVars, collectorVars>> /\ current' = current
    BY <1>1 DEF vars, busVars, messageVars
  <2>2. Quiet
    BY <2>1, QuietSteps DEF IInv
  <2>3. BusOK' /\ Rising' /\ SparesTreasury /\ SparesMeter /\ SparesCollector
    BY <2>1, <2>2, QuietSpares
  <2> QED BY <2>3, Spared DEF IInv
<1>2. CASE Next
  BY <1>2, Publishes, TreasuryKeeps, MeterKeeps, CollectorKeeps, FaultsKeep DEF Next
<1> QED BY <1>1, <1>2

-----------------------------------------------------------------------------
\* In every behaviour of the three consumers, whatever is redelivered, fails or dies.
THEOREM ConsumersInv == Spec => []IInv
<1>1. Init /\ [][Next]_vars => []IInv
  BY InitInv, NextInv, PTL
<1> QED BY <1>1, PTL DEF Spec

LEMMA Typed ==
  ASSUME IInv
  PROVE  TypeOK
<1>1. ASSUME NEW d \in Durables
      PROVE  /\ last[d] \in 0 .. Len(stream)
             /\ again[d] \subseteq 1 .. last[d]
             /\ current[d] \in 0 .. last[d]
             /\ \A i \in DOMAIN stream : handed[d][i] > 0 => Wants(d, stream[i]) /\ i <= last[d]
  <2>1. DurableOK(d) /\ Len(stream) \in Nat /\ DOMAIN stream = 1 .. Len(stream)
    BY DEF IInv, BusOK
  <2>2. last[d] \in 0 .. Len(stream)
    BY <2>1 DEF DurableOK
  <2>3. again[d] \subseteq 1 .. last[d]
    BY <2>1 DEF DurableOK, Given
  <2>4. current[d] \in 0 .. last[d]
    BY <2>1, <2>2 DEF DurableOK, Given
  <2> QED BY <2>1, <2>2, <2>3, <2>4 DEF DurableOK
<1>2. Bus!BusTypeOK
  BY <1>1 DEF Bus!BusTypeOK
<1> QED BY <1>2 DEF IInv, TreasuryOK, CollectorOK, TypeOK, Bus!Busy, TreasuryDurable, CollectorDurable

\* A stack has at most as many rows for an epoch as the epoch was handed over.
THEOREM EmissionsAreDeliveries == Spec => []EmissionPerDelivery
<1>1. IInv => EmissionPerDelivery
  <2> SUFFICES ASSUME IInv, NEW s \in Stacks, NEW e \in 1 .. MaxEpoch
               PROVE  emitted[s][e] <= Handed("treasury-emit", <<"epoch.transition", e>>)
    BY Typed DEF EmissionPerDelivery
  <2>1. emitted[s][e] \in Nat /\ Owed(s, e) \in Nat
    BY DEF IInv, TreasuryOK, Owed
  <2>2. Handed(TreasuryDurable, Transit(e)) \in Nat
    BY Deliveries, FourDurables DEF IInv
  <2>3. emitted[s][e] + Owed(s, e) <= Handed(TreasuryDurable, Transit(e))
    BY DEF IInv, TreasuryOK
  <2>4. emitted[s][e] <= Handed(TreasuryDurable, Transit(e))
    <3> HIDE DEF Owed, TreasuryDurable, Transit
    <3> QED BY <2>1, <2>2, <2>3
  <2> QED BY <2>4 DEF TreasuryDurable, Transit
<1> QED BY <1>1, ConsumersInv, PTL

\* The meter's rows never show more use than was handed to it, nor less while it neither
\* dies nor fails nor counts during a flush.
THEOREM MeterCountsUse == Spec => []MeterAccounts
<1>1. IInv => MeterAccounts
  <2> SUFFICES ASSUME IInv, NEW s \in Stacks
               PROVE  /\ recorded[s] <= Handed("worker-bw", <<"use", s>>)
                      /\ ~disturbed /\ ~Bus!Busy("worker-bw-flush") =>
                            recorded[s] + acc[s] = Handed("worker-bw", <<"use", s>>)
    BY DEF MeterAccounts
  <2>1. recorded[s] \in Nat /\ Unflushed(s) \in Nat
    BY DEF IInv, MeterOK, Unflushed
  <2>2. Handed(MeterDurable, Used(s)) \in Nat
    BY Deliveries, FourDurables DEF IInv
  <2>3. recorded[s] + Unflushed(s) <= Handed(MeterDurable, Used(s))
    BY DEF IInv, MeterOK
  <2>4. recorded[s] <= Handed(MeterDurable, Used(s))
    <3> HIDE DEF Unflushed, MeterDurable, Used
    <3> QED BY <2>1, <2>2, <2>3
  <2>5. ~disturbed /\ current[FlushDurable] = 0 => recorded[s] + acc[s] = Handed(MeterDurable, Used(s))
    BY DEF IInv, MeterOK, Unflushed
  <2> QED BY <2>4, <2>5 DEF MeterDurable, FlushDurable, Used, Bus!Busy
<1> QED BY <1>1, ConsumersInv, PTL

\* Where no transition was handed over twice, a stack takes the newest epoch there is.
LEMMA UpdateRises ==
  ASSUME IInv, NEW s \in Stacks, TreasuryUpdate(s), NEW t \in Stacks, stackEpoch'[t] < stackEpoch[t]
  PROVE  \E i \in DOMAIN stream : handed[TreasuryDurable][i] > 1
<1>0. BusOK /\ Rising /\ TreasuryOK
  BY DEF IInv
<1>1. PICK e0 : e0 = EpochOf("treasury-emit")
  OBVIOUS
<1>2. PICK c : c = current[TreasuryDurable]
  OBVIOUS
<1>3. c # 0 /\ stackEpoch' \in {stackEpoch, [stackEpoch EXCEPT ![s] = e0]}
  BY <1>1, <1>2 DEF TreasuryUpdate, TreasuryDurable, Bus!Busy
<1>4. e0 \in 1 .. MaxEpoch /\ stream[c] = Transit(e0)
  BY <1>0, <1>1, <1>2, <1>3, EpochHandled
<1>5. stackEpoch \in [Stacks -> 0 .. MaxEpoch] /\ MaxEpoch \in Nat
  BY <1>0, ConsumersAssumption DEF TreasuryOK
<1>6. stackEpoch'[t] = e0 /\ e0 < stackEpoch[t] /\ stackEpoch[t] # 0
  BY <1>3, <1>4, <1>5
<1>7. PICK i \in 1 .. last[TreasuryDurable] : stream[i] = Transit(stackEpoch[t])
  BY <1>0, <1>6 DEF TreasuryOK
<1>8. /\ Len(stream) \in Nat /\ DOMAIN stream = 1 .. Len(stream)
      /\ last[TreasuryDurable] \in 0 .. Len(stream) /\ c \in 1 .. Len(stream)
  BY <1>0, <1>2, <1>3, Deliveries, FourDurables
<1>9. SUFFICES ASSUME OnceOnly PROVE FALSE
  <2>1. \A j \in 1 .. Len(stream) : handed[TreasuryDurable][j] \in Nat
    <3>1. Counts(stream, handed[TreasuryDurable])
      BY <1>0, FourDurables DEF BusOK, DurableOK
    <3> QED BY <3>1 DEF Counts
  <2> QED BY <1>8, <2>1 DEF OnceOnly
<1>10. c = last[TreasuryDurable]
  BY <1>0, <1>2, <1>3, <1>9 DEF TreasuryOK
<1>11. /\ IsTransition(i) /\ IsTransition(c)
       /\ stream[i][2] = stackEpoch[t] /\ stream[c][2] = e0
  BY <1>4, <1>7 DEF IsTransition, Transit
<1>12. i \in 1 .. Len(stream) /\ (i < c \/ i = c)
  BY <1>7, <1>8, <1>10
<1>13. CASE i = c
  BY <1>5, <1>6, <1>11, <1>13
<1>14. CASE i < c
  <2>1. stream[i][2] < stream[c][2]
    BY <1>0, <1>8, <1>11, <1>12, <1>14 DEF Rising
  <2> QED BY <1>4, <1>5, <1>6, <1>11, <2>1
<1> QED BY <1>12, <1>13, <1>14

\* A stack's epoch falls only after a transition was handed over a second time.
THEOREM EpochsFallLate == Spec => EpochsFallOnRedelivery
<1>1. IInv /\ [Next]_vars =>
        [\A s \in Stacks : stackEpoch'[s] < stackEpoch[s] =>
            \E i \in DOMAIN stream : handed["treasury-emit"][i] > 1]_vars
  <2> SUFFICES ASSUME IInv, Next, NEW t \in Stacks, stackEpoch'[t] < stackEpoch[t]
               PROVE  \E i \in DOMAIN stream : handed["treasury-emit"][i] > 1
    OBVIOUS
  <2>1. stackEpoch' # stackEpoch
    <3>1. stackEpoch[t] \in Int
      BY ConsumersAssumption DEF IInv, TreasuryOK
    <3> QED BY <3>1
  <2>2. PICK s \in Stacks : TreasuryUpdate(s)
    <3>1. UNCHANGED treasuryVars => stackEpoch' = stackEpoch
      BY DEF treasuryVars
    <3> QED BY <2>1, <3>1 DEF Next, Transition, Use, Desync, Treasury, TreasuryBegin, TreasuryThrows,
          TreasuryDone, TreasuryEmit, Bumps, Bump, BumpDone, Flush, FlushBegin, FlushDone, FlushRow,
          Collector, CollectorBegin, CollectorCreate, CollectorAnnounce, CollectorThrows,
          Expire, TreasuryCrash, MeterCrash, CollectorCrash
  <2> QED BY <2>2, UpdateRises DEF TreasuryDurable
<1> QED BY <1>1, ConsumersInv, PTL DEF Spec, EpochsFallOnRedelivery
=============================================================================
