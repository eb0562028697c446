--------------------------- MODULE AgentRuntimeProofs --------------------------
(***************************************************************************)
(* Proofs about the agents and the memory they share, for any agents,      *)
(* requests, configurations, tool calls, grammars and texts, any answers   *)
(* of the model and any faults: what a query finds in the cache is its     *)
(* region; what this process stored it recalls; a verdict says why a run   *)
(* ended.                                                                  *)
(*                                                                         *)
(* The address book is read and filled by recursive functions; what they   *)
(* compute is shown by induction over a set of numbers in place of a       *)
(* predicate.  A filled book keeps its addresses, each once, and takes     *)
(* nothing but the entries put into it.                                    *)
(*                                                                         *)
(* The strengthening says of the memory that the cache is such a book,     *)
(* holds only what the daemon took, and an entry under every address this  *)
(* process stored; of a request that one that waits for the daemon has a   *)
(* call to wait for; of an agent's run that its steps and tokens were      *)
(* within bounds when the model was last called, that it is running until  *)
(* it is done, and then has its verdict; of the agents that the instance   *)
(* shown is a run of the same agent.                                       *)
(***************************************************************************)
EXTENDS AgentRuntime, FiniteSetTheorems, WellFoundedInduction, TLAPS

\* Induction on the natural numbers, for a set that holds 0 and is closed under successors.
LEMMA InductiveSet ==
  ASSUME NEW A \in SUBSET Nat, 0 \in A, \A n \in A : n + 1 \in A
  PROVE  A = Nat
<1> DEFINE less == OpToRel(<, Nat)
           T == Nat \ A
<1>1. SUFFICES ASSUME T # {} PROVE FALSE
  OBVIOUS
<1>2. IsWellFoundedOn(less, Nat)
  BY NatLessThanWellFounded
<1>3. PICK n \in T : \A m \in T : <<m, n>> \notin less
  <2> HIDE DEF less
  <2> QED BY <1>1, <1>2, WFMin
<1>4. n # 0 /\ n - 1 \in Nat
  OBVIOUS
<1>5. <<n - 1, n>> \in less
  BY <1>4 DEF OpToRel
<1>6. n - 1 \in A
  BY <1>3, <1>4, <1>5
<1>7. n \in A
  <2>1. (n - 1) + 1 \in A
    BY <1>6
  <2>2. (n - 1) + 1 = n
    BY <1>4
  <2> QED BY <2>1, <2>2
<1> QED BY <1>7

-----------------------------------------------------------------------------
(* The address book.                                                        *)

Entries == {Entry(g, c) : g \in Memories, c \in Contents}

\* A Map: no address is in it twice.
BookOK(book) ==
  /\ book \in Seq(Entries)
  /\ \A i, j \in 1 .. Len(book) : book[i].address = book[j].address => i = j

\* The addresses of a book are kept, and nothing but members of S is added.
Extends(book, new, S) ==
  /\ BookOK(new)
  /\ \A i \in 1 .. Len(book) : \E j \in 1 .. Len(new) : new[j].address = book[i].address
  /\ \A j \in 1 .. Len(new) : new[j] \in S \/ \E i \in 1 .. Len(book) : new[j] = book[i]

\* An entry put is in the book, and nothing else comes in.
LEMMA PutOne ==
  ASSUME NEW book, BookOK(book), NEW e \in Entries
  PROVE  /\ Extends(book, BookPut(book, e), {e})
         /\ \E j \in 1 .. Len(BookPut(book, e)) : BookPut(book, e)[j] = e
<1> DEFINE at == {i \in DOMAIN book : book[i].address = e.address}
<1>1. PICK n \in Nat : n = Len(book)
  BY DEF BookOK
<1>2. book \in Seq(Entries) /\ DOMAIN book = 1 .. n /\ \A i \in 1 .. n : book[i] \in Entries
  BY <1>1 DEF BookOK
<1>3. \A i, j \in 1 .. n : book[i].address = book[j].address => i = j
  BY <1>1 DEF BookOK
<1>4. PICK new : new = BookPut(book, e)
  OBVIOUS
<1>5. CASE at = {}
  <2>1. new = Append(book, e)
    BY <1>4, <1>5 DEF BookPut
  <2>2. /\ new \in Seq(Entries) /\ Len(new) = n + 1 /\ new[n + 1] = e
        /\ \A i \in 1 .. n : new[i] = book[i]
    BY <1>1, <1>2, <2>1
  <2>3. \A i \in 1 .. n + 1 : i \in 1 .. n \/ i = n + 1
    OBVIOUS
  <2>4. \A i \in 1 .. n : book[i].address # e.address
    BY <1>2, <1>5
  <2>5. BookOK(new)
    <3>1. ASSUME NEW i \in 1 .. n + 1, NEW j \in 1 .. n + 1, new[i].address = new[j].address
          PROVE  i = j
      BY <1>3, <2>2, <2>3, <2>4, <3>1
    <3> QED BY <2>2, <3>1 DEF BookOK
  <2>6. \A i \in 1 .. n : i \in 1 .. n + 1
    OBVIOUS
  <2>7. n + 1 \in 1 .. n + 1
    OBVIOUS
  <2>8. Extends(book, new, {e})
    <3>1. \A i \in 1 .. n : new[i].address = book[i].address
      BY <2>2
    <3> QED BY <1>1, <2>2, <2>3, <2>5, <2>6, <3>1 DEF Extends
  <2> QED BY <1>4, <2>2, <2>7, <2>8
<1>6. CASE at # {}
  <2>1. PICK a \in 1 .. n : book[a].address = e.address
    BY <1>2, <1>6
  <2>2. at = {a}
    BY <1>2, <1>3, <2>1
  <2>3. Max(at) = a
    BY <2>2 DEF Max
  <2>4. new = [book EXCEPT ![a] = e]
    <3> HIDE DEF at
    <3>1. new = IF at = {} THEN Append(book, e) ELSE [book EXCEPT ![Max(at)] = e]
      BY <1>4 DEF BookPut, at
    <3> QED BY <1>6, <2>3, <3>1
  <2>5. /\ new \in Seq(Entries) /\ Len(new) = n
        /\ new[a] = e /\ \A i \in 1 .. n : i # a => new[i] = book[i]
    BY <1>1, <1>2, <2>1, <2>4
  <2>6. \A i \in 1 .. n : new[i].address = book[i].address
    BY <2>1, <2>5
  <2>7. BookOK(new)
    BY <1>3, <2>5, <2>6 DEF BookOK
  <2>8. Extends(book, new, {e})
    BY <1>1, <2>5, <2>6, <2>7 DEF Extends
  <2> QED BY <1>4, <2>1, <2>5, <2>8
<1> QED BY <1>5, <1>6

\* Two extensions make one.
LEMMA ExtendsTwice ==
  ASSUME NEW b, NEW c, NEW d, NEW S, NEW T, Extends(b, c, S), Extends(c, d, T)
  PROVE  Extends(b, d, S \cup T)
<1>1. BookOK(d)
  BY DEF Extends
<1>2. ASSUME NEW i \in 1 .. Len(b)
      PROVE  \E j \in 1 .. Len(d) : d[j].address = b[i].address
  <2>1. PICK k \in 1 .. Len(c) : c[k].address = b[i].address
    BY DEF Extends
  <2>2. PICK j \in 1 .. Len(d) : d[j].address = c[k].address
    BY DEF Extends
  <2> QED BY <2>1, <2>2
<1>3. ASSUME NEW j \in 1 .. Len(d)
      PROVE  d[j] \in S \cup T \/ \E i \in 1 .. Len(b) : d[j] = b[i]
  <2>1. CASE d[j] \in T
    BY <2>1
  <2>2. ASSUME NEW k \in 1 .. Len(c), d[j] = c[k]
        PROVE  d[j] \in S \cup T \/ \E i \in 1 .. Len(b) : d[j] = b[i]
    <3>1. c[k] \in S \/ \E i \in 1 .. Len(b) : c[k] = b[i]
      BY DEF Extends
    <3> QED BY <2>2, <3>1
  <2> QED BY <2>1, <2>2 DEF Extends
<1> QED BY <1>1, <1>2, <1>3 DEF Extends

\* A recursive function over 0 .. k is the one function that satisfies its equation.
PutSteps(f, book, entries, k) ==
  f = [n \in 0 .. k |-> IF n = 0 THEN book ELSE BookPut(f[n - 1], entries[n])]

\* By induction on k: the function that BookPutAll chooses exists.
LEMMA PutStepsExist ==
  ASSUME NEW book, NEW entries, NEW k \in Nat
  PROVE  \E f : PutSteps(f, book, entries, k)
<1> DEFINE A == {n \in Nat : \E f : PutSteps(f, book, entries, n)}
<1>1. A \in SUBSET Nat /\ \A n \in Nat : n \in A <=> \E f : PutSteps(f, book, entries, n)
  OBVIOUS
<1> HIDE DEF A
<1>2. 0 \in A
  <2>1. PutSteps([n \in 0 .. 0 |-> book], book, entries, 0)
    BY DEF PutSteps
  <2> QED BY <1>1, <2>1
<1>3. ASSUME NEW n \in A PROVE n + 1 \in A
  <2>1. n \in Nat
    BY <1>1
  <2>2. PICK g : PutSteps(g, book, entries, n)
    BY <1>1
  <2> DEFINE f == [i \in 0 .. n + 1 |-> IF i = 0 THEN book ELSE BookPut(g[i - 1], entries[i])]
  <2>3. ASSUME NEW i \in 0 .. n PROVE f[i] = g[i]
    <3>1. i \in 0 .. n + 1
      BY <2>1
    <3>2. f[i] = IF i = 0 THEN book ELSE BookPut(g[i - 1], entries[i])
      BY <3>1
    <3>3. g[i] = IF i = 0 THEN book ELSE BookPut(g[i - 1], entries[i])
      BY <2>2, Zenon DEF PutSteps
    <3> QED BY <3>2, <3>3, Zenon
  <2>4. \A i \in 0 .. n + 1 : i # 0 => f[i - 1] = g[i - 1]
    <3>1. \A i \in 0 .. n + 1 : i # 0 => i - 1 \in 0 .. n
      BY <2>1
    <3> HIDE DEF f
    <3> QED BY <2>3, <3>1
  <2>5. f = [i \in 0 .. n + 1 |-> IF i = 0 THEN book ELSE BookPut(f[i - 1], entries[i])]
    BY <2>4
  <2>6. PutSteps(f, book, entries, n + 1)
    <3> HIDE DEF f
    <3> QED BY <2>5, Zenon DEF PutSteps
  <2> QED BY <1>1, <2>1, <2>6
<1>4. A = Nat
  BY <1>1, <1>2, <1>3, InductiveSet
<1> QED BY <1>1, <1>4

\* A book filled with entries keeps its addresses and takes nothing but them (MemoryStore.recall
\* caches what the daemon answers).
LEMMA PutAll ==
  ASSUME NEW book, BookOK(book), NEW entries, NEW k \in Nat, Len(entries) = k,
         \A i \in 1 .. k : entries[i] \in Entries
  PROVE  Extends(book, BookPutAll(book, entries), {entries[i] : i \in 1 .. k})
<1> DEFINE S == {entries[i] : i \in 1 .. k}
           f == CHOOSE g : g = [n \in 0 .. Len(entries) |->
                  IF n = 0 THEN book ELSE BookPut(g[n - 1], entries[n])]
<1>1. BookPutAll(book, entries) = f[k]
  BY DEF BookPutAll
<1>2. f = [n \in 0 .. k |-> IF n = 0 THEN book ELSE BookPut(f[n - 1], entries[n])]
  <2>1. \E g : PutSteps(g, book, entries, Len(entries))
    BY PutStepsExist
  <2>2. f = [n \in 0 .. Len(entries) |-> IF n = 0 THEN book ELSE BookPut(f[n - 1], entries[n])]
    BY <2>1, Zenon DEF PutSteps
  <2> HIDE DEF f
  <2> QED BY <2>2
<1> HIDE DEF f
<1>3. f[0] = book
  <2>1. 0 \in 0 .. k
    OBVIOUS
  <2> QED BY <1>2, <2>1, Zenon
<1>4. ASSUME NEW n \in 1 .. k PROVE f[n] = BookPut(f[n - 1], entries[n])
  <2>1. n \in 0 .. k /\ n # 0
    OBVIOUS
  <2> QED BY <1>2, <2>1, Zenon
<1>0. /\ \A i \in 1 .. k : entries[i] \in S
      /\ Extends(book, book, S)
  BY DEF Extends
<1> HIDE DEF S
<1> DEFINE A == {n \in Nat : n <= k => Extends(book, f[n], S)}
<1>5. A \in SUBSET Nat /\ \A n \in Nat : n \in A <=> (n <= k => Extends(book, f[n], S))
  OBVIOUS
<1> HIDE DEF A
<1>6. 0 \in A
  BY <1>0, <1>3, <1>5
<1>7. ASSUME NEW n \in A PROVE n + 1 \in A
  <2>1. n \in Nat
    BY <1>5
  <2>2. SUFFICES ASSUME n + 1 <= k PROVE Extends(book, f[n + 1], S)
    BY <1>5, <2>1
  <2>3. n + 1 \in 1 .. k /\ (n + 1) - 1 = n
    BY <2>1, <2>2
  <2>10. Extends(book, f[n], S)
    <3>1. n <= k
      BY <2>1, <2>2
    <3> QED BY <1>5, <2>1, <3>1
  <2>4. f[n + 1] = BookPut(f[n], entries[n + 1])
    BY <1>4, <2>3
  <2>5. PICK e : e = entries[n + 1]
    OBVIOUS
  <2>6. e \in Entries /\ e \in S
    BY <1>0, <2>3, <2>5
  <2>7. BookOK(f[n])
    BY <2>10 DEF Extends
  <2>8. Extends(f[n], f[n + 1], {e})
    BY <2>4, <2>5, <2>6, <2>7, PutOne
  <2>9. S \cup {e} = S
    BY <2>6
  <2>11. Extends(book, f[n + 1], S \cup {e})
    BY <2>8, <2>10, ExtendsTwice
  <2> QED BY <2>9, <2>11
<1>8. A = Nat
  BY <1>5, <1>6, <1>7, InductiveSet
<1>9. Extends(book, f[k], S)
  BY <1>5, <1>8
<1> QED BY <1>1, <1>9 DEF S

QuerySteps(f, book, p, k) ==
  f = [n \in 0 .. k |-> IF n = 0 THEN <<>>
                        ELSE IF PrefixMatch(book[n].address, p) THEN Append(f[n - 1], book[n])
                        ELSE f[n - 1]]

\* By induction on k: the function that BookQuery chooses exists.
LEMMA QueryStepsExist ==
  ASSUME NEW book, NEW p, NEW k \in Nat
  PROVE  \E f : QuerySteps(f, book, p, k)
<1> DEFINE A == {n \in Nat : \E f : QuerySteps(f, book, p, n)}
           match(n) == PrefixMatch(book[n].address, p)
<1>1. A \in SUBSET Nat /\ \A n \in Nat : n \in A <=> \E f : QuerySteps(f, book, p, n)
  OBVIOUS
<1> HIDE DEF A
<1>2. 0 \in A
  <2>1. QuerySteps([n \in 0 .. 0 |-> <<>>], book, p, 0)
    BY DEF QuerySteps
  <2> QED BY <1>1, <2>1
<1>3. ASSUME NEW n \in A PROVE n + 1 \in A
  <2>1. n \in Nat
    BY <1>1
  <2>2. PICK g : QuerySteps(g, book, p, n)
    BY <1>1
  <2> DEFINE f == [i \in 0 .. n + 1 |-> IF i = 0 THEN <<>>
                                       ELSE IF match(i) THEN Append(g[i - 1], book[i])
                                       ELSE g[i - 1]]
  <2>3. ASSUME NEW i \in 0 .. n PROVE f[i] = g[i]
    <3>1. i \in 0 .. n + 1
      BY <2>1
    <3>2. f[i] = IF i = 0 THEN <<>> ELSE IF match(i) THEN Append(g[i - 1], book[i]) ELSE g[i - 1]
      BY <3>1, Zenon
    <3>3. g[i] = IF i = 0 THEN <<>> ELSE IF match(i) THEN Append(g[i - 1], book[i]) ELSE g[i - 1]
      BY <2>2, Zenon DEF QuerySteps
    <3> QED BY <3>2, <3>3, Zenon
  <2>4. \A i \in 0 .. n + 1 : i # 0 => f[i - 1] = g[i - 1]
    <3>1. \A i \in 0 .. n + 1 : i # 0 => i - 1 \in 0 .. n
      BY <2>1
    <3> HIDE DEF f
    <3> QED BY <2>3, <3>1
  <2>5. f = [i \in 0 .. n + 1 |-> IF i = 0 THEN <<>>
                                 ELSE IF match(i) THEN Append(f[i - 1], book[i])
                                 ELSE f[i - 1]]
    <3> HIDE DEF match
    <3> QED BY <2>4
  <2>6. QuerySteps(f, book, p, n + 1)
    <3> HIDE DEF f
    <3> QED BY <2>5, Zenon DEF QuerySteps
  <2> QED BY <1>1, <2>1, <2>6
<1>4. A = Nat
  BY <1>1, <1>2, <1>3, InductiveSet
<1> QED BY <1>1, <1>4

\* The entries of r are those of the first k of book that match, each once.
Found(r, book, p, k) ==
  /\ r \in Seq(Entries)
  /\ \A j \in 1 .. Len(r) : \E i \in 1 .. k : r[j] = book[i] /\ PrefixMatch(book[i].address, p)
  /\ \A i \in 1 .. k : PrefixMatch(book[i].address, p) => \E j \in 1 .. Len(r) : r[j] = book[i]
  /\ \A i, j \in 1 .. Len(r) : r[i].address = r[j].address => i = j

\* One more entry of the book looked at.
LEMMA FoundNext ==
  ASSUME NEW book, BookOK(book), NEW p, NEW n \in Nat, n + 1 \in 1 .. Len(book),
         NEW r, Found(r, book, p, n),
         NEW s, s = IF PrefixMatch(book[n + 1].address, p) THEN Append(r, book[n + 1]) ELSE r
  PROVE  Found(s, book, p, n + 1)
<1>1. \A i \in 1 .. n + 1 : i \in 1 .. n \/ i = n + 1
  OBVIOUS
<1>2. \A i \in 1 .. n : i \in 1 .. n + 1
  OBVIOUS
<1>3. CASE ~PrefixMatch(book[n + 1].address, p)
  <2>1. s = r
    BY <1>3
  <2> QED BY <1>1, <1>2, <1>3, <2>1 DEF Found
<1>4. CASE PrefixMatch(book[n + 1].address, p)
  <2>1. s = Append(r, book[n + 1])
    BY <1>4
  <2>2. book[n + 1] \in Entries /\ n + 1 \in 1 .. n + 1
    BY DEF BookOK
  <2>3. PICK m \in Nat : m = Len(r)
    BY DEF Found
  <2>4. /\ s \in Seq(Entries) /\ Len(s) = m + 1 /\ s[m + 1] = book[n + 1]
        /\ \A j \in 1 .. m : s[j] = r[j]
    BY <2>1, <2>2, <2>3 DEF Found
  <2>5. \A j \in 1 .. m + 1 : j \in 1 .. m \/ j = m + 1
    BY <2>3
  <2>6. \A j \in 1 .. m : j \in 1 .. m + 1
    BY <2>3
  <2>7. m + 1 \in 1 .. m + 1
    BY <2>3
  <2>8. \A j \in 1 .. m : \E i \in 1 .. n : r[j] = book[i] /\ PrefixMatch(book[i].address, p)
    BY <2>3 DEF Found
  <2>9. ASSUME NEW j \in 1 .. m PROVE s[j].address # s[m + 1].address
    <3>1. PICK i \in 1 .. n : r[j] = book[i]
      BY <2>8
    <3>2. i \in 1 .. Len(book) /\ i # n + 1
      BY DEF BookOK
    <3>3. book[i].address # book[n + 1].address
      BY <3>2 DEF BookOK
    <3> QED BY <2>4, <3>1, <3>3
  <2>10. ASSUME NEW i \in 1 .. Len(s), NEW j \in 1 .. Len(s), s[i].address = s[j].address
         PROVE  i = j
    <3>1. CASE i \in 1 .. m /\ j \in 1 .. m
      BY <2>3, <2>4, <2>10, <3>1 DEF Found
    <3> QED BY <2>4, <2>5, <2>9, <2>10, <3>1
  <2>11. ASSUME NEW j \in 1 .. Len(s)
         PROVE  \E i \in 1 .. n + 1 : s[j] = book[i] /\ PrefixMatch(book[i].address, p)
    BY <1>2, <1>4, <2>2, <2>4, <2>5, <2>8
  <2>12. ASSUME NEW i \in 1 .. n + 1, PrefixMatch(book[i].address, p)
         PROVE  \E j \in 1 .. Len(s) : s[j] = book[i]
    <3>1. CASE i \in 1 .. n
      <4>1. PICK j \in 1 .. m : r[j] = book[i]
        BY <2>3, <2>12, <3>1 DEF Found
      <4> QED BY <2>4, <2>6, <4>1
    <3> QED BY <1>1, <2>4, <2>7, <3>1
  <2> QED BY <2>4, <2>10, <2>11, <2>12 DEF Found
<1> QED BY <1>3, <1>4

\* A query finds the entries of the book that match, each once.
LEMMA Query ==
  ASSUME NEW book, BookOK(book), NEW p
  PROVE  Found(BookQuery(book, p), book, p, Len(book))
<1>0. PICK k \in Nat : k = Len(book)
  BY DEF BookOK
<1> DEFINE f == CHOOSE g : g = [n \in 0 .. Len(book) |->
                  IF n = 0 THEN <<>>
                  ELSE IF PrefixMatch(book[n].address, p) THEN Append(g[n - 1], book[n])
                  ELSE g[n - 1]]
           match(n) == PrefixMatch(book[n].address, p)
<1>1. BookQuery(book, p) = f[k]
  BY <1>0 DEF BookQuery
<1>2. QuerySteps(f, book, p, k)
  <2>1. \E g : QuerySteps(g, book, p, Len(book))
    BY <1>0, QueryStepsExist
  <2>2. f = CHOOSE g : QuerySteps(g, book, p, Len(book))
    BY Zenon DEF QuerySteps
  <2> HIDE DEF f
  <2> QED BY <1>0, <2>1, <2>2
<1> HIDE DEF f
<1>3. f[0] = <<>>
  <2>1. 0 \in 0 .. k
    OBVIOUS
  <2> QED BY <1>2, <2>1, Zenon DEF QuerySteps
<1>4. ASSUME NEW n \in 1 .. k
      PROVE  f[n] = IF match(n) THEN Append(f[n - 1], book[n]) ELSE f[n - 1]
  <2>1. n \in 0 .. k /\ n # 0
    OBVIOUS
  <2> QED BY <1>2, <2>1, Zenon DEF QuerySteps
<1> DEFINE A == {n \in Nat : n <= k => Found(f[n], book, p, n)}
<1>5. A \in SUBSET Nat /\ \A n \in Nat : n \in A <=> (n <= k => Found(f[n], book, p, n))
  OBVIOUS
<1> HIDE DEF A
<1>6. 0 \in A
  <2>1. Found(<<>>, book, p, 0)
    BY DEF Found
  <2> QED BY <1>3, <1>5, <2>1
<1>7. ASSUME NEW n \in A PROVE n + 1 \in A
  <2>1. n \in Nat
    BY <1>5
  <2>2. SUFFICES ASSUME n + 1 <= k PROVE Found(f[n + 1], book, p, n + 1)
    BY <1>5, <2>1
  <2>3. n + 1 \in 1 .. k /\ (n + 1) - 1 = n
    BY <2>1, <2>2
  <2>4. Found(f[n], book, p, n)
    <3>1. n <= k
      BY <2>1, <2>2
    <3> QED BY <1>5, <2>1, <3>1
  <2>5. f[n + 1] = IF match(n + 1) THEN Append(f[n], book[n + 1]) ELSE f[n]
    <3> HIDE DEF match
    <3> QED BY <1>4, <2>3
  <2> QED BY <1>0, <2>1, <2>3, <2>4, <2>5, FoundNext
<1>8. A = Nat
  BY <1>5, <1>6, <1>7, InductiveSet
<1>9. Found(f[k], book, p, k)
  BY <1>5, <1>8
<1> QED BY <1>0, <1>1, <1>9

-----------------------------------------------------------------------------
(* The regions.                                                             *)

\* DerivePartial: the facets before the first gap.
LEMMA PartialPrefix ==
  ASSUME NEW q
  PROVE  \E d \in 0 .. Depth :
           /\ DerivePartial(q) = SubSeq(Normalize(q), 1, d)
           /\ \A f \in 1 .. d : Normalize(q)[f] # Missing
           /\ d = Depth \/ Normalize(q)[d + 1] = Missing
<1> DEFINE n == Normalize(q)
           D == {d \in 0 .. Depth : \A f \in 1 .. d : n[f] # Missing}
<1> USE AddressAssumption
<1>1. 0 \in D /\ D \subseteq Int /\ \A x \in D : x <= Depth
  <2>1. 0 \in D
    <3>1. 1 .. 0 = {} /\ 0 \in 0 .. Depth
      OBVIOUS
    <3> QED BY <3>1
  <2>2. D \subseteq Int /\ \A x \in D : x <= Depth
    OBVIOUS
  <2> QED BY <2>1, <2>2
<1>2. \E d \in D : \A x \in D : x <= d
  <2> DEFINE A == {k \in Nat : (\E x \in D : x >= Depth - k) => \E d \in D : \A x \in D : x <= d}
  <2> HIDE DEF D
  <2>1. A \in SUBSET Nat /\ \A k \in Nat : k \in A <=>
          ((\E x \in D : x >= Depth - k) => \E d \in D : \A x \in D : x <= d)
    OBVIOUS
  <2> HIDE DEF A
  <2>2. 0 \in A
    BY <1>1, <2>1
  <2>3. ASSUME NEW k \in A PROVE k + 1 \in A
    <3>1. k \in Nat
      BY <2>1
    <3>2. SUFFICES ASSUME NEW y \in D, y >= Depth - (k + 1), ~ \E d \in D : \A x \in D : x <= d
                   PROVE  FALSE
      BY <2>1, <3>1
    <3>3. PICK x \in D : x > y
      BY <1>1, <3>2
    <3>4. x >= Depth - k
      BY <1>1, <3>1, <3>2, <3>3
    <3> QED BY <2>1, <3>1, <3>2, <3>4
  <2>4. Depth \in A
    BY <2>1, <2>2, <2>3, InductiveSet
  <2>5. \E x \in D : x >= Depth - Depth
    BY <1>1
  <2> QED BY <2>1, <2>4, <2>5
<1>3. PICK d \in D : \A x \in D : x <= d
  BY <1>2
<1>4. Max(D) = d
  <2> HIDE DEF D
  <2>1. PICK e : e = Max(D)
    OBVIOUS
  <2>2. e \in D /\ \A x \in D : x <= e
    BY <1>3, <2>1, Zenon DEF Max
  <2>3. d <= e /\ e <= d /\ d \in Int /\ e \in Int
    BY <1>1, <1>3, <2>2
  <2>4. d = e
    BY <2>3
  <2> QED BY <2>1, <2>4
<1>5. DerivePartial(q) = SubSeq(n, 1, d)
  BY <1>4 DEF DerivePartial
<1>6. d \in 0 .. Depth /\ \A f \in 1 .. d : n[f] # Missing
  OBVIOUS
<1>7. ASSUME d # Depth, n[d + 1] # Missing PROVE FALSE
  <2>1. d + 1 \in 0 .. Depth
    BY <1>6, <1>7
  <2>2. \A f \in 1 .. d + 1 : f \in 1 .. d \/ f = d + 1
    BY <1>6
  <2>3. d + 1 \in D
    <3> HIDE DEF n
    <3> QED BY <1>6, <1>7, <2>1, <2>2
  <2> HIDE DEF D
  <2> QED BY <1>3, <1>6, <2>3
<1> HIDE DEF D, n
<1> QED BY <1>5, <1>6, <1>7 DEF n

\* A query finds what agrees with it on the facets before its first gap.
LEMMA Region ==
  ASSUME NEW q, NEW g, NEW c
  PROVE  PrefixMatch(Derive(g, c), DerivePartial(q)) <=>
           \A f \in Facets : (\A x \in 1 .. f : Normalize(q)[x] # Missing) =>
                                Normalize(q)[f] = Normalize(g)[f]
<1> USE AddressAssumption
<1>1. PICK d \in 0 .. Depth :
           /\ DerivePartial(q) = SubSeq(Normalize(q), 1, d)
           /\ \A f \in 1 .. d : Normalize(q)[f] # Missing
           /\ d = Depth \/ Normalize(q)[d + 1] = Missing
  BY PartialPrefix
<1>2. PICK n, m : n = Normalize(q) /\ m = Normalize(g)
  OBVIOUS
<1>3. /\ n \in Seq({n[f] : f \in Facets}) /\ Len(n) = Depth
      /\ m \in Seq({m[f] : f \in Facets}) /\ Len(m) = Depth
  <2>1. \E u : n = [f \in 1 .. Depth |-> u[f]]
    <3> DEFINE u == [f \in Facets |-> [v \in {Canon[t] : t \in q[f]} \ {Blank} |->
                          Cardinality({t \in q[f] : Canon[t] = v})]]
    <3>1. n = u
      BY <1>2 DEF Normalize
    <3>2. n = [f \in 1 .. Depth |-> u[f]]
      <4>1. u = [f \in 1 .. Depth |-> u[f]]
        BY Zenon DEF Facets
      <4> QED BY <3>1, <4>1
    <3> HIDE DEF u
    <3> QED BY <3>2
  <2>2. \E u : m = [f \in 1 .. Depth |-> u[f]]
    <3> DEFINE u == [f \in Facets |-> [v \in {Canon[t] : t \in g[f]} \ {Blank} |->
                          Cardinality({t \in g[f] : Canon[t] = v})]]
    <3>1. m = u
      BY <1>2 DEF Normalize
    <3>2. m = [f \in 1 .. Depth |-> u[f]]
      <4>1. u = [f \in 1 .. Depth |-> u[f]]
        BY Zenon DEF Facets
      <4> QED BY <3>1, <4>1
    <3> HIDE DEF u
    <3> QED BY <3>2
  <2> QED BY <2>1, <2>2 DEF Facets
<1>4. PICK p : p = SubSeq(n, 1, d)
  OBVIOUS
<1>5. /\ p \in Seq({n[f] : f \in Facets}) /\ Len(p) = d
      /\ \A f \in 1 .. d : p[f] = n[f]
  BY <1>3, <1>4
<1>6. PrefixMatch(Derive(g, c), DerivePartial(q)) <=> IsPrefix(p, m)
  BY <1>1, <1>2, <1>4 DEF PrefixMatch, Derive
<1>7. IsPrefix(p, m) <=> \A f \in 1 .. d : n[f] = m[f]
  <2>1. IsPrefix(p, m) <=> p = SubSeq(m, 1, d)
    BY <1>3, <1>5 DEF IsPrefix
  <2>2. PICK r : r = SubSeq(m, 1, d)
    OBVIOUS
  <2>3. /\ r \in Seq({m[f] : f \in Facets}) /\ Len(r) = d
        /\ \A f \in 1 .. d : r[f] = m[f]
    BY <1>3, <2>2
  <2>4. p = r <=> \A f \in 1 .. d : p[f] = r[f]
    BY <1>5, <2>3
  <2> QED BY <1>5, <2>1, <2>2, <2>3, <2>4
<1>8. ASSUME NEW f \in Facets
      PROVE  (\A x \in 1 .. f : n[x] # Missing) <=> f \in 1 .. d
  <2>1. f \in 1 .. Depth
    BY DEF Facets
  <2>2. CASE f <= d
    BY <1>1, <1>2, <2>1, <2>2
  <2>3. CASE f > d
    <3>1. d + 1 \in 1 .. f /\ d # Depth
      BY <2>1, <2>3
    <3> QED BY <1>1, <1>2, <2>1, <2>3, <3>1
  <2> QED BY <2>1, <2>2, <2>3
<1>9. \A f \in 1 .. d : f \in Facets
  BY DEF Facets
<1> QED BY <1>2, <1>6, <1>7, <1>8, <1>9

\* The range of a sequence is what it lists.
LEMMA RangeIs ==
  ASSUME NEW t \in Seq(Entries), NEW e
  PROVE  e \in Range(t) <=> \E j \in 1 .. Len(t) : e = t[j]
<1>1. DOMAIN t = 1 .. Len(t)
  OBVIOUS
<1> QED BY <1>1, Zenon DEF Range

\* The first m of a sequence.
LEMMA Cutting ==
  ASSUME NEW r \in Seq(Entries), NEW m \in Nat, m <= Len(r), NEW t, t = SubSeq(r, 1, m)
  PROVE  t \in Seq(Entries) /\ Len(t) = m /\ \A j \in 1 .. m : t[j] = r[j]
OBVIOUS

\* The first n of r have different addresses; t begins as r does; A is what t lists.
Distinct(r, n) == \A i, j \in 1 .. n : r[i].address = r[j].address => i = j
Same(t, r, m) == \A j \in 1 .. m : t[j] = r[j]
Lists(A, t, m) == \A e : e \in A <=> \E j \in 1 .. m : e = t[j]
Addresses(A) == {e.address : e \in A}
Shortest(m, limit, n) == m = IF limit <= n THEN limit ELSE n

\* What is cut off at a limit leaves as many as the limit.
LEMMA CutAt ==
  ASSUME NEW r, NEW n \in Nat, NEW t, NEW m \in Nat, m <= n, NEW A,
         Distinct(r, n), Same(t, r, m), Lists(A, t, m)
  PROVE  Cardinality(Addresses(A)) = m
<1> USE DEF Distinct, Same, Lists
<1> DEFINE T == {e.address : e \in A}
           b == [j \in 1 .. m |-> t[j].address]
<1>1. \A j \in 1 .. m : b[j] = t[j].address
  OBVIOUS
<1>2. DOMAIN b = 1 .. m
  OBVIOUS
<1>3. ASSUME NEW j \in 1 .. m PROVE t[j].address \in T
  <2>1. t[j] \in A
    OBVIOUS
  <2> QED BY <2>1
<1>4. ASSUME NEW x \in T PROVE \E j \in 1 .. m : x = t[j].address
  <2>1. PICK e \in A : x = e.address
    OBVIOUS
  <2>2. PICK j \in 1 .. m : e = t[j]
    OBVIOUS
  <2> QED BY <2>1, <2>2
<1>5. b \in [1 .. m -> T]
  <2> HIDE DEF T
  <2> QED BY <1>3
<1> HIDE DEF b
<1>6. \A i, j \in 1 .. m : b[i] = b[j] => i = j
  <2>1. \A j \in 1 .. m : b[j] = r[j].address /\ j \in 1 .. n
    BY <1>1
  <2> QED BY <2>1
<1> HIDE DEF T
<1>7. b \in Injection(1 .. m, T)
  <2>1. IsInjective(b)
    BY <1>2, <1>6, Zenon DEF IsInjective
  <2> QED BY <1>5, <2>1 DEF Injection
<1>8. b \in Surjection(1 .. m, T)
  <2>1. ASSUME NEW x \in T PROVE \E j \in 1 .. m : b[j] = x
    <3>1. PICK j \in 1 .. m : x = t[j].address
      BY ONLY <1>4, x \in T
    <3>2. b[j] = x
      BY ONLY <1>1, <3>1, j \in 1 .. m
    <3> QED BY ONLY <3>2, j \in 1 .. m
  <2> QED BY <1>5, <2>1, Zenon DEF Surjection
<1>9. ExistsBijection(1 .. m, T)
  BY <1>7, <1>8 DEF ExistsBijection, Bijection
<1>10. Cardinality(T) = m
  BY <1>9, FS_CountingElements
<1> QED BY <1>10, Zenon DEF T, Addresses

\* The lesser of two numbers.
LEMMA MinOf ==
  ASSUME NEW a \in Nat, NEW b \in Nat
  PROVE  Min({a, b}) \in Nat /\ Min({a, b}) = IF a <= b THEN a ELSE b
<1>1. PICK m : m = Min({a, b})
  OBVIOUS
<1>2. \E x \in {a, b} : \A y \in {a, b} : x <= y
  <2>1. CASE a <= b
    <3>1. \A y \in {a, b} : a <= y
      BY <2>1
    <3> QED BY <3>1
  <2>2. CASE b <= a
    <3>1. \A y \in {a, b} : b <= y
      BY <2>2
    <3> QED BY <3>1
  <2> QED BY <2>1, <2>2
<1>3. m \in {a, b} /\ \A y \in {a, b} : m <= y
  BY <1>1, <1>2, Zenon DEF Min
<1>4. m <= a /\ m <= b /\ (m = a \/ m = b)
  BY <1>3
<1> QED BY <1>1, <1>4

\* Of a sequence of entries with different addresses, cut at a limit, all is left, or as
\* many addresses as the limit.
LEMMA Cut ==
  ASSUME NEW n \in Nat, NEW r, NEW limit \in Nat \ {0}, NEW m \in Nat,
         NEW t \in Seq(Entries), Len(t) = m,
         Distinct(r, n), Same(t, r, m), Shortest(m, limit, n)
  PROVE  /\ \A e \in Range(t) : \E j \in 1 .. n : e = r[j]
         /\ \/ \A j \in 1 .. n : r[j] \in Range(t)
            \/ Cardinality(Addresses(Range(t))) = limit
<1> USE DEF Shortest
<1>4. m <= n
  OBVIOUS
<1>6. \A j \in 1 .. m : j \in 1 .. n
  BY <1>4
<1>7. ASSUME NEW e
      PROVE  e \in Range(t) <=> \E j \in 1 .. m : e = t[j]
  BY RangeIs, Zenon
<1>8. ASSUME NEW e \in Range(t) PROVE \E j \in 1 .. n : e = r[j]
  <2>1. PICK j \in 1 .. m : e = t[j]
    BY <1>7
  <2>2. e = r[j] /\ j \in 1 .. n
    BY <1>6, <2>1 DEF Same
  <2> QED BY <2>2
<1>9. Cardinality(Addresses(Range(t))) = m
  <2>1. Lists(Range(t), t, m)
    BY <1>7 DEF Lists
  <2> QED BY <1>4, <2>1, CutAt
<1>10. CASE m = limit
  BY <1>8, <1>9, <1>10, Zenon
<1>11. CASE m = n
  <2>2. ASSUME NEW j \in 1 .. n PROVE r[j] \in Range(t)
    <3>1. j \in 1 .. m /\ t[j] = r[j]
      BY <1>11 DEF Same
    <3> QED BY <1>7, <3>1
  <2> QED BY <1>8, <2>2, Zenon
<1>12. m = limit \/ m = n
  OBVIOUS
<1> QED BY <1>10, <1>11, <1>12, Zenon

-----------------------------------------------------------------------------
(* The invariant.                                                           *)

Phases == {"idle", "work", "put", "query", "infer", "done"}
Statuses == {"idle", "running", "completed", "budget_exhausted", "error"}

State == [phase : Phases, agent : Ids \cup {None}, config : Configs \cup {None}, step : Nat,
          tokens : Nat, status : Statuses, calls : Seq(Calls), last : Nat,
          cause : {None, "thrown", "final", "exhausted", "failed"}]

\* Why a run ended.
Verdict(s) ==
  /\ s.status = "running" <=> s.cause = "thrown"
  /\ s.status = "error" <=> s.cause = "failed"
  /\ s.status = "budget_exhausted" => s.tokens >= s.config.tokenBudget
  /\ s.status = "completed" =>
        s.cause = "final" \/ (s.step = s.config.maxSteps /\ s.tokens < s.config.tokenBudget)

\* The bounds of a run: before a model call there were tokens left.
Bounds(s) ==
  /\ s.config \in Configs
  /\ s.step <= s.config.maxSteps
  /\ s.step > 0 => s.tokens - s.last < s.config.tokenBudget
  /\ s.phase = "infer" => s.step > 0 /\ s.tokens < s.config.tokenBudget
  /\ s.phase # "done" => s.status = "running"
  /\ s.phase = "done" => Verdict(s)

RequestOK(s) ==
  /\ s \in State
  /\ s.phase = "idle" => s.agent = None
  /\ s.phase \in {"put", "query"} => s.calls # <<>>
  /\ s.phase = "put" => Head(s.calls).tool = "remember"
  /\ s.phase = "infer" => s.agent # None
  /\ s.agent # None => Bounds(s)

RunsOK == run \in [Runs -> State] /\ \A r \in Runs : RequestOK(run[r])

Shown == [config : Configs, instance : Runs \cup {None}]

AgentsOK ==
  /\ agents \in [Ids -> {None} \cup Shown]
  /\ \A id \in Ids : (agents[id] # None /\ agents[id].instance # None) =>
        run[agents[id].instance].agent = id /\ run[agents[id].instance].phase # "idle"

\* The cache holds what the daemon once took, and everything this process stored.
MemoryOK ==
  /\ BookOK(cache)
  /\ \A i \in 1 .. Len(cache) : cache[i] \in accepted
  /\ daemon \subseteq accepted /\ accepted \subseteq Entries /\ IsFiniteSet(daemon)
  /\ \A m \in mine : \E i \in 1 .. Len(cache) : cache[i].address = m.address
  /\ mine \subseteq Entries

RuntimeIInv == RunsOK /\ AgentsOK /\ MemoryOK

\* A request that has not begun is in order.
LEMMA IdleOK == RequestOK(Idle) /\ Idle.phase = "idle"
<1>1. <<>> \in Seq(Calls)
  OBVIOUS
<1>2. Idle \in State
  BY <1>1 DEF Idle, State, Phases, Statuses
<1> QED BY <1>2 DEF RequestOK, Idle

\* The invariant holds at first.
LEMMA InitOK == Init => RuntimeIInv
<1> SUFFICES ASSUME Init PROVE RuntimeIInv
  OBVIOUS
<1>1. RunsOK
  BY IdleOK DEF Init, RunsOK, RequestOK
<1>2. AgentsOK
  BY DEF Init, AgentsOK
<1>3. MemoryOK
  BY FS_EmptySet DEF Init, MemoryOK, BookOK
<1> QED BY <1>1, <1>2, <1>3 DEF RuntimeIInv

-----------------------------------------------------------------------------
(* The steps of a request.                                                  *)

\* A request goes from one state to another that is in order, for the same agent.
Moves(s, t) == RequestOK(t) /\ t.agent = s.agent /\ t.phase # "idle"

\* A call is one the tools know, and what is remembered is an entry.
LEMMA Called ==
  ASSUME NEW s, RequestOK(s), s.phase \in {"work", "put", "query"}, s.calls # <<>>
  PROVE  /\ Head(s.calls) \in Calls /\ Tail(s.calls) \in Seq(Calls)
         /\ Head(s.calls).tool = "remember" => Head(s.calls).entry \in Entries
<1>1. PICK c \in Seq(Calls) : c = s.calls
  BY DEF RequestOK, State
<1>2. Head(c) \in Calls /\ Tail(c) \in Seq(Calls)
  BY <1>1
<1>3. ASSUME NEW x \in Calls, x.tool = "remember" PROVE x.entry \in Entries
  <2>1. CASE x \in Remember
    BY <2>1 DEF Remember, Entries
  <2>2. CASE x \in Recall \cup Reflect
    BY <1>3, <2>2 DEF Recall, Reflect
  <2>3. CASE x = [tool |-> "other"]
    BY <1>3, <2>3
  <2> QED BY <2>1, <2>2, <2>3 DEF Calls
<1> QED BY <1>1, <1>2, <1>3

\* Back to work, with the remaining calls.
LEMMA DoneMoves ==
  ASSUME NEW s, RequestOK(s), s.phase \in {"work", "put", "query"}, s.calls # <<>>,
         NEW t, t = [s EXCEPT !.phase = "work", !.calls = Tail(s.calls)]
  PROVE  Moves(s, t)
<1>1. Tail(s.calls) \in Seq(Calls)
  BY Called
<1>2. s \in State
  BY DEF RequestOK
<1>3. t \in State
  BY <1>1, <1>2 DEF State, Phases
<1>4. /\ t.phase = "work" /\ t.agent = s.agent /\ t.config = s.config /\ t.step = s.step
      /\ t.tokens = s.tokens /\ t.status = s.status /\ t.last = s.last
  BY <1>2 DEF State
<1>5. s.agent # None => Bounds(t)
  BY <1>4 DEF RequestOK, Bounds
<1> QED BY <1>3, <1>4, <1>5 DEF Moves, RequestOK

\* A call that throws ends the request, and leaves the status of its agent.
LEMMA ThrownMoves ==
  ASSUME NEW s, RequestOK(s), s.phase \in {"work", "put", "query"},
         NEW t, t = [s EXCEPT !.phase = "done", !.cause = "thrown", !.calls = <<>>]
  PROVE  Moves(s, t)
<1>1. <<>> \in Seq(Calls)
  OBVIOUS
<1>2. s \in State
  BY DEF RequestOK
<1>3. t \in State
  BY <1>1, <1>2 DEF State, Phases
<1>4. /\ t.phase = "done" /\ t.agent = s.agent /\ t.config = s.config /\ t.step = s.step
      /\ t.tokens = s.tokens /\ t.status = s.status /\ t.last = s.last /\ t.cause = "thrown"
  BY <1>2 DEF State
<1>5. s.agent # None => Bounds(t)
  BY <1>4 DEF RequestOK, Bounds, Verdict
<1> QED BY <1>3, <1>4, <1>5 DEF Moves, RequestOK

\* The call goes out.
LEMMA SentMoves ==
  ASSUME NEW s, RequestOK(s), s.phase = "work", s.calls # <<>>, NEW phase \in {"put", "query"},
         phase = "put" => Head(s.calls).tool = "remember",
         NEW t, t = [s EXCEPT !.phase = phase]
  PROVE  Moves(s, t)
<1>2. s \in State
  BY DEF RequestOK
<1>3. t \in State
  BY <1>2 DEF State, Phases
<1>4. /\ t.phase = phase /\ t.agent = s.agent /\ t.config = s.config /\ t.step = s.step
      /\ t.tokens = s.tokens /\ t.status = s.status /\ t.last = s.last /\ t.calls = s.calls
  BY <1>2 DEF State
<1>5. s.agent # None => Bounds(t)
  BY <1>4 DEF RequestOK, Bounds
<1> QED BY <1>3, <1>4, <1>5 DEF Moves, RequestOK

\* A request to the memory ends without a verdict.
LEMMA RespondMoves ==
  ASSUME NEW s, RequestOK(s), s.agent = None, NEW t, t = [s EXCEPT !.phase = "done"]
  PROVE  Moves(s, t)
<1>2. s \in State
  BY DEF RequestOK
<1>3. t \in State
  BY <1>2 DEF State, Phases
<1>4. t.phase = "done" /\ t.agent = s.agent
  BY <1>2 DEF State
<1> QED BY <1>3, <1>4 DEF Moves, RequestOK

\* A step begins within the bounds.
LEMMA NextStepMoves ==
  ASSUME NEW s, RequestOK(s), s.phase = "work", s.agent # None,
         s.step < s.config.maxSteps, s.tokens < s.config.tokenBudget,
         NEW t, t = [s EXCEPT !.phase = "infer", !.step = s.step + 1]
  PROVE  Moves(s, t)
<1>1. s.config \in Configs /\ s.config.maxSteps \in Nat /\ s.config.tokenBudget \in Nat
  BY RuntimeAssumption DEF RequestOK, Bounds
<1>2. s \in State /\ s.step \in Nat /\ s.tokens \in Nat /\ s.last \in Nat
  BY DEF RequestOK, State
<1>3. t \in State
  <2>1. PICK k \in Nat : k = s.step + 1
    BY <1>2
  <2>2. t = [s EXCEPT !.phase = "infer", !.step = k]
    BY <2>1
  <2> QED BY <1>2, <2>2 DEF State, Phases
<1>4. /\ t.phase = "infer" /\ t.agent = s.agent /\ t.config = s.config /\ t.step = s.step + 1
      /\ t.tokens = s.tokens /\ t.status = s.status /\ t.last = s.last
  BY <1>2 DEF State
<1>5. s.status = "running"
  BY DEF RequestOK, Bounds
<1>6. Bounds(t)
  BY <1>1, <1>2, <1>4, <1>5 DEF Bounds
<1> QED BY <1>3, <1>4, <1>6 DEF Moves, RequestOK

\* A run beyond its bounds ends with the verdict that says which.
LEMMA ExhaustedMoves ==
  ASSUME NEW s, RequestOK(s), s.phase = "work", s.agent # None,
         ~(s.step < s.config.maxSteps /\ s.tokens < s.config.tokenBudget),
         NEW t, t = [s EXCEPT !.phase = "done", !.cause = "exhausted",
                       !.status = IF s.tokens >= s.config.tokenBudget
                                  THEN "budget_exhausted" ELSE "completed"]
  PROVE  Moves(s, t)
<1>1. s.config \in Configs /\ s.config.maxSteps \in Nat /\ s.config.tokenBudget \in Nat
  BY RuntimeAssumption DEF RequestOK, Bounds
<1>2. s \in State /\ s.step \in Nat /\ s.tokens \in Nat /\ s.last \in Nat
  BY DEF RequestOK, State
<1>3. t \in State
  BY <1>2 DEF State, Phases, Statuses
<1>4. /\ t.phase = "done" /\ t.agent = s.agent /\ t.config = s.config /\ t.step = s.step
      /\ t.tokens = s.tokens /\ t.last = s.last /\ t.cause = "exhausted"
      /\ t.status = IF s.tokens >= s.config.tokenBudget THEN "budget_exhausted" ELSE "completed"
  BY <1>2 DEF State
<1>5. /\ s.step <= s.config.maxSteps
      /\ s.step > 0 => s.tokens - s.last < s.config.tokenBudget
  BY DEF RequestOK, Bounds
<1>6. Verdict(t)
  BY <1>1, <1>2, <1>4, <1>5 DEF Verdict
<1>7. Bounds(t)
  BY <1>1, <1>4, <1>5, <1>6 DEF Bounds
<1> QED BY <1>3, <1>4, <1>7 DEF Moves, RequestOK

\* A model that cannot be reached ends the run.
LEMMA FailedMoves ==
  ASSUME NEW s, RequestOK(s), s.phase = "infer",
         NEW t, t = [s EXCEPT !.phase = "done", !.cause = "failed", !.status = "error"]
  PROVE  Moves(s, t)
<1>2. s \in State
  BY DEF RequestOK
<1>3. t \in State
  BY <1>2 DEF State, Phases, Statuses
<1>4. /\ t.phase = "done" /\ t.agent = s.agent /\ t.config = s.config /\ t.step = s.step
      /\ t.tokens = s.tokens /\ t.last = s.last /\ t.cause = "failed" /\ t.status = "error"
  BY <1>2 DEF State
<1>5. Bounds(t)
  BY <1>4 DEF RequestOK, Bounds, Verdict
<1> QED BY <1>3, <1>4, <1>5 DEF Moves, RequestOK

\* The tokens of an answer are added, and it ends the run or goes on with its calls.
LEMMA InferMoves ==
  ASSUME NEW s, RequestOK(s), s.phase = "infer", NEW usage \in Nat, NEW calls \in Seq(Calls),
         NEW t, NEW counted, counted = [s EXCEPT !.tokens = s.tokens + usage, !.last = usage],
         \/ t = [counted EXCEPT !.phase = "done", !.status = "completed", !.cause = "final"]
         \/ t = [counted EXCEPT !.phase = "work", !.calls = calls]
  PROVE  Moves(s, t)
<1>1. s.config \in Configs /\ s.config.maxSteps \in Nat /\ s.config.tokenBudget \in Nat
  BY RuntimeAssumption DEF RequestOK, Bounds
<1>2. s \in State /\ s.step \in Nat /\ s.tokens \in Nat /\ s.last \in Nat
  BY DEF RequestOK, State
<1>3. counted \in State
  <2>1. PICK k \in Nat : k = s.tokens + usage
    BY <1>2
  <2>2. counted = [s EXCEPT !.tokens = k, !.last = usage]
    BY <2>1
  <2> QED BY <1>2, <2>2 DEF State
<1>4. /\ counted.agent = s.agent /\ counted.config = s.config /\ counted.step = s.step
      /\ counted.tokens = s.tokens + usage /\ counted.last = usage /\ counted.status = s.status
  BY <1>2 DEF State
<1>5. /\ s.step <= s.config.maxSteps /\ s.status = "running" /\ s.agent # None
      /\ s.tokens < s.config.tokenBudget
  BY DEF RequestOK, Bounds
<1>6. CASE t = [counted EXCEPT !.phase = "done", !.status = "completed", !.cause = "final"]
  <2>1. t \in State
    BY <1>3, <1>6 DEF State, Phases, Statuses
  <2>2. /\ t.phase = "done" /\ t.agent = s.agent /\ t.config = s.config /\ t.step = s.step
        /\ t.tokens = s.tokens + usage /\ t.last = usage /\ t.cause = "final"
        /\ t.status = "completed"
    BY <1>3, <1>4, <1>6 DEF State
  <2>3. Verdict(t)
    BY <2>2 DEF Verdict
  <2>4. Bounds(t)
    BY <1>1, <1>2, <1>5, <2>2, <2>3 DEF Bounds
  <2> QED BY <2>1, <2>2, <2>4 DEF Moves, RequestOK
<1>7. CASE t = [counted EXCEPT !.phase = "work", !.calls = calls]
  <2>1. t \in State
    BY <1>3, <1>7 DEF State, Phases
  <2>2. /\ t.phase = "work" /\ t.agent = s.agent /\ t.config = s.config /\ t.step = s.step
        /\ t.tokens = s.tokens + usage /\ t.last = usage /\ t.status = "running"
    BY <1>3, <1>4, <1>5, <1>7 DEF State
  <2>4. Bounds(t)
    BY <1>1, <1>2, <1>5, <2>2 DEF Bounds
  <2> QED BY <2>1, <2>2, <2>4 DEF Moves, RequestOK
<1> QED BY <1>6, <1>7

\* One request moves, and the others stay.
Advances(r) == \E t : Moves(run[r], t) /\ run' = [run EXCEPT ![r] = t]

\* The end of a call, either way, advances the request.
LEMMA ThrowsOrDone ==
  ASSUME RuntimeIInv, NEW r \in Runs, run[r].phase \in {"work", "put", "query"}, run[r].calls # <<>>
  PROVE  /\ run' = CallDone(r) => Advances(r)
         /\ run' = Thrown(r) => Advances(r)
<1> DEFINE s == run[r]
<1>1. RequestOK(s)
  BY DEF RuntimeIInv, RunsOK
<1>2. ASSUME run' = CallDone(r) PROVE Advances(r)
  <2>1. PICK t : t = [s EXCEPT !.phase = "work", !.calls = Tail(s.calls)]
    OBVIOUS
  <2>2. Moves(s, t)
    <3> HIDE DEF s
    <3>1. s.phase \in {"work", "put", "query"} /\ s.calls # <<>>
      BY DEF s
    <3> QED BY <1>1, <2>1, <3>1, DoneMoves
  <2>3. run' = [run EXCEPT ![r] = t]
    BY <1>2, <2>1 DEF CallDone, RuntimeIInv, RunsOK
  <2> QED BY <2>2, <2>3 DEF Advances
<1>3. ASSUME run' = Thrown(r) PROVE Advances(r)
  <2>1. PICK t : t = [s EXCEPT !.phase = "done", !.cause = "thrown", !.calls = <<>>]
    OBVIOUS
  <2>2. Moves(s, t)
    <3> HIDE DEF s
    <3>1. s.phase \in {"work", "put", "query"}
      BY DEF s
    <3> QED BY <1>1, <2>1, <3>1, ThrownMoves
  <2>3. run' = [run EXCEPT ![r] = t]
    BY <1>3, <2>1 DEF Thrown, RuntimeIInv, RunsOK
  <2> QED BY <2>2, <2>3 DEF Advances
<1> QED BY <1>2, <1>3

\* Every step of a request advances it, and changes no agent's entry.
LEMMA StepAdvances ==
  ASSUME RuntimeIInv, NEW r \in Runs, Step(r)
  PROVE  Advances(r) /\ run[r].phase # "idle" /\ agents' = agents
<1> DEFINE s == run[r]
<1>1. RequestOK(s) /\ s \in State
  BY DEF RuntimeIInv, RunsOK, RequestOK
<1>2. run \in [Runs -> State]
  BY DEF RuntimeIInv, RunsOK
<1>3. CASE OtherTool(r)
  <2>1. run[r].phase = "work" /\ run[r].calls # <<>> /\ run' = CallDone(r) /\ agents' = agents
    BY <1>3 DEF OtherTool, Working
  <2> QED BY <2>1, ThrowsOrDone
<1>4. CASE RecallCall(r)
  <2>1. run[r].phase = "work" /\ run[r].calls # <<>> /\ agents' = agents
    BY <1>4 DEF RecallCall, Working
  <2>2. CASE run' = CallDone(r)
    BY <2>1, <2>2, ThrowsOrDone
  <2>3. CASE run' = [run EXCEPT ![r].phase = "query"]
    <3>1. PICK t : t = [s EXCEPT !.phase = "query"]
      OBVIOUS
    <3>2. PICK phase \in {"put", "query"} : phase = "query"
      OBVIOUS
    <3>3. Moves(s, t)
      <4>1. t = [s EXCEPT !.phase = phase]
        BY <3>1, <3>2
      <4>2. phase = "put" => Head(s.calls).tool = "remember"
        BY <3>2
      <4>3. s.phase = "work" /\ s.calls # <<>>
        BY <2>1
      <4> HIDE DEF s
      <4> QED BY <1>1, <4>1, <4>2, <4>3, SentMoves
    <3>4. run' = [run EXCEPT ![r] = t]
      BY <1>2, <2>3, <3>1
    <3> QED BY <2>1, <3>3, <3>4 DEF Advances
  <2> QED BY <1>4, <2>2, <2>3 DEF RecallCall
<1>5. CASE QueryAnswered(r)
  <2>1. run[r].phase = "query" /\ run' = CallDone(r) /\ agents' = agents
    BY <1>5 DEF QueryAnswered
  <2> QED BY <1>1, <2>1, ThrowsOrDone DEF RequestOK
<1>6. CASE QueryFails(r)
  <2>1. run[r].phase = "query" /\ (run' = CallDone(r) \/ run' = Thrown(r)) /\ agents' = agents
    BY <1>6 DEF QueryFails
  <2> QED BY <1>1, <2>1, ThrowsOrDone DEF RequestOK
<1>7. CASE StoreCall(r)
  <2>1. /\ run[r].phase = "work" /\ run[r].calls # <<>> /\ agents' = agents
        /\ Head(run[r].calls).tool = "remember" /\ run' = [run EXCEPT ![r].phase = "put"]
    BY <1>7 DEF StoreCall, Working
  <2>2. PICK t : t = [s EXCEPT !.phase = "put"]
    OBVIOUS
  <2>3. PICK phase \in {"put", "query"} : phase = "put"
    OBVIOUS
  <2>4. Moves(s, t)
    <3>1. t = [s EXCEPT !.phase = phase]
      BY <2>2, <2>3
    <3>2. s.phase = "work" /\ s.calls # <<>> /\ Head(s.calls).tool = "remember"
      BY <2>1
    <3> HIDE DEF s
    <3> QED BY <1>1, <3>1, <3>2, SentMoves
  <2>5. run' = [run EXCEPT ![r] = t]
    BY <1>2, <2>1, <2>2
  <2> QED BY <2>1, <2>4, <2>5 DEF Advances
<1>8. CASE PutAnswered(r)
  <2>1. run[r].phase = "put" /\ run' = CallDone(r) /\ agents' = agents
    BY <1>8 DEF PutAnswered
  <2> QED BY <1>1, <2>1, ThrowsOrDone DEF RequestOK
<1>9. CASE PutFails(r)
  <2>1. run[r].phase = "put" /\ run' = Thrown(r) /\ agents' = agents
    BY <1>9 DEF PutFails
  <2> QED BY <1>1, <2>1, ThrowsOrDone DEF RequestOK
<1>10. CASE Respond(r)
  <2>1. /\ run[r].phase = "work" /\ run[r].agent = None /\ agents' = agents
        /\ run' = [run EXCEPT ![r].phase = "done"]
    BY <1>10 DEF Respond
  <2>2. PICK t : t = [s EXCEPT !.phase = "done"]
    OBVIOUS
  <2>3. Moves(s, t)
    <3>1. s.agent = None
      BY <2>1
    <3> HIDE DEF s
    <3> QED BY <1>1, <2>2, <3>1, RespondMoves
  <2>4. run' = [run EXCEPT ![r] = t]
    BY <1>2, <2>1, <2>2
  <2> QED BY <2>1, <2>3, <2>4 DEF Advances
<1>11. CASE NextStep(r)
  <2>1. /\ s.phase = "work" /\ s.agent # None /\ agents' = agents
        /\ s.step < s.config.maxSteps /\ s.tokens < s.config.tokenBudget
        /\ run' = [run EXCEPT ![r].phase = "infer", ![r].step = @ + 1]
    BY <1>11 DEF NextStep, AtLoop, WithinBounds
  <2>2. PICK t : t = [s EXCEPT !.phase = "infer", !.step = s.step + 1]
    OBVIOUS
  <2>4. run' = [run EXCEPT ![r] = t]
    BY <1>2, <2>1, <2>2 DEF State
  <2>5. s.phase # "idle"
    BY <2>1
  <2> HIDE DEF s
  <2>3. Moves(s, t)
    BY <1>1, <2>1, <2>2, NextStepMoves
  <2> QED BY <2>1, <2>3, <2>4, <2>5 DEF Advances, s
<1>12. CASE Exhausted(r)
  <2>1. /\ s.phase = "work" /\ s.agent # None /\ agents' = agents
        /\ ~(s.step < s.config.maxSteps /\ s.tokens < s.config.tokenBudget)
    BY <1>12 DEF Exhausted, AtLoop, WithinBounds
  <2>6. PICK status : status = IF s.tokens >= s.config.tokenBudget
                               THEN "budget_exhausted" ELSE "completed"
    OBVIOUS
  <2>7. run' = [run EXCEPT ![r].phase = "done", ![r].status = status, ![r].cause = "exhausted"]
    BY <1>12, <2>6 DEF Exhausted, Finished
  <2>2. PICK t : t = [s EXCEPT !.phase = "done", !.cause = "exhausted", !.status = status]
    OBVIOUS
  <2>4. run' = [run EXCEPT ![r] = t]
    BY <1>1, <1>2, <2>2, <2>7 DEF State
  <2>5. s.phase # "idle"
    BY <2>1
  <2> HIDE DEF s
  <2>3. Moves(s, t)
    BY <1>1, <2>1, <2>2, <2>6, ExhaustedMoves
  <2> QED BY <2>1, <2>3, <2>4, <2>5 DEF Advances, s
<1>13. ASSUME NEW provider \in {"openai", "anthropic"}, Infer(r, provider)
       PROVE  Advances(r) /\ run[r].phase # "idle" /\ agents' = agents
  <2>1. s.phase = "infer" /\ agents' = agents
    BY <1>13 DEF Infer
  <2>2. PICK a \in Complete(provider) :
          LET final == a.finish = "stop" \/ (a.calls = <<>> /\ a.content)
              counted == [run EXCEPT ![r].tokens = @ + a.usage, ![r].last = a.usage]
          IN  run' = IF final
                     THEN [counted EXCEPT ![r].phase = "done", ![r].status = "completed",
                                          ![r].cause = "final"]
                     ELSE [counted EXCEPT ![r].phase = "work", ![r].calls = a.calls]
    BY <1>13 DEF Infer
  <2>3. a.usage \in Nat /\ a.calls \in Seq(Calls)
    <3>1. a \in Results
      BY DEF Complete, OpenAiComplete, AnthropicComplete
    <3> QED BY <3>1, RuntimeAssumption DEF Results
  <2>4. PICK usage \in Nat, calls \in Seq(Calls) : usage = a.usage /\ calls = a.calls
    BY <2>3
  <2>5. PICK counted : counted = [s EXCEPT !.tokens = s.tokens + usage, !.last = usage]
    OBVIOUS
  <2>6. PICK runs : runs = [run EXCEPT ![r].tokens = @ + a.usage, ![r].last = a.usage]
    OBVIOUS
  <2>7. runs = [run EXCEPT ![r] = counted]
    BY <1>1, <1>2, <2>4, <2>5, <2>6 DEF State
  <2>8. \/ run' = [runs EXCEPT ![r].phase = "done", ![r].status = "completed", ![r].cause = "final"]
        \/ run' = [runs EXCEPT ![r].phase = "work", ![r].calls = calls]
    BY <2>2, <2>4, <2>6
  <2>9. runs[r] = counted /\ DOMAIN runs = Runs /\ DOMAIN run = Runs
        /\ \A x \in Runs : x # r => runs[x] = run[x]
    BY <1>2, <2>7
  <2>10. ASSUME NEW t, run' = [runs EXCEPT ![r] = t] PROVE run' = [run EXCEPT ![r] = t]
    BY <1>2, <2>7, <2>10
  <2>11. \/ run' = [runs EXCEPT ![r] = [counted EXCEPT !.phase = "done", !.status = "completed",
                                                       !.cause = "final"]]
         \/ run' = [runs EXCEPT ![r] = [counted EXCEPT !.phase = "work", !.calls = calls]]
    BY <2>8, <2>9
  <2>12. s.phase # "idle"
    BY <2>1
  <2> HIDE DEF s
  <2>13. CASE run' = [runs EXCEPT ![r] = [counted EXCEPT !.phase = "done", !.status = "completed",
                                                         !.cause = "final"]]
    <3>1. PICK t : t = [counted EXCEPT !.phase = "done", !.status = "completed", !.cause = "final"]
      OBVIOUS
    <3>4. \/ t = [counted EXCEPT !.phase = "done", !.status = "completed", !.cause = "final"]
          \/ t = [counted EXCEPT !.phase = "work", !.calls = calls]
      BY <3>1
    <3>2. Moves(s, t)
      BY <1>1, <2>1, <2>5, <3>4, InferMoves
    <3>3. run' = [run EXCEPT ![r] = t]
      BY <2>10, <2>13, <3>1
    <3> QED BY <2>1, <2>12, <3>2, <3>3 DEF Advances, s
  <2>14. CASE run' = [runs EXCEPT ![r] = [counted EXCEPT !.phase = "work", !.calls = calls]]
    <3>1. PICK t : t = [counted EXCEPT !.phase = "work", !.calls = calls]
      OBVIOUS
    <3>4. \/ t = [counted EXCEPT !.phase = "done", !.status = "completed", !.cause = "final"]
          \/ t = [counted EXCEPT !.phase = "work", !.calls = calls]
      BY <3>1
    <3>2. Moves(s, t)
      BY <1>1, <2>1, <2>5, <3>4, InferMoves
    <3>3. run' = [run EXCEPT ![r] = t]
      BY <2>10, <2>14, <3>1
    <3> QED BY <2>1, <2>12, <3>2, <3>3 DEF Advances, s
  <2> QED BY <2>11, <2>13, <2>14
<1>14. CASE InferFails(r)
  <2>1. /\ s.phase = "infer" /\ agents' = agents
        /\ run' = [run EXCEPT ![r].phase = "done", ![r].status = "error", ![r].cause = "failed"]
    BY <1>14 DEF InferFails, Finished
  <2>2. PICK t : t = [s EXCEPT !.phase = "done", !.cause = "failed", !.status = "error"]
    OBVIOUS
  <2>4. run' = [run EXCEPT ![r] = t]
    BY <1>1, <1>2, <2>1, <2>2 DEF State
  <2>5. s.phase # "idle"
    BY <2>1
  <2> HIDE DEF s
  <2>3. Moves(s, t)
    BY <1>1, <2>1, <2>2, FailedMoves
  <2> QED BY <2>1, <2>3, <2>4, <2>5 DEF Advances, s
<1> QED BY <1>3, <1>4, <1>5, <1>6, <1>7, <1>8, <1>9, <1>10, <1>11, <1>12, <1>13, <1>14, Zenon DEF Step

\* What a step does to the requests: each is in order, and keeps its agent once started.
LEMMA RunsAdvance ==
  ASSUME RuntimeIInv, NEW r \in Runs, Advances(r)
  PROVE  /\ RunsOK'
         /\ \A x \in Runs : run[x].phase # "idle" =>
               run'[x].agent = run[x].agent /\ run'[x].phase # "idle"
<1>1. run \in [Runs -> State] /\ \A x \in Runs : RequestOK(run[x])
  BY DEF RuntimeIInv, RunsOK
<1>2. PICK t : Moves(run[r], t) /\ run' = [run EXCEPT ![r] = t]
  BY DEF Advances
<1>3. RequestOK(t) /\ t \in State /\ t.agent = run[r].agent /\ t.phase # "idle"
  BY <1>2 DEF Moves, RequestOK
<1>4. \A x \in Runs : run'[x] = IF x = r THEN t ELSE run[x]
  BY <1>1, <1>2
<1>5. run' \in [Runs -> State]
  BY <1>1, <1>2, <1>3
<1>6. RunsOK'
  <2>1. \A x \in Runs : RequestOK(run'[x])
    BY <1>1, <1>3, <1>4
  <2>2. RunsOK' = (run' \in [Runs -> State] /\ \A x \in Runs : RequestOK(run'[x]))
    BY DEF RunsOK
  <2> QED BY <1>5, <2>1, <2>2
<1>7. \A x \in Runs : run[x].phase # "idle" =>
               run'[x].agent = run[x].agent /\ run'[x].phase # "idle"
  BY <1>3, <1>4
<1> QED BY <1>6, <1>7

\* Runs that keep their agents keep the instances shown.
LEMMA AgentsStay ==
  ASSUME AgentsOK, agents' = agents,
         \A x \in Runs : run[x].phase # "idle" =>
               run'[x].agent = run[x].agent /\ run'[x].phase # "idle"
  PROVE  AgentsOK'
<1>1. ASSUME NEW id \in Ids, agents[id] # None, agents[id].instance # None
      PROVE  run'[agents[id].instance].agent = id /\ run'[agents[id].instance].phase # "idle"
  <2>1. agents[id].instance \in Runs
    BY <1>1 DEF AgentsOK, Shown
  <2> QED BY <1>1, <2>1 DEF AgentsOK
<1> QED BY <1>1 DEF AgentsOK

\* A step of a request preserves what is said of requests and agents.
LEMMA StepRuns ==
  ASSUME RuntimeIInv, NEW r \in Runs, Step(r)
  PROVE  RunsOK' /\ AgentsOK'
<1>1. Advances(r) /\ agents' = agents
  BY StepAdvances
<1>2. /\ RunsOK'
      /\ \A x \in Runs : run[x].phase # "idle" =>
            run'[x].agent = run[x].agent /\ run'[x].phase # "idle"
  BY <1>1, RunsAdvance
<1>3. AgentsOK
  BY DEF RuntimeIInv
<1> QED BY <1>1, <1>2, <1>3, AgentsStay

-----------------------------------------------------------------------------
(* The memory.                                                              *)

\* An entry is added to the book or takes the place of the one with its address.
LEMMA BookGrows ==
  ASSUME MemoryOK, NEW S, Extends(cache, cache', S), S \subseteq accepted',
         accepted \subseteq accepted',
         daemon' \subseteq accepted', accepted' \subseteq Entries, IsFiniteSet(daemon'),
         mine' \subseteq Entries,
         \A m \in mine' : m \in mine \/ \E j \in 1 .. Len(cache') : cache'[j].address = m.address
  PROVE  MemoryOK'
<1>1. BookOK(cache')
  BY DEF Extends
<1>2. ASSUME NEW j \in 1 .. Len(cache') PROVE cache'[j] \in accepted'
  <2>1. cache'[j] \in S \/ \E i \in 1 .. Len(cache) : cache'[j] = cache[i]
    BY DEF Extends
  <2>2. \A i \in 1 .. Len(cache) : cache[i] \in accepted
    BY DEF MemoryOK
  <2> QED BY <2>1, <2>2
<1>3. ASSUME NEW m \in mine'
      PROVE  \E j \in 1 .. Len(cache') : cache'[j].address = m.address
  <2>1. CASE m \in mine
    <3>1. PICK i \in 1 .. Len(cache) : cache[i].address = m.address
      BY <2>1 DEF MemoryOK
    <3>2. PICK j \in 1 .. Len(cache') : cache'[j].address = cache[i].address
      BY DEF Extends
    <3> QED BY <3>1, <3>2
  <2> QED BY <2>1
<1> QED BY <1>1, <1>2, <1>3 DEF MemoryOK

\* What the daemon takes it once took.
LEMMA TakenEntry ==
  ASSUME MemoryOK, NEW e \in Entries, Taken(e)
  PROVE  /\ e \in accepted' /\ accepted \subseteq accepted' /\ accepted' \subseteq Entries
         /\ daemon' \subseteq accepted' /\ IsFiniteSet(daemon')
<1> DEFINE kept == {d \in daemon : d.address # e.address}
<1>1. daemon' = kept \cup {e} /\ accepted' = accepted \cup {e}
  BY DEF Taken
<1>2. IsFiniteSet(kept)
  <2>1. kept \in SUBSET daemon
    OBVIOUS
  <2> HIDE DEF kept
  <2> QED BY <2>1, FS_Subset DEF MemoryOK
<1>3. kept \subseteq daemon
  OBVIOUS
<1> HIDE DEF kept
<1>4. IsFiniteSet(daemon')
  BY <1>1, <1>2, FS_AddElement
<1> QED BY <1>1, <1>3, <1>4 DEF MemoryOK

\* A step that leaves the memory alone preserves what is said of it.
LEMMA MemoryStays ==
  ASSUME MemoryOK, UNCHANGED <<cache, daemon, accepted, mine>>
  PROVE  MemoryOK'
BY DEF MemoryOK

\* A step of a request preserves what is said of the memory.
LEMMA StepMemory ==
  ASSUME RuntimeIInv, NEW r \in Runs, Step(r)
  PROVE  MemoryOK'
<1> DEFINE s == run[r]
<1>1. RequestOK(s) /\ MemoryOK
  BY DEF RuntimeIInv, RunsOK
<1>2. \/ QueryAnswered(r) \/ PutAnswered(r) \/ PutFails(r)
      \/ UNCHANGED <<cache, daemon, accepted, mine>>
  BY DEF Step, OtherTool, RecallCall, QueryFails, StoreCall, Respond, NextStep, Exhausted,
         Infer, InferFails
<1>3. s.phase = "put" => Head(s.calls).entry \in Entries
  <2>1. s.phase = "put" => s.calls # <<>> /\ Head(s.calls).tool = "remember"
    BY <1>1 DEF RequestOK
  <2> HIDE DEF s
  <2> QED BY <1>1, <2>1, Called
<1>4. CASE QueryAnswered(r)
  <2>1. PICK found \in SUBSET daemon :
          \E answer \in SetToSeqs(found) : cache' = BookPutAll(cache, answer)
    BY <1>4 DEF QueryAnswered
  <2>12. PICK answer \in SetToSeqs(found) : cache' = BookPutAll(cache, answer)
    BY <2>1
  <2>2. IsFiniteSet(found) /\ found \subseteq accepted /\ accepted \subseteq Entries
    BY <1>1, FS_Subset DEF MemoryOK
  <2>3. PICK k \in Nat : k = Cardinality(found)
    BY <2>2, FS_CardinalityType
  <2>4. answer \in [1 .. k -> found]
    BY <2>3 DEF SetToSeqs
  <2>5. Len(answer) = k /\ \A i \in 1 .. k : answer[i] \in Entries /\ answer[i] \in accepted
    BY <2>2, <2>4
  <2>6. Extends(cache, BookPutAll(cache, answer), {answer[i] : i \in 1 .. k})
    BY <1>1, <2>5, PutAll DEF MemoryOK
  <2>7. {answer[i] : i \in 1 .. k} \subseteq accepted
    BY <2>5
  <2>8. daemon' = daemon /\ accepted' = accepted /\ mine' = mine
    BY <1>4 DEF QueryAnswered
  <2>9. PICK S : S = {answer[i] : i \in 1 .. k}
    OBVIOUS
  <2>10. Extends(cache, cache', S) /\ S \subseteq accepted'
    BY <2>6, <2>7, <2>8, <2>9, <2>12
  <2>11. /\ daemon' \subseteq accepted' /\ accepted' \subseteq Entries /\ IsFiniteSet(daemon')
         /\ mine' \subseteq Entries
    BY <1>1, <2>8 DEF MemoryOK
  <2> QED BY <1>1, <2>8, <2>10, <2>11, BookGrows
<1>5. CASE PutAnswered(r)
  <2>1. PICK e : e = Head(s.calls).entry
    OBVIOUS
  <2>2. e \in Entries /\ Taken(e) /\ cache' = BookPut(cache, e) /\ mine' = mine \cup {e}
    BY <1>3, <1>5, <2>1 DEF PutAnswered
  <2>3. /\ Extends(cache, cache', {e})
        /\ \E i \in 1 .. Len(cache') : cache'[i] = e
    BY <1>1, <2>2, PutOne DEF MemoryOK
  <2>4. /\ {e} \subseteq accepted' /\ accepted \subseteq accepted' /\ accepted' \subseteq Entries
        /\ daemon' \subseteq accepted' /\ IsFiniteSet(daemon')
    BY <1>1, <2>2, TakenEntry
  <2>5. mine' \subseteq Entries
    BY <1>1, <2>2 DEF MemoryOK
  <2>6. \A m \in mine' : m \in mine \/ \E j \in 1 .. Len(cache') : cache'[j].address = m.address
    BY <2>2, <2>3
  <2> QED BY <1>1, <2>3, <2>4, <2>5, <2>6, BookGrows
<1>6. CASE PutFails(r)
  <2>1. PICK e : e = Head(s.calls).entry
    OBVIOUS
  <2>2. /\ e \in Entries /\ (Taken(e) \/ UNCHANGED <<daemon, accepted>>)
        /\ cache' = cache /\ mine' = mine
    BY <1>3, <1>6, <2>1 DEF PutFails
  <2>3. CASE Taken(e)
    <3>1. /\ accepted \subseteq accepted' /\ accepted' \subseteq Entries
          /\ daemon' \subseteq accepted' /\ IsFiniteSet(daemon')
      BY <1>1, <2>2, <2>3, TakenEntry
    <3> QED BY <1>1, <2>2, <3>1 DEF MemoryOK
  <2>4. CASE UNCHANGED <<daemon, accepted>>
    BY <1>1, <2>2, <2>4, MemoryStays
  <2> QED BY <2>2, <2>3, <2>4
<1>7. CASE UNCHANGED <<cache, daemon, accepted, mine>>
  BY <1>1, <1>7, MemoryStays
<1> QED BY <1>2, <1>4, <1>5, <1>6, <1>7

\* A sequence of one call.
LEMMA PutInSeq ==
  ASSUME NEW S, NEW x \in S
  PROVE  <<x>> \in Seq(S)
OBVIOUS

-----------------------------------------------------------------------------
(* The invariant is one.                                                    *)

\* The invariant holds in every state: one step per action.
LEMMA RuntimeInvariant == Spec => []RuntimeIInv
<1>1. ASSUME RuntimeIInv, [Next]_vars PROVE RuntimeIInv'
  <2>1. RunsOK /\ AgentsOK /\ MemoryOK
    BY <1>1 DEF RuntimeIInv
  <2>2. ASSUME NEW id \in Ids, NEW c \in Configs, CreateAgent(id, c) PROVE RuntimeIInv'
    <3>1. RunsOK' /\ MemoryOK'
      BY <2>1, <2>2, MemoryStays DEF CreateAgent, RunsOK
    <3>2. AgentsOK'
      BY <2>1, <2>2 DEF CreateAgent, AgentsOK, Shown
    <3> QED BY <3>1, <3>2 DEF RuntimeIInv
  <2>3. ASSUME NEW r \in Runs, NEW id \in Ids, NEW q \in Queries, RunTask(r, id, q)
        PROVE  RuntimeIInv'
    <3>1. /\ run[r].phase = "idle" /\ agents[id] # None
          /\ agents' = [agents EXCEPT ![id].instance = r]
          /\ run' = [run EXCEPT ![r] = [Idle EXCEPT !.phase = "work", !.agent = id,
                  !.config = agents[id].config, !.status = "running",
                  !.calls = <<[tool |-> "recall", grammar |-> ParseDescription(q)]>>]]
          /\ UNCHANGED <<cache, daemon, accepted, mine>>
      BY <2>3 DEF RunTask
    <3>2. agents[id] \in Shown
      BY <2>1, <3>1 DEF AgentsOK
    <3>3. PICK config \in Configs : config = agents[id].config
      BY <3>2 DEF Shown
    <3>4. PICK calls : calls = <<[tool |-> "recall", grammar |-> ParseDescription(q)]>>
      OBVIOUS
    <3>5. calls \in Seq(Calls)
      <4>1. [tool |-> "recall", grammar |-> ParseDescription(q)] \in Calls
        BY DEF Calls, Reflect
      <4> QED BY <3>4, <4>1
    <3>6. PICK t : t = [Idle EXCEPT !.phase = "work", !.agent = id, !.config = config,
                                    !.status = "running", !.calls = calls]
      OBVIOUS
    <3>7. run' = [run EXCEPT ![r] = t]
      BY <3>1, <3>3, <3>4, <3>6
    <3>8. t \in State
      BY <3>5, <3>6 DEF Idle, State, Phases, Statuses
    <3>9. /\ t.phase = "work" /\ t.agent = id /\ t.config = config /\ t.step = 0
          /\ t.status = "running"
      BY <3>6 DEF Idle
    <3>10. config.maxSteps \in Nat
      BY RuntimeAssumption
    <3>11. Bounds(t)
      BY <3>9, <3>10 DEF Bounds
    <3>12. RequestOK(t)
      BY <3>8, <3>9, <3>11 DEF RequestOK
    <3>13. \A x \in Runs : run'[x] = IF x = r THEN t ELSE run[x]
      BY <2>1, <3>7 DEF RunsOK
    <3>14. RunsOK'
      <4>1. run' \in [Runs -> State]
        BY <2>1, <3>7, <3>8 DEF RunsOK
      <4>2. \A x \in Runs : RequestOK(run'[x])
        BY <2>1, <3>12, <3>13 DEF RunsOK
      <4>3. RunsOK' = (run' \in [Runs -> State] /\ \A x \in Runs : RequestOK(run'[x]))
        BY DEF RunsOK
      <4> QED BY <4>1, <4>2, <4>3
    <3>15. AgentsOK'
      <4>1. /\ DOMAIN agents' = Ids /\ agents'[id] \in Shown /\ agents'[id].instance = r
            /\ \A x \in Ids : x # id => agents'[x] = agents[x]
        BY <2>1, <3>1, <3>2 DEF AgentsOK, Shown
      <4>2. agents' \in [Ids -> {None} \cup Shown]
        BY <2>1, <3>1, <4>1 DEF AgentsOK
      <4>3. ASSUME NEW x \in Ids, agents'[x] # None, agents'[x].instance # None
            PROVE  /\ run'[agents'[x].instance].agent = x
                   /\ run'[agents'[x].instance].phase # "idle"
        <5>1. CASE x = id
          BY <3>9, <3>13, <4>1, <5>1
        <5>2. CASE x # id
          <6>1. agents[x] # None /\ agents[x].instance # None /\ agents'[x] = agents[x]
            BY <4>1, <4>3, <5>2
          <6>2. /\ agents[x].instance \in Runs
                /\ run[agents[x].instance].agent = x /\ run[agents[x].instance].phase # "idle"
            BY <2>1, <6>1 DEF AgentsOK, Shown
          <6>3. agents[x].instance # r
            BY <3>1, <6>2
          <6> QED BY <3>13, <6>1, <6>2, <6>3
        <5> QED BY <5>1, <5>2
      <4> QED BY <4>2, <4>3 DEF AgentsOK
    <3>16. MemoryOK'
      BY <2>1, <3>1, MemoryStays
    <3> QED BY <3>14, <3>15, <3>16 DEF RuntimeIInv
  <2>4. ASSUME NEW r \in Runs, NEW call \in Remember \cup Recall, ServeMemory(r, call)
        PROVE  RuntimeIInv'
    <3>1. /\ run[r].phase = "idle" /\ agents' = agents
          /\ run' = [run EXCEPT ![r].phase = "work", ![r].calls = <<call>>]
          /\ UNCHANGED <<cache, daemon, accepted, mine>>
      BY <2>4 DEF ServeMemory
    <3>2. PICK calls \in Seq(Calls) : calls = <<call>>
      <4>1. call \in Calls
        BY DEF Calls
      <4>2. <<call>> \in Seq(Calls)
        BY <4>1, PutInSeq
      <4> QED BY <4>2
    <3>3. PICK t : t = [run[r] EXCEPT !.phase = "work", !.calls = calls]
      OBVIOUS
    <3>4. run' = [run EXCEPT ![r] = t]
      BY <2>1, <3>1, <3>2, <3>3 DEF RunsOK, State
    <3>5. /\ t \in State /\ t.phase = "work" /\ t.agent = None
      BY <2>1, <3>1, <3>3 DEF RunsOK, RequestOK, State, Phases
    <3>6. RequestOK(t)
      BY <3>5 DEF RequestOK
    <3>7. \A x \in Runs : run'[x] = IF x = r THEN t ELSE run[x]
      BY <2>1, <3>4 DEF RunsOK
    <3>8. RunsOK'
      <4>1. run' \in [Runs -> State]
        BY <2>1, <3>4, <3>5 DEF RunsOK
      <4>2. \A x \in Runs : RequestOK(run'[x])
        BY <2>1, <3>6, <3>7 DEF RunsOK
      <4>3. RunsOK' = (run' \in [Runs -> State] /\ \A x \in Runs : RequestOK(run'[x]))
        BY DEF RunsOK
      <4> QED BY <4>1, <4>2, <4>3
    <3>9. \A x \in Runs : run[x].phase # "idle" =>
               run'[x].agent = run[x].agent /\ run'[x].phase # "idle"
      BY <3>1, <3>7
    <3>10. AgentsOK'
      BY <2>1, <3>1, <3>9, AgentsStay
    <3>11. MemoryOK'
      BY <2>1, <3>1, MemoryStays
    <3> QED BY <3>8, <3>10, <3>11 DEF RuntimeIInv
  <2>5. ASSUME NEW r \in Runs, Step(r) PROVE RuntimeIInv'
    BY <1>1, <2>5, StepRuns, StepMemory DEF RuntimeIInv
  <2>6. CASE RuntimeRestart
    <3>1. /\ agents' = [id \in Ids |-> None] /\ run' = [r \in Runs |-> Idle]
          /\ cache' = <<>> /\ mine' = {} /\ daemon' = daemon /\ accepted' = accepted
      BY <2>6 DEF RuntimeRestart
    <3>2. RunsOK'
      <4>1. run' \in [Runs -> State] /\ \A x \in Runs : RequestOK(run'[x])
        BY <3>1, IdleOK DEF RequestOK
      <4>2. RunsOK' = (run' \in [Runs -> State] /\ \A x \in Runs : RequestOK(run'[x]))
        BY DEF RunsOK
      <4> QED BY <4>1, <4>2
    <3>3. AgentsOK'
      BY <3>1 DEF AgentsOK
    <3>4. MemoryOK'
      BY <2>1, <3>1 DEF MemoryOK, BookOK
    <3> QED BY <3>2, <3>3, <3>4 DEF RuntimeIInv
  <2>7. CASE DaemonRestart
    <3>1. daemon' = {} /\ UNCHANGED <<agents, run, cache, accepted, mine>>
      BY <2>7 DEF DaemonRestart
    <3>2. MemoryOK'
      BY <2>1, <3>1, FS_EmptySet DEF MemoryOK
    <3>3. RunsOK' /\ AgentsOK'
      BY <2>1, <3>1 DEF RunsOK, AgentsOK
    <3> QED BY <3>2, <3>3 DEF RuntimeIInv
  <2>8. CASE UNCHANGED vars
    <3>1. MemoryOK'
      BY <2>1, <2>8, MemoryStays DEF vars
    <3>2. RunsOK' /\ AgentsOK'
      BY <2>1, <2>8 DEF vars, RunsOK, AgentsOK
    <3> QED BY <3>1, <3>2 DEF RuntimeIInv
  <2> QED BY <1>1, <2>2, <2>3, <2>4, <2>5, <2>6, <2>7, <2>8 DEF Next
<1> QED BY <1>1, InitOK, PTL DEF Spec

-----------------------------------------------------------------------------
(* What it implies.                                                         *)

\* The range, the other way round.
LEMMA InRange ==
  ASSUME NEW r \in Seq(Entries), NEW e
  PROVE  e \in Range(r) <=> \E j \in 1 .. Len(r) : r[j] = e
BY RangeIs

\* A query of the cache finds its region.
LEMMA RegionFromInvariant ==
  ASSUME MemoryOK
  PROVE  RegionIsPrefix
<1>1. SUFFICES ASSUME NEW q \in Queries \cup Memories, NEW i \in DOMAIN cache
      PROVE  cache[i] \in Range(BookQuery(cache, DerivePartial(q))) <=>
                \A f \in Facets :
                   (\A g \in 1 .. f : Normalize(q)[g] # Missing) =>
                        Normalize(q)[f] = Normalize(cache[i].grammar)[f]
  BY Zenon DEF RegionIsPrefix
<1>2. BookOK(cache)
  BY DEF MemoryOK
<1>3. PICK p : p = DerivePartial(q)
  OBVIOUS
<1>4. PICK r : r = BookQuery(cache, p)
  OBVIOUS
<1>5. Found(r, cache, p, Len(cache))
  BY <1>2, <1>4, Query
<1>6. i \in 1 .. Len(cache) /\ cache[i] \in Entries
  BY <1>2 DEF BookOK
<1>7. PICK g \in Memories, c \in Contents : cache[i] = Entry(g, c)
  BY <1>6 DEF Entries
<1>8. cache[i].address = Derive(g, c) /\ cache[i].grammar = g
  BY <1>7 DEF Entry
<1>9. cache[i] \in Range(r) <=> \E j \in 1 .. Len(r) : r[j] = cache[i]
  BY <1>5, InRange DEF Found
<1>10. (\E j \in 1 .. Len(r) : r[j] = cache[i]) <=> PrefixMatch(cache[i].address, p)
  <2>1. ASSUME NEW j \in 1 .. Len(r), r[j] = cache[i] PROVE PrefixMatch(cache[i].address, p)
    <3>1. PICK k \in 1 .. Len(cache) : r[j] = cache[k] /\ PrefixMatch(cache[k].address, p)
      BY <1>5 DEF Found
    <3>2. cache[k].address = cache[i].address
      BY <2>1, <3>1
    <3> QED BY <3>1, <3>2
  <2>2. ASSUME PrefixMatch(cache[i].address, p) PROVE \E j \in 1 .. Len(r) : r[j] = cache[i]
    BY <1>5, <1>6, <2>2 DEF Found
  <2> QED BY <2>1, <2>2
<1>11. PrefixMatch(Derive(g, c), DerivePartial(q)) <=>
           \A f \in Facets : (\A x \in 1 .. f : Normalize(q)[x] # Missing) =>
                                Normalize(q)[f] = Normalize(g)[f]
  BY Region
<1> QED BY <1>3, <1>4, <1>8, <1>9, <1>10, <1>11

\* An answer: of the entries of the region in the cache, all or as many as the limit.
LEMMA CachedAnswer ==
  ASSUME MemoryOK, NEW q, NEW limit \in Nat \ {0}
  PROVE  /\ \A e \in Range(Cached(q, limit)) : \E i \in 1 .. Len(cache) : e = cache[i]
         /\ \/ \A i \in 1 .. Len(cache) :
                 PrefixMatch(cache[i].address, DerivePartial(q)) =>
                    cache[i] \in Range(Cached(q, limit))
            \/ Cardinality(Addresses(Range(Cached(q, limit)))) = limit
<1>1. PICK p, r : p = DerivePartial(q) /\ r = BookQuery(cache, p)
  OBVIOUS
<1>2. Found(r, cache, p, Len(cache))
  BY <1>1, Query DEF MemoryOK
<1>3. PICK n \in Nat : n = Len(r)
  BY <1>2 DEF Found
<1>4. PICK m \in Nat : m = Min({limit, n}) /\ m = IF limit <= n THEN limit ELSE n
  BY <1>3, MinOf
<1>5. PICK t : t = Cached(q, limit)
  OBVIOUS
<1>6. t = SubSeq(r, 1, m)
  BY <1>1, <1>3, <1>4, <1>5 DEF Cached
<1>7. t \in Seq(Entries) /\ Len(t) = m /\ Same(t, r, m)
  <2>1. m <= Len(r) /\ r \in Seq(Entries)
    BY <1>2, <1>3, <1>4 DEF Found
  <2> QED BY <1>6, <2>1, Cutting DEF Same
<1>8. Distinct(r, n)
  BY <1>2, <1>3 DEF Found, Distinct
<1>9. /\ \A e \in Range(t) : \E j \in 1 .. n : e = r[j]
      /\ \/ \A j \in 1 .. n : r[j] \in Range(t)
         \/ Cardinality(Addresses(Range(t))) = limit
  <2>1. Shortest(m, limit, n)
    BY <1>4 DEF Shortest
  <2>2. Len(t) = m /\ t \in Seq(Entries) /\ Same(t, r, m)
    BY <1>7
  <2> QED BY <1>8, <2>1, <2>2, Cut
<1>10. ASSUME NEW e \in Range(t) PROVE \E i \in 1 .. Len(cache) : e = cache[i]
  <2>1. PICK j \in 1 .. Len(r) : e = r[j]
    BY <1>3, <1>9
  <2> QED BY <1>2, <2>1 DEF Found
<1>11. ASSUME \A j \in 1 .. n : r[j] \in Range(t), NEW i \in 1 .. Len(cache),
              PrefixMatch(cache[i].address, p)
       PROVE  cache[i] \in Range(t)
  <2>1. PICK j \in 1 .. n : r[j] = cache[i]
    BY <1>2, <1>3, <1>11 DEF Found
  <2> QED BY <1>11, <2>1
<1> QED BY <1>1, <1>5, <1>9, <1>10, <1>11

\* What was stored is found, by address and by region.
LEMMA OwnWritesFromInvariant ==
  ASSUME MemoryOK
  PROVE  OwnWritesRecalled
<1>1. ASSUME NEW m \in mine PROVE GetMemory(m.address) # {}
  <2>1. PICK i \in 1 .. Len(cache) : cache[i].address = m.address
    BY DEF MemoryOK
  <2>2. cache[i] \in Range(cache)
    BY InRange DEF MemoryOK, BookOK
  <2>3. cache[i] \in BookGet(cache, m.address)
    BY <2>1, <2>2 DEF BookGet
  <2> QED BY <2>3 DEF GetMemory
<1>2. ASSUME NEW q \in Queries, NEW limit \in 1 .. Cardinality(mine) + 1
      PROVE  /\ \A m \in mine : PrefixMatch(m.address, DerivePartial(q)) =>
                  \/ m.address \in {e.address : e \in Range(Cached(q, limit))}
                  \/ Cardinality({e.address : e \in Range(Cached(q, limit))}) = limit
             /\ {e.address : e \in Range(Cached(q, limit))} \subseteq {e.address : e \in accepted}
  <2>1. PICK A, p : A = Range(Cached(q, limit)) /\ p = DerivePartial(q)
    OBVIOUS
  <2>2. limit \in Nat \ {0}
    OBVIOUS
  <2>3. /\ \A e \in A : \E i \in 1 .. Len(cache) : e = cache[i]
        /\ \/ \A i \in 1 .. Len(cache) : PrefixMatch(cache[i].address, p) => cache[i] \in A
           \/ Cardinality(Addresses(A)) = limit
    BY <2>1, <2>2, CachedAnswer
  <2>4. Addresses(A) \subseteq Addresses(accepted)
    <3>1. A \subseteq accepted
      BY <2>3 DEF MemoryOK
    <3> QED BY <3>1 DEF Addresses
  <2>5. ASSUME NEW m \in mine, PrefixMatch(m.address, p)
        PROVE  m.address \in Addresses(A) \/ Cardinality(Addresses(A)) = limit
    <3>1. PICK i \in 1 .. Len(cache) : cache[i].address = m.address
      BY DEF MemoryOK
    <3>2. cache[i] \in A => m.address \in Addresses(A)
      BY <3>1 DEF Addresses
    <3> QED BY <2>3, <2>5, <3>1, <3>2
  <2>6. Addresses(A) = {e.address : e \in Range(Cached(q, limit))}
    BY <2>1, Zenon DEF Addresses
  <2>7. Addresses(accepted) = {e.address : e \in accepted}
    BY Zenon DEF Addresses
  <2> QED BY <2>1, <2>4, <2>5, <2>6, <2>7, Zenon
<1> QED BY <1>1, <1>2, Zenon DEF OwnWritesRecalled

\* The verdicts are right, and what is shown as running runs.
LEMMA VerdictFromInvariant ==
  ASSUME RunsOK, AgentsOK
  PROVE  VerdictMatches
<1>1. ASSUME NEW id \in Ids, agents[id] # None, ShownStatus(id) = "running"
      PROVE  \E r \in Runs : run[r].agent = id /\ (run[r].phase # "done" \/ run[r].cause = "thrown")
  <2>1. agents[id] \in Shown
    BY <1>1 DEF AgentsOK
  <2>2. agents[id].instance # None
    BY <1>1 DEF ShownStatus
  <2>3. PICK r \in Runs : r = agents[id].instance
    BY <2>1, <2>2 DEF Shown
  <2>4. run[r].agent = id /\ run[r].status = "running"
    BY <1>1, <2>2, <2>3 DEF AgentsOK, ShownStatus
  <2>5. run[r].agent # None
    BY <2>4, RuntimeAssumption
  <2>6. run[r].phase = "done" => run[r].cause = "thrown"
    BY <2>4, <2>5 DEF RunsOK, RequestOK, Bounds, Verdict
  <2> QED BY <2>4, <2>6
<1>2. ASSUME NEW r \in {x \in Runs : run[x].agent # None}
      PROVE  LET s == run[r]
             IN
              /\ s.step <= s.config.maxSteps
              /\ s.step > 0 => s.tokens - s.last < s.config.tokenBudget
              /\ s.phase # "done" => s.status = "running"
              /\ s.phase = "done" =>
                    /\ s.status = "running" <=> s.cause = "thrown"
                    /\ s.status = "error" <=> s.cause = "failed"
                    /\ s.status = "budget_exhausted" => s.tokens >= s.config.tokenBudget
                    /\ s.status = "completed" =>
                          \/ s.cause = "final"
                          \/ s.step = s.config.maxSteps /\ s.tokens < s.config.tokenBudget
  <2>1. Bounds(run[r])
    BY DEF RunsOK, RequestOK
  <2> QED BY <2>1, Zenon DEF Bounds, Verdict
<1> QED BY <1>1, <1>2, Zenon DEF VerdictMatches

\* For any agents, configurations, tool calls, grammars and texts: a query finds in the
\* cache exactly the entries that agree with it on the facets before its first gap
\* (derivePartial and matchesPrefix of semantic-address, MemoryStore.recall).
THEOREM QueriesFindRegions == Spec => []RegionIsPrefix
<1>1. RuntimeIInv => RegionIsPrefix
  BY RegionFromInvariant DEF RuntimeIInv
<1> QED BY <1>1, RuntimeInvariant, PTL

\* Whatever else is stored, queried, refused or lost, and whatever the daemon loses: what
\* this process stored it finds again, by address, and in every answer about its region
\* that the limit did not cut; no answer holds what the daemon never took
\* (MemoryStore.store and recall).
THEOREM StoredIsRecalled == Spec => []OwnWritesRecalled
<1>1. RuntimeIInv => OwnWritesRecalled
  BY OwnWritesFromInvariant DEF RuntimeIInv
<1> QED BY <1>1, RuntimeInvariant, PTL

\* The steps never exceed their maximum, the tokens their budget by less than one answer,
\* and the status tells why a run ended (Agent.run); an agent shown as running has a run
\* that goes on, or one that a memory call ended (GET /agents/:id).
THEOREM VerdictsTell == Spec => []VerdictMatches
<1>1. RuntimeIInv => VerdictMatches
  BY VerdictFromInvariant DEF RuntimeIInv
<1> QED BY <1>1, RuntimeInvariant, PTL
=============================================================================
