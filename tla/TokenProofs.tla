---------------------------- MODULE TokenProofs ----------------------------
(***************************************************************************)
(* Proofs about the bandwidth tokens and the two systems of contracts that *)
(* stand over them, for any kinds and accounts, any finite set of stacks   *)
(* and any word width.                                                     *)
(*                                                                         *)
(* BandwidthToken.sol: the ledgers keep their types, and the supply is     *)
(* what the stacks hold and what the logs account for.  A total is a fold, *)
(* a recursive function that is only said to satisfy its equation if there *)
(* is one that does; so its existence comes first.  The provers cannot     *)
(* instantiate an induction theorem with a predicate: the inductions here  *)
(* are over a set of numbers in place of a predicate, and rest on the      *)
(* minimal element of its complement.                                      *)
(*                                                                         *)
(* TripartiteGame.sol: AlwaysFair is not inductive by itself: a            *)
(* registration could cap a stack below what it had consumed, were it not  *)
(* that only parties consume, and that a party registers once.  The game   *)
(* implements the treaty: every step of the contracts is, seen through the *)
(* roster and the remainingBudget view, a party joining, a party using no  *)
(* more than what is left to it, or no change.  The inductive invariant is *)
(* needed there too, because remainingBudget truncates at zero: the view   *)
(* goes down by exactly the amount consumed only as long as the            *)
(* consumption is within the budget.                                       *)
(*                                                                         *)
(* The contracts that mint and burn, for any order of the deployment       *)
(* script's steps and everybody's calls: the supply is accounted for,      *)
(* every token minted is explained by one contract's books, what swaps     *)
(* mint is within the caps and covered by residue burned, and claims end   *)
(* when the script hands the minting of routing to the swap.               *)
(***************************************************************************)
EXTENDS TripartiteGame, TokenEconomy, FiniteSetTheorems, WellFoundedInduction, TLAPS

\* Induction on the natural numbers, for a set that holds 0 and is closed under successors.
LEMMA InductiveSet ==
  ASSUME NEW A \in SUBSET Nat, 0 \in A, \A n \in A : n + 1 \in A
  PROVE  A = Nat
<1> DEFINE less == OpToRel(<, Nat)
           T == Nat \ A
<1>1. SUFFICES ASSUME T # {} PROVE FALSE
  OBVIOUS
<1>2. IsWellFoundedOn(less, Nat)
  BY NatLessThanWellFounded
<1>3. PICK n \in T : \A m \in T : <<m, n>> \notin less
  <2> HIDE DEF less
  <2> QED BY <1>1, <1>2, WFMin
<1>4. n # 0 /\ n - 1 \in Nat
  OBVIOUS
<1>5. <<n - 1, n>> \in less
  BY <1>4 DEF OpToRel
<1>6. n - 1 \in A
  BY <1>3, <1>4, <1>5
<1>7. n \in A
  <2>1. (n - 1) + 1 \in A
    BY <1>6
  <2>2. (n - 1) + 1 = n
    BY <1>4
  <2> QED BY <2>1, <2>2
<1> QED BY <1>7

-----------------------------------------------------------------------------
Pick(s) == CHOOSE x \in s : TRUE

\* g is the sum of f over each of the sets in F.
Sums(g, f, F) ==
    g = [s \in F |-> IF s = {} THEN 0 ELSE f[Pick(s)] + g[s \ {Pick(s)}]]

\* The subsets of D with at most n elements.
Small(D, n) == {s \in SUBSET D : Cardinality(s) <= n}

LEMMA Picked == \A s : s # {} => Pick(s) \in s
  BY DEF Pick

LEMMA SmallOnes ==
  ASSUME NEW D, IsFiniteSet(D)
  PROVE  /\ Small(D, 0) = {{}}
         /\ Small(D, Cardinality(D)) = SUBSET D
         /\ \A n \in Nat : {} \in Small(D, n) /\ Small(D, n) \subseteq Small(D, n + 1)
         /\ \A n \in Nat : \A s \in Small(D, n + 1) : \A x \in s : s \ {x} \in Small(D, n)
<1>1. \A s \in SUBSET D : IsFiniteSet(s) /\ Cardinality(s) \in Nat /\ Cardinality(s) <= Cardinality(D)
  BY FS_Subset, FS_CardinalityType
<1>2. \A s \in SUBSET D : Cardinality(s) <= 0 <=> s = {}
  BY <1>1, FS_EmptySet
<1>3. \A s \in SUBSET D : \A x \in s : Cardinality(s \ {x}) = Cardinality(s) - 1
  BY <1>1, FS_RemoveElement
<1>4. Small(D, 0) = {{}}
  BY <1>2 DEF Small
<1>5. Small(D, Cardinality(D)) = SUBSET D
  BY <1>1 DEF Small
<1>6. \A n \in Nat : {} \in Small(D, n) /\ Small(D, n) \subseteq Small(D, n + 1)
  BY <1>1, FS_EmptySet DEF Small
<1>7. \A n \in Nat : \A s \in Small(D, n + 1) : \A x \in s : s \ {x} \in Small(D, n)
  <2> TAKE n \in Nat
  <2> TAKE s \in Small(D, n + 1)
  <2> TAKE x \in s
  <2>1. s \in SUBSET D /\ Cardinality(s) <= n + 1
    BY DEF Small
  <2>2. Cardinality(s \ {x}) <= n
    BY <1>1, <1>3, <2>1
  <2> QED BY <2>1, <2>2 DEF Small
<1> QED BY <1>4, <1>5, <1>6, <1>7

LEMMA SumsExist ==
  ASSUME NEW D, IsFiniteSet(D), NEW f
  PROVE  \E g : Sums(g, f, SUBSET D)
<1> DEFINE A == {n \in Nat : \E g : Sums(g, f, Small(D, n))}
<1>1. 0 \in A
  <2>1. Sums([s \in Small(D, 0) |-> 0], f, Small(D, 0))
    BY SmallOnes DEF Sums
  <2> QED BY <2>1
<1>2. ASSUME NEW n \in A PROVE n + 1 \in A
  <2>1. PICK g : Sums(g, f, Small(D, n))
    OBVIOUS
  <2> DEFINE h == [s \in Small(D, n + 1) |->
                     IF s = {} THEN 0 ELSE f[Pick(s)] + g[s \ {Pick(s)}]]
  <2>2. \A s \in Small(D, n) : h[s] = g[s]
    BY <2>1, SmallOnes DEF Sums
  <2>3. \A s \in Small(D, n + 1) : s # {} => h[s \ {Pick(s)}] = g[s \ {Pick(s)}]
    BY <2>2, SmallOnes, Picked
  <2>4. h = [s \in Small(D, n + 1) |->
               IF s = {} THEN 0 ELSE f[Pick(s)] + h[s \ {Pick(s)}]]
    BY <2>3
  <2>5. Sums(h, f, Small(D, n + 1))
    BY <2>4 DEF Sums
  <2> QED BY <2>5
<1>3. A = Nat
  <2> HIDE DEF A
  <2>1. A \in SUBSET Nat
    BY DEF A
  <2> QED BY <1>1, <1>2, <2>1, InductiveSet
<1>4. Cardinality(D) \in A
  BY <1>3, FS_CardinalityType
<1>5. \E g : Sums(g, f, Small(D, Cardinality(D)))
  BY <1>4
<1>6. Small(D, Cardinality(D)) = SUBSET D
  BY SmallOnes
<1> QED BY <1>5, <1>6

\* The total of a ledger is given by such sums.
LEMMA TotalIsSum ==
  ASSUME NEW D, IsFiniteSet(D), NEW f, DOMAIN f = D
  PROVE  \E g : Sums(g, f, SUBSET D) /\ Total(f) = g[D]
<1> DEFINE g == CHOOSE h : h = [s \in SUBSET D |->
                                  IF s = {} THEN 0 ELSE f[Pick(s)] + h[s \ {Pick(s)}]]
<1>1. \E h : h = [s \in SUBSET D |-> IF s = {} THEN 0 ELSE f[Pick(s)] + h[s \ {Pick(s)}]]
  <2> HIDE DEF g
  <2>1. PICK h : Sums(h, f, SUBSET D)
    BY SumsExist
  <2>2. h = [s \in SUBSET D |-> IF s = {} THEN 0 ELSE f[Pick(s)] + h[s \ {Pick(s)}]]
    BY <2>1 DEF Sums
  <2> QED BY <2>2
<1>2. g = [s \in SUBSET D |-> IF s = {} THEN 0 ELSE f[Pick(s)] + g[s \ {Pick(s)}]]
  BY <1>1
<1>3. Total(f) = g[D]
  BY DEF Total, MapThenSumSet, MapThenFoldSet, Pick
<1> QED BY <1>2, <1>3 DEF Sums

LEMMA SumsType ==
  ASSUME NEW D, IsFiniteSet(D), NEW V, 0 \in V, \A i, j \in V : i + j \in V,
         NEW f \in [D -> V], NEW g, Sums(g, f, SUBSET D)
  PROVE  \A s \in SUBSET D : g[s] \in V
<1> DEFINE A == {n \in Nat : \A s \in Small(D, n) : g[s] \in V}
<1>1. A \in SUBSET Nat /\ \A n \in Nat : n \in A <=> \A s \in Small(D, n) : g[s] \in V
  OBVIOUS
<1> HIDE DEF A
<1>2. g[{}] \in V
  BY DEF Sums
<1>3. 0 \in A
  BY <1>1, <1>2, SmallOnes
<1>4. ASSUME NEW n \in A PROVE n + 1 \in A
  <2>1. ASSUME NEW s \in Small(D, n + 1), s # {} PROVE g[s] \in V
    <3>1. s \ {Pick(s)} \in Small(D, n) /\ Pick(s) \in D
      BY <1>1, <2>1, SmallOnes, Picked DEF Small
    <3>2. g[s] = f[Pick(s)] + g[s \ {Pick(s)}]
      BY <2>1 DEF Sums, Small
    <3> QED BY <1>1, <3>1, <3>2
  <2>2. \A s \in Small(D, n + 1) : g[s] \in V
    <3>1. ASSUME NEW s \in Small(D, n + 1) PROVE g[s] \in V
      BY <1>2, <2>1
    <3> QED BY <3>1
  <2> QED BY <1>1, <2>2
<1>5. A = Nat
  BY <1>1, <1>3, <1>4, InductiveSet
<1>6. Cardinality(D) \in Nat /\ Small(D, Cardinality(D)) = SUBSET D
  BY SmallOnes, FS_CardinalityType
<1> QED BY <1>1, <1>5, <1>6

\* Writing one entry changes the sums over it by the difference, and no other sum.
LEMMA SumsChange ==
  ASSUME NEW D, IsFiniteSet(D), NEW f \in [D -> Int], NEW g, Sums(g, f, SUBSET D),
         NEW x \in D, NEW e \in [D -> Int], \A y \in D : y # x => e[y] = f[y],
         NEW h, Sums(h, e, SUBSET D)
  PROVE  h[D] = g[D] + (e[x] - f[x])
<1> DEFINE Differs(s) == h[s] = g[s] + (IF x \in s THEN e[x] - f[x] ELSE 0)
           A == {n \in Nat : \A s \in Small(D, n) : Differs(s)}
<1>1. A \in SUBSET Nat /\ \A n \in Nat : n \in A <=> \A s \in Small(D, n) : Differs(s)
  OBVIOUS
<1> HIDE DEF A
<1>2. Differs({})
  BY DEF Sums
<1>3. 0 \in A
  <2> HIDE DEF Differs
  <2>1. Small(D, 0) = {{}}
    BY SmallOnes
  <2>2. \A s \in Small(D, 0) : Differs(s)
    BY <1>2, <2>1
  <2> QED BY <1>1, <2>2
<1>4. \A s \in SUBSET D : g[s] \in Int
  <2>1. 0 \in Int /\ \A i, j \in Int : i + j \in Int
    OBVIOUS
  <2> QED BY <2>1, SumsType
<1>5. ASSUME NEW n \in A PROVE n + 1 \in A
  <2>1. ASSUME NEW s \in Small(D, n + 1), s # {}
        PROVE  Differs(s)
    <3> DEFINE y == Pick(s)
    <3>1. y \in s /\ y \in D /\ s \in SUBSET D
      BY <2>1, Picked DEF Small
    <3>2. Differs(s \ {y})
      <4> HIDE DEF Differs
      <4> QED BY <1>1, <3>1, SmallOnes
    <3>3. g[s] = f[y] + g[s \ {y}] /\ h[s] = e[y] + h[s \ {y}]
      BY <2>1, <3>1 DEF Sums
    <3>4. g[s \ {y}] \in Int /\ f[y] \in Int /\ f[x] \in Int /\ e[x] \in Int
      BY <1>4, <3>1
    <3> HIDE DEF y
    <3>5. CASE y = x
      BY <3>1, <3>2, <3>3, <3>4, <3>5
    <3>6. CASE y # x
      BY <3>1, <3>2, <3>3, <3>4, <3>6
    <3> QED BY <3>5, <3>6
  <2> HIDE DEF Differs
  <2>2. \A s \in Small(D, n + 1) : Differs(s)
    <3>1. ASSUME NEW s \in Small(D, n + 1) PROVE Differs(s)
      BY <1>2, <2>1
    <3> QED BY <3>1
  <2> QED BY <1>1, <2>2
<1>6. A = Nat
  BY <1>1, <1>3, <1>5, InductiveSet
<1>7. Cardinality(D) \in Nat /\ Small(D, Cardinality(D)) = SUBSET D
  BY SmallOnes, FS_CardinalityType
<1> QED BY <1>1, <1>6, <1>7

-----------------------------------------------------------------------------
(* What the other proofs cite.                                              *)

LEMMA TotalType ==
  ASSUME NEW D, IsFiniteSet(D), NEW f
  PROVE  /\ f \in [D -> Int] => Total(f) \in Int
         /\ f \in [D -> Nat] => Total(f) \in Nat
<1>1. ASSUME f \in [D -> Int] PROVE Total(f) \in Int
  <2>1. PICK g : Sums(g, f, SUBSET D) /\ Total(f) = g[D]
    BY <1>1, TotalIsSum
  <2>2. D \in SUBSET D /\ 0 \in Int /\ \A i, j \in Int : i + j \in Int
    OBVIOUS
  <2>3. g[D] \in Int
    BY <1>1, <2>1, <2>2, SumsType
  <2> QED BY <2>1, <2>3
<1>2. ASSUME f \in [D -> Nat] PROVE Total(f) \in Nat
  <2>1. PICK g : Sums(g, f, SUBSET D) /\ Total(f) = g[D]
    BY <1>2, TotalIsSum
  <2>2. D \in SUBSET D /\ 0 \in Nat /\ \A i, j \in Nat : i + j \in Nat
    OBVIOUS
  <2>3. g[D] \in Nat
    BY <1>2, <2>1, <2>2, SumsType
  <2> QED BY <2>1, <2>3
<1> QED BY <1>1, <1>2

\* Nothing is in an empty ledger.
LEMMA TotalZero ==
  ASSUME NEW D, IsFiniteSet(D)
  PROVE  Total([x \in D |-> 0]) = 0
<1> DEFINE f == [x \in D |-> 0]
<1>1. f \in [D -> {0}] /\ 0 \in {0} /\ \A i, j \in {0} : i + j \in {0}
  OBVIOUS
<1> HIDE DEF f
<1>2. PICK g : Sums(g, f, SUBSET D) /\ Total(f) = g[D]
  BY <1>1, TotalIsSum
<1>3. g[D] \in {0}
  BY <1>1, <1>2, SumsType
<1> QED BY <1>2, <1>3 DEF f

\* Writing an entry changes the total by what it changes the entry.
LEMMA TotalWrite ==
  ASSUME NEW D, IsFiniteSet(D), NEW f \in [D -> Int], NEW x \in D, NEW e \in [D -> Int],
         \A y \in D : y # x => e[y] = f[y]
  PROVE  Total(e) = Total(f) + (e[x] - f[x])
<1>1. PICK g : Sums(g, f, SUBSET D) /\ Total(f) = g[D]
  BY TotalIsSum
<1>2. PICK h : Sums(h, e, SUBSET D) /\ Total(e) = h[D]
  BY TotalIsSum
<1>3. h[D] = g[D] + (e[x] - f[x])
  BY <1>1, <1>2, SumsChange
<1> QED BY <1>1, <1>2, <1>3

LEMMA TotalGain ==
  ASSUME NEW D, IsFiniteSet(D), NEW f \in [D -> Int], NEW e \in [D -> Int], NEW x \in D,
         NEW c \in Int, e[x] = f[x] + c, \A y \in D : y # x => e[y] = f[y]
  PROVE  Total(e) = Total(f) + c
<1>1. Total(e) = Total(f) + (e[x] - f[x])
  BY TotalWrite
<1>2. f[x] \in Int /\ Total(f) \in Int
  BY TotalType
<1> QED BY <1>1, <1>2

LEMMA TotalAdd ==
  ASSUME NEW D, IsFiniteSet(D), NEW f \in [D -> Int], NEW x \in D, NEW c \in Int
  PROVE  /\ [f EXCEPT ![x] = @ + c] \in [D -> Int]
         /\ Total([f EXCEPT ![x] = @ + c]) = Total(f) + c
<1>1. PICK e : e = [f EXCEPT ![x] = @ + c]
  OBVIOUS
<1>2. /\ e \in [D -> Int] /\ e[x] = f[x] + c /\ f[x] \in Int
      /\ \A y \in D : y # x => e[y] = f[y]
  BY <1>1
<1>3. Total(e) = Total(f) + (e[x] - f[x])
  BY <1>2, TotalWrite
<1>4. Total(e) = Total(f) + c
  <2>1. Total(f) \in Int
    BY TotalType
  <2> QED BY <1>2, <1>3, <2>1
<1> QED BY <1>1, <1>2, <1>4

LEMMA TotalSubtract ==
  ASSUME NEW D, IsFiniteSet(D), NEW f \in [D -> Int], NEW x \in D, NEW c \in Int
  PROVE  /\ [f EXCEPT ![x] = @ - c] \in [D -> Int]
         /\ Total([f EXCEPT ![x] = @ - c]) = Total(f) - c
<1>1. PICK e : e = [f EXCEPT ![x] = @ - c]
  OBVIOUS
<1>2. /\ e \in [D -> Int] /\ e[x] = f[x] - c /\ f[x] \in Int
      /\ \A y \in D : y # x => e[y] = f[y]
  BY <1>1
<1>3. Total(e) = Total(f) + (e[x] - f[x])
  BY <1>2, TotalWrite
<1>4. Total(e) = Total(f) - c
  <2>1. Total(f) \in Int
    BY TotalType
  <2> QED BY <1>2, <1>3, <2>1
<1> QED BY <1>1, <1>2, <1>4

\* What one entry loses and another gains, possibly the same, leaves the total.
LEMMA TotalMove ==
  ASSUME NEW D, IsFiniteSet(D), NEW f \in [D -> Int], NEW e \in [D -> Int], NEW d \in [D -> Int],
         NEW x \in D, NEW y \in D, NEW c \in Int,
         e[x] = f[x] - c, \A z \in D : z # x => e[z] = f[z],
         d[y] = e[y] + c, \A z \in D : z # y => d[z] = e[z]
  PROVE  Total(d) = Total(f)
<1>1. Total(f) \in Int /\ Total(e) \in Int /\ f[x] \in Int /\ e[y] \in Int
  BY TotalType
<1>2. Total(e) = Total(f) + (e[x] - f[x])
  BY TotalWrite
<1>3. Total(d) = Total(e) + (d[y] - e[y])
  BY TotalWrite
<1> QED BY <1>1, <1>2, <1>3

\* No entry of a ledger of natural numbers is above its total.
LEMMA EntryInTotal ==
  ASSUME NEW D, IsFiniteSet(D), NEW f \in [D -> Nat], NEW x \in D
  PROVE  f[x] <= Total(f)
<1> DEFINE e == [f EXCEPT ![x] = 0]
<1>1. /\ e \in [D -> Nat] /\ e \in [D -> Int] /\ f \in [D -> Int] /\ f[x] \in Nat
      /\ e[x] = 0 /\ \A y \in D : y # x => e[y] = f[y]
  OBVIOUS
<1> HIDE DEF e
<1>2. Total(e) = Total(f) + (e[x] - f[x])
  BY <1>1, TotalWrite
<1>3. Total(e) \in Nat /\ Total(f) \in Nat
  BY <1>1, TotalType
<1> QED BY <1>1, <1>2, <1>3
-----------------------------------------------------------------------------
(* Types.                                                                   *)

\* A burn keeps the types: the checked subtractions stay in the word.
LEMMA SpendKeepsType ==
  ASSUME TokenTypeOK, NEW k \in Kinds, NEW sender \in Accounts, NEW s \in Stacks,
         NEW amount \in Uint, Spend(k, sender, s, amount)
  PROVE  TokenTypeOK'
<1>1. balanceOfStack[k][s] - amount \in Uint /\ totalSupply[k] - amount \in Uint
      /\ spent[k][s] + amount \in Nat
  BY TokenAssumption DEF TokenTypeOK, Uint, Spend, CanSpend
<1> QED BY <1>1 DEF TokenTypeOK, Spend

LEMMA MintKeepsType ==
  ASSUME TokenTypeOK, NEW k \in Kinds, NEW sender, NEW s \in Stacks, NEW amount \in Nat,
         Mint(k, sender, s, amount)
  PROVE  TokenTypeOK'
<1>1. balanceOfStack[k][s] + amount \in Uint /\ totalSupply[k] + amount \in Uint
      /\ minted[k] + amount \in Nat
  BY TokenAssumption DEF TokenTypeOK, Uint, Mint, CanMint
<1> QED BY <1>1 DEF TokenTypeOK, Mint, CanMint

\* A transfer to the stack itself passes no check of the sum, and needs none.
LEMMA TransferKeepsType ==
  ASSUME TokenTypeOK, NEW k \in Kinds, NEW sender, NEW from \in Stacks, NEW to \in Stacks,
         NEW amount \in Uint, TransferStack(k, sender, from, to, amount)
  PROVE  TokenTypeOK'
<1> DEFINE mid == [balanceOfStack[k] EXCEPT ![from] = @ - amount]
<1>1. mid \in [Stacks -> Uint]
  BY TokenAssumption DEF TokenTypeOK, Uint, TransferStack
<1>2. mid[to] + amount \in Uint
  <2>1. CASE to = from
    BY <2>1, TokenAssumption DEF TokenTypeOK, Uint, TransferStack
  <2>2. CASE to # from
    BY <2>2, TokenAssumption DEF TokenTypeOK, Uint, TransferStack
  <2> QED BY <2>1, <2>2
<1>3. balanceOfStack' = [balanceOfStack EXCEPT ![k] = [mid EXCEPT ![to] = @ + amount]]
  BY DEF TokenTypeOK, TransferStack
<1>4. balanceOfStack' \in [Kinds -> [Stacks -> Uint]]
  BY <1>1, <1>2, <1>3 DEF TokenTypeOK
<1> QED BY <1>4 DEF TokenTypeOK, TransferStack

LEMMA AuthorizeKeepsType ==
  ASSUME TokenTypeOK, NEW k \in Kinds, NEW sender, NEW s \in Stacks, NEW sleeve \in Accounts,
         NEW ok \in BOOLEAN, AuthorizeSleeve(k, sender, s, sleeve, ok)
  PROVE  TokenTypeOK'
<1> DEFINE now == IF ok THEN sleeveAuthorized[k] \cup {<<s, sleeve>>}
                  ELSE sleeveAuthorized[k] \ {<<s, sleeve>>}
<1>1. now \in SUBSET (Stacks \X Accounts)
  BY DEF TokenTypeOK
<1>2. sleeveAuthorized' = [sleeveAuthorized EXCEPT ![k] = now]
  BY DEF AuthorizeSleeve
<1>3. sleeveAuthorized' \in [Kinds -> SUBSET (Stacks \X Accounts)]
  BY <1>1, <1>2 DEF TokenTypeOK
<1> QED BY <1>3 DEF TokenTypeOK, AuthorizeSleeve

LEMMA SetMinterKeepsType ==
  ASSUME TokenTypeOK, NEW k \in Kinds, NEW sender, NEW m \in Accounts, SetMinter(k, sender, m)
  PROVE  TokenTypeOK'
  BY DEF TokenTypeOK, SetMinter

LEMMA ChangeOwnerKeepsType ==
  ASSUME TokenTypeOK, NEW s \in Stacks, NEW to \in Accounts, ChangeOwner(s, to)
  PROVE  TokenTypeOK'
  BY DEF TokenTypeOK, ChangeOwner

LEMMA TokenStepKeepsType == TokenTypeOK /\ TokenNext => TokenTypeOK'
<1>1. \A i \in Uint : i \in Nat
  BY TokenAssumption DEF Uint
<1> QED
  BY <1>1, ChangeOwnerKeepsType, SetMinterKeepsType, AuthorizeKeepsType, MintKeepsType,
     SpendKeepsType, TransferKeepsType DEF TokenNext

-----------------------------------------------------------------------------
(* The books of one kind.                                                   *)

BooksOf(k) ==
    /\ totalSupply[k] = Total(balanceOfStack[k])
    /\ totalSupply[k] = minted[k] - Total(spent[k])

LEMMA UntouchedBooks ==
  ASSUME NEW k \in Kinds, BooksOf(k), totalSupply'[k] = totalSupply[k], minted'[k] = minted[k],
         balanceOfStack'[k] = balanceOfStack[k], spent'[k] = spent[k]
  PROVE  BooksOf(k)'
  BY DEF BooksOf

LEMMA BookTypes ==
  ASSUME TokenTypeOK, NEW k \in Kinds
  PROVE  /\ IsFiniteSet(Stacks) /\ balanceOfStack[k] \in [Stacks -> Int]
         /\ spent[k] \in [Stacks -> Int] /\ totalSupply[k] \in Int /\ minted[k] \in Int
         /\ Total(spent[k]) \in Int /\ Total(balanceOfStack[k]) \in Int
<1>1. /\ IsFiniteSet(Stacks) /\ balanceOfStack[k] \in [Stacks -> Int]
      /\ spent[k] \in [Stacks -> Int] /\ totalSupply[k] \in Int /\ minted[k] \in Int
  BY TokenAssumption DEF TokenTypeOK, Uint
<1> QED BY <1>1, TotalType

\* A stack gains what is minted.
LEMMA CreditBooks ==
  ASSUME TokenTypeOK, NEW k \in Kinds, BooksOf(k), NEW s \in Stacks, NEW amount \in Int,
         totalSupply'[k] = totalSupply[k] + amount, minted'[k] = minted[k] + amount,
         balanceOfStack'[k] = [balanceOfStack[k] EXCEPT ![s] = @ + amount], spent'[k] = spent[k]
  PROVE  BooksOf(k)'
<1>1. Total([balanceOfStack[k] EXCEPT ![s] = @ + amount]) = Total(balanceOfStack[k]) + amount
  BY BookTypes, TotalAdd
<1> QED BY <1>1, BookTypes DEF BooksOf

\* A stack loses what is burned.
LEMMA DebitBooks ==
  ASSUME TokenTypeOK, NEW k \in Kinds, BooksOf(k), NEW s \in Stacks, NEW amount \in Int,
         totalSupply'[k] = totalSupply[k] - amount, minted'[k] = minted[k],
         balanceOfStack'[k] = [balanceOfStack[k] EXCEPT ![s] = @ - amount],
         spent'[k] = [spent[k] EXCEPT ![s] = @ + amount]
  PROVE  BooksOf(k)'
<1>1. Total([balanceOfStack[k] EXCEPT ![s] = @ - amount]) = Total(balanceOfStack[k]) - amount
  BY BookTypes, TotalSubtract
<1>2. Total([spent[k] EXCEPT ![s] = @ + amount]) = Total(spent[k]) + amount
  BY BookTypes, TotalAdd
<1> QED BY <1>1, <1>2, BookTypes DEF BooksOf

\* A transfer is a debit and a credit, also from a stack to itself.
LEMMA TransferBooks ==
  ASSUME TokenTypeOK, NEW k \in Kinds, BooksOf(k), NEW from \in Stacks, NEW to \in Stacks,
         NEW amount \in Int, totalSupply'[k] = totalSupply[k], minted'[k] = minted[k],
         spent'[k] = spent[k], NEW debited,
         debited = [balanceOfStack[k] EXCEPT ![from] = @ - amount],
         balanceOfStack'[k] = [debited EXCEPT ![to] = @ + amount]
  PROVE  BooksOf(k)'
<1>1. IsFiniteSet(Stacks) /\ balanceOfStack[k] \in [Stacks -> Int]
  BY BookTypes
<1>2. /\ debited \in [Stacks -> Int] /\ debited[from] = balanceOfStack[k][from] - amount
      /\ \A z \in Stacks : z # from => debited[z] = balanceOfStack[k][z]
  BY <1>1
<1>3. /\ balanceOfStack'[k] \in [Stacks -> Int] /\ balanceOfStack'[k][to] = debited[to] + amount
      /\ \A z \in Stacks : z # to => balanceOfStack'[k][z] = debited[z]
  BY <1>2
<1>4. Total(balanceOfStack'[k]) = Total(balanceOfStack[k])
  <2>1. PICK before : before = balanceOfStack[k]
    OBVIOUS
  <2>2. PICK after : after = balanceOfStack'[k]
    OBVIOUS
  <2>3. before \in [Stacks -> Int] /\ debited \in [Stacks -> Int] /\ after \in [Stacks -> Int]
    BY <1>1, <1>2, <1>3, <2>1, <2>2, Zenon
  <2>4. Total(before) \in Int /\ before[from] \in Int /\ debited[to] \in Int
    BY ONLY <1>1, <2>3, from \in Stacks, to \in Stacks, TotalType
  <2>5. debited[from] = before[from] - amount /\ after[to] = debited[to] + amount
    BY <1>2, <1>3, <2>1, <2>2, Zenon
  <2>6. Total(debited) = Total(before) + (debited[from] - before[from])
    <3>1. \A z \in Stacks : z # from => debited[z] = before[z]
      BY <1>2, <2>1, Zenon
    <3> QED BY ONLY <1>1, <2>3, <3>1, from \in Stacks, TotalWrite
  <2>7. Total(after) = Total(debited) + (after[to] - debited[to])
    <3>1. \A z \in Stacks : z # to => after[z] = debited[z]
      BY <1>3, <2>2, Zenon
    <3> QED BY ONLY <1>1, <2>3, <3>1, to \in Stacks, TotalWrite
  <2>8. Total(after) = Total(before)
    BY ONLY <2>4, <2>5, <2>6, <2>7, amount \in Int
  <2> QED BY <2>1, <2>2, <2>8
<1> QED BY <1>4 DEF BooksOf

-----------------------------------------------------------------------------
(* Each operation keeps the books of the kind it is about, and no other     *)
(* contract writes them.                                                    *)

LEMMA AccountsAreBooks == SupplyAccounted <=> TokenTypeOK /\ \A k \in Kinds : BooksOf(k)
  BY DEF SupplyAccounted, BooksOf

LEMMA MintKeepsAccounts ==
  ASSUME SupplyAccounted, NEW k \in Kinds, NEW sender, NEW s \in Stacks, NEW amount \in Nat,
         Mint(k, sender, s, amount)
  PROVE  SupplyAccounted'
<1>1. TokenTypeOK /\ TokenTypeOK'
  BY MintKeepsType DEF SupplyAccounted
<1>2. ASSUME NEW j \in Kinds, j # k PROVE BooksOf(j)'
  BY <1>1, <1>2, AccountsAreBooks, UntouchedBooks DEF Mint, TokenTypeOK
<1>3. BooksOf(k)'
  <2>1. /\ totalSupply'[k] = totalSupply[k] + amount /\ minted'[k] = minted[k] + amount
        /\ balanceOfStack'[k] = [balanceOfStack[k] EXCEPT ![s] = @ + amount]
        /\ spent'[k] = spent[k]
    BY <1>1 DEF Mint, TokenTypeOK
  <2> QED BY <1>1, <2>1, AccountsAreBooks, CreditBooks
<1> QED BY <1>1, <1>2, <1>3 DEF SupplyAccounted, BooksOf

LEMMA SpendKeepsAccounts ==
  ASSUME SupplyAccounted, NEW k \in Kinds, NEW sender \in Accounts, NEW s \in Stacks,
         NEW amount \in Uint, Spend(k, sender, s, amount)
  PROVE  SupplyAccounted'
<1>1. TokenTypeOK /\ TokenTypeOK'
  BY SpendKeepsType DEF SupplyAccounted
<1>2. ASSUME NEW j \in Kinds, j # k PROVE BooksOf(j)'
  BY <1>1, <1>2, AccountsAreBooks, UntouchedBooks DEF Spend, TokenTypeOK
<1>3. BooksOf(k)'
  <2>1. /\ totalSupply'[k] = totalSupply[k] - amount /\ minted'[k] = minted[k]
        /\ balanceOfStack'[k] = [balanceOfStack[k] EXCEPT ![s] = @ - amount]
        /\ spent'[k] = [spent[k] EXCEPT ![s] = @ + amount]
    BY <1>1 DEF Spend, TokenTypeOK
  <2>2. amount \in Int
    BY TokenAssumption DEF Uint
  <2> QED BY <1>1, <2>1, <2>2, AccountsAreBooks, DebitBooks
<1> QED BY <1>1, <1>2, <1>3 DEF SupplyAccounted, BooksOf

LEMMA TransferKeepsAccounts ==
  ASSUME SupplyAccounted, NEW k \in Kinds, NEW sender, NEW from \in Stacks, NEW to \in Stacks,
         NEW amount \in Uint, TransferStack(k, sender, from, to, amount)
  PROVE  SupplyAccounted'
<1>1. TokenTypeOK /\ TokenTypeOK'
  BY TransferKeepsType DEF SupplyAccounted
<1>2. ASSUME NEW j \in Kinds, j # k PROVE BooksOf(j)'
  BY <1>1, <1>2, AccountsAreBooks, UntouchedBooks DEF TransferStack, TokenTypeOK
<1>3. BooksOf(k)'
  <2>1. PICK debited : debited = [balanceOfStack[k] EXCEPT ![from] = @ - amount]
    OBVIOUS
  <2>2. /\ totalSupply'[k] = totalSupply[k] /\ minted'[k] = minted[k] /\ spent'[k] = spent[k]
        /\ balanceOfStack'[k] = [debited EXCEPT ![to] = @ + amount]
    BY <1>1, <2>1 DEF TransferStack, TokenTypeOK
  <2>3. amount \in Int
    BY TokenAssumption DEF Uint
  <2> QED BY <1>1, <2>1, <2>2, <2>3, AccountsAreBooks, TransferBooks
<1> QED BY <1>1, <1>2, <1>3 DEF SupplyAccounted, BooksOf

\* Owners, authorisations and minters are in no book.
LEMMA RightsKeepAccounts ==
  ASSUME SupplyAccounted, TokenTypeOK', UNCHANGED <<balanceOfStack, totalSupply, minted, spent>>
  PROVE  SupplyAccounted'
  BY DEF SupplyAccounted

LEMMA TokenStepKeepsAccounts == SupplyAccounted /\ TokenNext => SupplyAccounted'
<1> SUFFICES ASSUME SupplyAccounted, TokenNext PROVE SupplyAccounted'
  OBVIOUS
<1>1. TokenTypeOK /\ TokenTypeOK' /\ \A i \in Uint : i \in Nat
  BY TokenStepKeepsType, TokenAssumption DEF SupplyAccounted, Uint
<1>2. ASSUME NEW s \in Stacks, NEW to \in Accounts, ChangeOwner(s, to) PROVE SupplyAccounted'
  BY <1>1, <1>2, RightsKeepAccounts DEF ChangeOwner
<1>3. ASSUME NEW k \in Kinds, NEW sender \in Accounts, NEW m \in Accounts, SetMinter(k, sender, m)
      PROVE  SupplyAccounted'
  BY <1>1, <1>3, RightsKeepAccounts DEF SetMinter
<1>4. ASSUME NEW k \in Kinds, NEW sender \in Accounts, NEW sleeve \in Accounts, NEW s \in Stacks,
             NEW ok \in BOOLEAN, AuthorizeSleeve(k, sender, s, sleeve, ok)
      PROVE  SupplyAccounted'
  BY <1>1, <1>4, RightsKeepAccounts DEF AuthorizeSleeve
<1> QED
  BY <1>1, <1>2, <1>3, <1>4, MintKeepsAccounts, SpendKeepsAccounts, TransferKeepsAccounts
  DEF TokenNext

LEMMA InitAccounts == TokenInit => SupplyAccounted
<1> SUFFICES ASSUME TokenInit PROVE SupplyAccounted
  OBVIOUS
<1>1. TokenTypeOK
  BY TokenAssumption DEF TokenInit, TokenTypeOK, Uint
<1>2. Total([s \in Stacks |-> 0]) = 0
  BY TotalZero, TokenAssumption
<1>3. \A k \in Kinds : balanceOfStack[k] = [s \in Stacks |-> 0] /\ spent[k] = [s \in Stacks |-> 0]
                       /\ totalSupply[k] = 0 /\ minted[k] = 0
  BY DEF TokenInit
<1> QED BY <1>1, <1>2, <1>3 DEF SupplyAccounted

\* In the contracts taken by themselves, under any mixture of mints, burns, transfers and
\* changes of owners and minters, the supply is what the stacks hold and what the events say.
THEOREM TokensAccounted == TokenSpec => []SupplyAccounted
<1>1. SupplyAccounted /\ UNCHANGED tokenVars => SupplyAccounted'
  BY DEF SupplyAccounted, TokenTypeOK, tokenVars
<1> QED BY <1>1, InitAccounts, TokenStepKeepsAccounts, PTL DEF TokenSpec

-----------------------------------------------------------------------------
(* TripartiteGame.                                                          *)

GameIInv == GameTypeOK /\ AlwaysFair /\ OnlyPartiesConsume

LEMMA InitGameIInv == GameInit => GameIInv
  BY TokenAssumption, GameAssumption
  DEF GameInit, TokenInit, GameIInv, GameTypeOK, TokenTypeOK, AlwaysFair, VerifyAllocationFair,
      OnlyPartiesConsume, Registered, Uint

-----------------------------------------------------------------------------
\* The effect of a consumption on the ledger of the game.
LEMMA ConsumeBooks ==
  ASSUME GameTypeOK, NEW g \in GameIds, NEW s \in Stacks, NEW e \in GameEpochs, NEW k \in Kinds,
         NEW amount \in Uint, Consume(g, s, e, k, amount)
  PROVE  /\ Registered(g, s) /\ parties[g][s] \in [Kinds -> Uint]
         /\ consumed[g][e][s][k] + amount \in Uint
         /\ consumed[g][e][s][k] + amount <= parties[g][s][k]
         /\ consumed' \in [GameIds -> [GameEpochs -> [Stacks -> [Kinds -> Uint]]]]
         /\ \A h \in GameIds, f \in GameEpochs, t \in Stacks, j \in Kinds :
               consumed'[h][f][t][j] =
                  IF h = g /\ f = e /\ t = s /\ j = k
                  THEN consumed[g][e][s][k] + amount ELSE consumed[h][f][t][j]
<1>1. /\ Registered(g, s)
      /\ consumed[g][e][s][k] + amount <= parties[g][s][k]
      /\ consumed' = [consumed EXCEPT ![g][e][s][k] = @ + amount]
  BY DEF Consume
<1>2. parties[g][s] \in [Kinds -> Uint]
  BY <1>1 DEF GameTypeOK, Registered
<1>3. consumed[g][e][s][k] + amount \in Uint
  BY <1>1, <1>2, TokenAssumption DEF GameTypeOK, Uint
<1>4. /\ consumed \in [GameIds -> [GameEpochs -> [Stacks -> [Kinds -> Uint]]]]
      /\ consumed[g] \in [GameEpochs -> [Stacks -> [Kinds -> Uint]]]
      /\ consumed[g][e] \in [Stacks -> [Kinds -> Uint]]
      /\ consumed[g][e][s] \in [Kinds -> Uint]
  BY DEF GameTypeOK
<1>5. consumed' \in [GameIds -> [GameEpochs -> [Stacks -> [Kinds -> Uint]]]]
  BY <1>1, <1>3, <1>4
<1>6. ASSUME NEW h \in GameIds, NEW f \in GameEpochs, NEW t \in Stacks, NEW j \in Kinds
      PROVE  consumed'[h][f][t][j] = IF h = g /\ f = e /\ t = s /\ j = k
                                     THEN consumed[g][e][s][k] + amount
                                     ELSE consumed[h][f][t][j]
  BY <1>1, <1>4
<1> QED BY <1>1, <1>2, <1>3, <1>5, <1>6

LEMMA ConsumeKeepsGameIInv ==
  ASSUME GameIInv, NEW g \in GameIds, NEW s \in Stacks, NEW e \in GameEpochs, NEW k \in Kinds,
         NEW amount \in Uint, Consume(g, s, e, k, amount)
  PROVE  GameIInv'
<1>1. parties' = parties /\ games' = games /\ Spend(k, GameContract, s, amount)
  BY DEF Consume
<1>2. TokenTypeOK'
  BY <1>1, SpendKeepsType, GameAssumption DEF GameIInv, GameTypeOK
<1>3. GameTypeOK'
  BY <1>1, <1>2, ConsumeBooks DEF GameIInv, GameTypeOK
<1>4. AlwaysFair'
  <2> SUFFICES ASSUME NEW h \in GameIds, NEW f \in GameEpochs, NEW t \in Stacks,
                      Registered(h, t)', NEW j \in Kinds
               PROVE  consumed'[h][f][t][j] <= parties'[h][t][j]
    BY DEF AlwaysFair, VerifyAllocationFair
  <2>1. CASE h = g /\ f = e /\ t = s /\ j = k
    <3>1. consumed'[h][f][t][j] = consumed[g][e][s][k] + amount
      BY <2>1, ConsumeBooks DEF GameIInv
    <3>2. consumed[g][e][s][k] + amount <= parties[g][s][k]
      BY ConsumeBooks DEF GameIInv
    <3> QED BY <1>1, <2>1, <3>1, <3>2
  <2>2. CASE ~(h = g /\ f = e /\ t = s /\ j = k)
    <3>1. consumed'[h][f][t][j] = consumed[h][f][t][j]
      BY <2>2, ConsumeBooks DEF GameIInv
    <3>2. Registered(h, t)
      BY <1>1 DEF Registered
    <3> QED BY <1>1, <3>1, <3>2 DEF GameIInv, AlwaysFair, VerifyAllocationFair
  <2> QED BY <2>1, <2>2
<1>5. OnlyPartiesConsume'
  <2> SUFFICES ASSUME NEW h \in GameIds, NEW f \in GameEpochs, NEW t \in Stacks, NEW j \in Kinds,
                      consumed'[h][f][t][j] > 0
               PROVE  Registered(h, t)'
    BY DEF OnlyPartiesConsume
  <2>1. CASE h = g /\ f = e /\ t = s /\ j = k
    BY <1>1, <2>1, ConsumeBooks DEF GameIInv, Registered
  <2>2. CASE ~(h = g /\ f = e /\ t = s /\ j = k)
    <3>1. consumed'[h][f][t][j] = consumed[h][f][t][j]
      BY <2>2, ConsumeBooks DEF GameIInv
    <3> QED BY <1>1, <3>1 DEF GameIInv, OnlyPartiesConsume, Registered
  <2> QED BY <2>1, <2>2
<1> QED BY <1>3, <1>4, <1>5 DEF GameIInv

\* A registration caps a stack that has consumed nothing yet.
LEMMA RegisterKeepsGameIInv ==
  ASSUME GameIInv, NEW sender \in Accounts, NEW g \in GameIds, NEW s \in Stacks,
         NEW budget \in [Kinds -> Uint], RegisterParty(sender, g, s, budget)
  PROVE  GameIInv'
<1>1. /\ ~Registered(g, s) /\ parties' = [parties EXCEPT ![g][s] = budget]
      /\ games' = games /\ consumed' = consumed /\ UNCHANGED tokenVars
  BY DEF RegisterParty
<1>2. GameTypeOK'
  BY <1>1 DEF GameIInv, GameTypeOK, TokenTypeOK, tokenVars
<1>3. \A h \in GameIds, t \in Stacks :
         parties'[h][t] = IF h = g /\ t = s THEN budget ELSE parties[h][t]
  BY <1>1 DEF GameIInv, GameTypeOK
<1>4. budget # Unregistered
  BY GameAssumption
<1>5. \A e \in GameEpochs, k \in Kinds : consumed[g][e][s][k] = 0 /\ 0 <= budget[k]
  BY <1>1, TokenAssumption DEF GameIInv, GameTypeOK, OnlyPartiesConsume, Uint
<1>6. AlwaysFair'
  BY <1>1, <1>3, <1>4, <1>5 DEF GameIInv, AlwaysFair, VerifyAllocationFair, Registered
<1>7. OnlyPartiesConsume'
  BY <1>1, <1>3, <1>4 DEF GameIInv, OnlyPartiesConsume, Registered
<1> QED BY <1>2, <1>6, <1>7 DEF GameIInv

LEMMA StepKeepsGameIInv == GameIInv /\ [GameNext]_tripartiteVars => GameIInv'
<1> SUFFICES ASSUME GameIInv, [GameNext]_tripartiteVars PROVE GameIInv'
  OBVIOUS
<1>1. CASE TokenNext /\ UNCHANGED gameVars
  BY <1>1, TokenStepKeepsType
  DEF gameVars, GameIInv, GameTypeOK, AlwaysFair, VerifyAllocationFair, OnlyPartiesConsume, Registered
<1>2. ASSUME NEW sender \in Accounts, NEW g \in GameIds, OpenGame(sender, g) PROVE GameIInv'
  BY <1>2 DEF OpenGame, tokenVars, GameIInv, GameTypeOK, TokenTypeOK, AlwaysFair,
              VerifyAllocationFair, OnlyPartiesConsume, Registered
<1>3. CASE UNCHANGED tripartiteVars
  BY <1>3 DEF tripartiteVars, tokenVars, gameVars, GameIInv, GameTypeOK, TokenTypeOK, AlwaysFair,
              VerifyAllocationFair, OnlyPartiesConsume, Registered
<1> QED BY <1>1, <1>2, <1>3, RegisterKeepsGameIInv, ConsumeKeepsGameIInv DEF GameNext

\* What the fairness of the audit rests on: consume checks each booking against the budget
\* of a registered party, and registration, which would lower or raise it, happens once.
THEOREM GameInvariant == GameSpec => []GameIInv
<1> QED BY InitGameIInv, StepKeepsGameIInv, PTL DEF GameSpec

\* Every ledger keeps its type: no balance, supply or booking leaves the word.
THEOREM GameTypeCorrect == GameSpec => []GameTypeOK
<1>1. GameIInv => GameTypeOK BY DEF GameIInv
<1> QED BY <1>1, GameInvariant, PTL

\* verifyAllocationFair answers true for every game and epoch, in every state.
THEOREM Fair == GameSpec => []AlwaysFair
<1>1. GameIInv => AlwaysFair BY DEF GameIInv
<1> QED BY <1>1, GameInvariant, PTL

\* No consumption is ever booked against a stack outside the game's roster.
THEOREM PartiesOnly == GameSpec => []OnlyPartiesConsume
<1>1. GameIInv => OnlyPartiesConsume BY DEF GameIInv
<1> QED BY <1>1, GameInvariant, PTL
-----------------------------------------------------------------------------
(* What is booked was burned.                                               *)

\* No operation of the token contracts takes a burn back.
LEMMA SpentGrows ==
  ASSUME TokenTypeOK, TokenNext, NEW k \in Kinds, NEW s \in Stacks
  PROVE  spent[k][s] <= spent'[k][s]
<1>1. spent[k][s] \in Nat
  BY DEF TokenTypeOK
<1>2. ASSUME NEW j \in Kinds, NEW sender \in Accounts, NEW t \in Stacks, NEW amount \in Uint,
             Spend(j, sender, t, amount)
      PROVE  spent[k][s] <= spent'[k][s]
  BY <1>1, <1>2, TokenAssumption DEF Spend, TokenTypeOK, Uint
<1>3. spent' = spent => spent[k][s] <= spent'[k][s]
  BY <1>1
<1> QED
  BY <1>2, <1>3 DEF TokenNext, ChangeOwner, SetMinter, AuthorizeSleeve, Mint, TransferStack

Booked(s, k) == [ge \in GameIds \X GameEpochs |-> consumed[ge[1]][ge[2]][s][k]]

LEMMA BookedIsLedger ==
  ASSUME GameTypeOK, NEW s \in Stacks, NEW k \in Kinds
  PROVE  Booked(s, k) \in [GameIds \X GameEpochs -> Int]
<1>1. \A ge \in GameIds \X GameEpochs : consumed[ge[1]][ge[2]][s][k] \in Int
  BY TokenAssumption DEF GameTypeOK, Uint
<1> QED BY <1>1 DEF Booked

\* One booking and one burn, of the same amount.
LEMMA ConsumeKeepsBurned ==
  ASSUME GameTypeOK, ConsumptionIsBurned, NEW g \in GameIds, NEW s \in Stacks, NEW e \in GameEpochs,
         NEW k \in Kinds, NEW amount \in Uint, Consume(g, s, e, k, amount)
  PROVE  ConsumptionIsBurned'
<1> SUFFICES ASSUME NEW t \in Stacks, NEW j \in Kinds
             PROVE  Total(Booked(t, j)') <= spent'[j][t]
  BY DEF ConsumptionIsBurned, Booked
<1>1. Total(Booked(t, j)) <= spent[j][t]
  BY DEF ConsumptionIsBurned, Booked
<1>2. /\ consumed' \in [GameIds -> [GameEpochs -> [Stacks -> [Kinds -> Uint]]]]
      /\ \A h \in GameIds, f \in GameEpochs :
            consumed'[h][f][t][j] = IF h = g /\ f = e /\ t = s /\ j = k
                                    THEN consumed[g][e][s][k] + amount ELSE consumed[h][f][t][j]
  BY ConsumeBooks
<1>3. spent' = [spent EXCEPT ![k][s] = @ + amount]
  BY DEF Consume, Spend
<1>4. CASE t = s /\ j = k
  <2> DEFINE D == GameIds \X GameEpochs
             x == <<g, e>>
  <2>1. IsFiniteSet(D)
    BY GameAssumption, FS_Product
  <2>2. Booked(s, k) \in [D -> Int]
    BY BookedIsLedger
  <2>3. Booked(s, k)' \in [D -> Int]
    <3>1. \A ge \in D : consumed'[ge[1]][ge[2]][s][k] \in Int
      BY <1>2, TokenAssumption DEF Uint
    <3> QED BY <3>1 DEF Booked
  <2>4. /\ x \in D /\ Booked(s, k)'[x] = Booked(s, k)[x] + amount
        /\ \A y \in D : y # x => Booked(s, k)'[y] = Booked(s, k)[y]
    BY <1>2, <1>4 DEF Booked
  <2>5. Total(Booked(s, k)') = Total(Booked(s, k)) + (Booked(s, k)'[x] - Booked(s, k)[x])
    <3> HIDE DEF D, x
    <3> QED BY ONLY <2>1, <2>2, <2>3, <2>4, TotalWrite
  <2>6. Total(Booked(s, k)) \in Int /\ Booked(s, k)[x] \in Int /\ amount \in Int
    BY <2>1, <2>2, <2>4, TotalType, TokenAssumption DEF Uint
  <2>7. spent'[k][s] = spent[k][s] + amount /\ spent[k][s] \in Int
    BY <1>3 DEF GameTypeOK, TokenTypeOK
  <2> HIDE DEF x
  <2> QED BY <1>1, <1>4, <2>4, <2>5, <2>6, <2>7
<1>5. CASE ~(t = s /\ j = k)
  <2>1. Booked(t, j)' = Booked(t, j)
    BY <1>2, <1>5 DEF Booked
  <2>2. spent'[j][t] = spent[j][t]
    BY <1>3, <1>5 DEF GameTypeOK, TokenTypeOK
  <2> QED BY <1>1, <2>1, <2>2
<1> QED BY <1>4, <1>5

LEMMA InitBurned == GameInit => ConsumptionIsBurned
<1> SUFFICES ASSUME GameInit, NEW s \in Stacks, NEW k \in Kinds
             PROVE  Total(Booked(s, k)) <= spent[k][s]
  BY DEF ConsumptionIsBurned, Booked
<1>1. Booked(s, k) = [ge \in GameIds \X GameEpochs |-> 0]
  BY DEF GameInit, Booked
<1>2. Total(Booked(s, k)) = 0
  BY <1>1, TotalZero, GameAssumption, FS_Product
<1>3. spent[k][s] = 0
  BY DEF GameInit, TokenInit
<1> QED BY <1>2, <1>3

LEMMA StepKeepsBurned == GameTypeOK /\ ConsumptionIsBurned /\ [GameNext]_tripartiteVars => ConsumptionIsBurned'
<1> SUFFICES ASSUME GameTypeOK, ConsumptionIsBurned, [GameNext]_tripartiteVars PROVE ConsumptionIsBurned'
  OBVIOUS
<1>1. CASE TokenNext /\ UNCHANGED gameVars
  <2> SUFFICES ASSUME NEW s \in Stacks, NEW k \in Kinds
               PROVE  Total(Booked(s, k)') <= spent'[k][s]
    BY DEF ConsumptionIsBurned, Booked
  <2>1. Booked(s, k)' = Booked(s, k)
    BY <1>1 DEF gameVars, Booked
  <2>2. Total(Booked(s, k)) \in Int /\ Total(Booked(s, k)) <= spent[k][s]
    BY BookedIsLedger, TotalType, GameAssumption, FS_Product DEF ConsumptionIsBurned, Booked
  <2>3. spent[k][s] <= spent'[k][s]
    BY <1>1, SpentGrows DEF GameTypeOK
  <2>4. spent[k][s] \in Int /\ spent'[k][s] \in Int
    BY <1>1, TokenStepKeepsType DEF GameTypeOK, TokenTypeOK
  <2> QED BY <2>1, <2>2, <2>3, <2>4
<1>2. ASSUME NEW sender \in Accounts, NEW g \in GameIds, OpenGame(sender, g)
      PROVE  ConsumptionIsBurned'
  BY <1>2 DEF OpenGame, tokenVars, ConsumptionIsBurned
<1>3. ASSUME NEW sender \in Accounts, NEW g \in GameIds, NEW s \in Stacks,
             NEW budget \in [Kinds -> Uint], RegisterParty(sender, g, s, budget)
      PROVE  ConsumptionIsBurned'
  BY <1>3 DEF RegisterParty, tokenVars, ConsumptionIsBurned
<1>4. CASE UNCHANGED tripartiteVars
  BY <1>4 DEF tripartiteVars, tokenVars, gameVars, ConsumptionIsBurned
<1> QED BY <1>1, <1>2, <1>3, <1>4, ConsumeKeepsBurned DEF GameNext

\* No two games, epochs or calls count one burn twice: what all of them booked against a
\* stack is at most what the token contract burned from it.
THEOREM BookedWasBurned == GameSpec => []ConsumptionIsBurned
<1>1. GameIInv => GameTypeOK
  BY DEF GameIInv
<1> QED BY <1>1, InitBurned, StepKeepsBurned, GameInvariant, PTL DEF GameSpec

\* Over the games, too, a token's supply is what the stacks hold and what the events say.
THEOREM GameTokensAccounted == GameSpec => []SupplyAccounted
<1>1. GameInit => SupplyAccounted
  BY InitAccounts DEF GameInit
<1>2. SupplyAccounted /\ [GameNext]_tripartiteVars => SupplyAccounted'
  <2> SUFFICES ASSUME SupplyAccounted, [GameNext]_tripartiteVars PROVE SupplyAccounted'
    OBVIOUS
  <2>1. CASE TokenNext
    BY <2>1, TokenStepKeepsAccounts
  <2>2. ASSUME NEW g \in GameIds, NEW s \in Stacks, NEW e \in GameEpochs, NEW k \in Kinds,
               NEW amount \in Uint, Consume(g, s, e, k, amount)
        PROVE  SupplyAccounted'
    BY <2>2, SpendKeepsAccounts, GameAssumption DEF Consume
  <2>3. CASE UNCHANGED tokenVars
    BY <2>3 DEF tokenVars, SupplyAccounted, TokenTypeOK
  <2> QED BY <2>1, <2>2, <2>3 DEF GameNext, OpenGame, RegisterParty, tripartiteVars
<1> QED BY <1>1, <1>2, PTL DEF GameSpec

-----------------------------------------------------------------------------
(* The treaty.                                                              *)

Joined == [g \in GameIds |-> {s \in Stacks : Registered(g, s)}]
Remaining == [g \in GameIds |-> [s \in Stacks |-> [e \in GameEpochs |->
                [k \in Kinds |-> RemainingBudget(g, s, e, k)]]]]

\* Two functions that agree but at one argument differ by an EXCEPT.
LEMMA PointUpdate ==
  ASSUME NEW A, NEW V, NEW f \in [A -> V], NEW g \in [A -> V], NEW a \in A,
         \A w \in A : w # a => g[w] = f[w]
  PROVE  g = [f EXCEPT ![a] = g[a]]
  OBVIOUS

\* So do two ledgers that agree but at one entry, or but at one party.
LEMMA EntryUpdate ==
  ASSUME NEW A, NEW B, NEW C, NEW D, NEW V,
         NEW F \in [A -> [B -> [C -> [D -> V]]]], NEW G \in [A -> [B -> [C -> [D -> V]]]],
         NEW a \in A, NEW b \in B, NEW c \in C, NEW d \in D, NEW v,
         G[a][b][c][d] = v,
         \A w \in A, x \in B, y \in C, z \in D :
            ~(w = a /\ x = b /\ y = c /\ z = d) => G[w][x][y][z] = F[w][x][y][z]
  PROVE  G = [F EXCEPT ![a][b][c][d] = v]
<1>1. \A w \in A : w # a => G[w] = F[w]
  OBVIOUS
<1>2. \A x \in B : x # b => G[a][x] = F[a][x]
  OBVIOUS
<1>3. \A y \in C : y # c => G[a][b][y] = F[a][b][y]
  OBVIOUS
<1>4. /\ F[a] \in [B -> [C -> [D -> V]]] /\ G[a] \in [B -> [C -> [D -> V]]]
      /\ F[a][b] \in [C -> [D -> V]] /\ G[a][b] \in [C -> [D -> V]]
      /\ F[a][b][c] \in [D -> V] /\ G[a][b][c] \in [D -> V]
  OBVIOUS
<1>5. G[a][b][c] = [F[a][b][c] EXCEPT ![d] = G[a][b][c][d]]
  BY <1>4, PointUpdate
<1>6. G[a][b] = [F[a][b] EXCEPT ![c] = G[a][b][c]]
  BY <1>3, <1>4, PointUpdate
<1>7. G[a] = [F[a] EXCEPT ![b] = G[a][b]]
  BY <1>2, <1>4, PointUpdate
<1>8. G = [F EXCEPT ![a] = G[a]]
  BY <1>1, PointUpdate
<1> QED BY <1>5, <1>6, <1>7, <1>8

LEMMA PartyUpdate ==
  ASSUME NEW A, NEW B, NEW C, NEW D, NEW V,
         NEW F \in [A -> [B -> [C -> [D -> V]]]], NEW G \in [A -> [B -> [C -> [D -> V]]]],
         NEW a \in A, NEW b \in B, NEW u \in [D -> V],
         \A y \in C, z \in D : G[a][b][y][z] = u[z],
         \A w \in A, x \in B, y \in C, z \in D :
            ~(w = a /\ x = b) => G[w][x][y][z] = F[w][x][y][z]
  PROVE  G = [F EXCEPT ![a][b] = [y \in C |-> u]]
<1>1. \A w \in A : w # a => G[w] = F[w]
  OBVIOUS
<1>2. \A x \in B : x # b => G[a][x] = F[a][x]
  OBVIOUS
<1>3. \A y \in C : G[a][b][y] = u
  <2> SUFFICES ASSUME NEW y \in C PROVE G[a][b][y] = u
    OBVIOUS
  <2>1. G[a][b][y] \in [D -> V]
    OBVIOUS
  <2> QED BY <2>1
<1>4. G[a][b] = [y \in C |-> u]
  BY <1>3
<1>5. G[a] = [F[a] EXCEPT ![b] = [y \in C |-> u]]
  BY <1>2, <1>4
<1> QED BY <1>1, <1>5

\* The view answers an integer, whatever the ledgers it is read from.
LEMMA ViewIsInteger ==
  ASSUME NEW P \in [GameIds -> [Stacks -> [Kinds -> Uint] \cup {Unregistered}]],
         NEW Q \in [GameIds -> [GameEpochs -> [Stacks -> [Kinds -> Uint]]]],
         NEW g \in GameIds, NEW s \in Stacks, NEW e \in GameEpochs, NEW k \in Kinds
  PROVE  (IF ~(P[g][s] # Unregistered) THEN 0
          ELSE IF P[g][s][k] > Q[g][e][s][k] THEN P[g][s][k] - Q[g][e][s][k] ELSE 0) \in Int
<1>1. CASE P[g][s] = Unregistered
  BY <1>1
<1>2. CASE P[g][s] # Unregistered
  <2>1. P[g][s][k] \in Int /\ Q[g][e][s][k] \in Int
    BY <1>2, TokenAssumption DEF Uint
  <2> QED BY <1>2, <2>1
<1> QED BY <1>1, <1>2

LEMMA RemainingIsInteger ==
  ASSUME GameTypeOK PROVE Remaining \in [GameIds -> [Stacks -> [GameEpochs -> [Kinds -> Int]]]]
<1>1. \A g \in GameIds, s \in Stacks, e \in GameEpochs, k \in Kinds :
         RemainingBudget(g, s, e, k) \in Int
  BY ViewIsInteger DEF GameTypeOK, RemainingBudget, Registered
<1> QED BY <1>1 DEF Remaining

LEMMA RemainingStaysInteger ==
  ASSUME GameTypeOK' PROVE Remaining' \in [GameIds -> [Stacks -> [GameEpochs -> [Kinds -> Int]]]]
<1>1. \A g \in GameIds, s \in Stacks, e \in GameEpochs, k \in Kinds :
         RemainingBudget(g, s, e, k)' \in Int
  BY ViewIsInteger DEF GameTypeOK, RemainingBudget, Registered
<1> QED BY <1>1 DEF Remaining

LEMMA InitJoinsNobody == GameInit => Promised!Init
<1> SUFFICES ASSUME GameInit PROVE Promised!Init
  OBVIOUS
<1>1. \A g \in GameIds, s \in Stacks : ~Registered(g, s)
  BY DEF GameInit, Registered
<1>2. Joined = [g \in GameIds |-> {}]
  BY <1>1 DEF Joined
<1>3. Remaining = [g \in GameIds |-> [s \in Stacks |-> [e \in GameEpochs |-> [k \in Kinds |-> 0]]]]
  BY <1>1 DEF Remaining, RemainingBudget
<1> QED BY <1>2, <1>3 DEF Promised!Init, Joined, Remaining

\* Steps that leave the roster and the bookings alone are invisible.
LEMMA OtherStepsStutter ==
  ASSUME UNCHANGED <<parties, consumed>> PROVE UNCHANGED Promised!vars
  BY DEF Promised!vars, Registered, RemainingBudget

\* registerParty is a Join with the registered budget.
LEMMA RegisterJoins ==
  ASSUME GameIInv, NEW sender \in Accounts, NEW g \in GameIds, NEW s \in Stacks,
         NEW budget \in [Kinds -> Uint], RegisterParty(sender, g, s, budget)
  PROVE  Promised!Next
<1>1. /\ ~Registered(g, s) /\ consumed' = consumed
      /\ \A h \in GameIds, t \in Stacks :
            parties'[h][t] = IF h = g /\ t = s THEN budget ELSE parties[h][t]
  BY DEF RegisterParty, GameIInv, GameTypeOK
<1>2. budget # Unregistered
  BY GameAssumption
<1>3. \A h \in GameIds, t \in Stacks :
         Registered(h, t)' <=> (Registered(h, t) \/ (h = g /\ t = s))
  BY <1>1, <1>2 DEF Registered
<1>4. \A f \in GameEpochs, j \in Kinds :
         /\ consumed[g][f][s][j] = 0
         /\ budget[j] \in Int /\ budget[j] >= 0
  BY <1>1, TokenAssumption DEF GameIInv, GameTypeOK, OnlyPartiesConsume, Uint
<1>5. \A h \in GameIds, t \in Stacks, f \in GameEpochs, j \in Kinds :
         RemainingBudget(h, t, f, j)' =
            IF h = g /\ t = s THEN budget[j] ELSE RemainingBudget(h, t, f, j)
  <2> SUFFICES ASSUME NEW h \in GameIds, NEW t \in Stacks, NEW f \in GameEpochs, NEW j \in Kinds
               PROVE  RemainingBudget(h, t, f, j)' =
                         IF h = g /\ t = s THEN budget[j] ELSE RemainingBudget(h, t, f, j)
    OBVIOUS
  <2>1. CASE h = g /\ t = s
    BY <2>1, <1>1, <1>2, <1>4 DEF RemainingBudget, Registered
  <2>2. CASE ~(h = g /\ t = s)
    BY <2>2, <1>1 DEF RemainingBudget, Registered
  <2> QED BY <2>1, <2>2
<1>6. Joined' = [Joined EXCEPT ![g] = @ \cup {s}]
  BY <1>3 DEF Joined
<1>7. budget = [j \in Kinds |-> budget[j]]
  OBVIOUS
<1>8. Remaining' = [Remaining EXCEPT ![g][s] = [f \in GameEpochs |-> budget]]
  <2>1. /\ Remaining \in [GameIds -> [Stacks -> [GameEpochs -> [Kinds -> Int]]]]
        /\ Remaining' \in [GameIds -> [Stacks -> [GameEpochs -> [Kinds -> Int]]]]
    BY RegisterKeepsGameIInv, RemainingIsInteger, RemainingStaysInteger DEF GameIInv
  <2>2. budget \in [Kinds -> Int]
    BY TokenAssumption DEF Uint
  <2>3. \A h \in GameIds, t \in Stacks, f \in GameEpochs, j \in Kinds :
           Remaining'[h][t][f][j] =
              IF h = g /\ t = s THEN budget[j] ELSE Remaining[h][t][f][j]
    BY <1>5 DEF Remaining
  <2> QED BY <2>1, <2>2, <2>3, PartyUpdate
<1>9. s \notin Joined[g]
  BY <1>1 DEF Joined
<1>10. Promised!Join(g, s, budget)
  BY <1>6, <1>8, <1>9 DEF Promised!Join, Joined, Remaining
<1> QED BY <1>10 DEF Promised!Next

\* consume is a Use of the amount consumed.
LEMMA ConsumeUses ==
  ASSUME GameIInv, NEW g \in GameIds, NEW s \in Stacks, NEW e \in GameEpochs, NEW k \in Kinds,
         NEW amount \in Uint, Consume(g, s, e, k, amount)
  PROVE  Promised!Next
<1>1. parties' = parties
  BY DEF Consume
<1>2. /\ Registered(g, s)
      /\ consumed[g][e][s][k] + amount <= parties[g][s][k]
      /\ consumed[g][e][s][k] \in Int /\ amount \in Int /\ parties[g][s][k] \in Int
      /\ amount >= 0
  BY ConsumeBooks, TokenAssumption DEF GameIInv, GameTypeOK, Uint
<1>3. \A h \in GameIds, t \in Stacks, f \in GameEpochs, j \in Kinds :
         consumed'[h][f][t][j] =
            IF h = g /\ f = e /\ t = s /\ j = k
            THEN consumed[g][e][s][k] + amount ELSE consumed[h][f][t][j]
  BY ConsumeBooks DEF GameIInv
<1>4. RemainingBudget(g, s, e, k) = parties[g][s][k] - consumed[g][e][s][k]
  BY <1>2 DEF RemainingBudget
<1>5. RemainingBudget(g, s, e, k)' = RemainingBudget(g, s, e, k) - amount
  <2>1. RemainingBudget(g, s, e, k)' = parties[g][s][k] - (consumed[g][e][s][k] + amount)
    BY <1>1, <1>2, <1>3 DEF RemainingBudget, Registered
  <2> QED BY <2>1, <1>2, <1>4
<1>6. \A h \in GameIds, t \in Stacks, f \in GameEpochs, j \in Kinds :
         ~(h = g /\ f = e /\ t = s /\ j = k) =>
            RemainingBudget(h, t, f, j)' = RemainingBudget(h, t, f, j)
  BY <1>1, <1>3 DEF RemainingBudget, Registered
<1>7. Joined' = Joined /\ s \in Joined[g]
  BY <1>1, <1>2 DEF Joined, Registered
<1>8. Remaining[g][s][e][k] = RemainingBudget(g, s, e, k)
  BY DEF Remaining
<1>9. Remaining' = [Remaining EXCEPT ![g][s][e][k] = Remaining[g][s][e][k] - amount]
  <2>1. /\ Remaining \in [GameIds -> [Stacks -> [GameEpochs -> [Kinds -> Int]]]]
        /\ Remaining' \in [GameIds -> [Stacks -> [GameEpochs -> [Kinds -> Int]]]]
    BY ConsumeKeepsGameIInv, RemainingIsInteger, RemainingStaysInteger DEF GameIInv
  <2>2. Remaining'[g][s][e][k] = Remaining[g][s][e][k] - amount
    BY <1>5, <1>8 DEF Remaining
  <2>3. \A h \in GameIds, t \in Stacks, f \in GameEpochs, j \in Kinds :
           ~(h = g /\ t = s /\ f = e /\ j = k) => Remaining'[h][t][f][j] = Remaining[h][t][f][j]
    BY <1>6 DEF Remaining
  <2> QED BY <2>1, <2>2, <2>3, EntryUpdate, SMTT(30)
<1>10. amount <= Remaining[g][s][e][k]
  BY <1>2, <1>4, <1>8
<1>11. Promised!Use(g, s, e, k, amount)
  BY <1>7, <1>9, <1>10 DEF Promised!Use, Joined, Remaining
<1> QED BY <1>11 DEF Promised!Next

LEMMA StepImplements == GameIInv /\ [GameNext]_tripartiteVars => [Promised!Next]_Promised!vars
<1> SUFFICES ASSUME GameIInv, [GameNext]_tripartiteVars PROVE Promised!Next \/ UNCHANGED Promised!vars
  OBVIOUS
<1>1. CASE TokenNext /\ UNCHANGED gameVars
  BY <1>1, OtherStepsStutter DEF gameVars
<1>2. ASSUME NEW sender \in Accounts, NEW g \in GameIds, OpenGame(sender, g)
      PROVE  UNCHANGED Promised!vars
  BY <1>2, OtherStepsStutter DEF OpenGame
<1>3. CASE UNCHANGED tripartiteVars
  BY <1>3, OtherStepsStutter DEF tripartiteVars, gameVars
<1> QED BY <1>1, <1>2, <1>3, RegisterJoins, ConsumeUses DEF GameNext

\* The contracts implement the treaty, under any mixture of token operations,
\* ownership changes and games.
THEOREM ImplementsTheTreaty == GameSpec => ImplementsTreaty
<1> QED BY InitJoinsNobody, StepImplements, GameInvariant, PTL
        DEF GameSpec, ImplementsTreaty, Promised!Spec

-----------------------------------------------------------------------------
(* TokenEconomy.                                                            *)

(* Arithmetic. *)

LEMMA ProductType == \A i, j \in Nat : i * j \in Nat
  OBVIOUS

LEMMA ProductGrows == \A i, j, k \in Nat : i <= j => k * i <= k * j /\ i * k <= j * k
  OBVIOUS

LEMMA QuotientType == \A i \in Nat, s \in Nat \ {0} : i \div s \in Nat /\ s * (i \div s) <= i
  OBVIOUS

LEMMA QuotientGrows == \A i, j \in Nat, s \in Nat \ {0} : i <= j => i \div s <= j \div s
  OBVIOUS

LEMMA Distributes == \A k, a, b \in Int : k * (a + b) = k * a + k * b
  OBVIOUS

\* A part of a rate is no more than the rate.
LEMMA PartIsLess ==
  ASSUME NEW m \in Nat, NEW s \in Nat \ {0}, NEW d \in 0 .. s
  PROVE  (m * (s - d)) \div s \in Nat /\ (m * (s - d)) \div s <= m
<1>1. m * (s - d) <= m * s /\ m * (s - d) \in Nat /\ m * s \in Nat
  BY ProductGrows, ProductType
<1>2. (m * s) \div s = m
  OBVIOUS
<1> QED BY <1>1, <1>2, QuotientType, QuotientGrows

LEMMA MaxOfTwo ==
  ASSUME NEW a \in Nat, NEW b \in Nat
  PROVE  Max({a, b}) \in {a, b} /\ Max({a, b}) \in Nat /\ a <= Max({a, b}) /\ b <= Max({a, b})
<1>1. \E x \in {a, b} : \A y \in {a, b} : x >= y
  BY a >= b \/ b >= a
<1> QED BY <1>1 DEF Max

\* A set of words has a largest element.
LEMMA MaxOfWords ==
  ASSUME NEW S \in SUBSET Uint, S # {}
  PROVE  Max(S) \in S /\ \A x \in S : x <= Max(S)
<1> DEFINE T == {i \in Uint : MaxUint - i \in S}
           less == OpToRel(<, Nat)
<1>1. MaxUint \in Nat /\ Uint \subseteq Nat
  BY TokenAssumption DEF Uint
<1>2. \A x \in S : MaxUint - x \in T /\ x = MaxUint - (MaxUint - x)
  BY <1>1 DEF Uint
<1>3. IsWellFoundedOn(less, Nat)
  BY NatLessThanWellFounded
<1>4. T \in SUBSET Nat /\ T # {}
  BY <1>1, <1>2
<1>5. PICK n \in T : \A m \in T : <<m, n>> \notin less
  <2> HIDE DEF less, T
  <2> QED BY <1>3, <1>4, WFMin
<1>6. \A m \in T : n <= m
  <2>1. \A i, j \in Nat : i < j => <<i, j>> \in less
    BY DEF OpToRel
  <2> HIDE DEF less, T
  <2>2. ASSUME NEW m \in T PROVE ~(m < n)
    BY <1>4, <1>5, <2>1
  <2> QED BY <1>4, <2>2
<1>7. MaxUint - n \in S /\ \A y \in S : MaxUint - n >= y
  <2> SUFFICES ASSUME NEW y \in S PROVE MaxUint - n >= y
    OBVIOUS
  <2>1. n <= MaxUint - y
    BY <1>2, <1>6
  <2> QED BY <1>1, <1>4, <2>1
<1>8. \E x \in S : \A y \in S : x >= y
  BY <1>7
<1> QED BY <1>1, <1>8 DEF Max

-----------------------------------------------------------------------------
(* The decay of the swap's rate is a recursive function, too.               *)

\* m gives the rate after each of 0 .. n epochs, from base, losing decay of Scale.
Falling(m, base, decay, n) ==
    m = [i \in 0 .. n |-> IF i = 0 THEN base
                          ELSE IF i > MaxDecays THEN m[i - 1]
                          ELSE (m[i - 1] * (Scale - decay)) \div Scale]

LEMMA FallingExists ==
  ASSUME NEW base, NEW decay, NEW n \in Nat
  PROVE  \E m : Falling(m, base, decay, n)
<1> DEFINE A == {k \in Nat : \E m : Falling(m, base, decay, k)}
<1>1. A \in SUBSET Nat /\ \A k \in Nat : k \in A <=> \E m : Falling(m, base, decay, k)
  OBVIOUS
<1> HIDE DEF A
<1>2. 0 \in A
  <2>1. Falling([i \in 0 .. 0 |-> base], base, decay, 0)
    BY DEF Falling
  <2> QED BY <1>1, <2>1
<1>3. ASSUME NEW k \in A PROVE k + 1 \in A
  <2>1. PICK m : Falling(m, base, decay, k)
    BY <1>1
  <2> DEFINE h == [i \in 0 .. k + 1 |-> IF i = 0 THEN base
                                        ELSE IF i > MaxDecays THEN m[i - 1]
                                        ELSE (m[i - 1] * (Scale - decay)) \div Scale]
  <2>2. k \in Nat
    BY <1>1
  <2>3. \A i \in 0 .. k : h[i] = m[i]
    BY <2>1, <2>2 DEF Falling
  <2>4. \A i \in 0 .. k + 1 : i # 0 => h[i - 1] = m[i - 1]
    <3>1. \A i \in 0 .. k + 1 : i # 0 => i - 1 \in 0 .. k
      BY <2>2
    <3> HIDE DEF h
    <3> QED BY <2>3, <3>1
  <2>5. h = [i \in 0 .. k + 1 |-> IF i = 0 THEN base
                                  ELSE IF i > MaxDecays THEN h[i - 1]
                                  ELSE (h[i - 1] * (Scale - decay)) \div Scale]
    BY <2>4
  <2>6. Falling(h, base, decay, k + 1)
    <3> HIDE DEF h
    <3> QED BY <2>5 DEF Falling
  <2> QED BY <1>1, <2>2, <2>6
<1>4. A = Nat
  BY <1>1, <1>2, <1>3, InductiveSet
<1> QED BY <1>1, <1>4

LEMMA FallingType ==
  ASSUME NEW base \in Nat, NEW decay \in 0 .. Scale, NEW n \in Nat, NEW m,
         Falling(m, base, decay, n)
  PROVE  \A i \in 0 .. n : m[i] \in Nat
<1> DEFINE A == {i \in Nat : i <= n => m[i] \in Nat}
<1>1. A \in SUBSET Nat /\ \A i \in Nat : i \in A <=> (i <= n => m[i] \in Nat)
  OBVIOUS
<1> HIDE DEF A
<1>2. 0 \in A
  BY <1>1 DEF Falling
<1>3. ASSUME NEW i \in A PROVE i + 1 \in A
  <2> SUFFICES ASSUME i + 1 <= n PROVE m[i + 1] \in Nat
    BY <1>1
  <2>1. i \in Nat /\ m[i] \in Nat
    BY <1>1
  <2>2. m[i + 1] = IF i + 1 > MaxDecays THEN m[i] ELSE (m[i] * (Scale - decay)) \div Scale
    BY <2>1 DEF Falling
  <2> QED BY <2>1, <2>2, PartIsLess, EconomyAssumption
<1>4. A = Nat
  BY <1>1, <1>2, <1>3, InductiveSet
<1> QED BY <1>1, <1>4

\* However long the table of rates, its beginning is the same.
LEMMA FallingAgrees ==
  ASSUME NEW base, NEW decay, NEW n \in Nat, NEW m, Falling(m, base, decay, n),
         NEW h, Falling(h, base, decay, n + 1)
  PROVE  \A i \in 0 .. n : h[i] = m[i]
<1> DEFINE A == {i \in Nat : i <= n => h[i] = m[i]}
<1>1. A \in SUBSET Nat /\ \A i \in Nat : i \in A <=> (i <= n => h[i] = m[i])
  OBVIOUS
<1> HIDE DEF A
<1>2. 0 \in A
  <2>1. m[0] = base /\ h[0] = base
    BY DEF Falling
  <2> QED BY <1>1, <2>1
<1>3. ASSUME NEW i \in A PROVE i + 1 \in A
  <2> SUFFICES ASSUME i + 1 <= n PROVE h[i + 1] = m[i + 1]
    BY <1>1
  <2>1. i \in Nat /\ h[i] = m[i]
    BY <1>1
  <2>2. /\ m[i + 1] = IF i + 1 > MaxDecays THEN m[i] ELSE (m[i] * (Scale - decay)) \div Scale
        /\ h[i + 1] = IF i + 1 > MaxDecays THEN h[i] ELSE (h[i] * (Scale - decay)) \div Scale
    BY <2>1 DEF Falling
  <2> QED BY <2>1, <2>2
<1>4. A = Nat
  BY <1>1, <1>2, <1>3, InductiveSet
<1> QED BY <1>1, <1>4

LEMMA DecayedIsFalling ==
  ASSUME NEW n \in Nat
  PROVE  \E m : Falling(m, rate[1], rate[2], n) /\ Decayed(n) = m[n]
<1> DEFINE m == CHOOSE f : f = [i \in 0 .. n |-> IF i = 0 THEN rate[1]
                                                  ELSE IF i > MaxDecays THEN f[i - 1]
                                                  ELSE (f[i - 1] * (Scale - rate[2])) \div Scale]
<1>1. \E f : f = [i \in 0 .. n |-> IF i = 0 THEN rate[1]
                                  ELSE IF i > MaxDecays THEN f[i - 1]
                                  ELSE (f[i - 1] * (Scale - rate[2])) \div Scale]
  <2> HIDE DEF m
  <2>1. PICK f : Falling(f, rate[1], rate[2], n)
    BY FallingExists
  <2>2. f = [i \in 0 .. n |-> IF i = 0 THEN rate[1]
                             ELSE IF i > MaxDecays THEN f[i - 1]
                             ELSE (f[i - 1] * (Scale - rate[2])) \div Scale]
    BY <2>1 DEF Falling
  <2> QED BY <2>2
<1>2. m = [i \in 0 .. n |-> IF i = 0 THEN rate[1]
                           ELSE IF i > MaxDecays THEN m[i - 1]
                           ELSE (m[i - 1] * (Scale - rate[2])) \div Scale]
  BY <1>1
<1>3. Decayed(n) = m[n]
  BY DEF Decayed
<1> QED BY <1>2, <1>3 DEF Falling

LEMMA RateType ==
  ASSUME rate \in Rates
  PROVE  rate[1] \in Nat /\ rate[2] \in Nat /\ rate[3] \in Nat /\ rate[3] <= rate[1]
  BY EconomyAssumption, TokenAssumption DEF Uint

LEMMA DecayedNow == rate \in Rates => Decayed(0) = rate[1] /\ Decayed(0) \in Nat
<1> SUFFICES ASSUME rate \in Rates PROVE Decayed(0) = rate[1] /\ Decayed(0) \in Nat
  OBVIOUS
<1>1. PICK m : Falling(m, rate[1], rate[2], 0) /\ Decayed(0) = m[0]
  BY DecayedIsFalling
<1> QED BY <1>1, RateType DEF Falling

\* The rate never rises with the epochs elapsed.
LEMMA DecayedFalls ==
  ASSUME rate \in Rates, rate[2] <= Scale, NEW n \in Nat
  PROVE  Decayed(n) \in Nat /\ Decayed(n + 1) \in Nat /\ Decayed(n + 1) <= Decayed(n)
<1>1. rate[1] \in Nat /\ rate[2] \in 0 .. Scale /\ Scale \in Nat \ {0}
  BY RateType, EconomyAssumption
<1>2. PICK m : Falling(m, rate[1], rate[2], n) /\ Decayed(n) = m[n]
  BY DecayedIsFalling
<1>3. PICK h : Falling(h, rate[1], rate[2], n + 1) /\ Decayed(n + 1) = h[n + 1]
  BY DecayedIsFalling
<1>4. h[n] = m[n] /\ m[n] \in Nat
  BY <1>1, <1>2, <1>3, FallingAgrees, FallingType
<1>5. h[n + 1] = IF n + 1 > MaxDecays THEN h[n] ELSE (h[n] * (Scale - rate[2])) \div Scale
  BY <1>3 DEF Falling
<1> QED BY <1>1, <1>2, <1>3, <1>4, <1>5, PartIsLess

LEMMA DecayedInRange ==
  ASSUME rate \in Rates, NEW n \in Nat, n > 0 => rate[2] <= Scale
  PROVE  Decayed(n) \in Nat /\ Decayed(n) <= rate[1]
<1>1. CASE n = 0
  BY <1>1, DecayedNow
<1>2. CASE n > 0
  <2> DEFINE A == {i \in Nat : Decayed(i) <= rate[1]}
  <2>1. A \in SUBSET Nat /\ \A i \in Nat : i \in A <=> Decayed(i) <= rate[1]
    OBVIOUS
  <2> HIDE DEF A
  <2>2. 0 \in A
    BY <2>1, DecayedNow, RateType
  <2>3. ASSUME NEW i \in A PROVE i + 1 \in A
    BY <1>2, <2>1, DecayedFalls, RateType
  <2>4. A = Nat
    BY <2>1, <2>2, <2>3, InductiveSet
  <2> QED BY <1>2, <2>1, <2>4, DecayedFalls
<1> QED BY <1>1, <1>2

\* What a swap is paid: a number, and no more than the base rate pays.
LEMMA QuoteBounded ==
  ASSUME rate \in Rates, NEW amount \in Nat, NEW n \in Nat, n > 0 => rate[2] <= Scale
  PROVE  /\ Quote(amount, n) \in Nat /\ Scale * Quote(amount, n) <= amount * rate[1]
         /\ Quote(amount, n) \in (amount * rate[3]) \div Scale .. (amount * rate[1]) \div Scale
<1> DEFINE best == Max({Decayed(n), rate[3]})
<1>1. /\ best \in Nat /\ best <= rate[1] /\ rate[3] <= best
      /\ rate[1] \in Nat /\ rate[3] \in Nat /\ Scale \in Nat \ {0}
  BY DecayedInRange, RateType, MaxOfTwo, EconomyAssumption
<1>2. Quote(amount, n) = (amount * best) \div Scale
  BY DEF Quote
<1> HIDE DEF best
<1>3. /\ amount * best \in Nat /\ amount * rate[1] \in Nat /\ amount * rate[3] \in Nat
      /\ amount * best <= amount * rate[1] /\ amount * rate[3] <= amount * best
  BY <1>1, ProductType, ProductGrows
<1>4. Quote(amount, n) \in Nat /\ Scale * Quote(amount, n) <= amount * best
  BY <1>1, <1>2, <1>3, QuotientType
<1>5. (amount * rate[3]) \div Scale <= Quote(amount, n) /\ Quote(amount, n) <= (amount * rate[1]) \div Scale
  BY <1>1, <1>2, <1>3, QuotientGrows
<1>6. Scale * Quote(amount, n) \in Nat
  BY <1>1, <1>4, ProductType
<1>7. (amount * rate[3]) \div Scale \in Nat /\ (amount * rate[1]) \div Scale \in Nat
  BY <1>1, <1>3, QuotientType
<1> QED BY <1>3, <1>4, <1>5, <1>6, <1>7

\* It never rises with the epochs elapsed, however many.
LEMMA QuoteFalls ==
  ASSUME rate \in Rates, rate[2] <= Scale, NEW amount \in Nat, NEW n \in Nat
  PROVE  Quote(amount, n + 1) <= Quote(amount, n)
<1> DEFINE now == Max({Decayed(n), rate[3]})
           next == Max({Decayed(n + 1), rate[3]})
<1>1. now \in Nat /\ next \in Nat /\ next <= now /\ Scale \in Nat \ {0}
  <2>1. /\ Decayed(n) \in Nat /\ Decayed(n + 1) \in Nat /\ Decayed(n + 1) <= Decayed(n)
        /\ rate[3] \in Nat /\ Scale \in Nat \ {0}
    BY DecayedFalls, RateType, EconomyAssumption
  <2>2. now \in Nat /\ Decayed(n) <= now /\ rate[3] <= now
    BY <2>1, MaxOfTwo
  <2>3. next \in {Decayed(n + 1), rate[3]}
    BY <2>1, MaxOfTwo
  <2> QED BY <2>1, <2>2, <2>3
<1>2. Quote(amount, n) = (amount * now) \div Scale /\ Quote(amount, n + 1) = (amount * next) \div Scale
  BY DEF Quote
<1> HIDE DEF now, next
<1>3. amount * now \in Nat /\ amount * next \in Nat /\ amount * next <= amount * now
  BY <1>1, ProductType, ProductGrows
<1> QED BY <1>1, <1>2, <1>3, QuotientGrows
-----------------------------------------------------------------------------
(* What the calls do to the token contracts.                                *)

LEMMA Words == Uint \subseteq Nat /\ Amounts \subseteq Nat /\ MaxUint \in Nat /\ 0 \in Uint
  BY TokenAssumption, EconomyAssumption DEF Uint

LEMMA WordLedger ==
  ASSUME NEW S, NEW f \in [S -> Uint] PROVE f \in [S -> Nat] /\ f \in [S -> Int]
<1>1. \A x \in S : f[x] \in Uint
  OBVIOUS
<1>2. \A x \in S : f[x] \in Nat
  BY <1>1, Words
<1>3. f \in [S -> Nat]
  BY <1>2
<1> QED BY <1>3

\* A claim mints one amount of every emitted kind.
MintsEmitted(s, amount) ==
    /\ \A k \in Emitted :
          /\ CanMint(k, Treasury, s, amount)
          /\ balanceOfStack'[k] = [balanceOfStack[k] EXCEPT ![s] = @ + amount]
          /\ totalSupply'[k] = totalSupply[k] + amount
          /\ minted'[k] = minted[k] + amount
    /\ \A k \in Kinds \ Emitted :
          /\ balanceOfStack'[k] = balanceOfStack[k]
          /\ totalSupply'[k] = totalSupply[k]
          /\ minted'[k] = minted[k]

LEMMA ClaimEffect ==
  ASSUME TypeOK, NEW s \in Stacks, NEW e \in Epochs, ClaimEpochRewards(s, e)
  PROVE  \E amount \in Nat :
            amount = Emission * (e - lastClaimEpoch[s]) /\ MintsEmitted(s, amount)
<1> DEFINE amount == Emission * (e - lastClaimEpoch[s])
<1>1. e - lastClaimEpoch[s] \in Nat
  BY EconomyAssumption DEF TypeOK, ClaimEpochRewards
<1>2. amount \in Nat
  BY <1>1, ProductType, EconomyAssumption
<1>3. /\ \A k \in Emitted : CanMint(k, Treasury, s, amount)
      /\ balanceOfStack' = [k \in Kinds |-> IF k \in Emitted THEN [balanceOfStack[k] EXCEPT ![s] = @ + amount]
                                            ELSE balanceOfStack[k]]
      /\ totalSupply' = [k \in Kinds |-> totalSupply[k] + IF k \in Emitted THEN amount ELSE 0]
      /\ minted' = [k \in Kinds |-> minted[k] + IF k \in Emitted THEN amount ELSE 0]
  BY DEF ClaimEpochRewards
<1> HIDE DEF amount
<1>4. \A k \in Kinds : totalSupply[k] \in Nat /\ minted[k] \in Nat
  <2>1. \A k \in Kinds : totalSupply[k] \in Uint /\ minted[k] \in Nat
    BY DEF TypeOK, TokenTypeOK
  <2> QED BY <2>1, Words
<1>5. amount = Emission * (e - lastClaimEpoch[s])
  BY DEF amount
<1>6. MintsEmitted(s, amount)
  <2>1. Emitted \subseteq Kinds
    BY DEF Emitted
  <2> QED BY <1>2, <1>3, <1>4, <2>1 DEF MintsEmitted
<1> QED BY <1>2, <1>5, <1>6

LEMMA ClaimKeepsAccounts ==
  ASSUME TypeOK, SupplyAccounted, NEW s \in Stacks, NEW e \in Epochs, ClaimEpochRewards(s, e)
  PROVE  SupplyAccounted'
<1>1. PICK amount \in Nat : MintsEmitted(s, amount)
  BY ClaimEffect
<1>2. TokenTypeOK /\ \A k \in Kinds : BooksOf(k)
  BY AccountsAreBooks
<1>3. UNCHANGED <<owner, sleeveAuthorized, minter, spent>>
      /\ DOMAIN balanceOfStack' = Kinds /\ DOMAIN totalSupply' = Kinds /\ DOMAIN minted' = Kinds
      /\ balanceOfStack' = [k \in Kinds |-> balanceOfStack'[k]]
      /\ totalSupply' = [k \in Kinds |-> totalSupply'[k]] /\ minted' = [k \in Kinds |-> minted'[k]]
  BY DEF ClaimEpochRewards
<1>4. ASSUME NEW k \in Kinds
      PROVE  /\ balanceOfStack'[k] \in [Stacks -> Uint] /\ totalSupply'[k] \in Uint
             /\ minted'[k] \in Nat /\ BooksOf(k)'
  <2>1. balanceOfStack[k] \in [Stacks -> Uint] /\ totalSupply[k] \in Uint /\ minted[k] \in Nat
    BY <1>2 DEF TokenTypeOK
  <2>2. CASE k \in Emitted
    <3>1. balanceOfStack[k][s] + amount \in Uint /\ totalSupply[k] + amount \in Uint
          /\ minted[k] + amount \in Nat
      <4>1. balanceOfStack[k][s] + amount <= MaxUint /\ totalSupply[k] + amount <= MaxUint
        BY <1>1, <2>2 DEF CanMint, MintsEmitted
      <4>2. balanceOfStack[k][s] \in Nat /\ totalSupply[k] \in Nat /\ MaxUint \in Nat
        BY <2>1, Words
      <4> QED BY <2>1, <4>1, <4>2 DEF Uint
    <3>2. /\ balanceOfStack'[k] = [balanceOfStack[k] EXCEPT ![s] = @ + amount]
          /\ totalSupply'[k] = totalSupply[k] + amount /\ minted'[k] = minted[k] + amount
          /\ spent'[k] = spent[k]
      BY <1>1, <1>3, <2>2 DEF MintsEmitted
    <3>3. BooksOf(k)'
      BY <1>2, <3>2, CreditBooks
    <3> QED BY <2>1, <3>1, <3>2, <3>3
  <2>3. CASE k \notin Emitted
    <3>1. /\ balanceOfStack'[k] = balanceOfStack[k] /\ totalSupply'[k] = totalSupply[k]
          /\ minted'[k] = minted[k] /\ spent'[k] = spent[k]
      BY <1>1, <1>3, <2>3 DEF MintsEmitted
    <3> QED BY <1>2, <2>1, <3>1, UntouchedBooks
  <2> QED BY <2>2, <2>3
<1>5. TokenTypeOK'
  BY <1>2, <1>3, <1>4 DEF TokenTypeOK
<1> QED BY <1>4, <1>5 DEF SupplyAccounted, BooksOf

\* A swap burns residue and mints the quote in routing, within both caps.
SwapsFor(s, amount, e, out) ==
    /\ Scale * out <= amount * rate[1]
    /\ consumedAgent[s][e] + out <= caps[1] /\ consumedGlobal[e] + out <= caps[2]
    /\ CanSpend(RESIDUE, Swap, s, amount) /\ CanMint(ROUTING, Swap, s, out)
    /\ balanceOfStack' = [balanceOfStack EXCEPT ![RESIDUE][s] = @ - amount, ![ROUTING][s] = @ + out]
    /\ totalSupply' = [totalSupply EXCEPT ![RESIDUE] = @ - amount, ![ROUTING] = @ + out]
    /\ spent' = [spent EXCEPT ![RESIDUE][s] = @ + amount]
    /\ minted' = [minted EXCEPT ![ROUTING] = @ + out]
    /\ consumedAgent' = [consumedAgent EXCEPT ![s][e] = @ + out]
    /\ consumedGlobal' = [consumedGlobal EXCEPT ![e] = @ + out]

LEMMA SwapEffect ==
  ASSUME TypeOK, NEW s \in Stacks, NEW amount \in Amounts, NEW resolved \in Epochs, NEW e \in Epochs,
         SwapTokens(s, amount, resolved, e)
  PROVE  \E out \in Nat : SwapsFor(s, amount, e, out)
<1> DEFINE out == Quote(amount, e - resolved)
<1>1. e - resolved \in Nat /\ (e - resolved > 0 => rate[2] <= Scale) /\ amount \in Nat
  BY EconomyAssumption, Words DEF SwapTokens, CanQuote
<1>2. out \in Nat /\ Scale * out <= amount * rate[1]
  BY <1>1, QuoteBounded DEF TypeOK
<1> QED BY <1>2 DEF SwapTokens, SwapsFor

LEMMA SwapKeepsAccounts ==
  ASSUME TypeOK, SupplyAccounted, NEW s \in Stacks, NEW amount \in Amounts, NEW resolved \in Epochs,
         NEW e \in Epochs, SwapTokens(s, amount, resolved, e)
  PROVE  SupplyAccounted'
<1>1. PICK out \in Nat :
            /\ CanSpend(RESIDUE, Swap, s, amount) /\ CanMint(ROUTING, Swap, s, out)
            /\ balanceOfStack' = [balanceOfStack EXCEPT ![RESIDUE][s] = @ - amount, ![ROUTING][s] = @ + out]
            /\ totalSupply' = [totalSupply EXCEPT ![RESIDUE] = @ - amount, ![ROUTING] = @ + out]
            /\ spent' = [spent EXCEPT ![RESIDUE][s] = @ + amount]
            /\ minted' = [minted EXCEPT ![ROUTING] = @ + out]
  BY SwapEffect DEF SwapsFor
<1>2. TokenTypeOK /\ \A k \in Kinds : BooksOf(k)
  BY AccountsAreBooks
<1>3. RESIDUE \in Kinds /\ ROUTING \in Kinds /\ RESIDUE # ROUTING /\ amount \in Nat
  BY EconomyAssumption, Words
<1>4. /\ balanceOfStack'[RESIDUE] = [balanceOfStack[RESIDUE] EXCEPT ![s] = @ - amount]
      /\ totalSupply'[RESIDUE] = totalSupply[RESIDUE] - amount
      /\ spent'[RESIDUE] = [spent[RESIDUE] EXCEPT ![s] = @ + amount]
      /\ minted'[RESIDUE] = minted[RESIDUE]
  BY <1>1, <1>2, <1>3 DEF TokenTypeOK
<1>5. /\ balanceOfStack'[ROUTING] = [balanceOfStack[ROUTING] EXCEPT ![s] = @ + out]
      /\ totalSupply'[ROUTING] = totalSupply[ROUTING] + out
      /\ spent'[ROUTING] = spent[ROUTING]
      /\ minted'[ROUTING] = minted[ROUTING] + out
  BY <1>1, <1>2, <1>3 DEF TokenTypeOK
<1>6. \A k \in Kinds : k # RESIDUE /\ k # ROUTING =>
         /\ balanceOfStack'[k] = balanceOfStack[k] /\ totalSupply'[k] = totalSupply[k]
         /\ spent'[k] = spent[k] /\ minted'[k] = minted[k]
  BY <1>1, <1>2, <1>3 DEF TokenTypeOK
<1>7. BooksOf(RESIDUE)' /\ BooksOf(ROUTING)'
  <2>1. BooksOf(RESIDUE)'
    BY <1>2, <1>3, <1>4, DebitBooks
  <2>2. BooksOf(ROUTING)'
    BY <1>2, <1>3, <1>5, CreditBooks
  <2> QED BY <2>1, <2>2
<1>8. \A k \in Kinds : BooksOf(k)'
  <2> SUFFICES ASSUME NEW k \in Kinds, k # RESIDUE, k # ROUTING PROVE BooksOf(k)'
    BY <1>7
  <2> QED BY <1>2, <1>6, UntouchedBooks
<1>9. TokenTypeOK'
  <2>1. UNCHANGED <<owner, sleeveAuthorized, minter>>
    BY DEF SwapTokens
  <2>2. balanceOfStack[RESIDUE][s] - amount \in Uint /\ totalSupply[RESIDUE] - amount \in Uint
        /\ spent[RESIDUE][s] + amount \in Nat
    BY <1>1, <1>2, <1>3, TokenAssumption DEF CanSpend, TokenTypeOK, Uint
  <2>3. balanceOfStack[ROUTING][s] + out \in Uint /\ totalSupply[ROUTING] + out \in Uint
        /\ minted[ROUTING] + out \in Nat
    BY <1>1, <1>2, <1>3, TokenAssumption DEF CanMint, TokenTypeOK, Uint
  <2>4. /\ balanceOfStack'[RESIDUE] \in [Stacks -> Uint] /\ balanceOfStack'[ROUTING] \in [Stacks -> Uint]
        /\ spent'[RESIDUE] \in [Stacks -> Nat]
    BY <1>2, <1>3, <1>4, <1>5, <2>2, <2>3 DEF TokenTypeOK
  <2>5. balanceOfStack' \in [Kinds -> [Stacks -> Uint]]
    <3>1. balanceOfStack' = [k \in Kinds |-> balanceOfStack'[k]]
      BY <1>1, <1>2 DEF TokenTypeOK
    <3>2. \A k \in Kinds : balanceOfStack'[k] \in [Stacks -> Uint]
      BY <1>2, <1>6, <2>4 DEF TokenTypeOK
    <3> QED BY <3>1, <3>2
  <2>6. totalSupply' \in [Kinds -> Uint] /\ minted' \in [Kinds -> Nat]
    BY <1>1, <1>2, <1>3, <2>2, <2>3 DEF TokenTypeOK
  <2>7. spent' \in [Kinds -> [Stacks -> Nat]]
    BY <1>1, <1>2, <1>3, <2>2 DEF TokenTypeOK
  <2> QED BY <1>2, <2>1, <2>5, <2>6, <2>7 DEF TokenTypeOK
<1> QED BY <1>8, <1>9 DEF SupplyAccounted, BooksOf

\* What holders do changes no minter, mints nothing and takes no burn back.
LEMMA HoldEffect ==
  ASSUME TypeOK, SupplyAccounted, Hold
  PROVE  /\ SupplyAccounted' /\ UNCHANGED economyVars /\ minted' = minted /\ minter' = minter
         /\ \A k \in Kinds : Total(spent[k]) <= Total(spent'[k])
<1>1. UNCHANGED economyVars
  BY DEF Hold
<1>2. \A k \in Kinds : Total(spent[k]) \in Int
  BY BookTypes DEF TypeOK
<1>3. RESIDUE \in Kinds /\ Swap \in Accounts
  BY EconomyAssumption
<1>4. CASE \E s \in Stacks, to \in Holders : owner[s] = NoOwner /\ ChangeOwner(s, to)
  <2>1. PICK s \in Stacks, to \in Accounts : ChangeOwner(s, to)
    BY <1>4, EconomyAssumption
  <2>2. TokenTypeOK'
    BY <2>1, ChangeOwnerKeepsType DEF TypeOK
  <2> QED BY <1>1, <1>2, <2>1, <2>2, RightsKeepAccounts DEF ChangeOwner
<1>5. CASE \E sender \in Accounts, s \in Stacks, ok \in BOOLEAN : AuthorizeSleeve(RESIDUE, sender, s, Swap, ok)
  <2>1. PICK sender \in Accounts, s \in Stacks, ok \in BOOLEAN : AuthorizeSleeve(RESIDUE, sender, s, Swap, ok)
    BY <1>5
  <2>2. TokenTypeOK'
    BY <1>3, <2>1, AuthorizeKeepsType DEF TypeOK
  <2> QED BY <1>1, <1>2, <2>1, <2>2, RightsKeepAccounts DEF AuthorizeSleeve
<1>6. ASSUME NEW k \in Held, NEW sender \in Accounts, NEW s \in Stacks, NEW amount \in Amounts,
             Spend(k, sender, s, amount)
      PROVE  /\ SupplyAccounted' /\ minted' = minted /\ minter' = minter
             /\ \A j \in Kinds : Total(spent[j]) <= Total(spent'[j])
  <2>1. k \in Kinds /\ amount \in Uint /\ amount \in Nat
    BY EconomyAssumption, Words
  <2>2. SupplyAccounted'
    BY <1>6, <2>1, SpendKeepsAccounts
  <2>3. ASSUME NEW j \in Kinds PROVE Total(spent[j]) <= Total(spent'[j])
    <3>1. CASE j # k
      BY <1>2, <1>6, <2>1, <3>1 DEF Spend, TypeOK, TokenTypeOK
    <3>2. CASE j = k
      <4>1. spent'[k] = [spent[k] EXCEPT ![s] = @ + amount]
        BY <1>6, <2>1 DEF Spend, TypeOK, TokenTypeOK
      <4>2. Total(spent'[k]) = Total(spent[k]) + amount
        BY <2>1, <4>1, BookTypes, TotalAdd DEF TypeOK
      <4> QED BY <1>2, <2>1, <3>2, <4>2
    <3> QED BY <3>1, <3>2
  <2> QED BY <1>6, <2>2, <2>3 DEF Spend
<1>7. ASSUME NEW k \in Held, NEW sender \in Accounts, NEW from \in Stacks, NEW to \in Stacks,
             NEW amount \in Amounts, TransferStack(k, sender, from, to, amount)
      PROVE  /\ SupplyAccounted' /\ minted' = minted /\ minter' = minter
             /\ \A j \in Kinds : Total(spent[j]) <= Total(spent'[j])
  <2>1. k \in Kinds /\ amount \in Uint
    BY EconomyAssumption
  <2>2. SupplyAccounted'
    BY <1>7, <2>1, TransferKeepsAccounts
  <2> QED BY <1>2, <1>7, <2>2 DEF TransferStack
<1> QED BY <1>1, <1>4, <1>5, <1>6, <1>7 DEF Hold
-----------------------------------------------------------------------------
(* The inductive invariant: the properties of the runs, and who mints       *)
(* routing at the end.                                                      *)

BestRate == Max({r[1] : r \in Rates})

\* The invariants of SwapsBounded; the rest of it is about any rate in Rates.
WithinCaps ==
    \A e \in Epochs :
        /\ consumedGlobal[e] = Total([s \in Stacks |-> consumedAgent[s][e]])
        /\ \E c \in Caps : consumedGlobal[e] <= c[2]
        /\ \A s \in Stacks : \E c \in Caps : consumedAgent[s][e] <= c[1]
Covered == Scale * Total(consumedGlobal) <= BestRate * Total(spent[RESIDUE])

HandedOver == deployed = 3 => minter[ROUTING] = Swap

IInv == TypeOK /\ SupplyAccounted /\ MintsExplained /\ WithinCaps /\ Covered /\ HandedOver

EconomyTypeOK ==
    /\ deployed \in 0 .. 3
    /\ residue \in [Residues -> {NoResidue} \cup OpenResidue \cup ResolvedResidue]
    /\ consumedAgent \in [Stacks -> [Epochs -> Uint]]
    /\ consumedGlobal \in [Epochs -> Uint]
    /\ paused \in BOOLEAN
    /\ rate \in Rates
    /\ caps \in Caps
    /\ lastClaimEpoch \in [Stacks -> Nat]
    /\ issued \in [Kinds -> Nat]

LEMMA TypeInTwo == TypeOK <=> TokenTypeOK /\ EconomyTypeOK
  BY DEF TypeOK, EconomyTypeOK

\* What the swaps' books and the registry's are made of.
LEMMA TotalTypes ==
  ASSUME TypeOK
  PROVE  /\ Total(consumedGlobal) \in Nat /\ Total(lastClaimEpoch) \in Nat
         /\ Total(spent[RESIDUE]) \in Nat /\ BestRate \in Nat /\ rate[1] <= BestRate
<1>1. IsFiniteSet(Epochs) /\ IsFiniteSet(Stacks) /\ RESIDUE \in Kinds
  BY EconomyAssumption, TokenAssumption
<1>2. consumedGlobal \in [Epochs -> Nat] /\ lastClaimEpoch \in [Stacks -> Nat] /\ spent[RESIDUE] \in [Stacks -> Nat]
  BY <1>1, Words DEF TypeOK, TokenTypeOK
<1>3. {r[1] : r \in Rates} \in SUBSET Uint /\ rate[1] \in {r[1] : r \in Rates}
  BY EconomyAssumption DEF TypeOK
<1>4. BestRate \in Uint /\ rate[1] <= BestRate
  BY <1>3, MaxOfWords DEF BestRate
<1>5. Total(consumedGlobal) \in Nat
  BY <1>1, <1>2, TotalType
<1>6. Total(lastClaimEpoch) \in Nat
  BY <1>1, <1>2, TotalType
<1>7. Total(spent[RESIDUE]) \in Nat
  BY <1>1, <1>2, TotalType
<1> QED BY <1>4, <1>5, <1>6, <1>7, Words

LEMMA PayoutType ==
  ASSUME TypeOK PROVE [r \in Residues |-> Payout(r)] \in [Residues -> Nat]
<1>1. \A r \in Residues : residue[r] # NoResidue /\ residue[r].status = "resolved" => residue[r].payout \in Nat
  BY Words DEF TypeOK, OpenResidue, ResolvedResidue
<1> QED BY <1>1 DEF Payout

\* The books that explain the mints of a kind.
Claims(k) == IF k = RESIDUE THEN Total([r \in Residues |-> Payout(r)]) ELSE Emission * Total(lastClaimEpoch)
Swaps(k) == IF k = ROUTING THEN Total(consumedGlobal) ELSE 0

LEMMA ExplainingTypes ==
  ASSUME TypeOK, NEW k \in Kinds
  PROVE  minted[k] \in Int /\ issued[k] \in Int /\ Claims(k) \in Int /\ Swaps(k) \in Int
<1>1. Total([r \in Residues |-> Payout(r)]) \in Nat
  BY PayoutType, TotalType, EconomyAssumption
<1>2. Total(consumedGlobal) \in Nat /\ Emission * Total(lastClaimEpoch) \in Nat
  BY TotalTypes, ProductType, EconomyAssumption
<1>3. minted[k] \in Nat /\ issued[k] \in Nat
  BY DEF TypeOK, TokenTypeOK
<1> QED BY <1>1, <1>2, <1>3 DEF Claims, Swaps

\* A mint is explained if a book changes by what is minted.
LEMMA ExplainedStep ==
  ASSUME TypeOK, MintsExplained,
         \A k \in Kinds : \E a, b, c \in Int :
            /\ issued'[k] = issued[k] + a /\ Claims(k)' = Claims(k) + b /\ Swaps(k)' = Swaps(k) + c
            /\ minted'[k] = minted[k] + (a + (b + c))
  PROVE  MintsExplained'
<1>1. \A k \in Kinds : minted[k] = issued[k] + Claims(k) + Swaps(k)
  BY DEF MintsExplained, Claims, Swaps
<1>2. ASSUME NEW k \in Kinds PROVE minted'[k] = issued'[k] + Claims(k)' + Swaps(k)'
  <2>1. PICK a \in Int, b \in Int, c \in Int :
            /\ issued'[k] = issued[k] + a /\ Claims(k)' = Claims(k) + b /\ Swaps(k)' = Swaps(k) + c
            /\ minted'[k] = minted[k] + (a + (b + c))
    OBVIOUS
  <2> QED BY <1>1, <2>1, ExplainingTypes
<1> QED BY <1>2 DEF MintsExplained, Claims, Swaps

-----------------------------------------------------------------------------
LEMMA InitIInv == Init => IInv
<1> SUFFICES ASSUME Init PROVE IInv
  OBVIOUS
<1>1. SupplyAccounted
  BY InitAccounts DEF Init
<1>2. TypeOK
  <2>1. TokenTypeOK
    BY <1>1 DEF SupplyAccounted
  <2>2. 0 \in Uint
    BY Words
  <2>3. /\ consumedAgent \in [Stacks -> [Epochs -> Uint]] /\ consumedGlobal \in [Epochs -> Uint]
        /\ lastClaimEpoch \in [Stacks -> Nat] /\ issued \in [Kinds -> Nat]
    BY <2>2 DEF Init
  <2>4. deployed \in 0 .. 3 /\ rate \in Rates /\ caps \in Caps
    BY DEF Init
  <2>5. residue \in [Residues -> {NoResidue} \cup OpenResidue \cup ResolvedResidue]
    BY DEF Init
  <2>6. paused \in BOOLEAN
    BY DEF Init
  <2> QED BY <2>1, <2>3, <2>4, <2>5, <2>6 DEF TypeOK
<1>3. /\ Total([s \in Stacks |-> 0]) = 0 /\ Total([e \in Epochs |-> 0]) = 0
      /\ Total([r \in Residues |-> 0]) = 0
  BY TotalZero, TokenAssumption, EconomyAssumption
<1>4. MintsExplained
  <2>1. [r \in Residues |-> Payout(r)] = [r \in Residues |-> 0]
    BY DEF Init, Payout
  <2>2. /\ Total([r \in Residues |-> Payout(r)]) = 0
        /\ Total(lastClaimEpoch) = 0 /\ Total(consumedGlobal) = 0
    BY <1>3, <2>1 DEF Init
  <2>3. \A k \in Kinds : minted[k] = 0 /\ issued[k] = 0
    BY DEF Init, TokenInit
  <2>4. Emission * 0 = 0
    BY EconomyAssumption
  <2> QED BY <2>2, <2>3, <2>4 DEF MintsExplained
<1>5. WithinCaps
  <2>1. \A e \in Epochs : [s \in Stacks |-> consumedAgent[s][e]] = [s \in Stacks |-> 0]
    BY DEF Init
  <2>2. caps[1] \in Nat /\ caps[2] \in Nat /\ caps \in Caps
    BY EconomyAssumption, Words DEF Init
  <2> QED BY <1>3, <2>1, <2>2 DEF Init, WithinCaps
<1>6. Covered
  <2>1. Total(consumedGlobal) = 0 /\ Total(spent[RESIDUE]) = 0
    BY <1>3, EconomyAssumption DEF Init, TokenInit
  <2>2. Scale * 0 <= BestRate * 0
    BY <1>2, TotalTypes, EconomyAssumption
  <2> QED BY <2>1, <2>2 DEF Covered
<1> QED BY <1>1, <1>2, <1>4, <1>5, <1>6 DEF IInv, HandedOver, Init

\* The script's steps and the owner's switches move no token.
LEMMA SwitchesKeepIInv ==
  ASSUME IInv, TokenTypeOK', EconomyTypeOK', HandedOver',
         UNCHANGED <<balanceOfStack, totalSupply, minted, spent, residue, consumedAgent, consumedGlobal,
                     lastClaimEpoch, issued>>
  PROVE  IInv'
<1>1. TypeOK' /\ SupplyAccounted'
  BY TypeInTwo, RightsKeepAccounts DEF IInv, TypeOK, EconomyTypeOK
<1>2. MintsExplained' /\ WithinCaps' /\ Covered'
  BY DEF IInv, MintsExplained, WithinCaps, Covered, Payout, BestRate
<1> QED BY <1>1, <1>2 DEF IInv

LEMMA WireKeepsIInv == IInv /\ Wire => IInv'
<1> SUFFICES ASSUME IInv, Wire PROVE IInv'
  OBVIOUS
<1>1. /\ deployed \in 0 .. 3 /\ deployed # 3 /\ deployed' = deployed + 1
      /\ minter \in [Kinds -> Accounts]
  BY DEF Wire, IInv, TypeOK, TokenTypeOK
<1>2. /\ Treasury \in Accounts /\ Registry \in Accounts /\ Swap \in Accounts
      /\ ROUTING \in Kinds
  BY EconomyAssumption
<1>3. minter' \in [Kinds -> Accounts] /\ (deployed = 2 => minter'[ROUTING] = Swap)
  <2>1. /\ deployed = 0 => minter' = [k \in Kinds |-> Treasury]
        /\ deployed = 1 => minter' = [minter EXCEPT ![RESIDUE] = Registry]
        /\ deployed = 2 => minter' = [minter EXCEPT ![ROUTING] = Swap]
    BY DEF Wire
  <2>2. deployed = 0 \/ deployed = 1 \/ deployed = 2
    BY <1>1
  <2> QED BY <1>1, <1>2, <2>1, <2>2
<1>4. TokenTypeOK' /\ EconomyTypeOK' /\ HandedOver'
  BY <1>1, <1>3 DEF Wire, IInv, TypeOK, TokenTypeOK, EconomyTypeOK, HandedOver
<1> QED BY <1>4, SwitchesKeepIInv DEF Wire

LEMMA HoldKeepsIInv == IInv /\ Hold => IInv'
<1> SUFFICES ASSUME IInv, Hold PROVE IInv'
  OBVIOUS
<1>1. /\ SupplyAccounted' /\ UNCHANGED economyVars /\ minted' = minted /\ minter' = minter
      /\ \A k \in Kinds : Total(spent[k]) <= Total(spent'[k])
  BY HoldEffect DEF IInv
<1>2. TypeOK'
  BY <1>1 DEF IInv, TypeOK, SupplyAccounted, economyVars
<1>3. MintsExplained' /\ WithinCaps' /\ HandedOver'
  BY <1>1 DEF IInv, MintsExplained, WithinCaps, HandedOver, Payout, economyVars
<1>4. Covered'
  <2>1. RESIDUE \in Kinds /\ Scale \in Nat
    BY EconomyAssumption
  <2>2. Total(spent[RESIDUE]) <= Total(spent'[RESIDUE]) /\ Total(spent'[RESIDUE]) \in Nat
    <3>1. spent'[RESIDUE] \in [Stacks -> Nat]
      BY <1>2, <2>1 DEF TypeOK, TokenTypeOK
    <3> QED BY <1>1, <2>1, <3>1, TotalType, TokenAssumption
  <2>3. BestRate * Total(spent[RESIDUE]) <= BestRate * Total(spent'[RESIDUE])
    BY <2>2, TotalTypes, ProductGrows DEF IInv
  <2>4. /\ Scale * Total(consumedGlobal) \in Nat /\ BestRate * Total(spent[RESIDUE]) \in Nat
        /\ BestRate * Total(spent'[RESIDUE]) \in Nat
    BY <2>1, <2>2, TotalTypes, ProductType DEF IInv
  <2>5. Scale * Total(consumedGlobal) <= BestRate * Total(spent[RESIDUE])
    BY DEF IInv, Covered
  <2>6. Scale * Total(consumedGlobal) <= BestRate * Total(spent'[RESIDUE])
    BY <2>3, <2>4, <2>5
  <2>7. consumedGlobal' = consumedGlobal
    BY <1>1 DEF economyVars
  <2> QED BY <2>6, <2>7 DEF Covered, BestRate
<1> QED BY <1>1, <1>2, <1>3, <1>4 DEF IInv

LEMMA IssueKeepsIInv ==
  ASSUME IInv, NEW k \in Kinds, NEW s \in Stacks, NEW amount \in Amounts, Issue(k, s, amount)
  PROVE  IInv'
<1>1. amount \in Nat
  BY Words
<1>2. SupplyAccounted'
  BY <1>1, MintKeepsAccounts DEF Issue, IInv
<1>3. /\ issued' = [issued EXCEPT ![k] = @ + amount] /\ minted' = [minted EXCEPT ![k] = @ + amount]
      /\ UNCHANGED <<minter, spent, deployed, residue, consumedAgent, consumedGlobal, paused, rate,
                     caps, lastClaimEpoch>>
  BY DEF Issue, Mint
<1>4. issued \in [Kinds -> Nat] /\ minted \in [Kinds -> Nat]
  BY DEF IInv, TypeOK, TokenTypeOK
<1>5. TypeOK'
  <2>1. issued' \in [Kinds -> Nat]
    BY <1>1, <1>3, <1>4
  <2> QED BY <1>2, <1>3, <2>1 DEF IInv, TypeOK, SupplyAccounted
<1>6. MintsExplained'
  <2>1. ASSUME NEW j \in Kinds
        PROVE  \E a, b, c \in Int :
                  /\ issued'[j] = issued[j] + a /\ Claims(j)' = Claims(j) + b /\ Swaps(j)' = Swaps(j) + c
                  /\ minted'[j] = minted[j] + (a + (b + c))
    <3> DEFINE a == IF j = k THEN amount ELSE 0
    <3>1. a \in Int /\ issued'[j] = issued[j] + a /\ minted'[j] = minted[j] + a
      BY <1>1, <1>3, <1>4
    <3>2. Claims(j)' = Claims(j) /\ Swaps(j)' = Swaps(j)
      BY <1>3 DEF Claims, Swaps, Payout
    <3>3. minted[j] \in Int /\ Claims(j) \in Int /\ Swaps(j) \in Int
      BY ExplainingTypes DEF IInv
    <3> HIDE DEF a
    <3>4. Claims(j)' = Claims(j) + 0 /\ Swaps(j)' = Swaps(j) + 0 /\ minted'[j] = minted[j] + (a + (0 + 0))
      BY <3>1, <3>2, <3>3
    <3> QED BY <3>1, <3>4
  <2> QED BY <2>1, ExplainedStep DEF IInv
<1>7. WithinCaps' /\ Covered' /\ HandedOver'
  BY <1>3 DEF IInv, WithinCaps, Covered, HandedOver, BestRate
<1> QED BY <1>2, <1>5, <1>6, <1>7 DEF IInv

LEMMA ClaimKeepsIInv ==
  ASSUME IInv, NEW s \in Stacks, NEW e \in Epochs, ClaimEpochRewards(s, e)
  PROVE  IInv'
<1>1. PICK amount \in Nat :
         amount = Emission * (e - lastClaimEpoch[s]) /\ MintsEmitted(s, amount)
  BY ClaimEffect DEF IInv
<1>2. SupplyAccounted'
  BY ClaimKeepsAccounts DEF IInv
<1>3. /\ lastClaimEpoch' = [lastClaimEpoch EXCEPT ![s] = e]
      /\ UNCHANGED <<minter, spent, deployed, residue, consumedAgent, consumedGlobal, paused, rate,
                     caps, issued>>
  BY DEF ClaimEpochRewards
<1>4. lastClaimEpoch \in [Stacks -> Nat] /\ e \in Nat
  BY EconomyAssumption DEF IInv, TypeOK
<1>5. lastClaimEpoch' \in [Stacks -> Nat]
  BY <1>3, <1>4
<1>6. TypeOK'
  BY <1>2, <1>3, <1>5 DEF IInv, TypeOK, SupplyAccounted
<1>7. MintsExplained'
  <2>1. Total(lastClaimEpoch') = Total(lastClaimEpoch) + (e - lastClaimEpoch[s])
    <3>1. /\ IsFiniteSet(Stacks) /\ lastClaimEpoch \in [Stacks -> Int]
          /\ lastClaimEpoch' \in [Stacks -> Int] /\ lastClaimEpoch'[s] = e
          /\ \A t \in Stacks : t # s => lastClaimEpoch'[t] = lastClaimEpoch[t]
      BY <1>3, <1>4, <1>5, TokenAssumption
    <3>2. Total(lastClaimEpoch') = Total(lastClaimEpoch) + (lastClaimEpoch'[s] - lastClaimEpoch[s])
      BY ONLY <3>1, s \in Stacks, TotalWrite
    <3> QED BY <3>1, <3>2
  <2>2. Emission * Total(lastClaimEpoch') = Emission * Total(lastClaimEpoch) + amount
    <3>1. Total(lastClaimEpoch) \in Int /\ e - lastClaimEpoch[s] \in Int /\ Emission \in Int
      BY <1>4, TotalTypes, EconomyAssumption DEF IInv
    <3> QED BY <1>1, <2>1, <3>1, Distributes
  <2>3. ASSUME NEW k \in Kinds
        PROVE  \E a, b, c \in Int :
                  /\ issued'[k] = issued[k] + a /\ Claims(k)' = Claims(k) + b /\ Swaps(k)' = Swaps(k) + c
                  /\ minted'[k] = minted[k] + (a + (b + c))
    <3> DEFINE b == IF k \in Emitted THEN amount ELSE 0
    <3>1. minted[k] \in Int /\ issued[k] \in Int /\ Claims(k) \in Int /\ Swaps(k) \in Int /\ b \in Int
      BY ExplainingTypes DEF IInv
    <3>2. minted'[k] = minted[k] + b
      <4>1. CASE k \in Emitted
        BY <1>1, <4>1 DEF MintsEmitted
      <4>2. CASE k \notin Emitted
        BY <1>1, <3>1, <4>2 DEF MintsEmitted
      <4> QED BY <4>1, <4>2
    <3>3. Swaps(k)' = Swaps(k) /\ issued'[k] = issued[k]
      BY <1>3 DEF Swaps
    <3>4. Claims(k)' = Claims(k) + b
      <4>1. CASE k = RESIDUE
        BY <1>3, <3>1, <4>1 DEF Claims, Emitted, Payout
      <4>2. CASE k # RESIDUE
        BY <2>2, <4>2 DEF Claims, Emitted
      <4> QED BY <4>1, <4>2
    <3> HIDE DEF b
    <3>5. /\ issued'[k] = issued[k] + 0 /\ Swaps(k)' = Swaps(k) + 0
          /\ minted'[k] = minted[k] + (0 + (b + 0))
      BY <3>1, <3>2, <3>3
    <3> QED BY <3>1, <3>4, <3>5
  <2> QED BY <2>3, ExplainedStep DEF IInv
<1>8. WithinCaps' /\ Covered' /\ HandedOver'
  BY <1>3 DEF IInv, WithinCaps, Covered, HandedOver, BestRate
<1> QED BY <1>2, <1>6, <1>7, <1>8 DEF IInv

\* A residue that is detected is not paid yet.
LEMMA DetectKeepsIInv ==
  ASSUME IInv, NEW r \in Residues, NEW bounty \in Amounts, Detect(r, bounty)
  PROVE  IInv'
<1>1. /\ residue[r] = NoResidue
      /\ residue' = [residue EXCEPT ![r] = [status |-> "open", bountyEst |-> bounty]]
      /\ UNCHANGED <<tokenVars, deployed, consumedAgent, consumedGlobal, paused, rate, caps,
                     lastClaimEpoch, issued>>
  BY DEF Detect
<1>2. residue \in [Residues -> {NoResidue} \cup OpenResidue \cup ResolvedResidue]
  BY DEF IInv, TypeOK
<1>3. [status |-> "open", bountyEst |-> bounty] \in OpenResidue
  BY DEF OpenResidue
<1>4. residue' \in [Residues -> {NoResidue} \cup OpenResidue \cup ResolvedResidue]
  BY <1>1, <1>2, <1>3
<1>5. SupplyAccounted' /\ TokenTypeOK'
  BY <1>1 DEF IInv, SupplyAccounted, TokenTypeOK, tokenVars
<1>6. TypeOK'
  BY <1>1, <1>4, <1>5 DEF IInv, TypeOK
<1>7. MintsExplained'
  <2>1. \A x \in Residues : Payout(x)' = Payout(x)
    BY <1>1, <1>2 DEF Payout
  <2>2. [x \in Residues |-> Payout(x)]' = [x \in Residues |-> Payout(x)]
    BY <2>1
  <2> QED BY <1>1, <2>2 DEF IInv, MintsExplained, tokenVars
<1>8. WithinCaps' /\ Covered' /\ HandedOver'
  BY <1>1 DEF IInv, WithinCaps, Covered, HandedOver, BestRate, tokenVars
<1> QED BY <1>5, <1>6, <1>7, <1>8 DEF IInv

\* A bounty is paid when its residue turns from open to resolved, and never again.
LEMMA ProofKeepsIInv ==
  ASSUME IInv, NEW sender \in Accounts, NEW r \in Residues, NEW s \in Stacks, SubmitProof(sender, r, s)
  PROVE  IInv'
<1> DEFINE amount == residue[r].bountyEst
           paid == [status |-> "resolved", bountyEst |-> amount, resolver |-> s, payout |-> amount]
<1>1. /\ residue[r] # NoResidue /\ residue[r].status = "open"
      /\ residue' = [residue EXCEPT ![r] = paid]
      /\ Mint(RESIDUE, Registry, s, amount)
      /\ UNCHANGED <<deployed, consumedAgent, consumedGlobal, paused, rate, caps, lastClaimEpoch, issued>>
  BY DEF SubmitProof
<1>2. residue \in [Residues -> {NoResidue} \cup OpenResidue \cup ResolvedResidue] /\ RESIDUE \in Kinds
  BY EconomyAssumption DEF IInv, TypeOK
<1>3. amount \in Amounts /\ amount \in Nat
  <2>1. residue[r] \in OpenResidue
    BY <1>1, <1>2 DEF OpenResidue, ResolvedResidue
  <2> QED BY <2>1, Words DEF OpenResidue
<1>4. paid \in ResolvedResidue /\ paid # NoResidue
  BY <1>3, EconomyAssumption DEF ResolvedResidue
<1>5. residue' \in [Residues -> {NoResidue} \cup OpenResidue \cup ResolvedResidue]
  <2> HIDE DEF paid
  <2> QED BY <1>1, <1>2, <1>4
<1>6. SupplyAccounted'
  BY <1>1, <1>2, <1>3, MintKeepsAccounts DEF IInv
<1>7. /\ minted' = [minted EXCEPT ![RESIDUE] = @ + amount] /\ UNCHANGED <<minter, spent>>
  BY <1>1 DEF Mint
<1>8. TypeOK'
  BY <1>1, <1>5, <1>6 DEF IInv, TypeOK, SupplyAccounted
<1>9. MintsExplained'
  <2> DEFINE f == [x \in Residues |-> Payout(x)]
  <2>1. /\ Payout(r) = 0 /\ Payout(r)' = amount
        /\ \A x \in Residues : x # r => Payout(x)' = Payout(x)
    BY <1>1, <1>2, <1>4 DEF Payout
  <2>2. f \in [Residues -> Int] /\ f' \in [Residues -> Int]
    <3>1. \A x \in Residues : Payout(x) \in Nat
      BY PayoutType DEF IInv
    <3>2. \A x \in Residues : Payout(x)' \in Nat
      BY <1>3, <2>1, <3>1
    <3> QED BY <3>1, <3>2
  <2>3. f[r] = 0 /\ f'[r] = amount /\ \A x \in Residues : x # r => f'[x] = f[x]
    BY <2>1
  <2>4. Total(f') = Total(f) + (f'[r] - f[r])
    <3> HIDE DEF f
    <3>1. IsFiniteSet(Residues)
      BY EconomyAssumption
    <3> QED BY ONLY r \in Residues, <2>2, <2>3, <3>1, TotalWrite
  <2>5. Claims(RESIDUE)' = Claims(RESIDUE) + amount
    BY <1>3, <2>3, <2>4 DEF Claims
  <2>6. ASSUME NEW k \in Kinds
        PROVE  \E a, b, c \in Int :
                  /\ issued'[k] = issued[k] + a /\ Claims(k)' = Claims(k) + b /\ Swaps(k)' = Swaps(k) + c
                  /\ minted'[k] = minted[k] + (a + (b + c))
    <3> DEFINE b == IF k = RESIDUE THEN amount ELSE 0
    <3>1. minted[k] \in Int /\ issued[k] \in Int /\ Claims(k) \in Int /\ Swaps(k) \in Int /\ b \in Int
      BY <1>3, ExplainingTypes DEF IInv
    <3>2. minted'[k] = minted[k] + b
      BY <1>2, <1>7, <3>1 DEF IInv, TypeOK, TokenTypeOK
    <3>3. Swaps(k)' = Swaps(k) /\ issued'[k] = issued[k]
      BY <1>1 DEF Swaps
    <3>4. Claims(k)' = Claims(k) + b
      <4>1. CASE k = RESIDUE
        BY <2>5, <4>1
      <4>2. CASE k # RESIDUE
        BY <1>1, <3>1, <4>2 DEF Claims
      <4> QED BY <4>1, <4>2
    <3> HIDE DEF b
    <3>5. /\ issued'[k] = issued[k] + 0 /\ Swaps(k)' = Swaps(k) + 0
          /\ minted'[k] = minted[k] + (0 + (b + 0))
      BY <3>1, <3>2, <3>3
    <3> QED BY <3>1, <3>4, <3>5
  <2> QED BY <2>6, ExplainedStep DEF IInv
<1>10. WithinCaps' /\ Covered' /\ HandedOver'
  BY <1>1, <1>7 DEF IInv, WithinCaps, Covered, HandedOver, BestRate
<1> QED BY <1>6, <1>8, <1>9, <1>10 DEF IInv

LEMMA SwapKeepsIInv ==
  ASSUME IInv, NEW s \in Stacks, NEW amount \in Amounts, NEW resolved \in Epochs, NEW e \in Epochs,
         SwapTokens(s, amount, resolved, e)
  PROVE  IInv'
<1>1. PICK out \in Nat : SwapsFor(s, amount, e, out)
  BY SwapEffect DEF IInv
<1>2. /\ UNCHANGED <<minter, deployed, residue, paused, rate, caps, lastClaimEpoch, issued>>
      /\ consumedAgent' = [consumedAgent EXCEPT ![s][e] = @ + out]
      /\ consumedGlobal' = [consumedGlobal EXCEPT ![e] = @ + out]
      /\ spent' = [spent EXCEPT ![RESIDUE][s] = @ + amount]
      /\ minted' = [minted EXCEPT ![ROUTING] = @ + out]
  BY <1>1 DEF SwapTokens, SwapsFor
<1>3. /\ consumedAgent \in [Stacks -> [Epochs -> Uint]] /\ consumedGlobal \in [Epochs -> Uint]
      /\ spent \in [Kinds -> [Stacks -> Nat]] /\ minted \in [Kinds -> Nat]
      /\ RESIDUE \in Kinds /\ ROUTING \in Kinds /\ amount \in Nat
  BY EconomyAssumption, Words DEF IInv, TypeOK, TokenTypeOK
<1>4. SupplyAccounted'
  BY SwapKeepsAccounts DEF IInv
<1>5. /\ consumedAgent[s][e] + out <= caps[1] /\ consumedGlobal[e] + out <= caps[2]
      /\ caps \in Caps /\ caps[1] \in Uint /\ caps[2] \in Uint
  BY <1>1, EconomyAssumption DEF SwapsFor, IInv, TypeOK
<1>6. consumedAgent[s][e] + out \in Uint /\ consumedGlobal[e] + out \in Uint
  BY <1>3, <1>5, TokenAssumption DEF Uint
<1>7. consumedAgent' \in [Stacks -> [Epochs -> Uint]] /\ consumedGlobal' \in [Epochs -> Uint]
  BY <1>2, <1>3, <1>6
<1>8. TypeOK'
  BY <1>2, <1>4, <1>7 DEF IInv, TypeOK, SupplyAccounted
<1>9. Total(consumedGlobal') = Total(consumedGlobal) + out
  <2>1. /\ IsFiniteSet(Epochs) /\ out \in Int
        /\ consumedGlobal \in [Epochs -> Int] /\ consumedGlobal' \in [Epochs -> Int]
    <3>1. IsFiniteSet(Epochs) /\ out \in Int
      BY EconomyAssumption
    <3> QED BY <1>3, <1>7, <3>1, WordLedger
  <2>2. /\ consumedGlobal'[e] = consumedGlobal[e] + out
        /\ \A f \in Epochs : f # e => consumedGlobal'[f] = consumedGlobal[f]
    BY <1>2, <1>3
  <2> QED BY ONLY e \in Epochs, <2>1, <2>2, TotalGain
<1>10. MintsExplained'
  <2>1. ASSUME NEW k \in Kinds
        PROVE  \E a, b, c \in Int :
                  /\ issued'[k] = issued[k] + a /\ Claims(k)' = Claims(k) + b /\ Swaps(k)' = Swaps(k) + c
                  /\ minted'[k] = minted[k] + (a + (b + c))
    <3> DEFINE c == IF k = ROUTING THEN out ELSE 0
    <3>1. minted[k] \in Int /\ issued[k] \in Int /\ Claims(k) \in Int /\ Swaps(k) \in Int /\ c \in Int
      BY ExplainingTypes DEF IInv
    <3>2. minted'[k] = minted[k] + c
      BY <1>2, <1>3, <3>1
    <3>3. Claims(k)' = Claims(k) /\ issued'[k] = issued[k]
      BY <1>2 DEF Claims, Payout
    <3>4. Swaps(k)' = Swaps(k) + c
      BY <1>9, <3>1 DEF Swaps
    <3> HIDE DEF c
    <3>5. /\ issued'[k] = issued[k] + 0 /\ Claims(k)' = Claims(k) + 0
          /\ minted'[k] = minted[k] + (0 + (0 + c))
      BY <3>1, <3>2, <3>3
    <3> QED BY <3>1, <3>4, <3>5
  <2> QED BY <2>1, ExplainedStep DEF IInv
<1>11. WithinCaps'
  <2>1. ASSUME NEW f \in Epochs
        PROVE  /\ consumedGlobal'[f] = Total([t \in Stacks |-> consumedAgent'[t][f]])
               /\ \E c \in Caps : consumedGlobal'[f] <= c[2]
               /\ \A t \in Stacks : \E c \in Caps : consumedAgent'[t][f] <= c[1]
    <3>1. CASE f # e
      <4>1. consumedGlobal'[f] = consumedGlobal[f] /\ \A t \in Stacks : consumedAgent'[t][f] = consumedAgent[t][f]
        BY <1>2, <1>3, <3>1
      <4>2. [t \in Stacks |-> consumedAgent'[t][f]] = [t \in Stacks |-> consumedAgent[t][f]]
        BY <4>1
      <4> QED BY <4>1, <4>2 DEF IInv, WithinCaps
    <3>2. CASE f = e
      <4> DEFINE now == [t \in Stacks |-> consumedAgent[t][e]]
                 next == [t \in Stacks |-> consumedAgent'[t][e]]
      <4>1. consumedGlobal'[e] = consumedGlobal[e] + out
        BY <1>2, <1>3
      <4>2. /\ consumedAgent'[s][e] = consumedAgent[s][e] + out
            /\ \A t \in Stacks : t # s => consumedAgent'[t][e] = consumedAgent[t][e]
        BY <1>2, <1>3
      <4>3. now \in [Stacks -> Uint] /\ next \in [Stacks -> Uint]
        BY <1>3, <1>7
      <4>4. next[s] = now[s] + out /\ \A t \in Stacks : t # s => next[t] = now[t]
        BY <4>2
      <4>5. consumedGlobal[e] = Total(now)
        BY DEF IInv, WithinCaps
      <4>6. consumedGlobal'[e] = Total(next)
        <5> HIDE DEF now, next
        <5>1. IsFiniteSet(Stacks) /\ now \in [Stacks -> Int] /\ next \in [Stacks -> Int] /\ out \in Int
          BY <4>3, WordLedger, TokenAssumption
        <5>2. Total(next) = Total(now) + out
          BY ONLY s \in Stacks, <4>4, <5>1, TotalGain
        <5> QED BY <4>1, <4>5, <5>2
      <4>7. consumedGlobal'[e] <= caps[2]
        BY <1>5, <4>1
      <4>8. \A t \in Stacks : \E c \in Caps : consumedAgent'[t][e] <= c[1]
        BY <1>5, <4>2 DEF IInv, WithinCaps
      <4> QED BY <1>5, <3>2, <4>6, <4>7, <4>8
    <3> QED BY <3>1, <3>2
  <2> QED BY <2>1 DEF WithinCaps
<1>12. Covered'
  <2>1. /\ Total(consumedGlobal) \in Nat /\ Total(spent[RESIDUE]) \in Nat /\ BestRate \in Nat
        /\ rate[1] <= BestRate /\ rate[1] \in Nat /\ Scale \in Nat
    BY TotalTypes, RateType, EconomyAssumption DEF IInv, TypeOK
  <2>2. Total(spent'[RESIDUE]) = Total(spent[RESIDUE]) + amount
    <3>1. /\ IsFiniteSet(Stacks) /\ amount \in Int
          /\ spent[RESIDUE] \in [Stacks -> Int] /\ spent'[RESIDUE] \in [Stacks -> Int]
      BY <1>2, <1>3, TokenAssumption
    <3>2. /\ spent'[RESIDUE][s] = spent[RESIDUE][s] + amount
          /\ \A t \in Stacks : t # s => spent'[RESIDUE][t] = spent[RESIDUE][t]
      BY <1>2, <1>3
    <3> QED BY ONLY s \in Stacks, <3>1, <3>2, TotalGain
  <2>3. Scale * out <= amount * rate[1] /\ amount * rate[1] <= amount * BestRate
    BY <1>1, <1>3, <2>1, ProductGrows DEF SwapsFor
  <2>4. amount * BestRate = BestRate * amount
    BY <1>3, <2>1
  <2>5. /\ Scale * (Total(consumedGlobal) + out) = Scale * Total(consumedGlobal) + Scale * out
        /\ BestRate * (Total(spent[RESIDUE]) + amount) = BestRate * Total(spent[RESIDUE]) + BestRate * amount
    BY <1>3, <2>1, Distributes
  <2>6. /\ Scale * out \in Nat /\ amount * rate[1] \in Nat /\ BestRate * amount \in Nat
        /\ Scale * Total(consumedGlobal) \in Nat /\ BestRate * Total(spent[RESIDUE]) \in Nat
    BY <1>3, <2>1, ProductType
  <2>7. Scale * Total(consumedGlobal) <= BestRate * Total(spent[RESIDUE])
    BY DEF IInv, Covered
  <2>8. Scale * (Total(consumedGlobal) + out) <= BestRate * (Total(spent[RESIDUE]) + amount)
    BY <2>3, <2>4, <2>5, <2>6, <2>7
  <2> QED BY <1>9, <2>2, <2>8 DEF Covered, BestRate
<1> QED BY <1>2, <1>4, <1>8, <1>10, <1>11, <1>12 DEF IInv, HandedOver

LEMMA StepKeepsIInv == IInv /\ [Next]_vars => IInv'
<1> SUFFICES ASSUME IInv, [Next]_vars PROVE IInv'
  OBVIOUS
<1>1. ASSUME NEW sender \in Accounts, NEW p \in BOOLEAN, SetPaused(sender, p) PROVE IInv'
  <2>1. TokenTypeOK' /\ EconomyTypeOK' /\ HandedOver'
    BY <1>1 DEF SetPaused, tokenVars, IInv, TypeOK, TokenTypeOK, EconomyTypeOK, HandedOver
  <2> QED BY <1>1, <2>1, SwitchesKeepIInv DEF SetPaused, tokenVars
<1>2. ASSUME NEW r \in Rates, SetRate(r) PROVE IInv'
  <2>1. TokenTypeOK' /\ EconomyTypeOK' /\ HandedOver'
    BY <1>2 DEF SetRate, tokenVars, IInv, TypeOK, TokenTypeOK, EconomyTypeOK, HandedOver
  <2> QED BY <1>2, <2>1, SwitchesKeepIInv DEF SetRate, tokenVars
<1>3. ASSUME NEW c \in Caps, SetCaps(c) PROVE IInv'
  <2>1. TokenTypeOK' /\ EconomyTypeOK' /\ HandedOver'
    BY <1>3 DEF SetCaps, tokenVars, IInv, TypeOK, TokenTypeOK, EconomyTypeOK, HandedOver
  <2> QED BY <1>3, <2>1, SwitchesKeepIInv DEF SetCaps, tokenVars
<1>4. CASE UNCHANGED vars
  <2>1. TokenTypeOK' /\ EconomyTypeOK' /\ HandedOver'
    BY <1>4 DEF vars, economyVars, tokenVars, IInv, TypeOK, TokenTypeOK, EconomyTypeOK, HandedOver
  <2> QED BY <1>4, <2>1, SwitchesKeepIInv DEF vars, economyVars, tokenVars
<1> QED
  BY <1>1, <1>2, <1>3, <1>4, WireKeepsIInv, HoldKeepsIInv, IssueKeepsIInv, ClaimKeepsIInv,
     DetectKeepsIInv, ProofKeepsIInv, SwapKeepsIInv DEF Next

\* The books of the four contracts, the mints they explain, the caps and the window of the
\* swap, and who holds the minting right, are kept together by every call of any of them.
THEOREM InductiveInvariant == Spec => []IInv
<1> QED BY InitIInv, StepKeepsIInv, PTL DEF Spec

\* Whoever mints and burns, by issue, claim, bounty or swap, and whatever wiring step the
\* script stopped after: the supply of each kind is what the stacks hold and the events say.
THEOREM EconomyAccounted == Spec => []SupplyAccounted
<1>1. IInv => SupplyAccounted BY DEF IInv
<1> QED BY <1>1, InductiveInvariant, PTL

\* Every token ever minted is in the books of the one contract that minted it.
THEOREM EveryMintExplained == Spec => []MintsExplained
<1>1. IInv => MintsExplained BY DEF IInv
<1> QED BY <1>1, InductiveInvariant, PTL

\* What swaps mint in an epoch is the sum over the agents, within caps the owner has set,
\* and covered by the residue burned at the best rate; no quote rises as its residue ages.
THEOREM SwapsStayBounded == Spec => []SwapsBounded
<1>1. IInv => SwapsBounded
  <2> SUFFICES ASSUME IInv PROVE SwapsBounded
    OBVIOUS
  <2>1. rate \in Rates
    BY DEF IInv, TypeOK
  <2>2. ASSUME NEW amount \in Amounts, NEW d \in 0 .. 3, rate[2] <= Scale
        PROVE  /\ Quote(amount, d + 1) <= Quote(amount, d)
               /\ Quote(amount, d) \in (amount * rate[3]) \div Scale .. (amount * rate[1]) \div Scale
    <3>1. amount \in Nat /\ d \in Nat
      BY Words
    <3> QED BY <2>1, <2>2, <3>1, QuoteFalls, QuoteBounded
  <2> QED BY <2>2 DEF IInv, WithinCaps, Covered, BestRate, SwapsBounded
<1> QED BY <1>1, InductiveInvariant, PTL

\* After the last wiring step the treasury mints routing no longer, and its claim, which
\* mints all kinds or none, reverts: whatever was not claimed by then stays unclaimed.
THEOREM ClaimsEnd == Spec => ClaimsEndAtHandover
<1>1. IInv /\ [Next]_vars => [deployed = 3 => lastClaimEpoch' = lastClaimEpoch]_vars
  <2> SUFFICES ASSUME IInv, Next, deployed = 3 PROVE lastClaimEpoch' = lastClaimEpoch
    BY DEF vars, economyVars
  <2>1. ASSUME NEW s \in Stacks, NEW e \in Epochs, ClaimEpochRewards(s, e) PROVE FALSE
    <3>1. ROUTING \in Emitted
      BY EconomyAssumption DEF Emitted
    <3>2. minter[ROUTING] = Treasury
      BY <2>1, <3>1 DEF ClaimEpochRewards, CanMint
    <3> QED BY <3>2, EconomyAssumption DEF IInv, HandedOver
  <2>2. Wire \/ Hold => lastClaimEpoch' = lastClaimEpoch
    BY DEF Wire, Hold, economyVars
  <2>3. ASSUME NEW k \in Kinds, NEW s \in Stacks, NEW amount \in Amounts, Issue(k, s, amount)
        PROVE  lastClaimEpoch' = lastClaimEpoch
    BY <2>3 DEF Issue
  <2>4. ASSUME NEW s \in Stacks, NEW amount \in Amounts, NEW resolved \in Epochs, NEW e \in Epochs,
               SwapTokens(s, amount, resolved, e)
        PROVE  lastClaimEpoch' = lastClaimEpoch
    BY <2>4 DEF SwapTokens
  <2>5. ASSUME NEW sender \in Accounts, NEW r \in Residues, NEW s \in Stacks, SubmitProof(sender, r, s)
        PROVE  lastClaimEpoch' = lastClaimEpoch
    BY <2>5 DEF SubmitProof
  <2> QED BY <2>1, <2>2, <2>3, <2>4, <2>5 DEF Next, Detect, SetPaused, SetRate, SetCaps
<1> QED BY <1>1, InductiveInvariant, PTL DEF Spec, ClaimsEndAtHandover
=============================================================================
