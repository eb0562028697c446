-------------------------- MODULE RouteOracleProofs --------------------------
(***************************************************************************)
(* Proofs about RouteOracle.sol, for any finite set of accounts, any       *)
(* agents, guardian arrays and configurations.  executeResume trusts a     *)
(* counter; the invariant that the counter is the number of distinct votes *)
(* is what makes it a quorum.  The heuristic trusts a rolling count; the   *)
(* invariant that the count is never behind what the narrowest window saw  *)
(* is what makes a burst pause its agent, whatever is set meanwhile.       *)
(***************************************************************************)
EXTENDS RouteOracle, FiniteSetTheorems, WellFoundedInduction, TLAPS

VotesOK ==
    /\ approvals \in [Agents -> SUBSET Accounts]
    /\ approvalCount \in [Agents -> Nat]
    /\ executed \in [Agents -> BOOLEAN]

IInv == VotesOK /\ CountIsVotes

LEMMA InitIInv == Init => IInv
  BY FS_EmptySet DEF Init, IInv, VotesOK, CountIsVotes

\* Recording one more approval adds one to the number of votes.
LEMMA VoteKeepsIInv ==
  ASSUME IInv, NEW sender \in Accounts, NEW a \in Agents, ApproveResume(sender, a)
  PROVE  IInv'
<1>1. /\ sender \notin approvals[a]
      /\ approvals' = [approvals EXCEPT ![a] = @ \cup {sender}]
      /\ approvalCount' = [approvalCount EXCEPT ![a] = @ + 1]
      /\ executed' = executed
  BY DEF ApproveResume
<1>2. VotesOK'
  BY <1>1 DEF IInv, VotesOK
<1>3. IsFiniteSet(approvals[a])
  BY FS_Subset, OracleAssumption DEF IInv, VotesOK
<1>4. Cardinality(approvals[a] \cup {sender}) = Cardinality(approvals[a]) + 1
  BY <1>1, <1>3, FS_AddElement
<1>5. ASSUME NEW b \in Agents PROVE approvalCount'[b] = Cardinality(approvals'[b])
  <2>1. CASE b = a
    BY <2>1, <1>1, <1>4 DEF IInv, VotesOK, CountIsVotes
  <2>2. CASE b # a
    BY <2>2, <1>1 DEF IInv, VotesOK, CountIsVotes
  <2> QED BY <2>1, <2>2
<1> QED BY <1>2, <1>5 DEF IInv, CountIsVotes

LEMMA StepKeepsIInv == IInv /\ [Next]_vars => IInv'
<1> SUFFICES ASSUME IInv, [Next]_vars PROVE IInv'
  OBVIOUS
<1>1. ASSUME NEW new \in GuardianArrays, NEW m \in 1 .. MaxGuardians, SetGuardians(new, m) PROVE IInv'
  BY <1>1 DEF SetGuardians, IInv, VotesOK, CountIsVotes
<1>2. ASSUME NEW sender \in Accounts, NEW a \in Agents, EmergencyPause(sender, a) PROVE IInv'
  BY <1>2 DEF EmergencyPause, votingVars, IInv, VotesOK, CountIsVotes
<1>3. ASSUME NEW a \in Agents, ExecuteResume(a) PROVE IInv'
  BY <1>3 DEF ExecuteResume, IInv, VotesOK, CountIsVotes
<1>4. ASSUME NEW a \in Agents, NEW out \in SwapAmounts, ObserveSwap(a, out) PROVE IInv'
  BY <1>4 DEF ObserveSwap, votingVars, IInv, VotesOK, CountIsVotes
<1>5. ASSUME NEW a \in Agents, ObserveResidue(a) PROVE IInv'
  BY <1>5 DEF ObserveResidue, votingVars, IInv, VotesOK, CountIsVotes
<1>6. ASSUME NEW new \in Configs, SetAutoPauseConfig(new) PROVE IInv'
  BY <1>6 DEF SetAutoPauseConfig, votingVars, IInv, VotesOK, CountIsVotes
<1>7. CASE NextEpoch
  BY <1>7 DEF NextEpoch, votingVars, IInv, VotesOK, CountIsVotes
<1>8. CASE UNCHANGED vars
  BY <1>8 DEF vars, votingVars, IInv, VotesOK, CountIsVotes
<1> QED BY <1>1, <1>2, <1>3, <1>4, <1>5, <1>6, <1>7, <1>8, VoteKeepsIInv DEF Next

\* approveResume counts an account once and setGuardians takes no vote back, so that the
\* counter and the recorded votes of every pause agree.
THEOREM InductiveInvariant == Spec => []IInv
<1> QED BY InitIInv, StepKeepsIInv, PTL DEF Spec

\* The counter is the number of distinct accounts that voted.
THEOREM CountsVotes == Spec => []CountIsVotes
<1>1. IInv => CountIsVotes BY DEF IInv
<1> QED BY <1>1, InductiveInvariant, PTL

\* A paused agent is resumed only with a quorum of distinct votes, and only once.
THEOREM ResumesAreQuorate == Spec => ResumeNeedsQuorum
<1> DEFINE Quorate == \A a \in Agents : (agentPaused[a] /\ ~agentPaused'[a]) =>
                        /\ Cardinality(approvals[a]) >= threshold
                        /\ ~executed[a] /\ executed'[a]
           Typed == agentPaused \in [Agents -> BOOLEAN]
<1>1. Init => Typed
  BY DEF Init
<1>2. Typed /\ [Next]_vars => Typed'
  BY DEF Next, vars, SetGuardians, EmergencyPause, ApproveResume, ExecuteResume, ObserveSwap,
         ObserveResidue, SetAutoPauseConfig, NextEpoch
<1>3. IInv /\ Typed /\ [Next]_vars => [Quorate]_vars
  <2> SUFFICES ASSUME IInv, Typed, Next, NEW a \in Agents, agentPaused[a], ~agentPaused'[a]
               PROVE  /\ Cardinality(approvals[a]) >= threshold
                      /\ ~executed[a] /\ executed'[a]
    OBVIOUS
  <2>1. ASSUME NEW b \in Agents, ExecuteResume(b)
        PROVE  /\ Cardinality(approvals[a]) >= threshold
               /\ ~executed[a] /\ executed'[a]
    <3>1. a = b
      BY <2>1 DEF ExecuteResume
    <3> QED BY <2>1, <3>1 DEF ExecuteResume, IInv, VotesOK, CountIsVotes
  <2>2. CASE \A b \in Agents : ~ExecuteResume(b)
    BY <2>2 DEF Next, SetGuardians, EmergencyPause, ApproveResume, ObserveSwap,
                ObserveResidue, SetAutoPauseConfig, NextEpoch
  <2> QED BY <2>1, <2>2
<1> QED BY <1>1, <1>2, <1>3, InductiveInvariant, PTL DEF Spec, ResumeNeedsQuorum

-----------------------------------------------------------------------------
(* Bursts.  The rolling count is reset when the window of the configuration *)
(* has gone by since the last residue, and every window is at least as wide *)
(* as the narrowest: the count never falls below what was seen within that. *)

\* Induction on the natural numbers, for a set that holds 0 and is closed under successors.
LEMMA InductiveSet ==
  ASSUME NEW A \in SUBSET Nat, 0 \in A, \A n \in A : n + 1 \in A
  PROVE  A = Nat
<1> DEFINE less == OpToRel(<, Nat)
           T == Nat \ A
<1>1. SUFFICES ASSUME T # {} PROVE FALSE
  OBVIOUS
<1>2. IsWellFoundedOn(less, Nat)
  BY NatLessThanWellFounded
<1>3. PICK n \in T : \A m \in T : <<m, n>> \notin less
  <2> HIDE DEF less
  <2> QED BY <1>1, <1>2, WFMin
<1>4. n # 0 /\ n - 1 \in Nat
  OBVIOUS
<1>5. <<n - 1, n>> \in less
  BY <1>4 DEF OpToRel
<1>6. n - 1 \in A
  BY <1>3, <1>4, <1>5
<1>7. n \in A
  <2>1. (n - 1) + 1 \in A
    BY <1>6
  <2>2. (n - 1) + 1 = n
    BY <1>4
  <2> QED BY <2>1, <2>2
<1> QED BY <1>7

\* The narrowest window is one of the windows and none is narrower.
LEMMA Narrowest ==
  /\ Min(Windows) \in Nat
  /\ \A c \in Configs : c[3] \in Nat /\ Min(Windows) <= c[3]
<1> DEFINE less == OpToRel(<, Nat)
<1>1. \A c \in Configs : c[3] \in Nat
  BY OracleAssumption
<1>2. Windows \subseteq Nat /\ Windows # {} /\ \A c \in Configs : c[3] \in Windows
  BY <1>1, OracleAssumption DEF Windows
<1>3. IsWellFoundedOn(less, Nat)
  BY NatLessThanWellFounded
<1>4. PICK n \in Windows : \A m \in Windows : <<m, n>> \notin less
  <2> HIDE DEF less
  <2> QED BY <1>2, <1>3, WFMin
<1>5. \A m \in Windows : n <= m
  <2>1. \A m \in Windows : m \in Nat /\ n \in Nat /\ ~(m < n)
    BY <1>2, <1>4 DEF OpToRel
  <2> QED BY <2>1
<1>6. Min(Windows) \in Windows /\ \A m \in Windows : Min(Windows) <= m
  BY <1>4, <1>5 DEF Min
<1> QED BY <1>1, <1>2, <1>6

\* g adds up what was seen from an epoch on.
Sums(g, seen, from) ==
  /\ g[0] = 0
  /\ \A n \in Epochs : g[n + 1] = g[n] + IF n >= from THEN seen[n] ELSE 0

Partial(g, seen, from, k) ==
  g = [n \in 0 .. k |-> IF n = 0 THEN 0 ELSE g[n - 1] + IF n - 1 >= from THEN seen[n - 1] ELSE 0]

LEMMA PartialExists ==
  ASSUME NEW seen, NEW from, NEW k \in Nat
  PROVE  \E g : Partial(g, seen, from, k)
<1> DEFINE A == {n \in Nat : \E g : Partial(g, seen, from, n)}
<1>1. A \in SUBSET Nat /\ \A n \in Nat : n \in A <=> \E g : Partial(g, seen, from, n)
  OBVIOUS
<1> HIDE DEF A
<1>2. 0 \in A
  <2>1. Partial([n \in 0 .. 0 |-> 0], seen, from, 0)
    BY DEF Partial
  <2> QED BY <1>1, <2>1
<1>3. ASSUME NEW n \in A PROVE n + 1 \in A
  <2>1. n \in Nat
    BY <1>1
  <2>2. PICK g : Partial(g, seen, from, n)
    BY <1>1
  <2> DEFINE h == [i \in 0 .. n + 1 |-> IF i = 0 THEN 0 ELSE g[i - 1] + IF i - 1 >= from THEN seen[i - 1] ELSE 0]
  <2>3. ASSUME NEW i \in 0 .. n PROVE h[i] = g[i]
    <3>1. i \in 0 .. n + 1
      BY <2>1
    <3>2. h[i] = IF i = 0 THEN 0 ELSE g[i - 1] + IF i - 1 >= from THEN seen[i - 1] ELSE 0
      BY <3>1
    <3>3. g[i] = IF i = 0 THEN 0 ELSE g[i - 1] + IF i - 1 >= from THEN seen[i - 1] ELSE 0
      BY <2>2, Zenon DEF Partial
    <3> QED BY <3>2, <3>3, Zenon
  <2>4. \A i \in 0 .. n + 1 : i # 0 => h[i - 1] = g[i - 1]
    <3>1. \A i \in 0 .. n + 1 : i # 0 => i - 1 \in 0 .. n
      BY <2>1
    <3> HIDE DEF h
    <3> QED BY <2>3, <3>1
  <2>5. h = [i \in 0 .. n + 1 |-> IF i = 0 THEN 0 ELSE h[i - 1] + IF i - 1 >= from THEN seen[i - 1] ELSE 0]
    BY <2>4
  <2>6. Partial(h, seen, from, n + 1)
    <3> HIDE DEF h
    <3> QED BY <2>5, Zenon DEF Partial
  <2> QED BY <1>1, <2>1, <2>6
<1>4. A = Nat
  BY <1>1, <1>2, <1>3, InductiveSet
<1> QED BY <1>1, <1>4

LEMMA SinceIs ==
  ASSUME NEW seen, NEW from
  PROVE  \E g : Sums(g, seen, from) /\ Since(seen, from) = g[MaxEpoch + 1]
<1> DEFINE g == CHOOSE f : f = [n \in 0 .. MaxEpoch + 1 |->
                  IF n = 0 THEN 0 ELSE f[n - 1] + IF n - 1 >= from THEN seen[n - 1] ELSE 0]
<1>1. Since(seen, from) = g[MaxEpoch + 1]
  BY DEF Since
<1>2. MaxEpoch \in Nat
  BY OracleAssumption
<1>3. \E f : Partial(f, seen, from, MaxEpoch + 1)
  BY <1>2, PartialExists
<1>4. g = [n \in 0 .. MaxEpoch + 1 |->
             IF n = 0 THEN 0 ELSE g[n - 1] + IF n - 1 >= from THEN seen[n - 1] ELSE 0]
  BY <1>3, Zenon DEF Partial
<1> HIDE DEF g
<1>5. g[0] = 0
  <2>1. 0 \in 0 .. MaxEpoch + 1
    BY <1>2
  <2> QED BY <1>4, <2>1, Zenon
<1>6. ASSUME NEW n \in Epochs PROVE g[n + 1] = g[n] + IF n >= from THEN seen[n] ELSE 0
  <2>1. n + 1 \in 0 .. MaxEpoch + 1 /\ n + 1 # 0 /\ (n + 1) - 1 = n
    BY <1>2 DEF Epochs
  <2>2. g[n + 1] = g[(n + 1) - 1] + IF (n + 1) - 1 >= from THEN seen[(n + 1) - 1] ELSE 0
    BY <1>4, <2>1, Zenon
  <2> QED BY <2>1, <2>2
<1> QED BY <1>1, <1>5, <1>6 DEF Sums

\* Two sums, one of which has d more than the other in one epoch.
LEMMA SinceCompared ==
  ASSUME NEW s \in [Epochs -> Nat], NEW t \in [Epochs -> Nat], NEW i \in Int, NEW j \in Int,
         \A n \in Epochs : (n >= i => n >= j) /\ s[n] <= t[n]
  PROVE  Since(s, i) \in Nat /\ Since(s, i) <= Since(t, j)
<1>0. MaxEpoch \in Nat
  BY OracleAssumption
<1>1. PICK g : Sums(g, s, i) /\ Since(s, i) = g[MaxEpoch + 1]
  BY SinceIs
<1>2. PICK h : Sums(h, t, j) /\ Since(t, j) = h[MaxEpoch + 1]
  BY SinceIs
<1> DEFINE Fine(n) == n <= MaxEpoch + 1 => g[n] \in Nat /\ h[n] \in Nat /\ g[n] <= h[n]
           A == {n \in Nat : Fine(n)}
<1>3. A \in SUBSET Nat /\ \A n \in Nat : n \in A <=> Fine(n)
  OBVIOUS
<1> HIDE DEF A
<1>4. 0 \in A
  <2>1. Fine(0)
    BY <1>1, <1>2 DEF Sums
  <2> QED BY <1>3, <2>1
<1>5. ASSUME NEW n \in A PROVE n + 1 \in A
  <2>1. n \in Nat /\ Fine(n)
    BY <1>3
  <2>2. SUFFICES ASSUME n + 1 <= MaxEpoch + 1 PROVE g[n + 1] \in Nat /\ h[n + 1] \in Nat /\ g[n + 1] <= h[n + 1]
    BY <1>3, <2>1
  <2>3. n \in Epochs /\ g[n] \in Nat /\ h[n] \in Nat /\ g[n] <= h[n]
    BY <1>0, <2>1, <2>2 DEF Epochs
  <2>4. g[n + 1] = g[n] + IF n >= i THEN s[n] ELSE 0
    BY <1>1, <2>3 DEF Sums
  <2>5. h[n + 1] = h[n] + IF n >= j THEN t[n] ELSE 0
    BY <1>2, <2>3 DEF Sums
  <2>6. s[n] \in Nat /\ t[n] \in Nat /\ s[n] <= t[n] /\ (n >= i => n >= j)
    BY <2>3
  <2> QED BY <2>3, <2>4, <2>5, <2>6
<1>6. A = Nat
  BY <1>3, <1>4, <1>5, InductiveSet
<1>7. Fine(MaxEpoch + 1)
  <2> HIDE DEF Fine
  <2> QED BY <1>0, <1>3, <1>6
<1> QED BY <1>0, <1>1, <1>2, <1>7

LEMMA SinceNat ==
  ASSUME NEW s \in [Epochs -> Nat], NEW i \in Int
  PROVE  Since(s, i) \in Nat
<1>1. \A n \in Epochs : (n >= i => n >= i) /\ s[n] <= s[n]
  OBVIOUS
<1> QED BY <1>1, SinceCompared

\* One more seen in one epoch is one more in the sum.
LEMMA SinceOneMore ==
  ASSUME NEW s \in [Epochs -> Nat], NEW c \in Epochs, NEW i \in Int
  PROVE  Since([s EXCEPT ![c] = @ + 1], i) <= Since(s, i) + 1
<1>0. MaxEpoch \in Nat
  BY OracleAssumption
<1>1. PICK t : t = [s EXCEPT ![c] = @ + 1]
  OBVIOUS
<1>2. \A n \in Epochs : t[n] = IF n = c THEN s[n] + 1 ELSE s[n]
  BY <1>1
<1>3. PICK g : Sums(g, s, i) /\ Since(s, i) = g[MaxEpoch + 1]
  BY SinceIs
<1>4. PICK h : Sums(h, t, i) /\ Since(t, i) = h[MaxEpoch + 1]
  BY SinceIs
<1> DEFINE Fine(n) == n <= MaxEpoch + 1 => /\ g[n] \in Nat /\ h[n] \in Nat
                                           /\ h[n] <= g[n] + IF n > c THEN 1 ELSE 0
           A == {n \in Nat : Fine(n)}
<1>5. A \in SUBSET Nat /\ \A n \in Nat : n \in A <=> Fine(n)
  OBVIOUS
<1> HIDE DEF A
<1>6. 0 \in A
  <2>1. Fine(0)
    BY <1>3, <1>4 DEF Sums, Epochs
  <2> QED BY <1>5, <2>1
<1>7. ASSUME NEW n \in A PROVE n + 1 \in A
  <2>1. n \in Nat /\ Fine(n)
    BY <1>5
  <2>2. SUFFICES ASSUME n + 1 <= MaxEpoch + 1
                 PROVE  /\ g[n + 1] \in Nat /\ h[n + 1] \in Nat
                        /\ h[n + 1] <= g[n + 1] + IF n + 1 > c THEN 1 ELSE 0
    BY <1>5, <2>1
  <2>3. n \in Epochs /\ g[n] \in Nat /\ h[n] \in Nat /\ h[n] <= g[n] + IF n > c THEN 1 ELSE 0
    BY <1>0, <2>1, <2>2 DEF Epochs
  <2>4. g[n + 1] = g[n] + IF n >= i THEN s[n] ELSE 0
    BY <1>3, <2>3 DEF Sums
  <2>5. h[n + 1] = h[n] + IF n >= i THEN t[n] ELSE 0
    BY <1>4, <2>3 DEF Sums
  <2>6. s[n] \in Nat /\ t[n] = IF n = c THEN s[n] + 1 ELSE s[n]
    BY <1>2, <2>3
  <2>7. c \in Nat
    BY DEF Epochs
  <2>8. CASE n = c
    BY <2>3, <2>4, <2>5, <2>6, <2>7, <2>8
  <2>9. CASE n # c
    BY <2>1, <2>3, <2>4, <2>5, <2>6, <2>7, <2>9
  <2> QED BY <2>8, <2>9
<1>8. A = Nat
  BY <1>5, <1>6, <1>7, InductiveSet
<1>9. Fine(MaxEpoch + 1)
  <2> HIDE DEF Fine
  <2> QED BY <1>0, <1>5, <1>8
<1>10. MaxEpoch + 1 > c
  BY <1>0 DEF Epochs
<1> QED BY <1>0, <1>1, <1>3, <1>4, <1>9, <1>10

\* Nothing seen adds up to nothing.
LEMMA SinceNothing ==
  ASSUME NEW s \in [Epochs -> Nat], NEW i \in Int, \A n \in Epochs : n >= i => s[n] = 0
  PROVE  Since(s, i) = 0
<1>0. MaxEpoch \in Nat
  BY OracleAssumption
<1>1. PICK g : Sums(g, s, i) /\ Since(s, i) = g[MaxEpoch + 1]
  BY SinceIs
<1> DEFINE A == {n \in Nat : n <= MaxEpoch + 1 => g[n] = 0}
<1>2. A \in SUBSET Nat /\ \A n \in Nat : n \in A <=> (n <= MaxEpoch + 1 => g[n] = 0)
  OBVIOUS
<1> HIDE DEF A
<1>3. 0 \in A
  BY <1>1, <1>2 DEF Sums
<1>4. ASSUME NEW n \in A PROVE n + 1 \in A
  <2>1. n \in Nat
    BY <1>2
  <2>2. SUFFICES ASSUME n + 1 <= MaxEpoch + 1 PROVE g[n + 1] = 0
    BY <1>2, <2>1
  <2>3. n \in Epochs /\ g[n] = 0
    BY <1>0, <1>2, <2>1, <2>2 DEF Epochs
  <2>4. g[n + 1] = g[n] + IF n >= i THEN s[n] ELSE 0
    BY <1>1, <2>3 DEF Sums
  <2> QED BY <2>3, <2>4
<1>5. A = Nat
  BY <1>2, <1>3, <1>4, InductiveSet
<1> QED BY <1>0, <1>1, <1>2, <1>5

-----------------------------------------------------------------------------
\* The rolling count of an agent is not behind what was seen of it in the narrowest
\* window before its last residue; after that nothing was seen.
Rolls(a) ==
  /\ residuesSeen[a] \in [Epochs -> Nat] /\ residueCount[a] \in Nat
  /\ lastResidueEpoch[a] \in Epochs /\ lastResidueEpoch[a] <= clock
  /\ \A e \in Epochs : e > lastResidueEpoch[a] => residuesSeen[a][e] = 0
  /\ residueCount[a] >= Since(residuesSeen[a], lastResidueEpoch[a] - Min(Windows))

RollingOK ==
  /\ clock \in Epochs /\ config \in Configs
  /\ residueCount \in [Agents -> Nat] /\ lastResidueEpoch \in [Agents -> Epochs]
  /\ residuesSeen \in [Agents -> [Epochs -> Nat]]
  /\ \A a \in Agents : Rolls(a)

\* What an observation counts is at least what has been seen in the narrowest window.
LEMMA CountedCovers ==
  ASSUME RollingOK, NEW a \in Agents
  PROVE  /\ CountedResidues(a) \in Nat
         /\ Since([residuesSeen[a] EXCEPT ![clock] = @ + 1], clock - Min(Windows)) <= CountedResidues(a)
<1> DEFINE m == Min(Windows)
<1>1. PICK s \in [Epochs -> Nat] : s = residuesSeen[a]
  BY DEF RollingOK
<1>2. PICK l \in Epochs : l = lastResidueEpoch[a]
  BY DEF RollingOK
<1>3. PICK k \in Nat : k = residueCount[a]
  BY DEF RollingOK
<1>4. /\ l <= clock /\ clock \in Epochs
      /\ \A e \in Epochs : e > l => s[e] = 0
      /\ k >= Since(s, l - m)
  BY <1>1, <1>2, <1>3 DEF RollingOK, Rolls
<1>5. m \in Nat /\ Window \in Nat /\ m <= Window
  BY Narrowest DEF RollingOK, Window
<1>6. Epochs \subseteq Nat
  BY DEF Epochs
<1> HIDE DEF m
<1>7. /\ Since([s EXCEPT ![clock] = @ + 1], clock - m) <= Since(s, clock - m) + 1
      /\ Since(s, clock - m) \in Nat
  <2>1. clock - m \in Int
    BY <1>4, <1>5, <1>6
  <2>2. Since(s, clock - m) \in Nat
    BY <2>1, SinceNat
  <2> QED BY <1>4, <2>1, <2>2, SinceOneMore
<1>8. Since([s EXCEPT ![clock] = @ + 1], clock - m) \in Nat
  <2>1. [s EXCEPT ![clock] = @ + 1] \in [Epochs -> Nat]
    BY <1>4
  <2>2. clock - m \in Int
    BY <1>4, <1>5, <1>6
  <2> QED BY <2>1, <2>2, SinceNat
<1>9. CASE clock > l + Window
  <2>1. CountedResidues(a) = 1
    BY <1>2, <1>9 DEF CountedResidues
  <2>2. \A e \in Epochs : e >= clock - m => e > l
    BY <1>4, <1>5, <1>6, <1>9
  <2>3. Since(s, clock - m) = 0
    BY <1>4, <1>5, <1>6, <2>2, SinceNothing
  <2> QED BY <1>1, <1>7, <1>8, <2>1, <2>3 DEF m
<1>10. CASE ~(clock > l + Window)
  <2>1. CountedResidues(a) = k + 1
    BY <1>2, <1>3, <1>10 DEF CountedResidues
  <2>2. \A e \in Epochs : e >= clock - m => e >= l - m
    BY <1>4, <1>5, <1>6
  <2>3. Since(s, clock - m) <= Since(s, l - m)
    BY <1>4, <1>5, <1>6, <2>2, SinceCompared
  <2>4. Since(s, l - m) \in Nat
    BY <1>5, <1>6, SinceNat
  <2> QED BY <1>1, <1>4, <1>7, <1>8, <2>1, <2>3, <2>4 DEF m
<1> QED BY <1>9, <1>10

LEMMA InitRolls == Init => RollingOK
<1> SUFFICES ASSUME Init PROVE RollingOK
  OBVIOUS
<1>1. MaxEpoch \in Nat /\ 0 \in Epochs
  BY OracleAssumption DEF Epochs
<1>2. /\ clock = 0 /\ config \in Configs
      /\ residueCount = [a \in Agents |-> 0] /\ lastResidueEpoch = [a \in Agents |-> 0]
      /\ residuesSeen = [a \in Agents |-> [e \in Epochs |-> 0]]
  BY OracleAssumption DEF Init, NothingSeen
<1>3. ASSUME NEW a \in Agents PROVE Rolls(a)
  <2>1. PICK s : s = [e \in Epochs |-> 0]
    OBVIOUS
  <2>2. s \in [Epochs -> Nat] /\ \A e \in Epochs : s[e] = 0
    BY <2>1
  <2>3. Since(s, 0 - Min(Windows)) = 0
    BY <2>2, Narrowest, SinceNothing
  <2>4. residuesSeen[a] = s /\ residueCount[a] = 0 /\ lastResidueEpoch[a] = 0
    BY <1>2, <2>1
  <2> QED BY <1>1, <1>2, <2>2, <2>3, <2>4 DEF Rolls
<1> QED BY <1>1, <1>2, <1>3 DEF RollingOK

LEMMA ObserveRolls ==
  ASSUME RollingOK, NEW a \in Agents, ObserveResidue(a)
  PROVE  RollingOK'
<1>1. /\ residueCount' = [residueCount EXCEPT ![a] = CountedResidues(a)]
      /\ lastResidueEpoch' = [lastResidueEpoch EXCEPT ![a] = clock]
      /\ residuesSeen' = [residuesSeen EXCEPT ![a][clock] = @ + 1]
      /\ config' = config /\ clock' = clock
  BY DEF ObserveResidue
<1>2. /\ clock \in Epochs /\ Epochs \subseteq Nat /\ residuesSeen[a] \in [Epochs -> Nat]
      /\ Min(Windows) \in Nat
  BY Narrowest DEF RollingOK, Epochs
<1>3. PICK t : t = [residuesSeen[a] EXCEPT ![clock] = @ + 1]
  OBVIOUS
<1>4. t \in [Epochs -> Nat] /\ \A e \in Epochs : e # clock => t[e] = residuesSeen[a][e]
  BY <1>2, <1>3
<1>5. residuesSeen'[a] = t /\ residuesSeen' \in [Agents -> [Epochs -> Nat]]
      /\ \A b \in Agents : b # a => residuesSeen'[b] = residuesSeen[b]
  <2>1. residuesSeen' = [residuesSeen EXCEPT ![a] = t]
    BY <1>1, <1>3
  <2> QED BY <1>4, <2>1 DEF RollingOK
<1>6. CountedResidues(a) \in Nat /\ Since(t, clock - Min(Windows)) <= CountedResidues(a)
  BY <1>3, CountedCovers
<1>7. Since(t, clock - Min(Windows)) \in Nat
  BY <1>2, <1>4, SinceNat
<1>8. Rolls(a)'
  <2>1. residueCount'[a] = CountedResidues(a) /\ lastResidueEpoch'[a] = clock
    BY <1>1 DEF RollingOK
  <2>2. \A e \in Epochs : e > clock => t[e] = 0
    <3>1. PICK l \in Epochs : l = lastResidueEpoch[a]
      BY DEF RollingOK
    <3>2. l <= clock /\ \A e \in Epochs : e > l => residuesSeen[a][e] = 0
      BY <3>1 DEF RollingOK, Rolls
    <3>3. \A e \in Epochs : e > clock => e # clock /\ e > l
      BY <1>2, <3>2
    <3> QED BY <1>4, <3>2, <3>3
  <2>3. clock <= clock'
    BY <1>1, <1>2
  <2> QED BY <1>1, <1>2, <1>4, <1>5, <1>6, <1>7, <2>1, <2>2, <2>3 DEF Rolls
<1>9. ASSUME NEW b \in Agents, b # a PROVE Rolls(b)'
  <2>1. /\ residueCount'[b] = residueCount[b] /\ lastResidueEpoch'[b] = lastResidueEpoch[b]
        /\ residuesSeen'[b] = residuesSeen[b] /\ clock' = clock
    BY <1>1, <1>5, <1>9 DEF RollingOK
  <2> QED BY <2>1 DEF RollingOK, Rolls
<1>10. /\ residueCount' \in [Agents -> Nat] /\ lastResidueEpoch' \in [Agents -> Epochs]
  BY <1>1, <1>2, <1>6 DEF RollingOK
<1> QED BY <1>1, <1>5, <1>8, <1>9, <1>10 DEF RollingOK

LEMMA StepRolls == RollingOK /\ [Next]_vars => RollingOK'
<1> SUFFICES ASSUME RollingOK, [Next]_vars PROVE RollingOK'
  OBVIOUS
<1>1. ASSUME UNCHANGED <<residueCount, lastResidueEpoch, residuesSeen>>, config' \in Configs,
             clock' \in Epochs, clock <= clock'
      PROVE  RollingOK'
  <2>1. ASSUME NEW a \in Agents PROVE Rolls(a)'
    <3>1. lastResidueEpoch[a] <= clock'
      BY <1>1 DEF RollingOK, Rolls, Epochs
    <3> QED BY <1>1, <3>1 DEF RollingOK, Rolls
  <2> QED BY <1>1, <2>1 DEF RollingOK
<1>2. clock <= clock
  BY DEF RollingOK, Epochs
<1>3. CASE UNCHANGED <<residueCount, lastResidueEpoch, residuesSeen, config, clock>>
  BY <1>1, <1>2, <1>3 DEF RollingOK
<1>4. ASSUME NEW new \in Configs, SetAutoPauseConfig(new) PROVE RollingOK'
  BY <1>1, <1>2, <1>4 DEF SetAutoPauseConfig, RollingOK
<1>5. CASE NextEpoch
  <2>1. clock' \in Epochs /\ clock <= clock'
    BY <1>5, OracleAssumption DEF NextEpoch, RollingOK, Epochs
  <2> QED BY <1>1, <1>5, <2>1 DEF NextEpoch, RollingOK
<1>6. ASSUME NEW new, NEW m, SetGuardians(new, m) PROVE RollingOK'
  BY <1>3, <1>6 DEF SetGuardians, heuristicVars
<1>7. ASSUME NEW sender, NEW a, EmergencyPause(sender, a) \/ ApproveResume(sender, a) PROVE RollingOK'
  BY <1>3, <1>7 DEF EmergencyPause, ApproveResume, heuristicVars
<1>8. ASSUME NEW a, ExecuteResume(a) PROVE RollingOK'
  BY <1>3, <1>8 DEF ExecuteResume, heuristicVars
<1>9. ASSUME NEW a, NEW out, ObserveSwap(a, out) PROVE RollingOK'
  BY <1>3, <1>9 DEF ObserveSwap
<1>10. CASE UNCHANGED vars
  BY <1>3, <1>10 DEF vars, heuristicVars
<1> QED BY <1>4, <1>5, <1>6, <1>7, <1>8, <1>9, <1>10, ObserveRolls DEF Next

\* A residue that completes a burst within the narrowest window ever configured leaves its
\* agent paused, whatever the owner configures between two residues: the rolling count
\* bounds from above what that window saw (RollingOK).
THEOREM BurstsPause == Spec => BurstPauses
<1> DEFINE Pauses == \A a \in Agents :
                       (ResidueObserved(a) /\ RecentResidues(a, Min(Windows))' >= ResidueRate)
                         => agentPaused'[a]
           Typed == agentPaused \in [Agents -> BOOLEAN]
<1>1. Init => Typed
  BY DEF Init
<1>2. Typed /\ [Next]_vars => Typed'
  BY DEF Next, vars, SetGuardians, EmergencyPause, ApproveResume, ExecuteResume, ObserveSwap,
         ObserveResidue, SetAutoPauseConfig, NextEpoch
<1>3. RollingOK /\ Typed /\ [Next]_vars => [Pauses]_vars
  <2> SUFFICES ASSUME RollingOK, Typed, Next, NEW a \in Agents, ResidueObserved(a),
                      RecentResidues(a, Min(Windows))' >= ResidueRate
               PROVE  agentPaused'[a]
    OBVIOUS
  <2>1. ASSUME NEW b \in Agents, ObserveResidue(b) PROVE agentPaused'[a]
    <3>1. a = b
      BY <2>1 DEF ObserveResidue, ResidueObserved, RollingOK
    <3>2. /\ residuesSeen'[a] = [residuesSeen[a] EXCEPT ![clock] = @ + 1] /\ clock' = clock
          /\ agentPaused'[a] = (agentPaused[a] \/ CountedResidues(a) >= ResidueRate)
      BY <2>1, <3>1 DEF ObserveResidue, RollingOK
    <3>3. RecentResidues(a, Min(Windows))' = Since([residuesSeen[a] EXCEPT ![clock] = @ + 1], clock - Min(Windows))
      BY <3>2 DEF RecentResidues, Windows
    <3>4. PICK r : r = Since([residuesSeen[a] EXCEPT ![clock] = @ + 1], clock - Min(Windows))
      OBVIOUS
    <3>5. r >= ResidueRate /\ r <= CountedResidues(a) /\ CountedResidues(a) \in Nat
      BY <3>3, <3>4, CountedCovers
    <3>6. r \in Nat
      <4>1. [residuesSeen[a] EXCEPT ![clock] = @ + 1] \in [Epochs -> Nat]
        BY DEF RollingOK
      <4>2. clock - Min(Windows) \in Int
        BY Narrowest DEF RollingOK, Epochs
      <4> QED BY <3>4, <4>1, <4>2, SinceNat
    <3>7. ResidueRate \in Nat
      BY OracleAssumption DEF RollingOK, ResidueRate
    <3>8. CountedResidues(a) >= ResidueRate
      BY <3>5, <3>6, <3>7
    <3> QED BY <3>2, <3>8
  <2>2. CASE \A b \in Agents : ~ObserveResidue(b)
    BY <2>2 DEF Next, ResidueObserved, SetGuardians, EmergencyPause, ApproveResume, ExecuteResume,
                ObserveSwap, SetAutoPauseConfig, NextEpoch, heuristicVars
  <2> QED BY <2>1, <2>2
<1>4. Spec => []RollingOK
  BY InitRolls, StepRolls, PTL DEF Spec
<1> QED BY <1>1, <1>2, <1>3, <1>4, PTL DEF Spec, BurstPauses
=============================================================================
