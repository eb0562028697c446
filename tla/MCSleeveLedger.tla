--------------------------- MODULE MCSleeveLedger ---------------------------
(* Instance of SleeveLedger for TLC: two sleeves that can each pay for one   *)
(* needlecast, one synchronisation and one perception.                       *)
EXTENDS SleeveLedger, TLC

CONSTANTS s1, s2, p, q, r

MCInitial == [compute |-> 2, sync |-> 1, routing |-> 5]
MCGrant == [compute |-> 1, sync |-> 0, routing |-> 5]

MCSleeves == {s1, s2}
MCPair == {p, q}
MCTriple == {p, q, r}
MCSymmetry == Permutations(MCSleeves) \cup Permutations(Calls)
=============================================================================
