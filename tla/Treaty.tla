------------------------------- MODULE Treaty -------------------------------
(***************************************************************************)
(* What a tripartite game promises its inspectors: in each epoch a party   *)
(* starts from the allowance it joined with, and the remainder of each     *)
(* resource only goes down, never below zero, until the epoch is never     *)
(* used again.  Nothing here knows of tokens, owners or authorisations.    *)
(***************************************************************************)
EXTENDS Integers

CONSTANTS
    GameIds,
    Parties,
    Epochs,
    Resources,
    Amount          \* allowances and amounts

VARIABLES
    joined,         \* game -> set of parties
    remaining       \* game -> party -> epoch -> resource -> what is left

vars == <<joined, remaining>>

Init ==
    /\ joined = [g \in GameIds |-> {}]
    /\ remaining = [g \in GameIds |-> [p \in Parties |->
                        [e \in Epochs |-> [r \in Resources |-> 0]]]]

\* A party joins once, with the same allowance for every epoch.
Join(g, p, allowance) ==
    /\ p \notin joined[g]
    /\ joined' = [joined EXCEPT ![g] = @ \cup {p}]
    /\ remaining' = [remaining EXCEPT ![g][p] = [e \in Epochs |-> allowance]]

\* A party uses no more than what is left to it.
Use(g, p, e, r, amount) ==
    /\ p \in joined[g]
    /\ amount <= remaining[g][p][e][r]
    /\ remaining' = [remaining EXCEPT ![g][p][e][r] = @ - amount]
    /\ UNCHANGED joined

Next ==
    \E g \in GameIds, p \in Parties :
        \/ \E allowance \in [Resources -> Amount] : Join(g, p, allowance)
        \/ \E e \in Epochs, r \in Resources, amount \in Amount : Use(g, p, e, r, amount)

Spec == Init /\ [][Next]_vars
=============================================================================
