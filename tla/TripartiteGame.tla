--------------------------- MODULE TripartiteGame ---------------------------
(***************************************************************************)
(* contracts/src/TripartiteGame.sol over the token contracts it burns      *)
(* from.  The kinds of BandwidthToken are the game's resources: _tokenOf   *)
(* is the identity on them.  A party's record (its budgets) exists from    *)
(* registerParty on; the label and the event are left out.                 *)
(***************************************************************************)
EXTENDS BandwidthToken

CONSTANTS
    GameIds,
    GameEpochs,     \* epochs a caller may name
    GameContract,   \* the address of TripartiteGame, msg.sender of its calls
    Unregistered    \* the zero Party record

ASSUME GameAssumption ==
    /\ IsFiniteSet(GameIds) /\ IsFiniteSet(GameEpochs)
    /\ GameContract \in Accounts
    /\ Unregistered \notin [Kinds -> Uint]

VARIABLES
    games,          \* games opened
    parties,        \* game -> stack -> its per-epoch budgets, or Unregistered
    consumed        \* game -> epoch -> stack -> resource -> amount

gameVars == <<games, parties, consumed>>
tripartiteVars == <<tokenVars, gameVars>>

GameTypeOK ==
    /\ TokenTypeOK
    /\ games \subseteq GameIds
    /\ parties \in [GameIds -> [Stacks -> [Kinds -> Uint] \cup {Unregistered}]]
    /\ consumed \in [GameIds -> [GameEpochs -> [Stacks -> [Kinds -> Uint]]]]

GameInit ==
    /\ TokenInit
    /\ games = {}
    /\ parties = [g \in GameIds |-> [s \in Stacks |-> Unregistered]]
    /\ consumed = [g \in GameIds |-> [e \in GameEpochs |-> [s \in Stacks |-> [k \in Kinds |-> 0]]]]

Registered(g, s) == parties[g][s] # Unregistered

OpenGame(sender, g) ==
    /\ sender = Deployer
    /\ g \notin games
    /\ games' = games \cup {g}
    /\ UNCHANGED <<tokenVars, parties, consumed>>

\* Mutated form of RegisterParty: a party may register again with another budget.
RegisterPartyAgain(sender, g, s, budget) ==
    /\ g \in games
    /\ IsStackOwner(s, sender)
    /\ parties' = [parties EXCEPT ![g][s] = budget]
    /\ UNCHANGED <<tokenVars, games, consumed>>

RegisterParty(sender, g, s, budget) ==
    /\ g \in games
    /\ IsStackOwner(s, sender)
    /\ ~Registered(g, s)
    /\ parties' = [parties EXCEPT ![g][s] = budget]
    /\ UNCHANGED <<tokenVars, games, consumed>>

\* Mutated form of Consume: the amount is booked but the burn is of the sender's choice.
ConsumeUnburned(g, s, e, k, amount) ==
    /\ g \in games
    /\ Registered(g, s)
    /\ consumed[g][e][s][k] + amount <= parties[g][s][k]
    /\ consumed' = [consumed EXCEPT ![g][e][s][k] = @ + amount]
    /\ UNCHANGED <<tokenVars, games, parties>>

\* Mutated form of Consume: the cap compares the amount alone with the budget.
ConsumeForgetsEarlier(g, s, e, k, amount) ==
    /\ g \in games
    /\ Registered(g, s)
    /\ amount <= parties[g][s][k]
    /\ consumed' = [consumed EXCEPT ![g][e][s][k] = @ + amount]
    /\ Spend(k, GameContract, s, amount)
    /\ UNCHANGED <<games, parties>>

\* Whoever sends it, the token sees the game contract as the spender; if spend
\* reverts so does the booking.
Consume(g, s, e, k, amount) ==
    /\ g \in games
    /\ Registered(g, s)
    /\ consumed[g][e][s][k] + amount <= parties[g][s][k]
    /\ consumed' = [consumed EXCEPT ![g][e][s][k] = @ + amount]
    /\ Spend(k, GameContract, s, amount)
    /\ UNCHANGED <<games, parties>>

GameNext ==
    \/ TokenNext /\ UNCHANGED gameVars
    \/ \E sender \in Accounts, g \in GameIds : OpenGame(sender, g)
    \/ \E sender \in Accounts, g \in GameIds, s \in Stacks, budget \in [Kinds -> Uint] :
            RegisterParty(sender, g, s, budget)
    \/ \E g \in GameIds, s \in Stacks, e \in GameEpochs, k \in Kinds, amount \in Uint :
            Consume(g, s, e, k, amount)

GameSpec == GameInit /\ [][GameNext]_tripartiteVars

-----------------------------------------------------------------------------
\* verifyAllocationFair over the roster, the stacks registered in the game.
VerifyAllocationFair(g, e) ==
    \A s \in Stacks : Registered(g, s) =>
        \A k \in Kinds : consumed[g][e][s][k] <= parties[g][s][k]

RemainingBudget(g, s, e, k) ==
    IF ~Registered(g, s) THEN 0
    ELSE IF parties[g][s][k] > consumed[g][e][s][k]
         THEN parties[g][s][k] - consumed[g][e][s][k]
         ELSE 0

-----------------------------------------------------------------------------
\* The audit of any epoch of any game comes out fair, at every moment: no order of
\* consumptions, over any number of calls, exceeds a party's per-epoch budget.
AlwaysFair == \A g \in GameIds, e \in GameEpochs : VerifyAllocationFair(g, e)

\* Nothing is consumed in the name of a stack that is not a party of the game.
OnlyPartiesConsume ==
    \A g \in GameIds, e \in GameEpochs, s \in Stacks, k \in Kinds :
        consumed[g][e][s][k] > 0 => Registered(g, s)

\* Scarcity: what all games booked against a stack, over all epochs, was really
\* burned from that stack, so two games never count one burn twice.
ConsumptionIsBurned ==
    \A s \in Stacks, k \in Kinds :
        Total([ge \in GameIds \X GameEpochs |-> consumed[ge[1]][ge[2]][s][k]]) <= spent[k][s]

-----------------------------------------------------------------------------
\* The game implements the treaty: a party has joined when it is registered and
\* what is left to it is what the remainingBudget view answers.
Promised == INSTANCE Treaty WITH
    Parties <- Stacks,
    Resources <- Kinds,
    Amount <- Uint,
    Epochs <- GameEpochs,
    joined <- [g \in GameIds |-> {s \in Stacks : Registered(g, s)}],
    remaining <- [g \in GameIds |-> [s \in Stacks |-> [e \in GameEpochs |->
                    [k \in Kinds |-> RemainingBudget(g, s, e, k)]]]]

\* Every step of the contracts is a join, a use within what remains, or invisible
\* to the inspectors.
ImplementsTreaty == Promised!Spec
=============================================================================
