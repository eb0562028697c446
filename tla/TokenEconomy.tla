---------------------------- MODULE TokenEconomy ----------------------------
(***************************************************************************)
(* The contracts that mint and burn bandwidth tokens, wired as deploy.ts   *)
(* wires them: QuellistTreasury (emissions), ResidueRegistry (bounties),   *)
(* ResidueToRoutingSwap (residue into routing).  A transaction is atomic:  *)
(* a mint or burn that reverts takes the whole call back, so its condition *)
(* is part of the call's guard.  Rates are in units of 1 / Scale.          *)
(* deployed counts the wiring steps of the script that have been mined;    *)
(* the script may stop after any of them.  The deployer's key signs the    *)
(* script and the onlyOwner calls, but no other setMinter.                 *)
(***************************************************************************)
EXTENDS BandwidthToken

CONSTANTS
    RESIDUE, ROUTING,           \* two of the kinds
    Treasury, Registry, Swap,   \* the contracts' addresses
    Oracle,                     \* the address of RouteOracle
    Holders,                    \* bound: accounts that mint stacks
    Held,                       \* bound: kinds that holders move by themselves
    Residues,                   \* residue ids
    Epochs,                     \* epochs that callers name
    Amounts,                    \* bound: amounts that callers name
    Scale,                      \* 1_000_000 in the contract
    Rates,                      \* bound: <<base, decay, floor>> that the owner sets
    Caps,                       \* bound: <<perAgent, global>> that the owner sets
    Emission,                   \* emissionPerEpoch
    NoResidue                   \* the zero Residue record

\* ResidueRegistry.residue of an id that was detected, and of one whose bounty is paid.
OpenResidue == [status : {"open"}, bountyEst : Amounts]
ResolvedResidue == [status : {"resolved"}, bountyEst : Amounts, resolver : Stacks, payout : Amounts]

ASSUME EconomyAssumption ==
    /\ {RESIDUE, ROUTING} \subseteq Kinds /\ RESIDUE # ROUTING
    /\ {Treasury, Registry, Swap, Oracle} \subseteq Accounts /\ Treasury # Swap
    /\ Holders \subseteq Accounts /\ Held \subseteq Kinds
    /\ IsFiniteSet(Residues) /\ NoResidue \notin OpenResidue \cup ResolvedResidue
    /\ IsFiniteSet(Epochs) /\ Epochs \subseteq Nat
    /\ Amounts \subseteq Uint /\ Emission \in Nat
    /\ Scale \in Nat \ {0}
    /\ Rates \subseteq Uint \X Uint \X Uint /\ \A r \in Rates : r[1] > 0 /\ r[3] <= r[1]
    /\ Caps \subseteq Uint \X Uint

VARIABLES
    deployed,           \* wiring steps done, 0 to 3
    residue,            \* ResidueRegistry.residue
    consumedAgent,      \* stack -> epoch -> routing minted by swaps
    consumedGlobal,     \* epoch -> routing minted by swaps
    paused,             \* ResidueToRoutingSwap.paused
    rate,               \* its base, decay and floor rates
    caps,               \* its caps per agent and in all
    lastClaimEpoch,     \* QuellistTreasury: stack -> epoch
    issued              \* history: kind -> amount minted through issue

economyVars == <<deployed, residue, consumedAgent, consumedGlobal, paused, rate, caps, lastClaimEpoch, issued>>
vars == <<tokenVars, economyVars>>

Emitted == Kinds \ {RESIDUE}

Init ==
    /\ TokenInit
    /\ deployed = 0
    /\ residue = [r \in Residues |-> NoResidue]
    /\ consumedAgent = [s \in Stacks |-> [e \in Epochs |-> 0]]
    /\ consumedGlobal = [e \in Epochs |-> 0]
    /\ paused = FALSE
    /\ rate \in Rates
    /\ caps \in Caps
    /\ lastClaimEpoch = [s \in Stacks |-> 0]
    /\ issued = [k \in Kinds |-> 0]

-----------------------------------------------------------------------------
(* deploy.ts.                                                               *)

\* 1: the treasury mints every kind; 2: the registry mints residue instead;
\* 3: the swap mints routing instead.
Wire ==
    /\ deployed < 3
    /\ deployed' = deployed + 1
    /\ minter' = CASE deployed = 0 -> [k \in Kinds |-> Treasury]
                   [] deployed = 1 -> [minter EXCEPT ![RESIDUE] = Registry]
                   [] deployed = 2 -> [minter EXCEPT ![ROUTING] = Swap]
    /\ UNCHANGED <<owner, balanceOfStack, totalSupply, sleeveAuthorized, minted, spent, residue, consumedAgent,
                   consumedGlobal, paused, rate, caps, lastClaimEpoch, issued>>

\* What the holders of stacks do with the tokens by themselves.
Hold ==
    /\ \/ \E s \in Stacks, to \in Holders : owner[s] = NoOwner /\ ChangeOwner(s, to)
       \/ \E sender \in Accounts, s \in Stacks, ok \in BOOLEAN : AuthorizeSleeve(RESIDUE, sender, s, Swap, ok)
       \/ \E k \in Held, sender \in Accounts, s \in Stacks, amount \in Amounts : Spend(k, sender, s, amount)
       \/ \E k \in Held, sender \in Accounts, from, to \in Stacks, amount \in Amounts :
            TransferStack(k, sender, from, to, amount)
    /\ UNCHANGED economyVars

-----------------------------------------------------------------------------
(* QuellistTreasury, called by its owner.                                   *)

Issue(k, s, amount) ==
    /\ deployed > 0
    /\ Mint(k, Treasury, s, amount)
    /\ issued' = [issued EXCEPT ![k] = @ + amount]
    /\ UNCHANGED <<deployed, residue, consumedAgent, consumedGlobal, paused, rate, caps, lastClaimEpoch>>

\* Mutated form of ClaimEpochRewards: a kind whose mint would revert is skipped.
ClaimWhatIsLeft(s, e) ==
    /\ deployed > 0
    /\ e > lastClaimEpoch[s]
    /\ LET amount == Emission * (e - lastClaimEpoch[s])
           able == {k \in Emitted : CanMint(k, Treasury, s, amount)}
       IN  /\ able # {}
           /\ balanceOfStack' = [k \in Kinds |-> IF k \in able THEN [balanceOfStack[k] EXCEPT ![s] = @ + amount]
                                                 ELSE balanceOfStack[k]]
           /\ totalSupply' = [k \in Kinds |-> totalSupply[k] + IF k \in able THEN amount ELSE 0]
           /\ minted' = [k \in Kinds |-> minted[k] + IF k \in able THEN amount ELSE 0]
    /\ lastClaimEpoch' = [lastClaimEpoch EXCEPT ![s] = e]
    /\ UNCHANGED <<owner, sleeveAuthorized, minter, spent, deployed, residue, consumedAgent, consumedGlobal,
                   paused, rate, caps, issued>>

\* The same amount of each emitted kind for all epochs since the last claim, or nothing.
ClaimEpochRewards(s, e) ==
    /\ deployed > 0
    /\ e > lastClaimEpoch[s]
    /\ LET amount == Emission * (e - lastClaimEpoch[s])
       IN  /\ \A k \in Emitted : CanMint(k, Treasury, s, amount)
           /\ balanceOfStack' = [k \in Kinds |-> IF k \in Emitted THEN [balanceOfStack[k] EXCEPT ![s] = @ + amount]
                                                 ELSE balanceOfStack[k]]
           /\ totalSupply' = [k \in Kinds |-> totalSupply[k] + IF k \in Emitted THEN amount ELSE 0]
           /\ minted' = [k \in Kinds |-> minted[k] + IF k \in Emitted THEN amount ELSE 0]
    /\ lastClaimEpoch' = [lastClaimEpoch EXCEPT ![s] = e]
    /\ UNCHANGED <<owner, sleeveAuthorized, minter, spent, deployed, residue, consumedAgent, consumedGlobal,
                   paused, rate, caps, issued>>

-----------------------------------------------------------------------------
(* ResidueRegistry.                                                         *)

Detect(r, bounty) ==
    /\ deployed > 0
    /\ residue[r] = NoResidue
    /\ residue' = [residue EXCEPT ![r] = [status |-> "open", bountyEst |-> bounty]]
    /\ UNCHANGED <<tokenVars, deployed, consumedAgent, consumedGlobal, paused, rate, caps, lastClaimEpoch, issued>>

\* Mutated form of SubmitProof: a resolved residue is paid once more.
SubmitProofAgain(sender, r, s) ==
    /\ residue[r] # NoResidue
    /\ IsStackOwner(s, sender)
    /\ residue' = [residue EXCEPT ![r] = [status |-> "resolved", bountyEst |-> residue[r].bountyEst,
                                          resolver |-> s, payout |-> residue[r].bountyEst]]
    /\ Mint(RESIDUE, Registry, s, residue[r].bountyEst)
    /\ UNCHANGED <<deployed, consumedAgent, consumedGlobal, paused, rate, caps, lastClaimEpoch, issued>>

\* The first proof is paid; status Claimed is never set.
SubmitProof(sender, r, s) ==
    /\ residue[r] # NoResidue
    /\ residue[r].status = "open"
    /\ IsStackOwner(s, sender)
    /\ residue' = [residue EXCEPT ![r] = [status |-> "resolved", bountyEst |-> residue[r].bountyEst,
                                          resolver |-> s, payout |-> residue[r].bountyEst]]
    /\ Mint(RESIDUE, Registry, s, residue[r].bountyEst)
    /\ UNCHANGED <<deployed, consumedAgent, consumedGlobal, paused, rate, caps, lastClaimEpoch, issued>>

-----------------------------------------------------------------------------
(* ResidueToRoutingSwap.                                                    *)

\* The rate decays for at most 200 of the epochs elapsed.
MaxDecays == 200

Decayed(elapsed) ==
    LET mult[i \in 0 .. elapsed] ==
            IF i = 0 THEN rate[1]
            ELSE IF i > MaxDecays THEN mult[i - 1]
            ELSE (mult[i - 1] * (Scale - rate[2])) \div Scale
    IN  mult[elapsed]

Quote(amount, elapsed) == (amount * Max({Decayed(elapsed), rate[3]})) \div Scale

\* The multiplication by 1 - decayRate reverts when the rate is above 1.
CanQuote(elapsed) == elapsed >= 0 /\ (elapsed > 0 => rate[2] <= Scale)

\* Mutated form of SwapTokens: the caps are compared with the swap alone.
SwapUncounted(s, amount, resolved, e) ==
    /\ deployed > 1
    /\ ~paused
    /\ CanQuote(e - resolved)
    /\ LET out == Quote(amount, e - resolved)
       IN  /\ out > 0
           /\ out <= caps[1]
           /\ out <= caps[2]
           /\ CanSpend(RESIDUE, Swap, s, amount)
           /\ CanMint(ROUTING, Swap, s, out)
           /\ balanceOfStack' = [balanceOfStack EXCEPT ![RESIDUE][s] = @ - amount, ![ROUTING][s] = @ + out]
           /\ totalSupply' = [totalSupply EXCEPT ![RESIDUE] = @ - amount, ![ROUTING] = @ + out]
           /\ spent' = [spent EXCEPT ![RESIDUE][s] = @ + amount]
           /\ minted' = [minted EXCEPT ![ROUTING] = @ + out]
           /\ consumedAgent' = [consumedAgent EXCEPT ![s][e] = @ + out]
           /\ consumedGlobal' = [consumedGlobal EXCEPT ![e] = @ + out]
    /\ UNCHANGED <<owner, sleeveAuthorized, minter, deployed, residue, paused, rate, caps, lastClaimEpoch, issued>>

\* A contract can be called once it is there, though it mints nothing before its wiring
\* step.  swap, whoever calls it: the contract needs the stack's leave to spend, and names
\* neither a residue that was resolved nor the epoch of a chain.
SwapTokens(s, amount, resolved, e) ==
    /\ deployed > 1
    /\ ~paused
    /\ CanQuote(e - resolved)
    /\ LET out == Quote(amount, e - resolved)
       IN  /\ out > 0
           /\ consumedAgent[s][e] + out <= caps[1]
           /\ consumedGlobal[e] + out <= caps[2]
           /\ CanSpend(RESIDUE, Swap, s, amount)
           /\ CanMint(ROUTING, Swap, s, out)
           /\ balanceOfStack' = [balanceOfStack EXCEPT ![RESIDUE][s] = @ - amount, ![ROUTING][s] = @ + out]
           /\ totalSupply' = [totalSupply EXCEPT ![RESIDUE] = @ - amount, ![ROUTING] = @ + out]
           /\ spent' = [spent EXCEPT ![RESIDUE][s] = @ + amount]
           /\ minted' = [minted EXCEPT ![ROUTING] = @ + out]
           /\ consumedAgent' = [consumedAgent EXCEPT ![s][e] = @ + out]
           /\ consumedGlobal' = [consumedGlobal EXCEPT ![e] = @ + out]
    /\ UNCHANGED <<owner, sleeveAuthorized, minter, deployed, residue, paused, rate, caps, lastClaimEpoch, issued>>

\* By the owner, or by the RouteOracle once the script has wired it.
SetPaused(sender, p) ==
    /\ deployed > 1
    /\ sender = Deployer \/ (sender = Oracle /\ deployed > 2)
    /\ paused' = p
    /\ UNCHANGED <<tokenVars, deployed, residue, consumedAgent, consumedGlobal, rate, caps, lastClaimEpoch, issued>>

SetRate(r) ==
    /\ deployed > 1
    /\ rate' = r
    /\ UNCHANGED <<tokenVars, deployed, residue, consumedAgent, consumedGlobal, paused, caps, lastClaimEpoch, issued>>

SetCaps(c) ==
    /\ deployed > 1
    /\ caps' = c
    /\ UNCHANGED <<tokenVars, deployed, residue, consumedAgent, consumedGlobal, paused, rate, lastClaimEpoch, issued>>

Next ==
    \/ Wire
    \/ Hold
    \/ \E k \in Kinds, s \in Stacks, amount \in Amounts : Issue(k, s, amount)
    \/ \E s \in Stacks, e \in Epochs : ClaimEpochRewards(s, e)
    \/ \E r \in Residues, bounty \in Amounts : Detect(r, bounty)
    \/ \E sender \in Accounts, r \in Residues, s \in Stacks : SubmitProof(sender, r, s)
    \/ \E s \in Stacks, amount \in Amounts, resolved, e \in Epochs : SwapTokens(s, amount, resolved, e)
    \/ \E sender \in Accounts, p \in BOOLEAN : SetPaused(sender, p)
    \/ \E r \in Rates : SetRate(r)
    \/ \E c \in Caps : SetCaps(c)

Spec == Init /\ [][Next]_vars

-----------------------------------------------------------------------------
TypeOK ==
    /\ TokenTypeOK
    /\ deployed \in 0 .. 3
    /\ residue \in [Residues -> {NoResidue} \cup OpenResidue \cup ResolvedResidue]
    /\ consumedAgent \in [Stacks -> [Epochs -> Uint]]
    /\ consumedGlobal \in [Epochs -> Uint]
    /\ paused \in BOOLEAN
    /\ rate \in Rates
    /\ caps \in Caps
    /\ lastClaimEpoch \in [Stacks -> Nat]
    /\ issued \in [Kinds -> Nat]

\* The routing that swaps mint in one epoch is the sum over the agents, and never more
\* than the widest caps the owner has set; in all it is covered by residue that was
\* burned, at the best rate there is; whatever rates and caps change between swaps.  The
\* rate falls with the epochs elapsed, from the base and never below the floor.
SwapsBounded ==
    /\ TypeOK
    /\ \A e \in Epochs :
        /\ consumedGlobal[e] = Total([s \in Stacks |-> consumedAgent[s][e]])
        /\ \E c \in Caps : consumedGlobal[e] <= c[2]
        /\ \A s \in Stacks : \E c \in Caps : consumedAgent[s][e] <= c[1]
    /\ \A amount \in Amounts, d \in 0 .. 3 : rate[2] <= Scale =>
        /\ Quote(amount, d + 1) <= Quote(amount, d)
        /\ Quote(amount, d) \in (amount * rate[3]) \div Scale .. (amount * rate[1]) \div Scale
    /\ Scale * Total(consumedGlobal) <= Max({r[1] : r \in Rates}) * Total(spent[RESIDUE])

\* What the registry paid for a residue.
Payout(r) == IF residue[r] # NoResidue /\ residue[r].status = "resolved" THEN residue[r].payout ELSE 0

\* Every token ever minted is explained by one contract's books: an issue, the epochs
\* claimed, a bounty paid once, or a swap within its caps; no handover of the minting
\* right loses or repeats one.
MintsExplained ==
    \A k \in Kinds : minted[k] = issued[k]
        + (IF k = RESIDUE THEN Total([r \in Residues |-> Payout(r)]) ELSE Emission * Total(lastClaimEpoch))
        + (IF k = ROUTING THEN Total(consumedGlobal) ELSE 0)

\* Once the script has given the minting of routing to the swap, no epoch is claimed
\* any more: the treasury's claim mints all kinds or none.
ClaimsEndAtHandover == [][deployed = 3 => lastClaimEpoch' = lastClaimEpoch]_vars
=============================================================================
