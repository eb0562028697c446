--------------------------- MODULE BandwidthToken ---------------------------
(***************************************************************************)
(* contracts/src/BandwidthToken.sol: the bandwidth tokens, one contract    *)
(* per kind in Kinds (compute, memory, sync, routing, residue).  Balances  *)
(* belong to stacks, not to wallets; the right to move them follows the    *)
(* owner of the StackIdentity NFT.  A call that fails a `require`, or the  *)
(* compiler's checked arithmetic, reverts and is no step here.             *)
(*                                                                         *)
(* minted and spent are the totals of the Mint and BandwidthSpent events,  *)
(* what an inspector can re-derive from the logs; no guard reads them but  *)
(* the bound MaxMinted, which keeps the instances finite.                  *)
(***************************************************************************)
EXTENDS Integers, FiniteSetsExt

CONSTANTS
    Kinds,          \* the token contracts
    Stacks,         \* StackIdentity token ids
    Accounts,       \* addresses, contracts included
    Deployer,       \* owner of the token contracts
    NoOwner,        \* ownerOf of an id never minted: the staticcall fails
    MaxUint,        \* largest uint256
    MaxMinted       \* bound: amount ever minted of a kind

ASSUME TokenAssumption ==
    /\ Deployer \in Accounts
    /\ NoOwner \notin Accounts
    /\ IsFiniteSet(Stacks)
    /\ MaxUint \in Nat
    /\ MaxMinted \in Nat

Uint == 0 .. MaxUint

VARIABLES
    owner,              \* StackIdentity.ownerOf
    balanceOfStack,     \* kind -> stack -> amount
    totalSupply,        \* kind -> amount
    sleeveAuthorized,   \* kind -> {<<stack, spender>>}
    minter,             \* kind -> account
    minted,             \* kind -> total of its Mint events
    spent               \* kind -> stack -> total of its BandwidthSpent events

tokenVars == <<owner, balanceOfStack, totalSupply, sleeveAuthorized, minter, minted, spent>>

TokenTypeOK ==
    /\ owner \in [Stacks -> Accounts \cup {NoOwner}]
    /\ balanceOfStack \in [Kinds -> [Stacks -> Uint]]
    /\ totalSupply \in [Kinds -> Uint]
    /\ sleeveAuthorized \in [Kinds -> SUBSET (Stacks \X Accounts)]
    /\ minter \in [Kinds -> Accounts]
    /\ minted \in [Kinds -> Nat]
    /\ spent \in [Kinds -> [Stacks -> Nat]]

TokenInit ==
    /\ owner = [s \in Stacks |-> NoOwner]
    /\ balanceOfStack = [k \in Kinds |-> [s \in Stacks |-> 0]]
    /\ totalSupply = [k \in Kinds |-> 0]
    /\ sleeveAuthorized = [k \in Kinds |-> {}]
    /\ minter = [k \in Kinds |-> Deployer]
    /\ minted = [k \in Kinds |-> 0]
    /\ spent = [k \in Kinds |-> [s \in Stacks |-> 0]]

IsStackOwner(s, who) == owner[s] = who

\* StackIdentity.mintStack, or the ERC721 transfer it inherits.
ChangeOwner(s, to) ==
    /\ owner' = [owner EXCEPT ![s] = to]
    /\ UNCHANGED <<balanceOfStack, totalSupply, sleeveAuthorized, minter, minted, spent>>

SetMinter(k, sender, m) ==
    /\ sender = Deployer
    /\ minter' = [minter EXCEPT ![k] = m]
    /\ UNCHANGED <<owner, balanceOfStack, totalSupply, sleeveAuthorized, minted, spent>>

AuthorizeSleeve(k, sender, s, sleeve, ok) ==
    /\ IsStackOwner(s, sender)
    /\ sleeveAuthorized' = [sleeveAuthorized EXCEPT ![k] =
            IF ok THEN @ \cup {<<s, sleeve>>} ELSE @ \ {<<s, sleeve>>}]
    /\ UNCHANGED <<owner, balanceOfStack, totalSupply, minter, minted, spent>>

CanMint(k, sender, s, amount) ==
    /\ sender = minter[k]
    /\ balanceOfStack[k][s] + amount <= MaxUint
    /\ totalSupply[k] + amount <= MaxUint
    /\ minted[k] + amount <= MaxMinted

Mint(k, sender, s, amount) ==
    /\ CanMint(k, sender, s, amount)
    /\ balanceOfStack' = [balanceOfStack EXCEPT ![k][s] = @ + amount]
    /\ totalSupply' = [totalSupply EXCEPT ![k] = @ + amount]
    /\ minted' = [minted EXCEPT ![k] = @ + amount]
    /\ UNCHANGED <<owner, sleeveAuthorized, minter, spent>>

CanSpend(k, sender, s, amount) ==
    /\ <<s, sender>> \in sleeveAuthorized[k] \/ IsStackOwner(s, sender)
    /\ balanceOfStack[k][s] >= amount
    /\ totalSupply[k] >= amount

Spend(k, sender, s, amount) ==
    /\ CanSpend(k, sender, s, amount)
    /\ balanceOfStack' = [balanceOfStack EXCEPT ![k][s] = @ - amount]
    /\ totalSupply' = [totalSupply EXCEPT ![k] = @ - amount]
    /\ spent' = [spent EXCEPT ![k][s] = @ + amount]
    /\ UNCHANGED <<owner, sleeveAuthorized, minter, minted>>

\* Mutated form of TransferStack: both balances computed before either is written.
TransferFromStaleBalances(k, sender, from, to, amount) ==
    /\ IsStackOwner(from, sender)
    /\ balanceOfStack[k][from] >= amount
    /\ to # from => balanceOfStack[k][to] + amount <= MaxUint
    /\ balanceOfStack' = [balanceOfStack EXCEPT
            ![k][from] = @ - amount, ![k][to] = balanceOfStack[k][to] + amount]
    /\ UNCHANGED <<owner, totalSupply, sleeveAuthorized, minter, minted, spent>>

TransferStack(k, sender, from, to, amount) ==
    /\ IsStackOwner(from, sender)
    /\ balanceOfStack[k][from] >= amount
    /\ to # from => balanceOfStack[k][to] + amount <= MaxUint
    /\ LET debited == [balanceOfStack[k] EXCEPT ![from] = @ - amount]
       IN  balanceOfStack' = [balanceOfStack EXCEPT ![k] = [debited EXCEPT ![to] = @ + amount]]
    /\ UNCHANGED <<owner, totalSupply, sleeveAuthorized, minter, minted, spent>>

TokenNext ==
    \/ \E s \in Stacks, to \in Accounts : ChangeOwner(s, to)
    \/ \E k \in Kinds, sender, m \in Accounts : SetMinter(k, sender, m)
    \/ \E k \in Kinds, sender, sleeve \in Accounts, s \in Stacks, ok \in BOOLEAN :
            AuthorizeSleeve(k, sender, s, sleeve, ok)
    \/ \E k \in Kinds, sender \in Accounts, s \in Stacks, amount \in Uint :
            Mint(k, sender, s, amount) \/ Spend(k, sender, s, amount)
    \/ \E k \in Kinds, sender \in Accounts, from, to \in Stacks, amount \in Uint :
            TransferStack(k, sender, from, to, amount)

TokenSpec == TokenInit /\ [][TokenNext]_tokenVars

-----------------------------------------------------------------------------
Total(f) == MapThenSumSet(LAMBDA s : f[s], DOMAIN f)

\* The supply of a token is what the stacks hold, and the logs account for it: what was
\* minted and not spent is still there, whatever mixture of mints, burns and transfers
\* (a stack to itself included) and whoever sends them.
SupplyAccounted ==
    /\ TokenTypeOK
    /\ \A k \in Kinds :
        /\ totalSupply[k] = Total(balanceOfStack[k])
        /\ totalSupply[k] = minted[k] - Total(spent[k])
=============================================================================
