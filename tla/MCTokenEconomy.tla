--------------------------- MODULE MCTokenEconomy ---------------------------
(* Instance of TokenEconomy for TLC: three kinds, two stacks that one account *)
(* mints, words up to MaxUint, rates of 1 and of 3/4 that decays to 1/2.  *)
EXTENDS TokenEconomy, TLC

CONSTANTS compute, residueToken, routingToken, deployer, treasury, registry, swap, oracle, s1, s2, r1, r2

MCKinds == {compute, residueToken, routingToken}
MCStacks == {s1, s2}
MCAccounts == {deployer, treasury, registry, swap, oracle}
MCResidues == {r1, r2}
MCHolders == {deployer}
MCHeld == {residueToken}
MCRates == {<<4, 0, 1>>, <<3, 2, 2>>}
MCCaps == {<<1, 1>>, <<1, 2>>}
MCSymmetry == Permutations(MCStacks) \cup Permutations(MCResidues)
=============================================================================
