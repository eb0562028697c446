--------------------------- MODULE MCTripartiteGame --------------------------
(* Instance of TripartiteGame for TLC.  One resource: no action relates two.   *)
(* Two games over one token, so that they compete for the same balance.        *)
EXTENDS TripartiteGame

CONSTANTS compute, deployer, alice, referee, s1, g1, g2

MCKinds == {compute}
MCStacks == {s1}
MCAccounts == {deployer, alice, referee}
MCGameIds == {g1, g2}
MCEpochs == {0, 1}
=============================================================================
