--------------------------- MODULE MCEpochAnchor ---------------------------
(* Instance of EpochAnchor for TLC: two accounts, epochs and heights up to  *)
(* MaxUint, two tuples and two field roots.                                  *)
EXTENDS EpochAnchor

CONSTANTS deployer, bridge, r1, r2, f1, f2

MCAccounts == {deployer, bridge}
MCRoots == {r1, r2}
MCFields == {f1, f2}
=============================================================================
