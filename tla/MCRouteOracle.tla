--------------------------- MODULE MCRouteOracle ---------------------------
(* The instance of RouteOracle for TLC: two accounts with guardian arrays of   *)
(* up to two entries, duplicates included, three epochs, windows of one and    *)
(* two epochs.                                                                 *)
EXTENDS RouteOracle

CONSTANTS a1, g1, g2

MCAgents == {a1}
MCTwo == {g1, g2}
MCConfigs == {<<3, 2, 1>>, <<2, 2, 2>>}
MCInitConfig == <<3, 2, 1>>
MCSwapAmounts == {1, 2}
=============================================================================
