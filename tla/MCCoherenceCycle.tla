------------------------- MODULE MCCoherenceCycle -------------------------
(* The instance of CoherenceCycle for TLC: one memory write.                 *)
EXTENDS CoherenceCycle

CONSTANTS write, zero

MCWrites == {write}
MCWriteKind == write :> "memory"
MCTuples == SUBSET Events \cup {zero}
=============================================================================
