--------------------------- MODULE MCReconstruction ---------------------------
(* Instance of Reconstruction for TLC: fragments of the epochs, each linked to *)
(* one before it or to none, the first of them not of the last epoch; the      *)
(* writers are alike.                                                          *)
EXTENDS Reconstruction

MCCids == 1 .. 2
Fragment(e, l) == [stack |-> "s", epoch |-> e, kind |-> "episodic", links |-> l]
MCContents ==
    {<<Fragment(e1, <<>>), Fragment(e2, l)>> : e1 \in Epochs \ {3}, e2 \in Epochs, l \in {<<>>, <<1>>}}
MCSymmetry == Permutations(Writers)
==============================================================================
