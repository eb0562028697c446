---------------------------- MODULE MCHippocampus ----------------------------
(* Instance of Recall for TLC: three CIDs linked in every acyclic way, the     *)
(* first of them either three epochs old or of another stack.                  *)
EXTENDS Recall

MCCids == 1 .. 3
Fragment(st, e, l) == [stack |-> st, epoch |-> e, kind |-> "episodic", links |-> l]
MCContents ==
    {<<first, Fragment("s", 3, two), Fragment("s", 3, three)>> :
        first \in {Fragment("s", 0, <<>>), Fragment("t", 3, <<>>)},
        two \in {<<>>, <<1>>},
        three \in {<<>>, <<1>>, <<2>>, <<1, 2>>, <<2, 1>>}}
=============================================================================
