--------------------------- MODULE MCAgentRuntime ----------------------------
(* The instance of AgentRuntime for TLC: two requests, to one agent or to the  *)
(* memory; budgets met exactly and exceeded; grammars with a gap before a      *)
(* known facet, with white space and with a facet given twice.                 *)
EXTENDS AgentRuntime

\* Two facets and two values, one of them also written in another way, and white space.
MCTexts == {"x", "X ", "y", " "}
MCCanon == [t \in MCTexts |-> CASE t = "X " -> "x" [] t = " " -> "" [] OTHER -> t]
MCPatterns == <<"x", "y">>

MCMemories == {<<{"X "}, {"y"}>>, <<{}, {"x"}>>}
MCQueries == {<<{}, {}>>, <<{"x", " "}, {}>>, <<{"x", "y"}, {"x", "y"}>>}

\* An answer uses no tokens or two: more than the first budget, exactly the second.
MCUsages == {0, 2}
MCConfigs == {[maxSteps |-> 2, tokenBudget |-> 1], [maxSteps |-> 1, tokenBudget |-> 2]}

\* An answer calls no tool, one, or two in a row.
Store(g) == [tool |-> "remember", entry |-> Entry(g, "text")]
MCCallLists == {<<>>,
    <<[tool |-> "other"], [tool |-> "recall", grammar |-> <<{"x", " "}, {}>>]>>,
    <<Store(<<{"X "}, {"y"}>>), [tool |-> "recall", grammar |-> <<{}, {}>>]>>}
=============================================================================
