----------------------------- MODULE MCPlatform -----------------------------
(***************************************************************************)
(* Platform on small instances: two runs, two approval ids, a tool that    *)
(* needs no approval and one that does.                                    *)
(***************************************************************************)
EXTENDS PlatformInvariant

CONSTANTS lookup, refund

MCTool == {lookup, refund}
MCRisky == {refund}

\* plan_tools of the demo adapter plans no tool or one; execute_tools also returns early
\* from longer plans, which the last one exercises.
MCPlans == {<< >>, <<lookup>>, <<refund>>, <<refund, lookup>>}
=============================================================================
