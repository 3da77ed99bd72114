---------------------------- MODULE MCAgentTurns ----------------------------
(* Instances of AgentTurns for TLC. *)
EXTENDS AgentTurns

\* Answers without calls, calls that need no approval, an approval in front of
\* a call that runs, and a batch that may fail behind one.
MCShapes == {<<>>, <<"ask", "plain">>, <<"risky", "plain", "ask">>}
=============================================================================
