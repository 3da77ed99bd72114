---------------------------- MODULE MCApprovals ----------------------------
(* Two sessions: one asks twice, once from a script, the other asks a question *)
EXTENDS ApprovalDialogs
CONSTANTS r1, r2, r3, r4, s1, s2

Dir == <<"d">>
File == <<"d", "f">>
MCPaths == {<<>>, Dir, File}
MCSessionOf == [r \in Requests |-> IF r \in {r3, r4} THEN s2 ELSE s1]

Tool(b, s, q) == [boundary |-> b, sensitive |-> s, question |-> q]
MCTools == [r \in Requests |->
  IF r = r1 THEN <<Tool(Dir, <<>>, FALSE), Tool(File, File, FALSE)>>
  ELSE IF r = r2 THEN <<Tool(<<>>, <<>>, TRUE), Tool(<<>>, File, FALSE)>>
  ELSE <<Tool(<<>>, <<>>, TRUE), Tool(File, <<>>, FALSE)>>]
MCAsked == [c \in Commands |->
  IF c = "tui" THEN {r1, r2, r3} ELSE IF c = "web" THEN {r1, r3} ELSE {r1, r3, r4}]
Symmetry == Permutations(Tabs)
=============================================================================
