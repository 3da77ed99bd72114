----------------------------- MODULE MCChatView -----------------------------
(* Sessions are interchangeable *)
EXTENDS ChatView
Symmetry == Permutations(Sessions)
=============================================================================
