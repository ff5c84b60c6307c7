--------------------------- MODULE MCAuthSession ---------------------------
(* Nodes, ids and calls are interchangeable.                              *)
EXTENDS AuthSession, TLC

Ids == Permutations(Nodes) \cup Permutations(Jtis) \cup Permutations(Requests)
           \cup Permutations(Logouts)
=============================================================================
