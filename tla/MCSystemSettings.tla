-------------------------- MODULE MCSystemSettings --------------------------
(* Two types tell everything apart that four do: one that takes any value  *)
(* and one that does not.                                                  *)
EXTENDS SystemSettings, TLC

CONSTANTS i1, core, number, num, word

MCInitial == i1 :> [key |-> core, type |-> number, value |-> num]
MCParsesAs == (Values \X {Text}) \cup {<<num, number>>}
AnyOrder == Permutations(Calls)
=============================================================================
