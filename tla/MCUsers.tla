------------------------------ MODULE MCUsers ------------------------------
(* One user with one role to begin with; a second one can be created.      *)
EXTENDS Users, TLC

CONSTANTS u1, root, secret

MCInitial == u1 :> [name |-> root, password |-> secret, login |-> 0]
MCInitialRoles == {<<u1, 1>>}
AnyOrder == Permutations(Calls)
=============================================================================
