---------------------------- MODULE MCMemoryStore ----------------------------
(* An instance of MemoryStore whose callers also ask for deadlines gone by. *)
EXTENDS MemoryStore

TimesToLive == {-2, 0, 1, 2}
=============================================================================
