----------------------------- MODULE MCProcess -----------------------------
(* A configuration with a task that is skipped, one that is loaded and one *)
(* whose name is taken by then.                                            *)
EXTENDS Process

CONSTANT health_task

MCTask(skip) ==
    [name |-> health_task, disabled |-> skip, registered |-> TRUE, parses |-> TRUE]

MCConfigured == <<MCTask(TRUE), MCTask(FALSE), MCTask(FALSE)>>
=============================================================================
