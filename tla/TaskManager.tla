---------------------------- MODULE TaskManager ----------------------------
(***************************************************************************)
(* Scheduled tasks: the registry of a TaskManager, the scheduler it drives *)
(* and the goroutines in which tasks run.  Callers of AddTask, RemoveTask, *)
(* PauseTask and ResumeTask are the goroutines the manager is written for; *)
(* GetTaskStatus and ListTasks only read.                                  *)
(*                                                                         *)
(* Registry and scheduler are two structures: AddTask changes both under   *)
(* one lock, RemoveTask changes one after the other.  A job is known by    *)
(* the id that the scheduler gave its entry.                               *)
(***************************************************************************)
CONSTANTS
    Names,
    Jobs,           \* bound: as many tasks are added
    Goroutines,     \* bound: as many tasks run at once
    Callers,        \* bound: as many calls are made
    None

ASSUME NoneAssumption == None \notin Jobs

VARIABLES
    tasks,          \* the registry: name -> job
    entries,        \* the jobs the scheduler knows
    disabled,       \* the jobs whose flag is set
    created,        \* the ids handed out
    scheduler,      \* "new", "running" or "stopped"
    run,            \* what each goroutine does for the scheduler
    caller          \* progress of each call

registry == <<tasks, entries, disabled, created>>
taskVars == <<tasks, entries, disabled, created, scheduler, run, caller>>

Resting == [pc |-> "idle", job |-> None]

TasksTypeOK ==
    /\ DOMAIN tasks \subseteq Names
    /\ tasks \in [DOMAIN tasks -> created]
    /\ entries \subseteq created
    /\ disabled \subseteq created
    /\ created \subseteq Jobs
    /\ scheduler \in {"new", "running", "stopped"}
    /\ run \in [Goroutines -> [pc : {"idle", "started", "body"}, job : created \cup {None}]]
    /\ caller \in [Callers -> [pc : {"idle", "removing", "pausing", "resuming", "done"},
                               job : created \cup {None}]]

TasksInit ==
    /\ tasks = << >>
    /\ entries = {}
    /\ disabled = {}
    /\ created = {}
    /\ scheduler = "new"
    /\ run = [g \in Goroutines |-> Resting]
    /\ caller = [c \in Callers |-> Resting]

-----------------------------------------------------------------------------
(* The registry.                                                           *)

Register(n, j) ==
    /\ tasks' = [x \in DOMAIN tasks \cup {n} |-> IF x = n THEN j ELSE tasks[x]]
    /\ entries' = entries \cup {j}
    /\ created' = created \cup {j}
    /\ UNCHANGED disabled

\* Mutant of AddTask: a name that is taken is not turned away.
AddTaskTwice(n, parses) ==
    IF ~ parses THEN UNCHANGED registry
    ELSE \E j \in Jobs \ created : Register(n, j)

\* Under the lock: a name that is taken or a cron expression that does not parse is an error.
AddTask(n, parses) ==
    IF n \in DOMAIN tasks \/ ~ parses THEN UNCHANGED registry
    ELSE \E j \in Jobs \ created : Register(n, j)

Calling(c, pc, j) == caller' = [caller EXCEPT ![c] = [pc |-> pc, job |-> j]]

CallAddTask(c, n, parses) ==
    /\ caller[c].pc = "idle"
    /\ AddTask(n, parses)
    /\ Calling(c, "done", None)
    /\ UNCHANGED <<scheduler, run>>

\* RemoveTask under the lock; the scheduler still has the entry.
Forget(c, n) ==
    /\ caller[c].pc = "idle"
    /\ n \in DOMAIN tasks
    /\ tasks' = [x \in DOMAIN tasks \ {n} |-> tasks[x]]
    /\ Calling(c, "removing", tasks[n])
    /\ UNCHANGED <<entries, disabled, created, scheduler, run>>

\* RemoveTask after it has given the lock back.
Remove(c) ==
    /\ caller[c].pc = "removing"
    /\ entries' = entries \ {caller[c].job}
    /\ Calling(c, "done", None)
    /\ UNCHANGED <<tasks, disabled, created, scheduler, run>>

\* PauseTask and ResumeTask look the job up under the lock and set its flag without it.
LookUp(c, n, pc) ==
    /\ caller[c].pc = "idle"
    /\ n \in DOMAIN tasks
    /\ Calling(c, pc, tasks[n])
    /\ UNCHANGED <<registry, scheduler, run>>

SetDisabled(c) ==
    /\ caller[c].pc \in {"pausing", "resuming"}
    /\ disabled' = IF caller[c].pc = "pausing" THEN disabled \cup {caller[c].job}
                   ELSE disabled \ {caller[c].job}
    /\ Calling(c, "done", None)
    /\ UNCHANGED <<tasks, entries, created, scheduler, run>>

CallerStep(c) ==
    \/ \E n \in Names :
        \/ \E parses \in BOOLEAN : CallAddTask(c, n, parses)
        \/ Forget(c, n)
        \/ \E pc \in {"pausing", "resuming"} : LookUp(c, n, pc)
    \/ Remove(c)
    \/ SetDisabled(c)

-----------------------------------------------------------------------------
(* The scheduler and the goroutines it starts.                             *)

Start == scheduler' = "running" /\ UNCHANGED <<registry, run, caller>>

\* Stopping a scheduler that was never started does nothing.
StopScheduler ==
    /\ scheduler' = IF scheduler = "running" THEN "stopped" ELSE scheduler
    /\ UNCHANGED <<registry, run, caller>>

AllIdle == \A g \in Goroutines : run[g].pc = "idle"

\* Mutant of Stopped: the running tasks are not waited for.
StoppedAtOnce == scheduler # "running"

\* What Stop waits for.
Stopped == scheduler # "running" /\ AllIdle

\* An entry is due.
Fire(g, j) ==
    /\ scheduler = "running"
    /\ run[g].pc = "idle"
    /\ j \in entries
    /\ run' = [run EXCEPT ![g] = [pc |-> "started", job |-> j]]
    /\ UNCHANGED <<registry, scheduler, caller>>

\* wrappedTask: the flag is read once, before the body.
Enter(g) ==
    /\ run[g].pc = "started"
    /\ run' = [run EXCEPT ![g] = IF run[g].job \in disabled THEN Resting
                                ELSE [run[g] EXCEPT !.pc = "body"]]
    /\ UNCHANGED <<registry, scheduler, caller>>

\* The body returns.
Leave(g) ==
    /\ run[g].pc = "body"
    /\ run' = [run EXCEPT ![g] = Resting]
    /\ UNCHANGED <<registry, scheduler, caller>>

-----------------------------------------------------------------------------
\* RemoveTask takes the job off the registry first and off the scheduler later, and a new
\* task of the same name may come in between: still the scheduler fires exactly what is
\* registered and what a call is about to remove.
NoGhosts ==
    /\ \A j \in entries :
        \/ \E n \in DOMAIN tasks : tasks[n] = j
        \/ \E c \in Callers : caller[c] = [pc |-> "removing", job |-> j]
    /\ \A n \in DOMAIN tasks : tasks[n] \in entries
=============================================================================
