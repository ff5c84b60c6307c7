------------------------------ MODULE Process ------------------------------
(***************************************************************************)
(* The life of a process: the main goroutine waits for a signal and runs   *)
(* the exit hooks, the serving goroutine loads the tasks and serves, tasks *)
(* call the process over HTTP and requests come in.                        *)
(*                                                                         *)
(* A hook is "otel" (flush the traces), "store" (close the redis client of *)
(* the revocation list; only with that driver) or "cron" (stop the tasks). *)
(* Once the main goroutine returns, everything is over.                    *)
(***************************************************************************)
EXTENDS TaskManager, HttpClient, Sequences

CONSTANTS
    Configured,     \* the tasks of the configuration, in order
    Requests        \* bound: as many requests are made

Config == [name : Names, disabled : BOOLEAN, registered : BOOLEAN, parses : BOOLEAN]

ASSUME ConfiguredAssumption == Configured \in Seq(Config)

VARIABLES
    main,           \* progress of the main goroutine
    serve,          \* progress of the serving goroutine
    next,           \* the configured task that is loaded next
    exitFuncs,      \* the registered exit hooks
    hooks,          \* the ones that are still to be run
    window,         \* the time for a graceful shutdown is over
    storeOpen,      \* the redis client of the revocation list is open
    health,         \* the HTTP call of each goroutine that runs a task
    req,            \* progress of each request
    failedHook,     \* history: a hook failed
    ready,          \* history: the signal came after the hook of the tasks was registered
    served          \* history: the requests in flight when a signal came to a serving process

lifeVars == <<main, serve, next, exitFuncs, hooks, window, storeOpen, failedHook, ready, served>>
vars == <<taskVars, lifeVars, health, req>>

Hooks == {"otel", "store", "cron"}

Unsignalled == {"starting", "waiting"}

Ends == {"drained", "forced", "failed", "killed", "crashed"}

TypeOK ==
    /\ TasksTypeOK
    /\ main \in Unsignalled \cup {"hooks", "stopping", "shutdown"} \cup Ends
    /\ serve \in {"loading", "registering", "listening", "serving", "returned"}
    /\ next \in 1 .. Len(Configured) + 1
    /\ exitFuncs \in Seq(Hooks)
    /\ hooks \in Seq(Hooks)
    /\ window \in BOOLEAN
    /\ storeOpen \in BOOLEAN
    /\ health \in [Goroutines -> Request]
    /\ req \in [Requests -> {"none", "accepted", "admitted", "done", "refused"}]
    /\ failedHook \in BOOLEAN
    /\ ready \in BOOLEAN
    /\ served \subseteq Requests

Init ==
    /\ TasksInit
    /\ main = "starting"
    /\ serve = "loading"
    /\ next = 1
    /\ exitFuncs \in {<< >>, <<"otel">>, <<"store">>, <<"otel", "store">>}
    /\ hooks = << >>
    /\ window = FALSE
    /\ storeOpen = TRUE
    /\ health = [g \in Goroutines |-> NewRequest]
    /\ req = [r \in Requests |-> "none"]
    /\ failedHook = FALSE
    /\ ready = FALSE
    /\ served = {}

-----------------------------------------------------------------------------
(* The serving goroutine: Run, and the init hook of registerInfra.  The    *)
(* hook cannot fail: no task of the configuration makes LoadTasks fail.    *)

\* LoadTasks, one configured task.
LoadTask ==
    /\ serve = "loading"
    /\ next <= Len(Configured)
    /\ next' = next + 1
    /\ LET cfg == Configured[next]
       IN  IF cfg.disabled \/ ~ cfg.registered THEN UNCHANGED registry
           ELSE AddTask(cfg.name, cfg.parses)
    /\ UNCHANGED <<scheduler, run, caller, main, serve, exitFuncs, hooks, window, storeOpen,
                   failedHook, ready, served, health, req>>

\* The scheduler is left alone when the configuration has no tasks.
StartTasks ==
    /\ serve = "loading"
    /\ next > Len(Configured)
    /\ IF Configured = << >> THEN UNCHANGED taskVars ELSE Start
    /\ serve' = "registering"
    /\ UNCHANGED <<main, next, exitFuncs, hooks, window, storeOpen, failedHook, ready, served,
                   health, req>>

\* RegisterExit, without a lock; then Sentinel, whose errors are only logged.
RegisterExit ==
    /\ serve = "registering"
    /\ exitFuncs' = Append(exitFuncs, "cron")
    /\ serve' = "listening"
    /\ UNCHANGED <<taskVars, main, next, hooks, window, storeOpen, failedHook, ready, served, health, req>>

\* Hertz accepts connections from here on.
Listen ==
    /\ serve = "listening"
    /\ serve' = "serving"
    /\ UNCHANGED <<taskVars, main, next, exitFuncs, hooks, window, storeOpen, failedHook, ready, served,
                   health, req>>

\* The port is taken, or the listener breaks.
ServerReturns ==
    /\ serve \in {"listening", "serving"}
    /\ serve' = "returned"
    /\ UNCHANGED <<taskVars, main, next, exitFuncs, hooks, window, storeOpen, failedHook, ready, served,
                   health, req>>

-----------------------------------------------------------------------------
(* The main goroutine.                                                     *)

InFlight == {r \in Requests : req[r] \in {"accepted", "admitted"}}

Rest == <<taskVars, serve, next, exitFuncs, health, req>>

\* awaitShutdown; before Notify a signal kills the process.
Notify ==
    /\ main = "starting"
    /\ main' \in {"waiting", "killed"}
    /\ UNCHANGED <<Rest, hooks, window, storeOpen, failedHook, ready, served>>

\* The error channel has an answer; the exit hooks are not run.
ServerStopped ==
    /\ main = "waiting"
    /\ serve = "returned"
    /\ main' = "failed"
    /\ UNCHANGED <<Rest, hooks, window, storeOpen, failedHook, ready, served>>

\* A signal: GracefulShutdown opens its window and reads the list of hooks.  While the other
\* goroutine appends to it, that is a data race: it sees the old list, the new one, or the
\* length of the one with the array of the other.
Signal ==
    /\ main = "waiting"
    /\ \/ /\ main' = "hooks"
          /\ hooks' \in {exitFuncs} \cup
                (IF serve = "registering" THEN {Append(exitFuncs, "cron")} ELSE {})
       \/ /\ serve = "registering"
          /\ main' = "crashed"
          /\ UNCHANGED hooks
    /\ ready' = (serve \in {"listening", "serving"})
    /\ served' = IF serve = "serving" THEN InFlight ELSE {}
    /\ UNCHANGED <<Rest, window, storeOpen, failedHook>>

WindowOver ==
    /\ main \in {"hooks", "stopping", "shutdown"}
    /\ window' = TRUE
    /\ UNCHANGED <<Rest, main, hooks, storeOpen, failedHook, ready, served>>

\* The rest of the list after a hook: executeFuns gives up at the first error, which
\* GracefulShutdown ignores.
After(ok) ==
    /\ hooks' = IF ok THEN Tail(hooks) ELSE << >>
    /\ failedHook' = (failedHook \/ ~ ok)

FlushTraces(ok) ==
    /\ main = "hooks"
    /\ hooks # << >> /\ Head(hooks) = "otel"
    /\ After(ok)
    /\ UNCHANGED <<Rest, main, window, storeOpen, ready, served>>

CloseStore(ok) ==
    /\ main = "hooks"
    /\ hooks # << >> /\ Head(hooks) = "store"
    /\ storeOpen' = FALSE
    /\ After(ok)
    /\ UNCHANGED <<Rest, main, window, ready, served>>

StopTasks ==
    /\ main = "hooks"
    /\ hooks # << >> /\ Head(hooks) = "cron"
    /\ StopScheduler
    /\ main' = "stopping"
    /\ UNCHANGED <<serve, next, exitFuncs, hooks, window, storeOpen, failedHook, ready, served, health, req>>

\* Stop returns.
TasksStopped ==
    /\ main = "stopping"
    /\ Stopped
    /\ main' = "hooks"
    /\ After(TRUE)
    /\ UNCHANGED <<Rest, window, storeOpen, ready, served>>

\* The server is told to stop; one that does not run says so at once.
Shutdown ==
    /\ main = "hooks"
    /\ hooks = << >>
    /\ main' = IF serve = "serving" THEN "shutdown" ELSE "forced"
    /\ UNCHANGED <<Rest, hooks, window, storeOpen, failedHook, ready, served>>

\* Mutant of Drained: requests in flight are not waited for.
DrainedAnyway ==
    /\ main = "shutdown"
    /\ main' = "drained"
    /\ UNCHANGED <<Rest, hooks, window, storeOpen, failedHook, ready, served>>

Drained ==
    /\ main = "shutdown"
    /\ InFlight = {}
    /\ main' = "drained"
    /\ UNCHANGED <<Rest, hooks, window, storeOpen, failedHook, ready, served>>

Forced ==
    /\ main = "shutdown"
    /\ window
    /\ main' = "forced"
    /\ UNCHANGED <<Rest, hooks, window, storeOpen, failedHook, ready, served>>

MainStep ==
    \/ \E ok \in BOOLEAN : FlushTraces(ok) \/ CloseStore(ok)
    \/ StopTasks \/ TasksStopped \/ Shutdown \/ Drained \/ Forced

-----------------------------------------------------------------------------
(* Tasks and requests.                                                     *)

Health(g, new) == health' = [health EXCEPT ![g] = new]

\* The body of the task is the health check, a call of this very process; it returns once
\* the client does.
EnterTask(g) ==
    /\ Enter(g)
    /\ UNCHANGED <<lifeVars, health, req>>

\* Only a server that runs can answer.
Exchange(g, outcome) ==
    /\ run[g].pc = "body"
    /\ health[g].pc = "send"
    /\ outcome \in {"below500", "5xx"} => serve = "serving"
    /\ Health(g, Do(health[g], outcome))
    /\ UNCHANGED <<taskVars, lifeVars, req>>

Backoff(g) ==
    /\ run[g].pc = "body"
    /\ health[g].pc = "backoff"
    /\ Health(g, waitBackoff(health[g]))
    /\ UNCHANGED <<taskVars, lifeVars, req>>

LeaveTask(g) ==
    /\ Returned(health[g])
    /\ Leave(g)
    /\ Health(g, NewRequest)
    /\ UNCHANGED <<lifeVars, req>>

RunStep(g) ==
    EnterTask(g) \/ (\E outcome \in Outcomes : Exchange(g, outcome)) \/ Backoff(g) \/ LeaveTask(g)

Move(r, from, to) ==
    /\ req[r] = from
    /\ req' = [req EXCEPT ![r] = to]
    /\ UNCHANGED <<taskVars, lifeVars, health>>

Accept(r) == serve = "serving" /\ main # "shutdown" /\ Move(r, "none", "accepted")

\* The middleware asks the revocation list; a closed client is an error, and the request
\* is turned away.
Admit(r) == Move(r, "accepted", IF storeOpen THEN "admitted" ELSE "refused")

Answer(r) == Move(r, "admitted", "done")

Next ==
    /\ main \notin Ends
    /\ \/ LoadTask \/ StartTasks \/ RegisterExit \/ Listen \/ ServerReturns
       \/ Notify \/ ServerStopped \/ Signal \/ WindowOver \/ MainStep
       \/ \E c \in Callers : CallerStep(c) /\ UNCHANGED <<lifeVars, health, req>>
       \/ \E g \in Goroutines :
            \/ \E j \in entries : Fire(g, j) /\ UNCHANGED <<lifeVars, health, req>>
            \/ RunStep(g)
       \/ \E r \in Requests : Accept(r) \/ Admit(r) \/ Answer(r)

\* The clock runs, main and the goroutines of tasks are scheduled, an exchange ends or times
\* out.  Nobody has to send a signal, and a handler may never answer.
Fairness ==
    /\ WF_vars(WindowOver /\ main \notin Ends)
    /\ WF_vars(MainStep /\ main \notin Ends)
    /\ \A g \in Goroutines : WF_vars(RunStep(g) /\ main \notin Ends)

Spec == Init /\ [][Next]_vars

FairSpec == Spec /\ Fairness

-----------------------------------------------------------------------------
(* Properties.                                                             *)

\* README, graceful exit.  A shutdown that drained, with no hook failing, leaves nothing
\* behind, unless the signal came before the hook of the tasks was registered: no task
\* runs, none can start, and no request is cut off.
OrderlyExit ==
    main = "drained" /\ ready /\ ~ failedHook
        => scheduler # "running" /\ AllIdle /\ InFlight = {}

\* Stop waits for running tasks without a bound of its own, outside of the window; since
\* tasks end by themselves (the client gives up) a signal still ends the process.
ShutdownEnds == main = "hooks" ~> main \in Ends

\* README, graceful exit: requests in flight are waited for.  A shutdown that drained has
\* answered every request that was in flight at the signal, unless an exit hook has closed
\* the client of the revocation list, which requests on their way then still ask for.
InFlightServed ==
    main = "drained" /\ (\A i \in DOMAIN exitFuncs : exitFuncs[i] # "store")
        => \A r \in served : req[r] = "done"
=============================================================================
