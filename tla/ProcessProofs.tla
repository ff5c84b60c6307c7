--------------------------- MODULE ProcessProofs ---------------------------
(***************************************************************************)
(* Types, the agreement of registry and scheduler, and the graceful exit,  *)
(* for any configuration and any number of callers, tasks, goroutines,     *)
(* requests and retries.                                                   *)
(***************************************************************************)
EXTENDS Process, TLAPS

-----------------------------------------------------------------------------
(* The task manager.                                                       *)

\* A job has one name at most, and none once a call is removing it.
OneName ==
    /\ \A n, m \in DOMAIN tasks : tasks[n] = tasks[m] => n = m
    /\ \A c \in Callers :
        caller[c].pc = "removing" => \A n \in DOMAIN tasks : tasks[n] # caller[c].job

\* A call that is not over yet has found a job.
Found == \A c \in Callers : caller[c].pc \notin {"idle", "done"} => caller[c].job \in created

TaskInv == TasksTypeOK /\ OneName /\ Found /\ NoGhosts

LEMMA TasksStart == TasksInit => TaskInv
  BY DEF TasksInit, TaskInv, TasksTypeOK, OneName, Found, NoGhosts, Resting

LEMMA TasksStutter == TaskInv /\ UNCHANGED taskVars => TaskInv'
  BY DEF taskVars, TaskInv, TasksTypeOK, OneName, Found, NoGhosts

LEMMA RegistryKeeps ==
    ASSUME TaskInv, UNCHANGED <<registry, caller>>,
           scheduler' \in {"new", "running", "stopped"},
           run' \in [Goroutines -> [pc : {"idle", "started", "body"}, job : created \cup {None}]]
    PROVE  TaskInv'
  BY DEF registry, TaskInv, TasksTypeOK, OneName, Found, NoGhosts

LEMMA CallerTyped ==
    ASSUME TaskInv, NEW c \in Callers, NEW pc, NEW j, Calling(c, pc, j)
    PROVE  /\ caller'[c] = [pc |-> pc, job |-> j]
           /\ \A d \in Callers \ {c} : caller'[d] = caller[d]
  BY DEF Calling, TaskInv, TasksTypeOK

LEMMA AddKeeps ==
    ASSUME TaskInv, NEW n \in Names, NEW parses, AddTask(n, parses),
           UNCHANGED <<scheduler, run>>,
           \/ UNCHANGED caller
           \/ \E c \in Callers : caller[c].pc = "idle" /\ Calling(c, "done", None)
    PROVE  TaskInv'
<1>1. /\ \A d \in Callers : caller'[d].pc \notin {"idle", "done"} => caller'[d] = caller[d]
      /\ \A d \in Callers : caller[d].pc = "removing" => caller'[d] = caller[d]
  <2>1. CASE UNCHANGED caller
    BY <2>1
  <2>2. CASE \E c \in Callers : caller[c].pc = "idle" /\ Calling(c, "done", None)
    <3> PICK c \in Callers : caller[c].pc = "idle" /\ Calling(c, "done", None)
      BY <2>2
    <3>1. /\ caller'[c] = [pc |-> "done", job |-> None]
          /\ \A d \in Callers \ {c} : caller'[d] = caller[d]
      BY CallerTyped
    <3> QED BY <3>1
  <2> QED BY <2>1, <2>2
<1>2. caller' \in [Callers -> [pc : {"idle", "removing", "pausing", "resuming", "done"},
                               job : created \cup {None}]]
  BY DEF TaskInv, TasksTypeOK, Calling
<1>3. CASE UNCHANGED registry
  BY <1>1, <1>2, <1>3 DEF registry, TaskInv, TasksTypeOK, OneName, Found, NoGhosts
<1>4. CASE n \notin DOMAIN tasks /\ \E j \in Jobs \ created : Register(n, j)
  <2> PICK j \in Jobs \ created : Register(n, j)
    BY <1>4
  <2>1. /\ DOMAIN tasks' = DOMAIN tasks \cup {n}
        /\ tasks'[n] = j
        /\ \A x \in DOMAIN tasks : tasks'[x] = tasks[x]
    BY <1>4 DEF Register
  <2>2. /\ entries' = entries \cup {j}
        /\ created' = created \cup {j}
        /\ disabled' = disabled
    BY DEF Register
  <2>3. TasksTypeOK'
    <3>1. tasks' \in [DOMAIN tasks' -> created']
      BY <2>1, <2>2 DEF Register, TaskInv, TasksTypeOK
    <3>2. caller' \in [Callers -> [pc : {"idle", "removing", "pausing", "resuming", "done"},
                                   job : created' \cup {None}]]
      BY <1>2, <2>2
    <3>3. run' \in [Goroutines -> [pc : {"idle", "started", "body"}, job : created' \cup {None}]]
      BY <2>2 DEF TaskInv, TasksTypeOK
    <3> QED BY <2>1, <2>2, <3>1, <3>2, <3>3 DEF TaskInv, TasksTypeOK
  <2>4. \A x \in DOMAIN tasks : tasks[x] # j
    BY DEF TaskInv, TasksTypeOK
  <2>5. \A d \in Callers : caller[d].job # j
    BY NoneAssumption DEF TaskInv, TasksTypeOK
  <2>6. OneName'
    BY <1>1, <2>1, <2>4, <2>5 DEF TaskInv, OneName
  <2>7. NoGhosts'
    BY <1>1, <2>1, <2>2 DEF TaskInv, NoGhosts
  <2>8. Found'
    BY <1>1, <2>2 DEF TaskInv, Found
  <2> QED BY <2>3, <2>6, <2>7, <2>8 DEF TaskInv
<1> QED BY <1>3, <1>4 DEF AddTask

LEMMA ForgetKeeps ==
    ASSUME TaskInv, NEW c \in Callers, NEW n \in Names, Forget(c, n)
    PROVE  TaskInv'
<1>1. /\ DOMAIN tasks' = DOMAIN tasks \ {n}
      /\ \A x \in DOMAIN tasks \ {n} : tasks'[x] = tasks[x]
  BY DEF Forget
<1>2. /\ caller'[c] = [pc |-> "removing", job |-> tasks[n]]
      /\ \A d \in Callers \ {c} : caller'[d] = caller[d]
      /\ caller[c].pc = "idle"
  BY CallerTyped DEF Forget
<1>3. UNCHANGED <<entries, disabled, created, scheduler, run>> /\ n \in DOMAIN tasks
  BY DEF Forget
<1>4. TasksTypeOK'
  <2>1. tasks[n] \in created
    BY <1>3 DEF TaskInv, TasksTypeOK
  <2>2. caller' \in [Callers -> [pc : {"idle", "removing", "pausing", "resuming", "done"},
                                 job : created \cup {None}]]
    BY <2>1 DEF Forget, Calling, TaskInv, TasksTypeOK
  <2>3. tasks' \in [DOMAIN tasks' -> created]
    BY <1>1 DEF Forget, TaskInv, TasksTypeOK
  <2> QED BY <1>1, <1>3, <2>2, <2>3 DEF TaskInv, TasksTypeOK
<1>5. OneName'
  BY <1>1, <1>2, <1>3 DEF TaskInv, OneName
<1>6. NoGhosts'
  <2>1. ASSUME NEW j \in entries
        PROVE  \/ \E m \in DOMAIN tasks' : tasks'[m] = j
               \/ \E d \in Callers : caller'[d] = [pc |-> "removing", job |-> j]
    <3>1. CASE tasks[n] = j
      BY <3>1, <1>2
    <3>2. CASE \E m \in DOMAIN tasks \ {n} : tasks[m] = j
      BY <3>2, <1>1
    <3>3. CASE \E d \in Callers : caller[d] = [pc |-> "removing", job |-> j]
      BY <3>3, <1>2
    <3> QED BY <3>1, <3>2, <3>3, <1>3 DEF TaskInv, NoGhosts
  <2> QED BY <2>1, <1>1, <1>3 DEF TaskInv, NoGhosts
<1>7. Found'
  BY <1>2, <1>3 DEF TaskInv, TasksTypeOK, Found
<1> QED BY <1>4, <1>5, <1>6, <1>7 DEF TaskInv

LEMMA RemoveKeeps ==
    ASSUME TaskInv, NEW c \in Callers, Remove(c)
    PROVE  TaskInv'
<1>1. /\ caller'[c] = [pc |-> "done", job |-> None]
      /\ \A d \in Callers \ {c} : caller'[d] = caller[d]
      /\ caller[c].pc = "removing"
  BY CallerTyped DEF Remove
<1>2. /\ UNCHANGED <<tasks, disabled, created, scheduler, run>>
      /\ entries' = entries \ {caller[c].job}
  BY DEF Remove
<1>3. TasksTypeOK'
  BY <1>2 DEF Remove, Calling, TaskInv, TasksTypeOK
<1>4. OneName'
  BY <1>1, <1>2 DEF TaskInv, OneName
<1>5. NoGhosts'
  BY <1>1, <1>2 DEF TaskInv, OneName, NoGhosts
<1>6. Found'
  BY <1>1, <1>2 DEF TaskInv, Found
<1> QED BY <1>3, <1>4, <1>5, <1>6 DEF TaskInv

LEMMA FlagKeeps ==
    ASSUME TaskInv, NEW c \in Callers,
           SetDisabled(c) \/ \E n \in Names, pc \in {"pausing", "resuming"} : LookUp(c, n, pc)
    PROVE  TaskInv'
<1>1. UNCHANGED <<tasks, entries, created, scheduler, run>>
  BY DEF SetDisabled, LookUp, registry
<1>2. PICK pc \in {"pausing", "resuming", "done"}, j \in created \cup {None} :
        /\ Calling(c, pc, j)
        /\ caller[c].pc # "removing"
        /\ pc # "done" => j \in created
  BY DEF SetDisabled, LookUp, TaskInv, TasksTypeOK
<1>3. /\ caller'[c] = [pc |-> pc, job |-> j]
      /\ \A d \in Callers \ {c} : caller'[d] = caller[d]
  BY <1>2, CallerTyped
<1>4. TasksTypeOK'
  <2>1. caller' \in [Callers -> [pc : {"idle", "removing", "pausing", "resuming", "done"},
                                 job : created \cup {None}]]
    BY <1>2 DEF Calling, TaskInv, TasksTypeOK
  <2>2. disabled' \subseteq created
    <3>1. CASE SetDisabled(c)
      <4>1. caller[c].job \in created
        BY <3>1 DEF SetDisabled, TaskInv, Found
      <4> QED BY <3>1, <4>1 DEF SetDisabled, TaskInv, TasksTypeOK
    <3>2. CASE \E n \in Names, op \in {"pausing", "resuming"} : LookUp(c, n, op)
      BY <3>2 DEF LookUp, registry, TaskInv, TasksTypeOK
    <3> QED BY <3>1, <3>2
  <2> QED BY <1>1, <2>1, <2>2 DEF TaskInv, TasksTypeOK
<1>5. OneName'
  BY <1>1, <1>2, <1>3 DEF TaskInv, OneName
<1>6. NoGhosts'
  <2>1. \A d \in Callers : caller[d].pc = "removing" => caller'[d] = caller[d]
    BY <1>2, <1>3
  <2> QED BY <1>1, <2>1 DEF TaskInv, NoGhosts
<1>7. Found'
  BY <1>1, <1>2, <1>3 DEF TaskInv, Found
<1> QED BY <1>4, <1>5, <1>6, <1>7 DEF TaskInv

\* Every step of the process treats the task manager in one of these ways.
LEMMA TasksStep ==
    ASSUME TaskInv, next \in 1 .. Len(Configured) + 1, [Next]_vars
    PROVE  TaskInv'
<1>1. CASE UNCHANGED taskVars
  BY <1>1, TasksStutter
<1>2. CASE LoadTask
  <2>1. Configured[next] \in Config
    BY <1>2, ConfiguredAssumption DEF LoadTask
  <2>2. Configured[next].name \in Names
    BY <2>1 DEF Config
  <2>3. CASE UNCHANGED registry
    BY <1>2, <2>3, RegistryKeeps DEF LoadTask, TaskInv, TasksTypeOK
  <2>4. CASE AddTask(Configured[next].name, Configured[next].parses)
    BY <1>2, <2>2, <2>4, AddKeeps DEF LoadTask
  <2> QED BY <1>2, <2>3, <2>4 DEF LoadTask
<1>3. CASE StartTasks
  BY <1>3, <1>1, RegistryKeeps DEF StartTasks, Start, TaskInv, TasksTypeOK
<1>4. CASE StopTasks
  BY <1>4, RegistryKeeps DEF StopTasks, StopScheduler, TaskInv, TasksTypeOK
<1>5. ASSUME NEW c \in Callers, CallerStep(c) PROVE TaskInv'
  <2>1. ASSUME NEW n \in Names, NEW parses \in BOOLEAN, CallAddTask(c, n, parses)
        PROVE  TaskInv'
    BY <2>1, AddKeeps DEF CallAddTask
  <2> QED BY <1>5, <2>1, ForgetKeeps, RemoveKeeps, FlagKeeps DEF CallerStep
<1>6. ASSUME NEW g \in Goroutines, NEW j \in entries, Fire(g, j) PROVE TaskInv'
  BY <1>6, RegistryKeeps DEF Fire, TaskInv, TasksTypeOK
<1>7. ASSUME NEW g \in Goroutines, Enter(g) PROVE TaskInv'
  <2>1. run[g] \in [pc : {"idle", "started", "body"}, job : created \cup {None}]
    BY DEF TaskInv, TasksTypeOK
  <2> QED BY <1>7, <2>1, RegistryKeeps DEF Enter, Resting, TaskInv, TasksTypeOK
<1>8. ASSUME NEW g \in Goroutines, Leave(g) PROVE TaskInv'
  BY <1>8, RegistryKeeps DEF Leave, Resting, TaskInv, TasksTypeOK
<1> QED BY <1>1, <1>2, <1>3, <1>4, <1>5, <1>6, <1>7, <1>8
     DEF Next, MainStep, RunStep, EnterTask, LeaveTask, Exchange, Backoff, Accept, Admit, Answer,
         Move, RegisterExit, Listen, ServerReturns, Notify, ServerStopped, Signal, WindowOver,
         FlushTraces, CloseStore, TasksStopped, Shutdown, Drained, Forced, Rest, vars

-----------------------------------------------------------------------------
(* The process.                                                            *)

HasCron(s) == \E i \in 1 .. Len(s) : s[i] = "cron"

\* What Stop leaves behind, for good.
Quiet == scheduler # "running" /\ AllIdle

LifeTyping ==
    /\ main \in Unsignalled \cup {"hooks", "stopping", "shutdown"} \cup Ends
    /\ serve \in {"loading", "registering", "listening", "serving", "returned"}
    /\ next \in 1 .. Len(Configured) + 1
    /\ exitFuncs \in Seq(Hooks)
    /\ hooks \in Seq(Hooks)
    /\ window \in BOOLEAN
    /\ storeOpen \in BOOLEAN
    /\ health \in [Goroutines -> Request]
    /\ req \in [Requests -> {"none", "accepted", "admitted", "done", "refused"}]
    /\ failedHook \in BOOLEAN
    /\ ready \in BOOLEAN
    /\ served \subseteq Requests

Registered == serve \in {"listening", "serving", "returned"}

\* A signal to a process whose hook was registered is followed by a quiet scheduler as soon
\* as that hook is off the list.
ExitInv ==
    /\ Registered => HasCron(exitFuncs)
    /\ ready => Registered
    /\ main = "stopping" => hooks # << >>
    /\ main \in {"shutdown", "drained"} => hooks = << >>
    /\ main = "drained" => InFlight = {}
    /\ main \notin Unsignalled /\ ready /\ ~ failedHook /\ ~ HasCron(hooks)
            /\ main \notin {"failed", "killed", "crashed"} => Quiet

LifeInv == LifeTyping /\ ExitInv

LEMMA TailOfHooks ==
    ASSUME NEW s \in Seq(Hooks), s # << >>
    PROVE  /\ Head(s) \in Hooks
           /\ Tail(s) \in Seq(Hooks)
           /\ HasCron(s) => Head(s) = "cron" \/ HasCron(Tail(s))
<1>1. Head(s) \in Hooks /\ Tail(s) \in Seq(Hooks)
  OBVIOUS
<1>2. ASSUME NEW i \in 1 .. Len(s), s[i] = "cron", i # 1
      PROVE  HasCron(Tail(s))
  <2>1. i - 1 \in 1 .. Len(Tail(s)) /\ Tail(s)[i - 1] = s[i]
    BY <1>2
  <2> QED BY <1>2, <2>1 DEF HasCron
<1>3. Head(s) = s[1]
  OBVIOUS
<1> QED BY <1>1, <1>2, <1>3 DEF HasCron

LEMMA RegisteredHooks ==
    ASSUME LifeInv
    PROVE  exitFuncs \in Seq(Hooks) /\ Append(exitFuncs, "cron") \in Seq(Hooks)
<1>1. exitFuncs \in Seq(Hooks)
  BY DEF LifeInv, LifeTyping
<1>2. "cron" \in Hooks
  BY DEF Hooks
<1> QED BY <1>1, <1>2

LEMMA DoTyped ==
    ASSUME NEW r \in Request, NEW outcome \in Outcomes
    PROVE  Do(r, outcome) \in Request /\ waitBackoff(r) \in Request
  BY RetriesAssumption DEF Request, Do, waitBackoff, Again

LEMMA LifeStart == Init => LifeInv
<1> SUFFICES ASSUME Init PROVE LifeInv
  OBVIOUS
<1>1. LifeTyping
  <2>1. NewRequest \in Request
    BY RetriesAssumption DEF NewRequest, Request
  <2>2. 1 \in 1 .. Len(Configured) + 1
    BY ConfiguredAssumption
  <2>3. exitFuncs \in Seq(Hooks) /\ hooks \in Seq(Hooks)
    <3>1. "otel" \in Hooks /\ "store" \in Hooks
      BY DEF Hooks
    <3>2. /\ << >> \in Seq(Hooks)
          /\ <<"otel">> \in Seq(Hooks)
          /\ <<"store">> \in Seq(Hooks)
          /\ <<"otel", "store">> \in Seq(Hooks)
      BY <3>1
    <3> QED BY <3>2 DEF Init
  <2> QED BY <2>1, <2>2, <2>3 DEF Init, LifeTyping, Unsignalled
<1>2. ExitInv
  BY DEF Init, ExitInv, Registered, Unsignalled
<1> QED BY <1>1, <1>2 DEF LifeInv

LEMMA QuietKeeps ==
    ASSUME TaskInv, UNCHANGED <<scheduler, run>>
    PROVE  Quiet' = Quiet
  BY DEF Quiet, AllIdle

\* Steps of tasks, requests and callers.
LEMMA OthersKeep ==
    ASSUME TaskInv, LifeInv, UNCHANGED lifeVars, main \notin Ends,
           Quiet => Quiet',
           health' \in [Goroutines -> Request],
           req' \in [Requests -> {"none", "accepted", "admitted", "done", "refused"}]
    PROVE  LifeInv'
  BY DEF LifeInv, LifeTyping, ExitInv, Registered, lifeVars, Ends

LEMMA ServingKeeps ==
    ASSUME TaskInv, LifeInv, main \notin Ends,
           LoadTask \/ StartTasks \/ RegisterExit \/ Listen \/ ServerReturns
    PROVE  LifeInv'
<1>1. UNCHANGED <<main, hooks, window, storeOpen, failedHook, ready, served, health, req>>
  BY DEF LoadTask, StartTasks, RegisterExit, Listen, ServerReturns
<1>2. LifeTyping'
  <2>1. serve' \in {"loading", "registering", "listening", "serving", "returned"}
    BY DEF LifeInv, LifeTyping, LoadTask, StartTasks, RegisterExit, Listen, ServerReturns
  <2>2. next' \in 1 .. Len(Configured) + 1
    BY ConfiguredAssumption
    DEF LifeInv, LifeTyping, LoadTask, StartTasks, RegisterExit, Listen, ServerReturns
  <2>3. exitFuncs' \in Seq(Hooks)
    <3>1. exitFuncs \in Seq(Hooks) /\ Append(exitFuncs, "cron") \in Seq(Hooks)
      BY RegisteredHooks
    <3>2. exitFuncs' \in {exitFuncs, Append(exitFuncs, "cron")}
      BY DEF LoadTask, StartTasks, RegisterExit, Listen, ServerReturns
    <3> QED BY <3>1, <3>2
  <2> QED BY <1>1, <2>1, <2>2, <2>3 DEF LifeInv, LifeTyping
<1>3. Registered' => HasCron(exitFuncs')
  <2>1. CASE RegisterExit
    <3>1. exitFuncs' = Append(exitFuncs, "cron") /\ exitFuncs \in Seq(Hooks)
      BY <2>1 DEF RegisterExit, LifeInv, LifeTyping
    <3>2. Len(exitFuncs') \in 1 .. Len(exitFuncs') /\ exitFuncs'[Len(exitFuncs')] = "cron"
      BY <3>1
    <3> QED BY <3>2 DEF HasCron
  <2>2. CASE ~ RegisterExit
    BY <2>2 DEF LifeInv, ExitInv, Registered, LoadTask, StartTasks, Listen, ServerReturns, HasCron
  <2> QED BY <2>1, <2>2
<1>4. ready => Registered' /\ UNCHANGED <<scheduler, run>>
  BY DEF LifeInv, ExitInv, Registered, LoadTask, StartTasks, RegisterExit, Listen, ServerReturns,
     taskVars
<1>5. ExitInv'
  BY <1>1, <1>3, <1>4, QuietKeeps DEF LifeInv, ExitInv, InFlight, HasCron
<1> QED BY <1>2, <1>5 DEF LifeInv

LEMMA MainKeeps ==
    ASSUME TaskInv, LifeInv, main \notin Ends,
           Notify \/ ServerStopped \/ Signal \/ WindowOver \/ MainStep
    PROVE  LifeInv'
<1>1. UNCHANGED <<serve, next, exitFuncs, health, req>>
  BY DEF Notify, ServerStopped, Signal, WindowOver, MainStep, FlushTraces, CloseStore, StopTasks,
     TasksStopped, Shutdown, Drained, Forced, Rest
<1>2. main' \in Unsignalled \cup {"hooks", "stopping", "shutdown"} \cup Ends
  BY DEF Notify, ServerStopped, Signal, WindowOver, MainStep, FlushTraces, CloseStore, StopTasks,
     TasksStopped, Shutdown, Drained, Forced, LifeInv, LifeTyping, Unsignalled, Ends, Rest
<1>3. HasCron(exitFuncs') <=> HasCron(exitFuncs)
  BY <1>1 DEF HasCron
<1>4. CASE Notify \/ ServerStopped
  <2>1. UNCHANGED <<hooks, window, storeOpen, failedHook, ready, served>>
    BY <1>4 DEF Notify, ServerStopped
  <2>2. main' \in {"waiting", "killed", "failed"}
    BY <1>4 DEF Notify, ServerStopped
  <2> QED BY <1>1, <1>2, <1>3, <2>1, <2>2 DEF LifeInv, LifeTyping, ExitInv, Registered, Unsignalled
<1>5. CASE Signal
  <2>1. UNCHANGED <<window, storeOpen, failedHook>> /\ main' \in {"hooks", "crashed"}
    BY <1>5 DEF Signal
  <2>2. hooks' \in Seq(Hooks)
    <3>1. exitFuncs \in Seq(Hooks) /\ Append(exitFuncs, "cron") \in Seq(Hooks)
      BY RegisteredHooks
    <3>2. hooks' \in {hooks, exitFuncs, Append(exitFuncs, "cron")}
      BY <1>5 DEF Signal
    <3> QED BY <3>1, <3>2 DEF LifeInv, LifeTyping
  <2>3. ready' = (serve \in {"listening", "serving"}) /\ served' \subseteq Requests
    BY <1>5 DEF Signal, InFlight
  <2>4. ready' /\ main' = "hooks" => hooks' = exitFuncs /\ HasCron(exitFuncs)
    <3>1. ready' => serve # "registering" /\ HasCron(exitFuncs)
      BY <2>3 DEF LifeInv, ExitInv, Registered
    <3>2. main' = "hooks" /\ serve # "registering" => hooks' = exitFuncs
      BY <1>5 DEF Signal
    <3> QED BY <3>1, <3>2
  <2>5. ready' /\ main' = "hooks" => HasCron(hooks')
    BY <2>4
  <2> QED BY <1>1, <1>2, <1>3, <2>1, <2>2, <2>3, <2>5
       DEF LifeInv, LifeTyping, ExitInv, Registered
<1>6. CASE WindowOver
  <2>1. UNCHANGED <<main, hooks, storeOpen, failedHook, ready, served, scheduler, run>>
    BY <1>6 DEF WindowOver, Rest, taskVars
  <2>2. window' = TRUE
    BY <1>6 DEF WindowOver
  <2> QED BY <1>1, <1>2, <1>3, <2>1, <2>2, QuietKeeps
       DEF LifeInv, LifeTyping, ExitInv, Registered, InFlight, HasCron
<1>7. ASSUME NEW ok \in BOOLEAN, FlushTraces(ok) \/ CloseStore(ok)
      PROVE  LifeInv'
  <2>1. /\ UNCHANGED <<main, window, ready, served, scheduler, run>>
        /\ main = "hooks" /\ hooks # << >> /\ Head(hooks) # "cron"
        /\ After(ok)
        /\ storeOpen' \in BOOLEAN
    BY <1>7 DEF FlushTraces, CloseStore, Rest, taskVars, LifeInv, LifeTyping
  <2>2. hooks' \in Seq(Hooks) /\ failedHook' \in BOOLEAN
    BY <2>1, TailOfHooks DEF After, LifeInv, LifeTyping
  <2>3. ~ failedHook' /\ ~ HasCron(hooks') => ~ failedHook /\ ~ HasCron(hooks)
    BY <2>1, TailOfHooks DEF After, LifeInv, LifeTyping
  <2> QED BY <1>1, <1>2, <1>3, <2>1, <2>2, <2>3, QuietKeeps
       DEF LifeInv, LifeTyping, ExitInv, Registered
<1>8. CASE StopTasks
  <2>1. /\ UNCHANGED <<hooks, window, storeOpen, failedHook, ready, served>>
        /\ main' = "stopping" /\ hooks # << >> /\ Head(hooks) = "cron"
    BY <1>8 DEF StopTasks
  <2>2. HasCron(hooks')
    <3>1. 1 \in 1 .. Len(hooks) /\ hooks[1] = Head(hooks)
      BY <2>1 DEF LifeInv, LifeTyping
    <3> QED BY <2>1, <3>1 DEF HasCron
  <2> QED BY <1>1, <1>2, <1>3, <2>1, <2>2 DEF LifeInv, LifeTyping, ExitInv, Registered
<1>9. CASE TasksStopped
  <2>1. /\ UNCHANGED <<window, storeOpen, ready, served, scheduler, run>>
        /\ main' = "hooks" /\ main = "stopping"
        /\ After(TRUE)
        /\ Stopped
    BY <1>9 DEF TasksStopped, Rest, taskVars
  <2>2. hooks' \in Seq(Hooks) /\ failedHook' \in BOOLEAN
    BY <2>1, TailOfHooks DEF After, LifeInv, LifeTyping, ExitInv
  <2>3. Quiet'
    BY <2>1, QuietKeeps DEF Stopped, Quiet
  <2> QED BY <1>1, <1>2, <1>3, <2>1, <2>2, <2>3 DEF LifeInv, LifeTyping, ExitInv, Registered
<1>10. CASE Shutdown \/ Drained \/ Forced
  <2>1. /\ UNCHANGED <<hooks, window, storeOpen, failedHook, ready, served, scheduler, run>>
        /\ main \in {"hooks", "shutdown"} /\ main' \in {"shutdown", "drained", "forced"}
        /\ hooks = << >>
        /\ main' = "drained" => InFlight = {}
    BY <1>10 DEF Shutdown, Drained, Forced, Rest, taskVars, LifeInv, ExitInv
  <2>2. HasCron(hooks') <=> HasCron(hooks)
    BY <2>1
  <2>3. InFlight' = InFlight
    BY <1>1 DEF InFlight
  <2>4. main \notin Unsignalled /\ main \notin {"failed", "killed", "crashed"}
    BY <2>1 DEF Unsignalled
  <2> QED BY <1>1, <1>2, <1>3, <2>1, <2>2, <2>3, <2>4, QuietKeeps
       DEF LifeInv, LifeTyping, ExitInv, Registered
<1> QED BY <1>4, <1>5, <1>6, <1>7, <1>8, <1>9, <1>10 DEF MainStep

-----------------------------------------------------------------------------
LEMMA LifeStep ==
    ASSUME TaskInv, LifeInv, [Next]_vars
    PROVE  LifeInv'
<1>1. CASE UNCHANGED vars
  BY <1>1 DEF vars, lifeVars, taskVars, LifeInv, LifeTyping, ExitInv, Registered, HasCron, Quiet,
     AllIdle, InFlight
<1>2. CASE Next
  <2>1. main \notin Ends
    BY <1>2 DEF Next
  <2>2. /\ health \in [Goroutines -> Request]
        /\ req \in [Requests -> {"none", "accepted", "admitted", "done", "refused"}]
    BY DEF LifeInv, LifeTyping
  <2>3. ASSUME NEW c \in Callers, CallerStep(c), UNCHANGED <<lifeVars, health, req>>
        PROVE  LifeInv'
    <3>1. UNCHANGED <<scheduler, run>>
      BY <2>3 DEF CallerStep, CallAddTask, Forget, LookUp, Remove, SetDisabled
    <3> QED BY <2>1, <2>2, <2>3, <3>1, QuietKeeps, OthersKeep
  <2>4. ASSUME NEW g \in Goroutines, NEW j \in entries, Fire(g, j),
               UNCHANGED <<lifeVars, health, req>>
        PROVE  LifeInv'
    <3>1. ~ Quiet
      BY <2>4 DEF Fire, Quiet
    <3> QED BY <2>1, <2>2, <2>4, <3>1, OthersKeep
  <2>5. ASSUME NEW g \in Goroutines, RunStep(g)
        PROVE  LifeInv'
    <3>1. UNCHANGED <<lifeVars, req>>
      BY <2>5 DEF RunStep, EnterTask, Exchange, Backoff, LeaveTask
    <3>2. ~ Quiet
      BY <2>5 DEF RunStep, EnterTask, Exchange, Backoff, LeaveTask, Enter, Leave, Quiet, AllIdle
    <3>3. health' \in [Goroutines -> Request]
      <4>1. NewRequest \in Request
        BY RetriesAssumption DEF NewRequest, Request
      <4>2. CASE EnterTask(g)
        BY <2>2, <4>2 DEF EnterTask
      <4>3. ASSUME NEW outcome \in Outcomes, Exchange(g, outcome) PROVE health' \in [Goroutines -> Request]
        <5>1. Do(health[g], outcome) \in Request
          BY <2>2, DoTyped
        <5> QED BY <2>2, <4>3, <5>1 DEF Exchange, Health
      <4>4. CASE Backoff(g)
        <5>1. waitBackoff(health[g]) \in Request
          BY <2>2, DoTyped DEF Outcomes
        <5> QED BY <2>2, <4>4, <5>1 DEF Backoff, Health
      <4>5. CASE LeaveTask(g)
        BY <2>2, <4>1, <4>5 DEF LeaveTask, Health
      <4> QED BY <2>5, <4>2, <4>3, <4>4, <4>5 DEF RunStep
    <3> QED BY <2>1, <2>2, <3>1, <3>2, <3>3, OthersKeep
  <2>6. ASSUME NEW r \in Requests, Accept(r) \/ Admit(r) \/ Answer(r)
        PROVE  LifeInv'
    <3>1. UNCHANGED <<taskVars, lifeVars, health>>
      BY <2>6 DEF Accept, Admit, Answer, Move
    <3>2. req' \in [Requests -> {"none", "accepted", "admitted", "done", "refused"}]
      BY <2>2, <2>6 DEF Accept, Admit, Answer, Move
    <3> QED BY <2>1, <2>2, <3>1, <3>2, QuietKeeps, OthersKeep DEF taskVars
  <2> QED BY <1>2, <2>1, <2>3, <2>4, <2>5, <2>6, ServingKeeps, MainKeeps DEF Next
<1> QED BY <1>1, <1>2

ProcessInv == TaskInv /\ LifeInv

LEMMA ProcessInvariant == Spec => []ProcessInv
<1>1. Init => ProcessInv
  BY TasksStart, LifeStart DEF Init, ProcessInv
<1>2. ProcessInv /\ [Next]_vars => ProcessInv'
  BY TasksStep, LifeStep DEF ProcessInv, LifeInv, LifeTyping
<1> QED BY <1>1, <1>2, PTL DEF Spec

\* Attempts, hooks, jobs and requests stay within their types; in particular a call of the
\* client never counts more retries than it may make.
THEOREM ProcessTyping == Spec => []TypeOK
<1>1. ProcessInv => TypeOK
  BY DEF ProcessInv, TaskInv, LifeInv, LifeTyping, TypeOK
<1> QED BY <1>1, ProcessInvariant, PTL

\* The scheduler fires what is registered and what is about to be removed, no matter how
\* many calls of AddTask and RemoveTask overlap.
THEOREM SchedulerFollowsRegistry == Spec => []NoGhosts
<1>1. ProcessInv => NoGhosts
  BY DEF ProcessInv, TaskInv
<1> QED BY <1>1, ProcessInvariant, PTL

\* A drained exit leaves no task running and cuts off no request.
THEOREM ExitsAreOrderly == Spec => []OrderlyExit
<1>1. ProcessInv => OrderlyExit
  <2> SUFFICES ASSUME ProcessInv, main = "drained", ready, ~ failedHook
               PROVE  scheduler # "running" /\ AllIdle /\ InFlight = {}
    BY DEF OrderlyExit
  <2>1. hooks = << >> /\ InFlight = {}
    BY DEF ProcessInv, LifeInv, ExitInv
  <2>2. ~ HasCron(hooks)
    BY <2>1 DEF HasCron
  <2>3. Quiet
    BY <2>2 DEF ProcessInv, LifeInv, ExitInv, Unsignalled
  <2> QED BY <2>1, <2>3 DEF Quiet
<1> QED BY <1>1, ProcessInvariant, PTL

-----------------------------------------------------------------------------
(* Requests in flight: without the hook of the revocation list its client  *)
(* stays open, so nobody who was in flight at the signal is turned away.   *)

HasStore(s) == \E i \in 1 .. Len(s) : s[i] = "store"

ServedInv ==
    \/ HasStore(exitFuncs)
    \/ /\ storeOpen
       /\ ~ HasStore(hooks)
       /\ \A r \in served : req[r] \in {"accepted", "admitted", "done"}

LEMMA ServedStart ==
    ASSUME Init
    PROVE  ServedInv
  BY DEF Init, ServedInv, HasStore

LEMMA RequestsStayServed ==
    ASSUME LifeInv, ServedInv, NEW r \in Requests, Accept(r) \/ Admit(r) \/ Answer(r)
    PROVE  ServedInv'
<1>1. UNCHANGED lifeVars
  BY DEF Accept, Admit, Answer, Move
<1>2. CASE HasStore(exitFuncs)
  BY <1>1, <1>2 DEF ServedInv, HasStore, lifeVars
<1>3. CASE ~ HasStore(exitFuncs)
  <2>1. storeOpen /\ \A x \in served : req[x] \in {"accepted", "admitted", "done"}
    BY <1>3 DEF ServedInv
  <2>2. served \subseteq Requests /\ DOMAIN req = Requests
    BY DEF LifeInv, LifeTyping
  <2>3. \A x \in served : req'[x] \in {"accepted", "admitted", "done"}
    BY <2>1, <2>2 DEF Accept, Admit, Answer, Move
  <2> QED BY <1>1, <1>3, <2>3 DEF ServedInv, HasStore, lifeVars
<1> QED BY <1>2, <1>3

LEMMA ServedStep ==
    ASSUME LifeInv, ServedInv, [Next]_vars
    PROVE  ServedInv'
<1>1. ASSUME UNCHANGED <<exitFuncs, hooks, storeOpen, served, req>> PROVE ServedInv'
  BY <1>1 DEF ServedInv, HasStore
<1>2. ASSUME RegisterExit PROVE ServedInv'
  <2>1. UNCHANGED <<hooks, storeOpen, served, req>> /\ exitFuncs' = Append(exitFuncs, "cron")
    BY <1>2 DEF RegisterExit
  <2>2. HasStore(exitFuncs) => HasStore(exitFuncs')
    <3>1. exitFuncs \in Seq(Hooks)
      BY DEF LifeInv, LifeTyping
    <3> QED BY <2>1, <3>1 DEF HasStore
  <2> QED BY <2>1, <2>2 DEF ServedInv, HasStore
<1>3. ASSUME Signal PROVE ServedInv'
  <2>1. UNCHANGED <<exitFuncs, storeOpen, req>>
    BY <1>3 DEF Signal, Rest
  <2>2. ~ HasStore(exitFuncs) => ~ HasStore(hooks')
    <3>1. exitFuncs \in Seq(Hooks)
      BY DEF LifeInv, LifeTyping
    <3>2. ~ HasStore(exitFuncs) => ~ HasStore(Append(exitFuncs, "cron"))
      BY <3>1 DEF HasStore
    <3>3. hooks' \in {hooks, exitFuncs, Append(exitFuncs, "cron")}
      BY <1>3 DEF Signal
    <3> QED BY <3>2, <3>3 DEF ServedInv
  <2>3. \A r \in served' : req[r] \in {"accepted", "admitted"}
    BY <1>3 DEF Signal, InFlight
  <2> QED BY <2>1, <2>2, <2>3 DEF ServedInv, HasStore
<1>4. ASSUME NEW ok \in BOOLEAN, FlushTraces(ok) \/ CloseStore(ok) \/ TasksStopped
      PROVE  ServedInv'
  <2>1. UNCHANGED <<exitFuncs, served, req>>
    BY <1>4 DEF FlushTraces, CloseStore, TasksStopped, Rest
  <2>2. hooks \in Seq(Hooks) /\ hooks # << >>
    BY <1>4 DEF LifeInv, LifeTyping, ExitInv, FlushTraces, CloseStore, TasksStopped
  <2>3. HasStore(hooks') => HasStore(hooks)
    <3>1. hooks' \in {Tail(hooks), << >>}
      BY <1>4 DEF FlushTraces, CloseStore, TasksStopped, After
    <3> QED BY <2>2, <3>1 DEF HasStore
  <2>4. ~ HasStore(hooks) => UNCHANGED storeOpen
    <3>1. CloseStore(ok) => HasStore(hooks)
      BY <2>2 DEF CloseStore, HasStore
    <3> QED BY <1>4, <3>1 DEF FlushTraces, TasksStopped
  <2> QED BY <2>1, <2>3, <2>4 DEF ServedInv, HasStore
<1>5. CASE UNCHANGED vars
  BY <1>1, <1>5 DEF vars, lifeVars
<1>6. CASE Next
  <2>1. CASE LoadTask \/ StartTasks \/ Listen \/ ServerReturns
    BY <1>1, <2>1 DEF LoadTask, StartTasks, Listen, ServerReturns
  <2>2. CASE Notify \/ ServerStopped \/ WindowOver
    BY <1>1, <2>2 DEF Notify, ServerStopped, WindowOver, Rest
  <2>3. CASE StopTasks \/ Shutdown \/ Drained \/ Forced
    BY <1>1, <2>3 DEF StopTasks, Shutdown, Drained, Forced, Rest
  <2>4. ASSUME UNCHANGED <<lifeVars, req>> PROVE ServedInv'
    BY <1>1, <2>4 DEF lifeVars
  <2>5. ASSUME NEW g \in Goroutines, RunStep(g) PROVE UNCHANGED <<lifeVars, req>>
    BY <2>5 DEF RunStep, EnterTask, Exchange, Backoff, LeaveTask
  <2>6. MainStep => ServedInv'
    BY <1>4, <2>3 DEF MainStep
  <2> QED BY <1>2, <1>3, <1>6, <2>1, <2>2, <2>4, <2>5, <2>6, RequestsStayServed DEF Next
<1> QED BY <1>5, <1>6

\* A drained exit has answered every request that was in flight at the signal, unless a hook
\* has closed the client of the revocation list.
THEOREM RequestsInFlightAreServed == Spec => []InFlightServed
<1>1. Init => ServedInv
  BY ServedStart
<1>2. ProcessInv /\ ServedInv /\ [Next]_vars => ServedInv'
  BY ServedStep DEF ProcessInv
<1>3. ProcessInv /\ ServedInv => InFlightServed
  <2> SUFFICES ASSUME ProcessInv, ServedInv, main = "drained",
                      \A i \in DOMAIN exitFuncs : exitFuncs[i] # "store",
                      NEW r \in served
               PROVE  req[r] = "done"
    BY DEF InFlightServed
  <2>1. ~ HasStore(exitFuncs)
    BY DEF HasStore, ProcessInv, LifeInv, LifeTyping
  <2>2. InFlight = {} /\ r \in Requests
    BY DEF ProcessInv, LifeInv, LifeTyping, ExitInv
  <2> QED BY <2>1, <2>2 DEF ServedInv, InFlight
<1> QED BY <1>1, <1>2, <1>3, ProcessInvariant, PTL DEF Spec
=============================================================================
