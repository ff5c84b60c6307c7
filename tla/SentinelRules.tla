--------------------------- MODULE SentinelRules ---------------------------
(***************************************************************************)
(* The Sentinel middleware's configuration: the file, the copy that one    *)
(* goroutine reloads every 30 seconds, and the resource map and the rules  *)
(* that another derives from the copy every three minutes.  The rules live *)
(* in the library, flow rules and circuit breakers apart; the map is under *)
(* a lock that the loader holds until it returns.                          *)
(*                                                                         *)
(* The contents of a file are a sequence of resources.  The file of a      *)
(* configuration that is not there yet is the empty one.                   *)
(***************************************************************************)
EXTENDS Integers, Sequences, FiniteSets

CONSTANTS
    Files,          \* the contents a reader may find in the file
    GlobalDefault   \* resource of the paths that are not in the map

VARIABLES
    file,
    sentinel,       \* SentinelInstance: "none" before the init hook, then "up" or "nil"
    config,         \* configManager.config
    resourceMap, flowRules, breakers,
    refresh         \* progress of loadRules, and whether the last one failed

sentinelVars == <<file, sentinel, config, resourceMap, flowRules, breakers, refresh>>

EmptyFile == <<>>

Enabled(cfg) == {i \in DOMAIN cfg : cfg[i].enabled}

\* Two resources of one path: the later one.
ResourceMap(cfg) ==
    [p \in {cfg[i].path : i \in Enabled(cfg)} |->
        LET i == CHOOSE i \in Enabled(cfg) :
                    cfg[i].path = p /\ \A j \in Enabled(cfg) : cfg[j].path = p => j <= i
        IN  cfg[i].name]

ToFlowRules(cfg) == {cfg[i].name : i \in {j \in Enabled(cfg) : cfg[j].flow}}

ToCircuitBreakerRules(cfg) == {cfg[i].name : i \in {j \in Enabled(cfg) : cfg[j].breaker}}

matchResource(map, path) == IF path \in DOMAIN map THEN map[path] ELSE GlobalDefault

\* What a configuration asks for.
Limits(cfg, path) == matchResource(ResourceMap(cfg), path) \in ToFlowRules(cfg)

Locked == refresh.pc \notin {"idle", "read"}

SentinelInit ==
    /\ file \in Files
    /\ sentinel = "none"
    /\ config = EmptyFile
    /\ resourceMap = ResourceMap(EmptyFile) /\ flowRules = {} /\ breakers = {}
    /\ refresh = [pc |-> "idle", cfg |-> EmptyFile, failed |-> FALSE]

\* The operator saves the file.
WriteFile(contents) ==
    /\ contents # file
    /\ file' = contents
    /\ UNCHANGED <<sentinel, config, resourceMap, flowRules, breakers, refresh>>

\* InitSentinel, in the init hook: the file cannot be read, the library not initialised or
\* the rules not loaded, and the instance stays nil.
InitSentinel(ok) ==
    /\ sentinel = "none"
    /\ IF ok
       THEN /\ sentinel' = "up"
            /\ config' = file
            /\ resourceMap' = ResourceMap(file)
            /\ flowRules' = ToFlowRules(file)
            /\ breakers' = ToCircuitBreakerRules(file)
            /\ refresh' = [refresh EXCEPT !.cfg = file]
       ELSE sentinel' = "nil" /\ UNCHANGED <<config, resourceMap, flowRules, breakers, refresh>>
    /\ UNCHANGED file

\* The watcher; a file that cannot be read or parsed leaves the configuration as it is.
reloadConfig ==
    /\ sentinel = "up"
    /\ config' = file
    /\ UNCHANGED <<file, sentinel, resourceMap, flowRules, breakers, refresh>>

\* Mutant of BeginRefresh: the configuration is the one read at the start.
BeginRefreshOnce ==
    /\ sentinel = "up" /\ refresh.pc = "idle"
    /\ refresh' = [refresh EXCEPT !.pc = "read"]
    /\ UNCHANGED <<file, sentinel, config, resourceMap, flowRules, breakers>>

\* loadRules reads the configuration, then takes the lock.
BeginRefresh ==
    /\ sentinel = "up" /\ refresh.pc = "idle"
    /\ refresh' = [refresh EXCEPT !.pc = "read", !.cfg = config]
    /\ UNCHANGED <<file, sentinel, config, resourceMap, flowRules, breakers>>

ReplaceMap ==
    /\ refresh.pc = "read"
    /\ resourceMap' = ResourceMap(refresh.cfg)
    /\ refresh' = [refresh EXCEPT !.pc = "flow"]
    /\ UNCHANGED <<file, sentinel, config, flowRules, breakers>>

\* Mutant of FlowRulesLoaded: on an error the lock is not released.
FlowRulesKeepLock(ok) == IF ok THEN "breakers" ELSE "failed"

\* The deferred Unlock runs whether loading succeeds or not.
FlowRulesLoaded(ok) == IF ok THEN "breakers" ELSE "idle"

LoadFlowRules(ok) ==
    /\ refresh.pc = "flow"
    /\ flowRules' = IF ok THEN ToFlowRules(refresh.cfg) ELSE flowRules
    /\ refresh' = [refresh EXCEPT !.pc = FlowRulesLoaded(ok), !.failed = ~ ok]
    /\ UNCHANGED <<file, sentinel, config, resourceMap, breakers>>

LoadBreakers(ok) ==
    /\ refresh.pc = "breakers"
    /\ breakers' = IF ok THEN ToCircuitBreakerRules(refresh.cfg) ELSE breakers
    /\ refresh' = [refresh EXCEPT !.pc = "idle", !.failed = ~ ok]
    /\ UNCHANGED <<file, sentinel, config, resourceMap, flowRules>>

RefreshStep ==
    BeginRefresh \/ ReplaceMap \/ \E ok \in BOOLEAN : LoadFlowRules(ok) \/ LoadBreakers(ok)

\* Both tickers go on, and neither reading nor loading fails for ever.
SentinelFairness ==
    /\ WF_config(reloadConfig) /\ WF_refresh(RefreshStep)
    /\ SF_refresh(LoadFlowRules(TRUE)) /\ SF_refresh(LoadBreakers(TRUE))

InForce(cfg) ==
    /\ resourceMap = ResourceMap(cfg)
    /\ flowRules = ToFlowRules(cfg)
    /\ breakers = ToCircuitBreakerRules(cfg)

\* README: rules are updated when the file changes.  Once a file is no longer written, its
\* map and rules are the ones in force, whatever was read or failed in between.
RulesFollowFile ==
    \A contents \in Files :
        <>[](file = contents /\ sentinel = "up") => <>[]InForce(contents)
=============================================================================
