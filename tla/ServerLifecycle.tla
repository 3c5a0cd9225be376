---------------------------- MODULE ServerLifecycle ----------------------------
(***************************************************************************)
(* Start and stop of the server process: the connection pools, the MCP     *)
(* session manager and the maintenance task that uses the control pool.    *)
(*                                                                         *)
(* Sources: lifespan (app/main.py), ApplicationDependencies.start and stop *)
(* (app/bootstrap/dependencies.py), McpRuntime.start and stop              *)
(* (app/presentation/mcp/runtime.py), MaintenanceScheduler                 *)
(* (app/services/maintenance_service.py).  What a maintenance run does to   *)
(* the store is in module Maintenance.                                     *)
(***************************************************************************)
EXTENDS Naturals, Sequences, SequencesExt

CONSTANTS
    Sources,    \* the source databases, in the order of the dict
    Control     \* the control database

ASSUME Configured == /\ Sources \in Seq(Range(Sources)) /\ Sources # <<>>
                     /\ Control \notin Range(Sources)

Pools == Range(Sources) \cup {Control}

VARIABLES
    phase,      \* where lifespan is
    next,       \* the sources that the loop of phase has not reached
    open,       \* pools that are open
    sessions,   \* the exit stack holds the running session manager
    task,       \* the maintenance task
    stopSet,    \* its _stop event
    runs        \* outcome of the last run_once

vars == <<phase, next, open, sessions, task, stopSet, runs>>

Phases == {"down", "openControl", "principal", "openSource", "context",
           "startRuntime", "serving", "stopTask", "stopSessions",
           "closeSources", "closeControl", "stopped"}

TypeOK ==
    /\ phase \in Phases
    /\ next \in Seq(Range(Sources))
    /\ open \subseteq Pools
    /\ sessions \in BOOLEAN
    /\ task \in {"none", "waiting", "running", "done"}
    /\ stopSet \in BOOLEAN
    /\ runs \in {"none", "ok", "failed"}

Init ==
    /\ phase = "down" /\ next = <<>> /\ open = {}
    /\ sessions = FALSE /\ task = "none" /\ stopSet = FALSE /\ runs = "none"

-----------------------------------------------------------------------------
(* lifespan: deps.start().                                                  *)

Launch ==
    /\ phase = "down"
    /\ phase' = "openControl"
    /\ UNCHANGED <<next, open, sessions, task, stopSet, runs>>

OpenControl ==
    /\ phase = "openControl"
    /\ open' = open \cup {Control}
    /\ phase' = "principal"
    /\ UNCHANGED <<next, sessions, task, stopSet, runs>>

\* ensure_principal, then the loop over the sources.
EnsurePrincipal ==
    /\ phase = "principal"
    /\ next' = Sources
    /\ phase' = "openSource"
    /\ UNCHANGED <<open, sessions, task, stopSet, runs>>

OpenSource ==
    /\ phase = "openSource"
    /\ open' = open \cup {Head(next)}
    /\ phase' = "context"
    /\ UNCHANGED <<next, sessions, task, stopSet, runs>>

\* get_context: the catalog can be loaded, and read-only.
CheckContext ==
    /\ phase = "context"
    /\ next' = Tail(next)
    /\ phase' = IF Tail(next) = <<>> THEN "startRuntime" ELSE "openSource"
    /\ UNCHANGED <<open, sessions, task, stopSet, runs>>

\* Fault: a start that fails leaves what it opened.
StartFailsLeaking ==
    /\ phase \in {"openControl", "principal", "openSource", "context"}
    /\ phase' = "stopped"
    /\ UNCHANGED <<next, open, sessions, task, stopSet, runs>>

\* Any of these raises: deps.stop() and the exception leaves lifespan.
StartFails ==
    /\ phase \in {"openControl", "principal", "openSource", "context"}
    /\ phase' = "closeSources"
    /\ next' = Sources
    /\ UNCHANGED <<open, sessions, task, stopSet, runs>>

-----------------------------------------------------------------------------
(* lifespan: runtime.start(), serving, runtime.stop(), deps.stop().         *)

StartRuntime ==
    /\ phase = "startRuntime"
    /\ sessions' = TRUE
    /\ task' = "waiting" /\ stopSet' = FALSE
    /\ phase' = "serving"
    /\ UNCHANGED <<next, open, runs>>

\* The session manager does not come up: the finally clause runs all the same.
StartRuntimeFails ==
    /\ phase = "startRuntime"
    /\ phase' = "stopTask"
    /\ UNCHANGED <<next, open, sessions, task, stopSet, runs>>

Shutdown ==
    /\ phase = "serving"
    /\ phase' = "stopTask"
    /\ stopSet' = TRUE
    /\ UNCHANGED <<next, open, sessions, task, runs>>

\* Fault: the task is told to stop and not waited for.
TaskStoppedUnawaited ==
    /\ phase = "stopTask"
    /\ phase' = "stopSessions"
    /\ UNCHANGED <<next, open, sessions, task, stopSet, runs>>

\* MaintenanceScheduler.stop: there is no task, or wait_for saw it end ...
TaskStopped ==
    /\ phase = "stopTask"
    /\ task \in {"none", "done"}
    /\ task' = "none"
    /\ phase' = "stopSessions"
    /\ UNCHANGED <<next, open, sessions, stopSet, runs>>

\* Fault: the task is awaited without a timeout.
TaskCancelledNever == FALSE

\* ... or 10 seconds are over: it is cancelled, its transaction rolled back.
TaskCancelled ==
    /\ phase = "stopTask"
    /\ task \in {"waiting", "running"}
    /\ task' = "done"
    /\ UNCHANGED <<phase, next, open, sessions, stopSet, runs>>

StopSessions ==
    /\ phase = "stopSessions"
    /\ sessions' = FALSE
    /\ next' = Sources
    /\ phase' = "closeSources"
    /\ UNCHANGED <<open, task, stopSet, runs>>

CloseSource ==
    /\ phase = "closeSources"
    /\ next # <<>>
    /\ open' = open \ {Head(next)}
    /\ next' = Tail(next)
    /\ UNCHANGED <<phase, sessions, task, stopSet, runs>>

CloseControl ==
    /\ phase = "closeSources"
    /\ next = <<>>
    /\ open' = open \ {Control}
    /\ phase' = "stopped"
    /\ UNCHANGED <<next, sessions, task, stopSet, runs>>

\* The host starts the process again.
Relaunch ==
    /\ phase = "stopped"
    /\ phase' = "down" /\ task' = "none" /\ stopSet' = FALSE /\ runs' = "none"
    /\ UNCHANGED <<next, open, sessions>>

-----------------------------------------------------------------------------
(* MaintenanceScheduler._run.                                               *)

\* The interval is over, or the event was set: run_once, or return.
Wake ==
    /\ task = "waiting"
    /\ task' = IF stopSet THEN "done" ELSE "running"
    /\ UNCHANGED <<phase, next, open, sessions, stopSet, runs>>

\* Fault: the exception of run_once leaves the loop.
RunEndsUncaught ==
    /\ task = "running"
    /\ runs' \in {"ok", "failed"}
    /\ task' = IF stopSet \/ runs' = "failed" THEN "done" ELSE "waiting"
    /\ UNCHANGED <<phase, next, open, sessions, stopSet>>

\* run_once ends, well or not, and the loop tests the event.
RunEnds ==
    /\ task = "running"
    /\ runs' \in {"ok", "failed"}
    /\ task' = IF stopSet THEN "done" ELSE "waiting"
    /\ UNCHANGED <<phase, next, open, sessions, stopSet>>

Start ==
    \/ OpenControl \/ EnsurePrincipal \/ OpenSource \/ CheckContext
    \/ StartRuntime

Stop ==
    \/ TaskStopped \/ TaskCancelled \/ StopSessions \/ CloseSource \/ CloseControl

Next ==
    \/ Launch \/ Start \/ StartFails \/ StartRuntimeFails
    \/ Shutdown \/ Stop \/ Relaunch
    \/ Wake \/ RunEnds

Spec == Init /\ [][Next]_vars

-----------------------------------------------------------------------------
(* Properties.                                                              *)

\* The maintenance task has the control pool under it as long as it runs,
\* through every order of stop, timeout and failed start.
MaintenanceHasPool == task = "running" => Control \in open

\* A server that takes requests has every pool open, its session manager and a
\* maintenance task that is still there, whatever its runs came to.
ServingIsWhole ==
    phase = "serving" =>
        open = Pools /\ sessions /\ task \in {"waiting", "running"}

\* Whether the start failed half way or the server ran, nothing is left open.
NothingLeaks == phase = "stopped" => open = {} /\ ~sessions /\ task = "none"

\* A start or a shutdown that has begun comes to its end, even if a maintenance
\* run hangs.
SettlesDown == phase # "serving" /\ phase # "down" ~> phase \in {"serving", "stopped"}
=============================================================================
