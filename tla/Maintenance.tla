------------------------------- MODULE Maintenance -------------------------------
(***************************************************************************)
(* The periodic cleanup at work: the task of ServerLifecycle on the rows   *)
(* of TokenRetention, across shutdowns that catch it in the middle and     *)
(* restarts with other settings.                                           *)
(*                                                                         *)
(* Sources: MaintenanceScheduler._run and MaintenanceService.run_once      *)
(* (app/services/maintenance_service.py), cleanup of the control           *)
(* repository, lifespan (app/main.py).                                     *)
(***************************************************************************)
EXTENDS ServerLifecycle, TokenRetention

allVars == <<vars, retentionVars>>

MaintenanceTypeOK == TypeOK /\ RetentionTypeOK

MaintenanceInit == Init /\ RetentionInit

-----------------------------------------------------------------------------

\* A run reaches the store: what becomes of its transaction becomes of it.
RunReachesStore ==
    /\ RunEnds
    /\ Cleanup
    /\ runs' = IF Blocked THEN "failed" ELSE "ok"

\* The pool or the connection fails it: rolled back, logged, tried again after
\* the next interval.
RunFails ==
    /\ RunEnds
    /\ runs' = "failed"
    /\ UNCHANGED retentionVars

\* The cancellation of stop finds the transaction committed.
CancelledAfterCommit ==
    /\ TaskCancelled
    /\ task = "running" /\ ~Blocked
    /\ Cleanup

\* Tokens are issued and rotated by requests, which the server takes between
\* its start and its shutdown.
Issue ==
    /\ phase = "serving"
    /\ Insert
    /\ UNCHANGED vars

TimePasses == Tick /\ UNCHANGED vars

\* The settings are read by the next process.
RelaunchConfigured == Relaunch /\ Reconfigure

\* The steps of the process that touch no row; a task that is cancelled in a
\* transaction among them, which is rolled back.
Lifecycle ==
    /\ \/ Launch \/ Start \/ StartFails \/ StartRuntimeFails
       \/ Shutdown \/ Stop \/ Wake
    /\ UNCHANGED retentionVars

MaintenanceNext ==
    \/ Lifecycle \/ RelaunchConfigured
    \/ RunReachesStore \/ RunFails \/ CancelledAfterCommit
    \/ Issue \/ TimePasses

MaintenanceSpec == MaintenanceInit /\ [][MaintenanceNext]_allVars

ServedRun == phase = "serving" /\ RunReachesStore

\* Start-up and shutdown go on, whatever the task does; time passes, the task
\* wakes after its interval, and while the server serves a run gets through to
\* the store now and then.  One that a shutdown finds may hang for good.
FairMaintenance ==
    /\ MaintenanceSpec
    /\ WF_vars(Start \/ StartFails \/ StartRuntimeFails)
    /\ WF_vars(Stop)
    /\ WF_vars(Wake)
    /\ WF_allVars(TimePasses)
    /\ SF_allVars(ServedRun)

-----------------------------------------------------------------------------
(* Properties.                                                              *)

\* "Periodically removes expired ... tokens": in a server that goes on serving,
\* an expired row goes in the end.  Runs that fail on the way, and a row that
\* cannot go before the one that refers to it, only delay that.
ExpiredRowsGo ==
    <>[](phase = "serving") =>
        \A i \in Chain : i \in rows /\ Expired(i) ~> i \notin rows
=============================================================================
