------------------------------ MODULE Alerting ------------------------------
(***************************************************************************)
(* Which checks raise an alert: RunLifecycle together with the code after  *)
(* the commits of save_report and _finish_failed.  An alert is raised in   *)
(* the committing step (the condition is evaluated on values read before)  *)
(* and handed to notify.send_async in a step of its own: the process may   *)
(* die in between.  What send_async does with it is the module Notify.     *)
(* A definition just before the one it varies (FailAlwaysAlerts, ...) is a *)
(* wrong variant; AlertingNext uses none.                                  *)
(***************************************************************************)
EXTENDS RunLifecycle

CONSTANT AlertOnRecovery    \* alert_on_recovery
ASSUME AlertingAssumption == AlertOnRecovery \in BOOLEAN

VARIABLES
    pending,   \* worker -> the alert it has raised and not yet handed over
    outage     \* host -> a failure was announced since the summary last said
               \* "success" (history)

alertVars == <<pending, outage>>
avars == <<vars, alertVars>>

NoAlert == [kind |-> "none", host |-> 0]
Raise(w, kind) == pending' = [pending EXCEPT ![w] = [kind |-> kind, host |-> workers[w].host]]

\* save_report commits: prev_status is the copy loaded at the start.
SaveAndAlert(w) ==
    /\ SaveReport(w)
    /\ IF workers'[w].pc = "idle"
       THEN /\ outage' = [outage EXCEPT ![workers[w].host] = @ /\ hosts'[workers[w].host].last = "failed"]
            /\ IF workers[w].prev = "failed" /\ AlertOnRecovery
               THEN Raise(w, "recovery") ELSE UNCHANGED pending
       ELSE UNCHANGED alertVars

\* _finish_failed commits: prev_status is what it read after its rollback.
Committed(w) == LET me == workers[w]
                IN  Exists(me.run) /\ (me.prev = "gone" \/ hosts[me.host].there)
FailAlwaysAlerts(w) ==
    /\ FinishFailed(w)
    /\ IF Committed(w)
       THEN Raise(w, "failure") /\ outage' = [outage EXCEPT ![workers[w].host] = TRUE]
       ELSE UNCHANGED alertVars
FailAfterSuccessAlerts(w) ==
    /\ FinishFailed(w)
    /\ IF Committed(w) /\ workers[w].prev = "success"
       THEN Raise(w, "failure") /\ outage' = [outage EXCEPT ![workers[w].host] = TRUE]
       ELSE UNCHANGED alertVars
FailAndAlert(w) ==
    /\ FinishFailed(w)
    /\ IF Committed(w) /\ workers[w].prev # "failed"
       THEN Raise(w, "failure") /\ outage' = [outage EXCEPT ![workers[w].host] = TRUE]
       ELSE UNCHANGED alertVars

\* notify.send_async; the thread ends with it.
HandOver(w) ==
    /\ pending[w].kind # "none"
    /\ pending' = [pending EXCEPT ![w] = NoAlert]
    /\ UNCHANGED <<vars, outage>>

\* A thread that has yet to hand over its alert is not free.
Ready(w) == pending[w].kind = "none"

AlertingCheckStep(w) ==
    \/ SaveAndAlert(w) \/ FailAndAlert(w) \/ HandOver(w)
    \/ /\ LoadHost(w) \/ ExpireStale(w) \/ GateCheck(w) \/ InsertRun(w) \/ Verify(w)
          \/ UndoRun(w) \/ RemoteCheck(w) \/ FinishRead(w) \/ DbError(w)
       /\ UNCHANGED alertVars

AlertingScheduler ==
    /\ \/ ResetRead \/ ResetOrphans \/ TickBegin \/ CleanupBatch \/ ScanStale
       \/ SchedulerExpire \/ SubmitDue \/ SchedulerDbError
       \/ PoolDone /\ \A w \in Pool : Ready(w)
       \/ \E w \in Pool, h \in HostId : Ready(w) /\ PoolTake(w, h)
    /\ UNCHANGED alertVars

\* Hosts are not deleted here (RunLifecycle has that): an alert carries the name
\* of the host its thread loaded, and the id may be another host's by then.
AlertingEnvironment ==
    \/ /\ \/ \E w \in Worker, h \in HostId : Ready(w) /\ HostRunNow(w, h)
          \/ (\E h \in HostId : HostEdit(h)) \/ Elapse \/ Restart
       /\ UNCHANGED alertVars
    \/ /\ Crash
       /\ pending' = [w \in Worker |-> NoAlert]
       /\ UNCHANGED outage

AlertingInit == /\ Init
                /\ pending = [w \in Worker |-> NoAlert]
                /\ outage = [h \in HostId |-> FALSE]

AlertingNext == \/ \E w \in Worker : AlertingCheckStep(w)
                \/ AlertingScheduler
                \/ AlertingEnvironment

AlertingSpec == AlertingInit /\ [][AlertingNext]_avars

\* Threads and the scheduler loop run; a dead process is restarted; time
\* passes, though between ticks only (hence SF: a tick disables Elapse for a
\* moment).  A remote execution that may hang promises nothing, nor do faults.
AlertingFairness ==
    /\ \A w \in Worker : WF_avars(/\ AlertingCheckStep(w) /\ faults' = faults
                                  /\ "hang" \in Env => workers[w].pc # "exec")
    /\ WF_avars(AlertingScheduler /\ faults' = faults)
    /\ SF_avars(Elapse /\ UNCHANGED alertVars) /\ WF_avars(Restart /\ UNCHANGED alertVars)

FairAlertingSpec == AlertingSpec /\ AlertingFairness

-----------------------------------------------------------------------------
(* Properties *)

\* "Transition" dedup: one failure alert per outage.  After a failure alert no
\* other is raised until the summary of the host has said "success".
OncePerOutage == [][\A w \in Worker :
    pending'[w].kind = "failure" /\ pending[w].kind = "none" => ~outage[pending'[w].host]]_avars

\* As long as no crash or database error makes the reset or the arbitration set
\* a host to failed, a host shown as failed has been announced (README.md: a check that fails is
\* announced once per change of state; the reset and the arbitration announce nothing).
FailedByCheckIsAnnounced == faults = 0 => \A h \in HostId : hosts[h].last = "failed" => outage[h]
=============================================================================
