---------------------------- MODULE RunLifecycle ----------------------------
(***************************************************************************)
(* The life of a check_runs row: app/checker.py (run_ssh_check and what it *)
(* calls), app/scheduler.py (the tick, the start-up reset, the cleanup)    *)
(* and the routes that trigger a check or delete a host.                   *)
(*                                                                         *)
(* Threads are `workers`: the scheduler's pool (Pool) and the threads a    *)
(* manual trigger starts (Manual).  Each step of a worker is one database  *)
(* transaction or the remote execution; steps of different threads         *)
(* interleave freely.  A failure closes a row by the same two statements   *)
(* everywhere, so a read (which rows) and the later write are two actions. *)
(*                                                                         *)
(* Ages replace timestamps: runs[r].age counts time units since            *)
(* started_at, up to AgeCap, above every threshold of the code.            *)
(***************************************************************************)
EXTENDS Integers, FiniteSets

CONSTANTS
    MaxHost, MaxRun,      \* bounds on the row ids of hosts and check_runs
    Pool, Manual,         \* threads of the scheduler pool / manual triggers
    NoWorker,
    StaleAge,             \* STALE_RUN_SECONDS
    RetentionAge,         \* log_retention_days
    Interval,             \* interval_minutes
    AgeCap,
    DeleteBatch,          \* _DELETE_BATCH
    MaxFaults,            \* bound on crashes and database errors
    Env                   \* which events of the environment may happen

HostId == 1..MaxHost
RunId == 1..MaxRun
Worker == Pool \cup Manual

\* "hang": a check may outlive StaleAge.  "early": a manual check may start
\* before the start-up reset.  "delete": hosts are deleted and created.
\* "edit": hosts are (un)scheduled.  "retention": log_retention_days > 0.
\* "crash", "dberror": the process dies, a statement fails.
EnvEvents == {"hang", "early", "delete", "edit", "retention", "crash", "dberror"}

ASSUME SizesAssumption ==
    MaxHost \in Nat /\ MaxRun \in Nat /\ DeleteBatch \in Nat \ {0} /\ MaxFaults \in Nat
ASSUME AgesAssumption ==
    /\ StaleAge \in Nat /\ RetentionAge \in Nat /\ Interval \in Nat /\ AgeCap \in Nat
    /\ 2 * StaleAge < RetentionAge  \* 2 hours against at least a day
    /\ RetentionAge < AgeCap /\ Interval <= AgeCap
ASSUME WorkersAssumption == NoWorker \notin Worker /\ Pool \cap Manual = {}
ASSUME EnvAssumption == Env \subseteq EnvEvents

VARIABLES
    hosts,     \* table hosts: the pull-mode (ssh, api) hosts
    runs,      \* table check_runs; status "none" = no such row
    workers,   \* the threads inside run_ssh_check
    server,    \* scheduler_loop and _tick: phase, rows in hand, hosts to submit
    faults     \* crashes and database errors so far

vars == <<hosts, runs, workers, server, faults>>

-----------------------------------------------------------------------------
(* State *)

HostStatus == {"", "success", "failed"}
RunStatus == {"none", "running", "success", "failed"}
Pc == {"idle", "load", "expire", "gate", "insert", "verify", "undo",
       "exec", "save", "fail", "failwrite"}
Phase == {"down", "boot", "reset", "sleep", "clean", "scan", "expire", "due", "pool"}

\* `prev` is the last_run_status the thread's session loaded ("gone": no host);
\* `ids` the rows expire_stale_runs read and has not yet written.
AfterInsert == {"verify", "undo", "exec", "save", "fail", "failwrite"}
WorkerState == {s \in [pc : Pc, host : 0..MaxHost, run : 0..MaxRun,
                       prev : HostStatus \cup {"gone"}, ids : SUBSET RunId] :
                  /\ s.pc # "idle" => s.host \in HostId
                  /\ s.pc \in AfterInsert => s.run \in RunId}
\* `owner`: the thread that inserted the row and still works on it (history).
RunRow == [host : 0..MaxHost, status : RunStatus, age : 0..AgeCap,
           owner : Worker \cup {NoWorker}]
HostRow == [there : BOOLEAN, scheduled : BOOLEAN, last : HostStatus]
ServerState == [phase : Phase, ids : SUBSET RunId, due : SUBSET HostId]

NoRow == [host |-> 0, status |-> "none", age |-> 0, owner |-> NoWorker]
NoHost == [there |-> FALSE, scheduled |-> FALSE, last |-> ""]
IdleWorker == [pc |-> "idle", host |-> 0, run |-> 0, prev |-> "", ids |-> {}]

Exists(r) == runs[r].status # "none"
Running(r) == runs[r].status = "running"
RunningOn(h) == {r \in RunId : Running(r) /\ runs[r].host = h}

\* The rows expire_stale_runs selects: started_at < now - STALE_RUN_SECONDS.
\* (StaleTooEager, StaleWrongUnit and their like below are wrong variants: they
\* stand before the definition they vary, and Next uses none of them.)
StaleTooEager == {r \in RunId : Running(r) /\ runs[r].age >= StaleAge}
StaleWrongUnit == {r \in RunId : Running(r) /\ runs[r].age > 60 * StaleAge}
Stale == {r \in RunId : Running(r) /\ runs[r].age > StaleAge}

\* The rows _cleanup selects; it does not look at their status.
OldIgnoringAge == {r \in RunId : Exists(r)}
Old == {r \in RunId : Exists(r) /\ runs[r].age > RetentionAge}

\* SQLite gives a new row the largest rowid plus one: an id comes back once
\* the row holding the largest id is deleted.
IsNextRunId(r) == /\ \A q \in RunId : q >= r => ~Exists(q)
                  /\ r > 1 => Exists(r - 1)
IsNextHostId(h) == /\ \A g \in HostId : g >= h => ~hosts[g].there
                   /\ h > 1 => hosts[h - 1].there

Closed(row, st) == [row EXCEPT !.status = st, !.owner = NoWorker]

\* The rows after a thread died: its running row has nobody left.
Disowned(W) == [r \in RunId |-> IF runs[r].owner \in W
                                THEN [runs[r] EXCEPT !.owner = NoWorker] ELSE runs[r]]

\* _fail_running_runs: one transaction closes all the rows and marks their
\* hosts.  The session skips the host write when its loaded copy (of host
\* `known`) says "failed" already.  A missing row makes the flush raise.
FailRunningRuns(S, known) ==
    /\ \A r \in S : Exists(r)
    /\ runs' = [r \in RunId |-> IF r \in S THEN Closed(runs[r], "failed") ELSE runs[r]]
    /\ hosts' = [h \in HostId |->
                   IF hosts[h].there /\ h # known /\ \E r \in S : runs[r].host = h
                   THEN [hosts[h] EXCEPT !.last = "failed"] ELSE hosts[h]]

-----------------------------------------------------------------------------
(* run_ssh_check, one thread *)

Become(w, state) == workers' = [workers EXCEPT ![w] = state]
Goto(w, pc) == Become(w, [workers[w] EXCEPT !.pc = pc])
Leave(w) == Become(w, IdleWorker)

\* db.get(host), then the SELECT of expire_stale_runs.
LoadHost(w) ==
    /\ workers[w].pc = "load"
    /\ LET me == workers[w]
       IN  IF ~hosts[me.host].there THEN Leave(w)
           ELSE Become(w, [me EXCEPT !.prev = hosts[me.host].last, !.ids = Stale,
                                     !.pc = IF Stale = {} THEN "gate" ELSE "expire"])
    /\ UNCHANGED <<hosts, runs, server, faults>>

\* The UPDATE of expire_stale_runs; raised outside the try, an error ends the
\* thread before a row exists.
ExpireStale(w) ==
    /\ workers[w].pc = "expire"
    /\ LET me == workers[w]
           mine == \E r \in me.ids : runs[r].host = me.host
       IN  \/ /\ FailRunningRuns(me.ids, IF me.prev = "failed" THEN me.host ELSE 0)
              /\ Become(w, [me EXCEPT !.pc = "gate", !.ids = {},
                                      !.prev = IF mine THEN "failed" ELSE me.prev])
           \/ /\ \E r \in me.ids : ~Exists(r)
              /\ Leave(w)
              /\ UNCHANGED <<hosts, runs>>
    /\ UNCHANGED <<server, faults>>

\* The busy query before the row is created.
GateCheck(w) ==
    /\ workers[w].pc = "gate"
    /\ IF RunningOn(workers[w].host) = {} THEN Goto(w, "insert") ELSE Leave(w)
    /\ UNCHANGED <<hosts, runs, server, faults>>

InsertWithoutStatus(w) ==
    /\ workers[w].pc = "insert"
    /\ \E r \in RunId :
          /\ IsNextRunId(r)
          /\ runs' = [runs EXCEPT ![r] = [host |-> workers[w].host, status |-> "",
                                          age |-> 0, owner |-> w]]
          /\ Become(w, [workers[w] EXCEPT !.pc = "verify", !.run = r])
    /\ UNCHANGED <<hosts, server, faults>>
InsertRun(w) ==
    /\ workers[w].pc = "insert"
    /\ \E r \in RunId :
          /\ IsNextRunId(r)
          /\ runs' = [runs EXCEPT ![r] = [host |-> workers[w].host, status |-> "running",
                                          age |-> 0, owner |-> w]]
          /\ Become(w, [workers[w] EXCEPT !.pc = "verify", !.run = r])
    /\ UNCHANGED <<hosts, server, faults>>

\* The second look: only the smallest running id of a host goes on.
VerifySkipped(w) == /\ workers[w].pc = "verify"
                    /\ Goto(w, "exec")
                    /\ UNCHANGED <<hosts, runs, server, faults>>
Verify(w) ==
    /\ workers[w].pc = "verify"
    /\ Goto(w, IF \E q \in RunningOn(workers[w].host) : q < workers[w].run
               THEN "undo" ELSE "exec")
    /\ UNCHANGED <<hosts, runs, server, faults>>

UndoRun(w) ==
    /\ workers[w].pc = "undo"
    /\ runs' = [runs EXCEPT ![workers[w].run] = NoRow]
    /\ Leave(w)
    /\ UNCHANGED <<hosts, server, faults>>

\* The SSH session or the device driver, with any outcome.
RemoteCheck(w) ==
    /\ workers[w].pc = "exec"
    /\ \E pc \in {"save", "fail"} : Goto(w, pc)
    /\ UNCHANGED <<hosts, runs, server, faults>>

\* save_report's transaction.  It writes the row whatever its status is now;
\* last_run_status only when it differs from the copy loaded at the start.
\* The two UPDATEs raise when a row is missing.
SaveReport(w) ==
    /\ workers[w].pc = "save"
    /\ LET me == workers[w]
       IN  IF Exists(me.run) /\ hosts[me.host].there
           THEN /\ runs' = [runs EXCEPT ![me.run] = Closed(@, "success")]
                /\ hosts' = IF me.prev = "success" THEN hosts
                            ELSE [hosts EXCEPT ![me.host].last = "success"]
                /\ Leave(w)
           ELSE Goto(w, "fail") /\ UNCHANGED <<hosts, runs>>
    /\ UNCHANGED <<server, faults>>

\* _finish_failed after its rollback: both rows are read again ...
FinishRead(w) ==
    /\ workers[w].pc = "fail"
    /\ LET me == workers[w]
       IN  IF Exists(me.run)
           THEN Become(w, [me EXCEPT !.pc = "failwrite",
                                     !.prev = IF hosts[me.host].there
                                              THEN hosts[me.host].last ELSE "gone"])
           ELSE Leave(w)
    /\ UNCHANGED <<hosts, runs, server, faults>>

\* ... and written; an error here is only logged.
FinishForgetsRun(w) ==
    /\ workers[w].pc = "failwrite"
    /\ runs' = Disowned({w})
    /\ Leave(w)
    /\ UNCHANGED <<hosts, server, faults>>
FinishFailed(w) ==
    /\ workers[w].pc = "failwrite"
    /\ LET me == workers[w]
       IN  IF Exists(me.run) /\ (me.prev = "gone" \/ hosts[me.host].there)
           THEN /\ runs' = [runs EXCEPT ![me.run] = Closed(@, "failed")]
                /\ hosts' = IF me.prev \in {"gone", "failed"} THEN hosts
                            ELSE [hosts EXCEPT ![me.host].last = "failed"]
           ELSE runs' = Disowned({w}) /\ UNCHANGED hosts
    /\ Leave(w)
    /\ UNCHANGED <<server, faults>>

\* A statement fails (SQLITE_BUSY past the 30 s timeout).  Inside the try
\* this is a failed check; anywhere else the thread ends as it is.
DbError(w) ==
    /\ "dberror" \in Env /\ faults < MaxFaults
    /\ faults' = faults + 1
    /\ \/ workers[w].pc = "save" /\ Goto(w, "fail") /\ UNCHANGED runs
       \/ /\ workers[w].pc \in {"expire", "gate", "insert", "verify", "undo", "failwrite"}
          /\ runs' = Disowned({w})
          /\ Leave(w)
    /\ UNCHANGED <<hosts, server>>

CheckStep(w) == \/ LoadHost(w) \/ ExpireStale(w) \/ GateCheck(w) \/ InsertRun(w)
                \/ Verify(w) \/ UndoRun(w) \/ RemoteCheck(w) \/ SaveReport(w)
                \/ FinishRead(w) \/ FinishFailed(w)

-----------------------------------------------------------------------------
(* Triggers and the scheduler *)

NewCheck(h) == [pc |-> "load", host |-> h, run |-> 0, prev |-> "", ids |-> {}]
StartCheck(w, h) == Become(w, NewCheck(h))

\* host_run_now: the route refuses a host with a running row, then starts a
\* thread.  The web server answers from the start of the process.
HostRunNow(w, h) ==
    /\ w \in Manual /\ workers[w].pc = "idle"
    /\ server.phase # "down"
    /\ server.phase \in {"boot", "reset"} => "early" \in Env
    /\ hosts[h].there /\ RunningOn(h) = {}
    /\ StartCheck(w, h)
    /\ UNCHANGED <<hosts, runs, server, faults>>

To(phase, ids) == server' = [server EXCEPT !.phase = phase, !.ids = ids]

\* reset_orphan_runs, 15 seconds after the start: every running row, ...
ResetRead == /\ server.phase = "boot"
             /\ To("reset", {r \in RunId : Running(r)})
             /\ UNCHANGED <<hosts, runs, workers, faults>>

\* ... closed in one transaction; an exception is swallowed.
ResetOrphans ==
    /\ server.phase = "reset"
    /\ \/ FailRunningRuns(server.ids, 0)
       \/ (\E r \in server.ids : ~Exists(r)) /\ UNCHANGED <<hosts, runs>>
    /\ To("sleep", {})
    /\ UNCHANGED <<workers, faults>>

\* A tick starts; once an hour with _cleanup.
TickBegin ==
    /\ server.phase = "sleep"
    /\ \/ To("scan", {})
       \/ "retention" \in Env /\ To("clean", Old)
    /\ UNCHANGED <<hosts, runs, workers, faults>>

\* One batch of _cleanup, committed on its own.
CleanupBatch ==
    /\ server.phase = "clean"
    /\ IF server.ids = {} THEN To("scan", {}) /\ UNCHANGED runs
       ELSE \E B \in SUBSET server.ids :
              /\ \/ Cardinality(B) = DeleteBatch
                 \/ B = server.ids /\ Cardinality(B) < DeleteBatch
              /\ runs' = [r \in RunId |-> IF r \in B THEN NoRow ELSE runs[r]]
              /\ To("clean", server.ids \ B)
    /\ UNCHANGED <<hosts, workers, faults>>

\* _due_ssh_hosts: the SELECT of expire_stale_runs, ...
ScanStale ==
    /\ server.phase = "scan"
    /\ To(IF Stale = {} THEN "due" ELSE "expire", Stale)
    /\ UNCHANGED <<hosts, runs, workers, faults>>

\* ... its UPDATE (an exception is logged and the tick goes on), ...
SchedulerExpire ==
    /\ server.phase = "expire"
    /\ \/ FailRunningRuns(server.ids, 0)
       \/ (\E r \in server.ids : ~Exists(r)) /\ UNCHANGED <<hosts, runs>>
    /\ To("due", {})
    /\ UNCHANGED <<workers, faults>>

\* ... and the hosts to check: scheduled, not running, and never run or the
\* newest run at least Interval old.
RunsOf(h) == {r \in RunId : Exists(r) /\ runs[r].host = h}
DueOnlyIfRunBefore(h) == /\ hosts[h].there /\ hosts[h].scheduled /\ RunningOn(h) = {}
                         /\ RunsOf(h) # {} /\ \A r \in RunsOf(h) : runs[r].age >= Interval
Due(h) == /\ hosts[h].there /\ hosts[h].scheduled
          /\ RunningOn(h) = {}
          /\ \A r \in RunsOf(h) : runs[r].age >= Interval

SubmitDue ==
    /\ server.phase = "due"
    /\ server' = [server EXCEPT !.due = {h \in HostId : Due(h)},
                    !.phase = IF \A h \in HostId : ~Due(h) THEN "sleep" ELSE "pool"]
    /\ UNCHANGED <<hosts, runs, workers, faults>>

\* A pool thread takes a submitted host.
PoolTake(w, h) ==
    /\ server.phase = "pool" /\ h \in server.due
    /\ w \in Pool /\ workers[w].pc = "idle"
    /\ server' = [server EXCEPT !.due = @ \ {h}]
    /\ StartCheck(w, h)
    /\ UNCHANGED <<hosts, runs, faults>>

\* as_completed: the tick ends when every submitted check has ended.
PoolDone ==
    /\ server.phase = "pool" /\ server.due = {}
    /\ \A w \in Pool : workers[w].pc = "idle"
    /\ To("sleep", {})
    /\ UNCHANGED <<hosts, runs, workers, faults>>

\* A statement of the scheduler's session fails; each block catches its own.
SchedulerDbError ==
    /\ "dberror" \in Env /\ faults < MaxFaults
    /\ faults' = faults + 1
    /\ \/ server.phase = "reset" /\ To("sleep", {})
       \/ server.phase = "clean" /\ To("scan", {})
       \/ server.phase = "expire" /\ To("due", {})
       \/ server.phase = "due" /\ To("sleep", {})
    /\ UNCHANGED <<hosts, runs, workers>>

Scheduler == \/ ResetRead \/ ResetOrphans \/ TickBegin \/ CleanupBatch \/ ScanStale
             \/ SchedulerExpire \/ SubmitDue \/ PoolDone
             \/ \E w \in Pool, h \in HostId : PoolTake(w, h)

-----------------------------------------------------------------------------
(* Environment *)

HostCreate ==
    /\ "delete" \in Env /\ server.phase # "down"
    /\ \E h \in HostId, s \in BOOLEAN :
          /\ IsNextHostId(h)
          /\ hosts' = [hosts EXCEPT ![h] = [there |-> TRUE, scheduled |-> s, last |-> ""]]
    /\ UNCHANGED <<runs, workers, server, faults>>

\* host_delete: one transaction, and no look at running rows.
HostDelete(h) ==
    /\ "delete" \in Env /\ server.phase # "down"
    /\ hosts[h].there
    /\ hosts' = [hosts EXCEPT ![h] = NoHost]
    /\ runs' = [r \in RunId |-> IF runs[r].host = h THEN NoRow ELSE runs[r]]
    /\ UNCHANGED <<workers, server, faults>>

\* host_edit_save: enabled and interval_minutes.
HostEdit(h) ==
    /\ "edit" \in Env /\ server.phase # "down"
    /\ hosts[h].there
    /\ hosts' = [hosts EXCEPT ![h].scheduled = ~@]
    /\ UNCHANGED <<runs, workers, server, faults>>

\* Without "hang" only a remote execution takes time on the scale of ages, and
\* it ends before its row is stale (EXEC_TIMEOUT is half of STALE_RUN_SECONDS);
\* a scheduler that is not waiting for its pool ticks every minute.
Prompt ==
    /\ \A w \in Worker : workers[w].pc \in {"idle", "load", "exec"}
    /\ server.phase \in {"down", "boot", "sleep", "pool"}
    /\ server.phase = "sleep" => Stale = {}
    /\ server.phase = "pool" => \E w \in Pool : workers[w].pc = "exec"
    /\ \A r \in RunId : Running(r) /\ runs[r].owner # NoWorker => runs[r].age < StaleAge

\* Time passes.
Elapse ==
    /\ "hang" \in Env \/ Prompt
    /\ runs' = [r \in RunId |-> IF Exists(r) /\ runs[r].age < AgeCap
                                THEN [runs[r] EXCEPT !.age = @ + 1] ELSE runs[r]]
    /\ UNCHANGED <<hosts, workers, server, faults>>

\* The process dies with all its threads; the database stays.
Crash ==
    /\ "crash" \in Env /\ faults < MaxFaults /\ server.phase # "down"
    /\ faults' = faults + 1
    /\ workers' = [w \in Worker |-> IdleWorker]
    /\ runs' = Disowned(Worker)
    /\ server' = [phase |-> "down", ids |-> {}, due |-> {}]
    /\ UNCHANGED hosts

Restart == /\ server.phase = "down"
           /\ To("boot", {})
           /\ UNCHANGED <<hosts, runs, workers, faults>>

Init ==
    /\ hosts = [h \in HostId |-> [there |-> TRUE, scheduled |-> TRUE, last |-> ""]]
    /\ runs = [r \in RunId |-> NoRow]
    /\ workers = [w \in Worker |-> IdleWorker]
    /\ server = [phase |-> "boot", ids |-> {}, due |-> {}]
    /\ faults = 0

Next ==
    \/ \E w \in Worker : CheckStep(w) \/ DbError(w)
    \/ \E w \in Worker, h \in HostId : HostRunNow(w, h)
    \/ Scheduler \/ SchedulerDbError
    \/ HostCreate
    \/ \E h \in HostId : HostDelete(h) \/ HostEdit(h)
    \/ Elapse \/ Crash \/ Restart

Spec == Init /\ [][Next]_vars

-----------------------------------------------------------------------------
(* Properties *)

\* Every variable has its type.
TypeOK ==
    /\ hosts \in [HostId -> HostRow]
    /\ runs \in [RunId -> RunRow]
    /\ workers \in [Worker -> WorkerState]
    /\ server \in ServerState
    /\ faults \in 0..MaxFaults

\* A thread past the second look of run_ssh_check.
Checking(w) == workers[w].pc \in {"exec", "save", "fail", "failwrite"}

\* w holds h: it is past the second look and its own row is still running.
Holds(w, h) == /\ Checking(w)
               /\ workers[w].host = h
               /\ Running(workers[w].run)
               /\ runs[workers[w].run].owner = w
               /\ runs[workers[w].run].host = h

\* The two looks of run_ssh_check let one thread at a time hold a host,
\* whatever the crashes, time-outs, deletions and reused ids.
OneHolder == \A h \in HostId, v, w \in Worker : Holds(v, h) /\ Holds(w, h) => v = w

\* The check_runs protocol implements the abstract lock.
HL == INSTANCE HostLock WITH Host <- HostId, Check <- Worker,
                             holders <- [h \in HostId |-> {w \in Worker : Holds(w, h)}]
LockImplemented == HL!HLSpec

\* A host is never being checked by two threads (the re-entrancy guard of
\* run_ssh_check).  It holds while a check ends before it is stale, none starts
\* before the start-up reset and an orphan is closed before the cleanup takes it.
ExecExclusive == \A v, w \in Worker :
    Checking(v) /\ Checking(w) /\ workers[v].host = workers[w].host => v = w

\* A closed run is never re-opened or given the other verdict.
ClosedIsFinal == [][\A r \in RunId : runs[r].status \in {"success", "failed"}
                      => runs'[r].status \in {runs[r].status, "none"}]_vars

\* A thread past the insertion is still at work on row r.
Tended(r) == \E w \in Worker : /\ runs[r].owner = w
                               /\ workers[w].pc \in AfterInsert
                               /\ workers[w].run = r

\* Every path out of run_ssh_check closes the row it opened: without a fault
\* each running row has a thread that is at it, so nothing blocks its host.
RowsAreTended == faults = 0 => \A r \in RunId : Running(r) => Tended(r)

\* The start-up reset closes only rows the last process left behind, as
\* scheduler_loop says; it does not hold of a check started by hand before it.
ResetOnlyOrphans == [][ResetOrphans => \A r \in RunId :
                          Running(r) /\ runs'[r].status = "failed" => runs[r].owner = NoWorker]_vars

\* A thread's save or failure never writes a running row of another thread.
WritesOwnRun == [][\A w \in Worker : SaveReport(w) \/ FinishFailed(w) =>
                     \A r \in RunId : Running(r) /\ runs'[r] # runs[r] => runs[r].owner = w]_vars

\* The bound MaxRun leaves no id for the next row: the model may stop here.
IdsUsedUp == \A r \in RunId : ~IsNextRunId(r)

\* A running row does not stay running for ever: what a dead thread leaves
\* behind is closed by the start-up reset or by expire_stale_runs.
RunsClose == \A r \in RunId : Running(r) ~> ~Running(r) \/ IdsUsedUp

\* A scheduled host is checked again and again.
Executing(h) == \E w \in Worker : workers[w].pc = "exec" /\ workers[w].host = h
KeepsChecking == \A h \in HostId : []<>(IdsUsedUp \/ Executing(h))

\* What scheduler.py says of one slow host: a scheduled host whose own remote
\* executions end is checked again and again, whatever the other hosts do.
OthersGoOn == \A h \in HostId :
    []<>(~Executing(h)) => []<>(IdsUsedUp \/ Executing(h))
=============================================================================
