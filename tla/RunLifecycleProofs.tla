------------------------- MODULE RunLifecycleProofs -------------------------
(***************************************************************************)
(* Theorems about RunLifecycle and about Alerting, which extends it, for   *)
(* every number of hosts, rows, threads and faults: first what holds in    *)
(* every environment, then what holds as long as checks end in time (Calm),*)
(* last what is announced.                                                 *)
(***************************************************************************)
EXTENDS Alerting, TLAPS

-----------------------------------------------------------------------------
(* Typing: what the helpers of the actions build *)

LEMMA IdleTyped == IdleWorker \in WorkerState
  <1>1. IdleWorker \in [pc : Pc, host : 0..MaxHost, run : 0..MaxRun,
                        prev : HostStatus \cup {"gone"}, ids : SUBSET RunId]
    BY SizesAssumption DEF IdleWorker, Pc, HostStatus
  <1>2. IdleWorker.pc = "idle" /\ "idle" \notin AfterInsert
    BY DEF IdleWorker, AfterInsert
  <1> QED
    BY <1>1, <1>2 DEF WorkerState

LEMMA NoRowTyped == NoRow \in RunRow /\ NoHost \in HostRow
  BY SizesAssumption, AgesAssumption
     DEF NoRow, RunRow, RunStatus, NoHost, HostRow, HostStatus

LEMMA BecomeTyped ==
  ASSUME TypeOK, NEW w \in Worker, NEW s \in WorkerState, Become(w, s)
  PROVE  /\ workers' \in [Worker -> WorkerState]
         /\ workers'[w] = s
         /\ \A v \in Worker : v # w => workers'[v] = workers[v]
  BY DEF TypeOK, Become

LEMMA LeaveTyped ==
  ASSUME TypeOK, NEW w \in Worker, Leave(w)
  PROVE  /\ workers' \in [Worker -> WorkerState]
         /\ workers'[w].pc = "idle"
         /\ \A v \in Worker : v # w => workers'[v] = workers[v]
  <1>1. IdleWorker.pc = "idle"
    BY DEF IdleWorker
  <1> QED
    BY <1>1, IdleTyped, BecomeTyped DEF Leave

\* A thread that has inserted its row moves on within run_ssh_check.
LEMMA GotoTyped ==
  ASSUME TypeOK, NEW w \in Worker, workers[w].pc \in AfterInsert,
         NEW pc \in AfterInsert, Goto(w, pc)
  PROVE  /\ workers' \in [Worker -> WorkerState]
         /\ workers'[w] = [workers[w] EXCEPT !.pc = pc]
         /\ \A v \in Worker : v # w => workers'[v] = workers[v]
  <1>1. [workers[w] EXCEPT !.pc = pc] \in WorkerState
    BY DEF TypeOK, WorkerState, AfterInsert, Pc
  <1> QED
    BY <1>1, BecomeTyped DEF Goto

LEMMA StartTyped ==
  ASSUME TypeOK, NEW w \in Worker, NEW h \in HostId, StartCheck(w, h)
  PROVE  /\ workers' \in [Worker -> WorkerState]
         /\ workers'[w].pc = "load"
         /\ \A v \in Worker : v # w => workers'[v] = workers[v]
  <1>1. NewCheck(h) \in [pc : Pc, host : 0..MaxHost, run : 0..MaxRun,
                         prev : HostStatus \cup {"gone"}, ids : SUBSET RunId]
    BY SizesAssumption DEF NewCheck, HostId, Pc, HostStatus
  <1>2. NewCheck(h).pc = "load" /\ NewCheck(h).host = h /\ "load" \notin AfterInsert
    BY DEF NewCheck, AfterInsert
  <1>3. NewCheck(h) \in WorkerState
    BY <1>1, <1>2 DEF WorkerState
  <1> QED
    BY <1>2, <1>3, BecomeTyped DEF StartCheck

LEMMA ToTyped ==
  ASSUME TypeOK, NEW phase \in Phase, NEW ids \in SUBSET RunId, To(phase, ids)
  PROVE  server' \in ServerState
  BY DEF TypeOK, To, ServerState

LEMMA ClosedTyped ==
  ASSUME NEW row \in RunRow, NEW st \in RunStatus
  PROVE  /\ Closed(row, st) \in RunRow
         /\ Closed(row, st).status = st
         /\ Closed(row, st).host = row.host
         /\ Closed(row, st).owner = NoWorker
  BY DEF Closed, RunRow

LEMMA DisownedTyped ==
  ASSUME TypeOK, NEW W
  PROVE  /\ Disowned(W) \in [RunId -> RunRow]
         /\ \A r \in RunId : /\ Disowned(W)[r].status = runs[r].status
                             /\ Disowned(W)[r].host = runs[r].host
                             /\ Disowned(W)[r].owner \in {runs[r].owner, NoWorker}
  BY DEF TypeOK, Disowned, RunRow

LEMMA FailRunningTyped ==
  ASSUME TypeOK, NEW S \in SUBSET RunId, NEW known, FailRunningRuns(S, known)
  PROVE  /\ runs' \in [RunId -> RunRow]
         /\ hosts' \in [HostId -> HostRow]
         /\ \A r \in RunId : runs'[r] = runs[r] \/ runs'[r] = Closed(runs[r], "failed")
  <1>1. \A r \in RunId : runs[r] \in RunRow /\ Closed(runs[r], "failed") \in RunRow
    BY ClosedTyped DEF TypeOK, RunStatus
  <1>2. \A h \in HostId : hosts[h] \in HostRow
    BY DEF TypeOK
  <1>3. \A h \in HostId : [hosts[h] EXCEPT !.last = "failed"] \in HostRow
    BY <1>2 DEF HostRow, HostStatus
  <1> QED
    BY <1>1, <1>2, <1>3 DEF FailRunningRuns

-----------------------------------------------------------------------------
(* Typing: one lemma per group of actions *)

LEMMA InitTyped == Init => TypeOK
  <1> SUFFICES ASSUME Init PROVE TypeOK
    OBVIOUS
  <1>1. hosts \in [HostId -> HostRow]
    BY DEF Init, HostRow, HostStatus
  <1>2. runs \in [RunId -> RunRow] /\ workers \in [Worker -> WorkerState]
    BY IdleTyped, NoRowTyped DEF Init
  <1>3. server \in ServerState
    BY DEF Init, ServerState, Phase
  <1>4. faults = 0 /\ MaxFaults \in Nat
    BY SizesAssumption DEF Init
  <1>5. faults \in 0..MaxFaults
    BY <1>4
  <1> QED
    BY <1>1, <1>2, <1>3, <1>5 DEF TypeOK

LEMMA CheckStepTyped ==
  ASSUME TypeOK, NEW w \in Worker, CheckStep(w)
  PROVE  TypeOK'
  <1> DEFINE me == workers[w]
  <1>0. me \in WorkerState /\ (me.pc # "idle" => me.host \in HostId)
        /\ (me.pc \in AfterInsert => me.run \in RunId)
    BY DEF TypeOK, WorkerState
  <1>1. CASE LoadHost(w)
    <2>1. CASE hosts[me.host].there
      <3> DEFINE s == [me EXCEPT !.prev = hosts[me.host].last, !.ids = Stale,
                                 !.pc = IF Stale = {} THEN "gate" ELSE "expire"]
      <3>1. hosts[me.host].last \in HostStatus /\ me.pc = "load"
        BY <1>0, <1>1 DEF TypeOK, HostRow, LoadHost
      <3>2. s \in WorkerState
        BY <1>0, <3>1 DEF WorkerState, Pc, Stale, AfterInsert
      <3> QED
        BY <1>1, <2>1, <3>2, BecomeTyped DEF LoadHost, TypeOK
    <2>2. CASE ~hosts[me.host].there
      BY <1>1, <2>2, LeaveTyped DEF LoadHost, TypeOK
    <2> QED
      BY <2>1, <2>2
  <1>2. CASE ExpireStale(w)
    <2> DEFINE mine == \E r \in me.ids : runs[r].host = me.host
               s == [me EXCEPT !.pc = "gate", !.ids = {},
                               !.prev = IF mine THEN "failed" ELSE me.prev]
    <2>1. CASE Become(w, s) /\ FailRunningRuns(me.ids, IF me.prev = "failed" THEN me.host ELSE 0)
      <3>1. s \in WorkerState
        BY <1>0, <1>2 DEF ExpireStale, WorkerState, Pc, AfterInsert, HostStatus
      <3>2. me.ids \in SUBSET RunId
        BY <1>0 DEF WorkerState
      <3> QED
        BY <1>2, <2>1, <3>1, <3>2, BecomeTyped, FailRunningTyped DEF ExpireStale, TypeOK
    <2>2. CASE Leave(w) /\ UNCHANGED <<hosts, runs>>
      BY <1>2, <2>2, LeaveTyped DEF ExpireStale, TypeOK
    <2> QED
      BY <1>2, <2>1, <2>2 DEF ExpireStale
  <1>3. CASE GateCheck(w)
    <2>1. [me EXCEPT !.pc = "insert"] \in WorkerState
      BY <1>0, <1>3 DEF GateCheck, WorkerState, Pc, AfterInsert
    <2> QED
      BY <1>3, <2>1, BecomeTyped, LeaveTyped DEF GateCheck, Goto, TypeOK
  <1>4. CASE InsertRun(w)
    <2> PICK r \in RunId :
             /\ runs' = [runs EXCEPT ![r] = [host |-> me.host, status |-> "running",
                                             age |-> 0, owner |-> w]]
             /\ Become(w, [me EXCEPT !.pc = "verify", !.run = r])
      BY <1>4 DEF InsertRun
    <2>0. r \in 0..MaxRun /\ me.host \in HostId
      BY <1>0, <1>4, SizesAssumption DEF InsertRun, RunId
    <2>1. [me EXCEPT !.pc = "verify", !.run = r] \in WorkerState
      BY <1>0, <2>0 DEF WorkerState, Pc, AfterInsert
    <2>2. [host |-> me.host, status |-> "running", age |-> 0, owner |-> w] \in RunRow
      BY <1>0, AgesAssumption DEF RunRow, RunStatus, WorkerState
    <2>3. runs' \in [RunId -> RunRow]
      BY <2>2 DEF TypeOK
    <2> QED
      BY <1>4, <2>1, <2>3, BecomeTyped DEF InsertRun, TypeOK
  <1>5. CASE Verify(w) \/ RemoteCheck(w)
    BY <1>5, GotoTyped DEF Verify, RemoteCheck, TypeOK, AfterInsert
  <1>6. CASE UndoRun(w)
    <2>1. runs' \in [RunId -> RunRow]
      BY <1>6, NoRowTyped DEF UndoRun, TypeOK
    <2> QED
      BY <1>6, <2>1, LeaveTyped DEF UndoRun, TypeOK
  <1>7. CASE SaveReport(w)
    <2>0. me.pc = "save" /\ me.pc \in AfterInsert /\ me.run \in RunId /\ me.host \in HostId
      BY <1>0, <1>7 DEF SaveReport, AfterInsert
    <2>1. CASE Exists(me.run) /\ hosts[me.host].there
      <3>1. runs' \in [RunId -> RunRow]
        BY <1>7, <2>0, <2>1, ClosedTyped DEF SaveReport, TypeOK, RunStatus
      <3>2. [hosts[me.host] EXCEPT !.last = "success"] \in HostRow
        BY <2>0 DEF TypeOK, HostRow, HostStatus
      <3>3. hosts' \in [HostId -> HostRow]
        BY <1>7, <2>1, <3>2 DEF SaveReport, TypeOK
      <3> QED
        BY <1>7, <2>1, <3>1, <3>3, LeaveTyped DEF SaveReport, TypeOK
    <2>2. CASE ~(Exists(me.run) /\ hosts[me.host].there)
      BY <1>7, <2>0, <2>2, GotoTyped DEF SaveReport, TypeOK, AfterInsert
    <2> QED
      BY <2>1, <2>2
  <1>8. CASE FinishRead(w)
    <2>0. me.pc = "fail" /\ me.run \in RunId /\ me.host \in HostId
      BY <1>0, <1>8 DEF FinishRead, AfterInsert
    <2> DEFINE s == [me EXCEPT !.pc = "failwrite",
                       !.prev = IF hosts[me.host].there THEN hosts[me.host].last ELSE "gone"]
    <2>1. hosts[me.host].last \in HostStatus
      BY <2>0 DEF TypeOK, HostRow
    <2>2. s \in WorkerState
      BY <1>0, <2>0, <2>1 DEF WorkerState, Pc, AfterInsert
    <2> QED
      BY <1>8, <2>2, BecomeTyped, LeaveTyped DEF FinishRead, TypeOK
  <1>9. CASE FinishFailed(w)
    <2>0. me.run \in RunId /\ me.host \in HostId
      BY <1>0, <1>9 DEF FinishFailed, AfterInsert
    <2>1. runs' \in [RunId -> RunRow]
      BY <1>9, <2>0, ClosedTyped, DisownedTyped DEF FinishFailed, TypeOK, RunStatus
    <2>2. [hosts[me.host] EXCEPT !.last = "failed"] \in HostRow
      BY <2>0 DEF TypeOK, HostRow, HostStatus
    <2>3. hosts' \in [HostId -> HostRow]
      BY <1>9, <2>2 DEF FinishFailed, TypeOK
    <2> QED
      BY <1>9, <2>1, <2>3, LeaveTyped DEF FinishFailed, TypeOK
  <1> QED
    BY <1>1, <1>2, <1>3, <1>4, <1>5, <1>6, <1>7, <1>8, <1>9 DEF CheckStep

LEMMA SchedulerTyped ==
  ASSUME TypeOK, Scheduler \/ SchedulerDbError
  PROVE  TypeOK'
  <1>0. server \in ServerState /\ server.ids \in SUBSET RunId
    BY DEF TypeOK, ServerState
  <1>1. CASE ResetRead \/ TickBegin \/ ScanStale \/ PoolDone
    <2>1. {r \in RunId : Running(r)} \in SUBSET RunId /\ Old \in SUBSET RunId /\ Stale \in SUBSET RunId
      BY DEF Old, Stale
    <2> QED
      BY <1>1, <2>1, ToTyped DEF ResetRead, TickBegin, ScanStale, PoolDone, TypeOK, Phase
  <1>2. CASE ResetOrphans \/ SchedulerExpire
    <2>1. server' \in ServerState
      BY <1>2, ToTyped DEF ResetOrphans, SchedulerExpire, Phase
    <2> QED
      BY <1>0, <1>2, <2>1, FailRunningTyped DEF ResetOrphans, SchedulerExpire, TypeOK
  <1>3. CASE CleanupBatch
    <2>1. server' \in ServerState
      BY <1>0, <1>3, ToTyped DEF CleanupBatch, Phase
    <2>2. runs' \in [RunId -> RunRow]
      BY <1>3, NoRowTyped DEF CleanupBatch, TypeOK
    <2> QED
      BY <1>3, <2>1, <2>2 DEF CleanupBatch, TypeOK
  <1>4. CASE SubmitDue
    <2>1. server' \in ServerState
      BY <1>0, <1>4 DEF SubmitDue, ServerState, Phase
    <2> QED
      BY <1>4, <2>1 DEF SubmitDue, TypeOK
  <1>5. ASSUME NEW w \in Pool, NEW h \in HostId, PoolTake(w, h) PROVE TypeOK'
    <2>1. server' \in ServerState
      BY <1>0, <1>5 DEF PoolTake, ServerState
    <2> QED
      BY <1>5, <2>1, StartTyped DEF PoolTake, TypeOK, Worker
  <1>6. CASE SchedulerDbError
    <2>1. server' \in ServerState
      BY <1>6, ToTyped DEF SchedulerDbError, Phase
    <2>2. faults' \in 0..MaxFaults
      BY <1>6, SizesAssumption DEF SchedulerDbError, TypeOK
    <2> QED
      BY <1>6, <2>1, <2>2 DEF SchedulerDbError, TypeOK
  <1> QED
    BY <1>1, <1>2, <1>3, <1>4, <1>5, <1>6 DEF Scheduler

LEMMA EnvironmentTyped ==
  ASSUME TypeOK,
         \/ \E w \in Worker : DbError(w)
         \/ \E w \in Worker, h \in HostId : HostRunNow(w, h)
         \/ HostCreate \/ (\E h \in HostId : HostDelete(h) \/ HostEdit(h))
         \/ Elapse \/ Crash \/ Restart
  PROVE  TypeOK'
  <1>1. ASSUME NEW w \in Worker, DbError(w) PROVE TypeOK'
    <2>1. faults' \in 0..MaxFaults
      BY <1>1, SizesAssumption DEF DbError, TypeOK
    <2>2. CASE workers[w].pc = "save" /\ Goto(w, "fail") /\ UNCHANGED runs
      BY <1>1, <2>1, <2>2, GotoTyped DEF DbError, TypeOK, AfterInsert
    <2>3. CASE runs' = Disowned({w}) /\ Leave(w)
      BY <1>1, <2>1, <2>3, DisownedTyped, LeaveTyped DEF DbError, TypeOK
    <2> QED
      BY <1>1, <2>2, <2>3 DEF DbError
  <1>2. ASSUME NEW w \in Worker, NEW h \in HostId, HostRunNow(w, h) PROVE TypeOK'
    BY <1>2, StartTyped DEF HostRunNow, TypeOK
  <1>3. CASE HostCreate
    <2> PICK h \in HostId, s \in BOOLEAN :
             hosts' = [hosts EXCEPT ![h] = [there |-> TRUE, scheduled |-> s, last |-> ""]]
      BY <1>3 DEF HostCreate
    <2>1. hosts' \in [HostId -> HostRow]
      BY DEF TypeOK, HostRow, HostStatus
    <2> QED
      BY <1>3, <2>1 DEF HostCreate, TypeOK
  <1>4. ASSUME NEW h \in HostId, HostDelete(h) PROVE TypeOK'
    BY <1>4, NoRowTyped DEF HostDelete, TypeOK
  <1>5. ASSUME NEW h \in HostId, HostEdit(h) PROVE TypeOK'
    <2>1. [hosts[h] EXCEPT !.scheduled = ~hosts[h].scheduled] \in HostRow
      BY DEF TypeOK, HostRow
    <2>2. hosts' = [hosts EXCEPT ![h] = [hosts[h] EXCEPT !.scheduled = ~hosts[h].scheduled]]
      BY <1>5 DEF HostEdit
    <2>3. hosts' \in [HostId -> HostRow]
      BY <2>1, <2>2 DEF TypeOK
    <2> QED
      BY <1>5, <2>3 DEF HostEdit, TypeOK
  <1>6. CASE Elapse
    <2>1. ASSUME NEW r \in RunId, runs[r].age < AgeCap
          PROVE  [runs[r] EXCEPT !.age = runs[r].age + 1] \in RunRow
      BY <2>1, AgesAssumption DEF TypeOK, RunRow
    <2>2. runs' \in [RunId -> RunRow]
      BY <1>6, <2>1 DEF Elapse, TypeOK
    <2> QED
      BY <1>6, <2>2 DEF Elapse, TypeOK
  <1>7. CASE Crash
    <2>1. faults' \in 0..MaxFaults
      BY <1>7, SizesAssumption DEF Crash, TypeOK
    <2>2. server' \in ServerState
      BY <1>7 DEF Crash, ServerState, Phase
    <2> QED
      BY <1>7, <2>1, <2>2, DisownedTyped, IdleTyped DEF Crash, TypeOK
  <1>8. CASE Restart
    BY <1>8, ToTyped DEF Restart, TypeOK, Phase
  <1> QED
    BY <1>1, <1>2, <1>3, <1>4, <1>5, <1>6, <1>7, <1>8

\* Every reachable state of check_runs, of the threads and of the scheduler
\* has its type.
THEOREM Typing == Spec => []TypeOK
  <1>1. TypeOK /\ [Next]_vars => TypeOK'
    <2> SUFFICES ASSUME TypeOK, [Next]_vars PROVE TypeOK'
      OBVIOUS
    <2>1. CASE UNCHANGED vars
      BY <2>1 DEF vars, TypeOK
    <2>2. CASE Next
      BY <2>2, CheckStepTyped, SchedulerTyped, EnvironmentTyped DEF Next
    <2> QED
      BY <2>1, <2>2
  <1> QED
    BY <1>1, InitTyped, PTL DEF Spec

-----------------------------------------------------------------------------
(* Mutual exclusion *)

\* A holder's row is the smallest running row of its host: what the second
\* look of run_ssh_check establishes and every later step keeps.
HolderIsFirst == \A v \in Worker, h \in HostId :
    Holds(v, h) => \A q \in RunId :
        Running(q) /\ runs[q].host = h => q >= workers[v].run

\* No step but an insertion makes a row running, moves it to another host or
\* gives it an owner.
RowsOnlyClose == \A r \in RunId :
    Running(r)' => /\ Running(r)
                   /\ runs'[r].host = runs[r].host
                   /\ runs'[r].owner \in {runs[r].owner, NoWorker}

\* A thread past the second look was there before or has just looked.
ThreadsAdvance == \A v \in Worker :
    Checking(v)' => /\ workers'[v].run = workers[v].run
                    /\ workers'[v].host = workers[v].host
                    /\ Checking(v) \/ Verify(v)

LEMMA BecomeEffect ==
  ASSUME TypeOK, NEW w \in Worker, NEW s, Become(w, s)
  PROVE  workers'[w] = s /\ \A v \in Worker : v # w => workers'[v] = workers[v]
  BY DEF TypeOK, Become

LEMMA GotoEffect ==
  ASSUME TypeOK, NEW w \in Worker, NEW pc, Goto(w, pc)
  PROVE  /\ workers'[w].pc = pc
         /\ workers'[w].run = workers[w].run
         /\ workers'[w].host = workers[w].host
         /\ \A v \in Worker : v # w => workers'[v] = workers[v]
  <1>1. workers[w] \in [pc : Pc, host : 0..MaxHost, run : 0..MaxRun,
                        prev : HostStatus \cup {"gone"}, ids : SUBSET RunId]
    BY DEF TypeOK, WorkerState
  <1>2. /\ workers'[w] = [workers[w] EXCEPT !.pc = pc]
        /\ \A v \in Worker : v # w => workers'[v] = workers[v]
    BY BecomeEffect DEF Goto
  <1> QED
    BY <1>1, <1>2

LEMMA FailRunningCloses ==
  ASSUME TypeOK, NEW S \in SUBSET RunId, NEW known, FailRunningRuns(S, known)
  PROVE  RowsOnlyClose
  <1>1. \A r \in RunId : runs[r] \in RunRow /\ Closed(runs[r], "failed").status = "failed"
    BY ClosedTyped DEF TypeOK, RunStatus
  <1> QED
    BY <1>1, FailRunningTyped DEF RowsOnlyClose, Running

LEMMA CheckStepEffect ==
  ASSUME TypeOK, NEW w \in Worker, CheckStep(w)
  PROVE  (RowsOnlyClose \/ InsertRun(w)) /\ ThreadsAdvance
  <1> DEFINE me == workers[w]
  <1>0. me \in WorkerState /\ (me.pc # "idle" => me.host \in HostId)
        /\ (me.pc \in AfterInsert => me.run \in RunId)
    BY DEF TypeOK, WorkerState
  <1>1. CASE LoadHost(w) \/ GateCheck(w) \/ Verify(w) \/ RemoteCheck(w) \/ FinishRead(w)
    <2>1. RowsOnlyClose
      BY <1>1 DEF LoadHost, GateCheck, Verify, RemoteCheck, FinishRead, RowsOnlyClose, Running
    <2>2. CASE Verify(w) \/ RemoteCheck(w)
      <3>1. /\ workers'[w].run = me.run
            /\ workers'[w].host = me.host
            /\ \A v \in Worker : v # w => workers'[v] = workers[v]
            /\ Checking(w) \/ Verify(w)
        <4>1. PICK pc : Goto(w, pc)
          BY <2>2 DEF Verify, RemoteCheck
        <4> QED
          BY <2>2, <4>1, GotoEffect DEF RemoteCheck, Checking
      <3> QED
        BY <2>1, <3>1 DEF ThreadsAdvance, Checking
    <2>3. CASE FinishRead(w)
      <3> DEFINE s == [me EXCEPT !.pc = "failwrite",
                         !.prev = IF hosts[me.host].there THEN hosts[me.host].last ELSE "gone"]
      <3>1. s.run = me.run /\ s.host = me.host
        BY <1>0 DEF WorkerState
      <3>2. Checking(w)
        BY <2>3 DEF FinishRead, Checking
      <3>3. /\ workers'[w].pc # "idle" => workers'[w] = s
            /\ \A v \in Worker : v # w => workers'[v] = workers[v]
        BY <2>3, LeaveTyped DEF FinishRead, Become, TypeOK
      <3> QED
        BY <2>1, <3>1, <3>2, <3>3 DEF ThreadsAdvance, Checking
    <2>4. CASE LoadHost(w) \/ GateCheck(w)
      <3>1. /\ ~Checking(w)'
            /\ \A v \in Worker : v # w => workers'[v] = workers[v]
        <4>1. CASE Leave(w)
          BY <4>1, LeaveTyped DEF Checking
        <4>2. CASE Goto(w, "insert")
          BY <4>2, GotoEffect DEF Checking
        <4> DEFINE t == IF Stale = {} THEN "gate" ELSE "expire"
                   s == [me EXCEPT !.prev = hosts[me.host].last, !.ids = Stale, !.pc = t]
        <4>3. CASE Become(w, s)
          <5>1. s.pc \in {"gate", "expire"}
            BY <1>0 DEF WorkerState
          <5>2. workers'[w] = s /\ \A v \in Worker : v # w => workers'[v] = workers[v]
            BY <4>3, BecomeEffect
          <5> HIDE DEF s
          <5> QED
            BY <5>1, <5>2 DEF Checking
        <4> QED
          BY <2>4, <4>1, <4>2, <4>3 DEF LoadHost, GateCheck
      <3> QED
        BY <2>1, <3>1 DEF ThreadsAdvance, Checking
    <2> QED
      BY <1>1, <2>2, <2>3, <2>4
  <1>2. CASE ExpireStale(w)
    <2>1. me.ids \in SUBSET RunId
      BY <1>0 DEF WorkerState
    <2>2. RowsOnlyClose
      <3>1. CASE UNCHANGED runs
        BY <3>1 DEF RowsOnlyClose, Running
      <3>2. CASE FailRunningRuns(me.ids, IF me.prev = "failed" THEN me.host ELSE 0)
        BY <2>1, <3>2, FailRunningCloses
      <3> QED
        BY <1>2, <3>1, <3>2 DEF ExpireStale
    <2>3. /\ ~Checking(w)'
          /\ \A v \in Worker : v # w => workers'[v] = workers[v]
      <3> DEFINE mine == \E r \in me.ids : runs[r].host = me.host
                 s == [me EXCEPT !.pc = "gate", !.ids = {},
                                 !.prev = IF mine THEN "failed" ELSE me.prev]
      <3>1. s.pc = "gate"
        BY <1>0 DEF WorkerState
      <3>2. CASE Become(w, s)
        BY <3>1, <3>2, BecomeEffect DEF Checking
      <3>3. CASE Leave(w)
        BY <3>3, LeaveTyped DEF Checking
      <3> QED
        BY <1>2, <3>2, <3>3 DEF ExpireStale
    <2> QED
      BY <2>2, <2>3 DEF ThreadsAdvance, Checking
  <1>3. CASE InsertRun(w)
    <2>1. /\ ~Checking(w)'
          /\ \A v \in Worker : v # w => workers'[v] = workers[v]
      <3> PICK r \in RunId : Become(w, [me EXCEPT !.pc = "verify", !.run = r])
        BY <1>3 DEF InsertRun
      <3>1. [me EXCEPT !.pc = "verify", !.run = r].pc = "verify"
        BY <1>0 DEF WorkerState
      <3> QED
        BY <3>1, BecomeEffect DEF Checking
    <2> QED
      BY <1>3, <2>1 DEF ThreadsAdvance, Checking
  <1>4. CASE UndoRun(w) \/ SaveReport(w) \/ FinishFailed(w)
    <2>1. me.run \in RunId /\ \A st \in RunStatus : Closed(runs[me.run], st).status = st
      BY <1>0, <1>4, ClosedTyped DEF UndoRun, SaveReport, FinishFailed, AfterInsert, TypeOK
    <2>2. RowsOnlyClose
      <3>1. CASE UndoRun(w)
        BY <2>1, <3>1 DEF UndoRun, RowsOnlyClose, Running, NoRow, TypeOK
      <3>2. CASE SaveReport(w)
        BY <2>1, <3>2 DEF SaveReport, RowsOnlyClose, Running, RunStatus, TypeOK
      <3>3. CASE FinishFailed(w)
        BY <2>1, <3>3, DisownedTyped DEF FinishFailed, RowsOnlyClose, Running, RunStatus, TypeOK
      <3> QED
        BY <1>4, <3>1, <3>2, <3>3
    <2>3. CASE Leave(w)
      <3>1. ~Checking(w)' /\ \A v \in Worker : v # w => workers'[v] = workers[v]
        BY <2>3, LeaveTyped DEF Checking
      <3> QED
        BY <2>2, <3>1 DEF ThreadsAdvance, Checking
    <2>4. CASE SaveReport(w) /\ Goto(w, "fail")
      <3>1. /\ workers'[w].run = me.run
            /\ workers'[w].host = me.host
            /\ Checking(w)
            /\ \A v \in Worker : v # w => workers'[v] = workers[v]
        BY <1>0, <2>4, GotoTyped DEF SaveReport, AfterInsert, WorkerState, Checking
      <3> QED
        BY <2>2, <3>1 DEF ThreadsAdvance, Checking
    <2> QED
      BY <1>4, <2>3, <2>4 DEF UndoRun, SaveReport, FinishFailed
  <1> QED
    BY <1>1, <1>2, <1>3, <1>4 DEF CheckStep

LEMMA OtherStepEffect ==
  ASSUME TypeOK, Next, \A w \in Worker : ~CheckStep(w)
  PROVE  RowsOnlyClose /\ ThreadsAdvance
  <1>0. server.ids \in SUBSET RunId
    BY DEF TypeOK, ServerState
  <1>1. ASSUME NEW w \in Worker, DbError(w) PROVE RowsOnlyClose /\ ThreadsAdvance
    <2>1. CASE workers[w].pc = "save" /\ Goto(w, "fail") /\ UNCHANGED runs
      <3>1. RowsOnlyClose
        BY <2>1 DEF RowsOnlyClose, Running
      <3> QED
        BY <2>1, <3>1, GotoEffect DEF ThreadsAdvance, Checking
    <2>2. CASE runs' = Disowned({w}) /\ Leave(w)
      <3>1. RowsOnlyClose
        BY <2>2, DisownedTyped DEF RowsOnlyClose, Running
      <3> QED
        BY <2>2, <3>1, LeaveTyped DEF ThreadsAdvance, Checking
    <2> QED
      BY <1>1, <2>1, <2>2 DEF DbError
  <1>2. ASSUME NEW w \in Worker, NEW h \in HostId, StartCheck(w, h), UNCHANGED runs
        PROVE  RowsOnlyClose /\ ThreadsAdvance
    BY <1>2, StartTyped DEF RowsOnlyClose, Running, ThreadsAdvance, Checking
  <1>3. CASE UNCHANGED <<runs, workers>>
    BY <1>3 DEF RowsOnlyClose, Running, ThreadsAdvance, Checking
  <1>4. CASE UNCHANGED workers /\ \E S \in SUBSET RunId : FailRunningRuns(S, 0)
    BY <1>4, FailRunningCloses DEF ThreadsAdvance, Checking
  <1>5. CASE CleanupBatch \/ \E h \in HostId : HostDelete(h)
    <2>1. UNCHANGED workers /\ \A r \in RunId : runs'[r] \in {runs[r], NoRow}
      BY <1>5 DEF CleanupBatch, HostDelete, TypeOK
    <2>2. NoRow.status = "none"
      BY DEF NoRow
    <2> QED
      BY <2>1, <2>2 DEF RowsOnlyClose, Running, ThreadsAdvance, Checking
  <1>6. CASE Elapse
    <2>1. \A r \in RunId : /\ runs'[r].status = runs[r].status
                           /\ runs'[r].host = runs[r].host
                           /\ runs'[r].owner = runs[r].owner
      BY <1>6 DEF Elapse, TypeOK, RunRow
    <2> QED
      BY <1>6, <2>1 DEF Elapse, RowsOnlyClose, Running, ThreadsAdvance, Checking
  <1>7. CASE Crash
    <2>1. \A v \in Worker : workers'[v].pc = "idle"
      BY <1>7 DEF Crash, IdleWorker
    <2> QED
      BY <1>7, <2>1, DisownedTyped DEF Crash, RowsOnlyClose, Running, ThreadsAdvance, Checking
  <1>8. CASE Scheduler
    <2>1. CASE ResetRead \/ TickBegin \/ ScanStale \/ SubmitDue \/ PoolDone
      BY <1>3, <2>1 DEF ResetRead, TickBegin, ScanStale, SubmitDue, PoolDone
    <2>2. CASE ResetOrphans \/ SchedulerExpire
      BY <1>0, <1>3, <1>4, <2>2 DEF ResetOrphans, SchedulerExpire
    <2>3. ASSUME NEW w \in Pool, NEW h \in HostId, PoolTake(w, h)
          PROVE  RowsOnlyClose /\ ThreadsAdvance
      BY <1>2, <2>3 DEF PoolTake, Worker
    <2> QED
      BY <1>5, <1>8, <2>1, <2>2, <2>3 DEF Scheduler
  <1>9. CASE SchedulerDbError \/ HostCreate \/ Restart \/ \E h \in HostId : HostEdit(h)
    BY <1>3, <1>9 DEF SchedulerDbError, HostCreate, Restart, HostEdit
  <1>10. ASSUME NEW w \in Worker, NEW h \in HostId, HostRunNow(w, h)
         PROVE  RowsOnlyClose /\ ThreadsAdvance
    BY <1>2, <1>10 DEF HostRunNow
  <1> QED
    BY <1>1, <1>5, <1>6, <1>7, <1>8, <1>9, <1>10 DEF Next

\* A step makes a holder only of the thread that just looked, and then no
\* smaller running row of the host exists.
LEMMA HoldersOnlyByVerify ==
  ASSUME TypeOK, Next, NEW v \in Worker, NEW h \in HostId, Holds(v, h)'
  PROVE  /\ workers'[v].run = workers[v].run
         /\ Holds(v, h) \/ /\ Verify(v)
                           /\ UNCHANGED runs
                           /\ workers[v].host = h
                           /\ \A q \in RunId : Running(q) /\ runs[q].host = h => q >= workers[v].run
  <1> DEFINE r == workers[v].run
  <1>1. ThreadsAdvance /\ (RowsOnlyClose \/ \E w \in Worker : InsertRun(w))
    BY CheckStepEffect, OtherStepEffect
  <1>2. /\ workers'[v].run = r
        /\ workers[v].host = h
        /\ Checking(v) \/ Verify(v)
    BY <1>1 DEF ThreadsAdvance, Holds
  <1>3. r \in RunId
    BY <1>2 DEF TypeOK, WorkerState, Checking, Verify, AfterInsert
  <1>4. Running(r) /\ runs[r].owner = v /\ runs[r].host = h
    <2>1. CASE RowsOnlyClose
      BY <1>2, <1>3, <2>1, WorkersAssumption DEF RowsOnlyClose, Holds, Running
    <2>2. ASSUME NEW w \in Worker, InsertRun(w)
          PROVE  Running(r) /\ runs[r].owner = v /\ runs[r].host = h
      <3> PICK n \in RunId :
               /\ runs' = [runs EXCEPT ![n] = [host |-> workers[w].host, status |-> "running",
                                               age |-> 0, owner |-> w]]
               /\ workers'[w].pc = "verify"
        <4> PICK n \in RunId :
                 /\ runs' = [runs EXCEPT ![n] = [host |-> workers[w].host, status |-> "running",
                                                 age |-> 0, owner |-> w]]
                 /\ Become(w, [workers[w] EXCEPT !.pc = "verify", !.run = n])
          BY <2>2 DEF InsertRun
        <4>1. [workers[w] EXCEPT !.pc = "verify", !.run = n].pc = "verify"
          BY DEF TypeOK, WorkerState
        <4> QED
          BY <4>1, BecomeEffect
      <3>1. v # w
        BY DEF Holds, Checking
      <3>2. r # n
        BY <1>2, <3>1 DEF Holds, TypeOK
      <3> QED
        BY <1>2, <1>3, <3>2 DEF Holds, Running, TypeOK
    <2> QED
      BY <1>1, <2>1, <2>2
  <1>5. CASE Checking(v)
    BY <1>2, <1>4, <1>5 DEF Holds
  <1>6. CASE Verify(v)
    <2>1. UNCHANGED runs /\ workers[v].pc = "verify"
      BY <1>6 DEF Verify
    <2>2. ~\E q \in RunningOn(h) : q < r
      <3>1. workers'[v].pc # "undo"
        BY DEF Holds, Checking
      <3> QED
        BY <1>2, <1>6, <3>1, GotoEffect DEF Verify
    <2>3. \A q \in RunId : Running(q) /\ runs[q].host = h => q >= r
      BY <1>3, <2>2 DEF RunningOn, RunId
    <2> QED
      BY <1>2, <1>6, <2>1, <2>3
  <1> QED
    BY <1>2, <1>5, <1>6

LEMMA FirstStays ==
  ASSUME TypeOK, HolderIsFirst, Next
  PROVE  HolderIsFirst'
  <1> SUFFICES ASSUME NEW v \in Worker, NEW h \in HostId, Holds(v, h)',
                      NEW q \in RunId, Running(q)', runs'[q].host = h
               PROVE  q >= workers'[v].run
    BY DEF HolderIsFirst
  <1> DEFINE r == workers[v].run
  <1>1. workers'[v].run = r
    BY HoldersOnlyByVerify
  <1>2. CASE Holds(v, h)
    <2>1. r \in RunId /\ Running(r)
      BY <1>2 DEF Holds, Checking, TypeOK, WorkerState, AfterInsert
    <2>2. CASE RowsOnlyClose
      BY <1>1, <1>2, <2>2 DEF RowsOnlyClose, HolderIsFirst
    <2>3. ASSUME NEW w \in Worker, InsertRun(w) PROVE q >= r
      <3> PICK n \in RunId :
               /\ IsNextRunId(n)
               /\ runs' = [runs EXCEPT ![n] = [host |-> workers[w].host, status |-> "running",
                                               age |-> 0, owner |-> w]]
        BY <2>3 DEF InsertRun
      <3>1. CASE q = n
        <4>1. ~(r >= n)
          BY <2>1 DEF IsNextRunId, Exists, Running
        <4> QED
          BY <2>1, <3>1, <4>1 DEF RunId
      <3>2. CASE q # n
        BY <1>2, <3>2 DEF HolderIsFirst, Running, TypeOK
      <3> QED
        BY <3>1, <3>2
    <2> QED
      BY <1>1, <2>2, <2>3, CheckStepEffect, OtherStepEffect
  <1>3. CASE /\ UNCHANGED runs
             /\ \A p \in RunId : Running(p) /\ runs[p].host = h => p >= r
    BY <1>1, <1>3 DEF Running
  <1> QED
    BY <1>2, <1>3, HoldersOnlyByVerify

LEMMA FirstIsOnly ==
  ASSUME TypeOK, HolderIsFirst
  PROVE  OneHolder
  <1> SUFFICES ASSUME NEW h \in HostId, NEW v \in Worker, NEW w \in Worker,
                      Holds(v, h), Holds(w, h)
               PROVE  v = w
    BY DEF OneHolder
  <1>1. workers[v].run \in RunId /\ workers[w].run \in RunId
    BY DEF Holds, Checking, TypeOK, WorkerState, AfterInsert
  <1>2. workers[v].run >= workers[w].run /\ workers[w].run >= workers[v].run
    BY <1>1 DEF HolderIsFirst, Holds
  <1>3. workers[v].run = workers[w].run
    BY <1>1, <1>2 DEF RunId
  <1> QED
    BY <1>3 DEF Holds

LEMMA InitIdle ==
  ASSUME Init, NEW v \in Worker
  PROVE  workers[v].pc = "idle"
  <1>1. workers[v] = IdleWorker
    BY DEF Init
  <1>2. IdleWorker.pc = "idle"
    BY DEF IdleWorker
  <1> QED
    BY <1>1, <1>2

LEMMA FirstInvariant == Spec => [](TypeOK /\ HolderIsFirst)
  <1>1. Init => HolderIsFirst
    <2>1. Init => \A v \in Worker : workers[v].pc = "idle"
      BY InitIdle
    <2> QED
      BY <2>1 DEF HolderIsFirst, Holds, Checking
  <1>2. TypeOK /\ HolderIsFirst /\ [Next]_vars => HolderIsFirst'
    <2>1. UNCHANGED vars /\ HolderIsFirst => HolderIsFirst'
      BY DEF vars, HolderIsFirst, Holds, Checking, Running
    <2> QED
      BY <2>1, FirstStays
  <1> QED
    BY <1>1, <1>2, Typing, PTL DEF Spec

\* Two threads never both hold a host: whatever crashes, database errors,
\* time-outs, deletions, clean-ups and reused ids do, the two looks around the
\* insertion admit one thread with a running row of its own.
THEOREM MutualExclusion == Spec => []OneHolder
  BY FirstInvariant, FirstIsOnly, PTL

-----------------------------------------------------------------------------
(* Refinement *)

HolderMap == [h \in HostId |-> {w \in Worker : Holds(w, h)}]

LEMMA StepIsLockStep ==
  ASSUME TypeOK, OneHolder, OneHolder', Next
  PROVE  HL!HLNext \/ UNCHANGED HolderMap
  <1> DEFINE H == HolderMap
  <1>1. CASE \A v \in Worker, h \in HostId : Holds(v, h)' => Holds(v, h)
    <2> DEFINE S == {h \in HostId : H'[h] = {}}
    <2>1. \A h \in HostId : H'[h] \in {H[h], {}}
      BY <1>1 DEF OneHolder, HolderMap
    <2>2. H' = [h \in HostId |-> IF h \in S THEN {} ELSE H[h]]
      BY <2>1 DEF HolderMap
    <2>3. \E T \in SUBSET HostId : HL!Release(T)
      BY <2>2 DEF HL!Release, HolderMap
    <2> QED
      BY <2>3 DEF HL!HLNext
  <1>2. ASSUME NEW v \in Worker, NEW h \in HostId, Holds(v, h)', ~Holds(v, h)
        PROVE  HL!Acquire(h, v)
    <2>1. /\ Verify(v)
          /\ UNCHANGED runs
          /\ workers[v].host = h
          /\ workers'[v].run = workers[v].run
          /\ \A q \in RunId : Running(q) /\ runs[q].host = h => q >= workers[v].run
      BY <1>2, HoldersOnlyByVerify
    <2>2. \A w \in Worker : w # v => workers'[w] = workers[w]
      BY <2>1, GotoEffect DEF Verify
    <2>3. \A w \in Worker, g \in HostId : w # v => Holds(w, g)' = Holds(w, g)
      BY <2>1, <2>2 DEF Holds, Checking, Running
    <2>4. \A g \in HostId : g # h => ~Holds(v, g)' /\ ~Holds(v, g)
      BY <1>2, <2>1 DEF Holds
    <2>5. \A w \in Worker : ~Holds(w, h)
      BY <1>2, <2>3 DEF OneHolder
    <2>6. H[h] = {} /\ H'[h] = {v}
      BY <1>2, <2>3, <2>5 DEF HolderMap
    <2>7. \A g \in HostId : g # h => H'[g] = H[g]
      BY <2>3, <2>4 DEF HolderMap
    <2>8. H' = [H EXCEPT ![h] = {v}]
      BY <2>6, <2>7 DEF HolderMap
    <2> QED
      BY <2>6, <2>8 DEF HL!Acquire, HolderMap
  <1> QED
    BY <1>1, <1>2 DEF HL!HLNext

\* The check_runs protocol implements the abstract lock: a hold is only ever
\* acquired on a free host.
THEOREM LockRefinement == Spec => LockImplemented
  <1>1. Init => HL!HLInit
    <2>1. Init => \A v \in Worker : workers[v].pc = "idle"
      BY InitIdle
    <2> QED
      BY <2>1 DEF HL!HLInit, Holds, Checking
  <1>2. TypeOK /\ OneHolder /\ OneHolder' /\ [Next]_vars
          => [HL!HLNext]_HolderMap
    <2>1. UNCHANGED vars => UNCHANGED HolderMap
      BY DEF vars, HolderMap, Holds, Checking, Running
    <2> QED
      BY <2>1, StepIsLockStep
  <1> QED
    BY <1>1, <1>2, Typing, MutualExclusion, PTL DEF Spec, LockImplemented, HL!HLSpec, HolderMap

-----------------------------------------------------------------------------
(* Every row is tended *)

\* A running row that has an owner is the row its owner works on.  A thread
\* about to write a failure that found its host still finds it, or its row went
\* with the host.
Followed == \A r \in RunId : \A w \in Worker : Running(r) /\ runs[r].owner = w =>
    /\ workers[w].pc \in AfterInsert
    /\ workers[w].run = r
    /\ workers[w].host = runs[r].host
    /\ workers[w].pc = "failwrite" /\ workers[w].prev # "gone" => hosts[runs[r].host].there

\* Without a fault no running row has lost its owner.
NoneLost == faults = 0 => \A r \in RunId : Running(r) => runs[r].owner # NoWorker

\* A step of a thread changes that thread alone.
LEMMA OwnStep ==
  ASSUME NEW v \in Worker, CheckStep(v) \/ DbError(v)
  PROVE  \E s : Become(v, s)
  BY DEF CheckStep, LoadHost, ExpireStale, GateCheck, InsertRun, Verify, UndoRun, RemoteCheck,
         SaveReport, FinishRead, FinishFailed, DbError, Leave, Goto

LEMMA OthersRest ==
  ASSUME TypeOK, Next, NEW w \in Worker, workers[w].pc \in AfterInsert
  PROVE  workers'[w] = workers[w] \/ CheckStep(w) \/ DbError(w) \/ Crash
  <1>1. ASSUME NEW v \in Worker, CheckStep(v) \/ DbError(v), v # w
        PROVE  workers'[w] = workers[w]
    BY <1>1, OwnStep, BecomeEffect
  <1>2. ASSUME NEW v \in Worker, NEW h \in HostId, workers[v].pc = "idle", StartCheck(v, h)
        PROVE  workers'[w] = workers[w]
    BY <1>2, BecomeEffect DEF StartCheck, AfterInsert
  <1>3. CASE UNCHANGED workers
    BY <1>3
  <1>4. CASE Scheduler
    BY <1>2, <1>4 DEF Scheduler, ResetRead, ResetOrphans, TickBegin, CleanupBatch, ScanStale,
                      SchedulerExpire, SubmitDue, PoolDone, PoolTake, Worker
  <1>5. ASSUME NEW v \in Worker, NEW h \in HostId, HostRunNow(v, h)
        PROVE  workers'[w] = workers[w]
    BY <1>2, <1>5 DEF HostRunNow
  <1>6. CASE \/ SchedulerDbError \/ HostCreate \/ Elapse \/ Restart
             \/ \E h \in HostId : HostDelete(h) \/ HostEdit(h)
    BY <1>6 DEF SchedulerDbError, HostCreate, Elapse, Restart, HostDelete, HostEdit
  <1> QED
    BY <1>1, <1>4, <1>5, <1>6 DEF Next

\* Only host_delete takes a host away.
LEMMA OnlyDeletion ==
  ASSUME TypeOK, Next, NEW h \in HostId, hosts[h].there, ~hosts'[h].there
  PROVE  HostDelete(h)
  <1>1. hosts[h] \in HostRow
    BY DEF TypeOK
  <1>2. hosts' # hosts
    OBVIOUS
  <1>3. ASSUME NEW S, NEW known, FailRunningRuns(S, known) PROVE FALSE
    BY <1>1, <1>3 DEF FailRunningRuns, HostRow
  <1>4. ASSUME NEW w \in Worker, CheckStep(w) \/ DbError(w) PROVE FALSE
    <2>1. CASE ExpireStale(w)
      BY <1>2, <1>3, <2>1 DEF ExpireStale
    <2>2. CASE SaveReport(w)
      BY <1>1, <2>2 DEF SaveReport, TypeOK, HostRow
    <2>3. CASE FinishFailed(w)
      BY <1>1, <2>3 DEF FinishFailed, TypeOK, HostRow
    <2> QED
      BY <1>2, <1>4, <2>1, <2>2, <2>3 DEF CheckStep, LoadHost, GateCheck, InsertRun, Verify,
                                         UndoRun, RemoteCheck, FinishRead, DbError
  <1>5. CASE Scheduler \/ SchedulerDbError
    BY <1>2, <1>3, <1>5 DEF Scheduler, SchedulerDbError, ResetRead, ResetOrphans, TickBegin,
                            CleanupBatch, ScanStale, SchedulerExpire, SubmitDue, PoolDone, PoolTake
  <1>6. CASE HostCreate
    <2> PICK g \in HostId, s \in BOOLEAN :
             hosts' = [hosts EXCEPT ![g] = [there |-> TRUE, scheduled |-> s, last |-> ""]]
      BY <1>6 DEF HostCreate
    <2> QED
      BY DEF TypeOK
  <1>7. ASSUME NEW g \in HostId, HostEdit(g) PROVE FALSE
    BY <1>1, <1>7 DEF HostEdit, TypeOK, HostRow
  <1>8. ASSUME NEW g \in HostId, HostDelete(g) PROVE g = h
    BY <1>8 DEF HostDelete, TypeOK
  <1>9. CASE Elapse \/ Crash \/ Restart
    BY <1>2, <1>9 DEF Elapse, Crash, Restart
  <1>10. ASSUME NEW w \in Worker, NEW g \in HostId, HostRunNow(w, g) PROVE FALSE
    BY <1>2, <1>10 DEF HostRunNow
  <1> QED
    BY <1>4, <1>5, <1>6, <1>7, <1>8, <1>9, <1>10 DEF Next

\* What a thread past the insertion makes of its own row: it keeps working on
\* it, or the row is closed, removed or, after a fault, left behind.
LEMMA OwnRow ==
  ASSUME TypeOK, Followed, NEW w \in Worker, NEW r \in RunId,
         Running(r), runs[r].owner = w, CheckStep(w)
  PROVE  \/ ~Running(r)'
         \/ /\ runs' = runs
            /\ workers'[w].pc \in AfterInsert
            /\ workers'[w].run = r
            /\ workers'[w].host = workers[w].host
            /\ workers'[w].pc = "failwrite" /\ workers'[w].prev # "gone"
                 => hosts[workers[w].host].there
  <1>0. /\ workers[w].pc \in AfterInsert
        /\ workers[w].run = r
        /\ workers[w].host = runs[r].host
        /\ workers[w].pc = "failwrite" /\ workers[w].prev # "gone" => hosts[runs[r].host].there
        /\ workers[w] \in WorkerState
    BY DEF Followed, TypeOK
  <1>1. Exists(r) /\ runs[r] \in RunRow
    BY DEF Exists, Running, TypeOK
  <1>2. \A st \in RunStatus : Closed(runs[r], st).status = st
    BY <1>1, ClosedTyped
  <1>3. CASE Verify(w) \/ RemoteCheck(w)
    <2>1. PICK pc \in {"undo", "exec", "save", "fail"} : Goto(w, pc)
      BY <1>3 DEF Verify, RemoteCheck
    <2> QED
      BY <1>0, <1>3, <2>1, GotoEffect DEF Verify, RemoteCheck, AfterInsert
  <1>4. CASE UndoRun(w)
    BY <1>0, <1>4 DEF UndoRun, Running, NoRow, TypeOK
  <1>5. CASE SaveReport(w)
    <2>1. CASE Leave(w)
      <3>1. CASE hosts[workers[w].host].there
        BY <1>0, <1>1, <1>2, <1>5, <3>1 DEF SaveReport, Running, RunStatus, TypeOK
      <3>2. CASE ~hosts[workers[w].host].there
        <4>1. Goto(w, "fail") /\ UNCHANGED runs
          BY <1>0, <1>5, <3>2 DEF SaveReport
        <4> QED
          BY <1>0, <4>1, GotoEffect DEF AfterInsert
      <3> QED
        BY <3>1, <3>2
    <2>2. CASE Goto(w, "fail") /\ UNCHANGED runs
      BY <1>0, <2>2, GotoEffect DEF AfterInsert
    <2> QED
      BY <1>5, <2>1, <2>2 DEF SaveReport
  <1>6. CASE FinishRead(w)
    <2> DEFINE s == [workers[w] EXCEPT !.pc = "failwrite",
                       !.prev = IF hosts[workers[w].host].there
                                THEN hosts[workers[w].host].last ELSE "gone"]
    <2>1. Become(w, s) /\ UNCHANGED runs
      BY <1>0, <1>1, <1>6 DEF FinishRead
    <2>2. /\ s.pc = "failwrite" /\ s.run = r /\ s.host = workers[w].host
          /\ s.prev # "gone" => hosts[workers[w].host].there
      BY <1>0 DEF WorkerState
    <2>3. workers'[w] = s
      BY <2>1, BecomeEffect
    <2> HIDE DEF s
    <2> QED
      BY <2>1, <2>2, <2>3 DEF AfterInsert
  <1>7. CASE FinishFailed(w)
    BY <1>0, <1>1, <1>2, <1>7 DEF FinishFailed, Running, RunStatus, TypeOK
  <1>8. CASE LoadHost(w) \/ ExpireStale(w) \/ GateCheck(w) \/ InsertRun(w)
    BY <1>0, <1>8 DEF LoadHost, ExpireStale, GateCheck, InsertRun, AfterInsert
  <1> QED
    BY <1>3, <1>4, <1>5, <1>6, <1>7, <1>8 DEF CheckStep

LEMMA FollowedStays ==
  ASSUME TypeOK, Followed, Next
  PROVE  Followed'
  <1> SUFFICES ASSUME NEW r \in RunId, NEW w \in Worker, Running(r)', runs'[r].owner = w
               PROVE  /\ workers'[w].pc \in AfterInsert
                      /\ workers'[w].run = r
                      /\ workers'[w].host = runs'[r].host
                      /\ workers'[w].pc = "failwrite" /\ workers'[w].prev # "gone"
                           => hosts'[runs'[r].host].there
    BY DEF Followed
  <1>1. CASE /\ Running(r)
             /\ runs'[r].host = runs[r].host
             /\ runs[r].owner = w
    <2>0. /\ workers[w].pc \in AfterInsert
          /\ workers[w].run = r
          /\ workers[w].host = runs[r].host
          /\ workers[w].pc = "failwrite" /\ workers[w].prev # "gone" => hosts[runs[r].host].there
          /\ runs[r].host \in HostId
      BY <1>1 DEF Followed, TypeOK, WorkerState, AfterInsert
    <2>1. hosts[runs[r].host].there => hosts'[runs[r].host].there
      <3> SUFFICES ASSUME HostDelete(runs[r].host) PROVE FALSE
        BY <2>0, OnlyDeletion
      <3> QED
        BY DEF HostDelete, Running, NoRow
    <2>2. CASE workers'[w] = workers[w]
      BY <1>1, <2>0, <2>1, <2>2
    <2>3. CASE CheckStep(w)
      BY <1>1, <2>0, <2>1, <2>3, OwnRow
    <2>4. CASE DbError(w)
      <3>1. CASE Goto(w, "fail")
        BY <1>1, <2>0, <2>1, <3>1, GotoEffect DEF AfterInsert
      <3>2. CASE runs' = Disowned({w})
        BY <1>1, <3>2, WorkersAssumption DEF Disowned, TypeOK, RunRow
      <3> QED
        BY <2>4, <3>1, <3>2 DEF DbError
    <2>5. CASE Crash
      BY <1>1, <2>5, WorkersAssumption DEF Crash, Disowned, TypeOK, RunRow
    <2> QED
      BY <2>0, <2>2, <2>3, <2>4, <2>5, OthersRest
  <1>2. CASE RowsOnlyClose
    BY <1>1, <1>2, WorkersAssumption DEF RowsOnlyClose
  <1>3. ASSUME NEW v \in Worker, InsertRun(v)
        PROVE  /\ workers'[w].pc \in AfterInsert
               /\ workers'[w].run = r
               /\ workers'[w].host = runs'[r].host
               /\ workers'[w].pc = "failwrite" /\ workers'[w].prev # "gone"
                    => hosts'[runs'[r].host].there
    <2> PICK n \in RunId :
             /\ runs' = [runs EXCEPT ![n] = [host |-> workers[v].host, status |-> "running",
                                             age |-> 0, owner |-> v]]
             /\ Become(v, [workers[v] EXCEPT !.pc = "verify", !.run = n])
      BY <1>3 DEF InsertRun
    <2> DEFINE s == [workers[v] EXCEPT !.pc = "verify", !.run = n]
    <2>1. s.pc = "verify" /\ s.run = n /\ s.host = workers[v].host
      BY DEF TypeOK, WorkerState
    <2>2. workers'[v] = s
      BY BecomeEffect
    <2> HIDE DEF s
    <2>3. CASE r = n
      BY <2>1, <2>2, <2>3 DEF TypeOK, AfterInsert
    <2>4. CASE r # n
      BY <1>1, <2>4 DEF Running, TypeOK
    <2> QED
      BY <2>3, <2>4
  <1> QED
    BY <1>2, <1>3, CheckStepEffect, OtherStepEffect

\* A running row loses its owner only by a fault.
LEMMA OwnerStays ==
  ASSUME TypeOK, Followed, Next, NEW r \in RunId, Running(r)', runs'[r].owner = NoWorker,
         \A w \in Worker : ~DbError(w), ~Crash
  PROVE  Running(r) /\ runs[r].owner = NoWorker
  <1>0. /\ runs[r] \in RunRow
        /\ runs[r].owner \in Worker \cup {NoWorker}
        /\ Closed(runs[r], "failed").status = "failed"
        /\ Closed(runs[r], "success").status = "success"
        /\ NoRow.status = "none"
    BY ClosedTyped DEF TypeOK, RunRow, RunStatus, NoRow
  <1>1. CASE runs'[r] = runs[r]
    BY <1>1 DEF Running
  <1>2. ASSUME NEW S, NEW known, FailRunningRuns(S, known)
        PROVE  runs'[r] = runs[r]
    BY <1>0, <1>2 DEF FailRunningRuns, Running
  <1>3. ASSUME NEW w \in Worker, CheckStep(w)
        PROVE  Running(r) /\ runs[r].owner = NoWorker
    <2>1. CASE InsertRun(w)
      <3> PICK n \in RunId :
               runs' = [runs EXCEPT ![n] = [host |-> workers[w].host, status |-> "running",
                                            age |-> 0, owner |-> w]]
        BY <2>1 DEF InsertRun
      <3>1. CASE r = n
        BY <3>1, WorkersAssumption DEF TypeOK
      <3>2. CASE r # n
        BY <1>1, <3>2 DEF TypeOK
      <3> QED
        BY <3>1, <3>2
    <2>2. CASE UndoRun(w) \/ SaveReport(w)
      BY <1>0, <1>1, <2>2 DEF UndoRun, SaveReport, Running, TypeOK
    <2>3. CASE FinishFailed(w)
      <3>1. CASE runs' = Disowned({w})
        <4>1. CASE Running(r) /\ runs[r].owner = w
          <5>1. /\ workers[w].run = r
                /\ workers[w].host = runs[r].host
                /\ workers[w].prev # "gone" => hosts[workers[w].host].there
                /\ Exists(r)
            BY <2>3, <4>1 DEF Followed, FinishFailed, Exists, Running
          <5>2. runs'[r] = Closed(runs[r], "failed")
            BY <2>3, <5>1 DEF FinishFailed, TypeOK
          <5> QED
            BY <1>0, <5>2 DEF Running
        <4>2. CASE ~(Running(r) /\ runs[r].owner = w)
          BY <1>0, <3>1, <4>2 DEF Disowned, Running, RunRow, TypeOK
        <4> QED
          BY <4>1, <4>2
      <3>2. CASE runs' = [runs EXCEPT ![workers[w].run] = Closed(@, "failed")]
        BY <1>0, <1>1, <3>2 DEF Running, TypeOK
      <3> QED
        BY <2>3, <3>1, <3>2 DEF FinishFailed
    <2>4. CASE ExpireStale(w)
      BY <1>1, <1>2, <2>4 DEF ExpireStale
    <2> QED
      BY <1>1, <1>3, <2>1, <2>2, <2>3, <2>4 DEF CheckStep, LoadHost, GateCheck, Verify,
                                                 RemoteCheck, FinishRead
  <1>4. CASE Scheduler \/ SchedulerDbError
    <2>1. CASE CleanupBatch
      BY <1>0, <1>1, <2>1 DEF CleanupBatch, Running
    <2> QED
      BY <1>1, <1>2, <1>4, <2>1 DEF Scheduler, SchedulerDbError, ResetRead, ResetOrphans,
            TickBegin, ScanStale, SchedulerExpire, SubmitDue, PoolDone, PoolTake
  <1>5. ASSUME NEW h \in HostId, HostDelete(h) PROVE Running(r) /\ runs[r].owner = NoWorker
    BY <1>0, <1>1, <1>5 DEF HostDelete, Running
  <1>6. CASE Elapse
    <2>1. runs'[r].status = runs[r].status /\ runs'[r].owner = runs[r].owner
      BY <1>0, <1>6 DEF Elapse, RunRow
    <2> QED
      BY <2>1 DEF Running
  <1>7. CASE \/ HostCreate \/ Restart
             \/ \E h \in HostId : HostEdit(h) \/ \E w \in Worker : HostRunNow(w, h)
    BY <1>1, <1>7 DEF HostCreate, Restart, HostEdit, HostRunNow
  <1> QED
    BY <1>3, <1>4, <1>5, <1>6, <1>7 DEF Next

LEMMA NoneLostStays ==
  ASSUME TypeOK, Followed, NoneLost, Next
  PROVE  NoneLost'
  <1> SUFFICES ASSUME faults' = 0, NEW r \in RunId, Running(r)', runs'[r].owner = NoWorker
               PROVE  FALSE
    BY DEF NoneLost
  <1>1. faults \in Nat
    BY SizesAssumption DEF TypeOK
  <1>2. (\A w \in Worker : ~DbError(w)) /\ ~Crash
    BY <1>1 DEF DbError, Crash
  <1>3. faults = 0
    <2>1. CASE UNCHANGED faults
      BY <2>1
    <2>2. CASE faults' = faults + 1
      BY <1>1, <2>2
    <2> QED
      BY <1>2, <2>1, <2>2 DEF Next, CheckStep, LoadHost, ExpireStale, GateCheck, InsertRun,
            Verify, UndoRun, RemoteCheck, SaveReport, FinishRead, FinishFailed, HostRunNow,
            Scheduler, ResetRead, ResetOrphans, TickBegin, CleanupBatch, ScanStale,
            SchedulerExpire, SubmitDue, PoolDone, PoolTake, SchedulerDbError, HostCreate,
            HostDelete, HostEdit, Elapse, Restart
  <1> QED
    BY <1>2, <1>3, OwnerStays DEF NoneLost

LEMMA FollowedInvariant == Spec => [](TypeOK /\ Followed /\ NoneLost)
  <1>1. Init => Followed /\ NoneLost
    <2> SUFFICES ASSUME Init, NEW r \in RunId PROVE ~Running(r)
      BY DEF Followed, NoneLost
    <2> QED
      BY DEF Init, Running, NoRow
  <1>2. TypeOK /\ Followed /\ NoneLost /\ [Next]_vars => Followed' /\ NoneLost'
    <2>1. Followed /\ UNCHANGED vars => Followed'
      BY DEF vars, Followed, Running
    <2>2. NoneLost /\ UNCHANGED vars => NoneLost'
      BY DEF vars, NoneLost, Running
    <2> QED
      BY <2>1, <2>2, FollowedStays, NoneLostStays
  <1> QED
    BY <1>1, <1>2, Typing, PTL DEF Spec

\* Every path out of run_ssh_check closes the row it opened: unless a fault
\* stopped a thread, each running row is some thread's row, whatever deletions,
\* clean-ups and reused ids do meanwhile.
THEOREM Tending == Spec => []RowsAreTended
  <1>1. TypeOK /\ Followed /\ NoneLost => RowsAreTended
    <2> SUFFICES ASSUME TypeOK, Followed, NoneLost, faults = 0, NEW r \in RunId, Running(r)
                 PROVE  Tended(r)
      BY DEF RowsAreTended
    <2>1. runs[r].owner \in Worker
      BY DEF NoneLost, TypeOK, RunRow
    <2> QED
      BY <2>1 DEF Followed, Tended
  <1> QED
    BY <1>1, FollowedInvariant, PTL

-----------------------------------------------------------------------------
(* Checks that end in time *)

\* Checks end before they are stale, none is started by hand before the start-up
\* reset, no host is deleted, and old rows are deleted only where no statement
\* fails: a row whose reset failed may be old enough for the clean-up while a
\* thread that read it as stale is about to close its id.
Calm == /\ "hang" \notin Env /\ "early" \notin Env /\ "delete" \notin Env
        /\ "retention" \in Env => "dberror" \notin Env

\* The rows the reset and the arbitration may write: nobody works on them.
Lost == {r \in RunId : \/ Running(r) /\ runs[r].owner = NoWorker
                       \/ runs[r].status = "failed"}

\* A thread past the insertion still has its running row, ...
Owned == \A w \in Worker : workers[w].pc \in AfterInsert =>
    /\ Running(workers[w].run)
    /\ runs[workers[w].run].owner = w
    /\ runs[workers[w].run].host = workers[w].host

\* ... which is not yet stale, ...
Young == \A r \in RunId : Running(r) /\ runs[r].owner # NoWorker => runs[r].age <= StaleAge

\* ... the rows read for closing are lost ones, ...
OnlyLost == /\ server.phase # "clean" => server.ids \subseteq Lost
            /\ \A w \in Worker : workers[w].ids \subseteq Lost

\* ... nothing runs before the reset, ...
BeforeReset == {"down", "boot", "reset"}
ResetFirst == server.phase \in BeforeReset => \A w \in Worker : workers[w].pc = "idle"

\* ... the reset takes every running row and the clean-up none, ...
Sorted ==
    /\ server.phase = "reset" => \A r \in RunId : Running(r) => r \in server.ids
    /\ server.phase = "clean" => /\ "retention" \in Env
                                /\ \A r \in server.ids : Exists(r) /\ ~Running(r)

\* ... and where rows are deleted the reset leaves nothing to be read as stale.
Swept == "retention" \in Env =>
    /\ server.phase \notin BeforeReset => \A r \in RunId : Running(r) => runs[r].owner # NoWorker
    /\ server.phase \notin {"reset", "clean"} => server.ids = {}
    /\ \A w \in Worker : workers[w].ids = {}

Orderly == TypeOK /\ Followed /\ Owned /\ Young /\ OnlyLost /\ ResetFirst /\ Sorted /\ Swept

\* A row that is worked on is closed, removed or disowned by its thread only.
LEMMA RowUntouched ==
  ASSUME Calm, Orderly, Next, NEW r \in RunId, NEW w \in Worker,
         Running(r), runs[r].owner = w
  PROVE  \/ Running(r)' /\ runs'[r].owner = w /\ runs'[r].host = runs[r].host
         \/ UndoRun(w) \/ SaveReport(w) \/ FinishFailed(w) \/ DbError(w) \/ Crash
  <1>0. r \notin Lost /\ runs[r] \in RunRow
    BY WorkersAssumption DEF Orderly, TypeOK, Lost, Running
  <1>1. CASE runs'[r] = runs[r]
    BY <1>1 DEF Running
  <1>2. ASSUME NEW S \in SUBSET Lost, NEW known, FailRunningRuns(S, known)
        PROVE  runs'[r] = runs[r]
    BY <1>0, <1>2 DEF FailRunningRuns
  <1>3. ASSUME NEW v \in Worker, v # w, CheckStep(v) \/ DbError(v)
        PROVE  runs'[r] = runs[r]
    <2>1. CASE UndoRun(v) \/ SaveReport(v) \/ FinishFailed(v)
      <3>1. workers[v].run # r
        BY <1>3, <2>1 DEF Orderly, Owned, UndoRun, SaveReport, FinishFailed, AfterInsert
      <3>2. runs' = Disowned({v}) => runs'[r] = runs[r]
        BY <1>3 DEF Disowned
      <3> QED
        BY <2>1, <3>1, <3>2 DEF UndoRun, SaveReport, FinishFailed, Orderly, TypeOK
    <2>2. CASE InsertRun(v)
      <3> PICK n \in RunId :
               /\ IsNextRunId(n)
               /\ runs' = [runs EXCEPT ![n] = [host |-> workers[v].host, status |-> "running",
                                               age |-> 0, owner |-> v]]
        BY <2>2 DEF InsertRun
      <3>1. n # r
        BY DEF IsNextRunId, Exists, Running, RunId
      <3> QED
        BY <3>1 DEF Orderly, TypeOK
    <2>3. CASE ExpireStale(v)
      BY <1>2, <2>3 DEF ExpireStale, Orderly, OnlyLost
    <2>4. CASE DbError(v)
      BY <1>3, <2>4 DEF DbError, Disowned
    <2> QED
      BY <1>3, <2>1, <2>2, <2>3, <2>4 DEF CheckStep, LoadHost, GateCheck, Verify,
                                          RemoteCheck, FinishRead
  <1>4. CASE CheckStep(w)
    <2>1. CASE InsertRun(w) \/ ExpireStale(w)
      BY <2>1 DEF Orderly, Followed, AfterInsert, InsertRun, ExpireStale
    <2> QED
      BY <1>1, <1>4, <2>1 DEF CheckStep, LoadHost, GateCheck, Verify, RemoteCheck, FinishRead
  <1>5. CASE Scheduler \/ SchedulerDbError
    <2>1. CASE ResetOrphans \/ SchedulerExpire
      BY <1>1, <1>2, <2>1 DEF ResetOrphans, SchedulerExpire, Orderly, OnlyLost
    <2>2. CASE CleanupBatch
      <3>1. \A q \in server.ids : ~Running(q)
        BY <2>2 DEF CleanupBatch, Orderly, Sorted
      <3> QED
        BY <1>1, <2>2, <3>1 DEF CleanupBatch
    <2> QED
      BY <1>1, <1>5, <2>1, <2>2 DEF Scheduler, SchedulerDbError, ResetRead, TickBegin, ScanStale,
                                    SubmitDue, PoolDone, PoolTake
  <1>6. CASE Elapse
    <2>1. /\ runs'[r].status = runs[r].status
          /\ runs'[r].owner = runs[r].owner
          /\ runs'[r].host = runs[r].host
      BY <1>0, <1>6 DEF Elapse, RunRow
    <2> QED
      BY <2>1 DEF Running
  <1>7. CASE \/ HostCreate \/ Restart
             \/ \E h \in HostId : HostEdit(h) \/ \E v \in Worker : HostRunNow(v, h)
    BY <1>1, <1>7 DEF HostCreate, Restart, HostEdit, HostRunNow
  <1>8. ASSUME NEW h \in HostId, HostDelete(h) PROVE FALSE
    BY <1>8 DEF HostDelete, Calm
  <1> QED
    BY <1>1, <1>3, <1>4, <1>5, <1>6, <1>7, <1>8 DEF Next

LEMMA LostStays ==
  ASSUME Calm, Orderly, Next, NEW r \in Lost, ~CleanupBatch
  PROVE  r \in Lost'
  <1>0. /\ r \in RunId /\ Exists(r)
        /\ runs[r] \in RunRow
        /\ Closed(runs[r], "failed").status = "failed"
        /\ \A w \in Worker : workers[w].pc \in AfterInsert => workers[w].run # r
    BY ClosedTyped, WorkersAssumption DEF Lost, Exists, Running, Orderly, TypeOK, Owned, RunStatus
  <1>1. CASE runs'[r] = runs[r]
    BY <1>1 DEF Lost, Running
  <1>2. ASSUME NEW S, NEW known, FailRunningRuns(S, known)
        PROVE  r \in Lost'
    BY <1>0, <1>1, <1>2 DEF FailRunningRuns, Lost
  <1>3. ASSUME NEW W, runs' = Disowned(W)
        PROVE  r \in Lost'
    BY <1>0, <1>3, DisownedTyped DEF Lost, Running, Orderly
  <1>4. ASSUME NEW v \in Worker, CheckStep(v) \/ DbError(v)
        PROVE  r \in Lost'
    <2>1. CASE UndoRun(v) \/ SaveReport(v) \/ FinishFailed(v)
      <3>1. workers[v].run # r
        BY <1>0, <2>1 DEF UndoRun, SaveReport, FinishFailed, AfterInsert
      <3>2. CASE runs' # Disowned({v})
        <4>1. UndoRun(v) => runs'[r] = runs[r]
          BY <1>0, <3>1 DEF UndoRun, Orderly, TypeOK
        <4>2. SaveReport(v) => runs'[r] = runs[r]
          BY <1>0, <3>1 DEF SaveReport, Orderly, TypeOK
        <4>3. FinishFailed(v) => runs'[r] = runs[r]
          BY <1>0, <3>1, <3>2 DEF FinishFailed, Orderly, TypeOK
        <4> QED
          BY <1>1, <2>1, <4>1, <4>2, <4>3
      <3> QED
        BY <1>3, <3>2
    <2>2. CASE InsertRun(v)
      <3> PICK n \in RunId :
               /\ IsNextRunId(n)
               /\ runs' = [runs EXCEPT ![n] = [host |-> workers[v].host, status |-> "running",
                                               age |-> 0, owner |-> v]]
        BY <2>2 DEF InsertRun
      <3>1. n # r
        BY <1>0 DEF IsNextRunId, RunId
      <3> QED
        BY <1>0, <1>1, <3>1 DEF Orderly, TypeOK
    <2>3. CASE ExpireStale(v)
      BY <1>1, <1>2, <2>3 DEF ExpireStale
    <2>4. CASE DbError(v)
      BY <1>1, <1>3, <2>4 DEF DbError
    <2> QED
      BY <1>1, <1>4, <2>1, <2>2, <2>3, <2>4 DEF CheckStep, LoadHost, GateCheck, Verify,
                                               RemoteCheck, FinishRead
  <1>5. CASE Scheduler \/ SchedulerDbError
    <2>1. CASE ResetOrphans \/ SchedulerExpire
      BY <1>1, <1>2, <2>1 DEF ResetOrphans, SchedulerExpire
    <2> QED
      BY <1>1, <1>5, <2>1 DEF Scheduler, SchedulerDbError, ResetRead, TickBegin, ScanStale,
                                    SubmitDue, PoolDone, PoolTake
  <1>6. CASE Elapse
    <2>1. runs'[r].status = runs[r].status /\ runs'[r].owner = runs[r].owner
      BY <1>0, <1>6 DEF Elapse, RunRow
    <2> QED
      BY <1>0, <2>1 DEF Lost, Running
  <1>7. CASE \/ HostCreate \/ Restart
             \/ \E h \in HostId : HostEdit(h) \/ \E v \in Worker : HostRunNow(v, h)
    BY <1>1, <1>7 DEF HostCreate, Restart, HostEdit, HostRunNow
  <1>8. ASSUME NEW h \in HostId, HostDelete(h) PROVE FALSE
    BY <1>8 DEF HostDelete, Calm
  <1>9. CASE Crash
    BY <1>3, <1>9 DEF Crash
  <1> QED
    BY <1>4, <1>5, <1>6, <1>7, <1>8, <1>9 DEF Next

\* Only the insertion brings a thread past the insertion.
LEMMA ThreadStays ==
  ASSUME Orderly, Next, NEW w \in Worker, workers'[w].pc \in AfterInsert, ~InsertRun(w)
  PROVE  /\ workers[w].pc \in AfterInsert
         /\ workers'[w].run = workers[w].run
         /\ workers'[w].host = workers[w].host
         /\ CheckStep(w) \/ DbError(w) => UNCHANGED runs
         /\ ~Crash
  <1>0. TypeOK
    BY DEF Orderly
  <1>1. ~Leave(w)
    BY <1>0, LeaveTyped DEF AfterInsert
  <1>2. ~Crash
    <2>1. IdleWorker.pc = "idle"
      BY DEF IdleWorker
    <2> QED
      BY <2>1 DEF Crash, AfterInsert
  <1>3. ASSUME NEW h \in HostId, StartCheck(w, h) PROVE FALSE
    BY <1>0, <1>3, StartTyped DEF AfterInsert
  <1>4. CASE workers[w].pc \in AfterInsert
    <2>1. CASE CheckStep(w)
      <3>1. PICK r \in RunId : r = workers[w].run
        BY <1>0, <1>4 DEF TypeOK, WorkerState
      <3>2. Running(r) /\ runs[r].owner = w
        BY <1>4, <3>1 DEF Orderly, Owned
      <3>3. CASE UNCHANGED runs
        <4>1. Running(r)'
          BY <3>2, <3>3 DEF Running
        <4> QED
          BY <1>0, <1>2, <1>4, <2>1, <3>1, <3>2, <3>3, <4>1, OwnRow DEF Orderly
      <3>4. CASE ~UNCHANGED runs
        BY <1>1, <1>4, <2>1, <3>4 DEF CheckStep, LoadHost, ExpireStale, GateCheck, InsertRun, Verify,
              UndoRun, RemoteCheck, SaveReport, FinishRead, FinishFailed, AfterInsert
      <3> QED
        BY <3>3, <3>4
    <2>2. CASE DbError(w)
      <3>1. Goto(w, "fail") /\ UNCHANGED runs
        BY <1>1, <2>2 DEF DbError
      <3> QED
        BY <1>0, <1>2, <1>4, <3>1, GotoEffect
    <2>3. CASE workers'[w] = workers[w] /\ ~CheckStep(w) /\ ~DbError(w)
      BY <1>2, <1>4, <2>3
    <2> QED
      BY <1>0, <1>2, <1>4, <2>1, <2>2, <2>3, OthersRest
  <1>5. CASE workers[w].pc \notin AfterInsert
    <2>1. workers'[w] # workers[w]
      BY <1>5
    <2>2. ASSUME NEW v \in Worker, CheckStep(v) \/ DbError(v) PROVE v = w
      BY <1>0, <2>1, <2>2, OwnStep, BecomeEffect
    <2>3. ASSUME NEW v \in Worker, NEW h \in HostId, StartCheck(v, h) PROVE v = w
      BY <1>0, <2>1, <2>3, BecomeEffect DEF StartCheck
    <2>4. CASE CheckStep(w)
      <3>1. CASE LoadHost(w)
        <4> DEFINE t == IF Stale = {} THEN "gate" ELSE "expire"
                   s == [workers[w] EXCEPT !.prev = hosts[workers[w].host].last, !.ids = Stale,
                                           !.pc = t]
        <4>1. Become(w, s)
          BY <1>1, <3>1 DEF LoadHost
        <4>2. s.pc \in {"gate", "expire"}
          BY <1>0 DEF TypeOK, WorkerState
        <4>3. workers'[w] = s
          BY <1>0, <4>1, BecomeEffect
        <4> HIDE DEF s
        <4> QED
          BY <4>2, <4>3 DEF AfterInsert
      <3>2. CASE ExpireStale(w)
        <4> DEFINE mine == \E r \in workers[w].ids : runs[r].host = workers[w].host
                   s == [workers[w] EXCEPT !.pc = "gate", !.ids = {},
                            !.prev = IF mine THEN "failed" ELSE workers[w].prev]
        <4>1. Become(w, s)
          BY <1>1, <3>2 DEF ExpireStale
        <4>2. s.pc = "gate"
          BY <1>0 DEF TypeOK, WorkerState
        <4>3. workers'[w] = s
          BY <1>0, <4>1, BecomeEffect
        <4> HIDE DEF s
        <4> QED
          BY <4>2, <4>3 DEF AfterInsert
      <3>3. CASE GateCheck(w)
        BY <1>0, <1>1, <3>3, GotoEffect DEF GateCheck, AfterInsert
      <3> QED
        BY <1>5, <2>4, <3>1, <3>2, <3>3 DEF CheckStep, Verify, UndoRun, RemoteCheck,
                                           SaveReport, FinishRead, FinishFailed, AfterInsert
    <2>5. CASE DbError(w)
      BY <1>1, <1>5, <2>5 DEF DbError, AfterInsert
    <2>6. CASE Scheduler \/ SchedulerDbError
      BY <1>3, <2>1, <2>3, <2>6 DEF Scheduler, SchedulerDbError, ResetRead, ResetOrphans, TickBegin,
            CleanupBatch, ScanStale, SchedulerExpire, SubmitDue, PoolDone, PoolTake, Worker
    <2>7. ASSUME NEW v \in Worker, NEW h \in HostId, HostRunNow(v, h) PROVE FALSE
      BY <1>3, <2>3, <2>7 DEF HostRunNow
    <2>8. CASE \/ HostCreate \/ Elapse \/ Restart
               \/ \E h \in HostId : HostDelete(h) \/ HostEdit(h)
      BY <2>1, <2>8 DEF HostCreate, Elapse, Restart, HostDelete, HostEdit
    <2> QED
      BY <1>2, <2>2, <2>4, <2>5, <2>6, <2>7, <2>8 DEF Next
  <1> QED
    BY <1>4, <1>5

LEMMA OwnedStays ==
  ASSUME Calm, Orderly, Next
  PROVE  Owned'
  <1> SUFFICES ASSUME NEW w \in Worker, workers'[w].pc \in AfterInsert
               PROVE  /\ Running(workers[w].run)'
                      /\ runs'[workers'[w].run].owner = w
                      /\ runs'[workers'[w].run].host = workers'[w].host
    BY DEF Owned
  <1>1. CASE InsertRun(w)
    <2> PICK n \in RunId :
             /\ runs' = [runs EXCEPT ![n] = [host |-> workers[w].host, status |-> "running",
                                             age |-> 0, owner |-> w]]
             /\ Become(w, [workers[w] EXCEPT !.pc = "verify", !.run = n])
      BY <1>1 DEF InsertRun
    <2> DEFINE s == [workers[w] EXCEPT !.pc = "verify", !.run = n]
    <2>1. s.run = n /\ s.host = workers[w].host
      BY DEF Orderly, TypeOK, WorkerState
    <2>2. workers'[w] = s
      BY BecomeEffect DEF Orderly
    <2> HIDE DEF s
    <2> QED
      BY <2>1, <2>2 DEF Orderly, TypeOK, Running
  <1>2. CASE ~InsertRun(w)
    <2> DEFINE r == workers[w].run
    <2>1. /\ workers[w].pc \in AfterInsert
          /\ workers'[w].run = r
          /\ workers'[w].host = workers[w].host
          /\ CheckStep(w) \/ DbError(w) => UNCHANGED runs
          /\ ~Crash
      BY <1>2, ThreadStays
    <2>2. r \in RunId /\ Running(r) /\ runs[r].owner = w /\ runs[r].host = workers[w].host
      BY <2>1 DEF Orderly, Owned, TypeOK, WorkerState
    <2>3. CASE UNCHANGED runs
      BY <2>1, <2>2, <2>3 DEF Running
    <2>4. CASE ~CheckStep(w) /\ ~DbError(w)
      <3>1. Running(r)' /\ runs'[r].owner = w /\ runs'[r].host = runs[r].host
        BY <2>1, <2>2, <2>4, RowUntouched DEF CheckStep
      <3> QED
        BY <2>1, <2>2, <3>1 DEF Running
    <2> QED
      BY <2>1, <2>3, <2>4
  <1> QED
    BY <1>1, <1>2

\* Only time makes a running row older.
LEMMA AgeStays ==
  ASSUME Orderly, Next, ~Elapse, NEW r \in RunId, Running(r)'
  PROVE  /\ runs'[r].age = runs[r].age \/ runs'[r].age = 0
         /\ (\E w \in Worker : InsertRun(w)) \/ RowsOnlyClose
  <1>0. TypeOK /\ runs[r] \in RunRow
    BY DEF Orderly, TypeOK
  <1>1. (\E w \in Worker : InsertRun(w)) \/ RowsOnlyClose
    BY <1>0, CheckStepEffect, OtherStepEffect
  <1>2. CASE runs'[r] = runs[r]
    BY <1>1, <1>2
  <1>3. /\ Closed(runs[r], "failed").status = "failed"
        /\ Closed(runs[r], "success").status = "success"
        /\ NoRow.status = "none"
    BY <1>0, ClosedTyped DEF RunStatus, NoRow
  <1>4. ASSUME NEW S, NEW known, FailRunningRuns(S, known)
        PROVE  runs'[r] = runs[r]
    BY <1>3, <1>4 DEF FailRunningRuns, Running
  <1>5. ASSUME NEW W, runs' = Disowned(W)
        PROVE  runs'[r].age = runs[r].age
    BY <1>0, <1>5 DEF Disowned, RunRow
  <1>6. ASSUME NEW v \in Worker, CheckStep(v) \/ DbError(v)
        PROVE  runs'[r].age = runs[r].age \/ runs'[r].age = 0
    <2>1. CASE UndoRun(v)
      BY <1>0, <1>2, <1>3, <2>1 DEF UndoRun, TypeOK, Running
    <2>2. CASE SaveReport(v)
      BY <1>0, <1>2, <1>3, <2>2 DEF SaveReport, TypeOK, Running
    <2>3. CASE FinishFailed(v)
      <3>1. CASE runs' # Disowned({v})
        BY <1>0, <1>2, <1>3, <2>3, <3>1 DEF FinishFailed, TypeOK, Running
      <3> QED
        BY <1>5, <3>1
    <2>4. CASE InsertRun(v)
      <3> PICK n \in RunId :
               runs' = [runs EXCEPT ![n] = [host |-> workers[v].host, status |-> "running",
                                            age |-> 0, owner |-> v]]
        BY <2>4 DEF InsertRun
      <3> QED
        BY <1>0 DEF TypeOK
    <2>5. CASE ExpireStale(v)
      BY <1>2, <1>4, <2>5 DEF ExpireStale
    <2>6. CASE DbError(v)
      BY <1>2, <1>5, <2>6 DEF DbError
    <2> QED
      BY <1>2, <1>6, <2>1, <2>2, <2>3, <2>4, <2>5, <2>6 DEF CheckStep, LoadHost, GateCheck,
                                                           Verify, RemoteCheck, FinishRead
  <1>7. CASE Scheduler \/ SchedulerDbError
    <2>1. CASE CleanupBatch
      BY <1>2, <1>3, <2>1 DEF CleanupBatch, Running
    <2> QED
      BY <1>1, <1>2, <1>4, <1>7, <2>1 DEF Scheduler, SchedulerDbError, ResetRead, ResetOrphans,
            TickBegin, ScanStale, SchedulerExpire, SubmitDue, PoolDone, PoolTake
  <1>8. CASE \/ HostCreate \/ Restart
             \/ \E h \in HostId : HostEdit(h) \/ \E v \in Worker : HostRunNow(v, h)
    BY <1>2, <1>8 DEF HostCreate, Restart, HostEdit, HostRunNow
  <1>9. ASSUME NEW h \in HostId, HostDelete(h)
        PROVE  runs'[r].age = runs[r].age
    BY <1>2, <1>3, <1>9 DEF HostDelete, Running
  <1>10. CASE Crash
    BY <1>1, <1>5, <1>10 DEF Crash
  <1> QED
    BY <1>1, <1>6, <1>7, <1>8, <1>9, <1>10 DEF Next

LEMMA YoungStays ==
  ASSUME Calm, Orderly, Next
  PROVE  Young'
  <1> SUFFICES ASSUME NEW r \in RunId, Running(r)', runs'[r].owner # NoWorker
               PROVE  runs'[r].age <= StaleAge
    BY DEF Young
  <1>0. runs[r] \in RunRow
    BY DEF Orderly, TypeOK
  <1>1. CASE Elapse
    <2>1. Prompt
      BY <1>1 DEF Elapse, Calm
    <2>2. Running(r) /\ runs[r].owner # NoWorker
      BY <1>0, <1>1 DEF Elapse, Running, RunRow
    <2>3. runs[r].age < StaleAge /\ runs[r].age \in Nat
      BY <1>0, <2>1, <2>2 DEF Prompt, RunRow
    <2>4. runs'[r].age \in {runs[r].age, runs[r].age + 1}
      BY <1>0, <1>1 DEF Elapse, RunRow
    <2> QED
      BY <2>3, <2>4, AgesAssumption
  <1>2. CASE ~Elapse
    <2>1. CASE runs'[r].age = 0
      BY <2>1, AgesAssumption
    <2>2. CASE RowsOnlyClose /\ runs'[r].age = runs[r].age
      BY <2>2 DEF RowsOnlyClose, Orderly, Young
    <2>3. ASSUME NEW w \in Worker, InsertRun(w)
          PROVE  runs'[r].age = 0 \/ runs'[r] = runs[r]
      BY <2>3 DEF InsertRun, Orderly, TypeOK
    <2>4. CASE runs'[r] = runs[r]
      BY <2>4 DEF Orderly, Young, Running
    <2> QED
      BY <1>2, <2>1, <2>2, <2>3, <2>4, AgeStays
  <1> QED
    BY <1>1, <1>2

LEMMA StaleIsLost ==
  ASSUME Orderly
  PROVE  Stale \subseteq Lost
  <1> SUFFICES ASSUME NEW r \in Stale PROVE runs[r].owner = NoWorker
    BY DEF Stale, Lost
  <1>1. runs[r].age \in Nat /\ r \in RunId
    BY DEF Orderly, TypeOK, RunRow, Stale
  <1> QED
    BY <1>1, AgesAssumption DEF Stale, Orderly, Young

\* The rows a thread holds to be closed come from the SELECT of LoadHost.
LEMMA IdsRead ==
  ASSUME TypeOK, Next, NEW w \in Worker
  PROVE  \/ workers'[w].ids \in {workers[w].ids, {}}
         \/ LoadHost(w) /\ workers'[w].ids = Stale
  <1>1. CASE workers'[w] = workers[w]
    BY <1>1
  <1>2. IdleWorker.ids = {} /\ \A h : NewCheck(h).ids = {}
    BY DEF IdleWorker, NewCheck
  <1>3. CASE Leave(w)
    BY <1>2, <1>3, BecomeEffect DEF Leave
  <1>4. ASSUME NEW pc, Goto(w, pc) PROVE workers'[w].ids = workers[w].ids
    BY <1>4 DEF Goto, Become, TypeOK, WorkerState
  <1>5. CASE CheckStep(w) \/ DbError(w)
    <2>1. CASE LoadHost(w)
      <3> DEFINE t == IF Stale = {} THEN "gate" ELSE "expire"
                 s == [workers[w] EXCEPT !.prev = hosts[workers[w].host].last, !.ids = Stale,
                                         !.pc = t]
      <3>1. CASE Become(w, s)
        <4>1. s.ids = Stale
          BY DEF TypeOK, WorkerState
        <4>2. workers'[w] = s
          BY <3>1, BecomeEffect
        <4> HIDE DEF s
        <4> QED
          BY <2>1, <4>1, <4>2
      <3> QED
        BY <1>3, <2>1, <3>1 DEF LoadHost
    <2>2. CASE ExpireStale(w)
      <3> DEFINE mine == \E r \in workers[w].ids : runs[r].host = workers[w].host
                 s == [workers[w] EXCEPT !.pc = "gate", !.ids = {},
                          !.prev = IF mine THEN "failed" ELSE workers[w].prev]
      <3>1. CASE Become(w, s)
        <4>1. s.ids = {}
          BY DEF TypeOK, WorkerState
        <4>2. workers'[w] = s
          BY <3>1, BecomeEffect
        <4> HIDE DEF s
        <4> QED
          BY <4>1, <4>2
      <3> QED
        BY <1>3, <2>2, <3>1 DEF ExpireStale
    <2>3. CASE InsertRun(w)
      <3> PICK n \in RunId : Become(w, [workers[w] EXCEPT !.pc = "verify", !.run = n])
        BY <2>3 DEF InsertRun
      <3> DEFINE s == [workers[w] EXCEPT !.pc = "verify", !.run = n]
      <3>1. s.ids = workers[w].ids
        BY DEF TypeOK, WorkerState
      <3>2. workers'[w] = s
        BY BecomeEffect
      <3> HIDE DEF s
      <3> QED
        BY <3>1, <3>2
    <2>4. CASE FinishRead(w)
      <3> DEFINE p == IF hosts[workers[w].host].there THEN hosts[workers[w].host].last ELSE "gone"
                 s == [workers[w] EXCEPT !.pc = "failwrite", !.prev = p]
      <3>1. CASE Become(w, s)
        <4>1. s.ids = workers[w].ids
          BY DEF TypeOK, WorkerState
        <4>2. workers'[w] = s
          BY <3>1, BecomeEffect
        <4> HIDE DEF s
        <4> QED
          BY <4>1, <4>2
      <3> QED
        BY <1>3, <2>4, <3>1 DEF FinishRead
    <2> QED
      BY <1>3, <1>4, <1>5, <2>1, <2>2, <2>3, <2>4 DEF CheckStep, GateCheck, Verify,
            UndoRun, RemoteCheck, SaveReport, FinishFailed, DbError
  <1>6. ASSUME NEW v \in Worker, CheckStep(v) \/ DbError(v), v # w
        PROVE  workers'[w] = workers[w]
    BY <1>6, OwnStep, BecomeEffect
  <1>7. ASSUME NEW v \in Worker, NEW h \in HostId, StartCheck(v, h)
        PROVE  workers'[w] = workers[w] \/ workers'[w].ids = {}
    BY <1>2, <1>7, BecomeEffect DEF StartCheck
  <1>8. CASE Scheduler \/ SchedulerDbError
    BY <1>1, <1>7, <1>8 DEF Scheduler, SchedulerDbError, ResetRead, ResetOrphans, TickBegin,
          CleanupBatch, ScanStale, SchedulerExpire, SubmitDue, PoolDone, PoolTake, Worker
  <1>9. CASE Crash
    BY <1>2, <1>9 DEF Crash
  <1>10. CASE \/ HostCreate \/ Elapse \/ Restart
              \/ \E h \in HostId : HostDelete(h) \/ HostEdit(h)
    BY <1>1, <1>10 DEF HostCreate, Elapse, Restart, HostDelete, HostEdit
  <1>11. ASSUME NEW v \in Worker, NEW h \in HostId, HostRunNow(v, h)
         PROVE  workers'[w] = workers[w] \/ workers'[w].ids = {}
    BY <1>7, <1>11 DEF HostRunNow
  <1> QED
    BY <1>1, <1>5, <1>6, <1>8, <1>9, <1>10, <1>11 DEF Next

\* Before the reset no thread moves, and no row is opened.
LEMMA QuietBeforeReset ==
  ASSUME Calm, Orderly, Next, server.phase \in BeforeReset
  PROVE  /\ \A w \in Worker : ~CheckStep(w) /\ ~DbError(w)
         /\ \A w \in Worker, h \in HostId : ~HostRunNow(w, h)
         /\ \A r \in RunId : Running(r)' => Running(r)
  <1>0. TypeOK
    BY DEF Orderly
  <1>1. ASSUME NEW w \in Worker PROVE ~CheckStep(w) /\ ~DbError(w)
    BY DEF Orderly, ResetFirst, CheckStep, LoadHost, ExpireStale, GateCheck, InsertRun, Verify,
           UndoRun, RemoteCheck, SaveReport, FinishRead, FinishFailed, DbError
  <1>2. ASSUME NEW w \in Worker, NEW h \in HostId PROVE ~HostRunNow(w, h)
    BY DEF HostRunNow, Calm, BeforeReset
  <1>3. RowsOnlyClose
    BY <1>0, <1>1, OtherStepEffect
  <1> QED
    BY <1>1, <1>2, <1>3 DEF RowsOnlyClose

\* The phases of the scheduler, and what it has in hand in them.
LEMMA PhaseStep ==
  ASSUME TypeOK, Next
  PROVE  \/ UNCHANGED server
         \/ SubmitDue /\ server'.phase \in {"sleep", "pool"} /\ server'.ids = server.ids
         \/ \E w \in Pool, h \in HostId : /\ PoolTake(w, h)
                                          /\ server'.phase = "pool" /\ server'.ids = server.ids
         \/ ResetRead /\ server'.phase = "reset" /\ server'.ids = {r \in RunId : Running(r)}
         \/ ResetOrphans /\ server'.phase = "sleep" /\ server'.ids = {}
         \/ TickBegin /\ "retention" \in Env /\ server'.phase = "clean" /\ server'.ids = Old
         \/ TickBegin /\ server'.phase = "scan" /\ server'.ids = {}
         \/ CleanupBatch /\ server'.phase = "clean" /\ server'.ids \subseteq server.ids
         \/ CleanupBatch /\ server'.phase = "scan" /\ server'.ids = {}
         \/ ScanStale /\ server'.phase \in {"due", "expire"} /\ server'.ids = Stale
         \/ SchedulerExpire /\ server'.phase = "due" /\ server'.ids = {}
         \/ PoolDone /\ server'.phase = "sleep" /\ server'.ids = {}
         \/ SchedulerDbError /\ server'.phase \in {"sleep", "scan", "due"} /\ server'.ids \in {{}, server.ids}
         \/ Crash /\ server'.phase = "down" /\ server'.ids = {}
         \/ Restart /\ server'.phase = "boot" /\ server'.ids = {}
  <1>0. server \in ServerState
    BY DEF TypeOK
  <1>1. ASSUME NEW phase, NEW ids, To(phase, ids)
        PROVE  server'.phase = phase /\ server'.ids = ids
    BY <1>0, <1>1 DEF To, ServerState
  <1>2. CASE SubmitDue
    BY <1>0, <1>2 DEF SubmitDue, ServerState
  <1>3. ASSUME NEW w \in Pool, NEW h \in HostId, PoolTake(w, h)
        PROVE  server'.phase = "pool" /\ server'.ids = server.ids
    BY <1>0, <1>3 DEF PoolTake, ServerState
  <1>4. CASE ResetRead \/ ResetOrphans \/ TickBegin \/ SchedulerExpire \/ PoolDone \/ Restart
    BY <1>1, <1>4 DEF ResetRead, ResetOrphans, TickBegin, SchedulerExpire, PoolDone, Restart
  <1>5. CASE CleanupBatch
    BY <1>1, <1>5 DEF CleanupBatch
  <1>6. CASE ScanStale
    BY <1>1, <1>6 DEF ScanStale
  <1>7. CASE SchedulerDbError
    BY <1>1, <1>7 DEF SchedulerDbError
  <1>8. CASE Crash
    BY <1>8 DEF Crash
  <1>9. ASSUME NEW w \in Worker, CheckStep(w) \/ DbError(w) PROVE UNCHANGED server
    BY <1>9 DEF CheckStep, LoadHost, ExpireStale, GateCheck, InsertRun, Verify, UndoRun,
                RemoteCheck, SaveReport, FinishRead, FinishFailed, DbError
  <1> QED
    BY <1>2, <1>3, <1>4, <1>5, <1>6, <1>7, <1>8, <1>9
       DEF Next, Scheduler, HostRunNow, HostCreate, HostDelete, HostEdit, Elapse

LEMMA OnlyLostStays ==
  ASSUME Calm, Orderly, Next
  PROVE  OnlyLost'
  <1>0. TypeOK
    BY DEF Orderly
  <1>1. CASE CleanupBatch
    <2>1. "retention" \in Env /\ server.phase = "clean"
      BY <1>1 DEF CleanupBatch, Orderly, Sorted
    <2>2. \A w \in Worker : workers'[w].ids = {}
      BY <1>1, <2>1 DEF CleanupBatch, Orderly, Swept
    <2>3. server'.phase = "clean" \/ server'.ids = {}
      <3>1. (\E ids : To("clean", ids)) \/ To("scan", {})
        BY <1>1 DEF CleanupBatch
      <3> QED
        BY <1>0, <3>1 DEF To, TypeOK, ServerState
    <2> QED
      BY <2>2, <2>3 DEF OnlyLost
  <1>2. CASE ~CleanupBatch
    <2>1. Lost \subseteq Lost'
      BY <1>2, LostStays
    <2>2. ASSUME NEW w \in Worker PROVE workers'[w].ids \subseteq Lost
      BY <1>0, IdsRead, StaleIsLost DEF Orderly, OnlyLost
    <2>3. ASSUME server'.phase # "clean" PROVE server'.ids \subseteq Lost
      <3>1. CASE ResetRead
        <4>1. \A r \in RunId : Running(r) => runs[r].owner = NoWorker
          BY <3>1 DEF ResetRead, Orderly, ResetFirst, BeforeReset, Followed, AfterInsert, TypeOK,
                      RunRow
        <4>2. server'.ids = {r \in RunId : Running(r)}
          BY <1>0, <3>1 DEF ResetRead, To, TypeOK, ServerState
        <4> QED
          BY <4>1, <4>2 DEF Lost
      <3>2. CASE server'.ids \in {{}, server.ids} /\ server.phase # "clean"
        BY <3>2 DEF Orderly, OnlyLost
      <3>3. CASE SchedulerDbError
        BY <1>0, <3>3, <3>2 DEF SchedulerDbError, To, TypeOK, ServerState
      <3> QED
        BY <1>0, <1>2, <2>3, <3>1, <3>2, <3>3, PhaseStep, StaleIsLost DEF SubmitDue, PoolTake
    <2> QED
      BY <2>1, <2>2, <2>3 DEF OnlyLost
  <1> QED
    BY <1>1, <1>2

LEMMA ResetFirstStays ==
  ASSUME Calm, Orderly, Next
  PROVE  ResetFirst'
  <1>0. TypeOK
    BY DEF Orderly
  <1> SUFFICES ASSUME server'.phase \in BeforeReset, NEW w \in Worker
               PROVE  workers'[w].pc = "idle"
    BY DEF ResetFirst
  <1>1. CASE Crash
    <2>1. IdleWorker.pc = "idle"
      BY DEF IdleWorker
    <2> QED
      BY <1>1, <2>1 DEF Crash
  <1>2. CASE ~Crash
    <2>1. server.phase \in BeforeReset
      BY <1>0, <1>2, PhaseStep DEF BeforeReset, ResetRead, Restart
    <2>2. workers[w].pc = "idle"
      BY <2>1 DEF Orderly, ResetFirst
    <2>3. /\ \A v \in Worker : ~CheckStep(v) /\ ~DbError(v)
          /\ \A v \in Worker, h \in HostId : ~HostRunNow(v, h)
      BY <2>1, QuietBeforeReset
    <2>4. \A v \in Pool, h \in HostId : ~PoolTake(v, h)
      BY <2>1 DEF PoolTake, BeforeReset
    <2>5. UNCHANGED workers
      BY <1>2, <2>3, <2>4 DEF Next, Scheduler, SchedulerDbError, ResetRead, ResetOrphans, TickBegin,
            CleanupBatch, ScanStale, SchedulerExpire, SubmitDue, PoolDone, HostCreate, HostDelete,
            HostEdit, Elapse, Restart
    <2> QED
      BY <2>2, <2>5
  <1> QED
    BY <1>1, <1>2

\* No row a worker owns, and no running row at all, is old.
LEMMA OldIsClosed ==
  ASSUME Calm, Orderly, "retention" \in Env, server.phase \notin BeforeReset
  PROVE  (\A r \in Old : Exists(r) /\ ~Running(r)) /\ Stale = {}
  <1>1. ASSUME NEW r \in RunId, Running(r) PROVE runs[r].age <= StaleAge /\ runs[r].age \in Nat
    <2>1. runs[r] \in RunRow
      BY DEF Orderly, TypeOK
    <2> QED
      BY <1>1, <2>1 DEF Orderly, Young, Swept, RunRow
  <1>2. ~\E r \in RunId : Running(r) /\ runs[r].age > StaleAge
    BY <1>1, AgesAssumption
  <1>3. ASSUME NEW r \in RunId, Running(r) PROVE ~(runs[r].age > RetentionAge)
    BY <1>1, <1>3, AgesAssumption
  <1> QED
    BY <1>2, <1>3 DEF Old, Stale

LEMMA SortedStays ==
  ASSUME Calm, Orderly, Next
  PROVE  Sorted'
  <1>0. TypeOK
    BY DEF Orderly
  <1>1. ASSUME server'.phase = "reset", NEW r \in RunId, Running(r)'
        PROVE  r \in server'.ids
    <2>1. server.phase \in BeforeReset
      BY <1>0, <1>1, PhaseStep DEF BeforeReset, ResetRead
    <2>2. Running(r)
      BY <1>1, <2>1, QuietBeforeReset
    <2>3. CASE UNCHANGED server
      BY <1>1, <2>2, <2>3 DEF Orderly, Sorted
    <2> QED
      BY <1>0, <1>1, <2>2, <2>3, PhaseStep
  <1>2. ASSUME server'.phase = "clean"
        PROVE  /\ "retention" \in Env
               /\ \A r \in server'.ids : Exists(r)' /\ ~Running(r)'
    <2>1. CASE TickBegin
      <3>1. "retention" \in Env /\ server'.ids = Old /\ server.phase = "sleep" /\ UNCHANGED runs
        BY <1>0, <1>2, <2>1 DEF TickBegin, To, TypeOK, ServerState
      <3>2. \A r \in Old : Exists(r) /\ ~Running(r)
        BY <3>1, OldIsClosed DEF BeforeReset
      <3> QED
        BY <3>1, <3>2 DEF Exists, Running
    <2>2. CASE ~TickBegin
      <3>0. server.phase = "clean" /\ server'.ids \subseteq server.ids
        BY <1>0, <1>2, <2>2, PhaseStep DEF CleanupBatch
      <3>1. "retention" \in Env /\ \A r \in server.ids : Exists(r) /\ ~Running(r)
        BY <3>0 DEF Orderly, Sorted
      <3> SUFFICES ASSUME NEW r \in server'.ids PROVE Exists(r)' /\ ~Running(r)'
        BY <3>1
      <3>2. r \in RunId /\ Exists(r) /\ ~Running(r) /\ runs[r] \in RunRow
        BY <3>0, <3>1 DEF Orderly, TypeOK, ServerState
      <3>3. CASE runs'[r] = runs[r]
        BY <3>2, <3>3 DEF Exists, Running
      <3>4. CASE CleanupBatch
        <4> PICK B \in SUBSET server.ids :
                 /\ runs' = [q \in RunId |-> IF q \in B THEN NoRow ELSE runs[q]]
                 /\ To("clean", server.ids \ B)
          <5>1. server.ids # {}
            BY <3>0
          <5> QED
            BY <3>4, <5>1 DEF CleanupBatch
        <4>1. r \notin B
          BY <1>0 DEF To, TypeOK, ServerState
        <4> QED
          BY <3>2, <3>3, <4>1
      <3>5. CASE ~CleanupBatch
        <4>1. UNCHANGED server
          BY <1>0, <1>2, <2>2, <3>5, PhaseStep
        <4>2. \A w \in Worker : workers[w].pc \in AfterInsert => workers[w].run # r
          BY <3>2 DEF Orderly, Owned
        <4>3. ASSUME NEW w \in Worker, CheckStep(w) PROVE runs'[r].status = runs[r].status
          <5>1. CASE InsertRun(w)
            <6> PICK n \in RunId :
                     /\ IsNextRunId(n)
                     /\ runs' = [runs EXCEPT ![n] = [host |-> workers[w].host, status |-> "running",
                                                     age |-> 0, owner |-> w]]
              BY <5>1 DEF InsertRun
            <6>1. n # r
              BY <3>2 DEF IsNextRunId, RunId
            <6> QED
              BY <3>2, <6>1 DEF Orderly, TypeOK
          <5>2. CASE ExpireStale(w)
            <6>1. workers[w].ids = {}
              BY <3>1 DEF Orderly, Swept
            <6> QED
              BY <3>2, <5>2, <6>1 DEF ExpireStale, FailRunningRuns
          <5>3. CASE UndoRun(w) \/ SaveReport(w) \/ FinishFailed(w)
            <6>1. workers[w].run # r
              BY <4>2, <5>3 DEF UndoRun, SaveReport, FinishFailed, AfterInsert
            <6>2. runs' = Disowned({w}) => runs'[r].status = runs[r].status
              BY <1>0, <3>2, DisownedTyped
            <6>3. runs' = Disowned({w}) \/ runs'[r] = runs[r]
              BY <3>2, <5>3, <6>1 DEF UndoRun, SaveReport, FinishFailed, Orderly, TypeOK
            <6> QED
              BY <6>2, <6>3
          <5> QED
            BY <4>3, <5>1, <5>2, <5>3 DEF CheckStep, LoadHost, GateCheck, Verify,
                                          RemoteCheck, FinishRead
        <4>4. ASSUME NEW w \in Worker, DbError(w) PROVE FALSE
          BY <3>1, <4>4 DEF DbError, Calm
        <4>5. CASE Elapse
          <5>1. runs'[r].status = runs[r].status
            BY <3>2, <4>5 DEF Elapse, RunRow
          <5> QED
            BY <3>2, <5>1 DEF Exists, Running
        <4>6. CASE Crash
          BY <1>2, <4>6 DEF Crash
        <4>7. ASSUME NEW h \in HostId, HostDelete(h) PROVE FALSE
          BY <4>7 DEF HostDelete, Calm
        <4>8. CASE Scheduler \/ SchedulerDbError
          BY <3>0, <3>1, <3>3, <3>5, <4>8 DEF Scheduler, SchedulerDbError, ResetRead, ResetOrphans,
                TickBegin, ScanStale, SchedulerExpire, SubmitDue, PoolDone, PoolTake
        <4>9. CASE runs'[r].status = runs[r].status
          BY <3>2, <4>9 DEF Exists, Running
        <4> QED
          BY <3>3, <4>3, <4>9, <4>4, <4>5, <4>6, <4>7, <4>8
             DEF Next, HostCreate, Restart, HostEdit, HostRunNow
      <3> QED
        BY <3>4, <3>5
    <2> QED
      BY <2>1, <2>2
  <1> QED
    BY <1>1, <1>2 DEF Sorted

LEMMA SweptStays ==
  ASSUME Calm, Orderly, Next
  PROVE  Swept'
  <1> SUFFICES ASSUME "retention" \in Env
               PROVE  /\ server'.phase \notin BeforeReset =>
                            \A r \in RunId : Running(r)' => runs'[r].owner # NoWorker
                      /\ server'.phase \notin {"reset", "clean"} => server'.ids = {}
                      /\ \A w \in Worker : workers'[w].ids = {}
    BY DEF Swept
  <1>0. TypeOK /\ Followed /\ Swept
    BY DEF Orderly
  <1>1. (\A w \in Worker : ~DbError(w)) /\ ~SchedulerDbError
    BY DEF DbError, SchedulerDbError, Calm
  <1>2. ASSUME server'.phase \notin BeforeReset, NEW r \in RunId, Running(r)',
               runs'[r].owner = NoWorker
        PROVE  FALSE
    <2>1. ~Crash
      BY <1>2 DEF Crash, BeforeReset
    <2>2. Running(r) /\ runs[r].owner = NoWorker
      BY <1>0, <1>1, <1>2, <2>1, OwnerStays
    <2>3. server.phase \in BeforeReset
      BY <2>2 DEF Orderly, Swept
    <2>4. ResetOrphans
      BY <1>0, <1>1, <1>2, <2>3, PhaseStep DEF BeforeReset, ResetRead, Restart, TickBegin,
            CleanupBatch, ScanStale, SchedulerExpire, SubmitDue, PoolDone, PoolTake, Crash
    <2>5. r \in server.ids /\ \A q \in server.ids : Exists(q)
      BY <2>2, <2>4 DEF ResetOrphans, Orderly, Sorted, OnlyLost, Lost, Exists, Running
    <2>6. FailRunningRuns(server.ids, 0)
      BY <2>4, <2>5 DEF ResetOrphans
    <2>7. Closed(runs[r], "failed").status = "failed"
      BY <1>0, ClosedTyped DEF TypeOK, RunStatus
    <2> QED
      BY <1>2, <2>5, <2>6, <2>7 DEF FailRunningRuns, Running
  <1>3. ASSUME server'.phase \notin {"reset", "clean"} PROVE server'.ids = {}
    <2>1. CASE ScanStale
      <3>1. Stale = {} /\ server'.ids = Stale
        BY <1>0, <2>1, OldIsClosed DEF ScanStale, BeforeReset, To, TypeOK, ServerState
      <3> QED
        BY <3>1
    <2> QED
      BY <1>0, <1>1, <1>3, <2>1, PhaseStep DEF Swept, SubmitDue, PoolTake
  <1>4. ASSUME NEW w \in Worker PROVE workers'[w].ids = {}
    <2>1. CASE LoadHost(w)
      <3>1. server.phase \notin BeforeReset
        BY <2>1 DEF LoadHost, Orderly, ResetFirst
      <3> QED
        BY <1>0, <3>1, IdsRead, OldIsClosed DEF Swept
    <2> QED
      BY <1>0, <2>1, IdsRead DEF Swept
  <1> QED
    BY <1>2, <1>3, <1>4

LEMMA OrderlyInvariant ==
  ASSUME Calm
  PROVE  Spec => []Orderly
  <1>1. Init => Orderly
    <2> SUFFICES ASSUME Init PROVE Orderly
      OBVIOUS
    <2>1. TypeOK
      BY InitTyped
    <2>2. \A r \in RunId : ~Running(r)
      <3> SUFFICES ASSUME NEW r \in RunId PROVE ~Running(r)
        OBVIOUS
      <3> QED
        BY DEF Init, Running, NoRow
    <2>3. \A w \in Worker : workers[w].pc = "idle"
      BY InitIdle
    <2>4. \A w \in Worker : workers[w].ids = {}
      <3>1. IdleWorker.ids = {}
        BY DEF IdleWorker
      <3> QED
        BY <3>1 DEF Init
    <2>5. server.phase = "boot" /\ server.ids = {}
      BY DEF Init
    <2> QED
      BY <2>1, <2>2, <2>3, <2>4, <2>5
         DEF Orderly, Followed, Owned, Young, OnlyLost, ResetFirst, Sorted, Swept, AfterInsert
  <1>2. Orderly /\ [Next]_vars => Orderly'
    <2> SUFFICES ASSUME Orderly, [Next]_vars PROVE Orderly'
      OBVIOUS
    <2>0. TypeOK'
      <3>1. CASE UNCHANGED vars
        BY <3>1 DEF vars, Orderly, TypeOK
      <3>2. CASE Next
        BY <3>2, CheckStepTyped, SchedulerTyped, EnvironmentTyped DEF Next, Orderly
      <3> QED
        BY <3>1, <3>2
    <2>1. CASE UNCHANGED vars
      BY <2>0, <2>1 DEF vars, Orderly, Followed, Owned, Young, OnlyLost, ResetFirst, Sorted, Swept,
                        Lost, Running, Exists
    <2>2. CASE Next
      BY <2>0, <2>2, FollowedStays, OwnedStays, YoungStays, OnlyLostStays, ResetFirstStays,
         SortedStays, SweptStays DEF Orderly
    <2> QED
      BY <2>1, <2>2
  <1> QED
    BY <1>1, <1>2, PTL DEF Spec

\* As long as checks end in time, no host is ever being checked by two threads:
\* a thread past the second look of run_ssh_check still holds its host.
THEOREM Exclusion ==
  ASSUME Calm
  PROVE  Spec => []ExecExclusive
  <1>1. Orderly /\ OneHolder => ExecExclusive
    <2> SUFFICES ASSUME Orderly, OneHolder, NEW v \in Worker, NEW w \in Worker,
                        Checking(v), Checking(w), workers[v].host = workers[w].host
                 PROVE  v = w
      BY DEF ExecExclusive
    <2> DEFINE h == workers[v].host
    <2>1. /\ workers[v].pc \in AfterInsert /\ workers[w].pc \in AfterInsert
          /\ h \in HostId
      BY DEF Checking, AfterInsert, Orderly, TypeOK, WorkerState
    <2>2. Holds(v, h) /\ Holds(w, h)
      BY <2>1 DEF Holds, Orderly, Owned
    <2> QED
      BY <2>1, <2>2 DEF OneHolder
  <1> QED
    BY <1>1, OrderlyInvariant, MutualExclusion, PTL

\* As long as checks end in time, save_report and _finish_failed write the
\* running row of their own check and no other.
THEOREM OwnRunWritten ==
  ASSUME Calm
  PROVE  Spec => WritesOwnRun
  <1>1. Orderly => \A w \in Worker : SaveReport(w) \/ FinishFailed(w) =>
           \A r \in RunId : Running(r) /\ runs'[r] # runs[r] => runs[r].owner = w
    <2> SUFFICES ASSUME Orderly, NEW w \in Worker, SaveReport(w) \/ FinishFailed(w),
                        NEW r \in RunId, Running(r), runs'[r] # runs[r]
                 PROVE  runs[r].owner = w
      OBVIOUS
    <2>1. runs[workers[w].run].owner = w
      BY DEF Orderly, Owned, SaveReport, FinishFailed, AfterInsert
    <2>2. CASE runs' = Disowned({w})
      BY <2>2 DEF Disowned
    <2>3. CASE SaveReport(w)
      BY <2>1, <2>3 DEF SaveReport, Orderly, TypeOK
    <2>4. CASE FinishFailed(w) /\ runs' # Disowned({w})
      BY <2>1, <2>4 DEF FinishFailed, Orderly, TypeOK
    <2> QED
      BY <2>2, <2>3, <2>4
  <1> QED
    BY <1>1, OrderlyInvariant, PTL DEF WritesOwnRun

LEMMA ClosedStays ==
  ASSUME Calm, Orderly, Next, NEW r \in RunId, runs[r].status \in {"success", "failed"}
  PROVE  runs'[r].status \in {runs[r].status, "none"}
  <1>0. /\ runs[r] \in RunRow /\ Exists(r) /\ ~Running(r)
        /\ Closed(runs[r], "failed").status = "failed"
        /\ \A w \in Worker : workers[w].pc \in AfterInsert => workers[w].run # r
        /\ NoRow.status = "none"
    BY ClosedTyped DEF Orderly, TypeOK, Owned, Exists, Running, RunStatus, NoRow
  <1>1. CASE runs'[r] \in {runs[r], NoRow}
    BY <1>0, <1>1
  <1>2. ASSUME NEW S \in SUBSET Lost, NEW known, FailRunningRuns(S, known)
        PROVE  runs'[r].status = runs[r].status
    BY <1>0, <1>2 DEF FailRunningRuns, Lost
  <1>3. ASSUME NEW W, runs' = Disowned(W)
        PROVE  runs'[r].status = runs[r].status
    BY <1>3, DisownedTyped DEF Orderly
  <1>4. ASSUME NEW v \in Worker, CheckStep(v) \/ DbError(v)
        PROVE  runs'[r].status \in {runs[r].status, "none"}
    <2>1. CASE UndoRun(v) \/ SaveReport(v) \/ FinishFailed(v)
      <3>1. workers[v].run # r
        BY <1>0, <2>1 DEF UndoRun, SaveReport, FinishFailed, AfterInsert
      <3>2. CASE runs' # Disowned({v})
        <4>1. UndoRun(v) => runs'[r] = runs[r]
          BY <3>1 DEF UndoRun, Orderly, TypeOK
        <4>2. SaveReport(v) => runs'[r] = runs[r]
          BY <3>1 DEF SaveReport, Orderly, TypeOK
        <4>3. FinishFailed(v) => runs'[r] = runs[r]
          BY <3>1, <3>2 DEF FinishFailed, Orderly, TypeOK
        <4> QED
          BY <1>1, <2>1, <4>1, <4>2, <4>3
      <3> QED
        BY <1>3, <3>2
    <2>2. CASE InsertRun(v)
      <3> PICK n \in RunId :
               /\ IsNextRunId(n)
               /\ runs' = [runs EXCEPT ![n] = [host |-> workers[v].host, status |-> "running",
                                               age |-> 0, owner |-> v]]
        BY <2>2 DEF InsertRun
      <3>1. n # r
        BY <1>0 DEF IsNextRunId, RunId
      <3> QED
        BY <1>1, <3>1 DEF Orderly, TypeOK
    <2>3. CASE ExpireStale(v)
      <3>1. workers[v].ids \in SUBSET Lost
        BY DEF Orderly, OnlyLost
      <3> QED
        BY <1>1, <1>2, <2>3, <3>1 DEF ExpireStale
    <2>4. CASE DbError(v)
      BY <1>1, <1>3, <2>4 DEF DbError
    <2> QED
      BY <1>1, <1>4, <2>1, <2>2, <2>3, <2>4 DEF CheckStep, LoadHost, GateCheck, Verify,
                                               RemoteCheck, FinishRead
  <1>5. CASE Scheduler \/ SchedulerDbError
    <2>1. CASE ResetOrphans \/ SchedulerExpire
      <3>1. server.ids \in SUBSET Lost
        BY <2>1 DEF ResetOrphans, SchedulerExpire, Orderly, OnlyLost
      <3> QED
        BY <1>1, <1>2, <2>1, <3>1 DEF ResetOrphans, SchedulerExpire
    <2>2. CASE CleanupBatch
      BY <1>1, <2>2 DEF CleanupBatch
    <2> QED
      BY <1>1, <1>5, <2>1, <2>2 DEF Scheduler, SchedulerDbError, ResetRead, TickBegin, ScanStale,
                                    SubmitDue, PoolDone, PoolTake
  <1>6. CASE Elapse
    <2>1. runs'[r].status = runs[r].status
      BY <1>0, <1>6 DEF Elapse, RunRow
    <2> QED
      BY <2>1
  <1>7. CASE \/ HostCreate \/ Restart
             \/ \E h \in HostId : HostEdit(h) \/ \E v \in Worker : HostRunNow(v, h)
    BY <1>1, <1>7 DEF HostCreate, Restart, HostEdit, HostRunNow
  <1>8. ASSUME NEW h \in HostId, HostDelete(h) PROVE FALSE
    BY <1>8 DEF HostDelete, Calm
  <1>9. CASE Crash
    BY <1>3, <1>9 DEF Crash
  <1> QED
    BY <1>4, <1>5, <1>6, <1>7, <1>8, <1>9 DEF Next

\* As long as checks end in time, a verdict is final: neither the arbitration
\* nor a late save turns a closed row into the other verdict or re-opens it.
THEOREM VerdictsFinal ==
  ASSUME Calm
  PROVE  Spec => ClosedIsFinal
  <1>1. Orderly /\ [Next]_vars => \A r \in RunId :
           runs[r].status \in {"success", "failed"}
             => runs'[r].status \in {runs[r].status, "none"}
    <2>1. UNCHANGED vars => UNCHANGED runs
      BY DEF vars
    <2> QED
      BY <2>1, ClosedStays
  <1> QED
    BY <1>1, OrderlyInvariant, PTL DEF ClosedIsFinal, Spec

-----------------------------------------------------------------------------
(* Alerts *)

\* Every step that alerts is a step of the run life cycle, or hands an alert over.
LEMMA AlertingStep ==
  ASSUME AlertingNext
  PROVE  Next \/ (UNCHANGED vars /\ \E w \in Worker : HandOver(w))
  BY DEF AlertingNext, AlertingCheckStep, SaveAndAlert, FailAndAlert, HandOver, AlertingScheduler,
         AlertingEnvironment, Next, CheckStep, Scheduler, Worker

\* Raising alerts takes nothing from the life cycle of a run: whatever holds of
\* the one holds of the other.
THEOREM AlertingRefinement == AlertingSpec => Spec
  <1>1. AlertingInit => Init
    BY DEF AlertingInit
  <1>2. [AlertingNext]_avars => [Next]_vars
    <2>1. UNCHANGED avars => UNCHANGED vars
      BY DEF avars
    <2> QED
      BY <2>1, AlertingStep
  <1> QED
    BY <1>1, <1>2, PTL DEF AlertingSpec, Spec

\* The alert variables have their types.
Alerts == [kind : {"none", "recovery", "failure"}, host : 0..MaxHost]
AlertTyped == pending \in [Worker -> Alerts] /\ outage \in [HostId -> BOOLEAN]

\* No host is deleted here, so a thread about to write a failure has found its
\* host; ...
Present == /\ \A h \in HostId : hosts[h].there
           /\ \A w \in Worker : workers[w].pc = "failwrite" => workers[w].prev # "gone"

\* ... an announced host is shown as failed, ...
OutageShown == \A h \in HostId : outage[h] => hosts[h].last = "failed"

\* ... a thread about to announce a failure is the first of this outage, ...
FirstNotice == \A w \in Worker :
    workers[w].pc = "failwrite" /\ workers[w].prev # "failed" => ~outage[workers[w].host]

\* ... and without a fault nothing was read as stale or as an orphan.
NothingLost == faults = 0 => /\ \A w \in Worker : workers[w].ids = {}
                             /\ server.phase # "clean" => server.ids = {}

AlertInv == /\ AlertTyped /\ Present /\ OutageShown /\ FirstNotice
            /\ NothingLost /\ FailedByCheckIsAnnounced

\* The arbitration and the reset only set hosts to failed, and none without a row.
LEMMA FailMarks ==
  ASSUME TypeOK, NEW S, NEW known, FailRunningRuns(S, known), NEW h \in HostId
  PROVE  /\ hosts'[h].there = hosts[h].there
         /\ hosts'[h].last \in {hosts[h].last, "failed"}
         /\ S = {} => hosts'[h] = hosts[h]
  <1>1. hosts[h] \in HostRow
    BY DEF TypeOK
  <1> QED
    BY <1>1 DEF FailRunningRuns, HostRow

\* A step that neither saves nor fails a check announces nothing and sets no
\* host to success.
LEMMA QuietStep ==
  ASSUME TypeOK, AlertTyped, AlertingNext, \A w \in Worker : ~SaveAndAlert(w) /\ ~FailAndAlert(w)
  PROVE  /\ UNCHANGED outage
         /\ AlertTyped'
         /\ \A w \in Worker : pending'[w] \in {pending[w], NoAlert}
         /\ \A h \in HostId : /\ hosts'[h].there = hosts[h].there
                              /\ hosts'[h].last \in {hosts[h].last, "failed"}
                              /\ \/ hosts'[h].last = hosts[h].last
                                 \/ \E w \in Worker : workers[w].pc = "expire" /\ workers[w].ids # {}
                                 \/ server.phase \in {"reset", "expire"} /\ server.ids # {}
  <1>0. NoAlert \in Alerts
    BY SizesAssumption DEF NoAlert, Alerts
  <1>1. ASSUME NEW S, NEW known, FailRunningRuns(S, known), NEW h \in HostId
        PROVE  /\ hosts'[h].there = hosts[h].there
               /\ hosts'[h].last \in {hosts[h].last, "failed"}
               /\ hosts'[h].last = hosts[h].last \/ S # {}
    BY <1>1, FailMarks
  <1>2. CASE UNCHANGED alertVars
    <2>1. UNCHANGED outage /\ UNCHANGED pending
      BY <1>2 DEF alertVars
    <2>2. ASSUME NEW w \in Worker, AlertingCheckStep(w), NEW h \in HostId
          PROVE  /\ hosts'[h].there = hosts[h].there
                 /\ hosts'[h].last \in {hosts[h].last, "failed"}
                 /\ hosts'[h].last = hosts[h].last \/ (workers[w].pc = "expire" /\ workers[w].ids # {})
      <3>1. CASE ExpireStale(w)
        BY <1>1, <3>1 DEF ExpireStale
      <3> QED
        BY <2>2, <3>1 DEF AlertingCheckStep, LoadHost, GateCheck, InsertRun, Verify, UndoRun,
              RemoteCheck, FinishRead, DbError, HandOver, vars
    <2>3. ASSUME AlertingScheduler, NEW h \in HostId
          PROVE  /\ hosts'[h].there = hosts[h].there
                 /\ hosts'[h].last \in {hosts[h].last, "failed"}
                 /\ \/ hosts'[h].last = hosts[h].last
                    \/ server.phase \in {"reset", "expire"} /\ server.ids # {}
      <3>1. CASE ResetOrphans \/ SchedulerExpire
        BY <1>1, <3>1 DEF ResetOrphans, SchedulerExpire
      <3> QED
        BY <2>3, <3>1 DEF AlertingScheduler, ResetRead, TickBegin, CleanupBatch, ScanStale,
              SubmitDue, SchedulerDbError, PoolDone, PoolTake
    <2>4. ASSUME AlertingEnvironment, NEW h \in HostId
          PROVE  hosts'[h].there = hosts[h].there /\ hosts'[h].last = hosts[h].last
      <3>1. ASSUME NEW g \in HostId, HostEdit(g)
            PROVE  hosts'[h].there = hosts[h].there /\ hosts'[h].last = hosts[h].last
        <4>1. hosts[h] \in HostRow /\ hosts[g] \in HostRow
          BY DEF TypeOK
        <4> QED
          BY <3>1, <4>1 DEF HostEdit, TypeOK, HostRow
      <3> QED
        BY <2>4, <3>1 DEF AlertingEnvironment, HostRunNow, Elapse, Restart, Crash
    <2> QED
      BY <2>1, <2>2, <2>3, <2>4 DEF AlertingNext, AlertTyped
  <1>3. ASSUME NEW w \in Worker, HandOver(w)
        PROVE  /\ UNCHANGED <<outage, hosts>>
               /\ pending' = [pending EXCEPT ![w] = NoAlert]
    BY <1>3 DEF HandOver, vars
  <1>4. CASE Crash /\ pending' = [w \in Worker |-> NoAlert] /\ UNCHANGED outage
    BY <1>0, <1>4 DEF Crash, AlertTyped
  <1>5. CASE \E w \in Worker : HandOver(w)
    BY <1>0, <1>3, <1>5 DEF AlertTyped
  <1> QED
    BY <1>2, <1>4, <1>5 DEF AlertingNext, AlertingCheckStep, AlertingScheduler, AlertingEnvironment

\* Only a thread that reads its host again comes to write a failure.
LEMMA ToFailwrite ==
  ASSUME Orderly, Next, NEW v \in Worker, workers'[v].pc = "failwrite"
  PROVE  \/ workers'[v] = workers[v]
         \/ /\ FinishRead(v)
            /\ workers'[v].host = workers[v].host /\ workers[v].host \in HostId
            /\ hosts[workers[v].host].there => workers'[v].prev = hosts[workers[v].host].last
  <1>0. TypeOK
    BY DEF Orderly
  <1>1. ~InsertRun(v)
    <2> SUFFICES ASSUME InsertRun(v) PROVE FALSE
      OBVIOUS
    <2> PICK n \in RunId : Become(v, [workers[v] EXCEPT !.pc = "verify", !.run = n])
      BY DEF InsertRun
    <2> DEFINE s == [workers[v] EXCEPT !.pc = "verify", !.run = n]
    <2>1. s.pc = "verify"
      BY <1>0 DEF TypeOK, WorkerState
    <2>2. workers'[v] = s
      BY <1>0, BecomeEffect
    <2> HIDE DEF s
    <2> QED
      BY <2>1, <2>2
  <1>2. /\ workers[v].pc \in AfterInsert
        /\ workers'[v].host = workers[v].host
        /\ ~Crash
    BY <1>1, ThreadStays DEF AfterInsert
  <1>3. ~Leave(v)
    BY <1>0, LeaveTyped
  <1>4. ASSUME NEW pc, Goto(v, pc) PROVE pc = "failwrite"
    BY <1>0, <1>4, GotoEffect
  <1>5. CASE FinishRead(v)
    <2> DEFINE p == IF hosts[workers[v].host].there THEN hosts[workers[v].host].last ELSE "gone"
               s == [workers[v] EXCEPT !.pc = "failwrite", !.prev = p]
    <2>1. Become(v, s)
      BY <1>3, <1>5 DEF FinishRead
    <2>2. s.prev = p
      BY <1>0 DEF TypeOK, WorkerState
    <2>3. workers'[v] = s
      BY <1>0, <2>1, BecomeEffect
    <2>4. workers[v].host \in HostId
      BY <1>0, <1>2 DEF TypeOK, WorkerState, AfterInsert
    <2> HIDE DEF s
    <2> QED
      BY <1>2, <1>5, <2>2, <2>3, <2>4
  <1>6. CASE CheckStep(v) /\ ~FinishRead(v)
    BY <1>2, <1>3, <1>4, <1>6 DEF CheckStep, LoadHost, ExpireStale, GateCheck, InsertRun, Verify,
          UndoRun, RemoteCheck, SaveReport, FinishFailed, AfterInsert
  <1>7. CASE DbError(v)
    BY <1>2, <1>3, <1>4, <1>7 DEF DbError
  <1> QED
    BY <1>0, <1>2, <1>5, <1>6, <1>7, OthersRest

\* Faults are only counted up.
LEMMA FaultsCount ==
  ASSUME TypeOK, Next
  PROVE  /\ faults' = faults \/ faults' = faults + 1
         /\ faults' = 0 => faults = 0 /\ (\A w \in Worker : ~DbError(w)) /\ ~SchedulerDbError /\ ~Crash
  <1>1. faults \in Nat
    BY SizesAssumption DEF TypeOK
  <1>2. faults' = faults \/ faults' = faults + 1
    <2>1. CASE UNCHANGED faults
      BY <2>1
    <2> QED
      BY <2>1 DEF Next, CheckStep, LoadHost, ExpireStale, GateCheck, InsertRun, DbError, Crash,
            Verify, UndoRun, RemoteCheck, SaveReport, FinishRead, FinishFailed, HostRunNow,
            Scheduler, ResetRead, ResetOrphans, TickBegin, CleanupBatch, ScanStale,
            SchedulerExpire, SubmitDue, PoolDone, PoolTake, SchedulerDbError, HostCreate,
            HostDelete, HostEdit, Elapse, Restart
  <1>3. ASSUME faults' = faults + 1 PROVE faults' # 0
    BY <1>1, <1>3
  <1>4. (\E w \in Worker : DbError(w)) \/ SchedulerDbError \/ Crash => faults' = faults + 1
    BY DEF DbError, SchedulerDbError, Crash
  <1> QED
    BY <1>2, <1>3, <1>4

LEMMA NothingLostStays ==
  ASSUME Calm, Orderly, NoneLost, NothingLost, Next
  PROVE  NothingLost'
  <1> SUFFICES ASSUME faults' = 0
               PROVE  /\ \A w \in Worker : workers'[w].ids = {}
                      /\ server'.phase # "clean" => server'.ids = {}
    BY DEF NothingLost
  <1>0. TypeOK
    BY DEF Orderly
  <1>1. faults = 0 /\ ~SchedulerDbError /\ ~Crash
    BY <1>0, FaultsCount
  <1>2. /\ \A w \in Worker : workers[w].ids = {}
        /\ server.phase # "clean" => server.ids = {}
        /\ \A r \in RunId : Running(r) => runs[r].owner # NoWorker
    BY <1>1 DEF NothingLost, NoneLost
  <1>3. Stale = {}
    <2>1. Stale \subseteq Lost
      BY StaleIsLost
    <2> QED
      BY <1>2, <2>1 DEF Stale, Lost, Running
  <1>4. ResetRead => server'.ids = {}
    <2> SUFFICES ASSUME ResetRead, NEW r \in RunId, Running(r) PROVE FALSE
      BY <1>0 DEF ResetRead, To, TypeOK, ServerState
    <2>1. \A w \in Worker : workers[w].pc = "idle"
      BY DEF ResetRead, Orderly, ResetFirst, BeforeReset
    <2>2. runs[r].owner \in Worker
      BY <1>2 DEF Orderly, TypeOK, RunRow
    <2> QED
      BY <2>1, <2>2 DEF Orderly, Followed, AfterInsert
  <1>5. \A w \in Worker : workers'[w].ids = {}
    BY <1>0, <1>2, <1>3, IdsRead
  <1>6. server'.phase # "clean" => server'.ids = {}
    BY <1>0, <1>1, <1>2, <1>3, <1>4, PhaseStep DEF SubmitDue, PoolTake
  <1> QED
    BY <1>5, <1>6

\* What save_report's commit does to the announcements.
LEMMA SaveStep ==
  ASSUME Orderly, Present, AlertTyped, NEW w \in Worker, SaveAndAlert(w)
  PROVE  /\ AlertTyped'
         /\ \A h \in HostId :
              /\ hosts'[h].there
              /\ \/ hosts'[h] = hosts[h] /\ outage'[h] = outage[h]
                 \/ /\ outage'[h] <=> (outage[h] /\ hosts'[h].last = "failed")
                    /\ hosts'[h].last \in {hosts[h].last, "success"}
         /\ \A v \in Worker : pending'[v].kind = "failure" => pending'[v] = pending[v]
  <1> DEFINE g == workers[w].host
  <1>0. g \in HostId /\ g \in 0..MaxHost /\ TypeOK
    BY SizesAssumption DEF SaveAndAlert, SaveReport, Orderly, TypeOK, WorkerState, HostId
  <1>1. \A h \in HostId : hosts[h].there /\ hosts[h] \in HostRow
    BY <1>0 DEF Present, TypeOK
  <1>2. \/ UNCHANGED hosts
        \/ hosts' = [hosts EXCEPT ![g].last = "success"]
    BY DEF SaveAndAlert, SaveReport
  <1>3. \A h \in HostId :
          /\ hosts'[h].there
          /\ h # g => hosts'[h] = hosts[h]
          /\ hosts'[h].last \in {hosts[h].last, "success"}
    BY <1>0, <1>1, <1>2 DEF TypeOK, HostRow
  <1>4. \/ UNCHANGED <<outage, hosts>>
        \/ outage' = [outage EXCEPT ![g] = outage[g] /\ hosts'[g].last = "failed"]
    <2>1. Leave(w) \/ UNCHANGED hosts
      BY DEF SaveAndAlert, SaveReport
    <2>2. Leave(w) => workers'[w].pc = "idle"
      BY <1>0, LeaveTyped
    <2> QED
      BY <2>1, <2>2 DEF SaveAndAlert, alertVars
  <1>5. \/ UNCHANGED pending
        \/ Raise(w, "recovery")
    BY DEF SaveAndAlert, alertVars
  <1>6. [kind |-> "recovery", host |-> g] \in Alerts
    BY <1>0 DEF Alerts
  <1>7. /\ pending' \in [Worker -> Alerts]
        /\ \A v \in Worker : pending'[v].kind = "failure" => pending'[v] = pending[v]
    BY <1>5, <1>6 DEF Raise, AlertTyped
  <1>8. outage' \in [HostId -> BOOLEAN]
    BY <1>0, <1>4 DEF AlertTyped
  <1> HIDE DEF g
  <1>9. ASSUME NEW h \in HostId
        PROVE  \/ hosts'[h] = hosts[h] /\ outage'[h] = outage[h]
               \/ outage'[h] <=> (outage[h] /\ hosts'[h].last = "failed")
    <2>1. CASE UNCHANGED <<outage, hosts>>
      BY <2>1
    <2>2. CASE outage' = [outage EXCEPT ![g] = outage[g] /\ hosts'[g].last = "failed"]
      <3>1. CASE h = g
        BY <1>0, <2>2, <3>1 DEF AlertTyped
      <3>2. CASE h # g
        BY <1>3, <2>2, <3>2 DEF AlertTyped
      <3> QED
        BY <3>1, <3>2
    <2> QED
      BY <1>4, <2>1, <2>2
  <1> QED
    BY <1>3, <1>7, <1>8, <1>9 DEF AlertTyped

\* What _finish_failed's commit does: it announces a failure, of a host that
\* was not shown as failed, and shows it as failed; or it announces nothing.
LEMMA FailStep ==
  ASSUME Orderly, Present, AlertTyped, NEW w \in Worker, FailAndAlert(w)
  PROVE  /\ workers[w].pc = "failwrite" /\ workers[w].host \in HostId
         /\ workers'[w].pc = "idle"
         /\ \A h \in HostId : hosts'[h].there
         /\ \/ UNCHANGED <<hosts, pending, outage>>
            \/ /\ workers[w].prev # "failed"
               /\ Raise(w, "failure")
               /\ outage' = [outage EXCEPT ![workers[w].host] = TRUE]
               /\ \A h \in HostId : h # workers[w].host => hosts'[h] = hosts[h]
               /\ hosts'[workers[w].host].last = "failed"
         /\ AlertTyped'
  <1> DEFINE g == workers[w].host
  <1>0. /\ g \in HostId /\ g \in 0..MaxHost /\ TypeOK
        /\ workers[w].pc = "failwrite" /\ workers[w].prev # "gone"
    BY SizesAssumption DEF FailAndAlert, FinishFailed, Orderly, TypeOK, WorkerState, HostId, Present
  <1>1. \A h \in HostId : hosts[h].there /\ hosts[h] \in HostRow
    BY <1>0 DEF Present, TypeOK
  <1>2. Leave(w) /\ workers'[w].pc = "idle"
    BY <1>0, LeaveTyped DEF FailAndAlert, FinishFailed
  <1>3. CASE ~Committed(w) \/ workers[w].prev = "failed"
    <2>1. UNCHANGED <<hosts, pending, outage>>
      BY <1>3 DEF FailAndAlert, FinishFailed, Committed, alertVars
    <2> QED
      BY <1>0, <1>1, <1>2, <2>1 DEF AlertTyped
  <1>4. CASE Committed(w) /\ workers[w].prev # "failed"
    <2>1. Raise(w, "failure") /\ outage' = [outage EXCEPT ![g] = TRUE]
      BY <1>4 DEF FailAndAlert
    <2>2. hosts' = [hosts EXCEPT ![g].last = "failed"]
      BY <1>0, <1>4 DEF FailAndAlert, FinishFailed, Committed
    <2>3. /\ \A h \in HostId : hosts'[h].there /\ (h # g => hosts'[h] = hosts[h])
          /\ hosts'[g].last = "failed"
      BY <1>0, <1>1, <2>2 DEF TypeOK, HostRow
    <2>4. [kind |-> "failure", host |-> g] \in Alerts
      BY <1>0 DEF Alerts
    <2>5. pending' \in [Worker -> Alerts]
      BY <2>1, <2>4 DEF Raise, AlertTyped
    <2>6. outage' \in [HostId -> BOOLEAN]
      BY <1>0, <2>1 DEF AlertTyped
    <2> QED
      BY <1>0, <1>2, <1>4, <2>1, <2>3, <2>5, <2>6 DEF AlertTyped
  <1> QED
    BY <1>3, <1>4

\* One thread at a time is past the second look, so another one's commit leaves
\* what a thread is about to announce alone.
LEMMA FirstNoticeStays ==
  ASSUME Orderly, ExecExclusive, AlertInv, AlertingNext, NEW v \in Worker,
         workers'[v].pc = "failwrite", workers'[v].prev # "failed"
  PROVE  ~outage'[workers'[v].host]
  <1>0. AlertTyped /\ Present /\ OutageShown /\ FirstNotice /\ TypeOK
    BY DEF AlertInv, Orderly
  <1>1. ASSUME NEW h \in HostId, outage'[h], ~outage[h]
        PROVE  \E w \in Worker : FailAndAlert(w) /\ workers[w].host = h
    <2>1. ASSUME NEW w \in Worker, SaveAndAlert(w) PROVE FALSE
      BY <1>0, <1>1, <2>1, SaveStep
    <2>2. ASSUME NEW w \in Worker, FailAndAlert(w) PROVE workers[w].host = h
      <3>1. UNCHANGED outage \/ outage' = [outage EXCEPT ![workers[w].host] = TRUE]
        BY <1>0, <2>2, FailStep
      <3> QED
        BY <1>0, <1>1, <3>1 DEF AlertTyped
    <2>3. CASE \A w \in Worker : ~SaveAndAlert(w) /\ ~FailAndAlert(w)
      BY <1>0, <1>1, <2>3, QuietStep
    <2> QED
      BY <2>1, <2>2, <2>3
  <1>2. /\ \/ workers'[v] = workers[v]
           \/ /\ FinishRead(v)
              /\ workers'[v].host = workers[v].host
              /\ workers'[v].prev = hosts[workers[v].host].last
        /\ workers[v].host \in HostId /\ workers'[v].host = workers[v].host
        /\ Checking(v)
    <2>1. CASE Next
      BY <1>0, <2>1, ToFailwrite DEF Present, Checking, FinishRead, TypeOK, WorkerState
    <2>2. CASE UNCHANGED vars
      BY <1>0, <2>2 DEF vars, Checking, TypeOK, WorkerState
    <2> QED
      BY <2>1, <2>2, AlertingStep
  <1>3. ~outage[workers[v].host]
    <2>1. CASE workers'[v] = workers[v]
      BY <1>0, <2>1 DEF FirstNotice
    <2>2. CASE workers'[v].prev = hosts[workers[v].host].last
      BY <1>0, <1>2, <2>2 DEF OutageShown
    <2> QED
      BY <1>2, <2>1, <2>2
  <1>4. ASSUME NEW w \in Worker, FailAndAlert(w), workers[w].host = workers[v].host PROVE FALSE
    <2>1. Checking(w) /\ workers'[w].pc = "idle"
      BY <1>0, <1>4, FailStep DEF Checking
    <2>2. v = w
      BY <1>2, <1>4, <2>1 DEF ExecExclusive
    <2> QED
      BY <2>1, <2>2
  <1> QED
    BY <1>1, <1>2, <1>3, <1>4

LEMMA AlertInvStays ==
  ASSUME Calm, Orderly, NoneLost, ExecExclusive, AlertInv, AlertingNext
  PROVE  AlertInv'
  <1>0. /\ AlertTyped /\ Present /\ OutageShown /\ NothingLost /\ FailedByCheckIsAnnounced
        /\ TypeOK
    BY DEF AlertInv, Orderly
  <1>1. NothingLost'
    BY <1>0, AlertingStep, NothingLostStays DEF NothingLost, vars
  <1>2. faults' = 0 => faults = 0
    BY <1>0, AlertingStep, FaultsCount DEF vars
  <1>3. FirstNotice'
    BY FirstNoticeStays DEF FirstNotice
  <1>4. \A w \in Worker : workers'[w].pc = "failwrite" => workers'[w].prev # "gone"
    <2> SUFFICES ASSUME NEW w \in Worker, workers'[w].pc = "failwrite"
                 PROVE  workers'[w].prev # "gone"
      OBVIOUS
    <2>1. CASE workers'[w] = workers[w]
      BY <1>0, <2>1 DEF Present
    <2>2. CASE workers[w].host \in HostId /\ workers'[w].prev = hosts[workers[w].host].last
      <3>1. hosts[workers[w].host].last \in HostStatus
        BY <1>0, <2>2 DEF TypeOK, HostRow
      <3>2. "gone" \notin HostStatus
        BY DEF HostStatus
      <3> QED
        BY <2>2, <3>1, <3>2
    <2> QED
      BY <1>0, <2>1, <2>2, AlertingStep, ToFailwrite DEF Present, vars
  <1>5. ASSUME NEW w \in Worker, SaveAndAlert(w)
        PROVE  /\ AlertTyped' /\ OutageShown' /\ FailedByCheckIsAnnounced'
               /\ \A h \in HostId : hosts'[h].there
    <2>1. AlertTyped' /\ \A h \in HostId : hosts'[h].there
      BY <1>0, <1>5, SaveStep
    <2>2. ASSUME NEW h \in HostId, outage'[h] PROVE hosts'[h].last = "failed"
      BY <1>0, <1>5, <2>2, SaveStep DEF OutageShown
    <2>3. ASSUME NEW h \in HostId, faults' = 0, hosts'[h].last = "failed" PROVE outage'[h]
      <3>1. hosts[h].last = "failed"
        BY <1>0, <1>5, <2>3, SaveStep
      <3>2. outage[h]
        BY <1>0, <1>2, <2>3, <3>1 DEF FailedByCheckIsAnnounced
      <3> QED
        BY <1>0, <1>5, <2>3, <3>2, SaveStep
    <2> QED
      BY <2>1, <2>2, <2>3 DEF OutageShown, FailedByCheckIsAnnounced
  <1>6. ASSUME NEW w \in Worker, FailAndAlert(w)
        PROVE  /\ AlertTyped' /\ OutageShown' /\ FailedByCheckIsAnnounced'
               /\ \A h \in HostId : hosts'[h].there
    <2>1. AlertTyped' /\ \A h \in HostId : hosts'[h].there
      BY <1>0, <1>6, FailStep
    <2>2. CASE UNCHANGED <<hosts, pending, outage>>
      BY <1>0, <1>2, <2>1, <2>2 DEF OutageShown, FailedByCheckIsAnnounced
    <2>3. CASE ~UNCHANGED <<hosts, pending, outage>>
      <3> DEFINE g == workers[w].host
      <3>1. /\ g \in HostId
            /\ outage' = [outage EXCEPT ![g] = TRUE]
            /\ \A h \in HostId : h # g => hosts'[h] = hosts[h]
            /\ hosts'[g].last = "failed"
        BY <1>0, <1>6, <2>3, FailStep
      <3> HIDE DEF g
      <3>2. outage'[g] /\ \A h \in HostId : h # g => outage'[h] = outage[h]
        BY <1>0, <3>1 DEF AlertTyped
      <3> QED
        BY <1>0, <1>2, <2>1, <3>1, <3>2 DEF OutageShown, FailedByCheckIsAnnounced
    <2> QED
      BY <2>1, <2>2, <2>3
  <1>7. ASSUME \A w \in Worker : ~SaveAndAlert(w) /\ ~FailAndAlert(w)
        PROVE  /\ AlertTyped' /\ OutageShown' /\ FailedByCheckIsAnnounced'
               /\ \A h \in HostId : hosts'[h].there
    <2>1. /\ AlertTyped' /\ UNCHANGED outage
          /\ \A h \in HostId : hosts'[h].there /\ hosts'[h].last \in {hosts[h].last, "failed"}
      BY <1>0, <1>7, QuietStep DEF Present
    <2>2. ASSUME faults = 0, NEW h \in HostId PROVE hosts'[h].last = hosts[h].last
      <3>1. /\ \A w \in Worker : workers[w].ids = {}
            /\ server.phase # "clean" => server.ids = {}
        BY <1>0, <2>2 DEF NothingLost
      <3> QED
        BY <1>0, <1>7, <3>1, QuietStep
    <2> QED
      BY <1>0, <1>2, <2>1, <2>2 DEF OutageShown, FailedByCheckIsAnnounced
  <1> QED
    BY <1>1, <1>3, <1>4, <1>5, <1>6, <1>7 DEF AlertInv, Present

LEMMA AlertInvariant ==
  ASSUME Calm
  PROVE  AlertingSpec => [](Orderly /\ ExecExclusive /\ AlertInv)
  <1>1. AlertingInit => AlertInv
    <2> SUFFICES ASSUME AlertingInit PROVE AlertInv
      OBVIOUS
    <2>1. AlertTyped
      <3>1. NoAlert \in Alerts
        BY SizesAssumption DEF NoAlert, Alerts
      <3> QED
        BY <3>1 DEF AlertingInit, AlertTyped
    <2>2. \A w \in Worker : workers[w].pc = "idle" /\ workers[w].ids = {}
      BY InitIdle DEF AlertingInit, Init, IdleWorker
    <2>3. \A h \in HostId : hosts[h].there /\ hosts[h].last # "failed" /\ ~outage[h]
      BY DEF AlertingInit, Init
    <2>4. server.ids = {}
      BY DEF AlertingInit, Init
    <2> QED
      BY <2>1, <2>2, <2>3, <2>4 DEF AlertInv, Present, OutageShown, FirstNotice, NothingLost,
                                    FailedByCheckIsAnnounced
  <1>2. /\ Orderly /\ NoneLost /\ ExecExclusive /\ AlertInv
        /\ [AlertingNext]_avars
        => AlertInv'
    <2>1. UNCHANGED avars /\ AlertInv => AlertInv'
      BY DEF avars, vars, alertVars, AlertInv, AlertTyped, Present, OutageShown, FirstNotice,
             NothingLost, FailedByCheckIsAnnounced
    <2> QED
      BY <2>1, AlertInvStays
  <1> QED
    BY <1>1, <1>2, AlertingRefinement, OrderlyInvariant, FollowedInvariant, Exclusion, PTL
       DEF AlertingSpec

\* As long as checks end in time, one failure is announced per outage: whatever
\* the order in which threads read and write the summary of a host, no second
\* failure alert is raised before the summary has said "success".
THEOREM OneNotice ==
  ASSUME Calm
  PROVE  AlertingSpec => OncePerOutage
  <1>1. Orderly /\ AlertInv /\ [AlertingNext]_avars => [\A w \in Worker :
            pending'[w].kind = "failure" /\ pending[w].kind = "none"
              => ~outage[pending'[w].host]]_avars
    <2> SUFFICES ASSUME Orderly, AlertInv, AlertingNext, NEW w \in Worker,
                        pending'[w].kind = "failure", pending[w].kind = "none"
                 PROVE  ~outage[pending'[w].host]
      OBVIOUS
    <2>0. AlertTyped /\ Present /\ FirstNotice
      BY DEF AlertInv
    <2>1. pending'[w] # pending[w] /\ NoAlert.kind = "none"
      BY DEF NoAlert
    <2>2. PICK v \in Worker : SaveAndAlert(v) \/ FailAndAlert(v)
      BY <2>0, <2>1, QuietStep DEF Orderly
    <2>3. FailAndAlert(v)
      BY <2>0, <2>1, <2>2, SaveStep
    <2>4. /\ workers[v].pc = "failwrite" /\ workers[v].prev # "failed"
          /\ Raise(v, "failure")
      BY <2>0, <2>1, <2>3, FailStep
    <2>5. pending'[w].host = workers[v].host
      BY <2>0, <2>1, <2>4 DEF Raise, AlertTyped
    <2> QED
      BY <2>0, <2>4, <2>5 DEF FirstNotice
  <1> QED
    BY <1>1, AlertInvariant, PTL DEF AlertingSpec, OncePerOutage

\* As long as checks end in time and no fault makes the reset or the arbitration
\* set a host to failed, a host shown as failed has been announced.
THEOREM FailuresAnnounced ==
  ASSUME Calm
  PROVE  AlertingSpec => []FailedByCheckIsAnnounced
  <1>1. AlertInv => FailedByCheckIsAnnounced
    BY DEF AlertInv
  <1> QED
    BY <1>1, AlertInvariant, PTL
===============================================================================
