-------------------------- MODULE AgentReportProofs --------------------------
(***************************************************************************)
(* Proof about the offline check, for any number of hosts, requests and    *)
(* tokens, and any environment.                                            *)
(*                                                                         *)
(* The property is not inductive: the offline check flags a host it loaded *)
(* before other steps.  What carries over is that a host that was          *)
(* announced is flagged, and none the check still means to flag (Quiet).   *)
(***************************************************************************)
EXTENDS AgentReport, FiniteSetTheorems, TLAPS

Quiet == \A h \in Host : announced[h] => hosts[h].flagged /\ h \notin sweep.late

-----------------------------------------------------------------------------

LEMMA SizesAreNat ==
    /\ MinInterval \in Nat /\ AgeCap \in Nat /\ MinInterval < AgeCap
    /\ Never \in 0..Never /\ 0 \in 0..Never /\ Never > MinInterval
BY AgentAssumption DEF Never

LEMMA NewHostIsRow == ASSUME NEW t \in 1..MaxToken PROVE NewHost(t) \in HostRow
BY SizesAreNat DEF NewHost, HostRow

LEMMA NoRequestIsState == NoRequest \in RequestState
BY AgentAssumption DEF NoRequest, At, RequestState

LEMMA InitInvariant == Init => TypeOK /\ Quiet
<1> SUFFICES ASSUME Init PROVE TypeOK /\ Quiet
  OBVIOUS
<1>1. hosts \in [Host -> HostRow]
  <2>1. PICK f \in [Host -> 1..Cardinality(Host)] : hosts = [h \in Host |-> NewHost(f[h])]
    BY DEF Init
  <2>2. \A h \in Host : f[h] \in 1..MaxToken
    BY AgentAssumption, FS_CardinalityType
  <2> QED
    BY <2>1, <2>2, NewHostIsRow
<1>2. /\ requests \in [Request -> RequestState]
      /\ \A q \in Request : requests[q].pc = "idle"
  BY NoRequestIsState DEF Init, NoRequest, At
<1>3. sweep \in SweepState /\ announced = [h \in Host |-> FALSE]
  BY DEF Init, SweepState
<1> QED
  BY <1>1, <1>2, <1>3 DEF TypeOK, Quiet

\* What a step does to the requests keeps their type.
LEMMA NextTypeOK == TypeOK /\ [Next]_vars => TypeOK'
<1> SUFFICES ASSUME TypeOK, [Next]_vars PROVE TypeOK'
  OBVIOUS
<1>0. /\ hosts \in [Host -> HostRow] /\ requests \in [Request -> RequestState]
      /\ sweep \in SweepState /\ announced \in [Host -> BOOLEAN]
      /\ \A q \in Request : requests[q].pc \in {"body", "load", "write"} => requests[q].host \in Host
  BY DEF TypeOK
<1>1. hosts' \in [Host -> HostRow]
  <2>0. ASSUME NEW h \in Host, NEW row \in HostRow, SetHost(h, row) PROVE hosts' \in [Host -> HostRow]
    BY <1>0, <2>0 DEF SetHost
  <2>1. ASSUME NEW q \in Request, StoreWrite(q) PROVE hosts' \in [Host -> HostRow]
    <3> DEFINE h == requests[q].host
               row == [hosts[h] EXCEPT !.last = 0, !.flagged = @ /\ ~requests[q].flagged]
    <3>1. h \in Host /\ SetHost(h, row)
      BY <1>0, <2>1 DEF StoreWrite
    <3>2. hosts[h] \in HostRow
      BY <1>0, <3>1
    <3>3. (hosts[h].flagged /\ ~requests[q].flagged) \in BOOLEAN
      OBVIOUS
    <3>4. row \in HostRow
      BY <3>2, <3>3, SizesAreNat DEF HostRow
    <3> QED
      BY <2>0, <3>1, <3>4
  <2>2. ASSUME NEW h \in Host, SweepStep(h) PROVE hosts' \in [Host -> HostRow]
    <3>1. [hosts[h] EXCEPT !.flagged = TRUE] \in HostRow
      BY <1>0 DEF HostRow
    <3> QED
      BY <1>0, <2>0, <2>2, <3>1 DEF SweepStep
  <2>3. ASSUME NEW h \in Host, RotateToken(h) \/ SetEnabled(h) \/ Delete(h) PROVE hosts' \in [Host -> HostRow]
    <3>1. hosts[h] \in HostRow
      BY <1>0
    <3>2. \A t \in Unused : [hosts[h] EXCEPT !.token = t] \in HostRow
      BY <3>1 DEF HostRow, Unused
    <3>3. [hosts[h] EXCEPT !.enabled = ~@] \in HostRow /\ [hosts[h] EXCEPT !.there = FALSE] \in HostRow
      BY <3>1 DEF HostRow
    <3> QED
      BY <2>0, <2>3, <3>2, <3>3 DEF RotateToken, SetEnabled, Delete
  <2>4. ASSUME NEW h \in Host, Create(h) PROVE hosts' \in [Host -> HostRow]
    BY <2>0, <2>4, NewHostIsRow DEF Create, Unused
  <2>5. CASE Elapse
    BY <1>0, <2>5, SizesAreNat DEF Elapse, HostRow, Never
  <2>6. CASE UNCHANGED hosts
    BY <1>0, <2>6
  <2> QED
    BY <2>1, <2>2, <2>3, <2>4, <2>5, <2>6 DEF Next, PostReport, Report, Lookup, ReadBody, StoreLoad, StoreFails,
       Sweep, SweepBegin, SweepScan, SweepFails, SweepEnd, Crash, vars
<1> DEFINE HasHost(r) == r.pc \in {"body", "load", "write"} => r.host \in Host
<1>2. requests' \in [Request -> RequestState] /\ \A q \in Request : HasHost(requests'[q])
  <2>0. ASSUME NEW q \in Request, NEW r \in RequestState, HasHost(r), Set(q, r)
        PROVE  requests' \in [Request -> RequestState] /\ \A p \in Request : HasHost(requests'[p])
    BY <1>0, <2>0 DEF Set
  <2>1. HasHost(NoRequest)
    BY DEF NoRequest, At
  <2>2. ASSUME NEW q \in Request, PostReport(q)
        PROVE  \E r \in RequestState : HasHost(r) /\ Set(q, r)
    <3>1. PICK t \in 1..MaxToken : Set(q, At("lookup", t))
      BY <2>2 DEF PostReport
    <3>2. At("lookup", t) \in RequestState /\ HasHost(At("lookup", t))
      BY AgentAssumption DEF At, RequestState
    <3> QED
      BY <3>1, <3>2
  <2>3. ASSUME NEW q \in Request, Lookup(q) \/ ReadBody(q) \/ StoreLoad(q) \/ StoreFails(q)
        PROVE  \E r \in RequestState : HasHost(r) /\ Set(q, r)
    <3>1. requests[q] \in RequestState
      BY <1>0
    <3>2. CASE Lookup(q)
      BY <2>1, <3>1, <3>2, NoRequestIsState DEF Lookup, Owner, RequestState
    <3>3. CASE ReadBody(q)
      BY <1>0, <2>1, <3>1, <3>3, NoRequestIsState DEF ReadBody, RequestState
    <3>4. CASE StoreLoad(q)
      BY <1>0, <2>1, <3>1, <3>4, NoRequestIsState DEF StoreLoad, RequestState, HostRow
    <3>5. CASE StoreFails(q)
      BY <2>1, <3>5, NoRequestIsState DEF StoreFails
    <3> QED
      BY <2>3, <3>2, <3>3, <3>4, <3>5
  <2>4. ASSUME NEW q \in Request, StoreWrite(q)
        PROVE  \E r \in RequestState : HasHost(r) /\ Set(q, r)
    BY <2>1, <2>4, NoRequestIsState DEF StoreWrite
  <2>5. CASE Crash
    BY <2>1, <2>5, NoRequestIsState DEF Crash
  <2>6. CASE UNCHANGED requests
    BY <1>0, <2>6
  <2> HIDE DEF HasHost
  <2> QED
    BY <2>0, <2>2, <2>3, <2>4, <2>5, <2>6 DEF Next, Report, Sweep, SweepBegin, SweepScan, SweepStep, SweepFails,
       SweepEnd, RotateToken, SetEnabled, Delete, Create, Elapse, vars
<1>3. sweep' \in SweepState
  <2>1. ASSUME SweepBegin \/ SweepScan \/ SweepFails \/ SweepEnd \/ Crash PROVE sweep' \in SweepState
    BY <1>0, <2>1 DEF SweepState, SweepBegin, SweepScan, SweepFails, SweepEnd, Crash
  <2>2. ASSUME NEW h \in Host, SweepStep(h) PROVE sweep' \in SweepState
    BY <1>0, <2>2 DEF SweepState, SweepStep
  <2>3. CASE UNCHANGED sweep
    BY <1>0, <2>3
  <2> QED
    BY <2>1, <2>2, <2>3 DEF Next, PostReport, Report, Lookup, ReadBody, StoreLoad, StoreFails, StoreWrite,
       Sweep, RotateToken, SetEnabled, Delete, Create, Elapse, vars
<1>4. announced' \in [Host -> BOOLEAN]
  BY <1>0 DEF Next, PostReport, Report, Lookup, ReadBody, StoreLoad, StoreFails, StoreWrite,
     Sweep, SweepBegin, SweepScan, SweepStep, SweepFails, SweepEnd, RotateToken, SetEnabled, Delete, Create,
     Elapse, Crash, vars
<1> QED
  BY <1>1, <1>2, <1>3, <1>4 DEF TypeOK

LEMMA NextQuiet == TypeOK /\ Quiet /\ [Next]_vars => Quiet'
<1> SUFFICES ASSUME TypeOK, Quiet, [Next]_vars PROVE Quiet'
  OBVIOUS
<1>0. hosts \in [Host -> HostRow] /\ announced \in [Host -> BOOLEAN] /\ sweep \in SweepState
  BY DEF TypeOK
<1>1. ASSUME NEW q \in Request, StoreWrite(q) PROVE Quiet'
  <2>1. PICK h \in Host : /\ announced' = [announced EXCEPT ![h] = FALSE] /\ UNCHANGED sweep
                          /\ \A g \in Host \ {h} : hosts'[g] = hosts[g]
    BY <1>0, <1>1 DEF StoreWrite, SetHost, TypeOK
  <2> QED
    BY <1>0, <2>1 DEF Quiet
<1>2. ASSUME NEW h \in Host, SweepStep(h) PROVE Quiet'
  <2>1. sweep'.late = sweep.late \ {h}
    BY <1>0, <1>2 DEF SweepStep, SetHost, SweepState
  <2>2. CASE h \in sweep.late
    <3>1. hosts'[h].flagged /\ \A g \in Host \ {h} : hosts'[g] = hosts[g] /\ announced'[g] = announced[g]
      BY <1>0, <1>2, <2>2 DEF SweepStep, SetHost, HostRow
    <3> QED
      BY <2>1, <3>1 DEF Quiet
  <2>3. CASE h \notin sweep.late
    BY <1>2, <2>1, <2>3 DEF Quiet, SweepStep
  <2> QED
    BY <2>2, <2>3
<1>3. CASE SweepScan
  <2>1. \A h \in sweep'.late : ~hosts[h].flagged
    BY <1>3 DEF SweepScan
  <2> QED
    BY <1>3, <2>1 DEF Quiet, SweepScan
<1>4. ASSUME NEW h \in Host, RotateToken(h) \/ SetEnabled(h) \/ Delete(h) PROVE Quiet'
  <2>1. UNCHANGED <<sweep, announced>> /\ \A g \in Host : hosts'[g].flagged = hosts[g].flagged
    BY <1>0, <1>4 DEF RotateToken, SetHost, SetEnabled, Delete, HostRow
  <2> QED
    BY <2>1 DEF Quiet
<1>5. ASSUME NEW h \in Host, Create(h) PROVE Quiet'
  <2>1. ~announced'[h] /\ UNCHANGED sweep
        /\ \A g \in Host \ {h} : announced'[g] = announced[g] /\ hosts'[g] = hosts[g]
    BY <1>0, <1>5 DEF Create, SetHost
  <2> QED
    BY <2>1 DEF Quiet
<1>6. CASE Elapse
  <2>1. UNCHANGED <<sweep, announced>> /\ \A g \in Host : hosts'[g].flagged = hosts[g].flagged
    BY <1>0, <1>6 DEF Elapse, HostRow
  <2> QED
    BY <2>1 DEF Quiet
<1>7. CASE UNCHANGED <<hosts, announced>> /\ sweep'.late \in {{}, sweep.late}
  BY <1>7 DEF Quiet
<1>8. SweepBegin \/ SweepEnd \/ SweepFails \/ Crash \/ UNCHANGED sweep => sweep'.late \in {{}, sweep.late}
  BY <1>0 DEF SweepBegin, SweepEnd, SweepFails, Crash, SweepState
<1> QED
  BY <1>1, <1>2, <1>3, <1>4, <1>5, <1>6, <1>7, <1>8 DEF Next, PostReport, Report, Lookup, ReadBody, StoreLoad,
     StoreFails, Sweep, SweepBegin, SweepFails, SweepEnd, Crash, vars

-----------------------------------------------------------------------------

LEMMA Invariant == Spec => [](TypeOK /\ Quiet)
<1>1. TypeOK /\ Quiet /\ [Next]_vars => (TypeOK /\ Quiet)'
  BY NextTypeOK, NextQuiet
<1> QED
  BY <1>1, InitInvariant, PTL DEF Spec

\* However many reports and sweeps interleave, whatever dies or is deleted meanwhile: no host
\* is announced offline a second time without a stored report, or a new host, in between.
THEOREM AnnouncedOnce == Spec => OncePerSilence
<1> DEFINE Once == \A h \in Host : SweepStep(h) /\ hosts'[h].flagged /\ h \in sweep.late => ~announced[h]
<1>1. Quiet => [Once]_vars
  BY DEF Quiet
<1> QED
  BY <1>1, Invariant, PTL DEF OncePerSilence
=============================================================================
