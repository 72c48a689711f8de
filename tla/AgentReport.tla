---------------------------- MODULE AgentReport ----------------------------
(***************************************************************************)
(* Reports of agent hosts (app/agent_api.py: post_report and what it       *)
(* calls), the part of save_report that keeps the host row, the hourly     *)
(* offline check (app/scheduler.py: _agent_offline_check) and the routes   *)
(* that change an agent host.                                              *)
(*                                                                         *)
(* A deleted host may be followed by a new one with its id; Host are the   *)
(* ids.                                                                    *)
(*                                                                         *)
(* A request handler gives up control three times: to the token look-up,   *)
(* to the client that sends the body, to the thread that stores the        *)
(* report; that thread loads the host and writes it later, and writes only *)
(* the columns whose value differs from what it loaded.                    *)
(* A definition just before the one it varies (SweepScanFlagged, ...) is a *)
(* wrong variant; Next uses none.                                          *)
(***************************************************************************)
EXTENDS Integers, FiniteSets

CONSTANTS
    Host,          \* agent hosts
    Request,       \* handlers of POST /report that may be under way at once
    MinInterval,   \* REPORT_MIN_INTERVAL
    OfflineAge,    \* agent_offline_hours
    AgeCap,
    MaxToken,      \* bound on the tokens issued
    Env            \* administrators: "rotate", "enable", "delete"; "body": refused
                   \* bodies; "crash": the process dies and is started again

ASSUME AgentAssumption ==
    /\ MinInterval \in Nat /\ OfflineAge \in Nat \ {0} /\ AgeCap \in Nat
    /\ MinInterval <= OfflineAge /\ OfflineAge < AgeCap
    /\ IsFiniteSet(Host) /\ MaxToken \in Nat /\ Cardinality(Host) <= MaxToken
    /\ Env \subseteq {"rotate", "enable", "delete", "body", "crash"}

VARIABLES
    hosts,      \* rows of the agent hosts
    requests,   \* handlers of POST /report
    sweep,      \* _agent_offline_check: hosts still to look at, as loaded
    announced   \* offline alert since the last stored report (history)

vars == <<hosts, requests, sweep, announced>>

\* `last`: age of last_checked_at, or Never.
Never == AgeCap + 1
HostRow == [there : BOOLEAN, enabled : BOOLEAN, token : 1..MaxToken, last : 0..Never, flagged : BOOLEAN]
\* `flagged`: offline_alerted as the storing thread loaded it.
RequestState == [pc : {"idle", "lookup", "body", "load", "write"}, token : 0..MaxToken,
                 host : Host \cup {"none"}, flagged : BOOLEAN]
SweepState == [phase : {"sleep", "scan", "step"}, todo : SUBSET Host, late : SUBSET Host]

At(pc, t) == [pc |-> pc, token |-> t, host |-> "none", flagged |-> FALSE]
NoRequest == At("idle", 0)
NewHost(t) == [there |-> TRUE, enabled |-> TRUE, token |-> t, last |-> Never, flagged |-> FALSE]
Issued == {hosts[h].token : h \in Host}

Init ==
    /\ \E f \in [Host -> 1..Cardinality(Host)] :
          /\ \A g, h \in Host : f[g] = f[h] => g = h
          /\ hosts = [h \in Host |-> NewHost(f[h])]
    /\ requests = [q \in Request |-> NoRequest]
    /\ sweep = [phase |-> "sleep", todo |-> {}, late |-> {}]
    /\ announced = [h \in Host |-> FALSE]

-----------------------------------------------------------------------------
(* POST /report *)

Set(q, state) == requests' = [requests EXCEPT ![q] = state]
SetHost(h, row) == hosts' = [hosts EXCEPT ![h] = row]

\* An agent, or somebody with an old installation of it, posts a report.
PostReport(q) ==
    /\ requests[q].pc = "idle"
    /\ \E t \in 1..MaxToken : Set(q, At("lookup", t))
    /\ UNCHANGED <<hosts, sweep, announced>>

\* The host a token belongs to, among the enabled ones.
Owner(t) == {h \in Host : hosts[h].there /\ hosts[h].enabled /\ hosts[h].token = t}

\* _lookup_agent, then the frequency gate on the value it returned: 401, 429,
\* or on to the body.
Lookup(q) ==
    /\ requests[q].pc = "lookup"
    /\ \/ /\ Owner(requests[q].token) = {}
          /\ Set(q, NoRequest)
       \/ \E h \in Owner(requests[q].token) :
             Set(q, IF hosts[h].last < MinInterval THEN NoRequest
                    ELSE [requests[q] EXCEPT !.pc = "body", !.host = h])
    /\ UNCHANGED <<hosts, sweep, announced>>

\* The body arrives, and is accepted or refused (413, 400).
ReadBody(q) ==
    /\ requests[q].pc = "body"
    /\ \/ Set(q, [requests[q] EXCEPT !.pc = "load"])
       \/ "body" \in Env /\ Set(q, NoRequest)
    /\ UNCHANGED <<hosts, sweep, announced>>

\* _store_report: db.get, by the id found at the look-up; no second look at
\* token, enabled or last_checked_at, nor at whose id it is now.
StoreLoad(q) ==
    /\ requests[q].pc = "load"
    /\ Set(q, IF ~hosts[requests[q].host].there THEN NoRequest
              ELSE [requests[q] EXCEPT !.pc = "write", !.flagged = hosts[requests[q].host].flagged])
    /\ UNCHANGED <<hosts, sweep, announced>>

\* save_report commits; the update of a host that is gone raises, and nothing is stored.
StoreFails(q) ==
    /\ requests[q].pc = "write" /\ ~hosts[requests[q].host].there
    /\ Set(q, NoRequest)
    /\ UNCHANGED <<hosts, sweep, announced>>
StoreWrite(q) ==
    /\ requests[q].pc = "write" /\ hosts[requests[q].host].there
    /\ LET h == requests[q].host
       IN  /\ SetHost(h, [hosts[h] EXCEPT !.last = 0, !.flagged = @ /\ ~requests[q].flagged])
           /\ announced' = [announced EXCEPT ![h] = FALSE]
           /\ Set(q, NoRequest)
    /\ UNCHANGED sweep

Report(q) == Lookup(q) \/ ReadBody(q) \/ StoreLoad(q) \/ StoreFails(q) \/ StoreWrite(q)

-----------------------------------------------------------------------------
(* _agent_offline_check *)

SweepBegin == /\ sweep.phase = "sleep"
              /\ sweep' = [sweep EXCEPT !.phase = "scan"]
              /\ UNCHANGED <<hosts, requests, announced>>

\* The query loads every host to look at; the rows are not read again.
SweepScanFlagged ==
    /\ sweep.phase = "scan"
    /\ LET S == {h \in Host : hosts[h].there /\ hosts[h].enabled}
       IN  sweep' = [phase |-> "step", todo |-> S,
                     late |-> {h \in S : hosts[h].last > OfflineAge /\ hosts[h].last # Never}]
    /\ UNCHANGED <<hosts, requests, announced>>
SweepScanTooLate ==
    /\ sweep.phase = "scan"
    /\ LET S == {h \in Host : hosts[h].there /\ hosts[h].enabled /\ ~hosts[h].flagged}
       IN  sweep' = [phase |-> "step", todo |-> S, late |-> {h \in S : hosts[h].last = OfflineAge}]
    /\ UNCHANGED <<hosts, requests, announced>>
SweepScan ==
    /\ sweep.phase = "scan"
    /\ LET S == {h \in Host : hosts[h].there /\ hosts[h].enabled /\ ~hosts[h].flagged}
       IN  sweep' = [phase |-> "step", todo |-> S,
                     late |-> {h \in S : hosts[h].last > OfflineAge /\ hosts[h].last # Never}]
    /\ UNCHANGED <<hosts, requests, announced>>

\* One host: flag, commit, alert.
SweepStep(h) ==
    /\ sweep.phase = "step" /\ h \in sweep.todo /\ (h \in sweep.late => hosts[h].there)
    /\ sweep' = [sweep EXCEPT !.todo = @ \ {h}, !.late = @ \ {h}]
    /\ IF h \in sweep.late
       THEN /\ SetHost(h, [hosts[h] EXCEPT !.flagged = TRUE])
            /\ announced' = [announced EXCEPT ![h] = TRUE]
       ELSE UNCHANGED <<hosts, announced>>
    /\ UNCHANGED requests

\* The update of a host that is gone raises; the other hosts have to wait for the next sweep.
SweepFails ==
    /\ sweep.phase = "step" /\ \E h \in sweep.late : ~hosts[h].there
    /\ sweep' = [phase |-> "sleep", todo |-> {}, late |-> {}]
    /\ UNCHANGED <<hosts, requests, announced>>

SweepEnd == /\ sweep.phase = "step" /\ sweep.todo = {}
            /\ sweep' = [sweep EXCEPT !.phase = "sleep"]
            /\ UNCHANGED <<hosts, requests, announced>>

Sweep == SweepBegin \/ SweepScan \/ (\E h \in Host : SweepStep(h)) \/ SweepFails \/ SweepEnd

-----------------------------------------------------------------------------
(* Administrators and the clock *)

Unused == {t \in 1..MaxToken : \A u \in Issued \cup {requests[q].token : q \in Request} : u < t}

\* host_token_rotate: a token never issued before.
RotateToken(h) ==
    /\ "rotate" \in Env /\ hosts[h].there
    /\ \E t \in Unused : SetHost(h, [hosts[h] EXCEPT !.token = t])
    /\ UNCHANGED <<requests, sweep, announced>>

\* host_edit_save: enabled.
SetEnabled(h) ==
    /\ "enable" \in Env /\ hosts[h].there
    /\ SetHost(h, [hosts[h] EXCEPT !.enabled = ~@])
    /\ UNCHANGED <<requests, sweep, announced>>

\* host_delete, and a new host that gets the id.
Delete(h) ==
    /\ "delete" \in Env /\ hosts[h].there
    /\ SetHost(h, [hosts[h] EXCEPT !.there = FALSE])
    /\ UNCHANGED <<requests, sweep, announced>>
Create(h) ==
    /\ ~hosts[h].there
    /\ \E t \in Unused : SetHost(h, NewHost(t))
    /\ announced' = [announced EXCEPT ![h] = FALSE]
    /\ UNCHANGED <<requests, sweep>>

Elapse ==
    /\ hosts' = [h \in Host |-> IF hosts[h].last < AgeCap
                                THEN [hosts[h] EXCEPT !.last = @ + 1] ELSE hosts[h]]
    /\ UNCHANGED <<requests, sweep, announced>>

\* What a dead process was doing is lost; the rows stay.
Crash ==
    /\ "crash" \in Env
    /\ requests' = [q \in Request |-> NoRequest]
    /\ sweep' = [phase |-> "sleep", todo |-> {}, late |-> {}]
    /\ UNCHANGED <<hosts, announced>>

Next == \/ \E q \in Request : PostReport(q) \/ Report(q)
        \/ Sweep
        \/ \E h \in Host : RotateToken(h) \/ SetEnabled(h) \/ Delete(h) \/ Create(h)
        \/ Elapse \/ Crash

Spec == Init /\ [][Next]_vars
\* The scheduler's loop runs; nothing is assumed of agents and administrators.
FairSpec == Spec /\ WF_vars(Sweep)

-----------------------------------------------------------------------------
(* Properties *)

\* Every variable has its type; a request past its look-up has a host.
TypeOK ==
    /\ hosts \in [Host -> HostRow]
    /\ requests \in [Request -> RequestState]
    /\ \A q \in Request : requests[q].pc \in {"body", "load", "write"} => requests[q].host \in Host
    /\ sweep \in SweepState
    /\ announced \in [Host -> BOOLEAN]

\* "Transition" dedup: no host is announced offline twice without a report in between, however
\* reports and the offline check interleave.
OncePerSilence == [][\A h \in Host :
    SweepStep(h) /\ hosts'[h].flagged /\ h \in sweep.late => ~announced[h]]_vars

\* What the gate of post_report has let in is still let in when it is stored: the reports of a
\* host are REPORT_MIN_INTERVAL apart, as README.md has it, and come with the token the host has,
\* as host_token_rotate has it. The code does not look again after it has waited for the body.
GateHolds == [][\A q \in Request : StoreWrite(q) =>
    LET h == hosts[requests[q].host]
    IN  h.last >= MinInterval /\ h.token = requests[q].token]_vars

\* A host that stays silent is flagged, unless it is disabled, deleted or reports (and neither
\* the process nor hosts under a sweep keep dying: then no sweep need ever end).
SilentIsFlagged == <>[][~Crash /\ ~SweepFails]_vars => \A h \in Host :
    hosts[h].last \in OfflineAge+1..AgeCap /\ hosts[h].enabled /\ hosts[h].there
        ~> \/ hosts[h].flagged \/ ~hosts[h].enabled \/ ~hosts[h].there
           \/ hosts[h].last \notin OfflineAge+1..AgeCap
=============================================================================
