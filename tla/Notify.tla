------------------------------- MODULE Notify -------------------------------
(***************************************************************************)
(* app/notify.py: send_async hands an alert to a bounded queue and         *)
(* returns; _WORKERS daemon threads, started on first use under a lock,    *)
(* take alerts and try every configured channel.                           *)
(*                                                                         *)
(* Alerts are numbered in the order in which send_async is called.         *)
(* A definition just before the one it varies (as EnsureWithoutLock stands *)
(* before EnsureWorkers, ...) is a wrong variant; Next uses none of them.  *)
(***************************************************************************)
EXTENDS Integers, Sequences, FiniteSets

CONSTANTS
    Caller,       \* threads that call send_async (checks, scheduler, reports)
    Thread,       \* identities of the worker threads that can be created
    Workers,      \* _WORKERS
    QueueMax,     \* _QUEUE_MAX
    Channels,     \* the configured channels
    MaxAlert,     \* bound on the number of alerts
    NoCaller

ASSUME NotifyAssumption ==
    /\ Workers \in Nat /\ QueueMax \in Nat \ {0} /\ MaxAlert \in Nat
    /\ Channels \subseteq {"telegram", "smtp"}
    /\ NoCaller \notin Caller
    /\ IsFiniteSet(Thread)

VARIABLES
    callers,   \* each caller's place in send_async / _ensure_workers
    started,   \* _workers_started
    lock,      \* holder of _workers_lock
    queue,     \* _queue
    threads,   \* each worker thread's place in _worker
    fate,      \* what became of each alert (history)
    tries      \* how often each channel was tried for an alert (history)

vars == <<callers, started, lock, queue, threads, fate, tries>>

Alert == 1..MaxAlert
Fate == {"none", "new", "queued", "dropped", "handled"}
CallerState == [pc : {"idle", "ensure", "starting", "put"}, alert : 0..MaxAlert, left : 0..Workers]
ThreadState == [pc : {"unborn", "get", "telegram", "smtp"}, alert : 0..MaxAlert]

\* callers or threads after c, or t, has got to pc.
Goto(c, pc, alert, left) ==
    callers' = [callers EXCEPT ![c] = [pc |-> pc, alert |-> alert, left |-> left]]
Run(t, pc, alert) == threads' = [threads EXCEPT ![t] = [pc |-> pc, alert |-> alert]]

Alive == {t \in Thread : threads[t].pc # "unborn"}

Init ==
    /\ callers = [c \in Caller |-> [pc |-> "idle", alert |-> 0, left |-> 0]]
    /\ started = FALSE
    /\ lock = NoCaller
    /\ queue = <<>>
    /\ threads = [t \in Thread |-> [pc |-> "unborn", alert |-> 0]]
    /\ fate = [a \in Alert |-> "none"]
    /\ tries = [a \in Alert |-> [ch \in Channels |-> 0]]

-----------------------------------------------------------------------------
(* send_async *)

SendAsync(c) ==
    /\ callers[c].pc = "idle"
    /\ \E a \in Alert :
          /\ \A b \in Alert : fate[b] = "none" <=> b >= a
          /\ Goto(c, "ensure", a, 0)
          /\ fate' = [fate EXCEPT ![a] = "new"]
    /\ UNCHANGED <<started, lock, queue, threads, tries>>

\* _ensure_workers: take the lock; leave it at once when the threads exist.
EnsureWithoutLock(c) ==
    /\ callers[c].pc = "ensure"
    /\ IF started THEN Goto(c, "put", callers[c].alert, 0)
                  ELSE Goto(c, "starting", callers[c].alert, Workers)
    /\ lock' = lock
    /\ UNCHANGED <<started, queue, threads, fate, tries>>
EnsureWorkers(c) ==
    /\ callers[c].pc = "ensure"
    /\ lock = NoCaller
    /\ IF started THEN Goto(c, "put", callers[c].alert, 0)
                  ELSE Goto(c, "starting", callers[c].alert, Workers)
    /\ lock' = IF started THEN NoCaller ELSE c
    /\ UNCHANGED <<started, queue, threads, fate, tries>>

\* The loop that creates the threads, ...
StartThread(c) ==
    /\ callers[c].pc = "starting" /\ callers[c].left > 0
    /\ \E t \in Thread \ Alive : Run(t, "get", 0)
    /\ Goto(c, "starting", callers[c].alert, callers[c].left - 1)
    /\ UNCHANGED <<started, lock, queue, fate, tries>>

\* ... and its end, which releases the lock.
StartDone(c) ==
    /\ callers[c].pc = "starting" /\ callers[c].left = 0
    /\ started' = TRUE
    /\ lock' = NoCaller
    /\ Goto(c, "put", callers[c].alert, 0)
    /\ UNCHANGED <<queue, threads, fate, tries>>

\* put_nowait; a full queue loses the alert, the caller goes on.
PutWaits(c) ==
    /\ callers[c].pc = "put" /\ Len(queue) < QueueMax
    /\ queue' = Append(queue, callers[c].alert)
    /\ fate' = [fate EXCEPT ![callers[c].alert] = "queued"]
    /\ Goto(c, "idle", 0, 0)
    /\ UNCHANGED <<started, lock, threads, tries>>
Put(c) ==
    /\ callers[c].pc = "put"
    /\ LET a == callers[c].alert
       IN  IF Len(queue) < QueueMax
           THEN queue' = Append(queue, a) /\ fate' = [fate EXCEPT ![a] = "queued"]
           ELSE UNCHANGED queue /\ fate' = [fate EXCEPT ![a] = "dropped"]
    /\ Goto(c, "idle", 0, 0)
    /\ UNCHANGED <<started, lock, threads, tries>>

-----------------------------------------------------------------------------
(* _worker and _send *)

GetKeepsAlert(t) ==
    /\ threads[t].pc = "get" /\ queue # <<>>
    /\ Run(t, "telegram", Head(queue))
    /\ UNCHANGED <<callers, started, lock, queue, fate, tries>>
Get(t) ==
    /\ threads[t].pc = "get" /\ queue # <<>>
    /\ queue' = Tail(queue)
    /\ Run(t, "telegram", Head(queue))
    /\ UNCHANGED <<callers, started, lock, fate, tries>>

Try(a, ch) == tries' = IF ch \in Channels THEN [tries EXCEPT ![a][ch] = @ + 1] ELSE tries

\* Delivered or not: a channel's exception becomes a result string, so both
\* outcomes lead on to the next channel.
TelegramMaySkipSmtp(t) ==
    /\ threads[t].pc = "telegram"
    /\ Try(threads[t].alert, "telegram")
    /\ \/ Run(t, "smtp", threads[t].alert) /\ UNCHANGED fate
       \/ /\ Run(t, "get", 0)
          /\ fate' = [fate EXCEPT ![threads[t].alert] = "handled"]
    /\ UNCHANGED <<callers, started, lock, queue>>
TelegramMayKill(t) ==
    /\ threads[t].pc = "telegram"
    /\ Try(threads[t].alert, "telegram")
    /\ \E pc \in {"smtp", "unborn"} : Run(t, pc, threads[t].alert)
    /\ UNCHANGED <<callers, started, lock, queue, fate>>
SendTelegram(t) ==
    /\ threads[t].pc = "telegram"
    /\ Try(threads[t].alert, "telegram")
    /\ Run(t, "smtp", threads[t].alert)
    /\ UNCHANGED <<callers, started, lock, queue, fate>>

SendSmtp(t) ==
    /\ threads[t].pc = "smtp"
    /\ Try(threads[t].alert, "smtp")
    /\ Run(t, "get", 0)
    /\ fate' = [fate EXCEPT ![threads[t].alert] = "handled"]
    /\ UNCHANGED <<callers, started, lock, queue>>

-----------------------------------------------------------------------------

Calling(c) == EnsureWorkers(c) \/ StartThread(c) \/ StartDone(c) \/ Put(c)
Sending(t) == Get(t) \/ SendTelegram(t) \/ SendSmtp(t)

Next == \/ \E c \in Caller : SendAsync(c) \/ Calling(c)
        \/ \E t \in Thread : Sending(t)

Spec == Init /\ [][Next]_vars

\* Callers and worker threads run; every network call has a time-out.
CallerFairness == \A c \in Caller : WF_vars(Calling(c))
ThreadFairness == \A t \in Thread : WF_vars(Sending(t))

\* The worker threads may be stuck in a network call for ever.
StuckSpec == Spec /\ CallerFairness

-----------------------------------------------------------------------------
(* Properties *)

\* Every variable has its type and the queue its bound.
TypeOK ==
    /\ callers \in [Caller -> CallerState]
    /\ started \in BOOLEAN
    /\ lock \in Caller \cup {NoCaller}
    /\ queue \in Seq(Alert) /\ Len(queue) <= QueueMax
    /\ threads \in [Thread -> ThreadState]
    /\ fate \in [Alert -> Fate]
    /\ tries \in [Alert -> [Channels -> Nat]]

\* However many callers come first at once, no more than _WORKERS threads run,
\* and no alert is handed over before all of them do.
BoundedWorkers ==
    /\ Cardinality(Alive) <= Workers
    /\ \A c \in Caller : callers[c].pc = "put" => Cardinality(Alive) = Workers

\* No alert is in two places: tried at most once on a channel, whatever the
\* worker threads do, and never after it was dropped.
TriedOnce == \A a \in Alert, ch \in Channels :
    tries[a][ch] <= (IF fate[a] \in {"queued", "handled"} THEN 1 ELSE 0)

\* A handled alert was tried on every channel: a failing one does not keep the
\* next from being tried.
HandledOnAll == \A a \in Alert : fate[a] = "handled" => \A ch \in Channels : tries[a][ch] = 1

\* send_async returns although no alert may ever be sent: delivery does not
\* hold up checks, scheduler or reports.
CallersReturn == \A c \in Caller : callers[c].pc # "idle" ~> callers[c].pc = "idle"

\* As long as the worker threads run, an alert in the queue is handled in the
\* end: none of them dies of a failing channel.
QueuedIsHandled == ThreadFairness => \A a \in Alert : fate[a] = "queued" ~> fate[a] = "handled"
=============================================================================
