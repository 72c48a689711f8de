---------------------------- MODULE NotifyProofs ----------------------------
(***************************************************************************)
(* Proofs about the alert queue, for any number of callers, alerts, worker *)
(* threads and any size of the queue.                                      *)
(*                                                                         *)
(* The number of threads follows from the lock: whoever is starting        *)
(* threads holds it, and what it has left to start and what runs add up    *)
(* (Starting).  That an alert is tried once follows from its whereabouts:  *)
(* it is with one caller, or once in the queue, or with one thread, and    *)
(* its fate says which (Places).                                           *)
(***************************************************************************)
EXTENDS Notify, FiniteSetTheorems, TLAPS

BusyCaller(c) == callers[c].pc # "idle"
BusyThread(t) == threads[t].pc \in {"telegram", "smtp"}

Starting ==
    /\ \A c \in Caller :
          /\ callers[c].pc = "starting" <=> lock = c
          /\ callers[c].pc = "starting" =>
                ~started /\ Cardinality(Alive) + callers[c].left = Workers
          /\ callers[c].pc = "put" => started
    /\ started => Cardinality(Alive) = Workers
    /\ ~started /\ lock = NoCaller => Alive = {}

\* Nobody but its holder tries an alert, and the holder once per channel.
Places ==
    /\ \A c \in Caller : BusyCaller(c) =>
          callers[c].alert \in Alert /\ fate[callers[c].alert] = "new"
    /\ \A c, d \in Caller : BusyCaller(c) /\ BusyCaller(d) /\ callers[c].alert = callers[d].alert
          => c = d
    /\ \A i \in 1..Len(queue) : fate[queue[i]] = "queued"
    /\ \A i, j \in 1..Len(queue) : queue[i] = queue[j] => i = j
    /\ \A t \in Thread : BusyThread(t) =>
          /\ threads[t].alert \in Alert /\ fate[threads[t].alert] = "queued"
          /\ \A i \in 1..Len(queue) : queue[i] # threads[t].alert
    /\ \A s, t \in Thread : BusyThread(s) /\ BusyThread(t) /\ threads[s].alert = threads[t].alert
          => s = t

Tries ==
    /\ \A a \in Alert, ch \in Channels :
          /\ fate[a] \in {"none", "new", "dropped"} => tries[a][ch] = 0
          /\ fate[a] = "handled" => tries[a][ch] = 1
          /\ tries[a][ch] <= 1
    /\ \A i \in 1..Len(queue) : \A ch \in Channels : tries[queue[i]][ch] = 0
    /\ \A t \in Thread : BusyThread(t) => \A ch \in Channels :
          tries[threads[t].alert][ch] = IF threads[t].pc = "smtp" /\ ch = "telegram" THEN 1 ELSE 0

-----------------------------------------------------------------------------

LEMMA InitTypeOK == Init => TypeOK
<1> SUFFICES ASSUME Init PROVE TypeOK
  OBVIOUS
<1>1. queue \in Seq(Alert)
  BY DEF Init
<1>2. Len(queue) <= QueueMax
  BY NotifyAssumption DEF Init
<1>3. callers \in [Caller -> CallerState]
  BY NotifyAssumption DEF Init, CallerState
<1>4. threads \in [Thread -> ThreadState]
  BY NotifyAssumption DEF Init, ThreadState
<1>5. fate \in [Alert -> Fate] /\ tries \in [Alert -> [Channels -> Nat]]
  BY DEF Init, Fate
<1> QED
  BY <1>1, <1>2, <1>3, <1>4, <1>5 DEF Init, TypeOK

LEMMA NextTypeOK == TypeOK /\ Places /\ [Next]_vars => TypeOK'
<1> SUFFICES ASSUME TypeOK, Places, [Next]_vars PROVE TypeOK'
  OBVIOUS
<1>1. queue' \in Seq(Alert) /\ Len(queue') <= QueueMax
  <2>0. QueueMax \in Nat /\ queue \in Seq(Alert) /\ Len(queue) <= QueueMax
    BY NotifyAssumption DEF TypeOK
  <2>1. ASSUME NEW c \in Caller, Put(c) PROVE queue' \in Seq(Alert) /\ Len(queue') <= QueueMax
    <3>1. callers[c].alert \in Alert
      BY <2>1 DEF Put, Places, BusyCaller
    <3> QED
      BY <2>0, <2>1, <3>1 DEF Put
  <2>2. ASSUME NEW t \in Thread, Get(t) PROVE queue' \in Seq(Alert) /\ Len(queue') <= QueueMax
    BY <2>0, <2>2 DEF Get
  <2>3. CASE UNCHANGED queue
    BY <2>0, <2>3
  <2> QED
    BY <2>1, <2>2, <2>3 DEF Next, Calling, Sending, SendAsync, EnsureWorkers, StartThread, StartDone,
       SendTelegram, SendSmtp, vars
<1>2. callers' \in [Caller -> CallerState]
  <2>0. ASSUME NEW c \in Caller, NEW pc \in {"idle", "ensure", "starting", "put"},
               NEW a \in 0..MaxAlert, NEW n \in 0..Workers, Goto(c, pc, a, n)
        PROVE  callers' \in [Caller -> CallerState]
    BY <2>0 DEF Goto, TypeOK, CallerState
  <2>1. ASSUME NEW c \in Caller PROVE callers[c].alert \in 0..MaxAlert /\ callers[c].left \in 0..Workers
    BY DEF TypeOK, CallerState
  <2>2. 0 \in 0..MaxAlert /\ 0 \in 0..Workers /\ Workers \in 0..Workers /\ Alert \subseteq 0..MaxAlert
    BY NotifyAssumption DEF Alert
  <2>3. ASSUME NEW c \in Caller, StartThread(c) PROVE callers[c].left - 1 \in 0..Workers
    BY <2>1, <2>3, NotifyAssumption DEF StartThread
  <2>4. ASSUME NEW c \in Caller, SendAsync(c) \/ EnsureWorkers(c) \/ StartDone(c) \/ Put(c)
        PROVE  callers' \in [Caller -> CallerState]
    BY <2>0, <2>1, <2>2, <2>4 DEF SendAsync, EnsureWorkers, StartDone, Put
  <2>5. ASSUME NEW c \in Caller, StartThread(c) PROVE callers' \in [Caller -> CallerState]
    BY <2>0, <2>1, <2>3, <2>5 DEF StartThread
  <2>6. CASE UNCHANGED callers
    BY <2>6 DEF TypeOK
  <2> QED
    BY <2>4, <2>5, <2>6 DEF Next, Calling, Sending, Get, SendTelegram, SendSmtp, vars
<1>3. threads' \in [Thread -> ThreadState]
  <2>0. ASSUME NEW t \in Thread, NEW pc \in {"get", "telegram", "smtp"}, NEW a \in 0..MaxAlert, Run(t, pc, a)
        PROVE  threads' \in [Thread -> ThreadState]
    BY <2>0 DEF Run, TypeOK, ThreadState
  <2>1. 0 \in 0..MaxAlert /\ Alert \subseteq 0..MaxAlert
    BY NotifyAssumption DEF Alert
  <2>2. ASSUME NEW c \in Caller, StartThread(c) PROVE threads' \in [Thread -> ThreadState]
    BY <2>0, <2>1, <2>2 DEF StartThread
  <2>3. ASSUME NEW t \in Thread, Get(t) PROVE threads' \in [Thread -> ThreadState]
    <3>1. Head(queue) \in Alert
      BY <2>3 DEF Get, TypeOK
    <3> QED
      BY <2>0, <2>1, <2>3, <3>1 DEF Get
  <2>4. ASSUME NEW t \in Thread, SendTelegram(t) \/ SendSmtp(t) PROVE threads' \in [Thread -> ThreadState]
    <3>1. threads[t].alert \in 0..MaxAlert
      BY DEF TypeOK, ThreadState
    <3> QED
      BY <2>0, <2>1, <2>4, <3>1 DEF SendTelegram, SendSmtp
  <2>5. CASE UNCHANGED threads
    BY <2>5 DEF TypeOK
  <2> QED
    BY <2>2, <2>3, <2>4, <2>5 DEF Next, Calling, Sending, SendAsync, EnsureWorkers, StartDone, Put, vars
<1>4. fate' \in [Alert -> Fate] /\ tries' \in [Alert -> [Channels -> Nat]]
  <2>0. fate \in [Alert -> Fate] /\ tries \in [Alert -> [Channels -> Nat]]
    BY DEF TypeOK
  <2>1. ASSUME NEW c \in Caller, SendAsync(c) \/ Put(c) PROVE fate' \in [Alert -> Fate]
    BY <2>0, <2>1 DEF SendAsync, Put, Fate
  <2>2. ASSUME NEW t \in Thread, SendSmtp(t) PROVE fate' \in [Alert -> Fate]
    BY <2>0, <2>2 DEF SendSmtp, Fate
  <2>3. ASSUME NEW t \in Thread, SendTelegram(t) \/ SendSmtp(t) PROVE tries' \in [Alert -> [Channels -> Nat]]
    <3>1. threads[t].alert \in Alert
      BY <2>3 DEF SendTelegram, SendSmtp, Places, BusyThread
    <3> QED
      BY <2>0, <2>3, <3>1 DEF Try, SendTelegram, SendSmtp
  <2> QED
    BY <2>0, <2>1, <2>2, <2>3 DEF Next, Calling, Sending, EnsureWorkers, StartThread, StartDone, SendAsync, Put,
       Get, SendTelegram, SendSmtp, vars
<1>5. started' \in BOOLEAN /\ lock' \in Caller \cup {NoCaller}
  BY DEF TypeOK, Next, Calling, Sending, SendAsync, EnsureWorkers, StartThread, StartDone, Put, Get,
     SendTelegram, SendSmtp, vars
<1> QED
  BY <1>1, <1>2, <1>3, <1>4, <1>5 DEF TypeOK

LEMMA AliveIsFinite == IsFiniteSet(Alive) /\ Cardinality(Alive) \in Nat
BY NotifyAssumption, FS_Subset, FS_CardinalityType DEF Alive

\* A thread that is started is one more; otherwise none begins and none ends.
LEMMA OneMoreAlive ==
  ASSUME TypeOK, NEW c \in Caller, StartThread(c)
  PROVE  Cardinality(Alive)' = Cardinality(Alive) + 1
<1>1. PICK t \in Thread \ Alive : Run(t, "get", 0)
  BY DEF StartThread
<1>2. Alive' = Alive \cup {t}
  BY <1>1 DEF Alive, Run, TypeOK
<1> QED
  BY <1>1, <1>2, AliveIsFinite, FS_AddElement

LEMMA SameAlive ==
  ASSUME TypeOK, NEW t \in Thread, Sending(t)
  PROVE  Alive' = Alive
<1>1. /\ threads[t].pc # "unborn"
      /\ \E pc \in {"get", "telegram", "smtp"} : \E a : Run(t, pc, a)
  BY DEF Sending, Get, SendTelegram, SendSmtp
<1>2. PICK pc \in {"get", "telegram", "smtp"} : \E a : Run(t, pc, a)
  BY <1>1
<1>3. PICK a : Run(t, pc, a)
  BY <1>2
<1> QED
  BY <1>1, <1>3 DEF Run, Alive, TypeOK

LEMMA InitStarting == Init => Starting
<1> SUFFICES ASSUME Init PROVE Starting
  OBVIOUS
<1>1. \A c \in Caller : callers[c].pc = "idle" /\ lock # c
  BY NotifyAssumption DEF Init
<1>2. ~started /\ Alive = {}
  BY DEF Init, Alive
<1> QED
  BY <1>1, <1>2 DEF Starting

LEMMA NextStarting == TypeOK /\ Starting /\ [Next]_vars => Starting'
<1> SUFFICES ASSUME TypeOK, Starting, [Next]_vars PROVE Starting'
  OBVIOUS
<1> USE NotifyAssumption
<1>0. callers \in [Caller -> CallerState] /\ lock \in Caller \cup {NoCaller} /\ started \in BOOLEAN
  BY DEF TypeOK
<1>1. ASSUME NEW c \in Caller, SendAsync(c) \/ Put(c) PROVE Starting'
  <2>1. Alive' = Alive
    BY <1>1 DEF SendAsync, Put, Alive
  <2>2. PICK pc \in {"ensure", "idle"}, a \in Nat : callers[c].pc # "starting" /\ Goto(c, pc, a, 0)
    BY <1>1 DEF SendAsync, Put, Alert
  <2> QED
    BY ONLY <1>0, <1>1, <2>1, <2>2, Starting DEF Goto, Starting, SendAsync, Put
<1>2. ASSUME NEW c \in Caller, EnsureWorkers(c) PROVE Starting'
  <2>1. Alive' = Alive
    BY <1>2 DEF EnsureWorkers, Alive
  <2>2. ~started => Cardinality(Alive) = 0
    BY <1>2, FS_EmptySet DEF EnsureWorkers, Starting
  <2>3. CASE started
    BY <1>0, <1>2, <2>1, <2>3 DEF Goto, Starting, EnsureWorkers
  <2>4. CASE ~started
    BY <1>0, <1>2, <2>1, <2>2, <2>4 DEF Goto, Starting, EnsureWorkers
  <2> QED
    BY <2>3, <2>4
<1>3. ASSUME NEW c \in Caller, StartThread(c) PROVE Starting'
  <2>1. Cardinality(Alive)' = Cardinality(Alive) + 1
    BY <1>3, OneMoreAlive
  <2>2. callers[c].left \in Nat /\ lock = c
    BY <1>0, <1>3 DEF CallerState, Starting, StartThread
  <2> QED
    BY <1>0, <1>3, <2>1, <2>2, AliveIsFinite DEF Goto, Starting, StartThread
<1>4. ASSUME NEW c \in Caller, StartDone(c) PROVE Starting'
  <2>1. Alive' = Alive
    BY <1>4 DEF StartDone, Alive
  <2>2. Cardinality(Alive) = Workers
    BY <1>4, AliveIsFinite DEF Starting, StartDone
  <2> QED
    BY <1>0, <1>4, <2>1, <2>2 DEF Goto, Starting, StartDone
<1>5. ASSUME NEW t \in Thread, Sending(t) PROVE Starting'
  <2>1. Alive' = Alive
    BY <1>5, SameAlive
  <2> QED
    BY <1>5, <2>1 DEF Starting, Sending, Get, SendTelegram, SendSmtp
<1>6. CASE UNCHANGED vars
  BY <1>6 DEF vars, Starting, Alive
<1> QED
  BY <1>1, <1>2, <1>3, <1>4, <1>5, <1>6 DEF Next, Calling

-----------------------------------------------------------------------------
(* Where an alert is *)

LEMMA InitPlaces == Init => Places /\ Tries
BY DEF Init, Places, Tries, BusyCaller, BusyThread

\* A caller on its way through _ensure_workers keeps its alert.
LEMMA EnsureMovesNothing ==
  ASSUME TypeOK, NEW c \in Caller, EnsureWorkers(c) \/ StartThread(c) \/ StartDone(c)
  PROVE  /\ \A d \in Caller : BusyCaller(d)' = BusyCaller(d) /\ callers'[d].alert = callers[d].alert
         /\ \A t \in Thread : BusyThread(t)' = BusyThread(t) /\ (BusyThread(t) => threads'[t] = threads[t])
         /\ UNCHANGED <<queue, fate, tries>>
<1>1. \A d \in Caller : BusyCaller(d)' = BusyCaller(d) /\ callers'[d].alert = callers[d].alert
  <2>1. PICK pc \in {"starting", "put"} :
           BusyCaller(c) /\ \E n : Goto(c, pc, callers[c].alert, n)
    BY DEF EnsureWorkers, StartThread, StartDone, BusyCaller
  <2>2. PICK n : Goto(c, pc, callers[c].alert, n)
    BY <2>1
  <2> QED
    BY <2>1, <2>2 DEF Goto, BusyCaller, TypeOK
<1>2. \A t \in Thread : BusyThread(t)' = BusyThread(t) /\ (BusyThread(t) => threads'[t] = threads[t])
  <2>1. CASE UNCHANGED threads
    BY <2>1 DEF BusyThread
  <2>2. CASE \E t \in Thread \ Alive : Run(t, "get", 0)
    BY <2>2 DEF BusyThread, Run, Alive, TypeOK
  <2> QED
    BY <2>1, <2>2 DEF EnsureWorkers, StartThread, StartDone
<1> QED
  BY <1>1, <1>2 DEF EnsureWorkers, StartThread, StartDone

LEMMA NextPlaces == TypeOK /\ Places /\ Tries /\ [Next]_vars => Places' /\ Tries'
<1> SUFFICES ASSUME TypeOK, Places, Tries, [Next]_vars PROVE Places' /\ Tries'
  OBVIOUS
<1>0. /\ callers \in [Caller -> CallerState] /\ threads \in [Thread -> ThreadState]
      /\ queue \in Seq(Alert) /\ fate \in [Alert -> Fate] /\ tries \in [Alert -> [Channels -> Nat]]
  BY DEF TypeOK
<1>1. ASSUME NEW c \in Caller, SendAsync(c) PROVE Places' /\ Tries'
  <2>1. PICK a \in Alert : fate[a] = "none" /\ Goto(c, "ensure", a, 0) /\ fate' = [fate EXCEPT ![a] = "new"]
    <3>1. PICK a \in Alert : /\ \A b \in Alert : fate[b] = "none" <=> b >= a
                             /\ Goto(c, "ensure", a, 0) /\ fate' = [fate EXCEPT ![a] = "new"]
      BY <1>1 DEF SendAsync
    <3>2. a >= a
      BY DEF Alert
    <3> QED
      BY <3>1, <3>2
  <2>2. /\ callers'[c].pc = "ensure" /\ callers'[c].alert = a
        /\ \A d \in Caller \ {c} : callers'[d] = callers[d]
    BY <1>0, <2>1 DEF Goto
  <2>3. fate'[a] = "new" /\ \A b \in Alert \ {a} : fate'[b] = fate[b]
    BY <1>0, <2>1
  <2>4. UNCHANGED <<queue, threads, tries>>
    BY <1>1 DEF SendAsync
  <2>5. \A i \in 1..Len(queue) : queue[i] \in Alert
    BY <1>0
  <2>6. Places'
    BY ONLY <2>1, <2>2, <2>3, <2>4, <2>5, Places DEF Places, BusyCaller, BusyThread
  <2>7. Tries'
    BY ONLY <2>1, <2>2, <2>3, <2>4, Tries DEF Tries, BusyThread
  <2> QED
    BY <2>6, <2>7
<1>2. ASSUME NEW c \in Caller, EnsureWorkers(c) \/ StartThread(c) \/ StartDone(c) PROVE Places' /\ Tries'
  <2>1. /\ \A d \in Caller : BusyCaller(d)' = BusyCaller(d) /\ callers'[d].alert = callers[d].alert
        /\ \A t \in Thread : BusyThread(t)' = BusyThread(t) /\ (BusyThread(t) => threads'[t] = threads[t])
        /\ UNCHANGED <<queue, fate, tries>>
    BY <1>2, EnsureMovesNothing
  <2>2. Places'
    BY ONLY <2>1, Places DEF Places
  <2>3. Tries'
    BY ONLY <2>1, Tries DEF Tries
  <2> QED
    BY <2>2, <2>3
<1>3. ASSUME NEW c \in Caller, Put(c) PROVE Places' /\ Tries'
  <2> DEFINE a == callers[c].alert
  <2>1. a \in Alert /\ fate[a] = "new" /\ BusyCaller(c)
    BY <1>3 DEF Put, Places, BusyCaller
  <2>2. callers'[c].pc = "idle" /\ \A d \in Caller \ {c} : callers'[d] = callers[d]
    BY <1>0, <1>3 DEF Put, Goto
  <2>3. fate'[a] \in {"queued", "dropped"} /\ \A b \in Alert \ {a} : fate'[b] = fate[b]
    BY <1>0, <1>3, <2>1 DEF Put
  <2>4. UNCHANGED <<threads, tries>>
    BY <1>3 DEF Put
  <2>5. \A i \in 1..Len(queue) : queue[i] \in Alert /\ queue[i] # a
    BY <1>0, <2>1 DEF Places
  <2>6. \/ fate'[a] = "queued" /\ Len(queue') = Len(queue) + 1 /\ queue'[Len(queue) + 1] = a
           /\ \A i \in 1..Len(queue) : queue'[i] = queue[i]
        \/ UNCHANGED queue
    <3>1. CASE Len(queue) < QueueMax
      <4>1. queue' = Append(queue, a) /\ fate' = [fate EXCEPT ![a] = "queued"]
        BY <1>3, <3>1 DEF Put
      <4>2. fate'[a] = "queued"
        BY <1>0, <2>1, <4>1
      <4> QED
        BY <1>0, <2>1, <4>1, <4>2
    <3>2. CASE ~(Len(queue) < QueueMax)
      BY <1>3, <3>2 DEF Put
    <3> QED
      BY <3>1, <3>2
  <2>7. Len(queue) \in Nat
    BY <1>0
  <2> HIDE DEF a
  <2>8. Places'
    <3>1. \A d \in Caller : BusyCaller(d)' => d # c /\ BusyCaller(d) /\ callers'[d] = callers[d]
      BY <2>2 DEF BusyCaller
    <3>2. \A d \in Caller : BusyCaller(d) /\ d # c => callers[d].alert # a
      BY <2>1 DEF Places, a
    <3>3. \A t \in Thread : BusyThread(t)' = BusyThread(t) /\ (BusyThread(t) => threads[t].alert # a)
      BY <2>1, <2>4 DEF Places, BusyThread
    <3>4. \A d \in Caller : BusyCaller(d)' =>
             callers'[d].alert \in Alert /\ fate'[callers'[d].alert] = "new"
      BY <2>3, <3>1, <3>2 DEF Places
    <3>5. \A d, e \in Caller : BusyCaller(d)' /\ BusyCaller(e)' /\ callers'[d].alert = callers'[e].alert
             => d = e
      BY <3>1 DEF Places
    <3>6. /\ \A i \in 1..Len(queue') : fate'[queue'[i]] = "queued"
          /\ \A i, j \in 1..Len(queue') : queue'[i] = queue'[j] => i = j
      BY <2>3, <2>5, <2>6, <2>7 DEF Places
    <3>7. \A t \in Thread : BusyThread(t)' =>
             /\ threads'[t].alert \in Alert /\ fate'[threads'[t].alert] = "queued"
             /\ \A i \in 1..Len(queue') : queue'[i] # threads'[t].alert
      BY <2>3, <2>4, <2>6, <2>7, <3>3 DEF Places
    <3>8. \A s, t \in Thread : BusyThread(s)' /\ BusyThread(t)' /\ threads'[s].alert = threads'[t].alert
             => s = t
      BY <2>4, <3>3 DEF Places
    <3> QED
      BY <3>4, <3>5, <3>6, <3>7, <3>8 DEF Places
  <2>9. Tries'
    <3>1. \A ch \in Channels : tries[a][ch] = 0
      BY <2>1 DEF Tries
    <3>2. \A b \in Alert, ch \in Channels :
            /\ fate'[b] \in {"none", "new", "dropped"} => tries[b][ch] = 0
            /\ fate'[b] = "handled" => tries[b][ch] = 1
            /\ tries[b][ch] <= 1
      BY <2>1, <2>3, <3>1 DEF Tries
    <3>3. \A i \in 1..Len(queue') : \A ch \in Channels : tries[queue'[i]][ch] = 0
      BY <2>6, <2>7, <3>1 DEF Tries
    <3> QED
      BY ONLY <2>4, <3>2, <3>3, Tries DEF Tries, BusyThread
  <2> QED
    BY <2>8, <2>9
<1>4. ASSUME NEW t \in Thread, Get(t) PROVE Places' /\ Tries'
  <2> DEFINE a == Head(queue)
  <2>1. Len(queue) \in Nat \ {0} /\ a = queue[1] /\ a \in Alert
    BY <1>0, <1>4 DEF Get
  <2>2. Len(queue') = Len(queue) - 1 /\ \A i \in 1..Len(queue') : queue'[i] = queue[i + 1]
    BY <1>0, <1>4 DEF Get
  <2>3. threads'[t] = [pc |-> "telegram", alert |-> a] /\ \A s \in Thread \ {t} : threads'[s] = threads[s]
    BY <1>0, <1>4 DEF Get, Run
  <2>4. UNCHANGED <<callers, fate, tries>>
    BY <1>4 DEF Get
  <2> HIDE DEF a
  <2>5. fate[a] = "queued" /\ \A ch \in Channels : tries[a][ch] = 0
    BY <2>1 DEF Places, Tries
  <2>6. \A i \in 1..Len(queue') : i + 1 \in 1..Len(queue) /\ queue'[i] # a
    BY <2>1, <2>2 DEF Places
  <2>7. \A s \in Thread \ {t} : BusyThread(s)' = BusyThread(s) /\ (BusyThread(s) => threads[s].alert # a)
    BY <2>1, <2>3 DEF Places, BusyThread
  <2>8. Places'
    <3>1. /\ \A i \in 1..Len(queue') : fate'[queue'[i]] = "queued"
          /\ \A i, j \in 1..Len(queue') : queue'[i] = queue'[j] => i = j
      BY <2>1, <2>2, <2>4, <2>6 DEF Places
    <3>2. \A s \in Thread : BusyThread(s)' =>
             /\ threads'[s].alert \in Alert /\ fate'[threads'[s].alert] = "queued"
             /\ \A i \in 1..Len(queue') : queue'[i] # threads'[s].alert
      BY <2>1, <2>2, <2>3, <2>4, <2>5, <2>6, <2>7 DEF Places
    <3>3. \A s, u \in Thread : BusyThread(s)' /\ BusyThread(u)' /\ threads'[s].alert = threads'[u].alert
             => s = u
      BY <2>3, <2>7 DEF Places
    <3> QED
      BY <2>4, <3>1, <3>2, <3>3 DEF Places, BusyCaller
  <2>9. Tries'
    <3>1. \A s \in Thread : BusyThread(s)' => \A ch \in Channels :
            tries'[threads'[s].alert][ch] = IF threads'[s].pc = "smtp" /\ ch = "telegram" THEN 1 ELSE 0
      BY <2>3, <2>4, <2>5, <2>7 DEF Tries
    <3>2. \A i \in 1..Len(queue') : \A ch \in Channels : tries'[queue'[i]][ch] = 0
      BY <2>2, <2>4, <2>6 DEF Tries
    <3> QED
      BY <2>4, <3>1, <3>2 DEF Tries
  <2> QED
    BY <2>8, <2>9
<1>5. ASSUME NEW t \in Thread, SendTelegram(t) PROVE Places' /\ Tries'
  <2> DEFINE a == threads[t].alert
  <2>1. BusyThread(t) /\ a \in Alert /\ fate[a] = "queued" /\ threads[t].pc = "telegram"
    BY <1>5 DEF SendTelegram, Places, BusyThread
  <2>2. threads'[t] = [pc |-> "smtp", alert |-> a] /\ \A s \in Thread \ {t} : threads'[s] = threads[s]
    BY <1>0, <1>5 DEF SendTelegram, Run
  <2>3. UNCHANGED <<callers, queue, fate>>
    BY <1>5 DEF SendTelegram
  <2>4. /\ \A b \in Alert \ {a} : tries'[b] = tries[b]
        /\ \A ch \in Channels : tries'[a][ch] = IF ch = "telegram" THEN tries[a][ch] + 1 ELSE tries[a][ch]
    BY <1>0, <1>5, <2>1 DEF SendTelegram, Try
  <2>5. \A ch \in Channels : tries[a][ch] = 0
    BY <2>1 DEF Tries
  <2>6. \A s \in Thread \ {t} : BusyThread(s)' = BusyThread(s)
                                /\ (BusyThread(s) => threads[s].alert # a /\ threads[s].alert \in Alert)
    BY <2>1, <2>2 DEF Places, BusyThread
  <2>7. \A i \in 1..Len(queue) : queue[i] # a /\ queue[i] \in Alert
    BY <1>0, <2>1 DEF Places
  <2> HIDE DEF a
  <2>8. Places'
    <3>1. \A s \in Thread : BusyThread(s)' => BusyThread(s) /\ threads'[s].alert = threads[s].alert
      BY <2>1, <2>2, <2>6 DEF a
    <3> QED
      BY <2>3, <3>1 DEF Places, BusyCaller
  <2>9. Tries'
    <3>1. \A b \in Alert, ch \in Channels :
            /\ fate[b] \in {"none", "new", "dropped"} => tries'[b][ch] = 0
            /\ fate[b] = "handled" => tries'[b][ch] = 1
            /\ tries'[b][ch] <= 1
      BY <2>1, <2>4, <2>5 DEF Tries
    <3>2. \A i \in 1..Len(queue) : \A ch \in Channels : tries'[queue[i]][ch] = 0
      BY <2>4, <2>7 DEF Tries
    <3>3. \A s \in Thread : BusyThread(s)' => \A ch \in Channels :
            tries'[threads'[s].alert][ch] = IF threads'[s].pc = "smtp" /\ ch = "telegram" THEN 1 ELSE 0
      BY <2>2, <2>4, <2>5, <2>6 DEF Tries
    <3> QED
      BY <2>3, <3>1, <3>2, <3>3 DEF Tries
  <2> QED
    BY <2>8, <2>9
<1>6. ASSUME NEW t \in Thread, SendSmtp(t) PROVE Places' /\ Tries'
  <2> DEFINE a == threads[t].alert
  <2>1. BusyThread(t) /\ a \in Alert /\ fate[a] = "queued" /\ threads[t].pc = "smtp"
    BY <1>6 DEF SendSmtp, Places, BusyThread
  <2>2. ~BusyThread(t)' /\ \A s \in Thread \ {t} : threads'[s] = threads[s]
    BY <1>0, <1>6 DEF SendSmtp, Run, BusyThread
  <2>3. UNCHANGED <<callers, queue>>
    BY <1>6 DEF SendSmtp
  <2>4. /\ \A b \in Alert \ {a} : tries'[b] = tries[b] /\ fate'[b] = fate[b]
        /\ fate'[a] = "handled"
        /\ \A ch \in Channels : tries'[a][ch] = IF ch = "smtp" THEN tries[a][ch] + 1 ELSE tries[a][ch]
    BY <1>0, <1>6, <2>1 DEF SendSmtp, Try
  <2>5. \A ch \in Channels : tries'[a][ch] = 1
    BY <2>1, <2>4, NotifyAssumption DEF Tries
  <2>6. \A s \in Thread \ {t} : BusyThread(s)' = BusyThread(s)
                                /\ (BusyThread(s) => threads[s].alert # a /\ threads[s].alert \in Alert)
    BY <2>1, <2>2 DEF Places, BusyThread
  <2>7. \A i \in 1..Len(queue) : queue[i] # a /\ queue[i] \in Alert
    BY <1>0, <2>1 DEF Places
  <2>8. \A c \in Caller : BusyCaller(c) => callers[c].alert # a
    BY <2>1 DEF Places
  <2> HIDE DEF a
  <2>9. Places'
    <3>1. \A s \in Thread : BusyThread(s)' => s # t /\ BusyThread(s) /\ threads'[s] = threads[s]
      BY <2>2, <2>6
    <3>2. \A c \in Caller : BusyCaller(c)' = BusyCaller(c)
      BY <2>3 DEF BusyCaller
    <3>3. \A i \in 1..Len(queue') : fate'[queue'[i]] = "queued"
      BY <2>3, <2>4, <2>7 DEF Places
    <3>4. \A c \in Caller : BusyCaller(c)' =>
             callers'[c].alert \in Alert /\ fate'[callers'[c].alert] = "new"
      BY <2>3, <2>4, <2>8, <3>2 DEF Places
    <3>5. \A s \in Thread : BusyThread(s)' =>
             threads'[s].alert \in Alert /\ fate'[threads'[s].alert] = "queued"
      BY <2>4, <2>6, <3>1 DEF Places
    <3> QED
      BY ONLY <2>3, <3>1, <3>2, <3>3, <3>4, <3>5, Places DEF Places
  <2>10. Tries'
    <3>1. \A b \in Alert, ch \in Channels :
            /\ fate'[b] \in {"none", "new", "dropped"} => tries'[b][ch] = 0
            /\ fate'[b] = "handled" => tries'[b][ch] = 1
            /\ tries'[b][ch] <= 1
      BY <2>4, <2>5 DEF Tries
    <3>2. \A i \in 1..Len(queue) : \A ch \in Channels : tries'[queue[i]][ch] = 0
      BY <2>4, <2>7 DEF Tries
    <3>3. \A s \in Thread : BusyThread(s)' => \A ch \in Channels :
            tries'[threads'[s].alert][ch] = IF threads'[s].pc = "smtp" /\ ch = "telegram" THEN 1 ELSE 0
      BY <2>2, <2>4, <2>6 DEF Tries
    <3> QED
      BY <2>3, <3>1, <3>2, <3>3 DEF Tries
  <2> QED
    BY <2>9, <2>10
<1>7. CASE UNCHANGED vars
  BY <1>7 DEF vars, Places, Tries, BusyCaller, BusyThread
<1> QED
  BY <1>1, <1>2, <1>3, <1>4, <1>5, <1>6, <1>7 DEF Next, Calling, Sending

-----------------------------------------------------------------------------

LEMMA Invariant == Spec => [](TypeOK /\ Starting /\ Places /\ Tries)
<1>1. Init => TypeOK /\ Starting /\ Places /\ Tries
  BY InitTypeOK, InitStarting, InitPlaces
<1>2. TypeOK /\ Starting /\ Places /\ Tries /\ [Next]_vars => (TypeOK /\ Starting /\ Places /\ Tries)'
  BY NextTypeOK, NextStarting, NextPlaces
<1> QED
  BY <1>1, <1>2, PTL DEF Spec

\* Whatever the callers and threads, exactly _WORKERS threads are started: the second
\* caller of _ensure_workers waits for the first, and sees them all.
THEOREM ExactlyWorkers == Spec => []BoundedWorkers
<1>1. TypeOK /\ Starting => BoundedWorkers
  <2> SUFFICES ASSUME TypeOK, Starting PROVE BoundedWorkers
    OBVIOUS
  <2>1. CASE started
    BY <2>1, NotifyAssumption DEF Starting, BoundedWorkers
  <2>2. CASE \E c \in Caller : callers[c].pc = "starting"
    <3>1. PICK c \in Caller : callers[c].pc = "starting"
      BY <2>2
    <3>2. ~started /\ Cardinality(Alive) + callers[c].left = Workers
      BY <3>1 DEF Starting
    <3>3. callers[c].left \in Nat /\ Cardinality(Alive) \in Nat
      BY AliveIsFinite DEF TypeOK, CallerState
    <3> QED
      BY <3>2, <3>3, NotifyAssumption DEF Starting, BoundedWorkers
  <2>3. CASE ~started /\ lock = NoCaller
    <3>1. Cardinality(Alive) = 0
      BY <2>3, FS_EmptySet DEF Starting
    <3> QED
      BY <2>3, <3>1, NotifyAssumption DEF Starting, BoundedWorkers
  <2> QED
    BY <2>1, <2>2, <2>3 DEF TypeOK, Starting
<1> QED
  BY <1>1, Invariant, PTL

\* Whichever way the threads interleave, and whatever a channel answers, an alert is
\* tried once on each channel at most, and never after the full queue dropped it.
THEOREM AtMostOnce == Spec => []TriedOnce
<1>1. TypeOK /\ Tries => TriedOnce
  <2> SUFFICES ASSUME TypeOK, Tries, NEW a \in Alert, NEW ch \in Channels
               PROVE  tries[a][ch] <= (IF fate[a] \in {"queued", "handled"} THEN 1 ELSE 0)
    BY DEF TriedOnce
  <2>1. fate[a] \in Fate
    BY DEF TypeOK
  <2> QED
    BY <2>1 DEF Tries, Fate
<1> QED
  BY <1>1, Invariant, PTL

\* An alert that a thread is done with was tried on every channel.
THEOREM OnEveryChannel == Spec => []HandledOnAll
<1>1. Tries => HandledOnAll
  BY DEF Tries, HandledOnAll
<1> QED
  BY <1>1, Invariant, PTL
=============================================================================
