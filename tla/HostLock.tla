------------------------------ MODULE HostLock ------------------------------
(***************************************************************************)
(* What the double guard of run_ssh_check promises, without check_runs:    *)
(* a host is held by at most one check at a time.  A check acquires a free *)
(* host; holds end when the check finishes or when they are taken away     *)
(* (time-out, start-up reset, deletion), several hosts in one transaction. *)
(***************************************************************************)
CONSTANTS Host, Check

VARIABLE holders       \* host -> the checks holding it

HLInit == holders = [h \in Host |-> {}]

\* A check starts on a host nobody holds.
Acquire(h, c) ==
    /\ holders[h] = {}
    /\ holders' = [holders EXCEPT ![h] = {c}]

\* The holds on a set of hosts end.
Release(H) == holders' = [h \in Host |-> IF h \in H THEN {} ELSE holders[h]]

HLNext == \/ \E h \in Host, c \in Check : Acquire(h, c)
          \/ \E H \in SUBSET Host : Release(H)

HLSpec == HLInit /\ [][HLNext]_holders
=============================================================================
