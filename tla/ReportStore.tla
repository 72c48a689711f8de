---------------------------- MODULE ReportStore ----------------------------
(***************************************************************************)
(* What save_report (app/checker.py) stores of a report besides the row of *)
(* the run: the results, the recent changes (_record_changes) and the      *)
(* version axis (_record_versions, _trim_versions); the backfill of the    *)
(* axis at start-up (rebuild_versions), the switches of single items       *)
(* (app/routes/items_routes.py), the retention cleanup and the deletion of *)
(* a host.                                                                 *)
(*                                                                         *)
(* A save is one database transaction, hence one action.  A report is a    *)
(* function from the items it lists to status and description.  Reports of *)
(* a host are saved in the order of their runs (a check that was given up  *)
(* as stale and ends late is RunLifecycle's concern); all hosts are of one *)
(* family, so that one set of switched off items applies to them.  Of      *)
(* result_changes only the rows of the newest save are kept.               *)
(* A definition just before the one it varies (FirstVersion, ...) is a     *)
(* wrong variant; Next uses none.                                          *)
(***************************************************************************)
EXTENDS Integers, SequencesExt

CONSTANTS
    Host, Item,    \* Item is a set of numbers: the order of a report
    Status,        \* statuses a report may carry, known or not
    Desc,
    History,       \* _HISTORY_RUNS
    Cap,           \* _VERSIONS_CAP_PER_HOST
    MaxSaves,      \* bound on the reports stored
    Earlier,       \* histories a host may have when the program is upgraded
    Env            \* "switch", "cleanup", "delete", "dberror", "crash"

\* The empty string: the status and the description of an item that is not there.
Absent == ""
Known == {"pass", "fail", "warn", "manual", "na"}
Reports(V) == UNION {[S -> V] : S \in SUBSET Item}
\* The descriptions of today's drivers and of the releases before.
Text == Desc \cup UNION {{rep[i].ds : i \in DOMAIN rep} : rep \in UNION {Range(rs) : rs \in Earlier}}

ASSUME StoreAssumption ==
    /\ IsFiniteSet(Item) /\ Item \subseteq Nat
    /\ History \in Nat \ {0} /\ Cap \in Nat \ {0} /\ MaxSaves \in Nat
    /\ Earlier \subseteq Seq(Reports([st : Known, ds : Text]))
    /\ Env \subseteq {"switch", "cleanup", "delete", "dberror", "crash"}

VARIABLES
    runs,       \* host -> stored reports of its successful runs, oldest first
    changes,    \* host -> result_changes rows of the newest save
    versions,   \* host -> item_versions rows, oldest first
    disabled,   \* check_item_disables (one family)
    boot,       \* lifespan: "start", "rebuild" or "up"
    todo,       \* hosts rebuild_versions has yet to do
    missed,     \* hosts the newest backfill did not get to (history)
    skipped,    \* host -> items disabled at its newest save (history)
    saves

vars == <<runs, changes, versions, disabled, boot, todo, missed, skipped, saves>>

-----------------------------------------------------------------------------
(* What one save stores *)

\* Disabled items are dropped; an unknown status becomes "manual".
Filtered(raw, off) ==
    [i \in DOMAIN raw \ off |->
        [raw[i] EXCEPT !.st = IF @ \in Known THEN @ ELSE "manual"]]

\* _record_changes: against the previous successful run.
Previous(rs, off) == LET p == Last(rs) IN [i \in DOMAIN p \ off |-> p[i]]
SeenBefore(rs) == UNION {DOMAIN rs[k] : k \in {n \in 1..Len(rs) : n > Len(rs) - History}}

ChangesIgnoringDisabled(rs, rep, off) ==
    IF DOMAIN rep = {} \/ rs = <<>> THEN {}
    ELSE LET prev == Last(rs)
             old(i) == IF i \in DOMAIN prev THEN prev[i].st ELSE Absent
             new(i) == IF i \in DOMAIN rep THEN rep[i].st ELSE Absent
         IN  {[item |-> i, before |-> old(i), after |-> new(i)] : i \in
                 {j \in DOMAIN rep \cup DOMAIN prev :
                     old(j) # new(j) /\ (old(j) = Absent => j \notin SeenBefore(rs))}}
ChangesAgainstOldest(rs, rep, off) ==
    IF DOMAIN rep = {} \/ rs = <<>> THEN {}
    ELSE {[item |-> i, before |-> rs[1][i].st, after |-> rep[i].st] : i \in
             {j \in DOMAIN rep \cap DOMAIN rs[1] : rep[j].st # rs[1][j].st}}
Changes(rs, rep, off) ==
    IF DOMAIN rep = {} \/ rs = <<>> THEN {}
    ELSE LET prev == Previous(rs, off)
             old(i) == IF i \in DOMAIN prev THEN prev[i].st ELSE Absent
             new(i) == IF i \in DOMAIN rep THEN rep[i].st ELSE Absent
         IN  IF DOMAIN prev = {} THEN {}
             ELSE {[item |-> i, before |-> old(i), after |-> new(i)] : i \in
                     {j \in DOMAIN rep \cup DOMAIN prev :
                         old(j) # new(j) /\ (old(j) = Absent => j \notin SeenBefore(rs))}}

\* The newest version of an item; NoVersion when it has none.
NoVersion == [kind |-> "gone", st |-> Absent, ds |-> Absent]
Indices(vs, i) == {k \in 1..Len(vs) : vs[k].item = i}
FirstVersion(vs, i) ==
    IF Indices(vs, i) = {} THEN NoVersion
    ELSE vs[CHOOSE k \in Indices(vs, i) : \A n \in Indices(vs, i) : k <= n]
NewestVersion(vs, i) ==
    IF Indices(vs, i) = {} THEN NoVersion
    ELSE vs[CHOOSE k \in Indices(vs, i) : \A n \in Indices(vs, i) : n <= k]

\* _record_versions: against the newest version of each item.
Appear(vs, rep, i) ==
    [item |-> i, kind |-> IF vs = <<>> THEN "initial" ELSE "new", before |-> Absent,
     st |-> rep[i].st, ds |-> rep[i].ds]
Alter(last, rep, i) ==
    [item |-> i, kind |-> IF last.st # rep[i].st THEN "status" ELSE "desc", before |-> last.st,
     st |-> rep[i].st, ds |-> rep[i].ds]
Vanish(last, i) == [item |-> i, kind |-> "gone", before |-> last.st, st |-> Absent, ds |-> Absent]

StatusOnly(vs, rep) ==
    {Alter(NewestVersion(vs, i), rep, i) : i \in {j \in DOMAIN rep :
        LET last == NewestVersion(vs, j) IN last.kind # "gone" /\ last.st # rep[j].st}}
Altered(vs, rep) ==
    {Alter(NewestVersion(vs, i), rep, i) : i \in {j \in DOMAIN rep :
        LET last == NewestVersion(vs, j)
        IN  last.kind # "gone" /\ (last.st # rep[j].st \/ last.ds # rep[j].ds)}}
Appeared(vs, rep) ==
    {Appear(vs, rep, i) : i \in {j \in DOMAIN rep : NewestVersion(vs, j).kind = "gone"}}
VanishedAgain(vs, rep, off) ==
    {Vanish(NewestVersion(vs, i), i) : i \in {j \in Item \ (DOMAIN rep \cup off) :
        Indices(vs, j) # {}}}
Vanished(vs, rep, off) ==
    {Vanish(NewestVersion(vs, i), i) : i \in {j \in Item \ (DOMAIN rep \cup off) :
        NewestVersion(vs, j).kind # "gone"}}

\* Rows are inserted in the order of the report, the vanished items last.
InOrder(S) == CHOOSE s \in [1..Cardinality(S) -> S] :
                 \A k, n \in 1..Cardinality(S) : k < n => s[k].item < s[n].item
RecordVersions(vs, rep, off) ==
    IF DOMAIN rep = {} THEN vs
    ELSE vs \o InOrder(Appeared(vs, rep) \cup Altered(vs, rep)) \o InOrder(Vanished(vs, rep, off))

\* _trim_versions: the oldest rows above the cap go.
TrimKeepsOne(vs) == IF Len(vs) <= Cap THEN vs ELSE SubSeq(vs, Len(vs) - Cap, Len(vs))
TrimVersions(vs) == IF Len(vs) <= Cap THEN vs ELSE SubSeq(vs, Len(vs) - Cap + 1, Len(vs))

-----------------------------------------------------------------------------
(* Actions *)

Up == boot = "up"

SaveReport(h, raw) ==
    /\ Up /\ saves < MaxSaves
    /\ LET rep == Filtered(raw, disabled)
       IN  /\ runs' = [runs EXCEPT ![h] = Append(@, rep)]
           /\ changes' = [changes EXCEPT ![h] = Changes(runs[h], rep, disabled)]
           /\ versions' = [versions EXCEPT ![h] = TrimVersions(RecordVersions(@, rep, disabled))]
    /\ skipped' = [skipped EXCEPT ![h] = disabled]
    /\ saves' = saves + 1
    /\ UNCHANGED <<disabled, boot, todo, missed>>

\* item_toggle.
Toggle(i) ==
    /\ "switch" \in Env /\ Up
    /\ disabled' = IF i \in disabled THEN disabled \ {i} ELSE disabled \cup {i}
    /\ UNCHANGED <<runs, changes, versions, boot, todo, missed, skipped, saves>>

\* _cleanup: the oldest runs go with their results, changes by age as well;
\* the version axis stays.
Cleanup(h) ==
    /\ "cleanup" \in Env /\ Up
    /\ \E k \in 1..Len(runs[h]) :
          /\ runs' = [runs EXCEPT ![h] = SubSeq(@, k + 1, Len(@))]
          /\ changes' = [changes EXCEPT ![h] = IF k = Len(runs[h]) THEN {} ELSE @]
    /\ UNCHANGED <<versions, disabled, boot, todo, missed, skipped, saves>>

\* host_delete, and a new host in its place.
Delete(h) ==
    /\ "delete" \in Env /\ Up
    /\ runs' = [runs EXCEPT ![h] = <<>>]
    /\ changes' = [changes EXCEPT ![h] = {}]
    /\ versions' = [versions EXCEPT ![h] = <<>>]
    /\ skipped' = [skipped EXCEPT ![h] = {}]
    /\ UNCHANGED <<disabled, boot, todo, missed, saves>>

\* rebuild_versions at start-up: nothing to do once any row exists ...
RebuildSkips ==
    /\ boot = "start" /\ \E h \in Host : versions[h] # <<>>
    /\ boot' = "up"
    /\ UNCHANGED <<runs, changes, versions, disabled, todo, missed, skipped, saves>>

RebuildBegins ==
    /\ boot = "start" /\ \A h \in Host : versions[h] = <<>>
    /\ boot' = "rebuild" /\ todo' = Host /\ missed' = {}
    /\ UNCHANGED <<runs, changes, versions, disabled, skipped, saves>>

\* ... else the stored runs of each host are replayed, one transaction a host.
ReplayNewest(rs) == IF rs = <<>> THEN <<>> ELSE RecordVersions(<<>>, Last(rs), {})
Replay(rs) == LET upto[n \in 0..Len(rs)] ==
                    IF n = 0 THEN <<>> ELSE RecordVersions(upto[n - 1], rs[n], {})
              IN  upto[Len(rs)]

RebuildHost(h) ==
    /\ boot = "rebuild" /\ h \in todo
    /\ todo' = todo \ {h}
    /\ versions' = [versions EXCEPT ![h] = Replay(runs[h])]
    /\ skipped' = [skipped EXCEPT ![h] = {}]
    /\ UNCHANGED <<runs, changes, disabled, boot, missed, saves>>

RebuildEnds ==
    /\ boot = "rebuild" /\ todo = {}
    /\ boot' = "up"
    /\ UNCHANGED <<runs, changes, versions, disabled, todo, missed, skipped, saves>>

\* An error of the database: lifespan logs it and goes on.
RebuildFails ==
    /\ "dberror" \in Env /\ boot = "rebuild"
    /\ boot' = "up" /\ todo' = {} /\ missed' = todo
    /\ UNCHANGED <<runs, changes, versions, disabled, skipped, saves>>

Crash ==
    /\ "crash" \in Env /\ boot # "start"
    /\ boot' = "start" /\ todo' = {} /\ missed' = missed \cup todo
    /\ UNCHANGED <<runs, changes, versions, disabled, skipped, saves>>

\* A database of a release without version axis is upgraded.
Init ==
    /\ runs \in [Host -> Earlier]
    /\ changes = [h \in Host |-> {}]
    /\ versions = [h \in Host |-> <<>>]
    /\ disabled = {}
    /\ boot = "start" /\ todo = {} /\ missed = {}
    /\ skipped = [h \in Host |-> {}]
    /\ saves = 0

Next ==
    \/ \E h \in Host, raw \in Reports([st : Status, ds : Desc]) : SaveReport(h, raw)
    \/ \E i \in Item : Toggle(i)
    \/ \E h \in Host : Cleanup(h) \/ Delete(h) \/ RebuildHost(h)
    \/ RebuildSkips \/ RebuildBegins \/ RebuildEnds \/ RebuildFails \/ Crash

Spec == Init /\ [][Next]_vars

-----------------------------------------------------------------------------
(* Properties *)

\* The newest report a host has in the database.
Newest(h) == IF runs[h] = <<>> THEN <<>> ELSE Last(runs[h])

\* Nothing of the host's axis was trimmed yet.
Untrimmed(h) == Len(versions[h]) < Cap

\* The axis leads to what was reported last: the newest version of every item
\* of the newest report has its status and description, and an item that is
\* missing there, not switched off, is marked as gone.
AxisFollowsReports == \A h \in Host :
    Up /\ Untrimmed(h) /\ versions[h] # <<>> /\ DOMAIN Newest(h) # {} => \A i \in Item :
        IF i \in DOMAIN Newest(h)
        THEN LET last == NewestVersion(versions[h], i)
             IN  last.kind # "gone" /\ [st |-> last.st, ds |-> last.ds] = Newest(h)[i]
        ELSE i \in skipped[h] \/ NewestVersion(versions[h], i).kind = "gone"

\* The versions of an item form a chain: each starts from the status the one
\* before it left, and an item that is gone comes back as a new one.
ChainOfVersions == \A h \in Host : \A k, n \in 1..Len(versions[h]) :
    LET old == versions[h][k]
        new == versions[h][n]
    IN  /\ k < n /\ old.item = new.item
        /\ \A x \in k+1..n-1 : versions[h][x].item # old.item
        => IF new.kind = "new" THEN old.kind = "gone" ELSE old.kind # "gone" /\ new.before = old.st

\* A backfill broke off before this host and has not been made up for: there
\* is no axis yet, and none comes before the next report.
Unreached(h) == h \in missed /\ versions[h] = <<>>

Saved(h) == Len(runs'[h]) = Len(runs[h]) + 1

\* Reporting the same again records neither a version nor a change (unless an
\* item that was switched off before is looked for again).
RepeatRecordsNothing == [][\A h \in Host :
    /\ Saved(h) /\ Untrimmed(h) /\ runs[h] # <<>> /\ versions[h] # <<>>
    /\ Last(runs'[h]) = Newest(h) /\ skipped[h] \subseteq disabled
    => versions'[h] = versions[h] /\ changes'[h] = {}]_vars

\* Switching an item off does not make it vanish, neither from the recent
\* changes nor from the axis.
NothingVanishesByDisabling == [][\A h \in Host : Saved(h) /\ Untrimmed(h)' =>
    /\ \A c \in changes'[h] : c.after = Absent => c.item \notin disabled
    /\ \A i \in disabled : NewestVersion(versions'[h], i) = NewestVersion(versions[h], i)]_vars

\* A status change or a disappearance on the dashboard is on the axis as well,
\* though the two compare with different things; except at the first report of
\* a host that an interrupted backfill left without an axis.
ChangesAreOnAxis == [][\A h \in Host : Saved(h) /\ Untrimmed(h)' /\ ~Unreached(h) =>
    \A c \in changes'[h] : c.before # Absent =>
        \E k \in Len(versions[h])+1..Len(versions'[h]) :
            /\ versions'[h][k].item = c.item
            /\ versions'[h][k].before = c.before /\ versions'[h][k].st = c.after]_vars

\* A save leaves at most Cap versions, and every version it recorded.
AxisBounded == [][\A h \in Host : Saved(h) =>
    /\ Len(versions'[h]) <= Cap
    /\ \A i \in DOMAIN Last(runs'[h]) :
          NewestVersion(versions'[h], i).st = Last(runs'[h])[i].st
             \/ NewestVersion(versions[h], i).st = Last(runs'[h])[i].st]_vars

\* Once the program is up, every host with reports has a version axis, but for
\* those that a backfill broke off before: any other host that it had finished,
\* or a first report of one, keeps the next start from making up for them.
BackfillComplete == \A h \in Host :
    Up /\ ~Unreached(h) /\ (\E k \in 1..Len(runs[h]) : DOMAIN runs[h][k] # {}) => versions[h] # <<>>
=============================================================================
