# BaselineGuard: a TLA+ model

BaselineGuard (`src/`) is a FastAPI application that audits hosts and network
devices against compliance baselines. It pulls reports over SSH or device APIs,
accepts reports pushed by agents, keeps the results and their history in one
SQLite database, and sends alerts over Telegram and SMTP. It has no test suite.
This directory models the parts of it that run concurrently, keep history, or
decide what is trusted, checks them with TLC on small instances, and proves every
safety property that those runs confirm for instances of every size, some under
conditions that section 4 names. Section 5 shows, with a counterexample each, where the
code breaks a promise of its own documentation.

    tlc -config timely.cfg MCRunLifecycle      # one of the runs of section 3
    tlapm RunLifecycleProofs.tla               # the proofs of a module

## 1. Inventory

| part | state it keeps | operations | modelled in |
|---|---|---|---|
| check runner `app/checker.py` | rows of `check_runs`, summary columns of `hosts` | `run_ssh_check`, `_finish_failed`, `save_report`, `expire_stale_runs`, `reset_orphan_runs`; `_connect`, `verify_hostkey` | RunLifecycle, HostLock; HostTrust |
| scheduler `app/scheduler.py` | loop position; the rest is in the database | start-up reset, tick, choice of due hosts, pool, cleanup, offline check | RunLifecycle, AgentReport, ReportStore |
| alert decisions (`checker.py`, `scheduler.py`) | `last_run_status`, `offline_alerted` as memory of what was announced | alert after a failed check, after a recovery, for a silent agent | Alerting, AgentReport |
| alert queue `app/notify.py` | `_queue`, `_workers_started`, four daemon threads | `send_async`, `_ensure_workers`, `_worker`, `_send` | Notify |
| agent API `app/agent_api.py` | request handlers | `/report`; `/script` and `/install` change nothing | AgentReport |
| result store (`checker.py`, `models.py`, `items_routes.py`) | `check_results`, `result_changes`, `item_versions`, `check_item_disables` | `save_report`, `_record_changes`, `_record_versions`, `_trim_versions`, `rebuild_versions`, `item_toggle` | ReportStore |
| host administration `routes/hosts.py` | `hosts` | create, edit, clear credentials, reset the host key, delete, run now, rotate token, test connection | RunLifecycle, AgentReport, ReportStore, HostTrust |
| settings `config.py`, `settings_routes.py` | the `settings` object, `config.json` | load, migrate, purge, save | ConfigStore |
| secret store `secret_store.py` | key file, key cache | create or read the key, encrypt, decrypt | ConfigStore |
| login and roles `auth.py`, `routes/auth.py` | role table, role cache (10 s), session cookie | login, logout, resolution of roles, changes of the table | RoleCache |
| device drivers `drivers/` | the session on the device | one inspection: log in, ask, log out, judge | DeviceInspect, DeviceTables |
| catalogue `check_items.py` | none | `items_for` | Catalogue (device families) |
| web application `main.py` | session | start-up, login guard; dashboard, second server | partly: in the modules above |
| agent script, read-only pages, audit log, templates | - | - | no (section 6) |

**How they interact.** A scheduler thread wakes up every minute, and a manual
trigger starts a thread of its own; both end in `run_ssh_check`, which uses
`check_runs` itself as a lock. Reports of agents arrive in a second web server
inside the process and end in the same `save_report`. Everything shares the
database: one transaction at a time writes, but a transaction starts at its
first write (pysqlite), so what was read before may be old, and the session keeps
loaded objects across commits (`expire_on_commit=False`), so what is compared
and assigned may be older still. Alerts are handed to a queue after the commit.
A check connects with the credentials of the host row as it loaded them and
compares the machine's key with the pin in the same copy, while the edit page
changes the row. A login asks the directory and may save the base DN it found,
side by side with the settings page: both rewrite `config.json` in place, and its
secrets are sealed under a key in a file of its own. Every request
looks its account's roles up through a cache that several threads fill.

**What is hard here.** Two triggers of one host; a process that dies between the
insertion and the closing of a row; a check that outlives its time-out; a host
deleted, or an id reused, while a thread still works for it; values read before
a check of up to an hour and used after it; reports that overlap; a start-up
that dies half-way; an alert storm; a role read before it is taken away and
cached after; an edit of the address under a running check; a file truncated and
not yet written; an endpoint of a device that fails, and a CLI output that stops
in the middle. `PROJECT.json` lists these hazards at their lines, with the
properties that would catch them going wrong.

**What makes each part correct.** One check per host at a time, every row closed
in the end, verdicts final, hosts checked again and again (runner, scheduler);
one announcement per change of state (alerts); a bounded queue that never holds
its caller up and never loses what it accepted (queue); none silent unnoticed,
none announced twice (agents); an axis of versions that leads to the newest report and
is a chain (store); credentials used only where they belong, and a key replaced only by
a reset (host administration); a right that is gone, or there, within the life
of the cache (roles); memory and file agreeing, no secret in clear or without
its key (settings); every item reported once, none passed that was not read, no
session forgotten (drivers).

## 2. Modules

**HostLock** is the abstract promise of `run_ssh_check`: a host is held by at
most one check, acquired only when free.

**RunLifecycle** is the runner, the scheduler and what administrators do to
hosts. `workers` are the threads inside `run_ssh_check`; `pc` names the next
transaction (`load`, `expire`, `gate`, `insert`, `verify`, `undo`, `exec`,
`save`, `fail`, `failwrite`). `server` is the position of `scheduler_loop`
and `_tick`; `runs` and `hosts` are the tables; ages replace timestamps. An
action is one transaction, except where a function reads rows and writes them
after other sessions may have written: the arbitration, the reset and
`_finish_failed` are two actions each. The ORM is modelled where it matters: a
write of a value equal to the loaded one is no write (`FailRunningRuns`,
`SaveReport`), a write to a row that is gone raises, a fresh row takes the
largest id plus one. `Env` chooses what the environment may do.
Left out: agents' hosts, the text of messages, results and alerts (below);
a host's mode does not change, and `scheduler_enabled` is on.
`owner` is history: it says whose row it is and guards nothing.

**Alerting** extends RunLifecycle with the alert each thread raises when it
commits and hands over afterwards (a crash in between loses it). Hosts are not
deleted in it: an alert carries the name its thread loaded, while the model has
only the id. **RunLifecycleProofs** has the theorems about it and RunLifecycle.

**Notify** is the queue: callers in `send_async`, the lock of
`_ensure_workers`, the bounded queue, the worker threads and the two channels,
each of which may fail. **NotifyProofs**.

**AgentReport** is `POST /report` with its three suspensions (look-up, body,
store), the offline check, and what administrators do to agent hosts: rotation of
tokens, disabling, deletion, creation under a reused id. The store writes
`offline_alerted` only if the value it loaded differs, as the ORM does.
`announced` is history. **AgentReportProofs**.

**ReportStore** is what a save stores besides the row: filtered and normalised
results, recent changes, version axis and its trimming; item switches, cleanup,
deletion, and the backfill at start-up, one transaction a host, which a crash or an
error may break off (`missed` is history: the hosts it did not get to). All hosts are of one
family and a report lists an item once. Of a report a status and a description
per item are kept, enough to tell every kind of version apart. What the backfill
makes of the stored reports is a recursive function of how many it has replayed
(`Replay`), the order in which a save writes its rows one that `InOrder` chooses.
**ReportStoreProofs**.

**HostTrust** is the connection fields of one SSH host: `row` is what is
committed, `check` and `test` the copies a running check and a running
connection test work with, `machine` the key that answers at each address. An
edit takes any combination of missing, empty and filled fields (`Edits`); a test
takes its own (`Forms`). `sent` and `together` are history: where credentials
were used, and with which address they were stored or entered. The test's
made-up host, which has no pin, is as in the code. **HostTrustProofs**.

**RoleCache** is login, logout and `require_login` around `_user_roles`: a
request reads the clock, looks the cache up, misses, reads the table, stores and
decides, each a step that other threads interleave with. Handlers that change the
table are themselves requests that were let through. A failing read of the table
is one of the outcomes. **RoleCacheProofs**.

**ConfigStore** is a start (`load`, `migrate`, `purge`, session secret) and the
saves of the settings page and of a login, over `config.json` (truncated, then
written), the key file (created, then written) and the settings in memory,
which change before the file does. The process may die at every step, reads and writes
may fail: `_read_config_file` takes a file it cannot read for an empty one
(`Prepare`, `SkipUnread`). The operator may take a torn file away. `blind` and `failed`
are history: who worked on such a reading, and whether this process had one, or a write
that failed. Fields are one plain, two secret and one obsolete. **ConfigStoreProofs**.

**Catalogue**, **DeviceTables** and **DeviceInspect** are the nine drivers. A
table row says from which endpoint an item is judged and which status each class
of answer gets ("the wanted value", "no such field", "an empty list", "half of what is
asked for", "a number that cannot be read", ...); the state machine logs in, asks
endpoint after endpoint, each of which may answer, answer without a result, fail or
raise, logs out and judges. A CLI output may stop in each section; `cut` says whether
near a line `end`, which is what `_config_complete` looks for. `session` is what the
device holds for the driver: a log-in may fail and leave something open (`stray`), a
log-out may fail (`left`), and f5 asks for a token that it never gives back (`token`).
The parsing that assigns a class to a text, and the text of descriptions, are
abstracted; `v ++ w` joins verdicts, the first naming a class prevails.
**DeviceInspectProofs**.

The MC modules only give names to environments, values and earlier histories. A
definition that stands just before the one it resembles (`FirstVersion` before
`NewestVersion`) is a wrong variant, used to confirm that a property notices the
mistake; no next-state relation uses one.

## 3. Runs

| run | module | shows | bounds |
|---|---|---|---|
| `timely` | MCRunLifecycle | `TypeOK`, `OneHolder`, `ExecExclusive`, `ClosedIsFinal`, `WritesOwnRun`: the protocol of `check_runs` under a crash and the retention, while a check ends before it is stale and starts after the reset | 2 hosts, 3 rows, a pool and a manual thread, 1 fault |
| `recovery` | Alerting | `RunsClose`, `KeepsChecking`, `ExecExclusive`, `ClosedIsFinal`, `FailedByCheckIsAnnounced`, `OncePerOutage`: crashes and database errors that leave orphans to the reset and the arbitration | 1 host, 3 rows, 2 faults |
| `anything` | MCRunLifecycle | `RowsAreTended`, `LockImplemented`: what is left when checks hang, start early, and hosts are deleted and re-created as well | 1 host, 2 rows, 1 fault |
| `id_reuse` | MCRunLifecycle | a violation of `WritesOwnRun` (section 5) | 2 hosts, 2 rows, no fault |
| `notify` | Notify | `BoundedWorkers`, `TriedOnce`, `HandledOnAll`, `CallersReturn`, `QueuedIsHandled` | 2 callers, 3 identities for 2 threads, a queue of 1, 4 alerts |
| `agent` | AgentReport | `OncePerSilence`, `SilentIsFlagged` | 1 host id, 2 requests, 3 tokens, ages up to 3 |
| `gate` | AgentReport | a violation of `GateHolds` (section 5) | 2 requests |
| `store` | MCReportStore | `AxisFollowsReports`, `ChainOfVersions`, `BackfillComplete`, `RepeatRecordsNothing`, `NothingVanishesByDisabling`, `ChangesAreOnAxis`, `AxisBounded` | 2 hosts, 2 items, 2 statuses (one of them unknown to the program) and an earlier third, 2 descriptions, up to 2 earlier and 2 new reports, a cap of 6 |
| `device` | DeviceInspect | `ItemsComplete`, `NoFalsePass`, `LogoutAsked` | nine drivers; at most 2 bad endpoints, or all of them |
| `roles` | MCRoleCache | `RevokedWithinTTL`, `GrantedWithinTTL` | `admin` and one account, 2 browsers, a TTL of 1, clock up to 2 |
| `trust` | MCHostTrust | `StoredStaysHome`, `PinOnlyReset` | 2 addresses, 2 machine keys, a password, a private key |
| `config` | MCConfigStore | `MemoryIsFile`, `NothingInClear`, `SealedUnderWrittenKey`, `OthersKept` | 2 saving threads, 2 values, 2 keys |

Every bound has a name: `MaxHost`, `MaxRun`, `AgeCap`, `MaxFaults`, `MaxAlert`,
`MaxToken`, `MaxSaves`, `MaxErrors`, `MaxTime`, `MaxKeys`. An age stops at
`AgeCap`, beyond the last value that the code compares it with; `AgeCap`
therefore loses nothing.

**Why they are enough.** Two triggers, and an orphan from a crash with its successor,
concern one host and take three rows and two threads. What a deleted row and a reused
id do shows only with a second host, the one that gets the id or whose thread holds it:
`timely` and `id_reuse` have two. Two faults let a second one
hit the recovery of the first (`recovery`); in `timely` one crash
leaves orphans, and the retention is the other half of the hazard. `recovery` has one
host, as its liveness properties are costly; that its safety properties hold for
more is proved (section 4). `anything`, with
one more kind of interference per step, affords two rows of one host. A queue of one is full with the
second alert and four alerts fill it, drop one and refill it; three thread
identities for two threads leave room for one too many. Two requests are the least that
can overlap, three tokens survive a rotation and a re-creation. Two
items of a report tell "this one changed" from "all did", two earlier reports give a
change, a disappearance and an empty report, and two new ones a return and a
repetition; the cap of 6 is reached and trimmed. The second host is needed for
the backfill: a row of one host keeps a start from making up for the other. Endpoints of a device are judged independently, so two bad ones and
"all of them" cover each item with each neighbour. A lifetime of one is the smallest
in which a cache entry can be fresh and stale, and a clock of two lets it run
out with a request under way. Two addresses are the old and the new one. Two keys are one
key file and the one after an operator took a torn file away.

**Symmetry** is declared in `store`, `roles`, `trust` and `config`, runs with safety
properties only, over values that the code compares for equality and nothing else.

**Deadlock** is checked except in `timely` and `recovery` (the row ids are used up),
`notify` and `store` (all alerts or reports of the bound are through), `device`
(an inspection ends) and `config` (nothing must follow a torn file that the
operator leaves torn).

**Fairness.** RunLifecycle with Alerting: a thread inside `run_ssh_check` and the scheduler go
on (weak: they are threads that wait only for a bounded time), the
service is restarted after a crash (systemd, weak), and time passes (strong, as a
tick disables `Elapse` for a moment). Nothing is assumed of administrators, of
faults, or of a remote execution that may hang. Both liveness properties are
excused only where the bound on row ids is used up. Notify: callers run.
That worker threads run is a premise of `QueuedIsHandled` alone, justified by the
time-outs of `send_telegram` and `send_smtp`; `CallersReturn` holds without it.
AgentReport: the sweep goes on; `SilentIsFlagged` has the premise that process
and sweep do not keep failing for ever. The other modules state safety only.

## 4. Proofs

TLAPS checks the following for every value of the constants that satisfies
their assumptions: `SizesAssumption`, `AgesAssumption`, `WorkersAssumption` and
`EnvAssumption` (RunLifecycle), `AlertingAssumption`, `NotifyAssumption`,
`AgentAssumption`, `StoreAssumption`, `InspectAssumption`, `RoleAssumption`,
`TrustAssumption`, `ConfigAssumption`. TLC evaluates each of them in the runs above.
Every invariant and action property of the passing runs is the subject of a theorem.
The environments of the runs in question are all `Calm` (below).

**RunLifecycleProofs**, whatever the environment does: `Typing`;
`MutualExclusion` (`OneHolder`); `LockRefinement` (`LockImplemented`). `OneHolder` is
not inductive: a second thread could pass the arbitration if the holder's row
were not the first. The invariant is `HolderIsFirst`: the row of a
holder is the smallest running one of its host. The lemmas say that only `verify`
makes a holder (`HoldersOnlyByVerify`), that a first row stays first as long as it
runs (`FirstStays`), that there is one first row (`FirstIsOnly`); and that every
step is a step of the lock or a stutter (`StepIsLockStep`).

Next, `Tending` (`RowsAreTended`) for any environment; and, under `Calm`, the
theorems `Exclusion` (`ExecExclusive`), `OwnRunWritten` (`WritesOwnRun`) and `VerdictsFinal` (`ClosedIsFinal`). The invariant
`Orderly` says that a thread past the insertion still has its row (`Followed`,
`Owned`), that such a row is younger than a thread at work may be (`Young`), that the
ids a thread has read for closing belong to rows whose threads are gone (`OnlyLost`),
that no thread starts before the reset is over (`ResetFirst`), and, since the
retention deletes rows and a deleted id may come back: that the reset has read every
running row and the clean-up none (`Sorted`), so that with the retention on every row
that runs after the reset has its thread, and no thread holds an id to close
(`Swept`). `Calm` excludes what really breaks
the three theorems, each with a counterexample in section 5: a check that hangs beyond its time-out
(`hung`), one started before the reset (`early` shows the row it loses), the deletion of
a host (`id_reuse`), and a retention in a process whose reset a database error may have
stopped (`orphan`).

Last, the alerts, in any environment that is `Calm`: `AlertingRefinement` (every
behaviour of Alerting is one of RunLifecycle, so that all of the above holds there;
this one needs no `Calm`), `OneNotice` (`OncePerOutage`) and `FailuresAnnounced`
(`FailedByCheckIsAnnounced`). The invariant `AlertInv` says that an announced host is
shown as failed (`OutageShown`) and that a thread which is about to announce, having read
a host that was not failed, is the first of its outage (`FirstNotice`). It is
`Orderly` that makes the latter inductive: between that read and the write no
other thread can have announced the host, as the row of the reader holds it.
`FailuresAnnounced` has the premise that no fault has occurred, and needs that without one
neither reset nor arbitration finds anything (`NothingLost`).

**NotifyProofs**: `ExactlyWorkers` (`BoundedWorkers`), by an account of how many
threads the holder of the lock has yet to start (`Starting`);
`AtMostOnce` (`TriedOnce`) and `OnEveryChannel` (`HandledOnAll`), as an alert is
in one place, in one caller's hands, once in the queue, or with one thread
(`Places`), and its tries follow that thread's progress (`Tries`).

**AgentReportProofs**: `AnnouncedOnce` (`OncePerSilence`) from `Quiet` (a host
announced and not stored since is flagged, and none that the sweep still means to
flag).

**ReportStoreProofs**: `AxisLeadsToReport` (`AxisFollowsReports`), `VersionsChain`
(`ChainOfVersions`), `BackfillFills` (`BackfillComplete`), `NoEcho`
(`RepeatRecordsNothing`), `DisabledKept` (`NothingVanishesByDisabling`),
`ChangesOnAxis` (`ChangesAreOnAxis`) and `CapKeepsNewest` (`AxisBounded`), for any
number of hosts, reports and statuses and any finite catalogue, with a cap of at least
one; `CapKeepsNewest` alone takes it that one report fits under the cap, as any does
under the program's. The invariant `StoreInv` strengthens the first of them
to whatever the process is doing (`Leading`), since a save continues the
axis that the last one left; says which hosts may still be without axis while a
backfill runs (`Filled`, `FirstBackfill`); and has `ChainOfVersions` as it stands.
The hard part is that one save and the backfill's replay of many extend a
chain (`Chained`, `Replay`). What is needed of induction there is done by taking the
least counterexample (`LeastNumber`), as no induction theorem can be instantiated;
that the recursion of `Replay` defines a function is shown the same way.

**DeviceInspectProofs**: `ReportCoversCatalogue` (`ItemsComplete`), `PassedIsRead`
(`NoFalsePass`) and `LogoutIsAsked` (`LogoutAsked`), where `device` tries two bad
endpoints, for any number of them. The tables of
the nine drivers are walked once: their rows judge each item of the family's
catalogue once, each row passes only what it may, and an item that no endpoint
gives is in a group of missed items (`ApiSound`; `CliSound` for the two that read a
configuration). The rest is about any driver that is sound in this sense. The invariant
`InspectInv` adds that a configuration which was not cut off has been read up to
`next` (`Whole`) and that an open session is one to log out of (`GivenBack`).

**RoleCacheProofs**: `Revocation` and `Granting`, from `Sound` (for a request)
and `SoundEntry` (for a cache entry): what was read of a role was
so in the table at the moment stamped on it or later. What the history says of
rights at a time stays true (`Keeps`).

**HostTrustProofs**: `Home` (`StoredStaysHome`) and `Pin` (`PinOnlyReset`), from `BelongsOK` (the credentials in every copy of a host belong
to the address in it) and `PinOK` (while a check knows of no pin, the row has none;
one that knows of a pin has it in its copy, unchanged).

**ConfigStoreProofs**: `KeyBeforeSecret` (`SealedUnderWrittenKey`), `NothingLost`
(`OthersKept`), `NoSecretInClear` (`NothingInClear`), `RestartChangesNothing`
(`MemoryIsFile`), from `Typed`, `Agreed` (who saves holds the lock, and what is about
to be written has every field it does not name as the file has it), `Clean` (the key
is there before what must be sealed is prepared, and each step of the start leaves behind
what it is for) and `Faithful` (memory is what the file says, or is about to say).

`MemoryIsFile`, `NothingInClear` and `OthersKept` are about processes, starts and saves
that could read the file (`failed`, `blind`); for the others `unread.cfg` shows the opposite.

**Only model-checked**: the liveness properties (`RunsClose`, `KeepsChecking`,
`CallersReturn`, `QueuedIsHandled`, `SilentIsFlagged`), since liveness under
fairness is out of the prover's reach.

## 5. Where the code parts from its documentation, and known gaps

`id_reuse`: `checker.py:361` takes it that the row of a deleted host is gone and
there is nowhere to write. The ids are plain rowids (`models.py:105`), given
again once the newest row is deleted: the thread of a deleted host can find another
host's row under its id and close it with its own result.

`gate`: at least 60 seconds between two reports of a host (`src/README.md:81`,
`:191`, `agent_api.py:43`), and an old token refused at once (`hosts.py:324`). Interval and
token are looked at before the body is read and not again when the report is stored
(`agent_api.py:180`, `:225`): of two requests that pass the gate together both are stored,
and so is one whose token was renewed meanwhile.

Eight more counterexamples are not among the runs of section 3, each of which asks
whether something holds; the commands below show them.

| command | violated | what happens |
|---|---|---|
| `tlc -config orphan.cfg MCRunLifecycle` | `ExecExclusive` | `checker.py:624-626` has it that no host is checked by two threads. If a database error stops the start-up reset (`checker.py:430`, logged only), rows of the last process stay running. The clean-up takes running rows too (`scheduler.py:92`): such an orphan, past the retention, may go and a new run get its id while a thread of another host that has read it as stale is about to close it. The new run is closed, its host free for a second check. `ClosedIsFinal` fails in the same way. |
| `tlc -config hung.cfg MCRunLifecycle` | `ExecExclusive` | the arbitration closes the row of a check that is too old, not its thread (`checker.py:441`) |
| `tlc -config early.cfg MCRunLifecycle` | `ResetOnlyOrphans` | the reset is to take what the last process left (`scheduler.py:155`); it runs 15 seconds after the server answers and takes every running row, also that of a check started by hand meanwhile |
| `tlc -config stalled.cfg Alerting` | `OthersGoOn` | `scheduler.py:9` says that one slow host does not affect the others; `_tick` waits for all it has submitted (`scheduler.py:144`) |
| `tlc -config newpin.cfg MCHostTrust` | `PinOfAddress` | a new address counts as a new host (`hosts.py:249`); a first check that was under way to the old address records the key it saw there (`checker.py:518`), and the new machine is refused until the key is reset |
| `tlc -config unread.cfg MCConfigStore` | `FileKeepsSettings` | a save keeps the keys that the file has (`config.py:169`); `_read_config_file` returns nothing when the file cannot be read or does not parse (`config.py:222`), and the save then writes its own fields only |
| `tlc -config fail_open.cfg DeviceInspect` | `UnreadableNeverPasses` | what `to_int` cannot read never passes (`base.py:57-59`); `pan-lockout` passes on an unreadable `lockout-time` (`paloalto.py:286`) |
| `tlc -config cut.cfg DeviceInspect` | `CutRefused` | an output that was cut off is never judged (`cisco.py:80`, `fortiauth.py:60`); what is looked for is a line `end` among the last five (`cisco.py:86`), and every section of a FortiAuthenticator ends with one, as the text of a banner on a Cisco may |

What follows is allowed by the models as by the code; no property of the runs
promises otherwise, and where one comes close its definition names the exception.

- Runner. A check given up as stale that succeeds later re-opens its verdict, which
  `ClosedIsFinal` (checked without hangs) does not see; it may leave the summary at
  `failed`, and a recovery may be announced twice (`checker.py:151`). The
  reset and the arbitration set a host to `failed` silently, and the dedup of
  `_finish_failed` then takes every further failure for announced (`checker.py:406`). Of two
  runs the older may store its report after the newer (`checker.py:197`).
- Agents. A report whose body is awaited while its host is deleted is stored under a host
  that got the id (`agent_api.py:225`). A report stored while the sweep writes may leave
  the host flagged.
- Store. A backfill that breaks off (a crash, or an error, which the start-up only
  logs) is not resumed once any host has a version: the hosts it did not reach have no
  axis before their next report, and what changed with that report is on the
  dashboard but not on the axis (`checker.py:325`). `BackfillComplete` and
  `ChangesAreOnAxis` except exactly these (`Unreached`). A trim that takes the only version
  of a steady item lets its next report be recorded as new.
- Host trust. The connection test's made-up host has no pin, so it takes any key.
- Settings. After a failed save memory and file differ until the field is saved again
  (`config.py:241`), also where a secret cannot be sealed for want of a key; a `config.json`
  torn by a crash keeps the program from starting (`config.py:244`). Where a step of the
  start cannot read the file, secrets stay in clear until the next start. A torn key file
  keeps it from starting until removed. A base DN found by a login replaces one set
  meanwhile (`auth.py:155`).
- Drivers. Several items pass where a part of the answer is missing or is unknown to the
  driver; `Lenient` (DeviceInspect) names each with the class of answer, and
  `NoFalsePass` excepts these only. f5 never gives its token back (`f5.py:104`), a failed
  log-out leaves a session on the device (`aruba.py:130`, `vcenter.py:112`), and so may a
  failed log-in (`fortiauth.py:79` leaves the transport open): `LogoutAsked` is about the
  sessions a driver has the handle of, and about the request, not its success.

## 6. Not modelled, and what is left

Not modelled, as they change no state or keep none that anything else reads: the
read-only pages, exports and helpers; page templates; the audit log (one appended
row, its own errors swallowed); `/script` and `/install`; the dashboard. Not modelled as
they run once before anything else: `init_db` and `_migrate`. The supervision of the
second server (`_verify_agent_api`) waits for it at start-up and raises one alert. The agent's shell
script runs on the audited host and is represented by its reports. Data, not control:
the parsing of outputs into classes of answers, the items of the Linux and agent
checks; an inspection whose thread dies with the process. a key file that exists and
can be opened at one moment of a start and not at another (one that never can is like a
torn one). External: LDAP, SSH, HTTP, SMTP, Telegram, SQLite beyond its transactions.

Left in the plan:

1. Alerting composed with Notify: an alert lost by the full queue while the flag
   that it was raised stays (`notify.py:74`), and the order in which threads
   send the alerts of one host (`notify.py:62`).
2. Saves in another order than their runs in ReportStore (`checker.py:197`).
