\* Only the callers are scheduled fairly; Thread offers more identities than
\* Workers, so that too many could start.  The model stops when MaxAlert alerts
\* are through: deadlock is not checked.
SPECIFICATION StuckSpec
CONSTANTS
  Caller = {c1, c2}
  Thread = {t1, t2, t3}
  Workers = 2
  QueueMax = 1
  Channels = {"telegram", "smtp"}
  MaxAlert = 4
  NoCaller = none
CHECK_DEADLOCK FALSE
INVARIANTS BoundedWorkers TriedOnce HandledOnAll
PROPERTIES CallersReturn QueuedIsHandled
