SPECIFICATION FairAlertingSpec
CONSTANTS
  MaxHost = 1
  MaxRun = 3
  Pool = {p1}
  Manual = {m1}
  NoWorker = none
  StaleAge = 1
  RetentionAge = 3
  Interval = 1
  AgeCap = 4
  DeleteBatch = 2
  MaxFaults = 2
  AlertOnRecovery = TRUE
  Env = {"crash", "dberror"}
INVARIANTS FailedByCheckIsAnnounced ExecExclusive
PROPERTIES OncePerOutage ClosedIsFinal RunsClose KeepsChecking
\* The model stops where MaxRun leaves no id for the next row.
CHECK_DEADLOCK FALSE
