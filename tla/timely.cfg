SPECIFICATION Spec
CONSTANTS
  MaxHost = 2
  MaxRun = 3
  Pool = {p1}
  Manual = {m1}
  NoWorker = none
  StaleAge = 1
  RetentionAge = 3
  Interval = 1
  AgeCap = 4
  DeleteBatch = 2
  MaxFaults = 1
  Env = {"crash", "retention"}
INVARIANTS TypeOK OneHolder ExecExclusive
PROPERTIES ClosedIsFinal WritesOwnRun
\* The model stops where MaxRun leaves no id for the next row.
CHECK_DEADLOCK FALSE
