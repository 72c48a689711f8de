SPECIFICATION Spec
CONSTANTS
  MaxHost = 1
  MaxRun = 2
  Pool = {p1}
  Manual = {m1}
  NoWorker = none
  StaleAge = 1
  RetentionAge = 3
  Interval = 1
  AgeCap = 4
  DeleteBatch = 2
  MaxFaults = 1
  Env <- Anything
INVARIANTS RowsAreTended
PROPERTIES LockImplemented
