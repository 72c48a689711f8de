SPECIFICATION Spec
CONSTANTS
  MaxHost = 2
  MaxRun = 2
  Pool = {p1}
  Manual = {m1}
  NoWorker = none
  StaleAge = 1
  RetentionAge = 3
  Interval = 1
  AgeCap = 4
  DeleteBatch = 2
  MaxFaults = 0
  Env = {"delete"}
PROPERTIES WritesOwnRun
