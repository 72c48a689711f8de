\* Stored reports are bounded by MaxSaves: the model may stop.
SPECIFICATION Spec
CONSTANTS
  Host = {h1, h2}
  Item = {1, 2}
  Status = {"pass", "odd"}
  Desc = {"d"}
  History = 2
  Cap = 6
  MaxSaves = 2
  Earlier <- Upgraded
  Env = {"switch", "cleanup", "delete", "dberror", "crash"}
SYMMETRY HostSymmetry
CHECK_DEADLOCK FALSE
INVARIANTS AxisFollowsReports ChainOfVersions BackfillComplete
PROPERTIES RepeatRecordsNothing NothingVanishesByDisabling ChangesAreOnAxis AxisBounded
