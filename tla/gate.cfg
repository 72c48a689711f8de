SPECIFICATION Spec
CONSTANTS
  Host = {h1}
  Request = {q1, q2}
  MinInterval = 1
  OfflineAge = 2
  AgeCap = 3
  MaxToken = 2
  Env = {}
PROPERTIES GateHolds
