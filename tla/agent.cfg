\* One unit of age stands for any time of at least REPORT_MIN_INTERVAL.
SPECIFICATION FairSpec
CONSTANTS
  Host = {h1}
  Request = {q1, q2}
  MinInterval = 1
  OfflineAge = 2
  AgeCap = 3
  MaxToken = 3
  Env = {"rotate", "enable", "delete", "body", "crash"}
PROPERTIES OncePerSilence SilentIsFlagged
