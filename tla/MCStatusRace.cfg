SPECIFICATION Spec
CONSTANTS
  t1 = t1
  t2 = t2
  s1 = s1
  s2 = s2
  NoSession = NoSession
  Thread = {t1, t2}
  Session = {s1, s2}
  MaxRequests = 1
  MaxBlocked = 0
  StatusEnabled = TRUE
  MayThrow = TRUE
SYMMETRY Symmetry
INVARIANTS
  StatusRecordsAll
CHECK_DEADLOCK FALSE
