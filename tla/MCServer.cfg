SPECIFICATION Spec
CONSTANTS
  t1 = t1
  t2 = t2
  s1 = s1
  s2 = s2
  NoSession = NoSession
  Thread = {t1, t2}
  Session = {s1, s2}
  MaxRequests = 2
  MaxBlocked = 1
  StatusEnabled = FALSE
  MayThrow = TRUE
SYMMETRY Symmetry
INVARIANTS
  SessionExclusive NoDangling OneAcceptor ResponsesInOrder
  KeepAliveHonoured NoSpuriousBadRequest
PROPERTIES
  WriteStable
CHECK_DEADLOCK FALSE
