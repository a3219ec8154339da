SPECIFICATION FairSpec
CONSTANTS
  t1 = t1
  t2 = t2
  s1 = s1
  s2 = s2
  NoSession = NoSession
  Thread = {t1,t2}
  Session = {s1, s2}
  MaxRequests = 1
  MaxBlocked = 1
  StatusEnabled = TRUE
  MayThrow = FALSE
INVARIANTS
  TypeOK RecordedWereServed
PROPERTY
  Answered
CHECK_DEADLOCK FALSE
