SPECIFICATION FairSpec
CONSTANTS
  t1 = t1
  t2 = t2
  p1 = p1
  p2 = p2
  Thread = {t1, t2}
  Post = {p1, p2}
  NoPost = NoPost
  NoThread = NoThread
  MaxId = 3
  MaxCalls = 3
INVARIANTS OneUser AcknowledgedIsStored
PROPERTIES PostsAreKept ImplementsStore CallsReturn
CHECK_DEADLOCK FALSE
