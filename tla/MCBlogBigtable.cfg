SPECIFICATION Spec
CONSTANTS
  t1 = t1
  t2 = t2
  Thread = {t1, t2}
  NoThread = NoThread
  p1 = p1
  p2 = p2
  Post = {p1, p2}
  NoPost = NoPost
  MaxKey = 12
  AskedId = {3}
  MaxStray = 1
  MaxCalls = 2
SYMMETRY Symmetry
PROPERTIES
  InsertsLeaveNoGap
  
CHECK_DEADLOCK FALSE
