SPECIFICATION HandlerSpec
CONSTANTS
  t1 = t1
  t2 = t2
  Thread = {t1, t2}
  Value <- PlainValue
  Post <- MCPost
  NoPost = NoPost
  MaxId = 2
  MaxRequests = 1
SYMMETRY Symmetry
INVARIANT PostIsStoredAsSubmitted
CHECK_DEADLOCK FALSE
