SPECIFICATION HandlerSpec
CONSTANTS
  t1 = t1
  t2 = t2
  Thread = {t1, t2}
  Value <- EscapedValue
  Post <- MCPost
  NoPost = NoPost
  MaxId = 2
  MaxRequests = 2
SYMMETRY Symmetry
INVARIANTS RedirectsToNewPost IsolatedPostIsStored
CHECK_DEADLOCK FALSE
