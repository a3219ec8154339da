SPECIFICATION Spec
CONSTANTS
  Text = {"/a", "location"}
  MaxDepth = 2
  MaxOdd = 2
  ExactType = {"EchoHandler"}
INVARIANTS ParsedAsWritten StoredHasType
CHECK_DEADLOCK FALSE
