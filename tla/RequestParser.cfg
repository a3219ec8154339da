SPECIFICATION Spec
CONSTANT IntMax = 12
INVARIANTS TypeOK StartsFresh BodyComplete BodyAccounted
CHECK_DEADLOCK FALSE
