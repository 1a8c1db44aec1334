CONSTANT MaxRows = 2
SPECIFICATION QuerySpec
INVARIANT FirstErrorIsReported
CHECK_DEADLOCK FALSE
