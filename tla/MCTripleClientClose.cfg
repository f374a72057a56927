CONSTANTS
  c1 = c1
  c2 = c2
  Calls = {c1}
  MaxCalls = 1
SPECIFICATION Spec
INVARIANT CloseDestroysConn
CHECK_DEADLOCK FALSE
