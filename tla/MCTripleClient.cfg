CONSTANTS
  c1 = c1
  c2 = c2
  Calls = {c1, c2}
  MaxCalls = 3
SPECIFICATION FairSpec
INVARIANTS InductiveInvariant SuccessIsReal NoSuccessAfterClose
PROPERTIES ReplyStableAfterReturn InvokeReturns ReflectGoroutineEnds
CHECK_DEADLOCK FALSE
