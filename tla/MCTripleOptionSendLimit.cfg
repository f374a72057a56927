CONSTANTS
  Values = {"a"}
  MaxFuncs = 1
SPECIFICATION Spec
INVARIANT ServerSendLimitHonoured
CHECK_DEADLOCK FALSE
