CONSTANTS
  Values = {"a", "b"}
  MaxFuncs = 3
SPECIFICATION Spec
INVARIANTS InductiveInvariant LastFunctionWins ClientLimitsHonoured TransportsAgree
CHECK_DEADLOCK FALSE
