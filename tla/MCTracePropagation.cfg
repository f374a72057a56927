CONSTANTS
  first = first
  second = second
  nested = nested
  App = App
  Calls = {first, second, nested}
  Origin <- MCOrigin
SPECIFICATION Spec
INVARIANTS InductiveInvariant ServerSpanChildOfItsCall NestedCallContinuesTrace ServerSpanEndsFirst
  ErrorReachesClientSpan
CHECK_DEADLOCK FALSE
