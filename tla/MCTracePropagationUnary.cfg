CONSTANTS
  first = first
  second = second
  nested = nested
  App = App
  Calls = {first, second, nested}
  Origin <- MCOrigin
SPECIFICATION Spec
INVARIANT HandlerHasServerSpan
CHECK_DEADLOCK FALSE
