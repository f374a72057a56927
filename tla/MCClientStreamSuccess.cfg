CONSTANTS
  sender = sender
  receiver = receiver
  Callers = {receiver}
SPECIFICATION Spec
INVARIANT SuccessNotMarkedAsError
CHECK_DEADLOCK FALSE
