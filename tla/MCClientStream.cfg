CONSTANTS
  sender = sender
  receiver = receiver
  Callers = {sender, receiver}
SPECIFICATION FairSpec
INVARIANTS InductiveInvariant SpanFinishedOnce CleanSpanMeansCleanEnd
PROPERTIES FinishedSpanFrozen ImplementsLifecycle
  SpanEventuallyFinished WatcherExits
CHECK_DEADLOCK FALSE
