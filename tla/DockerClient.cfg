SPECIFICATION Spec
CONSTANTS
  Requests = {r1, r2}
  Kinds <- MCKinds
  Scopes = {"mount"}
  NoScope = "none"
  Iterations = 2
  InitialDelay = 1
  MaxDelay = 3
  RetryAfters = {5}
  MinLifetime = 0
  Lifetimes = {0}
  MaxTime = 1
INVARIANT RequestsAreSound
PROPERTY EveryRequestReturns
CHECK_DEADLOCK FALSE
