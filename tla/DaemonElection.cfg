\* Slow starts, killed adapters and work that arrives late included.
SPECIFICATION ElectionFairSpec
CONSTANTS
  Adapters = {a1, a2}
  Daemons = {d1, d2}
  Nil = Nil
INVARIANTS
  OneActiveDaemon
PROPERTIES
  OnlyStalePointersGo
  EnsureReturns
