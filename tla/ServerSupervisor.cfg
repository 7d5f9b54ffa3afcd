\* At r0 two callers share one server; from r1 to r2 one caller's server is rebuilt
\* while the registry and the server's lists change.
SPECIFICATION FairSpec
CONSTANTS
  c1 = c1
  c2 = c2
  r0 = r0
  r1 = r1
  r2 = r2
  Calls = {c1, c2}
  Slots = {s1, s2}
  Roots = {r0, r1, r2}
  Moves <- Onward
  CallersAt <- Both
  None = None
  BREAKER_FAILURE_THRESHOLD = 1
INVARIANTS
  SlotsOK
  NoneAdmittedUngated
  LiveIsCurrent
PROPERTIES
  RunningCallsKept
  LiveRecovers
