SPECIFICATION Spec
CONSTANTS
  Calls = {c1, c2}
  Beat = Beat
  Nobody = Nobody
  MaxDaemons = 3
  MaxSessions = 4
  MaxFaults = 2
CHECK_DEADLOCK FALSE
INVARIANTS
  RunsAtMostOnce
  SessionsOK
PROPERTIES
  CallsEnd
  LossHeals
