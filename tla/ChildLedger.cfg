\* Three gateways, of which two can reap what the first left; every number can
\* be recycled, by a stranger too.  Gateways and servers run out, so the model
\* may stop.
SPECIFICATION LedgerSpec
CONSTANTS
  Gateways = {g1, g2, g3}
  Servers = {s1}
  Strangers = {x1}
  Nil = Nil
  MaxPid = 4
SYMMETRY Symmetric
CHECK_DEADLOCK FALSE
INVARIANTS
  LedgerOK
PROPERTIES
  OnlyOrphansSignalled
  ReapIsComplete
