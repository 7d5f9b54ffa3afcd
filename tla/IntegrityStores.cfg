\* One gateway, two tools of which the second comes later, two changes, two publications, one upset.
SPECIFICATION Spec
CONSTANTS
  Gateways = {g1}
  Tools = {t1, t2}
  Served = {t1}
  MaxDef = 2
  MaxChanges = 2
  MaxRounds = 2
  MaxUpsets = 1
CHECK_DEADLOCK FALSE
INVARIANTS
  StoresOK
  TrustedOnly
PROPERTIES
  OnlyReleaseUnblocks
  ReleasedComesBack
