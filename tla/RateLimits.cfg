\* Two processes over two days and the start of a second month.
SPECIFICATION Spec
CONSTANTS
  plain = plain
  special = special
  all = all
  Procs = {p1, p2}
  Tools = {plain, special}
  Scopes = {all, special}
  ScopesOf <- MCScopesOf
  Caps <- MCCaps
  DaysPerMonth = 2
  MaxDay = 2
  MaxCalls = 3
  None = None
SYMMETRY Symmetric
INVARIANTS
  AccountsOK
  CapHolds
PROPERTIES
  DenialsAreEarned
