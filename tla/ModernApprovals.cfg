\* Two requests and two prompts compete for a table of one; the tool changes,
\* and the exposed name goes to another server.
SPECIFICATION Spec
CONSTANTS
  Tokens = {t1, t2}
  Reqs = {r1, r2}
  Scopes = {s1, s2}
  Args = {x1}
  Defs = {f1, f2}
  Owners = {o1, o2}
  None = None
  MaxPending = 1
  Timeout = 1
  Retention = 2
  MaxTime = 3
  MaxUpsets = 1
CHECK_DEADLOCK FALSE
SYMMETRY Symmetric
INVARIANTS
  CancelledGoes
  RowsOK
PROPERTIES
  PromptsKept
  ImplementsHeldCall
