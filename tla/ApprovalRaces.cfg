\* Two calls race for one place in the queue of an app that does not end under a prompt.
SPECIFICATION Spec
CONSTANTS
  Calls = {c1, c2}
  Apps = {p1}
  Defs = {f1}
  None = None
  MaxPending = 1
  MaxWorkers = 2
  EndsWhileAsking = FALSE
SYMMETRY Symmetric
INVARIANTS
  OneAnswer
  CardsAreLive
