\* One call, two apps that start and end at any time, a person who may never
\* answer, a tool that changes under the call.
SPECIFICATION FairSpec
CONSTANTS
  Calls = {c1}
  Apps = {p1, p2}
  Defs = {f1, f2}
  None = None
  MaxPending = 1
  MaxWorkers = 1
  EndsWhileAsking = TRUE
INVARIANTS
  RunsWhatWasApproved
PROPERTIES
  EndpointKept
  CallSettles
