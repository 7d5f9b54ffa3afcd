\* Two gateways, three operations, two upsets: up to two refreshes or sign-ins after the first.
SPECIFICATION Spec
CONSTANTS
  Gateways = {g1, g2}
  NoGateway = NoGateway
  MaxGrants = 3
  MaxOps = 3
  MaxUpsets = 2
CHECK_DEADLOCK FALSE
SYMMETRY Symmetric
INVARIANTS
  SpentOnlyIfUnsaved
  VaultOK
PROPERTIES
  RotationsKept
  RejectedNotReturned
