\* An older and a newer build update a file that is lost, damaged or hard to read.
SPECIFICATION Spec
CONSTANTS
  old = old
  new = new
  Writers <- MCWriters
  Gateway = Gateway
  Build <- MCBuild
  Junks = {junk}
  Absent = Absent
  BACKUP_GENERATIONS = 2
  MaxUpdates = 3
  MaxFaults = 3
CHECK_DEADLOCK FALSE

  
PROPERTIES
  ForeignKept
  GatewayCatchesUp
