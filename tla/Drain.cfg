SPECIFICATION Spec
CONSTANTS
  j1 = j1
  j2 = j2
  u1 = u1
  u2 = u2
  Jobs <- OneJob
  Users <- TwoUsers
  Owner <- SameOwner
  MaxPerUser = 1
  MaxGlobal = 0
  Faults = {}
  MaxStops = 1
PROPERTY DrainsBeforeExit
CHECK_DEADLOCK FALSE
