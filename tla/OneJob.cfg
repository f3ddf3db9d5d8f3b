SPECIFICATION Spec
CONSTANTS
  j1 = j1
  j2 = j2
  u1 = u1
  u2 = u2
  Jobs <- OneJob
  Users <- TwoUsers
  Owner <- SameOwner
  MaxPerUser = 1
  MaxGlobal = 1
  Faults = {"db", "creds", "disk", "docker", "disconnect", "hook"}
  MaxStops = 2
INVARIANT IInv
INVARIANT WebhookAgreesWithRow
INVARIANT SuccessIsReal
INVARIANT RunningKeepsSecrets
INVARIANT NoStraySecrets
INVARIANT RunningIsWatched
INVARIANT CancelledIsStopped
PROPERTY SuccessLostOnlyToCancel
PROPERTY BoardSpec
PROPERTY HearsOneOutcome
PROPERTY EndedChangesOnlyUnderWay
CHECK_DEADLOCK FALSE
