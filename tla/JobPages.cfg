SPECIFICATION FairSpec
CONSTANTS
  u1 = u1
  u2 = u2
  derived = derived
  pinned = pinned
  NoOne = NoOne
  NoPath = NoPath
  Users <- TwoUsers
  Paths <- TwoPaths
  Derived = derived
  Owner = u1
  LogPaths <- AnyCaller
  MaxLogBytes = 2
  MaxLines = 2
  TailBytes = 2
  DefaultLimit = 1
  Limits <- AnyLimit
  MaxJobs = 2
  MaxOutput = 3
  Faults = {"db", "log"}
INVARIANT IInv
INVARIANT ShowsEndOfLog
INVARIANT NoticeIsEnd
INVARIANT FinalPageIsWhole
PROPERTY OwnJobsOnly
PROPERTY PageCatchesUp
CHECK_DEADLOCK FALSE
