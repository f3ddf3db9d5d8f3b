SPECIFICATION Spec
CONSTANTS
  i1 = i1
  u1 = u1
  u2 = u2
  r1 = r1
  r2 = r2
  k1 = k1
  k2 = k2
  h1 = h1
  h2 = h2
  f1 = f1
  NoOne = NoOne
  Installs <- OneInstall
  Users <- TwoUsers
  Repos <- TwoRepos
  Callbacks <- TwoCallbacks
  Handlers <- TwoHandlers
  Lookups <- OneLookup
  PageSize = 1
  Faults = {"db", "github"}
SYMMETRY InstallSymmetry
INVARIANT IInv
INVARIANT DroppedCopiesMissNothing
INVARIANT RemovedStays
INVARIANT GrantedCovers
INVARIANT TokenForUser
PROPERTY LiveRowStays
CHECK_DEADLOCK FALSE
