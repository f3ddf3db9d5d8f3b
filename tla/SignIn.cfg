SPECIFICATION Spec
CONSTANTS
  a1 = a1
  a2 = a2
  a3 = a3
  b1 = b1
  b2 = b2
  g1 = g1
  NoOne = NoOne
  Attempts <- ThreeAttempts
  Browsers <- TwoBrowsers
  Accounts <- OneAccount
  Faults = {"db", "github", "disconnect"}
SYMMETRY SignInSymmetry
INVARIANT IInv
INVARIANT ReturningUserIsSame
INVARIANT CookieFromHome
INVARIANT CookieIsLive
INVARIANT SignInReplacesSession
PROPERTY AccountKeepsUser
CHECK_DEADLOCK FALSE
