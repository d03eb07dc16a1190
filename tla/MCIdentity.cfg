SPECIFICATION MCSpec
CONSTANTS
  a = a
  b = b
  c = c
  d = d
  User = {a, b, c, d}
  NoUser = none
  Session = {1, 2, 3, 4}
  Client = {c1, c2}
  Start <- MCStart
  SignedIn <- MCSignedIn
  Ask <- MCAsk
  TimeToLive = 2
  MaxAttempts = 2
  MaxPassword = 1
  MaxRequests = 4
  MaxChanges = 3
  Horizon = 3
  MaxFailures = 2
  FailureWindow = 2
  BlockTime = 2
  Event = {1, 2, 3}
  NoEvent = noevent
  Reader = b
  DayLength = 1
  DefaultDays = 2
  PageSize = 1
SYMMETRY MCSymmetry
INVARIANTS TypeOK AnAdminRemains LiveSessionsAreCurrent GuessesAreBounded TheListIsOneReading
\* When the requests are spent the clients are done.
CHECK_DEADLOCK FALSE
