SPECIFICATION MCSpec
CONSTANTS
  g = g
  h = h
  t = t
  u = u
  x = x
  y = y
  z = z
  Room = {g, h}
  NoRoom = none
  Admin = {a1, a2}
  Interval = 2
  Window = 4
  DaysInWeek = 2
  MaxParty = 2
  Start <- MCStart
  Proposals <- MCProposals
  SpecialEdits <- MCSpecialEdits
  Wishes <- MCWishes
  Instants <- MCInstants
  MaxAttempts = 2
  MaxRequests = 3
SYMMETRY MCSymmetry
INVARIANTS NothingLostIsUnseen AuditTellsTheTables
PROPERTIES AppliedAsConfirmed NothingIsOverwritten
\* When the requests are spent the administrators are done.
CHECK_DEADLOCK FALSE
