SPECIFICATION FairSpec
CONSTANTS
  r1 = r1
  r2 = r2
  r3 = r3
  r4 = r4
  k1 = k1
  k2 = k2
  Reservation = {r1, r2, r3, r4}
  NoReservation = none
  Key = {k1, k2}
  Service <- MCServices
  Slot <- MCSlot
  Window = 30
  Limit <- MCLimit
  MaxParty = 2
  MaxVersion = 6
  Client = {c1, c2}
  Request <- MCRetries
  Start <- MCStart
  Rank <- MCRank
  MaxAttempts = 2
  MaxSubmits = 2
INVARIANTS OneBookingPerKey BookedUnderAKey
PROPERTIES EveryRequestIsAnswered
\* When every request was sent and answered the clients are done.
CHECK_DEADLOCK FALSE
