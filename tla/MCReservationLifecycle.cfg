SPECIFICATION MCSpec
CONSTANTS
  r1 = r1
  plain = plain
  noRoom = noRoom
  Reservation = {r1, r2}
  NoReservation = none
  Key = {k1, k2}
  SiteKey = {k1}
  Service <- MCServices
  Slot <- MCSlot
  Window = 30
  Limit <- MCLimit
  MaxParty = 1
  MaxVersion = 3
  Horizon = 3
  Detail = {plain, special}
  Room = {hall}
  NoRoom = noRoom
  Arrival <- MCArrival
  OnlineClose <- MCOnlineClose
  GuestCutoff <- MCGuestCutoff
  LinkLives <- MCLinkLives
  KeyTtl = 2
  ReminderLead = 1
INVARIANTS TypeOK AuditTracksTables LiveLegsAreCurrent
PROPERTIES KeepsTheLedger RepeatsFindTheirBooking LinkLifeStays SeatDiesWithSchedule
\* The clock and the versions run out: the handlers may stop there.
CHECK_DEADLOCK FALSE
