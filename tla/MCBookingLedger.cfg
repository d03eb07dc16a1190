SPECIFICATION MCSpec
CONSTANTS
  Reservation = {r1, r2, r3}
  NoReservation = none
  Key = {k1, k2}
  Service = {lunch}
  Slot <- MCSlot
  Window = 30
  Limit <- MCLimit
  MaxParty = 2
  MaxVersion = 3
  NoSlot = noslot
  Text = {t1, t2}
  Language = {it, en}
  ReadLimit = 1
  MutationLimit = 1
  MaxAsks = 3
  MaxPosts = 3
SYMMETRY MCSymmetry
INVARIANTS TypeOK RegularWithinLimit SlotsAnswerTheDay OneBookingPerChange
PROPERTY CancelledIsFinal
\* Versions and identifiers run out: the ledger may stop there.
CHECK_DEADLOCK FALSE
