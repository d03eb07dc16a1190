SPECIFICATION ExportSpec
CONSTANTS
  d1 = d1
  d2 = d2
  r1 = r1
  r2 = r2
  s1 = s1
  s2 = s2
  Session = {s1, s2}
  NoSession = none
  Day = {d1, d2}
  Room = {r1, r2}
  NoRoom = nowhere
  Proof = {p1, p2}
  NoProof = noproof
  MaxAttempts = 2
  Booking = {b1, b2}
  Gone = gone
  Area = {a1, a2}
  Unseated = unseated
  Legacy = {a2}
  Selection = {all, a2}
  All = all
  MaxExports = 2
  MaxEvents = 3
SYMMETRY MCSymmetry
INVARIANTS CommittedByOwner PendingIsBeingServed ExportsStayWithTheirSession ADocumentIsOneMoment
PROPERTIES NothingTypedIsLost
CHECK_DEADLOCK FALSE
