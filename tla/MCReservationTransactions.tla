---------------------- MODULE MCReservationTransactions ----------------------
(* Instances of the concurrent requests.  Every window has two seats.  At    *)
(* the start r1 sits at lunch with one party of one and r2 at dinner, r3 and *)
(* r4 are free.                                                              *)
EXTENDS ReservationTransactions, TLC

MCServices == {"dinner", "lunch"}
MCRank == [s \in Service |-> IF s = "dinner" THEN 1 ELSE 2]
MCLimit == [s \in Service |-> 2]
MCSlot == {0}

CONSTANTS r1, r2, r3, r4, k1, k2

Seat(s, p) ==
  [status |-> "CONFIRMED", origin |-> "PUBLIC", service |-> s, slot |-> 0,
   party |-> p, detail |-> FALSE, override |-> FALSE, version |-> 1,
   arrived |-> FALSE, seated |-> FALSE]

MCStart == [r \in Reservation |->
              CASE r = r1 -> Seat("lunch", 1)
                [] r = r2 -> Seat("dinner", 1)
                [] OTHER  -> [Seat("dinner", 0) EXCEPT !.status = "FREE",
                                                       !.version = 0]]

Ask(kind, k, r, s, p, v, f) ==
  [kind |-> kind, key |-> k, id |-> r, version |-> v, flag |-> f,
   asked |-> [service |-> s, slot |-> 0, party |-> p, detail |-> FALSE]]

(* Bookings: three at once for the last lunch seat, one of them a          *)
(* duplicate of another, while r1 grows, leaves or moves.                  *)
MCBookings ==
  {Ask("createPublic", k1, r3, "lunch", 1, 1, FALSE),
   Ask("createPhone", k2, r4, "lunch", 1, 1, TRUE),
   Ask("createPhone", k2, r4, "lunch", 1, 1, FALSE),
   Ask("createPhone", k2, r3, "lunch", 2, 1, FALSE),
   Ask("updatePublic", k1, r1, "lunch", 2, 1, FALSE),
   Ask("updatePublic", k1, r2, "lunch", 2, 1, FALSE),
   Ask("cancelPublic", k1, r1, "lunch", 1, 1, FALSE)}

(* Changes of two reservations that swap services under everybody's hands. *)
MCChanges ==
  {Ask("updateStaff", k1, r1, "dinner", 1, 1, FALSE),
   Ask("updateStaff", k1, r2, "lunch", 2, 1, TRUE),
   Ask("updateStaff", k1, r1, "lunch", 1, 2, TRUE),
   Ask("updatePublic", k1, r2, "lunch", 1, 1, FALSE),
   Ask("cancelStaff", k1, r1, "lunch", 1, 1, FALSE),
   Ask("cancelPublic", k1, r2, "lunch", 1, 1, FALSE),
   Ask("arrival", k1, r1, "lunch", 1, 1, TRUE),
   Ask("assignment", k1, r1, "lunch", 1, 1, TRUE)}

(* What is worth sending twice: the same booking from two tabs, another    *)
(* under its key, a last seat two parties want, changes of one version, a   *)
(* cancellation of what is just being booked.                              *)
MCRetries ==
  {Ask("createPublic", k1, r3, "lunch", 1, 1, FALSE),
   Ask("createPublic", k1, r4, "dinner", 1, 1, FALSE),
   Ask("createPhone", k2, r4, "lunch", 1, 1, FALSE),
   Ask("updateStaff", k1, r1, "dinner", 1, 1, FALSE),
   Ask("cancelStaff", k1, r1, "lunch", 1, 1, FALSE),
   Ask("cancelStaff", k1, r4, "lunch", 1, 1, FALSE)}

(* The requests of a behaviour are all about one of the two.               *)
MCContention == MCBookings \cup MCChanges
MCInit ==
  /\ Init
  /\ \E Topic \in {MCBookings, MCChanges} : req \in [Client -> Topic]
MCSpec == MCInit /\ [][Next]_vars

MCSymmetry == Permutations(Client)
==============================================================================
