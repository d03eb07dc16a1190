------------------------- MODULE MCReservationService -------------------------
(* Instances of the handlers.  The clock counts steps of the day: lunch is   *)
(* due at 2, dinner at 3; guests lose their say one step before.             *)
EXTENDS ReservationService, TLC

MCSlot == {0, 15}
MCLimit == [s \in Service |-> 1]
MCServices == {"lunch", "dinner"}
MCArrival == [st \in Service \X Slot |->
                (IF st[1] = "lunch" THEN 2 ELSE 3)
                  + (IF st[2] = 0 THEN 0 ELSE 1)]
MCOnlineClose == [s \in Service |-> IF s = "lunch" THEN 1 ELSE 2]
MCGuestCutoff == MCOnlineClose
MCLinkLives == {1, 2}

CONSTANTS r1, plain, noRoom

(* One reservation lives through the day, or two, one from the site and one  *)
(* from the phone, compete for the seats of lunch early in the morning; notes *)
(* are taken early too, and wishes for dinner.                               *)
MCAlone ==
  /\ \A r \in Reservation \ {r1} : row[r].status = "FREE"
  /\ row[r1].booking.slot = 0
  /\ row[r1].note # plain => now = 0
  /\ row[r1].booking.detail # plain => row[r1].booking.service = "dinner"
MCCrowded ==
  /\ now = 0
  /\ \A r \in Reservation :
       /\ row[r].status # "FREE" =>
            /\ row[r].booking.service = "lunch"
            /\ row[r].booking.detail = plain
       /\ row[r].note = plain
       /\ row[r].version <= 2
       /\ seat[r] = noRoom
       /\ \A l \in leg[r] : l.status = "PENDING"
MCSpec == Init /\ [][Next /\ (MCAlone \/ MCCrowded)']_vars
==============================================================================
