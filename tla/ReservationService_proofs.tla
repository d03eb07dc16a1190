----------------------- MODULE ReservationService_proofs -----------------------
(***************************************************************************)
(* Theorems of the reservation handlers, for every set of reservations,    *)
(* keys, services, slots and rooms: the tables stay of their kinds, the    *)
(* audit trail replays them, what is still to be sent is current, and the  *)
(* handlers implement the ledger.                                          *)
(***************************************************************************)
EXTENDS ReservationService, TLAPS

(* An identifier not given out yet has no history and no seat.             *)
FreeIsBlank ==
  \A r \in Reservation :
     row[r].status = "FREE" => row[r].version = 0 /\ seat[r] = NoRoom

(* A guest's link outlives the arrival by one of the configured lives.     *)
LinksOutliveArrivals ==
  \A r \in Reservation :
     row[r].status # "FREE" /\ row[r].origin = "PUBLIC"
       => LinkLife(r) \in LinkLives

(* The inductive invariant.                                                *)
ServiceInv ==
  /\ TypeOK
  /\ FreeIsBlank
  /\ LinksOutliveArrivals
  /\ AuditTracksTables
  /\ LiveLegsAreCurrent
  /\ BookedServicesAreHosted

(* A handler that changes something stores a new reservation, rebooks or    *)
(* drops a confirmed one, or touches one without moving it.                *)
StoresNew(r) ==
  \E k \in Key, x \in Row :
     /\ row[r].status = "FREE"
     /\ ~Remembered(k)
     /\ x.status = "CONFIRMED"
     /\ x.version = 1
     /\ Store(k, r, x)
     /\ \/ /\ x.origin = "PUBLIC"
           /\ \E life \in LinkLives :
                 link' = [link EXCEPT ![r] = When(x.booking) + life]
        \/ x.origin = "PHONE" /\ UNCHANGED link

RebooksOne(r) ==
  /\ Confirmed(r)
  /\ \E b \in Booking, o \in BOOLEAN : Rebook(r, b, o)

TouchesOne(r) ==
  \E x \in Row, room \in Room \cup {NoRoom} :
     /\ row[r].status # "FREE"
     /\ row[r].version < MaxVersion
     /\ \A f \in {"status", "origin", "booking", "override", "version"} :
           x[f] = row[r][f]
     /\ Touch(r, x, room)

Writes(r) ==
  \/ StoresNew(r)
  \/ RebooksOne(r)
  \/ Confirmed(r) /\ Drop(r)
  \/ TouchesOne(r)

-----------------------------------------------------------------------------
(* What the helpers return.                                                *)

LEMMA NoBookingIsBooking == NoBooking \in Booking
<1>1. /\ (CHOOSE s \in Service : TRUE) \in Service
      /\ (CHOOSE t \in Slot : TRUE) \in Slot
      /\ (CHOOSE d \in Detail : TRUE) \in Detail
  BY ServiceAssumption
<1>2. 0 \in 0..MaxParty
  BY ServiceAssumption
<1> QED
  BY <1>1, <1>2 DEF NoBooking, Booking

LEMMA ArrivalsAreInstants == ASSUME NEW b \in Booking PROVE When(b) \in Nat
<1>1. <<b.service, b.slot>> \in Service \X Slot
  BY DEF Booking
<1> QED
  BY <1>1, ServiceAssumption DEF When

LEMMA NewRowIsRow ==
  ASSUME NEW origin \in {"PUBLIC", "PHONE"}, NEW b \in Booking,
         NEW o \in BOOLEAN
  PROVE  NewRow(origin, b, o) \in Row
<1>1. NoBooking.detail \in Detail
  BY NoBookingIsBooking DEF Booking
<1>2. 1 \in 0..MaxVersion
  BY ServiceAssumption
<1> QED
  BY <1>1, <1>2 DEF NewRow, Row, Status

LEMMA NewLegIsLeg ==
  ASSUME NEW event \in {"CONFIRMED", "UPDATED", "CANCELLED", "REMINDER"},
         NEW v \in 1..MaxVersion, NEW b \in Booking
  PROVE  NewLeg(event, v, b) \in Leg
BY DEF NewLeg, Leg

LEMMA ReminderIsLeg ==
  ASSUME NEW v \in 1..MaxVersion, NEW b \in Booking
  PROVE  Reminder(v, b) \in SUBSET Leg
BY NewLegIsLeg DEF Reminder

LEMMA SupersededAreLegs ==
  ASSUME NEW L \in SUBSET Leg PROVE Superseded(L) \in SUBSET Leg
BY DEF Superseded, Leg

(* What was superseded is no longer alive.                                 *)
LEMMA SupersededAreDead ==
  ASSUME NEW L \in SUBSET Leg
  PROVE  \A l \in Superseded(L) : l.status \in {"RECALLED", "SUCCEEDED"}
BY DEF Superseded, Leg

-----------------------------------------------------------------------------
(* The kinds of the tables, one lemma per way the handlers write them.     *)

LEMMA InitIsTyped == Init => TypeOK
<1> SUFFICES ASSUME Init PROVE TypeOK
  OBVIOUS
<1>1. /\ 0 \in 0..Horizon
      /\ 0 \in 0..MaxVersion
  BY ServiceAssumption
<1>2. NewRow("PHONE", NoBooking, FALSE) \in Row
  BY NoBookingIsBooking, NewRowIsRow
<1>3. [NewRow("PHONE", NoBooking, FALSE) EXCEPT !.status = "FREE",
                                               !.version = 0] \in Row
  BY <1>1, <1>2 DEF Row, Status
<1> QED
  BY <1>1, <1>3, NoBookingIsBooking DEF Init, TypeOK, Status

LEMMA StoreIsTyped ==
  ASSUME TypeOK, NEW k \in Key, NEW r \in Reservation, NEW x \in Row,
         Store(k, r, x), link' \in [Reservation -> Nat]
  PROVE  TypeOK'
<1>1. x.booking \in Booking /\ x.booking.service \in Service
  BY DEF Row, Booking
<1>2. now + KeyTtl \in Nat
  BY ServiceAssumption DEF TypeOK
<1>3. 1 \in 1..MaxVersion
  BY ServiceAssumption
<1>4. {NewLeg("CONFIRMED", 1, x.booking)} \cup Reminder(1, x.booking)
        \in SUBSET Leg
  BY <1>1, <1>3, NewLegIsLeg, ReminderIsLeg
<1>5. trail' \in [Reservation -> [changes : Nat, status : Status,
                                  booking : Booking, override : BOOLEAN,
                                  room : Room \cup {NoRoom}]]
  BY <1>1 DEF Store, Audited, TypeOK, Row
<1>6. key' \in [Key -> [owner : Reservation \cup {NoReservation},
                        expires : Nat]]
  BY <1>2 DEF Store, Claimed, TypeOK
<1> QED
  BY <1>1, <1>4, <1>5, <1>6 DEF Store, TypeOK

(* A row stays a row when its version moves on within the bound.           *)
LEMMA RebookedIsRow ==
  ASSUME TypeOK, NEW r \in Reservation, row[r].version < MaxVersion,
         NEW b \in Booking, NEW o \in BOOLEAN
  PROVE  /\ Rebooked(r, b, o) \in Row
         /\ Rebooked(r, b, o).version = row[r].version + 1
         /\ CancelledRow(r) \in Row
         /\ CancelledRow(r).version = row[r].version + 1
         /\ row[r].version + 1 \in 1..MaxVersion
<1> DEFINE x == row[r]
<1>1. x \in Row
  BY DEF TypeOK
<1>2. x.version + 1 \in 0..MaxVersion /\ x.version + 1 \in 1..MaxVersion
  BY <1>1, ServiceAssumption DEF Row
<1> HIDE DEF x
<1>3. /\ [x EXCEPT !.booking = b, !.override = o, !.version = @ + 1] \in Row
      /\ [x EXCEPT !.booking = b, !.override = o, !.version = @ + 1].version
           = x.version + 1
  BY <1>1, <1>2 DEF Row
<1>4. /\ [x EXCEPT !.status = "CANCELLED", !.version = @ + 1] \in Row
      /\ [x EXCEPT !.status = "CANCELLED", !.version = @ + 1].version
           = x.version + 1
  BY <1>1, <1>2 DEF Row, Status
<1> QED
  BY <1>2, <1>3, <1>4 DEF x, Rebooked, CancelledRow

(* The link of a guest moves to another natural instant.                   *)
LEMMA MovedLinkIsInstant ==
  ASSUME TypeOK, LinksOutliveArrivals, NEW r \in Reservation,
         row[r].status # "FREE", NEW b \in Booking
  PROVE  MovedLink(r, b) \in Nat
<1>1. When(b) \in Nat /\ When(row[r].booking) \in Nat /\ link[r] \in Nat
  BY ArrivalsAreInstants DEF TypeOK, Row
<1>2. row[r].origin = "PUBLIC" => link[r] - When(row[r].booking) \in Nat
  BY ServiceAssumption DEF LinksOutliveArrivals, LinkLife
<1> QED
  BY <1>1, <1>2 DEF MovedLink

LEMMA RebookIsTyped ==
  ASSUME TypeOK, LinksOutliveArrivals, NEW r \in Reservation, Confirmed(r),
         NEW b \in Booking, NEW o \in BOOLEAN, Rebook(r, b, o)
  PROVE  TypeOK'
<1>1. row[r] \in Row /\ row[r].status = "CONFIRMED" /\ b.service \in Service
  BY DEF TypeOK, Confirmed, Booking
<1>2. row[r].version + 1 \in 1..MaxVersion
  BY RebookedIsRow DEF Confirmed
<1>3. /\ Rebooked(r, b, o) \in Row
      /\ Rebooked(r, b, o).version = row[r].version + 1
  BY RebookedIsRow DEF Confirmed
<1>4. RoomAfter(r, b) \in Room \cup {NoRoom}
  BY DEF RoomAfter, TypeOK
<1>5. MovedLink(r, b) \in Nat
  BY <1>1, MovedLinkIsInstant
<1>6. /\ Superseded(leg[r]) \in SUBSET Leg
      /\ NewLeg("UPDATED", row[r].version + 1, b) \in Leg
      /\ Reminder(row[r].version + 1, b) \in SUBSET Leg
  BY <1>2, SupersededAreLegs, NewLegIsLeg, ReminderIsLeg DEF TypeOK
<1>7. leg' \in [Reservation -> SUBSET Leg]
  BY <1>3, <1>6 DEF Rebook, TypeOK
<1>8. trail' \in [Reservation -> [changes : Nat, status : Status,
                                  booking : Booking, override : BOOLEAN,
                                  room : Room \cup {NoRoom}]]
  BY <1>3, <1>4 DEF Rebook, Audited, TypeOK, Row
<1>9. hosted' \in SUBSET Service
  BY <1>1 DEF Rebook, Materialised, TypeOK
<1> QED
  BY <1>3, <1>4, <1>5, <1>7, <1>8, <1>9 DEF Rebook, TypeOK

LEMMA DropIsTyped ==
  ASSUME TypeOK, NEW r \in Reservation, Confirmed(r), Drop(r)
  PROVE  TypeOK'
<1>1. TRUE \in BOOLEAN /\ row[r].booking \in Booking
  BY DEF TypeOK, Row
<1>2. row[r].version + 1 \in 1..MaxVersion
  BY <1>1, RebookedIsRow DEF Confirmed
<1>3. /\ CancelledRow(r) \in Row
      /\ CancelledRow(r).version = row[r].version + 1
  BY <1>1, RebookedIsRow DEF Confirmed
<1>4. /\ Superseded(leg[r]) \in SUBSET Leg
      /\ NewLeg("CANCELLED", row[r].version + 1, CancelledRow(r).booking)
           \in Leg
  BY <1>2, <1>3, SupersededAreLegs, NewLegIsLeg DEF TypeOK, Row
<1>5. leg' \in [Reservation -> SUBSET Leg]
  BY <1>3, <1>4 DEF Drop, TypeOK
<1>6. trail' \in [Reservation -> [changes : Nat, status : Status,
                                  booking : Booking, override : BOOLEAN,
                                  room : Room \cup {NoRoom}]]
  BY <1>3 DEF Drop, Audited, TypeOK, Row
<1> QED
  BY <1>3, <1>5, <1>6 DEF Drop, TypeOK

LEMMA TouchIsTyped ==
  ASSUME TypeOK, NEW r \in Reservation, NEW x \in Row,
         x.version < MaxVersion, NEW room \in Room \cup {NoRoom},
         Touch(r, x, room)
  PROVE  TypeOK'
<1>1. [x EXCEPT !.version = @ + 1] \in Row
  BY ServiceAssumption DEF Row
<1>2. trail' \in [Reservation -> [changes : Nat, status : Status,
                                  booking : Booking, override : BOOLEAN,
                                  room : Room \cup {NoRoom}]]
  BY DEF Touch, Audited, TypeOK, Row
<1> QED
  BY <1>1, <1>2 DEF Touch, TypeOK

(* The worker's steps change the legs of one reservation.                  *)
LEMMA WorkerIsTyped ==
  ASSUME TypeOK, NEW r \in Reservation, Worker(r)
  PROVE  TypeOK'
<1>1. PICK l \in leg[r] : \/ Claim(r, l) \/ Deliver(r, l) \/ Expire(r, l)
                          \/ \E again \in BOOLEAN : Fail(r, l, again)
  BY DEF Worker
<1>2. leg[r] \in SUBSET Leg /\ l \in Leg
  BY DEF TypeOK
<1>3. \A st \in {"PENDING", "CLAIMED", "RECALLED", "SUCCEEDED"} :
         [l EXCEPT !.status = st] \in Leg
  BY <1>2 DEF Leg
<1>4. \E L \in SUBSET Leg : leg' = [leg EXCEPT ![r] = L]
  <2>1. CASE Claim(r, l)
    BY <1>2, <1>3, <2>1 DEF Claim
  <2>2. CASE Deliver(r, l)
    BY <1>2, <1>3, <2>2 DEF Deliver
  <2>3. CASE Expire(r, l)
    BY <1>2, <2>3 DEF Expire
  <2>4. ASSUME NEW again \in BOOLEAN, Fail(r, l, again)
        PROVE  \E L \in SUBSET Leg : leg' = [leg EXCEPT ![r] = L]
    BY <1>2, <1>3, <2>4 DEF Fail
  <2> QED
    BY <1>1, <2>1, <2>2, <2>3, <2>4
<1>5. UNCHANGED <<now, row, key, link, hosted, seat, trail>>
  BY <1>1 DEF Claim, Deliver, Expire, Fail
<1> QED
  BY <1>4, <1>5 DEF TypeOK

-----------------------------------------------------------------------------
(* Arrivals, notes and rooms touch a reservation without moving it.        *)
Notes(r) ==
  \/ \E a \in BOOLEAN : PutReservationArrival(r, a)
  \/ \E n \in Detail : PutReservationPrivateNotes(r, n)
  \/ \E room \in Room : AssignReservationRoom(r, room)
  \/ DeleteReservationAssignment(r)

LEMMA NotesTouch ==
  ASSUME TypeOK, NEW r \in Reservation, Notes(r)
  PROVE  TouchesOne(r)
<1>0. row[r] \in Row /\ seat[r] \in Room \cup {NoRoom}
  BY DEF TypeOK
<1>1. ASSUME NEW a \in BOOLEAN, PutReservationArrival(r, a)
      PROVE  TouchesOne(r)
  <2>1. /\ Arrived(r, a) \in Row
        /\ \A f \in {"status", "origin", "booking", "override", "version"} :
              Arrived(r, a)[f] = row[r][f]
    BY <1>0 DEF Arrived, Row
  <2> QED
    BY <1>0, <1>1, <2>1 DEF PutReservationArrival, TouchesOne
<1>2. ASSUME NEW n \in Detail, PutReservationPrivateNotes(r, n)
      PROVE  TouchesOne(r)
  <2>1. /\ [row[r] EXCEPT !.note = n] \in Row
        /\ \A f \in {"status", "origin", "booking", "override", "version"} :
              [row[r] EXCEPT !.note = n][f] = row[r][f]
    BY <1>0 DEF Row
  <2> QED
    BY <1>0, <1>2, <2>1 DEF PutReservationPrivateNotes, Confirmed, TouchesOne
<1>3. ASSUME NEW room \in Room, AssignReservationRoom(r, room)
      PROVE  TouchesOne(r)
  BY <1>0, <1>3 DEF AssignReservationRoom, WriteRoom, Confirmed, TouchesOne
<1>4. CASE DeleteReservationAssignment(r)
  BY <1>0, <1>4
     DEF DeleteReservationAssignment, ClearRoom, Confirmed, TouchesOne
<1> QED
  BY <1>1, <1>2, <1>3, <1>4 DEF Notes

(* Every handler is one of the four kinds of writes.                       *)
LEMMA HandlersWrite ==
  ASSUME TypeOK, NEW r \in Reservation, Handler(r)
  PROVE  Writes(r)
<1>0. row[r] \in Row /\ seat[r] \in Room \cup {NoRoom}
  BY DEF TypeOK
<1>1. ASSUME NEW k \in Key, NEW b \in Asked, NEW life \in LinkLives,
             CreatePublicReservation(k, r, b, life)
      PROVE  StoresNew(r)
  <2>1. PublicRow(b) \in Row
    BY NewRowIsRow DEF PublicRow, Asked
  <2>2. /\ PublicRow(b).status = "CONFIRMED" /\ PublicRow(b).version = 1
        /\ PublicRow(b).origin = "PUBLIC" /\ PublicRow(b).booking = b
    BY DEF PublicRow, NewRow
  <2> QED
    BY <1>1, <2>1, <2>2 DEF CreatePublicReservation, StoresNew
<1>2. ASSUME NEW k \in Key, NEW b \in Asked, NEW o \in BOOLEAN,
             CreatePhoneReservation(k, r, b, o)
      PROVE  StoresNew(r)
  <2>1. PhoneRow(b, o) \in Row
    BY NewRowIsRow DEF PhoneRow, Asked
  <2>2. /\ PhoneRow(b, o).status = "CONFIRMED" /\ PhoneRow(b, o).version = 1
        /\ PhoneRow(b, o).origin = "PHONE"
    BY DEF PhoneRow, NewRow
  <2> QED
    BY <1>2, <2>1, <2>2 DEF CreatePhoneReservation, StoresNew
<1>3. ASSUME NEW b \in Asked, UpdateManagedPublicReservation(r, b)
      PROVE  RebooksOne(r)
  BY <1>0, <1>3
     DEF UpdateManagedPublicReservation, GuestMayChange, RebooksOne, Asked, Row
<1>4. ASSUME NEW b \in Asked, NEW o \in BOOLEAN,
             UpdateStaffReservation(r, b, o)
      PROVE  RebooksOne(r)
  BY <1>0, <1>4 DEF UpdateStaffReservation, RebooksOne, Asked, Row
<1>5. CASE CancelManagedPublicReservation(r)
  BY <1>5 DEF CancelManagedPublicReservation, GuestMayChange, Writes
<1>6. CASE CancelStaffReservation(r)
  BY <1>6 DEF CancelStaffReservation, Writes
<1>7. CASE Notes(r)
  BY <1>7, NotesTouch DEF Writes
<1> QED
  BY <1>1, <1>2, <1>3, <1>4, <1>5, <1>6, <1>7 DEF Handler, Notes, Writes

LEMMA NextIsTyped ==
  TypeOK /\ LinksOutliveArrivals /\ [Next]_vars => TypeOK'
<1> SUFFICES ASSUME TypeOK, LinksOutliveArrivals, [Next]_vars PROVE TypeOK'
  OBVIOUS
<1>1. ASSUME NEW r \in Reservation, StoresNew(r) PROVE TypeOK'
  <2>1. PICK k \in Key, x \in Row :
           /\ Store(k, r, x)
           /\ \/ \E life \in LinkLives :
                    link' = [link EXCEPT ![r] = When(x.booking) + life]
              \/ UNCHANGED link
    BY <1>1 DEF StoresNew
  <2>2. x.booking \in Booking
    BY DEF Row
  <2>3. \A life \in LinkLives : When(x.booking) + life \in Nat
    BY <2>2, ArrivalsAreInstants, ServiceAssumption
  <2>4. link' \in [Reservation -> Nat]
    BY <2>1, <2>3 DEF TypeOK
  <2> QED
    BY <2>1, <2>4, StoreIsTyped
<1>2. ASSUME NEW r \in Reservation, RebooksOne(r) PROVE TypeOK'
  BY <1>2, RebookIsTyped DEF RebooksOne
<1>3. ASSUME NEW r \in Reservation, Confirmed(r), Drop(r) PROVE TypeOK'
  BY <1>3, DropIsTyped
<1>4. ASSUME NEW r \in Reservation, TouchesOne(r) PROVE TypeOK'
  BY <1>4, TouchIsTyped DEF TouchesOne
<1>5. ASSUME NEW r \in Reservation, Worker(r) PROVE TypeOK'
  BY <1>5, WorkerIsTyped
<1>6. CASE CleanupExpiredKeys
  BY <1>6 DEF CleanupExpiredKeys, TypeOK
<1>7. CASE Tick
  BY <1>7, ServiceAssumption DEF Tick, TypeOK
<1>8. CASE UNCHANGED vars
  BY <1>8 DEF vars, TypeOK
<1> QED
  BY <1>1, <1>2, <1>3, <1>4, <1>5, <1>6, <1>7, <1>8, HandlersWrite DEF Next, Writes

-----------------------------------------------------------------------------
(* The other parts of the invariant.  What each kind of write does to the  *)
(* rows: nothing but reservation r changes.                                *)
LEMMA WritesChangeOneRow ==
  ASSUME TypeOK, NEW r \in Reservation,
         Writes(r)
  PROVE  /\ \A q \in Reservation \ {r} :
              /\ row'[q] = row[q] /\ seat'[q] = seat[q]
              /\ trail'[q] = trail[q] /\ link'[q] = link[q]
              /\ leg'[q] = leg[q]
         /\ hosted \subseteq hosted'
         /\ row'[r].status # "FREE"
<1>1. CASE StoresNew(r)
  BY <1>1 DEF StoresNew, Store, Audited, TypeOK
<1>2. CASE RebooksOne(r)
  <2>1. PICK b \in Booking, o \in BOOLEAN : Rebook(r, b, o)
    BY <1>2 DEF RebooksOne
  <2>2. row[r].status = "CONFIRMED" /\ row[r] \in Row
    BY <1>2 DEF RebooksOne, Confirmed, TypeOK
  <2>3. Rebooked(r, b, o).status = "CONFIRMED"
    BY <2>2 DEF Rebooked, Row
  <2> QED
    BY <2>1, <2>3 DEF Rebook, Audited, Materialised, TypeOK
<1>3. CASE Confirmed(r) /\ Drop(r)
  <2>1. CancelledRow(r).status = "CANCELLED"
    BY DEF CancelledRow, TypeOK, Row
  <2> QED
    BY <1>3, <2>1 DEF Drop, Audited, TypeOK
<1>4. CASE TouchesOne(r)
  <2>1. PICK x \in Row, room \in Room \cup {NoRoom} :
           /\ row[r].status # "FREE"
           /\ x["status"] = row[r]["status"]
           /\ Touch(r, x, room)
    BY <1>4 DEF TouchesOne
  <2>2. [x EXCEPT !.version = @ + 1].status = row[r].status
    BY <2>1 DEF Row
  <2> QED
    BY <2>1, <2>2 DEF Touch, Audited, TypeOK
<1> QED
  BY <1>1, <1>2, <1>3, <1>4 DEF Writes

(* A write of a handler leaves the reservation it wrote as the invariant   *)
(* wants it.                                                               *)
LEMMA WritesLeaveNoBlank ==
  ASSUME TypeOK, FreeIsBlank, NEW r \in Reservation,
         Writes(r)
  PROVE  FreeIsBlank'
BY WritesChangeOneRow DEF FreeIsBlank

LEMMA StoringKeepsTheLink ==
  ASSUME TypeOK, NEW r \in Reservation, StoresNew(r)
  PROVE  row'[r].origin = "PUBLIC" => LinkLife(r)' \in LinkLives
<1>1. PICK k \in Key, x \in Row :
         /\ Store(k, r, x)
         /\ \/ /\ x.origin = "PUBLIC"
               /\ \E life \in LinkLives :
                     link' = [link EXCEPT ![r] = When(x.booking) + life]
            \/ x.origin = "PHONE"
  BY DEF StoresNew
<1>2. row'[r] = x /\ When(x.booking) \in Nat
  BY <1>1, ArrivalsAreInstants DEF Store, TypeOK, Row
<1>3. CASE x.origin = "PHONE"
  BY <1>2, <1>3
<1>4. ASSUME NEW life \in LinkLives,
             link' = [link EXCEPT ![r] = When(x.booking) + life]
      PROVE  LinkLife(r)' \in LinkLives
  <2>1. link'[r] = When(x.booking) + life
    BY <1>4 DEF TypeOK
  <2>2. LinkLife(r)' = link'[r] - When(row'[r].booking)
    BY DEF LinkLife, When
  <2> QED
    BY <1>2, <2>1, <2>2, ServiceAssumption
<1> QED
  BY <1>1, <1>3, <1>4

LEMMA RebookingKeepsTheLink ==
  ASSUME TypeOK, NEW r \in Reservation, RebooksOne(r),
         row[r].origin = "PUBLIC"
  PROVE  LinkLife(r)' = LinkLife(r) /\ row'[r].origin = "PUBLIC"
<1>1. PICK b \in Booking, o \in BOOLEAN : Rebook(r, b, o)
  BY DEF RebooksOne
<1>2. row[r] \in Row /\ link[r] \in Nat
  BY DEF TypeOK
<1>3. When(b) \in Nat /\ When(row[r].booking) \in Nat
  BY <1>2, ArrivalsAreInstants DEF Row
<1>4. row'[r].booking = b /\ row'[r].origin = "PUBLIC"
  BY <1>1, <1>2 DEF Rebook, Rebooked, Row, TypeOK
<1>5. link'[r] = When(b) + (link[r] - When(row[r].booking))
  BY <1>1 DEF Rebook, MovedLink, TypeOK
<1>6. LinkLife(r)' = link'[r] - When(row'[r].booking)
  BY DEF LinkLife, When
<1> QED
  BY <1>2, <1>3, <1>4, <1>5, <1>6 DEF LinkLife

LEMMA DroppingKeepsTheLink ==
  ASSUME TypeOK, NEW r \in Reservation,
         (Confirmed(r) /\ Drop(r)) \/ TouchesOne(r)
  PROVE  /\ LinkLife(r)' = LinkLife(r)
         /\ row'[r].origin = row[r].origin
         /\ row'[r].booking = row[r].booking
<1>1. CASE Confirmed(r) /\ Drop(r)
  BY <1>1 DEF Drop, CancelledRow, LinkLife, When, TypeOK, Row
<1>2. CASE TouchesOne(r)
  <2>1. PICK x \in Row, room \in Room \cup {NoRoom} :
           /\ x["origin"] = row[r]["origin"]
           /\ x["booking"] = row[r]["booking"]
           /\ Touch(r, x, room)
    BY <1>2 DEF TouchesOne
  <2>2. /\ row'[r].origin = row[r].origin
        /\ row'[r].booking = row[r].booking
        /\ link' = link
    BY <2>1 DEF Touch, TypeOK, Row
  <2> QED
    BY <2>2 DEF LinkLife, When
<1> QED
  BY <1>1, <1>2

LEMMA WritesKeepTheLinks ==
  ASSUME TypeOK, LinksOutliveArrivals, NEW r \in Reservation,
         Writes(r)
  PROVE  LinksOutliveArrivals'
<1> SUFFICES ASSUME NEW q \in Reservation, row'[q].status # "FREE",
                    row'[q].origin = "PUBLIC"
             PROVE  LinkLife(q)' \in LinkLives
  BY DEF LinksOutliveArrivals
<1>1. CASE q # r
  <2>1. row'[q] = row[q] /\ link'[q] = link[q]
    BY <1>1, WritesChangeOneRow
  <2> QED
    BY <2>1 DEF LinksOutliveArrivals, LinkLife, When
<1>2. CASE q = r /\ StoresNew(r)
  BY <1>2, StoringKeepsTheLink
<1>3. CASE q = r /\ RebooksOne(r)
  <2>1. row[r].status = "CONFIRMED"
    BY <1>3 DEF RebooksOne, Confirmed
  <2>2. row[r].origin = "PUBLIC"
    <3>1. PICK b \in Booking, o \in BOOLEAN : Rebook(r, b, o)
      BY <1>3 DEF RebooksOne
    <3>2. row'[r].origin = row[r].origin
      BY <3>1 DEF Rebook, Rebooked, TypeOK, Row
    <3> QED
      BY <1>3, <3>2
  <2> QED
    BY <1>3, <2>1, <2>2, RebookingKeepsTheLink DEF LinksOutliveArrivals
<1>4. CASE q = r /\ ((Confirmed(r) /\ Drop(r)) \/ TouchesOne(r))
  <2>1. row[r].status # "FREE"
    BY <1>4 DEF Confirmed, TouchesOne
  <2> QED
    BY <1>4, <2>1, DroppingKeepsTheLink DEF LinksOutliveArrivals
<1> QED
  BY <1>1, <1>2, <1>3, <1>4 DEF Writes

LEMMA AuditedSaysWhatIsLeft ==
  ASSUME TypeOK, NEW r \in Reservation, NEW x, NEW room,
         trail' = Audited(r, x, room)
  PROVE  /\ trail'[r].changes = trail[r].changes + 1
         /\ trail'[r].status = x.status
         /\ trail'[r].booking = x.booking
         /\ trail'[r].override = x.override
         /\ trail'[r].room = room
BY DEF Audited, TypeOK

LEMMA WritesAreAudited ==
  ASSUME TypeOK, FreeIsBlank, AuditTracksTables, NEW r \in Reservation,
         Writes(r)
  PROVE  AuditTracksTables'
<1> DEFINE Agrees(q) ==
             /\ trail'[q].changes = row'[q].version
             /\ trail'[q].status = row'[q].status
             /\ trail'[q].booking = row'[q].booking
             /\ trail'[q].override = row'[q].override
             /\ trail'[q].room = seat'[q]
<1>0. row[r] \in Row /\ trail[r].changes = row[r].version
  BY DEF TypeOK, AuditTracksTables
<1>1. ASSUME StoresNew(r) PROVE Agrees(r)
  <2>1. PICK k \in Key, x \in Row : x.version = 1 /\ Store(k, r, x)
    BY <1>1 DEF StoresNew
  <2>2. trail[r].changes = 0 /\ seat'[r] = NoRoom
    BY <1>0, <1>1, <2>1 DEF StoresNew, FreeIsBlank, Store
  <2>3. row'[r] = x /\ trail' = Audited(r, x, NoRoom)
    BY <2>1 DEF Store, TypeOK
  <2> QED
    BY <2>1, <2>2, <2>3, AuditedSaysWhatIsLeft
<1>2. ASSUME RebooksOne(r) PROVE Agrees(r)
  <2>1. PICK b \in Booking, o \in BOOLEAN : Rebook(r, b, o)
    BY <1>2 DEF RebooksOne
  <2>2. /\ row'[r] = Rebooked(r, b, o) /\ seat'[r] = RoomAfter(r, b)
        /\ trail' = Audited(r, Rebooked(r, b, o), RoomAfter(r, b))
    BY <2>1 DEF Rebook, TypeOK
  <2>3. Rebooked(r, b, o).version = row[r].version + 1
    BY <1>2, RebookedIsRow DEF RebooksOne, Confirmed
  <2> QED
    BY <1>0, <2>2, <2>3, AuditedSaysWhatIsLeft
<1>3. ASSUME Confirmed(r), Drop(r) PROVE Agrees(r)
  <2>1. /\ row'[r] = CancelledRow(r) /\ seat'[r] = seat[r]
        /\ trail' = Audited(r, CancelledRow(r), seat[r])
    BY <1>3 DEF Drop, TypeOK
  <2>2. CancelledRow(r).version = row[r].version + 1
    BY <1>0 DEF CancelledRow, Row
  <2> QED
    BY <1>0, <2>1, <2>2, AuditedSaysWhatIsLeft
<1>4. ASSUME TouchesOne(r) PROVE Agrees(r)
  <2>1. PICK x \in Row, room \in Room \cup {NoRoom} :
           x["version"] = row[r]["version"] /\ Touch(r, x, room)
    BY <1>4 DEF TouchesOne
  <2>2. /\ row'[r] = [x EXCEPT !.version = @ + 1] /\ seat'[r] = room
        /\ trail' = Audited(r, x, room)
    BY <2>1 DEF Touch, TypeOK
  <2>3. /\ row'[r].version = row[r].version + 1
        /\ row'[r].status = x.status /\ row'[r].booking = x.booking
        /\ row'[r].override = x.override
    BY <2>1, <2>2 DEF Row
  <2> QED
    BY <1>0, <2>2, <2>3, AuditedSaysWhatIsLeft
<1>5. Agrees(r)
  BY <1>1, <1>2, <1>3, <1>4 DEF Writes
<1> QED
  BY <1>5, WritesChangeOneRow DEF AuditTracksTables

-----------------------------------------------------------------------------
(* What may still be sent about one reservation, given a set of legs.      *)
Current(L, x) ==
  LET live == {l \in L : l.status \in {"PENDING", "CLAIMED"}}
  IN  /\ \A l \in live : /\ l.booking = x.booking
                         /\ l.event = "CANCELLED" <=> x.status = "CANCELLED"
      /\ \A l, m \in live : l.event = "REMINDER" /\ m.event = "REMINDER"
                              => l = m

LEMMA LiveLegsOfEach ==
  LiveLegsAreCurrent <=> \A r \in Reservation : Current(leg[r], row[r])
BY DEF LiveLegsAreCurrent, LiveLegs, Current

(* A plan replaces what was alive: at most one reminder comes with it.     *)
LEMMA PlansAreCurrent ==
  ASSUME NEW L \in SUBSET Leg, NEW v, NEW x,
         NEW event \in {"CONFIRMED", "UPDATED", "CANCELLED"},
         event = "CANCELLED" <=> x.status = "CANCELLED",
         NEW R \in SUBSET Reminder(v, x.booking),
         R # {} => event # "CANCELLED",
         \A l \in L : l.status \in {"RECALLED", "SUCCEEDED"}
  PROVE  Current(L \cup {NewLeg(event, v, x.booking)} \cup R, x)
<1> DEFINE new == NewLeg(event, v, x.booking)
           rem == NewLeg("REMINDER", v, x.booking)
<1>1. /\ new.event = event /\ new.booking = x.booking
      /\ rem.event = "REMINDER" /\ rem.booking = x.booking
  BY DEF NewLeg
<1>2. R \subseteq {rem}
  BY DEF Reminder
<1>3. \A l \in L \cup {new} \cup R :
         l.status \in {"PENDING", "CLAIMED"} => l = new \/ (l = rem /\ R # {})
  BY <1>2
<1> HIDE DEF new, rem
<1> QED
  BY <1>1, <1>3 DEF Current, new

LEMMA WritesKeepLegsCurrent ==
  ASSUME TypeOK, LiveLegsAreCurrent, NEW r \in Reservation,
         Writes(r)
  PROVE  LiveLegsAreCurrent'
<1>0. row[r] \in Row /\ leg[r] \in SUBSET Leg
  BY DEF TypeOK
<1>1. ASSUME StoresNew(r) PROVE Current(leg'[r], row'[r])
  <2>1. PICK k \in Key, x \in Row : x.status = "CONFIRMED" /\ Store(k, r, x)
    BY <1>1 DEF StoresNew
  <2>2. /\ row'[r] = x
        /\ leg'[r] = {NewLeg("CONFIRMED", 1, x.booking)}
                        \cup Reminder(1, x.booking)
    BY <2>1 DEF Store, TypeOK
  <2> DEFINE R == Reminder(1, x.booking)
  <2> HIDE DEF R
  <2>3. Current({} \cup {NewLeg("CONFIRMED", 1, x.booking)} \cup R, x)
    <3>1. {} \in SUBSET Leg /\ R \in SUBSET Reminder(1, x.booking)
      BY DEF R
    <3> QED
      BY <2>1, <3>1, PlansAreCurrent
  <2> QED
    BY <2>2, <2>3 DEF R
<1>2. ASSUME RebooksOne(r) PROVE Current(leg'[r], row'[r])
  <2>1. PICK b \in Booking, o \in BOOLEAN : Rebook(r, b, o)
    BY <1>2 DEF RebooksOne
  <2> DEFINE x == Rebooked(r, b, o)
             R == IF SameSchedule(row[r].booking, b) /\ Reminded(leg[r], b)
                    THEN {} ELSE Reminder(x.version, b)
  <2>2. /\ row'[r] = x
        /\ leg'[r] = Superseded(leg[r]) \cup {NewLeg("UPDATED", x.version, b)}
                        \cup R
    BY <2>1 DEF Rebook, TypeOK
  <2>3. x.status = "CONFIRMED" /\ x.booking = b
    BY <1>0, <1>2 DEF RebooksOne, Confirmed, Rebooked, Row
  <2>4. R \in SUBSET Reminder(x.version, x.booking)
    BY <2>3
  <2> HIDE DEF x, R
  <2>5. Superseded(leg[r]) \in SUBSET Leg
    BY <1>0, SupersededAreLegs
  <2>6. Current(Superseded(leg[r]) \cup {NewLeg("UPDATED", x.version, x.booking)}
                  \cup R, x)
    BY <1>0, <2>3, <2>4, <2>5, SupersededAreDead, PlansAreCurrent
  <2> QED
    BY <2>2, <2>3, <2>6
<1>3. ASSUME Confirmed(r), Drop(r) PROVE Current(leg'[r], row'[r])
  <2> DEFINE x == CancelledRow(r)
  <2>1. /\ row'[r] = x
        /\ leg'[r] = Superseded(leg[r])
                        \cup {NewLeg("CANCELLED", x.version, x.booking)}
    BY <1>3 DEF Drop, TypeOK
  <2>2. x.status = "CANCELLED"
    BY <1>0 DEF CancelledRow, Row
  <2> HIDE DEF x
  <2>3. Superseded(leg[r]) \in SUBSET Leg
    BY <1>0, SupersededAreLegs
  <2>4. Current(Superseded(leg[r])
                  \cup {NewLeg("CANCELLED", x.version, x.booking)} \cup {}, x)
    <3>1. {} \in SUBSET Reminder(x.version, x.booking)
      OBVIOUS
    <3>2. \A l \in Superseded(leg[r]) : l.status \in {"RECALLED", "SUCCEEDED"}
      BY <1>0, SupersededAreDead
    <3>3. "CANCELLED" \in {"CONFIRMED", "UPDATED", "CANCELLED"}
      OBVIOUS
    <3> QED
      BY <2>2, <2>3, <3>1, <3>2, <3>3, PlansAreCurrent
  <2> QED
    BY <2>1, <2>4
<1>4. ASSUME TouchesOne(r) PROVE Current(leg'[r], row'[r])
  <2>1. PICK x \in Row, room \in Room \cup {NoRoom} :
           /\ x["status"] = row[r]["status"]
           /\ x["booking"] = row[r]["booking"]
           /\ Touch(r, x, room)
    BY <1>4 DEF TouchesOne
  <2>2. /\ row'[r].status = row[r].status
        /\ row'[r].booking = row[r].booking
        /\ leg' = leg
    BY <2>1 DEF Touch, TypeOK, Row
  <2>3. Current(leg[r], row[r])
    BY LiveLegsOfEach
  <2> QED
    BY <2>2, <2>3 DEF Current
<1>5. Current(leg'[r], row'[r])
  BY <1>1, <1>2, <1>3, <1>4 DEF Writes
<1>6. \A q \in Reservation \ {r} : Current(leg'[q], row'[q])
  BY WritesChangeOneRow, LiveLegsOfEach
<1>7. \A q \in Reservation : Current(leg'[q], row'[q])
  BY <1>5, <1>6
<1> QED
  BY <1>7 DEF LiveLegsAreCurrent, LiveLegs, Current

(* A live leg may be replaced by one that says the same.                   *)
LEMMA SameWordsAreCurrent ==
  ASSUME NEW L, NEW x, Current(L, x), NEW l \in L, NEW m,
         l.status \in {"PENDING", "CLAIMED"},
         m.event = l.event, m.booking = l.booking
  PROVE  Current((L \ {l}) \cup {m}, x)
<1> DEFINE live(K) == {k \in K : k.status \in {"PENDING", "CLAIMED"}}
<1>1. l \in live(L) /\ \A k \in live((L \ {l}) \cup {m}) :
                          k = m \/ (k \in live(L) /\ k # l)
  OBVIOUS
<1>2. /\ \A k \in live(L) : /\ k.booking = x.booking
                            /\ k.event = "CANCELLED" <=> x.status = "CANCELLED"
      /\ \A j, k \in live(L) : j.event = "REMINDER" /\ k.event = "REMINDER"
                                => j = k
  BY DEF Current
<1>3. \A k \in live((L \ {l}) \cup {m}) :
         /\ k.booking = x.booking
         /\ k.event = "CANCELLED" <=> x.status = "CANCELLED"
  BY <1>1, <1>2
<1>4. \A j, k \in live((L \ {l}) \cup {m}) :
         j.event = "REMINDER" /\ k.event = "REMINDER" => j = k
  BY <1>1, <1>2
<1> QED
  BY <1>3, <1>4 DEF Current

(* The worker takes and ends legs; it plans none.                          *)
LEMMA WorkerKeepsLegsCurrent ==
  ASSUME TypeOK, LiveLegsAreCurrent, NEW r \in Reservation, Worker(r)
  PROVE  LiveLegsAreCurrent'
<1>1. PICK l \in leg[r] : \/ Claim(r, l) \/ Deliver(r, l) \/ Expire(r, l)
                          \/ \E again \in BOOLEAN : Fail(r, l, again)
  BY DEF Worker
<1>2. l \in Leg /\ row' = row /\ Current(leg[r], row[r])
  BY <1>1, LiveLegsOfEach DEF TypeOK, Claim, Deliver, Expire, Fail
<1>3. \A st \in {"PENDING", "CLAIMED", "RECALLED", "SUCCEEDED"} :
         /\ [l EXCEPT !.status = st].status = st
         /\ [l EXCEPT !.status = st].event = l.event
         /\ [l EXCEPT !.status = st].booking = l.booking
  BY <1>2 DEF Leg
<1>4. \/ leg' = [leg EXCEPT ![r] = leg[r] \ {l}]
      \/ leg' = [leg EXCEPT ![r] = (leg[r] \ {l})
                    \cup {[l EXCEPT !.status = "SUCCEEDED"]}]
      \/ /\ l.status \in {"PENDING", "CLAIMED"}
         /\ \E st \in {"PENDING", "CLAIMED"} :
               leg' = [leg EXCEPT ![r] = (leg[r] \ {l})
                         \cup {[l EXCEPT !.status = st]}]
  BY <1>1 DEF Claim, Deliver, Expire, Fail
<1>5. Current(leg'[r], row[r])
  <2>1. CASE leg'[r] = leg[r] \ {l}
    BY <1>2, <2>1 DEF Current
  <2>2. CASE leg'[r] = (leg[r] \ {l}) \cup {[l EXCEPT !.status = "SUCCEEDED"]}
    <3> DEFINE m == [l EXCEPT !.status = "SUCCEEDED"]
    <3>1. m.status = "SUCCEEDED" /\ leg'[r] = (leg[r] \ {l}) \cup {m}
      BY <1>3, <2>2
    <3> HIDE DEF m
    <3>2. \A k \in leg'[r] : k.status \in {"PENDING", "CLAIMED"} => k \in leg[r]
      BY <3>1
    <3> QED
      BY <1>2, <3>2 DEF Current
  <2>3. ASSUME NEW st \in {"PENDING", "CLAIMED"},
               l.status \in {"PENDING", "CLAIMED"},
               leg'[r] = (leg[r] \ {l}) \cup {[l EXCEPT !.status = st]}
        PROVE  Current(leg'[r], row[r])
    <3> DEFINE m == [l EXCEPT !.status = st]
    <3>1. m.status = st /\ m.event = l.event /\ m.booking = l.booking
      BY <1>3
    <3>2. leg'[r] = (leg[r] \ {l}) \cup {m}
      BY <2>3
    <3> HIDE DEF m
    <3> QED
      BY <1>2, <2>3, <3>1, <3>2, SameWordsAreCurrent
  <2> QED
    BY <1>4, <2>1, <2>2, <2>3 DEF TypeOK
<1>6. \A q \in Reservation : Current(leg'[q], row'[q])
  BY <1>2, <1>4, <1>5, LiveLegsOfEach DEF TypeOK
<1> QED
  BY <1>6 DEF LiveLegsAreCurrent, LiveLegs, Current

-----------------------------------------------------------------------------
LEMMA WritesHostServices ==
  ASSUME TypeOK, BookedServicesAreHosted, NEW r \in Reservation,
         Writes(r)
  PROVE  BookedServicesAreHosted'
<1>0. row[r].status # "FREE" => row[r].booking.service \in hosted
  BY DEF BookedServicesAreHosted
<1>1. ASSUME StoresNew(r) PROVE row'[r].booking.service \in hosted'
  BY <1>1 DEF StoresNew, Store, TypeOK
<1>2. ASSUME RebooksOne(r) PROVE row'[r].booking.service \in hosted'
  <2>1. PICK b \in Booking, o \in BOOLEAN : Rebook(r, b, o)
    BY <1>2 DEF RebooksOne
  <2>2. row'[r].booking = b /\ hosted' = Materialised(r, b)
    BY <2>1 DEF Rebook, Rebooked, TypeOK, Row
  <2> QED
    BY <1>0, <1>2, <2>2 DEF RebooksOne, Confirmed, Materialised
<1>3. ASSUME (Confirmed(r) /\ Drop(r)) \/ TouchesOne(r)
      PROVE  row'[r].booking.service \in hosted'
  <2>1. row'[r].booking = row[r].booking /\ row[r].status # "FREE"
    BY <1>3, DroppingKeepsTheLink DEF Confirmed, TouchesOne
  <2> QED
    BY <1>0, <2>1, WritesChangeOneRow
<1>4. row'[r].booking.service \in hosted'
  BY <1>1, <1>2, <1>3 DEF Writes
<1> QED
  BY <1>4, WritesChangeOneRow DEF BookedServicesAreHosted

-----------------------------------------------------------------------------
LEMMA InitIsInvariant == Init => ServiceInv
<1> SUFFICES ASSUME Init PROVE ServiceInv
  OBVIOUS
<1>1. TypeOK
  BY InitIsTyped
<1>2. \A r \in Reservation :
         /\ row[r].status = "FREE" /\ row[r].version = 0
         /\ trail[r].changes = 0 /\ seat[r] = NoRoom /\ leg[r] = {}
  BY DEF Init, NewRow
<1> QED
  BY <1>1, <1>2
     DEF ServiceInv, FreeIsBlank, LinksOutliveArrivals, AuditTracksTables,
         LiveLegsAreCurrent, LiveLegs, BookedServicesAreHosted

(* The invariant is kept by every step.                                    *)
LEMMA NextIsInvariant == ServiceInv /\ [Next]_vars => ServiceInv'
<1> SUFFICES ASSUME ServiceInv, [Next]_vars PROVE ServiceInv'
  OBVIOUS
<1>0. /\ TypeOK /\ FreeIsBlank /\ LinksOutliveArrivals /\ AuditTracksTables
      /\ LiveLegsAreCurrent /\ BookedServicesAreHosted
  BY DEF ServiceInv
<1>1. TypeOK'
  BY <1>0, NextIsTyped
<1>2. ASSUME NEW r \in Reservation, Handler(r) PROVE ServiceInv'
  <2>1. Writes(r)
    BY <1>0, <1>2, HandlersWrite
  <2>2. FreeIsBlank'
    BY <1>0, <2>1, WritesLeaveNoBlank
  <2>3. LinksOutliveArrivals'
    BY <1>0, <2>1, WritesKeepTheLinks
  <2>4. AuditTracksTables'
    BY <1>0, <2>1, WritesAreAudited
  <2>5. LiveLegsAreCurrent'
    BY <1>0, <2>1, WritesKeepLegsCurrent
  <2>6. BookedServicesAreHosted'
    BY <1>0, <2>1, WritesHostServices
  <2> QED
    BY <1>1, <2>2, <2>3, <2>4, <2>5, <2>6 DEF ServiceInv
<1>3. ASSUME UNCHANGED <<row, link, hosted, seat, trail>>, LiveLegsAreCurrent'
      PROVE  ServiceInv'
  BY <1>0, <1>1, <1>3
     DEF ServiceInv, FreeIsBlank, LinksOutliveArrivals, LinkLife, When,
         AuditTracksTables, BookedServicesAreHosted
<1>4. ASSUME UNCHANGED <<row, link, hosted, seat, trail, leg>>
      PROVE  ServiceInv'
  BY <1>0, <1>3, <1>4 DEF LiveLegsAreCurrent, LiveLegs
<1>5. ASSUME NEW r \in Reservation, Worker(r) PROVE ServiceInv'
  <2>1. UNCHANGED <<row, link, hosted, seat, trail>>
    BY <1>5 DEF Worker, Claim, Deliver, Expire, Fail
  <2> QED
    BY <1>0, <1>3, <1>5, <2>1, WorkerKeepsLegsCurrent
<1>6. CASE CleanupExpiredKeys
  BY <1>4, <1>6 DEF CleanupExpiredKeys
<1>7. CASE Tick
  BY <1>4, <1>7 DEF Tick
<1>8. CASE UNCHANGED vars
  BY <1>4, <1>8 DEF vars
<1> QED
  BY <1>2, <1>5, <1>6, <1>7, <1>8 DEF Next

(* The invariant holds whatever the handlers, the worker and the clock do. *)
THEOREM ServiceInvHolds == Spec => []ServiceInv
BY InitIsInvariant, NextIsInvariant, PTL DEF Spec

(* The tables hold records of their kinds for every set of reservations,   *)
(* keys, services and slots; a moved link is never an instant before zero. *)
THEOREM ServiceIsTyped == Spec => []TypeOK
BY ServiceInvHolds, PTL DEF ServiceInv

(* The audit trail can be replayed: it counts the versions and says what   *)
(* the tables hold, the room lost with a schedule included.                *)
THEOREM AuditTracksTablesHolds == Spec => []AuditTracksTables
BY ServiceInvHolds, PTL DEF ServiceInv

(* Whatever the worker may still send without being asked back speaks of   *)
(* the reservation as it is, and at most one reminder is on its way.       *)
THEOREM LiveLegsAreCurrentHolds == Spec => []LiveLegsAreCurrent
BY ServiceInvHolds, PTL DEF ServiceInv

(* No reservation is ever booked into a service that was not materialised. *)
THEOREM BookedServicesAreHostedHolds == Spec => []BookedServicesAreHosted
BY ServiceInvHolds, PTL DEF ServiceInv

-----------------------------------------------------------------------------
(* Action properties.                                                      *)

(* However often a guest or the staff move a reservation, its link lives   *)
(* as long past the arrival as on the day it was given.                    *)
THEOREM LinkLifeStaysHolds == Spec => LinkLifeStays
<1> DEFINE Stays == \A r \in Reservation :
                      row[r].status # "FREE" /\ row[r].origin = "PUBLIC"
                        => LinkLife(r)' = LinkLife(r)
<1>1. TypeOK /\ [Next]_vars => [Stays]_vars
  <2> SUFFICES ASSUME TypeOK, Next, NEW q \in Reservation,
                      row[q].status # "FREE", row[q].origin = "PUBLIC"
               PROVE  LinkLife(q)' = LinkLife(q)
    OBVIOUS
  <2>1. ASSUME row'[q] = row[q], link'[q] = link[q]
        PROVE  LinkLife(q)' = LinkLife(q)
    BY <2>1 DEF LinkLife, When
  <2>2. ASSUME NEW r \in Reservation, Handler(r)
        PROVE  LinkLife(q)' = LinkLife(q)
    <3>1. Writes(r)
      BY <2>2, HandlersWrite
    <3>2. CASE q # r
      <4>1. row'[q] = row[q] /\ link'[q] = link[q]
        BY <3>1, <3>2, WritesChangeOneRow
      <4> QED
        BY <2>1, <4>1
    <3>3. CASE q = r /\ RebooksOne(r)
      BY <3>3, RebookingKeepsTheLink
    <3>4. CASE q = r /\ ((Confirmed(r) /\ Drop(r)) \/ TouchesOne(r))
      BY <3>4, DroppingKeepsTheLink
    <3>5. q = r => ~StoresNew(r)
      BY DEF StoresNew
    <3> QED
      BY <3>1, <3>2, <3>3, <3>4, <3>5 DEF Writes
  <2>3. ASSUME NEW r \in Reservation, Worker(r)
        PROVE  LinkLife(q)' = LinkLife(q)
    BY <2>1, <2>3 DEF Worker, Claim, Deliver, Expire, Fail
  <2>4. CASE CleanupExpiredKeys \/ Tick
    BY <2>1, <2>4 DEF CleanupExpiredKeys, Tick
  <2> QED
    BY <2>2, <2>3, <2>4 DEF Next
<1> QED
  BY <1>1, ServiceIsTyped, PTL DEF Spec, LinkLifeStays

(* No step moves a reservation and leaves it in the room chosen for the    *)
(* schedule it had.                                                        *)
THEOREM SeatDiesWithScheduleHolds == Spec => SeatDiesWithSchedule
<1> DEFINE Dies == \A r \in Reservation :
                     /\ row[r].status # "FREE"
                     /\ ~SameSchedule(row[r].booking, row'[r].booking)
                     => seat'[r] = NoRoom
<1>1. TypeOK /\ [Next]_vars => [Dies]_vars
  <2> SUFFICES ASSUME TypeOK, Next, NEW q \in Reservation,
                      row[q].status # "FREE", row'[q].booking # row[q].booking,
                      ~SameSchedule(row[q].booking, row'[q].booking)
               PROVE  seat'[q] = NoRoom
    BY DEF SameSchedule
  <2>1. PICK r \in Reservation : Handler(r)
    BY DEF Next, Worker, Claim, Deliver, Expire, Fail, CleanupExpiredKeys, Tick
  <2>2. Writes(r)
    BY <2>1, HandlersWrite
  <2>3. q = r
    BY <2>2, WritesChangeOneRow
  <2>4. RebooksOne(r)
    BY <2>2, <2>3, DroppingKeepsTheLink DEF StoresNew, Writes
  <2>5. PICK b \in Booking, o \in BOOLEAN : Rebook(r, b, o)
    BY <2>4 DEF RebooksOne
  <2>6. row'[r].booking = b /\ seat'[r] = RoomAfter(r, b)
    BY <2>5 DEF Rebook, Rebooked, TypeOK, Row
  <2> QED
    BY <2>3, <2>6 DEF RoomAfter
<1> QED
  BY <1>1, ServiceIsTyped, PTL DEF Spec, SeatDiesWithSchedule


-----------------------------------------------------------------------------
(* The handlers implement the ledger.  The instance has operators of its   *)
(* own for what both modules take from RollingCapacity and FiniteSets.     *)
LedgerRow(r) ==
  [status   |-> row[r].status,
   service  |-> row[r].booking.service,
   slot     |-> row[r].booking.slot,
   party    |-> row[r].booking.party,
   override |-> row[r].override,
   version  |-> row[r].version]

ledgerRow == [r \in Reservation |-> LedgerRow(r)]

ledgerClaim == [k \in Key |-> IF Remembered(k) THEN key[k].owner
                              ELSE NoReservation]

LEMMA CardinalityOfTheLedger ==
  \A S : Ledger!Cardinality(S) = Cardinality(S)
BY DEF Ledger!Cardinality, Cardinality

(* A party fits for the handlers exactly when it fits for the ledger.      *)
LEMMA FitsOfTheLedger ==
  ASSUME NEW r \in Reservation, NEW b \in Booking
  PROVE  Fits(r, b) <=> Ledger!Fits(r, b.service, b.slot, b.party)
<1> DEFINE A == Arrivals(b.service) \ {r}
<1>1. Ledger!Arrivals(b.service) = Arrivals(b.service)
  BY DEF Ledger!Arrivals, Arrivals
<1>2. A \in SUBSET Reservation
  BY DEF Arrivals
<1> HIDE DEF A
<1>3. ASSUME NEW w
      PROVE  HeadsIn(Seated, A, MaxParty, w, Window)
               = Ledger!HeadsIn(ledgerRow, A, MaxParty, w, Window)
  <2>1. \A q \in A : /\ Seated[q].slot = ledgerRow[q].slot
                     /\ Seated[q].party = ledgerRow[q].party
    BY <1>2 DEF Seated, ledgerRow, LedgerRow
  <2> QED
    BY <2>1 DEF HeadsIn, Ledger!HeadsIn, InWindow, Ledger!InWindow
<1>4. \A w : WindowLoad(Seated, A, MaxParty, w, Window)
               = Ledger!WindowLoad(ledgerRow, A, MaxParty, w, Window)
  BY <1>3, CardinalityOfTheLedger DEF WindowLoad, Ledger!WindowLoad
<1>5. AffectedWindows(Slot, b.slot, Window)
        = Ledger!AffectedWindows(Slot, b.slot, Window)
  BY DEF AffectedWindows, Ledger!AffectedWindows, InWindow, Ledger!InWindow
<1> QED
  BY <1>1, <1>4, <1>5
     DEF Fits, Ledger!Fits, SlotHasRoom, Ledger!SlotHasRoom, A, ledgerRow,
         LedgerRow

LEMMA LedgerStarts == Init => Ledger!Init
<1> SUFFICES ASSUME Init PROVE Ledger!Init
  OBVIOUS
<1>1. \A r \in Reservation :
         /\ row[r].status = "FREE" /\ row[r].version = 0
         /\ row[r].booking = NoBooking /\ row[r].override = FALSE
  BY DEF Init, NewRow
<1>2. \A r \in Reservation : LedgerRow(r) = Ledger!Vacant
  <2> DEFINE s0 == CHOOSE s \in Service : TRUE
             t0 == CHOOSE t \in Slot : TRUE
  <2>1. Ledger!Vacant = [status |-> "FREE", service |-> s0, slot |-> t0,
                         party |-> 0, override |-> FALSE, version |-> 0]
    BY DEF Ledger!Vacant
  <2>2. NoBooking.service = s0 /\ NoBooking.slot = t0 /\ NoBooking.party = 0
    BY DEF NoBooking
  <2> HIDE DEF s0, t0
  <2> QED
    BY <1>1, <2>1, <2>2 DEF LedgerRow
<1>3. \A k \in Key : ~Remembered(k)
  BY DEF Init, Remembered
<1> QED
  BY <1>2, <1>3 DEF Ledger!Init, LedgerRow

(* A step that leaves the entries and the remembered keys alone.           *)
LEMMA LedgerStutters ==
  ASSUME ledgerRow' = ledgerRow, ledgerClaim' = ledgerClaim
  PROVE  UNCHANGED Ledger!vars
BY DEF Ledger!vars, ledgerRow, ledgerClaim, LedgerRow

(* The ledger's actions, read over the mapped variables.                   *)
LEMMA GrantOfTheLedger ==
  ASSUME NEW k, NEW r, NEW s, NEW t, NEW p, NEW o,
         ledgerClaim[k] = NoReservation,
         ledgerRow[r].status = "FREE",
         ledgerRow' = [ledgerRow EXCEPT ![r] =
                         [status |-> "CONFIRMED", service |-> s, slot |-> t,
                          party |-> p, override |-> o, version |-> 1]],
         o \/ Ledger!Fits(r, s, t, p),
         ledgerClaim' = [ledgerClaim EXCEPT ![k] = r]
  PROVE  Ledger!Grant(k, r, s, t, p, o)
BY DEF Ledger!Grant, ledgerRow, ledgerClaim, LedgerRow

LEMMA AmendOfTheLedger ==
  ASSUME NEW r, NEW s, NEW t, NEW p, NEW o,
         ledgerRow[r].status = "CONFIRMED",
         ledgerRow[r].version < MaxVersion,
         ledgerRow' = [ledgerRow EXCEPT ![r] =
                         [status |-> "CONFIRMED", service |-> s, slot |-> t,
                          party |-> p, override |-> o,
                          version |-> ledgerRow[r].version + 1]],
         \/ o
         \/ Ledger!Fits(r, s, t, p)
         \/ <<s, t, p, o>> = <<ledgerRow[r].service, ledgerRow[r].slot,
                               ledgerRow[r].party, ledgerRow[r].override>>,
         ledgerClaim' = ledgerClaim
  PROVE  Ledger!Amend(r, s, t, p, o)
BY DEF Ledger!Amend, ledgerRow, ledgerClaim, LedgerRow

LEMMA AnnotateOfTheLedger ==
  ASSUME NEW r, ledgerRow[r].status # "FREE",
         ledgerRow[r].version < MaxVersion,
         ledgerRow' = [ledgerRow EXCEPT ![r].version = @ + 1],
         ledgerClaim' = ledgerClaim
  PROVE  Ledger!Annotate(r)
BY DEF Ledger!Annotate, ledgerRow, ledgerClaim, LedgerRow

LEMMA CancelOfTheLedger ==
  ASSUME NEW r, ledgerRow[r].status = "CONFIRMED",
         ledgerRow[r].version < MaxVersion,
         ledgerRow' = [ledgerRow EXCEPT ![r].status = "CANCELLED",
                                        ![r].version = @ + 1],
         ledgerClaim' = ledgerClaim
  PROVE  Ledger!Cancel(r)
BY DEF Ledger!Cancel, ledgerRow, ledgerClaim, LedgerRow

LEMMA ForgetOfTheLedger ==
  ASSUME NEW K, K # {}, \A k \in K : ledgerClaim[k] # NoReservation,
         ledgerClaim' = [k \in Key |-> IF k \in K THEN NoReservation
                                      ELSE ledgerClaim[k]],
         ledgerRow' = ledgerRow
  PROVE  Ledger!Forget(K)
BY DEF Ledger!Forget, ledgerRow, ledgerClaim, LedgerRow

(* A new reservation is a grant, whoever asked for it.                     *)
LEMMA StoringIsGrant ==
  ASSUME TypeOK, NEW k \in Key, NEW r \in Reservation, NEW b \in Asked,
         NEW x \in Row, x.booking = b, x.status = "CONFIRMED",
         x.version = 1, row[r].status = "FREE", ~Remembered(k),
         x.override \/ Fits(r, b), Store(k, r, x)
  PROVE  Ledger!Grant(k, r, b.service, b.slot, b.party, x.override)
<1>0. b \in Booking
  BY DEF Asked
<1>1. ledgerRow' = [ledgerRow EXCEPT ![r] =
                      [status |-> "CONFIRMED", service |-> b.service,
                       slot |-> b.slot, party |-> b.party,
                       override |-> x.override, version |-> 1]]
  BY DEF ledgerRow, LedgerRow, Store, TypeOK
<1>2. now' < key'[k].expires /\ key'[k].owner = r /\ r # NoReservation
  <2>1. key'[k] = [owner |-> r, expires |-> now + KeyTtl] /\ now' = now
    BY DEF Store, Claimed, TypeOK
  <2>2. now < now + KeyTtl /\ r # NoReservation
    BY ServiceAssumption DEF TypeOK
  <2> QED
    BY <2>1, <2>2
<1>3. now' = now /\ \A l \in Key \ {k} : key'[l] = key[l]
  BY DEF Store, Claimed, TypeOK
<1>4. ledgerClaim' = [ledgerClaim EXCEPT ![k] = r]
  BY <1>2, <1>3 DEF ledgerClaim, Remembered
<1>5. ledgerClaim[k] = NoReservation /\ ledgerRow[r].status = "FREE"
  BY DEF ledgerClaim, ledgerRow, LedgerRow
<1>6. x.override \/ Ledger!Fits(r, b.service, b.slot, b.party)
  BY <1>0, FitsOfTheLedger
<1> QED
  BY <1>1, <1>4, <1>5, <1>6, GrantOfTheLedger

LEMMA KeysStayRemembered ==
  ASSUME UNCHANGED <<now, key>>
  PROVE  ledgerClaim' = ledgerClaim
BY DEF ledgerClaim, Remembered

(* A move or a resize is an amendment, within the limit or by override, or *)
(* one that keeps the seats it had.                                        *)
LEMMA RebookingIsAmend ==
  ASSUME TypeOK, NEW r \in Reservation, Confirmed(r), NEW b \in Booking,
         NEW o \in BOOLEAN, Rebook(r, b, o),
         \/ o
         \/ Fits(r, b)
         \/ /\ SameSchedule(row[r].booking, b)
            /\ row[r].booking.party = b.party
            /\ o = row[r].override
  PROVE  Ledger!Amend(r, b.service, b.slot, b.party, o)
<1>1. row' = [row EXCEPT ![r] = Rebooked(r, b, o)] /\ UNCHANGED <<now, key>>
  BY DEF Rebook
<1>2. row[r] \in Row /\ row[r].status = "CONFIRMED"
  BY DEF TypeOK, Confirmed
<1>3. LET x == Rebooked(r, b, o)
      IN  /\ x.status = "CONFIRMED" /\ x.booking = b /\ x.override = o
          /\ x.version = row[r].version + 1
  BY <1>2 DEF Rebooked, Row
<1>4. ledgerRow' = [ledgerRow EXCEPT ![r] =
                      [status |-> "CONFIRMED", service |-> b.service,
                       slot |-> b.slot, party |-> b.party, override |-> o,
                       version |-> ledgerRow[r].version + 1]]
  BY <1>1, <1>3 DEF ledgerRow, LedgerRow, TypeOK
<1>5. ledgerRow[r] = LedgerRow(r)
  BY DEF ledgerRow
<1>6. \/ o
      \/ Ledger!Fits(r, b.service, b.slot, b.party)
      \/ <<b.service, b.slot, b.party, o>>
           = <<ledgerRow[r].service, ledgerRow[r].slot,
               ledgerRow[r].party, ledgerRow[r].override>>
  BY <1>5, FitsOfTheLedger DEF SameSchedule, LedgerRow
<1>7. ledgerRow[r].status = "CONFIRMED" /\ ledgerRow[r].version < MaxVersion
  BY <1>5 DEF LedgerRow, Confirmed
<1> QED
  BY <1>1, <1>4, <1>6, <1>7, KeysStayRemembered, AmendOfTheLedger

LEMMA DroppingIsCancel ==
  ASSUME TypeOK, NEW r \in Reservation, Confirmed(r), Drop(r)
  PROVE  Ledger!Cancel(r)
<1>1. row' = [row EXCEPT ![r] = CancelledRow(r)] /\ UNCHANGED <<now, key>>
  BY DEF Drop
<1>2. LET x == CancelledRow(r)
      IN  /\ x.status = "CANCELLED" /\ x.booking = row[r].booking
          /\ x.override = row[r].override
          /\ x.version = row[r].version + 1
  BY DEF CancelledRow, TypeOK, Row
<1>3. ledgerRow' = [ledgerRow EXCEPT ![r].status = "CANCELLED",
                                     ![r].version = @ + 1]
  BY <1>1, <1>2 DEF ledgerRow, LedgerRow, TypeOK
<1>4. ledgerRow[r].status = "CONFIRMED" /\ ledgerRow[r].version < MaxVersion
  BY DEF ledgerRow, LedgerRow, Confirmed
<1> QED
  BY <1>1, <1>3, <1>4, KeysStayRemembered, CancelOfTheLedger

LEMMA TouchingIsAnnotate ==
  ASSUME TypeOK, NEW r \in Reservation, TouchesOne(r)
  PROVE  Ledger!Annotate(r)
<1>1. PICK x \in Row, room \in Room \cup {NoRoom} :
         /\ \A f \in {"status", "origin", "booking", "override", "version"} :
               x[f] = row[r][f]
         /\ Touch(r, x, room)
  BY DEF TouchesOne
<1>2. /\ row' = [row EXCEPT ![r] = [x EXCEPT !.version = @ + 1]]
      /\ UNCHANGED <<now, key>>
  BY <1>1 DEF Touch
<1>3. LET y == [x EXCEPT !.version = @ + 1]
      IN  /\ y.status = row[r].status /\ y.booking = row[r].booking
          /\ y.override = row[r].override
          /\ y.version = row[r].version + 1
  BY <1>1 DEF Row
<1>4. ledgerRow' = [ledgerRow EXCEPT ![r].version = @ + 1]
  BY <1>2, <1>3 DEF ledgerRow, LedgerRow, TypeOK
<1>5. ledgerRow[r].status # "FREE" /\ ledgerRow[r].version < MaxVersion
  BY DEF ledgerRow, LedgerRow, TouchesOne
<1> QED
  BY <1>2, <1>4, <1>5, KeysStayRemembered, AnnotateOfTheLedger

(* Every handler is a step of the ledger.                                  *)
LEMMA HandlersKeepTheLedger ==
  ASSUME TypeOK, NEW r \in Reservation, Handler(r)
  PROVE  Ledger!Next
<1>0. \A b \in Asked : /\ b \in Booking /\ b.service \in Service
                      /\ b.slot \in Slot /\ b.party \in 1..MaxParty
  BY ServiceAssumption DEF Asked, Booking
<1>1. row[r] \in Row
  BY DEF TypeOK
<1>2. ASSUME NEW k \in Key, NEW b \in Asked, NEW life \in LinkLives,
             CreatePublicReservation(k, r, b, life)
      PROVE  Ledger!Next
  <2>1. PublicRow(b) \in Row
    BY <1>0, NewRowIsRow DEF PublicRow
  <2>2. /\ PublicRow(b).status = "CONFIRMED" /\ PublicRow(b).version = 1
        /\ PublicRow(b).booking = b /\ PublicRow(b).override = FALSE
    BY DEF PublicRow, NewRow
  <2>3. Ledger!Grant(k, r, b.service, b.slot, b.party, FALSE)
    BY <1>2, <2>1, <2>2, StoringIsGrant DEF CreatePublicReservation
  <2> QED
    BY <1>0, <2>3 DEF Ledger!Next
<1>3. ASSUME NEW k \in Key, NEW b \in Asked, NEW o \in BOOLEAN,
             CreatePhoneReservation(k, r, b, o)
      PROVE  Ledger!Next
  <2>1. PhoneRow(b, o) \in Row
    BY <1>0, NewRowIsRow DEF PhoneRow
  <2>2. /\ PhoneRow(b, o).status = "CONFIRMED" /\ PhoneRow(b, o).version = 1
        /\ PhoneRow(b, o).booking = b /\ PhoneRow(b, o).override = o
    BY DEF PhoneRow, NewRow
  <2>3. Ledger!Grant(k, r, b.service, b.slot, b.party, o)
    BY <1>3, <2>1, <2>2, StoringIsGrant DEF CreatePhoneReservation
  <2> QED
    BY <1>0, <2>3 DEF Ledger!Next
<1>4. ASSUME NEW b \in Asked, UpdateManagedPublicReservation(r, b)
      PROVE  Ledger!Next
  <2>1. PICK o \in BOOLEAN : o = row[r].override
    BY <1>1 DEF Row
  <2>2. Confirmed(r) /\ Fits(r, b) /\ Rebook(r, b, o)
    BY <1>4, <2>1 DEF UpdateManagedPublicReservation, GuestMayChange
  <2>3. Ledger!Amend(r, b.service, b.slot, b.party, o)
    BY <1>0, <2>2, RebookingIsAmend
  <2> QED
    BY <1>0, <2>3 DEF Ledger!Next
<1>5. ASSUME NEW b \in Asked, NEW o \in BOOLEAN,
             UpdateStaffReservation(r, b, o)
      PROVE  Ledger!Next
  <2>1. row[r].override \in BOOLEAN
    BY <1>1 DEF Row
  <2>2. \E p \in BOOLEAN : Ledger!Amend(r, b.service, b.slot, b.party, p)
    BY <1>0, <1>5, <2>1, RebookingIsAmend DEF UpdateStaffReservation
  <2> QED
    BY <1>0, <2>2 DEF Ledger!Next
<1>6. ASSUME Confirmed(r), Drop(r) PROVE Ledger!Next
  BY <1>6, DroppingIsCancel DEF Ledger!Next
<1>7. CASE CancelManagedPublicReservation(r)
  BY <1>6, <1>7 DEF CancelManagedPublicReservation, GuestMayChange
<1>8. CASE CancelStaffReservation(r)
  BY <1>6, <1>8 DEF CancelStaffReservation
<1>9. CASE Notes(r)
  BY <1>9, NotesTouch, TouchingIsAnnotate DEF Ledger!Next
<1> QED
  BY <1>2, <1>3, <1>4, <1>5, <1>7, <1>8, <1>9 DEF Handler, Notes

(* A key that outlives its time to live is forgotten by the ledger, at the *)
(* tick that makes it stale; deleting it later changes nothing any more.   *)
LEMMA TicksForget ==
  ASSUME TypeOK, Tick
  PROVE  UNCHANGED Ledger!vars \/ Ledger!Next
<1> DEFINE K == {k \in Key : ledgerClaim[k] # NoReservation
                            /\ ~(now' < key[k].expires)}
<1>1. now' = now + 1 /\ now \in Nat /\ UNCHANGED <<row, key>>
  BY ServiceAssumption DEF Tick, TypeOK
<1>2. ledgerRow' = ledgerRow
  BY <1>1 DEF ledgerRow, LedgerRow
<1>3. ledgerClaim' = [k \in Key |-> IF k \in K THEN NoReservation
                                   ELSE ledgerClaim[k]]
  <2>1. \A k \in Key : now + 1 < key[k].expires => now < key[k].expires
    BY <1>1 DEF TypeOK
  <2> QED
    BY <1>1, <2>1 DEF ledgerClaim, Remembered
<1>4. K \in SUBSET Key /\ \A k \in K : ledgerClaim[k] # NoReservation
  OBVIOUS
<1>5. CASE K = {}
  <2>1. ledgerClaim' = ledgerClaim
    BY <1>3, <1>5 DEF ledgerClaim
  <2> QED
    BY <1>2, <2>1, LedgerStutters
<1>6. CASE K # {}
  <2>1. PICK gone \in SUBSET Key : gone = K
    BY <1>4
  <2> HIDE DEF K
  <2>2. Ledger!Forget(gone)
    BY <1>2, <1>3, <1>4, <1>6, <2>1, ForgetOfTheLedger
  <2> QED
    BY <2>2 DEF Ledger!Next
<1> QED
  BY <1>5, <1>6

LEMMA CleanupForgetsNothing ==
  ASSUME TypeOK, CleanupExpiredKeys
  PROVE  UNCHANGED Ledger!vars
<1> DEFINE old == {k \in Key : key[k].owner # NoReservation /\ ~Remembered(k)}
<1>1. /\ key' = [k \in Key |-> IF k \in old
                   THEN [owner |-> NoReservation, expires |-> 0] ELSE key[k]]
      /\ UNCHANGED <<now, row>>
  BY DEF CleanupExpiredKeys
<1>2. ledgerRow' = ledgerRow
  BY <1>1 DEF ledgerRow, LedgerRow
<1>3. ledgerClaim' = ledgerClaim
  BY <1>1 DEF ledgerClaim, Remembered
<1> QED
  BY <1>2, <1>3, LedgerStutters

(* Every step of the handlers, the worker and the clock is a step of the   *)
(* ledger or leaves it alone.                                              *)
LEMMA NextKeepsTheLedger ==
  TypeOK /\ [Next]_vars => UNCHANGED Ledger!vars \/ Ledger!Next
<1> SUFFICES ASSUME TypeOK, [Next]_vars
             PROVE  UNCHANGED Ledger!vars \/ Ledger!Next
  OBVIOUS
<1>1. ASSUME UNCHANGED <<now, row, key>> PROVE UNCHANGED Ledger!vars
  <2>1. ledgerRow' = ledgerRow
    BY <1>1 DEF ledgerRow, LedgerRow
  <2> QED
    BY <1>1, <2>1, KeysStayRemembered, LedgerStutters
<1>2. ASSUME NEW r \in Reservation, Handler(r) PROVE Ledger!Next
  BY <1>2, HandlersKeepTheLedger
<1>3. ASSUME NEW r \in Reservation, Worker(r) PROVE UNCHANGED Ledger!vars
  BY <1>1, <1>3 DEF Worker, Claim, Deliver, Expire, Fail
<1>4. CASE CleanupExpiredKeys
  BY <1>4, CleanupForgetsNothing
<1>5. CASE Tick
  BY <1>5, TicksForget
<1>6. CASE UNCHANGED vars
  BY <1>1, <1>6 DEF vars
<1> QED
  BY <1>2, <1>3, <1>4, <1>5, <1>6 DEF Next

(* The handlers implement the ledger: what it promises of capacity, keys   *)
(* and cancellations they keep, for every number of reservations and keys. *)
THEOREM KeepsTheLedgerHolds == Spec => KeepsTheLedger
<1>1. Init => Ledger!Init
  BY LedgerStarts
<1>2. TypeOK /\ [Next]_vars
        => [UNCHANGED Ledger!vars \/ Ledger!Next]_(Ledger!vars)
  BY NextKeepsTheLedger
<1> QED
  BY <1>1, <1>2, ServiceIsTyped, PTL DEF Spec, KeepsTheLedger

-----------------------------------------------------------------------------
(* So the handlers inherit what is proved of the ledger.                   *)
Promise == INSTANCE BookingLedger_proofs
             WITH row <- ledgerRow, claim <- ledgerClaim

LEMMA LoadAsPromised ==
  \A A, start : Ledger!WindowLoad(ledgerRow, A, MaxParty, start, Window)
                 = Promise!WindowLoad(ledgerRow, A, MaxParty, start, Window)
<1>1. \A S : Ledger!Cardinality(S) = Promise!Cardinality(S)
  BY DEF Ledger!Cardinality, Promise!Cardinality
<1> QED
  BY <1>1 DEF Ledger!WindowLoad, Promise!WindowLoad, Ledger!HeadsIn,
              Promise!HeadsIn, Ledger!InWindow, Promise!InWindow

LEMMA FitsAsPromised ==
  ASSUME NEW r, NEW s, NEW t, NEW p
  PROVE  Ledger!Fits(r, s, t, p) <=> Promise!Fits(r, s, t, p)
<1>1. Ledger!Arrivals(s) = Promise!Arrivals(s)
  BY DEF Ledger!Arrivals, Promise!Arrivals, ledgerRow, LedgerRow
<1>2. Ledger!AffectedWindows(Slot, t, Window)
        = Promise!AffectedWindows(Slot, t, Window)
  BY DEF Ledger!AffectedWindows, Promise!AffectedWindows, Ledger!InWindow,
         Promise!InWindow
<1> QED
  BY <1>1, <1>2, LoadAsPromised
     DEF Ledger!Fits, Promise!Fits, Ledger!SlotHasRoom, Promise!SlotHasRoom,
         ledgerRow, LedgerRow

LEMMA StepsAsPromised == Ledger!Next => Promise!Next
<1> USE DEF ledgerRow, LedgerRow, ledgerClaim
<1>1. ASSUME NEW k, NEW r, NEW s, NEW t, NEW p, NEW o,
             Ledger!Grant(k, r, s, t, p, o)
      PROVE  Promise!Grant(k, r, s, t, p, o)
  BY <1>1, FitsAsPromised DEF Ledger!Grant, Promise!Grant
<1>2. ASSUME NEW r, NEW s, NEW t, NEW p, NEW o, Ledger!Amend(r, s, t, p, o)
      PROVE  Promise!Amend(r, s, t, p, o)
  BY <1>2, FitsAsPromised DEF Ledger!Amend, Promise!Amend
<1>3. ASSUME NEW r, Ledger!Annotate(r) PROVE Promise!Annotate(r)
  BY <1>3 DEF Ledger!Annotate, Promise!Annotate
<1>4. ASSUME NEW r, Ledger!Cancel(r) PROVE Promise!Cancel(r)
  BY <1>4 DEF Ledger!Cancel, Promise!Cancel
<1>5. ASSUME NEW K, Ledger!Forget(K) PROVE Promise!Forget(K)
  BY <1>5 DEF Ledger!Forget, Promise!Forget
<1> QED
  BY <1>1, <1>2, <1>3, <1>4, <1>5 DEF Ledger!Next, Promise!Next

LEMMA ImplementsThePromise == Spec => Promise!Spec
<1>1. Init => Promise!Init
  BY LedgerStarts
     DEF Ledger!Init, Promise!Init, Ledger!Vacant, Promise!Vacant, ledgerRow,
         LedgerRow, ledgerClaim
<1>2. UNCHANGED Ledger!vars => UNCHANGED Promise!vars
  BY DEF Ledger!vars, Promise!vars, ledgerRow, LedgerRow, ledgerClaim
<1>3. TypeOK /\ [Next]_vars => [Promise!Next]_(Promise!vars)
  BY <1>2, StepsAsPromised, NextKeepsTheLedger
<1> QED
  BY <1>1, <1>3, ServiceIsTyped, PTL DEF Spec, Promise!Spec

LEMMA PromiseAssumption == Promise!LedgerAssumption
BY ServiceAssumption DEF Promise!LedgerAssumption, Promise!IsFiniteSet,
                         IsFiniteSet

(* In every window of every service the heads the handlers booked without  *)
(* an override stay within the limit, whatever guests and staff do.        *)
THEOREM HandlersKeepTheLimit == Spec => []Ledger!RegularWithinLimit
<1>1. Promise!Spec => []Promise!RegularWithinLimit
  BY PromiseAssumption, Promise!LimitHolds, PTL
<1>2. Promise!RegularWithinLimit => Ledger!RegularWithinLimit
  <2>1. \A s : Ledger!Regular(s) = Promise!Regular(s)
    BY DEF Ledger!Regular, Promise!Regular, Ledger!Arrivals,
           Promise!Arrivals, ledgerRow, LedgerRow
  <2> QED
    BY <2>1, LoadAsPromised
       DEF Ledger!RegularWithinLimit, Promise!RegularWithinLimit, ledgerRow,
           LedgerRow
<1> QED
  BY <1>1, <1>2, ImplementsThePromise, PTL

(* A handler that books writes under a key that is not remembered, and     *)
(* nothing else writes a key but the cleanup, which takes those that are   *)
(* over.                                                                   *)
LEMMA KeysOfAStore ==
  ASSUME TypeOK, NEW k \in Key, NEW r \in Reservation, NEW x,
         ~Remembered(k), Store(k, r, x)
  PROVE  /\ \A l \in Key : Remembered(l) => key'[l] = key[l]
         /\ Remembered(k)' /\ key'[k].owner = r
         /\ \A q \in Reservation \ {r} : row'[q] = row[q]
<1>1. key' = [key EXCEPT ![k] = [owner |-> r, expires |-> now + KeyTtl]]
  BY DEF Store, Claimed
<1>2. key'[k] = [owner |-> r, expires |-> now + KeyTtl]
      /\ \A l \in Key : l # k => key'[l] = key[l]
  BY <1>1 DEF TypeOK
<1>3. now' = now /\ now \in Nat
  BY DEF Store, TypeOK
<1>4. now < now + KeyTtl /\ r # NoReservation
  BY <1>3, ServiceAssumption
<1> QED
  BY <1>2, <1>3, <1>4 DEF Store, Remembered, TypeOK

(* As long as a key lives a repeated request finds what the first one      *)
(* booked, and nothing is booked but as the answer of a key that had none, *)
(* whatever is booked, changed, cancelled and cleaned up in between (the   *)
(* key branch of the create handlers).                                     *)
THEOREM RepeatsFindTheirBookingHolds == Spec => RepeatsFindTheirBooking
<1> DEFINE Found ==
      /\ \A k \in Key : Remembered(k) => key'[k] = key[k]
      /\ \A r \in Reservation :
           row[r].status = "FREE" /\ row'[r].status # "FREE" =>
              \E k \in Key :
                 ~Remembered(k) /\ Remembered(k)' /\ key'[k].owner = r
<1>1. ASSUME TypeOK, Next PROVE Found
  <2>1. ASSUME NEW k \in Key, NEW r \in Reservation, NEW x,
               ~Remembered(k), Store(k, r, x)
        PROVE  Found
    BY <1>1, <2>1, KeysOfAStore
  <2>2. ASSUME key' = key,
               \A r \in Reservation :
                  row[r].status = "FREE" => row'[r].status = "FREE"
        PROVE  Found
    BY <2>2
  <2>3. ASSUME NEW r \in Reservation, Handler(r) PROVE Found
    <3>1. CASE StoresNew(r)
      BY <2>1, <3>1 DEF StoresNew
    <3>2. CASE RebooksOne(r)
      BY <1>1, <2>2, <3>2 DEF RebooksOne, Rebook, Confirmed, TypeOK
    <3>3. CASE Confirmed(r) /\ Drop(r)
      BY <1>1, <2>2, <3>3 DEF Drop, Confirmed, TypeOK
    <3>4. CASE TouchesOne(r)
      BY <1>1, <2>2, <3>4 DEF TouchesOne, Touch, TypeOK
    <3> QED
      BY <1>1, <2>3, <3>1, <3>2, <3>3, <3>4, HandlersWrite DEF Writes
  <2>4. ASSUME NEW r \in Reservation, Worker(r) PROVE Found
    BY <2>2, <2>4 DEF Worker, Claim, Deliver, Fail, Expire
  <2>5. CASE CleanupExpiredKeys
    BY <2>5 DEF CleanupExpiredKeys
  <2>6. CASE Tick
    BY <2>2, <2>6 DEF Tick
  <2> QED
    BY <1>1, <2>3, <2>4, <2>5, <2>6 DEF Next
<1>2. TypeOK /\ [Next]_vars => [Found]_vars
  BY <1>1
<1> QED
  BY <1>2, ServiceIsTyped, PTL DEF Spec, RepeatsFindTheirBooking

(* No handler brings a cancelled reservation back or changes its seats.    *)
THEOREM HandlersLeaveCancelled == Spec => Ledger!CancelledIsFinal
<1>1. Promise!Spec => Promise!CancelledIsFinal
  BY PromiseAssumption, Promise!CancelledIsFinalHolds, PTL
<1>2. Promise!CancelledIsFinal => Ledger!CancelledIsFinal
  BY DEF Ledger!CancelledIsFinal, Promise!CancelledIsFinal, ledgerRow, LedgerRow,
         ledgerClaim, Ledger!vars, Promise!vars
<1> QED
  BY <1>1, <1>2, ImplementsThePromise, PTL
=============================================================================
