-------------------------- MODULE ReservationService --------------------------
(***************************************************************************)
(* The reservation handlers, one at a time: what each of them reads,       *)
(* checks and writes in its transaction.  A step is a handler that changed *)
(* something; a refusal, a no-op and a replay leave the database alone and *)
(* are stuttering steps.  That the transactions really run as if one at a  *)
(* time is the subject of ReservationTransactions.                         *)
(*                                                                         *)
(* The tables: reservations (row), idempotency_keys (key), management      *)
(* tokens (link, the expiry of the guest's link), service_instances        *)
(* (hosted), reservation_assignments (seat), reservation_audit_events      *)
(* (trail, its length and what its last events say) and the outbox (leg,   *)
(* the legs still alive and the reminders that were sent).                 *)
(***************************************************************************)
EXTENDS RollingCapacity

CONSTANTS
  Reservation, NoReservation, Key, Service, Slot, Window, Limit, MaxParty,
  MaxVersion,      \* bound: versions a reservation goes through
  Horizon,         \* bound: last instant of the clock
  SiteKey,         \* the keys of the site: a key's hash includes the channel
  Detail,          \* names, notes, preferences: what no rule looks into
  Room, NoRoom,    \* rooms of the restaurant
  Arrival,         \* instant at which a slot of a service is due
  OnlineClose,     \* instant the site stops taking bookings of a service
  GuestCutoff,     \* instant guests may no longer change a service's booking
  LinkLives,       \* configurable lives of a guest link past the arrival
  KeyTtl,          \* life of an idempotency key
  ReminderLead     \* how long before the arrival a reminder goes out

ASSUME ServiceAssumption ==
  /\ IsFiniteSet(Reservation)
  /\ NoReservation \notin Reservation
  /\ Service # {}
  /\ Slot \subseteq Nat
  /\ Slot # {}
  /\ Window \in Nat
  /\ Limit \in [Service -> Nat]
  /\ MaxParty \in Nat
  /\ MaxVersion \in Nat \ {0}
  /\ Horizon \in Nat
  /\ SiteKey \subseteq Key
  /\ Detail # {}
  /\ NoRoom \notin Room
  /\ Arrival \in [Service \X Slot -> Nat]
  /\ OnlineClose \in [Service -> Nat]
  /\ GuestCutoff \in [Service -> Nat]
  /\ LinkLives \subseteq Nat \ {0}
  /\ KeyTtl \in Nat \ {0}
  /\ ReminderLead \in Nat

VARIABLES now, row, key, link, hosted, seat, trail, leg

vars == <<now, row, key, link, hosted, seat, trail, leg>>

(* What a guest or the staff ask for; declared: the children were counted. *)
Booking == [service : Service, slot : Slot, party : 0..MaxParty,
            declared : BOOLEAN, detail : Detail]

(* No form asks for a table of nobody.                                     *)
Asked == {b \in Booking : b.party > 0}

Status == {"FREE", "CONFIRMED", "CANCELLED"}

Row == [status : Status, origin : {"PUBLIC", "PHONE"},
        booking : Booking, override : BOOLEAN, arrived : BOOLEAN,
        note : Detail, version : 0..MaxVersion]

Leg == [event  : {"CONFIRMED", "UPDATED", "CANCELLED", "REMINDER"},
        status : {"PENDING", "CLAIMED", "RECALLED", "SUCCEEDED"},
        version : 1..MaxVersion, booking : Booking]

NoBooking == [service |-> CHOOSE s \in Service : TRUE,
              slot |-> CHOOSE t \in Slot : TRUE, party |-> 0,
              declared |-> FALSE, detail |-> CHOOSE d \in Detail : TRUE]

(* Every table holds records of its own kind.                              *)
TypeOK ==
  /\ now \in 0..Horizon
  /\ row \in [Reservation -> Row]
  /\ key \in [Key -> [owner : Reservation \cup {NoReservation}, expires : Nat]]
  /\ link \in [Reservation -> Nat]
  /\ hosted \in SUBSET Service
  /\ seat \in [Reservation -> Room \cup {NoRoom}]
  /\ trail \in [Reservation -> [changes : Nat, status : Status,
                                booking : Booking, override : BOOLEAN,
                                room : Room \cup {NoRoom}]]
  /\ leg \in [Reservation -> SUBSET Leg]

-----------------------------------------------------------------------------
(* What the availability engine answers for a slot of a service.           *)

Seated == [r \in Reservation |-> row[r].booking]

Arrivals(s) ==
  {r \in Reservation : row[r].status = "CONFIRMED"
                        /\ row[r].booking.service = s}

(* Mutant: what was overridden does not count.                             *)
FitsAmongRegular(r, b) ==
  SlotHasRoom(Seated, {q \in Arrivals(b.service) \ {r} : ~row[q].override},
              MaxParty, Slot, b.slot, b.party, Limit[b.service], Window)

Fits(r, b) ==
  SlotHasRoom(Seated, Arrivals(b.service) \ {r}, MaxParty, Slot, b.slot,
              b.party, Limit[b.service], Window)

When(b) == Arrival[<<b.service, b.slot>>]

Offered(b) == now < When(b)

OfferedOnline(b) == Offered(b) /\ now < OnlineClose[b.service]

-----------------------------------------------------------------------------
(* What the handlers write.                                                *)

(* The notification planner.  A leg tells the guest about one booking.     *)
NewLeg(event, v, b) ==
  [event |-> event, status |-> "PENDING", version |-> v, booking |-> b]

Reminder(v, b) ==
  IF When(b) - now >= ReminderLead /\ When(b) > now
    THEN {NewLeg("REMINDER", v, b)} ELSE {}

(* Legs not yet taken by the worker are dropped, those in its hands are    *)
(* asked back.                                                             *)
(* Mutant: what the worker has taken is not asked back.                    *)
SupersededPending(L) == {l \in L : l.status # "PENDING"}

Superseded(L) ==
  {l \in L : l.status \in {"RECALLED", "SUCCEEDED"}}
    \cup {[l EXCEPT !.status = "RECALLED"] :
            l \in {m \in L : m.status = "CLAIMED"}}

SameSchedule(a, b) == a.service = b.service /\ a.slot = b.slot

Reminded(L, b) ==
  \E l \in L : /\ l.event = "REMINDER" /\ l.status = "SUCCEEDED"
               /\ SameSchedule(l.booking, b)

(* Mutant: nobody audits the automatic unassignment.                       *)
AuditedWithoutRoom(r, x, room) ==
  [trail EXCEPT ![r] = [changes |-> @.changes + 1, status |-> x.status,
                        booking |-> x.booking, override |-> x.override,
                        room |-> IF x.booking = @.booking THEN room
                                 ELSE @.room]]

(* Mutant: the override is audited when the reservation is created only.   *)
AuditedWithoutOverride(r, x, room) ==
  [trail EXCEPT ![r] = [changes |-> @.changes + 1, status |-> x.status,
                        booking |-> x.booking,
                        override |-> IF x.version = 1 THEN x.override
                                     ELSE @.override,
                        room |-> room]]

(* One audit event per change of a reservation says what it leaves; the    *)
(* event of an automatic unassignment belongs to the same change.          *)
Audited(r, x, room) ==
  [trail EXCEPT ![r] = [changes |-> @.changes + 1, status |-> x.status,
                        booking |-> x.booking, override |-> x.override,
                        room |-> room]]

(* Mutant: the life of a key is counted backwards.                         *)
ClaimedBackwards(k, r) ==
  [key EXCEPT ![k] = [owner |-> r, expires |-> now - KeyTtl]]

Claimed(k, r) == [key EXCEPT ![k] = [owner |-> r, expires |-> now + KeyTtl]]

Store(k, r, x) ==
  /\ row' = [row EXCEPT ![r] = x]
  /\ key' = Claimed(k, r)
  /\ hosted' = hosted \cup {x.booking.service}
  /\ trail' = Audited(r, x, NoRoom)
  /\ leg' = [leg EXCEPT ![r] = {NewLeg("CONFIRMED", 1, x.booking)}
                                 \cup Reminder(1, x.booking)]
  /\ UNCHANGED <<now, seat>>

NewRow(origin, b, o) ==
  [status |-> "CONFIRMED", origin |-> origin, booking |-> b, override |-> o,
   arrived |-> FALSE, note |-> NoBooking.detail, version |-> 1]

(* A guest books within the limit; by phone the limit may be overridden.   *)
PublicRow(b) == NewRow("PUBLIC", b, FALSE)
PhoneRow(b, o) == NewRow("PHONE", b, o)

(* Mutant: the link stays where it was.                                    *)
LinkLeftBehind(r, b) == link[r]

(* The link of a guest moves with the arrival.                             *)
MovedLink(r, b) ==
  IF row[r].origin = "PUBLIC"
    THEN When(b) + (link[r] - When(row[r].booking)) ELSE link[r]

(* A service the reservation joins is materialised.                        *)
Materialised(r, b) ==
  IF b.service # row[r].booking.service THEN hosted \cup {b.service}
  ELSE hosted

(* Mutant: another day or service at the same hour is not another schedule.*)
RoomOfTheHour(r, b) ==
  IF row[r].booking.slot = b.slot THEN seat[r] ELSE NoRoom

(* Another schedule empties the seat.                                      *)
RoomAfter(r, b) == IF SameSchedule(row[r].booking, b) THEN seat[r] ELSE NoRoom

Rebooked(r, b, o) ==
  [row[r] EXCEPT !.booking = b, !.override = o, !.version = @ + 1]

(* A confirmed reservation gets another booking, and what was planned to   *)
(* be said is planned again.                                               *)
Rebook(r, b, o) ==
  LET x == Rebooked(r, b, o)
  IN  /\ row' = [row EXCEPT ![r] = x]
      /\ link' = [link EXCEPT ![r] = MovedLink(r, b)]
      /\ hosted' = Materialised(r, b)
      /\ seat' = [seat EXCEPT ![r] = RoomAfter(r, b)]
      /\ trail' = Audited(r, x, RoomAfter(r, b))
      /\ leg' = [leg EXCEPT ![r] =
                   Superseded(@) \cup {NewLeg("UPDATED", x.version, b)}
                     \cup (IF SameSchedule(row[r].booking, b) /\ Reminded(@, b)
                             THEN {} ELSE Reminder(x.version, b))]
      /\ UNCHANGED <<now, key>>

CancelledRow(r) ==
  [row[r] EXCEPT !.status = "CANCELLED", !.version = @ + 1]

Drop(r) ==
  LET x == CancelledRow(r)
  IN  /\ row' = [row EXCEPT ![r] = x]
      /\ trail' = Audited(r, x, seat[r])
      /\ leg' = [leg EXCEPT ![r] = Superseded(@)
                   \cup {NewLeg("CANCELLED", x.version, x.booking)}]
      /\ UNCHANGED <<now, key, link, hosted, seat>>

Arrived(r, a) == [row[r] EXCEPT !.arrived = a]

(* A change of a reservation that moves nobody and tells nobody.           *)
Touch(r, x, room) ==
  /\ row' = [row EXCEPT ![r] = [x EXCEPT !.version = @ + 1]]
  /\ seat' = [seat EXCEPT ![r] = room]
  /\ trail' = Audited(r, x, room)
  /\ UNCHANGED <<now, key, link, hosted, leg>>

(* The row of an assignment stays when its room is cleared.                *)
WriteRoom(r, room) == Touch(r, row[r], room)
ClearRoom(r) == Touch(r, row[r], NoRoom)

-----------------------------------------------------------------------------
(* The handlers.  A command of the staff carries the version it was based  *)
(* on; only the current one gets past the check, so it needs no parameter  *)
(* here.                                                                   *)

Remembered(k) == key[k].owner # NoReservation /\ now < key[k].expires

Confirmed(r) == row[r].status = "CONFIRMED" /\ row[r].version < MaxVersion

(* Mutant: nobody asks whether the key has had its answer.                 *)
CreatePublicAgain(k, r, b, life) ==
  /\ k \in SiteKey
  /\ row[r].status = "FREE"
  /\ b.declared
  /\ OfferedOnline(b)
  /\ Fits(r, b)
  /\ Store(k, r, PublicRow(b))
  /\ link' = [link EXCEPT ![r] = When(b) + life]

CreatePublicReservation(k, r, b, life) ==
  /\ k \in SiteKey
  /\ ~Remembered(k)
  /\ row[r].status = "FREE"
  /\ b.declared
  /\ OfferedOnline(b)
  /\ Fits(r, b)
  /\ Store(k, r, PublicRow(b))
  /\ link' = [link EXCEPT ![r] = When(b) + life]

(* The override is refused where the party fits without it.                *)
CreatePhoneReservation(k, r, b, o) ==
  /\ k \notin SiteKey
  /\ ~Remembered(k)
  /\ row[r].status = "FREE"
  /\ Offered(b)
  /\ o = ~Fits(r, b)
  /\ Store(k, r, PhoneRow(b, o))
  /\ UNCHANGED link

CompositionDeclared(was, b) ==
  b.declared \/ (~was.declared /\ was.party = b.party)

(* Mutant: nobody asks whether the reservation was cancelled.              *)
GuestMayAlwaysChange(r) ==
  /\ row[r].version < MaxVersion
  /\ row[r].status # "FREE" /\ row[r].origin = "PUBLIC"
  /\ now < link[r]
  /\ now < GuestCutoff[row[r].booking.service]

GuestMayChange(r) ==
  /\ Confirmed(r)
  /\ row[r].origin = "PUBLIC"
  /\ now < link[r]
  /\ now < GuestCutoff[row[r].booking.service]

UpdateManagedPublicReservation(r, b) ==
  LET was == row[r].booking IN
  /\ GuestMayChange(r)
  /\ now < GuestCutoff[b.service]
  /\ CompositionDeclared(was, b)
  /\ b # was
  /\ OfferedOnline(b)
  /\ Fits(r, b)
  /\ Rebook(r, b, row[r].override)

UpdateStaffReservation(r, b, o) ==
  LET was   == row[r].booking
      apart == ~SameSchedule(was, b) \/ was.party # b.party
  IN  /\ Confirmed(r)
      /\ CompositionDeclared(was, b)
      /\ b # was
      /\ \/ apart /\ Offered(b) /\ o = ~Fits(r, b) /\ Rebook(r, b, o)
         \/ ~apart /\ ~o /\ Rebook(r, b, row[r].override)

CancelManagedPublicReservation(r) == GuestMayChange(r) /\ Drop(r)

CancelStaffReservation(r) == Confirmed(r) /\ Drop(r)

(* Arrivals are recorded and corrected on cancelled reservations too.      *)
PutReservationArrival(r, a) ==
  /\ row[r].status # "FREE"
  /\ row[r].version < MaxVersion
  /\ row[r].arrived # a
  /\ Touch(r, Arrived(r, a), seat[r])

PutReservationPrivateNotes(r, n) ==
  /\ Confirmed(r)
  /\ row[r].note # n
  /\ Touch(r, [row[r] EXCEPT !.note = n], seat[r])

AssignReservationRoom(r, room) ==
  /\ Confirmed(r)
  /\ seat[r] # room
  /\ WriteRoom(r, room)

DeleteReservationAssignment(r) ==
  /\ Confirmed(r)
  /\ seat[r] # NoRoom
  /\ ClearRoom(r)

(* Mutant: the cleanup takes for over what expires at the next instant.    *)
CleanupTooEarly ==
  LET old == {k \in Key : key[k].owner # NoReservation
                           /\ key[k].expires <= now + 1}
  IN  /\ old # {}
      /\ key' = [k \in Key |-> IF k \in old
                   THEN [owner |-> NoReservation, expires |-> 0] ELSE key[k]]
      /\ UNCHANGED <<now, row, link, hosted, seat, trail, leg>>

CleanupExpiredKeys ==
  LET old == {k \in Key : key[k].owner # NoReservation /\ ~Remembered(k)}
  IN  /\ old # {}
      /\ key' = [k \in Key |-> IF k \in old
                   THEN [owner |-> NoReservation, expires |-> 0] ELSE key[k]]
      /\ UNCHANGED <<now, row, link, hosted, seat, trail, leg>>

-----------------------------------------------------------------------------
(* The worker, as the handlers meet it: it takes a due leg and ends it.  A *)
(* leg asked back may still have been delivered.                           *)

Due(l) == l.event = "REMINDER" => /\ When(l.booking) - ReminderLead <= now
                                  /\ now < When(l.booking)

Claim(r, l) ==
  /\ l.status = "PENDING"
  /\ Due(l)
  /\ leg' = [leg EXCEPT ![r] = (@ \ {l}) \cup {[l EXCEPT !.status = "CLAIMED"]}]
  /\ UNCHANGED <<now, row, key, link, hosted, seat, trail>>

Deliver(r, l) ==
  /\ l.status \in {"CLAIMED", "RECALLED"}
  /\ leg' = [leg EXCEPT ![r] = (@ \ {l}) \cup
               (IF l.event = "REMINDER"
                  THEN {[l EXCEPT !.status = "SUCCEEDED"]} ELSE {})]
  /\ UNCHANGED <<now, row, key, link, hosted, seat, trail>>

Fail(r, l, again) ==
  /\ l.status \in {"CLAIMED", "RECALLED"}
  /\ again => l.status = "CLAIMED"
  /\ leg' = [leg EXCEPT ![r] = (@ \ {l}) \cup
               (IF again THEN {[l EXCEPT !.status = "PENDING"]} ELSE {})]
  /\ UNCHANGED <<now, row, key, link, hosted, seat, trail>>

(* A reminder nobody took before the arrival is no longer sent.            *)
Expire(r, l) ==
  /\ l.status = "PENDING"
  /\ l.event = "REMINDER" /\ When(l.booking) <= now
  /\ leg' = [leg EXCEPT ![r] = @ \ {l}]
  /\ UNCHANGED <<now, row, key, link, hosted, seat, trail>>

Tick ==
  /\ now < Horizon
  /\ now' = now + 1
  /\ UNCHANGED <<row, key, link, hosted, seat, trail, leg>>

-----------------------------------------------------------------------------
Init ==
  /\ now = 0
  /\ row = [r \in Reservation |->
              [NewRow("PHONE", NoBooking, FALSE) EXCEPT !.status = "FREE",
                                                        !.version = 0]]
  /\ key = [k \in Key |-> [owner |-> NoReservation, expires |-> 0]]
  /\ link = [r \in Reservation |-> 0]
  /\ hosted = {}
  /\ seat = [r \in Reservation |-> NoRoom]
  /\ trail = [r \in Reservation |->
                [changes |-> 0, status |-> "FREE", booking |-> NoBooking,
                 override |-> FALSE, room |-> NoRoom]]
  /\ leg = [r \in Reservation |-> {}]

Handler(r) ==
  \/ \E k \in Key, b \in Asked, life \in LinkLives :
        CreatePublicReservation(k, r, b, life)
  \/ \E k \in Key, b \in Asked, o \in BOOLEAN :
        CreatePhoneReservation(k, r, b, o)
  \/ \E b \in Asked : UpdateManagedPublicReservation(r, b)
  \/ \E b \in Asked, o \in BOOLEAN : UpdateStaffReservation(r, b, o)
  \/ CancelManagedPublicReservation(r)
  \/ CancelStaffReservation(r)
  \/ \E a \in BOOLEAN : PutReservationArrival(r, a)
  \/ \E n \in Detail : PutReservationPrivateNotes(r, n)
  \/ \E room \in Room : AssignReservationRoom(r, room)
  \/ DeleteReservationAssignment(r)

Worker(r) ==
  \E l \in leg[r] : \/ Claim(r, l)
                    \/ Deliver(r, l)
                    \/ Expire(r, l)
                    \/ \E again \in BOOLEAN : Fail(r, l, again)

Next ==
  \/ \E r \in Reservation : Handler(r) \/ Worker(r)
  \/ CleanupExpiredKeys
  \/ Tick

Spec == Init /\ [][Next]_vars

-----------------------------------------------------------------------------
(* The handlers keep the promises of the ledger, the reservations read as  *)
(* its entries and a key as remembered until it expires: capacity, one     *)
(* reservation per key, finality of a cancellation                         *)
(* (public-reservation-service.ts, staff-reservation-service.ts).  It is   *)
(* the ledger's Spec; steps that leave it alone are looked at first.       *)
Ledger == INSTANCE BookingLedger WITH
  row   <- [r \in Reservation |->
              [status   |-> row[r].status,
               service  |-> row[r].booking.service,
               slot     |-> row[r].booking.slot,
               party    |-> row[r].booking.party,
               override |-> row[r].override,
               version  |-> row[r].version]],
  claim <- [k \in Key |->
              IF Remembered(k) THEN key[k].owner ELSE NoReservation]

KeepsTheLedger ==
  Ledger!Init /\ [][UNCHANGED Ledger!vars \/ Ledger!Next]_(Ledger!vars)

(* As long as its key lives, a repeated request finds the reservation the  *)
(* first one made: neither bookings under other keys or of the other       *)
(* channel, nor changes, cancellations and cleanups touch a remembered key *)
(* or its expiry, and no booking is made but as the answer of a key that   *)
(* had none (the branch on an existing key of the create handlers and      *)
(* cleanupExpiredReservationIdempotencyKeys, which decide apart when a key *)
(* is over).                                                               *)
RepeatsFindTheirBooking ==
  [][/\ \A k \in Key : Remembered(k) => key'[k] = key[k]
     /\ \A r \in Reservation :
          row[r].status = "FREE" /\ row'[r].status # "FREE" =>
             \E k \in Key :
                ~Remembered(k) /\ Remembered(k)' /\ key'[k].owner = r]_vars

(* The audit trail can be replayed: every version of a reservation was     *)
(* audited once, and the last events say what the tables hold, the room a  *)
(* change of schedule took away included (the insert...AuditEvent calls).  *)
AuditTracksTables ==
  \A r \in Reservation :
     /\ trail[r].changes = row[r].version
     /\ row[r].status # "FREE" =>
          /\ trail[r].status = row[r].status
          /\ trail[r].booking = row[r].booking
          /\ trail[r].override = row[r].override
          /\ trail[r].room = seat[r]

(* A guest link lives as long past the arrival as on the day it was given, *)
(* whoever moves the reservation and however often, and is never shortened *)
(* or prolonged otherwise (originalManagementLinkDurationHours).           *)
LinkLife(r) == link[r] - When(row[r].booking)

LinkLifeStays ==
  [][\A r \in Reservation :
        row[r].status # "FREE" /\ row[r].origin = "PUBLIC"
          => LinkLife(r)' = LinkLife(r)]_vars

(* Nothing the worker may still send speaks of a schedule, a party or a    *)
(* status the reservation no longer has, unless it was asked back, and at  *)
(* most one reminder is on its way (planReservationUpdated, ...Cancelled). *)
LiveLegs(r) == {l \in leg[r] : l.status \in {"PENDING", "CLAIMED"}}

LiveLegsAreCurrent ==
  \A r \in Reservation :
     /\ \A l \in LiveLegs(r) :
          /\ l.booking = row[r].booking
          /\ l.event = "CANCELLED" <=> row[r].status = "CANCELLED"
     /\ \A l, m \in LiveLegs(r) :
          l.event = "REMINDER" /\ m.event = "REMINDER" => l = m

(* A room is held for the schedule it was chosen for: no step moves a      *)
(* reservation and leaves it seated                                        *)
(* (clearReservationAssignmentForScheduleChange).                          *)
SeatDiesWithSchedule ==
  [][\A r \in Reservation :
        /\ row[r].status # "FREE"
        /\ ~SameSchedule(row[r].booking, row'[r].booking)
        => seat'[r] = NoRoom]_vars

(* Wherever somebody is booked, or was before cancelling, the service is   *)
(* materialised and can be planned (materializeServiceInstance, which the  *)
(* updates call only when the service changes).                            *)
BookedServicesAreHosted ==
  \A r \in Reservation :
     row[r].status # "FREE" => row[r].booking.service \in hosted
==============================================================================
