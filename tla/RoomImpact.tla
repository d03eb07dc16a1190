------------------------------ MODULE RoomImpact ------------------------------
(***************************************************************************)
(* Rooms, tables and what taking one away does to the reservations that    *)
(* ask for the room or are seated there.  A service of a date has the      *)
(* availabilities its rooms' policies give until it is materialised, and   *)
(* its own from then on.                                                   *)
(***************************************************************************)
EXTENDS ConfigurationImpact

CONSTANTS
  Room,
  NoRoom    \* no preference, or not seated

Virtual(T, date, service) == T.hosted[<<date, service>>].version = 0

(* As its policy says: available, or only when set explicitly.             *)
ByPolicy(T) == [r \in Room |-> T.room[r].policy = "DEFAULT_AVAILABLE"]

Configured(T, date, service) ==
  IF Virtual(T, date, service) THEN ByPolicy(T)
  ELSE T.hosted[<<date, service>>].available

ServiceOpen(T, date, service) ==
  LET e == Effective(T, date, service) IN Valid(e) /\ e.open

Available(T, r, date, service) ==
  /\ ServiceOpen(T, date, service)
  /\ T.room[r].active
  /\ Configured(T, date, service)[r]

(* The first to need the service of a date writes its availabilities down. *)
Materialized(T, date, service) ==
  IF Virtual(T, date, service)
    THEN [T EXCEPT !.hosted[<<date, service>>] =
                     [version |-> 1, available |-> ByPolicy(T)]]
  ELSE T

-----------------------------------------------------------------------------
(* Mutant: the room that was asked for decides alone.                      *)
AsksFor(T, p, b) ==
  p.kind \in {"SERVICE_ROOM_AVAILABILITY", "ROOM_CATALOG"}
    /\ T.booked[b].prefers = p.room

AffectsReservation(T, p, b) ==
  IF p.kind = "DINING_TABLE" THEN p.table \in T.booked[b].tables
  ELSE T.booked[b].prefers = p.room \/ T.booked[b].seated = p.room

(* Reservations of the whole day count, those that have arrived too.       *)
Relevant(T, p, at) ==
  {b \in Confirmed(T) :
     /\ IF p.kind = "SERVICE_ROOM_AVAILABILITY"
          THEN T.booked[b].date = p.date /\ T.booked[b].service = p.service
        ELSE T.booked[b].date >= at.date
     /\ AffectsReservation(T, p, b)}

(* Only taking something away is asked about.                              *)
Destructive(T, p) ==
  CASE p.kind = "SERVICE_ROOM_AVAILABILITY" ->
         Available(T, p.room, p.date, p.service) /\ ~p.row
    [] p.kind = "ROOM_CATALOG" -> T.room[p.room].active /\ ~p.row.active
    [] p.kind = "DINING_TABLE" -> T.dining[p.table].active /\ ~p.row.active

RoomAffected(T, p, at) == IF Destructive(T, p) THEN Relevant(T, p, at) ELSE {}

(* The place of a reservation is told only when it is the one taken away.  *)
RoomFields(T, p, b) ==
  LET r == T.booked[b]
      there == IF p.kind = "DINING_TABLE" THEN p.table \in r.tables
               ELSE r.seated = p.room
  IN  <<Fields(T, b), r.prefers,
        IF there THEN <<r.seated, {<<t, T.dining[t].active>> : t \in r.tables}>>
        ELSE << >> >>

RoomNeeds(T, p, at) ==
  [NoNeeds EXCEPT !.booked = {RoomFields(T, p, b) : b \in RoomAffected(T, p, at)}]

(* What the fingerprint holds of the thing that is changed.                *)
RoomCurrent(T, p) ==
  CASE p.kind = "SERVICE_ROOM_AVAILABILITY" ->
         LET e == Effective(T, p.date, p.service) IN
         <<T.hosted[<<p.date, p.service>>].version, [e EXCEPT !.cutoff = None,
                       !.open = ServiceOpen(T, p.date, p.service)],
           T.room[p.room].active, Configured(T, p.date, p.service)[p.room]>>
    [] p.kind = "ROOM_CATALOG" -> T.room[p.room]
    [] p.kind = "DINING_TABLE" -> <<T.dining[p.table], T.room[T.dining[p.table].room].active>>

(* Availability is compared as configured, whether the service is open or  *)
(* not.                                                                    *)
RoomChanged(T, p) ==
  CASE p.kind = "SERVICE_ROOM_AVAILABILITY" ->
         Configured(T, p.date, p.service)[p.room] # p.row
    [] p.kind = "ROOM_CATALOG" ->
         <<T.room[p.room].active, T.room[p.room].order>> # <<p.row.active, p.row.order>>
    [] p.kind = "DINING_TABLE" -> T.dining[p.table] # p.row

(* A change of one service's rooms gives its instance a new version.       *)
RoomApplied(T, p) ==
  CASE p.kind = "SERVICE_ROOM_AVAILABILITY" ->
         [Materialized(T, p.date, p.service) EXCEPT
            !.hosted[<<p.date, p.service>>].available[p.room] = p.row,
            !.hosted[<<p.date, p.service>>].version = @ + 1]
    [] p.kind = "ROOM_CATALOG" ->
         [T EXCEPT !.room[p.room].active = p.row.active,
                   !.room[p.room].order = p.row.order]
    [] p.kind = "DINING_TABLE" -> [T EXCEPT !.dining[p.table] = p.row]
==============================================================================
