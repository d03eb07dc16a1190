---------------------------- MODULE BookingLedger ----------------------------
(***************************************************************************)
(* What the reservation module promises, whatever the interleaving of the  *)
(* public site and the staff: a ledger of reservations changed one entry   *)
(* at a time.  A regular entry is granted only while every rolling window  *)
(* it touches stays within the limit; an overridden one needs no room but  *)
(* still counts for everybody else; an idempotency key grants at most one  *)
(* reservation while it is remembered; a cancelled entry never comes back. *)
(* The capacity configuration is the one in force between two changes made *)
(* by the administrator.                                                   *)
(***************************************************************************)
EXTENDS RollingCapacity

CONSTANTS
  Reservation,     \* identifiers a reservation can get
  NoReservation,   \* no reservation at all
  Key,             \* idempotency keys clients send
  Service,         \* a lunch or a dinner of a given day
  Slot,            \* bookable minutes of a service
  Window,          \* width of the rolling window, in minutes
  Limit,           \* covers allowed in a window, per service
  MaxParty,        \* largest party
  MaxVersion       \* bound: versions a reservation goes through

ASSUME LedgerAssumption ==
  /\ IsFiniteSet(Reservation)
  /\ NoReservation \notin Reservation
  /\ Service # {}
  /\ Slot \subseteq Nat
  /\ Slot # {}
  /\ Window \in Nat
  /\ Limit \in [Service -> Nat]
  /\ MaxParty \in Nat
  /\ MaxVersion \in Nat \ {0}

VARIABLES
  row,     \* the entry of every identifier
  claim    \* the reservation a key has been answered with

vars == <<row, claim>>

Status == {"FREE", "CONFIRMED", "CANCELLED"}

Row == [status   : Status,
        service  : Service,
        slot     : Slot,
        party    : 0..MaxParty,
        override : BOOLEAN,
        version  : 0..MaxVersion]

(* An identifier nobody has been given: its seats say nothing.             *)
Vacant == [status |-> "FREE", service |-> CHOOSE s \in Service : TRUE,
           slot |-> CHOOSE t \in Slot : TRUE, party |-> 0,
           override |-> FALSE, version |-> 0]

(* Every identifier has an entry and every key an answer or none, of the   *)
(* kinds the reservation and idempotency tables store.                     *)
TypeOK ==
  /\ row \in [Reservation -> Row]
  /\ claim \in [Key -> Reservation \cup {NoReservation}]

-----------------------------------------------------------------------------
(* Every confirmed reservation of a service counts, overridden or not.     *)
Arrivals(s) ==
  {r \in Reservation : row[r].status = "CONFIRMED" /\ row[r].service = s}

Regular(s) == {r \in Arrivals(s) : ~row[r].override}

(* Reservation r fits: the other arrivals leave room for its party.        *)
Fits(r, s, t, p) ==
  SlotHasRoom(row, Arrivals(s) \ {r}, MaxParty, Slot, t, p, Limit[s], Window)

-----------------------------------------------------------------------------
Init ==
  /\ row = [r \in Reservation |-> Vacant]
  /\ claim = [k \in Key |-> NoReservation]

(* A reservation is granted under a key that is not remembered.            *)
Grant(k, r, s, t, p, o) ==
  /\ claim[k] = NoReservation
  /\ row[r].status = "FREE"
  /\ row' = [row EXCEPT ![r] = [status |-> "CONFIRMED", service |-> s,
                                slot |-> t, party |-> p, override |-> o,
                                version |-> 1]]
  /\ o \/ Fits(r, s, t, p)
  /\ claim' = [claim EXCEPT ![k] = r]

(* Mutant: the party asked for comes on top of the one there was.          *)
AmendAdding(r, s, t, p, o) ==
  LET was == row[r] IN
  /\ was.status = "CONFIRMED"
  /\ was.version < MaxVersion
  /\ row' = [row EXCEPT ![r] = [status |-> "CONFIRMED", service |-> s,
                                slot |-> t, party |-> was.party + p,
                                override |-> o,
                                version |-> was.version + 1]]
  /\ \/ o
     \/ Fits(r, s, t, p)
     \/ <<s, t, p, o>> = <<was.service, was.slot, was.party, was.override>>
  /\ UNCHANGED claim

(* A confirmed reservation is moved or resized; what it was granted it may *)
(* keep, even where an override has filled the window since.               *)
Amend(r, s, t, p, o) ==
  LET was == row[r] IN
  /\ was.status = "CONFIRMED"
  /\ was.version < MaxVersion
  /\ row' = [row EXCEPT ![r] = [status |-> "CONFIRMED", service |-> s,
                                slot |-> t, party |-> p, override |-> o,
                                version |-> was.version + 1]]
  /\ \/ o
     \/ Fits(r, s, t, p)
     \/ <<s, t, p, o>> = <<was.service, was.slot, was.party, was.override>>
  /\ UNCHANGED claim

(* Mutant: a note brings a cancelled reservation back.                     *)
AnnotateAwake(r) ==
  /\ row[r].status # "FREE"
  /\ row[r].version < MaxVersion
  /\ row' = [row EXCEPT ![r].status = "CONFIRMED", ![r].version = @ + 1]
  /\ UNCHANGED claim

(* Arrival, private notes and room: a new version of the same seats.       *)
Annotate(r) ==
  /\ row[r].status # "FREE"
  /\ row[r].version < MaxVersion
  /\ row' = [row EXCEPT ![r].version = @ + 1]
  /\ UNCHANGED claim

Cancel(r) ==
  /\ row[r].status = "CONFIRMED"
  /\ row[r].version < MaxVersion
  /\ row' = [row EXCEPT ![r].status = "CANCELLED", ![r].version = @ + 1]
  /\ UNCHANGED claim

(* Keys outlive their time to live, several at the same instant, and are   *)
(* forgotten.                                                              *)
Forget(K) ==
  /\ K # {}
  /\ \A k \in K : claim[k] # NoReservation
  /\ claim' = [k \in Key |-> IF k \in K THEN NoReservation ELSE claim[k]]
  /\ UNCHANGED row

Next ==
  \/ \E k \in Key, r \in Reservation, s \in Service, t \in Slot,
        p \in 1..MaxParty, o \in BOOLEAN : Grant(k, r, s, t, p, o)
  \/ \E r \in Reservation, s \in Service, t \in Slot,
        p \in 1..MaxParty, o \in BOOLEAN : Amend(r, s, t, p, o)
  \/ \E r \in Reservation : Annotate(r)
  \/ \E r \in Reservation : Cancel(r)
  \/ \E K \in SUBSET Key : Forget(K)

Spec == Init /\ [][Next]_vars

-----------------------------------------------------------------------------
(* The limit is never exceeded except by override: in every window of     *)
(* every service the heads of the regular confirmed reservations stay      *)
(* within the limit, although moves, resizes and overrides come in any     *)
(* order and a regular party may be kept in a window overrides have filled *)
(* (assertAvailableSlot, assertStaffSlot and the update handlers).         *)
RegularWithinLimit ==
  \A s \in Service, w \in Slot :
     WindowLoad(row, Regular(s), MaxParty, w, Window) <= Limit[s]

(* A cancelled reservation stays cancelled and keeps its seats on record,  *)
(* whatever staff or guest do later; only its version may grow.            *)
CancelledIsFinal ==
  [][\A r \in Reservation :
        row[r].status = "CANCELLED" =>
           row'[r] = [row[r] EXCEPT !.version = row'[r].version]]_vars
==============================================================================
