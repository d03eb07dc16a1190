------------------------ MODULE ReservationTransactions ------------------------
(***************************************************************************)
(* Requests on the reservations, concurrently.  Every handler runs in a    *)
(* SERIALIZABLE transaction that takes advisory locks before it reads, and *)
(* is tried again, a bounded number of times, when PostgreSQL reports a    *)
(* conflict.  The snapshot of such a transaction is taken by its first     *)
(* statement, which is the request for its first lock: a transaction that  *)
(* waits for a lock then reads the tables as they were before it waited.   *)
(* What keeps stale reads harmless is what PostgreSQL refuses to commit.   *)
(*                                                                         *)
(* The tables are those the ledger is about, reservations (row, with the   *)
(* arrival and the room) and idempotency keys (key); what else a handler   *)
(* writes in the same transaction is in ReservationService, as are the     *)
(* clock and the expiry of keys: a key outlives the races modelled here.   *)
(***************************************************************************)
EXTENDS RollingCapacity, SerializableSnapshots

CONSTANTS
  Reservation, NoReservation, Key, Service, Slot, Window, Limit, MaxParty,
  MaxVersion,
  Client,         \* requests in flight: browsers, tablets, retries of both
  Request,        \* what a client may ask
  Start,          \* the reservations when the clients arrive
  Rank,           \* the order in which capacity locks are taken
  MaxAttempts,    \* transactions a request is given before it fails
  MaxSubmits      \* bound: times a client sends its request

Creates == {"createPublic", "createPhone"}
Updates == {"updatePublic", "updateStaff"}
Cancels == {"cancelPublic", "cancelStaff"}

VARIABLES
  row, key,    \* the committed tables
  log,         \* commits that a running transaction may be concurrent with
  req,         \* the request of every client
  pc,          \* where it is
  sent, tries, \* how often it was sent, and tried since
  snap,        \* the tables as its transaction reads them, and their age
  got,         \* how many locks of its plan the transaction holds
  answer       \* what the client was last told

vars == <<row, key, log, req, pc, sent, tries, snap, got, answer>>

Status == {"FREE", "CONFIRMED", "CANCELLED"}

Origin == {"PUBLIC", "PHONE"}

Row == [status : Status, origin : Origin, service : Service, slot : Slot,
        party : 0..MaxParty, detail : BOOLEAN, override : BOOLEAN,
        version : 0..MaxVersion, arrived : BOOLEAN, seated : BOOLEAN]

(* What a guest or the staff ask for; the detail is what no rule looks at. *)
Asked == [service : Service, slot : Slot, party : 1..MaxParty,
          detail : BOOLEAN]

Claim == [owner : Reservation \cup {NoReservation}, asked : Asked,
          flag : BOOLEAN]

Kind == {"createPublic", "createPhone", "updatePublic", "updateStaff",
         "cancelPublic", "cancelStaff", "arrival", "assignment"}

(* id: the reservation the request is about, or the identifier a new one   *)
(* gets; version: the one the staff's form shows; flag: the override, the  *)
(* arrival or the room wanted.                                             *)
IsRequest(q) ==
  q \in [kind : Kind, key : Key, id : Reservation, asked : Asked,
         version : 1..MaxVersion, flag : BOOLEAN]

ASSUME TransactionAssumption ==
  /\ IsFiniteSet(Reservation) /\ IsFiniteSet(Client)
  /\ NoReservation \notin Reservation
  /\ Service # {}
  /\ Slot \subseteq Nat /\ Slot # {}
  /\ Window \in Nat
  /\ Limit \in [Service -> Nat]
  /\ MaxParty \in Nat \ {0}
  /\ MaxVersion \in Nat \ {0}
  /\ Start \in [Reservation -> Row]
  /\ \A q \in Request : IsRequest(q)
  /\ \A q \in Request : q.kind \in Creates => Start[q.id].status = "FREE"
  \* The hash of a key includes the channel that sent it.
  /\ \A p, q \in Request :
        {p.kind, q.kind} \subseteq Creates /\ p.key = q.key => p.kind = q.kind
  /\ Rank \in [Service -> Nat]
  /\ \A s, t \in Service : Rank[s] = Rank[t] => s = t
  /\ MaxAttempts \in Nat \ {0}
  /\ MaxSubmits \in Nat \ {0}

-----------------------------------------------------------------------------
(* A handler on the tables S of its snapshot.                              *)

Arrivals(S, s) ==
  {r \in Reservation : S.row[r].status = "CONFIRMED" /\ S.row[r].service = s}

Fits(S, q) ==
  SlotHasRoom(S.row, Arrivals(S, q.asked.service) \ {q.id}, MaxParty, Slot,
              q.asked.slot, q.asked.party, Limit[q.asked.service], Window)

SameSeats(was, a) ==
  <<was.service, was.slot, was.party>> = <<a.service, a.slot, a.party>>

Claimed(S, k) == S.key[k].owner # NoReservation

OriginOf(q) == IF q.kind = "createPublic" THEN "PUBLIC" ELSE "PHONE"

(* A key is replayed to whoever repeats the request it was claimed by.     *)
Repeats(S, q) ==
  /\ S.key[q.key].asked = q.asked
  /\ S.key[q.key].flag = q.flag
  /\ S.row[S.key[q.key].owner].origin = OriginOf(q)

Override(q) == q.kind \in {"createPhone", "updateStaff"} /\ q.flag

CapacityAnswer(S, q, word) ==
  CASE Fits(S, q) /\ Override(q)   -> "OVERRIDE_NOT_REQUIRED"
    [] ~Fits(S, q) /\ ~Override(q) -> "CAPACITY_EXCEEDED"
    [] OTHER                       -> word

(* Mutant: the key is not looked up.                                       *)
CreateAnyway(S, q) == CapacityAnswer(S, q, "CREATED")

CreateAnswer(S, q) ==
  CASE Claimed(S, q.key) /\ Repeats(S, q)  -> "REPLAYED"
    [] Claimed(S, q.key) /\ ~Repeats(S, q) -> "IDEMPOTENCY_CONFLICT"
    [] OTHER                               -> CapacityAnswer(S, q, "CREATED")

(* The site checks the capacity for every change, the staff's screen for a *)
(* change of schedule or party.                                            *)
UpdateAnswer(S, q) ==
  LET was     == S.row[q.id]
      moved   == ~SameSeats(was, q.asked)
      changed == moved \/ was.detail # q.asked.detail
  IN  CASE was.status = "CANCELLED" -> "RESERVATION_CANCELLED"
        [] was.status # "CANCELLED" /\ q.kind = "updatePublic" ->
             IF changed THEN CapacityAnswer(S, q, "UPDATED") ELSE "UNCHANGED"
        [] OTHER ->
             IF was.version # q.version THEN "VERSION_CONFLICT"
             ELSE IF moved THEN CapacityAnswer(S, q, "UPDATED")
             ELSE IF Override(q) THEN "OVERRIDE_NOT_REQUIRED"
             ELSE IF changed THEN "UPDATED" ELSE "UNCHANGED"

CancelAnswer(S, q) ==
  LET was == S.row[q.id] IN
  CASE was.status = "CANCELLED" -> "UNCHANGED"
    [] was.status # "CANCELLED" /\ q.kind = "cancelStaff"
         /\ was.version # q.version -> "VERSION_CONFLICT"
    [] OTHER -> "CANCELLED"

(* Mutant: an arrival needs no version.                                    *)
ArrivalUnseen(S, q) ==
  IF S.row[q.id].arrived = q.flag THEN "UNCHANGED" ELSE "UPDATED"

(* What is already as wanted needs no version; an arrival may be corrected *)
(* on a cancelled reservation, a room is only for a confirmed one.         *)
ArrivalAnswer(S, q) ==
  LET was == S.row[q.id] IN
  IF was.arrived = q.flag THEN "UNCHANGED"
  ELSE IF was.version # q.version THEN "VERSION_CONFLICT" ELSE "UPDATED"

AssignmentAnswer(S, q) ==
  LET was == S.row[q.id] IN
  IF was.status # "CONFIRMED" THEN "RESERVATION_CANCELLED"
  ELSE IF was.seated = q.flag THEN "UNCHANGED"
  ELSE IF was.version # q.version THEN "VERSION_CONFLICT" ELSE "UPDATED"

(* A change may be about a booking that is still being made.               *)
Known(S, q) == S.row[q.id].status # "FREE"

Answer(S, q) ==
  IF q.kind \notin Creates /\ ~Known(S, q) THEN "NOT_FOUND"
  ELSE CASE q.kind \in Creates    -> CreateAnswer(S, q)
         [] q.kind \in Updates    -> UpdateAnswer(S, q)
         [] q.kind \in Cancels    -> CancelAnswer(S, q)
         [] q.kind = "arrival"    -> ArrivalAnswer(S, q)
         [] q.kind = "assignment" -> AssignmentAnswer(S, q)

Changing == {"CREATED", "UPDATED", "CANCELLED"}
ReadOnly == {"REPLAYED", "UNCHANGED"}

(* The row a changing handler writes.  Without another schedule or party,  *)
(* and on the site always, the flag of an earlier override stays; another  *)
(* schedule empties the seat.                                              *)
Rebooked(was, q) ==
  [was EXCEPT
     !.service = q.asked.service, !.slot = q.asked.slot,
     !.party = q.asked.party, !.detail = q.asked.detail, !.version = @ + 1,
     !.override = IF q.kind = "updatePublic" \/ SameSeats(was, q.asked)
                    THEN @ ELSE q.flag,
     !.seated = @ /\ was.service = q.asked.service
                  /\ was.slot = q.asked.slot]

Written(S, q) ==
  LET was == S.row[q.id] IN
  CASE q.kind \in Creates -> [status |-> "CONFIRMED", origin |-> OriginOf(q),
                              service |-> q.asked.service,
                              slot |-> q.asked.slot, party |-> q.asked.party,
                              detail |-> q.asked.detail,
                              override |-> Override(q), version |-> 1,
                              arrived |-> FALSE, seated |-> FALSE]
    [] q.kind \in Updates -> Rebooked(was, q)
    [] q.kind \in Cancels -> [was EXCEPT !.status = "CANCELLED",
                                         !.version = @ + 1]
    [] q.kind = "arrival" -> [was EXCEPT !.arrived = q.flag,
                                         !.version = @ + 1]
    [] q.kind = "assignment" -> [was EXCEPT !.seated = q.flag,
                                            !.version = @ + 1]

-----------------------------------------------------------------------------
(* The locks a handler takes, in its order, up to where it ends.           *)

KeyLock(k)      == <<"idempotency", k>>
LinkLock(r)     == <<"management", r>>
MutationLock(r) == <<"mutation", r>>
ConfigLock      == <<"configuration", "tenant">>
CapacityLock(s) == <<"capacity", s>>

(* Capacity locks in one order for everybody, each only once.              *)
CapacityLocks(s, t) ==
  CASE s = t                           -> <<CapacityLock(s)>>
    [] s # t /\ Rank[s] < Rank[t]      -> <<CapacityLock(s), CapacityLock(t)>>
    [] OTHER                           -> <<CapacityLock(t), CapacityLock(s)>>

(* The services whose seats the handler goes on to look at, if it does.    *)
SeatLocks(S, q) ==
  LET was == S.row[q.id] IN
  IF Answer(S, q) \in {"NOT_FOUND", "RESERVATION_CANCELLED",
                     "VERSION_CONFLICT"}
       \/ (q.kind # "updateStaff" /\ Answer(S, q) = "UNCHANGED")
    THEN << >>
  ELSE IF q.kind \in Updates THEN CapacityLocks(was.service, q.asked.service)
  ELSE CapacityLocks(was.service, was.service)

(* Mutant: the configuration is locked last.                               *)
RoomLocksReversed(S, q) ==
  <<MutationLock(q.id), CapacityLock(S.row[q.id].service), ConfigLock>>

RoomLocks(S, q) ==
  <<MutationLock(q.id), ConfigLock>>
    \o (IF Known(S, q) THEN <<CapacityLock(S.row[q.id].service)>> ELSE << >>)

Plan(S, q) ==
  CASE q.kind \in Creates ->
         <<KeyLock(q.key)>> \o (IF Claimed(S, q.key) THEN << >>
                                ELSE <<CapacityLock(q.asked.service)>>)
    [] q.kind \in {"updatePublic", "cancelPublic"} ->
         <<LinkLock(q.id)>>
           \o (IF Known(S, q) THEN <<MutationLock(q.id), ConfigLock>>
                                     \o SeatLocks(S, q)
               ELSE << >>)
    [] q.kind \in {"updateStaff", "cancelStaff"} ->
         <<MutationLock(q.id), ConfigLock>> \o SeatLocks(S, q)
    [] q.kind = "arrival" -> <<MutationLock(q.id)>>
    [] q.kind = "assignment" -> RoomLocks(S, q)

-----------------------------------------------------------------------------
(* What the transaction read and wrote, for PostgreSQL's serializability.  *)
(* Writing a row touches the arrivals of the services it leaves and joins. *)

Rows(r)  == <<"reservation", r>>
Seats(s) == <<"arrivals", s>>
Keys(k)  == <<"key", k>>

Reads(S, q) ==
  IF q.kind \in Creates
    THEN {Keys(q.key)} \cup (IF Claimed(S, q.key)
                               THEN {Rows(S.key[q.key].owner)}
                               ELSE {Seats(q.asked.service)})
    ELSE {Rows(q.id)} \cup
         (IF (q.kind = "updatePublic" /\ Answer(S, q) # "UNCHANGED")
               \/ (q.kind = "updateStaff" /\ ~SameSeats(S.row[q.id], q.asked))
            THEN {Seats(q.asked.service)} ELSE {})

Writes(S, q) ==
  IF Answer(S, q) \notin Changing THEN {}
  ELSE {Rows(q.id), Seats(Written(S, q).service)}
         \cup (IF q.kind \in Creates THEN {Keys(q.key)}
               ELSE {Seats(S.row[q.id].service)})

Entry(c) == [since |-> snap[c].since, reads |-> Reads(snap[c], req[c]),
             writes |-> Writes(snap[c], req[c])]

(* The arrival handler reads its row FOR UPDATE.                           *)
LockedRows(c) == IF req[c].kind = "arrival" THEN {Rows(req[c].id)} ELSE {}

Overwrites(c) ==
  Overwritten(log, snap[c].since,
              {Rows(r) : r \in Reservation}
                \cap (Entry(c).writes \cup LockedRows(c)))

(* Mutant: REPEATABLE READ.                                                *)
ConflictsOfWriters(c) == Overwrites(c)

(* SERIALIZABLE.                                                           *)
Conflicts(c) == Overwrites(c) \/ Dangerous(Append(log, Entry(c)))

-----------------------------------------------------------------------------
Held(c) ==
  IF pc[c] = "running" THEN {Plan(snap[c], req[c])[i] : i \in 1..got[c]}
  ELSE {}

NextLock(c) == Plan(snap[c], req[c])[got[c] + 1]

LocksDone(c) == got[c] = Len(Plan(snap[c], req[c]))

Wants(c) ==
  IF pc[c] = "running" /\ ~LocksDone(c) THEN {NextLock(c)} ELSE {}

Nothing == [word |-> "NONE", id |-> NoReservation]

Blank == [row |-> Start, since |-> 0,
          key |-> [k \in Key |-> [owner |-> NoReservation,
                                 asked |-> CHOOSE a \in Asked : TRUE,
                                 flag |-> FALSE]]]

(* Two new reservations never get one identifier.                          *)
Init ==
  /\ row = Start
  /\ key = Blank.key
  /\ log = << >>
  /\ req \in [Client -> Request]
  /\ \A c, d \in Client :
       req[c].kind \in Creates /\ req[d].kind \in Creates /\ c # d
         => req[c].id # req[d].id
  /\ pc = [c \in Client |-> "idle"]
  /\ sent = [c \in Client |-> 0]
  /\ tries = [c \in Client |-> 0]
  /\ snap = [c \in Client |-> Blank]
  /\ got = [c \in Client |-> 0]
  /\ answer = [c \in Client |-> Nothing]

(* A client that has no answer, or does not trust it, sends the same       *)
(* request again.                                                          *)
Submit(c) ==
  /\ pc[c] \in {"idle", "answered", "lost"}
  /\ sent[c] < MaxSubmits
  /\ pc' = [pc EXCEPT ![c] = "ready"]
  /\ sent' = [sent EXCEPT ![c] = @ + 1]
  /\ tries' = [tries EXCEPT ![c] = 0]
  /\ answer' = [answer EXCEPT ![c] = Nothing]
  /\ UNCHANGED <<row, key, log, req, snap, got>>

(* Mutant: the attempts are not counted.                                   *)
BeginUncounted(c) ==
  /\ pc[c] = "ready"
  /\ pc' = [pc EXCEPT ![c] = "running"]
  /\ snap' = [snap EXCEPT ![c] = [row |-> row, key |-> key,
                                  since |-> Len(log)]]
  /\ UNCHANGED <<row, key, log, req, sent, tries, got, answer>>

(* The first lock is asked for: this statement's snapshot is the           *)
(* transaction's.                                                          *)
Begin(c) ==
  /\ pc[c] = "ready"
  /\ pc' = [pc EXCEPT ![c] = "running"]
  /\ tries' = [tries EXCEPT ![c] = @ + 1]
  /\ snap' = [snap EXCEPT ![c] = [row |-> row, key |-> key,
                                  since |-> Len(log)]]
  /\ UNCHANGED <<row, key, log, req, sent, got, answer>>

Acquire(c) ==
  /\ Wants(c) # {}
  /\ \A d \in Client \ {c} : NextLock(c) \notin Held(d)
  /\ got' = [got EXCEPT ![c] = @ + 1]
  /\ UNCHANGED <<row, key, log, req, pc, sent, tries, snap, answer>>

(* The transaction of c is over; what nobody is concurrent with any more   *)
(* is dropped from the log.                                                *)
End(c, L, where) ==
  /\ log' = IF \E d \in Client \ {c} : pc[d] = "running" THEN L ELSE << >>
  /\ pc' = [pc EXCEPT ![c] = where]
  /\ snap' = [snap EXCEPT ![c] = Blank]
  /\ got' = [got EXCEPT ![c] = 0]
  /\ UNCHANGED <<req, sent, tries>>

Tell(c, word, id) == answer' = [answer EXCEPT ![c] = [word |-> word, id |-> id]]

Commit(c) ==
  LET S == snap[c]
      q == req[c]
      word == Answer(S, q)
  IN  /\ pc[c] = "running" /\ LocksDone(c)
      /\ word \in Changing \cup ReadOnly
      /\ word \in Changing => S.row[q.id].version < MaxVersion
      /\ ~Conflicts(c)
      /\ row' = IF word \in Changing
                  THEN [row EXCEPT ![q.id] = Written(S, q)] ELSE row
      /\ key' = IF word = "CREATED"
                  THEN [key EXCEPT ![q.key] = [owner |-> q.id,
                                               asked |-> q.asked,
                                               flag |-> q.flag]] ELSE key
      /\ Tell(c, word, IF word = "REPLAYED" THEN S.key[q.key].owner ELSE q.id)
      /\ End(c, Append(log, Entry(c)), "answered")

(* A refusal is thrown out of the transaction: it is rolled back, and      *)
(* nothing validates what the refusal was based on.                        *)
Refuse(c) ==
  LET word == Answer(snap[c], req[c]) IN
  /\ pc[c] = "running" /\ LocksDone(c)
  /\ word \notin Changing \cup ReadOnly
  /\ Tell(c, word, NoReservation)
  /\ End(c, log, "answered")
  /\ UNCHANGED <<row, key>>

Abort(c) ==
  /\ pc[c] = "running"
  /\ IF tries[c] < MaxAttempts
       THEN End(c, log, "ready") /\ UNCHANGED answer
       ELSE End(c, log, "answered") /\ Tell(c, "GAVE_UP", NoReservation)
  /\ UNCHANGED <<row, key>>

(* PostgreSQL refuses the commit.                                          *)
Serialize(c) == LocksDone(c) /\ Conflicts(c) /\ Abort(c)

(* PostgreSQL may see a conflict where there is none, or break a deadlock. *)
AbortEarly(c) ==
  /\ log # << >> \/ \E d \in Client \ {c} : pc[d] = "running"
  /\ Abort(c)

(* The server dies, or the answer is lost: the client cannot tell.         *)
Crash(c) ==
  /\ pc[c] = "running"
  /\ End(c, log, "lost")
  /\ UNCHANGED <<row, key, answer>>

Step(c) == Begin(c) \/ Acquire(c) \/ Commit(c) \/ Refuse(c) \/ Serialize(c)

Next ==
  \E c \in Client : \/ Submit(c)
                   \/ Step(c)
                   \/ AbortEarly(c)
                   \/ Crash(c)

Spec == Init /\ [][Next]_vars

(* The server works on every request it was handed, and a lock queue is    *)
(* served.                                                                 *)
FairSpec == Spec /\ \A c \in Client : WF_vars(Step(c))

-----------------------------------------------------------------------------
(* Clients, tables, transactions and locks are what they are said to be,   *)
(* and what is not running holds nothing.                                  *)
TypeOK ==
  /\ row \in [Reservation -> Row]
  /\ key \in [Key -> Claim]
  /\ \A c \in Client :
       /\ req[c] \in Request /\ IsRequest(req[c])
       /\ pc[c] \in {"idle", "ready", "running", "answered", "lost"}
       /\ sent[c] \in 0..MaxSubmits /\ tries[c] \in 0..MaxAttempts
       /\ snap[c].row \in [Reservation -> Row]
       /\ snap[c].key \in [Key -> Claim]
       /\ snap[c].since \in 0..Len(log)
       /\ got[c] \in 0..5
       /\ pc[c] # "running" => snap[c] = Blank /\ got[c] = 0
       /\ answer[c].id \in Reservation \cup {NoReservation}

(* Whatever the interleaving, stale snapshots, aborts and crashes, the     *)
(* committed tables change as the ledger does: no two bookings share the   *)
(* last seats, no key books twice, nothing cancelled comes back            *)
(* (runReservationTransaction and every handler run in it).  Most steps    *)
(* leave the ledger alone, which is looked at first.                       *)
Ledger == INSTANCE BookingLedger WITH
  row   <- [r \in Reservation |->
              [status   |-> row[r].status,
               service  |-> row[r].service,
               slot     |-> row[r].slot,
               party    |-> row[r].party,
               override |-> row[r].override,
               version  |-> row[r].version]],
  claim <- [k \in Key |-> key[k].owner]

KeepsTheLedger == [][UNCHANGED Ledger!vars \/ Ledger!Next]_(Ledger!vars)

(* Two clients are never both told that their change of the same version   *)
(* of a reservation succeeded: nobody's change is lost under another's     *)
(* (the version checks of the staff's handlers).                           *)
Versioned == {"updateStaff", "cancelStaff", "arrival", "assignment"}

NoLostUpdate ==
  \A c, d \in Client :
     /\ c # d
     /\ req[c].kind \in Versioned /\ req[d].kind \in Versioned
     /\ req[c].id = req[d].id
     /\ answer[c].word \in Changing /\ answer[d].word \in Changing
     => req[c].version # req[d].version

(* Whoever is told that a create request went well is told of the same     *)
(* reservation as everybody else with that key, and that it was created    *)
(* only once, however often the request was sent, at the same time or      *)
(* after a lost answer (the idempotency branch of the create handlers).    *)
OneBookingPerKey ==
  \A c, d \in Client :
     /\ {req[c].kind, req[d].kind} \subseteq Creates
     /\ req[c].key = req[d].key
     /\ {answer[c].word, answer[d].word} \subseteq {"CREATED", "REPLAYED"}
     => /\ answer[c].id = answer[d].id
        /\ c # d => "REPLAYED" \in {answer[c].word, answer[d].word}

(* Every reservation that was not there at the start is the one a key      *)
(* stands for.  As a key stands for one, no two were booked under it,      *)
(* whoever sent them and whether or not anybody was told: of two, one      *)
(* would be left without its key (the idempotency branch of the create     *)
(* handlers, on a snapshot older than the key's lock).                     *)
BookedUnderAKey ==
  \A r \in Reservation :
     Start[r].status = "FREE" /\ row[r].status # "FREE"
       => \E k \in Key : key[k].owner = r

(* Lock requests never wait on each other in a circle: in every group of   *)
(* requests somebody's next lock is not held by another of the group (the  *)
(* lock order all handlers share).                                         *)
NobodyWaitsInACircle ==
  \A G \in (SUBSET Client) \ {{}} :
     \E c \in G : \A d \in G \ {c} : Wants(c) \cap Held(d) = {}

(* Every request sent is answered in the end, a crash of the server aside: *)
(* the attempts are bounded and the locks come free.                       *)
EveryRequestIsAnswered ==
  \A c \in Client : pc[c] = "ready" ~> pc[c] \in {"answered", "lost"}

(* What ADR 003 says of a write that changes covers: it takes the lock,    *)
(* then reads the confirmed reservations again.  A request about to be     *)
(* refused for capacity would then find the window full.                   *)
RefusedOnlyWhenFull ==
  \A c \in Client :
     /\ pc[c] = "running" /\ LocksDone(c)
     /\ Answer(snap[c], req[c]) = "CAPACITY_EXCEEDED"
     => ~Fits([row |-> row, key |-> key], req[c])
==============================================================================
