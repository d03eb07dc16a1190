-------------------- MODULE ReservationTransactions_proofs --------------------
(***************************************************************************)
(* Theorems of the concurrent requests, for every set of reservations,     *)
(* keys, services and clients: what they commit are steps of the ledger,   *)
(* nobody's change is lost, a key books once, and no group of requests     *)
(* waits in a circle.  Requests decide on snapshots older than their       *)
(* locks, so the invariant says what the log tells of the difference       *)
(* between a running snapshot and the tables: whoever replaced a row is    *)
(* logged as its writer, whoever claimed a key or took seats as one that   *)
(* had read what the running request is about to write.                    *)
(***************************************************************************)
EXTENDS ReservationTransactions, OperatorTheorems

Item == {Rows(r) : r \in Reservation} \cup {Seats(s) : s \in Service}
          \cup {Keys(k) : k \in Key}

Logged == [since : Nat, reads : SUBSET Item, writes : SUBSET Item]

Snapshot == [row : [Reservation -> Row], key : [Key -> Claim], since : Nat]

Running(c) == pc[c] = "running"

TableShape ==
  /\ row \in [Reservation -> Row]
  /\ key \in [Key -> Claim]

ClientShape ==
  /\ log \in Seq(Logged)
  /\ req \in [Client -> Request]
  /\ pc \in [Client -> {"idle", "ready", "running", "answered", "lost"}]
  /\ sent \in [Client -> 0..MaxSubmits]
  /\ tries \in [Client -> 0..MaxAttempts]
  /\ snap \in [Client -> Snapshot]
  /\ got \in [Client -> Nat]
  /\ DOMAIN answer = Client
  /\ \A c \in Client :
       /\ answer[c].id \in Reservation \cup {NoReservation}
       /\ pc[c] = "ready" => tries[c] < MaxAttempts
       /\ Running(c) => got[c] <= Len(Plan(snap[c], req[c]))
       /\ ~Running(c) => snap[c] = Blank /\ got[c] = 0

(* No booking was made yet for whoever is about to make one.               *)
Expected ==
  \A c \in Client :
     req[c].kind \in Creates /\ key[req[c].key].owner = NoReservation
       => row[req[c].id].status = "FREE"

IdsDiffer ==
  \A c, d \in Client :
     req[c].kind \in Creates /\ req[d].kind \in Creates /\ c # d
       => req[c].id # req[d].id

(* A confirmed row that already had its seats.                             *)
SatThere(was, is) == was.status = "CONFIRMED" /\ SameSeats(was, is)

(* What the log L tells of rows R and keys K that a snapshot S does not    *)
(* show.                                                                   *)
Explains(L, S, R, K) ==
  /\ S.since <= Len(L)
  /\ \A r \in Reservation :
       /\ R[r] # S.row[r] => Replaced(L, S.since, Rows(r))
       /\ R[r].status = "CONFIRMED" /\ ~SatThere(S.row[r], R[r])
            => Met(L, S.since, Seats(R[r].service), Seats(R[r].service))
  /\ \A k \in Key :
       K[k] # S.key[k] => /\ ~Claimed(S, k)
                          /\ Met(L, S.since, Keys(k), Keys(k))

Explained ==
  \A c \in Client : Running(c) => Explains(log, snap[c], row, key)

(* What was told stays true: a change of a version leaves it behind, and a *)
(* key stands for what its clients were told.                              *)
ToldOfChanges ==
  \A c \in Client :
     req[c].kind \in Versioned /\ answer[c].word \in Changing
       => /\ row[req[c].id].status # "FREE"
          /\ req[c].version < row[req[c].id].version

ToldOfKeys ==
  \A c \in Client :
     req[c].kind \in Creates /\ answer[c].word \in {"CREATED", "REPLAYED"}
       => /\ answer[c].id = key[req[c].key].owner
          /\ answer[c].id # NoReservation
          /\ answer[c].word = "CREATED" => answer[c].id = req[c].id

(* The inductive invariant.                                                *)
IInv ==
  /\ TableShape
  /\ ClientShape
  /\ IdsDiffer
  /\ Expected
  /\ Explained
  /\ ToldOfChanges
  /\ ToldOfKeys
  /\ NoLostUpdate

-----------------------------------------------------------------------------
LEMMA Constants ==
  /\ Service # {} /\ Slot # {} /\ Slot \subseteq Nat
  /\ MaxParty \in Nat /\ MaxParty > 0 /\ MaxVersion \in Nat /\ MaxVersion > 0
  /\ MaxAttempts \in Nat /\ MaxAttempts > 0 /\ MaxSubmits \in Nat
  /\ NoReservation \notin Reservation
  /\ Limit \in [Service -> Nat] /\ Rank \in [Service -> Nat]
  /\ Start \in [Reservation -> Row]
BY TransactionAssumption

LEMMA RequestsAreTyped ==
  ASSUME NEW q \in Request
  PROVE  /\ q.kind \in Kind /\ q.key \in Key /\ q.id \in Reservation
         /\ q.asked \in Asked /\ q.version \in 1..MaxVersion
         /\ q.flag \in BOOLEAN
BY TransactionAssumption DEF IsRequest

LEMMA AskedIsTyped ==
  ASSUME NEW a \in Asked
  PROVE  /\ a.service \in Service /\ a.slot \in Slot
         /\ a.party \in 1..MaxParty /\ a.party \in 0..MaxParty
         /\ a.detail \in BOOLEAN
BY Constants DEF Asked

LEMMA BlankIsASnapshot == Blank \in Snapshot
<1>1. Asked # {}
  <2>1. PICK s \in Service, t \in Slot : TRUE
    BY Constants
  <2>2. [service |-> s, slot |-> t, party |-> 1, detail |-> FALSE] \in Asked
    BY Constants DEF Asked
  <2> QED
    BY <2>2
<1>2. (CHOOSE a \in Asked : TRUE) \in Asked
  BY <1>1
<1> DEFINE any == CHOOSE a \in Asked : TRUE
<1> HIDE DEF any
<1>3. [k \in Key |-> [owner |-> NoReservation, asked |-> any, flag |-> FALSE]]
        \in [Key -> Claim]
  BY <1>2 DEF Claim, any
<1> QED
  BY <1>3, Constants DEF Blank, Snapshot, any

-----------------------------------------------------------------------------
(* What an answer says of the snapshot it was found on.                    *)

LEMMA CapacityAnswers ==
  ASSUME NEW S, NEW q, NEW word, CapacityAnswer(S, q, word) = word,
         word \in Changing
  PROVE  Override(q) \/ Fits(S, q)
BY DEF CapacityAnswer, Changing

LEMMA CapacityAnswersAre ==
  ASSUME NEW S, NEW q, NEW word
  PROVE  CapacityAnswer(S, q, word)
           \in {"OVERRIDE_NOT_REQUIRED", "CAPACITY_EXCEEDED", word}
BY DEF CapacityAnswer

LEMMA OfACreate ==
  ASSUME NEW S, NEW q, q.kind \in Creates, Answer(S, q) \in Changing
  PROVE  /\ Answer(S, q) = "CREATED"
         /\ ~Claimed(S, q.key)
         /\ Override(q) \/ Fits(S, q)
<1>1. Answer(S, q) = CreateAnswer(S, q)
  BY DEF Answer, Creates, Updates, Cancels
<1>2. ~Claimed(S, q.key)
  BY <1>1 DEF CreateAnswer, Changing
<1>3. CreateAnswer(S, q) = CapacityAnswer(S, q, "CREATED")
  BY <1>2 DEF CreateAnswer
<1>4. Answer(S, q) = "CREATED"
  BY <1>1, <1>3, CapacityAnswersAre DEF Changing
<1> QED
  BY <1>1, <1>2, <1>3, <1>4, CapacityAnswers DEF Changing

LEMMA OfAChange ==
  ASSUME NEW S, NEW q, q.kind \notin Creates, Answer(S, q) \in Changing
  PROVE  Known(S, q)
BY DEF Answer, Changing

LEMMA OfAnUpdate ==
  ASSUME NEW S, NEW q, q.kind \in Updates, Answer(S, q) \in Changing
  PROVE  /\ Answer(S, q) = "UPDATED"
         /\ S.row[q.id].status \notin {"FREE", "CANCELLED"}
         /\ q.kind = "updatePublic" => Fits(S, q)
         /\ q.kind = "updateStaff" =>
              /\ S.row[q.id].version = q.version
              /\ ~SameSeats(S.row[q.id], q.asked) => q.flag \/ Fits(S, q)
<1>1. Known(S, q)
  BY OfAChange DEF Creates, Updates
<1>2. Answer(S, q) = UpdateAnswer(S, q)
  BY <1>1 DEF Answer, Creates, Updates, Cancels
<1>3. S.row[q.id].status # "CANCELLED"
  BY <1>2 DEF UpdateAnswer, Changing
<1>4. CASE q.kind = "updatePublic"
  <2>1. UpdateAnswer(S, q) \in {"UNCHANGED", CapacityAnswer(S, q, "UPDATED")}
    BY <1>3, <1>4 DEF UpdateAnswer
  <2>2. Answer(S, q) = CapacityAnswer(S, q, "UPDATED")
    BY <1>2, <2>1 DEF Changing
  <2>3. Answer(S, q) = "UPDATED"
    BY <2>2, CapacityAnswersAre DEF Changing
  <2>4. ~Override(q)
    BY <1>4 DEF Override
  <2> QED
    BY <1>1, <1>3, <1>4, <2>2, <2>3, <2>4, CapacityAnswers
       DEF Known, Changing
<1>5. CASE q.kind = "updateStaff"
  <2>1. S.row[q.id].version = q.version
    BY <1>2, <1>3, <1>5 DEF UpdateAnswer, Changing
  <2>2. CASE ~SameSeats(S.row[q.id], q.asked)
    <3>1. UpdateAnswer(S, q) = CapacityAnswer(S, q, "UPDATED")
      BY <1>3, <1>5, <2>1, <2>2 DEF UpdateAnswer
    <3>2. Answer(S, q) = "UPDATED"
      BY <1>2, <3>1, CapacityAnswersAre DEF Changing
    <3> QED
      BY <1>1, <1>2, <1>3, <1>5, <2>1, <3>1, <3>2, CapacityAnswers
         DEF Known, Changing, Override
  <2>3. CASE SameSeats(S.row[q.id], q.asked)
    <3>1. UpdateAnswer(S, q)
            \in {"OVERRIDE_NOT_REQUIRED", "UPDATED", "UNCHANGED"}
      BY <1>3, <1>5, <2>1, <2>3 DEF UpdateAnswer
    <3> QED
      BY <1>1, <1>2, <1>3, <1>5, <2>1, <2>3, <3>1 DEF Known, Changing
  <2> QED
    BY <2>2, <2>3
<1> QED
  BY <1>4, <1>5 DEF Updates

LEMMA OfACancel ==
  ASSUME NEW S, NEW q, q.kind \in Cancels, Answer(S, q) \in Changing
  PROVE  /\ Answer(S, q) = "CANCELLED"
         /\ S.row[q.id].status \notin {"FREE", "CANCELLED"}
         /\ q.kind = "cancelStaff" => S.row[q.id].version = q.version
<1>1. Known(S, q)
  BY OfAChange DEF Creates, Cancels
<1>2. Answer(S, q) = CancelAnswer(S, q)
  BY <1>1 DEF Answer, Creates, Updates, Cancels
<1> QED
  BY <1>1, <1>2 DEF CancelAnswer, Changing, Known

LEMMA OfAnArrival ==
  ASSUME NEW S, NEW q, q.kind = "arrival", Answer(S, q) \in Changing
  PROVE  /\ Answer(S, q) = "UPDATED"
         /\ Known(S, q) /\ S.row[q.id].version = q.version
<1>1. Known(S, q)
  BY OfAChange DEF Creates
<1>2. Answer(S, q) = ArrivalAnswer(S, q)
  BY <1>1 DEF Answer, Creates, Updates, Cancels
<1> QED
  BY <1>1, <1>2 DEF ArrivalAnswer, Changing

LEMMA OfAnAssignment ==
  ASSUME NEW S, NEW q, q.kind = "assignment", Answer(S, q) \in Changing
  PROVE  /\ Answer(S, q) = "UPDATED"
         /\ S.row[q.id].status = "CONFIRMED"
         /\ S.row[q.id].version = q.version
<1>1. Known(S, q)
  BY OfAChange DEF Creates
<1>2. Answer(S, q) = AssignmentAnswer(S, q)
  BY <1>1 DEF Answer, Creates, Updates, Cancels
<1> QED
  BY <1>1, <1>2 DEF AssignmentAnswer, Changing

LEMMA KindsOfRequests ==
  ASSUME NEW q \in Request
  PROVE  \/ q.kind \in Creates
         \/ q.kind \in Updates
         \/ q.kind \in Cancels
         \/ q.kind = "arrival"
         \/ q.kind = "assignment"
BY RequestsAreTyped DEF Kind, Creates, Updates, Cancels

-----------------------------------------------------------------------------
(* What is written, request by request.                                    *)

LEMMA RowsAreTyped ==
  ASSUME NEW S \in Snapshot, NEW r \in Reservation
  PROVE  S.row[r] \in Row /\ S.row[r].version \in 0..MaxVersion
BY DEF Snapshot, Row

LEMMA WrittenByACreate ==
  ASSUME NEW S, NEW q \in Request, q.kind \in Creates
  PROVE  /\ Written(S, q) \in Row
         /\ Written(S, q).status = "CONFIRMED"
         /\ SameSeats(Written(S, q), q.asked)
         /\ Written(S, q).override = Override(q)
         /\ Written(S, q).version = 1
<1>1. Written(S, q) = [status |-> "CONFIRMED", origin |-> OriginOf(q),
                       service |-> q.asked.service, slot |-> q.asked.slot,
                       party |-> q.asked.party, detail |-> q.asked.detail,
                       override |-> Override(q), version |-> 1,
                       arrived |-> FALSE, seated |-> FALSE]
  BY DEF Written, Creates, Updates, Cancels
<1>2. OriginOf(q) \in Origin
  BY DEF OriginOf, Origin
<1>3. Override(q) \in BOOLEAN
  BY RequestsAreTyped DEF Override
<1>4. 1 \in 0..MaxVersion
  BY Constants
<1>5. q.asked \in Asked
  BY RequestsAreTyped
<1>6. Written(S, q) \in Row
  BY <1>1, <1>2, <1>3, <1>4, <1>5, AskedIsTyped DEF Row, Status
<1> QED
  BY <1>1, <1>6 DEF SameSeats

LEMMA WrittenByAnUpdate ==
  ASSUME NEW S \in Snapshot, NEW q \in Request, q.kind \in Updates,
         S.row[q.id].version < MaxVersion
  PROVE  /\ Written(S, q) \in Row
         /\ Written(S, q).status = S.row[q.id].status
         /\ SameSeats(Written(S, q), q.asked)
         /\ Written(S, q).override =
              IF q.kind = "updatePublic" \/ SameSeats(S.row[q.id], q.asked)
                THEN S.row[q.id].override ELSE q.flag
         /\ Written(S, q).version = S.row[q.id].version + 1
<1> DEFINE was == S.row[q.id]
           kept == q.kind = "updatePublic" \/ SameSeats(was, q.asked)
<1>1. Written(S, q) = Rebooked(was, q)
  BY DEF Written, Creates, Updates, Cancels
<1>2. was \in Row /\ was.version + 1 \in 0..MaxVersion
  <2>1. was \in Row /\ was.version \in 0..MaxVersion
    BY RequestsAreTyped, RowsAreTyped
  <2> QED
    BY <2>1, Constants
<1>3. q.asked \in Asked
  BY RequestsAreTyped
<1> DEFINE o == IF kept THEN was.override ELSE q.flag
           t == /\ was.seated /\ was.service = q.asked.service
                /\ was.slot = q.asked.slot
<1>5. o \in BOOLEAN /\ t \in BOOLEAN
  BY <1>2, RequestsAreTyped DEF Row
<1>6. Rebooked(was, q) =
        [was EXCEPT
           !.service = q.asked.service, !.slot = q.asked.slot,
           !.party = q.asked.party, !.detail = q.asked.detail,
           !.version = was.version + 1, !.override = o, !.seated = t]
  BY <1>2 DEF Rebooked, Row
<1> HIDE DEF o, t
<1>7. Rebooked(was, q) \in Row
  BY <1>2, <1>3, <1>5, <1>6, AskedIsTyped DEF Row
<1>8. /\ Rebooked(was, q).status = was.status
      /\ Rebooked(was, q).service = q.asked.service
      /\ Rebooked(was, q).slot = q.asked.slot
      /\ Rebooked(was, q).party = q.asked.party
      /\ Rebooked(was, q).override = o
      /\ Rebooked(was, q).version = was.version + 1
  BY <1>2, <1>6 DEF Row
<1> QED
  BY <1>1, <1>7, <1>8 DEF SameSeats, o

LEMMA WrittenByACancel ==
  ASSUME NEW S \in Snapshot, NEW q \in Request, q.kind \in Cancels,
         S.row[q.id].version < MaxVersion
  PROVE  /\ Written(S, q) \in Row
         /\ Written(S, q) = [S.row[q.id] EXCEPT
                              !.status = "CANCELLED", !.version = @ + 1]
         /\ Written(S, q).status = "CANCELLED"
         /\ Written(S, q).version = S.row[q.id].version + 1
<1>1. Written(S, q) = [S.row[q.id] EXCEPT !.status = "CANCELLED",
                                          !.version = @ + 1]
  BY DEF Written, Creates, Updates, Cancels
<1>2. S.row[q.id] \in Row /\ S.row[q.id].version \in 0..MaxVersion
  BY RequestsAreTyped, RowsAreTyped
<1>3. S.row[q.id].version + 1 \in 0..MaxVersion
  BY <1>2, Constants
<1> QED
  BY <1>1, <1>2, <1>3 DEF Row, Status

LEMMA WrittenByANote ==
  ASSUME NEW S \in Snapshot, NEW q \in Request,
         q.kind \in {"arrival", "assignment"},
         S.row[q.id].version < MaxVersion
  PROVE  /\ Written(S, q) \in Row
         /\ Written(S, q).status = S.row[q.id].status
         /\ SameSeats(Written(S, q), S.row[q.id])
         /\ Written(S, q).override = S.row[q.id].override
         /\ Written(S, q).version = S.row[q.id].version + 1
<1>1. S.row[q.id] \in Row /\ S.row[q.id].version \in 0..MaxVersion
  BY RequestsAreTyped, RowsAreTyped
<1>2. S.row[q.id].version + 1 \in 0..MaxVersion
  BY <1>1, Constants
<1>3. q.flag \in BOOLEAN
  BY RequestsAreTyped
<1>4. CASE q.kind = "arrival"
  <2>1. Written(S, q) = [S.row[q.id] EXCEPT !.arrived = q.flag,
                                            !.version = @ + 1]
    BY <1>4 DEF Written, Creates, Updates, Cancels
  <2> QED
    BY <2>1, <1>1, <1>2, <1>3 DEF Row, SameSeats
<1>5. CASE q.kind = "assignment"
  <2>1. Written(S, q) = [S.row[q.id] EXCEPT !.seated = q.flag,
                                            !.version = @ + 1]
    BY <1>5 DEF Written, Creates, Updates, Cancels
  <2> QED
    BY <2>1, <1>1, <1>2, <1>3 DEF Row, SameSeats
<1> QED
  BY <1>4, <1>5

(* A commit writes a row that stands for a booking, of a later version.    *)
LEMMA WhatIsWrittenIsARow ==
  ASSUME NEW S \in Snapshot, NEW q \in Request, Answer(S, q) \in Changing,
         S.row[q.id].version < MaxVersion
  PROVE  /\ Written(S, q) \in Row
         /\ Written(S, q).status # "FREE"
         /\ q.kind \notin Creates
              => Written(S, q).version = S.row[q.id].version + 1
<1>1. CASE q.kind \in Creates
  BY <1>1, WrittenByACreate
<1>2. CASE q.kind \in Updates
  BY <1>2, WrittenByAnUpdate, OfAnUpdate
<1>3. CASE q.kind \in Cancels
  BY <1>3, WrittenByACancel
<1>4. CASE q.kind \in {"arrival", "assignment"}
  BY <1>4, WrittenByANote, OfAnArrival, OfAnAssignment DEF Known
<1> QED
  BY <1>1, <1>2, <1>3, <1>4, KindsOfRequests

-----------------------------------------------------------------------------
(* What is read and written, for the log.                                  *)

LEMMA ItemsOf ==
  /\ \A r \in Reservation : Rows(r) \in Item
  /\ \A s \in Service : Seats(s) \in Item
  /\ \A k \in Key : Keys(k) \in Item
BY DEF Item

LEMMA WhatIsReadIsAnItem ==
  ASSUME NEW S \in Snapshot, NEW q \in Request
  PROVE  Reads(S, q) \subseteq Item
<1>1. /\ Rows(q.id) \in Item /\ Keys(q.key) \in Item
      /\ Seats(q.asked.service) \in Item
  BY RequestsAreTyped, AskedIsTyped, ItemsOf
<1>2. CASE q.kind \in Creates
  <2>1. S.key[q.key].owner \in Reservation \cup {NoReservation}
    BY RequestsAreTyped DEF Snapshot, Claim
  <2>2. Claimed(S, q.key) => Rows(S.key[q.key].owner) \in Item
    BY <2>1, ItemsOf DEF Claimed
  <2> QED
    BY <1>1, <1>2, <2>2 DEF Reads
<1>3. CASE q.kind \notin Creates
  BY <1>1, <1>3 DEF Reads
<1> QED
  BY <1>2, <1>3

LEMMA WhatIsWrittenIsAnItem ==
  ASSUME NEW S \in Snapshot, NEW q \in Request,
         Answer(S, q) \in Changing => S.row[q.id].version < MaxVersion
  PROVE  Writes(S, q) \subseteq Item
<1>1. CASE Answer(S, q) \in Changing
  <2>1. Written(S, q).service \in Service /\ S.row[q.id].service \in Service
    BY <1>1, WhatIsWrittenIsARow, RowsAreTyped, RequestsAreTyped DEF Row
  <2> QED
    BY <2>1, <1>1, ItemsOf, RequestsAreTyped DEF Writes
<1>2. CASE Answer(S, q) \notin Changing
  BY <1>2 DEF Writes
<1> QED
  BY <1>1, <1>2

LEMMA EntryIsLogged ==
  ASSUME ClientShape, NEW c \in Client,
         Answer(snap[c], req[c]) \in Changing
           => snap[c].row[req[c].id].version < MaxVersion
  PROVE  /\ Entry(c) \in Logged
         /\ Entry(c).since = snap[c].since
         /\ Entry(c).reads = Reads(snap[c], req[c])
         /\ Entry(c).writes = Writes(snap[c], req[c])
<1>1. snap[c] \in Snapshot /\ req[c] \in Request /\ snap[c].since \in Nat
  BY DEF ClientShape, Snapshot
<1> QED
  BY <1>1, WhatIsReadIsAnItem, WhatIsWrittenIsAnItem DEF Entry, Logged

LEMMA CreateTouches ==
  ASSUME NEW S, NEW q \in Request, q.kind \in Creates,
         Answer(S, q) \in Changing
  PROVE  /\ Keys(q.key) \in Reads(S, q) /\ Keys(q.key) \in Writes(S, q)
         /\ Seats(q.asked.service) \in Reads(S, q)
         /\ Seats(q.asked.service) \in Writes(S, q)
<1>1. ~Claimed(S, q.key)
  BY OfACreate
<1>2. Written(S, q).service = q.asked.service
  BY WrittenByACreate DEF SameSeats
<1> QED
  BY <1>1, <1>2 DEF Reads, Writes

(* Whoever moves or resizes a booking has looked at where it goes.         *)
LEMMA UpdateTouches ==
  ASSUME NEW S \in Snapshot, NEW q \in Request, q.kind \in Updates,
         Answer(S, q) \in Changing, S.row[q.id].version < MaxVersion,
         q.kind = "updatePublic" \/ ~SameSeats(S.row[q.id], q.asked)
  PROVE  /\ Seats(q.asked.service) \in Reads(S, q)
         /\ Seats(q.asked.service) \in Writes(S, q)
<1>1. Answer(S, q) = "UPDATED"
  BY OfAnUpdate
<1>2. Written(S, q).service = q.asked.service
  BY WrittenByAnUpdate DEF SameSeats
<1>3. Seats(q.asked.service) \in Writes(S, q)
  BY <1>2 DEF Writes
<1>4. q.kind \notin Creates
  BY DEF Creates, Updates
<1>5. Seats(q.asked.service) \in Reads(S, q)
  BY <1>1, <1>4 DEF Reads, Updates
<1> QED
  BY <1>3, <1>5

LEMMA ChangeWritesItsRow ==
  ASSUME NEW S, NEW q, Answer(S, q) \in Changing
  PROVE  Rows(q.id) \in Writes(S, q)
BY DEF Writes

-----------------------------------------------------------------------------
(* How the tables may change for the log to go on explaining them.         *)

Tells(e, R, K, R2, K2) ==
  /\ \A r \in Reservation :
       /\ R2[r] # R[r] => Rows(r) \in e.writes
       /\ R2[r].status = "CONFIRMED" /\ ~SatThere(R[r], R2[r])
            => /\ Seats(R2[r].service) \in e.reads
               /\ Seats(R2[r].service) \in e.writes
  /\ \A k \in Key :
       K2[k] # K[k] => /\ K[k].owner = NoReservation
                       /\ Keys(k) \in e.reads /\ Keys(k) \in e.writes

LEMMA StillExplained ==
  ASSUME NEW L \in Seq(Logged), NEW e \in Logged, NEW S \in Snapshot,
         NEW R, NEW K, NEW R2, NEW K2,
         Explains(L, S, R, K), Tells(e, R, K, R2, K2)
  PROVE  Explains(Append(L, e), S, R2, K2)
<1> DEFINE M == Append(L, e)
           n == S.since
<1>1. n \in Nat /\ n <= Len(L)
  BY DEF Explains, Snapshot
<1>2. n <= Len(M)
  BY <1>1, Appended
<1>3. ASSUME NEW r \in Reservation, R2[r] # S.row[r]
      PROVE  Replaced(M, n, Rows(r))
  <2>1. CASE R[r] # S.row[r]
    BY <2>1, StillReplaced DEF Explains
  <2>2. CASE R[r] = S.row[r]
    BY <2>2, <1>1, <1>3, NowReplaced DEF Tells
  <2> QED
    BY <2>1, <2>2
<1>4. ASSUME NEW r \in Reservation, R2[r].status = "CONFIRMED",
             ~SatThere(S.row[r], R2[r])
      PROVE  Met(M, n, Seats(R2[r].service), Seats(R2[r].service))
  <2>1. CASE SatThere(R[r], R2[r])
    <3>1. /\ R[r].status = "CONFIRMED" /\ R[r].service = R2[r].service
          /\ ~SatThere(S.row[r], R[r])
      BY <2>1, <1>4 DEF SatThere, SameSeats
    <3>2. Met(L, n, Seats(R2[r].service), Seats(R2[r].service))
      BY <3>1 DEF Explains
    <3> QED
      BY <3>2, StillMet
  <2>2. CASE ~SatThere(R[r], R2[r])
    BY <2>2, <1>1, <1>4, NowMet DEF Tells
  <2> QED
    BY <2>1, <2>2
<1>5. ASSUME NEW k \in Key, K2[k] # S.key[k]
      PROVE  ~Claimed(S, k) /\ Met(M, n, Keys(k), Keys(k))
  <2>1. CASE K[k] # S.key[k]
    <3>1. ~Claimed(S, k) /\ Met(L, n, Keys(k), Keys(k))
      BY <2>1 DEF Explains
    <3> QED
      BY <3>1, StillMet
  <2>2. CASE K[k] = S.key[k]
    <3>1. ~Claimed(S, k) /\ Keys(k) \in e.reads /\ Keys(k) \in e.writes
      BY <2>2, <1>5 DEF Tells, Claimed
    <3> QED
      BY <3>1, <1>1, NowMet
  <2> QED
    BY <2>1, <2>2
<1> QED
  BY <1>2, <1>3, <1>4, <1>5 DEF Explains

(* A fresh snapshot has nothing to be told.                                *)
LEMMA FreshIsExplained ==
  ASSUME TableShape, ClientShape,
         NEW S, S = [row |-> row, key |-> key, since |-> Len(log)]
  PROVE  S \in Snapshot /\ Explains(log, S, row, key)
<1>1. Len(log) \in Nat
  BY DEF ClientShape
<1>2. S \in Snapshot /\ S.row = row /\ S.key = key /\ S.since = Len(log)
  BY <1>1 DEF TableShape, Snapshot
<1> QED
  BY <1>1, <1>2 DEF Explains, SatThere, SameSeats

(* What PostgreSQL lets commit was decided on rows and keys as they are,   *)
(* and on arrivals that have only left since.                              *)
LEMMA Lands ==
  ASSUME ClientShape, Explained, NEW c \in Client, Running(c),
         ~Conflicts(c), Entry(c) \in Logged
  PROVE  /\ \A r \in Reservation :
              Rows(r) \in Entry(c).writes => row[r] = snap[c].row[r]
         /\ \A k \in Key :
              Keys(k) \in Entry(c).reads /\ Keys(k) \in Entry(c).writes
                => key[k] = snap[c].key[k]
         /\ \A r \in Reservation :
              /\ row[r].status = "CONFIRMED"
              /\ Seats(row[r].service) \in Entry(c).reads
              /\ Seats(row[r].service) \in Entry(c).writes
              => SatThere(snap[c].row[r], row[r])
<1> DEFINE e == Entry(c)
           S == snap[c]
<1>1. log \in Seq(Logged) /\ e \in Logged /\ e.since = S.since
  BY DEF ClientShape, Entry
<1>2. Explains(log, S, row, key)
  BY DEF Explained
<1>3. ~Overwrites(c) /\ ~Dangerous(Append(log, e))
  BY DEF Conflicts
<1>4. ASSUME NEW r \in Reservation, Rows(r) \in e.writes
      PROVE  row[r] = S.row[r]
  <2>1. Rows(r) \in {Rows(p) : p \in Reservation}
                      \cap (e.writes \cup LockedRows(c))
    BY <1>4
  <2>2. ~Replaced(log, S.since, Rows(r))
    BY <1>1, <1>3, <2>1, FirstUpdaterWins DEF Overwrites
  <2> QED
    BY <1>2, <2>2 DEF Explains
<1>5. ASSUME NEW i, i \in e.reads, i \in e.writes
      PROVE  ~Met(log, S.since, i, i)
  BY <1>1, <1>3, <1>5, TwoThatMeet
<1> QED
  BY <1>2, <1>4, <1>5 DEF Explains

-----------------------------------------------------------------------------
(* A commit of a change, and what was true of the tables it changes.       *)

Changes(c) ==
  /\ Commit(c)
  /\ Answer(snap[c], req[c]) \in Changing

(* The request of c was decided on the row as it is, under a key nobody    *)
(* claimed, with no arrival in its way that it did not see.                *)
LEMMA ChangesWhatItSaw ==
  ASSUME TableShape, ClientShape, Explained, NEW c \in Client, Changes(c)
  PROVE  LET S == snap[c]
             q == req[c]
             W == Written(S, q)
         IN  /\ S \in Snapshot /\ q \in Request /\ Running(c)
             /\ S.row[q.id].version < MaxVersion
             /\ row[q.id] = S.row[q.id]
             /\ row' = [row EXCEPT ![q.id] = W] /\ row'[q.id] = W
             /\ q.kind \in Creates =>
                  /\ key[q.key] = S.key[q.key]
                  /\ key[q.key].owner = NoReservation
                  /\ key' = [key EXCEPT ![q.key] = [owner |-> q.id,
                                                    asked |-> q.asked,
                                                    flag |-> q.flag]]
             /\ q.kind \notin Creates => key' = key
             /\ \/ q.kind \in Creates
                \/ q.kind \in Updates
                   /\ (q.kind = "updatePublic"
                         \/ ~SameSeats(S.row[q.id], q.asked))
                => \A r \in Reservation :
                     row[r].status = "CONFIRMED"
                       /\ row[r].service = q.asked.service
                     => SatThere(S.row[r], row[r])
<1> DEFINE S == snap[c]
           q == req[c]
           W == Written(S, q)
<1>1. S \in Snapshot /\ q \in Request /\ q.id \in Reservation /\ q.key \in Key
  BY RequestsAreTyped DEF ClientShape
<1>2. /\ Running(c) /\ ~Conflicts(c) /\ S.row[q.id].version < MaxVersion
      /\ Answer(S, q) \in Changing
  BY DEF Changes, Commit, Running
<1>3. /\ Entry(c) \in Logged
      /\ Entry(c).reads = Reads(S, q) /\ Entry(c).writes = Writes(S, q)
  BY <1>2, EntryIsLogged
<1>4. row[q.id] = S.row[q.id]
  BY <1>1, <1>2, <1>3, Lands, ChangeWritesItsRow
<1>5. row' = [row EXCEPT ![q.id] = W]
  BY DEF Changes, Commit
<1>6. row'[q.id] = W
  BY <1>1, <1>5 DEF TableShape
<1>7. ASSUME q.kind \in Creates
      PROVE  /\ key[q.key] = S.key[q.key]
             /\ key[q.key].owner = NoReservation
             /\ key' = [key EXCEPT ![q.key] = [owner |-> q.id,
                                               asked |-> q.asked,
                                               flag |-> q.flag]]
  <2>1. Answer(S, q) = "CREATED" /\ ~Claimed(S, q.key)
    BY <1>2, <1>7, OfACreate
  <2>2. key[q.key] = S.key[q.key]
    BY <1>1, <1>2, <1>3, <1>7, CreateTouches, Lands
  <2>3. key' = [key EXCEPT ![q.key] = [owner |-> q.id, asked |-> q.asked,
                                       flag |-> q.flag]]
    BY <2>1 DEF Changes, Commit
  <2> QED
    BY <2>1, <2>2, <2>3 DEF Claimed
<1>8. ASSUME q.kind \notin Creates
      PROVE  key' = key
  <2>1. Answer(S, q) # "CREATED"
    BY <1>1, <1>2, <1>8, KindsOfRequests, OfAnUpdate, OfACancel, OfAnArrival,
       OfAnAssignment
  <2> QED
    BY <2>1 DEF Changes, Commit
<1>9. ASSUME \/ q.kind \in Creates
             \/ q.kind \in Updates
                /\ (q.kind = "updatePublic"
                      \/ ~SameSeats(S.row[q.id], q.asked)),
             NEW r \in Reservation, row[r].status = "CONFIRMED",
             row[r].service = q.asked.service
      PROVE  SatThere(S.row[r], row[r])
  <2>1. /\ Seats(q.asked.service) \in Reads(S, q)
        /\ Seats(q.asked.service) \in Writes(S, q)
    BY <1>1, <1>2, <1>9, CreateTouches, UpdateTouches
  <2> QED
    BY <2>1, <1>2, <1>3, <1>9, Lands
<1> QED
  BY <1>1, <1>2, <1>4, <1>5, <1>6, <1>7, <1>8, <1>9

(* So the others are told all they need to know.                           *)
LEMMA CommitTells ==
  ASSUME TableShape, ClientShape, Explained, NEW c \in Client, Commit(c)
  PROVE  /\ Entry(c) \in Logged
         /\ Tells(Entry(c), row, key, row', key')
<1> DEFINE S == snap[c]
           q == req[c]
           W == Written(S, q)
<1>1. S \in Snapshot /\ q \in Request /\ q.id \in Reservation /\ q.key \in Key
  BY RequestsAreTyped DEF ClientShape
<1>2. /\ Entry(c) \in Logged
      /\ Entry(c).reads = Reads(S, q) /\ Entry(c).writes = Writes(S, q)
  BY EntryIsLogged DEF Commit
<1>3. CASE Answer(S, q) \notin Changing
  <2>1. row' = row /\ key' = key
    BY <1>3 DEF Commit, Changing
  <2> QED
    BY <1>2, <2>1 DEF Tells, SatThere, SameSeats
<1>4. CASE Answer(S, q) \in Changing
  <2>1. Changes(c)
    BY <1>4 DEF Changes
  <2>2. /\ S.row[q.id].version < MaxVersion
        /\ row[q.id] = S.row[q.id]
        /\ row' = [row EXCEPT ![q.id] = W] /\ row'[q.id] = W
    BY <2>1, ChangesWhatItSaw
  <2>3. ASSUME NEW r \in Reservation, r # q.id
        PROVE  row'[r] = row[r]
    BY <2>2, <2>3 DEF TableShape
  <2>4. ASSUME W.status = "CONFIRMED", ~SatThere(S.row[q.id], W)
        PROVE  /\ Seats(W.service) \in Reads(S, q)
               /\ Seats(W.service) \in Writes(S, q)
    <3>1. CASE q.kind \in Creates
      BY <3>1, <1>1, <1>4, WrittenByACreate, CreateTouches DEF SameSeats
    <3>2. CASE q.kind \in Updates
      <4>1. S.row[q.id].status = "CONFIRMED" /\ SameSeats(W, q.asked)
        BY <3>2, <1>1, <2>2, <2>4, WrittenByAnUpdate
      <4>2. ~SameSeats(S.row[q.id], q.asked) /\ W.service = q.asked.service
        BY <4>1, <2>4 DEF SatThere, SameSeats
      <4> QED
        BY <4>2, <3>2, <1>1, <1>4, <2>2, UpdateTouches
    <3>3. CASE q.kind \in Cancels
      BY <3>3, <1>1, <2>2, <2>4, WrittenByACancel
    <3>4. CASE q.kind \in {"arrival", "assignment"}
      BY <3>4, <1>1, <2>2, <2>4, WrittenByANote DEF SatThere, SameSeats
    <3> QED
      BY <1>1, <3>1, <3>2, <3>3, <3>4, KindsOfRequests
  <2>5. ASSUME NEW r \in Reservation
        PROVE  /\ row'[r] # row[r] => Rows(r) \in Writes(S, q)
               /\ row'[r].status = "CONFIRMED" /\ ~SatThere(row[r], row'[r])
                    => /\ Seats(row'[r].service) \in Reads(S, q)
                       /\ Seats(row'[r].service) \in Writes(S, q)
    <3>1. CASE r = q.id
      BY <3>1, <1>4, <2>2, <2>4, ChangeWritesItsRow
    <3>2. CASE r # q.id
      BY <3>2, <2>3 DEF SatThere, SameSeats
    <3> QED
      BY <3>1, <3>2
  <2>6. ASSUME NEW k \in Key, key'[k] # key[k]
        PROVE  /\ key[k].owner = NoReservation
               /\ Keys(k) \in Reads(S, q) /\ Keys(k) \in Writes(S, q)
    <3>1. q.kind \in Creates
      BY <2>1, <2>6, ChangesWhatItSaw
    <3>2. /\ key[q.key].owner = NoReservation
          /\ key' = [key EXCEPT ![q.key] = [owner |-> q.id, asked |-> q.asked,
                                            flag |-> q.flag]]
      BY <2>1, <3>1, ChangesWhatItSaw
    <3>3. k = q.key
      BY <2>6, <3>2 DEF TableShape
    <3> QED
      BY <3>1, <3>2, <3>3, <1>1, <1>4, CreateTouches
  <2> QED
    BY <1>2, <2>5, <2>6 DEF Tells
<1> QED
  BY <1>3, <1>4

-----------------------------------------------------------------------------
(* The locks: every handler takes them upwards.                            *)

Lock == {KeyLock(k) : k \in Key} \cup {LinkLock(r) : r \in Reservation}
          \cup {MutationLock(r) : r \in Reservation} \cup {ConfigLock}
          \cup {CapacityLock(s) : s \in Service}

Level(l) ==
  CASE l[1] \in {"idempotency", "management"} -> 0
    [] l[1] = "mutation"                      -> 1
    [] l[1] = "configuration"                 -> 2
    [] l[1] = "capacity"                      -> 3 + Rank[l[2]]

Rising(p) ==
  /\ p \in Seq(Lock)
  /\ \A i, j \in 1..Len(p) : i < j => Level(p[i]) < Level(p[j])

LEMMA LevelsOf ==
  /\ \A k \in Key : KeyLock(k) \in Lock /\ Level(KeyLock(k)) = 0
  /\ \A r \in Reservation : /\ LinkLock(r) \in Lock /\ Level(LinkLock(r)) = 0
                            /\ MutationLock(r) \in Lock
                            /\ Level(MutationLock(r)) = 1
  /\ ConfigLock \in Lock /\ Level(ConfigLock) = 2
  /\ \A s \in Service : /\ CapacityLock(s) \in Lock
                        /\ Level(CapacityLock(s)) = 3 + Rank[s]
<1>1. ASSUME NEW k \in Key
      PROVE  KeyLock(k) \in Lock /\ Level(KeyLock(k)) = 0
  BY DEF KeyLock, Lock, Level
<1>2. ASSUME NEW r \in Reservation
      PROVE  /\ LinkLock(r) \in Lock /\ Level(LinkLock(r)) = 0
             /\ MutationLock(r) \in Lock /\ Level(MutationLock(r)) = 1
  BY DEF LinkLock, MutationLock, Lock, Level
<1>3. ConfigLock \in Lock /\ Level(ConfigLock) = 2
  BY DEF ConfigLock, Lock, Level
<1>4. ASSUME NEW s \in Service
      PROVE  /\ CapacityLock(s) \in Lock
             /\ Level(CapacityLock(s)) = 3 + Rank[s]
  BY DEF CapacityLock, Lock, Level
<1> QED
  BY <1>1, <1>2, <1>3, <1>4

LEMMA NothingRises == Rising(<< >>) /\ Len(<< >>) = 0
BY DEF Rising

LEMMA OneRises ==
  ASSUME NEW l \in Lock
  PROVE  Rising(<<l>>) /\ Len(<<l>>) = 1 /\ <<l>>[1] = l
BY DEF Rising

LEMMA TwoRise ==
  ASSUME NEW l \in Lock, NEW m \in Lock, Level(l) < Level(m)
  PROVE  /\ Rising(<<l, m>>) /\ Len(<<l, m>>) = 2
         /\ <<l, m>>[1] = l /\ <<l, m>>[2] = m
BY DEF Rising

LEMMA JoinedRise ==
  ASSUME NEW p, NEW q, Rising(p), Rising(q),
         \A i \in 1..Len(p), j \in 1..Len(q) : Level(p[i]) < Level(q[j])
  PROVE  /\ Rising(p \o q)
         /\ Len(p \o q) = Len(p) + Len(q)
         /\ \A i \in 1..Len(p \o q) :
              \/ \E j \in 1..Len(p) : (p \o q)[i] = p[j]
              \/ \E j \in 1..Len(q) : (p \o q)[i] = q[j]
<1>1. p \in Seq(Lock) /\ q \in Seq(Lock) /\ p \o q \in Seq(Lock)
      /\ Len(p) \in Nat /\ Len(q) \in Nat
  BY DEF Rising
<1>2. Len(p \o q) = Len(p) + Len(q)
  BY <1>1
<1>3. ASSUME NEW i \in 1..Len(p \o q)
      PROVE  (p \o q)[i] = IF i <= Len(p) THEN p[i] ELSE q[i - Len(p)]
  BY <1>1, <1>2
<1>4. ASSUME NEW i \in 1..Len(p \o q), NEW j \in 1..Len(p \o q), i < j
      PROVE  Level((p \o q)[i]) < Level((p \o q)[j])
  <2>1. CASE j <= Len(p)
    <3>1. i \in 1..Len(p) /\ j \in 1..Len(p)
      BY <1>1, <1>4, <2>1
    <3> QED
      BY <3>1, <1>3, <1>4 DEF Rising
  <2>2. CASE i <= Len(p) /\ j > Len(p)
    <3>1. i \in 1..Len(p) /\ j - Len(p) \in 1..Len(q)
      BY <1>1, <1>2, <2>2
    <3> QED
      BY <3>1, <1>1, <1>3, <2>2
  <2>3. CASE i > Len(p)
    <3>1. /\ i - Len(p) \in 1..Len(q) /\ j - Len(p) \in 1..Len(q)
          /\ i - Len(p) < j - Len(p) /\ j > Len(p)
      BY <1>1, <1>2, <1>4, <2>3
    <3> QED
      BY <3>1, <1>1, <1>3, <2>3 DEF Rising
  <2> QED
    BY <1>1, <2>1, <2>2, <2>3
<1>5. ASSUME NEW i \in 1..Len(p \o q)
      PROVE  \/ \E j \in 1..Len(p) : (p \o q)[i] = p[j]
             \/ \E j \in 1..Len(q) : (p \o q)[i] = q[j]
  <2>1. CASE i <= Len(p)
    BY <2>1, <1>1, <1>3
  <2>2. CASE i > Len(p)
    <3>1. i - Len(p) \in 1..Len(q)
      BY <1>1, <1>2, <2>2
    <3> QED
      BY <3>1, <1>1, <1>3, <2>2
  <2> QED
    BY <1>1, <2>1, <2>2
<1> QED
  BY <1>1, <1>2, <1>4, <1>5 DEF Rising

(* Capacity locks, which are the last of every plan.                       *)
TopOf(p) ==
  /\ Rising(p) /\ Len(p) <= 2
  /\ \A i \in 1..Len(p) : Level(p[i]) > 2

LEMMA OneOnTop ==
  ASSUME NEW s \in Service
  PROVE  TopOf(<<CapacityLock(s)>>) /\ Len(<<CapacityLock(s)>>) = 1
<1>1. Level(CapacityLock(s)) > 2 /\ CapacityLock(s) \in Lock
  BY Constants, LevelsOf
<1>2. Rising(<<CapacityLock(s)>>)
  BY <1>1, OneRises
<1> QED
  BY <1>1, <1>2 DEF TopOf

LEMMA NoneOnTop == TopOf(<< >>)
BY NothingRises DEF TopOf

LEMMA CapacityLocksOnTop ==
  ASSUME NEW s \in Service, NEW t \in Service
  PROVE  TopOf(CapacityLocks(s, t))
<1> DEFINE l == CapacityLock(s)
           m == CapacityLock(t)
<1>1. /\ l \in Lock /\ m \in Lock
      /\ Level(l) = 3 + Rank[s] /\ Level(m) = 3 + Rank[t]
      /\ Rank[s] \in Nat /\ Rank[t] \in Nat
  BY Constants, LevelsOf
<1> HIDE DEF l, m
<1>2. CASE s = t
  BY <1>2, OneOnTop DEF CapacityLocks
<1>3. CASE s # t /\ Rank[s] < Rank[t]
  <2>1. CapacityLocks(s, t) = <<l, m>>
    BY <1>3 DEF CapacityLocks, l, m
  <2>2. Rising(<<l, m>>)
    BY <1>1, <1>3, TwoRise
  <2>3. Level(l) > 2 /\ Level(m) > 2
    BY <1>1
  <2> QED
    BY <2>1, <2>2, <2>3 DEF TopOf
<1>4. CASE s # t /\ ~(Rank[s] < Rank[t])
  <2>1. CapacityLocks(s, t) = <<m, l>>
    BY <1>4 DEF CapacityLocks, l, m
  <2>2. Rank[t] < Rank[s]
    BY <1>1, <1>4, TransactionAssumption
  <2>3. Rising(<<m, l>>)
    BY <1>1, <2>2, TwoRise
  <2>4. Level(l) > 2 /\ Level(m) > 2
    BY <1>1
  <2> QED
    BY <2>1, <2>3, <2>4 DEF TopOf
<1> QED
  BY <1>2, <1>3, <1>4

LEMMA SeatLocksOnTop ==
  ASSUME NEW S \in Snapshot, NEW q \in Request
  PROVE  TopOf(SeatLocks(S, q))
<1>1. S.row[q.id].service \in Service /\ q.asked.service \in Service
  BY RequestsAreTyped, RowsAreTyped, AskedIsTyped DEF Row
<1> QED
  BY <1>1, CapacityLocksOnTop, NoneOnTop DEF SeatLocks

(* What is on top may follow locks below it.                               *)
LEMMA TopFollows ==
  ASSUME NEW p, NEW t, Rising(p), TopOf(t),
         \A i \in 1..Len(p) : Level(p[i]) \in 0..2
  PROVE  /\ Rising(p \o t) /\ Len(p \o t) <= Len(p) + 2
         /\ \A i \in 1..Len(p \o t) :
              \/ \E j \in 1..Len(p) : (p \o t)[i] = p[j]
              \/ Level((p \o t)[i]) > 2
<1>1. /\ Len(p) \in Nat /\ Len(t) \in Nat
      /\ \A i \in 1..Len(t) : Level(t[i]) \in Nat
  <2>1. p \in Seq(Lock) /\ t \in Seq(Lock)
    BY DEF TopOf, Rising
  <2>2. \A l \in Lock : Level(l) \in Nat
    BY LevelsOf, Constants DEF Lock
  <2> QED
    BY <2>1, <2>2
<1>2. \A i \in 1..Len(p), j \in 1..Len(t) : Level(p[i]) < Level(t[j])
  BY <1>1 DEF TopOf
<1> QED
  BY <1>1, <1>2, JoinedRise DEF TopOf

(* Every plan goes up, by at most five locks.                              *)
LEMMA PlanRises ==
  ASSUME NEW S \in Snapshot, NEW q \in Request
  PROVE  Rising(Plan(S, q)) /\ Len(Plan(S, q)) \in 0..5
<1> DEFINE k == KeyLock(q.key)
           l == LinkLock(q.id)
           m == MutationLock(q.id)
           s == S.row[q.id].service
<1>1. /\ s \in Service /\ q.asked.service \in Service
      /\ q.id \in Reservation /\ q.key \in Key
  BY RequestsAreTyped, RowsAreTyped, AskedIsTyped DEF Row
<1>2. /\ k \in Lock /\ l \in Lock /\ m \in Lock /\ ConfigLock \in Lock
      /\ Level(k) = 0 /\ Level(l) = 0 /\ Level(m) = 1 /\ Level(ConfigLock) = 2
  BY <1>1, LevelsOf
<1> HIDE DEF k, l, m
<1>3. ASSUME NEW t, TopOf(t)
      PROVE  /\ Rising(<<m, ConfigLock>> \o t)
             /\ Len(<<m, ConfigLock>> \o t) \in 0..4
             /\ \A i \in 1..Len(<<m, ConfigLock>> \o t) :
                  Level((<<m, ConfigLock>> \o t)[i]) > 0
  <2> DEFINE p == <<m, ConfigLock>>
  <2>1. Rising(p) /\ Len(p) = 2 /\ p[1] = m /\ p[2] = ConfigLock
    BY <1>2, TwoRise
  <2>2. \A i \in 1..Len(p) : Level(p[i]) \in 0..2 /\ Level(p[i]) > 0
    BY <1>2, <2>1
  <2> HIDE DEF p
  <2>3. /\ Rising(p \o t) /\ Len(p \o t) <= Len(p) + 2
        /\ \A i \in 1..Len(p \o t) :
              \/ \E j \in 1..Len(p) : (p \o t)[i] = p[j]
              \/ Level((p \o t)[i]) > 2
    BY <1>3, <2>1, <2>2, TopFollows
  <2>4. Len(p \o t) \in Nat
    BY <2>3 DEF Rising
  <2>5. \A i \in 1..Len(p \o t) : Level((p \o t)[i]) > 0
    <3>1. \A x \in Lock : Level(x) \in Nat
      BY LevelsOf, Constants DEF Lock
    <3>2. \A i \in 1..Len(p \o t) : (p \o t)[i] \in Lock
      BY <2>3 DEF Rising
    <3> TAKE i \in 1..Len(p \o t)
    <3>3. CASE \E j \in 1..Len(p) : (p \o t)[i] = p[j]
      BY <3>3, <2>2
    <3>4. CASE Level((p \o t)[i]) > 2
      BY <3>1, <3>2, <3>4
    <3> QED
      BY <2>3, <3>3, <3>4
  <2>6. Len(p \o t) \in 0..4
    BY <2>1, <2>3, <2>4
  <2> QED
    BY <2>3, <2>5, <2>6 DEF p
<1>4. CASE q.kind \in Creates
  <2> DEFINE p == <<k>>
             t == IF Claimed(S, q.key) THEN << >>
                  ELSE <<CapacityLock(q.asked.service)>>
  <2>1. Plan(S, q) = p \o t
    BY <1>4 DEF Plan, Creates, k
  <2>2. TopOf(t)
    BY <1>1, OneOnTop, NoneOnTop
  <2>3. Rising(p) /\ Len(p) = 1 /\ p[1] = k
    BY <1>2, OneRises
  <2> HIDE DEF p, t
  <2>4. \A i \in 1..Len(p) : Level(p[i]) \in 0..2
    BY <1>2, <2>3
  <2>5. Rising(p \o t) /\ Len(p \o t) <= Len(p) + 2
    BY <2>2, <2>3, <2>4, TopFollows
  <2>6. Len(p \o t) \in Nat
    BY <2>5 DEF Rising
  <2> QED
    BY <2>1, <2>3, <2>5, <2>6
<1>5. CASE q.kind \in {"updatePublic", "cancelPublic"}
  <2> DEFINE p == <<l>>
             t == IF Known(S, q) THEN <<m, ConfigLock>> \o SeatLocks(S, q)
                  ELSE << >>
  <2>1. Plan(S, q) = p \o t
    BY <1>5 DEF Plan, Creates, l, m
  <2>2. /\ Rising(t) /\ Len(t) \in 0..4
        /\ \A i \in 1..Len(t) : Level(t[i]) > 0
    <3>1. CASE Known(S, q)
      BY <3>1, <1>3, SeatLocksOnTop
    <3>2. CASE ~Known(S, q)
      BY <3>2, NothingRises
    <3> QED
      BY <3>1, <3>2
  <2>3. Rising(p) /\ Len(p) = 1 /\ p[1] = l
    BY <1>2, OneRises
  <2> HIDE DEF p, t
  <2>4. \A i \in 1..Len(p), j \in 1..Len(t) : Level(p[i]) < Level(t[j])
    BY <1>2, <2>2, <2>3
  <2>5. Rising(p \o t) /\ Len(p \o t) = Len(p) + Len(t)
    BY <2>2, <2>3, <2>4, JoinedRise
  <2> DEFINE n == Len(p \o t)
  <2>6. n = 1 + Len(t)
    BY <2>3, <2>5
  <2> HIDE DEF n
  <2>7. n \in 0..5
    BY <2>2, <2>6
  <2> QED
    BY <2>1, <2>5, <2>7 DEF n
<1>6. CASE q.kind \in {"updateStaff", "cancelStaff"}
  <2>1. Plan(S, q) = <<m, ConfigLock>> \o SeatLocks(S, q)
    BY <1>6 DEF Plan, Creates, m
  <2>2. /\ Rising(<<m, ConfigLock>> \o SeatLocks(S, q))
        /\ Len(<<m, ConfigLock>> \o SeatLocks(S, q)) \in 0..4
    BY <1>3, SeatLocksOnTop
  <2> QED
    BY <2>1, <2>2
<1>7. CASE q.kind = "arrival"
  <2>1. Plan(S, q) = <<m>>
    BY <1>7 DEF Plan, Creates, m
  <2> QED
    BY <2>1, <1>2, OneRises
<1>8. CASE q.kind = "assignment"
  <2> DEFINE t == IF Known(S, q) THEN <<CapacityLock(s)>> ELSE << >>
  <2>1. Plan(S, q) = <<m, ConfigLock>> \o t
    BY <1>8 DEF Plan, RoomLocks, Creates, m
  <2>2. TopOf(t)
    BY <1>1, OneOnTop, NoneOnTop
  <2> HIDE DEF t
  <2>3. /\ Rising(<<m, ConfigLock>> \o t)
        /\ Len(<<m, ConfigLock>> \o t) \in 0..4
    BY <1>3, <2>2
  <2> QED
    BY <2>1, <2>3
<1> QED
  BY <1>4, <1>5, <1>6, <1>7, <1>8, KindsOfRequests DEF Updates, Cancels

(* Who wants a lock holds none of its level or above.                      *)
LEMMA WantsUpwards ==
  ASSUME ClientShape, NEW c \in Client, Wants(c) # {}
  PROVE  /\ Running(c) /\ Wants(c) = {NextLock(c)}
         /\ Level(NextLock(c)) \in Nat
         /\ got[c] + 1 \in 1..Len(Plan(snap[c], req[c]))
         /\ \A l \in Held(c) : Level(l) < Level(NextLock(c))
<1> DEFINE p == Plan(snap[c], req[c])
<1>1. Rising(p) /\ Len(p) \in Nat
  BY PlanRises DEF ClientShape
<1>2. pc[c] = "running" /\ ~LocksDone(c) /\ Wants(c) = {NextLock(c)}
  BY DEF Wants
<1>3. got[c] \in Nat /\ got[c] <= Len(p) /\ got[c] # Len(p)
  BY <1>2 DEF ClientShape, Running, LocksDone
<1>4. got[c] + 1 \in 1..Len(p)
  BY <1>1, <1>3
<1>5. NextLock(c) = p[got[c] + 1]
  BY DEF NextLock
<1>6. NextLock(c) \in Lock
  BY <1>1, <1>4, <1>5 DEF Rising
<1>7. Level(NextLock(c)) \in Nat
  BY <1>6, LevelsOf, Constants DEF Lock
<1>8. ASSUME NEW l \in Held(c)
      PROVE  Level(l) < Level(NextLock(c))
  <2>1. PICK i \in 1..got[c] : l = p[i]
    BY <1>2, <1>8 DEF Held
  <2>2. i \in 1..Len(p) /\ i < got[c] + 1
    BY <1>1, <1>3, <2>1
  <2> QED
    BY <1>1, <1>4, <1>5, <2>1, <2>2 DEF Rising
<1> QED
  BY <1>2, <1>4, <1>7, <1>8 DEF Running

(* In a group that waits, whoever wants the highest lock finds it free of  *)
(* the group: the others hold only what is below their own next locks.     *)
LEMMA NoCircle ==
  ASSUME ClientShape
  PROVE  NobodyWaitsInACircle
<1> SUFFICES ASSUME NEW G \in SUBSET Client, G # {}
             PROVE  \E c \in G : \A d \in G \ {c} : Wants(c) \cap Held(d) = {}
  BY DEF NobodyWaitsInACircle
<1>0. CASE \E c \in G : Wants(c) = {}
  BY <1>0
<1> SUFFICES ASSUME \A c \in G : Wants(c) # {}
             PROVE  \E c \in G : \A d \in G \ {c} : Wants(c) \cap Held(d) = {}
  BY <1>0
<1> DEFINE N(c) == Level(NextLock(c))
           Above(c) == {d \in G : N(c) <= N(d)}
           T == {Above(c) : c \in G}
<1>1. \A c \in G : N(c) \in Nat
  BY WantsUpwards
<1>2. IsWellFoundedOn(StrictSubsetOrdering(Client), SUBSET Client)
  <2>1. IsFiniteSet(Client)
    BY TransactionAssumption
  <2>2. FiniteSubsetsOf(Client) = SUBSET Client
    BY <2>1, FS_FiniteSubsetsOfFinite
  <2>3. IsWellFoundedOn(StrictSubsetOrdering(Client), FiniteSubsetsOf(Client))
    BY FS_StrictSubsetOrderingWellFounded
  <2> QED
    BY <2>2, <2>3
<1>3. T \subseteq SUBSET Client /\ T # {}
  OBVIOUS
<1>4. PICK x \in T : \A y \in T : <<y, x>> \notin StrictSubsetOrdering(Client)
  BY <1>2, <1>3, WFMin
<1>5. PICK c \in G : x = Above(c)
  OBVIOUS
<1>6. ASSUME NEW d \in G \ {c}, Wants(c) \cap Held(d) # {}
      PROVE  FALSE
  <2>1. NextLock(c) \in Held(d)
    BY <1>6, WantsUpwards
  <2>2. N(c) < N(d)
    BY <2>1, WantsUpwards
  <2> HIDE DEF N
  <2>3. Above(d) \subseteq Above(c) /\ c \in Above(c) /\ c \notin Above(d)
    BY <1>1, <2>2
  <2>4. Above(d) \in T
    OBVIOUS
  <2> QED
    BY <1>3, <1>4, <1>5, <2>3, <2>4 DEF StrictSubsetOrdering
<1> QED
  BY <1>6

-----------------------------------------------------------------------------
(* The shape of the clients is kept.                                       *)

LEMMA SubmitKeepsShape ==
  ASSUME ClientShape, NEW c \in Client, Submit(c)
  PROVE  ClientShape'
<1>1. /\ log' \in Seq(Logged) /\ req' \in [Client -> Request]
      /\ snap' \in [Client -> Snapshot] /\ got' \in [Client -> Nat]
  BY DEF ClientShape, Submit
<1>2. /\ pc' \in [Client -> {"idle", "ready", "running", "answered", "lost"}]
      /\ sent' \in [Client -> 0..MaxSubmits]
      /\ tries' \in [Client -> 0..MaxAttempts]
      /\ DOMAIN answer' = Client
  BY Constants DEF ClientShape, Submit
<1>3. ASSUME NEW d \in Client
      PROVE  /\ answer'[d].id \in Reservation \cup {NoReservation}
             /\ pc'[d] = "ready" => tries'[d] < MaxAttempts
             /\ pc'[d] = "running" =>
                  got'[d] <= Len(Plan(snap'[d], req'[d]))
             /\ pc'[d] # "running" => snap'[d] = Blank /\ got'[d] = 0
  <2>1. CASE d = c
    BY <2>1, Constants DEF ClientShape, Submit, Running, Nothing
  <2>2. CASE d # c
    BY <2>2 DEF ClientShape, Submit, Running
  <2> QED
    BY <2>1, <2>2
<1> QED
  BY <1>1, <1>2, <1>3 DEF ClientShape, Running

LEMMA BeginKeepsShape ==
  ASSUME TableShape, ClientShape, NEW c \in Client, Begin(c)
  PROVE  ClientShape'
<1> DEFINE S == [row |-> row, key |-> key, since |-> Len(log)]
<1>1. S \in Snapshot
  BY FreshIsExplained
<1> HIDE DEF S
<1>2. snap' = [snap EXCEPT ![c] = S]
  BY DEF Begin, S
<1>3. /\ log' \in Seq(Logged) /\ req' \in [Client -> Request]
      /\ snap' \in [Client -> Snapshot] /\ got' \in [Client -> Nat]
      /\ sent' \in [Client -> 0..MaxSubmits] /\ DOMAIN answer' = Client
  BY <1>1, <1>2 DEF ClientShape, Begin
<1>4. pc' \in [Client -> {"idle", "ready", "running", "answered", "lost"}]
  BY DEF ClientShape, Begin
<1>5. tries' \in [Client -> 0..MaxAttempts]
  <2>1. tries[c] \in 0..MaxAttempts /\ tries[c] < MaxAttempts
    BY DEF ClientShape, Begin
  <2>2. tries[c] + 1 \in 0..MaxAttempts
    BY <2>1, Constants
  <2> QED
    BY <2>2 DEF ClientShape, Begin
<1>6. ASSUME NEW d \in Client
      PROVE  /\ answer'[d].id \in Reservation \cup {NoReservation}
             /\ pc'[d] = "ready" => tries'[d] < MaxAttempts
             /\ pc'[d] = "running" =>
                  got'[d] <= Len(Plan(snap'[d], req'[d]))
             /\ pc'[d] # "running" => snap'[d] = Blank /\ got'[d] = 0
  <2>1. CASE d = c
    <3>1. pc'[d] = "running" /\ got'[d] = 0 /\ req'[d] \in Request
          /\ snap'[d] = S
      BY <2>1, <1>2 DEF ClientShape, Begin, Running
    <3>2. Len(Plan(snap'[d], req'[d])) \in 0..5
      BY <1>1, <3>1, PlanRises
    <3>3. 0 <= Len(Plan(snap'[d], req'[d]))
      BY <3>2
    <3> QED
      BY <3>1, <3>3 DEF ClientShape, Begin
  <2>2. CASE d # c
    BY <2>2 DEF ClientShape, Begin, Running
  <2> QED
    BY <2>1, <2>2
<1> QED
  BY <1>3, <1>4, <1>5, <1>6 DEF ClientShape, Running

LEMMA AcquireKeepsShape ==
  ASSUME ClientShape, NEW c \in Client, Acquire(c)
  PROVE  ClientShape'
<1>1. Running(c) /\ got[c] + 1 \in 1..Len(Plan(snap[c], req[c]))
  BY WantsUpwards DEF Acquire
<1>2. /\ log' \in Seq(Logged) /\ req' \in [Client -> Request]
      /\ snap' \in [Client -> Snapshot] /\ got' \in [Client -> Nat]
      /\ sent' \in [Client -> 0..MaxSubmits] /\ DOMAIN answer' = Client
      /\ pc' \in [Client -> {"idle", "ready", "running", "answered", "lost"}]
      /\ tries' \in [Client -> 0..MaxAttempts]
  BY DEF ClientShape, Acquire
<1>3. ASSUME NEW d \in Client
      PROVE  /\ answer'[d].id \in Reservation \cup {NoReservation}
             /\ pc'[d] = "ready" => tries'[d] < MaxAttempts
             /\ pc'[d] = "running" =>
                  got'[d] <= Len(Plan(snap'[d], req'[d]))
             /\ pc'[d] # "running" => snap'[d] = Blank /\ got'[d] = 0
  <2>1. CASE d = c
    BY <2>1, <1>1 DEF ClientShape, Acquire, Running
  <2>2. CASE d # c
    BY <2>2 DEF ClientShape, Acquire, Running
  <2> QED
    BY <2>1, <2>2
<1> QED
  BY <1>2, <1>3 DEF ClientShape, Running

LEMMA EndKeepsShape ==
  ASSUME ClientShape, NEW c \in Client, NEW L \in Seq(Logged),
         NEW where \in {"ready", "answered", "lost"},
         Running(c), End(c, L, where), DOMAIN answer' = Client,
         \A d \in Client : answer'[d].id \in Reservation \cup {NoReservation},
         where = "ready" => tries[c] < MaxAttempts
  PROVE  /\ ClientShape'
         /\ \A d \in Client : Running(d)' =>
              d # c /\ Running(d) /\ snap'[d] = snap[d] /\ log' = L
<1>1. log' \in Seq(Logged)
  BY DEF End
<1>2. /\ req' \in [Client -> Request]
      /\ snap' \in [Client -> Snapshot] /\ got' \in [Client -> Nat]
      /\ sent' \in [Client -> 0..MaxSubmits]
      /\ tries' \in [Client -> 0..MaxAttempts]
  BY BlankIsASnapshot DEF ClientShape, End
<1>3. pc' \in [Client -> {"idle", "ready", "running", "answered", "lost"}]
  BY DEF ClientShape, End
<1>4. ASSUME NEW d \in Client
      PROVE  /\ pc'[d] = "ready" => tries'[d] < MaxAttempts
             /\ pc'[d] = "running" =>
                  got'[d] <= Len(Plan(snap'[d], req'[d]))
             /\ pc'[d] # "running" => snap'[d] = Blank /\ got'[d] = 0
             /\ pc'[d] = "running" =>
                  d # c /\ pc[d] = "running" /\ snap'[d] = snap[d] /\ log' = L
  <2>1. CASE d = c
    BY <2>1 DEF ClientShape, End, Running
  <2>2. CASE d # c
    BY <2>2 DEF ClientShape, End, Running
  <2> QED
    BY <2>1, <2>2
<1> QED
  BY <1>1, <1>2, <1>3, <1>4 DEF ClientShape, Running

-----------------------------------------------------------------------------
(* Whoever does not commit leaves the tables and what is told of them.     *)

Rests ==
  /\ row' = row /\ key' = key /\ req' = req
  /\ \A c \in Client : answer'[c] = answer[c]
       \/ answer'[c].word \notin Changing \cup {"REPLAYED"}

LEMMA RestingKeeps ==
  ASSUME IInv, Rests, ClientShape',
         \A c \in Client :
            Running(c)' => Explains(log, snap[c], row, key)'
  PROVE  IInv'
<1>1. TableShape' /\ IdsDiffer' /\ Expected'
  BY DEF IInv, Rests, TableShape, IdsDiffer, Expected
<1>2. ToldOfChanges'
  BY DEF IInv, Rests, ToldOfChanges
<1>3. ToldOfKeys'
  BY DEF IInv, Rests, ToldOfKeys, Changing
<1>4. Explained'
  BY DEF Explained
<1>5. NoLostUpdate'
  BY DEF IInv, Rests, NoLostUpdate
<1> QED
  BY <1>1, <1>2, <1>3, <1>4, <1>5 DEF IInv

LEMMA SubmitKeeps ==
  ASSUME IInv, NEW c \in Client, Submit(c)
  PROVE  IInv'
<1>1. ClientShape'
  BY SubmitKeepsShape DEF IInv
<1>2. Rests
  <2>1. row' = row /\ key' = key /\ req' = req
    BY DEF Submit
  <2>2. ASSUME NEW d \in Client
        PROVE  answer'[d] = answer[d]
                 \/ answer'[d].word \notin Changing \cup {"REPLAYED"}
    BY DEF Submit, Nothing, IInv, ClientShape, Changing
  <2> QED
    BY <2>1, <2>2 DEF Rests
<1>3. ASSUME NEW d \in Client, Running(d)'
      PROVE  Explains(log, snap[d], row, key)'
  <2>1. Running(d)
    BY <1>3 DEF Submit, Running, IInv, ClientShape
  <2>2. Explains(log, snap[d], row, key)
    BY <2>1 DEF IInv, Explained
  <2> QED
    BY <2>2 DEF Submit
<1> QED
  BY <1>1, <1>2, <1>3, RestingKeeps

LEMMA BeginKeeps ==
  ASSUME IInv, NEW c \in Client, Begin(c)
  PROVE  IInv'
<1>1. ClientShape'
  BY BeginKeepsShape DEF IInv
<1>2. Rests
  BY DEF Begin, Rests
<1>3. ASSUME NEW d \in Client, Running(d)'
      PROVE  Explains(log, snap[d], row, key)'
  <2> DEFINE S == [row |-> row, key |-> key, since |-> Len(log)]
  <2>1. Explains(log, S, row, key)
    BY FreshIsExplained DEF IInv
  <2> HIDE DEF S
  <2>2. CASE d = c
    <3>1. snap'[d] = S
      BY <2>2 DEF Begin, S, IInv, ClientShape
    <3> QED
      BY <2>1, <3>1 DEF Begin
  <2>3. CASE d # c
    <3>1. Running(d) /\ snap'[d] = snap[d]
      BY <1>3, <2>3 DEF Begin, Running, IInv, ClientShape
    <3>2. Explains(log, snap[d], row, key)
      BY <3>1 DEF IInv, Explained
    <3> QED
      BY <3>1, <3>2 DEF Begin
  <2> QED
    BY <2>2, <2>3
<1> QED
  BY <1>1, <1>2, <1>3, RestingKeeps

LEMMA AcquireKeeps ==
  ASSUME IInv, NEW c \in Client, Acquire(c)
  PROVE  IInv'
<1>1. ClientShape'
  BY AcquireKeepsShape DEF IInv
<1>2. Rests
  BY DEF Acquire, Rests
<1>3. ASSUME NEW d \in Client, Running(d)'
      PROVE  Explains(log, snap[d], row, key)'
  <2>1. Explains(log, snap[d], row, key)
    BY <1>3 DEF Acquire, Running, IInv, Explained
  <2> QED
    BY <2>1 DEF Acquire
<1> QED
  BY <1>1, <1>2, <1>3, RestingKeeps

(* A transaction that ends without a commit.                               *)
LEMMA EndKeeps ==
  ASSUME IInv, NEW c \in Client, NEW where \in {"ready", "answered", "lost"},
         Running(c), End(c, log, where), UNCHANGED <<row, key>>,
         where = "ready" => tries[c] < MaxAttempts,
         \/ UNCHANGED answer
         \/ \E word : /\ word \notin Changing \cup {"REPLAYED"}
                      /\ Tell(c, word, NoReservation)
  PROVE  IInv'
<1>1. /\ DOMAIN answer' = Client
      /\ \A d \in Client :
           /\ answer'[d].id \in Reservation \cup {NoReservation}
           /\ answer'[d] = answer[d]
                \/ answer'[d].word \notin Changing \cup {"REPLAYED"}
  <2>1. CASE UNCHANGED answer
    BY <2>1 DEF IInv, ClientShape
  <2>2. ASSUME NEW word, word \notin Changing \cup {"REPLAYED"},
               Tell(c, word, NoReservation)
        PROVE  /\ DOMAIN answer' = Client
               /\ \A d \in Client :
                    /\ answer'[d].id \in Reservation \cup {NoReservation}
                    /\ answer'[d] = answer[d]
                         \/ answer'[d].word \notin Changing \cup {"REPLAYED"}
    BY <2>2 DEF Tell, IInv, ClientShape
  <2> QED
    BY <2>1, <2>2
<1>2. log \in Seq(Logged) /\ ClientShape
  BY DEF IInv, ClientShape
<1>3. /\ ClientShape'
      /\ \A d \in Client : Running(d)' =>
           d # c /\ Running(d) /\ snap'[d] = snap[d] /\ log' = log
  BY <1>1, <1>2, EndKeepsShape
<1>4. Rests
  BY <1>1 DEF Rests, End
<1>5. ASSUME NEW d \in Client, Running(d)'
      PROVE  Explains(log, snap[d], row, key)'
  <2>1. Running(d) /\ snap'[d] = snap[d] /\ log' = log
    BY <1>3, <1>5
  <2>2. Explains(log, snap[d], row, key)
    BY <2>1 DEF IInv, Explained
  <2> QED
    BY <2>1, <2>2
<1> QED
  BY <1>3, <1>4, <1>5, RestingKeeps

LEMMA RefuseKeeps ==
  ASSUME IInv, NEW c \in Client, Refuse(c)
  PROVE  IInv'
<1> DEFINE word == Answer(snap[c], req[c])
<1> HIDE DEF word
<1>1. /\ Running(c) /\ End(c, log, "answered") /\ UNCHANGED <<row, key>>
      /\ word \notin Changing \cup {"REPLAYED"}
      /\ Tell(c, word, NoReservation)
  BY DEF Refuse, Running, ReadOnly, word
<1> QED
  BY <1>1, EndKeeps

LEMMA AbortKeeps ==
  ASSUME IInv, NEW c \in Client, Abort(c)
  PROVE  IInv'
<1>1. Running(c) /\ UNCHANGED <<row, key>>
  BY DEF Abort, Running
<1>2. CASE tries[c] < MaxAttempts
  BY <1>1, <1>2, EndKeeps DEF Abort
<1>3. CASE ~(tries[c] < MaxAttempts)
  <2>1. End(c, log, "answered") /\ Tell(c, "GAVE_UP", NoReservation)
    BY <1>3 DEF Abort
  <2>2. "GAVE_UP" \notin Changing \cup {"REPLAYED"}
    BY DEF Changing
  <2> QED
    BY <1>1, <2>1, <2>2, EndKeeps
<1> QED
  BY <1>2, <1>3

LEMMA CrashKeeps ==
  ASSUME IInv, NEW c \in Client, Crash(c)
  PROVE  IInv'
<1>1. /\ Running(c) /\ End(c, log, "lost") /\ UNCHANGED <<row, key>>
      /\ UNCHANGED answer
  BY DEF Crash, Running
<1> QED
  BY <1>1, EndKeeps

-----------------------------------------------------------------------------
(* A commit keeps the invariant.                                           *)

LEMMA OfAReplay ==
  ASSUME NEW S, NEW q, q.kind \in Creates, Answer(S, q) = "REPLAYED"
  PROVE  Claimed(S, q.key)
<1>1. Answer(S, q) = CreateAnswer(S, q)
  BY DEF Answer, Creates, Updates, Cancels
<1>2. ASSUME ~Claimed(S, q.key)
      PROVE  CreateAnswer(S, q) = CapacityAnswer(S, q, "CREATED")
  BY <1>2 DEF CreateAnswer
<1> QED
  BY <1>1, <1>2, CapacityAnswersAre

LEMMA ChangesOfVersions ==
  ASSUME NEW S, NEW q, q.kind \in Versioned, Answer(S, q) \in Changing
  PROVE  q.kind \notin Creates /\ S.row[q.id].version = q.version
BY OfAnUpdate, OfACancel, OfAnArrival, OfAnAssignment
   DEF Versioned, Creates, Updates, Cancels

(* A change leaves the others their rows, but for the one it is about.     *)
LEMMA OtherRowsStay ==
  ASSUME TableShape, ClientShape, Explained, NEW c \in Client, Changes(c),
         NEW r \in Reservation, r # req[c].id
  PROVE  row'[r] = row[r]
<1>1. row' = [row EXCEPT ![req[c].id] = Written(snap[c], req[c])]
  BY ChangesWhatItSaw
<1> QED
  BY <1>1 DEF TableShape

(* A key that was claimed stays, and claimed by the request that changes   *)
(* it.                                                                     *)
LEMMA KeysStay ==
  ASSUME TableShape, ClientShape, Explained, NEW c \in Client, Changes(c),
         NEW k \in Key
  PROVE  /\ key[k].owner # NoReservation => key'[k] = key[k]
         /\ key'[k] # key[k] => req[c].kind \in Creates /\ k = req[c].key
         /\ req[c].kind \in Creates /\ k = req[c].key
              => key'[k].owner = req[c].id
<1>1. CASE req[c].kind \in Creates
  <2>1. /\ key[req[c].key].owner = NoReservation
        /\ key' = [key EXCEPT ![req[c].key] = [owner |-> req[c].id,
                                               asked |-> req[c].asked,
                                               flag |-> req[c].flag]]
    BY <1>1, ChangesWhatItSaw
  <2> QED
    BY <1>1, <2>1 DEF TableShape
<1>2. CASE req[c].kind \notin Creates
  BY <1>2, ChangesWhatItSaw
<1> QED
  BY <1>1, <1>2

LEMMA ChangeKeepsTables ==
  ASSUME TableShape, ClientShape, Explained, NEW c \in Client, Changes(c)
  PROVE  /\ TableShape'
         /\ row'[req[c].id].status # "FREE"
         /\ req[c].kind \notin Creates =>
              /\ row[req[c].id].status # "FREE"
              /\ row'[req[c].id].version = row[req[c].id].version + 1
<1> DEFINE S == snap[c]
           q == req[c]
           W == Written(S, q)
<1>1. /\ S \in Snapshot /\ q \in Request /\ Answer(S, q) \in Changing
      /\ S.row[q.id].version < MaxVersion /\ row[q.id] = S.row[q.id]
      /\ row' = [row EXCEPT ![q.id] = W] /\ row'[q.id] = W
  BY ChangesWhatItSaw DEF Changes
<1>2. /\ W \in Row /\ W.status # "FREE"
      /\ q.kind \notin Creates => W.version = S.row[q.id].version + 1
  BY <1>1, WhatIsWrittenIsARow
<1>3. row' \in [Reservation -> Row]
  BY <1>1, <1>2 DEF TableShape
<1>4. key' \in [Key -> Claim]
  <2>1. CASE q.kind \in Creates
    <3>1. [owner |-> q.id, asked |-> q.asked, flag |-> q.flag] \in Claim
      BY <1>1, RequestsAreTyped DEF Claim
    <3>2. key' = [key EXCEPT ![q.key] = [owner |-> q.id, asked |-> q.asked,
                                         flag |-> q.flag]]
      BY <2>1, ChangesWhatItSaw
    <3> QED
      BY <3>1, <3>2 DEF TableShape
  <2>2. CASE q.kind \notin Creates
    BY <2>2, ChangesWhatItSaw DEF TableShape
  <2> QED
    BY <2>1, <2>2
<1>5. q.kind \notin Creates => row[q.id].status # "FREE"
  BY <1>1, OfAChange DEF Known
<1> QED
  BY <1>1, <1>2, <1>3, <1>4, <1>5 DEF TableShape

(* Who changes a booking finds nobody expecting to make it, and who makes  *)
(* one leaves nobody else expecting to.                                    *)
LEMMA ChangeKeepsExpected ==
  ASSUME IInv, NEW c \in Client, Changes(c)
  PROVE  Expected'
<1> SUFFICES ASSUME NEW d \in Client, req[d].kind \in Creates,
                    key'[req[d].key].owner = NoReservation
             PROVE  row'[req[d].id].status = "FREE"
  BY DEF Expected, Changes, Commit, End
<1>1. /\ TableShape /\ ClientShape /\ Explained /\ Expected /\ IdsDiffer
      /\ req[c] \in Request /\ req[d] \in Request
  BY DEF IInv, ClientShape
<1>2. req[d].id \in Reservation /\ req[d].key \in Key
  BY <1>1, RequestsAreTyped
<1>3. key[req[d].key].owner = NoReservation
  BY <1>1, <1>2, KeysStay
<1>4. row[req[d].id].status = "FREE"
  BY <1>1, <1>3 DEF Expected
<1>5. req[d].id # req[c].id
  <2>1. CASE req[c].kind \in Creates
    <3>1. req[c].id # NoReservation
      BY <1>1, RequestsAreTyped, Constants
    <3>2. req[d].key # req[c].key
      BY <1>1, <1>2, <2>1, <3>1, KeysStay
    <3> QED
      BY <1>1, <2>1, <3>2 DEF IdsDiffer
  <2>2. CASE req[c].kind \notin Creates
    BY <1>1, <1>4, <2>2, ChangeKeepsTables
  <2> QED
    BY <2>1, <2>2
<1> QED
  BY <1>1, <1>2, <1>4, <1>5, OtherRowsStay

LEMMA ChangeKeepsToldOfChanges ==
  ASSUME IInv, NEW c \in Client, Changes(c)
  PROVE  ToldOfChanges'
<1> SUFFICES ASSUME NEW d \in Client, req[d].kind \in Versioned,
                    answer'[d].word \in Changing
             PROVE  /\ row'[req[d].id].status # "FREE"
                    /\ req[d].version < row'[req[d].id].version
  BY DEF ToldOfChanges, Changes, Commit, End
<1>1. /\ TableShape /\ ClientShape /\ Explained /\ ToldOfChanges /\ Expected
      /\ req[c] \in Request /\ req[d] \in Request
      /\ req[c].id \in Reservation /\ req[d].id \in Reservation
      /\ req[d].version \in Nat
  BY RequestsAreTyped DEF IInv, ClientShape
<1>2. \A r \in Reservation : row[r].version \in Nat
  BY <1>1 DEF TableShape, Row
<1>3. CASE d = c
  <2>1. req[c].kind \notin Creates
        /\ snap[c].row[req[c].id].version = req[c].version
    BY <1>3, ChangesOfVersions DEF Changes
  <2>2. row[req[c].id] = snap[c].row[req[c].id]
    BY <1>1, ChangesWhatItSaw
  <2> QED
    BY <1>1, <1>3, <2>1, <2>2, ChangeKeepsTables
<1>4. CASE d # c
  <2>1. answer'[d] = answer[d]
    BY <1>4 DEF Changes, Commit, Tell, IInv, ClientShape
  <2>2. /\ row[req[d].id].status # "FREE"
        /\ req[d].version < row[req[d].id].version
    BY <1>1, <2>1 DEF ToldOfChanges
  <2>3. CASE req[d].id # req[c].id
    BY <1>1, <2>2, <2>3, OtherRowsStay
  <2>4. CASE req[d].id = req[c].id
    <3>1. req[c].kind \notin Creates
      BY <1>1, <2>2, <2>4, ChangesWhatItSaw DEF Expected
    <3> QED
      BY <1>1, <1>2, <2>2, <2>4, <3>1, ChangeKeepsTables
  <2> QED
    BY <2>3, <2>4
<1> QED
  BY <1>3, <1>4

(* What was changed already is not changed in the same version.            *)
LEMMA ChangeLosesNoUpdate ==
  ASSUME IInv, NEW c \in Client, Changes(c), NEW d \in Client, d # c,
         req[c].kind \in Versioned, req[d].kind \in Versioned,
         req[c].id = req[d].id, answer[d].word \in Changing
  PROVE  req[c].version # req[d].version
<1>1. /\ TableShape /\ ClientShape /\ Explained /\ ToldOfChanges
      /\ req[c] \in Request /\ req[d] \in Request
      /\ req[c].id \in Reservation /\ req[d].version \in Nat
  BY RequestsAreTyped DEF IInv, ClientShape
<1>2. req[d].version < row[req[c].id].version
  BY <1>1 DEF ToldOfChanges
<1>3. row[req[c].id].version = req[c].version
  <2>1. snap[c].row[req[c].id].version = req[c].version
    BY ChangesOfVersions DEF Changes
  <2>2. row[req[c].id] = snap[c].row[req[c].id]
    BY <1>1, ChangesWhatItSaw
  <2> QED
    BY <2>1, <2>2
<1>4. row[req[c].id].version \in Nat
  BY <1>1 DEF TableShape, Row
<1> QED
  BY <1>1, <1>2, <1>3, <1>4

LEMMA CommitLosesNoUpdate ==
  ASSUME IInv, NEW c \in Client, Commit(c)
  PROVE  NoLostUpdate'
<1> SUFFICES ASSUME NEW a \in Client, NEW b \in Client, a # b,
                    req[a].kind \in Versioned, req[b].kind \in Versioned,
                    req[a].id = req[b].id,
                    answer'[a].word \in Changing, answer'[b].word \in Changing
             PROVE  req[a].version # req[b].version
  BY DEF NoLostUpdate, Commit, End
<1>1. \A d \in Client : d # c => answer'[d] = answer[d]
  BY DEF Commit, Tell, IInv, ClientShape
<1>2. answer'[c].word = Answer(snap[c], req[c])
  BY DEF Commit, Tell, IInv, ClientShape
<1>3. c \in {a, b} => Changes(c)
  BY <1>2 DEF Changes
<1>4. CASE c = a
  BY <1>1, <1>3, <1>4, ChangeLosesNoUpdate
<1>5. CASE c = b
  BY <1>1, <1>3, <1>5, ChangeLosesNoUpdate
<1>6. CASE c \notin {a, b}
  BY <1>1, <1>6 DEF IInv, NoLostUpdate
<1> QED
  BY <1>4, <1>5, <1>6

LEMMA ChangeKeepsToldOfKeys ==
  ASSUME IInv, NEW c \in Client, Changes(c)
  PROVE  ToldOfKeys'
<1> SUFFICES ASSUME NEW d \in Client, req[d].kind \in Creates,
                    answer'[d].word \in {"CREATED", "REPLAYED"}
             PROVE  /\ answer'[d].id = key'[req[d].key].owner
                    /\ answer'[d].id # NoReservation
                    /\ answer'[d].word = "CREATED" => answer'[d].id = req[d].id
  BY DEF ToldOfKeys, Changes, Commit, End
<1>1. /\ TableShape /\ ClientShape /\ Explained /\ ToldOfKeys
      /\ req[c] \in Request /\ req[d] \in Request
      /\ req[d].key \in Key /\ req[d].id \in Reservation
  BY RequestsAreTyped DEF IInv, ClientShape
<1>2. CASE d = c
  <2>1. answer'[c] = [word |-> Answer(snap[c], req[c]), id |-> req[c].id]
    BY DEF Changes, Commit, Tell, IInv, ClientShape, Changing
  <2> QED
    BY <1>1, <1>2, <2>1, KeysStay, Constants
<1>3. CASE d # c
  <2>1. answer'[d] = answer[d]
    BY <1>3 DEF Changes, Commit, Tell, IInv, ClientShape
  <2>2. /\ answer[d].id = key[req[d].key].owner
        /\ answer[d].id # NoReservation
        /\ answer[d].word = "CREATED" => answer[d].id = req[d].id
    BY <1>1, <2>1 DEF ToldOfKeys
  <2>3. key'[req[d].key] = key[req[d].key]
    BY <1>1, <2>2, KeysStay
  <2> QED
    BY <2>1, <2>2, <2>3
<1> QED
  BY <1>2, <1>3

(* A commit that changes nothing: a key is replayed as it stands.          *)
LEMMA ReadKeeps ==
  ASSUME IInv, NEW c \in Client, Commit(c),
         Answer(snap[c], req[c]) \notin Changing
  PROVE  TableShape' /\ Expected' /\ ToldOfChanges' /\ ToldOfKeys'
<1> DEFINE S == snap[c]
           q == req[c]
           word == Answer(S, q)
<1>1. /\ TableShape /\ ClientShape /\ Explained /\ ToldOfKeys /\ ToldOfChanges
      /\ Expected /\ q \in Request /\ q.key \in Key /\ Running(c)
  BY RequestsAreTyped DEF IInv, ClientShape, Commit, Running
<1>2. /\ row' = row /\ key' = key /\ req' = req
      /\ word \in {"REPLAYED", "UNCHANGED"}
  BY DEF Commit, End, Changing, ReadOnly
<1>3. TableShape' /\ Expected'
  BY <1>1, <1>2 DEF TableShape, Expected
<1>4. \A d \in Client : d # c => answer'[d] = answer[d]
  BY DEF Commit, Tell, IInv, ClientShape
<1>5. answer'[c].word = word
      /\ answer'[c].id = IF word = "REPLAYED" THEN S.key[q.key].owner ELSE q.id
  BY DEF Commit, Tell, IInv, ClientShape
<1> HIDE DEF word
<1>6. ToldOfChanges'
  <2> SUFFICES ASSUME NEW d \in Client, req[d].kind \in Versioned,
                      answer'[d].word \in Changing
               PROVE  /\ row[req[d].id].status # "FREE"
                      /\ req[d].version < row[req[d].id].version
    BY <1>2 DEF ToldOfChanges
  <2>1. d # c
    BY <1>2, <1>5 DEF Changing
  <2> QED
    BY <1>1, <1>4, <2>1 DEF ToldOfChanges
<1>7. ToldOfKeys'
  <2> SUFFICES ASSUME NEW d \in Client, req[d].kind \in Creates,
                      answer'[d].word \in {"CREATED", "REPLAYED"}
               PROVE  /\ answer'[d].id = key[req[d].key].owner
                      /\ answer'[d].id # NoReservation
                      /\ answer'[d].word = "CREATED"
                           => answer'[d].id = req[d].id
    BY <1>2 DEF ToldOfKeys
  <2>1. CASE d = c
    <3>1. word = "REPLAYED" /\ answer'[c].id = S.key[q.key].owner
      BY <1>2, <1>5, <2>1
    <3>2. Claimed(S, q.key)
      BY <2>1, <3>1, OfAReplay DEF word
    <3>3. key[q.key] = S.key[q.key]
      BY <1>1, <3>2 DEF Explained, Explains
    <3> QED
      BY <1>5, <2>1, <3>1, <3>2, <3>3 DEF Claimed
  <2>2. CASE d # c
    BY <1>1, <1>4, <2>2 DEF ToldOfKeys
  <2> QED
    BY <2>1, <2>2
<1> QED
  BY <1>3, <1>6, <1>7

LEMMA CommitKeeps ==
  ASSUME IInv, NEW c \in Client, Commit(c)
  PROVE  IInv'
<1> DEFINE L == Append(log, Entry(c))
<1>1. /\ TableShape /\ ClientShape /\ Explained /\ Running(c)
      /\ log \in Seq(Logged) /\ req[c] \in Request /\ snap[c] \in Snapshot
      /\ req[c].id \in Reservation /\ req[c].key \in Key
  BY RequestsAreTyped DEF IInv, ClientShape, Commit, Running
<1>2. Entry(c) \in Logged /\ Tells(Entry(c), row, key, row', key')
  BY <1>1, CommitTells
<1>3. L \in Seq(Logged)
  BY <1>1, <1>2, Appended
<1>4. /\ DOMAIN answer' = Client
      /\ \A d \in Client : answer'[d].id \in Reservation \cup {NoReservation}
  <2>1. snap[c].key[req[c].key].owner \in Reservation \cup {NoReservation}
    BY <1>1 DEF Snapshot, Claim
  <2> QED
    BY <1>1, <2>1 DEF Commit, Tell, ClientShape
<1>5. End(c, L, "answered")
  BY DEF Commit
<1> HIDE DEF L
<1>6. /\ ClientShape'
      /\ \A d \in Client : Running(d)' =>
           d # c /\ Running(d) /\ snap'[d] = snap[d] /\ log' = L
  BY <1>1, <1>3, <1>4, <1>5, EndKeepsShape
<1>7. Explained'
  <2> SUFFICES ASSUME NEW d \in Client, Running(d)'
               PROVE  Explains(log', snap'[d], row', key')
    BY DEF Explained
  <2>1. Running(d) /\ snap'[d] = snap[d] /\ log' = L /\ snap[d] \in Snapshot
    BY <1>1, <1>6 DEF ClientShape
  <2>2. Explains(log, snap[d], row, key)
    BY <1>1, <2>1 DEF Explained
  <2>3. Explains(Append(log, Entry(c)), snap[d], row', key')
    BY <1>1, <1>2, <2>1, <2>2, StillExplained
  <2> QED
    BY <2>1, <2>3 DEF L
<1>8. IdsDiffer'
  BY <1>5 DEF IInv, IdsDiffer, End
<1>9. TableShape' /\ Expected' /\ ToldOfChanges' /\ ToldOfKeys'
  <2>1. CASE Changes(c)
    BY <1>1, <2>1, ChangeKeepsTables, ChangeKeepsExpected,
       ChangeKeepsToldOfChanges, ChangeKeepsToldOfKeys
  <2>2. CASE ~Changes(c)
    BY <2>2, ReadKeeps DEF Changes
  <2> QED
    BY <2>1, <2>2
<1> QED
  BY <1>6, <1>7, <1>8, <1>9, CommitLosesNoUpdate DEF IInv

-----------------------------------------------------------------------------
LEMMA InitHolds == Init => IInv
<1> SUFFICES ASSUME Init PROVE IInv
  OBVIOUS
<1>1. /\ Blank \in Snapshot /\ Blank.row = Start
      /\ \A k \in Key : Blank.key[k].owner = NoReservation
  BY BlankIsASnapshot DEF Blank
<1>2. TableShape
  BY <1>1, Constants DEF Init, TableShape, Snapshot
<1>3. ClientShape
  <2>1. << >> \in Seq(Logged)
    OBVIOUS
  <2>2. /\ log \in Seq(Logged) /\ req \in [Client -> Request]
        /\ snap \in [Client -> Snapshot] /\ got \in [Client -> Nat]
    BY <1>1, <2>1 DEF Init
  <2>3. /\ pc \in [Client -> {"idle", "ready", "running", "answered", "lost"}]
        /\ sent \in [Client -> 0..MaxSubmits]
        /\ tries \in [Client -> 0..MaxAttempts]
        /\ DOMAIN answer = Client
    BY Constants DEF Init
  <2>4. ASSUME NEW c \in Client
        PROVE  /\ answer[c].id = NoReservation /\ pc[c] = "idle"
               /\ snap[c] = Blank /\ got[c] = 0
    BY DEF Init, Nothing
  <2> QED
    BY <2>2, <2>3, <2>4 DEF ClientShape, Running
<1>4. IdsDiffer
  BY DEF Init, IdsDiffer
<1>5. Expected
  BY TransactionAssumption DEF Init, Expected
<1>6. Explained
  BY DEF Init, Explained, Running
<1>7. ToldOfChanges /\ ToldOfKeys /\ NoLostUpdate
  BY DEF Init, ToldOfChanges, ToldOfKeys, NoLostUpdate, Nothing, Changing
<1> QED
  BY <1>2, <1>3, <1>4, <1>5, <1>6, <1>7 DEF IInv

LEMMA NextKeeps == IInv /\ [Next]_vars => IInv'
<1> SUFFICES ASSUME IInv, [Next]_vars PROVE IInv'
  OBVIOUS
<1>1. ASSUME NEW c \in Client, Step(c) PROVE IInv'
  BY <1>1, BeginKeeps, AcquireKeeps, CommitKeeps, RefuseKeeps, AbortKeeps
     DEF Step, Serialize
<1>2. ASSUME NEW c \in Client, Submit(c) \/ AbortEarly(c) \/ Crash(c)
      PROVE  IInv'
  BY <1>2, SubmitKeeps, AbortKeeps, CrashKeeps DEF AbortEarly
<1>3. CASE UNCHANGED vars
  <2>1. TableShape' /\ ClientShape' /\ IdsDiffer' /\ Expected'
    BY <1>3 DEF IInv, vars, TableShape, ClientShape, Running, IdsDiffer,
                Expected
  <2>2. Explained'
    BY <1>3 DEF IInv, vars, Explained, Running
  <2>3. ToldOfChanges' /\ ToldOfKeys' /\ NoLostUpdate'
    BY <1>3 DEF IInv, vars, ToldOfChanges, ToldOfKeys, NoLostUpdate
  <2> QED
    BY <2>1, <2>2, <2>3 DEF IInv
<1> QED
  BY <1>1, <1>2, <1>3 DEF Next

LEMMA InvariantHolds == Spec => []IInv
BY InitHolds, NextKeeps, PTL DEF Spec

(* Requests, transactions, their snapshots and the locks they hold are     *)
(* what they are said to be, and what is not running holds nothing: an     *)
(* abort, a crash or an answer frees every lock (runReservationTransaction *)
(* and the advisory locks, held until the transaction ends).               *)
THEOREM TransactionsAreTyped == Spec => []TypeOK
<1>1. IInv => TypeOK
  <2> SUFFICES ASSUME IInv, NEW c \in Client
               PROVE  /\ req[c] \in Request /\ IsRequest(req[c])
                      /\ pc[c] \in {"idle", "ready", "running", "answered",
                                    "lost"}
                      /\ sent[c] \in 0..MaxSubmits
                      /\ tries[c] \in 0..MaxAttempts
                      /\ snap[c].row \in [Reservation -> Row]
                      /\ snap[c].key \in [Key -> Claim]
                      /\ snap[c].since \in 0..Len(log)
                      /\ got[c] \in 0..5
                      /\ pc[c] # "running" => snap[c] = Blank /\ got[c] = 0
                      /\ answer[c].id \in Reservation \cup {NoReservation}
    BY DEF TypeOK, IInv, TableShape
  <2>1. /\ req[c] \in Request /\ snap[c] \in Snapshot /\ got[c] \in Nat
        /\ pc[c] \in {"idle", "ready", "running", "answered", "lost"}
        /\ sent[c] \in 0..MaxSubmits /\ tries[c] \in 0..MaxAttempts
        /\ pc[c] # "running" => snap[c] = Blank /\ got[c] = 0
        /\ answer[c].id \in Reservation \cup {NoReservation}
        /\ Len(log) \in Nat
    BY DEF IInv, ClientShape, Running
  <2>2. IsRequest(req[c])
    BY <2>1, TransactionAssumption
  <2>3. snap[c].since \in 0..Len(log)
    <3>1. CASE Running(c)
      BY <2>1, <3>1 DEF IInv, Explained, Explains, Snapshot
    <3>2. CASE ~Running(c)
      BY <2>1, <3>2 DEF Running, Blank
    <3> QED
      BY <3>1, <3>2
  <2>4. got[c] \in 0..5
    <3>1. CASE Running(c)
      <4>1. Len(Plan(snap[c], req[c])) \in 0..5
        BY <2>1, PlanRises
      <4>2. got[c] <= Len(Plan(snap[c], req[c]))
        BY <3>1 DEF IInv, ClientShape
      <4> DEFINE n == Len(Plan(snap[c], req[c]))
      <4> HIDE DEF n
      <4>3. n \in 0..5 /\ got[c] <= n
        BY <4>1, <4>2 DEF n
      <4> QED
        BY <2>1, <4>3
    <3>2. CASE ~Running(c)
      BY <2>1, <3>2 DEF Running
    <3> QED
      BY <3>1, <3>2
  <2> QED
    BY <2>1, <2>2, <2>3, <2>4 DEF Snapshot
<1> QED
  BY <1>1, InvariantHolds, PTL

(* Lock requests never wait on each other in a circle, for any number of   *)
(* clients: a capacity lock is asked for with the key, the link, the row   *)
(* and the configuration locked or not needed, and the two capacity locks  *)
(* of a move in the order of their keys.                                   *)
THEOREM NobodyWaitsInACircleHolds == Spec => []NobodyWaitsInACircle
<1>1. IInv => NobodyWaitsInACircle
  BY NoCircle DEF IInv
<1> QED
  BY <1>1, InvariantHolds, PTL

(* Of the clients that changed a reservation in the version their form     *)
(* showed, no two were shown the same version: whoever is second is told   *)
(* VERSION_CONFLICT or tried again on what the first one left.             *)
THEOREM NoLostUpdateHolds == Spec => []NoLostUpdate
<1>1. IInv => NoLostUpdate
  BY DEF IInv
<1> QED
  BY <1>1, InvariantHolds, PTL

(* However often create requests with one key are sent, at the same time,  *)
(* after a lost answer or a crash, those that go well are told of one      *)
(* reservation, and one of them at most that it was created.               *)
THEOREM OneBookingPerKeyHolds == Spec => []OneBookingPerKey
<1>1. IInv => OneBookingPerKey
  <2> SUFFICES ASSUME IInv, NEW c \in Client, NEW d \in Client,
                      {req[c].kind, req[d].kind} \subseteq Creates,
                      req[c].key = req[d].key,
                      {answer[c].word, answer[d].word}
                        \subseteq {"CREATED", "REPLAYED"}
               PROVE  /\ answer[c].id = answer[d].id
                      /\ c # d => "REPLAYED" \in {answer[c].word,
                                                  answer[d].word}
    BY DEF OneBookingPerKey
  <2>1. answer[c].id = answer[d].id
    BY DEF IInv, ToldOfKeys
  <2>2. ASSUME answer[c].word = "CREATED", answer[d].word = "CREATED"
        PROVE  c = d
    <3>1. req[c].id = req[d].id
      BY <2>1, <2>2 DEF IInv, ToldOfKeys
    <3> QED
      BY <3>1 DEF IInv, IdsDiffer
  <2> QED
    BY <2>1, <2>2
<1> QED
  BY <1>1, InvariantHolds, PTL

LEMMA NextBooksUnderAKey ==
  IInv /\ BookedUnderAKey /\ [Next]_vars => BookedUnderAKey'
<1> SUFFICES ASSUME IInv, BookedUnderAKey, [Next]_vars,
                    NEW r \in Reservation, Start[r].status = "FREE",
                    row'[r].status # "FREE"
             PROVE  \E k \in Key : key'[k].owner = r
  BY DEF BookedUnderAKey
<1>1. TableShape /\ ClientShape /\ Explained /\ r # NoReservation
  BY Constants DEF IInv
<1>2. ASSUME row'[r] = row[r] \/ row[r].status # "FREE",
             \A k \in Key : key[k].owner # NoReservation => key'[k] = key[k]
      PROVE  \E k \in Key : key'[k].owner = r
  <2>1. PICK k \in Key : key[k].owner = r
    BY <1>2 DEF BookedUnderAKey
  <2> QED
    BY <1>1, <1>2, <2>1
<1>3. ASSUME NEW c \in Client, Changes(c)
      PROVE  \E k \in Key : key'[k].owner = r
  <2>1. \A k \in Key : key[k].owner # NoReservation => key'[k] = key[k]
    BY <1>1, <1>3, KeysStay
  <2>2. CASE r # req[c].id
    BY <1>1, <1>2, <1>3, <2>1, <2>2, OtherRowsStay
  <2>3. CASE r = req[c].id /\ req[c].kind \in Creates
    <3>1. req[c].key \in Key
      BY <1>1, RequestsAreTyped DEF ClientShape
    <3> QED
      BY <1>1, <1>3, <2>3, <3>1, KeysStay
  <2>4. CASE r = req[c].id /\ req[c].kind \notin Creates
    BY <1>1, <1>2, <1>3, <2>1, <2>4, ChangeKeepsTables
  <2> QED
    BY <2>2, <2>3, <2>4
<1>4. CASE row' = row /\ key' = key
  BY <1>2, <1>4
<1>5. ASSUME NEW c \in Client, Commit(c), ~Changes(c)
      PROVE  row' = row /\ key' = key
  BY <1>5 DEF Changes, Commit, Changing
<1>6. ASSUME NEW c \in Client,
             \/ Submit(c) \/ Begin(c) \/ Acquire(c) \/ Refuse(c)
             \/ Abort(c) \/ Crash(c)
      PROVE  row' = row /\ key' = key
  BY <1>6 DEF Submit, Begin, Acquire, Refuse, Abort, Crash
<1>7. CASE UNCHANGED vars
  BY <1>4, <1>7 DEF vars
<1> QED
  BY <1>3, <1>4, <1>5, <1>6, <1>7 DEF Next, Step, Serialize, AbortEarly

(* However create requests race, are repeated, aborted and lost, no key    *)
(* has a second reservation booked under it: each one there is beyond the  *)
(* start is the one its key stands for (the idempotency branch of the      *)
(* create handlers and the conflicts that PostgreSQL refuses).             *)
THEOREM BookedUnderAKeyHolds == Spec => []BookedUnderAKey
<1>1. Init => BookedUnderAKey
  BY DEF Init, BookedUnderAKey
<1> QED
  BY <1>1, NextBooksUnderAKey, InvariantHolds, PTL DEF Spec

-----------------------------------------------------------------------------
(* What is committed, as the ledger sees it.                               *)
Entered(x) ==
  [status   |-> x.status,
   service  |-> x.service,
   slot     |-> x.slot,
   party    |-> x.party,
   override |-> x.override,
   version  |-> x.version]

ledgerRow == [r \in Reservation |-> Entered(row[r])]

ledgerClaim == [k \in Key |-> key[k].owner]

LEMMA CardinalityOfTheLedger ==
  \A S : Ledger!Cardinality(S) = Cardinality(S)
BY DEF Ledger!Cardinality, Cardinality

(* What fits in a snapshot fits the tables when every arrival of that      *)
(* service sat there in the snapshot already: the load can only have       *)
(* shrunk since.                                                           *)
LEMMA FitsOfTheLedger ==
  ASSUME NEW S \in Snapshot, NEW q \in Request, TableShape, Fits(S, q),
         \A r \in Reservation :
            row[r].status = "CONFIRMED" /\ row[r].service = q.asked.service
              => SatThere(S.row[r], row[r])
  PROVE  Ledger!Fits(q.id, q.asked.service, q.asked.slot, q.asked.party)
<1> DEFINE A == Ledger!Arrivals(q.asked.service) \ {q.id}
           B == Arrivals(S, q.asked.service) \ {q.id}
<1>1. A \subseteq B /\ B \in SUBSET Reservation
  BY DEF Ledger!Arrivals, Arrivals, SatThere, SameSeats
<1>2. \A r \in A : /\ ledgerRow[r].slot = S.row[r].slot
                   /\ ledgerRow[r].party = S.row[r].party
  BY DEF Ledger!Arrivals, SatThere, SameSeats, ledgerRow, Entered
<1>3. IsFiniteSet(B) /\ MaxParty \in Nat
  BY <1>1, TransactionAssumption, FS_Subset
<1>4. AffectedWindows(Slot, q.asked.slot, Window)
        = Ledger!AffectedWindows(Slot, q.asked.slot, Window)
  BY DEF AffectedWindows, Ledger!AffectedWindows, InWindow, Ledger!InWindow
<1>5. \A w \in AffectedWindows(Slot, q.asked.slot, Window) :
         WindowLoad(S.row, B, MaxParty, w, Window) + q.asked.party
           <= Limit[q.asked.service]
  BY DEF Fits, SlotHasRoom
<1> HIDE DEF A, B
<1>6. ASSUME NEW w
      PROVE  Ledger!WindowLoad(ledgerRow, A, MaxParty, w, Window)
               = WindowLoad(ledgerRow, A, MaxParty, w, Window)
  <2>1. Ledger!HeadsIn(ledgerRow, A, MaxParty, w, Window)
          = HeadsIn(ledgerRow, A, MaxParty, w, Window)
    BY DEF HeadsIn, Ledger!HeadsIn, InWindow, Ledger!InWindow
  <2> QED
    BY <2>1, CardinalityOfTheLedger DEF WindowLoad, Ledger!WindowLoad
<1>7. ASSUME NEW w \in AffectedWindows(Slot, q.asked.slot, Window)
      PROVE  Ledger!WindowLoad(ledgerRow, A, MaxParty, w, Window)
               + q.asked.party <= Limit[q.asked.service]
  <2> DEFINE now    == WindowLoad(ledgerRow, A, MaxParty, w, Window)
             before == WindowLoad(S.row, B, MaxParty, w, Window)
  <2>1. now <= before
    BY <1>1, <1>2, <1>3, LoadIsMonotone
  <2>2. before \in Nat
    BY <1>3, LoadIsNatural
  <2>3. now \in Nat
    <3>1. IsFiniteSet(A)
      BY <1>1, <1>3, FS_Subset
    <3> QED
      BY <1>3, <3>1, LoadIsNatural
  <2>4. q.asked.party \in Nat /\ Limit[q.asked.service] \in Nat
    BY RequestsAreTyped, AskedIsTyped, Constants
  <2>5. before + q.asked.party <= Limit[q.asked.service]
    BY <1>5
  <2>6. Ledger!WindowLoad(ledgerRow, A, MaxParty, w, Window) = now
    BY <1>6
  <2> HIDE DEF now, before
  <2>7. now + q.asked.party <= Limit[q.asked.service]
    BY <2>1, <2>2, <2>3, <2>4, <2>5
  <2> QED
    BY <2>6, <2>7
<1> QED
  BY <1>4, <1>7 DEF Ledger!Fits, Ledger!SlotHasRoom, A, ledgerRow, Entered

(* The ledger's actions, read over the mapped variables.                   *)
LEMMA GrantOfTheLedger ==
  ASSUME NEW k \in Key, NEW r \in Reservation, NEW s \in Service,
         NEW t \in Slot, NEW p \in 1..MaxParty, NEW o \in BOOLEAN,
         ledgerClaim[k] = NoReservation,
         ledgerRow[r].status = "FREE",
         ledgerRow' = [ledgerRow EXCEPT ![r] =
                         [status |-> "CONFIRMED", service |-> s, slot |-> t,
                          party |-> p, override |-> o, version |-> 1]],
         o \/ Ledger!Fits(r, s, t, p),
         ledgerClaim' = [ledgerClaim EXCEPT ![k] = r]
  PROVE  Ledger!Next
<1>1. Ledger!Grant(k, r, s, t, p, o)
  BY DEF Ledger!Grant, ledgerRow, ledgerClaim, Entered
<1> QED
  BY <1>1 DEF Ledger!Next

LEMMA AnnotateOfTheLedger ==
  ASSUME NEW r, ledgerRow[r].status # "FREE",
         ledgerRow[r].version < MaxVersion,
         ledgerRow' = [ledgerRow EXCEPT ![r].version = @ + 1],
         ledgerClaim' = ledgerClaim
  PROVE  Ledger!Annotate(r)
BY DEF Ledger!Annotate, ledgerRow, ledgerClaim, Entered

LEMMA CancelOfTheLedger ==
  ASSUME NEW r, ledgerRow[r].status = "CONFIRMED",
         ledgerRow[r].version < MaxVersion,
         ledgerRow' = [ledgerRow EXCEPT ![r].status = "CANCELLED",
                                        ![r].version = @ + 1],
         ledgerClaim' = ledgerClaim
  PROVE  Ledger!Cancel(r)
BY DEF Ledger!Cancel, ledgerRow, ledgerClaim, Entered

LEMMA LedgerStutters ==
  ASSUME row' = row, key' = key
  PROVE  UNCHANGED Ledger!vars
BY DEF Ledger!vars

(* A change as the ledger sees it.                                         *)
LEMMA ChangeOfTheLedger ==
  ASSUME TableShape, ClientShape, Explained, NEW c \in Client, Changes(c)
  PROVE  /\ ledgerRow' = [ledgerRow EXCEPT ![req[c].id] =
                            Entered(Written(snap[c], req[c]))]
         /\ ledgerRow[req[c].id] = Entered(snap[c].row[req[c].id])
         /\ req[c].kind \notin Creates => ledgerClaim' = ledgerClaim
<1> DEFINE S == snap[c]
           q == req[c]
           W == Written(S, q)
<1>1. /\ row' = [row EXCEPT ![q.id] = W] /\ row[q.id] = S.row[q.id]
      /\ q.kind \notin Creates => key' = key
  BY ChangesWhatItSaw
<1>2. q.id \in Reservation
  BY RequestsAreTyped DEF ClientShape
<1> HIDE DEF S, q, W
<1>3. ledgerRow' = [ledgerRow EXCEPT ![q.id] = Entered(W)]
  BY <1>1, <1>2 DEF ledgerRow, TableShape
<1> QED
  BY <1>1, <1>2, <1>3 DEF ledgerRow, ledgerClaim, S, q, W

(* What a request that gives seats found to fit, it fits in the tables.    *)
LEMMA StillFits ==
  ASSUME TableShape, ClientShape, Explained, NEW c \in Client, Changes(c),
         Fits(snap[c], req[c]),
         \/ req[c].kind \in Creates
         \/ req[c].kind \in Updates
            /\ (req[c].kind = "updatePublic"
                  \/ ~SameSeats(snap[c].row[req[c].id], req[c].asked))
  PROVE  Ledger!Fits(req[c].id, req[c].asked.service, req[c].asked.slot,
                     req[c].asked.party)
<1>1. /\ snap[c] \in Snapshot /\ req[c] \in Request
      /\ \A r \in Reservation :
           row[r].status = "CONFIRMED" /\ row[r].service = req[c].asked.service
             => SatThere(snap[c].row[r], row[r])
  BY ChangesWhatItSaw
<1> QED
  BY <1>1, FitsOfTheLedger

LEMMA CreatingIsGrant ==
  ASSUME TableShape, ClientShape, Explained, Expected,
         NEW c \in Client, Changes(c), req[c].kind \in Creates
  PROVE  Ledger!Next
<1> DEFINE S == snap[c]
           q == req[c]
           W == Written(S, q)
<1>1. /\ q \in Request /\ q.id \in Reservation /\ q.key \in Key
      /\ q.asked.service \in Service /\ q.asked.slot \in Slot
      /\ q.asked.party \in 1..MaxParty
  BY RequestsAreTyped, AskedIsTyped DEF ClientShape
<1>2. /\ key[q.key].owner = NoReservation
      /\ key' = [key EXCEPT ![q.key] = [owner |-> q.id, asked |-> q.asked,
                                        flag |-> q.flag]]
  BY ChangesWhatItSaw
<1>3. row[q.id].status = "FREE"
  BY <1>2 DEF Expected
<1>4. Override(q) \/ Fits(S, q)
  BY OfACreate DEF Changes
<1>5. PICK o \in BOOLEAN : o <=> Override(q)
  OBVIOUS
<1>11. /\ o \/ Ledger!Fits(q.id, q.asked.service, q.asked.slot,
                           q.asked.party)
       /\ o = Override(q)
  <2>1. Override(q) \in BOOLEAN
    BY <1>1, RequestsAreTyped DEF Override
  <2> QED
    BY <1>4, <1>5, <2>1, StillFits
<1>6. Entered(W) = [status |-> "CONFIRMED", service |-> q.asked.service,
                    slot |-> q.asked.slot, party |-> q.asked.party,
                    override |-> o, version |-> 1]
  BY <1>1, <1>11, WrittenByACreate DEF Entered, SameSeats
<1>7. ledgerRow' = [ledgerRow EXCEPT ![q.id] = Entered(W)]
  BY ChangeOfTheLedger
<1>8. ledgerClaim' = [ledgerClaim EXCEPT ![q.key] = q.id]
  BY <1>1, <1>2 DEF ledgerClaim, TableShape
<1>9. ledgerClaim[q.key] = NoReservation /\ ledgerRow[q.id].status = "FREE"
  BY <1>1, <1>2, <1>3 DEF ledgerClaim, ledgerRow, Entered
<1> HIDE DEF W
<1> QED
  BY <1>1, <1>11, <1>6, <1>7, <1>8, <1>9, GrantOfTheLedger

LEMMA UpdatingIsAmend ==
  ASSUME TableShape, ClientShape, Explained,
         NEW c \in Client, Changes(c), req[c].kind \in Updates
  PROVE  Ledger!Next
<1> DEFINE S == snap[c]
           q == req[c]
           W == Written(S, q)
           was == S.row[q.id]
           o == IF q.kind = "updatePublic" \/ SameSeats(was, q.asked)
                  THEN was.override ELSE q.flag
<1>1. /\ S \in Snapshot /\ q \in Request /\ q.id \in Reservation
      /\ q.asked.service \in Service /\ q.asked.slot \in Slot
      /\ q.asked.party \in 1..MaxParty /\ q.flag \in BOOLEAN
      /\ was \in Row /\ q.kind \notin Creates
      /\ Answer(S, q) \in Changing /\ was.version < MaxVersion
  BY RequestsAreTyped, AskedIsTyped, RowsAreTyped
     DEF ClientShape, Changes, Commit, Creates, Updates
<1>2. /\ was.status = "CONFIRMED"
      /\ q.kind = "updatePublic" => Fits(S, q)
      /\ q.kind = "updateStaff" /\ ~SameSeats(was, q.asked)
           => q.flag \/ Fits(S, q)
  BY <1>1, OfAnUpdate DEF Row, Status
<1>3. /\ Entered(W) = [status |-> "CONFIRMED", service |-> q.asked.service,
                       slot |-> q.asked.slot, party |-> q.asked.party,
                       override |-> o, version |-> was.version + 1]
  BY <1>1, <1>2, WrittenByAnUpdate DEF Entered, SameSeats
<1>4. /\ ledgerRow' = [ledgerRow EXCEPT ![q.id] = Entered(W)]
      /\ ledgerRow[q.id] = Entered(was) /\ ledgerClaim' = ledgerClaim
  BY <1>1, ChangeOfTheLedger
<1>5. \/ o
      \/ Ledger!Fits(q.id, q.asked.service, q.asked.slot, q.asked.party)
      \/ <<q.asked.service, q.asked.slot, q.asked.party, o>>
           = <<ledgerRow[q.id].service, ledgerRow[q.id].slot,
               ledgerRow[q.id].party, ledgerRow[q.id].override>>
  <2>1. CASE q.kind = "updatePublic" \/ ~SameSeats(was, q.asked)
    <3>1. ASSUME Fits(S, q)
          PROVE  Ledger!Fits(q.id, q.asked.service, q.asked.slot,
                             q.asked.party)
      BY <2>1, <3>1, StillFits
    <3>2. q.kind \in {"updatePublic", "updateStaff"}
      BY DEF Updates
    <3> QED
      BY <1>2, <2>1, <3>1, <3>2
  <2>2. CASE ~(q.kind = "updatePublic" \/ ~SameSeats(was, q.asked))
    BY <1>4, <2>2 DEF Entered, SameSeats
  <2> QED
    BY <2>1, <2>2
<1>6. o \in BOOLEAN
  BY <1>1 DEF Row
<1>7. /\ ledgerRow[q.id].status = "CONFIRMED"
      /\ ledgerRow[q.id].version = was.version
  BY <1>2, <1>4 DEF Entered
<1> HIDE DEF o, W, was
<1>8. ledgerRow' = [ledgerRow EXCEPT ![q.id] =
                      [status |-> "CONFIRMED", service |-> q.asked.service,
                       slot |-> q.asked.slot, party |-> q.asked.party,
                       override |-> o,
                       version |-> ledgerRow[q.id].version + 1]]
  BY <1>3, <1>4, <1>7
<1>9. ledgerRow[q.id].version < MaxVersion
  BY <1>1, <1>7
<1> HIDE DEF S, q
<1>10. PICK r \in Reservation, s \in Service, t \in Slot,
            p \in 1..MaxParty, v \in BOOLEAN :
          /\ r = q.id /\ s = q.asked.service /\ t = q.asked.slot
          /\ p = q.asked.party /\ v = o
  BY <1>1, <1>6
<1>11. ledgerRow' = [ledgerRow EXCEPT ![r] =
                       [status |-> "CONFIRMED", service |-> s, slot |-> t,
                        party |-> p, override |-> v,
                        version |-> ledgerRow[r].version + 1]]
  BY <1>8, <1>10
<1>12. /\ \/ v
          \/ Ledger!Fits(r, s, t, p)
          \/ <<s, t, p, v>> = <<ledgerRow[r].service, ledgerRow[r].slot,
                                ledgerRow[r].party, ledgerRow[r].override>>
       /\ ledgerRow[r].status = "CONFIRMED"
       /\ ledgerRow[r].version < MaxVersion
  BY <1>5, <1>7, <1>9, <1>10
<1>13. Ledger!Amend(r, s, t, p, v)
  BY <1>4, <1>11, <1>12 DEF Ledger!Amend, ledgerRow, ledgerClaim, Entered
<1> QED
  BY <1>13 DEF Ledger!Next

LEMMA CancellingIsCancel ==
  ASSUME TableShape, ClientShape, Explained,
         NEW c \in Client, Changes(c), req[c].kind \in Cancels
  PROVE  Ledger!Next
<1> DEFINE S == snap[c]
           q == req[c]
           W == Written(S, q)
           was == S.row[q.id]
<1>1. /\ S \in Snapshot /\ q \in Request /\ q.id \in Reservation
      /\ was \in Row /\ q.kind \notin Creates
      /\ Answer(S, q) \in Changing /\ was.version < MaxVersion
  BY RequestsAreTyped, RowsAreTyped
     DEF ClientShape, Changes, Commit, Creates, Cancels
<1>2. was.status = "CONFIRMED"
  BY <1>1, OfACancel DEF Row, Status
<1>3. W = [was EXCEPT !.status = "CANCELLED", !.version = @ + 1]
  BY <1>1, WrittenByACancel
<1>4. Entered(W) = [status |-> "CANCELLED", service |-> was.service,
                    slot |-> was.slot, party |-> was.party,
                    override |-> was.override, version |-> was.version + 1]
  <2>1. /\ W.status = "CANCELLED" /\ W.version = was.version + 1
        /\ W.service = was.service /\ W.slot = was.slot
        /\ W.party = was.party /\ W.override = was.override
    BY <1>1, <1>3 DEF Row
  <2> HIDE DEF W, was
  <2> QED
    BY <2>1 DEF Entered
<1>5. /\ ledgerRow' = [ledgerRow EXCEPT ![q.id] = Entered(W)]
      /\ ledgerRow[q.id] = Entered(was) /\ ledgerClaim' = ledgerClaim
  BY <1>1, ChangeOfTheLedger
<1> HIDE DEF W, was
<1>6. ledgerRow' = [ledgerRow EXCEPT ![q.id].status = "CANCELLED",
                                     ![q.id].version = @ + 1]
  BY <1>1, <1>4, <1>5 DEF ledgerRow, Entered
<1>7. /\ ledgerRow[q.id].status = "CONFIRMED"
      /\ ledgerRow[q.id].version < MaxVersion
  BY <1>1, <1>2, <1>5 DEF Entered
<1> QED
  BY <1>1, <1>5, <1>6, <1>7, CancelOfTheLedger DEF Ledger!Next

LEMMA NotingIsAnnotate ==
  ASSUME TableShape, ClientShape, Explained, NEW c \in Client, Changes(c),
         req[c].kind \in {"arrival", "assignment"}
  PROVE  Ledger!Next
<1> DEFINE S == snap[c]
           q == req[c]
           W == Written(S, q)
           was == S.row[q.id]
<1>1. /\ S \in Snapshot /\ q \in Request /\ q.id \in Reservation
      /\ was \in Row /\ q.kind \notin Creates
      /\ Answer(S, q) \in Changing /\ was.version < MaxVersion
  BY RequestsAreTyped, RowsAreTyped
     DEF ClientShape, Changes, Commit, Creates
<1>2. was.status # "FREE"
  BY <1>1, OfAChange DEF Known
<1>3. Entered(W) = [Entered(was) EXCEPT !.version = @ + 1]
  BY <1>1, WrittenByANote DEF Entered, SameSeats
<1>4. /\ ledgerRow' = [ledgerRow EXCEPT ![q.id] = Entered(W)]
      /\ ledgerRow[q.id] = Entered(was) /\ ledgerClaim' = ledgerClaim
  BY <1>1, ChangeOfTheLedger
<1> HIDE DEF W, was
<1>5. ledgerRow' = [ledgerRow EXCEPT ![q.id].version = @ + 1]
  BY <1>1, <1>3, <1>4 DEF ledgerRow, Entered
<1>6. ledgerRow[q.id].status # "FREE" /\ ledgerRow[q.id].version < MaxVersion
  BY <1>1, <1>2, <1>4 DEF Entered
<1> QED
  BY <1>1, <1>4, <1>5, <1>6, AnnotateOfTheLedger DEF Ledger!Next

LEMMA CommitIsOfTheLedger ==
  ASSUME IInv, NEW c \in Client, Commit(c)
  PROVE  UNCHANGED Ledger!vars \/ Ledger!Next
<1>1. TableShape /\ ClientShape /\ Explained /\ Expected
  BY DEF IInv
<1>2. CASE ~Changes(c)
  <2>1. row' = row /\ key' = key
    BY <1>2 DEF Changes, Commit, Changing
  <2> QED
    BY <2>1, LedgerStutters
<1>3. CASE Changes(c)
  <2>1. \/ req[c].kind \in Creates \/ req[c].kind \in Updates
        \/ req[c].kind \in Cancels
        \/ req[c].kind \in {"arrival", "assignment"}
    BY <1>1, KindsOfRequests DEF ClientShape
  <2> QED
    BY <1>1, <1>3, <2>1, CreatingIsGrant, UpdatingIsAmend,
       CancellingIsCancel, NotingIsAnnotate
<1> QED
  BY <1>2, <1>3

(* Every step of the clients and their transactions is a step of the       *)
(* ledger or leaves it alone.                                              *)
LEMMA NextKeepsTheLedger ==
  IInv /\ [Next]_vars => UNCHANGED Ledger!vars \/ Ledger!Next
<1> SUFFICES ASSUME IInv, [Next]_vars
             PROVE  UNCHANGED Ledger!vars \/ Ledger!Next
  OBVIOUS
<1>1. ASSUME NEW c \in Client, Commit(c)
      PROVE  UNCHANGED Ledger!vars \/ Ledger!Next
  BY <1>1, CommitIsOfTheLedger
<1>2. ASSUME NEW c \in Client,
             \/ Submit(c) \/ Begin(c) \/ Acquire(c) \/ Refuse(c)
             \/ Abort(c) \/ Crash(c)
      PROVE  row' = row /\ key' = key
  BY <1>2 DEF Submit, Begin, Acquire, Refuse, Abort, Crash
<1>3. CASE UNCHANGED vars
  BY <1>3, LedgerStutters DEF vars
<1>4. ASSUME NEW c \in Client,
             \/ Submit(c) \/ Begin(c) \/ Acquire(c) \/ Refuse(c)
             \/ Abort(c) \/ Crash(c)
      PROVE  UNCHANGED Ledger!vars
  BY <1>2, <1>4, LedgerStutters
<1> QED
  BY <1>1, <1>3, <1>4 DEF Next, Step, Serialize, AbortEarly

(* Whatever the interleaving of clients, and however old the snapshots     *)
(* they decide on, each commit changes the tables as the ledger does: the  *)
(* seats it gives fit among the arrivals there are by then, a key books    *)
(* once and nothing cancelled comes back.                                  *)
THEOREM KeepsTheLedgerHolds == Spec => KeepsTheLedger
<1>1. IInv /\ [Next]_vars
        => [UNCHANGED Ledger!vars \/ Ledger!Next]_(Ledger!vars)
  BY NextKeepsTheLedger
<1> QED
  BY <1>1, InvariantHolds, PTL DEF Spec, KeepsTheLedger

-----------------------------------------------------------------------------
(* So the transactions inherit what is proved of the ledger's steps.       *)
Promise == INSTANCE BookingLedger_proofs
             WITH row <- ledgerRow, claim <- ledgerClaim

LEMMA PromiseAssumption == Promise!LedgerAssumption
BY TransactionAssumption DEF Promise!LedgerAssumption, Promise!IsFiniteSet,
                             IsFiniteSet

LEMMA LoadAsPromised ==
  \A A, start : Ledger!WindowLoad(ledgerRow, A, MaxParty, start, Window)
                 = Promise!WindowLoad(ledgerRow, A, MaxParty, start, Window)
<1>1. \A S : Ledger!Cardinality(S) = Promise!Cardinality(S)
  BY DEF Ledger!Cardinality, Promise!Cardinality
<1> QED
  BY <1>1 DEF Ledger!WindowLoad, Promise!WindowLoad, Ledger!HeadsIn,
              Promise!HeadsIn, Ledger!InWindow, Promise!InWindow

LEMMA FitsAsPromised ==
  ASSUME NEW r, NEW s, NEW t, NEW p
  PROVE  Ledger!Fits(r, s, t, p) <=> Promise!Fits(r, s, t, p)
<1>1. Ledger!Arrivals(s) = Promise!Arrivals(s)
  BY DEF Ledger!Arrivals, Promise!Arrivals, ledgerRow, Entered
<1>2. Ledger!AffectedWindows(Slot, t, Window)
        = Promise!AffectedWindows(Slot, t, Window)
  BY DEF Ledger!AffectedWindows, Promise!AffectedWindows, Ledger!InWindow,
         Promise!InWindow
<1> QED
  BY <1>1, <1>2, LoadAsPromised
     DEF Ledger!Fits, Promise!Fits, Ledger!SlotHasRoom, Promise!SlotHasRoom,
         ledgerRow, Entered

LEMMA StepsAsPromised == Ledger!Next => Promise!Next
<1> USE DEF ledgerRow, Entered, ledgerClaim
<1>1. ASSUME NEW k, NEW r, NEW s, NEW t, NEW p, NEW o,
             Ledger!Grant(k, r, s, t, p, o)
      PROVE  Promise!Grant(k, r, s, t, p, o)
  BY <1>1, FitsAsPromised DEF Ledger!Grant, Promise!Grant
<1>2. ASSUME NEW r, NEW s, NEW t, NEW p, NEW o, Ledger!Amend(r, s, t, p, o)
      PROVE  Promise!Amend(r, s, t, p, o)
  BY <1>2, FitsAsPromised DEF Ledger!Amend, Promise!Amend
<1>3. ASSUME NEW r, Ledger!Annotate(r) PROVE Promise!Annotate(r)
  BY <1>3 DEF Ledger!Annotate, Promise!Annotate
<1>4. ASSUME NEW r, Ledger!Cancel(r) PROVE Promise!Cancel(r)
  BY <1>4 DEF Ledger!Cancel, Promise!Cancel
<1>5. ASSUME NEW K, Ledger!Forget(K) PROVE Promise!Forget(K)
  BY <1>5 DEF Ledger!Forget, Promise!Forget
<1> QED
  BY <1>1, <1>2, <1>3, <1>4, <1>5 DEF Ledger!Next, Promise!Next

LEMMA PromisedSteps == IInv /\ [Next]_vars => [Promise!Next]_(Promise!vars)
<1>1. UNCHANGED Ledger!vars => UNCHANGED Promise!vars
  BY DEF Ledger!vars, Promise!vars, ledgerRow, Entered, ledgerClaim
<1> QED
  BY <1>1, StepsAsPromised, NextKeepsTheLedger

LEMMA PromiseIsTyped == IInv => Promise!TypeOK
<1> SUFFICES ASSUME IInv PROVE Promise!TypeOK
  OBVIOUS
<1>1. ledgerRow \in [Reservation -> Promise!Row]
  BY DEF IInv, TableShape, ledgerRow, Entered, Row, Promise!Row, Status,
         Promise!Status
<1>2. ledgerClaim \in [Key -> Reservation \cup {NoReservation}]
  BY DEF IInv, TableShape, ledgerClaim, Claim
<1> QED
  BY <1>1, <1>2 DEF Promise!TypeOK

(* Requests that race for the last seats never take them twice: where the  *)
(* reservations the clients find are within the limit in every window, the *)
(* overridden ones aside, they stay within it (the capacity checks of the  *)
(* create and update handlers, on snapshots older than their locks).       *)
THEOREM TransactionsKeepTheLimit ==
  Spec /\ Ledger!RegularWithinLimit => []Ledger!RegularWithinLimit
<1>1. Promise!RegularWithinLimit <=> Ledger!RegularWithinLimit
  <2>1. \A s : Ledger!Regular(s) = Promise!Regular(s)
    BY DEF Ledger!Regular, Promise!Regular, Ledger!Arrivals,
           Promise!Arrivals, ledgerRow, Entered
  <2> QED
    BY <2>1, LoadAsPromised
       DEF Ledger!RegularWithinLimit, Promise!RegularWithinLimit, ledgerRow,
           Entered
<1>2. IInv /\ Promise!RegularWithinLimit /\ [Next]_vars
        => Promise!RegularWithinLimit'
  BY PromisedSteps, PromiseIsTyped, PromiseAssumption,
     Promise!NextIsWithinLimit
<1> QED
  BY <1>1, <1>2, InvariantHolds, PTL DEF Spec

(* No commit brings a cancelled reservation back or moves it, though the   *)
(* request was decided on a snapshot in which it was still confirmed.      *)
THEOREM TransactionsLeaveCancelled == Spec => Ledger!CancelledIsFinal
<1>1. IInv /\ [Next]_vars
        => \A r \in Reservation : ledgerRow[r].status = "CANCELLED" =>
              ledgerRow'[r] = [ledgerRow[r] EXCEPT
                                 !.version = ledgerRow'[r].version]
  BY PromisedSteps, PromiseIsTyped, PromiseAssumption, Promise!CancelledStays
<1> QED
  BY <1>1, InvariantHolds, PTL
     DEF Spec, Ledger!CancelledIsFinal, ledgerRow, Entered

==============================================================================
