------------------------- MODULE BrowserPages_proofs -------------------------
(***************************************************************************)
(* Theorems of the pages a browser runs, for every set of the constants.   *)
(*                                                                         *)
(* The booking page, beside any ledger: questions and submissions have an  *)
(* inductive invariant each; a step of the page disturbs one of them at    *)
(* most, a step of the ledger only what is free.                           *)
(*                                                                         *)
(* The staff pages, drafts and exports together: what a document shows,    *)
(* what an attempt is bound to, which drafts are locked and who attends to *)
(* them, what of the panel belongs to which session, and why what was      *)
(* typed is never lost to a late answer.                                   *)
(***************************************************************************)
EXTENDS PublicBookingForm, BookingLedger_proofs, StaffExports

-----------------------------------------------------------------------------
(* I. The booking page.                                                    *)

Shown == [status : {"IDLE", "LOADING", "ERROR", "EMPTY", "READY", "SENT"},
          slots : SUBSET Slot]

(* What a guest may send: a time, for somebody, under a key drawn.         *)
Sent == {a \in [payload : Payload, key : drawn] :
           a.payload.slot \in Slot /\ Answerable(a.payload.question)}

QuestionShape ==
  /\ form \in Payload
  /\ shown \in Shown
  /\ asked \in Nat
  /\ calls \subseteq [id : Nat, question : Question, answer : Shown]

(* Calls are told apart by their number, and none is of a question to come.*)
CallsArePast ==
  /\ \A c \in calls : c.id <= asked /\ Answerable(c.question)
  /\ \A c, d \in calls : c.id = d.id => c = d

(* While the last question is open nothing is chosen, and what its answer  *)
(* says was free since it was put.                                         *)
CurrentCall ==
  \A c \in calls :
     c.id = asked =>
        /\ c.question = form.question
        /\ shown.status # "READY"
        /\ form.slot = NoSlot
        /\ c.answer.slots \subseteq seen

FreeIsSeen ==
  Answerable(form.question) => FreeIn(row, form.question) \subseteq seen

ReadyIsAnswerable == shown.status = "READY" => Answerable(form.question)

QuestionInv ==
  /\ QuestionShape
  /\ CallsArePast
  /\ CurrentCall
  /\ FreeIsSeen
  /\ ReadyIsAnswerable
  /\ SlotsAnswerTheDay

SubmissionInv ==
  /\ drawn \subseteq Key
  /\ attempt = NoAttempt \/ attempt \in Sent
  /\ strays \subseteq Sent
  /\ post # "NONE" => stage = "PENDING"
  /\ stage \in {"PENDING", "UNCERTAIN", "EDITING"} => attempt \in Sent
  /\ changes \in Nat
  /\ IsFiniteSet(drawn) /\ Cardinality(drawn) <= changes

-----------------------------------------------------------------------------
LEMMA BlankIsPayload == Blank \in Payload /\ Blank.slot = NoSlot
<1>1. (CHOOSE x \in Text : TRUE) \in Text /\ (CHOOSE l \in Language : TRUE) \in Language
  BY FormAssumption
<1>2. Vacant.service \in Service /\ 0 \in 0..MaxParty
  BY VacantIsRow, LedgerAssumption DEF Row
<1> QED
  BY <1>1, <1>2 DEF Blank, Payload, NoQuestion, Question

LEMMA FreeAreSlots == \A ledger, q : FreeIn(ledger, q) \subseteq Slot
BY DEF FreeIn

-----------------------------------------------------------------------------
(* Questions.                                                              *)

LEMMA InitAnswers == FormInit => QuestionInv
<1> SUFFICES ASSUME FormInit PROVE QuestionInv
  OBVIOUS
<1>1. ~Answerable(Blank.question)
  BY DEF Answerable, Blank, NoQuestion
<1> QED
  BY <1>1, BlankIsPayload
  DEF FormInit, NothingSent, QuestionInv, QuestionShape, CallsArePast,
      CurrentCall, FreeIsSeen, ReadyIsAnswerable, SlotsAnswerTheDay, Shown,
      Without

(* A new question leaves no call of the last number but its own.           *)
LEMMA PutAnswers ==
  ASSUME QuestionInv, NEW q \in Question, Put(q)
  PROVE  QuestionInv'
<1> USE DEF QuestionInv
<1> DEFINE c == [id |-> asked', question |-> q, answer |-> Without("SENT")]
<1>1. form \in Payload /\ asked \in Nat /\ asked' = asked + 1 /\ asked' \in Nat
  BY DEF Put, QuestionShape
<1>2. /\ form' \in Payload
      /\ form'.question = q
      /\ form'.slot = NoSlot
  BY <1>1 DEF Put, Payload
<1>3. UNCHANGED row
  BY DEF Put, vars
<1>4. CASE Answerable(q)
  <2>1. /\ shown' = Without("LOADING")
        /\ calls' = calls \cup {c}
        /\ seen' = FreeIn(row, q)
    BY <1>4 DEF Put
  <2>2. c \in [id : Nat, question : Question, answer : Shown]
    BY <1>1 DEF Without, Shown
  <2>3. QuestionShape'
    BY <1>1, <1>2, <2>1, <2>2 DEF QuestionShape, Without, Shown
  <2>4. \A d \in calls : d.id \in Nat /\ d.id <= asked /\ d.id < asked'
    BY <1>1 DEF QuestionShape, CallsArePast
  <2>5. c.id = asked' /\ c.question = q /\ c.answer.slots = {}
    BY DEF Without
  <2> HIDE DEF c
  <2>6. CallsArePast'
    BY <1>1, <1>4, <2>1, <2>4, <2>5 DEF CallsArePast
  <2>7. CurrentCall'
    BY <1>1, <1>2, <2>1, <2>4, <2>5 DEF CurrentCall, Without
  <2> QED
    BY <1>2, <1>3, <2>1, <2>3, <2>6, <2>7
    DEF FreeIsSeen, ReadyIsAnswerable, SlotsAnswerTheDay, Without
<1>5. CASE ~Answerable(q)
  <2>1. shown' = Without("IDLE") /\ calls' = calls
    BY <1>5 DEF Put
  <2>2. QuestionShape'
    BY <1>1, <1>2, <2>1 DEF QuestionShape, Without, Shown
  <2>3. \A d \in calls : d.id \in Nat /\ d.id <= asked /\ d.id < asked'
    BY <1>1 DEF QuestionShape, CallsArePast
  <2>4. CallsArePast' /\ CurrentCall'
    BY <1>1, <2>1, <2>3 DEF CallsArePast, CurrentCall
  <2> QED
    BY <1>2, <1>5, <2>1, <2>2, <2>4
    DEF FreeIsSeen, ReadyIsAnswerable, SlotsAnswerTheDay, Without
<1> QED
  BY <1>4, <1>5

LEMMA RetypeAnswers ==
  ASSUME QuestionInv, Retype
  PROVE  QuestionInv'
<1> USE DEF QuestionInv
<1>1. form \in Payload /\ asked \in Nat /\ asked' = asked + 1 /\ asked' \in Nat
  BY DEF Retype, QuestionShape
<1>2. /\ form' \in Payload
      /\ form'.question = form.question
      /\ form'.slot = NoSlot
  BY <1>1 DEF Retype, Payload
<1>3. /\ shown' = Without("LOADING")
      /\ UNCHANGED <<row, calls, seen>>
  BY DEF Retype, vars
<1>4. QuestionShape'
  BY <1>1, <1>2, <1>3 DEF QuestionShape, Without, Shown
<1>5. \A d \in calls : d.id \in Nat /\ d.id <= asked /\ d.id < asked'
  BY <1>1 DEF QuestionShape, CallsArePast
<1>6. CallsArePast' /\ CurrentCall'
  BY <1>1, <1>3, <1>5 DEF CallsArePast, CurrentCall
<1> QED
  BY <1>2, <1>3, <1>4, <1>6
  DEF FreeIsSeen, ReadyIsAnswerable, SlotsAnswerTheDay, Without

(* The form may change under the same question, in its time only to one    *)
(* that is offered.                                                        *)
LEMMA FillingAnswers ==
  ASSUME QuestionInv, form' \in Payload, form'.question = form.question,
         \/ form'.slot = form.slot
         \/ shown.status = "READY" /\ form'.slot \in shown.slots \cup {NoSlot},
         UNCHANGED <<row, shown, asked, calls, seen>>
  PROVE  QuestionInv'
<1> USE DEF QuestionInv
<1>1. QuestionShape' /\ CallsArePast'
  BY DEF QuestionShape, CallsArePast
<1>2. CurrentCall'
  BY DEF CurrentCall
<1> QED
  BY <1>1, <1>2 DEF FreeIsSeen, ReadyIsAnswerable, SlotsAnswerTheDay

(* A call changes by getting an answer: none, or what is free.             *)
LEMMA AnsweringAnswers ==
  ASSUME QuestionInv, NEW c \in calls, NEW x \in Shown,
         x.slots = {} \/ x.slots = FreeIn(row, c.question),
         calls' = (calls \ {c}) \cup {[c EXCEPT !.answer = x]},
         UNCHANGED <<row, form, shown, asked, seen>>
  PROVE  QuestionInv'
<1> USE DEF QuestionInv
<1> DEFINE d == [c EXCEPT !.answer = x]
<1>1. c \in [id : Nat, question : Question, answer : Shown]
  BY DEF QuestionShape
<1>2. /\ d \in [id : Nat, question : Question, answer : Shown]
      /\ d.id = c.id /\ d.question = c.question /\ d.answer = x
  BY <1>1
<1>3. calls' = (calls \ {c}) \cup {d}
  OBVIOUS
<1> HIDE DEF d
<1>4. QuestionShape'
  BY <1>2, <1>3 DEF QuestionShape
<1>5. CallsArePast'
  BY <1>2, <1>3 DEF CallsArePast
<1>6. CurrentCall'
  <2> SUFFICES ASSUME NEW e \in calls', e.id = asked
               PROVE  /\ e.question = form.question
                      /\ shown.status # "READY"
                      /\ form.slot = NoSlot
                      /\ e.answer.slots \subseteq seen
    BY DEF CurrentCall
  <2>1. CASE e \in calls
    BY <2>1 DEF CurrentCall
  <2>2. CASE e = d
    BY <1>2, <2>2 DEF CurrentCall, FreeIsSeen, CallsArePast
  <2> QED
    BY <1>3, <2>1, <2>2
<1> QED
  BY <1>4, <1>5, <1>6 DEF FreeIsSeen, ReadyIsAnswerable, SlotsAnswerTheDay

LEMMA ReceivingAnswers ==
  ASSUME QuestionInv, NEW c \in calls, ReceiveAvailability(c)
  PROVE  QuestionInv'
<1> USE DEF QuestionInv
<1>1. /\ calls' = calls \ {c}
      /\ shown' = IF IsCurrent(c) THEN c.answer ELSE shown
      /\ UNCHANGED <<row, form, asked, seen>>
  BY DEF ReceiveAvailability, vars
<1>2. QuestionShape' /\ CallsArePast'
  BY <1>1 DEF QuestionShape, CallsArePast
<1>3. CASE IsCurrent(c)
  <2>1. /\ c.question = form.question
        /\ form.slot = NoSlot
        /\ c.answer.slots \subseteq seen
    BY <1>3 DEF CurrentCall, IsCurrent
  <2>2. \A d \in calls' : d.id # asked
    BY <1>1, <1>3 DEF CallsArePast, IsCurrent
  <2>3. CurrentCall'
    BY <1>1, <2>2 DEF CurrentCall
  <2> QED
    BY <1>1, <1>2, <1>3, <2>1, <2>3
    DEF FreeIsSeen, ReadyIsAnswerable, SlotsAnswerTheDay, CallsArePast
<1>4. CASE ~IsCurrent(c)
  <2>1. CurrentCall'
    BY <1>1, <1>4 DEF CurrentCall
  <2> QED
    BY <1>1, <1>2, <1>4, <2>1
    DEF FreeIsSeen, ReadyIsAnswerable, SlotsAnswerTheDay
<1> QED
  BY <1>3, <1>4

(* The ledger moves: what is free now has been seen.                       *)
LEMMA WatchingAnswers ==
  ASSUME QuestionInv, Watch, UNCHANGED asking
  PROVE  QuestionInv'
<1> USE DEF QuestionInv
<1>1. UNCHANGED <<form, shown, asked, calls>>
  BY DEF asking
<1>2. seen \subseteq seen'
  BY DEF Watch
<1>3. QuestionShape' /\ CallsArePast'
  BY <1>1 DEF QuestionShape, CallsArePast
<1>4. CurrentCall'
  BY <1>1, <1>2 DEF CurrentCall
<1>5. FreeIsSeen'
  BY <1>1 DEF FreeIsSeen, Watch
<1> QED
  BY <1>1, <1>2, <1>3, <1>4, <1>5 DEF ReadyIsAnswerable, SlotsAnswerTheDay

LEMMA StillAnswers ==
  ASSUME QuestionInv, UNCHANGED <<row, asking, seen>>
  PROVE  QuestionInv'
BY DEF asking, QuestionInv, QuestionShape, CallsArePast, CurrentCall,
       FreeIsSeen, ReadyIsAnswerable, SlotsAnswerTheDay

LEMMA NextAnswers == QuestionInv /\ [FormNext]_formVars => QuestionInv'
<1> SUFFICES ASSUME QuestionInv, [FormNext]_formVars PROVE QuestionInv'
  OBVIOUS
<1>1. form \in Payload
  BY DEF QuestionInv, QuestionShape
<1>2. CASE UNCHANGED formVars
  BY <1>2, StillAnswers DEF formVars, vars
<1>3. CASE PageStep
  <2>1. ASSUME NEW q \in Question, Ask(q) PROVE QuestionInv'
    BY <2>1, PutAnswers DEF Ask
  <2>2. CASE Retype
    BY <2>2, RetypeAnswers
  <2>3. CASE RetryAvailability
    <3>1. form.question \in Question
      BY <1>1 DEF Payload
    <3> QED
      BY <2>3, <3>1, PutAnswers DEF RetryAvailability
  <2>4. ASSUME NEW t \in Slot \cup {NoSlot}, Choose(t) PROVE QuestionInv'
    <3>1. /\ form' \in Payload
          /\ form'.question = form.question
          /\ form'.slot = t
      BY <1>1, <2>4 DEF Choose, Payload
    <3> QED
      BY <2>4, <3>1, FillingAnswers DEF Choose, vars
  <2>5. ASSUME NEW x \in Text, Write(x) PROVE QuestionInv'
    <3>1. /\ form' \in Payload
          /\ form'.question = form.question
          /\ form'.slot = form.slot
      BY <1>1, <2>5 DEF Write, Payload
    <3> QED
      BY <2>5, <3>1, FillingAnswers DEF Write, vars
  <2>6. ASSUME NEW l \in Language, SelectLanguage(l) PROVE QuestionInv'
    <3>1. /\ form' \in Payload
          /\ form'.question = form.question
          /\ form'.slot = form.slot
      BY <1>1, <2>6 DEF SelectLanguage, Payload
    <3> QED
      BY <2>6, <3>1, FillingAnswers DEF SelectLanguage, vars
  <2>7. ASSUME NEW c \in calls, LoseAvailability(c) PROVE QuestionInv'
    <3> DEFINE x == Without("ERROR")
    <3>1. x \in Shown /\ x.slots = {}
      BY DEF Without, Shown
    <3>2. /\ calls' = (calls \ {c}) \cup {[c EXCEPT !.answer = x]}
          /\ UNCHANGED <<row, form, shown, asked, seen>>
      BY <2>7 DEF LoseAvailability, vars
    <3> HIDE DEF x
    <3> QED
      BY <3>1, <3>2, AnsweringAnswers
  <2>8. ASSUME NEW c \in calls, ReceiveAvailability(c) PROVE QuestionInv'
    BY <2>8, ReceivingAnswers
  <2>9. ASSUME NEW k \in Key, Submit(k) PROVE QuestionInv'
    BY <2>9, StillAnswers DEF Submit, Dispatch, vars
  <2>10. CASE RetryOriginal \/ Edit \/ LosePost \/ ReceivePost
    BY <2>10, StillAnswers
    DEF RetryOriginal, Dispatch, Edit, LosePost, ReceivePost, vars
  <2> QED
    BY <1>3, <2>1, <2>2, <2>3, <2>4, <2>5, <2>6, <2>7, <2>8, <2>9, <2>10
    DEF PageStep
<1>4. CASE ServerStep
  <2>1. ASSUME NEW c \in calls, ServeAvailability(c) PROVE QuestionInv'
    <3> DEFINE free == FreeIn(row, c.question)
               x == CASE ~Allowed("AVAILABILITY") -> Without("ERROR")
                      [] free = {} -> Without("EMPTY")
                      [] OTHER -> [status |-> "READY", slots |-> free]
    <3>1. x \in Shown /\ (x.slots = {} \/ x.slots = free)
      <4>1. free \subseteq Slot
        BY FreeAreSlots
      <4> HIDE DEF free
      <4>2. CASE x = Without("ERROR") \/ x = Without("EMPTY")
        BY <4>2 DEF Without, Shown
      <4>3. CASE x = [status |-> "READY", slots |-> free]
        BY <4>1, <4>3 DEF Shown
      <4> QED
        BY <4>2, <4>3
    <3>2. /\ calls' = (calls \ {c}) \cup {[c EXCEPT !.answer = x]}
          /\ UNCHANGED <<row, form, shown, asked, seen>>
      BY <2>1 DEF ServeAvailability, vars
    <3> HIDE DEF x
    <3> QED
      BY <3>1, <3>2, AnsweringAnswers
  <2>2. CASE ServePost \/ \E a \in strays : ServeStray(a)
    BY <2>2, WatchingAnswers DEF ServePost, ServeStray
  <2>3. ASSUME NEW a \in Limited, WindowEnds(a) PROVE QuestionInv'
    BY <2>3, StillAnswers DEF WindowEnds, vars
  <2> QED
    BY <1>4, <2>1, <2>2, <2>3 DEF ServerStep
<1>5. CASE Elsewhere
  BY <1>5, WatchingAnswers DEF Elsewhere
<1> QED
  BY <1>2, <1>3, <1>4, <1>5 DEF FormNext

(* Whatever questions, answers and other people's bookings overtake, the   *)
(* page offers only what was free, for what it asks, since it asked.       *)
THEOREM SlotsAnswerTheDayHolds == FormSpec => []SlotsAnswerTheDay
<1>1. QuestionInv => SlotsAnswerTheDay
  BY DEF QuestionInv
<1> QED
  BY <1>1, InitAnswers, NextAnswers, PTL DEF FormSpec

-----------------------------------------------------------------------------
(* Submissions.                                                            *)

LEMMA InitSubmits == FormInit => SubmissionInv
BY FS_EmptySet DEF FormInit, NothingSent, SubmissionInv

(* A key is drawn for what differs from the last attempt, and for nothing  *)
(* else.                                                                   *)
LEMMA SubmitCounts ==
  ASSUME QuestionInv, SubmissionInv, NEW k \in Key, Submit(k)
  PROVE  SubmissionInv'
<1> USE DEF SubmissionInv
<1>1. /\ form \in Payload
      /\ form.slot \in Slot
      /\ Answerable(form.question)
  <2>1. form.slot \in shown.slots /\ shown.status = "READY" /\ shown.slots \subseteq Slot
    BY DEF Submit, HasCurrentSlot, QuestionInv, QuestionShape, Shown
  <2> QED
    BY <2>1 DEF QuestionInv, QuestionShape, ReadyIsAnswerable
<1>2. /\ drawn' = drawn \cup {k}
      /\ attempt' = [payload |-> form, key |-> k]
      /\ stage' = "PENDING"
      /\ strays' = strays
      /\ changes' = IF attempt.payload = form THEN changes ELSE changes + 1
  BY DEF Submit, Dispatch
<1>3. attempt' \in Sent'
  BY <1>1, <1>2 DEF Sent
<1>4. strays' \subseteq Sent'
  BY <1>2 DEF Sent
<1>5. IsFiniteSet(drawn') /\ Cardinality(drawn) \in Nat
  BY <1>2, FS_AddElement, FS_CardinalityType
<1>6. CASE attempt.payload = form
  <2>1. attempt # NoAttempt
    BY <1>1, <1>6, BlankIsPayload, FormAssumption DEF NoAttempt
  <2>2. k = attempt.key
    BY <1>6, <2>1 DEF Submit, Resolved
  <2>3. k \in drawn
    BY <2>1, <2>2 DEF Sent
  <2>4. drawn' = drawn /\ changes' = changes
    BY <1>2, <1>6, <2>3
  <2> QED
    BY <1>2, <1>3, <1>4, <2>4
<1>7. CASE attempt.payload # form
  <2>1. k \notin drawn
    BY <1>7 DEF Submit, Resolved
  <2>2. Cardinality(drawn') = Cardinality(drawn) + 1
    BY <1>2, <2>1, FS_AddElement
  <2> QED
    BY <1>2, <1>3, <1>4, <1>5, <1>7, <2>2
<1> QED
  BY <1>6, <1>7

LEMMA NextSubmits ==
  QuestionInv /\ SubmissionInv /\ [FormNext]_formVars => SubmissionInv'
<1> SUFFICES ASSUME QuestionInv, SubmissionInv, [FormNext]_formVars
             PROVE  SubmissionInv'
  OBVIOUS
<1>1. ASSUME UNCHANGED sending PROVE SubmissionInv'
  BY <1>1 DEF sending, SubmissionInv, Sent
<1>2. CASE PageStep
  <2>1. CASE \/ \E q \in Question : Ask(q)
             \/ Retype
             \/ RetryAvailability
             \/ \E t \in Slot \cup {NoSlot} : Choose(t)
             \/ \E x \in Text : Write(x)
             \/ \E l \in Language : SelectLanguage(l)
             \/ \E c \in calls : LoseAvailability(c) \/ ReceiveAvailability(c)
    BY <1>1, <2>1
    DEF Ask, Put, Retype, RetryAvailability, Choose, Write, SelectLanguage,
        LoseAvailability, ReceiveAvailability
  <2>2. ASSUME NEW k \in Key, Submit(k) PROVE SubmissionInv'
    BY <2>2, SubmitCounts
  <2>3. CASE RetryOriginal
    BY <2>3 DEF RetryOriginal, Dispatch, SubmissionInv, Sent
  <2>4. CASE Edit
    BY <2>4 DEF Edit, SubmissionInv, Sent
  <2>5. CASE LosePost
    BY <2>5 DEF LosePost, SubmissionInv, Sent
  <2>6. CASE ReceivePost
    <3>1. stage = "PENDING" /\ attempt \in Sent
      BY <2>6 DEF ReceivePost, SubmissionInv, Answers
    <3>2. CASE post = "GRANTED"
      BY <2>6, <3>1, <3>2 DEF ReceivePost, SubmissionInv, Sent
    <3>3. CASE post # "GRANTED"
      BY <2>6, <3>1, <3>3 DEF ReceivePost, SubmissionInv, Sent
    <3> QED
      BY <3>2, <3>3
  <2> QED
    BY <1>2, <2>1, <2>2, <2>3, <2>4, <2>5, <2>6 DEF PageStep
<1>3. CASE ServerStep
  <2>1. CASE \/ \E c \in calls : ServeAvailability(c)
             \/ \E a \in Limited : WindowEnds(a)
    BY <1>1, <2>1 DEF ServeAvailability, WindowEnds
  <2>2. CASE ServePost
    BY <2>2 DEF ServePost, SubmissionInv, Sent
  <2>3. ASSUME NEW a \in strays, ServeStray(a) PROVE SubmissionInv'
    BY <2>3 DEF ServeStray, SubmissionInv, Sent
  <2> QED
    BY <1>3, <2>1, <2>2, <2>3 DEF ServerStep
<1>4. CASE Elsewhere
  BY <1>1, <1>4 DEF Elsewhere
<1>5. CASE UNCHANGED formVars
  BY <1>1, <1>5 DEF formVars
<1> QED
  BY <1>2, <1>3, <1>4, <1>5 DEF FormNext

(* However submissions are lost, repeated, refused and served late, the    *)
(* page has no more reservations than its guest made changes.              *)
THEOREM OneBookingPerChangeHolds == FormSpec => []OneBookingPerChange
<1>1. SubmissionInv => OneBookingPerChange
  <2> SUFFICES ASSUME SubmissionInv PROVE OneBookingPerChange
    OBVIOUS
  <2> DEFINE T == {claim[k] : k \in drawn}
             f == [k \in drawn |-> claim[k]]
  <2>1. f \in Surjection(drawn, T)
    BY DEF Surjection
  <2>2. /\ IsFiniteSet(T)
        /\ Cardinality(T) \in Nat
        /\ Cardinality(T) <= Cardinality(drawn)
    BY <2>1, FS_Surjection, FS_CardinalityType DEF SubmissionInv
  <2>3. /\ IsFiniteSet(T \ {NoReservation})
        /\ Cardinality(T \ {NoReservation}) <= Cardinality(T)
    BY <2>2, FS_Subset
  <2>4. /\ Cardinality(T \ {NoReservation}) \in Nat
        /\ Cardinality(drawn) \in Nat
    BY <2>3, FS_CardinalityType DEF SubmissionInv
  <2> HIDE DEF f
  <2> QED
    BY <2>2, <2>3, <2>4 DEF SubmissionInv, OneBookingPerChange
<1> QED
  BY <1>1, InitAnswers, NextAnswers, InitSubmits, NextSubmits, PTL DEF FormSpec

-----------------------------------------------------------------------------
(* The ledger behind the page.                                             *)

(* What the page sends asks for a time and for somebody.                   *)
LEMMA SentIsBookable ==
  ASSUME SubmissionInv, NEW a \in Sent
  PROVE  /\ a.key \in Key /\ a.key \in drawn
         /\ a.payload.question.service \in Service
         /\ a.payload.slot \in Slot
         /\ a.payload.question.party \in 1..MaxParty
<1>1. a.payload.question \in Question /\ a.payload.question.party > 0
  BY DEF Sent, Payload, Answerable
<1> QED
  BY <1>1, LedgerAssumption DEF Sent, SubmissionInv, Question

LEMMA BookingIsGrant ==
  ASSUME SubmissionInv, NEW a \in Sent, NEW answer, Create(a, answer)
  PROVE  Next \/ UNCHANGED vars
<1>1. CASE UNCHANGED vars
  BY <1>1
<1>2. ASSUME NEW r \in Reservation,
             Grant(a.key, r, a.payload.question.service, a.payload.slot,
                   a.payload.question.party, FALSE)
      PROVE  Next
  <2>1. FALSE \in BOOLEAN
    OBVIOUS
  <2> QED
    BY <1>2, <2>1, SentIsBookable DEF Next
<1> QED
  BY <1>1, <1>2 DEF Create, Book

LEMMA PageKeepsTheLedger ==
  SubmissionInv /\ [FormNext]_formVars => [Next]_vars
<1> SUFFICES ASSUME SubmissionInv, [FormNext]_formVars
             PROVE  Next \/ UNCHANGED vars
  OBVIOUS
<1>1. CASE PageStep
  BY <1>1
  DEF PageStep, Ask, Put, Retype, RetryAvailability, Choose, Write,
      SelectLanguage, LoseAvailability, ReceiveAvailability, Submit, Dispatch,
      RetryOriginal, Edit, LosePost, ReceivePost
<1>2. CASE ServerStep
  <2>1. CASE \/ \E c \in calls : ServeAvailability(c)
             \/ \E a \in Limited : WindowEnds(a)
    BY <2>1 DEF ServeAvailability, WindowEnds
  <2>2. CASE ServePost
    <3>1. attempt \in Sent
      BY <2>2 DEF ServePost, SubmissionInv
    <3> QED
      BY <2>2, <3>1, BookingIsGrant DEF ServePost
  <2>3. ASSUME NEW a \in strays, ServeStray(a) PROVE Next \/ UNCHANGED vars
    <3>1. a \in Sent
      BY DEF SubmissionInv
    <3> QED
      BY <2>3, <3>1, BookingIsGrant DEF ServeStray
  <2> QED
    BY <1>2, <2>1, <2>2, <2>3 DEF ServerStep
<1>3. CASE Elsewhere
  <2>1. \A K \in SUBSET (Key \ drawn) : K \in SUBSET Key
    OBVIOUS
  <2>2. \A k \in Key \ drawn : k \in Key
    OBVIOUS
  <2> QED
    BY <1>3, <2>1, <2>2 DEF Elsewhere, Next
<1>4. CASE UNCHANGED formVars
  BY <1>4 DEF formVars
<1> QED
  BY <1>1, <1>2, <1>3, <1>4 DEF FormNext

(* The page, its lost and late requests included, does to the ledger only  *)
(* what the ledger allows anybody.                                         *)
THEOREM PageIsALedger == FormSpec => Spec
<1>1. FormInit => Init
  BY DEF FormInit, NothingSent
<1> QED
  BY <1>1, InitAnswers, NextAnswers, InitSubmits, NextSubmits,
     PageKeepsTheLedger, PTL DEF FormSpec, Spec

(* So, with the page beside them, regular covers stay within the limit.    *)
THEOREM PageKeepsTheLimit == FormSpec => []RegularWithinLimit
BY PageIsALedger, LimitHolds, PTL

(* Once a key of the page has its reservation, nothing gives the key       *)
(* another one: a repeated, late or stray submission is answered by it     *)
(* (the idempotency branch of createPublicReservation, the life of a key   *)
(* being longer than the page's).                                          *)
AnswersStay ==
  [][\A k \in drawn : claim[k] # NoReservation => claim'[k] = claim[k]]_formVars

THEOREM AnswersStayHolds == FormSpec => AnswersStay
<1>1. ASSUME SubmissionInv, [FormNext]_formVars
      PROVE  [\A k \in drawn :
                claim[k] # NoReservation => claim'[k] = claim[k]]_formVars
  <2> SUFFICES ASSUME NEW k \in drawn, claim[k] # NoReservation, FormNext
               PROVE  claim'[k] = claim[k]
    BY <1>1
  <2>1. k \in Key
    BY <1>1 DEF SubmissionInv
  <2>2. ASSUME UNCHANGED vars PROVE claim'[k] = claim[k]
    BY <2>2 DEF vars
  <2>3. ASSUME NEW l, NEW r, NEW s, NEW t, NEW p, NEW o, Grant(l, r, s, t, p, o)
        PROVE  claim'[k] = claim[k]
    BY <2>3 DEF Grant
  <2>4. ASSUME NEW a, NEW answer, Create(a, answer) PROVE claim'[k] = claim[k]
    BY <2>2, <2>3, <2>4 DEF Create, Book
  <2>5. CASE PageStep
    BY <2>2, <2>5
    DEF PageStep, Ask, Put, Retype, RetryAvailability, Choose, Write,
        SelectLanguage, LoseAvailability, ReceiveAvailability, Submit, Dispatch,
        RetryOriginal, Edit, LosePost, ReceivePost
  <2>6. CASE ServerStep
    BY <2>2, <2>4, <2>6
    DEF ServerStep, ServeAvailability, WindowEnds, ServePost, ServeStray
  <2>7. CASE Elsewhere
    <3>1. ASSUME NEW K \in SUBSET (Key \ drawn), Forget(K)
          PROVE  claim'[k] = claim[k]
      BY <2>1, <3>1 DEF Forget
    <3>2. ASSUME NEW r, NEW s, NEW t, NEW p, NEW o, Amend(r, s, t, p, o)
          PROVE  claim'[k] = claim[k]
      BY <3>2 DEF Amend
    <3> QED
      BY <2>3, <2>7, <3>1, <3>2 DEF Elsewhere, Annotate, Cancel
  <2> QED
    BY <2>5, <2>6, <2>7 DEF FormNext
<1> QED
  BY <1>1, InitAnswers, NextAnswers, InitSubmits, NextSubmits, PTL
  DEF FormSpec, AnswersStay

-----------------------------------------------------------------------------
(* II. The server: what a document shows.                                  *)

(* Lists: sequences of whatever it is.                                     *)
IsList(s) == \E S : s \in Seq(S)

LEMMA EmptyIsAList == IsList(<< >>) /\ DOMAIN << >> = {} /\ Len(<< >>) = 0
<1>1. << >> \in Seq({})
  OBVIOUS
<1> QED
  BY <1>1 DEF IsList

LEMMA ListsHaveALength ==
  ASSUME NEW s, IsList(s)
  PROVE  Len(s) \in Nat /\ DOMAIN s = 1..Len(s)
BY DEF IsList

LEMMA ListsGrow ==
  ASSUME NEW s, NEW e, IsList(s)
  PROVE  /\ IsList(Append(s, e))
         /\ Len(Append(s, e)) = Len(s) + 1
         /\ Len(s) + 1 \in DOMAIN Append(s, e)
         /\ DOMAIN Append(s, e) = DOMAIN s \cup {Len(s) + 1}
         /\ Append(s, e)[Len(s) + 1] = e
         /\ \A i \in DOMAIN s : Append(s, e)[i] = s[i] /\ i # Len(s) + 1
<1>1. PICK S : s \in Seq(S)
  BY DEF IsList
<1>2. s \in Seq(S \cup {e}) /\ e \in S \cup {e}
  BY <1>1
<1>3. Append(s, e) \in Seq(S \cup {e})
  BY <1>2
<1> QED
  BY <1>2, <1>3 DEF IsList

LEMMA ListsAreReplaced ==
  ASSUME NEW s, IsList(s), NEW t, t = [i \in DOMAIN s |-> t[i]]
  PROVE  IsList(t) /\ DOMAIN t = DOMAIN s /\ Len(t) = Len(s)
<1> DEFINE T == {t[i] : i \in DOMAIN s}
<1>1. Len(s) \in Nat /\ DOMAIN s = 1..Len(s)
  BY ListsHaveALength
<1>2. t \in [1..Len(s) -> T]
  BY <1>1
<1>3. t \in Seq(T) /\ Len(t) = Len(s)
  BY <1>1, <1>2
<1> QED
  BY <1>1, <1>3 DEF IsList

LEMMA ListsAreUpdated ==
  ASSUME NEW s, IsList(s), NEW i \in DOMAIN s, NEW e
  PROVE  LET t == [s EXCEPT ![i] = e]
         IN  /\ IsList(t) /\ DOMAIN t = DOMAIN s /\ Len(t) = Len(s)
             /\ t[i] = e /\ \A j \in DOMAIN s : j # i => t[j] = s[j]
<1> DEFINE t == [s EXCEPT ![i] = e]
<1>1. PICK S : s \in Seq(S)
  BY DEF IsList
<1>2. s \in Seq(S \cup {e}) /\ e \in S \cup {e}
  BY <1>1
<1>3. t \in Seq(S \cup {e})
  BY <1>2
<1> QED
  BY <1>2, <1>3 DEF IsList

-----------------------------------------------------------------------------
(* A document and the moment it shows.                                     *)
Places == [Booking -> Place \cup {Gone}]

RequestFields == {"kind", "room", "of", "carried", "stage", "seen", "legacy",
                  "audit", "reply", "moments"}

ShowsAMoment(q, reply) ==
  /\ reply.is # "inconsistent"
  /\ reply.is = "document" =>
       \E m \in q.moments : reply.document = Document(q, InUse(m), m)

(* What is known of a request while the book is b.                         *)
InOrder(q, b) ==
  q.stage # "over" =>
    /\ DOMAIN q = RequestFields
    /\ q.stage \in {"sent", "admitted", "reading"} =>
         b \in q.moments /\ q.reply = Nothing
    /\ q.stage = "reading" =>
         /\ q.seen \in q.moments /\ q.seen \in Places
         /\ q.legacy = InUse(q.seen)
    /\ q.stage = "made" => q.reply.is = "document"
    /\ q.stage = "failed" => q.reply.is \in {"none", "failed"}
    /\ q.stage \in {"made", "answered"} => ShowsAMoment(q, q.reply)

DocumentsInOrder ==
  /\ book \in Places
  /\ IsList(requests)
  /\ \A r \in DOMAIN requests : InOrder(requests[r], book)

(* The document depends on what is asked for, not on how far it is.        *)
LEMMA SameDocument ==
  ASSUME NEW q, NEW w, w.kind = q.kind, w.room = q.room, NEW legacy, NEW m
  PROVE  Document(w, legacy, m) = Document(q, legacy, m)
BY DEF Document, Groups, Selected

(* A snapshot read whole is never taken for inconsistent.                  *)
LEMMA SnapshotsAreConsistent ==
  ASSUME NEW q, NEW m \in Places
  PROVE  Consistent(q, InUse(m), m)
<1> SUFFICES ASSUME NEW b \in Selected(q, m)
             PROVE  m[b] \in Groups(q, InUse(m))
  BY DEF Consistent
<1>1. b \in Booking /\ m[b] \in Place /\ q.room \in {All, m[b]}
  BY DEF Selected, Places
<1>2. CASE q.kind = "M11"
  BY <1>1, <1>2 DEF Groups
<1>3. CASE q.kind # "M11" /\ q.room = All
  BY <1>1, <1>3 DEF Groups, InUse
<1>4. CASE q.kind # "M11" /\ q.room # All
  BY <1>1, <1>4 DEF Groups
<1> QED
  BY <1>2, <1>3, <1>4

(* A request that moves on, and shows no less.                             *)
LEMMA OneRequestMoves ==
  ASSUME DocumentsInOrder, NEW r \in DOMAIN requests, NEW q, InOrder(q, book),
         requests' = [requests EXCEPT ![r] = q], UNCHANGED book
  PROVE  DocumentsInOrder'
<1>1. /\ IsList(requests') /\ DOMAIN requests' = DOMAIN requests
      /\ requests'[r] = q
      /\ \A s \in DOMAIN requests : s # r => requests'[s] = requests[s]
  BY ListsAreUpdated DEF DocumentsInOrder
<1>2. \A s \in DOMAIN requests : InOrder(requests'[s], book)
  BY <1>1 DEF DocumentsInOrder
<1> QED
  BY <1>1, <1>2 DEF DocumentsInOrder, Places

LEMMA SpentInOrder == ASSUME NEW b PROVE InOrder(Spent, b)
BY DEF Spent, InOrder

(* Of the replies only a document is one.                                  *)
LEMMA OtherReplies ==
  ASSUME NEW q, NEW x \in {Denied, Down, [is |-> "failed"]}
  PROVE  ShowsAMoment(q, x)
BY DEF ShowsAMoment, Denied, Down

LEMMA AnsweredInOrder ==
  ASSUME NEW q, NEW answer, NEW b, DOMAIN q = RequestFields,
         ShowsAMoment(q, answer)
  PROVE  \A x \in {answer, Down} :
           InOrder([q EXCEPT !.stage = "answered", !.reply = x], b)
<1> TAKE x \in {answer, Down}
<1> DEFINE w == [q EXCEPT !.stage = "answered", !.reply = x]
<1>1. /\ DOMAIN w = RequestFields /\ w.stage = "answered" /\ w.reply = x
      /\ w.kind = q.kind /\ w.room = q.room /\ w.moments = q.moments
  BY DEF RequestFields
<1> HIDE DEF w
<1>2. ShowsAMoment(q, x)
  BY OtherReplies
<1>3. ShowsAMoment(w, x)
  <2>1. \A m : Document(w, InUse(m), m) = Document(q, InUse(m), m)
    BY <1>1, SameDocument
  <2> QED
    BY <1>1, <1>2, <2>1 DEF ShowsAMoment
<1>4. InOrder(w, b)
  BY <1>1, <1>3 DEF InOrder
<1> QED
  BY <1>4 DEF w

LEMMA AnswersKeep ==
  ASSUME DocumentsInOrder, NEW r \in DOMAIN requests, NEW q, NEW answer,
         DOMAIN q = RequestFields, ShowsAMoment(q, answer),
         AnswersWith(r, q, answer)
  PROVE  DocumentsInOrder'
<1>1. PICK x \in {answer, Down} :
        requests' = [requests EXCEPT
                       ![r] = [q EXCEPT !.stage = "answered", !.reply = x]]
  BY DEF AnswersWith
<1>2. InOrder([q EXCEPT !.stage = "answered", !.reply = x], book)
  BY AnsweredInOrder
<1>3. UNCHANGED book
  BY DEF AnswersWith, Serves
<1> QED
  BY <1>1, <1>2, <1>3, OneRequestMoves

LEMMA GoesOn ==
  ASSUME DocumentsInOrder, NEW r \in DOMAIN requests, NEW q, InOrder(q, book), Goes(r, q)
  PROVE  DocumentsInOrder'
BY OneRequestMoves DEF Goes, Serves

LEMMA AdmitKeeps ==
  ASSUME DocumentsInOrder, NEW r \in DOMAIN requests, Admit(r)
  PROVE  DocumentsInOrder'
<1> DEFINE q == requests[r]
<1>1. InOrder(q, book) /\ q.stage = "sent"
  BY DEF DocumentsInOrder, Admit
<1>2. \/ AnswersWith(r, q, Denied)
      \/ Goes(r, [q EXCEPT !.stage = "admitted"])
      \/ Goes(r, [q EXCEPT !.stage = "failed"])
  BY DEF Admit
<1> HIDE DEF q
<1>3. DOMAIN q = RequestFields /\ book \in q.moments /\ q.reply = Nothing
  BY <1>1 DEF InOrder
<1>4. InOrder([q EXCEPT !.stage = "admitted"], book)
  BY <1>3 DEF InOrder, RequestFields
<1>5. InOrder([q EXCEPT !.stage = "failed"], book)
  BY <1>3 DEF InOrder, RequestFields, Nothing
<1>6. ShowsAMoment(q, Denied)
  BY OtherReplies
<1> QED
  BY <1>2, <1>3, <1>4, <1>5, <1>6, AnswersKeep, GoesOn

LEMMA ReadContextKeeps ==
  ASSUME DocumentsInOrder, NEW r \in DOMAIN requests, ReadContext(r)
  PROVE  DocumentsInOrder'
<1> DEFINE q == requests[r]
           w == [q EXCEPT !.stage = "reading", !.seen = book,
                          !.legacy = InUse(book)]
<1>1. InOrder(q, book) /\ q.stage = "admitted" /\ book \in Places
  BY DEF DocumentsInOrder, ReadContext
<1>2. AnswersWith(r, q, Denied) \/ Goes(r, w)
  BY DEF ReadContext
<1>3. DOMAIN q = RequestFields /\ book \in q.moments /\ q.reply = Nothing
  BY <1>1 DEF InOrder
<1> HIDE DEF q
<1>4. /\ DOMAIN w = RequestFields /\ w.stage = "reading" /\ w.seen = book
      /\ w.legacy = InUse(book) /\ w.moments = q.moments /\ w.reply = q.reply
  BY <1>3 DEF RequestFields
<1> HIDE DEF w
<1>5. InOrder(w, book)
  BY <1>1, <1>3, <1>4 DEF InOrder
<1>6. ShowsAMoment(q, Denied)
  BY OtherReplies
<1> QED
  BY <1>2, <1>3, <1>5, <1>6, AnswersKeep, GoesOn

(* What is composed is the moment of the snapshot: the branch for bookings *)
(* that do not fit together is never taken.                                *)
LEMMA ComposeKeeps ==
  ASSUME DocumentsInOrder, NEW r \in DOMAIN requests, Compose(r)
  PROVE  DocumentsInOrder'
<1> DEFINE q == requests[r]
           made == [is |-> "document",
                    document |-> Document(q, q.legacy, Snapshot(r))]
           failed == [is |-> "failed"]
           v == [q EXCEPT !.stage = "made", !.reply = made]
           w == [q EXCEPT !.stage = "failed", !.reply = failed]
<1>1. InOrder(q, book) /\ q.stage = "reading"
  BY DEF DocumentsInOrder, Compose
<1>2. /\ DOMAIN q = RequestFields /\ q.seen \in q.moments /\ q.seen \in Places
      /\ q.legacy = InUse(q.seen)
  BY <1>1 DEF InOrder
<1>3. Snapshot(r) = q.seen
  BY DEF Snapshot
<1>4. Consistent(q, q.legacy, Snapshot(r))
  BY <1>2, <1>3, SnapshotsAreConsistent
<1>5. \/ AnswersWith(r, q, made) \/ AnswersWith(r, q, failed)
      \/ Goes(r, v) \/ Goes(r, w)
  BY <1>4 DEF Compose
<1>6. ShowsAMoment(q, made) /\ made.is = "document"
  BY <1>2, <1>3 DEF ShowsAMoment
<1>7. ShowsAMoment(q, failed) /\ failed.is = "failed"
  BY OtherReplies
<1> HIDE DEF q, made, failed
<1>8. InOrder(v, book)
  <2>1. /\ DOMAIN v = RequestFields /\ v.stage = "made" /\ v.reply = made
        /\ v.kind = q.kind /\ v.room = q.room /\ v.moments = q.moments
    BY <1>2 DEF RequestFields
  <2> HIDE DEF v
  <2>2. \A m : Document(v, InUse(m), m) = Document(q, InUse(m), m)
    BY <2>1, SameDocument
  <2>3. ShowsAMoment(v, v.reply)
    BY <1>6, <2>1, <2>2 DEF ShowsAMoment
  <2> QED
    BY <1>6, <2>1, <2>3 DEF InOrder
<1>9. InOrder(w, book)
  <2>1. DOMAIN w = RequestFields /\ w.stage = "failed" /\ w.reply = failed
    BY <1>2 DEF RequestFields
  <2> HIDE DEF w
  <2> QED
    BY <1>7, <2>1 DEF InOrder
<1> QED
  BY <1>2, <1>5, <1>6, <1>7, <1>8, <1>9, AnswersKeep, GoesOn

LEMMA AuditSuccessKeeps ==
  ASSUME DocumentsInOrder, NEW r \in DOMAIN requests, AuditSuccess(r)
  PROVE  DocumentsInOrder'
<1> DEFINE q == requests[r]
<1>1. InOrder(q, book) /\ q.stage = "made"
  BY DEF DocumentsInOrder, AuditSuccess
<1>2. DOMAIN q = RequestFields /\ ShowsAMoment(q, q.reply)
  BY <1>1 DEF InOrder
<1>3. \/ AnswersWith(r, q, Denied)
      \/ \E audit \in {"SUCCESS", "none"} :
           LET w == [q EXCEPT !.audit = audit]
           IN  AnswersWith(r, w, IF OnRecord(w) THEN q.reply ELSE [is |-> "failed"])
  BY DEF AuditSuccess
<1>4. ShowsAMoment(q, Denied)
  BY OtherReplies
<1>5. CASE AnswersWith(r, q, Denied)
  BY <1>2, <1>4, <1>5, AnswersKeep
<1>6. ASSUME NEW audit,
             LET w == [q EXCEPT !.audit = audit]
             IN  AnswersWith(r, w, IF OnRecord(w) THEN q.reply ELSE [is |-> "failed"])
      PROVE  DocumentsInOrder'
  <2> DEFINE w == [q EXCEPT !.audit = audit]
             answer == IF OnRecord(w) THEN q.reply ELSE [is |-> "failed"]
  <2>1. AnswersWith(r, w, answer)
    BY <1>6
  <2> HIDE DEF q
  <2>2. /\ DOMAIN w = RequestFields
        /\ w.kind = q.kind /\ w.room = q.room /\ w.moments = q.moments
    BY <1>2 DEF RequestFields
  <2>3. answer \in {q.reply, [is |-> "failed"]}
    OBVIOUS
  <2> HIDE DEF w, answer
  <2>4. \A m : Document(w, InUse(m), m) = Document(q, InUse(m), m)
    BY <2>2, SameDocument
  <2>5. ShowsAMoment(w, q.reply) /\ ShowsAMoment(w, [is |-> "failed"])
    BY <1>2, <2>2, <2>4, OtherReplies DEF ShowsAMoment
  <2>6. ShowsAMoment(w, answer)
    BY <2>3, <2>5
  <2> QED
    BY <2>1, <2>2, <2>6, AnswersKeep
<1> QED
  BY <1>3, <1>5, <1>6

LEMMA AuditFailureKeeps ==
  ASSUME DocumentsInOrder, NEW r \in DOMAIN requests, AuditFailure(r)
  PROVE  DocumentsInOrder'
<1> DEFINE q == requests[r]
<1>1. InOrder(q, book) /\ q.stage = "failed"
  BY DEF DocumentsInOrder, AuditFailure
<1>2. DOMAIN q = RequestFields /\ q.reply.is \in {"none", "failed"}
  BY <1>1 DEF InOrder
<1>3. \/ AnswersWith(r, q, Denied)
      \/ \E audit \in {"FAILURE", "none"} :
           AnswersWith(r, [q EXCEPT !.audit = audit],
                       IF q.reply = Nothing \/ audit = "none"
                         THEN [is |-> "failed"] ELSE q.reply)
  BY DEF AuditFailure
<1>4. ShowsAMoment(q, Denied)
  BY OtherReplies
<1>5. CASE AnswersWith(r, q, Denied)
  BY <1>2, <1>4, <1>5, AnswersKeep
<1>6. ASSUME NEW audit,
             AnswersWith(r, [q EXCEPT !.audit = audit],
                         IF q.reply = Nothing \/ audit = "none"
                           THEN [is |-> "failed"] ELSE q.reply)
      PROVE  DocumentsInOrder'
  <2> DEFINE w == [q EXCEPT !.audit = audit]
             answer == IF q.reply = Nothing \/ audit = "none"
                         THEN [is |-> "failed"] ELSE q.reply
  <2>1. AnswersWith(r, w, answer)
    BY <1>6
  <2> HIDE DEF q
  <2>2. DOMAIN w = RequestFields
    BY <1>2 DEF RequestFields
  <2>3. answer.is \in {"none", "failed"}
    BY <1>2
  <2> HIDE DEF w, answer
  <2>4. ShowsAMoment(w, answer)
    BY <2>3 DEF ShowsAMoment
  <2> QED
    BY <2>1, <2>2, <2>4, AnswersKeep
<1> QED
  BY <1>3, <1>5, <1>6

(* A change of the book is one more moment of what is being served.        *)
LEMMA BookChangesKeeps ==
  ASSUME DocumentsInOrder, BookChanges
  PROVE  DocumentsInOrder'
<1> DEFINE over(q) == q.stage \in {"over", "answered"}
           later(q) == [q EXCEPT !.moments = @ \cup {book'}]
<1>1. PICK b \in Booking, p \in Place \cup {Gone} : book' = [book EXCEPT ![b] = p]
  BY DEF BookChanges
<1>2. book' \in Places
  BY <1>1 DEF DocumentsInOrder, Places
<1>3. requests' = [r \in DOMAIN requests |->
                     IF over(requests[r]) THEN requests[r] ELSE later(requests[r])]
  BY DEF BookChanges
<1>4. IsList(requests') /\ DOMAIN requests' = DOMAIN requests
  BY <1>3, ListsAreReplaced DEF DocumentsInOrder
<1>5. ASSUME NEW q, InOrder(q, book)
      PROVE  InOrder(IF over(q) THEN q ELSE later(q), book')
  <2>1. CASE over(q)
    BY <1>5, <2>1 DEF InOrder
  <2>2. CASE ~over(q)
    <3> DEFINE w == later(q)
    <3>1. DOMAIN q = RequestFields
      BY <1>5, <2>2 DEF InOrder
    <3>2. /\ DOMAIN w = RequestFields /\ w.kind = q.kind /\ w.room = q.room
          /\ w.stage = q.stage /\ w.seen = q.seen /\ w.legacy = q.legacy
          /\ w.reply = q.reply /\ w.moments = q.moments \cup {book'}
      BY <3>1 DEF RequestFields
    <3> HIDE DEF w
    <3>3. \A m : Document(w, InUse(m), m) = Document(q, InUse(m), m)
      BY <3>2, SameDocument
    <3>4. ShowsAMoment(q, q.reply) => ShowsAMoment(w, w.reply)
      BY <3>2, <3>3 DEF ShowsAMoment
    <3>5. InOrder(w, book')
      BY <1>5, <2>2, <3>2, <3>4 DEF InOrder
    <3> QED
      BY <2>2, <3>5 DEF w
  <2> QED
    BY <2>1, <2>2
<1> HIDE DEF over, later
<1>6. \A r \in DOMAIN requests : InOrder(requests'[r], book')
  BY <1>3, <1>5 DEF DocumentsInOrder
<1> QED
  BY <1>2, <1>4, <1>6 DEF DocumentsInOrder, Places

LEMMA SpentKeep ==
  ASSUME DocumentsInOrder, UNCHANGED book,
         requests' = [r \in DOMAIN requests |-> requests'[r]],
         \A r \in DOMAIN requests : requests'[r] \in {Spent, requests[r]}
  PROVE  DocumentsInOrder'
<1>1. IsList(requests') /\ DOMAIN requests' = DOMAIN requests
  BY ListsAreReplaced DEF DocumentsInOrder
<1>2. \A r \in DOMAIN requests : InOrder(requests'[r], book)
  BY SpentInOrder DEF DocumentsInOrder
<1> QED
  BY <1>1, <1>2 DEF DocumentsInOrder, Places

LEMMA RequestedKeeps ==
  ASSUME DocumentsInOrder, UNCHANGED book, NEW kind, NEW room, NEW of,
         requests' = Append(requests, Requested(kind, room, of))
  PROVE  DocumentsInOrder'
<1>1. InOrder(Requested(kind, room, of), book)
  BY DEF InOrder, Requested, RequestFields
<1>2. \A r \in DOMAIN requests' : InOrder(requests'[r], book)
  BY <1>1, ListsGrow DEF DocumentsInOrder
<1> QED
  BY <1>2, ListsGrow DEF DocumentsInOrder, Places

LEMMA DisturbsSpends ==
  ASSUME NEW away, Disturbs(away)
  PROVE  /\ UNCHANGED book
         /\ requests' = [r \in DOMAIN requests |-> requests'[r]]
         /\ \A r \in DOMAIN requests : requests'[r] \in {Spent, requests[r]}
<1> DEFINE spent(r) == \/ DocumentReplaced
                       \/ /\ Hears(r) /\ Remaining(away) = Idle
                          /\ panel.intent.kind # "M11"
<1>1. requests' = [r \in DOMAIN requests |->
                     IF spent(r) THEN Spent ELSE requests[r]]
  BY DEF Disturbs
<1> HIDE DEF spent
<1> QED
  BY <1>1 DEF Disturbs

(* A step of the panel asks for one more, puts what it asked for away, or  *)
(* leaves it as it is.                                                     *)
LEMMA PanelSteps ==
  ASSUME \/ \E p \in Proof : PanelProved(p) \/ PanelNotProved(p)
         \/ \E kind \in ExportKind, room \in Selection : Begin(kind, room)
         \/ \E r \in DOMAIN requests : Answered(r)
         \/ Reselect
  PROVE  /\ UNCHANGED book
         /\ \/ UNCHANGED requests
            \/ \E kind, room, of :
                 requests' = Append(requests, Requested(kind, room, of))
            \/ /\ requests' = [r \in DOMAIN requests |-> requests'[r]]
               /\ \A r \in DOMAIN requests :
                    requests'[r] \in {Spent, requests[r]}
<1> DEFINE Goal == /\ UNCHANGED book
                   /\ \/ UNCHANGED requests
                      \/ \E kind, room, of :
                           requests' = Append(requests, Requested(kind, room, of))
                      \/ /\ requests' = [r \in DOMAIN requests |-> requests'[r]]
                         /\ \A r \in DOMAIN requests :
                              requests'[r] \in {Spent, requests[r]}
<1>1. ASSUME NEW n, UNCHANGED book, requests' = [requests EXCEPT ![n] = Spent]
      PROVE  Goal
  BY <1>1
<1>2. ASSUME NEW p \in Proof, PanelProved(p)
      PROVE  Goal
  <2>1. UNCHANGED book
    BY <1>2 DEF PanelProved, Rest
  <2>2. \/ UNCHANGED requests
        \/ \E kind, room, of :
             requests' = Append(requests, Requested(kind, room, of))
        \/ \E n : requests' = [requests EXCEPT ![n] = Spent]
    BY <1>2, Zenon DEF PanelProved
  <2> QED
    BY <1>1, <2>1, <2>2
<1>3. ASSUME NEW p \in Proof, PanelNotProved(p)
      PROVE  Goal
  <2>1. UNCHANGED book
    BY <1>3 DEF PanelNotProved, Rest
  <2>2. \/ UNCHANGED requests
        \/ \E n : requests' = [requests EXCEPT ![n] = Spent]
    BY <1>3 DEF PanelNotProved
  <2> QED
    BY <1>1, <2>1, <2>2
<1>4. ASSUME NEW kind \in ExportKind, NEW room \in Selection, Begin(kind, room)
      PROVE  Goal
  BY <1>4 DEF Begin, Rest
<1>5. ASSUME NEW r \in DOMAIN requests, Answered(r)
      PROVE  Goal
  <2>1. UNCHANGED book
    BY <1>5 DEF Answered, Rest
  <2>2. UNCHANGED requests \/ requests' = [requests EXCEPT ![r] = Spent]
    BY <1>5 DEF Answered
  <2> QED
    BY <1>1, <2>1, <2>2
<1>6. CASE Reselect
  <2>1. UNCHANGED book
    BY <1>6 DEF Reselect, Rest
  <2> DEFINE spent(r) == Hears(r) /\ panel.intent.kind # "M11"
  <2>2. requests' = [r \in DOMAIN requests |->
                       IF spent(r) THEN Spent ELSE requests[r]]
    BY <1>6 DEF Reselect
  <2> HIDE DEF spent
  <2> QED
    BY <2>1, <2>2
<1> QED
  BY <1>2, <1>3, <1>4, <1>5, <1>6

LEMMA InitShowsMoments == ExportInit => DocumentsInOrder
<1> SUFFICES ASSUME ExportInit
             PROVE  DocumentsInOrder
  OBVIOUS
<1>1. book \in Places
  BY DEF ExportInit, Places, Place
<1>2. requests = << >>
  BY DEF ExportInit
<1> QED
  BY <1>1, <1>2, EmptyIsAList DEF DocumentsInOrder

LEMMA NextShowsMoments ==
  DocumentsInOrder /\ [ExportNext]_<<draftVars, exportVars>> => DocumentsInOrder'
<1> SUFFICES ASSUME DocumentsInOrder, [ExportNext]_<<draftVars, exportVars>>
             PROVE  DocumentsInOrder'
  OBVIOUS
<1>1. ASSUME UNCHANGED <<book, requests>>
      PROVE  DocumentsInOrder'
  BY <1>1 DEF DocumentsInOrder, Places, Place
<1>2. ASSUME NEW away, Disturbs(away)
      PROVE  DocumentsInOrder'
  BY <1>2, DisturbsSpends, SpentKeep
<1>3. ASSUME \/ \E p \in Proof : PanelProved(p) \/ PanelNotProved(p)
             \/ \E kind \in ExportKind, room \in Selection : Begin(kind, room)
             \/ \E r \in DOMAIN requests : Answered(r)
             \/ Reselect
      PROVE  DocumentsInOrder'
  <2> HIDE DEF Requested, Spent
  <2>1. \/ UNCHANGED <<book, requests>>
        \/ \E kind, room, of :
             /\ UNCHANGED book
             /\ requests' = Append(requests, Requested(kind, room, of))
        \/ /\ UNCHANGED book
           /\ requests' = [r \in DOMAIN requests |-> requests'[r]]
           /\ \A r \in DOMAIN requests : requests'[r] \in {Spent, requests[r]}
    BY <1>3, PanelSteps
  <2> QED
    BY <1>1, <2>1, RequestedKeeps, SpentKeep
<1>4. ASSUME NEW r \in DOMAIN requests,
             \/ Admit(r) \/ ReadContext(r) \/ Compose(r)
             \/ AuditSuccess(r) \/ AuditFailure(r)
      PROVE  DocumentsInOrder'
  BY <1>4, AdmitKeeps, ReadContextKeeps, ComposeKeeps, AuditSuccessKeeps,
     AuditFailureKeeps
<1>5. CASE BookChanges
  BY <1>5, BookChangesKeeps
<1>6. CASE UNCHANGED <<draftVars, exportVars>>
  BY <1>1, <1>6 DEF exportVars
<1> QED
  BY <1>2, <1>3, <1>4, <1>5, <1>6 DEF ExportNext, Serving

(* Whatever is seated, moved or withdrawn while a document is made, it     *)
(* shows one moment, and no snapshot is taken for inconsistent             *)
(* (readExportContext, composeServiceExport).                              *)
THEOREM ADocumentIsOneMomentHolds == ExportSpec => []ADocumentIsOneMoment
<1>1. DocumentsInOrder => ADocumentIsOneMoment
  <2> SUFFICES ASSUME DocumentsInOrder, NEW r \in DOMAIN requests,
                      requests[r].stage = "answered"
               PROVE  ShowsAMoment(requests[r], requests[r].reply)
    BY DEF ADocumentIsOneMoment, ShowsAMoment
  <2>1. InOrder(requests[r], book)
    BY DEF DocumentsInOrder
  <2> QED
    BY <2>1 DEF InOrder
<1> QED
  BY <1>1, InitShowsMoments, NextShowsMoments, PTL DEF ExportSpec

-----------------------------------------------------------------------------
(* III. The host: what drafts and exports share.                           *)

(* A step of the panel is one of the host's, or none.                      *)
Aside ==
  /\ UNCHANGED <<Outside, attempts>>
  /\ \/ UNCHANGED tab
     \/ CanVerify(tab) /\ tab' = Verifying(tab, "none")
     \/ tab' = Quarantined(tab)

LEMMA HostSteps ==
  ASSUME [ExportNext]_<<draftVars, exportVars>>
  PROVE  \/ Aside
         \/ Otherwise \/ PageHide
         \/ \E p \in Proof :
              /\ Holds(p)
              /\ \/ Concludes(p, Verified(p))
                 \/ Concludes(p, Quarantined(Verified(p)))
         \/ \E p \in Proof :
              /\ ~Holds(p)
              /\ \/ Concludes(p, NotVerified(p))
                 \/ Concludes(p, Quarantined(NotVerified(p)))
<1>1. ASSUME NEW p \in Proof, PanelProved(p)
      PROVE  /\ Holds(p)
             /\ \/ Concludes(p, Verified(p))
                \/ Concludes(p, Quarantined(Verified(p)))
  BY <1>1, Zenon DEF PanelProved
<1>2. ASSUME NEW p \in Proof, PanelNotProved(p)
      PROVE  /\ ~Holds(p)
             /\ \/ Concludes(p, NotVerified(p))
                \/ Concludes(p, Quarantined(NotVerified(p)))
  <2>1. ~Holds(p)
    BY <1>2 DEF PanelNotProved
  <2>2. \E b \in BOOLEAN :
          Concludes(p, IF b THEN Quarantined(NotVerified(p)) ELSE NotVerified(p))
    <3> DEFINE final == Awaits(p) /\ panel.intent.stage = "confirm"
    <3>1. Concludes(p, IF final THEN Quarantined(NotVerified(p)) ELSE NotVerified(p))
      BY <1>2, Zenon DEF PanelNotProved
    <3>2. CASE final
      BY <3>1, <3>2
    <3>3. CASE ~final
      BY <3>1, <3>3
    <3> QED
      BY <3>2, <3>3
  <2> QED
    BY <2>1, <2>2
<1>3. ASSUME Serving \/ BookChanges \/ Reselect \/ UNCHANGED <<draftVars, exportVars>>
      PROVE  Aside
  <2>1. CASE BookChanges
    BY <2>1 DEF BookChanges, Aside, Outside, Served
  <2>2. CASE Reselect \/ UNCHANGED <<draftVars, exportVars>>
    BY <2>2 DEF Reselect, Aside, Outside, Served, draftVars
  <2>3. ASSUME Serves PROVE Aside
    BY <2>3 DEF Serves, Aside, Outside, Served
  <2>4. ASSUME NEW r, NEW q, NEW answer, AnswersWith(r, q, answer) PROVE Serves
    BY <2>4 DEF AnswersWith
  <2>5. ASSUME NEW r, NEW q, Goes(r, q) PROVE Serves
    BY <2>5 DEF Goes
  <2>6. ASSUME NEW r \in DOMAIN requests,
               \/ Admit(r) \/ ReadContext(r) \/ Compose(r)
               \/ AuditSuccess(r) \/ AuditFailure(r)
        PROVE  Serves
    <3>1. CASE Admit(r)
      BY <2>4, <2>5, <3>1 DEF Admit
    <3>2. CASE ReadContext(r)
      BY <2>4, <2>5, <3>2 DEF ReadContext
    <3>3. CASE Compose(r)
      BY <2>4, <2>5, <3>3 DEF Compose
    <3>4. CASE AuditSuccess(r)
      BY <2>4, <2>5, <3>4 DEF AuditSuccess
    <3>5. CASE AuditFailure(r)
      BY <2>4, <2>5, <3>5 DEF AuditFailure
    <3> QED
      BY <2>6, <3>1, <3>2, <3>3, <3>4, <3>5
  <2> QED
    BY <1>3, <2>1, <2>2, <2>3, <2>6 DEF Serving
<1>4. ASSUME NEW kind \in ExportKind, NEW room \in Selection, Begin(kind, room)
      PROVE  Aside
  BY <1>4 DEF Begin, Aside, Outside, Served
<1>5. ASSUME NEW r \in DOMAIN requests, Answered(r)
      PROVE  Aside
  BY <1>5 DEF Answered, Aside, Surroundings
<1>6. ASSUME NEW s \in Session, SessionEnds(s)
      PROVE  Otherwise
  BY <1>6 DEF Otherwise
<1> QED
  BY <1>1, <1>2, <1>3, <1>4, <1>5, <1>6 DEF ExportNext

-----------------------------------------------------------------------------
(* Attempts: what was submitted does not change.                           *)
AttemptFields == {"draft", "of", "instance", "base", "values", "key", "stage",
                  "carried", "reply", "proof"}
AskedFields == {"draft", "of", "instance", "base", "values", "key"}

SameAttempt(a, b) == DOMAIN b = AttemptFields /\ \A f \in AskedFields : b[f] = a[f]

AttemptsInOrder ==
  /\ IsList(attempts) /\ Len(attempts) <= MaxAttempts
  /\ \A i \in DOMAIN attempts :
       DOMAIN attempts[i] = AttemptFields /\ attempts[i].draft \in using

AttemptsStay ==
  /\ IsList(attempts') /\ DOMAIN attempts' = DOMAIN attempts
  /\ Len(attempts') = Len(attempts)
  /\ \A i \in DOMAIN attempts : SameAttempt(attempts[i], attempts'[i])

LEMMA UnchangedStay == AttemptsInOrder /\ UNCHANGED attempts => AttemptsStay
BY DEF AttemptsInOrder, AttemptsStay, SameAttempt

LEMMA EndedStay ==
  ASSUME AttemptsInOrder, NEW S, Ended(S)
  PROVE  AttemptsStay
<1> DEFINE ended(a, i) == [a EXCEPT !.stage = "done", !.carried = NoSession,
                                    !.proof = NoProof,
                                    !.reply = IF i \in tab'.waiting THEN @ ELSE Nothing]
<1>1. attempts' = [i \in DOMAIN attempts |->
                     IF i \notin S THEN attempts[i] ELSE ended(attempts[i], i)]
  BY DEF Ended
<1>2. \A a, i : DOMAIN a = AttemptFields => SameAttempt(a, ended(a, i))
  BY DEF SameAttempt, AttemptFields, AskedFields
<1> HIDE DEF ended
<1>3. \A i \in DOMAIN attempts : SameAttempt(attempts[i], attempts'[i])
  BY <1>1, <1>2 DEF AttemptsInOrder, SameAttempt
<1> QED
  BY <1>1, <1>3, ListsAreReplaced DEF AttemptsInOrder, AttemptsStay

LEMMA NewDocumentStay ==
  ASSUME AttemptsInOrder, NEW route, NewDocument(route)
  PROVE  AttemptsStay
<1>1. attempts' = [i \in DOMAIN attempts |-> Orphaned(attempts[i])]
  BY DEF NewDocument
<1>2. \A a : DOMAIN a = AttemptFields => SameAttempt(a, Orphaned(a))
  BY DEF SameAttempt, AttemptFields, AskedFields, Orphaned
<1>3. \A i \in DOMAIN attempts : SameAttempt(attempts[i], attempts'[i])
  BY <1>1, <1>2 DEF AttemptsInOrder
<1> QED
  BY <1>1, <1>3, ListsAreReplaced DEF AttemptsInOrder, AttemptsStay

LEMMA OneAttemptStays ==
  ASSUME AttemptsInOrder, NEW i \in DOMAIN attempts, NEW a,
         SameAttempt(attempts[i], a), attempts' = [attempts EXCEPT ![i] = a]
  PROVE  AttemptsStay
<1>1. /\ IsList(attempts') /\ DOMAIN attempts' = DOMAIN attempts
      /\ Len(attempts') = Len(attempts) /\ attempts'[i] = a
      /\ \A j \in DOMAIN attempts : j # i => attempts'[j] = attempts[j]
  <2> DEFINE t == [attempts EXCEPT ![i] = a]
  <2>1. /\ IsList(t) /\ DOMAIN t = DOMAIN attempts
        /\ Len(t) = Len(attempts) /\ t[i] = a
        /\ \A j \in DOMAIN attempts : j # i => t[j] = attempts[j]
    <3>1. IsList(attempts)
      BY DEF AttemptsInOrder
    <3> QED
      BY <3>1, ListsAreUpdated
  <2>2. attempts' = t
    OBVIOUS
  <2> HIDE DEF t
  <2> QED
    BY <2>1, <2>2
<1>2. \A j \in DOMAIN attempts : SameAttempt(attempts[j], attempts'[j])
  BY <1>1 DEF AttemptsInOrder, SameAttempt
<1> QED
  BY <1>1, <1>2 DEF AttemptsStay

LEMMA ReplyStays ==
  ASSUME AttemptsInOrder, NEW i \in DOMAIN attempts, NEW r, Reply(i, r)
  PROVE  AttemptsStay
<1> DEFINE a == [attempts[i] EXCEPT !.reply = r]
<1>1. attempts' = [attempts EXCEPT ![i] = a]
  BY DEF Reply
<1>2. SameAttempt(attempts[i], a)
  BY DEF AttemptsInOrder, SameAttempt, AttemptFields, AskedFields
<1> HIDE DEF a
<1> QED
  BY <1>1, <1>2, OneAttemptStays

LEMMA AsksStays ==
  ASSUME AttemptsInOrder, NEW i \in DOMAIN attempts, NEW step, Asks(i, step)
  PROVE  AttemptsStay
<1> DEFINE a == [attempts[i] EXCEPT !.stage = step, !.carried = cookie,
                                    !.reply = Nothing]
<1>1. attempts' = [attempts EXCEPT ![i] = a]
  BY DEF Asks, AttemptsInOrder
<1>2. SameAttempt(attempts[i], a)
  BY DEF AttemptsInOrder, SameAttempt, AttemptFields, AskedFields
<1> HIDE DEF a
<1> QED
  BY <1>1, <1>2, OneAttemptStays

(* Of the steps of the host only a submit adds to them.                    *)
AttemptAdded ==
  \E d \in using : \E a :
    /\ attempts' = Append(attempts, a) /\ DOMAIN a = AttemptFields /\ a.draft = d
    /\ Len(attempts) + 1 <= MaxAttempts
    /\ UNCHANGED Outside

LEMMA AttemptsSteps ==
  ASSUME AttemptsInOrder, [ExportNext]_<<draftVars, exportVars>>
  PROVE  /\ AttemptsStay \/ AttemptAdded
         /\ UNCHANGED using
<1>1. CASE Aside
  BY <1>1, UnchangedStay DEF Aside, Outside
<1>2. ASSUME NEW p \in Proof, NEW t, Concludes(p, t)
      PROVE  AttemptsStay /\ UNCHANGED using
  BY <1>2, EndedStay DEF Concludes, Surroundings, Outside
<1>3. ASSUME NEW t, Page(t) \/ Turn(t)
      PROVE  AttemptsStay /\ UNCHANGED using
  BY <1>3, UnchangedStay DEF Page, Turn, Surroundings, Outside
<1>4. ASSUME NEW i \in DOMAIN attempts, NEW t, Ends(i, t)
      PROVE  AttemptsStay /\ UNCHANGED using
  BY <1>4, EndedStay DEF Ends, Surroundings, Outside
<1>5. CASE Otherwise
  <2>1. ASSUME NEW p \in Proof, AnswerProof(p)
        PROVE  AttemptsStay /\ UNCHANGED using
    BY <2>1, UnchangedStay DEF AnswerProof, Outside
  <2>2. ASSUME NEW i \in DOMAIN attempts, AnswerCheck(i) \/ AnswerReread(i) \/ SaveRefused(i)
        PROVE  AttemptsStay /\ UNCHANGED using
    <3>1. \E r : Reply(i, r)
      BY <2>2 DEF AnswerCheck, AnswerReread, SaveRefused
    <3>2. UNCHANGED using
      BY <2>2 DEF AnswerCheck, AnswerReread, SaveRefused, Outside
    <3> QED
      BY <3>1, <3>2, ReplyStays
  <2>3. ASSUME NEW i \in DOMAIN attempts, SavePhone(i) \/ SaveEdit(i) \/ SaveRoom(i)
        PROVE  AttemptsStay /\ UNCHANGED using
    <3>1. \E r : Reply(i, r)
      BY <2>3 DEF SavePhone, SaveEdit, SaveRoom, Replied
    <3>2. UNCHANGED using
      BY <2>3 DEF SavePhone, SaveEdit, SaveRoom, Saves
    <3> QED
      BY <3>1, <3>2, ReplyStays
  <2>4. ASSUME NEW i \in DOMAIN attempts, Checked(i)
        PROVE  AttemptsStay /\ UNCHANGED using
    <3>1. \/ \E t : Ends(i, t)
          \/ UNCHANGED Surroundings /\ \E step : Asks(i, step)
      BY <2>4, Zenon DEF Checked
    <3> QED
      BY <1>4, <3>1, AsksStays DEF Surroundings, Outside
  <2>5. ASSUME NEW i \in DOMAIN attempts, Reread(i)
        PROVE  AttemptsStay /\ UNCHANGED using
    <3>1. \/ \E t : Ends(i, t)
          \/ UNCHANGED Surroundings /\ \E step : Asks(i, step)
      BY <2>5, Zenon DEF Reread
    <3> QED
      BY <1>4, <3>1, AsksStays DEF Surroundings, Outside
  <2>6. ASSUME NEW i \in DOMAIN attempts, SaveTurned(i)
        PROVE  AttemptsStay /\ UNCHANGED using
    BY <1>4, <2>6 DEF SaveTurned
  <2>7. ASSUME NEW i \in DOMAIN attempts, SaveAnswered(i)
        PROVE  AttemptsStay /\ UNCHANGED using
    <3> DEFINE a(p) == [attempts[i] EXCEPT !.stage = "verify", !.proof = p]
    <3>1. \/ \E t : Ends(i, t)
          \/ /\ UNCHANGED Surroundings
             /\ \E p : attempts' = [attempts EXCEPT ![i].stage = "verify", ![i].proof = p]
      BY <2>7, Zenon DEF SaveAnswered
    <3>2. ASSUME NEW p, attempts' = [attempts EXCEPT ![i].stage = "verify", ![i].proof = p]
          PROVE  AttemptsStay
      <4>1. attempts' = [attempts EXCEPT ![i] = a(p)]
        BY <3>2 DEF AttemptsInOrder
      <4>2. SameAttempt(attempts[i], a(p))
        BY DEF AttemptsInOrder, SameAttempt, AttemptFields, AskedFields
      <4> HIDE DEF a
      <4> QED
        BY <4>1, <4>2, OneAttemptStays
    <3> QED
      BY <1>4, <3>1, <3>2 DEF Surroundings, Outside
  <2>8. ASSUME NEW s \in Session, SignInElsewhere(s) \/ SessionEnds(s)
        PROVE  AttemptsStay /\ UNCHANGED using
    BY <2>8, UnchangedStay DEF SignInElsewhere, SessionEnds
  <2>9. ASSUME NEW s \in Session, SignIn(s)
        PROVE  AttemptsStay /\ UNCHANGED using
    BY <2>9, NewDocumentStay DEF SignIn
  <2>10. CASE LogoutElsewhere \/ ChangedElsewhere \/ AnswerLogout
    BY <2>10, UnchangedStay DEF LogoutElsewhere, ChangedElsewhere, AnswerLogout
  <2>11. CASE LogoutByForm
    BY <2>11, NewDocumentStay DEF LogoutByForm
  <2>12. CASE LogoutAnswered
    <3>1. (\E t : Page(t)) \/ (NewDocument("login") /\ UNCHANGED Surroundings)
      BY <2>12, Zenon DEF LogoutAnswered
    <3> QED
      BY <1>3, <3>1, NewDocumentStay DEF Surroundings, Outside
  <2>13. CASE Logout \/ Foreground \/ Verify \/ Hide \/ Arrive \/ RouteChanged \/ Read
    <3>1. \E t : Page(t) \/ Turn(t)
      BY <2>13, Zenon DEF Logout, Foreground, Verify, Hide, Arrive, RouteChanged, Read
    <3> QED
      BY <1>3, <3>1
  <2>14. ASSUME NEW route, NEW D, Back(route) \/ Leave(route, D)
         PROVE  AttemptsStay /\ UNCHANGED using
    BY <1>3, <2>14 DEF Back, Leave
  <2>15. ASSUME NEW d \in using, NEW keep \in BOOLEAN,
                Open(d) \/ Resume(d) \/ Type(d) \/ Review(d, keep)
         PROVE  AttemptsStay /\ UNCHANGED using
    <3>1. \E t : Page(t)
      BY <2>15, Zenon DEF Open, Resume, Type, Review
    <3> QED
      BY <1>3, <3>1
  <2>16. ASSUME NEW d \in using, SubmitDraft(d)
         PROVE  AttemptAdded /\ UNCHANGED using
    <3>1. PICK a : attempts' = Append(attempts, a) /\ DOMAIN a = AttemptFields /\ a.draft = d
      BY <2>16 DEF SubmitDraft, AttemptFields
    <3> QED
      BY <2>16, <3>1 DEF SubmitDraft, AttemptAdded, Outside
  <2> QED
    BY <1>5, <2>1, <2>2, <2>3, <2>4, <2>5, <2>6, <2>7, <2>8, <2>9, <2>10, <2>11,
       <2>12, <2>13, <2>14, <2>15, <2>16 DEF Otherwise
<1>6. CASE PageHide
  BY <1>3, <1>6 DEF PageHide
<1> QED
  BY <1>1, <1>2, <1>5, <1>6, HostSteps

LEMMA NextAttempts ==
  ASSUME AttemptsInOrder, [ExportNext]_<<draftVars, exportVars>>
  PROVE  AttemptsInOrder'
<1>1. CASE AttemptsStay
  BY <1>1, AttemptsSteps DEF AttemptsInOrder, AttemptsStay, SameAttempt, AskedFields
<1>2. CASE AttemptAdded
  <2>1. PICK a : /\ attempts' = Append(attempts, a) /\ DOMAIN a = AttemptFields
                 /\ a.draft \in using
                 /\ Len(attempts) + 1 <= MaxAttempts
    BY <1>2 DEF AttemptAdded
  <2>2. using' = using
    BY AttemptsSteps
  <2>3. IsList(attempts') /\ Len(attempts') <= MaxAttempts
    BY <2>1, ListsGrow DEF AttemptsInOrder
  <2>4. \A i \in DOMAIN attempts' :
          DOMAIN attempts'[i] = AttemptFields /\ attempts'[i].draft \in using
    BY <2>1, ListsGrow DEF AttemptsInOrder
  <2> QED
    BY <2>2, <2>3, <2>4 DEF AttemptsInOrder
<1> QED
  BY <1>1, <1>2, AttemptsSteps

-----------------------------------------------------------------------------
(* The server saves an attempt under the session it is bound to.           *)
SavedInOrder ==
  /\ AttemptsInOrder
  /\ DOMAIN saved = 1..MaxAttempts
  /\ \A i \in DOMAIN saved :
       saved[i] # NoSession => i \in DOMAIN attempts /\ saved[i] = attempts[i].of

LEMMA SavesBound ==
  ASSUME [ExportNext]_<<draftVars, exportVars>>
  PROVE  \/ UNCHANGED saved
         \/ \E i \in DOMAIN attempts :
              saved' = [saved EXCEPT ![i] = attempts[i].of]
<1>1. ASSUME NEW i, Saves(i)
      PROVE  saved' = [saved EXCEPT ![i] = attempts[i].of]
  BY <1>1 DEF Saves, Bound
<1>2. CASE Otherwise
  <2>1. ASSUME NEW i \in DOMAIN attempts,
               \/ AnswerCheck(i) \/ AnswerReread(i) \/ SaveRefused(i)
               \/ Checked(i) \/ Reread(i) \/ SaveTurned(i) \/ SaveAnswered(i)
        PROVE  UNCHANGED saved
    <3>1. UNCHANGED Outside \/ UNCHANGED Surroundings \/ \E t : Ends(i, t)
      BY <2>1, Zenon DEF AnswerCheck, AnswerReread, SaveRefused, Checked, Reread,
                         SaveTurned, SaveAnswered
    <3> QED
      BY <3>1 DEF Ends, Surroundings, Outside, Served
  <2>2. ASSUME NEW i \in DOMAIN attempts, SavePhone(i) \/ SaveEdit(i) \/ SaveRoom(i)
        PROVE  saved' = [saved EXCEPT ![i] = attempts[i].of]
    BY <1>1, <2>2 DEF SavePhone, SaveEdit, SaveRoom
  <2>3. CASE \/ \E p \in Proof : AnswerProof(p)
             \/ \E s \in Session : SignInElsewhere(s) \/ SessionEnds(s) \/ SignIn(s)
             \/ LogoutElsewhere \/ ChangedElsewhere \/ LogoutByForm \/ AnswerLogout
    BY <2>3 DEF AnswerProof, SignInElsewhere, SessionEnds, SignIn, LogoutElsewhere,
                ChangedElsewhere, LogoutByForm, AnswerLogout, Outside, Served
  <2>4. CASE \/ Logout \/ LogoutAnswered \/ Foreground \/ Verify \/ Hide \/ Arrive
             \/ RouteChanged \/ Read
             \/ \E route \in Route : Back(route)
             \/ \E route \in {"agenda", "form"}, D \in SUBSET Kind : Leave(route, D)
             \/ \E d \in using : Open(d) \/ Resume(d) \/ Type(d) \/ SubmitDraft(d)
             \/ \E d \in using, keep \in BOOLEAN : Review(d, keep)
    <3>1. \/ UNCHANGED Outside \/ UNCHANGED Surroundings
          \/ \E t : Page(t) \/ Turn(t)
      BY <2>4, Zenon DEF Logout, LogoutAnswered, Foreground, Verify, Hide, Arrive,
                         RouteChanged, Read, Back, Leave, Open, Resume, Type,
                         SubmitDraft, Review
    <3> QED
      BY <3>1 DEF Page, Turn, Surroundings, Outside, Served
  <2> QED
    BY <1>2, <2>1, <2>2, <2>3, <2>4 DEF Otherwise
<1>3. CASE Aside \/ PageHide \/ \E p \in Proof : \E t : Concludes(p, t)
  BY <1>3 DEF Aside, PageHide, Turn, Concludes, Surroundings, Outside, Served
<1> QED
  BY <1>2, <1>3, HostSteps

LEMMA NextSaves ==
  ASSUME SavedInOrder, [ExportNext]_<<draftVars, exportVars>>
  PROVE  SavedInOrder'
<1> USE DEF SavedInOrder
<1>1. AttemptsInOrder'
  BY NextAttempts
<1>2. \A i \in DOMAIN attempts :
        i \in DOMAIN attempts' /\ attempts'[i].of = attempts[i].of
  <2>1. CASE AttemptsStay
    BY <2>1 DEF AttemptsStay, SameAttempt, AskedFields
  <2>2. CASE AttemptAdded
    BY <2>2, ListsGrow DEF AttemptAdded, AttemptsInOrder
  <2> QED
    BY <2>1, <2>2, AttemptsSteps
<1> QED
  BY <1>1, <1>2, SavesBound

(* What was written in one session is never saved under another, whatever  *)
(* other tabs do to the cookie between the checks of the page and the      *)
(* request: the server compares the binding in the header with the session *)
(* of the cookie (draftSessionBindingError).                               *)
THEOREM CommittedByOwnerHolds == ExportSpec => []CommittedByOwner
<1>1. ExportInit => SavedInOrder
  <2> SUFFICES ASSUME ExportInit PROVE SavedInOrder
    OBVIOUS
  <2>1. attempts = << >> /\ saved = [i \in 1..MaxAttempts |-> NoSession]
    BY DEF ExportInit, DraftInit
  <2>2. MaxAttempts \in Nat
    BY StaffDraftsAssumption
  <2> QED
    BY <2>1, <2>2, EmptyIsAList DEF SavedInOrder, AttemptsInOrder
<1>2. SavedInOrder => CommittedByOwner
  <2> SUFFICES ASSUME SavedInOrder, NEW i \in DOMAIN attempts
               PROVE  saved[i] # NoSession => saved[i] = attempts[i].of
    BY DEF CommittedByOwner
  <2>1. i \in 1..MaxAttempts
    BY ListsHaveALength, StaffDraftsAssumption DEF SavedInOrder, AttemptsInOrder
  <2> QED
    BY <2>1 DEF SavedInOrder
<1>3. SavedInOrder /\ [ExportNext]_<<draftVars, exportVars>> => SavedInOrder'
  BY NextSaves
<1> QED
  BY <1>1, <1>2, <1>3, PTL DEF ExportSpec

-----------------------------------------------------------------------------
(* The tab, and what its operations leave of the drafts.                   *)
TabFields == {"auth", "identity", "records", "owned", "undisturbed", "unmoved",
              "rereads", "waiting", "flight", "proofs", "logout", "authorized",
              "here", "observed", "leaving", "shown", "resource"}
DraftFields == {"phase", "of", "instance", "values", "baseline", "base",
                "attempt", "retry"}
CallFields == {"route", "carried", "resumes", "reply"}
LogoutFields == {"asked", "carried", "reply", "owned"}

DraftOf(r, who) ==
  \/ r = NoDraft
  \/ DOMAIN r = DraftFields /\ r.of = who /\ who # NoSession /\ r.phase # "NONE"

RecordsInOrder(t) ==
  /\ DOMAIN t.records = Kind
  /\ \A d \in Kind : /\ DraftOf(t.records[d], t.identity)
                     /\ t.records[d] # NoDraft => d \in using
  /\ \A d \in t.shown : d \in Kind /\ t.records[d] # NoDraft
  /\ t.auth = "AUTHORIZED" => t.identity # NoSession

(* The session that is named is the one that was carried.                  *)
NamesTheCarried(c) ==
  c.reply.is = "session" => c.reply.who = c.carried /\ c.carried # NoSession

CallsInOrder(t) ==
  /\ DOMAIN t.proofs = Proof
  /\ \A p \in Proof : /\ DOMAIN t.proofs[p] = CallFields
                      /\ t.proofs[p].resumes \in Kind \cup {"none"}
                      /\ NamesTheCarried(t.proofs[p])
  /\ t.flight \in Proof \cup {NoProof}
  /\ DOMAIN t.logout = LogoutFields

TabInOrder(t) ==
  /\ DOMAIN t = TabFields
  /\ RecordsInOrder(t)
  /\ CallsInOrder(t)
  /\ t.owned \subseteq DOMAIN attempts /\ t.waiting \subseteq DOMAIN attempts

(* Nothing locked appears, and what is known of the locked stays known.    *)
Loosens(t, u) ==
  \/ \A d \in Kind : u.records[d].phase # "PENDING"
  \/ /\ \A d \in Kind : u.records[d].phase = "PENDING" => u.records[d] = t.records[d]
     /\ t.owned \subseteq u.owned /\ t.waiting \subseteq u.waiting

Follows(t, u) == TabInOrder(u) /\ Loosens(t, u)

LEMMA FollowsOn ==
  ASSUME NEW t, NEW u, NEW v, Follows(t, u), Follows(u, v)
  PROVE  Follows(t, v)
BY DEF Follows, Loosens

(* An operation that leaves the drafts and what belongs to them.           *)
LEMMA SameDraftsFollow ==
  ASSUME NEW t, TabInOrder(t), NEW u, DOMAIN u = TabFields,
         u.records = t.records, u.identity = t.identity, CallsInOrder(u),
         u.owned = t.owned, u.waiting = t.waiting,
         u.auth = "AUTHORIZED" => t.auth = "AUTHORIZED" \/ t.identity # NoSession,
         \A d \in u.shown : d \in t.shown \/ (d \in Kind /\ t.records[d] # NoDraft)
  PROVE  Follows(t, u)
BY DEF Follows, Loosens, TabInOrder, RecordsInOrder

(* One that leaves none.                                                   *)
LEMMA NoDraftsFollow ==
  ASSUME NEW t, NEW u, DOMAIN u = TabFields, u.records = NoDrafts, CallsInOrder(u),
         u.shown = {}, u.auth = "AUTHORIZED" => u.identity # NoSession,
         u.owned \subseteq DOMAIN attempts, u.waiting \subseteq DOMAIN attempts
  PROVE  Follows(t, u)
BY DEF Follows, Loosens, TabInOrder, RecordsInOrder, NoDrafts, NoDraft, DraftOf

(* One that unlocks, changes or discards drafts.                           *)
LEMMA RewrittenFollow ==
  ASSUME NEW t, TabInOrder(t), NEW u, DOMAIN u = TabFields,
         DOMAIN u.records = Kind, u.identity = t.identity, CallsInOrder(u),
         u.owned = t.owned, u.waiting = t.waiting,
         u.auth = "AUTHORIZED" => t.auth = "AUTHORIZED",
         \A d \in u.shown : d \in Kind /\ u.records[d] # NoDraft,
         \A d \in Kind :
           \/ u.records[d] = t.records[d]
           \/ u.records[d] = NoDraft
           \/ d \in using /\ DraftOf(u.records[d], t.identity) /\ u.records[d].phase # "PENDING"
  PROVE  Follows(t, u)
<1>1. \A d \in Kind : u.records[d].phase = "PENDING" => u.records[d] = t.records[d]
  BY DEF NoDraft
<1> QED
  BY <1>1 DEF Follows, Loosens, TabInOrder, RecordsInOrder, DraftOf

LEMMA Quarantining ==
  ASSUME NEW t, TabInOrder(t)
  PROVE  /\ Follows(t, Quarantined(t))
         /\ Quarantined(t).auth = "CHECKING" /\ Quarantined(t).here = t.here
         /\ Quarantined(t).flight = NoProof /\ Quarantined(t).proofs = t.proofs
<1> DEFINE u == Quarantined(t)
<1>1. DOMAIN t = TabFields
  BY DEF TabInOrder
<1>2. /\ DOMAIN u = TabFields
      /\ u.records = t.records /\ u.identity = t.identity
      /\ u.owned = t.owned /\ u.waiting = t.waiting
      /\ u.proofs = t.proofs /\ u.logout = t.logout
      /\ u.auth = "CHECKING" /\ u.here = t.here /\ u.flight = NoProof /\ u.shown = {}
  BY <1>1 DEF Quarantined, TabFields
<1> HIDE DEF u
<1>3. CallsInOrder(u)
  BY <1>2 DEF CallsInOrder, TabInOrder
<1>4. Follows(t, u)
  BY <1>2, <1>3, SameDraftsFollow
<1> QED
  BY <1>2, <1>4 DEF u

LEMMA Erasing ==
  ASSUME NEW t, TabInOrder(t)
  PROVE  /\ Follows(t, Erased(t))
         /\ Erased(t).auth = "DENIED" /\ Erased(t).here = t.here
         /\ Erased(t).flight = NoProof /\ Erased(t).proofs = t.proofs
         /\ Erased(t).records = NoDrafts
<1> DEFINE u == Erased(t)
<1>1. DOMAIN t = TabFields /\ DOMAIN t.logout = LogoutFields
  BY DEF TabInOrder, CallsInOrder
<1>2. /\ DOMAIN u = TabFields
      /\ u.records = NoDrafts /\ u.owned = {} /\ u.waiting = {}
      /\ u.proofs = t.proofs /\ DOMAIN u.logout = LogoutFields
      /\ u.auth = "DENIED" /\ u.here = t.here /\ u.flight = NoProof /\ u.shown = {}
  BY <1>1 DEF Erased, TabFields
<1> HIDE DEF u
<1>3. CallsInOrder(u)
  BY <1>2 DEF CallsInOrder, TabInOrder
<1>4. Follows(t, u)
  BY <1>2, <1>3, NoDraftsFollow
<1> QED
  BY <1>2, <1>4 DEF u

LEMMA Authorizing ==
  ASSUME NEW t, TabInOrder(t), NEW s, s # NoSession, t.identity = s \/ t.shown = {}
  PROVE  /\ Follows(t, Authorized(t, s))
         /\ Authorized(t, s).auth = "AUTHORIZED" /\ Authorized(t, s).here = t.here
         /\ Authorized(t, s).flight = t.flight /\ Authorized(t, s).proofs = t.proofs
         /\ Authorized(t, s).identity = s
         /\ Authorized(t, s).records = IF t.identity = s THEN t.records ELSE NoDrafts
<1> DEFINE u == Authorized(t, s)
<1>1. DOMAIN t = TabFields /\ DOMAIN t.logout = LogoutFields
  BY DEF TabInOrder, CallsInOrder
<1>2. /\ DOMAIN u = TabFields /\ u.identity = s
      /\ u.waiting = t.waiting /\ u.shown = t.shown
      /\ u.proofs = t.proofs /\ DOMAIN u.logout = LogoutFields
      /\ u.auth = "AUTHORIZED" /\ u.here = t.here /\ u.flight = t.flight
      /\ t.identity = s => u.records = t.records /\ u.owned = t.owned
      /\ t.identity # s => u.records = NoDrafts /\ u.owned = {}
  BY <1>1 DEF Authorized, TabFields
<1> HIDE DEF u
<1>3. CallsInOrder(u)
  BY <1>2 DEF CallsInOrder, TabInOrder
<1>4. CASE t.identity = s
  <2>1. Follows(t, u)
    BY <1>2, <1>3, <1>4, SameDraftsFollow
  <2> QED
    BY <1>2, <1>4, <2>1 DEF u
<1>5. CASE t.identity # s
  <2>1. Follows(t, u)
    BY <1>2, <1>3, <1>5, NoDraftsFollow DEF TabInOrder
  <2> QED
    BY <1>2, <1>5, <2>1 DEF u
<1> QED
  BY <1>4, <1>5

LEMMA Retiring ==
  ASSUME NEW t, TabInOrder(t)
  PROVE  /\ Follows(t, Unavailable(t))
         /\ Unavailable(t).auth = "UNAVAILABLE" /\ Unavailable(t).here = t.here
         /\ Unavailable(t).flight = t.flight /\ Unavailable(t).proofs = t.proofs
<1> DEFINE u == Unavailable(t)
<1>1. DOMAIN t = TabFields
  BY DEF TabInOrder
<1>2. /\ DOMAIN u = TabFields
      /\ u.records = t.records /\ u.identity = t.identity
      /\ u.owned = t.owned /\ u.waiting = t.waiting
      /\ u.proofs = t.proofs /\ u.logout = t.logout
      /\ u.auth = "UNAVAILABLE" /\ u.here = t.here /\ u.flight = t.flight /\ u.shown = {}
  BY <1>1 DEF Unavailable, TabFields
<1> HIDE DEF u
<1>3. CallsInOrder(u)
  BY <1>2 DEF CallsInOrder, TabInOrder
<1>4. Follows(t, u)
  BY <1>2, <1>3, SameDraftsFollow
<1> QED
  BY <1>2, <1>4 DEF u

LEMMA Discarding ==
  ASSUME NEW t, TabInOrder(t), NEW D
  PROVE  /\ Follows(t, Discarded(t, D))
         /\ Discarded(t, D).auth = t.auth /\ Discarded(t, D).here = t.here
         /\ Discarded(t, D).flight = t.flight /\ Discarded(t, D).proofs = t.proofs
         /\ Discarded(t, D).identity = t.identity /\ Discarded(t, D).waiting = t.waiting
         /\ Discarded(t, D).owned = t.owned
         /\ \A d \in Kind :
              Discarded(t, D).records[d] =
                IF d \in D /\ t.records[d].phase # "PENDING" THEN NoDraft ELSE t.records[d]
<1> DEFINE u == Discarded(t, D)
<1>1. DOMAIN t = TabFields
  BY DEF TabInOrder
<1>2. /\ DOMAIN u = TabFields
      /\ u.identity = t.identity
      /\ u.owned = t.owned /\ u.waiting = t.waiting
      /\ u.proofs = t.proofs /\ u.logout = t.logout
      /\ u.auth = t.auth /\ u.here = t.here /\ u.flight = t.flight
      /\ DOMAIN u.records = Kind /\ u.shown = t.shown \ D
      /\ \A d \in Kind :
           u.records[d] =
             IF d \in D /\ t.records[d].phase # "PENDING" THEN NoDraft ELSE t.records[d]
  BY <1>1 DEF Discarded, TabFields
<1> HIDE DEF u
<1>3. CallsInOrder(u)
  BY <1>2 DEF CallsInOrder, TabInOrder
<1>4. Follows(t, u)
  <2>1. \A d \in u.shown : d \in Kind /\ u.records[d] # NoDraft
    BY <1>2 DEF TabInOrder, RecordsInOrder
  <2> QED
    BY <1>2, <1>3, <2>1, RewrittenFollow
<1> QED
  BY <1>2, <1>4 DEF u


(* One draft changes, and is not locked.                                   *)
WithDraft(t, d, r) == [t EXCEPT !.records[d] = r]

LEMMA OneRewritten ==
  ASSUME NEW t, TabInOrder(t), NEW d \in Kind, d \in using, NEW r,
         DraftOf(r, t.identity), r.phase # "PENDING", r # NoDraft
  PROVE  /\ Follows(t, WithDraft(t, d, r))
         /\ WithDraft(t, d, r).auth = t.auth /\ WithDraft(t, d, r).here = t.here
         /\ WithDraft(t, d, r).authorized = t.authorized
         /\ WithDraft(t, d, r).flight = t.flight /\ WithDraft(t, d, r).proofs = t.proofs
         /\ WithDraft(t, d, r).identity = t.identity
         /\ WithDraft(t, d, r).waiting = t.waiting /\ WithDraft(t, d, r).owned = t.owned
         /\ WithDraft(t, d, r).records[d] = r
         /\ \A e \in Kind \ {d} : WithDraft(t, d, r).records[e] = t.records[e]
<1> DEFINE u == WithDraft(t, d, r)
<1>1. DOMAIN t = TabFields /\ DOMAIN t.records = Kind
  BY DEF TabInOrder, RecordsInOrder
<1>2. /\ DOMAIN u = TabFields
      /\ u.records = [t.records EXCEPT ![d] = r]
      /\ u.identity = t.identity
      /\ u.owned = t.owned /\ u.waiting = t.waiting
      /\ u.proofs = t.proofs /\ u.logout = t.logout
      /\ u.auth = t.auth /\ u.here = t.here /\ u.flight = t.flight
      /\ u.authorized = t.authorized /\ u.shown = t.shown
  BY <1>1 DEF TabFields, WithDraft
<1> HIDE DEF u
<1>3. /\ DOMAIN u.records = Kind /\ u.records[d] = r
      /\ \A e \in Kind \ {d} : u.records[e] = t.records[e]
  BY <1>1, <1>2
<1>4. CallsInOrder(u)
  BY <1>2 DEF CallsInOrder, TabInOrder
<1>5. Follows(t, u)
  <2>1. \A e \in Kind :
          \/ u.records[e] = t.records[e]
          \/ e \in using /\ DraftOf(u.records[e], t.identity) /\ u.records[e].phase # "PENDING"
    BY <1>3
  <2>2. \A e \in u.shown : e \in Kind /\ u.records[e] # NoDraft
    BY <1>2, <1>3 DEF TabInOrder, RecordsInOrder
  <2> QED
    BY <1>2, <1>3, <1>4, <2>1, <2>2, RewrittenFollow
<1> QED
  BY <1>2, <1>3, <1>5 DEF u

(* The outcomes of an attempt, and the end of one that was not sent.       *)
LEMMA PhasesOfDrafts ==
  ASSUME NEW r, NEW who, r # NoDraft, DraftOf(r, who)
  PROVE  /\ \A phase \in {"ERROR", "DIRTY_CONFLICT"} :
              /\ DraftOf(WithPhase(r, phase), who)
              /\ WithPhase(r, phase).phase = phase /\ WithPhase(r, phase) # NoDraft
              /\ WithPhase(r, phase).values = r.values
         /\ \A i, version :
              /\ DraftOf(Confirmed(r, i, version), who)
              /\ Confirmed(r, i, version).phase = "CONFIRMED"
              /\ Confirmed(r, i, version).values = attempts[i].values
BY DEF DraftOf, DraftFields, WithPhase, Confirmed, NoDraft

LEMMA OutcomesOfDrafts ==
  ASSUME NEW r, NEW who, r # NoDraft, DraftOf(r, who), NEW i
  PROVE  /\ DraftOf(Outcome(r, i), who)
         /\ Outcome(r, i).phase # "PENDING"
         /\ Outcome(r, i) # NoDraft
         /\ Outcome(r, i).values =
              IF attempts[i].reply.is = "saved" THEN attempts[i].values ELSE r.values
         /\ attempts[i].reply.is = "saved" => Outcome(r, i).phase = "CONFIRMED"
         /\ attempts[i].reply.is # "saved" => Outcome(r, i).phase \in {"DIRTY_CONFLICT", "ERROR"}
<1>1. CASE attempts[i].reply.is = "saved"
  <2>1. Outcome(r, i) = Confirmed(r, i, attempts[i].reply.version)
    BY <1>1 DEF Outcome
  <2> HIDE DEF Outcome, Confirmed
  <2> QED
    BY <1>1, <2>1, PhasesOfDrafts DEF NoDraft
<1>2. CASE attempts[i].reply.is # "saved"
  <2>1. Outcome(r, i) \in {WithPhase(r, "ERROR"), WithPhase(r, "DIRTY_CONFLICT")}
    BY <1>2 DEF Outcome
  <2>2. WithPhase(r, "ERROR") # NoDraft /\ WithPhase(r, "DIRTY_CONFLICT") # NoDraft
    BY PhasesOfDrafts DEF NoDraft
  <2> HIDE DEF Outcome, WithPhase
  <2> QED
    BY <1>2, <2>1, <2>2, PhasesOfDrafts
<1> QED
  BY <1>1, <1>2

(* Who owns an attempt has its draft, and it is one of this behaviour.     *)
UsingOne == using \in {{}, {"PHONE"}, {"EDIT"}, {"ROOM"}}

LEMMA OwnersHaveDrafts ==
  ASSUME AttemptsInOrder, UsingOne, NEW t, TabInOrder(t), NEW i, i \in t.owned
  PROVE  /\ i \in DOMAIN attempts
         /\ attempts[i].draft \in using /\ attempts[i].draft \in Kind
         /\ Owns(t, i) => /\ t.records[attempts[i].draft] # NoDraft
                          /\ DraftOf(t.records[attempts[i].draft], t.identity)
                          /\ t.records[attempts[i].draft].phase = "PENDING"
                          /\ t.records[attempts[i].draft].attempt = i
<1>1. i \in DOMAIN attempts
  BY DEF TabInOrder
<1>2. attempts[i].draft \in using /\ attempts[i].draft \in Kind
  BY <1>1 DEF AttemptsInOrder, UsingOne, Kind
<1> QED
  BY <1>1, <1>2 DEF Owns, TabInOrder, RecordsInOrder, NoDraft

LEMMA Rejecting ==
  ASSUME AttemptsInOrder, UsingOne, NEW t, TabInOrder(t), NEW i
  PROVE  /\ Follows(t, Rejected(t, i))
         /\ ~Owns(t, i) => Rejected(t, i) = t
         /\ Owns(t, i) =>
              /\ Rejected(t, i).records[attempts[i].draft].phase = "ERROR"
              /\ Rejected(t, i).records[attempts[i].draft].values =
                    t.records[attempts[i].draft].values
              /\ \A e \in Kind \ {attempts[i].draft} :
                   Rejected(t, i).records[e] = t.records[e]
         /\ Rejected(t, i).identity = t.identity
         /\ Rejected(t, i).auth = t.auth /\ Rejected(t, i).here = t.here
         /\ Rejected(t, i).flight = t.flight /\ Rejected(t, i).proofs = t.proofs
<1>1. CASE Owns(t, i)
  <2> DEFINE d == attempts[i].draft
             r == WithPhase(t.records[d], "ERROR")
             u == WithDraft(t, d, r)
  <2>1. d \in Kind /\ d \in using /\ t.records[d] # NoDraft /\ DraftOf(t.records[d], t.identity)
    BY <1>1, OwnersHaveDrafts DEF Owns
  <2>2. Rejected(t, i) = u
    BY <1>1 DEF Rejected, WithDraft
  <2>3. /\ DraftOf(r, t.identity) /\ r.phase = "ERROR" /\ r # NoDraft
        /\ r.values = t.records[d].values
    BY <2>1, PhasesOfDrafts
  <2> HIDE DEF d, r
  <2>4. /\ Follows(t, u)
        /\ u.auth = t.auth /\ u.here = t.here
        /\ u.flight = t.flight /\ u.proofs = t.proofs
        /\ u.identity = t.identity
        /\ u.records[d] = r
        /\ \A e \in Kind \ {d} : u.records[e] = t.records[e]
    BY <2>1, <2>3, OneRewritten
  <2> HIDE DEF u
  <2> QED
    BY <1>1, <2>2, <2>3, <2>4 DEF d
<1>2. CASE ~Owns(t, i)
  <2>1. Rejected(t, i) = t
    BY <1>2 DEF Rejected
  <2>2. Follows(t, t)
    BY DEF Follows, Loosens
  <2> QED
    BY <1>2, <2>1, <2>2
<1> QED
  BY <1>1, <1>2

LEMMA RejectingUnchecked ==
  ASSUME AttemptsInOrder, UsingOne, NEW t, TabInOrder(t), NEW i
  PROVE  /\ Follows(t, RejectedUnchecked(t, i))
         /\ Owns(t, i) => RejectedUnchecked(t, i).records = Rejected(t, i).records
         /\ ~Owns(t, i) => RejectedUnchecked(t, i) = t
<1>1. CASE Owns(t, i)
  <2> DEFINE u == Rejected(t, i)
             v == Quarantined(u)
             w == Unavailable(v)
  <2>1. RejectedUnchecked(t, i) = w
    BY <1>1 DEF RejectedUnchecked
  <2>2. Follows(t, u) /\ TabInOrder(u)
    BY Rejecting DEF Follows
  <2> HIDE DEF u
  <2>3. Follows(u, v) /\ TabInOrder(v)
    BY <2>2, Quarantining DEF Follows
  <2>4. v.records = u.records
    BY <2>2 DEF Quarantined, TabInOrder, TabFields
  <2> HIDE DEF v
  <2>5. Follows(v, w)
    BY <2>3, Retiring
  <2>6. w.records = v.records
    BY <2>3 DEF Unavailable, TabInOrder, TabFields
  <2> HIDE DEF w
  <2>7. Follows(t, w)
    BY <2>2, <2>3, <2>5, FollowsOn
  <2> QED
    BY <1>1, <2>1, <2>4, <2>6, <2>7 DEF u
<1>2. CASE ~Owns(t, i)
  BY <1>2 DEF RejectedUnchecked, Follows, Loosens
<1> QED
  BY <1>1, <1>2

LEMMA Settling ==
  ASSUME AttemptsInOrder, UsingOne, NEW t, TabInOrder(t), NEW i
  PROVE  /\ Follows(t, Settled(t, i))
         /\ ~Matches(t, i) => Settled(t, i) = t
         /\ Matches(t, i) =>
              /\ Settled(t, i).records[attempts[i].draft] =
                    Outcome(t.records[attempts[i].draft], i)
              /\ \A e \in Kind \ {attempts[i].draft} :
                   Settled(t, i).records[e] = t.records[e]
         /\ Settled(t, i).identity = t.identity
         /\ Settled(t, i).auth = t.auth /\ Settled(t, i).here = t.here
         /\ Settled(t, i).authorized = t.authorized
         /\ Settled(t, i).waiting = t.waiting /\ Settled(t, i).owned = t.owned
         /\ Settled(t, i).flight = t.flight /\ Settled(t, i).proofs = t.proofs
<1>1. CASE Matches(t, i)
  <2> DEFINE d == attempts[i].draft
             r == Outcome(t.records[d], i)
             u == WithDraft(t, d, r)
  <2>1. d \in Kind /\ d \in using /\ t.records[d] # NoDraft /\ DraftOf(t.records[d], t.identity)
    BY <1>1, OwnersHaveDrafts DEF Owns, Matches
  <2>2. Settled(t, i) = u
    BY <1>1 DEF Settled, WithDraft
  <2>3. DraftOf(r, t.identity) /\ r.phase # "PENDING" /\ r # NoDraft
    BY <2>1, OutcomesOfDrafts
  <2> HIDE DEF d, r
  <2>4. /\ Follows(t, u)
        /\ u.auth = t.auth /\ u.here = t.here /\ u.authorized = t.authorized
        /\ u.flight = t.flight /\ u.proofs = t.proofs
        /\ u.identity = t.identity /\ u.waiting = t.waiting /\ u.owned = t.owned
        /\ u.records[d] = r
        /\ \A e \in Kind \ {d} : u.records[e] = t.records[e]
    BY <2>1, <2>3, OneRewritten
  <2> HIDE DEF u
  <2> QED
    BY <1>1, <2>2, <2>3, <2>4 DEF d, r
<1>2. CASE ~Matches(t, i)
  <2>1. Settled(t, i) = t
    BY <1>2 DEF Settled
  <2>2. Follows(t, t)
    BY DEF Follows, Loosens
  <2> QED
    BY <1>2, <2>1, <2>2
<1> QED
  BY <1>1, <1>2

NewCall(t, resumes) ==
  [route |-> t.here, carried |-> cookie, resumes |-> resumes, reply |-> Nothing]

LEMMA Asking ==
  ASSUME NEW t, TabInOrder(t), NEW resumes \in Kind \cup {"none"},
         CanVerify(t) \/ ~Staff(t.here)
  PROVE  LET u == Verifying(t, resumes) IN
         /\ Follows(t, u)
         /\ u.records = t.records /\ u.identity = t.identity /\ u.here = t.here
         /\ u.owned = t.owned /\ u.waiting = t.waiting
         /\ Staff(t.here) => u.flight \in Proof
         /\ \/ u = t
            \/ /\ u.auth = "CHECKING" /\ u.flight \in Proof
               /\ t.proofs[u.flight] = NoCall /\ t.flight = NoProof
               /\ u.proofs = [t.proofs EXCEPT ![u.flight] = NewCall(t, resumes)]
               /\ u.logout = t.logout /\ u.undisturbed = {}
<1> DEFINE u == Verifying(t, resumes)
           p == CHOOSE q \in Free(t) : TRUE
           call == NewCall(t, resumes)
           v == Quarantined(t)
           w == [v EXCEPT !.flight = p, !.proofs[p] = call]
<1>1. CASE t.flight # NoProof \/ ~Staff(t.here)
  <2>1. u = t
    BY <1>1 DEF Verifying
  <2>2. Follows(t, t)
    BY DEF Follows, Loosens
  <2>3. Staff(t.here) => t.flight \in Proof
    BY <1>1 DEF TabInOrder, CallsInOrder
  <2> HIDE DEF u
  <2>4. u.records = t.records /\ u.identity = t.identity /\ u.here = t.here
        /\ u.owned = t.owned /\ u.waiting = t.waiting
    BY <2>1
  <2> QED
    BY <2>1, <2>2, <2>3, <2>4 DEF u
<1>2. CASE t.flight = NoProof /\ Staff(t.here)
  <2>1. u = w
    BY <1>2 DEF Verifying, NewCall
  <2>2. p \in Proof /\ t.proofs[p] = NoCall
    BY <1>2 DEF CanVerify, Free
  <2>3. /\ DOMAIN v = TabFields
        /\ v.records = t.records /\ v.identity = t.identity
        /\ v.owned = t.owned /\ v.waiting = t.waiting
        /\ v.proofs = t.proofs /\ v.logout = t.logout
        /\ v.auth = "CHECKING" /\ v.here = t.here /\ v.undisturbed = {} /\ v.shown = {}
    BY DEF Quarantined, TabFields, TabInOrder
  <2> HIDE DEF p, call, v, u
  <2>4. /\ DOMAIN w = TabFields
        /\ w.records = t.records /\ w.identity = t.identity
        /\ w.owned = t.owned /\ w.waiting = t.waiting
        /\ w.proofs = [t.proofs EXCEPT ![p] = call] /\ w.logout = t.logout
        /\ w.flight = p /\ w.auth = "CHECKING" /\ w.here = t.here /\ w.undisturbed = {}
        /\ w.shown = {}
    BY <2>3 DEF TabFields
  <2> HIDE DEF w
  <2>5. /\ DOMAIN call = CallFields /\ call.resumes \in Kind \cup {"none"}
        /\ NamesTheCarried(call)
    BY DEF call, CallFields, NewCall, NamesTheCarried, Nothing
  <2>6. CallsInOrder(w)
    BY <2>2, <2>4, <2>5 DEF TabInOrder, CallsInOrder
  <2>7. Follows(t, w)
    BY <2>4, <2>6, SameDraftsFollow
  <2> QED
    BY <1>2, <2>1, <2>2, <2>4, <2>7 DEF u, call
<1> QED
  BY <1>1, <1>2

LEMMA AskingAfresh ==
  ASSUME NEW t, TabInOrder(t), Free(t) # {} \/ ~Staff(t.here)
  PROVE  LET u == VerifyingAfresh(t) IN
         /\ Follows(t, u)
         /\ u.records = t.records /\ u.identity = t.identity /\ u.here = t.here
         /\ u.owned = t.owned /\ u.waiting = t.waiting /\ u.auth = "CHECKING"
         /\ u.logout = t.logout /\ u.undisturbed = {}
         /\ \/ u.flight = NoProof /\ u.proofs = t.proofs
            \/ /\ u.flight \in Proof /\ t.proofs[u.flight] = NoCall
               /\ u.proofs = [t.proofs EXCEPT ![u.flight] = NewCall(t, "none")]
<1> DEFINE v == Quarantined(t)
           u == Verifying(v, "none")
<1>1. /\ v.records = t.records /\ v.identity = t.identity /\ v.here = t.here
      /\ v.owned = t.owned /\ v.waiting = t.waiting /\ v.proofs = t.proofs
      /\ v.logout = t.logout /\ v.auth = "CHECKING" /\ v.undisturbed = {}
      /\ v.flight = NoProof
  BY DEF Quarantined, TabFields, TabInOrder
<1>2. Follows(t, v) /\ TabInOrder(v)
  BY Quarantining DEF Follows
<1>3. CanVerify(v) \/ ~Staff(v.here)
  BY <1>1 DEF CanVerify, Free
<1> HIDE DEF v
<1>4. /\ Follows(v, u)
      /\ u.records = v.records /\ u.identity = v.identity /\ u.here = v.here
      /\ u.owned = v.owned /\ u.waiting = v.waiting
      /\ \/ u = v
         \/ /\ u.auth = "CHECKING" /\ u.flight \in Proof
            /\ v.proofs[u.flight] = NoCall /\ v.flight = NoProof
            /\ u.proofs = [v.proofs EXCEPT ![u.flight] = NewCall(v, "none")]
            /\ u.logout = v.logout /\ u.undisturbed = {}
  BY <1>2, <1>3, Asking
<1>5. NewCall(v, "none") = NewCall(t, "none")
  BY <1>1 DEF NewCall
<1>6. VerifyingAfresh(t) = u
  BY DEF VerifyingAfresh, v
<1> HIDE DEF u
<1>7. Follows(t, u)
  BY <1>2, <1>4, FollowsOn
<1> QED
  BY <1>1, <1>4, <1>5, <1>6, <1>7

LEMMA GoingAway ==
  ASSUME NEW t, TabInOrder(t), NEW route
  PROVE  LET u == LeavingFor(t, route) IN
         /\ Follows(t, u)
         /\ u.records = t.records /\ u.identity = t.identity /\ u.here = t.here
         /\ u.owned = t.owned /\ u.waiting = t.waiting
         /\ u.auth = "CHECKING" /\ u.flight = NoProof /\ u.proofs = t.proofs
         /\ u.logout = t.logout /\ u.undisturbed = {}
<1> DEFINE u == LeavingFor(t, route)
<1>1. /\ DOMAIN u = TabFields
      /\ u.records = t.records /\ u.identity = t.identity /\ u.here = t.here
      /\ u.owned = t.owned /\ u.waiting = t.waiting /\ u.proofs = t.proofs
      /\ u.logout = t.logout /\ u.auth = "CHECKING" /\ u.undisturbed = {}
      /\ u.flight = NoProof /\ u.shown = {}
  BY DEF LeavingFor, Quarantined, TabFields, TabInOrder
<1> HIDE DEF u
<1>2. CallsInOrder(u)
  BY <1>1 DEF TabInOrder, CallsInOrder
<1>3. Follows(t, u)
  BY <1>1, <1>2, SameDraftsFollow
<1> QED
  BY <1>1, <1>3 DEF u

(* What is shown, read or reread is none of the drafts.                    *)
LEMMA SettlingNow ==
  ASSUME AttemptsInOrder, UsingOne, NEW t, TabInOrder(t), NEW i
  PROVE  LET u == SettledNow(t, i)
             d == attempts[i].draft IN
         /\ Follows(t, u)
         /\ ~Matches(t, i) => u = t
         /\ Matches(t, i) =>
              /\ \/ u.records[d] = Outcome(t.records[d], i)
                 \/ attempts[i].reply.is = "saved" /\ u.records[d] = NoDraft
              /\ \A e \in Kind \ {d} : u.records[e] = t.records[e]
         /\ u.identity = t.identity /\ u.here = t.here
         /\ u.proofs = t.proofs /\ u.logout = t.logout
         /\ u.flight \in {t.flight, NoProof}
         /\ u.undisturbed \subseteq t.undisturbed
<1>1. CASE ~Matches(t, i)
  <2>1. SettledNow(t, i) = t
    BY <1>1 DEF SettledNow
  <2>2. Follows(t, t)
    BY DEF Follows, Loosens
  <2> QED
    BY <1>1, <2>1, <2>2
<1>2. CASE Matches(t, i)
  <2> DEFINE d == attempts[i].draft
             u == Settled(t, i)
             v == [u EXCEPT !.resource = NoResource, !.rereads = {},
                            !.shown = @ \cap {"PHONE"}]
             x == Discarded(v, {d})
             y == LeavingFor(v, "agenda")
             w == SettledNow(t, i)
  <2>1. \/ attempts[i].reply.is # "saved" /\ w = u
        \/ attempts[i].reply.is = "saved" /\ w \in {x, y, v}
    BY <1>2, Zenon DEF SettledNow
  <2>2. /\ Follows(t, u) /\ TabInOrder(u)
        /\ u.records[d] = Outcome(t.records[d], i)
        /\ \A e \in Kind \ {d} : u.records[e] = t.records[e]
        /\ u.identity = t.identity /\ u.here = t.here /\ u.proofs = t.proofs
        /\ u.flight = t.flight
    BY <1>2, Settling DEF Follows
  <2>3. u.logout = t.logout /\ u.undisturbed = t.undisturbed
    BY DEF Settled, TabInOrder, TabFields
  <2>4. d \in Kind /\ u.records[d].phase # "PENDING"
    <3>1. d \in Kind /\ t.records[d] # NoDraft /\ DraftOf(t.records[d], t.identity)
      BY <1>2, OwnersHaveDrafts DEF Matches, Owns
    <3> HIDE DEF u, d
    <3> QED
      BY <2>2, <3>1, OutcomesOfDrafts
  <2> HIDE DEF u, d, w
  <2>5. /\ Follows(u, v) /\ TabInOrder(v)
        /\ v.records = u.records /\ v.identity = u.identity /\ v.here = u.here
        /\ v.proofs = u.proofs /\ v.flight = u.flight /\ v.logout = u.logout
        /\ v.undisturbed = u.undisturbed
    <3>1. /\ DOMAIN v = TabFields
          /\ v.records = u.records /\ v.identity = u.identity /\ v.here = u.here
          /\ v.owned = u.owned /\ v.waiting = u.waiting
          /\ v.proofs = u.proofs /\ v.flight = u.flight /\ v.logout = u.logout
          /\ v.undisturbed = u.undisturbed /\ v.auth = u.auth
          /\ v.shown \subseteq u.shown
      BY <2>2 DEF TabInOrder, TabFields
    <3> HIDE DEF v
    <3>2. CallsInOrder(v)
      BY <2>2, <3>1 DEF TabInOrder, CallsInOrder
    <3>3. Follows(u, v)
      BY <2>2, <3>1, <3>2, SameDraftsFollow
    <3> QED
      BY <3>1, <3>3 DEF Follows
  <2> HIDE DEF v
  <2>6. /\ Follows(v, x) /\ x.here = v.here /\ x.flight = v.flight /\ x.proofs = v.proofs
        /\ x.identity = v.identity /\ x.records[d] = NoDraft
        /\ \A e \in Kind \ {d} : x.records[e] = v.records[e]
    BY <2>4, <2>5, Discarding
  <2>7. x.logout = v.logout /\ x.undisturbed = v.undisturbed
    BY <2>5 DEF Discarded, TabInOrder, TabFields
  <2>8. /\ Follows(v, y) /\ y.records = v.records /\ y.identity = v.identity
        /\ y.here = v.here /\ y.flight = NoProof /\ y.proofs = v.proofs
        /\ y.logout = v.logout /\ y.undisturbed = {}
    BY <2>5, GoingAway
  <2> HIDE DEF x, y
  <2>9. Follows(t, v) /\ Follows(t, x) /\ Follows(t, y)
    BY <2>2, <2>5, <2>6, <2>8, FollowsOn
  <2>10. CASE w = u
    BY <1>2, <2>2, <2>3, <2>10 DEF w, d
  <2>11. CASE w = v
    BY <1>2, <2>2, <2>3, <2>5, <2>9, <2>11 DEF w, d
  <2>12. CASE w = x /\ attempts[i].reply.is = "saved"
    BY <1>2, <2>2, <2>3, <2>5, <2>6, <2>7, <2>9, <2>12 DEF w, d
  <2>13. CASE w = y
    BY <1>2, <2>2, <2>3, <2>5, <2>8, <2>9, <2>13 DEF w, d
  <2> QED
    BY <2>1, <2>10, <2>11, <2>12, <2>13
<1> QED
  BY <1>1, <1>2

-----------------------------------------------------------------------------
(* Who is locked is attended to.                                           *)

(* A locked draft is as it was submitted.                                  *)
LockedInOrder(t) ==
  \A d \in Kind :
    t.records[d].phase = "PENDING" =>
      LET r == t.records[d]
          i == r.attempt
      IN  /\ i \in DOMAIN attempts /\ i \in t.owned
          /\ attempts[i].draft = d /\ attempts[i].of = r.of
          /\ attempts[i].instance = r.instance /\ attempts[i].base = r.base
          /\ attempts[i].values = r.values

(* Its attempt, were those in W to end, goes on or is waited for.          *)
Attended(t, W) ==
  \A d \in Kind :
    t.records[d].phase = "PENDING" =>
      LET i == t.records[d].attempt
      IN  i \in t.waiting \/ (attempts[i].stage # "done" /\ i \notin W)

NoneLocked(t) == \A d \in Kind : t.records[d].phase # "PENDING"

LEMMA LockedOwns ==
  ASSUME NEW t, LockedInOrder(t), NEW d \in Kind, t.records[d].phase = "PENDING"
  PROVE  Owns(t, t.records[d].attempt) /\ attempts[t.records[d].attempt].draft = d
BY DEF LockedInOrder, Owns

LEMMA FollowersAreAttended ==
  ASSUME NEW t, NEW u, Follows(t, u), LockedInOrder(t), NEW W
  PROVE  LockedInOrder(u) /\ (Attended(t, W) => Attended(u, W))
BY DEF Follows, Loosens, LockedInOrder, Attended

(* What answers do to a draft: nothing, or the outcome of its attempt; one *)
(* that was saved may be put away.                                         *)
ByOutcome(t, u) ==
  \A d \in Kind :
    \/ u.records[d] = t.records[d]
    \/ \E i \in DOMAIN attempts :
         /\ Owns(t, i) /\ attempts[i].draft = d
         /\ \/ u.records[d] = Outcome(t.records[d], i)
            \/ attempts[i].reply.is = "saved" /\ u.records[d] = NoDraft

(* A behaviour is about one draft at most: when it is settled none is      *)
(* locked.                                                                 *)
LEMMA TheOnlyOne ==
  ASSUME AttemptsInOrder, UsingOne, NEW t, TabInOrder(t), NEW i, Owns(t, i),
         NEW u, TabInOrder(u), u.records[attempts[i].draft].phase # "PENDING"
  PROVE  NoneLocked(u)
<1>1. attempts[i].draft \in using
  BY OwnersHaveDrafts DEF Owns
<1>2. \A d \in Kind : d = attempts[i].draft \/ u.records[d] = NoDraft
  BY <1>1 DEF UsingOne, TabInOrder, RecordsInOrder
<1> QED
  BY <1>2 DEF NoneLocked, NoDraft

LEMMA SettlingOne ==
  ASSUME AttemptsInOrder, UsingOne, NEW t, TabInOrder(t), NEW i, Matches(t, i),
         NEW u, TabInOrder(u),
         LET d == attempts[i].draft IN
         /\ \/ u.records[d] = Outcome(t.records[d], i)
            \/ attempts[i].reply.is = "saved" /\ u.records[d] = NoDraft
         /\ \A e \in Kind \ {d} : u.records[e] = t.records[e]
  PROVE  NoneLocked(u) /\ ByOutcome(t, u)
<1> DEFINE d == attempts[i].draft
<1>1. /\ Owns(t, i) /\ i \in DOMAIN attempts /\ d \in Kind
      /\ t.records[d] # NoDraft /\ DraftOf(t.records[d], t.identity)
  BY OwnersHaveDrafts DEF Matches, Owns
<1>2. Outcome(t.records[d], i).phase # "PENDING"
  BY <1>1, OutcomesOfDrafts
<1>3. u.records[d].phase # "PENDING"
  BY <1>2 DEF NoDraft
<1>4. NoneLocked(u)
  BY <1>1, <1>3, TheOnlyOne
<1>5. ByOutcome(t, u)
  BY <1>1 DEF ByOutcome
<1> QED
  BY <1>4, <1>5

LEMMA SettlingLate ==
  ASSUME AttemptsInOrder, UsingOne, NEW t, TabInOrder(t), NEW i, Matches(t, i)
  PROVE  LET u == SettledLate(t, i) IN
         /\ Follows(t, u) /\ NoneLocked(u) /\ ByOutcome(t, u)
         /\ u.identity = t.identity /\ u.auth = t.auth /\ u.here = t.here
         /\ u.flight = t.flight /\ u.proofs = t.proofs
         /\ u.logout = t.logout /\ u.undisturbed = t.undisturbed
<1> DEFINE d == attempts[i].draft
           v == Settled(t, i)
           x == Discarded(v, {d})
           u == SettledLate(t, i)
<1>1. \/ u = v
      \/ attempts[i].reply.is = "saved" /\ u = x
  BY DEF SettledLate
<1>2. /\ Follows(t, v) /\ TabInOrder(v)
      /\ v.records[d] = Outcome(t.records[d], i)
      /\ \A e \in Kind \ {d} : v.records[e] = t.records[e]
      /\ v.identity = t.identity /\ v.auth = t.auth /\ v.here = t.here
      /\ v.proofs = t.proofs /\ v.flight = t.flight
  BY Settling DEF Follows
<1>3. v.logout = t.logout /\ v.undisturbed = t.undisturbed
  BY DEF Settled, TabInOrder, TabFields
<1>4. d \in Kind /\ v.records[d].phase # "PENDING"
  <2>1. d \in Kind /\ t.records[d] # NoDraft /\ DraftOf(t.records[d], t.identity)
    BY OwnersHaveDrafts DEF Matches, Owns
  <2> HIDE DEF v, d
  <2> QED
    BY <1>2, <2>1, OutcomesOfDrafts
<1> HIDE DEF v, d
<1>5. /\ Follows(v, x) /\ x.here = v.here /\ x.flight = v.flight /\ x.proofs = v.proofs
      /\ x.identity = v.identity /\ x.auth = v.auth /\ x.records[d] = NoDraft
      /\ \A e \in Kind \ {d} : x.records[e] = v.records[e]
  BY <1>2, <1>4, Discarding
<1>6. x.logout = v.logout /\ x.undisturbed = v.undisturbed
  BY <1>2 DEF Discarded, TabInOrder, TabFields
<1> HIDE DEF x, u
<1>7. /\ Follows(t, u)
      /\ u.identity = t.identity /\ u.auth = t.auth /\ u.here = t.here
      /\ u.flight = t.flight /\ u.proofs = t.proofs
      /\ u.logout = t.logout /\ u.undisturbed = t.undisturbed
  BY <1>1, <1>2, <1>3, <1>5, <1>6, FollowsOn
<1>8. /\ \/ u.records[d] = Outcome(t.records[d], i)
         \/ attempts[i].reply.is = "saved" /\ u.records[d] = NoDraft
      /\ \A e \in Kind \ {d} : u.records[e] = t.records[e]
  BY <1>1, <1>2, <1>5
<1>9. TabInOrder(u)
  BY <1>7 DEF Follows
<1>10. NoneLocked(u) /\ ByOutcome(t, u)
  BY <1>8, <1>9, SettlingOne DEF d
<1> QED
  BY <1>7, <1>10 DEF u

LEMMA AllAreLate ==
  ASSUME AttemptsInOrder, UsingOne, NEW t, TabInOrder(t), LockedInOrder(t),
         Attended(t, {}), t.auth = "AUTHORIZED"
  PROVE  LET u == AllLate(t) IN
         /\ TabInOrder(u) /\ LockedInOrder(u) /\ Attended(u, {}) /\ ByOutcome(t, u)
         /\ u.identity = t.identity /\ u.auth = t.auth /\ u.here = t.here
         /\ u.flight = t.flight /\ u.proofs = t.proofs
         /\ u.logout = t.logout /\ u.undisturbed = t.undisturbed
<1> DEFINE S == Awaited(t, t.waiting)
           i == TheOne(S)
           v == IF S = {} THEN t ELSE SettledLate(t, i)
           u == [v EXCEPT !.waiting = {}]
<1>1. AllLate(t) = u
  BY DEF AllLate
<1>2. /\ TabInOrder(v) /\ ByOutcome(t, v)
      /\ v.identity = t.identity /\ v.auth = t.auth /\ v.here = t.here
      /\ v.flight = t.flight /\ v.proofs = t.proofs
      /\ v.logout = t.logout /\ v.undisturbed = t.undisturbed
      /\ NoneLocked(v) \/ (v = t /\ S = {})
  <2>1. CASE S = {}
    <3>1. v = t
      BY <2>1
    <3> HIDE DEF v
    <3> QED
      BY <2>1, <3>1 DEF ByOutcome
  <2>2. CASE S # {}
    <3>1. i \in S
      BY <2>2 DEF TheOne
    <3>2. Matches(t, i)
      BY <3>1 DEF Awaited
    <3>3. v = SettledLate(t, i)
      BY <2>2
    <3> HIDE DEF v, i, S
    <3> QED
      BY <3>2, <3>3, SettlingLate DEF Follows
  <2> QED
    BY <2>1, <2>2
<1> HIDE DEF v
<1>3. /\ DOMAIN u = TabFields /\ u.records = v.records /\ u.owned = v.owned
      /\ u.waiting = {}
      /\ u.identity = v.identity /\ u.auth = v.auth /\ u.here = v.here
      /\ u.flight = v.flight /\ u.proofs = v.proofs
      /\ u.logout = v.logout /\ u.undisturbed = v.undisturbed /\ u.shown = v.shown
  BY <1>2 DEF TabInOrder, TabFields
<1> HIDE DEF u
<1>4. TabInOrder(u)
  BY <1>2, <1>3 DEF TabInOrder, RecordsInOrder, CallsInOrder
<1>5. LockedInOrder(u) /\ Attended(u, {})
  <2>1. CASE NoneLocked(v)
    BY <1>3, <2>1 DEF NoneLocked, LockedInOrder, Attended
  <2>2. CASE v = t /\ S = {}
    <3>1. LockedInOrder(u)
      BY <1>3, <2>2 DEF LockedInOrder
    <3>2. ASSUME NEW d \in Kind, t.records[d].phase = "PENDING"
          PROVE  attempts[t.records[d].attempt].stage # "done"
      <4>1. Matches(t, t.records[d].attempt)
        BY <3>2, LockedOwns DEF Matches
      <4>2. t.records[d].attempt \notin t.waiting
        BY <2>2, <4>1 DEF Awaited
      <4> QED
        BY <3>2, <4>2 DEF Attended
    <3> QED
      BY <1>3, <2>2, <3>1, <3>2 DEF Attended
  <2> QED
    BY <1>2, <2>1, <2>2
<1>6. ByOutcome(t, u)
  BY <1>2, <1>3 DEF ByOutcome
<1> QED
  BY <1>1, <1>2, <1>3, <1>4, <1>5, <1>6

LEMMA AllAreNow ==
  ASSUME AttemptsInOrder, UsingOne, NEW t, TabInOrder(t), LockedInOrder(t),
         Attended(t, {}), t.auth = "AUTHORIZED", NEW W
  PROVE  LET u == AllNow(t, W) IN
         /\ TabInOrder(u) /\ LockedInOrder(u) /\ Attended(u, W) /\ ByOutcome(t, u)
         /\ u.identity = t.identity /\ u.here = t.here
         /\ u.flight \in {t.flight, NoProof} /\ u.proofs = t.proofs
         /\ u.logout = t.logout /\ u.undisturbed \subseteq t.undisturbed
<1> DEFINE S == Awaited(t, W)
           i == TheOne(S)
           u == AllNow(t, W)
<1>1. CASE S = {}
  <2>1. u = t
    BY <1>1 DEF AllNow
  <2>2. ASSUME NEW d \in Kind, t.records[d].phase = "PENDING"
        PROVE  t.records[d].attempt \notin W
    <3>1. Matches(t, t.records[d].attempt)
      BY <2>2, LockedOwns DEF Matches
    <3> QED
      BY <1>1, <3>1 DEF Awaited
  <2>3. Attended(t, W)
    BY <2>2 DEF Attended
  <2> HIDE DEF u
  <2>4. ByOutcome(t, u)
    BY <2>1 DEF ByOutcome
  <2> QED
    BY <2>1, <2>3, <2>4 DEF u
<1>2. CASE S # {}
  <2>1. i \in S
    BY <1>2 DEF TheOne
  <2>2. Matches(t, i)
    BY <2>1 DEF Awaited
  <2>3. u = SettledNow(t, i)
    BY <1>2 DEF AllNow
  <2> HIDE DEF u, i, S
  <2>4. /\ Follows(t, u) /\ TabInOrder(u)
        /\ LET d == attempts[i].draft IN
           /\ \/ u.records[d] = Outcome(t.records[d], i)
              \/ attempts[i].reply.is = "saved" /\ u.records[d] = NoDraft
           /\ \A e \in Kind \ {d} : u.records[e] = t.records[e]
        /\ u.identity = t.identity /\ u.here = t.here
        /\ u.proofs = t.proofs /\ u.logout = t.logout
        /\ u.flight \in {t.flight, NoProof}
        /\ u.undisturbed \subseteq t.undisturbed
    BY <2>2, <2>3, SettlingNow DEF Follows
  <2>5. NoneLocked(u) /\ ByOutcome(t, u)
    BY <2>2, <2>4, SettlingOne
  <2>6. LockedInOrder(u) /\ Attended(u, W)
    BY <2>5 DEF NoneLocked, LockedInOrder, Attended
  <2> QED
    BY <2>4, <2>5, <2>6 DEF u
<1> QED
  BY <1>1, <1>2

(* What the server was asked to end, and what it said.                     *)
LogoutLeft(t, u) ==
  u.logout.carried = t.logout.carried /\ u.logout.reply = t.logout.reply

LEMMA Recognising ==
  ASSUME AttemptsInOrder, UsingOne, NEW t, TabInOrder(t), LockedInOrder(t),
         Attended(t, {}), NEW s, s # NoSession, NEW route
  PROVE  LET u == Recognised(t, s, route) IN
         /\ TabInOrder(u) /\ LockedInOrder(u) /\ Attended(u, {})
         /\ t.identity = s => ByOutcome(t, u) /\ u.logout = t.logout
         /\ t.identity # s => ~u.logout.owned
         /\ LogoutLeft(t, u)
         /\ u.identity = s /\ u.auth = "AUTHORIZED" /\ u.here = t.here
         /\ u.flight = t.flight /\ u.proofs = t.proofs
         /\ u.undisturbed \subseteq t.undisturbed
<1> DEFINE changed == t.identity \notin {NoSession, s}
           v == IF changed THEN [t EXCEPT !.resource = NoResource, !.waiting = {},
                                          !.shown = {}]
                ELSE t
           w == Authorized(v, s)
           x == [w EXCEPT !.authorized = route]
           u == AllLate(x)
<1>1. Recognised(t, s, route) = u
  BY DEF Recognised
<1>2. /\ TabInOrder(v)
      /\ v.records = t.records /\ v.owned = t.owned /\ v.identity = t.identity
      /\ v.here = t.here /\ v.flight = t.flight /\ v.proofs = t.proofs
      /\ v.logout = t.logout /\ v.undisturbed = t.undisturbed
      /\ t.identity = s => v = t
      /\ t.identity # s => v.shown = {}
  <2>1. /\ DOMAIN v = TabFields
        /\ v.records = t.records /\ v.owned = t.owned /\ v.identity = t.identity
        /\ v.here = t.here /\ v.flight = t.flight /\ v.proofs = t.proofs
        /\ v.logout = t.logout /\ v.undisturbed = t.undisturbed
        /\ v.waiting \in {{}, t.waiting} /\ v.shown \in {{}, t.shown}
        /\ v.auth = t.auth
    BY DEF TabInOrder, TabFields
  <2>2. t.identity = s => v = t
    OBVIOUS
  <2>3. t.identity # s => v.shown = {}
    <3>1. t.identity = NoSession => t.shown = {}
      BY DEF TabInOrder, RecordsInOrder, DraftOf
    <3>2. changed => v.shown = {}
      BY DEF TabInOrder, TabFields
    <3>3. ~changed => v = t
      OBVIOUS
    <3> HIDE DEF v
    <3> QED
      BY <3>1, <3>2, <3>3
  <2> HIDE DEF v
  <2> QED
    BY <2>1, <2>2, <2>3 DEF TabInOrder, RecordsInOrder, CallsInOrder
<1> HIDE DEF v
<1>3. /\ TabInOrder(w) /\ w.auth = "AUTHORIZED" /\ w.here = t.here
      /\ w.flight = t.flight /\ w.proofs = t.proofs /\ w.identity = s
      /\ w.records = IF t.identity = s THEN t.records ELSE NoDrafts
  BY <1>2, Authorizing DEF Follows
<1>4. /\ w.undisturbed = t.undisturbed
      /\ t.identity = s => /\ w.logout = t.logout /\ w.owned = t.owned
                           /\ w.waiting = t.waiting
      /\ t.identity # s => ~w.logout.owned
      /\ LogoutLeft(t, w)
  BY <1>2 DEF Authorized, TabInOrder, CallsInOrder, TabFields, LogoutFields, LogoutLeft
<1> HIDE DEF w
<1>5. /\ DOMAIN x = TabFields /\ x.records = w.records /\ x.owned = w.owned
      /\ x.waiting = w.waiting /\ x.identity = s /\ x.auth = w.auth
      /\ x.here = w.here /\ x.flight = w.flight /\ x.proofs = w.proofs
      /\ x.logout = w.logout /\ x.undisturbed = w.undisturbed /\ x.shown = w.shown
  BY <1>3 DEF TabInOrder, TabFields
<1> HIDE DEF x
<1>6. TabInOrder(x)
  BY <1>3, <1>5 DEF TabInOrder, RecordsInOrder, CallsInOrder
<1>7. LockedInOrder(x) /\ Attended(x, {})
  <2>1. CASE t.identity = s
    BY <1>3, <1>4, <1>5, <2>1 DEF LockedInOrder, Attended
  <2>2. CASE t.identity # s
    <3>1. NoneLocked(x)
      BY <1>3, <1>5, <2>2 DEF NoneLocked, NoDrafts, NoDraft
    <3> QED
      BY <3>1 DEF NoneLocked, LockedInOrder, Attended
  <2> QED
    BY <2>1, <2>2
<1>8. /\ TabInOrder(u) /\ LockedInOrder(u) /\ Attended(u, {}) /\ ByOutcome(x, u)
      /\ u.identity = x.identity /\ u.auth = x.auth /\ u.here = x.here
      /\ u.flight = x.flight /\ u.proofs = x.proofs
      /\ u.logout = x.logout /\ u.undisturbed = x.undisturbed
  BY <1>3, <1>5, <1>6, <1>7, AllAreLate
<1> HIDE DEF u
<1>9. t.identity = s => ByOutcome(t, u)
  BY <1>3, <1>4, <1>5, <1>8 DEF ByOutcome, Owns
<1> QED
  BY <1>1, <1>3, <1>4, <1>5, <1>8, <1>9 DEF LogoutLeft

LEMMA Keeping ==
  ASSUME NEW t, TabInOrder(t), LockedInOrder(t), Attended(t, {}), NEW S
  PROVE  LET u == Kept(t, S) IN
         /\ TabInOrder(u) /\ LockedInOrder(u) /\ Attended(u, S)
         /\ u.records = t.records /\ u.identity = t.identity /\ u.auth = t.auth
         /\ u.here = t.here /\ u.flight = t.flight /\ u.proofs = t.proofs
         /\ u.logout = t.logout /\ u.undisturbed = t.undisturbed
         /\ u.authorized = t.authorized /\ u.owned = t.owned
<1> DEFINE kept == {i \in S : ToKeep(t, i)}
           u == Kept(t, S)
<1>1. /\ DOMAIN u = TabFields /\ u.waiting = t.waiting \cup kept
      /\ u.records = t.records /\ u.identity = t.identity /\ u.auth = t.auth
      /\ u.here = t.here /\ u.flight = t.flight /\ u.proofs = t.proofs
      /\ u.logout = t.logout /\ u.undisturbed = t.undisturbed
      /\ u.authorized = t.authorized /\ u.owned = t.owned /\ u.shown = t.shown
  BY DEF Kept, TabInOrder, TabFields
<1>2. kept \subseteq t.owned
  BY DEF ToKeep
<1>3. ASSUME NEW d \in Kind, t.records[d].phase = "PENDING", t.records[d].attempt \in S
      PROVE  t.records[d].attempt \in kept
  BY <1>3 DEF LockedInOrder, ToKeep
<1> HIDE DEF kept, u
<1>4. TabInOrder(u)
  BY <1>1, <1>2 DEF TabInOrder, RecordsInOrder, CallsInOrder
<1>5. LockedInOrder(u)
  BY <1>1 DEF LockedInOrder
<1>6. Attended(u, S)
  BY <1>1, <1>3 DEF Attended
<1> QED
  BY <1>1, <1>4, <1>5, <1>6 DEF u

LEMMA Resuming ==
  ASSUME NEW t, TabInOrder(t), NEW d \in Kind \cup {"none"}
  PROVE  LET u == Resumed(t, d) IN
         /\ Follows(t, u)
         /\ \/ /\ u.records = t.records /\ u.identity = t.identity
               /\ u.logout = t.logout /\ u.flight = t.flight /\ u.auth = t.auth
               /\ u.undisturbed = t.undisturbed
            \/ /\ u = Erased(t) /\ ~Authentic(cookie)
               /\ d \in Kind /\ Unsaved(t.records[d])
         /\ u.here = t.here /\ u.proofs = t.proofs
<1> DEFINE x == [t EXCEPT !.shown = @ \cup {d}]
           y == [t EXCEPT !.resource = reservation, !.shown = @ \cup {d}]
           u == Resumed(t, d)
<1>1. \/ u = t
      \/ u \in {x, y} /\ d \in Kind /\ Unsaved(t.records[d])
      \/ /\ u = Erased(t) /\ ~Authentic(cookie)
         /\ d \in Kind /\ Unsaved(t.records[d])
  BY Zenon DEF Resumed
<1>2. ASSUME NEW v, v = t \/ (v \in {x, y} /\ d \in Kind /\ Unsaved(t.records[d]))
      PROVE  /\ Follows(t, v)
             /\ v.records = t.records /\ v.identity = t.identity
             /\ v.logout = t.logout /\ v.flight = t.flight /\ v.auth = t.auth
             /\ v.here = t.here /\ v.proofs = t.proofs
             /\ v.undisturbed = t.undisturbed
  <2>1. /\ DOMAIN v = TabFields
        /\ v.records = t.records /\ v.identity = t.identity
        /\ v.logout = t.logout /\ v.flight = t.flight /\ v.auth = t.auth
        /\ v.here = t.here /\ v.proofs = t.proofs
        /\ v.undisturbed = t.undisturbed
        /\ v.owned = t.owned /\ v.waiting = t.waiting
        /\ v.shown = t.shown \/ (v.shown = t.shown \cup {d} /\ Unsaved(t.records[d]) /\ d \in Kind)
    BY <1>2 DEF TabInOrder, TabFields
  <2>2. CallsInOrder(v)
    BY <2>1 DEF TabInOrder, CallsInOrder
  <2> HIDE DEF x, y
  <2>3. Follows(t, v)
    BY <2>1, <2>2, SameDraftsFollow DEF Unsaved, NoDraft
  <2> QED
    BY <2>1, <2>3
<1> HIDE DEF x, y, u
<1>3. CASE u = t \/ (u \in {x, y} /\ d \in Kind /\ Unsaved(t.records[d]))
  BY <1>2, <1>3 DEF u
<1>4. CASE /\ u = Erased(t) /\ ~Authentic(cookie)
           /\ d \in Kind /\ Unsaved(t.records[d])
  <2>1. Follows(t, Erased(t)) /\ Erased(t).here = t.here /\ Erased(t).proofs = t.proofs
    BY Erasing
  <2> HIDE DEF Erased
  <2> QED
    BY <1>4, <2>1 DEF u
<1> QED
  BY <1>1, <1>3, <1>4

-----------------------------------------------------------------------------
(* The whole of what the host keeps.                                       *)
HostInOrder ==
  /\ UsingOne
  /\ AttemptsInOrder
  /\ TabInOrder(tab)
  /\ LockedInOrder(tab)
  /\ Attended(tab, {})
  /\ \A i \in DOMAIN attempts :
       attempts[i].stage = "proof" => NamesTheCarried(attempts[i])

LEMMA Hearing ==
  ASSUME HostInOrder, NEW p \in Proof
  PROVE  LET u == Heard(p) IN
         /\ Follows(tab, u)
         /\ TabInOrder(u) /\ LockedInOrder(u) /\ Attended(u, {})
         /\ u.records = tab.records /\ u.identity = tab.identity /\ u.auth = tab.auth
         /\ u.here = tab.here /\ u.logout = tab.logout
         /\ u.undisturbed = tab.undisturbed /\ u.authorized = tab.authorized
         /\ u.owned = tab.owned
         /\ u.flight = IF tab.flight = p THEN NoProof ELSE tab.flight
         /\ u.proofs = [tab.proofs EXCEPT ![p] = NoCall]
<1> DEFINE u == Heard(p)
<1>1. /\ DOMAIN u = TabFields
      /\ u.records = tab.records /\ u.identity = tab.identity /\ u.auth = tab.auth
      /\ u.here = tab.here /\ u.logout = tab.logout
      /\ u.undisturbed = tab.undisturbed /\ u.authorized = tab.authorized
      /\ u.owned = tab.owned /\ u.waiting = tab.waiting /\ u.shown = tab.shown
      /\ u.flight = IF tab.flight = p THEN NoProof ELSE tab.flight
      /\ u.proofs = [tab.proofs EXCEPT ![p] = NoCall]
  BY DEF Heard, HostInOrder, TabInOrder, TabFields
<1> HIDE DEF u
<1>2. CallsInOrder(u)
  <2>1. DOMAIN NoCall = CallFields /\ NoCall.resumes = "none" /\ NamesTheCarried(NoCall)
    BY DEF NoCall, CallFields, NamesTheCarried, Nothing
  <2> QED
    BY <1>1, <2>1 DEF HostInOrder, TabInOrder, CallsInOrder
<1>3. Follows(tab, u)
  BY <1>1, <1>2, SameDraftsFollow DEF HostInOrder
<1>4. TabInOrder(u) /\ LockedInOrder(u) /\ Attended(u, {})
  BY <1>3, FollowersAreAttended DEF HostInOrder, Follows
<1> QED
  BY <1>1, <1>3, <1>4 DEF u

(* The server named the session of a proof in flight.                      *)
LEMMA Verifications ==
  ASSUME HostInOrder, NEW p \in Proof, Holds(p)
  PROVE  LET u == Verified(p)
             who == tab.proofs[p].reply.who IN
         /\ TabInOrder(u) /\ LockedInOrder(u) /\ Attended(u, Waiting(p))
         /\ u.here = tab.here
         /\ u.flight = NoProof
         /\ u.proofs = [tab.proofs EXCEPT ![p] = NoCall]
         /\ u.undisturbed \subseteq tab.undisturbed
         /\ LogoutLeft(tab, u)
         /\ \/ /\ u.identity = who
               /\ tab.identity = who => u.logout = tab.logout
               /\ tab.identity # who => ~u.logout.owned
            \/ u.records = NoDrafts /\ u.identity = NoSession /\ ~u.logout.owned
         /\ tab.identity = who =>
              \/ \E v : ByOutcome(tab, v) /\ ByOutcome(v, u) /\ TabInOrder(v) /\ LockedInOrder(v)
              \/ ~Authentic(cookie)
<1> DEFINE call == tab.proofs[p]
           t == Heard(p)
           r == Recognised(t, call.reply.who, call.route)
           n == AllNow(r, Waiting(p))
           u == Resumed(n, call.resumes)
<1>1. Verified(p) = u
  BY DEF Verified
<1>2. /\ tab.flight = p /\ p # NoProof /\ call.resumes \in Kind \cup {"none"}
      /\ call.reply.who # NoSession
  BY StaffDraftsAssumption DEF NamesTheCarried, Holds, Stale, HostInOrder, TabInOrder, CallsInOrder
<1>3. /\ TabInOrder(t) /\ LockedInOrder(t) /\ Attended(t, {})
      /\ t.records = tab.records /\ t.identity = tab.identity
      /\ t.here = tab.here /\ t.logout = tab.logout
      /\ t.undisturbed = tab.undisturbed
      /\ t.owned = tab.owned
      /\ t.flight = NoProof
      /\ t.proofs = [tab.proofs EXCEPT ![p] = NoCall]
  BY <1>2, Hearing
<1> HIDE DEF t, call
<1>4. /\ TabInOrder(r) /\ LockedInOrder(r) /\ Attended(r, {})
      /\ t.identity = call.reply.who => ByOutcome(t, r) /\ r.logout = t.logout
      /\ t.identity # call.reply.who => ~r.logout.owned
      /\ LogoutLeft(t, r)
      /\ r.identity = call.reply.who /\ r.auth = "AUTHORIZED" /\ r.here = t.here
      /\ r.flight = t.flight /\ r.proofs = t.proofs
      /\ r.undisturbed \subseteq t.undisturbed
  BY <1>2, <1>3, Recognising DEF HostInOrder
<1> HIDE DEF r
<1>5. /\ TabInOrder(n) /\ LockedInOrder(n) /\ Attended(n, Waiting(p)) /\ ByOutcome(r, n)
      /\ n.identity = r.identity /\ n.here = r.here
      /\ n.flight = NoProof /\ n.proofs = r.proofs
      /\ n.logout = r.logout /\ n.undisturbed \subseteq r.undisturbed
  BY <1>3, <1>4, AllAreNow DEF HostInOrder
<1> HIDE DEF n
<1>6. /\ Follows(n, u) /\ u.here = n.here /\ u.proofs = n.proofs
      /\ \/ /\ u.records = n.records /\ u.identity = n.identity
            /\ u.logout = n.logout /\ u.flight = n.flight
            /\ u.undisturbed = n.undisturbed
         \/ u = Erased(n) /\ ~Authentic(cookie)
  BY <1>2, <1>5, Resuming
<1> HIDE DEF u
<1>7. TabInOrder(u) /\ LockedInOrder(u) /\ Attended(u, Waiting(p))
  BY <1>5, <1>6, FollowersAreAttended DEF Follows
<1>8. u = Erased(n) => /\ u.records = NoDrafts /\ u.identity = NoSession
                      /\ ~u.logout.owned /\ u.flight = NoProof /\ u.undisturbed = {}
                      /\ LogoutLeft(n, u)
  BY <1>5 DEF Erased, TabInOrder, CallsInOrder, TabFields, LogoutFields, LogoutLeft
<1>9. tab.identity = call.reply.who => ByOutcome(tab, r)
  BY <1>3, <1>4 DEF ByOutcome, Owns
<1>10. u.records = n.records => ByOutcome(r, u)
  BY <1>5 DEF ByOutcome
<1> QED
  BY <1>1, <1>3, <1>4, <1>5, <1>6, <1>7, <1>8, <1>9, <1>10 DEF call, LogoutLeft

LEMMA Refusals ==
  ASSUME HostInOrder, NEW p \in Proof
  PROVE  LET u == NotVerified(p) IN
         /\ TabInOrder(u) /\ LockedInOrder(u) /\ Attended(u, Waiting(p))
         /\ u.here = tab.here
         /\ u.flight \in {NoProof, tab.flight}
         /\ tab.flight = p => u.flight = NoProof
         /\ u.proofs = [tab.proofs EXCEPT ![p] = NoCall]
         /\ tab.flight # p => u.auth = tab.auth /\ u.authorized = tab.authorized
         /\ u.undisturbed \subseteq tab.undisturbed
         /\ LogoutLeft(tab, u)
         /\ \/ /\ u.records = tab.records /\ u.identity = tab.identity
               /\ u.logout = tab.logout
            \/ /\ tab.flight = p /\ tab.proofs[p].reply # Down
               /\ tab.proofs[p].route = tab.here
               /\ u.records = NoDrafts /\ u.identity = NoSession /\ ~u.logout.owned
<1> DEFINE call == tab.proofs[p]
           t == Heard(p)
           v == IF Stale(tab, p) THEN t
                ELSE IF call.reply = Down THEN Unavailable(t)
                ELSE IF call.route # tab.here THEN t
                ELSE Erased(t)
           u == Kept(v, Waiting(p))
<1>1. NotVerified(p) = u
  BY DEF NotVerified
<1>2. /\ TabInOrder(t) /\ LockedInOrder(t) /\ Attended(t, {})
      /\ t.records = tab.records /\ t.identity = tab.identity /\ t.auth = tab.auth
      /\ t.here = tab.here /\ t.logout = tab.logout
      /\ t.undisturbed = tab.undisturbed /\ t.authorized = tab.authorized
      /\ t.owned = tab.owned
      /\ t.flight = IF tab.flight = p THEN NoProof ELSE tab.flight
      /\ t.proofs = [tab.proofs EXCEPT ![p] = NoCall]
  BY Hearing
<1> HIDE DEF t
<1>3. /\ TabInOrder(v) /\ LockedInOrder(v) /\ Attended(v, {})
      /\ v.here = t.here /\ v.proofs = t.proofs
  <2>1. Follows(t, t) /\ t.here = t.here
    BY <1>2 DEF Follows, Loosens
  <2>2. v \in {t, Unavailable(t), Erased(t)}
    OBVIOUS
  <2> HIDE DEF v
  <2>3. Follows(t, v) /\ v.here = t.here /\ v.proofs = t.proofs
    BY <1>2, <2>1, <2>2, Retiring, Erasing
  <2> QED
    BY <1>2, <2>3, FollowersAreAttended DEF Follows
<1>4. /\ v.flight \in {NoProof, tab.flight}
      /\ tab.flight = p => v.flight = NoProof
      /\ tab.flight # p => v.auth = tab.auth /\ v.authorized = tab.authorized
      /\ v.undisturbed \subseteq tab.undisturbed
      /\ LogoutLeft(tab, v)
      /\ \/ /\ v.records = tab.records /\ v.identity = tab.identity
            /\ v.logout = tab.logout
         \/ /\ tab.flight = p /\ call.reply # Down /\ call.route = tab.here
            /\ v.records = NoDrafts /\ v.identity = NoSession /\ ~v.logout.owned
  <2>1. CASE Stale(tab, p)
    <3>1. v = t /\ tab.flight # p
      BY <2>1 DEF Stale
    <3> HIDE DEF v
    <3> QED
      BY <1>2, <3>1 DEF LogoutLeft
  <2>2. CASE ~Stale(tab, p) /\ call.reply = Down
    <3>1. v = Unavailable(t) /\ tab.flight = p
      BY <2>2 DEF Stale
    <3>2. /\ v.records = t.records /\ v.identity = t.identity /\ v.logout = t.logout
          /\ v.flight = t.flight /\ v.undisturbed = t.undisturbed
      BY <1>2, <3>1 DEF Unavailable, TabInOrder, TabFields
    <3> HIDE DEF v
    <3> QED
      BY <1>2, <3>1, <3>2 DEF LogoutLeft
  <2>3. CASE ~Stale(tab, p) /\ call.reply # Down /\ call.route # tab.here
    <3>1. v = t /\ tab.flight = p
      BY <2>3 DEF Stale
    <3> HIDE DEF v
    <3> QED
      BY <1>2, <3>1 DEF LogoutLeft
  <2>4. CASE ~Stale(tab, p) /\ call.reply # Down /\ call.route = tab.here
    <3>1. v = Erased(t) /\ tab.flight = p
      BY <2>4 DEF Stale
    <3>2. LET w == Erased(t) IN
          /\ w.records = NoDrafts /\ w.identity = NoSession /\ ~w.logout.owned
          /\ w.flight = NoProof /\ w.undisturbed = {}
          /\ LogoutLeft(t, w)
      BY <1>2 DEF Erased, TabInOrder, CallsInOrder, TabFields, LogoutFields, LogoutLeft
    <3> HIDE DEF v
    <3> QED
      BY <1>2, <2>4, <3>1, <3>2 DEF LogoutLeft
  <2> QED
    BY <2>1, <2>2, <2>3, <2>4
<1> HIDE DEF v
<1>5. /\ TabInOrder(u) /\ LockedInOrder(u) /\ Attended(u, Waiting(p))
      /\ u.records = v.records /\ u.identity = v.identity /\ u.auth = v.auth
      /\ u.here = v.here /\ u.flight = v.flight /\ u.proofs = v.proofs
      /\ u.logout = v.logout /\ u.undisturbed = v.undisturbed
      /\ u.authorized = v.authorized
  BY <1>3, Keeping
<1> HIDE DEF u
<1> QED
  BY <1>1, <1>2, <1>3, <1>4, <1>5 DEF call, LogoutLeft

-----------------------------------------------------------------------------
(* How attempts and the host go on together.                               *)

(* The attempts go on, or end if they are in W.                            *)
GoOn(W) ==
  /\ AttemptsStay
  /\ \A i \in DOMAIN attempts :
       /\ attempts'[i].stage = "done" => attempts[i].stage = "done" \/ i \in W
       /\ attempts'[i].stage = "proof" => NamesTheCarried(attempts'[i])

LEMMA StandingGoOn == HostInOrder /\ UNCHANGED attempts => GoOn({})
BY UnchangedStay DEF GoOn, HostInOrder

LEMMA OneGoesOn ==
  ASSUME HostInOrder, NEW i \in DOMAIN attempts, NEW a,
         attempts' = [attempts EXCEPT ![i] = a], AttemptsStay,
         a.stage = "done" => attempts[i].stage = "done",
         a.stage = "proof" => NamesTheCarried(a)
  PROVE  GoOn({})
<1>1. /\ attempts'[i] = a
      /\ \A j \in DOMAIN attempts : j # i => attempts'[j] = attempts[j]
  OBVIOUS
<1> QED
  BY <1>1 DEF GoOn, HostInOrder

LEMMA RepliesGoOn ==
  ASSUME HostInOrder, NEW i \in DOMAIN attempts, NEW r, Reply(i, r),
         attempts[i].stage = "proof" /\ r.is = "session" =>
           r.who = attempts[i].carried /\ attempts[i].carried # NoSession
  PROVE  GoOn({})
<1> DEFINE a == [attempts[i] EXCEPT !.reply = r]
<1>1. attempts' = [attempts EXCEPT ![i] = a]
  BY DEF Reply
<1>2. AttemptsStay
  BY ReplyStays DEF HostInOrder
<1>3. DOMAIN attempts[i] = AttemptFields
  BY DEF HostInOrder, AttemptsInOrder
<1>4. a.stage = attempts[i].stage /\ a.reply = r /\ a.carried = attempts[i].carried
  BY <1>3 DEF AttemptFields
<1> HIDE DEF a
<1>5. a.stage = "proof" => NamesTheCarried(a)
  BY <1>4 DEF NamesTheCarried
<1> QED
  BY <1>1, <1>2, <1>4, <1>5, OneGoesOn

LEMMA AsksGoOn ==
  ASSUME HostInOrder, NEW i \in DOMAIN attempts, NEW step \in {"save", "reread"},
         Asks(i, step)
  PROVE  GoOn({})
<1> DEFINE a == [attempts[i] EXCEPT !.stage = step, !.carried = cookie,
                                    !.reply = Nothing]
<1>1. DOMAIN attempts[i] = AttemptFields
  BY DEF HostInOrder, AttemptsInOrder
<1>2. attempts' = [attempts EXCEPT ![i] = a]
  BY <1>1 DEF Asks
<1>3. AttemptsStay
  BY AsksStays DEF HostInOrder
<1>4. a.stage = step
  BY <1>1 DEF AttemptFields
<1> HIDE DEF a
<1> QED
  BY <1>2, <1>3, <1>4, OneGoesOn

LEMMA VerifyGoesOn ==
  ASSUME HostInOrder, NEW i \in DOMAIN attempts, NEW p,
         attempts' = [attempts EXCEPT ![i].stage = "verify", ![i].proof = p]
  PROVE  GoOn({})
<1> DEFINE a == [attempts[i] EXCEPT !.stage = "verify", !.proof = p]
<1>1. DOMAIN attempts[i] = AttemptFields
  BY DEF HostInOrder, AttemptsInOrder
<1>2. attempts' = [attempts EXCEPT ![i] = a]
  BY <1>1
<1>3. a.stage = "verify" /\ SameAttempt(attempts[i], a)
  BY <1>1 DEF AttemptFields, SameAttempt, AskedFields
<1> HIDE DEF a
<1>4. AttemptsStay
  BY <1>2, <1>3, OneAttemptStays DEF HostInOrder
<1> QED
  BY <1>2, <1>3, <1>4, OneGoesOn

LEMMA EndedGoOn ==
  ASSUME HostInOrder, NEW S, Ended(S)
  PROVE  GoOn(S)
<1> DEFINE ended(a, i) == [a EXCEPT !.stage = "done", !.carried = NoSession,
                                    !.proof = NoProof,
                                    !.reply = IF i \in tab'.waiting THEN @ ELSE Nothing]
<1>1. attempts' = [i \in DOMAIN attempts |->
                     IF i \notin S THEN attempts[i] ELSE ended(attempts[i], i)]
  BY DEF Ended
<1>2. \A a, i : DOMAIN a = AttemptFields => ended(a, i).stage = "done"
  BY DEF AttemptFields
<1> HIDE DEF ended
<1>3. AttemptsStay
  BY EndedStay DEF HostInOrder
<1>4. \A i \in S \cap DOMAIN attempts : attempts'[i].stage = "done"
  BY <1>1, <1>2 DEF HostInOrder, AttemptsInOrder
<1>5. \A i \in DOMAIN attempts \ S : attempts'[i] = attempts[i]
  BY <1>1
<1> HIDE <1>1
<1> QED
  BY <1>3, <1>4, <1>5 DEF GoOn, HostInOrder

LEMMA NewDocumentGoesOn ==
  ASSUME HostInOrder, NEW route, NewDocument(route)
  PROVE  GoOn(DOMAIN attempts)
<1>1. attempts' = [i \in DOMAIN attempts |-> Orphaned(attempts[i])]
  BY DEF NewDocument
<1>2. \A a : DOMAIN a = AttemptFields => Orphaned(a).stage \in {"orphan", "done"}
  BY DEF AttemptFields, Orphaned
<1>3. \A i \in DOMAIN attempts : attempts'[i].stage # "proof"
  BY <1>1, <1>2 DEF HostInOrder, AttemptsInOrder
<1>4. AttemptsStay
  BY NewDocumentStay DEF HostInOrder
<1> QED
  BY <1>3, <1>4 DEF GoOn

(* A step of the host keeps it in order if the new page attends to what    *)
(* does not end.                                                           *)
LEMMA HostGoesOn ==
  ASSUME HostInOrder, NEW W, GoOn(W), UNCHANGED using,
         NEW t, tab' = t, TabInOrder(t), LockedInOrder(t), Attended(t, W)
  PROVE  HostInOrder'
<1>1. /\ AttemptsStay
      /\ DOMAIN attempts' = DOMAIN attempts
      /\ \A i \in DOMAIN attempts : \A f \in AskedFields : attempts'[i][f] = attempts[i][f]
      /\ \A i \in DOMAIN attempts : DOMAIN attempts'[i] = AttemptFields
  BY DEF GoOn, AttemptsStay, SameAttempt
<1>2. \A i \in DOMAIN attempts :
        /\ attempts'[i].draft = attempts[i].draft /\ attempts'[i].of = attempts[i].of
        /\ attempts'[i].instance = attempts[i].instance
        /\ attempts'[i].base = attempts[i].base
        /\ attempts'[i].values = attempts[i].values
  BY <1>1 DEF AskedFields
<1>3. AttemptsInOrder'
  BY <1>1, <1>2 DEF AttemptsInOrder, AttemptsStay, HostInOrder
<1>4. TabInOrder(tab)'
  BY <1>1 DEF TabInOrder, RecordsInOrder, CallsInOrder
<1>5. LockedInOrder(tab)'
  BY <1>1, <1>2 DEF LockedInOrder
<1>6. Attended(tab, {})'
  BY DEF Attended, GoOn, LockedInOrder
<1>7. \A i \in DOMAIN attempts' :
        attempts'[i].stage = "proof" => NamesTheCarried(attempts'[i])
  BY <1>1 DEF GoOn
<1>8. UsingOne'
  BY DEF HostInOrder, UsingOne
<1> QED
  BY <1>3, <1>4, <1>5, <1>6, <1>7, <1>8 DEF HostInOrder, NamesTheCarried

LEMMA HostFollows ==
  ASSUME HostInOrder, GoOn({}), UNCHANGED using, NEW t, tab' = t, Follows(tab, t)
  PROVE  HostInOrder'
<1>1. TabInOrder(t) /\ LockedInOrder(t) /\ Attended(t, {})
  BY FollowersAreAttended DEF HostInOrder, Follows
<1> QED
  BY <1>1, HostGoesOn

(* An attempt ends whose draft does not wait for it any more.              *)
LEMMA HostEnds ==
  ASSUME HostInOrder, NEW i \in DOMAIN attempts, NEW t, Ends(i, t),
         Follows(tab, t), ~Owns(t, i)
  PROVE  HostInOrder'
<1>1. TabInOrder(t) /\ LockedInOrder(t) /\ Attended(t, {})
  BY FollowersAreAttended DEF HostInOrder, Follows
<1>2. Attended(t, {i})
  BY <1>1, LockedOwns DEF Attended
<1>3. GoOn({i}) /\ UNCHANGED using /\ tab' = t
  BY EndedGoOn DEF Ends, Surroundings, Outside
<1> QED
  BY <1>1, <1>2, <1>3, HostGoesOn

LEMMA FreshTabInOrder ==
  ASSUME NEW route
  PROVE  /\ TabInOrder(FreshTab(route)) /\ NoneLocked(FreshTab(route))
         /\ FreshTab(route).auth = "UNKNOWN" /\ FreshTab(route).records = NoDrafts
<1> DEFINE t == FreshTab(route)
<1>1. /\ DOMAIN t = TabFields /\ t.records = NoDrafts /\ t.identity = NoSession
      /\ t.owned = {} /\ t.waiting = {} /\ t.flight = NoProof
      /\ t.proofs = [p \in Proof |-> NoCall] /\ t.logout = NoLogout
      /\ t.shown = {} /\ t.auth = "UNKNOWN"
  BY DEF FreshTab, TabFields
<1> HIDE DEF t
<1>2. CallsInOrder(t)
  <2>1. DOMAIN NoCall = CallFields /\ NoCall.resumes = "none" /\ NamesTheCarried(NoCall)
    BY DEF NoCall, CallFields, NamesTheCarried, Nothing
  <2>2. DOMAIN NoLogout = LogoutFields
    BY DEF NoLogout, LogoutFields
  <2> QED
    BY <1>1, <2>1, <2>2 DEF CallsInOrder
<1>3. TabInOrder(t)
  BY <1>1, <1>2 DEF TabInOrder, RecordsInOrder, NoDrafts, DraftOf
<1>4. NoneLocked(t)
  BY <1>1 DEF NoneLocked, NoDrafts, NoDraft
<1> QED
  BY <1>1, <1>3, <1>4 DEF t

LEMMA HostIsReplaced ==
  ASSUME HostInOrder, NEW route, NewDocument(route), UNCHANGED using
  PROVE  HostInOrder'
<1> DEFINE t == FreshTab(route)
<1>1. TabInOrder(t) /\ NoneLocked(t)
  BY FreshTabInOrder
<1>2. tab' = t
  BY DEF NewDocument
<1> HIDE DEF t
<1>3. LockedInOrder(t) /\ Attended(t, DOMAIN attempts)
  BY <1>1 DEF NoneLocked, LockedInOrder, Attended
<1> QED
  BY <1>1, <1>2, <1>3, NewDocumentGoesOn, HostGoesOn

-----------------------------------------------------------------------------
(* The submit: what each answer does.                                      *)

LEMMA PagesFollow ==
  ASSUME HostInOrder, NEW t, Page(t) \/ Turn(t), Follows(tab, t)
  PROVE  HostInOrder'
<1>1. GoOn({}) /\ UNCHANGED using /\ tab' = t
  BY StandingGoOn DEF Page, Turn, Surroundings, Outside
<1> QED
  BY <1>1, HostFollows

(* What is of no draft may change.                                         *)
LEMMA TrimmedFollow ==
  ASSUME HostInOrder, NEW t, DOMAIN t = TabFields,
         t.records = tab.records, t.identity = tab.identity, t.auth = tab.auth,
         t.owned = tab.owned, t.waiting = tab.waiting, t.flight = tab.flight,
         t.proofs = tab.proofs, DOMAIN t.logout = LogoutFields,
         t.shown \subseteq tab.shown
  PROVE  Follows(tab, t)
<1>1. CallsInOrder(t)
  BY DEF HostInOrder, TabInOrder, CallsInOrder
<1> QED
  BY <1>1, SameDraftsFollow DEF HostInOrder

LEMMA CheckedKeeps ==
  ASSUME HostInOrder, NEW i \in DOMAIN attempts, Checked(i)
  PROVE  HostInOrder'
<1> DEFINE a == attempts[i]
           u == Erased(tab)
           v == Authorized(u, a.reply.who)
           w == [v EXCEPT !.authorized = tab.here]
           x == [tab EXCEPT !.rereads = @ \cup {i}]
<1>1. /\ a.stage = "proof"
      /\ \/ Ends(i, RejectedUnchecked(tab, i))
         \/ ~CurrentAttempt(tab, i) /\ Ends(i, Rejected(tab, i))
         \/ Ends(i, u)
         \/ a.reply.is = "session" /\ Ends(i, w)
         \/ /\ UNCHANGED Surroundings
            /\ \/ Asks(i, "save") /\ UNCHANGED tab
               \/ Asks(i, "reread") /\ tab' = x
  BY Zenon DEF Checked
<1>2. TabInOrder(tab) /\ AttemptsInOrder /\ UsingOne
  BY DEF HostInOrder
<1>3. ASSUME Ends(i, RejectedUnchecked(tab, i)) \/ Ends(i, Rejected(tab, i))
      PROVE  HostInOrder'
  <2>1. /\ Follows(tab, Rejected(tab, i)) /\ Follows(tab, RejectedUnchecked(tab, i))
        /\ Owns(tab, i) =>
             /\ Rejected(tab, i).records[a.draft].phase = "ERROR"
             /\ RejectedUnchecked(tab, i).records = Rejected(tab, i).records
        /\ ~Owns(tab, i) => Rejected(tab, i) = tab /\ RejectedUnchecked(tab, i) = tab
    BY <1>2, Rejecting, RejectingUnchecked
  <2>2. ~Owns(Rejected(tab, i), i) /\ ~Owns(RejectedUnchecked(tab, i), i)
    BY <2>1 DEF Owns
  <2> QED
    BY <1>3, <2>1, <2>2, HostEnds
<1>4. /\ Follows(tab, u) /\ TabInOrder(u) /\ u.records = NoDrafts /\ u.shown = {}
      /\ u.owned = {}
  <2>1. u.shown = {} /\ u.owned = {}
    BY <1>2 DEF Erased, TabInOrder, TabFields
  <2> HIDE DEF u
  <2> QED
    BY <1>2, <2>1, Erasing DEF Follows, u
<1>5. CASE Ends(i, u)
  BY <1>4, <1>5, HostEnds DEF Owns
<1>6. CASE a.stage = "proof" /\ a.reply.is = "session" /\ Ends(i, w)
  <2>1. a.reply.who # NoSession
    BY <1>6 DEF HostInOrder, NamesTheCarried
  <2> HIDE DEF u, a
  <2>2. Follows(u, v) /\ TabInOrder(v) /\ v.identity # NoSession /\ v.records = NoDrafts
    BY <1>4, <2>1, Authorizing DEF Follows
  <2>3. v.owned = {} /\ v.shown = {} /\ v.auth = "AUTHORIZED"
    BY <1>4 DEF Authorized, TabInOrder, TabFields
  <2> HIDE DEF v
  <2>4. /\ DOMAIN w = TabFields /\ w.records = NoDrafts /\ w.owned = {} /\ w.shown = {}
        /\ w.waiting = v.waiting /\ w.proofs = v.proofs /\ w.flight = v.flight
        /\ w.logout = v.logout /\ w.identity = v.identity
    BY <2>2, <2>3 DEF TabInOrder, TabFields
  <2> HIDE DEF w
  <2>5. CallsInOrder(w)
    BY <2>2, <2>4 DEF TabInOrder, CallsInOrder
  <2>6. Follows(tab, w)
    BY <2>2, <2>4, <2>5, NoDraftsFollow DEF TabInOrder
  <2>7. ~Owns(w, i)
    BY <2>4 DEF Owns
  <2> QED
    BY <1>6, <2>6, <2>7, HostEnds
<1>7. CASE /\ UNCHANGED Surroundings
           /\ \/ Asks(i, "save") /\ UNCHANGED tab
              \/ Asks(i, "reread") /\ tab' = x
  <2>1. GoOn({}) /\ UNCHANGED using
    BY <1>7, AsksGoOn DEF Surroundings, Outside
  <2>2. Follows(tab, tab)
    BY <1>2 DEF Follows, Loosens
  <2>3. Follows(tab, x)
    <3>1. /\ DOMAIN x = TabFields
          /\ x.records = tab.records /\ x.identity = tab.identity /\ x.auth = tab.auth
          /\ x.owned = tab.owned /\ x.waiting = tab.waiting /\ x.flight = tab.flight
          /\ x.proofs = tab.proofs /\ x.logout = tab.logout /\ x.shown = tab.shown
      BY <1>2 DEF TabInOrder, TabFields
    <3> HIDE DEF x
    <3> QED
      BY <1>2, <3>1, TrimmedFollow DEF TabInOrder, CallsInOrder
  <2> QED
    BY <1>7, <2>1, <2>2, <2>3, HostFollows
<1> QED
  BY <1>1, <1>3, <1>5, <1>6, <1>7

LEMMA RereadKeeps ==
  ASSUME HostInOrder, NEW i \in DOMAIN attempts, Reread(i)
  PROVE  HostInOrder'
<1> DEFINE a == attempts[i]
           t == [tab EXCEPT !.rereads = @ \ {i}]
           read == [t EXCEPT !.resource = a.reply.row]
           over == WithDraft(read, a.draft, WithPhase(read.records[a.draft], "DIRTY_CONFLICT"))
<1>1. TabInOrder(tab) /\ AttemptsInOrder /\ UsingOne
  BY DEF HostInOrder
<1>2. \/ Ends(i, RejectedUnchecked(t, i))
      \/ Ends(i, Rejected(t, i))
      \/ Ends(i, Erased(t))
      \/ Ends(i, Rejected(read, i))
      \/ CurrentAttempt(tab, i) /\ Ends(i, over)
      \/ Asks(i, "save") /\ tab' = read /\ UNCHANGED Surroundings
  BY Zenon DEF Reread, WithDraft
<1>3. /\ DOMAIN t = TabFields
      /\ t.records = tab.records /\ t.identity = tab.identity /\ t.auth = tab.auth
      /\ t.owned = tab.owned /\ t.waiting = tab.waiting /\ t.flight = tab.flight
      /\ t.proofs = tab.proofs /\ t.logout = tab.logout /\ t.shown = tab.shown
  BY <1>1 DEF TabInOrder, TabFields
<1> HIDE DEF t
<1>4. /\ DOMAIN read = TabFields
      /\ read.records = tab.records /\ read.identity = tab.identity /\ read.auth = tab.auth
      /\ read.owned = tab.owned /\ read.waiting = tab.waiting /\ read.flight = tab.flight
      /\ read.proofs = tab.proofs /\ read.logout = tab.logout /\ read.shown = tab.shown
  BY <1>3 DEF TabFields
<1> HIDE DEF read
<1>5. DOMAIN tab.logout = LogoutFields
  BY <1>1 DEF TabInOrder, CallsInOrder
<1>6. Follows(tab, t) /\ TabInOrder(t)
  BY <1>3, <1>5, TrimmedFollow DEF Follows
<1>7. Follows(tab, read) /\ TabInOrder(read)
  BY <1>4, <1>5, TrimmedFollow DEF Follows
<1>8. ASSUME NEW u \in {t, read}, Ends(i, RejectedUnchecked(u, i)) \/ Ends(i, Rejected(u, i))
      PROVE  HostInOrder'
  <2>1. /\ Follows(u, Rejected(u, i)) /\ Follows(u, RejectedUnchecked(u, i))
        /\ Owns(u, i) =>
             /\ Rejected(u, i).records[a.draft].phase = "ERROR"
             /\ RejectedUnchecked(u, i).records = Rejected(u, i).records
        /\ ~Owns(u, i) => Rejected(u, i) = u /\ RejectedUnchecked(u, i) = u
    BY <1>1, <1>6, <1>7, Rejecting, RejectingUnchecked
  <2>2. ~Owns(Rejected(u, i), i) /\ ~Owns(RejectedUnchecked(u, i), i)
    BY <2>1 DEF Owns
  <2>3. Follows(tab, Rejected(u, i)) /\ Follows(tab, RejectedUnchecked(u, i))
    BY <1>6, <1>7, <2>1, FollowsOn
  <2> QED
    BY <1>8, <2>2, <2>3, HostEnds
<1>9. CASE Ends(i, Erased(t))
  <2>1. Follows(t, Erased(t)) /\ Erased(t).records = NoDrafts
    BY <1>6, Erasing
  <2>2. ~Owns(Erased(t), i)
    <3>1. a.draft \in Kind
      BY <1>1 DEF AttemptsInOrder, UsingOne, Kind
    <3> QED
      BY <2>1, <3>1 DEF Owns, NoDrafts, NoDraft
  <2>3. Follows(tab, Erased(t))
    BY <1>6, <2>1, FollowsOn
  <2> QED
    BY <1>9, <2>2, <2>3, HostEnds
<1>10. CASE CurrentAttempt(tab, i) /\ Ends(i, over)
  <2> DEFINE d == a.draft
             r == WithPhase(read.records[d], "DIRTY_CONFLICT")
  <2>1. Owns(read, i)
    BY <1>4, <1>10 DEF CurrentAttempt, Owns
  <2>2. d \in Kind /\ d \in using /\ read.records[d] # NoDraft /\ DraftOf(read.records[d], read.identity)
    BY <1>1, <1>7, <2>1, OwnersHaveDrafts DEF Owns
  <2>3. DraftOf(r, read.identity) /\ r.phase = "DIRTY_CONFLICT" /\ r # NoDraft
    BY <2>2, PhasesOfDrafts
  <2>4. over = WithDraft(read, d, r)
    OBVIOUS
  <2> HIDE DEF over, r, d
  <2>5. Follows(read, over) /\ over.records[d] = r
    BY <1>7, <2>2, <2>3, <2>4, OneRewritten
  <2>6. Follows(tab, over)
    BY <1>7, <2>5, FollowsOn
  <2>7. ~Owns(over, i)
    BY <2>3, <2>5 DEF Owns, d
  <2> QED
    BY <1>10, <2>6, <2>7, HostEnds
<1>11. CASE Asks(i, "save") /\ tab' = read /\ UNCHANGED Surroundings
  <2>1. GoOn({}) /\ UNCHANGED using
    BY <1>11, AsksGoOn DEF Surroundings, Outside
  <2> QED
    BY <1>7, <1>11, <2>1, HostFollows
<1> QED
  BY <1>2, <1>8, <1>9, <1>10, <1>11

LEMMA SaveTurnedKeeps ==
  ASSUME HostInOrder, NEW i \in DOMAIN attempts, SaveTurned(i)
  PROVE  HostInOrder'
<1>1. CASE Owns(tab, i)
  <2>1. Follows(tab, Erased(tab)) /\ Erased(tab).records = NoDrafts
    BY Erasing DEF HostInOrder
  <2>2. attempts[i].draft \in Kind
    BY DEF HostInOrder, AttemptsInOrder, UsingOne, Kind
  <2>3. ~Owns(Erased(tab), i)
    BY <2>1, <2>2 DEF Owns, NoDrafts, NoDraft
  <2>4. Ends(i, Erased(tab))
    BY <1>1 DEF SaveTurned
  <2> QED
    BY <2>1, <2>3, <2>4, HostEnds
<1>2. CASE ~Owns(tab, i)
  <2>1. Follows(tab, tab)
    BY DEF HostInOrder, Follows, Loosens
  <2>2. Ends(i, tab)
    BY <1>2 DEF SaveTurned
  <2> QED
    BY <1>2, <2>1, <2>2, HostEnds
<1> QED
  BY <1>1, <1>2

LEMMA SaveAnsweredKeeps ==
  ASSUME HostInOrder, NEW i \in DOMAIN attempts, SaveAnswered(i)
  PROVE  HostInOrder'
<1>1. TabInOrder(tab) /\ AttemptsInOrder /\ UsingOne
  BY DEF HostInOrder
<1>2. CASE Visible(tab) /\ Ends(i, SettledNow(tab, i))
  <2> DEFINE u == SettledNow(tab, i)
  <2>1. /\ Follows(tab, u) /\ TabInOrder(u)
        /\ ~Matches(tab, i) => u = tab
        /\ Matches(tab, i) =>
             LET d == attempts[i].draft IN
             /\ \/ u.records[d] = Outcome(tab.records[d], i)
                \/ attempts[i].reply.is = "saved" /\ u.records[d] = NoDraft
             /\ \A e \in Kind \ {d} : u.records[e] = tab.records[e]
    BY <1>1, SettlingNow DEF Follows
  <2> HIDE DEF u
  <2>2. Matches(tab, i) <=> Owns(tab, i)
    BY <1>2 DEF Matches, Visible
  <2>3. Owns(tab, i) => NoneLocked(u)
    BY <1>1, <2>1, <2>2, SettlingOne
  <2>4. attempts[i].draft \in Kind
    BY <1>1 DEF AttemptsInOrder, UsingOne, Kind
  <2>5. ~Owns(u, i)
    BY <2>1, <2>2, <2>3, <2>4 DEF Owns, NoneLocked
  <2> QED
    BY <1>2, <2>1, <2>5, HostEnds DEF u
<1>3. CASE Ends(i, Kept(tab, {i}))
  <2>1. LET u == Kept(tab, {i}) IN
        TabInOrder(u) /\ LockedInOrder(u) /\ Attended(u, {i})
    BY Keeping DEF HostInOrder
  <2>2. GoOn({i}) /\ UNCHANGED using /\ tab' = Kept(tab, {i})
    BY <1>3, EndedGoOn DEF Ends, Surroundings, Outside
  <2> QED
    BY <2>1, <2>2, HostGoesOn
<1>4. CASE /\ CanVerify(tab) /\ tab' = Verifying(tab, "none")
           /\ \E p : attempts' = [attempts EXCEPT ![i].stage = "verify", ![i].proof = p]
           /\ UNCHANGED Surroundings
  <2>1. Follows(tab, Verifying(tab, "none"))
    BY <1>1, <1>4, Asking
  <2>2. GoOn({}) /\ UNCHANGED using
    BY <1>4, VerifyGoesOn DEF Surroundings, Outside
  <2> QED
    BY <1>4, <2>1, <2>2, HostFollows
<1> QED
  BY <1>2, <1>3, <1>4, Zenon DEF SaveAnswered

-----------------------------------------------------------------------------
(* Answers, navigation and sessions.                                       *)

LEMMA AnsweringKeeps ==
  ASSUME HostInOrder,
         \/ \E p \in Proof : AnswerProof(p)
         \/ \E i \in DOMAIN attempts : \/ AnswerCheck(i) \/ AnswerReread(i)
                                       \/ SaveRefused(i) \/ SavePhone(i)
                                       \/ SaveEdit(i) \/ SaveRoom(i)
         \/ AnswerLogout
  PROVE  HostInOrder'
<1>1. TabInOrder(tab)
  BY DEF HostInOrder
<1>2. Follows(tab, tab)
  BY <1>1 DEF Follows, Loosens
<1>3. ASSUME NEW p \in Proof, AnswerProof(p)
      PROVE  HostInOrder'
  <2>1. PICK r \in {Named(tab.proofs[p].carried), Down} :
          tab' = [tab EXCEPT !.proofs[p].reply = r]
    BY <1>3 DEF AnswerProof
  <2> DEFINE t == [tab EXCEPT !.proofs[p].reply = r]
             c == [tab.proofs[p] EXCEPT !.reply = r]
  <2>2. GoOn({}) /\ UNCHANGED using
    BY <1>3, StandingGoOn DEF AnswerProof, Outside
  <2>3. DOMAIN tab.proofs[p] = CallFields /\ tab.proofs[p].resumes \in Kind \cup {"none"}
    BY <1>1 DEF TabInOrder, CallsInOrder
  <2>4. /\ DOMAIN t = TabFields /\ t.proofs = [tab.proofs EXCEPT ![p] = c]
        /\ t.records = tab.records /\ t.identity = tab.identity /\ t.auth = tab.auth
        /\ t.owned = tab.owned /\ t.waiting = tab.waiting /\ t.flight = tab.flight
        /\ t.logout = tab.logout /\ t.shown = tab.shown
    BY <1>1 DEF TabInOrder, CallsInOrder, TabFields
  <2>5. DOMAIN c = CallFields /\ c.resumes \in Kind \cup {"none"} /\ NamesTheCarried(c)
    BY <2>3, <2>1 DEF CallFields, NamesTheCarried, Named, Authentic, Denied, Down
  <2>6. tab' = t
    BY <2>1
  <2> HIDE DEF t, c
  <2>7. CallsInOrder(t)
    BY <1>1, <2>4, <2>5 DEF TabInOrder, CallsInOrder
  <2>8. Follows(tab, t)
    BY <1>1, <2>4, <2>7, SameDraftsFollow
  <2> QED
    BY <2>2, <2>6, <2>8, HostFollows
<1>4. ASSUME NEW i \in DOMAIN attempts, AnswerCheck(i)
      PROVE  HostInOrder'
  <2>1. PICK r \in {Named(attempts[i].carried), Down} : Reply(i, r)
    BY <1>4 DEF AnswerCheck
  <2>2. r.is = "session" => r.who = attempts[i].carried /\ attempts[i].carried # NoSession
    BY <2>1 DEF Named, Authentic, Denied, Down
  <2>3. GoOn({}) /\ UNCHANGED <<using, tab>>
    BY <1>4, <2>1, <2>2, RepliesGoOn DEF AnswerCheck, Outside
  <2> QED
    BY <1>2, <2>3, HostFollows
<1>5. ASSUME NEW i \in DOMAIN attempts, AnswerReread(i) \/ SaveRefused(i)
      PROVE  HostInOrder'
  <2>1. attempts[i].stage # "proof" /\ \E r : Reply(i, r)
    BY <1>5 DEF AnswerReread, SaveRefused, Asked
  <2>2. GoOn({}) /\ UNCHANGED <<using, tab>>
    BY <1>5, <2>1, RepliesGoOn DEF AnswerReread, SaveRefused, Outside
  <2> QED
    BY <1>2, <2>2, HostFollows
<1>6. ASSUME NEW i \in DOMAIN attempts, SavePhone(i) \/ SaveEdit(i) \/ SaveRoom(i)
      PROVE  HostInOrder'
  <2>1. attempts[i].stage # "proof" /\ \E r : Reply(i, r)
    BY <1>6 DEF SavePhone, SaveEdit, SaveRoom, Saves, Replied
  <2>2. GoOn({}) /\ UNCHANGED <<using, tab>>
    BY <1>6, <2>1, RepliesGoOn DEF SavePhone, SaveEdit, SaveRoom, Saves
  <2> QED
    BY <1>2, <2>2, HostFollows
<1>7. CASE AnswerLogout
  <2>1. \E x : tab' = [tab EXCEPT !.logout.reply = x]
    BY <1>7 DEF AnswerLogout
  <2>2. PICK x : tab' = [tab EXCEPT !.logout.reply = x]
    BY <2>1
  <2> DEFINE t == [tab EXCEPT !.logout.reply = x]
  <2>3. /\ DOMAIN t = TabFields /\ DOMAIN t.logout = LogoutFields
        /\ t.records = tab.records /\ t.identity = tab.identity /\ t.auth = tab.auth
        /\ t.owned = tab.owned /\ t.waiting = tab.waiting /\ t.flight = tab.flight
        /\ t.proofs = tab.proofs /\ t.shown = tab.shown
    BY <1>1 DEF TabInOrder, CallsInOrder, TabFields, LogoutFields
  <2>4. tab' = t
    BY <2>2
  <2> HIDE DEF t
  <2>5. Follows(tab, t)
    BY <2>3, TrimmedFollow
  <2>6. GoOn({}) /\ UNCHANGED using
    BY <1>7, StandingGoOn DEF AnswerLogout
  <2> QED
    BY <2>4, <2>5, <2>6, HostFollows
<1> QED
  BY <1>3, <1>4, <1>5, <1>6, <1>7

LEMMA NavigationKeeps ==
  ASSUME HostInOrder,
         \/ Foreground \/ Verify \/ Hide \/ PageHide \/ Arrive \/ RouteChanged
         \/ \E route \in Route : Back(route)
         \/ \E route, D : Leave(route, D)
  PROVE  HostInOrder'
<1>1. TabInOrder(tab)
  BY DEF HostInOrder
<1>2. DOMAIN tab.logout = LogoutFields
  BY <1>1 DEF TabInOrder, CallsInOrder
<1>3. CASE Foreground
  <2>1. Follows(tab, VerifyingAfresh(tab))
    BY <1>1, <1>3, AskingAfresh DEF Foreground
  <2> QED
    BY <1>3, <2>1, PagesFollow DEF Foreground
<1>4. CASE Verify
  <2>1. Follows(tab, Verifying(tab, "none"))
    BY <1>1, <1>4, Asking DEF Verify
  <2> QED
    BY <1>4, <2>1, PagesFollow DEF Verify
<1>5. CASE Hide
  BY <1>1, <1>5, Quarantining, PagesFollow DEF Hide
<1>6. CASE PageHide
  BY <1>1, <1>6, Erasing, PagesFollow DEF PageHide
<1>7. CASE Arrive
  <2> DEFINE t == [tab EXCEPT !.here = tab.leaving, !.leaving = NoRoute,
                              !.resource = NoResource, !.shown = {}]
  <2>1. /\ DOMAIN t = TabFields /\ t.logout = tab.logout
        /\ t.records = tab.records /\ t.identity = tab.identity /\ t.auth = tab.auth
        /\ t.owned = tab.owned /\ t.waiting = tab.waiting /\ t.flight = tab.flight
        /\ t.proofs = tab.proofs /\ t.shown = {}
    BY <1>1 DEF TabInOrder, TabFields
  <2>2. Page(t)
    BY <1>7 DEF Arrive
  <2> HIDE DEF t
  <2>3. Follows(tab, t)
    BY <1>2, <2>1, TrimmedFollow
  <2> QED
    BY <2>2, <2>3, PagesFollow
<1>8. ASSUME NEW route, Back(route)
      PROVE  HostInOrder'
  <2> DEFINE v == Quarantined(tab)
             t == [v EXCEPT !.here = route]
  <2>1. Follows(tab, v) /\ TabInOrder(v)
    BY <1>1, Quarantining DEF Follows
  <2>2. Turn(t)
    BY <1>8 DEF Back
  <2> HIDE DEF v
  <2>3. /\ DOMAIN t = TabFields /\ t.logout = v.logout
        /\ t.records = v.records /\ t.identity = v.identity /\ t.auth = v.auth
        /\ t.owned = v.owned /\ t.waiting = v.waiting /\ t.flight = v.flight
        /\ t.proofs = v.proofs /\ t.shown = v.shown
    BY <2>1 DEF TabInOrder, TabFields
  <2> HIDE DEF t
  <2>4. CallsInOrder(t)
    BY <2>1, <2>3 DEF TabInOrder, CallsInOrder
  <2>5. Follows(v, t)
    BY <2>1, <2>3, <2>4, SameDraftsFollow
  <2>6. Follows(tab, t)
    BY <2>1, <2>5, FollowsOn
  <2> QED
    BY <2>2, <2>6, PagesFollow
<1>9. ASSUME NEW route, NEW D, Leave(route, D)
      PROVE  HostInOrder'
  <2> DEFINE v == Discarded(tab, D)
             t == LeavingFor(v, route)
  <2>1. Follows(tab, v) /\ TabInOrder(v)
    BY <1>1, Discarding DEF Follows
  <2>2. Turn(t)
    BY <1>9 DEF Leave
  <2> HIDE DEF v
  <2>3. Follows(v, t)
    BY <2>1, GoingAway
  <2>4. Follows(tab, t)
    BY <2>1, <2>3, FollowsOn
  <2> QED
    BY <2>2, <2>4, PagesFollow
<1>10. CASE RouteChanged
  <2> DEFINE v == Discarded(tab, Kind \ UnsavedIn(tab))
             t == [v EXCEPT !.observed = tab.here, !.undisturbed = {}, !.unmoved = {}]
  <2>1. Follows(tab, v) /\ TabInOrder(v)
    BY <1>1, Discarding DEF Follows
  <2>2. \/ Page(t)
        \/ (Free(t) # {} \/ ~Staff(t.here)) /\ Page(VerifyingAfresh(t))
    BY <1>10, Zenon DEF RouteChanged
  <2> HIDE DEF v
  <2>3. /\ DOMAIN t = TabFields /\ t.logout = v.logout
        /\ t.records = v.records /\ t.identity = v.identity /\ t.auth = v.auth
        /\ t.owned = v.owned /\ t.waiting = v.waiting /\ t.flight = v.flight
        /\ t.proofs = v.proofs /\ t.shown = v.shown
    BY <2>1 DEF TabInOrder, TabFields
  <2> HIDE DEF t
  <2>4. CallsInOrder(t)
    BY <2>1, <2>3 DEF TabInOrder, CallsInOrder
  <2>5. Follows(v, t)
    BY <2>1, <2>3, <2>4, SameDraftsFollow
  <2>6. Follows(tab, t) /\ TabInOrder(t)
    BY <2>1, <2>5, FollowsOn DEF Follows
  <2>7. CASE Page(t)
    BY <2>6, <2>7, PagesFollow
  <2>8. CASE (Free(t) # {} \/ ~Staff(t.here)) /\ Page(VerifyingAfresh(t))
    <3>1. Follows(t, VerifyingAfresh(t))
      BY <2>6, <2>8, AskingAfresh
    <3>2. Follows(tab, VerifyingAfresh(t))
      BY <2>6, <3>1, FollowsOn
    <3> QED
      BY <2>8, <3>2, PagesFollow
  <2> QED
    BY <2>2, <2>7, <2>8
<1> QED
  BY <1>3, <1>4, <1>5, <1>6, <1>7, <1>8, <1>9, <1>10

LEMMA SessionsKeep ==
  ASSUME HostInOrder,
         \/ \E s \in Session : SignInElsewhere(s) \/ SessionEnds(s) \/ SignIn(s)
         \/ LogoutElsewhere \/ ChangedElsewhere
         \/ Logout \/ LogoutByForm \/ LogoutAnswered
  PROVE  HostInOrder'
<1>1. TabInOrder(tab)
  BY DEF HostInOrder
<1>2. Follows(tab, tab)
  BY <1>1 DEF Follows, Loosens
<1>3. CASE \/ \E s \in Session : SignInElsewhere(s) \/ SessionEnds(s)
           \/ LogoutElsewhere \/ ChangedElsewhere
  <2>1. UNCHANGED <<using, tab, attempts>>
    BY <1>3 DEF SignInElsewhere, SessionEnds, LogoutElsewhere, ChangedElsewhere
  <2> QED
    BY <1>2, <2>1, StandingGoOn, HostFollows
<1>4. CASE (\E s \in Session : SignIn(s)) \/ LogoutByForm
  BY <1>4, HostIsReplaced DEF SignIn, LogoutByForm
<1>5. CASE Logout
  <2> DEFINE v == Quarantined(tab)
             x == [asked |-> TRUE, carried |-> cookie, reply |-> Nothing, owned |-> TRUE]
             t == [v EXCEPT !.logout = x]
  <2>1. Follows(tab, v) /\ TabInOrder(v)
    BY <1>1, Quarantining DEF Follows
  <2>2. Page(t)
    BY <1>5 DEF Logout
  <2>3. DOMAIN x = LogoutFields
    BY DEF LogoutFields
  <2> HIDE DEF v, x
  <2>4. /\ DOMAIN t = TabFields /\ t.logout = x
        /\ t.records = v.records /\ t.identity = v.identity /\ t.auth = v.auth
        /\ t.owned = v.owned /\ t.waiting = v.waiting /\ t.flight = v.flight
        /\ t.proofs = v.proofs /\ t.shown = v.shown
    BY <2>1 DEF TabInOrder, TabFields
  <2> HIDE DEF t
  <2>5. CallsInOrder(t)
    BY <2>1, <2>3, <2>4 DEF TabInOrder, CallsInOrder
  <2>6. Follows(v, t)
    BY <2>1, <2>4, <2>5, SameDraftsFollow
  <2>7. Follows(tab, t)
    BY <2>1, <2>6, FollowsOn
  <2> QED
    BY <2>2, <2>7, PagesFollow
<1>6. CASE LogoutAnswered
  <2> DEFINE t == [tab EXCEPT !.logout = NoLogout]
  <2>1. /\ DOMAIN t = TabFields /\ t.logout = NoLogout
        /\ t.records = tab.records /\ t.identity = tab.identity /\ t.auth = tab.auth
        /\ t.owned = tab.owned /\ t.waiting = tab.waiting /\ t.flight = tab.flight
        /\ t.proofs = tab.proofs /\ t.shown = tab.shown
    BY <1>1 DEF TabInOrder, TabFields
  <2>2. \/ Page(Erased(t))
        \/ NewDocument("login") /\ UNCHANGED Surroundings
        \/ (Free(t) # {} \/ ~Staff(t.here)) /\ Page(VerifyingAfresh(t))
        \/ Page(Unavailable(t)) \/ Page(t)
    BY <1>6, Zenon DEF LogoutAnswered
  <2> HIDE DEF t
  <2>3. DOMAIN t.logout = LogoutFields
    BY <2>1 DEF NoLogout, LogoutFields
  <2>4. Follows(tab, t) /\ TabInOrder(t)
    BY <2>1, <2>3, TrimmedFollow DEF Follows
  <2>5. CASE NewDocument("login") /\ UNCHANGED Surroundings
    BY <2>5, HostIsReplaced DEF Surroundings, Outside
  <2>6. ASSUME NEW u, Page(u), Follows(t, u)
        PROVE  HostInOrder'
    BY <2>4, <2>6, FollowsOn, PagesFollow
  <2>7. Follows(t, Erased(t)) /\ Follows(t, Unavailable(t)) /\ Follows(t, t)
    BY <2>4, Erasing, Retiring DEF Follows, Loosens
  <2>8. CASE (Free(t) # {} \/ ~Staff(t.here)) /\ Page(VerifyingAfresh(t))
    BY <2>4, <2>6, <2>8, AskingAfresh
  <2> QED
    BY <2>2, <2>5, <2>6, <2>7, <2>8
<1> QED
  BY <1>3, <1>4, <1>5, <1>6

-----------------------------------------------------------------------------
(* The drafts under the hands of their author.                             *)

LEMMA RetypingDrafts ==
  ASSUME NEW r, NEW who, r # NoDraft, DraftOf(r, who), NEW values
  PROVE  LET x == Retyped(r, values) IN
         /\ DraftOf(x, who) /\ x # NoDraft /\ x.phase \in {"CLEAN", "DIRTY"}
         /\ x.values = values
<1> DEFINE x == Retyped(r, values)
<1>1. DOMAIN x = DraftFields /\ x.of = r.of /\ x.phase \in {"CLEAN", "DIRTY"} /\ x.values = values
  BY DEF DraftOf, DraftFields, Retyped
<1> HIDE DEF x
<1>2. DraftOf(x, who) /\ x # NoDraft
  BY <1>1 DEF DraftOf, NoDraft
<1> QED
  BY <1>1, <1>2 DEF x

LEMMA EditingKeeps ==
  ASSUME HostInOrder,
         \/ Read
         \/ \E d \in using : Open(d) \/ Resume(d) \/ Type(d)
         \/ \E d \in using, keep \in BOOLEAN : Review(d, keep)
  PROVE  HostInOrder'
<1>1. TabInOrder(tab) /\ UsingOne
  BY DEF HostInOrder
<1>2. DOMAIN tab.logout = LogoutFields
  BY <1>1 DEF TabInOrder, CallsInOrder
<1>3. \A d \in using : d \in Kind
  BY <1>1 DEF UsingOne, Kind
<1>4. CASE Read
  <2> DEFINE t == [tab EXCEPT !.resource = reservation]
  <2>1. /\ DOMAIN t = TabFields /\ t.logout = tab.logout
        /\ t.records = tab.records /\ t.identity = tab.identity /\ t.auth = tab.auth
        /\ t.owned = tab.owned /\ t.waiting = tab.waiting /\ t.flight = tab.flight
        /\ t.proofs = tab.proofs /\ t.shown = tab.shown
    BY <1>1 DEF TabInOrder, TabFields
  <2>2. Page(t) \/ Page(Erased(tab))
    BY <1>4 DEF Read
  <2> HIDE DEF t
  <2>3. Follows(tab, t)
    BY <1>2, <2>1, TrimmedFollow
  <2> QED
    BY <1>1, <2>2, <2>3, Erasing, PagesFollow
<1>5. ASSUME NEW d \in using, Open(d)
      PROVE  HostInOrder'
  <2> DEFINE x == Initialised(d)
             r == IF tab.records[d] = NoDraft THEN x ELSE tab.records[d]
             t == [tab EXCEPT !.shown = @ \cup {d}, !.records[d] = r]
  <2>1. Page(t)
    BY <1>5 DEF Open
  <2>2. tab.identity # NoSession /\ tab.auth = "AUTHORIZED"
    BY <1>1, <1>5 DEF Open, Editable, Visible, TabInOrder, RecordsInOrder
  <2>3. DOMAIN x = DraftFields /\ x.of = tab.identity /\ x.phase = "CLEAN"
    BY DEF Initialised, DraftFields
  <2> HIDE DEF x
  <2>4. /\ r # NoDraft
        /\ \/ r = tab.records[d]
           \/ DraftOf(r, tab.identity) /\ r.phase # "PENDING"
    BY <2>2, <2>3 DEF DraftOf, NoDraft
  <2> HIDE DEF r
  <2>5. /\ DOMAIN t = TabFields /\ t.logout = tab.logout
        /\ t.records = [tab.records EXCEPT ![d] = r]
        /\ t.identity = tab.identity /\ t.auth = tab.auth
        /\ t.owned = tab.owned /\ t.waiting = tab.waiting /\ t.flight = tab.flight
        /\ t.proofs = tab.proofs /\ t.shown = tab.shown \cup {d}
    BY <1>1 DEF TabInOrder, TabFields
  <2> HIDE DEF t
  <2>6. /\ DOMAIN t.records = Kind /\ t.records[d] = r
        /\ \A e \in Kind \ {d} : t.records[e] = tab.records[e]
    BY <1>1, <1>3, <2>5 DEF TabInOrder, RecordsInOrder
  <2>7. CallsInOrder(t)
    BY <1>1, <2>5 DEF TabInOrder, CallsInOrder
  <2>8. \A e \in t.shown : e \in Kind /\ t.records[e] # NoDraft
    BY <1>1, <1>3, <2>4, <2>5, <2>6 DEF TabInOrder, RecordsInOrder
  <2>9. \A e \in Kind : \/ t.records[e] = tab.records[e]
                        \/ /\ e \in using /\ DraftOf(t.records[e], tab.identity)
                           /\ t.records[e].phase # "PENDING"
    BY <2>4, <2>6
  <2>10. Follows(tab, t)
    BY <1>1, <2>5, <2>6, <2>7, <2>8, <2>9, RewrittenFollow
  <2> QED
    BY <2>1, <2>10, PagesFollow
<1>6. ASSUME NEW d \in using, Resume(d)
      PROVE  HostInOrder'
  <2>1. Follows(tab, Verifying(tab, d))
    BY <1>1, <1>3, <1>6, Asking DEF Resume, CanVerify
  <2> QED
    BY <1>6, <2>1, PagesFollow DEF Resume
<1>7. ASSUME NEW d \in using, d \in tab.shown, NEW r, NEW values,
             r # NoDraft, DraftOf(r, tab.identity),
             Page([tab EXCEPT !.records[d] = Retyped(r, values)])
      PROVE  HostInOrder'
  <2> DEFINE x == Retyped(r, values)
             t == WithDraft(tab, d, x)
  <2>1. DraftOf(x, tab.identity) /\ x # NoDraft /\ x.phase # "PENDING"
    BY <1>7, RetypingDrafts
  <2>2. Page(t)
    BY <1>7 DEF WithDraft
  <2> HIDE DEF x
  <2>3. Follows(tab, t)
    BY <1>1, <1>3, <2>1, OneRewritten
  <2> QED
    BY <2>2, <2>3, PagesFollow
<1>8. \A d \in tab.shown : tab.records[d] # NoDraft /\ DraftOf(tab.records[d], tab.identity)
  BY <1>1 DEF TabInOrder, RecordsInOrder
<1>9. ASSUME NEW d \in using, Type(d)
      PROVE  HostInOrder'
  <2>1. /\ d \in tab.shown
        /\ \E values : Page([tab EXCEPT !.records[d] = Retyped(tab.records[d], values)])
    BY <1>9 DEF Type
  <2> QED
    BY <1>7, <1>8, <2>1
<1>10. ASSUME NEW d \in using, NEW keep \in BOOLEAN, Review(d, keep)
       PROVE  HostInOrder'
  <2> DEFINE r == [tab.records[d] EXCEPT !.baseline = Unedited(d),
                                         !.base = tab.resource.version, !.attempt = 0]
  <2>1. /\ d \in tab.shown
        /\ \E values : Page([tab EXCEPT !.records[d] = Retyped(r, values)])
    BY <1>10, Zenon DEF Review
  <2>2. r # NoDraft /\ DraftOf(r, tab.identity)
    <3> DEFINE base == Unedited(d)
               version == tab.resource.version
               q == [tab.records[d] EXCEPT !.baseline = base, !.base = version, !.attempt = 0]
    <3>1. DOMAIN tab.records[d] = DraftFields /\ tab.records[d].of = tab.identity
          /\ tab.identity # NoSession /\ tab.records[d].phase # "NONE"
      BY <1>8, <2>1 DEF DraftOf
    <3> HIDE DEF base, version
    <3>2. DOMAIN q = DraftFields /\ q.of = tab.identity /\ q.phase # "NONE"
      BY <3>1 DEF DraftFields
    <3>3. q # NoDraft /\ DraftOf(q, tab.identity)
      BY <3>1, <3>2 DEF DraftOf, NoDraft
    <3> QED
      BY <3>3 DEF base, version
  <2> HIDE DEF r
  <2> QED
    BY <1>7, <2>1, <2>2
<1> QED
  BY <1>4, <1>5, <1>6, <1>9, <1>10

LEMMA SubmitKeeps ==
  ASSUME HostInOrder, NEW d \in using, SubmitDraft(d)
  PROVE  HostInOrder'
<1> DEFINE r == tab.records[d]
           i == Len(attempts) + 1
           x == [r EXCEPT !.phase = "PENDING", !.attempt = i,
                          !.retry = IF d = "PHONE" THEN i ELSE @]
           a == [draft |-> d, of |-> r.of, instance |-> r.instance, base |-> r.base,
                 values |-> r.values, key |-> RetryOf(r), stage |-> "proof",
                 carried |-> cookie, reply |-> Nothing, proof |-> NoProof]
           t == [tab EXCEPT !.records[d] = x, !.owned = @ \cup {i},
                            !.undisturbed = @ \cup {i}, !.unmoved = @ \cup {i}]
<1>1. TabInOrder(tab) /\ UsingOne /\ AttemptsInOrder
  BY DEF HostInOrder
<1>2. d \in Kind /\ d \in tab.shown
  BY <1>1 DEF UsingOne, Kind, SubmitDraft
<1>3. /\ r # NoDraft /\ DOMAIN r = DraftFields /\ r.of = tab.identity
      /\ tab.identity # NoSession
  BY <1>1, <1>2 DEF TabInOrder, RecordsInOrder, DraftOf
<1>4. /\ attempts' = Append(attempts, a) /\ tab' = t /\ UNCHANGED using
      /\ i <= MaxAttempts
  BY DEF SubmitDraft, Outside
<1>5. /\ DOMAIN a = AttemptFields /\ a.draft = d /\ a.of = r.of
      /\ a.instance = r.instance /\ a.base = r.base /\ a.values = r.values
      /\ a.stage = "proof" /\ a.reply = Nothing
  BY DEF AttemptFields
<1>6. /\ DOMAIN x = DraftFields /\ x.of = r.of /\ x.phase = "PENDING"
      /\ x.attempt = i /\ x.instance = r.instance /\ x.base = r.base
      /\ x.values = r.values
  BY <1>3 DEF DraftFields
<1> HIDE DEF x, a
<1>7. x # NoDraft /\ DraftOf(x, tab.identity)
  BY <1>3, <1>6 DEF DraftOf, NoDraft
<1>8. /\ IsList(attempts') /\ Len(attempts') = i
      /\ DOMAIN attempts' = DOMAIN attempts \cup {i} /\ attempts'[i] = a
      /\ \A j \in DOMAIN attempts : attempts'[j] = attempts[j] /\ j # i
  BY <1>1, <1>4, ListsGrow DEF AttemptsInOrder
<1> HIDE DEF i, r
<1>9. AttemptsInOrder'
  BY <1>1, <1>4, <1>5, <1>8 DEF AttemptsInOrder
<1>10. /\ DOMAIN t = TabFields /\ t.records = [tab.records EXCEPT ![d] = x]
       /\ t.identity = tab.identity /\ t.auth = tab.auth
       /\ t.owned = tab.owned \cup {i} /\ t.waiting = tab.waiting
       /\ t.flight = tab.flight /\ t.proofs = tab.proofs /\ t.shown = tab.shown
       /\ t.logout = tab.logout
  BY <1>1 DEF TabInOrder, TabFields
<1> HIDE DEF t
<1>11. /\ DOMAIN t.records = Kind /\ t.records[d] = x
       /\ \A e \in Kind \ {d} : t.records[e] = tab.records[e]
  BY <1>1, <1>2, <1>10 DEF TabInOrder, RecordsInOrder
<1>12. \A e \in Kind \ {d} : t.records[e] = NoDraft
  BY <1>1, <1>11 DEF UsingOne, TabInOrder, RecordsInOrder
<1>13. CallsInOrder(t)
  BY <1>1, <1>10 DEF TabInOrder, CallsInOrder
<1>14. RecordsInOrder(t)
  <2>1. \A e \in Kind : DraftOf(t.records[e], t.identity)
                        /\ (t.records[e] # NoDraft => e \in using)
    BY <1>7, <1>10, <1>11, <1>12 DEF DraftOf
  <2>2. \A e \in t.shown : e \in Kind /\ t.records[e] # NoDraft
    BY <1>1, <1>7, <1>10, <1>11 DEF TabInOrder, RecordsInOrder
  <2> QED
    BY <1>3, <1>10, <1>11, <2>1, <2>2 DEF RecordsInOrder
<1>15. TabInOrder(tab)'
  <2>1. t.owned \subseteq DOMAIN attempts' /\ t.waiting \subseteq DOMAIN attempts'
    BY <1>1, <1>8, <1>10 DEF TabInOrder
  <2> QED
    BY <1>4, <1>10, <1>13, <1>14, <2>1 DEF TabInOrder, RecordsInOrder, CallsInOrder
<1>16. \A e \in Kind : t.records[e].phase = "PENDING" => e = d
  BY <1>12 DEF NoDraft
<1>17. LockedInOrder(tab)' /\ Attended(tab, {})'
  BY <1>4, <1>5, <1>6, <1>8, <1>10, <1>11, <1>16 DEF LockedInOrder, Attended
<1>18. \A j \in DOMAIN attempts' :
         attempts'[j].stage = "proof" => NamesTheCarried(attempts'[j])
  BY <1>5, <1>8 DEF HostInOrder, NamesTheCarried, Nothing
<1>19. UsingOne'
  BY <1>1, <1>4 DEF UsingOne
<1> QED
  BY <1>9, <1>15, <1>17, <1>18, <1>19 DEF HostInOrder, NamesTheCarried

-----------------------------------------------------------------------------
(* Proofs of the session, and all steps of the host together.              *)

LEMMA ConclusionsKeep ==
  ASSUME HostInOrder, NEW p \in Proof, NEW t, Concludes(p, t),
         \/ Holds(p) /\ t \in {Verified(p), Quarantined(Verified(p))}
         \/ ~Holds(p) /\ t \in {NotVerified(p), Quarantined(NotVerified(p))}
  PROVE  HostInOrder'
<1>1. GoOn(Waiting(p)) /\ UNCHANGED using /\ tab' = t
  BY EndedGoOn DEF Concludes, Surroundings, Outside
<1>2. \A u : TabInOrder(u) /\ LockedInOrder(u) /\ Attended(u, Waiting(p)) =>
        LET v == Quarantined(u) IN
        TabInOrder(v) /\ LockedInOrder(v) /\ Attended(v, Waiting(p))
  BY Quarantining, FollowersAreAttended DEF Follows
<1>3. CASE Holds(p)
  <2>1. LET u == Verified(p) IN
        TabInOrder(u) /\ LockedInOrder(u) /\ Attended(u, Waiting(p))
    BY <1>3, Verifications
  <2>2. TabInOrder(t) /\ LockedInOrder(t) /\ Attended(t, Waiting(p))
    BY <1>2, <1>3, <2>1
  <2> QED
    BY <1>1, <2>2, HostGoesOn
<1>4. CASE ~Holds(p)
  <2>1. LET u == NotVerified(p) IN
        TabInOrder(u) /\ LockedInOrder(u) /\ Attended(u, Waiting(p))
    BY Refusals
  <2>2. TabInOrder(t) /\ LockedInOrder(t) /\ Attended(t, Waiting(p))
    BY <1>2, <1>4, <2>1
  <2> QED
    BY <1>1, <2>2, HostGoesOn
<1> QED
  BY <1>3, <1>4

LEMMA OthersKeep == HostInOrder /\ (Otherwise \/ PageHide) => HostInOrder'
<1> SUFFICES ASSUME HostInOrder, Otherwise \/ PageHide
             PROVE  HostInOrder'
  OBVIOUS
<1>1. CASE PageHide
  BY <1>1, NavigationKeeps
<1>2. CASE Otherwise
  <2>1. \/ \E p \in Proof : AnswerProof(p)
        \/ \E i \in DOMAIN attempts :
             \/ AnswerCheck(i) \/ Checked(i)
             \/ AnswerReread(i) \/ Reread(i)
             \/ SaveRefused(i) \/ SavePhone(i) \/ SaveEdit(i) \/ SaveRoom(i)
             \/ SaveTurned(i) \/ SaveAnswered(i)
        \/ \E s \in Session : SignInElsewhere(s) \/ SessionEnds(s) \/ SignIn(s)
        \/ LogoutElsewhere \/ ChangedElsewhere
        \/ Logout \/ LogoutByForm \/ AnswerLogout \/ LogoutAnswered
        \/ Foreground \/ Verify \/ Hide
        \/ \E route \in Route : Back(route)
        \/ \E route \in {"agenda", "form"}, D \in SUBSET Kind : Leave(route, D)
        \/ Arrive \/ RouteChanged
        \/ Read
        \/ \E d \in using : Open(d) \/ Resume(d) \/ Type(d) \/ SubmitDraft(d)
        \/ \E d \in using, keep \in BOOLEAN : Review(d, keep)
    BY <1>2 DEF Otherwise
  <2> QED
    BY <2>1, AnsweringKeeps, CheckedKeeps, RereadKeeps, SaveTurnedKeeps,
       SaveAnsweredKeeps, NavigationKeeps, SessionsKeep, EditingKeeps, SubmitKeeps, Zenon
<1> QED
  BY <1>1, <1>2

LEMMA NextHost == HostInOrder /\ [ExportNext]_<<draftVars, exportVars>> => HostInOrder'
<1> SUFFICES ASSUME HostInOrder, [ExportNext]_<<draftVars, exportVars>>
             PROVE  HostInOrder'
  OBVIOUS
<1>1. CASE Aside
  <2>1. GoOn({}) /\ UNCHANGED using
    BY <1>1, StandingGoOn DEF Aside, Outside
  <2>2. TabInOrder(tab)
    BY DEF HostInOrder
  <2>3. Follows(tab, tab) /\ Follows(tab, Quarantined(tab))
    BY <2>2, Quarantining DEF Follows, Loosens
  <2>4. CanVerify(tab) => Follows(tab, Verifying(tab, "none"))
    BY <2>2, Asking
  <2>5. Follows(tab, tab')
    BY <1>1, <2>3, <2>4 DEF Aside
  <2> QED
    BY <2>1, <2>5, HostFollows
<1> QED
  BY <1>1, OthersKeep, ConclusionsKeep, HostSteps

LEMMA InitHost == ExportInit => HostInOrder
<1> SUFFICES ASSUME ExportInit PROVE HostInOrder
  OBVIOUS
<1>1. UsingOne /\ attempts = << >>
  BY DEF ExportInit, DraftInit, UsingOne
<1>2. PICK route \in {"agenda", "form"} : tab = FreshTab(route)
  BY DEF ExportInit, DraftInit
<1>3. TabInOrder(tab) /\ NoneLocked(tab)
  BY <1>2, FreshTabInOrder
<1>4. LockedInOrder(tab) /\ Attended(tab, {})
  BY <1>3 DEF NoneLocked, LockedInOrder, Attended
<1>5. AttemptsInOrder
  BY <1>1, EmptyIsAList, StaffDraftsAssumption DEF AttemptsInOrder
<1> QED
  BY <1>1, <1>3, <1>4, <1>5, EmptyIsAList DEF HostInOrder

(* A draft that is locked will be let go: whatever proofs, rereads, saves  *)
(* and logouts answer late or never, its submit goes on, or its outcome is *)
(* kept for the next verified session (mutate, verifySession, settleStaff- *)
(* DraftAttempt).                                                          *)
THEOREM PendingIsBeingServedHolds == ExportSpec => []PendingIsBeingServed
<1>1. HostInOrder => PendingIsBeingServed
  BY DEF HostInOrder, Attended, PendingIsBeingServed
<1> QED
  BY <1>1, InitHost, NextHost, PTL DEF ExportSpec

-----------------------------------------------------------------------------
(* What the host does while no draft is there.                             *)
LEMMA WithoutDrafts ==
  ASSUME HostInOrder, using = {}
  PROVE  /\ DOMAIN attempts = {} /\ tab.owned = {} /\ tab.waiting = {}
         /\ \A d \in Kind : tab.records[d] = NoDraft
         /\ UnsavedIn(tab) = {}
<1>1. DOMAIN attempts = {}
  BY DEF HostInOrder, AttemptsInOrder
<1>2. \A d \in Kind : tab.records[d] = NoDraft
  BY DEF HostInOrder, TabInOrder, RecordsInOrder
<1>3. UnsavedIn(tab) = {}
  BY <1>2 DEF UnsavedIn, Unsaved, NoDraft
<1> QED
  BY <1>1, <1>2, <1>3 DEF HostInOrder, TabInOrder

(* A session that is being verified is not shown.                          *)
InDoubt(t) == t.flight # NoProof => t.auth # "AUTHORIZED"

(* A call goes on as it was asked.                                         *)
CallsGoOn(t, u) ==
  \A p \in Proof :
    t.proofs[p] # NoCall =>
      u.proofs[p] # NoCall /\ u.proofs[p].carried = t.proofs[p].carried

MovesOn(t, u) == (InDoubt(t) => InDoubt(u)) /\ CallsGoOn(t, u)

LEMMA MovesAddUp ==
  ASSUME NEW t, NEW u, NEW v, MovesOn(t, u), MovesOn(u, v)
  PROVE  MovesOn(t, v)
BY DEF MovesOn, CallsGoOn

LEMMA SimpleMoves ==
  ASSUME NEW t, TabInOrder(t)
  PROVE  /\ MovesOn(t, t) /\ MovesOn(t, Quarantined(t)) /\ MovesOn(t, Erased(t))
         /\ MovesOn(t, Unavailable(t))
         /\ \A D : MovesOn(t, Discarded(t, D))
         /\ \A route : MovesOn(t, LeavingFor(t, route))
<1>1. \A D : MovesOn(t, Discarded(t, D))
  BY Discarding DEF MovesOn, InDoubt, CallsGoOn
<1>2. \A route : MovesOn(t, LeavingFor(t, route))
  BY GoingAway DEF MovesOn, InDoubt, CallsGoOn
<1>3. MovesOn(t, Unavailable(t))
  BY Retiring DEF MovesOn, InDoubt, CallsGoOn
<1>4. MovesOn(t, Quarantined(t)) /\ MovesOn(t, Erased(t))
  BY Quarantining, Erasing DEF MovesOn, InDoubt, CallsGoOn
<1> QED
  BY <1>1, <1>2, <1>3, <1>4 DEF MovesOn, CallsGoOn

LEMMA AskingMoves ==
  ASSUME NEW t, TabInOrder(t)
  PROVE  /\ \A resumes \in Kind \cup {"none"} :
              CanVerify(t) \/ ~Staff(t.here) => MovesOn(t, Verifying(t, resumes))
         /\ Free(t) # {} \/ ~Staff(t.here) => MovesOn(t, VerifyingAfresh(t))
<1>0. DOMAIN t.proofs = Proof
  BY DEF TabInOrder, CallsInOrder
<1>1. ASSUME NEW resumes \in Kind \cup {"none"}, CanVerify(t) \/ ~Staff(t.here)
      PROVE  MovesOn(t, Verifying(t, resumes))
  <2> DEFINE u == Verifying(t, resumes)
  <2>1. \/ u = t
        \/ /\ u.auth = "CHECKING" /\ u.flight \in Proof
           /\ t.proofs[u.flight] = NoCall /\ t.flight = NoProof
           /\ u.proofs = [t.proofs EXCEPT ![u.flight] = NewCall(t, resumes)]
    BY <1>1, Asking
  <2> HIDE DEF u
  <2> QED
    BY <1>0, <2>1 DEF MovesOn, InDoubt, CallsGoOn, u
<1>2. ASSUME Free(t) # {} \/ ~Staff(t.here)
      PROVE  MovesOn(t, VerifyingAfresh(t))
  <2> DEFINE u == VerifyingAfresh(t)
  <2>1. /\ u.auth = "CHECKING"
        /\ \/ u.flight = NoProof /\ u.proofs = t.proofs
           \/ /\ u.flight \in Proof /\ t.proofs[u.flight] = NoCall
              /\ u.proofs = [t.proofs EXCEPT ![u.flight] = NewCall(t, "none")]
    BY <1>2, AskingAfresh
  <2> HIDE DEF u
  <2> QED
    BY <1>0, <2>1 DEF MovesOn, InDoubt, CallsGoOn, u
<1> QED
  BY <1>1, <1>2

LEMMA DocumentsAreReplaced ==
  ASSUME NEW route, NewDocument(route)
  PROVE  InDoubt(tab') /\ (DocumentReplaced \/ tab' = tab)
<1>1. tab' = FreshTab(route) /\ tab'.here = route /\ tab'.flight = NoProof
  BY DEF NewDocument, FreshTab
<1> QED
  BY <1>1 DEF InDoubt, DocumentReplaced

(* A step of the host keeps the calls, or replaces the document.           *)
HostMoves ==
  /\ InDoubt(tab')
  /\ DocumentReplaced \/ CallsGoOn(tab, tab')

LEMMA NavigationMoves ==
  ASSUME HostInOrder, InDoubt(tab),
         \/ Foreground \/ Verify \/ Hide \/ PageHide \/ Arrive \/ RouteChanged
         \/ \E route \in Route : Back(route)
         \/ \E route, D : Leave(route, D)
  PROVE  HostMoves
<1>1. TabInOrder(tab)
  BY DEF HostInOrder
<1>2. SUFFICES \E t : tab' = t /\ MovesOn(tab, t)
  BY DEF HostMoves, MovesOn
<1>3. CASE Foreground \/ Verify \/ Hide \/ PageHide
  BY <1>1, <1>3, SimpleMoves, AskingMoves DEF Foreground, Verify, Hide, PageHide, Page, Turn
<1>4. CASE Arrive
  <2> DEFINE t == [tab EXCEPT !.here = tab.leaving, !.leaving = NoRoute,
                              !.resource = NoResource, !.shown = {}]
  <2>1. tab' = t
    BY <1>4 DEF Arrive, Page
  <2>2. t.auth = tab.auth /\ t.flight = tab.flight /\ t.proofs = tab.proofs
    BY <1>1 DEF TabInOrder, TabFields
  <2> HIDE DEF t
  <2> QED
    BY <2>1, <2>2 DEF MovesOn, InDoubt, CallsGoOn
<1>5. ASSUME NEW route, Back(route)
      PROVE  \E t : tab' = t /\ MovesOn(tab, t)
  <2> DEFINE v == Quarantined(tab)
             t == [v EXCEPT !.here = route]
  <2>1. MovesOn(tab, v) /\ TabInOrder(v)
    BY <1>1, SimpleMoves, Quarantining DEF Follows
  <2>2. tab' = t
    BY <1>5 DEF Back, Turn
  <2> HIDE DEF v
  <2>3. t.auth = v.auth /\ t.flight = v.flight /\ t.proofs = v.proofs
    BY <2>1 DEF TabInOrder, TabFields
  <2> HIDE DEF t
  <2> QED
    BY <2>1, <2>2, <2>3 DEF MovesOn, InDoubt, CallsGoOn
<1>6. ASSUME NEW route, NEW D, Leave(route, D)
      PROVE  \E t : tab' = t /\ MovesOn(tab, t)
  <2> DEFINE v == Discarded(tab, D)
             t == LeavingFor(v, route)
  <2>1. MovesOn(tab, v) /\ TabInOrder(v)
    BY <1>1, SimpleMoves, Discarding DEF Follows
  <2>2. tab' = t
    BY <1>6 DEF Leave, Turn
  <2> HIDE DEF v
  <2>3. MovesOn(v, t)
    BY <2>1, SimpleMoves
  <2> QED
    BY <2>1, <2>2, <2>3, MovesAddUp
<1>7. CASE RouteChanged
  <2> DEFINE v == Discarded(tab, Kind \ UnsavedIn(tab))
             t == [v EXCEPT !.observed = tab.here, !.undisturbed = {}, !.unmoved = {}]
  <2>1. MovesOn(tab, v) /\ TabInOrder(v)
    BY <1>1, SimpleMoves, Discarding DEF Follows
  <2>2. \/ tab' = t
        \/ (Free(t) # {} \/ ~Staff(t.here)) /\ tab' = VerifyingAfresh(t)
    BY <1>7, Zenon DEF RouteChanged, Page
  <2> HIDE DEF v
  <2>3. /\ DOMAIN t = TabFields /\ t.logout = v.logout
        /\ t.records = v.records /\ t.identity = v.identity /\ t.auth = v.auth
        /\ t.owned = v.owned /\ t.waiting = v.waiting /\ t.flight = v.flight
        /\ t.proofs = v.proofs /\ t.shown = v.shown
    BY <2>1 DEF TabInOrder, TabFields
  <2> HIDE DEF t
  <2>4. CallsInOrder(t)
    BY <2>1, <2>3 DEF TabInOrder, CallsInOrder
  <2>5. TabInOrder(t)
    BY <2>1, <2>3, <2>4, SameDraftsFollow DEF Follows
  <2>6. MovesOn(tab, t)
    BY <2>1, <2>3 DEF MovesOn, InDoubt, CallsGoOn
  <2>7. Free(t) # {} \/ ~Staff(t.here) => MovesOn(tab, VerifyingAfresh(t))
    BY <2>5, <2>6, AskingMoves, MovesAddUp
  <2> QED
    BY <2>2, <2>6, <2>7
<1> QED
  BY <1>3, <1>4, <1>5, <1>6, <1>7

LEMMA SessionMoves ==
  ASSUME HostInOrder, InDoubt(tab),
         \/ \E p \in Proof : AnswerProof(p)
         \/ \E s \in Session : SignInElsewhere(s) \/ SessionEnds(s) \/ SignIn(s)
         \/ LogoutElsewhere \/ ChangedElsewhere
         \/ LogoutByForm \/ AnswerLogout \/ LogoutAnswered
  PROVE  HostMoves
<1>1. TabInOrder(tab)
  BY DEF HostInOrder
<1>2. SUFFICES \/ \E t : tab' = t /\ MovesOn(tab, t)
               \/ \E route : NewDocument(route)
  BY DocumentsAreReplaced DEF HostMoves, MovesOn, CallsGoOn
<1>3. ASSUME NEW p \in Proof, AnswerProof(p)
      PROVE  \E t : tab' = t /\ MovesOn(tab, t)
  <2>1. PICK r \in {Named(tab.proofs[p].carried), Down} :
          tab' = [tab EXCEPT !.proofs[p].reply = r]
    BY <1>3 DEF AnswerProof
  <2> DEFINE t == [tab EXCEPT !.proofs[p].reply = r]
             c == [tab.proofs[p] EXCEPT !.reply = r]
  <2>2. DOMAIN tab.proofs[p] = CallFields /\ DOMAIN tab.proofs = Proof
    BY <1>1 DEF TabInOrder, CallsInOrder
  <2>3. /\ t.proofs = [tab.proofs EXCEPT ![p] = c]
        /\ t.auth = tab.auth /\ t.flight = tab.flight
    BY <1>1, <2>2 DEF TabInOrder, TabFields
  <2>4. c.reply = r /\ c.carried = tab.proofs[p].carried
    BY <2>2 DEF CallFields
  <2>5. r.is # "none" /\ NoCall.reply.is = "none"
    BY <2>1 DEF Named, Denied, Down, NoCall, Nothing
  <2>6. tab' = t
    BY <2>1
  <2> HIDE DEF t, c
  <2>7. CallsGoOn(tab, t)
    BY <2>2, <2>3, <2>4, <2>5 DEF CallsGoOn
  <2> QED
    BY <2>3, <2>6, <2>7 DEF MovesOn, InDoubt
<1>4. CASE \/ \E s \in Session : SignInElsewhere(s) \/ SessionEnds(s)
           \/ LogoutElsewhere \/ ChangedElsewhere
  BY <1>1, <1>4, SimpleMoves
     DEF SignInElsewhere, SessionEnds, LogoutElsewhere, ChangedElsewhere
<1>5. CASE (\E s \in Session : SignIn(s)) \/ LogoutByForm
  BY <1>5 DEF SignIn, LogoutByForm
<1>6. CASE AnswerLogout
  <2>1. PICK x : tab' = [tab EXCEPT !.logout.reply = x]
    BY <1>6 DEF AnswerLogout
  <2> DEFINE t == [tab EXCEPT !.logout.reply = x]
  <2>2. t.proofs = tab.proofs /\ t.auth = tab.auth /\ t.flight = tab.flight
    BY <1>1 DEF TabInOrder, TabFields
  <2>3. tab' = t
    BY <2>1
  <2> HIDE DEF t
  <2> QED
    BY <2>2, <2>3 DEF MovesOn, InDoubt, CallsGoOn
<1>7. CASE LogoutAnswered
  <2> DEFINE t == [tab EXCEPT !.logout = NoLogout]
  <2>1. /\ DOMAIN t = TabFields /\ t.logout = NoLogout
        /\ t.records = tab.records /\ t.identity = tab.identity /\ t.auth = tab.auth
        /\ t.owned = tab.owned /\ t.waiting = tab.waiting /\ t.flight = tab.flight
        /\ t.proofs = tab.proofs /\ t.shown = tab.shown
    BY <1>1 DEF TabInOrder, TabFields
  <2>2. \/ tab' = Erased(t)
        \/ NewDocument("login")
        \/ (Free(t) # {} \/ ~Staff(t.here)) /\ tab' = VerifyingAfresh(t)
        \/ tab' = Unavailable(t) \/ tab' = t
    BY <1>7, Zenon DEF LogoutAnswered, Page
  <2> HIDE DEF t
  <2>3. TabInOrder(t)
    BY <2>1, TrimmedFollow DEF Follows, NoLogout, LogoutFields
  <2>4. MovesOn(tab, t)
    BY <2>1 DEF MovesOn, InDoubt, CallsGoOn
  <2>5. /\ MovesOn(tab, Erased(t)) /\ MovesOn(tab, Unavailable(t))
        /\ Free(t) # {} \/ ~Staff(t.here) => MovesOn(tab, VerifyingAfresh(t))
    BY <2>3, <2>4, SimpleMoves, AskingMoves, MovesAddUp
  <2> QED
    BY <2>2, <2>4, <2>5
<1> QED
  BY <1>3, <1>4, <1>5, <1>6, <1>7

LEMMA OthersMove ==
  ASSUME HostInOrder, InDoubt(tab), using = {}, Otherwise \/ PageHide
  PROVE  HostMoves
<1>1. DOMAIN attempts = {} /\ UnsavedIn(tab) = {}
  BY WithoutDrafts
<1>2. \/ PageHide
      \/ \E p \in Proof : AnswerProof(p)
      \/ \E s \in Session : SignInElsewhere(s) \/ SessionEnds(s) \/ SignIn(s)
      \/ LogoutElsewhere \/ ChangedElsewhere
      \/ LogoutByForm \/ AnswerLogout \/ LogoutAnswered
      \/ Foreground \/ Verify \/ Hide
      \/ \E route \in Route : Back(route)
      \/ \E route \in {"agenda", "form"}, D \in SUBSET Kind : Leave(route, D)
      \/ Arrive \/ RouteChanged
  <2>1. ~Logout
    BY <1>1 DEF Logout
  <2>2. ~Read
    BY DEF Read
  <2> QED
    BY <1>1, <2>1, <2>2, Zenon DEF Otherwise
<1> QED
  BY <1>2, NavigationMoves, SessionMoves, Zenon

(* The session a proof names is shown, if there is no draft to settle.     *)
LEMMA VerifiedIsShown ==
  ASSUME HostInOrder, using = {}, NEW p \in Proof, Holds(p), Staff(tab.here)
  PROVE  LET u == Verified(p) IN
         /\ Visible(u) /\ u.identity = tab.proofs[p].reply.who
<1> DEFINE call == tab.proofs[p]
           who == call.reply.who
           t == Heard(p)
           v == IF t.identity \notin {NoSession, who}
                  THEN [t EXCEPT !.resource = NoResource, !.waiting = {}, !.shown = {}]
                ELSE t
           w == Authorized(v, who)
           x == [w EXCEPT !.authorized = call.route]
           y == [x EXCEPT !.waiting = {}]
<1>1. /\ tab.owned = {} /\ tab.waiting = {} /\ DOMAIN attempts = {}
      /\ \A d \in Kind : tab.records[d] = NoDraft
  BY WithoutDrafts
<1>2. call.route = tab.here /\ call.resumes \in Kind \cup {"none"}
  BY DEF Holds, HostInOrder, TabInOrder, CallsInOrder
<1>3. /\ DOMAIN t = TabFields /\ t.records = tab.records /\ t.owned = {}
      /\ t.here = tab.here /\ DOMAIN t.logout = LogoutFields
  BY <1>1 DEF Heard, HostInOrder, TabInOrder, CallsInOrder, TabFields
<1> HIDE DEF t, call
<1>4. /\ DOMAIN v = TabFields /\ v.records = tab.records /\ v.owned = {}
      /\ v.here = tab.here /\ DOMAIN v.logout = LogoutFields
  BY <1>3 DEF TabFields
<1> HIDE DEF v
<1>5. /\ DOMAIN w = TabFields /\ w.records \in {tab.records, NoDrafts} /\ w.owned = {}
      /\ w.here = tab.here /\ w.auth = "AUTHORIZED" /\ w.identity = who
  BY <1>4 DEF Authorized, TabFields
<1> HIDE DEF w
<1>6. /\ DOMAIN x = TabFields /\ x.records \in {tab.records, NoDrafts} /\ x.owned = {}
      /\ x.here = tab.here /\ x.auth = "AUTHORIZED" /\ x.identity = who
      /\ x.authorized = tab.here
  BY <1>2, <1>5 DEF TabFields
<1> HIDE DEF x
<1>7. /\ DOMAIN y = TabFields /\ y.records \in {tab.records, NoDrafts} /\ y.owned = {}
      /\ y.here = tab.here /\ y.auth = "AUTHORIZED" /\ y.identity = who
      /\ y.authorized = tab.here
  BY <1>6 DEF TabFields
<1> HIDE DEF y
<1>8. \A S : Awaited(x, S) = {} /\ Awaited(y, S) = {}
  BY <1>6, <1>7 DEF Awaited, Matches, Owns
<1>9. Recognised(t, who, call.route) = AllLate(x)
  BY DEF Recognised, x, w, v
<1>10. AllLate(x) = y
  BY <1>8 DEF AllLate, y
<1>11. AllNow(y, Waiting(p)) = y
  BY <1>8 DEF AllNow
<1>12. \A d \in Kind : ~Unsaved(y.records[d])
  BY <1>1, <1>7 DEF Unsaved, NoDrafts, NoDraft
<1>13. Resumed(y, call.resumes) = y
  BY <1>2, <1>12 DEF Resumed
<1>14. Verified(p) = y
  BY <1>9, <1>10, <1>11, <1>13 DEF Verified, call, t
<1> QED
  BY <1>7, <1>14 DEF Visible, call

-----------------------------------------------------------------------------
(* IV. The panel, and what it asked for.                                   *)
IntentFields == {"kind", "room", "stage", "proof", "who", "request", "since"}

(* The second proof of a file is asked for after the file has come.        *)
IntentFits(i) ==
  i # Idle =>
    /\ DOMAIN i = IntentFields /\ i.kind \in ExportKind
    /\ i.stage \in {"proof", "wait", "confirm"} /\ tab.here = "agenda"
    /\ i.kind = "M11" => i.stage = "wait"
    /\ i.kind # "M11" => panel.preview = NoSession
    /\ i.kind # "M11" /\ i.stage = "wait" => Visible(tab) /\ tab.identity = i.who
    /\ i.stage = "confirm" =>
         /\ i.kind = "FILE"
         /\ i.request \in DOMAIN requests
         /\ requests[i.request].stage = "answered"
         /\ requests[i.request].kind = "FILE"
         /\ requests[i.request].reply.is = "document"
         /\ i.proof \in Proof /\ tab.proofs[i.proof] # NoCall
         /\ tab.proofs[i.proof].carried \in i.since

(* What is asked for under a session is waited for.                        *)
Wanted(q, r) ==
  /\ Hears(r) /\ panel.intent.kind = q.kind /\ panel.intent.who = q.of
  /\ panel.intent.stage # "proof"

(* A document is made for the session it was asked for, and put on record. *)
ReplyFits(q) ==
  /\ q.stage \in {"sent", "admitted", "reading"} => q.reply = Nothing
  /\ q.stage = "failed" => q.reply.is # "document"
  /\ q.stage \notin {"sent", "answered"} => BoundTo(q)
  /\ q.stage = "answered" /\ q.reply.is = "document" =>
       BoundTo(q) /\ (q.kind # "PREVIEW" => q.audit = "SUCCESS")

RequestFits(q, r) ==
  q.stage # "over" =>
    /\ DOMAIN q = RequestFields
    /\ q.kind # "M11" => Wanted(q, r)
    /\ ReplyFits(q)

PanelInOrder ==
  /\ InDoubt(tab)
  /\ panel.preview # NoSession => Visible(tab) /\ panel.preview = tab.identity
  /\ IntentFits(panel.intent)
  /\ \A r \in DOMAIN requests : RequestFits(requests[r], r)
  /\ \A g \in given : g.onRecord /\ (g.kind = "FILE" => g.by \in g.since)

QuietPanel ==
  /\ panel.intent = Idle /\ panel.preview = NoSession
  /\ DOMAIN requests = {} /\ given = {}

ExportsInOrder ==
  /\ HostInOrder /\ DocumentsInOrder
  /\ DOMAIN panel = {"intent", "preview"}
  /\ using = {} => PanelInOrder
  /\ using # {} => QuietPanel

(* The requests go on, and nothing else.                                   *)
LEMMA RequestsGoOn ==
  ASSUME PanelInOrder, UNCHANGED <<tab, panel, given>>,
         DOMAIN requests' = DOMAIN requests,
         \A r \in DOMAIN requests : RequestFits(requests'[r], r),
         \A r \in DOMAIN requests :
           requests[r].stage = "answered" =>
             /\ requests'[r].stage = "answered" /\ requests'[r].kind = requests[r].kind
             /\ requests'[r].reply = requests[r].reply
  PROVE  PanelInOrder'
<1>1. IntentFits(panel.intent)'
  BY DEF PanelInOrder, IntentFits, Visible
<1>2. \A r \in DOMAIN requests' : RequestFits(requests[r], r)'
  BY DEF RequestFits, Wanted, Hears, ReplyFits, BoundTo
<1> QED
  BY <1>1, <1>2 DEF PanelInOrder, InDoubt, Visible

LEMMA OneGoes ==
  ASSUME PanelInOrder, NEW r \in DOMAIN requests, NEW q,
         requests[r].stage \notin {"over", "answered"},
         DOMAIN q = RequestFields, q.kind = requests[r].kind, q.of = requests[r].of,
         ReplyFits(q),
         requests' = [requests EXCEPT ![r] = q], UNCHANGED <<tab, panel, given>>
  PROVE  PanelInOrder'
<1>1. RequestFits(q, r)
  BY DEF PanelInOrder, RequestFits, Wanted
<1>2. \A s \in DOMAIN requests : RequestFits(requests'[s], s)
  BY <1>1 DEF PanelInOrder
<1>3. \A s \in DOMAIN requests :
        requests[s].stage = "answered" => requests'[s] = requests[s]
  OBVIOUS
<1> QED
  BY <1>2, <1>3, RequestsGoOn

LEMMA OneIsAnswered ==
  ASSUME PanelInOrder, NEW r \in DOMAIN requests, NEW q,
         requests[r].stage \notin {"over", "answered"},
         DOMAIN q = RequestFields, q.kind = requests[r].kind, q.of = requests[r].of,
         NEW answer,
         answer.is = "document" => BoundTo(q) /\ (q.kind # "PREVIEW" => q.audit = "SUCCESS"),
         AnswersWith(r, q, answer)
  PROVE  PanelInOrder'
<1>1. PICK x \in {answer, Down} :
        requests' = [requests EXCEPT
                       ![r] = [q EXCEPT !.stage = "answered", !.reply = x]]
  BY DEF AnswersWith
<1> DEFINE w == [q EXCEPT !.stage = "answered", !.reply = x]
<1>2. /\ DOMAIN w = RequestFields /\ w.stage = "answered" /\ w.reply = x
      /\ w.kind = q.kind /\ w.of = q.of /\ w.carried = q.carried /\ w.audit = q.audit
  BY DEF RequestFields
<1>3. requests' = [requests EXCEPT ![r] = w]
  BY <1>1
<1> HIDE DEF w
<1>4. x.is = "document" => x = answer
  BY DEF Down
<1>5. ReplyFits(w)
  BY <1>2, <1>4 DEF ReplyFits, BoundTo
<1>6. UNCHANGED <<tab, panel, given>>
  BY DEF AnswersWith, Serves
<1> QED
  BY <1>2, <1>3, <1>5, <1>6, OneGoes

LEMMA ServingFits ==
  ASSUME PanelInOrder, Serving
  PROVE  PanelInOrder'
<1>1. PICK r \in DOMAIN requests :
        Admit(r) \/ ReadContext(r) \/ Compose(r) \/ AuditSuccess(r) \/ AuditFailure(r)
  BY DEF Serving
<1> DEFINE q == requests[r]
<1>2. /\ q.stage \in {"sent", "admitted", "reading", "made", "failed"}
      /\ DOMAIN q = RequestFields /\ ReplyFits(q)
  <2>1. q.stage \in {"sent", "admitted", "reading", "made", "failed"}
    BY <1>1 DEF Admit, ReadContext, Compose, AuditSuccess, AuditFailure
  <2>2. RequestFits(q, r)
    BY DEF PanelInOrder
  <2> HIDE DEF q
  <2> QED
    BY <2>1, <2>2 DEF RequestFits
<1>3. ASSUME NEW w, Goes(r, w), DOMAIN w = RequestFields, w.kind = q.kind, w.of = q.of,
             ReplyFits(w)
      PROVE  PanelInOrder'
  BY <1>2, <1>3, OneGoes DEF Goes, Serves
<1>4. ASSUME NEW answer, NEW w, AnswersWith(r, w, answer), DOMAIN w = RequestFields,
             w.kind = q.kind, w.of = q.of,
             answer.is = "document" =>
               BoundTo(w) /\ (w.kind # "PREVIEW" => w.audit = "SUCCESS")
      PROVE  PanelInOrder'
  BY <1>2, <1>4, OneIsAnswered
<1>5. CASE Admit(r)
  <2>1. \/ AnswersWith(r, q, Denied)
        \/ BoundTo(q) /\ Goes(r, [q EXCEPT !.stage = "admitted"])
        \/ BoundTo(q) /\ Goes(r, [q EXCEPT !.stage = "failed"])
    BY <1>5 DEF Admit
  <2>2. q.stage = "sent"
    BY <1>5 DEF Admit
  <2>3. CASE AnswersWith(r, q, Denied)
    BY <1>2, <1>4, <2>3 DEF Denied
  <2>4. ASSUME NEW step \in {"admitted", "failed"}, BoundTo(q),
               Goes(r, [q EXCEPT !.stage = step])
        PROVE  PanelInOrder'
    <3> DEFINE w == [q EXCEPT !.stage = step]
    <3>1. Goes(r, w)
      BY <2>4
    <3> HIDE DEF q
    <3>2. /\ DOMAIN w = RequestFields /\ w.stage = step /\ w.reply = q.reply
          /\ w.kind = q.kind /\ w.of = q.of /\ w.carried = q.carried
      BY <1>2 DEF RequestFields
    <3> HIDE DEF w
    <3>3. ReplyFits(w)
      BY <1>2, <2>2, <2>4, <3>2 DEF ReplyFits, BoundTo, Nothing
    <3> QED
      BY <1>3, <3>1, <3>2, <3>3
  <2> QED
    BY <2>1, <2>3, <2>4
<1>6. CASE ReadContext(r)
  <2> DEFINE w == [q EXCEPT !.stage = "reading", !.seen = book, !.legacy = InUse(book)]
  <2>1. AnswersWith(r, q, Denied) \/ Goes(r, w)
    BY <1>6 DEF ReadContext
  <2>2. q.stage = "admitted"
    BY <1>6 DEF ReadContext
  <2>3. CASE AnswersWith(r, q, Denied)
    BY <1>2, <1>4, <2>3 DEF Denied
  <2>4. CASE Goes(r, w)
    <3> HIDE DEF q
    <3>2. /\ DOMAIN w = RequestFields /\ w.stage = "reading" /\ w.reply = q.reply
          /\ w.kind = q.kind /\ w.of = q.of /\ w.carried = q.carried
      BY <1>2 DEF RequestFields
    <3> HIDE DEF w
    <3>3. ReplyFits(w)
      BY <1>2, <2>2, <3>2 DEF ReplyFits, BoundTo
    <3> QED
      BY <1>3, <2>4, <3>2, <3>3
  <2> QED
    BY <2>1, <2>3, <2>4
<1>7. CASE Compose(r)
  <2> DEFINE made == [is |-> "document",
                      document |-> Document(q, q.legacy, Snapshot(r))]
             v == [q EXCEPT !.stage = "made", !.reply = made]
  <2>1. /\ q.stage = "reading"
        /\ \/ q.kind = "PREVIEW" /\ \E x : AnswersWith(r, q, x)
           \/ Goes(r, v)
           \/ \E failed \in {[is |-> "failed"], [is |-> "inconsistent"]} :
                Goes(r, [q EXCEPT !.stage = "failed", !.reply = failed])
    BY <1>7 DEF Compose
  <2>2. BoundTo(q)
    BY <1>2, <2>1 DEF ReplyFits
  <2>3. CASE q.kind = "PREVIEW" /\ \E x : AnswersWith(r, q, x)
    BY <1>2, <1>4, <2>2, <2>3
  <2>4. ASSUME NEW step \in {"made", "failed"}, NEW x, x.is = "document" => step = "made",
               Goes(r, [q EXCEPT !.stage = step, !.reply = x])
        PROVE  PanelInOrder'
    <3> DEFINE w == [q EXCEPT !.stage = step, !.reply = x]
    <3>1. Goes(r, w)
      BY <2>4
    <3> HIDE DEF q
    <3>2. /\ DOMAIN w = RequestFields /\ w.stage = step /\ w.reply = x
          /\ w.kind = q.kind /\ w.of = q.of /\ w.carried = q.carried
      BY <1>2 DEF RequestFields
    <3> HIDE DEF w
    <3>3. ReplyFits(w)
      BY <1>2, <2>2, <2>4, <3>2 DEF ReplyFits, BoundTo
    <3> QED
      BY <1>3, <3>1, <3>2, <3>3
  <2>5. CASE Goes(r, v)
    <3> HIDE DEF made
    <3> QED
      BY <2>4, <2>5
  <2>6. ASSUME NEW failed \in {[is |-> "failed"], [is |-> "inconsistent"]},
               Goes(r, [q EXCEPT !.stage = "failed", !.reply = failed])
        PROVE  PanelInOrder'
    <3>1. failed.is # "document"
      OBVIOUS
    <3> QED
      BY <2>4, <2>6, <3>1
  <2> QED
    BY <2>1, <2>3, <2>5, <2>6
<1>8. CASE AuditSuccess(r)
  <2>1. /\ q.stage = "made"
        /\ \/ AnswersWith(r, q, Denied)
           \/ \E audit \in {"SUCCESS", "none"} :
                LET w == [q EXCEPT !.audit = audit] IN
                AnswersWith(r, w, IF OnRecord(w) THEN q.reply ELSE [is |-> "failed"])
    BY <1>8 DEF AuditSuccess
  <2>2. BoundTo(q)
    BY <1>2, <2>1 DEF ReplyFits
  <2>3. CASE AnswersWith(r, q, Denied)
    BY <1>2, <1>4, <2>3 DEF Denied
  <2>4. ASSUME NEW audit,
               LET w == [q EXCEPT !.audit = audit] IN
               AnswersWith(r, w, IF OnRecord(w) THEN q.reply ELSE [is |-> "failed"])
        PROVE  PanelInOrder'
    <3> DEFINE w == [q EXCEPT !.audit = audit]
               answer == IF OnRecord(w) THEN q.reply ELSE [is |-> "failed"]
    <3>1. AnswersWith(r, w, answer)
      BY <2>4
    <3> HIDE DEF q
    <3>2. /\ DOMAIN w = RequestFields
          /\ w.kind = q.kind /\ w.of = q.of /\ w.carried = q.carried
      BY <1>2 DEF RequestFields
    <3>3. answer.is = "document" => w.audit = "SUCCESS"
      BY DEF OnRecord
    <3> HIDE DEF w, answer
    <3> QED
      BY <1>4, <2>2, <3>1, <3>2, <3>3 DEF BoundTo
  <2> QED
    BY <2>1, <2>3, <2>4
<1>9. CASE AuditFailure(r)
  <2>1. /\ q.stage = "failed"
        /\ \/ AnswersWith(r, q, Denied)
           \/ \E audit \in {"FAILURE", "none"} :
                AnswersWith(r, [q EXCEPT !.audit = audit],
                            IF q.reply = Nothing \/ audit = "none"
                              THEN [is |-> "failed"] ELSE q.reply)
    BY <1>9 DEF AuditFailure
  <2>2. q.reply.is # "document"
    BY <1>2, <2>1 DEF ReplyFits
  <2>3. CASE AnswersWith(r, q, Denied)
    BY <1>2, <1>4, <2>3 DEF Denied
  <2>4. ASSUME NEW audit,
               AnswersWith(r, [q EXCEPT !.audit = audit],
                           IF q.reply = Nothing \/ audit = "none"
                             THEN [is |-> "failed"] ELSE q.reply)
        PROVE  PanelInOrder'
    <3> DEFINE w == [q EXCEPT !.audit = audit]
               answer == IF q.reply = Nothing \/ audit = "none"
                           THEN [is |-> "failed"] ELSE q.reply
    <3>1. AnswersWith(r, w, answer)
      BY <2>4
    <3> HIDE DEF q
    <3>2. DOMAIN w = RequestFields /\ w.kind = q.kind /\ w.of = q.of
      BY <1>2 DEF RequestFields
    <3>3. answer.is # "document"
      BY <2>2
    <3> HIDE DEF w, answer
    <3> QED
      BY <1>4, <3>1, <3>2, <3>3
  <2> QED
    BY <2>1, <2>3, <2>4
<1> QED
  BY <1>1, <1>5, <1>6, <1>7, <1>8, <1>9

LEMMA BookChangesFits ==
  ASSUME PanelInOrder, BookChanges
  PROVE  PanelInOrder'
<1> DEFINE over(q) == q.stage \in {"over", "answered"}
           later(q) == [q EXCEPT !.moments = @ \cup {book'}]
<1>1. requests' = [r \in DOMAIN requests |->
                     IF over(requests[r]) THEN requests[r] ELSE later(requests[r])]
  BY DEF BookChanges
<1>2. ASSUME NEW r \in DOMAIN requests
      PROVE  RequestFits(requests'[r], r)
  <2> DEFINE q == requests[r]
             w == later(q)
  <2>1. RequestFits(q, r)
    BY DEF PanelInOrder
  <2>2. CASE over(q)
    BY <1>1, <2>1, <2>2
  <2>3. CASE ~over(q)
    <3>1. requests'[r] = w
      BY <1>1, <2>3
    <3>2. DOMAIN q = RequestFields
      BY <2>1, <2>3 DEF RequestFits
    <3> HIDE DEF q
    <3>3. /\ DOMAIN w = RequestFields /\ w.stage = q.stage /\ w.reply = q.reply
          /\ w.kind = q.kind /\ w.of = q.of /\ w.carried = q.carried /\ w.audit = q.audit
      BY <3>2 DEF RequestFields
    <3> HIDE DEF w, later
    <3>4. RequestFits(w, r)
      BY <2>1, <3>3 DEF RequestFits, Wanted, ReplyFits, BoundTo
    <3> QED
      BY <3>1, <3>4
  <2> QED
    BY <2>2, <2>3
<1>3. \A r \in DOMAIN requests :
        requests[r].stage = "answered" => requests'[r] = requests[r]
  BY <1>1
<1>4. DOMAIN requests' = DOMAIN requests
  BY <1>1
<1> HIDE DEF over, later
<1>5. UNCHANGED <<tab, panel, given>>
  BY DEF BookChanges
<1> QED
  BY <1>2, <1>3, <1>4, <1>5, RequestsGoOn

-----------------------------------------------------------------------------
(* What the panel does with a proof.                                       *)

GivenInOrder == \A g \in given : g.onRecord /\ (g.kind = "FILE" => g.by \in g.since)

(* Only what is heard of is not historic.                                  *)
LEMMA OthersAreHistoric ==
  ASSUME PanelInOrder, NEW r \in DOMAIN requests, ~Wanted(requests[r], r)
  PROVE  requests[r].stage = "over" \/ requests[r].kind = "M11"
BY DEF PanelInOrder, RequestFits

(* The panel waits for nothing any more.                                   *)
LEMMA PanelEmpties ==
  ASSUME PanelInOrder, InDoubt(tab'), panel'.intent = Idle,
         panel'.preview # NoSession => Visible(tab') /\ panel'.preview = tab'.identity,
         GivenInOrder', DOMAIN requests' = DOMAIN requests,
         \A r \in DOMAIN requests :
           \/ requests'[r] = Spent
           \/ /\ requests'[r] = requests[r]
              /\ requests[r].stage = "over" \/ requests[r].kind = "M11"
  PROVE  PanelInOrder'
<1>1. IntentFits(panel.intent)'
  BY DEF IntentFits
<1>2. ASSUME NEW r \in DOMAIN requests
      PROVE  RequestFits(requests[r], r)'
  <2>1. requests'[r].stage # "over" =>
          /\ DOMAIN requests'[r] = RequestFields /\ requests'[r].kind = "M11"
          /\ ReplyFits(requests'[r])
    BY DEF PanelInOrder, RequestFits, Spent
  <2> QED
    BY <2>1 DEF RequestFits, ReplyFits, BoundTo
<1>3. InDoubt(tab)' /\ (panel.preview # NoSession => Visible(tab) /\ panel.preview = tab.identity)'
  BY DEF InDoubt, Visible
<1> QED
  BY <1>1, <1>2, <1>3 DEF PanelInOrder, GivenInOrder

(* One more is asked for, and waited for.                                  *)
LEMMA OneIsAskedFor ==
  ASSUME PanelInOrder, IsList(requests), NEW kind \in ExportKind, NEW room, NEW of,
         requests' = Append(requests, Requested(kind, room, of)),
         panel.intent = Idle \/ panel.intent.stage = "proof",
         panel'.intent.request = Len(requests'), DOMAIN panel'.intent = IntentFields,
         panel'.intent.kind = kind, panel'.intent.stage = "wait",
         panel'.intent.who = of, tab'.here = "agenda",
         kind # "M11" => panel'.preview = NoSession /\ Visible(tab') /\ tab'.identity = of,
         panel'.preview # NoSession => Visible(tab') /\ panel'.preview = tab'.identity,
         InDoubt(tab'), UNCHANGED given
  PROVE  PanelInOrder'
<1> DEFINE n == Len(requests) + 1
           q == Requested(kind, room, of)
<1>1. /\ Len(requests') = n /\ DOMAIN requests' = DOMAIN requests \cup {n}
      /\ requests'[n] = q
      /\ \A r \in DOMAIN requests : requests'[r] = requests[r]
  BY ListsGrow
<1>2. /\ DOMAIN q = RequestFields /\ q.kind = kind /\ q.of = of /\ q.stage = "sent"
      /\ q.reply = Nothing
  BY DEF Requested, RequestFields
<1>3. panel'.intent # Idle
  BY DEF Idle, ExportKind
<1>4. /\ DOMAIN requests'[n] = RequestFields /\ requests'[n].kind = kind
      /\ requests'[n].of = of /\ requests'[n].stage = "sent"
      /\ requests'[n].reply = Nothing
  BY <1>1, <1>2
<1> HIDE DEF q, n
<1>5. ASSUME NEW r \in DOMAIN requests
      PROVE  RequestFits(requests[r], r)'
  <2>1. ~Wanted(requests[r], r)
    BY DEF Wanted, Hears
  <2>2. requests[r].stage = "over" \/ requests[r].kind = "M11"
    BY <2>1, OthersAreHistoric
  <2>3. RequestFits(requests[r], r)
    BY DEF PanelInOrder
  <2> QED
    BY <1>1, <2>2, <2>3 DEF RequestFits, ReplyFits, BoundTo
<1>6. IntentFits(panel.intent)'
  BY DEF IntentFits, Visible
<1>7. InDoubt(tab)' /\ (panel.preview # NoSession => Visible(tab) /\ panel.preview = tab.identity)'
  BY DEF InDoubt, Visible
<1>8. ASSUME NEW r \in DOMAIN requests'
      PROVE  RequestFits(requests[r], r)'
  <2>1. CASE r \in DOMAIN requests
    BY <1>5, <2>1
  <2>2. CASE r = n
    <3>1. panel'.intent.request = r
      BY <1>1, <2>2
    <3> QED
      BY <1>3, <1>4, <2>2, <3>1 DEF RequestFits, Wanted, Hears, ReplyFits
  <2> QED
    BY <1>1, <2>1, <2>2
<1> QED
  BY <1>6, <1>7, <1>8 DEF PanelInOrder

LEMMA PanelProvedFits ==
  ASSUME ExportsInOrder, using = {}, NEW p \in Proof, PanelProved(p)
  PROVE  PanelInOrder'
<1> DEFINE i == panel.intent
           who == tab.proofs[p].reply.who
           u == Verified(p)
<1>1. HostInOrder /\ PanelInOrder /\ IsList(requests) /\ DOMAIN panel = {"intent", "preview"}
  BY DEF ExportsInOrder, DocumentsInOrder
<1>2. Holds(p)
  BY DEF PanelProved
<1>3. tab.flight = p /\ p # NoProof /\ who = tab.proofs[p].carried /\ who # NoSession
  BY <1>1, <1>2, StaffDraftsAssumption
     DEF Holds, Stale, HostInOrder, TabInOrder, CallsInOrder, NamesTheCarried
<1>4. ~Visible(tab) /\ panel.preview = NoSession
  BY <1>1, <1>3 DEF PanelInOrder, InDoubt, Visible
<1>5. /\ TabInOrder(u) /\ u.here = tab.here /\ u.flight = NoProof
      /\ u.proofs = [tab.proofs EXCEPT ![p] = NoCall]
  BY <1>1, <1>2, Verifications
<1>6. Staff(tab.here) => Visible(u) /\ u.identity = who
  BY <1>1, <1>2, VerifiedIsShown
<1> HIDE DEF u
<1>7. InDoubt(u)
  BY <1>5 DEF InDoubt
<1>8. CASE /\ ~Awaits(p) /\ Concludes(p, u)
           /\ UNCHANGED <<requests, panel, given>>
  <2>1. tab' = u
    BY <1>8 DEF Concludes
  <2>2. i # Idle => i.stage # "wait" \/ i.kind = "M11"
    BY <1>1, <1>4 DEF PanelInOrder, IntentFits
  <2>3. i # Idle /\ i.stage = "confirm" => i.proof # p
    BY <1>8 DEF Awaits
  <2>4. i # Idle /\ i.stage = "confirm" => u.proofs[i.proof] = tab.proofs[i.proof]
    BY <1>1, <1>5, <2>3 DEF PanelInOrder, IntentFits, HostInOrder, TabInOrder, CallsInOrder
  <2>5. IntentFits(panel.intent)'
    BY <1>1, <1>5, <1>8, <2>1, <2>2, <2>4 DEF PanelInOrder, IntentFits, Visible
  <2>6. \A r \in DOMAIN requests' : RequestFits(requests[r], r)'
    BY <1>1, <1>8 DEF PanelInOrder, RequestFits, Wanted, Hears, ReplyFits, BoundTo
  <2>7. InDoubt(tab)' /\ panel'.preview = NoSession
    BY <1>4, <1>7, <1>8, <2>1 DEF InDoubt
  <2> QED
    BY <1>1, <1>8, <2>5, <2>6, <2>7 DEF PanelInOrder
<1>9. CASE /\ Awaits(p) /\ i.stage = "proof" /\ Concludes(p, u)
           /\ requests' = Append(requests, Requested(i.kind, i.room, who))
           /\ WithIntent([i EXCEPT !.stage = "wait", !.who = who, !.request = Len(requests')])
           /\ UNCHANGED given
  <2>1. tab' = u
    BY <1>9 DEF Concludes
  <2>2. /\ i # Idle /\ i.kind \in ExportKind /\ i.kind # "M11" /\ DOMAIN i = IntentFields
        /\ tab.here = "agenda"
    BY <1>1, <1>9 DEF Awaits, PanelInOrder, IntentFits
  <2> DEFINE j == [i EXCEPT !.stage = "wait", !.who = who, !.request = Len(requests')]
  <2>3. panel'.intent = j /\ panel'.preview = NoSession
    BY <1>1, <1>4, <1>9 DEF WithIntent
  <2> HIDE DEF i, who
  <2>4. /\ DOMAIN j = IntentFields /\ j.kind = i.kind /\ j.stage = "wait" /\ j.who = who
        /\ j.request = Len(requests')
    BY <2>2 DEF IntentFields
  <2> HIDE DEF j
  <2>5. Visible(u) /\ u.identity = who
    BY <1>6, <2>2 DEF Staff
  <2>6. i.stage = "proof" /\ requests' = Append(requests, Requested(i.kind, i.room, who))
        /\ UNCHANGED given
    BY <1>9
  <2> QED
    BY <1>1, <1>5, <1>7, <2>1, <2>2, <2>3, <2>4, <2>5, <2>6, OneIsAskedFor DEF i
<1>10. CASE /\ Awaits(p) /\ i.stage = "confirm"
            /\ \/ /\ SameSession(i.who, who) /\ Concludes(p, u)
                  /\ HandedOver(requests[i.request], i.since)
               \/ Concludes(p, Quarantined(u)) /\ UNCHANGED given
            /\ WithIntent(Idle)
            /\ requests' = [requests EXCEPT ![i.request] = Spent]
  <2>1. tab' = u \/ tab' = Quarantined(u)
    BY <1>10 DEF Concludes
  <2>2. InDoubt(tab')
    BY <1>5, <1>7, <2>1, SimpleMoves DEF MovesOn
  <2>3. panel'.intent = Idle /\ panel'.preview = NoSession
    BY <1>1, <1>4, <1>10 DEF WithIntent
  <2>4. /\ i # Idle /\ i.proof = p /\ i.request \in DOMAIN requests
        /\ requests[i.request].stage = "answered"
        /\ requests[i.request].kind = "FILE"
        /\ requests[i.request].reply.is = "document"
        /\ tab.proofs[p].carried \in i.since
    BY <1>1, <1>10 DEF Awaits, PanelInOrder, IntentFits
  <2> DEFINE q == requests[i.request]
  <2>5. q.carried = q.of /\ q.audit = "SUCCESS" /\ i.who = q.of
    <3>1. RequestFits(q, i.request)
      BY <1>1, <2>4 DEF PanelInOrder
    <3> HIDE DEF q
    <3>2. q.stage = "answered" /\ q.kind = "FILE" /\ q.reply.is = "document"
      BY <2>4 DEF q
    <3> QED
      BY <3>1, <3>2 DEF RequestFits, ReplyFits, BoundTo, Wanted
  <2>6. GivenInOrder'
    <3>1. GivenInOrder
      BY <1>1 DEF PanelInOrder, GivenInOrder
    <3>2. CASE UNCHANGED given
      BY <3>1, <3>2 DEF GivenInOrder
    <3>3. CASE SameSession(i.who, who) /\ HandedOver(q, i.since)
      <4>1. q.carried \in i.since
        BY <1>3, <2>4, <2>5, <3>3 DEF SameSession
      <4> DEFINE g0 == [kind |-> q.kind, by |-> q.carried, since |-> i.since,
                        onRecord |-> q.audit = "SUCCESS"]
      <4>2. given' = given \cup {g0}
        BY <3>3 DEF HandedOver
      <4>3. g0.onRecord /\ g0.by \in g0.since
        BY <2>5, <4>1
      <4> HIDE DEF g0
      <4> QED
        BY <3>1, <4>2, <4>3 DEF GivenInOrder
    <3> QED
      BY <1>10, <3>2, <3>3
  <2>7. \A r \in DOMAIN requests :
          r # i.request => requests[r].stage = "over" \/ requests[r].kind = "M11"
    BY <1>1, OthersAreHistoric DEF Wanted, Hears
  <2>8. DOMAIN requests' = DOMAIN requests
        /\ \A r \in DOMAIN requests :
             \/ requests'[r] = Spent
             \/ /\ requests'[r] = requests[r]
                /\ requests[r].stage = "over" \/ requests[r].kind = "M11"
    BY <1>10, <2>4, <2>7
  <2> QED
    BY <1>1, <2>2, <2>3, <2>6, <2>8, PanelEmpties
<1> QED
  BY <1>8, <1>9, <1>10, Zenon DEF PanelProved, u

LEMMA PanelNotProvedFits ==
  ASSUME ExportsInOrder, using = {}, NEW p \in Proof, PanelNotProved(p)
  PROVE  PanelInOrder'
<1> DEFINE i == panel.intent
           final == Awaits(p) /\ i.stage = "confirm"
           u == NotVerified(p)
<1>1. HostInOrder /\ PanelInOrder /\ DOMAIN panel = {"intent", "preview"}
  BY DEF ExportsInOrder
<1>2. p # NoProof
  BY StaffDraftsAssumption
<1>3. /\ TabInOrder(u) /\ u.here = tab.here
      /\ u.flight \in {NoProof, tab.flight}
      /\ tab.flight = p => u.flight = NoProof
      /\ u.proofs = [tab.proofs EXCEPT ![p] = NoCall]
      /\ tab.flight # p =>
           u.auth = tab.auth /\ u.authorized = tab.authorized /\ u.identity = tab.identity
  BY <1>1, Refusals
<1> HIDE DEF u
<1>4. InDoubt(u) /\ InDoubt(Quarantined(u))
  <2>1. InDoubt(u)
    BY <1>1, <1>3 DEF PanelInOrder, InDoubt
  <2> QED
    BY <1>3, <2>1, SimpleMoves DEF MovesOn
<1>5. Visible(tab) => Visible(u) /\ u.identity = tab.identity
  <2>1. Visible(tab) => tab.flight # p
    BY <1>1, <1>2 DEF PanelInOrder, InDoubt, Visible
  <2> QED
    BY <1>3, <2>1 DEF Visible
<1>6. /\ tab' = IF final THEN Quarantined(u) ELSE u
      /\ IF Awaits(p) THEN WithIntent(Idle) ELSE UNCHANGED panel
      /\ requests' = IF final THEN [requests EXCEPT ![i.request] = Spent] ELSE requests
      /\ UNCHANGED given
  BY DEF PanelNotProved, Concludes, u
<1>7. GivenInOrder'
  BY <1>1, <1>6 DEF PanelInOrder, GivenInOrder
<1>8. CASE Awaits(p)
  <2>1. i # Idle /\ i.stage # "wait" /\ i.kind # "M11" /\ panel.preview = NoSession
    BY <1>1, <1>8 DEF Awaits, PanelInOrder, IntentFits
  <2>2. panel'.intent = Idle /\ panel'.preview = NoSession
    BY <1>1, <1>6, <1>8, <2>1 DEF WithIntent
  <2>3. \A r \in DOMAIN requests :
          \/ final /\ r = i.request
          \/ requests[r].stage = "over" \/ requests[r].kind = "M11"
    <3>1. SUFFICES ASSUME NEW r \in DOMAIN requests, requests[r].stage # "over",
                          requests[r].kind # "M11"
                   PROVE  final /\ r = i.request
      OBVIOUS
    <3>2. Wanted(requests[r], r)
      BY <1>1, <3>1, OthersAreHistoric
    <3>3. i.stage = "confirm"
      <4>1. i.stage \in {"proof", "wait", "confirm"}
        BY <1>1, <2>1 DEF PanelInOrder, IntentFits
      <4> QED
        BY <2>1, <3>2, <4>1 DEF Wanted
    <3> QED
      BY <1>8, <3>2, <3>3 DEF Wanted, Hears
  <2>4. final => i.request \in DOMAIN requests
    BY <1>1, <2>1 DEF PanelInOrder, IntentFits
  <2>5. /\ DOMAIN requests' = DOMAIN requests
        /\ \A r \in DOMAIN requests :
             \/ requests'[r] = Spent
             \/ /\ requests'[r] = requests[r]
                /\ requests[r].stage = "over" \/ requests[r].kind = "M11"
    BY <1>6, <2>3, <2>4
  <2>6. InDoubt(tab')
    BY <1>4, <1>6
  <2> QED
    BY <1>1, <1>7, <2>2, <2>5, <2>6, PanelEmpties
<1>9. CASE ~Awaits(p)
  <2>1. tab' = u /\ UNCHANGED <<panel, requests, given>>
    BY <1>6, <1>9
  <2>2. i # Idle /\ i.stage = "confirm" => u.proofs[i.proof] = tab.proofs[i.proof]
    BY <1>1, <1>3, <1>9
       DEF Awaits, PanelInOrder, IntentFits, HostInOrder, TabInOrder, CallsInOrder
  <2>3. IntentFits(panel.intent)'
    BY <1>1, <1>3, <1>5, <2>1, <2>2 DEF PanelInOrder, IntentFits, Visible
  <2>4. \A r \in DOMAIN requests' : RequestFits(requests[r], r)'
    BY <1>1, <2>1 DEF PanelInOrder, RequestFits, Wanted, Hears, ReplyFits, BoundTo
  <2>5. InDoubt(tab)'
        /\ (panel.preview # NoSession => Visible(tab) /\ panel.preview = tab.identity)'
    BY <1>1, <1>4, <1>5, <2>1 DEF PanelInOrder, InDoubt, Visible
  <2> QED
    BY <1>1, <2>1, <2>3, <2>4, <2>5 DEF PanelInOrder
<1> QED
  BY <1>8, <1>9

-----------------------------------------------------------------------------
(* What the panel asks for, hears of and selects.                          *)

LEMMA BeginFits ==
  ASSUME ExportsInOrder, NEW kind \in ExportKind, NEW room \in Selection, Begin(kind, room)
  PROVE  PanelInOrder'
<1>1. /\ HostInOrder /\ PanelInOrder /\ IsList(requests)
      /\ DOMAIN panel = {"intent", "preview"}
      /\ panel.intent = Idle /\ tab.here = "agenda" /\ UNCHANGED given
  BY DEF ExportsInOrder, DocumentsInOrder, Begin
<1>2. CASE kind = "M11"
  <2> DEFINE j == [Waits(kind, room, "wait", NoProof) EXCEPT !.request = Len(requests')]
  <2>1. /\ requests' = Append(requests, Requested(kind, room, NoSession))
        /\ panel'.intent = j /\ panel'.preview = panel.preview /\ tab' = tab
    BY <1>1, <1>2 DEF Begin, WithIntent
  <2>2. /\ DOMAIN j = IntentFields /\ j.kind = kind /\ j.stage = "wait"
        /\ j.who = NoSession /\ j.request = Len(requests')
    BY DEF Waits, IntentFields
  <2> HIDE DEF j
  <2>3. InDoubt(tab') /\ (panel'.preview # NoSession =>
                            Visible(tab') /\ panel'.preview = tab'.identity)
    BY <1>1, <2>1 DEF PanelInOrder
  <2> QED
    BY <1>1, <1>2, <2>1, <2>2, <2>3, OneIsAskedFor
<1>3. CASE kind # "M11"
  <2>1. /\ CanVerify(tab) /\ tab' = Verifying(tab, "none")
        /\ panel' = [intent |-> Waits(kind, room, "proof", tab'.flight), preview |-> NoSession]
        /\ UNCHANGED requests
    BY <1>3 DEF Begin
  <2>2. /\ tab'.here = "agenda" /\ InDoubt(tab')
    BY <1>1, <2>1, Asking, AskingMoves DEF HostInOrder, MovesOn, PanelInOrder
  <2>3. /\ DOMAIN panel'.intent = IntentFields /\ panel'.intent.kind = kind
        /\ panel'.intent.stage = "proof" /\ panel'.preview = NoSession
    BY <2>1 DEF Waits, IntentFields
  <2>4. IntentFits(panel.intent)'
    BY <1>3, <2>2, <2>3 DEF IntentFits
  <2>5. ASSUME NEW r \in DOMAIN requests'
        PROVE  RequestFits(requests[r], r)'
    <3>1. requests[r].stage = "over" \/ requests[r].kind = "M11"
      BY <1>1, <2>1, OthersAreHistoric DEF Wanted, Hears
    <3> QED
      BY <1>1, <2>1, <3>1 DEF PanelInOrder, RequestFits, ReplyFits, BoundTo
  <2>6. InDoubt(tab)'
    BY <2>2 DEF InDoubt
  <2> QED
    BY <1>1, <2>3, <2>4, <2>5, <2>6 DEF PanelInOrder
<1> QED
  BY <1>2, <1>3

LEMMA AnsweredFits ==
  ASSUME ExportsInOrder, using = {}, NEW r \in DOMAIN requests, Answered(r)
  PROVE  PanelInOrder'
<1> DEFINE q == requests[r]
           i == panel.intent
           spent == [requests EXCEPT ![r] = Spent]
<1>1. HostInOrder /\ PanelInOrder /\ DOMAIN panel = {"intent", "preview"}
  BY DEF ExportsInOrder
<1>2. /\ q.stage = "answered" /\ RequestFits(q, r)
  BY <1>1 DEF Answered, PanelInOrder
<1>3. TabInOrder(tab) /\ InDoubt(tab) /\ GivenInOrder
  BY <1>1 DEF HostInOrder, PanelInOrder, GivenInOrder
<1>4. q.kind # "M11" =>
        \A s \in DOMAIN requests :
          s # r => requests[s].stage = "over" \/ requests[s].kind = "M11"
  BY <1>1, <1>2, OthersAreHistoric DEF RequestFits, Wanted, Hears
<1>5. ASSUME q.kind # "M11", requests' = spent, panel'.intent = Idle, InDoubt(tab'),
             UNCHANGED given,
             panel'.preview # NoSession => Visible(tab') /\ panel'.preview = tab'.identity
      PROVE  PanelInOrder'
  <2>1. GivenInOrder'
    BY <1>3, <1>5 DEF GivenInOrder
  <2>2. /\ DOMAIN requests' = DOMAIN requests
        /\ \A s \in DOMAIN requests :
             \/ requests'[s] = Spent
             \/ /\ requests'[s] = requests[s]
                /\ requests[s].stage = "over" \/ requests[s].kind = "M11"
    BY <1>4, <1>5
  <2> QED
    BY <1>1, <1>5, <2>1, <2>2, PanelEmpties
<1>6. q.kind # "M11" => /\ i # Idle /\ i.request = r /\ i.kind = q.kind /\ i.who = q.of
                        /\ panel.preview = NoSession
  BY <1>1, <1>2 DEF RequestFits, Wanted, Hears, PanelInOrder, IntentFits
<1>7. CASE /\ q.kind = "M11"
           /\ IF q.reply.is = "document" THEN HandedOver(q, {}) ELSE UNCHANGED given
           /\ IF Hears(r) THEN WithIntent(Idle) ELSE UNCHANGED panel
           /\ requests' = spent /\ UNCHANGED tab
  <2>1. GivenInOrder'
    <3>1. CASE UNCHANGED given
      BY <1>3, <3>1 DEF GivenInOrder
    <3>2. CASE q.reply.is = "document" /\ HandedOver(q, {})
      <4> DEFINE g0 == [kind |-> q.kind, by |-> q.carried, since |-> {},
                        onRecord |-> q.audit = "SUCCESS"]
      <4>1. given' = given \cup {g0}
        BY <3>2 DEF HandedOver
      <4>2. q.audit = "SUCCESS"
        BY <1>2, <1>7, <3>2 DEF RequestFits, ReplyFits
      <4>3. g0.onRecord /\ g0.kind = "M11"
        BY <1>7, <4>2
      <4> HIDE DEF g0
      <4> QED
        BY <1>3, <4>1, <4>3 DEF GivenInOrder
    <3> QED
      BY <1>7, <3>1, <3>2
  <2>2. InDoubt(tab')
    BY <1>3, <1>7
  <2>3. panel'.preview = panel.preview
    BY <1>1, <1>7 DEF WithIntent
  <2>4. CASE Hears(r)
    <3>1. panel'.intent = Idle
      BY <1>1, <1>7, <2>4 DEF WithIntent
    <3>2. panel'.preview # NoSession => Visible(tab') /\ panel'.preview = tab'.identity
      BY <1>1, <1>7, <2>3 DEF PanelInOrder
    <3>3. \A s \in DOMAIN requests :
            s # r => requests[s].stage = "over" \/ requests[s].kind = "M11"
      BY <1>1, <2>4, OthersAreHistoric DEF Wanted, Hears
    <3>4. /\ DOMAIN requests' = DOMAIN requests
          /\ \A s \in DOMAIN requests :
               \/ requests'[s] = Spent
               \/ /\ requests'[s] = requests[s]
                  /\ requests[s].stage = "over" \/ requests[s].kind = "M11"
      BY <1>7, <3>3
    <3> QED
      BY <1>1, <2>1, <2>2, <3>1, <3>2, <3>4, PanelEmpties
  <2>5. CASE ~Hears(r)
    <3>1. UNCHANGED <<tab, panel>>
      BY <1>7, <2>5
    <3>2. i # Idle /\ i.stage = "confirm" => i.request # r
      BY <1>1, <1>7 DEF PanelInOrder, IntentFits
    <3>3. i # Idle /\ i.stage = "confirm" => requests'[i.request] = requests[i.request]
      BY <1>7, <3>2
    <3>4. DOMAIN requests' = DOMAIN requests
      BY <1>7
    <3>5. IntentFits(panel.intent)'
      BY <1>1, <3>1, <3>3, <3>4 DEF PanelInOrder, IntentFits, Visible
    <3>6. ASSUME NEW s \in DOMAIN requests'
          PROVE  RequestFits(requests[s], s)'
      <4>1. requests'[s] = Spent \/ requests'[s] = requests[s]
        BY <1>7
      <4> QED
        BY <1>1, <3>1, <3>4, <4>1
           DEF PanelInOrder, RequestFits, Wanted, Hears, ReplyFits, BoundTo, Spent
    <3> QED
      BY <1>1, <2>1, <3>1, <3>5, <3>6 DEF PanelInOrder, InDoubt, Visible, GivenInOrder
  <2> QED
    BY <2>4, <2>5
<1>8. CASE /\ q.kind # "M11"
           /\ tab' = Quarantined(tab)
           /\ panel' = [intent |-> Idle, preview |-> NoSession]
           /\ requests' = spent /\ UNCHANGED given
  <2>1. InDoubt(tab')
    BY <1>3, <1>8, SimpleMoves DEF MovesOn
  <2> QED
    BY <1>5, <1>8, <2>1
<1>9. CASE /\ q.kind # "M11" /\ WithIntent(Idle)
           /\ requests' = spent /\ UNCHANGED <<tab, given>>
  <2>1. panel'.intent = Idle /\ panel'.preview = NoSession
    BY <1>1, <1>6, <1>9 DEF WithIntent
  <2> QED
    BY <1>3, <1>5, <1>9, <2>1
<1>10. CASE /\ q.kind = "PREVIEW" /\ q.reply.is = "document"
            /\ panel' = [intent |-> Idle, preview |-> q.carried]
            /\ requests' = spent /\ UNCHANGED <<tab, given>>
  <2>1. q.carried = q.of
    BY <1>2, <1>10 DEF RequestFits, ReplyFits, BoundTo
  <2>2. i.stage = "wait"
    BY <1>1, <1>2, <1>6, <1>10 DEF PanelInOrder, IntentFits, RequestFits, Wanted
  <2>3. Visible(tab) /\ tab.identity = q.carried
    BY <1>1, <1>6, <1>10, <2>1, <2>2 DEF PanelInOrder, IntentFits
  <2> QED
    BY <1>3, <1>5, <1>10, <2>3
<1>11. CASE /\ q.kind = "FILE" /\ q.reply.is = "document"
            /\ i.stage = "wait" /\ CanVerify(tab)
            /\ tab' = Verifying(tab, "none")
            /\ WithIntent([i EXCEPT !.stage = "confirm", !.proof = tab'.flight,
                                    !.since = {cookie}])
            /\ UNCHANGED <<requests, given>>
  <2> DEFINE j == [i EXCEPT !.stage = "confirm", !.proof = tab'.flight, !.since = {cookie}]
  <2>1. /\ DOMAIN i = IntentFields /\ i.kind = "FILE" /\ tab.here = "agenda"
        /\ Visible(tab) /\ tab.identity = i.who
    BY <1>1, <1>6, <1>11 DEF PanelInOrder, IntentFits
  <2>2. tab.flight = NoProof
    BY <1>3, <2>1 DEF InDoubt, Visible
  <2>3. /\ tab'.here = "agenda" /\ tab'.flight \in Proof
        /\ tab'.auth = "CHECKING"
        /\ tab'.proofs = [tab.proofs EXCEPT ![tab'.flight] = NewCall(tab, "none")]
    <3>1. LET u == Verifying(tab, "none") IN
          /\ u.here = tab.here /\ u.flight \in Proof
          /\ \/ u = tab
             \/ /\ u.auth = "CHECKING" /\ u.flight \in Proof
                /\ u.proofs = [tab.proofs EXCEPT ![u.flight] = NewCall(tab, "none")]
      BY <1>3, <1>11, <2>1, Asking DEF Staff
    <3> QED
      BY <1>11, <2>1, <2>2, <3>1, StaffDraftsAssumption
  <2>4. /\ tab'.proofs[tab'.flight] # NoCall
        /\ tab'.proofs[tab'.flight].carried = cookie
    <3>1. NewCall(tab, "none").carried = cookie /\ NewCall(tab, "none").route = "agenda"
      BY <2>1 DEF NewCall
    <3>2. NewCall(tab, "none") # NoCall
      BY <3>1 DEF NoCall, NoRoute
    <3> QED
      BY <1>3, <2>3, <3>1, <3>2 DEF TabInOrder, CallsInOrder
  <2>5. panel'.intent = j /\ panel'.preview = NoSession
    BY <1>1, <1>6, <1>11 DEF WithIntent
  <2> HIDE DEF i
  <2>6. /\ DOMAIN j = IntentFields /\ j.kind = i.kind /\ j.stage = "confirm"
        /\ j.who = i.who /\ j.proof = tab'.flight /\ j.since = {cookie}
        /\ j.request = i.request
    BY <2>1 DEF IntentFields
  <2> HIDE DEF j
  <2>7. IntentFits(panel.intent)'
    BY <1>2, <1>6, <1>11, <2>1, <2>3, <2>4, <2>5, <2>6 DEF IntentFits, ExportKind
  <2>8. ASSUME NEW s \in DOMAIN requests'
        PROVE  RequestFits(requests[s], s)'
    <3>1. panel'.intent # Idle
      BY <2>1, <2>5, <2>6 DEF Idle
    <3>2. RequestFits(requests[s], s) /\ UNCHANGED requests
      BY <1>1, <1>11 DEF PanelInOrder
    <3>3. Wanted(requests[s], s) => Wanted(requests[s], s)'
      BY <2>5, <2>6, <3>1, <3>2 DEF Wanted, Hears, i
    <3> QED
      BY <3>2, <3>3 DEF RequestFits, ReplyFits, BoundTo
  <2>9. InDoubt(tab)' /\ GivenInOrder'
    BY <1>3, <1>11, <2>3 DEF InDoubt, GivenInOrder
  <2> QED
    BY <2>5, <2>7, <2>8, <2>9 DEF PanelInOrder, GivenInOrder
<1> QED
  BY <1>7, <1>8, <1>9, <1>10, <1>11, Zenon DEF Answered

LEMMA ReselectFits ==
  ASSUME ExportsInOrder, using = {}, Reselect
  PROVE  PanelInOrder'
<1> DEFINE i == panel.intent
           historic == i # Idle /\ i.kind = "M11"
           unwanted(r) == Hears(r) /\ i.kind # "M11"
<1>1. HostInOrder /\ PanelInOrder
  BY DEF ExportsInOrder
<1>2. /\ panel'.intent = IF historic THEN i ELSE Idle
      /\ panel'.preview = NoSession
      /\ requests' = [r \in DOMAIN requests |-> IF unwanted(r) THEN Spent ELSE requests[r]]
      /\ tab' = tab /\ UNCHANGED given
  BY DEF Reselect, draftVars
<1>3. InDoubt(tab') /\ GivenInOrder'
  BY <1>1, <1>2 DEF PanelInOrder, GivenInOrder
<1>4. CASE ~historic
  <2>1. \A r \in DOMAIN requests :
          ~unwanted(r) => requests[r].stage = "over" \/ requests[r].kind = "M11"
    BY <1>1, <1>4, OthersAreHistoric DEF Wanted, Hears
  <2>2. /\ DOMAIN requests' = DOMAIN requests
        /\ \A r \in DOMAIN requests :
             requests'[r] = IF unwanted(r) THEN Spent ELSE requests[r]
    BY <1>2
  <2> HIDE DEF unwanted
  <2> QED
    BY <1>1, <1>2, <1>3, <1>4, <2>1, <2>2, PanelEmpties
<1>5. CASE historic
  <2>1. /\ DOMAIN requests' = DOMAIN requests
        /\ \A r \in DOMAIN requests : requests'[r] = requests[r]
    BY <1>2, <1>5
  <2>2. panel'.intent = i
    BY <1>2, <1>5
  <2>3. IntentFits(panel.intent)'
    BY <1>1, <1>2, <1>5, <2>1, <2>2 DEF PanelInOrder, IntentFits, Visible
  <2>4. \A r \in DOMAIN requests' : RequestFits(requests[r], r)'
    BY <1>1, <2>1, <2>2 DEF PanelInOrder, RequestFits, Wanted, Hears, ReplyFits, BoundTo
  <2> QED
    BY <1>2, <1>3, <2>3, <2>4 DEF PanelInOrder, InDoubt, GivenInOrder
<1> QED
  BY <1>4, <1>5

-----------------------------------------------------------------------------
(* What the host disturbs, and all steps together.                         *)

LEMMA DisturbsFits ==
  ASSUME ExportsInOrder, using = {}, NEW away, Disturbs(away), HostMoves
  PROVE  PanelInOrder'
<1> DEFINE i == panel.intent
           j == Remaining(away)
           unwanted(r) == \/ DocumentReplaced
                          \/ Hears(r) /\ j = Idle /\ i.kind # "M11"
<1>1. HostInOrder /\ PanelInOrder
  BY DEF ExportsInOrder
<1>2. /\ panel'.intent = j
      /\ panel'.preview = IF StampHolds THEN panel.preview ELSE NoSession
      /\ DOMAIN requests' = DOMAIN requests
      /\ \A r \in DOMAIN requests :
           requests'[r] = IF unwanted(r) THEN Spent ELSE requests[r]
      /\ UNCHANGED given
  BY DEF Disturbs
<1>3. InDoubt(tab') /\ InDoubt(tab)' /\ GivenInOrder'
  BY <1>1, <1>2 DEF HostMoves, InDoubt, PanelInOrder, GivenInOrder
<1>4. panel'.preview # NoSession => Visible(tab') /\ panel'.preview = tab'.identity
  BY <1>1, <1>2 DEF StampHolds, PanelInOrder
<1>5. CASE j = Idle
  <2>1. \A r \in DOMAIN requests :
          ~unwanted(r) => requests[r].stage = "over" \/ requests[r].kind = "M11"
    BY <1>1, <1>5, OthersAreHistoric DEF Wanted, Hears
  <2> HIDE DEF unwanted, j
  <2> QED
    BY <1>1, <1>2, <1>3, <1>4, <1>5, <2>1, PanelEmpties
<1>6. CASE j # Idle
  <2>1. /\ i # Idle /\ tab'.here = "agenda" /\ ~DocumentReplaced
        /\ i.kind # "M11" /\ i.stage = "wait" => StampHolds
        /\ j = IF i.stage = "confirm" THEN [i EXCEPT !.since = @ \cup {cookie'}] ELSE i
    BY <1>6 DEF Remaining, Survives
  <2>2. /\ DOMAIN i = IntentFields
        /\ CallsGoOn(tab, tab')
    BY <1>1, <2>1 DEF PanelInOrder, IntentFits, HostMoves
  <2>3. /\ DOMAIN j = IntentFields /\ j.kind = i.kind /\ j.stage = i.stage
        /\ j.proof = i.proof /\ j.who = i.who /\ j.request = i.request
        /\ i.since \subseteq j.since
    <3> DEFINE k == [i EXCEPT !.since = @ \cup {cookie'}]
    <3> HIDE DEF i, j
    <3>1. /\ DOMAIN k = IntentFields /\ k.kind = i.kind /\ k.stage = i.stage
          /\ k.proof = i.proof /\ k.who = i.who /\ k.request = i.request
          /\ k.since = i.since \cup {cookie'}
      BY <2>2 DEF IntentFields
    <3> HIDE DEF k
    <3>2. j = k \/ j = i
      BY <2>1 DEF k
    <3> QED
      BY <2>2, <3>1, <3>2
  <2>4. \A r \in DOMAIN requests : requests'[r] = requests[r]
    BY <1>2, <1>6, <2>1
  <2> HIDE DEF j, unwanted
  <2>5. i.kind # "M11" /\ i.stage = "wait" => Visible(tab') /\ tab'.identity = i.who
    BY <1>1, <2>1 DEF StampHolds, PanelInOrder, IntentFits
  <2>6. i.kind # "M11" => panel'.preview = NoSession
    BY <1>1, <1>2, <2>1 DEF PanelInOrder, IntentFits
  <2>7. i.stage = "confirm" =>
          /\ i.kind = "FILE"
          /\ i.request \in DOMAIN requests
          /\ requests[i.request].stage = "answered"
          /\ requests[i.request].kind = "FILE"
          /\ requests[i.request].reply.is = "document"
          /\ i.proof \in Proof /\ tab'.proofs[i.proof] # NoCall
          /\ tab'.proofs[i.proof].carried \in j.since
    BY <1>1, <2>1, <2>2, <2>3 DEF PanelInOrder, IntentFits, CallsGoOn
  <2>8. i.kind \in ExportKind /\ i.stage \in {"proof", "wait", "confirm"}
        /\ (i.kind = "M11" => i.stage = "wait")
    BY <1>1, <2>1 DEF PanelInOrder, IntentFits
  <2>9. IntentFits(panel.intent)'
    BY <1>2, <2>1, <2>3, <2>4, <2>5, <2>6, <2>7, <2>8 DEF IntentFits, Visible
  <2>10. ASSUME NEW r \in DOMAIN requests'
         PROVE  RequestFits(requests[r], r)'
    <3>1. RequestFits(requests[r], r) /\ requests'[r] = requests[r]
      BY <1>1, <1>2, <2>4 DEF PanelInOrder
    <3>2. Wanted(requests[r], r) => Wanted(requests[r], r)'
      BY <1>2, <1>6, <2>3, <3>1 DEF Wanted, Hears
    <3> QED
      BY <3>1, <3>2 DEF RequestFits, ReplyFits, BoundTo
  <2> QED
    BY <1>3, <1>4, <2>9, <2>10 DEF PanelInOrder, GivenInOrder, Visible
<1> QED
  BY <1>5, <1>6

(* While there are drafts there are no exports.                            *)
LEMMA QuietStays ==
  ASSUME QuietPanel, DOMAIN panel = {"intent", "preview"}, using # {},
         [ExportNext]_<<draftVars, exportVars>>
  PROVE  QuietPanel' /\ DOMAIN panel' = {"intent", "preview"}
<1>1. ASSUME UNCHANGED <<panel, requests, given>>
      PROVE  QuietPanel' /\ DOMAIN panel' = {"intent", "preview"}
  BY <1>1 DEF QuietPanel
<1>2. \A p \in Proof : ~Awaits(p)
  BY DEF QuietPanel, Awaits
<1>3. ASSUME NEW p \in Proof, PanelProved(p)
      PROVE  UNCHANGED <<panel, requests, given>>
  BY <1>2, <1>3 DEF PanelProved
<1>4. ASSUME NEW p \in Proof, PanelNotProved(p)
      PROVE  UNCHANGED <<panel, requests, given>>
  BY <1>2, <1>4 DEF PanelNotProved
<1>5. ASSUME NEW away, Disturbs(away)
      PROVE  QuietPanel' /\ DOMAIN panel' = {"intent", "preview"}
  <2>1. Remaining(away) = Idle
    BY DEF QuietPanel, Remaining, Survives
  <2>2. panel' = [intent |-> Idle, preview |-> NoSession] /\ UNCHANGED given
    BY <1>5, <2>1 DEF QuietPanel, Disturbs
  <2>3. DOMAIN requests' = {}
    BY <1>5 DEF Disturbs, QuietPanel
  <2> QED
    BY <2>2, <2>3 DEF QuietPanel
<1>6. ~Serving /\ ~BookChanges /\ ~Reselect
  BY DEF QuietPanel, Serving, BookChanges, Reselect
<1>7. \A kind \in ExportKind, room \in Selection : ~Begin(kind, room)
  BY DEF Begin
<1>8. \A r \in DOMAIN requests : ~Answered(r)
  BY DEF QuietPanel
<1>9. CASE UNCHANGED <<draftVars, exportVars>>
  BY <1>1, <1>9 DEF exportVars
<1> QED
  BY <1>1, <1>3, <1>4, <1>5, <1>6, <1>7, <1>8, <1>9, Zenon DEF ExportNext

LEMMA PanelStaysAPanel ==
  ASSUME DOMAIN panel = {"intent", "preview"}, [ExportNext]_<<draftVars, exportVars>>
  PROVE  DOMAIN panel' = {"intent", "preview"}
<1>1. \A x : WithIntent(x) => DOMAIN panel' = {"intent", "preview"}
  BY DEF WithIntent
<1>2. CASE Serving
  <2>1. UNCHANGED panel
    BY <1>2, Zenon DEF Serving, Admit, ReadContext, Compose, AuditSuccess, AuditFailure,
                       AnswersWith, Goes, Serves
  <2> QED
    BY <2>1
<1>3. CASE \/ BookChanges \/ Reselect \/ UNCHANGED <<draftVars, exportVars>>
           \/ \E away : Disturbs(away)
  BY <1>3 DEF BookChanges, Reselect, exportVars, Disturbs
<1>4. ASSUME NEW kind \in ExportKind, NEW room \in Selection, Begin(kind, room)
      PROVE  DOMAIN panel' = {"intent", "preview"}
  BY <1>1, <1>4 DEF Begin
<1>5. ASSUME NEW r \in DOMAIN requests, Answered(r)
      PROVE  DOMAIN panel' = {"intent", "preview"}
  BY <1>1, <1>5 DEF Answered
<1>6. ASSUME NEW p \in Proof, PanelProved(p) \/ PanelNotProved(p)
      PROVE  DOMAIN panel' = {"intent", "preview"}
  BY <1>1, <1>6 DEF PanelProved, PanelNotProved
<1> QED
  BY <1>2, <1>3, <1>4, <1>5, <1>6 DEF ExportNext

LEMMA NextPanel ==
  ASSUME ExportsInOrder, using = {}, [ExportNext]_<<draftVars, exportVars>>
  PROVE  PanelInOrder'
<1>1. PanelInOrder /\ HostInOrder /\ InDoubt(tab)
  BY DEF ExportsInOrder, PanelInOrder
<1>2. CASE Otherwise /\ Disturbs(FALSE)
  BY <1>1, <1>2, OthersMove, DisturbsFits
<1>3. CASE PageHide /\ Disturbs(TRUE)
  BY <1>1, <1>3, OthersMove, DisturbsFits
<1>4. ASSUME NEW s \in Session, SessionEnds(s), Disturbs(FALSE)
      PROVE  PanelInOrder'
  <2>1. Otherwise
    BY <1>4 DEF Otherwise
  <2> QED
    BY <1>2, <1>4, <2>1
<1>5. CASE UNCHANGED <<draftVars, exportVars>>
  <2>1. UNCHANGED <<tab, panel, requests, given>>
    BY <1>5 DEF draftVars, exportVars
  <2> QED
    BY <1>1, <2>1, RequestsGoOn DEF PanelInOrder
<1>6. CASE Serving \/ BookChanges
  BY <1>1, <1>6, ServingFits, BookChangesFits
<1> QED
  BY <1>2, <1>3, <1>4, <1>5, <1>6, PanelProvedFits, PanelNotProvedFits, BeginFits,
     AnsweredFits, ReselectFits DEF ExportNext

LEMMA NextExports ==
  ExportsInOrder /\ [ExportNext]_<<draftVars, exportVars>> => ExportsInOrder'
<1> SUFFICES ASSUME ExportsInOrder, [ExportNext]_<<draftVars, exportVars>>
             PROVE  ExportsInOrder'
  OBVIOUS
<1>1. HostInOrder' /\ DocumentsInOrder'
  BY NextHost, NextShowsMoments DEF ExportsInOrder
<1>2. UNCHANGED using
  BY AttemptsSteps DEF ExportsInOrder, HostInOrder
<1>3. DOMAIN panel' = {"intent", "preview"}
  BY PanelStaysAPanel DEF ExportsInOrder
<1>4. using = {} => PanelInOrder'
  BY NextPanel
<1>5. using # {} => QuietPanel'
  BY QuietStays DEF ExportsInOrder
<1> QED
  BY <1>1, <1>2, <1>3, <1>4, <1>5 DEF ExportsInOrder

LEMMA InitExports == ExportInit => ExportsInOrder
<1> SUFFICES ASSUME ExportInit PROVE ExportsInOrder
  OBVIOUS
<1>1. HostInOrder /\ DocumentsInOrder
  BY InitHost, InitShowsMoments
<1>2. /\ panel = [intent |-> Idle, preview |-> NoSession] /\ given = {}
      /\ requests = << >>
  BY DEF ExportInit
<1>3. DOMAIN requests = {}
  BY <1>2, EmptyIsAList
<1>4. InDoubt(tab)
  <2>1. PICK route \in {"agenda", "form"} : tab = FreshTab(route)
    BY DEF ExportInit, DraftInit
  <2>2. tab.flight = NoProof
    BY <2>1 DEF FreshTab
  <2> QED
    BY <2>2 DEF InDoubt
<1>5. PanelInOrder /\ QuietPanel
  BY <1>2, <1>3, <1>4 DEF PanelInOrder, QuietPanel, IntentFits
<1> QED
  BY <1>1, <1>2, <1>5 DEF ExportsInOrder

(* However sessions change while a file is made, it is handed over only if *)
(* the session it was made for was named again after it came, and was put  *)
(* on record; a preview is shown only under the session it was asked for   *)
(* (downloadPdfV2, downloadExcelV2, executeExport).                        *)
THEOREM ExportsStayWithTheirSessionHolds == ExportSpec => []ExportsStayWithTheirSession
<1>1. ExportsInOrder => ExportsStayWithTheirSession
  BY DEF ExportsInOrder, PanelInOrder, QuietPanel, ExportsStayWithTheirSession
<1> QED
  BY <1>1, InitExports, NextExports, PTL DEF ExportSpec

-----------------------------------------------------------------------------
(* V. What was typed: the sessions, and what was asked under which.        *)

(* Sessions begin once and end once; the cookie names one that has begun,  *)
(* and never one that it had left.                                         *)
Born == {NoSession} \cup {s \in Session : sessions[s] # "unborn"}

SessionsInOrder == DOMAIN sessions = Session /\ cookie \in Born

SessionsGoOn ==
  /\ DOMAIN sessions' = Session
  /\ \A s \in Session :
       sessions[s] # "unborn" =>
         /\ sessions'[s] # "unborn"
         /\ sessions[s] # "live" => sessions'[s] # "live"
  /\ \/ cookie' \in {cookie, NoSession}
     \/ /\ cookie' \in Session
        /\ sessions[cookie'] = "unborn" /\ sessions'[cookie'] # "unborn"

LEMMA StandingSessions == SessionsInOrder /\ UNCHANGED <<cookie, sessions>> => SessionsGoOn
BY DEF SessionsInOrder, SessionsGoOn

LEMMA BegunSessions ==
  ASSUME SessionsInOrder, NEW s \in Session, sessions[s] = "unborn",
         sessions' = [sessions EXCEPT ![s] = "live"], cookie' = s
  PROVE  SessionsGoOn
BY DEF SessionsInOrder, SessionsGoOn

(* Some sessions end.                                                      *)
LEMMA EndedSessions ==
  ASSUME SessionsInOrder, NEW c,
         \/ sessions' = [s \in Session |-> IF s = c THEN "ended" ELSE sessions[s]]
         \/ sessions' = [sessions EXCEPT ![c] = "ended"],
         cookie' \in {cookie, NoSession}
  PROVE  SessionsGoOn
BY DEF SessionsInOrder, SessionsGoOn

LEMMA SessionsSteps ==
  ASSUME SessionsInOrder, [ExportNext]_<<draftVars, exportVars>>
  PROVE  SessionsGoOn
<1>1. CASE Otherwise
  <2>1. ASSUME NEW i \in DOMAIN attempts,
               \/ AnswerCheck(i) \/ AnswerReread(i) \/ SaveRefused(i)
               \/ Checked(i) \/ Reread(i) \/ SaveTurned(i) \/ SaveAnswered(i)
        PROVE  UNCHANGED <<cookie, sessions>>
    <3>1. UNCHANGED Outside \/ UNCHANGED Surroundings \/ \E t : Ends(i, t)
      BY <2>1, Zenon DEF AnswerCheck, AnswerReread, SaveRefused, Checked, Reread,
                         SaveTurned, SaveAnswered
    <3> QED
      BY <3>1 DEF Ends, Surroundings, Outside, Served
  <2>2. ASSUME NEW i \in DOMAIN attempts, SavePhone(i) \/ SaveEdit(i) \/ SaveRoom(i)
        PROVE  UNCHANGED <<cookie, sessions>>
    BY <2>2 DEF SavePhone, SaveEdit, SaveRoom, Saves
  <2>3. CASE (\E p \in Proof : AnswerProof(p)) \/ ChangedElsewhere
    BY <2>3, StandingSessions DEF AnswerProof, ChangedElsewhere, Outside, Served
  <2>4. ASSUME NEW s \in Session, SignInElsewhere(s) \/ SignIn(s)
        PROVE  SessionsGoOn
    BY <2>4, BegunSessions DEF SignInElsewhere, SignIn
  <2>5. ASSUME NEW s \in Session, SessionEnds(s)
        PROVE  SessionsGoOn
    BY <2>5, EndedSessions DEF SessionEnds
  <2>6. CASE LogoutElsewhere \/ LogoutByForm
    BY <2>6, EndedSessions DEF LogoutElsewhere, LogoutByForm
  <2>7. CASE AnswerLogout
    <3>1. \/ UNCHANGED <<cookie, sessions>>
          \/ /\ cookie' \in {cookie, NoSession}
             /\ sessions' = [s \in Session |->
                               IF s = tab.logout.carried THEN "ended" ELSE sessions[s]]
      BY <2>7 DEF AnswerLogout
    <3> QED
      BY <3>1, EndedSessions, StandingSessions
  <2>8. CASE \/ Logout \/ LogoutAnswered \/ Foreground \/ Verify \/ Hide \/ Arrive
             \/ RouteChanged \/ Read
             \/ \E route \in Route : Back(route)
             \/ \E route \in {"agenda", "form"}, D \in SUBSET Kind : Leave(route, D)
             \/ \E d \in using : Open(d) \/ Resume(d) \/ Type(d) \/ SubmitDraft(d)
             \/ \E d \in using, keep \in BOOLEAN : Review(d, keep)
    <3>1. \/ UNCHANGED Outside \/ UNCHANGED Surroundings
          \/ \E t : Page(t) \/ Turn(t)
      BY <2>8, Zenon DEF Logout, LogoutAnswered, Foreground, Verify, Hide, Arrive,
                         RouteChanged, Read, Back, Leave, Open, Resume, Type,
                         SubmitDraft, Review
    <3> QED
      BY <3>1, StandingSessions DEF Page, Turn, Surroundings, Outside, Served
  <2> QED
    BY <1>1, <2>1, <2>2, <2>3, <2>4, <2>5, <2>6, <2>7, <2>8, StandingSessions DEF Otherwise
<1>2. CASE Aside \/ PageHide \/ \E p \in Proof : \E t : Concludes(p, t)
  BY <1>2, StandingSessions
     DEF Aside, PageHide, Turn, Concludes, Surroundings, Outside, Served
<1> QED
  BY <1>1, <1>2, HostSteps

(* What is over stays over, and what is refused stays refused.             *)
LEMMA OverStaysOver ==
  ASSUME SessionsInOrder, SessionsGoOn
  PROVE  /\ SessionsInOrder'
         /\ \A s \in Born : s \in Born'
         /\ \A s \in Born : s # NoSession /\ (cookie # s \/ sessions[s] # "live") =>
              cookie' # s \/ sessions'[s] # "live"
         /\ \A c \in Born : ~(c # NoSession /\ sessions[c] = "live") =>
              ~(c # NoSession /\ sessions'[c] = "live")
BY StaffDraftsAssumption DEF SessionsInOrder, SessionsGoOn, Born

-----------------------------------------------------------------------------
(* Who asks under one session with the cookie of another: the first is     *)
(* over.                                                                   *)
AskedUnder(c, s) == s # NoSession /\ c # s => Over(s)

CallFits(c) ==
  /\ c.carried \in Born
  /\ c.reply \in {Nothing, Down} \/ c.reply.is = "session" \/ ~Authentic(c.carried)

LogoutFits(c) ==
  /\ c.carried \in Born
  /\ c.reply.is = "ok" => ~Authentic(c.carried)

PageFits(t) ==
  /\ t.identity \in Born
  /\ t.flight \in Proof \cup {NoProof}
  /\ \A p \in Proof : CallFits(t.proofs[p])
  /\ t.flight # NoProof => AskedUnder(t.proofs[t.flight].carried, t.identity)
  /\ LogoutFits(t.logout)
  /\ t.logout.owned => AskedUnder(t.logout.carried, t.identity)

ServedFits(a) ==
  /\ a.carried \in Born
  /\ AskedUnder(a.carried, a.of)
  /\ a.reply.is = "denied" => ~Authentic(a.carried)
  /\ a.reply.is = "mismatch" => a.carried # a.of

AttemptFits(a, i) ==
  /\ a.of \in Born /\ a.of # NoSession
  /\ a.stage \in {"proof", "reread", "save"} => ServedFits(a)
  /\ a.reply.is = "saved" => saved[i] # NoSession

LEMMA PagesStayFit ==
  ASSUME SessionsInOrder, SessionsGoOn, NEW t, tab' = t, PageFits(t)
  PROVE  PageFits(tab)'
<1>1. \A s \in Born : s \in Born'
  BY OverStaysOver
<1>2. \A c, s \in Born : AskedUnder(c, s) =>
        (s # NoSession /\ c # s => cookie' # s \/ sessions'[s] # "live")
  BY OverStaysOver DEF AskedUnder, Over
<1>3. \A c \in Born : ~Authentic(c) => ~(c # NoSession /\ sessions'[c] = "live")
  BY OverStaysOver DEF Authentic
<1>4. \A p \in Proof :
        /\ t.proofs[p].carried \in Born'
        /\ \/ t.proofs[p].reply \in {Nothing, Down} \/ t.proofs[p].reply.is = "session"
           \/ ~(t.proofs[p].carried # NoSession /\ sessions'[t.proofs[p].carried] = "live")
  BY <1>1, <1>3 DEF PageFits, CallFits
<1>5. /\ t.logout.carried \in Born'
      /\ t.logout.reply.is = "ok" =>
           ~(t.logout.carried # NoSession /\ sessions'[t.logout.carried] = "live")
  BY <1>1, <1>3 DEF PageFits, LogoutFits
<1>6. /\ t.identity \in Born' /\ t.flight \in Proof \cup {NoProof}
      /\ t.flight # NoProof /\ t.identity # NoSession
           /\ t.proofs[t.flight].carried # t.identity =>
              cookie' # t.identity \/ sessions'[t.identity] # "live"
      /\ t.logout.owned /\ t.identity # NoSession /\ t.logout.carried # t.identity =>
              cookie' # t.identity \/ sessions'[t.identity] # "live"
  BY <1>1, <1>2 DEF PageFits, CallFits, LogoutFits
<1> QED
  BY <1>4, <1>5, <1>6 DEF PageFits, CallFits, LogoutFits, AskedUnder, Over, Authentic

LEMMA AttemptsStayFit ==
  ASSUME SessionsInOrder, SessionsGoOn, NEW i, NEW a, AttemptFits(a, i),
         saved[i] # NoSession => saved'[i] # NoSession
  PROVE  AttemptFits(a, i)'
<1>1. a.of \in Born'
  BY OverStaysOver DEF AttemptFits
<1>2. ServedFits(a) /\ a.of \in Born =>
        /\ a.carried \in Born'
        /\ a.of # NoSession /\ a.carried # a.of => cookie' # a.of \/ sessions'[a.of] # "live"
        /\ a.reply.is = "denied" => ~(a.carried # NoSession /\ sessions'[a.carried] = "live")
        /\ a.reply.is = "mismatch" => a.carried # a.of
  BY OverStaysOver DEF ServedFits, AskedUnder, Over, Authentic
<1> QED
  BY <1>1, <1>2 DEF AttemptFits, ServedFits, AskedUnder, Over, Authentic

-----------------------------------------------------------------------------
(* The pages that fit, and what the words become.                          *)
PagesFit ==
  /\ HostInOrder
  /\ SavedInOrder
  /\ SessionsInOrder
  /\ PageFits(tab)
  /\ \A i \in DOMAIN attempts : AttemptFits(attempts[i], i)

Keeps(t, u) ==
  \A d \in Kind :
    t.records[d] # NoDraft => /\ u.records[d] # NoDraft
                              /\ u.records[d].values = t.records[d].values

WordsKept(t) ==
  \A d \in Kind :
    Unsaved(tab.records[d]) =>
      \/ /\ t.records[d] # NoDraft
         /\ t.records[d].values = tab.records[d].values
      \/ Over(tab.identity) \/ Saved(d) \/ ByHand(d)

LEMMA KeepingWords == \A t : Keeps(tab, t) => WordsKept(t)
BY DEF Keeps, WordsKept, Unsaved, NoDraft

LEMMA KeepingOn == \A t, u, v : Keeps(t, u) /\ Keeps(u, v) => Keeps(t, v)
BY DEF Keeps

(* With nobody shown there is nothing to lose.                             *)
LEMMA WordsOfNobody ==
  ASSUME HostInOrder, tab.identity # NoSession => Over(tab.identity), NEW t
  PROVE  WordsKept(t)
BY DEF WordsKept, HostInOrder, TabInOrder, RecordsInOrder, DraftOf, Unsaved, NoDraft

LEMMA RefusedIsOver ==
  ASSUME NEW c, NEW s, AskedUnder(c, s), s # NoSession, ~Authentic(c) \/ c # s
  PROVE  Over(s)
BY DEF AskedUnder, Authentic, Over

LEMMA AskedNow == \A s : AskedUnder(cookie, s)
BY DEF AskedUnder, Over

(* An operation that leaves who is shown, and at most asks anew.           *)
OneSession(t, u) ==
  /\ u.identity = t.identity /\ u.logout = t.logout
  /\ \/ u.proofs = t.proofs /\ u.flight \in {t.flight, NoProof}
     \/ \E c : \E p \in Proof :
          /\ u.flight = p /\ c.carried = cookie /\ c.reply = Nothing
          /\ u.proofs = [t.proofs EXCEPT ![p] = c]

LEMMA OneSessionFits ==
  ASSUME SessionsInOrder, NEW t, TabInOrder(t), PageFits(t), NEW u, OneSession(t, u)
  PROVE  PageFits(u)
<1>1. CASE u.proofs = t.proofs /\ u.flight \in {t.flight, NoProof}
  BY <1>1 DEF OneSession, PageFits
<1>2. ASSUME NEW c, NEW p \in Proof, u.flight = p, c.carried = cookie, c.reply = Nothing,
             u.proofs = [t.proofs EXCEPT ![p] = c]
      PROVE  PageFits(u)
  <2>1. /\ u.proofs[p] = c
        /\ \A q \in Proof \ {p} : u.proofs[q] = t.proofs[q]
    BY <1>2 DEF TabInOrder, CallsInOrder
  <2>2. CallFits(c)
    BY <1>2 DEF CallFits, SessionsInOrder
  <2>3. AskedUnder(u.proofs[u.flight].carried, u.identity)
    BY <1>2, <2>1, AskedNow
  <2> QED
    BY <1>2, <2>1, <2>2, <2>3 DEF OneSession, PageFits
<1> QED
  BY <1>1, <1>2 DEF OneSession

(* What such operations, one after the other, leave of a page.             *)
Sound(t) == TabInOrder(t) /\ PageFits(t) /\ Keeps(tab, t)

LEMMA SoundOn ==
  ASSUME SessionsInOrder, NEW t, Sound(t), NEW u, TabInOrder(u), OneSession(t, u), Keeps(t, u)
  PROVE  Sound(u)
BY OneSessionFits, KeepingOn DEF Sound

LEMMA SoundFares == \A t : Sound(t) => PageFits(t) /\ WordsKept(t)
BY KeepingWords DEF Sound

LEMMA TabIsSound == PagesFit => Sound(tab)
BY DEF PagesFit, HostInOrder, Sound, Keeps

LEMMA PlainOperations ==
  ASSUME NEW t, TabInOrder(t)
  PROVE  /\ OneSession(t, Quarantined(t)) /\ Keeps(t, Quarantined(t))
         /\ OneSession(t, Unavailable(t)) /\ Keeps(t, Unavailable(t))
         /\ \A D : OneSession(t, Discarded(t, D))
         /\ \A d, r : OneSession(t, WithDraft(t, d, r))
<1>1. DOMAIN t = TabFields
  BY DEF TabInOrder
<1>2. LET u == Quarantined(t) IN
      /\ u.identity = t.identity /\ u.logout = t.logout /\ u.proofs = t.proofs
      /\ u.flight = NoProof /\ u.records = t.records
  BY <1>1 DEF Quarantined, TabFields
<1>3. LET u == Unavailable(t) IN
      /\ u.identity = t.identity /\ u.logout = t.logout /\ u.proofs = t.proofs
      /\ u.flight = t.flight /\ u.records = t.records
  BY <1>1 DEF Unavailable, TabFields
<1>4. ASSUME NEW D
      PROVE  LET u == Discarded(t, D) IN
             /\ u.identity = t.identity /\ u.logout = t.logout /\ u.proofs = t.proofs
             /\ u.flight = t.flight
  BY <1>1 DEF Discarded, TabFields
<1>5. ASSUME NEW d, NEW r
      PROVE  LET u == WithDraft(t, d, r) IN
             /\ u.identity = t.identity /\ u.logout = t.logout /\ u.proofs = t.proofs
             /\ u.flight = t.flight
  BY <1>1 DEF WithDraft, TabFields
<1> QED
  BY <1>2, <1>3, <1>4, <1>5 DEF OneSession, Keeps

LEMMA QuarantinedIsSound ==
  ASSUME SessionsInOrder, NEW t, Sound(t)
  PROVE  Sound(Quarantined(t)) /\ Sound(Unavailable(t))
BY PlainOperations, Quarantining, Retiring, SoundOn DEF Sound, Follows

LEMMA AskingIsSound ==
  ASSUME SessionsInOrder, NEW t, Sound(t)
  PROVE  /\ \A d \in Kind \cup {"none"} :
              CanVerify(t) \/ ~Staff(t.here) => Sound(Verifying(t, d))
         /\ Free(t) # {} \/ ~Staff(t.here) => Sound(VerifyingAfresh(t))
<1>1. ASSUME NEW d \in Kind \cup {"none"}, CanVerify(t) \/ ~Staff(t.here)
      PROVE  Sound(Verifying(t, d))
  <2> DEFINE u == Verifying(t, d)
  <2>1. /\ TabInOrder(u) /\ u.records = t.records /\ u.identity = t.identity
        /\ \/ u = t
           \/ /\ u.flight \in Proof /\ u.logout = t.logout
              /\ u.proofs = [t.proofs EXCEPT ![u.flight] = NewCall(t, d)]
    BY <1>1, Asking DEF Sound, Follows
  <2> HIDE DEF u
  <2>2. NewCall(t, d).carried = cookie /\ NewCall(t, d).reply = Nothing
    BY DEF NewCall
  <2>3. OneSession(t, u) /\ Keeps(t, u)
    BY <2>1, <2>2 DEF OneSession, Keeps
  <2>4. Sound(u)
    BY <2>1, <2>3, SoundOn
  <2> QED
    BY <2>4 DEF u
<1>2. ASSUME Free(t) # {} \/ ~Staff(t.here)
      PROVE  Sound(VerifyingAfresh(t))
  <2> DEFINE u == VerifyingAfresh(t)
  <2>1. /\ TabInOrder(u) /\ u.records = t.records /\ u.identity = t.identity
        /\ u.logout = t.logout
        /\ \/ u.flight = NoProof /\ u.proofs = t.proofs
           \/ /\ u.flight \in Proof
              /\ u.proofs = [t.proofs EXCEPT ![u.flight] = NewCall(t, "none")]
    BY <1>2, AskingAfresh DEF Sound, Follows
  <2> HIDE DEF u
  <2>2. NewCall(t, "none").carried = cookie /\ NewCall(t, "none").reply = Nothing
    BY DEF NewCall
  <2>3. OneSession(t, u) /\ Keeps(t, u)
    BY <2>1, <2>2 DEF OneSession, Keeps
  <2>4. Sound(u)
    BY <2>1, <2>3, SoundOn
  <2> QED
    BY <2>4 DEF u
<1> QED
  BY <1>1, <1>2

LEMMA LeavingIsSound ==
  ASSUME SessionsInOrder, NEW t, TabInOrder(t), PageFits(t), NEW route
  PROVE  PageFits(LeavingFor(t, route))
<1>1. LET u == LeavingFor(t, route) IN
      /\ u.identity = t.identity /\ u.logout = t.logout /\ u.proofs = t.proofs
      /\ u.flight = NoProof
  BY GoingAway
<1> QED
  BY <1>1, OneSessionFits DEF OneSession

(* A page that is erased asks for nobody.                                  *)
LEMMA ErasedFits ==
  ASSUME NEW t, TabInOrder(t), PageFits(t)
  PROVE  /\ PageFits(Erased(t))
         /\ \A s \in Born : PageFits(Authorized(Erased(t), s))
<1> DEFINE u == Erased(t)
<1>1. /\ DOMAIN u = TabFields /\ u.identity = NoSession /\ u.proofs = t.proofs
      /\ u.flight = NoProof /\ DOMAIN u.logout = LogoutFields
      /\ u.logout.carried = t.logout.carried /\ u.logout.reply = t.logout.reply
      /\ u.logout.owned = FALSE
  BY DEF Erased, TabInOrder, CallsInOrder, TabFields, LogoutFields
<1> HIDE DEF u
<1>2. PageFits(u)
  BY <1>1 DEF PageFits, LogoutFits, Born
<1>3. ASSUME NEW s \in Born
      PROVE  PageFits(Authorized(u, s))
  <2> DEFINE v == Authorized(u, s)
  <2>1. /\ v.identity = s /\ v.proofs = u.proofs /\ v.flight = NoProof
        /\ v.logout.carried = u.logout.carried /\ v.logout.reply = u.logout.reply
        /\ v.logout.owned = FALSE
    BY <1>1 DEF Authorized, TabFields, LogoutFields
  <2> HIDE DEF v
  <2>2. PageFits(v)
    BY <1>2, <2>1 DEF PageFits, LogoutFits
  <2> QED
    BY <2>2 DEF v
<1> QED
  BY <1>2, <1>3 DEF u

LEMMA FreshFits == \A route : PageFits(FreshTab(route))
<1> SUFFICES ASSUME NEW route PROVE PageFits(FreshTab(route))
  OBVIOUS
<1> DEFINE t == FreshTab(route)
<1>1. /\ t.identity = NoSession /\ t.flight = NoProof /\ t.logout = NoLogout
      /\ \A p \in Proof : t.proofs[p] = NoCall
  BY DEF FreshTab
<1> HIDE DEF t
<1>2. CallFits(NoCall) /\ LogoutFits(NoLogout) /\ ~NoLogout.owned
  BY DEF CallFits, NoCall, LogoutFits, NoLogout, Nothing, Born
<1>3. PageFits(t)
  BY <1>1, <1>2 DEF PageFits, Born
<1> QED
  BY <1>3 DEF t

-----------------------------------------------------------------------------
(* What an outcome does to the words of a draft.                           *)

(* They are saved: what was submitted has them, and nothing else has.      *)
SavedAs(r, d) ==
  \E i \in DOMAIN attempts :
    /\ attempts[i].draft = d /\ attempts[i].instance = r.instance
    /\ attempts[i].values = r.values /\ attempts[i].reply.is = "saved"

LEMMA OutcomesKeepWords ==
  ASSUME NEW t, TabInOrder(t), LockedInOrder(t), NEW u, ByOutcome(t, u),
         NEW d \in Kind, t.records[d] # NoDraft
  PROVE  /\ u.records[d] = t.records[d] \/ u.records[d].phase # "PENDING"
         /\ \/ u.records[d] # NoDraft /\ u.records[d].values = t.records[d].values
            \/ SavedAs(t.records[d], d)
<1>1. CASE u.records[d] = t.records[d]
  BY <1>1
<1>2. ASSUME NEW i \in DOMAIN attempts, Owns(t, i), attempts[i].draft = d,
             \/ u.records[d] = Outcome(t.records[d], i)
             \/ attempts[i].reply.is = "saved" /\ u.records[d] = NoDraft
      PROVE  /\ u.records[d].phase # "PENDING"
             /\ \/ u.records[d] # NoDraft /\ u.records[d].values = t.records[d].values
                \/ SavedAs(t.records[d], d)
  <2>1. /\ t.records[d].phase = "PENDING" /\ t.records[d].attempt = i
        /\ t.records[d].instance = attempts[i].instance
    BY <1>2 DEF Owns
  <2>2. attempts[i].values = t.records[d].values
    BY <2>1 DEF LockedInOrder
  <2>3. DraftOf(t.records[d], t.identity)
    BY DEF TabInOrder, RecordsInOrder
  <2>4. CASE u.records[d] = Outcome(t.records[d], i)
    BY <2>2, <2>3, <2>4, OutcomesOfDrafts
  <2>5. CASE attempts[i].reply.is = "saved" /\ u.records[d] = NoDraft
    BY <1>2, <2>1, <2>2, <2>5 DEF SavedAs, NoDraft
  <2> QED
    BY <1>2, <2>4, <2>5
<1> QED
  BY <1>1, <1>2 DEF ByOutcome

LEMMA SavedIsSaved ==
  ASSUME PagesFit, NEW d \in Kind, SavedAs(tab.records[d], d)
  PROVE  Saved(d)
BY DEF PagesFit, AttemptFits, SavedAs, Saved

LEMMA OneOutcomeFares ==
  ASSUME PagesFit, NEW t, ByOutcome(tab, t)
  PROVE  WordsKept(t)
<1>1. ASSUME NEW d \in Kind, Unsaved(tab.records[d])
      PROVE  \/ t.records[d] # NoDraft /\ t.records[d].values = tab.records[d].values
             \/ Saved(d)
  <2>1. tab.records[d] # NoDraft
    BY <1>1 DEF Unsaved, NoDraft
  <2> QED
    BY <2>1, OutcomesKeepWords, SavedIsSaved DEF PagesFit, HostInOrder
<1> QED
  BY <1>1 DEF WordsKept

LEMMA TwoOutcomesFare ==
  ASSUME PagesFit, NEW v, NEW t, ByOutcome(tab, v), ByOutcome(v, t),
         TabInOrder(v), LockedInOrder(v)
  PROVE  WordsKept(t)
<1>1. ASSUME NEW d \in Kind, Unsaved(tab.records[d])
      PROVE  \/ t.records[d] # NoDraft /\ t.records[d].values = tab.records[d].values
             \/ Saved(d)
  <2>1. tab.records[d] # NoDraft
    BY <1>1 DEF Unsaved, NoDraft
  <2>2. /\ v.records[d] = tab.records[d] \/ v.records[d].phase # "PENDING"
        /\ \/ v.records[d] # NoDraft /\ v.records[d].values = tab.records[d].values
           \/ Saved(d)
    BY <2>1, OutcomesKeepWords, SavedIsSaved DEF PagesFit, HostInOrder
  <2>3. CASE v.records[d] = tab.records[d]
    BY <2>1, <2>3, OutcomesKeepWords, SavedIsSaved
  <2>4. CASE v.records[d].phase # "PENDING"
    <3>1. t.records[d] = v.records[d]
      BY <2>4 DEF ByOutcome, Owns
    <3> QED
      BY <2>2, <3>1
  <2> QED
    BY <2>2, <2>3, <2>4
<1> QED
  BY <1>1 DEF WordsKept

-----------------------------------------------------------------------------
(* The page of the next state: it fits, and keeps the words.               *)
Fares == PageFits(tab') /\ WordsKept(tab')

LEMMA SoundStepsFare ==
  ASSUME NEW t, tab' = t, Sound(t)
  PROVE  Fares
BY SoundFares DEF Fares

LEMMA ErasedFares ==
  ASSUME PagesFit, NEW t, Sound(t), tab' = Erased(t),
         tab.identity # NoSession => Over(tab.identity)
  PROVE  Fares
BY ErasedFits, WordsOfNobody DEF Sound, PagesFit, Fares

(* Who owns an attempt shows the session it is of.                         *)
LEMMA OwnersAreShown ==
  ASSUME HostInOrder, NEW i, Owns(tab, i)
  PROVE  /\ i \in DOMAIN attempts
         /\ attempts[i].of = tab.identity /\ tab.identity # NoSession
<1>1. /\ i \in DOMAIN attempts /\ attempts[i].draft \in Kind
      /\ tab.records[attempts[i].draft] # NoDraft
      /\ DraftOf(tab.records[attempts[i].draft], tab.identity)
      /\ tab.records[attempts[i].draft].phase = "PENDING"
      /\ tab.records[attempts[i].draft].attempt = i
  BY OwnersHaveDrafts DEF HostInOrder, Owns
<1> QED
  BY <1>1 DEF HostInOrder, LockedInOrder, DraftOf

(* A request of theirs that is refused, or asked under another session.    *)
LEMMA OwnersAreOver ==
  ASSUME PagesFit, NEW i, Owns(tab, i), attempts[i].stage \in {"proof", "reread", "save"},
         \/ attempts[i].reply.is \in {"denied", "mismatch"}
         \/ attempts[i].carried # attempts[i].of
  PROVE  Over(tab.identity)
<1>1. /\ i \in DOMAIN attempts /\ attempts[i].of = tab.identity /\ tab.identity # NoSession
  BY OwnersAreShown DEF PagesFit
<1>2. ServedFits(attempts[i])
  BY <1>1 DEF PagesFit, AttemptFits
<1> QED
  BY <1>1, <1>2, RefusedIsOver DEF ServedFits

LEMMA RejectedIsSound ==
  ASSUME PagesFit, NEW t, Sound(t), NEW i
  PROVE  Sound(Rejected(t, i)) /\ Sound(RejectedUnchecked(t, i))
<1>1. AttemptsInOrder /\ UsingOne /\ SessionsInOrder /\ TabInOrder(t)
  BY DEF PagesFit, HostInOrder, Sound
<1>2. Sound(Rejected(t, i))
  <2> DEFINE u == Rejected(t, i)
  <2>1. /\ TabInOrder(u)
        /\ ~Owns(t, i) => u = t
        /\ Owns(t, i) =>
             /\ u.records[attempts[i].draft].phase = "ERROR"
             /\ u.records[attempts[i].draft].values = t.records[attempts[i].draft].values
             /\ \A e \in Kind \ {attempts[i].draft} : u.records[e] = t.records[e]
    BY <1>1, Rejecting DEF Follows
  <2>2. OneSession(t, u)
    <3>1. u = t \/ \E d, r : u = WithDraft(t, d, r)
      BY DEF Rejected, WithDraft
    <3>2. OneSession(t, t)
      BY DEF OneSession
    <3> HIDE DEF u
    <3> QED
      BY <1>1, <3>1, <3>2, PlainOperations
  <2> HIDE DEF u
  <2>3. Keeps(t, u)
    BY <2>1 DEF Keeps, NoDraft
  <2>4. Sound(u)
    BY <1>1, <2>1, <2>2, <2>3, SoundOn
  <2> QED
    BY <2>4 DEF u
<1>3. RejectedUnchecked(t, i) \in {t, Unavailable(Quarantined(Rejected(t, i)))}
  BY DEF RejectedUnchecked
<1> QED
  BY <1>1, <1>2, <1>3, QuarantinedIsSound

LEMMA TrimmedIsSound ==
  ASSUME PagesFit, NEW t, DOMAIN t = TabFields,
         t.records = tab.records, t.identity = tab.identity, t.auth = tab.auth,
         t.owned = tab.owned, t.waiting = tab.waiting, t.flight = tab.flight,
         t.proofs = tab.proofs, t.logout = tab.logout,
         t.shown \subseteq tab.shown
  PROVE  Sound(t)
<1>1. TabInOrder(t)
  BY TrimmedFollow DEF PagesFit, HostInOrder, TabInOrder, CallsInOrder, Follows
<1>2. OneSession(tab, t) /\ Keeps(tab, t)
  BY DEF OneSession, Keeps
<1> QED
  BY <1>1, <1>2, TabIsSound, SoundOn DEF PagesFit

-----------------------------------------------------------------------------
(* What an attempt that is answered does with the words.                   *)

LEMMA UnchangedFares == PagesFit /\ UNCHANGED tab => Fares
BY TabIsSound, SoundStepsFare

LEMMA CheckedFares ==
  ASSUME PagesFit, NEW i \in DOMAIN attempts, Checked(i)
  PROVE  Fares
<1> DEFINE a == attempts[i]
           u == Erased(tab)
           v == Authorized(u, a.reply.who)
           w == [v EXCEPT !.authorized = tab.here]
           x == [tab EXCEPT !.rereads = @ \cup {i}]
<1>1. /\ a.stage = "proof"
      /\ \/ tab' = RejectedUnchecked(tab, i)
         \/ tab' = Rejected(tab, i)
         \/ CurrentAttempt(tab, i) /\ a.reply = Denied /\ tab' = u
         \/ /\ CurrentAttempt(tab, i) /\ a.reply.is = "session" /\ a.reply.who # a.of
            /\ tab' = w
         \/ UNCHANGED tab \/ tab' = x
  BY Zenon DEF Checked, Ends
<1>2. Sound(tab) /\ TabInOrder(tab) /\ HostInOrder
  BY TabIsSound DEF PagesFit, HostInOrder
<1>3. CASE tab' = RejectedUnchecked(tab, i) \/ tab' = Rejected(tab, i)
  BY <1>2, <1>3, RejectedIsSound, SoundStepsFare
<1>4. CASE CurrentAttempt(tab, i) /\ a.reply = Denied /\ tab' = u
  <2>1. Over(tab.identity)
    BY <1>1, <1>4, OwnersAreOver DEF CurrentAttempt, Denied
  <2> QED
    BY <1>2, <1>4, <2>1, ErasedFares
<1>5. CASE /\ CurrentAttempt(tab, i) /\ a.reply.is = "session" /\ a.reply.who # a.of
           /\ tab' = w
  <2>1. a.reply.who = a.carried
    BY <1>1, <1>2, <1>5 DEF HostInOrder, NamesTheCarried
  <2>2. Over(tab.identity)
    BY <1>1, <1>5, <2>1, OwnersAreOver DEF CurrentAttempt
  <2>3. a.reply.who \in Born
    BY <1>1, <2>1 DEF PagesFit, AttemptFits, ServedFits
  <2>4. PageFits(v)
    BY <1>2, <2>3, ErasedFits DEF PagesFit
  <2>5. /\ w.identity = v.identity /\ w.logout = v.logout /\ w.proofs = v.proofs
        /\ w.flight = v.flight
    <3>1. DOMAIN u = TabFields
      BY <1>2 DEF Erased, TabInOrder, TabFields
    <3> HIDE DEF u
    <3>2. DOMAIN v = TabFields
      BY <3>1 DEF Authorized, TabFields
    <3> HIDE DEF v
    <3> QED
      BY <3>2 DEF TabFields
  <2> HIDE DEF w, v
  <2>6. PageFits(w)
    BY <2>4, <2>5 DEF PageFits
  <2> QED
    BY <1>2, <1>5, <2>2, <2>6, WordsOfNobody DEF Fares
<1>6. CASE tab' = x
  <2>1. /\ DOMAIN x = TabFields
        /\ x.records = tab.records /\ x.identity = tab.identity /\ x.auth = tab.auth
        /\ x.owned = tab.owned /\ x.waiting = tab.waiting /\ x.flight = tab.flight
        /\ x.proofs = tab.proofs /\ x.logout = tab.logout /\ x.shown = tab.shown
    BY <1>2 DEF TabInOrder, TabFields
  <2> HIDE DEF x
  <2>2. Sound(x)
    BY <2>1, TrimmedIsSound
  <2> QED
    BY <1>6, <2>2, SoundStepsFare
<1> QED
  BY <1>1, <1>3, <1>4, <1>5, <1>6, UnchangedFares

LEMMA RereadFares ==
  ASSUME PagesFit, NEW i \in DOMAIN attempts, Reread(i)
  PROVE  Fares
<1> DEFINE a == attempts[i]
           t == [tab EXCEPT !.rereads = @ \ {i}]
           read == [t EXCEPT !.resource = a.reply.row]
           over == WithDraft(read, a.draft, WithPhase(read.records[a.draft], "DIRTY_CONFLICT"))
<1>1. TabInOrder(tab) /\ AttemptsInOrder /\ UsingOne /\ SessionsInOrder
  BY DEF PagesFit, HostInOrder
<1>2. /\ a.stage = "reread"
      /\ \/ tab' = RejectedUnchecked(t, i)
         \/ tab' = Rejected(t, i)
         \/ CurrentAttempt(tab, i) /\ a.reply = Denied /\ tab' = Erased(t)
         \/ tab' = Rejected(read, i)
         \/ CurrentAttempt(tab, i) /\ tab' = over
         \/ tab' = read
  BY Zenon DEF Reread, WithDraft, Ends
<1>3. /\ DOMAIN t = TabFields
      /\ t.records = tab.records /\ t.identity = tab.identity /\ t.auth = tab.auth
      /\ t.owned = tab.owned /\ t.waiting = tab.waiting /\ t.flight = tab.flight
      /\ t.proofs = tab.proofs /\ t.logout = tab.logout /\ t.shown = tab.shown
  BY <1>1 DEF TabInOrder, TabFields
<1> HIDE DEF t
<1>4. /\ DOMAIN read = TabFields
      /\ read.records = tab.records /\ read.identity = tab.identity /\ read.auth = tab.auth
      /\ read.owned = tab.owned /\ read.waiting = tab.waiting /\ read.flight = tab.flight
      /\ read.proofs = tab.proofs /\ read.logout = tab.logout /\ read.shown = tab.shown
  BY <1>3 DEF TabFields
<1> HIDE DEF read
<1>5. Sound(t) /\ Sound(read)
  BY <1>3, <1>4, TrimmedIsSound
<1>6. CASE tab' = RejectedUnchecked(t, i) \/ tab' = Rejected(t, i) \/ tab' = Rejected(read, i)
  BY <1>5, <1>6, RejectedIsSound, SoundStepsFare
<1>7. CASE CurrentAttempt(tab, i) /\ a.reply = Denied /\ tab' = Erased(t)
  <2>1. Over(tab.identity)
    BY <1>2, <1>7, OwnersAreOver DEF CurrentAttempt, Denied
  <2> QED
    BY <1>5, <1>7, <2>1, ErasedFares
<1>8. CASE CurrentAttempt(tab, i) /\ tab' = over
  <2> DEFINE d == a.draft
             r == WithPhase(read.records[d], "DIRTY_CONFLICT")
  <2>1. Owns(read, i) /\ TabInOrder(read)
    BY <1>4, <1>5, <1>8 DEF CurrentAttempt, Owns, Sound
  <2>2. d \in Kind /\ d \in using /\ read.records[d] # NoDraft /\ DraftOf(read.records[d], read.identity)
    BY <1>1, <2>1, OwnersHaveDrafts DEF Owns
  <2>3. /\ DraftOf(r, read.identity) /\ r.phase = "DIRTY_CONFLICT" /\ r # NoDraft
        /\ r.values = read.records[d].values
    BY <2>2, PhasesOfDrafts
  <2>4. over = WithDraft(read, d, r)
    OBVIOUS
  <2> HIDE DEF over, r, d
  <2>5. /\ TabInOrder(over) /\ over.records[d] = r
        /\ \A e \in Kind \ {d} : over.records[e] = read.records[e]
    BY <2>1, <2>2, <2>3, <2>4, OneRewritten DEF Follows
  <2>6. OneSession(read, over)
    BY <2>1, <2>4, PlainOperations
  <2>7. Keeps(read, over)
    BY <2>2, <2>3, <2>5 DEF Keeps
  <2>8. Sound(over)
    BY <1>1, <1>5, <2>5, <2>6, <2>7, SoundOn
  <2> QED
    BY <1>8, <2>8, SoundStepsFare
<1>9. CASE tab' = read
  BY <1>5, <1>9, SoundStepsFare
<1> QED
  BY <1>2, <1>6, <1>7, <1>8, <1>9

LEMMA SavesFare ==
  ASSUME PagesFit, NEW i \in DOMAIN attempts, SaveTurned(i) \/ SaveAnswered(i)
  PROVE  Fares
<1>1. /\ TabInOrder(tab) /\ LockedInOrder(tab) /\ Attended(tab, {})
      /\ AttemptsInOrder /\ UsingOne /\ SessionsInOrder /\ Sound(tab)
  BY TabIsSound DEF PagesFit, HostInOrder
<1>2. CASE SaveTurned(i)
  <2>1. CASE Owns(tab, i)
    <3>1. tab' = Erased(tab)
      BY <1>2, <2>1 DEF SaveTurned, Ends
    <3>2. Over(tab.identity)
      BY <1>2, <2>1, OwnersAreOver DEF SaveTurned
    <3> QED
      BY <1>1, <3>1, <3>2, ErasedFares
  <2>2. CASE ~Owns(tab, i)
    <3>1. tab' = tab
      BY <1>2, <2>2 DEF SaveTurned, Ends
    <3> QED
      BY <3>1, UnchangedFares
  <2> QED
    BY <2>1, <2>2
<1>3. CASE tab' = SettledNow(tab, i)
  <2> DEFINE u == SettledNow(tab, i)
  <2>1. /\ TabInOrder(u)
        /\ ~Matches(tab, i) => u = tab
        /\ Matches(tab, i) =>
             LET d == attempts[i].draft IN
             /\ \/ u.records[d] = Outcome(tab.records[d], i)
                \/ attempts[i].reply.is = "saved" /\ u.records[d] = NoDraft
             /\ \A e \in Kind \ {d} : u.records[e] = tab.records[e]
        /\ u.identity = tab.identity /\ u.proofs = tab.proofs /\ u.logout = tab.logout
        /\ u.flight \in {tab.flight, NoProof}
    BY <1>1, SettlingNow DEF Follows
  <2> HIDE DEF u
  <2>2. ByOutcome(tab, u)
    <3>1. CASE Matches(tab, i)
      BY <1>1, <2>1, <3>1, SettlingOne
    <3>2. CASE ~Matches(tab, i)
      BY <2>1, <3>2 DEF ByOutcome
    <3> QED
      BY <3>1, <3>2
  <2>3. PageFits(u)
    BY <1>1, <2>1, OneSessionFits DEF OneSession, Sound
  <2> QED
    BY <1>3, <2>2, <2>3, OneOutcomeFares DEF u, Fares
<1>4. CASE tab' = Kept(tab, {i})
  <2> DEFINE u == Kept(tab, {i})
  <2>1. /\ TabInOrder(u) /\ u.records = tab.records /\ u.identity = tab.identity
        /\ u.flight = tab.flight /\ u.proofs = tab.proofs /\ u.logout = tab.logout
    BY <1>1, Keeping
  <2> HIDE DEF u
  <2>2. OneSession(tab, u) /\ Keeps(tab, u)
    BY <2>1 DEF OneSession, Keeps
  <2>3. Sound(u)
    BY <1>1, <2>1, <2>2, SoundOn
  <2> QED
    BY <1>4, <2>3, SoundStepsFare DEF u
<1>5. CASE CanVerify(tab) /\ tab' = Verifying(tab, "none")
  BY <1>1, <1>5, AskingIsSound, SoundStepsFare
<1>6. SaveAnswered(i) => \/ tab' = SettledNow(tab, i)
                         \/ tab' = Kept(tab, {i})
                         \/ CanVerify(tab) /\ tab' = Verifying(tab, "none")
  BY Zenon DEF SaveAnswered, Ends
<1> QED
  BY <1>2, <1>3, <1>4, <1>5, <1>6

-----------------------------------------------------------------------------
(* What a proof of the session does with the words.                        *)

LEMMA QuarantinedFares ==
  ASSUME PagesFit, NEW t, TabInOrder(t), PageFits(t), WordsKept(t),
         tab' \in {t, Quarantined(t)}
  PROVE  Fares
<1>1. OneSession(t, Quarantined(t)) /\ Keeps(t, Quarantined(t))
  BY PlainOperations
<1>2. PageFits(Quarantined(t))
  BY <1>1, OneSessionFits DEF PagesFit
<1>3. WordsKept(Quarantined(t))
  BY <1>1 DEF WordsKept, Keeps
<1> QED
  BY <1>2, <1>3 DEF Fares

(* A proof names the session of its cookie: the page's, or the page's is   *)
(* over; a refusal is one of the page's session.                           *)
LEMMA VerifiedFares ==
  ASSUME PagesFit, NEW p \in Proof, Holds(p)
  PROVE  TabInOrder(Verified(p)) /\ PageFits(Verified(p)) /\ WordsKept(Verified(p))
<1> DEFINE u == Verified(p)
           who == tab.proofs[p].reply.who
<1>1. HostInOrder /\ TabInOrder(tab) /\ PageFits(tab)
  BY DEF PagesFit, HostInOrder
<1>2. /\ TabInOrder(u) /\ u.flight = NoProof
      /\ u.proofs = [tab.proofs EXCEPT ![p] = NoCall]
      /\ LogoutLeft(tab, u)
      /\ \/ /\ u.identity = who
            /\ tab.identity = who => u.logout = tab.logout
            /\ tab.identity # who => ~u.logout.owned
         \/ u.records = NoDrafts /\ u.identity = NoSession /\ ~u.logout.owned
      /\ tab.identity = who =>
           \/ \E v : ByOutcome(tab, v) /\ ByOutcome(v, u) /\ TabInOrder(v) /\ LockedInOrder(v)
           \/ ~Authentic(cookie)
  BY <1>1, Verifications
<1> HIDE DEF u
<1>3. /\ tab.flight = p /\ tab.flight # NoProof
      /\ who = tab.proofs[p].carried /\ who # NoSession /\ who \in Born
  BY <1>1, StaffDraftsAssumption
     DEF Holds, Stale, TabInOrder, CallsInOrder, NamesTheCarried, PageFits, CallFits
<1>4. AskedUnder(who, tab.identity)
  BY <1>1, <1>3 DEF PageFits
<1>5. PageFits(u)
  <2>1. \A q \in Proof : CallFits(u.proofs[q])
    <3>1. CallFits(NoCall)
      BY DEF CallFits, NoCall, Born
    <3> QED
      BY <1>1, <1>2, <3>1 DEF TabInOrder, CallsInOrder, PageFits
  <2>2. u.identity \in Born
    BY <1>2, <1>3 DEF Born
  <2>3. LogoutFits(u.logout)
    BY <1>1, <1>2 DEF LogoutLeft, LogoutFits, PageFits
  <2>4. u.logout.owned => AskedUnder(u.logout.carried, u.identity)
    BY <1>1, <1>2 DEF PageFits
  <2> QED
    BY <1>2, <2>1, <2>2, <2>3, <2>4 DEF PageFits
<1>6. WordsKept(u)
  <2>1. CASE tab.identity # who
    BY <1>1, <1>4, <2>1, WordsOfNobody DEF AskedUnder
  <2>2. CASE tab.identity = who /\ ~Authentic(cookie)
    <3>1. Over(tab.identity)
      BY <1>3, <2>2, AskedNow, RefusedIsOver
    <3> QED
      BY <1>1, <3>1, WordsOfNobody
  <2>3. CASE \E v : ByOutcome(tab, v) /\ ByOutcome(v, u) /\ TabInOrder(v) /\ LockedInOrder(v)
    BY <2>3, TwoOutcomesFare
  <2> QED
    BY <1>2, <2>1, <2>2, <2>3
<1> QED
  BY <1>2, <1>5, <1>6 DEF u

LEMMA NotVerifiedFares ==
  ASSUME PagesFit, NEW p \in Proof, ~Holds(p), tab.proofs[p].reply # Nothing
  PROVE  TabInOrder(NotVerified(p)) /\ PageFits(NotVerified(p)) /\ WordsKept(NotVerified(p))
<1> DEFINE u == NotVerified(p)
           c == tab.proofs[p]
<1>1. HostInOrder /\ TabInOrder(tab) /\ PageFits(tab)
  BY DEF PagesFit, HostInOrder
<1>2. /\ TabInOrder(u)
      /\ u.flight \in {NoProof, tab.flight}
      /\ tab.flight = p => u.flight = NoProof
      /\ u.proofs = [tab.proofs EXCEPT ![p] = NoCall]
      /\ LogoutLeft(tab, u)
      /\ \/ /\ u.records = tab.records /\ u.identity = tab.identity
            /\ u.logout = tab.logout
         \/ /\ tab.flight = p /\ c.reply # Down /\ c.route = tab.here
            /\ u.records = NoDrafts /\ u.identity = NoSession /\ ~u.logout.owned
  BY <1>1, Refusals
<1> HIDE DEF u
<1>3. PageFits(u)
  <2>1. \A q \in Proof : CallFits(u.proofs[q])
    <3>1. CallFits(NoCall)
      BY DEF CallFits, NoCall, Born
    <3> QED
      BY <1>1, <1>2, <3>1 DEF TabInOrder, CallsInOrder, PageFits
  <2>2. u.identity \in Born
    BY <1>1, <1>2 DEF Born, PageFits
  <2>3. LogoutFits(u.logout)
    BY <1>1, <1>2 DEF LogoutLeft, LogoutFits, PageFits
  <2>4. u.logout.owned => AskedUnder(u.logout.carried, u.identity)
    BY <1>1, <1>2 DEF PageFits
  <2>5. u.flight # NoProof =>
          u.flight = tab.flight /\ u.flight # p /\ u.proofs[u.flight] = tab.proofs[u.flight]
    BY <1>1, <1>2 DEF TabInOrder, CallsInOrder
  <2>6. u.flight # NoProof => AskedUnder(u.proofs[u.flight].carried, u.identity)
    BY <1>1, <1>2, <2>5 DEF PageFits
  <2>7. u.flight \in Proof \cup {NoProof}
    BY <1>1, <1>2 DEF PageFits
  <2> QED
    BY <2>1, <2>2, <2>3, <2>4, <2>6, <2>7 DEF PageFits
<1>4. WordsKept(u)
  <2>1. CASE u.records = tab.records
    BY <2>1, KeepingWords DEF Keeps
  <2>2. CASE tab.flight = p /\ c.reply # Down /\ c.route = tab.here
    <3>1. ~Authentic(c.carried)
      BY <1>1, <2>2 DEF Holds, Stale, PageFits, CallFits
    <3>2. p # NoProof
      BY StaffDraftsAssumption
    <3>3. AskedUnder(c.carried, tab.identity)
      BY <1>1, <2>2, <3>2 DEF PageFits
    <3> QED
      BY <1>1, <3>1, <3>3, RefusedIsOver, WordsOfNobody
  <2> QED
    BY <1>2, <2>1, <2>2
<1> QED
  BY <1>2, <1>3, <1>4 DEF u

LEMMA ConclusionsFare ==
  ASSUME PagesFit, NEW p \in Proof, NEW t, Concludes(p, t),
         \/ Holds(p) /\ t \in {Verified(p), Quarantined(Verified(p))}
         \/ ~Holds(p) /\ t \in {NotVerified(p), Quarantined(NotVerified(p))}
  PROVE  Fares
BY VerifiedFares, NotVerifiedFares, QuarantinedFares DEF Concludes

LEMMA AsideFares == PagesFit /\ Aside => Fares
BY TabIsSound, QuarantinedIsSound, AskingIsSound, SoundStepsFare DEF Aside, PagesFit

LEMMA AnswerProofFares ==
  ASSUME PagesFit, NEW p \in Proof, AnswerProof(p)
  PROVE  Fares
<1>1. PICK x \in {Named(tab.proofs[p].carried), Down} :
        tab' = [tab EXCEPT !.proofs[p].reply = x]
  BY DEF AnswerProof
<1> DEFINE t == [tab EXCEPT !.proofs[p].reply = x]
           c == [tab.proofs[p] EXCEPT !.reply = x]
<1>2. TabInOrder(tab) /\ PageFits(tab)
  BY DEF PagesFit, HostInOrder
<1>3. DOMAIN tab.proofs[p] = CallFields
  BY <1>2 DEF TabInOrder, CallsInOrder
<1>4. /\ t.proofs = [tab.proofs EXCEPT ![p] = c] /\ t.flight = tab.flight
      /\ t.identity = tab.identity /\ t.logout = tab.logout /\ t.records = tab.records
  BY <1>2 DEF TabInOrder, CallsInOrder, TabFields
<1>5. c.carried = tab.proofs[p].carried /\ c.reply = x
  BY <1>3 DEF CallFields
<1>6. tab' = t
  BY <1>1
<1> HIDE DEF t, c
<1>7. CallFits(c)
  BY <1>1, <1>2, <1>5 DEF CallFits, PageFits, Named, Denied
<1>8. \A q \in Proof : CallFits(t.proofs[q]) /\ t.proofs[q].carried = tab.proofs[q].carried
  BY <1>2, <1>4, <1>5, <1>7 DEF PageFits, TabInOrder, CallsInOrder
<1>9. PageFits(t)
  BY <1>2, <1>4, <1>8 DEF PageFits
<1>10. WordsKept(t)
  BY <1>4, KeepingWords DEF Keeps
<1> QED
  BY <1>6, <1>9, <1>10 DEF Fares

(* The session whose logout was done is over in the next state.            *)
LEMMA AnswerLogoutFits ==
  ASSUME PagesFit, SessionsGoOn, AnswerLogout
  PROVE  PageFits(tab)' /\ WordsKept(tab')
<1>1. PICK x : tab' = [tab EXCEPT !.logout.reply = x]
  BY DEF AnswerLogout
<1>2. TabInOrder(tab) /\ PageFits(tab) /\ SessionsInOrder
  BY DEF PagesFit, HostInOrder
<1>3. x.is = "ok" => sessions' = [s \in Session |->
                                    IF s = tab.logout.carried THEN "ended" ELSE sessions[s]]
  <2>1. tab'.logout.reply = x
    BY <1>1, <1>2 DEF TabInOrder, CallsInOrder, TabFields, LogoutFields
  <2>2. \/ sessions' = [s \in Session |-> IF s = tab.logout.carried THEN "ended" ELSE sessions[s]]
        \/ tab' = [tab EXCEPT !.logout.reply = Down]
    BY DEF AnswerLogout
  <2>3. tab' = [tab EXCEPT !.logout.reply = Down] => tab'.logout.reply = Down
    BY <1>2 DEF TabInOrder, CallsInOrder, TabFields, LogoutFields
  <2> QED
    BY <2>1, <2>2, <2>3 DEF Down
<1> DEFINE t == [tab EXCEPT !.logout.reply = x]
<1>4. /\ t.proofs = tab.proofs /\ t.flight = tab.flight
      /\ t.identity = tab.identity /\ t.records = tab.records
      /\ t.logout.carried = tab.logout.carried /\ t.logout.owned = tab.logout.owned
      /\ t.logout.reply = x
  BY <1>2 DEF TabInOrder, CallsInOrder, TabFields, LogoutFields
<1>5. tab' = t
  BY <1>1
<1> HIDE DEF t
<1>6. WordsKept(tab')
  BY <1>4, <1>5, KeepingWords DEF Keeps
<1>7. /\ \A s \in Born : s \in Born'
      /\ \A c, s \in Born : AskedUnder(c, s) =>
           (s # NoSession /\ c # s => cookie' # s \/ sessions'[s] # "live")
      /\ \A c \in Born : ~Authentic(c) => ~(c # NoSession /\ sessions'[c] = "live")
  BY <1>2, OverStaysOver DEF AskedUnder, Over, Authentic
<1>8. \A p \in Proof :
        /\ t.proofs[p].carried \in Born'
        /\ \/ t.proofs[p].reply \in {Nothing, Down} \/ t.proofs[p].reply.is = "session"
           \/ ~(t.proofs[p].carried # NoSession /\ sessions'[t.proofs[p].carried] = "live")
  BY <1>2, <1>4, <1>7 DEF PageFits, CallFits
<1>9. tab.logout.carried \in Born /\ tab.identity \in Born
  BY <1>2 DEF PageFits, LogoutFits
<1>10. /\ t.logout.carried \in Born'
       /\ t.logout.reply.is = "ok" =>
            ~(t.logout.carried # NoSession /\ sessions'[t.logout.carried] = "live")
  BY <1>3, <1>4, <1>7, <1>9 DEF Born
<1>11. /\ t.identity \in Born' /\ t.flight \in Proof \cup {NoProof}
       /\ t.flight # NoProof /\ t.identity # NoSession
            /\ t.proofs[t.flight].carried # t.identity =>
               cookie' # t.identity \/ sessions'[t.identity] # "live"
       /\ t.logout.owned /\ t.identity # NoSession /\ t.logout.carried # t.identity =>
               cookie' # t.identity \/ sessions'[t.identity] # "live"
  BY <1>2, <1>4, <1>7, <1>9 DEF PageFits, CallFits, LogoutFits
<1>12. PageFits(tab)'
  BY <1>5, <1>8, <1>10, <1>11 DEF PageFits, CallFits, LogoutFits, AskedUnder, Over, Authentic
<1> QED
  BY <1>6, <1>12

-----------------------------------------------------------------------------
(* Navigation, other tabs and the hands of the author.                     *)

LEMMA NavigationFares ==
  ASSUME PagesFit,
         \/ Foreground \/ Verify \/ Hide \/ PageHide \/ Arrive \/ RouteChanged
         \/ \E route \in Route : Back(route)
         \/ \E route \in {"agenda", "form"}, D \in SUBSET Kind : Leave(route, D)
  PROVE  Fares
<1>1. Sound(tab) /\ TabInOrder(tab) /\ PageFits(tab) /\ SessionsInOrder
  BY TabIsSound DEF PagesFit, HostInOrder
<1>2. CASE Foreground \/ Verify \/ Hide
  BY <1>1, <1>2, AskingIsSound, QuarantinedIsSound, SoundStepsFare
     DEF Foreground, Verify, Hide, Turn, Page
<1>3. CASE PageHide
  <2>1. \A t : WordsKept(t)
    BY <1>3 DEF WordsKept, ByHand
  <2> QED
    BY <1>1, <1>3, <2>1, ErasedFits DEF PageHide, Turn, Fares
<1>4. CASE Arrive
  <2> DEFINE t == [tab EXCEPT !.here = tab.leaving, !.leaving = NoRoute,
                              !.resource = NoResource, !.shown = {}]
  <2>1. /\ DOMAIN t = TabFields /\ t.logout = tab.logout
        /\ t.records = tab.records /\ t.identity = tab.identity /\ t.auth = tab.auth
        /\ t.owned = tab.owned /\ t.waiting = tab.waiting /\ t.flight = tab.flight
        /\ t.proofs = tab.proofs /\ t.shown = {}
    BY <1>1 DEF TabInOrder, TabFields
  <2>2. tab' = t
    BY <1>4 DEF Arrive, Page
  <2> HIDE DEF t
  <2>3. Sound(t)
    BY <2>1, TrimmedIsSound
  <2> QED
    BY <2>2, <2>3, SoundStepsFare
<1>5. ASSUME NEW route, Back(route)
      PROVE  Fares
  <2> DEFINE v == Quarantined(tab)
             t == [v EXCEPT !.here = route]
  <2>1. Sound(v)
    BY <1>1, QuarantinedIsSound
  <2>2. tab' = t
    BY <1>5 DEF Back, Turn
  <2> HIDE DEF v
  <2>3. /\ t.logout = v.logout /\ t.records = v.records /\ t.identity = v.identity
        /\ t.flight = v.flight /\ t.proofs = v.proofs
    BY <2>1 DEF Sound, TabInOrder, TabFields
  <2> HIDE DEF t
  <2>4. PageFits(t)
    BY <2>1, <2>3 DEF Sound, PageFits
  <2>5. WordsKept(t)
    BY <2>1, <2>3, KeepingWords DEF Sound, Keeps
  <2> QED
    BY <2>2, <2>4, <2>5 DEF Fares
<1>6. ASSUME NEW route \in {"agenda", "form"}, NEW D \in SUBSET Kind, Leave(route, D)
      PROVE  Fares
  <2> DEFINE v == Discarded(tab, D)
             t == LeavingFor(v, route)
  <2>1. /\ TabInOrder(v)
        /\ \A d \in Kind \ D : v.records[d] = tab.records[d]
    BY <1>1, Discarding DEF Follows
  <2>2. PageFits(v)
    BY <1>1, PlainOperations, OneSessionFits
  <2>3. tab' = t
    BY <1>6 DEF Leave, Turn
  <2> HIDE DEF v
  <2>4. PageFits(t) /\ t.records = v.records
    BY <1>1, <2>1, <2>2, LeavingIsSound, GoingAway
  <2> HIDE DEF t
  <2>5. \A d \in D : ByHand(d)
    BY <1>6 DEF ByHand, Route
  <2>6. WordsKept(t)
    BY <2>1, <2>4, <2>5 DEF WordsKept, Unsaved, NoDraft
  <2> QED
    BY <2>3, <2>4, <2>6 DEF Fares
<1>7. CASE RouteChanged
  <2> DEFINE v == Discarded(tab, Kind \ UnsavedIn(tab))
             t == [v EXCEPT !.observed = tab.here, !.undisturbed = {}, !.unmoved = {}]
  <2>1. /\ TabInOrder(v)
        /\ \A d \in Kind : Unsaved(tab.records[d]) => v.records[d] = tab.records[d]
    BY <1>1, Discarding DEF Follows, UnsavedIn
  <2>2. PageFits(v)
    BY <1>1, PlainOperations, OneSessionFits
  <2>3. \/ tab' = t
        \/ (Free(t) # {} \/ ~Staff(t.here)) /\ tab' = VerifyingAfresh(t)
    BY <1>7, Zenon DEF RouteChanged, Page
  <2> HIDE DEF v
  <2>4. /\ DOMAIN t = TabFields /\ t.logout = v.logout
        /\ t.records = v.records /\ t.identity = v.identity /\ t.auth = v.auth
        /\ t.owned = v.owned /\ t.waiting = v.waiting /\ t.flight = v.flight
        /\ t.proofs = v.proofs /\ t.shown = v.shown
    BY <2>1 DEF TabInOrder, TabFields
  <2> HIDE DEF t
  <2>5. TabInOrder(t) /\ PageFits(t)
    BY <2>1, <2>2, <2>4 DEF TabInOrder, RecordsInOrder, CallsInOrder, PageFits
  <2>6. \A u : u.records = t.records => WordsKept(u)
    BY <2>1, <2>4 DEF WordsKept, Unsaved, NoDraft
  <2>7. CASE tab' = t
    BY <2>5, <2>6, <2>7 DEF Fares
  <2>8. CASE (Free(t) # {} \/ ~Staff(t.here)) /\ tab' = VerifyingAfresh(t)
    <3> DEFINE u == VerifyingAfresh(t)
    <3>1. /\ u.records = t.records /\ u.identity = t.identity /\ u.logout = t.logout
          /\ \/ u.flight = NoProof /\ u.proofs = t.proofs
             \/ /\ u.flight \in Proof
                /\ u.proofs = [t.proofs EXCEPT ![u.flight] = NewCall(t, "none")]
      BY <2>5, <2>8, AskingAfresh
    <3>2. NewCall(t, "none").carried = cookie /\ NewCall(t, "none").reply = Nothing
      BY DEF NewCall
    <3> HIDE DEF u
    <3>3. OneSession(t, u)
      BY <3>1, <3>2 DEF OneSession
    <3>4. PageFits(u) /\ WordsKept(u)
      BY <1>1, <2>5, <2>6, <3>1, <3>3, OneSessionFits
    <3> QED
      BY <2>8, <3>4 DEF Fares, u
  <2> QED
    BY <2>3, <2>7, <2>8
<1> QED
  BY <1>2, <1>3, <1>4, <1>5, <1>6, <1>7

LEMMA SessionsFare ==
  ASSUME PagesFit,
         \/ \E s \in Session : SignInElsewhere(s) \/ SessionEnds(s) \/ SignIn(s)
         \/ LogoutElsewhere \/ ChangedElsewhere
         \/ Logout \/ LogoutByForm \/ LogoutAnswered
  PROVE  Fares
<1>1. /\ Sound(tab) /\ TabInOrder(tab) /\ PageFits(tab) /\ SessionsInOrder /\ HostInOrder
  BY TabIsSound DEF PagesFit, HostInOrder
<1>2. CASE \/ \E s \in Session : SignInElsewhere(s) \/ SessionEnds(s)
           \/ LogoutElsewhere \/ ChangedElsewhere
  BY <1>2, UnchangedFares DEF SignInElsewhere, SessionEnds, LogoutElsewhere, ChangedElsewhere
<1>3. ASSUME NEW s \in Session, SignIn(s)
      PROVE  Fares
  <2>1. \A t : WordsKept(t)
    BY <1>3 DEF WordsKept, ByHand
  <2> QED
    BY <1>3, <2>1, FreshFits DEF SignIn, NewDocument, Fares
<1>4. CASE LogoutByForm
  <2>1. \A t : WordsKept(t)
    BY <1>4 DEF LogoutByForm, UnsavedIn, WordsKept
  <2> QED
    BY <1>4, <2>1, FreshFits DEF LogoutByForm, NewDocument, Fares
<1>5. CASE Logout
  <2> DEFINE v == Quarantined(tab)
             x == [asked |-> TRUE, carried |-> cookie, reply |-> Nothing, owned |-> TRUE]
             t == [v EXCEPT !.logout = x]
  <2>1. Sound(v)
    BY <1>1, QuarantinedIsSound
  <2>2. tab' = t
    BY <1>5 DEF Logout, Page
  <2>3. x.carried = cookie /\ x.reply = Nothing
    OBVIOUS
  <2> HIDE DEF v, x
  <2>4. /\ t.logout = x /\ t.records = v.records /\ t.identity = v.identity
        /\ t.flight = v.flight /\ t.proofs = v.proofs
    BY <2>1 DEF Sound, TabInOrder, TabFields
  <2> HIDE DEF t
  <2>5. LogoutFits(x) /\ AskedUnder(x.carried, t.identity)
    BY <1>1, <2>3, AskedNow DEF LogoutFits, Nothing, SessionsInOrder
  <2>6. PageFits(t)
    BY <2>1, <2>4, <2>5 DEF Sound, PageFits
  <2>7. WordsKept(t)
    BY <2>1, <2>4, KeepingWords DEF Sound, Keeps
  <2> QED
    BY <2>2, <2>6, <2>7 DEF Fares
<1>6. CASE LogoutAnswered
  <2> DEFINE t == [tab EXCEPT !.logout = NoLogout]
  <2>1. /\ DOMAIN t = TabFields /\ t.logout = NoLogout
        /\ t.records = tab.records /\ t.identity = tab.identity /\ t.auth = tab.auth
        /\ t.owned = tab.owned /\ t.waiting = tab.waiting /\ t.flight = tab.flight
        /\ t.proofs = tab.proofs /\ t.shown = tab.shown
    BY <1>1 DEF TabInOrder, TabFields
  <2>2. \/ /\ tab.logout.reply.is = "ok" /\ tab.logout.owned
           /\ tab' = Erased(t) \/ tab' = FreshTab("login")
        \/ (Free(t) # {} \/ ~Staff(t.here)) /\ tab' = VerifyingAfresh(t)
        \/ tab' = Unavailable(t) \/ tab' = t
    BY <1>6, Zenon DEF LogoutAnswered, Page, NewDocument
  <2> HIDE DEF t
  <2>3. TabInOrder(t)
    <3>1. DOMAIN NoLogout = LogoutFields
      BY DEF NoLogout, LogoutFields
    <3> QED
      BY <1>1, <2>1, <3>1, TrimmedFollow DEF Follows
  <2>4. Sound(t)
    <3>1. LogoutFits(NoLogout) /\ ~NoLogout.owned
      BY DEF LogoutFits, NoLogout, Nothing, Born
    <3>2. PageFits(t)
      BY <1>1, <2>1, <3>1 DEF PageFits
    <3> QED
      BY <2>1, <2>3, <3>2 DEF Sound, Keeps
  <2>5. CASE /\ tab.logout.reply.is = "ok" /\ tab.logout.owned
             /\ tab' = Erased(t) \/ tab' = FreshTab("login")
    <3>1. tab.identity # NoSession => Over(tab.identity)
      BY <1>1, <2>5, RefusedIsOver DEF PageFits, LogoutFits
    <3> QED
      BY <1>1, <2>4, <2>5, <3>1, ErasedFares, WordsOfNobody, FreshFits DEF Fares
  <2>6. CASE (Free(t) # {} \/ ~Staff(t.here)) /\ tab' = VerifyingAfresh(t)
    BY <1>1, <2>4, <2>6, AskingIsSound, SoundStepsFare
  <2>7. CASE tab' = Unavailable(t) \/ tab' = t
    BY <1>1, <2>4, <2>7, QuarantinedIsSound, SoundStepsFare
  <2> QED
    BY <2>2, <2>5, <2>6, <2>7
<1> QED
  BY <1>2, <1>3, <1>4, <1>5, <1>6

LEMMA EditingFares ==
  ASSUME PagesFit,
         \/ Read
         \/ \E d \in using : Open(d) \/ Resume(d) \/ Type(d) \/ SubmitDraft(d)
         \/ \E d \in using, keep \in BOOLEAN : Review(d, keep)
  PROVE  Fares
<1>1. /\ Sound(tab) /\ TabInOrder(tab) /\ PageFits(tab) /\ SessionsInOrder /\ HostInOrder
  BY TabIsSound DEF PagesFit, HostInOrder
<1>2. \A d \in using : d \in Kind
  BY <1>1 DEF HostInOrder, UsingOne, Kind
<1>3. CASE Read
  <2> DEFINE t == [tab EXCEPT !.resource = reservation]
  <2>1. /\ DOMAIN t = TabFields /\ t.logout = tab.logout
        /\ t.records = tab.records /\ t.identity = tab.identity /\ t.auth = tab.auth
        /\ t.owned = tab.owned /\ t.waiting = tab.waiting /\ t.flight = tab.flight
        /\ t.proofs = tab.proofs /\ t.shown = tab.shown
    BY <1>1 DEF TabInOrder, TabFields
  <2>2. tab' = t \/ (tab' = Erased(tab) /\ ~Authentic(cookie))
    BY <1>3 DEF Read, Page
  <2> HIDE DEF t
  <2>3. CASE tab' = t
    BY <2>1, <2>3, TrimmedIsSound, SoundStepsFare
  <2>4. CASE tab' = Erased(tab) /\ ~Authentic(cookie)
    BY <1>1, <2>4, AskedNow, RefusedIsOver, ErasedFares
  <2> QED
    BY <2>2, <2>3, <2>4
(* One draft is rewritten, and what belongs to it.                         *)
<1>4. ASSUME NEW d \in Kind, NEW t, tab' = t,
             t.identity = tab.identity, t.logout = tab.logout,
             t.proofs = tab.proofs, t.flight = tab.flight,
             \A e \in Kind \ {d} : t.records[e] = tab.records[e],
             \/ ByHand(d) \/ ~Unsaved(tab.records[d])
             \/ t.records[d] # NoDraft /\ t.records[d].values = tab.records[d].values
      PROVE  Fares
  <2>1. PageFits(t)
    BY <1>1, <1>4, OneSessionFits DEF OneSession
  <2>2. WordsKept(t)
    BY <1>4 DEF WordsKept, Unsaved, NoDraft
  <2> QED
    BY <1>4, <2>1, <2>2 DEF Fares
<1>5. ASSUME NEW d \in using, Open(d)
      PROVE  Fares
  <2> DEFINE r == IF tab.records[d] = NoDraft THEN Initialised(d) ELSE tab.records[d]
             t == [tab EXCEPT !.shown = @ \cup {d}, !.records[d] = r]
  <2>1. tab' = t
    BY <1>5 DEF Open, Page
  <2> HIDE DEF r
  <2>2. /\ t.logout = tab.logout /\ t.records = [tab.records EXCEPT ![d] = r]
        /\ t.identity = tab.identity /\ t.flight = tab.flight /\ t.proofs = tab.proofs
    BY <1>1 DEF TabInOrder, TabFields
  <2> HIDE DEF t
  <2>3. \A e \in Kind \ {d} : t.records[e] = tab.records[e]
    BY <1>1, <1>2, <2>2 DEF TabInOrder, RecordsInOrder
  <2>4. ~Unsaved(tab.records[d])
    BY <1>5 DEF Open
  <2> QED
    BY <1>2, <1>4, <2>1, <2>2, <2>3, <2>4
<1>6. ASSUME NEW d \in using, Resume(d)
      PROVE  Fares
  <2>1. CanVerify(tab) /\ tab' = Verifying(tab, d)
    BY <1>6 DEF Resume, CanVerify, Page
  <2> QED
    BY <1>1, <1>2, <2>1, AskingIsSound, SoundStepsFare
<1>7. ASSUME NEW d \in using, Type(d) \/ \E keep \in BOOLEAN : Review(d, keep)
      PROVE  Fares
  <2>1. PICK r : tab' = WithDraft(tab, d, r)
    BY <1>7, Zenon DEF Type, Review, Page, WithDraft
  <2> DEFINE t == WithDraft(tab, d, r)
  <2>2. /\ t.logout = tab.logout /\ t.records = [tab.records EXCEPT ![d] = r]
        /\ t.identity = tab.identity /\ t.flight = tab.flight /\ t.proofs = tab.proofs
    BY <1>1 DEF TabInOrder, TabFields, WithDraft
  <2>3. ByHand(d)
    BY <1>7 DEF ByHand
  <2>4. tab' = t
    BY <2>1
  <2> HIDE DEF t
  <2>5. \A e \in Kind \ {d} : t.records[e] = tab.records[e]
    BY <1>1, <1>2, <2>2 DEF TabInOrder, RecordsInOrder
  <2> QED
    BY <1>2, <1>4, <2>2, <2>3, <2>4, <2>5
<1>8. ASSUME NEW d \in using, SubmitDraft(d)
      PROVE  Fares
  <2> DEFINE i == Len(attempts) + 1
             r == tab.records[d]
             x == [r EXCEPT !.phase = "PENDING", !.attempt = i,
                            !.retry = IF d = "PHONE" THEN i ELSE @]
             t == [tab EXCEPT !.records[d] = x, !.owned = @ \cup {i},
                              !.undisturbed = @ \cup {i}, !.unmoved = @ \cup {i}]
  <2>1. tab' = t /\ d \in tab.shown
    BY <1>8 DEF SubmitDraft
  <2>2. r # NoDraft /\ DOMAIN r = DraftFields
    BY <1>1, <1>2, <2>1 DEF TabInOrder, RecordsInOrder, DraftOf
  <2>3. x.values = r.values /\ x # NoDraft
    BY <2>2 DEF DraftFields, NoDraft
  <2> HIDE DEF x, i
  <2>4. /\ t.logout = tab.logout /\ t.records = [tab.records EXCEPT ![d] = x]
        /\ t.identity = tab.identity /\ t.flight = tab.flight /\ t.proofs = tab.proofs
    BY <1>1 DEF TabInOrder, TabFields
  <2> HIDE DEF t
  <2>5. t.records[d] = x /\ \A e \in Kind \ {d} : t.records[e] = tab.records[e]
    BY <1>1, <1>2, <2>4 DEF TabInOrder, RecordsInOrder
  <2>6. t.records[d] # NoDraft /\ t.records[d].values = tab.records[d].values
    BY <2>3, <2>5
  <2>7. /\ d \in Kind /\ tab' = t
        /\ t.identity = tab.identity /\ t.logout = tab.logout
        /\ t.proofs = tab.proofs /\ t.flight = tab.flight
        /\ \A e \in Kind \ {d} : t.records[e] = tab.records[e]
    BY <1>2, <2>1, <2>4, <2>5
  <2> HIDE DEF r
  <2> QED
    BY <1>4, <2>6, <2>7
<1> QED
  BY <1>3, <1>5, <1>6, <1>7, <1>8

-----------------------------------------------------------------------------
(* The attempts of the next state, by what is known in this one.           *)
AttemptsFare == \A i \in DOMAIN attempts' : AttemptFits(attempts'[i], i)

LEMMA RepliesFit ==
  ASSUME NEW i, NEW a, AttemptFits(a, i), DOMAIN a = AttemptFields, NEW r,
         r.is # "saved", r.is = "denied" => ~Authentic(a.carried),
         r.is = "mismatch" => a.carried # a.of
  PROVE  AttemptFits([a EXCEPT !.reply = r], i)
<1> DEFINE b == [a EXCEPT !.reply = r]
<1>1. b.of = a.of /\ b.stage = a.stage /\ b.carried = a.carried /\ b.reply = r
  BY DEF AttemptFields
<1> HIDE DEF b
<1>2. AttemptFits(b, i)
  BY <1>1 DEF AttemptFits, ServedFits
<1> QED
  BY <1>2 DEF b

LEMMA EndedFit ==
  ASSUME PagesFit, NEW S, Ended(S)
  PROVE  AttemptsFare
<1> DEFINE ended(a, i) == [a EXCEPT !.stage = "done", !.carried = NoSession,
                                    !.proof = NoProof,
                                    !.reply = IF i \in tab'.waiting THEN @ ELSE Nothing]
<1>1. attempts' = [i \in DOMAIN attempts |->
                     IF i \notin S THEN attempts[i] ELSE ended(attempts[i], i)]
  BY DEF Ended
<1>2. ASSUME NEW a, NEW i, DOMAIN a = AttemptFields, AttemptFits(a, i)
      PROVE  AttemptFits(ended(a, i), i)
  <2> DEFINE b == ended(a, i)
  <2>1. b.of = a.of /\ b.stage = "done" /\ b.reply \in {a.reply, Nothing}
    BY <1>2 DEF AttemptFields
  <2> HIDE DEF b
  <2>2. AttemptFits(b, i)
    BY <1>2, <2>1 DEF AttemptFits, Nothing
  <2> QED
    BY <2>2 DEF b
<1> HIDE DEF ended
<1> QED
  BY <1>1, <1>2 DEF PagesFit, HostInOrder, AttemptsInOrder, AttemptsFare

LEMMA NewDocumentFits ==
  ASSUME PagesFit, NEW route, NewDocument(route)
  PROVE  AttemptsFare
<1>1. attempts' = [i \in DOMAIN attempts |-> Orphaned(attempts[i])]
  BY DEF NewDocument
<1>2. ASSUME NEW a, NEW i, DOMAIN a = AttemptFields, AttemptFits(a, i)
      PROVE  AttemptFits(Orphaned(a), i)
  <2> DEFINE b == Orphaned(a)
  <2>1. b.of = a.of /\ b.stage \in {"orphan", "done"} /\ b.reply = Nothing
    BY <1>2 DEF AttemptFields, Orphaned
  <2> HIDE DEF b
  <2>2. AttemptFits(b, i)
    BY <1>2, <2>1 DEF AttemptFits, Nothing
  <2> QED
    BY <2>2 DEF b
<1> QED
  BY <1>1, <1>2 DEF PagesFit, HostInOrder, AttemptsInOrder, AttemptsFare

LEMMA OneAttemptFits ==
  ASSUME PagesFit, NEW i \in DOMAIN attempts, NEW a, AttemptFits(a, i),
         attempts' = [attempts EXCEPT ![i] = a]
  PROVE  AttemptsFare
BY DEF PagesFit, AttemptsFare

LEMMA AnsweredFit ==
  ASSUME PagesFit, NEW i \in DOMAIN attempts, NEW r, Reply(i, r), r.is # "saved",
         r.is = "denied" => ~Authentic(attempts[i].carried),
         r.is = "mismatch" => attempts[i].carried # attempts[i].of
  PROVE  AttemptsFare
<1> DEFINE a == [attempts[i] EXCEPT !.reply = r]
<1>1. attempts' = [attempts EXCEPT ![i] = a]
  BY DEF Reply
<1>2. AttemptFits(a, i)
  BY RepliesFit DEF PagesFit, HostInOrder, AttemptsInOrder
<1> HIDE DEF a
<1> QED
  BY <1>1, <1>2, OneAttemptFits

LEMMA AsksFits ==
  ASSUME PagesFit, NEW i \in DOMAIN attempts, NEW step, Asks(i, step)
  PROVE  AttemptsFare
<1> DEFINE a == [attempts[i] EXCEPT !.stage = step, !.carried = cookie,
                                    !.reply = Nothing]
<1>1. DOMAIN attempts[i] = AttemptFields /\ AttemptFits(attempts[i], i) /\ cookie \in Born
  BY DEF PagesFit, HostInOrder, AttemptsInOrder, SessionsInOrder
<1>2. attempts' = [attempts EXCEPT ![i] = a]
  BY <1>1 DEF Asks
<1>3. a.of = attempts[i].of /\ a.carried = cookie /\ a.reply = Nothing
  BY <1>1 DEF AttemptFields
<1> HIDE DEF a
<1>4. AttemptFits(a, i)
  BY <1>1, <1>3, AskedNow DEF AttemptFits, ServedFits, Nothing
<1> QED
  BY <1>2, <1>4, OneAttemptFits

(* Who is told to go away had no session, or another one.                  *)
LEMMA AnswersFit ==
  ASSUME PagesFit, NEW i \in DOMAIN attempts,
         AnswerCheck(i) \/ AnswerReread(i) \/ SaveRefused(i)
  PROVE  AttemptsFare
<1>1. PICK r : /\ Reply(i, r) /\ r.is # "saved"
               /\ r.is = "denied" => ~Authentic(attempts[i].carried)
               /\ r.is = "mismatch" => attempts[i].carried # attempts[i].of
  <2>1. CASE AnswerCheck(i)
    BY <2>1 DEF AnswerCheck, Named, Denied, Down
  <2>2. CASE AnswerReread(i)
    <3>1. \/ Reply(i, Down)
          \/ Authentic(attempts[i].carried) /\ Reply(i, [is |-> "read", row |-> reservation])
          \/ ~Authentic(attempts[i].carried) /\ Reply(i, Denied)
      BY <2>2 DEF AnswerReread
    <3> QED
      BY <3>1 DEF Denied, Down
  <2>3. CASE SaveRefused(i)
    BY <2>3 DEF SaveRefused, Turned, Bound, Denied, Down
  <2> QED
    BY <2>1, <2>2, <2>3
<1> QED
  BY <1>1, AnsweredFit

(* What is submitted is of the session that is shown, and asks with the    *)
(* cookie of the moment.                                                   *)
LEMMA SubmitFits ==
  ASSUME PagesFit, NEW d \in using, SubmitDraft(d)
  PROVE  AttemptsFare
<1>1. PICK a : /\ attempts' = Append(attempts, a)
               /\ a.of = tab.records[d].of /\ a.carried = cookie /\ a.reply = Nothing
  BY DEF SubmitDraft
<1>2. a.of = tab.identity /\ a.of # NoSession
  <2>1. d \in tab.shown
    BY DEF SubmitDraft
  <2>2. DraftOf(tab.records[d], tab.identity) /\ tab.records[d] # NoDraft
    BY <2>1 DEF PagesFit, HostInOrder, TabInOrder, RecordsInOrder
  <2> QED
    BY <1>1, <2>2 DEF DraftOf
<1>3. \A i : AttemptFits(a, i)
  BY <1>1, <1>2, AskedNow
     DEF PagesFit, PageFits, SessionsInOrder, AttemptFits, ServedFits, Nothing
<1>4. IsList(attempts)
  BY DEF PagesFit, HostInOrder, AttemptsInOrder
<1>5. \A i \in DOMAIN attempts' : AttemptFits(attempts'[i], i)
  BY <1>1, <1>3, <1>4, ListsGrow DEF PagesFit
<1> QED
  BY <1>5 DEF AttemptsFare

LEMMA StandingFit == PagesFit /\ UNCHANGED attempts => AttemptsFare
BY DEF PagesFit, AttemptsFare

(* All steps but those that save.                                          *)
LEMMA StepsFit ==
  ASSUME PagesFit, [ExportNext]_<<draftVars, exportVars>>
  PROVE  \/ AttemptsFare
         \/ \E i \in DOMAIN attempts : SavePhone(i) \/ SaveEdit(i) \/ SaveRoom(i)
<1>1. CASE Aside
  BY <1>1, StandingFit DEF Aside
<1>2. ASSUME NEW p \in Proof, NEW t, Concludes(p, t)
      PROVE  AttemptsFare
  BY <1>2, EndedFit DEF Concludes
<1>3. ASSUME NEW t, Page(t) \/ Turn(t)
      PROVE  AttemptsFare
  BY <1>3, StandingFit DEF Page, Turn
<1>4. ASSUME NEW i \in DOMAIN attempts, NEW t, Ends(i, t)
      PROVE  AttemptsFare
  BY <1>4, EndedFit DEF Ends
<1>5. ASSUME NEW i \in DOMAIN attempts, Checked(i) \/ Reread(i) \/ SaveTurned(i)
      PROVE  AttemptsFare
  <2>1. (\E t : Ends(i, t)) \/ \E step : Asks(i, step)
    BY <1>5, Zenon DEF Checked, Reread, SaveTurned
  <2> QED
    BY <1>4, <2>1, AsksFits
<1>6. ASSUME NEW i \in DOMAIN attempts, SaveAnswered(i)
      PROVE  AttemptsFare
  <2> DEFINE a(p) == [attempts[i] EXCEPT !.stage = "verify", !.proof = p]
  <2>1. \/ \E t : Ends(i, t)
        \/ \E p : attempts' = [attempts EXCEPT ![i].stage = "verify", ![i].proof = p]
    BY <1>6, Zenon DEF SaveAnswered
  <2>2. ASSUME NEW p, attempts' = [attempts EXCEPT ![i].stage = "verify", ![i].proof = p]
        PROVE  AttemptsFare
    <3>1. DOMAIN attempts[i] = AttemptFields /\ AttemptFits(attempts[i], i)
      BY DEF PagesFit, HostInOrder, AttemptsInOrder
    <3>2. attempts' = [attempts EXCEPT ![i] = a(p)]
      BY <2>2
    <3>3. /\ a(p).of = attempts[i].of /\ a(p).stage = "verify"
          /\ a(p).reply = attempts[i].reply
      BY <3>1 DEF AttemptFields
    <3> HIDE DEF a
    <3>4. AttemptFits(a(p), i)
      BY <3>1, <3>3 DEF AttemptFits
    <3> QED
      BY <3>2, <3>4, OneAttemptFits
  <2> QED
    BY <1>4, <2>1, <2>2
<1>7. CASE Otherwise
  <2>1. CASE \E p \in Proof : AnswerProof(p)
    BY <2>1, StandingFit DEF AnswerProof
  <2>2. CASE \/ \E s \in Session : SignInElsewhere(s) \/ SessionEnds(s)
             \/ LogoutElsewhere \/ ChangedElsewhere \/ AnswerLogout
    BY <2>2, StandingFit
       DEF SignInElsewhere, SessionEnds, LogoutElsewhere, ChangedElsewhere, AnswerLogout
  <2>3. CASE (\E s \in Session : SignIn(s)) \/ LogoutByForm
    BY <2>3, NewDocumentFits DEF SignIn, LogoutByForm
  <2>4. CASE LogoutAnswered
    <3>1. (\E t : Page(t)) \/ NewDocument("login")
      BY <2>4, Zenon DEF LogoutAnswered
    <3> QED
      BY <1>3, <3>1, NewDocumentFits
  <2>5. CASE \/ Logout \/ Foreground \/ Verify \/ Hide \/ Arrive \/ RouteChanged \/ Read
             \/ \E route \in Route : Back(route)
             \/ \E route \in {"agenda", "form"}, D \in SUBSET Kind : Leave(route, D)
             \/ \E d \in using : Open(d) \/ Resume(d) \/ Type(d)
             \/ \E d \in using, keep \in BOOLEAN : Review(d, keep)
    <3>1. \E t : Page(t) \/ Turn(t)
      BY <2>5, Zenon DEF Logout, Foreground, Verify, Hide, Arrive, RouteChanged, Read,
                         Back, Leave, Open, Resume, Type, Review
    <3> QED
      BY <1>3, <3>1
  <2> QED
    BY <1>5, <1>6, <1>7, <2>1, <2>2, <2>3, <2>4, <2>5, AnswersFit, SubmitFits DEF Otherwise
<1>8. CASE PageHide
  BY <1>3, <1>8 DEF PageHide
<1> QED
  BY <1>1, <1>2, <1>7, <1>8, HostSteps

-----------------------------------------------------------------------------
(* What was saved stays saved.                                             *)
LEMMA SavesStay ==
  ASSUME PagesFit, [ExportNext]_<<draftVars, exportVars>>,
         NEW i \in DOMAIN attempts', saved[i] # NoSession
  PROVE  saved'[i] # NoSession
<1>1. \A j \in DOMAIN attempts : attempts[j].of # NoSession
  BY DEF PagesFit, AttemptFits
<1>2. i \in DOMAIN saved
  <2>1. AttemptsInOrder'
    BY NextAttempts DEF PagesFit, SavedInOrder
  <2>2. i \in 1..MaxAttempts
    BY <2>1, ListsHaveALength, StaffDraftsAssumption DEF AttemptsInOrder
  <2> QED
    BY <2>2 DEF PagesFit, SavedInOrder
<1>3. CASE UNCHANGED saved
  BY <1>3
<1>4. ASSUME NEW j \in DOMAIN attempts, saved' = [saved EXCEPT ![j] = attempts[j].of]
      PROVE  saved'[i] # NoSession
  BY <1>1, <1>2, <1>4
<1> QED
  BY <1>3, <1>4, SavesBound

(* What fits in this state fits in the next.                               *)
LEMMA OneFitsOn ==
  ASSUME PagesFit, SessionsGoOn, [ExportNext]_<<draftVars, exportVars>>,
         NEW i \in DOMAIN attempts', NEW a, AttemptFits(a, i)
  PROVE  AttemptFits(a, i)'
BY SavesStay, AttemptsStayFit DEF PagesFit

(* The answer of a save says that it was done, or is lost.                 *)
LEMMA SavesFit ==
  ASSUME PagesFit, SessionsGoOn, [ExportNext]_<<draftVars, exportVars>>,
         NEW i \in DOMAIN attempts, SavePhone(i) \/ SaveEdit(i) \/ SaveRoom(i)
  PROVE  \A j \in DOMAIN attempts' : AttemptFits(attempts[j], j)'
<1>1. PICK r : Reply(i, r) /\ r.is \in {"saved", "down"}
  BY DEF SavePhone, SaveEdit, SaveRoom, Replied, Down
<1>2. saved' = [saved EXCEPT ![i] = attempts[i].of]
  BY DEF SavePhone, SaveEdit, SaveRoom, Saves, Bound
<1>3. i \in DOMAIN saved /\ DOMAIN attempts[i] = AttemptFields
  BY ListsHaveALength, StaffDraftsAssumption DEF PagesFit, SavedInOrder, AttemptsInOrder
<1> DEFINE a == [attempts[i] EXCEPT !.reply = r]
<1>4. attempts' = [attempts EXCEPT ![i] = a]
  BY <1>1 DEF Reply
<1>5. /\ a.of = attempts[i].of /\ a.stage = attempts[i].stage
      /\ a.carried = attempts[i].carried /\ a.reply = r
  BY <1>3 DEF AttemptFields
<1> HIDE DEF a
<1>6. PICK b : b = attempts[i]
  OBVIOUS
<1>7. AttemptFits(b, i)' /\ b.of # NoSession
  BY <1>4, <1>6, OneFitsOn DEF PagesFit, AttemptFits
<1>8. PICK c : c = a
  OBVIOUS
<1>9. saved'[i] = b.of
  BY <1>2, <1>3, <1>6
<1>10. /\ c.of = b.of /\ c.stage = b.stage /\ c.carried = b.carried
       /\ c.reply.is \in {"saved", "down"}
  BY <1>1, <1>5, <1>6, <1>8
<1>11. AttemptFits(c, i)'
  BY <1>7, <1>9, <1>10 DEF AttemptFits, ServedFits
<1>12. ASSUME NEW j \in DOMAIN attempts'
       PROVE  AttemptFits(attempts[j], j)'
  <2>1. PICK e : e = attempts'[j]
    OBVIOUS
  <2>2. AttemptFits(e, j)'
    <3>1. CASE j = i
      BY <1>4, <1>8, <1>11, <2>1, <3>1
    <3>2. CASE j # i
      BY <1>4, <2>1, <3>2, OneFitsOn DEF PagesFit
    <3> QED
      BY <3>1, <3>2
  <2> QED
    BY <2>1, <2>2 DEF AttemptFits, ServedFits
<1> QED
  BY <1>12

LEMMA NextAttemptsFit ==
  ASSUME PagesFit, SessionsGoOn, [ExportNext]_<<draftVars, exportVars>>
  PROVE  \A j \in DOMAIN attempts' : AttemptFits(attempts[j], j)'
<1>1. ASSUME AttemptsFare, NEW j \in DOMAIN attempts'
      PROVE  AttemptFits(attempts[j], j)'
  <2>1. PICK e : e = attempts'[j]
    OBVIOUS
  <2>2. AttemptFits(e, j)
    BY <1>1, <2>1 DEF AttemptsFare
  <2>3. AttemptFits(e, j)'
    BY <2>2, OneFitsOn
  <2> QED
    BY <2>1, <2>3 DEF AttemptFits, ServedFits
<1> QED
  BY <1>1, StepsFit, SavesFit

-----------------------------------------------------------------------------
(* All steps together.                                                     *)
LEMMA StepsFare ==
  ASSUME PagesFit, SessionsGoOn, [ExportNext]_<<draftVars, exportVars>>
  PROVE  PageFits(tab)' /\ WordsKept(tab')
<1>1. Fares \/ AnswerLogout
  <2>1. CASE Aside
    BY <2>1, AsideFares
  <2>2. CASE \/ \E p \in Proof :
                  /\ Holds(p)
                  /\ \/ Concludes(p, Verified(p))
                     \/ Concludes(p, Quarantined(Verified(p)))
             \/ \E p \in Proof :
                  /\ ~Holds(p)
                  /\ \/ Concludes(p, NotVerified(p))
                     \/ Concludes(p, Quarantined(NotVerified(p)))
    BY <2>2, ConclusionsFare
  <2>3. CASE PageHide
    BY <2>3, NavigationFares
  <2>4. CASE Otherwise
    <3>1. ASSUME NEW i \in DOMAIN attempts,
                 \/ AnswerCheck(i) \/ AnswerReread(i) \/ SaveRefused(i)
                 \/ SavePhone(i) \/ SaveEdit(i) \/ SaveRoom(i)
          PROVE  Fares
      BY <3>1, UnchangedFares
         DEF AnswerCheck, AnswerReread, SaveRefused, SavePhone, SaveEdit, SaveRoom, Saves
    <3>2. \/ AnswerLogout
          \/ \E p \in Proof : AnswerProof(p)
          \/ \E i \in DOMAIN attempts :
               \/ AnswerCheck(i) \/ AnswerReread(i) \/ SaveRefused(i)
               \/ SavePhone(i) \/ SaveEdit(i) \/ SaveRoom(i)
          \/ \E i \in DOMAIN attempts : Checked(i)
          \/ \E i \in DOMAIN attempts : Reread(i)
          \/ \E i \in DOMAIN attempts : SaveTurned(i) \/ SaveAnswered(i)
          \/ \/ \E s \in Session : SignInElsewhere(s) \/ SessionEnds(s) \/ SignIn(s)
             \/ LogoutElsewhere \/ ChangedElsewhere
             \/ Logout \/ LogoutByForm \/ LogoutAnswered
          \/ \/ Foreground \/ Verify \/ Hide \/ PageHide \/ Arrive \/ RouteChanged
             \/ \E route \in Route : Back(route)
             \/ \E route \in {"agenda", "form"}, D \in SUBSET Kind : Leave(route, D)
          \/ \/ Read
             \/ \E d \in using : Open(d) \/ Resume(d) \/ Type(d) \/ SubmitDraft(d)
             \/ \E d \in using, keep \in BOOLEAN : Review(d, keep)
      BY <2>4, Zenon DEF Otherwise
    <3> QED
      BY <3>1, <3>2, AnswerProofFares, CheckedFares, RereadFares, SavesFare,
         SessionsFare, NavigationFares, EditingFares
  <2> QED
    BY <2>1, <2>2, <2>3, <2>4, HostSteps
<1>2. CASE AnswerLogout
  BY <1>2, AnswerLogoutFits
<1>3. CASE Fares
  <2>1. PICK t : t = tab'
    OBVIOUS
  <2>2. PageFits(t) /\ WordsKept(t)
    BY <1>3, <2>1 DEF Fares
  <2>3. PageFits(tab)'
    BY <2>1, <2>2, PagesStayFit DEF PagesFit
  <2> QED
    BY <2>1, <2>2, <2>3
<1> QED
  BY <1>1, <1>2, <1>3

LEMMA NextPagesFit ==
  ASSUME PagesFit, [ExportNext]_<<draftVars, exportVars>>
  PROVE  PagesFit' /\ WordsKept(tab')
<1>1. SessionsGoOn
  BY SessionsSteps DEF PagesFit
<1>2. HostInOrder' /\ SavedInOrder' /\ SessionsInOrder'
  BY <1>1, NextHost, NextSaves, OverStaysOver DEF PagesFit
<1>3. \A j \in DOMAIN attempts' : AttemptFits(attempts[j], j)'
  BY <1>1, NextAttemptsFit
<1>4. PageFits(tab)' /\ WordsKept(tab')
  BY <1>1, StepsFare
<1> QED
  BY <1>2, <1>3, <1>4 DEF PagesFit

LEMMA InitPagesFit == ExportInit => PagesFit
<1> SUFFICES ASSUME ExportInit PROVE PagesFit
  OBVIOUS
<1>1. HostInOrder /\ attempts = << >>
  BY InitHost DEF ExportInit, DraftInit
<1>2. SavedInOrder
  <2>1. saved = [i \in 1..MaxAttempts |-> NoSession]
    BY DEF ExportInit, DraftInit
  <2> QED
    BY <1>1, <2>1 DEF SavedInOrder, HostInOrder
<1>3. SessionsInOrder
  BY DEF ExportInit, DraftInit, SessionsInOrder, Born
<1>4. PageFits(tab)
  BY FreshFits DEF ExportInit, DraftInit
<1> QED
  BY <1>1, <1>2, <1>3, <1>4, EmptyIsAList DEF PagesFit

(* What was typed stays until it is saved, changed or discarded by hand,   *)
(* or its session is over: no proof, refusal, outcome or logout that       *)
(* answers late, twice or to another session ends it before                *)
(* (verifySession, settleStaffDraftAttempt, mutate, logout).               *)
THEOREM NothingTypedIsLostHolds == ExportSpec => NothingTypedIsLost
<1>1. /\ PagesFit /\ [ExportNext]_<<draftVars, exportVars>>
      => PagesFit' /\ [\A d \in Kind :
                         Unsaved(tab.records[d]) =>
                           \/ /\ tab'.records[d] # NoDraft
                              /\ tab'.records[d].values = tab.records[d].values
                           \/ Over(tab.identity) \/ Saved(d) \/ ByHand(d)]_draftVars
  BY NextPagesFit DEF WordsKept
<1> QED
  BY <1>1, InitPagesFit, PTL DEF ExportSpec, NothingTypedIsLost
==============================================================================
