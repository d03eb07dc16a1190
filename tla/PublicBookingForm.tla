--------------------------- MODULE PublicBookingForm ---------------------------
(***************************************************************************)
(* The booking page of the public site beside the ledger it books in.  The *)
(* page asks which slots are free for a service and a party, lets a guest  *)
(* choose one of them and submits; its requests are counted against the    *)
(* address they come from, may be lost on the way in either direction, and *)
(* may reach the server after the page has given them up.  The rest of the *)
(* ledger, staff and other guests, goes on beside it.                      *)
(***************************************************************************)
EXTENDS BookingLedger

CONSTANTS
  NoSlot,        \* no time chosen
  Text,          \* what a guest may write in the other fields
  Language,      \* languages of the page
  ReadLimit,     \* availability requests allowed in a window
  MutationLimit, \* bookings allowed in a window
  MaxAsks,       \* bound: questions the page puts
  MaxPosts       \* bound: bookings the page sends

ASSUME FormAssumption ==
  /\ NoSlot \notin Slot
  /\ Text # {} /\ Language # {}
  /\ {ReadLimit, MutationLimit, MaxAsks, MaxPosts} \subseteq Nat

VARIABLES
  form,     \* what the page is filled with
  shown,    \* availability the page shows
  asked,    \* number of the last question put
  calls,    \* availability requests on their way
  stage,    \* where the submission stands
  attempt,  \* payload and key last submitted
  post,     \* answer to the submission the page waits for
  strays,   \* submissions given up that may still reach the server
  stored,   \* the payload a key was granted for
  hits,     \* requests counted in the open window, per action
  drawn,    \* keys the page has drawn
  posts,    \* submissions sent
  changes,  \* submissions that differed from the one before
  seen      \* slots free at some time since the question was put

asking == <<form, shown, asked, calls>>
sending == <<stage, attempt, post, strays, drawn, posts, changes>>
formVars == <<vars, asking, sending, stored, hits, seen>>

(* A question is only put once the date is valid and the party not empty.  *)
Question == [service : Service, party : 0..MaxParty]
Answerable(q) == q.party > 0
NoQuestion == [service |-> Vacant.service, party |-> 0]

Payload == [question : Question, slot : Slot \cup {NoSlot}, text : Text,
            language : Language]
Blank == [question |-> NoQuestion, slot |-> NoSlot,
          text |-> CHOOSE x \in Text : TRUE,
          language |-> CHOOSE l \in Language : TRUE]
NoAttempt == [payload |-> Blank, key |-> NoReservation]

Without(status) == [status |-> status, slots |-> {}]

Limited == {"AVAILABILITY", "CREATE"}
Allowance(a) == IF a = "AVAILABILITY" THEN ReadLimit ELSE MutationLimit

-----------------------------------------------------------------------------
(* The slots the engine calls free in a ledger, for a question.            *)
FreeIn(ledger, q) ==
  LET taken == {r \in Reservation : /\ ledger[r].status = "CONFIRMED"
                                    /\ ledger[r].service = q.service}
  IN  {t \in Slot : SlotHasRoom(ledger, taken, MaxParty, Slot, t, q.party,
                                Limit[q.service], Window)}

(* One request more in the window of its action; the count stops one past  *)
(* the limit, where it tells no more.                                      *)
Hit(a) == IF hits[a] > Allowance(a) THEN hits[a] ELSE hits[a] + 1
Allowed(a) == Hit(a) <= Allowance(a)
Counted(a) == hits' = [hits EXCEPT ![a] = Hit(a)]

CanEdit == stage \in {"IDLE", "EDITING", "REJECTED"}

HasCurrentSlot == shown.status = "READY" /\ form.slot \in shown.slots

(* What is free now is free at some time since the question was put.       *)
Watch ==
  seen' = seen \cup (IF Answerable(form.question)
                       THEN FreeIn(row', form.question) ELSE {})

-----------------------------------------------------------------------------
(* Nothing has been sent yet, and nobody has booked.                       *)
NothingSent ==
  /\ Init
  /\ calls = {}
  /\ stage = "IDLE"
  /\ attempt = NoAttempt
  /\ post = "NONE"
  /\ strays = {}
  /\ stored = [k \in Key |-> Blank]
  /\ drawn = {}
  /\ posts = 0
  /\ changes = 0

FormInit ==
  /\ NothingSent
  /\ form = Blank
  /\ shown = Without("IDLE")
  /\ asked = 0
  /\ hits = [a \in Limited |-> 0]
  /\ seen = {}

(* A new question: the time chosen goes, the request still out is given up *)
(* and, where it can be answered, one of its own goes out.                 *)
Put(q) ==
  /\ asked < MaxAsks
  /\ asked' = asked + 1
  /\ form' = [form EXCEPT !.question = q, !.slot = NoSlot]
  /\ IF Answerable(q)
       THEN /\ shown' = Without("LOADING")
            /\ calls' = calls \cup {[id |-> asked', question |-> q,
                                      answer |-> Without("SENT")]}
            /\ seen' = FreeIn(row, q)
       ELSE /\ shown' = Without("IDLE")
            /\ seen' = {}
            /\ UNCHANGED calls
  /\ UNCHANGED <<vars, sending, stored, hits>>

Ask(q) == CanEdit /\ q # form.question /\ Put(q)

(* The same party typed again: what was shown goes, and since the question *)
(* is the one already put no request replaces the one given up.            *)
Retype ==
  /\ CanEdit
  /\ Answerable(form.question)
  /\ asked < MaxAsks
  /\ asked' = asked + 1
  /\ form' = [form EXCEPT !.slot = NoSlot]
  /\ shown' = Without("LOADING")
  /\ UNCHANGED <<vars, calls, sending, stored, hits, seen>>

RetryAvailability == CanEdit /\ shown.status = "ERROR" /\ Put(form.question)

Choose(t) ==
  /\ CanEdit
  /\ shown.status = "READY"
  /\ t \in shown.slots \cup {NoSlot}
  /\ form' = [form EXCEPT !.slot = t]
  /\ UNCHANGED <<vars, shown, asked, calls, sending, stored, hits, seen>>

Write(x) ==
  /\ CanEdit
  /\ form' = [form EXCEPT !.text = x]
  /\ UNCHANGED <<vars, shown, asked, calls, sending, stored, hits, seen>>

(* The language lies outside what a submission locks.                      *)
SelectLanguage(l) ==
  /\ stage # "CONFIRMED"
  /\ form' = [form EXCEPT !.language = l]
  /\ UNCHANGED <<vars, shown, asked, calls, sending, stored, hits, seen>>

-----------------------------------------------------------------------------
(* The server reads the ledger for a request that is on its way, unless    *)
(* its address has asked too often.                                        *)
ServeAvailability(c) ==
  LET free == FreeIn(row, c.question)
      answer == CASE ~Allowed("AVAILABILITY") -> Without("ERROR")
                  [] free = {} -> Without("EMPTY")
                  [] OTHER -> [status |-> "READY", slots |-> free]
  IN
  /\ c.answer.status = "SENT"
  /\ Counted("AVAILABILITY")
  /\ calls' = (calls \ {c}) \cup {[c EXCEPT !.answer = answer]}
  /\ UNCHANGED <<vars, form, shown, asked, sending, stored, seen>>

LoseAvailability(c) ==
  /\ c.answer.status # "ERROR"
  /\ calls' = (calls \ {c}) \cup {[c EXCEPT !.answer = Without("ERROR")]}
  /\ UNCHANGED <<vars, form, shown, asked, sending, stored, hits, seen>>

(* Mutant: an answer is taken for the question it was asked for.           *)
IsCurrentQuestion(c) == c.question = form.question

IsCurrent(c) == c.id = asked

(* An answer that comes back is shown if nothing was asked after it.       *)
ReceiveAvailability(c) ==
  /\ c.answer.status # "SENT"
  /\ calls' = calls \ {c}
  /\ shown' = IF IsCurrent(c) THEN c.answer ELSE shown
  /\ UNCHANGED <<vars, form, asked, sending, stored, hits, seen>>

-----------------------------------------------------------------------------
(* Mutant: every submission draws a key.                                   *)
ResolvedAnew(k) == k \notin drawn /\ claim[k] = NoReservation

(* The key a payload is sent under: the last one while nothing differs.    *)
Resolved(k) ==
  IF attempt # NoAttempt /\ attempt.payload = form
    THEN k = attempt.key
    ELSE k \notin drawn /\ claim[k] = NoReservation

Dispatch ==
  /\ posts < MaxPosts
  /\ posts' = posts + 1
  /\ stage' = "PENDING"
  /\ post' = "SENT"
  /\ UNCHANGED <<vars, asking, strays, stored, hits, seen>>

Submit(k) ==
  /\ CanEdit
  /\ HasCurrentSlot
  /\ Resolved(k)
  /\ drawn' = drawn \cup {k}
  /\ changes' = IF attempt.payload = form THEN changes ELSE changes + 1
  /\ attempt' = [payload |-> form, key |-> k]
  /\ Dispatch

RetryOriginal ==
  /\ stage \in {"UNCERTAIN", "EDITING"}
  /\ Dispatch
  /\ UNCHANGED <<attempt, drawn, changes>>

(* After the warning the guest may change what may have been booked.       *)
Edit ==
  /\ stage = "UNCERTAIN"
  /\ stage' = "EDITING"
  /\ UNCHANGED <<vars, asking, attempt, post, strays, drawn, posts, changes,
                 stored, hits, seen>>

(* What a page tells of an answer: booked, refused (4xx), or not known.    *)
Answers == {"GRANTED", "REFUSED", "FAILED"}

(* The create handler: a key that is remembered is answered by what it was *)
(* granted for, another one books if there is room, and may be refused for *)
(* a cut-off or a closure the ledger does not know of.                     *)
Book(a, answer) ==
  LET q == a.payload.question IN
  \/ /\ claim[a.key] # NoReservation
     /\ answer = IF stored[a.key] = a.payload THEN "GRANTED" ELSE "REFUSED"
     /\ UNCHANGED <<vars, stored>>
  \/ /\ answer = "GRANTED"
     /\ \E r \in Reservation :
          Grant(a.key, r, q.service, a.payload.slot, q.party, FALSE)
     /\ stored' = [stored EXCEPT ![a.key] = a.payload]
  \/ /\ claim[a.key] = NoReservation
     /\ answer = "REFUSED"
     /\ UNCHANGED <<vars, stored>>
  \/ /\ answer = "FAILED"
     /\ UNCHANGED <<vars, stored>>

Create(a, answer) ==
  /\ Counted("CREATE")
  /\ IF Allowed("CREATE")
       THEN Book(a, answer)
       ELSE answer = "REFUSED" /\ UNCHANGED <<vars, stored>>

ServePost ==
  /\ post = "SENT"
  /\ post' \in Answers
  /\ Create(attempt, post')
  /\ Watch
  /\ UNCHANGED <<asking, stage, attempt, strays, drawn, posts, changes>>

ServeStray(a) ==
  /\ \E answer \in Answers : Create(a, answer)
  /\ strays' = strays \ {a}
  /\ Watch
  /\ UNCHANGED <<asking, stage, attempt, post, drawn, posts, changes>>

(* The page gives up a submission whose answer does not come back; what    *)
(* has not been served yet may still be, or be lost as well.               *)
LosePost ==
  /\ post # "NONE"
  /\ post' = "NONE"
  /\ stage' = "UNCERTAIN"
  /\ strays' \in {strays, strays \cup (IF post = "SENT" THEN {attempt} ELSE {})}
  /\ UNCHANGED <<vars, asking, attempt, drawn, posts, changes, stored, hits,
                 seen>>

ReceivePost ==
  /\ post \in Answers
  /\ post' = "NONE"
  /\ stage' = CASE post = "GRANTED" -> "CONFIRMED"
                [] post = "REFUSED" -> "REJECTED"
                [] post = "FAILED" -> "UNCERTAIN"
  /\ attempt' = IF post = "GRANTED" THEN NoAttempt ELSE attempt
  /\ UNCHANGED <<vars, asking, strays, drawn, posts, changes, stored, hits,
                 seen>>

(* The window of an action runs out, and its row goes or counts anew.      *)
WindowEnds(a) ==
  /\ hits[a] > 0
  /\ hits' = [hits EXCEPT ![a] = 0]
  /\ UNCHANGED <<vars, asking, sending, stored, seen>>

-----------------------------------------------------------------------------
(* The ledger goes on without the page, which is open for a shorter time   *)
(* than a key is remembered (bound).                                       *)
Elsewhere ==
  /\ \/ \E k \in Key \ drawn, r \in Reservation, s \in Service, t \in Slot,
           p \in 1..MaxParty, o \in BOOLEAN : Grant(k, r, s, t, p, o)
     \/ \E r \in Reservation, s \in Service, t \in Slot,
           p \in 1..MaxParty, o \in BOOLEAN : Amend(r, s, t, p, o)
     \/ \E r \in Reservation : Annotate(r)
     \/ \E r \in Reservation : Cancel(r)
     \/ \E K \in SUBSET (Key \ drawn) : Forget(K)
  /\ Watch
  /\ UNCHANGED <<asking, sending, stored, hits>>

PageStep ==
  \/ \E q \in Question : Ask(q)
  \/ Retype
  \/ RetryAvailability
  \/ \E t \in Slot \cup {NoSlot} : Choose(t)
  \/ \E x \in Text : Write(x)
  \/ \E l \in Language : SelectLanguage(l)
  \/ \E c \in calls : LoseAvailability(c) \/ ReceiveAvailability(c)
  \/ \E k \in Key : Submit(k)
  \/ RetryOriginal
  \/ Edit
  \/ LosePost
  \/ ReceivePost

ServerStep ==
  \/ \E c \in calls : ServeAvailability(c)
  \/ ServePost
  \/ \E a \in strays : ServeStray(a)
  \/ \E a \in Limited : WindowEnds(a)

FormNext == PageStep \/ ServerStep \/ Elsewhere

FormSpec == FormInit /\ [][FormNext]_formVars

-----------------------------------------------------------------------------
(* A time is only offered if it was free, for this service and this party, *)
(* at some moment since the guest put the question, however questions,     *)
(* answers and other people's bookings overtake each other; a guest who    *)
(* chose one chose it from what is offered (settleAvailability, update).   *)
SlotsAnswerTheDay ==
  shown.status = "READY" =>
     /\ shown.slots \subseteq seen
     /\ form.slot \in shown.slots \cup {NoSlot}

(* The page books at most once for every time its guest changed what is    *)
(* asked for: answers lost, retries, requests that arrive after they were  *)
(* given up and refusals in between do not add a reservation               *)
(* (resolveClientSubmissionIdentity, createPublicReservation).             *)
OneBookingPerChange ==
  Cardinality({claim[k] : k \in drawn} \ {NoReservation}) <= changes
=============================================================================
