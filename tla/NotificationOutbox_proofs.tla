----------------------- MODULE NotificationOutbox_proofs -----------------------
(***************************************************************************)
(* Theorems of the outbox for every set of reservations and workers, every *)
(* strategy, lease, life and number of attempts.                           *)
(***************************************************************************)
EXTENDS NotificationOutbox, SequenceTheorems, TLAPS

Waiting == {"PENDING", "CLAIMED"}

(* What an entry of the table is, the lease and the attempts included.     *)
Sound == {x \in Entry : /\ x.status = "CLAIMED" <=> x.holder # NoWorker
                        /\ Len(x.tries) <= MaxAttempts}

LEMMA TwinIsLeg ==
  ASSUME NEW l \in Leg
  PROVE  /\ Twin(l) \in Leg
         /\ Twin(l).of = l.of /\ Twin(l).change = l.change
         /\ Twin(l).event = l.event /\ Twin(l).channel = "EMAIL"
BY DEF Twin, Leg

LEMMA TwinsDiffer ==
  ASSUME NEW l \in Leg, NEW m \in Leg,
         l.channel = "WHATSAPP", m.channel = "WHATSAPP", Twin(l) = Twin(m)
  PROVE  l = m
BY DEF Twin, Leg

LEMMA EndedIsSound ==
  ASSUME NEW x \in Entry, Len(x.tries) <= MaxAttempts,
         NEW s \in {"PENDING"} \cup Terminal
  PROVE  /\ Ended(x, s) \in Sound
         /\ Ended(x, s).status = s
         /\ Ended(x, s).strategy = x.strategy
         /\ Ended(x, s).recalled = x.recalled
         /\ Ended(x, s).expires = x.expires
         /\ Ended(x, s).tries = x.tries
BY OutboxAssumption DEF Ended, Sound, Entry, Terminal

LEMMA ReplacedInSeq ==
  ASSUME NEW S, NEW s \in Seq(S), NEW n, NEW e \in S
  PROVE  [s EXCEPT ![n] = e] \in Seq(S) /\ Len([s EXCEPT ![n] = e]) = Len(s)
<1>1. CASE n \in 1..Len(s)
  BY <1>1, ExceptSeq
<1>2. CASE n \notin 1..Len(s)
  <2>1. DOMAIN s = 1..Len(s) /\ s = [i \in 1..Len(s) |-> s[i]]
    OBVIOUS
  <2>2. [s EXCEPT ![n] = e] = [i \in 1..Len(s) |-> s[i]]
    BY <1>2, <2>1
  <2> QED
    BY <2>1, <2>2
<1> QED
  BY <1>1, <1>2

LEMMA ClosedIsEntry ==
  ASSUME NEW x \in Entry, NEW n
  PROVE  /\ Closed(x, n) \in Entry
         /\ Len(Closed(x, n).tries) = Len(x.tries)
         /\ Closed(x, n).status = x.status
         /\ Closed(x, n).strategy = x.strategy
         /\ Closed(x, n).recalled = x.recalled
         /\ Closed(x, n).holder = x.holder
         /\ Closed(x, n).expires = x.expires
<1> DEFINE t == [x.tries EXCEPT ![n] = "CLOSED"]
           S == {"OPEN", "CLOSED"}
           s == x.tries
<1>1. s \in Seq(S) /\ "CLOSED" \in S
  BY DEF Entry
<1> HIDE DEF S, s
<1>2. [s EXCEPT ![n] = "CLOSED"] \in Seq(S) /\ Len([s EXCEPT ![n] = "CLOSED"]) = Len(s)
  BY <1>1, ReplacedInSeq
<1>3. Closed(x, n) = [x EXCEPT !.tries = t]
  BY DEF Closed, Entry
<1>4. t \in Seq({"OPEN", "CLOSED"}) /\ Len(t) = Len(x.tries)
  BY <1>2 DEF S, s
<1> HIDE DEF t
<1> QED
  BY <1>3, <1>4 DEF Entry

LEMMA AbandonedIsEntry ==
  ASSUME NEW x \in Entry
  PROVE  /\ Abandoned(x) \in Entry
         /\ Len(Abandoned(x).tries) = Len(x.tries)
         /\ Abandoned(x).status = x.status
         /\ Abandoned(x).strategy = x.strategy
         /\ Abandoned(x).recalled = x.recalled
         /\ Abandoned(x).holder = x.holder
         /\ Abandoned(x).expires = x.expires
BY ClosedIsEntry DEF Abandoned

LEMMA RecoveredIsSound ==
  ASSUME NEW x \in Entry, Len(x.tries) <= MaxAttempts, NEW t \in Nat
  PROVE  /\ Recovered(x, t) \in Sound
         /\ Recovered(x, t).status \in {"PENDING", "DEAD", "CANCELLED"}
         /\ Recovered(x, t).status = "PENDING" => ~x.recalled
         /\ Recovered(x, t).strategy = x.strategy
         /\ Recovered(x, t).recalled = x.recalled
<1> DEFINE y == Abandoned(x)
<1>1. y \in Entry /\ Len(y.tries) <= MaxAttempts
      /\ y.strategy = x.strategy /\ y.recalled = x.recalled
  BY AbandonedIsEntry
<1> HIDE DEF y
<1>2. CASE x.recalled
  <2>1. Recovered(x, t) = Ended(y, "CANCELLED")
    BY <1>2 DEF Recovered, y
  <2>2. "CANCELLED" \in {"PENDING"} \cup Terminal
    BY DEF Terminal
  <2> QED
    BY <1>1, <2>1, <2>2, EndedIsSound
<1>3. CASE ~x.recalled /\ x.expires <= t
  <2>1. Recovered(x, t) = Ended(y, "DEAD")
    BY <1>3 DEF Recovered, y
  <2>2. "DEAD" \in {"PENDING"} \cup Terminal
    BY DEF Terminal
  <2> QED
    BY <1>1, <2>1, <2>2, EndedIsSound
<1>4. CASE ~x.recalled /\ ~(x.expires <= t)
  <2> DEFINE z == Ended(y, "PENDING")
  <2>1. Recovered(x, t) = [z EXCEPT !.available = t]
    BY <1>4 DEF Recovered, y
  <2>2. /\ z \in Sound /\ z.status = "PENDING"
        /\ z.strategy = x.strategy /\ z.recalled = x.recalled
    BY <1>1, EndedIsSound
  <2> HIDE DEF z
  <2> QED
    BY <1>4, <2>1, <2>2 DEF Sound, Entry
<1> QED
  BY <1>2, <1>3, <1>4

LEMMA PlannedIsSound ==
  ASSUME NEW s \in Strategy, NEW a \in Nat, NEW e \in Nat, NEW d \in BOOLEAN
  PROVE  /\ Planned(s, a, e, d) \in Sound
         /\ Planned(s, a, e, d).status \in {"PENDING", "DEAD"}
         /\ Planned(s, a, e, d).strategy = s
        /\ Planned(s, a, e, d).tries = << >>
         /\ ~Planned(s, a, e, d).recalled
<1>1. << >> \in Seq({"OPEN", "CLOSED"}) /\ Len(<< >>) = 0
  OBVIOUS
<1> QED
  BY <1>1, OutboxAssumption DEF Planned, Sound, Entry, Terminal

-----------------------------------------------------------------------------
(* What the helpers of the handlers and of the worker do to the table.     *)

Change == [changes : 0..MaxChange, gone : BOOLEAN, start : Start, email : BOOLEAN]

LEMMA TableIsSound == TypeOK <=> /\ now \in 0..Horizon
                                 /\ booked \in [Reservation -> Change]
                                 /\ leg \in [Leg -> Sound]
                                 /\ phase \in [Worker -> {"recover", "find", "claim", "process"}]
                                 /\ seen \in [Worker -> 0..Horizon]
                                 /\ found \in [Worker -> SUBSET Leg]
                                 /\ job \in [Worker -> SUBSET Job]
BY DEF TypeOK, Sound, Change

(* A plan writes the messages of one change and nothing else; under        *)
(* fallback no email is among them.                                        *)
Adds(W, T, r, n, s) ==
  \A l \in Leg :
    \/ W[l] = T[l]
    \/ /\ l.of = r /\ l.change = n
       /\ W[l].status \in {"PENDING", "DEAD"}
       /\ W[l].strategy = s /\ W[l].tries = << >>
       /\ l.channel = "EMAIL" => s = "WHATSAPP_AND_EMAIL_PARALLEL"

LEMMA MessagesPlanned ==
  ASSUME TypeOK, NEW T \in [Leg -> Sound], NEW r \in Reservation, NEW n,
         NEW b \in Change, NEW s \in Strategy, NEW q, NEW m
  PROVE  /\ WithMessages(T, r, n, b, s, q, m) \in [Leg -> Sound]
         /\ Adds(WithMessages(T, r, n, b, s, q, m), T, r, n, s)
<1> DEFINE W == WithMessages(T, r, n, b, s, q, m)
<1>1. /\ now \in Nat /\ Life \in Nat /\ ReminderLead \in Nat
      /\ b.start \in Nat /\ b.email \in BOOLEAN
  <2>1. now \in Nat
    BY DEF TypeOK
  <2>2. Life \in Nat /\ ReminderLead \in Nat /\ Start \subseteq Nat
    BY OutboxAssumption
  <2>3. b.start \in Start /\ b.email \in BOOLEAN
    BY DEF Change
  <2> QED
    BY <2>1, <2>2, <2>3
<1>2. ASSUME NEW l \in Leg
      PROVE  /\ W[l] \in Sound
             /\ \/ W[l] = T[l]
                \/ /\ l.of = r /\ l.change = n
                   /\ W[l].status \in {"PENDING", "DEAD"}
                   /\ W[l].strategy = s /\ W[l].tries = << >>
                   /\ l.channel = "EMAIL" => s = "WHATSAPP_AND_EMAIL_PARALLEL"
  <2>1. CASE W[l] = T[l]
    BY <2>1
  <2> DEFINE d == l.channel = "WHATSAPP" \/ b.email
             P(a, e) == Planned(s, a, e, d)
  <2>2. CASE /\ l.of = r /\ l.change = n
             /\ l.channel \in PlannedChannels(s, q)
             /\ W[l] = P(now, now + Life)
    <3>1. d \in BOOLEAN /\ now + Life \in Nat
      BY <1>1
    <3>2. l.channel = "EMAIL" => s = "WHATSAPP_AND_EMAIL_PARALLEL"
      BY <2>2 DEF PlannedChannels
    <3> HIDE DEF d
    <3>3. /\ P(now, now + Life) \in Sound
          /\ P(now, now + Life).status \in {"PENDING", "DEAD"}
          /\ P(now, now + Life).strategy = s
          /\ P(now, now + Life).tries = << >>
      BY <1>1, <3>1, PlannedIsSound
    <3> HIDE DEF P, W
    <3> QED
      BY <2>2, <3>2, <3>3
  <2>3. CASE /\ l.of = r /\ l.change = n
             /\ l.channel \in PlannedChannels(s, FALSE)
             /\ b.start >= now + ReminderLead
             /\ W[l] = P(b.start - ReminderLead, b.start)
    <3>1. d \in BOOLEAN /\ b.start - ReminderLead \in Nat
      BY <1>1, <2>3
    <3>2. l.channel = "EMAIL" => s = "WHATSAPP_AND_EMAIL_PARALLEL"
      BY <2>3 DEF PlannedChannels
    <3> HIDE DEF d
    <3>3. /\ P(b.start - ReminderLead, b.start) \in Sound
          /\ P(b.start - ReminderLead, b.start).status \in {"PENDING", "DEAD"}
          /\ P(b.start - ReminderLead, b.start).strategy = s
          /\ P(b.start - ReminderLead, b.start).tries = << >>
      BY <1>1, <3>1, PlannedIsSound
    <3> HIDE DEF P, W
    <3> QED
      BY <2>3, <3>2, <3>3
  <2> QED
    BY <2>1, <2>2, <2>3 DEF WithMessages
<1>3. W \in [Leg -> Sound]
  BY <1>2 DEF WithMessages
<1> HIDE DEF W
<1>4. Adds(W, T, r, n, s)
  BY <1>2 DEF Adds
<1> QED
  BY <1>3, <1>4 DEF W

LEMMA SupersededIsOver ==
  ASSUME TypeOK, NEW r \in Reservation
  PROVE  /\ Superseded(r) \in [Leg -> Sound]
         /\ \A l \in Leg :
              \/ Superseded(r)[l] = leg[l] /\ (l.of = r => leg[l].status \notin Waiting)
              \/ /\ l.of = r /\ leg[l].status = "PENDING"
                 /\ Superseded(r)[l].status = "CANCELLED"
                 /\ Superseded(r)[l].strategy = leg[l].strategy
                 /\ Superseded(r)[l].tries = leg[l].tries
              \/ /\ l.of = r /\ leg[l].status = "CLAIMED"
                 /\ Superseded(r)[l].status = "CLAIMED"
                 /\ Superseded(r)[l].recalled
                 /\ Superseded(r)[l].strategy = leg[l].strategy
                 /\ Superseded(r)[l].tries = leg[l].tries
<1>1. ASSUME NEW l \in Leg
      PROVE  /\ Superseded(r)[l] \in Sound
             /\ \/ Superseded(r)[l] = leg[l] /\ (l.of = r => leg[l].status \notin Waiting)
                \/ /\ l.of = r /\ leg[l].status = "PENDING"
                   /\ Superseded(r)[l].status = "CANCELLED"
                   /\ Superseded(r)[l].strategy = leg[l].strategy
                   /\ Superseded(r)[l].tries = leg[l].tries
                \/ /\ l.of = r /\ leg[l].status = "CLAIMED"
                   /\ Superseded(r)[l].status = "CLAIMED"
                   /\ Superseded(r)[l].recalled
                   /\ Superseded(r)[l].strategy = leg[l].strategy
                   /\ Superseded(r)[l].tries = leg[l].tries
  <2> DEFINE x == leg[l]
  <2>1. x \in Sound
    BY TableIsSound
  <2>2. CASE l.of = r /\ x.status = "PENDING"
    <3>1. Superseded(r)[l] = [x EXCEPT !.status = "CANCELLED"]
      BY <2>2 DEF Superseded
    <3> HIDE DEF x
    <3>2. /\ [x EXCEPT !.status = "CANCELLED"] \in Sound
          /\ [x EXCEPT !.status = "CANCELLED"].status = "CANCELLED"
          /\ [x EXCEPT !.status = "CANCELLED"].strategy = x.strategy
          /\ [x EXCEPT !.status = "CANCELLED"].tries = x.tries
      BY <2>1, <2>2 DEF Sound, Entry, Terminal
    <3> QED
      BY <2>2, <3>1, <3>2 DEF x
  <2>3. CASE l.of = r /\ x.status = "CLAIMED"
    <3>1. Superseded(r)[l] = [x EXCEPT !.recalled = TRUE]
      BY <2>3 DEF Superseded
    <3> HIDE DEF x
    <3>2. /\ [x EXCEPT !.recalled = TRUE] \in Sound
          /\ [x EXCEPT !.recalled = TRUE].status = "CLAIMED"
          /\ [x EXCEPT !.recalled = TRUE].recalled
          /\ [x EXCEPT !.recalled = TRUE].strategy = x.strategy
          /\ [x EXCEPT !.recalled = TRUE].tries = x.tries
      BY <2>1, <2>3 DEF Sound, Entry
    <3> QED
      BY <2>3, <3>1, <3>2 DEF x
  <2>4. CASE ~(l.of = r /\ x.status \in Waiting)
    <3>1. Superseded(r)[l] = x
      BY <2>4 DEF Superseded, Waiting
    <3> QED
      BY <2>1, <2>4, <3>1
  <2> QED
    BY <2>2, <2>3, <2>4 DEF Waiting
<1>2. Superseded(r) \in [Leg -> Sound]
  BY <1>1 DEF Superseded
<1> QED
  BY <1>1, <1>2

(* A leg that dies takes nothing with it and leaves at most its email.     *)
LEMMA DeathLeavesAnEmail ==
  ASSUME TypeOK, NEW l \in Leg, NEW y \in Entry, Len(y.tries) <= MaxAttempts,
         NEW t \in Nat
  PROVE  LET D == DeadAndFallback(l, y, t)
         IN  /\ D \in [Leg -> Sound]
             /\ D[l].status = "DEAD" /\ D[l].strategy = y.strategy
             /\ \A k \in Leg \ {l} :
                  \/ D[k] = leg[k]
                  \/ /\ k = Twin(l) /\ l.channel = "WHATSAPP"
                     /\ y.strategy = "WHATSAPP_WITH_EMAIL_FALLBACK"
                     /\ D[k].status \in {"PENDING", "DEAD"}
<1> DEFINE dead == [leg EXCEPT ![l] = Ended(y, "DEAD")]
           e == Planned(y.strategy, t, y.expires, booked[l.of].email)
<1>1. Ended(y, "DEAD") \in Sound /\ Ended(y, "DEAD").status = "DEAD"
      /\ Ended(y, "DEAD").strategy = y.strategy
  <2>1. "DEAD" \in {"PENDING"} \cup Terminal
    BY DEF Terminal
  <2> QED
    BY <2>1, EndedIsSound
<1>2. e \in Sound /\ e.status \in {"PENDING", "DEAD"}
  <2>1. /\ y.strategy \in Strategy /\ y.expires \in Nat
        /\ booked[l.of].email \in BOOLEAN
    BY DEF Entry, TypeOK, Leg
  <2> QED
    BY <2>1, PlannedIsSound
<1>3. leg \in [Leg -> Sound] /\ dead \in [Leg -> Sound]
      /\ dead[l] = Ended(y, "DEAD")
      /\ \A k \in Leg \ {l} : dead[k] = leg[k]
  BY <1>1, TableIsSound
<1>4. CASE FallsBack(l, y, t)
  <2>1. Twin(l) \in Leg /\ Twin(l) # l
    BY <1>4, TwinIsLeg DEF FallsBack
  <2>2. DeadAndFallback(l, y, t) = [dead EXCEPT ![Twin(l)] = e]
    BY <1>4 DEF DeadAndFallback
  <2>3. l.channel = "WHATSAPP" /\ y.strategy = "WHATSAPP_WITH_EMAIL_FALLBACK"
    BY <1>4 DEF FallsBack
  <2> HIDE DEF dead, e
  <2> QED
    BY <1>1, <1>2, <1>3, <2>1, <2>2, <2>3
<1>5. CASE ~FallsBack(l, y, t)
  <2>1. DeadAndFallback(l, y, t) = dead
    BY <1>5 DEF DeadAndFallback
  <2> HIDE DEF dead, e
  <2> QED
    BY <1>1, <1>3, <2>1
<1> QED
  BY <1>4, <1>5

-----------------------------------------------------------------------------
(* What a step makes of the table.                                         *)

(* A step of a worker leaves a leg alone, or moves it on while it waits:   *)
(* what was asked back does not wait for another attempt, what is claimed  *)
(* was claimed or gathered before.                                         *)
Moves(l) ==
  \/ leg'[l] = leg[l]
  \/ /\ leg[l].status \in Waiting
     /\ leg'[l].status # "NONE"
     /\ leg'[l].strategy = leg[l].strategy
     /\ leg'[l].status \in Waiting => leg'[l].recalled = leg[l].recalled
     /\ leg'[l].status = "PENDING" => leg[l].status = "CLAIMED" /\ ~leg[l].recalled
     /\ leg'[l].status = "CLAIMED" =>
          leg[l].status = "CLAIMED" \/ \E w \in Worker : l \in found[w]

(* Or an email takes the place of a message that dies.                     *)
TakesThePlaceOf(l, m) ==
  /\ m.channel = "WHATSAPP" /\ l = Twin(m)
  /\ leg[m].status = "CLAIMED" /\ ~leg[m].recalled
  /\ leg[m].strategy = "WHATSAPP_WITH_EMAIL_FALLBACK"
  /\ leg'[m].status = "DEAD"
  /\ leg'[l].status \in {"PENDING", "DEAD"}

WorkerStep ==
  /\ UNCHANGED booked
  /\ \A l \in Leg : Moves(l) \/ \E m \in Leg : TakesThePlaceOf(l, m)

(* A change of a reservation plans its own messages, cancels what waits of *)
(* the earlier ones and asks back what is claimed.                         *)
PlannedByStep(r, s, l) ==
  /\ l.of = r /\ l.change = booked[r].changes + 1
  /\ leg'[l].status \in {"PENDING", "DEAD"}
  /\ leg'[l].strategy = s /\ leg'[l].tries = << >>
  /\ l.channel = "EMAIL" => s = "WHATSAPP_AND_EMAIL_PARALLEL"

SupersededByStep(r, l) ==
  \/ leg'[l] = leg[l] /\ (l.of = r => leg[l].status \notin Waiting)
  \/ /\ l.of = r /\ leg[l].status \in Waiting
     /\ leg'[l].strategy = leg[l].strategy
     /\ leg'[l].tries = leg[l].tries
     /\ \/ leg[l].status = "PENDING" /\ leg'[l].status = "CANCELLED"
        \/ leg[l].status = "CLAIMED" /\ leg'[l].status = "CLAIMED" /\ leg'[l].recalled

HandlerStep(r, s) ==
  /\ booked[r].changes < MaxChange
  /\ \A q \in Reservation \ {r} : booked'[q] = booked[q]
  /\ booked'[r].changes = booked[r].changes + 1
  /\ \A l \in Leg : SupersededByStep(r, l) \/ PlannedByStep(r, s, l)
  /\ UNCHANGED worker

(* Only a worker that opened an attempt knows its number.                  *)
JobsNumbered ==
  \A w \in Worker : \A j \in job[w] : j.stage # "queued" => j.n > 0

(* No leg is of a change to come.                                          *)
NothingAhead ==
  \A l \in Leg : leg[l].status # "NONE" => l.change <= booked[l.of].changes

Typed == TypeOK /\ JobsNumbered /\ NothingAhead

(* The table in which a change of r has superseded the earlier ones.       *)
Supersedes(T, r) ==
  \A l \in Leg :
    \/ T[l] = leg[l] /\ (l.of = r => leg[l].status \notin Waiting)
    \/ /\ l.of = r /\ leg[l].status \in Waiting
       /\ T[l].strategy = leg[l].strategy /\ T[l].tries = leg[l].tries
       /\ \/ leg[l].status = "PENDING" /\ T[l].status = "CANCELLED"
          \/ leg[l].status = "CLAIMED" /\ T[l].status = "CLAIMED" /\ T[l].recalled

(* A handler's plan over that table.                                       *)
LEMMA PlanIsHandlerStep ==
  ASSUME Typed, UNCHANGED worker, UNCHANGED now,
         NEW r \in Reservation, NEW b \in Change, NEW s \in Strategy, NEW q, NEW m,
         NEW T \in [Leg -> Sound],
         Supersedes(T, r),
         booked[r].changes < MaxChange,
         b.changes = booked[r].changes + 1,
         booked' = [booked EXCEPT ![r] = b],
         leg' = WithMessages(T, r, b.changes, b, s, q, m)
  PROVE  TypeOK' /\ JobsNumbered' /\ HandlerStep(r, s)
<1> DEFINE W == WithMessages(T, r, b.changes, b, s, q, m)
<1>1. TypeOK
  BY DEF Typed
<1>2. W \in [Leg -> Sound] /\ Adds(W, T, r, b.changes, s)
  BY <1>1, MessagesPlanned
<1> HIDE DEF W
<1>3. leg' = W
  BY DEF W
<1>4. TypeOK'
  <2>1. booked' \in [Reservation -> Change]
    BY <1>1, TableIsSound
  <2> QED
    BY <1>1, <1>2, <1>3, <2>1 DEF TypeOK, Sound, Change, worker
<1>5. JobsNumbered'
  BY DEF Typed, JobsNumbered, worker
<1>6. booked'[r] = b /\ \A p \in Reservation \ {r} : booked'[p] = booked[p]
  BY <1>1 DEF TypeOK
<1>7. ASSUME NEW l \in Leg
      PROVE  SupersededByStep(r, l) \/ PlannedByStep(r, s, l)
  <2>1. CASE leg'[l] = T[l]
    BY <2>1 DEF SupersededByStep, Supersedes
  <2>2. CASE leg'[l] # T[l]
    BY <1>2, <1>3, <2>2 DEF PlannedByStep, Adds
  <2> QED
    BY <2>1, <2>2
<1> QED
  BY <1>4, <1>5, <1>6, <1>7 DEF HandlerStep

LEMMA HandlerIsHandlerStep ==
  ASSUME Typed, NEW r \in Reservation, Handler(r)
  PROVE  TypeOK' /\ JobsNumbered' /\ (\E s \in Strategy : HandlerStep(r, s))
<1>1. /\ TypeOK /\ booked[r] \in Change /\ MaxChange \in Nat
      /\ leg \in [Leg -> Sound] /\ Email \subseteq BOOLEAN
  <2>1. TypeOK
    BY DEF Typed
  <2>2. booked \in [Reservation -> Change] /\ leg \in [Leg -> Sound]
    BY <2>1, TableIsSound
  <2> QED
    BY <2>1, <2>2, OutboxAssumption
<1> DEFINE T == Superseded(r)
<1>2. T \in [Leg -> Sound] /\ Supersedes(T, r)
  BY <1>1, SupersededIsOver DEF Waiting, Supersedes
<1> HIDE DEF T
<1>3. CASE \E t \in Start, e \in Email, s \in Strategy, quiet \in BOOLEAN :
              PlanReservationCreated(r, t, e, s, quiet)
  <2> PICK t \in Start, e \in Email, s \in Strategy, quiet \in BOOLEAN :
             PlanReservationCreated(r, t, e, s, quiet)
    BY <1>3
  <2> DEFINE b == [changes |-> 1, gone |-> FALSE, start |-> t, email |-> e]
  <2>1. /\ booked[r].changes = 0 /\ booked[r].changes < MaxChange
        /\ UNCHANGED worker /\ UNCHANGED now
        /\ booked' = [booked EXCEPT ![r] = b]
        /\ leg' = WithMessages(leg, r, b.changes, b, s, quiet, TRUE)
    BY DEF PlanReservationCreated, MayPlan
  <2>2. b \in Change /\ b.changes = booked[r].changes + 1
    BY <1>1, <2>1 DEF Change
  <2>3. Supersedes(leg, r)
    BY <2>1 DEF Typed, NothingAhead, Leg, Waiting, Supersedes
  <2> HIDE DEF b
  <2> QED
    BY <1>1, <2>1, <2>2, <2>3, PlanIsHandlerStep
<1>4. CASE \E t \in Start, e \in Email, s \in Strategy :
              PlanReservationUpdated(r, t, e, s)
  <2> PICK t \in Start, e \in Email, s \in Strategy :
             PlanReservationUpdated(r, t, e, s)
    BY <1>4
  <2> DEFINE b == [changes |-> booked[r].changes + 1, gone |-> FALSE,
                   start |-> t, email |-> e]
             again == ~(t = booked[r].start /\ Reminded(r, t))
  <2>1. /\ booked[r].changes < MaxChange
        /\ UNCHANGED worker /\ UNCHANGED now
        /\ booked' = [booked EXCEPT ![r] = b]
        /\ leg' = WithMessages(T, r, b.changes, b, s, FALSE, again)
    BY DEF PlanReservationUpdated, MayPlan, T
  <2>2. b \in Change /\ b.changes = booked[r].changes + 1
    BY <1>1, <2>1 DEF Change
  <2> HIDE DEF b, again
  <2> QED
    BY <1>2, <2>1, <2>2, PlanIsHandlerStep
<1>5. CASE \E s \in Strategy : PlanReservationCancelled(r, s)
  <2> PICK s \in Strategy : PlanReservationCancelled(r, s)
    BY <1>5
  <2> DEFINE x == booked[r]
             y == [x EXCEPT !.changes = x.changes + 1]
             b == [y EXCEPT !.gone = TRUE]
  <2>1. /\ booked[r].changes < MaxChange
        /\ UNCHANGED worker /\ UNCHANGED now
    BY DEF PlanReservationCancelled, MayPlan
  <2>2. b \in Change /\ b.changes = booked[r].changes + 1
    <3>1. x \in Change /\ x.changes < MaxChange
      BY <1>1, <2>1
    <3> HIDE DEF x
    <3>2. y \in Change /\ y.changes = x.changes + 1
      BY <1>1, <3>1 DEF Change
    <3> HIDE DEF y
    <3>3. b \in Change /\ b.changes = y.changes
      BY <3>2 DEF Change
    <3> QED
      BY <3>2, <3>3 DEF x
  <2>3. /\ booked' = [booked EXCEPT ![r] = b]
        /\ leg' = WithMessages(T, r, b.changes, b, s, FALSE, FALSE)
    BY <2>2 DEF PlanReservationCancelled, T
  <2> HIDE DEF b
  <2> QED
    BY <1>2, <2>1, <2>2, <2>3, PlanIsHandlerStep
<1> QED
  BY <1>3, <1>4, <1>5 DEF Handler

(* What a worker does to one leg it holds.                                 *)
LEMMA OneLegMoves ==
  ASSUME TypeOK, UNCHANGED booked, NEW l \in Leg, NEW y \in Sound,
         leg' = [leg EXCEPT ![l] = y],
         leg[l].status = "CLAIMED", y.status # "NONE",
         y.strategy = leg[l].strategy, y.recalled = leg[l].recalled,
         y.status = "PENDING" => ~leg[l].recalled
  PROVE  leg' \in [Leg -> Sound] /\ WorkerStep
<1>1. leg \in [Leg -> Sound]
  BY TableIsSound
<1>2. leg' \in [Leg -> Sound] /\ leg'[l] = y /\ \A k \in Leg \ {l} : leg'[k] = leg[k]
  BY <1>1
<1>3. \A k \in Leg : Moves(k)
  BY <1>2 DEF Moves, Waiting
<1> QED
  BY <1>2, <1>3 DEF WorkerStep

LEMMA DeathIsWorkerStep ==
  ASSUME TypeOK, UNCHANGED booked, NEW l \in Leg, NEW t \in Nat,
         NEW y \in Entry, Len(y.tries) <= MaxAttempts,
         y.strategy = leg[l].strategy,
         leg' = DeadAndFallback(l, y, t),
         leg[l].status = "CLAIMED", ~leg[l].recalled
  PROVE  leg' \in [Leg -> Sound] /\ WorkerStep
<1>1. /\ leg' \in [Leg -> Sound]
      /\ leg'[l].status = "DEAD" /\ leg'[l].strategy = y.strategy
      /\ \A k \in Leg \ {l} :
           \/ leg'[k] = leg[k]
           \/ /\ k = Twin(l) /\ l.channel = "WHATSAPP"
              /\ y.strategy = "WHATSAPP_WITH_EMAIL_FALLBACK"
              /\ leg'[k].status \in {"PENDING", "DEAD"}
  BY DeathLeavesAnEmail
<1>2. Moves(l)
  BY <1>1 DEF Moves, Waiting
<1>3. ASSUME NEW k \in Leg \ {l}, leg'[k] # leg[k]
      PROVE  TakesThePlaceOf(k, l)
  BY <1>1, <1>3 DEF TakesThePlaceOf
<1>4. \A k \in Leg : Moves(k) \/ \E m \in Leg : TakesThePlaceOf(k, m)
  BY <1>2, <1>3 DEF Moves
<1> QED
  BY <1>1, <1>4 DEF WorkerStep

(* What a worker does to its jobs.                                         *)
LEMMA JobsStay ==
  ASSUME TypeOK, JobsNumbered, NEW w \in Worker, NEW j \in job[w],
         NEW n \in 1..MaxAttempts, NEW stage \in {"opened", "calling", "accepted"},
         Leaves(w, j) \/ Advances(w, j, n, stage)
  PROVE  job' \in [Worker -> SUBSET Job] /\ JobsNumbered'
<1>1. job \in [Worker -> SUBSET Job] /\ MaxAttempts \in Nat
  BY OutboxAssumption DEF TypeOK
<1>2. j \in Job
  BY <1>1
<1>3. CASE Leaves(w, j)
  BY <1>1, <1>3 DEF Leaves, JobsNumbered
<1>4. CASE Advances(w, j, n, stage)
  <2> DEFINE i == [leg |-> j.leg, n |-> n, stage |-> stage]
  <2>1. i \in Job
    BY <1>1, <1>2 DEF Job
  <2>2. i.n > 0
    BY <1>1
  <2> HIDE DEF i
  <2>3. job' = [job EXCEPT ![w] = (job[w] \ {j}) \cup {i}]
    BY <1>4 DEF Advances, i
  <2>4. job' \in [Worker -> SUBSET Job]
    BY <1>1, <2>1, <2>3
  <2>5. ASSUME NEW v \in Worker, NEW k \in job'[v], k.stage # "queued"
        PROVE  k.n > 0
    <3>1. k \in job[v] \/ k = i
      BY <1>1, <2>3
    <3> QED
      BY <2>2, <2>5, <3>1 DEF JobsNumbered
  <2> QED
    BY <2>4, <2>5 DEF JobsNumbered
<1> QED
  BY <1>3, <1>4

(* The parts a step of a job leaves alone.                                 *)
LEMMA JobStepIsTyped ==
  ASSUME TypeOK, UNCHANGED <<now, booked, phase, seen, found>>,
         leg' \in [Leg -> Sound], job' \in [Worker -> SUBSET Job]
  PROVE  TypeOK'
BY DEF TypeOK, Sound

LEMMA StandsStill ==
  ASSUME UNCHANGED <<booked, leg>>
  PROVE  WorkerStep
BY DEF WorkerStep, Moves

LEMMA StartAttemptStep ==
  ASSUME TypeOK, JobsNumbered, NEW w \in Worker, NEW j \in job[w], StartAttempt(w, j)
  PROVE  TypeOK' /\ JobsNumbered' /\ WorkerStep
<1> DEFINE l == j.leg
           x == leg[l]
           n == Len(x.tries) + 1
<1>1. leg \in [Leg -> Sound] /\ now \in Nat /\ MaxAttempts \in Nat \ {0}
  BY OutboxAssumption, TableIsSound
<1>2. l \in Leg
  BY DEF TypeOK, Job
<1>3. x \in Entry /\ Len(x.tries) <= MaxAttempts /\ x \in Sound
  BY <1>1, <1>2 DEF Sound
<1>4. UNCHANGED <<now, booked, phase, seen, found>>
  BY DEF StartAttempt
<1>5. CASE ~Holds(w, l) /\ Leaves(w, j) /\ UNCHANGED leg
  <2>1. 1 \in 1..MaxAttempts
    BY <1>1
  <2>2. job' \in [Worker -> SUBSET Job] /\ JobsNumbered'
    BY <1>5, <2>1, JobsStay
  <2> QED
    BY <1>1, <1>4, <1>5, <2>2, JobStepIsTyped, StandsStill
<1>6. CASE /\ Holds(w, l) /\ x.recalled
           /\ leg' = [leg EXCEPT ![l] = Ended(x, "CANCELLED")] /\ Leaves(w, j)
  <2> DEFINE y == Ended(x, "CANCELLED")
  <2>1. 1 \in 1..MaxAttempts /\ "CANCELLED" \in {"PENDING"} \cup Terminal
    BY <1>1 DEF Terminal
  <2>2. job' \in [Worker -> SUBSET Job] /\ JobsNumbered'
    BY <1>6, <2>1, JobsStay
  <2>3. /\ y \in Sound /\ y.status = "CANCELLED"
        /\ y.strategy = x.strategy /\ y.recalled = x.recalled
    BY <1>3, <2>1, EndedIsSound
  <2> HIDE DEF y
  <2>4. leg' \in [Leg -> Sound] /\ WorkerStep
    BY <1>2, <1>4, <1>6, <2>3, OneLegMoves DEF Holds, y
  <2> QED
    BY <1>4, <2>2, <2>4, JobStepIsTyped
<1>7. CASE /\ Holds(w, l) /\ ~x.recalled
           /\ leg' = DeadAndFallback(l, x, now) /\ Leaves(w, j)
  <2>1. 1 \in 1..MaxAttempts
    BY <1>1
  <2>2. job' \in [Worker -> SUBSET Job] /\ JobsNumbered'
    BY <1>7, <2>1, JobsStay
  <2>3. leg' \in [Leg -> Sound] /\ WorkerStep
    BY <1>1, <1>2, <1>3, <1>4, <1>7, DeathIsWorkerStep DEF Holds
  <2> QED
    BY <1>4, <2>2, <2>3, JobStepIsTyped
<1>8. CASE /\ Holds(w, l) /\ ~x.recalled /\ n <= MaxAttempts
           /\ leg' = [leg EXCEPT ![l].tries = Append(@, "OPEN")]
           /\ Advances(w, j, n, "opened")
  <2> DEFINE y == [x EXCEPT !.tries = Append(x.tries, "OPEN")]
  <2>1. x.tries \in Seq({"OPEN", "CLOSED"})
    BY <1>3 DEF Entry
  <2>2. /\ Append(x.tries, "OPEN") \in Seq({"OPEN", "CLOSED"})
        /\ Len(Append(x.tries, "OPEN")) = n /\ n \in 1..MaxAttempts
    BY <1>1, <1>8, <2>1
  <2>3. job' \in [Worker -> SUBSET Job] /\ JobsNumbered'
    BY <1>8, <2>2, JobsStay
  <2>4. leg' = [leg EXCEPT ![l] = y]
    BY <1>8
  <2>5. /\ y \in Sound /\ y.status = x.status
        /\ y.strategy = x.strategy /\ y.recalled = x.recalled
    <3> HIDE DEF x, n
    <3>1. y \in Entry /\ y.tries = Append(x.tries, "OPEN")
          /\ y.status = x.status /\ y.holder = x.holder
          /\ y.strategy = x.strategy /\ y.recalled = x.recalled
      BY <1>3, <2>2 DEF Entry
    <3> HIDE DEF y
    <3> QED
      BY <1>3, <1>8, <2>2, <3>1 DEF Sound
  <2> HIDE DEF y
  <2>6. leg' \in [Leg -> Sound] /\ WorkerStep
    BY <1>2, <1>4, <1>8, <2>4, <2>5, OneLegMoves DEF Holds
  <2> QED
    BY <1>4, <2>3, <2>6, JobStepIsTyped
<1> QED
  BY <1>5, <1>6, <1>7, <1>8 DEF StartAttempt

LEMMA ConfirmStep ==
  ASSUME TypeOK, JobsNumbered, NEW w \in Worker, NEW j \in job[w],
         ConfirmProviderCall(w, j)
  PROVE  TypeOK' /\ JobsNumbered' /\ WorkerStep
<1> DEFINE l == j.leg
           x == leg[l]
           y == Closed(x, j.n)
<1>1. leg \in [Leg -> Sound] /\ l \in Leg
  BY TableIsSound DEF TypeOK, Job
<1>2. x \in Entry /\ Len(x.tries) <= MaxAttempts
  BY <1>1 DEF Sound
<1>3. y \in Entry /\ Len(y.tries) <= MaxAttempts
      /\ y.strategy = x.strategy /\ y.recalled = x.recalled
  BY <1>2, ClosedIsEntry
<1>4. UNCHANGED <<now, booked, phase, seen, found>>
  BY DEF ConfirmProviderCall
<1>5. job' \in [Worker -> SUBSET Job] /\ JobsNumbered'
  <2>1. j.n \in 1..MaxAttempts
    <3>1. j \in Job /\ j.n > 0
      BY DEF TypeOK, ConfirmProviderCall, JobsNumbered
    <3> QED
      BY <3>1, OutboxAssumption DEF Job
  <2>2. Leaves(w, j) \/ Advances(w, j, j.n, "calling")
    BY DEF ConfirmProviderCall
  <2> QED
    BY <2>1, <2>2, JobsStay
<1>6. CASE UNCHANGED leg
  BY <1>1, <1>4, <1>5, <1>6, JobStepIsTyped, StandsStill
<1>7. ASSUME NEW s \in {"DEAD", "CANCELLED"}, Holds(w, l),
             leg' = [leg EXCEPT ![l] = Ended(y, s)]
      PROVE  TypeOK' /\ JobsNumbered' /\ WorkerStep
  <2> DEFINE z == Ended(y, s)
  <2>1. s \in {"PENDING"} \cup Terminal
    BY DEF Terminal
  <2> HIDE DEF y
  <2>2. /\ z \in Sound /\ z.status = s
        /\ z.strategy = x.strategy /\ z.recalled = x.recalled
    BY <1>3, <2>1, EndedIsSound
  <2>3. leg' = [leg EXCEPT ![l] = z]
    BY <1>7
  <2> HIDE DEF z
  <2>4. leg' \in [Leg -> Sound] /\ WorkerStep
    BY <1>1, <1>4, <1>7, <2>2, <2>3, OneLegMoves DEF Holds
  <2> QED
    BY <1>4, <1>5, <2>4, JobStepIsTyped
<1> QED
  BY <1>6, <1>7 DEF ConfirmProviderCall

LEMMA FinalizeStep ==
  ASSUME TypeOK, JobsNumbered, NEW w \in Worker, NEW j \in job[w], NEW result,
         FinalizeAttempt(w, j, result)
  PROVE  TypeOK' /\ JobsNumbered' /\ WorkerStep
<1> DEFINE l == j.leg
           x == leg[l]
           y == Closed(x, j.n)
<1>1. leg \in [Leg -> Sound] /\ l \in Leg /\ now \in Nat
  BY OutboxAssumption, TableIsSound DEF TypeOK, Job
<1>2. x \in Entry /\ Len(x.tries) <= MaxAttempts
  BY <1>1 DEF Sound
<1>3. y \in Entry /\ Len(y.tries) <= MaxAttempts
      /\ y.strategy = x.strategy /\ y.recalled = x.recalled
  BY <1>2, ClosedIsEntry
<1>4. UNCHANGED <<now, booked, phase, seen, found>>
  BY DEF FinalizeAttempt
<1>5. j.n \in 1..MaxAttempts
  <2>1. j \in Job /\ j.n > 0
    BY DEF TypeOK, FinalizeAttempt, Answers, JobsNumbered
  <2> QED
    BY <2>1, OutboxAssumption DEF Job
<1>6. job' \in [Worker -> SUBSET Job] /\ JobsNumbered'
  <2>1. Leaves(w, j)
    BY DEF FinalizeAttempt
  <2> QED
    BY <1>5, <2>1, JobsStay
<1>7. CASE UNCHANGED leg
  BY <1>1, <1>4, <1>6, <1>7, JobStepIsTyped, StandsStill
<1>8. ASSUME NEW s \in {"SUCCEEDED", "CANCELLED"}, Holds(w, l),
             leg' = [leg EXCEPT ![l] = Ended(y, s)]
      PROVE  TypeOK' /\ JobsNumbered' /\ WorkerStep
  <2> DEFINE z == Ended(y, s)
  <2>1. s \in {"PENDING"} \cup Terminal
    BY DEF Terminal
  <2> HIDE DEF y
  <2>2. /\ z \in Sound /\ z.status = s
        /\ z.strategy = x.strategy /\ z.recalled = x.recalled
    BY <1>3, <2>1, EndedIsSound
  <2>3. leg' = [leg EXCEPT ![l] = z]
    BY <1>8
  <2> HIDE DEF z
  <2>4. leg' \in [Leg -> Sound] /\ WorkerStep
    BY <1>1, <1>4, <1>8, <2>2, <2>3, OneLegMoves DEF Holds
  <2> QED
    BY <1>4, <1>6, <2>4, JobStepIsTyped
<1>9. CASE /\ Holds(w, l) /\ ~x.recalled /\ Retries(j.n, x)
           /\ leg' = [leg EXCEPT ![l] = [Ended(y, "PENDING") EXCEPT
                                          !.available = now + RetryDelay[j.n]]]
  <2> DEFINE e == Ended(y, "PENDING")
             z == [e EXCEPT !.available = now + RetryDelay[j.n]]
  <2> HIDE DEF y
  <2>1. /\ e \in Sound /\ e.status = "PENDING"
        /\ e.strategy = x.strategy /\ e.recalled = x.recalled
    BY <1>3, EndedIsSound
  <2>2. now + RetryDelay[j.n] \in Nat
    <3>1. j.n \in 1..(MaxAttempts - 1)
      BY <1>5, <1>9, OutboxAssumption DEF Retries
    <3>2. RetryDelay[j.n] \in Nat
      BY <3>1, OutboxAssumption
    <3> QED
      BY <1>1, <3>2
  <2>3. leg' = [leg EXCEPT ![l] = z]
    BY <1>9
  <2> HIDE DEF e
  <2>4. /\ z \in Sound /\ z.status = "PENDING"
        /\ z.strategy = x.strategy /\ z.recalled = x.recalled
    BY <2>1, <2>2 DEF Sound, Entry
  <2> HIDE DEF z
  <2>5. leg' \in [Leg -> Sound] /\ WorkerStep
    BY <1>1, <1>4, <1>9, <2>3, <2>4, OneLegMoves DEF Holds
  <2> QED
    BY <1>4, <1>6, <2>5, JobStepIsTyped
<1>10. CASE Holds(w, l) /\ ~x.recalled /\ leg' = DeadAndFallback(l, y, now)
  <2>1. leg' \in [Leg -> Sound] /\ WorkerStep
    <3> HIDE DEF y
    <3> QED
      BY <1>1, <1>3, <1>4, <1>10, DeathIsWorkerStep DEF Holds
  <2> QED
    BY <1>4, <1>6, <2>1, JobStepIsTyped
<1> QED
  BY <1>7, <1>8, <1>9, <1>10 DEF FinalizeAttempt

(* The sweeps, and the claim, over the whole table.                        *)
LEMMA ExpireStep ==
  ASSUME TypeOK, JobsNumbered, NEW w \in Worker, ExpirePending(w)
  PROVE  TypeOK' /\ JobsNumbered' /\ WorkerStep
<1>1. ASSUME NEW l \in Leg
      PROVE  leg'[l] \in Sound /\ Moves(l)
  <2> DEFINE x == leg[l]
  <2>1. x \in Sound /\ x \in Entry /\ Len(x.tries) <= MaxAttempts
    BY TableIsSound DEF Sound
  <2>2. CASE leg'[l] = x
    BY <2>1, <2>2 DEF Moves
  <2>3. CASE x.status = "PENDING" /\ leg'[l] = Ended(x, "DEAD")
    <3>1. "DEAD" \in {"PENDING"} \cup Terminal
      BY DEF Terminal
    <3> HIDE DEF x
    <3>2. /\ Ended(x, "DEAD") \in Sound /\ Ended(x, "DEAD").status = "DEAD"
          /\ Ended(x, "DEAD").strategy = x.strategy
      BY <2>1, <3>1, EndedIsSound
    <3> QED
      BY <2>3, <3>2 DEF Moves, Waiting, x
  <2> QED
    BY <2>2, <2>3 DEF ExpirePending
<1>2. leg' \in [Leg -> Sound]
  BY <1>1 DEF ExpirePending
<1>3. TypeOK'
  BY <1>2 DEF TypeOK, Sound, ExpirePending
<1>4. UNCHANGED <<booked, job>>
  BY DEF ExpirePending
<1> QED
  BY <1>1, <1>3, <1>4 DEF WorkerStep, JobsNumbered

LEMMA RecoverStep ==
  ASSUME TypeOK, JobsNumbered, NEW w \in Worker, RecoverExpiredLeases(w)
  PROVE  TypeOK' /\ JobsNumbered' /\ WorkerStep
<1>1. seen[w] \in Nat
  BY OutboxAssumption DEF TypeOK
<1>2. ASSUME NEW l \in Leg
      PROVE  leg'[l] \in Sound /\ Moves(l)
  <2> DEFINE x == leg[l]
             z == Recovered(x, seen[w])
  <2>1. x \in Sound /\ x \in Entry /\ Len(x.tries) <= MaxAttempts
    BY TableIsSound DEF Sound
  <2>2. CASE leg'[l] = x
    BY <2>1, <2>2 DEF Moves
  <2>3. CASE x.status = "CLAIMED" /\ leg'[l] = z
    <3>1. /\ z \in Sound /\ z.status \in {"PENDING", "DEAD", "CANCELLED"}
          /\ z.status = "PENDING" => ~x.recalled
          /\ z.strategy = x.strategy /\ z.recalled = x.recalled
      BY <1>1, <2>1, RecoveredIsSound
    <3> HIDE DEF z
    <3> QED
      BY <2>3, <3>1 DEF Moves, Waiting
  <2> QED
    BY <2>2, <2>3 DEF RecoverExpiredLeases, Lapsed
<1>3. leg' \in [Leg -> Sound]
  BY <1>2 DEF RecoverExpiredLeases
<1>4. TypeOK'
  BY <1>3 DEF TypeOK, Sound, RecoverExpiredLeases
<1>5. UNCHANGED <<booked, job>>
  BY DEF RecoverExpiredLeases
<1> QED
  BY <1>2, <1>4, <1>5 DEF WorkerStep, JobsNumbered

(* What was gathered was planned.                                          *)
FoundIsPlanned ==
  \A w \in Worker : \A l \in found[w] : leg[l].status # "NONE"

LEMMA ClaimStep ==
  ASSUME TypeOK, JobsNumbered, FoundIsPlanned, NEW w \in Worker, ClaimDue(w)
  PROVE  TypeOK' /\ JobsNumbered' /\ WorkerStep
<1>1. /\ seen[w] \in Nat /\ LeaseTime \in Nat /\ MaxAttempts \in Nat
      /\ 0 \in 0..Horizon /\ w # NoWorker
  BY OutboxAssumption DEF TypeOK
<1>2. PICK S \in SUBSET found[w] :
      \/ /\ \A l \in S : leg[l].status \notin Terminal
         /\ leg' = [l \in Leg |->
                      IF l \in S
                        THEN [leg[l] EXCEPT !.status = "CLAIMED", !.holder = w,
                                            !.leaseEnd = seen[w] + LeaseTime]
                        ELSE leg[l]]
         /\ job' = [job EXCEPT ![w] =
                      {[leg |-> l, n |-> 0, stage |-> "queued"] : l \in S}]
      \/ UNCHANGED <<leg, job>>
  BY DEF ClaimDue
<1>3. S \subseteq Leg
  BY DEF TypeOK
<1>4. ASSUME NEW l \in Leg
      PROVE  leg'[l] \in Sound /\ Moves(l)
  <2> DEFINE x == leg[l]
             t == seen[w] + LeaseTime
             z == [x EXCEPT !.status = "CLAIMED", !.holder = w, !.leaseEnd = t]
  <2>1. x \in Sound /\ x \in Entry
    BY TableIsSound DEF Sound
  <2>2. CASE leg'[l] = x
    BY <2>1, <2>2 DEF Moves
  <2>3. CASE l \in S /\ x.status \notin Terminal /\ leg'[l] = z
    <3>1. x.status # "NONE"
      BY <2>3 DEF FoundIsPlanned
    <3>2. x.status \in Waiting /\ \E v \in Worker : l \in found[v]
      BY <2>1, <2>3, <3>1 DEF Entry, Terminal, Waiting
    <3>3. t \in Nat
      BY <1>1
    <3> HIDE DEF x, t
    <3>4. /\ z \in Sound /\ z.status = "CLAIMED"
          /\ z.strategy = x.strategy /\ z.recalled = x.recalled
      BY <1>1, <2>1, <3>3 DEF Sound, Entry
    <3> HIDE DEF z
    <3> QED
      BY <2>3, <3>2, <3>4 DEF Moves, x
  <2> QED
    BY <1>2, <2>2, <2>3
<1>5. leg' \in [Leg -> Sound]
  <2>1. leg' = [l \in Leg |-> leg'[l]]
    BY <1>2 DEF TypeOK
  <2> QED
    BY <1>4, <2>1
<1>6. job' \in [Worker -> SUBSET Job] /\ JobsNumbered'
  <2> DEFINE J == {[leg |-> l, n |-> 0, stage |-> "queued"] : l \in S}
  <2>1. J \subseteq Job /\ \A j \in J : j.stage = "queued"
    <3>1. 0 \in 0..MaxAttempts
      BY <1>1
    <3> QED
      BY <1>3, <3>1 DEF Job
  <2> HIDE DEF J
  <2>2. job' = [job EXCEPT ![w] = J] \/ job' = job
    BY <1>2 DEF J
  <2>3. job \in [Worker -> SUBSET Job]
    BY DEF TypeOK
  <2>4. \A v \in Worker : \A j \in job'[v] : j \in job[v] \/ j \in J
    BY <2>2, <2>3
  <2> QED
    BY <2>1, <2>2, <2>3, <2>4 DEF JobsNumbered
<1>7. /\ phase' = [phase EXCEPT ![w] = "process"]
      /\ seen' = [seen EXCEPT ![w] = 0]
      /\ found' = [found EXCEPT ![w] = {}]
      /\ UNCHANGED <<now, booked>>
  BY DEF ClaimDue
<1>8. TypeOK'
  BY <1>1, <1>5, <1>6, <1>7 DEF TypeOK, Sound
<1> QED
  BY <1>4, <1>6, <1>7, <1>8 DEF WorkerStep

(* What is gathered in a step is pending, and no earlier announcement is   *)
(* in anybody's hands.                                                     *)
Gathers ==
  \A v \in Worker : \A l \in found'[v] :
    \/ l \in found[v]
    \/ UNCHANGED <<leg, booked>> /\ leg[l].status = "PENDING" /\ InTurn(l)

LEMMA WorkStep ==
  ASSUME TypeOK, JobsNumbered, FoundIsPlanned, NEW w \in Worker, Work(w)
  PROVE  TypeOK' /\ JobsNumbered' /\ WorkerStep /\ Gathers
<1>1. found \in [Worker -> SUBSET Leg]
  BY DEF TypeOK
<1>2. CASE ExpirePending(w)
  BY <1>2, ExpireStep DEF Gathers, ExpirePending
<1>3. CASE RecoverExpiredLeases(w)
  BY <1>3, RecoverStep DEF Gathers, RecoverExpiredLeases
<1>4. CASE FindDue(w)
  <2>1. /\ found' = [found EXCEPT ![w] = Claimable(seen[w])]
        /\ phase' = [phase EXCEPT ![w] = "claim"]
        /\ UNCHANGED <<now, booked, leg, seen, job>>
    BY <1>4 DEF FindDue
  <2>2. Claimable(seen[w]) \subseteq
          {l \in Leg : leg[l].status = "PENDING" /\ InTurn(l)}
    BY DEF Claimable
  <2>3. TypeOK' /\ JobsNumbered'
    BY <2>1, <2>2 DEF TypeOK, JobsNumbered
  <2>4. Gathers
    BY <1>1, <2>1, <2>2 DEF Gathers
  <2> QED
    BY <2>1, <2>3, <2>4, StandsStill
<1>5. CASE ClaimDue(w)
  <2>1. found' = [found EXCEPT ![w] = {}]
    BY <1>5 DEF ClaimDue
  <2> QED
    BY <1>1, <1>5, <2>1, ClaimStep DEF Gathers
<1>6. CASE \E j \in job[w] : Process(w, j)
  <2> PICK j \in job[w] : Process(w, j)
    BY <1>6
  <2>1. CASE StartAttempt(w, j)
    BY <2>1, StartAttemptStep DEF StartAttempt, Gathers
  <2>2. CASE ConfirmProviderCall(w, j)
    BY <2>2, ConfirmStep DEF ConfirmProviderCall, Gathers
  <2>3. CASE \E result \in Answers(j) : FinalizeAttempt(w, j, result)
    BY <2>3, FinalizeStep DEF FinalizeAttempt, Gathers
  <2> QED
    BY <2>1, <2>2, <2>3 DEF Process
<1> QED
  BY <1>2, <1>3, <1>4, <1>5, <1>6 DEF Work

LEMMA NextStep ==
  ASSUME Typed, FoundIsPlanned, [Next]_vars
  PROVE  /\ TypeOK' /\ JobsNumbered' /\ Gathers
         /\ WorkerStep \/ \E r \in Reservation, s \in Strategy : HandlerStep(r, s)
<1>1. TypeOK /\ JobsNumbered
  BY DEF Typed
<1>2. CASE \E r \in Reservation : Handler(r)
  <2> PICK r \in Reservation : Handler(r)
    BY <1>2
  <2>1. TypeOK' /\ JobsNumbered' /\ \E s \in Strategy : HandlerStep(r, s)
    BY HandlerIsHandlerStep
  <2> QED
    BY <2>1 DEF HandlerStep, worker, Gathers
<1>3. ASSUME NEW w \in Worker, Work(w)
      PROVE  TypeOK' /\ JobsNumbered' /\ Gathers /\ WorkerStep
  BY <1>1, <1>3, WorkStep
<1>4. ASSUME NEW w \in Worker, NEW j \in job[w], Receive(w, j) \/ ItemFails(w, j)
      PROVE  TypeOK' /\ JobsNumbered' /\ Gathers /\ WorkerStep
  <2>1. UNCHANGED <<now, booked, leg, phase, seen, found>>
    BY <1>4 DEF Receive, ItemFails
  <2>2. j \in Job
    BY <1>1 DEF TypeOK
  <2>3. job' \in [Worker -> SUBSET Job] /\ JobsNumbered'
    <3>1. CASE Receive(w, j)
      <4>1. j.n \in 1..MaxAttempts
        BY <1>1, <2>2, <3>1, OutboxAssumption DEF Receive, JobsNumbered, Job
      <4> QED
        BY <1>1, <3>1, <4>1, JobsStay DEF Receive
    <3>2. CASE ItemFails(w, j)
      <4>1. 1 \in 1..MaxAttempts
        BY OutboxAssumption
      <4> QED
        BY <1>1, <3>2, <4>1, JobsStay DEF ItemFails
    <3> QED
      BY <1>4, <3>1, <3>2
  <2>4. leg' \in [Leg -> Sound]
    BY <1>1, <2>1, TableIsSound
  <2> QED
    BY <1>1, <2>1, <2>3, <2>4, JobStepIsTyped, StandsStill DEF Gathers
<1>5. ASSUME NEW w \in Worker, Crash(w)
      PROVE  TypeOK' /\ JobsNumbered' /\ Gathers /\ WorkerStep
  <2>1. 0 \in 0..Horizon
    BY OutboxAssumption
  <2>2. /\ phase' = [phase EXCEPT ![w] = "process"]
        /\ seen' = [seen EXCEPT ![w] = 0]
        /\ found' = [found EXCEPT ![w] = {}]
        /\ job' = [job EXCEPT ![w] = {}]
        /\ UNCHANGED <<now, booked, leg>>
    BY <1>5 DEF Crash
  <2>3. TypeOK' /\ JobsNumbered'
    BY <1>1, <2>1, <2>2 DEF TypeOK, JobsNumbered
  <2>4. Gathers
    BY <1>1, <2>2 DEF TypeOK, Gathers
  <2> QED
    BY <2>2, <2>3, <2>4, StandsStill
<1>6. CASE Tick
  <2>1. now' \in 0..Horizon /\ UNCHANGED <<booked, leg, phase, seen, found, job>>
    BY <1>1, <1>6, OutboxAssumption DEF Tick, TypeOK, worker
  <2>2. TypeOK' /\ JobsNumbered' /\ Gathers
    BY <1>1, <2>1 DEF TypeOK, JobsNumbered, Gathers
  <2> QED
    BY <2>1, <2>2, StandsStill
<1>7. CASE UNCHANGED vars
  <2>1. TypeOK' /\ JobsNumbered' /\ Gathers
    BY <1>1, <1>7 DEF vars, TypeOK, JobsNumbered, Gathers
  <2> QED
    BY <1>7, <2>1, StandsStill DEF vars
<1> QED
  BY <1>2, <1>3, <1>4, <1>5, <1>6, <1>7 DEF Next

-----------------------------------------------------------------------------
(* The inductive invariant.                                                *)

(* While a message waits under fallback its email is not planned.          *)
EmailWaits ==
  \A l \in Leg :
    /\ l.channel = "WHATSAPP" /\ leg[l].status \in Waiting
    /\ leg[l].strategy = "WHATSAPP_WITH_EMAIL_FALLBACK"
    => leg[Twin(l)].status = "NONE"

(* What waits and was not asked back is of the last change.                *)
Fresh(x) == x.status = "PENDING" \/ (x.status = "CLAIMED" /\ ~x.recalled)

OnlyCurrent ==
  \A l \in Leg : Fresh(leg[l]) => l.change = booked[l.of].changes

(* No announcement waits of a change before that of one just gathered.     *)
Before(e, l) ==
  /\ e.of = l.of /\ e.change < l.change
  /\ e.event = "ANNOUNCEMENT" /\ l.event = "ANNOUNCEMENT"

FoundInTurn ==
  \A w \in Worker : \A l \in found[w] : \A e \in Leg :
    Before(e, l) => leg[e].status \notin Waiting

(* Of announcements of two changes not both are claimed.                   *)
OneClaimed ==
  \A e, l \in Leg :
    Before(e, l) => ~(leg[e].status = "CLAIMED" /\ leg[l].status = "CLAIMED")

IInv ==
  Typed /\ FoundIsPlanned /\ EmailWaits /\ OnlyCurrent /\ FoundInTurn /\ OneClaimed

LEMMA InitIInv == Init => IInv
<1> SUFFICES ASSUME Init PROVE IInv
  OBVIOUS
<1>1. \A l \in Leg : leg[l].status = "NONE"
  BY DEF Init, Planned
<1>2. TypeOK
  <2> DEFINE s == CHOOSE z \in Strategy : TRUE
             t == CHOOSE z \in Start : TRUE
             p == Planned(s, 0, 0, TRUE)
             x == [p EXCEPT !.status = "NONE"]
             b == [changes |-> 0, gone |-> FALSE, email |-> FALSE, start |-> t]
  <2>1. s \in Strategy /\ t \in Start /\ 0 \in 0..MaxChange /\ 0 \in 0..Horizon
    BY OutboxAssumption
  <2>2. p \in Sound /\ p.holder = NoWorker
    BY <2>1, PlannedIsSound DEF Planned
  <2> HIDE DEF p
  <2>3. x \in Sound
    BY <2>2 DEF Sound, Entry
  <2>4. b \in Change
    BY <2>1 DEF Change
  <2> HIDE DEF x, t
  <2>5. leg = [l \in Leg |-> x] /\ booked = [r \in Reservation |-> b]
    BY DEF Init, x, p, t
  <2> HIDE DEF b
  <2>6. leg \in [Leg -> Sound] /\ booked \in [Reservation -> Change]
    BY <2>3, <2>4, <2>5
  <2>7. /\ now \in 0..Horizon
        /\ phase \in [Worker -> {"recover", "find", "claim", "process"}]
        /\ seen \in [Worker -> 0..Horizon]
        /\ found \in [Worker -> SUBSET Leg]
        /\ job \in [Worker -> SUBSET Job]
    BY <2>1 DEF Init
  <2> QED
    BY <2>6, <2>7, TableIsSound
<1>3. \A w \in Worker : found[w] = {} /\ job[w] = {}
  BY DEF Init
<1>4. Typed
  BY <1>1, <1>2, <1>3 DEF Typed, JobsNumbered, NothingAhead
<1> QED
  BY <1>1, <1>3, <1>4 DEF IInv, FoundIsPlanned, EmailWaits, OnlyCurrent,
                          Fresh, FoundInTurn, OneClaimed, Waiting

(* What waits after a step of a worker waited before, or is the email of   *)
(* one that did.                                                           *)
LEMMA WorkerStepKeeps ==
  ASSUME IInv, TypeOK', JobsNumbered', Gathers, WorkerStep
  PROVE  IInv'
<1>1. TypeOK /\ booked' = booked
  BY DEF IInv, Typed, WorkerStep
<1>2. ASSUME NEW l \in Leg
      PROVE  Moves(l) \/ \E m \in Leg : TakesThePlaceOf(l, m)
  BY DEF WorkerStep
<1>3. ASSUME NEW l \in Leg, NEW m \in Leg, TakesThePlaceOf(l, m)
      PROVE  /\ l.of = m.of /\ l.change = m.change /\ l.event = m.event
             /\ l.channel = "EMAIL" /\ m.channel = "WHATSAPP" /\ l = Twin(m)
             /\ leg[m].status = "CLAIMED" /\ Fresh(leg[m])
             /\ leg[m].status \in Waiting
             /\ leg'[m].status = "DEAD" /\ leg'[l].status \in {"PENDING", "DEAD"}
             /\ leg[l].status = "NONE"
  <2>1. leg[l].status = "NONE"
    BY <1>3 DEF IInv, EmailWaits, TakesThePlaceOf, Waiting
  <2> QED
    BY <1>3, <2>1, TwinIsLeg DEF TakesThePlaceOf, Fresh, Waiting
<1>4. ASSUME NEW l \in Leg, leg[l].status # "NONE"
      PROVE  Moves(l) /\ leg'[l].status # "NONE"
  BY <1>2, <1>3, <1>4 DEF Moves
<1>5. NothingAhead'
  <2> SUFFICES ASSUME NEW l \in Leg, leg'[l].status # "NONE"
               PROVE  l.change <= booked[l.of].changes
    BY <1>1 DEF NothingAhead
  <2>1. CASE Moves(l)
    BY <2>1 DEF IInv, Typed, NothingAhead, Moves, Waiting
  <2>2. ASSUME NEW m \in Leg, TakesThePlaceOf(l, m)
        PROVE  l.change <= booked[l.of].changes
    BY <1>3, <2>2 DEF IInv, Typed, NothingAhead
  <2> QED
    BY <1>2, <2>1, <2>2
<1>6. FoundIsPlanned'
  <2> SUFFICES ASSUME NEW w \in Worker, NEW l \in found'[w]
               PROVE  leg'[l].status # "NONE"
    BY DEF FoundIsPlanned
  <2>1. l \in Leg
    BY DEF TypeOK
  <2>2. leg[l].status # "NONE"
    BY DEF IInv, FoundIsPlanned, Gathers
  <2> QED
    BY <1>4, <2>1, <2>2
<1>7. EmailWaits'
  <2> SUFFICES ASSUME NEW l \in Leg, l.channel = "WHATSAPP",
                      leg'[l].status \in Waiting,
                      leg'[l].strategy = "WHATSAPP_WITH_EMAIL_FALLBACK"
               PROVE  leg'[Twin(l)].status = "NONE"
    BY DEF EmailWaits
  <2>1. Moves(l)
    BY <1>2, <1>3
  <2>2. leg[l].status \in Waiting /\ leg[l].strategy = "WHATSAPP_WITH_EMAIL_FALLBACK"
    BY <2>1 DEF Moves
  <2>3. Twin(l) \in Leg /\ leg[Twin(l)].status = "NONE"
    BY <2>2, TwinIsLeg DEF IInv, EmailWaits
  <2>4. ASSUME NEW m \in Leg, TakesThePlaceOf(Twin(l), m)
        PROVE  FALSE
    BY <1>3, <2>3, <2>4, TwinsDiffer DEF Waiting
  <2>5. Moves(Twin(l))
    BY <1>2, <2>3, <2>4
  <2> QED
    BY <2>3, <2>5 DEF Moves, Waiting
<1>8. OnlyCurrent'
  <2> SUFFICES ASSUME NEW l \in Leg, Fresh(leg'[l])
               PROVE  l.change = booked[l.of].changes
    BY <1>1 DEF OnlyCurrent
  <2>1. CASE Moves(l)
    <3>1. Fresh(leg[l])
      BY <2>1 DEF Moves, Fresh, Waiting
    <3> QED
      BY <3>1 DEF IInv, OnlyCurrent
  <2>2. ASSUME NEW m \in Leg, TakesThePlaceOf(l, m)
        PROVE  l.change = booked[l.of].changes
    BY <1>3, <2>2 DEF IInv, OnlyCurrent
  <2> QED
    BY <1>2, <2>1, <2>2
<1>9. FoundInTurn'
  <2> SUFFICES ASSUME NEW w \in Worker, NEW l \in found'[w], NEW e \in Leg,
                      Before(e, l)
               PROVE  leg'[e].status \notin Waiting
    BY DEF FoundInTurn
  <2>1. CASE l \in found[w]
    <3>1. leg[e].status \notin Waiting
      BY <2>1 DEF IInv, FoundInTurn
    <3>2. ASSUME NEW m \in Leg, TakesThePlaceOf(e, m)
          PROVE  FALSE
      <4>1. Before(m, l) /\ leg[m].status \in Waiting
        BY <1>3, <3>2 DEF Before
      <4> QED
        BY <2>1, <4>1 DEF IInv, FoundInTurn
    <3>3. Moves(e)
      BY <1>2, <3>2
    <3> QED
      BY <3>1, <3>3 DEF Moves
  <2>2. CASE leg' = leg /\ leg[l].status = "PENDING" /\ InTurn(l)
    <3>1. l \in Leg /\ l.change \in Nat /\ e.change \in Nat
      BY DEF TypeOK, Leg
    <3>2. leg[e].status # "CLAIMED"
      <4>1. {e.event, l.event} = {"ANNOUNCEMENT"}
        BY DEF Before
      <4> QED
        BY <2>2, <4>1 DEF InTurn, Before
    <3>3. leg[e].status # "PENDING"
      BY <2>2, <3>1 DEF IInv, OnlyCurrent, Fresh, Before
    <3> QED
      BY <2>2, <3>2, <3>3 DEF Waiting
  <2> QED
    BY <2>1, <2>2 DEF Gathers
<1>10. OneClaimed'
  <2> SUFFICES ASSUME NEW e \in Leg, NEW l \in Leg, Before(e, l),
                      leg'[e].status = "CLAIMED", leg'[l].status = "CLAIMED"
               PROVE  FALSE
    BY DEF OneClaimed
  <2>1. Moves(e) /\ Moves(l)
    BY <1>2, <1>3
  <2>2. leg[e].status \in Waiting
    BY <2>1 DEF Moves, Waiting
  <2>3. \A w \in Worker : l \notin found[w]
    BY <2>2 DEF IInv, FoundInTurn
  <2>4. leg[l].status = "CLAIMED"
    BY <2>1, <2>3 DEF Moves
  <2>5. leg[e].status # "CLAIMED"
    BY <2>4 DEF IInv, OneClaimed
  <2>6. e.change = booked[e.of].changes
    BY <2>2, <2>5 DEF IInv, OnlyCurrent, Fresh, Waiting
  <2>7. l.change <= booked[l.of].changes
    BY <2>4 DEF IInv, Typed, NothingAhead
  <2>8. e.change \in Nat /\ l.change \in Nat
    BY DEF Leg
  <2> QED
    BY <2>6, <2>7, <2>8 DEF Before
<1> QED
  BY <1>5, <1>6, <1>7, <1>8, <1>9, <1>10 DEF IInv, Typed

(* What waits of the reservation after its change is planned by it, or     *)
(* asked back.                                                             *)
LEMMA HandlerStepKeeps ==
  ASSUME IInv, TypeOK', JobsNumbered', NEW r \in Reservation, NEW s, HandlerStep(r, s)
  PROVE  IInv'
<1> DEFINE n == booked[r].changes + 1
<1>1. /\ TypeOK /\ MaxChange \in Nat
      /\ \A q \in Reservation : booked[q].changes \in Nat
      /\ \A l \in Leg : l.of \in Reservation /\ l.change \in Nat
  BY OutboxAssumption DEF IInv, Typed, TypeOK, Leg
<1>2. /\ booked'[r].changes = n /\ found' = found
      /\ \A q \in Reservation \ {r} : booked'[q] = booked[q]
  BY DEF HandlerStep, worker
<1>3. ASSUME NEW l \in Leg
      PROVE  SupersededByStep(r, l) \/ PlannedByStep(r, s, l)
  BY DEF HandlerStep
<1>4. ASSUME NEW l \in Leg, PlannedByStep(r, s, l)
      PROVE  l.of = r /\ l.change = n /\ leg[l].status = "NONE"
  BY <1>1, <1>4 DEF PlannedByStep, IInv, Typed, NothingAhead
<1>5. ASSUME NEW l \in Leg, leg[l].status # "NONE"
      PROVE  leg'[l].status # "NONE" /\ SupersededByStep(r, l)
  BY <1>3, <1>4, <1>5 DEF SupersededByStep
<1>6. ASSUME NEW l \in Leg, SupersededByStep(r, l), leg'[l].status \in Waiting
      PROVE  /\ leg[l].status \in Waiting /\ leg'[l].strategy = leg[l].strategy
             /\ l.of = r => ~Fresh(leg'[l])
             /\ l.of # r => leg'[l] = leg[l]
             /\ leg'[l].status = "CLAIMED" => leg[l].status = "CLAIMED"
  BY <1>6 DEF SupersededByStep, Waiting, Fresh
<1>7. NothingAhead'
  <2> SUFFICES ASSUME NEW l \in Leg, leg'[l].status # "NONE"
               PROVE  l.change <= booked'[l.of].changes
    BY DEF NothingAhead
  <2>1. CASE PlannedByStep(r, s, l)
    BY <1>1, <1>2, <1>4, <2>1
  <2>2. CASE leg[l].status # "NONE"
    BY <1>1, <1>2, <2>2 DEF IInv, Typed, NothingAhead
  <2>3. SupersededByStep(r, l) => leg[l].status # "NONE"
    BY DEF SupersededByStep, Waiting
  <2> QED
    BY <1>3, <2>1, <2>2, <2>3
<1>8. FoundIsPlanned'
  BY <1>1, <1>2, <1>5 DEF FoundIsPlanned, IInv, TypeOK
<1>9. EmailWaits'
  <2> SUFFICES ASSUME NEW l \in Leg, l.channel = "WHATSAPP",
                      leg'[l].status \in Waiting,
                      leg'[l].strategy = "WHATSAPP_WITH_EMAIL_FALLBACK"
               PROVE  leg'[Twin(l)].status = "NONE"
    BY DEF EmailWaits
  <2> DEFINE k == Twin(l)
  <2>1. k \in Leg /\ k.of = l.of /\ k.change = l.change /\ k.channel = "EMAIL"
    BY TwinIsLeg
  <2>2. leg[k].status = "NONE" /\ SupersededByStep(r, k) => leg'[k].status = "NONE"
    BY DEF SupersededByStep, Waiting
  <2>3. CASE SupersededByStep(r, l)
    <3>1. leg[k].status = "NONE"
      BY <1>6, <2>3 DEF IInv, EmailWaits
    <3>2. ~(l.of = r /\ l.change = n)
      <4>1. l.change <= booked[l.of].changes
        BY <1>6, <2>3 DEF IInv, Typed, NothingAhead, Waiting
      <4> QED
        BY <1>1, <4>1
    <3> QED
      BY <1>3, <1>4, <2>1, <2>2, <3>1, <3>2
  <2>4. CASE PlannedByStep(r, s, l)
    <3>1. leg[k].status = "NONE"
      <4>1. ~(k.change <= booked[k.of].changes)
        BY <1>1, <1>4, <2>1, <2>4
      <4> QED
        BY <2>1, <4>1 DEF IInv, Typed, NothingAhead
    <3>2. ~PlannedByStep(r, s, k)
      BY <2>1, <2>4 DEF PlannedByStep
    <3> QED
      BY <1>3, <2>1, <2>2, <3>1, <3>2
  <2> QED
    BY <1>3, <2>3, <2>4
<1>10. OnlyCurrent'
  <2> SUFFICES ASSUME NEW l \in Leg, Fresh(leg'[l])
               PROVE  l.change = booked'[l.of].changes
    BY DEF OnlyCurrent
  <2>1. CASE SupersededByStep(r, l)
    <3>1. l.of # r /\ Fresh(leg[l])
      BY <1>6, <2>1 DEF Fresh, Waiting
    <3> QED
      BY <1>1, <1>2, <3>1 DEF IInv, OnlyCurrent
  <2>2. CASE PlannedByStep(r, s, l)
    BY <1>2, <1>4, <2>2
  <2> QED
    BY <1>3, <2>1, <2>2
<1>11. FoundInTurn'
  <2> SUFFICES ASSUME NEW w \in Worker, NEW l \in found[w], NEW e \in Leg,
                      Before(e, l)
               PROVE  leg'[e].status \notin Waiting
    BY <1>2 DEF FoundInTurn
  <2>1. l \in Leg /\ l.change <= booked[l.of].changes
    BY <1>1 DEF TypeOK, IInv, FoundIsPlanned, Typed, NothingAhead
  <2>2. leg[e].status \notin Waiting
    BY DEF IInv, FoundInTurn
  <2>3. ~PlannedByStep(r, s, e)
    BY <1>1, <1>4, <2>1 DEF Before
  <2> QED
    BY <1>3, <1>6, <2>2, <2>3
<1>12. OneClaimed'
  <2> SUFFICES ASSUME NEW e \in Leg, NEW l \in Leg, Before(e, l),
                      leg'[e].status = "CLAIMED", leg'[l].status = "CLAIMED"
               PROVE  FALSE
    BY DEF OneClaimed
  <2>1. ~PlannedByStep(r, s, e) /\ ~PlannedByStep(r, s, l)
    BY DEF PlannedByStep
  <2>2. leg[e].status = "CLAIMED" /\ leg[l].status = "CLAIMED"
    BY <1>3, <1>6, <2>1 DEF Waiting
  <2> QED
    BY <2>2 DEF IInv, OneClaimed
<1> QED
  BY <1>7, <1>8, <1>9, <1>10, <1>11, <1>12 DEF IInv, Typed

LEMMA NextIInv == IInv /\ [Next]_vars => IInv'
<1> SUFFICES ASSUME IInv, [Next]_vars PROVE IInv'
  OBVIOUS
<1>1. Typed /\ FoundIsPlanned
  BY DEF IInv
<1>2. /\ TypeOK' /\ JobsNumbered' /\ Gathers
      /\ WorkerStep \/ \E r \in Reservation, s \in Strategy : HandlerStep(r, s)
  BY <1>1, NextStep
<1> QED
  BY <1>2, WorkerStepKeeps, HandlerStepKeeps

LEMMA SpecIInv == Spec => []IInv
BY InitIInv, NextIInv, PTL DEF Spec

-----------------------------------------------------------------------------
(* Every table and every memory of a worker keeps its shape: a lease has a *)
(* holder exactly while the leg is claimed, and no leg is given more than  *)
(* its attempts (startAttempt, recoverExpiredLeases).                      *)
THEOREM OutboxIsTyped == Spec => []TypeOK
<1>1. IInv => TypeOK
  BY DEF IInv, Typed
<1> QED
  BY <1>1, SpecIInv, PTL

(* Announcements of a reservation are never in two hands out of turn, for  *)
(* any number of workers that claim on snapshots as old as they like.      *)
THEOREM AnnouncementsInTurn == Spec => []AnnouncedInTurn
<1>1. IInv => AnnouncedInTurn
  <2> SUFFICES ASSUME IInv, NEW l \in Leg, NEW m \in Leg, l.of = m.of,
                      {l.event, m.event} = {"ANNOUNCEMENT"},
                      leg[l].status = "CLAIMED", leg[m].status = "CLAIMED"
               PROVE  l.change = m.change
    BY DEF AnnouncedInTurn
  <2>1. l.event = "ANNOUNCEMENT" /\ m.event = "ANNOUNCEMENT"
    OBVIOUS
  <2>2. ~(l.change < m.change) /\ ~(m.change < l.change)
    BY <2>1 DEF IInv, OneClaimed, Before
  <2>3. l.change \in Nat /\ m.change \in Nat
    BY DEF Leg
  <2> QED
    BY <2>2, <2>3
<1> QED
  BY <1>1, SpecIInv, PTL

(* No step touches what is over.                                           *)
LEMMA OverStays ==
  IInv /\ [Next]_vars =>
    \A l \in Leg : leg[l].status \in Terminal => leg'[l] = leg[l]
<1> SUFFICES ASSUME IInv, [Next]_vars,
                    NEW l \in Leg, leg[l].status \in Terminal
             PROVE  leg'[l] = leg[l]
  OBVIOUS
<1>1. leg[l].status \notin Waiting /\ leg[l].status # "NONE"
  BY DEF Terminal, Waiting
<1>2. WorkerStep \/ \E r \in Reservation, s \in Strategy : HandlerStep(r, s)
  BY NextStep DEF IInv
<1>3. CASE WorkerStep
  <2>1. ASSUME NEW m \in Leg, TakesThePlaceOf(l, m)
        PROVE  FALSE
    BY <1>1, <2>1 DEF IInv, EmailWaits, TakesThePlaceOf, Waiting
  <2> QED
    BY <1>1, <1>3, <2>1 DEF WorkerStep, Moves
<1>4. ASSUME NEW r \in Reservation, NEW s, HandlerStep(r, s)
      PROVE  leg'[l] = leg[l]
  <2>1. ~PlannedByStep(r, s, l)
    <3>1. l.change <= booked[l.of].changes
      BY <1>1 DEF IInv, Typed, NothingAhead
    <3>2. booked[r].changes \in Nat /\ l.change \in Nat
      BY DEF IInv, Typed, TypeOK, Leg
    <3> QED
      BY <3>1, <3>2 DEF PlannedByStep
  <2> QED
    BY <1>1, <1>4, <2>1 DEF HandlerStep, SupersededByStep
<1> QED
  BY <1>2, <1>3, <1>4

(* Nothing touches what is over: no late answer, sweep, stale claim,       *)
(* fallback or change of the reservation.                                  *)
THEOREM OverIsOver == Spec => TerminalIsFinal
<1>1. IInv /\ [Next]_vars =>
        [\A l \in Leg : leg[l].status \in Terminal => leg'[l] = leg[l]]_vars
  BY OverStays
<1> QED
  BY <1>1, SpecIInv, PTL DEF Spec, TerminalIsFinal

(* A job that is new in a step is the claimed one or the one that advances.*)
LEMMA JobsComeFrom ==
  ASSUME TypeOK, NEW v \in Worker, NEW j \in job[v], NEW n, NEW stage,
         Leaves(v, j) \/ Advances(v, j, n, stage),
         NEW w \in Worker, NEW i \in job'[w], i \notin job[w]
  PROVE  /\ w = v /\ Advances(v, j, n, stage)
         /\ i.leg = j.leg /\ i.stage = stage
<1> DEFINE k == [leg |-> j.leg, n |-> n, stage |-> stage]
<1>1. k.leg = j.leg /\ k.stage = stage
  OBVIOUS
<1> HIDE DEF k
<1>2. \/ job' = [job EXCEPT ![v] = job[v] \ {j}]
      \/ /\ Advances(v, j, n, stage)
         /\ job' = [job EXCEPT ![v] = (job[v] \ {j}) \cup {k}]
  BY DEF Leaves, Advances, k
<1>3. job \in [Worker -> SUBSET Job]
  BY DEF TypeOK
<1> QED
  BY <1>1, <1>2, <1>3

(* A call begins only where a worker looked once more.                     *)
Calling(w, l) == \E j \in Calls(w) : j.leg = l

LEMMA CallsBegin ==
  ASSUME IInv, [Next]_vars, NEW w \in Worker, NEW l \in Leg,
         Calling(w, l)', ~Calling(w, l)
  PROVE  /\ leg[l].status = "CLAIMED" /\ ~leg[l].recalled
         /\ now < leg[l].expires
<1> DEFINE Goal == /\ leg[l].status = "CLAIMED" /\ ~leg[l].recalled
                   /\ now < leg[l].expires
<1>1. TypeOK /\ job \in [Worker -> SUBSET Job]
  BY DEF IInv, Typed, TypeOK
<1>2. PICK i \in job'[w] : i.stage \in {"calling", "accepted"} /\ i.leg = l
  BY DEF Calling, Calls
<1>3. i \notin job[w]
  BY <1>2 DEF Calling, Calls
<1>4. \A j \in job[w] : j.leg = l => j.stage \notin {"calling", "accepted"}
  BY DEF Calling, Calls
<1> HIDE DEF Goal
<1>5. job' # job
  BY <1>3
<1>6. ASSUME NEW v \in Worker, ClaimDue(v)
      PROVE  FALSE
  <2>1. PICK S \in SUBSET found[v] :
           job' = [job EXCEPT ![v] = {[leg |-> m, n |-> 0, stage |-> "queued"] : m \in S}]
    BY <1>5, <1>6 DEF ClaimDue
  <2> DEFINE J == {[leg |-> m, n |-> 0, stage |-> "queued"] : m \in S}
  <2>2. \A k \in J : k.stage = "queued"
    OBVIOUS
  <2>3. job' = [job EXCEPT ![v] = J]
    BY <2>1
  <2> HIDE DEF J
  <2>4. i \in J
    BY <1>1, <1>3, <2>3
  <2> QED
    BY <1>2, <2>2, <2>4
<1>7. ASSUME NEW v \in Worker, NEW j \in job[v], StartAttempt(v, j)
      PROVE  FALSE
  <2>1. PICK n : Leaves(v, j) \/ Advances(v, j, n, "opened")
    BY <1>7 DEF StartAttempt
  <2>2. i.stage = "opened"
    BY <1>1, <1>3, <2>1, JobsComeFrom
  <2> QED
    BY <1>2, <2>2
<1>8. ASSUME NEW v \in Worker, NEW j \in job[v], ConfirmProviderCall(v, j)
      PROVE  Goal
  <2>1. Leaves(v, j) \/ Advances(v, j, j.n, "calling")
    BY <1>8 DEF ConfirmProviderCall
  <2>2. i.leg = j.leg /\ w = v
    BY <1>1, <1>3, <2>1, JobsComeFrom
  <2>3. \/ Leaves(v, j)
        \/ Holds(v, l) /\ now < leg[l].expires /\ ~leg[l].recalled
    BY <1>2, <1>8, <2>2 DEF ConfirmProviderCall
  <2>4. ~Leaves(v, j)
    BY <1>1, <1>3, <2>2 DEF Leaves
  <2> QED
    BY <2>3, <2>4 DEF Holds, Goal
<1>9. ASSUME NEW v \in Worker, NEW j \in job[v], Receive(v, j)
      PROVE  FALSE
  <2>1. Advances(v, j, j.n, "accepted") /\ j.stage = "calling"
    BY <1>9 DEF Receive
  <2>2. i.leg = j.leg /\ w = v
    BY <1>1, <1>3, <2>1, JobsComeFrom
  <2> QED
    BY <1>2, <1>4, <2>1, <2>2
<1>10. ASSUME NEW v \in Worker, NEW j \in job[v], Leaves(v, j)
       PROVE  FALSE
  BY <1>1, <1>3, <1>10 DEF Leaves
<1>11. ASSUME NEW v \in Worker, Crash(v)
       PROVE  FALSE
  BY <1>1, <1>3, <1>11 DEF Crash
<1>12. ASSUME NEW r \in Reservation, Handler(r)
       PROVE  FALSE
  BY <1>5, <1>12 DEF Handler, PlanReservationCreated, PlanReservationUpdated,
                     PlanReservationCancelled, worker
<1>13. ~Tick /\ ~UNCHANGED vars
  BY <1>5 DEF Tick, worker, vars
<1>14. ASSUME NEW v \in Worker, Work(v)
       PROVE  Goal
  <2>1. ~ExpirePending(v) /\ ~RecoverExpiredLeases(v) /\ ~FindDue(v)
    BY <1>5 DEF ExpirePending, RecoverExpiredLeases, FindDue
  <2>2. PICK j \in job[v] : Process(v, j)
    BY <1>6, <1>14, <2>1 DEF Work
  <2>3. \A result : FinalizeAttempt(v, j, result) => Leaves(v, j)
    BY DEF FinalizeAttempt
  <2> QED
    BY <1>7, <1>8, <1>10, <2>2, <2>3 DEF Process
<1>15. Goal
  <2>1. ASSUME NEW v \in Worker, NEW j \in job[v], ItemFails(v, j)
        PROVE  FALSE
    BY <1>10, <2>1 DEF ItemFails
  <2> QED
    BY <1>9, <1>11, <1>12, <1>13, <1>14, <2>1 DEF Next
<1> QED
  BY <1>15 DEF Goal

(* A call to a provider begins only for what the reservation says at that  *)
(* instant, whatever was read before, and never for what is too old.       *)
THEOREM CallsOfTheLastChange == Spec => CallsAreCurrent
<1>1. IInv /\ [Next]_vars =>
        [\A w \in Worker : \A l \in Leg :
           (\E j \in Calls(w)' : j.leg = l) /\ ~(\E j \in Calls(w) : j.leg = l)
             => l.change = booked[l.of].changes /\ now < leg[l].expires]_vars
  <2> SUFFICES ASSUME IInv, [Next]_vars, NEW w \in Worker, NEW l \in Leg,
                      \E j \in Calls(w)' : j.leg = l, ~(\E j \in Calls(w) : j.leg = l)
               PROVE  l.change = booked[l.of].changes /\ now < leg[l].expires
    OBVIOUS
  <2>1. Calling(w, l)' /\ ~Calling(w, l)
    BY DEF Calling
  <2>2. leg[l].status = "CLAIMED" /\ ~leg[l].recalled /\ now < leg[l].expires
    BY <2>1, CallsBegin
  <2> QED
    BY <2>2 DEF IInv, OnlyCurrent, Fresh
<1> QED
  BY <1>1, SpecIInv, PTL DEF Spec, CallsAreCurrent

-----------------------------------------------------------------------------
(* Who changes an entry that waits: a sweep, a claim, whoever holds it, or *)
(* a change of the reservation.                                            *)
LEMMA WhoChanges ==
  ASSUME IInv, [Next]_vars, NEW l \in Leg, leg[l].status \in Waiting,
         leg'[l] # leg[l]
  PROVE  \/ /\ leg[l].status = "PENDING" /\ leg[l].expires <= now
            /\ leg'[l] = Ended(leg[l], "DEAD")
         \/ \E v \in Worker : /\ Lapsed(leg[l], seen[v])
                              /\ leg'[l] = Recovered(leg[l], seen[v])
         \/ leg'[l].status = "CLAIMED"
         \/ \E v \in Worker : \E j \in job[v] :
               Process(v, j) /\ j.leg = l /\ Holds(v, l)
         \/ \E r \in Reservation, s \in Strategy : HandlerStep(r, s)
<1> DEFINE Goal ==
      \/ /\ leg[l].status = "PENDING" /\ leg[l].expires <= now
         /\ leg'[l] = Ended(leg[l], "DEAD")
      \/ \E v \in Worker : /\ Lapsed(leg[l], seen[v])
                           /\ leg'[l] = Recovered(leg[l], seen[v])
      \/ leg'[l].status = "CLAIMED"
      \/ \E v \in Worker : \E j \in job[v] :
            Process(v, j) /\ j.leg = l /\ Holds(v, l)
      \/ \E r \in Reservation, s \in Strategy : HandlerStep(r, s)
<1>0. /\ TypeOK /\ Typed /\ leg \in [Leg -> Sound]
      /\ \A v \in Worker : \A j \in job[v] : j.leg \in Leg
  <2>1. TypeOK /\ Typed
    BY DEF IInv, Typed
  <2> QED
    BY <2>1, TableIsSound DEF TypeOK, Job
<1>1. ASSUME NEW r \in Reservation, Handler(r) PROVE Goal
  BY <1>0, <1>1, HandlerIsHandlerStep
<1>2. ASSUME NEW v \in Worker, ExpirePending(v) PROVE Goal
  BY <1>2 DEF ExpirePending
<1>3. ASSUME NEW v \in Worker, RecoverExpiredLeases(v) PROVE Goal
  BY <1>3 DEF RecoverExpiredLeases
<1>4. ASSUME NEW v \in Worker, FindDue(v) PROVE Goal
  BY <1>4 DEF FindDue
<1>5. ASSUME NEW v \in Worker, ClaimDue(v) PROVE Goal
  <2>1. PICK S \in SUBSET found[v] :
           leg' = [k \in Leg |->
                     IF k \in S
                       THEN [leg[k] EXCEPT !.status = "CLAIMED", !.holder = v,
                                           !.leaseEnd = seen[v] + LeaseTime]
                       ELSE leg[k]]
    BY <1>5 DEF ClaimDue
  <2>2. l \in S /\ leg[l] \in Entry
    BY <1>0, <2>1 DEF Sound
  <2>3. leg'[l].status = "CLAIMED"
    BY <2>1, <2>2 DEF Entry
  <2> QED
    BY <2>3
<1>6. ASSUME NEW v \in Worker, NEW j \in job[v], Process(v, j) PROVE Goal
  <2>1. /\ Holds(v, j.leg)
        /\ \/ \E y : leg' = [leg EXCEPT ![j.leg] = y]
           \/ \E y, t : /\ y.strategy = leg[j.leg].strategy
                        /\ leg' = DeadAndFallback(j.leg, y, t)
    <3>1. CASE StartAttempt(v, j)
      BY <3>1 DEF StartAttempt
    <3>2. CASE ConfirmProviderCall(v, j)
      BY <3>2 DEF ConfirmProviderCall
    <3>3. ASSUME NEW result, FinalizeAttempt(v, j, result)
          PROVE  /\ Holds(v, j.leg)
                 /\ \/ \E y : leg' = [leg EXCEPT ![j.leg] = y]
                    \/ \E y, t : /\ y.strategy = leg[j.leg].strategy
                                 /\ leg' = DeadAndFallback(j.leg, y, t)
      <4>1. Closed(leg[j.leg], j.n).strategy = leg[j.leg].strategy
        BY <1>0, ClosedIsEntry DEF Sound
      <4> QED
        BY <3>3, <4>1 DEF FinalizeAttempt
    <3> QED
      BY <1>6, <3>1, <3>2, <3>3 DEF Process
  <2>2. CASE j.leg = l
    BY <1>6, <2>1, <2>2
  <2>3. CASE j.leg # l
    <3>1. PICK y, t : /\ y.strategy = leg[j.leg].strategy
                      /\ leg' = DeadAndFallback(j.leg, y, t)
      BY <1>0, <2>1, <2>3
    <3>2. l = Twin(j.leg) /\ FallsBack(j.leg, y, t)
      BY <1>0, <2>3, <3>1 DEF DeadAndFallback
    <3>3. leg[Twin(j.leg)].status = "NONE"
      BY <1>0, <2>1, <3>1, <3>2
         DEF IInv, EmailWaits, FallsBack, Holds, Waiting
    <3> QED
      BY <3>2, <3>3 DEF Waiting
  <2> QED
    BY <2>2, <2>3
<1>7. ASSUME UNCHANGED leg PROVE Goal
  BY <1>7
<1>8. ASSUME NEW v \in Worker,
             \/ \E j \in job[v] : Receive(v, j) \/ ItemFails(v, j)
             \/ Crash(v)
      PROVE  Goal
  BY <1>7, <1>8 DEF Receive, ItemFails, Crash
<1>9. ASSUME Tick \/ UNCHANGED vars PROVE Goal
  BY <1>7, <1>9 DEF Tick, vars
<1> HIDE DEF Goal
<1>10. ASSUME NEW v \in Worker, Work(v) PROVE Goal
  BY <1>2, <1>3, <1>4, <1>5, <1>6, <1>10 DEF Work
<1>11. Goal
  <2>1. CASE \E r \in Reservation : Handler(r)
    BY <1>1, <2>1
  <2>2. CASE \E v \in Worker : \/ Work(v)
                               \/ \E j \in job[v] : Receive(v, j) \/ ItemFails(v, j)
                               \/ Crash(v)
    <3>1. PICK v \in Worker : \/ Work(v)
                              \/ \E j \in job[v] : Receive(v, j) \/ ItemFails(v, j)
                              \/ Crash(v)
      BY <2>2
    <3>2. CASE Work(v)
      BY <1>10, <3>2
    <3>3. CASE \/ \E j \in job[v] : Receive(v, j) \/ ItemFails(v, j)
               \/ Crash(v)
      BY <1>8, <3>3
    <3> QED
      BY <3>1, <3>2, <3>3
  <2>3. CASE Next
    <3>1. Tick => Goal
      BY <1>9
    <3> QED
      BY <2>1, <2>2, <2>3, <3>1 DEF Next
  <2>4. CASE UNCHANGED vars
    BY <1>9, <2>4
  <2> QED
    BY <2>3, <2>4
<1> QED
  BY <1>11 DEF Goal

(* The clock a batch works with is never ahead.                            *)
SeenIsPast == \A w \in Worker : seen[w] <= now

LEMMA SpecSeen == Spec => []SeenIsPast
<1>1. Init => SeenIsPast
  BY DEF Init, SeenIsPast
<1>2. TypeOK /\ SeenIsPast /\ [Next]_vars => SeenIsPast'
  <2> SUFFICES ASSUME TypeOK, SeenIsPast, [Next]_vars PROVE SeenIsPast'
    OBVIOUS
  <2>0. now \in Nat /\ seen \in [Worker -> Nat]
    BY OutboxAssumption DEF TypeOK
  <2>1. ASSUME UNCHANGED <<now, seen>> PROVE SeenIsPast'
    BY <2>1 DEF SeenIsPast
  <2>2. ASSUME NEW r \in Reservation, Handler(r) PROVE SeenIsPast'
    BY <2>1, <2>2 DEF Handler, PlanReservationCreated, PlanReservationUpdated,
                      PlanReservationCancelled, worker
  <2>3. ASSUME NEW w \in Worker,
               ExpirePending(w) \/ ClaimDue(w) \/ Crash(w)
        PROVE  SeenIsPast'
    <3>1. now' = now /\ (seen' = [seen EXCEPT ![w] = now]
                          \/ seen' = [seen EXCEPT ![w] = 0])
      BY <2>3 DEF ExpirePending, ClaimDue, Crash
    <3> QED
      BY <2>0, <3>1 DEF SeenIsPast
  <2>4. ASSUME NEW w \in Worker, RecoverExpiredLeases(w) \/ FindDue(w)
        PROVE  SeenIsPast'
    BY <2>1, <2>4 DEF RecoverExpiredLeases, FindDue
  <2>5. ASSUME NEW w \in Worker, NEW j \in job[w],
               Process(w, j) \/ Receive(w, j) \/ ItemFails(w, j)
        PROVE  SeenIsPast'
    BY <2>1, <2>5 DEF Process, StartAttempt, ConfirmProviderCall,
                      FinalizeAttempt, Receive, ItemFails
  <2>6. CASE Tick
    BY <2>0, <2>6 DEF Tick, worker, SeenIsPast
  <2>7. CASE UNCHANGED vars
    BY <2>1, <2>7 DEF vars
  <2> QED
    BY <2>2, <2>3, <2>4, <2>5, <2>6, <2>7 DEF Next, Work
<1> QED
  BY <1>1, <1>2, OutboxIsTyped, PTL DEF Spec

-----------------------------------------------------------------------------
(* An email in fallback stands for a message that is dead.                 *)
EmailStandsForDead ==
  \A l \in Leg :
     l.channel = "WHATSAPP" /\ InFallback(leg[Twin(l)])
       => leg[l].status = "DEAD"

LEMMA EmailStandsForDeadStays ==
  IInv /\ EmailStandsForDead /\ [Next]_vars => EmailStandsForDead'
<1> SUFFICES ASSUME IInv, EmailStandsForDead, [Next]_vars, NEW l \in Leg,
                    l.channel = "WHATSAPP", InFallback(leg'[Twin(l)])
             PROVE  leg'[l].status = "DEAD"
  BY DEF EmailStandsForDead
<1> DEFINE k == Twin(l)
<1>0. k \in Leg /\ k.channel = "EMAIL"
  BY TwinIsLeg
<1>1. CASE InFallback(leg[k])
  <2>1. leg[l].status = "DEAD"
    BY <1>1 DEF EmailStandsForDead
  <2>2. "DEAD" \in Terminal
    BY DEF Terminal
  <2> QED
    BY <2>1, <2>2, OverStays
<1>2. CASE ~InFallback(leg[k])
  <2>1. leg'[k] # leg[k]
    BY <1>2
  <2>2. ~(leg[k].status \in Waiting /\ leg'[k].strategy = leg[k].strategy)
    BY <1>2 DEF InFallback, Waiting
  <2>3. CASE WorkerStep
    <3>1. PICK m \in Leg : TakesThePlaceOf(k, m)
      BY <1>0, <2>1, <2>2, <2>3 DEF WorkerStep, Moves
    <3>2. m = l
      BY <3>1, TwinsDiffer DEF TakesThePlaceOf
    <3> QED
      BY <3>1, <3>2 DEF TakesThePlaceOf
  <2>4. ASSUME NEW r \in Reservation, NEW s, HandlerStep(r, s)
        PROVE  FALSE
    <3>1. PlannedByStep(r, s, k)
      BY <1>0, <2>1, <2>2, <2>4 DEF HandlerStep, SupersededByStep
    <3> QED
      BY <1>0, <3>1 DEF PlannedByStep, InFallback
  <2> QED
    BY <2>3, <2>4, NextStep DEF IInv
<1> QED
  BY <1>1, <1>2

LEMMA SpecEmailStandsForDead == Spec => []EmailStandsForDead
<1>1. Init => EmailStandsForDead
  <2> SUFFICES ASSUME Init, NEW l \in Leg
               PROVE  ~InFallback(leg[Twin(l)])
    BY DEF EmailStandsForDead
  <2>1. Twin(l) \in Leg
    BY TwinIsLeg
  <2>2. leg[Twin(l)].status = "NONE"
    BY <2>1 DEF Init, Planned
  <2> QED
    BY <2>2 DEF InFallback
<1> QED
  BY <1>1, EmailStandsForDeadStays, SpecIInv, PTL DEF Spec

(* Who kills a message in time plans its email in the same step.           *)
LEMMA DeathInTime ==
  ASSUME IInv, SeenIsPast, [Next]_vars, NEW l \in Leg, l.channel = "WHATSAPP",
         InFallback(leg[l]), now < leg[l].expires,
         leg[l].status # "DEAD", leg'[l].status = "DEAD"
  PROVE  leg'[Twin(l)].status # "NONE"
<1> DEFINE x == leg[l]
<1>0. /\ TypeOK /\ x \in Sound /\ leg \in [Leg -> Sound] /\ now \in Nat
      /\ x.expires \in Nat /\ seen \in [Worker -> Nat]
  <2>1. TypeOK
    BY DEF IInv, Typed
  <2>2. leg \in [Leg -> Sound] /\ now \in 0..Horizon /\ seen \in [Worker -> 0..Horizon]
    BY <2>1, TableIsSound
  <2>3. x \in Sound
    BY <2>2
  <2> QED
    BY <2>1, <2>2, <2>3, OutboxAssumption DEF Sound, Entry
<1>1. x.status \in Waiting /\ leg'[l] # x
  <2>1. x.status \notin Terminal
    BY OverStays
  <2> QED
    BY <1>0, <2>1 DEF Sound, Entry, Waiting, InFallback
<1>2. ASSUME NEW v \in Worker, Lapsed(x, seen[v]),
             leg'[l] = Recovered(x, seen[v])
      PROVE  FALSE
  <2>1. seen[v] \in Nat /\ seen[v] < x.expires
    BY <1>0 DEF SeenIsPast
  <2>2. \/ Recovered(x, seen[v]) = Ended(Abandoned(x), "CANCELLED")
        \/ Recovered(x, seen[v]) =
             [Ended(Abandoned(x), "PENDING") EXCEPT !.available = seen[v]]
    BY <1>0, <2>1 DEF Recovered
  <2>3. /\ Ended(Abandoned(x), "CANCELLED").status = "CANCELLED"
        /\ [Ended(Abandoned(x), "PENDING") EXCEPT !.available = seen[v]].status
             = "PENDING"
    <3>1. Abandoned(x) \in Entry /\ Len(Abandoned(x).tries) <= MaxAttempts
      BY <1>0, AbandonedIsEntry DEF Sound
    <3>2. /\ "CANCELLED" \in {"PENDING"} \cup Terminal
          /\ "PENDING" \in {"PENDING"} \cup Terminal
      BY DEF Terminal
    <3> DEFINE z == Ended(Abandoned(x), "PENDING")
    <3>3. z \in Sound /\ z.status = "PENDING"
          /\ Ended(Abandoned(x), "CANCELLED").status = "CANCELLED"
      BY <3>1, <3>2, EndedIsSound
    <3> HIDE DEF z
    <3>4. [z EXCEPT !.available = seen[v]].status = "PENDING"
      BY <3>3 DEF Sound, Entry
    <3> QED
      BY <3>3, <3>4 DEF z
  <2> QED
    BY <1>2, <2>2, <2>3
<1>3. ASSUME NEW r \in Reservation, NEW s, HandlerStep(r, s)
      PROVE  FALSE
  <2>1. l.change <= booked[l.of].changes
    BY <1>1 DEF IInv, Typed, NothingAhead, Waiting
  <2>2. booked[r].changes \in Nat /\ l.change \in Nat
    BY <1>0 DEF TypeOK, Leg
  <2>3. ~PlannedByStep(r, s, l)
    BY <2>1, <2>2 DEF PlannedByStep
  <2> QED
    BY <1>1, <1>3, <2>3 DEF HandlerStep, SupersededByStep
<1>4. ASSUME NEW y \in Entry, y.strategy = x.strategy, y.expires = x.expires,
             leg' = DeadAndFallback(l, y, now)
      PROVE  leg'[Twin(l)].status # "NONE"
  <2>1. FallsBack(l, y, now)
    BY <1>4 DEF FallsBack, InFallback
  <2> DEFINE e == Planned(y.strategy, now, y.expires, booked[l.of].email)
             dead == [leg EXCEPT ![l] = Ended(y, "DEAD")]
  <2>2. leg' = [dead EXCEPT ![Twin(l)] = e]
    BY <1>4, <2>1 DEF DeadAndFallback
  <2>3. e.status # "NONE"
    BY DEF Planned
  <2>4. dead \in [Leg -> {dead[k] : k \in Leg}] /\ Twin(l) \in Leg
    BY <1>0, TwinIsLeg
  <2> HIDE DEF e, dead
  <2> QED
    BY <2>2, <2>3, <2>4
<1>5. ASSUME NEW v \in Worker, NEW j \in job[v], Process(v, j), j.leg = l,
             Holds(v, l)
      PROVE  leg'[Twin(l)].status # "NONE"
  <2>1. x \in Entry
    BY <1>0 DEF Sound
  <2>2. CASE StartAttempt(v, j)
    <3>1. Ended(x, "CANCELLED").status # "DEAD"
      BY <2>1, EndedIsSound, <1>0 DEF Sound, Terminal
    <3>2. [leg EXCEPT ![l].tries = Append(@, "OPEN")][l].status = x.status
      BY <1>0, <2>1 DEF Entry
    <3>3. leg' = DeadAndFallback(l, x, now)
      BY <1>0, <1>1, <1>5, <2>2, <3>1, <3>2 DEF StartAttempt
    <3> QED
      BY <1>4, <2>1, <3>3
  <2>3. CASE ConfirmProviderCall(v, j)
    <3>1. leg' = [leg EXCEPT ![l] = Ended(Closed(x, j.n), "CANCELLED")]
      BY <1>0, <1>1, <1>5, <2>3 DEF ConfirmProviderCall
    <3>2. Ended(Closed(x, j.n), "CANCELLED").status # "DEAD"
      <4>1. Closed(x, j.n) \in Entry /\ Len(Closed(x, j.n).tries) <= MaxAttempts
        BY <1>0, <2>1, ClosedIsEntry DEF Sound
      <4> QED
        BY <4>1, EndedIsSound DEF Terminal
    <3> QED
      BY <1>0, <3>1, <3>2
  <2>4. ASSUME NEW result, FinalizeAttempt(v, j, result)
        PROVE  leg'[Twin(l)].status # "NONE"
    <3> DEFINE y == Closed(x, j.n)
    <3>1. /\ y \in Entry /\ Len(y.tries) <= MaxAttempts
          /\ y.strategy = x.strategy /\ y.expires = x.expires
      BY <1>0, <2>1, ClosedIsEntry DEF Sound
    <3> HIDE DEF y
    <3>2. /\ Ended(y, "SUCCEEDED").status # "DEAD"
          /\ Ended(y, "CANCELLED").status # "DEAD"
          /\ Ended(y, "PENDING") \in Sound
          /\ Ended(y, "PENDING").status = "PENDING"
      BY <3>1, EndedIsSound DEF Terminal
    <3> DEFINE z == Ended(y, "PENDING")
    <3>3. ASSUME NEW a PROVE [z EXCEPT !.available = a].status # "DEAD"
      <4> HIDE DEF z
      <4> QED
        BY <3>2 DEF z, Sound, Entry
    <3>4. leg' = DeadAndFallback(l, y, now)
      <4> HIDE DEF z
      <4>1. ASSUME NEW y1, leg' = [leg EXCEPT ![l] = y1] PROVE leg'[l] = y1
        BY <1>0, <4>1
      <4>2. \/ leg' = DeadAndFallback(l, y, now)
            \/ UNCHANGED leg
            \/ leg' = [leg EXCEPT ![l] = Ended(y, "SUCCEEDED")]
            \/ leg' = [leg EXCEPT ![l] = Ended(y, "CANCELLED")]
            \/ leg' = [leg EXCEPT ![l] =
                         [z EXCEPT !.available = now + RetryDelay[j.n]]]
        BY <1>5, <2>4 DEF FinalizeAttempt, y, z
      <4> QED
        BY <1>1, <3>2, <3>3, <4>1, <4>2
    <3> QED
      BY <1>4, <3>1, <3>4
  <2> QED
    BY <1>5, <2>2, <2>3, <2>4 DEF Process
<1> QED
  BY <1>0, <1>1, <1>2, <1>3, <1>5, WhoChanges

(* Under fallback the email of a message stands for its death and for      *)
(* nothing else, and whatever kills the message in time plans it in the    *)
(* same step (markTerminalAndFallback).                                    *)
THEOREM FallbackWithDeath == Spec => FallbackFollowsFailure
<1>1. IInv /\ EmailStandsForDead /\ SeenIsPast /\ [Next]_vars =>
        [\A l \in Leg :
           l.channel = "WHATSAPP" =>
             /\ InFallback(leg'[Twin(l)]) => leg'[l].status = "DEAD"
             /\ /\ InFallback(leg[l]) /\ now < leg[l].expires
                /\ leg[l].status # "DEAD" /\ leg'[l].status = "DEAD"
                => leg'[Twin(l)].status # "NONE"]_vars
  <2> SUFFICES ASSUME IInv, EmailStandsForDead, SeenIsPast, [Next]_vars,
                      NEW l \in Leg, l.channel = "WHATSAPP"
               PROVE  /\ InFallback(leg'[Twin(l)]) => leg'[l].status = "DEAD"
                      /\ /\ InFallback(leg[l]) /\ now < leg[l].expires
                         /\ leg[l].status # "DEAD" /\ leg'[l].status = "DEAD"
                         => leg'[Twin(l)].status # "NONE"
    OBVIOUS
  <2>1. InFallback(leg'[Twin(l)]) => leg'[l].status = "DEAD"
    BY EmailStandsForDeadStays DEF EmailStandsForDead
  <2> QED
    BY <2>1, DeathInTime
<1> QED
  BY <1>1, SpecIInv, SpecEmailStandsForDead, SpecSeen, PTL
     DEF Spec, FallbackFollowsFailure

-----------------------------------------------------------------------------
(* A worker has one thing to do about a leg.                               *)
OneJobEach ==
  \A w \in Worker : \A i, j \in job[w] : i.leg = j.leg => i = j

(* Jobs that go, or go on in the place of what they were, leave it so.     *)
LEMMA JobStepKeepsOne ==
  ASSUME TypeOK, OneJobEach, NEW v \in Worker, NEW j \in job[v], NEW n, NEW stage,
         Leaves(v, j) \/ Advances(v, j, n, stage)
  PROVE  OneJobEach'
<1> DEFINE k == [leg |-> j.leg, n |-> n, stage |-> stage]
<1>1. k.leg = j.leg
  OBVIOUS
<1> HIDE DEF k
<1>2. \/ job' = [job EXCEPT ![v] = job[v] \ {j}]
      \/ job' = [job EXCEPT ![v] = (job[v] \ {j}) \cup {k}]
  BY DEF Leaves, Advances, k
<1>3. job \in [Worker -> SUBSET Job]
  BY DEF TypeOK
<1> QED
  BY <1>1, <1>2, <1>3 DEF OneJobEach

LEMMA SpecOneJobEach == Spec => []OneJobEach
<1>1. Init => OneJobEach
  BY DEF Init, OneJobEach
<1>2. TypeOK /\ OneJobEach /\ [Next]_vars => OneJobEach'
  <2> SUFFICES ASSUME TypeOK, OneJobEach, [Next]_vars PROVE OneJobEach'
    OBVIOUS
  <2>0. job \in [Worker -> SUBSET Job]
    BY DEF TypeOK
  <2>1. ASSUME UNCHANGED job PROVE OneJobEach'
    BY <2>1 DEF OneJobEach
  <2>2. ASSUME NEW r \in Reservation, Handler(r) PROVE OneJobEach'
    BY <2>1, <2>2 DEF Handler, PlanReservationCreated, PlanReservationUpdated,
                      PlanReservationCancelled, worker
  <2>3. ASSUME NEW v \in Worker,
               ExpirePending(v) \/ RecoverExpiredLeases(v) \/ FindDue(v)
        PROVE  OneJobEach'
    BY <2>1, <2>3 DEF ExpirePending, RecoverExpiredLeases, FindDue
  <2>4. ASSUME NEW v \in Worker, ClaimDue(v) PROVE OneJobEach'
    <3>1. PICK S \in SUBSET found[v] :
            \/ job' = [job EXCEPT ![v] =
                         {[leg |-> m, n |-> 0, stage |-> "queued"] : m \in S}]
            \/ UNCHANGED job
      BY <2>4 DEF ClaimDue
    <3> DEFINE J == {[leg |-> m, n |-> 0, stage |-> "queued"] : m \in S}
    <3>2. \A i, j \in J : i.leg = j.leg => i = j
      OBVIOUS
    <3>3. job' = [job EXCEPT ![v] = J] \/ UNCHANGED job
      BY <3>1
    <3> HIDE DEF J
    <3> QED
      BY <2>0, <3>2, <3>3 DEF OneJobEach
  <2>5. ASSUME NEW v \in Worker, NEW j \in job[v],
               Process(v, j) \/ Receive(v, j) \/ ItemFails(v, j)
        PROVE  OneJobEach'
    <3>1. PICK n, stage : Leaves(v, j) \/ Advances(v, j, n, stage)
      BY <2>5 DEF Process, StartAttempt, ConfirmProviderCall, FinalizeAttempt,
                  Receive, ItemFails
    <3> QED
      BY <3>1, JobStepKeepsOne
  <2>6. ASSUME NEW v \in Worker, Crash(v) PROVE OneJobEach'
    BY <2>0, <2>6 DEF Crash, OneJobEach
  <2>7. ASSUME NEW v \in Worker, Work(v) PROVE OneJobEach'
    BY <2>3, <2>4, <2>5, <2>7 DEF Work
  <2>8. CASE Tick \/ UNCHANGED vars
    BY <2>1, <2>8 DEF Tick, worker, vars
  <2> QED
    BY <2>2, <2>5, <2>6, <2>7, <2>8 DEF Next
<1> QED
  BY <1>1, <1>2, OutboxIsTyped, PTL DEF Spec

(* A message in a call is ended only by the worker that calls, and with    *)
(* the call.                                                               *)
LEMMA CallsAreOnesOwn ==
  ASSUME IInv, SeenIsPast, OneJobEach, [Next]_vars, NEW w \in Worker, NEW l \in Leg,
         leg[l].status = "CLAIMED", leg[l].holder = w, now < leg[l].leaseEnd,
         Calling(w, l), Calling(w, l)'
  PROVE  leg'[l].status = "CLAIMED"
<1> SUFFICES ASSUME leg'[l] # leg[l] PROVE leg'[l].status = "CLAIMED"
  OBVIOUS
<1>0. /\ TypeOK /\ leg[l] \in Entry /\ job \in [Worker -> SUBSET Job]
      /\ now \in Nat /\ seen \in [Worker -> Nat]
  BY OutboxAssumption DEF IInv, Typed, TypeOK
<1>1. leg[l].status \in Waiting /\ leg[l].status # "PENDING"
  BY DEF Waiting
<1>2. ASSUME NEW v \in Worker PROVE ~Lapsed(leg[l], seen[v])
  <2>1. seen[v] <= now /\ seen[v] \in Nat /\ leg[l].leaseEnd \in Nat
    BY <1>0 DEF SeenIsPast, Entry
  <2> QED
    BY <1>0, <2>1 DEF Lapsed
<1>3. ASSUME NEW v \in Worker, NEW j \in job[v], Process(v, j), j.leg = l,
             Holds(v, l)
      PROVE  FALSE
  <2>1. v = w
    BY <1>3 DEF Holds
  <2>2. PICK i \in job[w] : i.stage \in {"calling", "accepted"} /\ i.leg = l
    BY DEF Calling, Calls
  <2>3. i = j
    BY <1>3, <2>1, <2>2 DEF OneJobEach
  <2>4. PICK result : FinalizeAttempt(v, j, result)
    BY <1>3, <2>2, <2>3 DEF Process, StartAttempt, ConfirmProviderCall
  <2>5. Leaves(v, j)
    BY <2>4 DEF FinalizeAttempt
  <2>6. job'[w] = job[w] \ {j}
    BY <1>0, <2>1, <2>5 DEF Leaves
  <2>7. PICK k \in job'[w] : k.leg = l
    BY DEF Calling, Calls
  <2> QED
    BY <1>3, <2>1, <2>6, <2>7 DEF OneJobEach
<1>4. ASSUME NEW r \in Reservation, NEW s, HandlerStep(r, s)
      PROVE  leg'[l].status = "CLAIMED"
  <2>1. l.change <= booked[l.of].changes
    BY DEF IInv, Typed, NothingAhead
  <2>2. booked[r].changes \in Nat /\ l.change \in Nat
    BY <1>0 DEF TypeOK, Leg
  <2>3. ~PlannedByStep(r, s, l)
    BY <2>1, <2>2 DEF PlannedByStep
  <2> QED
    BY <1>1, <1>4, <2>3 DEF HandlerStep, SupersededByStep
<1> QED
  BY <1>1, <1>2, <1>3, <1>4, WhoChanges

(* What a worker calls a provider about, within its lease, no late worker, *)
(* no sweep and no change of the reservation ends under its hands          *)
(* (lockClaimed, recoverExpiredLeases).                                    *)
THEOREM CallsEndWithTheirWorker == Spec => NobodyEndsAnothersCall
<1>1. IInv /\ SeenIsPast /\ OneJobEach /\ [Next]_vars =>
        [\A w \in Worker : \A l \in Leg :
           /\ leg[l].status = "CLAIMED" /\ leg[l].holder = w
           /\ now < leg[l].leaseEnd
           /\ \E j \in Calls(w) : j.leg = l
           /\ \E j \in Calls(w)' : j.leg = l
           => leg'[l].status = "CLAIMED"]_vars
  <2> SUFFICES ASSUME IInv, SeenIsPast, OneJobEach, [Next]_vars,
                      NEW w \in Worker, NEW l \in Leg,
                      leg[l].status = "CLAIMED", leg[l].holder = w,
                      now < leg[l].leaseEnd,
                      \E j \in Calls(w) : j.leg = l,
                      \E j \in Calls(w)' : j.leg = l
               PROVE  leg'[l].status = "CLAIMED"
    OBVIOUS
  <2>1. Calling(w, l) /\ Calling(w, l)'
    BY DEF Calling
  <2> QED
    BY <2>1, CallsAreOnesOwn
<1> QED
  BY <1>1, SpecIInv, SpecSeen, SpecOneJobEach, PTL
     DEF Spec, NobodyEndsAnothersCall

-----------------------------------------------------------------------------
(* One worker alone.                                                       *)
AllClosed(x) == \A n \in DOMAIN x.tries : x.tries[n] = "CLOSED"

LastOpen(x) == \A n \in DOMAIN x.tries : x.tries[n] = "OPEN" => n = Len(x.tries)

LEMMA ClosingTheLast ==
  ASSUME NEW x \in Entry, LastOpen(x)
  PROVE  AllClosed(Closed(x, Len(x.tries)))
<1> DEFINE n == Len(x.tries)
<1>1. Closed(x, n).tries = [x.tries EXCEPT ![n] = "CLOSED"]
  BY DEF Closed, Entry
<1>2. x.tries \in Seq({"OPEN", "CLOSED"})
  BY DEF Entry
<1> DEFINE t == x.tries
<1>3. /\ DOMAIN [t EXCEPT ![n] = "CLOSED"] = DOMAIN t
      /\ \A m \in DOMAIN t : [t EXCEPT ![n] = "CLOSED"][m] =
                               IF m = n THEN "CLOSED" ELSE t[m]
  OBVIOUS
<1>4. \A m \in DOMAIN t : t[m] \in {"OPEN", "CLOSED"}
  BY <1>2
<1> QED
  BY <1>1, <1>3, <1>4 DEF AllClosed, LastOpen

LEMMA AbandonedIsClosed ==
  ASSUME NEW x \in Entry, LastOpen(x)
  PROVE  AllClosed(Abandoned(x))
<1> DEFINE open == {n \in DOMAIN x.tries : x.tries[n] = "OPEN"}
<1>1. CASE open = {}
  <2>1. Abandoned(x) = x
    BY <1>1 DEF Abandoned
  <2>2. \A n \in DOMAIN x.tries : x.tries[n] \in {"OPEN", "CLOSED"}
    BY DEF Entry
  <2> QED
    BY <1>1, <2>1, <2>2 DEF AllClosed
<1>2. CASE open # {}
  <2>1. Abandoned(x) = Closed(x, Max(open))
    BY <1>2 DEF Abandoned
  <2>2. open = {Len(x.tries)} /\ Len(x.tries) \in Nat
    BY <1>2 DEF LastOpen, Entry
  <2>3. Max(open) = Len(x.tries)
    BY <2>2 DEF Max
  <2> QED
    BY <2>1, <2>3, ClosingTheLast
<1> QED
  BY <1>1, <1>2

LEMMA EndedKeepsTries ==
  ASSUME NEW x \in Entry, AllClosed(x), NEW s, NEW a
  PROVE  AllClosed(Ended(x, s)) /\ AllClosed([Ended(x, s) EXCEPT !.available = a])
<1>1. Ended(x, s).tries = x.tries
  BY DEF Ended, Entry
<1> DEFINE e == Ended(x, s)
<1>2. [e EXCEPT !.available = a].tries = e.tries
  BY DEF Ended, Entry
<1> HIDE DEF e
<1> QED
  BY <1>1, <1>2 DEF AllClosed, e

LEMMA RecoveredIsClosed ==
  ASSUME NEW x \in Entry, LastOpen(x), NEW t
  PROVE  AllClosed(Recovered(x, t))
BY AbandonedIsClosed, AbandonedIsEntry, EndedKeepsTries DEF Recovered

(* A message dies with its attempts closed, and its email has none.        *)
LEMMA DeathIsClosed ==
  ASSUME leg \in [Leg -> Sound], NEW l \in Leg, NEW y \in Entry, AllClosed(y),
         NEW t, NEW k \in Leg, DeadAndFallback(l, y, t)[k] # leg[k]
  PROVE  /\ AllClosed(DeadAndFallback(l, y, t)[k])
         /\ k # l => FallsBack(l, y, t) /\ k = Twin(l)
<1> DEFINE dead == [leg EXCEPT ![l] = Ended(y, "DEAD")]
           e == Planned(y.strategy, t, y.expires, booked[l.of].email)
<1>1. AllClosed(e)
  BY DEF AllClosed, Planned
<1>2. AllClosed(Ended(y, "DEAD"))
  BY EndedKeepsTries
<1>3. /\ dead[l] = Ended(y, "DEAD") /\ dead \in [Leg -> {dead[m] : m \in Leg}]
      /\ \A m \in Leg \ {l} : dead[m] = leg[m]
  OBVIOUS
<1>4. DeadAndFallback(l, y, t) =
        IF FallsBack(l, y, t) THEN [dead EXCEPT ![Twin(l)] = e] ELSE dead
  BY DEF DeadAndFallback
<1> HIDE DEF dead, e
<1>5. CASE FallsBack(l, y, t)
  <2>1. Twin(l) \in Leg
    BY TwinIsLeg
  <2> QED
    BY <1>1, <1>2, <1>3, <1>4, <1>5, <2>1
<1>6. CASE ~FallsBack(l, y, t)
  BY <1>2, <1>3, <1>4, <1>6
<1> QED
  BY <1>5, <1>6

-----------------------------------------------------------------------------
(* A worker sweeps and claims with nothing in its hands, what it found     *)
(* still waits when it claims it, and the attempt it works on is the last. *)
Idle ==
  \A v \in Worker : /\ phase[v] # "process" => job[v] = {}
                    /\ found[v] # {} => phase[v] = "claim"

FoundWaits ==
  \A v \in Worker : \A l \in found[v] :
     leg[l].status \in {"PENDING"} \cup Terminal

AttemptsInOrder ==
  \A l \in Leg : /\ LastOpen(leg[l])
                 /\ leg[l].status # "CLAIMED" => AllClosed(leg[l])

OnItsLastAttempt ==
  \A v \in Worker : \A j \in job[v] :
     /\ leg[j.leg].status # "NONE"
     /\ j.stage = "queued" => AllClosed(leg[j.leg])
     /\ j.stage # "queued" => j.n = Len(leg[j.leg].tries)

Alone == Idle /\ FoundWaits /\ AttemptsInOrder /\ OnItsLastAttempt

LEMMA ClosedIsLastOpen ==
  ASSUME NEW x, AllClosed(x)
  PROVE  LastOpen(x)
BY DEF AllClosed, LastOpen

(* What the worker does about one leg.                                     *)
LEMMA JobStepKeepsAlone ==
  ASSUME NEW w, Worker = {w}, TypeOK, OneJobEach, Alone,
         UNCHANGED <<phase, found>>,
         NEW j \in job[w], NEW n, NEW stage,
         \/ Leaves(w, j)
         \/ /\ Advances(w, j, n, stage) /\ stage # "queued"
            /\ n = Len(leg'[j.leg].tries),
         leg'[j.leg].status # "NONE", LastOpen(leg'[j.leg]),
         leg'[j.leg].status # "CLAIMED" => AllClosed(leg'[j.leg]),
         \A k \in Leg \ {j.leg} :
            leg'[k] = leg[k] \/ (leg[k].status = "NONE" /\ AllClosed(leg'[k]))
  PROVE  Alone'
<1> DEFINE i == [leg |-> j.leg, n |-> n, stage |-> stage]
<1>1. i.leg = j.leg /\ i.n = n /\ i.stage = stage
  OBVIOUS
<1> HIDE DEF i
<1>2. /\ job \in [Worker -> SUBSET Job]
      /\ \A k \in job[w] : k.leg \in Leg
  BY DEF TypeOK, Job
<1>3. \/ job' = [job EXCEPT ![w] = job[w] \ {j}]
      \/ /\ job' = [job EXCEPT ![w] = (job[w] \ {j}) \cup {i}]
         /\ stage # "queued" /\ n = Len(leg'[j.leg].tries)
  BY DEF Leaves, Advances, i
<1>4. phase[w] = "process" /\ found[w] = {}
  BY DEF Alone, Idle
<1>5. Idle'
  BY <1>4 DEF Idle
<1>6. FoundWaits'
  BY <1>4 DEF FoundWaits
<1>7. AttemptsInOrder'
  <2> SUFFICES ASSUME NEW l \in Leg
               PROVE  /\ LastOpen(leg'[l])
                      /\ leg'[l].status # "CLAIMED" => AllClosed(leg'[l])
    BY DEF AttemptsInOrder
  <2>1. LastOpen(leg[l]) /\ (leg[l].status # "CLAIMED" => AllClosed(leg[l]))
    BY DEF Alone, AttemptsInOrder
  <2> QED
    BY <2>1, ClosedIsLastOpen
<1>8. OnItsLastAttempt'
  <2> SUFFICES ASSUME NEW k \in job'[w]
               PROVE  /\ leg'[k.leg].status # "NONE"
                      /\ k.stage = "queued" => AllClosed(leg'[k.leg])
                      /\ k.stage # "queued" => k.n = Len(leg'[k.leg].tries)
    BY DEF OnItsLastAttempt
  <2>1. CASE k \in job[w] /\ k # j
    <3>1. /\ leg[k.leg].status # "NONE"
          /\ k.stage = "queued" => AllClosed(leg[k.leg])
          /\ k.stage # "queued" => k.n = Len(leg[k.leg].tries)
      BY <2>1 DEF Alone, OnItsLastAttempt
    <3>2. k.leg \in Leg /\ k.leg # j.leg
      BY <1>2, <2>1 DEF OneJobEach
    <3> QED
      BY <3>1, <3>2
  <2>2. CASE ~(k \in job[w] /\ k # j)
    <3>1. /\ k = i /\ stage # "queued" /\ n = Len(leg'[j.leg].tries)
      BY <1>2, <1>3, <2>2
    <3> QED
      BY <1>1, <3>1
  <2> QED
    BY <2>1, <2>2
<1> QED
  BY <1>5, <1>6, <1>7, <1>8 DEF Alone

LEMMA HandlerKeepsAlone ==
  ASSUME IInv, Alone, NEW r \in Reservation, NEW s, HandlerStep(r, s)
  PROVE  Alone'
<1>1. UNCHANGED <<phase, found, job>>
  BY DEF HandlerStep, worker
<1>2. TypeOK /\ (\A v \in Worker : \A j \in job[v] : j.leg \in Leg)
  BY DEF IInv, Typed, TypeOK, Job
<1>3. ASSUME NEW l \in Leg
      PROVE  \/ /\ leg[l].status = "NONE" /\ leg'[l].status \in {"PENDING", "DEAD"}
                /\ leg'[l].tries = << >>
             \/ /\ leg'[l].tries = leg[l].tries
                /\ leg'[l].status = "NONE" <=> leg[l].status = "NONE"
                /\ leg'[l].status = "CLAIMED" <=> leg[l].status = "CLAIMED"
                /\ leg[l].status \in {"PENDING"} \cup Terminal =>
                     leg'[l].status \in {"PENDING"} \cup Terminal
  <2>1. PlannedByStep(r, s, l) => leg[l].status = "NONE"
    <3>1. booked[r].changes \in Nat /\ l.change \in Nat
      BY <1>2 DEF TypeOK, Leg
    <3> QED
      BY <3>1 DEF PlannedByStep, IInv, Typed, NothingAhead
  <2>2. PlannedByStep(r, s, l) \/ SupersededByStep(r, l)
    BY DEF HandlerStep
  <2> QED
    BY <2>1, <2>2 DEF PlannedByStep, SupersededByStep, Waiting, Terminal
<1>4. Idle'
  BY <1>1 DEF Alone, Idle
<1>5. FoundWaits'
  <2> SUFFICES ASSUME NEW v \in Worker, NEW l \in found[v]
               PROVE  leg'[l].status \in {"PENDING"} \cup Terminal
    BY <1>1 DEF FoundWaits
  <2>1. l \in Leg /\ leg[l].status \in {"PENDING"} \cup Terminal
    BY <1>2 DEF TypeOK, Alone, FoundWaits
  <2> QED
    BY <1>3, <2>1 DEF Terminal
<1>6. AttemptsInOrder'
  <2> SUFFICES ASSUME NEW l \in Leg
               PROVE  /\ LastOpen(leg'[l])
                      /\ leg'[l].status # "CLAIMED" => AllClosed(leg'[l])
    BY DEF AttemptsInOrder
  <2>1. LastOpen(leg[l]) /\ (leg[l].status # "CLAIMED" => AllClosed(leg[l]))
    BY DEF Alone, AttemptsInOrder
  <2> QED
    BY <1>3, <2>1 DEF LastOpen, AllClosed
<1>7. OnItsLastAttempt'
  <2> SUFFICES ASSUME NEW v \in Worker, NEW j \in job[v]
               PROVE  /\ leg'[j.leg].status # "NONE"
                      /\ j.stage = "queued" => AllClosed(leg'[j.leg])
                      /\ j.stage # "queued" => j.n = Len(leg'[j.leg].tries)
    BY <1>1 DEF OnItsLastAttempt
  <2>1. /\ leg[j.leg].status # "NONE"
        /\ j.stage = "queued" => AllClosed(leg[j.leg])
        /\ j.stage # "queued" => j.n = Len(leg[j.leg].tries)
    BY DEF Alone, OnItsLastAttempt
  <2> QED
    BY <1>2, <1>3, <2>1 DEF AllClosed
<1> QED
  BY <1>4, <1>5, <1>6, <1>7 DEF Alone

(* A sweep, with nothing in hands: what it changes has its attempts closed.*)
LEMMA SweepKeepsAlone ==
  ASSUME NEW w, Worker = {w}, TypeOK, Alone, UNCHANGED job, job[w] = {},
         phase'[w] # "claim" => found'[w] = {},
         \A l \in Leg : leg'[l] = leg[l] \/ AllClosed(leg'[l]),
         \A l \in found'[w] : leg'[l].status \in {"PENDING"} \cup Terminal
  PROVE  Alone'
<1>1. Idle' /\ FoundWaits' /\ OnItsLastAttempt'
  BY DEF Idle, FoundWaits, OnItsLastAttempt
<1>2. AttemptsInOrder'
  <2> SUFFICES ASSUME NEW l \in Leg
               PROVE  /\ LastOpen(leg'[l])
                      /\ leg'[l].status # "CLAIMED" => AllClosed(leg'[l])
    BY DEF AttemptsInOrder
  <2>1. LastOpen(leg[l]) /\ (leg[l].status # "CLAIMED" => AllClosed(leg[l]))
    BY DEF Alone, AttemptsInOrder
  <2> QED
    BY <2>1, ClosedIsLastOpen
<1> QED
  BY <1>1, <1>2 DEF Alone

LEMMA SweepsKeepAlone ==
  ASSUME NEW w, Worker = {w}, TypeOK, Alone,
         ExpirePending(w) \/ RecoverExpiredLeases(w) \/ FindDue(w)
  PROVE  Alone'
<1>0. /\ leg \in [Leg -> Entry] /\ phase \in [Worker -> {"recover", "find", "claim", "process"}]
      /\ found \in [Worker -> SUBSET Leg]
  BY DEF TypeOK
<1>1. \A l \in Leg : LastOpen(leg[l]) /\ (leg[l].status # "CLAIMED" => AllClosed(leg[l]))
  BY DEF Alone, AttemptsInOrder
<1>2. CASE ExpirePending(w)
  <2>1. job[w] = {} /\ UNCHANGED job /\ found'[w] = {}
    BY <1>2 DEF ExpirePending, Alone, Idle
  <2>2. \A l \in Leg : leg'[l] = leg[l] \/ AllClosed(leg'[l])
    <3>1. ASSUME NEW l \in Leg, leg[l].status = "PENDING"
          PROVE  AllClosed(Ended(leg[l], "DEAD"))
      BY <1>0, <1>1, <3>1, EndedKeepsTries
    <3> QED
      BY <1>2, <3>1 DEF ExpirePending
  <2> QED
    BY <2>1, <2>2, SweepKeepsAlone
<1>3. CASE RecoverExpiredLeases(w)
  <2>1. job[w] = {} /\ UNCHANGED job /\ found'[w] = {}
    BY <1>3 DEF RecoverExpiredLeases, Alone, Idle
  <2>2. \A l \in Leg : leg'[l] = leg[l] \/ AllClosed(leg'[l])
    <3>1. ASSUME NEW l \in Leg
          PROVE  AllClosed(Recovered(leg[l], seen[w]))
      BY <1>0, <1>1, RecoveredIsClosed
    <3> QED
      BY <1>3, <3>1 DEF RecoverExpiredLeases
  <2> QED
    BY <2>1, <2>2, SweepKeepsAlone
<1>4. CASE FindDue(w)
  <2>1. /\ job[w] = {} /\ UNCHANGED job /\ phase'[w] = "claim" /\ UNCHANGED leg
        /\ found'[w] = Claimable(seen[w])
    BY <1>0, <1>4 DEF FindDue, Alone, Idle
  <2>2. \A l \in found'[w] : leg'[l].status \in {"PENDING"} \cup Terminal
    BY <2>1 DEF Claimable
  <2> QED
    BY <2>1, <2>2, SweepKeepsAlone
<1> QED
  BY <1>2, <1>3, <1>4

LEMMA ClaimKeepsAlone ==
  ASSUME NEW w, Worker = {w}, TypeOK, Alone, ClaimDue(w)
  PROVE  Alone'
<1>0. /\ leg \in [Leg -> Entry] /\ phase \in [Worker -> {"recover", "find", "claim", "process"}]
      /\ found \in [Worker -> SUBSET Leg] /\ job \in [Worker -> SUBSET Job]
  BY DEF TypeOK
<1>1. \A l \in Leg : LastOpen(leg[l]) /\ (leg[l].status # "CLAIMED" => AllClosed(leg[l]))
  BY DEF Alone, AttemptsInOrder
<1>2. job[w] = {} /\ found'[w] = {} /\ phase'[w] = "process"
  BY <1>0 DEF ClaimDue, Alone, Idle
<1>3. CASE UNCHANGED <<leg, job>>
  BY <1>2, <1>3, SweepKeepsAlone
<1>4. CASE ~UNCHANGED <<leg, job>>
  <2> DEFINE C(l) == [leg[l] EXCEPT !.status = "CLAIMED", !.holder = w,
                                    !.leaseEnd = seen[w] + LeaseTime]
             Q(S) == {[leg |-> l, n |-> 0, stage |-> "queued"] : l \in S}
  <2>1. PICK S \in SUBSET found[w] :
           /\ \A l \in S : leg[l].status \notin Terminal
           /\ leg' = [l \in Leg |-> IF l \in S THEN C(l) ELSE leg[l]]
           /\ job' = [job EXCEPT ![w] = Q(S)]
    BY <1>4 DEF ClaimDue
  <2>2. ASSUME NEW l \in S
        PROVE  /\ l \in Leg /\ AllClosed(C(l)) /\ C(l).status = "CLAIMED"
    <3>1. l \in Leg /\ leg[l] \in Entry
      BY <1>0
    <3>2. leg[l].status = "PENDING"
      BY <2>1 DEF Alone, FoundWaits
    <3>3. AllClosed(leg[l])
      BY <1>1, <3>1, <3>2
    <3>4. C(l).tries = leg[l].tries /\ C(l).status = "CLAIMED"
      BY <3>1 DEF Entry
    <3> HIDE DEF C
    <3> QED
      BY <3>1, <3>3, <3>4 DEF AllClosed
  <2>3. job'[w] = Q(S)
    BY <1>0, <2>1
  <2>4. ASSUME NEW k \in Q(S)
        PROVE  k.leg \in S /\ k.stage = "queued"
    BY <2>4
  <2> HIDE DEF C, Q
  <2>5. Idle' /\ FoundWaits'
    BY <1>2 DEF Idle, FoundWaits
  <2>6. AttemptsInOrder'
    <3> SUFFICES ASSUME NEW l \in Leg
                 PROVE  /\ LastOpen(leg'[l])
                        /\ leg'[l].status # "CLAIMED" => AllClosed(leg'[l])
      BY DEF AttemptsInOrder
    <3>1. CASE l \in S
      BY <2>1, <2>2, <3>1, ClosedIsLastOpen
    <3>2. CASE l \notin S
      BY <1>1, <2>1, <3>2
    <3> QED
      BY <3>1, <3>2
  <2>7. OnItsLastAttempt'
    <3> SUFFICES ASSUME NEW k \in job'[w]
                 PROVE  /\ leg'[k.leg].status # "NONE"
                        /\ k.stage = "queued" => AllClosed(leg'[k.leg])
                        /\ k.stage # "queued" => k.n = Len(leg'[k.leg].tries)
      BY DEF OnItsLastAttempt
    <3>1. k.leg \in S /\ k.stage = "queued"
      BY <2>3, <2>4
    <3>2. leg'[k.leg] = C(k.leg)
      BY <2>1, <2>2, <3>1
    <3> QED
      BY <2>2, <3>1, <3>2
  <2> QED
    BY <2>5, <2>6, <2>7 DEF Alone
<1> QED
  BY <1>3, <1>4

LEMMA OpeningTheNext ==
  ASSUME NEW x \in Entry, AllClosed(x)
  PROVE  /\ LastOpen([x EXCEPT !.tries = Append(@, "OPEN")])
         /\ [x EXCEPT !.tries = Append(@, "OPEN")].status = x.status
         /\ Len([x EXCEPT !.tries = Append(@, "OPEN")].tries) = Len(x.tries) + 1
<1> DEFINE t == x.tries
<1>1. /\ [x EXCEPT !.tries = Append(@, "OPEN")].tries = Append(t, "OPEN")
      /\ [x EXCEPT !.tries = Append(@, "OPEN")].status = x.status
      /\ t \in Seq({"OPEN", "CLOSED"})
  BY DEF Entry
<1>2. \A n \in DOMAIN t : t[n] = "CLOSED"
  BY DEF AllClosed
<1> HIDE DEF t
<1>3. /\ Len(Append(t, "OPEN")) = Len(t) + 1
      /\ DOMAIN Append(t, "OPEN") = 1..(Len(t) + 1)
      /\ \A n \in 1..Len(t) : Append(t, "OPEN")[n] = "CLOSED"
  BY <1>1, <1>2
<1> QED
  BY <1>1, <1>3 DEF LastOpen, t

LEMMA ProcessKeepsAlone ==
  ASSUME NEW w, Worker = {w}, IInv, OneJobEach, Alone, NEW j \in job[w],
         Process(w, j)
  PROVE  Alone'
<1> DEFINE l == j.leg
           x == leg[l]
           Ok(n, stage) == \/ Leaves(w, j)
                           \/ /\ Advances(w, j, n, stage) /\ stage # "queued"
                              /\ n = Len(leg'[j.leg].tries)
<1>0. /\ TypeOK /\ leg \in [Leg -> Sound] /\ l \in Leg /\ x \in Sound /\ x \in Entry
      /\ x.status # "NONE" /\ LastOpen(x) /\ now \in Nat
      /\ x.status # "CLAIMED" => AllClosed(x)
      /\ j.stage = "queued" => AllClosed(x)
      /\ j.stage # "queued" => j.n = Len(x.tries)
  <2>1. TypeOK
    BY DEF IInv, Typed
  <2>2. leg \in [Leg -> Sound] /\ now \in 0..Horizon /\ j \in Job
    BY <2>1, TableIsSound
  <2>3. l \in Leg
    BY <2>2 DEF Job
  <2>4. x \in Sound /\ x \in Entry /\ now \in Nat
    BY <2>2, <2>3, OutboxAssumption DEF Sound
  <2> QED
    BY <2>1, <2>2, <2>3, <2>4 DEF Alone, AttemptsInOrder, OnItsLastAttempt
<1> HIDE DEF l
<1>1. UNCHANGED <<phase, found>>
  BY DEF Process, StartAttempt, ConfirmProviderCall, FinalizeAttempt
<1>2. ASSUME NEW n, NEW stage, Ok(n, stage), UNCHANGED leg
      PROVE  Alone'
  <2>1. leg'[j.leg] = x
    BY <1>2 DEF l
  <2> QED
    BY <1>0, <1>1, <1>2, <2>1, JobStepKeepsAlone
<1>3. ASSUME NEW n, NEW stage, NEW y, leg' = [leg EXCEPT ![l] = y], Ok(n, stage),
             y.status # "NONE", LastOpen(y), y.status # "CLAIMED" => AllClosed(y)
      PROVE  Alone'
  <2>1. leg'[j.leg] = y /\ \A k \in Leg \ {j.leg} : leg'[k] = leg[k]
    BY <1>0, <1>3 DEF l
  <2>2. /\ leg'[j.leg].status # "NONE" /\ LastOpen(leg'[j.leg])
        /\ leg'[j.leg].status # "CLAIMED" => AllClosed(leg'[j.leg])
    BY <1>3, <2>1
  <2>3. \A k \in Leg \ {j.leg} :
           leg'[k] = leg[k] \/ (leg[k].status = "NONE" /\ AllClosed(leg'[k]))
    BY <2>1
  <2> QED
    BY <1>0, <1>1, <1>3, <2>2, <2>3, JobStepKeepsAlone
<1>4. ASSUME NEW y \in Entry, AllClosed(y), Len(y.tries) <= MaxAttempts,
             y.strategy = x.strategy, Holds(w, l),
             leg' = DeadAndFallback(l, y, now), Leaves(w, j)
      PROVE  Alone'
  <2>1. leg'[l].status = "DEAD"
    BY <1>0, <1>4, DeathLeavesAnEmail
  <2>2. ASSUME NEW k \in Leg, leg'[k] # leg[k]
        PROVE  AllClosed(leg'[k]) /\ (k # l => FallsBack(l, y, now) /\ k = Twin(l))
    BY <1>0, <1>4, <2>2, DeathIsClosed
  <2>3. ASSUME FallsBack(l, y, now)
        PROVE  leg[Twin(l)].status = "NONE"
    BY <1>0, <1>4, <2>3 DEF IInv, EmailWaits, FallsBack, Holds, Waiting
  <2>4. leg'[l] # leg[l]
    BY <1>4, <2>1 DEF Holds
  <2>5. /\ leg'[j.leg].status # "NONE" /\ LastOpen(leg'[j.leg])
        /\ AllClosed(leg'[j.leg])
    BY <1>0, <2>1, <2>2, <2>4, ClosedIsLastOpen DEF l
  <2>6. \A k \in Leg \ {j.leg} :
           leg'[k] = leg[k] \/ (leg[k].status = "NONE" /\ AllClosed(leg'[k]))
    BY <2>2, <2>3 DEF l
  <2> QED
    BY <1>0, <1>1, <1>4, <2>5, <2>6, JobStepKeepsAlone
<1>5. ASSUME NEW y \in Entry, AllClosed(y), Len(y.tries) <= MaxAttempts,
             NEW s \in {"PENDING"} \cup Terminal
      PROVE  /\ Ended(y, s).status # "NONE" /\ LastOpen(Ended(y, s))
             /\ AllClosed(Ended(y, s))
  BY <1>5, EndedIsSound, EndedKeepsTries, ClosedIsLastOpen DEF Terminal
<1>6. {"SUCCEEDED", "DEAD", "CANCELLED"} \subseteq {"PENDING"} \cup Terminal
  BY DEF Terminal
<1>7. CASE StartAttempt(w, j)
  <2>1. j.stage = "queued" /\ AllClosed(x) /\ Len(x.tries) <= MaxAttempts
    BY <1>0, <1>7 DEF StartAttempt, Sound
  <2>2. CASE Leaves(w, j) /\ UNCHANGED leg
    BY <1>2, <2>2
  <2>3. CASE leg' = [leg EXCEPT ![l] = Ended(x, "CANCELLED")] /\ Leaves(w, j)
    <3>1. /\ Ended(x, "CANCELLED").status # "NONE"
          /\ LastOpen(Ended(x, "CANCELLED")) /\ AllClosed(Ended(x, "CANCELLED"))
      BY <1>0, <1>5, <1>6, <2>1
    <3> QED
      BY <1>3, <2>3, <3>1
  <2>4. CASE leg' = DeadAndFallback(l, x, now) /\ Leaves(w, j) /\ Holds(w, l)
    BY <1>0, <1>4, <2>1, <2>4
  <2>5. CASE /\ leg' = [leg EXCEPT ![l].tries = Append(@, "OPEN")]
             /\ Advances(w, j, Len(x.tries) + 1, "opened") /\ Holds(w, l)
    <3> DEFINE y == [x EXCEPT !.tries = Append(@, "OPEN")]
    <3>1. /\ LastOpen(y) /\ y.status = x.status
          /\ Len(y.tries) = Len(x.tries) + 1
      BY <1>0, <2>1, OpeningTheNext
    <3>2. leg' = [leg EXCEPT ![l] = y]
      BY <2>5
    <3> HIDE DEF y
    <3>3. leg'[j.leg] = y
      BY <1>0, <3>2 DEF l
    <3>4. Ok(Len(x.tries) + 1, "opened")
      BY <2>5, <3>1, <3>3
    <3> QED
      BY <1>0, <1>3, <2>5, <3>1, <3>2, <3>4 DEF Holds
  <2> QED
    BY <1>7, <2>2, <2>3, <2>4, <2>5 DEF StartAttempt, l
<1> DEFINE y == Closed(x, j.n)
<1>8. /\ y \in Entry /\ Len(y.tries) <= MaxAttempts /\ y.strategy = x.strategy
      /\ j.stage # "queued" => AllClosed(y)
  BY <1>0, ClosedIsEntry, ClosingTheLast DEF Sound
<1> HIDE DEF y
<1>9. ASSUME NEW s \in {"SUCCEEDED", "DEAD", "CANCELLED"}, j.stage # "queued",
             leg' = [leg EXCEPT ![l] = Ended(y, s)], Leaves(w, j)
      PROVE  Alone'
  <2>1. /\ Ended(y, s).status # "NONE" /\ LastOpen(Ended(y, s))
        /\ AllClosed(Ended(y, s))
    BY <1>5, <1>6, <1>8, <1>9
  <2> QED
    BY <1>3, <1>9, <2>1
<1>10. CASE ConfirmProviderCall(w, j)
  <2>1. j.stage # "queued"
    BY <1>10 DEF ConfirmProviderCall
  <2>2. \/ Leaves(w, j) /\ UNCHANGED leg
        \/ /\ \/ leg' = [leg EXCEPT ![l] = Ended(y, "DEAD")]
              \/ leg' = [leg EXCEPT ![l] = Ended(y, "CANCELLED")]
           /\ Leaves(w, j)
        \/ Advances(w, j, j.n, "calling") /\ UNCHANGED leg
    BY <1>10 DEF ConfirmProviderCall, l, y
  <2>3. Advances(w, j, j.n, "calling") /\ UNCHANGED leg => Ok(j.n, "calling")
    BY <1>0, <2>1 DEF l
  <2> QED
    BY <1>2, <1>9, <2>1, <2>2, <2>3
<1>11. ASSUME NEW result, FinalizeAttempt(w, j, result)
       PROVE  Alone'
  <2>1. j.stage # "queued" /\ Leaves(w, j)
    BY <1>11 DEF FinalizeAttempt, Answers
  <2> DEFINE z == [Ended(y, "PENDING") EXCEPT !.available = now + RetryDelay[j.n]]
  <2>2. \/ UNCHANGED leg
        \/ leg' = [leg EXCEPT ![l] = Ended(y, "SUCCEEDED")]
        \/ leg' = [leg EXCEPT ![l] = Ended(y, "CANCELLED")]
        \/ leg' = [leg EXCEPT ![l] = z]
        \/ leg' = DeadAndFallback(l, y, now) /\ Holds(w, l)
    BY <1>11 DEF FinalizeAttempt, l, y
  <2>3. CASE leg' = [leg EXCEPT ![l] = z]
    <3>1. AllClosed(z) /\ LastOpen(z)
      BY <1>8, <2>1, EndedKeepsTries, ClosedIsLastOpen
    <3>2. z.status = "PENDING"
      <4> DEFINE e == Ended(y, "PENDING")
      <4>1. e \in Sound /\ e.status = "PENDING"
        BY <1>8, EndedIsSound
      <4> HIDE DEF e
      <4>2. [e EXCEPT !.available = now + RetryDelay[j.n]].status = e.status
        BY <4>1 DEF Sound, Entry
      <4> QED
        BY <4>1, <4>2 DEF e
    <3> HIDE DEF z
    <3> QED
      BY <1>3, <2>1, <2>3, <3>1, <3>2
  <2>4. CASE leg' = DeadAndFallback(l, y, now) /\ Holds(w, l)
    BY <1>4, <1>8, <2>1, <2>4
  <2> HIDE DEF z
  <2> QED
    BY <1>2, <1>9, <2>1, <2>2, <2>3, <2>4
<1> QED
  BY <1>7, <1>10, <1>11 DEF Process

LEMMA NextKeepsAlone ==
  ASSUME NEW w, Worker = {w}, IInv, OneJobEach, Alone, [Next]_vars
  PROVE  Alone'
<1>0. TypeOK /\ Typed
  BY DEF IInv, Typed
<1>1. ASSUME NEW r \in Reservation, Handler(r) PROVE Alone'
  <2>1. PICK s \in Strategy : HandlerStep(r, s)
    BY <1>0, <1>1, HandlerIsHandlerStep
  <2> QED
    BY <2>1, HandlerKeepsAlone
<1>2. ASSUME Work(w) PROVE Alone'
  BY <1>0, <1>2, SweepsKeepAlone, ClaimKeepsAlone, ProcessKeepsAlone DEF Work
<1>3. ASSUME NEW j \in job[w], Receive(w, j) \/ ItemFails(w, j) PROVE Alone'
  <2>1. UNCHANGED <<phase, found>> /\ UNCHANGED leg
    BY <1>3 DEF Receive, ItemFails
  <2>2. /\ j.leg \in Leg /\ leg[j.leg].status # "NONE" /\ LastOpen(leg[j.leg])
        /\ leg[j.leg].status # "CLAIMED" => AllClosed(leg[j.leg])
        /\ j.stage # "queued" => j.n = Len(leg[j.leg].tries)
    BY <1>0 DEF TypeOK, Job, Alone, AttemptsInOrder, OnItsLastAttempt
  <2>3. \/ Leaves(w, j)
        \/ Advances(w, j, j.n, "accepted") /\ j.n = Len(leg'[j.leg].tries)
    BY <1>3, <2>1, <2>2 DEF Receive, ItemFails
  <2> QED
    BY <1>0, <2>1, <2>2, <2>3, JobStepKeepsAlone
<1>4. ASSUME Crash(w) PROVE Alone'
  <2>1. job'[w] = {} /\ found'[w] = {} /\ phase'[w] = "process" /\ leg' = leg
    BY <1>0, <1>4 DEF Crash, TypeOK
  <2> QED
    BY <2>1 DEF Alone, Idle, FoundWaits, AttemptsInOrder, OnItsLastAttempt
<1>5. ASSUME UNCHANGED <<leg, phase, found, job>> PROVE Alone'
  BY <1>5 DEF Alone, Idle, FoundWaits, AttemptsInOrder, OnItsLastAttempt
<1>6. ASSUME Tick \/ UNCHANGED vars PROVE Alone'
  BY <1>5, <1>6 DEF Tick, worker, vars
<1> QED
  BY <1>1, <1>2, <1>3, <1>4, <1>6 DEF Next

(* One worker alone never leaves two attempts of a leg open, nor one of a  *)
(* leg that is not claimed, however often it dies over it.                 *)
THEOREM OneAttemptAtATime ==
  ASSUME NEW w, Worker = {w}
  PROVE  Spec => []OneAttemptOpen
<1>1. Init => Alone
  <2> SUFFICES ASSUME Init PROVE Alone
    OBVIOUS
  <2>1. ASSUME NEW l \in Leg PROVE AllClosed(leg[l])
    <3> DEFINE s == CHOOSE s \in Strategy : TRUE
               p == Planned(s, 0, 0, TRUE)
    <3>1. leg[l] = [p EXCEPT !.status = "NONE"]
      BY DEF Init
    <3>2. p.tries = << >> /\ [p EXCEPT !.status = "NONE"].tries = p.tries
      BY DEF Planned
    <3> HIDE DEF p
    <3> QED
      BY <3>1, <3>2 DEF AllClosed
  <2> QED
    BY <2>1, ClosedIsLastOpen
       DEF Init, Alone, Idle, FoundWaits, AttemptsInOrder, OnItsLastAttempt
<1>2. IInv /\ OneJobEach /\ Alone /\ [Next]_vars => Alone'
  BY NextKeepsAlone
<1>3. IInv /\ Alone => OneAttemptOpen
  <2> SUFFICES ASSUME IInv, Alone, NEW l \in Leg, NEW n \in DOMAIN leg[l].tries,
                      leg[l].tries[n] = "OPEN"
               PROVE  n = Len(leg[l].tries) /\ leg[l].status = "CLAIMED"
    BY DEF OneAttemptOpen
  <2> QED
    BY DEF Alone, AttemptsInOrder, LastOpen, AllClosed
<1> QED
  BY <1>1, <1>2, <1>3, SpecIInv, SpecOneJobEach, PTL DEF Spec
=============================================================================
