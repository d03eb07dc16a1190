-------------------------- MODULE NotificationOutbox --------------------------
(***************************************************************************)
(* The outbox between the reservation handlers, which plan messages in the *)
(* transaction of the change they announce, and the worker processes that  *)
(* send them: notification_outbox (leg), notification_attempts (tries, in  *)
(* the leg), and in the memory of each worker the batch it works on        *)
(* (phase, seen, found, job).  Payload, destination and the reasons of     *)
(* failures are left out; so are receipts, one per leg by their key.       *)
(*                                                                         *)
(* Every method of the worker's repository is one short transaction and    *)
(* one action here, but for the claim, which looks for legs on a snapshot  *)
(* and locks them after; between two steps time passes, other workers run, *)
(* handlers ask back what is no longer true, and the worker may die.       *)
(***************************************************************************)
EXTENDS Naturals, FiniteSets, Sequences, FiniteSetsExt

CONSTANTS
  Reservation,
  Worker, NoWorker,
  Strategy,        \* the strategies an administrator may set
  Start,           \* instants a reservation may be booked for
  Email,           \* whether a guest may leave an address
  Life,            \* how long an announcement is worth sending
  ReminderLead,    \* how long before the arrival a reminder goes out
  LeaseTime,       \* how long a worker may keep a leg
  MaxAttempts,     \* provider calls a leg is given
  RetryDelay,      \* wait after each failed attempt but the last
  BatchSize, Concurrency,
  MaxChange,       \* bound: announced changes of a reservation
  Horizon          \* bound: last instant of the clock

ASSUME OutboxAssumption ==
  /\ NoWorker \notin Worker
  /\ Strategy # {} /\ Start # {}
  /\ Strategy \subseteq {"WHATSAPP_ONLY", "WHATSAPP_WITH_EMAIL_FALLBACK",
                         "WHATSAPP_AND_EMAIL_PARALLEL"}
  /\ Start \subseteq Nat
  /\ Email \subseteq BOOLEAN
  /\ {Life, ReminderLead, LeaseTime, MaxAttempts} \subseteq Nat \ {0}
  /\ RetryDelay \in [1..(MaxAttempts - 1) -> Nat \ {0}]
  /\ {BatchSize, Concurrency} \subseteq Nat \ {0}
  /\ {MaxChange, Horizon} \subseteq Nat

VARIABLES now, booked, leg, phase, seen, found, job

vars == <<now, booked, leg, phase, seen, found, job>>

worker == <<phase, seen, found, job>>

(* One message: the change of a reservation it is about, announced now or  *)
(* reminded of later, on one channel.  No change plans one twice.          *)
Leg == [of : Reservation, change : 1..MaxChange,
        event : {"ANNOUNCEMENT", "REMINDER"}, channel : {"WHATSAPP", "EMAIL"}]

Terminal == {"SUCCEEDED", "DEAD", "CANCELLED"}

Entry == [status : {"NONE", "PENDING", "CLAIMED"} \cup Terminal,
          strategy : Strategy, available : Nat, expires : Nat,
          recalled : BOOLEAN, holder : Worker \cup {NoWorker},
          leaseEnd : Nat, tries : Seq({"OPEN", "CLOSED"})]

(* What a worker does about a leg it claimed, in its n-th attempt.         *)
Job == [leg : Leg, n : 0..MaxAttempts,
        stage : {"queued", "opened", "calling", "accepted"}]

(* Everything has the shape its table or its program gives it; a lease has *)
(* a holder exactly while the leg is claimed, and no leg gets more         *)
(* attempts than the policy gives.                                         *)
TypeOK ==
  /\ now \in 0..Horizon
  /\ booked \in [Reservation -> [changes : 0..MaxChange, gone : BOOLEAN,
                                 start : Start, email : BOOLEAN]]
  /\ leg \in [Leg -> Entry]
  /\ \A l \in Leg :
       /\ leg[l].status = "CLAIMED" <=> leg[l].holder # NoWorker
       /\ Len(leg[l].tries) <= MaxAttempts
  /\ phase \in [Worker -> {"recover", "find", "claim", "process"}]
  /\ seen \in [Worker -> 0..Horizon]
  /\ found \in [Worker -> SUBSET Leg]
  /\ job \in [Worker -> SUBSET Job]

-----------------------------------------------------------------------------
(* Planning: what a reservation handler does to the outbox.                *)

Planned(s, available, expires, destination) ==
  [status |-> IF destination THEN "PENDING" ELSE "DEAD",
   strategy |-> s, available |-> available, expires |-> expires,
   recalled |-> FALSE, holder |-> NoWorker, leaseEnd |-> 0, tries |-> << >>]

PlannedChannels(s, suppressed) ==
  {c \in {"WHATSAPP", "EMAIL"} :
     /\ c = "WHATSAPP" => ~suppressed
     /\ c = "EMAIL" => s = "WHATSAPP_AND_EMAIL_PARALLEL"}

(* The table T with the messages of change n of r, booked as b; without a  *)
(* reminder, or too late for one, only the announcement.                   *)
WithMessages(T, r, n, b, s, suppressed, remind) ==
  [l \in Leg |->
     IF l.of # r \/ l.change # n THEN T[l]
     ELSE IF l.event = "ANNOUNCEMENT"
               /\ l.channel \in PlannedChannels(s, suppressed)
       THEN Planned(s, now, now + Life, l.channel = "WHATSAPP" \/ b.email)
     ELSE IF l.event = "REMINDER" /\ remind /\ b.start >= now + ReminderLead
               /\ l.channel \in PlannedChannels(s, FALSE)
       THEN Planned(s, b.start - ReminderLead, b.start,
                    l.channel = "WHATSAPP" \/ b.email)
     ELSE T[l]]

(* Mutant: the update of what is planned does not look at the status.      *)
SupersededAll(r) ==
  [l \in Leg |->
     CASE l.of = r /\ leg[l].status \notin {"NONE", "CLAIMED"} ->
            [leg[l] EXCEPT !.status = "CANCELLED"]
       [] l.of = r /\ leg[l].status = "CLAIMED" ->
            [leg[l] EXCEPT !.recalled = TRUE]
       [] OTHER -> leg[l]]

(* Mutant: what a worker holds is not asked back.                          *)
SupersededPending(r) ==
  [l \in Leg |-> IF l.of = r /\ leg[l].status = "PENDING"
                   THEN [leg[l] EXCEPT !.status = "CANCELLED"] ELSE leg[l]]

(* What nobody has taken is cancelled, what a worker holds is asked back.  *)
Superseded(r) ==
  [l \in Leg |->
     CASE l.of = r /\ leg[l].status = "PENDING" ->
            [leg[l] EXCEPT !.status = "CANCELLED"]
       [] l.of = r /\ leg[l].status = "CLAIMED" ->
            [leg[l] EXCEPT !.recalled = TRUE]
       [] OTHER -> leg[l]]

(* The guest was reminded of this very schedule, which a reminder names.   *)
Reminded(r, start) ==
  \E l \in Leg : /\ l.of = r /\ l.event = "REMINDER"
                 /\ leg[l].status = "SUCCEEDED" /\ leg[l].expires = start

(* The bound on changes, and on the clock: it outlasts what is planned.    *)
MayPlan(r, start) ==
  /\ booked[r].changes < MaxChange
  /\ ~booked[r].gone
  /\ now + Life + LeaseTime <= Horizon
  /\ start + LeaseTime <= Horizon

(* Staff on the phone may leave the first message out.                     *)
PlanReservationCreated(r, start, email, s, suppressed) ==
  LET b == [changes |-> 1, gone |-> FALSE, start |-> start, email |-> email]
  IN  /\ MayPlan(r, start)
      /\ booked[r].changes = 0
      /\ now < start
      /\ booked' = [booked EXCEPT ![r] = b]
      /\ leg' = WithMessages(leg, r, 1, b, s, suppressed, TRUE)
      /\ UNCHANGED <<now, worker>>

PlanReservationUpdated(r, start, email, s) ==
  LET n == booked[r].changes + 1
      b == [changes |-> n, gone |-> FALSE, start |-> start, email |-> email]
  IN  /\ MayPlan(r, start)
      /\ booked[r].changes > 0
      /\ start # booked[r].start => now < start
      /\ booked' = [booked EXCEPT ![r] = b]
      /\ leg' = WithMessages(Superseded(r), r, n, b, s, FALSE,
                             ~(start = booked[r].start /\ Reminded(r, start)))
      /\ UNCHANGED <<now, worker>>

PlanReservationCancelled(r, s) ==
  LET n == booked[r].changes + 1
      b == [booked[r] EXCEPT !.changes = n, !.gone = TRUE]
  IN  /\ MayPlan(r, booked[r].start)
      /\ booked[r].changes > 0
      /\ booked' = [booked EXCEPT ![r] = b]
      /\ leg' = WithMessages(Superseded(r), r, n, b, s, FALSE, FALSE)
      /\ UNCHANGED <<now, worker>>

-----------------------------------------------------------------------------
(* The end of a leg.                                                       *)

(* Mutant: the lease of what is over is not taken back.                    *)
EndedInLease(x, status) == [x EXCEPT !.status = status]

Ended(x, status) ==
  [x EXCEPT !.status = status, !.holder = NoWorker, !.leaseEnd = 0]

Twin(l) == [l EXCEPT !.channel = "EMAIL"]

FallsBack(l, x, t) ==
  /\ l.channel = "WHATSAPP"
  /\ x.strategy = "WHATSAPP_WITH_EMAIL_FALLBACK"
  /\ t < x.expires

(* Mutant: the message dies and the email is left to somebody else.        *)
DeadAlone(l, x, t) == [leg EXCEPT ![l] = Ended(x, "DEAD")]

(* Entry x of leg l dies at t, and the email in its place, if the strategy *)
(* and the time left ask for one, is planned in the same transaction, to   *)
(* the address the reservation has now.                                    *)
DeadAndFallback(l, x, t) ==
  LET dead == [leg EXCEPT ![l] = Ended(x, "DEAD")]
  IN  IF FallsBack(l, x, t)
        THEN [dead EXCEPT ![Twin(l)] =
                Planned(x.strategy, t, x.expires, booked[l.of].email)]
        ELSE dead

Closed(x, n) == [x EXCEPT !.tries[n] = "CLOSED"]

-----------------------------------------------------------------------------
(* A batch: the clock is read once, when the last batch is done, for three *)
(* sweeps over the table.                                                  *)

ExpirePending(w) ==
  /\ phase[w] = "process" /\ job[w] = {}
  /\ leg' = [l \in Leg |->
               IF leg[l].status = "PENDING" /\ leg[l].expires <= now
                 THEN Ended(leg[l], "DEAD") ELSE leg[l]]
  /\ phase' = [phase EXCEPT ![w] = "recover"]
  /\ seen' = [seen EXCEPT ![w] = now]
  /\ UNCHANGED <<now, booked, found, job>>

(* Mutant: the attempt of a worker that died stays open.                   *)
StillOpen(x) == x

(* The last attempt that was left open is closed.                          *)
Abandoned(x) ==
  LET open == {n \in DOMAIN x.tries : x.tries[n] = "OPEN"}
  IN  IF open = {} THEN x ELSE Closed(x, Max(open))

(* Mutant: only who opened an attempt is known to have died.               *)
LapsedInAttempt(x, t) ==
  x.status = "CLAIMED" /\ x.leaseEnd <= t /\ x.tries # << >>

Lapsed(x, t) == x.status = "CLAIMED" /\ x.leaseEnd <= t

(* A leg whose lease ran out.  What dies of age is too old for an email.   *)
Recovered(x, t) ==
  LET y == Abandoned(x)
  IN  CASE x.recalled -> Ended(y, "CANCELLED")
        [] ~x.recalled /\ x.expires <= t -> Ended(y, "DEAD")
        [] OTHER -> [Ended(y, "PENDING") EXCEPT !.available = t]

RecoverExpiredLeases(w) ==
  /\ phase[w] = "recover"
  /\ leg' = [l \in Leg |->
               IF Lapsed(leg[l], seen[w]) THEN Recovered(leg[l], seen[w])
               ELSE leg[l]]
  /\ phase' = [phase EXCEPT ![w] = "find"]
  /\ UNCHANGED <<now, booked, seen, found, job>>

(* Mutant: nobody waits for an earlier announcement.                       *)
NotOvertaking(l) == TRUE

(* An announcement waits for an earlier one in somebody's hands.           *)
InTurn(l) ==
  ~\E e \in Leg : /\ e.of = l.of /\ e.change < l.change
                  /\ {e.event, l.event} = {"ANNOUNCEMENT"}
                  /\ leg[e].status = "CLAIMED"

Claimable(t) ==
  {l \in Leg : /\ leg[l].status = "PENDING"
               /\ leg[l].available <= t /\ t < leg[l].expires
               /\ InTurn(l)}

(* What is due is gathered on the snapshot of the statement.               *)
FindDue(w) ==
  /\ phase[w] = "find"
  /\ found' = [found EXCEPT ![w] = Claimable(seen[w])]
  /\ phase' = [phase EXCEPT ![w] = "claim"]
  /\ UNCHANGED <<now, booked, leg, seen, job>>

(* Then rows are locked and updated by identifier.  What another worker    *)
(* has locked is skipped, so any of them may be; what changed in between   *)
(* is locked in its new version, whose status nobody looks at: the table   *)
(* refuses to claim what is over, and with it the batch, and nothing else. *)
ClaimDue(w) ==
  /\ phase[w] = "claim"
  /\ \E S \in SUBSET found[w] :
       /\ Cardinality(S) <= BatchSize
       /\ \/ /\ \A l \in S : leg[l].status \notin Terminal
             /\ leg' = [l \in Leg |->
                          IF l \in S
                            THEN [leg[l] EXCEPT !.status = "CLAIMED", !.holder = w,
                                                !.leaseEnd = seen[w] + LeaseTime]
                            ELSE leg[l]]
             /\ job' = [job EXCEPT ![w] =
                          {[leg |-> l, n |-> 0, stage |-> "queued"] : l \in S}]
          \/ /\ \E l \in S : leg[l].status \in Terminal
             /\ UNCHANGED <<leg, job>>
  /\ phase' = [phase EXCEPT ![w] = "process"]
  /\ seen' = [seen EXCEPT ![w] = 0]
  /\ found' = [found EXCEPT ![w] = {}]
  /\ UNCHANGED <<now, booked>>

-----------------------------------------------------------------------------
(* One claimed leg: open an attempt, look once more, call, record.         *)

(* Mutant: whoever claimed it, it is claimed.                              *)
HeldBySomebody(w, l) == leg[l].status = "CLAIMED"

(* The lease token is the worker's: a row that was recovered or claimed    *)
(* again carries another.                                                  *)
Holds(w, l) == leg[l].status = "CLAIMED" /\ leg[l].holder = w

Leaves(w, j) == job' = [job EXCEPT ![w] = @ \ {j}]

Advances(w, j, n, stage) ==
  job' = [job EXCEPT ![w] =
            (@ \ {j}) \cup {[leg |-> j.leg, n |-> n, stage |-> stage]}]

Busy(w) == Cardinality({j \in job[w] : j.stage # "queued"})

StartAttempt(w, j) ==
  LET l == j.leg
      x == leg[l]
      n == Len(x.tries) + 1
  IN  /\ j.stage = "queued" /\ Busy(w) < Concurrency
      /\ \/ /\ ~Holds(w, l)
            /\ Leaves(w, j) /\ UNCHANGED leg
         \/ /\ Holds(w, l) /\ x.recalled
            /\ leg' = [leg EXCEPT ![l] = Ended(x, "CANCELLED")]
            /\ Leaves(w, j)
         \/ /\ Holds(w, l) /\ ~x.recalled /\ x.expires <= now
            /\ leg' = DeadAndFallback(l, x, now)
            /\ Leaves(w, j)
         \/ /\ Holds(w, l) /\ ~x.recalled /\ now < x.expires
            /\ n > MaxAttempts
            /\ leg' = DeadAndFallback(l, x, now)
            /\ Leaves(w, j)
         \/ /\ Holds(w, l) /\ ~x.recalled /\ now < x.expires
            /\ n <= MaxAttempts
            /\ leg' = [leg EXCEPT ![l].tries = Append(@, "OPEN")]
            /\ Advances(w, j, n, "opened")
      /\ UNCHANGED <<now, booked, phase, seen, found>>

(* Mutant: what was asked back since the attempt was opened is sent.       *)
ConfirmUnasked(w, j) ==
  LET l == j.leg
      x == leg[l]
      y == Closed(x, j.n)
  IN  /\ j.stage = "opened"
      /\ \/ ~Holds(w, l) /\ Leaves(w, j) /\ UNCHANGED leg
         \/ /\ Holds(w, l) /\ x.expires <= now
            /\ leg' = [leg EXCEPT ![l] = Ended(y, "DEAD")]
            /\ Leaves(w, j)
         \/ /\ Holds(w, l) /\ now < x.expires
            /\ Advances(w, j, j.n, "calling") /\ UNCHANGED leg
      /\ UNCHANGED <<now, booked, phase, seen, found>>

ConfirmProviderCall(w, j) ==
  LET l == j.leg
      x == leg[l]
      y == Closed(x, j.n)
  IN  /\ j.stage = "opened"
      /\ \/ ~Holds(w, l) /\ Leaves(w, j) /\ UNCHANGED leg
         \/ /\ Holds(w, l) /\ x.expires <= now
            /\ leg' = [leg EXCEPT ![l] = Ended(y, "DEAD")]
            /\ Leaves(w, j)
         \/ /\ Holds(w, l) /\ now < x.expires /\ x.recalled
            /\ leg' = [leg EXCEPT ![l] = Ended(y, "CANCELLED")]
            /\ Leaves(w, j)
         \/ /\ Holds(w, l) /\ now < x.expires /\ ~x.recalled
            /\ Advances(w, j, j.n, "calling") /\ UNCHANGED leg
      /\ UNCHANGED <<now, booked, phase, seen, found>>

(* The provider takes the message, the first time or again.                *)
Receive(w, j) ==
  /\ j.stage = "calling"
  /\ Advances(w, j, j.n, "accepted")
  /\ UNCHANGED <<now, booked, leg, phase, seen, found>>

(* The provider answers, or its time is up, which may be after it took the *)
(* message.                                                                *)
Answers(j) ==
  CASE j.stage = "calling"  -> {"TRANSIENT_FAILURE", "PERMANENT_FAILURE"}
    [] j.stage = "accepted" -> {"SUCCESS", "TRANSIENT_FAILURE"}
    [] OTHER                -> {}

(* A transient failure is worth another attempt that starts in time.       *)
Retries(n, x) ==
  now < x.expires /\ n < MaxAttempts /\ now + RetryDelay[n] < x.expires

FinalizeAttempt(w, j, result) ==
  LET l == j.leg
      x == leg[l]
      y == Closed(x, j.n)
      fresh == Holds(w, l) /\ x.tries[j.n] = "OPEN"
      again == result = "TRANSIENT_FAILURE" /\ Retries(j.n, x)
  IN  /\ result \in Answers(j)
      /\ \/ ~fresh /\ UNCHANGED leg
         \/ /\ fresh /\ result = "SUCCESS"
            /\ leg' = [leg EXCEPT ![l] = Ended(y, "SUCCEEDED")]
         \/ /\ fresh /\ result # "SUCCESS" /\ x.recalled
            /\ leg' = [leg EXCEPT ![l] = Ended(y, "CANCELLED")]
         \/ /\ fresh /\ ~x.recalled /\ again
            /\ leg' = [leg EXCEPT ![l] =
                         [Ended(y, "PENDING") EXCEPT
                            !.available = now + RetryDelay[j.n]]]
         \/ /\ fresh /\ result # "SUCCESS" /\ ~x.recalled /\ ~again
            /\ leg' = DeadAndFallback(l, y, now)
      /\ Leaves(w, j)
      /\ UNCHANGED <<now, booked, phase, seen, found>>

(* A transaction of one item fails: the batch goes on without it.          *)
ItemFails(w, j) ==
  /\ Leaves(w, j)
  /\ UNCHANGED <<now, booked, leg, phase, seen, found>>

(* The process dies, is told to stop, or a sweep fails: what it held in    *)
(* memory is gone, what it wrote stays.                                    *)
Crash(w) ==
  /\ phase[w] # "process" \/ job[w] # {}
  /\ phase' = [phase EXCEPT ![w] = "process"]
  /\ seen' = [seen EXCEPT ![w] = 0]
  /\ found' = [found EXCEPT ![w] = {}]
  /\ job' = [job EXCEPT ![w] = {}]
  /\ UNCHANGED <<now, booked, leg>>

Tick ==
  /\ now < Horizon
  /\ now' = now + 1
  /\ UNCHANGED <<booked, leg, worker>>

-----------------------------------------------------------------------------
Init ==
  /\ now = 0
  /\ booked = [r \in Reservation |->
                 [changes |-> 0, gone |-> FALSE, email |-> FALSE,
                  start |-> CHOOSE t \in Start : TRUE]]
  /\ leg = [l \in Leg |->
              [Planned(CHOOSE s \in Strategy : TRUE, 0, 0, TRUE) EXCEPT
                 !.status = "NONE"]]
  /\ phase = [w \in Worker |-> "process"]
  /\ seen = [w \in Worker |-> 0]
  /\ found = [w \in Worker |-> {}]
  /\ job = [w \in Worker |-> {}]

Handler(r) ==
  \/ \E t \in Start, e \in Email, s \in Strategy, quiet \in BOOLEAN :
        PlanReservationCreated(r, t, e, s, quiet)
  \/ \E t \in Start, e \in Email, s \in Strategy :
        PlanReservationUpdated(r, t, e, s)
  \/ \E s \in Strategy : PlanReservationCancelled(r, s)

Process(w, j) ==
  \/ StartAttempt(w, j)
  \/ ConfirmProviderCall(w, j)
  \/ \E result \in Answers(j) : FinalizeAttempt(w, j, result)

Work(w) ==
  \/ ExpirePending(w) \/ RecoverExpiredLeases(w) \/ FindDue(w) \/ ClaimDue(w)
  \/ \E j \in job[w] : Process(w, j)

Next ==
  \/ \E r \in Reservation : Handler(r)
  \/ \E w \in Worker : \/ Work(w)
                       \/ \E j \in job[w] : Receive(w, j) \/ ItemFails(w, j)
                       \/ Crash(w)
  \/ Tick

Spec == Init /\ [][Next]_vars

(* Time passes, a worker that runs goes on, and one that is restarted again*)
(* and again gets through each of its sweeps now and then.                 *)
FairSpec ==
  /\ Spec
  /\ WF_vars(Tick)
  /\ \A w \in Worker : /\ WF_vars(Work(w))
                       /\ SF_vars(ExpirePending(w))
                       /\ SF_vars(RecoverExpiredLeases(w))

-----------------------------------------------------------------------------
(* With one worker the attempts of a leg are a history of one call at a    *)
(* time: only the last can be open, and only while the leg is claimed,     *)
(* however often the worker dies over it (recoverExpiredLeases).           *)
OneAttemptOpen ==
  \A l \in Leg : \A n \in DOMAIN leg[l].tries :
     leg[l].tries[n] = "OPEN" =>
        n = Len(leg[l].tries) /\ leg[l].status = "CLAIMED"

(* What is over stays as it was, for a late worker, a sweep and a handler  *)
(* that supersedes (ADR 005: the terminal states are immutable).           *)
TerminalIsFinal ==
  [][\A l \in Leg : leg[l].status \in Terminal => leg'[l] = leg[l]]_vars

(* No call to a provider begins for a message that a committed change of   *)
(* the reservation has made untrue, or that is too old; whether the change *)
(* came before the claim, between claim and attempt or between attempt and *)
(* call (confirmProviderCall).                                             *)
Calls(w) == {j \in job[w] : j.stage \in {"calling", "accepted"}}

CallsAreCurrent ==
  [][\A w \in Worker : \A l \in Leg :
        (\E j \in Calls(w)' : j.leg = l) /\ ~(\E j \in Calls(w) : j.leg = l)
          => l.change = booked[l.of].changes /\ now < leg[l].expires]_vars

(* What a worker calls a provider about, within its lease, nobody else     *)
(* ends: no late worker with what it knows of an earlier claim, no sweep   *)
(* (lockClaimed, recoverExpiredLeases).                                    *)
NobodyEndsAnothersCall ==
  [][\A w \in Worker : \A l \in Leg :
        /\ leg[l].status = "CLAIMED" /\ leg[l].holder = w
        /\ now < leg[l].leaseEnd
        /\ \E j \in Calls(w) : j.leg = l
        /\ \E j \in Calls(w)' : j.leg = l
        => leg'[l].status = "CLAIMED"]_vars

(* While an announcement is in somebody's hands no announcement of another *)
(* change of the reservation is (the NOT EXISTS of claimDue).              *)
AnnouncedInTurn ==
  \A l, m \in Leg :
     /\ l.of = m.of /\ {l.event, m.event} = {"ANNOUNCEMENT"}
     /\ leg[l].status = "CLAIMED" /\ leg[m].status = "CLAIMED"
     => l.change = m.change

(* Under fallback an email exists only in the place of a message that is   *)
(* dead, and a message that dies in time for one leaves one, in the same   *)
(* step (markTerminalAndFallback).                                         *)
InFallback(x) ==
  x.status # "NONE" /\ x.strategy = "WHATSAPP_WITH_EMAIL_FALLBACK"

FallbackFollowsFailure ==
  [][\A l \in Leg :
        l.channel = "WHATSAPP" =>
          /\ InFallback(leg'[Twin(l)]) => leg'[l].status = "DEAD"
          /\ /\ InFallback(leg[l]) /\ now < leg[l].expires
             /\ leg[l].status # "DEAD" /\ leg'[l].status = "DEAD"
             => leg'[Twin(l)].status # "NONE"]_vars

(* Every message planned ends, delivered, dead or cancelled, whatever dies *)
(* on the way.                                                             *)
EveryLegEnds ==
  \A l \in Leg : leg[l].status = "PENDING" ~> leg[l].status \in Terminal

(* Of two claims of a leg at once only one succeeds, as the integration    *)
(* test of claimDue says: a claimed leg is not claimed by another worker.  *)
OnlyOneConcurrentClaim ==
  [][\A l \in Leg :
        leg[l].status = "CLAIMED" /\ leg'[l].status = "CLAIMED"
          => leg'[l].holder = leg[l].holder]_vars
==============================================================================
