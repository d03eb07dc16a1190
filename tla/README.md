# Verification of piccadilly-booking

TLA+ models of the booking system in this repository, the TLC configurations
that check them on small instances, and theorems about them that TLAPS checks
for every value of the constants. `PROJECT.json` maps each definition to the
lines of code it stands for, lists the hazards of the code with the properties
that watch them, and gives for each property a mutated definition (a plausible
bug) that the property catches.

## 1. The system

A restaurant takes bookings from its site (guests, without an account, holding
a secret link to manage their booking) and from its staff's screen. The program
is a modular monolith (Next.js, TypeScript, Prisma) on one PostgreSQL database,
with one more process, the notification worker. The server keeps nothing in
memory between requests: its components' state is tables. The pages in the
browsers do keep state: what is typed, what is shown, what was sent.

| component | state it keeps | operations | acts on |
|---|---|---|---|
| rolling capacity (`availability/domain/rolling-capacity.ts`) | none | does a party fit in every window that would contain it | |
| availability engine (`availability/domain/*`) | none | slots of a day, closed dates, online cutoff, capacity | rolling capacity |
| reservation handlers (`reservations/application/*`) | `reservations`, guest link expiry, idempotency keys | create (site, phone), update and cancel (guest, staff), arrival, private notes | availability, service instances, room assignment, notification planning, audit: all in the handler's own transaction |
| reservation transactions (`reservations/infrastructure/*`) | PostgreSQL advisory locks | SERIALIZABLE transaction with a bounded number of attempts | everything above |
| room assignment (`rooms/application/reservation-assignment-service.ts`) | room, table and notes of a reservation, its version | assign, unassign, clear when the schedule changes | reservation version, audit |
| service instances (`rooms/infrastructure/service-instance-repository.ts`) | one row per service and day | materialise when first needed | rooms available that day |
| notification planning (`notifications/application/enqueue-planner.ts`, `infrastructure/prisma-notification-writer.ts`) | `notification_outbox` legs | plan the messages of a change, supersede those planned earlier | reservation version |
| notification worker (`notifications/infrastructure/notification-worker-repository.ts`, `application/worker.ts`, `application/processor.ts`) | legs, leases, attempts, receipts | claim, start, confirm, finalise, expire, recover | the same legs, concurrently with the handlers |
| configuration (`configuration/application/*`, `availability/domain/effective-configuration.ts`) | settings, weekly schedule, cutoff rules, special dates, public settings | preview the impact of a change, apply it under a fingerprint; edit special dates | reservations (read), audit |
| room configuration (`rooms/application/room-configuration-service.ts`) | rooms, tables, availabilities of a service | the same, for taking away rooms and tables | service instances, assignments |
| identity and sessions (`identity/application/*`, `server/auth/*`) | users, sessions | login, logout, create, roles, disable, reset, own password | sessions, audit |
| rate limits (`server/auth/rate-limit.ts`, `server/security/public-rate-limit.ts`) | a counter per action and address | count and refuse, forget | |
| audit queries (`audit/*`) | none (events are written by the handlers) | a page of the trail under filters, from a cursor; one event in full | sessions |
| exports (`exports/*`) | none, an audit event per request | preview and files of a service or a day | reservations, sessions, audit |
| booking page (`app/prenota/*`) | form, answers, key | ask, choose, submit, try again | availability, reservation handlers, rate limits |
| staff pages (`app/dashboard/*`, `dashboard/domain/staff-draft-state.ts`, `app/admin/*`) | drafts, proofs of the session, attempts, exports asked for, previews | write, review, submit, leave, hide, sign out; confirm | every handler of staff |
| dashboard queries | none | read-only snapshot of a day | |

### What is hard about it

* **Concurrency.** Requests run in SERIALIZABLE transactions that also take
  advisory locks. The request for the first lock is the transaction's first
  statement (`reservation-locks.ts:31`), so the snapshot is *older* than the
  wait: what is read under the lock may be out of date. Locks alone therefore
  do not keep two guests out of the same seats.
* **Retries.** The server tries a transaction up to five times; browsers send a
  request again when its answer is lost; idempotency keys must make both
  harmless, across channels, and until the keys expire.
* **Arithmetic of windows.** A party counts in every rolling window that
  contains its arrival; an arriving party must fit in all of them; staff may
  override, and the bookings granted by override count for everybody else.
* **Histories.** A booking is edited by guest and staff in any order, after
  arrival, after cancellation, from forms that show old versions. The guest's
  link, the room, the service instance, the planned messages and the audit must
  follow each change, in the same transaction.
* **Previews.** An administrator decides on what a preview showed; bookings and
  other administrators go on meanwhile. A fingerprint must notice what matters,
  and the lock of the configuration is again waited for on an old snapshot.
* **Roles and passwords.** Two administrators may demote, disable or reset each
  other in the same moment; a session, a token in a cookie, must die with the
  role or the password it was given for.
* **Pages.** The cookie is shared by tabs, the drafts are not. Answers come
  late, twice, or for a question that is not asked any more; the session may
  end between a proof and the request it was for.
* **A second process.** The worker holds legs while handlers supersede them;
  what was handed out can only be *asked back*. It may die with messages in its
  hands, come back from a call after its lease, or run twice. Its transactions
  are READ COMMITTED: a row may change between the snapshot that finds it and
  the lock that takes it.

### What makes each part correct

* Capacity: regular bookings never exceed the limit of any window of any
  service; only an explicit override does.
* Keys: a key books once, whoever repeats it and whatever is lost on the way.
* Versions: a change made from an old version is refused, never applied on top.
* Cancellation is final, annotations aside.
* Audit: the last event of a reservation describes it as it is.
* Messages: at most the current version of a booking is announced and at most
  one reminder of it is alive; no call begins for a message that a change made
  untrue; what is delivered, dead or cancelled stays so; a failed message leaves
  its fallback in the same step; every message ends.
* Rooms: no room outlives the schedule it was assigned for.
* Service instances: each confirmed booking's service exists for planning.
* Links: a guest's link lives as long as it was issued for, wherever the
  booking moves.
* Locks are taken in one order, and every request is answered.
* Configuration: no change is applied whose effects were not confirmed, none
  overwrites one that was not seen, and the audit trail tells what is in force.
* Identity: an administrator remains; a live session is one of an active user
  with the role and the password it was opened with; guesses are bounded.
* Drafts: nothing is saved under another session than the one it was written
  in, nothing typed disappears unless it was saved, given up by hand or its
  session is over, and no draft stays locked by a request nobody serves.
* Exports: a file is handed to the session that asked, and shows one moment.
* Booking page: the slots it offers were free at some time since it asked, and
  it books once per change of what it submits.
* Audit panel: a list read page by page is one reading of the trail.

## 2. Modules

    RollingCapacity            the capacity rule (operators)
      EffectiveConfiguration   what is in force for a service of a date
        ConfigurationImpact    what a change would do to reservations
          RoomImpact           the same for rooms and tables
            Configuration      administrators changing it, concurrently
              Configuration_proofs  what previews, changes and audit keep, proved
      BookingLedger            abstract specification: what bookings promise
        BookingLedger_proofs   its invariants, proved
        PublicBookingForm      the page guests book from, beside the ledger
    ReservationService         every handler with all it writes, one at a time
      ReservationService_proofs  its invariants, and that it is a ledger
    SerializableSnapshots      what PostgreSQL lets commit (operators)
    ReservationTransactions    the same handlers, concurrently, on PostgreSQL
      ReservationTransactions_proofs  its safety, and that it is a ledger
    OperatorTheorems           lemmas about loads and about logs of commits
    NotificationOutbox         planning and workers on the messages of a booking
      NotificationOutbox_proofs  its safety, proved
    RequestLimits              failed logins: window and block (operators)
      Identity                 accounts and sessions, concurrently
        AuditTrail             reading the audit trail while it is written
          Identity_proofs      what both keep, proved
    StaffDrafts                the drafts of a staff page and their sessions
      StaffExports             the files and previews it asks for
    BrowserPages_proofs        what the pages keep: extends PublicBookingForm,
                               BookingLedger_proofs and StaffExports
    MC...                      instances for TLC

A module below another extends it. Besides, ReservationService and
ReservationTransactions instantiate BookingLedger; ReservationTransactions,
Identity and Configuration use SerializableSnapshots; OperatorTheorems extends
RollingCapacity and SerializableSnapshots, and the proofs of BookingLedger,
Configuration, Identity and ReservationTransactions extend it; the proofs of
ReservationTransactions also instantiate BookingLedger_proofs, as those of
ReservationService do.

**RollingCapacity** is `evaluateRollingCapacity`: `InWindow` is the half-open
test of line 55, `AffectedWindows` the starts in `(slot - duration, slot]`,
`SlotHasRoom` the answer the callers act on. Times are slot numbers; the window
is a number of slots.

**BookingLedger** is what the rest is held to. Its state is one row per
reservation (status, service, slot, party, override, version) and, for each
idempotency key, the reservation it stands for. `Grant` (a new booking, with a
fresh key), `Amend` (other schedule or party, or none, checked again when it
moves or grows), `Annotate` (a change that no rule looks at), `Cancel` and
`Forget` (a key expires) are all that may happen. It knows no handlers,
channels, locks or answers.

**ReservationService** has one action per handler, each the whole handler:
guard and early returns as conjuncts, and everything its transaction writes.

| state | code |
|---|---|
| `now` | the instant a handler is given |
| `row` | `reservations`: status, origin, what was booked, override, arrival, private note, version |
| `key` | `reservation_idempotency_keys`, their expiry included |
| `link` | expiry of the guest's management link |
| `hosted` | materialised `service_instances` |
| `seat` | room of the reservation (`reservation_assignments`) |
| `trail` | audit events of each reservation: how many, and what the last ones say (`reservationAuditSnapshot`) |
| `leg` | `notification_outbox` as handlers meet it: legs alive, and reminders that were sent |

Actions: `CreatePublicReservation`, `CreatePhoneReservation`,
`UpdateManagedPublicReservation`, `UpdateStaffReservation`,
`CancelManagedPublicReservation`, `CancelStaffReservation`,
`PutReservationArrival`, `PutReservationPrivateNotes`, `AssignReservationRoom`,
`DeleteReservationAssignment`, `CleanupExpiredKeys`, the worker's `Claim`,
`Deliver`, `Fail`, `Expire`, and the passing of time (`Tick`). A request that the code
refuses or answers without a write changes nothing and is a stuttering step;
what such answers are is in ReservationTransactions.

The site and the staff hash keys with their channel (`public\0`, `phone\0`), so
a key belongs to one of them: `SiteKey` are the site's. A public update keeps
the flag of an earlier override; a staff update sets it only with another
schedule or party. Both are in the code and both are in `Rebook`.

**ReservationTransactions** runs the requests as processes. A client submits a
request; `Begin` takes the snapshot; `Acquire` takes the next lock of the plan
the handler follows on that snapshot; `Commit` writes what the handler computes
*from the snapshot*; `Refuse` is a handler's error, which rolls back and is
therefore validated by nobody; `Serialize` and `AbortEarly` are PostgreSQL's
refusals, which lead to another attempt or, after `MaxAttempts`, to an error;
`Crash` loses the answer; a client without an answer it trusts submits the same
request again. A request may be about a reservation that is only being made: on
a snapshot without it the plan ends after the locks that need no row of it, and
the answer is `NOT_FOUND` (`Known`).

PostgreSQL is external. What is assumed of it is what its documentation says:
a transaction reads its snapshot; the first of two concurrent writers of a row
wins (`Overwrites`, which also covers `FOR UPDATE`); transactions with two
consecutive read-write dependencies whose last one committed first never all
commit (`Dangerous`, in SerializableSnapshots); it may refuse more than that
(`AbortEarly`). A duplicate
key surfaces as such a conflict. Transactions are concurrent with those that
committed after their snapshot, which `log` keeps as long as somebody needs it.

**NotificationOutbox** looks into what ReservationService sees of the messages
from outside: a leg is one row of `notification_outbox` with its attempts.

| state | code |
|---|---|
| `now` | the clock |
| `booked` | what a plan is made from: how many changes were announced, start, whether there is an address |
| `leg` | `notification_outbox` (status, strategy, availability, expiry, cancellation asked for, lease) with `notification_attempts` (open or closed) |
| `phase`, `seen`, `found` | where a worker's batch is, the clock it read for its sweeps, the rows its claim found |
| `job` | what a worker holds in memory about each leg it claimed |

`PlanReservationCreated`, `PlanReservationUpdated` and
`PlanReservationCancelled` are the planner, inside a handler's transaction. A
worker's batch is `ExpirePending`, `RecoverExpiredLeases`, `FindDue`,
`ClaimDue`, then for each leg, at most `Concurrency` at a time, `StartAttempt`,
`ConfirmProviderCall`, `Receive` (the provider takes the message) and
`FinalizeAttempt`; `ItemFails` and `Crash` may come anywhere between.

* Each repository method is one action because it locks the row it changes
  before it reads it, but for the claim. `claimDue` evaluates its conditions in
  a materialised query on the statement's snapshot and locks rows by id
  afterwards; `FindDue` and `ClaimDue` are the two moments. A handler that meets
  a row a worker changed after its snapshot fails to serialise and starts
  again, so planning is one action too.
* A lease token is the identity of the worker: a worker holds no job when it
  claims, so it never meets an old token of its own.
* The clock is read in the action that uses it, except for the sweeps and the
  claim, which share what `ExpirePending` read. A call may last any time (the
  30 s deadline is one of the transient failures).
* `ClaimDue` takes any of the rows found, up to `BatchSize`: rows locked by
  others are skipped. The order, the quota of a restaurant and the limit of 100
  rows of a sweep are left out, and so are receipts (one per key, of one
  payload), failure codes, payloads and addresses.

**EffectiveConfiguration**, **ConfigurationImpact** and **RoomImpact** are
functions of a state of the tables: what is in force for a service of a date
(special date before weekly schedule, `Effective`), its slots, the engine's
answer with its order of reasons (`SlotAnswer`); which future reservations a
proposal would leave outside the hours, over the capacity, under another cutoff
or without their room (`Impact`, `RoomAffected`); and what of the tables goes
into a fingerprint (`Needs`, `RoomNeeds`), which is not the same.

**Configuration** puts two administrators and one request about a reservation at
work on them.

| state | code |
|---|---|
| `db` | the committed tables of the configuration and of the reservations |
| `trail` | the configuration as the audit events tell it, each applied to the one before |
| `panel` | an administrator's page: preview shown, dialog open, request in flight with its snapshot |
| `holder` | the restaurant's configuration lock |
| `editor` | an edit of a special date between its read and its write (READ COMMITTED) |
| `desk` | one request about a reservation: create, cancel, assign |
| `log` | commits that a running transaction may have missed |

`Propose` and `OpenForm` show what is there; `Confirm` and `Cancel` answer the
dialog; `Begin` takes the snapshot, `Acquire` the lock; then one of `Apply`,
`ImpactChanged` (a new preview), `NothingToChange` and `Abort` (a serialization
failure, to be tried again or given up) ends it. `ReadSpecialDate` and
`WriteSpecialDate` are the two halves of an edit, `DuplicateSpecialDate` the
unique index. Left out: READ COMMITTED statements between the read and the write
of an edit; the versions of reservations in the fingerprint of a room, which make
the code's stricter than the model's; the texts of a special date's note, which
are there or not. No instance has hours that the slot interval does not divide.
The desk handles one
request at a time, and the capacity lock that a proposal for a service's room
takes besides only orders commits that the snapshots decide anyway.

**Identity** has users, sessions and failed logins. A request is let in by the
session it carries (`AskAdmin`, `AskPassword`, `Logout`) or by a password
(`AskLogin`), begins a SERIALIZABLE transaction (`Begin`), waits for the
lifecycle lock if it is about a role or a status (`Acquire`), and ends in
`CommitLogin`, `CommitChange`, `Refuse` or `Abort`. A session row keeps the role
and the password of its login, which the program does not:
`LiveSessionsAreCurrent` compares them with the user's. `guesses` keeps, for each
user, when the wrong passwords since the last success were asked and answered;
the row of the limit is cleared by a success, and by the cleanup of expired rows
that a login makes before its transaction, which is not SERIALIZABLE
(`AskLogin`). Only an error that
Prisma reports as P2034 leads to another attempt, so `Abort` may end a request
at once. Three things the reading of the code brought out, none of which breaks
a property: the check for the last administrator never fires, because whoever
asks is an administrator on the same snapshot and another person, and it is
SERIALIZABLE that keeps one; an administrator demoted while waiting for the lock
may still commit a change where the two touch no common row; and the branch of
`validateSessionToken` that revokes the session of an inactive user is
unreachable as long as `LiveSessionsAreCurrent` holds.

**RequestLimits** is the row of the login limit and what a failure makes of it.
The limit of the public site is two counters of PublicBookingForm.

**AuditTrail** extends Identity by events and the panel that reads them.
`BeginEvent` and `CommitEvent` are apart because an event is stamped before its
transaction commits: a page may miss an event whose stamp is older than those
it shows. `ServePage` checks session and role and takes one page of the two
tables merged (`PageOf`); `ReceivePage` keeps or drops it. A filter without an
end means today: when the day turns, a cursor belongs to other filters and
"load more" fails, which the model has. A limit is not part of the filters a
cursor is bound to; the panel always asks for the same. The check of the session
and the fresh check of the role are one step.

**StaffDrafts** is the draft host of the staff pages and the server behind it.

| state | code |
|---|---|
| `cookie`, `sessions` | what the browser sends and what the server thinks of it |
| `reservation`, `saved` | the row edited; under which session each attempt was saved |
| `tab` | the memory of the page: authorisation, identity, drafts, epochs, proofs in flight, route, dialogs (`staff-draft-state.ts`, `staff-draft-host.tsx`) |
| `attempts` | submits: what they carried, how far they came, their answers |

Each function of `staff-draft-state.ts` is an operator on `tab` (`Quarantined`,
`Erased`, `Authorized`, `Discarded`, `Settled`, ...); each callback of the host
and of the forms is an action. A submit asks for the session (`SubmitDraft`,
`Checked`), reads the reservation again (`Reread`), and saves with the binding
of the session the draft was written in (the server's `SavePhone`, `SaveEdit`,
`SaveRoom`, `SaveRefused`; `SaveTurned` and `SaveAnswered` hear the answer).
Meanwhile the browser signs in and out elsewhere, the page is hidden, left, turned back, closed (`Hide`, `PageHide`,
`Leave`, `Back`, `RouteChanged`), and the row is changed by others. A session
stands for actor, tenant, role and binding together. Left out: a change of role
within a session, the epoch of the leases, another tenant's 404, the failure
before an attempt exists, overlays, focus and the agenda's own state, closing
the room panel without navigating; private notes behave as an edit does. The
reads that make one screen are one step. The documents that promise what the
properties say are `docs/ARCHITECTURE.md` 655-667, `docs/SECURITY.md` 444-466
and `docs/PROJECT_SPEC.md` 950-985.

**StaffExports** extends it by what the export panel asks for: `Begin` and
`PanelProved` (proof of the session before the request and again before a file
is handed over), the server's `Admit`, `ReadContext` (one snapshot), `Compose`,
`AuditSuccess` and `AuditFailure`, and `Answered`. A document is the bookings by
room; layout, order and cells are left out, and a request nobody hears any more
is dropped, since all that remains of it is its audit event.

**PublicBookingForm** extends BookingLedger by the page of the site. Questions
are numbered, calls may be lost or overtake each other; a submission has a key
that is drawn anew when what is asked for differs from the last attempt
(`Resolved`); `Edit` after a lost answer leaves a stray request that the server
may still serve. A refusal by the server may have reasons the ledger does not
know (cutoff, closed date), so `Book` may always refuse. A failed maintenance of
the rate limits looks to the page like a lost request. What the code does and
the model has too: a lost, then B refused, then A again is a new key, and so is
another language after a refusal. Pages live shorter than their keys: one open
beyond the life of a key could book twice by repeating a lost submission. The
replay of a reservation that was cancelled meanwhile is shown as confirmed.
Sections, validation and the composition of a party are left out.

### Data abstracted

Names, contacts and notes are a Boolean `detail` or one of two values
("something no rule looks at"); services are members of a set, of which a
booking's day is part, but for the configuration, where dates are days; local
times and daylight saving are left out; a token is the right to act as guest, a
session's binding is the session. Bounded, each by a constant in the guards:
versions (`MaxVersion`), the clock (`Horizon`, `Instants`), attempts
(`MaxAttempts`, a limit of the code too), requests (`MaxSubmits`, `MaxRequests`,
`MaxAsks`, `MaxPosts`, `MaxExports`), events of the world around a page
(`MaxEvents`), passwords (`MaxPassword`). `MaxParty` is the largest party the
configuration allows.

## 3. Runs

| run | module / cfg | instance | checks |
|---|---|---|---|
| ledger | MCBookingLedger | three reservations, two keys, slots 0, 15 and 30 under windows of 30 with two seats; a page that asks three times, or submits three times | `TypeOK`, `RegularWithinLimit`, `CancelledIsFinal`, `SlotsAnswerTheDay`, `OneBookingPerChange` |
| lifecycle | MCReservationLifecycle | one reservation through two services, link lives 1 and 2, instants 0 to 3 (a key lives 2); or two after one seat | `TypeOK`, `AuditTracksTables`, `LiveLegsAreCurrent`, `KeepsTheLedger`, `RepeatsFindTheirBooking`, `LinkLifeStays`, `SeatDiesWithSchedule` |
| contention | MCTransactionContention | three clients after the last seats, or changing two reservations that swap services | `NoLostUpdate`, `NobodyWaitsInACircle`, `KeepsTheLedger` |
| retries | MCTransactionRetries | two clients, two attempts, two submissions, with fairness | `OneBookingPerKey`, `BookedUnderAKey`, `EveryRequestIsAnswered` |
| stale_refusal | MCTransactionStaleRefusal | a cancellation and a booking | `RefusedOnlyWhenFull` is violated (section 6) |
| outbox_workers | MCOutboxWorkers | two workers; one message of a booking that changes twice, or the messages of one booking on two channels with two attempts; life 2, lease 1 | `TypeOK`, `AnnouncedInTurn`, `TerminalIsFinal`, `CallsAreCurrent`, `FallbackFollowsFailure`, `NobodyEndsAnothersCall` |
| outbox_life | MCOutboxLife | one worker, two changes, reminders, fallback, two attempts, with fairness | `OneAttemptOpen`, `EveryLegEnds` |
| double_claim | MCOutboxClaims | two workers, one message | `OnlyOneConcurrentClaim` is violated (section 6) |
| identity | MCIdentity | two administrators, one of the staff, one to be created, two requests at once; or an administrator reading three events in pages of one | `TypeOK`, `AnAdminRemains`, `LiveSessionsAreCurrent`, `GuessesAreBounded`, `TheListIsOneReading` |
| configuration | MCConfiguration | two administrators, two days, three reservations, three requests; hours, limits, rooms or forms | `AppliedAsConfirmed`, `NothingIsOverwritten`, `NothingLostIsUnseen`, `AuditTellsTheTables` |
| impact_unseen | MCConfigurationUnseen | the same | `AppliedAsShown` is violated (section 6) |
| staff_drafts | MCStaffDrafts | one page, two sessions, a draft of a phone booking, of an edit or of a room, with two submits, or two exports of two bookings; three events around it | `CommittedByOwner`, `PendingIsBeingServed`, `NothingTypedIsLost`, `ExportsStayWithTheirSession`, `ADocumentIsOneMoment` |

What they show:

* **ledger**: the abstract promises are consistent and are kept by any order of
  grants, moves, overrides and forgotten keys. The page in front of it offers
  only slots that were free since it asked, although answers overtake each other,
  and books once per change of what is submitted, although submissions are lost,
  refused by the rate limit or arrive after they were given up.
* **lifecycle**: each handler, run alone, is a step of the ledger
  (`KeepsTheLedger` instantiates it with a refinement mapping that forgets what
  the ledger does not know), and everything written beside the booking stays
  consistent with it. A key keeps its answer for the whole of its life: nothing
  is booked beside it and no cleanup takes it early, so a repeat finds what the
  first request booked (`RepeatsFindTheirBooking`).
* **contention**, **retries**: a request sent is answered, or its connection
  lost, and the committed tables still change as the ledger does although every
  check was made on a snapshot older than its lock. The mutant that reduces
  `Conflicts` to write conflicts (REPEATABLE READ) overbooks: it is SERIALIZABLE
  that protects the seats. No change is lost under another's, and no group of
  requests waits in a circle for advisory locks; a client may cancel or change
  what another is only booking, and is told it was not found. That regular bookings
  stay within the limit follows from `KeepsTheLedger` and the ledger's theorem; both
  are proved for any number of clients. That a key books once is said of the
  answers (`OneBookingPerKey`) and of the tables (`BookedUnderAKey`): a key stands
  for one reservation, so a second one booked under it would be left without a
  key, also where nobody was told of it.
* **outbox_workers**, **outbox_life**: whatever workers
  die, come back late or claim twice, and whenever a handler changes the
  booking, what is over stays over, a call begins only for the present state of
  the booking and within its time, a failed message leaves its fallback, and a
  call in its lease is ended by nobody else. `OneAttemptOpen` is checked with
  one worker: with two the double claim of section 6 breaks it. Every message
  planned ends.
* **identity**: SERIALIZABLE keeps an administrator and kills the sessions of a
  role or a password that is gone; without the conflicts of reads (a mutant) two
  administrators demote each other. Among the last failures of a user, twice as
  many as block, one was asked a window or a block before the last is answered.
  The audit list stays one reading of the trail: in order, under the filters of
  its first page, and without a gap among the events that were there.
* **configuration**: a change is applied to what its author saw, beside
  bookings, seatings and other administrators; the impact that is shown is
  complete against the engine (`NothingLostIsUnseen` compares the two for every
  proposal in every state); the audit events tell the tables. Reservations of a
  date with a special date are left out of the fingerprint of a weekly schedule:
  `AppliedAsConfirmed` says what holds, **impact_unseen** what does not.
* **staff_drafts**: the proofs of the session, before and after, and the
  binding that the server compares keep drafts and files with the session that
  made them. Nothing typed is lost to a late answer, and a locked draft is being
  served.

Why the bounds are enough to be interesting.

* Seats. An overlap of windows needs two slots closer than the window, a
  difference between them a third: `ledger` has both. A violation of the limit
  needs two parties and a limit below their sum; the effect of an override on
  regular parties needs a row granted by override before and one after; the
  ledger's run keeps one override at a time, which fills a window as well as two.
* Pages. An overtaken answer needs two questions, an answer to a question put
  again a third (`MaxAsks`). A refused retry of a lost submission, then the first
  one arriving late, is three submissions (`MaxPosts`). With limits of one the
  second request of a window is refused.
* Transactions. A dangerous structure has two transactions, or three in its
  general form: `contention` has three clients. A reservation that leaves a
  service and joins another needs two services. A request is replayed or refused
  after a lost answer when it can be sent twice, and tried again after a
  conflict with two attempts: `retries`. More than three requests at once are
  not covered; what they hold and read conflicts pairwise or in chains of three.
* Keys. A key is forgotten and used again when the clock passes its life:
  `lifecycle`.
* Messages. A message outlives a lease when its life is longer than the lease,
  is retried in time when it is longer than the retry delay, and runs out of
  attempts when a second one is lost; a late worker needs a second one. Plans are
  made only when the clock has room for the message to end (`MayPlan`).
* Configuration. Slots two minutes apart under windows of four overlap; today
  has a reservation that a passing minute puts in the past, tomorrow a special
  date that keeps the usual hours. Three requests are a change, one that
  overtakes it and an edit of a special date. The time of day moves where hours
  and limits are proposed; rooms and forms do not look at it.
* Identity. What administrators do to each other, signing in again included, is
  explored with three requests; guessing a password, with the clock and a fourth
  request, apart from it (`Apart`). Days of one instant, two days by default and
  three events let the day turn, an event fall out of the filters and a page
  begin between two events of one instant; at most two events are uncommitted at
  once; the role is taken away while a further page is asked for.
* Drafts. A behaviour is about one kind of draft: the kinds share only the host.
  Two proofs in flight, two submits and three events are enough for a sign-in
  elsewhere between a proof and a save, a hidden page and its return. For
  exports each request begun is an event too, two selections tell a room from all
  of them, and bookings move only while a request is served.

Deadlock is not checked where the instance ends by its own bounds (versions,
clock, requests used up); the question "does everybody wait on everybody" is
asked by `NobodyWaitsInACircle` and `EveryRequestIsAnswered`.

**Fairness.** `FairSpec` of the transactions gives each client's step weak
fairness: the server works on what it was handed (the Node event loop serves
each connection) and a PostgreSQL lock queue is served in order. Nothing is
assumed of clients, nor of crashes and early aborts, which may happen or not.
That attempts are bounded (`MaxAttempts`, five in the code) is what makes the
answer certain; the mutant that does not count them runs forever. In
NotificationOutbox time passes and a worker's next step happens (`WF`: the loop
goes on), and its two sweeps are strongly fair: a worker that dies again and
again, and is started again each time, still gets through a sweep now and then.
Nothing is assumed of providers, of claims or of attempts: a message that is
never sent expires. The other specifications have safety only: what their users
wait for, the users may also give up.

## 4. Proofs

Each theorem holds for every value of the constants its assumption allows, so
for any number of reservations, keys, services, clients, workers, users and
attempts. The bounds that keep an instance finite (`MaxVersion`, `Horizon`, ...)
are constants as well: the theorems hold whatever they are.

* `OperatorTheorems`. The load of a window is a natural number, grows with the
  set of arrivals, and by exactly the party when a party joins it or not at all
  when it joins elsewhere (`LoadIsNatural`, `LoadIsMonotone`, `LoadOfOneMore`,
  `LoadOfOneElsewhere`). Of the log of commits, two predicates and what they
  give: `Replaced(L, n, i)` says that a commit after the first `n` wrote item
  `i`, `Met(L, n, i, j)` that one of them read `i` and wrote `j`. What was
  replaced or met stays so as the log grows. `FirstUpdaterWins`: who would write
  what was replaced since its snapshot does not commit. `TwoThatMeet`: who
  reads what another, unseen, wrote, and writes what that one read, does not
  commit either. The second is what SERIALIZABLE adds to snapshots, and all that
  the proofs about transactions know of it.

* `BookingLedger_proofs`:
  * `LedgerIsTyped`, `LimitHolds` (`RegularWithinLimit`),
    `CancelledIsFinalHolds`.

  The invariant speaks of all windows, the check only of those that contain the
  party: one step per action, and in it the windows that contain the changed row
  (the check gives the bound) and those that do not (the load is unchanged, or
  has lost the row). `RegularWithinLimit` with `TypeOK` is inductive because
  regular bookings are bounded by all bookings, which is what the check bounds.

* `ReservationService_proofs`:
  * `ServiceIsTyped`, `AuditTracksTablesHolds`, `LiveLegsAreCurrentHolds`,
    `BookedServicesAreHostedHolds`, `LinkLifeStaysHolds`,
    `SeatDiesWithScheduleHolds`, `RepeatsFindTheirBookingHolds`;
  * `KeepsTheLedgerHolds`: each handler implements the ledger. From it
    `HandlersKeepTheLimit` and `HandlersLeaveCancelled`, which are the ledger's
    own theorems through the mapping. `BookedServicesAreHosted`, a rule each
    handler keeps inside its own transaction, is proved and no question of a run.

  The handlers are shown to be of five shapes first (`HandlersWrite`): one
  stores a new reservation, rebooks or drops a confirmed one, or touches one
  without moving it, and the worker only ends messages; each part of the
  invariant is then kept by each shape. `ServiceInv` adds that an identifier not
  given out has neither versions nor a room (else a new reservation would start
  in an old seat, with an audit trail too short) and that a guest's link outlives
  the arrival by one of the configured lives (else a move would not know what to
  carry over).

* `ReservationTransactions_proofs`:
  * `TransactionsAreTyped`, `NobodyWaitsInACircleHolds`, `NoLostUpdateHolds`,
    `OneBookingPerKeyHolds`, `BookedUnderAKeyHolds`;
  * `KeepsTheLedgerHolds`: every commit is a step of the ledger, or none. From it
    `TransactionsLeaveCancelled`, and `TransactionsKeepTheLimit`: if the
    reservations that the clients find are within the limit, so are those of
    every later state.

  A commit writes what was computed on an old snapshot, so the invariant must
  say how the tables may have left it. `Explained` does: for each running
  transaction and each row that is not as its snapshot shows, the log has a commit
  it did not see that replaced the row; for each party that sits where it did not,
  one that read and wrote the arrivals of that service; for each key, one that
  read and wrote it. A commit therefore finds its own row unchanged
  (`FirstUpdaterWins`), and in the service it reads nobody has sat down since
  (`TwoThatMeet`): the load has only shrunk, and what fitted the snapshot
  fits the tables (`StillFits`). That is the whole of why the capacity check is
  sound, and the locks have no part in it. Where a lock's part is, is in waiting:
  every plan rises in one order of locks (`PlanRises`), a client waits for a lock
  above all it holds, and in a finite group the one that waits for the highest waits
  for nobody of the group. `ToldOfChanges` and `ToldOfKeys` say that what a client
  was told stays true, `Expected` and `IdsDiffer` that identifiers are new;
  without them the two properties about answers are not inductive.

* `BrowserPages_proofs`, of the booking page:
  * `SlotsAnswerTheDayHolds`, `OneBookingPerChangeHolds`;
  * `PageIsALedger`: whatever the page sends, loses and repeats, the ledger
    behind it makes a ledger's steps, so `PageKeepsTheLimit`; `AnswersStayHolds`:
    a key of the page that has its reservation is given no other.

  Questions and submissions have an invariant each. While the last question is
  open nothing is chosen, no other call has its number, and what its answer
  says was free since it was put (`CurrentCall`); what is free now has been
  seen (`FreeIsSeen`). The page has drawn no more keys than its guest made
  changes, and every submission, stray ones included, has a key it drew and asks
  for a time and somebody.

* `BrowserPages_proofs`, of the staff pages, drafts and exports together:
  * `CommittedByOwnerHolds`, `PendingIsBeingServedHolds`,
    `NothingTypedIsLostHolds`, `ExportsStayWithTheirSessionHolds`,
    `ADocumentIsOneMomentHolds`.

  The operations on a tab are composed in many orders, so each has a lemma of its
  own that says what it leaves of the tab, and the actions cite them. The
  invariants, in the order they rest on each other:

  * `SavedInOrder`: the server saves an attempt under the session the attempt is
    of, and an attempt keeps what was submitted.
  * `HostInOrder`: a locked draft owns the attempt that locked it and has its
    values (`LockedInOrder`), and that attempt is not over or its outcome is kept
    (`Attended`). What lets a draft stay locked for ever would be an attempt that
    ends without its outcome being settled or kept, so the case of interest is
    the end of an attempt while another session is being verified.
  * `PagesFit`: a request that carries a cookie other than the session it is
    asked for was sent when that session was over, and whoever is refused carried
    a session that is over. The sessions only go from unborn to live to ended
    (`SessionsGoOn`), so both stay true however late the answer comes; and a page
    that erases its drafts does it on such a refusal or such an answer, or on a
    logout that was done. That is why nothing typed is lost to a late answer.
  * `ExportsInOrder` and `PanelInOrder`: while a proof is in flight the tab is not
    authorised; intent, request and preview of the panel belong to the session
    that is shown, and who carries the last proof is among the sessions that held
    the cookie since the file came.
  * `DocumentsInOrder`: until a request is answered, the moments it has lived
    through include what the book is now and what its snapshot showed.

* `NotificationOutbox_proofs`:
  * `OutboxIsTyped`, `AnnouncementsInTurn` (`AnnouncedInTurn`), `OverIsOver`
    (`TerminalIsFinal`), `CallsOfTheLastChange` (`CallsAreCurrent`),
    `FallbackWithDeath` (`FallbackFollowsFailure`), `CallsEndWithTheirWorker`
    (`NobodyEndsAnothersCall`), all for any number of workers;
  * `OneAttemptAtATime`: with a single worker, `OneAttemptOpen`. With two it is
    false (section 6).

  They share one inductive invariant, `IInv`. A claim looks on a snapshot and
  acts later, so what a worker found must stay acceptable until it is claimed:
  `FoundIsPlanned` and `FoundInTurn` say it was planned and that no earlier
  announcement waits. That holds because whatever waits and was not asked back
  is of the last change (`OnlyCurrent`), so an earlier announcement can only be
  one that was asked back, and that never waits again. `EmailWaits` keeps a
  fallback from overwriting an email. The proof first shows what a step makes of
  the table (`WorkerStep`: a leg stays, moves on while it waits, or is an email in
  the place of a message that dies; `HandlerStep`: a change plans its own messages
  and supersedes what waits), action by action, and then that these two
  relations keep each part of the invariant. A worker that dies, or whose lease
  another took, needs no case of its own: its steps are such steps too. Beside it
  `SeenIsPast` (a sweep's clock is never ahead, so a message that dies of its age
  does so in time for its email), `EmailStandsForDead` (an email in fallback has a
  dead twin, so nobody else plans one), `OneJobEach` (who ends a call had no second
  job on the leg), and, for a single worker, `Alone`: a leg found waits, and the
  one attempt that may be open is the last, in the hands of the worker or under
  a lease that its next sweep ends.

* `Identity_proofs`, of accounts, sessions and guesses:
  * `IdentityIsTyped`, `AnAdminRemainsHolds`, `LiveSessionsAreCurrentHolds`,
    `GuessesAreBoundedHolds`.

  The invariant explains the snapshots of running requests by the log, as above:
  whoever changed an active user also read the user's sessions, to end them;
  whoever took an administrator away read who they are; whoever opened a session
  read its user. So two that demote each other, or a login and a reset, meet in
  both directions and one of them does not commit. The lifecycle lock is not used
  by the proof: SERIALIZABLE alone keeps an administrator, and the lock only
  orders who tries.

  For the guesses, `GInv` adds that a limit that is not as a running snapshot
  shows was replaced since (`LimitsExplained`), so whoever counts a failure counts
  it on the row as it is, and that the row has counted exactly the failures after
  the last pause (`Tally`): a row counts no more than block, and one that is
  cleared or begun anew, by time or by the cleanup, leaves a pause behind. Two
  rows' failures without a pause between an asking and an answer would be too
  many. Nothing is counted, so no induction over the list is needed.

* `Identity_proofs`, of the audit trail:
  * `TheListIsOneReadingHolds`, for any number of events, dated and written in any
    order while the trail is read.

  A reading is the items of a set of events, in order, from one cursor to another
  with nothing left out (`IsReading`). What a page of the merged query returns is
  one; a page read from where the list ends, under the same filters, joins it;
  events written later leave it what it was. `AInv` says that the list is a
  reading and a request under way goes on from its cursor.

* `Configuration_proofs`:
  * `ConfigurationIsTyped`, `AuditTellsTheTablesHolds`,
    `NothingIsOverwrittenHolds`, `AppliedAsConfirmedHolds`,
    `NothingLostIsUnseenHolds`.

  The invariant says how the tables have come from those of each running
  snapshot (`Explained`): a row that differs was written by a commit of the log
  since; hours that differ by one that also read the settings; a reservation that
  differs by one that read everything its place depends on. A change that is
  applied has read the reservations and writes what they depend on: had one of
  them changed since its snapshot, the two would meet in both directions and the
  change would not commit. So what it looks at when it commits is what its
  snapshot held, and its snapshot told the fingerprint of what was shown; equal
  fingerprints give equal impacts, scope by scope (`SameHeld`, `Alike`: the order
  and the identity of what a fingerprint does not contain do not matter).
  `NothingLostIsUnseenHolds` is about operators alone and needs no more of the
  tables than that they are tables: it compares the functions of the impact with
  the engine, kind of proposal by kind.

**Assumptions.** Each module states what its constants must be, and TLC evaluates
that in every run: `LedgerAssumption` and `ServiceAssumption` (finitely many
reservations; slots, limits, parties and times are natural numbers),
`TransactionAssumption` (also: requests are well formed; a create request's
identifier is free at the start, as a generated UUID is; keys of the two channels
differ, since the channel is hashed with them; services are ordered strictly, as
lock names are), `OutboxAssumption` (natural times, positive limits, a
strategy and a start to choose from), `IdentityAssumption` and `LimitAssumption`
(an administrator at the start, live sessions of the role and the password their
users have then, positive limits), `AuditAssumption` (finitely many events, named
by numbers, positive page and days), `ConfigurationAssumption` (the start is a
state of the tables whose confirmed reservations have a service that may have an
instance; proposals, wishes and edits are well formed, and nobody asks for a
table with a new reservation), `EffectiveAssumption` (a positive slot interval and
week), `FormAssumption` (a text and a language to choose from),
`StaffDraftsAssumption` and `StaffExportsAssumption` (what stands for nobody,
nowhere, no room and gone is no session, area or room). PostgreSQL is assumed as
section 2 says. Of the start of the transactions nothing is assumed but its kind, so the limit is a hypothesis of
`TransactionsKeepTheLimit`: the administrator may have lowered it below what is
booked.

**Only model-checked.**

* Liveness (`EveryRequestIsAnswered`, `EveryLegEnds`) and ENABLED, which are out of
  the prover's reach.
* That the three properties of section 6 are violated: a trace shows it.
* `DraftsTyped`, the type invariant of StaffDrafts, is no question of a run; what
  the proofs need of it is in `HostInOrder`.

Every safety invariant and action property that a run checks is a theorem.

## 5. Not modelled, and the plan

| next | module | what it is to show |
|---|---|---|
| 1 | NotificationOutbox | an abstract life of a message it implements; the backoff of the worker loop |
| 2 | StaffDrafts | a change of role within a session; several kinds of draft at once |
| 3 | PublicBookingForm | the page that manages a booking by its link |

Left out for good: dashboard queries (read-only, one snapshot), texts and layout
of pages, rendering of PDF and Excel, the projection of audit events into what
is displayed (it drops rows it cannot read), route handlers that only translate,
scripts and staging tooling (they run alone). Of the configuration: the
notification settings, whose effect is the strategy of NotificationOutbox, and
the operations of `configuration-service.ts` that nothing calls (`updateRoom`,
`updateDiningTable`, `updateWeeklySchedule`, `updateBookingSettings`).
`createReservation` with origin STAFF is left out because nothing calls it.

The instant a request is judged by is read before its transaction and its waits
(at most five attempts of 10 s and 20 s), so a change may commit that much after
the cutoff; no document bounds it and the models take the instant as the
handler's. The same holds of the instant an audit event is stamped with.

## 6. Findings

**A booking can be refused for seats that are free** (`stale_refusal`).
ADR 003 (`docs/adr/003-reservation-capacity-concurrency.md`, lines 48-49 and 81)
says that a write takes the lock of the service and then reads the confirmed
reservations again, and that cancellations free the seats at once. The lock is
taken by the first statement of a SERIALIZABLE transaction, which fixes the
snapshot before the wait. TLC's trace: a cancellation holds the lock; a booking
begins and waits; the cancellation commits; the booking gets the lock, counts
the cancelled party, and is refused with `CAPACITY_EXCEEDED`. A refusal rolls
back, so no serialization check sends it round again. No promise about the
tables is broken: the error is always on the side of refusing.

**A leg can be claimed twice** (`double_claim`). The integration test of
`claimDue` says it "allows only one concurrent claim for the same delivery leg"
(`notification-outbox.integration.test.ts:417`). The conditions on status sit in
a materialised query (`notification-worker-repository.ts:287-313`); the rows are
locked by the outer query, which joins by id (lines 314-321), in READ COMMITTED.
TLC's trace: a worker finds a leg pending; another finds it too, claims it and
commits; the first then locks the new version of the row. It is not locked, so
`SKIP LOCKED` does not skip it, and what PostgreSQL checks again on the new
version are the outer query's conditions, which hold. The update by id gives
the leg a second token. If the other worker had opened an attempt, nobody but a
later lease recovery closes it; if it was calling, the message goes out twice.
A row that is over is not reopened, because the table's check on `terminal_at`
refuses the update; that fails the whole batch. Repeating the condition on
status in the outer query, or locking in the query that has it, would close the
window.

**A schedule can be applied to reservations nobody was shown** (`impact_unseen`).
ADR 007 (`docs/adr/007-configuration-lifecycle-impact.md:39`) says that a
confirmed change whose relevant load has changed is answered with
`IMPACT_CHANGED` and a new preview. The fingerprint of a weekly schedule leaves
out the reservations of every date with an active special date
(`operational-configuration-service.ts:404-409`), while the impact counts those
on open special dates without hours of their own
(`configuration-impact.ts:154-208`). TLC's trace: shorter hours are previewed; a
reservation is made in the last slot of such a date; the hours are applied under
the old fingerprint, and the reservation is outside them. `AppliedAsConfirmed`
is what does hold: every reservation of the other dates was shown.

**Two limits of what is promised**, found while proving and stated in the
properties. A room is taken from a service while it is closed anyway, so no
reservation of it is affected and none is shown; before that commits another
administrator opens the room, or the service, again. The two write different rows
and neither needs what the other wrote, so both commit, and reservations that
the second gave their place back lose it unseen: `Found` therefore takes from the
snapshot whether service and room are open.
The limit of failed logins cannot bound the failures of a stretch of time by the
clock of the answers alone: a request carries the instant it was asked at, and
those that wait are counted in windows that are past. `GuessesAreBounded`
therefore measures from an asking to an answer.

A smaller disagreement, without a run: `delivery-policy.ts:64-66`, its test
(`notification-rules.test.ts:179`) and ADR 005 (line 52) let a pending leg
become claimed or cancelled only; `expirePending` takes it to dead, as ADR 005
says two lines below. The table of transitions is out of date, and no code asks
`canTransitionNotification`.
