----------------------------- MODULE Configuration -----------------------------
(***************************************************************************)
(* Administrators change the configuration while reservations are made.    *)
(* A change is proposed, its impact shown, and applied in a SERIALIZABLE   *)
(* transaction that waits for the restaurant's configuration lock, looks   *)
(* again, and refuses what is not what was shown.  Public settings and new *)
(* tables go the same way without an impact.  Special dates take no lock   *)
(* and are not even SERIALIZABLE: they read, then write.                   *)
(***************************************************************************)
EXTENDS RoomImpact, SerializableSnapshots

CONSTANTS
  Admin,
  Start,        \* the tables at the start
  Proposals,    \* what administrators propose
  SpecialEdits, \* what they do to special dates
  Wishes,       \* what happens to reservations
  Instants,     \* the dates and times of the clock, in order
  MaxAttempts,  \* transactions a request is given
  MaxRequests   \* bound: proposals and edits made

-----------------------------------------------------------------------------
(* The rows of the tables, and what is asked.                               *)

Hosted == DOMAIN Start.hosted

SettingsRow == [capacity : Nat \ {0}, cutoff : [Service -> Int], life : Int]

HoursRow == [enabled : BOOLEAN, start : Int, end : Int]

CutoffRow == [enabled : BOOLEAN, time : Int]

SpecialRow ==
  [date : Int, scope : Service \cup {"ALL"}, closed : BOOLEAN, start : Int,
   end : Int, capacity : Int, notes : Int, archived : BOOLEAN]

BookingRow ==
  [confirmed : BOOLEAN, date : Int, service : Service, slot : Int, party : Int,
   public : BOOLEAN, prefers : Room \cup {NoRoom}, seated : Room \cup {NoRoom},
   tables : SUBSET DOMAIN Start.dining]

RoomRow ==
  [active : BOOLEAN, order : Int, policy : {"DEFAULT_AVAILABLE", "EXPLICIT_ONLY"}]

TableRow == [room : Room \cup {NoRoom}, active : BOOLEAN]

InstanceRow == [version : Nat, available : [Room -> BOOLEAN]]

DayOfWeek == 0..(DaysInWeek - 1)

Database ==
  [settings : SettingsRow,
   schedule : [DayOfWeek \X Service -> HoursRow],
   cutoff   : [DayOfWeek \X Service -> CutoffRow],
   special  : [DOMAIN Start.special -> SpecialRow],
   booked   : [DOMAIN Start.booked -> BookingRow],
   room     : [Room -> RoomRow],
   dining   : [DOMAIN Start.dining -> TableRow],
   hosted   : [Hosted -> InstanceRow],
   contacts : [DOMAIN Start.contacts -> Int],
   contents : Int]

Proposal ==
  [kind : {"BOOKING_SETTINGS"}, row : [capacity : Nat \ {0}, cutoff : [Service -> Int]]]
    \cup [kind : {"WEEKLY_SCHEDULE"}, day : DayOfWeek, service : Service, row : HoursRow]
    \cup [kind : {"BOOKING_CUTOFF_RULE"}, day : DayOfWeek, service : Service, row : CutoffRow]
    \cup {p \in [kind : {"SERVICE_ROOM_AVAILABILITY"}, date : Int, service : Service,
                  room : Room, row : BOOLEAN] : <<p.date, p.service>> \in Hosted}
    \cup [kind : {"ROOM_CATALOG"}, room : Room, row : [active : BOOLEAN, order : Int]]
    \cup [kind : {"DINING_TABLE", "NEW_TABLE"}, table : DOMAIN Start.dining,
          row : [room : Room, active : BOOLEAN]]
    \cup [kind : {"CONTACTS"}, row : [DOMAIN Start.contacts -> Int]]
    \cup [kind : {"CONTENTS"}, row : Int \ {None}]
    \cup [kind : {"LINK_LIFE"}, row : Int]

(* Who makes a reservation is given no table with it.                      *)
Wish ==
  {w \in [kind : {"create"}, booking : DOMAIN Start.booked, row : BookingRow] :
     <<w.row.date, w.row.service>> \in Hosted /\ w.row.tables = {}}
    \cup [kind : {"cancel"}, booking : DOMAIN Start.booked]
    \cup [kind : {"assign"}, booking : DOMAIN Start.booked, room : Room \cup {NoRoom},
          tables : SUBSET DOMAIN Start.dining]

ASSUME ConfigurationAssumption ==
  /\ NoRoom \notin Room /\ "desk" \notin Admin
  /\ MaxAttempts \in Nat \ {0} /\ MaxRequests \in Nat
  /\ Len(Instants) \in Nat \ {0}
  /\ Hosted \subseteq Int \X Service
  /\ Start \in Database
  /\ IsFiniteSet(DOMAIN Start.booked)
  /\ \A b \in Confirmed(Start) :
       <<Start.booked[b].date, Start.booked[b].service>> \in Hosted
  /\ Proposals \subseteq Proposal
  /\ Wishes \subseteq Wish
  /\ \A e \in SpecialEdits : /\ e.kind \in {"create", "update", "archive", "reactivate"}
                            /\ e.row \in SpecialRow

VARIABLES
  db,      \* the committed tables
  trail,   \* the configuration as the audit log tells it
  clock,
  log,     \* commits a running transaction may overlap
  panel,   \* an administrator's page: what it shows and asks for
  holder,  \* who has the configuration lock, if anybody
  editor,  \* an edit of a special date between its read and its write
  desk,    \* a request about a reservation
  sent

vars == <<db, trail, clock, log, panel, holder, editor, desk, sent>>

at == Instants[clock]

Impacting == {"BOOKING_SETTINGS", "WEEKLY_SCHEDULE", "BOOKING_CUTOFF_RULE"}

OfRooms == {"SERVICE_ROOM_AVAILABILITY", "ROOM_CATALOG", "DINING_TABLE"}

(* Saved with the fingerprint the form was loaded with.                    *)
OfForms == {"CONTACTS", "CONTENTS", "LINK_LIFE"}

Previewed == Impacting \cup OfRooms

(* The columns a proposal is about.                                        *)
Settings(T) == [capacity |-> T.settings.capacity, cutoff |-> T.settings.cutoff]

Current(T, p) ==
  CASE p.kind = "BOOKING_SETTINGS"    -> Settings(T)
    [] p.kind = "WEEKLY_SCHEDULE"     -> T.schedule[<<p.day, p.service>>]
    [] p.kind = "BOOKING_CUTOFF_RULE" -> T.cutoff[<<p.day, p.service>>]
    [] p.kind = "CONTACTS"            -> T.contacts
    [] p.kind = "CONTENTS"            -> T.contents
    [] p.kind = "LINK_LIFE"           -> T.settings.life
    [] p.kind = "NEW_TABLE"           -> T.dining[p.table]
    [] p.kind \in OfRooms             -> RoomCurrent(T, p)

NoCutoff == [enabled |-> FALSE, time |-> None]

(* To disable a cutoff rule that is not there is no change.                *)
Changed(T, p) ==
  CASE p.kind \in OfRooms -> RoomChanged(T, p)
    [] p.kind = "BOOKING_CUTOFF_RULE" ->
         /\ Current(T, p) # p.row
         /\ Current(T, p) = NoCutoff => p.row.enabled
    [] OTHER -> Current(T, p) # p.row

(* Neither the past nor what does not exist can be changed, and no two     *)
(* tables of a room have one name.                                         *)
Exists(T, p, when) ==
  CASE p.kind = "SERVICE_ROOM_AVAILABILITY" -> p.date >= when.date
    [] p.kind = "DINING_TABLE"              -> T.dining[p.table].room # NoRoom
    [] p.kind = "NEW_TABLE"                 -> T.dining[p.table].room = NoRoom
    [] OTHER                                -> TRUE

AffectedBy(T, p, when) ==
  IF p.kind \in OfRooms THEN RoomAffected(T, p, when) ELSE Affected(T, p, when)

(* Mutant: the reservations are left out of the fingerprint.               *)
CurrentAlone(T, p, when) == [current |-> Current(T, p), needs |-> NoNeeds]

(* Mutant: the dependencies without the row itself.                        *)
NeedsAlone(T, p, when) ==
  [current |-> << >>,
   needs |-> IF p.kind \in OfRooms THEN RoomNeeds(T, p, when) ELSE Needs(T, p, when)]

Fingerprint(T, p, when) ==
  [current |-> Current(T, p),
   needs   |-> IF p.kind \in OfRooms THEN RoomNeeds(T, p, when)
               ELSE Needs(T, p, when)]

(* What a preview shows as it is, beside the proposal.                     *)
AsItIs(T, p) ==
  CASE p.kind = "SERVICE_ROOM_AVAILABILITY" ->
         Configured(T, p.date, p.service)[p.room]
    [] p.kind = "ROOM_CATALOG" -> <<T.room[p.room].active, T.room[p.room].order>>
    [] p.kind = "DINING_TABLE" -> T.dining[p.table]
    [] OTHER                   -> Current(T, p)

Preview(T, p, when) ==
  [proposal |-> p, changed |-> Changed(T, p), current |-> AsItIs(T, p),
   fingerprint |-> Fingerprint(T, p, when), affected |-> AffectedBy(T, p, when)]

NeedsConfirmation(v) == v.changed /\ v.affected # {}

NoPreview == [proposal |-> [kind |-> "NONE"], changed |-> FALSE,
              current |-> << >>,
              fingerprint |-> [current |-> << >>, needs |-> NoNeeds],
              affected |-> {}]

(* The public settings are rows of their own, but for the life of links.   *)
FormApplied(T, p) ==
  CASE p.kind = "CONTACTS"  -> [T EXCEPT !.contacts = p.row]
    [] p.kind = "CONTENTS"  -> [T EXCEPT !.contents = p.row]
    [] p.kind = "LINK_LIFE" -> [T EXCEPT !.settings.life = p.row]

TableCreated(T, p) == [T EXCEPT !.dining[p.table] = p.row]

(* A change rewrites the columns it is about.                              *)
Applied(T, p) ==
  CASE p.kind = "BOOKING_SETTINGS" ->
         [T EXCEPT !.settings.capacity = p.row.capacity,
                   !.settings.cutoff = p.row.cutoff]
    [] p.kind = "WEEKLY_SCHEDULE" ->
         [T EXCEPT !.schedule[<<p.day, p.service>>] = p.row]
    [] p.kind = "BOOKING_CUTOFF_RULE" ->
         [T EXCEPT !.cutoff[<<p.day, p.service>>] = p.row]
    [] p.kind \in OfForms   -> FormApplied(T, p)
    [] p.kind = "NEW_TABLE" -> TableCreated(T, p)
    [] p.kind \in OfRooms   -> RoomApplied(T, p)

-----------------------------------------------------------------------------
(* The audit log.  What it tells of a service's rooms are single           *)
(* availabilities, of contacts which of them there are, of contents        *)
(* whether they are complete, and of a special date not what its notes say.*)

Present(contacts) == {f \in DOMAIN contacts : contacts[f] # None}

Availabilities(T) == [h \in DOMAIN T.hosted |-> Configured(T, h[1], h[2])]

Told(rule) ==
  [rule EXCEPT !.notes = IF rule.notes = None THEN None ELSE 0]

AsTold(T) ==
  [settings |-> T.settings, schedule |-> T.schedule, cutoff |-> T.cutoff,
   special |-> [i \in DOMAIN T.special |-> Told(T.special[i])],
   contacts |-> Present(T.contacts), contents |-> T.contents # None,
   room |-> T.room, dining |-> T.dining, rooms |-> Availabilities(T)]

(* The event of a change repeats the proposal, beside what it leaves: the  *)
(* form of contacts tells which there are, that of contents that there are *)
(* all.                                                                    *)
RecordedOfForm(p) ==
  CASE p.kind = "CONTACTS"  -> [trail EXCEPT !.contacts = Present(p.row)]
    [] p.kind = "CONTENTS"  -> [trail EXCEPT !.contents = TRUE]
    [] p.kind = "LINK_LIFE" -> [trail EXCEPT !.settings.life = p.row]

RecordedOfRooms(p) ==
  CASE p.kind = "DINING_TABLE" -> [trail EXCEPT !.dining[p.table] = p.row]
    [] p.kind = "ROOM_CATALOG" ->
         [trail EXCEPT !.room[p.room].active = p.row.active,
                       !.room[p.room].order = p.row.order]
    [] p.kind = "SERVICE_ROOM_AVAILABILITY" ->
         [trail EXCEPT !.rooms[<<p.date, p.service>>][p.room] = p.row]

Recorded(p) ==
  CASE p.kind = "BOOKING_SETTINGS" ->
         [trail EXCEPT !.settings.capacity = p.row.capacity,
                       !.settings.cutoff = p.row.cutoff]
    [] p.kind = "WEEKLY_SCHEDULE" ->
         [trail EXCEPT !.schedule[<<p.day, p.service>>] = p.row]
    [] p.kind = "BOOKING_CUTOFF_RULE" ->
         [trail EXCEPT !.cutoff[<<p.day, p.service>>] = p.row]
    [] p.kind \in OfForms   -> RecordedOfForm(p)
    [] p.kind = "NEW_TABLE" -> [trail EXCEPT !.dining[p.table] = p.row]
    [] p.kind \in OfRooms   -> RecordedOfRooms(p)

-----------------------------------------------------------------------------
(* What transactions read and write.  A predicate stands for the           *)
(* reservations of a service; special dates are not among the items,       *)
(* because those who write them are not SERIALIZABLE.                      *)

Row(table, key) == <<table, key>>
BookedAt(date, service) == <<"reservations of", date, service>>

All(table, T) == {Row(table, k) : k \in DOMAIN T}
AllBooked == {BookedAt(h[1], h[2]) : h \in Hosted}

ServiceReads(T, date, service) ==
  {Row("settings", 0), Row("schedule", <<Weekday(date), service>>),
   Row("cutoff", <<Weekday(date), service>>), Row("hosted", <<date, service>>)}
    \cup All("room", T.room)

TableRows(T, B) == UNION {{Row("dining", t) : t \in T.booked[b].tables} : b \in B}

Reads(T, p, when) ==
  CASE p.kind \in Impacting ->
         {Row("settings", 0)} \cup All("schedule", T.schedule)
           \cup All("cutoff", T.cutoff) \cup AllBooked
    [] p.kind = "SERVICE_ROOM_AVAILABILITY" ->
         ServiceReads(T, p.date, p.service)
           \cup (IF Destructive(T, p) THEN {BookedAt(p.date, p.service)} ELSE {})
           \cup TableRows(T, RoomAffected(T, p, when))
    [] p.kind \in {"ROOM_CATALOG", "DINING_TABLE"} ->
         (IF p.kind = "ROOM_CATALOG" THEN {Row("room", p.room)}
          ELSE {Row("dining", p.table), Row("room", T.dining[p.table].room)})
           \cup (IF Destructive(T, p) THEN AllBooked ELSE {})
           \cup TableRows(T, RoomAffected(T, p, when))
    [] p.kind \in OfForms ->
         {Row("settings", 0), Row("contacts", 0), Row("contents", 0)}
    [] p.kind = "NEW_TABLE" -> {Row("room", p.row.room)}

Writes(p) ==
  CASE p.kind \in {"BOOKING_SETTINGS", "LINK_LIFE"} -> {Row("settings", 0)}
    [] p.kind = "WEEKLY_SCHEDULE"     -> {Row("schedule", <<p.day, p.service>>)}
    [] p.kind = "BOOKING_CUTOFF_RULE" -> {Row("cutoff", <<p.day, p.service>>)}
    [] p.kind = "CONTACTS"            -> {Row("contacts", 0)}
    [] p.kind = "CONTENTS"            -> {Row("contents", 0)}
    [] p.kind = "SERVICE_ROOM_AVAILABILITY" ->
         {Row("hosted", <<p.date, p.service>>)}
    [] p.kind = "ROOM_CATALOG"        -> {Row("room", p.room)}
    [] p.kind \in {"DINING_TABLE", "NEW_TABLE"} -> {Row("dining", p.table)}

PanelEntry(a) ==
  LET S == panel[a].snap
      p == panel[a].shown.proposal
  IN  [since |-> S.since, reads |-> Reads(S.db, p, panel[a].when),
       writes |-> Writes(p)]

DeskReads(T, w) ==
  CASE w.kind = "create" -> ServiceReads(T, w.row.date, w.row.service)
                              \cup {BookedAt(w.row.date, w.row.service)}
    [] w.kind = "cancel" -> {Row("booked", w.booking)}
    [] w.kind = "assign" ->
         LET r == T.booked[w.booking] IN
         {Row("booked", w.booking)} \cup ServiceReads(T, r.date, r.service)
           \cup {Row("dining", t) : t \in w.tables}

DeskWrites(T, w) ==
  LET r == IF w.kind = "create" THEN w.row ELSE T.booked[w.booking] IN
  {Row("booked", w.booking), BookedAt(r.date, r.service)}
    \cup (IF w.kind = "create" /\ Virtual(T, r.date, r.service)
            THEN {Row("hosted", <<r.date, r.service>>)} ELSE {})

DeskEntry ==
  [since |-> desk.snap.since, reads |-> DeskReads(desk.snap.db, desk.wish),
   writes |-> DeskWrites(desk.snap.db, desk.wish)]

Clashes(entry) ==
  Overwritten(log, entry.since, {i \in entry.writes : Len(i) = 2})

(* Mutant: REPEATABLE READ.                                                *)
WritersConflict(entry) == Clashes(entry)

Conflict(entry) == Clashes(entry) \/ Dangerous(Append(log, entry))

Running(a) == panel[a].stage = "running"

(* Commits are remembered for as long as somebody may overlap them.        *)
Logged(who, L) ==
  log' = IF (\E a \in Admin \ {who} : Running(a)) \/ (who # "desk" /\ desk.busy)
           THEN L ELSE << >>

-----------------------------------------------------------------------------
NoSnapshot == [db |-> Start, since |-> 0]

Idle == [stage |-> "idle", shown |-> NoPreview, dialog |-> FALSE,
         when |-> Instants[1], snap |-> NoSnapshot, tries |-> 0]

NoWish == [kind |-> "none"]

NoEdit == [kind |-> "none"]

Init ==
  /\ db = Start
  /\ trail = AsTold(Start)
  /\ clock = 1
  /\ log = << >>
  /\ panel = [a \in Admin |-> Idle]
  /\ holder = {}
  /\ editor = [a \in Admin |-> NoEdit]
  /\ desk = [busy |-> FALSE, wish |-> NoWish, snap |-> NoSnapshot]
  /\ sent = 0

Tick ==
  /\ clock < Len(Instants)
  /\ clock' = clock + 1
  /\ UNCHANGED <<db, trail, log, panel, holder, editor, desk, sent>>

Sends == sent < MaxRequests /\ sent' = sent + 1

Requested(v, dialog) ==
  [Idle EXCEPT !.stage = "ready", !.shown = v, !.dialog = dialog, !.when = at]

MayPreview(p) == p.kind \in Previewed /\ Exists(db, p, at)

(* A proposal is previewed.  One with an impact opens the dialog, one      *)
(* without is applied at once, one that changes nothing is answered so.    *)
Propose(a) ==
  /\ panel[a] = Idle
  /\ Sends
  /\ \E p \in Proposals :
       LET v == Preview(db, p, at) IN
       /\ MayPreview(p)
       /\ v.changed
       /\ panel' = [panel EXCEPT ![a] =
                      IF NeedsConfirmation(v)
                        THEN [Idle EXCEPT !.shown = v, !.dialog = TRUE]
                      ELSE Requested(v, FALSE)]
  /\ UNCHANGED <<db, trail, clock, log, holder, editor, desk>>

(* Public settings are read with their fingerprints, to be saved later;    *)
(* a new table is asked for as it is.                                      *)
OpenForm(a) ==
  /\ panel[a] = Idle
  /\ Sends
  /\ \E p \in Proposals :
       \/ /\ p.kind \in OfForms
          /\ panel' = [panel EXCEPT ![a] =
                         [Idle EXCEPT !.shown = Preview(db, p, at), !.dialog = TRUE]]
       \/ /\ p.kind = "NEW_TABLE"
          /\ panel' = [panel EXCEPT ![a] = Requested(Preview(db, p, at), FALSE)]
  /\ UNCHANGED <<db, trail, clock, log, holder, editor, desk>>

Open(a) == panel[a].stage = "idle" /\ panel[a].dialog

Confirm(a) ==
  /\ Open(a)
  /\ panel' = [panel EXCEPT ![a] = Requested(panel[a].shown, TRUE)]
  /\ UNCHANGED <<db, trail, clock, log, holder, editor, desk, sent>>

Cancel(a) ==
  /\ Open(a)
  /\ panel' = [panel EXCEPT ![a] = Idle]
  /\ UNCHANGED <<db, trail, clock, log, holder, editor, desk, sent>>

(* The first statement fixes the snapshot: the request for the lock, or    *)
(* the question whether the administrator still is one.                    *)
Begin(a) ==
  /\ panel[a].stage = "ready"
  /\ panel' = [panel EXCEPT ![a].stage = "running", ![a].tries = @ + 1,
                            ![a].snap = [db |-> db, since |-> Len(log)]]
  /\ UNCHANGED <<db, trail, clock, log, holder, editor, desk, sent>>

Acquire(a) ==
  /\ Running(a)
  /\ holder = {}
  /\ holder' = {a}
  /\ UNCHANGED <<db, trail, clock, log, panel, editor, desk, sent>>

(* What the transaction finds when it looks again.                         *)
Again(a) == Preview(panel[a].snap.db, panel[a].shown.proposal, panel[a].when)

SameAsShown(a) ==
  \/ panel[a].shown.proposal.kind = "NEW_TABLE"
  \/ Again(a).fingerprint = panel[a].shown.fingerprint

Possible(a) == Exists(panel[a].snap.db, panel[a].shown.proposal, panel[a].when)

Done(a, page) ==
  /\ panel' = [panel EXCEPT ![a] = page]
  /\ holder' = holder \ {a}
  /\ UNCHANGED <<clock, editor, desk, sent>>

Apply(a) ==
  LET p == panel[a].shown.proposal IN
  /\ Running(a) /\ a \in holder
  /\ Possible(a)
  /\ SameAsShown(a)
  /\ Again(a).changed
  /\ ~Conflict(PanelEntry(a))
  /\ db' = Applied(db, p)
  /\ trail' = Recorded(p)
  /\ Logged(a, Append(log, PanelEntry(a)))
  /\ Done(a, Idle)

(* The panel of the configuration shows whatever preview comes back, that  *)
(* of the rooms only one to be confirmed, a form what it showed before.    *)
ImpactChanged(a) ==
  LET v == Again(a) IN
  /\ Running(a) /\ a \in holder
  /\ Possible(a)
  /\ ~SameAsShown(a)
  /\ Done(a, CASE v.proposal.kind \in Impacting ->
                    [Idle EXCEPT !.shown = v, !.dialog = TRUE]
               [] v.proposal.kind \in OfRooms ->
                    IF NeedsConfirmation(v)
                      THEN [Idle EXCEPT !.shown = v, !.dialog = TRUE] ELSE Idle
               [] OTHER -> [Idle EXCEPT !.shown = panel[a].shown, !.dialog = TRUE])
  /\ Logged(a, log)
  /\ UNCHANGED <<db, trail>>

(* A preview that came back may be of a change made meanwhile.             *)
NothingToChange(a) ==
  /\ Running(a) /\ a \in holder
  /\ Possible(a)
  /\ SameAsShown(a)
  /\ ~Again(a).changed
  /\ Done(a, Idle)
  /\ Logged(a, log)
  /\ UNCHANGED <<db, trail>>

TriesAgain(a) == panel[a].tries < MaxAttempts

(* PostgreSQL ends a transaction in conflict, and sometimes one that is    *)
(* not.  It is tried again, and at last fails, as does one for what does   *)
(* not exist or for a name that is taken: the dialog stays as it was.      *)
Abort(a) ==
  /\ Running(a)
  /\ \/ log # << >>
     \/ ~Possible(a)
     \/ desk.busy
     \/ \E b \in Admin \ {a} : Running(b)
  /\ \/ /\ TriesAgain(a)
        /\ Done(a, [panel[a] EXCEPT !.stage = "ready", !.snap = NoSnapshot])
     \/ Done(a, IF panel[a].dialog
                  THEN [Idle EXCEPT !.shown = panel[a].shown, !.dialog = TRUE]
                ELSE Idle)
  /\ Logged(a, log)
  /\ UNCHANGED <<db, trail>>

-----------------------------------------------------------------------------
(* Reservations are made, withdrawn and given a room meanwhile, one at a   *)
(* time: what they do to each other is not the concern of this module.     *)

Takes(T, w) ==
  LET r == IF w.kind = "create" THEN w.row ELSE T.booked[w.booking] IN
  CASE w.kind = "create" ->
         /\ SlotAnswer(T, r, at) \in
              (IF r.public THEN {"FREE"} ELSE {"FREE", "CAPACITY_EXCEEDED"})
         /\ r.prefers # NoRoom => Available(T, r.prefers, r.date, r.service)
    [] w.kind = "cancel" -> r.confirmed
    [] w.kind = "assign" ->
         /\ r.confirmed
         /\ <<r.seated, r.tables>> # <<w.room, w.tables>>
         /\ w.room \notin {NoRoom, r.seated} =>
              /\ T.room[w.room].active
              /\ r.date < at.date \/ Available(T, w.room, r.date, r.service)
         /\ \A t \in w.tables :
              /\ T.dining[t].room = w.room
              /\ T.dining[t].active \/ (w.room = r.seated /\ t \in r.tables)

Taken(w) ==
  CASE w.kind = "create" ->
         [Materialized(db, w.row.date, w.row.service) EXCEPT
            !.booked[w.booking] = w.row]
    [] w.kind = "cancel" -> [db EXCEPT !.booked[w.booking].confirmed = FALSE]
    [] w.kind = "assign" -> [db EXCEPT !.booked[w.booking].seated = w.room,
                                       !.booked[w.booking].tables = w.tables]

DeskBegin ==
  /\ ~desk.busy
  /\ Sends
  /\ \E w \in Wishes :
       /\ w.kind = "create" => db.booked[w.booking].date = None
       /\ w.kind # "create" => db.booked[w.booking].date # None
       /\ Takes(db, w)
       /\ desk' = [busy |-> TRUE, wish |-> w,
                   snap |-> [db |-> db, since |-> Len(log)]]
  /\ UNCHANGED <<db, trail, clock, log, panel, holder, editor>>

(* A room is given under the configuration lock.                           *)
DeskAcquire ==
  /\ desk.busy /\ desk.wish.kind = "assign"
  /\ holder = {}
  /\ holder' = {"desk"}
  /\ UNCHANGED <<db, trail, clock, log, panel, editor, desk, sent>>

DeskDone ==
  /\ desk' = [busy |-> FALSE, wish |-> NoWish, snap |-> NoSnapshot]
  /\ holder' = holder \ {"desk"}
  /\ UNCHANGED <<trail, clock, panel, editor, sent>>

DeskCommit ==
  /\ desk.busy
  /\ desk.wish.kind = "assign" => "desk" \in holder
  /\ Takes(desk.snap.db, desk.wish)
  /\ ~Conflict(DeskEntry)
  /\ db' = Taken(desk.wish)
  /\ Logged("desk", Append(log, DeskEntry))
  /\ DeskDone

DeskAbort ==
  /\ desk.busy
  /\ log # << >> \/ \E a \in Admin : Running(a)
  /\ Logged("desk", log)
  /\ DeskDone
  /\ UNCHANGED db

-----------------------------------------------------------------------------
(* Special dates.                                                          *)

SameDay(T, rule) ==
  {i \in DOMAIN T.special : /\ T.special[i].date = rule.date
                            /\ T.special[i].scope = rule.scope}

(* What an edit finds to do when it reads.  A date that is in force is not *)
(* created again, one that is archived is put back in force with what is   *)
(* asked.  An archived date is not updated, and an update that tells the   *)
(* log nothing new writes nothing.                                         *)
Worthwhile(e) ==
  CASE e.kind = "create" -> \A i \in SameDay(db, e.row) : db.special[i].archived
    [] e.kind = "update" ->
         /\ db.special[e.id].date # None
         /\ ~db.special[e.id].archived
         /\ Told(db.special[e.id]) # Told(e.row)
    [] e.kind = "archive"    -> db.special[e.id].date # None /\ ~db.special[e.id].archived
    [] e.kind = "reactivate" -> db.special[e.id].date # None /\ db.special[e.id].archived

ReadSpecialDate(a) ==
  /\ editor[a] = NoEdit
  /\ panel[a] = Idle
  /\ Sends
  /\ \E e \in SpecialEdits :
       /\ Worthwhile(e)
       /\ editor' = [editor EXCEPT ![a] =
            [kind |-> e.kind, row |-> e.row,
             id |-> IF e.kind # "create" THEN e.id
                    ELSE IF SameDay(db, e.row) = {} THEN None
                         ELSE CHOOSE i \in SameDay(db, e.row) : TRUE]]
  /\ UNCHANGED <<db, trail, clock, log, panel, holder, desk>>

(* The identifier of a new row.                                            *)
Fresh == CHOOSE i \in DOMAIN db.special : db.special[i].date = None

Target(e) == IF e.id = None THEN Fresh ELSE e.id

(* Only a row put back in force has its archiving rewritten with the rest. *)
Written(e) ==
  LET was == db.special[Target(e)] IN
  CASE e.kind = "create"     -> [e.row EXCEPT !.archived = FALSE]
    [] e.kind = "update"     -> [e.row EXCEPT !.archived = was.archived]
    [] e.kind = "archive"    -> [was EXCEPT !.archived = TRUE]
    [] e.kind = "reactivate" -> [was EXCEPT !.archived = FALSE]

(* Mutant: the event tells what was asked for.                             *)
ToldOfRequest(e) ==
  IF e.kind = "update" THEN Told([e.row EXCEPT !.archived = FALSE])
  ELSE Told(Written(e))

(* The event tells the row as it is read back after the write.             *)
ToldOfEdit(e) == Told(Written(e))

(* Two dates are not for the same day and scope: who would write a second  *)
(* is told so.                                                             *)
Unique(e) ==
  e.kind \in {"create", "update"} => SameDay(db, e.row) \subseteq {e.id}

WriteSpecialDate(a) ==
  /\ editor[a] # NoEdit
  /\ Unique(editor[a])
  /\ LET e == editor[a] IN
       /\ db' = [db EXCEPT !.special[Target(e)] = Written(e)]
       /\ trail' = [trail EXCEPT !.special[Target(e)] = ToldOfEdit(e)]
  /\ editor' = [editor EXCEPT ![a] = NoEdit]
  /\ UNCHANGED <<clock, log, panel, holder, desk, sent>>

DuplicateSpecialDate(a) ==
  /\ editor[a] # NoEdit
  /\ ~Unique(editor[a])
  /\ editor' = [editor EXCEPT ![a] = NoEdit]
  /\ UNCHANGED <<db, trail, clock, log, panel, holder, desk, sent>>

-----------------------------------------------------------------------------
Next ==
  \/ Tick
  \/ \E a \in Admin :
       \/ Propose(a) \/ OpenForm(a) \/ Confirm(a) \/ Cancel(a)
       \/ Begin(a) \/ Acquire(a)
       \/ Apply(a) \/ ImpactChanged(a) \/ NothingToChange(a) \/ Abort(a)
       \/ ReadSpecialDate(a) \/ WriteSpecialDate(a) \/ DuplicateSpecialDate(a)
  \/ DeskBegin \/ DeskAcquire \/ DeskCommit \/ DeskAbort

Spec == Init /\ [][Next]_vars
-----------------------------------------------------------------------------
TypeOK ==
  /\ db \in Database
  /\ clock \in 1..Len(Instants)
  /\ \A a \in Admin : /\ panel[a].stage \in {"idle", "ready", "running"}
                      /\ panel[a].tries \in 0..MaxAttempts
  /\ holder \in {{}} \cup {{x} : x \in Admin \cup {"desk"}}
  /\ sent \in 0..MaxRequests

(* The tables as a change confirmed by a finds them when it commits, but   *)
(* for what nothing keeps from changing meanwhile: special dates, and      *)
(* whether a service and a room are open when the room is taken away from  *)
(* the service.                                                            *)
Found(a) ==
  LET S == panel[a].snap.db IN
  IF panel[a].shown.proposal.kind = "SERVICE_ROOM_AVAILABILITY"
    THEN [S EXCEPT !.booked = db.booked]
  ELSE [db EXCEPT !.special = S.special]

(* Reservations of a day with a special date of its own are not part of    *)
(* what is compared when a weekly schedule is applied.                     *)
Compared(a, b) ==
  panel[a].shown.proposal.kind = "WEEKLY_SCHEDULE" => OverrideOf(Found(a), b) = NoRule

Unseen(a) ==
  AffectedBy(Found(a), panel[a].shown.proposal, panel[a].when) \ panel[a].shown.affected

(* A change that is applied touches no reservation, as committed at that   *)
(* moment, that the administrator was not shown, whatever was booked,      *)
(* withdrawn or seated between the preview and the commit, the wait for    *)
(* the lock included (applyOperationalConfigurationChange,                 *)
(* applyRoomConfigurationChange).                                          *)
AppliedAsConfirmed ==
  [][\A a \in Admin : Apply(a) => \A b \in Unseen(a) : ~Compared(a, b)]_vars

(* The same of every reservation, as the decision record has it: "Se       *)
(* proposta, configurazione o carico rilevante sono cambiati, restituisce  *)
(* IMPACT_CHANGED con una nuova anteprima".                                *)
AppliedAsShown == [][\A a \in Admin : Apply(a) => Unseen(a) = {}]_vars

(* A change replaces what its author was shown, not what somebody else     *)
(* put in its place meanwhile (assertFingerprint and the fingerprints of   *)
(* the previews).                                                          *)
NothingIsOverwritten ==
  [][\A a \in Admin :
       Apply(a) => AsItIs(db, panel[a].shown.proposal) = panel[a].shown.current]_vars

(* Reservations of the future that the engine serves, and those whose      *)
(* window is within its limit.                                             *)
Served(T) ==
  {b \in Future(T, at) :
     LET r == T.booked[b]
         e == Effective(T, r.date, r.service)
     IN  e.open /\ e.start <= r.slot /\ r.slot <= e.end}

Crowded(T, b) ==
  LET r == T.booked[b]
      e == Effective(T, r.date, r.service)
  IN  \E start \in AffectedWindows(ServiceSlots(e), r.slot, Window) :
        WindowLoad(T.booked, Future(T, at) \cap Arrivals(T, r.date, r.service),
                   MaxParty, start, Window) > e.capacity

(* A reservation has the places it asks for or was given.                  *)
HasItsPlace(T, b) ==
  LET r == T.booked[b] IN
  /\ \A room \in {r.prefers, r.seated} \ {NoRoom} : Available(T, room, r.date, r.service)
  /\ \A t \in r.tables : T.dining[t].active

(* Whatever is proposed, in whatever state: a reservation the engine would *)
(* no longer serve, would find beyond the capacity where it is lowered, or *)
(* that would lose its place to a change of the rooms, is among those the  *)
(* administrator is shown (configuration-impact.ts and                     *)
(* room-configuration-service.ts, against the engine).                     *)
NothingLostIsUnseen ==
  \A p \in {q \in Proposals : q.kind \in Previewed} :
    LET T == Applied(db, p)
        lost == CASE p.kind \in OfRooms ->
                       {b \in Confirmed(db) : /\ db.booked[b].date >= at.date
                                              /\ HasItsPlace(db, b)
                                              /\ ~HasItsPlace(T, b)}
                  [] p.kind = "BOOKING_SETTINGS" ->
                       {b \in Served(T) : ~Crowded(db, b) /\ Crowded(T, b)}
                  [] OTHER -> Served(db) \ Served(T)
    IN  lost \subseteq AffectedBy(db, p, at)

(* The audit log, read from the start, tells the configuration there is,   *)
(* special dates included, whose edits run unlocked between a read and a   *)
(* write (writeConfigurationAudit, insertAuditEvent).                      *)
AuditTellsTheTables == trail = AsTold(db)
==============================================================================
