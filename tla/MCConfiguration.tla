-------------------------- MODULE MCConfiguration --------------------------
(* Two administrators and two days of lunches, six minutes long.  Today z    *)
(* sits at a table of room g; tomorrow, a special day that changes nothing,  *)
(* x is the last to come; y books when it can.                               *)
EXTENDS Configuration, TLC

CONSTANTS g, h, t, u, x, y, z

VARIABLE topic

Seat(date, slot, party, public) ==
  [confirmed |-> TRUE, date |-> date, service |-> "LUNCH", slot |-> slot,
   party |-> party, public |-> public, prefers |-> NoRoom, seated |-> NoRoom,
   tables |-> {}]

Week(enabled, start, end) == [enabled |-> enabled, start |-> start, end |-> end]

Special(date, scope, closed, end, capacity, notes) ==
  [NoRule EXCEPT !.date = date, !.scope = scope, !.closed = closed,
                 !.start = IF end = None THEN None ELSE 0, !.end = end,
                 !.capacity = capacity,
                 !.notes = notes, !.archived = FALSE]

Limits(capacity, lunch) ==
  [capacity |-> capacity, cutoff |-> [s \in Service |-> IF s = "LUNCH" THEN lunch ELSE 1]]

Table(room, active) == [room |-> room, active |-> active]

Days == {0, 1} \X Service

MCStart ==
  [settings |-> [capacity |-> 3, life |-> 1] @@ Limits(3, 1),
   schedule |-> [d \in Days |-> Week(TRUE, 0, 4)],
   cutoff   |-> [d \in Days |-> NoCutoff],
   special  |-> 1 :> Special(1, "ALL", FALSE, None, None, None) @@ 2 :> NoRule,
   booked   |-> x :> Seat(1, 4, 2, TRUE)
                  @@ y :> [Seat(None, 4, 1, FALSE) EXCEPT !.confirmed = FALSE]
                  @@ z :> [Seat(0, 2, 1, FALSE) EXCEPT !.prefers = g, !.seated = g,
                                                       !.tables = {t}],
   room     |-> [r \in Room |-> [active |-> TRUE, order |-> 1,
                                 policy |-> "DEFAULT_AVAILABLE"]],
   dining   |-> t :> Table(g, TRUE) @@ u :> Table(NoRoom, FALSE),
   hosted   |-> [d \in {0, 1} \X {"LUNCH"} |->
                   [version |-> 0, available |-> [r \in Room |-> FALSE]]],
   contacts |-> [phone |-> 1, address |-> None],
   contents |-> None]

MCInstants == <<[date |-> 0, time |-> 1], [date |-> 0, time |-> 3]>>

-----------------------------------------------------------------------------
Of(kind, row) == [kind |-> kind, row |-> row]
Weekly(day, row) == Of("WEEKLY_SCHEDULE", row) @@ [day |-> day, service |-> "LUNCH"]
CutoffRule(row) == Of("BOOKING_CUTOFF_RULE", row) @@ [day |-> 0, service |-> "LUNCH"]
RoomOn(date, r, row) ==
  Of("SERVICE_ROOM_AVAILABILITY", row) @@ [date |-> date, service |-> "LUNCH", room |-> r]
Catalog(r, row) == Of("ROOM_CATALOG", row) @@ [room |-> r]
ADining(kind, i, row) == Of(kind, row) @@ [table |-> i]

Edit(kind, id, row) == [kind |-> kind, id |-> id, row |-> row]

Create(b, row) == [kind |-> "create", booking |-> b, row |-> row]
Withdraw(b) == [kind |-> "cancel", booking |-> b]
Assign(b, r, tables) == [kind |-> "assign", booking |-> b, room |-> r, tables |-> tables]

(* Hours: of today and tomorrow, with tomorrow's special date.             *)
Hours ==
  [proposals |-> {Weekly(1, Week(TRUE, 0, 2)), Weekly(0, Week(FALSE, 0, 4))},
   edits     |-> {Edit("create", None, Special(1, "LUNCH", TRUE, None, None, None)),
                  Edit("update", 1, Special(1, "ALL", FALSE, 4, None, None))},
   wishes    |-> {Create(y, Seat(1, 4, 1, FALSE))}]

(* Limits: capacity and the two cutoffs.                                   *)
Bounds ==
  [proposals |-> {Of("BOOKING_SETTINGS", Limits(2, 2)),
                  CutoffRule([enabled |-> TRUE, time |-> 2])},
   edits     |-> {Edit("update", 1, Special(1, "ALL", FALSE, None, 2, None))},
   wishes    |-> {Create(y, Seat(0, 4, 2, TRUE)), Withdraw(x)}]

(* Rooms and tables.                                                       *)
Places ==
  [proposals |-> {RoomOn(0, g, FALSE),
                  Catalog(g, [active |-> FALSE, order |-> 1]),
                  Catalog(g, [active |-> TRUE, order |-> 2]),
                  ADining("DINING_TABLE", t, Table(g, FALSE)),
                  ADining("NEW_TABLE", u, Table(g, TRUE))},
   edits     |-> {},
   wishes    |-> {Create(y, [Seat(0, 4, 1, FALSE) EXCEPT !.prefers = g]),
                  Assign(x, g, {t}), Assign(z, h, {})}]

(* Forms, and special dates edited by two.                                 *)
Forms ==
  [proposals |-> {Of("CONTACTS", [phone |-> 2, address |-> 1]), Of("CONTENTS", 1),
                  Of("LINK_LIFE", 2), Of("BOOKING_SETTINGS", Limits(4, 1)),
                  Of("BOOKING_SETTINGS", Limits(5, 1))},
   edits     |-> {Edit("update", 1, Special(1, "ALL", FALSE, None, None, 1)),
                  Edit("update", 1, Special(0, "LUNCH", FALSE, None, None, None)),
                  Edit("create", None, Special(0, "LUNCH", FALSE, None, 2, None)),
                  Edit("archive", 1, NoRule), Edit("reactivate", 1, NoRule)},
   wishes    |-> {}]

MCTopics == {Hours, Bounds, Places, Forms}

MCProposals == UNION {m.proposals : m \in MCTopics}
MCSpecialEdits == UNION {m.edits : m \in MCTopics}
MCWishes == UNION {m.wishes : m \in MCTopics}

(* A behaviour is about one topic.  The time of day matters to hours and     *)
(* limits.                                                                   *)
Within ==
  /\ topic \in {Places, Forms} => clock = 1
  /\ \A a \in Admin :
       /\ panel[a].shown = NoPreview \/ panel[a].shown.proposal \in topic.proposals
       /\ editor[a] = NoEdit \/ \E e \in topic.edits : /\ editor[a].kind = e.kind
                                                       /\ editor[a].row = e.row
  /\ desk.wish = NoWish \/ desk.wish \in topic.wishes

MCInit == Init /\ topic \in MCTopics

MCSpec == MCInit /\ [][Next /\ UNCHANGED topic /\ Within']_<<vars, topic>>

MCSymmetry == Permutations(Admin)
==============================================================================
