------------------------- MODULE Configuration_proofs -------------------------
(***************************************************************************)
(* What is proved of the configuration: its tables and pages stay typed,   *)
(* the audit log tells them, a change that is applied replaces what its    *)
(* author was shown and touches nobody its author was not shown, and what  *)
(* a preview shows is all that would be lost.                              *)
(*                                                                         *)
(* The inductive invariant says how the committed tables have come from    *)
(* those of each running snapshot: every row that differs was written by a *)
(* commit of the log since, and a booking or a change of hours by one that *)
(* had read what it depends on (Explained).  A change that is applied is   *)
(* refused when that would close a cycle of dependencies, so what it looks *)
(* at when it commits is what its snapshot held; and its snapshot told the *)
(* fingerprint of what was shown.                                          *)
(***************************************************************************)
EXTENDS Configuration, OperatorTheorems

-----------------------------------------------------------------------------
(* The rows of the tables.                                                 *)

(* A differs from T at most in the rows of W.                              *)
OnlyRewrites(T, A, W) ==
  /\ A \in Database
  /\ A.settings = T.settings \/ Row("settings", 0) \in W
  /\ A.contacts = T.contacts \/ Row("contacts", 0) \in W
  /\ A.contents = T.contents \/ Row("contents", 0) \in W
  /\ \A k \in DayOfWeek \X Service :
       /\ A.schedule[k] = T.schedule[k] \/ Row("schedule", k) \in W
       /\ A.cutoff[k] = T.cutoff[k] \/ Row("cutoff", k) \in W
  /\ \A r \in Room : A.room[r] = T.room[r] \/ Row("room", r) \in W
  /\ \A d \in DOMAIN Start.dining :
       A.dining[d] = T.dining[d] \/ Row("dining", d) \in W
  /\ \A h \in Hosted : A.hosted[h] = T.hosted[h] \/ Row("hosted", h) \in W

(* What no request takes back: a room keeps its policy, a table stays in a *)
(* room, and versions grow.                                                *)
Forward(T, A) ==
  /\ \A r \in Room : A.room[r].policy = T.room[r].policy
  /\ \A d \in DOMAIN Start.dining :
       A.dining[d] = T.dining[d] \/ A.dining[d].room # NoRoom
  /\ \A h \in Hosted : A.hosted[h].version >= T.hosted[h].version

(* A differs from T in one table at most.                                  *)
SameBut(T, A, table) ==
  /\ A \in Database
  /\ table = "settings" \/ A.settings = T.settings
  /\ table = "schedule" \/ A.schedule = T.schedule
  /\ table = "cutoff" \/ A.cutoff = T.cutoff
  /\ table = "special" \/ A.special = T.special
  /\ table = "booked" \/ A.booked = T.booked
  /\ table = "room" \/ A.room = T.room
  /\ table = "dining" \/ A.dining = T.dining
  /\ table = "hosted" \/ A.hosted = T.hosted
  /\ table = "contacts" \/ A.contacts = T.contacts
  /\ table = "contents" \/ A.contents = T.contents

(* Rows are of the tables.                                                 *)
LEMMA ProposalsAreTyped ==
  ASSUME NEW p \in Proposal
  PROVE  /\ p.kind \in Previewed \cup OfForms \cup {"NEW_TABLE"}
         /\ p.kind = "BOOKING_SETTINGS" =>
              p.row.capacity \in Nat \ {0} /\ p.row.cutoff \in [Service -> Int]
         /\ p.kind \in {"WEEKLY_SCHEDULE", "BOOKING_CUTOFF_RULE"} =>
              <<p.day, p.service>> \in DayOfWeek \X Service
         /\ p.kind = "WEEKLY_SCHEDULE" => p.row \in HoursRow
         /\ p.kind = "BOOKING_CUTOFF_RULE" => p.row \in CutoffRow
         /\ p.kind = "SERVICE_ROOM_AVAILABILITY" =>
              <<p.date, p.service>> \in Hosted /\ p.room \in Room /\ p.row \in BOOLEAN
         /\ p.kind = "ROOM_CATALOG" =>
              p.room \in Room /\ p.row.active \in BOOLEAN /\ p.row.order \in Int
         /\ p.kind \in {"DINING_TABLE", "NEW_TABLE"} =>
              /\ p.table \in DOMAIN Start.dining
              /\ p.row \in TableRow /\ p.row.room # NoRoom
         /\ p.kind = "CONTACTS" => p.row \in [DOMAIN Start.contacts -> Int]
         /\ p.kind = "CONTENTS" => p.row \in Int \ {None}
         /\ p.kind = "LINK_LIFE" => p.row \in Int
BY ConfigurationAssumption
   DEF Proposal, Previewed, Impacting, OfRooms, OfForms, TableRow

(* To materialise a service of a date changes nothing but its instance,    *)
(* and there what it says of no room.                                      *)
LEMMA MaterializedTables ==
  ASSUME NEW T \in Database, NEW date, NEW service, <<date, service>> \in Hosted
  PROVE  LET M == Materialized(T, date, service)
             h == <<date, service>>
         IN  /\ SameBut(T, M, "hosted")
             /\ M = [T EXCEPT !.hosted = M.hosted]
             /\ M.hosted \in [Hosted -> InstanceRow]
             /\ M.hosted = [T.hosted EXCEPT ![h] = M.hosted[h]]
             /\ M.hosted[h].available = Configured(T, date, service)
             /\ M.hosted[h].version >= T.hosted[h].version
             /\ M.hosted[h].version # 0
             /\ ~Virtual(T, date, service) => M.hosted = T.hosted
<1> DEFINE h == <<date, service>>
           M == Materialized(T, date, service)
           was == Configured(T, date, service)
<1>1. T.hosted \in [Hosted -> InstanceRow] /\ T.room \in [Room -> RoomRow]
  BY DEF Database
<1>2. CASE Virtual(T, date, service)
  <2> DEFINE row == [version |-> 1, available |-> was]
  <2>1. M = [T EXCEPT !.hosted[h] = row]
    BY <1>2 DEF Materialized, Configured
  <2>2. row \in InstanceRow
    BY <1>2 DEF Configured, ByPolicy, InstanceRow
  <2>3. T.hosted[h].version = 0
    BY <1>2 DEF Virtual
  <2> HIDE DEF row, h, M
  <2>4. M = [T EXCEPT !.hosted = M.hosted] /\ M.hosted = [T.hosted EXCEPT ![h] = row]
    BY <2>1 DEF Database
  <2>5. h \in Hosted
    BY DEF h
  <2>6. M.hosted[h] = row /\ M.hosted \in [Hosted -> InstanceRow]
    BY <1>1, <2>2, <2>4, <2>5
  <2>7. SameBut(T, M, "hosted")
    BY <2>4, <2>6 DEF SameBut, Database
  <2> QED
    BY <1>2, <2>3, <2>4, <2>6, <2>7 DEF row, h, M
<1>3. CASE ~Virtual(T, date, service)
  <2>1. M = T
    BY <1>3 DEF Materialized
  <2>2. T.hosted[h].version # 0 /\ T.hosted[h].available = was
    BY <1>3 DEF Virtual, Configured
  <2>3. T.hosted[h].version \in Nat
    BY <1>1 DEF InstanceRow
  <2> HIDE DEF h, M, was
  <2>4. M = [T EXCEPT !.hosted = M.hosted] /\ T.hosted = [T.hosted EXCEPT ![h] = T.hosted[h]]
    BY <1>1, <2>1 DEF Database
  <2> QED
    BY <1>1, <1>3, <2>1, <2>2, <2>3, <2>4 DEF SameBut, h, M, was
<1> QED
  BY <1>2, <1>3

(* The tables after a change.                                              *)
LEMMA AppliedTables ==
  ASSUME NEW T \in Database, NEW p \in Proposal
  PROVE  LET A == Applied(T, p) IN
         /\ p.kind = "BOOKING_SETTINGS" =>
              /\ SameBut(T, A, "settings")
              /\ A.settings = [T.settings EXCEPT !.capacity = p.row.capacity,
                                                 !.cutoff = p.row.cutoff]
         /\ p.kind = "LINK_LIFE" =>
              /\ SameBut(T, A, "settings")
              /\ A.settings = [T.settings EXCEPT !.life = p.row]
         /\ p.kind = "WEEKLY_SCHEDULE" =>
              /\ SameBut(T, A, "schedule")
              /\ A.schedule = [T.schedule EXCEPT ![<<p.day, p.service>>] = p.row]
         /\ p.kind = "BOOKING_CUTOFF_RULE" =>
              /\ SameBut(T, A, "cutoff")
              /\ A.cutoff = [T.cutoff EXCEPT ![<<p.day, p.service>>] = p.row]
         /\ p.kind = "CONTACTS" =>
              SameBut(T, A, "contacts") /\ A.contacts = p.row
         /\ p.kind = "CONTENTS" =>
              SameBut(T, A, "contents") /\ A.contents = p.row
         /\ p.kind \in {"DINING_TABLE", "NEW_TABLE"} =>
              /\ SameBut(T, A, "dining")
              /\ A.dining = [T.dining EXCEPT ![p.table] = p.row]
         /\ p.kind = "ROOM_CATALOG" =>
              /\ SameBut(T, A, "room")
              /\ A.room = [T.room EXCEPT ![p.room] =
                             [@ EXCEPT !.active = p.row.active, !.order = p.row.order]]
         /\ p.kind = "SERVICE_ROOM_AVAILABILITY" =>
              /\ SameBut(T, A, "hosted")
              /\ \E n \in Nat :
                   /\ n > T.hosted[<<p.date, p.service>>].version
                   /\ A.hosted =
                        [T.hosted EXCEPT ![<<p.date, p.service>>] =
                           [version |-> n,
                            available |-> [Configured(T, p.date, p.service)
                                             EXCEPT ![p.room] = p.row]]]
<1> DEFINE A == Applied(T, p)
<1> USE DEF OfForms, OfRooms, SameBut
<1>1. ASSUME p.kind = "BOOKING_SETTINGS"
      PROVE  /\ SameBut(T, A, "settings")
             /\ A.settings = [T.settings EXCEPT !.capacity = p.row.capacity,
                                                !.cutoff = p.row.cutoff]
  <2> DEFINE new == [T.settings EXCEPT !.capacity = p.row.capacity,
                                       !.cutoff = p.row.cutoff]
  <2>1. A = [T EXCEPT !.settings.capacity = p.row.capacity,
                      !.settings.cutoff = p.row.cutoff]
    BY <1>1 DEF Applied
  <2>2. A = [T EXCEPT !.settings = new]
    <3> DEFINE B == [T EXCEPT !.settings.capacity = p.row.capacity]
    <3>1. B = [T EXCEPT !.settings = [T.settings EXCEPT !.capacity = p.row.capacity]]
      OBVIOUS
    <3>2. B.settings = [T.settings EXCEPT !.capacity = p.row.capacity]
      BY DEF Database
    <3> QED
      BY <2>1, <3>1, <3>2 DEF Database
  <2>3. p.row.capacity \in Nat \ {0} /\ p.row.cutoff \in [Service -> Int]
    BY <1>1, ProposalsAreTyped
  <2>4. new \in SettingsRow
    BY <2>3 DEF Database, SettingsRow
  <2> HIDE DEF new, A
  <2>5. SameBut(T, A, "settings") /\ A.settings = new
    BY <2>2, <2>4 DEF Database
  <2> QED
    BY <2>5 DEF new
<1>2. ASSUME p.kind = "LINK_LIFE"
      PROVE  /\ SameBut(T, A, "settings")
             /\ A.settings = [T.settings EXCEPT !.life = p.row]
  <2> DEFINE new == [T.settings EXCEPT !.life = p.row]
  <2>1. A = [T EXCEPT !.settings = new]
    BY <1>2 DEF Applied, FormApplied
  <2>2. new \in SettingsRow
    BY <1>2, ProposalsAreTyped DEF Database, SettingsRow
  <2> HIDE DEF new, A
  <2>3. SameBut(T, A, "settings") /\ A.settings = new
    BY <2>1, <2>2 DEF Database
  <2> QED
    BY <2>3 DEF new
<1>3. ASSUME p.kind = "WEEKLY_SCHEDULE"
      PROVE  /\ SameBut(T, A, "schedule")
             /\ A.schedule = [T.schedule EXCEPT ![<<p.day, p.service>>] = p.row]
  <2> DEFINE k == <<p.day, p.service>>
  <2>1. A = [T EXCEPT !.schedule[k] = p.row]
    BY <1>3 DEF Applied
  <2>2. k \in DayOfWeek \X Service /\ p.row \in HoursRow
    BY <1>3, ProposalsAreTyped
  <2> HIDE DEF k, A
  <2>3. SameBut(T, A, "schedule") /\ A.schedule = [T.schedule EXCEPT ![k] = p.row]
    BY <2>1, <2>2 DEF Database
  <2> QED
    BY <2>3 DEF k
<1>4. ASSUME p.kind = "BOOKING_CUTOFF_RULE"
      PROVE  /\ SameBut(T, A, "cutoff")
             /\ A.cutoff = [T.cutoff EXCEPT ![<<p.day, p.service>>] = p.row]
  <2> DEFINE k == <<p.day, p.service>>
  <2>1. A = [T EXCEPT !.cutoff[k] = p.row]
    BY <1>4 DEF Applied
  <2>2. k \in DayOfWeek \X Service /\ p.row \in CutoffRow
    BY <1>4, ProposalsAreTyped
  <2> HIDE DEF k, A
  <2>3. SameBut(T, A, "cutoff") /\ A.cutoff = [T.cutoff EXCEPT ![k] = p.row]
    BY <2>1, <2>2 DEF Database
  <2> QED
    BY <2>3 DEF k
<1>5. ASSUME p.kind = "CONTACTS"
      PROVE  SameBut(T, A, "contacts") /\ A.contacts = p.row
  <2>1. A = [T EXCEPT !.contacts = p.row]
    BY <1>5 DEF Applied, FormApplied
  <2>2. p.row \in [DOMAIN Start.contacts -> Int]
    BY <1>5, ProposalsAreTyped
  <2> HIDE DEF A
  <2> QED
    BY <2>1, <2>2 DEF Database
<1>6. ASSUME p.kind = "CONTENTS"
      PROVE  SameBut(T, A, "contents") /\ A.contents = p.row
  <2>1. A = [T EXCEPT !.contents = p.row]
    BY <1>6 DEF Applied, FormApplied
  <2>2. p.row \in Int
    BY <1>6, ProposalsAreTyped
  <2> HIDE DEF A
  <2> QED
    BY <2>1, <2>2 DEF Database
<1>7. ASSUME p.kind \in {"DINING_TABLE", "NEW_TABLE"}
      PROVE  /\ SameBut(T, A, "dining")
             /\ A.dining = [T.dining EXCEPT ![p.table] = p.row]
  <2>1. A = [T EXCEPT !.dining[p.table] = p.row]
    BY <1>7 DEF Applied, TableCreated, RoomApplied
  <2>2. p.table \in DOMAIN Start.dining /\ p.row \in TableRow
    BY <1>7, ProposalsAreTyped
  <2> HIDE DEF A
  <2> QED
    BY <2>1, <2>2 DEF Database
<1>8. ASSUME p.kind = "ROOM_CATALOG"
      PROVE  /\ SameBut(T, A, "room")
             /\ A.room = [T.room EXCEPT ![p.room] =
                            [@ EXCEPT !.active = p.row.active, !.order = p.row.order]]
  <2> DEFINE r == p.room
             B == [T EXCEPT !.room[r].active = p.row.active]
             new == [T.room[r] EXCEPT !.active = p.row.active, !.order = p.row.order]
  <2>1. A = [B EXCEPT !.room[r].order = p.row.order]
    BY <1>8 DEF Applied, RoomApplied
  <2>2. r \in Room /\ p.row.active \in BOOLEAN /\ p.row.order \in Int
    BY <1>8, ProposalsAreTyped
  <2>3. T.room \in [Room -> RoomRow]
    BY DEF Database
  <2>4. /\ B = [T EXCEPT !.room = B.room]
        /\ B.room = [T.room EXCEPT ![r] = [T.room[r] EXCEPT !.active = p.row.active]]
    BY DEF Database
  <2>5. /\ A = [B EXCEPT !.room = A.room]
        /\ A.room = [B.room EXCEPT ![r] = [B.room[r] EXCEPT !.order = p.row.order]]
    BY <2>1, <2>4 DEF Database
  <2> HIDE DEF B, A, r
  <2>6. A.room = [T.room EXCEPT ![r] = new]
    BY <2>2, <2>3, <2>4, <2>5
  <2>7. new \in RoomRow
    BY <2>2, <2>3 DEF RoomRow
  <2>8. A = [T EXCEPT !.room = A.room]
    BY <2>4, <2>5 DEF Database
  <2>9. A.room \in [Room -> RoomRow]
    BY <2>2, <2>3, <2>6, <2>7
  <2>10. SameBut(T, A, "room")
    BY <2>8, <2>9 DEF Database
  <2> QED
    BY <2>6, <2>10 DEF r
<1>9. ASSUME p.kind = "SERVICE_ROOM_AVAILABILITY"
      PROVE  /\ SameBut(T, A, "hosted")
             /\ \E n \in Nat :
                  /\ n > T.hosted[<<p.date, p.service>>].version
                  /\ A.hosted =
                       [T.hosted EXCEPT ![<<p.date, p.service>>] =
                          [version |-> n,
                           available |-> [Configured(T, p.date, p.service)
                                            EXCEPT ![p.room] = p.row]]]
  <2> DEFINE h == <<p.date, p.service>>
             M == Materialized(T, p.date, p.service)
             was == Configured(T, p.date, p.service)
             B == [M EXCEPT !.hosted[h].available[p.room] = p.row]
             n == M.hosted[h].version + 1
             new == [version |-> n, available |-> [was EXCEPT ![p.room] = p.row]]
  <2>1. h \in Hosted /\ p.room \in Room /\ p.row \in BOOLEAN
    BY <1>9, ProposalsAreTyped
  <2>2. T.hosted \in [Hosted -> InstanceRow] /\ T.room \in [Room -> RoomRow]
    BY DEF Database
  <2>3. /\ M = [T EXCEPT !.hosted = M.hosted]
        /\ M.hosted \in [Hosted -> InstanceRow]
        /\ M.hosted = [T.hosted EXCEPT ![h] = M.hosted[h]]
        /\ M.hosted[h].available = was
        /\ M.hosted[h].version >= T.hosted[h].version
    BY <2>1, MaterializedTables
  <2>4. A = [B EXCEPT !.hosted[h].version = @ + 1]
    BY <1>9 DEF Applied, RoomApplied
  <2> HIDE DEF M, h, was
  <2>5. M \in Database
    BY <2>3 DEF Database
  <2>6. /\ B = [M EXCEPT !.hosted = B.hosted]
        /\ B.hosted = [M.hosted EXCEPT ![h] =
                         [M.hosted[h] EXCEPT !.available = [was EXCEPT ![p.room] = p.row]]]
    BY <2>3, <2>5 DEF Database
  <2>7. /\ A = [B EXCEPT !.hosted = A.hosted]
        /\ A.hosted = [B.hosted EXCEPT ![h] = [B.hosted[h] EXCEPT !.version = @ + 1]]
    BY <2>4, <2>5, <2>6 DEF Database
  <2> HIDE DEF A, B
  <2>8. B.hosted[h] = [M.hosted[h] EXCEPT !.available = [was EXCEPT ![p.room] = p.row]]
    BY <2>1, <2>3, <2>6
  <2>9. [B.hosted[h] EXCEPT !.version = @ + 1] = new
    <3> DEFINE open == [was EXCEPT ![p.room] = p.row]
               row == M.hosted[h]
    <3> HIDE DEF open, row
    <3>1. row \in InstanceRow
      BY <2>1, <2>3 DEF row
    <3>2. [row EXCEPT !.available = open] = [version |-> row.version, available |-> open]
      BY <3>1 DEF InstanceRow
    <3>3. B.hosted[h] = [version |-> row.version, available |-> open]
      BY <2>8, <3>2 DEF open, row
    <3>4. [B.hosted[h] EXCEPT !.version = @ + 1]
            = [version |-> row.version + 1, available |-> open]
      BY <3>3
    <3> QED
      BY <3>4 DEF open, row
  <2>10. new \in InstanceRow /\ n \in Nat /\ n > T.hosted[h].version
    BY <2>1, <2>2, <2>3 DEF InstanceRow
  <2> HIDE DEF new
  <2>11. A.hosted = [T.hosted EXCEPT ![h] = new]
    BY <2>1, <2>2, <2>3, <2>6, <2>7, <2>9
  <2>12. A = [T EXCEPT !.hosted = A.hosted]
    BY <2>3, <2>6, <2>7 DEF Database
  <2>13. A.hosted \in [Hosted -> InstanceRow]
    BY <2>1, <2>2, <2>10, <2>11
  <2>14. SameBut(T, A, "hosted")
    BY <2>12, <2>13 DEF Database
  <2> QED
    BY <2>10, <2>11, <2>14 DEF new, h, was
<1> QED
  BY <1>1, <1>2, <1>3, <1>4, <1>5, <1>6, <1>7, <1>8, <1>9

(* The tables after a change: it writes no row but those it says it does,  *)
(* and takes nothing back.                                                 *)
LEMMA AppliedRewrites ==
  ASSUME NEW T \in Database, NEW p \in Proposal
  PROVE  LET A == Applied(T, p) IN
         /\ OnlyRewrites(T, A, Writes(p))
         /\ Forward(T, A)
         /\ A.booked = T.booked /\ A.special = T.special
         /\ A.schedule = T.schedule \/ p.kind = "WEEKLY_SCHEDULE"
<1> DEFINE A == Applied(T, p)
<1>1. T.hosted \in [Hosted -> InstanceRow]
  BY DEF Database
<1>2. \A h \in Hosted : T.hosted[h].version \in Nat
  BY <1>1 DEF InstanceRow
<1>3. CASE p.kind \in {"BOOKING_SETTINGS", "LINK_LIFE"}
  <2>1. SameBut(T, A, "settings")
    BY <1>3, AppliedTables
  <2> HIDE DEF A
  <2>2. Row("settings", 0) \in Writes(p)
    BY <1>3 DEF Writes
  <2> QED
    BY <1>2, <2>1, <2>2 DEF SameBut, OnlyRewrites, Forward, A
<1>4. CASE p.kind = "WEEKLY_SCHEDULE"
  <2> DEFINE k == <<p.day, p.service>>
  <2>1. SameBut(T, A, "schedule") /\ A.schedule = [T.schedule EXCEPT ![k] = p.row]
    BY <1>4, AppliedTables
  <2>2. Row("schedule", k) \in Writes(p)
    BY <1>4 DEF Writes
  <2>3. T.schedule \in [DayOfWeek \X Service -> HoursRow]
    BY DEF Database
  <2> HIDE DEF A, k
  <2>4. \A i \in DayOfWeek \X Service :
          A.schedule[i] = T.schedule[i] \/ Row("schedule", i) \in Writes(p)
    BY <2>1, <2>2, <2>3
  <2> QED
    BY <1>2, <1>4, <2>1, <2>4 DEF SameBut, OnlyRewrites, Forward, A
<1>5. CASE p.kind = "BOOKING_CUTOFF_RULE"
  <2> DEFINE k == <<p.day, p.service>>
  <2>1. SameBut(T, A, "cutoff") /\ A.cutoff = [T.cutoff EXCEPT ![k] = p.row]
    BY <1>5, AppliedTables
  <2>2. Row("cutoff", k) \in Writes(p)
    BY <1>5 DEF Writes
  <2>3. T.cutoff \in [DayOfWeek \X Service -> CutoffRow]
    BY DEF Database
  <2> HIDE DEF A, k
  <2>4. \A i \in DayOfWeek \X Service :
          A.cutoff[i] = T.cutoff[i] \/ Row("cutoff", i) \in Writes(p)
    BY <2>1, <2>2, <2>3
  <2> QED
    BY <1>2, <2>1, <2>4 DEF SameBut, OnlyRewrites, Forward, A
<1>6. CASE p.kind \in {"CONTACTS", "CONTENTS"}
  <2>1. \/ SameBut(T, A, "contacts") /\ Row("contacts", 0) \in Writes(p)
        \/ SameBut(T, A, "contents") /\ Row("contents", 0) \in Writes(p)
    BY <1>6, AppliedTables DEF Writes
  <2> HIDE DEF A
  <2> QED
    BY <1>2, <2>1 DEF SameBut, OnlyRewrites, Forward, A
<1>7. CASE p.kind \in {"DINING_TABLE", "NEW_TABLE"}
  <2>1. SameBut(T, A, "dining") /\ A.dining = [T.dining EXCEPT ![p.table] = p.row]
    BY <1>7, AppliedTables
  <2>2. Row("dining", p.table) \in Writes(p)
    BY <1>7 DEF Writes
  <2>3. T.dining \in [DOMAIN Start.dining -> TableRow]
    BY DEF Database
  <2>4. p.row.room # NoRoom
    BY <1>7, ProposalsAreTyped
  <2> HIDE DEF A
  <2>5. \A d \in DOMAIN Start.dining :
          \/ A.dining[d] = T.dining[d]
          \/ Row("dining", d) \in Writes(p) /\ A.dining[d].room # NoRoom
    BY <2>1, <2>2, <2>3, <2>4
  <2> QED
    BY <1>2, <2>1, <2>5 DEF SameBut, OnlyRewrites, Forward, A
<1>8. CASE p.kind = "ROOM_CATALOG"
  <2> DEFINE new == [T.room[p.room] EXCEPT !.active = p.row.active, !.order = p.row.order]
  <2>1. SameBut(T, A, "room") /\ A.room = [T.room EXCEPT ![p.room] = new]
    BY <1>8, AppliedTables
  <2>2. Row("room", p.room) \in Writes(p)
    BY <1>8 DEF Writes
  <2>3. T.room \in [Room -> RoomRow] /\ p.room \in Room
    BY <1>8, ProposalsAreTyped DEF Database
  <2>4. new.policy = T.room[p.room].policy
    BY <2>3 DEF RoomRow
  <2> HIDE DEF A, new
  <2>5. \A r \in Room :
          /\ A.room[r] = T.room[r] \/ Row("room", r) \in Writes(p)
          /\ A.room[r].policy = T.room[r].policy
    BY <2>1, <2>2, <2>3, <2>4
  <2> QED
    BY <1>2, <2>1, <2>5 DEF SameBut, OnlyRewrites, Forward, A
<1>9. CASE p.kind = "SERVICE_ROOM_AVAILABILITY"
  <2> DEFINE i == <<p.date, p.service>>
  <2>1. PICK n \in Nat :
          /\ n > T.hosted[i].version
          /\ A.hosted = [T.hosted EXCEPT ![i] =
                           [version |-> n,
                            available |-> [Configured(T, p.date, p.service)
                                             EXCEPT ![p.room] = p.row]]]
    BY <1>9, AppliedTables
  <2>2. SameBut(T, A, "hosted")
    BY <1>9, AppliedTables
  <2>3. Row("hosted", i) \in Writes(p) /\ i \in Hosted
    BY <1>9, ProposalsAreTyped DEF Writes
  <2> HIDE DEF A, i
  <2>4. A.hosted[i].version = n
    BY <1>1, <2>1, <2>3
  <2>5. \A h \in Hosted :
          /\ A.hosted[h] = T.hosted[h] \/ Row("hosted", h) \in Writes(p)
          /\ A.hosted[h].version >= T.hosted[h].version
    BY <1>1, <1>2, <2>1, <2>3, <2>4
  <2> QED
    BY <2>2, <2>5 DEF SameBut, OnlyRewrites, Forward, A
<1> QED
  BY <1>3, <1>4, <1>5, <1>6, <1>7, <1>8, <1>9, ProposalsAreTyped
     DEF Previewed, Impacting, OfRooms, OfForms

(* The tables after a request about a reservation.                         *)
LEMMA TakenTables ==
  ASSUME db \in Database, NEW w \in Wish
  PROVE  LET A == Taken(w)
             b == w.booking
         IN  /\ b \in DOMAIN Start.booked
             /\ A \in Database
             /\ A.settings = db.settings /\ A.schedule = db.schedule
             /\ A.cutoff = db.cutoff /\ A.special = db.special
             /\ A.room = db.room /\ A.dining = db.dining
             /\ A.contacts = db.contacts /\ A.contents = db.contents
             /\ w.kind = "create" =>
                  /\ A.booked = [db.booked EXCEPT ![b] = w.row]
                  /\ A.hosted = Materialized(db, w.row.date, w.row.service).hosted
                  /\ <<w.row.date, w.row.service>> \in Hosted
             /\ w.kind # "create" => A.hosted = db.hosted
             /\ w.kind = "cancel" =>
                  A.booked = [db.booked EXCEPT ![b] = [@ EXCEPT !.confirmed = FALSE]]
             /\ w.kind = "assign" =>
                  A.booked = [db.booked EXCEPT ![b] =
                                [@ EXCEPT !.seated = w.room, !.tables = w.tables]]
<1> DEFINE A == Taken(w)
           b == w.booking
<1>1. /\ b \in DOMAIN Start.booked
      /\ w.kind \in {"create", "cancel", "assign"}
      /\ w.kind = "create" => <<w.row.date, w.row.service>> \in Hosted
                               /\ w.row \in BookingRow
      /\ w.kind = "assign" => w.room \in Room \cup {NoRoom}
                               /\ w.tables \in SUBSET DOMAIN Start.dining
  BY DEF Wish
<1>2. db.booked \in [DOMAIN Start.booked -> BookingRow]
  BY DEF Database
<1>3. CASE w.kind = "create"
  <2> DEFINE M == Materialized(db, w.row.date, w.row.service)
  <2>1. A = [M EXCEPT !.booked[b] = w.row]
    BY <1>3 DEF Taken
  <2>2. SameBut(db, M, "hosted")
    BY <1>1, <1>3, MaterializedTables
  <2> HIDE DEF A, M
  <2>3. A = [M EXCEPT !.booked = A.booked] /\ A.booked = [db.booked EXCEPT ![b] = w.row]
    BY <2>1, <2>2 DEF SameBut, Database
  <2>4. A.booked \in [DOMAIN Start.booked -> BookingRow]
    BY <1>1, <1>2, <1>3, <2>3
  <2>5. SameBut(M, A, "booked")
    BY <2>2, <2>3, <2>4 DEF SameBut, Database
  <2> QED
    BY <1>1, <1>3, <2>2, <2>3, <2>5 DEF SameBut, A, M
<1>4. CASE w.kind = "cancel"
  <2> DEFINE row == [db.booked[b] EXCEPT !.confirmed = FALSE]
  <2>1. A = [db EXCEPT !.booked[b].confirmed = FALSE]
    BY <1>4 DEF Taken
  <2>2. A = [db EXCEPT !.booked = A.booked] /\ A.booked = [db.booked EXCEPT ![b] = row]
    BY <2>1 DEF Database
  <2>3. row \in BookingRow
    BY <1>1, <1>2 DEF BookingRow
  <2> HIDE DEF A, row
  <2>4. A.booked \in [DOMAIN Start.booked -> BookingRow]
    BY <1>1, <1>2, <2>2, <2>3
  <2>5. SameBut(db, A, "booked")
    BY <2>2, <2>4 DEF SameBut, Database
  <2> QED
    BY <1>1, <1>4, <2>2, <2>5 DEF SameBut, A, row
<1>5. CASE w.kind = "assign"
  <2> DEFINE B == [db EXCEPT !.booked[b].seated = w.room]
             mid == [db.booked[b] EXCEPT !.seated = w.room]
             row == [db.booked[b] EXCEPT !.seated = w.room, !.tables = w.tables]
  <2>1. A = [B EXCEPT !.booked[b].tables = w.tables]
    BY <1>5 DEF Taken
  <2>2. B = [db EXCEPT !.booked = B.booked] /\ B.booked = [db.booked EXCEPT ![b] = mid]
    BY DEF Database
  <2>3. row \in BookingRow /\ row = [mid EXCEPT !.tables = w.tables]
    BY <1>1, <1>2, <1>5 DEF BookingRow
  <2>4. A = [B EXCEPT !.booked = A.booked]
        /\ A.booked = [B.booked EXCEPT ![b] = [B.booked[b] EXCEPT !.tables = w.tables]]
    BY <2>1, <2>2 DEF Database
  <2> HIDE DEF A, B, row, mid
  <2>5. A.booked = [db.booked EXCEPT ![b] = row]
    BY <1>1, <1>2, <2>2, <2>3, <2>4
  <2>6. A = [db EXCEPT !.booked = A.booked]
    BY <2>2, <2>4 DEF Database
  <2>7. A.booked \in [DOMAIN Start.booked -> BookingRow]
    BY <1>1, <1>2, <2>3, <2>5
  <2>8. SameBut(db, A, "booked")
    BY <2>6, <2>7 DEF SameBut, Database
  <2> QED
    BY <1>1, <1>5, <2>5, <2>8 DEF SameBut, A, row
<1> QED
  BY <1>1, <1>3, <1>4, <1>5

-----------------------------------------------------------------------------
(* The audit log.                                                          *)

(* What the log is told of availabilities depends on policies and on the   *)
(* instances alone.                                                        *)
LEMMA SameAvailabilities ==
  ASSUME NEW T \in Database, NEW A \in Database,
         \A r \in Room : A.room[r].policy = T.room[r].policy,
         A.hosted = T.hosted
  PROVE  Availabilities(A) = Availabilities(T)
<1>1. ByPolicy(A) = ByPolicy(T)
  BY DEF ByPolicy
<1>2. \A d, s : Configured(A, d, s) = Configured(T, d, s)
  BY <1>1 DEF Configured, Virtual
<1> QED
  BY <1>2 DEF Availabilities

(* The event of a change tells what the change makes of the tables.        *)
LEMMA RecordedIsTold ==
  ASSUME db \in Database, trail = AsTold(db), NEW p \in Proposal
  PROVE  Recorded(p) = AsTold(Applied(db, p))
<1> DEFINE A == Applied(db, p)
           told == [i \in DOMAIN db.special |-> Told(db.special[i])]
<1> SUFFICES Recorded(p) = AsTold(A)
  OBVIOUS
<1>1. A \in Database /\ A.special = db.special
  BY AppliedRewrites DEF OnlyRewrites
<1>2. AsTold(A) = [settings |-> A.settings, schedule |-> A.schedule,
                   cutoff |-> A.cutoff, special |-> told,
                   contacts |-> Present(A.contacts), contents |-> A.contents # None,
                   room |-> A.room, dining |-> A.dining,
                   rooms |-> Availabilities(A)]
  BY <1>1 DEF AsTold
<1>3. trail = [settings |-> db.settings, schedule |-> db.schedule,
               cutoff |-> db.cutoff, special |-> told,
               contacts |-> Present(db.contacts), contents |-> db.contents # None,
               room |-> db.room, dining |-> db.dining,
               rooms |-> Availabilities(db)]
  BY DEF AsTold
<1>4. A.hosted = db.hosted => Availabilities(A) = Availabilities(db)
  BY <1>1, AppliedRewrites, SameAvailabilities DEF Forward
<1> HIDE DEF told
<1> USE DEF OfForms, OfRooms
<1>5. CASE p.kind = "BOOKING_SETTINGS"
  <2> DEFINE new == [db.settings EXCEPT !.capacity = p.row.capacity,
                                        !.cutoff = p.row.cutoff]
  <2>1. SameBut(db, A, "settings") /\ A.settings = new
    BY <1>5, AppliedTables
  <2>2. Recorded(p) = [trail EXCEPT !.settings.capacity = p.row.capacity,
                                    !.settings.cutoff = p.row.cutoff]
    BY <1>5 DEF Recorded
  <2>3. Recorded(p) = [trail EXCEPT !.settings = new]
    <3> DEFINE B == [trail EXCEPT !.settings.capacity = p.row.capacity]
    <3>1. B = [trail EXCEPT !.settings = [db.settings EXCEPT !.capacity = p.row.capacity]]
      BY <1>3
    <3>2. B.settings = [db.settings EXCEPT !.capacity = p.row.capacity]
      BY <1>3, <3>1
    <3> QED
      BY <1>3, <2>2, <3>1, <3>2
  <2> HIDE DEF A, new
  <2> QED
    BY <1>2, <1>3, <1>4, <2>1, <2>3 DEF SameBut
<1>6. CASE p.kind = "LINK_LIFE"
  <2> DEFINE new == [db.settings EXCEPT !.life = p.row]
  <2>1. SameBut(db, A, "settings") /\ A.settings = new
    BY <1>6, AppliedTables
  <2>2. Recorded(p) = [trail EXCEPT !.settings.life = p.row]
    BY <1>6 DEF Recorded, RecordedOfForm
  <2>3. Recorded(p) = [trail EXCEPT !.settings = new]
    BY <1>3, <2>2
  <2> HIDE DEF A, new
  <2> QED
    BY <1>2, <1>3, <1>4, <2>1, <2>3 DEF SameBut
<1>7. CASE p.kind = "WEEKLY_SCHEDULE"
  <2>1. /\ SameBut(db, A, "schedule")
        /\ A.schedule = [db.schedule EXCEPT ![<<p.day, p.service>>] = p.row]
    BY <1>7, AppliedTables
  <2>2. Recorded(p) = [trail EXCEPT !.schedule[<<p.day, p.service>>] = p.row]
    BY <1>7 DEF Recorded
  <2> HIDE DEF A
  <2> QED
    BY <1>2, <1>3, <1>4, <2>1, <2>2 DEF SameBut
<1>8. CASE p.kind = "BOOKING_CUTOFF_RULE"
  <2>1. /\ SameBut(db, A, "cutoff")
        /\ A.cutoff = [db.cutoff EXCEPT ![<<p.day, p.service>>] = p.row]
    BY <1>8, AppliedTables
  <2>2. Recorded(p) = [trail EXCEPT !.cutoff[<<p.day, p.service>>] = p.row]
    BY <1>8 DEF Recorded
  <2> HIDE DEF A
  <2> QED
    BY <1>2, <1>3, <1>4, <2>1, <2>2 DEF SameBut
<1>9. CASE p.kind = "CONTACTS"
  <2>1. SameBut(db, A, "contacts") /\ A.contacts = p.row
    BY <1>9, AppliedTables
  <2>2. Recorded(p) = [trail EXCEPT !.contacts = Present(p.row)]
    BY <1>9 DEF Recorded, RecordedOfForm
  <2> HIDE DEF A
  <2> QED
    BY <1>2, <1>3, <1>4, <2>1, <2>2 DEF SameBut
<1>10. CASE p.kind = "CONTENTS"
  <2>1. SameBut(db, A, "contents") /\ A.contents = p.row
    BY <1>10, AppliedTables
  <2> DEFINE all == TRUE
             complete == A.contents # None
             was == db.contents # None
  <2>2. Recorded(p) = [trail EXCEPT !.contents = all]
    BY <1>10 DEF Recorded, RecordedOfForm
  <2>3. complete = all
    BY <1>10, <2>1, ProposalsAreTyped
  <2>4. AsTold(A) = [settings |-> A.settings, schedule |-> A.schedule,
                     cutoff |-> A.cutoff, special |-> told,
                     contacts |-> Present(A.contacts), contents |-> complete,
                     room |-> A.room, dining |-> A.dining,
                     rooms |-> Availabilities(A)]
    BY <1>2
  <2>5. trail = [settings |-> db.settings, schedule |-> db.schedule,
                 cutoff |-> db.cutoff, special |-> told,
                 contacts |-> Present(db.contacts), contents |-> was,
                 room |-> db.room, dining |-> db.dining,
                 rooms |-> Availabilities(db)]
    BY <1>3
  <2> HIDE DEF A, all, complete, was
  <2> QED
    BY <1>4, <2>1, <2>2, <2>3, <2>4, <2>5 DEF SameBut
<1>11. CASE p.kind \in {"DINING_TABLE", "NEW_TABLE"}
  <2>1. SameBut(db, A, "dining") /\ A.dining = [db.dining EXCEPT ![p.table] = p.row]
    BY <1>11, AppliedTables
  <2>2. Recorded(p) = [trail EXCEPT !.dining[p.table] = p.row]
    BY <1>11 DEF Recorded, RecordedOfRooms
  <2> HIDE DEF A
  <2> QED
    BY <1>2, <1>3, <1>4, <2>1, <2>2 DEF SameBut
<1>12. CASE p.kind = "ROOM_CATALOG"
  <2> DEFINE r == p.room
             new == [db.room[r] EXCEPT !.active = p.row.active, !.order = p.row.order]
             B == [trail EXCEPT !.room[r].active = p.row.active]
             mid == [db.room[r] EXCEPT !.active = p.row.active]
  <2>1. SameBut(db, A, "room") /\ A.room = [db.room EXCEPT ![r] = new]
    BY <1>12, AppliedTables
  <2>2. Recorded(p) = [B EXCEPT !.room[r].order = p.row.order]
    BY <1>12 DEF Recorded, RecordedOfRooms
  <2>3. r \in Room /\ db.room \in [Room -> RoomRow]
    BY <1>12, ProposalsAreTyped DEF Database
  <2>4. B = [trail EXCEPT !.room = [db.room EXCEPT ![r] = mid]]
    BY <1>3
  <2>5. B.room = [db.room EXCEPT ![r] = mid]
    BY <1>3, <2>4
  <2>6. Recorded(p) = [B EXCEPT !.room = [B.room EXCEPT ![r] =
                                           [B.room[r] EXCEPT !.order = p.row.order]]]
    BY <2>2
  <2>7. [mid EXCEPT !.order = p.row.order] = new
    OBVIOUS
  <2> HIDE DEF A, B, mid, new, r
  <2>8. [B.room EXCEPT ![r] = [B.room[r] EXCEPT !.order = p.row.order]]
          = [db.room EXCEPT ![r] = new]
    BY <2>3, <2>5, <2>7
  <2>9. Recorded(p) = [trail EXCEPT !.room = [db.room EXCEPT ![r] = new]]
    BY <1>3, <2>4, <2>6, <2>8
  <2> QED
    BY <1>2, <1>3, <1>4, <2>1, <2>9 DEF SameBut
<1>13. CASE p.kind = "SERVICE_ROOM_AVAILABILITY"
  <2> DEFINE h == <<p.date, p.service>>
             open == [Configured(db, p.date, p.service) EXCEPT ![p.room] = p.row]
             R == Availabilities(db)
  <2>1. PICK n \in Nat :
          /\ n > db.hosted[h].version
          /\ A.hosted = [db.hosted EXCEPT ![h] = [version |-> n, available |-> open]]
    BY <1>13, AppliedTables
  <2>2. SameBut(db, A, "hosted")
    BY <1>13, AppliedTables
  <2>3. h \in Hosted
    BY <1>13, ProposalsAreTyped
  <2>4. db.hosted \in [Hosted -> InstanceRow] /\ A.hosted \in [Hosted -> InstanceRow]
    BY <1>1 DEF Database
  <2>5. db.hosted[h].version \in Nat
    BY <2>3, <2>4 DEF InstanceRow
  <2>6. \A i \in Hosted : i = <<i[1], i[2]>>
    BY ConfigurationAssumption
  <2>7. ByPolicy(A) = ByPolicy(db)
    BY <2>2 DEF ByPolicy, SameBut
  <2>8. Configured(A, p.date, p.service) = open
    <3>1. A.hosted[h].version # 0 /\ A.hosted[h].available = open
      BY <2>1, <2>3, <2>4, <2>5
    <3> QED
      BY <3>1 DEF Configured, Virtual
  <2>9. \A i \in Hosted : i # h => Configured(A, i[1], i[2]) = Configured(db, i[1], i[2])
    <3>1. \A i \in Hosted : i # h => A.hosted[i] = db.hosted[i]
      BY <2>1, <2>4
    <3> QED
      BY <2>6, <2>7, <3>1 DEF Configured, Virtual
  <2>10. Configured(A, h[1], h[2]) = open
    BY <2>8
  <2>11. Recorded(p) = [trail EXCEPT !.rooms[h][p.room] = p.row]
    BY <1>13 DEF Recorded, RecordedOfRooms
  <2>12. /\ Availabilities(A) = [i \in Hosted |-> Configured(A, i[1], i[2])]
         /\ R = [i \in Hosted |-> Configured(db, i[1], i[2])]
    BY <2>4 DEF Availabilities
  <2>13. R[h] = Configured(db, p.date, p.service)
    BY <2>3, <2>12
  <2>14. Recorded(p) = [trail EXCEPT !.rooms = [R EXCEPT ![h] = open]]
    BY <1>3, <2>11, <2>13
  <2> HIDE DEF A, h, open, R
  <2>15. Availabilities(A) = [R EXCEPT ![h] = open]
    BY <2>3, <2>9, <2>10, <2>12
  <2> QED
    BY <1>2, <1>3, <2>2, <2>14, <2>15 DEF SameBut
<1> QED
  BY <1>5, <1>6, <1>7, <1>8, <1>9, <1>10, <1>11, <1>12, <1>13, ProposalsAreTyped
     DEF Previewed, Impacting

(* What happens to reservations is not of the configuration: even the      *)
(* instance a booking materialises tells what was told before.             *)
LEMMA TakenTellsNothing ==
  ASSUME db \in Database, NEW w \in Wish
  PROVE  AsTold(Taken(w)) = AsTold(db)
<1> DEFINE A == Taken(w)
<1>1. /\ A \in Database
      /\ A.settings = db.settings /\ A.schedule = db.schedule
      /\ A.cutoff = db.cutoff /\ A.special = db.special
      /\ A.room = db.room /\ A.dining = db.dining
      /\ A.contacts = db.contacts /\ A.contents = db.contents
  BY TakenTables
<1>2. Availabilities(A) = Availabilities(db)
  <2>1. CASE w.kind = "create"
    <3> DEFINE h == <<w.row.date, w.row.service>>
               M == Materialized(db, w.row.date, w.row.service)
    <3>1. h \in Hosted /\ A.hosted = M.hosted
      BY <2>1, TakenTables
    <3>2. /\ M.hosted = [db.hosted EXCEPT ![h] = M.hosted[h]]
          /\ M.hosted[h].available = Configured(db, w.row.date, w.row.service)
          /\ M.hosted[h].version # 0
      BY <3>1, MaterializedTables
    <3>3. db.hosted \in [Hosted -> InstanceRow] /\ A.hosted \in [Hosted -> InstanceRow]
      BY <1>1 DEF Database
    <3>4. Configured(A, h[1], h[2]) = Configured(db, h[1], h[2])
      BY <3>1, <3>2 DEF Configured, Virtual
    <3>5. ByPolicy(A) = ByPolicy(db)
      BY <1>1 DEF ByPolicy
    <3>6. \A i \in Hosted : i = <<i[1], i[2]>>
      BY ConfigurationAssumption
    <3> HIDE DEF A, h, M
    <3>7. \A i \in Hosted : i # h => A.hosted[i] = db.hosted[i]
      BY <3>1, <3>2, <3>3
    <3>8. \A i \in Hosted : Configured(A, i[1], i[2]) = Configured(db, i[1], i[2])
      BY <3>4, <3>5, <3>6, <3>7 DEF Configured, Virtual
    <3> QED
      BY <3>3, <3>8 DEF Availabilities
  <2>2. CASE w.kind # "create"
    <3>1. A.hosted = db.hosted
      BY <2>2, TakenTables
    <3> QED
      BY <1>1, <3>1, SameAvailabilities
  <2> QED
    BY <2>1, <2>2
<1> HIDE DEF A
<1>3. AsTold(A) = AsTold(db)
  BY <1>1, <1>2 DEF AsTold
<1> QED
  BY <1>3 DEF A

-----------------------------------------------------------------------------
(* The inductive invariant.                                                *)

(* Tables that can be reached: policies are as they were, a table that has *)
(* no room never had one, and who is expected comes to a service that may  *)
(* have an instance.                                                       *)
Sound(T) ==
  /\ \A r \in Room : T.room[r].policy = Start.room[r].policy
  /\ \A d \in DOMAIN Start.dining :
       T.dining[d] = Start.dining[d] \/ T.dining[d].room # NoRoom
  /\ \A b \in Confirmed(T) : <<T.booked[b].date, T.booked[b].service>> \in Hosted

SoundTables == {T \in Database : Sound(T)}

Moments == {Instants[i] : i \in 1..Len(Instants)}

Views == {NoPreview} \cup
  {Preview(m[1], m[2], m[3]) : m \in SoundTables \X Proposals \X Moments}

Page ==
  [stage : {"idle", "ready", "running"}, shown : Views, dialog : BOOLEAN,
   when : Moments, snap : [db : SoundTables, since : Nat], tries : 0..MaxAttempts]

IsLog(L) == L \in Seq({L[i] : i \in DOMAIN L})

(* What a request read that gave reservation b of T its place: the hours   *)
(* and limits, the rooms and its tables.                                   *)
PlaceRows(T, b) ==
  LET r == T.booked[b] IN
  {Row("settings", 0), Row("schedule", <<Weekday(r.date), r.service>>),
   Row("hosted", <<r.date, r.service>>)}
    \cup {Row("room", q) : q \in Room} \cup {Row("dining", t) : t \in r.tables}

(* How the tables S of a snapshot, as old as n commits, have become D: each*)
(* row that differs was written since by a commit of the log L, and the    *)
(* one that changed hours or a reservation had read what it depends on.    *)
Explained(D, L, S, n) ==
  /\ D.settings = S.settings \/ Replaced(L, n, Row("settings", 0))
  /\ D.contacts = S.contacts \/ Replaced(L, n, Row("contacts", 0))
  /\ D.contents = S.contents \/ Replaced(L, n, Row("contents", 0))
  /\ \A k \in DayOfWeek \X Service :
       /\ \/ D.schedule[k] = S.schedule[k]
          \/ Met(L, n, Row("schedule", k), Row("settings", 0))
       /\ D.cutoff[k] = S.cutoff[k] \/ Replaced(L, n, Row("cutoff", k))
  /\ \A r \in Room : D.room[r] = S.room[r] \/ Replaced(L, n, Row("room", r))
  /\ \A d \in DOMAIN Start.dining :
       D.dining[d] = S.dining[d] \/ Replaced(L, n, Row("dining", d))
  /\ \A h \in Hosted : D.hosted[h] = S.hosted[h] \/ Replaced(L, n, Row("hosted", h))
  /\ \A b \in Confirmed(D) :
       \/ D.booked[b] = S.booked[b]
       \/ \A x \in PlaceRows(D, b) :
            Met(L, n, BookedAt(D.booked[b].date, D.booked[b].service), x)

(* A page q beside the tables D and the log L.  A new table was either     *)
(* shown as it still is, or is there by now.                               *)
PageInv(q, D, L) ==
  /\ (q.stage # "idle" \/ q.dialog) => q.shown.proposal \in Proposals
  /\ q.stage = "ready" => q.tries < MaxAttempts
  /\ q.stage = "running" =>
       q.snap.since <= Len(L) /\ Explained(D, L, q.snap.db, q.snap.since)
  /\ q.shown.proposal.kind = "NEW_TABLE" =>
       LET d == q.shown.proposal.table IN
       \/ q.shown.current = Start.dining[d]
       \/ /\ D.dining[d].room # NoRoom
          /\ q.stage = "running" => q.snap.db.dining[d].room # NoRoom

(* One request at a time writes reservations.                              *)
DeskInv ==
  desk.busy =>
    /\ desk.wish \in Wishes
    /\ desk.snap.db \in Database
    /\ desk.snap.since \in Nat /\ desk.snap.since <= Len(log)
    /\ desk.snap.db.booked = db.booked
    /\ \A h \in Hosted :
         desk.snap.db.hosted[h].version <= db.hosted[h].version

EditInv(a) ==
  editor[a] # NoEdit =>
    /\ editor[a].kind \in {"create", "update", "archive", "reactivate"}
    /\ editor[a].row \in SpecialRow

Inv ==
  /\ db \in SoundTables
  /\ clock \in 1..Len(Instants)
  /\ sent \in 0..MaxRequests
  /\ holder \in {{}} \cup {{x} : x \in Admin \cup {"desk"}}
  /\ IsLog(log)
  /\ panel \in [Admin -> Page]
  /\ \A a \in Admin : PageInv(panel[a], db, log)
  /\ \A a \in Admin : EditInv(a)
  /\ DeskInv

-----------------------------------------------------------------------------
(* The log.                                                                *)

LEMMA SequencesAreLogs ==
  ASSUME NEW C, NEW L \in Seq(C)
  PROVE  IsLog(L)
BY DEF IsLog

LEMMA LogGrows ==
  ASSUME NEW L, IsLog(L), NEW e
  PROVE  /\ IsLog(Append(L, e))
         /\ Len(L) \in Nat
         /\ Len(Append(L, e)) = Len(L) + 1
<1> DEFINE C == {L[i] : i \in DOMAIN L} \cup {e}
<1>1. L \in Seq(C) /\ e \in C
  BY DEF IsLog
<1> HIDE DEF C
<1>2. Append(L, e) \in Seq(C) /\ Len(L) \in Nat /\ Len(Append(L, e)) = Len(L) + 1
  BY <1>1, Appended
<1> QED
  BY <1>2, SequencesAreLogs

(* A commit e that writes what it changes explains the change beside what  *)
(* the log explained already.                                              *)
LEMMA StillExplained ==
  ASSUME NEW L, IsLog(L), NEW e, NEW n \in Nat, n <= Len(L),
         NEW S, NEW D, NEW E, Explained(D, L, S, n),
         OnlyRewrites(D, E, e.writes),
         E.schedule = D.schedule \/ Row("settings", 0) \in e.reads,
         \A b \in Confirmed(E) :
            \/ E.booked[b] = D.booked[b] /\ b \in Confirmed(D)
            \/ /\ BookedAt(E.booked[b].date, E.booked[b].service) \in e.writes
               /\ PlaceRows(E, b) \subseteq e.reads
  PROVE  Explained(E, Append(L, e), S, n)
<1> DEFINE C == {L[i] : i \in DOMAIN L} \cup {e}
           M == Append(L, e)
<1>1. L \in Seq(C) /\ e \in C
  BY DEF IsLog
<1> HIDE DEF C
<1>2. \A w : Replaced(L, n, w) => Replaced(M, n, w)
  BY <1>1, StillReplaced
<1>3. \A w \in e.writes : Replaced(M, n, w)
  BY <1>1, NowReplaced
<1>4. \A w, r : Met(L, n, w, r) => Met(M, n, w, r)
  BY <1>1, StillMet
<1>5. \A w \in e.writes, r \in e.reads : Met(M, n, w, r)
  BY <1>1, NowMet
<1> HIDE DEF M
<1>6. \A k \in DayOfWeek \X Service :
        /\ \/ E.schedule[k] = S.schedule[k]
           \/ Met(M, n, Row("schedule", k), Row("settings", 0))
        /\ E.cutoff[k] = S.cutoff[k] \/ Replaced(M, n, Row("cutoff", k))
  BY <1>2, <1>3, <1>4, <1>5 DEF Explained, OnlyRewrites
<1>7. /\ E.settings = S.settings \/ Replaced(M, n, Row("settings", 0))
      /\ E.contacts = S.contacts \/ Replaced(M, n, Row("contacts", 0))
      /\ E.contents = S.contents \/ Replaced(M, n, Row("contents", 0))
  BY <1>2, <1>3 DEF Explained, OnlyRewrites
<1>8. /\ \A r \in Room : E.room[r] = S.room[r] \/ Replaced(M, n, Row("room", r))
      /\ \A d \in DOMAIN Start.dining :
           E.dining[d] = S.dining[d] \/ Replaced(M, n, Row("dining", d))
      /\ \A h \in Hosted :
           E.hosted[h] = S.hosted[h] \/ Replaced(M, n, Row("hosted", h))
  BY <1>2, <1>3 DEF Explained, OnlyRewrites
<1>9. \A b \in Confirmed(E) :
        \/ E.booked[b] = S.booked[b]
        \/ \A x \in PlaceRows(E, b) :
             Met(M, n, BookedAt(E.booked[b].date, E.booked[b].service), x)
  <2> TAKE b \in Confirmed(E)
  <2>1. CASE E.booked[b] = D.booked[b] /\ b \in Confirmed(D)
    <3>1. PlaceRows(E, b) = PlaceRows(D, b)
      BY <2>1 DEF PlaceRows
    <3> QED
      BY <1>4, <2>1, <3>1 DEF Explained
  <2>2. CASE /\ BookedAt(E.booked[b].date, E.booked[b].service) \in e.writes
             /\ PlaceRows(E, b) \subseteq e.reads
    BY <1>5, <2>2
  <2> QED
    BY <2>1, <2>2
<1> QED
  BY <1>6, <1>7, <1>8, <1>9 DEF Explained, M

(* Nothing has to be explained of the tables as they are.                  *)
LEMMA ExplainedAtOnce ==
  ASSUME NEW D, NEW L, NEW n
  PROVE  Explained(D, L, D, n)
BY DEF Explained

-----------------------------------------------------------------------------
(* Pages.                                                                  *)

LEMMA PagesAreTyped ==
  ASSUME Start \in SoundTables, at \in Moments, NEW v \in Views, NEW d \in BOOLEAN
  PROVE  /\ Idle \in Page
         /\ Idle.stage = "idle" /\ Idle.dialog = FALSE /\ Idle.shown = NoPreview
         /\ LET q == [Idle EXCEPT !.shown = v, !.dialog = TRUE] IN
            q \in Page /\ q.stage = "idle" /\ q.shown = v
         /\ LET q == Requested(v, d) IN
            q \in Page /\ q.stage = "ready" /\ q.shown = v /\ q.tries = 0
<1>1. Instants[1] \in Moments /\ 0 \in 0..MaxAttempts
  BY ConfigurationAssumption DEF Moments
<1>2. NoPreview \in Views /\ NoSnapshot \in [db : SoundTables, since : Nat]
  BY DEF Views, NoSnapshot
<1> QED
  BY <1>1, <1>2 DEF Idle, Page, Requested

LEMMA PreviewsAreViews ==
  ASSUME NEW T \in SoundTables, NEW p \in Proposals, NEW w \in Moments
  PROVE  /\ Preview(T, p, w) \in Views
         /\ Preview(T, p, w).proposal = p
         /\ p.kind = "NEW_TABLE" =>
              /\ Preview(T, p, w).current = T.dining[p.table]
              /\ p.table \in DOMAIN Start.dining
<1>1. Preview(T, p, w) \in Views
  <2> DEFINE m == <<T, p, w>>
  <2>1. m \in SoundTables \X Proposals \X Moments
    OBVIOUS
  <2>2. Preview(T, p, w) = Preview(m[1], m[2], m[3])
    OBVIOUS
  <2> HIDE DEF m
  <2> QED
    BY <2>1, <2>2 DEF Views
<1>2. p.kind = "NEW_TABLE" => AsItIs(T, p) = T.dining[p.table]
  BY DEF AsItIs, Current, OfRooms
<1>3. p.kind = "NEW_TABLE" => p.table \in DOMAIN Start.dining
  BY ConfigurationAssumption, ProposalsAreTyped
<1> QED
  BY <1>1, <1>2, <1>3 DEF Preview

(* A page that shows a proposal, on tables it may be older than.           *)
LEMMA ShownPages ==
  ASSUME NEW T \in SoundTables, NEW q \in Page, NEW p \in Proposals, NEW w \in Moments,
         q.shown = Preview(T, p, w), q.stage \in {"idle", "ready"},
         q.stage = "ready" => q.tries < MaxAttempts, NEW L
  PROVE  PageInv(q, T, L)
<1>1. q.shown.proposal = p
  BY PreviewsAreViews
<1>2. ASSUME p.kind = "NEW_TABLE"
      PROVE  LET d == q.shown.proposal.table IN
             q.shown.current = Start.dining[d] \/ T.dining[d].room # NoRoom
  BY <1>1, <1>2, PreviewsAreViews DEF SoundTables, Sound
<1> QED
  BY <1>1, <1>2 DEF PageInv

LEMMA IdlePages ==
  ASSUME Start \in SoundTables, NEW D, NEW L
  PROVE  PageInv(Idle, D, L)
BY DEF PageInv, Idle, NoPreview

(* One page moves.                                                         *)
LEMMA PanelMoves ==
  ASSUME panel \in [Admin -> Page], NEW a \in Admin, NEW q \in Page,
         panel' = [panel EXCEPT ![a] = q], NEW D, NEW L,
         PageInv(q, D, L),
         \A b \in Admin \ {a} : PageInv(panel[b], D, L)
  PROVE  /\ panel' \in [Admin -> Page]
         /\ \A b \in Admin : PageInv(panel'[b], D, L)
<1>1. panel'[a] = q /\ \A b \in Admin \ {a} : panel'[b] = panel[b]
  OBVIOUS
<1> QED
  BY <1>1

(* The log is kept for whoever is running, unless it is who ends.          *)
LEMMA LogIsKept ==
  ASSUME NEW who, NEW L, Logged(who, L)
  PROVE  /\ \A b \in Admin : b # who /\ panel[b].stage = "running" => log' = L
         /\ who # "desk" /\ desk.busy => log' = L
         /\ log' = L \/ log' = << >>
BY DEF Logged, Running

(* Pages of others when nothing is committed.                              *)
LEMMA OthersUndisturbed ==
  ASSUME Inv, NEW who, Logged(who, log)
  PROVE  /\ \A b \in Admin : b # who => PageInv(panel[b], db, log')
         /\ IsLog(log')
<1>1. \A b \in Admin : b # who => PageInv(panel[b], db, log')
  BY LogIsKept DEF Inv, PageInv
<1>2. IsLog(<< >>)
  BY DEF IsLog
<1> QED
  BY <1>1, <1>2, LogIsKept DEF Inv

(* Pages of others when e is committed.                                    *)
LEMMA OthersAtACommit ==
  ASSUME Inv, NEW who, NEW e, NEW E \in SoundTables,
         Logged(who, Append(log, e)),
         OnlyRewrites(db, E, e.writes),
         Forward(db, E),
         E.schedule = db.schedule \/ Row("settings", 0) \in e.reads,
         \A b \in Confirmed(E) :
            \/ E.booked[b] = db.booked[b] /\ b \in Confirmed(db)
            \/ /\ BookedAt(E.booked[b].date, E.booked[b].service) \in e.writes
               /\ PlaceRows(E, b) \subseteq e.reads
  PROVE  /\ \A b \in Admin : b # who => PageInv(panel[b], E, log')
         /\ IsLog(log')
<1>1. IsLog(log) /\ IsLog(Append(log, e)) /\ Len(log) \in Nat
      /\ Len(Append(log, e)) = Len(log) + 1
  BY LogGrows DEF Inv
<1>2. IsLog(<< >>)
  BY DEF IsLog
<1>3. ASSUME NEW b \in Admin, b # who
      PROVE  PageInv(panel[b], E, log')
  <2> DEFINE q == panel[b]
             n == q.snap.since
  <2>1. PageInv(q, db, log) /\ q \in Page
    BY DEF Inv
  <2>2. ASSUME q.stage = "running"
        PROVE  n <= Len(log') /\ Explained(E, log', q.snap.db, n)
    <3>1. log' = Append(log, e)
      BY <1>3, <2>2, LogIsKept
    <3>2. n <= Len(log) /\ Explained(db, log, q.snap.db, n)
      BY <2>1, <2>2 DEF PageInv
    <3>3. n \in Nat
      BY <2>1 DEF Page
    <3> HIDE DEF n
    <3>4. Explained(E, Append(log, e), q.snap.db, n)
      BY <1>1, <3>2, <3>3, StillExplained
    <3>5. n <= Len(Append(log, e))
      BY <1>1, <3>2, <3>3
    <3> QED
      BY <3>1, <3>4, <3>5
  <2>3. ASSUME q.shown.proposal.kind = "NEW_TABLE"
        PROVE  LET d == q.shown.proposal.table IN
               \/ q.shown.current = Start.dining[d]
               \/ /\ E.dining[d].room # NoRoom
                  /\ q.stage = "running" => q.snap.db.dining[d].room # NoRoom
    <3> DEFINE d == q.shown.proposal.table
    <3>1. d \in DOMAIN Start.dining
      <4>1. q.shown \in Views /\ q.shown # NoPreview
        BY <2>1, <2>3 DEF Page, NoPreview
      <4>2. PICK m \in SoundTables \X Proposals \X Moments :
                   q.shown = Preview(m[1], m[2], m[3])
        BY <4>1 DEF Views
      <4>3. q.shown.proposal = m[2] /\ m[2] \in Proposals
        BY <4>2 DEF Preview
      <4> QED
        BY <2>3, <4>3, ConfigurationAssumption, ProposalsAreTyped
    <3>2. db.dining[d].room # NoRoom => E.dining[d].room # NoRoom
      BY <3>1 DEF Forward
    <3> QED
      BY <2>1, <2>3, <3>2 DEF PageInv
  <2> QED
    BY <2>1, <2>2, <2>3 DEF PageInv
<1> QED
  BY <1>1, <1>2, <1>3, LogIsKept

-----------------------------------------------------------------------------
(* Commits.                                                                *)

(* A change that is applied: what OthersAtACommit asks of it.              *)
LEMMA ChangesAreCommits ==
  ASSUME Inv, NEW a \in Admin, panel[a].shown.proposal \in Proposals
  PROVE  LET p == panel[a].shown.proposal
             E == Applied(db, p)
             e == PanelEntry(a)
         IN  /\ E \in SoundTables
             /\ OnlyRewrites(db, E, e.writes)
             /\ Forward(db, E)
             /\ E.booked = db.booked
             /\ E.schedule = db.schedule \/ Row("settings", 0) \in e.reads
             /\ \A b \in Confirmed(E) : E.booked[b] = db.booked[b] /\ b \in Confirmed(db)
<1> DEFINE p == panel[a].shown.proposal
           E == Applied(db, p)
           e == PanelEntry(a)
<1>1. db \in Database /\ Sound(db) /\ p \in Proposal
  BY ConfigurationAssumption DEF Inv, SoundTables
<1>2. e.writes = Writes(p) /\ e.reads = Reads(panel[a].snap.db, p, panel[a].when)
  BY DEF PanelEntry
<1>3. p.kind = "WEEKLY_SCHEDULE" => Row("settings", 0) \in e.reads
  BY <1>2 DEF Reads, Impacting
<1> HIDE DEF p, e
<1>4. /\ OnlyRewrites(db, E, Writes(p))
      /\ Forward(db, E)
      /\ E.booked = db.booked
      /\ E.schedule = db.schedule \/ p.kind = "WEEKLY_SCHEDULE"
  BY <1>1, AppliedRewrites
<1> HIDE DEF E
<1>5. Confirmed(E) = Confirmed(db)
  BY <1>4 DEF Confirmed
<1>6. E \in SoundTables
  <2>1. \A r \in Room : E.room[r].policy = Start.room[r].policy
    BY <1>1, <1>4 DEF Sound, Forward
  <2>2. \A d \in DOMAIN Start.dining :
          E.dining[d] = Start.dining[d] \/ E.dining[d].room # NoRoom
    BY <1>1, <1>4 DEF Sound, Forward
  <2>3. \A b \in Confirmed(E) : <<E.booked[b].date, E.booked[b].service>> \in Hosted
    BY <1>1, <1>4, <1>5 DEF Sound
  <2> QED
    BY <1>4, <2>1, <2>2, <2>3 DEF SoundTables, Sound, OnlyRewrites
<1> QED
  BY <1>2, <1>3, <1>4, <1>5, <1>6 DEF p, E, e

(* The same of a request about a reservation.                              *)
LEMMA WishesAreCommits ==
  ASSUME Inv, desk.busy
  PROVE  LET E == Taken(desk.wish)
             e == DeskEntry
         IN  /\ E \in SoundTables
             /\ OnlyRewrites(db, E, e.writes)
             /\ Forward(db, E)
             /\ E.schedule = db.schedule
             /\ \A b \in Confirmed(E) :
                  \/ E.booked[b] = db.booked[b] /\ b \in Confirmed(db)
                  \/ /\ BookedAt(E.booked[b].date, E.booked[b].service) \in e.writes
                     /\ PlaceRows(E, b) \subseteq e.reads
<1> DEFINE w == desk.wish
           S == desk.snap.db
           E == Taken(w)
           e == DeskEntry
           b == w.booking
<1>1. /\ w \in Wish /\ S \in Database
      /\ S.booked = db.booked
      /\ \A h \in Hosted : S.hosted[h].version <= db.hosted[h].version
  BY ConfigurationAssumption DEF Inv, DeskInv
<1>2. db \in Database /\ Sound(db)
  BY DEF Inv, SoundTables
<1>3. e.writes = DeskWrites(S, w) /\ e.reads = DeskReads(S, w)
  BY DEF DeskEntry
<1>4. /\ b \in DOMAIN Start.booked
      /\ E \in Database
      /\ E.settings = db.settings /\ E.schedule = db.schedule
      /\ E.cutoff = db.cutoff /\ E.special = db.special
      /\ E.room = db.room /\ E.dining = db.dining
      /\ E.contacts = db.contacts /\ E.contents = db.contents
  BY <1>1, <1>2, TakenTables
<1>5. w.kind \in {"create", "cancel", "assign"}
  BY <1>1 DEF Wish
<1>6. /\ db.booked \in [DOMAIN Start.booked -> BookingRow]
      /\ E.booked \in [DOMAIN Start.booked -> BookingRow]
      /\ db.hosted \in [Hosted -> InstanceRow] /\ S.hosted \in [Hosted -> InstanceRow]
      /\ E.hosted \in [Hosted -> InstanceRow]
      /\ DOMAIN S.room = Room
  BY <1>1, <1>2, <1>4 DEF Database
<1>7. /\ \A h \in Hosted : E.hosted[h] = db.hosted[h] \/ Row("hosted", h) \in e.writes
      /\ \A h \in Hosted : E.hosted[h].version >= db.hosted[h].version
  <2>1. CASE w.kind = "create"
    <3> DEFINE h == <<w.row.date, w.row.service>>
               M == Materialized(db, w.row.date, w.row.service)
    <3>1. h \in Hosted /\ E.hosted = M.hosted
      BY <1>1, <1>2, <2>1, TakenTables
    <3>2. /\ M.hosted = [db.hosted EXCEPT ![h] = M.hosted[h]]
          /\ M.hosted[h].version >= db.hosted[h].version
          /\ ~Virtual(db, w.row.date, w.row.service) => M.hosted = db.hosted
      BY <1>2, <3>1, MaterializedTables
    <3>3. Virtual(db, w.row.date, w.row.service) => Row("hosted", h) \in e.writes
      <4>1. S.hosted[h].version \in Nat /\ db.hosted[h].version \in Nat
        BY <1>6, <3>1 DEF InstanceRow
      <4>2. Virtual(db, w.row.date, w.row.service) => Virtual(S, w.row.date, w.row.service)
        BY <1>1, <3>1, <4>1 DEF Virtual
      <4> QED
        BY <1>3, <2>1, <4>2 DEF DeskWrites
    <3> HIDE DEF h, M, E, e
    <3>4. \A i \in Hosted : i # h => E.hosted[i] = db.hosted[i]
      BY <1>6, <3>1, <3>2
    <3>5. \A i \in Hosted : db.hosted[i].version \in Nat
      BY <1>6 DEF InstanceRow
    <3> QED
      BY <3>1, <3>2, <3>3, <3>4, <3>5
  <2>2. CASE w.kind # "create"
    <3>1. E.hosted = db.hosted
      BY <1>1, <1>2, <2>2, TakenTables
    <3>2. \A i \in Hosted : db.hosted[i].version \in Nat
      BY <1>6 DEF InstanceRow
    <3> QED
      BY <3>1, <3>2
  <2> QED
    BY <2>1, <2>2
<1>8. ASSUME NEW c \in Confirmed(E)
      PROVE  /\ <<E.booked[c].date, E.booked[c].service>> \in Hosted
             /\ \/ E.booked[c] = db.booked[c] /\ c \in Confirmed(db)
                \/ /\ BookedAt(E.booked[c].date, E.booked[c].service) \in e.writes
                   /\ PlaceRows(E, c) \subseteq e.reads
  <2>1. c \in DOMAIN Start.booked /\ E.booked[c].confirmed
    BY <1>6 DEF Confirmed
  <2>2. CASE c # b
    <3>1. E.booked[c] = db.booked[c]
      BY <1>1, <1>2, <1>5, <1>6, <2>1, <2>2, TakenTables
    <3>2. c \in Confirmed(db)
      BY <1>6, <2>1, <3>1 DEF Confirmed
    <3> QED
      BY <1>2, <3>1, <3>2 DEF Sound
  <2>3. CASE c = b /\ w.kind = "create"
    <3>1. E.booked[c] = w.row
      BY <1>1, <1>2, <1>6, <2>1, <2>3, TakenTables
    <3>2. <<w.row.date, w.row.service>> \in Hosted /\ w.row.tables = {}
      BY <1>1, <2>3 DEF Wish
    <3>3. BookedAt(w.row.date, w.row.service) \in e.writes
      BY <1>3, <2>3 DEF DeskWrites
    <3>4. ServiceReads(S, w.row.date, w.row.service) \subseteq e.reads
      BY <1>3, <2>3 DEF DeskReads
    <3>5. PlaceRows(E, c) \subseteq e.reads
      BY <1>6, <3>1, <3>2, <3>4 DEF PlaceRows, ServiceReads, All
    <3> QED
      BY <3>1, <3>2, <3>3, <3>5
  <2>4. CASE c = b /\ w.kind = "cancel"
    <3>1. E.booked[c] = [db.booked[c] EXCEPT !.confirmed = FALSE]
      BY <1>1, <1>2, <1>6, <2>1, <2>4, TakenTables
    <3>2. db.booked[c] \in BookingRow
      BY <1>6, <2>1
    <3> QED
      BY <2>1, <3>1, <3>2 DEF BookingRow
  <2>5. CASE c = b /\ w.kind = "assign"
    <3> DEFINE r == db.booked[c]
    <3>1. E.booked[c] = [r EXCEPT !.seated = w.room, !.tables = w.tables]
      BY <1>1, <1>2, <1>6, <2>1, <2>5, TakenTables
    <3>2. r \in BookingRow
      BY <1>6, <2>1
    <3> HIDE DEF r
    <3>3. /\ E.booked[c].date = r.date /\ E.booked[c].service = r.service
          /\ E.booked[c].tables = w.tables /\ r.confirmed
      BY <2>1, <3>1, <3>2 DEF BookingRow
    <3>4. c \in Confirmed(db)
      BY <1>6, <2>1, <3>3 DEF Confirmed, r
    <3>5. BookedAt(r.date, r.service) \in e.writes
      BY <1>1, <1>3, <2>5 DEF DeskWrites, r
    <3>6. /\ ServiceReads(S, r.date, r.service) \subseteq e.reads
          /\ {Row("dining", t) : t \in w.tables} \subseteq e.reads
      BY <1>1, <1>3, <2>5 DEF DeskReads, r
    <3> HIDE DEF E, e
    <3>7. PlaceRows(E, c) \subseteq e.reads
      BY <1>6, <3>3, <3>6 DEF PlaceRows, ServiceReads, All
    <3> QED
      BY <1>2, <3>3, <3>4, <3>5, <3>7 DEF Sound, r
  <2> QED
    BY <1>5, <2>2, <2>3, <2>4, <2>5
<1> HIDE DEF E, e
<1>9. OnlyRewrites(db, E, e.writes)
  BY <1>4, <1>7 DEF OnlyRewrites
<1>10. Forward(db, E)
  BY <1>4, <1>7 DEF Forward
<1>11. E \in SoundTables
  BY <1>2, <1>4, <1>8 DEF SoundTables, Sound
<1> QED
  BY <1>4, <1>8, <1>9, <1>10, <1>11 DEF E, e

-----------------------------------------------------------------------------
(* Every step keeps the invariant.                                         *)

LEMMA InitKeepsInv ==
  ASSUME Init
  PROVE  Inv
<1>1. Start \in SoundTables
  BY ConfigurationAssumption DEF SoundTables, Sound
<1>2. 1 \in 1..Len(Instants) /\ 0 \in 0..MaxRequests
  BY ConfigurationAssumption
<1>3. at \in Moments
  BY <1>2 DEF Init, at, Moments
<1>4. NoPreview \in Views
  BY DEF Views
<1>5. Idle \in Page
  BY <1>1, <1>3, <1>4, PagesAreTyped
<1>6. panel \in [Admin -> Page]
  BY <1>5 DEF Init
<1>7. \A a \in Admin : PageInv(panel[a], db, log)
  BY <1>1, IdlePages DEF Init
<1>8. IsLog(log)
  BY DEF Init, IsLog
<1>9. \A a \in Admin : EditInv(a)
  BY DEF Init, EditInv
<1>10. DeskInv
  BY DEF Init, DeskInv
<1> QED
  BY <1>1, <1>2, <1>6, <1>7, <1>8, <1>9, <1>10 DEF Init, Inv

LEMMA TickKeepsInv ==
  ASSUME Inv, Tick
  PROVE  Inv'
<1> DEFINE n == Len(Instants)
<1>1. n \in Nat /\ clock \in 1..n /\ clock < n /\ clock' = clock + 1
  BY ConfigurationAssumption DEF Inv, Tick
<1> HIDE DEF n
<1>2. clock' \in 1..n
  BY <1>1
<1>3. DeskInv'
  BY DEF Inv, Tick, DeskInv
<1> QED
  BY <1>2, <1>3 DEF Inv, EditInv, Tick, n

(* A step that leaves tables and log alone and moves one page.             *)
LEMMA MovesKeepInv ==
  ASSUME Inv, NEW a \in Admin, NEW q \in Page,
         panel' = [panel EXCEPT ![a] = q], PageInv(q, db, log),
         UNCHANGED <<db, clock, log, editor, desk>>,
         sent' \in 0..MaxRequests,
         holder' = holder
  PROVE  Inv'
<1>1. panel' \in [Admin -> Page] /\ \A b \in Admin : PageInv(panel'[b], db, log)
  <2> HIDE DEF PageInv
  <2>1. panel \in [Admin -> Page] /\ \A b \in Admin : PageInv(panel[b], db, log)
    BY DEF Inv
  <2> QED
    BY <2>1, PanelMoves
<1>2. DeskInv'
  BY DEF Inv, DeskInv
<1> QED
  BY <1>1, <1>2 DEF Inv, EditInv

(* What is true of every state the invariant holds in.                     *)
LEMMA StatesAreSound ==
  ASSUME Inv
  PROVE  /\ at \in Moments
         /\ Start \in SoundTables
         /\ db \in SoundTables
         /\ panel \in [Admin -> Page]
         /\ MaxAttempts \in Nat \ {0} /\ MaxRequests \in Nat
<1>1. Start \in SoundTables
  BY ConfigurationAssumption DEF SoundTables, Sound
<1> QED
  BY <1>1, ConfigurationAssumption DEF Inv, at, Moments

LEMMA SendsIsBounded ==
  ASSUME Inv, Sends
  PROVE  sent' \in 0..MaxRequests
BY StatesAreSound DEF Inv, Sends

LEMMA ProposeKeepsInv ==
  ASSUME Inv, NEW a \in Admin, Propose(a)
  PROVE  Inv'
<1>1. PICK p \in Proposals :
        LET v == Preview(db, p, at) IN
        panel' = [panel EXCEPT ![a] =
                    IF NeedsConfirmation(v)
                      THEN [Idle EXCEPT !.shown = v, !.dialog = TRUE]
                    ELSE Requested(v, FALSE)]
  BY DEF Propose
<1> DEFINE v == Preview(db, p, at)
           shown == [Idle EXCEPT !.shown = v, !.dialog = TRUE]
           asked == Requested(v, FALSE)
           q == IF NeedsConfirmation(v) THEN shown ELSE asked
<1>2. v \in Views
  BY StatesAreSound, PreviewsAreViews
<1>3. /\ shown \in Page /\ shown.stage = "idle" /\ shown.shown = v
      /\ asked \in Page /\ asked.stage = "ready" /\ asked.shown = v /\ asked.tries = 0
  <2> HIDE DEF v
  <2> QED
    BY <1>2, StatesAreSound, PagesAreTyped
<1>4. panel' = [panel EXCEPT ![a] = q]
  BY <1>1
<1> HIDE DEF shown, asked
<1>5. q \in Page /\ PageInv(q, db, log)
  BY <1>3, StatesAreSound, ShownPages
<1> HIDE DEF q
<1> QED
  BY <1>4, <1>5, SendsIsBounded, MovesKeepInv DEF Propose

LEMMA OpenFormKeepsInv ==
  ASSUME Inv, NEW a \in Admin, OpenForm(a)
  PROVE  Inv'
<1>1. PICK p \in Proposals :
        LET v == Preview(db, p, at) IN
        \/ panel' = [panel EXCEPT ![a] = [Idle EXCEPT !.shown = v, !.dialog = TRUE]]
        \/ panel' = [panel EXCEPT ![a] = Requested(v, FALSE)]
  BY DEF OpenForm
<1> DEFINE v == Preview(db, p, at)
           shown == [Idle EXCEPT !.shown = v, !.dialog = TRUE]
           asked == Requested(v, FALSE)
<1>2. v \in Views
  BY StatesAreSound, PreviewsAreViews
<1>3. /\ shown \in Page /\ shown.stage = "idle" /\ shown.shown = v
      /\ asked \in Page /\ asked.stage = "ready" /\ asked.shown = v /\ asked.tries = 0
  <2> HIDE DEF v
  <2> QED
    BY <1>2, StatesAreSound, PagesAreTyped
<1>4. panel' = [panel EXCEPT ![a] = shown] \/ panel' = [panel EXCEPT ![a] = asked]
  BY <1>1
<1> HIDE DEF shown, asked
<1>5. PageInv(shown, db, log) /\ PageInv(asked, db, log)
  BY <1>3, StatesAreSound, ShownPages
<1> QED
  BY <1>3, <1>4, <1>5, SendsIsBounded, MovesKeepInv DEF OpenForm

LEMMA ConfirmKeepsInv ==
  ASSUME Inv, NEW a \in Admin, Confirm(a)
  PROVE  Inv'
<1> DEFINE v == panel[a].shown
           q == Requested(v, TRUE)
<1>1. panel[a] \in Page /\ PageInv(panel[a], db, log)
  BY DEF Inv
<1>2. panel[a].stage = "idle" /\ panel[a].dialog
  BY DEF Confirm, Open
<1>3. v \in Views
  BY <1>1 DEF Page
<1>4. q \in Page /\ q.stage = "ready" /\ q.shown = v /\ q.tries = 0
  <2> HIDE DEF v
  <2> QED
    BY <1>3, StatesAreSound, PagesAreTyped
<1>5. panel' = [panel EXCEPT ![a] = q]
  BY DEF Confirm
<1> HIDE DEF q
<1>6. PageInv(q, db, log)
  BY <1>1, <1>2, <1>4, StatesAreSound DEF PageInv
<1> QED
  BY <1>4, <1>5, <1>6, MovesKeepInv DEF Confirm, Inv

LEMMA CancelKeepsInv ==
  ASSUME Inv, NEW a \in Admin, Cancel(a)
  PROVE  Inv'
<1>1. NoPreview \in Views
  BY DEF Views
<1>2. Idle \in Page /\ PageInv(Idle, db, log)
  BY <1>1, StatesAreSound, PagesAreTyped, IdlePages
<1> QED
  BY <1>2, MovesKeepInv DEF Cancel, Inv

LEMMA BeginKeepsInv ==
  ASSUME Inv, NEW a \in Admin, Begin(a)
  PROVE  Inv'
<1> DEFINE was == panel[a]
           snap == [db |-> db, since |-> Len(log)]
           q == [was EXCEPT !.stage = "running", !.tries = @ + 1, !.snap = snap]
<1>1. was \in Page /\ PageInv(was, db, log) /\ was.stage = "ready"
  BY DEF Inv, Begin
<1>2. panel' = [panel EXCEPT ![a] = q]
  BY DEF Begin
<1>3. snap \in [db : SoundTables, since : Nat]
  BY LogGrows DEF Inv
<1>4. was.tries \in 0..MaxAttempts /\ was.tries < MaxAttempts
  BY <1>1 DEF Page, PageInv
<1>5. was.tries + 1 \in 0..MaxAttempts
  BY <1>4, StatesAreSound
<1>6. snap.db = db /\ snap.since = Len(log) /\ Len(log) <= Len(log)
  BY <1>3
<1>7. Explained(db, log, db, Len(log))
  BY ExplainedAtOnce
<1> HIDE DEF snap, was
<1>8. /\ q \in Page
      /\ q.stage = "running" /\ q.shown = was.shown /\ q.snap = snap
  BY <1>1, <1>3, <1>5 DEF Page
<1> HIDE DEF q
<1>9. PageInv(q, db, log)
  BY <1>1, <1>6, <1>7, <1>8 DEF PageInv
<1> QED
  BY <1>2, <1>8, <1>9, MovesKeepInv DEF Begin, Inv

LEMMA AcquireKeepsInv ==
  ASSUME Inv, NEW x \in Admin \cup {"desk"}, holder' = {x},
         UNCHANGED <<db, clock, log, panel, editor, desk, sent>>
  PROVE  Inv'
<1>1. DeskInv'
  BY DEF Inv, DeskInv
<1> QED
  BY <1>1 DEF Inv, EditInv

(* A transaction that ends without a commit.                               *)
LEMMA EndsKeepInv ==
  ASSUME Inv, NEW a \in Admin, NEW q \in Page, Done(a, q),
         Logged(a, log), db' = db,
         q.stage # "running", PageInv(q, db, log)
  PROVE  Inv'
<1>1. IsLog(log') /\ \A b \in Admin \ {a} : PageInv(panel[b], db, log')
  BY OthersUndisturbed
<1>2. PageInv(q, db, log')
  BY DEF PageInv
<1>3. panel' = [panel EXCEPT ![a] = q]
  BY DEF Done
<1>4. panel' \in [Admin -> Page] /\ \A b \in Admin : PageInv(panel'[b], db, log')
  <2>1. panel \in [Admin -> Page]
    BY DEF Inv
  <2> QED
    BY <1>1, <1>2, <1>3, <2>1, PanelMoves
<1>5. DeskInv'
  <2>1. a # "desk"
    BY ConfigurationAssumption
  <2>2. desk.busy => log' = log
    BY <2>1, LogIsKept
  <2> QED
    BY <2>2 DEF Inv, DeskInv, Done
<1>6. holder' \in {{}} \cup {{x} : x \in Admin \cup {"desk"}}
  BY DEF Inv, Done
<1> QED
  BY <1>1, <1>4, <1>5, <1>6 DEF Inv, EditInv, Done

LEMMA ImpactChangedKeepsInv ==
  ASSUME Inv, NEW a \in Admin, ImpactChanged(a)
  PROVE  Inv'
<1> DEFINE was == panel[a]
           v == Again(a)
           old == was.shown
           fresh == [Idle EXCEPT !.shown = v, !.dialog = TRUE]
           kept == [Idle EXCEPT !.shown = old, !.dialog = TRUE]
<1>1. was \in Page /\ PageInv(was, db, log) /\ was.stage = "running"
  BY DEF Inv, ImpactChanged, Running
<1>2. old \in Views /\ old.proposal \in Proposals
      /\ was.snap.db \in SoundTables /\ was.when \in Moments
  BY <1>1 DEF Page, PageInv
<1>3. v \in Views /\ v.proposal = old.proposal
  BY <1>2, PreviewsAreViews DEF Again
<1>4. /\ fresh \in Page /\ fresh.stage = "idle" /\ fresh.shown = v
      /\ kept \in Page /\ kept.stage = "idle" /\ kept.shown = old
      /\ Idle \in Page
  <2> HIDE DEF v, old
  <2> QED
    BY <1>2, <1>3, StatesAreSound, PagesAreTyped
<1>5. \/ v.proposal.kind \in Impacting \cup OfRooms /\ Done(a, fresh)
      \/ Done(a, kept)
      \/ Done(a, Idle)
  BY <1>3 DEF ImpactChanged
<1>6. PageInv(kept, db, log)
  BY <1>1, <1>2, <1>4 DEF PageInv
<1>7. PageInv(Idle, db, log) /\ Idle.stage = "idle"
  BY StatesAreSound, IdlePages DEF Idle
<1>8. v.proposal.kind \in Impacting \cup OfRooms => PageInv(fresh, db, log)
  BY <1>2, <1>3, <1>4 DEF PageInv, Impacting, OfRooms
<1>9. Logged(a, log) /\ db' = db
  BY DEF ImpactChanged
<1> HIDE DEF fresh, kept, PageInv
<1> QED
  BY <1>4, <1>5, <1>6, <1>7, <1>8, <1>9, EndsKeepInv

LEMMA NothingToChangeKeepsInv ==
  ASSUME Inv, NEW a \in Admin, NothingToChange(a)
  PROVE  Inv'
<1>1. NoPreview \in Views
  BY DEF Views
<1>2. Idle \in Page /\ PageInv(Idle, db, log) /\ Idle.stage = "idle"
  BY <1>1, StatesAreSound, PagesAreTyped, IdlePages
<1>3. Done(a, Idle) /\ Logged(a, log) /\ db' = db
  BY DEF NothingToChange
<1> QED
  BY <1>2, <1>3, EndsKeepInv

LEMMA AbortKeepsInv ==
  ASSUME Inv, NEW a \in Admin, Abort(a)
  PROVE  Inv'
<1> DEFINE was == panel[a]
           old == was.shown
           again == [was EXCEPT !.stage = "ready", !.snap = NoSnapshot]
           kept == [Idle EXCEPT !.shown = old, !.dialog = TRUE]
<1>1. was \in Page /\ PageInv(was, db, log) /\ was.stage = "running"
  BY DEF Inv, Abort, Running
<1>2. old \in Views /\ old.proposal \in Proposals
  BY <1>1 DEF Page, PageInv
<1>3. /\ kept \in Page /\ kept.stage = "idle" /\ kept.shown = old
      /\ Idle \in Page /\ Idle.stage = "idle"
  <2> HIDE DEF old
  <2> QED
    BY <1>2, StatesAreSound, PagesAreTyped
<1>4. NoSnapshot \in [db : SoundTables, since : Nat]
  BY StatesAreSound DEF NoSnapshot
<1>5. /\ again \in Page /\ again.stage = "ready" /\ again.shown = old
      /\ again.tries = was.tries
  BY <1>1, <1>4 DEF Page
<1>6. \/ was.tries < MaxAttempts /\ Done(a, again)
      \/ Done(a, kept)
      \/ Done(a, Idle)
  BY DEF Abort, TriesAgain
<1>7. PageInv(kept, db, log)
  BY <1>1, <1>2, <1>3 DEF PageInv
<1>8. PageInv(Idle, db, log)
  BY StatesAreSound, IdlePages
<1>9. was.tries < MaxAttempts => PageInv(again, db, log)
  BY <1>1, <1>2, <1>5 DEF PageInv
<1>10. Logged(a, log) /\ db' = db
  BY DEF Abort
<1> HIDE DEF again, kept, PageInv
<1> QED
  BY <1>3, <1>5, <1>6, <1>7, <1>8, <1>9, <1>10, EndsKeepInv

LEMMA ApplyKeepsInv ==
  ASSUME Inv, NEW a \in Admin, Apply(a)
  PROVE  Inv'
<1> DEFINE p == panel[a].shown.proposal
           E == Applied(db, p)
           e == PanelEntry(a)
<1>1. PageInv(panel[a], db, log) /\ panel[a].stage = "running"
  BY DEF Inv, Apply, Running
<1>2. p \in Proposals
  BY <1>1 DEF PageInv
<1>3. /\ E \in SoundTables
      /\ OnlyRewrites(db, E, e.writes)
      /\ Forward(db, E)
      /\ E.booked = db.booked
      /\ E.schedule = db.schedule \/ Row("settings", 0) \in e.reads
      /\ \A b \in Confirmed(E) : E.booked[b] = db.booked[b] /\ b \in Confirmed(db)
  BY <1>2, ChangesAreCommits
<1>4. db' = E /\ Logged(a, Append(log, e)) /\ Done(a, Idle)
  BY DEF Apply
<1> HIDE DEF E, e
<1>5. IsLog(log') /\ \A b \in Admin \ {a} : PageInv(panel[b], E, log')
  BY <1>3, <1>4, OthersAtACommit
<1>6. NoPreview \in Views
  BY DEF Views
<1>7. Idle \in Page /\ PageInv(Idle, E, log')
  BY <1>6, StatesAreSound, PagesAreTyped, IdlePages
<1>8. panel' \in [Admin -> Page] /\ \A b \in Admin : PageInv(panel'[b], E, log')
  <2>1. panel \in [Admin -> Page] /\ panel' = [panel EXCEPT ![a] = Idle]
    BY <1>4 DEF Inv, Done
  <2> QED
    BY <1>5, <1>7, <2>1, PanelMoves
<1>9. DeskInv'
  <2>1. a # "desk"
    BY ConfigurationAssumption
  <2>2. SUFFICES ASSUME desk.busy
                 PROVE  DeskInv'
    BY <1>4 DEF DeskInv, Done
  <2>3. log' = Append(log, e)
    BY <1>4, <2>1, <2>2, LogIsKept
  <2>4. Len(log) \in Nat /\ Len(log') = Len(log) + 1
    BY <2>3, LogGrows DEF Inv
  <2>5. /\ desk.wish \in Wishes
        /\ desk.snap.db \in Database
        /\ desk.snap.since \in Nat /\ desk.snap.since <= Len(log)
        /\ desk.snap.db.booked = db.booked
        /\ \A h \in Hosted :
             desk.snap.db.hosted[h].version <= db.hosted[h].version
    BY <2>2 DEF Inv, DeskInv
  <2>6. desk.snap.since <= Len(log')
    BY <2>4, <2>5
  <2>7. \A h \in Hosted : desk.snap.db.hosted[h].version <= E.hosted[h].version
    <3>1. /\ db.hosted \in [Hosted -> InstanceRow] /\ E.hosted \in [Hosted -> InstanceRow]
          /\ desk.snap.db.hosted \in [Hosted -> InstanceRow]
      BY <1>3, <2>5 DEF Inv, SoundTables, Database
    <3>2. \A h \in Hosted : /\ db.hosted[h].version \in Nat
                             /\ E.hosted[h].version \in Nat
                             /\ desk.snap.db.hosted[h].version \in Nat
      BY <3>1 DEF InstanceRow
    <3> QED
      BY <1>3, <2>5, <3>2 DEF Forward
  <2> QED
    BY <1>3, <1>4, <2>5, <2>6, <2>7 DEF DeskInv, Done
<1>10. holder' \in {{}} \cup {{x} : x \in Admin \cup {"desk"}}
  BY <1>4 DEF Inv, Done
<1> QED
  BY <1>3, <1>4, <1>5, <1>8, <1>9, <1>10 DEF Inv, EditInv, Done

LEMMA DeskBeginKeepsInv ==
  ASSUME Inv, DeskBegin
  PROVE  Inv'
<1>1. PICK w \in Wishes : desk' = [busy |-> TRUE, wish |-> w,
                                   snap |-> [db |-> db, since |-> Len(log)]]
  BY DEF DeskBegin
<1>2. db \in Database /\ db.hosted \in [Hosted -> InstanceRow]
  BY DEF Inv, SoundTables, Database
<1>3. \A h \in Hosted : db.hosted[h].version \in Nat
  BY <1>2 DEF InstanceRow
<1>4. Len(log) \in Nat
  BY LogGrows DEF Inv
<1>5. UNCHANGED <<db, trail, clock, log, panel, holder, editor>>
  BY DEF DeskBegin
<1>6. DeskInv'
  BY <1>1, <1>2, <1>3, <1>4, <1>5 DEF DeskInv
<1>7. sent' \in 0..MaxRequests
  BY SendsIsBounded DEF DeskBegin
<1> QED
  BY <1>5, <1>6, <1>7 DEF Inv, EditInv

LEMMA DeskCommitKeepsInv ==
  ASSUME Inv, DeskCommit
  PROVE  Inv'
<1> DEFINE E == Taken(desk.wish)
           e == DeskEntry
<1>1. /\ E \in SoundTables
      /\ OnlyRewrites(db, E, e.writes)
      /\ Forward(db, E)
      /\ E.schedule = db.schedule
      /\ \A b \in Confirmed(E) :
           \/ E.booked[b] = db.booked[b] /\ b \in Confirmed(db)
           \/ /\ BookedAt(E.booked[b].date, E.booked[b].service) \in e.writes
              /\ PlaceRows(E, b) \subseteq e.reads
  BY WishesAreCommits DEF DeskCommit
<1>2. db' = E /\ Logged("desk", Append(log, e)) /\ DeskDone
  BY DEF DeskCommit
<1> HIDE DEF E, e
<1>3. IsLog(log') /\ \A b \in Admin : b # "desk" => PageInv(panel[b], E, log')
  BY <1>1, <1>2, OthersAtACommit
<1>4. \A b \in Admin : PageInv(panel'[b], E, log')
  BY <1>2, <1>3, ConfigurationAssumption DEF DeskDone
<1>5. DeskInv'
  BY <1>2 DEF DeskInv, DeskDone
<1>6. holder' \in {{}} \cup {{x} : x \in Admin \cup {"desk"}}
  BY <1>2 DEF Inv, DeskDone
<1> QED
  BY <1>1, <1>2, <1>3, <1>4, <1>5, <1>6 DEF Inv, EditInv, DeskDone

LEMMA DeskAbortKeepsInv ==
  ASSUME Inv, DeskAbort
  PROVE  Inv'
<1>1. Logged("desk", log) /\ DeskDone /\ db' = db
  BY DEF DeskAbort
<1>2. IsLog(log') /\ \A b \in Admin : b # "desk" => PageInv(panel[b], db, log')
  BY <1>1, OthersUndisturbed
<1>3. \A b \in Admin : PageInv(panel'[b], db, log')
  BY <1>1, <1>2, ConfigurationAssumption DEF DeskDone
<1>4. DeskInv'
  BY <1>1 DEF DeskInv, DeskDone
<1>5. holder' \in {{}} \cup {{x} : x \in Admin \cup {"desk"}}
  BY <1>1 DEF Inv, DeskDone
<1> QED
  BY <1>1, <1>2, <1>3, <1>4, <1>5 DEF Inv, EditInv, DeskDone

(* An edit of a special date writes a special date and nothing else.       *)
LEMMA EditedTables ==
  ASSUME Inv, NEW a \in Admin, WriteSpecialDate(a)
  PROVE  LET e == editor[a] IN
         /\ SameBut(db, db', "special")
         /\ db' = [db EXCEPT !.special[Target(e)] = Written(e)]
         /\ trail' = [trail EXCEPT !.special[Target(e)] = Told(Written(e))]
         /\ Target(e) \in DOMAIN db.special => Written(e) \in SpecialRow
<1> DEFINE e == editor[a]
           i == Target(e)
           row == Written(e)
<1>1. /\ e.kind \in {"create", "update", "archive", "reactivate"}
      /\ e.row \in SpecialRow
  BY DEF Inv, EditInv, WriteSpecialDate
<1>2. db' = [db EXCEPT !.special[i] = row] /\ trail' = [trail EXCEPT !.special[i] = Told(row)]
  BY DEF WriteSpecialDate, ToldOfEdit
<1>3. db \in Database /\ db.special \in [DOMAIN Start.special -> SpecialRow]
  BY DEF Inv, SoundTables, Database
<1>4. ASSUME i \in DOMAIN db.special
      PROVE  row \in SpecialRow
  <2> DEFINE was == db.special[i]
  <2>1. was \in SpecialRow
    BY <1>3, <1>4
  <2> QED
    BY <1>1, <2>1 DEF Written, SpecialRow
<1> HIDE DEF i, row
<1>5. db'.special \in [DOMAIN Start.special -> SpecialRow]
      /\ db' = [db EXCEPT !.special = db'.special]
  BY <1>2, <1>3, <1>4 DEF Database
<1>6. SameBut(db, db', "special")
  BY <1>3, <1>5 DEF SameBut, Database
<1> QED
  BY <1>2, <1>4, <1>6 DEF i, row

LEMMA WriteSpecialDateKeepsInv ==
  ASSUME Inv, NEW a \in Admin, WriteSpecialDate(a)
  PROVE  Inv'
<1>1. SameBut(db, db', "special")
  BY EditedTables
<1>2. UNCHANGED <<clock, log, panel, holder, desk, sent>>
      /\ editor' = [editor EXCEPT ![a] = NoEdit]
  BY DEF WriteSpecialDate
<1>3. Confirmed(db') = Confirmed(db)
  BY <1>1 DEF Confirmed, SameBut
<1>4. db' \in SoundTables
  BY <1>1, <1>3 DEF Inv, SoundTables, Sound, SameBut
<1>5. ASSUME NEW b \in Admin
      PROVE  PageInv(panel'[b], db', log')
  <2> DEFINE q == panel[b]
  <2>1. PageInv(q, db, log)
    BY DEF Inv
  <2>2. Explained(db, log, q.snap.db, q.snap.since)
          => Explained(db', log, q.snap.db, q.snap.since)
    BY <1>1, <1>3 DEF Explained, SameBut, PlaceRows
  <2>3. PageInv(q, db', log)
    BY <1>1, <2>1, <2>2 DEF PageInv, SameBut
  <2> QED
    BY <1>2, <2>3
<1>6. DeskInv'
  BY <1>1, <1>2 DEF Inv, DeskInv, SameBut
<1>7. \A b \in Admin : EditInv(b)'
  BY <1>2 DEF Inv, EditInv
<1> QED
  BY <1>2, <1>4, <1>5, <1>6, <1>7 DEF Inv

LEMMA ReadSpecialDateKeepsInv ==
  ASSUME Inv, NEW a \in Admin, ReadSpecialDate(a)
  PROVE  Inv'
<1>1. PICK e \in SpecialEdits :
        editor' = [editor EXCEPT ![a] =
            [kind |-> e.kind, row |-> e.row,
             id |-> IF e.kind # "create" THEN e.id
                    ELSE IF SameDay(db, e.row) = {} THEN None
                         ELSE CHOOSE i \in SameDay(db, e.row) : TRUE]]
  BY DEF ReadSpecialDate
<1> DEFINE id == IF e.kind # "create" THEN e.id
                 ELSE IF SameDay(db, e.row) = {} THEN None
                      ELSE CHOOSE i \in SameDay(db, e.row) : TRUE
           new == [kind |-> e.kind, row |-> e.row, id |-> id]
<1>2. /\ e.kind \in {"create", "update", "archive", "reactivate"}
      /\ e.row \in SpecialRow
  BY ConfigurationAssumption
<1>3. editor' = [editor EXCEPT ![a] = new] /\ new.kind = e.kind /\ new.row = e.row
  BY <1>1
<1>4. UNCHANGED <<db, trail, clock, log, panel, holder, desk>> /\ sent' \in 0..MaxRequests
  BY SendsIsBounded DEF ReadSpecialDate
<1> HIDE DEF id, new
<1>5. \A b \in Admin : EditInv(b)'
  BY <1>2, <1>3 DEF Inv, EditInv
<1>6. DeskInv'
  BY <1>4 DEF Inv, DeskInv
<1> QED
  BY <1>4, <1>5, <1>6 DEF Inv

LEMMA DuplicateSpecialDateKeepsInv ==
  ASSUME Inv, NEW a \in Admin, DuplicateSpecialDate(a)
  PROVE  Inv'
<1>1. UNCHANGED <<db, clock, log, panel, holder, desk, sent>>
  BY DEF DuplicateSpecialDate
<1>2. \A b \in Admin : EditInv(b)'
  BY DEF Inv, EditInv, DuplicateSpecialDate
<1>3. DeskInv'
  BY <1>1 DEF Inv, DeskInv
<1> QED
  BY <1>1, <1>2, <1>3 DEF Inv

(* One step per action of Next.                                            *)
LEMMA NextKeepsInv ==
  ASSUME Inv, [Next]_vars
  PROVE  Inv'
<1>1. ASSUME Tick PROVE Inv'
  BY <1>1, TickKeepsInv
<1>2. ASSUME NEW a \in Admin, Propose(a) PROVE Inv'
  BY <1>2, ProposeKeepsInv
<1>3. ASSUME NEW a \in Admin, OpenForm(a) PROVE Inv'
  BY <1>3, OpenFormKeepsInv
<1>4. ASSUME NEW a \in Admin, Confirm(a) PROVE Inv'
  BY <1>4, ConfirmKeepsInv
<1>5. ASSUME NEW a \in Admin, Cancel(a) PROVE Inv'
  BY <1>5, CancelKeepsInv
<1>6. ASSUME NEW a \in Admin, Begin(a) PROVE Inv'
  BY <1>6, BeginKeepsInv
<1>7. ASSUME NEW a \in Admin, Acquire(a) PROVE Inv'
  BY <1>7, AcquireKeepsInv DEF Acquire
<1>8. ASSUME NEW a \in Admin, Apply(a) PROVE Inv'
  BY <1>8, ApplyKeepsInv
<1>9. ASSUME NEW a \in Admin, ImpactChanged(a) PROVE Inv'
  BY <1>9, ImpactChangedKeepsInv
<1>10. ASSUME NEW a \in Admin, NothingToChange(a) PROVE Inv'
  BY <1>10, NothingToChangeKeepsInv
<1>11. ASSUME NEW a \in Admin, Abort(a) PROVE Inv'
  BY <1>11, AbortKeepsInv
<1>12. ASSUME NEW a \in Admin, ReadSpecialDate(a) PROVE Inv'
  BY <1>12, ReadSpecialDateKeepsInv
<1>13. ASSUME NEW a \in Admin, WriteSpecialDate(a) PROVE Inv'
  BY <1>13, WriteSpecialDateKeepsInv
<1>14. ASSUME NEW a \in Admin, DuplicateSpecialDate(a) PROVE Inv'
  BY <1>14, DuplicateSpecialDateKeepsInv
<1>15. ASSUME DeskBegin PROVE Inv'
  BY <1>15, DeskBeginKeepsInv
<1>16. ASSUME DeskAcquire PROVE Inv'
  BY <1>16, AcquireKeepsInv DEF DeskAcquire
<1>17. ASSUME DeskCommit PROVE Inv'
  BY <1>17, DeskCommitKeepsInv
<1>18. ASSUME DeskAbort PROVE Inv'
  BY <1>18, DeskAbortKeepsInv
<1>19. ASSUME UNCHANGED vars PROVE Inv'
  BY <1>19 DEF vars, Inv, EditInv, DeskInv
<1> QED
  BY <1>1, <1>2, <1>3, <1>4, <1>5, <1>6, <1>7, <1>8, <1>9, <1>10, <1>11, <1>12,
     <1>13, <1>14, <1>15, <1>16, <1>17, <1>18, <1>19 DEF Next

LEMMA AlwaysInv == Spec => []Inv
<1>1. Init => Inv
  BY InitKeepsInv
<1>2. Inv /\ [Next]_vars => Inv'
  BY NextKeepsInv
<1> QED
  BY <1>1, <1>2, PTL DEF Spec

(* The tables hold rows of their columns, a page is in a stage there is    *)
(* and within its attempts, and one transaction at most has the lock of    *)
(* the configuration.                                                      *)
THEOREM ConfigurationIsTyped == Spec => []TypeOK
<1>1. Inv => TypeOK
  BY DEF Inv, TypeOK, SoundTables, Page
<1> QED
  BY <1>1, AlwaysInv, PTL

-----------------------------------------------------------------------------
(* The audit log tells the tables.                                         *)

(* The event of an edit tells the row that was written.                    *)
LEMMA EditsAreTold ==
  ASSUME Inv, AuditTellsTheTables, NEW a \in Admin, WriteSpecialDate(a)
  PROVE  AuditTellsTheTables'
<1> DEFINE i == Target(editor[a])
           row == Written(editor[a])
           told == [k \in DOMAIN db.special |-> Told(db.special[k])]
           complete == db.contents # None
<1>1. /\ SameBut(db, db', "special")
      /\ db' = [db EXCEPT !.special[i] = row]
      /\ trail' = [trail EXCEPT !.special[i] = Told(row)]
  BY EditedTables
<1>2. db \in Database /\ db' \in Database
  BY <1>1 DEF Inv, SoundTables, SameBut
<1>3. trail = [settings |-> db.settings, schedule |-> db.schedule,
               cutoff |-> db.cutoff, special |-> told,
               contacts |-> Present(db.contacts), contents |-> complete,
               room |-> db.room, dining |-> db.dining,
               rooms |-> Availabilities(db)]
  BY DEF AuditTellsTheTables, AsTold
<1>4. Availabilities(db') = Availabilities(db)
  BY <1>1, <1>2, SameAvailabilities DEF SameBut
<1> DEFINE fresh == [k \in DOMAIN db'.special |-> Told(db'.special[k])]
<1>5. AsTold(db') =
              [settings |-> db.settings, schedule |-> db.schedule,
               cutoff |-> db.cutoff, special |-> fresh,
               contacts |-> Present(db.contacts), contents |-> complete,
               room |-> db.room, dining |-> db.dining,
               rooms |-> Availabilities(db)]
  BY <1>1, <1>4 DEF AsTold, SameBut
<1>6. fresh = [told EXCEPT ![i] = Told(row)]
  <2>1. db.special \in [DOMAIN Start.special -> SpecialRow]
    BY <1>2 DEF Database
  <2> HIDE DEF i, row
  <2>2. db'.special = [db.special EXCEPT ![i] = row]
    BY <1>1, <1>2 DEF Database
  <2> QED
    BY <2>1, <2>2
<1> HIDE DEF i, row, told, complete, fresh
<1>7. trail' = AsTold(db')
  BY <1>1, <1>3, <1>5, <1>6
<1> QED
  BY <1>7 DEF AuditTellsTheTables

(* The audit log, read from the start, tells the configuration there is,   *)
(* through every change that is applied, every edit of a special date and  *)
(* every booking that materialises a service (writeConfigurationAudit,     *)
(* insertAuditEvent).                                                      *)
THEOREM AuditTellsTheTablesHolds == Spec => []AuditTellsTheTables
<1>1. Init => AuditTellsTheTables
  BY DEF Init, AuditTellsTheTables
<1>2. ASSUME Inv, AuditTellsTheTables, [Next]_vars
      PROVE  AuditTellsTheTables'
  <2>1. CASE UNCHANGED <<db, trail>>
    BY <1>2, <2>1 DEF AuditTellsTheTables
  <2>2. ASSUME NEW a \in Admin, Apply(a)
        PROVE  AuditTellsTheTables'
    <3> DEFINE p == panel[a].shown.proposal
    <3>1. p \in Proposal
      BY <1>2, <2>2, ConfigurationAssumption DEF Inv, PageInv, Apply, Running
    <3>2. db' = Applied(db, p) /\ trail' = Recorded(p)
      BY <2>2 DEF Apply
    <3>3. db \in Database /\ trail = AsTold(db)
      BY <1>2 DEF Inv, SoundTables, AuditTellsTheTables
    <3> HIDE DEF p
    <3>4. Recorded(p) = AsTold(Applied(db, p))
      BY <3>1, <3>3, RecordedIsTold
    <3> QED
      BY <3>2, <3>4 DEF AuditTellsTheTables
  <2>3. ASSUME NEW a \in Admin, WriteSpecialDate(a)
        PROVE  AuditTellsTheTables'
    BY <1>2, <2>3, EditsAreTold
  <2>4. ASSUME DeskCommit
        PROVE  AuditTellsTheTables'
    <3>1. desk.wish \in Wish /\ db' = Taken(desk.wish) /\ trail' = trail
      BY <1>2, <2>4, ConfigurationAssumption DEF Inv, DeskInv, DeskCommit, DeskDone
    <3>2. AsTold(Taken(desk.wish)) = AsTold(db)
      BY <1>2, <3>1, TakenTellsNothing DEF Inv, SoundTables
    <3> QED
      BY <1>2, <3>1, <3>2 DEF AuditTellsTheTables
  <2>5. ASSUME NEW a \in Admin,
               \/ Propose(a) \/ OpenForm(a) \/ Confirm(a) \/ Cancel(a)
               \/ Begin(a) \/ Acquire(a) \/ ImpactChanged(a)
               \/ NothingToChange(a) \/ Abort(a) \/ ReadSpecialDate(a)
               \/ DuplicateSpecialDate(a)
        PROVE  UNCHANGED <<db, trail>>
    BY <2>5 DEF Propose, OpenForm, Confirm, Cancel, Begin, Acquire, ImpactChanged,
                NothingToChange, Abort, ReadSpecialDate, DuplicateSpecialDate
  <2>6. Tick \/ DeskBegin \/ DeskAcquire \/ DeskAbort \/ UNCHANGED vars
          => UNCHANGED <<db, trail>>
    BY DEF Tick, DeskBegin, DeskAcquire, DeskAbort, DeskDone, vars
  <2> QED
    BY <1>2, <2>1, <2>2, <2>3, <2>4, <2>5, <2>6 DEF Next
<1> QED
  BY <1>1, <1>2, AlwaysInv, PTL DEF Spec

-----------------------------------------------------------------------------
(* A change replaces what was shown.                                       *)

(* What is known of a change that is applied: what its author was shown,   *)
(* in tables that may be older than the snapshot, told the same, and no    *)
(* commit since the snapshot wrote what it writes, or read that and wrote  *)
(* what it read.                                                           *)
LEMMA AppliedChanges ==
  ASSUME Inv, NEW a \in Admin, Apply(a)
  PROVE  LET q == panel[a]
             p == q.shown.proposal
             S == q.snap.db
         IN  /\ p \in Proposals /\ p \in Proposal
             /\ S \in SoundTables /\ db \in SoundTables
             /\ Explained(db, log, S, q.snap.since)
             /\ \A w \in Writes(p) : ~Replaced(log, q.snap.since, w)
             /\ \A w \in Reads(S, p, q.when), r \in Writes(p) :
                  ~Met(log, q.snap.since, w, r)
             /\ \E T \in SoundTables, m \in Moments :
                  /\ q.shown = Preview(T, p, m)
                  /\ p.kind # "NEW_TABLE" =>
                       Fingerprint(S, p, q.when) = Fingerprint(T, p, m)
<1> DEFINE q == panel[a]
           p == q.shown.proposal
           S == q.snap.db
           n == q.snap.since
           e == PanelEntry(a)
<1>1. q \in Page /\ PageInv(q, db, log) /\ q.stage = "running" /\ IsLog(log)
  BY DEF Inv, Apply, Running
<1>2. p \in Proposals /\ p \in Proposal
  BY <1>1, ConfigurationAssumption DEF PageInv
<1>3. S \in SoundTables /\ db \in SoundTables /\ Explained(db, log, S, n)
  BY <1>1 DEF Page, PageInv, Inv
<1>4. e.since = n /\ e.reads = Reads(S, p, q.when) /\ e.writes = Writes(p)
  BY DEF PanelEntry
<1>5. ~Overwritten(log, n, {i \in Writes(p) : Len(i) = 2}) /\ ~Dangerous(Append(log, e))
  BY <1>4 DEF Apply, Conflict, Clashes
<1> DEFINE C == {log[i] : i \in DOMAIN log} \cup {e}
<1>6. log \in Seq(C) /\ e \in C
  BY <1>1 DEF IsLog
<1>7. \A w \in Writes(p) : Len(w) = 2
  <2> HIDE DEF p
  <2>1. \A table, key : Len(Row(table, key)) = 2
    BY DEF Row
  <2>2. \A w \in Writes(p) : \E table, key : w = Row(table, key)
    BY <1>2, ProposalsAreTyped DEF Writes, OfForms, Previewed, Impacting, OfRooms
  <2> QED
    BY <2>1, <2>2
<1> DEFINE rows == {i \in Writes(p) : Len(i) = 2}
<1>8. \A w \in Writes(p) : w \in rows
  BY <1>7
<1>9. \A w \in Writes(p) : ~Replaced(log, n, w)
  <2> HIDE DEF C, rows, n
  <2>1. ~Overwritten(log, n, rows)
    BY <1>5 DEF rows, n
  <2> QED
    BY <1>6, <1>8, <2>1, FirstUpdaterWins
<1>10. ASSUME NEW w \in Reads(S, p, q.when), NEW r \in Writes(p)
       PROVE  ~Met(log, n, w, r)
  <2> HIDE DEF e, C, S, p
  <2> QED
    BY <1>4, <1>5, <1>6, <1>10, TwoThatMeet
<1>11. PICK T \in SoundTables, m \in Moments : q.shown = Preview(T, p, m)
  <2>1. q.shown \in Views
    BY <1>1 DEF Page
  <2>2. q.shown # NoPreview
    <3>1. p.kind # "NONE"
      BY <1>2, ProposalsAreTyped DEF Previewed, Impacting, OfRooms, OfForms
    <3>2. NoPreview.proposal.kind = "NONE"
      BY DEF NoPreview
    <3> QED
      BY <3>1, <3>2
  <2>3. PICK m \in SoundTables \X Proposals \X Moments :
               q.shown = Preview(m[1], m[2], m[3])
    BY <2>1, <2>2 DEF Views
  <2>4. p = m[2]
    BY <2>3 DEF Preview
  <2> QED
    BY <2>3, <2>4
<1>12. p.kind # "NEW_TABLE" => Fingerprint(S, p, q.when) = Fingerprint(T, p, m)
  <2>1. p.kind # "NEW_TABLE" => Again(a).fingerprint = q.shown.fingerprint
    BY DEF Apply, SameAsShown
  <2>2. Again(a).fingerprint = Fingerprint(S, p, q.when)
    BY DEF Again, Preview
  <2>3. q.shown.fingerprint = Fingerprint(T, p, m)
    BY <1>11 DEF Preview
  <2> QED
    BY <2>1, <2>2, <2>3
<1> QED
  BY <1>2, <1>3, <1>9, <1>10, <1>11, <1>12

(* The rows a change writes are the same in the tables D and S.            *)
SameRows(D, S, p) ==
  /\ p.kind \in {"BOOKING_SETTINGS", "LINK_LIFE"} => D.settings = S.settings
  /\ p.kind = "WEEKLY_SCHEDULE" =>
       D.schedule[<<p.day, p.service>>] = S.schedule[<<p.day, p.service>>]
  /\ p.kind = "BOOKING_CUTOFF_RULE" =>
       D.cutoff[<<p.day, p.service>>] = S.cutoff[<<p.day, p.service>>]
  /\ p.kind = "CONTACTS" => D.contacts = S.contacts
  /\ p.kind = "CONTENTS" => D.contents = S.contents
  /\ p.kind = "SERVICE_ROOM_AVAILABILITY" =>
       D.hosted[<<p.date, p.service>>] = S.hosted[<<p.date, p.service>>]
  /\ p.kind = "ROOM_CATALOG" => D.room[p.room] = S.room[p.room]
  /\ p.kind \in {"DINING_TABLE", "NEW_TABLE"} =>
       D.dining[p.table] = S.dining[p.table]

(* The rows a change writes are, when it is applied, as in its snapshot.   *)
LEMMA WrittenAsSeen ==
  ASSUME NEW D, NEW S, NEW L, NEW n, Explained(D, L, S, n), NEW p \in Proposal,
         \A w \in Writes(p) : ~Replaced(L, n, w)
  PROVE  SameRows(D, S, p)
<1>1. \A w, r : Met(L, n, w, r) => Replaced(L, n, w)
  BY DEF Met, Replaced
<1>2. p.kind \in {"BOOKING_SETTINGS", "LINK_LIFE"} => D.settings = S.settings
  BY DEF Writes, Explained
<1>3. p.kind = "WEEKLY_SCHEDULE" =>
        D.schedule[<<p.day, p.service>>] = S.schedule[<<p.day, p.service>>]
  BY <1>1, ProposalsAreTyped DEF Writes, Explained
<1>4. p.kind = "BOOKING_CUTOFF_RULE" =>
        D.cutoff[<<p.day, p.service>>] = S.cutoff[<<p.day, p.service>>]
  BY ProposalsAreTyped DEF Writes, Explained
<1>5. p.kind = "CONTACTS" => D.contacts = S.contacts
  BY DEF Writes, Explained
<1>6. p.kind = "CONTENTS" => D.contents = S.contents
  BY DEF Writes, Explained
<1>7. p.kind = "SERVICE_ROOM_AVAILABILITY" =>
        D.hosted[<<p.date, p.service>>] = S.hosted[<<p.date, p.service>>]
  BY ProposalsAreTyped DEF Writes, Explained
<1>8. p.kind = "ROOM_CATALOG" => D.room[p.room] = S.room[p.room]
  BY ProposalsAreTyped DEF Writes, Explained
<1>9. p.kind \in {"DINING_TABLE", "NEW_TABLE"} => D.dining[p.table] = S.dining[p.table]
  BY ProposalsAreTyped DEF Writes, Explained
<1> QED
  BY <1>2, <1>3, <1>4, <1>5, <1>6, <1>7, <1>8, <1>9 DEF SameRows

(* What a preview shows as it is depends on the rows the change writes and *)
(* on the policies.                                                        *)
LEMMA ShownAsWritten ==
  ASSUME NEW D \in SoundTables, NEW S \in SoundTables, NEW p \in Proposal,
         SameRows(D, S, p)
  PROVE  AsItIs(D, p) = AsItIs(S, p)
<1> USE DEF OfForms, OfRooms
<1>1. CASE p.kind = "SERVICE_ROOM_AVAILABILITY"
  <2>1. ByPolicy(D) = ByPolicy(S)
    BY DEF SoundTables, Sound, ByPolicy
  <2>2. Configured(D, p.date, p.service) = Configured(S, p.date, p.service)
    BY <1>1, <2>1 DEF Configured, Virtual, SameRows
  <2> QED
    BY <1>1, <2>2 DEF AsItIs
<1>2. CASE p.kind \in {"ROOM_CATALOG", "DINING_TABLE"}
  BY <1>2 DEF AsItIs, SameRows
<1>3. CASE p.kind \in {"BOOKING_SETTINGS", "LINK_LIFE", "NEW_TABLE"}
  BY <1>3 DEF AsItIs, Current, SameRows, Settings
<1>4. CASE p.kind \in {"WEEKLY_SCHEDULE", "BOOKING_CUTOFF_RULE", "CONTACTS", "CONTENTS"}
  BY <1>4 DEF AsItIs, Current, SameRows
<1> QED
  BY <1>1, <1>2, <1>3, <1>4, ProposalsAreTyped DEF Previewed, Impacting

(* What is shown as it is, is part of the fingerprint.                     *)
LEMMA ShownInFingerprints ==
  ASSUME NEW S, NEW T, NEW p \in Proposal, Current(S, p) = Current(T, p)
  PROVE  AsItIs(S, p) = AsItIs(T, p)
<1> USE DEF OfForms, OfRooms
<1>1. CASE p.kind = "SERVICE_ROOM_AVAILABILITY"
  <2> DEFINE Told4(U) ==
        <<U.hosted[<<p.date, p.service>>].version,
          [Effective(U, p.date, p.service) EXCEPT !.cutoff = None,
                       !.open = ServiceOpen(U, p.date, p.service)],
           U.room[p.room].active, Configured(U, p.date, p.service)[p.room]>>
  <2>1. Current(S, p) = Told4(S) /\ Current(T, p) = Told4(T)
    BY <1>1 DEF Current, RoomCurrent
  <2>2. Told4(S)[4] = Configured(S, p.date, p.service)[p.room]
        /\ Told4(T)[4] = Configured(T, p.date, p.service)[p.room]
    OBVIOUS
  <2>3. AsItIs(S, p) = Told4(S)[4] /\ AsItIs(T, p) = Told4(T)[4]
    BY <1>1, <2>2 DEF AsItIs
  <2> HIDE DEF Told4
  <2> QED
    BY <2>1, <2>3
<1>2. CASE p.kind = "ROOM_CATALOG"
  BY <1>2 DEF AsItIs, Current, RoomCurrent
<1>3. CASE p.kind = "DINING_TABLE"
  BY <1>3 DEF AsItIs, Current, RoomCurrent
<1>4. CASE p.kind \notin OfRooms
  BY <1>4 DEF AsItIs
<1> QED
  BY <1>1, <1>2, <1>3, <1>4

(* A table that is not there yet was shown as it was at the start.         *)
LEMMA NewTablesAsShown ==
  ASSUME Inv, NEW a \in Admin, Apply(a), panel[a].shown.proposal.kind = "NEW_TABLE"
  PROVE  AsItIs(panel[a].snap.db, panel[a].shown.proposal) = panel[a].shown.current
<1> DEFINE q == panel[a]
           p == q.shown.proposal
           S == q.snap.db
<1>1. S \in SoundTables /\ p \in Proposal
  BY AppliedChanges
<1>2. p.table \in DOMAIN Start.dining
  BY <1>1, ProposalsAreTyped
<1>3. S.dining[p.table].room = NoRoom
  BY DEF Apply, Possible, Exists
<1>4. q.shown.current = Start.dining[p.table]
  BY <1>3 DEF Inv, Apply, Running, PageInv
<1>5. S.dining[p.table] = Start.dining[p.table]
  BY <1>1, <1>2, <1>3 DEF SoundTables, Sound
<1>6. AsItIs(S, p) = S.dining[p.table]
  BY DEF AsItIs, Current, OfForms, OfRooms
<1> QED
  BY <1>4, <1>5, <1>6

(* A change replaces what its author was shown, not what another           *)
(* administrator put in its place between the preview and the commit: the  *)
(* fingerprint ties the preview to the snapshot (assertFingerprint and     *)
(* those of the forms), and the serializable transaction ties the snapshot *)
(* to the tables it commits to.                                            *)
THEOREM NothingIsOverwrittenHolds == Spec => NothingIsOverwritten
<1> DEFINE Kept == \A a \in Admin :
             Apply(a) => AsItIs(db, panel[a].shown.proposal) = panel[a].shown.current
<1>1. ASSUME Inv
      PROVE  Kept
  <2>1. SUFFICES ASSUME NEW a \in Admin, Apply(a)
                 PROVE  AsItIs(db, panel[a].shown.proposal) = panel[a].shown.current
    OBVIOUS
  <2> DEFINE q == panel[a]
             p == q.shown.proposal
             S == q.snap.db
             n == q.snap.since
  <2>2. /\ p \in Proposal /\ S \in SoundTables /\ db \in SoundTables
        /\ Explained(db, log, S, n)
        /\ \A w \in Writes(p) : ~Replaced(log, n, w)
    BY <1>1, <2>1, AppliedChanges
  <2>3. PICK T \in SoundTables, m \in Moments :
          /\ q.shown = Preview(T, p, m)
          /\ p.kind # "NEW_TABLE" => Fingerprint(S, p, q.when) = Fingerprint(T, p, m)
    BY <1>1, <2>1, AppliedChanges
  <2>4. q.shown.current = AsItIs(T, p)
    BY <2>3 DEF Preview
  <2>5. AsItIs(S, p) = q.shown.current
    <3>1. CASE p.kind = "NEW_TABLE"
      BY <1>1, <2>1, <3>1, NewTablesAsShown
    <3>2. CASE p.kind # "NEW_TABLE"
      <4>1. Current(S, p) = Current(T, p)
        BY <2>3, <3>2 DEF Fingerprint
      <4> QED
        BY <2>2, <2>4, <4>1, ShownInFingerprints
    <3> QED
      BY <3>1, <3>2
  <2>6. AsItIs(db, p) = AsItIs(S, p)
    <3> HIDE DEF p, S, n
    <3>1. SameRows(db, S, p)
      BY <2>2, WrittenAsSeen
    <3> QED
      BY <2>2, <3>1, ShownAsWritten
  <2> QED
    BY <2>5, <2>6
<1>2. Inv => [Kept]_vars
  BY <1>1
<1> QED
  BY <1>2, AlwaysInv, PTL DEF NothingIsOverwritten

-----------------------------------------------------------------------------
(* What a fingerprint holds of the reservations.                           *)

(* The special dates in force of a date and a scope.                       *)
OfScope(T, date, scope) ==
  {i \in DOMAIN T.special : /\ T.special[i].date = date
                            /\ ~T.special[i].archived
                            /\ T.special[i].scope = scope}

Chosen(T, date, scope) ==
  T.special[CHOOSE i \in OfScope(T, date, scope) : TRUE]

LEMMA OverrideIsChosen ==
  ASSUME NEW T, NEW date, NEW service
  PROVE  /\ OfScope(T, date, service) # {} =>
              Override(T, date, service) = Chosen(T, date, service)
         /\ OfScope(T, date, service) = {} /\ OfScope(T, date, "ALL") # {} =>
              Override(T, date, service) = Chosen(T, date, "ALL")
         /\ OfScope(T, date, service) = {} /\ OfScope(T, date, "ALL") = {} =>
              Override(T, date, service) = NoRule
<1> DEFINE active == {i \in DOMAIN T.special : /\ T.special[i].date = date
                                               /\ ~T.special[i].archived}
           Of(scope) == {i \in active : T.special[i].scope = scope}
<1>1. Of(service) = OfScope(T, date, service) /\ Of("ALL") = OfScope(T, date, "ALL")
  BY DEF OfScope
<1>2. Override(T, date, service) =
        IF Of(service) \cup Of("ALL") = {} THEN NoRule
        ELSE T.special[CHOOSE i \in IF Of(service) # {} THEN Of(service)
                                    ELSE Of("ALL") : TRUE]
  BY DEF Override
<1> HIDE DEF Of
<1>3. CASE Of(service) # {}
  <2>1. (IF Of(service) # {} THEN Of(service) ELSE Of("ALL")) = Of(service)
    BY <1>3
  <2>2. Of(service) \cup Of("ALL") # {}
    BY <1>3
  <2> QED
    BY <1>1, <1>2, <1>3, <2>1, <2>2 DEF Chosen
<1>4. CASE Of(service) = {}
  <2>1. (IF Of(service) # {} THEN Of(service) ELSE Of("ALL")) = Of("ALL")
    BY <1>4
  <2>2. Of(service) \cup Of("ALL") = Of("ALL")
    BY <1>4
  <2> QED
    BY <1>1, <1>2, <1>4, <2>1, <2>2 DEF Chosen
<1> QED
  BY <1>3, <1>4

(* A special date in force is one of the date, and of the service or of    *)
(* the whole day: of a day when there is none of the service.              *)
LEMMA Overrides ==
  ASSUME NEW T, NEW date, NEW service \in Service
  PROVE  LET R == Override(T, date, service) IN
         /\ R = NoRule <=> OfScope(T, date, service) = {} /\ OfScope(T, date, "ALL") = {}
         /\ R # NoRule => R.date = date /\ R.scope \in {service, "ALL"}
         /\ R # NoRule /\ R.scope = service =>
              OfScope(T, date, service) # {} /\ R = Chosen(T, date, service)
         /\ R # NoRule /\ R.scope = "ALL" =>
              /\ OfScope(T, date, service) = {} /\ OfScope(T, date, "ALL") # {}
              /\ R = Chosen(T, date, "ALL")
<1>1. ASSUME NEW scope, OfScope(T, date, scope) # {}
      PROVE  LET c == Chosen(T, date, scope) IN
             c.date = date /\ c.scope = scope /\ c # NoRule
  <2>1. (CHOOSE i \in OfScope(T, date, scope) : TRUE) \in OfScope(T, date, scope)
    BY <1>1
  <2>2. NoRule.archived = TRUE
    BY DEF NoRule
  <2> QED
    BY <2>1, <2>2 DEF Chosen, OfScope
<1>2. service # "ALL"
  BY DEF Service
<1> QED
  BY <1>1, <1>2, OverrideIsChosen

(* Special dates alike in what a change of the limits depends on.          *)
Alike(R, Q) ==
  /\ R = NoRule <=> Q = NoRule
  /\ R # NoRule => Rule(R) = Rule(Q)

(* Whenever a special date governs the service s of the date d of a pair   *)
(* <<d, s>> in the tables S, its like governs one of Y in T.               *)
Likes(S, X, T, Y) ==
  \A x \in X : Override(S, x[1], x[2]) # NoRule =>
    \E y \in Y : /\ Override(T, y[1], y[2]) # NoRule
                 /\ Rule(Override(T, y[1], y[2])) = Rule(Override(S, x[1], x[2]))

(* When it goes both ways, the like governs the same service, not another  *)
(* one of that day.                                                        *)
LEMMA LikeOverride ==
  ASSUME NEW S, NEW T, NEW X, NEW Y, NEW date, NEW service \in Service,
         \A x \in X : x[2] \in Service, \A y \in Y : y[2] \in Service,
         <<date, service>> \in X, <<date, service>> \in Y,
         Likes(S, X, T, Y), Likes(T, Y, S, X),
         Override(S, date, service) # NoRule
  PROVE  /\ Override(T, date, service) # NoRule
         /\ Rule(Override(S, date, service)) = Rule(Override(T, date, service))
<1> DEFINE R == Override(S, date, service)
           Q == Override(T, date, service)
           own == <<date, service>>
<1>1. \A A, B : Rule(A) = Rule(B) => A.date = B.date /\ A.scope = B.scope
  BY DEF Rule
<1>2. service # "ALL" /\ own[1] = date /\ own[2] = service
  BY DEF Service
<1>3. PICK y \in Y : /\ Override(T, y[1], y[2]) # NoRule
                     /\ Rule(Override(T, y[1], y[2])) = Rule(R)
  <2>1. own \in X /\ Override(S, own[1], own[2]) = R
    BY <1>2
  <2> HIDE DEF own
  <2> QED
    BY <2>1 DEF Likes
<1> DEFINE P == Override(T, y[1], y[2])
<1>4. P.date = R.date /\ P.scope = R.scope /\ Rule(P) = Rule(R) /\ P # NoRule
  BY <1>1, <1>3
<1>5. y[2] \in Service /\ P.date = y[1] /\ P.scope \in {y[2], "ALL"}
  BY <1>4, Overrides
<1>6. R.date = date /\ R.scope \in {service, "ALL"}
  BY Overrides
<1>7. CASE R.scope = service
  <2>1. y[1] = date /\ y[2] = service
    BY <1>2, <1>4, <1>5, <1>6, <1>7
  <2> QED
    BY <1>4, <2>1
<1>8. CASE R.scope = "ALL"
  <2>1. P = Chosen(T, date, "ALL") /\ OfScope(T, date, "ALL") # {}
    <3>1. y[1] = date /\ P.scope = "ALL"
      BY <1>4, <1>5, <1>6, <1>8
    <3>2. P = Chosen(T, y[1], "ALL") /\ OfScope(T, y[1], "ALL") # {}
      BY <1>4, <1>5, <3>1, Overrides
    <3> QED
      BY <3>1, <3>2
  <2>2. Q # NoRule
    BY <2>1, Overrides
  <2>3. Q.scope # service
    <3>1. SUFFICES ASSUME Q.scope = service
                   PROVE  FALSE
      OBVIOUS
    <3>2. PICK x \in X : /\ Override(S, x[1], x[2]) # NoRule
                         /\ Rule(Override(S, x[1], x[2])) = Rule(Q)
      <4>1. own \in Y /\ Override(T, own[1], own[2]) = Q
        BY <1>2
      <4> HIDE DEF own
      <4> QED
        BY <2>2, <4>1 DEF Likes
    <3>3. /\ Override(S, x[1], x[2]).date = Q.date
          /\ Override(S, x[1], x[2]).scope = service
      BY <1>1, <3>1, <3>2
    <3>4. x[1] = Q.date /\ x[2] = service
      BY <1>2, <3>2, <3>3, Overrides
    <3>5. Q.date = date
      BY <2>2, Overrides
    <3> QED
      BY <1>2, <1>8, <3>3, <3>4, <3>5
  <2>4. Q = Chosen(T, date, "ALL")
    BY <2>2, <2>3, Overrides
  <2> QED
    BY <1>4, <2>1, <2>2, <2>4
<1> QED
  BY <1>6, <1>7, <1>8

(* The same special date, or none, governs a service in both.              *)
LEMMA AlikeOverrides ==
  ASSUME NEW S, NEW T, NEW X, NEW Y, NEW date, NEW service \in Service,
         \A x \in X : x[2] \in Service, \A y \in Y : y[2] \in Service,
         <<date, service>> \in X, <<date, service>> \in Y,
         Likes(S, X, T, Y), Likes(T, Y, S, X)
  PROVE  Alike(Override(S, date, service), Override(T, date, service))
BY LikeOverride DEF Alike

(* What a new weekly schedule takes from a reservation, beside the special *)
(* date there may be.                                                      *)
Loses(slot, rule, usual, row) ==
  \/ OpenUnder(rule, usual) /\ ~OpenUnder(rule, row)
  \/ /\ OpenUnder(rule, row)
     /\ InsideHours(slot, rule, usual)
     /\ ~InsideHours(slot, rule, row)

LEMMA WeeklyAffected ==
  ASSUME NEW T, NEW p, p.kind = "WEEKLY_SCHEDULE", NEW when, NEW b
  PROVE  b \in AffectedBy(T, p, when) <=>
           /\ b \in OfDay(T, p, when)
           /\ Loses(T.booked[b].slot, OverrideOf(T, b),
                    T.schedule[<<p.day, p.service>>], p.row)
<1> DEFINE usual == T.schedule[<<p.day, p.service>>]
           disabled == {c \in OfDay(T, p, when) :
                          /\ OpenUnder(OverrideOf(T, c), usual)
                          /\ ~OpenUnder(OverrideOf(T, c), p.row)}
           outside == {c \in OfDay(T, p, when) \ disabled :
                         /\ OpenUnder(OverrideOf(T, c), p.row)
                         /\ InsideHours(T.booked[c].slot, OverrideOf(T, c), usual)
                         /\ ~InsideHours(T.booked[c].slot, OverrideOf(T, c), p.row)}
<1>1. WeeklyImpact(T, p, when) =
        {Entry("SERVICE_DISABLED", c, None, None) : c \in disabled}
          \cup {Entry("OUTSIDE_NEW_HOURS", c, T.booked[c].slot, None) : c \in outside}
  BY DEF WeeklyImpact
<1>2. AffectedBy(T, p, when) = {i.booking : i \in WeeklyImpact(T, p, when)}
  BY DEF AffectedBy, Affected, Impact, OfRooms
<1>3. b \in AffectedBy(T, p, when) <=> b \in disabled \cup outside
  <2> HIDE DEF disabled, outside
  <2>1. \A class, c, slot : Entry(class, c, slot, None).booking = c
    BY DEF Entry
  <2>2. AffectedBy(T, p, when) \subseteq disabled \cup outside
    BY <1>1, <1>2, <2>1
  <2>3. ASSUME b \in disabled
        PROVE  b \in AffectedBy(T, p, when)
    BY <1>1, <1>2, <2>1, <2>3
  <2>4. ASSUME b \in outside
        PROVE  b \in AffectedBy(T, p, when)
    BY <1>1, <1>2, <2>1, <2>4
  <2> QED
    BY <2>2, <2>3, <2>4
<1> DEFINE rule == OverrideOf(T, b)
<1> HIDE DEF usual
<1>4. b \in disabled <=> b \in OfDay(T, p, when) /\ OpenUnder(rule, usual)
                          /\ ~OpenUnder(rule, p.row)
  OBVIOUS
<1>5. b \in outside <=> /\ b \in OfDay(T, p, when) /\ b \notin disabled
                        /\ OpenUnder(rule, p.row)
                        /\ InsideHours(T.booked[b].slot, rule, usual)
                        /\ ~InsideHours(T.booked[b].slot, rule, p.row)
  OBVIOUS
<1> HIDE DEF disabled, outside
<1> QED
  BY <1>3, <1>4, <1>5 DEF Loses, usual

(* A new weekly schedule touches, of the reservations on days without a    *)
(* special date, the same in all tables with the same fingerprint.         *)
LEMMA WeeklyFingerprints ==
  ASSUME NEW S, NEW T, NEW p, p.kind = "WEEKLY_SCHEDULE", NEW w, NEW m,
         Fingerprint(S, p, w) = Fingerprint(T, p, m),
         NEW b \in AffectedBy(S, p, w), OverrideOf(S, b) = NoRule
  PROVE  b \in AffectedBy(T, p, m)
<1>1. /\ Current(S, p) = Current(T, p)
      /\ WeeklyNeeds(S, p, w).booked = WeeklyNeeds(T, p, m).booked
  BY DEF Fingerprint, Needs, OfRooms
<1>2. S.schedule[<<p.day, p.service>>] = T.schedule[<<p.day, p.service>>]
  BY <1>1 DEF Current, OfForms, OfRooms
<1>3. /\ b \in OfDay(S, p, w)
      /\ Loses(S.booked[b].slot, NoRule, S.schedule[<<p.day, p.service>>], p.row)
  BY WeeklyAffected
<1>4. Fields(S, b) \in WeeklyNeeds(S, p, w).booked
  BY <1>3 DEF WeeklyNeeds
<1>5. PICK c \in OfDay(T, p, m) : OverrideOf(T, c) = NoRule /\ Fields(T, c) = Fields(S, b)
  BY <1>1, <1>4 DEF WeeklyNeeds
<1>6. c = b /\ T.booked[b].slot = S.booked[b].slot
  BY <1>5 DEF Fields
<1> QED
  BY <1>2, <1>3, <1>5, <1>6, WeeklyAffected

(* A change of the rooms touches the same reservations in all tables with  *)
(* the same fingerprint.                                                   *)
LEMMA RoomFingerprints ==
  ASSUME NEW S, NEW T, NEW p, p.kind \in OfRooms, NEW w, NEW m,
         Fingerprint(S, p, w) = Fingerprint(T, p, m)
  PROVE  RoomAffected(S, p, w) \subseteq RoomAffected(T, p, m)
<1>1. RoomNeeds(S, p, w) = RoomNeeds(T, p, m)
  BY DEF Fingerprint
<1>2. {RoomFields(S, p, b) : b \in RoomAffected(S, p, w)}
        = {RoomFields(T, p, b) : b \in RoomAffected(T, p, m)}
  BY <1>1 DEF RoomNeeds, NoNeeds
<1>3. \A U, b : RoomFields(U, p, b)[1][1] = b
  BY DEF RoomFields, Fields
<1> HIDE DEF RoomAffected, RoomFields
<1> QED
  BY <1>2, <1>3

-----------------------------------------------------------------------------
(* New booking settings.                                                   *)

Guests(T, p, when) ==
  {b \in Future(T, when) : /\ T.booked[b].public
                           /\ ChangesCutoff(T, p, T.booked[b].service)}

Counted(T, when) == {b \in Future(T, when) : ~OwnCapacity(OverrideOf(T, b))}

HoursOf(T, b) ==
  LET rule   == OverrideOf(T, b)
      weekly == T.schedule[<<Weekday(T.booked[b].date), T.booked[b].service>>]
  IN  Slots(Either(rule.start, weekly.start), Either(rule.end, weekly.end))

Beside(T, b, when) ==
  Future(T, when) \cap Arrivals(T, T.booked[b].date, T.booked[b].service)

LoadBeside(T, b, when, start) ==
  WindowLoad(T.booked, Beside(T, b, when), MaxParty, start, Window)

Overloaded(T, p, when) ==
  {b \in Counted(T, when) :
     \E start \in AffectedWindows(HoursOf(T, b), T.booked[b].slot, Window) :
       LoadBeside(T, b, when, start) > p.row.capacity}

LEMMA SettingsAffected ==
  ASSUME NEW T, NEW p, p.kind = "BOOKING_SETTINGS", NEW when, NEW b
  PROVE  b \in AffectedBy(T, p, when) <=>
           \/ b \in Guests(T, p, when)
           \/ Lowers(T, p) /\ b \in Overloaded(T, p, when)
<1> DEFINE Over(c) ==
             {start \in AffectedWindows(HoursOf(T, c), T.booked[c].slot, Window) :
                LoadBeside(T, c, when, start) > p.row.capacity}
           Of(c) == {Entry("CAPACITY_EXCEEDED", c, start, LoadBeside(T, c, when, start)) :
                       start \in Over(c)}
<1>1. CapacityImpact(T, p, when) =
        IF ~Lowers(T, p) THEN {} ELSE UNION {Of(c) : c \in Counted(T, when)}
  BY DEF CapacityImpact, HoursOf, LoadBeside, Beside, Counted
<1>2. CutoffImpact(T, p, when) =
        {Entry("MODIFICATION_CUTOFF_CHANGED", c, None, None) : c \in Guests(T, p, when)}
  BY DEF CutoffImpact, Guests
<1>3. AffectedBy(T, p, when) =
        {i.booking : i \in CapacityImpact(T, p, when) \cup CutoffImpact(T, p, when)}
  BY DEF AffectedBy, Affected, Impact, OfRooms
<1>4. \A c : c \in Overloaded(T, p, when) <=> c \in Counted(T, when) /\ Over(c) # {}
  BY DEF Overloaded
<1>5. \A c : \A i \in Of(c) : i.booking = c
  BY DEF Entry
<1>6. \A c : Over(c) # {} <=> Of(c) # {}
  OBVIOUS
<1>7. \A i \in CutoffImpact(T, p, when) : i.booking \in Guests(T, p, when)
  BY <1>2 DEF Entry
<1>8. \A c \in Guests(T, p, when) : \E i \in CutoffImpact(T, p, when) : i.booking = c
  <2> TAKE c \in Guests(T, p, when)
  <2> DEFINE e == Entry("MODIFICATION_CUTOFF_CHANGED", c, None, None)
  <2>1. e \in CutoffImpact(T, p, when)
    BY <1>2
  <2>2. e.booking = c
    BY DEF Entry
  <2> QED
    BY <2>1, <2>2
<1> HIDE DEF Over, Of
<1>9. b \in AffectedBy(T, p, when) =>
           \/ b \in Guests(T, p, when)
           \/ Lowers(T, p) /\ b \in Overloaded(T, p, when)
  BY <1>1, <1>3, <1>4, <1>5, <1>6, <1>7
<1>10. b \in Guests(T, p, when) => b \in AffectedBy(T, p, when)
  BY <1>3, <1>8
<1>11. Lowers(T, p) /\ b \in Overloaded(T, p, when) => b \in AffectedBy(T, p, when)
  BY <1>1, <1>3, <1>4, <1>5, <1>6
<1> QED
  BY <1>9, <1>10, <1>11

(* A reservation that does not fit beside some does not beside more.       *)
LEMMA OverloadedBesideMore ==
  ASSUME NEW S, NEW T, NEW p, p.row.capacity \in Nat, NEW w, NEW m,
         NEW b \in Overloaded(S, p, w), b \in Counted(T, m),
         T.booked[b].slot = S.booked[b].slot, HoursOf(T, b) = HoursOf(S, b),
         IsFiniteSet(DOMAIN T.booked),
         Beside(S, b, w) \subseteq Beside(T, b, m),
         \A c \in Beside(S, b, w) : /\ T.booked[c].slot = S.booked[c].slot
                                    /\ T.booked[c].party = S.booked[c].party
  PROVE  b \in Overloaded(T, p, m)
<1>1. PICK start \in AffectedWindows(HoursOf(S, b), S.booked[b].slot, Window) :
             LoadBeside(S, b, w, start) > p.row.capacity
  BY DEF Overloaded
<1>2. Beside(T, b, m) \subseteq DOMAIN T.booked
  BY DEF Beside, Future, Confirmed
<1>3. IsFiniteSet(Beside(T, b, m)) /\ IsFiniteSet(Beside(S, b, w))
  BY <1>2, FS_Subset
<1>4. MaxParty \in Nat
  BY EffectiveAssumption
<1>5. LoadBeside(S, b, w, start) \in Nat /\ LoadBeside(T, b, m, start) \in Nat
  BY <1>3, <1>4, LoadIsNatural DEF LoadBeside
<1>6. LoadBeside(S, b, w, start) <= LoadBeside(T, b, m, start)
  BY <1>3, <1>4, LoadIsMonotone DEF LoadBeside
<1>7. LoadBeside(T, b, m, start) > p.row.capacity
  BY <1>1, <1>5, <1>6
<1> QED
  BY <1>1, <1>7 DEF Overloaded

(* Special dates alike leave the same hours and the same capacity in force.*)
LEMMA AlikeRules ==
  ASSUME NEW R, NEW Q, Alike(R, Q)
  PROVE  /\ R.start = Q.start /\ R.end = Q.end
         /\ OwnCapacity(R) <=> OwnCapacity(Q)
<1>1. \A A, B : Rule(A) = Rule(B) =>
        /\ A.closed = B.closed /\ A.start = B.start /\ A.end = B.end
        /\ A.capacity = B.capacity
  BY DEF Rule
<1>2. CASE R = NoRule
  BY <1>2 DEF Alike
<1>3. CASE R # NoRule
  BY <1>1, <1>3 DEF Alike, OwnCapacity
<1> QED
  BY <1>2, <1>3

(* What the fingerprint of booking settings holds: of the reservations, of *)
(* the days of those that count, of the special dates.                     *)
HeldBookings(T, p, when) ==
  Guests(T, p, when) \cup (IF Lowers(T, p) THEN Counted(T, when) ELSE {})

Day(T, b) == <<Weekday(T.booked[b].date), T.booked[b].service>>

HeldDays(T, when) ==
  {<<Day(T, b), T.schedule[Day(T, b)].start, T.schedule[Day(T, b)].end>> :
     b \in Counted(T, when)}

Governed(T, when) == {b \in Future(T, when) : OverrideOf(T, b) # NoRule}

HeldRules(T, when) == {Rule(OverrideOf(T, b)) : b \in Governed(T, when)}

SameHeld(S, w, T, m, p) ==
  /\ Lowers(S, p) <=> Lowers(T, p)
  /\ \A service : ChangesCutoff(S, p, service) <=> ChangesCutoff(T, p, service)
  /\ \A b \in HeldBookings(S, p, w) :
       b \in HeldBookings(T, p, m) /\ Fields(T, b) = Fields(S, b)
  /\ Lowers(S, p) => /\ HeldDays(S, w) = HeldDays(T, m)
                     /\ HeldRules(S, w) = HeldRules(T, m)

LEMMA SettingsHeld ==
  ASSUME NEW S, NEW T, NEW p, p.kind = "BOOKING_SETTINGS", NEW w, NEW m,
         Fingerprint(S, p, w) = Fingerprint(T, p, m)
  PROVE  SameHeld(S, w, T, m, p)
<1>1. Settings(S) = Settings(T) /\ SettingsNeeds(S, p, w) = SettingsNeeds(T, p, m)
  BY DEF Fingerprint, Current, Needs, OfRooms
<1>2. S.settings.capacity = T.settings.capacity /\ S.settings.cutoff = T.settings.cutoff
  BY <1>1 DEF Settings
<1>3. /\ Lowers(S, p) <=> Lowers(T, p)
      /\ \A service : ChangesCutoff(S, p, service) <=> ChangesCutoff(T, p, service)
  BY <1>2 DEF Lowers, ChangesCutoff
<1>4. ASSUME NEW U, NEW when
      PROVE  /\ SettingsNeeds(U, p, when).booked
                  = {Fields(U, b) : b \in HeldBookings(U, p, when)}
             /\ Lowers(U, p) => SettingsNeeds(U, p, when).schedule = HeldDays(U, when)
             /\ Lowers(U, p) => SettingsNeeds(U, p, when).special = HeldRules(U, when)
  BY DEF SettingsNeeds, Guests, Counted, HeldBookings, HeldDays, Day, HeldRules, Governed
<1>5. {Fields(S, b) : b \in HeldBookings(S, p, w)}
        = {Fields(T, b) : b \in HeldBookings(T, p, m)}
  BY <1>1, <1>4
<1>6. \A b \in HeldBookings(S, p, w) :
        b \in HeldBookings(T, p, m) /\ Fields(T, b) = Fields(S, b)
  <2>1. \A U, b : Fields(U, b)[1] = b
    BY DEF Fields
  <2> HIDE DEF Fields
  <2> QED
    BY <1>5, <2>1
<1>7. Lowers(S, p) => HeldDays(S, w) = HeldDays(T, m) /\ HeldRules(S, w) = HeldRules(T, m)
  BY <1>1, <1>3, <1>4
<1> QED
  BY <1>3, <1>6, <1>7 DEF SameHeld

(* The same special dates held are likes of each other.                    *)
LEMMA LikesOfRules ==
  ASSUME NEW S, NEW T, NEW w, NEW m, HeldRules(S, w) = HeldRules(T, m)
  PROVE  LET X == {<<S.booked[c].date, S.booked[c].service>> : c \in Future(S, w)}
             Y == {<<T.booked[c].date, T.booked[c].service>> : c \in Future(T, m)}
         IN  Likes(S, X, T, Y) /\ Likes(T, Y, S, X)
<1> DEFINE Pairs(U, when) ==
             {<<U.booked[c].date, U.booked[c].service>> : c \in Future(U, when)}
<1>1. ASSUME NEW U, NEW V, NEW u, NEW v, HeldRules(U, u) = HeldRules(V, v)
      PROVE  Likes(U, Pairs(U, u), V, Pairs(V, v))
  <2>1. SUFFICES ASSUME NEW x \in Pairs(U, u), Override(U, x[1], x[2]) # NoRule
                 PROVE  \E y \in Pairs(V, v) :
                          /\ Override(V, y[1], y[2]) # NoRule
                          /\ Rule(Override(V, y[1], y[2])) = Rule(Override(U, x[1], x[2]))
    BY DEF Likes
  <2>2. PICK c \in Future(U, u) : x = <<U.booked[c].date, U.booked[c].service>>
    OBVIOUS
  <2>3. Override(U, x[1], x[2]) = OverrideOf(U, c)
    BY <2>2 DEF OverrideOf
  <2>4. Rule(OverrideOf(U, c)) \in HeldRules(V, v)
    BY <1>1, <2>1, <2>3 DEF HeldRules, Governed
  <2>5. PICK d \in Future(V, v) : /\ OverrideOf(V, d) # NoRule
                                 /\ Rule(OverrideOf(V, d)) = Rule(OverrideOf(U, c))
    BY <2>4 DEF HeldRules, Governed
  <2> DEFINE y == <<V.booked[d].date, V.booked[d].service>>
  <2>6. y \in Pairs(V, v) /\ Override(V, y[1], y[2]) = OverrideOf(V, d)
    BY DEF OverrideOf
  <2> HIDE DEF y, Pairs
  <2> QED
    BY <2>3, <2>5, <2>6
<1> QED
  BY <1>1

(* New booking settings touch, in all tables with the same fingerprint,    *)
(* what they touch in one of them: a window is no fuller than the          *)
(* reservations the fingerprint holds make it.                             *)
LEMMA SettingsFingerprints ==
  ASSUME NEW S \in Database, NEW T \in Database, NEW p \in Proposal,
         p.kind = "BOOKING_SETTINGS", NEW w, NEW m,
         Fingerprint(S, p, w) = Fingerprint(T, p, m)
  PROVE  AffectedBy(S, p, w) \subseteq AffectedBy(T, p, m)
<1>0. /\ Lowers(S, p) <=> Lowers(T, p)
      /\ \A service : ChangesCutoff(S, p, service) <=> ChangesCutoff(T, p, service)
      /\ \A b \in HeldBookings(S, p, w) :
           b \in HeldBookings(T, p, m) /\ Fields(T, b) = Fields(S, b)
      /\ Lowers(S, p) => /\ HeldDays(S, w) = HeldDays(T, m)
                         /\ HeldRules(S, w) = HeldRules(T, m)
  <2>1. SameHeld(S, w, T, m, p)
    BY SettingsHeld
  <2> QED
    BY <2>1 DEF SameHeld
<1>1. /\ S.booked \in [DOMAIN Start.booked -> BookingRow]
      /\ T.booked \in [DOMAIN Start.booked -> BookingRow]
  BY DEF Database
<1>2. /\ IsFiniteSet(DOMAIN T.booked)
      /\ p.row.capacity \in Nat
  BY <1>1, ConfigurationAssumption, ProposalsAreTyped
<1>3. ASSUME NEW b, Fields(T, b) = Fields(S, b)
      PROVE  /\ T.booked[b].date = S.booked[b].date
             /\ T.booked[b].service = S.booked[b].service
             /\ T.booked[b].slot = S.booked[b].slot
             /\ T.booked[b].party = S.booked[b].party
             /\ T.booked[b].public = S.booked[b].public
  BY <1>3 DEF Fields
<1>4. \A b \in Guests(S, p, w) : b \in Guests(T, p, m)
  <2> TAKE b \in Guests(S, p, w)
  <2>1. b \in Future(T, m) /\ Fields(T, b) = Fields(S, b)
    BY <1>0 DEF HeldBookings, Guests, Counted
  <2>2. S.booked[b].public /\ ChangesCutoff(S, p, S.booked[b].service)
    BY DEF Guests
  <2> QED
    BY <1>3, <2>1, <2>2, <1>0 DEF Guests
<1>5. ASSUME Lowers(S, p), NEW b \in Overloaded(S, p, w)
      PROVE  b \in Overloaded(T, p, m)
  <2> DEFINE X == {<<S.booked[c].date, S.booked[c].service>> : c \in Future(S, w)}
             Y == {<<T.booked[c].date, T.booked[c].service>> : c \in Future(T, m)}
  <2>1. HeldRules(S, w) = HeldRules(T, m)
    BY <1>5, <1>0
  <2>2. Likes(S, X, T, Y) /\ Likes(T, Y, S, X)
    BY <2>1, LikesOfRules
  <2>3. (\A x \in X : x[2] \in Service) /\ (\A y \in Y : y[2] \in Service)
    BY <1>1 DEF Future, Confirmed, BookingRow
  <2>4. ASSUME NEW c \in Counted(S, w)
        PROVE  /\ c \in Counted(T, m)
               /\ Fields(T, c) = Fields(S, c)
               /\ Alike(OverrideOf(S, c), OverrideOf(T, c))
    <3>1. c \in Future(T, m) /\ Fields(T, c) = Fields(S, c) /\ c \in Future(S, w)
      BY <1>5, <1>0 DEF HeldBookings, Guests, Counted
    <3>2. T.booked[c].date = S.booked[c].date /\ T.booked[c].service = S.booked[c].service
      BY <1>3, <3>1
    <3>3. S.booked[c].service \in Service
      BY <1>1, <3>1 DEF Future, Confirmed, BookingRow
    <3>4. /\ <<S.booked[c].date, S.booked[c].service>> \in X
          /\ <<S.booked[c].date, S.booked[c].service>> \in Y
      BY <3>1, <3>2
    <3> HIDE DEF X, Y
    <3>5. Alike(OverrideOf(S, c), OverrideOf(T, c))
      BY <2>2, <2>3, <3>2, <3>3, <3>4, AlikeOverrides DEF OverrideOf
    <3>6. OwnCapacity(OverrideOf(S, c)) <=> OwnCapacity(OverrideOf(T, c))
      BY <3>5, AlikeRules
    <3> QED
      BY <3>1, <3>5, <3>6 DEF Counted
  <2>5. b \in Counted(S, w)
    BY DEF Overloaded
  <2>6. b \in Counted(T, m) /\ Fields(T, b) = Fields(S, b)
        /\ Alike(OverrideOf(S, b), OverrideOf(T, b))
    BY <2>4, <2>5
  <2>7. HoursOf(T, b) = HoursOf(S, b)
    <3>1. HeldDays(S, w) = HeldDays(T, m)
      BY <1>5, <1>0
    <3>2. Day(T, b) = Day(S, b)
      BY <1>3, <2>6 DEF Day
    <3>3. PICK c \in Counted(T, m) :
             <<Day(T, c), T.schedule[Day(T, c)].start, T.schedule[Day(T, c)].end>>
             = <<Day(S, b), S.schedule[Day(S, b)].start, S.schedule[Day(S, b)].end>>
      BY <2>5, <3>1 DEF HeldDays
    <3>4. /\ T.schedule[Day(T, b)].start = S.schedule[Day(S, b)].start
          /\ T.schedule[Day(T, b)].end = S.schedule[Day(S, b)].end
      BY <3>2, <3>3
    <3>5. /\ OverrideOf(S, b).start = OverrideOf(T, b).start
          /\ OverrideOf(S, b).end = OverrideOf(T, b).end
      BY <2>6, AlikeRules
    <3> QED
      BY <3>4, <3>5 DEF HoursOf, Day
  <2>8. ASSUME NEW c \in Beside(S, b, w)
        PROVE  /\ c \in Beside(T, b, m)
               /\ T.booked[c].slot = S.booked[c].slot
               /\ T.booked[c].party = S.booked[c].party
    <3>1. /\ c \in Future(S, w)
          /\ S.booked[c].date = S.booked[b].date
          /\ S.booked[c].service = S.booked[b].service
      BY DEF Beside, Arrivals
    <3>2. c \in Counted(S, w)
      BY <2>5, <3>1 DEF Counted, OverrideOf
    <3>3. c \in Counted(T, m) /\ Fields(T, c) = Fields(S, c)
      BY <2>4, <3>2
    <3> QED
      BY <1>3, <2>6, <3>1, <3>3 DEF Beside, Arrivals, Counted, Future
  <2>9. T.booked[b].slot = S.booked[b].slot
    BY <1>3, <2>6
  <2>10. /\ Beside(S, b, w) \subseteq Beside(T, b, m)
         /\ \A c \in Beside(S, b, w) : /\ T.booked[c].slot = S.booked[c].slot
                                       /\ T.booked[c].party = S.booked[c].party
    BY <2>8
  <2> QED
    BY <1>2, <2>6, <2>7, <2>9, <2>10, OverloadedBesideMore
<1>6. SUFFICES ASSUME NEW b \in AffectedBy(S, p, w)
               PROVE  b \in AffectedBy(T, p, m)
  OBVIOUS
<1>7. b \in Guests(S, p, w) \/ (Lowers(S, p) /\ b \in Overloaded(S, p, w))
  BY SettingsAffected
<1>8. b \in Guests(T, p, m) \/ (Lowers(T, p) /\ b \in Overloaded(T, p, m))
  BY <1>4, <1>5, <1>7, <1>0
<1> QED
  BY <1>8, SettingsAffected

-----------------------------------------------------------------------------
(* What a change finds when it commits, beside its snapshot.               *)

(* A reservation that read what a change writes and came to a service the  *)
(* change has looked through was there when it looked.                     *)
LEMMA SeenReservations ==
  ASSUME NEW D \in SoundTables, NEW S \in SoundTables, NEW L, NEW n,
         Explained(D, L, S, n), NEW R, NEW W, \A r \in R, w \in W : ~Met(L, n, r, w),
         NEW b \in Confirmed(D),
         BookedAt(D.booked[b].date, D.booked[b].service) \in R,
         NEW x \in PlaceRows(D, b), x \in W
  PROVE  D.booked[b] = S.booked[b] /\ b \in Confirmed(S)
<1>1. D.booked[b] = S.booked[b]
  BY DEF Explained
<1>2. DOMAIN D.booked = DOMAIN S.booked
  BY DEF SoundTables, Database
<1> QED
  BY <1>1, <1>2 DEF Confirmed

(* The services reservations are for are among all that are looked through.*)
LEMMA ServicesOfReservations ==
  ASSUME NEW D \in SoundTables, NEW b \in Confirmed(D)
  PROVE  /\ BookedAt(D.booked[b].date, D.booked[b].service) \in AllBooked
         /\ D.booked[b].service \in Service
         /\ Day(D, b) \in DayOfWeek \X Service
         /\ D.booked[b] \in BookingRow /\ b \in DOMAIN Start.booked
<1> DEFINE h == <<D.booked[b].date, D.booked[b].service>>
<1>1. h \in Hosted /\ h[1] = D.booked[b].date /\ h[2] = D.booked[b].service
  BY DEF SoundTables, Sound
<1>2. b \in DOMAIN Start.booked /\ D.booked[b] \in BookingRow
  BY DEF SoundTables, Database, Confirmed
<1>3. D.booked[b].service \in Service /\ D.booked[b].date \in Int
  BY <1>2 DEF BookingRow
<1>4. BookedAt(h[1], h[2]) \in AllBooked
  BY <1>1 DEF AllBooked
<1>5. Weekday(D.booked[b].date) \in DayOfWeek
  BY <1>3, EffectiveAssumption DEF Weekday, DayOfWeek
<1> QED
  BY <1>1, <1>2, <1>3, <1>4, <1>5 DEF Day

(* What is in force depends on these tables alone.                         *)
LEMMA SameInForce ==
  ASSUME NEW T, NEW A, A.special = T.special
  PROVE  /\ \A d, s : Override(A, d, s) = Override(T, d, s)
         /\ A.schedule = T.schedule /\ A.cutoff = T.cutoff /\ A.settings = T.settings =>
              \A d, s : Effective(A, d, s) = Effective(T, d, s)
<1>1. \A d, s : Override(A, d, s) = Override(T, d, s)
  BY DEF Override
<1> QED
  BY <1>1 DEF Effective, Usual

(* The tables a change finds.                                              *)
LEMMA FoundTables ==
  ASSUME NEW a, db \in Database, panel[a].snap.db \in Database
  PROVE  LET F == Found(a)
             S == panel[a].snap.db
             k == panel[a].shown.proposal.kind
         IN  /\ F.booked = db.booked
             /\ F.special = S.special
             /\ k = "SERVICE_ROOM_AVAILABILITY" =>
                  /\ F.schedule = S.schedule /\ F.cutoff = S.cutoff
                  /\ F.settings = S.settings /\ F.room = S.room /\ F.hosted = S.hosted
             /\ k # "SERVICE_ROOM_AVAILABILITY" =>
                  /\ F.schedule = db.schedule /\ F.settings = db.settings
                  /\ F.room = db.room /\ F.dining = db.dining
BY DEF Found, Database

(* A change of the rooms touches no reservation that was not in its        *)
(* snapshot.                                                               *)
LEMMA FoundOfRooms ==
  ASSUME Inv, NEW a \in Admin, Apply(a), panel[a].shown.proposal.kind \in OfRooms
  PROVE  LET p == panel[a].shown.proposal IN
         RoomAffected(Found(a), p, panel[a].when)
           \subseteq RoomAffected(panel[a].snap.db, p, panel[a].when)
<1> DEFINE q == panel[a]
           p == q.shown.proposal
           S == q.snap.db
           n == q.snap.since
           F == Found(a)
           R == Reads(S, p, q.when)
<1>1. /\ p \in Proposal /\ S \in SoundTables /\ db \in SoundTables
      /\ Explained(db, log, S, n)
      /\ \A w \in Writes(p) : ~Replaced(log, n, w)
      /\ \A r \in R, w \in Writes(p) : ~Met(log, n, r, w)
  BY AppliedChanges
<1>2. SameRows(db, S, p)
  <2> HIDE DEF p, S, n
  <2> QED
    BY <1>1, WrittenAsSeen
<1>3. /\ F.booked = db.booked /\ F.special = S.special
      /\ p.kind = "SERVICE_ROOM_AVAILABILITY" =>
           /\ F.schedule = S.schedule /\ F.cutoff = S.cutoff
           /\ F.settings = S.settings /\ F.room = S.room /\ F.hosted = S.hosted
      /\ p.kind # "SERVICE_ROOM_AVAILABILITY" =>
           F.room = db.room /\ F.dining = db.dining
  BY <1>1, FoundTables DEF SoundTables
<1>4. p.kind \in OfRooms
  OBVIOUS
<1> HIDE DEF p, S, F, n, q
<1>5. Destructive(F, p) <=> Destructive(S, p)
  <2>1. CASE p.kind = "SERVICE_ROOM_AVAILABILITY"
    <3>1. Effective(F, p.date, p.service) = Effective(S, p.date, p.service)
      BY <1>3, <2>1, SameInForce
    <3>2. Configured(F, p.date, p.service) = Configured(S, p.date, p.service)
      BY <1>3, <2>1 DEF Configured, Virtual, ByPolicy
    <3> QED
      BY <1>3, <2>1, <3>1, <3>2 DEF Destructive, Available, ServiceOpen
  <2>2. CASE p.kind \in {"ROOM_CATALOG", "DINING_TABLE"}
    BY <1>2, <1>3, <2>2 DEF Destructive, SameRows
  <2> QED
    BY <1>4, <2>1, <2>2 DEF OfRooms
<1>6. SUFFICES ASSUME NEW b \in RoomAffected(F, p, q.when)
               PROVE  b \in RoomAffected(S, p, q.when)
  BY DEF p, F, S, q
<1>7. Destructive(S, p) /\ b \in Relevant(F, p, q.when)
  BY <1>5 DEF RoomAffected
<1>8. b \in Confirmed(db) /\ F.booked[b] = db.booked[b]
  BY <1>3, <1>7 DEF Relevant, Confirmed
<1>9. /\ BookedAt(db.booked[b].date, db.booked[b].service) \in R
      /\ \E x \in PlaceRows(db, b) : x \in Writes(p)
  <2>1. CASE p.kind = "SERVICE_ROOM_AVAILABILITY"
    <3>1. db.booked[b].date = p.date /\ db.booked[b].service = p.service
      BY <1>7, <1>8, <2>1 DEF Relevant
    <3>2. BookedAt(p.date, p.service) \in R
      BY <1>7, <2>1 DEF Reads, Impacting, OfForms
    <3>3. Row("hosted", <<p.date, p.service>>) \in Writes(p)
      BY <2>1 DEF Writes
    <3> QED
      BY <3>1, <3>2, <3>3 DEF PlaceRows
  <2>2. CASE p.kind = "ROOM_CATALOG"
    <3>1. AllBooked \subseteq R
      BY <1>7, <2>2 DEF Reads, Impacting, OfForms
    <3>2. Row("room", p.room) \in Writes(p) /\ p.room \in Room
      BY <1>1, <2>2, ProposalsAreTyped DEF Writes
    <3> QED
      BY <1>1, <1>8, <3>1, <3>2, ServicesOfReservations DEF PlaceRows
  <2>3. CASE p.kind = "DINING_TABLE"
    <3>1. AllBooked \subseteq R
      BY <1>7, <2>3 DEF Reads, Impacting, OfForms
    <3>2. Row("dining", p.table) \in Writes(p)
      BY <2>3 DEF Writes
    <3>3. p.table \in db.booked[b].tables
      BY <1>7, <1>8, <2>3 DEF Relevant, AffectsReservation
    <3> QED
      BY <1>1, <1>8, <3>1, <3>2, <3>3, ServicesOfReservations DEF PlaceRows
  <2> QED
    BY <1>4, <2>1, <2>2, <2>3 DEF OfRooms
<1>10. db.booked[b] = S.booked[b] /\ b \in Confirmed(S)
  <2> HIDE DEF R
  <2> QED
    BY <1>1, <1>8, <1>9, SeenReservations
<1>11. b \in Relevant(S, p, q.when)
  BY <1>7, <1>8, <1>10 DEF Relevant, AffectsReservation
<1> QED
  BY <1>7, <1>11 DEF RoomAffected

(* What a change of hours or limits looks through.                         *)
LEMMA ImpactReads ==
  ASSUME NEW T, NEW p, p.kind \in Impacting, NEW when
  PROVE  /\ AllBooked \subseteq Reads(T, p, when)
         /\ All("schedule", T.schedule) \subseteq Reads(T, p, when)
<1>1. Reads(T, p, when) = {Row("settings", 0)} \cup All("schedule", T.schedule)
                            \cup All("cutoff", T.cutoff) \cup AllBooked
  BY DEF Reads, Impacting, OfForms
<1> QED
  BY <1>1

(* A new weekly schedule touches, on days without a special date, no       *)
(* reservation that was not in its snapshot.                               *)
LEMMA FoundOfWeek ==
  ASSUME Inv, NEW a \in Admin, Apply(a),
         panel[a].shown.proposal.kind = "WEEKLY_SCHEDULE",
         NEW b \in AffectedBy(Found(a), panel[a].shown.proposal, panel[a].when),
         OverrideOf(Found(a), b) = NoRule
  PROVE  LET S == panel[a].snap.db IN
         /\ b \in AffectedBy(S, panel[a].shown.proposal, panel[a].when)
         /\ OverrideOf(S, b) = NoRule
<1> DEFINE q == panel[a]
           p == q.shown.proposal
           S == q.snap.db
           n == q.snap.since
           F == Found(a)
           R == Reads(S, p, q.when)
           k == <<p.day, p.service>>
<1>1. /\ p \in Proposal /\ S \in SoundTables /\ db \in SoundTables
      /\ Explained(db, log, S, n)
      /\ \A w \in Writes(p) : ~Replaced(log, n, w)
      /\ \A r \in R, w \in Writes(p) : ~Met(log, n, r, w)
  BY AppliedChanges
<1>2. db.schedule[k] = S.schedule[k]
  <2>1. SameRows(db, S, p)
    <3> HIDE DEF p, S, n
    <3> QED
      BY <1>1, WrittenAsSeen
  <2> QED
    BY <2>1 DEF SameRows
<1>3. F.booked = db.booked /\ F.special = S.special /\ F.schedule = db.schedule
  BY <1>1, FoundTables DEF SoundTables
<1>4. AllBooked \subseteq R /\ Row("schedule", k) \in Writes(p)
  <2>1. p.kind \in Impacting
    BY DEF Impacting
  <2>2. AllBooked \subseteq R
    <3> HIDE DEF p, S
    <3> QED
      BY <2>1, ImpactReads
  <2>3. Row("schedule", k) \in Writes(p)
    BY DEF Writes
  <2> QED
    BY <2>2, <2>3
<1>5. /\ p.kind = "WEEKLY_SCHEDULE" /\ OverrideOf(F, b) = NoRule
      /\ b \in AffectedBy(F, p, q.when)
  OBVIOUS
<1> SUFFICES b \in AffectedBy(S, p, q.when) /\ OverrideOf(S, b) = NoRule
  OBVIOUS
<1> HIDE DEF p, S, F, n, q, R
<1>6. /\ b \in OfDay(F, p, q.when)
      /\ Loses(F.booked[b].slot, NoRule, F.schedule[k], p.row)
  BY <1>5, WeeklyAffected
<1>7. /\ b \in Confirmed(db) /\ F.booked[b] = db.booked[b]
      /\ Day(db, b) = k
  BY <1>3, <1>6 DEF OfDay, Future, Confirmed, Day
<1>8. Row("schedule", k) \in PlaceRows(db, b)
  BY <1>7 DEF PlaceRows, Day
<1>9. BookedAt(db.booked[b].date, db.booked[b].service) \in R
  BY <1>1, <1>4, <1>7, ServicesOfReservations
<1>10. db.booked[b] = S.booked[b] /\ b \in Confirmed(S)
  BY <1>1, <1>4, <1>7, <1>8, <1>9, SeenReservations
<1>11. OverrideOf(S, b) = NoRule
  BY <1>3, <1>5, <1>7, <1>10, SameInForce DEF OverrideOf
<1>12. b \in OfDay(S, p, q.when)
  BY <1>6, <1>7, <1>10 DEF OfDay, Future
<1> QED
  BY <1>2, <1>3, <1>5, <1>6, <1>7, <1>10, <1>11, <1>12, WeeklyAffected

(* New booking settings touch no reservation that was not in their         *)
(* snapshot.                                                               *)
LEMMA FoundOfSettings ==
  ASSUME Inv, NEW a \in Admin, Apply(a),
         panel[a].shown.proposal.kind = "BOOKING_SETTINGS"
  PROVE  LET p == panel[a].shown.proposal IN
         AffectedBy(Found(a), p, panel[a].when)
           \subseteq AffectedBy(panel[a].snap.db, p, panel[a].when)
<1> DEFINE q == panel[a]
           p == q.shown.proposal
           S == q.snap.db
           n == q.snap.since
           F == Found(a)
           R == Reads(S, p, q.when)
<1>1. /\ p \in Proposal /\ S \in SoundTables /\ db \in SoundTables
      /\ Explained(db, log, S, n)
      /\ \A w \in Writes(p) : ~Replaced(log, n, w)
      /\ \A r \in R, w \in Writes(p) : ~Met(log, n, r, w)
  BY AppliedChanges
<1>2. db.settings = S.settings
  <2>1. SameRows(db, S, p)
    <3> HIDE DEF p, S, n
    <3> QED
      BY <1>1, WrittenAsSeen
  <2> QED
    BY <2>1 DEF SameRows
<1>3. /\ F.booked = db.booked /\ F.special = S.special
      /\ F.schedule = db.schedule /\ F.settings = db.settings
  BY <1>1, FoundTables DEF SoundTables
<1>4. /\ AllBooked \subseteq R /\ All("schedule", S.schedule) \subseteq R
      /\ Row("settings", 0) \in Writes(p)
  <2>1. p.kind \in Impacting
    BY DEF Impacting
  <2>2. AllBooked \subseteq R /\ All("schedule", S.schedule) \subseteq R
    <3> HIDE DEF p, S
    <3> QED
      BY <2>1, ImpactReads
  <2>3. Row("settings", 0) \in Writes(p)
    BY DEF Writes
  <2> QED
    BY <2>2, <2>3
<1>5. p.kind = "BOOKING_SETTINGS"
  OBVIOUS
<1> SUFFICES AffectedBy(F, p, q.when) \subseteq AffectedBy(S, p, q.when)
  OBVIOUS
<1> HIDE DEF p, S, F, n, q, R
<1>6. ASSUME NEW b \in Confirmed(F)
      PROVE  F.booked[b] = S.booked[b] /\ b \in Confirmed(S)
  <2>1. b \in Confirmed(db) /\ F.booked[b] = db.booked[b]
    BY <1>3 DEF Confirmed
  <2>2. Row("settings", 0) \in PlaceRows(db, b)
    BY DEF PlaceRows
  <2>3. BookedAt(db.booked[b].date, db.booked[b].service) \in R
    BY <1>1, <1>4, <2>1, ServicesOfReservations
  <2>4. db.booked[b] = S.booked[b] /\ b \in Confirmed(S)
    BY <1>1, <1>4, <2>1, <2>2, <2>3, SeenReservations
  <2> QED
    BY <2>1, <2>4
<1>7. ASSUME NEW k \in DayOfWeek \X Service
      PROVE  F.schedule[k] = S.schedule[k]
  <2>1. k \in DOMAIN S.schedule
    BY <1>1 DEF SoundTables, Database
  <2>2. Row("schedule", k) \in R
    BY <1>4, <2>1 DEF All
  <2> QED
    BY <1>1, <1>3, <1>4, <2>2 DEF Explained
<1>8. /\ Lowers(F, p) <=> Lowers(S, p)
      /\ \A s : ChangesCutoff(F, p, s) <=> ChangesCutoff(S, p, s)
  BY <1>2, <1>3 DEF Lowers, ChangesCutoff
<1>9. ASSUME NEW b \in Future(F, q.when)
      PROVE  /\ b \in Future(S, q.when) /\ F.booked[b] = S.booked[b]
             /\ OverrideOf(F, b) = OverrideOf(S, b)
             /\ b \in Confirmed(F)
  <2>1. b \in Confirmed(F)
    BY DEF Future
  <2>2. F.booked[b] = S.booked[b] /\ b \in Confirmed(S)
    BY <1>6, <2>1
  <2>3. b \in Future(S, q.when)
    BY <2>2 DEF Future
  <2>4. OverrideOf(F, b) = OverrideOf(S, b)
    BY <1>3, <2>2, SameInForce DEF OverrideOf
  <2> QED
    BY <2>1, <2>2, <2>3, <2>4
<1>10. Guests(F, p, q.when) \subseteq Guests(S, p, q.when)
  BY <1>8, <1>9 DEF Guests
<1>11. ASSUME NEW b \in Overloaded(F, p, q.when)
       PROVE  b \in Overloaded(S, p, q.when)
  <2>1. b \in Future(F, q.when) /\ ~OwnCapacity(OverrideOf(F, b))
    BY DEF Overloaded, Counted
  <2>2. b \in Counted(S, q.when) /\ F.booked[b] = S.booked[b]
    BY <1>9, <2>1 DEF Counted
  <2>3. HoursOf(S, b) = HoursOf(F, b)
    <3>1. b \in Confirmed(db) /\ F.booked[b] = db.booked[b]
      BY <1>3, <2>1 DEF Future, Confirmed
    <3>2. Day(F, b) \in DayOfWeek \X Service
      BY <1>1, <3>1, ServicesOfReservations DEF Day
    <3>3. F.schedule[Day(F, b)] = S.schedule[Day(S, b)]
      BY <1>7, <2>2, <3>2 DEF Day
    <3> QED
      BY <1>9, <2>1, <3>3 DEF HoursOf, Day
  <2>4. IsFiniteSet(DOMAIN S.booked) /\ p.row.capacity \in Nat
    <3>1. DOMAIN S.booked = DOMAIN Start.booked
      BY <1>1 DEF SoundTables, Database
    <3> QED
      BY <1>1, <1>5, <3>1, ProposalsAreTyped, ConfigurationAssumption
  <2>5. ASSUME NEW c \in Beside(F, b, q.when)
        PROVE  c \in Beside(S, b, q.when) /\ S.booked[c] = F.booked[c]
    <3>1. c \in Future(F, q.when) /\ c \in Arrivals(F, F.booked[b].date, F.booked[b].service)
      BY DEF Beside
    <3>2. c \in Future(S, q.when) /\ S.booked[c] = F.booked[c] /\ c \in Confirmed(S)
      BY <1>9, <3>1 DEF Future
    <3>3. c \in Arrivals(S, S.booked[b].date, S.booked[b].service)
      BY <2>2, <3>1, <3>2 DEF Arrivals
    <3> QED
      BY <3>2, <3>3 DEF Beside
  <2>6. /\ S.booked[b].slot = F.booked[b].slot
        /\ Beside(F, b, q.when) \subseteq Beside(S, b, q.when)
        /\ \A c \in Beside(F, b, q.when) : /\ S.booked[c].slot = F.booked[c].slot
                                           /\ S.booked[c].party = F.booked[c].party
    BY <2>2, <2>5
  <2> QED
    BY <2>2, <2>3, <2>4, <2>6, OverloadedBesideMore
<1> QED
  BY <1>5, <1>8, <1>10, <1>11, SettingsAffected

(* A change that is applied touches no reservation, as committed at that   *)
(* moment, that the administrator was not shown, whatever was booked,      *)
(* withdrawn or seated between the preview and the commit, the wait for    *)
(* the lock included (applyOperationalConfigurationChange,                 *)
(* applyRoomConfigurationChange): what the snapshot misses would have made *)
(* a cycle of dependencies, and what it holds is in the fingerprint.       *)
THEOREM AppliedAsConfirmedHolds == Spec => AppliedAsConfirmed
<1> DEFINE Confirmedly ==
             \A a \in Admin : Apply(a) => \A b \in Unseen(a) : ~Compared(a, b)
<1>1. ASSUME Inv
      PROVE  Confirmedly
  <2>1. SUFFICES ASSUME NEW a \in Admin, Apply(a),
                        NEW b \in Unseen(a), Compared(a, b)
                 PROVE  FALSE
    OBVIOUS
  <2> DEFINE q == panel[a]
             p == q.shown.proposal
             S == q.snap.db
  <2>2. p \in Proposal /\ S \in SoundTables
    BY <1>1, <2>1, AppliedChanges
  <2>3. PICK T \in SoundTables, m \in Moments :
          /\ q.shown = Preview(T, p, m)
          /\ p.kind # "NEW_TABLE" => Fingerprint(S, p, q.when) = Fingerprint(T, p, m)
    BY <1>1, <2>1, AppliedChanges
  <2>4. S \in Database /\ T \in Database
    BY <2>2 DEF SoundTables
  <2>5. b \in AffectedBy(Found(a), p, q.when) /\ b \notin AffectedBy(T, p, m)
    BY <2>1, <2>3 DEF Unseen, Preview
  <2>6. CASE p.kind \in OfRooms
    <3>1. b \in RoomAffected(S, p, q.when)
      BY <1>1, <2>1, <2>5, <2>6, FoundOfRooms DEF AffectedBy
    <3>2. Fingerprint(S, p, q.when) = Fingerprint(T, p, m)
      BY <2>3, <2>6 DEF OfRooms
    <3> HIDE DEF p, S
    <3> QED
      BY <2>5, <2>6, <3>1, <3>2, RoomFingerprints DEF AffectedBy
  <2>7. CASE p.kind = "WEEKLY_SCHEDULE"
    <3>1. OverrideOf(Found(a), b) = NoRule
      BY <2>1, <2>7 DEF Compared
    <3>2. b \in AffectedBy(S, p, q.when) /\ OverrideOf(S, b) = NoRule
      BY <1>1, <2>1, <2>5, <2>7, <3>1, FoundOfWeek
    <3>3. Fingerprint(S, p, q.when) = Fingerprint(T, p, m)
      BY <2>3, <2>7
    <3> HIDE DEF p, S
    <3> QED
      BY <2>5, <2>7, <3>2, <3>3, WeeklyFingerprints
  <2>8. CASE p.kind = "BOOKING_SETTINGS"
    <3>1. b \in AffectedBy(S, p, q.when)
      BY <1>1, <2>1, <2>5, <2>8, FoundOfSettings
    <3>2. Fingerprint(S, p, q.when) = Fingerprint(T, p, m)
      BY <2>3, <2>8
    <3> HIDE DEF p, S
    <3> QED
      BY <2>2, <2>4, <2>5, <2>8, <3>1, <3>2, SettingsFingerprints
  <2>9. CASE p.kind \notin OfRooms \cup {"WEEKLY_SCHEDULE", "BOOKING_SETTINGS"}
    BY <2>5, <2>9 DEF AffectedBy, Affected, Impact
  <2> QED
    BY <2>6, <2>7, <2>8, <2>9
<1>2. Inv => [Confirmedly]_vars
  BY <1>1
<1> QED
  BY <1>2, AlwaysInv, PTL DEF AppliedAsConfirmed

-----------------------------------------------------------------------------
(* What a change would take away.                                          *)

(* A reservation that loses its room or its table to a change of the rooms.*)
LEMMA NoPlaceIsLostUnseen ==
  ASSUME NEW T \in SoundTables, NEW p \in Proposal, p.kind \in OfRooms, NEW when,
         NEW b \in Confirmed(T), T.booked[b].date >= when.date,
         HasItsPlace(T, b), ~HasItsPlace(Applied(T, p), b)
  PROVE  b \in AffectedBy(T, p, when)
<1> DEFINE A == Applied(T, p)
           r == T.booked[b]
<1>1. /\ T \in Database /\ r \in BookingRow
      /\ <<r.date, r.service>> \in Hosted
  BY ServicesOfReservations DEF SoundTables, Sound
<1>2. A.booked = T.booked /\ A.special = T.special /\ Forward(T, A)
  BY <1>1, AppliedRewrites
<1>3. ByPolicy(A) = ByPolicy(T)
  BY <1>2 DEF Forward, ByPolicy
<1>4. SUFFICES Destructive(T, p) /\ b \in Relevant(T, p, when)
  BY DEF AffectedBy, RoomAffected
<1>5. \A q \in {r.prefers, r.seated} \ {NoRoom} :
        q \in Room /\ Available(T, q, r.date, r.service)
  BY <1>1 DEF HasItsPlace, BookingRow
<1>6. \A t \in r.tables : t \in DOMAIN Start.dining /\ T.dining[t].active
  BY <1>1 DEF HasItsPlace, BookingRow
<1>7. \/ \E q \in {r.prefers, r.seated} \ {NoRoom} : ~Available(A, q, r.date, r.service)
      \/ \E t \in r.tables : ~A.dining[t].active
  BY <1>2 DEF HasItsPlace
<1>8. /\ SameBut(T, A, "hosted") \/ SameBut(T, A, "room") \/ SameBut(T, A, "dining")
      /\ p.kind = "SERVICE_ROOM_AVAILABILITY" => SameBut(T, A, "hosted")
      /\ p.kind = "ROOM_CATALOG" => SameBut(T, A, "room")
      /\ p.kind = "DINING_TABLE" => SameBut(T, A, "dining")
  BY <1>1, AppliedTables DEF OfRooms
<1>9. \A d, s : ServiceOpen(A, d, s) <=> ServiceOpen(T, d, s)
  BY <1>8, SameInForce DEF SameBut, ServiceOpen
<1>10. CASE p.kind = "SERVICE_ROOM_AVAILABILITY"
  <2> DEFINE h == <<p.date, p.service>>
             i == <<r.date, r.service>>
  <2>1. PICK n \in Nat :
          /\ n > T.hosted[h].version
          /\ A.hosted = [T.hosted EXCEPT ![h] =
                           [version |-> n,
                            available |-> [Configured(T, p.date, p.service)
                                             EXCEPT ![p.room] = p.row]]]
    BY <1>1, <1>10, AppliedTables
  <2>2. T.hosted \in [Hosted -> InstanceRow] /\ h \in Hosted /\ i \in Hosted
    BY <1>1, <1>10, ProposalsAreTyped DEF Database
  <2>3. T.hosted[h].version \in Nat
    BY <2>2 DEF InstanceRow
  <2>4. Configured(A, p.date, p.service)
          = [Configured(T, p.date, p.service) EXCEPT ![p.room] = p.row]
    BY <2>1, <2>2, <2>3 DEF Configured, Virtual
  <2>5. i # h => Configured(A, r.date, r.service) = Configured(T, r.date, r.service)
    BY <1>3, <2>1, <2>2 DEF Configured, Virtual
  <2>6. A.room = T.room /\ A.dining = T.dining
    BY <1>8, <1>10 DEF SameBut
  <2>7. PICK q \in {r.prefers, r.seated} \ {NoRoom} : ~Available(A, q, r.date, r.service)
    BY <1>6, <1>7, <2>6
  <2>8. Available(T, q, r.date, r.service) /\ q \in Room
    BY <1>5
  <2> HIDE DEF A, r
  <2>9. i = h /\ ~Configured(A, r.date, r.service)[q] /\ Configured(T, r.date, r.service)[q]
    BY <1>9, <2>5, <2>6, <2>7, <2>8 DEF Available
  <2>10. r.date = p.date /\ r.service = p.service
    BY <2>9
  <2> DEFINE old == Configured(T, p.date, p.service)
             new == Configured(A, p.date, p.service)
  <2>11. q \in DOMAIN old
    <3>1. T.hosted[h] \in InstanceRow
      BY <2>2
    <3> QED
      BY <2>8, <3>1 DEF Configured, ByPolicy, InstanceRow
  <2>12. q = p.room /\ ~p.row
    <3>1. old[q] /\ ~new[q] /\ new = [old EXCEPT ![p.room] = p.row]
      BY <2>4, <2>9, <2>10
    <3> HIDE DEF old, new
    <3> QED
      BY <2>11, <3>1
  <2>13. Destructive(T, p)
    BY <1>10, <2>8, <2>10, <2>12 DEF Destructive
  <2> QED
    BY <1>10, <2>7, <2>10, <2>12, <2>13 DEF Relevant, AffectsReservation, r
<1>11. CASE p.kind = "ROOM_CATALOG"
  <2>1. /\ A.room = [T.room EXCEPT ![p.room] =
                        [@ EXCEPT !.active = p.row.active, !.order = p.row.order]]
        /\ A.dining = T.dining /\ A.hosted = T.hosted
    BY <1>1, <1>8, <1>11, AppliedTables DEF SameBut
  <2>2. Configured(A, r.date, r.service) = Configured(T, r.date, r.service)
    BY <1>3, <2>1 DEF Configured, Virtual
  <2>3. PICK q \in {r.prefers, r.seated} \ {NoRoom} : ~Available(A, q, r.date, r.service)
    BY <1>6, <1>7, <2>1
  <2>4. Available(T, q, r.date, r.service) /\ q \in Room
    BY <1>5
  <2>5. T.room[q].active /\ ~A.room[q].active
    BY <1>9, <2>2, <2>3, <2>4 DEF Available
  <2>6. T.room \in [Room -> RoomRow] /\ T.room[q] \in RoomRow
    BY <1>1, <2>4 DEF Database
  <2> HIDE DEF A, r
  <2>7. q = p.room
    BY <2>1, <2>5, <2>6
  <2>8. ~p.row.active
    <3> DEFINE old == T.room[p.room]
               new == [[old EXCEPT !.active = p.row.active] EXCEPT !.order = p.row.order]
    <3>1. A.room[q] = new
      BY <2>1, <2>4, <2>6, <2>7
    <3>2. new.active = p.row.active
      BY <2>6, <2>7 DEF RoomRow
    <3> HIDE DEF new
    <3> QED
      BY <2>5, <3>1, <3>2
  <2> QED
    BY <1>11, <2>3, <2>5, <2>7, <2>8
       DEF Destructive, Relevant, AffectsReservation, r
<1>12. CASE p.kind = "DINING_TABLE"
  <2>1. /\ A.dining = [T.dining EXCEPT ![p.table] = p.row]
        /\ A.room = T.room /\ A.hosted = T.hosted
    BY <1>1, <1>8, <1>12, AppliedTables DEF SameBut
  <2>2. Configured(A, r.date, r.service) = Configured(T, r.date, r.service)
    BY <1>3, <2>1 DEF Configured, Virtual
  <2>3. \A q : Available(A, q, r.date, r.service) <=> Available(T, q, r.date, r.service)
    BY <1>9, <2>1, <2>2 DEF Available
  <2>4. PICK t \in r.tables : ~A.dining[t].active
    BY <1>5, <1>7, <2>3
  <2>5. T.dining \in [DOMAIN Start.dining -> TableRow] /\ t \in DOMAIN Start.dining
    BY <1>1, <1>6, <2>4 DEF Database
  <2>6. T.dining[t].active
    BY <1>6, <2>4
  <2> HIDE DEF A, r
  <2>7. t = p.table /\ ~p.row.active
    BY <2>1, <2>4, <2>5, <2>6
  <2> QED
    BY <1>12, <2>4, <2>6, <2>7 DEF Destructive, Relevant, AffectsReservation, r
<1> QED
  BY <1>10, <1>11, <1>12 DEF OfRooms

(* A reservation that a new weekly schedule leaves outside the hours.      *)
LEMMA NoHourIsLostUnseen ==
  ASSUME NEW T \in SoundTables, NEW p \in Proposal, p.kind = "WEEKLY_SCHEDULE",
         NEW b \in Served(T), b \notin Served(Applied(T, p))
  PROVE  b \in AffectedBy(T, p, at)
<1> DEFINE A == Applied(T, p)
           r == T.booked[b]
           k == <<p.day, p.service>>
           rule == OverrideOf(T, b)
           usual == T.schedule[Day(T, b)]
           new == A.schedule[Day(T, b)]
<1>1. T \in Database /\ b \in Future(T, at)
  BY DEF SoundTables, Served
<1>2. SameBut(T, A, "schedule") /\ A.schedule = [T.schedule EXCEPT ![k] = p.row]
  BY <1>1, AppliedTables
<1>3. A.booked = T.booked /\ A.special = T.special /\ b \in Future(A, at)
  BY <1>1, <1>2 DEF SameBut, Future, Confirmed
<1>4. Override(A, r.date, r.service) = rule
  BY <1>3, SameInForce DEF OverrideOf
<1> HIDE DEF A
<1>5. /\ OpenUnder(rule, usual) /\ InsideHours(r.slot, rule, usual)
  BY DEF Served, Effective, Usual, OpenUnder, InsideHours, OverrideOf, Day
<1>6. ~OpenUnder(rule, new) \/ ~InsideHours(r.slot, rule, new)
  <2>1. LET e == Effective(A, r.date, r.service) IN
        ~(e.open /\ e.start <= r.slot /\ r.slot <= e.end)
    BY <1>3 DEF Served, A
  <2> QED
    BY <1>4, <2>1 DEF Effective, Usual, OpenUnder, InsideHours, Day
<1>7. k \in DOMAIN T.schedule
  BY <1>1, ProposalsAreTyped DEF Database
<1>8. Day(T, b) = k /\ new = p.row
  <2>1. new # usual
    BY <1>5, <1>6
  <2> HIDE DEF k
  <2> QED
    BY <1>2, <1>7, <2>1
<1>9. b \in OfDay(T, p, at)
  BY <1>1, <1>8 DEF OfDay, Day
<1>10. Loses(r.slot, rule, T.schedule[k], p.row)
  BY <1>5, <1>6, <1>8 DEF Loses
<1> HIDE DEF r, rule, k
<1>11. b \in OfDay(T, p, at)
       /\ Loses(T.booked[b].slot, OverrideOf(T, b), T.schedule[<<p.day, p.service>>], p.row)
  BY <1>9, <1>10 DEF r, rule, k
<1> QED
  BY <1>11, WeeklyAffected

(* A cutoff rule changes no hours.                                         *)
LEMMA CutoffsServeTheSame ==
  ASSUME NEW T \in SoundTables, NEW p \in Proposal, p.kind = "BOOKING_CUTOFF_RULE"
  PROVE  Served(Applied(T, p)) = Served(T)
<1> DEFINE A == Applied(T, p)
<1>1. SameBut(T, A, "cutoff")
  BY AppliedTables DEF SoundTables
<1> HIDE DEF A
<1>2. /\ A.booked = T.booked /\ A.special = T.special /\ A.schedule = T.schedule
      /\ Future(A, at) = Future(T, at)
  BY <1>1 DEF SameBut, Future, Confirmed
<1>3. \A d, s : /\ Effective(A, d, s).open = Effective(T, d, s).open
                /\ Effective(A, d, s).start = Effective(T, d, s).start
                /\ Effective(A, d, s).end = Effective(T, d, s).end
  BY <1>2, SameInForce DEF Effective, Usual
<1>4. Served(A) = Served(T)
  BY <1>2, <1>3 DEF Served
<1> QED
  BY <1>4 DEF A

(* A reservation in a window that a lower limit is too low for.            *)
LEMMA NoCrowdIsUnseen ==
  ASSUME NEW T \in SoundTables, NEW p \in Proposal, p.kind = "BOOKING_SETTINGS",
         NEW b \in Served(Applied(T, p)), ~Crowded(T, b), Crowded(Applied(T, p), b)
  PROVE  b \in AffectedBy(T, p, at)
<1> DEFINE A == Applied(T, p)
           r == T.booked[b]
           rule == OverrideOf(T, b)
           old == Effective(T, r.date, r.service)
           new == Effective(A, r.date, r.service)
<1>1. T \in Database /\ T.settings.capacity \in Nat \ {0} /\ p.row.capacity \in Nat \ {0}
  BY ProposalsAreTyped DEF SoundTables, Database, SettingsRow
<1>2. SameBut(T, A, "settings") /\ A.settings.capacity = p.row.capacity
  <2>1. /\ SameBut(T, A, "settings")
        /\ A.settings = [T.settings EXCEPT !.capacity = p.row.capacity,
                                           !.cutoff = p.row.cutoff]
    BY <1>1, AppliedTables
  <2>2. T.settings \in SettingsRow
    BY <1>1 DEF Database
  <2> HIDE DEF A
  <2> QED
    BY <2>1, <2>2 DEF SettingsRow
<1>3. Crowded(A, b) /\ b \in Served(A)
  OBVIOUS
<1> HIDE DEF A
<1>4. /\ A.booked = T.booked /\ A.special = T.special /\ A.schedule = T.schedule
      /\ A.cutoff = T.cutoff
      /\ Future(A, at) = Future(T, at) /\ b \in Future(T, at)
      /\ Arrivals(A, r.date, r.service) = Arrivals(T, r.date, r.service)
  BY <1>2, <1>3 DEF SameBut, Future, Confirmed, Arrivals, Served
<1>5. Override(A, r.date, r.service) = rule
  BY <1>4, SameInForce DEF OverrideOf
<1>6. /\ old.open = new.open /\ old.start = new.start /\ old.end = new.end
      /\ old.capacity = Either(rule.capacity, T.settings.capacity)
      /\ new.capacity = Either(rule.capacity, p.row.capacity)
      /\ old.start = Either(rule.start, T.schedule[Day(T, b)].start)
      /\ old.end = Either(rule.end, T.schedule[Day(T, b)].end)
      /\ rule # NoRule => old.open = ~rule.closed
  BY <1>2, <1>4, <1>5 DEF Effective, Usual, OverrideOf, Day
<1>7. PICK start \in AffectedWindows(ServiceSlots(new), r.slot, Window) :
             LoadBeside(T, b, at, start) > new.capacity
  BY <1>3, <1>4 DEF Crowded, LoadBeside, Beside
<1>8. \A s \in AffectedWindows(ServiceSlots(old), r.slot, Window) :
        ~(LoadBeside(T, b, at, s) > old.capacity)
  BY DEF Crowded, LoadBeside, Beside
<1> HIDE DEF old, new, rule
<1>9. new.start < new.end /\ new.capacity > 0 /\ new.open
      /\ ServiceSlots(new) = Slots(new.start, new.end)
  BY <1>7 DEF AffectedWindows, ServiceSlots, Valid
<1>10. rule.capacity = None
  <2>1. SUFFICES ASSUME rule.capacity # None
                 PROVE  FALSE
    OBVIOUS
  <2>2. old.capacity = new.capacity
    BY <1>6, <2>1 DEF Either
  <2>3. ServiceSlots(old) = ServiceSlots(new)
    BY <1>6, <2>2 DEF ServiceSlots, Valid
  <2> QED
    BY <1>7, <1>8, <2>2, <2>3
<1>11. old.capacity = T.settings.capacity /\ new.capacity = p.row.capacity
  BY <1>6, <1>10 DEF Either
<1>12. ServiceSlots(old) = ServiceSlots(new)
  <2>1. old.capacity > 0
    BY <1>1, <1>11
  <2> QED
    BY <1>6, <1>9, <2>1 DEF ServiceSlots, Valid
<1>13. ServiceSlots(new) = HoursOf(T, b)
  BY <1>6, <1>9 DEF HoursOf, rule, Day
<1>14. LoadBeside(T, b, at, start) \in Nat
  <2>1. Beside(T, b, at) \subseteq DOMAIN T.booked /\ DOMAIN T.booked = DOMAIN Start.booked
    BY <1>1 DEF Beside, Future, Confirmed, Database
  <2>2. IsFiniteSet(Beside(T, b, at))
    BY <2>1, FS_Subset, ConfigurationAssumption
  <2> QED
    BY <2>2, LoadIsNatural, EffectiveAssumption DEF LoadBeside
<1>15. ~(LoadBeside(T, b, at, start) > T.settings.capacity)
       /\ LoadBeside(T, b, at, start) > p.row.capacity
  BY <1>7, <1>8, <1>11, <1>12
<1>16. Lowers(T, p)
  BY <1>1, <1>14, <1>15 DEF Lowers
<1>17. b \in Counted(T, at)
  <2>1. ~OwnCapacity(rule)
    BY <1>6, <1>9, <1>10 DEF OwnCapacity
  <2> QED
    BY <1>4, <2>1 DEF Counted, rule
<1>18. b \in Overloaded(T, p, at)
  BY <1>7, <1>13, <1>15, <1>17 DEF Overloaded
<1> QED
  BY <1>16, <1>18, SettingsAffected

(* Whatever is proposed, in whatever state: a reservation the engine would *)
(* no longer serve, would find beyond the capacity where it is lowered, or *)
(* that would lose its place to a change of the rooms, is among those the  *)
(* administrator is shown (configuration-impact.ts and                     *)
(* room-configuration-service.ts, against the engine).                     *)
THEOREM NothingLostIsUnseenHolds == Spec => []NothingLostIsUnseen
<1>1. ASSUME Inv
      PROVE  NothingLostIsUnseen
  <2> DEFINE Lost(p) ==
        LET T == Applied(db, p) IN
        CASE p.kind \in OfRooms ->
               {b \in Confirmed(db) : /\ db.booked[b].date >= at.date
                                      /\ HasItsPlace(db, b)
                                      /\ ~HasItsPlace(T, b)}
          [] p.kind = "BOOKING_SETTINGS" ->
               {b \in Served(T) : ~Crowded(db, b) /\ Crowded(T, b)}
          [] OTHER -> Served(db) \ Served(T)
  <2>1. SUFFICES ASSUME NEW p \in Proposals, p.kind \in Previewed,
                        NEW b \in Lost(p)
                 PROVE  b \in AffectedBy(db, p, at)
    BY DEF NothingLostIsUnseen
  <2>2. db \in SoundTables /\ p \in Proposal
    BY <1>1, ConfigurationAssumption DEF Inv
  <2>3. CASE p.kind \in OfRooms
    <3>1. /\ b \in Confirmed(db) /\ db.booked[b].date >= at.date
          /\ HasItsPlace(db, b) /\ ~HasItsPlace(Applied(db, p), b)
      BY <2>1, <2>3 DEF OfRooms
    <3> QED
      BY <2>2, <2>3, <3>1, NoPlaceIsLostUnseen
  <2>4. CASE p.kind = "BOOKING_SETTINGS"
    <3>1. /\ b \in Served(Applied(db, p))
          /\ ~Crowded(db, b) /\ Crowded(Applied(db, p), b)
      BY <2>1, <2>4 DEF OfRooms
    <3> QED
      BY <2>2, <2>4, <3>1, NoCrowdIsUnseen
  <2>5. CASE p.kind = "WEEKLY_SCHEDULE"
    <3>1. b \in Served(db) /\ b \notin Served(Applied(db, p))
      BY <2>1, <2>5 DEF OfRooms
    <3> QED
      BY <2>2, <2>5, <3>1, NoHourIsLostUnseen
  <2>6. CASE p.kind = "BOOKING_CUTOFF_RULE"
    <3>1. b \in Served(db) /\ b \notin Served(Applied(db, p))
      BY <2>1, <2>6 DEF OfRooms
    <3> QED
      BY <2>2, <2>6, <3>1, CutoffsServeTheSame
  <2> QED
    BY <2>1, <2>3, <2>4, <2>5, <2>6 DEF Previewed, Impacting
<1> QED
  BY <1>1, AlwaysInv, PTL
==============================================================================
