------------------------- MODULE ConfigurationImpact -------------------------
(***************************************************************************)
(* What an administrator is shown before a change of the configuration is  *)
(* applied: the reservations it would leave outside the hours or the       *)
(* capacity, and the fingerprint of everything that was looked at, which   *)
(* has to be the same again when the change is applied.                    *)
(***************************************************************************)
EXTENDS EffectiveConfiguration

(* Reservations from today on, less those that have arrived by now.        *)
Future(T, at) ==
  {b \in Confirmed(T) : ~Past(T.booked[b].date, T.booked[b].slot, at)}

Entry(class, b, slot, load) ==
  [class |-> class, booking |-> b, slot |-> slot, load |-> load]

OverrideOf(T, b) == Override(T, T.booked[b].date, T.booked[b].service)

-----------------------------------------------------------------------------
(* A new weekly schedule.                                                  *)

OfDay(T, p, at) ==
  {b \in Future(T, at) : /\ T.booked[b].service = p.service
                         /\ Weekday(T.booked[b].date) = p.day}

OpenUnder(rule, weekly) == IF rule = NoRule THEN weekly.enabled ELSE ~rule.closed

(* Mutant: the last slot counts as outside.                                *)
InsideOpenHours(slot, rule, weekly) ==
  /\ Either(rule.start, weekly.start) <= slot
  /\ slot < Either(rule.end, weekly.end)

InsideHours(slot, rule, weekly) ==
  /\ Either(rule.start, weekly.start) <= slot
  /\ slot <= Either(rule.end, weekly.end)

WeeklyImpact(T, p, at) ==
  LET current == T.schedule[<<p.day, p.service>>]
      disabled == {b \in OfDay(T, p, at) :
                     /\ OpenUnder(OverrideOf(T, b), current)
                     /\ ~OpenUnder(OverrideOf(T, b), p.row)}
      outside == {b \in OfDay(T, p, at) \ disabled :
                    LET rule == OverrideOf(T, b)
                        slot == T.booked[b].slot
                    IN  /\ OpenUnder(rule, p.row)
                        /\ InsideHours(slot, rule, current)
                        /\ ~InsideHours(slot, rule, p.row)}
  IN  {Entry("SERVICE_DISABLED", b, None, None) : b \in disabled}
        \cup {Entry("OUTSIDE_NEW_HOURS", b, T.booked[b].slot, None) :
                b \in outside}

-----------------------------------------------------------------------------
(* New booking settings.                                                   *)

Lowers(T, p) == p.row.capacity < T.settings.capacity

(* The capacity of a special date is its own affair.                       *)
OwnCapacity(rule) == rule # NoRule /\ (rule.closed \/ rule.capacity # None)

(* Every window over the new limit, of every service of a date; that the   *)
(* week has the service disabled is not asked.                             *)
CapacityImpact(T, p, at) ==
  LET future == Future(T, at)
      Hours(b) ==
        LET rule   == OverrideOf(T, b)
            weekly == T.schedule[<<Weekday(T.booked[b].date), T.booked[b].service>>]
        IN  Slots(Either(rule.start, weekly.start), Either(rule.end, weekly.end))
      Beside(b) == future \cap Arrivals(T, T.booked[b].date, T.booked[b].service)
      Load(b, start) == WindowLoad(T.booked, Beside(b), MaxParty, start, Window)
      Over(b) == {start \in AffectedWindows(Hours(b), T.booked[b].slot, Window) :
                    Load(b, start) > p.row.capacity}
  IN  IF ~Lowers(T, p) THEN {}
      ELSE UNION {{Entry("CAPACITY_EXCEEDED", b, start, Load(b, start)) :
                     start \in Over(b)} :
                   b \in {c \in future : ~OwnCapacity(OverrideOf(T, c))}}

ChangesCutoff(T, p, service) == p.row.cutoff[service] # T.settings.cutoff[service]

CutoffImpact(T, p, at) ==
  {Entry("MODIFICATION_CUTOFF_CHANGED", b, None, None) :
     b \in {c \in Future(T, at) : /\ T.booked[c].public
                                  /\ ChangesCutoff(T, p, T.booked[c].service)}}

-----------------------------------------------------------------------------
Impact(T, p, at) ==
  CASE p.kind = "WEEKLY_SCHEDULE"  -> WeeklyImpact(T, p, at)
    [] p.kind = "BOOKING_SETTINGS" -> CapacityImpact(T, p, at) \cup CutoffImpact(T, p, at)
    [] OTHER                       -> {}

Affected(T, p, at) == {i.booking : i \in Impact(T, p, at)}

(* The fields of a reservation, under its name, that a fingerprint holds.  *)
Fields(T, b) ==
  LET r == T.booked[b] IN <<b, r.date, r.service, r.slot, r.party, r.public>>

(* Only the identity of a special date that matters to a schedule is held, *)
(* and none of the reservations it governs.                                *)
WeeklyNeeds(T, p, at) ==
  [booked   |-> {Fields(T, b) : b \in {c \in OfDay(T, p, at) :
                                         OverrideOf(T, c) = NoRule}},
   schedule |-> {},
   special  |-> {<<OverrideOf(T, b).date, OverrideOf(T, b).scope>> :
                   b \in {c \in OfDay(T, p, at) : OverrideOf(T, c) # NoRule}}]

Rule(rule) ==
  <<rule.date, rule.scope, rule.closed, rule.start, rule.end, rule.capacity>>

SettingsNeeds(T, p, at) ==
  LET guests == {b \in Future(T, at) : /\ T.booked[b].public
                                       /\ ChangesCutoff(T, p, T.booked[b].service)}
      counted == IF Lowers(T, p)
                   THEN {b \in Future(T, at) : ~OwnCapacity(OverrideOf(T, b))}
                 ELSE {}
      Day(b) == <<Weekday(T.booked[b].date), T.booked[b].service>>
  IN  [booked   |-> {Fields(T, b) : b \in guests \cup counted},
       schedule |-> {<<Day(b), T.schedule[Day(b)].start, T.schedule[Day(b)].end>> :
                       b \in counted},
       special  |-> IF Lowers(T, p)
                      THEN {Rule(OverrideOf(T, b)) :
                              b \in {c \in Future(T, at) : OverrideOf(T, c) # NoRule}}
                    ELSE {}]

NoNeeds == [booked |-> {}, schedule |-> {}, special |-> {}]

Needs(T, p, at) ==
  CASE p.kind = "WEEKLY_SCHEDULE"  -> WeeklyNeeds(T, p, at)
    [] p.kind = "BOOKING_SETTINGS" -> SettingsNeeds(T, p, at)
    [] OTHER                       -> NoNeeds
==============================================================================
