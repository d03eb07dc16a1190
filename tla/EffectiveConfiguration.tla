------------------------ MODULE EffectiveConfiguration ------------------------
(***************************************************************************)
(* What is in force for a service on a date, and what the availability     *)
(* engine answers from it.  T is a state of the tables: settings, the      *)
(* weekly schedule and the cutoff rules by day and service, the special    *)
(* dates by identifier, the reservations.  Dates are counted from the      *)
(* first day of a week, times are minutes of the day, None is null.        *)
(***************************************************************************)
EXTENDS RollingCapacity

CONSTANTS
  Interval,    \* minutes between two slots, the same everywhere
  Window,      \* minutes of a rolling window, the same everywhere
  DaysInWeek,
  MaxParty     \* bound: the largest party

ASSUME EffectiveAssumption ==
  Interval \in Nat \ {0} /\ DaysInWeek \in Nat \ {0} /\ MaxParty \in Nat

Service == {"LUNCH", "DINNER"}

None == -1

(* A date written year-month-day falls on a weekday; here dates are days.  *)
Weekday(date) == date % DaysInWeek

NoRule == [date |-> None, scope |-> "ALL", closed |-> FALSE, start |-> None,
           end |-> None, capacity |-> None, notes |-> None, archived |-> TRUE]

(* The special date of the service itself comes before that of the day;    *)
(* archived ones are not seen.                                             *)
Override(T, date, service) ==
  LET active == {i \in DOMAIN T.special : /\ T.special[i].date = date
                                          /\ ~T.special[i].archived}
      Of(scope) == {i \in active : T.special[i].scope = scope}
  IN  IF Of(service) \cup Of("ALL") = {} THEN NoRule
      ELSE T.special[CHOOSE i \in IF Of(service) # {} THEN Of(service)
                                  ELSE Of("ALL") : TRUE]

Either(special, usual) == IF special # None THEN special ELSE usual

(* What is kept for the weekday of a date, and for every date.             *)
Usual(T, date, service) ==
  [weekly   |-> T.schedule[<<Weekday(date), service>>],
   cutoff   |-> T.cutoff[<<Weekday(date), service>>],
   capacity |-> T.settings.capacity]

(* Hours and capacity a special date leaves out are the usual ones; a      *)
(* special date is open unless it says closed, whatever the weekly         *)
(* schedule says.                                                          *)
Effective(T, date, service) ==
  LET rule   == Override(T, date, service)
      usual  == Usual(T, date, service)
      weekly == usual.weekly
      cutoff == usual.cutoff
  IN  [source   |-> CASE rule = NoRule        -> "WEEKLY"
                      [] rule.scope = service -> "SPECIAL_DATE_SERVICE"
                      [] OTHER                -> "SPECIAL_DATE_ALL",
       open     |-> IF rule = NoRule THEN weekly.enabled ELSE ~rule.closed,
       start    |-> Either(rule.start, weekly.start),
       end      |-> Either(rule.end, weekly.end),
       capacity |-> Either(rule.capacity, usual.capacity),
       cutoff   |-> IF cutoff.enabled THEN cutoff.time ELSE None]

Valid(e) == e.start < e.end /\ e.capacity > 0

(* Slots reach from the start to the end, both included, and are not       *)
(* generated at all when the interval does not divide the hours.           *)
Slots(start, end) ==
  IF start < end /\ (end - start) % Interval = 0
    THEN {t \in start..end : (t - start) % Interval = 0}
  ELSE {}

ServiceSlots(e) == IF Valid(e) /\ e.open THEN Slots(e.start, e.end) ELSE {}

Confirmed(T) == {b \in DOMAIN T.booked : T.booked[b].confirmed}

Arrivals(T, date, service) ==
  {b \in Confirmed(T) : /\ T.booked[b].date = date
                        /\ T.booked[b].service = service}

Past(date, slot, at) ==
  date < at.date \/ (date = at.date /\ slot <= at.time)

CutoffReached(e, date, at) ==
  date = at.date /\ e.cutoff # None /\ e.cutoff <= at.time

HasRoom(T, e, q) ==
  SlotHasRoom(T.booked, Arrivals(T, q.date, q.service), MaxParty,
              ServiceSlots(e), q.slot, q.party, e.capacity, Window)

(* The engine's answer for one slot of a service.  The reasons are found   *)
(* in this order.                                                          *)
SlotAnswer(T, q, at) ==
  LET e == Effective(T, q.date, q.service) IN
  CASE ~Valid(e) \/ (e.open /\ ServiceSlots(e) = {})
                                         -> "CONFIGURATION_INVALID"
    [] Valid(e) /\ ~e.open               -> "SERVICE_CLOSED"
    [] ServiceSlots(e) # {} /\ q.slot \notin ServiceSlots(e)
                                         -> "NO_SLOT"
    [] OTHER ->
         CASE Past(q.date, q.slot, at)   -> "SLOT_IN_PAST"
           [] ~Past(q.date, q.slot, at) /\ q.public
                /\ CutoffReached(e, q.date, at)
                                         -> "ONLINE_CUTOFF_REACHED"
           [] OTHER -> IF HasRoom(T, e, q) THEN "FREE"
                       ELSE "CAPACITY_EXCEEDED"
==============================================================================
