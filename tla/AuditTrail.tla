------------------------------ MODULE AuditTrail ------------------------------
(***************************************************************************)
(* The audit trail as an administrator reads it: the events of two tables  *)
(* merged, newest first, page by page.  A cursor names the last event read *)
(* and the filters it was read under.  Meanwhile events are written, some  *)
(* with an instant older than others that are visible already, because an  *)
(* event has its instant before its transaction commits; the day turns;    *)
(* answers are lost; and the reader may lose the session or the role.      *)
(***************************************************************************)
EXTENDS Identity, SequencesExt

CONSTANTS
  Event,        \* identifiers of events, in their order
  NoEvent,
  Reader,       \* the administrator in front of the panel
  DayLength,    \* instants of a day
  DefaultDays,  \* days read when no first one is given
  PageSize

ASSUME AuditAssumption ==
  /\ Event \subseteq Nat
  /\ IsFiniteSet(Event)
  /\ NoEvent \notin Event
  /\ Reader \in User
  /\ {DayLength, DefaultDays, PageSize} \subseteq Nat \ {0}

VARIABLES
  entry,     \* the events: being written, or written
  list,      \* what the panel shows and the cursor it goes on from
  filters,   \* the filters last submitted
  loading,   \* the request for a page on its way
  detail,    \* the event shown in full, or asked for
  listed,    \* the filters of the page the list begins with, resolved
  visible    \* the events to be seen when it was read

reading == <<list, filters, loading, detail, listed, visible>>
auditVars == <<vars, entry, reading>>

Source == {"RESERVATION", "ADMINISTRATIVE"}
Rank(source) == IF source = "RESERVATION" THEN 1 ELSE 2

Unwritten == [state |-> "NONE", at |-> 0, source |-> "RESERVATION"]

(* Filters as submitted; a day left open is today's when they are read.    *)
Today == Horizon + 1
Filters == [source : Source \cup {"ALL"}, to : (0..Horizon) \cup {Today}]
NoFilters == [source |-> "ALL", to |-> Today]

DayOf(t) == t \div DayLength

(* What filters mean at an instant, which is what a cursor is bound to.    *)
Resolved(f, t) ==
  LET to == IF f.to = Today THEN DayOf(t) ELSE f.to
  IN  [source |-> f.source, from |-> to - DefaultDays + 1, to |-> to]

Position(e) == [at |-> entry[e].at, rank |-> Rank(entry[e].source), id |-> e]
NoCursor == [position |-> [at |-> 0, rank |-> 0, id |-> NoEvent],
             of |-> Resolved(NoFilters, 0)]

Before(p, q) ==
  \/ p.at < q.at
  \/ p.at = q.at /\ p.rank < q.rank
  \/ p.at = q.at /\ p.rank = q.rank /\ p.id < q.id

Matches(e, r) ==
  /\ entry[e].state = "WRITTEN"
  /\ r.source \in {"ALL", entry[e].source}
  /\ r.from <= DayOf(entry[e].at) /\ DayOf(entry[e].at) <= r.to

(* Newest first; of one instant, administration before reservations.       *)
Sorted(E) ==
  CHOOSE s \in [1..Cardinality(E) -> E] :
    \A i, j \in DOMAIN s : i < j => Before(Position(s[j]), Position(s[i]))

(* Mutant: a cursor is an instant.                                         *)
BeyondInstant(e, cursor) ==
  cursor = NoCursor \/ entry[e].at < cursor.position.at

Beyond(e, cursor) ==
  cursor = NoCursor \/ Before(Position(e), cursor.position)

(* A page after a cursor, one row more being read to know if it is the     *)
(* last.                                                                   *)
PageOf(r, cursor) ==
  LET rows == Sorted({e \in Event : Matches(e, r) /\ Beyond(e, cursor)})
      page == SubSeq(rows, 1, IF Len(rows) < PageSize THEN Len(rows) ELSE PageSize)
  IN  [items  |-> page,
       cursor |-> IF Len(rows) > PageSize
                    THEN [position |-> Position(Last(page)), of |-> r]
                    ELSE NoCursor]

Nothing == [items |-> << >>, cursor |-> NoCursor]
NotLoading == [state |-> "NONE", filters |-> NoFilters, cursor |-> NoCursor,
               page |-> Nothing, read |-> Resolved(NoFilters, 0), seen |-> {}]

AuditInit ==
  /\ Init
  /\ entry = [e \in Event |-> Unwritten]
  /\ list = Nothing
  /\ filters = NoFilters
  /\ loading = NotLoading
  /\ detail = [event |-> NoEvent, shown |-> FALSE]
  /\ listed = Resolved(NoFilters, 0)
  /\ visible = {}

-----------------------------------------------------------------------------
(* A transaction of any handler writes an event and commits it later.      *)
BeginEvent(e, source) ==
  /\ entry[e] = Unwritten
  /\ entry' = [entry EXCEPT ![e] = [state |-> "OPEN", at |-> now,
                                    source |-> source]]
  /\ UNCHANGED <<vars, reading>>

CommitEvent(e) ==
  /\ entry[e].state = "OPEN"
  /\ entry' = [entry EXCEPT ![e].state = "WRITTEN"]
  /\ UNCHANGED <<vars, reading>>

-----------------------------------------------------------------------------
(* One request for a page at a time: the buttons are disabled meanwhile.   *)
Load(f, cursor) ==
  /\ loading.state = "NONE"
  /\ loading' = [NotLoading EXCEPT !.state = "SENT", !.filters = f,
                                   !.cursor = cursor]
  /\ UNCHANGED <<vars, entry, list, detail, listed, visible>>

(* The filters count as submitted before their answer is there.            *)
SubmitFilters(f) == Load(f, NoCursor) /\ filters' = f

LoadMore ==
  /\ list.cursor # NoCursor
  /\ Load(filters, list.cursor)
  /\ UNCHANGED filters

(* The request carries a session and the service looks at the user again.  *)
MayRead ==
  /\ \E s \in Session : session[s].user = Reader /\ Valid(s)
  /\ FreshAdmin(Tables, Reader)

(* Mutant: the filters of a cursor are not compared.                       *)
AnyCursor(cursor, r) == TRUE

OfTheseFilters(cursor, r) == cursor = NoCursor \/ cursor.of = r

ServePage ==
  LET r == Resolved(loading.filters, now)
      served == MayRead /\ OfTheseFilters(loading.cursor, r)
  IN
  /\ loading.state = "SENT"
  /\ loading' =
       IF served
         THEN [loading EXCEPT !.state = "READ",
                 !.page = PageOf(r, loading.cursor), !.read = r,
                 !.seen = {e \in Event : entry[e].state = "WRITTEN"}]
         ELSE [loading EXCEPT !.state = "FAILED"]
  /\ UNCHANGED <<vars, entry, list, filters, detail, listed, visible>>

LosePage ==
  /\ loading.state \in {"SENT", "READ"}
  /\ loading' = [NotLoading EXCEPT !.state = "FAILED"]
  /\ UNCHANGED <<vars, entry, list, filters, detail, listed, visible>>

(* A first page replaces the list, a further one goes to its end, and an   *)
(* error leaves it as it is.                                               *)
ReceivePage ==
  /\ loading.state \in {"READ", "FAILED"}
  /\ loading' = NotLoading
  /\ IF loading.state = "FAILED"
       THEN UNCHANGED <<list, listed, visible>>
       ELSE IF loading.cursor = NoCursor
         THEN /\ list' = loading.page
              /\ listed' = loading.read
              /\ visible' = loading.seen
         ELSE /\ list' = [items  |-> list.items \o loading.page.items,
                          cursor |-> loading.page.cursor]
              /\ UNCHANGED <<listed, visible>>
  /\ UNCHANGED <<vars, entry, filters, detail>>

(* One event in full, asked for one at a time.                             *)
OpenDetail(e) ==
  /\ detail = [event |-> NoEvent, shown |-> FALSE]
  /\ e \in Range(list.items)
  /\ detail' = [event |-> e, shown |-> FALSE]
  /\ UNCHANGED <<vars, entry, list, filters, loading, listed, visible>>

(* The record is looked up by source and id in the table of the source.    *)
Recorded(e) == e # NoEvent /\ entry[e].state = "WRITTEN"

AnswerDetail ==
  /\ detail.event # NoEvent /\ ~detail.shown
  /\ \/ /\ MayRead /\ Recorded(detail.event)
        /\ detail' = [detail EXCEPT !.shown = TRUE]
     \/ detail' = [event |-> NoEvent, shown |-> FALSE]
  /\ UNCHANGED <<vars, entry, list, filters, loading, listed, visible>>

CloseDetail ==
  /\ detail.shown
  /\ detail' = [event |-> NoEvent, shown |-> FALSE]
  /\ UNCHANGED <<vars, entry, list, filters, loading, listed, visible>>

AuditStep ==
  \/ \E e \in Event, source \in Source : BeginEvent(e, source)
  \/ \E e \in Event : CommitEvent(e) \/ OpenDetail(e)
  \/ \E f \in Filters : SubmitFilters(f)
  \/ LoadMore \/ ServePage \/ LosePage \/ ReceivePage
  \/ AnswerDetail \/ CloseDetail

AuditNext == AuditStep \/ (Next /\ UNCHANGED <<entry, reading>>)

AuditSpec == AuditInit /\ [][AuditNext]_auditVars

-----------------------------------------------------------------------------
(* However many requests it was read with, the list is one reading of the  *)
(* trail: newest first without repetition, all under the filters of its    *)
(* first page, and without a gap: down to its last event, or to the end if *)
(* no more is offered, it has every matching event that could be seen when *)
(* the first page was read, although events are written and filters, days  *)
(* and answers change or fail in between (decodeAuditCursor,               *)
(* readUnifiedAuditPage, submitFilters, loadMore).                         *)
TheListIsOneReading ==
  LET items == list.items
      shown == Range(items)
  IN
  /\ \A i \in 1..(Len(items) - 1) :
        Before(Position(items[i + 1]), Position(items[i]))
  /\ \A e \in shown : Matches(e, listed)
  /\ \A e \in visible :
        /\ Matches(e, listed)
        /\ list.cursor = NoCursor \/ Before(Position(Last(items)), Position(e))
        => e \in shown
=============================================================================
