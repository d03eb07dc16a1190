---------------------------- MODULE StaffExports ----------------------------
(***************************************************************************)
(* The files and previews a staff page asks for.  Rendering takes long, so *)
(* the page proves its session before it asks, sends the binding of that   *)
(* session, and proves it again before a file is handed over.  The server  *)
(* reads one snapshot, and writes an audit event before it answers.        *)
(*                                                                         *)
(* A behaviour is about drafts or about exports: what they share is the    *)
(* draft host and its proofs of the session.                               *)
(***************************************************************************)
EXTENDS StaffDrafts

CONSTANTS
  Booking, Gone,  \* the bookings of a service, and the mark of a withdrawn one
  Legacy,         \* the rooms shown only when something sits there
  Area, Unseated, \* the rooms of the bookings, and the mark of one without
  All,            \* the selection of every room
  Selection,      \* bound: the selections that are made
  MaxExports      \* bound: what is asked for

ASSUME StaffExportsAssumption ==
  /\ Legacy \subseteq Area /\ Gone \notin Area \cup {Unseated} /\ Unseated \notin Area
  /\ All \in Selection /\ Selection \subseteq Area \cup {Unseated, All}
  /\ All \notin Area \cup {Unseated, Gone} /\ MaxExports \in Nat

VARIABLES
  book,       \* where a booking sits
  permitted,  \* whether the user of a session may export
  requests,   \* what the server was asked for
  panel,      \* the export panel: what it waits for, what it shows
  given       \* the files handed over

exportVars == <<book, permitted, requests, panel, given>>

(* The files and the preview of one service, and the historic files, which *)
(* know neither proofs nor bindings.                                       *)
ExportKind == {"FILE", "PREVIEW", "M11"}
Idle == [kind |-> "none"]
Place == Area \cup {Unseated}

ExportInit ==
  /\ DraftInit
  /\ book = [b \in Booking |-> Unseated]
  /\ permitted = [s \in Session |-> TRUE]
  /\ requests = << >>
  /\ panel = [intent |-> Idle, preview |-> NoSession]
  /\ given = {}

-----------------------------------------------------------------------------
(* The document.  A preview and a file of one service show the legacy      *)
(* rooms that are used there, the historic files all rooms.                *)
InUse(places) == {r \in Legacy : \E b \in Booking : places[b] = r}

Selected(request, places) ==
  {b \in Booking : /\ places[b] # Gone
                   /\ request.room \in {All, places[b]}}

Groups(request, legacy) ==
  IF request.kind = "M11" THEN Place
  ELSE IF request.room = All THEN (Place \ Legacy) \cup legacy
  ELSE {request.room}

Document(request, legacy, places) ==
  [g \in Groups(request, legacy) |->
     {b \in Selected(request, places) : places[b] = g}]

(* Every booking that was read is in a group.                              *)
Consistent(request, legacy, places) ==
  \A b \in Selected(request, places) : places[b] \in Groups(request, legacy)

-----------------------------------------------------------------------------
(* The server.                                                             *)
Requested(kind, room, of) ==
  [kind |-> kind, room |-> room, of |-> of, carried |-> cookie, stage |-> "sent",
   seen |-> book, legacy |-> {}, audit |-> "none", reply |-> Nothing,
   moments |-> {book}]

(* A request nobody will hear of any more.  It may still be served, and    *)
(* its audit event written, which makes no difference to the page.         *)
Spent == [stage |-> "over"]

Serves == UNCHANGED <<cookie, sessions, reservation, saved, using, tab, attempts,
                      book, permitted, panel, given>>

Goes(r, q) == requests' = [requests EXCEPT ![r] = q] /\ UNCHANGED events /\ Serves

(* The answer may be lost.                                                 *)
AnswersWith(r, q, answer) ==
  /\ \E x \in {answer, Down} :
       /\ requests' = [requests EXCEPT ![r] = [q EXCEPT !.stage = "answered", !.reply = x]]
       /\ Told(x)
  /\ Serves

BoundTo(q) == q.kind = "M11" \/ q.carried = q.of

(* The range of a historic file may be too long: that is audited too.      *)
Admit(r) ==
  LET q == requests[r] IN
  /\ q.stage = "sent"
  /\ IF ~Authentic(q.carried) \/ ~BoundTo(q) THEN AnswersWith(r, q, Denied)
     ELSE \/ Goes(r, [q EXCEPT !.stage = "admitted"])
          \/ q.kind = "M11" /\ Goes(r, [q EXCEPT !.stage = "failed"])

(* Mutant: each query reads what is committed when it runs.                *)
ReadCommitted(r) == book

(* The transaction reads the snapshot of its first query.                  *)
Snapshot(r) == requests[r].seen

(* The actor, the rooms, and the legacy rooms in use.                      *)
ReadContext(r) ==
  LET q == requests[r] IN
  /\ q.stage = "admitted"
  /\ IF ~permitted[q.carried] THEN AnswersWith(r, q, Denied)
     ELSE Goes(r, [q EXCEPT !.stage = "reading", !.seen = book, !.legacy = InUse(book)])

(* The bookings, and what is made of them; too many, too large, or not to  *)
(* be rendered is a failure.                                               *)
Compose(r) ==
  LET q == requests[r]
      ok == Consistent(q, q.legacy, Snapshot(r))
      made == [is |-> "document", document |-> Document(q, q.legacy, Snapshot(r))]
      failed == IF ok THEN [is |-> "failed"] ELSE [is |-> "inconsistent"]
  IN  /\ q.stage = "reading"
      /\ IF q.kind = "PREVIEW"
           THEN \E x \in IF ok THEN {made, failed} ELSE {failed} : AnswersWith(r, q, x)
         ELSE \/ ok /\ Goes(r, [q EXCEPT !.stage = "made", !.reply = made])
              \/ Goes(r, [q EXCEPT !.stage = "failed", !.reply = failed])

(* Mutant: a file whose audit event could not be written is sent.          *)
Audited(q) == TRUE

OnRecord(q) == q.audit = "SUCCESS"

(* The audit event is written in a transaction of its own, which reads the *)
(* actor again and may fail; what is not on record is not sent.            *)
AuditSuccess(r) ==
  LET q == requests[r] IN
  /\ q.stage = "made"
  /\ IF ~permitted[q.carried] THEN AnswersWith(r, q, Denied)
     ELSE \E audit \in {"SUCCESS", "none"} :
            LET w == [q EXCEPT !.audit = audit] IN
            AnswersWith(r, w, IF OnRecord(w) THEN q.reply ELSE [is |-> "failed"])

AuditFailure(r) ==
  LET q == requests[r] IN
  /\ q.stage = "failed"
  /\ IF ~permitted[q.carried] THEN AnswersWith(r, q, Denied)
     ELSE \E audit \in {"FAILURE", "none"} :
            AnswersWith(r, [q EXCEPT !.audit = audit],
                    IF q.reply = Nothing \/ audit = "none" THEN [is |-> "failed"] ELSE q.reply)

Serving == \E r \in DOMAIN requests :
  Admit(r) \/ ReadContext(r) \/ Compose(r) \/ AuditSuccess(r) \/ AuditFailure(r)

(* A booking is seated, moved or withdrawn by others.  Bound: while a       *)
(* request is being served.                                                *)
BookChanges ==
  /\ Event /\ \E r \in DOMAIN requests : requests[r].stage \in {"sent", "admitted", "reading"}
  /\ \E b \in Booking, p \in Place \cup {Gone} :
       /\ book[b] \notin {p, Gone}
       /\ book' = [book EXCEPT ![b] = p]
  /\ requests' = [r \in DOMAIN requests |->
       IF requests[r].stage \in {"over", "answered"} THEN requests[r]
       ELSE [requests[r] EXCEPT !.moments = @ \cup {book'}]]
  /\ UNCHANGED <<cookie, sessions, reservation, saved, using, tab, attempts,
                 permitted, panel, given>>

-----------------------------------------------------------------------------
(* The panel.                                                              *)
Waits(kind, room, stage, proof) ==
  [kind |-> kind, room |-> room, stage |-> stage, proof |-> proof, who |-> NoSession,
   request |-> 0, since |-> {}]

Awaits(p) ==
  panel.intent # Idle /\ panel.intent.stage # "wait" /\ panel.intent.proof = p

Hears(r) == panel.intent # Idle /\ panel.intent.request = r

WithIntent(i) == panel' = [panel EXCEPT !.intent = i]

Rest == UNCHANGED <<book, permitted>>

(* The historic files are asked for at once; for the others the session is *)
(* proved first.  A new preview puts away the old.                         *)
Begin(kind, room) ==
  /\ using = {} /\ tab.here = "agenda" /\ panel.intent = Idle
  /\ Event /\ Len(requests) < MaxExports
  /\ IF kind = "M11"
       THEN /\ room = All
            /\ requests' = Append(requests, Requested(kind, room, NoSession))
            /\ WithIntent([Waits(kind, room, "wait", NoProof) EXCEPT !.request = Len(requests')])
            /\ UNCHANGED tab
     ELSE /\ CanVerify(tab)
          /\ tab' = Verifying(tab, "none")
          /\ panel' = [intent |-> Waits(kind, room, "proof", tab'.flight), preview |-> NoSession]
          /\ UNCHANGED requests
  /\ UNCHANGED <<Outside, attempts, given>> /\ Rest

(* Mutant: the session of the second proof is not compared.                *)
AnySession(who, s) == TRUE

SameSession(who, s) == who = s

HandedOver(q, since) ==
  given' = given \cup {[kind |-> q.kind, by |-> q.carried, since |-> since,
                        onRecord |-> q.audit = "SUCCESS"]}

(* The first proof lets the request go, with the cookie of the moment; the *)
(* second lets the file go, if it names the same session.                  *)
PanelProved(p) ==
  LET i == panel.intent
      who == tab.proofs[p].reply.who
  IN  /\ Holds(p) /\ Rest
      /\ \/ /\ ~Awaits(p)
            /\ Concludes(p, Verified(p))
            /\ UNCHANGED <<requests, panel, given>>
         \/ /\ Awaits(p) /\ i.stage = "proof"
            /\ Concludes(p, Verified(p))
            /\ requests' = Append(requests, Requested(i.kind, i.room, who))
            /\ WithIntent([i EXCEPT !.stage = "wait", !.who = who, !.request = Len(requests')])
            /\ UNCHANGED given
         \/ /\ Awaits(p) /\ i.stage = "confirm"
            /\ IF SameSession(i.who, who)
                 THEN Concludes(p, Verified(p)) /\ HandedOver(requests[i.request], i.since)
               ELSE Concludes(p, Quarantined(Verified(p))) /\ UNCHANGED given
            /\ WithIntent(Idle)
            /\ requests' = [requests EXCEPT ![i.request] = Spent]

(* A second proof that fails, were it only because a newer one is under    *)
(* way, discards that one too.                                             *)
PanelNotProved(p) ==
  LET i == panel.intent
      final == Awaits(p) /\ i.stage = "confirm"
  IN  /\ ~Holds(p) /\ Rest
      /\ Concludes(p, IF final THEN Quarantined(NotVerified(p)) ELSE NotVerified(p))
      /\ IF Awaits(p) THEN WithIntent(Idle) ELSE UNCHANGED panel
      /\ requests' = IF final THEN [requests EXCEPT ![i.request] = Spent] ELSE requests
      /\ UNCHANGED given

(* Answers of the server.  A file waits for the second proof.              *)
Answered(r) ==
  LET q == requests[r]
      ok == q.reply.is = "document"
      spent == [requests EXCEPT ![r] = Spent]
  IN  /\ q.stage = "answered"
      /\ \/ /\ q.kind = "M11"
            /\ IF ok THEN HandedOver(q, {}) ELSE UNCHANGED given
            /\ IF Hears(r) THEN WithIntent(Idle) ELSE UNCHANGED panel
            /\ requests' = spent /\ UNCHANGED tab
         \/ /\ q.kind # "M11" /\ q.reply = Denied
            /\ tab' = Quarantined(tab)
            /\ panel' = [intent |-> Idle, preview |-> NoSession]
            /\ requests' = spent /\ UNCHANGED given
         \/ /\ q.kind # "M11" /\ q.reply # Denied /\ ~ok
            /\ WithIntent(Idle)
            /\ requests' = spent /\ UNCHANGED <<tab, given>>
         \/ /\ q.kind = "PREVIEW" /\ ok
            /\ panel' = [intent |-> Idle, preview |-> q.carried]
            /\ requests' = spent /\ UNCHANGED <<tab, given>>
         \/ /\ q.kind = "FILE" /\ ok
            /\ panel.intent.stage = "wait" /\ CanVerify(tab)
            /\ tab' = Verifying(tab, "none")
            /\ WithIntent([panel.intent EXCEPT !.stage = "confirm", !.proof = tab'.flight,
                                               !.since = {cookie}])
            /\ UNCHANGED <<requests, given>>
      /\ UNCHANGED <<Surroundings, attempts>> /\ Rest

(* Another selection: what was asked for is no longer wanted.              *)
Reselect ==
  LET i == panel.intent IN
  /\ tab.here = "agenda"
  /\ (i # Idle /\ i.kind # "M11") \/ panel.preview # NoSession
  /\ panel' = [intent |-> IF i # Idle /\ i.kind = "M11" THEN i ELSE Idle, preview |-> NoSession]
  /\ requests' = [r \in DOMAIN requests |->
       IF Hears(r) /\ i.kind # "M11" THEN Spent ELSE requests[r]]
  /\ UNCHANGED <<draftVars, given>> /\ Rest

(* Mutant: what was asked for outlives the page's lease of the session.    *)
StampKept == tab'.here = tab.here

(* The page still shows the session, by the proof it was stamped with.     *)
StampHolds ==
  /\ Visible(tab) /\ Visible(tab')
  /\ tab'.identity = tab.identity /\ tab'.here = tab.here

DocumentReplaced == tab' # tab /\ tab' = FreshTab(tab'.here)

(* What remains when the host, or another tab, takes a step: before its    *)
(* first and during its second proof a request is not tied to a stamp.     *)
Survives(i) ==
  /\ i # Idle /\ tab'.here = "agenda" /\ ~DocumentReplaced
  /\ i.kind # "M11" /\ i.stage = "wait" => StampHolds

Remaining(away) ==
  LET i == panel.intent IN
  IF ~Survives(i) \/ (away /\ i.kind = "FILE") THEN Idle
  ELSE IF i.stage = "confirm" THEN [i EXCEPT !.since = @ \cup {cookie'}]
  ELSE i

Disturbs(away) ==
  /\ panel' = [intent |-> Remaining(away),
               preview |-> IF StampHolds THEN panel.preview ELSE NoSession]
  /\ requests' = [r \in DOMAIN requests |->
       IF \/ DocumentReplaced
          \/ Hears(r) /\ Remaining(away) = Idle /\ panel.intent.kind # "M11"
         THEN Spent ELSE requests[r]]
  /\ UNCHANGED <<book, given>>

-----------------------------------------------------------------------------
ExportNext ==
  \/ \E p \in Proof : PanelProved(p) \/ PanelNotProved(p)
  \/ PageHide /\ Disturbs(TRUE) /\ UNCHANGED permitted
  \/ Otherwise /\ Disturbs(FALSE) /\ UNCHANGED permitted
  \/ \E s \in Session : /\ SessionEnds(s) /\ Disturbs(FALSE)
                        /\ permitted[s] /\ permitted' = [permitted EXCEPT ![s] = FALSE]
  \/ Serving \/ BookChanges
  \/ \E kind \in ExportKind, room \in Selection : Begin(kind, room)
  \/ \E r \in DOMAIN requests : Answered(r)
  \/ Reselect

ExportSpec == ExportInit /\ [][ExportNext]_<<draftVars, exportVars>>

-----------------------------------------------------------------------------
(* A file is handed over only if the session it was made for held the      *)
(* cookie at some moment after the file had come, and its export is on     *)
(* record; a preview is shown only under the session that asked for it.    *)
ExportsStayWithTheirSession ==
  /\ \A g \in given : g.onRecord /\ (g.kind = "FILE" => g.by \in g.since)
  /\ panel.preview # NoSession => Visible(tab) /\ panel.preview = tab.identity

(* Whatever is seated, moved or withdrawn meanwhile, a document shows the  *)
(* service as it was at one moment, and bookings that are in order are     *)
(* never taken for inconsistent.                                           *)
ADocumentIsOneMoment ==
  \A r \in DOMAIN requests :
    LET q == requests[r] IN
    q.stage = "answered" =>
      /\ q.reply.is # "inconsistent"
      /\ q.reply.is = "document" =>
           \E m \in q.moments : q.reply.document = Document(q, InUse(m), m)
=============================================================================
