----------------------------- MODULE StaffDrafts -----------------------------
(***************************************************************************)
(* The drafts of a staff page.  They live in the memory of one browser tab *)
(* and belong to the session they were written in, while the cookie is     *)
(* shared with other tabs, sessions end, and answers come late, out of     *)
(* order or not at all.  A draft is shown only after the server has named  *)
(* the session; a submit asks again, reads the reservation again, and is   *)
(* sent with the binding of the session the draft was written in.          *)
(*                                                                         *)
(* Epochs and generations are numbers the code only compares with their    *)
(* present value, so the model keeps what still belongs to the present     *)
(* one: the attempts of the epoch, those since which there was no          *)
(* navigation, those no quarantine has disturbed either, and the call of   *)
(* verifySession in flight.                                                *)
(***************************************************************************)
EXTENDS Naturals, Sequences, FiniteSets

CONSTANTS
  Session, NoSession,  \* a session stands for its actor, tenant, role, binding
  Day, Room, NoRoom,   \* what is typed, and where a reservation sits
  Proof, NoProof,      \* calls of verifySession in flight, fresh or not
  MaxAttempts,         \* bound: submits
  MaxEvents            \* bound: submits, exports, turns of the page, sessions begun or
                       \* ended, changes by others, answers lost

ASSUME StaffDraftsAssumption ==
  /\ NoSession \notin Session /\ NoRoom \notin Room /\ NoProof \notin Proof
  /\ Day # {} /\ Room # {} /\ Proof # {}
  /\ MaxAttempts \in Nat /\ MaxEvents \in Nat

VARIABLES
  cookie,       \* the browser's session cookie
  sessions,
  reservation,  \* the row that is edited or given a room
  saved,        \* under which session the server saved an attempt, if it did
  using,        \* the drafts this behaviour is about
  tab,          \* the draft host
  attempts,     \* what was submitted, and how far it came
  events         \* counts MaxEvents

draftVars == <<cookie, sessions, reservation, saved, using, tab, attempts, events>>

Kind == {"PHONE", "EDIT", "ROOM"}
Route == {"agenda", "form", "login"}
NoRoute == "none"
Staff(route) == route \in {"agenda", "form"}

Nothing == [is |-> "none"]
Down == [is |-> "down"]
Denied == [is |-> "denied"]

NoDraft == [phase |-> "NONE"]
NoDrafts == [d \in Kind |-> NoDraft]
NoResource == [version |-> 0]
NoCall == [route |-> NoRoute, carried |-> NoSession, resumes |-> "none", reply |-> Nothing]
NoLogout == [asked |-> FALSE, carried |-> NoSession, reply |-> Nothing, owned |-> FALSE]

FirstDay == CHOOSE d \in Day : TRUE

FreshTab(route) ==
  [auth |-> "UNKNOWN", identity |-> NoSession, records |-> NoDrafts,
   owned |-> {}, undisturbed |-> {}, unmoved |-> {}, rereads |-> {}, waiting |-> {},
   flight |-> NoProof, proofs |-> [p \in Proof |-> NoCall], logout |-> NoLogout,
   authorized |-> NoRoute, here |-> route, observed |-> route, leaving |-> NoRoute,
   shown |-> {}, resource |-> NoResource]

-----------------------------------------------------------------------------
(* The state of the drafts (staff-draft-state.ts).                         *)

Quarantined(t) ==
  [t EXCEPT !.auth = "CHECKING", !.authorized = NoRoute, !.flight = NoProof,
            !.undisturbed = {}, !.resource = NoResource, !.shown = {}]

Erased(t) ==
  [t EXCEPT !.auth = "DENIED", !.identity = NoSession, !.records = NoDrafts,
            !.authorized = NoRoute, !.flight = NoProof, !.owned = {}, !.undisturbed = {},
            !.unmoved = {}, !.rereads = {}, !.waiting = {}, !.logout.owned = FALSE,
            !.resource = NoResource, !.shown = {}]

Authorized(t, s) ==
  IF t.identity = s THEN [t EXCEPT !.auth = "AUTHORIZED"]
  ELSE [t EXCEPT !.auth = "AUTHORIZED", !.identity = s, !.records = NoDrafts,
                 !.owned = {}, !.unmoved = {}, !.logout.owned = FALSE]

Unavailable(t) == [t EXCEPT !.auth = "UNAVAILABLE", !.resource = NoResource, !.shown = {}]

Visible(t) == t.auth = "AUTHORIZED" /\ t.authorized = t.here /\ Staff(t.here)

Unsaved(r) ==
  /\ r.phase # "NONE"
  /\ r.phase \in {"PENDING", "DIRTY_CONFLICT", "ERROR"} \/ r.values # r.baseline

UnsavedIn(t) == {d \in Kind : Unsaved(t.records[d])}

Discarded(t, D) ==
  [t EXCEPT !.records = [d \in Kind |-> IF d \in D /\ @[d].phase # "PENDING"
                                          THEN NoDraft ELSE @[d]],
            !.shown = @ \ D]

Owns(t, i) ==
  LET a == attempts[i]
      r == t.records[a.draft]
  IN  /\ i \in t.owned
      /\ r.phase = "PENDING"
      /\ r.instance = a.instance /\ r.base = a.base /\ r.attempt = i

Matches(t, i) == t.auth = "AUTHORIZED" /\ Owns(t, i)

(* No quarantine and no navigation since the submit.                       *)
CurrentAttempt(t, i) == Owns(t, i) /\ i \in t.undisturbed /\ t.here = "form" /\ Visible(t)

WithPhase(r, phase) == [r EXCEPT !.phase = phase, !.attempt = 0]

Rejected(t, i) ==
  IF Owns(t, i) THEN [t EXCEPT !.records[attempts[i].draft] = WithPhase(@, "ERROR")]
  ELSE t

(* A draft whose submit could not be checked is hidden too.                *)
RejectedUnchecked(t, i) ==
  IF Owns(t, i) THEN Unavailable(Quarantined(Rejected(t, i))) ELSE t

Confirmed(r, i, version) ==
  [r EXCEPT !.phase = "CONFIRMED", !.values = attempts[i].values,
            !.baseline = attempts[i].values, !.base = version, !.attempt = 0, !.retry = 0]

Outcome(r, i) ==
  CASE attempts[i].reply.is = "saved"    -> Confirmed(r, i, attempts[i].reply.version)
    [] attempts[i].reply.is = "conflict" -> WithPhase(r, "DIRTY_CONFLICT")
    [] OTHER                             -> WithPhase(r, "ERROR")

Settled(t, i) ==
  IF Matches(t, i) THEN [t EXCEPT !.records[attempts[i].draft] = Outcome(@, i)] ELSE t

-----------------------------------------------------------------------------
(* The draft host (staff-draft-host.tsx).                                  *)
Free(t) == {p \in Proof : t.proofs[p] = NoCall}

(* verifySession joins the call in flight, if there is one.                *)
CanVerify(t) == t.flight # NoProof \/ Free(t) # {}

Verifying(t, resumes) ==
  IF t.flight # NoProof \/ ~Staff(t.here) THEN t
  ELSE LET p == CHOOSE q \in Free(t) : TRUE
       IN  [Quarantined(t) EXCEPT
              !.flight = p,
              !.proofs[p] = [route |-> t.here, carried |-> cookie, resumes |-> resumes,
                             reply |-> Nothing]]

(* A page that comes to the foreground never trusts the call in flight.    *)
VerifyingAfresh(t) == Verifying(Quarantined(t), "none")

LeavingFor(t, route) == [Quarantined(t) EXCEPT !.leaving = route, !.unmoved = {}]

(* What was saved while its editor was away is put away, and what was read *)
(* of the reservation is no longer current.  The edit form leaves for the  *)
(* agenda, the room panel closes.                                          *)
SettledNow(t, i) ==
  IF ~Matches(t, i) THEN t
  ELSE LET d == attempts[i].draft
           foreground == d \in t.shown /\ i \in t.unmoved
           u == Settled(t, i)
           v == [u EXCEPT !.resource = NoResource, !.rereads = {}, !.shown = @ \cap {"PHONE"}]
       IN  IF attempts[i].reply.is # "saved" THEN u
           ELSE IF ~foreground \/ d = "ROOM" THEN Discarded(v, {d})
           ELSE IF d = "EDIT" THEN LeavingFor(v, "agenda")
           ELSE v

(* Outcomes that came while the session was in doubt.                      *)
SettledLate(t, i) ==
  LET u == Settled(t, i)
  IN  IF Matches(t, i) /\ attempts[i].reply.is = "saved"
        THEN Discarded(u, {attempts[i].draft}) ELSE u

(* A draft waits for its last attempt, and a behaviour is about one draft: *)
(* of several outcomes that are there, one at most is its own.             *)
Awaited(t, S) == {i \in S : Matches(t, i)}
TheOne(S) == CHOOSE i \in S : TRUE

AllLate(t) ==
  LET S == Awaited(t, t.waiting)
  IN  [IF S = {} THEN t ELSE SettledLate(t, TheOne(S)) EXCEPT !.waiting = {}]

AllNow(t, W) ==
  LET S == Awaited(t, W) IN IF S = {} THEN t ELSE SettledNow(t, TheOne(S))

(* Mutant: any answer is believed.                                         *)
Believed(t, p) == FALSE

(* The proof that answers is no longer the one in flight.                  *)
Stale(t, p) == t.flight # p

(* The session the server names becomes the page's.                        *)
Recognised(t, s, route) ==
  LET changed == t.identity \notin {NoSession, s}
      u == IF changed THEN [t EXCEPT !.resource = NoResource, !.waiting = {}, !.shown = {}]
           ELSE t
  IN  AllLate([Authorized(u, s) EXCEPT !.authorized = route])

(* Mutant: an outcome is kept only for a draft that may be shown.          *)
ToKeepWhileShown(t, i) == Matches(t, i)

(* Kept until a session is verified.                                       *)
ToKeep(t, i) ==
  LET r == t.records[attempts[i].draft]
  IN  /\ i \in t.owned /\ r.phase # "NONE"
      /\ r.instance = attempts[i].instance /\ r.attempt = i

Kept(t, S) == [t EXCEPT !.waiting = @ \cup {i \in S : ToKeep(t, i)}]

-----------------------------------------------------------------------------
DraftInit ==
  /\ cookie \in Session
  /\ sessions = [s \in Session |-> IF s = cookie THEN "live" ELSE "unborn"]
  /\ reservation = [version |-> 1, day |-> FirstDay, room |-> NoRoom, cancelled |-> FALSE]
  /\ saved = [i \in 1..MaxAttempts |-> NoSession]
  /\ using \in {{}, {"PHONE"}, {"EDIT"}, {"ROOM"}}
  /\ \E route \in {"agenda", "form"} : tab = FreshTab(route)
  /\ attempts = << >>
  /\ events = 0

Served == <<sessions, reservation, saved>>
Outside == <<cookie, Served, using>>
Surroundings == <<Outside, events>>

Event == events < MaxEvents /\ events' = events + 1

(* The page goes: what it sent may still be served, and nobody listens.    *)
Orphaned(a) ==
  IF a.stage = "save" /\ a.reply = Nothing THEN [a EXCEPT !.stage = "orphan"]
  ELSE [a EXCEPT !.stage = "done", !.carried = NoSession, !.proof = NoProof, !.reply = Nothing]

NewDocument(route) ==
  /\ tab' = FreshTab(route)
  /\ attempts' = [i \in DOMAIN attempts |-> Orphaned(attempts[i])]

-----------------------------------------------------------------------------
(* The server, as far as the page can tell.                                *)
Authentic(carried) == carried # NoSession /\ sessions[carried] = "live"

Named(carried) ==
  IF Authentic(carried) THEN [is |-> "session", who |-> carried] ELSE Denied

Told(r) == IF r = Down THEN Event ELSE UNCHANGED events

AnswerProof(p) ==
  /\ tab.proofs[p] # NoCall /\ tab.proofs[p].reply = Nothing
  /\ \E r \in {Named(tab.proofs[p].carried), Down} :
       tab' = [tab EXCEPT !.proofs[p].reply = r] /\ Told(r)
  /\ UNCHANGED <<Outside, attempts>>

Reply(i, r) == attempts' = [attempts EXCEPT ![i].reply = r] /\ Told(r)

Asked(i, stage) == attempts[i].stage = stage /\ attempts[i].reply = Nothing

AnswerCheck(i) ==
  /\ Asked(i, "proof")
  /\ \E r \in {Named(attempts[i].carried), Down} : Reply(i, r)
  /\ UNCHANGED <<Outside, tab>>

AnswerReread(i) ==
  /\ Asked(i, "reread")
  /\ \E r \in {IF Authentic(attempts[i].carried) THEN [is |-> "read", row |-> reservation]
               ELSE Denied, Down} : Reply(i, r)
  /\ UNCHANGED <<Outside, tab>>

(* Mutant: the binding in the header is not compared.                      *)
Unbound(i) == TRUE

(* The binding in the header is the one of the session in the cookie.      *)
Bound(i) == attempts[i].carried = attempts[i].of

Turned(i) ==
  IF ~Authentic(attempts[i].carried) THEN Denied
  ELSE IF ~Bound(i) THEN [is |-> "mismatch"]
  ELSE [is |-> "conflict"]

(* A save that does not get in, or is refused.                             *)
SaveRefused(i) ==
  /\ Asked(i, "save")
  /\ \E r \in {Turned(i), Down} : Reply(i, r)
  /\ UNCHANGED <<Outside, tab>>

(* The answer of what was done, or its loss.                               *)
Replied(i, version) ==
  \E r \in {[is |-> "saved", version |-> version], Down} : Reply(i, r)

Saves(i) ==
  /\ attempts[i].stage \in {"save", "orphan"} /\ attempts[i].reply = Nothing
  /\ Authentic(attempts[i].carried) /\ Bound(i)
  /\ saved' = [saved EXCEPT ![i] = attempts[i].carried]
  /\ UNCHANGED <<cookie, sessions, using, tab>>

SavePhone(i) ==
  /\ attempts[i].draft = "PHONE" /\ Saves(i)
  /\ Replied(i, 0)
  /\ UNCHANGED reservation

(* To save what is there already changes nothing.                          *)
Rewritten(row) ==
  reservation' = IF row = reservation THEN row ELSE [row EXCEPT !.version = @ + 1]

SaveEdit(i) ==
  /\ attempts[i].draft = "EDIT" /\ Saves(i)
  /\ ~reservation.cancelled /\ reservation.version = attempts[i].base
  /\ Rewritten([reservation EXCEPT !.day = attempts[i].values.day])
  /\ Replied(i, reservation'.version)

(* The room it already has may be given whatever the version.              *)
SaveRoom(i) ==
  /\ attempts[i].draft = "ROOM" /\ Saves(i)
  /\ ~reservation.cancelled /\ reservation.day = attempts[i].values.day
  /\ \/ reservation.version = attempts[i].base
     \/ reservation.room = attempts[i].values.room
  /\ Rewritten([reservation EXCEPT !.room = attempts[i].values.room])
  /\ Replied(i, reservation'.version)

AnswerLogout ==
  /\ tab.logout.asked /\ tab.logout.reply = Nothing
  /\ \/ /\ sessions' = [s \in Session |-> IF s = tab.logout.carried THEN "ended" ELSE sessions[s]]
        /\ \/ /\ cookie' = NoSession
              /\ tab' = [tab EXCEPT !.logout.reply = [is |-> "ok"]]
              /\ UNCHANGED events
           \/ /\ Event /\ UNCHANGED cookie
              /\ tab' = [tab EXCEPT !.logout.reply = Down]
     \/ /\ Event /\ tab' = [tab EXCEPT !.logout.reply = Down]
        /\ UNCHANGED <<cookie, sessions>>
  /\ UNCHANGED <<reservation, saved, using, attempts>>

-----------------------------------------------------------------------------
(* Other tabs, other people.                                               *)
SignInElsewhere(s) ==
  /\ Event
  /\ sessions[s] = "unborn"
  /\ sessions' = [sessions EXCEPT ![s] = "live"]
  /\ cookie' = s
  /\ UNCHANGED <<reservation, saved, using, tab, attempts>>

LogoutElsewhere ==
  /\ Event
  /\ cookie # NoSession
  /\ sessions' = [sessions EXCEPT ![cookie] = "ended"]
  /\ cookie' = NoSession
  /\ UNCHANGED <<reservation, saved, using, tab, attempts>>

(* It expires, or an administrator ends it.                                *)
SessionEnds(s) ==
  /\ Event
  /\ sessions[s] = "live"
  /\ sessions' = [sessions EXCEPT ![s] = "ended"]
  /\ UNCHANGED <<cookie, reservation, saved, using, tab, attempts>>

ChangedElsewhere ==
  /\ Event /\ using \cap {"EDIT", "ROOM"} # {} /\ ~reservation.cancelled
  /\ \E row \in {[reservation EXCEPT !.day = d] : d \in Day} \cup
                {[reservation EXCEPT !.room = r] : r \in Room} \cup
                {[reservation EXCEPT !.cancelled = TRUE]} :
       row # reservation /\ Rewritten(row)
  /\ UNCHANGED <<cookie, sessions, saved, using, tab, attempts>>

-----------------------------------------------------------------------------
(* The page: sessions and navigation.                                      *)
Page(t) == tab' = t /\ UNCHANGED <<Surroundings, attempts>>

Turn(t) ==
  /\ Event /\ tab' = t
  /\ UNCHANGED <<Outside, attempts>>

(* The window gets the focus, the page is shown again, or another tab has  *)
(* logged out.                                                             *)
Foreground ==
  /\ Staff(tab.here) /\ Free(tab) # {}
  /\ Turn(VerifyingAfresh(tab))

Verify ==
  /\ Staff(tab.here) /\ tab.auth \in {"UNKNOWN", "UNAVAILABLE"} /\ CanVerify(tab)
  /\ Page(Verifying(tab, "none"))

Hide == Turn(Quarantined(tab))

(* The page is put away: nothing of it may come back with it.              *)
PageHide == Turn(Erased(tab))

(* To leave, drafts are kept or, when nothing of them is under way, some    *)
(* are discarded.                                                           *)
Leave(route, D) ==
  /\ Visible(tab) /\ tab.leaving = NoRoute /\ route # tab.here
  /\ D \subseteq tab.shown \cap UnsavedIn(tab)
  /\ \A d \in D : tab.records[d].phase # "PENDING"
  /\ Turn(LeavingFor(Discarded(tab, D), route))

Arrive ==
  /\ tab.leaving # NoRoute
  /\ Page([tab EXCEPT !.here = tab.leaving, !.leaving = NoRoute,
                      !.resource = NoResource, !.shown = {}])

Back(route) ==
  /\ route # tab.here
  /\ Turn([Quarantined(tab) EXCEPT !.here = route])

(* A route that is observed ends what belongs to the former: drafts with    *)
(* nothing to save, and what was verified.                                  *)
RouteChanged ==
  LET kept == Discarded(tab, Kind \ UnsavedIn(tab))
      t == [kept EXCEPT !.observed = tab.here, !.undisturbed = {}, !.unmoved = {}]
  IN  /\ tab.observed # tab.here
      /\ IF t.identity = NoSession /\ t.auth # "CHECKING" THEN Page(t)
         ELSE /\ Free(t) # {} \/ ~Staff(t.here)
              /\ Page(VerifyingAfresh(t))

SignIn(s) ==
  /\ tab.here = "login" \/ tab.auth = "DENIED"
  /\ sessions[s] = "unborn"
  /\ sessions' = [sessions EXCEPT ![s] = "live"]
  /\ cookie' = s
  /\ NewDocument("agenda")
  /\ UNCHANGED <<reservation, saved, using, events>>

(* With nothing to lose the form is sent as a form.                        *)
LogoutByForm ==
  /\ Staff(tab.here) /\ ~tab.logout.asked
  /\ UnsavedIn(tab) = {}
  /\ sessions' = [s \in Session |-> IF s = cookie THEN "ended" ELSE sessions[s]]
  /\ cookie' = NoSession
  /\ NewDocument("login")
  /\ UNCHANGED <<reservation, saved, using, events>>

Logout ==
  /\ Staff(tab.here) /\ ~tab.logout.asked
  /\ UnsavedIn(tab) # {}
  /\ Page([Quarantined(tab) EXCEPT
             !.logout = [asked |-> TRUE, carried |-> cookie, reply |-> Nothing, owned |-> TRUE]])

(* Whether the page leaves for the login depends on where it went          *)
(* meanwhile.  A logout of a former epoch has nothing of this to erase.    *)
LogoutAnswered ==
  LET t == [tab EXCEPT !.logout = NoLogout] IN
  /\ tab.logout.reply # Nothing
  /\ \/ /\ tab.logout.reply.is = "ok" /\ tab.logout.owned
        /\ \/ Page(Erased(t))
           \/ Staff(tab.here) /\ NewDocument("login") /\ UNCHANGED Surroundings
     \/ /\ tab.logout.reply.is = "ok" /\ ~tab.logout.owned
        /\ Free(t) # {} \/ ~Staff(t.here)
        /\ Page(VerifyingAfresh(t))
     \/ /\ tab.logout.reply = Down
        /\ Page(IF tab.logout.owned THEN Unavailable(t) ELSE t)

(* The server names the session, or refuses, or cannot be reached.  Who    *)
(* waits for it goes on at once.                                           *)
Waiting(p) == {i \in DOMAIN attempts : attempts[i].stage = "verify" /\ attempts[i].proof = p}

Ended(S) ==
  attempts' = [i \in DOMAIN attempts |->
    IF i \notin S THEN attempts[i]
    ELSE [attempts[i] EXCEPT
            !.stage = "done", !.carried = NoSession, !.proof = NoProof,
            !.reply = IF i \in tab'.waiting THEN @ ELSE Nothing]]

Resumed(t, d) ==
  IF d = "none" \/ ~Unsaved(t.records[d]) THEN t
  ELSE IF d = "PHONE" THEN [t EXCEPT !.shown = @ \cup {d}]
  ELSE IF Authentic(cookie)
         THEN [t EXCEPT !.resource = reservation, !.shown = @ \cup {d}]
       ELSE Erased(t)

Heard(p) == [tab EXCEPT !.proofs[p] = NoCall, !.flight = IF @ = p THEN NoProof ELSE @]

Holds(p) ==
  LET call == tab.proofs[p] IN
  call.reply.is = "session" /\ ~Stale(tab, p) /\ call.route = tab.here

Verified(p) ==
  LET call == tab.proofs[p] IN
  Resumed(AllNow(Recognised(Heard(p), call.reply.who, call.route), Waiting(p)),
          call.resumes)

NotVerified(p) ==
  LET call == tab.proofs[p]
      t == Heard(p)
  IN  Kept(IF Stale(tab, p) THEN t
           ELSE IF call.reply = Down THEN Unavailable(t)
           ELSE IF call.route # tab.here THEN t
           ELSE Erased(t), Waiting(p))

(* Who waits for the proof hears of it with the page: "t" is the page.     *)
Concludes(p, t) ==
  /\ tab.proofs[p].reply # Nothing
  /\ tab' = t
  /\ Ended(Waiting(p))
  /\ UNCHANGED Surroundings

Proved(p) == Holds(p) /\ Concludes(p, Verified(p))
NotProved(p) == ~Holds(p) /\ Concludes(p, NotVerified(p))

-----------------------------------------------------------------------------
(* The page: drafts.                                                        *)
Editable(d) ==
  /\ d \in using /\ Visible(tab) /\ tab.here = "form" /\ tab.observed = "form"
  /\ d # "PHONE" => tab.resource # NoResource
  /\ d = "ROOM" => ~tab.resource.cancelled

(* The reservation is read when it is not there, or again.  The session of *)
(* the cookie may have ended since it was verified.                         *)
Read ==
  /\ using \cap {"EDIT", "ROOM"} # {} /\ Visible(tab) /\ tab.here = "form" /\ tab.observed = "form"
  /\ tab.resource # reservation
  /\ \A d \in using \ {"PHONE"} : tab.records[d].phase # "PENDING"
  /\ Page(IF Authentic(cookie) THEN [tab EXCEPT !.resource = reservation] ELSE Erased(tab))

Unedited(d) ==
  CASE d = "PHONE" -> [day |-> FirstDay, room |-> NoRoom]
    [] d = "EDIT"  -> [day |-> tab.resource.day, room |-> NoRoom]
    [] d = "ROOM"  -> [day |-> tab.resource.day, room |-> tab.resource.room]

(* An instance is named after the first attempt it may make.               *)
Initialised(d) ==
  [phase |-> "CLEAN", of |-> tab.identity, instance |-> Len(attempts) + 1,
   values |-> Unedited(d), baseline |-> Unedited(d),
   base |-> IF d = "PHONE" THEN 0 ELSE tab.resource.version,
   attempt |-> 0, retry |-> 0]

(* A draft with something to save comes back only when asked for.          *)
Open(d) ==
  /\ Editable(d) /\ d \notin tab.shown
  /\ ~Unsaved(tab.records[d])
  /\ Page([tab EXCEPT !.shown = @ \cup {d},
                      !.records[d] = IF @ = NoDraft THEN Initialised(d) ELSE @])

Resume(d) ==
  /\ Editable(d) /\ d \notin tab.shown /\ Free(tab) # {}
  /\ Unsaved(tab.records[d])
  /\ Page(Verifying(tab, d))

Retyped(r, values) ==
  [r EXCEPT !.values = values, !.phase = IF values = r.baseline THEN "CLEAN" ELSE "DIRTY"]

Typings(d) ==
  IF d = "ROOM" THEN {[tab.records[d].values EXCEPT !.room = r] : r \in Room}
  ELSE {[tab.records[d].values EXCEPT !.day = x] : x \in Day}

Type(d) ==
  /\ d \in tab.shown /\ Visible(tab)
  /\ tab.records[d].phase # "PENDING"
  /\ d = "EDIT" => ~tab.resource.cancelled
  /\ d = "ROOM" => tab.records[d].phase \notin {"DIRTY_CONFLICT", "CONFIRMED"}
  /\ \E values \in Typings(d) \ {tab.records[d].values} :
       Page([tab EXCEPT !.records[d] = Retyped(@, values)])

(* After a refusal the reservation, read again, becomes the new base; what *)
(* was typed is applied again or given up.                                 *)
Review(d, keep) ==
  /\ d \in tab.shown \ {"PHONE"} /\ Visible(tab)
  /\ tab.records[d].phase \in {"DIRTY_CONFLICT", "ERROR"}
  /\ d = "EDIT" => ~tab.resource.cancelled
  /\ LET typed == tab.records[d].values
         values == IF ~keep THEN Unedited(d)
                   ELSE IF d = "EDIT" THEN [Unedited(d) EXCEPT !.day = typed.day]
                   ELSE [Unedited(d) EXCEPT !.room = typed.room]
     IN  Page([tab EXCEPT !.records[d] =
                 Retyped([@ EXCEPT !.baseline = Unedited(d), !.base = tab.resource.version,
                                   !.attempt = 0], values)])

(* The key of an attempt: that of the last one, if it asked for the same.  *)
RetryOf(r) == IF r.retry # 0 /\ attempts[r.retry].values = r.values
                THEN attempts[r.retry].key ELSE Len(attempts) + 1

SubmitDraft(d) ==
  LET r == tab.records[d]
      i == Len(attempts) + 1
  IN  /\ i <= MaxAttempts /\ Event
      /\ d \in tab.shown /\ Visible(tab)
      /\ r.phase # "PENDING"
      /\ d = "EDIT" => ~tab.resource.cancelled
      /\ d = "ROOM" => /\ r.phase \notin {"DIRTY_CONFLICT", "ERROR"}
                       /\ r.values.room # NoRoom
      /\ attempts' = Append(attempts,
           [draft |-> d, of |-> r.of, instance |-> r.instance, base |-> r.base,
            values |-> r.values, key |-> RetryOf(r), stage |-> "proof",
            carried |-> cookie, reply |-> Nothing, proof |-> NoProof])
      /\ tab' = [tab EXCEPT
           !.records[d] = [r EXCEPT !.phase = "PENDING", !.attempt = i,
                                    !.retry = IF d = "PHONE" THEN i ELSE @],
           !.owned = @ \cup {i}, !.undisturbed = @ \cup {i},
           !.unmoved = @ \cup {i}]
      /\ UNCHANGED Outside

(* The page asks the server for more, with the cookie of the moment.       *)
Asks(i, stage) ==
  attempts' = [attempts EXCEPT ![i].stage = stage, ![i].carried = cookie, ![i].reply = Nothing]

Ends(i, t) == tab' = t /\ Ended({i}) /\ UNCHANGED Surroundings

(* The session is checked once more before anything is sent.               *)
Checked(i) ==
  LET a == attempts[i] IN
  /\ a.stage = "proof" /\ a.reply # Nothing
  /\ \/ /\ a.reply = Down
        /\ Ends(i, RejectedUnchecked(tab, i))
     \/ /\ ~CurrentAttempt(tab, i)
        /\ Ends(i, Rejected(tab, i))
     \/ /\ CurrentAttempt(tab, i) /\ a.reply = Denied
        /\ Ends(i, Erased(tab))
     \/ /\ CurrentAttempt(tab, i) /\ a.reply.is = "session" /\ a.reply.who # a.of
        /\ Ends(i, [Authorized(Erased(tab), a.reply.who) EXCEPT !.authorized = tab.here])
     \/ /\ CurrentAttempt(tab, i) /\ a.reply.is = "session" /\ a.reply.who = a.of
        /\ IF a.draft = "PHONE"
             THEN Asks(i, "save") /\ UNCHANGED tab
           ELSE Asks(i, "reread") /\ tab' = [tab EXCEPT !.rereads = @ \cup {i}]
        /\ UNCHANGED Surroundings

(* A room is not given on a day, or to a version, other than it was chosen *)
(* for.                                                                    *)
RoomOvertaken(i, row) ==
  /\ attempts[i].draft = "ROOM"
  /\ \/ row.day # attempts[i].values.day
     \/ row.version # attempts[i].base /\ row.room # attempts[i].values.room

Reread(i) ==
  LET a == attempts[i]
      t == [tab EXCEPT !.rereads = @ \ {i}]
      read == [t EXCEPT !.resource = a.reply.row]
      fresh == CurrentAttempt(tab, i) /\ i \in tab.rereads
  IN  /\ a.stage = "reread" /\ a.reply # Nothing
      /\ \/ a.reply = Down /\ Ends(i, RejectedUnchecked(t, i))
         \/ ~fresh /\ Ends(i, Rejected(t, i))
         \/ fresh /\ a.reply = Denied /\ Ends(i, Erased(t))
         \/ /\ fresh /\ a.reply.is = "read"
            /\ IF a.reply.row.cancelled THEN Ends(i, Rejected(read, i))
               ELSE IF RoomOvertaken(i, a.reply.row)
                 THEN Ends(i, [read EXCEPT !.records[a.draft] = WithPhase(@, "DIRTY_CONFLICT")])
               ELSE Asks(i, "save") /\ tab' = read /\ UNCHANGED Surroundings

(* The answer of the save.  Who comes under another session loses what     *)
(* belongs to this one; any other outcome waits for a verified session.    *)
SaveTurned(i) ==
  /\ attempts[i].stage = "save" /\ attempts[i].reply.is \in {"denied", "mismatch"}
  /\ Ends(i, IF Owns(tab, i) THEN Erased(tab) ELSE tab)

SaveAnswered(i) ==
  LET a == attempts[i] IN
  /\ a.stage = "save" /\ a.reply.is \in {"saved", "conflict", "down"}
  /\ IF Visible(tab) THEN Ends(i, SettledNow(tab, i))
     ELSE IF ~Staff(tab.here) THEN Ends(i, Kept(tab, {i}))
     ELSE LET t == Verifying(tab, "none") IN
          /\ CanVerify(tab)
          /\ tab' = t
          /\ attempts' = [attempts EXCEPT ![i].stage = "verify", ![i].proof = t.flight]
          /\ UNCHANGED Surroundings

-----------------------------------------------------------------------------
(* What does not conclude a proof, nor puts the page away.                 *)
Otherwise ==
  \/ \E p \in Proof : AnswerProof(p)
  \/ \E i \in DOMAIN attempts :
       \/ AnswerCheck(i) \/ Checked(i)
       \/ AnswerReread(i) \/ Reread(i)
       \/ SaveRefused(i) \/ SavePhone(i) \/ SaveEdit(i) \/ SaveRoom(i)
       \/ SaveTurned(i) \/ SaveAnswered(i)
  \/ \E s \in Session : SignInElsewhere(s) \/ SessionEnds(s) \/ SignIn(s)
  \/ LogoutElsewhere \/ ChangedElsewhere
  \/ Logout \/ LogoutByForm \/ AnswerLogout \/ LogoutAnswered
  \/ Foreground \/ Verify \/ Hide
  \/ \E route \in Route : Back(route)
  \/ \E route \in {"agenda", "form"}, D \in SUBSET Kind : Leave(route, D)
  \/ Arrive \/ RouteChanged
  \/ Read
  \/ \E d \in using : Open(d) \/ Resume(d) \/ Type(d) \/ SubmitDraft(d)
  \/ \E d \in using, keep \in BOOLEAN : Review(d, keep)

DraftNext == (\E p \in Proof : Proved(p) \/ NotProved(p)) \/ PageHide \/ Otherwise

DraftSpec == DraftInit /\ [][DraftNext]_draftVars

-----------------------------------------------------------------------------
Values == [day : Day, room : Room \cup {NoRoom}]

Draft ==
  {NoDraft} \cup
  [phase : {"CLEAN", "DIRTY", "PENDING", "DIRTY_CONFLICT", "ERROR", "CONFIRMED"},
   of : Session, instance : 1..MaxAttempts + 1, values : Values, baseline : Values,
   base : Nat, attempt : 0..MaxAttempts, retry : 0..MaxAttempts]

Attempt ==
  [draft : Kind, of : Session, instance : 1..MaxAttempts, base : Nat, values : Values,
   key : 1..MaxAttempts,
   stage : {"proof", "reread", "save", "orphan", "verify", "done"},
   carried : Session \cup {NoSession}, proof : Proof \cup {NoProof},
   reply : [is : {"none", "down", "denied", "mismatch", "conflict"}]
           \cup [is : {"session"}, who : Session]
           \cup [is : {"saved"}, version : Nat]
           \cup [is : {"read"}, row : [version : Nat, day : Day,
                                    room : Room \cup {NoRoom}, cancelled : BOOLEAN]]]

(* Drafts are drafts of the session that is shown, editors show drafts,    *)
(* and what is in flight was asked.                                        *)
DraftsTyped ==
  /\ cookie \in Session \cup {NoSession}
  /\ sessions \in [Session -> {"unborn", "live", "ended"}]
  /\ saved \in [1..MaxAttempts -> Session \cup {NoSession}]
  /\ Len(attempts) <= MaxAttempts
  /\ \A i \in DOMAIN attempts : attempts[i] \in Attempt
  /\ tab.auth \in {"UNKNOWN", "CHECKING", "AUTHORIZED", "DENIED", "UNAVAILABLE"}
  /\ tab.records \in [Kind -> Draft]
  /\ \A d \in Kind : tab.records[d] # NoDraft => tab.records[d].of = tab.identity
  /\ tab.owned \subseteq DOMAIN attempts /\ tab.undisturbed \subseteq tab.unmoved
  /\ tab.unmoved \subseteq tab.owned
  /\ tab.waiting \subseteq tab.owned
  /\ tab.flight # NoProof => tab.proofs[tab.flight] # NoCall
  /\ \A d \in tab.shown : Visible(tab) /\ tab.records[d] # NoDraft
  /\ events \in 0..MaxEvents
  /\ tab.here \in Route /\ tab.observed \in Route /\ tab.leaving \in Route \cup {NoRoute}

(* What was written in one session is never saved under another, whatever  *)
(* other tabs did to the cookie since it was checked.                      *)
CommittedByOwner ==
  \A i \in DOMAIN attempts : saved[i] # NoSession => saved[i] = attempts[i].of

(* A draft that is locked will be let go: its submit is under way, or its  *)
(* outcome waits for the next verified session.                            *)
PendingIsBeingServed ==
  \A d \in Kind :
    LET r == tab.records[d] IN
    r.phase = "PENDING" => attempts[r.attempt].stage # "done" \/ r.attempt \in tab.waiting

(* The session of the page is over, or another one has taken its place.    *)
Over(s) == cookie # s \/ sessions[s] # "live"

ByHand(d) ==
  \/ Type(d) \/ \E keep \in BOOLEAN : Review(d, keep)
  \/ \E route \in Route, D \in SUBSET Kind : d \in D /\ Leave(route, D)
  \/ PageHide \/ \E s \in Session : SignIn(s)

Saved(d) ==
  LET r == tab.records[d] IN
  \E i \in DOMAIN attempts : /\ attempts[i].draft = d /\ attempts[i].instance = r.instance
                             /\ attempts[i].values = r.values
                             /\ saved[i] # NoSession

(* What was typed stays until it is saved, changed or discarded by hand,   *)
(* or its session is over: no late, repeated or misdirected answer ends it *)
(* before.                                                                 *)
NothingTypedIsLost ==
  [][\A d \in Kind :
       Unsaved(tab.records[d]) =>
         \/ /\ tab'.records[d] # NoDraft
            /\ tab'.records[d].values = tab.records[d].values
         \/ Over(tab.identity) \/ Saved(d) \/ ByHand(d)]_draftVars
==============================================================================
