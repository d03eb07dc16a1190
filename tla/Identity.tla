------------------------------- MODULE Identity -------------------------------
(***************************************************************************)
(* Staff accounts and their sessions.  Administrators create users, change *)
(* their roles, disable them and reset their passwords, everybody signs    *)
(* in, signs out and changes the own password, all at once.  Each request  *)
(* is first let in by the session it carries, then runs a SERIALIZABLE     *)
(* transaction that checks again who asks; it is tried again only when the *)
(* conflict comes back under the one error code the code looks for.        *)
(***************************************************************************)
EXTENDS RequestLimits, SerializableSnapshots, FiniteSets

CONSTANTS
  User, NoUser,
  Session,       \* identifiers of sessions
  Client,        \* requests in flight
  Start,         \* the users at the start
  SignedIn,      \* the sessions at the start
  Ask,           \* what may be asked: kind, target and value
  TimeToLive,    \* of a session
  MaxAttempts,   \* transactions a request is given
  MaxPassword,   \* bound: passwords a user ever has
  MaxRequests,   \* bound: requests sent
  Horizon        \* bound: the last instant

VARIABLES
  user, session, limit,  \* the committed tables
  now,
  log,                   \* commits a running transaction may overlap
  pc, req, snap, tries,  \* a client's request and transaction
  holder,                \* the client that holds the lifecycle lock, if any
  sent,
  guesses                \* failures since a success last cleared the limit

vars == <<user, session, limit, now, log, pc, req, snap, tries, holder, sent, guesses>>

Role == {"ADMIN", "STAFF"}

UserRow == [exists : BOOLEAN, role : Role, active : BOOLEAN,
            mustChange : BOOLEAN, password : 0..MaxPassword]

(* Beside its owner and its end, a session is kept here with the role and  *)
(* the password of the login it comes from, which the program does not.    *)
SessionRow == [user : User \cup {NoUser}, live : BOOLEAN, until : Nat,
               role : Role, password : 0..MaxPassword]

NoSession == [user |-> NoUser, live |-> FALSE, until |-> 0,
              role |-> "STAFF", password |-> 0]

Kind == {"login", "logout", "create", "role", "status", "reset", "password"}

AdminKind == {"create", "role", "status", "reset"}

(* Requests that take the lifecycle lock before they read.                 *)
Locking == {"role", "status"}

ASSUME IdentityAssumption ==
  /\ IsFiniteSet(User)
  /\ NoUser \notin User
  /\ Start \in [User -> UserRow]
  /\ SignedIn \in [Session -> SessionRow]
  /\ \E u \in User : /\ Start[u].exists /\ Start[u].active
                     /\ Start[u].role = "ADMIN"
  /\ \A s \in Session :
       SignedIn[s].live =>
         LET s0 == SignedIn[s] IN
         /\ s0.user \in User
         /\ Start[s0.user].exists /\ Start[s0.user].active
         /\ Start[s0.user].role = s0.role
         /\ Start[s0.user].password = s0.password
  /\ \A a \in Ask : /\ a.kind \in Kind /\ a.target \in User
                    /\ a.kind \in {"create", "role"} => a.value \in Role
                    /\ a.kind = "status" => a.value \in BOOLEAN
  /\ MaxAttempts \in Nat \ {0}
  /\ TimeToLive \in Nat \ {0}
  /\ MaxPassword \in Nat /\ MaxRequests \in Nat /\ Horizon \in Nat

Ready(kind, actor, target, value) ==
  [kind |-> kind, actor |-> actor, target |-> target, value |-> value,
   at |-> now]

NoRequest == [kind |-> "login", actor |-> NoUser, target |-> NoUser,
              value |-> 0, at |-> 0]

Tables == [user |-> user, session |-> session, limit |-> limit,
           since |-> Len(log)]

NoSnapshot == [user |-> Start, session |-> SignedIn,
               limit |-> [u \in User |-> NoLimit], since |-> 0]

-----------------------------------------------------------------------------
(* A transaction on the tables S of its snapshot.                          *)

Active(S, u) == S.user[u].exists /\ S.user[u].active

FreshAdmin(S, u) ==
  Active(S, u) /\ S.user[u].role = "ADMIN" /\ ~S.user[u].mustChange

(* Those who wait for a new password count as administrators.              *)
ActiveAdmins(S) == {u \in User : Active(S, u) /\ S.user[u].role = "ADMIN"}

(* Never found where it is asked: whoever asks is an active administrator  *)
(* on the same snapshot, and is not u.                                     *)
LastAdmin(S, u) == u \in ActiveAdmins(S) /\ Cardinality(ActiveAdmins(S)) <= 1

LoginAnswer(S, q) ==
  CASE ~LoginAllowed(S.limit[q.target], q.at) -> "RATE_LIMITED"
    [] LoginAllowed(S.limit[q.target], q.at)
         /\ Active(S, q.target)
         /\ S.user[q.target].password = q.value -> "SUCCESS"
    [] OTHER -> "INVALID"

RoleAnswer(S, q) ==
  CASE S.user[q.target].role = q.value           -> "UNCHANGED"
    [] q.target = q.actor /\ q.value = "STAFF"   -> "SELF_PROTECTED"
    [] q.target # q.actor /\ q.value = "STAFF" /\ LastAdmin(S, q.target)
                                                 -> "LAST_ADMIN"
    [] OTHER                                     -> "CHANGED"

StatusAnswer(S, q) ==
  CASE S.user[q.target].active = q.value         -> "UNCHANGED"
    [] q.target = q.actor /\ ~q.value            -> "SELF_PROTECTED"
    [] q.target # q.actor /\ ~q.value /\ LastAdmin(S, q.target)
                                                 -> "LAST_ADMIN"
    [] OTHER                                     -> "CHANGED"

(* The user of a personal change is verified a second time, on the         *)
(* snapshot.                                                               *)
PasswordAnswer(S, q) ==
  IF Active(S, q.actor) /\ S.user[q.actor].password = q.value
    THEN "CHANGED" ELSE "CURRENT_PASSWORD_INVALID"

ResetAnswer(q) == IF q.target = q.actor THEN "SELF_PROTECTED" ELSE "CHANGED"

CreateAnswer(S, q) == IF S.user[q.target].exists THEN "DUPLICATE" ELSE "CREATED"

AdminAnswer(S, q) ==
  CASE ~FreshAdmin(S, q.actor)                   -> "FORBIDDEN"
    [] FreshAdmin(S, q.actor) /\ q.kind = "create" ->
         CreateAnswer(S, q)
    [] FreshAdmin(S, q.actor) /\ q.kind # "create"
         /\ ~S.user[q.target].exists             -> "NOT_FOUND"
    [] OTHER ->
         CASE q.kind = "role"   -> RoleAnswer(S, q)
           [] q.kind = "status" -> StatusAnswer(S, q)
           [] q.kind = "reset"  -> ResetAnswer(q)

Answer(S, q) ==
  CASE q.kind = "login"       -> LoginAnswer(S, q)
    [] q.kind = "password"    -> PasswordAnswer(S, q)
    [] q.kind \in AdminKind   -> AdminAnswer(S, q)

(* Everything else is thrown, and rolls the transaction back.              *)
Commits == {"SUCCESS", "INVALID", "RATE_LIMITED", "UNCHANGED", "CREATED",
            "CHANGED"}

(* The user a change leaves behind.  A new password is one nobody had.     *)
ChangedUser(S, q) ==
  LET was == S.user[q.target] IN
  CASE q.kind = "create"   -> [exists |-> TRUE, role |-> q.value,
                               active |-> TRUE, mustChange |-> TRUE,
                               password |-> was.password + 1]
    [] q.kind = "role"     -> [was EXCEPT !.role = q.value]
    [] q.kind = "status"   -> [was EXCEPT !.active = q.value]
    [] q.kind = "reset"    -> [was EXCEPT !.mustChange = TRUE,
                                          !.password = @ + 1]
    [] q.kind = "password" -> [was EXCEPT !.mustChange = FALSE,
                                          !.password = @ + 1]

(* Mutant: a new role leaves the sessions of the old one alone.            *)
RevokesSparingRoles(q) ==
  q.kind \in {"reset", "password"} \/ (q.kind = "status" /\ ~q.value)

(* Enabling a user is the one change that revokes nothing.                 *)
Revokes(q) ==
  q.kind \in {"role", "reset", "password"} \/ (q.kind = "status" /\ ~q.value)

Revoked(S, q) ==
  IF Revokes(q) THEN {s \in Session : S.session[s].user = q.target
                                      /\ S.session[s].live}
  ELSE {}
-----------------------------------------------------------------------------
(* What the transaction read and wrote.  Users, limits and sessions are    *)
(* rows; the sessions of a user, the active administrators and the limit   *)
(* looked for by its key are predicates, which only SERIALIZABLE watches.  *)

UserItem(u)     == <<"user", u>>
LimitItem(u)    == <<"limit", u>>
KeyItem(u)      == <<"limit by key", u>>
SessionItem(s)  == <<"session", s>>
SessionsItem(u) == <<"sessions of", u>>
AdminsItem      == <<"active", "administrators">>

Reads(S, q) ==
  CASE q.kind = "login"    -> {KeyItem(q.target), UserItem(q.target)}
    [] q.kind = "password" -> {UserItem(q.actor), SessionsItem(q.actor)}
    [] q.kind \in AdminKind ->
         {UserItem(q.actor), UserItem(q.target)}
           \cup (IF Answer(S, q) = "CHANGED" /\ Revokes(q)
                   THEN {SessionsItem(q.target)} ELSE {})
           \cup (IF q.kind \in Locking /\ q.target \in ActiveAdmins(S)
                   THEN {AdminsItem} ELSE {})

Writes(S, q) ==
  CASE Answer(S, q) = "SUCCESS" ->
         {SessionsItem(q.target)}
           \cup (IF S.limit[q.target] = NoLimit THEN {}
                 ELSE {LimitItem(q.target), KeyItem(q.target)})
    [] Answer(S, q) = "INVALID" -> {LimitItem(q.target), KeyItem(q.target)}
    [] Answer(S, q) \in {"CREATED", "CHANGED"} ->
         {UserItem(q.target)} \cup {SessionItem(s) : s \in Revoked(S, q)}
           \cup (IF q.kind \in {"create", "role", "status"}
                   THEN {AdminsItem} ELSE {})
    [] OTHER -> {}

Entry(c) == [since |-> snap[c].since, reads |-> Reads(snap[c], req[c]),
             writes |-> Writes(snap[c], req[c])]

Rows == {UserItem(u) : u \in User} \cup {LimitItem(u) : u \in User}
          \cup {SessionItem(s) : s \in Session}

Overwrites(c) == Overwritten(log, snap[c].since, Entry(c).writes \cap Rows)

(* Mutant: REPEATABLE READ.                                                *)
ConflictsOfWriters(c) == Overwrites(c)

Conflicts(c) == Overwrites(c) \/ Dangerous(Append(log, Entry(c)))

-----------------------------------------------------------------------------
Running(c) == pc[c] = "running"

(* Commits are remembered for as long as somebody may overlap them.        *)
Logged(c, L) ==
  log' = IF \E d \in Client \ {c} : Running(d) THEN L ELSE << >>

Init ==
  /\ user = Start
  /\ session = SignedIn
  /\ limit = [u \in User |-> NoLimit]
  /\ now = 0
  /\ log = << >>
  /\ pc = [c \in Client |-> "idle"]
  /\ req = [c \in Client |-> NoRequest]
  /\ snap = [c \in Client |-> NoSnapshot]
  /\ tries = [c \in Client |-> 0]
  /\ holder = {}
  /\ sent = 0
  /\ guesses = [u \in User |-> << >>]

Tick ==
  /\ now < Horizon
  /\ now' = now + 1
  /\ UNCHANGED <<user, session, limit, log, pc, req, snap, tries, holder,
                 sent, guesses>>

Sends(c) == pc[c] = "idle" /\ sent < MaxRequests

Arrives(c, q) ==
  /\ sent' = sent + 1
  /\ pc' = [pc EXCEPT ![c] = "ready"]
  /\ req' = [req EXCEPT ![c] = q]
  /\ tries' = [tries EXCEPT ![c] = 0]
  /\ UNCHANGED <<user, now, snap, holder, guesses>>

Expired == {u \in User : limit[u] # NoLimit /\ limit[u].expires <= now}

(* A login first clears the expired limits, in a transaction that is not   *)
(* SERIALIZABLE, then reads the clock.  The password is the one the user   *)
(* has, or none that anybody ever has.                                     *)
AskLogin(c) ==
  /\ Sends(c)
  /\ \E a \in Ask :
       /\ a.kind = "login"
       /\ Arrives(c, Ready("login", NoUser, a.target,
                           IF a.value = "known" THEN user[a.target].password
                           ELSE MaxPassword + 1))
  /\ limit' = [u \in User |-> IF u \in Expired THEN NoLimit ELSE limit[u]]
  /\ Logged(c, IF Expired = {} THEN log
               ELSE Append(log, [since |-> Len(log), reads |-> {},
                                 writes |-> {LimitItem(u) : u \in Expired}]))
  /\ UNCHANGED session

Valid(s) ==
  /\ session[s].live
  /\ now < session[s].until
  /\ user[session[s].user].active

(* Administration asks for a session of an administrator who is not to     *)
(* change the password first, and the service then reads the clock.        *)
AskAdmin(c) ==
  /\ Sends(c)
  /\ \E a \in Ask, s \in Session :
       /\ a.kind \in AdminKind
       /\ Valid(s)
       /\ user[session[s].user].role = "ADMIN"
       /\ ~user[session[s].user].mustChange
       /\ Arrives(c, Ready(a.kind, session[s].user, a.target, a.value))
  /\ Logged(c, log)
  /\ UNCHANGED <<session, limit>>

(* The own password: the current one is verified before the new one is     *)
(* hashed.                                                                 *)
AskPassword(c) ==
  /\ Sends(c)
  /\ \E a \in Ask, s \in Session :
       /\ a.kind = "password"
       /\ Valid(s)
       /\ session[s].user = a.target
       /\ Arrives(c, Ready("password", a.target, a.target,
                           user[a.target].password))
  /\ Logged(c, log)
  /\ UNCHANGED <<session, limit>>

(* Signing out ends the session the cookie names, if it is live, whatever  *)
(* its age.  This transaction is not SERIALIZABLE.                         *)
Logout(c) ==
  /\ Sends(c)
  /\ \E a \in Ask, s \in Session :
       /\ a.kind = "logout"
       /\ session[s].user = a.target
       /\ session[s].live
       /\ session' = [session EXCEPT ![s].live = FALSE]
       /\ Logged(c, Append(log, [since |-> Len(log), reads |-> {},
                                 writes |-> {SessionItem(s)}]))
  /\ sent' = sent + 1
  /\ UNCHANGED <<user, limit, now, pc, req, snap, tries, holder,
                 guesses>>

(* The first statement fixes the snapshot; for a change of role or status  *)
(* it is the request for the lifecycle lock, before any wait for it.       *)
Begin(c) ==
  /\ pc[c] = "ready"
  /\ pc' = [pc EXCEPT ![c] = "running"]
  /\ snap' = [snap EXCEPT ![c] = Tables]
  /\ tries' = [tries EXCEPT ![c] = @ + 1]
  /\ UNCHANGED <<user, session, limit, now, log, req, holder, sent,
                 guesses>>

Acquire(c) ==
  /\ Running(c) /\ req[c].kind \in Locking
  /\ holder = {}
  /\ holder' = {c}
  /\ UNCHANGED <<user, session, limit, now, log, pc, req, snap, tries, sent, guesses>>

MayEnd(c) == Running(c) /\ (req[c].kind \in Locking => c \in holder)

End(c, where) ==
  /\ pc' = [pc EXCEPT ![c] = where]
  /\ snap' = [snap EXCEPT ![c] = NoSnapshot]
  /\ holder' = holder \ {c}
  /\ req' = IF where = "idle" THEN [req EXCEPT ![c] = NoRequest] ELSE req
  /\ UNCHANGED <<now, tries, sent>>

Opened(S, q) ==
  [user |-> q.target, live |-> TRUE, until |-> q.at + TimeToLive,
   role |-> S.user[q.target].role, password |-> q.value]

(* A success removes the limit it sees, if it sees one.                    *)
Clears(S, q) == Answer(S, q) = "SUCCESS" /\ S.limit[q.target] # NoLimit

Guess(asked, answered) == [asked |-> asked, answered |-> answered]

(* A login commits its answer: the limit goes with a success and grows     *)
(* with a failure.                                                         *)
CommitLogin(c) ==
  LET S == snap[c]
      q == req[c]
      word == Answer(S, q)
  IN  /\ MayEnd(c) /\ q.kind = "login"
      /\ ~Conflicts(c)
      /\ IF word = "SUCCESS"
           THEN \E s \in Session :
                  /\ session[s] = NoSession
                  /\ \A t \in Session : session[t] = NoSession => s <= t
                  /\ session' = [session EXCEPT ![s] = Opened(S, q)]
           ELSE UNCHANGED session
      /\ limit' = [limit EXCEPT ![q.target] =
                     CASE Clears(S, q)      -> NoLimit
                       [] word = "INVALID"  -> Failed(S.limit[q.target], q.at)
                       [] OTHER             -> @]
      /\ guesses' = [guesses EXCEPT ![q.target] =
                       CASE Clears(S, q)     -> << >>
                         [] word = "INVALID" -> Append(@, Guess(q.at, now))
                         [] OTHER            -> @]
      /\ Logged(c, Append(log, Entry(c)))
      /\ End(c, "idle")
      /\ UNCHANGED user

(* A change of a user commits with the sessions it ends and its event.     *)
CommitChange(c) ==
  LET S == snap[c]
      q == req[c]
      word == Answer(S, q)
  IN  /\ MayEnd(c) /\ q.kind # "login"
      /\ word \in {"CREATED", "CHANGED"}
      /\ ~Conflicts(c)
      /\ ChangedUser(S, q).password <= MaxPassword
      /\ user' = [user EXCEPT ![q.target] = ChangedUser(S, q)]
      /\ session' = [s \in Session |->
                       IF s \in Revoked(S, q)
                         THEN [session[s] EXCEPT !.live = FALSE]
                         ELSE session[s]]
      /\ Logged(c, Append(log, Entry(c)))
      /\ End(c, "idle")
      /\ UNCHANGED <<limit, guesses>>

(* A refusal rolls back, a change that changes nothing commits nothing.    *)
Refuse(c) ==
  /\ MayEnd(c)
  /\ req[c].kind # "login"
  /\ Answer(snap[c], req[c]) \notin {"CREATED", "CHANGED"}
  /\ Logged(c, log)
  /\ End(c, "idle")
  /\ UNCHANGED <<user, session, limit, guesses>>

(* PostgreSQL ends a transaction in conflict, and sometimes one that is    *)
(* not.  Tried again at most so often, and only under a code that is       *)
(* recognised.                                                             *)
Abort(c) ==
  /\ Running(c)
  /\ log # << >> \/ \E d \in Client \ {c} : Running(d)
  /\ \/ tries[c] < MaxAttempts /\ End(c, "ready")
     \/ End(c, "idle")
  /\ Logged(c, log)
  /\ UNCHANGED <<user, session, limit, guesses>>

Next ==
  \/ Tick
  \/ \E c \in Client :
       \/ AskLogin(c) \/ AskAdmin(c) \/ AskPassword(c) \/ Logout(c)
       \/ Begin(c) \/ Acquire(c)
       \/ CommitLogin(c) \/ CommitChange(c) \/ Refuse(c) \/ Abort(c)

Spec == Init /\ [][Next]_vars
-----------------------------------------------------------------------------
TypeOK ==
  /\ user \in [User -> UserRow]
  /\ session \in [Session -> SessionRow]
  /\ limit \in [User -> [attempts : 0..MaxFailures, started : 0..Horizon,
                         blocked : 0..(Horizon + BlockTime),
                         expires : 0..(Horizon + BlockTime + FailureWindow)]]
  /\ now \in 0..Horizon
  /\ pc \in [Client -> {"idle", "ready", "running"}]
  /\ tries \in [Client -> 0..MaxAttempts]
  /\ holder \in {{}} \cup {{c} : c \in Client}
  /\ sent \in 0..MaxRequests

(* However many administrators demote or disable each other at once, on    *)
(* snapshots older than the lock they waited for, one is left who is       *)
(* active (identity-service.ts, changeManagedUserRole and -Status).        *)
AnAdminRemains ==
  \E u \in User : user[u].exists /\ user[u].active /\ user[u].role = "ADMIN"

(* A live session was opened with the password and the role its user still *)
(* has, and its user is active: a login that races a reset, a demotion or  *)
(* a disabling does not leave a session behind that outlives it.           *)
LiveSessionsAreCurrent ==
  \A s \in Session :
    session[s].live =>
      LET u == user[session[s].user] IN
      /\ u.exists /\ u.active
      /\ session[s].role = u.role
      /\ session[s].password = u.password

(* What a run of failures that block takes, were they counted alone.       *)
Pause == IF FailureWindow < BlockTime THEN FailureWindow ELSE BlockTime

(* Twice the failures that block take as long as a window or a block, from *)
(* the first that is asked to the last that is answered, whatever the      *)
(* order in which concurrent failures are counted, each with an instant    *)
(* read before its transaction and its retries, whoever clears the row     *)
(* meanwhile because it has expired, and however late a request is.        *)
GuessesAreBounded ==
  \A u \in User : \A n \in 1..Len(guesses[u]) :
    n >= 2 * MaxFailures =>
      \E i \in (n - 2 * MaxFailures + 1)..n :
         guesses[u][i].asked + Pause <= guesses[u][n].answered
==============================================================================
