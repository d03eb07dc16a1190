---------------------------- MODULE Identity_proofs ----------------------------
(***************************************************************************)
(* Theorems of the accounts and sessions, for every set of users, sessions *)
(* and clients, any number of requests at once: an administrator remains,  *)
(* and a live session has the role and the password of its user.  Nothing  *)
(* but the serialization check stands between requests that decide on old  *)
(* snapshots, so the invariant says what the log tells of them: whatever   *)
(* changed under a running transaction was changed by one that read what   *)
(* the running one is about to write.  The guesses of a password are then  *)
(* told from the limits, and an administrator's list of the audit trail    *)
(* from the pages it was read with.                                        *)
(***************************************************************************)
EXTENDS AuditTrail, OperatorTheorems

(* Rows and predicates, and a committed transaction as the log keeps it.   *)
Item == {UserItem(u) : u \in User} \cup {LimitItem(u) : u \in User}
          \cup {KeyItem(u) : u \in User} \cup {SessionItem(s) : s \in Session}
          \cup {SessionsItem(u) : u \in User} \cup {AdminsItem}

Commit == [since : Nat, reads : SUBSET Item, writes : SUBSET Item]

-----------------------------------------------------------------------------
IsAdmin(x) == x.exists /\ x.active /\ x.role = "ADMIN"

(* A limit of as many failures as block is one that blocks to its end.     *)
LimitRow ==
  {l \in [attempts : 0..MaxFailures, started : 0..Horizon,
          blocked : 0..(Horizon + BlockTime),
          expires : 0..(Horizon + BlockTime + FailureWindow)] :
     l.attempts = MaxFailures => l.blocked = l.expires}

Snapshot == [user : [User -> UserRow], session : [Session -> SessionRow],
             limit : [User -> LimitRow], since : Nat]

IsRequest(q) ==
  /\ q.kind \in Kind \ {"logout"}
  /\ q.target \in User
  /\ q.at \in 0..Horizon
  /\ q.kind # "login" => q.actor \in User
  /\ q.kind = "password" => q.actor = q.target
  /\ q.kind \in {"create", "role"} => q.value \in Role
  /\ q.kind = "status" => q.value \in BOOLEAN

(* What the invariants rest on, beside the types: of the tables, and of    *)
(* the requests.                                                           *)
TableShape ==
  /\ user \in [User -> UserRow]
  /\ session \in [Session -> SessionRow]
  /\ limit \in [User -> LimitRow]

ClientShape ==
  /\ now \in 0..Horizon
  /\ pc \in [Client -> {"idle", "ready", "running"}]
  /\ tries \in [Client -> 0..MaxAttempts]
  /\ holder \in {{}} \cup {{c} : c \in Client}
  /\ sent \in 0..MaxRequests
  /\ log \in Seq(Commit)
  /\ snap \in [Client -> Snapshot]
  /\ DOMAIN req = Client
  /\ \A c \in Client : pc[c] # "idle" => IsRequest(req[c])
  /\ \A c \in Client : pc[c] = "ready" => tries[c] < MaxAttempts

LiveAreOwned == \A s \in Session : session[s].live => session[s].user \in User

(* What the log L tells of users U and sessions V that a snapshot S does   *)
(* not show.  Whoever changed an active user read the user's sessions, to  *)
(* end them; whoever took an administrator away read who they are; whoever *)
(* opened a session read its user.                                         *)
Explains(L, S, U, V) ==
  /\ S.since <= Len(L)
  /\ \A u \in User :
       /\ U[u] # S.user[u] => Replaced(L, S.since, UserItem(u))
       /\ U[u] # S.user[u] /\ Active(S, u)
            => Met(L, S.since, UserItem(u), SessionsItem(u))
       /\ IsAdmin(S.user[u]) /\ ~IsAdmin(U[u])
            => Met(L, S.since, UserItem(u), AdminsItem)
  /\ \A s \in Session :
       V[s].live /\ ~(S.session[s].live /\ S.session[s].user = V[s].user)
         => Met(L, S.since, SessionsItem(V[s].user), UserItem(V[s].user))

Explained ==
  \A c \in Client : Running(c) => Explains(log, snap[c], user, session)

(* The inductive invariant.                                                *)
IInv ==
  /\ TableShape
  /\ ClientShape
  /\ LiveAreOwned
  /\ Explained
  /\ AnAdminRemains
  /\ LiveSessionsAreCurrent

(* What a transaction must have read and written for its changes of the    *)
(* tables to be explained to the others.                                   *)
Tells(e, U, V, U2, V2) ==
  /\ \A u \in User :
       U2[u] # U[u] =>
         /\ UserItem(u) \in e.writes
         /\ U[u].exists /\ U[u].active => SessionsItem(u) \in e.reads
         /\ IsAdmin(U[u]) /\ ~IsAdmin(U2[u]) => AdminsItem \in e.reads
  /\ \A s \in Session :
       V2[s].live /\ ~(V[s].live /\ V[s].user = V2[s].user) =>
         /\ SessionsItem(V2[s].user) \in e.writes
         /\ UserItem(V2[s].user) \in e.reads

LEMMA StillExplained ==
  ASSUME NEW L \in Seq(Commit), NEW e \in Commit, NEW S \in Snapshot,
         NEW U, NEW V, NEW U2, NEW V2,
         Explains(L, S, U, V), Tells(e, U, V, U2, V2)
  PROVE  Explains(Append(L, e), S, U2, V2)
<1> DEFINE M == Append(L, e)
           n == S.since
<1>1. n \in Nat /\ n <= Len(L)
  BY DEF Explains, Snapshot
<1>2. n <= Len(M)
  BY <1>1, Appended
<1>3. ASSUME NEW u \in User, U2[u] # S.user[u]
      PROVE  Replaced(M, n, UserItem(u))
  <2>1. CASE U[u] # S.user[u]
    BY <2>1, <1>1, StillReplaced DEF Explains
  <2>2. CASE U[u] = S.user[u]
    BY <2>2, <1>1, <1>3, NowReplaced DEF Tells
  <2> QED
    BY <2>1, <2>2
<1>4. ASSUME NEW u \in User, U2[u] # S.user[u], Active(S, u)
      PROVE  Met(M, n, UserItem(u), SessionsItem(u))
  <2>1. CASE U[u] # S.user[u]
    BY <2>1, <1>1, <1>4, StillMet DEF Explains
  <2>2. CASE U[u] = S.user[u]
    BY <2>2, <1>1, <1>4, NowMet DEF Tells, Active
  <2> QED
    BY <2>1, <2>2
<1>5. ASSUME NEW u \in User, IsAdmin(S.user[u]), ~IsAdmin(U2[u])
      PROVE  Met(M, n, UserItem(u), AdminsItem)
  <2>1. CASE ~IsAdmin(U[u])
    BY <2>1, <1>1, <1>5, StillMet DEF Explains
  <2>2. CASE IsAdmin(U[u])
    <3>1. U2[u] # U[u]
      BY <2>2, <1>5
    <3> QED
      BY <3>1, <2>2, <1>1, <1>5, NowMet DEF Tells
  <2> QED
    BY <2>1, <2>2
<1>6. ASSUME NEW s \in Session, V2[s].live,
             ~(S.session[s].live /\ S.session[s].user = V2[s].user)
      PROVE  Met(M, n, SessionsItem(V2[s].user), UserItem(V2[s].user))
  <2>1. CASE V[s].live /\ V[s].user = V2[s].user
    BY <2>1, <1>1, <1>6, StillMet DEF Explains
  <2>2. CASE ~(V[s].live /\ V[s].user = V2[s].user)
    BY <2>2, <1>1, <1>6, NowMet DEF Tells
  <2> QED
    BY <2>1, <2>2
<1> QED
  BY <1>2, <1>3, <1>4, <1>5, <1>6 DEF Explains

(* A fresh snapshot has nothing to be told.                                *)
LEMMA FreshIsExplained ==
  ASSUME TableShape, ClientShape
  PROVE  Tables \in Snapshot /\ Explains(log, Tables, user, session)
<1>1. Tables \in Snapshot
  BY DEF TableShape, ClientShape, Tables, Snapshot
<1>2. /\ Tables.since = Len(log) /\ Tables.user = user
      /\ Tables.session = session
  BY DEF Tables
<1>3. Len(log) \in Nat
  BY DEF ClientShape
<1> QED
  BY <1>1, <1>2, <1>3 DEF Explains

(* The log is kept as long as somebody else runs.                          *)
LEMMA LogKept ==
  ASSUME NEW c \in Client, NEW L \in Seq(Commit), Logged(c, L)
  PROVE  /\ log' \in Seq(Commit)
         /\ \A d \in Client \ {c} : Running(d) => log' = L
BY DEF Logged

-----------------------------------------------------------------------------
(* The shape of requests and of what they read, write and leave.           *)

LEMMA Constants ==
  /\ MaxFailures \in Nat /\ FailureWindow \in Nat /\ BlockTime \in Nat
  /\ MaxFailures > 0
  /\ MaxAttempts \in Nat /\ MaxAttempts > 0 /\ TimeToLive \in Nat
  /\ MaxPassword \in Nat /\ MaxRequests \in Nat /\ Horizon \in Nat
BY IdentityAssumption, LimitAssumption

LEMMA NoLimitIsALimit == NoLimit \in LimitRow
BY Constants DEF NoLimit, LimitRow

LEMMA NoSnapshotIsOne == NoSnapshot \in Snapshot
BY IdentityAssumption, NoLimitIsALimit DEF NoSnapshot, Snapshot

(* A failure that is counted was allowed, so a limit that blocked is over. *)
LEMMA FailedIsALimit ==
  ASSUME NEW l \in LimitRow, NEW t \in 0..Horizon, LoginAllowed(l, t)
  PROVE  Failed(l, t) \in LimitRow
<1>1. ASSUME ~WindowOver(l, t)
      PROVE  l.attempts < MaxFailures
  BY <1>1, Constants DEF WindowOver, LoginAllowed, LimitRow
<1>2. CASE WindowOver(l, t)
  BY <1>2, Constants DEF Failed, LimitRow
<1>3. CASE ~WindowOver(l, t)
  BY <1>1, <1>3, Constants DEF Failed, LimitRow
<1> QED
  BY <1>2, <1>3

LEMMA WhatIsReadIsAnItem ==
  ASSUME NEW S \in Snapshot, NEW q, IsRequest(q)
  PROVE  Reads(S, q) \subseteq Item
<1>1. /\ UserItem(q.target) \in Item /\ LimitItem(q.target) \in Item
      /\ KeyItem(q.target) \in Item /\ SessionsItem(q.target) \in Item /\ AdminsItem \in Item
  BY DEF IsRequest, Item
<1>2. q.kind # "login" =>
        UserItem(q.actor) \in Item /\ SessionsItem(q.actor) \in Item
  BY DEF IsRequest, Item
<1>3. CASE q.kind = "login"
  <2>1. Reads(S, q) = {KeyItem(q.target), UserItem(q.target)}
    BY <1>3 DEF Reads, AdminKind
  <2> QED
    BY <2>1, <1>1
<1>4. CASE q.kind = "password"
  <2>1. Reads(S, q) = {UserItem(q.actor), SessionsItem(q.actor)}
    BY <1>4 DEF Reads, AdminKind
  <2>2. UserItem(q.actor) \in Item /\ SessionsItem(q.actor) \in Item
    BY <1>2, <1>4
  <2> QED
    BY <2>1, <2>2
<1>5. CASE q.kind \in AdminKind
  <2>1. Reads(S, q) \subseteq {UserItem(q.actor), UserItem(q.target),
                              SessionsItem(q.target), AdminsItem}
    BY <1>5 DEF Reads, AdminKind
  <2>2. q.kind # "login"
    BY <1>5 DEF AdminKind
  <2> QED
    BY <2>1, <2>2, <1>1, <1>2
<1> QED
  BY <1>3, <1>4, <1>5 DEF IsRequest, Kind, AdminKind

LEMMA WhatIsWrittenIsAnItem ==
  ASSUME NEW S \in Snapshot, NEW q, IsRequest(q)
  PROVE  Writes(S, q) \subseteq Item
<1>1. /\ UserItem(q.target) \in Item /\ LimitItem(q.target) \in Item
      /\ KeyItem(q.target) \in Item /\ SessionsItem(q.target) \in Item /\ AdminsItem \in Item
  BY DEF IsRequest, Item
<1>2. {SessionItem(s) : s \in Revoked(S, q)} \subseteq Item
  BY DEF Revoked, Item
<1>3. CASE Answer(S, q) = "SUCCESS"
  BY <1>1, <1>3 DEF Writes
<1>4. CASE Answer(S, q) = "INVALID"
  BY <1>1, <1>4 DEF Writes
<1>5. CASE Answer(S, q) \in {"CREATED", "CHANGED"}
  BY <1>1, <1>2, <1>5 DEF Writes
<1>6. CASE Answer(S, q) \notin {"SUCCESS", "INVALID", "CREATED", "CHANGED"}
  BY <1>6 DEF Writes
<1> QED
  BY <1>3, <1>4, <1>5, <1>6

LEMMA EntryIsACommit ==
  ASSUME ClientShape, NEW c \in Client, Running(c)
  PROVE  Entry(c) \in Commit
<1>1. snap[c] \in Snapshot /\ IsRequest(req[c]) /\ snap[c].since \in Nat
  BY DEF ClientShape, Running, Snapshot
<1> QED
  BY <1>1, WhatIsReadIsAnItem, WhatIsWrittenIsAnItem DEF Entry, Commit

(* A request arrives, and a transaction ends.                              *)
LEMMA ArrivesInShape ==
  ASSUME ClientShape, NEW c \in Client, NEW q, IsRequest(q),
         Sends(c), Arrives(c, q), log' \in Seq(Commit)
  PROVE  ClientShape'
<1> USE Constants
<1>1. /\ now' \in 0..Horizon
      /\ holder' \in {{}} \cup {{d} : d \in Client}
      /\ snap' \in [Client -> Snapshot]
  BY DEF ClientShape, Arrives
<1>2. pc' \in [Client -> {"idle", "ready", "running"}]
  BY DEF ClientShape, Arrives
<1>3. tries' \in [Client -> 0..MaxAttempts]
  BY DEF ClientShape, Arrives
<1>4. sent' \in 0..MaxRequests
  BY DEF ClientShape, Arrives, Sends
<1>5. DOMAIN req' = Client
  BY DEF ClientShape, Arrives
<1>6. \A d \in Client : pc'[d] # "idle" => IsRequest(req'[d])
  <2> TAKE d \in Client
  <2>1. CASE d = c
    BY <2>1 DEF ClientShape, Arrives
  <2>2. CASE d # c
    BY <2>2 DEF ClientShape, Arrives
  <2> QED
    BY <2>1, <2>2
<1>7. \A d \in Client : pc'[d] = "ready" => tries'[d] < MaxAttempts
  BY DEF ClientShape, Arrives
<1> QED
  BY <1>1, <1>2, <1>3, <1>4, <1>5, <1>6, <1>7 DEF ClientShape, IsRequest

LEMMA EndsInShape ==
  ASSUME ClientShape, NEW c \in Client, NEW where \in {"idle", "ready"},
         Running(c), End(c, where), log' \in Seq(Commit),
         where = "ready" => tries[c] < MaxAttempts
  PROVE  ClientShape'
<1> USE Constants
<1>1. /\ now' \in 0..Horizon
      /\ sent' \in 0..MaxRequests
      /\ tries' \in [Client -> 0..MaxAttempts]
  BY DEF ClientShape, End
<1>2. pc' \in [Client -> {"idle", "ready", "running"}]
  BY DEF ClientShape, End
<1>3. snap' \in [Client -> Snapshot]
  BY NoSnapshotIsOne DEF ClientShape, End
<1>4. holder' \in {{}} \cup {{d} : d \in Client}
  BY DEF ClientShape, End
<1>5. DOMAIN req' = Client
  BY DEF ClientShape, End
<1>6. \A d \in Client : pc'[d] # "idle" => IsRequest(req'[d])
  <2> TAKE d \in Client
  <2>1. CASE d = c
    BY <2>1 DEF ClientShape, End, Running
  <2>2. CASE d # c
    BY <2>2 DEF ClientShape, End
  <2> QED
    BY <2>1, <2>2
<1>7. \A d \in Client : pc'[d] = "ready" => tries'[d] < MaxAttempts
  BY DEF ClientShape, End
<1> QED
  BY <1>1, <1>2, <1>3, <1>4, <1>5, <1>6, <1>7 DEF ClientShape, IsRequest

-----------------------------------------------------------------------------
(* What an answer says of the snapshot it was found on.                    *)

LEMMA OfALogin ==
  ASSUME NEW S, NEW q, q.kind = "login"
  PROVE  /\ Answer(S, q) \in {"SUCCESS", "INVALID"}
              => LoginAllowed(S.limit[q.target], q.at)
         /\ Answer(S, q) = "SUCCESS"
              => Active(S, q.target) /\ S.user[q.target].password = q.value
<1>1. Answer(S, q) = LoginAnswer(S, q)
  BY DEF Answer, AdminKind
<1> QED
  BY <1>1 DEF LoginAnswer

Changes(S, q) == q.kind # "login" /\ Answer(S, q) \in {"CREATED", "CHANGED"}

LEMMA OfAPassword ==
  ASSUME NEW S, NEW q, IsRequest(q), q.kind = "password", Changes(S, q)
  PROVE  Answer(S, q) = "CHANGED" /\ Active(S, q.target) /\ q.actor = q.target
<1>1. Answer(S, q) = PasswordAnswer(S, q)
  BY DEF Answer, AdminKind
<1> QED
  BY <1>1 DEF PasswordAnswer, Changes, IsRequest

(* Those of administrators: the asker is a fresh one, and another than the *)
(* user who is demoted or disabled.                                        *)
LEMMA OfAnAdmin ==
  ASSUME NEW S, NEW q, q.kind \in AdminKind, Changes(S, q)
  PROVE  /\ FreshAdmin(S, q.actor)
         /\ q.kind = "create" => ~S.user[q.target].exists
         /\ q.kind # "create" => /\ Answer(S, q) = "CHANGED"
                                 /\ S.user[q.target].exists
         /\ q.kind = "role" => /\ S.user[q.target].role # q.value
                               /\ q.value = "STAFF" => q.actor # q.target
         /\ q.kind = "status" => /\ S.user[q.target].active # q.value
                                 /\ ~q.value => q.actor # q.target
<1>1. Answer(S, q) = AdminAnswer(S, q)
  BY DEF Answer, AdminKind
<1>2. FreshAdmin(S, q.actor)
  BY <1>1 DEF AdminAnswer, Changes
<1>3. CASE q.kind = "create"
  <2>1. Answer(S, q) = CreateAnswer(S, q)
    BY <1>1, <1>2, <1>3 DEF AdminAnswer
  <2> QED
    BY <2>1, <1>2, <1>3 DEF CreateAnswer, Changes
<1>4. CASE q.kind # "create"
  <2>1. S.user[q.target].exists
    BY <1>1, <1>2, <1>4 DEF AdminAnswer, Changes
  <2>2. CASE q.kind = "role"
    <3>1. Answer(S, q) = RoleAnswer(S, q)
      BY <1>1, <1>2, <1>4, <2>1, <2>2 DEF AdminAnswer
    <3> QED
      BY <3>1, <1>2, <2>1, <2>2 DEF RoleAnswer, Changes
  <2>3. CASE q.kind = "status"
    <3>1. Answer(S, q) = StatusAnswer(S, q)
      BY <1>1, <1>2, <1>4, <2>1, <2>3 DEF AdminAnswer
    <3> QED
      BY <3>1, <1>2, <2>1, <2>3 DEF StatusAnswer, Changes
  <2>4. CASE q.kind = "reset"
    <3>1. Answer(S, q) = ResetAnswer(q)
      BY <1>1, <1>2, <1>4, <2>1, <2>4 DEF AdminAnswer
    <3> QED
      BY <3>1, <1>2, <2>1, <2>4 DEF ResetAnswer, Changes
  <2> QED
    BY <1>4, <2>2, <2>3, <2>4 DEF AdminKind
<1> QED
  BY <1>3, <1>4

(* What a change makes of its user: an active one loses the sessions, an   *)
(* administrator who is no more one was deposed by another.                *)
LEMMA OfAChange ==
  ASSUME NEW S \in Snapshot, NEW q, IsRequest(q), Changes(S, q),
         ChangedUser(S, q).password <= MaxPassword
  PROVE  LET was == S.user[q.target]
             new == ChangedUser(S, q)
         IN  /\ new \in UserRow
             /\ was.exists /\ was.active
                  => Answer(S, q) = "CHANGED" /\ Revokes(q)
             /\ Revokes(q) => Answer(S, q) = "CHANGED"
             /\ IsAdmin(was) /\ ~IsAdmin(new)
                  => /\ q.kind \in Locking
                     /\ q.actor # q.target
                     /\ IsAdmin(S.user[q.actor])
<1> DEFINE was == S.user[q.target]
           new == ChangedUser(S, q)
<1>1. was \in UserRow /\ q.target \in User /\ was.password + 1 \in Nat
  BY DEF Snapshot, IsRequest, UserRow
<1>2. CASE q.kind = "password"
  <2>1. new = [exists |-> was.exists, role |-> was.role,
               active |-> was.active, mustChange |-> FALSE,
               password |-> was.password + 1]
    BY <1>2, <1>1 DEF ChangedUser, UserRow
  <2>2. new \in UserRow /\ (IsAdmin(was) => IsAdmin(new))
    <3>1. new.password = was.password + 1
      BY <2>1
    <3>2. new.password \in 0..MaxPassword
      BY <3>1, <1>1, Constants
    <3> QED
      BY <2>1, <3>1, <3>2, <1>1 DEF UserRow, IsAdmin
  <2>3. Revokes(q)
    BY <1>2 DEF Revokes
  <2> QED
    BY <2>2, <2>3, <1>2, OfAPassword
<1>3. CASE q.kind = "reset"
  <2>1. new = [exists |-> was.exists, role |-> was.role,
               active |-> was.active, mustChange |-> TRUE,
               password |-> was.password + 1]
    BY <1>3, <1>1 DEF ChangedUser, UserRow
  <2>2. new \in UserRow /\ (IsAdmin(was) => IsAdmin(new))
    <3>1. new.password = was.password + 1
      BY <2>1
    <3>2. new.password \in 0..MaxPassword
      BY <3>1, <1>1, Constants
    <3> QED
      BY <2>1, <3>1, <3>2, <1>1 DEF UserRow, IsAdmin
  <2>3. Revokes(q)
    BY <1>3 DEF Revokes
  <2>4. Answer(S, q) = "CHANGED"
    BY <1>3, OfAnAdmin DEF AdminKind
  <2> QED
    BY <2>2, <2>3, <2>4
<1>4. CASE q.kind = "create"
  <2>1. new = [exists |-> TRUE, role |-> q.value, active |-> TRUE,
               mustChange |-> TRUE, password |-> was.password + 1]
    BY <1>4 DEF ChangedUser
  <2>2. q.value \in Role
    BY <1>4 DEF IsRequest
  <2>3. ~was.exists
    BY <1>4, OfAnAdmin DEF AdminKind
  <2> QED
    BY <2>1, <2>2, <2>3, <1>1, <1>4, Constants DEF UserRow, Revokes, IsAdmin
<1>5. CASE q.kind = "role"
  <2>1. new = [was EXCEPT !.role = q.value]
    BY <1>5 DEF ChangedUser
  <2>2. q.value \in Role
    BY <1>5 DEF IsRequest
  <2>3. /\ Answer(S, q) = "CHANGED" /\ IsAdmin(S.user[q.actor])
        /\ q.value = "STAFF" => q.actor # q.target
    BY <1>5, OfAnAdmin DEF AdminKind, FreshAdmin, Active, IsAdmin
  <2> QED
    BY <2>1, <2>2, <2>3, <1>1, <1>5
       DEF UserRow, Revokes, IsAdmin, Locking, Role
<1>6. CASE q.kind = "status"
  <2>1. new = [was EXCEPT !.active = q.value]
    BY <1>6 DEF ChangedUser
  <2>2. q.value \in BOOLEAN
    BY <1>6 DEF IsRequest
  <2>3. /\ Answer(S, q) = "CHANGED" /\ IsAdmin(S.user[q.actor])
        /\ was.active # q.value
        /\ ~q.value => q.actor # q.target
    BY <1>6, OfAnAdmin DEF AdminKind, FreshAdmin, Active, IsAdmin
  <2>4. CASE q.value = TRUE
    <3>1. new = [was EXCEPT !.active = TRUE]
      BY <2>1, <2>4
    <3>2. was.active = FALSE
      BY <2>3, <2>4, <1>1 DEF UserRow
    <3>3. ~Revokes(q)
      BY <1>6, <2>4 DEF Revokes
    <3>4. new \in UserRow /\ ~IsAdmin(was)
      BY <3>1, <3>2, <1>1 DEF UserRow, IsAdmin
    <3> QED
      BY <3>2, <3>3, <3>4
  <2>5. CASE q.value = FALSE
    <3>1. new = [was EXCEPT !.active = FALSE]
      BY <2>1, <2>5
    <3>2. Revokes(q)
      BY <1>6, <2>5 DEF Revokes
    <3>3. new \in UserRow
      BY <3>1, <1>1 DEF UserRow
    <3>4. q.actor # q.target
      BY <2>3, <2>5
    <3>5. q.kind \in Locking
      BY <1>6 DEF Locking
    <3> QED
      BY <3>2, <3>3, <3>4, <3>5, <2>3
  <2> QED
    BY <2>2, <2>4, <2>5
<1> QED
  BY <1>2, <1>3, <1>4, <1>5, <1>6 DEF IsRequest, Kind, Changes

(* What a change reads and writes.                                         *)
LEMMA ItemsOfAChange ==
  ASSUME NEW S, NEW q, IsRequest(q), Changes(S, q)
  PROVE  /\ UserItem(q.target) \in Writes(S, q)
         /\ q.kind \in Locking => AdminsItem \in Writes(S, q)
         /\ UserItem(q.actor) \in Reads(S, q)
         /\ UserItem(q.target) \in Reads(S, q)
         /\ Answer(S, q) = "CHANGED" /\ Revokes(q)
              => SessionsItem(q.target) \in Reads(S, q)
         /\ q.kind \in Locking /\ IsAdmin(S.user[q.target])
              => AdminsItem \in Reads(S, q)
<1>1. Writes(S, q) =
        {UserItem(q.target)} \cup {SessionItem(s) : s \in Revoked(S, q)}
           \cup (IF q.kind \in {"create", "role", "status"}
                   THEN {AdminsItem} ELSE {})
  BY DEF Writes, Changes
<1>2. CASE q.kind = "password"
  <2>1. Reads(S, q) = {UserItem(q.actor), SessionsItem(q.actor)}
    BY <1>2 DEF Reads, AdminKind
  <2>2. q.actor = q.target
    BY <1>2 DEF IsRequest
  <2> QED
    BY <1>1, <1>2, <2>1, <2>2 DEF Locking
<1>3. CASE q.kind \in AdminKind
  <2>1. Reads(S, q) =
          {UserItem(q.actor), UserItem(q.target)}
             \cup (IF Answer(S, q) = "CHANGED" /\ Revokes(q)
                     THEN {SessionsItem(q.target)} ELSE {})
             \cup (IF q.kind \in Locking /\ q.target \in ActiveAdmins(S)
                     THEN {AdminsItem} ELSE {})
    BY <1>3 DEF Reads, AdminKind
  <2>2. IsAdmin(S.user[q.target]) => q.target \in ActiveAdmins(S)
    BY DEF IsAdmin, ActiveAdmins, Active, IsRequest
  <2> QED
    BY <1>1, <2>1, <2>2 DEF Locking
<1> QED
  BY <1>2, <1>3 DEF IsRequest, Kind, AdminKind, Changes

LEMMA ItemsOfALogin ==
  ASSUME NEW S, NEW q, q.kind = "login", Answer(S, q) = "SUCCESS"
  PROVE  /\ SessionsItem(q.target) \in Writes(S, q)
         /\ UserItem(q.target) \in Reads(S, q)
BY DEF Reads, Writes, AdminKind

-----------------------------------------------------------------------------
(* What a transaction that may commit knows of the tables as they are.     *)

LEMMA NothingMet ==
  ASSUME ClientShape, NEW c \in Client, Running(c), ~Conflicts(c), NEW w, NEW r,
         w \in Reads(snap[c], req[c]), r \in Writes(snap[c], req[c])
  PROVE  ~Met(log, snap[c].since, w, r)
<1>1. Entry(c) \in Commit /\ log \in Seq(Commit)
  BY EntryIsACommit DEF ClientShape
<1>2. /\ Entry(c).since = snap[c].since
      /\ w \in Entry(c).reads /\ r \in Entry(c).writes
  BY DEF Entry
<1>3. ~Dangerous(Append(log, Entry(c)))
  BY DEF Conflicts
<1> QED
  BY <1>1, <1>2, <1>3, TwoThatMeet

(* A login finds its user as the snapshot showed it.                       *)
LEMMA LoginIsCurrent ==
  ASSUME IInv, NEW c \in Client, CommitLogin(c),
         Answer(snap[c], req[c]) = "SUCCESS"
  PROVE  user[req[c].target] = snap[c].user[req[c].target]
<1> DEFINE q == req[c]
<1>1. Running(c) /\ q.kind = "login" /\ ~Conflicts(c)
  BY DEF CommitLogin, MayEnd
<1>2. q.target \in User
  BY <1>1 DEF IInv, ClientShape, IsRequest, Running
<1>3. Active(snap[c], q.target)
  BY <1>1, OfALogin
<1>4. ~Met(log, snap[c].since, UserItem(q.target), SessionsItem(q.target))
  BY <1>1, NothingMet, ItemsOfALogin DEF IInv
<1> QED
  BY <1>1, <1>2, <1>3, <1>4 DEF IInv, Explained, Explains

(* A change finds its user so too, the sessions it has to end, and, when   *)
(* it deposes an administrator, the one who asks still in office.          *)
LEMMA ChangeIsCurrent ==
  ASSUME IInv, NEW c \in Client, CommitChange(c)
  PROVE  LET q == req[c]
             S == snap[c]
             new == ChangedUser(S, q)
         IN  /\ user[q.target] = S.user[q.target]
             /\ \A s \in Session :
                  Revokes(q) /\ session[s].live /\ session[s].user = q.target
                    => s \in Revoked(S, q)
             /\ IsAdmin(user[q.target]) /\ ~IsAdmin(new)
                  => q.actor # q.target /\ IsAdmin(user[q.actor])
<1> DEFINE q == req[c]
           S == snap[c]
           new == ChangedUser(S, q)
<1>1. /\ Running(c) /\ ~Conflicts(c) /\ Changes(S, q)
      /\ new.password <= MaxPassword
  BY DEF CommitChange, MayEnd, Changes
<1>2. /\ IsRequest(q) /\ S \in Snapshot /\ ClientShape
      /\ q.target \in User /\ q.actor \in User
  BY <1>1 DEF IInv, ClientShape, IsRequest, Running, Changes
<1>3. Explains(log, S, user, session)
  BY <1>1 DEF IInv, Explained
<1>4. user[q.target] = S.user[q.target]
  <2>1. UserItem(q.target) \in Entry(c).writes \cap Rows
    BY <1>1, <1>2, ItemsOfAChange DEF Entry, Rows
  <2>2. ~Overwritten(log, S.since, Entry(c).writes \cap Rows)
    BY <1>1 DEF Conflicts, Overwrites
  <2>3. log \in Seq(Commit) /\ S.since \in Nat
    BY <1>2 DEF ClientShape, Snapshot
  <2>4. ~Replaced(log, S.since, UserItem(q.target))
    BY <2>1, <2>2, <2>3, FirstUpdaterWins
  <2> QED
    BY <1>2, <1>3, <2>4 DEF Explains
<1>5. ASSUME NEW s \in Session, Revokes(q), session[s].live,
             session[s].user = q.target
      PROVE  s \in Revoked(S, q)
  <2>1. Answer(S, q) = "CHANGED"
    BY <1>1, <1>2, <1>5, OfAChange
  <2>2. ~Met(log, S.since, SessionsItem(q.target), UserItem(q.target))
    BY <1>1, <1>2, <1>5, <2>1, ItemsOfAChange, NothingMet
  <2>3. S.session[s].live /\ S.session[s].user = q.target
    BY <1>3, <1>5, <2>2 DEF Explains
  <2> QED
    BY <1>5, <2>3 DEF Revoked
<1>6. ASSUME IsAdmin(user[q.target]), ~IsAdmin(new)
      PROVE  q.actor # q.target /\ IsAdmin(user[q.actor])
  <2>1. /\ q.kind \in Locking /\ q.actor # q.target
        /\ IsAdmin(S.user[q.actor])
    BY <1>1, <1>2, <1>4, <1>6, OfAChange
  <2>2. ~Met(log, S.since, UserItem(q.actor), AdminsItem)
    BY <1>1, <1>2, <2>1, ItemsOfAChange, NothingMet
  <2> QED
    BY <1>2, <1>3, <2>1, <2>2 DEF Explains
<1> QED
  BY <1>4, <1>5, <1>6

-----------------------------------------------------------------------------
(* What a step of one client leaves to the others.                         *)

LEMMA OthersExplained ==
  ASSUME ClientShape, Explained, NEW c \in Client, NEW e \in Commit,
         Logged(c, Append(log, e)), Tells(e, user, session, user', session'),
         pc'[c] # "running",
         \A d \in Client \ {c} : pc'[d] = pc[d] /\ snap'[d] = snap[d]
  PROVE  Explained'
<1> SUFFICES ASSUME NEW d \in Client, Running(d)'
             PROVE  Explains(log', snap'[d], user', session')
  BY DEF Explained, Explains, Met, Replaced, Active, IsAdmin
<1>1. d # c /\ Running(d) /\ snap'[d] = snap[d]
  BY DEF Running
<1>2. log \in Seq(Commit) /\ snap[d] \in Snapshot
  BY DEF ClientShape
<1>3. log' = Append(log, e)
  BY <1>1, <1>2, LogKept, Appended
<1>4. Explains(log, snap[d], user, session)
  BY <1>1 DEF Explained
<1>5. Explains(Append(log, e), snap[d], user', session')
  BY <1>2, <1>4, StillExplained
<1> QED
  BY <1>1, <1>3, <1>5

LEMMA OthersUndisturbed ==
  ASSUME ClientShape, Explained, NEW c \in Client, Logged(c, log),
         UNCHANGED <<user, session>>,
         pc'[c] # "running",
         \A d \in Client \ {c} : pc'[d] = pc[d] /\ snap'[d] = snap[d]
  PROVE  Explained'
<1> SUFFICES ASSUME NEW d \in Client, Running(d)'
             PROVE  Explains(log', snap'[d], user', session')
  BY DEF Explained, Explains, Met, Replaced, Active, IsAdmin
<1>1. d # c /\ Running(d) /\ snap'[d] = snap[d]
  BY DEF Running
<1>2. log' = log
  BY <1>1 DEF Logged
<1>3. Explains(log, snap[d], user, session)
  BY <1>1 DEF Explained
<1> QED
  BY <1>1, <1>2, <1>3

(* Users and sessions that stay keep what is said of them.                 *)
LEMMA SameTables ==
  ASSUME LiveAreOwned, AnAdminRemains, LiveSessionsAreCurrent,
         UNCHANGED <<user, session>>
  PROVE  LiveAreOwned' /\ AnAdminRemains' /\ LiveSessionsAreCurrent'
BY DEF LiveAreOwned, AnAdminRemains, LiveSessionsAreCurrent

LEMMA SameTableShape ==
  ASSUME TableShape, UNCHANGED <<user, session, limit>>
  PROVE  TableShape'
BY DEF TableShape

-----------------------------------------------------------------------------
(* Every action keeps the invariant.                                       *)

LEMMA AskLoginKeeps ==
  ASSUME IInv, NEW c \in Client, AskLogin(c)
  PROVE  IInv'
<1> USE DEF IInv
<1>1. PICK a \in Ask :
        /\ a.kind = "login"
        /\ Arrives(c, Ready("login", NoUser, a.target,
                            IF a.value = "known" THEN user[a.target].password
                            ELSE MaxPassword + 1))
  BY DEF AskLogin
<1> DEFINE v == IF a.value = "known" THEN user[a.target].password
                ELSE MaxPassword + 1
           q == Ready("login", NoUser, a.target, v)
           e == [since |-> Len(log), reads |-> {},
                 writes |-> {LimitItem(u) : u \in Expired}]
<1>2. IsRequest(q)
  BY IdentityAssumption DEF IsRequest, Ready, Kind, ClientShape
<1>3. log \in Seq(Commit)
  BY DEF ClientShape
<1>4. e \in Commit
  <2>1. {LimitItem(u) : u \in Expired} \subseteq Item
    BY DEF Expired, Item
  <2>2. Len(log) \in Nat
    BY <1>3
  <2> QED
    BY <2>1, <2>2 DEF Commit
<1>5. /\ UNCHANGED <<user, session>>
      /\ pc'[c] # "running"
      /\ \A d \in Client \ {c} : pc'[d] = pc[d] /\ snap'[d] = snap[d]
  BY <1>1 DEF AskLogin, Arrives, ClientShape
<1>6. CASE Expired = {}
  <2>1. Logged(c, log)
    BY <1>6 DEF AskLogin
  <2>2. log' \in Seq(Commit)
    BY <1>3, <2>1, LogKept
  <2>3. Explained'
    BY <1>5, <2>1, OthersUndisturbed
  <2>4. ClientShape'
    BY <1>1, <1>2, <2>2, ArrivesInShape DEF AskLogin
  <2> QED
    BY <1>5, <1>6, <2>3, <2>4, SameTables, NoLimitIsALimit
       DEF AskLogin, TableShape
<1>7. CASE Expired # {}
  <2>1. Logged(c, Append(log, e))
    BY <1>7 DEF AskLogin
  <2>2. log' \in Seq(Commit)
    BY <1>3, <1>4, <2>1, LogKept, Appended
  <2>3. Tells(e, user, session, user', session')
    BY <1>5 DEF Tells
  <2>4. Explained'
    BY <1>4, <1>5, <2>1, <2>3, OthersExplained
  <2>5. ClientShape'
    BY <1>1, <1>2, <2>2, ArrivesInShape DEF AskLogin
  <2> QED
    BY <1>5, <2>4, <2>5, SameTables, NoLimitIsALimit DEF AskLogin, TableShape
<1> QED
  BY <1>6, <1>7

(* A request that a session lets in.                                       *)
LEMMA AskKeeps ==
  ASSUME IInv, NEW c \in Client, NEW q, IsRequest(q), Sends(c),
         Arrives(c, q), Logged(c, log), UNCHANGED <<session, limit>>
  PROVE  IInv'
<1> USE DEF IInv
<1>1. /\ UNCHANGED <<user, session, limit>>
      /\ pc'[c] # "running"
      /\ \A d \in Client \ {c} : pc'[d] = pc[d] /\ snap'[d] = snap[d]
  BY DEF Arrives, ClientShape
<1>2. log' \in Seq(Commit)
  BY LogKept DEF ClientShape
<1>3. ClientShape'
  BY <1>2, ArrivesInShape
<1>4. Explained'
  BY <1>1, OthersUndisturbed
<1> QED
  BY <1>1, <1>3, <1>4, SameTables, SameTableShape

LEMMA AskAdminKeeps ==
  ASSUME IInv, NEW c \in Client, AskAdmin(c)
  PROVE  IInv'
<1>1. PICK a \in Ask, s \in Session :
        /\ a.kind \in AdminKind
        /\ Valid(s)
        /\ Arrives(c, Ready(a.kind, session[s].user, a.target, a.value))
  BY DEF AskAdmin
<1>2. session[s].user \in User
  BY <1>1 DEF IInv, LiveAreOwned, Valid
<1>3. IsRequest(Ready(a.kind, session[s].user, a.target, a.value))
  BY <1>1, <1>2, IdentityAssumption
     DEF IInv, ClientShape, IsRequest, Ready, Kind, AdminKind
<1> QED
  BY <1>1, <1>3, AskKeeps DEF AskAdmin

LEMMA AskPasswordKeeps ==
  ASSUME IInv, NEW c \in Client, AskPassword(c)
  PROVE  IInv'
<1>1. PICK a \in Ask, s \in Session :
        /\ a.kind = "password"
        /\ Arrives(c, Ready("password", a.target, a.target,
                            user[a.target].password))
  BY DEF AskPassword
<1>2. IsRequest(Ready("password", a.target, a.target,
                      user[a.target].password))
  BY <1>1, IdentityAssumption DEF IInv, ClientShape, IsRequest, Ready, Kind
<1> QED
  BY <1>1, <1>2, AskKeeps DEF AskPassword

LEMMA LogoutKeeps ==
  ASSUME IInv, NEW c \in Client, Logout(c)
  PROVE  IInv'
<1> USE DEF IInv
<1>1. PICK s \in Session :
        /\ session' = [session EXCEPT ![s].live = FALSE]
        /\ Logged(c, Append(log, [since |-> Len(log), reads |-> {},
                                  writes |-> {SessionItem(s)}]))
  BY DEF Logout
<1> DEFINE e == [since |-> Len(log), reads |-> {},
                 writes |-> {SessionItem(s)}]
<1>2. e \in Commit
  BY DEF ClientShape, Commit, Item
<1>3. log' \in Seq(Commit)
  BY <1>1, <1>2, LogKept, Appended DEF ClientShape
<1>4. \A t \in Session : /\ session'[t].user = session[t].user
                         /\ session'[t].role = session[t].role
                         /\ session'[t].password = session[t].password
                         /\ session'[t].live => session[t].live
  BY <1>1 DEF TableShape, SessionRow
<1>5. user' = user /\ limit' = limit
  BY DEF Logout
<1>6. Tells(e, user, session, user', session')
  BY <1>4, <1>5 DEF Tells
<1>7. Explained'
  BY <1>1, <1>2, <1>6, OthersExplained DEF Logout, Sends
<1>8. ClientShape'
  <2>1. sent' \in 0..MaxRequests
    BY Constants DEF Logout, Sends, ClientShape
  <2>2. UNCHANGED <<now, pc, tries, holder, snap, req>>
    BY DEF Logout
  <2> QED
    BY <1>3, <2>1, <2>2 DEF ClientShape, IsRequest
<1>9. TableShape'
  BY <1>1, <1>5 DEF TableShape, SessionRow
<1>10. LiveAreOwned' /\ AnAdminRemains'
  BY <1>4, <1>5 DEF LiveAreOwned, AnAdminRemains
<1>11. LiveSessionsAreCurrent'
  BY <1>4, <1>5 DEF LiveSessionsAreCurrent
<1> QED
  BY <1>7, <1>8, <1>9, <1>10, <1>11

LEMMA BeginKeeps ==
  ASSUME IInv, NEW c \in Client, Begin(c)
  PROVE  IInv'
<1> USE DEF IInv
<1>1. UNCHANGED <<user, session, limit, log>>
  BY DEF Begin
<1>2. Tables \in Snapshot /\ Explains(log, Tables, user, session)
  BY FreshIsExplained
<1>3. /\ pc' = [pc EXCEPT ![c] = "running"]
      /\ snap' = [snap EXCEPT ![c] = Tables]
  BY DEF Begin
<1>4. Explained'
  <2> SUFFICES ASSUME NEW d \in Client, Running(d)'
               PROVE  Explains(log', snap'[d], user', session')
    BY DEF Explained, Explains, Met, Replaced, Active, IsAdmin
  <2>1. CASE d = c
    BY <1>1, <1>2, <1>3, <2>1 DEF ClientShape
  <2>2. CASE d # c
    BY <1>1, <1>3, <2>2 DEF Explained, Running, ClientShape
  <2> QED
    BY <2>1, <2>2
<1>5. ClientShape'
  <2>1. UNCHANGED <<now, holder, sent, log, req>>
    BY DEF Begin
  <2>2. /\ pc' \in [Client -> {"idle", "ready", "running"}]
        /\ snap' \in [Client -> Snapshot]
    BY <1>2, <1>3 DEF ClientShape
  <2>3. tries' \in [Client -> 0..MaxAttempts]
    BY Constants DEF Begin, ClientShape
  <2>4. \A d \in Client : pc'[d] # "idle" => pc[d] # "idle"
    BY DEF Begin, ClientShape
  <2>5. \A d \in Client : pc'[d] = "ready" => tries'[d] < MaxAttempts
    BY DEF Begin, ClientShape
  <2> QED
    BY <2>1, <2>2, <2>3, <2>4, <2>5 DEF ClientShape, IsRequest
<1> QED
  BY <1>1, <1>4, <1>5, SameTables, SameTableShape

LEMMA AcquireKeeps ==
  ASSUME IInv, NEW c \in Client, Acquire(c)
  PROVE  IInv'
<1> USE DEF IInv
<1>1. /\ UNCHANGED <<user, session, limit>>
      /\ UNCHANGED <<now, log, pc, req, snap, tries, sent>>
      /\ holder' = {c}
  BY DEF Acquire
<1>2. ClientShape'
  BY <1>1 DEF ClientShape, IsRequest
<1>3. Explained'
  BY <1>1 DEF Explained, Explains, Met, Replaced, Active, IsAdmin, Running
<1> QED
  BY <1>1, <1>2, <1>3, SameTables, SameTableShape

(* An end that changes no table.                                           *)
LEMMA EndKeeps ==
  ASSUME IInv, NEW c \in Client, NEW where \in {"idle", "ready"},
         Running(c), End(c, where), Logged(c, log),
         where = "ready" => tries[c] < MaxAttempts,
         UNCHANGED <<user, session, limit>>
  PROVE  IInv'
<1> USE DEF IInv
<1>1. /\ pc'[c] # "running"
      /\ \A d \in Client \ {c} : pc'[d] = pc[d] /\ snap'[d] = snap[d]
  BY DEF End, ClientShape
<1>2. log' \in Seq(Commit)
  BY LogKept DEF ClientShape
<1>3. ClientShape'
  BY <1>2, EndsInShape
<1>4. Explained'
  BY <1>1, OthersUndisturbed
<1> QED
  BY <1>3, <1>4, SameTables, SameTableShape

LEMMA RefuseKeeps ==
  ASSUME IInv, NEW c \in Client, Refuse(c)
  PROVE  IInv'
BY EndKeeps DEF Refuse, MayEnd

LEMMA AbortKeeps ==
  ASSUME IInv, NEW c \in Client, Abort(c)
  PROVE  IInv'
BY EndKeeps DEF Abort

LEMMA TickKeeps ==
  ASSUME IInv, Tick
  PROVE  IInv'
<1> USE DEF IInv
<1>1. /\ UNCHANGED <<user, session, limit>>
      /\ UNCHANGED <<log, pc, req, snap, tries, holder, sent>>
      /\ now' \in 0..Horizon
  BY Constants DEF Tick, ClientShape
<1>2. ClientShape'
  BY <1>1 DEF ClientShape, IsRequest
<1>3. Explained'
  BY <1>1 DEF Explained, Explains, Met, Replaced, Active, IsAdmin, Running
<1> QED
  BY <1>1, <1>2, <1>3, SameTables, SameTableShape

LEMMA CommitLoginKeeps ==
  ASSUME IInv, NEW c \in Client, CommitLogin(c)
  PROVE  IInv'
<1> USE DEF IInv
<1> DEFINE S == snap[c]
           q == req[c]
           e == Entry(c)
<1>1. /\ Running(c) /\ q.kind = "login" /\ ~Conflicts(c)
      /\ Logged(c, Append(log, e))
      /\ End(c, "idle")
      /\ user' = user
  BY DEF CommitLogin, MayEnd
<1>2. /\ IsRequest(q) /\ S \in Snapshot /\ e \in Commit
      /\ q.target \in User /\ q.at \in 0..Horizon
  BY <1>1, EntryIsACommit DEF ClientShape, Running, IsRequest
<1>3. log' \in Seq(Commit)
  BY <1>1, <1>2, LogKept, Appended DEF ClientShape
<1>4. ClientShape'
  BY <1>1, <1>3, EndsInShape
<1>5. /\ pc'[c] # "running"
      /\ \A d \in Client \ {c} : pc'[d] = pc[d] /\ snap'[d] = snap[d]
  BY <1>1 DEF End, ClientShape
<1>6. limit' \in [User -> LimitRow]
  <2>1. limit' = [limit EXCEPT ![q.target] =
                    CASE Clears(S, q)             -> NoLimit
                      [] Answer(S, q) = "INVALID" ->
                           Failed(S.limit[q.target], q.at)
                      [] OTHER                    -> @]
    BY DEF CommitLogin
  <2>2. limit \in [User -> LimitRow] /\ S.limit[q.target] \in LimitRow
    BY <1>2 DEF TableShape, Snapshot
  <2>3. CASE Answer(S, q) = "SUCCESS"
    BY <2>1, <2>2, <2>3, NoLimitIsALimit DEF Clears
  <2>4. CASE Answer(S, q) = "INVALID"
    <3>1. Failed(S.limit[q.target], q.at) \in LimitRow
      BY <1>1, <1>2, <2>2, <2>4, OfALogin, FailedIsALimit
    <3> QED
      BY <2>1, <2>2, <2>4, <3>1 DEF Clears
  <2>5. CASE Answer(S, q) \notin {"SUCCESS", "INVALID"}
    BY <2>1, <2>2, <2>5 DEF Clears
  <2> QED
    BY <2>3, <2>4, <2>5
<1>7. CASE Answer(S, q) # "SUCCESS"
  <2>1. UNCHANGED <<user, session>>
    BY <1>1, <1>7 DEF CommitLogin
  <2>2. Tells(e, user, session, user', session')
    BY <2>1 DEF Tells
  <2>3. Explained'
    BY <1>1, <1>2, <1>5, <2>2, OthersExplained
  <2> QED
    BY <1>4, <1>6, <2>1, <2>3, SameTables DEF TableShape
<1>8. CASE Answer(S, q) = "SUCCESS"
  <2>1. PICK s \in Session : session' = [session EXCEPT ![s] = Opened(S, q)]
    BY <1>8 DEF CommitLogin
  <2>2. /\ user[q.target] = S.user[q.target]
        /\ Active(S, q.target) /\ S.user[q.target].password = q.value
    BY <1>1, <1>8, LoginIsCurrent, OfALogin
  <2>3. S.user[q.target] \in UserRow
    BY <1>2 DEF Snapshot
  <2>4. Opened(S, q) \in SessionRow
    BY <1>2, <2>2, <2>3, Constants DEF Opened, SessionRow, UserRow
  <2>5. /\ Opened(S, q).live /\ Opened(S, q).user = q.target
        /\ Opened(S, q).role = user[q.target].role
        /\ Opened(S, q).password = user[q.target].password
    BY <2>2 DEF Opened
  <2>6. /\ session'[s] = Opened(S, q)
        /\ \A t \in Session \ {s} : session'[t] = session[t]
    BY <2>1 DEF TableShape
  <2>7. SessionsItem(q.target) \in e.writes /\ UserItem(q.target) \in e.reads
    BY <1>1, <1>8, ItemsOfALogin DEF Entry
  <2>8. Tells(e, user, session, user', session')
    BY <1>1, <2>5, <2>6, <2>7 DEF Tells
  <2>9. Explained'
    BY <1>1, <1>2, <1>5, <2>8, OthersExplained
  <2>10. TableShape'
    BY <1>1, <1>6, <2>1, <2>4 DEF TableShape
  <2>11. LiveAreOwned' /\ AnAdminRemains'
    BY <1>1, <1>2, <2>5, <2>6 DEF LiveAreOwned, AnAdminRemains
  <2>12. LiveSessionsAreCurrent'
    <3> SUFFICES ASSUME NEW t \in Session, session'[t].live
                 PROVE  /\ user'[session'[t].user].exists
                        /\ user'[session'[t].user].active
                        /\ session'[t].role = user'[session'[t].user].role
                        /\ session'[t].password
                              = user'[session'[t].user].password
      BY DEF LiveSessionsAreCurrent
    <3>1. CASE t = s
      BY <1>1, <2>2, <2>5, <2>6, <3>1 DEF Active
    <3>2. CASE t # s
      BY <1>1, <2>6, <3>2 DEF LiveSessionsAreCurrent
    <3> QED
      BY <3>1, <3>2
  <2> QED
    BY <1>4, <2>9, <2>10, <2>11, <2>12
<1> QED
  BY <1>7, <1>8

LEMMA CommitChangeKeeps ==
  ASSUME IInv, NEW c \in Client, CommitChange(c)
  PROVE  IInv'
<1> USE DEF IInv
<1> DEFINE S == snap[c]
           q == req[c]
           e == Entry(c)
           new == ChangedUser(S, q)
           gone == Revoked(S, q)
<1>1. /\ Running(c) /\ ~Conflicts(c) /\ Changes(S, q)
      /\ new.password <= MaxPassword
      /\ user' = [user EXCEPT ![q.target] = new]
      /\ session' = [t \in Session |->
                       IF t \in gone THEN [session[t] EXCEPT !.live = FALSE]
                       ELSE session[t]]
      /\ Logged(c, Append(log, e))
      /\ End(c, "idle")
      /\ limit' = limit
  BY DEF CommitChange, MayEnd, Changes
<1>2. /\ IsRequest(q) /\ S \in Snapshot /\ e \in Commit
      /\ q.target \in User
  BY <1>1, EntryIsACommit DEF ClientShape, Running, IsRequest
<1>3. q.actor \in User
  BY <1>1, <1>2 DEF IsRequest, Changes
<1>4. log' \in Seq(Commit)
  BY <1>1, <1>2, LogKept, Appended DEF ClientShape
<1>5. ClientShape'
  BY <1>1, <1>4, EndsInShape
<1>6. /\ pc'[c] # "running"
      /\ \A d \in Client \ {c} : pc'[d] = pc[d] /\ snap'[d] = snap[d]
  BY <1>1 DEF End, ClientShape
<1>7. /\ user[q.target] = S.user[q.target]
      /\ \A t \in Session :
           Revokes(q) /\ session[t].live /\ session[t].user = q.target
             => t \in gone
      /\ IsAdmin(user[q.target]) /\ ~IsAdmin(new)
           => q.actor # q.target /\ IsAdmin(user[q.actor])
  BY ChangeIsCurrent
<1>8. /\ new \in UserRow
      /\ user[q.target].exists /\ user[q.target].active
           => Answer(S, q) = "CHANGED" /\ Revokes(q)
      /\ IsAdmin(user[q.target]) /\ ~IsAdmin(new) => q.kind \in Locking
  BY <1>1, <1>2, <1>7, OfAChange
<1>9. /\ user'[q.target] = new
      /\ \A u \in User \ {q.target} : user'[u] = user[u]
  BY <1>1, <1>2 DEF TableShape
<1>10. \A t \in Session :
         /\ session'[t].user = session[t].user
         /\ session'[t].role = session[t].role
         /\ session'[t].password = session[t].password
         /\ session'[t].live => session[t].live /\ t \notin gone
  <2> TAKE t \in Session
  <2>1. session[t] \in SessionRow
    BY DEF TableShape
  <2>2. CASE t \in gone
    <3>1. session'[t] = [session[t] EXCEPT !.live = FALSE]
      BY <1>1, <2>2
    <3> QED
      BY <2>1, <3>1 DEF SessionRow
  <2>3. CASE t \notin gone
    BY <1>1, <2>3
  <2> QED
    BY <2>2, <2>3
<1>11. TableShape'
  <2>1. user' \in [User -> UserRow]
    BY <1>1, <1>8 DEF TableShape
  <2>2. session' \in [Session -> SessionRow]
    <3>1. \A t \in Session : [session[t] EXCEPT !.live = FALSE] \in SessionRow
      BY DEF TableShape, SessionRow
    <3> QED
      BY <1>1, <3>1 DEF TableShape
  <2> QED
    BY <1>1, <2>1, <2>2 DEF TableShape
<1>12. Tells(e, user, session, user', session')
  <2>1. /\ UserItem(q.target) \in e.writes
        /\ user[q.target].exists /\ user[q.target].active
             => SessionsItem(q.target) \in e.reads
        /\ IsAdmin(user[q.target]) /\ ~IsAdmin(new) => AdminsItem \in e.reads
    BY <1>1, <1>2, <1>7, <1>8, ItemsOfAChange DEF Entry
  <2> QED
    BY <1>9, <1>10, <2>1 DEF Tells
<1>13. Explained'
  BY <1>1, <1>2, <1>6, <1>12, OthersExplained
<1>14. LiveAreOwned'
  BY <1>10 DEF LiveAreOwned
<1>15. AnAdminRemains'
  <2>1. PICK u \in User : IsAdmin(user[u])
    BY DEF AnAdminRemains, IsAdmin
  <2>2. \E w \in User : IsAdmin(user'[w])
    <3>1. CASE u # q.target
      BY <1>9, <2>1, <3>1
    <3>2. CASE u = q.target /\ IsAdmin(new)
      BY <1>2, <1>9, <3>2
    <3>3. CASE u = q.target /\ ~IsAdmin(new)
      BY <1>3, <1>7, <1>9, <2>1, <3>3
    <3> QED
      BY <3>1, <3>2, <3>3
  <2> QED
    BY <2>2 DEF AnAdminRemains, IsAdmin
<1>16. LiveSessionsAreCurrent'
  <2> SUFFICES ASSUME NEW t \in Session, session'[t].live
               PROVE  /\ user'[session'[t].user].exists
                      /\ user'[session'[t].user].active
                      /\ session'[t].role = user'[session'[t].user].role
                      /\ session'[t].password
                            = user'[session'[t].user].password
    BY DEF LiveSessionsAreCurrent
  <2> DEFINE u == session[t].user
  <2>1. /\ session[t].live /\ t \notin gone /\ u \in User
        /\ user[u].exists /\ user[u].active
        /\ session[t].role = user[u].role
        /\ session[t].password = user[u].password
    BY <1>10 DEF LiveSessionsAreCurrent, LiveAreOwned
  <2>2. u # q.target
    BY <1>7, <1>8, <2>1
  <2>3. user'[u] = user[u]
    BY <1>9, <2>1, <2>2
  <2> QED
    BY <1>10, <2>1, <2>3
<1> QED
  BY <1>5, <1>11, <1>13, <1>14, <1>15, <1>16

-----------------------------------------------------------------------------
LEMMA InitIsInvariant == Init => IInv
<1> SUFFICES ASSUME Init
             PROVE  IInv
  OBVIOUS
<1> USE IdentityAssumption, Constants DEF Init
<1>1. TableShape
  BY NoLimitIsALimit DEF TableShape
<1>2. ClientShape
  BY NoSnapshotIsOne DEF ClientShape
<1>3. Explained
  BY DEF Explained, Running
<1>4. LiveAreOwned /\ AnAdminRemains /\ LiveSessionsAreCurrent
  BY DEF LiveAreOwned, AnAdminRemains, LiveSessionsAreCurrent
<1> QED
  BY <1>1, <1>2, <1>3, <1>4 DEF IInv

LEMMA NextIsInvariant == IInv /\ [Next]_vars => IInv'
<1> SUFFICES ASSUME IInv, [Next]_vars
             PROVE  IInv'
  OBVIOUS
<1>1. CASE Tick
  BY <1>1, TickKeeps
<1>2. ASSUME NEW c \in Client,
             \/ AskLogin(c) \/ AskAdmin(c) \/ AskPassword(c) \/ Logout(c)
             \/ Begin(c) \/ Acquire(c)
             \/ CommitLogin(c) \/ CommitChange(c) \/ Refuse(c) \/ Abort(c)
      PROVE  IInv'
  BY <1>2, AskLoginKeeps, AskAdminKeeps, AskPasswordKeeps, LogoutKeeps,
     BeginKeeps, AcquireKeeps, CommitLoginKeeps, CommitChangeKeeps,
     RefuseKeeps, AbortKeeps
<1>3. CASE UNCHANGED vars
  BY <1>3 DEF vars, IInv, TableShape, ClientShape, LiveAreOwned, Explained,
              Explains, Met, Replaced, Active, IsAdmin, Running, IsRequest,
              AnAdminRemains, LiveSessionsAreCurrent
<1> QED
  BY <1>1, <1>2, <1>3 DEF Next

LEMMA IInvHolds == Spec => []IInv
BY InitIsInvariant, NextIsInvariant, PTL DEF Spec

(* Rows, requests and limits stay of their kinds; a limit never counts     *)
(* more failures than block (rate-limit.ts), a request gets no more        *)
(* attempts than the code gives it (authentication-audit.ts).              *)
THEOREM IdentityIsTyped == Spec => []TypeOK
<1>1. IInv => TypeOK
  BY DEF IInv, TableShape, ClientShape, TypeOK, LimitRow
<1> QED
  BY <1>1, IInvHolds, PTL

(* However many administrators demote or disable each other at once, one   *)
(* remains (identity-service.ts, changeManagedUserRole and -Status).       *)
THEOREM AnAdminRemainsHolds == Spec => []AnAdminRemains
<1>1. IInv => AnAdminRemains
  BY DEF IInv
<1> QED
  BY <1>1, IInvHolds, PTL

(* No login that races a change of its user leaves a session behind that   *)
(* outlives it (authentication-audit.ts, processLoginWithAudit;            *)
(* session.ts, revokeAllSessionsForUser).                                  *)
THEOREM LiveSessionsAreCurrentHolds == Spec => []LiveSessionsAreCurrent
<1>1. IInv => LiveSessionsAreCurrent
  BY DEF IInv
<1> QED
  BY <1>1, IInvHolds, PTL
-----------------------------------------------------------------------------
(* The failures of a user, beside what the limit tells of them.            *)

GuessRow == [asked : 0..Horizon, answered : 0..Horizon]

(* Failures are answered in the order in which they are kept.              *)
InTurn(G, when) ==
  /\ \A i, j \in 1..Len(G) : i <= j => G[i].answered <= G[j].answered
  /\ \A i \in 1..Len(G) : G[i].answered <= when

(* Of the last failures, as many as block, one was asked a pause ago.      *)
Paused(G, n, when) ==
  \E i \in 1..n : n - MaxFailures < i /\ G[i].asked + Pause <= when

(* A limit has counted the last failures, the first of which began its     *)
(* window, a pause after those before; without one there was a pause.      *)
Tally(G, l, when) ==
  /\ l = NoLimit => Len(G) = 0 \/ Paused(G, Len(G), when)
  /\ l # NoLimit =>
       LET m == Len(G) - l.attempts IN
       /\ l.attempts \in 1..Len(G)
       /\ G[m + 1].asked = l.started
       /\ l.attempts < MaxFailures =>
            l.blocked = 0 /\ l.expires = l.started + FailureWindow
       /\ l.attempts = MaxFailures => l.expires = G[Len(G)].asked + BlockTime
       /\ m = 0 \/ Paused(G, m, G[m + 1].answered)

Spread(G) ==
  \A n \in 1..Len(G) :
    n >= 2 * MaxFailures =>
      \E i \in (n - 2 * MaxFailures + 1)..n :
         G[i].asked + Pause <= G[n].answered

Counted(G, l, when) ==
  G \in Seq(GuessRow) /\ InTurn(G, when) /\ Tally(G, l, when) /\ Spread(G)

(* A limit that is not as a running snapshot shows was replaced by a       *)
(* commit of the log since.                                                *)
LimitsExplained ==
  \A c \in Client : Running(c) =>
    \A u \in User : limit[u] # snap[c].limit[u]
                      => Replaced(log, snap[c].since, LimitItem(u))

AskedBefore == \A c \in Client : pc[c] # "idle" => req[c].at <= now

(* With IInv, an inductive invariant.                                      *)
GInv ==
  /\ LimitsExplained
  /\ AskedBefore
  /\ DOMAIN guesses = User
  /\ \A u \in User : Counted(guesses[u], limit[u], now)

LEMMA PauseIsShort ==
  Pause \in Nat /\ Pause <= FailureWindow /\ Pause <= BlockTime
BY Constants DEF Pause

LEMMA GuessesAreNatural ==
  ASSUME NEW G \in Seq(GuessRow)
  PROVE  /\ Len(G) \in Nat
         /\ \A i \in 1..Len(G) : G[i].asked \in Nat /\ G[i].answered \in Nat
<1>1. \A i \in 1..Len(G) : G[i] \in GuessRow
  OBVIOUS
<1> QED
  BY <1>1, Constants DEF GuessRow

(* A pause goes on.                                                        *)
LEMMA LaterIsAPause ==
  ASSUME NEW G \in Seq(GuessRow), NEW n \in 0..Len(G),
         NEW t \in Nat, NEW t2 \in Nat, t <= t2, Paused(G, n, t)
  PROVE  Paused(G, n, t2)
<1>1. PICK i \in 1..n : n - MaxFailures < i /\ G[i].asked + Pause <= t
  BY DEF Paused
<1>2. i \in 1..Len(G)
  BY GuessesAreNatural
<1>3. G[i].asked + Pause <= t2
  BY <1>1, <1>2, GuessesAreNatural, PauseIsShort
<1> QED
  BY <1>1, <1>3 DEF Paused

(* A window or a block that is over is a pause.                            *)
LEMMA OverIsAPause ==
  ASSUME NEW G \in Seq(GuessRow), NEW l \in LimitRow, NEW now0, NEW t \in Nat,
         Tally(G, l, now0), l # NoLimit,
         l.expires <= t \/ l.started + FailureWindow <= t
  PROVE  Paused(G, Len(G), t)
<1> DEFINE n == Len(G)
           m == n - l.attempts
<1>1. /\ n \in Nat /\ l.attempts \in 1..n /\ l.attempts \in 1..MaxFailures
      /\ G[m + 1].asked = l.started
      /\ l.attempts < MaxFailures => l.expires = l.started + FailureWindow
      /\ l.attempts = MaxFailures => l.expires = G[n].asked + BlockTime
  BY Constants DEF Tally, LimitRow
<1>2. m + 1 \in 1..n /\ n \in 1..n /\ n - MaxFailures < m + 1
      /\ n - MaxFailures < n
  BY <1>1, Constants
<1>3. G[m + 1] \in GuessRow /\ G[n] \in GuessRow
  BY <1>2, <1>1
<1>4. /\ G[n].asked \in Nat /\ l.started \in Nat /\ l.expires \in Nat
  BY <1>3, Constants DEF GuessRow, LimitRow
<1> HIDE DEF n, m
<1>5. CASE l.started + FailureWindow <= t
  <2>1. G[m + 1].asked + Pause <= t
    BY <1>1, <1>4, <1>5, PauseIsShort, Constants
  <2>2. Paused(G, n, t)
    BY <2>1, <1>2 DEF Paused
  <2> QED
    BY <2>2 DEF n
<1>6. CASE l.expires <= t /\ l.attempts < MaxFailures
  <2>1. l.started + FailureWindow <= t
    BY <1>1, <1>6
  <2> QED
    BY <2>1, <1>5
<1>7. CASE l.expires <= t /\ l.attempts = MaxFailures
  <2>1. G[n].asked + Pause <= t
    BY <1>1, <1>4, <1>7, PauseIsShort, Constants
  <2>2. Paused(G, n, t)
    BY <2>1, <1>2 DEF Paused
  <2> QED
    BY <2>2 DEF n
<1> QED
  BY <1>1, <1>5, <1>6, <1>7, Constants

(* Time passes.                                                            *)
LEMMA CountedLater ==
  ASSUME NEW G, NEW l, NEW t \in Nat, NEW t2 \in Nat, t <= t2, Counted(G, l, t)
  PROVE  Counted(G, l, t2)
<1>1. \A i \in 1..Len(G) : G[i].asked \in Nat /\ G[i].answered \in Nat
  BY GuessesAreNatural DEF Counted
<1>2. InTurn(G, t2)
  BY <1>1 DEF Counted, InTurn
<1>3. ASSUME Paused(G, Len(G), t)
      PROVE  Paused(G, Len(G), t2)
  BY <1>3, LaterIsAPause DEF Counted
<1>4. Tally(G, l, t2)
  BY <1>3 DEF Counted, Tally
<1> QED
  BY <1>2, <1>4 DEF Counted

(* One failure more.                                                       *)
LEMMA OneMoreGuess ==
  ASSUME NEW G, NEW l \in LimitRow, NEW t \in 0..Horizon, NEW when \in 0..Horizon,
         t <= when, LoginAllowed(l, t), Counted(G, l, when)
  PROVE  Counted(Append(G, Guess(t, when)), Failed(l, t), when)
<1> DEFINE g == Guess(t, when)
           H == Append(G, g)
           n == Len(G)
           k == Failed(l, t)
<1>1. /\ G \in Seq(GuessRow) /\ InTurn(G, when) /\ Tally(G, l, when) /\ Spread(G)
  BY DEF Counted
<1>2. /\ g \in GuessRow /\ g.asked = t /\ g.answered = when
  BY DEF Guess, GuessRow
<1>3. /\ H \in Seq(GuessRow) /\ n \in Nat /\ Len(H) = n + 1
      /\ H[n + 1] = g
      /\ \A i \in 1..n : H[i] = G[i]
  BY <1>1, <1>2
<1>4. /\ \A i \in 1..n : /\ G[i].asked \in Nat /\ G[i].answered \in Nat
                         /\ G[i].answered <= when
      /\ t \in Nat /\ when \in Nat
      /\ MaxFailures \in Nat /\ MaxFailures > 0
  BY <1>1, GuessesAreNatural, Constants DEF InTurn
<1> HIDE DEF H, n, g
<1>5. InTurn(H, when)
  <2>1. \A i \in 1..(n + 1) : i \in 1..n \/ i = n + 1
    BY <1>3
  <2>2. \A i \in 1..(n + 1) : H[i].answered <= when
    BY <1>2, <1>3, <1>4, <2>1
  <2>3. ASSUME NEW i \in 1..(n + 1), NEW j \in 1..(n + 1), i <= j
        PROVE  H[i].answered <= H[j].answered
    <3>1. CASE j = n + 1
      BY <3>1, <2>2, <1>2, <1>3
    <3>2. CASE j # n + 1
      <4>1. i \in 1..n /\ j \in 1..n
        BY <3>2, <2>3, <1>3
      <4>2. G[i].answered <= G[j].answered
        BY <4>1, <2>3, <1>1 DEF InTurn, n
      <4> QED
        BY <4>1, <4>2, <1>3
    <3> QED
      BY <3>1, <3>2
  <2> QED
    BY <2>2, <2>3, <1>3 DEF InTurn
<1>6. \A x, y : x \in 0..n /\ Paused(G, x, y) => Paused(H, x, y)
  <2> SUFFICES ASSUME NEW x \in 0..n, NEW y, Paused(G, x, y)
               PROVE  Paused(H, x, y)
    OBVIOUS
  <2>1. PICK i \in 1..x : x - MaxFailures < i /\ G[i].asked + Pause <= y
    BY DEF Paused
  <2>2. i \in 1..n
    BY <1>3
  <2> QED
    BY <2>1, <2>2, <1>3 DEF Paused
(* Whatever came before the window of the new failure ended in a pause.    *)
<1>7. ASSUME NEW m \in 0..n, m >= n + 1 - MaxFailures,
             m = 0 \/ Paused(H, m, H[m + 1].answered)
      PROVE  Spread(H)
  <2> SUFFICES ASSUME NEW x \in 1..(n + 1), x >= 2 * MaxFailures
               PROVE  \E i \in (x - 2 * MaxFailures + 1)..x :
                        H[i].asked + Pause <= H[x].answered
    BY <1>3 DEF Spread
  <2>1. CASE x \in 1..n
    <3>1. PICK i \in (x - 2 * MaxFailures + 1)..x :
            G[i].asked + Pause <= G[x].answered
      BY <2>1, <1>1 DEF Spread, n
    <3>2. i \in 1..n
      BY <2>1, <1>3, <1>4
    <3> QED
      BY <3>1, <3>2, <2>1, <1>3
  <2>2. CASE x = n + 1
    <3>1. m # 0
      BY <2>2, <1>3, <1>4, <1>7
    <3>2. PICK i \in 1..m : /\ m - MaxFailures < i
                            /\ H[i].asked + Pause <= H[m + 1].answered
      BY <3>1, <1>7 DEF Paused
    <3>3. i \in (x - 2 * MaxFailures + 1)..x
      BY <2>2, <3>2, <1>3, <1>4, <1>7
    <3>4. /\ m + 1 \in 1..(n + 1) /\ n + 1 \in 1..(n + 1) /\ m + 1 <= n + 1
          /\ i \in 1..n
      BY <1>3
    <3>5. H[m + 1].answered <= H[n + 1].answered
      BY <3>4, <1>3, <1>5 DEF InTurn
    <3>6. /\ H[i].asked \in Nat
          /\ H[m + 1].answered \in Nat /\ H[n + 1].answered \in Nat
      <4>1. \A j \in 1..(n + 1) : H[j].asked \in Nat /\ H[j].answered \in Nat
        BY <1>3, GuessesAreNatural
      <4> QED
        BY <4>1, <3>4, <1>3
    <3>7. H[i].asked + Pause <= H[n + 1].answered
      BY <3>2, <3>5, <3>6, PauseIsShort
    <3> QED
      BY <3>3, <3>7, <2>2
  <2> QED
    BY <2>1, <2>2, <1>3
<1>8. CASE WindowOver(l, t)
  <2>1. n = 0 \/ Paused(G, n, when)
    <3>1. CASE l = NoLimit
      BY <3>1, <1>1 DEF Tally, n
    <3>2. CASE l # NoLimit
      <4>1. l.expires <= t \/ l.started + FailureWindow <= t
        BY <3>2, <1>8 DEF WindowOver
      <4>2. Paused(G, n, t)
        BY <4>1, <3>2, <1>1, <1>4, OverIsAPause DEF n
      <4> QED
        BY <4>2, <1>1, <1>3, <1>4, LaterIsAPause DEF n
    <3> QED
      BY <3>1, <3>2
  <2>2. n = 0 \/ Paused(H, n, H[n + 1].answered)
    BY <2>1, <1>2, <1>3, <1>6
  <2>3. /\ k.attempts = 1 /\ k.started = t
        /\ MaxFailures # 1 => k.blocked = 0 /\ k.expires = t + FailureWindow
        /\ MaxFailures = 1 => k.expires = t + BlockTime
    BY <1>8, <1>4 DEF Failed
  <2>4. Tally(H, k, when)
    <3>1. k # NoLimit
      BY <2>3 DEF NoLimit
    <3>2. Len(H) - k.attempts = n /\ k.attempts \in 1..Len(H)
      BY <2>3, <1>3
    <3> HIDE DEF k
    <3> QED
      BY <3>1, <3>2, <2>2, <2>3, <1>2, <1>3, <1>4 DEF Tally
  <2>5. Spread(H)
    BY <2>2, <1>3, <1>4, <1>7
  <2> QED
    BY <2>4, <2>5, <1>3, <1>5 DEF Counted, H, g
<1>9. CASE ~WindowOver(l, t)
  <2> DEFINE m == n - l.attempts
  <2>1. /\ l # NoLimit /\ l.attempts \in 1..n /\ l.attempts < MaxFailures
        /\ G[m + 1].asked = l.started
        /\ m = 0 \/ Paused(G, m, G[m + 1].answered)
    <3>1. l # NoLimit
      BY <1>9 DEF WindowOver
    <3>2. l.attempts < MaxFailures
      BY <1>9, <3>1, Constants DEF WindowOver, LoginAllowed, LimitRow
    <3> QED
      BY <3>1, <3>2, <1>1 DEF Tally, n
  <2>2. /\ k.attempts = l.attempts + 1 /\ k.started = l.started
        /\ l.attempts + 1 < MaxFailures =>
             k.blocked = 0 /\ k.expires = l.started + FailureWindow
        /\ l.attempts + 1 = MaxFailures => k.expires = t + BlockTime
    BY <2>1, <1>9, <1>3, <1>4 DEF Failed
  <2>3. m \in 0..n /\ m + 1 \in 1..n /\ m >= n + 1 - MaxFailures
    BY <2>1, <1>3, <1>4
  <2>4. /\ Len(H) - k.attempts = m /\ k.attempts \in 1..Len(H)
        /\ k.attempts = l.attempts + 1
    BY <2>1, <2>2, <1>3
  <2>5. k # NoLimit
    BY <2>1, <2>2, <1>3 DEF NoLimit
  <2> HIDE DEF m, k
  <2>6. m = 0 \/ Paused(H, m, H[m + 1].answered)
    BY <2>1, <2>3, <1>3, <1>6
  <2>7. Tally(H, k, when)
    BY <2>1, <2>2, <2>3, <2>4, <2>5, <2>6, <1>2, <1>3, <1>4 DEF Tally
  <2>8. Spread(H)
    BY <2>3, <2>6, <1>7
  <2> QED
    BY <2>7, <2>8, <1>3, <1>5 DEF Counted, H, g, k
<1> QED
  BY <1>8, <1>9

(* The limit is cleared after it has expired, or by a success with the     *)
(* failures it has counted.                                                *)
LEMMA ClearedGuesses ==
  ASSUME NEW G, NEW l \in LimitRow, NEW t \in Nat, Counted(G, l, t),
         l # NoLimit, l.expires <= t
  PROVE  Counted(G, NoLimit, t)
<1>1. Paused(G, Len(G), t)
  BY OverIsAPause DEF Counted
<1> QED
  BY <1>1 DEF Counted, Tally

LEMMA NoGuesses ==
  ASSUME NEW t
  PROVE  Counted(<< >>, NoLimit, t)
<1>1. << >> \in Seq(GuessRow) /\ Len(<< >>) = 0
  OBVIOUS
<1> QED
  BY <1>1, Constants DEF Counted, InTurn, Tally, Spread

-----------------------------------------------------------------------------
(* What a step tells of the limits to those who run.                       *)

LEMMA LimitsAreTold ==
  ASSUME ClientShape, Explained, LimitsExplained, NEW c \in Client,
         NEW e \in Commit, Logged(c, Append(log, e)), pc'[c] # "running",
         \A d \in Client \ {c} : pc'[d] = pc[d] /\ snap'[d] = snap[d],
         \A u \in User : limit'[u] # limit[u] => LimitItem(u) \in e.writes
  PROVE  LimitsExplained'
<1> SUFFICES ASSUME NEW d \in Client, Running(d)', NEW u \in User,
                    limit'[u] # snap'[d].limit[u]
             PROVE  Replaced(log', snap'[d].since, LimitItem(u))
  BY DEF LimitsExplained
<1>1. d # c /\ Running(d) /\ snap'[d] = snap[d]
  BY DEF Running
<1>2. log \in Seq(Commit) /\ snap[d] \in Snapshot /\ snap[d].since \in Nat
  BY DEF ClientShape, Snapshot
<1>3. log' = Append(log, e)
  BY <1>1 DEF Logged
<1>4. snap[d].since <= Len(log)
  BY <1>1 DEF Explained, Explains
<1>5. CASE limit[u] # snap[d].limit[u]
  BY <1>1, <1>2, <1>3, <1>5, StillReplaced DEF LimitsExplained
<1>6. CASE limit[u] = snap[d].limit[u]
  <2>1. LimitItem(u) \in e.writes
    BY <1>1, <1>6
  <2> QED
    BY <2>1, <1>1, <1>2, <1>3, <1>4, NowReplaced
<1> QED
  BY <1>5, <1>6

LEMMA LimitsAreQuiet ==
  ASSUME ClientShape, LimitsExplained, NEW c \in Client, Logged(c, log),
         pc'[c] # "running",
         \A d \in Client \ {c} : pc'[d] = pc[d] /\ snap'[d] = snap[d],
         limit' = limit
  PROVE  LimitsExplained'
<1> SUFFICES ASSUME NEW d \in Client, Running(d)', NEW u \in User,
                    limit'[u] # snap'[d].limit[u]
             PROVE  Replaced(log', snap'[d].since, LimitItem(u))
  BY DEF LimitsExplained
<1>1. d # c /\ Running(d) /\ snap'[d] = snap[d]
  BY DEF Running
<1>2. log' = log
  BY <1>1 DEF Logged
<1> QED
  BY <1>1, <1>2 DEF LimitsExplained

LEMMA SameGuesses ==
  ASSUME GInv, UNCHANGED <<limit, guesses, now>>, LimitsExplained',
         \A c \in Client : pc'[c] # "idle" => req'[c].at <= now
  PROVE  GInv'
BY DEF GInv, AskedBefore

-----------------------------------------------------------------------------
(* Every action keeps the invariant of the failures.                       *)

LEMMA AskLoginCounts ==
  ASSUME IInv, GInv, NEW c \in Client, AskLogin(c)
  PROVE  GInv'
<1> USE DEF IInv
<1>1. PICK q : q.at = now /\ Arrives(c, q)
  <2>1. PICK a \in Ask :
          Arrives(c, Ready("login", NoUser, a.target,
                           IF a.value = "known" THEN user[a.target].password
                           ELSE MaxPassword + 1))
    BY DEF AskLogin
  <2>2. \A v : Ready("login", NoUser, a.target, v).at = now
    BY DEF Ready
  <2> QED
    BY <2>1, <2>2
<1>2. /\ pc'[c] # "running" /\ now' = now /\ guesses' = guesses
      /\ \A d \in Client \ {c} : /\ pc'[d] = pc[d] /\ snap'[d] = snap[d]
                                 /\ req'[d] = req[d]
      /\ req'[c] = q
  BY <1>1 DEF Arrives, ClientShape
<1>3. limit' = [u \in User |-> IF u \in Expired THEN NoLimit ELSE limit[u]]
  BY DEF AskLogin
<1>4. AskedBefore'
  <2>1. now \in Nat
    BY Constants DEF ClientShape
  <2> QED
    BY <1>1, <1>2, <2>1 DEF GInv, AskedBefore
<1>5. \A u \in User : Counted(guesses'[u], limit'[u], now')
  <2> TAKE u \in User
  <2>1. CASE u \in Expired
    <3>1. limit[u] # NoLimit /\ limit[u].expires <= now
      BY <2>1 DEF Expired
    <3>2. now \in Nat /\ limit[u] \in LimitRow
      BY Constants DEF ClientShape, TableShape
    <3>3. Counted(guesses[u], NoLimit, now)
      BY <3>1, <3>2, ClearedGuesses DEF GInv
    <3> QED
      BY <3>3, <2>1, <1>2, <1>3
  <2>2. CASE u \notin Expired
    BY <2>2, <1>2, <1>3 DEF GInv
  <2> QED
    BY <2>1, <2>2
<1>6. LimitsExplained'
  <2>1. CASE Expired = {}
    <3>1. limit' = limit
      BY <2>1, <1>3 DEF TableShape
    <3>2. Logged(c, log)
      BY <2>1 DEF AskLogin
    <3> QED
      BY <3>1, <3>2, <1>2, LimitsAreQuiet DEF GInv
  <2>2. CASE Expired # {}
    <3> DEFINE e == [since |-> Len(log), reads |-> {},
                     writes |-> {LimitItem(u) : u \in Expired}]
    <3>1. Logged(c, Append(log, e))
      BY <2>2 DEF AskLogin
    <3>2. e \in Commit
      <4>1. {LimitItem(u) : u \in Expired} \subseteq Item
        BY DEF Expired, Item
      <4>2. Len(log) \in Nat
        BY DEF ClientShape
      <4> QED
        BY <4>1, <4>2 DEF Commit
    <3>3. \A u \in User : limit'[u] # limit[u] => LimitItem(u) \in e.writes
      BY <1>3
    <3> HIDE DEF e
    <3> QED
      BY <3>1, <3>2, <3>3, <1>2, LimitsAreTold DEF GInv
  <2> QED
    BY <2>1, <2>2
<1> QED
  BY <1>2, <1>4, <1>5, <1>6 DEF GInv

(* Requests of sessions, and ends that leave limits alone.                 *)
LEMMA QuietCounts ==
  ASSUME IInv, GInv, NEW c \in Client,
         UNCHANGED <<limit, guesses, now>>,
         pc'[c] # "running",
         \A d \in Client \ {c} : /\ pc'[d] = pc[d] /\ snap'[d] = snap[d]
                                 /\ req'[d] = req[d],
         pc'[c] # "idle" => req'[c].at <= now,
         Logged(c, log) \/ \E e \in Commit : Logged(c, Append(log, e))
  PROVE  GInv'
<1>1. LimitsExplained'
  BY LimitsAreTold, LimitsAreQuiet DEF IInv, GInv
<1>2. \A d \in Client : pc'[d] # "idle" => req'[d].at <= now
  BY DEF GInv, AskedBefore
<1> QED
  BY <1>1, <1>2, SameGuesses

LEMMA AskCounts ==
  ASSUME IInv, GInv, NEW c \in Client, AskAdmin(c) \/ AskPassword(c)
  PROVE  GInv'
<1>1. PICK kind, actor, target, value :
        Arrives(c, Ready(kind, actor, target, value))
  BY DEF AskAdmin, AskPassword
<1>2. Logged(c, log) /\ UNCHANGED <<limit, guesses, now>>
  BY <1>1 DEF AskAdmin, AskPassword, Arrives
<1>3. /\ pc'[c] # "running"
      /\ \A d \in Client \ {c} : /\ pc'[d] = pc[d] /\ snap'[d] = snap[d]
                                 /\ req'[d] = req[d]
      /\ req'[c].at = now
  BY <1>1 DEF Arrives, Ready, IInv, ClientShape
<1>4. now \in Nat
  BY Constants DEF IInv, ClientShape
<1> QED
  BY <1>2, <1>3, <1>4, QuietCounts

LEMMA LogoutCounts ==
  ASSUME IInv, GInv, NEW c \in Client, Logout(c)
  PROVE  GInv'
<1>1. PICK s \in Session :
        Logged(c, Append(log, [since |-> Len(log), reads |-> {},
                               writes |-> {SessionItem(s)}]))
  BY DEF Logout
<1>2. [since |-> Len(log), reads |-> {}, writes |-> {SessionItem(s)}] \in Commit
  BY DEF IInv, ClientShape, Commit, Item
<1>3. /\ UNCHANGED <<limit, guesses, now, pc, req, snap>>
      /\ pc[c] = "idle"
  BY DEF Logout, Sends
<1> QED
  BY <1>1, <1>2, <1>3, QuietCounts

LEMMA EndCounts ==
  ASSUME IInv, GInv, NEW c \in Client, NEW where \in {"idle", "ready"},
         Running(c), End(c, where), UNCHANGED <<limit, guesses>>,
         Logged(c, log) \/ Logged(c, Append(log, Entry(c)))
  PROVE  GInv'
<1>1. Entry(c) \in Commit
  BY EntryIsACommit DEF IInv
<1>2. /\ UNCHANGED <<limit, guesses, now>> /\ pc'[c] = where
      /\ \A d \in Client \ {c} : /\ pc'[d] = pc[d] /\ snap'[d] = snap[d]
                                 /\ req'[d] = req[d]
      /\ where # "idle" => req'[c] = req[c]
  BY DEF End, IInv, ClientShape
<1>3. req[c].at <= now
  BY DEF Running, GInv, AskedBefore
<1> QED
  BY <1>1, <1>2, <1>3, QuietCounts

LEMMA BeginCounts ==
  ASSUME IInv, GInv, NEW c \in Client, Begin(c)
  PROVE  GInv'
<1>1. /\ UNCHANGED <<limit, guesses, now, log, req>>
      /\ pc' = [pc EXCEPT ![c] = "running"] /\ pc[c] = "ready"
      /\ snap' = [snap EXCEPT ![c] = Tables]
  BY DEF Begin
<1>2. \A d \in Client : pc'[d] # "idle" => pc[d] # "idle"
  BY <1>1 DEF IInv, ClientShape
<1>3. LimitsExplained'
  <2> SUFFICES ASSUME NEW d \in Client, Running(d)', NEW u \in User,
                      limit'[u] # snap'[d].limit[u]
               PROVE  Replaced(log', snap'[d].since, LimitItem(u))
    BY DEF LimitsExplained
  <2>1. d # c
    BY <1>1 DEF IInv, ClientShape, Tables
  <2> QED
    BY <2>1, <1>1 DEF IInv, ClientShape, GInv, LimitsExplained, Running
<1> QED
  BY <1>1, <1>2, <1>3, SameGuesses DEF GInv, AskedBefore

LEMMA AcquireCounts ==
  ASSUME IInv, GInv, NEW c \in Client, Acquire(c)
  PROVE  GInv'
<1>1. UNCHANGED <<limit, guesses, now, log, pc, req, snap>>
  BY DEF Acquire
<1>2. LimitsExplained'
  BY <1>1 DEF GInv, LimitsExplained, Running
<1> QED
  BY <1>1, <1>2, SameGuesses DEF GInv, AskedBefore

LEMMA TickCounts ==
  ASSUME IInv, GInv, Tick
  PROVE  GInv'
<1>1. /\ UNCHANGED <<limit, guesses, log, pc, req, snap>>
      /\ now' = now + 1 /\ now \in Nat
  BY Constants DEF Tick, IInv, ClientShape
<1>2. LimitsExplained'
  BY <1>1 DEF GInv, LimitsExplained, Running
<1>3. AskedBefore'
  <2>1. \A c \in Client : pc[c] # "idle" => req[c].at \in Nat
    BY Constants DEF IInv, ClientShape, IsRequest
  <2> QED
    BY <1>1, <2>1 DEF GInv, AskedBefore
<1>4. \A u \in User : Counted(guesses'[u], limit'[u], now')
  BY <1>1, CountedLater DEF GInv
<1> QED
  BY <1>1, <1>2, <1>3, <1>4 DEF GInv

LEMMA CommitLoginCounts ==
  ASSUME IInv, GInv, NEW c \in Client, CommitLogin(c)
  PROVE  GInv'
<1> DEFINE S == snap[c]
           q == req[c]
           e == Entry(c)
           u0 == q.target
<1>1. /\ Running(c) /\ q.kind = "login" /\ ~Conflicts(c)
      /\ Logged(c, Append(log, e)) /\ End(c, "idle")
  BY DEF CommitLogin, MayEnd
<1>2. /\ IsRequest(q) /\ S \in Snapshot /\ e \in Commit
      /\ u0 \in User /\ q.at \in 0..Horizon /\ now \in 0..Horizon
      /\ q.at <= now /\ log \in Seq(Commit)
  BY <1>1, EntryIsACommit
     DEF IInv, ClientShape, Running, IsRequest, GInv, AskedBefore
<1>3. /\ pc'[c] = "idle" /\ now' = now
      /\ \A d \in Client \ {c} : /\ pc'[d] = pc[d] /\ snap'[d] = snap[d]
                                 /\ req'[d] = req[d]
  BY <1>1 DEF End, IInv, ClientShape
<1>4. /\ limit' = [limit EXCEPT ![u0] =
                     CASE Clears(S, q)             -> NoLimit
                       [] Answer(S, q) = "INVALID" -> Failed(S.limit[u0], q.at)
                       [] OTHER                    -> @]
      /\ guesses' = [guesses EXCEPT ![u0] =
                       CASE Clears(S, q)             -> << >>
                         [] Answer(S, q) = "INVALID" -> Append(@, Guess(q.at, now))
                         [] OTHER                    -> @]
  BY DEF CommitLogin
<1>5. DOMAIN limit = User /\ DOMAIN guesses = User
  BY DEF IInv, TableShape, GInv
<1>6. \A u \in User \ {u0} : limit'[u] = limit[u] /\ guesses'[u] = guesses[u]
  BY <1>4, <1>5
<1>7. DOMAIN guesses' = User
  BY <1>4, <1>5
<1>8. AskedBefore'
  BY <1>3 DEF GInv, AskedBefore
(* Who rewrites or removes the limit found it as it is.                    *)
<1>9. ASSUME LimitItem(u0) \in e.writes
      PROVE  limit[u0] = S.limit[u0]
  <2>1. LimitItem(u0) \in e.writes \cap Rows
    BY <1>2, <1>9 DEF Rows
  <2>2. ~Overwritten(log, S.since, e.writes \cap Rows)
    BY <1>1 DEF Conflicts, Overwrites
  <2>3. ~Replaced(log, S.since, LimitItem(u0))
    BY <2>1, <2>2, <1>2, FirstUpdaterWins
  <2> QED
    BY <2>3, <1>1, <1>2 DEF GInv, LimitsExplained
<1>10. Counted(guesses[u0], limit[u0], now)
  BY <1>2 DEF GInv
<1>11. CASE Clears(S, q)
  <2>1. LimitItem(u0) \in e.writes
    BY <1>11 DEF Clears, Entry, Writes
  <2>2. limit'[u0] = NoLimit /\ guesses'[u0] = << >>
    <3>1. Clears(S, q) = TRUE /\ Answer(S, q) # "INVALID"
      BY <1>11 DEF Clears
    <3> QED
      BY <3>1, <1>2, <1>4, <1>5
  <2>3. Counted(guesses'[u0], limit'[u0], now)
    BY <2>2, NoGuesses
  <2> QED
    BY <2>1, <2>3, <1>1, <1>2, <1>3, <1>6, <1>7, <1>8, LimitsAreTold
       DEF GInv, IInv
<1>12. CASE ~Clears(S, q) /\ Answer(S, q) = "INVALID"
  <2>1. LimitItem(u0) \in e.writes
    BY <1>12 DEF Entry, Writes
  <2>2. /\ limit'[u0] = Failed(S.limit[u0], q.at)
        /\ guesses'[u0] = Append(guesses[u0], Guess(q.at, now))
    BY <1>2, <1>4, <1>5, <1>12
  <2>3. LoginAllowed(S.limit[u0], q.at) /\ S.limit[u0] \in LimitRow
    BY <1>1, <1>2, <1>12, OfALogin DEF Snapshot
  <2>4. Counted(guesses'[u0], limit'[u0], now)
    BY <2>1, <2>2, <2>3, <1>2, <1>9, <1>10, OneMoreGuess
  <2> QED
    BY <2>1, <2>4, <1>1, <1>2, <1>3, <1>6, <1>7, <1>8, LimitsAreTold
       DEF GInv, IInv
<1>13. CASE ~Clears(S, q) /\ Answer(S, q) # "INVALID"
  <2>1. limit'[u0] = limit[u0] /\ guesses'[u0] = guesses[u0]
    BY <1>2, <1>4, <1>5, <1>13
  <2> QED
    BY <2>1, <1>1, <1>2, <1>3, <1>6, <1>7, <1>8, <1>10, LimitsAreTold
       DEF GInv, IInv
<1> QED
  BY <1>11, <1>12, <1>13

LEMMA InitCounts == Init => GInv
<1> SUFFICES ASSUME Init
             PROVE  GInv
  OBVIOUS
<1>1. \A u \in User : limit[u] = NoLimit /\ guesses[u] = << >>
  BY DEF Init
<1>2. \A c \in Client : pc[c] = "idle"
  BY DEF Init
<1>3. DOMAIN guesses = User
  BY DEF Init
<1> QED
  BY <1>1, <1>2, <1>3, NoGuesses DEF GInv, LimitsExplained, AskedBefore, Running

LEMMA NextCounts == IInv /\ GInv /\ [Next]_vars => GInv'
<1> SUFFICES ASSUME IInv, GInv, [Next]_vars
             PROVE  GInv'
  OBVIOUS
<1>1. CASE Tick
  BY <1>1, TickCounts
<1>2. ASSUME NEW c \in Client, CommitChange(c)
      PROVE  GInv'
  BY <1>2, EndCounts DEF CommitChange, MayEnd
<1>3. ASSUME NEW c \in Client, Refuse(c)
      PROVE  GInv'
  BY <1>3, EndCounts DEF Refuse, MayEnd
<1>4. ASSUME NEW c \in Client, Abort(c)
      PROVE  GInv'
  BY <1>4, EndCounts DEF Abort
<1>5. ASSUME NEW c \in Client,
             \/ AskLogin(c) \/ AskAdmin(c) \/ AskPassword(c) \/ Logout(c)
             \/ Begin(c) \/ Acquire(c) \/ CommitLogin(c)
      PROVE  GInv'
  BY <1>5, AskLoginCounts, AskCounts, LogoutCounts, BeginCounts,
     AcquireCounts, CommitLoginCounts
<1>6. CASE UNCHANGED vars
  BY <1>6 DEF vars, GInv, LimitsExplained, AskedBefore, Running
<1> QED
  BY <1>1, <1>2, <1>3, <1>4, <1>5, <1>6 DEF Next

(* Twice the failures that block take as long as a window or a block, from *)
(* the first that is asked to the last that is answered: no failure is     *)
(* lost to another that is counted at the same time, and a limit is        *)
(* cleared only by time or by a success (rate-limit.ts,                    *)
(* authentication-audit.ts, processLoginWithAudit).                        *)
THEOREM GuessesAreBoundedHolds == Spec => []GuessesAreBounded
<1>1. Init => IInv /\ GInv
  BY InitIsInvariant, InitCounts
<1>2. IInv /\ GInv /\ [Next]_vars => (IInv /\ GInv)'
  BY NextIsInvariant, NextCounts
<1>3. GInv => GuessesAreBounded
  BY DEF GInv, Counted, Spread, GuessesAreBounded
<1> QED
  BY <1>1, <1>2, <1>3, PTL DEF Spec

-----------------------------------------------------------------------------
(* The audit trail.  Events have a place in one order, and what an         *)
(* administrator has of them, the list on the page or a page on its way,   *)
(* is a reading: a stretch of that order with nothing left out.            *)
EventRow == [state : {"NONE", "OPEN", "WRITTEN"}, at : Nat, source : Source]

EntriesTyped == entry \in [Event -> EventRow]

Written(e) == entry[e].state = "WRITTEN"

(* The items read after one cursor, down to another or to the end, with    *)
(* every event of E that belongs between them.                             *)
IsReading(items, next, r, after, E) ==
  /\ items \in Seq(Event)
  /\ \A i \in 1..Len(items) : Matches(items[i], r) /\ Beyond(items[i], after)
  /\ \A i \in 1..(Len(items) - 1) :
        Before(Position(items[i + 1]), Position(items[i]))
  /\ next # NoCursor =>
        /\ Len(items) > 0
        /\ next = [position |-> Position(items[Len(items)]), of |-> r]
  /\ \A e \in E :
        /\ e \in Event /\ Written(e)
        /\ /\ Matches(e, r) /\ Beyond(e, after)
           /\ \/ next = NoCursor
              \/ Before(Position(items[Len(items)]), Position(e))
           => \E i \in 1..Len(items) : items[i] = e

(* A request goes on from the cursor of the list as it is, and was served  *)
(* if the filters are still those of the list.                             *)
AInv ==
  /\ EntriesTyped
  /\ DOMAIN loading = DOMAIN NotLoading
  /\ IsReading(list.items, list.cursor, listed, NoCursor, visible)
  /\ loading.state \in {"SENT", "READ"} /\ loading.cursor # NoCursor
       => loading.cursor = list.cursor
  /\ loading.state = "READ" =>
       /\ IsReading(loading.page.items, loading.page.cursor, loading.read,
                    loading.cursor, loading.seen)
       /\ loading.cursor # NoCursor =>
            /\ loading.cursor.of = loading.read
            /\ visible \subseteq loading.seen

LEMMA AuditConstants ==
  /\ Event \subseteq Nat /\ IsFiniteSet(Event)
  /\ NoEvent \notin Event
  /\ PageSize \in Nat /\ PageSize > 0
  BY AuditAssumption

(* The order of the merged query, by instant, table and id, is total.      *)
LEMMA PositionsAreOrdered ==
  ASSUME EntriesTyped, NEW d \in Event, NEW e \in Event
  PROVE  /\ ~Before(Position(e), Position(e))
         /\ d # e => Before(Position(d), Position(e))
                       \/ Before(Position(e), Position(d))
         /\ \A f \in Event :
              Before(Position(d), Position(e)) /\ Before(Position(e), Position(f))
              => Before(Position(d), Position(f))
<1>1. \A f \in Event : /\ entry[f].at \in Nat
                       /\ Rank(entry[f].source) \in Nat
                       /\ f \in Nat
  <2>1. TAKE f \in Event
  <2>2. entry[f] \in EventRow
    BY DEF EntriesTyped
  <2> QED
    BY <2>2, AuditConstants DEF EventRow, Rank
<1> QED
  BY <1>1 DEF Before, Position

(* No place in the order is that of a missing cursor.                      *)
LEMMA CursorsAreSomewhere ==
  ASSUME NEW e \in Event, NEW r
  PROVE  [position |-> Position(e), of |-> r] # NoCursor
<1>1. Position(e).id = e
  BY DEF Position
<1>2. NoCursor.position.id = NoEvent
  BY DEF NoCursor
<1> QED
  BY <1>1, <1>2, AuditConstants

(* The merged query returns every event of a set once, the newest first.   *)
LEMMA SortedInOrder ==
  ASSUME EntriesTyped, NEW E \in SUBSET Event
  PROVE  /\ Sorted(E) \in Seq(E)
         /\ \A i, j \in 1..Len(Sorted(E)) :
              i < j => Before(Position(Sorted(E)[j]), Position(Sorted(E)[i]))
         /\ \A e \in E : \E i \in 1..Len(Sorted(E)) : Sorted(E)[i] = e
<1> DEFINE n == Cardinality(E)
           newer(e) == {d \in E : Before(Position(e), Position(d))}
           rank == [e \in E |-> Cardinality(newer(e)) + 1]
           Newest(s) == \A i, j \in DOMAIN s :
                          i < j => Before(Position(s[j]), Position(s[i]))
<1>1. IsFiniteSet(E) /\ n \in Nat
  BY AuditConstants, FS_Subset, FS_CardinalityType
<1>2. IsFiniteSet(1..n) /\ Cardinality(1..n) = n
  BY <1>1, FS_Interval
<1>3. ASSUME NEW e \in E
      PROVE  IsFiniteSet(newer(e)) /\ rank[e] \in 1..n
  <2>1. newer(e) \in SUBSET (E \ {e})
    BY PositionsAreOrdered
  <2>2. IsFiniteSet(E \ {e}) /\ Cardinality(E \ {e}) = n - 1
    BY <1>1, FS_RemoveElement
  <2>3. IsFiniteSet(newer(e)) /\ Cardinality(newer(e)) <= n - 1
    BY <2>1, <2>2, FS_Subset
  <2>4. Cardinality(newer(e)) \in Nat
    BY <2>3, FS_CardinalityType
  <2>5. rank[e] = Cardinality(newer(e)) + 1
    OBVIOUS
  <2> HIDE DEF newer, rank, n
  <2> QED
    BY <1>1, <2>3, <2>4, <2>5
<1>4. ASSUME NEW d \in E, NEW e \in E, Before(Position(d), Position(e))
      PROVE  rank[e] < rank[d]
  <2>1. newer(e) \in SUBSET newer(d)
    BY <1>4, PositionsAreOrdered
  <2>2. e \in newer(d) /\ e \notin newer(e)
    BY <1>4, PositionsAreOrdered
  <2>3. /\ Cardinality(newer(e)) <= Cardinality(newer(d))
        /\ Cardinality(newer(d)) = Cardinality(newer(e)) => newer(d) = newer(e)
    BY <1>3, <2>1, FS_Subset
  <2>4. Cardinality(newer(e)) \in Nat /\ Cardinality(newer(d)) \in Nat
    BY <1>3, FS_CardinalityType
  <2>5. /\ rank[e] = Cardinality(newer(e)) + 1
        /\ rank[d] = Cardinality(newer(d)) + 1
    OBVIOUS
  <2> HIDE DEF newer, rank
  <2> QED
    BY <2>2, <2>3, <2>4, <2>5
<1>5. \A i \in 1..n : \E e \in E : rank[e] = i
  <2>1. \A d, e \in E : d # e => rank[d] # rank[e]
    <3>1. TAKE d \in E, e \in E
    <3>2. rank[d] \in 1..n /\ rank[e] \in 1..n
      BY <1>3
    <3> HIDE DEF rank, n
    <3> QED
      BY <1>1, <1>4, <3>2, PositionsAreOrdered
  <2>2. rank \in [E -> 1..n]
    BY <1>3
  <2> HIDE DEF rank
  <2>3. rank \in Injection(E, 1..n)
    BY <2>1, <2>2 DEF Injection, IsInjective
  <2>4. rank \in Surjection(E, 1..n)
    BY <1>2, <2>3, FS_Injection
  <2> QED
    BY <2>4 DEF Surjection
<1>6. \E s \in [1..n -> E] : Newest(s)
  <2> DEFINE s == [i \in 1..n |-> CHOOSE e \in E : rank[e] = i]
  <2>1. \A i \in 1..n : s[i] \in E /\ rank[s[i]] = i
    <3> HIDE DEF rank
    <3> QED
      BY <1>5
  <2>2. s \in [1..n -> E]
    BY <2>1
  <2>3. ASSUME NEW i \in DOMAIN s, NEW j \in DOMAIN s, i < j
        PROVE  Before(Position(s[j]), Position(s[i]))
    <3>1. i \in 1..n /\ j \in 1..n
      BY <2>2
    <3>2. rank[s[i]] = i /\ rank[s[j]] = j /\ s[i] \in E /\ s[j] \in E
      BY <2>1, <3>1
    <3>3. s[i] # s[j] /\ ~(rank[s[j]] < rank[s[i]])
      <4> HIDE DEF rank, s, n
      <4> QED
        BY <1>1, <2>3, <3>1, <3>2
    <3> HIDE DEF rank, s, n
    <3> QED
      BY <1>4, <3>2, <3>3, PositionsAreOrdered
  <2> HIDE DEF s
  <2> QED
    BY <2>2, <2>3
<1> DEFINE t == Sorted(E)
<1>7. t \in [1..n -> E] /\ Newest(t)
  BY <1>6 DEF Sorted
<1>8. t \in Seq(E) /\ Len(t) = n
  <2> HIDE DEF t, n
  <2> QED
    BY <1>1, <1>7
<1>9. \A i, j \in 1..n : i < j => Before(Position(t[j]), Position(t[i]))
  <2> HIDE DEF t, n
  <2> QED
    BY <1>7
<1>10. \A e \in E : \E i \in 1..n : t[i] = e
  <2> HIDE DEF t
  <2>1. ASSUME NEW i \in 1..n, NEW j \in 1..n, i # j
        PROVE  t[i] # t[j]
    <3>1. t[i] \in Event /\ t[j] \in Event
      BY <1>7
    <3>2. i < j \/ j < i
      <4> HIDE DEF n
      <4> QED
        BY <1>1, <2>1
    <3> HIDE DEF n
    <3> QED
      BY <1>9, <3>1, <3>2, PositionsAreOrdered
  <2>2. t \in Injection(1..n, E)
    <3> HIDE DEF n
    <3> QED
      BY <1>7, <2>1 DEF Injection, IsInjective
  <2>3. t \in Surjection(1..n, E)
    BY <1>1, <1>2, <2>2, FS_Injection
  <2> HIDE DEF n
  <2> QED
    BY <2>3 DEF Surjection
<1> HIDE DEF t, n
<1> QED
  BY <1>8, <1>9, <1>10 DEF t

(* What readUnifiedAuditPage returns is a reading of all that is written.  *)
LEMMA PagesAreReadings ==
  ASSUME EntriesTyped, NEW r, NEW after
  PROVE  IsReading(PageOf(r, after).items, PageOf(r, after).cursor, r, after,
                   {e \in Event : entry[e].state = "WRITTEN"})
<1> DEFINE E == {e \in Event : Matches(e, r) /\ Beyond(e, after)}
           rows == Sorted(E)
           m == IF Len(rows) < PageSize THEN Len(rows) ELSE PageSize
           page == SubSeq(rows, 1, m)
           next == IF Len(rows) > PageSize
                     THEN [position |-> Position(Last(page)), of |-> r]
                     ELSE NoCursor
<1>1. PageOf(r, after).items = page /\ PageOf(r, after).cursor = next
  BY DEF PageOf
<1>2. /\ rows \in Seq(E)
      /\ \A i, j \in 1..Len(rows) :
           i < j => Before(Position(rows[j]), Position(rows[i]))
      /\ \A e \in E : \E i \in 1..Len(rows) : rows[i] = e
  BY SortedInOrder
<1>3. E \subseteq Event /\ \A e \in E : Matches(e, r) /\ Beyond(e, after)
  OBVIOUS
<1>4. \A e \in Event : Matches(e, r) /\ Beyond(e, after) => e \in E
  OBVIOUS
<1> HIDE DEF E, rows
<1>5. m \in 0..Len(rows) /\ m <= PageSize /\ (m < Len(rows) => m = PageSize)
  BY <1>2, AuditConstants
<1> HIDE DEF m
<1>6. /\ page \in Seq(Event) /\ Len(page) = m
      /\ \A i \in 1..m : page[i] = rows[i]
  BY <1>2, <1>3, <1>5
<1> HIDE DEF page
<1>7. \A i \in 1..m : page[i] \in E
  BY <1>2, <1>5, <1>6
<1>8. \A i \in 1..Len(page) : Matches(page[i], r) /\ Beyond(page[i], after)
  BY <1>3, <1>6, <1>7
<1>9. \A i \in 1..(Len(page) - 1) :
         Before(Position(page[i + 1]), Position(page[i]))
  <2>1. TAKE i \in 1..(Len(page) - 1)
  <2>2. i \in 1..m /\ i + 1 \in 1..m /\ i < i + 1
    BY <1>5, <1>6
  <2>3. i \in 1..Len(rows) /\ i + 1 \in 1..Len(rows)
    BY <1>2, <1>5, <2>2
  <2> QED
    BY <1>2, <1>6, <2>2, <2>3
<1>10. next # NoCursor =>
         /\ Len(page) > 0
         /\ next = [position |-> Position(page[Len(page)]), of |-> r]
  BY <1>2, <1>5, <1>6, AuditConstants DEF Last, m
<1>11. ASSUME NEW e \in Event, Matches(e, r), Beyond(e, after),
              \/ next = NoCursor
              \/ Before(Position(page[Len(page)]), Position(e))
       PROVE  \E i \in 1..Len(page) : page[i] = e
  <2>1. PICK k \in 1..Len(rows) : rows[k] = e
    BY <1>2, <1>4, <1>11
  <2>2. CASE k <= m
    BY <1>2, <1>5, <1>6, <2>1, <2>2
  <2>3. CASE m < k
    <3>1. m = PageSize /\ Len(rows) > PageSize /\ m \in 1..m
      BY <1>2, <1>5, <2>3, AuditConstants
    <3>2. page[Len(page)] = rows[m] /\ rows[m] \in Event
      BY <1>2, <1>3, <1>5, <1>6, <3>1
    <3>3. next # NoCursor
      BY <1>6, <3>1, <3>2, CursorsAreSomewhere DEF Last
    <3>4. Before(Position(e), Position(rows[m]))
      BY <1>2, <1>5, <2>1, <2>3, <3>1
    <3> QED
      BY <1>11, <3>2, <3>3, <3>4, PositionsAreOrdered
  <2> QED
    BY <1>2, <1>5, <2>2, <2>3
<1> HIDE DEF next
<1> QED
  BY <1>1, <1>6, <1>8, <1>9, <1>10, <1>11 DEF IsReading, Written

(* A page read from where a list ends, under the same filters, goes on     *)
(* with it: together they are one reading of what could be seen at first.  *)
LEMMA ReadingsJoin ==
  ASSUME EntriesTyped, NEW A, NEW B, NEW after, NEW next, NEW r, NEW V, NEW S,
         after # NoCursor, V \subseteq S,
         IsReading(A, after, r, NoCursor, V), IsReading(B, next, r, after, S)
  PROVE  IsReading(A \o B, next, r, NoCursor, V)
<1> DEFINE C == A \o B
<1>1. /\ A \in Seq(Event) /\ B \in Seq(Event) /\ Len(A) > 0
      /\ after = [position |-> Position(A[Len(A)]), of |-> r]
  BY DEF IsReading
<1>2. /\ C \in Seq(Event) /\ Len(C) = Len(A) + Len(B)
      /\ \A i \in 1..Len(A) : C[i] = A[i]
      /\ \A i \in 1..Len(B) : C[Len(A) + i] = B[i]
  BY <1>1
<1> HIDE DEF C
<1>3. \A i \in 1..Len(C) : i \in 1..Len(A) \/ i - Len(A) \in 1..Len(B)
  BY <1>1, <1>2
<1>4. A[Len(A)] \in Event /\ \A i \in 1..Len(B) : B[i] \in Event
  BY <1>1
<1>5. \A i \in 1..Len(B) : Before(Position(B[i]), Position(A[Len(A)]))
  BY <1>1 DEF IsReading, Beyond
<1>6. \A i \in 1..Len(C) : Matches(C[i], r) /\ Beyond(C[i], NoCursor)
  <2>1. TAKE i \in 1..Len(C)
  <2>2. CASE i \in 1..Len(A)
    BY <1>2, <2>2 DEF IsReading
  <2>3. CASE i - Len(A) \in 1..Len(B)
    <3>1. C[i] = B[i - Len(A)]
      BY <1>1, <1>2, <2>3
    <3> QED
      BY <2>3, <3>1 DEF IsReading, Beyond
  <2> QED
    BY <1>3, <2>2, <2>3
<1>7. \A i \in 1..(Len(C) - 1) : Before(Position(C[i + 1]), Position(C[i]))
  <2>1. TAKE i \in 1..(Len(C) - 1)
  <2>2. CASE i < Len(A)
    <3>1. i \in 1..(Len(A) - 1) /\ C[i] = A[i] /\ C[i + 1] = A[i + 1]
      BY <1>1, <1>2, <2>2
    <3> QED
      BY <3>1 DEF IsReading
  <2>3. CASE i = Len(A)
    <3>1. 1 \in 1..Len(B) /\ C[i] = A[Len(A)] /\ C[i + 1] = B[1]
      BY <1>1, <1>2, <2>3
    <3> QED
      BY <1>5, <3>1
  <2>4. CASE i > Len(A)
    <3> DEFINE k == i - Len(A)
    <3>1. /\ k \in 1..(Len(B) - 1) /\ k \in 1..Len(B) /\ k + 1 \in 1..Len(B)
          /\ Len(A) + k = i /\ Len(A) + (k + 1) = i + 1
      BY <1>1, <1>2, <2>4
    <3>2. C[Len(A) + k] = B[k]
      BY <1>2, <3>1
    <3>3. C[Len(A) + (k + 1)] = B[k + 1]
      BY <1>2, <3>1
    <3>4. Before(Position(B[k + 1]), Position(B[k]))
      BY <3>1 DEF IsReading
    <3> HIDE DEF k
    <3> QED
      BY <3>1, <3>2, <3>3, <3>4
  <2> QED
    BY <1>1, <2>2, <2>3, <2>4
<1>8. next # NoCursor =>
        /\ Len(C) > 0
        /\ next = [position |-> Position(C[Len(C)]), of |-> r]
  <2>1. SUFFICES ASSUME next # NoCursor
                 PROVE  /\ Len(C) > 0
                        /\ next = [position |-> Position(C[Len(C)]), of |-> r]
    OBVIOUS
  <2>2. Len(B) > 0 /\ next = [position |-> Position(B[Len(B)]), of |-> r]
    BY <2>1 DEF IsReading
  <2>3. C[Len(C)] = B[Len(B)] /\ Len(C) > 0
    <3>1. Len(B) \in 1..Len(B) /\ Len(C) > 0
      BY <1>1, <1>2, <2>2
    <3>2. C[Len(A) + Len(B)] = B[Len(B)]
      BY <1>2, <3>1
    <3> QED
      BY <1>2, <3>1, <3>2
  <2> QED
    BY <2>2, <2>3
<1>9. ASSUME NEW e \in V, Matches(e, r),
             \/ next = NoCursor
             \/ Before(Position(C[Len(C)]), Position(e))
      PROVE  \E i \in 1..Len(C) : C[i] = e
  <2>1. e \in Event /\ e \in S
    BY DEF IsReading
  <2>2. CASE e = A[Len(A)]
    BY <1>1, <1>2, <2>2
  <2>3. CASE Before(Position(A[Len(A)]), Position(e))
    <3>1. PICK i \in 1..Len(A) : A[i] = e
      BY <1>9, <2>3 DEF IsReading, Beyond
    <3> QED
      BY <1>1, <1>2, <3>1
  <2>4. CASE Before(Position(e), Position(A[Len(A)]))
    <3>1. Beyond(e, after)
      BY <1>1, <2>4 DEF Beyond
    <3>2. next # NoCursor => Before(Position(B[Len(B)]), Position(e))
      <4>1. next # NoCursor => C[Len(C)] = B[Len(B)]
        <5> SUFFICES ASSUME next # NoCursor
                     PROVE  C[Len(C)] = B[Len(B)]
          OBVIOUS
        <5>1. Len(B) > 0
          BY DEF IsReading
        <5>2. Len(B) \in 1..Len(B)
          BY <1>1, <5>1
        <5>3. C[Len(A) + Len(B)] = B[Len(B)]
          BY <1>2, <5>2
        <5> QED
          BY <1>2, <5>3
      <4> QED
        BY <1>9, <4>1
    <3>3. PICK i \in 1..Len(B) : B[i] = e
      BY <1>9, <2>1, <3>1, <3>2 DEF IsReading
    <3>4. Len(A) + i \in 1..Len(C) /\ C[Len(A) + i] = e
      BY <1>1, <1>2, <3>3
    <3> QED
      BY <3>4
  <2> QED
    BY <1>4, <2>1, <2>2, <2>3, <2>4, PositionsAreOrdered
<1>10. \A e \in V : e \in Event /\ Written(e)
  BY DEF IsReading
<1> QED
  BY <1>2, <1>6, <1>7, <1>8, <1>9, <1>10 DEF IsReading, C

(* Events that are written later leave a reading what it was.              *)
LEMMA ReadingsStay ==
  ASSUME NEW items, NEW next, NEW r, NEW after, NEW E,
         IsReading(items, next, r, after, E),
         \A e \in Event : Written(e) => entry'[e] = entry[e]
  PROVE  IsReading(items, next, r, after, E)'
<1>1. \A e \in Event : Written(e) =>
        /\ Position(e)' = Position(e)
        /\ Matches(e, r)' <=> Matches(e, r)
        /\ Beyond(e, after)' <=> Beyond(e, after)
        /\ Written(e)'
  BY DEF Position, Matches, Beyond, Written
<1>2. /\ items \in Seq(Event)
      /\ \A i \in 1..Len(items) : items[i] \in Event /\ Written(items[i])
  BY DEF IsReading, Matches, Written
<1>3. \A i \in 1..Len(items) :
        Matches(items[i], r)' /\ Beyond(items[i], after)'
  BY <1>1, <1>2 DEF IsReading
<1>4. \A i \in 1..Len(items) : Position(items[i])' = Position(items[i])
  BY <1>1, <1>2
<1>5. \A i \in 1..(Len(items) - 1) :
        Before(Position(items[i + 1]), Position(items[i]))'
  <2>1. TAKE i \in 1..(Len(items) - 1)
  <2>2. i \in 1..Len(items) /\ i + 1 \in 1..Len(items)
    BY <1>2
  <2>3. Before(Position(items[i + 1]), Position(items[i]))
    BY DEF IsReading
  <2> QED
    BY <1>4, <2>2, <2>3 DEF Before
<1>6. next # NoCursor =>
        /\ Len(items) > 0
        /\ next = [position |-> Position(items[Len(items)])', of |-> r]
  BY <1>2, <1>4 DEF IsReading
<1>7. ASSUME NEW e \in E
      PROVE  /\ e \in Event /\ Written(e)'
             /\ /\ Matches(e, r)' /\ Beyond(e, after)'
                /\ \/ next = NoCursor
                   \/ Before(Position(items[Len(items)]), Position(e))'
                => \E i \in 1..Len(items) : items[i] = e
  <2>1. e \in Event /\ Written(e)
    BY DEF IsReading
  <2>2. next # NoCursor =>
          (Before(Position(items[Len(items)]), Position(e))'
             <=> Before(Position(items[Len(items)]), Position(e)))
    <3>1. next # NoCursor => Len(items) \in 1..Len(items)
      BY <1>2 DEF IsReading
    <3> QED
      BY <1>1, <1>4, <2>1, <3>1 DEF Before
  <2> QED
    BY <1>1, <2>1, <2>2 DEF IsReading
<1> QED
  BY <1>2, <1>3, <1>5, <1>6, <1>7 DEF IsReading, NoCursor, Resolved

-----------------------------------------------------------------------------
(* Every step keeps the readings: only a page that is received changes the *)
(* list, and only the reader's own requests decide on it.                  *)
LEMMA EventsKeepReadings ==
  ASSUME AInv, EntriesTyped', UNCHANGED <<list, loading, listed, visible>>,
         \A e \in Event : Written(e) => entry'[e] = entry[e]
  PROVE  AInv'
<1>1. \A items, next, r, after, E :
        IsReading(items, next, r, after, E) => IsReading(items, next, r, after, E)'
  BY ReadingsStay
<1>2. NoCursor' = NoCursor
  BY DEF NoCursor, Resolved
<1>3. IsReading(list.items, list.cursor, listed, NoCursor, visible)'
  BY <1>1, <1>2 DEF AInv
<1>4. (loading.state = "READ"
         => IsReading(loading.page.items, loading.page.cursor, loading.read,
                      loading.cursor, loading.seen))'
  BY <1>1 DEF AInv
<1> QED
  BY <1>2, <1>3, <1>4 DEF AInv

LEMMA SameReadings ==
  ASSUME AInv, UNCHANGED <<entry, list, loading, listed, visible>>
  PROVE  AInv'
<1>1. EntriesTyped'
  BY DEF AInv, EntriesTyped
<1> QED
  BY <1>1, EventsKeepReadings

(* What a step that writes no event leaves of the list.                    *)
LEMMA SameList ==
  ASSUME AInv, UNCHANGED <<entry, list, listed, visible>>
  PROVE  /\ EntriesTyped'
         /\ IsReading(list.items, list.cursor, listed, NoCursor, visible)'
         /\ NoCursor' = NoCursor
<1>1. EntriesTyped'
  BY DEF AInv, EntriesTyped
<1>2. \A items, next, r, after, E :
        IsReading(items, next, r, after, E) => IsReading(items, next, r, after, E)'
  BY ReadingsStay
<1>3. NoCursor' = NoCursor
  BY DEF NoCursor, Resolved
<1> QED
  BY <1>1, <1>2, <1>3 DEF AInv

LEMMA BeginEventKeeps ==
  ASSUME AInv, now \in 0..Horizon, NEW e \in Event, NEW source \in Source,
         BeginEvent(e, source)
  PROVE  AInv'
<1>1. now \in Nat
  BY Constants
<1>2. [state |-> "OPEN", at |-> now, source |-> source] \in EventRow
  BY <1>1 DEF EventRow
<1>3. EntriesTyped'
  BY <1>2 DEF AInv, EntriesTyped, BeginEvent
<1>4. ~Written(e)
  BY DEF BeginEvent, Unwritten, Written
<1>5. \A d \in Event : Written(d) => entry'[d] = entry[d]
  BY <1>4 DEF AInv, EntriesTyped, BeginEvent
<1> QED
  BY <1>3, <1>5, EventsKeepReadings DEF BeginEvent, reading

LEMMA CommitEventKeeps ==
  ASSUME AInv, NEW e \in Event, CommitEvent(e)
  PROVE  AInv'
<1>1. entry \in [Event -> EventRow] /\ entry[e] \in EventRow
  BY DEF AInv, EntriesTyped
<1>2. entry' = [entry EXCEPT ![e] = [entry[e] EXCEPT !.state = "WRITTEN"]]
  BY <1>1 DEF CommitEvent
<1>3. [entry[e] EXCEPT !.state = "WRITTEN"] \in EventRow
  BY <1>1 DEF EventRow
<1>4. EntriesTyped'
  BY <1>1, <1>2, <1>3 DEF EntriesTyped
<1>5. ~Written(e)
  BY DEF CommitEvent, Written
<1>6. \A d \in Event : Written(d) => entry'[d] = entry[d]
  BY <1>1, <1>2, <1>5
<1> QED
  BY <1>4, <1>6, EventsKeepReadings DEF CommitEvent, reading

LEMMA LoadKeeps ==
  ASSUME AInv, NEW f, NEW cursor \in {NoCursor, list.cursor}, Load(f, cursor)
  PROVE  AInv'
<1>1. /\ loading'.state = "SENT" /\ loading'.cursor = cursor
      /\ DOMAIN loading' = DOMAIN NotLoading
  BY DEF Load, NotLoading
<1>2. (DOMAIN NotLoading)' = DOMAIN NotLoading
  BY DEF NotLoading
<1>3. UNCHANGED <<entry, list, listed, visible>>
  BY DEF Load
<1> QED
  BY <1>1, <1>2, <1>3, SameList DEF AInv

LEMMA ServePageKeeps ==
  ASSUME AInv, ServePage
  PROVE  AInv'
<1>1. UNCHANGED <<entry, list, listed, visible>>
  BY DEF ServePage
<1> DEFINE r == Resolved(loading.filters, now)
           c == loading.cursor
           seen == {e \in Event : entry[e].state = "WRITTEN"}
           page == PageOf(r, c)
<1>2. /\ DOMAIN loading = {"state", "filters", "cursor", "page", "read", "seen"}
      /\ c # NoCursor => c = list.cursor
  BY DEF AInv, ServePage, NotLoading
<1>3. CASE loading' = [loading EXCEPT !.state = "FAILED"]
  <2>1. DOMAIN loading' = DOMAIN loading /\ loading'.state = "FAILED"
    BY <1>2, <1>3
  <2>2. (DOMAIN NotLoading)' = DOMAIN NotLoading
    BY DEF NotLoading
  <2> QED
    BY <1>1, <2>1, <2>2, SameList DEF AInv
<1>4. CASE /\ OfTheseFilters(c, r)
           /\ loading' = [loading EXCEPT !.state = "READ", !.page = page,
                                         !.read = r, !.seen = seen]
  <2>1. IsReading(page.items, page.cursor, r, c, seen)
    BY PagesAreReadings DEF AInv
  <2>2. c # NoCursor => c.of = r
    BY <1>4 DEF OfTheseFilters
  <2>3. visible \subseteq seen
    BY DEF AInv, IsReading, Written
  <2> HIDE DEF page, r, seen
  <2>4. /\ DOMAIN loading' = DOMAIN loading
        /\ loading'.state = "READ" /\ loading'.cursor = c
        /\ loading'.page = page /\ loading'.read = r /\ loading'.seen = seen
    BY <1>2, <1>4
  <2>5. (DOMAIN NotLoading)' = DOMAIN NotLoading
    BY DEF NotLoading
  <2>6. \A items, next, s, after, E :
          IsReading(items, next, s, after, E)
            => IsReading(items, next, s, after, E)'
    BY <1>1, ReadingsStay
  <2>7. IsReading(loading.page.items, loading.page.cursor, loading.read,
                  loading.cursor, loading.seen)'
    BY <2>1, <2>4, <2>6
  <2> HIDE DEF c
  <2> QED
    BY <1>1, <1>2, <2>2, <2>3, <2>4, <2>5, <2>7, SameList DEF AInv, c
<1> QED
  BY <1>3, <1>4 DEF ServePage

LEMMA LosePageKeeps ==
  ASSUME AInv, LosePage
  PROVE  AInv'
<1>1. loading'.state = "FAILED" /\ DOMAIN loading' = DOMAIN NotLoading
  BY DEF LosePage, NotLoading
<1>2. (DOMAIN NotLoading)' = DOMAIN NotLoading
  BY DEF NotLoading
<1>3. UNCHANGED <<entry, list, listed, visible>>
  BY DEF LosePage
<1> QED
  BY <1>1, <1>2, <1>3, SameList DEF AInv

LEMMA ReceivePageKeeps ==
  ASSUME AInv, ReceivePage
  PROVE  AInv'
<1>1. /\ loading'.state = "NONE" /\ DOMAIN loading' = DOMAIN NotLoading
      /\ UNCHANGED entry
  BY DEF ReceivePage, NotLoading
<1>2. (DOMAIN NotLoading)' = DOMAIN NotLoading /\ NoCursor' = NoCursor
  BY DEF NotLoading, NoCursor, Resolved
<1>3. EntriesTyped'
  BY <1>1 DEF AInv, EntriesTyped
<1>4. \A items, next, r, after, E :
        IsReading(items, next, r, after, E) => IsReading(items, next, r, after, E)'
  BY <1>1, ReadingsStay
<1>5. CASE loading.state = "FAILED"
  BY <1>1, <1>2, <1>5, SameList DEF AInv, ReceivePage
<1>6. CASE loading.state = "READ" /\ loading.cursor = NoCursor
  <2>1. list' = loading.page /\ listed' = loading.read /\ visible' = loading.seen
    BY <1>6 DEF ReceivePage
  <2>2. IsReading(loading.page.items, loading.page.cursor, loading.read,
                  NoCursor, loading.seen)
    BY <1>6 DEF AInv
  <2>3. IsReading(list.items, list.cursor, listed, NoCursor, visible)'
    BY <1>2, <1>4, <2>1, <2>2
  <2> QED
    BY <1>1, <1>2, <1>3, <2>3 DEF AInv
<1>7. CASE loading.state = "READ" /\ loading.cursor # NoCursor
  <2>1. /\ list'.items = list.items \o loading.page.items
        /\ list'.cursor = loading.page.cursor
        /\ listed' = listed /\ visible' = visible
    <3>1. /\ list' = [items  |-> list.items \o loading.page.items,
                      cursor |-> loading.page.cursor]
          /\ UNCHANGED <<listed, visible>>
      BY <1>7, Zenon DEF ReceivePage
    <3> QED
      BY <3>1
  <2>2. /\ EntriesTyped
        /\ loading.cursor = list.cursor /\ loading.cursor.of = loading.read
        /\ visible \subseteq loading.seen
        /\ IsReading(list.items, list.cursor, listed, NoCursor, visible)
        /\ IsReading(loading.page.items, loading.page.cursor, loading.read,
                     loading.cursor, loading.seen)
    BY <1>7 DEF AInv
  <2>3. loading.read = listed
    BY <1>7, <2>2 DEF IsReading
  <2>4. IsReading(list.items \o loading.page.items, loading.page.cursor,
                  listed, NoCursor, visible)
    BY <1>7, <2>2, <2>3, ReadingsJoin
  <2>5. IsReading(list.items, list.cursor, listed, NoCursor, visible)'
    BY <1>2, <1>4, <2>1, <2>4
  <2> QED
    BY <1>1, <1>2, <1>3, <2>5 DEF AInv
<1> QED
  BY <1>5, <1>6, <1>7 DEF ReceivePage

LEMMA NothingIsRead == AuditInit => AInv
<1> SUFFICES ASSUME AuditInit
             PROVE  AInv
  OBVIOUS
<1>1. EntriesTyped
  BY DEF AuditInit, EntriesTyped, EventRow, Unwritten, Source
<1>2. /\ list.items = << >> /\ list.cursor = NoCursor /\ visible = {}
      /\ loading = NotLoading /\ loading.state = "NONE"
  BY DEF AuditInit, Nothing, NotLoading
<1>3. IsReading(<< >>, NoCursor, listed, NoCursor, {})
  BY DEF IsReading
<1> QED
  BY <1>1, <1>2, <1>3 DEF AInv

LEMMA AuditNextKeeps ==
  AInv /\ now \in 0..Horizon /\ [AuditNext]_auditVars => AInv'
<1> SUFFICES ASSUME AInv, now \in 0..Horizon, [AuditNext]_auditVars
             PROVE  AInv'
  OBVIOUS
<1>1. ASSUME NEW e \in Event, NEW source \in Source, BeginEvent(e, source)
      PROVE  AInv'
  BY <1>1, BeginEventKeeps
<1>2. ASSUME NEW e \in Event, CommitEvent(e)
      PROVE  AInv'
  BY <1>2, CommitEventKeeps
<1>3. ASSUME NEW e \in Event, OpenDetail(e)
      PROVE  AInv'
  BY <1>3, SameReadings DEF OpenDetail
<1>4. ASSUME NEW f \in Filters, SubmitFilters(f)
      PROVE  AInv'
  BY <1>4, LoadKeeps DEF SubmitFilters
<1>5. CASE LoadMore
  BY <1>5, LoadKeeps DEF LoadMore
<1>6. CASE ServePage \/ LosePage \/ ReceivePage
  BY <1>6, ServePageKeeps, LosePageKeeps, ReceivePageKeeps
<1>7. CASE AnswerDetail \/ CloseDetail
  BY <1>7, SameReadings DEF AnswerDetail, CloseDetail
<1>8. CASE UNCHANGED <<entry, reading>>
  BY <1>8, SameReadings DEF reading
<1> QED
  BY <1>1, <1>2, <1>3, <1>4, <1>5, <1>6, <1>7, <1>8
     DEF AuditNext, AuditStep, auditVars

(* The accounts go their way beside the trail.                             *)
LEMMA AccountsBesideTheTrail == AuditSpec => Spec
<1>1. AuditInit => Init
  BY DEF AuditInit
<1>2. [AuditNext]_auditVars => [Next]_vars
  BY DEF AuditNext, AuditStep, auditVars, BeginEvent, CommitEvent, OpenDetail,
         SubmitFilters, LoadMore, Load, ServePage, LosePage, ReceivePage,
         AnswerDetail, CloseDetail
<1> QED
  BY <1>1, <1>2, PTL DEF AuditSpec, Spec

(* However many events a trail has, and however they are dated and written *)
(* while it is read, the list an administrator has read page by page is    *)
(* one reading of it: in order, of the filters of its first page, with no *)
(* gap (decodeAuditCursor, readUnifiedAuditPage, submitFilters, loadMore). *)
THEOREM TheListIsOneReadingHolds == AuditSpec => []TheListIsOneReading
<1>1. AuditInit => AInv
  BY NothingIsRead
<1>2. TypeOK => now \in 0..Horizon
  BY DEF TypeOK
<1>3. AInv /\ now \in 0..Horizon /\ [AuditNext]_auditVars => AInv'
  BY AuditNextKeeps
<1>4. AInv => TheListIsOneReading
  <2> SUFFICES ASSUME AInv
               PROVE  TheListIsOneReading
    OBVIOUS
  <2> DEFINE items == list.items
  <2>1. IsReading(items, list.cursor, listed, NoCursor, visible)
    BY DEF AInv
  <2>2. \A e : e \in Range(items) <=> \E i \in 1..Len(items) : items[i] = e
    BY <2>1 DEF Range, IsReading
  <2>3. \A e \in Range(items) : Matches(e, listed)
    BY <2>1, <2>2 DEF IsReading
  <2>4. \A i \in 1..(Len(items) - 1) :
          Before(Position(items[i + 1]), Position(items[i]))
    BY <2>1 DEF IsReading
  <2>5. ASSUME NEW e \in visible, Matches(e, listed),
               \/ list.cursor = NoCursor
               \/ Before(Position(Last(items)), Position(e))
        PROVE  e \in Range(items)
    BY <2>1, <2>2, <2>5 DEF IsReading, Beyond, Last
  <2> QED
    BY <2>3, <2>4, <2>5 DEF TheListIsOneReading
<1>5. AuditSpec => []TypeOK
  BY AccountsBesideTheTrail, IdentityIsTyped
<1> QED
  BY <1>1, <1>2, <1>3, <1>4, <1>5, PTL DEF AuditSpec

==============================================================================
