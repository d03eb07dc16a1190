----------------------------- MODULE MCIdentity -----------------------------
(* Two administrators, who are signed in, a member of the staff, and a user  *)
(* yet to be created.  Instants are coarse: a block and a window are two, as *)
(* is a day.  One administrator reads the audit trail in behaviours of their *)
(* own, in which the other may take the role away.                           *)
EXTENDS AuditTrail, TLC

CONSTANTS a, b, c, d, MaxChanges

VARIABLE topic

Row(exists, role) == [exists |-> exists, role |-> role, active |-> exists,
                      mustChange |-> FALSE, password |-> 0]

MCStart == [u \in User |-> CASE u = a -> Row(TRUE, "ADMIN")
                             [] u = b -> Row(TRUE, "ADMIN")
                             [] u = c -> Row(TRUE, "STAFF")
                             [] u = d -> Row(FALSE, "STAFF")]

Open(u, role) == [user |-> u, live |-> TRUE, until |-> TimeToLive,
                  role |-> role, password |-> 0]

MCSignedIn == [s \in Session |-> CASE s = 1 -> Open(a, "ADMIN")
                                   [] s = 2 -> Open(b, "ADMIN")
                                   [] OTHER -> NoSession]

Wish(kind, target, value) == [kind |-> kind, target |-> target, value |-> value]

MCAsk == {Wish("login", b, "known"), Wish("login", c, "known"),
          Wish("login", c, "wrong"), Wish("logout", b, 0),
          Wish("create", d, "ADMIN"),
          Wish("role", a, "STAFF"), Wish("role", b, "STAFF"),
          Wish("role", b, "ADMIN"), Wish("status", a, FALSE),
          Wish("status", b, FALSE), Wish("status", b, TRUE),
          Wish("reset", b, 0), Wish("password", b, 0)}

(* Guessing the password of c, with the clock and all the requests, is       *)
(* explored apart from what the administrators do with a few.                *)
WrongPassword(q) == q.kind = "login" /\ q.value = MaxPassword + 1
Guessing ==
  \/ now > 0
  \/ limit # NoSnapshot.limit
  \/ \E x \in Client : WrongPassword(req[x])

OnlyGuessing ==
  /\ user = Start
  /\ \A x \in Client : req[x].target \in {c, NoUser}
  /\ session[1] = SignedIn[1] /\ session[2] = SignedIn[2]
Apart == IF Guessing THEN OnlyGuessing ELSE sent <= MaxChanges

(* The reader asks for everything up to today, or for administration only,   *)
(* of two days at most; the role is taken away while a request is out.       *)
MCFilters == {NoFilters, [NoFilters EXCEPT !.source = "ADMINISTRATIVE"]}
MCSource(e) == IF e = 2 THEN "ADMINISTRATIVE" ELSE "RESERVATION"
Asked == loading.state = "SENT" /\ loading.cursor # NoCursor
Written == {e \in Event : entry[e].state = "WRITTEN"}

OnlyReading ==
  /\ sent <= 1
  /\ limit = NoSnapshot.limit
  /\ filters \in MCFilters
  /\ \A e \in Event : entry[e] = Unwritten \/ entry[e].source = MCSource(e)
  /\ Cardinality({e \in Event : entry[e].state = "OPEN"}) <= 2
  /\ detail.event = NoEvent \/ (loading = NotLoading /\ list.cursor = NoCursor)
  /\ now <= 2 /\ (now = 0 \/ Written # {})
  /\ \A x \in Client :
       pc[x] = "idle"
       \/ (req[x].kind = "role" /\ req[x].target = Reader /\ Asked)

MCInit == AuditInit /\ topic \in {"accounts", "audit"}

MCNext ==
  /\ (topic = "audit" /\ AuditStep) \/ (Next /\ UNCHANGED <<entry, reading>>)
  /\ IF topic = "audit" THEN OnlyReading' ELSE Apart'
  /\ UNCHANGED topic

MCSpec == MCInit /\ [][MCNext]_<<auditVars, topic>>

MCSymmetry == Permutations(Client)
==============================================================================
