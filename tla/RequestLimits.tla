---------------------------- MODULE RequestLimits ----------------------------
(***************************************************************************)
(* The two limits on how often a client may ask: failed logins, kept per   *)
(* user name and address, and requests of the public site, kept per action *)
(* and address.  A limit is a row that a request reads and replaces by     *)
(* what is below; the instant t is the one the request carries.            *)
(***************************************************************************)
EXTENDS Naturals

CONSTANTS MaxFailures,   \* failed logins of a window that block the key
          FailureWindow, \* how long a window of failures is
          BlockTime      \* how long a key stays blocked

ASSUME LimitAssumption ==
  /\ MaxFailures \in Nat \ {0}
  /\ FailureWindow \in Nat \ {0}
  /\ BlockTime \in Nat \ {0}

NoLimit == [attempts |-> 0, started |-> 0, blocked |-> 0, expires |-> 0]

(* Mutant: the block is not looked at.                                     *)
LoginAllowedBlocked(l, t) == TRUE

(* A row is refused while it blocks; an expired one counts for nothing.    *)
LoginAllowed(l, t) == l = NoLimit \/ l.expires <= t \/ l.blocked <= t

WindowOver(l, t) ==
  l = NoLimit \/ l.expires <= t \/ l.started + FailureWindow <= t

(* Mutant: one failure more before the key blocks.                         *)
FailedLeniently(l, t) ==
  LET started  == IF WindowOver(l, t) THEN t ELSE l.started
      attempts == IF WindowOver(l, t) THEN 1 ELSE l.attempts + 1
      blocks   == attempts > MaxFailures
  IN  [attempts |-> attempts,
       started  |-> started,
       blocked  |-> IF blocks THEN t + BlockTime ELSE 0,
       expires  |-> IF blocks THEN t + BlockTime ELSE started + FailureWindow]

(* The row after one more failure.                                         *)
Failed(l, t) ==
  LET started  == IF WindowOver(l, t) THEN t ELSE l.started
      attempts == IF WindowOver(l, t) THEN 1 ELSE l.attempts + 1
      blocks   == attempts >= MaxFailures
  IN  [attempts |-> attempts,
       started  |-> started,
       blocked  |-> IF blocks THEN t + BlockTime ELSE 0,
       expires  |-> IF blocks THEN t + BlockTime ELSE started + FailureWindow]
==============================================================================
