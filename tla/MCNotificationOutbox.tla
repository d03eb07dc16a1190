------------------------- MODULE MCNotificationOutbox -------------------------
(* Instances of the outbox.  An instant is about a minute of the policy's:   *)
(* leases, retries and lives are a step or two long.                         *)
EXTENDS NotificationOutbox, TLC

MCRetryDelay == [n \in 1..(MaxAttempts - 1) |-> 1]

(* Either the only message of an arrival at 3 is tried once while the        *)
(* reservation changes twice, or the messages of one booking, for 2, go out  *)
(* on two channels: in parallel to a guest who left an address, until they   *)
(* expire, the calls in the hands of one worker, or one after the other, one *)
(* call at a time.                                                           *)
IsPlanned(l) == leg[l].status # "NONE"
MCChanges(r) ==
  /\ booked[r].email
  /\ \A w \in Worker : Busy(w) <= 1
  /\ \A l \in Leg : /\ IsPlanned(l) => leg[l].strategy = "WHATSAPP_ONLY"
                    /\ leg[l].status = "PENDING" => leg[l].tries = << >>
                    /\ Len(leg[l].tries) <= 1
MCChannels(r) ==
  /\ booked[r].changes <= 1
  /\ now <= 3
  /\ \A l \in Leg :
       IsPlanned(l) =>
         /\ leg[l].expires <= 2
         /\ \/ /\ leg[l].strategy = "WHATSAPP_AND_EMAIL_PARALLEL"
               /\ booked[r].email
               /\ \E w \in Worker : job[w] = {}
            \/ /\ leg[l].strategy = "WHATSAPP_WITH_EMAIL_FALLBACK"
               /\ \A w \in Worker : Busy(w) <= 1
MCOneTopic ==
  \A r \in Reservation :
    booked[r].changes > 0 =>
      IF booked[r].start = 3 THEN MCChanges(r) ELSE MCChannels(r)
MCSpec == Init /\ [][Next /\ MCOneTopic']_vars

MCSymmetry == Permutations(Worker)
==============================================================================
