--------------------------- MODULE MCBookingLedger ---------------------------
(* Instance of the ledger: three reservations compete for two seats per      *)
(* window; the windows of the first two slots and of the last two overlap,   *)
(* those of the first and the last do not.  Three kinds of behaviour are     *)
(* explored: the ledger in full with the page left alone; questions, while   *)
(* others fill a window and cancel; and submissions by a guest who has been  *)
(* shown what is free for one.                                               *)
EXTENDS PublicBookingForm, TLC

VARIABLE topic

MCSlot == {0, 15, 30}
MCLimit == [s \in Service |-> 2]
MCSymmetry == Permutations(Reservation) \cup Permutations(Key)

(* The page has asked for a party of one and had its answer.                 *)
Answered ==
  LET q == [NoQuestion EXCEPT !.party = 1] IN
  /\ NothingSent
  /\ form = [Blank EXCEPT !.question = q]
  /\ shown = [status |-> "READY", slots |-> FreeIn(row, q)]
  /\ asked = 1
  /\ hits = [a \in Limited |-> IF a = "CREATE" THEN 0 ELSE 1]
  /\ seen = FreeIn(row, q)

MCInit ==
  \/ FormInit /\ topic \in {"ledger", "questions"}
  \/ Answered /\ topic = "submissions"

(* One override fills a window as well as two.                               *)
OneOverride == Cardinality({r \in Reservation : row'[r].override}) <= 1

(* Others book a table for two, which fills its windows, and may cancel.     *)
OthersFillAndCancel ==
  /\ \A r \in Reservation :
       row'[r] # row[r] => /\ row'[r].status # row[r].status
                           /\ row'[r].party = 2
                           /\ ~row'[r].override
  /\ \A k \in Key : claim[k] # NoReservation => claim'[k] = claim[k]

Questions ==
  /\ stage' = "IDLE"
  /\ form'.language = form.language
  /\ Cardinality({r \in Reservation : row'[r].status # "FREE"}) <= 1

Submissions ==
  /\ asked' = asked
  /\ form'.text = form.text
  /\ form'.slot # 15 /\ (form.slot # NoSlot => form'.slot # NoSlot)
  /\ hits'["AVAILABILITY"] = 1

MCNext ==
  /\ \/ /\ Elsewhere
        /\ IF topic = "ledger" THEN OneOverride ELSE OthersFillAndCancel
     \/ topic # "ledger" /\ (PageStep \/ ServerStep)
  /\ topic = "questions" => Questions
  /\ topic = "submissions" => Submissions
  /\ UNCHANGED topic

MCSpec == MCInit /\ [][MCNext]_<<formVars, topic>>
==============================================================================
