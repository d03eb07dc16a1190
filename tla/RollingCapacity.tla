--------------------------- MODULE RollingCapacity ---------------------------
(***************************************************************************)
(* The capacity rule of the availability engine: covers are counted over   *)
(* rolling windows of a fixed width, one window starting at every bookable *)
(* slot.  Minutes of the day are natural numbers.  A party is counted head *)
(* by head, so the load of a window is the number of heads that arrive in  *)
(* it: the sum of the party sizes, without a fold.                         *)
(***************************************************************************)
EXTENDS Integers, FiniteSets

(* A minute lies in the window that starts at start: the end is excluded,  *)
(* so two arrivals exactly one width apart never share a window.           *)
InWindow(minute, start, width) ==
  start <= minute /\ minute < start + width

(* The heads of the parties of A (records with fields slot and party,      *)
(* indexed by row) that arrive in a window.                                *)
HeadsIn(row, A, largest, start, width) ==
  {h \in A \X (1..largest) :
      InWindow(row[h[1]].slot, start, width) /\ h[2] <= row[h[1]].party}

WindowLoad(row, A, largest, start, width) ==
  Cardinality(HeadsIn(row, A, largest, start, width))

(* Mutant: only the window that starts with the party.                     *)
OwnWindow(slots, minute, width) == {start \in slots : start = minute}

(* The windows a party arriving at minute is counted in.                   *)
AffectedWindows(slots, minute, width) ==
  {start \in slots : InWindow(minute, start, width)}

(* The slot at minute can take the party when every affected window can.   *)
SlotHasRoom(row, A, largest, slots, minute, party, limit, width) ==
  \A start \in AffectedWindows(slots, minute, width) :
     WindowLoad(row, A, largest, start, width) + party <= limit
==============================================================================
