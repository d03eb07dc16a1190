------------------------- MODULE BookingLedger_proofs -------------------------
(***************************************************************************)
(* Theorems of the ledger for every set of reservations, slots and limits. *)
(***************************************************************************)
EXTENDS BookingLedger, OperatorTheorems

(* A vacant entry is a row like any other.                                 *)
LEMMA VacantIsRow == Vacant \in Row
<1>1. (CHOOSE s \in Service : TRUE) \in Service
  BY LedgerAssumption
<1>2. (CHOOSE t \in Slot : TRUE) \in Slot
  BY LedgerAssumption
<1>3. MaxParty \in Nat /\ MaxVersion \in Nat
  BY LedgerAssumption
<1> QED
  BY <1>1, <1>2, <1>3 DEF Vacant, Row, Status

LEMMA InitIsTyped == Init => TypeOK
BY VacantIsRow DEF Init, TypeOK

LEMMA NextIsTyped == TypeOK /\ [Next]_vars => TypeOK'
<1> SUFFICES ASSUME TypeOK, [Next]_vars PROVE TypeOK'
  OBVIOUS
<1> USE LedgerAssumption
<1>1. ASSUME NEW k \in Key, NEW r \in Reservation, NEW s \in Service,
             NEW t \in Slot, NEW p \in 1..MaxParty, NEW o \in BOOLEAN,
             Grant(k, r, s, t, p, o)
      PROVE  TypeOK'
  <2>1. 1 \in 0..MaxVersion
    BY <1>1 DEF Grant, TypeOK, Row
  <2> QED
    BY <1>1, <2>1 DEF Grant, TypeOK, Row, Status
<1>2. ASSUME NEW r \in Reservation, NEW s \in Service, NEW t \in Slot,
             NEW p \in 1..MaxParty, NEW o \in BOOLEAN, Amend(r, s, t, p, o)
      PROVE  TypeOK'
  BY <1>2 DEF Amend, TypeOK, Row, Status
<1>3. ASSUME NEW r \in Reservation, Annotate(r) PROVE TypeOK'
  BY <1>3 DEF Annotate, TypeOK, Row, Status
<1>4. ASSUME NEW r \in Reservation, Cancel(r) PROVE TypeOK'
  BY <1>4 DEF Cancel, TypeOK, Row, Status
<1>5. ASSUME NEW K \in SUBSET Key, Forget(K) PROVE TypeOK'
  BY <1>5 DEF Forget, TypeOK
<1>6. CASE UNCHANGED vars
  BY <1>6 DEF vars, TypeOK
<1> QED
  BY <1>1, <1>2, <1>3, <1>4, <1>5, <1>6 DEF Next

(* Every reachable ledger is well typed, for every value of the constants. *)
THEOREM LedgerIsTyped == Spec => []TypeOK
BY InitIsTyped, NextIsTyped, PTL DEF Spec

-----------------------------------------------------------------------------
(* The capacity promise.  The load compares what the availability check    *)
(* saw (all other arrivals) with what is counted after the step (the       *)
(* regular ones), so the invariant is inductive once types are known.      *)

LEMMA ArrivalsAreFinite ==
  ASSUME NEW s
  PROVE  IsFiniteSet(Arrivals(s)) /\ IsFiniteSet(Regular(s))
<1>1. Arrivals(s) \in SUBSET Reservation /\ Regular(s) \in SUBSET Arrivals(s)
  BY DEF Arrivals, Regular
<1> QED
  BY <1>1, LedgerAssumption, FS_Subset

LEMMA InitIsWithinLimit == Init => RegularWithinLimit
<1> SUFFICES ASSUME Init, NEW s \in Service, NEW w \in Slot
             PROVE  WindowLoad(row, Regular(s), MaxParty, w, Window)
                      <= Limit[s]
  BY DEF RegularWithinLimit
<1>1. Regular(s) = {}
  BY DEF Init, Vacant, Regular, Arrivals
<1>2. HeadsIn(row, {}, MaxParty, w, Window) = {}
  BY DEF HeadsIn
<1>3. WindowLoad(row, Regular(s), MaxParty, w, Window) = 0
  BY <1>1, <1>2, FS_EmptySet DEF WindowLoad
<1> QED
  BY <1>3, LedgerAssumption

(* A step that gives reservation r a seat, by Grant or by Amend.           *)
LEMMA SeatingKeepsLimit ==
  ASSUME TypeOK, RegularWithinLimit,
         NEW r \in Reservation, NEW s \in Service, NEW t \in Slot,
         NEW p \in 1..MaxParty, NEW o \in BOOLEAN, NEW v \in Nat,
         row' = [row EXCEPT ![r] = [status |-> "CONFIRMED", service |-> s,
                                    slot |-> t, party |-> p, override |-> o,
                                    version |-> v]],
         o \/ Fits(r, s, t, p)
  PROVE  RegularWithinLimit'
<1> SUFFICES ASSUME NEW u \in Service, NEW w \in Slot
             PROVE  WindowLoad(row', Regular(u)', MaxParty, w, Window)
                      <= Limit[u]
  BY DEF RegularWithinLimit
<1>1. /\ \A q \in Reservation \ {r} : row'[q] = row[q]
      /\ row'[r] = [status |-> "CONFIRMED", service |-> s, slot |-> t,
                    party |-> p, override |-> o, version |-> v]
  BY DEF TypeOK
<1>2. /\ IsFiniteSet(Arrivals(u)) /\ IsFiniteSet(Regular(u))
      /\ MaxParty \in Nat /\ Limit[u] \in Nat /\ p \in Nat
  BY ArrivalsAreFinite, LedgerAssumption
<1>3. WindowLoad(row, Regular(u), MaxParty, w, Window) <= Limit[u]
  BY DEF RegularWithinLimit
<1>4. CASE u = s /\ ~o
  <2> DEFINE kept   == Regular(u)' \ {r}
             others == Arrivals(u) \ {r}
  <2>1. /\ kept \subseteq others /\ kept \subseteq Regular(u)
        /\ \A q \in kept : row'[q].slot = row[q].slot
                           /\ row'[q].party = row[q].party
    BY <1>1 DEF Regular, Arrivals
  <2>2. IsFiniteSet(Regular(u)') /\ IsFiniteSet(kept) /\ IsFiniteSet(others)
    <3>1. IsFiniteSet(Regular(u) \cup {r})
      BY <1>2, FS_Singleton, FS_Union
    <3>2. Regular(u)' \in SUBSET (Regular(u) \cup {r})
      BY <2>1
    <3>3. IsFiniteSet(Regular(u)')
      BY <3>1, <3>2, FS_Subset
    <3> QED
      BY <1>2, <3>3, FS_Subset
  <2>3. /\ WindowLoad(row', Regular(u)', MaxParty, w, Window) \in Nat
        /\ WindowLoad(row, kept, MaxParty, w, Window) \in Nat
        /\ WindowLoad(row, others, MaxParty, w, Window) \in Nat
        /\ WindowLoad(row, Regular(u), MaxParty, w, Window) \in Nat
    BY <1>2, <2>2, LoadIsNatural
  <2>4. row'[r].slot = t /\ row'[r].party = p
    BY <1>1
  <2>5. CASE InWindow(t, w, Window)
    <3>1. WindowLoad(row, others, MaxParty, w, Window) + p <= Limit[u]
      BY <1>4, <2>5 DEF Fits, SlotHasRoom, AffectedWindows
    <3>2. WindowLoad(row, kept, MaxParty, w, Window)
            <= WindowLoad(row, others, MaxParty, w, Window)
      BY <1>2, <2>1, <2>2, LoadIsMonotone
    <3>3. WindowLoad(row', Regular(u)', MaxParty, w, Window)
            <= WindowLoad(row, kept, MaxParty, w, Window) + p
      <4>1. row'[r].party \in Nat
        BY <1>2, <2>4
      <4>2. WindowLoad(row', Regular(u)', MaxParty, w, Window)
              <= WindowLoad(row, kept, MaxParty, w, Window) + row'[r].party
        BY <1>2, <2>1, <2>2, <4>1, LoadOfOneMore
      <4> QED
        BY <2>4, <4>2
    <3> QED
      BY <1>2, <2>3, <3>1, <3>2, <3>3
  <2>6. CASE ~InWindow(t, w, Window)
    <3>1. WindowLoad(row, kept, MaxParty, w, Window)
            <= WindowLoad(row, Regular(u), MaxParty, w, Window)
      BY <1>2, <2>1, LoadIsMonotone
    <3>2. WindowLoad(row', Regular(u)', MaxParty, w, Window)
            <= WindowLoad(row, kept, MaxParty, w, Window)
      BY <1>2, <2>1, <2>2, <2>4, <2>6, LoadOfOneElsewhere
    <3> QED
      BY <1>2, <1>3, <2>3, <3>1, <3>2
  <2> QED
    BY <2>5, <2>6
<1>5. CASE ~(u = s /\ ~o)
  <2>1. /\ Regular(u)' \subseteq Regular(u)
        /\ \A q \in Regular(u)' : row'[q] = row[q]
    BY <1>1, <1>5 DEF Regular, Arrivals
  <2>2. WindowLoad(row', Regular(u)', MaxParty, w, Window)
          <= WindowLoad(row, Regular(u), MaxParty, w, Window)
    BY <1>2, <2>1, LoadIsMonotone
  <2>3. /\ WindowLoad(row', Regular(u)', MaxParty, w, Window) \in Nat
        /\ WindowLoad(row, Regular(u), MaxParty, w, Window) \in Nat
    <3>1. IsFiniteSet(Regular(u)')
      BY <1>2, <2>1, FS_Subset
    <3> QED
      BY <1>2, <3>1, LoadIsNatural
  <2> QED
    BY <1>2, <1>3, <2>2, <2>3
<1> QED
  BY <1>4, <1>5

(* A step that seats nobody and moves nobody.                              *)
LEMMA UnseatingKeepsLimit ==
  ASSUME RegularWithinLimit,
         \A s \in Service :
            /\ Regular(s)' \subseteq Regular(s)
            /\ \A q \in Regular(s)' : /\ row'[q].slot = row[q].slot
                                      /\ row'[q].party = row[q].party
  PROVE  RegularWithinLimit'
<1> SUFFICES ASSUME NEW s \in Service, NEW w \in Slot
             PROVE  WindowLoad(row', Regular(s)', MaxParty, w, Window)
                      <= Limit[s]
  BY DEF RegularWithinLimit
<1>1. IsFiniteSet(Regular(s)) /\ MaxParty \in Nat /\ Limit[s] \in Nat
  BY ArrivalsAreFinite, LedgerAssumption
<1>2. IsFiniteSet(Regular(s)')
  BY <1>1, FS_Subset
<1>3. WindowLoad(row', Regular(s)', MaxParty, w, Window)
        <= WindowLoad(row, Regular(s), MaxParty, w, Window)
  BY <1>1, LoadIsMonotone
<1>4. /\ WindowLoad(row', Regular(s)', MaxParty, w, Window) \in Nat
      /\ WindowLoad(row, Regular(s), MaxParty, w, Window) \in Nat
  BY <1>1, <1>2, LoadIsNatural
<1>5. WindowLoad(row, Regular(s), MaxParty, w, Window) <= Limit[s]
  BY DEF RegularWithinLimit
<1> QED
  BY <1>1, <1>3, <1>4, <1>5

LEMMA NextIsWithinLimit ==
  TypeOK /\ RegularWithinLimit /\ [Next]_vars => RegularWithinLimit'
<1> SUFFICES ASSUME TypeOK, RegularWithinLimit, [Next]_vars
             PROVE  RegularWithinLimit'
  OBVIOUS
<1>1. ASSUME NEW k \in Key, NEW r \in Reservation, NEW s \in Service,
             NEW t \in Slot, NEW p \in 1..MaxParty, NEW o \in BOOLEAN,
             Grant(k, r, s, t, p, o)
      PROVE  RegularWithinLimit'
  BY <1>1, SeatingKeepsLimit DEF Grant
<1>2. ASSUME NEW r \in Reservation, NEW s \in Service, NEW t \in Slot,
             NEW p \in 1..MaxParty, NEW o \in BOOLEAN, Amend(r, s, t, p, o)
      PROVE  RegularWithinLimit'
  <2>1. row[r].version + 1 \in Nat
    BY DEF TypeOK, Row
  <2>2. CASE o \/ Fits(r, s, t, p)
    BY <1>2, <2>1, <2>2, SeatingKeepsLimit DEF Amend
  <2>3. CASE <<s, t, p, o>> = <<row[r].service, row[r].slot,
                                row[r].party, row[r].override>>
    <3>1. \A q \in Reservation :
             /\ row'[q].status = row[q].status
             /\ row'[q].service = row[q].service
             /\ row'[q].slot = row[q].slot
             /\ row'[q].party = row[q].party
             /\ row'[q].override = row[q].override
      BY <1>2, <2>3 DEF Amend, TypeOK
    <3> QED
      BY <3>1, UnseatingKeepsLimit DEF Regular, Arrivals
  <2> QED
    BY <1>2, <2>2, <2>3 DEF Amend
<1>3. ASSUME NEW r \in Reservation, Annotate(r) PROVE RegularWithinLimit'
  <2>1. \A q \in Reservation :
           /\ row'[q].status = row[q].status
           /\ row'[q].service = row[q].service
           /\ row'[q].slot = row[q].slot
           /\ row'[q].party = row[q].party
           /\ row'[q].override = row[q].override
    BY <1>3 DEF Annotate, TypeOK, Row
  <2> QED
    BY <2>1, UnseatingKeepsLimit DEF Regular, Arrivals
<1>4. ASSUME NEW r \in Reservation, Cancel(r) PROVE RegularWithinLimit'
  <2>1. /\ row'[r].status = "CANCELLED"
        /\ \A q \in Reservation \ {r} : row'[q] = row[q]
    BY <1>4 DEF Cancel, TypeOK, Row
  <2> QED
    BY <2>1, UnseatingKeepsLimit DEF Regular, Arrivals
<1>5. ASSUME NEW K \in SUBSET Key, Forget(K) PROVE RegularWithinLimit'
  BY <1>5, UnseatingKeepsLimit DEF Forget, Regular, Arrivals
<1>6. CASE UNCHANGED vars
  BY <1>6, UnseatingKeepsLimit DEF vars, Regular, Arrivals
<1> QED
  BY <1>1, <1>2, <1>3, <1>4, <1>5, <1>6 DEF Next

(* In every window of every service the regular parties stay within the    *)
(* limit, whatever overrides, moves and cancellations the ledger goes      *)
(* through.                                                                *)
THEOREM LimitHolds == Spec => []RegularWithinLimit
<1>1. Init => TypeOK /\ RegularWithinLimit
  BY InitIsTyped, InitIsWithinLimit
<1>2. TypeOK /\ RegularWithinLimit /\ [Next]_vars
        => (TypeOK /\ RegularWithinLimit)'
  BY NextIsTyped, NextIsWithinLimit
<1> QED
  BY <1>1, <1>2, PTL DEF Spec

-----------------------------------------------------------------------------
LEMMA CancelledStays ==
  ASSUME TypeOK, [Next]_vars, NEW c \in Reservation,
         row[c].status = "CANCELLED"
  PROVE  row'[c] = [row[c] EXCEPT !.version = row'[c].version]
<1>1. row'[c] = row[c]
        \/ row'[c] = [row[c] EXCEPT !.version = row[c].version + 1]
  BY DEF Next, vars, Grant, Amend, Annotate, Cancel, Forget, TypeOK
<1> QED
  BY <1>1 DEF TypeOK, Row

(* No step of the ledger brings a cancelled reservation back or changes    *)
(* the seats it records.                                                   *)
THEOREM CancelledIsFinalHolds == Spec => CancelledIsFinal
<1> DEFINE Stays == \A r \in Reservation : row[r].status = "CANCELLED" =>
                      row'[r] = [row[r] EXCEPT !.version = row'[r].version]
<1>1. TypeOK /\ [Next]_vars => [Stays]_vars
  BY CancelledStays
<1>2. Spec => []TypeOK
  BY LedgerIsTyped
<1> QED
  BY <1>1, <1>2, PTL DEF Spec, CancelledIsFinal
==============================================================================
