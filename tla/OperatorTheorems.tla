-------------------------- MODULE OperatorTheorems --------------------------
(***************************************************************************)
(* Facts about the two modules of operators that several proofs rest on.   *)
(* RollingCapacity: the load of a window is a natural number, it shrinks   *)
(* with the set of parties, and one more party adds at most its own size.  *)
(* SerializableSnapshots: what a log of commits goes on to say as it       *)
(* grows, and which commits it does not admit.                             *)
(***************************************************************************)
EXTENDS RollingCapacity, SerializableSnapshots, FiniteSetTheorems, TLAPS

(* The heads of finitely many parties are finitely many, so the load       *)
(* evaluateRollingCapacity sums is a natural number.                       *)
LEMMA LoadIsNatural ==
  ASSUME NEW row, NEW A, IsFiniteSet(A), NEW largest \in Nat,
         NEW start, NEW width
  PROVE  /\ IsFiniteSet(HeadsIn(row, A, largest, start, width))
         /\ WindowLoad(row, A, largest, start, width) \in Nat
<1>1. IsFiniteSet(1..largest)
  BY FS_Interval
<1>2. IsFiniteSet(A \X (1..largest))
  BY <1>1, FS_Product
<1>3. HeadsIn(row, A, largest, start, width) \subseteq A \X (1..largest)
  BY DEF HeadsIn
<1>4. IsFiniteSet(HeadsIn(row, A, largest, start, width))
  BY <1>2, <1>3, FS_Subset
<1> QED
  BY <1>4, FS_CardinalityType DEF WindowLoad

(* Fewer parties at the same slots with the same sizes never load a window *)
(* more: what a cancellation or an excluded reservation does to            *)
(* evaluateRollingCapacity.                                                *)
LEMMA LoadIsMonotone ==
  ASSUME NEW old, NEW new, NEW A, NEW B, IsFiniteSet(B), A \subseteq B,
         NEW largest \in Nat, NEW start, NEW width,
         \A r \in A : new[r].slot = old[r].slot /\ new[r].party = old[r].party
  PROVE  WindowLoad(new, A, largest, start, width)
           <= WindowLoad(old, B, largest, start, width)
<1>1. IsFiniteSet(HeadsIn(old, B, largest, start, width))
  BY LoadIsNatural
<1>2. HeadsIn(new, A, largest, start, width)
        \subseteq HeadsIn(old, B, largest, start, width)
  BY DEF HeadsIn
<1> QED
  BY <1>1, <1>2, FS_Subset DEF WindowLoad

(* A party of n people is n heads.                                         *)
LEMMA HeadsOfOneParty ==
  ASSUME NEW r, NEW n \in Nat
  PROVE  /\ IsFiniteSet({r} \X (1..n))
         /\ Cardinality({r} \X (1..n)) = n
<1>1. IsFiniteSet({r}) /\ Cardinality({r}) = 1
  BY FS_Singleton
<1>2. IsFiniteSet(1..n) /\ Cardinality(1..n) = IF 1 > n THEN 0 ELSE n - 1 + 1
  BY FS_Interval
<1>3. Cardinality(1..n) = n
  BY <1>2
<1>4. /\ IsFiniteSet({r} \X (1..n))
      /\ Cardinality({r} \X (1..n)) = Cardinality({r}) * Cardinality(1..n)
  BY <1>1, <1>2, FS_Product
<1> QED
  BY <1>1, <1>3, <1>4

(* Seating one party on top of others adds at most its size to a window:   *)
(* the sum evaluateRollingCapacity compares with the limit bounds the load *)
(* after the reservation is stored.                                        *)
LEMMA LoadOfOneMore ==
  ASSUME NEW old, NEW new, NEW A, NEW r, IsFiniteSet(A),
         NEW largest \in Nat, NEW start, NEW width, new[r].party \in Nat,
         \A q \in A \ {r} : new[q].slot = old[q].slot
                             /\ new[q].party = old[q].party
  PROVE  WindowLoad(new, A, largest, start, width)
           <= WindowLoad(old, A \ {r}, largest, start, width) + new[r].party
<1> DEFINE others == HeadsIn(old, A \ {r}, largest, start, width)
           mine   == {r} \X (1..new[r].party)
<1>1. IsFiniteSet(A \ {r})
  BY FS_Subset
<1>2. IsFiniteSet(others) /\ Cardinality(others) \in Nat
  BY <1>1, LoadIsNatural DEF WindowLoad
<1>3. IsFiniteSet(mine) /\ Cardinality(mine) = new[r].party
  BY HeadsOfOneParty
<1>4. /\ IsFiniteSet(others \cup mine)
      /\ Cardinality(others \cup mine) <= Cardinality(others) + new[r].party
  <2> HIDE DEF others, mine
  <2>1. others \cap mine \in SUBSET mine
    OBVIOUS
  <2>2. Cardinality(others \cap mine) \in Nat
    BY <1>3, <2>1, FS_Subset, FS_CardinalityType
  <2>3. /\ IsFiniteSet(others \cup mine)
        /\ Cardinality(others \cup mine) = Cardinality(others)
              + Cardinality(mine) - Cardinality(others \cap mine)
    BY <1>2, <1>3, FS_Union
  <2> QED
    BY <1>2, <1>3, <2>2, <2>3
<1>5. HeadsIn(new, A, largest, start, width) \subseteq others \cup mine
  <2>1. SUFFICES ASSUME NEW h \in HeadsIn(new, A, largest, start, width)
                 PROVE  h \in others \cup mine
    OBVIOUS
  <2>2. /\ h \in A \X (1..largest)
        /\ InWindow(new[h[1]].slot, start, width)
        /\ h[2] <= new[h[1]].party
    BY DEF HeadsIn
  <2>3. CASE h[1] = r
    BY <2>2, <2>3
  <2>4. CASE h[1] # r
    BY <2>2, <2>4 DEF HeadsIn
  <2> QED
    BY <2>3, <2>4
<1>6. Cardinality(HeadsIn(new, A, largest, start, width))
        <= Cardinality(others \cup mine)
  BY <1>4, <1>5, FS_Subset
<1>7. Cardinality(HeadsIn(new, A, largest, start, width)) \in Nat
  BY LoadIsNatural DEF WindowLoad
<1>8. Cardinality(others \cup mine) \in Nat
  BY <1>4, FS_CardinalityType
<1> QED
  BY <1>2, <1>4, <1>6, <1>7, <1>8 DEF WindowLoad

(* A party outside a window adds nothing to it: AffectedWindows leaves out *)
(* no window whose load a reservation changes.                             *)
LEMMA LoadOfOneElsewhere ==
  ASSUME NEW old, NEW new, NEW A, NEW r, IsFiniteSet(A),
         NEW largest \in Nat, NEW start, NEW width,
         ~InWindow(new[r].slot, start, width),
         \A q \in A \ {r} : new[q].slot = old[q].slot
                             /\ new[q].party = old[q].party
  PROVE  WindowLoad(new, A, largest, start, width)
           <= WindowLoad(old, A \ {r}, largest, start, width)
<1>1. IsFiniteSet(A \ {r})
  BY FS_Subset
<1>2. HeadsIn(new, A, largest, start, width)
        = HeadsIn(new, A \ {r}, largest, start, width)
  BY DEF HeadsIn
<1>3. WindowLoad(new, A \ {r}, largest, start, width)
        <= WindowLoad(old, A \ {r}, largest, start, width)
  BY <1>1, LoadIsMonotone
<1> QED
  BY <1>2, <1>3 DEF WindowLoad

-----------------------------------------------------------------------------
(* The log as it grows.  Its records are of any set C; since is the age of *)
(* a snapshot, w an item that was written and r one that was read.         *)

(* A commit since the snapshot wrote w, and one of them read r as well.    *)
Replaced(L, since, w) == \E j \in 1..Len(L) : since < j /\ w \in L[j].writes

Met(L, since, w, r) ==
  \E j \in 1..Len(L) : since < j /\ w \in L[j].writes /\ r \in L[j].reads


LEMMA Appended ==
  ASSUME NEW C, NEW L \in Seq(C), NEW e \in C
  PROVE  /\ Append(L, e) \in Seq(C)
         /\ Len(L) \in Nat
         /\ Len(Append(L, e)) = Len(L) + 1
         /\ \A j \in 1..Len(L) : Append(L, e)[j] = L[j]
         /\ Append(L, e)[Len(L) + 1] = e
OBVIOUS

LEMMA StillReplaced ==
  ASSUME NEW C, NEW L \in Seq(C), NEW e \in C, NEW since, NEW w,
         Replaced(L, since, w)
  PROVE  Replaced(Append(L, e), since, w)
BY Appended DEF Replaced

LEMMA NowReplaced ==
  ASSUME NEW C, NEW L \in Seq(C), NEW e \in C, NEW since \in Nat, NEW w,
         since <= Len(L), w \in e.writes
  PROVE  Replaced(Append(L, e), since, w)
<1>1. Len(L) + 1 \in 1..Len(Append(L, e))
  BY Appended
<1> QED
  BY <1>1, Appended DEF Replaced

LEMMA StillMet ==
  ASSUME NEW C, NEW L \in Seq(C), NEW e \in C, NEW since, NEW w, NEW r,
         Met(L, since, w, r)
  PROVE  Met(Append(L, e), since, w, r)
BY Appended DEF Met

LEMMA NowMet ==
  ASSUME NEW C, NEW L \in Seq(C), NEW e \in C, NEW since \in Nat,
         NEW w, NEW r, since <= Len(L), w \in e.writes, r \in e.reads
  PROVE  Met(Append(L, e), since, w, r)
<1>1. Len(L) + 1 \in 1..Len(Append(L, e))
  BY Appended
<1> QED
  BY <1>1, Appended DEF Met

(* Two concurrent transactions that each read what the other writes are    *)
(* never both committed.                                                   *)
LEMMA TwoThatMeet ==
  ASSUME NEW C, NEW L \in Seq(C), NEW e \in C, NEW w, NEW r,
         Met(L, e.since, w, r), w \in e.reads, r \in e.writes
  PROVE  Dangerous(Append(L, e))
<1> DEFINE M == Append(L, e)
           n == Len(L) + 1
<1>1. PICK j \in 1..Len(L) : /\ e.since < j
                             /\ w \in L[j].writes /\ r \in L[j].reads
  BY DEF Met
<1>2. j \in DOMAIN M /\ n \in DOMAIN M /\ j < n
  BY Appended
<1>3. M[j] = L[j] /\ M[n] = e
  BY Appended
<1>4. Overtaken(M, j, n)
  BY <1>1, <1>2, <1>3 DEF Overtaken
<1>5. Overtaken(M, n, j)
  BY <1>1, <1>2, <1>3 DEF Overtaken
<1> QED
  BY <1>2, <1>4, <1>5 DEF Dangerous

(* What was replaced since the snapshot is not written.                    *)
LEMMA FirstUpdaterWins ==
  ASSUME NEW C, NEW L \in Seq(C), NEW since, NEW w, NEW rows,
         ~Overwritten(L, since, rows), w \in rows
  PROVE  ~Replaced(L, since, w)
BY DEF Overwritten, Replaced
==============================================================================
