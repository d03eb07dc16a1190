------------------------ MODULE SerializableSnapshots ------------------------
(***************************************************************************)
(* What PostgreSQL lets a SERIALIZABLE transaction commit.  L is a         *)
(* sequence of transactions in the order in which they commit: since is    *)
(* how many had committed when the snapshot was taken, reads and writes    *)
(* are the rows and predicates it read and changed.                        *)
(***************************************************************************)
EXTENDS Naturals, Sequences

(* Transaction i of the log read what transaction j replaced or added.     *)
Overtaken(L, i, j) ==
  /\ L[i].reads \cap L[j].writes # {}
  /\ IF j < i THEN L[i].since < j ELSE i < j /\ L[j].since < i

(* PostgreSQL's rule: two such dependencies in a row, the last transaction *)
(* of which committed first, are never all committed.                      *)
Dangerous(L) ==
  \E i, j, k \in DOMAIN L :
     /\ i # j /\ j # k
     /\ k < j /\ k <= i
     /\ Overtaken(L, i, j)
     /\ Overtaken(L, j, k)

(* First updater wins: rows changed since the snapshot cannot be written   *)
(* or locked.                                                              *)
Overwritten(L, since, rows) ==
  \E j \in DOMAIN L : since < j /\ L[j].writes \cap rows # {}
==============================================================================
