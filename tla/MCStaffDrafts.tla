---------------------------- MODULE MCStaffDrafts ----------------------------
(* One page of one member of staff, whose browser may sign in once more.     *)
EXTENDS StaffExports, TLC

CONSTANTS d1, d2, r1, r2, s1, s2

MCSymmetry == Permutations({s1, s2}) \cup Permutations({r1, r2})
==============================================================================
