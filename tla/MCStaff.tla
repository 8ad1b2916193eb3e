------------------------------- MODULE MCStaff -------------------------------
(***************************************************************************)
(* Staff for TLC: two applications for one balance and one complaint.      *)
(***************************************************************************)
EXTENDS Staff, TLC

CONSTANTS l1, l2, b1, c1, r1, r2, r3

StaffSymmetry == Permutations({r1, r2, r3}) \cup Permutations({l1, l2})
=============================================================================
