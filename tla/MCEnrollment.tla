---------------------------- MODULE MCEnrollment ----------------------------
(* Small instances of Enrollment for TLC.                                  *)
EXTENDS Enrollment, TLC

CONSTANTS s1, y1, y2, a, b, d, a1, b1, r1, r2, r3, nil

(* Two classes in the first year and one in the second, with two sections  *)
(* of one name.                                                            *)
MCYears == (a :> y1) @@ (d :> y1) @@ (b :> y2)
MCClasses == (a1 :> a) @@ (b1 :> b)
MCNames == (a1 :> "A") @@ (b1 :> "A")
RequestSymmetry == Permutations(Requests)
=============================================================================
