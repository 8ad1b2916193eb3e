-------------------------- MODULE MCFeeAssignment --------------------------
(* Small instances of FeeAssignment for TLC.                               *)
EXTENDS FeeAssignment, TLC

CONSTANTS s1, a, h1, j1, j2, j3, r1

OneClass == s1 :> a

(* No plan, or two terms that ask for 1 and 2.                             *)
Term(name, amount, due) == [name |-> name, amount |-> amount, due |-> due]
NoPlan == {<<>>}
TwoTerms == {<<>>, <<Term("T1", 1, 0), Term("T2", 2, 1)>>}
Halves == <<"Half 1", "Half 2">>
JobSymmetry == Permutations(Jobs)
=============================================================================
