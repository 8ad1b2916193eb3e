---------------------------- MODULE MCAdmission ----------------------------
(* Small instances of Admission for TLC.                                   *)
EXTENDS Admission, TLC

CONSTANTS u1, u2, u3, p, r1, r2, r3, r4

(* Two people of one name; the third has the telephone of the second.      *)
OneSchool == [u \in Users |-> p]
MCNames == [u \in Users |-> "Ann"]
MCContacts == [u \in Users |-> IF u = u1 THEN 1 ELSE 2]
MCTemplates == {{"SEQ"}, {"YEAR", "SEQ"}}

(* An administrator enters what the counter would have given first.        *)
FirstNumber == {[year |-> 0, seq |-> 1]}
RequestSymmetry == Permutations(Requests)
=============================================================================
