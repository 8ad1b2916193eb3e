---------------------------- MODULE MCFeeLedger ----------------------------
(* Small instances of FeeLedger for TLC.                                   *)
EXTENDS FeeLedger, TLC

CONSTANTS k1, k2, s1, r1, r2, r3, r4

(* One student with two ledgers.                                           *)
MCOwner == (k1 :> s1) @@ (k2 :> s1)
RequestSymmetry == Permutations(Requests)
LedgerSymmetry == Permutations({k1, k2}) \cup RequestSymmetry
=============================================================================
