---------------------------- MODULE FeeAccounts ----------------------------
(***************************************************************************)
(* What the fee service promises about money, without its handlers, its    *)
(* status column or its transactions: every ledger has a fixed bill, the   *)
(* school receives money against it, and a receipt is accepted only while  *)
(* the bill still has room for it.                                         *)
(***************************************************************************)
EXTENDS Integers

CONSTANTS Ledgers, Tol

VARIABLES bill,       \* [Ledgers -> Nat], what each ledger asks for
          received    \* [Ledgers -> Nat], the sum of its Payment rows

vars == <<bill, received>>

Init == /\ bill \in [Ledgers -> Nat]
        /\ received = [k \in Ledgers |-> 0]

(* One request may settle several ledgers, each within its own bill.       *)
Receive == /\ received' \in [Ledgers -> Nat]
           /\ \A k \in Ledgers :
                \/ received'[k] = received[k]
                \/ /\ received'[k] > received[k]
                   /\ received'[k] <= bill[k] + Tol
           /\ UNCHANGED bill

Spec == Init /\ [][Receive]_vars
=============================================================================
