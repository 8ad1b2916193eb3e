-------------------------- MODULE FeeLedgerProofs --------------------------
(***************************************************************************)
(* Theorems about FeeLedger, for every set of ledgers, requests, amounts   *)
(* and dates.                                                              *)
(***************************************************************************)
EXTENDS FeeLedger, TLAPS

(* The status the code computes is one of the four of FeeStatus.           *)
LEMMA StatusType ==
    ASSUME NEW paid, NEW total, NEW due, NEW day
    PROVE  LedgerStatus(paid, total, due, day) \in FeeStatus
BY DEF LedgerStatus, FeeStatus

(* A payment moves paid and status and nothing else.                       *)
LEMMA CreditedRow ==
    ASSUME NEW row \in Row, NEW amount \in Nat, NEW day
    PROVE  /\ Credited(row, amount, day) \in Row
           /\ Credited(row, amount, day).paid = row.paid + amount
           /\ Credited(row, amount, day).total = row.total
           /\ Credited(row, amount, day).due = row.due
           /\ Credited(row, amount, day).status
                 = LedgerStatus(row.paid + amount, row.total, row.due, day)
<1>1. LedgerStatus(row.paid + amount, row.total, row.due, day) \in FeeStatus
  BY StatusType
<1>2. row.paid + amount \in Nat
  BY DEF Row
<1> QED
  BY <1>1, <1>2 DEF Credited, Row

(* A flush leaves a row of the same bill.                                  *)
LEMMA FlushedRow ==
    ASSUME NEW now \in Row, NEW seen \in Row, NEW new \in Row
    PROVE  /\ Flushed(now, seen, new) \in Row
           /\ Flushed(now, seen, new).total = now.total
           /\ Flushed(now, seen, new).due = now.due
           /\ Flushed(now, seen, new).paid = Column(now.paid, seen.paid, new.paid)
           /\ Flushed(now, seen, new).status
                 = Column(now.status, seen.status, new.status)
BY DEF Flushed, Column, Row

(* A new row owes its whole bill.                                          *)
LEMMA NewRowType ==
    ASSUME NEW total \in Nat, NEW due \in Day, NEW day
    PROVE  /\ NewRow(total, due, day) \in Row
           /\ NewRow(total, due, day).paid = 0
           /\ NewRow(total, due, day).total = total
           /\ NewRow(total, due, day).status = LedgerStatus(0, total, due, day)
<1>1. LedgerStatus(0, total, due, day) \in FeeStatus
  BY StatusType
<1> QED
  BY <1>1 DEF NewRow, Row

-----------------------------------------------------------------------------
(* Opening a request on rows of the table keeps the types.                 *)
LEMMA OpenType ==
    ASSUME TypeOK, NEW r \in Requests, NEW write, NEW pay,
           Partial(write, Ledgers, Row), DOMAIN write \subseteq DOMAIN ledger,
           pay \in [DOMAIN write -> Nat], Open(r, write, pay)
    PROVE  TypeOK'
<1>1. Restrict(ledger, DOMAIN write) \in [DOMAIN write -> Row]
  BY DEF TypeOK, Partial, Restrict
<1>2. IsTx([state |-> "open", write |-> write, pay |-> pay,
            seen |-> Restrict(ledger, DOMAIN write)])
  BY <1>1 DEF IsTx, Partial
<1>3. \A q \in Requests : IsTx(tx'[q])
  BY <1>2 DEF TypeOK, Open
<1> QED
  BY <1>3 DEF TypeOK, Open

(* The bookkeeping of an empty and of a finished request.                  *)
LEMMA ClosedTx == IsTx(Fresh) /\ IsTx(Closed)
BY DEF IsTx, Fresh, Closed, Empty, Partial

-----------------------------------------------------------------------------
(* What the three handlers hand to the session: rows of the table as they  *)
(* stand, credited with the payment inserted for them (0 by a dashboard),  *)
(* within what they owe, with the status that the new amount calls for.    *)
Prepared(write, pay) ==
    /\ Partial(write, Ledgers, Row)
    /\ DOMAIN write \subseteq DOMAIN ledger
    /\ pay \in [DOMAIN write -> Nat]
    /\ \A k \in DOMAIN write :
         /\ write[k].total = ledger[k].total
         /\ write[k].paid = ledger[k].paid + pay[k]
         /\ \/ /\ pay[k] > 0
               /\ pay[k] <= Outstanding(ledger[k]) + Tol
               /\ \E day \in Day : write[k].status
                    = LedgerStatus(write[k].paid, write[k].total, write[k].due, day)
            \/ /\ pay[k] = 0
               /\ write[k].status = "OVERDUE"
               /\ ledger[k].status # "PAID"

(* A recorded payment is prepared: the guard bounds it by what is owed.    *)
LEMMA RecordPaymentPrepares ==
    ASSUME TypeOK, NEW r \in Requests, NEW k \in Ledgers, NEW amount \in Amounts,
           NEW day \in Day, RecordPayment(r, k, amount, day)
    PROVE  \E write, pay : Prepared(write, pay) /\ Open(r, write, pay)
<1> DEFINE write == [j \in {k} |-> Credited(ledger[j], amount, day)]
           pay == [j \in {k} |-> amount]
<1>1. /\ k \in DOMAIN ledger /\ ledger[k] \in Row
      /\ amount \in Nat /\ amount > 0
      /\ amount <= Outstanding(ledger[k]) + Tol
      /\ Open(r, write, pay)
  BY LedgerConstants DEF TypeOK, Partial, RecordPayment
<1>2. /\ write[k] \in Row
      /\ write[k].paid = ledger[k].paid + amount
      /\ write[k].total = ledger[k].total
      /\ write[k].due = ledger[k].due
      /\ write[k].status
            = LedgerStatus(ledger[k].paid + amount, ledger[k].total, ledger[k].due, day)
  BY <1>1, CreditedRow
<1>3. DOMAIN write = {k} /\ pay[k] = amount /\ pay \in [DOMAIN write -> Nat]
  BY <1>1
<1>4. Partial(write, Ledgers, Row)
  BY <1>2, <1>3 DEF Partial
<1> HIDE DEF write, pay
<1>5. Prepared(write, pay)
  BY <1>1, <1>2, <1>3, <1>4 DEF Prepared
<1> QED
  BY <1>1, <1>5

(* Parts of a payment for some rows, none more than its row owes.          *)
Shares(r, day, part) ==
    /\ DOMAIN part \subseteq DOMAIN ledger
    /\ part = [k \in DOMAIN part |-> part[k]]
    /\ \A k \in DOMAIN part : part[k] \in Nat \ {0} /\ part[k] <= Outstanding(ledger[k])
    /\ Open(r, [k \in DOMAIN part |-> Credited(ledger[k], part[k], day)], part)

(* The greedy spread gives no row more than it owes.                       *)
LEMMA AllocateShares ==
    ASSUME TypeOK, NEW r \in Requests, NEW s \in Students, NEW amount \in Nat,
           NEW day \in Day, Allocate(r, s, amount, day)
    PROVE  \E part : Shares(r, day, part)
<1> DEFINE eligible == {k \in RowsOf(s) : Outstanding(ledger[k]) > Tol}
<1>1. PICK place \in Bijection(eligible, 1..Cardinality(eligible)),
           part \in [eligible -> 0..amount] :
         /\ SpreadsGreedily(amount, place, part)
         /\ LET paid == {k \in eligible : part[k] > 0}
            IN  Open(r, [k \in paid |-> Credited(ledger[k], part[k], day)],
                        Restrict(part, paid))
  BY DEF Allocate
<1> DEFINE paid == {k \in eligible : part[k] > 0}
<1>2. PICK pay : pay = Restrict(part, paid)
  OBVIOUS
<1>3. DOMAIN part = eligible /\ eligible \subseteq DOMAIN ledger
  BY DEF RowsOf
<1>4. /\ DOMAIN pay = paid /\ pay = [k \in DOMAIN pay |-> pay[k]]
      /\ \A k \in paid : pay[k] = part[k]
  BY <1>2 DEF Restrict
<1>5. ASSUME NEW k \in paid
      PROVE  part[k] \in Nat \ {0} /\ part[k] <= Outstanding(ledger[k])
  <2>1. ledger[k] \in Row /\ part[k] \in Nat /\ part[k] > 0
    BY <1>3 DEF TypeOK, Partial
  <2>2. PICK left : part[k] = IF left <= Tol THEN 0
                              ELSE IF left <= Outstanding(ledger[k]) THEN left
                              ELSE Outstanding(ledger[k])
    BY <1>1, <1>3 DEF SpreadsGreedily
  <2> QED
    BY <2>1, <2>2 DEF Outstanding, Row
<1>6. [k \in paid |-> Credited(ledger[k], part[k], day)]
         = [k \in DOMAIN pay |-> Credited(ledger[k], pay[k], day)]
  BY <1>4
<1>7. Open(r, [k \in DOMAIN pay |-> Credited(ledger[k], pay[k], day)], pay)
  BY <1>1, <1>2, <1>6
<1> HIDE DEF paid, eligible
<1>8. Shares(r, day, pay)
  BY <1>3, <1>4, <1>5, <1>7 DEF Shares, paid
<1> QED
  BY <1>8

(* An allocation is prepared.                                              *)
LEMMA SharesPrepare ==
    ASSUME TypeOK, NEW r \in Requests, NEW day \in Day, NEW part, Shares(r, day, part)
    PROVE  \E write, pay : Prepared(write, pay) /\ Open(r, write, pay)
<1>1. PICK write : write = [k \in DOMAIN part |-> Credited(ledger[k], part[k], day)]
  OBVIOUS
<1>2. /\ DOMAIN write = DOMAIN part /\ DOMAIN part \subseteq DOMAIN ledger
      /\ DOMAIN ledger \subseteq Ledgers /\ Open(r, write, part)
      /\ part \in [DOMAIN write -> Nat]
  BY <1>1 DEF Shares, TypeOK, Partial
<1>3. ASSUME NEW k \in DOMAIN part
      PROVE  /\ write[k] \in Row
             /\ write[k].total = ledger[k].total /\ write[k].paid = ledger[k].paid + part[k]
             /\ part[k] > 0 /\ part[k] <= Outstanding(ledger[k]) + Tol
             /\ write[k].status = LedgerStatus(write[k].paid, write[k].total,
                                               write[k].due, day)
  <2>1. ledger[k] \in Row /\ part[k] \in Nat /\ part[k] > 0 /\ part[k] <= Outstanding(ledger[k])
    BY <1>2 DEF Shares, TypeOK, Partial
  <2>2. part[k] <= Outstanding(ledger[k]) + Tol
    BY <2>1 DEF Outstanding, Row, Tol
  <2>3. write[k] = Credited(ledger[k], part[k], day)
    BY <1>1
  <2> QED
    BY <2>1, <2>2, <2>3, CreditedRow
<1>4. Partial(write, Ledgers, Row)
  <2>1. write = [k \in DOMAIN part |-> write[k]]
    BY <1>1
  <2> QED
    BY <1>2, <1>3, <2>1 DEF Partial
<1>5. Prepared(write, part)
  <2>1. \A k \in DOMAIN write : \E when \in Day :
           write[k].status = LedgerStatus(write[k].paid, write[k].total, write[k].due, when)
    BY <1>2, <1>3, Zenon
  <2>2. \A k \in DOMAIN write :
           /\ write[k].total = ledger[k].total /\ write[k].paid = ledger[k].paid + part[k]
           /\ part[k] > 0 /\ part[k] <= Outstanding(ledger[k]) + Tol
    BY <1>2, <1>3, Zenon
  <2> QED
    BY <1>2, <1>4, <2>1, <2>2, Zenon DEF Prepared
<1> QED
  BY <1>2, <1>5

(* A dashboard prepares status changes only, on rows that are not PAID.    *)
LEMMA FeeDashboardPrepares ==
    ASSUME TypeOK, NEW r \in Requests, NEW s \in Students, FeeDashboard(r, s)
    PROVE  \E write, pay : Prepared(write, pay) /\ Open(r, write, pay)
<1> DEFINE late == {k \in RowsOf(s) : /\ today > ledger[k].due
                                     /\ ledger[k].status \notin {"PAID", "OVERDUE"}}
           write == [k \in late |-> [ledger[k] EXCEPT !.status = "OVERDUE"]]
           pay == [k \in late |-> 0]
<1>1. Open(r, write, pay)
  BY DEF FeeDashboard
<1>2. late \subseteq DOMAIN ledger /\ DOMAIN ledger \subseteq Ledgers
  BY DEF TypeOK, Partial, RowsOf
<1>3. ASSUME NEW k \in late
      PROVE  /\ ledger[k] \in Row /\ ledger[k].status # "PAID"
             /\ write[k] \in Row
             /\ write[k].paid = ledger[k].paid /\ write[k].total = ledger[k].total
             /\ write[k].status = "OVERDUE"
  BY <1>2 DEF TypeOK, Partial, Row, FeeStatus
<1>4. /\ DOMAIN write = late /\ write = [k \in late |-> write[k]]
      /\ pay \in [late -> Nat] /\ \A k \in late : pay[k] = 0
  OBVIOUS
<1> HIDE DEF write, pay, late
<1>5. Partial(write, Ledgers, Row)
  BY <1>2, <1>3, <1>4 DEF Partial
<1>6. Prepared(write, pay)
  BY <1>2, <1>3, <1>4, <1>5 DEF Prepared, Row
<1> QED
  BY <1>1, <1>6

(* Every step of Next is the opening of a prepared request, a commit, a    *)
(* rollback, a refresh of overdue rows or the passing of a day.            *)
LEMMA StepKinds ==
    ASSUME TypeOK, Next
    PROVE  \/ \E r \in Requests : \E write, pay : Prepared(write, pay) /\ Open(r, write, pay)
           \/ \E r \in Requests : Commit(r)
           \/ \E r \in Requests : Abort(r)
           \/ MarkOverdue
           \/ NextDay
<1>1. ASSUME NEW r \in Requests, NEW s \in Students, NEW amount \in Amounts, NEW day \in Day,
             Allocate(r, s, amount, day)
      PROVE  \E write, pay : Prepared(write, pay) /\ Open(r, write, pay)
  <2>1. amount \in Nat
    BY LedgerConstants
  <2> QED
    BY <1>1, <2>1, AllocateShares, SharesPrepare
<1> QED
  BY <1>1, RecordPaymentPrepares, FeeDashboardPrepares DEF Next

-----------------------------------------------------------------------------
(* The row of a ledger after a commit of r.                                *)
LEMMA CommitRows ==
    ASSUME TypeOK, NEW r \in Requests, Commit(r)
    PROVE  /\ DOMAIN ledger' = DOMAIN ledger
           /\ DOMAIN tx[r].write \subseteq DOMAIN ledger
           /\ \A k \in DOMAIN ledger :
                /\ ledger[k] \in Row /\ ledger'[k] \in Row
                /\ ledger'[k].total = ledger[k].total
                /\ k \in DOMAIN tx[r].write =>
                     /\ tx[r].seen[k] \in Row /\ tx[r].write[k] \in Row
                     /\ tx[r].pay[k] \in Nat
                     /\ ledger'[k].paid = Column(ledger[k].paid, tx[r].seen[k].paid,
                                                 tx[r].write[k].paid)
                     /\ ledger'[k].status = Column(ledger[k].status, tx[r].seen[k].status,
                                                   tx[r].write[k].status)
                     /\ receipts'[k] = receipts[k] + tx[r].pay[k]
                /\ k \notin DOMAIN tx[r].write => /\ ledger'[k] = ledger[k]
                                                 /\ receipts'[k] = receipts[k]
<1>1. /\ DOMAIN ledger' = DOMAIN ledger
      /\ DOMAIN tx[r].write \subseteq DOMAIN ledger
      /\ DOMAIN ledger \subseteq Ledgers
      /\ IsTx(tx[r])
  BY DEF TypeOK, Commit, Partial
<1>2. SUFFICES ASSUME NEW k \in DOMAIN ledger
               PROVE  /\ ledger[k] \in Row /\ ledger'[k] \in Row
                      /\ ledger'[k].total = ledger[k].total
                      /\ k \in DOMAIN tx[r].write =>
                           /\ tx[r].seen[k] \in Row /\ tx[r].write[k] \in Row
                           /\ tx[r].pay[k] \in Nat
                           /\ ledger'[k].paid = Column(ledger[k].paid, tx[r].seen[k].paid,
                                                       tx[r].write[k].paid)
                           /\ ledger'[k].status = Column(ledger[k].status,
                                        tx[r].seen[k].status, tx[r].write[k].status)
                           /\ receipts'[k] = receipts[k] + tx[r].pay[k]
                      /\ k \notin DOMAIN tx[r].write => /\ ledger'[k] = ledger[k]
                                                       /\ receipts'[k] = receipts[k]
  BY <1>1
<1>3. ledger[k] \in Row /\ receipts[k] \in Nat
  BY <1>1 DEF TypeOK, Partial
<1>4. CASE k \in DOMAIN tx[r].write
  <2>1. tx[r].seen[k] \in Row /\ tx[r].write[k] \in Row /\ tx[r].pay[k] \in Nat
    BY <1>1, <1>4 DEF IsTx, Partial
  <2>2. ledger'[k] = Flushed(ledger[k], tx[r].seen[k], tx[r].write[k])
    BY <1>4 DEF Commit
  <2>3. k \in DOMAIN tx[r].pay
    BY <1>1, <1>4 DEF IsTx
  <2>4. receipts'[k] = receipts[k] + tx[r].pay[k]
    BY <1>1, <2>3 DEF Commit
  <2> QED
    BY <1>3, <1>4, <2>1, <2>2, <2>4, FlushedRow
<1>5. CASE k \notin DOMAIN tx[r].write
  <2>1. k \notin DOMAIN tx[r].pay
    BY <1>1, <1>5 DEF IsTx
  <2>2. ledger'[k] = ledger[k] /\ receipts'[k] = receipts[k]
    BY <1>1, <1>3, <1>5, <2>1 DEF Commit
  <2> QED
    BY <1>3, <1>5, <2>2
<1> QED
  BY <1>4, <1>5

(* A refresh changes nothing but statuses, and those only to OVERDUE.      *)
LEMMA MarkOverdueRows ==
    ASSUME TypeOK, MarkOverdue
    PROVE  /\ DOMAIN ledger' = DOMAIN ledger
           /\ \A k \in DOMAIN ledger :
                /\ ledger[k] \in Row /\ ledger'[k] \in Row
                /\ ledger'[k].total = ledger[k].total
                /\ ledger'[k].paid = ledger[k].paid
                /\ \/ ledger'[k] = ledger[k]
                   \/ /\ ledger[k].status \in {"PENDING", "PARTIAL"}
                      /\ ledger'[k].status = "OVERDUE"
BY DEF TypeOK, MarkOverdue, Partial, Row, FeeStatus

(* The ledgers as generation left them: nothing paid, nothing received.    *)
LEMMA InitRows ==
    ASSUME Init
    PROVE  /\ DOMAIN ledger = Ledgers
           /\ Partial(ledger, Ledgers, Row)
           /\ \A k \in Ledgers :
                /\ ledger[k] \in Row /\ ledger[k].paid = 0 /\ receipts[k] = 0
                /\ \E due \in Day : ledger[k].status = LedgerStatus(0, ledger[k].total, due, today)
<1>1. PICK total \in [Ledgers -> Totals], due \in [Ledgers -> Day] :
         ledger = [k \in Ledgers |-> NewRow(total[k], due[k], today)]
  BY DEF Init
<1>2. ASSUME NEW k \in Ledgers
      PROVE  /\ ledger[k] \in Row /\ ledger[k].paid = 0
             /\ ledger[k].status = LedgerStatus(0, ledger[k].total, due[k], today)
  <2>1. total[k] \in Nat /\ due[k] \in Day /\ ledger[k] = NewRow(total[k], due[k], today)
    BY <1>1, LedgerConstants
  <2> QED
    BY <2>1, NewRowType
<1> QED
  BY <1>1, <1>2 DEF Init, Partial

(* No kind of step makes a row, a date or a unit of work ill-typed.        *)
LEMMA KindTypes ==
    ASSUME TypeOK,
           \/ \E r \in Requests : \E write, pay : Prepared(write, pay) /\ Open(r, write, pay)
           \/ \E r \in Requests : Commit(r)
           \/ \E r \in Requests : Abort(r)
           \/ MarkOverdue
           \/ NextDay
    PROVE  TypeOK'
<1>1. TypeOK
  OBVIOUS
<1>2. ASSUME NEW r \in Requests, NEW write, NEW pay, Prepared(write, pay),
             Open(r, write, pay)
      PROVE  TypeOK'
  BY <1>1, <1>2, OpenType DEF Prepared
<1>3. ASSUME NEW r \in Requests, Commit(r) PROVE TypeOK'
  <2>1. Partial(ledger', Ledgers, Row)
    <3>1. DOMAIN ledger' = DOMAIN ledger /\ \A k \in DOMAIN ledger : ledger'[k] \in Row
      BY <1>1, <1>3, CommitRows
    <3>2. ledger' = [k \in DOMAIN ledger |-> ledger'[k]]
      BY <1>3 DEF Commit
    <3> QED
      BY <1>1, <3>1, <3>2 DEF TypeOK, Partial
  <2>2. receipts' \in [Ledgers -> Nat]
    <3>1. SUFFICES ASSUME NEW k \in Ledgers
                   PROVE  receipts[k] + (IF k \in DOMAIN tx[r].pay THEN tx[r].pay[k] ELSE 0) \in Nat
      BY <1>3 DEF Commit
    <3> QED
      BY <1>1 DEF TypeOK, IsTx
  <2>3. \A q \in Requests : IsTx(tx'[q])
    BY <1>1, <1>3, ClosedTx DEF TypeOK, Commit
  <2> QED
    BY <1>1, <1>3, <2>1, <2>2, <2>3 DEF TypeOK, Commit
<1>4. ASSUME NEW r \in Requests, Abort(r) PROVE TypeOK'
  <2>1. \A q \in Requests : IsTx(tx'[q])
    BY <1>1, <1>4, ClosedTx DEF TypeOK, Abort
  <2> QED
    BY <1>1, <1>4, <2>1 DEF TypeOK, Abort
<1>5. CASE MarkOverdue
  <2>1. DOMAIN ledger' = DOMAIN ledger /\ \A k \in DOMAIN ledger : ledger'[k] \in Row
    BY <1>1, <1>5, MarkOverdueRows
  <2>2. ledger' = [k \in DOMAIN ledger |-> ledger'[k]]
    BY <1>5 DEF MarkOverdue
  <2>3. Partial(ledger', Ledgers, Row)
    BY <1>1, <2>1, <2>2 DEF TypeOK, Partial
  <2> QED
    BY <1>1, <1>5, <2>3 DEF TypeOK, MarkOverdue
<1>6. CASE NextDay
  BY <1>1, <1>6, LedgerConstants DEF TypeOK, NextDay, Day
<1> QED
  BY <1>2, <1>3, <1>4, <1>5, <1>6

(* No step of Next does.                                                   *)
LEMMA TypeStep == TypeOK /\ [Next]_vars => TypeOK'
<1>1. TypeOK /\ Next => TypeOK'
  BY StepKinds, KindTypes
<1>2. TypeOK /\ UNCHANGED vars => TypeOK'
  BY DEF TypeOK, vars
<1> QED
  BY <1>1, <1>2

(* Every reachable state is well typed.                                    *)
THEOREM TypeCorrect == Spec => []TypeOK
<1>1. Init => TypeOK
  <2>1. SUFFICES ASSUME Init PROVE TypeOK
    OBVIOUS
  <2> QED
    BY <2>1, InitRows, ClosedTx DEF Init, TypeOK
<1>2. TypeOK /\ [Next]_vars => TypeOK'
  BY TypeStep
<1> QED
  BY <1>1, <1>2, PTL DEF Spec

-----------------------------------------------------------------------------
(* Why overlap cannot break the two money invariants: what an open request *)
(* is about to write was within the bill, and what it read of paid_amount  *)
(* was already backed by receipts, which only grow.                        *)
TxSound(r) ==
    \A k \in DOMAIN tx[r].write :
       /\ k \in DOMAIN ledger
       /\ tx[r].write[k].paid = tx[r].seen[k].paid + tx[r].pay[k]
       /\ tx[r].write[k].paid <= ledger[k].total + Tol
       /\ tx[r].seen[k].paid <= receipts[k]

MoneyInv == /\ TypeOK
            /\ PaidWithinTotal
            /\ PaidBackedByReceipts
            /\ \A r \in Requests : TxSound(r)

(* No ledger starts with money on it, and no request with work to do.      *)
LEMMA MoneyInit == Init => MoneyInv
<1> SUFFICES ASSUME Init PROVE MoneyInv
  OBVIOUS
<1>1. TypeOK
  BY InitRows, ClosedTx DEF Init, TypeOK
<1>2. \A k \in DOMAIN ledger : ledger[k] \in Row /\ ledger[k].paid = 0 /\ receipts[k] = 0
  BY InitRows
<1>3. PaidWithinTotal /\ PaidBackedByReceipts
  BY <1>2 DEF PaidWithinTotal, PaidBackedByReceipts, Row, Tol
<1>4. \A r \in Requests : TxSound(r)
  BY DEF Init, Fresh, Empty, TxSound
<1> QED
  BY <1>1, <1>3, <1>4 DEF MoneyInv

(* No step of any request breaks the money invariant; in a commit the paid *)
(* column it leaves is either the current one or one computed from a row   *)
(* whose payments had all been counted.                                    *)
LEMMA MoneyStep == MoneyInv /\ TypeOK' /\ [Next]_vars => MoneyInv'
<1> SUFFICES ASSUME MoneyInv, TypeOK', [Next]_vars PROVE MoneyInv'
  OBVIOUS
<1>0. TypeOK
  BY DEF MoneyInv
<1>1. ASSUME NEW r \in Requests, NEW write, NEW pay, Prepared(write, pay), Open(r, write, pay)
      PROVE  MoneyInv'
  <2>1. PaidWithinTotal' /\ PaidBackedByReceipts'
    BY <1>1 DEF MoneyInv, PaidWithinTotal, PaidBackedByReceipts, Open
  <2>2. TxSound(r)'
    <3>1. SUFFICES ASSUME NEW k \in DOMAIN write
                   PROVE  /\ k \in DOMAIN ledger
                          /\ write[k].paid = ledger[k].paid + pay[k]
                          /\ write[k].paid <= ledger[k].total + Tol
                          /\ ledger[k].paid <= receipts[k]
      BY <1>0, <1>1 DEF TypeOK, TxSound, Open, Restrict
    <3>2. k \in DOMAIN ledger /\ ledger[k] \in Row /\ pay[k] \in Nat
      BY <1>0, <1>1 DEF Prepared, TypeOK, Partial
    <3>3. /\ write[k].paid = ledger[k].paid + pay[k]
          /\ pay[k] <= ledger[k].total - ledger[k].paid + Tol \/ pay[k] = 0
      BY <1>1 DEF Prepared, Outstanding
    <3>4. ledger[k].paid <= ledger[k].total + Tol /\ ledger[k].paid <= receipts[k]
      BY <3>2 DEF MoneyInv, PaidWithinTotal, PaidBackedByReceipts
    <3> QED
      BY <3>2, <3>3, <3>4 DEF Row, Tol
  <2>3. ASSUME NEW q \in Requests, q # r PROVE TxSound(q)'
    BY <1>0, <1>1, <2>3 DEF MoneyInv, TxSound, Open, TypeOK
  <2> QED
    BY <2>1, <2>2, <2>3 DEF MoneyInv
<1>2. ASSUME NEW r \in Requests, Commit(r) PROVE MoneyInv'
  <2>1. ASSUME NEW k \in DOMAIN ledger
        PROVE  /\ ledger'[k].paid <= ledger'[k].total + Tol
               /\ ledger'[k].paid <= receipts'[k]
               /\ ledger'[k].total = ledger[k].total
               /\ receipts[k] <= receipts'[k]
    <3>1. /\ ledger[k] \in Row /\ receipts[k] \in Nat
          /\ ledger[k].paid <= ledger[k].total + Tol /\ ledger[k].paid <= receipts[k]
      BY <1>0 DEF MoneyInv, TypeOK, Partial, PaidWithinTotal, PaidBackedByReceipts
    <3>2. CASE k \in DOMAIN tx[r].write
      <4>1. /\ tx[r].seen[k] \in Row /\ tx[r].write[k] \in Row /\ tx[r].pay[k] \in Nat
            /\ ledger'[k].total = ledger[k].total
            /\ ledger'[k].paid = Column(ledger[k].paid, tx[r].seen[k].paid, tx[r].write[k].paid)
            /\ receipts'[k] = receipts[k] + tx[r].pay[k]
        BY <1>0, <1>2, <3>2, CommitRows
      <4>2. /\ tx[r].write[k].paid = tx[r].seen[k].paid + tx[r].pay[k]
            /\ tx[r].write[k].paid <= ledger[k].total + Tol
            /\ tx[r].seen[k].paid <= receipts[k]
        BY <3>2 DEF MoneyInv, TxSound
      <4> QED
        BY <3>1, <4>1, <4>2 DEF Column, Row, Tol
    <3>3. CASE k \notin DOMAIN tx[r].write
      <4>1. ledger'[k] = ledger[k] /\ receipts'[k] = receipts[k]
        BY <1>0, <1>2, <3>3, CommitRows
      <4> QED
        BY <3>1, <4>1
    <3> QED
      BY <3>2, <3>3
  <2>2. DOMAIN ledger' = DOMAIN ledger
    BY <1>0, <1>2, CommitRows
  <2>3. PaidWithinTotal' /\ PaidBackedByReceipts'
    BY <2>1, <2>2 DEF PaidWithinTotal, PaidBackedByReceipts
  <2>4. ASSUME NEW q \in Requests PROVE TxSound(q)'
    <3>1. CASE q = r
      BY <1>0, <1>2, <3>1 DEF TypeOK, Commit, Closed, Fresh, Empty, TxSound
    <3>2. CASE q # r
      <4>1. tx'[q] = tx[q]
        BY <1>0, <1>2, <3>2 DEF TypeOK, Commit
      <4>2. SUFFICES ASSUME NEW k \in DOMAIN tx[q].write
                     PROVE  /\ k \in DOMAIN ledger'
                            /\ tx[q].write[k].paid = tx[q].seen[k].paid + tx[q].pay[k]
                            /\ tx[q].write[k].paid <= ledger'[k].total + Tol
                            /\ tx[q].seen[k].paid <= receipts'[k]
        BY <4>1 DEF TxSound
      <4>3. /\ k \in DOMAIN ledger
            /\ tx[q].write[k].paid = tx[q].seen[k].paid + tx[q].pay[k]
            /\ tx[q].write[k].paid <= ledger[k].total + Tol
            /\ tx[q].seen[k].paid <= receipts[k]
        BY DEF MoneyInv, TxSound
      <4>4. receipts[k] \in Nat /\ receipts'[k] \in Nat /\ tx[q].seen[k].paid \in Nat
        BY <1>0, <4>3 DEF TypeOK, Partial, IsTx, Row
      <4> QED
        BY <2>1, <2>2, <4>3, <4>4
    <3> QED
      BY <3>1, <3>2
  <2> QED
    BY <2>3, <2>4 DEF MoneyInv
<1>3. ASSUME NEW r \in Requests, Abort(r) PROVE MoneyInv'
  <2>1. ASSUME NEW q \in Requests PROVE TxSound(q)'
    <3>1. CASE q = r
      BY <1>0, <1>3, <3>1 DEF TypeOK, Abort, Closed, Fresh, Empty, TxSound
    <3>2. CASE q # r
      BY <1>0, <1>3, <3>2 DEF MoneyInv, TypeOK, Abort, TxSound
    <3> QED
      BY <3>1, <3>2
  <2> QED
    BY <1>3, <2>1 DEF MoneyInv, PaidWithinTotal, PaidBackedByReceipts, Abort
<1>4. CASE MarkOverdue
  <2>1. DOMAIN ledger' = DOMAIN ledger /\ \A k \in DOMAIN ledger :
           ledger'[k].total = ledger[k].total /\ ledger'[k].paid = ledger[k].paid
    BY <1>0, <1>4, MarkOverdueRows
  <2>2. UNCHANGED <<receipts, tx>>
    BY <1>4 DEF MarkOverdue
  <2> QED
    BY <2>1, <2>2 DEF MoneyInv, PaidWithinTotal, PaidBackedByReceipts, TxSound
<1>5. CASE NextDay \/ UNCHANGED vars
  BY <1>5 DEF MoneyInv, PaidWithinTotal, PaidBackedByReceipts, TxSound, NextDay, vars
<1> QED
  BY <1>0, <1>1, <1>2, <1>3, <1>4, <1>5, StepKinds

(* The money invariant holds in every interleaving.                        *)
THEOREM MoneyInvariant == Spec => []MoneyInv
<1>1. MoneyInv /\ TypeOK' /\ [Next]_vars => MoneyInv'
  BY MoneyStep
<1> QED
  BY <1>1, MoneyInit, TypeCorrect, PTL DEF Spec

(* No interleaving writes more into paid_amount than the ledger bills.     *)
THEOREM PaidStaysWithinTotal == Spec => []PaidWithinTotal
<1>1. MoneyInv => PaidWithinTotal
  BY DEF MoneyInv
<1> QED
  BY <1>1, MoneyInvariant, PTL

(* No interleaving credits a ledger with money nobody paid.                *)
THEOREM PaidIsBacked == Spec => []PaidBackedByReceipts
<1>1. MoneyInv => PaidBackedByReceipts
  BY DEF MoneyInv
<1> QED
  BY <1>1, MoneyInvariant, PTL

-----------------------------------------------------------------------------
(* Handlers one at a time.  The only thing that can change under an open   *)
(* request is the status of a row that a refresh finds overdue.            *)
TxCurrent(r) ==
    \A k \in DOMAIN tx[r].write :
       /\ tx[r].state = "open"
       /\ k \in DOMAIN ledger
       /\ tx[r].seen[k].paid = ledger[k].paid
       /\ tx[r].seen[k].total = ledger[k].total
       /\ tx[r].write[k].total = ledger[k].total
       /\ StatusFits(tx[r].seen[k])
       /\ StatusFits(tx[r].write[k])
       /\ \/ ledger[k].status = tx[r].seen[k].status
          \/ ledger[k].status = "OVERDUE" /\ tx[r].seen[k].status \in {"PENDING", "PARTIAL"}

SerialInv == /\ MoneyInv
             /\ DOMAIN ledger = Ledgers
             /\ AtMostOneOpen
             /\ BooksBalance
             /\ StatusMatchesAmounts
             /\ \A r \in Requests : TxCurrent(r)

(* The computed status fits the amounts it was computed from.              *)
LEMMA ComputedStatusFits ==
    ASSUME NEW row \in Row, NEW due \in Day, NEW day \in Day,
           row.status = LedgerStatus(row.paid, row.total, due, day)
    PROVE  StatusFits(row)
BY DEF StatusFits, LedgerStatus, Outstanding, Row, Day, Tol

(* What a commit does to a row that the request read current: the payment  *)
(* is added, the status fits, and a settled row stays settled.             *)
LEMMA CurrentCommit ==
    ASSUME SerialInv, NEW r \in Requests, Commit(r), NEW k \in DOMAIN ledger
    PROVE  /\ ledger'[k].paid = receipts'[k]
           /\ StatusFits(ledger'[k])
           /\ ledger[k].status = "PAID" => ledger'[k].status = "PAID"
<1>0. TypeOK /\ ledger[k] \in Row /\ ledger[k].paid = receipts[k] /\ StatusFits(ledger[k])
  BY CommitRows DEF SerialInv, MoneyInv, BooksBalance, StatusMatchesAmounts
<1>1. CASE k \in DOMAIN tx[r].write
  <2> DEFINE seen == tx[r].seen[k]
             new == tx[r].write[k]
  <2>1. /\ seen \in Row /\ new \in Row /\ tx[r].pay[k] \in Nat
        /\ ledger'[k] \in Row
        /\ ledger'[k].total = ledger[k].total
        /\ ledger'[k].paid = Column(ledger[k].paid, seen.paid, new.paid)
        /\ ledger'[k].status = Column(ledger[k].status, seen.status, new.status)
        /\ receipts'[k] = receipts[k] + tx[r].pay[k]
    BY <1>0, <1>1, CommitRows
  <2>2. /\ seen.paid = ledger[k].paid
        /\ seen.total = ledger[k].total
        /\ new.total = ledger[k].total
        /\ StatusFits(seen) /\ StatusFits(new)
        /\ \/ ledger[k].status = seen.status
           \/ ledger[k].status = "OVERDUE" /\ seen.status \in {"PENDING", "PARTIAL"}
    BY <1>1 DEF SerialInv, TxCurrent
  <2>3. new.paid = seen.paid + tx[r].pay[k]
    BY <1>1 DEF SerialInv, MoneyInv, TxSound
  <2> HIDE DEF seen, new
  <2>4. ledger'[k].paid = new.paid
    BY <2>1, <2>2 DEF Column
  <2>5. ledger'[k].paid = receipts'[k]
    BY <1>0, <2>1, <2>2, <2>3, <2>4 DEF Row
  <2>6. StatusFits(ledger'[k])
    BY <2>1, <2>2, <2>4 DEF StatusFits, Column, Outstanding, Row
  <2>7. ledger[k].status = "PAID" => ledger'[k].status = "PAID"
    BY <2>1, <2>2, <2>3 DEF StatusFits, Column, Outstanding, Row, Tol
  <2> QED
    BY <2>5, <2>6, <2>7
<1>2. CASE k \notin DOMAIN tx[r].write
  <2>1. ledger'[k] = ledger[k] /\ receipts'[k] = receipts[k]
    BY <1>0, <1>2, CommitRows
  <2> QED
    BY <1>0, <2>1
<1> QED
  BY <1>1, <1>2

(* Generation leaves every ledger balanced and its status fitting.         *)
LEMMA SerialInit == Init => SerialInv
<1> SUFFICES ASSUME Init PROVE SerialInv
  OBVIOUS
<1>1. \A k \in Ledgers : StatusFits(ledger[k])
  <2>1. SUFFICES ASSUME NEW k \in Ledgers PROVE StatusFits(ledger[k])
    OBVIOUS
  <2>2. PICK due \in Day : ledger[k].status = LedgerStatus(0, ledger[k].total, due, today)
    BY InitRows
  <2> QED
    BY <2>2, InitRows, ComputedStatusFits DEF Init
<1>2. \A k \in Ledgers : ledger[k].paid = receipts[k]
  BY InitRows
<1>3. AtMostOneOpen /\ \A r \in Requests : TxCurrent(r)
  BY DEF Init, Fresh, Empty, AtMostOneOpen, TxCurrent
<1> QED
  BY <1>1, <1>2, <1>3, InitRows, MoneyInit DEF SerialInv, BooksBalance, StatusMatchesAmounts

(* A step keeps the books of every ledger when no two requests overlap.    *)
LEMMA SerialStep ==
    SerialInv /\ MoneyInv' /\ [Next /\ AtMostOneOpen']_vars => SerialInv'
<1> SUFFICES ASSUME SerialInv, MoneyInv', [Next /\ AtMostOneOpen']_vars PROVE SerialInv'
  OBVIOUS
<1>0. TypeOK
  BY DEF SerialInv, MoneyInv
<1>1. CASE UNCHANGED vars
  BY <1>1 DEF SerialInv, AtMostOneOpen, BooksBalance, StatusMatchesAmounts, TxCurrent, vars
<1>2. ASSUME Next, AtMostOneOpen' PROVE SerialInv'
  <2>1. ASSUME NEW r \in Requests, NEW write, NEW pay, Prepared(write, pay), Open(r, write, pay)
        PROVE  SerialInv'
    <3>1. TxCurrent(r)'
      <4>1. SUFFICES ASSUME NEW k \in DOMAIN write
                     PROVE  /\ k \in DOMAIN ledger
                            /\ write[k].total = ledger[k].total
                            /\ StatusFits(ledger[k])
                            /\ StatusFits(write[k])
        BY <1>0, <2>1 DEF TypeOK, TxCurrent, Open, Restrict
      <4>2. /\ k \in DOMAIN ledger /\ ledger[k] \in Row /\ write[k] \in Row
            /\ pay[k] \in Nat /\ StatusFits(ledger[k])
            /\ write[k].total = ledger[k].total
            /\ write[k].paid = ledger[k].paid + pay[k]
        BY <1>0, <2>1 DEF Prepared, TypeOK, Partial, SerialInv, StatusMatchesAmounts
      <4>3. CASE pay[k] > 0
        <5>1. PICK day \in Day :
                write[k].status = LedgerStatus(write[k].paid, write[k].total, write[k].due, day)
          BY <2>1, <4>2, <4>3 DEF Prepared
        <5>2. StatusFits(write[k])
          BY <4>2, <5>1, ComputedStatusFits DEF Row
        <5> QED
          BY <4>2, <5>2
      <4>4. CASE pay[k] = 0
        <5>1. write[k].status = "OVERDUE" /\ ledger[k].status # "PAID"
          BY <2>1, <4>4 DEF Prepared
        <5> QED
          BY <4>2, <4>4, <5>1 DEF StatusFits, Outstanding, Row
      <4> QED
        BY <4>2, <4>3, <4>4
    <3>2. ASSUME NEW q \in Requests, q # r PROVE TxCurrent(q)'
      BY <1>0, <2>1, <3>2 DEF SerialInv, TxCurrent, Open, TypeOK
    <3> QED
      BY <1>2, <2>1, <3>1, <3>2 DEF SerialInv, BooksBalance, StatusMatchesAmounts, Open
  <2>2. ASSUME NEW r \in Requests, Commit(r) PROVE SerialInv'
    <3>1. DOMAIN ledger' = DOMAIN ledger
      BY <1>0, <2>2, CommitRows
    <3>2. BooksBalance' /\ StatusMatchesAmounts'
      BY <2>2, <3>1, CurrentCommit DEF BooksBalance, StatusMatchesAmounts
    <3>3. ASSUME NEW q \in Requests PROVE TxCurrent(q)'
      <4>1. CASE q = r
        BY <1>0, <2>2, <4>1 DEF TypeOK, Commit, Closed, Fresh, Empty, TxCurrent
      <4>2. CASE q # r
        <5>1. tx'[q] = tx[q] /\ tx[r].state = "open"
          BY <1>0, <2>2, <4>2 DEF TypeOK, Commit
        <5>2. tx[q].state # "open"
          BY <4>2, <5>1 DEF SerialInv, AtMostOneOpen
        <5>3. DOMAIN tx[q].write = {}
          BY <5>2 DEF SerialInv, TxCurrent
        <5> QED
          BY <5>1, <5>3 DEF TxCurrent
      <4> QED
        BY <4>1, <4>2
    <3> QED
      BY <1>2, <3>1, <3>2, <3>3 DEF SerialInv
  <2>3. ASSUME NEW r \in Requests, Abort(r) PROVE SerialInv'
    <3>1. ASSUME NEW q \in Requests PROVE TxCurrent(q)'
      <4>1. CASE q = r
        BY <1>0, <2>3, <4>1 DEF TypeOK, Abort, Closed, Fresh, Empty, TxCurrent
      <4>2. CASE q # r
        BY <1>0, <2>3, <4>2 DEF SerialInv, TypeOK, Abort, TxCurrent
      <4> QED
        BY <4>1, <4>2
    <3> QED
      BY <1>2, <2>3, <3>1 DEF SerialInv, BooksBalance, StatusMatchesAmounts, Abort
  <2>4. CASE MarkOverdue
    <3>1. UNCHANGED <<receipts, tx>>
      BY <2>4 DEF MarkOverdue
    <3>2. DOMAIN ledger' = DOMAIN ledger
      BY <1>0, <2>4, MarkOverdueRows
    <3>3. ASSUME NEW k \in DOMAIN ledger
          PROVE  /\ ledger'[k].total = ledger[k].total
                 /\ ledger'[k].paid = ledger[k].paid
                 /\ StatusFits(ledger'[k])
                 /\ \/ ledger'[k].status = ledger[k].status
                    \/ /\ ledger[k].status \in {"PENDING", "PARTIAL"}
                       /\ ledger'[k].status = "OVERDUE"
      <4>1. /\ ledger[k] \in Row /\ ledger'[k] \in Row /\ StatusFits(ledger[k])
            /\ ledger'[k].total = ledger[k].total /\ ledger'[k].paid = ledger[k].paid
            /\ \/ ledger'[k] = ledger[k]
               \/ /\ ledger[k].status \in {"PENDING", "PARTIAL"}
                  /\ ledger'[k].status = "OVERDUE"
        BY <1>0, <2>4, MarkOverdueRows DEF SerialInv, StatusMatchesAmounts
      <4> QED
        BY <4>1 DEF StatusFits, Outstanding, Row
    <3>4. BooksBalance' /\ StatusMatchesAmounts'
      BY <3>1, <3>2, <3>3 DEF SerialInv, BooksBalance, StatusMatchesAmounts
    <3>5. ASSUME NEW q \in Requests PROVE TxCurrent(q)'
      <4>1. SUFFICES ASSUME NEW k \in DOMAIN tx[q].write
                     PROVE  /\ tx[q].state = "open"
                            /\ k \in DOMAIN ledger'
                            /\ tx[q].seen[k].paid = ledger'[k].paid
                            /\ tx[q].seen[k].total = ledger'[k].total
                            /\ tx[q].write[k].total = ledger'[k].total
                            /\ StatusFits(tx[q].seen[k])
                            /\ StatusFits(tx[q].write[k])
                            /\ \/ ledger'[k].status = tx[q].seen[k].status
                               \/ /\ ledger'[k].status = "OVERDUE"
                                  /\ tx[q].seen[k].status \in {"PENDING", "PARTIAL"}
        BY <3>1 DEF TxCurrent
      <4>2. /\ tx[q].state = "open" /\ k \in DOMAIN ledger
            /\ tx[q].seen[k].paid = ledger[k].paid
            /\ tx[q].seen[k].total = ledger[k].total
            /\ tx[q].write[k].total = ledger[k].total
            /\ StatusFits(tx[q].seen[k])
            /\ StatusFits(tx[q].write[k])
            /\ \/ ledger[k].status = tx[q].seen[k].status
               \/ ledger[k].status = "OVERDUE" /\ tx[q].seen[k].status \in {"PENDING", "PARTIAL"}
        BY DEF SerialInv, TxCurrent
      <4> QED
        BY <3>2, <3>3, <4>2
    <3> QED
      BY <1>2, <3>2, <3>4, <3>5 DEF SerialInv
  <2>5. CASE NextDay
    BY <1>2, <2>5 DEF SerialInv, AtMostOneOpen, BooksBalance, StatusMatchesAmounts,
                      TxCurrent, NextDay
  <2> QED
    BY <1>0, <1>2, <2>1, <2>2, <2>3, <2>4, <2>5, StepKinds
<1> QED
  BY <1>1, <1>2

(* One handler at a time, what a request read is still so at its commit,   *)
(* but for a refresh that made the row OVERDUE.                            *)
THEOREM SerialInvariant == SerialSpec => [](MoneyInv /\ SerialInv)
<1>1. [Next /\ AtMostOneOpen']_vars => [Next]_vars
  OBVIOUS
<1>2. SerialSpec => Spec
  BY <1>1, PTL DEF SerialSpec, Spec
<1>3. SerialInv /\ MoneyInv' /\ [Next /\ AtMostOneOpen']_vars => SerialInv'
  BY SerialStep
<1> QED
  BY <1>2, <1>3, SerialInit, MoneyInvariant, PTL DEF SerialSpec

(* One handler at a time, the paid column is the sum of the payments.      *)
THEOREM SerialBooksBalance == SerialSpec => []BooksBalance
<1>1. SerialInv => BooksBalance
  BY DEF SerialInv
<1> QED
  BY <1>1, SerialInvariant, PTL

(* One handler at a time, the status column says what the amounts say.     *)
THEOREM SerialStatus == SerialSpec => []StatusMatchesAmounts
<1>1. SerialInv => StatusMatchesAmounts
  BY DEF SerialInv
<1> QED
  BY <1>1, SerialInvariant, PTL

(* One handler at a time, a PAID ledger is never reopened.                 *)
THEOREM SerialSettled == SerialSpec => SettledStaysSettled
<1>1. SerialInv /\ [Next /\ AtMostOneOpen']_vars
        => [\A k \in DOMAIN ledger \cap DOMAIN ledger' :
              ledger[k].status = "PAID" => ledger'[k].status = "PAID"]_vars
  <2> SUFFICES ASSUME SerialInv, Next, NEW k \in DOMAIN ledger \cap DOMAIN ledger',
                      ledger[k].status = "PAID"
               PROVE  ledger'[k].status = "PAID"
    OBVIOUS
  <2>0. TypeOK
    BY DEF SerialInv, MoneyInv
  <2>1. CASE \E r \in Requests : \E write, pay : Prepared(write, pay) /\ Open(r, write, pay)
    BY <2>1 DEF Open
  <2>2. CASE \E r \in Requests : Commit(r)
    BY <2>2, CurrentCommit
  <2>3. CASE \E r \in Requests : Abort(r)
    BY <2>3 DEF Abort
  <2>4. CASE MarkOverdue
    BY <2>0, <2>4, MarkOverdueRows
  <2>5. CASE NextDay
    BY <2>5 DEF NextDay
  <2> QED
    BY <2>0, <2>1, <2>2, <2>3, <2>4, <2>5, StepKinds
<1> QED
  BY <1>1, SerialInvariant, PTL DEF SerialSpec, SettledStaysSettled

-----------------------------------------------------------------------------
(* One handler at a time, the fee service keeps the promise of FeeAccounts *)
(* about money: a receipt is accepted only while the bill has room for it. *)
THEOREM SerialRefinement == SerialSpec => AccountsSpec
<1> DEFINE bill == [k \in Ledgers |-> ledger[k].total]
<1>1. SerialInv /\ Init => Accounts!Init
  BY DEF SerialInv, MoneyInv, TypeOK, Partial, Init, Accounts!Init, Row
<1>2. SerialInv /\ SerialInv' /\ [Next /\ AtMostOneOpen']_vars
        => [Accounts!Receive]_(Accounts!vars)
  <2> SUFFICES ASSUME SerialInv, SerialInv', [Next]_vars
               PROVE  Accounts!Receive \/ UNCHANGED Accounts!vars
    OBVIOUS
  <2>0. TypeOK /\ TypeOK' /\ DOMAIN ledger = Ledgers /\ DOMAIN ledger' = Ledgers
    BY DEF SerialInv, MoneyInv
  <2>1. CASE UNCHANGED <<ledger, receipts>>
    BY <2>1 DEF Accounts!vars
  <2>2. CASE \E r \in Requests : Commit(r)
    <3>1. PICK r \in Requests : Commit(r)
      BY <2>2
    <3>2. ASSUME NEW k \in Ledgers
          PROVE  /\ ledger'[k].total = ledger[k].total
                 /\ receipts[k] \in Nat /\ receipts'[k] \in Nat
                 /\ receipts'[k] >= receipts[k]
                 /\ receipts'[k] <= ledger[k].total + Tol
      <4>1. /\ ledger[k] \in Row /\ ledger'[k] \in Row
            /\ ledger'[k].total = ledger[k].total
            /\ receipts[k] \in Nat /\ receipts'[k] \in Nat
        BY <2>0, <3>1, CommitRows DEF TypeOK
      <4>2. /\ ledger'[k].paid = receipts'[k]
            /\ ledger'[k].paid <= ledger'[k].total + Tol
        BY <2>0 DEF SerialInv, MoneyInv, BooksBalance, PaidWithinTotal
      <4>3. receipts'[k] >= receipts[k]
        <5>1. CASE k \in DOMAIN tx[r].write
          <6>1. tx[r].pay[k] \in Nat /\ receipts'[k] = receipts[k] + tx[r].pay[k]
            BY <2>0, <3>1, <5>1, CommitRows
          <6> QED
            BY <4>1, <6>1
        <5>2. CASE k \notin DOMAIN tx[r].write
          <6>1. receipts'[k] = receipts[k]
            BY <2>0, <3>1, <5>2, CommitRows
          <6> QED
            BY <4>1, <6>1
        <5> QED
          BY <5>1, <5>2
      <4> QED
        BY <4>1, <4>2, <4>3
    <3>3. UNCHANGED bill
      BY <3>2
    <3>4. receipts' \in [Ledgers -> Nat]
      BY <2>0 DEF TypeOK
    <3>5. \A k \in Ledgers :
             \/ receipts'[k] = receipts[k]
             \/ receipts'[k] > receipts[k] /\ receipts'[k] <= bill[k] + Tol
      BY <3>2
    <3> QED
      BY <3>3, <3>4, <3>5 DEF Accounts!Receive
  <2>3. CASE MarkOverdue
    <3>1. \A k \in Ledgers : ledger'[k].total = ledger[k].total
      BY <2>0, <2>3, MarkOverdueRows
    <3>2. UNCHANGED <<bill, receipts>>
      BY <2>3, <3>1 DEF MarkOverdue
    <3> QED
      BY <3>2 DEF Accounts!vars
  <2>4. CASE \/ \E r \in Requests : \E write, pay : Prepared(write, pay) /\ Open(r, write, pay)
             \/ \E r \in Requests : Abort(r)
             \/ NextDay
             \/ UNCHANGED vars
    <3>1. UNCHANGED <<ledger, receipts>>
      BY <2>4 DEF Open, Abort, NextDay, vars
    <3> QED
      BY <2>1, <3>1
  <2> QED
    BY <2>0, <2>2, <2>3, <2>4, StepKinds
<1> QED
  BY <1>1, <1>2, SerialInvariant, PTL DEF SerialSpec, AccountsSpec, Accounts!Spec
=============================================================================
