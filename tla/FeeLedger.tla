----------------------------- MODULE FeeLedger -----------------------------
(***************************************************************************)
(* Money on student fee ledgers: record_payment, allocate_student_payment, *)
(* the overdue refresh and the dashboard of src/app/services/fee.py.       *)
(*                                                                         *)
(* A request owns one AsyncSession: its SELECTs see committed rows, its    *)
(* UPDATEs become visible to others when get_db commits after the handler  *)
(* returned.  A handler is therefore two steps, the read with its guards   *)
(* and the computation (RecordPayment, Allocate, FeeDashboard) and the     *)
(* Commit, with any other request in between; Abort is a rollback.  Rows   *)
(* are never locked for update, so what was read may be stale at Commit.   *)
(* Amounts are whole paise, as Numeric(10, 2) stores them.                 *)
(***************************************************************************)
EXTENDS Integers, FiniteSets, FiniteSetsExt, Functions

CONSTANTS Ledgers,     \* ids of fee_ledger rows
          Students,    \* ids of students
          Owner,       \* [Ledgers -> Students], the student_id column
          Requests,    \* the HTTP requests served, each once
          Totals,      \* amounts a ledger may bill
          Amounts,     \* amounts a cashier may enter
          MaxDay       \* dates are 0..MaxDay

ASSUME LedgerConstants ==
    /\ Owner \in [Ledgers -> Students]
    /\ Totals \subseteq Nat \ {0}
    /\ Amounts \subseteq Nat \ {0}
    /\ MaxDay \in Nat

Tol == 1               \* the 0.01 of every comparison in fee.py, in paise
Day == 0..MaxDay
FeeStatus == {"PENDING", "PARTIAL", "PAID", "OVERDUE"}
Row == [total : Nat, paid : Nat, due : Day, status : FeeStatus]
Partial(f, S, T) == DOMAIN f \subseteq S /\ f \in [DOMAIN f -> T]

VARIABLES ledger,      \* committed fee_ledger rows, by id
          receipts,    \* for each id, the sum of its committed Payment rows
          today,       \* datetime.now(timezone.utc).date()
          tx           \* what each request has read and is about to write

vars == <<ledger, receipts, today, tx>>

(* The unit of work of a request: the rows it will update as it loaded     *)
(* them, the same rows as the handler left them, the payments it inserts.  *)
IsTx(t) == /\ t = [state |-> t.state, seen |-> t.seen, write |-> t.write, pay |-> t.pay]
           /\ t.state \in {"new", "open", "done"}
           /\ Partial(t.write, Ledgers, Row)
           /\ t.seen \in [DOMAIN t.write -> Row]
           /\ t.pay \in [DOMAIN t.write -> Nat]

Empty == [k \in {} |-> 0]
Fresh == [state |-> "new", seen |-> Empty, write |-> Empty, pay |-> Empty]
Closed == [Fresh EXCEPT !.state = "done"]

TypeOK == /\ Partial(ledger, Ledgers, Row)
          /\ receipts \in [Ledgers -> Nat]
          /\ today \in Day
          /\ DOMAIN tx = Requests
          /\ \A r \in Requests : IsTx(tx[r])

-----------------------------------------------------------------------------
Outstanding(row) == row.total - row.paid

(* Mutant of LedgerStatus: the tolerance forgotten at the boundary.        *)
StatusStrict(paid, total, due, day) ==
    IF paid > total - Tol THEN "PAID"
    ELSE IF day > due THEN "OVERDUE"
    ELSE IF paid > 0 THEN "PARTIAL"
    ELSE "PENDING"

LedgerStatus(paid, total, due, day) ==
    IF paid >= total - Tol THEN "PAID"
    ELSE IF day > due THEN "OVERDUE"
    ELSE IF paid > 0 THEN "PARTIAL"
    ELSE "PENDING"

(* A row as generate_ledger inserts it.                                    *)
NewRow(total, due, day) ==
    [total |-> total, paid |-> 0, due |-> due,
     status |-> LedgerStatus(0, total, due, day)]

(* Mutants of Credited: the amount capped at the bill, and a sign error.   *)
CreditedCapped(row, amount, day) ==
    [row EXCEPT !.paid = IF @ + amount > row.total THEN row.total ELSE @ + amount,
                !.status = LedgerStatus(row.paid + amount, row.total, row.due, day)]
CreditedNegated(row, amount, day) ==
    [row EXCEPT !.paid = @ - amount,
                !.status = LedgerStatus(row.paid - amount, row.total, row.due, day)]

(* A row as the handler leaves it after a payment dated day.               *)
Credited(row, amount, day) ==
    [row EXCEPT !.paid = @ + amount,
                !.status = LedgerStatus(row.paid + amount, row.total, row.due, day)]

(* The unit of work updates only the columns whose value changed since the *)
(* row was loaded, and sets them to literals, whatever they are by now.    *)
Column(now, seen, new) == IF new = seen THEN now ELSE new
Flushed(now, seen, new) ==
    [now EXCEPT !.paid = Column(@, seen.paid, new.paid),
                !.status = Column(@, seen.status, new.status)]

RowsOf(s) == {k \in DOMAIN ledger : Owner[k] = s}

Open(r, write, pay) ==
    /\ tx[r].state = "new"
    /\ tx' = [tx EXCEPT ![r] = [state |-> "open", write |-> write, pay |-> pay,
                                seen |-> Restrict(ledger, DOMAIN write)]]
    /\ UNCHANGED <<ledger, receipts, today>>
-----------------------------------------------------------------------------
Init == /\ today \in Day
        /\ \E total \in [Ledgers -> Totals], due \in [Ledgers -> Day] :
              ledger = [k \in Ledgers |-> NewRow(total[k], due[k], today)]
        /\ receipts = [k \in Ledgers |-> 0]
        /\ tx = [r \in Requests |-> Fresh]

(* Mutant of RecordPayment: no overpayment guard.                          *)
RecordUnchecked(r, k, amount, day) ==
    /\ k \in DOMAIN ledger
    /\ Open(r, [j \in {k} |-> Credited(ledger[j], amount, day)],
               [j \in {k} |-> amount])

(* payment_date comes from the request, and may be any date.               *)
RecordPayment(r, k, amount, day) ==
    /\ k \in DOMAIN ledger
    /\ amount <= Outstanding(ledger[k]) + Tol
    /\ Open(r, [j \in {k} |-> Credited(ledger[j], amount, day)],
               [j \in {k} |-> amount])

(* The order in which a payment is spread: overdue rows first, then        *)
(* partial, pending and the rest, by due date; ties as the database lists  *)
(* them (rows made by one request share their created_at).                 *)
Priority(row) == CASE row.status = "OVERDUE" -> 0
                   [] row.status = "PARTIAL" -> 1
                   [] row.status = "PENDING" -> 2
                   [] OTHER -> 3
Precedes(a, b) == \/ Priority(a) < Priority(b)
                  \/ Priority(a) = Priority(b) /\ a.due < b.due
AllocationOrder(rows, place) ==
    \A j, k \in rows : Precedes(ledger[j], ledger[k]) => place[j] < place[k]

(* What the loop gives each row: the smaller of its outstanding amount and *)
(* what earlier rows left, nothing once at most Tol is left.               *)
SpreadsGreedily(amount, place, part) ==
    \A k \in DOMAIN part :
       LET earlier == {j \in DOMAIN part : place[j] < place[k]}
           left == amount - MapThenSumSet(LAMBDA j : part[j], earlier)
           owed == Outstanding(ledger[k])
       IN  part[k] = IF left <= Tol THEN 0 ELSE IF left <= owed THEN left ELSE owed

Allocate(r, s, amount, day) ==
    LET eligible == {k \in RowsOf(s) : Outstanding(ledger[k]) > Tol}
    IN  \E place \in Bijection(eligible, 1..Cardinality(eligible)) :
          /\ AllocationOrder(eligible, place)
          /\ \E part \in [eligible -> 0..amount] :
               /\ SpreadsGreedily(amount, place, part)
               /\ LET paid == {k \in eligible : part[k] > 0}
                  IN  Open(r, [k \in paid |-> Credited(ledger[k], part[k], day)],
                              Restrict(part, paid))

(* Mutant of FeeDashboard: PAID rows are not spared.                       *)
DashboardOfAll(r, s) ==
    LET late == {k \in RowsOf(s) : today > ledger[k].due /\ ledger[k].status # "OVERDUE"}
    IN  /\ late # {}
        /\ Open(r, [k \in late |-> [ledger[k] EXCEPT !.status = "OVERDUE"]],
                   [k \in late |-> 0])

(* Reading the dashboard writes: past-due rows that the request read as    *)
(* not PAID are set to OVERDUE.                                            *)
FeeDashboard(r, s) ==
    LET late == {k \in RowsOf(s) : /\ today > ledger[k].due
                                   /\ ledger[k].status \notin {"PAID", "OVERDUE"}}
    IN  /\ late # {}
        /\ Open(r, [k \in late |-> [ledger[k] EXCEPT !.status = "OVERDUE"]],
                   [k \in late |-> 0])

(* refresh_overdue_statuses and every admin listing: one UPDATE statement. *)
MarkOverdue ==
    LET late == {k \in DOMAIN ledger : /\ ledger[k].status \in {"PENDING", "PARTIAL"}
                                       /\ ledger[k].due < today}
    IN  /\ late # {}
        /\ ledger' = [k \in DOMAIN ledger |->
                        IF k \in late THEN [ledger[k] EXCEPT !.status = "OVERDUE"]
                                      ELSE ledger[k]]
        /\ UNCHANGED <<receipts, today, tx>>

(* Mutant of Commit: the ledger is updated, the Payment row is not kept.   *)
CommitWithoutReceipt(r) ==
    /\ tx[r].state = "open"
    /\ DOMAIN tx[r].write \subseteq DOMAIN ledger
    /\ ledger' = [k \in DOMAIN ledger |->
                    IF k \in DOMAIN tx[r].write
                    THEN Flushed(ledger[k], tx[r].seen[k], tx[r].write[k])
                    ELSE ledger[k]]
    /\ tx' = [tx EXCEPT ![r] = Closed]
    /\ UNCHANGED <<receipts, today>>

(* An UPDATE or an INSERT that finds its ledger row gone makes the request *)
(* fail, so that only Abort is left to it.                                 *)
Commit(r) ==
    /\ tx[r].state = "open"
    /\ DOMAIN tx[r].write \subseteq DOMAIN ledger
    /\ ledger' = [k \in DOMAIN ledger |->
                    IF k \in DOMAIN tx[r].write
                    THEN Flushed(ledger[k], tx[r].seen[k], tx[r].write[k])
                    ELSE ledger[k]]
    /\ receipts' = [k \in Ledgers |->
                      receipts[k] + IF k \in DOMAIN tx[r].pay THEN tx[r].pay[k] ELSE 0]
    /\ tx' = [tx EXCEPT ![r] = Closed]
    /\ UNCHANGED today

Abort(r) ==
    /\ tx[r].state = "open"
    /\ tx' = [tx EXCEPT ![r] = Closed]
    /\ UNCHANGED <<ledger, receipts, today>>

NextDay ==
    /\ today < MaxDay
    /\ today' = today + 1
    /\ UNCHANGED <<ledger, receipts, tx>>

Next == \/ \E r \in Requests :
             \/ \E k \in Ledgers, amount \in Amounts, day \in Day :
                   RecordPayment(r, k, amount, day)
             \/ \E s \in Students, amount \in Amounts, day \in Day :
                   Allocate(r, s, amount, day)
             \/ \E s \in Students : FeeDashboard(r, s)
             \/ Commit(r)
             \/ Abort(r)
        \/ MarkOverdue
        \/ NextDay

Spec == Init /\ [][Next]_vars

(* The same program when at most one handler is between its read and its   *)
(* commit (an overdue refresh may still fall in between).  What holds here *)
(* but not of Spec is what overlapping requests break.                     *)
AtMostOneOpen == \A q, r \in Requests :
                    tx[q].state = "open" /\ tx[r].state = "open" => q = r
SerialSpec == Init /\ [][Next /\ AtMostOneOpen']_vars
-----------------------------------------------------------------------------
(* What holds of every interleaving.                                       *)

(* The paid_amount column never exceeds the bill by more than Tol, whatever *)
(* requests overlap: each write was computed from one row that had room.   *)
PaidWithinTotal == \A k \in DOMAIN ledger : ledger[k].paid <= ledger[k].total + Tol

(* No ledger is credited with money that no Payment row accounts for:      *)
(* overlapping writes can lose a credit but never invent one.              *)
PaidBackedByReceipts == \A k \in DOMAIN ledger : ledger[k].paid <= receipts[k]

(* record_payment answers "Overpayment is not allowed": the payments kept  *)
(* against a ledger stay within its bill.  Two overlapping requests break  *)
(* it (both read the same outstanding amount).                             *)
NoOverpayment == \A k \in DOMAIN ledger : receipts[k] <= ledger[k].total + Tol

(* What holds only while handlers do not overlap (SerialSpec).             *)

(* The column paid_amount is the sum of the ledger's Payment rows.         *)
BooksBalance == \A k \in DOMAIN ledger : ledger[k].paid = receipts[k]

(* The status column says what the amounts say: PAID exactly when nothing  *)
(* but the tolerance is owed, PENDING only before the first payment and    *)
(* PARTIAL only after it.                                                  *)
StatusFits(row) == /\ row.status = "PAID" <=> Outstanding(row) <= Tol
                   /\ row.status = "PENDING" => row.paid = 0
                   /\ row.status = "PARTIAL" => row.paid > 0
StatusMatchesAmounts == \A k \in DOMAIN ledger : StatusFits(ledger[k])

(* A settled ledger is never reopened, not by the dashboard, not by the    *)
(* overdue refresh, not by a later payment dated after the due date.       *)
SettledStaysSettled ==
    [][\A k \in DOMAIN ledger \cap DOMAIN ledger' :
          ledger[k].status = "PAID" => ledger'[k].status = "PAID"]_vars

(* Handlers that do not overlap implement the promise of FeeAccounts.      *)
Accounts == INSTANCE FeeAccounts
               WITH received <- receipts,
                    bill <- [k \in Ledgers |-> ledger[k].total]
AccountsSpec == Accounts!Spec
=============================================================================
