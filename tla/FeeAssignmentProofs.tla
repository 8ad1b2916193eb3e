------------------------- MODULE FeeAssignmentProofs -------------------------
(***************************************************************************)
(* Theorems about FeeAssignment, for every set of students, classes, heads *)
(* and jobs, and for every price, plan and cycle: the ledgers that jobs    *)
(* generate, change and delete next to the payments on them.               *)
(***************************************************************************)
EXTENDS FeeAssignment, Sums, TLAPS

(* The theorems about payments, on the ledgers of FeeAssignment.           *)
Pay == INSTANCE FeeLedgerProofs
          WITH Ledgers <- LedgerIds, Totals <- Prices,
               Owner <- [k \in LedgerIds |-> k.student]

LEMMA PayConstants == Pay!LedgerConstants
<1>1. [k \in LedgerIds |-> k.student] \in [LedgerIds -> Students]
  BY DEF LedgerIds
<1> QED
  BY <1>1, AssignmentConstants DEF Pay!LedgerConstants

LEMMA SameTypes ==
    /\ Payments!Row = Pay!Row
    /\ \A f, S, T : Payments!Partial(f, S, T) <=> Pay!Partial(f, S, T)
    /\ Payments!TypeOK <=> Pay!TypeOK
    /\ Payments!Fresh = Pay!Fresh
BY DEF Payments!TypeOK, Pay!TypeOK, Payments!Partial, Pay!Partial, Payments!Row, Pay!Row,
       Payments!Day, Pay!Day, Payments!FeeStatus, Pay!FeeStatus, Payments!IsTx, Pay!IsTx,
       Payments!Fresh, Pay!Fresh, Payments!Empty, Pay!Empty

LEMMA SameRows ==
    /\ \A paid, total, due, day :
          Payments!LedgerStatus(paid, total, due, day) = Pay!LedgerStatus(paid, total, due, day)
    /\ \A total, due, day : Payments!NewRow(total, due, day) = Pay!NewRow(total, due, day)
    /\ \A row, amount, day : Payments!Credited(row, amount, day) = Pay!Credited(row, amount, day)
    /\ \A now, seen, new : /\ Payments!Column(now, seen, new) = Pay!Column(now, seen, new)
                           /\ Payments!Flushed(now, seen, new) = Pay!Flushed(now, seen, new)
    /\ \A row : Payments!Outstanding(row) = Pay!Outstanding(row)
    /\ Payments!Closed = Pay!Closed
BY DEF Payments!LedgerStatus, Pay!LedgerStatus, Payments!NewRow, Pay!NewRow,
       Payments!Credited, Pay!Credited, Payments!Column, Pay!Column,
       Payments!Flushed, Pay!Flushed, Payments!Outstanding, Pay!Outstanding,
       Payments!Closed, Pay!Closed, Payments!Fresh, Pay!Fresh, Payments!Empty, Pay!Empty,
       Payments!Tol, Pay!Tol

LEMMA SameSteps ==
    /\ \A r, write, pay : Payments!Open(r, write, pay) <=> Pay!Open(r, write, pay)
    /\ \A r : Payments!Commit(r) <=> Pay!Commit(r)
    /\ \A r : Payments!Abort(r) <=> Pay!Abort(r)
    /\ Payments!MarkOverdue <=> Pay!MarkOverdue
    /\ Payments!NextDay <=> Pay!NextDay
BY SameRows
   DEF Payments!Open, Pay!Open, Payments!Restrict, Pay!Restrict, Payments!Commit, Pay!Commit,
       Payments!Abort, Pay!Abort, Payments!MarkOverdue, Pay!MarkOverdue,
       Payments!NextDay, Pay!NextDay

LEMMA SameRecord ==
    /\ \A r, k, amount, day :
          Payments!RecordPayment(r, k, amount, day) <=> Pay!RecordPayment(r, k, amount, day)
    /\ \A r, s : Payments!FeeDashboard(r, s) <=> Pay!FeeDashboard(r, s)
BY SameRows, SameSteps
   DEF Payments!RecordPayment, Pay!RecordPayment, Payments!FeeDashboard, Pay!FeeDashboard,
       Payments!RowsOf, Pay!RowsOf, Payments!Tol, Pay!Tol

(* The greedy spread of a payment gives no ledger more than it owes.       *)
LEMMA SharesOfAllocate ==
    ASSUME Pay!TypeOK, NEW r \in Requests, NEW s \in Students, NEW amount \in Nat,
           NEW day \in Day, Payments!Allocate(r, s, amount, day)
    PROVE  \E part : Pay!Shares(r, day, part)
<1> DEFINE eligible == {k \in Payments!RowsOf(s) : Payments!Outstanding(ledger[k]) > 1}
<1>1. PICK place \in Payments!Bijection(eligible, 1..Payments!Cardinality(eligible)),
           part \in [eligible -> 0..amount] :
         /\ Payments!SpreadsGreedily(amount, place, part)
         /\ LET paid == {k \in eligible : part[k] > 0}
            IN  Payments!Open(r, [k \in paid |-> Payments!Credited(ledger[k], part[k], day)],
                                 Payments!Restrict(part, paid))
  BY DEF Payments!Allocate, Payments!Tol
<1> DEFINE paid == {k \in eligible : part[k] > 0}
<1>2. PICK pay : pay = Payments!Restrict(part, paid)
  OBVIOUS
<1>3. DOMAIN part = eligible /\ eligible \subseteq DOMAIN ledger
  BY DEF Payments!RowsOf
<1>4. /\ DOMAIN pay = paid /\ pay = [k \in DOMAIN pay |-> pay[k]]
      /\ \A k \in paid : pay[k] = part[k]
  BY <1>2 DEF Payments!Restrict
<1>5. ASSUME NEW k \in paid
      PROVE  part[k] \in Nat \ {0} /\ part[k] <= Pay!Outstanding(ledger[k])
  <2>1. ledger[k] \in Pay!Row /\ part[k] \in Nat /\ part[k] > 0
    BY <1>3 DEF Pay!TypeOK, Pay!Partial
  <2>2. PICK left : part[k] = IF left <= 1 THEN 0
                              ELSE IF left <= Pay!Outstanding(ledger[k]) THEN left
                              ELSE Pay!Outstanding(ledger[k])
    BY <1>1, <1>3, SameRows DEF Payments!SpreadsGreedily, Payments!Tol
  <2> QED
    BY <2>1, <2>2 DEF Pay!Outstanding, Pay!Row
<1>6. [k \in paid |-> Payments!Credited(ledger[k], part[k], day)]
         = [k \in DOMAIN pay |-> Pay!Credited(ledger[k], pay[k], day)]
  BY <1>4, SameRows
<1>7. Pay!Open(r, [k \in DOMAIN pay |-> Pay!Credited(ledger[k], pay[k], day)], pay)
  BY <1>1, <1>2, <1>6, SameSteps
<1> HIDE DEF paid, eligible
<1>8. Pay!Shares(r, day, pay)
  BY <1>3, <1>4, <1>5, <1>7 DEF Pay!Shares, paid
<1> QED
  BY <1>8

(* The five kinds of steps of payments.                                    *)
LEMMA PayKinds ==
    ASSUME Pay!TypeOK, Payments!Next
    PROVE  \/ \E r \in Requests : \E write, pay :
                 Pay!Prepared(write, pay) /\ Pay!Open(r, write, pay)
           \/ \E r \in Requests : Pay!Commit(r)
           \/ \E r \in Requests : Pay!Abort(r)
           \/ Pay!MarkOverdue
           \/ Pay!NextDay
<1>0. Pay!LedgerConstants /\ Payments!Day = Day /\ Pay!Day = Day
  BY PayConstants DEF Day, Payments!Day, Pay!Day
<1>1. ASSUME NEW r \in Requests, NEW s \in Students, NEW amount \in Amounts, NEW day \in Day,
             Payments!Allocate(r, s, amount, day)
      PROVE  \E write, pay : Pay!Prepared(write, pay) /\ Pay!Open(r, write, pay)
  <2>1. amount \in Nat
    BY AssignmentConstants
  <2>2. PICK part : Pay!Shares(r, day, part)
    BY <1>1, <2>1, SharesOfAllocate
  <2> QED
    BY <1>0, <2>2, Pay!SharesPrepare
<1>2. ASSUME NEW r \in Requests, NEW k \in LedgerIds, NEW amount \in Amounts, NEW day \in Day,
             Payments!RecordPayment(r, k, amount, day)
      PROVE  \E write, pay : Pay!Prepared(write, pay) /\ Pay!Open(r, write, pay)
  <2>1. Pay!RecordPayment(r, k, amount, day)
    BY <1>2, SameRecord
  <2> QED
    BY <1>0, <2>1, Pay!RecordPaymentPrepares
<1>3. ASSUME NEW r \in Requests, NEW s \in Students, Payments!FeeDashboard(r, s)
      PROVE  \E write, pay : Pay!Prepared(write, pay) /\ Pay!Open(r, write, pay)
  <2>1. Pay!FeeDashboard(r, s)
    BY <1>3, SameRecord
  <2> QED
    BY <1>0, <2>1, Pay!FeeDashboardPrepares
<1>4. \/ \E r \in Requests :
            \/ \E k \in LedgerIds, amount \in Amounts, day \in Day :
                  Payments!RecordPayment(r, k, amount, day)
            \/ \E s \in Students, amount \in Amounts, day \in Day :
                  Payments!Allocate(r, s, amount, day)
            \/ \E s \in Students : Payments!FeeDashboard(r, s)
            \/ Payments!Commit(r)
            \/ Payments!Abort(r)
      \/ Payments!MarkOverdue
      \/ Payments!NextDay
  BY <1>0, Zenon DEF Payments!Next
<1> QED
  BY <1>1, <1>2, <1>3, <1>4, SameSteps, Zenon
-----------------------------------------------------------------------------
(* Schedules.                                                              *)

(* A schedule that generation can use: a sequence of installments, each    *)
(* of a natural amount, due within the days of the model.                  *)
Installments(plan) ==
    /\ DOMAIN plan \subseteq Nat
    /\ \A i \in DOMAIN plan : /\ plan[i].name \in Names
                              /\ plan[i].amount \in Nat
                              /\ plan[i].due \in Day

(* A rounded share is a whole number of paise.                             *)
LEMMA SharesRound ==
    ASSUME NEW total \in Nat, NEW count \in Nat \ {0}
    PROVE  RoundedShare(total, count) \in Nat
<1>1. PICK half : half = (2 * total + count) \div (2 * count)
  OBVIOUS
<1>2. half \in Nat
  <2>1. PICK above, below : above = 2 * total + count /\ below = 2 * count
    OBVIOUS
  <2>2. above \in Nat /\ below \in Nat /\ below > 0
    BY <2>1
  <2>3. above \div below \in Nat
    BY <2>2
  <2> QED
    BY <1>1, <2>1, <2>3
<1>3. half % 2 = 1 => half - 1 \in Nat
  BY <1>2
<1>4. RoundedShare(total, count) \in {half, half - 1}
      /\ (RoundedShare(total, count) # half => half % 2 = 1)
  BY <1>1, <1>2 DEF RoundedShare
<1> QED
  BY <1>2, <1>3, <1>4

(* The elements of a sequence.                                             *)
LEMMA Elements ==
    ASSUME NEW S, NEW q \in Seq(S)
    PROVE  /\ Len(q) \in Nat
           /\ DOMAIN q = 1..Len(q)
           /\ DOMAIN q \subseteq Nat
           /\ \A i \in DOMAIN q : q[i] \in S
OBVIOUS

(* The plan of a structure, or its whole amount.                           *)
LEMMA ScheduleInstallments ==
    ASSUME NEW s \in Structure
    PROVE  /\ Installments(Schedule(s))
           /\ \A i \in DOMAIN Schedule(s) : Schedule(s)[i].name \in PlanNames
<1>1. s.amount \in Nat /\ s.due \in Day /\ s.plan \in Plans
  BY AssignmentConstants DEF Structure
<1>2. CASE s.plan # <<>>
  <2>1. s.plan \in Seq([name : PlanNames, amount : Nat, due : Day])
    BY <1>1, AssignmentConstants
  <2>2. DOMAIN s.plan \subseteq Nat
        /\ \A i \in DOMAIN s.plan : s.plan[i] \in [name : PlanNames, amount : Nat, due : Day]
    BY <2>1, Elements, Zenon
  <2> QED
    BY <1>2, <2>2 DEF Schedule, Installments, Names
<1>3. CASE s.plan = <<>>
  <2>1. PICK one : one = [name |-> "", amount |-> s.amount, due |-> s.due]
    OBVIOUS
  <2>2. Schedule(s) = <<one>>
    BY <1>3, <2>1 DEF Schedule
  <2>3. DOMAIN <<one>> = {1} /\ <<one>>[1] = one
    OBVIOUS
  <2>4. one.name \in PlanNames /\ one.amount \in Nat /\ one.due \in Day
    BY <1>1, <2>1, AssignmentConstants
  <2> QED
    BY <2>2, <2>3, <2>4 DEF Installments, Names
<1> QED
  BY <1>2, <1>3

(* The installments of a payment cycle; prices leave the last one a share. *)
LEMMA CycleInstallments ==
    ASSUME NEW amount \in Prices, NEW due \in Day
    PROVE  /\ Installments(CycleSchedule(amount, due))
           /\ \A i \in DOMAIN CycleSchedule(amount, due) :
                 CycleSchedule(amount, due)[i].name \in Range(CycleNames)
<1>1. PICK n : n = Len(CycleNames)
  OBVIOUS
<1>2. n \in Nat /\ DOMAIN CycleNames = 1..n
  BY <1>1, AssignmentConstants, Elements, Zenon
<1>0. n > 0 => (n - 1) * RoundedShare(amount, n) <= amount
  BY <1>1, CycleShares, Zenon
<1>3. PICK share : share = RoundedShare(amount, n)
  OBVIOUS
<1>4. DOMAIN CycleSchedule(amount, due) = 1..n
  BY <1>1 DEF CycleSchedule
<1>5. ASSUME NEW i \in 1..n
      PROVE  LET one == CycleSchedule(amount, due)[i]
             IN  /\ one.name \in Range(CycleNames)
                 /\ one.amount \in Nat
                 /\ one.due \in Day
  <2>0. Prices \subseteq Nat \ {0} /\ MaxDay \in Nat
    BY AssignmentConstants, Zenon
  <2>1. amount \in Nat /\ MaxDay \in Nat /\ n \in Nat \ {0}
    BY <1>2, <2>0
  <2>2. share \in Nat /\ (n - 1) * share <= amount
    BY <1>0, <1>3, <2>1, SharesRound
  <2>3. amount - (n - 1) * share \in Nat
    <3>1. PICK m : m = (n - 1) * share
      OBVIOUS
    <3>2. m \in Int
      BY <2>1, <2>2, <3>1
    <3> QED
      BY <2>1, <2>2, <3>1, <3>2
  <2>4. CycleSchedule(amount, due)[i]
          = [name |-> CycleNames[i],
             amount |-> IF i = n THEN amount - (n - 1) * share ELSE share,
             due |-> IF due + i - 1 <= MaxDay THEN due + i - 1 ELSE MaxDay]
    BY <1>1, <1>3 DEF CycleSchedule
  <2>5. CycleNames[i] \in Range(CycleNames)
    BY <1>2 DEF Range
  <2>6. (IF due + i - 1 <= MaxDay THEN due + i - 1 ELSE MaxDay) \in Day
    BY <1>2, <2>1 DEF Day
  <2> QED
    BY <2>2, <2>3, <2>4, <2>5, <2>6
<1> QED
  BY <1>2, <1>4, <1>5 DEF Installments, Names

(* The row generated for an installment of a schedule is new and unpaid.   *)
LEMMA RowOfInstallment ==
    ASSUME NEW plan, Installments(plan), NEW n, \E i \in DOMAIN plan : plan[i].name = n
    PROVE  /\ \E i \in DOMAIN plan : /\ plan[i].name = n
                                     /\ plan[i].amount = RowFor(plan, n).total
                                     /\ plan[i].due = RowFor(plan, n).due
           /\ RowFor(plan, n) \in Pay!Row
           /\ RowFor(plan, n).paid = 0
<1>1. PICK i : i = Min({x \in DOMAIN plan : plan[x].name = n})
  OBVIOUS
<1>2. i \in {x \in DOMAIN plan : plan[x].name = n}
  BY <1>1, Least DEF Installments
<1>3. FirstNamed(plan, n) = plan[i]
  BY <1>1 DEF FirstNamed
<1>4. plan[i].amount \in Nat /\ plan[i].due \in Day /\ Pay!Day = Day
  BY <1>2 DEF Installments, Day, Pay!Day
<1>5. RowFor(plan, n) = Pay!NewRow(plan[i].amount, plan[i].due, today)
  BY <1>3, SameRows DEF RowFor
<1>6. /\ Pay!NewRow(plan[i].amount, plan[i].due, today) \in Pay!Row
      /\ Pay!NewRow(plan[i].amount, plan[i].due, today).paid = 0
      /\ Pay!NewRow(plan[i].amount, plan[i].due, today).total = plan[i].amount
  BY <1>4, PayConstants, Pay!NewRowType
<1>7. Pay!NewRow(plan[i].amount, plan[i].due, today).due = plan[i].due
  BY DEF Pay!NewRow
<1> QED
  BY <1>2, <1>5, <1>6, <1>7
-----------------------------------------------------------------------------
(* What a request has decided when it has read the tables.                 *)

(* Ledgers of one structure are deleted with it, and every structure was   *)
(* made by a request that is done, so that its id is never used again.     *)
Linked == \A k \in DOMAIN ledger : k.structure \in DOMAIN structure
Born == \A id \in DOMAIN structure : job[id[1]].state = "done"

(* What an administrator's request decides: it rewrites structures that it *)
(* read, or makes new ones under its own name; it deletes what exists, and *)
(* linked ledgers only when confirmed; the ledgers it adds are unpaid and  *)
(* bill what a schedule of their structure says.                           *)
Bills(row, name, s, plan) ==
    /\ plan \in {Schedule(s), CycleSchedule(s.amount, s.due)}
    /\ \E i \in DOMAIN plan : /\ plan[i].name = name
                              /\ plan[i].amount = row.total
                              /\ plan[i].due = row.due

Planned(j, work) ==
    /\ IsJob(work)
    /\ work.state \in {"sync", "open"}
    /\ work.sync = None
    /\ DOMAIN work.seen = DOMAIN work.put \cap DOMAIN structure
    /\ \A id \in DOMAIN work.seen : work.seen[id] = structure[id]
    /\ \A id \in DOMAIN work.put : id \in DOMAIN structure \/ id[1] = j
    /\ \A k \in DOMAIN work.add :
          /\ work.add[k].paid = 0
          /\ CustomHeads = {} => /\ k.structure \in DOMAIN structure
                                 /\ \E plan : Bills(work.add[k], k.name,
                                                    structure[k.structure], plan)
    /\ work.drop \subseteq DOMAIN structure
    /\ \A id \in work.drop : LedgersOf(id) # {} => work.confirmed
    /\ CustomHeads = {} => \A id \in DOMAIN work.put : LedgersOf(id) = {}
    /\ DOMAIN work.put # {} => work.drop = {}
    /\ DOMAIN work.put # {} /\ CustomHeads = {} => work.add = None

LEMMA EmptyTable ==
    ASSUME NEW S, NEW T
    PROVE  /\ Payments!Partial(None, S, T)
           /\ DOMAIN None = {}
BY DEF Payments!Partial, None

LEMMA QuietRecords ==
    /\ Quiet = [state |-> "new", seen |-> None, put |-> None, add |-> None,
                drop |-> {}, confirmed |-> FALSE, sync |-> None]
    /\ Finished = [state |-> "done", seen |-> None, put |-> None, add |-> None,
                   drop |-> {}, confirmed |-> FALSE, sync |-> None]
<1>1. PICK no : no = FALSE
  OBVIOUS
<1>2. Quiet = [state |-> "new", seen |-> None, put |-> None, add |-> None,
               drop |-> {}, confirmed |-> no, sync |-> None]
  BY <1>1, Zenon DEF Quiet
<1>3. Finished = [state |-> "done", seen |-> None, put |-> None, add |-> None,
                  drop |-> {}, confirmed |-> no, sync |-> None]
  BY <1>2 DEF Finished
<1> QED
  BY <1>1, <1>2, <1>3, Zenon

LEMMA QuietJob == IsJob(Quiet) /\ IsJob(Finished)
<1>1. None \in [DOMAIN None -> Structure] /\ DOMAIN None = {}
  BY DEF None
<1> HIDE DEF None
<1>2. /\ Payments!Partial(None, StructureIds, Structure)
      /\ Payments!Partial(None, LedgerIds, Payments!Row)
  BY EmptyTable
<1>3. IsJob(Quiet)
  BY <1>1, <1>2 DEF IsJob, Quiet
<1>4. IsJob(Finished)
  BY <1>1, <1>2, QuietRecords DEF IsJob
<1> QED
  BY <1>3, <1>4

(* The fields of a request that rewrites rows.                             *)
LEMMA WriteFields ==
    ASSUME NEW j, NEW rows
    PROVE  /\ Write(j, rows).state = "open"
           /\ Write(j, rows).put = rows
           /\ Write(j, rows).seen = Restrict(structure, DOMAIN rows \cap DOMAIN structure)
           /\ Write(j, rows).add = None /\ Write(j, rows).drop = {}
           /\ Write(j, rows).confirmed = FALSE /\ Write(j, rows).sync = None
           /\ Write(j, rows) = [state |-> "open", put |-> rows, add |-> None, drop |-> {},
                  seen |-> Restrict(structure, DOMAIN rows \cap DOMAIN structure),
                  confirmed |-> FALSE, sync |-> None]
<1>1. PICK seen : seen = Restrict(structure, DOMAIN rows \cap DOMAIN structure)
  OBVIOUS
<1>2. PICK no : no = FALSE
  OBVIOUS
<1>3. Quiet = [state |-> "new", seen |-> None, put |-> None, add |-> None,
               drop |-> {}, confirmed |-> no, sync |-> None]
  BY <1>2, Zenon DEF Quiet
<1>4. Write(j, rows) = [state |-> "open", seen |-> seen, put |-> rows, add |-> None,
                        drop |-> {}, confirmed |-> no, sync |-> None]
  <2>1. Write(j, rows) = [Quiet EXCEPT !.state = "open", !.put = rows, !.seen = seen]
    BY <1>1, Zenon DEF Write
  <2> QED
    BY <1>3, <2>1
<1>5. PICK work : work = Write(j, rows)
  OBVIOUS
<1>6. /\ work.state = "open" /\ work.put = rows /\ work.seen = seen
      /\ work.add = None /\ work.drop = {} /\ work.confirmed = no /\ work.sync = None
      /\ work = [state |-> "open", put |-> rows, add |-> None, drop |-> {},
                 seen |-> seen, confirmed |-> no, sync |-> None]
  BY <1>4, <1>5
<1> QED
  BY <1>1, <1>2, <1>5, <1>6, Zenon

(* A table as the rows of another restricted.                              *)
LEMMA RestrictedTable ==
    ASSUME NEW table, NEW S
    PROVE  /\ DOMAIN Restrict(table, S) = S
           /\ \A id \in S : Restrict(table, S)[id] = table[id]
           /\ Restrict(table, S) = [id \in S |-> table[id]]
BY DEF Restrict

LEMMA WrittenRows ==
    ASSUME Payments!Partial(structure, StructureIds, Structure),
           NEW j \in Jobs, NEW D, D \subseteq Slots, NEW items \in [D -> Terms]
    PROVE  /\ Payments!Partial(Written(j, items), StructureIds, Structure)
           /\ \A id \in DOMAIN Written(j, items) : id \in DOMAIN structure \/ id[1] = j
           /\ D = {} => DOMAIN Written(j, items) = {}
<1> DEFINE target(slot) == IF InSlot(structure, slot) # {}
                           THEN CHOOSE id \in InSlot(structure, slot) : TRUE
                           ELSE <<j, slot>>
           made(id) == LET slot == CHOOSE x \in DOMAIN items : target(x) = id
                       IN  [slot |-> slot, amount |-> items[slot].amount,
                            due |-> items[slot].due, plan |-> items[slot].plan]
           ids == {target(slot) : slot \in DOMAIN items}
<1>1. ASSUME NEW slot \in D
      PROVE  /\ target(slot) \in StructureIds
             /\ target(slot) \in DOMAIN structure \/ target(slot)[1] = j
  <2>1. CASE InSlot(structure, slot) # {}
    <3>1. target(slot) \in InSlot(structure, slot)
      BY <2>1
    <3> HIDE DEF target
    <3>2. target(slot) \in DOMAIN structure
      BY <3>1 DEF InSlot
    <3> QED
      BY <3>2 DEF Payments!Partial
  <2>2. CASE InSlot(structure, slot) = {}
    <3>1. target(slot) = <<j, slot>>
      BY <2>2
    <3> HIDE DEF target
    <3> QED
      BY <3>1 DEF StructureIds
  <2> QED
    BY <2>1, <2>2
<1>2. DOMAIN items = D
  OBVIOUS
<1>3. Written(j, items) = [id \in ids |-> made(id)]
  BY DEF Written
<1>4. ASSUME NEW id \in ids PROVE made(id) \in Structure
  <2>1. PICK slot : slot = CHOOSE x \in DOMAIN items : target(x) = id
    OBVIOUS
  <2>2. \E x \in DOMAIN items : target(x) = id
    OBVIOUS
  <2> HIDE DEF target
  <2>3. slot \in D
    BY <1>2, <2>1, <2>2, Zenon
  <2>4. made(id) = [slot |-> slot, amount |-> items[slot].amount,
                    due |-> items[slot].due, plan |-> items[slot].plan]
    BY <2>1
  <2>5. items[slot] \in Terms
    BY <2>3
  <2> HIDE DEF made
  <2> QED
    BY <2>3, <2>4, <2>5 DEF Structure, Terms
<1>5. \A id \in ids : /\ id \in StructureIds
                      /\ id \in DOMAIN structure \/ id[1] = j
  BY <1>1, <1>2
<1>6. D = {} => ids = {}
  BY <1>2
<1> HIDE DEF made, ids, target
<1>7. DOMAIN Written(j, items) = ids
  BY <1>3
<1>8. Written(j, items) \in [ids -> Structure]
  BY <1>3, <1>4
<1> QED
  BY <1>5, <1>6, <1>7, <1>8 DEF Payments!Partial

(* Editing keeps a structure a structure.                                  *)
LEMMA EditedRow ==
    ASSUME NEW row \in Structure, NEW terms \in Terms, NEW head \in Heads, NEW fields
    PROVE  Edited(row, terms, head, fields) \in Structure
<1>1. row.slot[1] \in Standards /\ row.slot \in Slots
  BY DEF Structure, Slots
<1>2. <<row.slot[1], head>> \in Slots
  BY <1>1 DEF Slots
<1>3. terms.amount \in Prices /\ terms.due \in Day /\ terms.plan \in Plans
  BY DEF Terms
<1>4. PICK slot, amount, due, plan :
         /\ slot = IF "head" \in fields THEN <<row.slot[1], head>> ELSE row.slot
         /\ amount = IF "amount" \in fields THEN terms.amount ELSE row.amount
         /\ due = IF "due" \in fields THEN terms.due ELSE row.due
         /\ plan = IF "plan" \in fields THEN terms.plan ELSE row.plan
  OBVIOUS
<1>5. slot \in Slots /\ amount \in Prices /\ due \in Day /\ plan \in Plans
  BY <1>1, <1>2, <1>3, <1>4 DEF Structure
<1>6. Edited(row, terms, head, fields)
        = [slot |-> slot, amount |-> amount, due |-> due, plan |-> plan]
  BY <1>4, Zenon DEF Edited
<1> QED
  BY <1>5, <1>6 DEF Structure

(* Generation proposes rows for ledgers that do not exist, each unpaid and *)
(* billing an installment of the schedule given for its structure.         *)
LEMMA MissingRows ==
    ASSUME NEW who, NEW plans, \A id \in DOMAIN plans : Installments(plans[id])
    PROVE  /\ Payments!Partial(Missing(who, plans), LedgerIds, Payments!Row)
           /\ \A k \in DOMAIN Missing(who, plans) :
                /\ k \notin DOMAIN ledger
                /\ k.structure \in DOMAIN plans
                /\ Missing(who, plans)[k].paid = 0
                /\ \E i \in DOMAIN plans[k.structure] :
                      /\ plans[k.structure][i].name = k.name
                      /\ plans[k.structure][i].amount = Missing(who, plans)[k].total
                      /\ plans[k.structure][i].due = Missing(who, plans)[k].due
<1> DEFINE named(id) == {plans[id][i].name : i \in DOMAIN plans[id]}
           ids == {k \in LedgerIds : /\ k.student \in who
                                     /\ k.structure \in DOMAIN plans
                                     /\ k \notin DOMAIN ledger}
           new == {k \in ids : k.name \in named(k.structure)}
<1>1. Missing(who, plans) = [k \in new |-> RowFor(plans[k.structure], k.name)]
  BY Zenon DEF Missing
<1>2. ASSUME NEW k \in new
      PROVE  /\ k \in LedgerIds /\ k \notin DOMAIN ledger /\ k.structure \in DOMAIN plans
             /\ \E i \in DOMAIN plans[k.structure] : plans[k.structure][i].name = k.name
  OBVIOUS
<1> HIDE DEF new
<1>3. DOMAIN Missing(who, plans) = new
      /\ \A k \in new : Missing(who, plans)[k] = RowFor(plans[k.structure], k.name)
  BY <1>1
<1>4. ASSUME NEW k \in new
      PROVE  /\ \E i \in DOMAIN plans[k.structure] :
                   /\ plans[k.structure][i].name = k.name
                   /\ plans[k.structure][i].amount = RowFor(plans[k.structure], k.name).total
                   /\ plans[k.structure][i].due = RowFor(plans[k.structure], k.name).due
             /\ RowFor(plans[k.structure], k.name) \in Pay!Row
             /\ RowFor(plans[k.structure], k.name).paid = 0
  <2>1. Installments(plans[k.structure])
        /\ \E i \in DOMAIN plans[k.structure] : plans[k.structure][i].name = k.name
    BY <1>2
  <2> QED
    BY <2>1, RowOfInstallment
<1>5. Missing(who, plans) \in [new -> Payments!Row]
  BY <1>1, <1>4, SameTypes
<1>6. Payments!Partial(Missing(who, plans), LedgerIds, Payments!Row)
  BY <1>2, <1>3, <1>5 DEF Payments!Partial
<1>7. \A k \in new : \E i \in DOMAIN plans[k.structure] :
         /\ plans[k.structure][i].name = k.name
         /\ plans[k.structure][i].amount = Missing(who, plans)[k].total
         /\ plans[k.structure][i].due = Missing(who, plans)[k].due
  BY <1>3, <1>4, Zenon
<1>8. \A k \in new : Missing(who, plans)[k].paid = 0
  BY <1>3, <1>4, Zenon
<1> QED
  BY <1>2, <1>3, <1>6, <1>7, <1>8, Zenon

(* A decision put together from its parts.                                 *)
LEMMA PlannedRecord ==
    ASSUME Payments!Partial(structure, StructureIds, Structure),
           NEW j, NEW state \in {"sync", "open"}, NEW rows, NEW add, NEW drop,
           NEW sure \in BOOLEAN,
           Payments!Partial(rows, StructureIds, Structure),
           Payments!Partial(add, LedgerIds, Payments!Row),
           drop \subseteq DOMAIN structure,
           \A id \in DOMAIN rows : id \in DOMAIN structure \/ id[1] = j,
           \A k \in DOMAIN add :
              /\ add[k].paid = 0
              /\ CustomHeads = {} => /\ k.structure \in DOMAIN structure
                                     /\ \E plan : Bills(add[k], k.name,
                                                        structure[k.structure], plan),
           \A id \in drop : LedgersOf(id) # {} => sure,
           CustomHeads = {} => \A id \in DOMAIN rows : LedgersOf(id) = {},
           DOMAIN rows # {} => drop = {},
           DOMAIN rows # {} /\ CustomHeads = {} => add = None,
           NEW work,
           work = [state |-> state, put |-> rows, add |-> add, drop |-> drop,
                   seen |-> Restrict(structure, DOMAIN rows \cap DOMAIN structure),
                   confirmed |-> sure, sync |-> None]
    PROVE  Planned(j, work)
<1>1. PICK seen : seen = Restrict(structure, DOMAIN rows \cap DOMAIN structure)
  OBVIOUS
<1>2. /\ DOMAIN seen = DOMAIN rows \cap DOMAIN structure
      /\ \A id \in DOMAIN seen : seen[id] = structure[id]
      /\ seen \in [DOMAIN seen -> Structure]
  <2>1. seen = [id \in DOMAIN rows \cap DOMAIN structure |-> structure[id]]
    BY <1>1 DEF Restrict
  <2>2. \A id \in DOMAIN structure : structure[id] \in Structure
    BY DEF Payments!Partial
  <2> QED
    BY <2>1, <2>2
<1>3. PICK yes : yes = sure
  OBVIOUS
<1>4. work = [state |-> state, put |-> rows, add |-> add, drop |-> drop,
              seen |-> seen, confirmed |-> yes, sync |-> None]
  BY <1>1, <1>3, Zenon
<1>5. /\ work.state = state /\ work.put = rows /\ work.add = add /\ work.drop = drop
      /\ work.seen = seen /\ work.confirmed = yes /\ work.sync = None
      /\ work = [state |-> work.state, seen |-> work.seen, put |-> work.put,
                 add |-> work.add, drop |-> work.drop, confirmed |-> work.confirmed,
                 sync |-> work.sync]
  BY <1>4
<1>6. work.confirmed \in BOOLEAN /\ (work.confirmed <=> sure)
  BY <1>3, <1>5, Zenon
<1>7. DOMAIN structure \subseteq StructureIds /\ Payments!Partial(None, LedgerIds, Payments!Row)
  BY EmptyTable DEF Payments!Partial
<1>8. state \in {"new", "sync", "open", "done"}
  OBVIOUS
<1>9. IsJob(work)
  <2>1. work.state \in {"new", "sync", "open", "done"}
    BY <1>5, <1>8
  <2>2. /\ Payments!Partial(work.put, StructureIds, Structure)
        /\ Payments!Partial(work.add, LedgerIds, Payments!Row)
        /\ Payments!Partial(work.sync, LedgerIds, Payments!Row)
    BY <1>5, <1>7
  <2>3. work.seen \in [DOMAIN work.seen -> Structure] /\ DOMAIN work.seen \subseteq DOMAIN work.put
    BY <1>2, <1>5
  <2>4. work.drop \subseteq StructureIds
    BY <1>5, <1>7
  <2> QED
    BY <1>5, <1>6, <2>1, <2>2, <2>3, <2>4, Zenon DEF IsJob
<1> QED
  BY <1>2, <1>5, <1>6, <1>9, Zenon DEF Planned

(* create_structures_batch rewrites structures without ledgers only.       *)
LEMMA CreatePlans ==
    ASSUME Payments!Partial(structure, StructureIds, Structure), NEW j \in Jobs,
           NEW items \in Items, CreateStructures(j, items)
    PROVE  \E work : Planned(j, work) /\ Begin(j, work)
<1>1. PICK D \in SUBSET Slots : items \in [D -> Terms]
  BY Zenon DEF Items
<1>2. PICK rows : rows = Written(j, items)
  OBVIOUS
<1>3. /\ Payments!Partial(rows, StructureIds, Structure)
      /\ \A id \in DOMAIN rows : id \in DOMAIN structure \/ id[1] = j
  BY <1>1, <1>2, WrittenRows
<1>4. PICK work : work = Write(j, rows)
  OBVIOUS
<1>5. /\ Begin(j, work)
      /\ \A id \in DOMAIN rows : LedgersOf(id) = {}
  BY <1>2, <1>4, Zenon DEF CreateStructures
<1>6. work = [state |-> "open", put |-> rows, add |-> None, drop |-> {},
              seen |-> Restrict(structure, DOMAIN rows \cap DOMAIN structure),
              confirmed |-> FALSE, sync |-> None]
  BY <1>4, WriteFields, Zenon
<1>7. Payments!Partial(None, LedgerIds, Payments!Row) /\ DOMAIN None = {}
  BY EmptyTable
<1>8. Planned(j, work)
  BY <1>3, <1>5, <1>6, <1>7, PlannedRecord
<1> QED
  BY <1>5, <1>8

(* update_structure counts the ledgers of every structure it edits.        *)
LEMMA UpdatePlans ==
    ASSUME Payments!Partial(structure, StructureIds, Structure), NEW j \in Jobs,
           NEW id \in DOMAIN structure, NEW everywhere \in BOOLEAN, NEW terms \in Terms,
           NEW head \in Heads, NEW fields,
           UpdateStructure(j, id, everywhere, terms, head, fields)
    PROVE  \E work : Planned(j, work) /\ Begin(j, work)
<1> DEFINE targets == {t \in DOMAIN structure :
                         \/ t = id
                         \/ everywhere /\ structure[t].slot[2] = structure[id].slot[2]}
<1>1. PICK rows : rows = [t \in targets |-> Edited(structure[t], terms, head, fields)]
  OBVIOUS
<1>2. PICK work : work = [Write(j, rows) EXCEPT !.state = "sync"]
  OBVIOUS
<1>3. Begin(j, work) /\ \A t \in targets : LedgersOf(t) = {}
  BY <1>1, <1>2, Zenon DEF UpdateStructure
<1>4. /\ DOMAIN rows = targets
      /\ \A t \in targets : /\ t \in DOMAIN structure /\ t \in StructureIds
                            /\ structure[t] \in Structure
                            /\ rows[t] = Edited(structure[t], terms, head, fields)
  BY <1>1 DEF Payments!Partial
<1>5. rows = [t \in targets |-> rows[t]]
  BY <1>1
<1> HIDE DEF targets
<1>6. \A t \in targets : rows[t] \in Structure
  BY <1>4, EditedRow
<1>7. Payments!Partial(rows, StructureIds, Structure)
  BY <1>4, <1>5, <1>6 DEF Payments!Partial
<1>8. PICK seen, no : /\ seen = Restrict(structure, DOMAIN rows \cap DOMAIN structure)
                      /\ no = FALSE
  OBVIOUS
<1>9. Write(j, rows) = [state |-> "open", put |-> rows, add |-> None, drop |-> {},
                        seen |-> seen, confirmed |-> no, sync |-> None]
  BY <1>8, WriteFields, Zenon
<1>10. work = [state |-> "sync", put |-> rows, add |-> None, drop |-> {},
               seen |-> seen, confirmed |-> no, sync |-> None]
  BY <1>2, <1>9
<1>11. Payments!Partial(None, LedgerIds, Payments!Row) /\ DOMAIN None = {} /\ no \in BOOLEAN
  BY <1>8, EmptyTable
<1>12. /\ \A t \in DOMAIN rows : t \in DOMAIN structure \/ t[1] = j
       /\ \A t \in DOMAIN rows : LedgersOf(t) = {}
  BY <1>3, <1>4
<1>13. Planned(j, work)
  BY <1>7, <1>8, <1>10, <1>11, <1>12, PlannedRecord
<1> QED
  BY <1>3, <1>13

(* Without a write, there is nothing seen.                                 *)
LEMMA NothingSeen == Restrict(structure, DOMAIN None \cap DOMAIN structure) = None
<1>1. DOMAIN None = {}
  BY DEF None
<1>2. DOMAIN None \cap DOMAIN structure = {}
  BY <1>1
<1>3. Restrict(structure, {}) = [id \in {} |-> structure[id]]
  BY DEF Restrict
<1> QED
  BY <1>2, <1>3 DEF None

(* generate_ledger bills the structures of a class, those of custom heads  *)
(* as it just wrote them.                                                  *)
LEMMA GeneratePlans ==
    ASSUME Payments!Partial(structure, StructureIds, Structure), NEW j \in Jobs,
           NEW std \in Standards, NEW custom \in Custom, GenerateLedger(j, std, custom)
    PROVE  \E work : Planned(j, work) /\ Begin(j, work)
<1>1. PICK D \in SUBSET CustomHeads : custom \in [D -> Terms]
  BY Zenon DEF Custom
<1>2. PICK items : items = [slot \in {std} \X DOMAIN custom |-> custom[slot[2]]]
  OBVIOUS
<1>3. {std} \X D \subseteq Slots /\ items \in [{std} \X D -> Terms]
  <2>1. D \subseteq Heads /\ DOMAIN custom = D
    BY <1>1, AssignmentConstants
  <2>2. {std} \X D \subseteq Slots
    BY <2>1 DEF Slots
  <2>3. \A slot \in {std} \X D : custom[slot[2]] \in Terms
    BY <1>1
  <2> QED
    BY <1>2, <2>1, <2>2, <2>3
<1>4. PICK rows : rows = Written(j, items)
  OBVIOUS
<1>5. /\ Payments!Partial(rows, StructureIds, Structure)
      /\ \A id \in DOMAIN rows : id \in DOMAIN structure \/ id[1] = j
      /\ CustomHeads = {} => DOMAIN rows = {}
  <2>1. CustomHeads = {} => {std} \X D = {}
    BY <1>1
  <2> QED
    BY <1>3, <1>4, <2>1, WrittenRows
<1>6. PICK offered : offered = Upsert(structure, rows)
  OBVIOUS
<1>7. /\ \A id \in DOMAIN offered : offered[id] \in Structure
      /\ CustomHeads = {} => /\ DOMAIN offered = DOMAIN structure
                             /\ \A id \in DOMAIN offered : offered[id] = structure[id]
  <2>1. DOMAIN offered = DOMAIN structure \cup DOMAIN rows
        /\ \A id \in DOMAIN offered :
              offered[id] = IF id \in DOMAIN rows THEN rows[id] ELSE structure[id]
    BY <1>6 DEF Upsert
  <2>2. /\ \A id \in DOMAIN rows : rows[id] \in Structure
        /\ \A id \in DOMAIN structure : structure[id] \in Structure
    BY <1>5 DEF Payments!Partial
  <2> QED
    BY <1>5, <2>1, <2>2
<1>8. PICK plans : plans = [id \in {x \in DOMAIN offered : offered[x].slot[1] = std} |->
                             Schedule(offered[id])]
  OBVIOUS
<1>9. \A id \in DOMAIN plans : /\ id \in DOMAIN offered
                               /\ plans[id] = Schedule(offered[id])
                               /\ Installments(plans[id])
  BY <1>7, <1>8, ScheduleInstallments
<1>10. PICK who : who = {s \in Students : ClassOf[s] = std}
  OBVIOUS
<1>11. PICK add : add = Missing(who, plans)
  OBVIOUS
<1>12. PICK work : work = [Write(j, rows) EXCEPT !.add = add]
  OBVIOUS
<1>13. Begin(j, work)
  BY <1>2, <1>4, <1>6, <1>8, <1>10, <1>11, <1>12, Zenon DEF GenerateLedger
<1>14. /\ Payments!Partial(add, LedgerIds, Payments!Row)
       /\ \A k \in DOMAIN add :
            /\ k.structure \in DOMAIN plans
            /\ add[k].paid = 0
            /\ \E i \in DOMAIN plans[k.structure] :
                  /\ plans[k.structure][i].name = k.name
                  /\ plans[k.structure][i].amount = add[k].total
                  /\ plans[k.structure][i].due = add[k].due
  BY <1>9, <1>11, MissingRows
<1>15. ASSUME NEW k \in DOMAIN add, CustomHeads = {}
       PROVE  /\ k.structure \in DOMAIN structure
              /\ Bills(add[k], k.name, structure[k.structure], Schedule(structure[k.structure]))
  <2>1. k.structure \in DOMAIN plans
    BY <1>14
  <2>2. /\ k.structure \in DOMAIN structure
        /\ plans[k.structure] = Schedule(structure[k.structure])
    BY <1>7, <1>9, <1>15, <2>1
  <2> QED
    BY <1>14, <2>2, Zenon DEF Bills
<1>16. PICK seen, no : /\ seen = Restrict(structure, DOMAIN rows \cap DOMAIN structure)
                       /\ no = FALSE
  OBVIOUS
<1>17. Write(j, rows) = [state |-> "open", put |-> rows, add |-> None, drop |-> {},
                         seen |-> seen, confirmed |-> no, sync |-> None]
  BY <1>16, WriteFields, Zenon
<1>18. work = [state |-> "open", put |-> rows, add |-> add, drop |-> {},
               seen |-> seen, confirmed |-> no, sync |-> None]
  BY <1>12, <1>17
<1>19. no \in BOOLEAN
  BY <1>16
<1>20. Planned(j, work)
  <2>1. \A k \in DOMAIN add :
           /\ add[k].paid = 0
           /\ CustomHeads = {} => /\ k.structure \in DOMAIN structure
                                  /\ \E plan : Bills(add[k], k.name,
                                                     structure[k.structure], plan)
    BY <1>14, <1>15, Zenon
  <2> QED
    BY <1>5, <1>14, <1>16, <1>18, <1>19, <2>1, PlannedRecord
<1> QED
  BY <1>13, <1>20

(* generate_student_ledger, by the plans or by the payment cycle.          *)
LEMMA StudentPlans ==
    ASSUME Payments!Partial(structure, StructureIds, Structure), NEW j \in Jobs,
           NEW s \in Students, NEW cycle \in BOOLEAN, GenerateStudentLedger(j, s, cycle)
    PROVE  \E work : Planned(j, work) /\ Begin(j, work)
<1> DEFINE plan(id) == IF cycle THEN CycleSchedule(structure[id].amount, structure[id].due)
                       ELSE Schedule(structure[id])
<1>1. PICK plans : plans = [id \in {x \in DOMAIN structure :
                                      structure[x].slot[1] = ClassOf[s]} |-> plan(id)]
  OBVIOUS
<1>2. PICK add : add = Missing({s}, plans)
  OBVIOUS
<1>3. PICK work : work = [Quiet EXCEPT !.state = "open", !.add = add]
  OBVIOUS
<1>4. Begin(j, work)
  BY <1>1, <1>2, <1>3, Zenon DEF GenerateStudentLedger
<1>5. ASSUME NEW id \in DOMAIN plans
      PROVE  /\ id \in DOMAIN structure
             /\ plans[id] \in {Schedule(structure[id]),
                               CycleSchedule(structure[id].amount, structure[id].due)}
             /\ Installments(plans[id])
  <2>1. id \in DOMAIN structure /\ plans[id] = plan(id)
    BY <1>1
  <2>2. structure[id] \in Structure
    BY <2>1 DEF Payments!Partial
  <2>3. structure[id].amount \in Prices /\ structure[id].due \in Day
    BY <2>2 DEF Structure
  <2> QED
    BY <2>1, <2>2, <2>3, ScheduleInstallments, CycleInstallments
<1> HIDE DEF plan
<1>0. \A id \in DOMAIN plans : Installments(plans[id])
  BY <1>5, Zenon
<1>6. /\ Payments!Partial(add, LedgerIds, Payments!Row)
      /\ \A k \in DOMAIN add :
           /\ k.structure \in DOMAIN plans
           /\ add[k].paid = 0
           /\ \E i \in DOMAIN plans[k.structure] :
                 /\ plans[k.structure][i].name = k.name
                 /\ plans[k.structure][i].amount = add[k].total
                 /\ plans[k.structure][i].due = add[k].due
  <2>1. PICK who : who = {s}
    OBVIOUS
  <2>2. add = Missing(who, plans)
    BY <1>2, <2>1, Zenon
  <2> QED
    BY <1>0, <2>2, MissingRows
<1>7. ASSUME NEW k \in DOMAIN add
      PROVE  /\ k.structure \in DOMAIN structure
             /\ Bills(add[k], k.name, structure[k.structure], plans[k.structure])
  BY <1>5, <1>6, Zenon DEF Bills
<1>8. PICK no : no = FALSE
  OBVIOUS
<1>9. Quiet = [state |-> "new", seen |-> None, put |-> None, add |-> None,
               drop |-> {}, confirmed |-> no, sync |-> None]
  BY <1>8, Zenon DEF Quiet
<1>10. work = [state |-> "open", put |-> None, add |-> add, drop |-> {},
               seen |-> Restrict(structure, DOMAIN None \cap DOMAIN structure),
               confirmed |-> no, sync |-> None]
  <2>1. work = [state |-> "open", put |-> None, add |-> add, drop |-> {},
                seen |-> None, confirmed |-> no, sync |-> None]
    BY <1>3, <1>9
  <2> QED
    BY <2>1, NothingSeen
<1>11. /\ no \in BOOLEAN /\ DOMAIN None = {}
       /\ Payments!Partial(None, StructureIds, Structure)
  BY <1>8, EmptyTable
<1>12. Planned(j, work)
  <2>1. \A k \in DOMAIN add :
           /\ add[k].paid = 0
           /\ CustomHeads = {} => /\ k.structure \in DOMAIN structure
                                  /\ \E p : Bills(add[k], k.name, structure[k.structure], p)
    BY <1>6, <1>7, Zenon
  <2> QED
    BY <1>6, <1>10, <1>11, <2>1, PlannedRecord
<1> QED
  BY <1>4, <1>12

(* delete_structure deletes linked ledgers only when that was confirmed.   *)
LEMMA DeletePlans ==
    ASSUME Payments!Partial(structure, StructureIds, Structure), NEW j \in Jobs,
           NEW id \in DOMAIN structure, NEW confirmed \in BOOLEAN,
           DeleteStructure(j, id, confirmed)
    PROVE  \E work : Planned(j, work) /\ Begin(j, work)
<1>1. PICK work : work = [Quiet EXCEPT !.state = "open", !.drop = {id},
                                       !.confirmed = confirmed]
  OBVIOUS
<1>2. Begin(j, work) /\ (LedgersOf(id) = {} \/ confirmed)
  BY <1>1, Zenon DEF DeleteStructure
<1>3. PICK no, sure : no = FALSE /\ sure = confirmed
  OBVIOUS
<1>4. Quiet = [state |-> "new", seen |-> None, put |-> None, add |-> None,
               drop |-> {}, confirmed |-> no, sync |-> None]
  BY <1>3, Zenon DEF Quiet
<1>5. work = [Quiet EXCEPT !.state = "open", !.drop = {id}, !.confirmed = sure]
  BY <1>1, <1>3, Zenon
<1>6. work = [state |-> "open", put |-> None, add |-> None, drop |-> {id},
              seen |-> None, confirmed |-> sure, sync |-> None]
  BY <1>4, <1>5
<1>7. work = [state |-> "open", put |-> None, add |-> None, drop |-> {id},
              seen |-> Restrict(structure, DOMAIN None \cap DOMAIN structure),
              confirmed |-> sure, sync |-> None]
  BY <1>6, NothingSeen
<1>8. /\ sure \in BOOLEAN /\ DOMAIN None = {}
      /\ Payments!Partial(None, StructureIds, Structure)
      /\ Payments!Partial(None, LedgerIds, Payments!Row)
  BY <1>3, EmptyTable, Zenon
<1>9. \A t \in {id} : LedgersOf(t) # {} => sure
  BY <1>2, <1>3, Zenon
<1>10. Planned(j, work)
  BY <1>7, <1>8, <1>9, PlannedRecord
<1> QED
  BY <1>2, <1>10

(* Every step of an administrator's request decides, synchronises, commits *)
(* or rolls back.                                                          *)
LEMMA AssignKinds ==
    ASSUME TypeOK, NEW j \in Jobs, Assign(j)
    PROVE  \/ \E work : Planned(j, work) /\ Begin(j, work)
           \/ SyncLedgers(j)
           \/ CommitJob(j)
           \/ AbortJob(j)
<1>1. Payments!Partial(structure, StructureIds, Structure)
  BY DEF TypeOK
<1>2. ASSUME NEW items \in Items, CreateStructures(j, items)
      PROVE  \E work : Planned(j, work) /\ Begin(j, work)
  BY <1>1, <1>2, CreatePlans
<1>3. ASSUME NEW id \in DOMAIN structure, NEW everywhere \in BOOLEAN, NEW terms \in Terms,
             NEW head \in Heads, NEW fields \in SUBSET {"amount", "due", "plan", "head"},
             UpdateStructure(j, id, everywhere, terms, head, fields)
      PROVE  \E work : Planned(j, work) /\ Begin(j, work)
  BY <1>1, <1>3, UpdatePlans
<1>4. ASSUME NEW std \in Standards, NEW custom \in Custom, GenerateLedger(j, std, custom)
      PROVE  \E work : Planned(j, work) /\ Begin(j, work)
  BY <1>1, <1>4, GeneratePlans
<1>5. ASSUME NEW s \in Students, NEW cycle \in BOOLEAN, GenerateStudentLedger(j, s, cycle)
      PROVE  \E work : Planned(j, work) /\ Begin(j, work)
  BY <1>1, <1>5, StudentPlans
<1>6. ASSUME NEW id \in DOMAIN structure, NEW confirmed \in BOOLEAN,
             DeleteStructure(j, id, confirmed)
      PROVE  \E work : Planned(j, work) /\ Begin(j, work)
  BY <1>1, <1>6, DeletePlans
<1> QED
  BY <1>2, <1>3, <1>4, <1>5, <1>6, Zenon DEF Assign
-----------------------------------------------------------------------------
(* Commits.                                                                *)

(* What an open request will rewrite, synchronise and add.                 *)
JobSound(j) ==
    /\ \A id \in DOMAIN job[j].put : id \in DOMAIN job[j].seen \/ id[1] = j
    /\ \A k \in DOMAIN job[j].sync : k.structure \in DOMAIN job[j].put
    /\ \A k \in DOMAIN job[j].add : job[j].add[k].paid = 0

(* The types of what a request carries.                                    *)
LEMMA JobTypes ==
    ASSUME TypeOK, NEW j \in Jobs
    PROVE  /\ DOMAIN structure \subseteq StructureIds
           /\ structure \in [DOMAIN structure -> Structure]
           /\ DOMAIN job[j].put \subseteq StructureIds
           /\ \A id \in DOMAIN job[j].put : job[j].put[id] \in Structure
           /\ DOMAIN job[j].seen \subseteq DOMAIN job[j].put
           /\ \A id \in DOMAIN job[j].seen : job[j].seen[id] \in Structure
           /\ DOMAIN job[j].add \subseteq LedgerIds
           /\ \A k \in DOMAIN job[j].add : job[j].add[k] \in Pay!Row
           /\ DOMAIN job[j].sync \subseteq LedgerIds
           /\ \A k \in DOMAIN job[j].sync : job[j].sync[k] \in Pay!Row
           /\ DOMAIN ledger \subseteq LedgerIds
           /\ \A k \in DOMAIN ledger : ledger[k] \in Pay!Row
           /\ ledger = [k \in DOMAIN ledger |-> ledger[k]]
           /\ receipts \in [LedgerIds -> Nat]
<1>1. IsJob(job[j]) /\ Payments!Partial(structure, StructureIds, Structure) /\ Pay!TypeOK
  BY SameTypes DEF TypeOK
<1>2. /\ DOMAIN job[j].put \subseteq StructureIds
      /\ \A id \in DOMAIN job[j].put : job[j].put[id] \in Structure
      /\ DOMAIN job[j].seen \subseteq DOMAIN job[j].put
      /\ \A id \in DOMAIN job[j].seen : job[j].seen[id] \in Structure
  BY <1>1 DEF IsJob, Payments!Partial
<1>3. Payments!Partial(job[j].add, LedgerIds, Pay!Row)
      /\ Payments!Partial(job[j].sync, LedgerIds, Pay!Row)
  BY <1>1, SameTypes DEF IsJob
<1>4. /\ DOMAIN ledger \subseteq LedgerIds
      /\ \A k \in DOMAIN ledger : ledger[k] \in Pay!Row
      /\ ledger = [k \in DOMAIN ledger |-> ledger[k]]
      /\ receipts \in [LedgerIds -> Nat]
  BY <1>1 DEF Pay!TypeOK, Pay!Partial
<1> QED
  BY <1>1, <1>2, <1>3, <1>4 DEF Payments!Partial

(* A structure as a job leaves it is one, whatever it was in between.      *)
LEMMA FlushedRows ==
    ASSUME NEW now \in Structure, NEW seen \in Structure, NEW new \in Structure
    PROVE  FlushedStructure(now, seen, new) \in Structure
<1>1. PICK slot, amount, due, plan :
         /\ slot = Payments!Column(now.slot, seen.slot, new.slot)
         /\ amount = Payments!Column(now.amount, seen.amount, new.amount)
         /\ due = Payments!Column(now.due, seen.due, new.due)
         /\ plan = Payments!Column(now.plan, seen.plan, new.plan)
  OBVIOUS
<1>2. slot \in Slots /\ amount \in Prices /\ due \in Day /\ plan \in Plans
  BY <1>1 DEF Payments!Column, Structure
<1>3. FlushedStructure(now, seen, new)
        = [slot |-> slot, amount |-> amount, due |-> due, plan |-> plan]
  BY <1>1, Zenon DEF FlushedStructure
<1> QED
  BY <1>2, <1>3 DEF Structure

(* The structures after a commit.                                          *)
LEMMA CommittedStructures ==
    ASSUME TypeOK, NEW j \in Jobs, CommitJob(j)
    PROVE  /\ DOMAIN structure' = (DOMAIN structure \cup DOMAIN job[j].put) \ job[j].drop
           /\ structure' \in [DOMAIN structure' -> Structure]
           /\ \A id \in DOMAIN structure' :
                 id \notin DOMAIN job[j].put => structure'[id] = structure[id]
<1>1. DOMAIN job[j].seen \subseteq DOMAIN structure /\ structure' = Kept(j)
  BY Zenon DEF CommitJob
<1> DEFINE flushed(id) == IF id \in DOMAIN job[j].seen
                          THEN FlushedStructure(structure[id], job[j].seen[id], job[j].put[id])
                          ELSE job[j].put[id]
<1>2. PICK rows : rows = [id \in DOMAIN job[j].put |-> flushed(id)]
  OBVIOUS
<1>3. ASSUME NEW id \in DOMAIN job[j].put PROVE flushed(id) \in Structure
  <2>1. job[j].put[id] \in Structure
    BY JobTypes
  <2>2. CASE id \in DOMAIN job[j].seen
    <3>1. structure[id] \in Structure /\ job[j].seen[id] \in Structure
      BY <1>1, <2>2, JobTypes
    <3> QED
      BY <2>1, <2>2, <3>1, FlushedRows
  <2> QED
    BY <2>1, <2>2
<1>4. Saved(j) = Upsert(structure, rows)
  BY <1>2, Zenon DEF Saved
<1> HIDE DEF flushed
<1>5. DOMAIN rows = DOMAIN job[j].put /\ \A id \in DOMAIN rows : rows[id] \in Structure
  BY <1>2, <1>3
<1>6. PICK all : all = DOMAIN structure \cup DOMAIN job[j].put
  OBVIOUS
<1>7. Saved(j) = [id \in all |-> IF id \in DOMAIN rows THEN rows[id] ELSE structure[id]]
  BY <1>4, <1>5, <1>6 DEF Upsert
<1>8. Kept(j) = [id \in all \ job[j].drop |->
                    IF id \in DOMAIN rows THEN rows[id] ELSE structure[id]]
  BY <1>7 DEF Kept, Restrict
<1>9. \A id \in DOMAIN structure : structure[id] \in Structure
  BY JobTypes
<1> QED
  BY <1>1, <1>5, <1>6, <1>8, <1>9

(* The ledgers and receipts after a commit.                                *)
LEMMA CommittedLedgers ==
    ASSUME TypeOK, NEW j \in Jobs, JobSound(j), CommitJob(j)
    PROVE  /\ DOMAIN ledger' = KeptLedgers(j) \cup (DOMAIN job[j].add \ DOMAIN ledger)
           /\ ledger' \in [DOMAIN ledger' -> Pay!Row]
           /\ \A k \in KeptLedgers(j) :
                 /\ k \in DOMAIN ledger /\ k \in LedgerIds
                 /\ ledger'[k].paid = ledger[k].paid
                 /\ k \notin DOMAIN job[j].sync => ledger'[k] = ledger[k]
                 /\ k.structure \notin job[j].drop /\ receipts'[k] = receipts[k]
           /\ \A k \in DOMAIN job[j].add \ DOMAIN ledger :
                 /\ k \in LedgerIds
                 /\ ledger'[k] = job[j].add[k]
                 /\ k.structure \in DOMAIN structure'
           /\ receipts' = [k \in LedgerIds |-> IF k.structure \in job[j].drop
                                               THEN 0 ELSE receipts[k]]
<1>1. PICK added, kept : added = DOMAIN job[j].add \ DOMAIN ledger /\ kept = KeptLedgers(j)
  OBVIOUS
<1>2. /\ DOMAIN job[j].sync \subseteq DOMAIN ledger
      /\ \A k \in added : k.structure \in DOMAIN structure'
      /\ ledger' = [k \in kept \cup added |->
                      IF k \in added THEN job[j].add[k]
                      ELSE IF k \in DOMAIN job[j].sync THEN Synced(j, k)
                      ELSE ledger[k]]
      /\ receipts' = [k \in LedgerIds |-> IF k.structure \in job[j].drop
                                          THEN 0 ELSE receipts[k]]
  BY <1>1, Zenon DEF CommitJob
<1>3. ASSUME NEW k \in kept
      PROVE  /\ k \in DOMAIN ledger /\ k \in LedgerIds /\ k \notin added
             /\ k.structure \notin job[j].drop /\ ledger[k] \in Pay!Row
  BY <1>1, JobTypes DEF KeptLedgers
<1>4. ASSUME NEW k \in kept, k \in DOMAIN job[j].sync
      PROVE  Synced(j, k) \in Pay!Row /\ Synced(j, k).paid = ledger[k].paid
  <2>1. PICK to, seen, total, due :
           /\ to = job[j].put[k.structure]
           /\ seen = job[j].sync[k]
           /\ total = Payments!Column(ledger[k].total, seen.total, to.amount)
           /\ due = Payments!Column(ledger[k].due, seen.due, to.due)
    OBVIOUS
  <2>2. to \in Structure /\ ledger[k] \in Pay!Row
    BY <1>3, <1>4, <2>1, JobTypes DEF JobSound
  <2>3. Prices \subseteq Nat /\ Pay!Day = Day
    BY AssignmentConstants DEF Pay!Day, Day
  <2>4. to.amount \in Nat /\ to.due \in Pay!Day
    BY <2>2, <2>3 DEF Structure
  <2>5. total \in Nat /\ due \in Pay!Day
    BY <2>1, <2>2, <2>4 DEF Payments!Column, Pay!Row
  <2>6. Synced(j, k) = [ledger[k] EXCEPT !.total = total, !.due = due]
    BY <2>1 DEF Synced
  <2> QED
    BY <2>2, <2>5, <2>6 DEF Pay!Row
<1>5. DOMAIN ledger' = kept \cup added
  BY <1>2
<1>6. ASSUME NEW k \in added
      PROVE  k \in LedgerIds /\ ledger'[k] = job[j].add[k] /\ job[j].add[k] \in Pay!Row
  BY <1>1, <1>2, <1>6, JobTypes
<1>7. ASSUME NEW k \in kept
      PROVE  /\ ledger'[k] \in Pay!Row
             /\ ledger'[k].paid = ledger[k].paid
             /\ k \notin DOMAIN job[j].sync => ledger'[k] = ledger[k]
             /\ receipts'[k] = receipts[k]
  <2>1. ledger'[k] = IF k \in DOMAIN job[j].sync THEN Synced(j, k) ELSE ledger[k]
    BY <1>2, <1>3
  <2> QED
    BY <1>2, <1>3, <1>4, <2>1
<1>8. ledger' \in [DOMAIN ledger' -> Pay!Row]
  <2>1. \A k \in DOMAIN ledger' : ledger'[k] \in Pay!Row
    BY <1>5, <1>6, <1>7
  <2>2. ledger' = [k \in DOMAIN ledger' |-> ledger'[k]]
    BY <1>2
  <2> QED
    BY <2>1, <2>2
<1>9. \A k \in kept : /\ k \in DOMAIN ledger /\ k \in LedgerIds
                      /\ ledger'[k].paid = ledger[k].paid
                      /\ k \notin DOMAIN job[j].sync => ledger'[k] = ledger[k]
                      /\ k.structure \notin job[j].drop /\ receipts'[k] = receipts[k]
  BY <1>3, <1>7
<1>10. \A k \in added : /\ k \in LedgerIds
                        /\ ledger'[k] = job[j].add[k]
                        /\ k.structure \in DOMAIN structure'
  BY <1>2, <1>6
<1> QED
  BY <1>1, <1>2, <1>5, <1>8, <1>9, <1>10, Zenon
-----------------------------------------------------------------------------
(* What holds of every interleaving.  A payment may wait for its commit    *)
(* while its ledger is deleted: then its structure is gone for good, since *)
(* the request that made it is done and no other takes its id.  So a       *)
(* ledger that comes back under an old id, with receipts of its own, is    *)
(* never one that an open payment has read.                                *)
Emptied == \A k \in LedgerIds \ DOMAIN ledger : receipts[k] = 0

TxBacked(r) ==
    \A k \in DOMAIN tx[r].write :
       /\ tx[r].write[k].paid = tx[r].seen[k].paid + tx[r].pay[k]
       /\ k \in DOMAIN ledger => tx[r].seen[k].paid <= receipts[k]
       /\ k \notin DOMAIN ledger => k.structure \notin DOMAIN structure
       /\ job[k.structure[1]].state = "done"

Inv == /\ TypeOK
       /\ Linked
       /\ Born
       /\ Emptied
       /\ Payments!PaidBackedByReceipts
       /\ \A j \in Jobs : JobSound(j)
       /\ \A r \in Requests : TxBacked(r)

LEMMA InitInv == Init => Inv
<1> SUFFICES ASSUME Init PROVE Inv
  OBVIOUS
<1>1. /\ DOMAIN structure = {} /\ DOMAIN ledger = {}
      /\ Payments!Partial(structure, StructureIds, Structure)
      /\ Payments!Partial(ledger, LedgerIds, Payments!Row)
  BY EmptyTable DEF Init
<1>2. /\ DOMAIN job = Jobs
      /\ \A j \in Jobs : job[j] = Quiet
      /\ \A j \in Jobs : IsJob(job[j])
  BY QuietJob DEF Init
<1>3. /\ DOMAIN tx = Requests
      /\ \A r \in Requests : tx[r] = Pay!Fresh /\ Pay!IsTx(tx[r])
  BY SameTypes, PayConstants, Pay!ClosedTx DEF Init
<1>4. Pay!TypeOK
  <2>1. Pay!Partial(ledger, LedgerIds, Pay!Row)
    BY <1>1, SameTypes
  <2>2. receipts \in [LedgerIds -> Nat] /\ today \in Pay!Day
    BY DEF Init, Day, Pay!Day
  <2> QED
    BY <1>3, <2>1, <2>2 DEF Pay!TypeOK
<1>5. TypeOK
  BY <1>1, <1>2, <1>4, SameTypes DEF TypeOK
<1>6. Quiet.put = None /\ Quiet.sync = None /\ Quiet.add = None /\ DOMAIN None = {}
  BY EmptyTable DEF Quiet
<1>7. \A j \in Jobs : JobSound(j)
  BY <1>2, <1>6 DEF JobSound
<1>8. \A r \in Requests : TxBacked(r)
  BY <1>3 DEF TxBacked, Pay!Fresh, Pay!Empty
<1>9. Linked /\ Born /\ Payments!PaidBackedByReceipts
  BY <1>1 DEF Linked, Born, Payments!PaidBackedByReceipts
<1>10. Emptied
  BY DEF Init, Emptied
<1> QED
  BY <1>5, <1>7, <1>8, <1>9, <1>10 DEF Inv

(* A request's record put in the place of another.                         *)
LEMMA JobReplaced ==
    ASSUME DOMAIN job = Jobs, \A q \in Jobs : IsJob(job[q]), NEW j \in Jobs, NEW work,
           IsJob(work), job' = [job EXCEPT ![j] = work]
    PROVE  /\ DOMAIN job' = Jobs
           /\ \A q \in Jobs : IsJob(job'[q])
           /\ job'[j] = work
           /\ \A q \in Jobs : q # j => job'[q] = job[q]
OBVIOUS

(* A request that reads the ledgers to synchronise changes nothing else.   *)
LEMMA SyncedJob ==
    ASSUME TypeOK, NEW j \in Jobs, SyncLedgers(j)
    PROVE  \E work :
              /\ job' = [job EXCEPT ![j] = work]
              /\ IsJob(work) /\ work.state = "open"
              /\ work.seen = job[j].seen /\ work.put = job[j].put
              /\ work.add = job[j].add /\ work.drop = job[j].drop
              /\ work.confirmed = job[j].confirmed
              /\ DOMAIN work.sync \subseteq DOMAIN ledger
              /\ \A k \in DOMAIN work.sync : k.structure \in DOMAIN job[j].put
<1>1. PICK unpaid, old, sync :
         /\ unpaid = {k \in DOMAIN ledger : /\ k.structure \in DOMAIN job[j].put
                                            /\ ledger[k].paid = 0}
         /\ old = job[j]
         /\ sync = Restrict(ledger, unpaid)
  OBVIOUS
<1>2. job' = [job EXCEPT ![j].state = "open", ![j].sync = sync]
  BY <1>1, Zenon DEF SyncLedgers
<1>3. PICK work : work = [old EXCEPT !.state = "open", !.sync = sync]
  OBVIOUS
<1>4. IsJob(old) /\ DOMAIN job = Jobs
  BY <1>1 DEF TypeOK
<1>5. old = [state |-> old.state, seen |-> old.seen, put |-> old.put, add |-> old.add,
             drop |-> old.drop, confirmed |-> old.confirmed, sync |-> old.sync]
  BY <1>4, Zenon DEF IsJob
<1>6. /\ work.state = "open" /\ work.seen = old.seen /\ work.put = old.put
      /\ work.add = old.add /\ work.drop = old.drop
      /\ work.confirmed = old.confirmed /\ work.sync = sync
      /\ work = [state |-> work.state, seen |-> work.seen, put |-> work.put,
                 add |-> work.add, drop |-> work.drop, confirmed |-> work.confirmed,
                 sync |-> work.sync]
  BY <1>3, <1>5
<1>7. job' = [job EXCEPT ![j] = work]
  BY <1>1, <1>2, <1>3, <1>4
<1>8. /\ DOMAIN sync = unpaid /\ unpaid \subseteq DOMAIN ledger
      /\ \A k \in unpaid : k.structure \in DOMAIN job[j].put
      /\ Payments!Partial(sync, LedgerIds, Payments!Row)
  <2>1. sync = [k \in unpaid |-> ledger[k]] /\ unpaid \subseteq DOMAIN ledger
    BY <1>1 DEF Restrict
  <2>2. /\ DOMAIN ledger \subseteq LedgerIds
        /\ \A k \in DOMAIN ledger : ledger[k] \in Payments!Row
    BY JobTypes, SameTypes
  <2>3. \A k \in unpaid : k.structure \in DOMAIN job[j].put
    BY <1>1
  <2> QED
    BY <2>1, <2>2, <2>3 DEF Payments!Partial
<1>9. IsJob(work)
  BY <1>4, <1>6, <1>8, Zenon DEF IsJob
<1> QED
  BY <1>1, <1>6, <1>7, <1>8, <1>9, Zenon

(* The types of what an open payment carries.                              *)
LEMMA TxTypes ==
    ASSUME TypeOK, NEW r \in Requests, NEW k \in DOMAIN tx[r].write
    PROVE  /\ k \in LedgerIds /\ k.structure \in StructureIds /\ k.structure[1] \in Jobs
           /\ tx[r].seen[k].paid \in Nat /\ tx[r].write[k].paid \in Nat
           /\ tx[r].pay[k] \in Nat
<1>1. Pay!IsTx(tx[r])
  BY SameTypes DEF TypeOK, Pay!TypeOK
<1>2. k \in LedgerIds
  BY <1>1 DEF Pay!IsTx, Pay!Partial
<1> QED
  BY <1>1, <1>2 DEF Pay!IsTx, Pay!Partial, Pay!Row, LedgerIds, StructureIds

(* A request that is done stays done.                                      *)
LEMMA DoneStays ==
    ASSUME TypeOK, NEW j \in Jobs, NEW work, job' = [job EXCEPT ![j] = work],
           job[j].state # "done"
    PROVE  \A q \in Jobs : job[q].state = "done" => job'[q].state = "done"
BY DEF TypeOK

(* A step that only moves one administrator's request.                     *)
LEMMA JobOnly ==
    ASSUME Inv, NEW j \in Jobs, NEW work, IsJob(work), job' = [job EXCEPT ![j] = work],
           job[j].state # "done", JobSound(j)',
           UNCHANGED <<structure, ledger, receipts, today, tx>>
    PROVE  Inv'
<1>1. TypeOK /\ Pay!TypeOK /\ DOMAIN job = Jobs /\ \A q \in Jobs : IsJob(job[q])
  BY SameTypes DEF Inv, TypeOK
<1>2. /\ DOMAIN job' = Jobs
      /\ \A q \in Jobs : IsJob(job'[q])
      /\ \A q \in Jobs : q # j => job'[q] = job[q]
  BY <1>1, JobReplaced
<1>3. TypeOK'
  <2>1. Payments!TypeOK'
    BY <1>1 DEF TypeOK, Payments!TypeOK
  <2> QED
    BY <1>1, <1>2, <2>1 DEF TypeOK
<1>4. \A q \in Jobs : job[q].state = "done" => job'[q].state = "done"
  BY <1>1, DoneStays
<1>5. Born'
  <2>1. \A id \in DOMAIN structure : id[1] \in Jobs
    BY <1>1, JobTypes DEF StructureIds
  <2> QED
    BY <1>4, <2>1 DEF Inv, Born
<1>6. Linked' /\ Emptied' /\ Payments!PaidBackedByReceipts'
  BY DEF Inv, Linked, Emptied, Payments!PaidBackedByReceipts
<1>7. ASSUME NEW q \in Jobs PROVE JobSound(q)'
  <2>1. CASE q = j
    BY <2>1
  <2>2. CASE q # j
    BY <1>2, <2>2 DEF Inv, JobSound
  <2> QED
    BY <2>1, <2>2
<1>8. ASSUME NEW r \in Requests PROVE TxBacked(r)'
  <2>1. ASSUME NEW k \in DOMAIN tx[r].write PROVE k.structure[1] \in Jobs
    BY <1>1, TxTypes
  <2> QED
    BY <1>4, <2>1 DEF Inv, TxBacked
<1> QED
  BY <1>3, <1>5, <1>6, <1>7, <1>8 DEF Inv

(* A request whose id nobody else takes: what is gone with its structure   *)
(* does not come back.                                                     *)
LEMMA GoneForGood ==
    ASSUME Inv, NEW j \in Jobs, CommitJob(j), NEW id \in StructureIds,
           job[id[1]].state = "done", id \notin DOMAIN structure
    PROVE  id \notin DOMAIN structure'
<1>1. TypeOK /\ JobSound(j)
  BY DEF Inv
<1>2. job[j].state = "open" /\ DOMAIN job[j].seen \subseteq DOMAIN structure
  BY Zenon DEF CommitJob
<1>3. id[1] # j
  BY <1>2
<1>4. id \notin DOMAIN job[j].put
  BY <1>1, <1>2, <1>3 DEF JobSound
<1> QED
  BY <1>1, <1>4, CommittedStructures

(* A commit of an administrator's request.                                 *)
LEMMA CommitInv ==
    ASSUME Inv, NEW j \in Jobs, CommitJob(j)
    PROVE  Inv'
<1>1. /\ TypeOK /\ JobSound(j) /\ Linked /\ Born /\ Emptied
      /\ DOMAIN job = Jobs /\ \A q \in Jobs : IsJob(job[q])
      /\ Pay!TypeOK
  BY SameTypes DEF Inv, TypeOK
<1>2. /\ job[j].state = "open" /\ job' = [job EXCEPT ![j] = Finished]
      /\ UNCHANGED <<today, tx>>
  BY Zenon DEF CommitJob
<1>3. /\ DOMAIN structure' = (DOMAIN structure \cup DOMAIN job[j].put) \ job[j].drop
      /\ structure' \in [DOMAIN structure' -> Structure]
  BY <1>1, CommittedStructures
<1>4. /\ DOMAIN ledger' = KeptLedgers(j) \cup (DOMAIN job[j].add \ DOMAIN ledger)
      /\ ledger' \in [DOMAIN ledger' -> Pay!Row]
      /\ \A k \in KeptLedgers(j) :
            /\ k \in DOMAIN ledger /\ k \in LedgerIds
            /\ ledger'[k].paid = ledger[k].paid
            /\ k.structure \notin job[j].drop /\ receipts'[k] = receipts[k]
      /\ \A k \in DOMAIN job[j].add \ DOMAIN ledger :
            /\ k \in LedgerIds
            /\ ledger'[k] = job[j].add[k]
            /\ k.structure \in DOMAIN structure'
      /\ receipts' = [k \in LedgerIds |-> IF k.structure \in job[j].drop
                                          THEN 0 ELSE receipts[k]]
  BY <1>1, CommittedLedgers
<1>5. /\ DOMAIN job' = Jobs
      /\ \A q \in Jobs : IsJob(job'[q])
      /\ job'[j] = Finished
      /\ \A q \in Jobs : q # j => job'[q] = job[q]
  BY <1>1, <1>2, QuietJob, JobReplaced
<1>6. \A q \in Jobs : job[q].state = "done" => job'[q].state = "done"
  BY <1>1, <1>2, DoneStays
<1>7. receipts \in [LedgerIds -> Nat] /\ receipts' \in [LedgerIds -> Nat]
  BY <1>1, <1>4, JobTypes
<1>8. TypeOK'
  <2>1. Payments!Partial(structure', StructureIds, Structure)
    BY <1>1, <1>3, JobTypes DEF Payments!Partial
  <2>2. DOMAIN ledger' \subseteq LedgerIds
    BY <1>4
  <2>3. Pay!Partial(ledger', LedgerIds, Pay!Row)
    BY <1>4, <2>2 DEF Pay!Partial
  <2>4. Payments!Partial(ledger', LedgerIds, Payments!Row)
    BY <2>3, SameTypes
  <2>5. Payments!TypeOK
    BY <1>1 DEF TypeOK
  <2>6. Payments!TypeOK'
    BY <1>2, <1>7, <2>4, <2>5 DEF Payments!TypeOK
  <2> QED
    BY <1>5, <2>1, <2>6 DEF TypeOK
<1>9. Linked'
  <2>1. ASSUME NEW k \in KeptLedgers(j) PROVE k.structure \in DOMAIN structure'
    BY <1>1, <1>3, <1>4 DEF Linked
  <2> QED
    BY <1>4, <2>1 DEF Linked
<1>10. Born'
  <2>1. Finished.state = "done"
    BY QuietRecords
  <2>2. ASSUME NEW id \in DOMAIN structure' PROVE job'[id[1]].state = "done"
    <3>1. CASE id \in DOMAIN structure
      <4>1. id[1] \in Jobs /\ job[id[1]].state = "done"
        BY <1>1, <3>1, JobTypes DEF Born, StructureIds
      <4> QED
        BY <1>6, <4>1
    <3>2. CASE id \notin DOMAIN structure
      <4>1. id \in DOMAIN job[j].put /\ DOMAIN job[j].seen \subseteq DOMAIN structure
        BY <1>3, <3>2, Zenon DEF CommitJob
      <4>2. id[1] = j
        BY <1>1, <3>2, <4>1 DEF JobSound
      <4> QED
        BY <1>5, <2>1, <4>2
    <3> QED
      BY <3>1, <3>2
  <2> QED
    BY <2>2 DEF Born
<1>11. Emptied'
  <2>1. ASSUME NEW k \in LedgerIds \ DOMAIN ledger' PROVE receipts'[k] = 0
    <3>1. CASE k \in DOMAIN ledger
      <4>1. k.structure \in job[j].drop
        BY <1>4, <2>1, <3>1 DEF KeptLedgers
      <4> QED
        BY <1>4, <4>1
    <3>2. CASE k \notin DOMAIN ledger
      BY <1>1, <1>4, <3>2 DEF Emptied
    <3> QED
      BY <3>1, <3>2
  <2> QED
    BY <2>1 DEF Emptied
<1>12. Payments!PaidBackedByReceipts'
  <2>1. \A k \in DOMAIN ledger : ledger[k].paid <= receipts[k]
    BY DEF Inv, Payments!PaidBackedByReceipts
  <2>2. ASSUME NEW k \in KeptLedgers(j) PROVE ledger'[k].paid <= receipts'[k]
    BY <1>4, <2>1
  <2>3. ASSUME NEW k \in DOMAIN job[j].add \ DOMAIN ledger
        PROVE  ledger'[k].paid <= receipts'[k]
    <3>1. ledger'[k].paid = 0 /\ receipts'[k] \in Nat
      BY <1>1, <1>4, <1>7 DEF JobSound
    <3> QED
      BY <3>1
  <2> QED
    BY <1>4, <2>2, <2>3 DEF Payments!PaidBackedByReceipts
<1>13. ASSUME NEW q \in Jobs PROVE JobSound(q)'
  <2>1. CASE q = j
    <3>1. Finished.put = None /\ Finished.sync = None /\ Finished.add = None /\ DOMAIN None = {}
      BY QuietRecords, EmptyTable
    <3> QED
      BY <1>5, <2>1, <3>1 DEF JobSound
  <2>2. CASE q # j
    BY <1>5, <2>2 DEF Inv, JobSound
  <2> QED
    BY <2>1, <2>2
<1>14. ASSUME NEW r \in Requests PROVE TxBacked(r)'
  <2>1. SUFFICES ASSUME NEW k \in DOMAIN tx[r].write
                 PROVE  /\ tx[r].write[k].paid = tx[r].seen[k].paid + tx[r].pay[k]
                        /\ k \in DOMAIN ledger' => tx[r].seen[k].paid <= receipts'[k]
                        /\ k \notin DOMAIN ledger' => k.structure \notin DOMAIN structure'
                        /\ job'[k.structure[1]].state = "done"
    BY <1>2 DEF TxBacked
  <2>2. /\ tx[r].write[k].paid = tx[r].seen[k].paid + tx[r].pay[k]
        /\ k \in DOMAIN ledger => tx[r].seen[k].paid <= receipts[k]
        /\ k \notin DOMAIN ledger => k.structure \notin DOMAIN structure
        /\ job[k.structure[1]].state = "done"
    BY DEF Inv, TxBacked
  <2>3. k \in LedgerIds /\ k.structure \in StructureIds /\ k.structure[1] \in Jobs
    BY <1>1, TxTypes
  <2>4. k \notin DOMAIN ledger => k.structure \notin DOMAIN structure'
    BY <2>2, <2>3, GoneForGood
  <2>5. k \in DOMAIN ledger' => tx[r].seen[k].paid <= receipts'[k]
    BY <1>4, <2>2, <2>4
  <2>6. k \notin DOMAIN ledger' => k.structure \notin DOMAIN structure'
    <3>1. CASE k \in DOMAIN ledger
      BY <1>3, <1>4, <3>1 DEF KeptLedgers
    <3> QED
      BY <2>4, <3>1
  <2> QED
    BY <1>6, <2>2, <2>3, <2>5, <2>6
<1> QED
  BY <1>8, <1>9, <1>10, <1>11, <1>12, <1>13, <1>14 DEF Inv

(* A payment changes what is paid and the status of a ledger, never what   *)
(* it bills.                                                               *)
LEMMA PaymentRows ==
    ASSUME Pay!TypeOK, NEW r \in Requests, Pay!Commit(r), NEW k \in DOMAIN ledger
    PROVE  ledger'[k].total = ledger[k].total /\ ledger'[k].due = ledger[k].due
<1>1. ledger[k] \in Pay!Row
  BY DEF Pay!TypeOK, Pay!Partial
<1>2. CASE k \in DOMAIN tx[r].write
  <2>1. tx[r].seen[k] \in Pay!Row /\ tx[r].write[k] \in Pay!Row
    BY <1>2 DEF Pay!TypeOK, Pay!IsTx, Pay!Partial
  <2>2. ledger'[k] = Pay!Flushed(ledger[k], tx[r].seen[k], tx[r].write[k])
    BY <1>2 DEF Pay!Commit
  <2> QED
    BY <1>1, <2>1, <2>2, PayConstants, Pay!FlushedRow
<1>3. CASE k \notin DOMAIN tx[r].write
  BY <1>3 DEF Pay!Commit
<1> QED
  BY <1>2, <1>3

(* A step of payments.                                                     *)
LEMMA PaymentInv ==
    ASSUME Inv, Payments!Next, UNCHANGED assignmentVars
    PROVE  Inv'
<1>1. /\ TypeOK /\ Linked /\ Born /\ Emptied /\ Pay!TypeOK
      /\ \A k \in DOMAIN ledger : ledger[k].paid <= receipts[k]
      /\ UNCHANGED <<structure, job>>
  BY SameTypes DEF Inv, TypeOK, assignmentVars, Payments!PaidBackedByReceipts
<1>2. \/ \E r \in Requests : \E write, pay : Pay!Prepared(write, pay) /\ Pay!Open(r, write, pay)
      \/ \E r \in Requests : Pay!Commit(r)
      \/ \E r \in Requests : Pay!Abort(r)
      \/ Pay!MarkOverdue
      \/ Pay!NextDay
  BY <1>1, PayKinds
<1>3. Pay!TypeOK'
  BY <1>1, <1>2, PayConstants, Pay!KindTypes
<1>4. TypeOK'
  <2>1. Payments!TypeOK'
    BY <1>3, SameTypes DEF Payments!TypeOK, Pay!TypeOK, Payments!Partial, Pay!Partial,
       Payments!Row, Pay!Row, Payments!Day, Pay!Day, Payments!FeeStatus, Pay!FeeStatus,
       Payments!IsTx, Pay!IsTx
  <2> QED
    BY <1>1, <2>1 DEF TypeOK
<1>5. Born' /\ \A j \in Jobs : JobSound(j)'
  BY <1>1 DEF Inv, Born, JobSound
<1>6. SUFFICES /\ DOMAIN ledger' = DOMAIN ledger
               /\ Emptied' /\ Payments!PaidBackedByReceipts'
               /\ \A q \in Requests : TxBacked(q)'
  BY <1>1, <1>4, <1>5 DEF Inv, Linked
<1>7. ASSUME NEW r \in Requests, NEW write, NEW pay,
             Pay!Prepared(write, pay), Pay!Open(r, write, pay)
      PROVE  /\ DOMAIN ledger' = DOMAIN ledger
             /\ Emptied' /\ Payments!PaidBackedByReceipts'
             /\ \A q \in Requests : TxBacked(q)'
  <2>1. UNCHANGED <<ledger, receipts>>
    BY <1>7 DEF Pay!Open
  <2>2. ASSUME NEW q \in Requests PROVE TxBacked(q)'
    <3>1. CASE q = r
      <4>1. /\ tx'[q].write = write /\ tx'[q].pay = pay
            /\ tx'[q].seen = Pay!Restrict(ledger, DOMAIN write)
        BY <1>1, <1>7, <3>1 DEF Pay!TypeOK, Pay!Open
      <4>2. ASSUME NEW k \in DOMAIN write
            PROVE  /\ write[k].paid = tx'[q].seen[k].paid + pay[k]
                   /\ k \in DOMAIN ledger
                   /\ tx'[q].seen[k].paid <= receipts[k]
                   /\ job[k.structure[1]].state = "done"
        <5>1. k \in DOMAIN ledger /\ write[k].paid = ledger[k].paid + pay[k]
          BY <1>7 DEF Pay!Prepared
        <5>2. tx'[q].seen[k] = ledger[k]
          BY <4>1 DEF Pay!Restrict
        <5>3. k.structure \in DOMAIN structure
          BY <1>1, <5>1 DEF Linked
        <5> QED
          BY <1>1, <5>1, <5>2, <5>3 DEF Born
      <4> QED
        BY <1>1, <2>1, <4>1, <4>2 DEF TxBacked
    <3>2. CASE q # r
      <4>1. tx'[q] = tx[q]
        BY <1>1, <1>7, <3>2 DEF Pay!TypeOK, Pay!Open
      <4> QED
        BY <1>1, <2>1, <4>1 DEF Inv, TxBacked
    <3> QED
      BY <3>1, <3>2
  <2> QED
    BY <1>1, <2>1, <2>2 DEF Emptied, Payments!PaidBackedByReceipts
<1>8. ASSUME NEW r \in Requests, Pay!Commit(r)
      PROVE  /\ DOMAIN ledger' = DOMAIN ledger
             /\ Emptied' /\ Payments!PaidBackedByReceipts'
             /\ \A q \in Requests : TxBacked(q)'
  <2>1. /\ DOMAIN ledger' = DOMAIN ledger
        /\ DOMAIN tx[r].write \subseteq DOMAIN ledger
        /\ \A k \in DOMAIN ledger :
             /\ ledger[k] \in Pay!Row
             /\ k \in DOMAIN tx[r].write =>
                  /\ tx[r].seen[k] \in Pay!Row /\ tx[r].write[k] \in Pay!Row
                  /\ tx[r].pay[k] \in Nat
                  /\ ledger'[k].paid = Pay!Column(ledger[k].paid, tx[r].seen[k].paid,
                                                  tx[r].write[k].paid)
                  /\ receipts'[k] = receipts[k] + tx[r].pay[k]
             /\ k \notin DOMAIN tx[r].write => /\ ledger'[k] = ledger[k]
                                              /\ receipts'[k] = receipts[k]
    BY <1>1, <1>8, PayConstants, Pay!CommitRows
  <2>2. receipts \in [LedgerIds -> Nat] /\ DOMAIN ledger \subseteq LedgerIds
    BY <1>1, JobTypes DEF Pay!TypeOK, Pay!Partial
  <2>3. ASSUME NEW k \in DOMAIN ledger
        PROVE  ledger'[k].paid <= receipts'[k] /\ receipts[k] <= receipts'[k]
    <3>1. CASE k \in DOMAIN tx[r].write
      <4>1. /\ tx[r].write[k].paid = tx[r].seen[k].paid + tx[r].pay[k]
            /\ tx[r].seen[k].paid <= receipts[k]
        BY <2>1, <3>1 DEF Inv, TxBacked
      <4>2. /\ tx[r].seen[k].paid \in Nat /\ tx[r].pay[k] \in Nat
            /\ receipts[k] \in Nat /\ ledger[k].paid \in Nat
            /\ ledger[k].paid <= receipts[k]
            /\ receipts'[k] = receipts[k] + tx[r].pay[k]
            /\ ledger'[k].paid \in {ledger[k].paid, tx[r].write[k].paid}
        BY <1>1, <2>1, <2>2, <3>1 DEF Pay!Column, Pay!Row
      <4> QED
        BY <4>1, <4>2
    <3>2. CASE k \notin DOMAIN tx[r].write
      <4>1. receipts[k] \in Nat
        BY <2>2
      <4> QED
        BY <1>1, <2>1, <3>2, <4>1
    <3> QED
      BY <3>1, <3>2
  <2>4. Emptied'
    <3>1. ASSUME NEW k \in LedgerIds \ DOMAIN ledger PROVE receipts'[k] = 0
      <4>1. k \notin DOMAIN tx[r].pay
        BY <1>1, <2>1, <3>1 DEF Pay!TypeOK, Pay!IsTx
      <4>2. receipts[k] = 0
        BY <1>1, <3>1 DEF Emptied
      <4> QED
        BY <1>8, <4>1, <4>2 DEF Pay!Commit
    <3> QED
      BY <2>1, <3>1 DEF Emptied
  <2>5. ASSUME NEW q \in Requests PROVE TxBacked(q)'
    <3>1. CASE q = r
      BY <1>1, <1>8, <3>1 DEF Pay!TypeOK, Pay!Commit, Pay!Closed, Pay!Fresh, Pay!Empty, TxBacked
    <3>2. CASE q # r
      <4>1. tx'[q] = tx[q]
        BY <1>1, <1>8, <3>2 DEF Pay!TypeOK, Pay!Commit
      <4>2. SUFFICES ASSUME NEW k \in DOMAIN tx[q].write
                     PROVE  /\ tx[q].write[k].paid = tx[q].seen[k].paid + tx[q].pay[k]
                            /\ k \in DOMAIN ledger' => tx[q].seen[k].paid <= receipts'[k]
                            /\ k \notin DOMAIN ledger' => k.structure \notin DOMAIN structure'
                            /\ job'[k.structure[1]].state = "done"
        BY <4>1 DEF TxBacked
      <4>3. /\ tx[q].write[k].paid = tx[q].seen[k].paid + tx[q].pay[k]
            /\ k \in DOMAIN ledger => tx[q].seen[k].paid <= receipts[k]
            /\ k \notin DOMAIN ledger => k.structure \notin DOMAIN structure
            /\ job[k.structure[1]].state = "done"
        BY DEF Inv, TxBacked
      <4>4. /\ tx[q].seen[k].paid \in Nat /\ receipts[k] \in Nat
            /\ receipts'[k] \in Nat
        BY <1>1, <1>3, <2>2, TxTypes DEF Pay!TypeOK
      <4> QED
        BY <1>1, <2>1, <2>3, <4>3, <4>4
    <3> QED
      BY <3>1, <3>2
  <2> QED
    BY <2>1, <2>3, <2>4, <2>5 DEF Payments!PaidBackedByReceipts
<1>9. ASSUME NEW r \in Requests, Pay!Abort(r)
      PROVE  /\ DOMAIN ledger' = DOMAIN ledger
             /\ Emptied' /\ Payments!PaidBackedByReceipts'
             /\ \A q \in Requests : TxBacked(q)'
  <2>1. UNCHANGED <<ledger, receipts>>
    BY <1>9 DEF Pay!Abort
  <2>2. ASSUME NEW q \in Requests PROVE TxBacked(q)'
    <3>1. CASE q = r
      BY <1>1, <1>9, <3>1 DEF Pay!TypeOK, Pay!Abort, Pay!Closed, Pay!Fresh, Pay!Empty, TxBacked
    <3>2. CASE q # r
      <4>1. tx'[q] = tx[q]
        BY <1>1, <1>9, <3>2 DEF Pay!TypeOK, Pay!Abort
      <4> QED
        BY <1>1, <2>1, <4>1 DEF Inv, TxBacked
    <3> QED
      BY <3>1, <3>2
  <2> QED
    BY <1>1, <2>1, <2>2 DEF Emptied, Payments!PaidBackedByReceipts
<1>10. CASE Pay!MarkOverdue
  <2>1. UNCHANGED <<receipts, tx>>
    BY <1>10 DEF Pay!MarkOverdue
  <2>2. DOMAIN ledger' = DOMAIN ledger /\ \A k \in DOMAIN ledger : ledger'[k].paid = ledger[k].paid
    BY <1>1, <1>10, PayConstants, Pay!MarkOverdueRows
  <2> QED
    BY <1>1, <2>1, <2>2 DEF Inv, Emptied, Payments!PaidBackedByReceipts, TxBacked
<1>11. CASE Pay!NextDay
  <2>1. UNCHANGED <<ledger, receipts, tx>>
    BY <1>11 DEF Pay!NextDay
  <2> QED
    BY <1>1, <2>1 DEF Inv, Emptied, Payments!PaidBackedByReceipts, TxBacked
<1> QED
  BY <1>2, <1>7, <1>8, <1>9, <1>10, <1>11

(* No step breaks the invariant.                                           *)
LEMMA StepInv == Inv /\ [Next]_vars => Inv'
<1> SUFFICES ASSUME Inv, [Next]_vars PROVE Inv'
  OBVIOUS
<1>0. TypeOK
  BY DEF Inv
<1>1. ASSUME NEW j \in Jobs, NEW work, Planned(j, work), Begin(j, work) PROVE Inv'
  <2>1. /\ IsJob(work) /\ work.sync = None
        /\ DOMAIN work.seen = DOMAIN work.put \cap DOMAIN structure
        /\ \A id \in DOMAIN work.put : id \in DOMAIN structure \/ id[1] = j
        /\ \A k \in DOMAIN work.add : work.add[k].paid = 0
    BY <1>1, Zenon DEF Planned
  <2>2. /\ job[j].state = "new" /\ job' = [job EXCEPT ![j] = work]
        /\ UNCHANGED <<structure, ledger, receipts, today, tx>>
    BY <1>1 DEF Begin
  <2>3. job'[j] = work
    BY <1>0, <2>2 DEF TypeOK
  <2>4. DOMAIN None = {}
    BY EmptyTable
  <2>5. JobSound(j)'
    BY <2>1, <2>3, <2>4 DEF JobSound
  <2> QED
    BY <2>1, <2>2, <2>5, JobOnly
<1>2. ASSUME NEW j \in Jobs, SyncLedgers(j) PROVE Inv'
  <2>1. /\ job[j].state = "sync"
        /\ UNCHANGED <<structure, ledger, receipts, today, tx>>
    BY <1>2, Zenon DEF SyncLedgers
  <2>2. PICK work :
          /\ job' = [job EXCEPT ![j] = work]
          /\ IsJob(work)
          /\ work.seen = job[j].seen /\ work.put = job[j].put /\ work.add = job[j].add
          /\ \A k \in DOMAIN work.sync : k.structure \in DOMAIN job[j].put
    BY <1>0, <1>2, SyncedJob
  <2>3. job'[j] = work
    BY <1>0, <2>2 DEF TypeOK
  <2>4. JobSound(j)'
    BY <2>2, <2>3 DEF Inv, JobSound
  <2> QED
    BY <2>1, <2>2, <2>4, JobOnly
<1>3. ASSUME NEW j \in Jobs, CommitJob(j) PROVE Inv'
  BY <1>3, CommitInv
<1>4. ASSUME NEW j \in Jobs, AbortJob(j) PROVE Inv'
  <2>1. /\ job[j].state # "done" /\ job' = [job EXCEPT ![j] = Finished]
        /\ UNCHANGED <<structure, ledger, receipts, today, tx>>
    BY <1>4 DEF AbortJob
  <2>2. job'[j] = Finished
    BY <1>0, <2>1 DEF TypeOK
  <2>3. Finished.put = None /\ Finished.sync = None /\ Finished.add = None /\ DOMAIN None = {}
    BY QuietRecords, EmptyTable
  <2>4. JobSound(j)'
    BY <2>2, <2>3 DEF JobSound
  <2> QED
    BY <2>1, <2>4, QuietJob, JobOnly
<1>5. CASE Payments!Next /\ UNCHANGED assignmentVars
  BY <1>5, PaymentInv
<1>6. CASE UNCHANGED vars
  BY <1>6 DEF Inv, TypeOK, Payments!TypeOK, Linked, Born, Emptied, JobSound, TxBacked,
              Payments!PaidBackedByReceipts, LedgersOf, vars
<1> QED
  BY <1>0, <1>1, <1>2, <1>3, <1>4, <1>5, <1>6, AssignKinds DEF Next

(* In every interleaving of administrators and payers, the invariant holds. *)
THEOREM Invariant == Spec => []Inv
BY InitInv, StepInv, PTL DEF Spec

(* Every row, decision and pending payment is well typed.                  *)
THEOREM TypeCorrect == Spec => []TypeOK
<1>1. Inv => TypeOK
  BY DEF Inv
<1> QED
  BY <1>1, Invariant, PTL

(* No ledger outlives its structure, and none is credited with money that  *)
(* no Payment row of it accounts for.                                      *)
THEOREM LedgersStayBacked == Spec => []LedgersBacked
<1>1. Inv => LedgersBacked
  BY DEF Inv, Linked, LedgersBacked
<1> QED
  BY <1>1, Invariant, PTL
-----------------------------------------------------------------------------
(* What holds while requests do not overlap.                               *)

(* At most one administrator's request or payment is under way.            *)
LEMMA Lone ==
    ASSUME NEW jobs, NEW txs,
           Cardinality({j \in Jobs : jobs[j].state \in {"sync", "open"}})
             + Cardinality({r \in Requests : txs[r].state = "open"}) <= 1
    PROVE  /\ \A j, q \in Jobs : /\ jobs[j].state \in {"sync", "open"}
                                 /\ jobs[q].state \in {"sync", "open"}
                                 => j = q
           /\ \A r, q \in Requests : txs[r].state = "open" /\ txs[q].state = "open" => r = q
           /\ \A j \in Jobs, r \in Requests :
                 ~ (jobs[j].state \in {"sync", "open"} /\ txs[r].state = "open")
<1>1. PICK busy, open : /\ busy = {j \in Jobs : jobs[j].state \in {"sync", "open"}}
                        /\ open = {r \in Requests : txs[r].state = "open"}
  OBVIOUS
<1>2. IsFiniteSet(Jobs) /\ IsFiniteSet(Requests)
  BY AssignmentConstants, Zenon
<1>3. /\ IsFiniteSet(busy) /\ Cardinality(busy) \in Nat
      /\ IsFiniteSet(open) /\ Cardinality(open) \in Nat
  <2>1. busy \subseteq Jobs /\ open \subseteq Requests
    BY <1>1
  <2> QED
    BY <1>2, <2>1, FS_Subset, FS_CardinalityType
<1>4. Cardinality(busy) + Cardinality(open) <= 1
  BY <1>1
<1>5. ASSUME NEW S, IsFiniteSet(S), NEW a \in S
      PROVE  /\ Cardinality(S) >= 1
             /\ Cardinality(S) <= 1 => \A b \in S : b = a
  <2>1. IsFiniteSet(S \ {a}) /\ Cardinality(S \ {a}) = Cardinality(S) - 1
    BY <1>5, FS_RemoveElement
  <2>2. Cardinality(S) \in Nat /\ Cardinality(S \ {a}) \in Nat
    BY <1>5, <2>1, FS_CardinalityType
  <2>3. Cardinality(S) <= 1 => S \ {a} = {}
    BY <2>1, <2>2, FS_EmptySet
  <2> QED
    BY <2>1, <2>2, <2>3
<1>6. ASSUME NEW a \in busy, NEW b \in busy PROVE a = b
  BY <1>3, <1>4, <1>5
<1>7. ASSUME NEW a \in open, NEW b \in open PROVE a = b
  BY <1>3, <1>4, <1>5
<1>8. ASSUME NEW a \in busy, NEW b \in open PROVE FALSE
  <2>1. Cardinality(busy) >= 1 /\ Cardinality(open) >= 1
    BY <1>3, <1>5
  <2> QED
    BY <1>3, <1>4, <2>1
<1> QED
  BY <1>1, <1>6, <1>7, <1>8

Busy(j) == job[j].state \in {"sync", "open"}

(* What a request decided is still so when it commits.                     *)
JobCurrent(j) ==
    /\ \A id \in job[j].drop : LedgersOf(id) # {} => job[j].confirmed
    /\ CustomHeads = {} =>
          /\ \A id \in DOMAIN job[j].put : LedgersOf(id) = {}
          /\ DOMAIN job[j].sync = {}
          /\ \A k \in DOMAIN job[j].add :
                /\ k.structure \in DOMAIN structure
                /\ \E plan : Bills(job[j].add[k], k.name, structure[k.structure], plan)
          /\ DOMAIN job[j].put # {} => DOMAIN job[j].add = {}

TxCurrent(r) == \A k \in DOMAIN tx[r].write : /\ k \in DOMAIN ledger
                                              /\ tx[r].seen[k].paid = ledger[k].paid

(* Every ledger bills an installment of its structure as it is now.        *)
Billed == CustomHeads = {} =>
            \A k \in DOMAIN ledger :
               \E plan : Bills(ledger[k], k.name, structure[k.structure], plan)

SerialInv == /\ Inv
             /\ OneAtATime
             /\ \A j \in Jobs : Busy(j) => JobCurrent(j)
             /\ \A r \in Requests : tx[r].state = "open" => TxCurrent(r)
             /\ Payments!BooksBalance
             /\ Billed

LEMMA SerialInit == Init => SerialInv
<1> SUFFICES ASSUME Init PROVE SerialInv
  OBVIOUS
<1>1. \A j \in Jobs : job[j].state = "new"
  <2>1. Quiet.state = "new"
    BY QuietRecords
  <2> QED
    BY <2>1 DEF Init
<1>2. \A r \in Requests : tx[r].state = "new"
  BY SameTypes DEF Init, Pay!Fresh
<1>3. DOMAIN ledger = {}
  BY EmptyTable DEF Init
<1>4. OneAtATime
  <2>1. /\ {j \in Jobs : job[j].state \in {"sync", "open"}} = {}
        /\ {r \in Requests : tx[r].state = "open"} = {}
    BY <1>1, <1>2
  <2> QED
    BY <2>1, FS_EmptySet DEF OneAtATime
<1> QED
  BY <1>1, <1>2, <1>3, <1>4, InitInv
     DEF SerialInv, Busy, Payments!BooksBalance, Billed

(* With nothing else under way, only the request that moved has to be      *)
(* looked at, and only if the ledgers and structures stay.                 *)
LEMMA SerialJobOnly ==
    ASSUME SerialInv, Inv', OneAtATime', NEW j \in Jobs, NEW work,
           job' = [job EXCEPT ![j] = work], Busy(j)' => JobCurrent(j)',
           UNCHANGED <<structure, ledger, receipts, today, tx>>
    PROVE  SerialInv'
<1>1. DOMAIN job = Jobs /\ \A q \in Jobs : q # j => job'[q] = job[q]
  BY DEF SerialInv, Inv, TypeOK
<1>2. ASSUME NEW q \in Jobs, Busy(q)' PROVE JobCurrent(q)'
  <2>1. CASE q = j
    BY <1>2, <2>1
  <2>2. CASE q # j
    <3>1. job'[q] = job[q]
      BY <1>1, <2>2
    <3> QED
      BY <1>2, <3>1 DEF SerialInv, Busy, JobCurrent, LedgersOf, Bills
  <2> QED
    BY <2>1, <2>2
<1>3. \A r \in Requests : tx'[r].state = "open" => TxCurrent(r)'
  BY DEF SerialInv, TxCurrent
<1>4. Payments!BooksBalance' /\ Billed'
  BY DEF SerialInv, Payments!BooksBalance, Billed, Bills
<1> QED
  BY <1>2, <1>3, <1>4 DEF SerialInv

(* A commit of the only request under way: what it decided still holds.    *)
LEMMA SerialCommit ==
    ASSUME SerialInv, Inv', OneAtATime', NEW j \in Jobs, CommitJob(j)
    PROVE  /\ SerialInv'
           /\ \A k \in DOMAIN ledger \ DOMAIN ledger' : job[j].confirmed
           /\ CustomHeads = {} =>
                \A id \in DOMAIN structure \cap DOMAIN structure' :
                   LedgersOf(id) # {} => structure'[id] = structure[id]
<1>1. /\ TypeOK /\ JobSound(j) /\ Emptied /\ Linked /\ DOMAIN job = Jobs
      /\ \A k \in DOMAIN ledger : ledger[k].paid = receipts[k]
  BY DEF SerialInv, Inv, TypeOK, Payments!BooksBalance
<1>2. /\ job[j].state = "open" /\ job' = [job EXCEPT ![j] = Finished]
      /\ DOMAIN job[j].seen \subseteq DOMAIN structure
      /\ UNCHANGED <<today, tx>>
  BY Zenon DEF CommitJob
<1>3. JobCurrent(j)
  BY <1>2 DEF SerialInv, Busy
<1>4. /\ \A q \in Jobs : Busy(q) => q = j
      /\ \A r \in Requests : tx[r].state # "open"
  BY <1>2, Lone DEF SerialInv, OneAtATime, Busy
<1>5. job'[j].state = "done" /\ \A q \in Jobs : q # j => job'[q] = job[q]
  BY <1>1, <1>2, QuietRecords
<1>6. \A q \in Jobs : ~ Busy(q)'
  BY <1>4, <1>5 DEF Busy
<1>7. \A r \in Requests : tx'[r].state # "open"
  BY <1>2, <1>4
<1>8. /\ DOMAIN structure' = (DOMAIN structure \cup DOMAIN job[j].put) \ job[j].drop
      /\ \A id \in DOMAIN structure' :
            id \notin DOMAIN job[j].put => structure'[id] = structure[id]
  BY <1>1, CommittedStructures
<1>9. /\ DOMAIN ledger' = KeptLedgers(j) \cup (DOMAIN job[j].add \ DOMAIN ledger)
      /\ \A k \in KeptLedgers(j) :
            /\ k \in DOMAIN ledger
            /\ ledger'[k].paid = ledger[k].paid
            /\ k \notin DOMAIN job[j].sync => ledger'[k] = ledger[k]
            /\ k.structure \notin job[j].drop /\ receipts'[k] = receipts[k]
      /\ \A k \in DOMAIN job[j].add \ DOMAIN ledger :
            /\ k \in LedgerIds
            /\ ledger'[k] = job[j].add[k]
            /\ k.structure \in DOMAIN structure'
      /\ receipts' = [k \in LedgerIds |-> IF k.structure \in job[j].drop
                                          THEN 0 ELSE receipts[k]]
  BY <1>1, CommittedLedgers
<1>10. Payments!BooksBalance'
  <2>1. ASSUME NEW k \in DOMAIN job[j].add \ DOMAIN ledger
        PROVE  ledger'[k].paid = receipts'[k]
    <3>1. ledger'[k].paid = 0 /\ k \in LedgerIds
      BY <1>1, <1>9 DEF JobSound
    <3>2. receipts[k] = 0
      BY <1>1, <3>1 DEF Emptied
    <3> QED
      BY <1>9, <3>1, <3>2
  <2>2. ASSUME NEW k \in KeptLedgers(j) PROVE ledger'[k].paid = receipts'[k]
    BY <1>1, <1>9
  <2> QED
    BY <1>9, <2>1, <2>2 DEF Payments!BooksBalance
<1>11. ASSUME CustomHeads = {}, NEW k \in DOMAIN ledger'
       PROVE  \E plan : Bills(ledger'[k], k.name, structure'[k.structure], plan)
  <2>1. CASE k \in KeptLedgers(j)
    <3>1. k \in DOMAIN ledger /\ ledger'[k] = ledger[k] /\ k.structure \notin job[j].drop
      BY <1>3, <1>9, <1>11, <2>1 DEF JobCurrent
    <3>2. k.structure \in DOMAIN structure /\ k.structure \notin DOMAIN job[j].put
      BY <1>1, <1>3, <1>11, <3>1 DEF JobCurrent, LedgersOf, Linked
    <3>3. structure'[k.structure] = structure[k.structure]
      BY <1>8, <3>1, <3>2
    <3>4. PICK plan : Bills(ledger[k], k.name, structure[k.structure], plan)
      BY <1>11, <3>1 DEF SerialInv, Billed
    <3> QED
      BY <3>1, <3>3, <3>4, Zenon
  <2>2. CASE k \in DOMAIN job[j].add \ DOMAIN ledger
    <3>1. /\ ledger'[k] = job[j].add[k] /\ k.structure \in DOMAIN structure'
          /\ k.structure \notin DOMAIN job[j].put
      BY <1>3, <1>9, <1>11, <2>2 DEF JobCurrent
    <3>2. structure'[k.structure] = structure[k.structure]
      BY <1>8, <3>1
    <3>3. PICK plan : Bills(job[j].add[k], k.name, structure[k.structure], plan)
      BY <1>3, <1>11, <2>2 DEF JobCurrent
    <3> QED
      BY <3>1, <3>2, <3>3, Zenon
  <2> QED
    BY <1>9, <1>11, <2>1, <2>2
<1>12. \A k \in DOMAIN ledger \ DOMAIN ledger' : job[j].confirmed
  <2>1. SUFFICES ASSUME NEW k \in DOMAIN ledger, k \notin DOMAIN ledger'
                 PROVE  job[j].confirmed
    BY Zenon
  <2>2. k.structure \in job[j].drop
    BY <1>9, <2>1 DEF KeptLedgers
  <2>3. k \in LedgersOf(k.structure)
    BY DEF LedgersOf
  <2>4. LedgersOf(k.structure) # {}
    BY <2>3
  <2> QED
    BY <1>3, <2>2, <2>4, Zenon DEF JobCurrent
<1>13. CustomHeads = {} => \A id \in DOMAIN structure \cap DOMAIN structure' :
                              LedgersOf(id) # {} => structure'[id] = structure[id]
  BY <1>3, <1>8 DEF JobCurrent
<1>14. Billed'
  BY <1>11 DEF Billed
<1> QED
  BY <1>6, <1>7, <1>10, <1>12, <1>13, <1>14, Zenon DEF SerialInv

(* A step of payments while nothing else is under way.                     *)
LEMMA SerialPayment ==
    ASSUME SerialInv, Inv', OneAtATime', Payments!Next, UNCHANGED assignmentVars
    PROVE  SerialInv' /\ DOMAIN ledger' = DOMAIN ledger
<1>1. /\ TypeOK /\ Pay!TypeOK /\ UNCHANGED <<structure, job>>
      /\ \A k \in DOMAIN ledger : ledger[k].paid = receipts[k]
      /\ receipts \in [LedgerIds -> Nat] /\ DOMAIN tx = Requests
      /\ \A k \in DOMAIN ledger : ledger[k] \in Pay!Row
  BY SameTypes DEF SerialInv, Inv, TypeOK, Payments!BooksBalance, assignmentVars,
                   Pay!TypeOK, Pay!Partial
<1>2. \/ \E r \in Requests : \E write, pay : Pay!Prepared(write, pay) /\ Pay!Open(r, write, pay)
      \/ \E r \in Requests : Pay!Commit(r)
      \/ \E r \in Requests : Pay!Abort(r)
      \/ Pay!MarkOverdue
      \/ Pay!NextDay
  BY <1>1, PayKinds
<1>3. SUFFICES /\ DOMAIN ledger' = DOMAIN ledger
               /\ \A k \in DOMAIN ledger : /\ ledger'[k].paid = receipts'[k]
                                           /\ ledger'[k].total = ledger[k].total
                                           /\ ledger'[k].due = ledger[k].due
               /\ \A r \in Requests : tx'[r].state = "open" => TxCurrent(r)'
  <2> SUFFICES ASSUME DOMAIN ledger' = DOMAIN ledger,
                      \A k \in DOMAIN ledger : /\ ledger'[k].paid = receipts'[k]
                                               /\ ledger'[k].total = ledger[k].total
                                               /\ ledger'[k].due = ledger[k].due,
                      \A r \in Requests : tx'[r].state = "open" => TxCurrent(r)'
               PROVE  SerialInv'
    OBVIOUS
  <2>1. Payments!BooksBalance'
    BY DEF Payments!BooksBalance
  <2>2. Billed'
    <3>1. SUFFICES ASSUME CustomHeads = {}, NEW k \in DOMAIN ledger
                   PROVE  \E plan : Bills(ledger'[k], k.name, structure'[k.structure], plan)
      BY DEF Billed
    <3>2. PICK plan : Bills(ledger[k], k.name, structure[k.structure], plan)
      BY <3>1 DEF SerialInv, Billed
    <3>3. ledger'[k].total = ledger[k].total /\ ledger'[k].due = ledger[k].due
      OBVIOUS
    <3>4. Bills(ledger'[k], k.name, structure[k.structure], plan)
      BY <3>2, <3>3, Zenon DEF Bills
    <3> QED
      BY <1>1, <3>4, Zenon
  <2>3. ASSUME NEW q \in Jobs, Busy(q)' PROVE JobCurrent(q)'
    <3>1. Busy(q) /\ JobCurrent(q)
      BY <1>1, <2>3 DEF SerialInv, Busy
    <3>2. \A id : LedgersOf(id)' = LedgersOf(id)
      BY DEF LedgersOf
    <3> QED
      BY <1>1, <3>1, <3>2 DEF JobCurrent, Bills
  <2> QED
    BY <2>1, <2>2, <2>3 DEF SerialInv
<1>4. ASSUME NEW r \in Requests, NEW write, NEW pay,
             Pay!Prepared(write, pay), Pay!Open(r, write, pay)
      PROVE  /\ DOMAIN ledger' = DOMAIN ledger
             /\ \A k \in DOMAIN ledger : /\ ledger'[k].paid = receipts'[k]
                                         /\ ledger'[k].total = ledger[k].total
                                         /\ ledger'[k].due = ledger[k].due
             /\ \A q \in Requests : tx'[q].state = "open" => TxCurrent(q)'
  <2>1. /\ UNCHANGED <<ledger, receipts>>
        /\ tx'[r].write = write /\ tx'[r].seen = Pay!Restrict(ledger, DOMAIN write)
        /\ \A q \in Requests : q # r => tx'[q] = tx[q]
    BY <1>1, <1>4 DEF Pay!Open
  <2>2. \A k \in DOMAIN write : k \in DOMAIN ledger
                                /\ Pay!Restrict(ledger, DOMAIN write)[k] = ledger[k]
    BY <1>4 DEF Pay!Prepared, Pay!Restrict
  <2>3. TxCurrent(r)'
    BY <2>1, <2>2 DEF TxCurrent
  <2>4. \A q \in Requests : q # r /\ tx'[q].state = "open" => TxCurrent(q)'
    BY <2>1 DEF SerialInv, TxCurrent
  <2> QED
    BY <1>1, <2>1, <2>3, <2>4
<1>5. ASSUME NEW r \in Requests, Pay!Commit(r)
      PROVE  /\ DOMAIN ledger' = DOMAIN ledger
             /\ \A k \in DOMAIN ledger : /\ ledger'[k].paid = receipts'[k]
                                         /\ ledger'[k].total = ledger[k].total
                                         /\ ledger'[k].due = ledger[k].due
             /\ \A q \in Requests : tx'[q].state = "open" => TxCurrent(q)'
  <2>1. /\ DOMAIN ledger' = DOMAIN ledger
        /\ \A k \in DOMAIN ledger :
             /\ k \in DOMAIN tx[r].write =>
                  /\ ledger'[k].paid = Pay!Column(ledger[k].paid, tx[r].seen[k].paid,
                                                  tx[r].write[k].paid)
                  /\ receipts'[k] = receipts[k] + tx[r].pay[k]
             /\ k \notin DOMAIN tx[r].write => /\ ledger'[k] = ledger[k]
                                              /\ receipts'[k] = receipts[k]
    BY <1>1, <1>5, PayConstants, Pay!CommitRows
  <2>2. tx[r].state = "open"
    BY <1>5 DEF Pay!Commit
  <2>3. ASSUME NEW k \in DOMAIN ledger PROVE ledger'[k].paid = receipts'[k]
    <3>1. CASE k \in DOMAIN tx[r].write
      <4>1. /\ tx[r].write[k].paid = tx[r].seen[k].paid + tx[r].pay[k]
            /\ tx[r].seen[k].paid = ledger[k].paid
        BY <2>2, <3>1 DEF SerialInv, Inv, TxBacked, TxCurrent
      <4>2. ledger'[k].paid = tx[r].write[k].paid
        BY <2>1, <3>1, <4>1 DEF Pay!Column
      <4> QED
        BY <1>1, <2>1, <3>1, <4>1, <4>2
    <3>2. CASE k \notin DOMAIN tx[r].write
      BY <1>1, <2>1, <3>2
    <3> QED
      BY <3>1, <3>2
  <2>4. ASSUME NEW k \in DOMAIN ledger
        PROVE  ledger'[k].total = ledger[k].total /\ ledger'[k].due = ledger[k].due
    BY <1>1, <1>5, PaymentRows
  <2>5. ASSUME NEW q \in Requests PROVE tx'[q].state # "open"
    <3>1. CASE q = r
      BY <1>1, <1>5, <3>1 DEF Pay!Commit, Pay!Closed, Pay!Fresh
    <3>2. CASE q # r
      <4>1. tx[q].state # "open"
        BY <2>2, <3>2, Lone DEF SerialInv, OneAtATime
      <4> QED
        BY <1>1, <1>5, <3>2, <4>1 DEF Pay!Commit
    <3> QED
      BY <3>1, <3>2
  <2> QED
    BY <2>1, <2>3, <2>4, <2>5
<1>6. ASSUME NEW r \in Requests, Pay!Abort(r)
      PROVE  /\ DOMAIN ledger' = DOMAIN ledger
             /\ \A k \in DOMAIN ledger : /\ ledger'[k].paid = receipts'[k]
                                         /\ ledger'[k].total = ledger[k].total
                                         /\ ledger'[k].due = ledger[k].due
             /\ \A q \in Requests : tx'[q].state = "open" => TxCurrent(q)'
  <2>1. /\ UNCHANGED <<ledger, receipts>>
        /\ tx'[r].state # "open"
        /\ \A q \in Requests : q # r => tx'[q] = tx[q]
    BY <1>1, <1>6 DEF Pay!Abort, Pay!Closed, Pay!Fresh
  <2>2. \A q \in Requests : tx'[q].state = "open" => TxCurrent(q)'
    BY <2>1 DEF SerialInv, TxCurrent
  <2> QED
    BY <1>1, <2>1, <2>2
<1>7. ASSUME Pay!MarkOverdue
      PROVE  /\ DOMAIN ledger' = DOMAIN ledger
             /\ \A k \in DOMAIN ledger : /\ ledger'[k].paid = receipts'[k]
                                         /\ ledger'[k].total = ledger[k].total
                                         /\ ledger'[k].due = ledger[k].due
             /\ \A q \in Requests : tx'[q].state = "open" => TxCurrent(q)'
  <2>1. UNCHANGED <<receipts, tx>>
    BY <1>7 DEF Pay!MarkOverdue
  <2>2. /\ DOMAIN ledger' = DOMAIN ledger
        /\ \A k \in DOMAIN ledger : /\ ledger'[k].paid = ledger[k].paid
                                    /\ ledger'[k].total = ledger[k].total
                                    /\ ledger'[k].due = ledger[k].due
    BY <1>1, <1>7 DEF Pay!MarkOverdue, Pay!Row
  <2> QED
    BY <1>1, <2>1, <2>2 DEF SerialInv, TxCurrent
<1>8. ASSUME Pay!NextDay
      PROVE  /\ DOMAIN ledger' = DOMAIN ledger
             /\ \A k \in DOMAIN ledger : /\ ledger'[k].paid = receipts'[k]
                                         /\ ledger'[k].total = ledger[k].total
                                         /\ ledger'[k].due = ledger[k].due
             /\ \A q \in Requests : tx'[q].state = "open" => TxCurrent(q)'
  BY <1>1, <1>8 DEF Pay!NextDay, SerialInv, TxCurrent
<1> QED
  BY <1>2, <1>4, <1>5, <1>6, <1>7, <1>8, Zenon

(* What an administrator's request may do to structures and ledgers while  *)
(* nothing else is under way.                                              *)
Orderly == /\ \/ DOMAIN ledger \subseteq DOMAIN ledger'
              \/ \E j \in Jobs : job[j].confirmed /\ job'[j] # job[j]
           /\ CustomHeads = {} =>
                \A id \in DOMAIN structure \cap DOMAIN structure' :
                   LedgersOf(id) # {} => structure'[id] = structure[id]

LEMMA SerialStep ==
    SerialInv /\ Inv' /\ [Next /\ OneAtATime']_vars
      => SerialInv' /\ (Orderly \/ UNCHANGED vars)
<1> SUFFICES ASSUME SerialInv, Inv', [Next /\ OneAtATime']_vars
             PROVE  SerialInv' /\ (Orderly \/ UNCHANGED vars)
  OBVIOUS
<1>0. TypeOK /\ Inv /\ DOMAIN job = Jobs
  BY DEF SerialInv, Inv, TypeOK
<1>1. ASSUME NEW j \in Jobs, NEW work, Planned(j, work), Begin(j, work), OneAtATime'
      PROVE  SerialInv' /\ Orderly
  <2>1. /\ job' = [job EXCEPT ![j] = work]
        /\ UNCHANGED <<structure, ledger, receipts, today, tx>>
    BY <1>1 DEF Begin
  <2>2. job'[j] = work
    BY <1>0, <2>1
  <2>3. /\ \A id \in work.drop : LedgersOf(id) # {} => work.confirmed
        /\ work.sync = None
        /\ \A k \in DOMAIN work.add : CustomHeads = {} =>
              /\ k.structure \in DOMAIN structure
              /\ \E plan : Bills(work.add[k], k.name, structure[k.structure], plan)
        /\ CustomHeads = {} => \A id \in DOMAIN work.put : LedgersOf(id) = {}
        /\ DOMAIN work.put # {} /\ CustomHeads = {} => work.add = None
    BY <1>1, Zenon DEF Planned
  <2>4. DOMAIN None = {}
    BY EmptyTable
  <2>5. \A id : LedgersOf(id)' = LedgersOf(id)
    BY <2>1 DEF LedgersOf
  <2>6. JobCurrent(j)'
    <3>1. \A id \in work.drop : LedgersOf(id)' # {} => work.confirmed
      BY <2>3, <2>5, Zenon
    <3>2. CustomHeads = {} =>
             /\ \A id \in DOMAIN work.put : LedgersOf(id)' = {}
             /\ DOMAIN work.sync = {}
             /\ DOMAIN work.put # {} => DOMAIN work.add = {}
      BY <2>3, <2>4, <2>5
    <3>3. CustomHeads = {} =>
             \A k \in DOMAIN work.add :
                /\ k.structure \in DOMAIN structure'
                /\ \E plan : Bills(work.add[k], k.name, structure'[k.structure], plan)
      BY <2>1, <2>3, Zenon
    <3> QED
      BY <2>2, <3>1, <3>2, <3>3, Zenon DEF JobCurrent
  <2>7. SerialInv'
    BY <1>1, <2>1, <2>6, SerialJobOnly
  <2> QED
    BY <2>1, <2>7 DEF Orderly
<1>2. ASSUME NEW j \in Jobs, SyncLedgers(j), OneAtATime' PROVE SerialInv' /\ Orderly
  <2>1. /\ job[j].state = "sync"
        /\ UNCHANGED <<structure, ledger, receipts, today, tx>>
    BY <1>2, Zenon DEF SyncLedgers
  <2>2. PICK work :
          /\ job' = [job EXCEPT ![j] = work]
          /\ work.seen = job[j].seen /\ work.put = job[j].put
          /\ work.add = job[j].add /\ work.drop = job[j].drop
          /\ work.confirmed = job[j].confirmed
          /\ DOMAIN work.sync \subseteq DOMAIN ledger
          /\ \A k \in DOMAIN work.sync : k.structure \in DOMAIN job[j].put
    BY <1>0, <1>2, SyncedJob
  <2>3. job'[j] = work
    BY <1>0, <2>2
  <2>4. JobCurrent(j)
    BY <2>1 DEF SerialInv, Busy
  <2>5. \A id : LedgersOf(id)' = LedgersOf(id)
    BY <2>1 DEF LedgersOf
  <2>6. CustomHeads = {} => DOMAIN work.sync = {}
    BY <2>2, <2>4 DEF JobCurrent, LedgersOf
  <2>7. JobCurrent(j)'
    <3>1. \A id \in work.drop : LedgersOf(id)' # {} => work.confirmed
      BY <2>2, <2>4, <2>5, Zenon DEF JobCurrent
    <3>2. CustomHeads = {} =>
             /\ \A id \in DOMAIN work.put : LedgersOf(id)' = {}
             /\ DOMAIN work.put # {} => DOMAIN work.add = {}
      BY <2>2, <2>4, <2>5 DEF JobCurrent
    <3>3. CustomHeads = {} =>
             \A k \in DOMAIN work.add :
                /\ k.structure \in DOMAIN structure'
                /\ \E plan : Bills(work.add[k], k.name, structure'[k.structure], plan)
      BY <2>1, <2>2, <2>4, Zenon DEF JobCurrent
    <3> QED
      BY <2>3, <2>6, <3>1, <3>2, <3>3, Zenon DEF JobCurrent
  <2>8. SerialInv'
    BY <1>2, <2>1, <2>2, <2>7, SerialJobOnly
  <2> QED
    BY <2>1, <2>8 DEF Orderly
<1>3. ASSUME NEW j \in Jobs, CommitJob(j), OneAtATime' PROVE SerialInv' /\ Orderly
  <2>1. /\ SerialInv'
        /\ \A k \in DOMAIN ledger \ DOMAIN ledger' : job[j].confirmed
        /\ CustomHeads = {} =>
             \A id \in DOMAIN structure \cap DOMAIN structure' :
                LedgersOf(id) # {} => structure'[id] = structure[id]
    BY <1>3, SerialCommit
  <2>2. job'[j] # job[j]
    <3>1. job[j].state = "open" /\ job' = [job EXCEPT ![j] = Finished]
      BY <1>3, Zenon DEF CommitJob
    <3>2. job'[j].state = "done"
      BY <1>0, <3>1, QuietRecords
    <3> QED
      BY <3>1, <3>2
  <2> QED
    BY <2>1, <2>2, Zenon DEF Orderly
<1>4. ASSUME NEW j \in Jobs, AbortJob(j), OneAtATime' PROVE SerialInv' /\ Orderly
  <2>1. /\ job' = [job EXCEPT ![j] = Finished]
        /\ UNCHANGED <<structure, ledger, receipts, today, tx>>
    BY <1>4 DEF AbortJob
  <2>2. ~ Busy(j)'
    BY <1>0, <2>1, QuietRecords DEF Busy
  <2>3. SerialInv'
    BY <1>4, <2>1, <2>2, SerialJobOnly
  <2> QED
    BY <2>1, <2>3 DEF Orderly
<1>5. ASSUME Payments!Next, UNCHANGED assignmentVars, OneAtATime'
      PROVE  SerialInv' /\ Orderly
  <2>1. SerialInv' /\ DOMAIN ledger' = DOMAIN ledger
    BY <1>5, SerialPayment
  <2>2. structure' = structure
    BY <1>5 DEF assignmentVars
  <2> QED
    BY <2>1, <2>2 DEF Orderly
<1>6. CASE UNCHANGED vars
  BY <1>6 DEF SerialInv, OneAtATime, Busy, JobCurrent, TxCurrent, Billed, Bills,
              Payments!BooksBalance, LedgersOf, vars
<1> QED
  BY <1>0, <1>1, <1>2, <1>3, <1>4, <1>5, <1>6, AssignKinds DEF Next

(* While requests do not overlap, what a request decided from the tables   *)
(* is still so when it commits.                                            *)
THEOREM SerialInvariant == SerialSpec => [](Inv /\ SerialInv)
<1>1. [Next /\ OneAtATime']_vars => [Next]_vars
  OBVIOUS
<1>2. SerialSpec => Spec
  BY <1>1, PTL DEF SerialSpec, Spec
<1>3. SerialInv /\ Inv' /\ [Next /\ OneAtATime']_vars => SerialInv'
  BY SerialStep
<1> QED
  BY <1>2, <1>3, SerialInit, Invariant, PTL DEF SerialSpec

(* While requests do not overlap, ledgers disappear only in a deletion     *)
(* that was confirmed (delete_structure).                                  *)
THEOREM DeletionsConfirmed == SerialSpec => ConfirmedDeletion
<1>1. SerialInv /\ Inv' /\ [Next /\ OneAtATime']_vars
        => [\/ DOMAIN ledger \subseteq DOMAIN ledger'
            \/ \E j \in Jobs : job[j].confirmed /\ job'[j] # job[j]]_vars
  BY SerialStep DEF Orderly
<1> QED
  BY <1>1, SerialInvariant, PTL DEF SerialSpec, ConfirmedDeletion

(* While requests do not overlap and no custom head comes along with a     *)
(* generation, the terms of a structure are immutable once a ledger bills  *)
(* them (create_structures_batch).                                         *)
THEOREM TermsImmutable ==
    ASSUME CustomHeads = {}
    PROVE  SerialSpec => ImmutableAfterAssignment
<1>1. SerialInv /\ Inv' /\ [Next /\ OneAtATime']_vars
        => [\A id \in DOMAIN structure \cap DOMAIN structure' :
              LedgersOf(id) # {} => structure'[id] = structure[id]]_vars
  BY SerialStep DEF Orderly
<1> QED
  BY <1>1, SerialInvariant, PTL DEF SerialSpec, ImmutableAfterAssignment

(* Then also every ledger bills what its structure says, if no plan uses   *)
(* the installment names of the payment cycle.                             *)
THEOREM LedgersBilled ==
    ASSUME CustomHeads = {}, Range(CycleNames) \cap PlanNames = {}
    PROVE  SerialSpec => []BilledByStructure
<1>1. SerialInv => BilledByStructure
  <2> SUFFICES ASSUME SerialInv, NEW k \in DOMAIN ledger
               PROVE  LET s == structure[k.structure]
                          plan == IF k.name \in Range(CycleNames)
                                  THEN CycleSchedule(s.amount, s.due) ELSE Schedule(s)
                      IN  \E i \in DOMAIN plan : /\ plan[i].name = k.name
                                                 /\ plan[i].amount = ledger[k].total
                                                 /\ plan[i].due = ledger[k].due
    BY DEF BilledByStructure
  <2>1. PICK s : s = structure[k.structure]
    OBVIOUS
  <2>2. PICK plan : Bills(ledger[k], k.name, s, plan)
    BY <2>1 DEF SerialInv, Billed
  <2>3. k.structure \in DOMAIN structure /\ TypeOK
    BY DEF SerialInv, Inv, Linked
  <2>4. s \in Structure
    BY <2>1, <2>3 DEF TypeOK, Payments!Partial
  <2>5. s.amount \in Prices /\ s.due \in Day
    BY <2>4 DEF Structure
  <2>6. PICK i \in DOMAIN plan : /\ plan[i].name = k.name
                                 /\ plan[i].amount = ledger[k].total
                                 /\ plan[i].due = ledger[k].due
    BY <2>2 DEF Bills
  <2>7. plan \in {Schedule(s), CycleSchedule(s.amount, s.due)}
    BY <2>2 DEF Bills
  <2>8. plan = IF k.name \in Range(CycleNames) THEN CycleSchedule(s.amount, s.due)
               ELSE Schedule(s)
    <3>1. CASE plan = Schedule(s)
      <4>1. k.name \in PlanNames
        BY <2>4, <2>6, <3>1, ScheduleInstallments
      <4> QED
        BY <3>1, <4>1
    <3>2. CASE plan = CycleSchedule(s.amount, s.due)
      <4>1. k.name \in Range(CycleNames)
        BY <2>5, <2>6, <3>2, CycleInstallments
      <4> QED
        BY <3>2, <4>1
    <3> QED
      BY <2>7, <3>1, <3>2
  <2> QED
    BY <2>1, <2>6, <2>8
<1> QED
  BY <1>1, SerialInvariant, PTL

(* While requests do not overlap, the paid column of every ledger is the   *)
(* sum of its payments, also next to generation, edits and deletions.      *)
THEOREM LedgersBalance == SerialSpec => []Payments!BooksBalance
<1>1. SerialInv => Payments!BooksBalance
  BY DEF SerialInv
<1> QED
  BY <1>1, SerialInvariant, PTL

-----------------------------------------------------------------------------
(* The installments of a payment cycle are billed together, and add up.    *)

CycleSet == Range(CycleNames)
At(k, n) == [student |-> k.student, structure |-> k.structure, name |-> n]

(* A ledger of the cycle comes with those of all its other installments.   *)
Whole(k, K) == k.name \in CycleSet => \A n \in CycleSet : At(k, n) \in K

(* The ledgers have whole cycles, and so do the ledgers with the rows that *)
(* a request under way will add.                                           *)
WholeInv == /\ \A k \in DOMAIN ledger : Whole(k, DOMAIN ledger)
            /\ \A j \in Jobs : Busy(j) => \A k \in DOMAIN job[j].add :
                                             Whole(k, DOMAIN ledger \cup DOMAIN job[j].add)

(* A plan that names one installment of the cycle names them all.          *)
AllOrNone(plan) ==
    \/ \A i \in DOMAIN plan : plan[i].name \notin CycleSet
    \/ \A n \in CycleSet : \E i \in DOMAIN plan : plan[i].name = n

LEMMA CycleRow ==
    ASSUME NEW amount, NEW due
    PROVE  /\ DOMAIN CycleSchedule(amount, due) = 1..Len(CycleNames)
           /\ \A i \in 1..Len(CycleNames) :
                 /\ CycleSchedule(amount, due)[i].name = CycleNames[i]
                 /\ CycleSchedule(amount, due)[i].amount =
                       IF i = Len(CycleNames)
                       THEN amount - (Len(CycleNames) - 1) * RoundedShare(amount, Len(CycleNames))
                       ELSE RoundedShare(amount, Len(CycleNames))
<1>1. PICK n, share : n = Len(CycleNames) /\ share = RoundedShare(amount, n)
  OBVIOUS
<1>2. PICK last : last = amount - (n - 1) * share
  OBVIOUS
<1>3. CycleSchedule(amount, due) =
        [i \in 1..n |-> [name |-> CycleNames[i], amount |-> IF i = n THEN last ELSE share,
                         due |-> IF due + i - 1 <= MaxDay THEN due + i - 1 ELSE MaxDay]]
  BY <1>1, <1>2, Zenon DEF CycleSchedule
<1>4. /\ DOMAIN CycleSchedule(amount, due) = 1..n
      /\ \A i \in 1..n : /\ CycleSchedule(amount, due)[i].name = CycleNames[i]
                         /\ CycleSchedule(amount, due)[i].amount = IF i = n THEN last ELSE share
  BY <1>3
<1> QED
  BY <1>1, <1>2, <1>4, Zenon

LEMMA CycleElements ==
    /\ Len(CycleNames) \in Nat
    /\ CycleSet = {CycleNames[i] : i \in 1..Len(CycleNames)}
    /\ DOMAIN CycleNames = 1..Len(CycleNames)
<1>1. Len(CycleNames) \in Nat /\ DOMAIN CycleNames = 1..Len(CycleNames)
  BY AssignmentConstants, Elements, Zenon
<1>2. CycleSet = {CycleNames[i] : i \in DOMAIN CycleNames}
  BY Zenon DEF CycleSet, Range
<1> QED
  BY <1>1, <1>2, Zenon

LEMMA SchedulesAllOrNone ==
    ASSUME CycleSet \cap PlanNames = {}, NEW s \in Structure, NEW amount, NEW due
    PROVE  AllOrNone(Schedule(s)) /\ AllOrNone(CycleSchedule(amount, due))
<1>1. AllOrNone(Schedule(s))
  BY ScheduleInstallments DEF AllOrNone
<1>2. \A n \in CycleSet : \E i \in DOMAIN CycleSchedule(amount, due) :
                             CycleSchedule(amount, due)[i].name = n
  <2> SUFFICES ASSUME NEW n \in CycleSet
               PROVE  \E i \in DOMAIN CycleSchedule(amount, due) :
                         CycleSchedule(amount, due)[i].name = n
    OBVIOUS
  <2>1. PICK i \in 1..Len(CycleNames) : CycleNames[i] = n
    BY CycleElements
  <2> QED
    BY <2>1, CycleRow
<1> QED
  BY <1>1, <1>2 DEF AllOrNone

LEMMA MissingWhole ==
    ASSUME NEW who, NEW plans, \A id \in DOMAIN plans : AllOrNone(plans[id])
    PROVE  \A k \in DOMAIN Missing(who, plans) :
              Whole(k, DOMAIN ledger \cup DOMAIN Missing(who, plans))
<1> DEFINE named(id) == {plans[id][i].name : i \in DOMAIN plans[id]}
           ids == {k \in LedgerIds : /\ k.student \in who
                                     /\ k.structure \in DOMAIN plans
                                     /\ k \notin DOMAIN ledger}
           new == {k \in ids : k.name \in named(k.structure)}
<1>1. Missing(who, plans) = [k \in new |-> RowFor(plans[k.structure], k.name)]
  BY Zenon DEF Missing
<1>2. DOMAIN Missing(who, plans) = new
  <2> HIDE DEF new
  <2> QED BY <1>1
<1>3. ASSUME NEW k \in new, k.name \in CycleSet, NEW n \in CycleSet
      PROVE  At(k, n) \in DOMAIN ledger \cup new
  <2>1. /\ k \in LedgerIds /\ k.structure \in DOMAIN plans /\ k.student \in who
        /\ \E i \in DOMAIN plans[k.structure] : plans[k.structure][i].name = k.name
    OBVIOUS
  <2>2. PICK q : q = At(k, n)
    OBVIOUS
  <2>3. q \in LedgerIds /\ q.student = k.student /\ q.structure = k.structure /\ q.name = n
    BY <2>1, <2>2 DEF LedgerIds, At, Names, CycleSet
  <2>4. \E i \in DOMAIN plans[k.structure] : plans[k.structure][i].name = n
    BY <1>3, <2>1 DEF AllOrNone
  <2>5. n \in named(q.structure)
    BY <2>3, <2>4
  <2>6. q \in DOMAIN ledger \/ q \in new
    BY <2>1, <2>3, <2>5
  <2> QED
    BY <2>2, <2>6
<1> HIDE DEF new
<1> QED
  BY <1>2, <1>3 DEF Whole

(* Each request that adds ledgers adds whole cycles.                       *)
LEMMA GenerateWhole ==
    ASSUME CycleSet \cap PlanNames = {},
           Payments!Partial(structure, StructureIds, Structure), NEW j \in Jobs,
           NEW std \in Standards, NEW custom \in Custom, GenerateLedger(j, std, custom)
    PROVE  \E work : /\ Begin(j, work)
                     /\ \A k \in DOMAIN work.add : Whole(k, DOMAIN ledger \cup DOMAIN work.add)
<1>1. PICK D \in SUBSET CustomHeads : custom \in [D -> Terms]
  BY Zenon DEF Custom
<1>2. PICK items : items = [slot \in {std} \X DOMAIN custom |-> custom[slot[2]]]
  OBVIOUS
<1>3. {std} \X D \subseteq Slots /\ items \in [{std} \X D -> Terms]
  <2>1. D \subseteq Heads /\ DOMAIN custom = D
    BY <1>1, AssignmentConstants
  <2>2. {std} \X D \subseteq Slots
    BY <2>1 DEF Slots
  <2>3. \A slot \in {std} \X D : custom[slot[2]] \in Terms
    BY <1>1
  <2> QED
    BY <1>2, <2>1, <2>2, <2>3
<1>4. PICK rows : rows = Written(j, items)
  OBVIOUS
<1>5. Payments!Partial(rows, StructureIds, Structure)
  BY <1>3, <1>4, WrittenRows
<1>6. PICK offered : offered = Upsert(structure, rows)
  OBVIOUS
<1>7. \A id \in DOMAIN offered : offered[id] \in Structure
  <2>1. DOMAIN offered = DOMAIN structure \cup DOMAIN rows
        /\ \A id \in DOMAIN offered :
              offered[id] = IF id \in DOMAIN rows THEN rows[id] ELSE structure[id]
    BY <1>6 DEF Upsert
  <2>2. /\ \A id \in DOMAIN rows : rows[id] \in Structure
        /\ \A id \in DOMAIN structure : structure[id] \in Structure
    BY <1>5 DEF Payments!Partial
  <2> QED
    BY <2>1, <2>2
<1>8. PICK plans : plans = [id \in {x \in DOMAIN offered : offered[x].slot[1] = std} |->
                             Schedule(offered[id])]
  OBVIOUS
<1>9. \A id \in DOMAIN plans : AllOrNone(plans[id])
  BY <1>7, <1>8, SchedulesAllOrNone
<1>10. PICK who : who = {s \in Students : ClassOf[s] = std}
  OBVIOUS
<1>11. PICK add : add = Missing(who, plans)
  OBVIOUS
<1>12. PICK work : work = [Write(j, rows) EXCEPT !.add = add]
  OBVIOUS
<1>13. Begin(j, work)
  BY <1>2, <1>4, <1>6, <1>8, <1>10, <1>11, <1>12, Zenon DEF GenerateLedger
<1>14. work.add = add
  <2>1. PICK seen, no : /\ seen = Restrict(structure, DOMAIN rows \cap DOMAIN structure)
                         /\ no = FALSE
    OBVIOUS
  <2>2. Write(j, rows) = [state |-> "open", put |-> rows, add |-> None, drop |-> {},
                           seen |-> seen, confirmed |-> no, sync |-> None]
    BY <2>1, WriteFields, Zenon
  <2> QED
    BY <1>12, <2>2
<1>15. \A k \in DOMAIN add : Whole(k, DOMAIN ledger \cup DOMAIN add)
  BY <1>9, <1>11, MissingWhole
<1> QED
  BY <1>13, <1>14, <1>15

LEMMA StudentWhole ==
    ASSUME CycleSet \cap PlanNames = {},
           Payments!Partial(structure, StructureIds, Structure), NEW j \in Jobs,
           NEW s \in Students, NEW cycle \in BOOLEAN, GenerateStudentLedger(j, s, cycle)
    PROVE  \E work : /\ Begin(j, work)
                     /\ \A k \in DOMAIN work.add : Whole(k, DOMAIN ledger \cup DOMAIN work.add)
<1> DEFINE plan(id) == IF cycle THEN CycleSchedule(structure[id].amount, structure[id].due)
                       ELSE Schedule(structure[id])
<1>1. PICK plans : plans = [id \in {x \in DOMAIN structure :
                                      structure[x].slot[1] = ClassOf[s]} |-> plan(id)]
  OBVIOUS
<1>2. PICK who, add : who = {s} /\ add = Missing(who, plans)
  OBVIOUS
<1>3. PICK work : work = [Quiet EXCEPT !.state = "open", !.add = add]
  OBVIOUS
<1>4. Begin(j, work)
  BY <1>1, <1>2, <1>3, Zenon DEF GenerateStudentLedger
<1>5. ASSUME NEW id \in DOMAIN plans PROVE AllOrNone(plans[id])
  <2>1. id \in DOMAIN structure /\ plans[id] = plan(id)
    BY <1>1
  <2>2. structure[id] \in Structure
    BY <2>1 DEF Payments!Partial
  <2> QED
    BY <2>1, <2>2, SchedulesAllOrNone
<1>6. work.add = add
  <2>1. PICK no : no = FALSE
    OBVIOUS
  <2>2. Quiet = [state |-> "new", seen |-> None, put |-> None, add |-> None,
                 drop |-> {}, confirmed |-> no, sync |-> None]
    BY <2>1, Zenon DEF Quiet
  <2> QED
    BY <1>3, <2>2
<1>7. \A k \in DOMAIN add : Whole(k, DOMAIN ledger \cup DOMAIN add)
  <2> HIDE DEF plan
  <2> QED BY <1>2, <1>5, MissingWhole
<1> QED
  BY <1>4, <1>6, <1>7

(* The other requests that begin add no ledger.                            *)
LEMMA OthersAddNone ==
    ASSUME NEW j \in Jobs,
           \/ \E items \in Items : CreateStructures(j, items)
           \/ \E id \in DOMAIN structure, everywhere \in BOOLEAN, terms \in Terms,
                 head \in Heads, fields \in SUBSET {"amount", "due", "plan", "head"} :
                 UpdateStructure(j, id, everywhere, terms, head, fields)
           \/ \E id \in DOMAIN structure, confirmed \in BOOLEAN : DeleteStructure(j, id, confirmed)
    PROVE  \E work : Begin(j, work) /\ DOMAIN work.add = {}
<1>0. DOMAIN None = {}
  BY EmptyTable
<1>1. ASSUME NEW rows PROVE Write(j, rows).add = None
                            /\ [Write(j, rows) EXCEPT !.state = "sync"].add = None
  <2>1. PICK seen, no : /\ seen = Restrict(structure, DOMAIN rows \cap DOMAIN structure)
                         /\ no = FALSE
    OBVIOUS
  <2>2. Write(j, rows) = [state |-> "open", put |-> rows, add |-> None, drop |-> {},
                           seen |-> seen, confirmed |-> no, sync |-> None]
    BY <2>1, WriteFields, Zenon
  <2> QED
    BY <2>2
<1>2. ASSUME NEW items, CreateStructures(j, items)
      PROVE  \E work : Begin(j, work) /\ DOMAIN work.add = {}
  <2>1. Begin(j, Write(j, Written(j, items)))
    BY <1>2, Zenon DEF CreateStructures
  <2>2. DOMAIN Write(j, Written(j, items)).add = {}
    BY <1>0, <1>1
  <2> QED
    BY <2>1, <2>2, Zenon
<1>3. ASSUME NEW id, NEW everywhere, NEW terms, NEW head, NEW fields,
             UpdateStructure(j, id, everywhere, terms, head, fields)
      PROVE  \E work : Begin(j, work) /\ DOMAIN work.add = {}
  <2>1. PICK rows : Begin(j, [Write(j, rows) EXCEPT !.state = "sync"])
    BY <1>3, Zenon DEF UpdateStructure
  <2>2. DOMAIN [Write(j, rows) EXCEPT !.state = "sync"].add = {}
    BY <1>0, <1>1
  <2> QED
    BY <2>1, <2>2, Zenon
<1>4. ASSUME NEW id, NEW confirmed, DeleteStructure(j, id, confirmed)
      PROVE  \E work : Begin(j, work) /\ DOMAIN work.add = {}
  <2>1. PICK work : work = [Quiet EXCEPT !.state = "open", !.drop = {id}, !.confirmed = confirmed]
    OBVIOUS
  <2>2. Begin(j, work)
    BY <1>4, <2>1 DEF DeleteStructure
  <2>3. work.add = None
    <3>1. PICK no, sure : no = FALSE /\ sure = confirmed
      OBVIOUS
    <3>2. Quiet = [state |-> "new", seen |-> None, put |-> None, add |-> None,
                   drop |-> {}, confirmed |-> no, sync |-> None]
      BY <3>1, Zenon DEF Quiet
    <3>3. work = [Quiet EXCEPT !.state = "open", !.drop = {id}, !.confirmed = sure]
      BY <2>1, <3>1, Zenon
    <3> QED
      BY <3>2, <3>3
  <2> QED
    BY <1>0, <2>2, <2>3
<1> QED
  BY <1>2, <1>3, <1>4

LEMMA BeginsWhole ==
    ASSUME CycleSet \cap PlanNames = {}, TypeOK, NEW j \in Jobs, Assign(j)
    PROVE  \/ \E work : /\ Begin(j, work)
                        /\ \A k \in DOMAIN work.add :
                              Whole(k, DOMAIN ledger \cup DOMAIN work.add)
           \/ SyncLedgers(j)
           \/ CommitJob(j)
           \/ AbortJob(j)
<1>1. Payments!Partial(structure, StructureIds, Structure)
  BY DEF TypeOK
<1>2. ASSUME NEW std \in Standards, NEW custom \in Custom, GenerateLedger(j, std, custom)
      PROVE  \E work : /\ Begin(j, work)
                       /\ \A k \in DOMAIN work.add : Whole(k, DOMAIN ledger \cup DOMAIN work.add)
  BY <1>1, <1>2, GenerateWhole
<1>3. ASSUME NEW s \in Students, NEW cycle \in BOOLEAN, GenerateStudentLedger(j, s, cycle)
      PROVE  \E work : /\ Begin(j, work)
                       /\ \A k \in DOMAIN work.add : Whole(k, DOMAIN ledger \cup DOMAIN work.add)
  BY <1>1, <1>3, StudentWhole
<1>4. CASE \/ \E items \in Items : CreateStructures(j, items)
           \/ \E id \in DOMAIN structure, everywhere \in BOOLEAN, terms \in Terms,
                 head \in Heads, fields \in SUBSET {"amount", "due", "plan", "head"} :
                 UpdateStructure(j, id, everywhere, terms, head, fields)
           \/ \E id \in DOMAIN structure, confirmed \in BOOLEAN : DeleteStructure(j, id, confirmed)
  <2>1. PICK work : Begin(j, work) /\ DOMAIN work.add = {}
    BY <1>4, OthersAddNone
  <2> QED
    BY <2>1
<1> QED
  BY <1>2, <1>3, <1>4, Zenon DEF Assign

(* With the same ledgers, only the request that moved has to be looked at. *)
LEMMA WholeJobOnly ==
    ASSUME WholeInv, TypeOK, NEW j \in Jobs, NEW work, job' = [job EXCEPT ![j] = work],
           DOMAIN ledger' = DOMAIN ledger,
           work.state \in {"sync", "open"} =>
              \A k \in DOMAIN work.add : Whole(k, DOMAIN ledger \cup DOMAIN work.add)
    PROVE  WholeInv'
<1>1. DOMAIN job = Jobs /\ job'[j] = work /\ \A q \in Jobs : q # j => job'[q] = job[q]
  BY DEF TypeOK
<1>2. ASSUME NEW q \in Jobs, Busy(q)'
      PROVE  \A k \in DOMAIN job'[q].add : Whole(k, DOMAIN ledger \cup DOMAIN job'[q].add)
  BY <1>1, <1>2 DEF WholeInv, Busy
<1> QED
  BY <1>2 DEF WholeInv, Whole

LEMMA WholeCommit ==
    ASSUME WholeInv, SerialInv, NEW j \in Jobs, CommitJob(j)
    PROVE  WholeInv'
<1>1. /\ TypeOK /\ JobSound(j) /\ DOMAIN job = Jobs
  BY DEF SerialInv, Inv, TypeOK
<1>2. job[j].state = "open" /\ job' = [job EXCEPT ![j] = Finished]
  BY Zenon DEF CommitJob
<1>3. \A q \in Jobs : ~ Busy(q)'
  <2>1. \A q \in Jobs : Busy(q) => q = j
    BY <1>2, Lone DEF SerialInv, OneAtATime, Busy
  <2>2. job'[j].state = "done" /\ \A q \in Jobs : q # j => job'[q] = job[q]
    BY <1>1, <1>2, QuietRecords
  <2> QED
    BY <2>1, <2>2 DEF Busy
<1>4. /\ DOMAIN structure' = (DOMAIN structure \cup DOMAIN job[j].put) \ job[j].drop
      /\ DOMAIN ledger' = KeptLedgers(j) \cup (DOMAIN job[j].add \ DOMAIN ledger)
      /\ \A k \in DOMAIN job[j].add \ DOMAIN ledger :
            k \in LedgerIds /\ k.structure \in DOMAIN structure'
  BY <1>1, <1>2, CommittedStructures, CommittedLedgers
<1>5. \A k, n : At(k, n).structure = k.structure
  BY DEF At
<1>6. ASSUME NEW k \in DOMAIN ledger', k.name \in CycleSet, NEW n \in CycleSet
      PROVE  At(k, n) \in DOMAIN ledger'
  <2>1. CASE k \in KeptLedgers(j)
    <3>1. k \in DOMAIN ledger /\ k.structure \notin job[j].drop
      BY <2>1 DEF KeptLedgers
    <3>2. At(k, n) \in DOMAIN ledger
      BY <1>6, <3>1 DEF WholeInv, Whole
    <3> QED
      BY <1>4, <1>5, <3>1, <3>2 DEF KeptLedgers
  <2>2. CASE k \in DOMAIN job[j].add \ DOMAIN ledger
    <3>1. At(k, n) \in DOMAIN ledger \cup DOMAIN job[j].add
      BY <1>2, <1>6, <2>2 DEF WholeInv, Whole, Busy
    <3>2. k.structure \notin job[j].drop
      BY <1>4, <2>2
    <3> QED
      BY <1>4, <1>5, <3>1, <3>2 DEF KeptLedgers
  <2> QED
    BY <1>4, <2>1, <2>2
<1> QED
  BY <1>3, <1>6 DEF WholeInv, Whole

LEMMA WholeStep ==
    ASSUME CycleSet \cap PlanNames = {}, WholeInv, SerialInv, SerialInv', Inv',
           [Next /\ OneAtATime']_vars
    PROVE  WholeInv'
<1>0. TypeOK /\ DOMAIN job = Jobs
  BY DEF SerialInv, Inv, TypeOK
<1>1. ASSUME NEW j \in Jobs, NEW work, Begin(j, work),
             \A k \in DOMAIN work.add : Whole(k, DOMAIN ledger \cup DOMAIN work.add)
      PROVE  WholeInv'
  BY <1>0, <1>1, WholeJobOnly DEF Begin
<1>2. ASSUME NEW j \in Jobs, SyncLedgers(j) PROVE WholeInv'
  <2>1. job[j].state = "sync" /\ ledger' = ledger
    BY <1>2, Zenon DEF SyncLedgers
  <2>2. PICK work : job' = [job EXCEPT ![j] = work] /\ work.add = job[j].add
    BY <1>0, <1>2, SyncedJob
  <2>3. \A k \in DOMAIN work.add : Whole(k, DOMAIN ledger \cup DOMAIN work.add)
    BY <2>1, <2>2 DEF WholeInv, Busy
  <2> QED
    BY <1>0, <2>1, <2>2, <2>3, WholeJobOnly
<1>3. ASSUME NEW j \in Jobs, CommitJob(j) PROVE WholeInv'
  BY <1>3, WholeCommit
<1>4. ASSUME NEW j \in Jobs, AbortJob(j) PROVE WholeInv'
  <2>1. job' = [job EXCEPT ![j] = Finished] /\ ledger' = ledger
    BY <1>4 DEF AbortJob
  <2> QED
    BY <1>0, <2>1, QuietRecords, WholeJobOnly
<1>5. ASSUME Payments!Next, UNCHANGED assignmentVars, OneAtATime' PROVE WholeInv'
  <2>1. DOMAIN ledger' = DOMAIN ledger /\ job' = job
    BY <1>5, SerialPayment DEF assignmentVars
  <2> QED
    BY <2>1 DEF WholeInv, Whole, Busy
<1>6. CASE UNCHANGED vars
  BY <1>6 DEF WholeInv, Whole, Busy, vars
<1> QED
  BY <1>0, <1>1, <1>2, <1>3, <1>4, <1>5, <1>6, BeginsWhole DEF Next

(* While requests do not overlap and no plan uses a name of the payment    *)
(* cycle, a student is billed whole cycles.                                *)
THEOREM CyclesWhole ==
    ASSUME Range(CycleNames) \cap PlanNames = {}
    PROVE  SerialSpec => []WholeInv
<1>1. Init => WholeInv
  <2> SUFFICES ASSUME Init PROVE WholeInv
    OBVIOUS
  <2>1. \A j \in Jobs : job[j].state = "new"
    <3>1. Quiet.state = "new"
      BY QuietRecords
    <3> QED
      BY <3>1 DEF Init
  <2>2. DOMAIN ledger = {}
    BY EmptyTable DEF Init
  <2> QED
    BY <2>1, <2>2 DEF WholeInv, Busy
<1>2. WholeInv /\ SerialInv /\ SerialInv' /\ Inv' /\ [Next /\ OneAtATime']_vars => WholeInv'
  BY WholeStep DEF CycleSet
<1> QED
  BY <1>1, <1>2, SerialInvariant, PTL DEF SerialSpec

(* The sum over the ledgers that a set names, as a total.                  *)
Bill(rows) == [k \in DOMAIN rows |-> rows[k].total]

LEMMA BilledIs ==
    ASSUME NEW K, IsFiniteSet(K), K \subseteq DOMAIN ledger
    PROVE  MapThenSumSet(LAMBDA k : ledger[k].total, K) = Total(Bill(ledger), K)
<1> DEFINE sums(it) == [s \in SUBSET K |->
               IF s = {} THEN 0 ELSE ledger[First(s)].total + it[s \ {First(s)}]]
           j == CHOOSE it : it = sums(it)
<1>1. \A s \in SUBSET K : s # {} => Bill(ledger)[First(s)] = ledger[First(s)].total
  BY FirstIn DEF Bill
<1>2. \A it : Partials(Bill(ledger), it, K) <=> it = sums(it)
  <2> TAKE it
  <2>1. sums(it) = [s \in SUBSET K |->
               IF s = {} THEN 0 ELSE Bill(ledger)[First(s)] + it[s \ {First(s)}]]
    BY <1>1
  <2> HIDE DEF sums
  <2> QED BY <2>1 DEF Partials
<1>3. \E it : it = sums(it)
  <2> HIDE DEF sums
  <2> QED BY <1>2, PartialsExist
<1>4. j = sums(j)
  <2> HIDE DEF sums
  <2> QED BY <1>3, Zenon
<1>5. Partials(Bill(ledger), j, K)
  <2> HIDE DEF sums, j
  <2> QED BY <1>2, <1>4
<1>6. Total(Bill(ledger), K) = j[K]
  <2> HIDE DEF j
  <2> QED BY <1>5, TotalIs
<1>7. MapThenSumSet(LAMBDA k : ledger[k].total, K) = j[K]
  BY DEF MapThenSumSet, MapThenFoldSet, First
<1> QED
  BY <1>6, <1>7

(* A cycle that is billed as it should be adds up to the price.            *)
LEMMA CycleAddsUp ==
    ASSUME TypeOK, WholeInv, BilledByStructure,
           \A i, m \in 1..Len(CycleNames) : CycleNames[i] = CycleNames[m] => i = m,
           NEW id \in DOMAIN structure, NEW s \in Students, NEW rows,
           rows = {k \in LedgersOf(id) : k.student = s /\ k.name \in CycleSet}, rows # {}
    PROVE  MapThenSumSet(LAMBDA k : ledger[k].total, rows) = structure[id].amount
<1> DEFINE at(i) == [student |-> s, structure |-> id, name |-> CycleNames[i]]
<1>1. PICK n, amount, due : /\ n = Len(CycleNames)
                            /\ amount = structure[id].amount /\ due = structure[id].due
  OBVIOUS
<1>2. PICK share, last : share = RoundedShare(amount, n) /\ last = amount - (n - 1) * share
  OBVIOUS
<1>3. /\ n \in Nat /\ CycleSet = {CycleNames[i] : i \in 1..n}
      /\ \A i, m \in 1..n : CycleNames[i] = CycleNames[m] => i = m
  BY <1>1, CycleElements
<1>4. amount \in Nat
  <2>1. structure[id] \in Structure
    BY DEF TypeOK, Payments!Partial
  <2> QED
    BY <1>1, <2>1, AssignmentConstants DEF Structure
<1>5. DOMAIN ledger \subseteq LedgerIds
  BY SameTypes DEF TypeOK, Pay!TypeOK, Pay!Partial
<1>6. rows \subseteq {at(i) : i \in 1..n}
  <2> SUFFICES ASSUME NEW k \in rows PROVE \E i \in 1..n : k = at(i)
    OBVIOUS
  <2>1. k \in LedgerIds /\ k.structure = id /\ k.student = s /\ k.name \in CycleSet
    BY <1>5 DEF LedgersOf
  <2>2. PICK i \in 1..n : k.name = CycleNames[i]
    BY <1>3, <2>1
  <2>3. k = [student |-> k.student, structure |-> k.structure, name |-> k.name]
    BY <2>1 DEF LedgerIds
  <2> QED
    BY <2>1, <2>2, <2>3
<1>7. \A i \in 1..n : at(i) \in rows
  <2> SUFFICES ASSUME NEW i \in 1..n PROVE at(i) \in rows
    OBVIOUS
  <2>1. PICK k \in rows : k \in DOMAIN ledger /\ k.structure = id /\ k.student = s
                          /\ k.name \in CycleSet
    BY DEF LedgersOf
  <2>2. CycleNames[i] \in CycleSet
    BY <1>3
  <2>3. At(k, CycleNames[i]) \in DOMAIN ledger
    BY <2>1, <2>2 DEF WholeInv, Whole
  <2>4. at(i) \in DOMAIN ledger
    BY <2>1, <2>3 DEF At
  <2> QED
    BY <2>2, <2>4 DEF LedgersOf
<1>8. n # 0
  BY <1>3, <1>6
<1>9. ASSUME NEW i \in 1..n PROVE ledger[at(i)].total = IF i = n THEN last ELSE share
  <2>1. PICK k : k = at(i)
    OBVIOUS
  <2>2. k \in DOMAIN ledger /\ k.structure = id /\ k.name = CycleNames[i] /\ k.name \in CycleSet
    BY <1>7, <2>1 DEF LedgersOf
  <2>3. \E m \in DOMAIN CycleSchedule(amount, due) :
           /\ CycleSchedule(amount, due)[m].name = k.name
           /\ CycleSchedule(amount, due)[m].amount = ledger[k].total
    BY <1>1, <2>2 DEF BilledByStructure, CycleSet
  <2>4. PICK m \in 1..n : /\ CycleSchedule(amount, due)[m].name = k.name
                          /\ CycleSchedule(amount, due)[m].amount = ledger[k].total
    BY <1>1, <2>3, CycleRow
  <2>5. CycleSchedule(amount, due)[m].name = CycleNames[m]
        /\ CycleSchedule(amount, due)[m].amount = IF m = n THEN last ELSE share
    BY <1>1, <1>2, CycleRow
  <2>6. m = i
    BY <1>3, <2>2, <2>4, <2>5
  <2> QED
    BY <2>1, <2>4, <2>5, <2>6
<1>10. \A i, m \in 1..n : at(i) = at(m) => i = m
  BY <1>3
<1>11. PICK R : R = {at(i) : i \in 1..(n-1)}
  OBVIOUS
<1>12. IsFiniteSet(R) /\ Cardinality(R) = n - 1
  <2>1. PICK f : f = [i \in 1..(n-1) |-> at(i)]
    OBVIOUS
  <2>2. f \in Bijection(1..(n-1), R)
    <3>1. f \in [1..(n-1) -> R]
      BY <1>11, <2>1
    <3>2. \A x \in R : \E i \in 1..(n-1) : f[i] = x
      BY <1>11, <2>1
    <3>3. \A i, m \in 1..(n-1) : f[i] = f[m] => i = m
      BY <1>3, <1>8, <1>10, <2>1
    <3> QED
      BY <3>1, <3>2, <3>3 DEF Bijection, Injection, Surjection, IsInjective
  <2>3. IsFiniteSet(1..(n-1)) /\ Cardinality(1..(n-1)) = n - 1
    BY <1>3, <1>8, FS_Interval
  <2> QED
    BY <2>2, <2>3, FS_Bijection DEF ExistsBijection
<1>13. rows = R \cup {at(n)} /\ at(n) \notin R /\ R \subseteq rows
  <2>1. 1..n = 1..(n-1) \cup {n} /\ n \notin 1..(n-1)
    BY <1>3, <1>8
  <2>2. n \in 1..n /\ 1..(n-1) \subseteq 1..n
    BY <1>3, <1>8
  <2>3. at(n) \notin R
    <3> HIDE DEF at
    <3> QED BY <1>10, <1>11, <2>1, <2>2
  <2>4. R \cup {at(n)} \subseteq rows
    BY <1>7, <1>11, <2>2
  <2>5. rows \subseteq R \cup {at(n)}
    BY <1>6, <1>11, <2>1
  <2> QED
    BY <2>3, <2>4, <2>5
<1>14. share \in Nat /\ last \in Int /\ (n - 1) * share \in Int
  <2>1. share \in Nat
    BY <1>2, <1>3, <1>4, <1>8, SharesRound
  <2> QED
    BY <1>2, <1>3, <1>4, <2>1
<1>15. PICK g : g = Bill(ledger)
  OBVIOUS
<1>16. /\ \A x \in R : g[x] = share
       /\ g[at(n)] = last
  <2>0. \A k \in rows : k \in DOMAIN ledger /\ g[k] = ledger[k].total
    BY <1>15 DEF Bill, LedgersOf
  <2>1. ASSUME NEW i \in 1..(n-1) PROVE g[at(i)] = share
    <3>1. i \in 1..n /\ i # n
      BY <1>3, <1>8
    <3> QED
      BY <1>7, <1>9, <2>0, <3>1
  <2>2. g[at(n)] = last
    BY <1>3, <1>7, <1>8, <1>9, <2>0
  <2>3. ASSUME NEW x \in R PROVE g[x] = share
    <3>1. PICK i \in 1..(n-1) : x = at(i)
      BY <1>11
    <3> QED
      BY <2>1, <3>1
  <2> HIDE DEF at
  <2> QED
    BY <2>2, <2>3
<1>17. Total(g, R) = (n - 1) * share
  <2>1. share \in Int /\ \A x \in R : g[x] = share
    BY <1>14, <1>16
  <2>2. Total(g, R) = Cardinality(R) * share
    BY <1>12, <2>1, TotalEqual
  <2> QED
    BY <1>12, <2>2
<1>18. Total(g, rows) = last + (n - 1) * share
  <2>1. PICK x : x = at(n)
    OBVIOUS
  <2>2. \A y \in R \cup {x} : g[y] \in Int
    BY <1>14, <1>16, <2>1
  <2>3. Total(g, R \cup {x}) = g[x] + Total(g, R)
    BY <1>12, <1>13, <2>1, <2>2, TotalAdd
  <2> QED
    BY <1>13, <1>16, <1>17, <2>1, <2>3
<1>19. last + (n - 1) * share = amount
  <2>1. PICK m : m = (n - 1) * share
    OBVIOUS
  <2> QED
    BY <1>2, <1>4, <1>14, <2>1
<1>20. IsFiniteSet(rows) /\ rows \subseteq DOMAIN ledger
  <2>1. IsFiniteSet(R \cup {at(n)})
    BY <1>12, FS_AddElement
  <2> QED
    BY <1>13, <2>1 DEF LedgersOf
<1>21. MapThenSumSet(LAMBDA k : ledger[k].total, rows) = Total(g, rows)
  BY <1>15, <1>20, BilledIs
<1> QED
  BY <1>1, <1>18, <1>19, <1>21

(* While requests do not overlap, no custom head comes along with a        *)
(* generation, and the names of the cycle are distinct and in no plan, the *)
(* ledgers of a structure add up to its price and to their payments.       *)
THEOREM LedgersSum ==
    ASSUME CustomHeads = {}, Range(CycleNames) \cap PlanNames = {},
           \A i, m \in 1..Len(CycleNames) : CycleNames[i] = CycleNames[m] => i = m
    PROVE  SerialSpec => []LedgersAddUp
<1>1. SerialInv /\ WholeInv /\ BilledByStructure => LedgersAddUp
  <2> SUFFICES ASSUME SerialInv, WholeInv, BilledByStructure,
                      NEW id \in DOMAIN structure, NEW s \in Students,
                      NEW rows,
                      rows = {k \in LedgersOf(id) : k.student = s /\ k.name \in Range(CycleNames)},
                      rows # {}
               PROVE  MapThenSumSet(LAMBDA k : ledger[k].total, rows) = structure[id].amount
    BY Zenon DEF LedgersAddUp, SerialInv
  <2>1. TypeOK
    BY DEF SerialInv, Inv
  <2> QED
    BY <2>1, CycleAddsUp DEF CycleSet
<1>2. SerialSpec => []BilledByStructure
  BY LedgersBilled
<1> QED
  BY <1>1, <1>2, CyclesWhole, SerialInvariant, PTL
=============================================================================
