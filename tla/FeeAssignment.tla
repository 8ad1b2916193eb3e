--------------------------- MODULE FeeAssignment ---------------------------
(***************************************************************************)
(* Fee structures of one academic year and the ledgers generated from      *)
(* them (create_structures_batch, update_structure, delete_structure,      *)
(* generate_ledger, generate_student_ledger of src/app/services/fee.py),   *)
(* together with the payments of FeeLedger on those ledgers.               *)
(*                                                                         *)
(* An administrator's request is a job: it reads and checks, then commits  *)
(* or rolls back, with other jobs and payments in between.                 *)
(***************************************************************************)
EXTENDS Integers, Sequences, FiniteSets, FiniteSetsExt, Functions

CONSTANTS Students, Standards,
          ClassOf,       \* [Students -> Standards]
          Heads,         \* custom_fee_head values of one fee_category
          CustomHeads,   \* those generate_ledger may bring along
          Prices,        \* amounts of a structure
          Plans,         \* installment plans, <<>> for none
          CycleNames,    \* "Month 1".. or "Quarter 1".. for payment_cycle
          PlanNames,     \* installment names used in Plans, and ""
          Jobs, Requests, Amounts, MaxDay

VARIABLES structure,     \* committed fee_structures rows, by id
          job,           \* what each administrator request is about to do
          ledger, receipts, today, tx

Slots == Standards \X Heads
StructureIds == Jobs \X Slots         \* a fresh uuid: who created it, as what
Names == PlanNames \cup Range(CycleNames)
LedgerIds == [student : Students, structure : StructureIds, name : Names]

Payments == INSTANCE FeeLedger
               WITH Ledgers <- LedgerIds, Totals <- Prices,
                    Owner <- [k \in LedgerIds |-> k.student]

assignmentVars == <<structure, job>>
vars == <<structure, job, ledger, receipts, today, tx>>

Day == 0..MaxDay
Terms == [amount : Prices, due : Day, plan : Plans]
Structure == [slot : Slots, amount : Prices, due : Day, plan : Plans]

ASSUME AssignmentConstants ==
    /\ ClassOf \in [Students -> Standards]
    /\ CustomHeads \subseteq Heads
    /\ Prices \subseteq Nat \ {0}
    /\ "" \in PlanNames
    /\ CycleNames \in Seq(STRING)
    /\ Plans \subseteq Seq([name : PlanNames, amount : Nat, due : Day])
    /\ Amounts \subseteq Nat \ {0}
    /\ MaxDay \in Nat
    /\ IsFiniteSet(Jobs) /\ IsFiniteSet(Requests)

None == [k \in {} |-> 0]
Quiet == [state |-> "new", seen |-> None, put |-> None, add |-> None,
          drop |-> {}, confirmed |-> FALSE, sync |-> None]
Finished == [Quiet EXCEPT !.state = "done"]

LedgersOf(id) == {k \in DOMAIN ledger : k.structure = id}
InSlot(table, slot) == {id \in DOMAIN table : table[id].slot = slot}
Upsert(table, rows) == [id \in DOMAIN table \cup DOMAIN rows |->
                          IF id \in DOMAIN rows THEN rows[id] ELSE table[id]]
-----------------------------------------------------------------------------
(* Installment schedules.                                                  *)

(* round(total / count, 2) in paise; a half goes to the even neighbour.    *)
RoundedShare(total, count) ==
    LET half == (2 * total + count) \div (2 * count)
        tie == (2 * total + count) % (2 * count) = 0
    IN  IF tie /\ half % 2 = 1 THEN half - 1 ELSE half

(* Mutants of CycleSchedule: equal shares without a remainder, and one     *)
(* share too many taken off the last installment.                          *)
CycleNoRemainder(amount, due) ==
    LET n == Len(CycleNames)
    IN  [i \in 1..n |-> [name |-> CycleNames[i], amount |-> RoundedShare(amount, n), due |-> due]]
CycleOffByOne(amount, due) ==
    LET n == Len(CycleNames)
        share == RoundedShare(amount, n)
    IN  [i \in 1..n |-> [name |-> CycleNames[i], due |-> due,
                        amount |-> IF i = n THEN amount - n * share ELSE share]]

(* payment_cycle: equal shares, the last one taking the remainder; the     *)
(* later due dates are cut off at the last day of the model.               *)
CycleSchedule(amount, due) ==
    LET n == Len(CycleNames)
        share == RoundedShare(amount, n)
    IN  [i \in 1..n |->
           [name |-> CycleNames[i],
            amount |-> IF i = n THEN amount - (n - 1) * share ELSE share,
            due |-> IF due + i - 1 <= MaxDay THEN due + i - 1 ELSE MaxDay]]

(* Prices are far above one paisa an installment, or the last installment  *)
(* would be negative.                                                      *)
ASSUME CycleShares ==
    LET n == Len(CycleNames)
    IN  n > 0 => \A amount \in Prices : (n - 1) * RoundedShare(amount, n) <= amount

Schedule(s) == IF s.plan # <<>> THEN s.plan
               ELSE <<[name |-> "", amount |-> s.amount, due |-> s.due]>>

(* Of two installments with one name only the first finds no duplicate.    *)
FirstNamed(plan, n) == plan[Min({i \in DOMAIN plan : plan[i].name = n})]
RowFor(plan, n) == Payments!NewRow(FirstNamed(plan, n).amount,
                                   FirstNamed(plan, n).due, today)

(* The rows a request will insert: for each student and structure, each    *)
(* installment name with no ledger yet.  plans gives each id its schedule. *)
Missing(who, plans) ==
    LET named(id) == {plans[id][i].name : i \in DOMAIN plans[id]}
        ids == {k \in LedgerIds : /\ k.student \in who
                                  /\ k.structure \in DOMAIN plans
                                  /\ k \notin DOMAIN ledger}
    IN  [k \in {k \in ids : k.name \in named(k.structure)} |->
            RowFor(plans[k.structure], k.name)]
-----------------------------------------------------------------------------
Begin(j, work) ==
    /\ job[j].state = "new"
    /\ job' = [job EXCEPT ![j] = work]
    /\ UNCHANGED <<structure, ledger, receipts, today, tx>>

(* The rows a request writes for the terms given for some slots: existing  *)
(* structures get the new terms, empty slots a new structure.              *)
Written(j, items) ==
    LET target(slot) == IF InSlot(structure, slot) # {}
                        THEN CHOOSE id \in InSlot(structure, slot) : TRUE
                        ELSE <<j, slot>>
    IN  [id \in {target(slot) : slot \in DOMAIN items} |->
           LET slot == CHOOSE x \in DOMAIN items : target(x) = id
           IN  [slot |-> slot, amount |-> items[slot].amount,
                due |-> items[slot].due, plan |-> items[slot].plan]]

Write(j, rows) == [Quiet EXCEPT !.state = "open", !.put = rows,
                   !.seen = Restrict(structure, DOMAIN rows \cap DOMAIN structure)]

(* Mutant of CreateStructures: an existing structure is overwritten.       *)
CreateOverAssigned(j, items) == Begin(j, Write(j, Written(j, items)))

CreateStructures(j, items) ==
    LET rows == Written(j, items)
    IN  /\ \A id \in DOMAIN rows : LedgersOf(id) = {}
        /\ Begin(j, Write(j, rows))

Edited(row, terms, head, fields) ==
    [slot |-> IF "head" \in fields THEN <<row.slot[1], head>> ELSE row.slot,
     amount |-> IF "amount" \in fields THEN terms.amount ELSE row.amount,
     due |-> IF "due" \in fields THEN terms.due ELSE row.due,
     plan |-> IF "plan" \in fields THEN terms.plan ELSE row.plan]

(* Mutant of UpdateStructure: ledgers are not counted.                     *)
UpdateUncounted(j, id, everywhere, terms, head, fields) ==
    /\ id \in DOMAIN structure
    /\ Begin(j, [Write(j, [t \in {id} |-> Edited(structure[t], terms, head, fields)])
                   EXCEPT !.state = "sync"])

(* With apply_to_all_classes, the structures of the same head in the other *)
(* classes are edited too.  The ledgers to synchronise are read later.     *)
UpdateStructure(j, id, everywhere, terms, head, fields) ==
    LET targets == {t \in DOMAIN structure :
                      \/ t = id
                      \/ everywhere /\ structure[t].slot[2] = structure[id].slot[2]}
    IN  /\ id \in DOMAIN structure
        /\ \A t \in targets : LedgersOf(t) = {}
        /\ Begin(j, [Write(j, [t \in targets |-> Edited(structure[t], terms, head, fields)])
                       EXCEPT !.state = "sync"])

(* _sync_ledgers_for_structure, after the count of ledgers was zero: it    *)
(* finds rows only if another request committed them in the meantime.      *)
SyncLedgers(j) ==
    LET unpaid == {k \in DOMAIN ledger : /\ k.structure \in DOMAIN job[j].put
                                         /\ ledger[k].paid = 0}
    IN  /\ job[j].state = "sync"
        /\ job' = [job EXCEPT ![j].state = "open",
                              ![j].sync = Restrict(ledger, unpaid)]
        /\ UNCHANGED <<structure, ledger, receipts, today, tx>>

(* Class-wide generation; custom maps a custom head to its terms, and its  *)
(* structure is created or updated first, without counting its ledgers.    *)
GenerateLedger(j, std, custom) ==
    LET rows == Written(j, [slot \in {std} \X DOMAIN custom |-> custom[slot[2]]])
        offered == Upsert(structure, rows)
        plans == [id \in {x \in DOMAIN offered : offered[x].slot[1] = std} |->
                    Schedule(offered[id])]
        who == {s \in Students : ClassOf[s] = std}
    IN  Begin(j, [Write(j, rows) EXCEPT !.add = Missing(who, plans)])

GenerateStudentLedger(j, s, cycle) ==
    LET plans == [id \in {x \in DOMAIN structure : structure[x].slot[1] = ClassOf[s]} |->
                    IF cycle THEN CycleSchedule(structure[id].amount, structure[id].due)
                    ELSE Schedule(structure[id])]
    IN  Begin(j, [Quiet EXCEPT !.state = "open", !.add = Missing({s}, plans)])

(* Mutant of DeleteStructure: linked ledgers go without confirmation.      *)
DeleteUnasked(j, id, confirmed) ==
    /\ id \in DOMAIN structure
    /\ Begin(j, [Quiet EXCEPT !.state = "open", !.drop = {id}, !.confirmed = confirmed])

DeleteStructure(j, id, confirmed) ==
    /\ id \in DOMAIN structure
    /\ LedgersOf(id) = {} \/ confirmed
    /\ Begin(j, [Quiet EXCEPT !.state = "open", !.drop = {id}, !.confirmed = confirmed])

(* A row written by a job carries only the columns the job changed.        *)
FlushedStructure(now, seen, new) ==
    [slot |-> Payments!Column(now.slot, seen.slot, new.slot),
     amount |-> Payments!Column(now.amount, seen.amount, new.amount),
     due |-> Payments!Column(now.due, seen.due, new.due),
     plan |-> Payments!Column(now.plan, seen.plan, new.plan)]

(* structures after job j, before and after its deletion                   *)
Saved(j) ==
    Upsert(structure,
           [id \in DOMAIN job[j].put |->
              IF id \in DOMAIN job[j].seen
              THEN FlushedStructure(structure[id], job[j].seen[id], job[j].put[id])
              ELSE job[j].put[id]])
Kept(j) == Restrict(Saved(j), DOMAIN Saved(j) \ job[j].drop)

Distinct(table) == \A a, b \in DOMAIN table : table[a].slot = table[b].slot => a = b

(* A ledger that the job synchronises takes the amount and the due date of *)
(* its structure, whatever installment it stands for.                      *)
Synced(j, k) ==
    LET to == job[j].put[k.structure] IN
    LET seen == job[j].sync[k] IN
    [ledger[k] EXCEPT !.total = Payments!Column(@, seen.total, to.amount),
                      !.due = Payments!Column(@, seen.due, to.due)]

(* Mutant of KeptLedgers: ledgers with a payment survive their structure.  *)
KeepsPaid(j) ==
    {k \in DOMAIN ledger : k.structure \notin job[j].drop \/ ledger[k].paid > 0}

(* Deleting a structure deletes its ledgers (ON DELETE CASCADE, also those *)
(* that were committed after the request counted them).                    *)
KeptLedgers(j) == {k \in DOMAIN ledger : k.structure \notin job[j].drop}

(* The database refuses a row update whose row is gone, two structures in  *)
(* one slot and a ledger without its structure; a ledger someone else      *)
(* inserted first is skipped.  The payments of a deleted ledger go with it. *)
CommitJob(j) ==
    LET added == DOMAIN job[j].add \ DOMAIN ledger
    IN  /\ job[j].state = "open"
        /\ DOMAIN job[j].seen \cup job[j].drop \subseteq DOMAIN structure
        /\ DOMAIN job[j].sync \subseteq DOMAIN ledger
        /\ Distinct(Kept(j))
        /\ \A k \in added : k.structure \in DOMAIN Kept(j)
        /\ structure' = Kept(j)
        /\ ledger' = [k \in KeptLedgers(j) \cup added |->
                        IF k \in added THEN job[j].add[k]
                        ELSE IF k \in DOMAIN job[j].sync THEN Synced(j, k)
                        ELSE ledger[k]]
        /\ receipts' = [k \in LedgerIds |->
                          IF k.structure \in job[j].drop THEN 0 ELSE receipts[k]]
        /\ job' = [job EXCEPT ![j] = Finished]
        /\ UNCHANGED <<today, tx>>

AbortJob(j) ==
    /\ job[j].state \in {"sync", "open"}
    /\ job' = [job EXCEPT ![j] = Finished]
    /\ UNCHANGED <<structure, ledger, receipts, today, tx>>

Init == /\ structure = None
        /\ job = [j \in Jobs |-> Quiet]
        /\ ledger = None
        /\ receipts = [k \in LedgerIds |-> 0]
        /\ today \in Day
        /\ tx = [r \in Requests |-> Payments!Fresh]

Items == UNION {[D -> Terms] : D \in (SUBSET Slots) \ {{}}}
Custom == UNION {[D -> Terms] : D \in SUBSET CustomHeads}

Assign(j) ==
    \/ \E items \in Items : CreateStructures(j, items)
    \/ \E id \in DOMAIN structure, everywhere \in BOOLEAN, terms \in Terms,
          head \in Heads, fields \in SUBSET {"amount", "due", "plan", "head"} :
          UpdateStructure(j, id, everywhere, terms, head, fields)
    \/ SyncLedgers(j)
    \/ \E std \in Standards, custom \in Custom : GenerateLedger(j, std, custom)
    \/ \E s \in Students, cycle \in BOOLEAN : GenerateStudentLedger(j, s, cycle)
    \/ \E id \in DOMAIN structure, confirmed \in BOOLEAN : DeleteStructure(j, id, confirmed)
    \/ CommitJob(j)
    \/ AbortJob(j)

Next == \/ \E j \in Jobs : Assign(j)
        \/ Payments!Next /\ UNCHANGED assignmentVars

Spec == Init /\ [][Next]_vars

(* The same program when no two requests overlap.                          *)
OneAtATime == Cardinality({j \in Jobs : job[j].state \in {"sync", "open"}})
              + Cardinality({r \in Requests : tx[r].state = "open"}) <= 1
SerialSpec == Init /\ [][Next /\ OneAtATime']_vars
-----------------------------------------------------------------------------
IsJob(w) == /\ w = [state |-> w.state, seen |-> w.seen, put |-> w.put, add |-> w.add,
                    drop |-> w.drop, confirmed |-> w.confirmed, sync |-> w.sync]
            /\ w.state \in {"new", "sync", "open", "done"}
            /\ Payments!Partial(w.put, StructureIds, Structure)
            /\ w.seen \in [DOMAIN w.seen -> Structure]
            /\ DOMAIN w.seen \subseteq DOMAIN w.put
            /\ Payments!Partial(w.add, LedgerIds, Payments!Row)
            /\ w.drop \subseteq StructureIds
            /\ w.confirmed \in BOOLEAN
            /\ Payments!Partial(w.sync, LedgerIds, Payments!Row)

TypeOK == /\ Payments!Partial(structure, StructureIds, Structure)
          /\ Payments!TypeOK
          /\ DOMAIN job = Jobs
          /\ \A j \in Jobs : IsJob(job[j])

(* Whatever deletion, generation and payment overlap, a ledger never       *)
(* outlives its structure, and is never credited with money that no        *)
(* Payment row of it accounts for.                                         *)
LedgersBacked ==
    /\ \A k \in DOMAIN ledger : k.structure \in DOMAIN structure
    /\ Payments!PaidBackedByReceipts

(* What holds only while requests do not overlap (SerialSpec).             *)

(* create_structures_batch: "Fee structure is immutable after assignment": *)
(* terms never change under a student who was billed by them.              *)
ImmutableAfterAssignment ==
    [][\A id \in DOMAIN structure \cap DOMAIN structure' :
          LedgersOf(id) # {} => structure'[id] = structure[id]]_vars

(* Every ledger bills what its structure says now, by the schedule its     *)
(* installment name belongs to: the plan, the whole amount or the cycle.   *)
BilledByStructure ==
    \A k \in DOMAIN ledger :
       LET s == structure[k.structure]
           plan == IF k.name \in Range(CycleNames) THEN CycleSchedule(s.amount, s.due)
                                                   ELSE Schedule(s)
       IN  \E i \in DOMAIN plan : /\ plan[i].name = k.name
                                  /\ plan[i].amount = ledger[k].total
                                  /\ plan[i].due = ledger[k].due

(* The ledgers of one structure add up, whatever sequence of batches,      *)
(* generations, edits, deletions and payments led to them: a student's     *)
(* cycle installments to the price they split, and the money credited to   *)
(* each to its Payment rows.                                               *)
LedgersAddUp ==
    /\ \A id \in DOMAIN structure, s \in Students :
          LET rows == {k \in LedgersOf(id) : k.student = s /\ k.name \in Range(CycleNames)}
          IN  rows # {}
                 => MapThenSumSet(LAMBDA k : ledger[k].total, rows) = structure[id].amount
    /\ Payments!BooksBalance

(* delete_structure: ledgers, and with them the record of money received,  *)
(* disappear only in a deletion that was confirmed for linked entries.     *)
ConfirmedDeletion ==
    [][\/ DOMAIN ledger \subseteq DOMAIN ledger'
       \/ \E j \in Jobs : job[j].confirmed /\ job'[j] # job[j]]_vars
=============================================================================
