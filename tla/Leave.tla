-------------------------------- MODULE Leave --------------------------------
(***************************************************************************)
(* Teachers' leave (src/app/services/leave.py): applications, decisions    *)
(* and the days allocated and used, per teacher, year and type of leave.   *)
(*                                                                         *)
(* The days used are never added up in place: they are recounted from the  *)
(* approved rows, once to check the request and once more, after the       *)
(* handler's own row is flushed, to store the sum.  These are two steps,   *)
(* and the notice of a decision, written by a session of its own before    *)
(* the decision is committed, is a third.  The notice of an application is *)
(* a background task, which runs after the commit.                         *)
(***************************************************************************)
EXTENDS Integers, FiniteSets, Functions, FiniteSetsExt

CONSTANTS Leaves,         \* ids of the applications
          Accounts,       \* (teacher, academic year, leave type)
          MaxDays,        \* the longest leave and the largest allocation
          Requests        \* the HTTP requests served, each once

ASSUME LeaveConstants == /\ MaxDays \in Nat \ {0}
                         /\ IsFiniteSet(Leaves) /\ IsFiniteSet(Requests)

LeaveStatus == {"PENDING", "APPROVED", "REJECTED", "CANCELLED"}
TeacherLeave == [account : Accounts, days : 1..MaxDays, status : LeaveStatus]
LeaveBalance == [total : 0..MaxDays, used : 0..MaxDays * Cardinality(Leaves)]
Notice == [to : {"TEACHER"}, leave : Leaves, says : LeaveStatus]
            \cup [to : {"PRINCIPAL"}, leave : Leaves, says : {"PENDING"}]

VARIABLES leave,       \* committed teacher_leaves rows
          balance,     \* committed leave_balance rows
          notice,      \* notifications rows about leave
          tx,          \* what each request has read, written and will tell
          alone        \* history: no two handlers have been open at once so far

vars == <<leave, balance, notice, tx, alone>>

Partial(f, S, T) == DOMAIN f \subseteq S /\ f \in [DOMAIN f -> T]

(* decision is what a body asks for, leave and balance the rows to write,  *)
(* seen the balances as loaded, ask what the background task will tell.    *)
IsTx(t) == /\ DOMAIN t = {"state", "decision", "leave", "balance", "seen", "ask"}
           /\ t.state \in {"new", "decided", "recorded", "allocated", "open",
                           "answered", "done"}
           /\ Partial(t.decision, Leaves, LeaveStatus)
           /\ Partial(t.leave, Leaves, TeacherLeave)
           /\ Partial(t.balance, Accounts, LeaveBalance)
           /\ Partial(t.seen, Accounts, LeaveBalance)
           /\ t.ask \subseteq Notice

NoRows == [x \in {} |-> 0]
Fresh == [state |-> "new", decision |-> NoRows, leave |-> NoRows,
          balance |-> NoRows, seen |-> NoRows, ask |-> {}]
Closed == [Fresh EXCEPT !.state = "done"]

TypeOK == /\ Partial(leave, Leaves, TeacherLeave)
          /\ Partial(balance, Accounts, LeaveBalance)
          /\ notice \subseteq Notice
          /\ DOMAIN tx = Requests
          /\ \A r \in Requests : IsTx(tx[r])
          /\ alone \in BOOLEAN

Merged(table, rows) == [x \in DOMAIN table \cup DOMAIN rows |->
                          IF x \in DOMAIN rows THEN rows[x] ELSE table[x]]

(* _approved_days over the rows a session sees                             *)
ApprovedDays(rows, b) ==
    MapThenSumSet(LAMBDA l : rows[l].days,
                  {l \in DOMAIN rows : rows[l].account = b /\ rows[l].status = "APPROVED"})

(* Mutant of Fits: a leave of one day more than is left still fits.        *)
FitsAlmost(b, days) == /\ b \in DOMAIN balance
                       /\ balance[b].total - ApprovedDays(leave, b) >= days - 1

Fits(b, days) == /\ b \in DOMAIN balance
                 /\ balance[b].total - ApprovedDays(leave, b) >= days

Committed == <<leave, balance, notice>>
Begin(r, work) == /\ tx[r].state = "new"
                  /\ tx' = [tx EXCEPT ![r] = work]
                  /\ UNCHANGED Committed
-----------------------------------------------------------------------------
(* Ids are fresh: none is used by a row, committed or not.                 *)
FreshId(l) == l \notin DOMAIN leave /\ \A q \in Requests : l \notin DOMAIN tx[q].leave

ApplyLeave(r, l, b, days) ==
    /\ FreshId(l)
    /\ Fits(b, days)
    /\ Begin(r, [Fresh EXCEPT !.state = "open",
            !.leave = [x \in {l} |-> [account |-> b, days |-> days, status |-> "PENDING"]],
            !.ask = {[to |-> "PRINCIPAL", leave |-> l, says |-> "PENDING"]}])

(* Mutant of DecideLeave: a decision may be revised.                       *)
DecideAgain(r, l, status) ==
    /\ l \in DOMAIN leave
    /\ status = "APPROVED" => Fits(leave[l].account, leave[l].days)
    /\ Begin(r, [Fresh EXCEPT !.state = "decided", !.decision = [x \in {l} |-> status],
            !.seen = IF status = "APPROVED" THEN Restrict(balance, {leave[l].account})
                     ELSE NoRows])

(* decide_leave up to its checks.  The body may name any status; only an   *)
(* approval loads the balance.                                             *)
DecideLeave(r, l, status) ==
    /\ l \in DOMAIN leave /\ leave[l].status = "PENDING"
    /\ status = "APPROVED" => Fits(leave[l].account, leave[l].days)
    /\ Begin(r, [Fresh EXCEPT !.state = "decided", !.decision = [x \in {l} |-> status],
            !.seen = IF status = "APPROVED" THEN Restrict(balance, {leave[l].account})
                     ELSE NoRows])

(* Mutant of Synced: the sum is taken before the handler's row is flushed. *)
SyncedEarly(t, B) ==
    [b \in B |-> [(IF b \in DOMAIN t.balance THEN t.balance ELSE t.seen)[b]
                    EXCEPT !.used = ApprovedDays(leave, b)]]

(* _sync_used_days: the balances B with the days recounted.                *)
Synced(t, B) ==
    [b \in B |-> [(IF b \in DOMAIN t.balance THEN t.balance ELSE t.seen)[b]
                    EXCEPT !.used = ApprovedDays(Merged(leave, t.leave), b)]]

(* update_leave, which waits for the row while another request has written *)
(* it and then writes over what that one committed, and _sync_used_days.   *)
(* A decision PENDING leaves the status column out of the UPDATE.          *)
RecordDecision(r) ==
    \E l \in DOMAIN tx[r].decision :
       LET b == leave[l].account
           status == tx[r].decision[l]
           row == [leave[l] EXCEPT !.status = IF status = "PENDING" THEN @ ELSE status]
           t == [tx[r] EXCEPT !.state = "recorded",
                     !.leave = IF status = "PENDING" THEN NoRows ELSE [x \in {l} |-> row],
                     !.seen = Merged(Restrict(balance, {b} \cap DOMAIN balance), @),
                     !.ask = {[to |-> "TEACHER", leave |-> l, says |-> row.status]}]
       IN  /\ tx[r].state = "decided"
           /\ \A q \in Requests \ {r} : l \notin DOMAIN tx[q].leave
           /\ tx' = [tx EXCEPT ![r] = [t EXCEPT !.balance = Synced(t, DOMAIN t.seen)]]
           /\ UNCHANGED Committed

(* Mutant of NotifyTeacher: it becomes a task in the background.           *)
NotifyTeacherLater(r) ==
    /\ tx[r].state = "recorded"
    /\ tx' = [tx EXCEPT ![r].state = "open"]
    /\ UNCHANGED Committed

(* _notify_teacher commits by itself, before the decision does.            *)
NotifyTeacher(r) ==
    /\ tx[r].state = "recorded"
    /\ notice' = notice \cup tx[r].ask
    /\ tx' = [tx EXCEPT ![r].state = "open", ![r].ask = {}]
    /\ UNCHANGED <<leave, balance>>

(* Mutant of Allowed: an allocation is not compared with the days used.    *)
AllowedAny(alloc) == TRUE

(* Allocated days cannot be lower than used days.                          *)
Allowed(alloc) == \A b \in DOMAIN alloc \cap DOMAIN balance :
                     alloc[b] >= ApprovedDays(leave, b)

(* set_teacher_balance: the totals, checked and written ...                *)
SetTeacherBalance(r, alloc) ==
    /\ Allowed(alloc)
    /\ Begin(r, [Fresh EXCEPT !.state = "allocated",
            !.balance = [b \in DOMAIN alloc |->
                [total |-> alloc[b],
                 used |-> IF b \in DOMAIN balance THEN balance[b].used ELSE 0]],
            !.seen = Restrict(balance, DOMAIN alloc \cap DOMAIN balance)])

(* ... and the used days, recounted after all of them.                     *)
SyncAllocated(r) ==
    /\ tx[r].state = "allocated"
    /\ tx' = [tx EXCEPT ![r].state = "open",
                        ![r].balance = Synced(tx[r], DOMAIN tx[r].balance)]
    /\ UNCHANGED Committed
-----------------------------------------------------------------------------
(* The end of a request.  An UPDATE sets the columns that changed since    *)
(* the row was loaded.                                                     *)
Column(now, seen, new) == IF new = seen THEN now ELSE new

(* Mutant of FlushedBalance: the total is kept as what is left of it.      *)
FlushedRemaining(now, seen, new) == [total |-> new.total - new.used, used |-> new.used]

FlushedBalance(now, seen, new) == [total |-> Column(now.total, seen.total, new.total),
                                   used |-> Column(now.used, seen.used, new.used)]

(* One row per teacher, year and type: a second insert is an error.        *)
Refused(t) == (DOMAIN t.balance \ DOMAIN t.seen) \cap DOMAIN balance # {}

Commit(r) ==
    LET t == tx[r] IN
    /\ t.state = "open" /\ ~Refused(t)
    /\ leave' = Merged(leave, t.leave)
    /\ balance' = Merged(balance, [b \in DOMAIN t.balance |->
                                     IF b \in DOMAIN t.seen
                                     THEN FlushedBalance(balance[b], t.seen[b], t.balance[b])
                                     ELSE t.balance[b]])
    /\ tx' = [tx EXCEPT ![r] = IF t.ask = {} THEN Closed
                               ELSE [Fresh EXCEPT !.state = "answered", !.ask = t.ask]]
    /\ UNCHANGED notice

(* _notify_principal, after the response; a stop of the server loses it.   *)
NotifyPrincipal(r) == /\ tx[r].state = "answered"
                      /\ notice' = notice \cup tx[r].ask
                      /\ tx' = [tx EXCEPT ![r] = Closed]
                      /\ UNCHANGED <<leave, balance>>

Open(r) == tx[r].state \in {"decided", "recorded", "allocated", "open"}

Abort(r) == /\ Open(r)
            /\ tx' = [tx EXCEPT ![r] = Closed]
            /\ UNCHANGED Committed

(* Balances have been set, and nobody has decided on what was asked.       *)
Init == /\ \E B \in SUBSET Accounts : \E total \in [B -> 0..MaxDays] :
              balance = [b \in B |-> [total |-> total[b], used |-> 0]]
        /\ \E L \in SUBSET Leaves :
              /\ leave \in [L -> TeacherLeave]
              /\ \A l \in L : /\ leave[l].status = "PENDING"
                              /\ leave[l].account \in DOMAIN balance
                              /\ leave[l].days <= balance[leave[l].account].total
        /\ notice = {}
        /\ tx = [r \in Requests |-> Fresh]
        /\ alone = TRUE

Serve(r) ==
    \/ \E l \in Leaves, b \in Accounts, days \in 1..MaxDays : ApplyLeave(r, l, b, days)
    \/ \E l \in Leaves, status \in LeaveStatus : DecideLeave(r, l, status)
    \/ \E B \in SUBSET Accounts \ {{}} : \E alloc \in [B -> 0..MaxDays] :
          SetTeacherBalance(r, alloc)
    \/ RecordDecision(r) \/ NotifyTeacher(r) \/ SyncAllocated(r)
    \/ Commit(r) \/ Abort(r) \/ NotifyPrincipal(r)

Step(r) == /\ Serve(r)
           /\ alone' = (alone /\ \A p, q \in Requests : Open(p)' /\ Open(q)' => p = q)
Next == \E r \in Requests : Step(r)
Spec == Init /\ [][Next]_vars
-----------------------------------------------------------------------------
(* While handlers do not overlap, a teacher's approved days never exceed   *)
(* the days allocated: apply and decide check an approval against the      *)
(* total (services/leave.py:178, 238), and set_teacher_balance the total   *)
(* against the approvals (line 377).                                       *)
WithinBalance == alone => \A b \in DOMAIN balance : ApprovedDays(leave, b) <= balance[b].total

(* While handlers do not overlap, the stored used_days are the approved    *)
(* days, whatever was decided or allocated (_sync_used_days, line 125).    *)
UsedDaysCounted == alone => \A b \in DOMAIN balance : balance[b].used = ApprovedDays(leave, b)

(* A teacher has been told of every decision that is committed, also when  *)
(* decisions overlap: the notice is written before the commit (line 254).  *)
(* The converse does not hold, because the commit may fail.                *)
DecisionTold == \A l \in DOMAIN leave : leave[l].status # "PENDING" =>
                   [to |-> "TEACHER", leave |-> l, says |-> leave[l].status] \in notice

(* The principal is only told of applications that exist, although an      *)
(* application may be rolled back: the task runs after the commit.         *)
ToldOfExisting == \A n \in notice : n.to = "PRINCIPAL" => n.leave \in DOMAIN leave

(* The notices about leave say what is committed, neither less (decisions) *)
(* nor more (applications).                                                *)
LeaveNotices == DecisionTold /\ ToldOfExisting

(* While handlers do not overlap, a decision on leave stands: the status   *)
(* guard of decide_leave (line 216) lets only pending ones be decided.     *)
DecisionStands == [][alone' => \A l \in DOMAIN leave :
                       leave[l].status # "PENDING" => leave'[l] = leave[l]]_vars
=============================================================================
