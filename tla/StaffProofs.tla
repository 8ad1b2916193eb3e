----------------------------- MODULE StaffProofs ------------------------------
(***************************************************************************)
(* Theorems about Leave, Complaints and Staff, for every set of            *)
(* applications, balances, complaints and requests: who has been told      *)
(* what, what the balances count, and which way a decision or a complaint  *)
(* can go, however the handlers overlap or as long as they do not.         *)
(***************************************************************************)
EXTENDS Staff, Sums, TLAPS

TeacherNotice(l, says) == [to |-> "TEACHER", leave |-> l, says |-> says]
Decided(rows) == {l \in DOMAIN rows : rows[l].status # "PENDING"}

(* What a unit of work must have told, or still has to tell, in each state *)
(* it can be in.                                                           *)
Promise(t) ==
    /\ DOMAIN t = {"state", "decision", "leave", "balance", "seen", "ask"}
    /\ t.state \notin {"recorded", "open"} => DOMAIN t.leave = {}
    /\ t.state = "recorded" => \A l \in Decided(t.leave) :
                                  TeacherNotice(l, t.leave[l].status) \in t.ask
    /\ t.state = "open" => \A l \in Decided(t.leave) :
                              TeacherNotice(l, t.leave[l].status) \in notice
    /\ \A n \in t.ask : n.to = "PRINCIPAL" =>
          \/ t.state = "open" /\ n.leave \in DOMAIN t.leave
          \/ t.state = "answered" /\ n.leave \in DOMAIN leave

(* The inductive invariant: the promises of all requests, and what the     *)
(* committed rows and notices say of each other.                           *)
ToldInv == /\ DOMAIN tx = Requests
           /\ \A r \in Requests : Promise(tx[r])
           /\ DecisionTold
           /\ ToldOfExisting

-----------------------------------------------------------------------------
(* A request with nothing to write or tell promises nothing.               *)
LEMMA EmptyPromise ==
    ASSUME NEW t, DOMAIN t = DOMAIN Fresh, t.leave = NoRows, t.ask = {}
    PROVE  Promise(t)
BY DEF Promise, Fresh, NoRows, Decided

(* The promises of the other requests survive a step that loses no notice  *)
(* and no row.                                                             *)
LEMMA OthersKeep ==
    ASSUME ToldInv, NEW r \in Requests, NEW new,
           tx' = [tx EXCEPT ![r] = new], Promise(new)',
           notice \subseteq notice', DOMAIN leave \subseteq DOMAIN leave'
    PROVE  DOMAIN tx' = Requests /\ \A q \in Requests : Promise(tx[q])'
<1>1. DOMAIN tx' = Requests
  BY DEF ToldInv
<1>2. ASSUME NEW q \in Requests, q # r
      PROVE  Promise(tx[q])'
  <2>1. tx'[q] = tx[q] /\ Promise(tx[q])
    BY <1>2 DEF ToldInv
  <2> QED
    BY <2>1 DEF Promise, Decided
<1>3. tx'[r] = new
  BY DEF ToldInv
<1> QED
  BY <1>1, <1>2, <1>3

(* A step that commits nothing leaves the committed state as it is.        *)
LEMMA NothingCommitted ==
    ASSUME ToldInv, NEW r \in Requests, NEW new, UNCHANGED Committed,
           tx' = [tx EXCEPT ![r] = new], Promise(new)
    PROVE  ToldInv'
<1>1. leave' = leave /\ notice' = notice
  BY DEF Committed
<1>2. Promise(new)'
  BY <1>1 DEF Promise, Decided
<1>3. DecisionTold' /\ ToldOfExisting'
  BY <1>1 DEF ToldInv, DecisionTold, ToldOfExisting
<1> QED
  BY <1>1, <1>2, <1>3, OthersKeep DEF ToldInv

-----------------------------------------------------------------------------
(* The handlers, one lemma each: what they leave in the unit of work.      *)
LEMMA ApplyTold ==
    ASSUME ToldInv, NEW r \in Requests, NEW l, NEW b, NEW days,
           ApplyLeave(r, l, b, days)
    PROVE  ToldInv'
<1> DEFINE row == [account |-> b, days |-> days, status |-> "PENDING"]
           new == [Fresh EXCEPT !.state = "open", !.leave = [x \in {l} |-> row],
                      !.ask = {[to |-> "PRINCIPAL", leave |-> l, says |-> "PENDING"]}]
<1>1. /\ DOMAIN new = DOMAIN Fresh
      /\ new.state = "open"
      /\ new.leave = [x \in {l} |-> row]
      /\ new.ask = {[to |-> "PRINCIPAL", leave |-> l, says |-> "PENDING"]}
  BY DEF Fresh
<1>2. Promise(new)
  BY <1>1 DEF Promise, Decided, Fresh
<1>3. UNCHANGED Committed /\ tx' = [tx EXCEPT ![r] = new]
  BY DEF ApplyLeave, Begin
<1> QED
  BY <1>2, <1>3, NothingCommitted

LEMMA DecideTold ==
    ASSUME ToldInv, NEW r \in Requests, NEW l, NEW outcome,
           DecideLeave(r, l, outcome)
    PROVE  ToldInv'
<1> DEFINE loaded == IF outcome = "APPROVED" THEN Restrict(balance, {leave[l].account})
                     ELSE NoRows
           new == [Fresh EXCEPT !.state = "decided",
                      !.decision = [x \in {l} |-> outcome], !.seen = loaded]
<1>1. DOMAIN new = DOMAIN Fresh /\ new.leave = NoRows /\ new.ask = {}
  BY DEF Fresh
<1>2. UNCHANGED Committed /\ tx' = [tx EXCEPT ![r] = new]
  BY DEF DecideLeave, Begin
<1> QED
  BY <1>1, <1>2, EmptyPromise, NothingCommitted

LEMMA AllocateTold ==
    ASSUME ToldInv, NEW r \in Requests, NEW alloc, SetTeacherBalance(r, alloc)
    PROVE  ToldInv'
<1>1. PICK rows, loaded :
         tx' = [tx EXCEPT ![r] = [Fresh EXCEPT !.state = "allocated",
                                       !.balance = rows, !.seen = loaded]]
  BY DEF SetTeacherBalance, Begin
<1> DEFINE new == [Fresh EXCEPT !.state = "allocated", !.balance = rows, !.seen = loaded]
<1>2. DOMAIN new = DOMAIN Fresh /\ new.leave = NoRows /\ new.ask = {}
  BY DEF Fresh
<1>3. UNCHANGED Committed
  BY DEF SetTeacherBalance, Begin
<1> QED
  BY <1>1, <1>2, <1>3, EmptyPromise, NothingCommitted

(* A request is still without rows of leave when it syncs its allocations. *)
LEMMA SyncTold ==
    ASSUME ToldInv, NEW r \in Requests, SyncAllocated(r)
    PROVE  ToldInv'
<1>1. PICK rows : tx' = [tx EXCEPT ![r] = [tx[r] EXCEPT !.state = "open", !.balance = rows]]
  BY DEF SyncAllocated, ToldInv
<1> DEFINE new == [tx[r] EXCEPT !.state = "open", !.balance = rows]
<1>2. Promise(tx[r]) /\ tx[r].state = "allocated"
  BY DEF SyncAllocated, ToldInv
<1>3. DOMAIN new = DOMAIN tx[r] /\ new.leave = tx[r].leave /\ new.ask = tx[r].ask
  BY <1>2 DEF Promise
<1>4. Promise(new)
  BY <1>2, <1>3 DEF Promise, Decided
<1>5. UNCHANGED Committed
  BY DEF SyncAllocated
<1> QED
  BY <1>1, <1>4, <1>5, NothingCommitted

(* A recorded decision carries its own notice.                             *)
LEMMA RecordTold ==
    ASSUME ToldInv, NEW r \in Requests, RecordDecision(r)
    PROVE  ToldInv'
<1> DEFINE row(l) == [leave[l] EXCEPT !.status = IF tx[r].decision[l] = "PENDING" THEN @
                                                 ELSE tx[r].decision[l]]
           kept(l) == IF tx[r].decision[l] = "PENDING" THEN NoRows ELSE [x \in {l} |-> row(l)]
           b(l) == leave[l].account
           t(l) == [tx[r] EXCEPT !.state = "recorded", !.leave = kept(l),
                      !.seen = Merged(Restrict(balance, {b(l)} \cap DOMAIN balance), @),
                      !.ask = {[to |-> "TEACHER", leave |-> l, says |-> row(l).status]}]
           new(l) == [t(l) EXCEPT !.balance = Synced(t(l), DOMAIN t(l).seen)]
<1>1. PICK l : tx' = [tx EXCEPT ![r] = new(l)]
  BY Zenon DEF RecordDecision
<1>2. DOMAIN tx[r] = DOMAIN Fresh
  BY DEF ToldInv, Promise, Fresh
<1>3. /\ DOMAIN new(l) = DOMAIN tx[r]
      /\ new(l).state = "recorded" /\ new(l).leave = kept(l)
      /\ new(l).ask = {TeacherNotice(l, row(l).status)}
  <2>1. /\ DOMAIN t(l) = DOMAIN tx[r]
        /\ t(l).state = "recorded" /\ t(l).leave = kept(l)
        /\ t(l).ask = {TeacherNotice(l, row(l).status)}
    BY <1>2 DEF Fresh, TeacherNotice
  <2> HIDE DEF t, kept, row
  <2> QED
    BY <2>1, <1>2 DEF Fresh
<1> HIDE DEF new, t
<1>4. Promise(new(l))
  <2>1. Decided(kept(l)) \subseteq {l} /\ \A x \in Decided(kept(l)) : kept(l)[x] = row(l)
    BY DEF Decided, NoRows
  <2> HIDE DEF kept, row
  <2> QED
    BY <1>2, <1>3, <2>1 DEF Promise, Fresh, TeacherNotice
<1>5. UNCHANGED Committed
  BY DEF RecordDecision
<1> QED
  BY <1>1, <1>4, <1>5, NothingCommitted

(* The notice of a decision is committed while the decision is not.        *)
LEMMA NotifyTeacherTold ==
    ASSUME ToldInv, NEW r \in Requests, NotifyTeacher(r)
    PROVE  ToldInv'
<1>0. PICK new : new = [tx[r] EXCEPT !.state = "open", !.ask = {}]
  OBVIOUS
<1>1. /\ Promise(tx[r]) /\ tx[r].state = "recorded"
      /\ notice' = notice \cup tx[r].ask /\ leave' = leave
      /\ tx' = [tx EXCEPT ![r] = new]
  BY <1>0 DEF NotifyTeacher, ToldInv
<1>2. /\ DOMAIN new = DOMAIN tx[r] /\ new.state = "open"
      /\ new.leave = tx[r].leave /\ new.ask = {}
  BY <1>0, <1>1 DEF Promise
<1>3. Promise(new)'
  BY <1>1, <1>2 DEF Promise, Decided
<1>4. DecisionTold' /\ ToldOfExisting'
  BY <1>1 DEF ToldInv, DecisionTold, ToldOfExisting, Promise
<1> QED
  BY <1>1, <1>3, <1>4, OthersKeep DEF ToldInv

(* The background task tells of a row that is committed.                   *)
LEMMA NotifyPrincipalTold ==
    ASSUME ToldInv, NEW r \in Requests, NotifyPrincipal(r)
    PROVE  ToldInv'
<1>1. /\ Promise(tx[r]) /\ tx[r].state = "answered"
      /\ notice' = notice \cup tx[r].ask /\ leave' = leave
      /\ tx' = [tx EXCEPT ![r] = Closed]
  BY DEF NotifyPrincipal, ToldInv
<1>2. Promise(Closed)'
  BY DEF Promise, Closed, Fresh, NoRows, Decided
<1>3. DecisionTold' /\ ToldOfExisting'
  BY <1>1 DEF ToldInv, DecisionTold, ToldOfExisting, Promise
<1> QED
  BY <1>1, <1>2, <1>3, OthersKeep DEF ToldInv

LEMMA AbortTold ==
    ASSUME ToldInv, NEW r \in Requests, Abort(r)
    PROVE  ToldInv'
<1>1. DOMAIN Closed = DOMAIN Fresh /\ Closed.leave = NoRows /\ Closed.ask = {}
  BY DEF Closed, Fresh
<1> QED
  BY <1>1, EmptyPromise, NothingCommitted DEF Abort

(* A commit publishes rows whose decisions were told before, and passes an *)
(* application on to the task that will tell of it.                        *)
LEMMA CommitTold ==
    ASSUME ToldInv, NEW r \in Requests, Commit(r)
    PROVE  ToldInv'
<1>0. PICK new : new = IF tx[r].ask = {} THEN Closed
                       ELSE [Fresh EXCEPT !.state = "answered", !.ask = tx[r].ask]
  OBVIOUS
<1>1. /\ Promise(tx[r]) /\ tx[r].state = "open"
      /\ leave' = Merged(leave, tx[r].leave) /\ notice' = notice
      /\ tx' = [tx EXCEPT ![r] = new]
  BY <1>0 DEF Commit, ToldInv
<1>2. /\ DOMAIN leave' = DOMAIN leave \cup DOMAIN tx[r].leave
      /\ \A l \in DOMAIN leave' :
            \/ l \in DOMAIN tx[r].leave /\ leave'[l] = tx[r].leave[l]
            \/ l \in DOMAIN leave /\ leave'[l] = leave[l]
  BY <1>1 DEF Merged
<1>3. /\ DOMAIN new = DOMAIN Fresh /\ new.leave = NoRows
      /\ new.ask = tx[r].ask
      /\ new.ask # {} => new.state = "answered"
      /\ new.state \in {"answered", "done"}
  BY <1>0 DEF Closed, Fresh
<1>4. Promise(new)'
  BY <1>1, <1>2, <1>3 DEF Promise, Decided, NoRows, Fresh
<1>5. DecisionTold'
  <2> SUFFICES ASSUME NEW l \in DOMAIN leave', leave'[l].status # "PENDING"
               PROVE  TeacherNotice(l, leave'[l].status) \in notice
    BY <1>1 DEF DecisionTold, TeacherNotice
  <2>1. CASE l \in DOMAIN tx[r].leave /\ leave'[l] = tx[r].leave[l]
    BY <1>1, <2>1 DEF Promise, Decided
  <2>2. CASE l \in DOMAIN leave /\ leave'[l] = leave[l]
    BY <2>2 DEF ToldInv, DecisionTold, TeacherNotice
  <2> QED
    BY <1>2, <2>1, <2>2
<1>6. ToldOfExisting'
  BY <1>1, <1>2 DEF ToldInv, ToldOfExisting
<1> QED
  BY <1>1, <1>2, <1>4, <1>5, <1>6, OthersKeep DEF ToldInv

LEMMA StutterTold ==
    ASSUME ToldInv, UNCHANGED vars
    PROVE  ToldInv'
BY DEF ToldInv, vars, Promise, Decided, DecisionTold, ToldOfExisting

-----------------------------------------------------------------------------
(* At first everything asked for is pending and nobody has been told.      *)
LEMMA InitTold == Init => ToldInv
<1> SUFFICES ASSUME Init PROVE ToldInv
  OBVIOUS
<1>1. \A l \in DOMAIN leave : leave[l].status = "PENDING"
  BY DEF Init
<1>2. Promise(Fresh)
  BY DEF Promise, Fresh, NoRows, Decided
<1> QED
  BY <1>1, <1>2 DEF Init, ToldInv, DecisionTold, ToldOfExisting

(* Who has been told what, as an invariant of every interleaving.          *)
THEOREM ToldInvariant == Spec => []ToldInv
<1>1. ASSUME ToldInv, [Next]_vars PROVE ToldInv'
  <2>1. ASSUME NEW r \in Requests, Serve(r) PROVE ToldInv'
    <3>1. ASSUME NEW l, NEW b, NEW days, ApplyLeave(r, l, b, days) PROVE ToldInv'
      BY <1>1, <3>1, ApplyTold
    <3>2. ASSUME NEW l, NEW outcome, DecideLeave(r, l, outcome) PROVE ToldInv'
      BY <1>1, <3>2, DecideTold
    <3>3. ASSUME NEW alloc, SetTeacherBalance(r, alloc) PROVE ToldInv'
      BY <1>1, <3>3, AllocateTold
    <3>4. CASE RecordDecision(r) \/ NotifyTeacher(r) \/ SyncAllocated(r)
      BY <1>1, <3>4, RecordTold, NotifyTeacherTold, SyncTold
    <3>5. CASE Commit(r) \/ Abort(r) \/ NotifyPrincipal(r)
      BY <1>1, <3>5, CommitTold, AbortTold, NotifyPrincipalTold
    <3> QED
      BY <2>1, <3>1, <3>2, <3>3, <3>4, <3>5 DEF Serve
  <2> QED
    BY <1>1, <2>1, StutterTold DEF Next, Step
<1> QED
  BY InitTold, <1>1, PTL DEF Spec

(* Every committed decision was told to the teacher, however handlers      *)
(* overlap: decide_leave writes the notice before its commit.              *)
THEOREM DecisionsAreTold == Spec => []DecisionTold
BY ToldInvariant, PTL DEF ToldInv

(* The principal only ever hears of applications that are stored.          *)
THEOREM PrincipalHearsOfRows == Spec => []ToldOfExisting
BY ToldInvariant, PTL DEF ToldInv

-----------------------------------------------------------------------------
(* Decisions stand while handlers do not overlap.                          *)
IsOpen(t) == t.state \in {"decided", "recorded", "allocated", "open"}
Touched(t) == DOMAIN t.decision \cup DOMAIN t.leave

(* The rows a unit of work decides on are pending still, or not stored.    *)
OnPending(t) == \A l \in Touched(t) \cap DOMAIN leave : leave[l].status = "PENDING"

(* The inductive invariant: one open handler at most, and what it read is  *)
(* still true.                                                             *)
StandInv == /\ DOMAIN tx = Requests
            /\ \A r \in Requests : DOMAIN tx[r] = DOMAIN Fresh
            /\ alone \in BOOLEAN
            /\ alone => \A p, q \in Requests : Open(p) /\ Open(q) => p = q
            /\ alone => \A r \in Requests : Open(r) => OnPending(tx[r])

StandStep == alone' => \A l \in DOMAIN leave :
                leave[l].status # "PENDING" => leave'[l] = leave[l]

OneAlone == alone' = (alone /\ \A p, q \in Requests : Open(p)' /\ Open(q)' => p = q)

(* A step that commits no row of leave and keeps to pending ones.          *)
LEMMA KeepsLeave ==
    ASSUME StandInv, OneAlone, NEW r \in Requests, NEW new,
           tx' = [tx EXCEPT ![r] = new], DOMAIN new = DOMAIN Fresh,
           alone => (IsOpen(new) => OnPending(new)), leave' = leave
    PROVE  StandInv' /\ StandStep
<1>1. DOMAIN tx' = Requests /\ tx'[r] = new
  BY DEF StandInv
<1>2. \A q \in Requests \ {r} : tx'[q] = tx[q]
  BY DEF StandInv
<1>3. \A q \in Requests : DOMAIN tx'[q] = DOMAIN Fresh
  BY <1>1, <1>2 DEF StandInv
<1>4. alone' => \A q \in Requests : Open(q)' => OnPending(tx[q])'
  BY <1>1, <1>2 DEF StandInv, OneAlone, OnPending, Open, IsOpen
<1>5. alone' \in BOOLEAN /\ (alone' => \A p, q \in Requests : Open(p)' /\ Open(q)' => p = q)
  BY DEF OneAlone
<1> QED
  BY <1>1, <1>3, <1>4, <1>5 DEF StandInv, StandStep

(* What update_leave and _sync_used_days write: one row, the one decided.  *)
LEMMA RecordShape ==
    ASSUME NEW r \in Requests, DOMAIN tx[r] = DOMAIN Fresh, RecordDecision(r)
    PROVE  \E new : /\ tx' = [tx EXCEPT ![r] = new]
                    /\ DOMAIN new = DOMAIN tx[r]
                    /\ new.decision = tx[r].decision
                    /\ DOMAIN new.leave \subseteq DOMAIN tx[r].decision
<1> DEFINE row(l) == [leave[l] EXCEPT !.status = IF tx[r].decision[l] = "PENDING" THEN @
                                                 ELSE tx[r].decision[l]]
           kept(l) == IF tx[r].decision[l] = "PENDING" THEN NoRows ELSE [x \in {l} |-> row(l)]
           b(l) == leave[l].account
           t(l) == [tx[r] EXCEPT !.state = "recorded", !.leave = kept(l),
                      !.seen = Merged(Restrict(balance, {b(l)} \cap DOMAIN balance), @),
                      !.ask = {[to |-> "TEACHER", leave |-> l, says |-> row(l).status]}]
           new(l) == [t(l) EXCEPT !.balance = Synced(t(l), DOMAIN t(l).seen)]
<1>1. PICK l \in DOMAIN tx[r].decision : tx' = [tx EXCEPT ![r] = new(l)]
  BY Zenon DEF RecordDecision
<1>2. DOMAIN kept(l) \subseteq {l}
  BY DEF NoRows
<1> HIDE DEF row, kept
<1>3. DOMAIN t(l) = DOMAIN tx[r] /\ t(l).decision = tx[r].decision /\ t(l).leave = kept(l)
  BY DEF Fresh
<1> HIDE DEF t
<1>4. DOMAIN new(l) = DOMAIN tx[r] /\ new(l).decision = tx[r].decision /\ new(l).leave = kept(l)
  BY <1>3 DEF Fresh
<1> HIDE DEF new
<1>5. DOMAIN new(l).leave \subseteq DOMAIN tx[r].decision
  BY <1>2, <1>4
<1> QED
  BY <1>1, <1>4, <1>5, Zenon

LEMMA StandNext ==
    ASSUME StandInv, NEW r \in Requests, Step(r)
    PROVE  StandInv' /\ StandStep
<1>0. OneAlone
  BY DEF Step, OneAlone
<1>1. ASSUME NEW l, NEW b, NEW days, ApplyLeave(r, l, b, days)
      PROVE  StandInv' /\ StandStep
  <2>1. PICK row, ask : tx' = [tx EXCEPT ![r] = [Fresh EXCEPT !.state = "open",
                                 !.leave = [x \in {l} |-> row], !.ask = ask]]
    BY <1>1 DEF ApplyLeave, Begin
  <2>2. PICK new : new = [Fresh EXCEPT !.state = "open",
                            !.leave = [x \in {l} |-> row], !.ask = ask]
    OBVIOUS
  <2>3. DOMAIN new = DOMAIN Fresh /\ Touched(new) = {l}
    BY <2>2 DEF Fresh, Touched, NoRows
  <2>4. l \notin DOMAIN leave /\ leave' = leave
    BY <1>1 DEF ApplyLeave, FreshId, Begin, Committed
  <2> QED
    BY <1>0, <2>1, <2>2, <2>3, <2>4, KeepsLeave DEF OnPending
<1>2. ASSUME NEW l, NEW outcome, DecideLeave(r, l, outcome)
      PROVE  StandInv' /\ StandStep
  <2>1. PICK new : new = [Fresh EXCEPT !.state = "decided", !.decision = [x \in {l} |-> outcome],
            !.seen = IF outcome = "APPROVED" THEN Restrict(balance, {leave[l].account})
                     ELSE NoRows]
    OBVIOUS
  <2>2. tx' = [tx EXCEPT ![r] = new]
    BY <1>2, <2>1 DEF DecideLeave, Begin
  <2>3. DOMAIN new = DOMAIN Fresh /\ Touched(new) = {l}
    BY <2>1 DEF Fresh, Touched, NoRows
  <2>4. leave[l].status = "PENDING" /\ leave' = leave
    BY <1>2 DEF DecideLeave, Begin, Committed
  <2> QED
    BY <1>0, <2>2, <2>3, <2>4, KeepsLeave DEF OnPending
<1>3. ASSUME NEW alloc, SetTeacherBalance(r, alloc)
      PROVE  StandInv' /\ StandStep
  <2>1. PICK rows, loaded :
           tx' = [tx EXCEPT ![r] = [Fresh EXCEPT !.state = "allocated",
                                         !.balance = rows, !.seen = loaded]]
    BY <1>3 DEF SetTeacherBalance, Begin
  <2>2. PICK new : new = [Fresh EXCEPT !.state = "allocated", !.balance = rows, !.seen = loaded]
    OBVIOUS
  <2>3. DOMAIN new = DOMAIN Fresh /\ Touched(new) = {}
    BY <2>2 DEF Fresh, Touched, NoRows
  <2>4. leave' = leave
    BY <1>3 DEF SetTeacherBalance, Begin, Committed
  <2> QED
    BY <1>0, <2>1, <2>2, <2>3, <2>4, KeepsLeave DEF OnPending
<1>4. ASSUME RecordDecision(r) \/ NotifyTeacher(r) \/ SyncAllocated(r)
      PROVE  StandInv' /\ StandStep
  <2>1. DOMAIN tx[r] = DOMAIN Fresh /\ Open(r) /\ leave' = leave
    BY <1>4 DEF RecordDecision, NotifyTeacher, SyncAllocated, Open, Committed, StandInv
  <2>2. PICK new : /\ tx' = [tx EXCEPT ![r] = new] /\ DOMAIN new = DOMAIN tx[r]
                   /\ Touched(new) \subseteq Touched(tx[r])
    <3>1. CASE NotifyTeacher(r)
      <4>1. PICK new : new = [tx[r] EXCEPT !.state = "open", !.ask = {}]
        OBVIOUS
      <4>2. tx' = [tx EXCEPT ![r] = new]
        BY <3>1, <4>1 DEF NotifyTeacher, StandInv
      <4>3. /\ DOMAIN new = DOMAIN tx[r]
            /\ new.decision = tx[r].decision /\ new.leave = tx[r].leave
        BY <2>1, <4>1 DEF Fresh
      <4> QED
        BY <4>2, <4>3 DEF Touched
    <3>2. CASE SyncAllocated(r)
      <4>1. PICK new : new = [tx[r] EXCEPT !.state = "open",
                                           !.balance = Synced(tx[r], DOMAIN tx[r].balance)]
        OBVIOUS
      <4>2. tx' = [tx EXCEPT ![r] = new]
        BY <3>2, <4>1 DEF SyncAllocated, StandInv
      <4>3. /\ DOMAIN new = DOMAIN tx[r]
            /\ new.decision = tx[r].decision /\ new.leave = tx[r].leave
        BY <2>1, <4>1 DEF Fresh
      <4> QED
        BY <4>2, <4>3 DEF Touched
    <3>3. CASE RecordDecision(r)
      BY <2>1, <3>3, RecordShape DEF Touched
    <3> QED
      BY <1>4, <3>1, <3>2, <3>3
  <2>3. alone => OnPending(new)
    BY <2>1, <2>2 DEF StandInv, OnPending
  <2> QED
    BY <1>0, <2>1, <2>2, <2>3, KeepsLeave
<1>5. ASSUME Abort(r) \/ NotifyPrincipal(r)
      PROVE  StandInv' /\ StandStep
  <2>1. tx' = [tx EXCEPT ![r] = Closed] /\ leave' = leave
    BY <1>5 DEF Abort, NotifyPrincipal, Committed
  <2>2. DOMAIN Closed = DOMAIN Fresh /\ ~IsOpen(Closed)
    BY DEF Closed, Fresh, IsOpen
  <2> QED
    BY <1>0, <2>1, <2>2, KeepsLeave
<1>6. ASSUME Commit(r) PROVE StandInv' /\ StandStep
  <2>1. PICK new : new = IF tx[r].ask = {} THEN Closed
                         ELSE [Fresh EXCEPT !.state = "answered", !.ask = tx[r].ask]
    OBVIOUS
  <2>2. DOMAIN new = DOMAIN Fresh /\ ~IsOpen(new)
    BY <2>1 DEF Closed, Fresh, IsOpen
  <2>3. /\ DOMAIN tx' = Requests /\ tx'[r] = new
        /\ \A q \in Requests \ {r} : tx'[q] = tx[q]
    BY <1>6, <2>1 DEF StandInv, Commit
  <2>4. Open(r) /\ leave' = Merged(leave, tx[r].leave)
    BY <1>6 DEF Commit, Open
  <2>5. alone' => \A q \in Requests : ~Open(q)'
    BY <1>0, <2>2, <2>3, <2>4 DEF StandInv, Open, IsOpen, OneAlone
  <2>6. \A q \in Requests : DOMAIN tx'[q] = DOMAIN Fresh
    BY <2>2, <2>3 DEF StandInv
  <2>7. StandStep
    BY <1>0, <2>4 DEF StandStep, StandInv, OnPending, Touched, Merged, OneAlone
  <2>8. alone' \in BOOLEAN /\ (alone' => \A p, q \in Requests : Open(p)' /\ Open(q)' => p = q)
    BY <1>0 DEF OneAlone
  <2> QED
    BY <2>3, <2>5, <2>6, <2>7, <2>8 DEF StandInv
<1> QED
  BY <1>1, <1>2, <1>3, <1>4, <1>5, <1>6 DEF Step, Serve

(* A decision on leave stands while handlers do not overlap.               *)
THEOREM DecisionsStand == Spec => DecisionStands
<1>1. Init => StandInv
  <2>1. DOMAIN Fresh = DOMAIN Fresh /\ ~IsOpen(Fresh)
    BY DEF Fresh, IsOpen
  <2> QED
    BY <2>1 DEF Init, StandInv, Open, IsOpen
<1>2. ASSUME StandInv, [Next]_vars
      PROVE  StandInv' /\ [StandStep]_vars
  <2>1. CASE UNCHANGED vars
    BY <1>2, <2>1 DEF StandInv, vars, Open, OnPending
  <2>2. CASE Next
    BY <1>2, <2>2, StandNext DEF Next
  <2> QED
    BY <1>2, <2>1, <2>2
<1> QED
  BY <1>1, <1>2, PTL DEF Spec, DecisionStands, StandStep

-----------------------------------------------------------------------------
(* The approved leaves of an account and their days.                       *)
Days(rows) == [l \in DOMAIN rows |-> rows[l].days]
ApprovedOf(rows, b) == {l \in DOMAIN rows : rows[l].account = b /\ rows[l].status = "APPROVED"}

LEMMA ApprovedIs ==
    ASSUME NEW rows, IsFiniteSet(DOMAIN rows), NEW b
    PROVE  ApprovedDays(rows, b) = Total(Days(rows), ApprovedOf(rows, b))
<1> DEFINE K == ApprovedOf(rows, b)
           sums(it) == [s \in SUBSET K |->
               IF s = {} THEN 0 ELSE rows[First(s)].days + it[s \ {First(s)}]]
           j == CHOOSE it : it = sums(it)
<1>1. K \in SUBSET DOMAIN rows
  BY DEF ApprovedOf
<1>2. IsFiniteSet(K)
  BY <1>1, FS_Subset
<1>3. \A s \in SUBSET K : s # {} => Days(rows)[First(s)] = rows[First(s)].days
  BY <1>1, FirstIn DEF Days
<1>4. \A it : Partials(Days(rows), it, K) <=> it = sums(it)
  <2> TAKE it
  <2>1. sums(it) = [s \in SUBSET K |->
               IF s = {} THEN 0 ELSE Days(rows)[First(s)] + it[s \ {First(s)}]]
    <3> HIDE DEF K
    <3> QED BY <1>3
  <2> HIDE DEF sums, K
  <2> QED BY <2>1 DEF Partials
<1>5. \E it : it = sums(it)
  <2> HIDE DEF sums, K
  <2> QED BY <1>2, <1>4, PartialsExist
<1>6. j = sums(j)
  <2> HIDE DEF sums, K
  <2> QED BY <1>5, Zenon
<1>7. Partials(Days(rows), j, K)
  <2> HIDE DEF sums, K, j
  <2> QED BY <1>4, <1>6
<1>8. Total(Days(rows), K) = j[K]
  <2> HIDE DEF K, j
  <2> QED BY <1>2, <1>7, TotalIs
<1>9. ApprovedDays(rows, b) = j[K]
  BY DEF ApprovedDays, MapThenSumSet, MapThenFoldSet, ApprovedOf, First
<1> QED
  BY <1>8, <1>9
-----------------------------------------------------------------------------
(* The days approved of rows that leave the handlers are bounded.          *)
Most == MaxDays * Cardinality(Leaves)
Rows(f) == Partial(f, Leaves, TeacherLeave)
Balances(f) == Partial(f, Accounts, LeaveBalance)

LEMMA MostNat == Most \in Nat /\ MaxDays \in Nat /\ IsFiniteSet(Leaves)
<1>1. Cardinality(Leaves) \in Nat /\ MaxDays \in Nat
  BY LeaveConstants, FS_CardinalityType
<1>2. \A a, b \in Nat : a * b \in Nat
  OBVIOUS
<1> QED
  BY <1>1, <1>2, LeaveConstants DEF Most

LEMMA ApprovedType ==
    ASSUME NEW rows, Rows(rows), NEW b
    PROVE  /\ ApprovedDays(rows, b) \in 0..Most
           /\ IsFiniteSet(DOMAIN rows) /\ IsFiniteSet(ApprovedOf(rows, b))
           /\ \A l \in DOMAIN rows : Days(rows)[l] \in Nat
<1>1. DOMAIN rows \in SUBSET Leaves
  BY DEF Rows, Partial
<1>2. IsFiniteSet(DOMAIN rows) /\ Cardinality(DOMAIN rows) \in Nat
      /\ Cardinality(Leaves) \in Nat /\ Cardinality(DOMAIN rows) <= Cardinality(Leaves)
  BY <1>1, MostNat, FS_Subset, FS_CardinalityType
<1>3. \A l \in DOMAIN rows : Days(rows)[l] \in 0..MaxDays
  BY MostNat DEF Rows, Partial, TeacherLeave, Days
<1> DEFINE K == ApprovedOf(rows, b)
<1>4. K \in SUBSET DOMAIN rows
  BY DEF ApprovedOf
<1>5. IsFiniteSet(K) /\ Cardinality(K) \in Nat /\ Cardinality(K) <= Cardinality(DOMAIN rows)
  BY <1>2, <1>4, FS_Subset, FS_CardinalityType
<1>6. Total(Days(rows), K) \in 0..MaxDays * Cardinality(K)
  <2> HIDE DEF K
  <2> QED BY <1>2, <1>3, <1>4, MostNat, TotalBound
<1>7. MaxDays * Cardinality(K) <= Most
  <2>1. \A m, c, d \in Nat : c <= d => m * c <= m * d
    OBVIOUS
  <2>2. Cardinality(K) <= Cardinality(Leaves)
    <3> HIDE DEF K
    <3> QED BY <1>2, <1>5
  <2> HIDE DEF K
  <2> QED BY <1>2, <1>5, <2>1, <2>2, MostNat DEF Most
<1>8. MaxDays * Cardinality(K) \in Int /\ Most \in Int
  <2>1. \A m, c \in Nat : m * c \in Int
    OBVIOUS
  <2> HIDE DEF K
  <2> QED BY <1>5, <2>1, MostNat
<1>9. Total(Days(rows), K) \in 0..Most
  <2> HIDE DEF K
  <2> QED BY <1>6, <1>7, <1>8
<1>10. \A l \in DOMAIN rows : Days(rows)[l] \in Nat
  BY <1>3, MostNat
<1> QED
  BY <1>2, <1>5, <1>9, <1>10, ApprovedIs

LEMMA MergedRows ==
    ASSUME NEW S, NEW T, NEW f, NEW g, Partial(f, S, T), Partial(g, S, T)
    PROVE  Partial(Merged(f, g), S, T) /\ DOMAIN f \subseteq DOMAIN Merged(f, g)
           /\ DOMAIN g \subseteq DOMAIN Merged(f, g)
BY DEF Partial, Merged

(* What was loaded or is decided is there: no row is ever deleted.         *)
Refers(t) == /\ DOMAIN t.seen \subseteq DOMAIN balance
             /\ t.state = "decided" => DOMAIN t.decision \subseteq DOMAIN leave

LeaveInv == TypeOK /\ \A r \in Requests : Refers(tx[r])

LEMMA TxTyped ==
    ASSUME LeaveInv, NEW r \in Requests, NEW new, tx' = [tx EXCEPT ![r] = new],
           IsTx(new), Refers(new)', Rows(leave'), Balances(balance'), notice' \subseteq Notice,
           DOMAIN leave \subseteq DOMAIN leave', DOMAIN balance \subseteq DOMAIN balance',
           alone' \in BOOLEAN
    PROVE  LeaveInv'
<1>1. DOMAIN tx' = Requests /\ tx'[r] = new
  BY DEF LeaveInv, TypeOK
<1>2. ASSUME NEW q \in Requests PROVE IsTx(tx'[q]) /\ Refers(tx[q])'
  <2>1. CASE q = r
    BY <1>1, <2>1
  <2>2. CASE q # r
    <3>1. tx'[q] = tx[q] /\ IsTx(tx[q]) /\ Refers(tx[q])
      BY <2>2 DEF LeaveInv, TypeOK
    <3> QED
      BY <3>1 DEF Refers
  <2> QED
    BY <2>1, <2>2
<1>3. TypeOK'
  BY <1>1, <1>2 DEF TypeOK, Rows, Balances
<1> QED
  BY <1>2, <1>3 DEF LeaveInv

(* The recounted balances of those that were loaded.                       *)
LEMMA SyncedType ==
    ASSUME NEW t, NEW B, Balances(t.balance), Balances(t.seen), Rows(t.leave), Rows(leave),
           B \subseteq DOMAIN t.balance \cup DOMAIN t.seen
    PROVE  Balances(Synced(t, B)) /\ DOMAIN Synced(t, B) = B
<1>1. Rows(Merged(leave, t.leave))
  BY MergedRows DEF Rows
<1>2. \A b \in B : ApprovedDays(Merged(leave, t.leave), b) \in 0..Most
  BY <1>1, ApprovedType
<1>3. PICK days : \A b \in B : days[b] = ApprovedDays(Merged(leave, t.leave), b)
  <2>1. \A b \in B : [c \in B |-> ApprovedDays(Merged(leave, t.leave), c)][b]
                      = ApprovedDays(Merged(leave, t.leave), b)
    OBVIOUS
  <2> QED BY <2>1
<1>4. Synced(t, B) = [b \in B |-> [(IF b \in DOMAIN t.balance THEN t.balance ELSE t.seen)[b]
                                    EXCEPT !.used = days[b]]]
  BY <1>3 DEF Synced
<1>5. \A b \in B : (IF b \in DOMAIN t.balance THEN t.balance ELSE t.seen)[b] \in LeaveBalance
                   /\ b \in Accounts
  BY DEF Balances, Partial
<1>6. \A row \in LeaveBalance, d \in 0..Most : [row EXCEPT !.used = d] \in LeaveBalance
  BY DEF LeaveBalance, Most
<1>7. \A b \in B : Synced(t, B)[b] \in LeaveBalance
  BY <1>2, <1>3, <1>4, <1>5, <1>6
<1> QED
  BY <1>4, <1>5, <1>7 DEF Balances, Partial
-----------------------------------------------------------------------------
(* Every action writes a unit of work of its type.                         *)
LEMMA ApplyTyped ==
    ASSUME LeaveInv, NEW r \in Requests, NEW l \in Leaves, NEW b \in Accounts,
           NEW days \in 1..MaxDays, ApplyLeave(r, l, b, days), alone' \in BOOLEAN
    PROVE  LeaveInv'
<1>1. PICK row : row = [account |-> b, days |-> days, status |-> "PENDING"]
  OBVIOUS
<1>2. PICK rows : rows = [x \in {l} |-> row]
  OBVIOUS
<1>3. PICK ask : ask = {[to |-> "PRINCIPAL", leave |-> l, says |-> "PENDING"]}
  OBVIOUS
<1>4. PICK new : new = [Fresh EXCEPT !.state = "open", !.leave = rows, !.ask = ask]
  OBVIOUS
<1>5. tx' = [tx EXCEPT ![r] = new] /\ UNCHANGED Committed
  BY <1>1, <1>2, <1>3, <1>4 DEF ApplyLeave, Begin
<1>6. row \in TeacherLeave /\ ask \subseteq Notice
  BY <1>1, <1>3 DEF TeacherLeave, Notice, LeaveStatus
<1>7. Partial(rows, Leaves, TeacherLeave)
  BY <1>2, <1>6 DEF Partial
<1>8. Partial(NoRows, Leaves, LeaveStatus) /\ Partial(NoRows, Accounts, LeaveBalance)
  BY DEF Partial, NoRows
<1>9. IsTx(new) /\ new.seen = NoRows /\ new.state = "open"
  BY <1>4, <1>6, <1>7, <1>8 DEF IsTx, Fresh
<1>10. Refers(new)'
  BY <1>9 DEF Refers, NoRows
<1> QED
  BY <1>5, <1>9, <1>10, TxTyped DEF Committed, LeaveInv, TypeOK, Rows, Balances

LEMMA DecideTyped ==
    ASSUME LeaveInv, NEW r \in Requests, NEW l \in Leaves, NEW outcome \in LeaveStatus,
           DecideLeave(r, l, outcome), alone' \in BOOLEAN
    PROVE  LeaveInv'
<1>1. PICK decision : decision = [x \in {l} |-> outcome]
  OBVIOUS
<1>2. PICK seen : seen = IF outcome = "APPROVED" THEN Restrict(balance, {leave[l].account}) ELSE NoRows
  OBVIOUS
<1>3. PICK new : new = [Fresh EXCEPT !.state = "decided", !.decision = decision, !.seen = seen]
  OBVIOUS
<1>4. /\ tx' = [tx EXCEPT ![r] = new] /\ UNCHANGED Committed
      /\ l \in DOMAIN leave
      /\ outcome = "APPROVED" => leave[l].account \in DOMAIN balance
  BY <1>1, <1>2, <1>3 DEF DecideLeave, Begin, Fits
<1>5. Partial(decision, Leaves, LeaveStatus)
  BY <1>1 DEF Partial
<1>6. Partial(NoRows, Leaves, TeacherLeave) /\ Partial(NoRows, Accounts, LeaveBalance)
  BY DEF Partial, NoRows
<1>7. Partial(seen, Accounts, LeaveBalance) /\ DOMAIN seen \subseteq DOMAIN balance
  BY <1>2, <1>4, <1>6 DEF Restrict, Partial, NoRows, LeaveInv, TypeOK
<1>8. IsTx(new) /\ new.seen = seen /\ new.decision = decision
  BY <1>3, <1>5, <1>6, <1>7 DEF IsTx, Fresh
<1>9. Refers(new)'
  BY <1>1, <1>4, <1>7, <1>8 DEF Refers, Committed
<1> QED
  BY <1>4, <1>8, <1>9, TxTyped DEF Committed, LeaveInv, TypeOK, Rows, Balances

LEMMA AllocateTyped ==
    ASSUME LeaveInv, NEW r \in Requests, NEW B \in SUBSET Accounts, NEW alloc \in [B -> 0..MaxDays],
           SetTeacherBalance(r, alloc), alone' \in BOOLEAN
    PROVE  LeaveInv'
<1>1. PICK new_balance : new_balance = [b \in DOMAIN alloc |->
                [total |-> alloc[b], used |-> IF b \in DOMAIN balance THEN balance[b].used ELSE 0]]
  OBVIOUS
<1>2. PICK seen : seen = Restrict(balance, DOMAIN alloc \cap DOMAIN balance)
  OBVIOUS
<1>3. PICK new : new = [Fresh EXCEPT !.state = "allocated", !.balance = new_balance, !.seen = seen]
  OBVIOUS
<1>4. tx' = [tx EXCEPT ![r] = new] /\ UNCHANGED Committed
  BY <1>1, <1>2, <1>3 DEF SetTeacherBalance, Begin
<1>5. \A b \in DOMAIN balance : balance[b].used \in 0..Most
  BY DEF LeaveInv, TypeOK, Partial, LeaveBalance, Most
<1>6. \A b \in B : new_balance[b] \in [total : 0..MaxDays, used : 0..Most]
  BY <1>1, <1>5, MostNat
<1>7. Partial(new_balance, Accounts, LeaveBalance)
  BY <1>1, <1>6 DEF Partial, LeaveBalance, Most
<1>8. Partial(seen, Accounts, LeaveBalance) /\ DOMAIN seen \subseteq DOMAIN balance
  BY <1>2 DEF Restrict, Partial, LeaveInv, TypeOK
<1>9. Partial(NoRows, Leaves, TeacherLeave) /\ Partial(NoRows, Leaves, LeaveStatus)
  BY DEF Partial, NoRows
<1>10. IsTx(new) /\ new.seen = seen /\ new.state = "allocated"
  BY <1>3, <1>7, <1>8, <1>9 DEF IsTx, Fresh
<1>11. Refers(new)'
  BY <1>4, <1>8, <1>10 DEF Refers, Committed
<1> QED
  BY <1>4, <1>10, <1>11, TxTyped DEF Committed, LeaveInv, TypeOK, Rows, Balances

LEMMA RecordTyped ==
    ASSUME LeaveInv, NEW r \in Requests, RecordDecision(r), alone' \in BOOLEAN
    PROVE  LeaveInv'
<1>1. PICK l \in DOMAIN tx[r].decision :
         LET b == leave[l].account
             outcome == tx[r].decision[l]
             row == [leave[l] EXCEPT !.status = IF outcome = "PENDING" THEN @ ELSE outcome]
             t == [tx[r] EXCEPT !.state = "recorded",
                     !.leave = IF outcome = "PENDING" THEN NoRows ELSE [x \in {l} |-> row],
                     !.seen = Merged(Restrict(balance, {b} \cap DOMAIN balance), @),
                     !.ask = {[to |-> "TEACHER", leave |-> l, says |-> row.status]}]
         IN  /\ tx[r].state = "decided"
             /\ tx' = [tx EXCEPT ![r] = [t EXCEPT !.balance = Synced(t, DOMAIN t.seen)]]
             /\ UNCHANGED Committed
  BY Zenon DEF RecordDecision
<1>2. PICK old : old = tx[r]
  OBVIOUS
<1>3. IsTx(old) /\ Refers(old) /\ old.state = "decided" /\ l \in Leaves /\ l \in DOMAIN leave
      /\ old.decision[l] \in LeaveStatus /\ leave[l] \in TeacherLeave /\ UNCHANGED Committed
  <2>1. IsTx(old) /\ Refers(old) /\ old.state = "decided" /\ UNCHANGED Committed
    BY <1>1, <1>2 DEF LeaveInv, TypeOK
  <2>2. l \in DOMAIN leave /\ old.decision[l] \in LeaveStatus
    BY <1>1, <1>2, <2>1 DEF Refers, IsTx, Partial
  <2> QED
    BY <2>1, <2>2 DEF LeaveInv, TypeOK, Partial
<1>4. PICK row : row = [leave[l] EXCEPT !.status = IF old.decision[l] = "PENDING" THEN @ ELSE old.decision[l]]
  OBVIOUS
<1>5. PICK rows : rows = IF old.decision[l] = "PENDING" THEN NoRows ELSE [x \in {l} |-> row]
  OBVIOUS
<1>6. PICK seen : seen = Merged(Restrict(balance, {leave[l].account} \cap DOMAIN balance), old.seen)
  OBVIOUS
<1>7. PICK ask : ask = {[to |-> "TEACHER", leave |-> l, says |-> row.status]}
  OBVIOUS
<1>8. PICK t : t = [old EXCEPT !.state = "recorded", !.leave = rows, !.seen = seen, !.ask = ask]
  OBVIOUS
<1>9. PICK balances : balances = Synced(t, DOMAIN t.seen)
  OBVIOUS
<1>10. PICK new : new = [t EXCEPT !.balance = balances]
  OBVIOUS
<1>11. tx' = [tx EXCEPT ![r] = new]
  BY <1>1, <1>2, <1>4, <1>5, <1>6, <1>7, <1>8, <1>9, <1>10
<1>12. row \in TeacherLeave /\ row.status \in LeaveStatus
  BY <1>3, <1>4 DEF TeacherLeave
<1>13. Partial(rows, Leaves, TeacherLeave) /\ ask \subseteq Notice
  BY <1>3, <1>5, <1>7, <1>12 DEF Partial, NoRows, Notice
<1>14. Partial(seen, Accounts, LeaveBalance) /\ DOMAIN seen \subseteq DOMAIN balance
  BY <1>3, <1>6 DEF Partial, Merged, Restrict, LeaveInv, TypeOK, IsTx, Refers
<1>15. t.leave = rows /\ t.seen = seen /\ t.balance = old.balance
  BY <1>3, <1>8 DEF IsTx
<1>16. Partial(balances, Accounts, LeaveBalance)
  BY <1>3, <1>9, <1>13, <1>14, <1>15, SyncedType DEF Balances, Rows, IsTx, LeaveInv, TypeOK
<1>17. IsTx(new) /\ new.seen = seen /\ new.state = "recorded"
  BY <1>3, <1>8, <1>10, <1>13, <1>14, <1>16 DEF IsTx
<1>18. Refers(new)'
  BY <1>3, <1>14, <1>17 DEF Refers, Committed
<1> QED
  BY <1>3, <1>11, <1>17, <1>18, TxTyped DEF Committed, LeaveInv, TypeOK, Rows, Balances

(* A step of one request that leaves its rows and balances as they are, or *)
(* drops them, and is not about to decide.                                 *)
LEMMA SameTyped ==
    ASSUME LeaveInv, NEW r \in Requests, NEW new, tx' = [tx EXCEPT ![r] = new],
           IsTx(new), new.seen \in {tx[r].seen, NoRows}, new.state # "decided",
           UNCHANGED <<leave, balance>>, notice' \subseteq Notice, alone' \in BOOLEAN
    PROVE  LeaveInv'
<1>1. Refers(new)'
  BY DEF Refers, NoRows, LeaveInv
<1> QED
  BY <1>1, TxTyped DEF LeaveInv, TypeOK, Rows, Balances

LEMMA ClosedTyped == IsTx(Closed) /\ IsTx(Fresh) /\ Closed.seen = NoRows /\ Fresh.seen = NoRows
                     /\ Closed.state = "done" /\ Fresh.state = "new"
BY DEF IsTx, Closed, Fresh, NoRows, Partial

LEMMA SyncTyped ==
    ASSUME LeaveInv, NEW r \in Requests, SyncAllocated(r), alone' \in BOOLEAN
    PROVE  LeaveInv'
<1>1. PICK old : old = tx[r]
  OBVIOUS
<1>2. IsTx(old)
  BY <1>1 DEF LeaveInv, TypeOK
<1>3. PICK balances : balances = Synced(old, DOMAIN old.balance)
  OBVIOUS
<1>4. Partial(balances, Accounts, LeaveBalance)
  BY <1>2, <1>3, SyncedType DEF IsTx, LeaveInv, TypeOK, Rows, Balances
<1>5. PICK new : new = [old EXCEPT !.state = "open", !.balance = balances]
  OBVIOUS
<1>6. tx' = [tx EXCEPT ![r] = new] /\ UNCHANGED Committed
  BY <1>1, <1>2, <1>3, <1>5 DEF SyncAllocated, IsTx, LeaveInv, TypeOK
<1>7. IsTx(new) /\ new.seen = old.seen /\ new.state = "open"
  BY <1>2, <1>4, <1>5 DEF IsTx
<1> QED
  BY <1>1, <1>6, <1>7, SameTyped DEF Committed, LeaveInv, TypeOK

LEMMA NotifyTeacherTyped ==
    ASSUME LeaveInv, NEW r \in Requests, NotifyTeacher(r), alone' \in BOOLEAN
    PROVE  LeaveInv'
<1>1. PICK old : old = tx[r]
  OBVIOUS
<1>2. IsTx(old)
  BY <1>1 DEF LeaveInv, TypeOK
<1>3. PICK new : new = [old EXCEPT !.state = "open", !.ask = {}]
  OBVIOUS
<1>4. tx' = [tx EXCEPT ![r] = new] /\ UNCHANGED <<leave, balance>> /\ notice' = notice \cup old.ask
  BY <1>1, <1>2, <1>3 DEF NotifyTeacher, IsTx, LeaveInv, TypeOK
<1>5. IsTx(new) /\ new.seen = old.seen /\ new.state = "open"
  BY <1>2, <1>3 DEF IsTx
<1>6. notice' \subseteq Notice
  BY <1>2, <1>4 DEF IsTx, LeaveInv, TypeOK
<1> QED
  BY <1>1, <1>4, <1>5, <1>6, SameTyped

LEMMA NotifyPrincipalTyped ==
    ASSUME LeaveInv, NEW r \in Requests, NotifyPrincipal(r), alone' \in BOOLEAN
    PROVE  LeaveInv'
<1>1. IsTx(tx[r])
  BY DEF LeaveInv, TypeOK
<1>2. notice' \subseteq Notice
  BY <1>1 DEF NotifyPrincipal, IsTx, LeaveInv, TypeOK
<1> QED
  BY <1>2, ClosedTyped, SameTyped DEF NotifyPrincipal

LEMMA AbortTyped ==
    ASSUME LeaveInv, NEW r \in Requests, Abort(r), alone' \in BOOLEAN
    PROVE  LeaveInv'
BY ClosedTyped, SameTyped DEF Abort, Committed, LeaveInv, TypeOK

LEMMA FlushedType ==
    ASSUME NEW now \in LeaveBalance, NEW seen \in LeaveBalance, NEW new \in LeaveBalance
    PROVE  FlushedBalance(now, seen, new) \in LeaveBalance
BY DEF FlushedBalance, Column, LeaveBalance

(* The balances that a commit writes.                                      *)
Written(t) == [b \in DOMAIN t.balance |-> IF b \in DOMAIN t.seen
                                          THEN FlushedBalance(balance[b], t.seen[b], t.balance[b])
                                          ELSE t.balance[b]]

LEMMA WrittenType ==
    ASSUME LeaveInv, NEW r \in Requests
    PROVE  Balances(Written(tx[r])) /\ DOMAIN Written(tx[r]) = DOMAIN tx[r].balance
<1>1. PICK t : t = tx[r]
  OBVIOUS
<1>2. IsTx(t) /\ Refers(t)
  BY <1>1 DEF LeaveInv, TypeOK
<1>3. \A b \in DOMAIN t.balance : t.balance[b] \in LeaveBalance
  BY <1>2 DEF IsTx, Partial
<1>4. \A b \in DOMAIN t.seen : t.seen[b] \in LeaveBalance /\ balance[b] \in LeaveBalance
  BY <1>2 DEF IsTx, Refers, Partial, LeaveInv, TypeOK
<1>5. \A b \in DOMAIN t.balance : Written(t)[b] \in LeaveBalance
  BY <1>3, <1>4, FlushedType DEF Written
<1> QED
  BY <1>1, <1>2, <1>5 DEF Written, Balances, Partial, IsTx

LEMMA CommitTyped ==
    ASSUME LeaveInv, NEW r \in Requests, Commit(r), alone' \in BOOLEAN
    PROVE  LeaveInv'
<1>1. PICK t : t = tx[r]
  OBVIOUS
<1>2. IsTx(t)
  BY <1>1 DEF LeaveInv, TypeOK
<1>3. PICK new : new = IF t.ask = {} THEN Closed ELSE [Fresh EXCEPT !.state = "answered", !.ask = t.ask]
  OBVIOUS
<1>4. /\ leave' = Merged(leave, t.leave)
      /\ balance' = Merged(balance, Written(t))
      /\ tx' = [tx EXCEPT ![r] = new]
      /\ UNCHANGED notice
  BY <1>1, <1>3 DEF Commit, Written
<1>5. IsTx(new) /\ new.seen = NoRows /\ new.state # "decided"
  <2>1. CASE t.ask = {}
    BY <1>3, <2>1, ClosedTyped
  <2>2. CASE t.ask # {}
    BY <1>2, <1>3, <2>2, ClosedTyped DEF IsTx, Fresh
  <2> QED
    BY <2>1, <2>2
<1>6. Refers(new)'
  BY <1>5 DEF Refers, NoRows
<1>7. Rows(leave') /\ DOMAIN leave \subseteq DOMAIN leave'
  BY <1>2, <1>4, MergedRows DEF Rows, IsTx, LeaveInv, TypeOK
<1>8. Balances(balance') /\ DOMAIN balance \subseteq DOMAIN balance'
  <2>1. Balances(Written(t))
    BY <1>1, WrittenType
  <2> QED
    BY <1>4, <2>1, MergedRows DEF Balances, LeaveInv, TypeOK
<1> QED
  BY <1>4, <1>5, <1>6, <1>7, <1>8, TxTyped DEF LeaveInv, TypeOK

LEMMA TypedInit == Init => LeaveInv
<1> SUFFICES ASSUME Init PROVE LeaveInv
  OBVIOUS
<1>1. Partial(balance, Accounts, LeaveBalance)
  <2>1. PICK B, total : /\ B \in SUBSET Accounts /\ total \in [B -> 0..MaxDays]
                        /\ balance = [b \in B |-> [total |-> total[b], used |-> 0]]
    BY DEF Init
  <2>2. \A b \in B : balance[b] \in [total : 0..MaxDays, used : 0..Most]
    BY <2>1, MostNat
  <2> QED
    BY <2>1, <2>2 DEF Partial, LeaveBalance, Most
<1>2. Partial(leave, Leaves, TeacherLeave)
  BY DEF Init, Partial
<1>3. \A r \in Requests : tx[r] = Fresh
  BY DEF Init
<1>4. TypeOK
  BY <1>1, <1>2, <1>3, ClosedTyped DEF Init, TypeOK
<1>5. \A r \in Requests : Refers(tx[r])
  BY <1>3, ClosedTyped DEF Refers, NoRows
<1> QED
  BY <1>4, <1>5 DEF LeaveInv

LEMMA TypedStep ==
    ASSUME LeaveInv, NEW r \in Requests, Step(r)
    PROVE  LeaveInv'
<1>1. alone' \in BOOLEAN
  BY DEF Step, LeaveInv, TypeOK
<1>2. ASSUME NEW l \in Leaves, NEW b \in Accounts, NEW days \in 1..MaxDays, ApplyLeave(r, l, b, days)
      PROVE  LeaveInv'
  BY <1>1, <1>2, ApplyTyped
<1>3. ASSUME NEW l \in Leaves, NEW outcome \in LeaveStatus, DecideLeave(r, l, outcome)
      PROVE  LeaveInv'
  BY <1>1, <1>3, DecideTyped
<1>4. ASSUME NEW B \in SUBSET Accounts \ {{}}, NEW alloc \in [B -> 0..MaxDays],
             SetTeacherBalance(r, alloc)
      PROVE  LeaveInv'
  BY <1>1, <1>4, AllocateTyped
<1>5. CASE RecordDecision(r)
  BY <1>1, <1>5, RecordTyped
<1>6. CASE NotifyTeacher(r)
  BY <1>1, <1>6, NotifyTeacherTyped
<1>7. CASE SyncAllocated(r)
  BY <1>1, <1>7, SyncTyped
<1>8. CASE Commit(r)
  BY <1>1, <1>8, CommitTyped
<1>9. CASE Abort(r)
  BY <1>1, <1>9, AbortTyped
<1>10. CASE NotifyPrincipal(r)
  BY <1>1, <1>10, NotifyPrincipalTyped
<1> QED
  BY <1>2, <1>3, <1>4, <1>5, <1>6, <1>7, <1>8, <1>9, <1>10 DEF Step, Serve

(* All rows and units of work are of their types, and refer to rows that   *)
(* are there.                                                              *)
THEOREM LeaveTyped == Spec => []LeaveInv
<1>1. LeaveInv /\ [Next]_vars => LeaveInv'
  <2> SUFFICES ASSUME LeaveInv, [Next]_vars PROVE LeaveInv'
    OBVIOUS
  <2>1. CASE UNCHANGED vars
    BY <2>1 DEF LeaveInv, TypeOK, Refers, vars
  <2>2. CASE Next
    BY <2>2, TypedStep DEF Next
  <2> QED
    BY <2>1, <2>2
<1> QED
  BY <1>1, TypedInit, PTL DEF Spec
-----------------------------------------------------------------------------
(* How a decision changes the days that are approved.                      *)
LEMMA NoneApproved ==
    ASSUME NEW rows, Rows(rows), NEW b,
           \A l \in DOMAIN rows : rows[l].status = "APPROVED" => rows[l].account # b
    PROVE  ApprovedDays(rows, b) = 0
<1>1. ApprovedOf(rows, b) = {}
  BY DEF ApprovedOf
<1>2. IsFiniteSet(DOMAIN rows)
  BY ApprovedType
<1> QED
  BY <1>1, <1>2, ApprovedIs, TotalEmpty

LEMMA SameApproved ==
    ASSUME NEW rows, NEW more, Rows(rows), Rows(more), NEW b,
           ApprovedOf(Merged(rows, more), b) = ApprovedOf(rows, b),
           \A l \in ApprovedOf(rows, b) : Merged(rows, more)[l].days = rows[l].days
    PROVE  ApprovedDays(Merged(rows, more), b) = ApprovedDays(rows, b)
<1> DEFINE both == Merged(rows, more)
           K == ApprovedOf(rows, b)
<1>1. Rows(both)
  BY MergedRows DEF Rows
<1>2. IsFiniteSet(DOMAIN both) /\ IsFiniteSet(DOMAIN rows) /\ IsFiniteSet(K)
  <2> HIDE DEF both
  <2> QED BY <1>1, ApprovedType
<1>3. \A l \in K : Days(both)[l] = Days(rows)[l]
  BY DEF Days, ApprovedOf, Merged
<1>4. Total(Days(both), K) = Total(Days(rows), K)
  <2> HIDE DEF both, K
  <2> QED BY <1>2, <1>3, TotalSame
<1>5. ApprovedDays(both, b) = Total(Days(both), ApprovedOf(both, b))
      /\ ApprovedDays(rows, b) = Total(Days(rows), K)
  <2> HIDE DEF both
  <2> QED BY <1>2, ApprovedIs
<1> QED
  BY <1>4, <1>5

(* Rows that are not approved, before or after, change nothing.            *)
LEMMA UnapprovedMerge ==
    ASSUME NEW rows, NEW more, Rows(rows), Rows(more), NEW b,
           \A l \in DOMAIN more : /\ more[l].status # "APPROVED"
                                  /\ l \in DOMAIN rows => rows[l].status # "APPROVED"
    PROVE  ApprovedDays(Merged(rows, more), b) = ApprovedDays(rows, b)
<1>1. ApprovedOf(Merged(rows, more), b) = ApprovedOf(rows, b)
  BY DEF ApprovedOf, Merged
<1>2. \A l \in ApprovedOf(rows, b) : Merged(rows, more)[l].days = rows[l].days
  BY DEF ApprovedOf, Merged
<1> QED
  BY <1>1, <1>2, SameApproved

(* One pending row that is approved adds its days to its account.          *)
LEMMA ApprovedMerge ==
    ASSUME NEW rows, Rows(rows), NEW l \in DOMAIN rows, rows[l].status # "APPROVED",
           NEW row \in TeacherLeave, row.status = "APPROVED",
           row.account = rows[l].account, row.days = rows[l].days,
           NEW more, Rows(more), more = [x \in {l} |-> row], NEW b
    PROVE  ApprovedDays(Merged(rows, more), b)
           = ApprovedDays(rows, b) + (IF b = row.account THEN row.days ELSE 0)
<1> DEFINE both == Merged(rows, more)
           K == ApprovedOf(rows, b)
<1>1. Rows(both) /\ DOMAIN both = DOMAIN rows /\ both[l] = row
      /\ \A x \in DOMAIN rows : x # l => both[x] = rows[x]
  BY MergedRows DEF Rows, Merged
<1>2. CASE b # row.account
  <2>1. ApprovedOf(both, b) = K
    BY <1>2 DEF ApprovedOf, Merged
  <2>2. \A x \in K : both[x].days = rows[x].days
    BY <1>2 DEF ApprovedOf, Merged
  <2>3. ApprovedDays(both, b) = ApprovedDays(rows, b)
    BY <2>1, <2>2, SameApproved
  <2>4. ApprovedDays(rows, b) \in 0..Most
    BY ApprovedType
  <2> QED
    BY <1>2, <2>3, <2>4, MostNat
<1>3. CASE b = row.account
  <2>1. ApprovedOf(both, b) = K \cup {l} /\ l \notin K
    BY <1>3 DEF ApprovedOf, Merged
  <2>2. \A x \in K : Days(both)[x] = Days(rows)[x]
    BY DEF Days, ApprovedOf, Merged
  <2>3. Days(both)[l] = row.days
    BY DEF Days, Merged
  <2>4. /\ IsFiniteSet(DOMAIN both) /\ IsFiniteSet(DOMAIN rows) /\ IsFiniteSet(K)
        /\ \A x \in DOMAIN both : Days(both)[x] \in Nat
    <3> HIDE DEF both
    <3> QED BY <1>1, ApprovedType
  <2>5. K \cup {l} \subseteq DOMAIN both
    BY <1>1 DEF ApprovedOf
  <2>6. Total(Days(both), K \cup {l}) = Days(both)[l] + Total(Days(both), K)
    <3>1. \A x \in K \cup {l} : Days(both)[x] \in Int
      BY <2>4, <2>5
    <3> HIDE DEF both, K
    <3> QED BY <2>1, <2>4, <3>1, TotalAdd
  <2>7. Total(Days(both), K) = Total(Days(rows), K)
    <3> HIDE DEF both, K
    <3> QED BY <2>2, <2>4, TotalSame
  <2>8. ApprovedDays(both, b) = Total(Days(both), K \cup {l})
        /\ ApprovedDays(rows, b) = Total(Days(rows), K)
    <3> HIDE DEF both
    <3> QED BY <2>1, <2>4, ApprovedIs
  <2>9. ApprovedDays(rows, b) \in 0..Most /\ row.days \in Nat
    BY ApprovedType, MostNat DEF TeacherLeave
  <2> QED
    BY <1>3, <2>3, <2>6, <2>7, <2>8, <2>9, MostNat
<1> QED
  BY <1>2, <1>3
-----------------------------------------------------------------------------
(* Approvals are within balances, which say how many days are used.        *)
Sound(rows, balances) ==
    /\ \A l \in DOMAIN rows : rows[l].status = "APPROVED" => rows[l].account \in DOMAIN balances
    /\ \A b \in DOMAIN balances : /\ ApprovedDays(rows, b) <= balances[b].total
                                  /\ balances[b].used = ApprovedDays(rows, b)

(* What an open request read is still so, and what it will commit is       *)
(* sound.                                                                  *)
AsRead(t) == \A b \in DOMAIN t.seen : b \in DOMAIN balance /\ t.seen[b] = balance[b]
Ready(t) ==
    /\ AsRead(t)
    /\ t.state = "decided" =>
          /\ t.balance = NoRows
          /\ \A l \in DOMAIN t.decision :
                /\ l \in DOMAIN leave /\ leave[l].status = "PENDING"
                /\ t.decision[l] = "APPROVED" => Fits(leave[l].account, leave[l].days)
    /\ t.state = "allocated" =>
          /\ t.leave = NoRows
          /\ \A b \in DOMAIN t.balance \cap DOMAIN balance :
                t.balance[b].total >= ApprovedDays(leave, b)
    /\ t.state \in {"recorded", "open"} =>
          Sound(Merged(leave, t.leave), Merged(balance, t.balance))

OpenState == {"decided", "recorded", "allocated", "open"}

(* The inductive invariant: while handlers have not overlapped, the        *)
(* committed rows are sound, and so is what the open request will leave.   *)
AccountInv ==
    /\ LeaveInv
    /\ alone => /\ \A p, q \in Requests : Open(p) /\ Open(q) => p = q
                /\ Sound(leave, balance)
                /\ \A r \in Requests : Open(r) => Ready(tx[r])

AloneStep == alone' = (alone /\ \A p, q \in Requests : Open(p)' /\ Open(q)' => p = q)

LEMMA KeepsAccounts ==
    ASSUME AccountInv, LeaveInv', AloneStep, NEW r \in Requests, NEW new,
           tx' = [tx EXCEPT ![r] = new], UNCHANGED <<leave, balance>>,
           alone /\ new.state \in OpenState => Ready(new)
    PROVE  AccountInv'
<1> SUFFICES ASSUME alone'
             PROVE  /\ \A p, q \in Requests : Open(p)' /\ Open(q)' => p = q
                    /\ Sound(leave, balance)'
                    /\ \A q \in Requests : Open(q)' => Ready(tx[q])'
  BY DEF AccountInv
<1>1. alone /\ \A p, q \in Requests : Open(p)' /\ Open(q)' => p = q
  BY DEF AloneStep
<1>2. Sound(leave, balance)'
  BY <1>1 DEF AccountInv, Sound
<1>3. \A t : Ready(t)' <=> Ready(t)
  BY DEF Ready, AsRead, Fits, Sound, Merged
<1>4. ASSUME NEW q \in Requests, Open(q)' PROVE Ready(tx[q])'
  <2>1. DOMAIN tx = Requests
    BY DEF AccountInv, LeaveInv, TypeOK
  <2>2. CASE q = r
    <3>1. tx'[q] = new /\ new.state \in OpenState
      BY <1>4, <2>1, <2>2 DEF Open, OpenState
    <3>2. Ready(new)'
      BY <1>1, <1>3, <3>1
    <3> QED
      BY <3>1, <3>2 DEF Ready, AsRead, Fits
  <2>3. CASE q # r
    <3>1. tx'[q] = tx[q] /\ Open(q)
      BY <1>4, <2>1, <2>3 DEF Open
    <3>2. PICK t : t = tx[q]
      OBVIOUS
    <3>3. Ready(t)'
      BY <1>1, <1>3, <3>1, <3>2 DEF AccountInv
    <3> QED
      BY <3>1, <3>2, <3>3 DEF Ready, AsRead, Fits
  <2> QED
    BY <2>2, <2>3
<1> QED
  BY <1>1, <1>2, <1>4

LEMMA ApplyKeeps ==
    ASSUME AccountInv, LeaveInv', AloneStep, NEW r \in Requests, NEW l \in Leaves,
           NEW b \in Accounts, NEW days \in 1..MaxDays, ApplyLeave(r, l, b, days)
    PROVE  AccountInv'
<1>1. PICK row : row = [account |-> b, days |-> days, status |-> "PENDING"]
  OBVIOUS
<1>2. PICK rows : rows = [x \in {l} |-> row]
  OBVIOUS
<1>3. PICK ask : ask = {[to |-> "PRINCIPAL", leave |-> l, says |-> "PENDING"]}
  OBVIOUS
<1>4. PICK new : new = [Fresh EXCEPT !.state = "open", !.leave = rows, !.ask = ask]
  OBVIOUS
<1>5. tx' = [tx EXCEPT ![r] = new] /\ UNCHANGED Committed /\ l \notin DOMAIN leave
  BY <1>1, <1>2, <1>3, <1>4 DEF ApplyLeave, Begin, FreshId
<1>6. new.state = "open" /\ new.leave = rows /\ new.balance = NoRows /\ new.seen = NoRows
  BY <1>4 DEF Fresh
<1>7. Rows(rows) /\ Rows(leave) /\ row.status # "APPROVED"
  BY <1>1, <1>2 DEF Rows, Partial, TeacherLeave, LeaveStatus, AccountInv, LeaveInv, TypeOK
<1>8. \A c : ApprovedDays(Merged(leave, rows), c) = ApprovedDays(leave, c)
  BY <1>2, <1>5, <1>7, UnapprovedMerge
<1>9. Merged(balance, NoRows) = balance
  BY DEF Merged, NoRows, AccountInv, LeaveInv, TypeOK, Partial
<1>10. ASSUME alone PROVE Sound(Merged(leave, rows), balance)
  <2>1. Sound(leave, balance)
    BY <1>10 DEF AccountInv
  <2> QED
    BY <1>2, <1>7, <1>8, <2>1 DEF Sound, Merged
<1>11. ASSUME alone PROVE Ready(new)
  BY <1>6, <1>9, <1>10, <1>11 DEF Ready, AsRead, NoRows
<1> QED
  BY <1>5, <1>11, KeepsAccounts DEF Committed

LEMMA DecideKeeps ==
    ASSUME AccountInv, LeaveInv', AloneStep, NEW r \in Requests, NEW l \in Leaves,
           NEW outcome \in LeaveStatus, DecideLeave(r, l, outcome)
    PROVE  AccountInv'
<1>1. PICK decision : decision = [x \in {l} |-> outcome]
  OBVIOUS
<1>2. PICK seen : seen = IF outcome = "APPROVED" THEN Restrict(balance, {leave[l].account}) ELSE NoRows
  OBVIOUS
<1>3. PICK new : new = [Fresh EXCEPT !.state = "decided", !.decision = decision, !.seen = seen]
  OBVIOUS
<1>4. /\ tx' = [tx EXCEPT ![r] = new] /\ UNCHANGED Committed
      /\ l \in DOMAIN leave /\ leave[l].status = "PENDING"
      /\ outcome = "APPROVED" => Fits(leave[l].account, leave[l].days)
  BY <1>1, <1>2, <1>3 DEF DecideLeave, Begin
<1>5. \A b \in DOMAIN seen : b \in DOMAIN balance /\ seen[b] = balance[b]
  BY <1>2, <1>4 DEF Restrict, NoRows, Fits
<1>6. /\ new.state = "decided" /\ new.decision = decision /\ new.seen = seen
      /\ new.balance = NoRows
  BY <1>3 DEF Fresh
<1>7. Ready(new)
  BY <1>1, <1>4, <1>5, <1>6 DEF Ready, AsRead
<1> QED
  BY <1>4, <1>7, KeepsAccounts DEF Committed

LEMMA AllocateKeeps ==
    ASSUME AccountInv, LeaveInv', AloneStep, NEW r \in Requests, NEW B \in SUBSET Accounts,
           NEW alloc \in [B -> 0..MaxDays], SetTeacherBalance(r, alloc)
    PROVE  AccountInv'
<1>1. PICK balances : balances = [b \in DOMAIN alloc |->
                [total |-> alloc[b], used |-> IF b \in DOMAIN balance THEN balance[b].used ELSE 0]]
  OBVIOUS
<1>2. PICK seen : seen = Restrict(balance, DOMAIN alloc \cap DOMAIN balance)
  OBVIOUS
<1>3. PICK new : new = [Fresh EXCEPT !.state = "allocated", !.balance = balances, !.seen = seen]
  OBVIOUS
<1>4. /\ tx' = [tx EXCEPT ![r] = new] /\ UNCHANGED Committed
      /\ \A b \in DOMAIN alloc \cap DOMAIN balance : alloc[b] >= ApprovedDays(leave, b)
  BY <1>1, <1>2, <1>3 DEF SetTeacherBalance, Begin, Allowed
<1>5. \A b \in DOMAIN seen : b \in DOMAIN balance /\ seen[b] = balance[b]
  BY <1>2 DEF Restrict
<1>6. /\ new.state = "allocated" /\ new.seen = seen /\ new.balance = balances
      /\ new.leave = NoRows
  BY <1>3 DEF Fresh
<1>7. Ready(new)
  BY <1>1, <1>4, <1>5, <1>6 DEF Ready, AsRead
<1> QED
  BY <1>4, <1>7, KeepsAccounts DEF Committed

(* Balances recounted from the rows to be written.                         *)
LEMMA SyncedRow ==
    ASSUME NEW t, NEW B, Balances(t.balance), Balances(t.seen),
           B \subseteq DOMAIN t.balance \cup DOMAIN t.seen, NEW b \in B
    PROVE  /\ Synced(t, B)[b].used = ApprovedDays(Merged(leave, t.leave), b)
           /\ Synced(t, B)[b].total
              = (IF b \in DOMAIN t.balance THEN t.balance[b] ELSE t.seen[b]).total
           /\ DOMAIN Synced(t, B) = B
<1>1. PICK old : old = (IF b \in DOMAIN t.balance THEN t.balance ELSE t.seen)[b]
  OBVIOUS
<1>2. old \in LeaveBalance
  BY <1>1 DEF Balances, Partial
<1>3. PICK days : days = ApprovedDays(Merged(leave, t.leave), b)
  OBVIOUS
<1>4. Synced(t, B)[b] = [old EXCEPT !.used = days] /\ DOMAIN Synced(t, B) = B
  BY <1>1, <1>3 DEF Synced
<1>5. [old EXCEPT !.used = days].used = days /\ [old EXCEPT !.used = days].total = old.total
  BY <1>2 DEF LeaveBalance
<1> QED
  BY <1>1, <1>3, <1>4, <1>5

LEMMA RecordKeeps ==
    ASSUME AccountInv, LeaveInv', AloneStep, NEW r \in Requests, RecordDecision(r)
    PROVE  AccountInv'
<1>1. PICK l \in DOMAIN tx[r].decision :
         LET b == leave[l].account
             outcome == tx[r].decision[l]
             row == [leave[l] EXCEPT !.status = IF outcome = "PENDING" THEN @ ELSE outcome]
             t == [tx[r] EXCEPT !.state = "recorded",
                     !.leave = IF outcome = "PENDING" THEN NoRows ELSE [x \in {l} |-> row],
                     !.seen = Merged(Restrict(balance, {b} \cap DOMAIN balance), @),
                     !.ask = {[to |-> "TEACHER", leave |-> l, says |-> row.status]}]
         IN  /\ tx[r].state = "decided"
             /\ tx' = [tx EXCEPT ![r] = [t EXCEPT !.balance = Synced(t, DOMAIN t.seen)]]
             /\ UNCHANGED Committed
  BY Zenon DEF RecordDecision
<1>2. PICK old : old = tx[r]
  OBVIOUS
<1>3. IsTx(old) /\ Refers(old) /\ old.state = "decided" /\ l \in DOMAIN old.decision
      /\ UNCHANGED Committed /\ Open(r)
  BY <1>1, <1>2 DEF AccountInv, LeaveInv, TypeOK, Open
<1>4. l \in Leaves /\ l \in DOMAIN leave /\ old.decision[l] \in LeaveStatus /\ leave[l] \in TeacherLeave
      /\ Rows(leave) /\ Balances(balance)
  BY <1>3 DEF Refers, IsTx, Partial, AccountInv, LeaveInv, TypeOK, Rows, Balances
<1>5. PICK row : row = [leave[l] EXCEPT !.status = IF old.decision[l] = "PENDING" THEN @ ELSE old.decision[l]]
  OBVIOUS
<1>6. PICK rows : rows = IF old.decision[l] = "PENDING" THEN NoRows ELSE [x \in {l} |-> row]
  OBVIOUS
<1>7. PICK seen : seen = Merged(Restrict(balance, {leave[l].account} \cap DOMAIN balance), old.seen)
  OBVIOUS
<1>8. PICK ask : ask = {[to |-> "TEACHER", leave |-> l, says |-> row.status]}
  OBVIOUS
<1>9. PICK t : t = [old EXCEPT !.state = "recorded", !.leave = rows, !.seen = seen, !.ask = ask]
  OBVIOUS
<1>10. PICK balances : balances = Synced(t, DOMAIN t.seen)
  OBVIOUS
<1>11. PICK new : new = [t EXCEPT !.balance = balances]
  OBVIOUS
<1>12. tx' = [tx EXCEPT ![r] = new]
  BY <1>1, <1>2, <1>5, <1>6, <1>7, <1>8, <1>9, <1>10, <1>11
<1>13. /\ t.leave = rows /\ t.seen = seen /\ t.balance = old.balance
       /\ new.leave = rows /\ new.seen = seen /\ new.balance = balances /\ new.state = "recorded"
  BY <1>3, <1>9, <1>11 DEF IsTx
<1>14. row \in TeacherLeave /\ row.account = leave[l].account /\ row.days = leave[l].days
       /\ row.status = (IF old.decision[l] = "PENDING" THEN leave[l].status ELSE old.decision[l])
  BY <1>4, <1>5 DEF TeacherLeave
<1>15. Rows(rows)
  BY <1>4, <1>6, <1>14 DEF Rows, Partial, NoRows
<1>16. ASSUME alone PROVE Ready(new)
  <2>1. Ready(old) /\ Sound(leave, balance)
    BY <1>2, <1>3, <1>16 DEF AccountInv
  <2>2. /\ old.balance = NoRows
        /\ leave[l].status = "PENDING"
        /\ old.decision[l] = "APPROVED" => Fits(leave[l].account, leave[l].days)
        /\ \A b \in DOMAIN old.seen : b \in DOMAIN balance /\ old.seen[b] = balance[b]
    BY <1>3, <2>1 DEF Ready, AsRead
  <2>3. /\ \A b \in DOMAIN seen : b \in DOMAIN balance /\ seen[b] = balance[b]
        /\ leave[l].account \in DOMAIN balance => leave[l].account \in DOMAIN seen
    BY <1>7, <2>2 DEF Merged, Restrict
  <2>4. Balances(seen) /\ Balances(NoRows)
    <3>1. seen \in [DOMAIN seen -> LeaveBalance]
      <4>1. seen = [b \in DOMAIN seen |-> seen[b]]
        BY <1>7 DEF Merged
      <4>2. \A b \in DOMAIN seen : seen[b] \in LeaveBalance
        BY <1>4, <2>3 DEF Balances, Partial
      <4> QED
        BY <4>1, <4>2
    <3>2. DOMAIN seen \subseteq Accounts
      BY <1>4, <2>3 DEF Balances, Partial
    <3>3. Balances(seen)
      BY <3>1, <3>2 DEF Balances, Partial
    <3> QED
      BY <3>3 DEF Balances, Partial, NoRows
  <2>5. DOMAIN balances = DOMAIN seen
    BY <1>10, <1>13, <2>2 DEF Synced
  <2>6. ASSUME NEW b \in DOMAIN seen
        PROVE  balances[b].used = ApprovedDays(Merged(leave, rows), b)
               /\ balances[b].total = balance[b].total
    <3>1. /\ Synced(t, DOMAIN t.seen)[b].used = ApprovedDays(Merged(leave, t.leave), b)
          /\ Synced(t, DOMAIN t.seen)[b].total
              = (IF b \in DOMAIN t.balance THEN t.balance[b] ELSE t.seen[b]).total
      BY <1>13, <2>2, <2>4, SyncedRow
    <3> QED
      BY <1>10, <1>13, <2>2, <2>3, <3>1 DEF NoRows
  <2>7. ASSUME old.decision[l] = "APPROVED", NEW b
        PROVE  ApprovedDays(Merged(leave, rows), b)
               = ApprovedDays(leave, b) + (IF b = leave[l].account THEN leave[l].days ELSE 0)
    BY <1>4, <1>6, <1>14, <1>15, <2>2, <2>7, ApprovedMerge
  <2>8. ASSUME old.decision[l] # "APPROVED", NEW b
        PROVE  ApprovedDays(Merged(leave, rows), b) = ApprovedDays(leave, b)
    <3>1. \A x \in DOMAIN rows : x = l /\ rows[x] = row /\ row.status # "APPROVED"
      BY <1>6, <1>14, <2>2, <2>8 DEF NoRows
    <3> QED
      BY <1>4, <1>15, <2>2, <3>1, UnapprovedMerge
  <2>9. \A b : ApprovedDays(leave, b) \in Nat
    BY <1>4, ApprovedType, MostNat
  <2>10. ASSUME NEW b \in DOMAIN balance
         PROVE  /\ ApprovedDays(Merged(leave, rows), b) <= balance[b].total
                /\ b \notin DOMAIN seen => ApprovedDays(Merged(leave, rows), b) = ApprovedDays(leave, b)
    <3>1. ApprovedDays(leave, b) <= balance[b].total /\ balance[b].total \in Nat
      BY <1>4, <2>1, MostNat DEF Sound, Balances, Partial, LeaveBalance
    <3>2. CASE old.decision[l] # "APPROVED"
      BY <2>8, <3>1, <3>2
    <3>3. CASE old.decision[l] = "APPROVED"
      <4>1. leave[l].days \in Nat
        BY <1>4, MostNat DEF TeacherLeave
      <4>2. CASE b = leave[l].account
        <5>1. balance[b].total - ApprovedDays(leave, b) >= leave[l].days
          BY <2>2, <3>3, <4>2 DEF Fits
        <5>2. ApprovedDays(Merged(leave, rows), b) = ApprovedDays(leave, b) + leave[l].days
          BY <2>7, <3>3, <4>2
        <5> QED
          BY <2>3, <2>9, <3>1, <4>1, <4>2, <5>1, <5>2
      <4>3. CASE b # leave[l].account
        <5>1. ApprovedDays(Merged(leave, rows), b) = ApprovedDays(leave, b) + 0
          BY <2>7, <3>3, <4>3
        <5> QED
          BY <2>9, <3>1, <5>1
      <4> QED
        BY <4>2, <4>3
    <3> QED
      BY <3>2, <3>3
  <2>11. Sound(Merged(leave, rows), Merged(balance, balances))
    <3>1. DOMAIN Merged(balance, balances) = DOMAIN balance
      BY <2>3, <2>5 DEF Merged
    <3>2. ASSUME NEW b \in DOMAIN balance
          PROVE  LET now == Merged(balance, balances)[b] IN
                 /\ ApprovedDays(Merged(leave, rows), b) <= now.total
                 /\ now.used = ApprovedDays(Merged(leave, rows), b)
      <4>1. CASE b \in DOMAIN seen
        <5>1. Merged(balance, balances)[b] = balances[b]
          BY <2>5, <4>1 DEF Merged
        <5> QED
          BY <2>6, <2>10, <4>1, <5>1
      <4>2. CASE b \notin DOMAIN seen
        <5>1. Merged(balance, balances)[b] = balance[b]
          BY <2>5, <4>2 DEF Merged
        <5>2. balance[b].used = ApprovedDays(leave, b)
          BY <2>1 DEF Sound
        <5> QED
          BY <2>10, <4>2, <5>1, <5>2
      <4> QED
        BY <4>1, <4>2
    <3>3. ASSUME NEW x \in DOMAIN Merged(leave, rows), Merged(leave, rows)[x].status = "APPROVED"
          PROVE  Merged(leave, rows)[x].account \in DOMAIN balance
      <4>1. CASE x \in DOMAIN rows
        <5>1. x = l /\ rows[x] = row /\ old.decision[l] # "PENDING"
          BY <1>6, <4>1 DEF NoRows
        <5>2. Merged(leave, rows)[x] = row
          BY <4>1, <5>1 DEF Merged
        <5>3. old.decision[l] = "APPROVED"
          BY <1>14, <3>3, <5>1, <5>2
        <5> QED
          BY <1>14, <2>2, <5>2, <5>3 DEF Fits
      <4>2. CASE x \notin DOMAIN rows
        BY <2>1, <3>3, <4>2 DEF Merged, Sound
      <4> QED
        BY <4>1, <4>2
    <3> QED
      BY <3>1, <3>2, <3>3 DEF Sound
  <2> QED
    BY <1>13, <2>3, <2>11 DEF Ready, AsRead
<1> QED
  BY <1>3, <1>12, <1>16, KeepsAccounts DEF Committed

LEMMA SyncKeeps ==
    ASSUME AccountInv, LeaveInv', AloneStep, NEW r \in Requests, SyncAllocated(r)
    PROVE  AccountInv'
<1>1. PICK old : old = tx[r]
  OBVIOUS
<1>2. IsTx(old) /\ old.state = "allocated" /\ Open(r)
  BY <1>1 DEF AccountInv, LeaveInv, TypeOK, SyncAllocated, Open
<1>3. PICK balances : balances = Synced(old, DOMAIN old.balance)
  OBVIOUS
<1>4. PICK new : new = [old EXCEPT !.state = "open", !.balance = balances]
  OBVIOUS
<1>5. tx' = [tx EXCEPT ![r] = new] /\ UNCHANGED Committed
  BY <1>1, <1>2, <1>3, <1>4 DEF SyncAllocated, IsTx, AccountInv, LeaveInv, TypeOK
<1>6. new.seen = old.seen /\ new.state = "open" /\ new.balance = balances /\ new.leave = old.leave
  BY <1>2, <1>4 DEF IsTx
<1>7. Balances(old.balance) /\ Balances(old.seen) /\ Rows(leave) /\ Balances(balance)
  BY <1>2 DEF IsTx, Balances, Rows, AccountInv, LeaveInv, TypeOK
<1>8. ASSUME alone PROVE Ready(new)
  <2>1. Ready(old) /\ Sound(leave, balance)
    BY <1>1, <1>2, <1>8 DEF AccountInv
  <2>2. /\ old.leave = NoRows /\ AsRead(old)
        /\ \A b \in DOMAIN old.balance \cap DOMAIN balance :
              old.balance[b].total >= ApprovedDays(leave, b)
    BY <1>2, <2>1 DEF Ready
  <2>3. Merged(leave, NoRows) = leave
    BY <1>7 DEF Merged, NoRows, Rows, Partial
  <2>4. DOMAIN balances = DOMAIN old.balance
    BY <1>3 DEF Synced
  <2>5. ASSUME NEW b \in DOMAIN old.balance
        PROVE  /\ balances[b].used = ApprovedDays(leave, b)
               /\ ApprovedDays(leave, b) <= balances[b].total
    <3>1. balances[b].used = ApprovedDays(leave, b) /\ balances[b].total = old.balance[b].total
      BY <1>3, <1>7, <2>2, <2>3, SyncedRow
    <3>2. CASE b \in DOMAIN balance
      BY <1>7, <2>2, <3>1, <3>2, ApprovedType, MostNat DEF Balances, Partial, LeaveBalance
    <3>3. CASE b \notin DOMAIN balance
      <4>1. ApprovedDays(leave, b) = 0
        BY <1>7, <2>1, <3>3, NoneApproved DEF Sound
      <4>2. old.balance[b].total \in Nat
        BY <1>7, MostNat DEF Balances, Partial, LeaveBalance
      <4> QED
        BY <3>1, <4>1, <4>2
    <3> QED
      BY <3>1, <3>2, <3>3
  <2>6. Sound(leave, Merged(balance, balances))
    <3>1. DOMAIN Merged(balance, balances) = DOMAIN balance \cup DOMAIN old.balance
      BY <2>4 DEF Merged
    <3>2. ASSUME NEW b \in DOMAIN balance \cup DOMAIN old.balance
          PROVE  LET now == Merged(balance, balances)[b] IN
                 /\ ApprovedDays(leave, b) <= now.total
                 /\ now.used = ApprovedDays(leave, b)
      <4>1. CASE b \in DOMAIN old.balance
        <5>1. Merged(balance, balances)[b] = balances[b]
          BY <2>4, <4>1 DEF Merged
        <5> QED
          BY <2>5, <4>1, <5>1
      <4>2. CASE b \notin DOMAIN old.balance
        <5>1. Merged(balance, balances)[b] = balance[b] /\ b \in DOMAIN balance
          BY <2>4, <4>2 DEF Merged
        <5> QED
          BY <2>1, <5>1 DEF Sound
      <4> QED
        BY <4>1, <4>2
    <3> QED
      BY <2>1, <3>1, <3>2 DEF Sound
  <2> QED
    BY <1>6, <2>2, <2>3, <2>6 DEF Ready, AsRead
<1> QED
  BY <1>5, <1>8, KeepsAccounts DEF Committed

LEMMA NotifyTeacherKeeps ==
    ASSUME AccountInv, LeaveInv', AloneStep, NEW r \in Requests, NotifyTeacher(r)
    PROVE  AccountInv'
<1>1. PICK old : old = tx[r]
  OBVIOUS
<1>2. IsTx(old) /\ old.state = "recorded" /\ Open(r)
  BY <1>1 DEF AccountInv, LeaveInv, TypeOK, NotifyTeacher, Open
<1>3. PICK new : new = [old EXCEPT !.state = "open", !.ask = {}]
  OBVIOUS
<1>4. tx' = [tx EXCEPT ![r] = new] /\ UNCHANGED <<leave, balance>>
  BY <1>1, <1>2, <1>3 DEF NotifyTeacher, IsTx, AccountInv, LeaveInv, TypeOK
<1>5. new.seen = old.seen /\ new.state = "open" /\ new.balance = old.balance /\ new.leave = old.leave
  BY <1>2, <1>3 DEF IsTx
<1>6. ASSUME alone PROVE Ready(new)
  <2>1. Ready(old)
    BY <1>1, <1>2, <1>6 DEF AccountInv
  <2> QED
    BY <1>2, <1>5, <2>1 DEF Ready, AsRead
<1> QED
  BY <1>4, <1>6, KeepsAccounts

(* Over the balances that were read and have not changed, a commit writes  *)
(* what the handler has computed.                                          *)
LEMMA WrittenIs ==
    ASSUME NEW t, IsTx(t), AsRead(t)
    PROVE  Written(t) = t.balance
<1>1. ASSUME NEW b \in DOMAIN t.balance
      PROVE  Written(t)[b] = t.balance[b]
  <2>1. CASE b \notin DOMAIN t.seen
    BY <2>1 DEF Written
  <2>2. CASE b \in DOMAIN t.seen
    <3>1. t.seen[b] = balance[b] /\ t.balance[b] \in LeaveBalance
      BY <2>2 DEF AsRead, IsTx, Partial
    <3>2. FlushedBalance(balance[b], t.seen[b], t.balance[b])
          = [total |-> t.balance[b].total, used |-> t.balance[b].used]
      BY <3>1 DEF FlushedBalance, Column
    <3> QED
      BY <2>2, <3>1, <3>2 DEF Written, LeaveBalance
  <2> QED
    BY <2>1, <2>2
<1>2. t.balance = [b \in DOMAIN t.balance |-> t.balance[b]]
  BY DEF IsTx, Partial
<1>3. Written(t) = [b \in DOMAIN t.balance |-> Written(t)[b]]
  BY DEF Written
<1> QED
  BY <1>1, <1>2, <1>3

LEMMA CommitKeepsAccounts ==
    ASSUME AccountInv, LeaveInv', AloneStep, NEW r \in Requests, Commit(r)
    PROVE  AccountInv'
<1> SUFFICES ASSUME alone'
             PROVE  /\ \A p, q \in Requests : Open(p)' /\ Open(q)' => p = q
                    /\ Sound(leave, balance)'
                    /\ \A q \in Requests : Open(q)' => Ready(tx[q])'
  BY DEF AccountInv
<1>1. alone /\ \A p, q \in Requests : Open(p)' /\ Open(q)' => p = q
  BY DEF AloneStep
<1>2. PICK t : t = tx[r]
  OBVIOUS
<1>3. IsTx(t) /\ t.state = "open" /\ Open(r)
  BY <1>2 DEF AccountInv, LeaveInv, TypeOK, Commit, Open
<1>4. Ready(t)
  BY <1>1, <1>2, <1>3 DEF AccountInv
<1>5. leave' = Merged(leave, t.leave) /\ balance' = Merged(balance, t.balance)
  <2>1. leave' = Merged(leave, t.leave) /\ balance' = Merged(balance, Written(t))
    BY <1>2 DEF Commit, Written
  <2> QED
    BY <1>3, <1>4, <2>1, WrittenIs DEF Ready
<1>6. Sound(leave', balance')
  BY <1>3, <1>4, <1>5 DEF Ready
<1>7. Sound(leave, balance)'
  BY <1>6 DEF Sound
<1>8. \A q \in Requests : ~Open(q)'
  <2>1. PICK new : new = IF t.ask = {} THEN Closed ELSE [Fresh EXCEPT !.state = "answered", !.ask = t.ask]
    OBVIOUS
  <2>2. new.state \notin OpenState
    BY <2>1, ClosedTyped DEF Fresh, OpenState
  <2>3. tx' = [tx EXCEPT ![r] = new] /\ DOMAIN tx = Requests
    BY <1>2, <2>1 DEF Commit, AccountInv, LeaveInv, TypeOK
  <2>4. \A q \in Requests \ {r} : ~Open(q)
    BY <1>1, <1>3 DEF AccountInv
  <2> QED
    BY <2>2, <2>3, <2>4 DEF Open, OpenState
<1> QED
  BY <1>1, <1>7, <1>8

LEMMA EndKeeps ==
    ASSUME AccountInv, LeaveInv', AloneStep, NEW r \in Requests, Abort(r) \/ NotifyPrincipal(r)
    PROVE  AccountInv'
<1>1. tx' = [tx EXCEPT ![r] = Closed] /\ UNCHANGED <<leave, balance>>
  BY DEF Abort, NotifyPrincipal, Committed
<1>2. Closed.state \notin OpenState
  BY ClosedTyped DEF OpenState
<1> QED
  BY <1>1, <1>2, KeepsAccounts

LEMMA AccountInit == Init => AccountInv
<1> SUFFICES ASSUME Init PROVE AccountInv
  OBVIOUS
<1>1. LeaveInv
  BY TypedInit
<1>2. \A r \in Requests : ~Open(r)
  BY ClosedTyped DEF Init, Open
<1>3. PICK B, total : /\ B \in SUBSET Accounts /\ total \in [B -> 0..MaxDays]
                      /\ balance = [b \in B |-> [total |-> total[b], used |-> 0]]
  BY DEF Init
<1>4. \A l \in DOMAIN leave : leave[l].status = "PENDING"
  BY DEF Init
<1>5. ASSUME NEW b \in B
      PROVE  ApprovedDays(leave, b) <= balance[b].total /\ balance[b].used = ApprovedDays(leave, b)
  <2>1. ApprovedDays(leave, b) = 0
    BY <1>1, <1>4, NoneApproved DEF LeaveInv, TypeOK, Rows
  <2>2. balance[b].used = 0 /\ balance[b].total \in 0..MaxDays
    BY <1>3
  <2> QED
    BY <2>1, <2>2, MostNat
<1>6. DOMAIN balance = B
  BY <1>3
<1>7. Sound(leave, balance)
  BY <1>4, <1>5, <1>6 DEF Sound
<1> QED
  BY <1>1, <1>2, <1>7 DEF AccountInv

LEMMA AccountStep ==
    ASSUME AccountInv, LeaveInv', NEW r \in Requests, Step(r)
    PROVE  AccountInv'
<1>1. AloneStep
  BY DEF Step, AloneStep
<1>2. ASSUME NEW l \in Leaves, NEW b \in Accounts, NEW days \in 1..MaxDays, ApplyLeave(r, l, b, days)
      PROVE  AccountInv'
  BY <1>1, <1>2, ApplyKeeps
<1>3. ASSUME NEW l \in Leaves, NEW outcome \in LeaveStatus, DecideLeave(r, l, outcome)
      PROVE  AccountInv'
  BY <1>1, <1>3, DecideKeeps
<1>4. ASSUME NEW B \in SUBSET Accounts \ {{}}, NEW alloc \in [B -> 0..MaxDays],
             SetTeacherBalance(r, alloc)
      PROVE  AccountInv'
  BY <1>1, <1>4, AllocateKeeps
<1>5. CASE RecordDecision(r)
  BY <1>1, <1>5, RecordKeeps
<1>6. CASE NotifyTeacher(r)
  BY <1>1, <1>6, NotifyTeacherKeeps
<1>7. CASE SyncAllocated(r)
  BY <1>1, <1>7, SyncKeeps
<1>8. CASE Commit(r)
  BY <1>1, <1>8, CommitKeepsAccounts
<1>9. CASE Abort(r) \/ NotifyPrincipal(r)
  BY <1>1, <1>9, EndKeeps
<1> QED
  BY <1>2, <1>3, <1>4, <1>5, <1>6, <1>7, <1>8, <1>9 DEF Step, Serve

(* Alone, the one open handler works on what is committed, and what it has *)
(* read and recorded fits the account.                                     *)
THEOREM AccountInvariant == Spec => []AccountInv
<1>1. AccountInv /\ LeaveInv' /\ [Next]_vars => AccountInv'
  <2> SUFFICES ASSUME AccountInv, LeaveInv', [Next]_vars PROVE AccountInv'
    OBVIOUS
  <2>1. CASE UNCHANGED vars
    <3>1. tx' = tx /\ leave' = leave /\ balance' = balance /\ alone' = alone
      BY <2>1 DEF vars
    <3>2. \A r \in Requests : Open(r)' <=> Open(r)
      BY <3>1 DEF Open
    <3>3. \A r \in Requests : Ready(tx[r])' <=> Ready(tx[r])
      BY <3>1 DEF Ready, AsRead, Fits, Sound, Merged
    <3>4. Sound(leave, balance)' <=> Sound(leave, balance)
      BY <3>1 DEF Sound
    <3> QED
      BY <3>1, <3>2, <3>3, <3>4 DEF AccountInv
  <2>2. CASE Next
    BY <2>2, AccountStep DEF Next
  <2> QED
    BY <2>1, <2>2
<1> QED
  BY <1>1, AccountInit, LeaveTyped, PTL DEF Spec

(* While handlers do not overlap, a teacher's approved days never exceed   *)
(* the days allocated.                                                     *)
THEOREM ApprovalsFit == Spec => []WithinBalance
<1>1. AccountInv => WithinBalance
  BY DEF AccountInv, Sound, WithinBalance
<1> QED
  BY <1>1, AccountInvariant, PTL

(* While handlers do not overlap, the days used are the days approved.     *)
THEOREM DaysAreCounted == Spec => []UsedDaysCounted
<1>1. AccountInv => UsedDaysCounted
  BY DEF AccountInv, Sound, UsedDaysCounted
<1> QED
  BY <1>1, AccountInvariant, PTL

-----------------------------------------------------------------------------
StillOpen(r) == work[r].state = "open"

(* The row an open update will write: new, or one stage on from the row    *)
(* that is committed.                                                      *)
OneStageOn(w) == \A c \in DOMAIN w.write :
                    c \in DOMAIN status => Transition(status[c], w.write[c])

(* The inductive invariant: a quiet program has one open request at most,  *)
(* and what that request read is still true.                               *)
StageInv == /\ DOMAIN work = Requests
            /\ \A r \in Requests : DOMAIN work[r] = DOMAIN Idle
            /\ quiet \in BOOLEAN
            /\ quiet => \A p, q \in Requests : StillOpen(p) /\ StillOpen(q) => p = q
            /\ quiet => \A r \in Requests : StillOpen(r) => OneStageOn(work[r])

(* While quiet, a committed stage moves by one.                            *)
StageStep == quiet' => \A c \in DOMAIN status :
                status'[c] # status[c] => Stage(status'[c]) = Stage(status[c]) + 1

(* A step that commits nothing and whose request is left with a next stage *)
(* to write, or nothing, keeps the invariant.                              *)
LEMMA KeepsStatus ==
    ASSUME StageInv, NEW r \in Requests, NEW w, work' = [work EXCEPT ![r] = w],
           DOMAIN w = DOMAIN Idle, w.state = "open" => OneStageOn(w),
           status' = status,
           quiet' = (quiet /\ \A p, q \in Requests : StillOpen(p)' /\ StillOpen(q)' => p = q)
    PROVE  StageInv' /\ StageStep
<1>1. DOMAIN work' = Requests /\ work'[r] = w
  BY DEF StageInv
<1>2. \A q \in Requests \ {r} : work'[q] = work[q]
  BY DEF StageInv
<1>3. \A q \in Requests : DOMAIN work'[q] = DOMAIN Idle
  BY <1>1, <1>2 DEF StageInv
<1>4. quiet' => \A q \in Requests : StillOpen(q)' => OneStageOn(work[q])'
  BY <1>1, <1>2 DEF StageInv, OneStageOn, StillOpen
<1>5. quiet' \in BOOLEAN /\ (quiet' => \A p, q \in Requests : StillOpen(p)' /\ StillOpen(q)' => p = q)
  OBVIOUS
<1> QED
  BY <1>1, <1>3, <1>4, <1>5 DEF StageInv, StageStep

(* The commit of the one open request writes the next stage, and leaves no *)
(* other request with an old one.                                          *)
LEMMA CommitKeeps ==
    ASSUME StageInv, NEW r \in Requests, CommitComplaint(r),
           quiet' = (quiet /\ \A p, q \in Requests : StillOpen(p)' /\ StillOpen(q)' => p = q)
    PROVE  StageInv' /\ StageStep
<1>0. PICK w : w = IF work[r].tell = {} THEN Ended
                   ELSE [Idle EXCEPT !.state = "answered", !.tell = work[r].tell]
  OBVIOUS
<1>1. DOMAIN w = DOMAIN Idle /\ w.state # "open"
  BY <1>0 DEF Ended, Idle
<1>2. DOMAIN work' = Requests /\ work'[r] = w /\ \A q \in Requests \ {r} : work'[q] = work[q]
  BY <1>0 DEF StageInv, CommitComplaint
<1>3. StillOpen(r)
  BY DEF CommitComplaint, StillOpen
<1>4. quiet' => \A q \in Requests : ~StillOpen(q)'
  BY <1>1, <1>2, <1>3 DEF StageInv, StillOpen
<1>5. \A c \in DOMAIN status :
         status'[c] = IF c \in DOMAIN work[r].write THEN work[r].write[c] ELSE status[c]
  BY DEF CommitComplaint
<1>6. StageStep
  BY <1>3, <1>5 DEF StageStep, StageInv, OneStageOn, Transition
<1>7. \A q \in Requests : DOMAIN work'[q] = DOMAIN Idle
  BY <1>1, <1>2 DEF StageInv
<1> QED
  BY <1>2, <1>4, <1>6, <1>7 DEF StageInv

LEMMA StageNext ==
    ASSUME StageInv, NEW r \in Requests, ComplaintsStep(r)
    PROVE  StageInv' /\ StageStep
<1>1. quiet' = (quiet /\ \A p, q \in Requests : StillOpen(p)' /\ StillOpen(q)' => p = q)
  BY DEF ComplaintsStep, StillOpen
<1>2. ASSUME NEW c, CreateComplaint(r, c) PROVE StageInv' /\ StageStep
  <2>1. PICK w : w = [Idle EXCEPT !.state = "open", !.write = [x \in {c} |-> "OPEN"]]
    OBVIOUS
  <2>2. DOMAIN w = DOMAIN Idle /\ w.write = [x \in {c} |-> "OPEN"]
    BY <2>1 DEF Idle
  <2>3. /\ work' = [work EXCEPT ![r] = w] /\ status' = status
        /\ c \notin DOMAIN status
    BY <1>2, <2>1 DEF CreateComplaint, Start
  <2> QED
    BY <1>1, <2>2, <2>3, KeepsStatus DEF OneStageOn
<1>3. ASSUME NEW c, NEW to, UpdateStatus(r, c, to) PROVE StageInv' /\ StageStep
  <2>1. PICK w : w = [state |-> "open", write |-> [x \in {c} |-> to], tell |-> {c}]
    OBVIOUS
  <2>2. DOMAIN w = DOMAIN Idle /\ w.write = [x \in {c} |-> to]
    BY <2>1 DEF Idle
  <2>3. /\ work' = [work EXCEPT ![r] = w] /\ status' = status
        /\ Transition(status[c], to)
    BY <1>3, <2>1 DEF UpdateStatus, Start
  <2> QED
    BY <1>1, <2>2, <2>3, KeepsStatus DEF OneStageOn
<1>4. ASSUME AbortComplaint(r) \/ NotifySubmitter(r) PROVE StageInv' /\ StageStep
  <2>1. work' = [work EXCEPT ![r] = Ended] /\ status' = status
    BY <1>4 DEF AbortComplaint, NotifySubmitter
  <2>2. DOMAIN Ended = DOMAIN Idle /\ Ended.state # "open"
    BY DEF Ended, Idle
  <2> QED
    BY <1>1, <2>1, <2>2, KeepsStatus
<1> QED
  BY <1>1, <1>2, <1>3, <1>4, CommitKeeps DEF ComplaintsStep

(* While updates do not overlap a complaint advances stage by stage.       *)
THEOREM StagesAreOrdered == ComplaintsSpec => StagesInOrder
<1>1. ComplaintsInit => StageInv
  BY DEF ComplaintsInit, StageInv, Idle, StillOpen
<1>2. ASSUME StageInv, [\E r \in Requests : ComplaintsStep(r)]_complaintVars
      PROVE  StageInv' /\ [StageStep]_complaintVars
  <2>1. CASE UNCHANGED complaintVars
    BY <1>2, <2>1 DEF StageInv, complaintVars, StillOpen, OneStageOn
  <2>2. CASE \E r \in Requests : ComplaintsStep(r)
    BY <1>2, <2>2, StageNext
  <2> QED
    BY <1>2, <2>1, <2>2
<1> QED
  BY <1>1, <1>2, PTL DEF ComplaintsSpec, StagesInOrder, StageStep

-----------------------------------------------------------------------------
(* How far a complaint has come, in changes of its committed row.          *)
Reached(c) == IF c \in DOMAIN status THEN Stage(status[c]) - 1 ELSE 0
Finished == {r \in Requests : work[r].state = "done"}

(* The background tasks that will still tell the submitter of c.           *)
Pending(c) == {r \in Requests : work[r].state = "answered" /\ c \in work[r].tell}

(* The types, with the bound on the notices in a form that is inductive:   *)
(* a request ends with the notice it sends.                                *)
ComplaintsInv == /\ DOMAIN status \subseteq Cases
                 /\ \A c \in DOMAIN status : status[c] \in ComplaintStatus
                 /\ told \in [Cases -> Nat]
                 /\ DOMAIN work = Requests
                 /\ \A r \in Requests : IsWork(work[r])
                 /\ quiet \in BOOLEAN
                 /\ \A c \in Cases : told[c] <= Cardinality(Finished)

(* The notices sent and still owed never exceed the changes committed, and *)
(* what an open update will tell is a change of a committed row.           *)
HeardInv == /\ quiet => \A r \in Requests : StillOpen(r) =>
                           work[r].tell \subseteq DOMAIN status \cap DOMAIN work[r].write
            /\ quiet => \A c \in Cases : told[c] + Cardinality(Pending(c)) <= Reached(c)

LEMMA StageType == \A s \in ComplaintStatus : Stage(s) \in 1..4
<1>1. DOMAIN Workflow = 1..4
  BY DEF Workflow
<1>2. ASSUME NEW s \in ComplaintStatus PROVE \E i \in DOMAIN Workflow : Workflow[i] = s
  BY DEF ComplaintStatus, ToSet
<1> QED
  BY <1>1, <1>2, Zenon DEF Stage

LEMMA StageNames == "OPEN" \in ComplaintStatus
<1>1. 1 \in DOMAIN Workflow /\ Workflow[1] = "OPEN"
  BY DEF Workflow
<1> QED
  BY <1>1 DEF ComplaintStatus, ToSet

LEMMA IdleWork == IsWork(Idle) /\ IsWork(Ended) /\ Ended.state = "done" /\ Ended.tell = {}
BY DEF IsWork, Idle, Ended

(* A handler writes one row, of a stage.                                   *)
LEMMA OpenWork ==
    ASSUME NEW c \in Cases, NEW s \in ComplaintStatus, NEW T \in SUBSET Cases
    PROVE  IsWork([state |-> "open", write |-> [x \in {c} |-> s], tell |-> T])
BY DEF IsWork, Idle

(* What a step makes of the request it serves, and of no other.            *)
LEMMA WorkIs ==
    ASSUME ComplaintsInv, NEW r \in Requests, NEW w, work' = [work EXCEPT ![r] = w]
    PROVE  /\ DOMAIN work' = Requests /\ work'[r] = w
           /\ \A q \in Requests \ {r} : work'[q] = work[q]
BY DEF ComplaintsInv

(* A request not yet done before its step, and done after it, is one more. *)
LEMMA OneMoreDone ==
    ASSUME ComplaintsInv, NEW r \in Requests, NEW w, work' = [work EXCEPT ![r] = w],
           work[r].state # "done"
    PROVE  /\ Cardinality(Finished)' \in Nat /\ Cardinality(Finished) \in Nat
           /\ Cardinality(Finished) <= Cardinality(Finished)'
           /\ w.state = "done" => Cardinality(Finished)' = Cardinality(Finished) + 1
<1>1. /\ DOMAIN work' = Requests /\ work'[r] = w
      /\ \A q \in Requests \ {r} : work'[q] = work[q]
  BY WorkIs
<1>2. PICK F, G : F = Finished /\ G = Finished'
  OBVIOUS
<1>3. F \in SUBSET Requests /\ r \notin F
  BY <1>2 DEF Finished
<1>4. G = IF w.state = "done" THEN F \cup {r} ELSE F
  BY <1>1, <1>2 DEF Finished
<1>5. IsFiniteSet(F) /\ Cardinality(F) \in Nat /\ Cardinality(F) <= Cardinality(Requests)
  BY <1>3, LeaveConstants, FS_Subset, FS_CardinalityType
<1>6. Cardinality(F \cup {r}) = Cardinality(F) + 1
  BY <1>3, <1>5, FS_AddElement
<1>7. /\ Cardinality(G) \in Nat /\ Cardinality(F) <= Cardinality(G)
      /\ w.state = "done" => Cardinality(G) = Cardinality(F) + 1
  BY <1>4, <1>5, <1>6
<1> QED
  BY <1>2, <1>5, <1>7

(* What a step that replaces one unit of work owes the submitters.         *)
LEMMA OneMoreOwed ==
    ASSUME ComplaintsInv, NEW r \in Requests, NEW w, work' = [work EXCEPT ![r] = w], NEW c
    PROVE  /\ Cardinality(Pending(c)) \in Nat /\ Cardinality(Pending(c))' \in Nat
           /\ ~(w.state = "answered" /\ c \in w.tell) =>
                 Cardinality(Pending(c))' <= Cardinality(Pending(c))
           /\ Cardinality(Pending(c))' <= Cardinality(Pending(c)) + 1
           /\ r \in Pending(c) /\ w.state # "answered" =>
                 Cardinality(Pending(c))' = Cardinality(Pending(c)) - 1
<1>1. /\ DOMAIN work' = Requests /\ work'[r] = w
      /\ \A q \in Requests \ {r} : work'[q] = work[q]
  BY WorkIs
<1>2. PICK P, Q : P = Pending(c) /\ Q = Pending(c)'
  OBVIOUS
<1>3. P \in SUBSET Requests /\ Q \in SUBSET Requests /\ Q \in SUBSET (P \cup {r})
  BY <1>1, <1>2 DEF Pending
<1>4. IsFiniteSet(P) /\ IsFiniteSet(Q) /\ Cardinality(P) \in Nat /\ Cardinality(Q) \in Nat
  BY <1>3, LeaveConstants, FS_Subset, FS_CardinalityType
<1>5. Cardinality(Q) <= Cardinality(P) + 1
  <2>1. IsFiniteSet(P \cup {r}) /\ Cardinality(P \cup {r}) <= Cardinality(P) + 1
    BY <1>4, FS_AddElement
  <2>2. Cardinality(Q) <= Cardinality(P \cup {r})
    BY <1>3, <2>1, FS_Subset
  <2> QED
    BY <1>4, <2>1, <2>2, FS_CardinalityType
<1>6. ~(w.state = "answered" /\ c \in w.tell) => Cardinality(Q) <= Cardinality(P)
  <2>1. ~(w.state = "answered" /\ c \in w.tell) => Q \in SUBSET P
    BY <1>1, <1>2, <1>3 DEF Pending
  <2> QED
    BY <1>4, <2>1, FS_Subset
<1>7. r \in P /\ w.state # "answered" => Cardinality(Q) = Cardinality(P) - 1
  <2>1. w.state # "answered" => Q = P \ {r}
    BY <1>1, <1>2 DEF Pending
  <2> QED
    BY <1>4, <2>1, FS_RemoveElement
<1> QED
  BY <1>2, <1>4, <1>5, <1>6, <1>7

(* A step that tells nobody and commits nothing keeps both invariants.     *)
LEMMA SaysNothing ==
    ASSUME ComplaintsInv, HeardInv, NEW r \in Requests, NEW w, work' = [work EXCEPT ![r] = w],
           IsWork(w), work[r].state # "done", w.state # "answered",
           w.state = "open" => w.tell \subseteq DOMAIN status \cap DOMAIN w.write,
           status' = status, told' = told, quiet' \in BOOLEAN, quiet' => quiet
    PROVE  ComplaintsInv' /\ HeardInv'
<1>1. /\ DOMAIN work' = Requests /\ work'[r] = w
      /\ \A q \in Requests \ {r} : work'[q] = work[q]
  BY WorkIs
<1>2. Cardinality(Finished) <= Cardinality(Finished)'
      /\ Cardinality(Finished)' \in Nat /\ Cardinality(Finished) \in Nat
  BY OneMoreDone
<1>3. \A c \in Cases : told'[c] <= Cardinality(Finished)'
  BY <1>2 DEF ComplaintsInv
<1>4. ComplaintsInv'
  BY <1>1, <1>3 DEF ComplaintsInv
<1>5. ASSUME quiet', NEW c \in Cases PROVE (told[c] + Cardinality(Pending(c)) <= Reached(c))'
  <2>1. Cardinality(Pending(c)) \in Nat /\ Cardinality(Pending(c))' \in Nat
        /\ Cardinality(Pending(c))' <= Cardinality(Pending(c))
    BY OneMoreOwed
  <2>2. Reached(c)' = Reached(c) /\ Reached(c) \in Int
    BY StageType DEF Reached, ComplaintsInv
  <2>3. told[c] \in Nat /\ told[c] + Cardinality(Pending(c)) <= Reached(c)
    BY <1>5 DEF ComplaintsInv, HeardInv
  <2> QED
    BY <2>1, <2>2, <2>3
<1>6. ASSUME quiet', NEW q \in Requests, StillOpen(q)'
      PROVE  (work[q].tell \subseteq DOMAIN status \cap DOMAIN work[q].write)'
  BY <1>1, <1>6 DEF HeardInv, StillOpen
<1> QED
  BY <1>4, <1>5, <1>6 DEF HeardInv

LEMMA CreateHeard ==
    ASSUME ComplaintsInv, HeardInv, NEW r \in Requests, NEW c \in Cases, CreateComplaint(r, c),
           quiet' \in BOOLEAN, quiet' => quiet
    PROVE  ComplaintsInv' /\ HeardInv'
<1>1. PICK w : w = [Idle EXCEPT !.state = "open", !.write = [x \in {c} |-> "OPEN"]]
  OBVIOUS
<1>2. w = [state |-> "open", write |-> [x \in {c} |-> "OPEN"], tell |-> {}]
  BY <1>1 DEF Idle
<1>3. IsWork(w) /\ w.state = "open" /\ w.tell = {}
  BY <1>2, OpenWork, StageNames
<1>4. work' = [work EXCEPT ![r] = w] /\ work[r].state = "new" /\ status' = status /\ told' = told
  BY <1>1 DEF CreateComplaint, Start
<1> QED
  BY <1>3, <1>4, SaysNothing

LEMMA UpdateHeard ==
    ASSUME ComplaintsInv, HeardInv, NEW r \in Requests, NEW c \in Cases,
           NEW to \in ComplaintStatus, UpdateStatus(r, c, to),
           quiet' \in BOOLEAN, quiet' => quiet
    PROVE  ComplaintsInv' /\ HeardInv'
<1>1. PICK w : w = [state |-> "open", write |-> [x \in {c} |-> to], tell |-> {c}]
  OBVIOUS
<1>2. IsWork(w) /\ w.state = "open"
  BY <1>1, OpenWork
<1>3. work' = [work EXCEPT ![r] = w] /\ work[r].state = "new" /\ status' = status /\ told' = told
  BY <1>1 DEF UpdateStatus, Start
<1>4. w.tell \subseteq DOMAIN status \cap DOMAIN w.write
  BY <1>1 DEF UpdateStatus
<1> QED
  BY <1>2, <1>3, <1>4, SaysNothing

(* The commit owes one notice for the stage it moves the complaint on.     *)
LEMMA CommitHeard ==
    ASSUME ComplaintsInv, HeardInv, StageInv, NEW r \in Requests, CommitComplaint(r),
           quiet' \in BOOLEAN, quiet' => quiet
    PROVE  ComplaintsInv' /\ HeardInv'
<1>1. PICK w : w = IF work[r].tell = {} THEN Ended
                   ELSE [Idle EXCEPT !.state = "answered", !.tell = work[r].tell]
  OBVIOUS
<1>2. /\ IsWork(w) /\ w.state \in {"answered", "done"} /\ w.tell = work[r].tell
  <2>1. IsWork(work[r])
    BY DEF ComplaintsInv
  <2>2. CASE work[r].tell = {}
    BY <1>1, <2>2, IdleWork
  <2>3. CASE work[r].tell # {}
    BY <1>1, <2>1, <2>3 DEF IsWork, Idle
  <2> QED
    BY <2>2, <2>3
<1>3. /\ work' = [work EXCEPT ![r] = w] /\ work[r].state = "open" /\ told' = told
      /\ status' = [c \in DOMAIN status \cup DOMAIN work[r].write |->
                      IF c \in DOMAIN work[r].write THEN work[r].write[c] ELSE status[c]]
  BY <1>1, Zenon DEF CommitComplaint
<1>4. /\ DOMAIN work' = Requests /\ work'[r] = w
      /\ \A q \in Requests \ {r} : work'[q] = work[q]
  BY <1>3, WorkIs
<1>5. /\ DOMAIN work[r].write \subseteq Cases /\ work[r].tell \subseteq Cases
      /\ \A c \in DOMAIN work[r].write : work[r].write[c] \in ComplaintStatus
  BY DEF ComplaintsInv, IsWork
<1>6. ComplaintsInv'
  <2>1. /\ DOMAIN status' \subseteq Cases
        /\ \A c \in DOMAIN status' : status'[c] \in ComplaintStatus
    BY <1>3, <1>5 DEF ComplaintsInv
  <2>2. Cardinality(Finished) <= Cardinality(Finished)'
        /\ Cardinality(Finished)' \in Nat /\ Cardinality(Finished) \in Nat
    BY <1>3, OneMoreDone
  <2>3. \A c \in Cases : told'[c] <= Cardinality(Finished)'
    BY <1>3, <2>2 DEF ComplaintsInv
  <2> QED
    BY <1>2, <1>3, <1>4, <2>1, <2>3 DEF ComplaintsInv
<1>7. StillOpen(r)
  BY <1>3 DEF StillOpen
<1>8. ASSUME quiet', NEW c \in Cases PROVE (told[c] + Cardinality(Pending(c)) <= Reached(c))'
  <2>1. /\ Cardinality(Pending(c)) \in Nat /\ Cardinality(Pending(c))' \in Nat
        /\ c \notin w.tell => Cardinality(Pending(c))' <= Cardinality(Pending(c))
        /\ Cardinality(Pending(c))' <= Cardinality(Pending(c)) + 1
    BY <1>3, OneMoreOwed
  <2>2. told[c] \in Nat /\ told[c] + Cardinality(Pending(c)) <= Reached(c)
    BY <1>8 DEF ComplaintsInv, HeardInv
  <2>3. quiet /\ quiet \in BOOLEAN
    BY <1>8 DEF ComplaintsInv
  <2>4. OneStageOn(work[r]) /\ work[r].tell \subseteq DOMAIN status \cap DOMAIN work[r].write
    BY <1>7, <2>3 DEF StageInv, HeardInv
  <2>5. Reached(c) \in Int /\ Reached(c)' \in Int
    BY <1>6, StageType DEF ComplaintsInv, Reached
  <2>6. CASE c \in work[r].tell
    <3>1. c \in DOMAIN status /\ Stage(status'[c]) = Stage(status[c]) + 1 /\ c \in DOMAIN status'
      BY <1>3, <2>4, <2>6 DEF OneStageOn, Transition
    <3>2. Reached(c)' = Reached(c) + 1
      BY <3>1, StageType DEF Reached, ComplaintsInv
    <3> QED
      BY <1>3, <2>1, <2>2, <2>5, <3>2
  <2>7. CASE c \notin work[r].tell
    <3>1. Reached(c)' >= Reached(c)
      <4>1. CASE c \in DOMAIN work[r].write /\ c \in DOMAIN status
        <5>1. Stage(status'[c]) = Stage(status[c]) + 1 /\ c \in DOMAIN status'
          BY <1>3, <2>4, <4>1 DEF OneStageOn, Transition
        <5> QED
          BY <4>1, <5>1, StageType DEF Reached, ComplaintsInv
      <4>2. CASE c \in DOMAIN work[r].write /\ c \notin DOMAIN status
        <5>1. c \in DOMAIN status' /\ Stage(status'[c]) \in 1..4
          BY <1>3, <1>5, <4>2, StageType
        <5> QED
          BY <4>2, <5>1 DEF Reached
      <4>3. CASE c \notin DOMAIN work[r].write
        <5>1. /\ c \in DOMAIN status' <=> c \in DOMAIN status
              /\ c \in DOMAIN status => status'[c] = status[c]
          BY <1>3, <4>3
        <5> QED
          BY <2>5, <5>1 DEF Reached
      <4> QED
        BY <4>1, <4>2, <4>3
    <3> QED
      BY <1>2, <1>3, <2>1, <2>2, <2>5, <2>7, <3>1
  <2> QED
    BY <2>6, <2>7
<1>9. ASSUME quiet', NEW q \in Requests, StillOpen(q)'
      PROVE  (work[q].tell \subseteq DOMAIN status \cap DOMAIN work[q].write)'
  <2>1. q # r /\ StillOpen(q)
    BY <1>2, <1>4, <1>9 DEF StillOpen
  <2> QED
    BY <1>7, <1>9, <2>1 DEF StageInv
<1> QED
  BY <1>6, <1>8, <1>9 DEF HeardInv

(* A notice sent is a notice no longer owed.                               *)
LEMMA NotifyHeard ==
    ASSUME ComplaintsInv, HeardInv, NEW r \in Requests, NotifySubmitter(r),
           quiet' \in BOOLEAN, quiet' => quiet
    PROVE  ComplaintsInv' /\ HeardInv'
<1>1. PICK d \in work[r].tell : /\ work[r].state = "answered" /\ status' = status
                                /\ told' = [told EXCEPT ![d] = @ + 1]
                                /\ work' = [work EXCEPT ![r] = Ended]
  BY DEF NotifySubmitter
<1>2. d \in Cases
  BY <1>1 DEF ComplaintsInv, IsWork
<1>3. /\ DOMAIN work' = Requests /\ work'[r] = Ended
      /\ \A q \in Requests \ {r} : work'[q] = work[q]
  BY <1>1, WorkIs
<1>4. /\ told' \in [Cases -> Nat] /\ told'[d] = told[d] + 1
      /\ \A c \in Cases \ {d} : told'[c] = told[c]
  BY <1>1, <1>2 DEF ComplaintsInv
<1>5. ComplaintsInv'
  <2>1. Cardinality(Finished)' = Cardinality(Finished) + 1
        /\ Cardinality(Finished)' \in Nat /\ Cardinality(Finished) \in Nat
    BY <1>1, IdleWork, OneMoreDone
  <2>2. \A c \in Cases : told[c] \in Nat /\ told[c] <= Cardinality(Finished)
    BY DEF ComplaintsInv
  <2>3. ASSUME NEW c \in Cases PROVE told'[c] <= Cardinality(Finished)'
    BY <1>4, <2>1, <2>2
  <2> QED
    BY <1>1, <1>3, <1>4, <2>3, IdleWork DEF ComplaintsInv
<1>6. ASSUME quiet', NEW c \in Cases PROVE (told[c] + Cardinality(Pending(c)) <= Reached(c))'
  <2>1. /\ Cardinality(Pending(c)) \in Nat /\ Cardinality(Pending(c))' \in Nat
        /\ Cardinality(Pending(c))' <= Cardinality(Pending(c))
        /\ r \in Pending(c) => Cardinality(Pending(c))' = Cardinality(Pending(c)) - 1
    BY <1>1, IdleWork, OneMoreOwed
  <2>2. r \in Pending(d)
    BY <1>1 DEF Pending
  <2>3. told[c] \in Nat /\ told[c] + Cardinality(Pending(c)) <= Reached(c)
    BY <1>6 DEF ComplaintsInv, HeardInv
  <2>4. Reached(c)' = Reached(c) /\ Reached(c) \in Int
    BY <1>1, StageType DEF Reached, ComplaintsInv
  <2>5. CASE c = d
    BY <1>4, <2>1, <2>2, <2>3, <2>4, <2>5
  <2>6. CASE c # d
    BY <1>4, <2>1, <2>3, <2>4, <2>6
  <2> QED
    BY <2>5, <2>6
<1>7. ASSUME quiet', NEW q \in Requests, StillOpen(q)'
      PROVE  (work[q].tell \subseteq DOMAIN status \cap DOMAIN work[q].write)'
  BY <1>1, <1>3, <1>7, IdleWork DEF HeardInv, StillOpen
<1> QED
  BY <1>5, <1>6, <1>7 DEF HeardInv

LEMMA HeardNext ==
    ASSUME ComplaintsInv, HeardInv, StageInv, NEW r \in Requests, ComplaintsStep(r)
    PROVE  ComplaintsInv' /\ HeardInv'
<1>1. quiet' \in BOOLEAN /\ (quiet' => quiet)
  BY DEF ComplaintsStep, ComplaintsInv
<1>2. CASE AbortComplaint(r)
  BY <1>1, <1>2, IdleWork, SaysNothing DEF AbortComplaint
<1> QED
  BY <1>1, <1>2, CreateHeard, UpdateHeard, CommitHeard, NotifyHeard DEF ComplaintsStep

LEMMA HeardInit == ComplaintsInit => ComplaintsInv /\ HeardInv
<1> SUFFICES ASSUME ComplaintsInit PROVE ComplaintsInv /\ HeardInv
  OBVIOUS
<1>1. PICK C \in SUBSET Cases : status = [c \in C |-> "OPEN"]
  BY DEF ComplaintsInit
<1>2. told = [c \in Cases |-> 0] /\ work = [r \in Requests |-> Idle] /\ quiet = TRUE
  BY DEF ComplaintsInit
<1>3. \A r \in Requests : work[r].state = "new"
  BY <1>2 DEF Idle
<1>4. Finished = {} /\ \A c : Pending(c) = {}
  BY <1>3 DEF Finished, Pending
<1>5. Cardinality({}) = 0
  BY FS_EmptySet
<1>6. \A c \in Cases : Reached(c) \in Nat
  BY <1>1, StageNames, StageType DEF Reached
<1>7. ComplaintsInv
  BY <1>1, <1>2, <1>4, <1>5, IdleWork, StageNames DEF ComplaintsInv
<1> QED
  BY <1>2, <1>3, <1>4, <1>5, <1>6, <1>7 DEF HeardInv, StillOpen

(* The inductive invariant of complaints: types, stages and notices.       *)
THEOREM ComplaintsInvariant == ComplaintsSpec => [](ComplaintsInv /\ StageInv /\ HeardInv)
<1>1. ComplaintsInit => StageInv
  BY DEF ComplaintsInit, StageInv, Idle, StillOpen
<1>2. ASSUME ComplaintsInv, StageInv, HeardInv,
             [\E r \in Requests : ComplaintsStep(r)]_complaintVars
      PROVE  ComplaintsInv' /\ StageInv' /\ HeardInv'
  <2>1. CASE UNCHANGED complaintVars
    BY <1>2, <2>1 DEF StageInv, ComplaintsInv, HeardInv, complaintVars, StillOpen, OneStageOn,
                      Finished, Pending, Reached
  <2>2. CASE \E r \in Requests : ComplaintsStep(r)
    BY <1>2, <2>2, StageNext, HeardNext
  <2> QED
    BY <1>2, <2>1, <2>2
<1> QED
  BY <1>1, <1>2, HeardInit, PTL DEF ComplaintsSpec

(* While updates do not overlap, a submitter hears of a change after it is *)
(* committed, and of each one once.                                        *)
THEOREM SubmittersHearAfterwards == ComplaintsSpec => []ToldAfterwards
<1>1. ComplaintsInv /\ HeardInv => ToldAfterwards
  <2> SUFFICES ASSUME ComplaintsInv, HeardInv, quiet, NEW c \in Cases PROVE told[c] <= Reached(c)
    BY DEF ToldAfterwards, Reached
  <2>1. IsFiniteSet(Pending(c)) /\ Cardinality(Pending(c)) \in Nat
    BY LeaveConstants, FS_Subset, FS_CardinalityType DEF Pending
  <2>2. told[c] \in Nat /\ Reached(c) \in Int /\ told[c] + Cardinality(Pending(c)) <= Reached(c)
    BY StageType DEF ComplaintsInv, HeardInv, Reached
  <2> QED
    BY <2>1, <2>2
<1> QED
  BY <1>1, ComplaintsInvariant, PTL

-----------------------------------------------------------------------------
(* Serving complaints beside leave shows each service a behaviour of its   *)
(* own specification, so that what is proved of one holds of both.         *)
THEOREM StaffServesBoth == StaffSpec => Spec /\ ComplaintsSpec
<1> DEFINE Served == \E r \in Requests : ServeLeave(r) \/ ServeComplaint(r)
           ComplaintServed == \E r \in Requests : ComplaintsStep(r)
<1>1. StaffInit => Init /\ ComplaintsInit
  BY DEF StaffInit
<1>2. [Served]_StaffVars => [Next]_vars
  BY DEF ServeLeave, ServeComplaint, Next, StaffVars, vars
<1>3. [Served]_StaffVars => [ComplaintServed]_complaintVars
  BY DEF ServeLeave, ServeComplaint, StaffVars, complaintVars
<1> QED
  BY <1>1, <1>2, <1>3, PTL DEF StaffSpec, Spec, ComplaintsSpec

(* The two notices, in the composition that is model-checked.              *)
THEOREM StaffIsTold == StaffSpec => []LeaveNotices
<1>1. DecisionTold /\ ToldOfExisting => LeaveNotices
  BY DEF LeaveNotices
<1> QED
  BY <1>1, StaffServesBoth, DecisionsAreTold, PrincipalHearsOfRows, PTL

(* Both services keep their types, whatever the other one does.            *)
THEOREM StaffTyped == StaffSpec => []StaffTypeOK
<1>1. LeaveInv /\ ComplaintsInv => StaffTypeOK
  <2> SUFFICES ASSUME ComplaintsInv PROVE told \in [Cases -> 0..Cardinality(Requests)]
    BY DEF StaffTypeOK, LeaveInv, ComplaintsInv, ComplaintsTypeOK
  <2>1. Cardinality(Finished) <= Cardinality(Requests) /\ Cardinality(Finished) \in Nat
        /\ Cardinality(Requests) \in Nat
    BY LeaveConstants, FS_Subset, FS_CardinalityType DEF Finished
  <2> QED
    BY <2>1 DEF ComplaintsInv
<1> QED
  BY <1>1, LeaveTyped, ComplaintsInvariant, StaffServesBoth, PTL

(* What is proved of each service alone holds of the two together.         *)
THEOREM StaffKeepsBoth ==
    StaffSpec => [](WithinBalance /\ UsedDaysCounted /\ ToldAfterwards)
BY StaffServesBoth, ApprovalsFit, DaysAreCounted, SubmittersHearAfterwards, PTL
=============================================================================
