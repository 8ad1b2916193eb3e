------------------------------ MODULE Complaints ------------------------------
(***************************************************************************)
(* Complaints and their workflow OPEN, IN_PROGRESS, RESOLVED, CLOSED       *)
(* (src/app/services/complaint.py).  A manager's update reads the status,  *)
(* and its session commits the next one later, with other requests in      *)
(* between; the submitter is told by a background task after the commit.   *)
(***************************************************************************)
EXTENDS Integers, Sequences, FiniteSets, SequencesExt

CONSTANTS Cases,          \* ids of the complaints
          Requests        \* the HTTP requests served, each once

Workflow == <<"OPEN", "IN_PROGRESS", "RESOLVED", "CLOSED">>
ComplaintStatus == ToSet(Workflow)
Stage(s) == CHOOSE i \in DOMAIN Workflow : Workflow[i] = s

VARIABLES status,      \* committed complaints rows, by their status
          told,        \* how many notifications each submitter got
          work,        \* what each request will write, and whom it will tell
          quiet        \* history: no two handlers have been open at once so far

complaintVars == <<status, told, work, quiet>>

(* write is the row to write and told the complaints whose submitter the   *)
(* background task of an update will tell.                                 *)
Idle == [state |-> "new", write |-> [c \in {} |-> ""], tell |-> {}]
Ended == [Idle EXCEPT !.state = "done"]
IsWork(w) == /\ DOMAIN w = DOMAIN Idle
             /\ w.state \in {"new", "open", "answered", "done"}
             /\ DOMAIN w.write \subseteq Cases
             /\ \A c \in DOMAIN w.write : w.write[c] \in ComplaintStatus
             /\ w.tell \subseteq Cases

ComplaintsTypeOK ==
    /\ DOMAIN status \subseteq Cases
    /\ \A c \in DOMAIN status : status[c] \in ComplaintStatus
    /\ told \in [Cases -> 0..Cardinality(Requests)]
    /\ DOMAIN work = Requests
    /\ \A r \in Requests : IsWork(work[r])
    /\ quiet \in BOOLEAN

Start(r, w) == /\ work[r].state = "new"
               /\ work' = [work EXCEPT ![r] = w]
               /\ UNCHANGED <<status, told>>
-----------------------------------------------------------------------------
(* A new complaint has a fresh id and tells nobody.                        *)
CreateComplaint(r, c) ==
    /\ c \notin DOMAIN status /\ \A q \in Requests : c \notin DOMAIN work[q].write
    /\ Start(r, [Idle EXCEPT !.state = "open", !.write = [x \in {c} |-> "OPEN"]])

(* Mutant of Transition: a complaint may be closed without a resolution.   *)
TransitionSkips(from, to) == Stage(to) > Stage(from)

(* The transitions of update_status: to the next stage only.               *)
Transition(from, to) == Stage(to) = Stage(from) + 1

UpdateStatus(r, c, to) ==
    /\ c \in DOMAIN status /\ Transition(status[c], to)
    /\ Start(r, [state |-> "open", write |-> [x \in {c} |-> to], tell |-> {c}])

(* The end of the handler, and the background task after the response,     *)
(* which a stop of the server loses.                                       *)
CommitComplaint(r) ==
    /\ work[r].state = "open"
    /\ status' = [c \in DOMAIN status \cup DOMAIN work[r].write |->
                    IF c \in DOMAIN work[r].write THEN work[r].write[c] ELSE status[c]]
    /\ work' = [work EXCEPT ![r] = IF work[r].tell = {} THEN Ended
                                   ELSE [Idle EXCEPT !.state = "answered",
                                                     !.tell = work[r].tell]]
    /\ UNCHANGED told

AbortComplaint(r) == /\ work[r].state = "open"
                     /\ work' = [work EXCEPT ![r] = Ended]
                     /\ UNCHANGED <<status, told>>

(* Mutant of NotifySubmitter: the task starts before the commit.           *)
NotifyEarly(r) == \E c \in work[r].tell :
    /\ told' = [told EXCEPT ![c] = @ + 1]
    /\ work' = [work EXCEPT ![r].tell = {}]
    /\ UNCHANGED status

(* _notify_complaint_resolved                                              *)
NotifySubmitter(r) == \E c \in work[r].tell :
    /\ work[r].state = "answered"
    /\ told' = [told EXCEPT ![c] = @ + 1]
    /\ work' = [work EXCEPT ![r] = Ended]
    /\ UNCHANGED status

ComplaintsInit ==
    /\ \E C \in SUBSET Cases : status = [c \in C |-> "OPEN"]
    /\ told = [c \in Cases |-> 0]
    /\ work = [r \in Requests |-> Idle]
    /\ quiet = TRUE

ComplaintsStep(r) ==
    /\ \/ \E c \in Cases : CreateComplaint(r, c)
       \/ \E c \in Cases, to \in ComplaintStatus : UpdateStatus(r, c, to)
       \/ CommitComplaint(r) \/ AbortComplaint(r) \/ NotifySubmitter(r)
    /\ quiet' = (quiet /\ \A p, q \in Requests :
                   work'[p].state = "open" /\ work'[q].state = "open" => p = q)

ComplaintsSpec == ComplaintsInit /\ [][\E r \in Requests : ComplaintsStep(r)]_complaintVars
-----------------------------------------------------------------------------
(* While updates do not overlap, a complaint goes through every stage, one *)
(* at a time and never back (the transitions table, complaint.py:206).     *)
(* Overlapping updates can take it back: the stage is read, not locked.    *)
StagesInOrder == [][quiet' => \A c \in DOMAIN status :
                       status'[c] # status[c] => Stage(status'[c]) = Stage(status[c]) + 1
                   ]_complaintVars

(* While updates do not overlap, the submitter never hears of more changes *)
(* than the complaint has gone through: a notice follows its commit.       *)
ToldAfterwards == quiet => \A c \in Cases :
                     told[c] <= IF c \in DOMAIN status THEN Stage(status[c]) - 1 ELSE 0
=============================================================================
