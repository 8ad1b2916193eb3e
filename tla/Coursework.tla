------------------------------ MODULE Coursework ------------------------------
(***************************************************************************)
(* Assignments, what students hand in and how teachers review it           *)
(* (src/app/services/assignment.py, submission.py), and daily homework     *)
(* with its responses (homework.py).                                       *)
(*                                                                         *)
(* A second submission is refused by a query, a second homework or         *)
(* response also by a unique constraint, so their rows are keyed by it.    *)
(* Files are uploaded before the row that names them is committed.         *)
(***************************************************************************)
EXTENDS UnitOfWork

CONSTANTS Assignments, Submissions,   \* ids
          DueDays,                    \* dates of assignments
          Attachments,                \* whether they come with a file
          Lessons                     \* (class, subject, date) of a homework

ASSUME CourseworkConstants == Attachments \subseteq BOOLEAN

Day == 0..MaxDay
Assignment == [due : DueDays, active : BOOLEAN, file : BOOLEAN]
Submission == [of : {"assignment"} \X Assignments, student : Pupils, late : BOOLEAN,
               file : BOOLEAN, graded : BOOLEAN, approved : BOOLEAN, dated : BOOLEAN]
Homework == [file : BOOLEAN]
Response == [of : {"homework"} \X Lessons, file : BOOLEAN, reviewed : BOOLEAN,
             approved : BOOLEAN]

CourseworkTypeOK ==
    /\ area = "assignments" => /\ Table("assignment", Assignments, Assignment)
                               /\ Table("submission", Submissions, Submission)
    /\ area = "homework" => /\ Table("homework", Lessons, Homework)
                            /\ Table("response", Lessons \X Pupils, Response)

CourseworkInit == \/ Starts("assignments", [assignment |-> None, submission |-> None])
                  \/ Starts("homework", [homework |-> None, response |-> None])

File(t, k, file) == IF file THEN {<<t, k>>} ELSE {}
-----------------------------------------------------------------------------
(* Assignments.  The file is uploaded under a fresh key, then the row is   *)
(* inserted, and the class is told after the commit.                       *)
CreateAssignment(s, a, due, file) ==
    /\ Unused("assignment", a)
    /\ BeginStoring(s,
          [Work EXCEPT !.insert = [assignment |-> a :> [due |-> due, active |-> TRUE, file |-> file]],
                       !.tell = {<<"assignment", a>>}],
          File("assignment", a, file))

(* update_assignment: any of the columns, by the teacher who created it.   *)
UpdateAssignment(s, a, due, active) ==
    /\ a \in Keys("assignment")
    /\ Begin(s, [Work EXCEPT !.update =
          [assignment |-> Sets("assignment", a, [due |-> due, active |-> active])]])

OfPupil(a, p) == {u \in Keys("submission") : /\ db.submission[u].of = <<"assignment", a>>
                                             /\ db.submission[u].student = p}

(* Mutant of HandIn: a second submission replaces nothing and is accepted. *)
HandInAgain(s, u, a, p, file) ==
    /\ a \in Keys("assignment") /\ db.assignment[a].active
    /\ Unused("submission", u)
    /\ BeginStoring(s,
          [Work EXCEPT !.insert = [submission |-> u :>
              [of |-> <<"assignment", a>>, student |-> p, late |-> today > db.assignment[a].due,
               file |-> file, graded |-> FALSE, approved |-> FALSE, dated |-> FALSE]],
                       !.needs = {<<"assignment", a>>}],
          File("submission", u, file))

(* create_submission: while the assignment is active, once for a student;  *)
(* whether it is late is decided now and never again.                      *)
HandIn(s, u, a, p, file) ==
    /\ a \in Keys("assignment") /\ db.assignment[a].active
    /\ OfPupil(a, p) = {}
    /\ Unused("submission", u)
    /\ BeginStoring(s,
          [Work EXCEPT !.insert = [submission |-> u :>
              [of |-> <<"assignment", a>>, student |-> p, late |-> today > db.assignment[a].due,
               file |-> file, graded |-> FALSE, approved |-> FALSE, dated |-> FALSE]],
                       !.needs = {<<"assignment", a>>}],
          File("submission", u, file))

(* The approval columns go together: by whom and when with an approval,    *)
(* neither without.  The time is always another one than was loaded.       *)
Approval(row, says) ==
    CASE says = "approve" -> [dated |-> TRUE] @@ Changed(row, [approved |-> TRUE])
      [] says = "reject" -> Changed(row, [approved |-> FALSE, dated |-> FALSE])
      [] OTHER -> None

(* grade_submission: a grade or feedback, which are text and left out of   *)
(* the row, an approval, or a rejection.                                   *)
GradeSubmission(s, u, says) ==
    /\ u \in Keys("submission")
    /\ Begin(s, [Work EXCEPT
          !.update = [submission |-> u :> (Changed(db.submission[u], [graded |-> TRUE])
                                             @@ Approval(db.submission[u], says))],
          !.tell = {<<"reviewed", u>>}])

AssignmentsStep(s) ==
    /\ area = "assignments"
    /\ \/ \E a \in Assignments, due \in DueDays, file \in Attachments :
             CreateAssignment(s, a, due, file)
       \/ \E a \in Assignments, due \in DueDays, active \in BOOLEAN :
             UpdateAssignment(s, a, due, active)

SubmissionsStep(s) ==
    /\ area = "assignments"
    /\ \/ \E u \in Submissions, a \in Assignments, p \in Pupils, file \in Attachments :
             HandIn(s, u, a, p, file)
       \/ \E u \in Submissions, says \in {"approve", "reject", "remark"} :
             GradeSubmission(s, u, says)
-----------------------------------------------------------------------------
(* Homework: one text or file for a lesson, told to the class after the    *)
(* commit.                                                                 *)
CreateHomework(s, h, file) ==
    /\ h \notin Keys("homework")
    /\ BeginStoring(s, [Work EXCEPT !.insert = [homework |-> h :> [file |-> file]],
                                    !.tell = {<<"homework", h>>}],
                    File("homework", h, file))

(* create_submission: one response of a student, or of a parent for one.   *)
Respond(s, h, p, file) ==
    /\ h \in Keys("homework")
    /\ <<h, p>> \notin Keys("response")
    /\ BeginStoring(s,
          [Work EXCEPT !.insert = [response |-> <<h, p>> :>
              [of |-> <<"homework", h>>, file |-> file, reviewed |-> FALSE, approved |-> FALSE]],
                       !.needs = {<<"homework", h>>}],
          File("response", <<h, p>>, file))

(* review_submission: feedback, an approval or both, by the teacher.       *)
ReviewResponse(s, h, p, says) ==
    /\ <<h, p>> \in Keys("response")
    /\ LET row == db.response[<<h, p>>]
           approved == IF says = "none" THEN row.approved ELSE says = "approve"
       IN  Begin(s, [Work EXCEPT !.update = [response |->
              Sets("response", <<h, p>>, [reviewed |-> TRUE, approved |-> approved])]])

(* list_by_school: the homework of a class, of which some children have,   *)
(* or have not, handed in a response.                                      *)
ListHomework(children, submitted) ==
    IF submitted = "any" \/ (children = {} /\ submitted = "no") THEN Keys("homework")
    ELSE {h \in Keys("homework") :
            (submitted = "yes") = \E p \in children : <<h, p>> \in Keys("response")}

HomeworkStep(s) ==
    /\ area = "homework"
    /\ \/ \E h \in Lessons, file \in BOOLEAN : CreateHomework(s, h, file)
       \/ \E h \in Lessons, p \in Pupils, file \in BOOLEAN : Respond(s, h, p, file)
       \/ \E h \in Lessons, p \in Pupils, says \in {"approve", "reject", "none"} :
             ReviewResponse(s, h, p, says)
=============================================================================
