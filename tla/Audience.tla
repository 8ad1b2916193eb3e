------------------------------- MODULE Audience -------------------------------
(***************************************************************************)
(* Who is told of a row, who finds it in a list, who may open it and who   *)
(* may answer it.  Each service works this out by queries of its own, from *)
(* the class, section and year that a student row holds and from the       *)
(* classes a teacher is assigned to; they were written one by one and      *)
(* have to agree while students move and assignments change.               *)
(*                                                                         *)
(* One teacher, whose rows are all those that a teacher writes.  A query   *)
(* that expects at most one row and finds two raises an error, so that     *)
(* what it guards happens for exactly one row.                             *)
(***************************************************************************)
EXTENDS UnitOfWork

CONSTANTS Posts,           \* ids of whatever concerns a class
          Seats,           \* class, section and year of a student
          Duties,          \* assignments of the teacher: a seat and a subject
          Guardians        \* users who are parents

Terms == {"past", "now"}                          \* "now" is the active year
(* A user is a student or a parent; "open" stands for no class named.      *)
ASSUME AudienceConstants ==
    /\ IsFiniteSet(Pupils) /\ Pupils \cap Guardians = {} /\ "open" \notin Classes
    /\ Seats \subseteq [class : Classes, section : Sections, year : Terms]
    /\ \A d \in Duties : d.class \in Classes /\ d.section \in Sections /\ d.year \in Terms

PostKinds == {"assignment", "homework", "diary", "exam", "series", "incident"}
Post == [kind : PostKinds, class : Classes, year : Terms,
         about : Pupils \cup {d.subject : d \in Duties} \cup {"all"}]
Student == {seat @@ [parent |-> g] : seat \in Seats, g \in Guardians}

AudienceTypeOK ==
    area = "audience" => /\ Table("student", Pupils, Student)
                         /\ Table("duty", Duties, {Present})
                         /\ Table("post", Posts, Post)
                         /\ Table("mark", Posts \X Pupils, [by : {"teacher", "office"}])

(* Handlers one at a time: what the rules read is what is committed.       *)
AudienceInit ==
    /\ serial = TRUE
    /\ \E students \in [Pupils -> Student], D \in SUBSET Duties :
          Starts("audience", [student |-> students, duty |-> [d \in D |-> Present],
                              post |-> None, mark |-> None])
-----------------------------------------------------------------------------
(* Those a user answers for: a student, or the children of a parent.       *)
FamilyOf(u) == {p \in Pupils : u \in {p, db.student[p].parent}}
WithParents(S) == S \cup {db.student[p].parent : p \in S}
Sole(S) == Cardinality(S) = 1
InClass(x) == {p \in Pupils : db.student[p].class = db.post[x].class}
InYear(x) == {p \in InClass(x) : db.student[p].year = db.post[x].year}
OfKind(kind) == {x \in Keys("post") : db.post[x].kind = kind}

(* find_assignment: of a class and subject, in any section.                *)
DutiesIn(class, subject, year) ==
    {d \in Keys("duty") : d.class = class /\ d.subject = subject /\ d.year = year}
(* The teacher's assignments to the class and section of a student.        *)
DutiesFor(p, year) == {d \in Keys("duty") : /\ d.class = db.student[p].class
                                            /\ d.section = db.student[p].section
                                            /\ d.year = year}

(* Mutant of ToldOfAssignment: the students of every year are told.        *)
ToldOfAnyYear(x) == WithParents(InClass(x))

(* The background tasks that tell a class, as they find it.                *)
ToldOfAssignment(x) == WithParents(InYear(x))
ToldOfHomework(x) == WithParents(InClass(x))
ToldOfResults(x) == WithParents(InClass(x))
ToldOfSchedule(x) == WithParents(InClass(x))
ToldOfIncident(x) == {db.student[db.post[x].about].parent}
ToldOf(x) == CASE db.post[x].kind = "assignment" -> ToldOfAssignment(x)
               [] db.post[x].kind = "homework" -> ToldOfHomework(x)
               [] db.post[x].kind = "exam" -> ToldOfResults(x)
               [] db.post[x].kind = "series" -> ToldOfSchedule(x)
               [] db.post[x].kind = "incident" -> ToldOfIncident(x)
               [] OTHER -> {}
-----------------------------------------------------------------------------
NewPost(s, x, row, told) ==
    /\ Unused("post", x)
    /\ Begin(s, [Work EXCEPT !.insert = [post |-> x :> row],
                             !.jobs = IF told THEN {x} ELSE {}])

(* Assignments, homework and the diary: by the teacher of the class and    *)
(* subject, who must not teach it in two sections.                         *)
MayPost(class, subject, year) == Sole(DutiesIn(class, subject, year))
PostWork(s, x, kind, d) ==
    /\ MayPost(d.class, d.subject, d.year)
    /\ NewPost(s, x, [kind |-> kind, class |-> d.class, year |-> d.year, about |-> d.subject], TRUE)

(* create_entry of the diary: one for a class and subject on a day.        *)
WriteDiary(s, x, d) ==
    LET row == [kind |-> "diary", class |-> d.class, year |-> d.year, about |-> d.subject] IN
    /\ MayPost(d.class, d.subject, d.year)
    /\ \A y \in OfKind("diary") : db.post[y] # row
    /\ NewPost(s, x, row, FALSE)

(* External: exams and schedules (module Exams), here once published.      *)
Publish(s, x, kind, seat) ==
    NewPost(s, x, [kind |-> kind, class |-> seat.class, year |-> seat.year, about |-> "all"], TRUE)

(* create_log: on a student of the teacher's, whom the parent is told of   *)
(* when it is negative.                                                    *)
WriteLog(s, x, p, year, negative) ==
    /\ Sole(DutiesFor(p, year))
    /\ NewPost(s, x, [kind |-> "incident", class |-> db.student[p].class, year |-> year, about |-> p],
               negative)

(* bulk_enter_results, of one student: by a teacher of the student's       *)
(* section, or by the office; who corrects a mark is who entered it.       *)
EnterMark(s, x, p, by) ==
    /\ x \in OfKind("exam") /\ p \in InClass(x)
    /\ by = "teacher" => DutiesFor(p, db.post[x].year) # {}
    /\ Begin(s, IF <<x, p>> \in Keys("mark")
                THEN [Work EXCEPT !.update = [mark |-> Sets("mark", <<x, p>>, [by |-> by])]]
                ELSE [Work EXCEPT !.insert = [mark |-> <<x, p>> :> [by |-> by]]])

(* External: enrolment, and the assignment of teachers.                    *)
External(rows) == /\ ~\E q \in Sessions : Busy(q)
                  /\ db' = rows
                  /\ UNCHANGED <<area, stored, today, tx, serial>>
Seat(p, seat) == External([db EXCEPT !.student[p] = seat @@ @])
Reappoint(d) ==
    External([db EXCEPT !.duty = [e \in SymDiff(Keys("duty"), {d}) |-> Present]])

Tell(s) ==
    /\ tx[s].state = "after" /\ tx[s].jobs # {}
    /\ db' = [db EXCEPT !.notice = @ @@ [n \in UNION {{<<"post", x, u>> : u \in ToldOf(x)} :
                                                       x \in tx[s].jobs} |-> [read |-> FALSE]]]
    /\ tx' = [tx EXCEPT ![s] = Idle]
    /\ UNCHANGED <<area, stored, today, serial>>

AudienceStep(s) ==
    /\ area = "audience"
    /\ \/ \E x \in Posts, d \in Duties :
             \/ \E kind \in {"assignment", "homework"} : PostWork(s, x, kind, d)
             \/ WriteDiary(s, x, d)
       \/ \E x \in Posts, kind \in {"exam", "series"}, seat \in Seats : Publish(s, x, kind, seat)
       \/ \E x \in Posts, p \in Pupils :
             \/ \E year \in Terms, negative \in BOOLEAN : WriteLog(s, x, p, year, negative)
             \/ \E by \in {"teacher", "office"} : EnterMark(s, x, p, by)
       \/ \E p \in Pupils, seat \in Seats : Seat(p, seat)
       \/ \E d \in Duties : Reappoint(d)
       \/ Tell(s)
-----------------------------------------------------------------------------
(* Lists.  A user may name a class and a year, or leave them open.         *)

(* list_assignments: a parent who names no class is shown all classes.     *)
ListsAssignment(u, class, x) ==
    IF u \in Pupils
    THEN class \in {"open", db.student[u].class} /\ u \in InClass(x)
    ELSE class = "open" \/ (class = db.post[x].class /\ FamilyOf(u) \cap InClass(x) # {})

(* list_homework: of the active year unless one is named; a parent who     *)
(* names the class of two children gets an error.                          *)
ListsHomework(u, class, year, x) ==
    /\ db.post[x].year = (IF year = "open" THEN "now" ELSE year)
    /\ FamilyOf(u) \cap InClass(x) # {}
    /\ class # "open" => /\ class = db.post[x].class
                         /\ u \in Guardians => Sole(FamilyOf(u) \cap InClass(x))

(* list_entries of the diary                                               *)
ListsDiary(u, class, year, x) ==
    LET classes == {db.student[p].class : p \in FamilyOf(u)}
        namesakes == {p \in FamilyOf(u) : db.student[p].class = class}
    IN  /\ class # "open" => IF u \in Pupils THEN class \in classes ELSE Sole(namesakes)
        /\ db.post[x].class \in (IF class = "open" THEN classes ELSE {class})
        /\ IF year = "open" THEN db.post[x].year = "now" ELSE db.post[x].year = year

(* list_series, and get_schedule of a series that is named.                *)
ListsSeries(u, x) == IF u \in Pupils THEN u \in InClass(x) ELSE Sole(FamilyOf(u) \cap InClass(x))
OpensSeries(u, x) == FamilyOf(u) \cap InClass(x) # {}

(* list_exams of the teacher: of the classes assigned, and wherever the    *)
(* teacher entered marks.                                                  *)
Entered(x, p) == <<x, p>> \in Keys("mark") /\ db.mark[<<x, p>>].by = "teacher"
TeacherListsExam(x, year) ==
    /\ year \in {"open", db.post[x].year}
    /\ \/ \E d \in Keys("duty") : d.class = db.post[x].class /\ year \in {"open", d.year}
       \/ \E p \in Pupils : Entered(x, p)

(* list_logs: of a parent's child, the student's own, and those the        *)
(* teacher wrote this year on present students, one of them when named.    *)
ListsLog(u, p, x) == p \in FamilyOf(u) /\ db.post[x].about = p
TeacherListsLog(x) == db.post[x].year = "now" /\ DutiesFor(db.post[x].about, "now") # {}
TeacherListsLogOf(p, x) ==
    /\ Sole(DutiesFor(p, "now")) /\ db.post[x].about = p
    /\ TeacherListsLog(x)

(* list_submissions and list_submissions of homework                       *)
ListsSubmission(u, x, p) == IF u \in Pupils THEN u = p /\ u \in InYear(x)
                            ELSE p \in FamilyOf(u) \cap InYear(x)
ListsResponse(u, x, p) == IF u \in Pupils THEN u = p ELSE db.student[p].parent = u
-----------------------------------------------------------------------------
(* Single rows.                                                            *)

(* get_assignment: a parent needs one child in the class, not two.         *)
OpensAssignment(u, x) == IF u \in Pupils THEN u \in InYear(x) ELSE Sole(FamilyOf(u) \cap InYear(x))

(* create_submission, of an assignment and of homework.                    *)
MayHandIn(u, x, p) == /\ IF u \in Guardians THEN u = db.student[p].parent ELSE u = p
                      /\ <<db.student[p].class, db.student[p].year>> = <<db.post[x].class, db.post[x].year>>
MayRespond(u, x, p) == /\ IF u \in Guardians THEN u = db.student[p].parent ELSE u = p
                       /\ db.student[p].class = db.post[x].class

(* _assert_exam_student_access, for the teacher.                           *)
TeacherOpensResults(x, p) == /\ p \in InClass(x)
                             /\ DutiesFor(p, db.post[x].year) # {} \/ Entered(x, p)

(* _assert_teacher_can_view_student, of attendance.                        *)
SeesAttendance(p) == DutiesFor(p, db.student[p].year) # {}

(* _teacher_allowed_group_user_ids, and list_chatable_users for a role.    *)
TaughtIn(year) == {p \in Pupils : db.student[p].year = year /\ DutiesFor(p, year) # {}}
GroupOf(year) == WithParents(TaughtIn(year))
Chatable(role, year) ==
    LET pairs == {<<d.class, d.section>> : d \in {d \in Keys("duty") : d.year = year}}
        found == {p \in Pupils : /\ db.student[p].year = year
                                 /\ <<db.student[p].class, db.student[p].section>> \in pairs}
    IN  IF role = "student" THEN found ELSE {db.student[p].parent : p \in found}
-----------------------------------------------------------------------------
Siblings(u, S) == u \in Guardians /\ Cardinality(FamilyOf(u) \cap S) > 1
Users == Pupils \cup Guardians

(* What the rules have to agree on.  Whoever is told of a row finds it     *)
(* when naming its class and year, and may open it, parents of two         *)
(* children of one class aside; whoever may answer finds what to answer    *)
(* and then the answer; the diary is listed like homework; a teacher finds *)
(* whatever the teacher may open, and knows the same students in           *)
(* attendance, behaviour and chat.                                         *)
AudienceAgrees ==
    area = "audience" =>
        /\ \A x \in OfKind("assignment"), u \in Users :
              /\ u \in ToldOf(x) => ListsAssignment(u, db.post[x].class, x)
              /\ OpensAssignment(u, x) = (u \in ToldOf(x) /\ ~Siblings(u, InYear(x)))
              /\ \A p \in Pupils : MayHandIn(u, x, p) =>
                    ListsAssignment(u, "open", x) /\ ListsSubmission(u, x, p)
        /\ \A x \in OfKind("homework"), u \in Users :
              /\ u \in ToldOf(x) => ListsHomework(u, "open", db.post[x].year, x)
              /\ \A p \in Pupils : MayRespond(u, x, p) =>
                    /\ ListsResponse(u, x, p)
                    /\ ListsHomework(u, db.post[x].class, db.post[x].year, x) = ~Siblings(u, InClass(x))
        /\ \A x \in OfKind("diary"), u \in Users, year \in Terms \cup {"open"} :
              \A class \in {"open", db.post[x].class} :
                 ListsDiary(u, class, year, x) = ListsHomework(u, class, year, x)
        /\ \A x \in OfKind("series"), u \in Users :
              /\ (u \in ToldOf(x)) = OpensSeries(u, x)
              /\ ListsSeries(u, x) = (OpensSeries(u, x) /\ ~Siblings(u, InClass(x)))
        /\ \A x \in OfKind("exam"), p \in Pupils : TeacherOpensResults(x, p) =>
              p \in ToldOf(x) /\ \A year \in {"open", db.post[x].year} : TeacherListsExam(x, year)
        /\ \A x \in OfKind("incident") :
              /\ \A u \in ToldOf(x) : ListsLog(u, db.post[x].about, x)
              /\ \A p \in Pupils : TeacherListsLogOf(p, x) =>
                    TeacherListsLog(x) /\ (db.student[p].year = "now" => SeesAttendance(p))
        /\ \A year \in Terms : Chatable("student", year) \cup Chatable("parent", year) = GroupOf(year)
        /\ \A p \in Pupils :
              /\ SeesAttendance(p) = (p \in GroupOf(db.student[p].year))
              /\ Sole(DutiesFor(p, db.student[p].year)) => SeesAttendance(p)
=============================================================================
