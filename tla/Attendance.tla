------------------------------ MODULE Attendance ------------------------------
(***************************************************************************)
(* Daily attendance by subject (src/app/services/attendance.py): marked by *)
(* an upsert for a class and section, and counted by student, by class, by *)
(* subject and for the school, each by a query of its own                  *)
(* (src/app/repositories/attendance.py).  One academic year.               *)
(***************************************************************************)
EXTENDS UnitOfWork

CONSTANTS Statuses,      \* of AttendanceStatus: "present", "absent", "late"
          Threshold,     \* in percent
          Batches        \* sets of students marked by one request

ASSUME AttendanceConstants ==
    /\ IsFiniteSet(Pupils) /\ IsFiniteSet(Subjects) /\ Threshold \in Nat
    /\ Statuses \subseteq {"present", "absent", "late"} /\ Batches \subseteq SUBSET Pupils

Place == [class : Classes, section : Sections]
Mark == [class : Classes, section : Sections, status : Statuses]

AttendanceTypeOK ==
    area = "attendance" => /\ Table("student", Pupils, Place)
                           /\ Table("attendance", Pupils \X Subjects \X (0..MaxDay), Mark)

AttendanceInit ==
    \E place \in Place :
        Starts("attendance", [student |-> [p \in Pupils |-> place], attendance |-> None])

(* A student is placed elsewhere; the attendance rows stay as they are.    *)
Replace(s, p, place) ==
    /\ db.student[p] # place
    /\ Begin(s, [Work EXCEPT !.update = [student |-> Sets("student", p, place)]])

(* bulk_upsert: a row of its own, or the status and the section of the row *)
(* that is there; its class stays.                                         *)
Upsert(place, status) == [new |-> [status |-> status] @@ place,
                          set |-> [status |-> status, section |-> place.section]]

(* mark_attendance: for students who are in the class and section, who are *)
(* told, as are their parents.                                             *)
MarkAttendance(s, place, sub, day, marks) ==
    /\ \A p \in DOMAIN marks : db.student[p] = place
    /\ Begin(s, [Work EXCEPT
           !.put = [attendance |-> [k \in {<<p, sub, day>> : p \in DOMAIN marks} |->
                                       Upsert(place, marks[k[1]])]],
           !.tell = {<<"attendance", p>> : p \in DOMAIN marks}])

AttendanceStep(s) ==
    /\ area = "attendance"
    /\ \/ \E p \in Pupils, place \in Place : Replace(s, p, place)
       \/ \E place \in Place, sub \in Subjects, day \in 0..MaxDay, P \in Batches :
             \E marks \in [P -> Statuses] : MarkAttendance(s, place, sub, day, marks)
-----------------------------------------------------------------------------
(* The queries.  Each counts the rows it selects by their status.          *)
RowsWith(status, K) == Cardinality({k \in K : db.attendance[k].status = status})

(* Mutant of Tally: whoever came late was present.                         *)
TallyLate(K) == [total |-> Cardinality(K), absent |-> RowsWith("absent", K),
                 present |-> Cardinality(K) - RowsWith("absent", K), late |-> RowsWith("late", K)]
Tally(K) == [total |-> Cardinality(K), present |-> RowsWith("present", K),
             absent |-> RowsWith("absent", K), late |-> RowsWith("late", K)]

Grouped(K, Key(_)) == [g \in {Key(k) : k \in K} |-> Tally({k \in K : Key(k) = g})]

(* list_by_student                                                         *)
History(p) == {k \in Keys("attendance") : k[1] = p}

(* get_student_subject_stats, for the student's detail and analytics.      *)
SubjectStats(p) == LET Subject(k) == k[2] IN Grouped(History(p), Subject)
(* get_student_monthly_summary; a day stands for a month.                  *)
MonthlySummary(p) == LET Month(k) == k[3] IN Grouped(History(p), Month)
(* get_class_analytics: by the class and section of the rows.              *)
ClassAnalytics ==
    LET Class(k) == <<db.attendance[k].class, db.attendance[k].section>>
    IN  Grouped(Keys("attendance"), Class)
(* get_school_subject_analytics                                            *)
SubjectAnalytics == LET Subject(k) == k[2] IN Grouped(Keys("attendance"), Subject)
(* get_weekly_trend, get_monthly_trend: the last periods, today's included.*)
Trend(periods) == LET Period(k) == k[3]
                  IN  Grouped({k \in Keys("attendance") : k[3] > today - periods}, Period)
(* get_school_totals                                                       *)
SchoolTotals == Tally(Keys("attendance"))

(* get_students_below_threshold: students now in the class, by their rows  *)
(* of that class.                                                          *)
BelowThreshold(class) ==
    LET in(p) == Tally({k \in History(p) : db.attendance[k].class = class})
    IN  {p \in Pupils : /\ db.student[p].class = class
                        /\ in(p).total > 0
                        /\ 100 * in(p).present < Threshold * in(p).total}

(* get_top_absentees                                                       *)
Absentees == {p \in Pupils : Tally(History(p)).absent > 0}

(* get_lecture_attendance: the students of the class and section, absent   *)
(* when they have no row.                                                  *)
LectureSnapshot(place, sub, day) ==
    [p \in {p \in Pupils : db.student[p] = place} |->
        IF <<p, sub, day>> \in Keys("attendance") THEN db.attendance[<<p, sub, day>>].status
        ELSE "absent"]

SumOf(column, groups) == MapThenSumSet(LAMBDA g : groups[g][column], DOMAIN groups)

(* What a student, a class and the school are shown adds up: the counts by *)
(* subject, by month and by class have the same totals, an absentee is one *)
(* whose own page says so, and a student who only has rows of one class is *)
(* below its threshold exactly when the student's own page says so;         *)
(* whoever a lecture shows as present is counted so in the subject.        *)
AttendanceViewsAgree ==
    area = "attendance" =>
        /\ \A column \in {"total", "present", "absent", "late"} :
              /\ SumOf(column, ClassAnalytics) = SchoolTotals[column]
              /\ SumOf(column, SubjectAnalytics) = SchoolTotals[column]
              /\ SumOf(column, Trend(MaxDay + 1)) <= SchoolTotals[column]
              /\ \A p \in Pupils : SumOf(column, MonthlySummary(p)) = SumOf(column, SubjectStats(p))
        /\ SchoolTotals.total = SchoolTotals.present + SchoolTotals.absent + SchoolTotals.late
        /\ \A p \in Pupils :
              /\ \A sub \in Subjects, day \in 0..MaxDay :
                    LectureSnapshot(db.student[p], sub, day)[p] = "present"
                        => sub \in DOMAIN SubjectStats(p) /\ SubjectStats(p)[sub].present > 0
              /\ (p \in Absentees) = (SumOf("absent", SubjectStats(p)) > 0)
              /\ (\A k \in History(p) : db.attendance[k].class = db.student[p].class)
                  => (p \in BelowThreshold(db.student[p].class))
                     = (100 * SumOf("present", SubjectStats(p))
                        < Threshold * SumOf("total", SubjectStats(p)))
=============================================================================
