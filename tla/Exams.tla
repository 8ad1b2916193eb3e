-------------------------------- MODULE Exams --------------------------------
(***************************************************************************)
(* Exams, the marks entered for them, their publication and report cards   *)
(* (src/app/services/result.py), and exam schedules (exam_schedule.py).    *)
(*                                                                         *)
(* Exams and results have unique constraints and are keyed by them; the    *)
(* schedule of a section has none, and is found by a query.                *)
(***************************************************************************)
EXTENDS UnitOfWork

CONSTANTS ExamNames,       \* (class, year, name) of an exam
          Marks,           \* pairs of marks obtained and full marks, as the schema takes them
          Bands,           \* rows of grade_master: letter, low, high
          Series, Entries  \* ids of schedules and their papers

ASSUME ExamsConstants == Marks \subseteq {m \in Nat \X (Nat \ {0}) : m[1] <= m[2]}

Percentages == 0..10000
Result == [of : {"exam"} \X ExamNames, mark : Nat, out : Nat \ {0}, percent : Percentages,
           grade : {b.letter : b \in Bands}, published : BOOLEAN]
ExamSeries == [of : {"exam"} \X ExamNames, section : Sections, published : BOOLEAN]
Paper == [of : {"series"} \X Series, cancelled : BOOLEAN]
Kinds == {"generated", "uploaded"}

ExamsTypeOK ==
    /\ area = "exams" => /\ Table("exam", ExamNames, {Present})
                         /\ Table("result", ExamNames \X Pupils \X Subjects, Result)
                         /\ Table("card", Kinds \X ExamNames \X Pupils, {Present})
    /\ area = "schedules" => /\ Table("exam", ExamNames, {Present})
                             /\ Table("series", Series, ExamSeries)
                             /\ Table("paper", Entries, Paper)

ExamsInit ==
    \/ Starts("exams", [exam |-> None, result |-> None, card |-> None])
    \/ Starts("schedules", [exam |-> [e \in ExamNames |-> Present], series |-> None,
                            paper |-> None])
-----------------------------------------------------------------------------
(* create_exam and create_exams_bulk: one exam, or one for each class that *)
(* has none of that name.                                                  *)
CreateExams(s, E) ==
    LET new == E \ Keys("exam") IN
    /\ Cardinality(E) = 1 => new = E
    /\ new # {}
    /\ Begin(s, [Work EXCEPT !.insert = [exam |-> [e \in new |-> Present]]])

(* delete_exam.  The mapper detaches the results it finds from the exam,   *)
(* which the database refuses; those it does not find go with the exam.    *)
DeleteExam(s, e) ==
    /\ e \in Keys("exam")
    /\ area = "exams" => ~\E k \in Keys("result") : k[1] = e
    /\ Begin(s, [Work EXCEPT !.drop = [exam |-> {e}]])

(* In hundredths of a percent.                                             *)
Percentage(m) == (20000 * m[1] + m[2]) \div (2 * m[2])
BandsOf(percent) == {b \in Bands : b.low <= percent /\ percent <= b.high}
GradeOf(m) == (CHOOSE b \in BandsOf(Percentage(m)) : TRUE).letter

(* Mutant of Score: the grade is looked up by the mark, not in percent.    *)
ScoreByMark(m) == [mark |-> m[1], out |-> m[2], percent |-> Percentage(m),
                   grade |-> (CHOOSE b \in BandsOf(100 * m[1]) : TRUE).letter]

Score(m) == [mark |-> m[1], out |-> m[2], percent |-> Percentage(m), grade |-> GradeOf(m)]

(* A new result waits for a publication, also when the exam had one.       *)
NewResult(e, m) == [of |-> <<"exam", e>>, published |-> FALSE] @@ Score(m)

(* Mutant of Corrected: a correction takes the result back to unpublished. *)
CorrectedUnseen(m) == [published |-> FALSE] @@ Score(m)
Corrected(m) == Score(m)

(* bulk_enter_results: marks of some students in one subject, each needing *)
(* exactly one grade; results that exist are corrected, published or not.  *)
EnterResults(s, e, sub, marks) ==
    LET key(p) == <<e, p, sub>>
        old == {p \in DOMAIN marks : key(p) \in Keys("result")}
        new == {p \in DOMAIN marks : key(p) \notin Keys("result")}
    IN  /\ e \in Keys("exam")
        /\ \A p \in DOMAIN marks : Cardinality(BandsOf(Percentage(marks[p]))) = 1
        /\ Begin(s, [Work EXCEPT
               !.insert = [result |-> [k \in {key(p) : p \in new} |-> NewResult(e, marks[k[2]])]],
               !.update = [result |-> [k \in {key(p) : p \in old} |->
                               Changed(db.result[k], Corrected(marks[k[2]]))]],
               !.needs = {<<"exam", e>>}])

(* publish_exam: one UPDATE of the results there are.                      *)
PublishExam(s, e) ==
    /\ e \in Keys("exam")
    /\ Begin(s, [Work EXCEPT
           !.update = [result |-> [k \in {k \in Keys("result") : k[1] = e} |-> [published |-> TRUE]]],
           !.tell = {<<"exam", e>>}])

(* A report card is found in the storage, uploaded or generated.           *)
HasCard(e, p) == \E kind \in Kinds : <<"card", <<kind, e, p>>>> \in stored

StoreCard(s, kind, e, p) ==
    BeginStoring(s, [Work EXCEPT !.put = [card |-> <<kind, e, p>> :> [new |-> Present, set |-> None]]],
                 {<<"card", <<kind, e, p>>>>})

(* generate_report_card: once, from whatever results there are.            *)
GenerateCard(s, e, p) ==
    /\ ~HasCard(e, p)
    /\ e \in Keys("exam")
    /\ \E k \in Keys("result") : k[1] = e /\ k[2] = p
    /\ StoreCard(s, "generated", e, p)

(* upload_report_card: a file that comes before the generated one.         *)
UploadCard(s, e, p) ==
    /\ e \in Keys("exam")
    /\ StoreCard(s, "uploaded", e, p)

(* _list_exams_for_learner: exams with a published result of the student,  *)
(* or with a report card.                                                  *)
ExamsOfLearner(p) ==
    {e \in Keys("exam") : \/ \E k \in Keys("result") : /\ k[1] = e /\ k[2] = p
                                                      /\ db.result[k].published
                          \/ HasCard(e, p)}

(* exam_distribution: students with results, and those of the class with   *)
(* a card only.                                                            *)
Distribution(e) == {k[2] : k \in {k \in Keys("result") : k[1] = e}}
                   \cup {p \in Pupils : HasCard(e, p)}

ExamsStep(s) ==
    /\ area = "exams"
    /\ \/ \E E \in SUBSET ExamNames : CreateExams(s, E)
       \/ \E e \in ExamNames : DeleteExam(s, e) \/ PublishExam(s, e)
       \/ \E e \in ExamNames, sub \in Subjects, P \in SUBSET Pupils :
             P # {} /\ \E marks \in [P -> Marks] : EnterResults(s, e, sub, marks)
       \/ \E e \in ExamNames, p \in Pupils : GenerateCard(s, e, p) \/ UploadCard(s, e, p)
-----------------------------------------------------------------------------
(* Exam schedules: of an exam and a section, written and then published.   *)
SeriesOf(e, section) == {x \in Keys("series") : /\ db.series[x].of = <<"exam", e>>
                                                /\ db.series[x].section = section}

CreateSeries(s, x, e, section) ==
    /\ e \in Keys("exam")
    /\ SeriesOf(e, section) = {}
    /\ Unused("series", x)
    /\ Begin(s, [Work EXCEPT !.insert = [series |-> x :>
                    [of |-> <<"exam", e>>, section |-> section, published |-> FALSE]],
                             !.needs = {<<"exam", e>>}])

AddEntry(s, n, x) ==
    /\ x \in Keys("series")
    /\ Unused("paper", n)
    /\ Begin(s, [Work EXCEPT
           !.insert = [paper |-> n :> [of |-> <<"series", x>>, cancelled |-> FALSE]],
           !.needs = {<<"series", x>>}])

(* publish_series: once, with a notice to the class.                       *)
PublishSeries(s, x) ==
    /\ x \in Keys("series") /\ ~db.series[x].published
    /\ Begin(s, [Work EXCEPT !.update = [series |-> Sets("series", x, [published |-> TRUE])],
                             !.tell = {<<"series", x>>}])

CancelEntry(s, n) ==
    /\ n \in Keys("paper")
    /\ Begin(s, [Work EXCEPT !.update = [paper |-> Sets("paper", n, [cancelled |-> TRUE])]])

(* list_series: students and parents see what is published.                *)
ListSeries(section, learner) ==
    {x \in Keys("series") : /\ db.series[x].section = section
                            /\ learner => db.series[x].published}

SchedulesStep(s) ==
    /\ area = "schedules"
    /\ \/ \E x \in Series, e \in ExamNames, section \in Sections : CreateSeries(s, x, e, section)
       \/ \E n \in Entries, x \in Series : AddEntry(s, n, x)
       \/ \E x \in Series : PublishSeries(s, x)
       \/ \E n \in Entries : CancelEntry(s, n)
       \/ \E e \in ExamNames : DeleteExam(s, e)
=============================================================================
