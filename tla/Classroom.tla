------------------------------- MODULE Classroom -------------------------------
(***************************************************************************)
(* The classroom (src/app/services/my_class.py): chapters with topics and  *)
(* content, which may only be written in the active year, and quizzes with *)
(* questions and graded attempts.                                          *)
(*                                                                         *)
(* A quiz stores its total marks, which every change of a question counts  *)
(* again.  Attempts are graded when they are submitted, against the        *)
(* questions read then.                                                    *)
(***************************************************************************)
EXTENDS UnitOfWork

CONSTANTS Chapters, Topics, Items,         \* ids
          Questions, Attempts,
          Weights                          \* marks of a question

ASSUME ClassroomConstants == Weights \subseteq Nat /\ IsFiniteSet(Questions)

Quiz == [total : Nat, locked : BOOLEAN]
Question == [of : {<<"quiz", "q">>}, marks : Weights]
Attempt == [of : {<<"quiz", "q">>}, student : Pupils, score : Nat, total : Nat]

ClassroomTypeOK ==
    /\ area = "classroom" => /\ Table("chapter", Chapters, [class : Classes, locked : BOOLEAN])
                             /\ Table("topic", Topics, [of : {"chapter"} \X Chapters])
                             /\ Table("item", Items, [of : {"topic"} \X Topics, class : Classes])
                             /\ Table("year", {"y"}, [active : BOOLEAN])
    /\ area = "quizzes" => /\ Table("quiz", {"q"}, Quiz)
                           /\ Table("question", Questions, Question)
                           /\ Table("attempt", Attempts, Attempt)
                           /\ Table("year", {"y"}, [active : BOOLEAN])

ThisYear == "y" :> [active |-> TRUE]
ClassroomInit ==
    \/ Starts("classroom", [chapter |-> None, topic |-> None, item |-> None, year |-> ThisYear])
    \/ Starts("quizzes", [quiz |-> None, question |-> None, attempt |-> None, year |-> ThisYear])

(* Another year is activated (AcademicYearService.activate).               *)
EndYear(s) == /\ db.year["y"].active
              /\ Begin(s, [Work EXCEPT !.update = [year |-> "y" :> [active |-> FALSE]]])

(* _assert_write_allowed: in the active year only.                         *)
WriteAllowed == db.year["y"].active
-----------------------------------------------------------------------------
CreateChapter(s, c, class) ==
    /\ WriteAllowed /\ Unused("chapter", c)
    /\ Begin(s, [Work EXCEPT !.insert = [chapter |-> c :> [class |-> class, locked |-> FALSE]]])

UpdateChapter(s, c, locked) ==
    /\ WriteAllowed /\ c \in Keys("chapter")
    /\ Begin(s, [Work EXCEPT !.update = [chapter |-> Sets("chapter", c, [locked |-> locked])]])

(* delete_chapter, delete_topic, delete_content: with all that is below.   *)
Remove(s, t, k) ==
    /\ WriteAllowed /\ k \in Keys(t)
    /\ Begin(s, [Work EXCEPT !.drop = (t :> {k})])

CreateTopic(s, i, c) ==
    /\ WriteAllowed /\ c \in Keys("chapter") /\ Unused("topic", i)
    /\ Begin(s, [Work EXCEPT !.insert = [topic |-> i :> [of |-> <<"chapter", c>>]],
                             !.needs = {<<"chapter", c>>}])

(* add_content: the class is the one the request names, whatever the topic *)
(* belongs to; only the reference to the topic is checked, by the database.*)
AddContent(s, n, i, class) ==
    /\ WriteAllowed /\ Unused("item", n)
    /\ Begin(s, [Work EXCEPT
           !.insert = [item |-> n :> [of |-> <<"topic", i>>, class |-> class]],
           !.needs = {<<"topic", i>>}])

(* upload_content_file: stored before any content names it.                *)
UploadContent(s, n) ==
    /\ WriteAllowed
    /\ BeginStoring(s, Work, {<<"content", n>>})

(* list_content and list_by_context: the content of a topic, and that of a *)
(* class.                                                                  *)
ContentOfTopic(i) == {n \in Keys("item") : db.item[n].of = <<"topic", i>>}
ContentOfClass(class) == {n \in Keys("item") : db.item[n].class = class}

(* list_chapters with the number of topics, list_topics with that of items.*)
TopicCount(c) == Cardinality({i \in Keys("topic") : db.topic[i].of = <<"chapter", c>>})
ContentCount(i) == Cardinality(ContentOfTopic(i))

ClassroomStep(s) ==
    /\ area = "classroom"
    /\ \/ \E c \in Chapters, class \in Classes : CreateChapter(s, c, class)
       \/ \E c \in Chapters, locked \in BOOLEAN : UpdateChapter(s, c, locked)
       \/ \E c \in Chapters, i \in Topics : CreateTopic(s, i, c)
       \/ \E t \in {"chapter", "topic"} : \E k \in Keys(t) : Remove(s, t, k)
       \/ EndYear(s)

ContentStep(s) ==
    /\ area = "classroom"
    /\ \/ \E n \in Items, i \in Topics, class \in Classes : AddContent(s, n, i, class)
       \/ \E n \in Items : UploadContent(s, n)
       \/ \E n \in Keys("item") : Remove(s, "item", n)

(* Nothing is lost from sight: the counts shown with chapters and topics   *)
(* add up to the rows there are, so that no topic or content outlives what *)
(* it belongs to.                                                          *)
ClassroomViewsAgree ==
    area = "classroom" =>
        /\ MapThenSumSet(TopicCount, Keys("chapter")) = Cardinality(Keys("topic"))
        /\ MapThenSumSet(ContentCount, Keys("topic")) = Cardinality(Keys("item"))
        /\ UNION {ContentOfClass(class) : class \in Classes} = Keys("item")
-----------------------------------------------------------------------------
Sum(marks) == MapThenSumSet(LAMBDA k : marks[k], DOMAIN marks)
MarksNow == [k \in Keys("question") |-> db.question[k].marks]

CreateQuiz(s, total) ==
    /\ WriteAllowed /\ "q" \notin Keys("quiz")
    /\ Begin(s, [Work EXCEPT !.insert = [quiz |-> "q" :> [total |-> total, locked |-> FALSE]]])

(* update_quiz: also the total may be set by hand.                         *)
UpdateQuiz(s, columns) ==
    /\ WriteAllowed /\ "q" \in Keys("quiz")
    /\ Begin(s, [Work EXCEPT !.update = [quiz |-> Sets("quiz", "q", columns)]])

(* Mutant of Recount: the marks taken away, not those that remain.         *)
RecountMinus(marks) == Sets("quiz", "q", [total |-> Sum(marks) - Sum(MarksNow)])

(* The total counted from the questions as this request leaves them.       *)
Recount(marks) == Sets("quiz", "q", [total |-> Sum(marks)])

AddQuestion(s, k, marks) ==
    /\ WriteAllowed /\ "q" \in Keys("quiz") /\ Unused("question", k)
    /\ Begin(s, [Work EXCEPT
           !.insert = [question |-> k :> [of |-> <<"quiz", "q">>, marks |-> marks]],
           !.update = [quiz |-> Recount((k :> marks) @@ MarksNow)],
           !.needs = {<<"quiz", "q">>}])

UpdateQuestion(s, k, marks) ==
    /\ WriteAllowed /\ k \in Keys("question")
    /\ Begin(s, [Work EXCEPT
           !.update = [question |-> Sets("question", k, [marks |-> marks]),
                       quiz |-> Recount((k :> marks) @@ MarksNow)]])

DeleteQuestion(s, k) ==
    /\ WriteAllowed /\ k \in Keys("question")
    /\ Begin(s, [Work EXCEPT !.drop = [question |-> {k}],
                             !.update = [quiz |-> Recount(Restrict(MarksNow, Keys("question") \ {k}))]])

(* Only an unlocked quiz of the active year may be attempted.              *)
MayAttempt == WriteAllowed /\ "q" \in Keys("quiz") /\ ~db.quiz["q"].locked

(* attempt_quiz: any number of times; right are the questions answered     *)
(* correctly, and the total is the quiz's own unless that is zero.         *)
AttemptQuiz(s, n, p, right) ==
    LET sum == Sum(MarksNow)
        total == IF db.quiz["q"].total = 0 THEN sum ELSE db.quiz["q"].total
    IN  /\ MayAttempt
        /\ right \subseteq Keys("question")
        /\ Unused("attempt", n)
        /\ Begin(s, [Work EXCEPT
               !.insert = [attempt |-> n :> [of |-> <<"quiz", "q">>, student |-> p, total |-> total,
                                             score |-> Sum(Restrict(MarksNow, right))]],
               !.needs = {<<"quiz", "q">>}])

(* list_my_attempts and list_quiz_attempts_teacher.                        *)
AttemptsOf(p) == {n \in Keys("attempt") : db.attempt[n].student = p}
BestScore(p) == Max({0} \cup {db.attempt[n].score : n \in AttemptsOf(p)})

QuizStep(s) ==
    /\ area = "quizzes"
    /\ \/ \E total \in {0} \cup Weights : CreateQuiz(s, total)
       \/ \E total \in Weights : UpdateQuiz(s, [total |-> total])
       \/ \E locked \in BOOLEAN : UpdateQuiz(s, [locked |-> locked])
       \/ \E k \in Questions, marks \in Weights : AddQuestion(s, k, marks) \/ UpdateQuestion(s, k, marks)
       \/ \E k \in Questions : DeleteQuestion(s, k)
       \/ \E n \in Attempts, p \in Pupils, right \in SUBSET Questions : AttemptQuiz(s, n, p, right)
       \/ EndYear(s)
=============================================================================
