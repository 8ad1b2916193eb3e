--------------------------------- MODULE Campus ---------------------------------
(***************************************************************************)
(* The services of daily school life, each a module of its own, as the     *)
(* handlers of one server.  A behaviour is about one area of them, with    *)
(* the requests of several clients either one at a time (serial) or        *)
(* overlapping; what holds only for the former says so.                    *)
(***************************************************************************)
EXTENDS Coursework, Exams, Attendance, Classroom, Years, Teaching, Documents, Messaging, Auth,
        Audience, Students, Gallery

CampusInit == \/ CourseworkInit \/ ExamsInit \/ AttendanceInit \/ ClassroomInit
              \/ YearsInit \/ TeachingInit \/ DocumentsInit \/ MessagingInit \/ AuthInit
              \/ AudienceInit \/ StudentsInit \/ GalleryInit

Handle(s) ==
    \/ AssignmentsStep(s) \/ SubmissionsStep(s) \/ HomeworkStep(s)
    \/ ExamsStep(s) \/ SchedulesStep(s) \/ AttendanceStep(s)
    \/ ClassroomStep(s) \/ ContentStep(s) \/ QuizStep(s)
    \/ YearsStep(s) \/ StructureStep(s) \/ GradesStep(s)
    \/ TeachingStep(s) \/ TimetableStep(s) \/ DocumentsStep(s)
    \/ ChatStep(s) \/ AnnouncementsStep(s) \/ InboxStep(s)
    \/ AuthStep(s) \/ AudienceStep(s) \/ StudentsStep(s) \/ PromotionStep(s)
    \/ GalleryStep(s)

(* The date matters to what may be late or expires, and nowhere else.      *)
MidnightPasses == area \in {"assignments", "auth"} /\ NextDay

CampusNext == (\E s \in Sessions : Handle(s) \/ EndOfRequest(s)) \/ MidnightPasses
CampusSpec == CampusInit /\ [][CampusNext]_vars
-----------------------------------------------------------------------------
(* Every table holds rows of its type.                                     *)
CampusTypeOK == /\ CourseworkTypeOK /\ ExamsTypeOK /\ AttendanceTypeOK /\ ClassroomTypeOK
                /\ YearsTypeOK /\ TeachingTypeOK /\ DocumentsTypeOK /\ MessagingTypeOK
                /\ AuthTypeOK /\ AudienceTypeOK /\ StudentsTypeOK /\ GalleryTypeOK

(* Nobody is told of what did not happen: a notification is about rows     *)
(* that were committed, although handlers fail after scheduling it; and    *)
(* whoever was told to be logged out is.                                   *)
ToldOfFacts ==
    \A n \in Keys("notice") :
        CASE n[1] \in {"assignment", "homework", "announcement"} -> n[2] \in Keys(n[1])
          [] n[1] = "attendance" -> History(n[2]) # {}
          [] n[1] = "series" -> n[2] \in Keys("series") => db.series[n[2]].published
          [] n[1] = "uploaded" -> n[2] \in Keys("document")
          [] n[1] = "reviewed" -> IF area = "documents" THEN n[2] \in Keys("document")
                                  ELSE db.submission[n[2]].graded
          [] n[1] = "post" -> n[2] \in Keys("post")
          [] n[1] = "left" -> \A kind \in {"access", "refresh"} : ~Accepted(n[2], kind)
          [] OTHER -> TRUE

(* A committed row that names a file names one that is stored, whichever   *)
(* request was aborted and whatever failed after the upload.  The photos   *)
(* of an album are not: see DeleteFullAlbum.                               *)
FilesAreStored ==
    /\ \A t \in {"assignment", "submission", "homework", "response", "document"} \cap DOMAIN db :
          \A k \in Keys(t) : db[t][k].file => <<t, k>> \in stored
    /\ area = "exams" => \A k \in Keys("card") : <<"card", k>> \in stored

(* What the handlers look for before they insert is there at most once,    *)
(* while they do not overlap; the active year is the only one even then.   *)
OneOfAKind ==
    /\ area = "years" => Cardinality(ActiveYears) <= 1
    /\ serial /\ area = "assignments" =>
          \A a \in Assignments, p \in Pupils : Cardinality(OfPupil(a, p)) <= 1
    /\ serial /\ area = "schedules" =>
          \A e \in ExamNames, section \in Sections : Cardinality(SeriesOf(e, section)) <= 1
    /\ DirectOnce /\ SectionsRegistered /\ ReviewsKept /\ OneUse /\ StudentsAgree

(* Columns that go together agree, while handlers do not overlap: an       *)
(* approval with its date, a grade with its mark, the bounds of a grade,   *)
(* the cover of an album with its featured photo.                          *)
ColumnsAgree ==
    serial =>
        /\ CoverIsFeatured
        /\ area = "assignments" => \A u \in Keys("submission") :
              db.submission[u].approved = db.submission[u].dated
        /\ area = "exams" => \A k \in Keys("result") :
              LET row == db.result[k] IN
              /\ row.percent = Percentage(<<row.mark, row.out>>)
              /\ row.grade = GradeOf(<<row.mark, row.out>>)
        /\ area = "grades" => \A l \in Keys("grade") : db.grade[l].low < db.grade[l].high

(* Two queries of one thing show the same: attendance, classroom,          *)
(* structure, teaching, documents, announcements, and below a learner's    *)
(* exams, exam schedules, homework and best attempt.                       *)
ViewsAgree ==
    /\ AttendanceViewsAgree /\ ClassroomViewsAgree /\ StructureViewsAgree
    /\ TeachingViewsAgree /\ DocumentViewsAgree /\ ToldAreListed
    /\ area = "exams" => \A p \in Pupils : \A e \in ExamsOfLearner(p) : p \in Distribution(e)
    /\ area = "schedules" => \A section \in Sections :
          ListSeries(section, TRUE) = {x \in ListSeries(section, FALSE) : db.series[x].published}
    /\ area = "homework" => \A children \in SUBSET Pupils :
          /\ ListHomework(children, "yes") \cap ListHomework(children, "no") = {}
          /\ ListHomework(children, "no") \cup ListHomework(children, "yes") = Keys("homework")
    /\ area = "quizzes" => \A p \in Pupils : \A n \in AttemptsOf(p) : db.attempt[n].score <= BestScore(p)

Kept(t) == Keys(t) \cap DOMAIN db'[t]

(* What families were shown stays: published results, schedules and exams  *)
(* of the class a student is in (no student moves in these areas),         *)
(* cancelled papers, graded attempts, whether a submission was late,       *)
(* messages and what was read of them.  While handlers do not overlap, a   *)
(* past year's classroom is closed, a locked quiz takes no attempt, and a  *)
(* change of questions leaves the total right.                             *)
LastingStep ==
    /\ area = "exams" =>
          /\ \A k \in Kept("result") : db.result[k].published => db'.result[k].published
          /\ \A p \in Pupils : ExamsOfLearner(p) \cap Keys("exam")' \subseteq ExamsOfLearner(p)'
    /\ area = "schedules" => /\ \A x \in Kept("series") : db.series[x].published => db'.series[x].published
                             /\ \A n \in Kept("paper") : db.paper[n].cancelled => db'.paper[n].cancelled
    /\ area = "assignments" => \A u \in Keys("submission") : db'.submission[u].late = db.submission[u].late
    /\ area = "chat" => /\ Keys("message") \subseteq Keys("message")'
                        /\ Keys("read") \subseteq Keys("read")'
    /\ area = "quizzes" =>
          /\ \A n \in Keys("attempt") : db'.attempt[n] = db.attempt[n]
          /\ serial /\ db.question # db'.question => db'.quiz["q"].total = Sum(MarksNow')
          /\ serial /\ db.attempt # db'.attempt => ~db'.quiz["q"].locked
    /\ area = "classroom" /\ serial /\ ~WriteAllowed =>
          db'.chapter = db.chapter /\ db'.topic = db.topic /\ db'.item = db.item
Lasting == [][LastingStep]_vars
=============================================================================
