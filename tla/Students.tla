-------------------------------- MODULE Students --------------------------------
(***************************************************************************)
(* Students as the office edits them (src/app/services/student.py): where  *)
(* they are placed, the sections of a class, and the older promotion,      *)
(* which moves a student to the next class of the same year.  One year.    *)
(*                                                                         *)
(* Every handler registers the section it leaves a student in, in the same *)
(* JSON value of the settings that module Teaching is about, which is read *)
(* and written back whole.  Nothing makes the history row of a student and *)
(* year the only one; of several the latest is taken, here any.            *)
(***************************************************************************)
EXTENDS UnitOfWork

CONSTANTS Forms,         \* classes, by level
          HistoryIds

Pupil == [form : Forms, section : Sections, promoted : BOOLEAN]
HistoryRow == [student : Pupils, form : Forms, status : {"promoted", "held_back"}]

StudentsTypeOK ==
    area = "students" => /\ Table("pupil", Pupils, Pupil)
                         /\ Table("history", HistoryIds, HistoryRow)
                         /\ Table("room", Forms \X Sections, {Present})
                         /\ Table("registry", {"sections"}, [value : SUBSET (Forms \X Sections)])

StudentsInit == Starts("students", [pupil |-> None, history |-> None, room |-> None, registry |-> None])

(* _load_sections_registry and _register_section_for_school                *)
Known == IF "sections" \in Keys("registry") THEN db.registry["sections"].value ELSE {}
Remembered(places) ==
    IF places = {} THEN None
    ELSE [registry |-> "sections" :> [new |-> [value |-> Known \cup places],
                                      set |-> [value |-> Known \cup places]]]
-----------------------------------------------------------------------------
(* create_student: an admission number stands for a student.               *)
CreateStudent(s, p, form, section) ==
    /\ p \notin Keys("pupil")
    /\ Begin(s, [Work EXCEPT
           !.insert = [pupil |-> p :> [form |-> form, section |-> section, promoted |-> FALSE]],
           !.put = Remembered({<<form, section>>})])

(* update_student: to another class, another section or both.              *)
UpdateStudent(s, p, columns) ==
    /\ p \in Keys("pupil")
    /\ LET row == Over(db.pupil[p], columns) IN
       Begin(s, [Work EXCEPT !.update = [pupil |-> Sets("pupil", p, columns)],
                             !.put = Remembered({<<row.form, row.section>>})])

(* create_section: registered anew also when the row is there.             *)
OpenRoom(s, form, section) ==
    Begin(s, [Work EXCEPT
        !.insert = IF <<form, section>> \in Keys("room") THEN None
                   ELSE [room |-> <<form, section>> :> Present],
        !.put = Remembered({<<form, section>>})])

(* get_latest_history                                                      *)
HistoryOf(p) == {h \in Keys("history") : db.history[h].student = p}

Latest(p, h) == IF HistoryOf(p) = {} THEN Unused("history", h) ELSE h \in HistoryOf(p)

(* update_promotion_status of some students, whose history rows are at:    *)
(* whoever reads as promoted is left as is, the others need a next class.  *)
UpdatePromotion(s, at, status) ==
    LET up == status = "promoted"
        P == {p \in DOMAIN at : ~(up /\ at[p] \in Keys("history")
                                     /\ db.history[at[p]].status = "promoted")}
        form(p) == IF up THEN db.pupil[p].form + 1 ELSE db.pupil[p].form
        row(p) == [student |-> p, form |-> form(p), status |-> status]
        known == {p \in P : at[p] \in Keys("history")}
        of(h) == CHOOSE p \in P : at[p] = h
    IN  /\ \A p \in DOMAIN at : p \in Keys("pupil") /\ Latest(p, at[p])
        /\ \A p \in P : form(p) \in Forms
        /\ Begin(s, [Work EXCEPT
               !.update = [pupil |-> [p \in P |-> Changed(db.pupil[p], [form |-> form(p), promoted |-> up])],
                           history |-> [h \in {at[p] : p \in known} |->
                                           Changed(db.history[h], row(of(h)))]],
               !.insert = [history |-> [h \in {at[p] : p \in P \ known} |-> row(of(h))]],
               !.put = Remembered({<<form(p), db.pupil[p].section>> : p \in P})])

(* bulk_update_promotion_status_by_section: those of a class and section.  *)
RollOf(form, section) == {p \in Keys("pupil") : /\ db.pupil[p].form = form
                                                /\ db.pupil[p].section = section}

StudentsStep(s) ==
    /\ area = "students"
    /\ \/ \E p \in Pupils, form \in Forms, section \in Sections :
             \/ CreateStudent(s, p, form, section)
             \/ UpdateStudent(s, p, [form |-> form]) \/ UpdateStudent(s, p, [section |-> section])
       \/ \E form \in Forms, section \in Sections : OpenRoom(s, form, section)

PromotionStep(s) ==
    /\ area = "students"
    /\ \E status \in {"promoted", "held_back"} :
          \/ \E P \in SUBSET Keys("pupil") \ {{}} :
                \E at \in Injection(P, HistoryIds) : UpdatePromotion(s, at, status)
          \/ \E form \in Forms, section \in Sections :
                /\ RollOf(form, section) # {}
                /\ \E at \in Injection(RollOf(form, section), HistoryIds) :
                      UpdatePromotion(s, at, status)
-----------------------------------------------------------------------------
(* While handlers do not overlap, a student has one history row, which     *)
(* says what the student's own row says, and the section of every student  *)
(* and of every row made by create_section is registered for its class.    *)
StudentsAgree ==
    area = "students" /\ serial =>
        /\ \A p \in Keys("pupil") :
              /\ Cardinality(HistoryOf(p)) <= 1
              /\ <<db.pupil[p].form, db.pupil[p].section>> \in Known
              /\ db.pupil[p].promoted
                    = \E h \in HistoryOf(p) : db.history[h].status = "promoted"
        /\ Keys("room") \subseteq Known
=============================================================================
