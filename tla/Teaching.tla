-------------------------------- MODULE Teaching --------------------------------
(***************************************************************************)
(* Which teacher teaches what in which section                             *)
(* (src/app/services/teacher_class_subject.py), and the timetables of a    *)
(* class and its sections (timetable.py).  One class of one year.          *)
(*                                                                         *)
(* Both services register the sections they hear of in one JSON value of   *)
(* the school's settings, which they read, extend and write back whole.    *)
(***************************************************************************)
EXTENDS UnitOfWork

CONSTANTS Teachers,
          Postings,            \* ids of assignments of teachers
          Uploads              \* keys of uploaded timetables

(* The timetable of the class has no section.                              *)
ASSUME TeachingConstants == "class" \notin Sections

Posting == [teacher : Teachers, section : Sections, subject : Subjects]
Scopes == Sections \cup {"class"}              \* of one section, or of the class
Slots == Scopes \X {"daily", "exam"}

TeachingTypeOK ==
    area = "teaching" => /\ Table("posting", Postings, Posting)
                         /\ Table("timetable", Slots, [file : Uploads])
                         /\ Table("setting", {"sections"}, [value : SUBSET Sections])
                         /\ Table("section", Sections, [active : BOOLEAN])

TeachingInit ==
    \E open \in SUBSET Sections :
        Starts("teaching", [posting |-> None, timetable |-> None, setting |-> None,
                            section |-> [x \in Sections |-> [active |-> x \in open]]])

(* _load_sections_registry                                                 *)
Registry == IF "sections" \in Keys("setting") THEN db.setting["sections"].value ELSE {}

(* _register_section_for_school: the whole value is written back.          *)
Registered(section) == [setting |-> "sections" :>
    [new |-> [value |-> Registry \cup {section}], set |-> [value |-> Registry \cup {section}]]]
-----------------------------------------------------------------------------
PostingsOf(row) == {i \in Keys("posting") : db.posting[i] = row}

(* create_assignment: to an active section, not twice.                     *)
Assign(s, i, row) ==
    /\ db.section[row.section].active
    /\ PostingsOf(row) = {} /\ Unused("posting", i)
    /\ Begin(s, [Work EXCEPT !.insert = [posting |-> i :> row], !.put = Registered(row.section)])

(* update_assignment: to another section or subject.                       *)
Reassign(s, i, section, subject) ==
    /\ i \in Keys("posting") /\ db.section[section].active
    /\ LET columns == [section |-> section, subject |-> subject] IN
       /\ PostingsOf(Over(db.posting[i], columns)) \subseteq {i}
       /\ Begin(s, [Work EXCEPT !.update = [posting |-> Sets("posting", i, columns)],
                                !.put = Registered(section)])

Unassign(s, i) == /\ i \in Keys("posting")
                  /\ Begin(s, [Work EXCEPT !.drop = [posting |-> {i}]])

(* list_by_teacher, list_mine; list_by_class, list_by_standard             *)
ListByTeacher(t) == {i \in Keys("posting") : db.posting[i].teacher = t}
ListByClass(section) == {i \in Keys("posting") : db.posting[i].section = section}

(* assert_teacher_owns_class_subject                                       *)
Owns(t, section, subject) ==
    PostingsOf([teacher |-> t, section |-> section, subject |-> subject]) # {}
-----------------------------------------------------------------------------
(* upload_timetable: by staff, or by a teacher with exactly one assignment *)
(* to the section (or class): the query raises when it finds two.          *)
MayUpload(t, scope) ==
    Cardinality({i \in ListByTeacher(t) : scope \in {"class", db.posting[i].section}}) = 1

UploadTimetable(s, scope, kind, u) ==
    /\ <<"timetable", u>> \notin stored /\ \A slot \in Keys("timetable") : db.timetable[slot].file # u
    /\ BeginStoring(s, [Work EXCEPT
           !.insert = IF <<scope, kind>> \in Keys("timetable") THEN None
                      ELSE [timetable |-> <<scope, kind>> :> [file |-> u]],
           !.update = IF <<scope, kind>> \in Keys("timetable")
                      THEN [timetable |-> <<scope, kind>> :> [file |-> u]] ELSE None,
           !.put = IF scope = "class" THEN None ELSE Registered(scope)],
           {<<"timetable", u>>})

(* delete_timetable: the file goes at once, the row with the commit.       *)
DeleteTimetable(s, slot) ==
    /\ slot \in Keys("timetable")
    /\ BeginWith(s, [Work EXCEPT !.drop = [timetable |-> {slot}]],
                 stored \ {<<"timetable", db.timetable[slot].file>>})

(* get_by_standard_with_section_fallback: of the section, of the class,    *)
(* and then, for an exam, the daily ones.                                  *)
Fallback(scope, kind) == << <<scope, kind>>, <<"class", kind>>,
                            <<scope, "daily">>, <<"class", "daily">> >>
TimetablesSeen(scope, kind) == {i \in DOMAIN Fallback(scope, kind) :
                                   Fallback(scope, kind)[i] \in Keys("timetable")}

TeachingStep(s) ==
    /\ area = "teaching"
    /\ \/ \E i \in Postings, row \in Posting : Assign(s, i, row)
       \/ \E i \in Postings, section \in Sections, subject \in Subjects :
             Reassign(s, i, section, subject)
       \/ \E i \in Postings : Unassign(s, i)

TimetableStep(s) ==
    /\ area = "teaching"
    /\ \/ \E scope \in Scopes, kind \in {"daily", "exam"}, u \in Uploads :
             UploadTimetable(s, scope, kind, u)
       \/ \E t \in Teachers, scope \in Scopes, u \in Uploads :
             MayUpload(t, scope) /\ UploadTimetable(s, scope, "daily", u)
       \/ \E slot \in Slots : DeleteTimetable(s, slot)

(* list_sections: the sections of timetables and registered ones.          *)
ListSections == ({slot[1] : slot \in Keys("timetable")} \ {"class"}) \cup Registry

(* A timetable of the class is seen in every section, for exams as well,   *)
(* and lists by teacher and by section show the same assignments.          *)
TeachingViewsAgree ==
    area = "teaching" =>
        /\ \A slot \in Keys("timetable"), scope \in Sections :
              slot = <<"class", "daily">> \/ slot = <<scope, "daily">>
                  => TimetablesSeen(scope, "daily") # {} /\ TimetablesSeen(scope, "exam") # {}
        /\ UNION {ListByTeacher(t) : t \in Teachers} = UNION {ListByClass(x) : x \in Sections}
        /\ \A i, j \in Keys("posting") : db.posting[i] = db.posting[j] => i = j

(* While handlers do not overlap, every section that has a teacher or a    *)
(* timetable is registered, whichever service heard of it.                 *)
SectionsRegistered ==
    area = "teaching" /\ serial =>
        \A x \in Sections :
            ListByClass(x) # {} \/ (\E slot \in Keys("timetable") : slot[1] = x) => x \in Registry
=============================================================================
