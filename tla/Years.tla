--------------------------------- MODULE Years ---------------------------------
(***************************************************************************)
(* Academic years and their structure (src/app/services/academic_year.py   *)
(* and masters.py): classes of a year, their sections and subjects, the    *)
(* copy of a structure to another year, and the grade master.              *)
(*                                                                         *)
(* A class is one level of one year.  Subjects have a code that is unique  *)
(* in the school and may belong to no class; sections are of a class and a *)
(* year.                                                                   *)
(***************************************************************************)
EXTENDS UnitOfWork

CONSTANTS Years, Levels, ClassIds, Codes, Letters,
          Percents,                             \* bounds of a grade
          Copies                                \* what a copy is asked to copy

WholeSchool == <<"school", "all">>
OfClass == {"class"} \X ClassIds
SectionKey == ClassIds \X Years \X Sections
Class == [year : Years, level : Levels]
Band == [low : Percents, high : Percents]

YearsTypeOK ==
    /\ area = "years" => Table("year", Years, [active : BOOLEAN])
    /\ area = "structure" => /\ Table("class", ClassIds, Class)
                             /\ Table("section", SectionKey, [of : OfClass, active : BOOLEAN])
                             /\ Table("subject", Codes, [of : OfClass \cup {WholeSchool}])
    /\ area = "grades" => Table("grade", Letters, Band)

YearsInit == \/ Starts("years", [year |-> None])
             \/ Starts("structure", [class |-> None, section |-> None, subject |-> None,
                                     year |-> [y \in Years |-> [active |-> FALSE]]])
             \/ Starts("grades", [grade |-> None])
-----------------------------------------------------------------------------
CreateYear(s, y) ==
    /\ y \notin Keys("year")
    /\ Begin(s, [Work EXCEPT !.insert = [year |-> y :> [active |-> FALSE]]])

(* get_active_year                                                         *)
ActiveYears == {y \in Keys("year") : db.year[y].active}

(* activate_academic_year: every active year is deactivated by one UPDATE, *)
(* which is flushed, and this one is activated.                            *)
ActivateYear(s, y) ==
    /\ y \in Keys("year") /\ ~db.year[y].active
    /\ Begin(s, [Work EXCEPT !.update = [year |->
          [z \in ActiveYears |-> [active |-> FALSE]] @@ (y :> [active |-> TRUE])]])

YearsStep(s) ==
    /\ area = "years"
    /\ \E y \in Years : CreateYear(s, y) \/ ActivateYear(s, y)
-----------------------------------------------------------------------------
ClassAt(y, level) == {c \in Keys("class") : db.class[c] = [year |-> y, level |-> level]}
ClassesOf(y) == {c \in Keys("class") : db.class[c].year = y}

(* create_standard: in the year given, or the active one.                  *)
CreateStandard(s, c, y, level) ==
    /\ y \in Keys("year") /\ ClassAt(y, level) = {} /\ Unused("class", c)
    /\ Begin(s, [Work EXCEPT !.insert = [class |-> c :> [year |-> y, level |-> level]],
                             !.needs = {<<"year", y>>}])

(* update_standard: to another level or another year; its sections stay in *)
(* the year they were made for.                                            *)
UpdateStandard(s, c, y, level) ==
    /\ c \in Keys("class") /\ ClassAt(y, level) \subseteq {c}
    /\ Begin(s, [Work EXCEPT !.update = [class |-> Sets("class", c, [year |-> y, level |-> level])],
                             !.needs = {<<"year", y>>}])

SubjectsOf(c) == {k \in Keys("subject") : db.subject[k].of = <<"class", c>>}
SectionsOf(c, y) == {k \in Keys("section") : k[1] = c /\ k[2] = y}

(* delete_standard: the mapper detaches the subjects it finds, which become*)
(* subjects of the whole school; what it does not find goes with the class.*)
DeleteStandard(s, c) ==
    /\ c \in Keys("class")
    /\ Begin(s, [Work EXCEPT !.drop = [class |-> {c}],
                             !.update = [subject |-> SetsAll("subject", SubjectsOf(c),
                                                             [of |-> WholeSchool])]])

CreateSubject(s, k, of) ==
    /\ k \notin Keys("subject")
    /\ of # WholeSchool => of[2] \in Keys("class")
    /\ Begin(s, [Work EXCEPT !.insert = [subject |-> k :> [of |-> of]],
                             !.needs = {of} \ {WholeSchool}])

UpdateSubject(s, k, of) ==
    /\ k \in Keys("subject")
    /\ of # WholeSchool => of[2] \in Keys("class")
    /\ Begin(s, [Work EXCEPT !.update = [subject |-> Sets("subject", k, [of |-> of])],
                             !.needs = {of} \ {WholeSchool}])

(* create_section: of the class, in the year of the class.                 *)
CreateSection(s, c, y, name) ==
    /\ c \in ClassesOf(y) /\ <<c, y, name>> \notin Keys("section")
    /\ Begin(s, [Work EXCEPT
           !.insert = [section |-> <<c, y, name>> :> [of |-> <<"class", c>>, active |-> TRUE]],
           !.needs = {<<"class", c>>}])

UpdateSection(s, k, active) ==
    /\ k \in Keys("section")
    /\ Begin(s, [Work EXCEPT !.update = [section |-> Sets("section", k, [active |-> active])]])

(* delete_subject, delete_section                                          *)
DeleteRow(s, t, k) == /\ k \in Keys(t)
                      /\ Begin(s, [Work EXCEPT !.drop = (t :> {k})])

(* The class each class of a year is copied to: the one of the same level  *)
(* in the target year or, when classes are copied, a new one.              *)
CopyTargets(from, to, what, id) ==
    LET found(c) == ClassAt(to, db.class[c].level)
    IN  [c \in {c \in ClassesOf(from) : found(c) # {} \/ "standards" \in what} |->
            IF found(c) = {} THEN id[db.class[c].level] ELSE CHOOSE k \in found(c) : TRUE]

(* copy_structure.  The classes that are missing are made; then come the   *)
(* sections and the subjects the target class lacks.  A code is unique in  *)
(* the school, so that the subject of another class can never be copied:   *)
(* the database refuses it, and the whole copy with it.                    *)
CopyInto(s, from, to, what, id, target) ==
    LET made == {c \in DOMAIN target : ClassAt(to, db.class[c].level) = {}}
        sections == IF "sections" \notin what THEN {}
                    ELSE UNION {{<<target[c], to, k[3]>> : k \in SectionsOf(c, from)} : c \in DOMAIN target}
        subjects == IF "subjects" \notin what THEN {}
                    ELSE UNION {SubjectsOf(c) \ SubjectsOf(target[c]) : c \in DOMAIN target}
    IN  /\ \A c \in made : Unused("class", target[c]) /\ \A d \in made \ {c} : target[d] # target[c]
        /\ Begin(s, [Work EXCEPT
               !.insert = [class |-> [k \in {target[c] : c \in made} |->
                                         [year |-> to, level |-> CHOOSE level \in Levels : id[level] = k]],
                           section |-> [k \in sections \ Keys("section") |->
                                           [of |-> <<"class", k[1]>>, active |-> TRUE]],
                           subject |-> [k \in subjects |->
                                           [of |-> <<"class", target[db.subject[k].of[2]]>>]]],
               !.needs = {<<"year", to>>} \cup {<<"class", target[c]>> : c \in DOMAIN target \ made}])
CopyStructure(s, from, to, what, id) ==
    CopyInto(s, from, to, what, id, CopyTargets(from, to, what, id))

StructureStep(s) ==
    /\ area = "structure"
    /\ \/ \E c \in ClassIds, y \in Years, level \in Levels :
             CreateStandard(s, c, y, level) \/ UpdateStandard(s, c, y, level)
       \/ \E c \in ClassIds : DeleteStandard(s, c)
       \/ \E k \in Codes, of \in OfClass \cup {WholeSchool} :
             CreateSubject(s, k, of) \/ UpdateSubject(s, k, of)
       \/ \E c \in ClassIds, y \in Years, name \in Sections : CreateSection(s, c, y, name)
       \/ \E k \in SectionKey, active \in BOOLEAN : UpdateSection(s, k, active)
       \/ \E k \in Codes : DeleteRow(s, "subject", k)
       \/ \E k \in SectionKey : DeleteRow(s, "section", k)
       \/ \E from, to \in Years, id \in [Levels -> ClassIds],
             what \in Copies :
             CopyStructure(s, from, to, what, id)
-----------------------------------------------------------------------------
(* get_structure_tree, validate_structure                                  *)
StructureTree(y) == [c \in ClassesOf(y) |-> [subjects |-> SubjectsOf(c), sections |-> SectionsOf(c, y)]]

Validation(y) ==
    [valid |-> ClassesOf(y) # {} /\ \A c \in ClassesOf(y) : SubjectsOf(c) # {},
     bare |-> {c \in ClassesOf(y) : \A k \in SectionsOf(c, y) : ~db.section[k].active}]

(* A year that validates is shown with subjects in every class, a class    *)
(* warned of has no section or only closed ones, and no section or subject *)
(* outlives its class.                                                     *)
StructureViewsAgree ==
    area = "structure" =>
        /\ \A y \in Keys("year") :
              /\ Validation(y).valid <=> /\ DOMAIN StructureTree(y) # {}
                                         /\ \A c \in ClassesOf(y) : StructureTree(y)[c].subjects # {}
              /\ \A c \in ClassesOf(y) : StructureTree(y)[c].sections = {} => c \in Validation(y).bare
        /\ \A k \in Keys("section") : k[1] \in Keys("class")
        /\ \A k \in Keys("subject") : db.subject[k].of = WholeSchool \/ db.subject[k].of[2] \in Keys("class")
-----------------------------------------------------------------------------
(* The grade master: a letter once, from a lower to a higher percentage.   *)
CreateGrade(s, l, low, high) ==
    /\ low < high /\ l \notin Keys("grade")
    /\ Begin(s, [Work EXCEPT !.insert = [grade |-> l :> [low |-> low, high |-> high]]])

(* update_grade: either bound, checked against the other as it was read.   *)
UpdateGrade(s, l, columns) ==
    /\ l \in Keys("grade")
    /\ Over(db.grade[l], columns).low < Over(db.grade[l], columns).high
    /\ Begin(s, [Work EXCEPT !.update = [grade |-> Sets("grade", l, columns)]])

GradesStep(s) ==
    /\ area = "grades"
    /\ \/ \E l \in Letters, low, high \in Percents : CreateGrade(s, l, low, high)
       \/ \E l \in Letters, bound \in {"low", "high"}, percent \in Percents :
             UpdateGrade(s, l, bound :> percent)
       \/ \E l \in Letters : DeleteRow(s, "grade", l)
=============================================================================
