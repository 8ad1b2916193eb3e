----------------------------- MODULE Enrollment -----------------------------
(***************************************************************************)
(* Where a student sits in each academic year: the student_year_mappings   *)
(* rows of src/app/services/enrollment.py, their promotion into the next   *)
(* year by execute_promotion of src/app/services/promotion_workflow.py,    *)
(* and the flat columns of the students row that cache the placement.      *)
(*                                                                         *)
(* As in FeeLedger, a handler reads and computes (one step) and its        *)
(* session commits later, or rolls back, with other requests in between.   *)
(***************************************************************************)
EXTENDS Integers, FiniteSets, Functions

CONSTANTS Students, Years,
          Standards, YearOf,       \* classes, [Standards -> Years]
          Sections, ClassOf,       \* sections, [Sections -> Standards]
          NameOf,                  \* [Sections -> a name], unique in a class
          Rolls,                   \* roll numbers
          Decisions,               \* promotion decisions the admin may send
          Requests,                \* the HTTP requests served, each once
          None                     \* the NULL of a column

ASSUME EnrollmentConstants ==
    /\ YearOf \in [Standards -> Years]
    /\ ClassOf \in [Sections -> Standards]
    /\ \A p, q \in Sections : ClassOf[p] = ClassOf[q] /\ NameOf[p] = NameOf[q] => p = q
    /\ IsFiniteSet(Students) /\ 1..Cardinality(Students) \subseteq Rolls
    /\ Decisions \subseteq {"PROMOTE", "REPEAT", "GRADUATE", "SKIP"}
    /\ None \notin Sections \cup Rolls \cup Years \cup Standards \cup (Students \X Years)

Ids == Students \X Years          \* one mapping per student and year
EnrollmentStatus == {"ACTIVE", "HOLD", "COMPLETED", "LEFT", "TRANSFERRED",
                     "PROMOTED", "REPEATED", "GRADUATED"}
Terminal == {"LEFT", "TRANSFERRED", "PROMOTED", "REPEATED", "GRADUATED"}
Row == [std : Standards, section : Sections \cup {None}, roll : Rolls \cup {None},
        status : EnrollmentStatus, next : Ids \cup {None}]
Place == [year : Years \cup {None}, std : Standards \cup {None},
          section : Sections \cup {None}, roll : Rolls \cup {None}]
Nowhere == [year |-> None, std |-> None, section |-> None, roll |-> None]

VARIABLES mapping,   \* committed student_year_mappings rows, by student and year
          place,     \* the flat columns of each students row
          tx,        \* what each request has read and is about to write
          alone      \* history: no two handlers have been open at once so far

vars == <<mapping, place, tx, alone>>

Partial(f, S, T) == DOMAIN f \subseteq S /\ f \in [DOMAIN f -> T]

(* The rows a request writes and the flat columns it sets, with both as it *)
(* loaded them; a mapping in put that was not seen is an INSERT.           *)
IsTx(t) == /\ t = [state |-> t.state, seen |-> t.seen, put |-> t.put,
                   was |-> t.was, at |-> t.at]
           /\ t.state \in {"new", "open", "done"}
           /\ Partial(t.put, Ids, Row) /\ Partial(t.seen, DOMAIN t.put, Row)
           /\ Partial(t.at, Students, Place) /\ t.was \in [DOMAIN t.at -> Place]

Nothing == [k \in {} |-> None]
Fresh == [state |-> "new", seen |-> Nothing, put |-> Nothing, was |-> Nothing, at |-> Nothing]
Closed == [Fresh EXCEPT !.state = "done"]

TypeOK == /\ Partial(mapping, Ids, Row)
          /\ place \in [Students -> Place]
          /\ DOMAIN tx = Requests
          /\ \A r \in Requests : IsTx(tx[r])
          /\ alone \in BOOLEAN
-----------------------------------------------------------------------------
PlaceOf(id, row) == [year |-> id[2], std |-> row.std, section |-> row.section,
                     roll |-> row.roll]
ActiveOf(s) == {id \in DOMAIN mapping : id[1] = s /\ mapping[id].status = "ACTIVE"}

(* _sync_student_flat_fields after row was written for id: the row itself  *)
(* when it is ACTIVE, else another ACTIVE mapping of the student (the one  *)
(* joined last; the model leaves the choice open), else nothing.           *)
Synced(id, row) ==
    LET others == ActiveOf(id[1]) \ {id}
    IN  IF row.status = "ACTIVE" THEN {PlaceOf(id, row)}
        ELSE IF others # {} THEN {PlaceOf(o, mapping[o]) : o \in others}
        ELSE {Nowhere}

Open(r, put, at) ==
    /\ tx[r].state = "new"
    /\ tx' = [tx EXCEPT ![r] = [state |-> "open", put |-> put, at |-> at,
                seen |-> Restrict(mapping, DOMAIN put \cap DOMAIN mapping),
                was |-> Restrict(place, DOMAIN at)]]
    /\ UNCHANGED <<mapping, place>>

(* One row written, then the flat columns synchronised with it.            *)
Save(r, id, row) ==
    \E p \in Synced(id, row) : Open(r, [k \in {id} |-> row], [s \in {id[1]} |-> p])

Fits(std, section) == section = None \/ (section \in Sections /\ ClassOf[section] = std)

(* Mutant of Updatable: the status is not looked at.                       *)
UpdatableAny == EnrollmentStatus

Updatable == {"ACTIVE", "HOLD"}
-----------------------------------------------------------------------------
Init == /\ mapping = Nothing
        /\ place = [s \in Students |-> Nowhere]
        /\ tx = [r \in Requests |-> Fresh]
        /\ alone = TRUE

(* Without a section the mapping waits on HOLD.  reenroll_student of the   *)
(* promotion workflow ends in this handler too.                            *)
CreateMapping(r, id, std, section, roll) ==
    /\ id \notin DOMAIN mapping
    /\ YearOf[std] = id[2]
    /\ Fits(std, section)
    /\ Save(r, id, [std |-> std, section |-> section, roll |-> roll, next |-> None,
                    status |-> IF section = None THEN "HOLD" ELSE "ACTIVE"])

(* std, section and roll are None when the request leaves them out; a      *)
(* section is checked against the new class, a kept one is not.            *)
UpdateMapping(r, id, std, section, roll) ==
    /\ id \in DOMAIN mapping /\ mapping[id].status \in Updatable
    /\ std # None => YearOf[std] = id[2]
    /\ LET to == IF std = None THEN mapping[id].std ELSE std
       IN  /\ Fits(to, section)
           /\ Save(r, id, [mapping[id] EXCEPT
                             !.std = to,
                             !.section = IF section = None THEN @ ELSE section,
                             !.roll = IF roll = None THEN @ ELSE roll])

TransferStudent(r, id, std, section, roll) ==
    /\ id \in DOMAIN mapping /\ mapping[id].status \in Updatable
    /\ YearOf[std] = id[2]
    /\ Fits(std, section)
    /\ Save(r, id, [mapping[id] EXCEPT !.std = std, !.section = section,
                                       !.roll = IF roll = None THEN @ ELSE roll])

(* Mutant of ExitStudent: the flat columns are left as they were.          *)
ExitUnsynced(r, id, status) ==
    /\ id \in DOMAIN mapping /\ mapping[id].status \in Updatable
    /\ Open(r, [k \in {id} |-> [mapping[id] EXCEPT !.status = status]], Nothing)

ExitStudent(r, id, status) ==
    /\ id \in DOMAIN mapping /\ mapping[id].status \in Updatable
    /\ Save(r, id, [mapping[id] EXCEPT !.status = status])

CompleteMapping(r, id) ==
    /\ id \in DOMAIN mapping /\ mapping[id].status = "ACTIVE"
    /\ Save(r, id, [mapping[id] EXCEPT !.status = "COMPLETED"])

(* The numbers of one section: 1, 2, .. in some order (AUTO_ALPHA and      *)
(* AUTO_SEQ), or what the request lists (MANUAL).  Nothing is synchronised. *)
Numberings(ids) == Bijection(ids, 1..Cardinality(ids))
                   \cup UNION {[D -> Rolls] : D \in SUBSET ids}
AssignRollNumbers(r, section) ==
    LET ids == {id \in DOMAIN mapping : /\ mapping[id].section = section
                                        /\ mapping[id].std = ClassOf[section]
                                        /\ mapping[id].status = "ACTIVE"}
    IN  \E number \in Numberings(ids) :
           Open(r, [id \in DOMAIN number |-> [mapping[id] EXCEPT !.roll = number[id]]], Nothing)
-----------------------------------------------------------------------------
(* execute_promotion: a decision, a class, a section and a roll number for *)
(* each student of the request.                                            *)
Item == [decision : Decisions, std : Standards, section : Sections \cup {None},
         roll : Rolls \cup {None}]

Promotable(id) == id \in DOMAIN mapping /\ mapping[id].status \in {"ACTIVE", "COMPLETED"}

(* An item that fails a check is reported as an error and changes nothing. *)
Moves(s, tgt, item) ==
    /\ item.decision \in {"PROMOTE", "REPEAT"}
    /\ YearOf[item.std] = tgt
    /\ Fits(item.std, item.section)
    /\ <<s, tgt>> \notin DOMAIN mapping

(* Mutant of TargetSection: the name is stored in the place of the id.     *)
TargetSectionName(old, item) ==
    IF item.section # None THEN item.section
    ELSE IF old # None THEN NameOf[old] ELSE None

(* _resolve_target_section: the section asked for, else the one that bears *)
(* the name of the old section, else none.                                 *)
TargetSection(old, item) ==
    LET namesakes == {p \in Sections : /\ ClassOf[p] = item.std
                                       /\ old # None
                                       /\ NameOf[p] = NameOf[old]}
    IN  IF item.section # None THEN item.section
        ELSE IF namesakes # {} THEN CHOOSE p \in namesakes : TRUE
        ELSE None

NewYearRow(old, item) ==
    [std |-> item.std, section |-> TargetSection(old.section, item), roll |-> item.roll,
     status |-> "ACTIVE", next |-> None]

(* Mutant of PromotedRow: the link to the new mapping is forgotten.        *)
PromotedUnlinked(old, decision, to) ==
    [old EXCEPT !.status = IF decision = "PROMOTE" THEN "PROMOTED" ELSE "REPEATED"]

PromotedRow(old, decision, to) ==
    [old EXCEPT !.status = IF decision = "PROMOTE" THEN "PROMOTED" ELSE "REPEATED",
                !.next = to]

(* Graduation closes the mapping and leaves the flat columns alone.        *)
ExecutePromotion(r, src, tgt, items) ==
    LET who == DOMAIN items
        moved == {s \in who : Moves(s, tgt, items[s])}
        graduated == {s \in who : items[s].decision = "GRADUATE"}
        old(s) == mapping[<<s, src>>]
        new(s) == NewYearRow(old(s), items[s])
    IN  /\ src # tgt
        /\ \A s \in who : Promotable(<<s, src>>)
        /\ Open(r, [id \in (moved \X {src, tgt}) \cup (graduated \X {src}) |->
                      IF id[2] = tgt THEN new(id[1])
                      ELSE IF id[1] \in moved
                           THEN PromotedRow(old(id[1]), items[id[1]].decision, <<id[1], tgt>>)
                           ELSE [old(id[1]) EXCEPT !.status = "GRADUATED"]],
                   [s \in moved |-> PlaceOf(<<s, tgt>>, new(s))])
-----------------------------------------------------------------------------
(* Only the columns that a request changed are written, as literals.       *)
Column(now, seen, new) == IF new = seen THEN now ELSE new
FlushedRow(now, seen, new) ==
    [std |-> Column(now.std, seen.std, new.std),
     section |-> Column(now.section, seen.section, new.section),
     roll |-> Column(now.roll, seen.roll, new.roll),
     status |-> Column(now.status, seen.status, new.status),
     next |-> Column(now.next, seen.next, new.next)]
FlushedPlace(now, seen, new) ==
    [year |-> Column(now.year, seen.year, new.year),
     std |-> Column(now.std, seen.std, new.std),
     section |-> Column(now.section, seen.section, new.section),
     roll |-> Column(now.roll, seen.roll, new.roll)]

(* An INSERT fails on a mapping that someone else committed first          *)
(* (uq_student_year_mapping_student_year); only Abort is left then.        *)
Commit(r) ==
    LET t == tx[r] IN
    /\ t.state = "open"
    /\ (DOMAIN t.put \ DOMAIN t.seen) \cap DOMAIN mapping = {}
    /\ mapping' = [id \in DOMAIN mapping \cup DOMAIN t.put |->
                     IF id \notin DOMAIN t.put THEN mapping[id]
                     ELSE IF id \in DOMAIN t.seen
                          THEN FlushedRow(mapping[id], t.seen[id], t.put[id])
                          ELSE t.put[id]]
    /\ place' = [s \in Students |->
                   IF s \in DOMAIN t.at THEN FlushedPlace(place[s], t.was[s], t.at[s])
                   ELSE place[s]]
    /\ tx' = [tx EXCEPT ![r] = Closed]

Abort(r) ==
    /\ tx[r].state = "open"
    /\ tx' = [tx EXCEPT ![r] = Closed]
    /\ UNCHANGED <<mapping, place>>

Items == UNION {[who -> Item] : who \in (SUBSET Students) \ {{}}}
Optional(S) == S \cup {None}

Handle(r) ==
    \/ \E id \in Ids, std \in Standards, section \in Optional(Sections), roll \in Optional(Rolls) :
          \/ CreateMapping(r, id, std, section, roll)
          \/ TransferStudent(r, id, std, section, roll)
    \/ \E id \in Ids, std \in Optional(Standards), section \in Optional(Sections),
          roll \in Optional(Rolls) : UpdateMapping(r, id, std, section, roll)
    \/ \E id \in Ids, status \in {"LEFT", "TRANSFERRED"} : ExitStudent(r, id, status)
    \/ \E id \in Ids : CompleteMapping(r, id)
    \/ \E section \in Sections : AssignRollNumbers(r, section)
    \/ \E src, tgt \in Years, items \in Items : ExecutePromotion(r, src, tgt, items)

AtMostOneOpen == \A q, r \in Requests :
                    tx[q].state = "open" /\ tx[r].state = "open" => q = r

Next == /\ \E r \in Requests : Handle(r) \/ Commit(r) \/ Abort(r)
        /\ alone' = (alone /\ AtMostOneOpen')

Spec == Init /\ [][Next]_vars
-----------------------------------------------------------------------------
(* What holds of every interleaving.                                       *)

(* A mapping that reads PROMOTED or REPEATED names the mapping of another  *)
(* year that the same promotion created for the same student, and no two   *)
(* mappings name the same one.                                             *)
PromotionLinks ==
    /\ \A id \in DOMAIN mapping :
          LET to == mapping[id].next IN
          /\ mapping[id].status \in {"PROMOTED", "REPEATED"} => to # None
          /\ to # None => to \in DOMAIN mapping /\ to[1] = id[1] /\ to # id
    /\ \A a, b \in DOMAIN mapping :
          mapping[a].next = mapping[b].next /\ mapping[a].next # None => a = b

(* What holds while no two handlers have overlapped.                       *)

(* The "terminal states" of StudentYearMapping are terminal: whoever left, *)
(* was promoted, repeated or graduated in a year never gets another status *)
(* for that year.  Overlapping handlers break it.                          *)
TerminalStates ==
    [][alone' => \A id \in DOMAIN mapping :
          mapping[id].status \in Terminal => mapping'[id].status = mapping[id].status]_vars

Shows(p, id) == /\ p.year = id[2] /\ p.std = mapping[id].std
                /\ p.section = mapping[id].section
Holding(s, statuses) == {id \in DOMAIN mapping : id[1] = s /\ mapping[id].status \in statuses}

(* The class and section on a students row are those of an ACTIVE mapping  *)
(* of the student or, since graduation does not clear them, of a GRADUATED *)
(* one; they are empty only when there is no ACTIVE mapping.               *)
PlaceOfMapping ==
    alone => \A s \in Students :
                \/ \E id \in Holding(s, {"ACTIVE", "GRADUATED"}) : Shows(place[s], id)
                \/ ActiveOf(s) = {} /\ place[s] = Nowhere

(* "Flat fields as a cache of the ACTIVE mapping only", as the model of    *)
(* student_year_mappings documents them.  Graduation breaks it.            *)
CacheOfActive ==
    alone => \A s \in Students :
                \/ \E id \in ActiveOf(s) : Shows(place[s], id)
                \/ ActiveOf(s) = {} /\ place[s] = Nowhere
=============================================================================
