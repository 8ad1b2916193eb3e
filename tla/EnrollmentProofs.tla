--------------------------- MODULE EnrollmentProofs ---------------------------
(***************************************************************************)
(* Theorems about Enrollment, for every set of students, years, classes,   *)
(* sections and requests: the links between promoted mappings, however     *)
(* handlers overlap, and the flat columns as long as none have.            *)
(***************************************************************************)
EXTENDS Enrollment, FiniteSetTheorems, TLAPS

InYear(rows) == \A id \in DOMAIN rows : YearOf[rows[id].std] = id[2]

(* Types, with what they rest on: a class belongs to the year of its       *)
(* mapping, and mappings are never deleted.                                *)
TypeInv == /\ TypeOK
           /\ InYear(mapping)
           /\ \A r \in Requests : /\ InYear(tx[r].put)
                                  /\ DOMAIN tx[r].seen \subseteq DOMAIN mapping

(* The rows and the flat columns a handler hands to Open: their types.     *)
Prepared(put, at) == /\ Partial(put, Ids, Row) /\ InYear(put)
                     /\ Partial(at, Students, Place)

(* The links of promotion, whatever overlaps.  A row that a request holds  *)
(* either keeps the link it read and is not promoted, or links to a row    *)
(* that the same request inserts; no two of its rows get the same link.    *)
Moved == {"PROMOTED", "REPEATED"}
LinkedRows(put, seen) ==
    /\ \A id \in DOMAIN put :
          \/ /\ put[id].status \notin Moved
             /\ put[id].next = IF id \in DOMAIN seen THEN seen[id].next ELSE None
          \/ /\ id \in DOMAIN seen /\ put[id].next # seen[id].next
             /\ put[id].next \in DOMAIN put \ DOMAIN seen
             /\ put[id].next[1] = id[1]
    /\ \A a, b \in DOMAIN seen :
          /\ put[a].next # seen[a].next /\ put[b].next # seen[b].next
          /\ put[a].next = put[b].next
          => a = b

LinkInv == PromotionLinks /\ \A r \in Requests : LinkedRows(tx[r].put, tx[r].seen)

(* While handlers have not overlapped, a request writes what it read last: *)
(* its commit makes the mappings Result and the flat columns Placed.       *)
Result(put) == [id \in DOMAIN mapping \cup DOMAIN put |->
                  IF id \in DOMAIN put THEN put[id] ELSE mapping[id]]
Placed(at) == [s \in Students |-> IF s \in DOMAIN at THEN at[s] ELSE place[s]]

Cached(rows, spots) ==
    \A s \in Students :
       \/ \E id \in DOMAIN rows : /\ id[1] = s /\ rows[id].status \in {"ACTIVE", "GRADUATED"}
                                  /\ spots[s].year = id[2] /\ spots[s].std = rows[id].std
                                  /\ spots[s].section = rows[id].section
       \/ /\ \A id \in DOMAIN rows : id[1] = s => rows[id].status # "ACTIVE"
          /\ spots[s] = Nowhere

(* Nothing was committed since t read.                                     *)
Current(t) == /\ DOMAIN t.seen = DOMAIN t.put \cap DOMAIN mapping
              /\ \A id \in DOMAIN t.seen : t.seen[id] = mapping[id]
              /\ \A s \in DOMAIN t.at : t.was[s] = place[s]
NotTerminal(put) == \A id \in DOMAIN put \cap DOMAIN mapping : mapping[id].status \notin Terminal
KeepsCache(put, at) == Cached(mapping, place) => Cached(Result(put), Placed(at))

SerialInv ==
    alone => /\ AtMostOneOpen
             /\ Cached(mapping, place)
             /\ \A r \in Requests : tx[r].state = "open" =>
                   /\ Current(tx[r]) /\ NotTerminal(tx[r].put)
                   /\ KeepsCache(tx[r].put, tx[r].at)

Inv == TypeInv /\ LinkInv /\ SerialInv

(* All that a handler owes to Open.                                        *)
Loaded(put) == Restrict(mapping, DOMAIN put \cap DOMAIN mapping)
Sound(put, at) == /\ Prepared(put, at) /\ LinkedRows(put, Loaded(put))
                  /\ NotTerminal(put) /\ KeepsCache(put, at)

AloneStep == alone' = (alone /\ AtMostOneOpen')
-----------------------------------------------------------------------------
LEMMA RowOf ==
    ASSUME TypeInv, NEW id \in DOMAIN mapping
    PROVE  /\ id \in Ids /\ mapping[id] \in Row /\ YearOf[mapping[id].std] = id[2]
           /\ mapping[id].std \in Standards
BY DEF TypeInv, TypeOK, Partial, InYear, Row

(* One row, and the place that Synced finds for it.                        *)
LEMMA RowPrepared ==
    ASSUME TypeInv, NEW id \in Ids, NEW row \in Row, YearOf[row.std] = id[2],
           NEW p \in Synced(id, row)
    PROVE  Prepared([k \in {id} |-> row], [s \in {id[1]} |-> p])
<1>1. \A x \in Ids, y \in Row : PlaceOf(x, y) \in Place
  BY DEF PlaceOf, Place, Ids, Row
<1>2. \A x \in DOMAIN mapping : x \in Ids /\ mapping[x] \in Row
  BY DEF TypeInv, TypeOK, Partial
<1>3. Nowhere \in Place
  BY DEF Nowhere, Place
<1>4. p \in Place
  BY <1>1, <1>2, <1>3 DEF Synced, ActiveOf
<1>5. id[1] \in Students
  BY DEF Ids
<1> QED
  BY <1>4, <1>5 DEF Prepared, Partial, InYear

(* A handler that opens a unit of work keeps the types.                    *)
LEMMA OpenTyped ==
    ASSUME TypeInv, NEW r \in Requests, NEW put, NEW at, Prepared(put, at),
           Open(r, put, at), alone' \in BOOLEAN
    PROVE  TypeInv'
<1> DEFINE seen == Restrict(mapping, DOMAIN put \cap DOMAIN mapping)
           was == Restrict(place, DOMAIN at)
           new == [state |-> "open", put |-> put, at |-> at, seen |-> seen, was |-> was]
<1>1. mapping' = mapping /\ place' = place /\ tx' = [tx EXCEPT ![r] = new]
  BY DEF Open
<1>2. Partial(seen, DOMAIN put, Row) /\ DOMAIN seen \subseteq DOMAIN mapping
  BY DEF TypeInv, TypeOK, Partial, Restrict
<1>3. was \in [DOMAIN at -> Place]
  BY DEF TypeInv, TypeOK, Partial, Restrict, Prepared
<1>4. IsTx(new)
  BY <1>2, <1>3 DEF IsTx, Prepared
<1>5. DOMAIN tx' = Requests /\ \A q \in Requests : tx'[q] = IF q = r THEN new ELSE tx[q]
  BY <1>1 DEF TypeInv, TypeOK
<1>6. TypeOK'
  BY <1>1, <1>4, <1>5 DEF TypeInv, TypeOK
<1>7. \A q \in Requests : InYear(tx'[q].put) /\ DOMAIN tx'[q].seen \subseteq DOMAIN mapping
  BY <1>2, <1>5 DEF TypeInv, Prepared
<1> QED
  BY <1>1, <1>6, <1>7 DEF TypeInv, InYear

LEMMA OpenKeeps ==
    ASSUME Inv, NEW r \in Requests, NEW put, NEW at, Sound(put, at), Open(r, put, at), AloneStep
    PROVE  LinkInv' /\ SerialInv'
<1> PICK new : new = [state |-> "open", put |-> put, at |-> at, seen |-> Loaded(put),
                      was |-> Restrict(place, DOMAIN at)]
  OBVIOUS
<1>1. mapping' = mapping /\ place' = place /\ tx' = [tx EXCEPT ![r] = new]
  BY DEF Open, Loaded
<1>2. \A q \in Requests : tx'[q] = IF q = r THEN new ELSE tx[q]
  BY <1>1 DEF Inv, TypeInv, TypeOK
<1>3. new.state = "open" /\ new.put = put /\ new.at = at /\ new.seen = Loaded(put)
  OBVIOUS
<1>4. LinkInv'
  <2>1. \A q \in Requests : LinkedRows(tx'[q].put, tx'[q].seen)
    BY <1>2, <1>3 DEF Inv, LinkInv, Sound
  <2>2. PromotionLinks'
    BY <1>1 DEF Inv, LinkInv, PromotionLinks
  <2> QED
    BY <2>1, <2>2 DEF LinkInv, LinkedRows
<1>5. SerialInv'
  <2> SUFFICES ASSUME alone'
               PROVE  /\ AtMostOneOpen' /\ Cached(mapping, place)'
                      /\ \A q \in Requests : tx'[q].state = "open" =>
                           /\ Current(tx[q])' /\ NotTerminal(tx[q].put)'
                           /\ KeepsCache(tx[q].put, tx[q].at)'
    BY DEF SerialInv
  <2>1. alone /\ AtMostOneOpen'
    BY DEF AloneStep
  <2>2. Cached(mapping, place)'
    BY <2>1, <1>1 DEF Inv, SerialInv, Cached
  <2>3. \A q \in Requests : tx'[q].state = "open" => tx'[q] = new
    BY <2>1, <1>2, <1>3 DEF AtMostOneOpen
  <2>4. Current(new)
    BY DEF Current, Loaded, Restrict
  <2>5. NotTerminal(new.put) /\ KeepsCache(new.put, new.at)
    BY <1>3 DEF Sound
  <2>6. \A q \in Requests : tx'[q].state = "open" => Current(tx[q])' /\ NotTerminal(tx[q].put)'
    BY <1>1, <2>3, <2>4, <2>5 DEF Current, NotTerminal
  <2>7. ASSUME NEW q \in Requests, tx'[q].state = "open", Cached(mapping, place)'
        PROVE  Cached(Result(tx[q].put), Placed(tx[q].at))'
    <3>1. PICK rows, spots : rows = Result(new.put) /\ spots = Placed(new.at)
      OBVIOUS
    <3>2. Result(tx[q].put)' = rows /\ Placed(tx[q].at)' = spots
      BY <1>1, <2>3, <2>7, <3>1 DEF Result, Placed
    <3>3. Cached(rows, spots)
      BY <2>1, <2>5, <3>1 DEF KeepsCache, Inv, SerialInv
    <3> QED
      BY <3>2, <3>3 DEF Cached, Nowhere
  <2> QED
    BY <2>1, <2>2, <2>6, <2>7 DEF KeepsCache
<1> QED
  BY <1>4, <1>5

LEMMA AloneBoolean == AloneStep => alone' \in BOOLEAN
BY Zenon DEF AloneStep

LEMMA OpenInv ==
    ASSUME Inv, NEW r \in Requests, NEW put, NEW at, Sound(put, at), Open(r, put, at), AloneStep
    PROVE  Inv'
<1>1. TypeInv'
  BY OpenTyped, AloneBoolean DEF Inv, Sound
<1> QED
  BY <1>1, OpenKeeps DEF Inv

(* A row of one mapping that is not promoted, written with the place that  *)
(* goes with it.                                                           *)
LEMMA SaveKeeps ==
    ASSUME Inv, NEW r \in Requests, NEW id \in Ids, NEW row \in Row, YearOf[row.std] = id[2],
           row.status \notin Moved,
           row.next = IF id \in DOMAIN mapping THEN mapping[id].next ELSE None,
           id \in DOMAIN mapping => mapping[id].status \notin Terminal,
           Save(r, id, row), AloneStep
    PROVE  Inv'
<1>1. PICK p \in Synced(id, row) : Open(r, [k \in {id} |-> row], [s \in {id[1]} |-> p])
  BY DEF Save
<1> DEFINE put == [k \in {id} |-> row]
           at == [s \in {id[1]} |-> p]
<1>2. Prepared(put, at)
  BY RowPrepared DEF Inv
<1>3. LinkedRows(put, Loaded(put)) /\ NotTerminal(put)
  BY DEF LinkedRows, NotTerminal, Loaded, Restrict
<1>4. KeepsCache(put, at)
  <2> SUFFICES ASSUME Cached(mapping, place)
               PROVE  Cached(Result(put), Placed(at))
    BY DEF KeepsCache
  <2>1. PICK rows, spots : rows = Result(put) /\ spots = Placed(at)
    OBVIOUS
  <2>2. /\ DOMAIN rows = DOMAIN mapping \cup {id} /\ rows[id] = row
        /\ \A k \in DOMAIN mapping \ {id} : rows[k] = mapping[k]
        /\ \A s \in Students : spots[s] = IF s = id[1] THEN p ELSE place[s]
    BY <2>1 DEF Result, Placed
  <2>3. ASSUME NEW s \in Students
        PROVE  \/ \E k \in DOMAIN rows :
                     /\ k[1] = s /\ rows[k].status \in {"ACTIVE", "GRADUATED"}
                     /\ spots[s].year = k[2] /\ spots[s].std = rows[k].std
                     /\ spots[s].section = rows[k].section
               \/ /\ \A k \in DOMAIN rows : k[1] = s => rows[k].status # "ACTIVE"
                  /\ spots[s] = Nowhere
    <3>1. CASE s # id[1]
      BY <2>2, <3>1 DEF Cached
    <3>2. CASE s = id[1] /\ row.status = "ACTIVE"
      <4>1. spots[s] = PlaceOf(id, row)
        BY <2>2, <3>2 DEF Synced
      <4> QED
        BY <2>2, <3>2, <4>1 DEF PlaceOf
    <3>3. CASE s = id[1] /\ row.status # "ACTIVE" /\ ActiveOf(s) \ {id} # {}
      <4>1. PICK o \in ActiveOf(s) \ {id} : spots[s] = PlaceOf(o, mapping[o])
        BY <2>2, <3>3 DEF Synced
      <4> QED
        BY <2>2, <3>3, <4>1 DEF PlaceOf, ActiveOf
    <3>4. CASE s = id[1] /\ row.status # "ACTIVE" /\ ActiveOf(s) \ {id} = {}
      <4>1. spots[s] = Nowhere
        BY <2>2, <3>4 DEF Synced
      <4> QED
        BY <2>2, <3>4, <4>1 DEF ActiveOf
    <3> QED
      BY <3>1, <3>2, <3>3, <3>4
  <2> QED
    BY <2>1, <2>3 DEF Cached
<1>5. Open(r, put, at) /\ Sound(put, at)
  BY <1>1, <1>2, <1>3, <1>4 DEF Sound
<1> HIDE DEF put, at
<1> QED
  BY <1>5, OpenInv

-----------------------------------------------------------------------------
(* The handlers of one mapping.                                            *)
LEMMA CreateKeeps ==
    ASSUME Inv, EnrollmentConstants, NEW r \in Requests, NEW id \in Ids,
           NEW std \in Standards, NEW section \in Optional(Sections),
           NEW roll \in Optional(Rolls), CreateMapping(r, id, std, section, roll),
           AloneStep
    PROVE  Inv'
<1> DEFINE row == [std |-> std, section |-> section, roll |-> roll, next |-> None,
                   status |-> IF section = None THEN "HOLD" ELSE "ACTIVE"]
<1>1. row \in Row /\ row.std = std /\ row.status \notin Moved /\ row.next = None
  BY DEF Row, Optional, EnrollmentStatus, Moved
<1>2. YearOf[row.std] = id[2] /\ id \notin DOMAIN mapping /\ Save(r, id, row)
  BY <1>1 DEF CreateMapping
<1> HIDE DEF row
<1> QED
  BY <1>1, <1>2, SaveKeeps

LEMMA UpdateKeeps ==
    ASSUME Inv, NEW r \in Requests, NEW id \in Ids,
           NEW std \in Optional(Standards), NEW section \in Optional(Sections),
           NEW roll \in Optional(Rolls), UpdateMapping(r, id, std, section, roll),
           AloneStep
    PROVE  Inv'
<1> DEFINE to == IF std = None THEN mapping[id].std ELSE std
           row == [mapping[id] EXCEPT !.std = to,
                                      !.section = IF section = None THEN @ ELSE section,
                                      !.roll = IF roll = None THEN @ ELSE roll]
<1>1. /\ id \in DOMAIN mapping /\ Save(r, id, row) /\ (std # None => YearOf[std] = id[2])
      /\ mapping[id].status \in {"ACTIVE", "HOLD"}
  BY DEF UpdateMapping, Updatable
<1>2. mapping[id] \in Row /\ YearOf[mapping[id].std] = id[2] /\ mapping[id].std \in Standards
  BY <1>1, RowOf DEF Inv
<1>3. to \in Standards /\ YearOf[to] = id[2]
  BY <1>1, <1>2 DEF Optional
<1>4. /\ row \in Row /\ row.std = to /\ row.next = mapping[id].next
      /\ row.status = mapping[id].status
  BY <1>2, <1>3 DEF Row, Optional
<1> HIDE DEF row
<1> QED
  BY <1>1, <1>3, <1>4, SaveKeeps DEF Moved, Terminal

LEMMA TransferKeeps ==
    ASSUME Inv, NEW r \in Requests, NEW id \in Ids,
           NEW std \in Standards, NEW section \in Optional(Sections),
           NEW roll \in Optional(Rolls), TransferStudent(r, id, std, section, roll),
           AloneStep
    PROVE  Inv'
<1> DEFINE row == [mapping[id] EXCEPT !.std = std, !.section = section,
                                      !.roll = IF roll = None THEN @ ELSE roll]
<1>1. /\ id \in DOMAIN mapping /\ Save(r, id, row) /\ YearOf[std] = id[2]
      /\ mapping[id].status \in {"ACTIVE", "HOLD"}
  BY DEF TransferStudent, Updatable
<1>2. mapping[id] \in Row
  BY <1>1, RowOf DEF Inv
<1>3. /\ row \in Row /\ row.std = std /\ row.next = mapping[id].next
      /\ row.status = mapping[id].status
  BY <1>2 DEF Row, Optional
<1> HIDE DEF row
<1> QED
  BY <1>1, <1>3, SaveKeeps DEF Moved, Terminal

(* exit_student and complete_mapping change the status only.               *)
LEMMA StatusKeeps ==
    ASSUME Inv, NEW r \in Requests, NEW id \in DOMAIN mapping,
           mapping[id].status \notin Terminal, NEW status \in EnrollmentStatus \ Moved,
           Save(r, id, [mapping[id] EXCEPT !.status = status]), AloneStep
    PROVE  Inv'
<1> DEFINE row == [mapping[id] EXCEPT !.status = status]
<1>1. id \in Ids /\ mapping[id] \in Row /\ YearOf[mapping[id].std] = id[2]
  BY RowOf DEF Inv
<1>2. /\ row \in Row /\ row.std = mapping[id].std /\ row.next = mapping[id].next
      /\ row.status = status
  BY <1>1 DEF Row
<1>3. Save(r, id, row)
  OBVIOUS
<1> HIDE DEF row
<1> QED
  BY <1>1, <1>2, <1>3, SaveKeeps

(* The mappings of one section are of one year, so of different students:  *)
(* there are no more of them than students, and their numbers are Rolls.   *)
LEMMA RollsSuffice ==
    ASSUME TypeInv, EnrollmentConstants, NEW std \in Standards, NEW ids \in SUBSET DOMAIN mapping,
           \A id \in ids : mapping[id].std = std
    PROVE  1..Cardinality(ids) \subseteq Rolls
<1> DEFINE f == [id \in ids |-> id[1]]
<1>1. \A id \in ids : id \in Ids /\ id[2] = YearOf[std]
  BY RowOf
<1>2. f \in [ids -> Students] /\ \A a, b \in ids : f[a] = f[b] => a = b
  BY <1>1 DEF Ids
<1>3. f \in Injection(ids, Students)
  BY <1>2 DEF Injection, IsInjective
<1>4. IsFiniteSet(Students) /\ 1..Cardinality(Students) \subseteq Rolls
  BY DEF EnrollmentConstants
<1>5. IsFiniteSet(ids) /\ Cardinality(ids) <= Cardinality(Students)
  BY <1>3, <1>4, FS_Injection
<1>6. Cardinality(ids) \in Nat /\ Cardinality(Students) \in Nat
  BY <1>4, <1>5, FS_CardinalityType
<1> QED
  BY <1>4, <1>5, <1>6

LEMMA AssignKeeps ==
    ASSUME Inv, EnrollmentConstants, NEW r \in Requests, NEW section \in Sections,
           AssignRollNumbers(r, section), AloneStep
    PROVE  Inv'
<1> DEFINE ids == {id \in DOMAIN mapping : /\ mapping[id].section = section
                                           /\ mapping[id].std = ClassOf[section]
                                           /\ mapping[id].status = "ACTIVE"}
           line(number, id) == [mapping[id] EXCEPT !.roll = number[id]]
           put(number) == [id \in DOMAIN number |-> line(number, id)]
<1>1. PICK number \in Numberings(ids) : Open(r, put(number), Nothing)
  BY DEF AssignRollNumbers
<1>2. ClassOf[section] \in Standards
  BY DEF EnrollmentConstants
<1>3. /\ ids \subseteq DOMAIN mapping
      /\ \A id \in ids : mapping[id].std = ClassOf[section] /\ mapping[id].status = "ACTIVE"
  OBVIOUS
<1> HIDE DEF ids
<1>4. 1..Cardinality(ids) \subseteq Rolls
  BY <1>2, <1>3, RollsSuffice DEF Inv
<1>5. DOMAIN number \subseteq ids /\ number \in [DOMAIN number -> Rolls]
  BY <1>4 DEF Numberings, Bijection, Injection
<1>6. \A id \in DOMAIN number : /\ id \in Ids /\ mapping[id] \in Row
                                /\ YearOf[mapping[id].std] = id[2]
  BY <1>3, <1>5, RowOf DEF Inv
<1>7. \A row \in Row, n \in Rolls : /\ [row EXCEPT !.roll = n] \in Row
                                    /\ [row EXCEPT !.roll = n].std = row.std
                                    /\ [row EXCEPT !.roll = n].section = row.section
                                    /\ [row EXCEPT !.roll = n].status = row.status
                                    /\ [row EXCEPT !.roll = n].next = row.next
  BY DEF Row
<1>8. \A id \in DOMAIN number : /\ id \in Ids /\ line(number, id) \in Row
                                /\ YearOf[line(number, id).std] = id[2]
                                /\ line(number, id).std = mapping[id].std
                                /\ line(number, id).section = mapping[id].section
                                /\ line(number, id).status = "ACTIVE"
                                /\ line(number, id).next = mapping[id].next
  BY <1>3, <1>5, <1>6, <1>7
<1> HIDE DEF line
<1>9. Partial(put(number), Ids, Row) /\ InYear(put(number))
  BY <1>8 DEF Partial, InYear
<1>10. Partial(Nothing, Students, Place)
  BY DEF Partial, Nothing
<1>11. Prepared(put(number), Nothing)
  BY <1>9, <1>10 DEF Prepared
<1>12. LinkedRows(put(number), Loaded(put(number))) /\ NotTerminal(put(number))
  BY <1>3, <1>5, <1>8 DEF LinkedRows, NotTerminal, Loaded, Restrict, Moved, Terminal
<1>13. KeepsCache(put(number), Nothing)
  <2> SUFFICES ASSUME Cached(mapping, place)
               PROVE  Cached(Result(put(number)), Placed(Nothing))
    BY DEF KeepsCache
  <2>1. PICK rows, spots : rows = Result(put(number)) /\ spots = Placed(Nothing)
    OBVIOUS
  <2>2. /\ DOMAIN rows = DOMAIN mapping
        /\ \A k \in DOMAIN mapping : /\ rows[k].status = mapping[k].status
                                     /\ rows[k].std = mapping[k].std
                                     /\ rows[k].section = mapping[k].section
    BY <2>1, <1>3, <1>5, <1>8 DEF Result
  <2>3. \A s \in Students : spots[s] = place[s]
    BY <2>1 DEF Placed, Nothing
  <2>4. Cached(rows, spots)
    BY <2>2, <2>3 DEF Cached
  <2> QED
    BY <2>1, <2>4
<1> HIDE DEF put
<1>14. Sound(put(number), Nothing)
  BY <1>11, <1>12, <1>13 DEF Sound
<1> QED
  BY <1>1, <1>14, OpenInv
-----------------------------------------------------------------------------
(* execute_promotion.                                                      *)
LEMMA NewYearRowTyped ==
    ASSUME EnrollmentConstants, NEW old \in Row, NEW item \in Item
    PROVE  /\ NewYearRow(old, item) \in Row /\ NewYearRow(old, item).std = item.std
           /\ NewYearRow(old, item).status = "ACTIVE" /\ NewYearRow(old, item).next = None
<1> DEFINE namesakes == {p \in Sections : /\ ClassOf[p] = item.std
                                          /\ old.section # None
                                          /\ NameOf[p] = NameOf[old.section]}
<1>1. namesakes # {} => (CHOOSE p \in namesakes : TRUE) \in namesakes
  OBVIOUS
<1>2. item.section \in Sections \cup {None}
  BY DEF Item
<1>3. TargetSection(old.section, item) \in Sections \cup {None}
  BY <1>1, <1>2 DEF TargetSection
<1> QED
  BY <1>3 DEF NewYearRow, Row, Item, EnrollmentStatus

LEMMA PromotedRowTyped ==
    ASSUME NEW old \in Row, NEW decision, NEW to \in Ids
    PROVE  /\ PromotedRow(old, decision, to) \in Row
           /\ PromotedRow(old, decision, to).std = old.std
           /\ PromotedRow(old, decision, to).next = to
BY DEF PromotedRow, Row, EnrollmentStatus

LEMMA PromotionKeeps ==
    ASSUME Inv, EnrollmentConstants, NEW r \in Requests, NEW src \in Years, NEW tgt \in Years,
           NEW items \in Items, ExecutePromotion(r, src, tgt, items), AloneStep
    PROVE  Inv'
<1> DEFINE who == DOMAIN items
           moved == {s \in who : Moves(s, tgt, items[s])}
           graduated == {s \in who : items[s].decision = "GRADUATE"}
           old(s) == mapping[<<s, src>>]
           new(s) == NewYearRow(old(s), items[s])
           left(s) == [old(s) EXCEPT !.status = "GRADUATED"]
           line(id) == IF id[2] = tgt THEN new(id[1])
                       ELSE IF id[1] \in moved
                            THEN PromotedRow(old(id[1]), items[id[1]].decision, <<id[1], tgt>>)
                            ELSE left(id[1])
           ids == (moved \X {src, tgt}) \cup (graduated \X {src})
           put == [id \in ids |-> line(id)]
           at == [s \in moved |-> PlaceOf(<<s, tgt>>, new(s))]
<1>1. src # tgt /\ (\A s \in who : Promotable(<<s, src>>)) /\ Open(r, put, at)
  BY DEF ExecutePromotion
<1>2. who \subseteq Students /\ items \in [who -> Item]
  BY DEF Items
<1>3. \A s \in who : /\ old(s) \in Row /\ YearOf[old(s).std] = src
                     /\ <<s, src>> \in DOMAIN mapping /\ old(s).status \notin Terminal
  BY <1>1, RowOf DEF Promotable, Inv, Terminal
<1>4. \A s \in who : /\ new(s) \in Row /\ new(s).std = items[s].std
                     /\ new(s).status = "ACTIVE" /\ new(s).next = None
  BY <1>2, <1>3, NewYearRowTyped
<1>5. \A s \in moved : YearOf[items[s].std] = tgt /\ <<s, tgt>> \notin DOMAIN mapping
  BY DEF Moves
<1>6. \A s \in moved : LET row == PromotedRow(old(s), items[s].decision, <<s, tgt>>)
                       IN  row \in Row /\ YearOf[row.std] = src /\ row.next = <<s, tgt>>
  <2>1. \A s \in moved : s \in who /\ <<s, tgt>> \in Ids
    BY <1>2 DEF Ids
  <2> HIDE DEF moved, old
  <2> TAKE s \in moved
  <2>2. PICK o, d, to : o = old(s) /\ d = items[s].decision /\ to = <<s, tgt>>
    OBVIOUS
  <2>3. o \in Row /\ YearOf[o.std] = src /\ to \in Ids
    BY <1>3, <2>1, <2>2
  <2>4. /\ PromotedRow(o, d, to) \in Row /\ PromotedRow(o, d, to).std = o.std
        /\ PromotedRow(o, d, to).next = to
    BY <2>3, PromotedRowTyped
  <2> QED
    BY <2>2, <2>3, <2>4
<1>7. \A s \in who : /\ left(s) \in Row /\ YearOf[left(s).std] = src
                     /\ left(s).std = old(s).std /\ left(s).section = old(s).section
                     /\ left(s).status = "GRADUATED" /\ left(s).next = old(s).next
  <2>1. \A row \in Row : LET end == [row EXCEPT !.status = "GRADUATED"]
                         IN  /\ end \in Row /\ end.std = row.std /\ end.section = row.section
                             /\ end.status = "GRADUATED" /\ end.next = row.next
    BY DEF Row, EnrollmentStatus
  <2> HIDE DEF old
  <2> QED
    BY <1>3, <2>1
<1>8. moved \subseteq who /\ graduated \subseteq who
  OBVIOUS
<1>9. \A s \in moved : /\ line(<<s, tgt>>) = new(s)
                       /\ line(<<s, src>>) = PromotedRow(old(s), items[s].decision, <<s, tgt>>)
  BY <1>1
<1>10. \A s \in graduated \ moved : line(<<s, src>>) = left(s)
  BY <1>1
<1> HIDE DEF moved, graduated, old, new, left, line
<1>11. \A id \in ids : id \in Ids /\ line(id) \in Row /\ YearOf[line(id).std] = id[2]
  <2> TAKE id \in ids
  <2>1. CASE id \in moved \X {src, tgt}
    <3>1. PICK s \in moved : id = <<s, src>> \/ id = <<s, tgt>>
      BY <2>1
    <3>2. <<s, src>> \in Ids /\ <<s, tgt>> \in Ids
      BY <1>2, <1>8 DEF Ids
    <3> QED
      BY <3>1, <3>2, <1>4, <1>5, <1>6, <1>8, <1>9
  <2>2. CASE id \in graduated \X {src} /\ id \notin moved \X {src, tgt}
    <3>1. PICK s \in graduated \ moved : id = <<s, src>>
      BY <2>2
    <3>2. <<s, src>> \in Ids
      BY <3>1, <1>2, <1>8 DEF Ids
    <3> QED
      BY <3>1, <3>2, <1>7, <1>8, <1>10
  <2> QED
    BY <2>1, <2>2
<1>12. \A x \in Ids, y \in Row : PlaceOf(x, y) \in Place
  BY DEF PlaceOf, Place, Ids, Row
<1>13. Partial(at, Students, Place)
  <2>1. \A s \in moved : PlaceOf(<<s, tgt>>, new(s)) \in Place
    BY <1>2, <1>4, <1>8, <1>12 DEF Ids
  <2> QED
    BY <1>2, <1>8, <2>1 DEF Partial
<1>14. Partial(put, Ids, Row) /\ InYear(put)
  BY <1>11 DEF Partial, InYear
<1>15. Prepared(put, at)
  BY <1>13, <1>14 DEF Prepared
<1>16. \A s \in moved : <<s, tgt>> \in Ids /\ old(s).next # <<s, tgt>>
  <2>1. \A s \in moved : <<s, tgt>> \in Ids /\ <<s, tgt>> # None
    BY <1>2, <1>8, EnrollmentConstants DEF Ids
  <2>2. \A id \in DOMAIN mapping : mapping[id].next # None => mapping[id].next \in DOMAIN mapping
    BY DEF Inv, LinkInv, PromotionLinks
  <2>3. \A s \in who : old(s).next # None => old(s).next \in DOMAIN mapping
    BY <1>3, <2>2 DEF old
  <2> QED
    BY <1>5, <1>8, <2>1, <2>3
<1>17. \A id \in ids : \/ \E s \in moved : /\ id = <<s, tgt>> /\ id \notin DOMAIN mapping
                                           /\ put[id] = new(s)
                       \/ \E s \in moved : /\ id = <<s, src>> /\ id \in DOMAIN mapping
                                           /\ put[id].next = <<s, tgt>>
                                           /\ put[id].next # mapping[id].next
                       \/ \E s \in graduated \ moved : /\ id = <<s, src>> /\ id \in DOMAIN mapping
                                                       /\ put[id] = left(s)
  <2>1. ASSUME NEW s \in moved
        PROVE  /\ <<s, tgt>> \in ids /\ <<s, src>> \in ids
               /\ <<s, tgt>> \notin DOMAIN mapping /\ put[<<s, tgt>>] = new(s)
               /\ <<s, src>> \in DOMAIN mapping /\ put[<<s, src>>].next = <<s, tgt>>
               /\ put[<<s, src>>].next # mapping[<<s, src>>].next
    BY <1>3, <1>5, <1>6, <1>8, <1>9, <1>16 DEF old
  <2>2. ASSUME NEW s \in graduated \ moved
        PROVE  /\ <<s, src>> \in ids /\ <<s, src>> \in DOMAIN mapping
               /\ put[<<s, src>>] = left(s)
    BY <1>3, <1>8, <1>10
  <2>3. \A id \in ids : \/ \E s \in moved : id = <<s, tgt>> \/ id = <<s, src>>
                        \/ \E s \in graduated \ moved : id = <<s, src>>
    <3> TAKE id \in ids
    <3>1. CASE id \in moved \X {src, tgt}
      BY <3>1
    <3>2. CASE id \in graduated \X {src} /\ id \notin moved \X {src, tgt}
      <4>1. PICK s \in graduated : id = <<s, src>>
        BY <3>2
      <4>2. s \in graduated \ moved
        BY <3>2, <4>1
      <4> QED
        BY <4>1, <4>2, Zenon
    <3> QED
      BY <3>1, <3>2
  <2> HIDE DEF ids, put
  <2> TAKE id \in ids
  <2>4. CASE \E s \in moved : id = <<s, tgt>>
    BY <2>1, <2>4
  <2>5. CASE \E s \in moved : id = <<s, src>>
    BY <2>1, <2>5
  <2>6. CASE \E s \in graduated \ moved : id = <<s, src>>
    BY <2>2, <2>6
  <2> QED
    BY <2>3, <2>4, <2>5, <2>6
<1>18. LinkedRows(put, Loaded(put))
  <2>1. /\ DOMAIN Loaded(put) = ids \cap DOMAIN mapping
        /\ \A id \in ids \cap DOMAIN mapping : Loaded(put)[id] = mapping[id]
    BY DEF Loaded, Restrict
  <2>2. \A s \in moved : <<s, tgt>> \in ids /\ <<s, tgt>> \notin DOMAIN mapping
    BY <1>5
  <2> HIDE DEF ids
  <2>3. ASSUME NEW id \in ids
        PROVE  \/ /\ put[id].status \notin Moved
                  /\ put[id].next = IF id \in DOMAIN mapping THEN mapping[id].next ELSE None
               \/ /\ id \in DOMAIN mapping /\ put[id].next # mapping[id].next
                  /\ put[id].next \in ids \ DOMAIN mapping
                  /\ put[id].next[1] = id[1]
    BY <1>4, <1>7, <1>8, <1>17, <2>2 DEF Moved, old
  <2>4. ASSUME NEW a \in ids \cap DOMAIN mapping, NEW b \in ids \cap DOMAIN mapping,
               put[a].next # mapping[a].next, put[b].next # mapping[b].next,
               put[a].next = put[b].next
        PROVE  a = b
    BY <1>7, <1>8, <1>17, <2>4 DEF old
  <2>5. DOMAIN put = ids
    OBVIOUS
  <2> HIDE DEF put
  <2> QED
    BY <2>1, <2>3, <2>4, <2>5 DEF LinkedRows
<1>19. NotTerminal(put)
  BY <1>3, <1>8, <1>17 DEF NotTerminal, old
<1>20. KeepsCache(put, at)
  <2> SUFFICES ASSUME Cached(mapping, place)
               PROVE  Cached(Result(put), Placed(at))
    BY DEF KeepsCache
  <2>1. PICK rows, spots : rows = Result(put) /\ spots = Placed(at)
    OBVIOUS
  <2>2. /\ DOMAIN rows = DOMAIN mapping \cup ids
        /\ \A id \in ids : rows[id] = put[id]
        /\ \A id \in DOMAIN mapping \ ids : rows[id] = mapping[id]
        /\ \A s \in Students : spots[s] = IF s \in moved THEN PlaceOf(<<s, tgt>>, new(s))
                                          ELSE place[s]
    BY <2>1 DEF Result, Placed
  <2>3. \A id \in DOMAIN rows : id[1] \notin moved =>
           \/ id \in DOMAIN mapping /\ rows[id] = mapping[id]
           \/ /\ id \in DOMAIN mapping /\ rows[id].status = "GRADUATED"
              /\ rows[id].std = mapping[id].std /\ rows[id].section = mapping[id].section
    <3> TAKE id \in DOMAIN rows
    <3> HAVE id[1] \notin moved
    <3>1. CASE id \notin ids
      BY <2>2, <3>1
    <3>2. CASE id \in ids
      <4>1. PICK s \in graduated \ moved : /\ id = <<s, src>> /\ id \in DOMAIN mapping
                                           /\ put[id] = left(s)
        <5>1. \A s \in moved : id # <<s, tgt>> /\ id # <<s, src>>
          OBVIOUS
        <5> HIDE DEF ids, put
        <5> QED
          BY <1>17, <3>2, <5>1
      <4>2. rows[id] = left(s) /\ old(s) = mapping[id]
        BY <2>2, <3>2, <4>1 DEF old
      <4> QED
        BY <1>7, <1>8, <4>1, <4>2
    <3> QED
      BY <3>1, <3>2
  <2>4. ASSUME NEW s \in Students
        PROVE  \/ \E id \in DOMAIN rows :
                     /\ id[1] = s /\ rows[id].status \in {"ACTIVE", "GRADUATED"}
                     /\ spots[s].year = id[2] /\ spots[s].std = rows[id].std
                     /\ spots[s].section = rows[id].section
               \/ /\ \A id \in DOMAIN rows : id[1] = s => rows[id].status # "ACTIVE"
                  /\ spots[s] = Nowhere
    <3>1. CASE s \in moved
      <4>1. <<s, tgt>> \in ids /\ put[<<s, tgt>>] = new(s) /\ new(s).status = "ACTIVE"
        BY <3>1, <1>4, <1>8, <1>9
      <4>2. spots[s] = PlaceOf(<<s, tgt>>, new(s))
        BY <3>1, <2>2
      <4>3. /\ spots[s].year = tgt /\ spots[s].std = new(s).std
            /\ spots[s].section = new(s).section
        BY <4>2 DEF PlaceOf
      <4>4. <<s, tgt>> \in DOMAIN rows /\ rows[<<s, tgt>>] = new(s)
        BY <2>2, <4>1
      <4> QED
        BY <4>1, <4>3, <4>4
    <3>2. CASE s \notin moved
      <4>1. spots[s] = place[s]
        BY <3>2, <2>2
      <4>2. DOMAIN mapping \subseteq DOMAIN rows
        BY <2>2
      <4> QED
        BY <3>2, <2>3, <4>1, <4>2 DEF Cached
    <3> QED
      BY <3>1, <3>2
  <2>5. Cached(rows, spots)
    BY <2>4 DEF Cached
  <2> QED
    BY <2>1, <2>5
<1>21. Sound(put, at)
  BY <1>15, <1>18, <1>19, <1>20 DEF Sound
<1> HIDE DEF put, at
<1> QED
  BY <1>1, <1>21, OpenInv
-----------------------------------------------------------------------------
(* A request that ends keeps nothing.                                      *)
LEMMA ClosedTyped ==
    ASSUME TypeInv, NEW r \in Requests, tx' = [tx EXCEPT ![r] = Closed]
    PROVE  /\ DOMAIN tx' = Requests /\ \A q \in Requests : IsTx(tx'[q])
           /\ \A q \in Requests : /\ InYear(tx'[q].put)
                                  /\ DOMAIN tx'[q].seen \subseteq DOMAIN mapping
<1>1. IsTx(Closed) /\ InYear(Closed.put) /\ Closed.seen = Nothing
  BY DEF IsTx, InYear, Closed, Fresh, Nothing, Partial
<1>2. DOMAIN tx' = Requests /\ \A q \in Requests : tx'[q] = IF q = r THEN Closed ELSE tx[q]
  BY DEF TypeInv, TypeOK
<1>3. DOMAIN Nothing = {}
  BY DEF Nothing
<1> QED
  BY <1>1, <1>2, <1>3 DEF TypeInv, TypeOK

LEMMA AbortTyped ==
    ASSUME TypeInv, NEW r \in Requests, Abort(r), alone' \in BOOLEAN
    PROVE  TypeInv'
<1>1. mapping' = mapping /\ place' = place /\ tx' = [tx EXCEPT ![r] = Closed]
  BY DEF Abort
<1> QED
  BY <1>1, ClosedTyped DEF TypeInv, TypeOK, InYear

LEMMA FlushedTyped ==
    ASSUME NEW now \in Row, NEW seen \in Row, NEW new \in Row
    PROVE  /\ FlushedRow(now, seen, new) \in Row
           /\ FlushedRow(now, seen, new).std \in {now.std, new.std}
BY DEF FlushedRow, Column, Row

LEMMA FlushedPlaceTyped ==
    ASSUME NEW now \in Place, NEW seen \in Place, NEW new \in Place
    PROVE  FlushedPlace(now, seen, new) \in Place
BY DEF FlushedPlace, Column, Place

LEMMA CommitTyped ==
    ASSUME TypeInv, NEW r \in Requests, Commit(r), alone' \in BOOLEAN
    PROVE  TypeInv'
<1>1. PICK t : t = tx[r]
  OBVIOUS
<1> DEFINE line(id) == IF id \notin DOMAIN t.put THEN mapping[id]
                       ELSE IF id \in DOMAIN t.seen
                            THEN FlushedRow(mapping[id], t.seen[id], t.put[id])
                            ELSE t.put[id]
           spot(s) == IF s \in DOMAIN t.at THEN FlushedPlace(place[s], t.was[s], t.at[s])
                      ELSE place[s]
<1>2. /\ mapping' = [id \in DOMAIN mapping \cup DOMAIN t.put |-> line(id)]
      /\ place' = [s \in Students |-> spot(s)]
      /\ tx' = [tx EXCEPT ![r] = Closed]
  BY <1>1 DEF Commit
<1>3. /\ Partial(t.put, Ids, Row) /\ InYear(t.put)
      /\ DOMAIN t.seen \subseteq DOMAIN mapping
      /\ \A id \in DOMAIN t.seen : t.seen[id] \in Row
      /\ \A s \in DOMAIN t.at : t.at[s] \in Place /\ t.was[s] \in Place
  BY <1>1 DEF TypeInv, TypeOK, IsTx, Partial
<1>4. \A id \in DOMAIN t.put : t.put[id] \in Row /\ id \in Ids /\ YearOf[t.put[id].std] = id[2]
  BY <1>3 DEF Partial, InYear
<1>5. \A id \in DOMAIN mapping : mapping[id] \in Row /\ id \in Ids /\ YearOf[mapping[id].std] = id[2]
  BY RowOf
<1>6. \A id \in DOMAIN mapping \cup DOMAIN t.put :
         id \in Ids /\ line(id) \in Row /\ YearOf[line(id).std] = id[2]
  <2> TAKE id \in DOMAIN mapping \cup DOMAIN t.put
  <2>1. CASE id \notin DOMAIN t.put
    BY <2>1, <1>5
  <2>2. CASE id \in DOMAIN t.put /\ id \notin DOMAIN t.seen
    BY <2>2, <1>4
  <2>3. CASE id \in DOMAIN t.put /\ id \in DOMAIN t.seen
    BY <2>3, <1>3, <1>4, <1>5, FlushedTyped
  <2> QED
    BY <2>1, <2>2, <2>3
<1>7. \A s \in Students : spot(s) \in Place
  BY <1>3, FlushedPlaceTyped DEF TypeInv, TypeOK
<1> HIDE DEF line, spot
<1>8. Partial(mapping', Ids, Row) /\ InYear(mapping') /\ place' \in [Students -> Place]
  BY <1>2, <1>6, <1>7 DEF Partial, InYear
<1>9. DOMAIN mapping \subseteq DOMAIN mapping'
  BY <1>2
<1> QED
  BY <1>2, <1>8, <1>9, ClosedTyped DEF TypeInv, TypeOK, InYear
(* A request that ends leaves nothing open.                                *)
LEMMA ClosedKeeps ==
    ASSUME Inv, NEW r \in Requests, tx[r].state = "open", tx' = [tx EXCEPT ![r] = Closed]
    PROVE  /\ \A q \in Requests : LinkedRows(tx'[q].put, tx'[q].seen)
           /\ alone => \A q \in Requests : tx'[q].state # "open"
<1>1. \A q \in Requests : tx'[q] = IF q = r THEN Closed ELSE tx[q]
  BY DEF Inv, TypeInv, TypeOK
<1>2. LinkedRows(Closed.put, Closed.seen) /\ Closed.state = "done"
  BY DEF LinkedRows, Closed, Fresh, Nothing
<1>3. \A q \in Requests : LinkedRows(tx'[q].put, tx'[q].seen)
  BY <1>1, <1>2 DEF Inv, LinkInv
<1>4. alone => \A q \in Requests : tx'[q].state # "open"
  BY <1>1, <1>2 DEF Inv, SerialInv, AtMostOneOpen
<1> QED
  BY <1>3, <1>4

LEMMA AbortKeeps ==
    ASSUME Inv, NEW r \in Requests, Abort(r), AloneStep
    PROVE  LinkInv' /\ SerialInv'
<1>1. mapping' = mapping /\ place' = place /\ tx' = [tx EXCEPT ![r] = Closed]
  BY DEF Abort
<1>2. /\ \A q \in Requests : LinkedRows(tx'[q].put, tx'[q].seen)
      /\ alone => \A q \in Requests : tx'[q].state # "open"
  BY <1>1, ClosedKeeps DEF Abort
<1>3. LinkInv'
  BY <1>1, <1>2 DEF Inv, LinkInv, LinkedRows, PromotionLinks
<1>4. SerialInv'
  BY <1>1, <1>2 DEF Inv, SerialInv, Cached, AtMostOneOpen, AloneStep
<1> QED
  BY <1>3, <1>4

(* What a commit makes of each mapping: the link it had, one to a mapping  *)
(* that the same commit inserts, or none.                                  *)
LEMMA CommitLinks ==
    ASSUME Inv, NEW r \in Requests, Commit(r)
    PROVE  PromotionLinks'
<1> PICK t : t = tx[r]
  OBVIOUS
<1> DEFINE fresh == DOMAIN t.put \ DOMAIN t.seen
           linked(id) == id \in DOMAIN t.seen /\ t.put[id].next # t.seen[id].next
           line(id) == IF id \notin DOMAIN t.put THEN mapping[id]
                       ELSE IF id \in DOMAIN t.seen
                            THEN FlushedRow(mapping[id], t.seen[id], t.put[id])
                            ELSE t.put[id]
<1>1. /\ mapping' = [id \in DOMAIN mapping \cup DOMAIN t.put |-> line(id)]
      /\ fresh \cap DOMAIN mapping = {}
  BY DEF Commit
<1>2. /\ DOMAIN t.seen \subseteq DOMAIN t.put /\ DOMAIN t.seen \subseteq DOMAIN mapping
      /\ LinkedRows(t.put, t.seen)
      /\ DOMAIN t.put \subseteq Ids
  BY DEF Inv, TypeInv, TypeOK, IsTx, Partial, LinkInv
<1>3. None \notin Ids
  BY EnrollmentConstants DEF Ids
<1>4. \A now, seen, row : /\ FlushedRow(now, seen, row).next = Column(now.next, seen.next, row.next)
                          /\ FlushedRow(now, seen, row).status
                                = Column(now.status, seen.status, row.status)
  BY DEF FlushedRow
<1>5. \A id \in DOMAIN mapping' :
         \/ /\ id \in DOMAIN mapping /\ mapping'[id].next = mapping[id].next
            /\ mapping'[id].status \in Moved => mapping[id].status \in Moved
         \/ linked(id) /\ mapping'[id].next = t.put[id].next
         \/ mapping'[id].next = None /\ mapping'[id].status \notin Moved
  <2> TAKE id \in DOMAIN mapping'
  <2>1. id \in DOMAIN mapping \cup DOMAIN t.put /\ mapping'[id] = line(id)
    BY <1>1
  <2>2. CASE id \notin DOMAIN t.put
    BY <2>1, <2>2
  <2>3. CASE id \in fresh
    BY <2>1, <2>3, <1>2 DEF LinkedRows
  <2>4. CASE id \in DOMAIN t.seen /\ ~linked(id)
    <3>1. id \in DOMAIN mapping /\ t.put[id].status \notin Moved
      BY <2>4, <1>2 DEF LinkedRows
    <3>2. mapping'[id] = FlushedRow(mapping[id], t.seen[id], t.put[id])
      BY <2>1, <2>4, <1>2
    <3> QED
      BY <3>1, <3>2, <2>4, <1>4 DEF Column
  <2>5. CASE linked(id)
    <3>1. mapping'[id] = FlushedRow(mapping[id], t.seen[id], t.put[id])
      BY <2>1, <2>5, <1>2
    <3> QED
      BY <3>1, <2>5, <1>4 DEF Column
  <2> QED
    BY <2>1, <2>2, <2>3, <2>4, <2>5, <1>2
<1>6. \A id : linked(id) => /\ id \in DOMAIN mapping /\ t.put[id].next \in fresh
                            /\ t.put[id].next[1] = id[1] /\ t.put[id].next # id
  BY <1>2 DEF LinkedRows
<1>7. \A id \in DOMAIN mapping : mapping[id].next # None => mapping[id].next \in DOMAIN mapping
  BY DEF Inv, LinkInv, PromotionLinks
<1>8. \A a, b : linked(a) /\ linked(b) /\ t.put[a].next = t.put[b].next => a = b
  BY <1>2 DEF LinkedRows
<1>9. DOMAIN mapping \subseteq DOMAIN mapping' /\ fresh \subseteq DOMAIN mapping' /\ None \notin fresh
  BY <1>1, <1>2, <1>3
<1>10. PromotionLinks
  BY DEF Inv, LinkInv
<1> HIDE DEF fresh, linked, line
<1>11. ASSUME NEW id \in DOMAIN mapping'
       PROVE  /\ mapping'[id].status \in Moved => mapping'[id].next # None
              /\ mapping'[id].next # None =>
                    /\ mapping'[id].next \in DOMAIN mapping' /\ mapping'[id].next[1] = id[1]
                    /\ mapping'[id].next # id
  BY <1>5, <1>6, <1>9, <1>10 DEF PromotionLinks, Moved
<1>12. ASSUME NEW a \in DOMAIN mapping', NEW b \in DOMAIN mapping',
              mapping'[a].next = mapping'[b].next, mapping'[a].next # None
       PROVE  a = b
  <2>1. CASE a \in DOMAIN mapping /\ mapping'[a].next = mapping[a].next
    <3>1. mapping[a].next \in DOMAIN mapping
      BY <2>1, <1>7, <1>12
    <3>2. ~linked(b) \/ mapping'[b].next # t.put[b].next
      BY <3>1, <2>1, <1>1, <1>6, <1>12
    <3> QED
      BY <3>2, <2>1, <1>5, <1>10, <1>12 DEF PromotionLinks
  <2>2. CASE linked(a) /\ mapping'[a].next = t.put[a].next
    <3>1. t.put[a].next \notin DOMAIN mapping
      BY <2>2, <1>1, <1>6
    <3>2. linked(b) /\ mapping'[b].next = t.put[b].next
      BY <3>1, <2>2, <1>5, <1>7, <1>12
    <3> QED
      BY <3>2, <2>2, <1>8, <1>12
  <2> QED
    BY <2>1, <2>2, <1>5, <1>12
<1> QED
  BY <1>11, <1>12 DEF PromotionLinks, Moved

(* A commit that nothing overlapped writes what was prepared.              *)
LEMMA CommitSerial ==
    ASSUME Inv, NEW r \in Requests, Commit(r), alone
    PROVE  mapping' = Result(tx[r].put) /\ place' = Placed(tx[r].at) /\ NotTerminal(tx[r].put)
<1> PICK t : t = tx[r]
  OBVIOUS
<1>1. /\ mapping' = [id \in DOMAIN mapping \cup DOMAIN t.put |->
                       IF id \notin DOMAIN t.put THEN mapping[id]
                       ELSE IF id \in DOMAIN t.seen
                            THEN FlushedRow(mapping[id], t.seen[id], t.put[id])
                            ELSE t.put[id]]
      /\ place' = [s \in Students |->
                     IF s \in DOMAIN t.at THEN FlushedPlace(place[s], t.was[s], t.at[s])
                     ELSE place[s]]
      /\ t.state = "open"
  BY DEF Commit
<1>2. Current(t) /\ NotTerminal(t.put)
  BY <1>1 DEF Inv, SerialInv
<1>3. /\ \A id \in DOMAIN t.put : t.put[id] \in Row
      /\ \A s \in DOMAIN t.at : t.at[s] \in Place
  BY DEF Inv, TypeInv, TypeOK, IsTx, Partial
<1>4. \A row \in Row : \A now : FlushedRow(now, now, row) = row
  BY DEF FlushedRow, Column, Row
<1>5. \A spot \in Place : \A now : FlushedPlace(now, now, spot) = spot
  BY DEF FlushedPlace, Column, Place
<1>6. \A id \in DOMAIN t.seen : id \in DOMAIN t.put /\ FlushedRow(mapping[id], t.seen[id], t.put[id]) = t.put[id]
  BY <1>2, <1>3, <1>4 DEF Current
<1>7. \A s \in DOMAIN t.at : FlushedPlace(place[s], t.was[s], t.at[s]) = t.at[s]
  BY <1>2, <1>3, <1>5 DEF Current
<1> QED
  BY <1>1, <1>2, <1>6, <1>7 DEF Result, Placed

LEMMA CommitKeeps ==
    ASSUME Inv, NEW r \in Requests, Commit(r), AloneStep
    PROVE  LinkInv' /\ SerialInv'
<1>1. tx[r].state = "open" /\ tx' = [tx EXCEPT ![r] = Closed]
  BY DEF Commit
<1>2. /\ \A q \in Requests : LinkedRows(tx'[q].put, tx'[q].seen)
      /\ alone => \A q \in Requests : tx'[q].state # "open"
  BY <1>1, ClosedKeeps
<1>3. LinkInv'
  BY <1>2, CommitLinks DEF LinkInv, LinkedRows
<1>4. ASSUME alone PROVE Cached(mapping, place)'
  <2>1. mapping' = Result(tx[r].put) /\ place' = Placed(tx[r].at)
    BY <1>4, CommitSerial
  <2>2. Cached(Result(tx[r].put), Placed(tx[r].at))
    BY <1>1, <1>4 DEF Inv, SerialInv, KeepsCache
  <2>3. PICK rows, spots : rows = Result(tx[r].put) /\ spots = Placed(tx[r].at)
    OBVIOUS
  <2>4. Cached(rows, spots) /\ mapping' = rows /\ place' = spots
    BY <2>1, <2>2, <2>3
  <2> QED
    BY <2>4 DEF Cached, Nowhere
<1>5. SerialInv'
  BY <1>2, <1>4 DEF SerialInv, AtMostOneOpen, AloneStep
<1> QED
  BY <1>3, <1>5
-----------------------------------------------------------------------------
LEMMA HandleKeeps ==
    ASSUME Inv, EnrollmentConstants, NEW r \in Requests, Handle(r), AloneStep
    PROVE  Inv'
<1>1. CASE \E id \in Ids, std \in Standards, section \in Optional(Sections),
              roll \in Optional(Rolls) : CreateMapping(r, id, std, section, roll)
  BY <1>1, CreateKeeps
<1>2. CASE \E id \in Ids, std \in Standards, section \in Optional(Sections),
              roll \in Optional(Rolls) : TransferStudent(r, id, std, section, roll)
  BY <1>2, TransferKeeps
<1>3. CASE \E id \in Ids, std \in Optional(Standards), section \in Optional(Sections),
              roll \in Optional(Rolls) : UpdateMapping(r, id, std, section, roll)
  BY <1>3, UpdateKeeps
<1>4. CASE \E id \in Ids, status \in {"LEFT", "TRANSFERRED"} : ExitStudent(r, id, status)
  BY <1>4, StatusKeeps DEF ExitStudent, Updatable, EnrollmentStatus, Terminal, Moved
<1>5. CASE \E id \in Ids : CompleteMapping(r, id)
  BY <1>5, StatusKeeps DEF CompleteMapping, EnrollmentStatus, Terminal, Moved
<1>6. CASE \E section \in Sections : AssignRollNumbers(r, section)
  BY <1>6, AssignKeeps
<1>7. CASE \E src, tgt \in Years, items \in Items : ExecutePromotion(r, src, tgt, items)
  BY <1>7, PromotionKeeps
<1> QED
  BY <1>1, <1>2, <1>3, <1>4, <1>5, <1>6, <1>7, Zenon DEF Handle

LEMMA InitHolds == Init => Inv
<1> SUFFICES ASSUME Init PROVE Inv
  OBVIOUS
<1>1. Partial(Nothing, Ids, Row) /\ InYear(Nothing) /\ DOMAIN Nothing = {}
  BY DEF Partial, Nothing, InYear
<1>2. Nowhere \in Place
  BY DEF Nowhere, Place
<1>3. /\ IsTx(Fresh) /\ InYear(Fresh.put) /\ Fresh.seen = Nothing /\ Fresh.put = Nothing
      /\ Fresh.state = "new"
  BY DEF IsTx, InYear, Fresh, Nothing, Partial
<1>4. TypeInv
  BY <1>1, <1>2, <1>3 DEF Init, TypeInv, TypeOK
<1>5. LinkInv
  BY <1>1, <1>3 DEF Init, LinkInv, PromotionLinks, LinkedRows
<1>6. SerialInv
  BY <1>1, <1>3 DEF Init, SerialInv, AtMostOneOpen, Cached
<1> QED
  BY <1>4, <1>5, <1>6 DEF Inv

LEMMA NextKeeps ==
    ASSUME EnrollmentConstants, Inv, [Next]_vars
    PROVE  Inv'
<1>1. CASE Next
  <2>1. PICK r \in Requests : Handle(r) \/ Commit(r) \/ Abort(r)
    BY <1>1 DEF Next
  <2>2. AloneStep /\ alone' \in BOOLEAN
    BY <1>1, AloneBoolean DEF Next, AloneStep
  <2>3. CASE Handle(r)
    BY <2>2, <2>3, HandleKeeps
  <2>4. CASE Commit(r)
    BY <2>2, <2>4, CommitTyped, CommitKeeps DEF Inv
  <2>5. CASE Abort(r)
    BY <2>2, <2>5, AbortTyped, AbortKeeps DEF Inv
  <2> QED
    BY <2>1, <2>3, <2>4, <2>5
<1>2. CASE UNCHANGED vars
  <2>1. mapping' = mapping /\ place' = place /\ tx' = tx /\ alone' = alone
    BY <1>2 DEF vars
  <2>2. TypeInv'
    BY <2>1 DEF Inv, TypeInv, TypeOK, InYear
  <2>3. LinkInv'
    BY <2>1 DEF Inv, LinkInv, PromotionLinks, LinkedRows
  <2>4. SerialInv'
    <3>1. AtMostOneOpen' = AtMostOneOpen /\ Cached(mapping, place)' = Cached(mapping, place)
      BY <2>1 DEF AtMostOneOpen, Cached
    <3>2. ASSUME NEW r \in Requests
          PROVE  /\ Current(tx[r])' = Current(tx[r])
                 /\ NotTerminal(tx[r].put)' = NotTerminal(tx[r].put)
      BY <2>1 DEF Current, NotTerminal
    <3>3. ASSUME NEW r \in Requests, KeepsCache(tx[r].put, tx[r].at)
          PROVE  KeepsCache(tx[r].put, tx[r].at)'
      <4>1. PICK rows, spots : rows = Result(tx[r].put) /\ spots = Placed(tx[r].at)
        OBVIOUS
      <4>2. Result(tx[r].put)' = rows /\ Placed(tx[r].at)' = spots
        BY <2>1, <4>1 DEF Result, Placed
      <4>3. Cached(mapping, place) => Cached(rows, spots)
        BY <3>3, <4>1 DEF KeepsCache
      <4>4. Cached(rows, spots) => Cached(Result(tx[r].put), Placed(tx[r].at))'
        BY <4>2 DEF Cached
      <4> QED
        BY <3>1, <4>3, <4>4 DEF KeepsCache
    <3> QED
      BY <2>1, <3>1, <3>2, <3>3 DEF Inv, SerialInv
  <2> QED
    BY <2>2, <2>3, <2>4 DEF Inv
<1> QED
  BY <1>1, <1>2

(* All of it is inductive: the years of the classes, the links and, until  *)
(* two handlers overlap, that what a request read is still so.             *)
THEOREM Invariant == Spec => []Inv
<1>1. Inv /\ [Next]_vars => Inv'
  BY NextKeeps, EnrollmentConstants
<1> QED
  BY InitHolds, <1>1, PTL DEF Spec
-----------------------------------------------------------------------------
(* The types of the mappings, the flat columns and the units of work.      *)
THEOREM TypeCorrect == Spec => []TypeOK
<1>1. Inv => TypeOK
  BY DEF Inv, TypeInv
<1> QED
  BY Invariant, <1>1, PTL

(* However handlers overlap, a promoted mapping names the mapping that its *)
(* promotion created for the same student, and no other names that one:    *)
(* the unique student and year turns the second INSERT away.               *)
THEOREM LinksHold == Spec => []PromotionLinks
<1>1. Inv => PromotionLinks
  BY DEF Inv, LinkInv
<1> QED
  BY Invariant, <1>1, PTL

(* Without overlap the flat columns show an ACTIVE or GRADUATED mapping of *)
(* the student, or nothing when there is no ACTIVE one.                    *)
THEOREM PlacesHold == Spec => []PlaceOfMapping
<1>1. Inv => PlaceOfMapping
  BY DEF Inv, SerialInv, Cached, PlaceOfMapping, Holding, Shows, ActiveOf
<1> QED
  BY Invariant, <1>1, PTL

(* Without overlap no step gives a mapping in a terminal status another.   *)
THEOREM TerminalStay == Spec => TerminalStates
<1> DEFINE Stay == \A id \in DOMAIN mapping :
                      mapping[id].status \in Terminal => mapping'[id].status = mapping[id].status
<1>1. Inv /\ [Next]_vars => [alone' => Stay]_vars
  <2> SUFFICES ASSUME Inv, Next, alone' PROVE Stay
    OBVIOUS
  <2>1. alone /\ \E r \in Requests : Handle(r) \/ Commit(r) \/ Abort(r)
    BY DEF Next
  <2>2. ASSUME NEW r \in Requests, Handle(r) PROVE mapping' = mapping
    <3>1. \A put, at : Open(r, put, at) => mapping' = mapping
      BY DEF Open
    <3>2. \A id, row : Save(r, id, row) => mapping' = mapping
      BY <3>1 DEF Save
    <3> QED
      BY <2>2, <3>1, <3>2, Zenon
         DEF Handle, CreateMapping, UpdateMapping, TransferStudent, ExitStudent,
             CompleteMapping, AssignRollNumbers, ExecutePromotion
  <2>3. ASSUME NEW r \in Requests, Commit(r) PROVE Stay
    <3>1. mapping' = Result(tx[r].put) /\ NotTerminal(tx[r].put)
      BY <2>1, <2>3, CommitSerial
    <3> QED
      BY <3>1 DEF Result, NotTerminal
  <2>4. ASSUME NEW r \in Requests, Abort(r) PROVE mapping' = mapping
    BY <2>4 DEF Abort
  <2> QED
    BY <2>1, <2>2, <2>3, <2>4
<1> QED
  BY Invariant, <1>1, PTL DEF Spec, TerminalStates
=============================================================================
