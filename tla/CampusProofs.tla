------------------------------ MODULE CampusProofs ------------------------------
(***************************************************************************)
(* What is proved of the campus, for every value of its constants.  First  *)
(* the unit of work: what a commit makes of a table, and that the rows,    *)
(* the collected writes and the notices keep their types through any step  *)
(* of any handler.  Then, area by area, what its handlers collect and the  *)
(* invariant that every step of the area preserves; the theorems about     *)
(* the whole campus follow at the end.                                     *)
(***************************************************************************)
EXTENDS Campus, Sums, TLAPS, FiniteSetTheorems

(* Columns that leave a row of a type in it.                               *)
Fitting(R, columns) == \A row \in R : Over(row, columns) \in R

(* The writes of a unit of work to a table whose keys and rows are of the  *)
(* types given.                                                            *)
Fits(w, t, K, R) ==
    /\ \A k \in DOMAIN Rows(w.insert, t) : k \in K /\ Rows(w.insert, t)[k] \in R
    /\ \A k \in DOMAIN Rows(w.put, t) :
          /\ k \in K /\ Rows(w.put, t)[k].new \in R
          /\ Fitting(R, Rows(w.put, t)[k].set)
    /\ \A k \in DOMAIN Rows(w.update, t) : Fitting(R, Rows(w.update, t)[k])

TableInv(t, K, R) == Table(t, K, R) /\ \A s \in Sessions : Fits(tx[s], t, K, R)

WorkShape(w) ==
    w = [state |-> w.state, insert |-> w.insert, put |-> w.put, update |-> w.update,
         drop |-> w.drop, needs |-> w.needs, tell |-> w.tell, jobs |-> w.jobs]
Shape == /\ tx = [s \in Sessions |-> tx[s]]
         /\ \A s \in Sessions : /\ WorkShape(tx[s])
                                /\ tx[s].state \in {"idle", "open", "after"}
                                /\ tx[s].state # "open" =>
                                   /\ tx[s].insert = None /\ tx[s].put = None
                                   /\ tx[s].update = None /\ tx[s].drop = None
         /\ serial => \A s, q \in Sessions : Busy(s) /\ Busy(q) => s = q
         /\ "notice" \in DOMAIN db

(* The unit of work of an idle session is empty.                           *)
LEMMA IdleIs ==
   /\ Idle.state = "idle" /\ Idle.insert = None /\ Idle.put = None /\ Idle.update = None
   /\ Idle.drop = None /\ Idle.needs = {} /\ Idle.tell = {} /\ Idle.jobs = {}
   /\ WorkShape(Idle)
BY DEF Idle, WorkShape

(* Nothing is written to a table that is not named.                        *)
LEMMA NoRows == ASSUME NEW t PROVE Rows(None, t) = None /\ DOMAIN None = {}
BY DEF Rows, None

(* A unit of work without writes fits every table.                         *)
LEMMA IdleFits == ASSUME NEW w, w.insert = None, w.put = None, w.update = None, NEW t, NEW K, NEW R
   PROVE Fits(w, t, K, R)
BY NoRows DEF Fits

(* Writes that fit leave a table of rows of its type.                      *)
LEMMA FlushedFits ==
  ASSUME NEW t, NEW K, NEW R, Table(t, K, R), NEW w, Fits(w, t, K, R)
  PROVE  /\ DOMAIN Flushed(w, t) \subseteq K
         /\ \A k \in DOMAIN Flushed(w, t) : Flushed(w, t)[k] \in R
<1>1. PICK gone : gone = {pair[2] : pair \in {p \in Dropped(w) : p[1] = t}}
  OBVIOUS
<1>2. PICK new, put, columns : new = Rows(w.insert, t) /\ put = Rows(w.put, t) /\ columns = Rows(w.update, t)
  OBVIOUS
<1>3. PICK f : f = Flushed(w, t)
  OBVIOUS
<1>4. f = [k \in ((Keys(t) \ gone) \cup DOMAIN new \cup DOMAIN put) |->
            IF k \in DOMAIN new THEN new[k]
            ELSE IF k \in DOMAIN put
                 THEN IF k \in Keys(t) THEN Over(db[t][k], put[k].set) ELSE put[k].new
            ELSE IF k \in DOMAIN columns THEN Over(db[t][k], columns[k])
            ELSE db[t][k]]
  BY <1>1, <1>2, <1>3 DEF Flushed
<1>5. Keys(t) \subseteq K /\ \A k \in Keys(t) : db[t][k] \in R
  BY DEF Table
<1>6. /\ \A k \in DOMAIN new : k \in K /\ new[k] \in R
      /\ \A k \in DOMAIN put : k \in K /\ put[k].new \in R /\ \A row \in R : Over(row, put[k].set) \in R
      /\ \A k \in DOMAIN columns : \A row \in R : Over(row, columns[k]) \in R
  BY <1>2 DEF Fits, Fitting
<1>7. ASSUME NEW k \in DOMAIN f
      PROVE  k \in K /\ f[k] \in R
  <2>1. k \in Keys(t) \/ k \in DOMAIN new \/ k \in DOMAIN put
    BY <1>4
  <2> QED
   BY <1>4, <1>5, <1>6, <2>1
<1> QED
  BY <1>3, <1>7

TableStays(t, K, R) == /\ Table(t, K, R)'
                       /\ \A s \in Sessions : Fits(tx'[s], t, K, R)

(* The first step of a handler opens a unit of work in an idle session.    *)
LEMMA BeginShape ==
  ASSUME Shape, NEW s \in Sessions, NEW w, NEW objects, BeginWith(s, w, objects), WorkShape(w),
         w.state = "open"
  PROVE  /\ Shape' /\ tx[s].state = "idle" /\ tx' = [q \in Sessions |-> IF q = s THEN w ELSE tx[q]]
         /\ stored' = objects /\ UNCHANGED <<area, db, today, serial>>
<1>1. /\ tx[s].state = "idle" /\ tx' = [q \in Sessions |-> IF q = s THEN w ELSE tx[q]]
      /\ stored' = objects /\ UNCHANGED <<area, db, today, serial>>
  BY DEF BeginWith, Shape
<1>2. serial => ~\E q \in Sessions : Busy(q)
  BY DEF BeginWith
<1>3. Shape'
  BY <1>1, <1>2 DEF Shape, Busy
<1> QED BY <1>1, <1>3

(* An abort leaves an idle session and changes nothing else.               *)
LEMMA AbortShape ==
  ASSUME Shape, NEW s \in Sessions, Abort(s)
  PROVE  /\ Shape' /\ tx' = [q \in Sessions |-> IF q = s THEN Idle ELSE tx[q]]
         /\ UNCHANGED <<area, db, stored, today, serial>>
<1>1. /\ tx' = [q \in Sessions |-> IF q = s THEN Idle ELSE tx[q]]
      /\ UNCHANGED <<area, db, stored, today, serial>>
  BY DEF Abort, Shape
<1>2. Shape'
  BY <1>1, IdleIs DEF Shape, Busy
<1> QED BY <1>1, <1>2

(* What is left of a unit of work after its commit. *)
Rest(w) == IF w.tell = {} /\ w.jobs = {} THEN Idle
           ELSE [Idle EXCEPT !.state = "after", !.tell = w.tell, !.jobs = w.jobs]

(* What is left after a commit writes to no table.                         *)
LEMMA RestIs ==
  ASSUME NEW w
  PROVE  /\ WorkShape(Rest(w)) /\ Rest(w).state \in {"idle", "after"}
         /\ Rest(w).insert = None /\ Rest(w).put = None /\ Rest(w).update = None /\ Rest(w).drop = None
         /\ Rest(w).tell = w.tell /\ Rest(w).jobs = w.jobs /\ Rest(w).needs = {}
         /\ Rest(w).state = "after" <=> ~(w.tell = {} /\ w.jobs = {})
BY DEF Rest, Idle, WorkShape

(* A commit is the flush of every table and leaves the background tasks.   *)
LEMMA CommitShape ==
  ASSUME Shape, NEW s \in Sessions, Commit(s)
  PROVE  /\ Shape' /\ tx[s].state = "open" /\ ~Refused(tx[s])
         /\ tx' = [q \in Sessions |-> IF q = s THEN Rest(tx[s]) ELSE tx[q]]
         /\ db' = [t \in DOMAIN db |-> Flushed(tx[s], t)]
         /\ UNCHANGED <<area, stored, today, serial>>
<1>1. /\ tx[s].state = "open" /\ ~Refused(tx[s])
      /\ tx' = [q \in Sessions |-> IF q = s THEN Rest(tx[s]) ELSE tx[q]]
      /\ db' = [t \in DOMAIN db |-> Flushed(tx[s], t)]
      /\ UNCHANGED <<area, stored, today, serial>>
  BY Zenon DEF Commit, Shape, Rest
<1>2. Shape'
  BY <1>1, RestIs DEF Shape, Busy
<1> QED BY <1>1, <1>2

(* A background task adds notices and leaves every other table alone.      *)
LEMMA NotifyShape ==
  ASSUME Shape, NEW s \in Sessions, Notify(s)
  PROVE  /\ Shape' /\ tx[s].state = "after"
         /\ \E w : /\ tx' = [q \in Sessions |-> IF q = s THEN w ELSE tx[q]]
                   /\ w.tell = {} /\ w.jobs = tx[s].jobs /\ w.state \in {"idle", "after"}
                   /\ w.insert = None /\ w.put = None /\ w.update = None /\ w.drop = None
         /\ db' = [db EXCEPT !.notice = db'.notice]
         /\ DOMAIN db'.notice = DOMAIN db.notice \cup tx[s].tell
         /\ \A n \in DOMAIN db'.notice :
               db'.notice[n] = IF n \in tx[s].tell THEN [read |-> FALSE] ELSE db.notice[n]
         /\ UNCHANGED <<area, stored, today, serial>>
<1>1. PICK w : w = IF tx[s].jobs = {} THEN Idle ELSE [tx[s] EXCEPT !.tell = {}]
  OBVIOUS
<1>2. /\ tx[s].state = "after" /\ WorkShape(tx[s])
      /\ tx[s].insert = None /\ tx[s].put = None /\ tx[s].update = None /\ tx[s].drop = None
  BY DEF Notify, Shape
<1>3. /\ tx' = [q \in Sessions |-> IF q = s THEN w ELSE tx[q]]
      /\ UNCHANGED <<area, stored, today, serial>>
  BY <1>1 DEF Notify, Shape
<1>4. /\ WorkShape(w) /\ w.tell = {} /\ w.jobs = tx[s].jobs /\ w.state \in {"idle", "after"}
      /\ w.insert = None /\ w.put = None /\ w.update = None /\ w.drop = None
  <2>1. CASE tx[s].jobs = {}
    BY <1>1, <2>1, IdleIs
  <2>2. CASE tx[s].jobs # {}
    <3>1. PICK v : v = tx[s]
      OBVIOUS
    <3>2. w = [v EXCEPT !.tell = {}]
      BY <1>1, <2>2, <3>1
    <3>3. v = [state |-> v.state, insert |-> v.insert, put |-> v.put, update |-> v.update,
         drop |-> v.drop, needs |-> v.needs, tell |-> v.tell, jobs |-> v.jobs]
      BY <1>2, <3>1 DEF WorkShape
    <3>4. w = [state |-> v.state, insert |-> v.insert, put |-> v.put, update |-> v.update,
         drop |-> v.drop, needs |-> v.needs, tell |-> {}, jobs |-> v.jobs]
      BY <3>2, <3>3
    <3> QED
      BY <1>2, <3>1, <3>4 DEF WorkShape
  <2> QED BY <2>1, <2>2
<1>5. PICK rows : rows = [n \in DOMAIN db.notice \cup tx[s].tell |->
                  IF n \in tx[s].tell THEN [read |-> FALSE] ELSE db.notice[n]]
  OBVIOUS
<1>6. db' = [db EXCEPT !.notice = rows]
  BY <1>5 DEF Notify
<1>7. db'.notice = rows /\ DOMAIN db' = DOMAIN db
  BY <1>6 DEF Shape
<1>8. Shape'
  BY <1>3, <1>4, <1>7 DEF Shape, Busy
<1> QED BY <1>2, <1>3, <1>4, <1>5, <1>6, <1>7, <1>8

(* The handler of a request that collects fitting writes keeps the types.  *)
LEMMA TableBegin ==
  ASSUME Shape, NEW t, NEW K, NEW R, TableInv(t, K, R), NEW s \in Sessions, NEW w, NEW objects,
         BeginWith(s, w, objects), WorkShape(w), w.state = "open", Fits(w, t, K, R)
  PROVE  TableStays(t, K, R)
<1>1. /\ tx' = [q \in Sessions |-> IF q = s THEN w ELSE tx[q]] /\ UNCHANGED db
  BY BeginShape
<1>2. Table(t, K, R)'
  BY <1>1 DEF TableInv, Table, Keys
<1> QED
  BY <1>1, <1>2 DEF TableInv, TableStays

(* The end of a request keeps the types of every table.                    *)
LEMMA TableEnd ==
  ASSUME Shape, NEW t \in DOMAIN db, t # "notice", NEW K, NEW R, TableInv(t, K, R), NEW s \in Sessions,
         EndOfRequest(s)
  PROVE  TableStays(t, K, R)
<1>1. CASE Commit(s)
  <2>1. /\ tx' = [q \in Sessions |-> IF q = s THEN Rest(tx[s]) ELSE tx[q]]
        /\ db' = [u \in DOMAIN db |-> Flushed(tx[s], u)]
    BY <1>1, CommitShape
  <2>2. PICK v : v = tx[s]
    OBVIOUS
  <2>3. Fits(v, t, K, R) /\ Table(t, K, R)
    BY <2>2 DEF TableInv
  <2>4. db'[t] = Flushed(v, t)
    BY <2>1, <2>2
  <2>5. Table(t, K, R)'
    BY <2>3, <2>4, FlushedFits DEF Table, Keys
  <2>6. Fits(Rest(tx[s]), t, K, R)
    BY RestIs, IdleFits
  <2> QED
    BY <2>1, <2>5, <2>6 DEF TableInv, TableStays
<1>2. CASE Abort(s)
  <2>1. /\ tx' = [q \in Sessions |-> IF q = s THEN Idle ELSE tx[q]] /\ UNCHANGED db
    BY <1>2, AbortShape
  <2>2. Table(t, K, R)'
    BY <2>1 DEF TableInv, Table, Keys
  <2>3. Fits(Idle, t, K, R)
    BY IdleIs, IdleFits
  <2> QED
    BY <2>1, <2>2, <2>3 DEF TableInv, TableStays
<1>3. CASE Notify(s)
  <2>1. PICK w : /\ tx' = [q \in Sessions |-> IF q = s THEN w ELSE tx[q]]
                 /\ w.insert = None /\ w.put = None /\ w.update = None /\ w.drop = None
    BY <1>3, NotifyShape
  <2>2. db'[t] = db[t]
    <3>1. db' = [db EXCEPT !.notice = db'.notice]
      BY <1>3, NotifyShape
    <3> QED BY <3>1
  <2>3. Table(t, K, R)'
    BY <2>2 DEF TableInv, Table, Keys
  <2>4. Fits(w, t, K, R)
    BY <2>1, IdleFits
  <2> QED
    BY <2>1, <2>3, <2>4 DEF TableInv, TableStays
<1> QED
  BY <1>1, <1>2, <1>3 DEF EndOfRequest

(* A function of one key.                                                  *)
LEMMA OneOf == ASSUME NEW k, NEW v PROVE k :> v = [x \in {k} |-> v] /\ DOMAIN (k :> v) = {k} /\ (k :> v)[k] = v
BY DEF :>

(* A row with columns set has its old columns and their new values.        *)
LEMMA OverIs ==
  ASSUME NEW columns, NEW old
  PROVE  /\ DOMAIN Over(old, columns) = DOMAIN old
         /\ \A c \in DOMAIN old : Over(old, columns)[c] = IF c \in DOMAIN columns THEN columns[c] ELSE old[c]
         /\ Over(old, columns) = [c \in DOMAIN old |-> IF c \in DOMAIN columns THEN columns[c] ELSE old[c]]
BY DEF Over

(* The columns of an update are those whose value changes.                 *)
LEMMA ChangedIs ==
  ASSUME NEW row, NEW columns
  PROVE  /\ DOMAIN Changed(row, columns) \subseteq DOMAIN columns
         /\ \A c \in DOMAIN Changed(row, columns) : Changed(row, columns)[c] = columns[c]
         /\ \A c \in DOMAIN columns : c \notin DOMAIN Changed(row, columns) => row[c] = columns[c]
BY DEF Changed

(* Writes that name files which are stored. *)
FileFits(w, t, objects) ==
   /\ \A k \in DOMAIN Rows(w.insert, t) : /\ "file" \in DOMAIN Rows(w.insert, t)[k]
                                          /\ Rows(w.insert, t)[k].file => <<t, k>> \in objects
   /\ \A k \in DOMAIN Rows(w.update, t) :
         "file" \in DOMAIN Rows(w.update, t)[k] /\ Rows(w.update, t)[k].file => <<t, k>> \in objects
   /\ Rows(w.put, t) = None

FileInv(t) == /\ \A k \in Keys(t) : "file" \in DOMAIN db[t][k] /\ (db[t][k].file => <<t, k>> \in stored)
              /\ \A s \in Sessions : FileFits(tx[s], t, stored)

(* A unit of work without writes names no file.                            *)
LEMMA IdleFile == ASSUME NEW w, w.insert = None, w.put = None, w.update = None, NEW t, NEW objects
   PROVE FileFits(w, t, objects)
BY NoRows DEF FileFits

(* A handler that names only stored files keeps every named file stored.   *)
LEMMA FileBegin ==
  ASSUME Shape, NEW t, FileInv(t), NEW s \in Sessions, NEW w, NEW objects,
         BeginWith(s, w, objects), WorkShape(w), w.state = "open", FileFits(w, t, objects),
         \A k : <<t, k>> \in stored => <<t, k>> \in objects
  PROVE  FileInv(t)'
<1>1. /\ tx' = [q \in Sessions |-> IF q = s THEN w ELSE tx[q]] /\ UNCHANGED db /\ stored' = objects
  BY BeginShape
<1>2. \A q \in Sessions : FileFits(tx[q], t, objects)
  BY DEF FileInv, FileFits
<1>3. \A q \in Sessions : FileFits(tx'[q], t, objects)
  BY <1>1, <1>2
<1>4. \A k \in Keys(t) : "file" \in DOMAIN db[t][k] /\ (db[t][k].file => <<t, k>> \in objects)
  BY DEF FileInv
<1>5. Keys(t)' = Keys(t)
  BY <1>1 DEF Keys
<1> QED
  BY <1>1, <1>3, <1>4, <1>5 DEF FileInv

(* A row after a flush without upserts is new, updated or as it was.       *)
LEMMA FlushNoPut ==
  ASSUME NEW w, NEW t, Rows(w.put, t) = None
  PROVE \A k \in DOMAIN Flushed(w, t) :
          \/ k \in DOMAIN Rows(w.insert, t) /\ Flushed(w, t)[k] = Rows(w.insert, t)[k]
          \/ k \in Keys(t) /\ k \notin DOMAIN Rows(w.insert, t) /\ k \in DOMAIN Rows(w.update, t)
                  /\ Flushed(w, t)[k] = Over(db[t][k], Rows(w.update, t)[k])
          \/ k \in Keys(t) /\ k \notin DOMAIN Rows(w.insert, t) /\ k \notin DOMAIN Rows(w.update, t)
                  /\ Flushed(w, t)[k] = db[t][k]
<1>1. PICK gone : gone = {pair[2] : pair \in {p \in Dropped(w) : p[1] = t}}
  OBVIOUS
<1>2. PICK new, put, columns : new = Rows(w.insert, t) /\ put = Rows(w.put, t) /\ columns = Rows(w.update, t)
  OBVIOUS
<1>3. PICK f : f = Flushed(w, t)
  OBVIOUS
<1>4. f = [k \in ((Keys(t) \ gone) \cup DOMAIN new \cup DOMAIN put) |->
            IF k \in DOMAIN new THEN new[k]
            ELSE IF k \in DOMAIN put
                 THEN IF k \in Keys(t) THEN Over(db[t][k], put[k].set) ELSE put[k].new
            ELSE IF k \in DOMAIN columns THEN Over(db[t][k], columns[k])
            ELSE db[t][k]]
  BY <1>1, <1>2, <1>3 DEF Flushed
<1>5. DOMAIN put = {}
  BY <1>2, NoRows
<1> QED
  BY <1>2, <1>3, <1>4, <1>5

(* The end of a request keeps every named file stored.                     *)
LEMMA FileEnd ==
  ASSUME Shape, NEW t \in DOMAIN db, t # "notice", FileInv(t), NEW s \in Sessions, EndOfRequest(s)
  PROVE  FileInv(t)'
<1>1. CASE Commit(s)
  <2>1. /\ tx' = [q \in Sessions |-> IF q = s THEN Rest(tx[s]) ELSE tx[q]]
        /\ db' = [u \in DOMAIN db |-> Flushed(tx[s], u)] /\ UNCHANGED stored
    BY <1>1, CommitShape
  <2>2. PICK v : v = tx[s]
    OBVIOUS
  <2>3. PICK f, new, cols : f = Flushed(v, t) /\ new = Rows(v.insert, t) /\ cols = Rows(v.update, t)
    OBVIOUS
  <2>4. db'[t] = f
    BY <2>1, <2>2, <2>3
  <2>5. FileFits(v, t, stored)
    BY <2>2 DEF FileInv
  <2>6. ASSUME NEW k \in DOMAIN f PROVE "file" \in DOMAIN f[k] /\ (f[k].file => <<t, k>> \in stored)
    <3>1. CASE k \in DOMAIN new /\ f[k] = new[k]
      BY <2>2, <2>3, <2>5, <3>1 DEF FileFits
    <3>2. CASE k \in Keys(t) /\ f[k] = db[t][k]
      BY <3>2 DEF FileInv
    <3>3. CASE k \in Keys(t) /\ k \in DOMAIN cols /\ f[k] = Over(db[t][k], cols[k])
      <4>1. PICK old, c : old = db[t][k] /\ c = cols[k]
        OBVIOUS
      <4>2. "file" \in DOMAIN old /\ (old.file => <<t, k>> \in stored)
        BY <3>3, <4>1 DEF FileInv
      <4>3. "file" \in DOMAIN c /\ c.file => <<t, k>> \in stored
        BY <2>3, <2>5, <3>3, <4>1 DEF FileFits
      <4>4. f[k] = Over(old, c)
        BY <3>3, <4>1
      <4> QED
        BY <4>2, <4>3, <4>4, OverIs
    <3> QED
      BY <2>3, <2>5, <3>1, <3>2, <3>3, FlushNoPut DEF FileFits
  <2>7. FileFits(Rest(tx[s]), t, stored)
    BY RestIs, IdleFile
  <2> QED
    BY <2>1, <2>4, <2>6, <2>7 DEF FileInv, Keys
<1>2. CASE Abort(s)
  <2>1. /\ tx' = [q \in Sessions |-> IF q = s THEN Idle ELSE tx[q]] /\ UNCHANGED <<db, stored>>
    BY <1>2, AbortShape
  <2>3. FileFits(Idle, t, stored)
    BY IdleIs, IdleFile
  <2> QED
    BY <2>1, <2>3 DEF FileInv, Keys
<1>3. CASE Notify(s)
  <2>1. PICK w : /\ tx' = [q \in Sessions |-> IF q = s THEN w ELSE tx[q]]
                 /\ w.insert = None /\ w.put = None /\ w.update = None /\ w.drop = None
    BY <1>3, NotifyShape
  <2>2. db'[t] = db[t] /\ UNCHANGED stored
    <3>1. db' = [db EXCEPT !.notice = db'.notice] /\ UNCHANGED stored
      BY <1>3, NotifyShape
    <3> QED BY <3>1
  <2>4. FileFits(w, t, stored)
    BY <2>1, IdleFile
  <2> QED
    BY <2>1, <2>2, <2>4 DEF FileInv, Keys
<1> QED
  BY <1>1, <1>2, <1>3 DEF EndOfRequest

NoticeFits(w) == Rows(w.insert, "notice") = None /\ Rows(w.put, "notice") = None

(* What is told after a step was to be told before it. *)
LEMMA NoticeEnd ==
  ASSUME Shape, NEW s \in Sessions, EndOfRequest(s), NoticeFits(tx[s])
  PROVE  /\ \A n \in Keys("notice")' : n \in Keys("notice") \/ (tx[s].state = "after" /\ n \in tx[s].tell)
         /\ \A q \in Sessions : \A n : tx'[q].state = "after" /\ n \in tx'[q].tell =>
                 \/ tx[q].state = "after" /\ n \in tx[q].tell
                 \/ q = s /\ Commit(s) /\ n \in tx[s].tell
<1>1. CASE Commit(s)
  <2>1. /\ tx' = [q \in Sessions |-> IF q = s THEN Rest(tx[s]) ELSE tx[q]]
        /\ db' = [u \in DOMAIN db |-> Flushed(tx[s], u)]
    BY <1>1, CommitShape
  <2>2. PICK v : v = tx[s]
    OBVIOUS
  <2>3. db'["notice"] = Flushed(v, "notice")
    BY <2>1, <2>2 DEF Shape
  <2>4. DOMAIN Rows(v.insert, "notice") = {} /\ Rows(v.put, "notice") = None
    BY <2>2, NoRows DEF NoticeFits
  <2>5. \A n \in DOMAIN Flushed(v, "notice") : n \in Keys("notice")
    BY <2>4, FlushNoPut
  <2>6. \A n \in Keys("notice")' : n \in Keys("notice")
    BY <2>3, <2>5 DEF Keys
  <2> QED
    BY <1>1, <2>1, <2>6, RestIs
<1>2. CASE Abort(s)
  <2>1. /\ tx' = [q \in Sessions |-> IF q = s THEN Idle ELSE tx[q]] /\ UNCHANGED <<db, stored>>
    BY <1>2, AbortShape
  <2> QED
    BY <2>1, IdleIs DEF Keys
<1>3. CASE Notify(s)
  <2>1. PICK w : /\ tx' = [q \in Sessions |-> IF q = s THEN w ELSE tx[q]]
                 /\ w.tell = {}
    BY <1>3, NotifyShape
  <2>2. tx[s].state = "after" /\ DOMAIN db'.notice = DOMAIN db.notice \cup tx[s].tell
    BY <1>3, NotifyShape
  <2>3. Keys("notice")' = Keys("notice") \cup tx[s].tell
    BY <2>2 DEF Keys
  <2> QED
    BY <2>1, <2>2, <2>3
<1> QED
  BY <1>1, <1>2, <1>3 DEF EndOfRequest

(* A step of a session at its end changes the tables only in a commit. *)
LEMMA OnlyCommits ==
  ASSUME Shape, NEW s \in Sessions, EndOfRequest(s), NEW t \in DOMAIN db, t # "notice"
  PROVE  /\ DOMAIN db' = DOMAIN db
         /\ \/ Commit(s) /\ db'[t] = Flushed(tx[s], t) /\ tx[s].state = "open"
            \/ ~Commit(s) /\ db'[t] = db[t]
<1>1. CASE Commit(s)
  BY <1>1, CommitShape
<1>2. CASE Abort(s) /\ ~Commit(s)
  BY <1>2, AbortShape
<1>3. CASE Notify(s) /\ ~Commit(s)
  <2>1. db' = [db EXCEPT !.notice = db'.notice]
    BY <1>3, NotifyShape
  <2> QED BY <1>3, <2>1
<1> QED
  BY <1>1, <1>2, <1>3 DEF EndOfRequest

(* The units of work after a step at the end of one are as before, or have *)
(* nothing more to write. *)
LEMMA WorksAtEnd ==
  ASSUME Shape, NEW s \in Sessions, EndOfRequest(s)
  PROVE  /\ Shape' /\ UNCHANGED <<area, stored, today, serial>>
         /\ \A q \in Sessions :
              \/ q # s /\ tx'[q] = tx[q]
              \/ /\ q = s /\ tx'[q].insert = None /\ tx'[q].put = None /\ tx'[q].update = None
                 /\ tx'[q].drop = None /\ tx'[q].state \in {"idle", "after"}
                 /\ tx'[q].jobs = {} \/ tx'[q].jobs = tx[s].jobs
<1>1. CASE Commit(s)
  BY <1>1, CommitShape, RestIs
<1>2. CASE Abort(s)
  BY <1>2, AbortShape, IdleIs
<1>3. CASE Notify(s)
  <2>1. PICK w : /\ tx' = [q \in Sessions |-> IF q = s THEN w ELSE tx[q]]
                   /\ w.tell = {} /\ w.jobs = tx[s].jobs /\ w.state \in {"idle", "after"}
                   /\ w.insert = None /\ w.put = None /\ w.update = None /\ w.drop = None
    BY <1>3, NotifyShape
  <2> QED BY <1>3, <2>1, NotifyShape
<1> QED
  BY <1>1, <1>2, <1>3 DEF EndOfRequest

(* No row is lost in the flush of a unit of work that drops none. *)
LEMMA NothingDropped ==
  ASSUME NEW w, w.drop = None, NEW t
  PROVE  /\ Keys(t) \subseteq DOMAIN Flushed(w, t)
         /\ DOMAIN Rows(w.insert, t) \subseteq DOMAIN Flushed(w, t)
         /\ DOMAIN Flushed(w, t) = Keys(t) \cup DOMAIN Rows(w.insert, t) \cup DOMAIN Rows(w.put, t)
<1>0. PICK v : v = Rows(w.insert, t) OBVIOUS
<1>z. PICK o : o = Rows(w.put, t) OBVIOUS
<1>1. UNION {{<<u, k>> : k \in w.drop[u]} : u \in DOMAIN w.drop} = {}
  BY NoRows
<1>2. \A u : OfOne(w, u, {}) = {}
  BY DEF OfOne
<1>3. Below(w, {}) = {}
  BY <1>2 DEF Below
<1>4. Dropped(w) = {}
  BY <1>1, <1>3 DEF Dropped
<1>5. {pair[2] : pair \in {p \in Dropped(w) : p[1] = t}} = {}
  BY <1>4
<1>6. DOMAIN Flushed(w, t) = (Keys(t) \ {}) \cup DOMAIN v \cup DOMAIN o
  BY <1>0, <1>z, <1>5 DEF Flushed
<1> QED
  BY <1>0, <1>z, <1>6

(* A handler opens a unit of work, and the objects there are now. *)
Opens(s, w, objects) == BeginWith(s, w, objects) /\ WorkShape(w) /\ w.state = "open"

(* A unit of work starts empty.                                            *)
LEMMA WorkIs ==
   /\ Work.state = "open" /\ Work.insert = None /\ Work.put = None /\ Work.update = None
   /\ Work.drop = None /\ Work.needs = {} /\ Work.tell = {} /\ Work.jobs = {}
   /\ WorkShape(Work)
BY DEF Work, Idle, WorkShape
(* What the flush of a unit of work makes of a table that it only inserts  *)
(* into and updates, or only puts into.                                    *)
LEMMA PlainFlush ==
  ASSUME NEW w, w.drop = None, NEW t, Rows(w.put, t) = None
  PROVE  /\ DOMAIN Flushed(w, t) = Keys(t) \cup DOMAIN Rows(w.insert, t)
         /\ \A k \in DOMAIN Flushed(w, t) : Flushed(w, t)[k] =
               IF k \in DOMAIN Rows(w.insert, t) THEN Rows(w.insert, t)[k]
               ELSE IF k \in DOMAIN Rows(w.update, t) THEN Over(db[t][k], Rows(w.update, t)[k])
               ELSE db[t][k]
<1>1. PICK gone : gone = {pair[2] : pair \in {p \in Dropped(w) : p[1] = t}}
  OBVIOUS
<1>2. PICK new, put, columns : new = Rows(w.insert, t) /\ put = Rows(w.put, t) /\ columns = Rows(w.update, t)
  OBVIOUS
<1>3. PICK f : f = Flushed(w, t)
  OBVIOUS
<1>4. f = [k \in ((Keys(t) \ gone) \cup DOMAIN new \cup DOMAIN put) |->
            IF k \in DOMAIN new THEN new[k]
            ELSE IF k \in DOMAIN put
                 THEN IF k \in Keys(t) THEN Over(db[t][k], put[k].set) ELSE put[k].new
            ELSE IF k \in DOMAIN columns THEN Over(db[t][k], columns[k])
            ELSE db[t][k]]
  BY <1>1, <1>2, <1>3 DEF Flushed
<1>5. DOMAIN put = {}
  BY <1>2, NoRows
<1>6. (Keys(t) \ gone) \cup DOMAIN new \cup DOMAIN put = Keys(t) \cup DOMAIN new
  BY <1>2, <1>3, <1>4, <1>5, NothingDropped
<1>7. f = [k \in Keys(t) \cup DOMAIN new |->
            IF k \in DOMAIN new THEN new[k]
            ELSE IF k \in DOMAIN columns THEN Over(db[t][k], columns[k])
            ELSE db[t][k]]
  BY <1>4, <1>5, <1>6
<1> QED BY <1>2, <1>3, <1>7

(* What the flush makes of a table that is only put into.                  *)
LEMMA PutFlush ==
  ASSUME NEW w, w.drop = None, NEW t, Rows(w.insert, t) = None, Rows(w.update, t) = None
  PROVE  /\ DOMAIN Flushed(w, t) = Keys(t) \cup DOMAIN Rows(w.put, t)
         /\ \A k \in DOMAIN Flushed(w, t) : Flushed(w, t)[k] =
               IF k \in DOMAIN Rows(w.put, t)
               THEN IF k \in Keys(t) THEN Over(db[t][k], Rows(w.put, t)[k].set) ELSE Rows(w.put, t)[k].new
               ELSE db[t][k]
<1>1. PICK gone : gone = {pair[2] : pair \in {p \in Dropped(w) : p[1] = t}}
  OBVIOUS
<1>2. PICK new, put, columns : new = Rows(w.insert, t) /\ put = Rows(w.put, t) /\ columns = Rows(w.update, t)
  OBVIOUS
<1>3. PICK f : f = Flushed(w, t)
  OBVIOUS
<1>4. f = [k \in ((Keys(t) \ gone) \cup DOMAIN new \cup DOMAIN put) |->
            IF k \in DOMAIN new THEN new[k]
            ELSE IF k \in DOMAIN put
                 THEN IF k \in Keys(t) THEN Over(db[t][k], put[k].set) ELSE put[k].new
            ELSE IF k \in DOMAIN columns THEN Over(db[t][k], columns[k])
            ELSE db[t][k]]
  BY <1>1, <1>2, <1>3 DEF Flushed
<1>5. DOMAIN new = {} /\ DOMAIN columns = {}
  BY <1>2, NoRows
<1>6. (Keys(t) \ gone) \cup DOMAIN new \cup DOMAIN put = Keys(t) \cup DOMAIN put
  BY <1>2, <1>3, <1>4, <1>5, NothingDropped
<1>7. f = [k \in Keys(t) \cup DOMAIN put |->
            IF k \in DOMAIN put
            THEN IF k \in Keys(t) THEN Over(db[t][k], put[k].set) ELSE put[k].new
            ELSE db[t][k]]
  BY <1>4, <1>5, <1>6
<1> QED BY <1>2, <1>3, <1>7

(* The columns of an update that are left out are as they were.            *)
LEMMA OverChanged ==
  ASSUME NEW row, NEW columns
  PROVE  Over(row, Changed(row, columns)) = Over(row, columns)
BY DEF Over, Changed

(* Notices of one kind name rows that there are, or that the unit of work  *)
(* inserts with them.                                                      *)
HeadFits(w, head, t) ==
    /\ w.drop = None /\ Rows(w.insert, "notice") = None
    /\ \A n \in w.tell \cup DOMAIN Rows(w.put, "notice") : n[1] = head =>
          n[2] \in Keys(t) \/ (w.state = "open" /\ n[2] \in DOMAIN Rows(w.insert, t))
HeadInv(head, t) ==
    /\ \A n \in Keys("notice") : n[1] = head => n[2] \in Keys(t)
    /\ \A s \in Sessions : HeadFits(tx[s], head, t)

(* A handler that tells of rows there are, or of its own, keeps notices    *)
(* true.                                                                   *)
LEMMA HeadBegin ==
  ASSUME Shape, NEW head, NEW t, HeadInv(head, t), NEW s \in Sessions, NEW w, NEW objects,
         BeginWith(s, w, objects), WorkShape(w), w.state = "open", HeadFits(w, head, t)
  PROVE  HeadInv(head, t)'
<1>1. /\ tx' = [q \in Sessions |-> IF q = s THEN w ELSE tx[q]] /\ UNCHANGED db
  BY BeginShape
<1>2. Keys(t)' = Keys(t) /\ Keys("notice")' = Keys("notice")
  BY <1>1 DEF Keys
<1>3. ASSUME NEW q \in Sessions PROVE HeadFits(tx[q], head, t)'
  <2>1. PICK v : v = IF q = s THEN w ELSE tx[q]
    OBVIOUS
  <2>2. HeadFits(v, head, t)
    BY <2>1 DEF HeadInv
  <2>3. HeadFits(v, head, t)'
    BY <1>2, <2>2 DEF HeadFits
  <2>4. tx[q]' = v
    BY <1>1, <2>1
  <2> QED BY <2>3, <2>4
<1> QED
  BY <1>2, <1>3 DEF HeadInv

(* The end of a request keeps notices true, and the rows they are about.   *)
LEMMA HeadEnd ==
  ASSUME Shape, NEW head, NEW t \in DOMAIN db, t # "notice", HeadInv(head, t), NEW s \in Sessions,
         EndOfRequest(s)
  PROVE  HeadInv(head, t)' /\ Keys(t) \subseteq Keys(t)'
<1>1. PICK v : v = tx[s]
  OBVIOUS
<1>2. HeadFits(v, head, t)
  BY <1>1 DEF HeadInv
<1>3. /\ Keys(t) \subseteq Keys(t)'
      /\ Commit(s) => DOMAIN Rows(v.insert, t) \subseteq Keys(t)' /\ v.state = "open"
  <2>1. CASE Commit(s)
    <3>1. db'[t] = Flushed(v, t) /\ v.state = "open"
      BY <1>1, <2>1, CommitShape
    <3>2. Keys(t) \subseteq DOMAIN Flushed(v, t) /\ DOMAIN Rows(v.insert, t) \subseteq DOMAIN Flushed(v, t)
      BY <1>2, NothingDropped DEF HeadFits
    <3> QED BY <3>1, <3>2 DEF Keys
  <2>2. CASE ~Commit(s)
    BY <2>2, OnlyCommits DEF Keys
  <2> QED BY <2>1, <2>2
<1>4. \A q \in Sessions : \/ q # s /\ tx'[q] = tx[q]
                          \/ q = s /\ tx'[q].insert = None /\ tx'[q].put = None /\ tx'[q].drop = None
  BY WorksAtEnd
<1>5. \A n \in Keys("notice")' :
          n \in Keys("notice") \/ n \in v.tell \/ (Commit(s) /\ n \in DOMAIN Rows(v.put, "notice"))
  <2>1. CASE Commit(s)
    <3>1. db'["notice"] = Flushed(v, "notice")
      BY <1>1, <2>1, CommitShape DEF Shape
    <3>2. DOMAIN Rows(v.insert, "notice") = {}
      BY <1>2, NoRows DEF HeadFits
    <3>3. DOMAIN Flushed(v, "notice") = Keys("notice") \cup DOMAIN Rows(v.insert, "notice") \cup DOMAIN Rows(v.put, "notice")
      BY <1>2, NothingDropped DEF HeadFits
    <3> QED BY <2>1, <3>1, <3>2, <3>3 DEF Keys
  <2>2. CASE Abort(s)
    BY <2>2, AbortShape DEF Keys
  <2>3. CASE Notify(s)
    BY <1>1, <2>3, NotifyShape DEF Keys
  <2> QED BY <2>1, <2>2, <2>3 DEF EndOfRequest
<1>6. \A n : n \in tx'[s].tell => n \in v.tell /\ (Commit(s) \/ v.state # "open")
  <2>1. CASE Commit(s)
    BY <1>1, <2>1, CommitShape, RestIs
  <2>2. CASE Abort(s)
    BY <2>2, AbortShape, IdleIs
  <2>3. CASE Notify(s)
    BY <1>1, <2>3, NotifyShape
  <2> QED BY <2>1, <2>2, <2>3 DEF EndOfRequest
<1>7. \A n : n \in v.tell \cup DOMAIN Rows(v.put, "notice") /\ n[1] = head /\ (Commit(s) \/ v.state # "open")
             => n[2] \in Keys(t)'
  BY <1>2, <1>3 DEF HeadFits
<1>8. \A n \in Keys("notice")' : n[1] = head => n[2] \in Keys(t)'
  <2>1. Commit(s) \/ v.state # "open" \/ Abort(s)
    BY <1>1, NotifyShape DEF EndOfRequest
  <2>2. Abort(s) => Keys("notice")' = Keys("notice")
    BY AbortShape DEF Keys
  <2> QED BY <1>3, <1>5, <1>7, <2>1, <2>2 DEF HeadInv
<1>9. ASSUME NEW q \in Sessions PROVE HeadFits(tx[q], head, t)'
  <2>1. CASE q # s /\ tx'[q] = tx[q]
    <3>1. HeadFits(tx[q], head, t)
      BY DEF HeadInv
    <3> QED BY <1>3, <2>1, <3>1 DEF HeadFits
  <2>2. CASE q = s /\ tx'[q].insert = None /\ tx'[q].put = None /\ tx'[q].drop = None
    <3>1. PICK w : w = tx'[q]
      OBVIOUS
    <3>2. DOMAIN Rows(w.put, "notice") = {} /\ Rows(w.insert, "notice") = None
      BY <2>2, <3>1, NoRows
    <3>3. \A n \in w.tell : n[1] = head => n[2] \in Keys(t)'
      BY <1>6, <1>7, <2>2, <3>1
    <3>4. HeadFits(w, head, t)'
      BY <2>2, <3>1, <3>2, <3>3 DEF HeadFits
    <3> QED BY <3>1, <3>4
  <2> QED BY <1>4, <2>1, <2>2
<1> QED BY <1>3, <1>8, <1>9 DEF HeadInv

(* The keys of a table stay with the rows.                                 *)
LEMMA KeysSame == ASSUME UNCHANGED db, NEW t PROVE Keys(t)' = Keys(t) BY DEF Keys

(* The rows below a set of rows stay with the tables.                      *)
LEMMA OfOneSame == ASSUME UNCHANGED db, NEW w, NEW t, NEW S PROVE OfOne(w, t, S)' = OfOne(w, t, S)
BY DEF OfOne, Owner, Keys

(* A set with the rows below it stays with the tables.                     *)
LEMMA BelowSame == ASSUME UNCHANGED db, NEW w, NEW S PROVE Below(w, S)' = Below(w, S)
<1>1. \A t : OfOne(w, t, S)' = OfOne(w, t, S)
  BY OfOneSame
<1> QED BY <1>1 DEF Below

(* The flush of a unit of work stays what it was while no row changes.     *)
LEMMA FlushedSame ==
  ASSUME UNCHANGED db, NEW w, NEW t PROVE Flushed(w, t)' = Flushed(w, t)
<1>1. \A S : Below(w, S)' = Below(w, S)
  BY BelowSame
<1>2. PICK a : a = UNION {{<<u, k>> : k \in w.drop[u]} : u \in DOMAIN w.drop}
  OBVIOUS
<1>3. Dropped(w)' = Dropped(w)
  BY <1>1, <1>2 DEF Dropped
<1>4. Keys(t)' = Keys(t)
  BY KeysSame
<1> QED BY <1>3, <1>4 DEF Flushed

(* One at a time: at the end of a request all is committed, or nothing.    *)
LEMMA SerialEnd ==
  ASSUME Shape, serial, NEW s \in Sessions, EndOfRequest(s)
  PROVE  \/ /\ Commit(s) /\ tx[s].state = "open" /\ db' = [t \in DOMAIN db |-> Flushed(tx[s], t)]
            /\ \A q \in Sessions : tx'[q].state # "open"
         \/ /\ ~Commit(s) /\ (Notify(s) \/ db' = db)
            /\ \A t \in DOMAIN db : t # "notice" => db'[t] = db[t]
            /\ \A q \in Sessions : tx'[q].state = "open" => tx'[q] = tx[q]
<1>1. CASE Commit(s)
  <2>1. /\ tx[s].state = "open" /\ db' = [t \in DOMAIN db |-> Flushed(tx[s], t)]
        /\ tx' = [q \in Sessions |-> IF q = s THEN Rest(tx[s]) ELSE tx[q]]
    BY <1>1, CommitShape
  <2>2. \A q \in Sessions : tx[q].state = "open" => q = s
    BY <2>1 DEF Shape, Busy
  <2> QED BY <1>1, <2>1, <2>2, RestIs
<1>2. CASE ~Commit(s)
  <2>1. \A q \in Sessions : tx'[q].state = "open" => tx'[q] = tx[q]
    BY WorksAtEnd
  <2>2. \A t \in DOMAIN db : t # "notice" => db'[t] = db[t]
    BY <1>2, OnlyCommits
  <2>3. Notify(s) \/ db' = db
    BY <1>2 DEF EndOfRequest, Abort
  <2> QED BY <1>2, <2>1, <2>2, <2>3
<1> QED BY <1>1, <1>2

(* The keys after a flush were there, are inserted or are put.             *)
LEMMA FlushedKeys ==
  ASSUME NEW w, NEW t
  PROVE  DOMAIN Flushed(w, t) \subseteq Keys(t) \cup DOMAIN Rows(w.insert, t) \cup DOMAIN Rows(w.put, t)
<1>1. PICK gone, new, put : /\ gone = {pair[2] : pair \in {p \in Dropped(w) : p[1] = t}}
                            /\ new = Rows(w.insert, t) /\ put = Rows(w.put, t)
  OBVIOUS
<1>2. DOMAIN Flushed(w, t) = (Keys(t) \ gone) \cup DOMAIN new \cup DOMAIN put
  BY <1>1 DEF Flushed
<1> QED BY <1>1, <1>2

(* All notices, written and to be written, are of some kinds, and none has *)
(* an owner.                                                               *)
OnlyFits(w, heads) ==
    /\ Rows(w.insert, "notice") = None
    /\ \A n \in w.tell \cup DOMAIN Rows(w.put, "notice") : n[1] \in heads
    /\ \A n \in DOMAIN Rows(w.put, "notice") : "of" \notin DOMAIN Rows(w.put, "notice")[n].new
OnlyInv(heads) == /\ \A n \in Keys("notice") : n[1] \in heads
                  /\ \A n \in Keys("notice") : "of" \notin DOMAIN db["notice"][n]
                  /\ \A s \in Sessions : OnlyFits(tx[s], heads)

(* A handler that tells only of some heads keeps notices to those heads.   *)
LEMMA OnlyBegin ==
  ASSUME Shape, NEW heads, OnlyInv(heads), NEW s \in Sessions, NEW w, NEW objects,
         BeginWith(s, w, objects), WorkShape(w), w.state = "open", OnlyFits(w, heads)
  PROVE  OnlyInv(heads)'
<1>1. /\ tx' = [q \in Sessions |-> IF q = s THEN w ELSE tx[q]] /\ UNCHANGED db
  BY BeginShape
<1>2. Keys("notice")' = Keys("notice")
  BY <1>1 DEF Keys
<1>3. \A q \in Sessions : OnlyFits(tx'[q], heads)
  BY <1>1 DEF OnlyInv
<1> QED BY <1>1, <1>2, <1>3 DEF OnlyInv, OnlyFits

(* The end of a request keeps notices to the heads that handlers tell of.  *)
LEMMA OnlyEnd ==
  ASSUME Shape, NEW heads, OnlyInv(heads), NEW s \in Sessions, EndOfRequest(s)
  PROVE  OnlyInv(heads)'
<1>1. PICK v : v = tx[s]
  OBVIOUS
<1>2. OnlyFits(v, heads)
  BY <1>1 DEF OnlyInv
<1>3. ASSUME NEW n \in Keys("notice")'
      PROVE  /\ n \in Keys("notice") \/ n \in v.tell \/ n \in DOMAIN Rows(v.put, "notice")
             /\ "of" \notin DOMAIN db'["notice"][n]
  <2>1. CASE Commit(s)
    <3>0. PICK f, put, cols : f = Flushed(v, "notice") /\ put = Rows(v.put, "notice") /\ cols = Rows(v.update, "notice")
      OBVIOUS
    <3>1. db'["notice"] = f /\ n \in DOMAIN f
      BY <1>1, <2>1, <3>0, CommitShape DEF Shape, Keys
    <3>2. Rows(v.insert, "notice") = None /\ DOMAIN None = {}
      BY <1>2, NoRows DEF OnlyFits
    <3>3. f[n] = IF n \in DOMAIN put
                 THEN IF n \in Keys("notice") THEN Over(db["notice"][n], put[n].set) ELSE put[n].new
                 ELSE IF n \in DOMAIN cols THEN Over(db["notice"][n], cols[n])
                 ELSE db["notice"][n]
      BY <3>0, <3>1, <3>2 DEF Flushed
    <3>4. n \in Keys("notice") \/ n \in DOMAIN put
      BY <3>0, <3>1, <3>2, FlushedKeys
    <3>5. n \in Keys("notice") => "of" \notin DOMAIN db["notice"][n]
      BY DEF OnlyInv
    <3>6. n \in DOMAIN put => "of" \notin DOMAIN put[n].new
      BY <1>2, <3>0 DEF OnlyFits
    <3>7. "of" \notin DOMAIN f[n]
      <4>1. PICK old, a, b : old = db["notice"][n] /\ a = put[n].set /\ b = cols[n]
        OBVIOUS
      <4>2. DOMAIN Over(old, a) = DOMAIN old /\ DOMAIN Over(old, b) = DOMAIN old
        BY OverIs
      <4> QED BY <3>3, <3>4, <3>5, <3>6, <4>1, <4>2
    <3> QED BY <3>0, <3>1, <3>4, <3>7
  <2>2. CASE Abort(s)
    BY <1>3, <2>2, AbortShape DEF Keys, OnlyInv
  <2>3. CASE Notify(s)
    <3>1. n \in Keys("notice") \cup v.tell
      BY <1>1, <1>3, <2>3, NotifyShape DEF Keys
    <3>2. db'["notice"][n] = IF n \in v.tell THEN [read |-> FALSE] ELSE db["notice"][n]
      BY <1>1, <1>3, <2>3, NotifyShape DEF Keys
    <3>3. n \in Keys("notice") => "of" \notin DOMAIN db["notice"][n]
      BY DEF OnlyInv
    <3>4. "of" \notin DOMAIN [read |-> FALSE]
      OBVIOUS
    <3> QED BY <3>1, <3>2, <3>3, <3>4
  <2> QED BY <2>1, <2>2, <2>3 DEF EndOfRequest
<1>4. \A n \in tx'[s].tell : n \in v.tell
  <2>1. CASE Commit(s)
    BY <1>1, <2>1, CommitShape, RestIs
  <2>2. CASE Abort(s)
    BY <2>2, AbortShape, IdleIs
  <2>3. CASE Notify(s)
    BY <1>1, <2>3, NotifyShape
  <2> QED BY <2>1, <2>2, <2>3 DEF EndOfRequest
<1>5. \A q \in Sessions : \/ q # s /\ tx'[q] = tx[q]
                          \/ q = s /\ tx'[q].insert = None /\ tx'[q].put = None
  BY WorksAtEnd
<1>6. ASSUME NEW q \in Sessions PROVE OnlyFits(tx'[q], heads)
  <2>1. CASE q # s /\ tx'[q] = tx[q]
    BY <2>1 DEF OnlyInv
  <2>2. CASE q = s /\ tx'[q].insert = None /\ tx'[q].put = None
    BY <1>2, <1>4, <2>2, NoRows DEF OnlyFits
  <2> QED BY <1>5, <2>1, <2>2
<1> QED BY <1>2, <1>3, <1>6 DEF OnlyInv, OnlyFits

(* Notices belong to nothing, so that what a unit of work makes of the     *)
(* other tables does not depend on them.                                   *)
LEMMA FlushedNotified ==
  ASSUME Shape, NEW heads, OnlyInv(heads), NEW s \in Sessions, Notify(s),
         NEW w, NEW t \in DOMAIN db, t # "notice"
  PROVE  Flushed(w, t)' = Flushed(w, t)
<1>1. /\ DOMAIN db' = DOMAIN db /\ \A u \in DOMAIN db : u # "notice" => db'[u] = db[u]
  <2>1. PICK rows : rows = db'.notice
    OBVIOUS
  <2>2. db' = [db EXCEPT !.notice = rows]
    BY <2>1, NotifyShape
  <2> QED BY <2>2
<1>2. \A n \in Keys("notice") : "of" \notin DOMAIN db["notice"][n]
  BY DEF OnlyInv
<1>3. \A n \in Keys("notice")' : "of" \notin DOMAIN db'["notice"][n]
  BY OnlyEnd DEF EndOfRequest, OnlyInv
<1>4. ASSUME NEW u \in DOMAIN db, NEW S PROVE OfOne(w, u, S)' = OfOne(w, u, S)
  <2>1. CASE u = "notice"
    BY <1>2, <1>3, <2>1 DEF OfOne
  <2>2. CASE u # "notice"
    BY <1>1, <2>2 DEF OfOne, Owner, Keys
  <2> QED BY <2>1, <2>2
<1>5. ASSUME NEW S PROVE Below(w, S)' = Below(w, S)
  BY <1>1, <1>4 DEF Below
<1>6. PICK a : a = UNION {{<<u, k>> : k \in w.drop[u]} : u \in DOMAIN w.drop}
  OBVIOUS
<1>7. Dropped(w)' = Dropped(w)
  BY <1>5, <1>6 DEF Dropped
<1>8. db'[t] = db[t] /\ Keys(t)' = Keys(t)
  BY <1>1 DEF Keys
<1> QED BY <1>7, <1>8 DEF Flushed

(* One at a time: what is open at the end of another request was open      *)
(* before, and makes the same of the tables.                               *)
LEMMA SerialOpen ==
  ASSUME Shape, NEW heads, OnlyInv(heads), serial, NEW s \in Sessions, EndOfRequest(s), ~Commit(s),
         NEW q \in Sessions, tx'[q].state = "open", NEW t \in DOMAIN db, t # "notice"
  PROVE  Busy(q) /\ Flushed(tx[q], t)' = Flushed(tx[q], t)
<1>1. PICK v : v = tx[q]
  OBVIOUS
<1>2. tx'[q] = v /\ (Notify(s) \/ db' = db)
  BY <1>1, SerialEnd
<1>3. Flushed(v, t)' = Flushed(v, t)
  BY <1>2, FlushedSame, FlushedNotified
<1>4. tx[q]' = v
  BY <1>2
<1> QED BY <1>1, <1>2, <1>3, <1>4 DEF Busy

(* What a unit of work drops stays within a set that holds what it names   *)
(* and every row whose owner is in it. *)
Holds(w, Z) == \A t \in DOMAIN w.drop : \A k \in w.drop[t] : <<t, k>> \in Z
HoldsBelow(w, Z) == \A t \in DOMAIN db : \A k \in Keys(t) :
                       "of" \in DOMAIN db[t][k] /\ Owner(w, t, k) \in Z => <<t, k>> \in Z

(* What is dropped is in every set closed under the rows below.            *)
LEMMA DroppedWithin ==
  ASSUME NEW w, NEW Z, Holds(w, Z), HoldsBelow(w, Z)
  PROVE  Dropped(w) \subseteq Z
<1>1. PICK base : base = UNION {{<<t, k>> : k \in w.drop[t]} : t \in DOMAIN w.drop}
  OBVIOUS
<1>2. base \subseteq Z
  BY <1>1 DEF Holds
<1>3. ASSUME NEW S, S \subseteq Z PROVE Below(w, S) \subseteq Z
  BY <1>3 DEF Below, OfOne, HoldsBelow
<1>4. Below(w, base) \subseteq Z
  BY <1>2, <1>3
<1>5. Below(w, Below(w, base)) \subseteq Z
  BY <1>3, <1>4
<1>6. Below(w, Below(w, Below(w, base))) \subseteq Z
  BY <1>3, <1>5
<1> QED BY <1>1, <1>6 DEF Dropped

(* The rows that are dropped, and those one and two levels below them.     *)
Top(w) == UNION {{<<t, k>> : k \in w.drop[t]} : t \in DOMAIN w.drop}

(* A row that is dropped takes the rows one and two levels below it.       *)
LEMMA DroppedUnder ==
  ASSUME NEW w, NEW t \in DOMAIN w.drop, NEW k \in w.drop[t]
  PROVE  /\ <<t, k>> \in Dropped(w)
         /\ \A u \in DOMAIN db : \A j \in Keys(u) :
               "of" \in DOMAIN db[u][j] /\ Owner(w, u, j) = <<t, k>> =>
                  /\ <<u, j>> \in Dropped(w)
                  /\ \A v \in DOMAIN db : \A i \in Keys(v) :
                        "of" \in DOMAIN db[v][i] /\ Owner(w, v, i) = <<u, j>> => <<v, i>> \in Dropped(w)
<1>1. PICK top, one, two : top = Top(w) /\ one = Below(w, top) /\ two = Below(w, one)
  OBVIOUS
<1>2. Dropped(w) = Below(w, two)
  BY <1>1 DEF Dropped, Top
<1>3. \A S : S \subseteq Below(w, S)
  BY DEF Below
<1>4. ASSUME NEW S, NEW u \in DOMAIN db, NEW j \in Keys(u), "of" \in DOMAIN db[u][j], Owner(w, u, j) \in S
      PROVE  <<u, j>> \in Below(w, S)
  <2>1. j \in OfOne(w, u, S)
    BY <1>4 DEF OfOne
  <2> QED BY <2>1 DEF Below
<1>5. <<t, k>> \in top /\ top \subseteq one /\ one \subseteq two /\ two \subseteq Dropped(w)
  <2>1. <<t, k>> \in top
    BY <1>1 DEF Top
  <2> QED BY <1>1, <1>2, <1>3, <2>1
<1>6. ASSUME NEW u \in DOMAIN db, NEW j \in Keys(u), "of" \in DOMAIN db[u][j], Owner(w, u, j) = <<t, k>>
      PROVE  /\ <<u, j>> \in one
             /\ \A v \in DOMAIN db : \A i \in Keys(v) :
                   "of" \in DOMAIN db[v][i] /\ Owner(w, v, i) = <<u, j>> => <<v, i>> \in two
  <2>1. <<u, j>> \in one
    BY <1>1, <1>4, <1>5, <1>6
  <2> QED BY <1>1, <1>4, <2>1
<1> QED BY <1>5, <1>6

(* What is dropped are pairs of a table and a key. *)
LEMMA PairsDropped ==
  ASSUME NEW w PROVE \A pair \in Dropped(w) : \E u, j : pair = <<u, j>>
<1>1. PICK top, one, two : top = Top(w) /\ one = Below(w, top) /\ two = Below(w, one)
  OBVIOUS
<1>2. Dropped(w) = Below(w, two)
  BY <1>1 DEF Dropped, Top
<1>3. \A pair \in top : \E u, j : pair = <<u, j>>
  BY <1>1 DEF Top
<1>4. ASSUME NEW S, \A pair \in S : \E u, j : pair = <<u, j>> PROVE \A pair \in Below(w, S) : \E u, j : pair = <<u, j>>
  BY <1>4 DEF Below
<1> QED BY <1>1, <1>2, <1>3, <1>4

(* The keys of a table that a flush leaves.                                *)
LEMMA FlushedDomain ==
  ASSUME NEW w, NEW t
  PROVE  DOMAIN Flushed(w, t) = {k \in Keys(t) : <<t, k>> \notin Dropped(w)}
                                \cup DOMAIN Rows(w.insert, t) \cup DOMAIN Rows(w.put, t)
<1>1. PICK gone, new, put : /\ gone = {pair[2] : pair \in {p \in Dropped(w) : p[1] = t}}
                            /\ new = Rows(w.insert, t) /\ put = Rows(w.put, t)
  OBVIOUS
<1>2. DOMAIN Flushed(w, t) = (Keys(t) \ gone) \cup DOMAIN new \cup DOMAIN put
  BY <1>1 DEF Flushed
<1>3. \A k : <<t, k>> \in Dropped(w) => k \in gone
  BY <1>1
<1>4. ASSUME NEW k \in gone PROVE <<t, k>> \in Dropped(w)
  <2>1. PICK pair \in Dropped(w) : pair[1] = t /\ pair[2] = k
    BY <1>1
  <2>2. \E u, j : pair = <<u, j>>
    BY PairsDropped
  <2> QED BY <2>1, <2>2
<1> QED BY <1>1, <1>2, <1>3, <1>4

(* What a flush makes of a table that is only inserted into, only updated, *)
(* or only lost rows of.                                                   *)
LEMMA InsertFlush ==
  ASSUME NEW w, w.drop = None, NEW t, Rows(w.put, t) = None, Rows(w.update, t) = None
  PROVE  /\ DOMAIN Flushed(w, t) = Keys(t) \cup DOMAIN Rows(w.insert, t)
         /\ \A k \in DOMAIN Rows(w.insert, t) : Flushed(w, t)[k] = Rows(w.insert, t)[k]
         /\ \A k \in Keys(t) : k \notin DOMAIN Rows(w.insert, t) => Flushed(w, t)[k] = db[t][k]
<1>1. DOMAIN None = {}
  BY NoRows
<1>2. DOMAIN Flushed(w, t) = Keys(t) \cup DOMAIN Rows(w.insert, t)
  BY PlainFlush
<1> QED BY <1>1, <1>2, FlushNoPut

(* What the flush makes of a table that is only updated.                   *)
LEMMA UpdateFlush ==
  ASSUME NEW w, w.drop = None, NEW t, Rows(w.put, t) = None, Rows(w.insert, t) = None
  PROVE  /\ DOMAIN Flushed(w, t) = Keys(t)
         /\ \A k \in DOMAIN Rows(w.update, t) : k \in Keys(t) => Flushed(w, t)[k] = Over(db[t][k], Rows(w.update, t)[k])
         /\ \A k \in Keys(t) : k \notin DOMAIN Rows(w.update, t) => Flushed(w, t)[k] = db[t][k]
<1>1. DOMAIN None = {}
  BY NoRows
<1>2. DOMAIN Flushed(w, t) = Keys(t) \cup DOMAIN Rows(w.insert, t)
  BY PlainFlush
<1> QED BY <1>1, <1>2, FlushNoPut

(* What the flush makes of a table that only loses rows.                   *)
LEMMA DropFlush ==
  ASSUME NEW w, NEW t, Rows(w.put, t) = None, Rows(w.insert, t) = None, Rows(w.update, t) = None
  PROVE  /\ DOMAIN Flushed(w, t) = {k \in Keys(t) : <<t, k>> \notin Dropped(w)}
         /\ \A k \in DOMAIN Flushed(w, t) : Flushed(w, t)[k] = db[t][k]
<1>1. DOMAIN None = {}
  BY NoRows
<1>2. DOMAIN Flushed(w, t) = {k \in Keys(t) : <<t, k>> \notin Dropped(w)}
  BY <1>1, FlushedDomain
<1> QED BY <1>1, <1>2, FlushNoPut

(* The flush of a table that is not written leaves it alone.               *)
LEMMA SameFlush ==
  ASSUME NEW w, w.drop = None, NEW t, Rows(w.put, t) = None, Rows(w.insert, t) = None, Rows(w.update, t) = None
  PROVE  /\ DOMAIN Flushed(w, t) = Keys(t)
         /\ \A k \in Keys(t) : Flushed(w, t)[k] = db[t][k]
<1>1. DOMAIN Rows(w.insert, t) = {}
  BY NoRows
<1>2. /\ DOMAIN Flushed(w, t) = Keys(t) \cup DOMAIN Rows(w.insert, t)
      /\ \A k \in Keys(t) : k \notin DOMAIN Rows(w.insert, t) => Flushed(w, t)[k] = db[t][k]
  BY InsertFlush
<1> QED BY <1>1, <1>2

(* What a commit that is not refused makes of the rows that are kept.      *)
LEMMA KeptRows ==
  ASSUME NEW w, ~Refused(w), NEW t, Rows(w.put, t) = None
  PROVE  /\ \A k \in DOMAIN Rows(w.insert, t) : k \notin Keys(t)
         /\ \A k \in Keys(t) : k \in DOMAIN Flushed(w, t) =>
               Flushed(w, t)[k] = IF k \in DOMAIN Rows(w.update, t)
                                  THEN Over(db[t][k], Rows(w.update, t)[k]) ELSE db[t][k]
<1>1. \A k \in DOMAIN Rows(w.insert, t) : k \notin Keys(t)
  BY NoRows DEF Refused, Rows
<1>2. PICK f, cols : f = Flushed(w, t) /\ cols = Rows(w.update, t)
  OBVIOUS
<1>3. ASSUME NEW k \in Keys(t), k \in DOMAIN f
      PROVE  f[k] = IF k \in DOMAIN cols THEN Over(db[t][k], cols[k]) ELSE db[t][k]
  BY <1>1, <1>2, <1>3, FlushNoPut
<1> QED BY <1>1, <1>2, <1>3

(* Columns of an update of assignments, and of submissions. *)
LEMMA AssignmentFits ==
  ASSUME NEW columns, DOMAIN columns \subseteq {"due", "active"},
         "due" \in DOMAIN columns => columns["due"] \in DueDays,
         "active" \in DOMAIN columns => columns["active"] \in BOOLEAN
  PROVE  Fitting(Assignment, columns)
<1> SUFFICES ASSUME NEW row \in Assignment PROVE Over(row, columns) \in Assignment
  BY DEF Fitting
<1>1. PICK r : r = Over(row, columns)
  OBVIOUS
<1>2. r = [c \in {"due", "active", "file"} |-> IF c \in DOMAIN columns THEN columns[c] ELSE row[c]]
  BY <1>1 DEF Over, Assignment
<1>3. r["due"] \in DueDays /\ r["active"] \in BOOLEAN /\ r["file"] \in BOOLEAN
  BY <1>2 DEF Assignment
<1>4. r \in Assignment
  BY <1>2, <1>3 DEF Assignment
<1> QED
  BY <1>1, <1>4

ReviewColumns(columns) ==
    /\ DOMAIN columns \subseteq {"graded", "approved", "dated"}
    /\ \A c \in DOMAIN columns : columns[c] \in BOOLEAN
    /\ "graded" \in DOMAIN columns => columns["graded"] = TRUE

(* The columns a review sets keep the type of a submission.                *)
LEMMA SubmissionFits ==
  ASSUME NEW columns, ReviewColumns(columns)
  PROVE  Fitting(Submission, columns)
<1> SUFFICES ASSUME NEW row \in Submission PROVE Over(row, columns) \in Submission
  BY DEF Fitting
<1>1. PICK r : r = Over(row, columns)
  OBVIOUS
<1>2. r = [c \in {"of", "student", "late", "file", "graded", "approved", "dated"} |-> IF c \in DOMAIN columns THEN columns[c] ELSE row[c]]
  BY <1>1 DEF Over, Submission
<1>3. /\ r["of"] = row["of"] /\ r["student"] = row["student"] /\ r["late"] = row["late"] /\ r["file"] = row["file"]
      /\ r["graded"] \in BOOLEAN /\ r["approved"] \in BOOLEAN /\ r["dated"] \in BOOLEAN
  BY <1>2 DEF Submission, ReviewColumns
<1>4. r \in Submission
  BY <1>2, <1>3 DEF Submission
<1> QED
  BY <1>1, <1>4

(* What a notice about assignments says, and what a unit of work promises. *)
AssignmentFact(n) ==
    \/ n[1] = "assignment" /\ n[2] \in Keys("assignment")
    \/ n[1] = "reviewed" /\ n[2] \in Keys("submission") /\ db.submission[n[2]].graded

AssignmentPromise(w, n) ==
    \/ n[1] = "assignment" /\ n[2] \in DOMAIN Rows(w.insert, "assignment")
    \/ /\ n[1] = "reviewed" /\ n[2] \in Keys("submission")
       /\ \/ db.submission[n[2]].graded
          \/ n[2] \in DOMAIN Rows(w.update, "submission") /\ "graded" \in DOMAIN Rows(w.update, "submission")[n[2]]

(* Writes that depend on what was read. *)
OnceMore(w) == \A u \in DOMAIN Rows(w.insert, "submission") :
    LET row == Rows(w.insert, "submission")[u] IN
    /\ DOMAIN Rows(w.insert, "submission") = {u}
    /\ row.approved = row.dated
    /\ \A v \in Keys("submission") : db.submission[v].of # row.of \/ db.submission[v].student # row.student
DatedToo(w) == \A u \in DOMAIN Rows(w.update, "submission") \cap Keys("submission") :
    LET row == Over(db.submission[u], Rows(w.update, "submission")[u]) IN row.approved = row.dated

AssignmentWork(w) ==
    /\ w.drop = None /\ w.put = None
    /\ NoticeFits(w)
    /\ Fits(w, "assignment", Assignments, Assignment)
    /\ Fits(w, "submission", Submissions, Submission)
    /\ \A u \in DOMAIN Rows(w.update, "submission") : ReviewColumns(Rows(w.update, "submission")[u])
    /\ \A u \in DOMAIN Rows(w.insert, "submission") : u \notin DOMAIN Rows(w.update, "submission")
    /\ w.state = "open" => \A n \in w.tell : AssignmentPromise(w, n)
    /\ w.state = "after" => \A n \in w.tell : AssignmentFact(n)
    /\ serial /\ w.state = "open" => OnceMore(w) /\ DatedToo(w)

AssignmentsInv ==
    /\ DOMAIN db = {"assignment", "submission", "notice"}
    /\ Table("assignment", Assignments, Assignment)
    /\ Table("submission", Submissions, Submission)
    /\ FileInv("assignment") /\ FileInv("submission")
    /\ \A n \in Keys("notice") : AssignmentFact(n)
    /\ serial => \A u, v \in Keys("submission") :
          /\ db.submission[u].of = db.submission[v].of /\ db.submission[u].student = db.submission[v].student => u = v
          /\ db.submission[u].approved = db.submission[u].dated
    /\ \A s \in Sessions : AssignmentWork(tx[s])

AssignmentOpens(s, w, objects) ==
    /\ Opens(s, w, stored \cup objects) /\ AssignmentWork(w)
    /\ FileFits(w, "assignment", stored \cup objects) /\ FileFits(w, "submission", stored \cup objects)

(* What the handlers of assignments prepare. *)
LEMMA CreatePrepares ==
  ASSUME AssignmentsInv, NEW s \in Sessions, NEW a \in Assignments, NEW due \in DueDays, NEW file \in Attachments,
         CreateAssignment(s, a, due, file)
  PROVE  \E w, objects : AssignmentOpens(s, w, objects)
<1>0. file \in BOOLEAN BY CourseworkConstants
<1>1. PICK yes, row : yes = TRUE /\ row = [due |-> due, active |-> yes, file |-> file]
  OBVIOUS
<1>2. PICK one, new, tell, w :
        /\ one = (a :> row) /\ new = [assignment |-> one] /\ tell = {<<"assignment", a>>}
        /\ w = [Work EXCEPT !.insert = new, !.tell = tell]
  OBVIOUS
<1>3. BeginWith(s, w, stored \cup File("assignment", a, file))
  BY <1>1, <1>2 DEF CreateAssignment, BeginStoring
<1>4. /\ w.insert = new /\ w.update = None /\ w.put = None /\ w.drop = None /\ w.tell = tell /\ w.state = "open"
      /\ WorkShape(w)
  BY <1>2 DEF Work, Idle, WorkShape
<1>5. /\ Rows(w.insert, "assignment") = one /\ Rows(w.insert, "submission") = None
      /\ Rows(w.insert, "notice") = None
  BY <1>2, <1>4 DEF Rows
<1>6. DOMAIN one = {a} /\ one[a] = row /\ row \in Assignment /\ row.file = file
  <2>1. one = (a :> row)
    BY <1>2
  <2>2. DOMAIN one = {a} /\ one[a] = row
    BY <2>1, OneOf
  <2>3. row \in Assignment /\ row.file = file
    BY <1>0, <1>1 DEF Assignment
  <2> QED BY <2>2, <2>3
<1>7. /\ Rows(w.update, "assignment") = None /\ Rows(w.update, "submission") = None
      /\ Rows(w.put, "assignment") = None /\ Rows(w.put, "submission") = None /\ DOMAIN None = {}
      /\ Rows(w.put, "notice") = None
  BY <1>4, NoRows
<1>8. AssignmentWork(w)
  <2>1. \A n \in w.tell : AssignmentPromise(w, n)
    BY <1>2, <1>4, <1>5, <1>6 DEF AssignmentPromise
  <2> QED
    BY <1>4, <1>5, <1>6, <1>7, <2>1 DEF AssignmentWork, Fits, NoticeFits, OnceMore, DatedToo
<1>9. FileFits(w, "assignment", stored \cup File("assignment", a, file)) /\ FileFits(w, "submission", stored \cup File("assignment", a, file))
  BY <1>5, <1>6, <1>7 DEF FileFits, File, Assignment, Submission
<1> QED BY <1>3, <1>4, <1>8, <1>9 DEF AssignmentOpens, Opens

(* What the handler of "update" collects is sound.                         *)
LEMMA UpdatePrepares ==
  ASSUME AssignmentsInv, NEW s \in Sessions, NEW a \in Assignments, NEW due \in DueDays, NEW active \in BOOLEAN,
         UpdateAssignment(s, a, due, active)
  PROVE  \E w, objects : AssignmentOpens(s, w, objects)
<1>1. PICK cols : cols = Changed(db["assignment"][a], [due |-> due, active |-> active])
  OBVIOUS
<1>2. PICK one, up, w : one = (a :> cols) /\ up = [assignment |-> one] /\ w = [Work EXCEPT !.update = up]
  OBVIOUS
<1>3. BeginWith(s, w, stored \cup {})
  BY <1>1, <1>2 DEF UpdateAssignment, Begin, BeginStoring, Sets
<1>4. /\ w.update = up /\ w.insert = None /\ w.put = None /\ w.drop = None /\ w.tell = {} /\ w.state = "open"
      /\ WorkShape(w)
  BY <1>2 DEF Work, Idle, WorkShape
<1>5. Fitting(Assignment, cols) /\ "file" \notin DOMAIN cols
  <2>1. PICK set : set = [due |-> due, active |-> active]
    OBVIOUS
  <2>2. DOMAIN set = {"due", "active"} /\ set["due"] \in DueDays /\ set["active"] \in BOOLEAN
    BY <2>1
  <2>3. cols = Changed(db["assignment"][a], set)
    BY <1>1, <2>1
  <2>4. /\ DOMAIN cols \subseteq DOMAIN set /\ \A c \in DOMAIN cols : cols[c] = set[c]
    BY <2>3, ChangedIs
  <2> QED
    BY <2>2, <2>4, AssignmentFits
<1>6. /\ DOMAIN Rows(w.update, "assignment") = {a} /\ Rows(w.update, "assignment")[a] = cols
      /\ Rows(w.update, "submission") = None
  <2>1. Rows(w.update, "assignment") = one /\ Rows(w.update, "submission") = None
    BY <1>2, <1>4 DEF Rows
  <2> QED BY <1>2, <2>1, OneOf
<1>7. /\ Rows(w.insert, "assignment") = None /\ Rows(w.insert, "submission") = None
      /\ Rows(w.put, "assignment") = None /\ Rows(w.put, "submission") = None /\ DOMAIN None = {}
      /\ Rows(w.insert, "notice") = None /\ Rows(w.put, "notice") = None
  BY <1>4, NoRows
<1>8. AssignmentWork(w)
  BY <1>4, <1>5, <1>6, <1>7 DEF AssignmentWork, Fits, NoticeFits, OnceMore, DatedToo
<1>9. FileFits(w, "assignment", stored \cup {}) /\ FileFits(w, "submission", stored \cup {})
  BY <1>5, <1>6, <1>7 DEF FileFits
<1> QED BY <1>3, <1>4, <1>8, <1>9 DEF AssignmentOpens, Opens

(* What the handler of "hand in" collects is sound.                        *)
LEMMA HandInPrepares ==
  ASSUME AssignmentsInv, NEW s \in Sessions, NEW u \in Submissions, NEW a \in Assignments, NEW p \in Pupils,
         NEW file \in Attachments, HandIn(s, u, a, p, file)
  PROVE  \E w, objects : AssignmentOpens(s, w, objects)
<1>0. file \in BOOLEAN BY CourseworkConstants
<1>a. PICK late : late = (today > db["assignment"][a].due)
  OBVIOUS
<1>b. late \in BOOLEAN
  BY <1>a
<1>1. PICK no, row :
         /\ no = FALSE
         /\ row = [of |-> <<"assignment", a>>, student |-> p, late |-> late, file |-> file,
                   graded |-> no, approved |-> no, dated |-> no]
  OBVIOUS
<1>2. PICK one, new, w :
        /\ one = (u :> row) /\ new = [submission |-> one]
        /\ w = [Work EXCEPT !.insert = new, !.needs = {<<"assignment", a>>}]
  OBVIOUS
<1>3. BeginWith(s, w, stored \cup File("submission", u, file))
  BY <1>a, <1>1, <1>2 DEF HandIn, BeginStoring
<1>4. /\ w.insert = new /\ w.update = None /\ w.put = None /\ w.drop = None /\ w.tell = {} /\ w.state = "open"
      /\ WorkShape(w)
  BY <1>2 DEF Work, Idle, WorkShape
<1>5. /\ Rows(w.insert, "submission") = one /\ Rows(w.insert, "assignment") = None
      /\ Rows(w.insert, "notice") = None
  BY <1>2, <1>4 DEF Rows
<1>6. /\ DOMAIN one = {u} /\ one[u] = row /\ row \in Submission /\ row.file = file
      /\ row.of = <<"assignment", a>> /\ row.student = p /\ row.approved = row.dated
  <2>1. no \in BOOLEAN /\ <<"assignment", a>> \in {"assignment"} \X Assignments
    BY <1>1
  <2>2. row \in Submission
    BY <1>0, <1>b, <1>1, <2>1 DEF Submission
  <2> QED BY <1>1, <1>2, <2>2, OneOf
<1>7. /\ Rows(w.update, "assignment") = None /\ Rows(w.update, "submission") = None
      /\ Rows(w.put, "assignment") = None /\ Rows(w.put, "submission") = None /\ DOMAIN None = {}
      /\ Rows(w.put, "notice") = None
  BY <1>4, NoRows
<1>8. AssignmentWork(w)
  <2>1. \A v \in Keys("submission") : db.submission[v].of # row.of \/ db.submission[v].student # row.student
    BY <1>6 DEF HandIn, OfPupil
  <2>2. OnceMore(w) /\ DatedToo(w)
    BY <1>5, <1>6, <1>7, <2>1 DEF OnceMore, DatedToo
  <2> QED
    BY <1>4, <1>5, <1>6, <1>7, <2>2 DEF AssignmentWork, Fits, NoticeFits
<1>9. FileFits(w, "assignment", stored \cup File("submission", u, file)) /\ FileFits(w, "submission", stored \cup File("submission", u, file))
  BY <1>5, <1>6, <1>7 DEF FileFits, File, Assignment, Submission
<1> QED BY <1>3, <1>4, <1>8, <1>9 DEF AssignmentOpens, Opens

(* What a review sets, and that an approval is dated with it.              *)
LEMMA ApprovalIs ==
  ASSUME NEW row \in Submission, NEW says \in {"approve", "reject", "remark"}, NEW cols,
         cols = (Changed(row, [graded |-> TRUE]) @@ Approval(row, says))
  PROVE  /\ ReviewColumns(cols)
         /\ row.graded \/ "graded" \in DOMAIN cols
         /\ Over(row, cols).approved = Over(row, cols).dated \/ (says = "remark" /\ Over(row, cols).approved = row.approved /\ Over(row, cols).dated = row.dated)
<1>1. PICK yes, no : yes = TRUE /\ no = FALSE
  OBVIOUS
<1>2. PICK g, ap, re, c1, c2, c3, d :
         /\ g = [graded |-> yes] /\ ap = [approved |-> yes] /\ re = [approved |-> no, dated |-> no]
         /\ c1 = Changed(row, g) /\ c2 = Changed(row, ap) /\ c3 = Changed(row, re)
         /\ d = [dated |-> yes]
  OBVIOUS
<1>3. /\ DOMAIN c1 = {c \in {"graded"} : row[c] # yes} /\ \A c \in DOMAIN c1 : c1[c] = yes
      /\ DOMAIN c2 = {c \in {"approved"} : row[c] # yes} /\ \A c \in DOMAIN c2 : c2[c] = yes
      /\ DOMAIN c3 = {c \in {"approved", "dated"} : row[c] # no} /\ \A c \in DOMAIN c3 : c3[c] = no
      /\ DOMAIN d = {"dated"} /\ d["dated"] = yes
  BY <1>2 DEF Changed
<1>4. PICK a : a = Approval(row, says)
  OBVIOUS
<1>5. cols = [x \in DOMAIN c1 \cup DOMAIN a |-> IF x \in DOMAIN c1 THEN c1[x] ELSE a[x]]
  BY <1>1, <1>2, <1>4 DEF @@
<1>6. PICK o : o = Over(row, cols)
  OBVIOUS
<1>7. /\ DOMAIN row = {"of", "student", "late", "file", "graded", "approved", "dated"}
      /\ row["approved"] \in BOOLEAN /\ row["dated"] \in BOOLEAN /\ row["graded"] \in BOOLEAN
  BY DEF Submission
<1>8. /\ o["approved"] = IF "approved" \in DOMAIN cols THEN cols["approved"] ELSE row["approved"]
      /\ o["dated"] = IF "dated" \in DOMAIN cols THEN cols["dated"] ELSE row["dated"]
  BY <1>6, <1>7, OverIs
<1>9. row.graded \/ "graded" \in DOMAIN cols
  BY <1>1, <1>3, <1>5, <1>7
<1>10. CASE says = "approve"
  <2>1. a = [x \in DOMAIN d \cup DOMAIN c2 |-> IF x \in DOMAIN d THEN d[x] ELSE c2[x]]
    BY <1>1, <1>2, <1>4, <1>10 DEF Approval, @@
  <2>2. ReviewColumns(cols)
    <3>1. DOMAIN a = {"dated"} \cup DOMAIN c2 /\ \A c \in DOMAIN a : a[c] = yes
      BY <1>1, <1>3, <2>1
    <3>2. DOMAIN cols = DOMAIN c1 \cup DOMAIN a /\ \A c \in DOMAIN cols : cols[c] = yes
      BY <1>3, <1>5, <3>1
    <3> QED BY <1>1, <1>2, <1>3, <1>5, <3>1, <3>2 DEF ReviewColumns
  <2>3. o["approved"] = TRUE /\ o["dated"] = TRUE
    BY <1>1, <1>3, <1>5, <1>7, <1>8, <2>1
  <2> QED BY <1>6, <1>9, <2>2, <2>3
<1>11. CASE says = "reject"
  <2>1. a = c3
    BY <1>1, <1>2, <1>4, <1>11 DEF Approval
  <2>2. ReviewColumns(cols)
    BY <1>1, <1>3, <1>5, <2>1 DEF ReviewColumns
  <2>3. o["approved"] = FALSE /\ o["dated"] = FALSE
    BY <1>1, <1>3, <1>5, <1>7, <1>8, <2>1
  <2> QED BY <1>6, <1>9, <2>2, <2>3
<1>12. CASE says = "remark"
  <2>1. a = None
    BY <1>4, <1>12 DEF Approval
  <2>2. DOMAIN cols = DOMAIN c1 /\ \A x \in DOMAIN cols : cols[x] = yes
    BY <1>3, <1>5, <2>1, NoRows
  <2>3. ReviewColumns(cols)
    BY <1>1, <1>3, <2>2 DEF ReviewColumns
  <2>4. o["approved"] = row["approved"] /\ o["dated"] = row["dated"]
    BY <1>3, <1>8, <2>2
  <2> QED BY <1>6, <1>9, <1>12, <2>3, <2>4
<1> QED BY <1>10, <1>11, <1>12

(* What the handler of "grade" collects is sound.                          *)
LEMMA GradePrepares ==
  ASSUME AssignmentsInv, NEW s \in Sessions, NEW u \in Submissions, NEW says \in {"approve", "reject", "remark"},
         GradeSubmission(s, u, says)
  PROVE  \E w, objects : AssignmentOpens(s, w, objects)
<1>0. PICK row : row = db["submission"][u]
  OBVIOUS
<1>1. PICK cols : cols = (Changed(row, [graded |-> TRUE]) @@ Approval(row, says))
  OBVIOUS
<1>2. PICK one, up, tell, w :
        /\ one = (u :> cols) /\ up = [submission |-> one] /\ tell = {<<"reviewed", u>>}
        /\ w = [Work EXCEPT !.update = up, !.tell = tell]
  OBVIOUS
<1>3. BeginWith(s, w, stored \cup {}) /\ u \in Keys("submission")
  <2>1. PICK g : g = [graded |-> TRUE]
    OBVIOUS
  <2> QED BY <1>0, <1>1, <1>2 DEF GradeSubmission, Begin, BeginStoring
<1>4. /\ w.update = up /\ w.insert = None /\ w.put = None /\ w.drop = None /\ w.tell = tell /\ w.state = "open"
      /\ WorkShape(w)
  BY <1>2 DEF Work, Idle, WorkShape
<1>5. row \in Submission
  BY <1>0, <1>3 DEF AssignmentsInv, Table
<1>6. /\ DOMAIN Rows(w.update, "submission") = {u} /\ Rows(w.update, "submission")[u] = cols
      /\ Rows(w.update, "assignment") = None
  <2>1. Rows(w.update, "submission") = one /\ Rows(w.update, "assignment") = None
    BY <1>2, <1>4 DEF Rows
  <2> QED BY <1>2, <2>1, OneOf
<1>7. /\ Rows(w.insert, "assignment") = None /\ Rows(w.insert, "submission") = None
      /\ Rows(w.put, "assignment") = None /\ Rows(w.put, "submission") = None /\ DOMAIN None = {}
      /\ Rows(w.insert, "notice") = None /\ Rows(w.put, "notice") = None
  BY <1>4, NoRows
<1>8. AssignmentWork(w)
  <2>1. ReviewColumns(cols) /\ Fitting(Submission, cols) /\ (row.graded \/ "graded" \in DOMAIN cols)
    BY <1>1, <1>5, ApprovalIs, SubmissionFits
  <2>2. serial => OnceMore(w) /\ DatedToo(w)
    <3>1. serial => row.approved = row.dated
      BY <1>0, <1>3 DEF AssignmentsInv
    <3>2. serial => Over(row, cols).approved = Over(row, cols).dated
      BY <1>1, <1>5, <3>1, ApprovalIs
    <3> QED BY <1>0, <1>6, <1>7, <3>2 DEF OnceMore, DatedToo
  <2>3. \A n \in w.tell : AssignmentPromise(w, n)
    BY <1>0, <1>2, <1>3, <1>4, <1>6, <2>1 DEF AssignmentPromise
  <2> QED
    BY <1>4, <1>6, <1>7, <2>1, <2>2, <2>3 DEF AssignmentWork, Fits, NoticeFits
<1>9. FileFits(w, "assignment", stored \cup {}) /\ FileFits(w, "submission", stored \cup {})
  <2>1. ReviewColumns(cols)
    BY <1>1, <1>5, ApprovalIs
  <2> QED BY <1>6, <1>7, <2>1 DEF FileFits, ReviewColumns
<1> QED BY <1>3, <1>4, <1>8, <1>9 DEF AssignmentOpens, Opens

(* What the handlers of assignments collect is sound.                      *)
LEMMA AssignmentsPrepare ==
  ASSUME AssignmentsInv, NEW s \in Sessions, AssignmentsStep(s) \/ SubmissionsStep(s)
  PROVE  \E w, objects : AssignmentOpens(s, w, objects)
BY CreatePrepares, UpdatePrepares, HandInPrepares, GradePrepares DEF AssignmentsStep, SubmissionsStep

(* The units of work that are open stay sound while nothing is lost. *)
LEMMA AssignmentWorkStays ==
  ASSUME NEW w, AssignmentWork(w), UNCHANGED serial,
         Keys("assignment") \subseteq Keys("assignment")', Keys("submission") \subseteq Keys("submission")',
         \A u \in Keys("submission") : db.submission[u].graded => db'.submission[u].graded,
         serial /\ w.state = "open" => Keys("submission")' = Keys("submission") /\ db'.submission = db.submission
  PROVE  AssignmentWork(w)'
<1>1. /\ w.drop = None /\ w.put = None
      /\ NoticeFits(w)
      /\ Fits(w, "assignment", Assignments, Assignment)
      /\ Fits(w, "submission", Submissions, Submission)
      /\ \A u \in DOMAIN Rows(w.update, "submission") : ReviewColumns(Rows(w.update, "submission")[u])
      /\ \A u \in DOMAIN Rows(w.insert, "submission") : u \notin DOMAIN Rows(w.update, "submission")
  BY DEF AssignmentWork
<1>2. w.state = "open" => \A n \in w.tell : AssignmentPromise(w, n)'
  BY DEF AssignmentWork, AssignmentPromise
<1>3. w.state = "after" => \A n \in w.tell : AssignmentFact(n)'
  BY DEF AssignmentWork, AssignmentFact
<1>4. serial /\ w.state = "open" => OnceMore(w)' /\ DatedToo(w)'
  BY DEF AssignmentWork, OnceMore, DatedToo
<1> QED BY <1>1, <1>2, <1>3, <1>4 DEF AssignmentWork

(* The handlers of assignments preserve their invariant.                   *)
LEMMA AssignmentsBegin ==
  ASSUME Shape, AssignmentsInv, NEW s \in Sessions, NEW w, NEW objects, AssignmentOpens(s, w, objects)
  PROVE  AssignmentsInv'
<1>1. /\ tx' = [q \in Sessions |-> IF q = s THEN w ELSE tx[q]] /\ stored' = stored \cup objects
      /\ UNCHANGED <<area, db, today, serial>>
  BY BeginShape DEF AssignmentOpens, Opens
<1>2. FileInv("assignment")' /\ FileInv("submission")'
  BY FileBegin DEF AssignmentsInv, AssignmentOpens, Opens
<1>3. Keys("assignment")' = Keys("assignment") /\ Keys("submission")' = Keys("submission") /\ Keys("notice")' = Keys("notice")
  BY <1>1 DEF Keys
<1>4. \A q \in Sessions : AssignmentWork(tx[q])'
  <2>1. \A v : AssignmentWork(v) => AssignmentWork(v)'
    <3> SUFFICES ASSUME NEW v, AssignmentWork(v) PROVE AssignmentWork(v)'
      OBVIOUS
    <3> QED BY <1>1, <1>3, AssignmentWorkStays
  <2>2. \A q \in Sessions : AssignmentWork(tx[q])
    BY DEF AssignmentsInv
  <2>3. AssignmentWork(w)
    BY DEF AssignmentOpens
  <2>4. ASSUME NEW q \in Sessions PROVE AssignmentWork(tx[q])'
    <3>1. PICK v : v = IF q = s THEN w ELSE tx[q]
      OBVIOUS
    <3>2. AssignmentWork(v)'
      BY <2>1, <2>2, <2>3, <3>1
    <3>3. tx[q]' = v
      BY <1>1, <3>1
    <3> QED BY <3>2, <3>3
  <2> QED BY <2>4
<1>5. \A n \in Keys("notice")' : AssignmentFact(n)'
  BY <1>1, <1>3 DEF AssignmentFact, AssignmentsInv
<1>6. Table("assignment", Assignments, Assignment)' /\ Table("submission", Submissions, Submission)'
  BY <1>1, <1>3 DEF AssignmentsInv, Table
<1> QED
  BY <1>1, <1>2, <1>3, <1>4, <1>5, <1>6 DEF AssignmentsInv

(* What a commit makes of the submissions there are: the columns of a      *)
(* review, and never another student, assignment or lateness.              *)
LEMMA SubmissionsFlush ==
  ASSUME AssignmentsInv, NEW w, AssignmentWork(w), ~Refused(w), NEW u \in Keys("submission")
  PROVE  /\ u \in DOMAIN Flushed(w, "submission") /\ u \notin DOMAIN Rows(w.insert, "submission")
         /\ \/ /\ u \in DOMAIN Rows(w.update, "submission")
               /\ Flushed(w, "submission")[u] = Over(db.submission[u], Rows(w.update, "submission")[u])
            \/ u \notin DOMAIN Rows(w.update, "submission") /\ Flushed(w, "submission")[u] = db.submission[u]
         /\ Flushed(w, "submission")[u].of = db.submission[u].of
         /\ Flushed(w, "submission")[u].student = db.submission[u].student
         /\ Flushed(w, "submission")[u].late = db.submission[u].late
         /\ db.submission[u].graded => Flushed(w, "submission")[u].graded
         /\ u \in DOMAIN Rows(w.update, "submission") /\ "graded" \in DOMAIN Rows(w.update, "submission")[u]
               => Flushed(w, "submission")[u].graded
<1>1. u \in DOMAIN Flushed(w, "submission")
  BY NothingDropped DEF AssignmentWork
<1>2. u \notin DOMAIN Rows(w.insert, "submission")
  <2>1. CASE "submission" \in DOMAIN w.insert
    <3>1. w.insert["submission"] = Rows(w.insert, "submission")
      BY <2>1 DEF Rows
    <3>2. DOMAIN w.insert["submission"] \cap Keys("submission") = {}
      BY <2>1 DEF Refused
    <3> QED BY <3>1, <3>2
  <2>2. CASE "submission" \notin DOMAIN w.insert
    BY <2>2, NoRows DEF Rows
  <2> QED BY <2>1, <2>2
<1>3. PICK f, cols, old : f = Flushed(w, "submission")[u] /\ cols = Rows(w.update, "submission")[u]
                           /\ old = db["submission"][u]
  OBVIOUS
<1>4. \/ u \in DOMAIN Rows(w.update, "submission") /\ f = Over(old, cols)
      \/ u \notin DOMAIN Rows(w.update, "submission") /\ f = old
  <2>1. Rows(w.put, "submission") = None
    BY NoRows DEF AssignmentWork
  <2> QED
    BY <1>1, <1>2, <1>3, <2>1, FlushNoPut
<1>5. old \in Submission
  BY <1>3 DEF AssignmentsInv, Table
<1>6. DOMAIN old = {"of", "student", "late", "file", "graded", "approved", "dated"}
  BY <1>5 DEF Submission
<1>7. CASE u \notin DOMAIN Rows(w.update, "submission") /\ f = old
  BY <1>1, <1>2, <1>3, <1>7
<1>8. CASE u \in DOMAIN Rows(w.update, "submission") /\ f = Over(old, cols)
  <2>1. ReviewColumns(cols)
    BY <1>3, <1>8 DEF AssignmentWork
  <2>2. /\ f["of"] = old["of"] /\ f["student"] = old["student"] /\ f["late"] = old["late"]
        /\ f["graded"] = IF "graded" \in DOMAIN cols THEN cols["graded"] ELSE old["graded"]
    BY <1>6, <1>8, <2>1, OverIs DEF ReviewColumns
  <2>3. "graded" \in DOMAIN cols => cols["graded"] = TRUE
    BY <2>1 DEF ReviewColumns
  <2> QED BY <1>1, <1>2, <1>3, <1>8, <2>2, <2>3
<1> QED BY <1>4, <1>7, <1>8

(* A commit keeps submissions and what was late, and makes true what is    *)
(* told.                                                                   *)
LEMMA AssignmentsCommit ==
  ASSUME Shape, AssignmentsInv, NEW s \in Sessions, Commit(s)
  PROVE  /\ Keys("assignment") \subseteq Keys("assignment")' /\ Keys("submission") \subseteq Keys("submission")'
         /\ \A u \in Keys("submission") : /\ db.submission[u].graded => db'.submission[u].graded
                                          /\ db'.submission[u].late = db.submission[u].late
         /\ \A n \in tx[s].tell : AssignmentFact(n)'
         /\ serial => \A u, v \in Keys("submission")' :
              /\ db'.submission[u].of = db'.submission[v].of /\ db'.submission[u].student = db'.submission[v].student => u = v
              /\ db'.submission[u].approved = db'.submission[u].dated
<1>1. PICK w : w = tx[s]
  OBVIOUS
<1>2. AssignmentWork(w) /\ w.state = "open" /\ ~Refused(w)
  BY <1>1, CommitShape DEF AssignmentsInv
<1>3. PICK fa, fs : fa = Flushed(w, "assignment") /\ fs = Flushed(w, "submission")
  OBVIOUS
<1>4. db'["assignment"] = fa /\ db'["submission"] = fs /\ UNCHANGED serial
  BY <1>1, <1>3, CommitShape DEF AssignmentsInv
<1>5. /\ Keys("assignment")' = Keys("assignment") \cup DOMAIN Rows(w.insert, "assignment")
      /\ Keys("submission")' = Keys("submission") \cup DOMAIN Rows(w.insert, "submission")
  <2>1. /\ DOMAIN fa = Keys("assignment") \cup DOMAIN Rows(w.insert, "assignment") \cup DOMAIN Rows(w.put, "assignment")
        /\ DOMAIN fs = Keys("submission") \cup DOMAIN Rows(w.insert, "submission") \cup DOMAIN Rows(w.put, "submission")
    BY <1>2, <1>3, NothingDropped DEF AssignmentWork
  <2>2. DOMAIN Rows(w.put, "assignment") = {} /\ DOMAIN Rows(w.put, "submission") = {}
    BY <1>2, NoRows DEF AssignmentWork
  <2> QED BY <1>4, <2>1, <2>2 DEF Keys
<1>6. \A u \in Keys("submission") :
         /\ u \notin DOMAIN Rows(w.insert, "submission")
         /\ \/ /\ u \in DOMAIN Rows(w.update, "submission")
               /\ fs[u] = Over(db.submission[u], Rows(w.update, "submission")[u])
            \/ u \notin DOMAIN Rows(w.update, "submission") /\ fs[u] = db.submission[u]
         /\ fs[u].of = db.submission[u].of /\ fs[u].student = db.submission[u].student
         /\ fs[u].late = db.submission[u].late
         /\ db.submission[u].graded => fs[u].graded
         /\ u \in DOMAIN Rows(w.update, "submission") /\ "graded" \in DOMAIN Rows(w.update, "submission")[u]
               => fs[u].graded
  BY <1>2, <1>3, SubmissionsFlush
<1>7. \A n \in w.tell : AssignmentFact(n)'
  BY <1>2, <1>4, <1>5, <1>6 DEF AssignmentWork, AssignmentPromise, AssignmentFact
<1>8. \A u \in DOMAIN Rows(w.insert, "submission") : fs[u] = Rows(w.insert, "submission")[u]
  <2>1. Rows(w.put, "submission") = None
    BY <1>2, NoRows DEF AssignmentWork
  <2>2. \A u \in DOMAIN Rows(w.insert, "submission") : u \in DOMAIN fs
    BY <1>4, <1>5 DEF Keys
  <2>3. \A u \in DOMAIN Rows(w.insert, "submission") : u \notin Keys("submission")
    BY <1>6
  <2> QED BY <1>3, <2>1, <2>2, <2>3, FlushNoPut
<1>9. serial => \A u, v \in Keys("submission")' :
              /\ fs[u].of = fs[v].of /\ fs[u].student = fs[v].student => u = v
              /\ fs[u].approved = fs[u].dated
  <2> SUFFICES ASSUME serial, NEW u \in Keys("submission")', NEW v \in Keys("submission")'
               PROVE  /\ fs[u].of = fs[v].of /\ fs[u].student = fs[v].student => u = v
                      /\ fs[u].approved = fs[u].dated
    OBVIOUS
  <2>1. /\ \A x, y \in Keys("submission") :
             db.submission[x].of = db.submission[y].of /\ db.submission[x].student = db.submission[y].student => x = y
        /\ \A x \in Keys("submission") : db.submission[x].approved = db.submission[x].dated
    BY DEF AssignmentsInv
  <2>2. OnceMore(w) /\ DatedToo(w)
    BY <1>2 DEF AssignmentWork
  <2>3. \A x, y \in DOMAIN Rows(w.insert, "submission") : x = y
    BY <2>2 DEF OnceMore
  <2>4. \A x \in DOMAIN Rows(w.insert, "submission") :
          /\ fs[x].approved = fs[x].dated
          /\ \A y \in Keys("submission") : fs[y].of # fs[x].of \/ fs[y].student # fs[x].student
    <3>1. \A y \in Keys("submission") : fs[y].of = db.submission[y].of /\ fs[y].student = db.submission[y].student
      BY <1>6
    <3>2. PICK new : new = Rows(w.insert, "submission")
      OBVIOUS
    <3>3. \A x \in DOMAIN new :
             /\ new[x].approved = new[x].dated
             /\ \A y \in Keys("submission") : db.submission[y].of # new[x].of \/ db.submission[y].student # new[x].student
      BY <2>2, <3>2 DEF OnceMore
    <3> QED BY <1>8, <3>1, <3>2, <3>3
  <2>5. \A x \in Keys("submission") : fs[x].approved = fs[x].dated
    BY <1>6, <2>1, <2>2 DEF DatedToo
  <2>6. u \in Keys("submission") \/ u \in DOMAIN Rows(w.insert, "submission")
    BY <1>5
  <2>7. v \in Keys("submission") \/ v \in DOMAIN Rows(w.insert, "submission")
    BY <1>5
  <2>8. fs[u].approved = fs[u].dated
    BY <2>4, <2>5, <2>6
  <2>9. fs[u].of = fs[v].of /\ fs[u].student = fs[v].student => u = v
    <3>1. CASE u \in Keys("submission") /\ v \in Keys("submission")
      BY <1>6, <2>1, <3>1
    <3>2. CASE u \in Keys("submission") /\ v \in DOMAIN Rows(w.insert, "submission")
      BY <2>4, <3>2
    <3>3. CASE v \in Keys("submission") /\ u \in DOMAIN Rows(w.insert, "submission")
      BY <2>4, <3>3
    <3>4. CASE v \in DOMAIN Rows(w.insert, "submission") /\ u \in DOMAIN Rows(w.insert, "submission")
      BY <2>3, <3>4
    <3> QED BY <2>6, <2>7, <3>1, <3>2, <3>3, <3>4
  <2> QED BY <2>8, <2>9
<1> QED
  BY <1>1, <1>4, <1>5, <1>6, <1>7, <1>9

(* The end of a request preserves the invariant of assignments.            *)
LEMMA AssignmentsEnd ==
  ASSUME Shape, AssignmentsInv, NEW s \in Sessions, EndOfRequest(s)
  PROVE  AssignmentsInv'
<1>1. /\ Shape' /\ UNCHANGED <<area, stored, today, serial>>
      /\ \A q \in Sessions :
              \/ q # s /\ tx'[q] = tx[q]
              \/ /\ q = s /\ tx'[q].insert = None /\ tx'[q].put = None /\ tx'[q].update = None
                 /\ tx'[q].drop = None /\ tx'[q].state \in {"idle", "after"}
  BY WorksAtEnd
<1>2. DOMAIN db' = DOMAIN db
  BY OnlyCommits DEF AssignmentsInv
<1>3. NoticeFits(tx[s]) /\ AssignmentWork(tx[s])
  BY DEF AssignmentsInv, AssignmentWork
<1>4. /\ Keys("assignment") \subseteq Keys("assignment")' /\ Keys("submission") \subseteq Keys("submission")'
      /\ \A u \in Keys("submission") : db.submission[u].graded => db'.submission[u].graded
      /\ Commit(s) => \A n \in tx[s].tell : AssignmentFact(n)'
      /\ serial => \A u, v \in Keys("submission")' :
              /\ db'.submission[u].of = db'.submission[v].of /\ db'.submission[u].student = db'.submission[v].student => u = v
              /\ db'.submission[u].approved = db'.submission[u].dated
      /\ Commit(s) \/ db'.submission = db.submission
  <2>1. CASE Commit(s)
    BY <2>1, AssignmentsCommit
  <2>2. CASE ~Commit(s)
    <3>1. db'["assignment"] = db["assignment"] /\ db'["submission"] = db["submission"]
      BY <2>2, OnlyCommits DEF AssignmentsInv
    <3> QED BY <2>2, <3>1 DEF Keys, AssignmentsInv
  <2> QED BY <2>1, <2>2
<1>5. \A n : AssignmentFact(n) => AssignmentFact(n)'
  BY <1>4 DEF AssignmentFact
<1>6. /\ TableStays("assignment", Assignments, Assignment)
      /\ TableStays("submission", Submissions, Submission)
  BY TableEnd DEF AssignmentsInv, AssignmentWork, TableInv
<1>7. FileInv("assignment")' /\ FileInv("submission")'
  BY FileEnd DEF AssignmentsInv
<1>8. /\ \A n \in Keys("notice")' : n \in Keys("notice") \/ (tx[s].state = "after" /\ n \in tx[s].tell)
      /\ \A q \in Sessions : \A n : tx'[q].state = "after" /\ n \in tx'[q].tell =>
                 \/ tx[q].state = "after" /\ n \in tx[q].tell
                 \/ q = s /\ Commit(s) /\ n \in tx[s].tell
  BY <1>3, NoticeEnd
<1>9. \A n \in Keys("notice")' : AssignmentFact(n)'
  BY <1>3, <1>5, <1>8 DEF AssignmentsInv, AssignmentWork
<1>10. \A q \in Sessions : AssignmentWork(tx[q])'
  <2> SUFFICES ASSUME NEW q \in Sessions PROVE AssignmentWork(tx[q])'
    OBVIOUS
  <2>1. CASE q # s /\ tx'[q] = tx[q]
    <3>1. PICK w : w = tx[q]
      OBVIOUS
    <3>2. AssignmentWork(w)
      BY <3>1 DEF AssignmentsInv
    <3>3. serial /\ w.state = "open" => ~Commit(s)
      BY <2>1, <3>1, CommitShape DEF Shape, Busy
    <3>4. serial /\ w.state = "open" => Keys("submission")' = Keys("submission") /\ db'.submission = db.submission
      BY <1>4, <3>3 DEF Keys
    <3>5. AssignmentWork(w)'
      BY <1>1, <1>4, <3>2, <3>4, AssignmentWorkStays
    <3> QED BY <2>1, <3>1, <3>5
  <2>2. CASE q = s /\ tx'[q].insert = None /\ tx'[q].put = None /\ tx'[q].update = None
                 /\ tx'[q].drop = None /\ tx'[q].state \in {"idle", "after"}
    <3>1. PICK w : w = tx'[q]
      OBVIOUS
    <3>2. w.state = "after" => \A n \in w.tell : AssignmentFact(n)'
      BY <1>3, <1>4, <1>5, <1>8, <2>2, <3>1 DEF AssignmentWork
    <3>3. /\ w.insert = None /\ w.put = None /\ w.update = None /\ w.drop = None /\ w.state # "open"
      BY <2>2, <3>1
    <3>4. /\ Rows(w.insert, "submission") = None /\ Rows(w.update, "submission") = None /\ DOMAIN None = {}
          /\ Rows(w.insert, "notice") = None /\ Rows(w.put, "notice") = None
      BY <3>3, NoRows
    <3>5. Fits(w, "assignment", Assignments, Assignment) /\ Fits(w, "submission", Submissions, Submission)
      BY <3>3, IdleFits
    <3>6. AssignmentWork(w)'
      BY <3>2, <3>3, <3>4, <3>5 DEF AssignmentWork, NoticeFits
    <3> QED BY <3>1, <3>6
  <2> QED BY <1>1, <2>1, <2>2
<1> QED
  BY <1>1, <1>2, <1>4, <1>6, <1>7, <1>9, <1>10 DEF AssignmentsInv, TableStays

(* The invariant of assignments does not depend on the date.               *)
LEMMA AssignmentsNextDay ==
  ASSUME AssignmentsInv, UNCHANGED <<db, stored, tx, serial>>
  PROVE  AssignmentsInv'
<1>1. \A t : Keys(t)' = Keys(t)
  BY DEF Keys
<1>2. \A n : AssignmentFact(n)' <=> AssignmentFact(n)
  BY <1>1 DEF AssignmentFact
<1>3. \A w : AssignmentWork(w) => AssignmentWork(w)'
  BY <1>1, AssignmentWorkStays
<1>4. \A q \in Sessions : AssignmentWork(tx[q])'
  BY <1>3 DEF AssignmentsInv
<1>5. Table("assignment", Assignments, Assignment)' /\ Table("submission", Submissions, Submission)'
  BY <1>1 DEF AssignmentsInv, Table
<1>6. FileInv("assignment")' /\ FileInv("submission")'
  BY <1>1 DEF AssignmentsInv, FileInv
<1> QED BY <1>1, <1>2, <1>4, <1>5, <1>6 DEF AssignmentsInv

(* Columns of a review of a response. *)
LEMMA ResponseFits ==
  ASSUME NEW columns, DOMAIN columns \subseteq {"reviewed", "approved"},
         \A c \in DOMAIN columns : columns[c] \in BOOLEAN
  PROVE  Fitting(Response, columns)
<1> SUFFICES ASSUME NEW row \in Response PROVE Over(row, columns) \in Response
  BY DEF Fitting
<1>1. PICK r : r = Over(row, columns)
  OBVIOUS
<1>2. r = [c \in {"of", "file", "reviewed", "approved"} |-> IF c \in DOMAIN columns THEN columns[c] ELSE row[c]]
  BY <1>1 DEF Over, Response
<1>3. /\ r["of"] = row["of"] /\ r["file"] = row["file"] /\ r["reviewed"] \in BOOLEAN /\ r["approved"] \in BOOLEAN
  BY <1>2 DEF Response
<1>4. r \in Response
  BY <1>2, <1>3 DEF Response
<1> QED
  BY <1>1, <1>4

HomeworkInv ==
    /\ DOMAIN db = {"homework", "response", "notice"}
    /\ TableInv("homework", Lessons, Homework)
    /\ TableInv("response", Lessons \X Pupils, Response)
    /\ FileInv("homework") /\ FileInv("response")
    /\ HeadInv("homework", "homework") /\ OnlyInv({"homework"})

HomeworkOpens(s, w, objects) ==
    /\ Opens(s, w, stored \cup objects)
    /\ Fits(w, "homework", Lessons, Homework) /\ Fits(w, "response", Lessons \X Pupils, Response)
    /\ FileFits(w, "homework", stored \cup objects) /\ FileFits(w, "response", stored \cup objects)
    /\ HeadFits(w, "homework", "homework") /\ OnlyFits(w, {"homework"})

(* What the handler of "create homework" collects is sound.                *)
LEMMA CreateHomeworkPrepares ==
  ASSUME NEW s \in Sessions, NEW h \in Lessons, NEW file \in BOOLEAN, CreateHomework(s, h, file)
  PROVE  \E w, objects : HomeworkOpens(s, w, objects)
<1>1. PICK row : row = [file |-> file]
  OBVIOUS
<1>2. PICK one, new, tell, w :
        /\ one = (h :> row) /\ new = [homework |-> one] /\ tell = {<<"homework", h>>}
        /\ w = [Work EXCEPT !.insert = new, !.tell = tell]
  OBVIOUS
<1>3. BeginWith(s, w, stored \cup File("homework", h, file))
  BY <1>1, <1>2 DEF CreateHomework, BeginStoring
<1>4. /\ w.insert = new /\ w.update = None /\ w.put = None /\ w.drop = None /\ w.tell = tell /\ w.state = "open"
      /\ WorkShape(w)
  BY <1>2 DEF Work, Idle, WorkShape
<1>5. /\ Rows(w.insert, "homework") = one /\ Rows(w.insert, "response") = None
      /\ Rows(w.insert, "notice") = None
  BY <1>2, <1>4 DEF Rows
<1>6. DOMAIN one = {h} /\ one[h] = row /\ row \in Homework /\ row.file = file /\ "file" \in DOMAIN row
  <2>1. one = (h :> row)
    BY <1>2
  <2>2. DOMAIN one = {h} /\ one[h] = row
    BY <2>1, OneOf
  <2>3. row \in Homework /\ row.file = file /\ "file" \in DOMAIN row
    BY <1>1 DEF Homework
  <2> QED BY <2>2, <2>3
<1>7. /\ Rows(w.update, "homework") = None /\ Rows(w.update, "response") = None
      /\ Rows(w.put, "homework") = None /\ Rows(w.put, "response") = None /\ DOMAIN None = {}
      /\ Rows(w.put, "notice") = None
  BY <1>4, NoRows
<1>8. Fits(w, "homework", Lessons, Homework) /\ Fits(w, "response", Lessons \X Pupils, Response)
  BY <1>5, <1>6, <1>7 DEF Fits
<1>9. /\ FileFits(w, "homework", stored \cup File("homework", h, file))
      /\ FileFits(w, "response", stored \cup File("homework", h, file))
  BY <1>5, <1>6, <1>7 DEF FileFits, File
<1>10. HeadFits(w, "homework", "homework") /\ OnlyFits(w, {"homework"})
  BY <1>2, <1>4, <1>5, <1>6, <1>7 DEF HeadFits, OnlyFits
<1> QED BY <1>3, <1>4, <1>8, <1>9, <1>10 DEF HomeworkOpens, Opens

(* What the handler of "respond" collects is sound.                        *)
LEMMA RespondPrepares ==
  ASSUME NEW s \in Sessions, NEW h \in Lessons, NEW p \in Pupils, NEW file \in BOOLEAN, Respond(s, h, p, file)
  PROVE  \E w, objects : HomeworkOpens(s, w, objects)
<1>1. PICK no, row : no = FALSE /\ row = [of |-> <<"homework", h>>, file |-> file, reviewed |-> no, approved |-> no]
  OBVIOUS
<1>2. PICK k, one, new, w :
        /\ k = <<h, p>> /\ one = (k :> row) /\ new = [response |-> one]
        /\ w = [Work EXCEPT !.insert = new, !.needs = {<<"homework", h>>}]
  OBVIOUS
<1>3. BeginWith(s, w, stored \cup File("response", k, file))
  BY <1>1, <1>2 DEF Respond, BeginStoring
<1>4. /\ w.insert = new /\ w.update = None /\ w.put = None /\ w.drop = None /\ w.tell = {} /\ w.state = "open"
      /\ WorkShape(w)
  BY <1>2 DEF Work, Idle, WorkShape
<1>5. /\ Rows(w.insert, "response") = one /\ Rows(w.insert, "homework") = None
      /\ Rows(w.insert, "notice") = None
  BY <1>2, <1>4 DEF Rows
<1>6. DOMAIN one = {k} /\ one[k] = row /\ row \in Response /\ row.file = file /\ "file" \in DOMAIN row
  <2>1. no \in BOOLEAN /\ <<"homework", h>> \in {"homework"} \X Lessons
    BY <1>1
  <2>2. row \in Response /\ row.file = file
    BY <1>1, <2>1 DEF Response
  <2>3. "file" \in DOMAIN row
    BY <2>2 DEF Response
  <2> QED BY <1>2, <2>2, <2>3, OneOf
<1>7. /\ Rows(w.update, "homework") = None /\ Rows(w.update, "response") = None
      /\ Rows(w.put, "homework") = None /\ Rows(w.put, "response") = None /\ DOMAIN None = {}
      /\ Rows(w.put, "notice") = None
  BY <1>4, NoRows
<1>8. Fits(w, "homework", Lessons, Homework) /\ Fits(w, "response", Lessons \X Pupils, Response)
  BY <1>2, <1>5, <1>6, <1>7 DEF Fits
<1>9. /\ FileFits(w, "homework", stored \cup File("response", k, file))
      /\ FileFits(w, "response", stored \cup File("response", k, file))
  BY <1>5, <1>6, <1>7 DEF FileFits, File
<1>10. HeadFits(w, "homework", "homework") /\ OnlyFits(w, {"homework"})
  BY <1>2, <1>4, <1>5, <1>6, <1>7 DEF HeadFits, OnlyFits
<1> QED BY <1>3, <1>4, <1>8, <1>9, <1>10 DEF HomeworkOpens, Opens

(* What the handler of "review" collects is sound.                         *)
LEMMA ReviewPrepares ==
  ASSUME HomeworkInv, NEW s \in Sessions, NEW h \in Lessons, NEW p \in Pupils, NEW says \in {"approve", "reject", "none"},
         ReviewResponse(s, h, p, says)
  PROVE  \E w, objects : HomeworkOpens(s, w, objects)
<1>1. PICK k, row : k = <<h, p>> /\ row = db["response"][k]
  OBVIOUS
<1>2. k \in Keys("response") /\ row \in Response
  BY <1>1 DEF ReviewResponse, HomeworkInv, TableInv, Table
<1>a. PICK says2 : says2 = (says = "approve")
  OBVIOUS
<1>b. says2 \in BOOLEAN BY <1>a
<1>3. PICK approved : approved = IF says = "none" THEN row.approved ELSE says2
  OBVIOUS
<1>4. approved \in BOOLEAN
  BY <1>2, <1>b, <1>3 DEF Response
<1>5. PICK set, cols : set = [reviewed |-> TRUE, approved |-> approved] /\ cols = Changed(row, set)
  OBVIOUS
<1>6. PICK one, up, w : one = (k :> cols) /\ up = [response |-> one] /\ w = [Work EXCEPT !.update = up]
  OBVIOUS
<1>7. BeginWith(s, w, stored \cup {})
  BY <1>1, <1>a, <1>3, <1>5, <1>6 DEF ReviewResponse, Begin, BeginStoring, Sets
<1>8. /\ w.update = up /\ w.insert = None /\ w.put = None /\ w.drop = None /\ w.tell = {} /\ w.state = "open"
      /\ WorkShape(w)
  BY <1>6 DEF Work, Idle, WorkShape
<1>9. Fitting(Response, cols) /\ "file" \notin DOMAIN cols
  <2>1. DOMAIN set = {"reviewed", "approved"} /\ set["reviewed"] \in BOOLEAN /\ set["approved"] \in BOOLEAN
    BY <1>4, <1>5
  <2>2. DOMAIN cols \subseteq DOMAIN set /\ \A c \in DOMAIN cols : cols[c] = set[c]
    BY <1>5, ChangedIs
  <2> QED BY <2>1, <2>2, ResponseFits
<1>10. /\ DOMAIN Rows(w.update, "response") = {k} /\ Rows(w.update, "response")[k] = cols
       /\ Rows(w.update, "homework") = None
  <2>1. Rows(w.update, "response") = one /\ Rows(w.update, "homework") = None
    BY <1>6, <1>8 DEF Rows
  <2> QED BY <1>6, <2>1, OneOf
<1>11. /\ Rows(w.insert, "homework") = None /\ Rows(w.insert, "response") = None
      /\ Rows(w.put, "homework") = None /\ Rows(w.put, "response") = None /\ DOMAIN None = {}
      /\ Rows(w.insert, "notice") = None /\ Rows(w.put, "notice") = None
  BY <1>8, NoRows
<1>12. Fits(w, "homework", Lessons, Homework) /\ Fits(w, "response", Lessons \X Pupils, Response)
  BY <1>9, <1>10, <1>11 DEF Fits
<1>13. FileFits(w, "homework", stored \cup {}) /\ FileFits(w, "response", stored \cup {})
  BY <1>9, <1>10, <1>11 DEF FileFits
<1>14. HeadFits(w, "homework", "homework") /\ OnlyFits(w, {"homework"})
  BY <1>8, <1>11 DEF HeadFits, OnlyFits
<1> QED BY <1>7, <1>8, <1>12, <1>13, <1>14 DEF HomeworkOpens, Opens

(* The handlers of homework preserve their invariant.                      *)
LEMMA HomeworkBegin ==
  ASSUME Shape, HomeworkInv, NEW s \in Sessions, HomeworkStep(s)
  PROVE  HomeworkInv' /\ Shape' /\ UNCHANGED <<area, db, today, serial>>
<1>1. PICK w, objects : HomeworkOpens(s, w, objects)
  BY CreateHomeworkPrepares, RespondPrepares, ReviewPrepares DEF HomeworkStep
<1>2. Shape' /\ UNCHANGED <<area, db, today, serial>>
  BY <1>1, BeginShape DEF HomeworkOpens, Opens
<1>3. TableStays("homework", Lessons, Homework) /\ TableStays("response", Lessons \X Pupils, Response)
  BY <1>1, TableBegin DEF HomeworkInv, HomeworkOpens, Opens
<1>4. FileInv("homework")' /\ FileInv("response")'
  BY <1>1, FileBegin DEF HomeworkInv, HomeworkOpens, Opens
<1>5. HeadInv("homework", "homework")' /\ OnlyInv({"homework"})'
  BY <1>1, HeadBegin, OnlyBegin DEF HomeworkInv, HomeworkOpens, Opens
<1> QED BY <1>2, <1>3, <1>4, <1>5 DEF HomeworkInv, TableStays, TableInv, Fits

(* The end of a request preserves the invariant of homework.               *)
LEMMA HomeworkEnd ==
  ASSUME Shape, HomeworkInv, NEW s \in Sessions, EndOfRequest(s)
  PROVE  HomeworkInv'
<1>1. DOMAIN db' = DOMAIN db
  BY OnlyCommits DEF HomeworkInv
<1>3. TableStays("homework", Lessons, Homework) /\ TableStays("response", Lessons \X Pupils, Response)
  BY TableEnd DEF HomeworkInv
<1>4. FileInv("homework")' /\ FileInv("response")'
  BY FileEnd DEF HomeworkInv
<1>5. HeadInv("homework", "homework")' /\ OnlyInv({"homework"})'
  BY HeadEnd, OnlyEnd DEF HomeworkInv
<1> QED BY <1>1, <1>3, <1>4, <1>5 DEF HomeworkInv, TableStays, TableInv, Fits

(* Columns of a document that change. *)
LEMMA DocumentFits ==
  ASSUME NEW columns, DOMAIN columns \subseteq {"status", "file", "dated"},
         "status" \in DOMAIN columns => columns["status"] \in DocumentStatus,
         "file" \in DOMAIN columns => columns["file"] \in BOOLEAN,
         "dated" \in DOMAIN columns => columns["dated"] \in BOOLEAN
  PROVE  Fitting(Document, columns)
<1> SUFFICES ASSUME NEW row \in Document PROVE Over(row, columns) \in Document
  BY DEF Fitting
<1>1. PICK r : r = Over(row, columns)
  OBVIOUS
<1>2. r = [c \in {"student", "type", "status", "file", "dated"} |-> IF c \in DOMAIN columns THEN columns[c] ELSE row[c]]
  BY <1>1 DEF Over, Document
<1>3. /\ r["student"] = row["student"] /\ r["type"] = row["type"] /\ r["status"] \in DocumentStatus
      /\ r["file"] \in BOOLEAN /\ r["dated"] \in BOOLEAN
  BY <1>2 DEF Document
<1>4. r \in Document
  BY <1>2, <1>3 DEF Document
<1> QED
  BY <1>1, <1>4

(* The two settings, what is reviewed and what is required. *)
Values(key) == IF key = "review" THEN SUBSET DocIds ELSE SUBSET DocTypes
SettingFits(w) ==
    /\ Rows(w.insert, "setting") = None /\ Rows(w.update, "setting") = None
    /\ \A key \in DOMAIN Rows(w.put, "setting") :
          /\ key \in {"review", "required"}
          /\ Rows(w.put, "setting")[key].new = [value |-> Rows(w.put, "setting")[key].set.value]
          /\ Rows(w.put, "setting")[key].set = [value |-> Rows(w.put, "setting")[key].set.value]
          /\ Rows(w.put, "setting")[key].set.value \in Values(key)
SettingsTyped == \A key \in Keys("setting") : key \in {"review", "required"} /\ db.setting[key] \in [value : Values(key)]

(* What is written agrees with what was read. *)
DocumentWrites(w) ==
    /\ \A k \in DOMAIN Rows(w.insert, "document") :
          LET row == Rows(w.insert, "document")[k] IN
          /\ k \notin Keys("document") /\ row.dated = (row.status = "approved")
          /\ \A d \in Keys("document") : db.document[d].student # row.student \/ db.document[d].type # row.type
          /\ \A j \in DOMAIN Rows(w.insert, "document") :
                Rows(w.insert, "document")[j].student = row.student /\ Rows(w.insert, "document")[j].type = row.type
                => j = k
    /\ \A k \in DOMAIN Rows(w.update, "document") \cap Keys("document") :
          LET row == Over(db.document[k], Rows(w.update, "document")[k]) IN
          /\ row.dated = (row.status = "approved")
          /\ row.student = db.document[k].student /\ row.type = db.document[k].type
SettingWrites(w) ==
    /\ "review" \in DOMAIN Rows(w.put, "setting") => Setting("review") \subseteq Rows(w.put, "setting")["review"].set.value
    /\ \A n \in DOMAIN Rows(w.put, "notice") : n[1] = "reviewed" =>
          "review" \in DOMAIN Rows(w.put, "setting") /\ n[2] \in Rows(w.put, "setting")["review"].set.value
    /\ "required" \in DOMAIN Rows(w.put, "setting") =>
          \A p \in Pupils : \A type \in Rows(w.put, "setting")["required"].set.value :
             \/ \E d \in Keys("document") : db.document[d].student = p /\ db.document[d].type = type
             \/ \E k \in DOMAIN Rows(w.insert, "document") :
                   Rows(w.insert, "document")[k].student = p /\ Rows(w.insert, "document")[k].type = type

DocumentWork(w) ==
    /\ w.tell = {} /\ w.drop = None /\ SettingFits(w)
    /\ serial /\ w.state = "open" => DocumentWrites(w) /\ SettingWrites(w)

DocumentsGood ==
    /\ \A d, e \in Keys("document") :
          db.document[d].student = db.document[e].student /\ db.document[d].type = db.document[e].type => d = e
    /\ \A d \in Keys("document") : db.document[d].dated = (db.document[d].status = "approved")
    /\ \A n \in Keys("notice") : n[1] = "reviewed" => n[2] \in Setting("review")
    /\ \A p \in Pupils : \A type \in Setting("required") :
          \E d \in Keys("document") : db.document[d].student = p /\ db.document[d].type = type

DocumentsInv ==
    /\ DOMAIN db = {"document", "setting", "notice"}
    /\ TableInv("document", DocIds, Document)
    /\ FileInv("document")
    /\ HeadInv("uploaded", "document") /\ HeadInv("reviewed", "document") /\ OnlyInv({"uploaded", "reviewed"})
    /\ SettingsTyped
    /\ \A s \in Sessions : DocumentWork(tx[s])
    /\ serial => DocumentsGood

DocumentsOpens(s, w, objects) ==
    /\ Opens(s, w, stored \cup objects)
    /\ Fits(w, "document", DocIds, Document)
    /\ FileFits(w, "document", stored \cup objects)
    /\ HeadFits(w, "uploaded", "document") /\ HeadFits(w, "reviewed", "document") /\ OnlyFits(w, {"uploaded", "reviewed"})
    /\ DocumentWork(w)

(* What the flush makes of the settings of documents.                      *)
LEMMA SettingFlush ==
  ASSUME SettingsTyped, NEW w, SettingFits(w), w.drop = None
  PROVE  /\ DOMAIN Flushed(w, "setting") = Keys("setting") \cup DOMAIN Rows(w.put, "setting")
         /\ \A key \in DOMAIN Flushed(w, "setting") :
              Flushed(w, "setting")[key] = IF key \in DOMAIN Rows(w.put, "setting")
                                           THEN [value |-> Rows(w.put, "setting")[key].set.value] ELSE db.setting[key]
         /\ \A key \in DOMAIN Flushed(w, "setting") :
              key \in {"review", "required"} /\ Flushed(w, "setting")[key] \in [value : Values(key)]
<1>1. PICK f, put : f = Flushed(w, "setting") /\ put = Rows(w.put, "setting")
  OBVIOUS
<1>2. /\ DOMAIN f = Keys("setting") \cup DOMAIN put
      /\ \A k \in DOMAIN f : f[k] =
            IF k \in DOMAIN put
            THEN IF k \in Keys("setting") THEN Over(db["setting"][k], put[k].set) ELSE put[k].new
            ELSE db["setting"][k]
  BY <1>1, PutFlush DEF SettingFits
<1>3. \A key \in DOMAIN put : /\ key \in {"review", "required"} /\ put[key].new = [value |-> put[key].set.value]
                              /\ put[key].set = [value |-> put[key].set.value] /\ put[key].set.value \in Values(key)
  BY <1>1 DEF SettingFits
<1>4. \A key \in Keys("setting") : key \in {"review", "required"} /\ db["setting"][key] \in [value : Values(key)]
  BY DEF SettingsTyped
<1>5. ASSUME NEW key \in DOMAIN f
      PROVE  /\ f[key] = IF key \in DOMAIN put THEN [value |-> put[key].set.value] ELSE db["setting"][key]
             /\ key \in {"review", "required"} /\ f[key] \in [value : Values(key)]
  <2>1. CASE key \notin DOMAIN put
    BY <1>2, <1>4, <1>5, <2>1
  <2>2. CASE key \in DOMAIN put /\ key \notin Keys("setting")
    <3>1. f[key] = [value |-> put[key].set.value]
      BY <1>2, <1>3, <1>5, <2>2
    <3> QED BY <1>3, <2>2, <3>1
  <2>3. CASE key \in DOMAIN put /\ key \in Keys("setting")
    <3>1. PICK old, v, set : old = db["setting"][key] /\ v = put[key].set.value /\ set = put[key].set
      OBVIOUS
    <3>2. old \in [value : Values(key)] /\ set = [value |-> v] /\ v \in Values(key)
      BY <1>3, <1>4, <2>3, <3>1
    <3>3. f[key] = Over(old, set)
      BY <1>2, <1>5, <2>3, <3>1
    <3>4. Over(old, set) = [value |-> v]
      BY <3>2, OverIs
    <3> QED BY <1>3, <2>3, <3>1, <3>2, <3>3, <3>4
  <2> QED BY <2>1, <2>2, <2>3
<1>6. DOMAIN f = Keys("setting") \cup DOMAIN put
  BY <1>2
<1> QED BY <1>1, <1>5, <1>6

(* A commit of a unit of work that agrees with what is committed leaves    *)
(* documents and settings that agree. *)
LEMMA DocumentsCommit ==
  ASSUME Shape, DocumentsInv, serial, NEW s \in Sessions, Commit(s)
  PROVE  DocumentsGood'
<1>1. PICK w : w = tx[s]
  OBVIOUS
<1>2. DocumentWrites(w) /\ SettingWrites(w) /\ DocumentWork(w)
  BY <1>1, CommitShape DEF DocumentsInv, DocumentWork
<1>3. PICK fd, fs, fn : fd = Flushed(w, "document") /\ fs = Flushed(w, "setting") /\ fn = Flushed(w, "notice")
  OBVIOUS
<1>4. db'["document"] = fd /\ db'["setting"] = fs /\ db'["notice"] = fn
  <2>1. db' = [t \in DOMAIN db |-> Flushed(w, t)]
    BY <1>1, CommitShape
  <2>2. {"document", "setting", "notice"} \subseteq DOMAIN db
    BY DEF DocumentsInv
  <2> QED BY <1>3, <2>1, <2>2
<1>5. PICK new, cols, put, told : /\ new = Rows(w.insert, "document") /\ cols = Rows(w.update, "document")
                            /\ put = Rows(w.put, "setting") /\ told = Rows(w.put, "notice")
  OBVIOUS
<1>6. /\ DOMAIN fd = Keys("document") \cup DOMAIN new
      /\ \A k \in DOMAIN fd : fd[k] =
            IF k \in DOMAIN new THEN new[k]
            ELSE IF k \in DOMAIN cols THEN Over(db["document"][k], cols[k])
            ELSE db["document"][k]
  <2>1. Rows(w.put, "document") = None /\ w.drop = None
    BY <1>1, <1>2 DEF DocumentsInv, FileInv, FileFits, DocumentWork
  <2>2. /\ DOMAIN Flushed(w, "document") = Keys("document") \cup DOMAIN Rows(w.insert, "document")
        /\ \A k \in DOMAIN Flushed(w, "document") : Flushed(w, "document")[k] =
               IF k \in DOMAIN Rows(w.insert, "document") THEN Rows(w.insert, "document")[k]
               ELSE IF k \in DOMAIN Rows(w.update, "document") THEN Over(db["document"][k], Rows(w.update, "document")[k])
               ELSE db["document"][k]
    BY <2>1, PlainFlush
  <2> QED BY <1>3, <1>5, <2>2
<1>7. /\ DOMAIN fs = Keys("setting") \cup DOMAIN put
      /\ \A key \in DOMAIN fs : fs[key] = IF key \in DOMAIN put THEN [value |-> put[key].set.value] ELSE db["setting"][key]
  BY <1>2, <1>3, <1>5, SettingFlush DEF DocumentsInv, DocumentWork
<1>8. DOMAIN fn = Keys("notice") \cup DOMAIN told
  <2>1. DOMAIN Rows(w.insert, "notice") = {}
    BY <1>1, NoRows DEF DocumentsInv, HeadInv, HeadFits
  <2> QED BY <1>2, <1>3, <1>5, <2>1, NothingDropped DEF DocumentWork
<1>9. /\ \A k \in DOMAIN new :
          /\ k \notin Keys("document") /\ new[k].dated = (new[k].status = "approved")
          /\ \A d \in Keys("document") : db.document[d].student # new[k].student \/ db.document[d].type # new[k].type
          /\ \A j \in DOMAIN new : new[j].student = new[k].student /\ new[j].type = new[k].type => j = k
      /\ \A k \in DOMAIN cols \cap Keys("document") :
          /\ Over(db.document[k], cols[k]).dated = (Over(db.document[k], cols[k]).status = "approved")
          /\ Over(db.document[k], cols[k]).student = db.document[k].student
          /\ Over(db.document[k], cols[k]).type = db.document[k].type
  BY <1>2, <1>5 DEF DocumentWrites
<1>10. /\ \A k \in Keys("document") : /\ fd[k].student = db.document[k].student /\ fd[k].type = db.document[k].type
                                      /\ fd[k].dated = (fd[k].status = "approved")
       /\ \A k \in DOMAIN new : fd[k] = new[k]
  BY <1>6, <1>9 DEF DocumentsInv, DocumentsGood
<1>11. Keys("document")' = Keys("document") \cup DOMAIN new /\ Keys("setting")' = DOMAIN fs /\ Keys("notice")' = DOMAIN fn
  BY <1>4, <1>6 DEF Keys
<1>12. \A d, e \in Keys("document")' : fd[d].student = fd[e].student /\ fd[d].type = fd[e].type => d = e
  <2> SUFFICES ASSUME NEW d \in Keys("document")', NEW e \in Keys("document")',
                      fd[d].student = fd[e].student, fd[d].type = fd[e].type
               PROVE d = e
    OBVIOUS
  <2>1. CASE d \in Keys("document") /\ e \in Keys("document")
    BY <1>10, <2>1 DEF DocumentsInv, DocumentsGood
  <2>2. CASE d \in DOMAIN new /\ e \in Keys("document")
    BY <1>9, <1>10, <2>2
  <2>3. CASE e \in DOMAIN new /\ d \in Keys("document")
    BY <1>9, <1>10, <2>3
  <2>4. CASE d \in DOMAIN new /\ e \in DOMAIN new
    BY <1>9, <1>10, <2>4
  <2> QED BY <1>11, <2>1, <2>2, <2>3, <2>4
<1>13. \A d \in Keys("document")' : fd[d].dated = (fd[d].status = "approved")
  BY <1>9, <1>10, <1>11
<1>14. \A key \in {"review", "required"} : Setting(key)' = IF key \in DOMAIN put THEN put[key].set.value ELSE Setting(key)
  <2> SUFFICES ASSUME NEW key \in {"review", "required"}
               PROVE  Setting(key)' = IF key \in DOMAIN put THEN put[key].set.value ELSE Setting(key)
    OBVIOUS
  <2>1. key \in DOMAIN fs => Setting(key)' = fs[key].value
    BY <1>4, <1>11 DEF Setting
  <2>2. key \notin DOMAIN fs => Setting(key)' = {}
    BY <1>4, <1>11 DEF Setting
  <2>3. CASE key \in DOMAIN put
    <3>1. fs[key] = [value |-> put[key].set.value]
      BY <1>7, <2>3
    <3> QED BY <1>7, <2>1, <2>3, <3>1
  <2>4. CASE key \notin DOMAIN put
    BY <1>7, <2>1, <2>2, <2>4 DEF Setting
  <2> QED BY <2>3, <2>4
<1>15. \A n \in Keys("notice")' : n[1] = "reviewed" => n[2] \in Setting("review")'
  <2>1. \A n \in Keys("notice") : n[1] = "reviewed" => n[2] \in Setting("review")
    BY DEF DocumentsInv, DocumentsGood
  <2>2. /\ "review" \in DOMAIN put => Setting("review") \subseteq put["review"].set.value
        /\ \A n \in DOMAIN told : n[1] = "reviewed" => "review" \in DOMAIN put /\ n[2] \in put["review"].set.value
    BY <1>2, <1>5 DEF SettingWrites
  <2>3. Keys("notice")' = Keys("notice") \cup DOMAIN told
    BY <1>8, <1>11
  <2> QED BY <1>14, <2>1, <2>2, <2>3
<1>16. \A p \in Pupils : \A type \in Setting("required")' :
          \E d \in Keys("document")' : fd[d].student = p /\ fd[d].type = type
  <2> SUFFICES ASSUME NEW p \in Pupils, NEW type \in Setting("required")'
               PROVE \E d \in Keys("document")' : fd[d].student = p /\ fd[d].type = type
    OBVIOUS
  <2>1. \/ \E d \in Keys("document") : db.document[d].student = p /\ db.document[d].type = type
        \/ \E k \in DOMAIN new : new[k].student = p /\ new[k].type = type
    <3>1. CASE "required" \in DOMAIN put
      <4>1. type \in put["required"].set.value
        BY <1>14, <3>1
      <4> QED BY <1>2, <1>5, <3>1, <4>1 DEF SettingWrites
    <3>2. CASE "required" \notin DOMAIN put
      <4>1. type \in Setting("required")
        BY <1>14, <3>2
      <4> QED BY <4>1 DEF DocumentsInv, DocumentsGood
    <3> QED BY <3>1, <3>2
  <2> QED BY <1>10, <1>11, <2>1
<1> QED BY <1>4, <1>12, <1>13, <1>15, <1>16 DEF DocumentsGood

(* An update of one document that dates what it approves is sound.         *)
LEMMA DocumentUpdates ==
  ASSUME DocumentsInv, NEW d \in Keys("document"), NEW set, DOMAIN set \subseteq {"status", "file", "dated"},
         {"status", "dated"} \subseteq DOMAIN set,
         set["status"] \in DocumentStatus, set["dated"] = (set["status"] = "approved"),
         "file" \in DOMAIN set => set["file"] \in BOOLEAN,
         NEW objects, "file" \in DOMAIN set /\ set["file"] => <<"document", d>> \in objects,
         NEW w, Rows(w.insert, "document") = None, Rows(w.put, "document") = None,
         DOMAIN Rows(w.update, "document") = {d},
         Rows(w.update, "document")[d] = Changed(db.document[d], set)
  PROVE  Fits(w, "document", DocIds, Document) /\ FileFits(w, "document", objects) /\ DocumentWrites(w)
<1>1. PICK row, cols : row = db.document[d] /\ cols = Rows(w.update, "document")[d]
  OBVIOUS
<1>2. cols = Changed(row, set)
  BY <1>1
<1>3. DOMAIN cols \subseteq DOMAIN set /\ \A c \in DOMAIN cols : cols[c] = set[c]
  BY <1>2, ChangedIs
<1>4. row \in Document
  BY <1>1 DEF DocumentsInv, TableInv, Table
<1>5. DOMAIN None = {}
  BY NoRows
<1>6. Fitting(Document, cols)
  <2>1. set["dated"] \in BOOLEAN
    OBVIOUS
  <2> QED BY <1>3, <2>1, DocumentFits
<1>7. Fits(w, "document", DocIds, Document)
  BY <1>1, <1>5, <1>6 DEF Fits
<1>8. FileFits(w, "document", objects)
  BY <1>1, <1>3, <1>5 DEF FileFits
<1>9. PICK over : over = Over(row, set)
  OBVIOUS
<1>10. Over(row, cols) = over
  BY <1>2, <1>9, OverChanged
<1>11. DOMAIN row = {"student", "type", "status", "file", "dated"}
  BY <1>4 DEF Document
<1>12. over["status"] = set["status"] /\ over["dated"] = set["dated"] /\ over["student"] = row["student"] /\ over["type"] = row["type"]
  BY <1>9, <1>11, OverIs
<1>13. DocumentWrites(w)
  BY <1>1, <1>5, <1>10, <1>12 DEF DocumentWrites
<1> QED BY <1>7, <1>8, <1>13

(* Rows of documents that are new, each the first of its student and type. *)
NewDocuments(new, objects) ==
    \A k \in DOMAIN new :
       /\ k \in DocIds /\ new[k] \in Document /\ k \notin Keys("document")
       /\ new[k].file => <<"document", k>> \in objects
       /\ new[k].dated = (new[k].status = "approved")
       /\ DocumentsOf(new[k].student, new[k].type) = {}
       /\ \A j \in DOMAIN new : new[j].student = new[k].student /\ new[j].type = new[k].type => j = k

(* New documents that are blank are sound.                                 *)
LEMMA DocumentInserts ==
  ASSUME NEW objects, NEW w, Rows(w.update, "document") = None, Rows(w.put, "document") = None,
         NEW new, new = Rows(w.insert, "document"), NewDocuments(new, objects)
  PROVE  Fits(w, "document", DocIds, Document) /\ FileFits(w, "document", objects) /\ DocumentWrites(w)
<1>1. DOMAIN None = {}
  BY NoRows
<1>2. \A k \in DOMAIN new : "file" \in DOMAIN new[k]
  BY DEF NewDocuments, Document
<1>3. Fits(w, "document", DocIds, Document)
  BY <1>1 DEF Fits, NewDocuments
<1>4. FileFits(w, "document", objects)
  BY <1>1, <1>2 DEF FileFits, NewDocuments
<1>5. \A k \in DOMAIN new : \A d \in Keys("document") : db.document[d].student # new[k].student \/ db.document[d].type # new[k].type
  BY DEF NewDocuments, DocumentsOf
<1>6. DocumentWrites(w)
  BY <1>1, <1>5 DEF DocumentWrites, NewDocuments
<1> QED BY <1>3, <1>4, <1>6

IsBlank(row, p, type, status) ==
    /\ row \in Document /\ row.student = p /\ row.type = type /\ row.status = status
    /\ row.file = FALSE /\ row.dated = FALSE

(* A blank document is a row of its type without file or date.             *)
LEMMA BlankIs ==
  ASSUME NEW p \in Pupils, NEW type \in DocTypes, NEW status \in DocumentStatus
  PROVE  IsBlank(Blank(p, type, status), p, type, status)
<1>1. PICK no, row : no = FALSE /\ row = Blank(p, type, status)
  OBVIOUS
<1>2. row = [student |-> p, type |-> type, status |-> status, file |-> no, dated |-> no]
  BY <1>1 DEF Blank
<1>3. no \in BOOLEAN BY <1>1
<1>4. row \in Document /\ row.student = p /\ row.type = type /\ row.status = status /\ row.file = no /\ row.dated = no
  BY <1>2, <1>3 DEF Document
<1> QED BY <1>1, <1>4 DEF IsBlank

(* A unit of work that writes no setting and schedules no notice. *)
LEMMA NoSettings ==
  ASSUME NEW w, Rows(w.put, "setting") = None, Rows(w.insert, "setting") = None, Rows(w.update, "setting") = None
  PROVE  SettingFits(w) /\ ((\A n \in DOMAIN Rows(w.put, "notice") : n[1] # "reviewed") => SettingWrites(w))
BY NoRows DEF SettingFits, SettingWrites

(* What the handler of "request" collects is sound.                        *)
LEMMA RequestPrepares ==
  ASSUME DocumentsInv, NEW s \in Sessions, NEW d \in DocIds, NEW p \in Pupils, NEW type \in DocTypes,
         RequestDocument(s, d, p, type)
  PROVE  \E w, objects : DocumentsOpens(s, w, objects)
<1>1. CASE /\ DocumentsOf(p, type) = {} /\ Unused("document", d)
           /\ Begin(s, [Work EXCEPT !.insert = [document |-> d :> Blank(p, type, "requested")]])
  <2>1. PICK row : row = Blank(p, type, "requested")
    OBVIOUS
  <2>2. PICK one, new, w : one = (d :> row) /\ new = [document |-> one] /\ w = [Work EXCEPT !.insert = new]
    OBVIOUS
  <2>3. BeginWith(s, w, stored \cup {})
    BY <1>1, <2>1, <2>2 DEF Begin, BeginStoring
  <2>4. /\ w.insert = new /\ w.update = None /\ w.put = None /\ w.drop = None /\ w.tell = {} /\ w.state = "open"
        /\ WorkShape(w)
    BY <2>2 DEF Work, Idle, WorkShape
  <2>5. Rows(w.insert, "document") = one /\ Rows(w.insert, "setting") = None /\ Rows(w.insert, "notice") = None
    BY <2>2, <2>4 DEF Rows
  <2>6. /\ Rows(w.update, "document") = None /\ Rows(w.update, "setting") = None
        /\ Rows(w.put, "document") = None /\ Rows(w.put, "setting") = None /\ Rows(w.put, "notice") = None
        /\ DOMAIN None = {}
    BY <2>4, NoRows
  <2>7. DOMAIN one = {d} /\ one[d] = row /\ d \notin Keys("document")
    BY <1>1, <2>2, OneOf DEF Unused
  <2>8. row \in Document /\ row.student = p /\ row.type = type /\ row.status = "requested" /\ ~row.file /\ row.dated = FALSE
    <3>1. "requested" \in DocumentStatus
      BY DEF DocumentStatus
    <3>2. IsBlank(row, p, type, "requested")
      BY <2>1, <3>1, BlankIs
    <3> QED BY <3>2 DEF IsBlank
  <2>9. Fits(w, "document", DocIds, Document) /\ FileFits(w, "document", stored \cup {}) /\ DocumentWrites(w)
    <3>1. NewDocuments(one, stored \cup {})
      BY <1>1, <2>7, <2>8 DEF NewDocuments
    <3> QED BY <2>5, <2>6, <3>1, DocumentInserts
  <2>10. DocumentWork(w)
    BY <2>4, <2>5, <2>6, <2>9, NoSettings DEF DocumentWork
  <2>11. HeadFits(w, "uploaded", "document") /\ HeadFits(w, "reviewed", "document") /\ OnlyFits(w, {"uploaded", "reviewed"})
    BY <2>4, <2>5, <2>6 DEF HeadFits, OnlyFits
  <2> QED BY <2>3, <2>4, <2>9, <2>10, <2>11 DEF DocumentsOpens, Opens
<1>2. CASE /\ d \in DocumentsOf(p, type) /\ db.document[d].status = "not_uploaded"
           /\ Begin(s, [Work EXCEPT !.update = [document |->
                  Sets("document", d, [status |-> "requested", dated |-> FALSE])]])
  <2>1. PICK set, cols : set = [status |-> "requested", dated |-> FALSE] /\ cols = Changed(db["document"][d], set)
    OBVIOUS
  <2>2. PICK one, up, w : one = (d :> cols) /\ up = [document |-> one] /\ w = [Work EXCEPT !.update = up]
    OBVIOUS
  <2>3. BeginWith(s, w, stored \cup {})
    BY <1>2, <2>1, <2>2 DEF Begin, BeginStoring, Sets
  <2>4. /\ w.update = up /\ w.insert = None /\ w.put = None /\ w.drop = None /\ w.tell = {} /\ w.state = "open"
        /\ WorkShape(w)
    BY <2>2 DEF Work, Idle, WorkShape
  <2>5. Rows(w.update, "document") = one /\ Rows(w.update, "setting") = None
    BY <2>2, <2>4 DEF Rows
  <2>6. /\ Rows(w.insert, "document") = None /\ Rows(w.insert, "setting") = None /\ Rows(w.insert, "notice") = None
        /\ Rows(w.put, "document") = None /\ Rows(w.put, "setting") = None /\ Rows(w.put, "notice") = None
        /\ DOMAIN None = {}
    BY <2>4, NoRows
  <2>7. DOMAIN one = {d} /\ one[d] = cols /\ d \in Keys("document")
    BY <1>2, <2>2, OneOf DEF DocumentsOf
  <2>8. /\ DOMAIN set = {"status", "dated"} /\ set["status"] = "requested" /\ set["dated"] = FALSE
    BY <2>1
  <2>9. Fits(w, "document", DocIds, Document) /\ FileFits(w, "document", stored \cup {}) /\ DocumentWrites(w)
    <3>1. "requested" \in DocumentStatus /\ set["dated"] = (set["status"] = "approved")
      BY <2>8 DEF DocumentStatus
    <3> QED BY <2>1, <2>5, <2>6, <2>7, <2>8, <3>1, DocumentUpdates
  <2>10. DocumentWork(w)
    BY <2>4, <2>5, <2>6, <2>9, NoSettings DEF DocumentWork
  <2>11. HeadFits(w, "uploaded", "document") /\ HeadFits(w, "reviewed", "document") /\ OnlyFits(w, {"uploaded", "reviewed"})
    BY <2>4, <2>5, <2>6 DEF HeadFits, OnlyFits
  <2> QED BY <2>3, <2>4, <2>9, <2>10, <2>11 DEF DocumentsOpens, Opens
<1> QED BY <1>1, <1>2 DEF RequestDocument

(* What an upload sets, by who uploads.                                    *)
LEMMA UploadedIs ==
  ASSUME NEW by \in {"staff", "teacher", "family"}, NEW set, set = Uploaded(by)
  PROVE  /\ DOMAIN set = {"file", "dated", "status"} /\ set["file"] = TRUE /\ set["status"] \in DocumentStatus
         /\ set["dated"] = (set["status"] = "approved")
<1>1. PICK yes, staff, st : yes = TRUE /\ staff = (by = "staff") /\ st = IF by = "staff" THEN "approved" ELSE "pending"
  OBVIOUS
<1>2. set = [file |-> yes, dated |-> staff, status |-> st]
  BY <1>1 DEF Uploaded
<1>3. DOMAIN set = {"file", "dated", "status"} /\ set["file"] = yes /\ set["status"] = st /\ set["dated"] = staff
  BY <1>2
<1>4. st \in DocumentStatus
  BY <1>1 DEF DocumentStatus
<1>5. staff = (st = "approved")
  BY <1>1
<1> QED BY <1>1, <1>3, <1>4, <1>5

(* What the handlers write besides the document. *)
LEMMA ToldIs ==
  ASSUME NEW S PROVE DOMAIN Told(S) = S /\ \A n \in DOMAIN Told(S) : "of" \notin DOMAIN Told(S)[n].new
<1>1. PICK no, row, put : no = FALSE /\ row = [read |-> no] /\ put = [new |-> row, set |-> None]
  OBVIOUS
<1>2. Told(S) = [n \in S |-> put]
  BY <1>1 DEF Told
<1>3. put.new = row /\ "of" \notin DOMAIN row
  BY <1>1
<1>4. PICK f : f = Told(S)
  OBVIOUS
<1>5. DOMAIN f = S /\ \A n \in S : f[n] = put
  BY <1>2, <1>4
<1> QED BY <1>3, <1>4, <1>5

(* What the handler of "upload" collects is sound.                         *)
LEMMA UploadPrepares ==
  ASSUME DocumentsInv, NEW s \in Sessions, NEW d \in DocIds, NEW p \in Pupils, NEW type \in DocTypes,
         NEW by \in {"staff", "teacher", "family"}, UploadDocument(s, d, p, type, by)
  PROVE  \E w, objects : DocumentsOpens(s, w, objects)
<1>1. PICK told, put : /\ told = Told({<<"uploaded", d>>})
                       /\ put = IF by = "family" THEN [notice |-> told] ELSE None
  OBVIOUS
<1>2. PICK objects : objects = {<<"document", d>>}
  OBVIOUS
<1>3. PICK set : set = Uploaded(by)
  OBVIOUS
<1>4. /\ DOMAIN set = {"file", "dated", "status"} /\ set["file"] = TRUE /\ set["status"] \in DocumentStatus
      /\ set["dated"] = (set["status"] = "approved")
  BY <1>3, UploadedIs
<1>5. /\ Rows(put, "document") = None /\ Rows(put, "setting") = None
      /\ \A n \in DOMAIN Rows(put, "notice") : n = <<"uploaded", d>>
      /\ \A n \in DOMAIN Rows(put, "notice") : "of" \notin DOMAIN Rows(put, "notice")[n].new
  BY <1>1, NoRows, ToldIs DEF Rows
<1>6. CASE Unused("document", d) /\ DocumentsOf(p, type) = {}
  <2>1. PICK old, row : old = Blank(p, type, "pending") /\ row = Over(old, set)
    OBVIOUS
  <2>2. PICK one, new, w : one = (d :> row) /\ new = [document |-> one] /\ w = [Work EXCEPT !.insert = new, !.update = None, !.put = put]
    OBVIOUS
  <2>3. BeginWith(s, w, stored \cup objects)
    BY <1>1, <1>2, <1>3, <1>6, <2>1, <2>2 DEF UploadDocument, BeginStoring
  <2>4. /\ w.insert = new /\ w.update = None /\ w.put = put /\ w.drop = None /\ w.tell = {} /\ w.state = "open"
        /\ WorkShape(w)
    BY <2>2 DEF Work, Idle, WorkShape
  <2>5. Rows(w.insert, "document") = one /\ Rows(w.insert, "setting") = None /\ Rows(w.insert, "notice") = None
    BY <2>2, <2>4 DEF Rows
  <2>6. Rows(w.update, "document") = None /\ Rows(w.update, "setting") = None /\ DOMAIN None = {}
    BY <2>4, NoRows
  <2>7. DOMAIN one = {d} /\ one[d] = row /\ d \notin Keys("document")
    BY <1>6, <2>2, OneOf DEF Unused
  <2>8. row \in Document /\ row.student = p /\ row.type = type /\ row.dated = (row.status = "approved")
    <3>1. "pending" \in DocumentStatus
      BY DEF DocumentStatus
    <3>2. IsBlank(old, p, type, "pending")
      BY <2>1, <3>1, BlankIs
    <3>3. old \in Document /\ old["student"] = p /\ old["type"] = type
      BY <3>2 DEF IsBlank
    <3>4. DOMAIN old = {"student", "type", "status", "file", "dated"}
      BY <3>3 DEF Document
    <3>5. row["student"] = p /\ row["type"] = type /\ row["status"] = set["status"] /\ row["dated"] = set["dated"]
      BY <1>4, <2>1, <3>3, <3>4, OverIs
    <3>6. Fitting(Document, set)
      BY <1>4, DocumentFits
    <3> QED BY <1>4, <2>1, <3>3, <3>5, <3>6 DEF Fitting
  <2>9. Fits(w, "document", DocIds, Document) /\ FileFits(w, "document", stored \cup objects) /\ DocumentWrites(w)
    <3>1. NewDocuments(one, stored \cup objects)
      BY <1>2, <1>6, <2>7, <2>8 DEF NewDocuments
    <3> QED BY <1>5, <2>4, <2>5, <2>6, <3>1, DocumentInserts
  <2>10. DocumentWork(w)
    <3>1. \A n \in DOMAIN Rows(w.put, "notice") : n[1] # "reviewed"
      BY <1>5, <2>4
    <3> QED BY <1>5, <2>4, <2>5, <2>6, <2>9, <3>1, NoSettings DEF DocumentWork
  <2>11. HeadFits(w, "uploaded", "document") /\ HeadFits(w, "reviewed", "document") /\ OnlyFits(w, {"uploaded", "reviewed"})
    BY <1>5, <2>4, <2>5, <2>7 DEF HeadFits, OnlyFits
  <2> QED BY <2>3, <2>4, <2>9, <2>10, <2>11 DEF DocumentsOpens, Opens
<1>7. CASE ~(Unused("document", d) /\ DocumentsOf(p, type) = {})
  <2>1. PICK cols : cols = Changed(db["document"][d], set)
    OBVIOUS
  <2>2. PICK one, up, w : one = (d :> cols) /\ up = [document |-> one] /\ w = [Work EXCEPT !.insert = None, !.update = up, !.put = put]
    OBVIOUS
  <2>3. BeginWith(s, w, stored \cup objects)
    BY <1>1, <1>2, <1>3, <1>7, <2>1, <2>2 DEF UploadDocument, BeginStoring, Sets
  <2>4. /\ w.insert = None /\ w.update = up /\ w.put = put /\ w.drop = None /\ w.tell = {} /\ w.state = "open"
        /\ WorkShape(w)
    BY <2>2 DEF Work, Idle, WorkShape
  <2>5. Rows(w.update, "document") = one /\ Rows(w.update, "setting") = None
    BY <2>2, <2>4 DEF Rows
  <2>6. /\ Rows(w.insert, "document") = None /\ Rows(w.insert, "setting") = None /\ Rows(w.insert, "notice") = None
        /\ DOMAIN None = {}
    BY <2>4, NoRows
  <2>7. DOMAIN one = {d} /\ one[d] = cols /\ d \in Keys("document")
    BY <1>7, <2>2, OneOf DEF DocumentsOf, UploadDocument
  <2>9. Fits(w, "document", DocIds, Document) /\ FileFits(w, "document", stored \cup objects) /\ DocumentWrites(w)
    <3>1. Rows(w.insert, "document") = None /\ Rows(w.update, "document") = one
      BY <2>5, <2>6
    <3>2. Rows(w.update, "document")[d] = Changed(db.document[d], set) /\ DOMAIN Rows(w.update, "document") = {d}
      BY <2>1, <2>7, <3>1
    <3>3. Rows(w.put, "document") = None
      BY <1>5, <2>4
    <3> QED BY <1>2, <1>4, <2>7, <3>1, <3>2, <3>3, DocumentUpdates
  <2>10. DocumentWork(w)
    <3>1. \A n \in DOMAIN Rows(w.put, "notice") : n[1] # "reviewed"
      BY <1>5, <2>4
    <3> QED BY <1>5, <2>4, <2>5, <2>6, <2>9, <3>1, NoSettings DEF DocumentWork
  <2>11. HeadFits(w, "uploaded", "document") /\ HeadFits(w, "reviewed", "document") /\ OnlyFits(w, {"uploaded", "reviewed"})
    BY <1>5, <2>4, <2>6, <2>7 DEF HeadFits, OnlyFits
  <2> QED BY <2>3, <2>4, <2>9, <2>10, <2>11 DEF DocumentsOpens, Opens
<1> QED BY <1>6, <1>7

(* The put of a setting. *)
LEMMA SettingPutIs ==
  ASSUME NEW key, NEW value
  PROVE  /\ DOMAIN SettingPut(key, value) = {key}
         /\ SettingPut(key, value)[key].new = [value |-> value] /\ SettingPut(key, value)[key].set = [value |-> value]
<1>1. PICK v, row : v = [value |-> value] /\ row = [new |-> v, set |-> v]
  OBVIOUS
<1>2. SettingPut(key, value) = (key :> row)
  BY <1>1 DEF SettingPut
<1>3. row.new = v /\ row.set = v
  BY <1>1
<1>4. PICK one : one = SettingPut(key, value)
  OBVIOUS
<1>5. DOMAIN one = {key} /\ one[key] = row
  BY <1>2, <1>4, OneOf
<1> QED BY <1>1, <1>3, <1>4, <1>5

(* A setting, present or not, has a value of its type.                     *)
LEMMA SettingTyped ==
  ASSUME SettingsTyped, NEW key \in {"review", "required"}
  PROVE  Setting(key) \in Values(key)
<1>1. CASE key \in Keys("setting")
  BY <1>1 DEF Setting, SettingsTyped
<1>2. CASE key \notin Keys("setting")
  BY <1>2 DEF Setting, Values
<1> QED BY <1>1, <1>2

(* What the handler of "verify" collects is sound.                         *)
LEMMA VerifyPrepares ==
  ASSUME DocumentsInv, NEW s \in Sessions, NEW d \in DocIds, NEW approve \in BOOLEAN, VerifyDocument(s, d, approve)
  PROVE  \E w, objects : DocumentsOpens(s, w, objects)
<1>1. PICK told, review, put : /\ told = Told({<<"reviewed", d>>}) /\ review = Reviewed(d)
                               /\ put = [setting |-> review, notice |-> told]
  OBVIOUS
<1>2. PICK set, cols : /\ set = IF approve THEN [status |-> "approved", dated |-> TRUE]
                                ELSE [status |-> "rejected", dated |-> FALSE]
                       /\ cols = Changed(db["document"][d], set)
  OBVIOUS
<1>3. PICK one, up, w : one = (d :> cols) /\ up = [document |-> one] /\ w = [Work EXCEPT !.update = up, !.put = put]
  OBVIOUS
<1>4. BeginWith(s, w, stored \cup {})
  BY <1>1, <1>2, <1>3 DEF VerifyDocument, Begin, BeginStoring, Sets
<1>5. /\ w.insert = None /\ w.update = up /\ w.put = put /\ w.drop = None /\ w.tell = {} /\ w.state = "open"
      /\ WorkShape(w)
  BY <1>3 DEF Work, Idle, WorkShape
<1>6. Rows(w.update, "document") = one /\ Rows(w.update, "setting") = None
  BY <1>3, <1>5 DEF Rows
<1>7. /\ Rows(w.insert, "document") = None /\ Rows(w.insert, "setting") = None /\ Rows(w.insert, "notice") = None
      /\ DOMAIN None = {}
  BY <1>5, NoRows
<1>8. Rows(w.put, "document") = None /\ Rows(w.put, "setting") = review /\ Rows(w.put, "notice") = told
  BY <1>1, <1>5 DEF Rows
<1>9. DOMAIN one = {d} /\ one[d] = cols /\ d \in Keys("document")
  BY <1>3, OneOf DEF VerifyDocument
<1>10. /\ DOMAIN set = {"status", "dated"} /\ set["status"] \in DocumentStatus /\ set["dated"] = (set["status"] = "approved")
  BY <1>2 DEF DocumentStatus
<1>11. Fits(w, "document", DocIds, Document) /\ FileFits(w, "document", stored \cup {}) /\ DocumentWrites(w)
  <2>1. cols = Changed(db.document[d], set)
    BY <1>2
  <2>2. "file" \notin DOMAIN set /\ DOMAIN set \subseteq {"status", "file", "dated"} /\ {"status", "dated"} \subseteq DOMAIN set
    BY <1>10
  <2>3. Rows(w.update, "document")[d] = cols /\ DOMAIN Rows(w.update, "document") = {d}
    BY <1>6, <1>9
  <2> QED BY <1>7, <1>8, <1>9, <1>10, <2>1, <2>2, <2>3, DocumentUpdates
<1>12. PICK v : v = Setting("review") \cup {d}
  OBVIOUS
<1>13. review = SettingPut("review", v) /\ v \in Values("review")
  BY <1>1, <1>12, SettingTyped DEF Reviewed, Values, DocumentsInv
<1>14. /\ DOMAIN review = {"review"} /\ review["review"].new = [value |-> v] /\ review["review"].set = [value |-> v]
  BY <1>13, SettingPutIs
<1>15. review["review"].set.value = v
  BY <1>14
<1>16. SettingFits(w)
  BY <1>6, <1>7, <1>8, <1>13, <1>14, <1>15 DEF SettingFits
<1>17. SettingWrites(w)
  BY <1>1, <1>8, <1>12, <1>14, <1>15, ToldIs DEF SettingWrites
<1>18. DocumentWork(w)
  BY <1>5, <1>11, <1>16, <1>17 DEF DocumentWork
<1>19. HeadFits(w, "uploaded", "document") /\ HeadFits(w, "reviewed", "document") /\ OnlyFits(w, {"uploaded", "reviewed"})
  BY <1>1, <1>5, <1>7, <1>8, <1>9, ToldIs DEF HeadFits, OnlyFits
<1> QED BY <1>4, <1>5, <1>11, <1>18, <1>19 DEF DocumentsOpens, Opens

(* What the handler of "require" collects is sound.                        *)
LEMMA RequirePrepares ==
  ASSUME DocumentsInv, NEW s \in Sessions, NEW types \in Wishes, NEW id \in Injection(Lacking(types), DocIds),
         RequireDocuments(s, types, id)
  PROVE  \E w, objects : DocumentsOpens(s, w, objects)
<1>1. PICK put, setting : setting = SettingPut("required", types) /\ put = [setting |-> setting]
  OBVIOUS
<1>2. PICK rows, new : /\ rows = [e \in Range(id) |-> LET k == CHOOSE k \in DOMAIN id : id[k] = e IN Blank(k[1], k[2], "not_uploaded")]
                       /\ new = [document |-> rows]
  OBVIOUS
<1>3. PICK w : w = [Work EXCEPT !.put = put, !.insert = new]
  OBVIOUS
<1>4. BeginWith(s, w, stored \cup {})
  BY <1>1, <1>2, <1>3 DEF RequireDocuments, Begin, BeginStoring
<1>5. /\ w.insert = new /\ w.update = None /\ w.put = put /\ w.drop = None /\ w.tell = {} /\ w.state = "open"
      /\ WorkShape(w)
  BY <1>3 DEF Work, Idle, WorkShape
<1>6. /\ Rows(w.insert, "document") = rows /\ Rows(w.insert, "setting") = None /\ Rows(w.insert, "notice") = None
      /\ Rows(w.put, "document") = None /\ Rows(w.put, "setting") = setting /\ Rows(w.put, "notice") = None
  BY <1>1, <1>2, <1>5 DEF Rows
<1>7. Rows(w.update, "document") = None /\ Rows(w.update, "setting") = None /\ DOMAIN None = {}
  BY <1>5, NoRows
<1>8. /\ id \in [Lacking(types) -> DocIds] /\ \A j, k \in DOMAIN id : id[j] = id[k] => j = k
  BY DEF Injection, IsInjective
<1>9. \A k \in Lacking(types) : k = <<k[1], k[2]>> /\ k[1] \in Pupils /\ k[2] \in types /\ k[2] \in DocTypes
         /\ DocumentsOf(k[1], k[2]) = {} /\ id[k] \notin Keys("document")
  BY <1>8, DocumentsConstants DEF Lacking, RequireDocuments, Unused
<1>10. ASSUME NEW e \in DOMAIN rows
       PROVE  \E k \in Lacking(types) : id[k] = e /\ rows[e] = Blank(k[1], k[2], "not_uploaded")
  <2>1. e \in Range(id)
    BY <1>2
  <2>2. PICK k : k = CHOOSE j \in DOMAIN id : id[j] = e
    OBVIOUS
  <2>3. k \in DOMAIN id /\ id[k] = e
    BY <2>1, <2>2 DEF Range
  <2>4. rows[e] = Blank(k[1], k[2], "not_uploaded")
    BY <1>2, <2>1, <2>2
  <2> QED BY <1>8, <2>3, <2>4
<1>11. "not_uploaded" \in DocumentStatus
  BY DEF DocumentStatus
<1>12. \A e \in DOMAIN rows : \E k \in Lacking(types) : id[k] = e /\ IsBlank(rows[e], k[1], k[2], "not_uploaded")
  BY <1>9, <1>10, <1>11, BlankIs
<1>13. NewDocuments(rows, stored \cup {})
  <2> SUFFICES ASSUME NEW e \in DOMAIN rows
               PROVE  /\ e \in DocIds /\ rows[e] \in Document /\ e \notin Keys("document")
                      /\ rows[e].file => <<"document", e>> \in stored \cup {}
                      /\ rows[e].dated = (rows[e].status = "approved")
                      /\ DocumentsOf(rows[e].student, rows[e].type) = {}
                      /\ \A j \in DOMAIN rows : rows[j].student = rows[e].student /\ rows[j].type = rows[e].type => j = e
    BY DEF NewDocuments
  <2>1. PICK k \in Lacking(types) : id[k] = e /\ IsBlank(rows[e], k[1], k[2], "not_uploaded")
    BY <1>12
  <2>2. /\ rows[e] \in Document /\ rows[e].student = k[1] /\ rows[e].type = k[2] /\ rows[e].status = "not_uploaded"
        /\ rows[e].file = FALSE /\ rows[e].dated = FALSE
    BY <2>1 DEF IsBlank
  <2>3. \A j \in DOMAIN rows : rows[j].student = rows[e].student /\ rows[j].type = rows[e].type => j = e
    <3> SUFFICES ASSUME NEW j \in DOMAIN rows, rows[j].student = rows[e].student, rows[j].type = rows[e].type
                 PROVE  j = e
      OBVIOUS
    <3>1. PICK l \in Lacking(types) : id[l] = j /\ IsBlank(rows[j], l[1], l[2], "not_uploaded")
      BY <1>12
    <3>2. l[1] = k[1] /\ l[2] = k[2]
      BY <2>2, <3>1 DEF IsBlank
    <3>3. l = k
      BY <1>9, <3>2
    <3> QED BY <2>1, <3>1, <3>3
  <2> QED BY <1>8, <1>9, <2>1, <2>2, <2>3
<1>14. Fits(w, "document", DocIds, Document) /\ FileFits(w, "document", stored \cup {}) /\ DocumentWrites(w)
  BY <1>6, <1>7, <1>13, DocumentInserts
<1>15. /\ DOMAIN setting = {"required"} /\ setting["required"].new = [value |-> types]
       /\ setting["required"].set = [value |-> types]
  BY <1>1, SettingPutIs
<1>16. setting["required"].set.value = types
  BY <1>15
<1>17. SettingFits(w)
  BY <1>6, <1>7, <1>15, <1>16, DocumentsConstants DEF SettingFits, Values
<1>18. SettingWrites(w)
  <2>1. ASSUME NEW p \in Pupils, NEW type \in types
        PROVE  \/ \E d \in Keys("document") : db.document[d].student = p /\ db.document[d].type = type
               \/ \E k \in DOMAIN rows : rows[k].student = p /\ rows[k].type = type
    <3>1. CASE DocumentsOf(p, type) # {}
      BY <3>1 DEF DocumentsOf
    <3>2. CASE DocumentsOf(p, type) = {}
      <4>1. PICK k : k = <<p, type>>
        OBVIOUS
      <4>2. k \in Lacking(types) /\ k[1] = p /\ k[2] = type
        BY <3>2, <4>1 DEF Lacking
      <4>3. PICK e : e = id[k]
        OBVIOUS
      <4>4. e \in DOMAIN rows
        BY <1>2, <1>8, <4>2, <4>3 DEF Range
      <4>5. PICK l \in Lacking(types) : id[l] = e /\ IsBlank(rows[e], l[1], l[2], "not_uploaded")
        BY <1>12, <4>4
      <4>6. l = k
        BY <1>8, <4>2, <4>3, <4>5
      <4> QED BY <4>2, <4>4, <4>5, <4>6 DEF IsBlank
    <3> QED BY <3>1, <3>2
  <2> QED BY <1>6, <1>7, <1>15, <1>16, <2>1 DEF SettingWrites
<1>19. DocumentWork(w)
  BY <1>5, <1>14, <1>17, <1>18 DEF DocumentWork
<1>20. HeadFits(w, "uploaded", "document") /\ HeadFits(w, "reviewed", "document") /\ OnlyFits(w, {"uploaded", "reviewed"})
  BY <1>5, <1>6, <1>7 DEF HeadFits, OnlyFits
<1> QED BY <1>4, <1>5, <1>14, <1>19, <1>20 DEF DocumentsOpens, Opens

(* A unit of work on documents stays sound while the rows it read stay.    *)
LEMMA DocumentWorkStays ==
  ASSUME NEW w, DocumentWork(w), UNCHANGED serial,
         serial /\ w.state = "open" => db'.document = db.document /\ db'.setting = db.setting
  PROVE  DocumentWork(w)'
<1>1. w.tell = {} /\ w.drop = None /\ SettingFits(w)
  BY DEF DocumentWork
<1>2. ASSUME serial, w.state = "open" PROVE DocumentWrites(w)' /\ SettingWrites(w)'
  <2>1. DocumentWrites(w) /\ SettingWrites(w) /\ db'["document"] = db["document"] /\ db'["setting"] = db["setting"]
    BY <1>2 DEF DocumentWork
  <2>2. Keys("document")' = Keys("document") /\ Keys("setting")' = Keys("setting")
    BY <2>1 DEF Keys
  <2>3. \A key : Setting(key)' = Setting(key)
    BY <2>1, <2>2 DEF Setting
  <2>4. DocumentWrites(w)'
    BY <2>1, <2>2 DEF DocumentWrites
  <2>5. SettingWrites(w)'
    BY <2>1, <2>2, <2>3 DEF SettingWrites
  <2> QED BY <2>4, <2>5
<1>3. SettingFits(w)'
  BY <1>1 DEF SettingFits
<1> QED BY <1>1, <1>2, <1>3 DEF DocumentWork

(* The handlers of documents preserve their invariant.                     *)
LEMMA DocumentsBegin ==
  ASSUME Shape, DocumentsInv, NEW s \in Sessions, DocumentsStep(s)
  PROVE  DocumentsInv' /\ Shape' /\ UNCHANGED <<area, db, today, serial>>
<1>1. PICK w, objects : DocumentsOpens(s, w, objects)
  BY RequestPrepares, UploadPrepares, VerifyPrepares, RequirePrepares DEF DocumentsStep
<1>2. /\ tx' = [q \in Sessions |-> IF q = s THEN w ELSE tx[q]]
      /\ Shape' /\ UNCHANGED <<area, db, today, serial>>
  BY <1>1, BeginShape DEF DocumentsOpens, Opens
<1>3. TableStays("document", DocIds, Document)
  BY <1>1, TableBegin DEF DocumentsInv, DocumentsOpens, Opens
<1>4. FileInv("document")'
  BY <1>1, FileBegin DEF DocumentsInv, DocumentsOpens, Opens
<1>5. HeadInv("uploaded", "document")' /\ HeadInv("reviewed", "document")' /\ OnlyInv({"uploaded", "reviewed"})'
  BY <1>1, HeadBegin, OnlyBegin DEF DocumentsInv, DocumentsOpens, Opens
<1>6. \A v : DocumentWork(v) => DocumentWork(v)'
  BY <1>2, DocumentWorkStays
<1>7. ASSUME NEW q \in Sessions PROVE DocumentWork(tx[q])'
  <2>1. PICK v : v = IF q = s THEN w ELSE tx[q]
    OBVIOUS
  <2>2. DocumentWork(v)'
    BY <1>1, <1>6, <2>1 DEF DocumentsOpens, DocumentsInv
  <2>3. tx[q]' = v
    BY <1>2, <2>1
  <2> QED BY <2>2, <2>3
<1>8. SettingsTyped' /\ (serial => DocumentsGood)'
  <2>1. \A t : Keys(t)' = Keys(t)
    BY <1>2 DEF Keys
  <2>2. \A key : Setting(key)' = Setting(key)
    BY <1>2, <2>1 DEF Setting
  <2>3. SettingsTyped'
    BY <1>2, <2>1 DEF DocumentsInv, SettingsTyped
  <2>4. DocumentsGood => DocumentsGood'
    BY <1>2, <2>1, <2>2 DEF DocumentsGood
  <2> QED BY <1>2, <2>3, <2>4 DEF DocumentsInv
<1> QED BY <1>2, <1>3, <1>4, <1>5, <1>7, <1>8 DEF DocumentsInv, TableStays, TableInv, Fits

(* The end of a request preserves the invariant of documents.              *)
LEMMA DocumentsEnd ==
  ASSUME Shape, DocumentsInv, NEW s \in Sessions, EndOfRequest(s)
  PROVE  DocumentsInv'
<1>1. /\ Shape' /\ UNCHANGED <<area, stored, today, serial>>
      /\ \A q \in Sessions :
              \/ q # s /\ tx'[q] = tx[q]
              \/ /\ q = s /\ tx'[q].insert = None /\ tx'[q].put = None /\ tx'[q].update = None
                 /\ tx'[q].drop = None /\ tx'[q].state \in {"idle", "after"}
  BY WorksAtEnd
<1>2. /\ DOMAIN db' = DOMAIN db
      /\ \/ Commit(s) /\ db'["setting"] = Flushed(tx[s], "setting")
         \/ ~Commit(s) /\ db'["setting"] = db["setting"]
  BY OnlyCommits DEF DocumentsInv
<1>3. TableStays("document", DocIds, Document)
  BY TableEnd DEF DocumentsInv
<1>4. FileInv("document")' /\ HeadInv("uploaded", "document")' /\ HeadInv("reviewed", "document")' /\ OnlyInv({"uploaded", "reviewed"})'
  BY FileEnd, HeadEnd, OnlyEnd DEF DocumentsInv
<1>5. DocumentWork(tx[s]) /\ SettingsTyped
  BY DEF DocumentsInv
<1>6. ~Notify(s)
  BY <1>5 DEF Notify, DocumentWork
<1>7. SettingsTyped'
  <2>1. CASE db'["setting"] = db["setting"]
    BY <1>5, <2>1 DEF SettingsTyped, Keys
  <2>2. CASE db'["setting"] = Flushed(tx[s], "setting")
    BY <1>5, <2>2, SettingFlush DEF SettingsTyped, Keys, DocumentWork
  <2> QED BY <1>2, <2>1, <2>2
<1>8. serial => DocumentsGood'
  <2>1. CASE Commit(s) /\ serial
    BY <2>1, DocumentsCommit
  <2>2. CASE ~Commit(s) /\ serial
    <3>1. db' = db
      BY <1>6, <2>2, SerialEnd
    <3>2. \A t : Keys(t)' = Keys(t)
      BY <3>1 DEF Keys
    <3>3. \A key : Setting(key)' = Setting(key)
      BY <3>1, <3>2 DEF Setting
    <3>4. DocumentsGood
      BY <2>2 DEF DocumentsInv
    <3> QED BY <3>1, <3>2, <3>3, <3>4 DEF DocumentsGood
  <2> QED BY <2>1, <2>2
<1>9. \A q \in Sessions : tx'[q].tell = {} \/ q # s
  <2>1. CASE Commit(s)
    BY <1>5, <2>1, CommitShape, RestIs DEF DocumentWork
  <2>2. CASE Abort(s)
    BY <2>2, AbortShape, IdleIs
  <2> QED BY <1>6, <2>1, <2>2 DEF EndOfRequest
<1>10. ASSUME NEW q \in Sessions PROVE DocumentWork(tx[q])'
  <2>1. CASE q # s /\ tx'[q] = tx[q]
    <3>1. PICK v : v = tx[q]
      OBVIOUS
    <3>2. serial /\ v.state = "open" => ~Commit(s)
      BY <2>1, <3>1, CommitShape DEF Shape, Busy
    <3>3. serial /\ v.state = "open" => db'.document = db.document /\ db'.setting = db.setting
      BY <1>2, <3>2, OnlyCommits DEF DocumentsInv
    <3>4. DocumentWork(v)
      BY <3>1 DEF DocumentsInv
    <3>5. DocumentWork(v)'
      BY <1>1, <3>3, <3>4, DocumentWorkStays
    <3> QED BY <2>1, <3>1, <3>5
  <2>2. CASE q = s /\ tx'[q].insert = None /\ tx'[q].put = None /\ tx'[q].update = None
                 /\ tx'[q].drop = None /\ tx'[q].state \in {"idle", "after"}
    <3>1. PICK v : v = tx'[q]
      OBVIOUS
    <3>2. v.tell = {} /\ v.drop = None /\ v.state # "open" /\ SettingFits(v)
      BY <1>9, <2>2, <3>1, NoRows DEF SettingFits
    <3>3. DocumentWork(v)'
      BY <3>2 DEF DocumentWork, SettingFits
    <3> QED BY <3>1, <3>3
  <2> QED BY <1>1, <2>1, <2>2
<1> QED BY <1>1, <1>2, <1>3, <1>4, <1>7, <1>8, <1>10 DEF DocumentsInv, TableStays, TableInv, Fits

(* Marks and their percentage. *)
LEMMA PercentageFits ==
  ASSUME NEW m \in Marks
  PROVE  Percentage(m) \in Percentages /\ m[1] \in Nat /\ m[2] \in Nat \ {0} /\ m = <<m[1], m[2]>>
<1>1. m \in Nat \X (Nat \ {0}) /\ m[1] <= m[2]
  BY ExamsConstants
<1>2. PICK a, b : a = m[1] /\ b = m[2]
  OBVIOUS
<1>3. PICK c, n, q : c = 2 * b /\ n = 20000 * a + b /\ q = n \div c
  OBVIOUS
<1>4. a \in Nat /\ b \in Nat \ {0} /\ a <= b
  BY <1>1, <1>2
<1>5. c \in Nat \ {0} /\ n \in Nat /\ n <= 20001 * b
  BY <1>3, <1>4
<1>6. q \in Int /\ q * c <= n /\ n < q * c + c
  BY <1>3, <1>5
<1>7. q >= 0
  <2>1. CASE q <= -1
    <3>1. q * c + c <= 0
      BY <1>5, <1>6, <2>1
    <3> QED BY <1>5, <1>6, <3>1
  <2> QED BY <1>6, <2>1
<1>8. q <= 10000
  <2>1. CASE q >= 10001
    <3>1. q * c >= 10001 * c
      BY <1>5, <1>6, <2>1
    <3>2. 10001 * c = 20002 * b
      BY <1>3, <1>4
    <3> QED BY <1>4, <1>5, <1>6, <3>1, <3>2
  <2> QED BY <1>6, <2>1
<1>9. Percentage(m) = q
  BY <1>2, <1>3 DEF Percentage
<1> QED BY <1>1, <1>6, <1>7, <1>8, <1>9 DEF Percentages

(* A row of results whose percentage and grade are those of its marks. *)
ResultGood(row) == /\ row.percent = Percentage(<<row.mark, row.out>>)
                   /\ row.grade = GradeOf(<<row.mark, row.out>>)

(* What a mark sets in a result: its percentage and its grade.             *)
LEMMA ScoreIs ==
  ASSUME NEW m \in Marks, Cardinality(BandsOf(Percentage(m))) = 1, NEW set, set = Score(m)
  PROVE  /\ DOMAIN set = {"mark", "out", "percent", "grade"}
         /\ set["mark"] = m[1] /\ set["out"] = m[2] /\ set["mark"] \in Nat /\ set["out"] \in Nat \ {0}
         /\ set["percent"] = Percentage(m) /\ set["percent"] \in Percentages
         /\ set["grade"] = GradeOf(m) /\ set["grade"] \in {b.letter : b \in Bands}
<1>1. PICK p, g : p = Percentage(m) /\ g = GradeOf(m)
  OBVIOUS
<1>2. set = [mark |-> m[1], out |-> m[2], percent |-> p, grade |-> g]
  BY <1>1 DEF Score
<1>3. /\ DOMAIN set = {"mark", "out", "percent", "grade"} /\ set["mark"] = m[1] /\ set["out"] = m[2]
      /\ set["percent"] = p /\ set["grade"] = g
  BY <1>2
<1>4. g \in {b.letter : b \in Bands}
  <2>1. BandsOf(Percentage(m)) # {}
    BY FS_EmptySet
  <2>2. PICK c : c = CHOOSE b \in BandsOf(Percentage(m)) : TRUE
    OBVIOUS
  <2>3. c \in BandsOf(Percentage(m))
    BY <2>1, <2>2
  <2>4. g = c.letter
    BY <1>1, <2>2 DEF GradeOf
  <2> QED BY <2>3, <2>4 DEF BandsOf
<1> QED BY <1>1, <1>3, <1>4, PercentageFits

(* Columns of an update of results: a correction, or a publication. *)
ResultColumns(columns) ==
    /\ DOMAIN columns \subseteq {"mark", "out", "percent", "grade", "published"}
    /\ "mark" \in DOMAIN columns => columns["mark"] \in Nat
    /\ "out" \in DOMAIN columns => columns["out"] \in Nat \ {0}
    /\ "percent" \in DOMAIN columns => columns["percent"] \in Percentages
    /\ "grade" \in DOMAIN columns => columns["grade"] \in {b.letter : b \in Bands}
    /\ "published" \in DOMAIN columns => columns["published"] = TRUE

(* The columns a mark or a publication sets keep the type of a result.     *)
LEMMA ResultFits ==
  ASSUME NEW columns, ResultColumns(columns)
  PROVE  Fitting(Result, columns)
<1> SUFFICES ASSUME NEW row \in Result PROVE Over(row, columns) \in Result
  BY DEF Fitting
<1>1. PICK r : r = Over(row, columns)
  OBVIOUS
<1>2. r = [c \in {"of", "mark", "out", "percent", "grade", "published"} |-> IF c \in DOMAIN columns THEN columns[c] ELSE row[c]]
  BY <1>1 DEF Over, Result
<1>3. /\ r["of"] = row["of"] /\ r["mark"] \in Nat /\ r["out"] \in Nat \ {0} /\ r["percent"] \in Percentages
      /\ r["grade"] \in {b.letter : b \in Bands} /\ r["published"] \in BOOLEAN
  BY <1>2 DEF Result, ResultColumns
<1>4. r \in Result
  BY <1>2, <1>3 DEF Result
<1> QED
  BY <1>1, <1>4

CardFits(w, objects) == \A k \in DOMAIN Rows(w.put, "card") : <<"card", k>> \in objects

ExamWork(w) ==
    /\ Rows(w.insert, "card") = None /\ Rows(w.update, "card") = None
    /\ Rows(w.put, "result") = None /\ Rows(w.put, "exam") = None
    /\ \/ w.drop = None
       \/ /\ \E e \in ExamNames : w.drop = [exam |-> {e}]
          /\ w.insert = None /\ w.update = None /\ w.put = None
    /\ \A k \in DOMAIN Rows(w.insert, "result") : Rows(w.insert, "result")[k].of = <<"exam", k[1]>>
    /\ \A k \in DOMAIN Rows(w.update, "result") : ResultColumns(Rows(w.update, "result")[k])
    /\ serial /\ w.state = "open" =>
         /\ \A k \in DOMAIN Rows(w.insert, "result") : ResultGood(Rows(w.insert, "result")[k])
         /\ \A k \in DOMAIN Rows(w.update, "result") \cap Keys("result") :
               ResultGood(Over(db.result[k], Rows(w.update, "result")[k]))

ExamsInv ==
    /\ DOMAIN db = {"exam", "result", "card", "notice"}
    /\ TableInv("exam", ExamNames, {Present})
    /\ TableInv("result", ExamNames \X Pupils \X Subjects, Result)
    /\ TableInv("card", Kinds \X ExamNames \X Pupils, {Present})
    /\ OnlyInv({"exam"})
    /\ \A k \in Keys("result") : db.result[k].of = <<"exam", k[1]>>
    /\ \A k \in Keys("card") : <<"card", k>> \in stored
    /\ serial => \A k \in Keys("result") : ResultGood(db.result[k])
    /\ \A s \in Sessions : ExamWork(tx[s]) /\ CardFits(tx[s], stored)

ExamOpens(s, w, objects) ==
    /\ Opens(s, w, stored \cup objects)
    /\ Fits(w, "exam", ExamNames, {Present})
    /\ Fits(w, "result", ExamNames \X Pupils \X Subjects, Result)
    /\ Fits(w, "card", Kinds \X ExamNames \X Pupils, {Present})
    /\ OnlyFits(w, {"exam"})
    /\ ExamWork(w) /\ CardFits(w, stored \cup objects)

(* What the handler of "create exams" collects is sound.                   *)
LEMMA CreateExamsPrepares ==
  ASSUME NEW s \in Sessions, NEW E \in SUBSET ExamNames, CreateExams(s, E)
  PROVE  \E w, objects : ExamOpens(s, w, objects)
<1>1. PICK rows, ins, w : /\ rows = [e \in E \ Keys("exam") |-> Present] /\ ins = [exam |-> rows]
                          /\ w = [Work EXCEPT !.insert = ins]
  OBVIOUS
<1>2. BeginWith(s, w, stored \cup {})
  BY <1>1 DEF CreateExams, Begin, BeginStoring
<1>3. /\ w.insert = ins /\ w.update = None /\ w.put = None /\ w.drop = None /\ w.tell = {} /\ w.state = "open"
      /\ WorkShape(w)
  BY <1>1 DEF Work, Idle, WorkShape
<1>4. /\ Rows(w.insert, "exam") = rows /\ Rows(w.insert, "result") = None /\ Rows(w.insert, "card") = None
      /\ Rows(w.insert, "notice") = None
  BY <1>1, <1>3 DEF Rows
<1>5. /\ DOMAIN None = {} /\ \A t : Rows(w.update, t) = None /\ Rows(w.put, t) = None
  BY <1>3, NoRows
<1>6. \A k \in DOMAIN rows : k \in ExamNames /\ rows[k] \in {Present}
  BY <1>1
<1>7. /\ Fits(w, "exam", ExamNames, {Present})
      /\ Fits(w, "result", ExamNames \X Pupils \X Subjects, Result)
      /\ Fits(w, "card", Kinds \X ExamNames \X Pupils, {Present})
  BY <1>4, <1>5, <1>6 DEF Fits
<1>8. OnlyFits(w, {"exam"}) /\ ExamWork(w) /\ CardFits(w, stored \cup {})
  BY <1>3, <1>4, <1>5 DEF OnlyFits, ExamWork, CardFits
<1> QED BY <1>2, <1>3, <1>7, <1>8 DEF ExamOpens, Opens

(* What the handler of "delete exam" collects is sound.                    *)
LEMMA DeleteExamPrepares ==
  ASSUME NEW s \in Sessions, NEW e \in ExamNames, DeleteExam(s, e)
  PROVE  \E w, objects : ExamOpens(s, w, objects)
<1>1. PICK gone, w : gone = [exam |-> {e}] /\ w = [Work EXCEPT !.drop = gone]
  OBVIOUS
<1>2. BeginWith(s, w, stored \cup {})
  BY <1>1 DEF DeleteExam, Begin, BeginStoring
<1>3. /\ w.insert = None /\ w.update = None /\ w.put = None /\ w.drop = gone /\ w.tell = {} /\ w.state = "open"
      /\ WorkShape(w)
  BY <1>1 DEF Work, Idle, WorkShape
<1>5. /\ DOMAIN None = {} /\ \A t : Rows(w.insert, t) = None /\ Rows(w.update, t) = None /\ Rows(w.put, t) = None
  BY <1>3, NoRows
<1>7. /\ Fits(w, "exam", ExamNames, {Present})
      /\ Fits(w, "result", ExamNames \X Pupils \X Subjects, Result)
      /\ Fits(w, "card", Kinds \X ExamNames \X Pupils, {Present})
  BY <1>5 DEF Fits
<1>8. OnlyFits(w, {"exam"}) /\ ExamWork(w) /\ CardFits(w, stored \cup {})
  BY <1>1, <1>3, <1>5 DEF OnlyFits, ExamWork, CardFits
<1> QED BY <1>2, <1>3, <1>7, <1>8 DEF ExamOpens, Opens

(* What the handler of "card" collects is sound.                           *)
LEMMA CardPrepares ==
  ASSUME NEW s \in Sessions, NEW kind \in Kinds, NEW e \in ExamNames, NEW p \in Pupils, StoreCard(s, kind, e, p)
  PROVE  \E w, objects : ExamOpens(s, w, objects)
<1>1. PICK k, row, one, put, w : /\ k = <<kind, e, p>> /\ row = [new |-> Present, set |-> None] /\ one = (k :> row)
                                 /\ put = [card |-> one] /\ w = [Work EXCEPT !.put = put]
  OBVIOUS
<1>2. BeginWith(s, w, stored \cup {<<"card", k>>})
  BY <1>1 DEF StoreCard, BeginStoring
<1>3. /\ w.insert = None /\ w.update = None /\ w.put = put /\ w.drop = None /\ w.tell = {} /\ w.state = "open"
      /\ WorkShape(w)
  BY <1>1 DEF Work, Idle, WorkShape
<1>4. /\ Rows(w.put, "exam") = None /\ Rows(w.put, "result") = None /\ Rows(w.put, "card") = one
      /\ Rows(w.put, "notice") = None
  BY <1>1, <1>3 DEF Rows
<1>5. /\ DOMAIN None = {} /\ \A t : Rows(w.insert, t) = None /\ Rows(w.update, t) = None
  BY <1>3, NoRows
<1>6. DOMAIN one = {k} /\ one[k] = row /\ row.new = Present /\ row.set = None /\ k \in Kinds \X ExamNames \X Pupils
  <2>1. one = (k :> row)
    BY <1>1
  <2>2. DOMAIN one = {k} /\ one[k] = row
    BY <2>1, OneOf
  <2>3. row.new = Present /\ row.set = None /\ k \in Kinds \X ExamNames \X Pupils
    BY <1>1
  <2> QED BY <2>2, <2>3
<1>7. Fitting({Present}, None)
  BY NoRows, OverIs DEF Fitting, Present, Over, None
<1>8. /\ Fits(w, "exam", ExamNames, {Present})
      /\ Fits(w, "result", ExamNames \X Pupils \X Subjects, Result)
      /\ Fits(w, "card", Kinds \X ExamNames \X Pupils, {Present})
  BY <1>4, <1>5, <1>6, <1>7 DEF Fits
<1>9. OnlyFits(w, {"exam"}) /\ ExamWork(w) /\ CardFits(w, stored \cup {<<"card", k>>})
  BY <1>3, <1>4, <1>5, <1>6 DEF OnlyFits, ExamWork, CardFits
<1> QED BY <1>2, <1>3, <1>8, <1>9 DEF ExamOpens, Opens

(* What the handler of "publish" collects is sound.                        *)
LEMMA PublishPrepares ==
  ASSUME ExamsInv, NEW s \in Sessions, NEW e \in ExamNames, PublishExam(s, e)
  PROVE  \E w, objects : ExamOpens(s, w, objects)
<1>0. PICK cols : cols = [published |-> TRUE]
  OBVIOUS
<1>1. PICK rows, up, tell, w : /\ rows = [k \in {k \in Keys("result") : k[1] = e} |-> cols] /\ up = [result |-> rows]
                             /\ tell = {<<"exam", e>>} /\ w = [Work EXCEPT !.update = up, !.tell = tell]
  OBVIOUS
<1>2. BeginWith(s, w, stored \cup {})
  BY <1>0, <1>1 DEF PublishExam, Begin, BeginStoring
<1>3. /\ w.insert = None /\ w.update = up /\ w.put = None /\ w.drop = None /\ w.tell = tell /\ w.state = "open"
      /\ WorkShape(w)
  BY <1>1 DEF Work, Idle, WorkShape
<1>4. Rows(w.update, "exam") = None /\ Rows(w.update, "result") = rows /\ Rows(w.update, "card") = None
  BY <1>1, <1>3 DEF Rows
<1>5. /\ DOMAIN None = {} /\ \A t : Rows(w.insert, t) = None /\ Rows(w.put, t) = None
  BY <1>3, NoRows
<1>6. DOMAIN cols = {"published"} /\ cols["published"] = TRUE /\ ResultColumns(cols)
  BY <1>0 DEF ResultColumns
<1>7. \A k \in DOMAIN rows : k \in Keys("result") /\ rows[k] = cols
  BY <1>1
<1>8. /\ Fits(w, "exam", ExamNames, {Present})
      /\ Fits(w, "result", ExamNames \X Pupils \X Subjects, Result)
      /\ Fits(w, "card", Kinds \X ExamNames \X Pupils, {Present})
  BY <1>4, <1>5, <1>6, <1>7, ResultFits DEF Fits
<1>9. serial => \A k \in DOMAIN rows : ResultGood(Over(db.result[k], rows[k]))
  <2> SUFFICES ASSUME serial, NEW k \in DOMAIN rows PROVE ResultGood(Over(db.result[k], cols))
    BY <1>7
  <2>1. PICK row, over : row = db.result[k] /\ over = Over(row, cols)
    OBVIOUS
  <2>2. row \in Result /\ ResultGood(row)
    BY <1>7, <2>1 DEF ExamsInv, TableInv, Table
  <2>3. \A c \in {"mark", "out", "percent", "grade"} : over[c] = row[c]
    BY <1>6, <2>1, <2>2, OverIs DEF Result
  <2> QED BY <2>1, <2>2, <2>3 DEF ResultGood
<1>10. OnlyFits(w, {"exam"}) /\ ExamWork(w) /\ CardFits(w, stored \cup {})
  <2>1. OnlyFits(w, {"exam"}) /\ CardFits(w, stored \cup {})
    BY <1>1, <1>3, <1>5 DEF OnlyFits, CardFits
  <2>2. ExamWork(w)
    BY <1>3, <1>4, <1>5, <1>6, <1>7, <1>9 DEF ExamWork
  <2> QED BY <2>1, <2>2
<1> QED BY <1>2, <1>3, <1>8, <1>10 DEF ExamOpens, Opens

(* What the handler of "enter" collects is sound.                          *)
LEMMA EnterPrepares ==
  ASSUME ExamsInv, NEW s \in Sessions, NEW e \in ExamNames, NEW sub \in Subjects, NEW P \in SUBSET Pupils,
         NEW marks \in [P -> Marks], EnterResults(s, e, sub, marks)
  PROVE  \E w, objects : ExamOpens(s, w, objects)
<1>1. PICK old, fresh : /\ old = {p \in DOMAIN marks : <<e, p, sub>> \in Keys("result")}
                        /\ fresh = {p \in DOMAIN marks : <<e, p, sub>> \notin Keys("result")}
  OBVIOUS
<1>2. PICK rows, cols, ins, up, w :
         /\ rows = [k \in {<<e, p, sub>> : p \in fresh} |-> NewResult(e, marks[k[2]])]
         /\ cols = [k \in {<<e, p, sub>> : p \in old} |-> Changed(db.result[k], Corrected(marks[k[2]]))]
         /\ ins = [result |-> rows] /\ up = [result |-> cols]
         /\ w = [Work EXCEPT !.insert = ins, !.update = up, !.needs = {<<"exam", e>>}]
  OBVIOUS
<1>3. BeginWith(s, w, stored \cup {}) /\ \A p \in P : Cardinality(BandsOf(Percentage(marks[p]))) = 1
  BY <1>1, <1>2 DEF EnterResults, Begin, BeginStoring
<1>4. /\ w.insert = ins /\ w.update = up /\ w.put = None /\ w.drop = None /\ w.tell = {} /\ w.state = "open"
      /\ WorkShape(w)
  BY <1>2 DEF Work, Idle, WorkShape
<1>5. /\ Rows(w.insert, "exam") = None /\ Rows(w.insert, "result") = rows /\ Rows(w.insert, "card") = None
      /\ Rows(w.insert, "notice") = None
      /\ Rows(w.update, "exam") = None /\ Rows(w.update, "result") = cols /\ Rows(w.update, "card") = None
  BY <1>2, <1>4 DEF Rows
<1>6. /\ DOMAIN None = {} /\ \A t : Rows(w.put, t) = None
  BY <1>4, NoRows
<1>7. ASSUME NEW k \in DOMAIN rows
      PROVE  /\ k \in ExamNames \X Pupils \X Subjects /\ rows[k] \in Result /\ rows[k].of = <<"exam", k[1]>>
             /\ ResultGood(rows[k])
  <2>1. PICK p \in fresh : k = <<e, p, sub>>
    BY <1>2
  <2>2. p \in P /\ k[2] = p /\ k[1] = e /\ k \in ExamNames \X Pupils \X Subjects
    BY <1>1, <2>1
  <2>3. PICK m : m = marks[p]
    OBVIOUS
  <2>4. m \in Marks /\ Cardinality(BandsOf(Percentage(m))) = 1
    BY <1>3, <2>2, <2>3
  <2>5. PICK no, head, set, row : /\ no = FALSE /\ head = [of |-> <<"exam", e>>, published |-> no] /\ set = Score(m)
                                  /\ row = NewResult(e, m)
    OBVIOUS
  <2>6. row = [x \in DOMAIN head \cup DOMAIN set |-> IF x \in DOMAIN head THEN head[x] ELSE set[x]]
    BY <2>5 DEF NewResult, @@
  <2>7. DOMAIN head = {"of", "published"} /\ head["of"] = <<"exam", e>> /\ head["published"] = FALSE
    BY <2>5
  <2>8. /\ DOMAIN set = {"mark", "out", "percent", "grade"}
        /\ set["mark"] = m[1] /\ set["out"] = m[2] /\ set["mark"] \in Nat /\ set["out"] \in Nat \ {0}
        /\ set["percent"] = Percentage(m) /\ set["percent"] \in Percentages
        /\ set["grade"] = GradeOf(m) /\ set["grade"] \in {b.letter : b \in Bands}
    BY <2>4, <2>5, ScoreIs
  <2>9. row = [x \in {"of", "mark", "out", "percent", "grade", "published"} |-> IF x \in DOMAIN head THEN head[x] ELSE set[x]]
    <3>1. DOMAIN head \cup DOMAIN set = {"of", "mark", "out", "percent", "grade", "published"}
      BY <2>7, <2>8
    <3> QED BY <2>6, <3>1
  <2>10. /\ row["of"] = <<"exam", e>> /\ row["published"] \in BOOLEAN /\ row["mark"] = set["mark"] /\ row["out"] = set["out"]
         /\ row["percent"] = set["percent"] /\ row["grade"] = set["grade"]
    BY <2>7, <2>8, <2>9
  <2>11. row \in Result
    <3>1. <<"exam", e>> \in {"exam"} \X ExamNames
      OBVIOUS
    <3> QED BY <2>8, <2>9, <2>10, <3>1 DEF Result
  <2>12. ResultGood(row)
    <3>1. m = <<set["mark"], set["out"]>>
      BY <2>4, <2>8, PercentageFits
    <3> QED BY <2>8, <2>10, <3>1 DEF ResultGood
  <2>13. rows[k] = row
    BY <1>2, <1>7, <2>2, <2>3, <2>5
  <2> QED BY <2>2, <2>10, <2>11, <2>12, <2>13
<1>8. ASSUME NEW k \in DOMAIN cols
      PROVE  k \in Keys("result") /\ ResultColumns(cols[k]) /\ ResultGood(Over(db.result[k], cols[k]))
  <2>1. PICK p \in old : k = <<e, p, sub>>
    BY <1>2
  <2>2. p \in P /\ k[2] = p /\ k \in Keys("result")
    BY <1>1, <2>1
  <2>3. PICK m : m = marks[p]
    OBVIOUS
  <2>4. m \in Marks /\ Cardinality(BandsOf(Percentage(m))) = 1
    BY <1>3, <2>2, <2>3
  <2>5. PICK set, row, c, over : set = Score(m) /\ row = db["result"][k] /\ c = Changed(row, set) /\ over = Over(row, set)
    OBVIOUS
  <2>6. cols[k] = c
    BY <1>2, <1>8, <2>2, <2>3, <2>5 DEF Corrected
  <2>8. /\ DOMAIN set = {"mark", "out", "percent", "grade"}
        /\ set["mark"] = m[1] /\ set["out"] = m[2] /\ set["mark"] \in Nat /\ set["out"] \in Nat \ {0}
        /\ set["percent"] = Percentage(m) /\ set["percent"] \in Percentages
        /\ set["grade"] = GradeOf(m) /\ set["grade"] \in {b.letter : b \in Bands}
    BY <2>4, <2>5, ScoreIs
  <2>9. DOMAIN c \subseteq DOMAIN set /\ \A x \in DOMAIN c : c[x] = set[x]
    BY <2>5, ChangedIs
  <2>10. ResultColumns(c)
    BY <2>8, <2>9 DEF ResultColumns
  <2>11. row \in Result
    BY <2>2, <2>5 DEF ExamsInv, TableInv, Table
  <2>12. Over(row, c) = over
    BY <2>5, OverChanged
  <2>13. \A x \in {"mark", "out", "percent", "grade"} : over[x] = set[x]
    BY <2>5, <2>8, <2>11, OverIs DEF Result
  <2>14. m = <<set["mark"], set["out"]>>
    BY <2>4, <2>8, PercentageFits
  <2>15. ResultGood(over)
    BY <2>8, <2>13, <2>14 DEF ResultGood
  <2> QED BY <2>2, <2>5, <2>6, <2>10, <2>12, <2>15
<1>9. /\ Fits(w, "exam", ExamNames, {Present})
      /\ Fits(w, "result", ExamNames \X Pupils \X Subjects, Result)
      /\ Fits(w, "card", Kinds \X ExamNames \X Pupils, {Present})
  BY <1>5, <1>6, <1>7, <1>8, ResultFits DEF Fits
<1>10. OnlyFits(w, {"exam"}) /\ CardFits(w, stored \cup {})
  BY <1>4, <1>5, <1>6 DEF OnlyFits, CardFits
<1>11. ExamWork(w)
  BY <1>4, <1>5, <1>6, <1>7, <1>8 DEF ExamWork
<1> QED BY <1>3, <1>4, <1>9, <1>10, <1>11 DEF ExamOpens, Opens

(* What the handlers of exams collect is sound.                            *)
LEMMA ExamsPrepare ==
  ASSUME ExamsInv, NEW s \in Sessions, ExamsStep(s)
  PROVE  \E w, objects : ExamOpens(s, w, objects)
<1>1. CASE \E E \in SUBSET ExamNames : CreateExams(s, E)
  BY <1>1, CreateExamsPrepares
<1>2. CASE \E e \in ExamNames : DeleteExam(s, e)
  BY <1>2, DeleteExamPrepares
<1>3. CASE \E e \in ExamNames : PublishExam(s, e)
  BY <1>3, PublishPrepares
<1>4. CASE \E e \in ExamNames, sub \in Subjects, P \in SUBSET Pupils :
             P # {} /\ \E marks \in [P -> Marks] : EnterResults(s, e, sub, marks)
  BY <1>4, EnterPrepares
<1>5. CASE \E e \in ExamNames, p \in Pupils : GenerateCard(s, e, p) \/ UploadCard(s, e, p)
  <2>1. PICK e \in ExamNames, p \in Pupils : GenerateCard(s, e, p) \/ UploadCard(s, e, p)
    BY <1>5
  <2>2. StoreCard(s, "generated", e, p) \/ StoreCard(s, "uploaded", e, p)
    BY <2>1 DEF GenerateCard, UploadCard
  <2>3. "generated" \in Kinds /\ "uploaded" \in Kinds
    BY DEF Kinds
  <2> QED BY <2>2, <2>3, CardPrepares
<1> QED
  BY <1>1, <1>2, <1>3, <1>4, <1>5, Zenon DEF ExamsStep

(* The handlers of exams preserve their invariant.                         *)
LEMMA ExamsBegin ==
  ASSUME Shape, ExamsInv, NEW s \in Sessions, ExamsStep(s)
  PROVE  Shape' /\ ExamsInv' /\ UNCHANGED <<area, db, serial>> /\ stored \subseteq stored'
<1>1. PICK w, objects : ExamOpens(s, w, objects)
  BY ExamsPrepare
<1>2. BeginWith(s, w, stored \cup objects) /\ WorkShape(w) /\ w.state = "open"
  BY <1>1 DEF ExamOpens, Opens
<1>3. /\ Shape' /\ tx' = [q \in Sessions |-> IF q = s THEN w ELSE tx[q]] /\ UNCHANGED <<area, db, serial>>
      /\ stored' = stored \cup objects
  BY <1>2, BeginShape
<1>4. /\ TableStays("exam", ExamNames, {Present})
      /\ TableStays("result", ExamNames \X Pupils \X Subjects, Result)
      /\ TableStays("card", Kinds \X ExamNames \X Pupils, {Present})
  BY <1>1, <1>2, TableBegin DEF ExamsInv, ExamOpens
<1>5. OnlyInv({"exam"})'
  BY <1>1, <1>2, OnlyBegin DEF ExamsInv, ExamOpens
<1>6. Keys("result")' = Keys("result") /\ Keys("card")' = Keys("card")
  BY <1>3, KeysSame
<1>7. ASSUME NEW q \in Sessions PROVE ExamWork(tx[q])' /\ CardFits(tx'[q], stored')
  <2>1. PICK v : v = tx'[q]
    OBVIOUS
  <2>2. ExamWork(v) /\ CardFits(v, stored')
    BY <1>1, <1>3, <2>1 DEF ExamsInv, ExamOpens, CardFits
  <2>3. ExamWork(v)'
    BY <1>3, <1>6, <2>2 DEF ExamWork
  <2>4. tx[q]' = v
    BY <2>1
  <2> QED BY <2>1, <2>2, <2>3, <2>4
<1>8. /\ DOMAIN db' = {"exam", "result", "card", "notice"}
      /\ \A k \in Keys("result")' : db'.result[k].of = <<"exam", k[1]>>
      /\ \A k \in Keys("card")' : <<"card", k>> \in stored'
      /\ serial' => \A k \in Keys("result")' : ResultGood(db'.result[k])
  BY <1>3, <1>6 DEF ExamsInv
<1> QED BY <1>3, <1>4, <1>5, <1>7, <1>8 DEF ExamsInv, TableStays, TableInv, Fits

(* The end of a request preserves the invariant of exams.                  *)
LEMMA ExamsEnd ==
  ASSUME Shape, ExamsInv, NEW s \in Sessions, EndOfRequest(s)
  PROVE  Shape' /\ ExamsInv' /\ UNCHANGED <<area, stored, serial>>
<1>0. /\ DOMAIN db = {"exam", "result", "card", "notice"}
      /\ "exam" \in DOMAIN db /\ "result" \in DOMAIN db /\ "card" \in DOMAIN db
  BY DEF ExamsInv
<1>1. /\ Shape' /\ UNCHANGED <<area, stored, today, serial>>
      /\ \A q \in Sessions :
              \/ q # s /\ tx'[q] = tx[q]
              \/ /\ q = s /\ tx'[q].insert = None /\ tx'[q].put = None /\ tx'[q].update = None
                 /\ tx'[q].drop = None /\ tx'[q].state \in {"idle", "after"}
  BY WorksAtEnd
<1>2. /\ TableStays("exam", ExamNames, {Present})
      /\ TableStays("result", ExamNames \X Pupils \X Subjects, Result)
      /\ TableStays("card", Kinds \X ExamNames \X Pupils, {Present})
  BY <1>0, TableEnd DEF ExamsInv
<1>3. OnlyInv({"exam"})'
  BY OnlyEnd DEF ExamsInv
<1>4. PICK v : v = tx[s]
  OBVIOUS
<1>5. ExamWork(v) /\ CardFits(v, stored)
  BY <1>4 DEF ExamsInv
<1>6. DOMAIN db' = DOMAIN db
  BY <1>0, OnlyCommits
<1>7. ASSUME Commit(s)
      PROVE  /\ db'["result"] = Flushed(v, "result") /\ db'["card"] = Flushed(v, "card")
             /\ v.state = "open"
  BY <1>0, <1>4, <1>7, OnlyCommits
<1>8. ASSUME ~Commit(s)
      PROVE  db'["result"] = db["result"] /\ db'["card"] = db["card"]
  BY <1>0, <1>8, OnlyCommits
<1>9. \A k \in Keys("card")' : <<"card", k>> \in stored
  <2>1. CASE Commit(s)
    <3>1. \A k \in DOMAIN Flushed(v, "card") : k \in Keys("card") \/ k \in DOMAIN Rows(v.put, "card")
      BY <1>5, NoRows, FlushedKeys DEF ExamWork
    <3> QED BY <1>5, <1>7, <2>1, <3>1 DEF ExamsInv, CardFits, Keys
  <2>2. CASE ~Commit(s)
    BY <1>8, <2>2 DEF ExamsInv, Keys
  <2> QED BY <2>1, <2>2
<1>10. ASSUME NEW k \in Keys("result")'
       PROVE  /\ db'["result"][k].of = <<"exam", k[1]>>
              /\ serial => ResultGood(db'["result"][k])
  <2>1. CASE Commit(s)
    <3>0. PICK f, new, cols : f = Flushed(v, "result") /\ new = Rows(v.insert, "result") /\ cols = Rows(v.update, "result")
      OBVIOUS
    <3>1. k \in DOMAIN f /\ db'["result"] = f
      BY <1>7, <2>1, <3>0 DEF Keys
    <3>2. \/ k \in DOMAIN new /\ f[k] = new[k]
          \/ k \in Keys("result") /\ k \in DOMAIN cols /\ f[k] = Over(db["result"][k], cols[k])
          \/ k \in Keys("result") /\ f[k] = db["result"][k]
      BY <1>5, <3>0, <3>1, FlushNoPut DEF ExamWork
    <3>3. CASE k \in DOMAIN new /\ f[k] = new[k]
      BY <1>5, <1>7, <2>1, <3>0, <3>1, <3>3 DEF ExamWork
    <3>4. CASE k \in Keys("result") /\ k \in DOMAIN cols /\ f[k] = Over(db["result"][k], cols[k])
      <4>1. PICK old, c : old = db["result"][k] /\ c = cols[k]
        OBVIOUS
      <4>2. old \in Result /\ old.of = <<"exam", k[1]>>
        BY <3>4, <4>1 DEF ExamsInv, TableInv, Table
      <4>3. ResultColumns(c)
        BY <1>5, <3>0, <3>4, <4>1 DEF ExamWork
      <4>4. f[k].of = old.of
        BY <3>4, <4>1, <4>2, <4>3, OverIs DEF ResultColumns, Result
      <4>5. serial => ResultGood(f[k])
        BY <1>5, <1>7, <2>1, <3>0, <3>4, <4>1 DEF ExamWork
      <4> QED BY <3>1, <4>2, <4>4, <4>5
    <3>5. CASE k \in Keys("result") /\ f[k] = db["result"][k]
      BY <3>1, <3>5 DEF ExamsInv
    <3> QED BY <3>2, <3>3, <3>4, <3>5
  <2>2. CASE ~Commit(s)
    BY <1>8, <2>2 DEF ExamsInv, Keys
  <2> QED BY <2>1, <2>2
<1>11. ASSUME NEW q \in Sessions PROVE ExamWork(tx[q])' /\ CardFits(tx'[q], stored)
  <2>1. PICK w : w = tx'[q]
    OBVIOUS
  <2>2. CASE q # s /\ w = tx[q]
    <3>1. ExamWork(w) /\ CardFits(w, stored)
      BY <2>2 DEF ExamsInv
    <3>2. CASE serial /\ w.state = "open"
      <4>1. ~Commit(s)
        BY <1>4, <1>7, <2>2, <3>2 DEF Shape, Busy
      <4>2. db'["result"] = db["result"] /\ Keys("result")' = Keys("result")
        BY <1>8, <4>1 DEF Keys
      <4> QED BY <1>1, <2>1, <3>1, <4>2 DEF ExamWork
    <3>3. CASE ~(serial /\ w.state = "open")
      BY <1>1, <2>1, <3>1, <3>3 DEF ExamWork
    <3> QED BY <3>2, <3>3
  <2>3. CASE w.insert = None /\ w.put = None /\ w.update = None /\ w.drop = None /\ w.state \in {"idle", "after"}
    <3>1. /\ DOMAIN None = {} /\ \A t : Rows(w.insert, t) = None /\ Rows(w.update, t) = None /\ Rows(w.put, t) = None
      BY <2>3, NoRows
    <3>2. ExamWork(w)' /\ CardFits(w, stored)
      BY <2>3, <3>1 DEF ExamWork, CardFits
    <3> QED BY <2>1, <3>2
  <2> QED BY <1>1, <2>1, <2>2, <2>3
<1>12. /\ \A k \in Keys("card")' : <<"card", k>> \in stored'
       /\ \A q \in Sessions : ExamWork(tx[q])' /\ CardFits(tx'[q], stored')
       /\ DOMAIN db' = {"exam", "result", "card", "notice"}
       /\ serial' => \A k \in Keys("result")' : ResultGood(db'.result[k])
  BY <1>0, <1>1, <1>6, <1>9, <1>10, <1>11
<1> QED BY <1>1, <1>2, <1>3, <1>10, <1>12 DEF ExamsInv, TableStays, TableInv, Fits

(* Results and exams that learners see, and what a step may do to them.    *)
ExamsLast ==
    /\ \A k \in Keys("result") \cap DOMAIN db'["result"] : db["result"][k].published => db'["result"][k].published
    /\ \A p \in Pupils : ExamsOfLearner(p) \cap Keys("exam")' \subseteq ExamsOfLearner(p)'

(* Without a deletion every result stays, and with one those of the other  *)
(* exams.                                                                  *)
LEMMA ResultsStay ==
  ASSUME Shape, ExamsInv, NEW w, ExamWork(w), NEW e \in DOMAIN Flushed(w, "exam"), e \in Keys("exam"),
         NEW k \in Keys("result"), k[1] = e
  PROVE  k \in DOMAIN Flushed(w, "result")
<1>1. CASE w.drop = None
  BY <1>1, NothingDropped
<1>2. CASE \E e0 \in ExamNames : w.drop = [exam |-> {e0}] /\ w.insert = None /\ w.update = None /\ w.put = None
  <2>1. PICK e0 \in ExamNames : w.drop = [exam |-> {e0}] /\ w.insert = None /\ w.update = None /\ w.put = None
    BY <1>2
  <2>2. PICK drop : drop = w.drop
    OBVIOUS
  <2>3. DOMAIN drop = {"exam"} /\ drop["exam"] = {e0}
    BY <2>1, <2>2
  <2>4. /\ DOMAIN None = {} /\ \A t : Rows(w.insert, t) = None /\ Rows(w.update, t) = None /\ Rows(w.put, t) = None
    BY <2>1, NoRows
  <2>5. PICK Z : Z = {<<"exam", e0>>} \cup {<<"result", j>> : j \in {x \in Keys("result") : x[1] = e0}}
                     \cup {<<"notice", n>> : n \in Keys("notice")}
    OBVIOUS
  <2>6. \A t \in DOMAIN w.drop : \A j \in w.drop[t] : <<t, j>> \in Z
    BY <2>2, <2>3, <2>5
  <2>7. ASSUME NEW t \in DOMAIN db, NEW j \in Keys(t), "of" \in DOMAIN db[t][j], Owner(w, t, j) \in Z
        PROVE  <<t, j>> \in Z
    <3>1. Owner(w, t, j) = db[t][j].of
      BY <2>4 DEF Owner
    <3>2. t \in {"exam", "result", "card", "notice"}
      BY DEF ExamsInv
    <3>3. t \notin {"exam", "card"}
      <4>1. DOMAIN Present = {}
        BY NoRows DEF Present
      <4>2. t \in {"exam", "card"} => db[t][j] = Present
        BY DEF ExamsInv, TableInv, Table
      <4> QED BY <2>7, <4>1, <4>2
    <3>4. CASE t = "result"
      <4>1. <<"exam", j[1]>> \in Z
        BY <2>7, <3>1, <3>4 DEF ExamsInv
      <4>2. j[1] = e0
        BY <2>5, <4>1
      <4> QED BY <2>5, <2>7, <3>4, <4>2
    <3>5. CASE t = "notice"
      BY <2>5, <2>7, <3>5
    <3> QED BY <3>2, <3>3, <3>4, <3>5
  <2>8. Dropped(w) \subseteq Z
    <3>1. HoldsBelow(w, Z)
      BY <2>7 DEF HoldsBelow
    <3>2. Holds(w, Z)
      BY <2>6 DEF Holds
    <3> QED BY <3>1, <3>2, DroppedWithin
  <2>9. <<"exam", e0>> \in Dropped(w)
    <3>1. PICK base : base = UNION {{<<t, j>> : j \in w.drop[t]} : t \in DOMAIN w.drop}
      OBVIOUS
    <3>2. PICK named : named = {<<"exam", j>> : j \in drop["exam"]}
      OBVIOUS
    <3>5. named \in {{<<t, j>> : j \in w.drop[t]} : t \in DOMAIN w.drop}
      BY <2>2, <2>3, <3>2
    <3>6. e0 \in drop["exam"]
      BY <2>3
    <3>7. <<"exam", e0>> \in named
      BY <3>2, <3>6
    <3>3. <<"exam", e0>> \in base
      BY <3>1, <3>5, <3>7
    <3>4. <<"exam", e0>> \in Below(w, Below(w, Below(w, base)))
      BY <3>3 DEF Below
    <3> QED BY <3>1, <3>4 DEF Dropped
  <2>10. PICK gone : gone = {pair[2] : pair \in {p \in Dropped(w) : p[1] = "exam"}}
    OBVIOUS
  <2>11. DOMAIN Flushed(w, "exam") = Keys("exam") \ gone
    <3>1. PICK new : new = Rows(w.insert, "exam") OBVIOUS
    <3>2. PICK put : put = Rows(w.put, "exam") OBVIOUS
    <3>3. DOMAIN Flushed(w, "exam") = (Keys("exam") \ gone) \cup DOMAIN new \cup DOMAIN put
      BY <2>10, <3>1, <3>2 DEF Flushed
    <3> QED BY <2>4, <3>1, <3>2, <3>3
  <2>12. e # e0
    <3>1. <<"exam", e0>>[2] \in gone
      BY <2>9, <2>10
    <3> QED BY <2>11, <3>1
  <2>13. PICK lost : lost = {pair[2] : pair \in {p \in Dropped(w) : p[1] = "result"}}
    OBVIOUS
  <2>14. k \notin lost
    <3> SUFFICES ASSUME k \in lost PROVE FALSE
      OBVIOUS
    <3>1. PICK pair \in Z : pair[1] = "result" /\ pair[2] = k
      BY <2>8, <2>13
    <3>2. k[1] = e0
      BY <2>5, <3>1
    <3> QED BY <2>12, <3>2
  <2>15. DOMAIN Flushed(w, "result") = Keys("result") \ lost
    <3>1. PICK new : new = Rows(w.insert, "result") OBVIOUS
    <3>2. PICK put : put = Rows(w.put, "result") OBVIOUS
    <3>3. DOMAIN Flushed(w, "result") = (Keys("result") \ lost) \cup DOMAIN new \cup DOMAIN put
      BY <2>13, <3>1, <3>2 DEF Flushed
    <3> QED BY <2>4, <3>1, <3>2, <3>3
  <2> QED BY <2>14, <2>15
<1> QED BY <1>1, <1>2 DEF ExamWork

(* The end of a request takes back no published result and no exam of a    *)
(* learner.                                                                *)
LEMMA ExamsLastEnd ==
  ASSUME Shape, ExamsInv, NEW s \in Sessions, EndOfRequest(s)
  PROVE  ExamsLast
<1>0. "exam" \in DOMAIN db /\ "result" \in DOMAIN db
  BY DEF ExamsInv
<1>1. stored' = stored
  BY WorksAtEnd
<1>2. CASE Commit(s)
  <2>1. PICK w : w = tx[s]
    OBVIOUS
  <2>2. ExamWork(w)
    BY <2>1 DEF ExamsInv
  <2>3. /\ db'["result"] = Flushed(w, "result") /\ db'["exam"] = Flushed(w, "exam") /\ ~Refused(w)
    BY <1>0, <1>2, <2>1, CommitShape
  <2>4. PICK f, new, cols : f = Flushed(w, "result") /\ new = Rows(w.insert, "result") /\ cols = Rows(w.update, "result")
    OBVIOUS
  <2>5. \A k \in DOMAIN new : k \notin Keys("result")
    BY <2>3, <2>4, NoRows DEF Refused, Rows
  <2>6. ASSUME NEW k \in Keys("result"), k \in DOMAIN f, db["result"][k].published PROVE f[k].published
    <3>1. PICK old, c : old = db["result"][k] /\ c = cols[k]
      OBVIOUS
    <3>2. CASE k \in DOMAIN cols /\ f[k] = Over(old, c)
      <4>1. ResultColumns(c) /\ old \in Result
        BY <2>2, <2>4, <3>1, <3>2 DEF ExamWork, ExamsInv, TableInv, Table
      <4>2. PICK over : over = Over(old, c)
        OBVIOUS
      <4>3. over.published = IF "published" \in DOMAIN c THEN c["published"] ELSE old.published
        BY <4>1, <4>2, OverIs DEF Result
      <4> QED BY <2>6, <3>1, <3>2, <4>1, <4>2, <4>3 DEF ResultColumns
    <3>3. CASE f[k] = old
      BY <2>6, <3>1, <3>3
    <3> QED BY <2>2, <2>4, <2>5, <2>6, <3>1, <3>2, <3>3, FlushNoPut DEF ExamWork
  <2>7. ASSUME NEW p \in Pupils, NEW e \in ExamsOfLearner(p), e \in Keys("exam")'
        PROVE  e \in ExamsOfLearner(p)'
    <3>1. e \in DOMAIN Flushed(w, "exam") /\ e \in Keys("exam")
      BY <2>3, <2>7 DEF Keys, ExamsOfLearner
    <3>2. CASE HasCard(e, p)
      BY <1>1, <2>7, <3>2 DEF HasCard, ExamsOfLearner
    <3>3. CASE \E k \in Keys("result") : k[1] = e /\ k[2] = p /\ db.result[k].published
      <4>1. PICK k \in Keys("result") : k[1] = e /\ k[2] = p /\ db.result[k].published
        BY <3>3
      <4>2. k \in DOMAIN f
        BY <2>2, <2>4, <3>1, <4>1, ResultsStay
      <4>3. f[k].published /\ k \in Keys("result")' /\ db'.result[k] = f[k]
        BY <2>3, <2>4, <2>6, <4>1, <4>2 DEF Keys
      <4> QED BY <2>7, <4>1, <4>3 DEF ExamsOfLearner
    <3> QED BY <2>7, <3>2, <3>3 DEF ExamsOfLearner
  <2>8. \A k \in Keys("result") \cap DOMAIN db'["result"] : db["result"][k].published => db'["result"][k].published
    BY <2>3, <2>4, <2>6
  <2> QED BY <2>7, <2>8 DEF ExamsLast
<1>3. CASE ~Commit(s)
  <2>1. db'["result"] = db["result"] /\ db'["exam"] = db["exam"]
    BY <1>0, <1>3, OnlyCommits
  <2> QED BY <1>1, <2>1 DEF ExamsLast, ExamsOfLearner, HasCard, Keys
<1> QED BY <1>2, <1>3

(* A step that changes no row hides no result and no exam.                 *)
LEMMA ExamsLastBegin ==
  ASSUME UNCHANGED db, stored \subseteq stored'
  PROVE  ExamsLast
<1>1. Keys("result")' = Keys("result") /\ Keys("exam")' = Keys("exam")
  BY KeysSame
<1>2. \A e, p : HasCard(e, p) => HasCard(e, p)'
  BY DEF HasCard
<1>3. db'["result"] = db["result"]
  OBVIOUS
<1> QED BY <1>1, <1>2, <1>3 DEF ExamsLast, ExamsOfLearner

(* A unit of work that opens with nobody to tell. *)
Silent(s, w, objects) == Opens(s, w, objects) /\ OnlyFits(w, {})

-----------------------------------------------------------------------------
YearRow == [active : BOOLEAN]
OneActive(rows) == \A y, z \in DOMAIN rows : rows[y].active /\ rows[z].active => y = z
YearsInv == /\ DOMAIN db = {"year", "notice"}
            /\ TableInv("year", Years, YearRow) /\ OnlyInv({}) /\ OneActive(db["year"])

YearsOpens(s, w, objects) == Silent(s, w, objects) /\ Fits(w, "year", Years, YearRow)

(* A row of one Boolean column keeps its type. *)
LEMMA ActiveFits ==
  ASSUME NEW b \in BOOLEAN, NEW columns, columns = [active |-> b] PROVE Fitting(YearRow, columns)
<1> SUFFICES ASSUME NEW row \in YearRow PROVE Over(row, columns) \in YearRow
  BY DEF Fitting
<1>1. PICK r : r = Over(row, columns)
  OBVIOUS
<1>2. r = [c \in {"active"} |-> b]
  BY <1>1 DEF Over, YearRow
<1> QED BY <1>1, <1>2 DEF YearRow

(* What the handler of "create year" collects is sound.                    *)
LEMMA CreateYearPrepares ==
  ASSUME NEW s \in Sessions, NEW y \in Years, CreateYear(s, y)
  PROVE  \E w, objects : YearsOpens(s, w, objects)
<1>0. PICK no : no = FALSE OBVIOUS
<1>1. PICK row, one, new, w : /\ row = [active |-> no] /\ one = (y :> row) /\ new = [year |-> one]
                              /\ w = [Work EXCEPT !.insert = new]
  OBVIOUS
<1>2. BeginWith(s, w, stored \cup {})
  BY <1>0, <1>1 DEF CreateYear, Begin, BeginStoring
<1>3. /\ w.insert = new /\ w.update = None /\ w.put = None /\ w.drop = None /\ w.tell = {} /\ w.state = "open"
      /\ WorkShape(w)
  BY <1>1 DEF Work, Idle, WorkShape
<1>4. Rows(w.insert, "year") = one /\ Rows(w.insert, "notice") = None
  BY <1>1, <1>3 DEF Rows
<1>5. /\ DOMAIN None = {} /\ \A t : Rows(w.update, t) = None /\ Rows(w.put, t) = None
  BY <1>3, NoRows
<1>6. DOMAIN one = {y} /\ one[y] = row /\ row \in YearRow
  BY <1>0, <1>1, OneOf DEF YearRow
<1>7. Fits(w, "year", Years, YearRow) /\ OnlyFits(w, {})
  BY <1>3, <1>4, <1>5, <1>6 DEF Fits, OnlyFits
<1> QED BY <1>2, <1>3, <1>7 DEF YearsOpens, Silent, Opens

(* What the handler of "activate year" collects is sound.                  *)
LEMMA ActivateYearPrepares ==
  ASSUME NEW s \in Sessions, NEW y \in Years, ActivateYear(s, y)
  PROVE  \E w, objects : YearsOpens(s, w, objects)
<1>0. PICK no, yes : no = FALSE /\ yes = TRUE OBVIOUS
<1>1. PICK off, on, rows, one, all, up, w :
         /\ off = [active |-> no] /\ on = [active |-> yes] /\ rows = [z \in ActiveYears |-> off] /\ one = (y :> on)
         /\ all = rows @@ one /\ up = [year |-> all]
         /\ w = [Work EXCEPT !.update = up]
  OBVIOUS
<1>2. BeginWith(s, w, stored \cup {})
  BY <1>0, <1>1 DEF ActivateYear, Begin, BeginStoring
<1>3. /\ w.insert = None /\ w.update = up /\ w.put = None /\ w.drop = None /\ w.tell = {} /\ w.state = "open"
      /\ WorkShape(w)
  BY <1>1 DEF Work, Idle, WorkShape
<1>4. Rows(w.update, "year") = all
  BY <1>1, <1>3 DEF Rows
<1>5. /\ DOMAIN None = {} /\ \A t : Rows(w.insert, t) = None /\ Rows(w.put, t) = None
  BY <1>3, NoRows
<1>6. \A k \in DOMAIN all : all[k] = on \/ all[k] = off
  <2>1. all = [x \in DOMAIN rows \cup DOMAIN one |-> IF x \in DOMAIN rows THEN rows[x] ELSE one[x]]
    BY <1>1 DEF @@
  <2>2. DOMAIN one = {y} /\ one[y] = on
    BY <1>1, OneOf
  <2>3. \A x \in DOMAIN rows : rows[x] = off
    BY <1>1
  <2> QED BY <2>1, <2>2, <2>3
<1>7. Fitting(YearRow, on) /\ Fitting(YearRow, off)
  BY <1>0, <1>1, ActiveFits
<1>8. Fits(w, "year", Years, YearRow) /\ OnlyFits(w, {})
  BY <1>3, <1>4, <1>5, <1>6, <1>7 DEF Fits, OnlyFits
<1> QED BY <1>2, <1>3, <1>8 DEF YearsOpens, Silent, Opens

(* The handlers of years preserve their invariant.                         *)
LEMMA YearsBegin ==
  ASSUME Shape, YearsInv, NEW s \in Sessions, YearsStep(s)
  PROVE  YearsInv' /\ Shape' /\ UNCHANGED <<area, db, serial>>
<1>1. PICK w, objects : YearsOpens(s, w, objects)
  BY CreateYearPrepares, ActivateYearPrepares DEF YearsStep
<1>2. Shape' /\ UNCHANGED <<area, db, serial>>
  BY <1>1, BeginShape DEF YearsOpens, Silent, Opens
<1>3. TableStays("year", Years, YearRow)
  BY <1>1, TableBegin DEF YearsInv, YearsOpens, Silent, Opens
<1>4. OnlyInv({})'
  BY <1>1, OnlyBegin DEF YearsInv, YearsOpens, Silent, Opens
<1> QED BY <1>2, <1>3, <1>4 DEF YearsInv, TableStays, TableInv, Fits

(* The end of a request preserves the invariant of years.                  *)
LEMMA YearsEnd ==
  ASSUME Shape, YearsInv, NEW s \in Sessions, EndOfRequest(s)
  PROVE  YearsInv'
<1>1. DOMAIN db' = DOMAIN db /\ "year" \in DOMAIN db
  BY OnlyCommits DEF YearsInv
<1>2. TableStays("year", Years, YearRow)
  BY <1>1, TableEnd DEF YearsInv
<1>3. OnlyInv({})'
  BY OnlyEnd DEF YearsInv
<1>4. OneActive(db'["year"])
  <2>1. CASE Commit(s)
    <3>1. PICK f, w : w = tx[s] /\ f = Flushed(w, "year")
      OBVIOUS
    <3>2. db'["year"] = f /\ ~Clashes(w, "year")
      BY <1>1, <2>1, <3>1, CommitShape DEF Refused
    <3>3. \A j, k \in DOMAIN f : j # k => ~(f[j].active /\ f[k].active)
      BY <3>1, <3>2 DEF Clashes, Clash
    <3> QED BY <3>2, <3>3 DEF OneActive
  <2>2. CASE ~Commit(s)
    BY <1>1, <2>2, OnlyCommits DEF YearsInv
  <2> QED BY <2>1, <2>2
<1> QED BY <1>1, <1>2, <1>3, <1>4 DEF YearsInv, TableStays, TableInv, Fits

-----------------------------------------------------------------------------
(* The grade master. *)
InOrder(rows) == \A l \in DOMAIN rows : rows[l].low < rows[l].high
GradesInv == /\ DOMAIN db = {"grade", "notice"}
             /\ TableInv("grade", Letters, Band) /\ OnlyInv({})
             /\ serial => /\ InOrder(db["grade"])
                          /\ \A s \in Sessions : Busy(s) => InOrder(Flushed(tx[s], "grade"))

GradesOpens(s, w, objects) == /\ Silent(s, w, objects) /\ Fits(w, "grade", Letters, Band)
                              /\ serial => InOrder(Flushed(w, "grade"))

(* Bounds in order stay in order through the flush of ordered writes.      *)
LEMMA GradesFlushed ==
  ASSUME GradesInv, NEW w, Rows(w.put, "grade") = None,
         \A l \in DOMAIN Rows(w.insert, "grade") : Rows(w.insert, "grade")[l].low < Rows(w.insert, "grade")[l].high,
         \A l \in DOMAIN Rows(w.update, "grade") : l \in Keys("grade") =>
             Over(db["grade"][l], Rows(w.update, "grade")[l]).low < Over(db["grade"][l], Rows(w.update, "grade")[l]).high
  PROVE  serial => InOrder(Flushed(w, "grade"))
<1>1. PICK f, new, cols : f = Flushed(w, "grade") /\ new = Rows(w.insert, "grade") /\ cols = Rows(w.update, "grade")
  OBVIOUS
<1>2. \A k \in DOMAIN f :
          \/ k \in DOMAIN new /\ f[k] = new[k]
          \/ k \in Keys("grade") /\ k \in DOMAIN cols /\ f[k] = Over(db["grade"][k], cols[k])
          \/ k \in Keys("grade") /\ f[k] = db["grade"][k]
  BY <1>1, FlushNoPut
<1>3. serial => \A k \in Keys("grade") : db["grade"][k].low < db["grade"][k].high
  BY DEF GradesInv, InOrder, Keys
<1> QED BY <1>1, <1>2, <1>3 DEF InOrder

(* What the handler of "create grade" collects is sound.                   *)
LEMMA CreateGradePrepares ==
  ASSUME GradesInv, NEW s \in Sessions, NEW l \in Letters, NEW low \in Percents, NEW high \in Percents,
         CreateGrade(s, l, low, high)
  PROVE  \E w, objects : GradesOpens(s, w, objects)
<1>1. PICK row, one, new, w : /\ row = [low |-> low, high |-> high] /\ one = (l :> row) /\ new = [grade |-> one]
                              /\ w = [Work EXCEPT !.insert = new]
  OBVIOUS
<1>2. BeginWith(s, w, stored \cup {}) /\ low < high
  BY <1>1 DEF CreateGrade, Begin, BeginStoring
<1>3. /\ w.insert = new /\ w.update = None /\ w.put = None /\ w.drop = None /\ w.tell = {} /\ w.state = "open"
      /\ WorkShape(w)
  BY <1>1 DEF Work, Idle, WorkShape
<1>4. Rows(w.insert, "grade") = one /\ Rows(w.insert, "notice") = None
  BY <1>1, <1>3 DEF Rows
<1>5. /\ DOMAIN None = {} /\ \A t : Rows(w.update, t) = None /\ Rows(w.put, t) = None
  BY <1>3, NoRows
<1>6. DOMAIN one = {l} /\ one[l] = row /\ row \in Band /\ row.low < row.high
  BY <1>1, <1>2, OneOf DEF Band
<1>7. Fits(w, "grade", Letters, Band) /\ OnlyFits(w, {})
  BY <1>3, <1>4, <1>5, <1>6 DEF Fits, OnlyFits
<1>8. serial => InOrder(Flushed(w, "grade"))
  BY <1>4, <1>5, <1>6, GradesFlushed
<1> QED BY <1>2, <1>3, <1>7, <1>8 DEF GradesOpens, Silent, Opens

(* What the handler of "update grade" collects is sound.                   *)
LEMMA UpdateGradePrepares ==
  ASSUME GradesInv, NEW s \in Sessions, NEW l \in Letters, NEW bound \in {"low", "high"}, NEW percent \in Percents,
         UpdateGrade(s, l, bound :> percent)
  PROVE  \E w, objects : GradesOpens(s, w, objects)
<1>1. PICK set, old, cols, one, up, w :
          /\ set = (bound :> percent) /\ old = db["grade"][l] /\ cols = Changed(old, set)
          /\ one = (l :> cols) /\ up = [grade |-> one]
          /\ w = [Work EXCEPT !.update = up]
  OBVIOUS
<1>2. BeginWith(s, w, stored \cup {}) /\ Over(old, set).low < Over(old, set).high /\ l \in Keys("grade")
  BY <1>1 DEF UpdateGrade, Begin, BeginStoring, Sets
<1>3. /\ w.insert = None /\ w.update = up /\ w.put = None /\ w.drop = None /\ w.tell = {} /\ w.state = "open"
      /\ WorkShape(w)
  BY <1>1 DEF Work, Idle, WorkShape
<1>4. Rows(w.update, "grade") = one
  BY <1>1, <1>3 DEF Rows
<1>5. /\ DOMAIN None = {} /\ \A t : Rows(w.insert, t) = None /\ Rows(w.put, t) = None
  BY <1>3, NoRows
<1>6. DOMAIN one = {l} /\ one[l] = cols /\ DOMAIN set = {bound} /\ set[bound] = percent
  BY <1>1, OneOf
<1>7. Fitting(Band, cols)
  <2> SUFFICES ASSUME NEW row \in Band PROVE Over(row, cols) \in Band
    BY DEF Fitting
  <2>1. DOMAIN cols \subseteq {"low", "high"} /\ \A c \in DOMAIN cols : cols[c] \in Percents
    BY <1>1, <1>6, ChangedIs
  <2>2. PICK r : r = Over(row, cols)
    OBVIOUS
  <2>3. r = [c \in {"low", "high"} |-> IF c \in DOMAIN cols THEN cols[c] ELSE row[c]]
    BY <2>2 DEF Over, Band
  <2>4. r["low"] \in Percents /\ r["high"] \in Percents
    BY <2>1, <2>3 DEF Band
  <2> QED BY <2>2, <2>3, <2>4 DEF Band
<1>8. Fits(w, "grade", Letters, Band) /\ OnlyFits(w, {})
  BY <1>3, <1>4, <1>5, <1>6, <1>7 DEF Fits, OnlyFits
<1>9. Over(old, cols) = Over(old, set)
  BY <1>1, OverChanged
<1>10. serial => InOrder(Flushed(w, "grade"))
  BY <1>1, <1>2, <1>4, <1>5, <1>6, <1>9, GradesFlushed
<1> QED BY <1>2, <1>3, <1>8, <1>10 DEF GradesOpens, Silent, Opens

(* What the handler of "delete grade" collects is sound.                   *)
LEMMA DeleteGradePrepares ==
  ASSUME GradesInv, NEW s \in Sessions, NEW l \in Letters, DeleteRow(s, "grade", l)
  PROVE  \E w, objects : GradesOpens(s, w, objects)
<1>1. PICK gone, w : gone = ("grade" :> {l}) /\ w = [Work EXCEPT !.drop = gone]
  OBVIOUS
<1>2. BeginWith(s, w, stored \cup {})
  BY <1>1 DEF DeleteRow, Begin, BeginStoring
<1>3. /\ w.insert = None /\ w.update = None /\ w.put = None /\ w.drop = gone /\ w.tell = {} /\ w.state = "open"
      /\ WorkShape(w)
  BY <1>1 DEF Work, Idle, WorkShape
<1>4. /\ DOMAIN None = {} /\ \A t : Rows(w.insert, t) = None /\ Rows(w.put, t) = None /\ Rows(w.update, t) = None
  BY <1>3, NoRows
<1>5. Fits(w, "grade", Letters, Band) /\ OnlyFits(w, {})
  BY <1>3, <1>4 DEF Fits, OnlyFits
<1>6. serial => InOrder(Flushed(w, "grade"))
  BY <1>4, GradesFlushed
<1> QED BY <1>2, <1>3, <1>5, <1>6 DEF GradesOpens, Silent, Opens

(* The handlers of grades preserve their invariant.                        *)
LEMMA GradesBegin ==
  ASSUME Shape, GradesInv, NEW s \in Sessions, GradesStep(s)
  PROVE  GradesInv' /\ Shape' /\ UNCHANGED <<area, db, serial>>
<1>1. PICK w, objects : GradesOpens(s, w, objects)
  BY CreateGradePrepares, UpdateGradePrepares, DeleteGradePrepares DEF GradesStep
<1>2. Shape' /\ UNCHANGED <<area, db, serial>> /\ tx' = [q \in Sessions |-> IF q = s THEN w ELSE tx[q]]
  BY <1>1, BeginShape DEF GradesOpens, Silent, Opens
<1>3. TableStays("grade", Letters, Band)
  BY <1>1, TableBegin DEF GradesInv, GradesOpens, Silent, Opens
<1>4. OnlyInv({})'
  BY <1>1, OnlyBegin DEF GradesInv, GradesOpens, Silent, Opens
<1>5. ASSUME serial, NEW q \in Sessions, Busy(q)' PROVE InOrder(Flushed(tx[q], "grade"))'
  <2>1. PICK v : v = IF q = s THEN w ELSE tx[q]
    OBVIOUS
  <2>2. tx[q]' = v
    BY <1>2, <2>1
  <2>3. InOrder(Flushed(v, "grade"))
    BY <1>1, <1>5, <2>1, <2>2 DEF GradesOpens, GradesInv, Busy
  <2>4. Flushed(v, "grade")' = Flushed(v, "grade")
    BY <1>2, FlushedSame
  <2> QED BY <2>2, <2>3, <2>4 DEF InOrder
<1> QED BY <1>2, <1>3, <1>4, <1>5 DEF GradesInv, TableStays, TableInv, Fits, InOrder

(* The end of a request preserves the invariant of grades.                 *)
LEMMA GradesEnd ==
  ASSUME Shape, GradesInv, NEW s \in Sessions, EndOfRequest(s)
  PROVE  GradesInv'
<1>1. DOMAIN db' = DOMAIN db /\ "grade" \in DOMAIN db
  BY OnlyCommits DEF GradesInv
<1>2. TableStays("grade", Letters, Band)
  BY <1>1, TableEnd DEF GradesInv
<1>3. OnlyInv({})'
  BY OnlyEnd DEF GradesInv
<1>4. serial' = serial
  BY WorksAtEnd
<1>5. ASSUME serial
      PROVE  InOrder(db["grade"])' /\ \A q \in Sessions : Busy(q)' => InOrder(Flushed(tx[q], "grade"))'
  <2>1. CASE Commit(s)
    <3>1. tx[s].state = "open" /\ db'["grade"] = Flushed(tx[s], "grade") /\ \A q \in Sessions : tx'[q].state # "open"
      BY <1>1, <1>5, <2>1, SerialEnd
    <3> QED BY <1>5, <3>1 DEF GradesInv, InOrder, Busy
  <2>2. CASE ~Commit(s)
    <3>1. db'["grade"] = db["grade"] /\ \A q \in Sessions : tx'[q].state = "open" => tx'[q] = tx[q]
      BY <1>1, <1>5, <2>2, SerialEnd
    <3>2. ASSUME NEW q \in Sessions, Busy(q)' PROVE InOrder(Flushed(tx[q], "grade"))'
      <4>1. Busy(q) /\ Flushed(tx[q], "grade")' = Flushed(tx[q], "grade")
        BY <1>1, <1>5, <2>2, <3>2, SerialOpen DEF GradesInv, Busy
      <4> QED BY <1>5, <4>1 DEF GradesInv, InOrder
    <3> QED BY <1>5, <3>1, <3>2 DEF GradesInv, InOrder
  <2> QED BY <2>1, <2>2
<1> QED BY <1>1, <1>2, <1>3, <1>4, <1>5 DEF GradesInv, TableStays, TableInv, Fits

(* The photos of a table of photos that are those of an album.             *)
Owned(albums, photos) == \A p \in DOMAIN photos : \E al \in DOMAIN albums : photos[p].of = <<"album", al>>
Shown(photos, al) == {p \in DOMAIN photos : photos[p].of = <<"album", al>> /\ photos[p].featured}
Covered(albums, photos) == \A al \in DOMAIN albums : Shown(photos, al) = {albums[al].cover} \ {"none"}

GalleryWork(w) ==
    /\ Rows(w.put, "album") = None /\ Rows(w.put, "photo") = None
    /\ \/ w.drop = None
       \/ /\ \E al \in Albums : w.drop = [album |-> {al}]
          /\ w.insert = None /\ w.update = None
    /\ \A p \in DOMAIN Rows(w.insert, "photo") :
          \E al \in Albums : Rows(w.insert, "photo")[p].of = <<"album", al>> /\ <<"album", al>> \in w.needs
    /\ \A p \in DOMAIN Rows(w.update, "photo") : DOMAIN Rows(w.update, "photo")[p] \subseteq {"featured"}

GalleryInv ==
    /\ DOMAIN db = {"album", "photo", "notice"}
    /\ TableInv("album", Albums, Album) /\ TableInv("photo", Photos, Photo) /\ OnlyInv({})
    /\ Owned(db["album"], db["photo"])
    /\ \A s \in Sessions : GalleryWork(tx[s])
    /\ serial => /\ Covered(db["album"], db["photo"])
                 /\ \A s \in Sessions : Busy(s) => Covered(Flushed(tx[s], "album"), Flushed(tx[s], "photo"))

GalleryOpens(s, w, objects) ==
    /\ Opens(s, w, objects)
    /\ Fits(w, "album", Albums, Album) /\ Fits(w, "photo", Photos, Photo) /\ OnlyFits(w, {})
    /\ GalleryWork(w)
    /\ serial => Covered(Flushed(w, "album"), Flushed(w, "photo"))

(* A cover keeps the type of an album.                                     *)
LEMMA CoverFits ==
  ASSUME NEW columns, DOMAIN columns \subseteq {"cover"}, "cover" \in DOMAIN columns => columns["cover"] \in Photos \cup {"none"}
  PROVE  Fitting(Album, columns)
<1> SUFFICES ASSUME NEW row \in Album PROVE Over(row, columns) \in Album
  BY DEF Fitting
<1>1. PICK r : r = Over(row, columns)
  OBVIOUS
<1>2. r = [c \in {"cover"} |-> IF c \in DOMAIN columns THEN columns[c] ELSE row[c]]
  BY <1>1 DEF Over, Album
<1>3. r["cover"] \in Photos \cup {"none"}
  BY <1>2 DEF Album
<1> QED BY <1>1, <1>2, <1>3 DEF Album

(* A flag keeps the type of a photo.                                       *)
LEMMA FeaturedFits ==
  ASSUME NEW columns, DOMAIN columns \subseteq {"featured"}, "featured" \in DOMAIN columns => columns["featured"] \in BOOLEAN
  PROVE  Fitting(Photo, columns)
<1> SUFFICES ASSUME NEW row \in Photo PROVE Over(row, columns) \in Photo
  BY DEF Fitting
<1>1. PICK r : r = Over(row, columns)
  OBVIOUS
<1>2. r = [c \in {"of", "featured"} |-> IF c \in DOMAIN columns THEN columns[c] ELSE row[c]]
  BY <1>1 DEF Over, Photo
<1>3. r["featured"] \in BOOLEAN /\ r["of"] \in {"album"} \X Albums
  BY <1>2 DEF Photo
<1> QED BY <1>1, <1>2, <1>3 DEF Photo

(* An album without photos. *)
LEMMA CreateAlbumPrepares ==
  ASSUME GalleryInv, NEW s \in Sessions, NEW al \in Albums, CreateAlbum(s, al)
  PROVE  \E w, objects : GalleryOpens(s, w, objects)
<1>1. PICK row, one, new, w : /\ row = [cover |-> "none"] /\ one = (al :> row) /\ new = [album |-> one]
                              /\ w = [Work EXCEPT !.insert = new]
  OBVIOUS
<1>2. BeginWith(s, w, stored \cup {}) /\ al \notin Keys("album")
  BY <1>1 DEF CreateAlbum, Begin, BeginStoring, Unused
<1>3. /\ w.insert = new /\ w.update = None /\ w.put = None /\ w.drop = None /\ w.tell = {} /\ w.state = "open"
      /\ WorkShape(w)
  BY <1>1 DEF Work, Idle, WorkShape
<1>4. Rows(w.insert, "album") = one /\ Rows(w.insert, "notice") = None /\ Rows(w.insert, "photo") = None
  BY <1>1, <1>3 DEF Rows
<1>5. /\ DOMAIN None = {} /\ \A t : Rows(w.update, t) = None /\ Rows(w.put, t) = None
  BY <1>3, NoRows
<1>6. DOMAIN one = {al} /\ one[al] = row /\ row \in Album /\ row.cover = "none"
  BY <1>1, OneOf DEF Album
<1>7. Fits(w, "album", Albums, Album) /\ Fits(w, "photo", Photos, Photo) /\ OnlyFits(w, {}) /\ GalleryWork(w)
  BY <1>3, <1>4, <1>5, <1>6 DEF Fits, OnlyFits, GalleryWork
<1>8. ASSUME serial PROVE Covered(Flushed(w, "album"), Flushed(w, "photo"))
  <2>1. PICK f, g : f = Flushed(w, "album") /\ g = Flushed(w, "photo")
    OBVIOUS
  <2>2. DOMAIN f = Keys("album") \cup {al} /\ f[al] = row /\ \A x \in Keys("album") : f[x] = db["album"][x]
    <3>1. Rows(w.put, "album") = None /\ Rows(w.update, "album") = None /\ w.drop = None
      BY <1>3, <1>5
    <3>2. /\ DOMAIN Flushed(w, "album") = Keys("album") \cup DOMAIN Rows(w.insert, "album")
          /\ \A k \in DOMAIN Rows(w.insert, "album") : Flushed(w, "album")[k] = Rows(w.insert, "album")[k]
          /\ \A k \in Keys("album") : k \notin DOMAIN Rows(w.insert, "album") => Flushed(w, "album")[k] = db["album"][k]
      BY <3>1, InsertFlush
    <3> QED BY <1>2, <1>4, <1>6, <2>1, <3>2
  <2>6. DOMAIN g = Keys("photo") /\ \A p \in DOMAIN g : g[p] = db["photo"][p]
    <3>1. Rows(w.put, "photo") = None /\ Rows(w.update, "photo") = None /\ w.drop = None /\ DOMAIN Rows(w.insert, "photo") = {}
      BY <1>3, <1>4, <1>5
    <3>2. /\ DOMAIN Flushed(w, "photo") = Keys("photo") \cup DOMAIN Rows(w.insert, "photo")
          /\ \A k \in Keys("photo") : k \notin DOMAIN Rows(w.insert, "photo") => Flushed(w, "photo")[k] = db["photo"][k]
      BY <3>1, InsertFlush
    <3> QED BY <2>1, <3>1, <3>2
  <2>3. Owned(db["album"], db["photo"]) /\ Covered(db["album"], db["photo"])
    BY <1>8 DEF GalleryInv
  <2>4. \A x : Shown(g, x) = Shown(db["photo"], x)
    BY <2>6 DEF Shown, Keys
  <2>5. Shown(g, al) = {}
    BY <1>2, <2>3, <2>4 DEF Shown, Owned, Keys
  <2> QED BY <1>2, <1>6, <2>1, <2>2, <2>3, <2>4, <2>5 DEF Covered, Keys
<1> QED BY <1>2, <1>3, <1>7, <1>8 DEF GalleryOpens, Opens

(* What the handler of "upload photo" collects is sound.                   *)
LEMMA UploadPhotoPrepares ==
  ASSUME GalleryInv, NEW s \in Sessions, NEW al \in Albums, NEW p \in Photos, UploadPhoto(s, al, p)
  PROVE  \E w, objects : GalleryOpens(s, w, objects)
<1>1. PICK first : first = (db["album"][al].cover = "none")
  OBVIOUS
<1>14. PICK of, cover, old, cols, up :
        /\ of = <<"album", al>> /\ cover = [cover |-> p] /\ old = db["album"][al] /\ cols = Changed(old, cover)
        /\ up = (al :> cols)
  OBVIOUS
<1>15. PICK row, one, new, ups, w, needs :
        /\ row = [of |-> of, featured |-> first] /\ one = (p :> row) /\ new = [photo |-> one]
        /\ ups = IF first THEN [album |-> up] ELSE None
        /\ needs = {of}
        /\ w = [Work EXCEPT !.insert = new, !.update = ups, !.needs = needs]
  OBVIOUS
<1>2. /\ of = <<"album", al>> /\ cover = [cover |-> p] /\ old = db["album"][al] /\ cols = Changed(old, cover)
      /\ row = [of |-> of, featured |-> first] /\ one = (p :> row) /\ new = [photo |-> one]
      /\ up = (al :> cols) /\ ups = IF first THEN [album |-> up] ELSE None
      /\ needs = {of}
      /\ w = [Work EXCEPT !.insert = new, !.update = ups, !.needs = needs]
  BY <1>14, <1>15
<1>3. BeginWith(s, w, stored \cup {<<"photo", p>>}) /\ al \in Keys("album") /\ p \notin Keys("photo")
  BY <1>1, <1>2 DEF UploadPhoto, BeginStoring, Unused, Sets
<1>4. /\ w.insert = new /\ w.update = ups /\ w.put = None /\ w.drop = None /\ w.tell = {} /\ w.state = "open"
      /\ w.needs = needs /\ WorkShape(w)
  BY <1>2 DEF Work, Idle, WorkShape
<1>5. /\ Rows(w.insert, "photo") = one /\ Rows(w.insert, "notice") = None /\ Rows(w.insert, "album") = None
      /\ DOMAIN None = {} /\ Rows(w.update, "photo") = None
      /\ first => Rows(w.update, "album") = up
      /\ ~first => Rows(w.update, "album") = None
  BY <1>2, <1>4, NoRows DEF Rows
<1>6. Rows(w.put, "album") = None /\ Rows(w.put, "photo") = None /\ Rows(w.put, "notice") = None
  BY <1>4, NoRows
<1>7. DOMAIN one = {p} /\ one[p] = row /\ DOMAIN up = {al} /\ up[al] = cols
  <2>1. one = (p :> row) /\ up = (al :> cols)
    BY <1>2
  <2> QED BY <2>1, OneOf
<1>8. row \in Photo /\ row.of = of /\ row.featured = first
  BY <1>1, <1>2 DEF Photo
<1>9. DOMAIN cover = {"cover"} /\ cover["cover"] = p
  BY <1>2
<1>10. Fitting(Album, cols)
  BY <1>2, <1>9, ChangedIs, CoverFits
<1>11. Fits(w, "album", Albums, Album) /\ Fits(w, "photo", Photos, Photo) /\ OnlyFits(w, {})
  BY <1>4, <1>5, <1>6, <1>7, <1>8, <1>10 DEF Fits, OnlyFits
<1>12. GalleryWork(w)
  BY <1>2, <1>4, <1>5, <1>6, <1>7, <1>8 DEF GalleryWork
<1>13. ASSUME serial PROVE Covered(Flushed(w, "album"), Flushed(w, "photo"))
  <2>1. PICK f, g : f = Flushed(w, "album") /\ g = Flushed(w, "photo")
    OBVIOUS
  <2>2. /\ DOMAIN g = Keys("photo") \cup DOMAIN Rows(w.insert, "photo")
        /\ \A k \in DOMAIN Rows(w.insert, "photo") : g[k] = Rows(w.insert, "photo")[k]
        /\ \A k \in Keys("photo") : k \notin DOMAIN Rows(w.insert, "photo") => g[k] = db["photo"][k]
    <3>1. Rows(w.put, "photo") = None /\ Rows(w.update, "photo") = None /\ w.drop = None
      BY <1>4, <1>5, <1>6
    <3> QED BY <2>1, <3>1, InsertFlush
  <2>3. /\ DOMAIN f = Keys("album")
        /\ \A k \in DOMAIN Rows(w.update, "album") : k \in Keys("album") => f[k] = Over(db["album"][k], Rows(w.update, "album")[k])
        /\ \A k \in Keys("album") : k \notin DOMAIN Rows(w.update, "album") => f[k] = db["album"][k]
    BY <1>4, <1>5, <1>6, <2>1, UpdateFlush
  <2>4. old \in Album /\ Owned(db["album"], db["photo"]) /\ Covered(db["album"], db["photo"])
    BY <1>2, <1>3, <1>13 DEF GalleryInv, TableInv, Table
  <2>5. first => f[al].cover = p
    <3>1. Over(old, cols) = Over(old, cover) /\ Over(old, cover)["cover"] = cover["cover"]
      BY <1>2, <1>9, <2>4, OverChanged, OverIs DEF Album
    <3> QED BY <1>2, <1>3, <1>5, <1>7, <1>9, <2>3, <3>1
  <2>6. \A k \in Keys("album") : k # al \/ ~first => f[k] = db["album"][k]
    BY <1>5, <1>7, <2>3
  <2>7. DOMAIN g = Keys("photo") \cup {p} /\ g[p] = row /\ \A k \in Keys("photo") : g[k] = db["photo"][k]
    BY <1>3, <1>5, <1>7, <2>2
  <2>8. \A x \in Albums : Shown(g, x) = Shown(db["photo"], x) \cup (IF x = al /\ first THEN {p} ELSE {})
    BY <1>2, <1>3, <1>8, <2>7 DEF Shown, Keys
  <2>9. Shown(db["photo"], al) = {old.cover} \ {"none"} /\ "none" \notin Photos /\ (first <=> old.cover = "none")
    BY <1>1, <1>2, <1>3, <2>4, GalleryConstants DEF Covered, Keys
  <2>10. ASSUME NEW x \in Keys("album") PROVE Shown(g, x) = {f[x].cover} \ {"none"}
    <3>1. x \in Albums /\ Shown(db["photo"], x) = {db["album"][x].cover} \ {"none"}
      BY <2>4 DEF Covered, Keys, GalleryInv, TableInv, Table
    <3>2. CASE x = al /\ first
      BY <2>5, <2>8, <2>9, <3>1, <3>2
    <3>3. CASE ~(x = al /\ first)
      BY <2>6, <2>8, <3>1, <3>3
    <3> QED BY <3>2, <3>3
  <2> QED BY <2>1, <2>3, <2>10 DEF Covered
<1> QED BY <1>3, <1>4, <1>11, <1>12, <1>13 DEF GalleryOpens, Opens

(* What the handler of "toggle" collects is sound.                         *)
LEMMA TogglePrepares ==
  ASSUME GalleryInv, NEW s \in Sessions, NEW p \in Keys("photo"), ToggleFeatured(s, p)
  PROVE  \E w, objects : GalleryOpens(s, w, objects)
<1>1. PICK al, on : al = db["photo"][p].of[2] /\ on = ~db["photo"][p].featured
  OBVIOUS
<1>2. PICK kept : kept = IF db["album"][al].cover = p THEN "none" ELSE db["album"][al].cover
  OBVIOUS
<1>3. PICK cover, set, old, cols, up :
        /\ cover = (IF on THEN p ELSE kept) /\ set = [cover |-> cover] /\ old = db["album"][al] /\ cols = Changed(old, set)
        /\ up = (al :> cols)
  OBVIOUS
<1>4. PICK off : off = [featured |-> FALSE]
  OBVIOUS
<1>5. PICK many : many = [q \in PhotosOf(al) |-> Changed(db["photo"][q], [featured |-> q = p])]
  OBVIOUS
<1>6. PICK one : one = (p :> Changed(db["photo"][p], off))
  OBVIOUS
<1>7. PICK rows : rows = IF on THEN many ELSE one
  OBVIOUS
<1>8. PICK ups, w : ups = [album |-> up, photo |-> rows] /\ w = [Work EXCEPT !.update = ups]
  BY Zenon
<1>9. BeginWith(s, w, stored \cup {})
  BY <1>1, <1>2, <1>3, <1>4, <1>5, <1>6, <1>7, <1>8, Zenon DEF ToggleFeatured, Begin, BeginStoring, Sets
<1>10. /\ w.insert = None /\ w.update = ups /\ w.put = None /\ w.drop = None /\ w.tell = {} /\ w.state = "open"
       /\ WorkShape(w)
  BY <1>8 DEF Work, Idle, WorkShape
<1>11. /\ Rows(w.update, "photo") = rows /\ Rows(w.update, "album") = up /\ DOMAIN None = {}
       /\ \A t : Rows(w.insert, t) = None /\ Rows(w.put, t) = None
  BY <1>8, <1>10, NoRows DEF Rows
<1>12. /\ db["photo"][p] \in Photo /\ p \in Photos /\ al \in Keys("album") /\ al \in Albums
       /\ db["photo"][p].of = <<"album", al>> /\ old \in Album
  <2>1. db["photo"][p] \in Photo /\ p \in Photos
    BY DEF GalleryInv, TableInv, Table
  <2>2. PICK x \in Keys("album") : db["photo"][p].of = <<"album", x>>
    BY DEF GalleryInv, Owned, Keys
  <2>3. x = al
    BY <1>1, <2>2
  <2> QED BY <1>3, <2>1, <2>2, <2>3 DEF GalleryInv, TableInv, Table
<1>13. kept \in Photos \cup {"none"} /\ cover \in Photos \cup {"none"}
  BY <1>2, <1>3, <1>12 DEF Album
<1>14. DOMAIN set = {"cover"} /\ set["cover"] = cover /\ DOMAIN up = {al} /\ up[al] = cols
  BY <1>3, OneOf
<1>15. Fitting(Album, cols)
  BY <1>3, <1>13, <1>14, ChangedIs, CoverFits
<1>16. DOMAIN off = {"featured"} /\ off["featured"] = FALSE /\ DOMAIN one = {p} /\ one[p] = Changed(db["photo"][p], off)
  BY <1>4, <1>6, OneOf
<1>17. \A q \in DOMAIN rows : /\ Fitting(Photo, rows[q]) /\ DOMAIN rows[q] \subseteq {"featured"}
                             /\ Over(db["photo"][q], rows[q]) = Over(db["photo"][q], [featured |-> on /\ q = p])
  <2>1. ASSUME NEW q, NEW b \in BOOLEAN, NEW c, c = Changed(db["photo"][q], [featured |-> b])
        PROVE  Fitting(Photo, c) /\ DOMAIN c \subseteq {"featured"} /\ Over(db["photo"][q], c) = Over(db["photo"][q], [featured |-> b])
    <3>1. PICK f : f = [featured |-> b]
      OBVIOUS
    <3>2. DOMAIN f = {"featured"} /\ f["featured"] = b
      BY <3>1
    <3>3. DOMAIN c \subseteq {"featured"} /\ ("featured" \in DOMAIN c => c["featured"] = b)
      BY <2>1, <3>1, <3>2, ChangedIs
    <3>4. Fitting(Photo, c)
      BY <3>3, FeaturedFits
    <3> QED BY <2>1, <3>3, <3>4, OverChanged
  <2>2. CASE on
    <3>1. ASSUME NEW q \in DOMAIN rows PROVE rows[q] = Changed(db["photo"][q], [featured |-> q = p]) /\ (q = p) \in BOOLEAN
      BY <1>5, <1>7, <2>2
    <3>2. ASSUME NEW q \in DOMAIN rows
          PROVE  /\ Fitting(Photo, rows[q]) /\ DOMAIN rows[q] \subseteq {"featured"}
                 /\ Over(db["photo"][q], rows[q]) = Over(db["photo"][q], [featured |-> q = p])
      <4>1. PICK b : b = (q = p)
        OBVIOUS
      <4>2. b \in BOOLEAN /\ rows[q] = Changed(db["photo"][q], [featured |-> b])
        BY <3>1, <4>1
      <4> QED BY <2>1, <4>1, <4>2
    <3>3. \A q : (on /\ q = p) = (q = p)
      BY <2>2
    <3> QED BY <3>2, <3>3
  <2>3. CASE ~on
    <3>1. ASSUME NEW q \in DOMAIN rows PROVE q = p /\ rows[q] = Changed(db["photo"][q], [featured |-> FALSE])
      BY <1>4, <1>7, <1>16, <2>3
    <3>2. \A q \in DOMAIN rows : Fitting(Photo, rows[q]) /\ DOMAIN rows[q] \subseteq {"featured"}
                              /\ Over(db["photo"][q], rows[q]) = Over(db["photo"][q], [featured |-> FALSE])
      BY <2>1, <3>1
    <3>3. \A q : (on /\ q = p) = FALSE
      BY <2>3
    <3> QED BY <3>2, <3>3
  <2> QED BY <1>1, <2>2, <2>3
<1>18. Fits(w, "album", Albums, Album) /\ Fits(w, "photo", Photos, Photo) /\ OnlyFits(w, {})
  BY <1>10, <1>11, <1>14, <1>15, <1>17 DEF Fits, OnlyFits
<1>19. GalleryWork(w)
  BY <1>10, <1>11, <1>17 DEF GalleryWork
<1>20. ASSUME serial PROVE Covered(Flushed(w, "album"), Flushed(w, "photo"))
  <2>1. PICK f, g : f = Flushed(w, "album") /\ g = Flushed(w, "photo")
    OBVIOUS
  <2>2. /\ DOMAIN g = Keys("photo")
        /\ \A k \in DOMAIN Rows(w.update, "photo") : k \in Keys("photo") => g[k] = Over(db["photo"][k], Rows(w.update, "photo")[k])
        /\ \A k \in Keys("photo") : k \notin DOMAIN Rows(w.update, "photo") => g[k] = db["photo"][k]
    BY <1>10, <1>11, <2>1, UpdateFlush
  <2>3. /\ DOMAIN f = Keys("album")
        /\ \A k \in DOMAIN Rows(w.update, "album") : k \in Keys("album") => f[k] = Over(db["album"][k], Rows(w.update, "album")[k])
        /\ \A k \in Keys("album") : k \notin DOMAIN Rows(w.update, "album") => f[k] = db["album"][k]
    BY <1>10, <1>11, <2>1, UpdateFlush
  <2>4. Covered(db["album"], db["photo"])
    BY <1>20 DEF GalleryInv
  <2>5. f[al].cover = cover
    <3>1. Over(old, cols) = Over(old, set) /\ Over(old, set)["cover"] = set["cover"]
      BY <1>3, <1>12, <1>14, OverChanged, OverIs DEF Album
    <3> QED BY <1>3, <1>11, <1>12, <1>14, <2>3, <3>1
  <2>6. \A k \in Keys("album") : k # al => f[k] = db["album"][k]
    BY <1>11, <1>14, <2>3
  <2>7. \A k \in Keys("photo") :
           IF k \in DOMAIN rows THEN g[k].of = db["photo"][k].of /\ g[k].featured = (on /\ k = p) ELSE g[k] = db["photo"][k]
    <3>1. ASSUME NEW k \in Keys("photo"), k \in DOMAIN rows
          PROVE  g[k].of = db["photo"][k].of /\ g[k].featured = (on /\ k = p)
      <4>1. PICK b, c, r : b = (on /\ k = p) /\ c = [featured |-> b] /\ r = db["photo"][k]
        OBVIOUS
      <4>2. g[k] = Over(r, c) /\ r \in Photo
        BY <1>11, <1>17, <2>2, <3>1, <4>1 DEF GalleryInv, TableInv, Table
      <4>3. DOMAIN c = {"featured"} /\ c["featured"] = b
        BY <4>1
      <4>4. Over(r, c)["of"] = r["of"] /\ Over(r, c)["featured"] = b
        BY <4>2, <4>3, OverIs DEF Photo
      <4> QED BY <4>1, <4>2, <4>4
    <3> QED BY <1>11, <2>2, <3>1
  <2>8. \A x : x # al => Shown(g, x) = Shown(db["photo"], x)
    <3>1. \A k \in DOMAIN rows : db["photo"][k].of = <<"album", al>>
      BY <1>5, <1>7, <1>12, <1>16 DEF PhotosOf
    <3>2. ASSUME NEW x, x # al, NEW k \in Keys("photo")
          PROVE  g[k].of = <<"album", x>> /\ g[k].featured <=> db["photo"][k].of = <<"album", x>> /\ db["photo"][k].featured
      <4>1. CASE k \in DOMAIN rows
        BY <2>7, <3>1, <3>2, <4>1
      <4>2. CASE k \notin DOMAIN rows
        BY <2>7, <4>2
      <4> QED BY <4>1, <4>2
    <3> QED BY <2>2, <3>2 DEF Shown, Keys
  <2>9. Shown(g, al) = {cover} \ {"none"}
    <3>1. Shown(db["photo"], al) = {old.cover} \ {"none"} /\ "none" \notin Photos
      BY <1>3, <1>12, <2>4, GalleryConstants DEF Covered, Keys
    <3>2. CASE on
      <4>1. \A k \in Keys("photo") : k \in DOMAIN rows <=> db["photo"][k].of = <<"album", al>>
        BY <1>5, <1>7, <3>2 DEF PhotosOf
      <4>2. ASSUME NEW k \in Keys("photo")
            PROVE  g[k].of = <<"album", al>> /\ g[k].featured <=> k = p
        BY <1>12, <2>7, <3>2, <4>1
      <4>3. Shown(g, al) = {p}
        BY <2>2, <4>2 DEF Shown
      <4> QED BY <1>3, <1>12, <3>1, <3>2, <4>3
    <3>3. CASE ~on
      <4>1. p \in Shown(db["photo"], al)
        BY <1>1, <1>12, <3>3 DEF Shown, Keys
      <4>2. Shown(db["photo"], al) = {p} /\ old.cover = p /\ cover = "none"
        BY <1>2, <1>3, <3>1, <3>3, <4>1
      <4>3. rows = one /\ DOMAIN rows = {p}
        BY <1>7, <1>16, <3>3
      <4>4. ASSUME NEW k \in Keys("photo") PROVE ~(g[k].of = <<"album", al>> /\ g[k].featured)
        <5>1. CASE k = p
          BY <2>7, <3>3, <4>3, <5>1
        <5>2. CASE k # p
          BY <2>7, <4>2, <4>3, <5>2 DEF Shown, Keys
        <5> QED BY <5>1, <5>2
      <4>5. Shown(g, al) = {}
        BY <2>2, <4>4 DEF Shown
      <4> QED BY <4>2, <4>5
    <3> QED BY <1>1, <3>2, <3>3
  <2>10. \A x \in Keys("album") : Shown(g, x) = {f[x].cover} \ {"none"}
    BY <2>4, <2>5, <2>6, <2>8, <2>9 DEF Covered, Keys
  <2> QED BY <2>1, <2>3, <2>10 DEF Covered
<1> QED BY <1>9, <1>10, <1>18, <1>19, <1>20 DEF GalleryOpens, Opens

(* The drop of an album takes that album and the photos it has.            *)
LEMMA AlbumDrops ==
  ASSUME GalleryInv, NEW al \in Albums, NEW w, w.drop = [album |-> {al}], w.update = None
  PROVE  /\ \A x \in Keys("album") : <<"album", x>> \in Dropped(w) <=> x = al
         /\ \A p \in Keys("photo") : <<"photo", p>> \in Dropped(w) <=> db["photo"][p].of = <<"album", al>>
<1>1. PICK mine, Z : /\ mine = {p \in Keys("photo") : db["photo"][p].of = <<"album", al>>}
                     /\ Z = {<<"album", al>>} \cup {<<"photo", p>> : p \in mine}
  OBVIOUS
<1>2. /\ \A x \in Keys("album") : "of" \notin DOMAIN db["album"][x]
      /\ \A p \in Keys("photo") : "of" \in DOMAIN db["photo"][p]
      /\ \A n \in Keys("notice") : "of" \notin DOMAIN db["notice"][n]
  BY DEF GalleryInv, TableInv, Table, Album, Photo, OnlyInv
<1>3. DOMAIN w.drop = {"album"} /\ w.drop["album"] = {al}
  OBVIOUS
<1>4. \A t, k : Owner(w, t, k) = db[t][k].of
  BY NoRows DEF Owner
<1>5. Holds(w, Z)
  BY <1>1, <1>3 DEF Holds
<1>6. HoldsBelow(w, Z)
  <2> SUFFICES ASSUME NEW t \in DOMAIN db, NEW k \in Keys(t), "of" \in DOMAIN db[t][k], Owner(w, t, k) \in Z
               PROVE  <<t, k>> \in Z
    BY DEF HoldsBelow
  <2>1. t = "photo"
    BY <1>2 DEF GalleryInv
  <2>2. \E x \in Albums : db["photo"][k].of = <<"album", x>>
    BY <2>1 DEF GalleryInv, TableInv, Table, Photo
  <2>3. db["photo"][k].of = <<"album", al>>
    BY <1>1, <1>4, <2>1, <2>2
  <2> QED BY <1>1, <2>1, <2>3
<1>7. Dropped(w) \subseteq Z
  BY <1>5, <1>6, DroppedWithin
<1>8. <<"album", al>> \in Dropped(w)
  BY <1>3, DroppedUnder
<1>9. \A p \in mine : <<"photo", p>> \in Dropped(w)
  <2>1. "photo" \in DOMAIN db
    BY DEF GalleryInv
  <2> QED BY <1>1, <1>2, <1>3, <1>4, <2>1, DroppedUnder
<1> QED BY <1>1, <1>7, <1>8, <1>9

(* What the handler of "delete album" collects is sound.                   *)
LEMMA DeleteAlbumPrepares ==
  ASSUME GalleryInv, NEW s \in Sessions, NEW al \in Albums, DeleteAlbum(s, al)
  PROVE  \E w, objects : GalleryOpens(s, w, objects)
<1>1. PICK gone, w : gone = [album |-> {al}] /\ w = [Work EXCEPT !.drop = gone]
  OBVIOUS
<1>2. BeginWith(s, w, stored \cup {}) /\ PhotosOf(al) = {}
  BY <1>1 DEF DeleteAlbum, Begin, BeginStoring
<1>3. /\ w.insert = None /\ w.update = None /\ w.put = None /\ w.drop = gone /\ w.tell = {} /\ w.state = "open"
      /\ WorkShape(w)
  BY <1>1 DEF Work, Idle, WorkShape
<1>4. /\ DOMAIN None = {} /\ \A t : Rows(w.insert, t) = None /\ Rows(w.put, t) = None /\ Rows(w.update, t) = None
  BY <1>3, NoRows
<1>5. Fits(w, "album", Albums, Album) /\ Fits(w, "photo", Photos, Photo) /\ OnlyFits(w, {})
  BY <1>3, <1>4 DEF Fits, OnlyFits
<1>6. GalleryWork(w)
  BY <1>1, <1>3, <1>4 DEF GalleryWork
<1>7. ASSUME serial PROVE Covered(Flushed(w, "album"), Flushed(w, "photo"))
  <2>1. PICK f, g : f = Flushed(w, "album") /\ g = Flushed(w, "photo")
    OBVIOUS
  <2>2. /\ DOMAIN f = {k \in Keys("album") : <<"album", k>> \notin Dropped(w)}
        /\ \A k \in DOMAIN f : f[k] = db["album"][k]
    <3>1. Rows(w.put, "album") = None /\ Rows(w.insert, "album") = None /\ Rows(w.update, "album") = None
      BY <1>4
    <3>2. /\ DOMAIN Flushed(w, "album") = {k \in Keys("album") : <<"album", k>> \notin Dropped(w)}
          /\ \A k \in DOMAIN Flushed(w, "album") : Flushed(w, "album")[k] = db["album"][k]
      BY <3>1, DropFlush
    <3> QED BY <2>1, <3>2
  <2>3. /\ DOMAIN g = {k \in Keys("photo") : <<"photo", k>> \notin Dropped(w)}
        /\ \A k \in DOMAIN g : g[k] = db["photo"][k]
    <3>1. Rows(w.put, "photo") = None /\ Rows(w.insert, "photo") = None /\ Rows(w.update, "photo") = None
      BY <1>4
    <3>2. /\ DOMAIN Flushed(w, "photo") = {k \in Keys("photo") : <<"photo", k>> \notin Dropped(w)}
          /\ \A k \in DOMAIN Flushed(w, "photo") : Flushed(w, "photo")[k] = db["photo"][k]
      BY <3>1, DropFlush
    <3> QED BY <2>1, <3>2
  <2>4. \A k \in Keys("photo") : <<"photo", k>> \notin Dropped(w)
    BY <1>1, <1>2, <1>3, AlbumDrops DEF PhotosOf
  <2>5. \A x : Shown(g, x) = Shown(db["photo"], x)
    BY <2>3, <2>4 DEF Shown, Keys
  <2> QED BY <1>7, <2>1, <2>2, <2>5 DEF Covered, GalleryInv, Keys
<1> QED BY <1>2, <1>3, <1>5, <1>6, <1>7 DEF GalleryOpens, Opens

(* What the handler of "delete full album" collects is sound.              *)
LEMMA DeleteFullAlbumPrepares ==
  ASSUME GalleryInv, NEW s \in Sessions, NEW al \in Albums, DeleteFullAlbum(s, al)
  PROVE  \E w, objects : GalleryOpens(s, w, objects)
<1>1. PICK needs, w, left : /\ needs = {<<"album", "null">>} /\ w = [Work EXCEPT !.needs = needs]
                            /\ left = stored \ {<<"photo", p>> : p \in PhotosOf(al)}
  OBVIOUS
<1>2. BeginWith(s, w, left)
  BY <1>1 DEF DeleteFullAlbum
<1>3. /\ w.insert = None /\ w.update = None /\ w.put = None /\ w.drop = None /\ w.tell = {} /\ w.state = "open"
      /\ WorkShape(w)
  BY <1>1 DEF Work, Idle, WorkShape
<1>4. /\ DOMAIN None = {} /\ \A t : Rows(w.insert, t) = None /\ Rows(w.put, t) = None /\ Rows(w.update, t) = None
  BY <1>3, NoRows
<1>5. Fits(w, "album", Albums, Album) /\ Fits(w, "photo", Photos, Photo) /\ OnlyFits(w, {})
  BY <1>3, <1>4 DEF Fits, OnlyFits
<1>6. GalleryWork(w)
  BY <1>3, <1>4 DEF GalleryWork
<1>7. ASSUME serial PROVE Covered(Flushed(w, "album"), Flushed(w, "photo"))
  <2>1. PICK f, g : f = Flushed(w, "album") /\ g = Flushed(w, "photo")
    OBVIOUS
  <2>2. DOMAIN f = Keys("album") /\ \A k \in Keys("album") : f[k] = db["album"][k]
    BY <1>3, <1>4, <2>1, SameFlush
  <2>3. DOMAIN g = Keys("photo") /\ \A k \in Keys("photo") : g[k] = db["photo"][k]
    BY <1>3, <1>4, <2>1, SameFlush
  <2>4. \A x : Shown(g, x) = Shown(db["photo"], x)
    BY <2>3 DEF Shown, Keys
  <2> QED BY <1>7, <2>1, <2>2, <2>4 DEF Covered, GalleryInv, Keys
<1> QED BY <1>2, <1>3, <1>5, <1>6, <1>7 DEF GalleryOpens, Opens

(* The handlers of gallery preserve their invariant.                       *)
LEMMA GalleryBegin ==
  ASSUME Shape, GalleryInv, NEW s \in Sessions, GalleryStep(s)
  PROVE  GalleryInv' /\ Shape' /\ UNCHANGED <<area, db, serial>>
<1>1. PICK w, objects : GalleryOpens(s, w, objects)
  BY CreateAlbumPrepares, UploadPhotoPrepares, TogglePrepares, DeleteAlbumPrepares, DeleteFullAlbumPrepares
     DEF GalleryStep, GalleryInv, TableInv, Table
<1>2. Shape' /\ UNCHANGED <<area, db, serial>> /\ tx' = [q \in Sessions |-> IF q = s THEN w ELSE tx[q]]
  BY <1>1, BeginShape DEF GalleryOpens, Opens
<1>3. TableStays("album", Albums, Album) /\ TableStays("photo", Photos, Photo)
  BY <1>1, TableBegin DEF GalleryInv, GalleryOpens, Opens
<1>4. OnlyInv({})'
  BY <1>1, OnlyBegin DEF GalleryInv, GalleryOpens, Opens
<1>5. ASSUME NEW q \in Sessions PROVE GalleryWork(tx'[q])
  BY <1>1, <1>2 DEF GalleryInv, GalleryOpens
<1>6. ASSUME serial, NEW q \in Sessions, Busy(q)' PROVE Covered(Flushed(tx[q], "album"), Flushed(tx[q], "photo"))'
  <2>1. PICK v : v = IF q = s THEN w ELSE tx[q]
    OBVIOUS
  <2>2. tx[q]' = v
    BY <1>2, <2>1
  <2>3. Covered(Flushed(v, "album"), Flushed(v, "photo"))
    BY <1>1, <1>6, <2>1, <2>2 DEF GalleryOpens, GalleryInv, Busy
  <2>4. Flushed(v, "album")' = Flushed(v, "album") /\ Flushed(v, "photo")' = Flushed(v, "photo")
    BY <1>2, FlushedSame
  <2> QED BY <2>2, <2>3, <2>4 DEF Covered, Shown
<1> QED BY <1>2, <1>3, <1>4, <1>5, <1>6 DEF GalleryInv, TableStays, TableInv, Fits, GalleryWork

(* Photos belong to albums after a commit that the database accepts.       *)
LEMMA GalleryCommit ==
  ASSUME Shape, GalleryInv, NEW w, GalleryWork(w), ~Refused(w)
  PROVE  Owned(Flushed(w, "album"), Flushed(w, "photo"))
<1>1. PICK f, g : f = Flushed(w, "album") /\ g = Flushed(w, "photo")
  OBVIOUS
<1>2. Owned(db["album"], db["photo"]) /\ \A need \in w.needs : need[2] \in Keys(need[1])
  BY DEF GalleryInv, Refused
<1>3. CASE w.drop = None
  <2>2. Keys("album") \subseteq DOMAIN f
    BY <1>1, <1>3, NothingDropped
  <2>3. ASSUME NEW p \in DOMAIN g PROVE \E al \in Keys("album") : g[p].of = <<"album", al>>
    <3>1. PICK new, cols : new = Rows(w.insert, "photo") /\ cols = Rows(w.update, "photo")
      OBVIOUS
    <3>2. \/ p \in DOMAIN new /\ g[p] = new[p]
          \/ p \in Keys("photo") /\ p \in DOMAIN cols /\ g[p] = Over(db["photo"][p], cols[p])
          \/ p \in Keys("photo") /\ g[p] = db["photo"][p]
      <4>1. Rows(w.put, "photo") = None /\ p \in DOMAIN Flushed(w, "photo")
        BY <1>1, <2>3 DEF GalleryWork
      <4>2. \/ p \in DOMAIN Rows(w.insert, "photo") /\ Flushed(w, "photo")[p] = Rows(w.insert, "photo")[p]
            \/ p \in Keys("photo") /\ p \in DOMAIN Rows(w.update, "photo")
               /\ Flushed(w, "photo")[p] = Over(db["photo"][p], Rows(w.update, "photo")[p])
            \/ p \in Keys("photo") /\ Flushed(w, "photo")[p] = db["photo"][p]
        BY <4>1, FlushNoPut
      <4> QED BY <1>1, <3>1, <4>2
    <3>3. CASE p \in DOMAIN new /\ g[p] = new[p]
      <4>1. PICK al \in Albums : new[p].of = <<"album", al>> /\ <<"album", al>> \in w.needs
        BY <3>1, <3>3 DEF GalleryWork
      <4> QED BY <1>2, <3>3, <4>1
    <3>4. CASE p \in Keys("photo")
      <4>1. PICK al \in Keys("album") : db["photo"][p].of = <<"album", al>>
        BY <1>2, <3>4 DEF Owned, Keys
      <4>2. db["photo"][p] \in Photo /\ (p \in DOMAIN cols => DOMAIN cols[p] \subseteq {"featured"})
        BY <3>1, <3>4 DEF GalleryInv, TableInv, Table, GalleryWork
      <4>3. p \in DOMAIN cols => Over(db["photo"][p], cols[p])["of"] = db["photo"][p]["of"]
        BY <4>2, OverIs DEF Photo
      <4>4. CASE p \notin DOMAIN new
        BY <3>2, <4>1, <4>3, <4>4
      <4> QED BY <3>2, <3>3, <4>1, <4>3
    <3> QED BY <3>2, <3>3, <3>4
  <2> QED BY <1>1, <2>2, <2>3 DEF Owned
<1>4. ASSUME NEW al \in Albums, w.drop = [album |-> {al}], w.insert = None, w.update = None
      PROVE  Owned(f, g)
  <2>1. /\ \A t : Rows(w.insert, t) = None /\ Rows(w.update, t) = None
        /\ Rows(w.put, "album") = None /\ Rows(w.put, "photo") = None
    BY <1>4, NoRows DEF GalleryWork
  <2>2. DOMAIN Flushed(w, "album") = {k \in Keys("album") : <<"album", k>> \notin Dropped(w)}
    BY <2>1, DropFlush
  <2>3. /\ DOMAIN Flushed(w, "photo") = {k \in Keys("photo") : <<"photo", k>> \notin Dropped(w)}
        /\ \A k \in DOMAIN Flushed(w, "photo") : Flushed(w, "photo")[k] = db["photo"][k]
    <3>1. Rows(w.put, "photo") = None /\ Rows(w.insert, "photo") = None /\ Rows(w.update, "photo") = None
      BY <2>1
    <3> QED BY <3>1, DropFlush
  <2>4. /\ \A x \in Keys("album") : <<"album", x>> \in Dropped(w) <=> x = al
        /\ \A p \in Keys("photo") : <<"photo", p>> \in Dropped(w) <=> db["photo"][p].of = <<"album", al>>
    BY <1>4, AlbumDrops
  <2>5. ASSUME NEW p \in DOMAIN g PROVE \E x \in DOMAIN f : g[p].of = <<"album", x>>
    <3>1. p \in Keys("photo") /\ g[p] = db["photo"][p] /\ db["photo"][p].of # <<"album", al>>
      BY <1>1, <2>3, <2>4, <2>5
    <3>2. PICK x \in Keys("album") : db["photo"][p].of = <<"album", x>>
      BY <1>2, <3>1 DEF Owned, Keys
    <3> QED BY <1>1, <2>2, <2>4, <3>1, <3>2
  <2> QED BY <2>5 DEF Owned
<1> QED BY <1>1, <1>3, <1>4 DEF GalleryWork

(* The end of a request preserves the invariant of gallery.                *)
LEMMA GalleryEnd ==
  ASSUME Shape, GalleryInv, NEW s \in Sessions, EndOfRequest(s)
  PROVE  GalleryInv'
<1>1. DOMAIN db' = DOMAIN db /\ "album" \in DOMAIN db /\ "photo" \in DOMAIN db
  BY OnlyCommits DEF GalleryInv
<1>2. TableStays("album", Albums, Album) /\ TableStays("photo", Photos, Photo)
  BY <1>1, TableEnd DEF GalleryInv
<1>3. OnlyInv({})'
  BY OnlyEnd DEF GalleryInv
<1>4. serial' = serial
  BY WorksAtEnd
<1>5. ASSUME NEW q \in Sessions PROVE GalleryWork(tx'[q])
  <2>1. \/ q # s /\ tx'[q] = tx[q]
        \/ tx'[q].insert = None /\ tx'[q].put = None /\ tx'[q].update = None /\ tx'[q].drop = None
    BY WorksAtEnd
  <2>2. ASSUME NEW w, w.insert = None, w.put = None, w.update = None, w.drop = None PROVE GalleryWork(w)
    BY <2>2, NoRows DEF GalleryWork
  <2> QED BY <2>1, <2>2 DEF GalleryInv
<1>6. Owned(db["album"], db["photo"])'
  <2>1. CASE Commit(s)
    <3>1. ~Refused(tx[s]) /\ db'["album"] = Flushed(tx[s], "album") /\ db'["photo"] = Flushed(tx[s], "photo")
      BY <1>1, <2>1, CommitShape
    <3>2. Owned(Flushed(tx[s], "album"), Flushed(tx[s], "photo"))
      BY <3>1, GalleryCommit DEF GalleryInv
    <3> QED BY <3>1, <3>2 DEF Owned
  <2>2. CASE ~Commit(s)
    <3>1. db'["album"] = db["album"] /\ db'["photo"] = db["photo"]
      BY <1>1, <2>2, OnlyCommits DEF GalleryInv
    <3> QED BY <3>1 DEF GalleryInv, Owned
  <2> QED BY <2>1, <2>2
<1>7. ASSUME serial
      PROVE  /\ Covered(db["album"], db["photo"])'
             /\ \A q \in Sessions : Busy(q)' => Covered(Flushed(tx[q], "album"), Flushed(tx[q], "photo"))'
  <2>1. CASE Commit(s)
    <3>1. /\ tx[s].state = "open" /\ db'["album"] = Flushed(tx[s], "album") /\ db'["photo"] = Flushed(tx[s], "photo")
          /\ \A q \in Sessions : tx'[q].state # "open"
      BY <1>1, <1>7, <2>1, SerialEnd
    <3>2. Covered(Flushed(tx[s], "album"), Flushed(tx[s], "photo"))
      BY <1>7, <3>1 DEF GalleryInv, Busy
    <3> QED BY <3>1, <3>2 DEF Covered, Shown, Busy
  <2>2. CASE ~Commit(s)
    <3>1. /\ db'["album"] = db["album"] /\ db'["photo"] = db["photo"]
          /\ \A q \in Sessions : tx'[q].state = "open" => tx'[q] = tx[q]
      BY <1>1, <1>7, <2>2, SerialEnd DEF GalleryInv
    <3>2. ASSUME NEW q \in Sessions, Busy(q)' PROVE Covered(Flushed(tx[q], "album"), Flushed(tx[q], "photo"))'
      <4>1. /\ Busy(q) /\ Flushed(tx[q], "album")' = Flushed(tx[q], "album")
            /\ Flushed(tx[q], "photo")' = Flushed(tx[q], "photo")
        BY <1>1, <1>7, <2>2, <3>2, SerialOpen DEF GalleryInv, Busy
      <4> QED BY <1>7, <4>1 DEF GalleryInv, Covered, Shown
    <3> QED BY <1>7, <3>1, <3>2 DEF GalleryInv
  <2> QED BY <2>1, <2>2
<1> QED BY <1>1, <1>2, <1>3, <1>4, <1>5, <1>6, <1>7 DEF GalleryInv, TableStays, TableInv, Fits, GalleryWork

-----------------------------------------------------------------------------
(* Exam schedules: one of an exam and a section; what is published stays   *)
(* published, and what is cancelled stays cancelled.                       *)
SeriesOnce(rows) == \A j, k \in DOMAIN rows :
    rows[j].of = rows[k].of /\ rows[j].section = rows[k].section => j = k
OnlyTrue(columns, name) == DOMAIN columns \subseteq {name} /\ \A c \in DOMAIN columns : columns[c] = TRUE
ScheduleWork(w) ==
    /\ Rows(w.put, "series") = None /\ Rows(w.put, "paper") = None
    /\ \A x \in DOMAIN Rows(w.update, "series") : OnlyTrue(Rows(w.update, "series")[x], "published")
    /\ \A n \in DOMAIN Rows(w.update, "paper") : OnlyTrue(Rows(w.update, "paper")[n], "cancelled")
SchedulesInv ==
    /\ DOMAIN db = {"exam", "series", "paper", "notice"}
    /\ TableInv("exam", ExamNames, {Present}) /\ TableInv("series", Series, ExamSeries)
    /\ TableInv("paper", Entries, Paper) /\ OnlyInv({"series"})
    /\ \A s \in Sessions : ScheduleWork(tx[s])
    /\ serial => /\ SeriesOnce(db["series"])
                 /\ \A s \in Sessions : Busy(s) => SeriesOnce(Flushed(tx[s], "series"))

SchedulesOpens(s, w, objects) ==
    /\ Opens(s, w, objects) /\ OnlyFits(w, {"series"}) /\ ScheduleWork(w)
    /\ Fits(w, "exam", ExamNames, {Present}) /\ Fits(w, "series", Series, ExamSeries) /\ Fits(w, "paper", Entries, Paper)
    /\ serial => SeriesOnce(Flushed(w, "series"))

(* What happened to the rows of schedules in a step. *)
SchedulesLast ==
    /\ \A x \in Keys("series") \cap DOMAIN db'["series"] : db["series"][x].published => db'["series"][x].published
    /\ \A n \in Keys("paper") \cap DOMAIN db'["paper"] : db["paper"][n].cancelled => db'["paper"][n].cancelled

(* Columns that are only set to true keep the types of schedules and       *)
(* papers.                                                                 *)
LEMMA TrueFits ==
  ASSUME NEW columns
  PROVE  /\ OnlyTrue(columns, "published") => Fitting(ExamSeries, columns)
         /\ OnlyTrue(columns, "cancelled") => Fitting(Paper, columns)
<1>1. ASSUME OnlyTrue(columns, "published"), NEW row \in ExamSeries PROVE Over(row, columns) \in ExamSeries
  <2>1. PICK r : r = Over(row, columns)
    OBVIOUS
  <2>2. r = [c \in {"of", "section", "published"} |-> IF c \in DOMAIN columns THEN columns[c] ELSE row[c]]
    BY <1>1, <2>1, OverIs DEF ExamSeries
  <2>3. r = [of |-> row.of, section |-> row.section, published |-> r.published] /\ r.published \in BOOLEAN
    BY <1>1, <2>2 DEF OnlyTrue, ExamSeries
  <2> QED BY <1>1, <2>1, <2>3 DEF ExamSeries
<1>2. ASSUME OnlyTrue(columns, "cancelled"), NEW row \in Paper PROVE Over(row, columns) \in Paper
  <2>1. PICK r : r = Over(row, columns)
    OBVIOUS
  <2>2. r = [c \in {"of", "cancelled"} |-> IF c \in DOMAIN columns THEN columns[c] ELSE row[c]]
    BY <1>2, <2>1, OverIs DEF Paper
  <2>3. r = [of |-> row.of, cancelled |-> r.cancelled] /\ r.cancelled \in BOOLEAN
    BY <1>2, <2>2 DEF OnlyTrue, Paper
  <2> QED BY <1>2, <2>1, <2>3 DEF Paper
<1> QED BY <1>1, <1>2 DEF Fitting

(* What the handler of "create series" collects is sound.                  *)
LEMMA CreateSeriesPrepares ==
  ASSUME SchedulesInv, NEW s \in Sessions, NEW x \in Series, NEW e \in ExamNames, NEW section \in Sections,
         CreateSeries(s, x, e, section)
  PROVE  \E w, objects : SchedulesOpens(s, w, objects)
<1>0. PICK no, needs : no = FALSE /\ needs = {<<"exam", e>>} OBVIOUS
<1>1. PICK row, one, new, w : /\ row = [of |-> <<"exam", e>>, section |-> section, published |-> no]
                              /\ one = (x :> row) /\ new = [series |-> one]
                              /\ w = [Work EXCEPT !.insert = new, !.needs = needs]
  OBVIOUS
<1>2. BeginWith(s, w, stored \cup {}) /\ SeriesOf(e, section) = {}
  BY <1>0, <1>1 DEF CreateSeries, Begin, BeginStoring
<1>3. /\ w.insert = new /\ w.update = None /\ w.put = None /\ w.drop = None /\ w.tell = {} /\ w.state = "open"
      /\ WorkShape(w)
  BY <1>1 DEF Work, Idle, WorkShape
<1>4. Rows(w.insert, "series") = one /\ \A t \in {"notice", "exam", "paper"} : Rows(w.insert, t) = None
  BY <1>1, <1>3 DEF Rows
<1>5. /\ DOMAIN None = {} /\ \A t : Rows(w.update, t) = None /\ Rows(w.put, t) = None
  BY <1>3, NoRows
<1>6. DOMAIN one = {x} /\ one[x] = row /\ row \in ExamSeries
  <2>1. one = (x :> row)
    BY <1>1
  <2>2. DOMAIN one = {x} /\ one[x] = row
    BY <2>1, OneOf
  <2>3. row \in ExamSeries
    BY <1>0, <1>1 DEF ExamSeries
  <2> QED BY <2>2, <2>3
<1>7. /\ OnlyFits(w, {"series"}) /\ ScheduleWork(w) /\ Fits(w, "series", Series, ExamSeries)
      /\ Fits(w, "exam", ExamNames, {Present}) /\ Fits(w, "paper", Entries, Paper)
  BY <1>3, <1>4, <1>5, <1>6 DEF Fits, OnlyFits, ScheduleWork
<1>8. ASSUME serial PROVE SeriesOnce(Flushed(w, "series"))
  <2>1. Rows(w.put, "series") = None /\ Rows(w.update, "series") = None
    BY <1>5
  <2>2. /\ DOMAIN Flushed(w, "series") = Keys("series") \cup DOMAIN Rows(w.insert, "series")
        /\ \A k \in DOMAIN Rows(w.insert, "series") : Flushed(w, "series")[k] = Rows(w.insert, "series")[k]
        /\ \A k \in Keys("series") : k \notin DOMAIN Rows(w.insert, "series") => Flushed(w, "series")[k] = db["series"][k]
    BY <1>3, <2>1, InsertFlush
  <2>3. PICK f : f = Flushed(w, "series")
    OBVIOUS
  <2>4. /\ DOMAIN f = Keys("series") \cup {x} /\ f[x] = row
        /\ \A k \in Keys("series") : k # x => f[k] = db["series"][k]
    BY <1>4, <1>6, <2>2, <2>3
  <2>5. \A k \in Keys("series") : ~(db["series"][k].of = row.of /\ db["series"][k].section = row.section)
    BY <1>1, <1>2 DEF SeriesOf
  <2>6. SeriesOnce(db["series"])
    BY <1>8 DEF SchedulesInv
  <2> QED BY <2>3, <2>4, <2>5, <2>6 DEF SeriesOnce, Keys
<1> QED BY <1>2, <1>3, <1>7, <1>8 DEF SchedulesOpens, Opens

(* A handler that leaves the table of schedules alone. *)
LEMMA SeriesAlone ==
  ASSUME SchedulesInv, NEW w, w.drop = None, Rows(w.put, "series") = None, Rows(w.insert, "series") = None,
         \A x \in DOMAIN Rows(w.update, "series") : OnlyTrue(Rows(w.update, "series")[x], "published")
  PROVE  serial => SeriesOnce(Flushed(w, "series"))
<1>1. /\ DOMAIN Flushed(w, "series") = Keys("series")
      /\ \A k \in DOMAIN Rows(w.update, "series") : k \in Keys("series") =>
            Flushed(w, "series")[k] = Over(db["series"][k], Rows(w.update, "series")[k])
      /\ \A k \in Keys("series") : k \notin DOMAIN Rows(w.update, "series") => Flushed(w, "series")[k] = db["series"][k]
  BY UpdateFlush
<1>2. PICK f, cols : f = Flushed(w, "series") /\ cols = Rows(w.update, "series")
  OBVIOUS
<1>3. ASSUME NEW k \in Keys("series") PROVE f[k].of = db["series"][k].of /\ f[k].section = db["series"][k].section
  <2>1. CASE k \in DOMAIN cols
    <3>1. PICK old, c, over : old = db["series"][k] /\ c = cols[k] /\ over = Over(old, c)
      OBVIOUS
    <3>2. f[k] = over /\ DOMAIN c \subseteq {"published"} /\ old \in ExamSeries
      BY <1>1, <1>2, <2>1, <3>1 DEF OnlyTrue, SchedulesInv, TableInv, Table
    <3>3. over["of"] = old["of"] /\ over["section"] = old["section"]
      BY <3>1, <3>2, OverIs DEF ExamSeries
    <3> QED BY <3>1, <3>2, <3>3
  <2>2. CASE k \notin DOMAIN cols
    BY <1>1, <1>2, <2>2
  <2> QED BY <2>1, <2>2
<1>4. ASSUME serial PROVE SeriesOnce(f)
  <2>1. SeriesOnce(db["series"]) /\ DOMAIN f = Keys("series")
    BY <1>1, <1>2, <1>4 DEF SchedulesInv
  <2> QED BY <1>3, <2>1 DEF SeriesOnce, Keys
<1> QED BY <1>2, <1>4

(* What the handler of "add entry" collects is sound.                      *)
LEMMA AddEntryPrepares ==
  ASSUME SchedulesInv, NEW s \in Sessions, NEW n \in Entries, NEW x \in Series, AddEntry(s, n, x)
  PROVE  \E w, objects : SchedulesOpens(s, w, objects)
<1>0. PICK no, needs : no = FALSE /\ needs = {<<"series", x>>} OBVIOUS
<1>1. PICK row, one, new, w : /\ row = [of |-> <<"series", x>>, cancelled |-> no]
                              /\ one = (n :> row) /\ new = [paper |-> one]
                              /\ w = [Work EXCEPT !.insert = new, !.needs = needs]
  OBVIOUS
<1>2. BeginWith(s, w, stored \cup {})
  BY <1>0, <1>1 DEF AddEntry, Begin, BeginStoring
<1>3. /\ w.insert = new /\ w.update = None /\ w.put = None /\ w.drop = None /\ w.tell = {} /\ w.state = "open"
      /\ WorkShape(w)
  BY <1>1 DEF Work, Idle, WorkShape
<1>4. Rows(w.insert, "paper") = one /\ \A t \in {"notice", "exam", "series"} : Rows(w.insert, t) = None
  BY <1>1, <1>3 DEF Rows
<1>5. /\ DOMAIN None = {} /\ \A t : Rows(w.update, t) = None /\ Rows(w.put, t) = None
  BY <1>3, NoRows
<1>6. DOMAIN one = {n} /\ one[n] = row /\ row \in Paper
  <2>1. one = (n :> row)
    BY <1>1
  <2>2. DOMAIN one = {n} /\ one[n] = row
    BY <2>1, OneOf
  <2>3. row \in Paper
    BY <1>0, <1>1 DEF Paper
  <2> QED BY <2>2, <2>3
<1>7. /\ OnlyFits(w, {"series"}) /\ ScheduleWork(w) /\ Fits(w, "series", Series, ExamSeries)
      /\ Fits(w, "exam", ExamNames, {Present}) /\ Fits(w, "paper", Entries, Paper)
  BY <1>3, <1>4, <1>5, <1>6 DEF Fits, OnlyFits, ScheduleWork
<1>8. serial => SeriesOnce(Flushed(w, "series"))
  BY <1>3, <1>4, <1>5, SeriesAlone
<1> QED BY <1>2, <1>3, <1>7, <1>8 DEF SchedulesOpens, Opens

(* What the handler of "publish series" collects is sound.                 *)
LEMMA PublishSeriesPrepares ==
  ASSUME SchedulesInv, NEW s \in Sessions, NEW x \in Series, PublishSeries(s, x)
  PROVE  \E w, objects : SchedulesOpens(s, w, objects)
<1>0. PICK yes, tell : yes = TRUE /\ tell = {<<"series", x>>} OBVIOUS
<1>1. PICK set, cols, one, up, w : /\ set = [published |-> yes] /\ cols = Changed(db["series"][x], set)
                                   /\ one = (x :> cols) /\ up = [series |-> one]
                                   /\ w = [Work EXCEPT !.update = up, !.tell = tell]
  OBVIOUS
<1>2. BeginWith(s, w, stored \cup {})
  BY <1>0, <1>1 DEF PublishSeries, Begin, BeginStoring, Sets
<1>3. /\ w.insert = None /\ w.update = up /\ w.put = None /\ w.drop = None /\ w.tell = tell /\ w.state = "open"
      /\ WorkShape(w)
  BY <1>1 DEF Work, Idle, WorkShape
<1>4. Rows(w.update, "series") = one /\ \A t \in {"notice", "exam", "paper"} : Rows(w.update, t) = None
  BY <1>1, <1>3 DEF Rows
<1>5. /\ DOMAIN None = {} /\ \A t : Rows(w.insert, t) = None /\ Rows(w.put, t) = None
  BY <1>3, NoRows
<1>6. DOMAIN one = {x} /\ one[x] = cols /\ OnlyTrue(cols, "published")
  <2>1. DOMAIN set = {"published"} /\ set["published"] = TRUE
    BY <1>0, <1>1
  <2>2. OnlyTrue(cols, "published")
    BY <1>1, <2>1, ChangedIs DEF OnlyTrue
  <2>3. DOMAIN one = {x} /\ one[x] = cols
    BY <1>1, OneOf
  <2> QED BY <2>2, <2>3
<1>7. /\ OnlyFits(w, {"series"}) /\ ScheduleWork(w) /\ Fits(w, "series", Series, ExamSeries)
      /\ Fits(w, "exam", ExamNames, {Present}) /\ Fits(w, "paper", Entries, Paper)
  BY <1>0, <1>3, <1>4, <1>5, <1>6, TrueFits DEF Fits, OnlyFits, ScheduleWork
<1>8. serial => SeriesOnce(Flushed(w, "series"))
  BY <1>3, <1>4, <1>5, <1>6, SeriesAlone
<1> QED BY <1>2, <1>3, <1>7, <1>8 DEF SchedulesOpens, Opens

(* What the handler of "cancel entry" collects is sound.                   *)
LEMMA CancelEntryPrepares ==
  ASSUME SchedulesInv, NEW s \in Sessions, NEW n \in Entries, CancelEntry(s, n)
  PROVE  \E w, objects : SchedulesOpens(s, w, objects)
<1>0. PICK yes : yes = TRUE OBVIOUS
<1>1. PICK set, cols, one, up, w : /\ set = [cancelled |-> yes] /\ cols = Changed(db["paper"][n], set)
                                   /\ one = (n :> cols) /\ up = [paper |-> one]
                                   /\ w = [Work EXCEPT !.update = up]
  OBVIOUS
<1>2. BeginWith(s, w, stored \cup {})
  BY <1>0, <1>1 DEF CancelEntry, Begin, BeginStoring, Sets
<1>3. /\ w.insert = None /\ w.update = up /\ w.put = None /\ w.drop = None /\ w.tell = {} /\ w.state = "open"
      /\ WorkShape(w)
  BY <1>1 DEF Work, Idle, WorkShape
<1>4. Rows(w.update, "paper") = one /\ \A t \in {"notice", "exam", "series"} : Rows(w.update, t) = None
  BY <1>1, <1>3 DEF Rows
<1>5. /\ DOMAIN None = {} /\ \A t : Rows(w.insert, t) = None /\ Rows(w.put, t) = None
  BY <1>3, NoRows
<1>6. DOMAIN one = {n} /\ one[n] = cols /\ OnlyTrue(cols, "cancelled")
  <2>1. DOMAIN set = {"cancelled"} /\ set["cancelled"] = TRUE
    BY <1>0, <1>1
  <2>2. OnlyTrue(cols, "cancelled")
    BY <1>1, <2>1, ChangedIs DEF OnlyTrue
  <2>3. DOMAIN one = {n} /\ one[n] = cols
    BY <1>1, OneOf
  <2> QED BY <2>2, <2>3
<1>7. /\ OnlyFits(w, {"series"}) /\ ScheduleWork(w) /\ Fits(w, "series", Series, ExamSeries)
      /\ Fits(w, "exam", ExamNames, {Present}) /\ Fits(w, "paper", Entries, Paper)
  BY <1>3, <1>4, <1>5, <1>6, TrueFits DEF Fits, OnlyFits, ScheduleWork
<1>8. serial => SeriesOnce(Flushed(w, "series"))
  BY <1>3, <1>4, <1>5, SeriesAlone
<1> QED BY <1>2, <1>3, <1>7, <1>8 DEF SchedulesOpens, Opens

(* What the handler of "drop exam" collects is sound.                      *)
LEMMA DropExamPrepares ==
  ASSUME SchedulesInv, NEW s \in Sessions, NEW e \in ExamNames, DeleteExam(s, e)
  PROVE  \E w, objects : SchedulesOpens(s, w, objects)
<1>1. PICK gone, w : gone = [exam |-> {e}] /\ w = [Work EXCEPT !.drop = gone]
  OBVIOUS
<1>2. BeginWith(s, w, stored \cup {})
  BY <1>1 DEF DeleteExam, Begin, BeginStoring
<1>3. /\ w.insert = None /\ w.update = None /\ w.put = None /\ w.drop = gone /\ w.tell = {} /\ w.state = "open"
      /\ WorkShape(w)
  BY <1>1 DEF Work, Idle, WorkShape
<1>4. /\ DOMAIN None = {} /\ \A t : Rows(w.insert, t) = None /\ Rows(w.put, t) = None /\ Rows(w.update, t) = None
  BY <1>3, NoRows
<1>5. /\ OnlyFits(w, {"series"}) /\ ScheduleWork(w) /\ Fits(w, "series", Series, ExamSeries)
      /\ Fits(w, "exam", ExamNames, {Present}) /\ Fits(w, "paper", Entries, Paper)
  BY <1>3, <1>4 DEF Fits, OnlyFits, ScheduleWork
<1>6. ASSUME serial PROVE SeriesOnce(Flushed(w, "series"))
  <2>1. Rows(w.put, "series") = None /\ Rows(w.insert, "series") = None /\ Rows(w.update, "series") = None
    BY <1>4
  <2>2. /\ DOMAIN Flushed(w, "series") = {k \in Keys("series") : <<"series", k>> \notin Dropped(w)}
        /\ \A k \in DOMAIN Flushed(w, "series") : Flushed(w, "series")[k] = db["series"][k]
    BY <2>1, DropFlush
  <2>3. PICK f : f = Flushed(w, "series")
    OBVIOUS
  <2>4. DOMAIN f \subseteq Keys("series") /\ \A k \in DOMAIN f : f[k] = db["series"][k]
    BY <2>2, <2>3
  <2>5. SeriesOnce(db["series"])
    BY <1>6 DEF SchedulesInv
  <2> QED BY <2>3, <2>4, <2>5 DEF SeriesOnce, Keys
<1> QED BY <1>2, <1>3, <1>5, <1>6 DEF SchedulesOpens, Opens

(* The handlers of schedules preserve their invariant.                     *)
LEMMA SchedulesBegin ==
  ASSUME Shape, SchedulesInv, NEW s \in Sessions, SchedulesStep(s)
  PROVE  SchedulesInv' /\ Shape' /\ UNCHANGED <<area, db, serial>>
<1>1. PICK w, objects : SchedulesOpens(s, w, objects)
  BY CreateSeriesPrepares, AddEntryPrepares, PublishSeriesPrepares, CancelEntryPrepares, DropExamPrepares
     DEF SchedulesStep
<1>2. Shape' /\ UNCHANGED <<area, db, serial>> /\ tx' = [q \in Sessions |-> IF q = s THEN w ELSE tx[q]]
  BY <1>1, BeginShape DEF SchedulesOpens, Opens
<1>3. TableStays("exam", ExamNames, {Present})
  BY <1>1, TableBegin DEF SchedulesInv, SchedulesOpens, Opens
<1>4. TableStays("series", Series, ExamSeries)
  BY <1>1, TableBegin DEF SchedulesInv, SchedulesOpens, Opens
<1>5. TableStays("paper", Entries, Paper)
  BY <1>1, TableBegin DEF SchedulesInv, SchedulesOpens, Opens
<1>6. OnlyInv({"series"})'
  BY <1>1, OnlyBegin DEF SchedulesInv, SchedulesOpens, Opens
<1>7. \A q \in Sessions : ScheduleWork(tx[q])'
  <2>1. ASSUME NEW q \in Sessions PROVE ScheduleWork(tx[q])'
    <3>1. PICK v : v = IF q = s THEN w ELSE tx[q]
      OBVIOUS
    <3>2. tx[q]' = v /\ ScheduleWork(v)
      BY <1>1, <1>2, <3>1 DEF SchedulesOpens, SchedulesInv
    <3> QED BY <3>2 DEF ScheduleWork, OnlyTrue, Rows
  <2> QED BY <2>1
<1>8. ASSUME serial, NEW q \in Sessions, Busy(q)' PROVE SeriesOnce(Flushed(tx[q], "series"))'
  <2>1. PICK v : v = IF q = s THEN w ELSE tx[q]
    OBVIOUS
  <2>2. tx[q]' = v
    BY <1>2, <2>1
  <2>3. SeriesOnce(Flushed(v, "series"))
    BY <1>1, <1>8, <2>1, <2>2 DEF SchedulesOpens, SchedulesInv, Busy
  <2>4. Flushed(v, "series")' = Flushed(v, "series")
    BY <1>2, FlushedSame
  <2> QED BY <2>2, <2>3, <2>4 DEF SeriesOnce
<1>9. /\ DOMAIN db' = {"exam", "series", "paper", "notice"}
      /\ serial' => SeriesOnce(db["series"])'
  BY <1>2 DEF SchedulesInv, SeriesOnce
<1>10. (TableInv("exam", ExamNames, {Present}) /\ TableInv("series", Series, ExamSeries) /\ TableInv("paper", Entries, Paper))'
  BY <1>3, <1>4, <1>5 DEF TableStays, TableInv, Fits
<1> QED BY <1>2, <1>6, <1>7, <1>8, <1>9, <1>10 DEF SchedulesInv

(* The end of a request preserves the invariant of schedules.              *)
LEMMA SchedulesEnd ==
  ASSUME Shape, SchedulesInv, NEW s \in Sessions, EndOfRequest(s)
  PROVE  SchedulesInv'
<1>1. DOMAIN db' = DOMAIN db /\ "series" \in DOMAIN db /\ "exam" \in DOMAIN db /\ "paper" \in DOMAIN db
  BY OnlyCommits DEF SchedulesInv
<1>2. TableStays("exam", ExamNames, {Present})
  BY <1>1, TableEnd DEF SchedulesInv
<1>3. TableStays("series", Series, ExamSeries)
  BY <1>1, TableEnd DEF SchedulesInv
<1>4. TableStays("paper", Entries, Paper)
  BY <1>1, TableEnd DEF SchedulesInv
<1>5. OnlyInv({"series"})'
  BY OnlyEnd DEF SchedulesInv
<1>6. \A q \in Sessions : ScheduleWork(tx[q])'
  <2>1. ASSUME NEW q \in Sessions PROVE ScheduleWork(tx[q])'
    <3>1. PICK v : v = tx'[q]
      OBVIOUS
    <3>2. v = tx[q] \/ (v.put = None /\ v.update = None)
      BY <3>1, WorksAtEnd
    <3>3. ScheduleWork(v)
      BY <3>2, NoRows DEF ScheduleWork, SchedulesInv
    <3> QED BY <3>1, <3>3 DEF ScheduleWork, OnlyTrue, Rows
  <2> QED BY <2>1
<1>7. serial' = serial
  BY WorksAtEnd
<1>8. ASSUME serial
      PROVE  SeriesOnce(db["series"])' /\ \A q \in Sessions : Busy(q)' => SeriesOnce(Flushed(tx[q], "series"))'
  <2>1. CASE Commit(s)
    <3>1. tx[s].state = "open" /\ db'["series"] = Flushed(tx[s], "series") /\ \A q \in Sessions : tx'[q].state # "open"
      BY <1>1, <1>8, <2>1, SerialEnd
    <3> QED BY <1>8, <3>1 DEF SchedulesInv, SeriesOnce, Busy
  <2>2. CASE ~Commit(s)
    <3>1. db'["series"] = db["series"] /\ \A q \in Sessions : tx'[q].state = "open" => tx'[q] = tx[q]
      BY <1>1, <1>8, <2>2, SerialEnd
    <3>2. ASSUME NEW q \in Sessions, Busy(q)' PROVE SeriesOnce(Flushed(tx[q], "series"))'
      <4>1. Busy(q) /\ Flushed(tx[q], "series")' = Flushed(tx[q], "series")
        BY <1>1, <1>8, <2>2, <3>2, SerialOpen DEF SchedulesInv, Busy
      <4>2. SeriesOnce(Flushed(tx[q], "series"))
        BY <1>8, <4>1 DEF SchedulesInv
      <4> QED BY <4>1, <4>2 DEF SeriesOnce
    <3> QED BY <1>8, <3>1, <3>2 DEF SchedulesInv, SeriesOnce
  <2> QED BY <2>1, <2>2
<1>9. (TableInv("exam", ExamNames, {Present}) /\ TableInv("series", Series, ExamSeries) /\ TableInv("paper", Entries, Paper))'
  BY <1>2, <1>3, <1>4 DEF TableStays, TableInv, Fits
<1>10. DOMAIN db' = {"exam", "series", "paper", "notice"}
  BY <1>1 DEF SchedulesInv
<1> QED BY <1>5, <1>6, <1>7, <1>8, <1>9, <1>10 DEF SchedulesInv

(* A commit keeps published schedules published and cancelled papers       *)
(* cancelled.                                                              *)
LEMMA SchedulesLastEnd ==
  ASSUME Shape, SchedulesInv, NEW s \in Sessions, EndOfRequest(s)
  PROVE  SchedulesLast
<1>1. "series" \in DOMAIN db /\ "paper" \in DOMAIN db
  BY DEF SchedulesInv
<1>2. CASE Commit(s)
  <2>1. PICK w : w = tx[s]
    OBVIOUS
  <2>2. ScheduleWork(w) /\ ~Refused(w)
    BY <1>2, <2>1, CommitShape DEF SchedulesInv
  <2>3. db'["series"] = Flushed(w, "series") /\ db'["paper"] = Flushed(w, "paper")
    BY <1>1, <1>2, <2>1, CommitShape
  <2>4. ASSUME NEW x \in Keys("series"), x \in DOMAIN db'["series"], db["series"][x].published
        PROVE  db'["series"][x].published
    <3>1. PICK old, cols : old = db["series"][x] /\ cols = Rows(w.update, "series")
      OBVIOUS
    <3>2. db'["series"][x] = IF x \in DOMAIN cols THEN Over(old, cols[x]) ELSE old
      BY <2>2, <2>3, <2>4, <3>1, KeptRows DEF ScheduleWork
    <3>3. CASE x \in DOMAIN cols
      <4>1. PICK c, over : c = cols[x] /\ over = Over(old, c)
        OBVIOUS
      <4>2. OnlyTrue(c, "published") /\ old \in ExamSeries
        BY <2>2, <3>1, <3>3, <4>1 DEF ScheduleWork, SchedulesInv, TableInv, Table
      <4>3. over["published"] = IF "published" \in DOMAIN c THEN c["published"] ELSE old["published"]
        BY <4>1, <4>2, OverIs DEF ExamSeries
      <4> QED BY <2>4, <3>1, <3>2, <3>3, <4>1, <4>2, <4>3 DEF OnlyTrue
    <3> QED BY <2>4, <3>1, <3>2, <3>3
  <2>5. ASSUME NEW x \in Keys("paper"), x \in DOMAIN db'["paper"], db["paper"][x].cancelled
        PROVE  db'["paper"][x].cancelled
    <3>1. PICK old, cols : old = db["paper"][x] /\ cols = Rows(w.update, "paper")
      OBVIOUS
    <3>2. db'["paper"][x] = IF x \in DOMAIN cols THEN Over(old, cols[x]) ELSE old
      BY <2>2, <2>3, <2>5, <3>1, KeptRows DEF ScheduleWork
    <3>3. CASE x \in DOMAIN cols
      <4>1. PICK c, over : c = cols[x] /\ over = Over(old, c)
        OBVIOUS
      <4>2. OnlyTrue(c, "cancelled") /\ old \in Paper
        BY <2>2, <3>1, <3>3, <4>1 DEF ScheduleWork, SchedulesInv, TableInv, Table
      <4>3. over["cancelled"] = IF "cancelled" \in DOMAIN c THEN c["cancelled"] ELSE old["cancelled"]
        BY <4>1, <4>2, OverIs DEF Paper
      <4> QED BY <2>5, <3>1, <3>2, <3>3, <4>1, <4>2, <4>3 DEF OnlyTrue
    <3> QED BY <2>5, <3>1, <3>2, <3>3
  <2> QED BY <2>4, <2>5 DEF SchedulesLast
<1>3. CASE ~Commit(s)
  <2>1. db'["series"] = db["series"] /\ db'["paper"] = db["paper"]
    BY <1>1, <1>3, OnlyCommits
  <2> QED BY <2>1 DEF SchedulesLast
<1> QED BY <1>2, <1>3

(* A table is a function, so that one whose rows are the same is the same. *)
IsTable(f) == f = [x \in DOMAIN f |-> f[x]]

(* What a flush makes of a table is a table.                               *)
LEMMA FlushedIsTable == ASSUME NEW w, NEW t PROVE IsTable(Flushed(w, t))
<1>1. PICK f : f = Flushed(w, t)
  OBVIOUS
<1>2. f = [x \in DOMAIN f |-> f[x]]
  BY <1>1 DEF Flushed
<1> QED BY <1>1, <1>2 DEF IsTable

(* Tables with the same rows are the same.                                 *)
LEMMA SameTable ==
  ASSUME NEW f, NEW g, IsTable(f), IsTable(g), DOMAIN f = DOMAIN g, \A x \in DOMAIN f : f[x] = g[x]
  PROVE  f = g
BY DEF IsTable

(* The empty table is a table.                                             *)
LEMMA NoneIsTable == IsTable(None)
BY DEF IsTable, None

-----------------------------------------------------------------------------
(* Quizzes: a change of questions leaves the total right, and an attempt    *)
(* is of a quiz that is not locked.                                         *)
Year == [active : BOOLEAN]
MarksOf(questions) == [k \in DOMAIN questions |-> questions[k].marks]
TotalRight(quizzes, questions) == "q" \in DOMAIN quizzes => quizzes["q"].total = Sum(MarksOf(questions))
Unlocked(quizzes) == "q" \in DOMAIN quizzes /\ ~quizzes["q"].locked

Asks(w) == Rows(w.insert, "question") # None \/ Rows(w.update, "question") # None \/ w.drop # None
Tries(w) == Rows(w.insert, "attempt") # None
QuizWork(w) ==
    /\ \A t \in {"quiz", "question", "attempt", "year"} : Rows(w.put, t) = None
    /\ Rows(w.update, "attempt") = None
    /\ w.drop = None \/ \E k \in Questions : w.drop = [question |-> {k}]
    /\ \A k \in DOMAIN Rows(w.update, "question") : DOMAIN Rows(w.update, "question")[k] \subseteq {"marks"}
    /\ Asks(w) => "q" \in DOMAIN Rows(w.update, "quiz")
QuizPromise(w) ==
    /\ Asks(w) => TotalRight(Flushed(w, "quiz"), Flushed(w, "question"))
    /\ Tries(w) => Unlocked(Flushed(w, "quiz"))

QuizTyped == /\ TableInv("quiz", {"q"}, Quiz) /\ TableInv("question", Questions, Question)
             /\ TableInv("attempt", Attempts, Attempt) /\ TableInv("year", {"y"}, Year)
QuizInv ==
    /\ DOMAIN db = {"quiz", "question", "attempt", "year", "notice"}
    /\ QuizTyped /\ OnlyInv({})
    /\ IsTable(db["question"]) /\ IsTable(db["attempt"])
    /\ \A s \in Sessions : QuizWork(tx[s])
    /\ serial => \A s \in Sessions : Busy(s) => QuizPromise(tx[s])

QuizFits(w) == /\ Fits(w, "quiz", {"q"}, Quiz) /\ Fits(w, "question", Questions, Question)
               /\ Fits(w, "attempt", Attempts, Attempt) /\ Fits(w, "year", {"y"}, Year)
QuizOpens(s, w, objects) ==
    /\ Opens(s, w, objects) /\ OnlyFits(w, {}) /\ QuizFits(w) /\ QuizWork(w)
    /\ serial => QuizPromise(w)

QuizLast ==
    /\ \A n \in Keys("attempt") : db'["attempt"][n] = db["attempt"][n]
    /\ serial /\ db["question"] # db'["question"] => db'["quiz"]["q"].total = Sum(MarksNow')
    /\ serial /\ db["attempt"] # db'["attempt"] => ~db'["quiz"]["q"].locked

(* Sums of marks.                                                          *)
LEMMA SumIs ==
  ASSUME NEW marks, IsFiniteSet(DOMAIN marks), \A k \in DOMAIN marks : marks[k] \in Nat
  PROVE  Sum(marks) \in Nat
<1>1. Sum(marks) = Total(marks, DOMAIN marks)
  BY DEF Sum, Total
<1>2. Total(marks, DOMAIN marks) \in Nat
  BY TotalNat
<1> QED BY <1>1, <1>2

(* The questions are finitely many and their marks are weights.            *)
LEMMA MarksTyped ==
  ASSUME QuizInv
  PROVE  /\ DOMAIN MarksNow = Keys("question") /\ IsFiniteSet(Keys("question"))
         /\ \A k \in Keys("question") : MarksNow[k] \in Weights /\ MarksNow[k] \in Nat
<1>1. Keys("question") \subseteq Questions /\ \A k \in Keys("question") : db["question"][k] \in Question
  BY DEF QuizInv, QuizTyped, TableInv, Table
<1>2. IsFiniteSet(Keys("question"))
  BY <1>1, ClassroomConstants, FS_Subset
<1> QED BY <1>1, <1>2, ClassroomConstants DEF MarksNow, Question

(* A total or a lock keeps the type of the quiz.                           *)
LEMMA QuizFitting ==
  ASSUME NEW columns, DOMAIN columns \subseteq {"total", "locked"},
         "total" \in DOMAIN columns => columns["total"] \in Nat,
         "locked" \in DOMAIN columns => columns["locked"] \in BOOLEAN
  PROVE  Fitting(Quiz, columns)
<1> SUFFICES ASSUME NEW row \in Quiz PROVE Over(row, columns) \in Quiz
  BY DEF Fitting
<1>1. PICK r : r = Over(row, columns)
  OBVIOUS
<1>2. r = [c \in {"total", "locked"} |-> IF c \in DOMAIN columns THEN columns[c] ELSE row[c]]
  BY <1>1, OverIs DEF Quiz
<1>3. r["total"] \in Nat /\ r["locked"] \in BOOLEAN
  BY <1>2 DEF Quiz
<1> QED BY <1>1, <1>2, <1>3 DEF Quiz

(* An end keeps the type of a year.                                        *)
LEMMA YearFitting ==
  ASSUME NEW columns, DOMAIN columns = {"active"}, columns["active"] \in BOOLEAN
  PROVE  Fitting(Year, columns)
<1> SUFFICES ASSUME NEW row \in Year PROVE Over(row, columns) \in Year
  BY DEF Fitting
<1>1. PICK r : r = Over(row, columns)
  OBVIOUS
<1>2. r = [c \in {"active"} |-> IF c \in DOMAIN columns THEN columns[c] ELSE row[c]]
  BY <1>1, OverIs DEF Year
<1>3. r["active"] \in BOOLEAN
  BY <1>2
<1> QED BY <1>1, <1>2, <1>3 DEF Year

(* New marks keep the type of a question.                                  *)
LEMMA QuestionFitting ==
  ASSUME NEW columns, DOMAIN columns \subseteq {"marks"}, "marks" \in DOMAIN columns => columns["marks"] \in Weights
  PROVE  Fitting(Question, columns)
<1> SUFFICES ASSUME NEW row \in Question PROVE Over(row, columns) \in Question
  BY DEF Fitting
<1>1. PICK r : r = Over(row, columns)
  OBVIOUS
<1>2. r = [c \in {"of", "marks"} |-> IF c \in DOMAIN columns THEN columns[c] ELSE row[c]]
  BY <1>1, OverIs DEF Question
<1>3. r["marks"] \in Weights /\ r["of"] = <<"quiz", "q">>
  BY <1>2 DEF Question
<1> QED BY <1>1, <1>2, <1>3 DEF Question

(* Only questions are ever deleted.                                        *)
LEMMA QuizDrops ==
  ASSUME QuizInv, NEW w, QuizWork(w)
  PROVE  \A t, k : <<t, k>> \in Dropped(w) =>
            t = "notice" \/ (t = "question" /\ w.drop = [question |-> {k}])
<1>0. PICK D : D = {k \in Questions : w.drop = [question |-> {k}]}
  OBVIOUS
<1>1. PICK Z : Z = {<<"question", k>> : k \in D} \cup {<<"notice", n>> : n \in Keys("notice")}
  OBVIOUS
<1>2. Holds(w, Z)
  <2>1. CASE w.drop = None
    BY <2>1, NoRows DEF Holds
  <2>2. ASSUME NEW k \in Questions, w.drop = [question |-> {k}] PROVE Holds(w, Z)
    <3>1. PICK drop : drop = w.drop
      OBVIOUS
    <3>2. DOMAIN drop = {"question"} /\ drop["question"] = {k}
      BY <2>2, <3>1
    <3>3. <<"question", k>> \in Z
      BY <1>0, <1>1, <2>2
    <3> QED BY <3>1, <3>2, <3>3 DEF Holds
  <2> QED BY <2>1, <2>2 DEF QuizWork
<1>3. ASSUME NEW t \in DOMAIN db, NEW k \in Keys(t), "of" \in DOMAIN db[t][k], Owner(w, t, k) \in Z
      PROVE  <<t, k>> \in Z
  <2>1. t \in {"quiz", "question", "attempt", "year", "notice"}
    BY DEF QuizInv
  <2>2. CASE t = "quiz" \/ t = "year"
    <3>1. db[t][k] \in Quiz \/ db[t][k] \in Year
      BY <2>2 DEF QuizInv, QuizTyped, TableInv, Table
    <3> QED BY <1>3, <3>1 DEF Quiz, Year
  <2>3. CASE t = "question" \/ t = "attempt"
    <3>1. PICK set : set = Rows(w.update, t)
      OBVIOUS
    <3>2. k \in DOMAIN set => "of" \notin DOMAIN set[k]
      BY <2>3, <3>1, NoRows DEF QuizWork
    <3>3. Owner(w, t, k) = db[t][k].of
      BY <3>1, <3>2 DEF Owner
    <3>4. db[t][k] \in Question \/ db[t][k] \in Attempt
      BY <2>3 DEF QuizInv, QuizTyped, TableInv, Table
    <3>5. db[t][k].of = <<"quiz", "q">>
      BY <3>4 DEF Question, Attempt
    <3> QED BY <1>1, <1>3, <3>3, <3>5
  <2>4. CASE t = "notice"
    BY <1>1, <2>4
  <2> QED BY <2>1, <2>2, <2>3, <2>4
<1>4. Dropped(w) \subseteq Z
  <2>1. HoldsBelow(w, Z)
    BY <1>3 DEF HoldsBelow
  <2> QED BY <1>2, <2>1, DroppedWithin
<1>5. ASSUME NEW t, NEW k, <<t, k>> \in Dropped(w)
      PROVE  t = "notice" \/ (t = "question" /\ w.drop = [question |-> {k}])
  BY <1>0, <1>1, <1>4, <1>5
<1> QED BY <1>5

(* The deletion of a question leaves the other tables alone.               *)
LEMMA QuizSpares ==
  ASSUME QuizInv, NEW w, QuizWork(w)
  PROVE  \A k : <<"quiz", k>> \notin Dropped(w) /\ <<"attempt", k>> \notin Dropped(w)
<1>1. ASSUME NEW t, t # "notice", t # "question", NEW k, <<t, k>> \in Dropped(w) PROVE FALSE
  BY <1>1, QuizDrops
<1> QED BY <1>1

(* What a recount writes.                                                  *)
LEMMA TotalColumns ==
  ASSUME NEW row, NEW total \in Nat, NEW cols, cols = Changed(row, [total |-> total])
  PROVE  /\ Fitting(Quiz, cols)
         /\ row \in Quiz => Over(row, cols).total = total /\ Over(row, cols).locked = row.locked
<1>1. PICK set : set = [total |-> total]
  OBVIOUS
<1>2. DOMAIN set = {"total"} /\ set["total"] = total
  BY <1>1
<1>3. DOMAIN cols \subseteq {"total"} /\ \A c \in DOMAIN cols : cols[c] = set[c]
  BY <1>1, <1>2, ChangedIs
<1>4. Fitting(Quiz, cols)
  BY <1>2, <1>3, QuizFitting
<1>5. ASSUME row \in Quiz PROVE Over(row, cols).total = total /\ Over(row, cols).locked = row.locked
  <2>1. Over(row, cols) = Over(row, set)
    BY <1>1, OverChanged
  <2>2. PICK r : r = Over(row, set)
    OBVIOUS
  <2>3. r["total"] = total /\ r["locked"] = row["locked"]
    BY <1>2, <1>5, <2>2, OverIs DEF Quiz
  <2> QED BY <2>1, <2>2, <2>3
<1> QED BY <1>4, <1>5

(* What the handler of "create quiz" collects is sound.                    *)
LEMMA CreateQuizPrepares ==
  ASSUME QuizInv, NEW s \in Sessions, NEW total \in Nat, CreateQuiz(s, total)
  PROVE  \E w, objects : QuizOpens(s, w, objects)
<1>0. PICK no : no = FALSE OBVIOUS
<1>1. PICK row, one, new, w : /\ row = [total |-> total, locked |-> no]
                              /\ one = ("q" :> row) /\ new = [quiz |-> one] /\ w = [Work EXCEPT !.insert = new]
  OBVIOUS
<1>2. BeginWith(s, w, stored \cup {})
  BY <1>0, <1>1 DEF CreateQuiz, Begin, BeginStoring
<1>3. /\ w.insert = new /\ w.update = None /\ w.put = None /\ w.drop = None /\ w.tell = {} /\ w.state = "open"
      /\ WorkShape(w)
  BY <1>1 DEF Work, Idle, WorkShape
<1>4. Rows(w.insert, "quiz") = one /\ \A t \in {"notice", "question", "attempt", "year"} : Rows(w.insert, t) = None
  BY <1>1, <1>3 DEF Rows
<1>5. /\ DOMAIN None = {} /\ \A t : Rows(w.update, t) = None /\ Rows(w.put, t) = None
  BY <1>3, NoRows
<1>6. DOMAIN one = {"q"} /\ one["q"] = row /\ row \in Quiz
  BY <1>0, <1>1, OneOf DEF Quiz
<1>7. OnlyFits(w, {}) /\ QuizFits(w)
  BY <1>3, <1>4, <1>5, <1>6 DEF Fits, OnlyFits, QuizFits
<1>8. QuizWork(w) /\ QuizPromise(w)
  BY <1>3, <1>4, <1>5 DEF QuizWork, QuizPromise, Asks, Tries
<1> QED BY <1>2, <1>3, <1>7, <1>8 DEF QuizOpens, Opens

(* What the handler of "update quiz" collects is sound.                    *)
LEMMA UpdateQuizPrepares ==
  ASSUME QuizInv, NEW s \in Sessions, NEW columns, UpdateQuiz(s, columns), DOMAIN columns \subseteq {"total", "locked"},
         "total" \in DOMAIN columns => columns["total"] \in Nat,
         "locked" \in DOMAIN columns => columns["locked"] \in BOOLEAN
  PROVE  \E w, objects : QuizOpens(s, w, objects)
<1>1. PICK cols, one, up, w : /\ cols = Changed(db["quiz"]["q"], columns) /\ one = ("q" :> cols)
                              /\ up = [quiz |-> one] /\ w = [Work EXCEPT !.update = up]
  OBVIOUS
<1>2. BeginWith(s, w, stored \cup {})
  BY <1>1 DEF UpdateQuiz, Begin, BeginStoring, Sets
<1>3. /\ w.insert = None /\ w.update = up /\ w.put = None /\ w.drop = None /\ w.tell = {} /\ w.state = "open"
      /\ WorkShape(w)
  BY <1>1 DEF Work, Idle, WorkShape
<1>4. Rows(w.update, "quiz") = one /\ \A t \in {"notice", "question", "attempt", "year"} : Rows(w.update, t) = None
  BY <1>1, <1>3 DEF Rows
<1>5. /\ DOMAIN None = {} /\ \A t : Rows(w.insert, t) = None /\ Rows(w.put, t) = None
  BY <1>3, NoRows
<1>6. DOMAIN one = {"q"} /\ one["q"] = cols
  BY <1>1, OneOf
<1>7. Fitting(Quiz, cols)
  <2>1. DOMAIN cols \subseteq DOMAIN columns /\ \A c \in DOMAIN cols : cols[c] = columns[c]
    BY <1>1, ChangedIs
  <2> QED BY <2>1, QuizFitting
<1>8. OnlyFits(w, {}) /\ QuizFits(w)
  BY <1>3, <1>4, <1>5, <1>6, <1>7 DEF Fits, OnlyFits, QuizFits
<1>9. QuizWork(w) /\ QuizPromise(w)
  BY <1>3, <1>4, <1>5 DEF QuizWork, QuizPromise, Asks, Tries
<1> QED BY <1>2, <1>3, <1>8, <1>9 DEF QuizOpens, Opens

(* The total after a recount, in a unit of work that changes the quiz.     *)
LEMMA Recounted ==
  ASSUME QuizInv, NEW w, QuizWork(w), Rows(w.insert, "quiz") = None, NEW total \in Nat,
         Rows(w.update, "quiz") = ("q" :> Changed(db["quiz"]["q"], [total |-> total]))
  PROVE  "q" \in DOMAIN Flushed(w, "quiz") => Flushed(w, "quiz")["q"].total = total
<1>1. PICK f, one, cols : /\ f = Flushed(w, "quiz") /\ one = Rows(w.update, "quiz")
                          /\ cols = Changed(db["quiz"]["q"], [total |-> total])
  OBVIOUS
<1>2. DOMAIN one = {"q"} /\ one["q"] = cols
  BY <1>1, OneOf
<1>3. ASSUME "q" \in DOMAIN f PROVE f["q"].total = total
  <2>1. "q" \in Keys("quiz") /\ f["q"] = Over(db["quiz"]["q"], one["q"])
    BY <1>1, <1>2, <1>3, FlushNoPut, NoRows DEF QuizWork
  <2>2. db["quiz"]["q"] \in Quiz
    BY <2>1 DEF QuizInv, QuizTyped, TableInv, Table
  <2> QED BY <1>1, <1>2, <2>1, <2>2, TotalColumns
<1> QED BY <1>1, <1>3

(* What the handler of "add question" collects is sound.                   *)
LEMMA AddQuestionPrepares ==
  ASSUME QuizInv, NEW s \in Sessions, NEW k \in Questions, NEW marks \in Weights, AddQuestion(s, k, marks)
  PROVE  \E w, objects : QuizOpens(s, w, objects)
<1>0. PICK all, total, needs : all = (k :> marks) @@ MarksNow /\ total = Sum(all) /\ needs = {<<"quiz", "q">>}
  OBVIOUS
<1>1. PICK row, new1, cols, one, new, up, w :
         /\ row = [of |-> <<"quiz", "q">>, marks |-> marks] /\ new1 = (k :> row)
         /\ cols = Changed(db["quiz"]["q"], [total |-> total]) /\ one = ("q" :> cols)
         /\ new = [question |-> new1] /\ up = [quiz |-> one]
         /\ w = [Work EXCEPT !.insert = new, !.update = up, !.needs = needs]
  OBVIOUS
<1>2. BeginWith(s, w, stored \cup {}) /\ k \notin Keys("question")
  BY <1>0, <1>1 DEF AddQuestion, Recount, Sets, Begin, BeginStoring, Unused
<1>3. /\ w.insert = new /\ w.update = up /\ w.put = None /\ w.drop = None /\ w.tell = {} /\ w.state = "open"
      /\ WorkShape(w)
  BY <1>1 DEF Work, Idle, WorkShape
<1>4. /\ Rows(w.insert, "question") = new1 /\ \A t \in {"notice", "quiz", "attempt", "year"} : Rows(w.insert, t) = None
      /\ Rows(w.update, "quiz") = one /\ \A t \in {"notice", "question", "attempt", "year"} : Rows(w.update, t) = None
  BY <1>1, <1>3 DEF Rows
<1>5. /\ DOMAIN None = {} /\ \A t : Rows(w.put, t) = None
  BY <1>3, NoRows
<1>6. /\ DOMAIN new1 = {k} /\ new1[k] = row /\ row \in Question
      /\ DOMAIN one = {"q"} /\ one["q"] = cols
  BY <1>1, OneOf DEF Question
<1>7. /\ DOMAIN all = Keys("question") \cup {k} /\ all = [j \in Keys("question") \cup {k} |-> all[j]]
      /\ all[k] = marks /\ \A j \in Keys("question") : j # k => all[j] = MarksNow[j]
  <2>1. PICK first : first = (k :> marks)
    OBVIOUS
  <2>2. DOMAIN first = {k} /\ first[k] = marks
    BY <2>1, OneOf
  <2>3. all = [j \in {k} \cup Keys("question") |-> IF j \in {k} THEN first[j] ELSE MarksNow[j]]
    BY <1>0, <2>1, <2>2, MarksTyped DEF @@
  <2> QED BY <2>2, <2>3
<1>8. total \in Nat
  <2>1. IsFiniteSet(DOMAIN all)
    BY <1>7, MarksTyped, FS_AddElement
  <2>2. \A j \in DOMAIN all : all[j] \in Nat
    BY <1>7, MarksTyped, ClassroomConstants
  <2> QED BY <1>0, <2>1, <2>2, SumIs
<1>9. Fitting(Quiz, cols)
  BY <1>1, <1>8, TotalColumns
<1>10. OnlyFits(w, {}) /\ QuizFits(w)
  BY <1>3, <1>4, <1>5, <1>6, <1>9 DEF Fits, OnlyFits, QuizFits
<1>11. QuizWork(w)
  BY <1>3, <1>4, <1>5, <1>6 DEF QuizWork, Asks
<1>12. QuizPromise(w)
  <2>1. /\ DOMAIN Flushed(w, "question") = Keys("question") \cup DOMAIN Rows(w.insert, "question")
        /\ \A j \in DOMAIN Rows(w.insert, "question") : Flushed(w, "question")[j] = Rows(w.insert, "question")[j]
        /\ \A j \in Keys("question") : j \notin DOMAIN Rows(w.insert, "question")
               => Flushed(w, "question")[j] = db["question"][j]
    BY <1>3, <1>4, <1>5, InsertFlush
  <2>2. PICK f : f = Flushed(w, "question")
    OBVIOUS
  <2>3. /\ DOMAIN f = Keys("question") \cup {k} /\ f[k] = row
        /\ \A j \in Keys("question") : j # k => f[j] = db["question"][j]
    BY <1>4, <1>6, <2>1, <2>2
  <2>4. ASSUME NEW j \in Keys("question") \cup {k} PROVE f[j].marks = all[j]
    BY <1>1, <1>7, <2>3 DEF MarksNow
  <2>5. MarksOf(f) = all
    BY <1>7, <2>3, <2>4 DEF MarksOf
  <2>6. "q" \in DOMAIN Flushed(w, "quiz") => Flushed(w, "quiz")["q"].total = total
    BY <1>1, <1>4, <1>8, <1>11, Recounted
  <2>7. ~Tries(w)
    BY <1>4 DEF Tries
  <2> QED BY <1>0, <2>2, <2>5, <2>6, <2>7 DEF QuizPromise, TotalRight
<1> QED BY <1>2, <1>3, <1>10, <1>11, <1>12 DEF QuizOpens, Opens

(* What the handler of "update question" collects is sound.                *)
LEMMA UpdateQuestionPrepares ==
  ASSUME QuizInv, NEW s \in Sessions, NEW k \in Questions, NEW marks \in Weights, UpdateQuestion(s, k, marks)
  PROVE  \E w, objects : QuizOpens(s, w, objects)
<1>0. PICK all, total, set : all = (k :> marks) @@ MarksNow /\ total = Sum(all) /\ set = [marks |-> marks]
  OBVIOUS
<1>1. PICK old, qcols, chg, cols, one, up, w :
         /\ old = db["question"][k] /\ qcols = Changed(old, set) /\ chg = (k :> qcols)
         /\ cols = Changed(db["quiz"]["q"], [total |-> total]) /\ one = ("q" :> cols)
         /\ up = [question |-> chg, quiz |-> one]
         /\ w = [Work EXCEPT !.update = up]
  OBVIOUS
<1>2. BeginWith(s, w, stored \cup {}) /\ k \in Keys("question")
  BY <1>0, <1>1 DEF UpdateQuestion, Recount, Sets, Begin, BeginStoring
<1>3. /\ w.insert = None /\ w.update = up /\ w.put = None /\ w.drop = None /\ w.tell = {} /\ w.state = "open"
      /\ WorkShape(w)
  BY <1>1 DEF Work, Idle, WorkShape
<1>4. /\ Rows(w.update, "question") = chg /\ Rows(w.update, "quiz") = one
      /\ \A t \in {"notice", "attempt", "year"} : Rows(w.update, t) = None
  BY <1>1, <1>3 DEF Rows
<1>5. /\ DOMAIN None = {} /\ \A t : Rows(w.put, t) = None /\ Rows(w.insert, t) = None
  BY <1>3, NoRows
<1>6. DOMAIN chg = {k} /\ chg[k] = qcols /\ DOMAIN one = {"q"} /\ one["q"] = cols
  BY <1>1, OneOf
<1>61. /\ DOMAIN qcols \subseteq {"marks"} /\ Fitting(Question, qcols)
       /\ Over(old, qcols).marks = marks
  <2>1. DOMAIN set = {"marks"} /\ set["marks"] = marks
    BY <1>0
  <2>2. DOMAIN qcols \subseteq {"marks"} /\ \A c \in DOMAIN qcols : qcols[c] = set[c]
    BY <1>1, <2>1, ChangedIs
  <2>3. Fitting(Question, qcols)
    BY <2>1, <2>2, QuestionFitting
  <2>4. Over(old, qcols) = Over(old, set)
    BY <1>1, OverChanged
  <2>5. old \in Question
    BY <1>1, <1>2 DEF QuizInv, QuizTyped, TableInv, Table
  <2>6. PICK r : r = Over(old, set)
    OBVIOUS
  <2>7. r["marks"] = marks
    BY <2>1, <2>5, <2>6, OverIs DEF Question
  <2> QED BY <2>2, <2>3, <2>4, <2>6, <2>7
<1>7. /\ DOMAIN all = Keys("question") /\ all = [j \in Keys("question") |-> all[j]]
      /\ all[k] = marks /\ \A j \in Keys("question") : j # k => all[j] = MarksNow[j]
  <2>1. PICK first : first = (k :> marks)
    OBVIOUS
  <2>2. DOMAIN first = {k} /\ first[k] = marks
    BY <2>1, OneOf
  <2>3. all = [j \in {k} \cup Keys("question") |-> IF j \in {k} THEN first[j] ELSE MarksNow[j]]
    BY <1>0, <2>1, <2>2, MarksTyped DEF @@
  <2>4. {k} \cup Keys("question") = Keys("question")
    BY <1>2
  <2> QED BY <2>2, <2>3, <2>4
<1>8. total \in Nat
  <2>1. IsFiniteSet(DOMAIN all)
    BY <1>7, MarksTyped
  <2>2. \A j \in DOMAIN all : all[j] \in Nat
    BY <1>7, MarksTyped, ClassroomConstants
  <2> QED BY <1>0, <2>1, <2>2, SumIs
<1>9. Fitting(Quiz, cols)
  BY <1>1, <1>8, TotalColumns
<1>10. OnlyFits(w, {}) /\ QuizFits(w)
  BY <1>3, <1>4, <1>5, <1>6, <1>61, <1>9 DEF Fits, OnlyFits, QuizFits
<1>11. QuizWork(w)
  BY <1>3, <1>4, <1>5, <1>6, <1>61 DEF QuizWork, Asks
<1>12. QuizPromise(w)
  <2>1. /\ DOMAIN Flushed(w, "question") = Keys("question")
        /\ \A j \in DOMAIN Rows(w.update, "question") : j \in Keys("question") =>
              Flushed(w, "question")[j] = Over(db["question"][j], Rows(w.update, "question")[j])
        /\ \A j \in Keys("question") : j \notin DOMAIN Rows(w.update, "question")
               => Flushed(w, "question")[j] = db["question"][j]
    BY <1>3, <1>5, UpdateFlush
  <2>2. PICK f : f = Flushed(w, "question")
    OBVIOUS
  <2>3. /\ DOMAIN f = Keys("question") /\ f[k] = Over(old, qcols)
        /\ \A j \in Keys("question") : j # k => f[j] = db["question"][j]
    BY <1>1, <1>2, <1>4, <1>6, <2>1, <2>2
  <2>4. ASSUME NEW j \in Keys("question") PROVE f[j].marks = all[j]
    BY <1>61, <1>7, <2>3 DEF MarksNow
  <2>5. MarksOf(f) = all
    BY <1>7, <2>3, <2>4 DEF MarksOf
  <2>6. "q" \in DOMAIN Flushed(w, "quiz") => Flushed(w, "quiz")["q"].total = total
    BY <1>1, <1>4, <1>5, <1>8, <1>11, Recounted
  <2>7. ~Tries(w)
    BY <1>5 DEF Tries
  <2> QED BY <1>0, <2>2, <2>5, <2>6, <2>7 DEF QuizPromise, TotalRight
<1> QED BY <1>2, <1>3, <1>10, <1>11, <1>12 DEF QuizOpens, Opens

(* What the handler of "delete question" collects is sound.                *)
LEMMA DeleteQuestionPrepares ==
  ASSUME QuizInv, NEW s \in Sessions, NEW k \in Questions, DeleteQuestion(s, k)
  PROVE  \E w, objects : QuizOpens(s, w, objects)
<1>0. PICK rest, total : rest = Restrict(MarksNow, Keys("question") \ {k}) /\ total = Sum(rest)
  OBVIOUS
<1>1. PICK gone, cols, one, up, w :
         /\ gone = [question |-> {k}]
         /\ cols = Changed(db["quiz"]["q"], [total |-> total]) /\ one = ("q" :> cols)
         /\ up = [quiz |-> one]
         /\ w = [Work EXCEPT !.drop = gone, !.update = up]
  OBVIOUS
<1>2. BeginWith(s, w, stored \cup {}) /\ k \in Keys("question")
  BY <1>0, <1>1 DEF DeleteQuestion, Recount, Sets, Begin, BeginStoring
<1>3. /\ w.insert = None /\ w.update = up /\ w.put = None /\ w.drop = gone /\ w.tell = {} /\ w.state = "open"
      /\ WorkShape(w)
  BY <1>1 DEF Work, Idle, WorkShape
<1>4. Rows(w.update, "quiz") = one /\ \A t \in {"notice", "question", "attempt", "year"} : Rows(w.update, t) = None
  BY <1>1, <1>3 DEF Rows
<1>5. /\ DOMAIN None = {} /\ \A t : Rows(w.put, t) = None /\ Rows(w.insert, t) = None
  BY <1>3, NoRows
<1>6. DOMAIN one = {"q"} /\ one["q"] = cols
  BY <1>1, OneOf
<1>7. rest = [j \in Keys("question") \ {k} |-> MarksNow[j]]
  BY <1>0 DEF Restrict
<1>8. total \in Nat
  <2>1. IsFiniteSet(DOMAIN rest)
    BY <1>7, MarksTyped, FS_Subset
  <2>2. \A j \in DOMAIN rest : rest[j] \in Nat
    BY <1>7, MarksTyped
  <2> QED BY <1>0, <2>1, <2>2, SumIs
<1>9. Fitting(Quiz, cols)
  BY <1>1, <1>8, TotalColumns
<1>10. OnlyFits(w, {}) /\ QuizFits(w)
  <2>1. DOMAIN gone = {"question"}
    BY <1>1
  <2> QED BY <1>3, <1>4, <1>5, <1>6, <1>9, <2>1 DEF Fits, OnlyFits, QuizFits
<1>11. QuizWork(w)
  BY <1>1, <1>3, <1>4, <1>5, <1>6 DEF QuizWork, Asks
<1>12. QuizPromise(w)
  <2>1. /\ DOMAIN Flushed(w, "question") = {j \in Keys("question") : <<"question", j>> \notin Dropped(w)}
        /\ \A j \in DOMAIN Flushed(w, "question") : Flushed(w, "question")[j] = db["question"][j]
    <3>1. /\ Rows(w.put, "question") = None /\ Rows(w.insert, "question") = None
          /\ Rows(w.update, "question") = None
      BY <1>4, <1>5
    <3> QED BY <3>1, DropFlush
  <2>2. <<"question", k>> \in Dropped(w)
    <3>1. PICK drop : drop = w.drop
      OBVIOUS
    <3>2. "question" \in DOMAIN drop /\ k \in drop["question"]
      BY <1>1, <1>3, <3>1
    <3> QED BY <3>1, <3>2, DroppedUnder
  <2>3. ASSUME NEW j, <<"question", j>> \in Dropped(w) PROVE j = k
    <3>1. w.drop = [question |-> {j}]
      BY <1>11, <2>3, QuizDrops
    <3>2. gone["question"] = {j} /\ gone["question"] = {k}
      BY <1>1, <1>3, <3>1
    <3> QED BY <3>2
  <2>4. PICK f : f = Flushed(w, "question")
    OBVIOUS
  <2>5. DOMAIN f = Keys("question") \ {k} /\ \A j \in DOMAIN f : f[j] = db["question"][j]
    BY <2>1, <2>2, <2>3, <2>4
  <2>6. MarksOf(f) = rest
    BY <1>7, <2>5 DEF MarksOf, MarksNow
  <2>7. "q" \in DOMAIN Flushed(w, "quiz") => Flushed(w, "quiz")["q"].total = total
    BY <1>1, <1>4, <1>5, <1>8, <1>11, Recounted
  <2>8. ~Tries(w)
    BY <1>5 DEF Tries
  <2> QED BY <1>0, <2>4, <2>6, <2>7, <2>8 DEF QuizPromise, TotalRight
<1> QED BY <1>2, <1>3, <1>10, <1>11, <1>12 DEF QuizOpens, Opens

(* What the handler of "attempt quiz" collects is sound.                   *)
LEMMA AttemptQuizPrepares ==
  ASSUME QuizInv, NEW s \in Sessions, NEW n \in Attempts, NEW p \in Pupils, NEW right \in SUBSET Questions,
         AttemptQuiz(s, n, p, right)
  PROVE  \E w, objects : QuizOpens(s, w, objects)
<1>0. PICK sum, total, score, needs :
         /\ sum = Sum(MarksNow) /\ total = (IF db["quiz"]["q"].total = 0 THEN sum ELSE db["quiz"]["q"].total)
         /\ score = Sum(Restrict(MarksNow, right)) /\ needs = {<<"quiz", "q">>}
  OBVIOUS
<1>1. PICK row, one, new, w :
         /\ row = [of |-> <<"quiz", "q">>, student |-> p, total |-> total, score |-> score]
         /\ one = (n :> row) /\ new = [attempt |-> one]
         /\ w = [Work EXCEPT !.insert = new, !.needs = needs]
  OBVIOUS
<1>2. BeginWith(s, w, stored \cup {}) /\ MayAttempt /\ right \subseteq Keys("question")
  BY <1>0, <1>1 DEF AttemptQuiz, Begin, BeginStoring
<1>3. /\ w.insert = new /\ w.update = None /\ w.put = None /\ w.drop = None /\ w.tell = {} /\ w.state = "open"
      /\ WorkShape(w)
  BY <1>1 DEF Work, Idle, WorkShape
<1>4. Rows(w.insert, "attempt") = one /\ \A t \in {"notice", "question", "quiz", "year"} : Rows(w.insert, t) = None
  BY <1>1, <1>3 DEF Rows
<1>5. /\ DOMAIN None = {} /\ \A t : Rows(w.update, t) = None /\ Rows(w.put, t) = None
  BY <1>3, NoRows
<1>6. "q" \in Keys("quiz") /\ db["quiz"]["q"] \in Quiz /\ ~db["quiz"]["q"].locked
  BY <1>2 DEF MayAttempt, QuizInv, QuizTyped, TableInv, Table
<1>7. sum \in Nat /\ score \in Nat /\ total \in Nat
  <2>1. sum \in Nat
    BY <1>0, MarksTyped, SumIs
  <2>2. PICK m : m = Restrict(MarksNow, right)
    OBVIOUS
  <2>3. m = [j \in right |-> MarksNow[j]]
    BY <2>2 DEF Restrict
  <2>4. IsFiniteSet(DOMAIN m) /\ \A j \in DOMAIN m : m[j] \in Nat
    BY <1>2, <2>3, MarksTyped, FS_Subset
  <2>5. score \in Nat
    BY <1>0, <2>2, <2>4, SumIs
  <2> QED BY <1>0, <1>6, <2>1, <2>5 DEF Quiz
<1>8. DOMAIN one = {n} /\ one[n] = row /\ row \in Attempt
  BY <1>1, <1>7, OneOf DEF Attempt
<1>9. OnlyFits(w, {}) /\ QuizFits(w)
  BY <1>3, <1>4, <1>5, <1>8 DEF Fits, OnlyFits, QuizFits
<1>10. QuizWork(w)
  BY <1>3, <1>4, <1>5 DEF QuizWork, Asks
<1>11. QuizPromise(w)
  <2>1. /\ DOMAIN Flushed(w, "quiz") = Keys("quiz")
        /\ \A k \in Keys("quiz") : Flushed(w, "quiz")[k] = db["quiz"][k]
    BY <1>3, <1>4, <1>5, SameFlush
  <2>2. ~Asks(w)
    BY <1>3, <1>4, <1>5 DEF Asks
  <2> QED BY <1>6, <2>1, <2>2 DEF QuizPromise, Unlocked
<1> QED BY <1>2, <1>3, <1>9, <1>10, <1>11 DEF QuizOpens, Opens

(* The end of a year writes no quiz.                                       *)
LEMMA QuizYearPrepares ==
  ASSUME QuizInv, NEW s \in Sessions, EndYear(s)
  PROVE  \E w, objects : QuizOpens(s, w, objects)
<1>0. PICK no : no = FALSE OBVIOUS
<1>1. PICK cols, one, up, w : /\ cols = [active |-> no] /\ one = ("y" :> cols)
                              /\ up = [year |-> one] /\ w = [Work EXCEPT !.update = up]
  OBVIOUS
<1>2. BeginWith(s, w, stored \cup {})
  BY <1>0, <1>1 DEF EndYear, Begin, BeginStoring
<1>3. /\ w.insert = None /\ w.update = up /\ w.put = None /\ w.drop = None /\ w.tell = {} /\ w.state = "open"
      /\ WorkShape(w)
  BY <1>1 DEF Work, Idle, WorkShape
<1>4. Rows(w.update, "year") = one /\ \A t \in {"notice", "question", "attempt", "quiz"} : Rows(w.update, t) = None
  BY <1>1, <1>3 DEF Rows
<1>5. /\ DOMAIN None = {} /\ \A t : Rows(w.insert, t) = None /\ Rows(w.put, t) = None
  BY <1>3, NoRows
<1>6. DOMAIN one = {"y"} /\ one["y"] = cols
  BY <1>1, OneOf
<1>7. Fitting(Year, cols)
  <2>1. DOMAIN cols = {"active"} /\ cols["active"] = FALSE
    BY <1>0, <1>1
  <2> QED BY <2>1, YearFitting
<1>8. OnlyFits(w, {}) /\ QuizFits(w)
  BY <1>3, <1>4, <1>5, <1>6, <1>7 DEF Fits, OnlyFits, QuizFits
<1>9. QuizWork(w) /\ QuizPromise(w)
  BY <1>3, <1>4, <1>5 DEF QuizWork, QuizPromise, Asks, Tries
<1> QED BY <1>2, <1>3, <1>8, <1>9 DEF QuizOpens, Opens

(* The handlers of quiz preserve their invariant.                          *)
LEMMA QuizBegin ==
  ASSUME Shape, QuizInv, NEW s \in Sessions, QuizStep(s)
  PROVE  QuizInv' /\ Shape' /\ UNCHANGED <<area, db, serial>>
<1>1. PICK w, objects : QuizOpens(s, w, objects)
  <2>1. ASSUME NEW total \in {0} \cup Weights, CreateQuiz(s, total) PROVE \E w, objects : QuizOpens(s, w, objects)
    BY <2>1, CreateQuizPrepares, ClassroomConstants
  <2>2. ASSUME NEW total \in Weights, UpdateQuiz(s, [total |-> total]) PROVE \E w, objects : QuizOpens(s, w, objects)
    <3>1. PICK columns : columns = [total |-> total]
      OBVIOUS
    <3>2. DOMAIN columns = {"total"} /\ columns["total"] \in Nat /\ UpdateQuiz(s, columns)
      BY <2>2, <3>1, ClassroomConstants
    <3> QED BY <3>2, UpdateQuizPrepares
  <2>3. ASSUME NEW locked \in BOOLEAN, UpdateQuiz(s, [locked |-> locked]) PROVE \E w, objects : QuizOpens(s, w, objects)
    <3>1. PICK columns : columns = [locked |-> locked]
      OBVIOUS
    <3>2. DOMAIN columns = {"locked"} /\ columns["locked"] \in BOOLEAN /\ UpdateQuiz(s, columns)
      BY <2>3, <3>1
    <3> QED BY <3>2, UpdateQuizPrepares
  <2>4. ASSUME NEW k \in Questions, NEW marks \in Weights, AddQuestion(s, k, marks) \/ UpdateQuestion(s, k, marks)
        PROVE  \E w, objects : QuizOpens(s, w, objects)
    BY <2>4, AddQuestionPrepares, UpdateQuestionPrepares
  <2> QED BY <2>1, <2>2, <2>3, <2>4, DeleteQuestionPrepares, AttemptQuizPrepares, QuizYearPrepares, Zenon
          DEF QuizStep
<1>2. Shape' /\ UNCHANGED <<area, db, serial>> /\ tx' = [q \in Sessions |-> IF q = s THEN w ELSE tx[q]]
  BY <1>1, BeginShape DEF QuizOpens, Opens
<1>3. TableStays("quiz", {"q"}, Quiz)
  BY <1>1, TableBegin DEF QuizInv, QuizTyped, QuizFits, QuizOpens, Opens
<1>4. TableStays("question", Questions, Question)
  BY <1>1, TableBegin DEF QuizInv, QuizTyped, QuizFits, QuizOpens, Opens
<1>5. TableStays("attempt", Attempts, Attempt)
  BY <1>1, TableBegin DEF QuizInv, QuizTyped, QuizFits, QuizOpens, Opens
<1>6. TableStays("year", {"y"}, Year)
  BY <1>1, TableBegin DEF QuizInv, QuizTyped, QuizFits, QuizOpens, Opens
<1>7. OnlyInv({})'
  BY <1>1, OnlyBegin DEF QuizInv, QuizOpens, Opens
<1>8. ASSUME NEW q \in Sessions PROVE QuizWork(tx[q])' /\ (serial /\ Busy(q)' => QuizPromise(tx[q])')
  <2>1. PICK v : v = IF q = s THEN w ELSE tx[q]
    OBVIOUS
  <2>2. tx[q]' = v /\ QuizWork(v)
    BY <1>1, <1>2, <2>1 DEF QuizOpens, QuizInv
  <2>3. QuizWork(tx[q])'
    BY <2>2 DEF QuizWork, Asks, Rows
  <2>4. ASSUME serial, Busy(q)' PROVE QuizPromise(tx[q])'
    <3>1. QuizPromise(v)
      BY <1>1, <2>1, <2>2, <2>4 DEF QuizOpens, QuizInv, Busy
    <3>2. Flushed(v, "quiz")' = Flushed(v, "quiz") /\ Flushed(v, "question")' = Flushed(v, "question")
      BY <1>2, FlushedSame
    <3> QED BY <2>2, <3>1, <3>2 DEF QuizPromise, Asks, Tries, Rows
  <2> QED BY <2>3, <2>4
<1>9. /\ DOMAIN db' = {"quiz", "question", "attempt", "year", "notice"}
      /\ IsTable(db["question"])' /\ IsTable(db["attempt"])'
  BY <1>2 DEF QuizInv, IsTable
<1>10. QuizTyped'
  BY <1>3, <1>4, <1>5, <1>6 DEF TableStays, TableInv, Fits, QuizTyped
<1> QED BY <1>2, <1>7, <1>8, <1>9, <1>10 DEF QuizInv

(* The end of a request preserves the invariant of quiz.                   *)
LEMMA QuizEnd ==
  ASSUME Shape, QuizInv, NEW s \in Sessions, EndOfRequest(s)
  PROVE  QuizInv'
<1>1. /\ DOMAIN db' = DOMAIN db
      /\ "quiz" \in DOMAIN db /\ "question" \in DOMAIN db /\ "attempt" \in DOMAIN db /\ "year" \in DOMAIN db
  BY OnlyCommits DEF QuizInv
<1>2. TableStays("quiz", {"q"}, Quiz)
  BY <1>1, TableEnd DEF QuizInv, QuizTyped
<1>3. TableStays("question", Questions, Question)
  BY <1>1, TableEnd DEF QuizInv, QuizTyped
<1>4. TableStays("attempt", Attempts, Attempt)
  BY <1>1, TableEnd DEF QuizInv, QuizTyped
<1>5. TableStays("year", {"y"}, Year)
  BY <1>1, TableEnd DEF QuizInv, QuizTyped
<1>6. OnlyInv({})'
  BY OnlyEnd DEF QuizInv
<1>7. serial' = serial
  BY WorksAtEnd
<1>8. \A q \in Sessions : QuizWork(tx[q])'
  <2>1. ASSUME NEW q \in Sessions PROVE QuizWork(tx[q])'
    <3>1. PICK v : v = tx'[q]
      OBVIOUS
    <3>2. v = tx[q] \/ (v.insert = None /\ v.put = None /\ v.update = None /\ v.drop = None)
      BY <3>1, WorksAtEnd
    <3>3. QuizWork(v)
      BY <3>2, NoRows DEF QuizWork, QuizInv, Asks
    <3> QED BY <3>1, <3>3 DEF QuizWork, Asks, Rows
  <2> QED BY <2>1
<1>9. ASSUME serial, NEW q \in Sessions, Busy(q)' PROVE QuizPromise(tx[q])'
  <2>1. CASE Commit(s)
    BY <1>9, <2>1, SerialEnd DEF Busy
  <2>2. CASE ~Commit(s)
    <3>1. tx'[q] = tx[q]
      BY <1>9, <2>2, SerialEnd DEF Busy
    <3>2. Busy(q) /\ Flushed(tx[q], "quiz")' = Flushed(tx[q], "quiz")
      BY <1>1, <1>9, <2>2, SerialOpen DEF QuizInv, Busy
    <3>3. Flushed(tx[q], "question")' = Flushed(tx[q], "question")
      BY <1>1, <1>9, <2>2, SerialOpen DEF QuizInv, Busy
    <3>4. QuizPromise(tx[q])
      BY <1>9, <3>2 DEF QuizInv
    <3> QED BY <3>1, <3>2, <3>3, <3>4 DEF QuizPromise, Asks, Tries, Rows
  <2> QED BY <2>1, <2>2
<1>10. IsTable(db["question"])' /\ IsTable(db["attempt"])'
  <2>1. ASSUME NEW t \in {"question", "attempt"} PROVE IsTable(db'[t])
    <3>1. db'[t] = db[t] \/ db'[t] = Flushed(tx[s], t)
      BY <1>1, <2>1, OnlyCommits
    <3> QED BY <2>1, <3>1, FlushedIsTable DEF QuizInv
  <2> QED BY <2>1 DEF IsTable
<1>11. QuizTyped'
  BY <1>2, <1>3, <1>4, <1>5 DEF TableStays, TableInv, Fits, QuizTyped
<1>12. DOMAIN db' = {"quiz", "question", "attempt", "year", "notice"}
  BY <1>1 DEF QuizInv
<1> QED BY <1>6, <1>7, <1>8, <1>9, <1>10, <1>11, <1>12 DEF QuizInv

(* A commit keeps attempts, and any total or lock they depend on.          *)
LEMMA QuizLastEnd ==
  ASSUME Shape, QuizInv, NEW s \in Sessions, EndOfRequest(s)
  PROVE  QuizLast
<1>1. "quiz" \in DOMAIN db /\ "question" \in DOMAIN db /\ "attempt" \in DOMAIN db
  BY DEF QuizInv
<1>2. CASE Commit(s)
  <2>1. PICK w : w = tx[s]
    OBVIOUS
  <2>2. QuizWork(w) /\ ~Refused(w) /\ (serial => QuizPromise(w))
    BY <1>2, <2>1, CommitShape DEF QuizInv, Busy
  <2>3. /\ db'["quiz"] = Flushed(w, "quiz") /\ db'["question"] = Flushed(w, "question")
        /\ db'["attempt"] = Flushed(w, "attempt")
    BY <1>1, <1>2, <2>1, CommitShape
  <2>4. ASSUME NEW n \in Keys("attempt") PROVE n \in DOMAIN db'["attempt"] /\ db'["attempt"][n] = db["attempt"][n]
    <3>1. <<"attempt", n>> \notin Dropped(w)
      BY <2>2, QuizSpares
    <3>2. n \in DOMAIN Flushed(w, "attempt")
      BY <3>1, FlushedDomain
    <3>3. n \notin DOMAIN Rows(w.update, "attempt")
      BY <2>2, NoRows DEF QuizWork
    <3> QED BY <2>2, <2>3, <3>2, <3>3, KeptRows DEF QuizWork
  <2>5. ASSUME serial, db["question"] # db'["question"] PROVE db'["quiz"]["q"].total = Sum(MarksNow')
    <3>1. Asks(w)
      <4> SUFFICES ASSUME ~Asks(w) PROVE FALSE
        OBVIOUS
      <4>1. /\ w.drop = None /\ Rows(w.put, "question") = None /\ Rows(w.insert, "question") = None
            /\ Rows(w.update, "question") = None
        BY <2>2 DEF Asks, QuizWork
      <4>2. /\ DOMAIN Flushed(w, "question") = Keys("question")
            /\ \A k \in Keys("question") : Flushed(w, "question")[k] = db["question"][k]
        BY <4>1, SameFlush
      <4>3. PICK f : f = Flushed(w, "question")
        OBVIOUS
      <4>4. IsTable(f) /\ IsTable(db["question"])
        BY <4>3, FlushedIsTable DEF QuizInv
      <4>5. f = db["question"]
        BY <4>2, <4>3, <4>4, SameTable DEF Keys
      <4> QED BY <2>3, <2>5, <4>3, <4>5
    <3>2. "q" \in Keys("quiz")
      <4>1. "q" \in DOMAIN Rows(w.update, "quiz")
        BY <2>2, <3>1 DEF QuizWork
      <4> QED BY <2>2, <4>1, NoRows DEF Refused, Rows
    <3>3. <<"quiz", "q">> \notin Dropped(w)
      BY <2>2, QuizSpares
    <3>4. "q" \in DOMAIN Flushed(w, "quiz")
      BY <3>2, <3>3, FlushedDomain
    <3>5. Flushed(w, "quiz")["q"].total = Sum(MarksOf(Flushed(w, "question")))
      BY <2>2, <2>5, <3>1, <3>4 DEF QuizPromise, TotalRight
    <3>6. MarksNow' = MarksOf(db'["question"])
      BY DEF MarksNow, MarksOf, Keys
    <3> QED BY <2>3, <3>5, <3>6
  <2>6. ASSUME serial, db["attempt"] # db'["attempt"] PROVE ~db'["quiz"]["q"].locked
    <3>1. Tries(w)
      <4> SUFFICES ASSUME ~Tries(w) PROVE FALSE
        OBVIOUS
      <4>1. Rows(w.put, "attempt") = None /\ Rows(w.insert, "attempt") = None /\ DOMAIN None = {}
        BY <2>2, NoRows DEF Tries, QuizWork
      <4>2. PICK f : f = Flushed(w, "attempt")
        OBVIOUS
      <4>3. DOMAIN f = Keys("attempt")
        <5>1. \A n : <<"attempt", n>> \notin Dropped(w)
          BY <2>2, QuizSpares
        <5> QED BY <4>1, <4>2, <5>1, FlushedDomain
      <4>4. \A n \in Keys("attempt") : f[n] = db["attempt"][n]
        BY <2>3, <2>4, <4>2
      <4>5. IsTable(f) /\ IsTable(db["attempt"])
        BY <4>2, FlushedIsTable DEF QuizInv
      <4>6. f = db["attempt"]
        BY <4>3, <4>4, <4>5, SameTable DEF Keys
      <4> QED BY <2>3, <2>6, <4>2, <4>6
    <3> QED BY <2>2, <2>3, <2>6, <3>1 DEF QuizPromise, Unlocked
  <2> QED BY <2>4, <2>5, <2>6 DEF QuizLast
<1>3. CASE ~Commit(s)
  <2>1. db'["question"] = db["question"] /\ db'["attempt"] = db["attempt"]
    BY <1>1, <1>3, OnlyCommits
  <2> QED BY <2>1 DEF QuizLast
<1> QED BY <1>2, <1>3

-----------------------------------------------------------------------------
(* The classroom: it is only written while its year is active.             *)
ChapterRow == [class : Classes, locked : BOOLEAN]
TopicRow == [of : {"chapter"} \X Chapters]
ItemRow == [of : {"topic"} \X Topics, class : Classes]
LessonTables == {"chapter", "topic", "item"}

LessonsWork(w) == \A t \in LessonTables : Rows(w.put, t) = None
Teaches(w) == w.drop # None \/ \E t \in LessonTables : Rows(w.insert, t) # None \/ Rows(w.update, t) # None
LessonsTyped == /\ TableInv("chapter", Chapters, ChapterRow) /\ TableInv("topic", Topics, TopicRow)
                /\ TableInv("item", Items, ItemRow) /\ TableInv("year", {"y"}, Year)
LessonsInv ==
    /\ DOMAIN db = {"chapter", "topic", "item", "year", "notice"}
    /\ LessonsTyped /\ OnlyInv({})
    /\ \A t \in LessonTables : IsTable(db[t])
    /\ \A s \in Sessions : LessonsWork(tx[s])
    /\ serial => \A s \in Sessions : Busy(s) => (Teaches(tx[s]) => WriteAllowed)

LessonsFits(w) == /\ Fits(w, "chapter", Chapters, ChapterRow) /\ Fits(w, "topic", Topics, TopicRow)
                  /\ Fits(w, "item", Items, ItemRow) /\ Fits(w, "year", {"y"}, Year)
LessonsOpens(s, w, objects) ==
    /\ Opens(s, w, objects) /\ OnlyFits(w, {}) /\ LessonsFits(w) /\ LessonsWork(w)
    /\ Teaches(w) => WriteAllowed

LessonsLast == serial /\ ~WriteAllowed =>
    db'["chapter"] = db["chapter"] /\ db'["topic"] = db["topic"] /\ db'["item"] = db["item"]

(* What the handler of "create chapter" collects is sound.                 *)
LEMMA CreateChapterPrepares ==
  ASSUME NEW s \in Sessions, NEW c \in Chapters, NEW class \in Classes, CreateChapter(s, c, class)
  PROVE  \E w, objects : LessonsOpens(s, w, objects)
<1>0. PICK no : no = FALSE OBVIOUS
<1>1. PICK row, one, new, w : /\ row = [class |-> class, locked |-> no]
                              /\ one = (c :> row) /\ new = [chapter |-> one] /\ w = [Work EXCEPT !.insert = new]
  OBVIOUS
<1>2. BeginWith(s, w, stored \cup {}) /\ WriteAllowed
  BY <1>0, <1>1 DEF CreateChapter, Begin, BeginStoring
<1>3. /\ w.insert = new /\ w.update = None /\ w.put = None /\ w.drop = None /\ w.tell = {} /\ w.state = "open"
      /\ WorkShape(w)
  BY <1>1 DEF Work, Idle, WorkShape
<1>4. Rows(w.insert, "chapter") = one /\ \A t \in {"notice", "topic", "item", "year"} : Rows(w.insert, t) = None
  BY <1>1, <1>3 DEF Rows
<1>5. /\ DOMAIN None = {} /\ \A t : Rows(w.update, t) = None /\ Rows(w.put, t) = None
  BY <1>3, NoRows
<1>6. DOMAIN one = {c} /\ one[c] = row /\ row \in ChapterRow
  <2>1. one = (c :> row)
    BY <1>1
  <2>2. DOMAIN one = {c} /\ one[c] = row
    BY <2>1, OneOf
  <2>3. row \in ChapterRow
    BY <1>0, <1>1 DEF ChapterRow
  <2> QED BY <2>2, <2>3
<1>7. OnlyFits(w, {}) /\ LessonsFits(w) /\ LessonsWork(w)
  BY <1>3, <1>4, <1>5, <1>6 DEF Fits, OnlyFits, LessonsFits, LessonsWork
<1> QED BY <1>2, <1>3, <1>7 DEF LessonsOpens, Opens

(* What the handler of "update chapter" collects is sound.                 *)
LEMMA UpdateChapterPrepares ==
  ASSUME NEW s \in Sessions, NEW c \in Chapters, NEW locked \in BOOLEAN, UpdateChapter(s, c, locked)
  PROVE  \E w, objects : LessonsOpens(s, w, objects)
<1>1. PICK set, cols, one, up, w : /\ set = [locked |-> locked] /\ cols = Changed(db["chapter"][c], set)
                                   /\ one = (c :> cols) /\ up = [chapter |-> one] /\ w = [Work EXCEPT !.update = up]
  OBVIOUS
<1>2. BeginWith(s, w, stored \cup {}) /\ WriteAllowed
  BY <1>1 DEF UpdateChapter, Begin, BeginStoring, Sets
<1>3. /\ w.insert = None /\ w.update = up /\ w.put = None /\ w.drop = None /\ w.tell = {} /\ w.state = "open"
      /\ WorkShape(w)
  BY <1>1 DEF Work, Idle, WorkShape
<1>4. Rows(w.update, "chapter") = one /\ \A t \in {"notice", "topic", "item", "year"} : Rows(w.update, t) = None
  BY <1>1, <1>3 DEF Rows
<1>5. /\ DOMAIN None = {} /\ \A t : Rows(w.insert, t) = None /\ Rows(w.put, t) = None
  BY <1>3, NoRows
<1>6. DOMAIN one = {c} /\ one[c] = cols
  BY <1>1, OneOf
<1>7. Fitting(ChapterRow, cols)
  <2>1. DOMAIN set = {"locked"} /\ set["locked"] \in BOOLEAN
    BY <1>1
  <2>2. DOMAIN cols \subseteq {"locked"} /\ \A x \in DOMAIN cols : cols[x] \in BOOLEAN
    BY <1>1, <2>1, ChangedIs
  <2>3. ASSUME NEW row \in ChapterRow PROVE Over(row, cols) \in ChapterRow
    <3>1. PICK r : r = Over(row, cols)
      OBVIOUS
    <3>2. r = [x \in {"class", "locked"} |-> IF x \in DOMAIN cols THEN cols[x] ELSE row[x]]
      BY <3>1, OverIs DEF ChapterRow
    <3>3. r["locked"] \in BOOLEAN /\ r["class"] \in Classes
      BY <2>2, <3>2 DEF ChapterRow
    <3> QED BY <3>1, <3>2, <3>3 DEF ChapterRow
  <2> QED BY <2>3 DEF Fitting
<1>8. OnlyFits(w, {}) /\ LessonsFits(w) /\ LessonsWork(w)
  BY <1>3, <1>4, <1>5, <1>6, <1>7 DEF Fits, OnlyFits, LessonsFits, LessonsWork
<1> QED BY <1>2, <1>3, <1>8 DEF LessonsOpens, Opens

(* What the handler of "remove" collects is sound.                         *)
LEMMA RemovePrepares ==
  ASSUME NEW s \in Sessions, NEW t, NEW k, Remove(s, t, k)
  PROVE  \E w, objects : LessonsOpens(s, w, objects)
<1>1. PICK gone, w : gone = (t :> {k}) /\ w = [Work EXCEPT !.drop = gone]
  OBVIOUS
<1>2. BeginWith(s, w, stored \cup {}) /\ WriteAllowed
  BY <1>1 DEF Remove, Begin, BeginStoring
<1>3. /\ w.insert = None /\ w.update = None /\ w.put = None /\ w.tell = {} /\ w.state = "open" /\ WorkShape(w)
  BY <1>1 DEF Work, Idle, WorkShape
<1>4. /\ DOMAIN None = {} /\ \A x : Rows(w.update, x) = None /\ Rows(w.put, x) = None /\ Rows(w.insert, x) = None
  BY <1>3, NoRows
<1>5. OnlyFits(w, {}) /\ LessonsFits(w) /\ LessonsWork(w)
  BY <1>3, <1>4 DEF Fits, OnlyFits, LessonsFits, LessonsWork
<1> QED BY <1>2, <1>3, <1>5 DEF LessonsOpens, Opens

(* What the handler of "create topic" collects is sound.                   *)
LEMMA CreateTopicPrepares ==
  ASSUME NEW s \in Sessions, NEW i \in Topics, NEW c \in Chapters, CreateTopic(s, i, c)
  PROVE  \E w, objects : LessonsOpens(s, w, objects)
<1>0. PICK needs : needs = {<<"chapter", c>>} OBVIOUS
<1>1. PICK row, one, new, w : /\ row = [of |-> <<"chapter", c>>] /\ one = (i :> row) /\ new = [topic |-> one]
                              /\ w = [Work EXCEPT !.insert = new, !.needs = needs]
  OBVIOUS
<1>2. BeginWith(s, w, stored \cup {}) /\ WriteAllowed
  BY <1>0, <1>1 DEF CreateTopic, Begin, BeginStoring
<1>3. /\ w.insert = new /\ w.update = None /\ w.put = None /\ w.drop = None /\ w.tell = {} /\ w.state = "open"
      /\ WorkShape(w)
  BY <1>1 DEF Work, Idle, WorkShape
<1>4. Rows(w.insert, "topic") = one /\ \A t \in {"notice", "chapter", "item", "year"} : Rows(w.insert, t) = None
  BY <1>1, <1>3 DEF Rows
<1>5. /\ DOMAIN None = {} /\ \A t : Rows(w.update, t) = None /\ Rows(w.put, t) = None
  BY <1>3, NoRows
<1>6. DOMAIN one = {i} /\ one[i] = row /\ row \in TopicRow
  BY <1>1, OneOf DEF TopicRow
<1>7. OnlyFits(w, {}) /\ LessonsFits(w) /\ LessonsWork(w)
  BY <1>3, <1>4, <1>5, <1>6 DEF Fits, OnlyFits, LessonsFits, LessonsWork
<1> QED BY <1>2, <1>3, <1>7 DEF LessonsOpens, Opens

(* What the handler of "add content" collects is sound.                    *)
LEMMA AddContentPrepares ==
  ASSUME NEW s \in Sessions, NEW n \in Items, NEW i \in Topics, NEW class \in Classes, AddContent(s, n, i, class)
  PROVE  \E w, objects : LessonsOpens(s, w, objects)
<1>0. PICK needs : needs = {<<"topic", i>>} OBVIOUS
<1>1. PICK row, one, new, w : /\ row = [of |-> <<"topic", i>>, class |-> class] /\ one = (n :> row)
                              /\ new = [item |-> one] /\ w = [Work EXCEPT !.insert = new, !.needs = needs]
  OBVIOUS
<1>2. BeginWith(s, w, stored \cup {}) /\ WriteAllowed
  BY <1>0, <1>1 DEF AddContent, Begin, BeginStoring
<1>3. /\ w.insert = new /\ w.update = None /\ w.put = None /\ w.drop = None /\ w.tell = {} /\ w.state = "open"
      /\ WorkShape(w)
  BY <1>1 DEF Work, Idle, WorkShape
<1>4. Rows(w.insert, "item") = one /\ \A t \in {"notice", "chapter", "topic", "year"} : Rows(w.insert, t) = None
  BY <1>1, <1>3 DEF Rows
<1>5. /\ DOMAIN None = {} /\ \A t : Rows(w.update, t) = None /\ Rows(w.put, t) = None
  BY <1>3, NoRows
<1>6. DOMAIN one = {n} /\ one[n] = row /\ row \in ItemRow
  BY <1>1, OneOf DEF ItemRow
<1>7. OnlyFits(w, {}) /\ LessonsFits(w) /\ LessonsWork(w)
  BY <1>3, <1>4, <1>5, <1>6 DEF Fits, OnlyFits, LessonsFits, LessonsWork
<1> QED BY <1>2, <1>3, <1>7 DEF LessonsOpens, Opens

(* What the handler of "upload content" collects is sound.                 *)
LEMMA UploadContentPrepares ==
  ASSUME NEW s \in Sessions, NEW n, UploadContent(s, n)
  PROVE  \E w, objects : LessonsOpens(s, w, objects)
<1>1. PICK w : w = Work
  OBVIOUS
<1>2. BeginWith(s, w, stored \cup {<<"content", n>>}) /\ WriteAllowed
  BY <1>1 DEF UploadContent, BeginStoring
<1>3. /\ w.insert = None /\ w.update = None /\ w.put = None /\ w.drop = None /\ w.tell = {} /\ w.state = "open"
      /\ WorkShape(w)
  BY <1>1, WorkIs
<1>4. /\ DOMAIN None = {} /\ \A x : Rows(w.update, x) = None /\ Rows(w.put, x) = None /\ Rows(w.insert, x) = None
  BY <1>3, NoRows
<1>5. OnlyFits(w, {}) /\ LessonsFits(w) /\ LessonsWork(w)
  BY <1>3, <1>4 DEF Fits, OnlyFits, LessonsFits, LessonsWork
<1> QED BY <1>2, <1>3, <1>5 DEF LessonsOpens, Opens

(* The end of a year writes no lesson.                                     *)
LEMMA LessonsYearPrepares ==
  ASSUME NEW s \in Sessions, EndYear(s)
  PROVE  \E w, objects : LessonsOpens(s, w, objects)
<1>0. PICK no : no = FALSE OBVIOUS
<1>1. PICK cols, one, up, w : /\ cols = [active |-> no] /\ one = ("y" :> cols)
                              /\ up = [year |-> one] /\ w = [Work EXCEPT !.update = up]
  OBVIOUS
<1>2. BeginWith(s, w, stored \cup {}) /\ WriteAllowed
  BY <1>0, <1>1 DEF EndYear, Begin, BeginStoring, WriteAllowed
<1>3. /\ w.insert = None /\ w.update = up /\ w.put = None /\ w.drop = None /\ w.tell = {} /\ w.state = "open"
      /\ WorkShape(w)
  BY <1>1 DEF Work, Idle, WorkShape
<1>4. Rows(w.update, "year") = one /\ \A t \in {"notice", "chapter", "topic", "item"} : Rows(w.update, t) = None
  BY <1>1, <1>3 DEF Rows
<1>5. /\ DOMAIN None = {} /\ \A t : Rows(w.insert, t) = None /\ Rows(w.put, t) = None
  BY <1>3, NoRows
<1>6. DOMAIN one = {"y"} /\ one["y"] = cols
  BY <1>1, OneOf
<1>7. Fitting(Year, cols)
  <2>1. DOMAIN cols = {"active"} /\ cols["active"] = FALSE
    BY <1>0, <1>1
  <2> QED BY <2>1, YearFitting
<1>8. OnlyFits(w, {}) /\ LessonsFits(w) /\ LessonsWork(w)
  BY <1>3, <1>4, <1>5, <1>6, <1>7 DEF Fits, OnlyFits, LessonsFits, LessonsWork
<1> QED BY <1>2, <1>3, <1>8 DEF LessonsOpens, Opens

(* The handlers of lessons preserve their invariant.                       *)
LEMMA LessonsBegin ==
  ASSUME Shape, LessonsInv, NEW s \in Sessions, ClassroomStep(s) \/ ContentStep(s)
  PROVE  LessonsInv' /\ Shape' /\ UNCHANGED <<area, db, serial>>
<1>1. PICK w, objects : LessonsOpens(s, w, objects)
  BY CreateChapterPrepares, UpdateChapterPrepares, RemovePrepares, CreateTopicPrepares, AddContentPrepares,
     UploadContentPrepares, LessonsYearPrepares, Zenon DEF ClassroomStep, ContentStep
<1>2. Shape' /\ UNCHANGED <<area, db, serial>> /\ tx' = [q \in Sessions |-> IF q = s THEN w ELSE tx[q]]
  BY <1>1, BeginShape DEF LessonsOpens, Opens
<1>3. TableStays("chapter", Chapters, ChapterRow)
  BY <1>1, TableBegin DEF LessonsInv, LessonsTyped, LessonsFits, LessonsOpens, Opens
<1>4. TableStays("topic", Topics, TopicRow)
  BY <1>1, TableBegin DEF LessonsInv, LessonsTyped, LessonsFits, LessonsOpens, Opens
<1>5. TableStays("item", Items, ItemRow)
  BY <1>1, TableBegin DEF LessonsInv, LessonsTyped, LessonsFits, LessonsOpens, Opens
<1>6. TableStays("year", {"y"}, Year)
  BY <1>1, TableBegin DEF LessonsInv, LessonsTyped, LessonsFits, LessonsOpens, Opens
<1>7. OnlyInv({})'
  BY <1>1, OnlyBegin DEF LessonsInv, LessonsOpens, Opens
<1>8. ASSUME NEW q \in Sessions PROVE LessonsWork(tx[q])' /\ (serial /\ Busy(q)' => (Teaches(tx[q])' => WriteAllowed'))
  <2>1. PICK v : v = IF q = s THEN w ELSE tx[q]
    OBVIOUS
  <2>2. tx[q]' = v /\ LessonsWork(v) /\ (serial /\ Busy(q)' /\ Teaches(v) => WriteAllowed)
    BY <1>1, <1>2, <2>1 DEF LessonsOpens, LessonsInv, Busy
  <2>3. WriteAllowed' = WriteAllowed
    BY <1>2 DEF WriteAllowed
  <2> QED BY <2>2, <2>3 DEF LessonsWork, Teaches, Rows
<1>9. /\ DOMAIN db' = {"chapter", "topic", "item", "year", "notice"}
      /\ \A t \in LessonTables : IsTable(db[t])'
  BY <1>2 DEF LessonsInv, IsTable
<1>10. LessonsTyped'
  BY <1>3, <1>4, <1>5, <1>6 DEF TableStays, TableInv, Fits, LessonsTyped
<1> QED BY <1>2, <1>7, <1>8, <1>9, <1>10 DEF LessonsInv

(* The end of a request preserves the invariant of lessons.                *)
LEMMA LessonsEnd ==
  ASSUME Shape, LessonsInv, NEW s \in Sessions, EndOfRequest(s)
  PROVE  LessonsInv'
<1>1. /\ DOMAIN db' = DOMAIN db
      /\ "chapter" \in DOMAIN db /\ "topic" \in DOMAIN db /\ "item" \in DOMAIN db /\ "year" \in DOMAIN db
  BY OnlyCommits DEF LessonsInv
<1>2. TableStays("chapter", Chapters, ChapterRow)
  BY <1>1, TableEnd DEF LessonsInv, LessonsTyped
<1>3. TableStays("topic", Topics, TopicRow)
  BY <1>1, TableEnd DEF LessonsInv, LessonsTyped
<1>4. TableStays("item", Items, ItemRow)
  BY <1>1, TableEnd DEF LessonsInv, LessonsTyped
<1>5. TableStays("year", {"y"}, Year)
  BY <1>1, TableEnd DEF LessonsInv, LessonsTyped
<1>6. OnlyInv({})'
  BY OnlyEnd DEF LessonsInv
<1>7. serial' = serial
  BY WorksAtEnd
<1>8. \A q \in Sessions : LessonsWork(tx[q])'
  <2>1. ASSUME NEW q \in Sessions PROVE LessonsWork(tx[q])'
    <3>1. PICK v : v = tx'[q]
      OBVIOUS
    <3>2. v = tx[q] \/ v.put = None
      BY <3>1, WorksAtEnd
    <3>3. LessonsWork(v)
      BY <3>2, NoRows DEF LessonsWork, LessonsInv
    <3> QED BY <3>1, <3>3 DEF LessonsWork, Rows
  <2> QED BY <2>1
<1>9. ASSUME serial, NEW q \in Sessions, Busy(q)', Teaches(tx[q])' PROVE WriteAllowed'
  <2>1. CASE Commit(s)
    BY <1>9, <2>1, SerialEnd DEF Busy
  <2>2. CASE ~Commit(s)
    <3>1. tx'[q] = tx[q] /\ db'["year"] = db["year"]
      BY <1>1, <1>9, <2>2, SerialEnd DEF Busy
    <3>2. Busy(q) /\ Teaches(tx[q])
      BY <1>9, <3>1 DEF Busy, Teaches, Rows
    <3> QED BY <1>9, <3>1, <3>2 DEF LessonsInv, WriteAllowed
  <2> QED BY <2>1, <2>2
<1>10. \A t \in LessonTables : IsTable(db[t])'
  <2>1. ASSUME NEW t \in LessonTables PROVE IsTable(db'[t])
    <3>1. db'[t] = db[t] \/ db'[t] = Flushed(tx[s], t)
      BY <1>1, <2>1, OnlyCommits DEF LessonTables
    <3> QED BY <2>1, <3>1, FlushedIsTable DEF LessonsInv
  <2> QED BY <2>1 DEF IsTable
<1>11. LessonsTyped'
  BY <1>2, <1>3, <1>4, <1>5 DEF TableStays, TableInv, Fits, LessonsTyped
<1>12. DOMAIN db' = {"chapter", "topic", "item", "year", "notice"}
  BY <1>1 DEF LessonsInv
<1> QED BY <1>6, <1>7, <1>8, <1>9, <1>10, <1>11, <1>12 DEF LessonsInv

(* A commit changes no lesson of a year that has ended.                    *)
LEMMA LessonsLastEnd ==
  ASSUME Shape, LessonsInv, NEW s \in Sessions, EndOfRequest(s)
  PROVE  LessonsLast
<1>1. "chapter" \in DOMAIN db /\ "topic" \in DOMAIN db /\ "item" \in DOMAIN db
  BY DEF LessonsInv
<1>2. ASSUME serial, ~WriteAllowed, NEW t \in LessonTables PROVE db'[t] = db[t]
  <2>1. CASE Commit(s)
    <3>1. PICK w : w = tx[s]
      OBVIOUS
    <3>2. ~Teaches(w) /\ LessonsWork(w) /\ db'[t] = Flushed(w, t)
      <4>1. Busy(s) /\ db'[t] = Flushed(w, t)
        BY <1>1, <1>2, <2>1, <3>1, CommitShape DEF Busy, LessonTables
      <4>2. LessonsWork(w) /\ ~Teaches(w)
        BY <1>2, <3>1, <4>1 DEF LessonsInv
      <4> QED BY <4>1, <4>2
    <3>3. Rows(w.put, t) = None /\ Rows(w.insert, t) = None /\ Rows(w.update, t) = None /\ w.drop = None
      BY <3>2 DEF Teaches, LessonsWork
    <3>4. DOMAIN Flushed(w, t) = Keys(t) /\ \A k \in Keys(t) : Flushed(w, t)[k] = db[t][k]
      BY <3>3, SameFlush
    <3>5. PICK f : f = Flushed(w, t)
      OBVIOUS
    <3>6. IsTable(f) /\ IsTable(db[t])
      BY <3>5, FlushedIsTable DEF LessonsInv
    <3>7. f = db[t]
      BY <3>4, <3>5, <3>6, SameTable DEF Keys
    <3> QED BY <3>2, <3>5, <3>7
  <2>2. CASE ~Commit(s)
    BY <1>1, <2>2, OnlyCommits DEF LessonTables
  <2> QED BY <2>1, <2>2
<1> QED BY <1>2 DEF LessonsLast, LessonTables

-----------------------------------------------------------------------------
(* Chat: what was said and what was read of it is never lost.  The work     *)
(* that would delete a conversation needs a row that cannot exist.          *)
ReadRow == [of : {"message"} \X Messages]
ChatTables == {"conversation", "message", "read", "reaction"}

ChatWork(w) ==
    /\ \A t \in ChatTables : Rows(w.put, t) = None
    /\ \A t \in {"conversation", "message", "read"} : Rows(w.update, t) = None
    /\ \A r \in DOMAIN Rows(w.update, "reaction") : DOMAIN Rows(w.update, "reaction")[r] \subseteq {"emoji"}
    /\ \/ w.drop = None
       \/ \E r \in Messages \X People : w.drop = [reaction |-> {r}]
       \/ \E c \in Conversations : w.drop = [conversation |-> {c}] /\ <<"conversation", "null">> \in w.needs

ChatTyped == /\ TableInv("conversation", Conversations, Conversation) /\ TableInv("message", Messages, Message)
             /\ TableInv("read", Messages \X People, ReadRow) /\ TableInv("reaction", Messages \X People, Reaction)
ChatInv ==
    /\ DOMAIN db = ChatTables \cup {"notice"}
    /\ ChatTyped /\ OnlyInv({})
    /\ \A s \in Sessions : ChatWork(tx[s])

ChatFits(w) == /\ Fits(w, "conversation", Conversations, Conversation) /\ Fits(w, "message", Messages, Message)
               /\ Fits(w, "read", Messages \X People, ReadRow) /\ Fits(w, "reaction", Messages \X People, Reaction)
ChatOpens(s, w, objects) == Opens(s, w, objects) /\ OnlyFits(w, {}) /\ ChatFits(w) /\ ChatWork(w)

ChatLast == Keys("message") \subseteq Keys("message")' /\ Keys("read") \subseteq Keys("read")'

(* What the handler of "open" collects is sound.                           *)
LEMMA OpenPrepares ==
  ASSUME NEW s \in Sessions, NEW c \in Conversations, NEW direct \in BOOLEAN, NEW members \in SUBSET People,
         Begin(s, [Work EXCEPT !.insert = [conversation |-> c :> [direct |-> direct, members |-> members]]])
  PROVE  \E w, objects : ChatOpens(s, w, objects)
<1>1. PICK row, one, new, w : /\ row = [direct |-> direct, members |-> members]
                              /\ one = (c :> row) /\ new = [conversation |-> one]
                              /\ w = [Work EXCEPT !.insert = new]
  OBVIOUS
<1>2. BeginWith(s, w, stored \cup {})
  BY <1>1 DEF Begin, BeginStoring
<1>3. /\ w.insert = new /\ w.update = None /\ w.put = None /\ w.drop = None /\ w.tell = {} /\ w.state = "open"
      /\ WorkShape(w)
  BY <1>1 DEF Work, Idle, WorkShape
<1>4. Rows(w.insert, "conversation") = one /\ \A t \in {"notice", "message", "read", "reaction"} : Rows(w.insert, t) = None
  BY <1>1, <1>3 DEF Rows
<1>5. /\ DOMAIN None = {} /\ \A t : Rows(w.update, t) = None /\ Rows(w.put, t) = None
  BY <1>3, NoRows
<1>6. DOMAIN one = {c} /\ one[c] = row /\ row \in Conversation
  BY <1>1, OneOf DEF Conversation
<1>7. OnlyFits(w, {}) /\ ChatFits(w) /\ ChatWork(w)
  BY <1>3, <1>4, <1>5, <1>6 DEF Fits, OnlyFits, ChatFits, ChatWork
<1> QED BY <1>2, <1>3, <1>7 DEF ChatOpens, Opens

(* What the handler of "send message" collects is sound.                   *)
LEMMA SendMessagePrepares ==
  ASSUME NEW s \in Sessions, NEW m \in Messages, NEW c \in Conversations, NEW u \in People, SendMessage(s, m, c, u)
  PROVE  \E w, objects : ChatOpens(s, w, objects)
<1>0. PICK needs : needs = {<<"conversation", c>>} OBVIOUS
<1>1. PICK row, one, new, w : /\ row = [of |-> <<"conversation", c>>, sender |-> u]
                              /\ one = (m :> row) /\ new = [message |-> one]
                              /\ w = [Work EXCEPT !.insert = new, !.needs = needs]
  OBVIOUS
<1>2. BeginWith(s, w, stored \cup {})
  BY <1>0, <1>1 DEF SendMessage, Begin, BeginStoring
<1>3. /\ w.insert = new /\ w.update = None /\ w.put = None /\ w.drop = None /\ w.tell = {} /\ w.state = "open"
      /\ WorkShape(w)
  BY <1>1 DEF Work, Idle, WorkShape
<1>4. Rows(w.insert, "message") = one /\ \A t \in {"notice", "conversation", "read", "reaction"} : Rows(w.insert, t) = None
  BY <1>1, <1>3 DEF Rows
<1>5. /\ DOMAIN None = {} /\ \A t : Rows(w.update, t) = None /\ Rows(w.put, t) = None
  BY <1>3, NoRows
<1>6. DOMAIN one = {m} /\ one[m] = row /\ row \in Message
  BY <1>1, OneOf DEF Message
<1>7. OnlyFits(w, {}) /\ ChatFits(w) /\ ChatWork(w)
  BY <1>3, <1>4, <1>5, <1>6 DEF Fits, OnlyFits, ChatFits, ChatWork
<1> QED BY <1>2, <1>3, <1>7 DEF ChatOpens, Opens

(* What the handler of "mark messages read" collects is sound.             *)
LEMMA MarkMessagesReadPrepares ==
  ASSUME NEW s \in Sessions, NEW c, NEW u \in People, NEW messages \in SUBSET Messages,
         MarkMessagesRead(s, c, u, messages)
  PROVE  \E w, objects : ChatOpens(s, w, objects)
<1>0. PICK needs : needs = {<<"message", m>> : m \in messages} OBVIOUS
<1>01. PICK many : many = [r \in messages \X {u} |-> [of |-> <<"message", r[1]>>]]
  OBVIOUS
<1>02. PICK new : DOMAIN new = {"read"} /\ new["read"] = many /\ new = [read |-> many]
  OBVIOUS
<1>1. PICK w : w = [Work EXCEPT !.insert = new, !.needs = needs]
  OBVIOUS
<1>2. BeginWith(s, w, stored \cup {})
  BY <1>0, <1>01, <1>02, <1>1 DEF MarkMessagesRead, Begin, BeginStoring
<1>3. /\ w.insert = new /\ w.update = None /\ w.put = None /\ w.drop = None /\ w.tell = {} /\ w.state = "open"
      /\ WorkShape(w)
  BY <1>1 DEF Work, Idle, WorkShape
<1>4. Rows(w.insert, "read") = many /\ \A t \in {"notice", "conversation", "message", "reaction"} : Rows(w.insert, t) = None
  BY <1>02, <1>3 DEF Rows
<1>5. /\ DOMAIN None = {} /\ \A t : Rows(w.update, t) = None /\ Rows(w.put, t) = None
  BY <1>3, NoRows
<1>6. DOMAIN many \subseteq Messages \X People /\ \A r \in DOMAIN many : many[r] \in ReadRow
  <2>1. DOMAIN many = messages \X {u}
    BY <1>01
  <2>2. ASSUME NEW r \in messages \X {u} PROVE many[r] \in ReadRow
    <3>1. many[r] = [of |-> <<"message", r[1]>>] /\ r[1] \in Messages
      BY <1>01, <2>2
    <3> QED BY <3>1 DEF ReadRow
  <2> QED BY <2>1, <2>2
<1>7. OnlyFits(w, {}) /\ ChatFits(w) /\ ChatWork(w)
  BY <1>3, <1>4, <1>5, <1>6 DEF Fits, OnlyFits, ChatFits, ChatWork
<1> QED BY <1>2, <1>3, <1>7 DEF ChatOpens, Opens

(* What the handler of "upload chat" collects is sound.                    *)
LEMMA UploadChatPrepares ==
  ASSUME NEW s \in Sessions, NEW c, NEW u, UploadChatFile(s, c, u)
  PROVE  \E w, objects : ChatOpens(s, w, objects)
<1>1. PICK w : w = Work
  OBVIOUS
<1>2. BeginWith(s, w, stored \cup {<<"conversation", c>>})
  BY <1>1 DEF UploadChatFile, BeginStoring
<1>3. /\ w.insert = None /\ w.update = None /\ w.put = None /\ w.drop = None /\ w.tell = {} /\ w.state = "open"
      /\ WorkShape(w)
  BY <1>1, WorkIs
<1>4. /\ DOMAIN None = {} /\ \A x : Rows(w.update, x) = None /\ Rows(w.put, x) = None /\ Rows(w.insert, x) = None
  BY <1>3, NoRows
<1>5. OnlyFits(w, {}) /\ ChatFits(w) /\ ChatWork(w)
  BY <1>3, <1>4 DEF Fits, OnlyFits, ChatFits, ChatWork
<1> QED BY <1>2, <1>3, <1>5 DEF ChatOpens, Opens

(* What the handler of "delete conversation" collects is sound.            *)
LEMMA DeleteConversationPrepares ==
  ASSUME NEW s \in Sessions, NEW c \in Conversations, NEW u, DeleteConversation(s, c, u)
  PROVE  \E w, objects : ChatOpens(s, w, objects)
<1>0. PICK needs : needs = {<<"conversation", "null">>} OBVIOUS
<1>1. PICK gone, w : gone = [conversation |-> {c}] /\ w = [Work EXCEPT !.drop = gone, !.needs = needs]
  OBVIOUS
<1>2. BeginWith(s, w, stored \cup {})
  BY <1>0, <1>1 DEF DeleteConversation, Begin, BeginStoring
<1>3. /\ w.insert = None /\ w.update = None /\ w.put = None /\ w.drop = gone /\ w.tell = {} /\ w.state = "open"
      /\ w.needs = needs /\ WorkShape(w)
  BY <1>1 DEF Work, Idle, WorkShape
<1>4. /\ DOMAIN None = {} /\ \A x : Rows(w.update, x) = None /\ Rows(w.put, x) = None /\ Rows(w.insert, x) = None
  BY <1>3, NoRows
<1>5. DOMAIN gone = {"conversation"}
  BY <1>1
<1>6. OnlyFits(w, {}) /\ ChatFits(w)
  BY <1>3, <1>4, <1>5 DEF Fits, OnlyFits, ChatFits
<1>7. ChatWork(w)
  BY <1>0, <1>1, <1>3, <1>4 DEF ChatWork
<1> QED BY <1>2, <1>3, <1>6, <1>7 DEF ChatOpens, Opens

(* What the handler of "react" collects is sound.                          *)
LEMMA ReactPrepares ==
  ASSUME ChatInv, NEW s \in Sessions, NEW m \in Messages, NEW u \in People, NEW emoji \in {"up", "down"},
         React(s, m, u, emoji)
  PROVE  \E w, objects : ChatOpens(s, w, objects)
<1>0. PICK r, needs : r = <<m, u>> /\ needs = {<<"message", m>>}
  OBVIOUS
<1>01. r \in Messages \X People
  BY <1>0
<1>1. CASE Begin(s, [Work EXCEPT !.insert = [reaction |-> r :> [of |-> <<"message", m>>, emoji |-> emoji]],
                                 !.needs = needs])
  <2>1. PICK row, one, new, w : /\ row = [of |-> <<"message", m>>, emoji |-> emoji]
                                /\ one = (r :> row) /\ new = [reaction |-> one]
                                /\ w = [Work EXCEPT !.insert = new, !.needs = needs]
    OBVIOUS
  <2>2. BeginWith(s, w, stored \cup {})
    BY <1>1, <2>1 DEF Begin, BeginStoring
  <2>3. /\ w.insert = new /\ w.update = None /\ w.put = None /\ w.drop = None /\ w.tell = {} /\ w.state = "open"
        /\ WorkShape(w)
    BY <2>1 DEF Work, Idle, WorkShape
  <2>4. Rows(w.insert, "reaction") = one /\ \A t \in {"notice", "conversation", "message", "read"} : Rows(w.insert, t) = None
    BY <2>1, <2>3 DEF Rows
  <2>5. /\ DOMAIN None = {} /\ \A t : Rows(w.update, t) = None /\ Rows(w.put, t) = None
    BY <2>3, NoRows
  <2>6. DOMAIN one = {r} /\ one[r] = row /\ row \in Reaction
    <3>1. one = (r :> row)
      BY <2>1
    <3>2. DOMAIN one = {r} /\ one[r] = row
      BY <3>1, OneOf
    <3>3. row \in Reaction
      BY <2>1 DEF Reaction
    <3> QED BY <3>2, <3>3
  <2>7. OnlyFits(w, {}) /\ ChatFits(w) /\ ChatWork(w)
    BY <1>01, <2>3, <2>4, <2>5, <2>6 DEF Fits, OnlyFits, ChatFits, ChatWork
  <2> QED BY <2>2, <2>3, <2>7 DEF ChatOpens, Opens
<1>2. CASE Begin(s, [Work EXCEPT !.drop = [reaction |-> {r}]])
  <2>1. PICK gone, w : gone = [reaction |-> {r}] /\ w = [Work EXCEPT !.drop = gone]
    OBVIOUS
  <2>2. BeginWith(s, w, stored \cup {})
    BY <1>2, <2>1 DEF Begin, BeginStoring
  <2>3. /\ w.insert = None /\ w.update = None /\ w.put = None /\ w.drop = gone /\ w.tell = {} /\ w.state = "open"
        /\ WorkShape(w)
    BY <2>1 DEF Work, Idle, WorkShape
  <2>4. /\ DOMAIN None = {} /\ \A x : Rows(w.update, x) = None /\ Rows(w.put, x) = None /\ Rows(w.insert, x) = None
    BY <2>3, NoRows
  <2>5. DOMAIN gone = {"reaction"}
    BY <2>1
  <2>6. OnlyFits(w, {}) /\ ChatFits(w)
    BY <2>3, <2>4, <2>5 DEF Fits, OnlyFits, ChatFits
  <2>7. ChatWork(w)
    BY <1>01, <2>1, <2>3, <2>4 DEF ChatWork
  <2> QED BY <2>2, <2>3, <2>6, <2>7 DEF ChatOpens, Opens
<1>3. CASE Begin(s, [Work EXCEPT !.update = [reaction |-> Sets("reaction", r, [emoji |-> emoji])]])
  <2>1. PICK set, cols, one, up, w : /\ set = [emoji |-> emoji] /\ cols = Changed(db["reaction"][r], set)
                                     /\ one = (r :> cols) /\ up = [reaction |-> one]
                                     /\ w = [Work EXCEPT !.update = up]
    OBVIOUS
  <2>2. BeginWith(s, w, stored \cup {})
    BY <1>3, <2>1 DEF Begin, BeginStoring, Sets
  <2>3. /\ w.insert = None /\ w.update = up /\ w.put = None /\ w.drop = None /\ w.tell = {} /\ w.state = "open"
        /\ WorkShape(w)
    BY <2>1 DEF Work, Idle, WorkShape
  <2>4. Rows(w.update, "reaction") = one /\ \A t \in {"notice", "conversation", "message", "read"} : Rows(w.update, t) = None
    BY <2>1, <2>3 DEF Rows
  <2>5. /\ DOMAIN None = {} /\ \A t : Rows(w.insert, t) = None /\ Rows(w.put, t) = None
    BY <2>3, NoRows
  <2>6. DOMAIN one = {r} /\ one[r] = cols
    BY <2>1, OneOf
  <2>7. DOMAIN cols \subseteq {"emoji"} /\ Fitting(Reaction, cols)
    <3>1. DOMAIN set = {"emoji"} /\ set["emoji"] \in {"up", "down"}
      BY <2>1
    <3>2. DOMAIN cols \subseteq {"emoji"} /\ \A x \in DOMAIN cols : cols[x] \in {"up", "down"}
      BY <2>1, <3>1, ChangedIs
    <3>3. ASSUME NEW row \in Reaction PROVE Over(row, cols) \in Reaction
      <4>1. PICK new : new = Over(row, cols)
        OBVIOUS
      <4>2. new = [x \in {"of", "emoji"} |-> IF x \in DOMAIN cols THEN cols[x] ELSE row[x]]
        BY <4>1, OverIs DEF Reaction
      <4>3. new["emoji"] \in {"up", "down"} /\ new["of"] \in {"message"} \X Messages
        BY <3>2, <4>2 DEF Reaction
      <4> QED BY <4>1, <4>2, <4>3 DEF Reaction
    <3> QED BY <3>2, <3>3 DEF Fitting
  <2>8. OnlyFits(w, {}) /\ ChatFits(w) /\ ChatWork(w)
    BY <2>3, <2>4, <2>5, <2>6, <2>7 DEF Fits, OnlyFits, ChatFits, ChatWork
  <2> QED BY <2>2, <2>3, <2>8 DEF ChatOpens, Opens
<1>4. \/ Begin(s, [Work EXCEPT !.insert = [reaction |-> r :> [of |-> <<"message", m>>, emoji |-> emoji]],
                              !.needs = needs])
      \/ Begin(s, [Work EXCEPT !.drop = [reaction |-> {r}]])
      \/ Begin(s, [Work EXCEPT !.update = [reaction |-> Sets("reaction", r, [emoji |-> emoji])]])
  <2> HIDE DEF Begin
  <2> QED BY <1>0, Zenon DEF React
<1> QED BY <1>1, <1>2, <1>3, <1>4

(* The commit that deletes a conversation is refused.                      *)
LEMMA ChatDrops ==
  ASSUME ChatInv, NEW w, ChatWork(w), ~Refused(w)
  PROVE  \A k : <<"message", k>> \notin Dropped(w) /\ <<"read", k>> \notin Dropped(w)
<1>1. ASSUME NEW c \in Conversations, w.drop = [conversation |-> {c}], <<"conversation", "null">> \in w.needs
      PROVE  FALSE
  <2>1. PICK need : need = <<"conversation", "null">>
    OBVIOUS
  <2>2. need[2] \in Keys(need[1])
    BY <1>1, <2>1 DEF Refused
  <2>3. "null" \in Keys("conversation")
    BY <2>1, <2>2
  <2>4. Keys("conversation") \subseteq Conversations
    BY DEF ChatInv, ChatTyped, TableInv, Table
  <2> QED BY <2>3, <2>4, MessagingConstants
<1>2. PICK Z : Z = {<<"reaction", r>> : r \in Messages \X People} \cup {<<"notice", n>> : n \in Keys("notice")}
  OBVIOUS
<1>3. Holds(w, Z)
  <2>1. CASE w.drop = None
    BY <2>1, NoRows DEF Holds
  <2>2. ASSUME NEW r \in Messages \X People, w.drop = [reaction |-> {r}] PROVE Holds(w, Z)
    <3>1. PICK drop : drop = w.drop
      OBVIOUS
    <3>2. DOMAIN drop = {"reaction"} /\ drop["reaction"] = {r}
      BY <2>2, <3>1
    <3> QED BY <1>2, <3>1, <3>2 DEF Holds
  <2> QED BY <1>1, <2>1, <2>2 DEF ChatWork
<1>4. ASSUME NEW t \in DOMAIN db, NEW k \in Keys(t), "of" \in DOMAIN db[t][k], Owner(w, t, k) \in Z
      PROVE  <<t, k>> \in Z
  <2>1. t \in {"conversation", "message", "read", "reaction", "notice"}
    BY DEF ChatInv, ChatTables
  <2>2. CASE t = "conversation"
    <3>1. db[t][k] \in Conversation
      BY <2>2 DEF ChatInv, ChatTyped, TableInv, Table
    <3> QED BY <1>4, <3>1 DEF Conversation
  <2>3. CASE t \in {"message", "read", "reaction"}
    <3>1. PICK set : set = Rows(w.update, t)
      OBVIOUS
    <3>2. k \in DOMAIN set => "of" \notin DOMAIN set[k]
      BY <2>3, <3>1, NoRows DEF ChatWork
    <3>3. Owner(w, t, k) = db[t][k].of
      BY <3>1, <3>2 DEF Owner
    <3>4. db[t][k] \in Message \/ db[t][k] \in ReadRow \/ db[t][k] \in Reaction
      BY <2>3 DEF ChatInv, ChatTyped, TableInv, Table
    <3>5. db[t][k].of \in ({"conversation"} \X Conversations) \cup ({"message"} \X Messages)
      BY <3>4 DEF Message, ReadRow, Reaction
    <3>6. PICK o : o = db[t][k].of
      OBVIOUS
    <3>7. o[1] \in {"conversation", "message"} /\ o \in Z
      BY <1>4, <3>3, <3>5, <3>6
    <3> QED BY <1>2, <3>7
  <2>4. CASE t = "notice"
    BY <1>2, <2>4
  <2> QED BY <2>1, <2>2, <2>3, <2>4
<1>5. Dropped(w) \subseteq Z
  <2>1. HoldsBelow(w, Z)
    BY <1>4 DEF HoldsBelow
  <2> QED BY <1>3, <2>1, DroppedWithin
<1>6. ASSUME NEW t, t # "reaction", t # "notice", NEW k, <<t, k>> \in Dropped(w) PROVE FALSE
  BY <1>2, <1>5, <1>6
<1> QED BY <1>6

(* The handlers of chat preserve their invariant.                          *)
LEMMA ChatBegin ==
  ASSUME Shape, ChatInv, NEW s \in Sessions, ChatStep(s)
  PROVE  ChatInv' /\ Shape' /\ UNCHANGED <<area, db, serial>>
<1>1. PICK w, objects : ChatOpens(s, w, objects)
  <2>1. ASSUME NEW c \in Conversations, NEW u \in People, NEW v \in People, OpenDirect(s, c, u, v)
        PROVE  \E w, objects : ChatOpens(s, w, objects)
    BY <2>1, OpenPrepares, Zenon DEF OpenDirect
  <2>2. ASSUME NEW c \in Conversations, NEW u \in People, NEW members \in SUBSET People, OpenGroup(s, c, u, members)
        PROVE  \E w, objects : ChatOpens(s, w, objects)
    <3>1. PICK no, all : no = FALSE /\ all = members \cup {u}
      OBVIOUS
    <3>2. Begin(s, [Work EXCEPT !.insert = [conversation |-> c :> [direct |-> no, members |-> all]]])
      BY <2>2, <3>1 DEF OpenGroup
    <3>3. no \in BOOLEAN /\ all \in SUBSET People
      BY <3>1
    <3> QED BY <3>2, <3>3, OpenPrepares
  <2>3. ASSUME NEW c \in Conversations, NEW u \in People, NEW messages \in SUBSET Messages \ {{}},
               MarkMessagesRead(s, c, u, messages)
        PROVE  \E w, objects : ChatOpens(s, w, objects)
    BY <2>3, MarkMessagesReadPrepares
  <2>4. ASSUME NEW c \in Conversations, NEW u \in People, UploadChatFile(s, c, u) \/ DeleteConversation(s, c, u)
        PROVE  \E w, objects : ChatOpens(s, w, objects)
    BY <2>4, UploadChatPrepares, DeleteConversationPrepares
  <2>5. ASSUME NEW c \in Conversations, NEW u \in People, NEW m \in Messages, SendMessage(s, m, c, u)
        PROVE  \E w, objects : ChatOpens(s, w, objects)
    BY <2>5, SendMessagePrepares
  <2>6. ASSUME NEW m \in Messages, NEW u \in People, NEW emoji \in {"up", "down"}, React(s, m, u, emoji)
        PROVE  \E w, objects : ChatOpens(s, w, objects)
    BY <2>6, ReactPrepares
  <2> QED BY <2>1, <2>2, <2>3, <2>4, <2>5, <2>6, Zenon DEF ChatStep
<1>2. Shape' /\ UNCHANGED <<area, db, serial>> /\ tx' = [q \in Sessions |-> IF q = s THEN w ELSE tx[q]]
  BY <1>1, BeginShape DEF ChatOpens, Opens
<1>3. TableStays("conversation", Conversations, Conversation)
  BY <1>1, TableBegin DEF ChatInv, ChatTyped, ChatFits, ChatOpens, Opens
<1>4. TableStays("message", Messages, Message)
  BY <1>1, TableBegin DEF ChatInv, ChatTyped, ChatFits, ChatOpens, Opens
<1>5. TableStays("read", Messages \X People, ReadRow)
  BY <1>1, TableBegin DEF ChatInv, ChatTyped, ChatFits, ChatOpens, Opens
<1>6. TableStays("reaction", Messages \X People, Reaction)
  BY <1>1, TableBegin DEF ChatInv, ChatTyped, ChatFits, ChatOpens, Opens
<1>7. OnlyInv({})'
  BY <1>1, OnlyBegin DEF ChatInv, ChatOpens, Opens
<1>8. ASSUME NEW q \in Sessions PROVE ChatWork(tx[q])'
  <2>1. PICK v : v = IF q = s THEN w ELSE tx[q]
    OBVIOUS
  <2>2. tx[q]' = v /\ ChatWork(v)
    BY <1>1, <1>2, <2>1 DEF ChatOpens, ChatInv
  <2> QED BY <2>2 DEF ChatWork, Rows
<1>9. DOMAIN db' = ChatTables \cup {"notice"}
  BY <1>2 DEF ChatInv
<1>10. ChatTyped'
  BY <1>3, <1>4, <1>5, <1>6 DEF TableStays, TableInv, Fits, ChatTyped
<1> QED BY <1>2, <1>7, <1>8, <1>9, <1>10 DEF ChatInv

(* The end of a request preserves the invariant of chat.                   *)
LEMMA ChatEnd ==
  ASSUME Shape, ChatInv, NEW s \in Sessions, EndOfRequest(s)
  PROVE  ChatInv' /\ ChatLast
<1>1. /\ DOMAIN db' = DOMAIN db /\ "conversation" \in DOMAIN db /\ "message" \in DOMAIN db
      /\ "read" \in DOMAIN db /\ "reaction" \in DOMAIN db
  BY OnlyCommits DEF ChatInv, ChatTables
<1>2. TableStays("conversation", Conversations, Conversation)
  BY <1>1, TableEnd DEF ChatInv, ChatTyped
<1>3. TableStays("message", Messages, Message)
  BY <1>1, TableEnd DEF ChatInv, ChatTyped
<1>4. TableStays("read", Messages \X People, ReadRow)
  BY <1>1, TableEnd DEF ChatInv, ChatTyped
<1>5. TableStays("reaction", Messages \X People, Reaction)
  BY <1>1, TableEnd DEF ChatInv, ChatTyped
<1>6. OnlyInv({})'
  BY OnlyEnd DEF ChatInv
<1>7. \A q \in Sessions : ChatWork(tx[q])'
  <2>1. ASSUME NEW q \in Sessions PROVE ChatWork(tx[q])'
    <3>1. PICK v : v = tx'[q]
      OBVIOUS
    <3>2. v = tx[q] \/ (v.put = None /\ v.update = None /\ v.drop = None)
      BY <3>1, WorksAtEnd
    <3>3. ChatWork(v)
      BY <3>2, NoRows DEF ChatWork, ChatInv
    <3> QED BY <3>1, <3>3 DEF ChatWork, Rows
  <2> QED BY <2>1
<1>8. ChatTyped'
  BY <1>2, <1>3, <1>4, <1>5 DEF TableStays, TableInv, Fits, ChatTyped
<1>9. DOMAIN db' = ChatTables \cup {"notice"}
  BY <1>1 DEF ChatInv
<1>10. ChatLast
  <2>1. CASE Commit(s)
    <3>1. PICK w : w = tx[s]
      OBVIOUS
    <3>2. ChatWork(w) /\ ~Refused(w) /\ db'["message"] = Flushed(w, "message") /\ db'["read"] = Flushed(w, "read")
      BY <1>1, <2>1, <3>1, CommitShape DEF ChatInv
    <3>3. \A k : <<"message", k>> \notin Dropped(w) /\ <<"read", k>> \notin Dropped(w)
      BY <3>2, ChatDrops
    <3>4. Keys("message") \subseteq DOMAIN Flushed(w, "message") /\ Keys("read") \subseteq DOMAIN Flushed(w, "read")
      BY <3>3, FlushedDomain
    <3> QED BY <3>2, <3>4 DEF ChatLast, Keys
  <2>2. CASE ~Commit(s)
    <3>1. db'["message"] = db["message"] /\ db'["read"] = db["read"]
      BY <1>1, <2>2, OnlyCommits
    <3> QED BY <3>1 DEF ChatLast, Keys
  <2> QED BY <2>1, <2>2
<1> QED BY <1>6, <1>7, <1>8, <1>9, <1>10 DEF ChatInv

Framed == area' = area /\ DOMAIN db' = DOMAIN db

(* The first step of a handler changes no row.                             *)
LEMMA BeginFrame == ASSUME NEW s, NEW w, NEW objects, BeginWith(s, w, objects) PROVE Framed
BY DEF BeginWith, Framed

(* The handlers of attendance leave the area and its tables.               *)
LEMMA AttendanceFrame == ASSUME NEW s, AttendanceStep(s) PROVE Framed
BY BeginFrame, Zenon DEF AttendanceStep, Replace, MarkAttendance, Begin, BeginStoring

(* The handlers of structure leave the area and its tables.                *)
LEMMA StructureFrame == ASSUME NEW s, StructureStep(s) PROVE Framed
<1>1. \A c, y, level : CreateStandard(s, c, y, level) \/ UpdateStandard(s, c, y, level) \/ CreateSection(s, c, y, level) => Framed
  BY BeginFrame, Zenon DEF CreateStandard, UpdateStandard, CreateSection, Begin, BeginStoring
<1>2. \A k, of : \/ CreateSubject(s, k, of) \/ UpdateSubject(s, k, of) \/ UpdateSection(s, k, of) \/ DeleteRow(s, of, k)
                 \/ DeleteStandard(s, k)
                 => Framed
  BY BeginFrame, Zenon DEF CreateSubject, UpdateSubject, UpdateSection, DeleteRow, DeleteStandard, Begin, BeginStoring
<1>3. \A from, to, what, id : CopyStructure(s, from, to, what, id) => Framed
  <2> SUFFICES ASSUME NEW from, NEW to, NEW what, NEW id, CopyStructure(s, from, to, what, id) PROVE \E w : Begin(s, w)
    BY BeginFrame, Zenon DEF Begin, BeginStoring
  <2> QED BY ZenonT(60) DEF CopyStructure, CopyInto
<1> QED BY <1>1, <1>2, <1>3, Zenon DEF StructureStep

(* The handlers of teaching leave the area and its tables.                 *)
LEMMA TeachingFrame == ASSUME NEW s, TeachingStep(s) \/ TimetableStep(s) PROVE Framed
BY BeginFrame, Zenon DEF TeachingStep, Assign, Reassign, Unassign, TimetableStep, UploadTimetable, DeleteTimetable, Begin, BeginStoring

(* The handlers of announcements leave the area and its tables.            *)
LEMMA AnnouncementsFrame == ASSUME NEW s, AnnouncementsStep(s) PROVE Framed
BY BeginFrame, Zenon DEF AnnouncementsStep, CreateAnnouncement, UpdateAnnouncement, DeleteAnnouncement, Begin, BeginStoring, Announce, Framed

(* The handlers of inbox leave the area and its tables.                    *)
LEMMA InboxFrame == ASSUME NEW s, InboxStep(s) PROVE Framed
BY BeginFrame, Zenon DEF InboxStep, MarkRead, ClearRead, ChangeInbox, Move, Begin, BeginStoring, Framed

(* The handlers of auth leave the area and its tables.                     *)
LEMMA AuthFrame == ASSUME NEW s, AuthStep(s) PROVE Framed
BY BeginFrame, Zenon DEF AuthStep, Login, RefreshToken, Logout, ForgotPassword, VerifyOtp, ResetPassword, SetActive, CleanUp, Begin, BeginStoring, Framed

(* The handlers of students leave the area and its tables.                 *)
LEMMA StudentsFrame == ASSUME NEW s, StudentsStep(s) \/ PromotionStep(s) PROVE Framed
<1>1. \A p, form, section : CreateStudent(s, p, form, section) \/ UpdateStudent(s, p, form) \/ OpenRoom(s, form, section) => Framed
  BY BeginFrame, Zenon DEF CreateStudent, UpdateStudent, OpenRoom, Begin, BeginStoring
<1>2. \A at, status : UpdatePromotion(s, at, status) => Framed
  <2> SUFFICES ASSUME NEW at, NEW status, UpdatePromotion(s, at, status) PROVE \E w : Begin(s, w)
    BY BeginFrame, Zenon DEF Begin, BeginStoring
  <2> QED BY ZenonT(60) DEF UpdatePromotion
<1> QED BY <1>1, <1>2, Zenon DEF StudentsStep, PromotionStep

SeatRow == [class : Classes, section : Sections, year : Terms, parent : Guardians]
PostRow == {row \in Post : row.kind = "incident" => row.about \in Pupils}

AudienceWork(w) ==
    /\ w.drop = None
    /\ Rows(w.insert, "student") = None /\ Rows(w.put, "student") = None /\ Rows(w.update, "student") = None

AudienceInv ==
    /\ DOMAIN db = {"student", "duty", "post", "mark", "notice"}
    /\ Keys("student") = Pupils /\ \A p \in Pupils : db["student"][p] \in SeatRow
    /\ TableInv("post", Posts, PostRow)
    /\ \A s \in Sessions : AudienceWork(tx[s])

AudienceOpens(s, w, objects) ==
    /\ BeginWith(s, w, objects) /\ WorkShape(w) /\ w.state = "open"
    /\ AudienceWork(w) /\ Fits(w, "post", Posts, PostRow)

(* A student takes a seat: class, section and year, never another parent. *)
LEMMA SeatTaken ==
  ASSUME NEW seat \in Seats, NEW row, "parent" \in DOMAIN row, row.parent \in Guardians,
         DOMAIN row \subseteq {"class", "section", "year", "parent"}
  PROVE  seat @@ row \in SeatRow
<1>1. /\ seat \in [class : Classes, section : Sections, year : Terms]
      /\ DOMAIN seat = {"class", "section", "year"}
  BY AudienceConstants
<1>2. seat @@ row = [x \in {"class", "section", "year", "parent"} |-> IF x \in DOMAIN seat THEN seat[x] ELSE row[x]]
  BY <1>1 DEF @@
<1>3. seat @@ row = [class |-> seat.class, section |-> seat.section, year |-> seat.year, parent |-> row.parent]
  BY <1>1, <1>2
<1> QED BY <1>1, <1>3 DEF SeatRow

(* The students of the start are typed.                                    *)
LEMMA SeatedFirst == ASSUME NEW row \in Student PROVE row \in SeatRow
<1>1. PICK seat \in Seats, g \in Guardians : row = seat @@ [parent |-> g]
  BY SMT DEF Student
<1>2. PICK old : old = [parent |-> g]
  OBVIOUS
<1>3. "parent" \in DOMAIN old /\ old.parent \in Guardians
      /\ DOMAIN old \subseteq {"class", "section", "year", "parent"}
  BY <1>2
<1>4. seat @@ old \in SeatRow
  BY <1>3, SeatTaken
<1> QED BY <1>1, <1>2, <1>4, Zenon

(* A handler that inserts one post, and may leave a task to tell of it. *)
LEMMA NewPostOpens ==
  ASSUME NEW s, NEW x \in Posts, NEW row \in PostRow, NEW told, NewPost(s, x, row, told)
  PROVE  \E w, objects : AudienceOpens(s, w, objects)
<1>1. PICK one : one = x :> row
  OBVIOUS
<1>2. DOMAIN one = {x} /\ one[x] = row
  BY <1>1, OneOf
<1>3. PICK new : new = [post |-> one]
  OBVIOUS
<1>4. PICK jobs : jobs = IF told THEN {x} ELSE {}
  OBVIOUS
<1>5. PICK w : w = [Work EXCEPT !.insert = new, !.jobs = jobs]
  OBVIOUS
<1>6. BeginWith(s, w, stored \cup {})
  BY <1>1, <1>3, <1>4, <1>5 DEF NewPost, Begin, BeginStoring
<1>7. /\ w.state = "open" /\ w.insert = new /\ w.put = None /\ w.update = None /\ w.drop = None
      /\ WorkShape(w)
  BY <1>5 DEF Work, Idle, WorkShape
<1>8. /\ Rows(w.insert, "post") = one /\ Rows(w.put, "post") = None /\ Rows(w.update, "post") = None
      /\ Rows(w.insert, "student") = None /\ Rows(w.put, "student") = None /\ Rows(w.update, "student") = None
  BY <1>3, <1>7, NoRows DEF Rows
<1>9. Fits(w, "post", Posts, PostRow)
  BY <1>2, <1>8, NoRows DEF Fits
<1> QED BY <1>6, <1>7, <1>8, <1>9 DEF AudienceOpens, AudienceWork

(* What the handler of "post work" collects fits the audience.             *)
LEMMA PostWorkOpens ==
  ASSUME NEW s, NEW x \in Posts, NEW kind \in {"assignment", "homework"}, NEW d \in Duties, PostWork(s, x, kind, d)
  PROVE  \E w, objects : AudienceOpens(s, w, objects)
<1>1. PICK row : row = [kind |-> kind, class |-> d.class, year |-> d.year, about |-> d.subject]
  OBVIOUS
<1>2. d.class \in Classes /\ d.year \in Terms
  BY AudienceConstants
<1>3. row \in PostRow
  BY <1>1, <1>2 DEF PostRow, Post, PostKinds
<1> QED BY <1>1, <1>3, NewPostOpens DEF PostWork

(* What the handler of "write diary" collects fits the audience.           *)
LEMMA WriteDiaryOpens ==
  ASSUME NEW s, NEW x \in Posts, NEW d \in Duties, WriteDiary(s, x, d)
  PROVE  \E w, objects : AudienceOpens(s, w, objects)
<1>1. PICK row : row = [kind |-> "diary", class |-> d.class, year |-> d.year, about |-> d.subject]
  OBVIOUS
<1>2. d.class \in Classes /\ d.year \in Terms
  BY AudienceConstants
<1>3. row \in PostRow
  BY <1>1, <1>2 DEF PostRow, Post, PostKinds
<1> QED BY <1>1, <1>3, NewPostOpens DEF WriteDiary

(* What the handler of "publish" collects fits the audience.               *)
LEMMA PublishOpens ==
  ASSUME NEW s, NEW x \in Posts, NEW kind \in {"exam", "series"}, NEW seat \in Seats, Publish(s, x, kind, seat)
  PROVE  \E w, objects : AudienceOpens(s, w, objects)
<1>1. PICK row : row = [kind |-> kind, class |-> seat.class, year |-> seat.year, about |-> "all"]
  OBVIOUS
<1>2. seat.class \in Classes /\ seat.year \in Terms
  BY AudienceConstants
<1>3. row \in PostRow
  BY <1>1, <1>2 DEF PostRow, Post, PostKinds
<1> QED BY <1>1, <1>3, NewPostOpens DEF Publish

(* What the handler of "write log" collects fits the audience.             *)
LEMMA WriteLogOpens ==
  ASSUME AudienceInv, NEW s, NEW x \in Posts, NEW p \in Pupils, NEW year \in Terms, NEW negative,
         WriteLog(s, x, p, year, negative)
  PROVE  \E w, objects : AudienceOpens(s, w, objects)
<1>1. PICK row : row = [kind |-> "incident", class |-> db.student[p].class, year |-> year, about |-> p]
  OBVIOUS
<1>2. db.student[p].class \in Classes
  BY DEF AudienceInv, SeatRow
<1>3. row \in PostRow
  BY <1>1, <1>2 DEF PostRow, Post, PostKinds
<1> QED BY <1>1, <1>3, NewPostOpens DEF WriteLog

(* What the handler of "enter mark" collects fits the audience.            *)
LEMMA EnterMarkOpens ==
  ASSUME NEW s, NEW x, NEW p, NEW by, EnterMark(s, x, p, by)
  PROVE  \E w, objects : AudienceOpens(s, w, objects)
<1>1. PICK sets, new : /\ sets = [mark |-> Sets("mark", <<x, p>>, [by |-> by])]
                       /\ new = [mark |-> <<x, p>> :> [by |-> by]]
  OBVIOUS
<1>2. PICK w : w = IF <<x, p>> \in Keys("mark") THEN [Work EXCEPT !.update = sets] ELSE [Work EXCEPT !.insert = new]
  OBVIOUS
<1>3. BeginWith(s, w, stored \cup {})
  BY <1>1, <1>2 DEF EnterMark, Begin, BeginStoring
<1>4. /\ w.state = "open" /\ w.insert \in {None, new} /\ w.put = None /\ w.update \in {None, sets} /\ w.drop = None
      /\ WorkShape(w)
  BY <1>2 DEF Work, Idle, WorkShape
<1>5. \A t \in {"post", "student"} :
         Rows(w.insert, t) = None /\ Rows(w.put, t) = None /\ Rows(w.update, t) = None
  BY <1>1, <1>4, NoRows DEF Rows
<1>6. Fits(w, "post", Posts, PostRow)
  BY <1>5, NoRows DEF Fits
<1> QED BY <1>3, <1>4, <1>5, <1>6 DEF AudienceOpens, AudienceWork

(* The steps of others: a student moves, a teacher is assigned or not. *)
LEMMA SeatStep ==
  ASSUME Shape, AudienceInv, NEW p \in Pupils, NEW seat \in Seats, Seat(p, seat)
  PROVE  area' = area /\ Shape' /\ AudienceInv'
<1>1. /\ db' = [db EXCEPT !["student"] = [db["student"] EXCEPT ![p] = seat @@ db["student"][p]]]
      /\ UNCHANGED <<area, stored, today, tx, serial>>
  BY DEF Seat, External
<1>2. PICK row : row = seat @@ db["student"][p]
  OBVIOUS
<1>3. row \in SeatRow
  <2>1. db["student"][p] \in SeatRow
    BY DEF AudienceInv
  <2> QED BY <1>2, <2>1, SeatTaken DEF SeatRow
<1>4. /\ DOMAIN db' = DOMAIN db /\ DOMAIN db'["student"] = DOMAIN db["student"]
      /\ \A q \in DOMAIN db["student"] : db'["student"][q] = IF q = p THEN row ELSE db["student"][q]
      /\ \A t \in DOMAIN db : t # "student" => db'[t] = db[t]
  BY <1>1, <1>2 DEF AudienceInv
<1>5. Shape'
  BY <1>1, <1>4 DEF Shape, Busy
<1>6. Keys("student")' = Pupils /\ \A q \in Pupils : db'["student"][q] \in SeatRow
  BY <1>3, <1>4 DEF AudienceInv, Keys
<1>7. TableInv("post", Posts, PostRow)'
  BY <1>1, <1>4 DEF AudienceInv, TableInv, Table, Keys, Fits
<1> QED BY <1>1, <1>4, <1>5, <1>6, <1>7 DEF AudienceInv, AudienceWork

(* A step that changes neither students nor posts, and at most ends a unit *)
(* of work, keeps the invariant of the audience.                           *)
LEMMA OtherRows ==
  ASSUME Shape, AudienceInv, UNCHANGED <<area, serial>>, DOMAIN db' = DOMAIN db,
         \A t \in {"student", "post"} : db'[t] = db[t],
         tx' = [q \in Sessions |-> tx'[q]],
         \A q \in Sessions : tx'[q] = tx[q] \/ tx'[q] = Idle
  PROVE  Shape' /\ AudienceInv'
<1>1. \A q \in Sessions : AudienceWork(tx'[q]) /\ Fits(tx'[q], "post", Posts, PostRow)
  <2>1. AudienceWork(Idle) /\ Fits(Idle, "post", Posts, PostRow)
    BY IdleIs, IdleFits, NoRows DEF AudienceWork
  <2> QED BY <2>1 DEF AudienceInv, TableInv
<1>2. \A q \in Sessions : tx'[q].state = "open" => tx[q].state = "open"
  BY IdleIs
<1>3. Shape'
  BY <1>2, IdleIs DEF Shape, Busy
<1>4. Keys("student")' = Keys("student") /\ Keys("post")' = Keys("post")
  BY DEF Keys
<1> QED BY <1>1, <1>3, <1>4 DEF AudienceInv, TableInv, Table

(* A change of the assignments of the teacher touches no student and no    *)
(* post.                                                                   *)
LEMMA ReappointStep ==
  ASSUME Shape, AudienceInv, NEW d, Reappoint(d)
  PROVE  area' = area /\ Shape' /\ AudienceInv'
<1>1. PICK duty : duty = [e \in SymDiff(Keys("duty"), {d}) |-> Present]
  OBVIOUS
<1>2. db' = [db EXCEPT !.duty = duty] /\ UNCHANGED <<area, stored, today, tx, serial>>
  BY <1>1 DEF Reappoint, External
<1>3. DOMAIN db' = DOMAIN db /\ \A t \in {"student", "post"} : db'[t] = db[t]
  BY <1>2 DEF AudienceInv
<1>4. tx' = [q \in Sessions |-> tx'[q]] /\ \A q \in Sessions : tx'[q] = tx[q]
  BY <1>2 DEF Shape
<1> QED BY <1>2, <1>3, <1>4, OtherRows

(* The task that tells of posts writes notices only.                       *)
LEMMA TellStep ==
  ASSUME Shape, AudienceInv, NEW s \in Sessions, Tell(s)
  PROVE  area' = area /\ Shape' /\ AudienceInv'
<1>1. PICK more : more = [n \in UNION {{<<"post", x, u>> : u \in ToldOf(x)} : x \in tx[s].jobs} |-> [read |-> FALSE]]
  OBVIOUS
<1>2. /\ db' = [db EXCEPT !.notice = @ @@ more] /\ tx' = [tx EXCEPT ![s] = Idle]
      /\ UNCHANGED <<area, stored, today, serial>>
  BY <1>1 DEF Tell
<1>3. DOMAIN db' = DOMAIN db /\ \A t \in {"student", "post"} : db'[t] = db[t]
  BY <1>2 DEF AudienceInv
<1>4. tx' = [q \in Sessions |-> tx'[q]] /\ \A q \in Sessions : tx'[q] = tx[q] \/ tx'[q] = Idle
  BY <1>2 DEF Shape
<1> QED BY <1>2, <1>3, <1>4, OtherRows

(* The handlers of audience preserve their invariant.                      *)
LEMMA AudienceBegin ==
  ASSUME Shape, AudienceInv, NEW s \in Sessions, AudienceStep(s)
  PROVE  area' = area /\ Shape' /\ AudienceInv'
<1>1. ASSUME NEW w, NEW objects, AudienceOpens(s, w, objects) PROVE area' = area /\ Shape' /\ AudienceInv'
  <2>1. /\ Shape' /\ tx' = [q \in Sessions |-> IF q = s THEN w ELSE tx[q]] /\ UNCHANGED <<area, db>>
    BY <1>1, BeginShape DEF AudienceOpens
  <2>2. TableStays("post", Posts, PostRow)
    BY <1>1, TableBegin DEF AudienceOpens, AudienceInv
  <2>4. TableInv("post", Posts, PostRow)'
    BY <2>2 DEF TableStays, TableInv, Fits
  <2>3. Keys("student")' = Keys("student")
    BY <2>1 DEF Keys
  <2> QED BY <1>1, <2>1, <2>4, <2>3 DEF AudienceOpens, AudienceInv
<1>2. \/ \E x \in Posts, d \in Duties :
            (\E kind \in {"assignment", "homework"} : PostWork(s, x, kind, d)) \/ WriteDiary(s, x, d)
      \/ \E x \in Posts, kind \in {"exam", "series"}, seat \in Seats : Publish(s, x, kind, seat)
      \/ \E x \in Posts, p \in Pupils :
            \/ \E year \in Terms, negative \in BOOLEAN : WriteLog(s, x, p, year, negative)
            \/ \E by \in {"teacher", "office"} : EnterMark(s, x, p, by)
      \/ \E p \in Pupils, seat \in Seats : Seat(p, seat)
      \/ \E d \in Duties : Reappoint(d)
      \/ Tell(s)
  BY Zenon DEF AudienceStep
<1>3. \/ \E w, objects : AudienceOpens(s, w, objects)
      \/ \E p \in Pupils, seat \in Seats : Seat(p, seat)
      \/ \E d \in Duties : Reappoint(d)
      \/ Tell(s)
  BY <1>2, PostWorkOpens, WriteDiaryOpens, PublishOpens, WriteLogOpens, EnterMarkOpens
<1> QED BY <1>1, <1>3, SeatStep, ReappointStep, TellStep

(* The end of a request preserves the invariant of audience.               *)
LEMMA AudienceEnd ==
  ASSUME Shape, AudienceInv, NEW s \in Sessions, EndOfRequest(s)
  PROVE  AudienceInv'
<1>1. DOMAIN db' = DOMAIN db /\ "student" \in DOMAIN db /\ "post" \in DOMAIN db
  BY OnlyCommits DEF AudienceInv
<1>2. TableInv("post", Posts, PostRow)'
  <2>1. TableStays("post", Posts, PostRow)
    BY <1>1, TableEnd DEF AudienceInv
  <2> QED BY <2>1 DEF TableStays, TableInv, Fits
<1>3. ASSUME NEW q \in Sessions PROVE AudienceWork(tx'[q])
  <2>1. \/ q # s /\ tx'[q] = tx[q]
        \/ tx'[q].insert = None /\ tx'[q].put = None /\ tx'[q].update = None /\ tx'[q].drop = None
    BY WorksAtEnd
  <2> QED BY <2>1, NoRows DEF AudienceInv, AudienceWork
<1>4. Keys("student")' = Pupils /\ \A p \in Pupils : db'["student"][p] \in SeatRow
  <2>1. CASE db'["student"] = db["student"]
    BY <2>1 DEF AudienceInv, Keys
  <2>2. CASE db'["student"] = Flushed(tx[s], "student")
    <3>1. PICK w : w = tx[s]
      OBVIOUS
    <3>2. /\ w.drop = None /\ Rows(w.put, "student") = None /\ Rows(w.insert, "student") = None
          /\ Rows(w.update, "student") = None
      BY <3>1 DEF AudienceInv, AudienceWork
    <3>3. /\ DOMAIN Flushed(w, "student") = Keys("student")
          /\ \A k \in Keys("student") : Flushed(w, "student")[k] = db["student"][k]
      BY <3>2, SameFlush
    <3> QED BY <2>2, <3>1, <3>3 DEF AudienceInv, Keys
  <2> QED BY <1>1, <2>1, <2>2, OnlyCommits
<1> QED BY <1>1, <1>2, <1>3, <1>4 DEF AudienceInv

(* What the queries find, of the rows as the invariant types them.         *)
LEMMA Family ==
  ASSUME AudienceInv, NEW u \in Users
  PROVE  /\ u \in Pupils => FamilyOf(u) = {u}
         /\ u \in Guardians => FamilyOf(u) = {p \in Pupils : db.student[p].parent = u}
         /\ u \in Pupils <=> u \notin Guardians
         /\ \A S : S \subseteq Pupils => (u \in WithParents(S) <=> FamilyOf(u) \cap S # {})
<1>1. \A p \in Pupils : db.student[p].parent \in Guardians
  BY DEF AudienceInv, SeatRow
<1>2. Pupils \cap Guardians = {}
  BY AudienceConstants
<1> QED BY <1>1, <1>2 DEF FamilyOf, WithParents, Users

(* A set of students has one element when it has some and no two.          *)
LEMMA SoleIs ==
  ASSUME NEW S, S \subseteq Pupils
  PROVE  /\ Sole(S) <=> S # {} /\ ~(Cardinality(S) > 1)
         /\ \A p : S = {p} => Sole(S) /\ ~(Cardinality(S) > 1)
<1>1. IsFiniteSet(S) /\ Cardinality(S) \in Nat
  BY AudienceConstants, FS_Subset, FS_CardinalityType
<1>2. Cardinality(S) = 0 <=> S = {}
  BY <1>1, FS_EmptySet
<1>3. \A p : S = {p} => Cardinality(S) = 1
  BY FS_Singleton
<1> QED BY <1>1, <1>2, <1>3 DEF Sole

(* A query that returns one row returned some.                             *)
LEMMA SoleSome == ASSUME NEW S, Sole(S) PROVE S # {}
BY FS_EmptySet DEF Sole

(* Of a set of students, a user answers for one only, or a parent for two. *)
LEMMA OneOfFamily ==
  ASSUME AudienceInv, NEW u \in Users, NEW S, S \subseteq Pupils
  PROVE  /\ Sole(FamilyOf(u) \cap S) <=> u \in WithParents(S) /\ ~Siblings(u, S)
         /\ u \in Pupils => (u \in S <=> u \in WithParents(S) /\ ~Siblings(u, S))
<1>1. PICK F : F = FamilyOf(u) \cap S
  OBVIOUS
<1>2. F \subseteq Pupils /\ (u \in WithParents(S) <=> F # {})
  BY <1>1, Family
<1>3. Sole(F) <=> F # {} /\ ~(Cardinality(F) > 1)
  BY <1>2, SoleIs
<1>4. u \in Pupils => (F = IF u \in S THEN {u} ELSE {}) /\ u \notin Guardians
  BY <1>1, Family
<1>5. u \in Pupils /\ F # {} => ~(Cardinality(F) > 1)
  BY <1>2, <1>4, SoleIs
<1>6. u \in Guardians => (Siblings(u, S) <=> Cardinality(F) > 1)
  BY <1>1 DEF Siblings
<1>7. u \in Pupils => ~Siblings(u, S)
  BY <1>4 DEF Siblings
<1> QED BY <1>1, <1>2, <1>3, <1>4, <1>5, <1>6, <1>7, Family

(* Whom a task tells, by the kind of the post.                             *)
LEMMA TellsWhom ==
  ASSUME NEW x
  PROVE  /\ db.post[x].kind = "assignment" => ToldOf(x) = WithParents(InYear(x))
         /\ db.post[x].kind \in {"homework", "exam", "series"} => ToldOf(x) = WithParents(InClass(x))
         /\ db.post[x].kind = "incident" => ToldOf(x) = {db.student[db.post[x].about].parent}
BY DEF ToldOf, ToldOfAssignment, ToldOfHomework, ToldOfResults, ToldOfSchedule, ToldOfIncident

(* What the invariant says of a post of a kind.                            *)
LEMMA PostIs ==
  ASSUME AudienceInv, NEW kind, NEW x \in OfKind(kind)
  PROVE  /\ db.post[x].kind = kind
         /\ db.post[x].class \in Classes /\ db.post[x].class # "open" /\ db.post[x].year \in Terms
         /\ kind = "incident" => db.post[x].about \in Pupils
         /\ InYear(x) \subseteq InClass(x) /\ InClass(x) \subseteq Pupils
<1>1. x \in Keys("post") /\ db["post"][x] \in PostRow /\ db.post[x].kind = kind
  BY DEF OfKind, AudienceInv, TableInv, Table
<1> QED BY <1>1, AudienceConstants DEF PostRow, Post, InYear, InClass

(* Assignments: told, listed, opened and handed in by the same people      *)
(* (services/assignment.py, submission.py).                                *)
LEMMA AssignmentAgrees ==
  ASSUME AudienceInv, NEW x \in OfKind("assignment"), NEW u \in Users
  PROVE  /\ u \in ToldOf(x) => ListsAssignment(u, db.post[x].class, x)
         /\ OpensAssignment(u, x) = (u \in ToldOf(x) /\ ~Siblings(u, InYear(x)))
         /\ \A p \in Pupils : MayHandIn(u, x, p) =>
               ListsAssignment(u, "open", x) /\ ListsSubmission(u, x, p)
<1>1. /\ ToldOf(x) = WithParents(InYear(x)) /\ db.post[x].class # "open"
      /\ InYear(x) \subseteq InClass(x) /\ InYear(x) \subseteq Pupils
  BY PostIs, TellsWhom
<1>2. u \in ToldOf(x) <=> FamilyOf(u) \cap InYear(x) # {}
  BY <1>1, Family
<1>3. u \in ToldOf(x) => ListsAssignment(u, db.post[x].class, x)
  <2>1. CASE u \in Pupils
    <3>1. FamilyOf(u) = {u}
      BY <2>1, Family
    <3> QED BY <1>1, <1>2, <2>1, <3>1 DEF ListsAssignment, InClass
  <2>2. CASE u \notin Pupils
    BY <1>1, <1>2, <2>2 DEF ListsAssignment
  <2> QED BY <2>1, <2>2
<1>4. OpensAssignment(u, x) = (u \in ToldOf(x) /\ ~Siblings(u, InYear(x)))
  <2>1. /\ Sole(FamilyOf(u) \cap InYear(x)) <=> u \in ToldOf(x) /\ ~Siblings(u, InYear(x))
        /\ u \in Pupils => (u \in InYear(x) <=> u \in ToldOf(x) /\ ~Siblings(u, InYear(x)))
    BY <1>1, OneOfFamily
  <2>2. OpensAssignment(u, x) = IF u \in Pupils THEN u \in InYear(x) ELSE Sole(FamilyOf(u) \cap InYear(x))
    BY DEF OpensAssignment
  <2>3. CASE u \in Pupils
    <3>1. OpensAssignment(u, x) = (u \in InYear(x))
      BY <2>2, <2>3
    <3>2. (u \in InYear(x)) = (u \in ToldOf(x) /\ ~Siblings(u, InYear(x)))
      BY <2>1, <2>3
    <3> QED BY <3>1, <3>2, Zenon
  <2>4. CASE u \notin Pupils
    <3>1. OpensAssignment(u, x) = Sole(FamilyOf(u) \cap InYear(x))
      BY <2>2, <2>4
    <3>2. Sole(FamilyOf(u) \cap InYear(x)) = (u \in ToldOf(x) /\ ~Siblings(u, InYear(x)))
      BY <2>1 DEF Sole
    <3> QED BY <3>1, <3>2, Zenon
  <2> QED BY <2>3, <2>4
<1>5. ASSUME NEW p \in Pupils, MayHandIn(u, x, p)
      PROVE  ListsAssignment(u, "open", x) /\ ListsSubmission(u, x, p)
  <2>1. /\ p \in InYear(x) /\ p \in InClass(x)
        /\ IF u \in Guardians THEN u = db.student[p].parent ELSE u = p
    BY <1>5 DEF MayHandIn, InYear, InClass
  <2>2. p \in FamilyOf(u)
    BY <2>1 DEF FamilyOf
  <2>3. u \in Pupils => u = p
    BY <2>1, Family
  <2> QED BY <2>1, <2>2, <2>3 DEF ListsAssignment, ListsSubmission
<1> QED BY <1>3, <1>4, <1>5

(* Homework: told, listed and answered by the same people                  *)
(* (services/homework.py).                                                 *)
LEMMA HomeworkAgrees ==
  ASSUME AudienceInv, NEW x \in OfKind("homework"), NEW u \in Users
  PROVE  /\ u \in ToldOf(x) => ListsHomework(u, "open", db.post[x].year, x)
         /\ \A p \in Pupils : MayRespond(u, x, p) =>
               /\ ListsResponse(u, x, p)
               /\ ListsHomework(u, db.post[x].class, db.post[x].year, x) = ~Siblings(u, InClass(x))
<1>1. /\ ToldOf(x) = WithParents(InClass(x)) /\ db.post[x].class # "open"
      /\ InClass(x) \subseteq Pupils /\ db.post[x].year \in Terms /\ db.post[x].year # "open"
  BY PostIs, TellsWhom DEF Terms
<1>2. u \in ToldOf(x) <=> FamilyOf(u) \cap InClass(x) # {}
  BY <1>1, Family
<1>3. u \in ToldOf(x) => ListsHomework(u, "open", db.post[x].year, x)
  BY <1>1, <1>2 DEF ListsHomework
<1>4. ASSUME NEW p \in Pupils, MayRespond(u, x, p)
      PROVE  /\ ListsResponse(u, x, p)
             /\ ListsHomework(u, db.post[x].class, db.post[x].year, x) = ~Siblings(u, InClass(x))
  <2>1. p \in InClass(x) /\ IF u \in Guardians THEN u = db.student[p].parent ELSE u = p
    BY <1>4 DEF MayRespond, InClass
  <2>2. p \in FamilyOf(u) \cap InClass(x)
    BY <2>1 DEF FamilyOf
  <2>3. Sole(FamilyOf(u) \cap InClass(x)) <=> ~Siblings(u, InClass(x))
    BY <1>1, <1>2, <2>2, OneOfFamily
  <2>4. u \notin Guardians => ~Siblings(u, InClass(x))
    BY DEF Siblings
  <2>5. ListsHomework(u, db.post[x].class, db.post[x].year, x)
           <=> (u \in Guardians => Sole(FamilyOf(u) \cap InClass(x)))
    BY <1>1, <2>2, Zenon DEF ListsHomework
  <2>6. ListsHomework(u, db.post[x].class, db.post[x].year, x) <=> ~Siblings(u, InClass(x))
    BY <2>3, <2>4, <2>5
  <2>7. ListsResponse(u, x, p)
    BY <2>1, Family DEF ListsResponse
  <2> QED BY <2>6, <2>7, Zenon DEF ListsHomework, Siblings
<1> QED BY <1>3, <1>4

(* The diary is listed like homework (services/diary.py).                  *)
LEMMA DiaryAgrees ==
  ASSUME AudienceInv, NEW x \in OfKind("diary"), NEW u \in Users, NEW year \in Terms \cup {"open"},
         NEW class \in {"open", db.post[x].class}
  PROVE  ListsDiary(u, class, year, x) = ListsHomework(u, class, year, x)
<1>1. db.post[x].class # "open" /\ InClass(x) \subseteq Pupils
  BY PostIs
<1>2. FamilyOf(u) \subseteq Pupils /\ (u \in Pupils => FamilyOf(u) = {u}) /\ (u \in Pupils <=> u \notin Guardians)
  BY Family DEF FamilyOf
<1>3. PICK classes : classes = {db.student[p].class : p \in FamilyOf(u)}
  OBVIOUS
<1>4. PICK namesakes : namesakes = {p \in FamilyOf(u) : db.student[p].class = class}
  OBVIOUS
<1>5. PICK due : due = (db.post[x].year = (IF year = "open" THEN "now" ELSE year))
  OBVIOUS
<1>6. ListsDiary(u, class, year, x) <=>
         /\ class # "open" => IF u \in Pupils THEN class \in classes ELSE Sole(namesakes)
         /\ db.post[x].class \in (IF class = "open" THEN classes ELSE {class})
         /\ due
  BY <1>3, <1>4, <1>5 DEF ListsDiary
<1>7. ListsHomework(u, class, year, x) <=>
         /\ due /\ FamilyOf(u) \cap InClass(x) # {}
         /\ class # "open" => class = db.post[x].class
                             /\ (u \in Guardians => Sole(FamilyOf(u) \cap InClass(x)))
  BY <1>5 DEF ListsHomework
<1>8. FamilyOf(u) \cap InClass(x) # {} <=> db.post[x].class \in classes
  BY <1>2, <1>3 DEF InClass
<1>9. class # "open" => namesakes = FamilyOf(u) \cap InClass(x) /\ class = db.post[x].class
  BY <1>2, <1>4 DEF InClass
<1>10. Sole(namesakes) => namesakes # {}
  BY SoleSome
<1>11. ListsDiary(u, class, year, x) <=> ListsHomework(u, class, year, x)
  BY <1>1, <1>2, <1>6, <1>7, <1>8, <1>9, <1>10
<1>12. /\ ListsDiary(u, class, year, x) \in BOOLEAN
       /\ ListsHomework(u, class, year, x) \in BOOLEAN
  BY DEF ListsDiary, ListsHomework
<1> QED BY <1>11, <1>12

(* Exam schedules: told, listed and opened by the same people              *)
(* (services/exam_schedule.py).                                            *)
LEMMA SeriesAgrees ==
  ASSUME AudienceInv, NEW x \in OfKind("series"), NEW u \in Users
  PROVE  /\ (u \in ToldOf(x)) = OpensSeries(u, x)
         /\ ListsSeries(u, x) = (OpensSeries(u, x) /\ ~Siblings(u, InClass(x)))
<1>1. ToldOf(x) = WithParents(InClass(x)) /\ InClass(x) \subseteq Pupils
  BY PostIs, TellsWhom
<1>2. u \in WithParents(InClass(x)) <=> FamilyOf(u) \cap InClass(x) # {}
  BY <1>1, Family
<1>3. /\ Sole(FamilyOf(u) \cap InClass(x)) <=> u \in WithParents(InClass(x)) /\ ~Siblings(u, InClass(x))
      /\ u \in Pupils => (u \in InClass(x) <=> u \in WithParents(InClass(x)) /\ ~Siblings(u, InClass(x)))
  BY <1>1, OneOfFamily
<1>4. (u \in ToldOf(x)) = OpensSeries(u, x)
  BY <1>1, <1>2 DEF OpensSeries
<1>5. OpensSeries(u, x) <=> u \in WithParents(InClass(x))
  BY <1>2 DEF OpensSeries
<1>6. CASE u \in Pupils
  <2>1. ListsSeries(u, x) = (u \in InClass(x))
    BY <1>6 DEF ListsSeries
  <2>2. (u \in InClass(x)) = (OpensSeries(u, x) /\ ~Siblings(u, InClass(x)))
    BY <1>3, <1>5, <1>6
  <2> QED BY <1>4, <2>1, <2>2, Zenon
<1>7. CASE u \notin Pupils
  <2>1. ListsSeries(u, x) = Sole(FamilyOf(u) \cap InClass(x))
    BY <1>7 DEF ListsSeries
  <2>2. Sole(FamilyOf(u) \cap InClass(x)) = (OpensSeries(u, x) /\ ~Siblings(u, InClass(x)))
    BY <1>3, <1>5 DEF Sole
  <2> QED BY <1>4, <2>1, <2>2, Zenon
<1> QED BY <1>6, <1>7

(* A teacher who may open the results of a student finds the exam in the   *)
(* list (services/result.py).                                              *)
LEMMA ExamAgrees ==
  ASSUME AudienceInv, NEW x \in OfKind("exam"), NEW p \in Pupils, TeacherOpensResults(x, p)
  PROVE  p \in ToldOf(x) /\ \A year \in {"open", db.post[x].year} : TeacherListsExam(x, year)
<1>1. ToldOf(x) = WithParents(InClass(x)) /\ p \in InClass(x)
  BY PostIs, TellsWhom DEF TeacherOpensResults
<1>2. DutiesFor(p, db.post[x].year) # {} \/ Entered(x, p)
  BY DEF TeacherOpensResults
<1>3. ASSUME NEW d \in DutiesFor(p, db.post[x].year)
      PROVE  d \in Keys("duty") /\ d.class = db.post[x].class /\ d.year = db.post[x].year
  BY <1>1 DEF DutiesFor, InClass
<1> QED BY <1>1, <1>2, <1>3 DEF WithParents, TeacherListsExam

(* The parent who is told of an incident finds it, and the teacher who     *)
(* lists                                                                   *)
(* the incidents of a student sees the attendance (services/behaviour.py). *)
LEMMA IncidentAgrees ==
  ASSUME AudienceInv, NEW x \in OfKind("incident")
  PROVE  /\ \A u \in ToldOf(x) : ListsLog(u, db.post[x].about, x)
         /\ \A p \in Pupils : TeacherListsLogOf(p, x) =>
               TeacherListsLog(x) /\ (db.student[p].year = "now" => SeesAttendance(p))
<1>1. ToldOf(x) = {db.student[db.post[x].about].parent} /\ db.post[x].about \in Pupils
  BY PostIs, TellsWhom
<1>2. ASSUME NEW p \in Pupils, TeacherListsLogOf(p, x)
      PROVE  TeacherListsLog(x) /\ (db.student[p].year = "now" => SeesAttendance(p))
  <2>1. TeacherListsLog(x) /\ DutiesFor(p, "now") # {}
    BY <1>2, SoleSome DEF TeacherListsLogOf
  <2> QED BY <2>1 DEF SeesAttendance
<1> QED BY <1>1, <1>2 DEF ListsLog, FamilyOf

(* Whom the teacher may gather in a group is whom the list of people to    *)
(* chat                                                                    *)
(* with shows (services/chat.py).                                          *)
LEMMA ChatAgrees ==
  ASSUME AudienceInv, NEW year
  PROVE  Chatable("student", year) \cup Chatable("parent", year) = GroupOf(year)
<1>1. PICK pairs : pairs = {<<d.class, d.section>> : d \in {d \in Keys("duty") : d.year = year}}
  OBVIOUS
<1>2. PICK found : found = {p \in Pupils : /\ db.student[p].year = year
                                          /\ <<db.student[p].class, db.student[p].section>> \in pairs}
  OBVIOUS
<1>3. ASSUME NEW p \in Pupils
      PROVE  <<db.student[p].class, db.student[p].section>> \in pairs <=> DutiesFor(p, year) # {}
  BY <1>1 DEF DutiesFor
<1>4. found = TaughtIn(year)
  BY <1>2, <1>3 DEF TaughtIn
<1>5. Chatable("student", year) = found /\ Chatable("parent", year) = {db.student[p].parent : p \in found}
  BY <1>1, <1>2 DEF Chatable
<1> QED BY <1>4, <1>5 DEF GroupOf, WithParents

(* The students of attendance are those of chat groups.                    *)
LEMMA TaughtAgrees ==
  ASSUME AudienceInv, NEW p \in Pupils
  PROVE  /\ SeesAttendance(p) = (p \in GroupOf(db.student[p].year))
         /\ Sole(DutiesFor(p, db.student[p].year)) => SeesAttendance(p)
<1>1. \A q \in Pupils : db.student[q].parent # p
  BY AudienceConstants DEF AudienceInv, SeatRow
<1>2. TaughtIn(db.student[p].year) \subseteq Pupils
  BY DEF TaughtIn
<1>3. p \in GroupOf(db.student[p].year) <=> p \in TaughtIn(db.student[p].year)
  BY <1>1, <1>2 DEF GroupOf, WithParents
<1> QED BY <1>3, SoleSome DEF SeesAttendance, TaughtIn

(* The invariant of the audience implies that the rules agree.             *)
LEMMA AudienceFollows == AudienceInv => AudienceAgrees
<1> SUFFICES ASSUME AudienceInv PROVE AudienceAgrees
  OBVIOUS
<1>1. \A year \in Terms : Chatable("student", year) \cup Chatable("parent", year) = GroupOf(year)
  BY ChatAgrees
<1>2. \A x \in OfKind("diary"), u \in Users, year \in Terms \cup {"open"} :
         \A class \in {"open", db.post[x].class} : ListsDiary(u, class, year, x) = ListsHomework(u, class, year, x)
  BY DiaryAgrees
<1>3. /\ \A x \in OfKind("assignment"), u \in Users :
            /\ u \in ToldOf(x) => ListsAssignment(u, db.post[x].class, x)
            /\ OpensAssignment(u, x) = (u \in ToldOf(x) /\ ~Siblings(u, InYear(x)))
            /\ \A p \in Pupils : MayHandIn(u, x, p) =>
                  ListsAssignment(u, "open", x) /\ ListsSubmission(u, x, p)
      /\ \A x \in OfKind("homework"), u \in Users :
            /\ u \in ToldOf(x) => ListsHomework(u, "open", db.post[x].year, x)
            /\ \A p \in Pupils : MayRespond(u, x, p) =>
                  /\ ListsResponse(u, x, p)
                  /\ ListsHomework(u, db.post[x].class, db.post[x].year, x) = ~Siblings(u, InClass(x))
  BY AssignmentAgrees, HomeworkAgrees
<1>4. /\ \A x \in OfKind("series"), u \in Users :
            /\ (u \in ToldOf(x)) = OpensSeries(u, x)
            /\ ListsSeries(u, x) = (OpensSeries(u, x) /\ ~Siblings(u, InClass(x)))
      /\ \A x \in OfKind("exam"), p \in Pupils : TeacherOpensResults(x, p) =>
            p \in ToldOf(x) /\ \A year \in {"open", db.post[x].year} : TeacherListsExam(x, year)
      /\ \A x \in OfKind("incident") :
            /\ \A u \in ToldOf(x) : ListsLog(u, db.post[x].about, x)
            /\ \A p \in Pupils : TeacherListsLogOf(p, x) =>
                  TeacherListsLog(x) /\ (db.student[p].year = "now" => SeesAttendance(p))
      /\ \A p \in Pupils :
            /\ SeesAttendance(p) = (p \in GroupOf(db.student[p].year))
            /\ Sole(DutiesFor(p, db.student[p].year)) => SeesAttendance(p)
  BY SeriesAgrees, ExamAgrees, IncidentAgrees, TaughtAgrees
<1> QED BY <1>1, <1>2, <1>3, <1>4, Zenon DEF AudienceAgrees

(* What holds at the start of an area. *)
LEMMA StartIs ==
  ASSUME NEW name, NEW tables, "notice" \notin DOMAIN tables, Starts(name, tables)
  PROVE  /\ Shape /\ area = name /\ DOMAIN db = DOMAIN tables \cup {"notice"}
         /\ \A t \in DOMAIN tables : db[t] = tables[t]
         /\ db["notice"] = None /\ stored = {}
         /\ \A s \in Sessions : tx[s] = Idle
<1>1. /\ area = name /\ db = [t \in DOMAIN tables \cup {"notice"} |-> IF t = "notice" THEN None ELSE tables[t]]
      /\ tx = [s \in Sessions |-> Idle] /\ stored = {} /\ serial \in BOOLEAN
  BY DEF Starts
<1>2. \A s \in Sessions : tx[s] = Idle
  BY <1>1
<1>3. \A s \in Sessions : ~Busy(s)
  BY <1>2, IdleIs DEF Busy
<1>4. tx = [s \in Sessions |-> tx[s]]
  BY <1>1
<1> QED BY <1>1, <1>2, <1>3, <1>4, IdleIs DEF Shape

(* A table that is empty while no writes are collected. *)
LEMMA EmptyTable ==
  ASSUME NEW t, db[t] = None, \A s \in Sessions : tx[s] = Idle, NEW K, NEW R
  PROVE  TableInv(t, K, R) /\ FileInv(t)
<1>1. Keys(t) = {}
  BY NoRows DEF Keys
<1>2. \A s \in Sessions : Fits(tx[s], t, K, R) /\ FileFits(tx[s], t, stored)
  BY IdleIs, IdleFits, IdleFile
<1> QED BY <1>1, <1>2 DEF TableInv, Table, FileInv

(* No notice is about anything while there is none.                        *)
LEMMA EmptyHeads ==
  ASSUME db["notice"] = None, \A s \in Sessions : tx[s] = Idle, NEW heads, NEW head, NEW t
  PROVE  OnlyInv(heads) /\ HeadInv(head, t)
<1>1. Keys("notice") = {}
  BY NoRows DEF Keys
<1>2. Rows(Idle.insert, "notice") = None /\ Rows(Idle.put, "notice") = None /\ Idle.tell = {} /\ Idle.drop = None
  BY IdleIs, NoRows
<1>3. OnlyFits(Idle, heads) /\ HeadFits(Idle, head, t)
  BY <1>2, NoRows DEF OnlyFits, HeadFits
<1> QED BY <1>1, <1>3 DEF OnlyInv, HeadInv

(* The area of assignments starts in its invariant.                        *)
LEMMA AssignmentsStart ==
  ASSUME Starts("assignments", [assignment |-> None, submission |-> None])
  PROVE  Shape /\ AssignmentsInv /\ area = "assignments"
<1>1. PICK tables : tables = [assignment |-> None, submission |-> None]
  OBVIOUS
<1>2. DOMAIN tables = {"assignment", "submission"} /\ tables["assignment"] = None /\ tables["submission"] = None
  BY <1>1
<1>3. /\ Shape /\ area = "assignments" /\ DOMAIN db = {"assignment", "submission", "notice"}
      /\ db["assignment"] = None /\ db["submission"] = None /\ db["notice"] = None
      /\ \A s \in Sessions : tx[s] = Idle
  BY <1>1, <1>2, StartIs
<1>4. /\ TableInv("assignment", Assignments, Assignment) /\ TableInv("submission", Submissions, Submission)
      /\ FileInv("assignment") /\ FileInv("submission")
  BY <1>3, EmptyTable
<1>5. AssignmentWork(Idle)
  <2>1. /\ Idle.drop = None /\ Idle.put = None /\ Rows(Idle.update, "submission") = None
        /\ Rows(Idle.insert, "submission") = None
        /\ Rows(Idle.insert, "notice") = None /\ Rows(Idle.put, "notice") = None
        /\ Idle.tell = {} /\ Idle.state = "idle"
    BY IdleIs, NoRows
  <2>2. Fits(Idle, "assignment", Assignments, Assignment) /\ Fits(Idle, "submission", Submissions, Submission)
    BY IdleIs, IdleFits
  <2> QED BY <2>1, <2>2, NoRows DEF AssignmentWork, NoticeFits
<1>6. Keys("notice") = {} /\ Keys("submission") = {}
  BY <1>3, NoRows DEF Keys
<1> QED BY <1>3, <1>4, <1>5, <1>6 DEF AssignmentsInv, TableInv

(* The area of homework starts in its invariant.                           *)
LEMMA HomeworkStart ==
  ASSUME Starts("homework", [homework |-> None, response |-> None])
  PROVE  Shape /\ HomeworkInv /\ area = "homework"
<1>1. PICK tables : tables = [homework |-> None, response |-> None]
  OBVIOUS
<1>2. DOMAIN tables = {"homework", "response"} /\ tables["homework"] = None /\ tables["response"] = None
  BY <1>1
<1>3. /\ Shape /\ area = "homework" /\ DOMAIN db = {"homework", "response", "notice"}
      /\ db["homework"] = None /\ db["response"] = None /\ db["notice"] = None
      /\ \A s \in Sessions : tx[s] = Idle
  BY <1>1, <1>2, StartIs
<1> QED BY <1>3, EmptyTable, EmptyHeads DEF HomeworkInv

(* The area of documents starts in its invariant.                          *)
LEMMA DocumentsStart ==
  ASSUME Starts("documents", [document |-> None, setting |-> None])
  PROVE  Shape /\ DocumentsInv /\ area = "documents"
<1>1. PICK tables : tables = [document |-> None, setting |-> None]
  OBVIOUS
<1>2. DOMAIN tables = {"document", "setting"} /\ tables["document"] = None /\ tables["setting"] = None
  BY <1>1
<1>3. /\ Shape /\ area = "documents" /\ DOMAIN db = {"document", "setting", "notice"}
      /\ db["document"] = None /\ db["setting"] = None /\ db["notice"] = None
      /\ \A s \in Sessions : tx[s] = Idle
  BY <1>1, <1>2, StartIs
<1>4. Keys("notice") = {} /\ Keys("document") = {} /\ Keys("setting") = {}
  BY <1>3, NoRows DEF Keys
<1>5. DocumentWork(Idle)
  BY IdleIs, NoRows, NoSettings DEF DocumentWork, SettingFits
<1>6. Setting("required") = {}
  BY <1>4 DEF Setting
<1> QED BY <1>3, <1>4, <1>5, <1>6, EmptyTable, EmptyHeads DEF DocumentsInv, SettingsTyped, DocumentsGood

(* The area of exams starts in its invariant.                              *)
LEMMA ExamsStart ==
  ASSUME Starts("exams", [exam |-> None, result |-> None, card |-> None])
  PROVE  Shape /\ ExamsInv /\ area = "exams"
<1>1. PICK tables : tables = [exam |-> None, result |-> None, card |-> None]
  OBVIOUS
<1>2. DOMAIN tables = {"exam", "result", "card"} /\ tables["exam"] = None /\ tables["result"] = None /\ tables["card"] = None
  BY <1>1
<1>3. /\ Shape /\ area = "exams" /\ DOMAIN db = {"exam", "result", "card", "notice"}
      /\ db["exam"] = None /\ db["result"] = None /\ db["card"] = None /\ db["notice"] = None
      /\ \A s \in Sessions : tx[s] = Idle
  BY <1>1, <1>2, StartIs
<1>4. Keys("result") = {} /\ Keys("card") = {}
  BY <1>3, NoRows DEF Keys
<1>5. ExamWork(Idle) /\ CardFits(Idle, stored)
  BY IdleIs, NoRows DEF ExamWork, CardFits
<1> QED BY <1>3, <1>4, <1>5, EmptyTable, EmptyHeads DEF ExamsInv

(* The area of years starts in its invariant.                              *)
LEMMA YearsStart ==
  ASSUME Starts("years", [year |-> None])
  PROVE  Shape /\ YearsInv /\ area = "years"
<1>1. PICK tables : tables = [year |-> None]
  OBVIOUS
<1>2. DOMAIN tables = {"year"} /\ tables["year"] = None
  BY <1>1
<1>3. /\ Shape /\ area = "years" /\ DOMAIN db = {"year", "notice"} /\ db["year"] = None /\ db["notice"] = None
      /\ \A s \in Sessions : tx[s] = Idle
  BY <1>1, <1>2, StartIs
<1> QED BY <1>3, EmptyTable, EmptyHeads, NoRows DEF YearsInv, OneActive

(* The area of grades starts in its invariant.                             *)
LEMMA GradesStart ==
  ASSUME Starts("grades", [grade |-> None])
  PROVE  Shape /\ GradesInv /\ area = "grades"
<1>1. PICK tables : tables = [grade |-> None]
  OBVIOUS
<1>2. DOMAIN tables = {"grade"} /\ tables["grade"] = None
  BY <1>1
<1>3. /\ Shape /\ area = "grades" /\ DOMAIN db = {"grade", "notice"} /\ db["grade"] = None /\ db["notice"] = None
      /\ \A s \in Sessions : tx[s] = Idle
  BY <1>1, <1>2, StartIs
<1>4. \A s \in Sessions : ~Busy(s)
  BY <1>3, IdleIs DEF Busy
<1> QED BY <1>3, <1>4, EmptyTable, EmptyHeads, NoRows DEF GradesInv, InOrder

(* The area of gallery starts in its invariant.                            *)
LEMMA GalleryStart ==
  ASSUME Starts("gallery", [album |-> None, photo |-> None])
  PROVE  Shape /\ GalleryInv /\ area = "gallery"
<1>1. PICK tables : tables = [album |-> None, photo |-> None]
  OBVIOUS
<1>2. DOMAIN tables = {"album", "photo"} /\ tables["album"] = None /\ tables["photo"] = None
  BY <1>1
<1>3. /\ Shape /\ area = "gallery" /\ DOMAIN db = {"album", "photo", "notice"}
      /\ db["album"] = None /\ db["photo"] = None /\ db["notice"] = None
      /\ \A s \in Sessions : tx[s] = Idle
  BY <1>1, <1>2, StartIs
<1>4. (\A s \in Sessions : ~Busy(s)) /\ GalleryWork(Idle)
  BY <1>3, IdleIs, NoRows DEF Busy, GalleryWork
<1>5. Owned(None, None) /\ Covered(None, None)
  BY NoRows DEF Owned, Covered
<1> QED BY <1>3, <1>4, <1>5, EmptyTable, EmptyHeads DEF GalleryInv

(* The area of schedules starts in its invariant.                          *)
LEMMA SchedulesStart ==
  ASSUME Starts("schedules", [exam |-> [e \in ExamNames |-> Present], series |-> None, paper |-> None])
  PROVE  Shape /\ SchedulesInv /\ area = "schedules"
<1>1. PICK exams : exams = [e \in ExamNames |-> Present]
  OBVIOUS
<1>2. PICK tables : tables = [exam |-> exams, series |-> None, paper |-> None]
  OBVIOUS
<1>3. DOMAIN tables = {"exam", "series", "paper"} /\ tables["exam"] = exams /\ tables["series"] = None /\ tables["paper"] = None
  BY <1>2
<1>4. /\ Shape /\ area = "schedules" /\ DOMAIN db = {"exam", "series", "paper", "notice"}
      /\ db["exam"] = exams /\ db["series"] = None /\ db["paper"] = None /\ db["notice"] = None
      /\ \A s \in Sessions : tx[s] = Idle
  <2>1. "notice" \notin DOMAIN tables /\ Starts("schedules", tables)
    BY <1>1, <1>2, <1>3
  <2>2. /\ Shape /\ area = "schedules" /\ DOMAIN db = DOMAIN tables \cup {"notice"}
        /\ \A t \in DOMAIN tables : db[t] = tables[t]
        /\ db["notice"] = None /\ \A s \in Sessions : tx[s] = Idle
    BY <2>1, StartIs
  <2> QED BY <1>3, <2>2
<1>5. (\A s \in Sessions : ~Busy(s)) /\ ScheduleWork(Idle)
  BY <1>4, IdleIs, NoRows DEF Busy, ScheduleWork
<1>6. SeriesOnce(db["series"])
  BY <1>4, NoRows DEF SeriesOnce
<1>7. TableInv("exam", ExamNames, {Present})
  <2>1. DOMAIN exams = ExamNames /\ \A e \in ExamNames : exams[e] = Present
    BY <1>1
  <2>2. Table("exam", ExamNames, {Present})
    BY <1>4, <2>1 DEF Table, Keys
  <2>3. Fits(Idle, "exam", ExamNames, {Present})
    BY IdleIs, IdleFits
  <2> QED BY <1>4, <2>2, <2>3 DEF TableInv
<1> QED BY <1>4, <1>5, <1>6, <1>7, EmptyTable, EmptyHeads DEF SchedulesInv

(* The area of chat starts in its invariant.                               *)
LEMMA ChatStart ==
  ASSUME Starts("chat", [conversation |-> None, message |-> None, read |-> None, reaction |-> None])
  PROVE  Shape /\ ChatInv /\ area = "chat"
<1>1. PICK tables : tables = [conversation |-> None, message |-> None, read |-> None, reaction |-> None]
  OBVIOUS
<1>2. DOMAIN tables = ChatTables /\ \A t \in ChatTables : tables[t] = None
  BY <1>1 DEF ChatTables
<1>3. /\ Shape /\ area = "chat" /\ DOMAIN db = ChatTables \cup {"notice"} /\ \A t \in ChatTables : db[t] = None
      /\ db["notice"] = None /\ \A s \in Sessions : tx[s] = Idle
  <2>1. "notice" \notin DOMAIN tables
    BY <1>2 DEF ChatTables
  <2>2. Starts("chat", tables)
    BY <1>1
  <2>3. /\ Shape /\ area = "chat" /\ DOMAIN db = DOMAIN tables \cup {"notice"}
        /\ \A t \in DOMAIN tables : db[t] = tables[t]
        /\ db["notice"] = None /\ \A s \in Sessions : tx[s] = Idle
    BY <2>1, <2>2, StartIs
  <2> QED BY <1>2, <2>3
<1>4. ChatWork(Idle)
  BY IdleIs, NoRows DEF ChatWork
<1>5. ChatTyped
  BY <1>3, EmptyTable DEF ChatTyped, ChatTables
<1> QED BY <1>3, <1>4, <1>5, EmptyHeads DEF ChatInv

(* The year of a classroom at its start.                                   *)
LEMMA YearStarts ==
  ASSUME db["year"] = ThisYear, \A s \in Sessions : tx[s] = Idle
  PROVE  TableInv("year", {"y"}, Year)
<1>1. PICK year : year = ThisYear
  OBVIOUS
<1>2. DOMAIN year = {"y"} /\ year["y"] \in Year
  BY <1>1 DEF ThisYear, :>, Year
<1>3. Table("year", {"y"}, Year)
  BY <1>1, <1>2 DEF Table, Keys
<1>4. Fits(Idle, "year", {"y"}, Year)
  BY IdleIs, IdleFits
<1> QED BY <1>3, <1>4 DEF TableInv

(* The area of quiz starts in its invariant.                               *)
LEMMA QuizStart ==
  ASSUME Starts("quizzes", [quiz |-> None, question |-> None, attempt |-> None, year |-> ThisYear])
  PROVE  Shape /\ QuizInv /\ area = "quizzes"
<1>0. PICK year : year = ThisYear
  OBVIOUS
<1>1. PICK tables : tables = [quiz |-> None, question |-> None, attempt |-> None, year |-> year]
  OBVIOUS
<1>2. /\ DOMAIN tables = {"quiz", "question", "attempt", "year"} /\ tables["quiz"] = None
      /\ tables["question"] = None /\ tables["attempt"] = None /\ tables["year"] = year
  BY <1>1
<1>3. /\ Shape /\ area = "quizzes" /\ DOMAIN db = {"quiz", "question", "attempt", "year", "notice"}
      /\ db["quiz"] = None /\ db["question"] = None /\ db["attempt"] = None /\ db["year"] = ThisYear
      /\ db["notice"] = None /\ \A s \in Sessions : tx[s] = Idle
  BY <1>0, <1>1, <1>2, StartIs
<1>4. (\A s \in Sessions : ~Busy(s)) /\ QuizWork(Idle)
  BY <1>3, IdleIs, NoRows DEF Busy, QuizWork, Asks
<1>5. QuizTyped
  BY <1>3, EmptyTable, YearStarts DEF QuizTyped
<1> QED BY <1>3, <1>4, <1>5, EmptyHeads, NoneIsTable DEF QuizInv

(* The area of lessons starts in its invariant.                            *)
LEMMA LessonsStart ==
  ASSUME Starts("classroom", [chapter |-> None, topic |-> None, item |-> None, year |-> ThisYear])
  PROVE  Shape /\ LessonsInv /\ area = "classroom"
<1>0. PICK year : year = ThisYear
  OBVIOUS
<1>1. PICK tables : tables = [chapter |-> None, topic |-> None, item |-> None, year |-> year]
  OBVIOUS
<1>2. /\ DOMAIN tables = {"chapter", "topic", "item", "year"} /\ tables["chapter"] = None
      /\ tables["topic"] = None /\ tables["item"] = None /\ tables["year"] = year
  BY <1>1
<1>3. /\ Shape /\ area = "classroom" /\ DOMAIN db = {"chapter", "topic", "item", "year", "notice"}
      /\ db["chapter"] = None /\ db["topic"] = None /\ db["item"] = None /\ db["year"] = ThisYear
      /\ db["notice"] = None /\ \A s \in Sessions : tx[s] = Idle
  BY <1>0, <1>1, <1>2, StartIs
<1>4. (\A s \in Sessions : ~Busy(s)) /\ LessonsWork(Idle)
  BY <1>3, IdleIs, NoRows DEF Busy, LessonsWork
<1>5. LessonsTyped
  BY <1>3, EmptyTable, YearStarts DEF LessonsTyped
<1>6. \A t \in LessonTables : IsTable(db[t])
  BY <1>3, NoneIsTable DEF LessonTables
<1> QED BY <1>3, <1>4, <1>5, <1>6, EmptyHeads DEF LessonsInv

(* The area of audience starts in its invariant.                           *)
LEMMA AudienceStart ==
  ASSUME AudienceInit
  PROVE  Shape /\ AudienceInv /\ area = "audience"
<1>0. PICK students \in [Pupils -> Student] : \E duties :
         Starts("audience", [student |-> students, duty |-> duties, post |-> None, mark |-> None])
  BY DEF AudienceInit
<1>1. PICK duties :
         Starts("audience", [student |-> students, duty |-> duties, post |-> None, mark |-> None])
  BY <1>0
<1>2. PICK tables : tables = [student |-> students, duty |-> duties, post |-> None, mark |-> None]
  OBVIOUS
<1>3. DOMAIN tables = {"student", "duty", "post", "mark"} /\ tables["student"] = students /\ tables["post"] = None
  BY <1>2
<1>4. /\ Shape /\ area = "audience" /\ DOMAIN db = {"student", "duty", "post", "mark", "notice"}
      /\ db["student"] = students /\ db["post"] = None /\ \A s \in Sessions : tx[s] = Idle
  <2>1. "notice" \notin DOMAIN tables /\ Starts("audience", tables)
    BY <1>1, <1>2, <1>3
  <2>2. /\ Shape /\ area = "audience" /\ DOMAIN db = DOMAIN tables \cup {"notice"}
        /\ \A t \in DOMAIN tables : db[t] = tables[t]
        /\ \A s \in Sessions : tx[s] = Idle
    BY <2>1, StartIs
  <2> QED BY <1>3, <2>2
<1>5. \A p \in Pupils : students[p] \in SeatRow
  BY SeatedFirst
<1>6. AudienceWork(Idle)
  BY IdleIs, NoRows DEF AudienceWork
<1> QED BY <1>4, <1>5, <1>6, EmptyTable DEF AudienceInv, Keys

(* Nothing changes in an area while its rows, files and units of work stay. *)
Unchanged == UNCHANGED <<db, stored, tx, serial>>

(* Types, files and notices stay while nothing changes.                    *)
LEMMA GeneralSame ==
  ASSUME Unchanged
  PROVE  /\ Shape => Shape'
         /\ \A t, K, R : TableInv(t, K, R) => TableInv(t, K, R)'
         /\ \A t : FileInv(t) => FileInv(t)'
         /\ \A heads : OnlyInv(heads) => OnlyInv(heads)'
         /\ \A head, t : HeadInv(head, t) => HeadInv(head, t)'
         /\ \A t : Keys(t)' = Keys(t)
<1>1. Shape => Shape'
  BY DEF Unchanged, Shape, Busy
<1>2. \A t : Keys(t)' = Keys(t)
  BY DEF Unchanged, Keys
<1>3. ASSUME NEW t, NEW K, NEW R, TableInv(t, K, R) PROVE TableInv(t, K, R)'
  BY <1>2, <1>3 DEF Unchanged, TableInv, Table, Fits
<1>4. ASSUME NEW t, FileInv(t) PROVE FileInv(t)'
  BY <1>2, <1>4 DEF Unchanged, FileInv
<1>5. ASSUME NEW heads, OnlyInv(heads) PROVE OnlyInv(heads)'
  BY <1>2, <1>5 DEF Unchanged, OnlyInv
<1>6. ASSUME NEW head, NEW t, HeadInv(head, t) PROVE HeadInv(head, t)'
  <2>1. \A s \in Sessions : HeadFits(tx[s], head, t) => HeadFits(tx[s], head, t)'
    BY <1>2 DEF Unchanged, HeadFits
  <2> QED BY <1>2, <1>6, <2>1 DEF Unchanged, HeadInv
<1> QED BY <1>1, <1>2, <1>3, <1>4, <1>5, <1>6

(* The invariant of assignments stays while nothing changes.               *)
LEMMA AssignmentsSame == ASSUME Unchanged, AssignmentsInv PROVE AssignmentsInv'
BY AssignmentsNextDay DEF Unchanged

(* The invariant of homework stays while nothing changes.                  *)
LEMMA HomeworkSame == ASSUME Unchanged, HomeworkInv PROVE HomeworkInv'
<1>1. DOMAIN db' = DOMAIN db
  BY DEF Unchanged
<1> QED BY <1>1, GeneralSame DEF HomeworkInv

(* The invariant of documents stays while nothing changes.                 *)
LEMMA DocumentsSame == ASSUME Unchanged, DocumentsInv PROVE DocumentsInv'
<1>1. db' = db /\ serial' = serial /\ tx' = tx /\ \A t : Keys(t)' = Keys(t)
  BY GeneralSame DEF Unchanged
<1>2. \A key : Setting(key)' = Setting(key)
  BY <1>1 DEF Setting
<1>3. SettingsTyped' /\ (serial' => DocumentsGood')
  BY <1>1, <1>2 DEF DocumentsInv, SettingsTyped, DocumentsGood
<1>4. \A s \in Sessions : DocumentWork(tx[s])'
  BY <1>1, DocumentWorkStays DEF DocumentsInv
<1> QED BY <1>1, <1>3, <1>4, GeneralSame DEF DocumentsInv

(* The invariant of exams stays while nothing changes.                     *)
LEMMA ExamsSame == ASSUME Unchanged, ExamsInv PROVE ExamsInv'
<1>1. db' = db /\ serial' = serial /\ tx' = tx /\ stored' = stored /\ \A t : Keys(t)' = Keys(t)
  BY GeneralSame DEF Unchanged
<1>2. ASSUME NEW s \in Sessions PROVE ExamWork(tx[s])' /\ CardFits(tx'[s], stored')
  <2>1. CardFits(tx'[s], stored')
    BY <1>1 DEF ExamsInv
  <2>2. ExamWork(tx[s])'
    BY <1>1 DEF ExamsInv, ExamWork
  <2> QED BY <2>1, <2>2
<1>3. /\ \A k \in Keys("result")' : db'.result[k].of = <<"exam", k[1]>>
      /\ \A k \in Keys("card")' : <<"card", k>> \in stored'
      /\ serial' => \A k \in Keys("result")' : ResultGood(db'.result[k])
  BY <1>1 DEF ExamsInv
<1> QED BY <1>1, <1>2, <1>3, GeneralSame DEF ExamsInv

(* The invariant of years stays while nothing changes.                     *)
LEMMA YearsSame == ASSUME Unchanged, YearsInv PROVE YearsInv'
<1>1. db' = db
  BY DEF Unchanged
<1> QED BY <1>1, GeneralSame DEF YearsInv

(* The invariant of grades stays while nothing changes.                    *)
LEMMA GradesSame == ASSUME Unchanged, GradesInv PROVE GradesInv'
<1>1. db' = db /\ serial' = serial /\ tx' = tx
  BY DEF Unchanged
<1>2. \A w : Flushed(w, "grade")' = Flushed(w, "grade")
  BY <1>1, FlushedSame
<1>3. \A s \in Sessions : Busy(s)' => Busy(s) /\ Flushed(tx[s], "grade")' = Flushed(tx[s], "grade")
  BY <1>1, <1>2 DEF Busy
<1> QED BY <1>1, <1>3, GeneralSame DEF GradesInv

(* The invariant of gallery stays while nothing changes.                   *)
LEMMA GallerySame == ASSUME Unchanged, GalleryInv PROVE GalleryInv'
<1>1. db' = db /\ serial' = serial /\ tx' = tx
  BY DEF Unchanged
<1>2. \A w, t : Flushed(w, t)' = Flushed(w, t)
  BY <1>1, FlushedSame
<1>3. \A s \in Sessions, t \in DOMAIN db : Busy(s)' => Busy(s) /\ Flushed(tx[s], t)' = Flushed(tx[s], t)
  BY <1>1, <1>2 DEF Busy
<1> QED BY <1>1, <1>3, GeneralSame DEF GalleryInv

(* The invariant of schedules stays while nothing changes.                 *)
LEMMA SchedulesSame == ASSUME Unchanged, SchedulesInv PROVE SchedulesInv'
<1>1. db' = db /\ serial' = serial /\ tx' = tx
  BY DEF Unchanged
<1>2. \A w : Flushed(w, "series")' = Flushed(w, "series")
  BY <1>1, FlushedSame
<1>3. \A s \in Sessions : Busy(s)' => Busy(s) /\ Flushed(tx[s], "series")' = Flushed(tx[s], "series")
  BY <1>1, <1>2 DEF Busy
<1>4. serial => /\ SeriesOnce(db'["series"])
                /\ \A s \in Sessions : Busy(s)' => SeriesOnce(Flushed(tx[s], "series")')
  BY <1>1, <1>3 DEF SchedulesInv
<1>5. \A s \in Sessions : ScheduleWork(tx'[s])
  BY <1>1 DEF SchedulesInv
<1> QED BY <1>1, <1>4, <1>5, GeneralSame DEF SchedulesInv, SeriesOnce, ScheduleWork, OnlyTrue, Rows

(* The invariant of chat stays while nothing changes.                      *)
LEMMA ChatSame == ASSUME Unchanged, ChatInv PROVE ChatInv'
<1>1. db' = db /\ tx' = tx
  BY DEF Unchanged
<1>2. ChatTyped'
  BY GeneralSame DEF ChatInv, ChatTyped
<1>3. (\A s \in Sessions : ChatWork(tx[s]))'
  BY <1>1 DEF ChatInv
<1> QED BY <1>1, <1>2, <1>3, GeneralSame DEF ChatInv

(* The invariant of quiz stays while nothing changes.                      *)
LEMMA QuizSame == ASSUME Unchanged, QuizInv PROVE QuizInv'
<1>1. db' = db /\ serial' = serial /\ tx' = tx
  BY DEF Unchanged
<1>2. \A w, t : Flushed(w, t)' = Flushed(w, t)
  BY <1>1, FlushedSame
<1>3. QuizTyped'
  BY GeneralSame DEF QuizInv, QuizTyped
<1>4. (\A s \in Sessions : QuizWork(tx[s]))' /\ (IsTable(db["question"]) /\ IsTable(db["attempt"]))'
  BY <1>1 DEF QuizInv
<1>5. ASSUME serial, NEW q \in Sessions, Busy(q)' PROVE QuizPromise(tx[q])'
  <2>1. Busy(q) /\ tx'[q] = tx[q]
    BY <1>1, <1>5 DEF Busy
  <2>2. /\ Flushed(tx[q], "quiz")' = Flushed(tx[q], "quiz")
        /\ Flushed(tx[q], "question")' = Flushed(tx[q], "question")
    BY <1>1, <1>2
  <2>3. QuizPromise(tx[q])
    BY <1>5, <2>1 DEF QuizInv
  <2> QED BY <2>1, <2>2, <2>3 DEF QuizPromise, Asks, Tries, Rows
<1> QED BY <1>1, <1>3, <1>4, <1>5, GeneralSame DEF QuizInv

(* The invariant of lessons stays while nothing changes.                   *)
LEMMA LessonsSame == ASSUME Unchanged, LessonsInv PROVE LessonsInv'
<1>1. db' = db /\ serial' = serial /\ tx' = tx
  BY DEF Unchanged
<1>2. LessonsTyped'
  BY GeneralSame DEF LessonsInv, LessonsTyped
<1>3. (\A s \in Sessions : LessonsWork(tx[s]))' /\ (\A t \in LessonTables : IsTable(db[t]))'
  BY <1>1 DEF LessonsInv
<1>4. (serial => \A s \in Sessions : Busy(s) => (Teaches(tx[s]) => WriteAllowed))'
  BY <1>1 DEF LessonsInv, Busy, Teaches, WriteAllowed
<1> QED BY <1>1, <1>2, <1>3, <1>4, GeneralSame DEF LessonsInv

(* The invariant of audience stays while nothing changes.                  *)
LEMMA AudienceSame == ASSUME Unchanged, AudienceInv PROVE AudienceInv'
<1>1. db' = db /\ tx' = tx
  BY DEF Unchanged
<1> QED BY <1>1, GeneralSame DEF AudienceInv, AudienceWork

(* The areas whose tables hold no files. *)
Filed == {"assignment", "submission", "homework", "response", "document"}
Without(name) == area = name /\ "notice" \in DOMAIN db /\ Filed \cap DOMAIN db = {}

(* An area without files stays without files while its tables stay.        *)
LEMMA WithoutStays == ASSUME NEW name, Without(name), Framed PROVE Without(name)'
BY DEF Without, Framed

(* The end of a request leaves the area and its tables.                    *)
LEMMA EndFrame == ASSUME NEW s, EndOfRequest(s) PROVE Framed
<1>1. CASE Commit(s)
  <2>1. area' = area /\ db' = [t \in DOMAIN db |-> Flushed(tx[s], t)]
    BY <1>1 DEF Commit
  <2> QED BY <2>1 DEF Framed
<1>2. CASE Abort(s)
  BY <1>2 DEF Abort, Framed
<1>3. CASE Notify(s)
  BY <1>3 DEF Notify, Framed
<1> QED BY <1>1, <1>2, <1>3 DEF EndOfRequest

(* The handlers of an area are served in that area only. *)
LEMMA AreaOf ==
  ASSUME NEW s
  PROVE  /\ AssignmentsStep(s) \/ SubmissionsStep(s) => area = "assignments"
         /\ HomeworkStep(s) => area = "homework"
         /\ ExamsStep(s) => area = "exams"
         /\ SchedulesStep(s) => area = "schedules"
         /\ AttendanceStep(s) => area = "attendance"
         /\ ClassroomStep(s) \/ ContentStep(s) => area = "classroom"
         /\ QuizStep(s) => area = "quizzes"
         /\ YearsStep(s) => area = "years"
         /\ StructureStep(s) => area = "structure"
         /\ GradesStep(s) => area = "grades"
         /\ TeachingStep(s) \/ TimetableStep(s) => area = "teaching"
         /\ DocumentsStep(s) => area = "documents"
         /\ ChatStep(s) => area = "chat"
         /\ AnnouncementsStep(s) \/ InboxStep(s) => area = "announcements"
         /\ AuthStep(s) => area = "auth"
         /\ AudienceStep(s) => area = "audience"
         /\ StudentsStep(s) \/ PromotionStep(s) => area = "students"
         /\ GalleryStep(s) => area = "gallery"
<1>1. AssignmentsStep(s) \/ SubmissionsStep(s) => area = "assignments"
  BY Zenon DEF AssignmentsStep, SubmissionsStep
<1>2. (HomeworkStep(s) => area = "homework") /\ (ExamsStep(s) => area = "exams")
  BY Zenon DEF HomeworkStep, ExamsStep
<1>3. (SchedulesStep(s) => area = "schedules") /\ (AttendanceStep(s) => area = "attendance")
  BY Zenon DEF SchedulesStep, AttendanceStep
<1>4. (ClassroomStep(s) \/ ContentStep(s) => area = "classroom") /\ (QuizStep(s) => area = "quizzes")
  BY Zenon DEF ClassroomStep, ContentStep, QuizStep
<1>5. (YearsStep(s) => area = "years") /\ (StructureStep(s) => area = "structure") /\ (GradesStep(s) => area = "grades")
  BY Zenon DEF YearsStep, StructureStep, GradesStep
<1>6. (TeachingStep(s) \/ TimetableStep(s) => area = "teaching") /\ (DocumentsStep(s) => area = "documents")
  BY Zenon DEF TeachingStep, TimetableStep, DocumentsStep
<1>7. (ChatStep(s) => area = "chat") /\ (AnnouncementsStep(s) \/ InboxStep(s) => area = "announcements")
  BY Zenon DEF ChatStep, AnnouncementsStep, InboxStep
<1>8. (AuthStep(s) => area = "auth") /\ (AudienceStep(s) => area = "audience")
  BY Zenon DEF AuthStep, AudienceStep
<1>9. (StudentsStep(s) \/ PromotionStep(s) => area = "students") /\ (GalleryStep(s) => area = "gallery")
  BY Zenon DEF StudentsStep, PromotionStep, GalleryStep
<1> QED BY <1>1, <1>2, <1>3, <1>4, <1>5, <1>6, <1>7, <1>8, <1>9

(* What a step of the campus is. *)
LEMMA StepIs ==
  ASSUME [CampusNext]_vars
  PROVE  \/ \E s \in Sessions : Handle(s) \/ EndOfRequest(s)
         \/ area' = area /\ Unchanged
BY DEF CampusNext, vars, MidnightPasses, NextDay, Unchanged

(* Every step in the area of assignments preserves its invariant.          *)
LEMMA AssignmentsStay ==
  ASSUME area = "assignments", Shape, AssignmentsInv, [CampusNext]_vars
  PROVE  area' = "assignments" /\ Shape' /\ AssignmentsInv'
<1>1. ASSUME NEW s \in Sessions, Handle(s) PROVE area' = area /\ Shape' /\ AssignmentsInv'
  <2>1. AssignmentsStep(s) \/ SubmissionsStep(s)
    BY <1>1, AreaOf, Zenon DEF Handle
  <2>2. PICK w, objects : AssignmentOpens(s, w, objects)
    BY <2>1, AssignmentsPrepare
  <2> QED BY <2>2, AssignmentsBegin, BeginShape DEF AssignmentOpens, Opens
<1>2. ASSUME NEW s \in Sessions, EndOfRequest(s) PROVE area' = area /\ Shape' /\ AssignmentsInv'
  BY <1>2, WorksAtEnd, AssignmentsEnd
<1>3. Unchanged => Shape' /\ AssignmentsInv'
  BY AssignmentsSame, GeneralSame
<1> QED BY <1>1, <1>2, <1>3, StepIs

(* Every step in the area of homework preserves its invariant.             *)
LEMMA HomeworkStays ==
  ASSUME area = "homework", Shape, HomeworkInv, [CampusNext]_vars
  PROVE  area' = "homework" /\ Shape' /\ HomeworkInv'
<1>1. ASSUME NEW s \in Sessions, Handle(s) PROVE area' = area /\ Shape' /\ HomeworkInv'
  BY <1>1, AreaOf, HomeworkBegin DEF Handle
<1>2. ASSUME NEW s \in Sessions, EndOfRequest(s) PROVE area' = area /\ Shape' /\ HomeworkInv'
  BY <1>2, WorksAtEnd, HomeworkEnd
<1>3. Unchanged => Shape' /\ HomeworkInv'
  BY HomeworkSame, GeneralSame
<1> QED BY <1>1, <1>2, <1>3, StepIs

(* Every step in the area of documents preserves its invariant.            *)
LEMMA DocumentsStay ==
  ASSUME area = "documents", Shape, DocumentsInv, [CampusNext]_vars
  PROVE  area' = "documents" /\ Shape' /\ DocumentsInv'
<1>1. ASSUME NEW s \in Sessions, Handle(s) PROVE area' = area /\ Shape' /\ DocumentsInv'
  BY <1>1, AreaOf, DocumentsBegin DEF Handle
<1>2. ASSUME NEW s \in Sessions, EndOfRequest(s) PROVE area' = area /\ Shape' /\ DocumentsInv'
  BY <1>2, WorksAtEnd, DocumentsEnd
<1>3. Unchanged => Shape' /\ DocumentsInv'
  BY DocumentsSame, GeneralSame
<1> QED BY <1>1, <1>2, <1>3, StepIs

(* Every step in the area of exams preserves its invariant.                *)
LEMMA ExamsStay ==
  ASSUME area = "exams", Shape, ExamsInv, [CampusNext]_vars
  PROVE  area' = "exams" /\ Shape' /\ ExamsInv'
<1>1. ASSUME NEW s \in Sessions, Handle(s) PROVE area' = area /\ Shape' /\ ExamsInv'
  BY <1>1, AreaOf, ExamsBegin DEF Handle
<1>2. ASSUME NEW s \in Sessions, EndOfRequest(s) PROVE area' = area /\ Shape' /\ ExamsInv'
  BY <1>2, WorksAtEnd, ExamsEnd
<1>3. Unchanged => Shape' /\ ExamsInv'
  BY ExamsSame, GeneralSame
<1> QED BY <1>1, <1>2, <1>3, StepIs

(* Every step in the area of years preserves its invariant.                *)
LEMMA YearsStay ==
  ASSUME area = "years", Shape, YearsInv, [CampusNext]_vars
  PROVE  area' = "years" /\ Shape' /\ YearsInv'
<1>1. ASSUME NEW s \in Sessions, Handle(s) PROVE area' = area /\ Shape' /\ YearsInv'
  BY <1>1, AreaOf, YearsBegin DEF Handle
<1>2. ASSUME NEW s \in Sessions, EndOfRequest(s) PROVE area' = area /\ Shape' /\ YearsInv'
  BY <1>2, WorksAtEnd, YearsEnd
<1>3. Unchanged => Shape' /\ YearsInv'
  BY YearsSame, GeneralSame
<1> QED BY <1>1, <1>2, <1>3, StepIs

(* Every step in the area of grades preserves its invariant.               *)
LEMMA GradesStay ==
  ASSUME area = "grades", Shape, GradesInv, [CampusNext]_vars
  PROVE  area' = "grades" /\ Shape' /\ GradesInv'
<1>1. ASSUME NEW s \in Sessions, Handle(s) PROVE area' = area /\ Shape' /\ GradesInv'
  BY <1>1, AreaOf, GradesBegin DEF Handle
<1>2. ASSUME NEW s \in Sessions, EndOfRequest(s) PROVE area' = area /\ Shape' /\ GradesInv'
  BY <1>2, WorksAtEnd, GradesEnd
<1>3. Unchanged => Shape' /\ GradesInv'
  BY GradesSame, GeneralSame
<1> QED BY <1>1, <1>2, <1>3, StepIs

(* Every step in the area of gallery preserves its invariant.              *)
LEMMA GalleryStays ==
  ASSUME area = "gallery", Shape, GalleryInv, [CampusNext]_vars
  PROVE  area' = "gallery" /\ Shape' /\ GalleryInv'
<1>1. ASSUME NEW s \in Sessions, Handle(s) PROVE area' = area /\ Shape' /\ GalleryInv'
  BY <1>1, AreaOf, GalleryBegin DEF Handle
<1>2. ASSUME NEW s \in Sessions, EndOfRequest(s) PROVE area' = area /\ Shape' /\ GalleryInv'
  BY <1>2, WorksAtEnd, GalleryEnd
<1>3. Unchanged => Shape' /\ GalleryInv'
  BY GallerySame, GeneralSame
<1> QED BY <1>1, <1>2, <1>3, StepIs

(* Every step in the area of audience preserves its invariant.             *)
LEMMA AudienceStays ==
  ASSUME area = "audience", Shape, AudienceInv, [CampusNext]_vars
  PROVE  area' = "audience" /\ Shape' /\ AudienceInv'
<1>1. ASSUME NEW s \in Sessions, Handle(s) PROVE area' = area /\ Shape' /\ AudienceInv'
  BY <1>1, AreaOf, AudienceBegin DEF Handle
<1>2. ASSUME NEW s \in Sessions, EndOfRequest(s) PROVE area' = area /\ Shape' /\ AudienceInv'
  BY <1>2, WorksAtEnd, AudienceEnd
<1>3. Unchanged => Shape' /\ AudienceInv'
  BY AudienceSame, GeneralSame
<1> QED BY <1>1, <1>2, <1>3, StepIs

(* Every step in the area of schedules preserves its invariant.            *)
LEMMA SchedulesStay ==
  ASSUME area = "schedules", Shape, SchedulesInv, [CampusNext]_vars
  PROVE  area' = "schedules" /\ Shape' /\ SchedulesInv'
<1>1. ASSUME NEW s \in Sessions, Handle(s) PROVE area' = area /\ Shape' /\ SchedulesInv'
  BY <1>1, AreaOf, SchedulesBegin DEF Handle
<1>2. ASSUME NEW s \in Sessions, EndOfRequest(s) PROVE area' = area /\ Shape' /\ SchedulesInv'
  BY <1>2, WorksAtEnd, SchedulesEnd
<1>3. Unchanged => Shape' /\ SchedulesInv'
  BY SchedulesSame, GeneralSame
<1> QED BY <1>1, <1>2, <1>3, StepIs

(* Every step in the area of chat preserves its invariant.                 *)
LEMMA ChatStays ==
  ASSUME area = "chat", Shape, ChatInv, [CampusNext]_vars
  PROVE  area' = "chat" /\ Shape' /\ ChatInv'
<1>1. ASSUME NEW s \in Sessions, Handle(s) PROVE area' = area /\ Shape' /\ ChatInv'
  BY <1>1, AreaOf, ChatBegin DEF Handle
<1>2. ASSUME NEW s \in Sessions, EndOfRequest(s) PROVE area' = area /\ Shape' /\ ChatInv'
  BY <1>2, WorksAtEnd, ChatEnd
<1>3. Unchanged => Shape' /\ ChatInv'
  BY ChatSame, GeneralSame
<1> QED BY <1>1, <1>2, <1>3, StepIs

(* Every step in the area of quizzes preserves its invariant.              *)
LEMMA QuizzesStay ==
  ASSUME area = "quizzes", Shape, QuizInv, [CampusNext]_vars
  PROVE  area' = "quizzes" /\ Shape' /\ QuizInv'
<1>1. ASSUME NEW s \in Sessions, Handle(s) PROVE area' = area /\ Shape' /\ QuizInv'
  BY <1>1, AreaOf, QuizBegin DEF Handle
<1>2. ASSUME NEW s \in Sessions, EndOfRequest(s) PROVE area' = area /\ Shape' /\ QuizInv'
  BY <1>2, WorksAtEnd, QuizEnd
<1>3. Unchanged => Shape' /\ QuizInv'
  BY QuizSame, GeneralSame
<1> QED BY <1>1, <1>2, <1>3, StepIs

(* Every step in the area of lessons preserves its invariant.              *)
LEMMA LessonsStay ==
  ASSUME area = "classroom", Shape, LessonsInv, [CampusNext]_vars
  PROVE  area' = "classroom" /\ Shape' /\ LessonsInv'
<1>1. ASSUME NEW s \in Sessions, Handle(s) PROVE area' = area /\ Shape' /\ LessonsInv'
  BY <1>1, AreaOf, LessonsBegin DEF Handle
<1>2. ASSUME NEW s \in Sessions, EndOfRequest(s) PROVE area' = area /\ Shape' /\ LessonsInv'
  BY <1>2, WorksAtEnd, LessonsEnd
<1>3. Unchanged => Shape' /\ LessonsInv'
  BY LessonsSame, GeneralSame
<1> QED BY <1>1, <1>2, <1>3, StepIs

(* The areas that are only framed here. *)
Others == {"attendance", "structure", "teaching", "announcements", "auth", "students"}

(* A handler of the other areas leaves the area and its tables.            *)
LEMMA OthersFrame ==
  ASSUME NEW s, Handle(s), area \in Others, "notice" \in DOMAIN db
  PROVE  Framed
<1>1. /\ area # "assignments" /\ area # "homework" /\ area # "exams" /\ area # "documents"
      /\ area # "gallery" /\ area # "audience" /\ area # "schedules" /\ area # "chat"
      /\ area # "quizzes" /\ area # "classroom" /\ area # "years" /\ area # "grades"
  BY DEF Others
<1>2. \/ AttendanceStep(s) \/ StructureStep(s)
      \/ TeachingStep(s) \/ TimetableStep(s)
      \/ AnnouncementsStep(s) \/ InboxStep(s)
      \/ AuthStep(s) \/ StudentsStep(s) \/ PromotionStep(s)
  BY <1>1, AreaOf DEF Handle
<1> QED BY <1>2, AttendanceFrame, StructureFrame, TeachingFrame, AnnouncementsFrame, InboxFrame, AuthFrame, StudentsFrame

CampusInv ==
    \/ area = "assignments" /\ Shape /\ AssignmentsInv
    \/ area = "homework" /\ Shape /\ HomeworkInv
    \/ area = "documents" /\ Shape /\ DocumentsInv
    \/ area = "exams" /\ Shape /\ ExamsInv
    \/ area = "years" /\ Shape /\ YearsInv
    \/ area = "grades" /\ Shape /\ GradesInv
    \/ area = "gallery" /\ Shape /\ GalleryInv
    \/ area = "audience" /\ Shape /\ AudienceInv
    \/ area = "schedules" /\ Shape /\ SchedulesInv
    \/ area = "chat" /\ Shape /\ ChatInv
    \/ area = "quizzes" /\ Shape /\ QuizInv
    \/ area = "classroom" /\ Shape /\ LessonsInv
    \/ \E name \in Others : Without(name)

(* An area whose tables hold no files starts without files.                *)
LEMMA OtherStart ==
  ASSUME NEW name \in Others, NEW tables, Starts(name, tables), Filed \cap DOMAIN tables = {}
  PROVE  Without(name)
<1>1. /\ area = name /\ db = [t \in DOMAIN tables \cup {"notice"} |-> IF t = "notice" THEN None ELSE tables[t]]
  BY DEF Starts
<1> QED BY <1>1 DEF Without, Filed

(* The other areas start without files.                                    *)
LEMMA OthersStart ==
  ASSUME AttendanceInit \/ TeachingInit \/ AuthInit \/ StudentsInit
  PROVE  \E name \in Others : Without(name)
<1>1. CASE AttendanceInit
  <2>1. PICK tables : DOMAIN tables = {"student", "attendance"} /\ Starts("attendance", tables)
    BY <1>1 DEF AttendanceInit
  <2> QED BY <2>1, OtherStart DEF Others, Filed
<1>2. CASE TeachingInit
  <2>1. PICK tables : DOMAIN tables = {"posting", "timetable", "setting", "section"} /\ Starts("teaching", tables)
    BY <1>2 DEF TeachingInit
  <2> QED BY <2>1, OtherStart DEF Others, Filed
<1>3. CASE AuthInit
  <2>1. PICK tables : DOMAIN tables = {"account", "issued", "blocked", "otp", "reset"} /\ Starts("auth", tables)
    BY <1>3 DEF AuthInit
  <2> QED BY <2>1, OtherStart DEF Others, Filed
<1>4. CASE StudentsInit
  <2>1. PICK tables : DOMAIN tables = {"pupil", "history", "room", "registry"} /\ Starts("students", tables)
    BY <1>4 DEF StudentsInit
  <2> QED BY <2>1, OtherStart DEF Others, Filed
<1> QED BY <1>1, <1>2, <1>3, <1>4

(* The invariant of the campus holds at the start of every area.           *)
LEMMA CampusStarts == CampusInit => CampusInv
<1> SUFFICES ASSUME CampusInit PROVE CampusInv
  OBVIOUS
<1>1. CASE CourseworkInit
  BY <1>1, AssignmentsStart, HomeworkStart DEF CourseworkInit, CampusInv
<1>2. CASE ExamsInit
  <2>1. CASE Starts("exams", [exam |-> None, result |-> None, card |-> None])
    BY <2>1, ExamsStart DEF CampusInv
  <2>2. CASE Starts("schedules", [exam |-> [e \in ExamNames |-> Present], series |-> None, paper |-> None])
    BY <2>2, SchedulesStart DEF CampusInv
  <2> QED BY <1>2, <2>1, <2>2 DEF ExamsInit
<1>3. CASE YearsInit
  <2>1. CASE Starts("structure", [class |-> None, section |-> None, subject |-> None,
                                  year |-> [y \in Years |-> [active |-> FALSE]]])
    <3>1. PICK tables : DOMAIN tables = {"class", "section", "subject", "year"} /\ Starts("structure", tables)
      BY <2>1
    <3>2. Without("structure")
      BY <3>1, OtherStart DEF Others, Filed
    <3> QED BY <3>2 DEF CampusInv, Others
  <2> QED BY <1>3, <2>1, YearsStart, GradesStart DEF YearsInit, CampusInv
<1>4. CASE DocumentsInit
  BY <1>4, DocumentsStart DEF DocumentsInit, CampusInv
<1>5. CASE AttendanceInit \/ TeachingInit \/ AuthInit \/ StudentsInit
  BY <1>5, OthersStart DEF CampusInv
<1>8. CASE ClassroomInit
  BY <1>8, QuizStart, LessonsStart DEF ClassroomInit, CampusInv
<1>9. CASE MessagingInit
  <2>1. CASE Starts("announcements", [announcement |-> None, person |-> [u \in People |-> [places |-> {}]]])
    <3>1. PICK tables : DOMAIN tables = {"announcement", "person"} /\ Starts("announcements", tables)
      BY <2>1
    <3>2. Without("announcements")
      BY <3>1, OtherStart DEF Others, Filed
    <3> QED BY <3>2 DEF CampusInv, Others
  <2> QED BY <1>9, <2>1, ChatStart DEF MessagingInit, CampusInv
<1>6. CASE GalleryInit
  BY <1>6, GalleryStart DEF GalleryInit, CampusInv
<1>7. CASE AudienceInit
  BY <1>7, AudienceStart DEF CampusInv
<1> QED BY <1>1, <1>2, <1>3, <1>4, <1>5, <1>6, <1>7, <1>8, <1>9 DEF CampusInit

(* The invariant of the campus is preserved by every step.                 *)
LEMMA CampusStays == CampusInv /\ [CampusNext]_vars => CampusInv'
<1> SUFFICES ASSUME CampusInv, [CampusNext]_vars PROVE CampusInv'
  OBVIOUS
<1>1. CASE area = "assignments" /\ Shape /\ AssignmentsInv
  BY <1>1, AssignmentsStay DEF CampusInv
<1>2. CASE area = "homework" /\ Shape /\ HomeworkInv
  BY <1>2, HomeworkStays DEF CampusInv
<1>3. CASE area = "documents" /\ Shape /\ DocumentsInv
  BY <1>3, DocumentsStay DEF CampusInv
<1>4. CASE area = "exams" /\ Shape /\ ExamsInv
  BY <1>4, ExamsStay DEF CampusInv
<1>5. CASE area = "years" /\ Shape /\ YearsInv
  BY <1>5, YearsStay DEF CampusInv
<1>6. CASE area = "grades" /\ Shape /\ GradesInv
  BY <1>6, GradesStay DEF CampusInv
<1>8. CASE area = "gallery" /\ Shape /\ GalleryInv
  BY <1>8, GalleryStays DEF CampusInv
<1>9. CASE area = "audience" /\ Shape /\ AudienceInv
  BY <1>9, AudienceStays DEF CampusInv
<1>10. CASE area = "schedules" /\ Shape /\ SchedulesInv
  BY <1>10, SchedulesStay DEF CampusInv
<1>11. CASE area = "chat" /\ Shape /\ ChatInv
  BY <1>11, ChatStays DEF CampusInv
<1>12. CASE area = "quizzes" /\ Shape /\ QuizInv
  BY <1>12, QuizzesStay DEF CampusInv
<1>13. CASE area = "classroom" /\ Shape /\ LessonsInv
  BY <1>13, LessonsStay DEF CampusInv
<1>7. ASSUME NEW name \in Others, Without(name) PROVE Without(name)'
  <2>1. Framed \/ (area' = area /\ Unchanged)
    BY <1>7, StepIs, OthersFrame, EndFrame DEF Without
  <2>2. area' = area /\ Unchanged => Framed
    BY DEF Unchanged, Framed
  <2> QED BY <1>7, <2>1, <2>2, WithoutStays
<1> QED BY <1>1, <1>2, <1>3, <1>4, <1>5, <1>6, <1>7, <1>8, <1>9, <1>10, <1>11, <1>12, <1>13 DEF CampusInv

(* The invariant of the campus implies that files are stored.              *)
LEMMA FilesFollow == CampusInv => FilesAreStored
<1> SUFFICES ASSUME CampusInv PROVE FilesAreStored
  OBVIOUS
<1>1. CASE AssignmentsInv /\ area = "assignments"
  BY <1>1 DEF AssignmentsInv, FileInv, FilesAreStored, Keys
<1>2. CASE HomeworkInv /\ area = "homework"
  BY <1>2 DEF HomeworkInv, FileInv, FilesAreStored, Keys
<1>3. CASE DocumentsInv /\ area = "documents"
  BY <1>3 DEF DocumentsInv, FileInv, FilesAreStored, Keys
<1>4. CASE ExamsInv /\ area = "exams"
  BY <1>4 DEF ExamsInv, FilesAreStored, Keys
<1>5. CASE YearsInv /\ area = "years"
  BY <1>5 DEF YearsInv, FilesAreStored, Keys
<1>6. CASE GradesInv /\ area = "grades"
  BY <1>6 DEF GradesInv, FilesAreStored, Keys
<1>7. ASSUME NEW name \in Others, Without(name) PROVE FilesAreStored
  BY <1>7 DEF Without, Filed, Others, FilesAreStored
<1>8. CASE GalleryInv /\ area = "gallery"
  BY <1>8 DEF GalleryInv, FilesAreStored, Keys
<1>9. CASE AudienceInv /\ area = "audience"
  BY <1>9 DEF AudienceInv, Filed, FilesAreStored, Keys
<1>10. CASE area = "schedules" /\ SchedulesInv
  BY <1>10 DEF SchedulesInv, FilesAreStored, Keys
<1>11. CASE area = "chat" /\ ChatInv
  BY <1>11 DEF ChatInv, ChatTables, FilesAreStored, Keys
<1>12. CASE area = "quizzes" /\ QuizInv
  BY <1>12 DEF QuizInv, FilesAreStored, Keys
<1>13. CASE area = "classroom" /\ LessonsInv
  BY <1>13 DEF LessonsInv, FilesAreStored, Keys
<1> QED BY <1>1, <1>2, <1>3, <1>4, <1>5, <1>6, <1>7, <1>8, <1>9, <1>10, <1>11, <1>12, <1>13 DEF CampusInv

(* The invariant of the campus implies that columns agree.                 *)
LEMMA ColumnsFollow == CampusInv => ColumnsAgree
<1> SUFFICES ASSUME CampusInv, serial PROVE ColumnsAgree
  BY DEF ColumnsAgree
<1>1. ASSUME AssignmentsInv, area = "assignments" PROVE ColumnsAgree
  BY <1>1 DEF AssignmentsInv, ColumnsAgree, CoverIsFeatured
<1>2. ASSUME ExamsInv, area = "exams" PROVE ColumnsAgree
  BY <1>2 DEF ExamsInv, ResultGood, ColumnsAgree, CoverIsFeatured
<1>3. ASSUME GradesInv, area = "grades" PROVE ColumnsAgree
  BY <1>3 DEF GradesInv, InOrder, ColumnsAgree, CoverIsFeatured, Keys
<1>4. ASSUME GalleryInv, area = "gallery" PROVE ColumnsAgree
  <2>1. ASSUME NEW al PROVE {p \in PhotosOf(al) : db.photo[p].featured} = Shown(db["photo"], al)
    BY DEF PhotosOf, Shown, Keys
  <2>2. \A al \in Keys("album") : Shown(db["photo"], al) = {db["album"][al].cover} \ {"none"}
    BY <1>4 DEF GalleryInv, Covered, Keys
  <2> QED BY <1>4, <2>1, <2>2 DEF ColumnsAgree, CoverIsFeatured
<1>5. ASSUME area \notin {"assignments", "exams", "grades", "gallery"} PROVE ColumnsAgree
  BY <1>5 DEF ColumnsAgree, CoverIsFeatured
<1> QED BY <1>1, <1>2, <1>3, <1>4, <1>5 DEF CampusInv, Without, Others

(* A committed row that names a file names a stored one, and so does every *)
(* report card (services/assignment.py, submission.py, homework.py,        *)
(* document.py, report_card.py: the file is stored before its row is       *)
(* written).                                                               *)
THEOREM FilesStored == CampusSpec => []FilesAreStored
BY CampusStarts, CampusStays, FilesFollow, PTL DEF CampusSpec

(* While handlers do not overlap, columns that go together agree: approvals*)
(* and dates, grades and marks, the bounds of a grade, and the cover of an *)
(* album and its featured photo (services/submission.py, result.py,        *)
(* grade_master, gallery.py).                                              *)
THEOREM ColumnsStayInAgreement == CampusSpec => []ColumnsAgree
BY CampusStarts, CampusStays, ColumnsFollow, PTL DEF CampusSpec

(* Whoever is told of a row finds it in the list and may open it, and      *)
(* whoever                                                                 *)
(* may answer finds what to answer, while students move and teachers are   *)
(* assigned (services/assignment.py, homework.py, diary.py,                *)
(* exam_schedule.py,                                                       *)
(* result.py, behaviour.py, chat.py: each with queries of its own).        *)
THEOREM AudiencesAgree == CampusSpec => []AudienceAgrees
<1>1. CampusInv => AudienceAgrees
  BY AudienceFollows DEF CampusInv, Without, Others, AudienceAgrees
<1> QED BY <1>1, CampusStarts, CampusStays, PTL DEF CampusSpec

(* What lasts is kept by a step that leaves the rows alone, which every     *)
(* step of these areas does but a commit, and by the commit too.            *)
LateLast == \A u \in Keys("submission") : db'["submission"][u].late = db["submission"][u].late

(* A step that changes no row takes nothing away.                          *)
LEMMA RowsLast ==
  ASSUME UNCHANGED <<db, serial>>
  PROVE  SchedulesLast /\ LateLast /\ ChatLast /\ QuizLast /\ LessonsLast
<1>1. db' = db /\ \A t : Keys(t)' = Keys(t)
  BY KeysSame
<1>2. SchedulesLast /\ LateLast /\ ChatLast
  BY <1>1 DEF SchedulesLast, LateLast, ChatLast
<1>3. QuizLast /\ LessonsLast
  BY <1>1 DEF QuizLast, LessonsLast
<1> QED BY <1>2, <1>3

(* The end of a request keeps which submissions were late.                 *)
LEMMA LateStays ==
  ASSUME Shape, AssignmentsInv, NEW s \in Sessions, EndOfRequest(s)
  PROVE  LateLast
<1>1. CASE Commit(s)
  BY <1>1, AssignmentsCommit DEF LateLast
<1>2. CASE ~Commit(s)
  <2>1. db'["submission"] = db["submission"]
    BY <1>2, OnlyCommits DEF AssignmentsInv
  <2> QED BY <2>1 DEF LateLast
<1> QED BY <1>1, <1>2

(* No step of the campus takes away what lasts in its area.                *)
LEMMA AreaLasts ==
  ASSUME CampusInv, [CampusNext]_vars
  PROVE  /\ area = "exams" => ExamsLast
         /\ area = "schedules" => SchedulesLast
         /\ area = "assignments" => LateLast
         /\ area = "chat" => ChatLast
         /\ area = "quizzes" => QuizLast
         /\ area = "classroom" => LessonsLast
<1>1. CASE Unchanged
  BY <1>1, RowsLast, ExamsLastBegin DEF Unchanged
<1>2. ASSUME NEW s \in Sessions, Handle(s)
      PROVE  /\ area = "exams" => ExamsLast
             /\ area \in {"schedules", "assignments", "chat", "quizzes", "classroom"} => UNCHANGED <<db, serial>>
  <2>1. CASE area = "exams" /\ Shape /\ ExamsInv
    BY <1>2, <2>1, AreaOf, ExamsBegin, ExamsLastBegin DEF Handle
  <2>2. CASE area = "schedules" /\ Shape /\ SchedulesInv
    BY <1>2, <2>2, AreaOf, SchedulesBegin DEF Handle
  <2>3. CASE area = "chat" /\ Shape /\ ChatInv
    BY <1>2, <2>3, AreaOf, ChatBegin DEF Handle
  <2>4. CASE area = "quizzes" /\ Shape /\ QuizInv
    BY <1>2, <2>4, AreaOf, QuizBegin DEF Handle
  <2>5. CASE area = "classroom" /\ Shape /\ LessonsInv
    BY <1>2, <2>5, AreaOf, LessonsBegin DEF Handle
  <2>6. CASE area = "assignments" /\ Shape /\ AssignmentsInv
    <3>1. PICK w, objects : AssignmentOpens(s, w, objects)
      BY <1>2, <2>6, AreaOf, AssignmentsPrepare, Zenon DEF Handle
    <3> QED BY <2>6, <3>1 DEF AssignmentOpens, Opens, BeginWith
  <2> QED BY <2>1, <2>2, <2>3, <2>4, <2>5, <2>6 DEF CampusInv, Without, Others
<1>3. ASSUME NEW s \in Sessions, EndOfRequest(s)
      PROVE  /\ area = "exams" => ExamsLast
             /\ area = "schedules" => SchedulesLast
             /\ area = "assignments" => LateLast
             /\ area = "chat" => ChatLast
             /\ area = "quizzes" => QuizLast
             /\ area = "classroom" => LessonsLast
  BY <1>3, ExamsLastEnd, SchedulesLastEnd, LateStays, ChatEnd, QuizLastEnd, LessonsLastEnd DEF CampusInv, Without, Others
<1> QED BY <1>1, <1>2, <1>3, RowsLast, StepIs

(* What families were shown stays: published results and schedules,        *)
(* cancelled papers, whether a submission was late, messages and what was  *)
(* read of them, graded attempts; and while handlers do not overlap, a     *)
(* closed year keeps its classroom, a locked quiz takes no attempt, and its*)
(* total is right after any change of questions (services/result.py,       *)
(* exam_schedule.py, submission.py, message.py, my_class.py).              *)
THEOREM WhatWasShownLasts == CampusSpec => Lasting
<1>1. CampusInv /\ [CampusNext]_vars => [LastingStep]_vars
  <2> SUFFICES ASSUME CampusInv, [CampusNext]_vars PROVE LastingStep
    OBVIOUS
  <2> QED BY AreaLasts DEF LastingStep, Kept, ExamsLast, SchedulesLast, LateLast, ChatLast, QuizLast, LessonsLast, Keys
<1> QED BY <1>1, CampusStarts, CampusStays, PTL DEF CampusSpec, Lasting
=============================================================================
