------------------------------ MODULE UnitOfWork ------------------------------
(***************************************************************************)
(* The unit of work in which every handler runs (src/app/db/session.py).   *)
(* A request reads committed rows, checks them, and collects inserts,      *)
(* updates and deletes in its session; get_db commits them together when   *)
(* the handler returns, or rolls all of them back.  Between the reads and  *)
(* the commit other requests may commit: nothing read is locked.           *)
(*                                                                         *)
(* A service is a module that extends this one.  Its handler is an action  *)
(* that checks db and calls Begin with the writes it collected.            *)
(* Background tasks run after the commit, in sessions of their own, and    *)
(* files are stored at once, outside of the transaction.                   *)
(***************************************************************************)
EXTENDS Integers, Sequences, FiniteSets, FiniteSetsExt, Functions

CONSTANTS Sessions,      \* the requests that may be served at one time
          Pupils,        \* students
          Subjects, Classes, Sections,
          MaxDay         \* the last day of the model

ASSUME CalendarConstants == MaxDay \in Nat

VARIABLES area,          \* the service whose requests are served
          db,            \* committed rows: table -> key -> row
          stored,        \* objects in the object storage, by what they belong to
          today,         \* the date
          tx,            \* session -> what it will write, and what comes after
          serial         \* whether handlers are served one at a time

vars == <<area, db, stored, today, tx, serial>>

(* The operators of module TLC for functions of one value, and for a       *)
(* function and, elsewhere, another.                                       *)
k :> v == [x \in {k} |-> v]
f @@ g == [x \in DOMAIN f \cup DOMAIN g |-> IF x \in DOMAIN f THEN f[x] ELSE g[x]]

(* The writes of a session are functions from tables to keys to rows (or   *)
(* to some columns of them).  put is INSERT .. ON CONFLICT DO UPDATE, a    *)
(* new row and the columns set in an old one; needs are rows referred to   *)
(* by foreign keys; tell are the notifications its background tasks write  *)
(* and jobs what else they do.                                             *)
None == [t \in {} |-> {}]
Present == None                          \* a row of which only its key matters
Idle == [state |-> "idle", insert |-> None, put |-> None, update |-> None,
         drop |-> None, needs |-> {}, tell |-> {}, jobs |-> {}]
Work == [Idle EXCEPT !.state = "open"]

Rows(writes, t) == IF t \in DOMAIN writes THEN writes[t] ELSE None
Keys(t) == DOMAIN db[t]
Where(t, P(_)) == {k \in Keys(t) : P(db[t][k])}

(* A new row has an id that no other row has, committed or not, and that   *)
(* no notification names, as of a row that was deleted.                    *)
Named == Keys("notice") \cup UNION {tx[q].tell : q \in Sessions}
Unused(t, k) == /\ k \notin Keys(t)
                /\ \A q \in Sessions : k \notin DOMAIN Rows(tx[q].insert, t)
                /\ \A n \in Named : n[2] # k

(* The columns of an UPDATE are those whose value differs from what was    *)
(* loaded.                                                                 *)
Changed(row, columns) == [c \in {x \in DOMAIN columns : row[x] # columns[x]} |-> columns[c]]
Sets(t, k, columns) == k :> Changed(db[t][k], columns)
SetsAll(t, S, columns) == [k \in S |-> Changed(db[t][k], columns)]
Over(row, columns) == [c \in DOMAIN row |-> IF c \in DOMAIN columns THEN columns[c] ELSE row[c]]

Busy(s) == tx[s].state = "open"
-----------------------------------------------------------------------------
(* The first step of a handler: the request is read, checked and answered  *)
(* for, and its writes are collected.  Uploads are stored at once.         *)
BeginWith(s, work, objects) ==
    /\ tx[s].state = "idle"
    /\ serial => ~\E q \in Sessions : Busy(q)
    /\ tx' = [tx EXCEPT ![s] = work]
    /\ stored' = objects
    /\ UNCHANGED <<area, db, today, serial>>

(* Mutant of BeginStoring: the file is left to be stored later.            *)
BeginStoringLater(s, work, objects) == BeginWith(s, work, stored)

BeginStoring(s, work, objects) == BeginWith(s, work, stored \cup objects)
Begin(s, work) == BeginStoring(s, work, {})

(* A row whose column "of" refers to a row that is deleted goes with it    *)
(* (ON DELETE CASCADE), through at most four levels.                       *)
Owner(w, t, k) == LET set == Rows(w.update, t) IN
                  IF k \in DOMAIN set /\ "of" \in DOMAIN set[k] THEN set[k].of ELSE db[t][k].of
OfOne(w, t, S) == {k \in Keys(t) : "of" \in DOMAIN db[t][k] /\ Owner(w, t, k) \in S}
Below(w, S) == S \cup UNION {{<<t, k>> : k \in OfOne(w, t, S)} : t \in DOMAIN db}
Dropped(w) == Below(w, Below(w, Below(w, UNION {{<<t, k>> : k \in w.drop[t]} : t \in DOMAIN w.drop})))

Flushed(w, t) ==
    LET gone == {pair[2] : pair \in {p \in Dropped(w) : p[1] = t}}
        new == Rows(w.insert, t)
        put == Rows(w.put, t)
        columns == Rows(w.update, t)
    IN  [k \in ((Keys(t) \ gone) \cup DOMAIN new \cup DOMAIN put) |->
            IF k \in DOMAIN new THEN new[k]
            ELSE IF k \in DOMAIN put
                 THEN IF k \in Keys(t) THEN Over(db[t][k], put[k].set) ELSE put[k].new
            ELSE IF k \in DOMAIN columns THEN Over(db[t][k], columns[k])
            ELSE db[t][k]]

(* Unique constraints over columns that are not the key: one class at a    *)
(* level of a year, one assignment of a teacher, and one active year.      *)
Clash(t, a, b) == \/ t \in {"class", "posting"} /\ a = b
                  \/ t = "year" /\ a.active /\ b.active
Clashes(w, t) == LET rows == Flushed(w, t) IN
                 \E j, k \in DOMAIN rows : j # k /\ Clash(t, rows[j], rows[k])

(* The database refuses a duplicate key, a reference to a row that is      *)
(* gone, and the mapper an update that finds no row.                       *)
Refused(w) ==
    \/ \E t \in DOMAIN w.insert : DOMAIN w.insert[t] \cap Keys(t) # {}
    \/ \E t \in DOMAIN w.update : ~(DOMAIN w.update[t] \subseteq Keys(t))
    \/ \E need \in w.needs : need[2] \notin Keys(need[1])
    \/ \E t \in {"class", "posting", "year"} \cap DOMAIN db : Clashes(w, t)

(* Mutant of Commit: the background tasks start with the handler.          *)
CommitTold(s) ==
    LET w == tx[s] IN
    /\ w.state = "open"
    /\ db' = [t \in DOMAIN db |->
                 IF t = "notice" THEN [n \in Keys(t) \cup w.tell |-> [read |-> FALSE]] ELSE db[t]]
    /\ tx' = [tx EXCEPT ![s].tell = {}]
    /\ UNCHANGED <<area, stored, today, serial>>

(* get_db commits when the handler has returned.  A service that commits   *)
(* by itself does so as its last write, so that this is its end as well.   *)
Commit(s) ==
    LET w == tx[s] IN
    /\ w.state = "open" /\ ~Refused(w)
    /\ db' = [t \in DOMAIN db |-> Flushed(w, t)]
    /\ tx' = [tx EXCEPT ![s] = IF w.tell = {} /\ w.jobs = {} THEN Idle
                               ELSE [Idle EXCEPT !.state = "after",
                                                 !.tell = w.tell, !.jobs = w.jobs]]
    /\ UNCHANGED <<area, stored, today, serial>>

(* get_db rolls back: the handler failed, the database refused its writes, *)
(* the client went away or the server stopped, which also loses what its   *)
(* background tasks were to do.                                            *)
Abort(s) ==
    /\ tx[s].state # "idle"
    /\ tx' = [tx EXCEPT ![s] = Idle]
    /\ UNCHANGED <<area, db, stored, today, serial>>

(* A background task writes notifications in a session of its own.         *)
Notify(s) ==
    /\ tx[s].state = "after" /\ tx[s].tell # {}
    /\ db' = [db EXCEPT !.notice = [n \in DOMAIN @ \cup tx[s].tell |->
                  IF n \in tx[s].tell THEN [read |-> FALSE] ELSE @[n]]]
    /\ tx' = [tx EXCEPT ![s] = IF tx[s].jobs = {} THEN Idle ELSE [@ EXCEPT !.tell = {}]]
    /\ UNCHANGED <<area, stored, today, serial>>

EndOfRequest(s) == Commit(s) \/ Abort(s) \/ Notify(s)

(* Midnight in the school's time zone.                                     *)
NextDay == /\ today < MaxDay
           /\ today' = today + 1
           /\ UNCHANGED <<area, db, stored, tx, serial>>

(* The start of an area whose tables are given.                            *)
Starts(name, tables) == /\ area = name
                        /\ db = [t \in DOMAIN tables \cup {"notice"} |->
                                    IF t = "notice" THEN None ELSE tables[t]]
                        /\ stored = {}
                        /\ today = 0
                        /\ tx = [s \in Sessions |-> Idle]
                        /\ serial \in BOOLEAN

(* A table whose keys and rows are of the types given.                     *)
Table(t, K, R) == Keys(t) \subseteq K /\ \A k \in Keys(t) : db[t][k] \in R
=============================================================================
