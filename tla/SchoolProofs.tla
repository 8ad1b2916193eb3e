------------------------------ MODULE SchoolProofs ------------------------------
EXTENDS CampusProofs

(***************************************************************************)
(* What the areas of the campus say beyond CampusProofs: that there is one *)
(* of everything handlers look for before they insert it, that every table *)
(* holds rows of its type, that notices are true, and that the queries of  *)
(* one thing agree.  The areas come one after the other, each with what    *)
(* its handlers collect, its invariant and what follows from it; SchoolInv *)
(* at the end is all of them.                                              *)
(***************************************************************************)
(***************************************************************************)
(* Lemmas for every area.                                                  *)
(***************************************************************************)
(* A set in which any two are the same has at most one member.             *)
LEMMA AtMostOne == ASSUME NEW S, \A x, y \in S : x = y PROVE IsFiniteSet(S) /\ Cardinality(S) <= 1
<1>1. CASE S = {}
  BY <1>1, FS_EmptySet
<1>2. ASSUME NEW x \in S PROVE IsFiniteSet(S) /\ Cardinality(S) <= 1
  <2>1. S = {x}
    OBVIOUS
  <2>2. IsFiniteSet({x}) /\ Cardinality({x}) = 1
    BY FS_Singleton
  <2> QED BY <2>1, <2>2
<1> QED BY <1>1, <1>2

(* Of two functions the first has its value.                               *)
LEMMA JoinIs ==
  ASSUME NEW f, NEW g
  PROVE  /\ DOMAIN (f @@ g) = DOMAIN f \cup DOMAIN g
         /\ \A x \in DOMAIN f \cup DOMAIN g : (f @@ g)[x] = IF x \in DOMAIN f THEN f[x] ELSE g[x]
BY DEF @@

(* What a unit of work with some writes writes.                            *)
LEMMA WritesAre ==
  ASSUME NEW new, NEW put, NEW up, NEW gone, NEW needs, NEW tell, NEW jobs, NEW w,
         w = [Work EXCEPT !.insert = new, !.put = put, !.update = up, !.drop = gone, !.needs = needs,
                          !.tell = tell, !.jobs = jobs]
  PROVE  /\ w.insert = new /\ w.put = put /\ w.update = up /\ w.drop = gone /\ w.needs = needs
         /\ w.tell = tell /\ w.jobs = jobs /\ w.state = "open" /\ WorkShape(w)
BY DEF Work, Idle, WorkShape

(* The date, which only midnight changes.                                  *)
LEMMA DayIs ==
  ASSUME [CampusNext]_vars
  PROVE  \/ \E s \in Sessions : Handle(s) \/ EndOfRequest(s)
         \/ area' = area /\ Unchanged /\ (today' = today \/ (today < MaxDay /\ today' = today + 1))
BY DEF CampusNext, vars, MidnightPasses, NextDay, Unchanged
-----------------------------------------------------------------------------
(***************************************************************************)
(* Sessions and password resets.  Whoever is told to be logged out is      *)
(* blocked, and stays so: the purge never commits.                         *)
(***************************************************************************)
AccountRow == [active : BOOLEAN]
BlockRow == [until : 0..(MaxDay + 1)]
ResetRow == [with : Tokens]
AuthTables == {"account", "issued", "blocked", "otp", "reset"}

AuthTyped == /\ TableInv("account", Accounts, AccountRow) /\ TableInv("issued", Tokens, Token)
             /\ TableInv("blocked", Tokens, BlockRow) /\ TableInv("otp", Otps, Otp)
             /\ TableInv("reset", Resets, ResetRow)
AuthFits(w) == /\ Fits(w, "account", Accounts, AccountRow) /\ Fits(w, "issued", Tokens, Token)
               /\ Fits(w, "blocked", Tokens, BlockRow) /\ Fits(w, "otp", Otps, Otp)
               /\ Fits(w, "reset", Resets, ResetRow)

(* A code gives one token and is used by it, and one code of an account is *)
(* pending.                                                                *)
OtpOnce(issued, otp) ==
    /\ \A t, r \in DOMAIN issued : issued[t].from = issued[r].from /\ issued[t].from \in Otps => t = r
    /\ \A t \in DOMAIN issued : issued[t].from \in Otps =>
          issued[t].from \in DOMAIN otp /\ otp[issued[t].from].used
    /\ \A o, p \in DOMAIN otp : otp[o].of = otp[p].of /\ ~otp[o].used /\ ~otp[p].used => o = p

(* A change of a password blocks its token with it; what deletes rows is   *)
(* refused.                                                                *)
AuthWork(w) ==
    /\ w.put = None /\ Rows(w.insert, "account") = None
    /\ \A t \in {"issued", "blocked", "reset"} : Rows(w.update, t) = None
    /\ w.drop # None => <<"account", "commit">> \in w.needs
    /\ w.state = "open" => \A n \in w.tell : n[2] \in DOMAIN Rows(w.insert, "blocked")
    /\ \A y, z \in DOMAIN Rows(w.insert, "reset") : y = z
    /\ \A z \in DOMAIN Rows(w.insert, "reset") : Rows(w.insert, "reset")[z].with \in DOMAIN Rows(w.insert, "blocked")
AuthPromise(w) == w.drop = None => OtpOnce(Flushed(w, "issued"), Flushed(w, "otp"))

AuthInv ==
    /\ DOMAIN db = AuthTables \cup {"notice"} /\ today \in 0..MaxDay
    /\ AuthTyped /\ OnlyInv({"left"})
    /\ \A s \in Sessions : AuthWork(tx[s])
    /\ \A n \in Keys("notice") : n[2] \in Keys("blocked")
    /\ \A s \in Sessions : tx[s].state = "after" => \A n \in tx[s].tell : n[2] \in Keys("blocked")
    /\ \A z \in Keys("reset") : db["reset"][z].with \in Keys("blocked")
    /\ \A y, z \in Keys("reset") : db["reset"][y].with = db["reset"][z].with => y = z
    /\ serial => /\ OtpOnce(db["issued"], db["otp"])
                 /\ \A s \in Sessions : Busy(s) => AuthPromise(tx[s])

AuthOpens(s, w, objects) ==
    /\ Opens(s, w, objects) /\ OnlyFits(w, {"left"}) /\ AuthFits(w) /\ AuthWork(w)
    /\ serial => AuthPromise(w)

(* Tokens that come from no code leave the codes as they are.              *)
LEMMA OtpsAlone ==
  ASSUME AuthInv, serial, NEW w, AuthWork(w), Rows(w.insert, "otp") = None, Rows(w.update, "otp") = None,
         \A t \in DOMAIN Rows(w.insert, "issued") : Rows(w.insert, "issued")[t].from \notin Otps
  PROVE  AuthPromise(w)
<1> SUFFICES ASSUME w.drop = None PROVE OtpOnce(Flushed(w, "issued"), Flushed(w, "otp"))
  BY DEF AuthPromise
<1>1. PICK f, g, new : f = Flushed(w, "issued") /\ g = Flushed(w, "otp") /\ new = Rows(w.insert, "issued")
  OBVIOUS
<1>2. Rows(w.put, "issued") = None /\ Rows(w.put, "otp") = None /\ Rows(w.update, "issued") = None
  BY NoRows DEF AuthWork
<1>03. /\ DOMAIN Flushed(w, "issued") = Keys("issued") \cup DOMAIN Rows(w.insert, "issued")
       /\ \A t \in DOMAIN Rows(w.insert, "issued") : Flushed(w, "issued")[t] = Rows(w.insert, "issued")[t]
       /\ \A t \in Keys("issued") : t \notin DOMAIN Rows(w.insert, "issued") => Flushed(w, "issued")[t] = db["issued"][t]
  BY <1>2, InsertFlush
<1>3. /\ DOMAIN f = Keys("issued") \cup DOMAIN new
      /\ \A t \in DOMAIN new : f[t] = new[t] /\ f[t].from \notin Otps
      /\ \A t \in Keys("issued") : t \notin DOMAIN new => f[t] = db["issued"][t]
  BY <1>1, <1>03
<1>4. DOMAIN g = Keys("otp") /\ \A o \in Keys("otp") : g[o] = db["otp"][o]
  BY <1>1, <1>2, SameFlush
<1>5. OtpOnce(db["issued"], db["otp"])
  BY DEF AuthInv
<1>6. \A t \in DOMAIN f : f[t].from \in Otps => t \in Keys("issued") /\ f[t] = db["issued"][t]
  BY <1>3
<1>7. OtpOnce(f, g)
  <2>1. ASSUME NEW t \in DOMAIN f, NEW r \in DOMAIN f, f[t].from = f[r].from, f[t].from \in Otps PROVE t = r
    BY <1>5, <1>6, <2>1 DEF OtpOnce, Keys
  <2>2. ASSUME NEW t \in DOMAIN f, f[t].from \in Otps PROVE f[t].from \in DOMAIN g /\ g[f[t].from].used
    BY <1>4, <1>5, <1>6, <2>2 DEF OtpOnce, Keys
  <2>3. ASSUME NEW o \in DOMAIN g, NEW p \in DOMAIN g, g[o].of = g[p].of, ~g[o].used, ~g[p].used PROVE o = p
    BY <1>4, <1>5, <2>3 DEF OtpOnce, Keys
  <2> QED BY <2>1, <2>2, <2>3 DEF OtpOnce
<1> QED BY <1>1, <1>7

(* A token is of its type.                                                 *)
LEMMA IssueTyped ==
  ASSUME AuthInv, NEW kind \in {"access", "refresh", "reset"}, NEW u \in Accounts,
         NEW from \in {"login"} \cup Tokens \cup Otps
  PROVE  Issue(kind, u, from) \in Token /\ Issue(kind, u, from).from = from
<1>1. PICK until : until = Until(kind) /\ until \in 0..(MaxDay + 1)
  BY CalendarConstants DEF AuthInv, Until
<1>2. Issue(kind, u, from) = [kind |-> kind, of |-> <<"account", u>>, until |-> until, from |-> from]
  BY <1>1 DEF Issue
<1> QED BY <1>1, <1>2 DEF Token

(* The account of a token is an account.                                   *)
LEMMA HolderIs ==
  ASSUME AuthInv, NEW t \in Keys("issued") PROVE AccountOf(t) \in Accounts /\ db["issued"][t] \in Token
<1>1. db["issued"][t] \in Token
  BY DEF AuthInv, AuthTyped, TableInv, Table
<1> QED BY <1>1 DEF AccountOf, Token

(* What is blocked is of its type.                                         *)
LEMMA BlockIs ==
  ASSUME AuthInv, NEW T, T \subseteq Keys("issued")
  PROVE  DOMAIN Block(T) = T /\ \A t \in T : t \in Tokens /\ Block(T)[t] \in BlockRow
<1>1. Keys("issued") \subseteq Tokens /\ \A t \in T : db["issued"][t] \in Token
  BY HolderIs DEF AuthInv, AuthTyped, TableInv, Table
<1>2. \A t \in T : db["issued"][t].until \in 0..(MaxDay + 1)
  BY <1>1 DEF Token
<1> QED BY <1>1, <1>2 DEF Block, BlockRow

(* What the handler of "login" collects is sound.                          *)
LEMMA LoginPrepares ==
  ASSUME AuthInv, NEW s \in Sessions, NEW u \in Accounts, NEW t \in Tokens, NEW r \in Tokens, Login(s, u, t, r)
  PROVE  \E w, objects : AuthOpens(s, w, objects)
<1>1. PICK row, other, all, new : /\ row = Issue("access", u, "login") /\ other = Issue("refresh", u, "login")
                                  /\ all = ((t :> row) @@ (r :> other)) /\ new = [issued |-> all]
  OBVIOUS
<1>2. PICK w : w = [Work EXCEPT !.insert = new]
  OBVIOUS
<1>3. BeginWith(s, w, stored \cup {})
  BY <1>1, <1>2 DEF Login, Begin, BeginStoring
<1>4. /\ w.insert = new /\ w.update = None /\ w.put = None /\ w.drop = None /\ w.tell = {} /\ w.state = "open"
      /\ WorkShape(w)
  BY <1>2 DEF Work, Idle, WorkShape
<1>5. Rows(w.insert, "issued") = all /\ \A x \in {"notice", "account", "blocked", "otp", "reset"} : Rows(w.insert, x) = None
  BY <1>1, <1>4 DEF Rows
<1>6. DOMAIN None = {} /\ \A x : Rows(w.update, x) = None /\ Rows(w.put, x) = None
  BY <1>4, NoRows
<1>7. DOMAIN all \subseteq {t, r} /\ \A x \in DOMAIN all : all[x] \in Token /\ all[x].from = "login"
  <2>1. row \in Token /\ other \in Token /\ row.from = "login" /\ other.from = "login"
    BY <1>1, IssueTyped
  <2>2. DOMAIN all \subseteq {t, r} /\ \A x \in DOMAIN all : all[x] \in {row, other}
    <3>1. PICK one, two : one = (t :> row) /\ two = (r :> other)
      OBVIOUS
    <3>2. DOMAIN one = {t} /\ one[t] = row /\ DOMAIN two = {r} /\ two[r] = other /\ all = one @@ two
      BY <1>1, <3>1, OneOf
    <3>3. all = [x \in DOMAIN one \cup DOMAIN two |-> IF x \in DOMAIN one THEN one[x] ELSE two[x]]
      BY <3>2 DEF @@
    <3> QED BY <3>2, <3>3
  <2> QED BY <2>1, <2>2
<1>8. OnlyFits(w, {"left"}) /\ AuthFits(w) /\ AuthWork(w)
  BY <1>4, <1>5, <1>6, <1>7 DEF Fits, OnlyFits, AuthFits, AuthWork
<1>9. serial => AuthPromise(w)
  BY <1>5, <1>6, <1>7, <1>8, OtpsAlone, AuthConstants
<1> QED BY <1>3, <1>4, <1>8, <1>9 DEF AuthOpens, Opens

(* What the handler of "refresh token" collects is sound.                  *)
LEMMA RefreshPrepares ==
  ASSUME AuthInv, NEW s \in Sessions, NEW r \in Tokens, NEW t \in Tokens, RefreshToken(s, r, t)
  PROVE  \E w, objects : AuthOpens(s, w, objects)
<1>1. PICK row, one, new : row = Issue("access", AccountOf(r), r) /\ one = (t :> row) /\ new = [issued |-> one]
  OBVIOUS
<1>2. PICK w : w = [Work EXCEPT !.insert = new]
  OBVIOUS
<1>3. BeginWith(s, w, stored \cup {})
  BY <1>1, <1>2 DEF RefreshToken, Begin, BeginStoring
<1>4. /\ w.insert = new /\ w.update = None /\ w.put = None /\ w.drop = None /\ w.tell = {} /\ w.state = "open"
      /\ WorkShape(w)
  BY <1>2 DEF Work, Idle, WorkShape
<1>5. Rows(w.insert, "issued") = one /\ \A x \in {"notice", "account", "blocked", "otp", "reset"} : Rows(w.insert, x) = None
  BY <1>1, <1>4 DEF Rows
<1>6. DOMAIN None = {} /\ \A x : Rows(w.update, x) = None /\ Rows(w.put, x) = None
  BY <1>4, NoRows
<1>7. DOMAIN one = {t} /\ one[t] \in Token /\ one[t].from = r
  <2>1. AccountOf(r) \in Accounts
    BY HolderIs DEF RefreshToken, Accepted, Decodes
  <2>2. row \in Token /\ row.from = r
    BY <1>1, <2>1, IssueTyped
  <2> QED BY <1>1, <2>2, OneOf
<1>8. OnlyFits(w, {"left"}) /\ AuthFits(w) /\ AuthWork(w)
  BY <1>4, <1>5, <1>6, <1>7 DEF Fits, OnlyFits, AuthFits, AuthWork
<1>9. serial => AuthPromise(w)
  <2>1. r \notin Otps
    BY AuthConstants
  <2> QED BY <1>5, <1>6, <1>7, <1>8, <2>1, OtpsAlone
<1> QED BY <1>3, <1>4, <1>8, <1>9 DEF AuthOpens, Opens

(* What the handler of "logout" collects is sound.                         *)
LEMMA LogoutPrepares ==
  ASSUME AuthInv, NEW s \in Sessions, NEW t \in Tokens, NEW refresh \in {{}} \cup {{r} : r \in Tokens},
         Logout(s, t, refresh)
  PROVE  \E w, objects : AuthOpens(s, w, objects)
<1>1. PICK out : out = {t} \cup {r \in refresh : Decodes(r, "refresh")}
  OBVIOUS
<1>2. PICK block, new, tell : block = Block(out) /\ new = [blocked |-> block] /\ tell = {<<"left", r>> : r \in out}
  OBVIOUS
<1>3. PICK w : w = [Work EXCEPT !.insert = new, !.tell = tell]
  OBVIOUS
<1>4. BeginWith(s, w, stored \cup {})
  BY <1>1, <1>2, <1>3 DEF Logout, Begin, BeginStoring
<1>5. /\ w.insert = new /\ w.update = None /\ w.put = None /\ w.drop = None /\ w.tell = tell /\ w.state = "open"
      /\ WorkShape(w)
  BY <1>3 DEF Work, Idle, WorkShape
<1>6. Rows(w.insert, "blocked") = block /\ \A x \in {"notice", "account", "issued", "otp", "reset"} : Rows(w.insert, x) = None
  BY <1>2, <1>5 DEF Rows
<1>7. DOMAIN None = {} /\ \A x : Rows(w.update, x) = None /\ Rows(w.put, x) = None
  BY <1>5, NoRows
<1>8. DOMAIN block = out /\ \A r \in out : r \in Tokens /\ block[r] \in BlockRow
  <2>1. out \subseteq Keys("issued")
    BY <1>1 DEF Logout, Accepted, Decodes
  <2> QED BY <1>2, <2>1, BlockIs
<1>9. OnlyFits(w, {"left"}) /\ AuthFits(w) /\ AuthWork(w)
  <2>1. \A n \in tell : n[1] = "left" /\ n[2] \in out
    BY <1>2
  <2> QED BY <1>5, <1>6, <1>7, <1>8, <2>1 DEF Fits, OnlyFits, AuthFits, AuthWork
<1>10. serial => AuthPromise(w)
  BY <1>6, <1>7, <1>9, OtpsAlone
<1> QED BY <1>4, <1>5, <1>9, <1>10 DEF AuthOpens, Opens

(* What the handler of "reset password" collects is sound.                 *)
LEMMA ResetPrepares ==
  ASSUME AuthInv, NEW s \in Sessions, NEW t \in Tokens, NEW z \in Resets, ResetPassword(s, t, z)
  PROVE  \E w, objects : AuthOpens(s, w, objects)
<1>1. PICK row, one, block, new : /\ row = [with |-> t] /\ one = (z :> row) /\ block = Block({t})
                                  /\ new = [reset |-> one, blocked |-> block]
  OBVIOUS
<1>2. PICK w : w = [Work EXCEPT !.insert = new]
  OBVIOUS
<1>3. BeginWith(s, w, stored \cup {})
  BY <1>1, <1>2 DEF ResetPassword, Begin, BeginStoring
<1>4. /\ w.insert = new /\ w.update = None /\ w.put = None /\ w.drop = None /\ w.tell = {} /\ w.state = "open"
      /\ WorkShape(w)
  BY <1>2 DEF Work, Idle, WorkShape
<1>5. /\ Rows(w.insert, "blocked") = block /\ Rows(w.insert, "reset") = one
      /\ \A x \in {"notice", "account", "issued", "otp"} : Rows(w.insert, x) = None
  BY <1>1, <1>4 DEF Rows
<1>6. DOMAIN None = {} /\ \A x : Rows(w.update, x) = None /\ Rows(w.put, x) = None
  BY <1>4, NoRows
<1>7. /\ DOMAIN block = {t} /\ block[t] \in BlockRow
      /\ DOMAIN one = {z} /\ one[z] = row /\ row \in ResetRow /\ row.with = t
  <2>1. {t} \subseteq Keys("issued")
    BY DEF ResetPassword, Accepted, Decodes
  <2> QED BY <1>1, <2>1, BlockIs, OneOf DEF ResetRow
<1>8. OnlyFits(w, {"left"}) /\ AuthFits(w) /\ AuthWork(w)
  BY <1>4, <1>5, <1>6, <1>7 DEF Fits, OnlyFits, AuthFits, AuthWork
<1>9. serial => AuthPromise(w)
  BY <1>5, <1>6, <1>8, OtpsAlone
<1> QED BY <1>3, <1>4, <1>8, <1>9 DEF AuthOpens, Opens

(* What the handler of "set active" collects is sound.                     *)
LEMMA SetActivePrepares ==
  ASSUME AuthInv, NEW s \in Sessions, NEW u \in Accounts, NEW active \in BOOLEAN, SetActive(s, u, active)
  PROVE  \E w, objects : AuthOpens(s, w, objects)
<1>1. PICK cols, one, up : cols = [active |-> active] /\ one = (u :> cols) /\ up = [account |-> one]
  OBVIOUS
<1>2. PICK w : w = [Work EXCEPT !.update = up]
  OBVIOUS
<1>3. BeginWith(s, w, stored \cup {})
  BY <1>1, <1>2 DEF SetActive, Begin, BeginStoring
<1>4. /\ w.insert = None /\ w.update = up /\ w.put = None /\ w.drop = None /\ w.tell = {} /\ w.state = "open"
      /\ WorkShape(w)
  BY <1>2 DEF Work, Idle, WorkShape
<1>5. /\ Rows(w.update, "account") = one
      /\ \A x \in {"notice", "issued", "blocked", "otp", "reset"} : Rows(w.update, x) = None
  BY <1>1, <1>4 DEF Rows
<1>6. DOMAIN None = {} /\ \A x : Rows(w.insert, x) = None /\ Rows(w.put, x) = None
  BY <1>4, NoRows
<1>7. DOMAIN one = {u} /\ one[u] = cols /\ Fitting(AccountRow, cols)
  <2>1. DOMAIN cols = {"active"} /\ cols["active"] \in BOOLEAN
    BY <1>1
  <2>2. Fitting(AccountRow, cols)
    BY <2>1, YearFitting DEF AccountRow, Year
  <2> QED BY <1>1, <2>2, OneOf
<1>8. OnlyFits(w, {"left"}) /\ AuthFits(w) /\ AuthWork(w)
  BY <1>4, <1>5, <1>6, <1>7 DEF Fits, OnlyFits, AuthFits, AuthWork
<1>9. serial => AuthPromise(w)
  BY <1>5, <1>6, <1>8, OtpsAlone
<1> QED BY <1>3, <1>4, <1>8, <1>9 DEF AuthOpens, Opens

(* What the purge collects is sound.                                       *)
LEMMA CleanUpPrepares ==
  ASSUME AuthInv, NEW s \in Sessions, CleanUp(s)
  PROVE  \E w, objects : AuthOpens(s, w, objects)
<1>1. PICK gone, needs : /\ gone = [otp |-> Expired("otp"), blocked |-> Expired("blocked")]
                         /\ needs = {<<"account", "commit">>}
  OBVIOUS
<1>2. PICK w : w = [Work EXCEPT !.drop = gone, !.needs = needs]
  OBVIOUS
<1>3. BeginWith(s, w, stored \cup {})
  BY <1>1, <1>2 DEF CleanUp, Begin, BeginStoring
<1>4. /\ w.insert = None /\ w.update = None /\ w.put = None /\ w.drop = gone /\ w.needs = needs
      /\ w.tell = {} /\ w.state = "open" /\ WorkShape(w)
  BY <1>2 DEF Work, Idle, WorkShape
<1>5. DOMAIN None = {} /\ \A x : Rows(w.insert, x) = None /\ Rows(w.put, x) = None /\ Rows(w.update, x) = None
  BY <1>4, NoRows
<1>6. OnlyFits(w, {"left"}) /\ AuthFits(w) /\ AuthWork(w)
  BY <1>1, <1>4, <1>5 DEF Fits, OnlyFits, AuthFits, AuthWork
<1>7. AuthPromise(w)
  <2>1. w.drop # None
    <3>1. "otp" \in DOMAIN gone
      BY <1>1
    <3> QED BY <1>4, <1>5, <3>1
  <2> QED BY <2>1 DEF AuthPromise
<1> QED BY <1>3, <1>4, <1>6, <1>7 DEF AuthOpens, Opens

(* A code that is used stays of its type.                                  *)
LEMMA OtpFitting ==
  ASSUME NEW columns, DOMAIN columns = {"used"}, columns["used"] \in BOOLEAN
  PROVE  Fitting(Otp, columns)
<1>1. ASSUME NEW row \in Otp PROVE Over(row, columns) \in Otp
  <2>1. PICK new : new = Over(row, columns)
    OBVIOUS
  <2>2. new = [x \in {"of", "used", "until"} |-> IF x \in DOMAIN columns THEN columns[x] ELSE row[x]]
    BY <2>1, OverIs DEF Otp
  <2>3. new["of"] = row["of"] /\ new["until"] = row["until"] /\ new["used"] \in BOOLEAN
    BY <2>2
  <2>4. new = [of |-> row["of"], used |-> new["used"], until |-> row["until"]]
    BY <2>2, <2>3
  <2> QED BY <2>1, <2>3, <2>4 DEF Otp
<1> QED BY <1>1 DEF Fitting

(* What the handler of "forgot password" collects is sound.                *)
LEMMA ForgotPrepares ==
  ASSUME AuthInv, NEW s \in Sessions, NEW u \in Accounts, NEW o \in Otps, ForgotPassword(s, u, o)
  PROVE  \E w, objects : AuthOpens(s, w, objects)
<1>1. PICK yes, no, later : yes = TRUE /\ no = FALSE /\ later = today + 1
  OBVIOUS
<1>2. PICK cols, used, row, one, up, new : /\ cols = [used |-> yes] /\ used = [q \in Pending(u) |-> cols]
                                           /\ row = [of |-> <<"account", u>>, used |-> no, until |-> later]
                                           /\ one = (o :> row) /\ up = [otp |-> used] /\ new = [otp |-> one]
  OBVIOUS
<1>3. PICK w : w = [Work EXCEPT !.update = up, !.insert = new]
  OBVIOUS
<1>4. BeginWith(s, w, stored \cup {})
  BY <1>1, <1>2, <1>3 DEF ForgotPassword, Begin, BeginStoring
<1>5. /\ w.insert = new /\ w.update = up /\ w.put = None /\ w.drop = None /\ w.tell = {} /\ w.state = "open"
      /\ WorkShape(w)
  BY <1>3 DEF Work, Idle, WorkShape
<1>6. /\ Rows(w.update, "otp") = used /\ Rows(w.insert, "otp") = one
      /\ \A x \in {"notice", "account", "issued", "blocked", "reset"} : Rows(w.update, x) = None /\ Rows(w.insert, x) = None
  BY <1>2, <1>5 DEF Rows
<1>7. DOMAIN None = {} /\ \A x : Rows(w.put, x) = None
  BY <1>5, NoRows
<1>8. /\ DOMAIN used = Pending(u) /\ \A q \in Pending(u) : used[q] = cols
      /\ DOMAIN cols = {"used"} /\ cols["used"] = TRUE /\ Fitting(Otp, cols)
      /\ DOMAIN one = {o} /\ one[o] = row /\ row \in Otp
  <2>1. later \in 0..(MaxDay + 1)
    BY <1>1, CalendarConstants DEF AuthInv
  <2>2. row \in Otp
    BY <1>1, <1>2, <2>1 DEF Otp
  <2>3. DOMAIN cols = {"used"} /\ cols["used"] = TRUE
    BY <1>1, <1>2
  <2> QED BY <1>2, <2>2, <2>3, OneOf, OtpFitting
<1>9. OnlyFits(w, {"left"}) /\ AuthFits(w) /\ AuthWork(w)
  BY <1>5, <1>6, <1>7, <1>8 DEF Fits, OnlyFits, AuthFits, AuthWork
<1>10. ASSUME serial PROVE AuthPromise(w)
  <2>1. PICK f, g : f = Flushed(w, "issued") /\ g = Flushed(w, "otp")
    OBVIOUS
  <2>2. DOMAIN f = Keys("issued") /\ \A t \in Keys("issued") : f[t] = db["issued"][t]
    BY <1>5, <1>6, <1>7, <2>1, SameFlush
  <2>3. /\ DOMAIN Flushed(w, "otp") = Keys("otp") \cup DOMAIN Rows(w.insert, "otp")
        /\ \A k \in DOMAIN Flushed(w, "otp") : Flushed(w, "otp")[k] =
               IF k \in DOMAIN Rows(w.insert, "otp") THEN Rows(w.insert, "otp")[k]
               ELSE IF k \in DOMAIN Rows(w.update, "otp") THEN Over(db["otp"][k], Rows(w.update, "otp")[k])
               ELSE db["otp"][k]
    BY <1>5, <1>7, PlainFlush
  <2>4. /\ DOMAIN g = Keys("otp") \cup {o} /\ g[o] = row
        /\ \A q \in Keys("otp") : q # o => g[q] = IF q \in Pending(u) THEN Over(db["otp"][q], cols) ELSE db["otp"][q]
    BY <1>6, <1>8, <2>1, <2>3
  <2>5. \A q \in Keys("otp") : db["otp"][q] \in Otp
    BY DEF AuthInv, AuthTyped, TableInv, Table
  <2>6. ASSUME NEW q \in Keys("otp"), q # o, q \in Pending(u) PROVE g[q].used
    <3>1. PICK old, over : old = db["otp"][q] /\ over = Over(old, cols)
      OBVIOUS
    <3>2. over["used"] = TRUE
      BY <1>8, <2>5, <2>6, <3>1, OverIs DEF Otp
    <3> QED BY <2>4, <2>6, <3>1, <3>2
  <2>7. o \notin Keys("otp")
    BY DEF ForgotPassword, Unused
  <2>8. ASSUME NEW q \in Keys("otp") PROVE (q \in Pending(u) /\ g[q].used) \/ (q \notin Pending(u) /\ g[q] = db["otp"][q])
    BY <2>4, <2>6, <2>7, <2>8
  <2>9. OtpOnce(db["issued"], db["otp"])
    BY <1>10 DEF AuthInv
  <2>10. \A q \in Pending(u) : ~db["otp"][q].used
    BY DEF Pending
  <2>11. ASSUME NEW q \in Keys("otp"), ~g[q].used
         PROVE  db["otp"][q].of # <<"account", u>> /\ g[q] = db["otp"][q] /\ ~db["otp"][q].used
    BY <2>8, <2>11 DEF Pending
  <2>12. row.of = <<"account", u>>
    BY <1>2
  <2>13. ASSUME NEW t \in DOMAIN f, f[t].from \in Otps PROVE f[t].from \in DOMAIN g /\ g[f[t].from].used
    <3>1. f[t].from \in Keys("otp") /\ db["otp"][f[t].from].used
      BY <2>2, <2>9, <2>13 DEF OtpOnce, Keys
    <3> QED BY <2>4, <2>8, <2>10, <3>1
  <2>14. ASSUME NEW t \in DOMAIN f, NEW r \in DOMAIN f, f[t].from = f[r].from, f[t].from \in Otps PROVE t = r
    BY <2>2, <2>9, <2>14 DEF OtpOnce, Keys
  <2>15. ASSUME NEW q \in DOMAIN g, NEW p \in DOMAIN g, g[q].of = g[p].of, ~g[q].used, ~g[p].used PROVE q = p
    <3>1. CASE q = o \/ p = o
      BY <2>4, <2>7, <2>11, <2>12, <2>15, <3>1
    <3>2. CASE q # o /\ p # o
      <4>1. q \in Keys("otp") /\ p \in Keys("otp") /\ g[q] = db["otp"][q] /\ g[p] = db["otp"][p]
        BY <2>4, <2>11, <2>15, <3>2
      <4> QED BY <2>9, <2>15, <4>1 DEF OtpOnce, Keys
    <3> QED BY <3>1, <3>2
  <2>16. OtpOnce(f, g)
    BY <2>13, <2>14, <2>15 DEF OtpOnce
  <2> QED BY <2>1, <2>16 DEF AuthPromise
<1> QED BY <1>4, <1>5, <1>9, <1>10 DEF AuthOpens, Opens

(* What the handler of "verify otp" collects is sound: a code that was not *)
(* used has given no token.                                                *)
LEMMA VerifyOtpPrepares ==
  ASSUME AuthInv, NEW s \in Sessions, NEW u \in Accounts, NEW o \in Otps, NEW t \in Tokens, VerifyOtp(s, u, o, t)
  PROVE  \E w, objects : AuthOpens(s, w, objects)
<1>1. PICK yes : yes = TRUE
  OBVIOUS
<1>2. PICK cols, used, row, one, up, new : /\ cols = [used |-> yes] /\ used = (o :> cols)
                                           /\ row = Issue("reset", u, o) /\ one = (t :> row)
                                           /\ up = [otp |-> used] /\ new = [issued |-> one]
  OBVIOUS
<1>3. PICK w : w = [Work EXCEPT !.update = up, !.insert = new]
  OBVIOUS
<1>4. BeginWith(s, w, stored \cup {})
  BY <1>1, <1>2, <1>3 DEF VerifyOtp, Begin, BeginStoring
<1>5. /\ w.insert = new /\ w.update = up /\ w.put = None /\ w.drop = None /\ w.tell = {} /\ w.state = "open"
      /\ WorkShape(w)
  BY <1>3 DEF Work, Idle, WorkShape
<1>6. /\ Rows(w.update, "otp") = used /\ Rows(w.insert, "issued") = one
      /\ \A x \in {"notice", "account", "issued", "blocked", "reset"} : Rows(w.update, x) = None
      /\ \A x \in {"notice", "account", "otp", "blocked", "reset"} : Rows(w.insert, x) = None
  BY <1>2, <1>5 DEF Rows
<1>7. DOMAIN None = {} /\ \A x : Rows(w.put, x) = None
  BY <1>5, NoRows
<1>8. /\ DOMAIN used = {o} /\ used[o] = cols
      /\ DOMAIN cols = {"used"} /\ cols["used"] = TRUE /\ Fitting(Otp, cols)
      /\ DOMAIN one = {t} /\ one[t] = row /\ row \in Token /\ row.from = o
  <2>1. DOMAIN cols = {"used"} /\ cols["used"] = TRUE
    BY <1>1, <1>2
  <2>2. row \in Token /\ row.from = o
    BY <1>2, IssueTyped
  <2>3. DOMAIN used = {o} /\ used[o] = cols /\ DOMAIN one = {t} /\ one[t] = row
    BY <1>2, OneOf
  <2>4. Fitting(Otp, cols)
    BY <1>1, <2>1, OtpFitting
  <2> QED BY <2>1, <2>2, <2>3, <2>4
<1>9. OnlyFits(w, {"left"}) /\ AuthFits(w) /\ AuthWork(w)
  BY <1>5, <1>6, <1>7, <1>8 DEF Fits, OnlyFits, AuthFits, AuthWork
<1>10. ASSUME serial PROVE AuthPromise(w)
  <2>1. PICK f, g : f = Flushed(w, "issued") /\ g = Flushed(w, "otp")
    OBVIOUS
  <2>2. /\ DOMAIN Flushed(w, "issued") = Keys("issued") \cup DOMAIN Rows(w.insert, "issued")
        /\ \A k \in DOMAIN Rows(w.insert, "issued") : Flushed(w, "issued")[k] = Rows(w.insert, "issued")[k]
        /\ \A k \in Keys("issued") : k \notin DOMAIN Rows(w.insert, "issued") => Flushed(w, "issued")[k] = db["issued"][k]
    BY <1>5, <1>6, <1>7, InsertFlush
  <2>3. DOMAIN f = Keys("issued") \cup {t} /\ f[t] = row /\ \A k \in Keys("issued") : k # t => f[k] = db["issued"][k]
    BY <1>6, <1>8, <2>1, <2>2
  <2>4. /\ DOMAIN Flushed(w, "otp") = Keys("otp")
        /\ \A k \in DOMAIN Rows(w.update, "otp") : k \in Keys("otp") =>
              Flushed(w, "otp")[k] = Over(db["otp"][k], Rows(w.update, "otp")[k])
        /\ \A k \in Keys("otp") : k \notin DOMAIN Rows(w.update, "otp") => Flushed(w, "otp")[k] = db["otp"][k]
    BY <1>5, <1>6, <1>7, UpdateFlush
  <2>5. o \in Keys("otp") /\ ~db["otp"][o].used /\ t \notin Keys("issued")
    BY DEF VerifyOtp, ValidOtps, Pending, Unused
  <2>6. /\ DOMAIN g = Keys("otp") /\ g[o] = Over(db["otp"][o], cols)
        /\ \A q \in Keys("otp") : q # o => g[q] = db["otp"][q]
    BY <1>6, <1>8, <2>1, <2>4, <2>5
  <2>7. g[o].used
    <3>1. PICK old, over : old = db["otp"][o] /\ over = Over(old, cols)
      OBVIOUS
    <3>2. old \in Otp
      BY <2>5, <3>1 DEF AuthInv, AuthTyped, TableInv, Table
    <3>3. over["used"] = TRUE
      BY <1>8, <3>1, <3>2, OverIs DEF Otp
    <3> QED BY <2>6, <3>1, <3>3
  <2>8. OtpOnce(db["issued"], db["otp"])
    BY <1>10 DEF AuthInv
  <2>9. \A k \in Keys("issued") : f[k] = db["issued"][k] /\ f[k].from # o
    <3>1. ASSUME NEW k \in Keys("issued"), db["issued"][k].from = o PROVE FALSE
      BY <2>5, <2>8, <3>1 DEF OtpOnce, Keys
    <3> QED BY <2>3, <2>5, <3>1
  <2>10. ASSUME NEW k \in DOMAIN f, f[k].from \in Otps PROVE f[k].from \in DOMAIN g /\ g[f[k].from].used
    <3>1. CASE k = t
      BY <1>8, <2>3, <2>5, <2>6, <2>7, <3>1
    <3>2. CASE k # t
      <4>1. k \in Keys("issued") /\ f[k] = db["issued"][k] /\ f[k].from # o
        BY <2>3, <2>9, <2>10, <3>2
      <4>2. f[k].from \in Keys("otp") /\ db["otp"][f[k].from].used
        BY <2>8, <2>10, <4>1 DEF OtpOnce, Keys
      <4> QED BY <2>6, <4>1, <4>2
    <3> QED BY <3>1, <3>2
  <2>11. ASSUME NEW k \in DOMAIN f, NEW r \in DOMAIN f, f[k].from = f[r].from, f[k].from \in Otps PROVE k = r
    <3>1. CASE k = t \/ r = t
      BY <1>8, <2>3, <2>9, <2>11, <3>1
    <3>2. CASE k # t /\ r # t
      <4>1. k \in Keys("issued") /\ f[k] = db["issued"][k] /\ r \in Keys("issued") /\ f[r] = db["issued"][r]
        BY <2>3, <2>9, <2>11, <3>2
      <4> QED BY <2>8, <2>11, <4>1 DEF OtpOnce, Keys
    <3> QED BY <3>1, <3>2
  <2>12. ASSUME NEW q \in DOMAIN g, NEW p \in DOMAIN g, g[q].of = g[p].of, ~g[q].used, ~g[p].used PROVE q = p
    <3>1. q # o /\ p # o /\ g[q] = db["otp"][q] /\ g[p] = db["otp"][p] /\ q \in Keys("otp") /\ p \in Keys("otp")
      BY <2>6, <2>7, <2>12
    <3> QED BY <2>8, <2>12, <3>1 DEF OtpOnce, Keys
  <2>13. OtpOnce(f, g)
    BY <2>10, <2>11, <2>12 DEF OtpOnce
  <2> QED BY <2>1, <2>13 DEF AuthPromise
<1> QED BY <1>4, <1>5, <1>9, <1>10 DEF AuthOpens, Opens

(* The handlers of authentication preserve their invariant.                *)
LEMMA AuthBegin ==
  ASSUME Shape, AuthInv, NEW s \in Sessions, AuthStep(s)
  PROVE  AuthInv' /\ Shape' /\ area' = area
<1>1. PICK w, objects : AuthOpens(s, w, objects)
  <2>1. ASSUME NEW u \in Accounts, NEW t \in Tokens, NEW r \in Tokens, Login(s, u, t, r)
        PROVE  \E w, objects : AuthOpens(s, w, objects)
    BY <2>1, LoginPrepares
  <2>2. ASSUME NEW r \in Tokens, NEW t \in Tokens, RefreshToken(s, r, t)
        PROVE  \E w, objects : AuthOpens(s, w, objects)
    BY <2>2, RefreshPrepares
  <2>3. ASSUME NEW t \in Tokens, NEW refresh \in {{}} \cup {{r} : r \in Tokens}, Logout(s, t, refresh)
        PROVE  \E w, objects : AuthOpens(s, w, objects)
    BY <2>3, LogoutPrepares
  <2>4. ASSUME NEW u \in Accounts, NEW o \in Otps, ForgotPassword(s, u, o)
        PROVE  \E w, objects : AuthOpens(s, w, objects)
    BY <2>4, ForgotPrepares
  <2>5. ASSUME NEW u \in Accounts, NEW o \in Otps, NEW t \in Tokens, VerifyOtp(s, u, o, t)
        PROVE  \E w, objects : AuthOpens(s, w, objects)
    BY <2>5, VerifyOtpPrepares
  <2>6. ASSUME NEW t \in Tokens, NEW z \in Resets, ResetPassword(s, t, z)
        PROVE  \E w, objects : AuthOpens(s, w, objects)
    BY <2>6, ResetPrepares
  <2>7. ASSUME NEW u \in Accounts, NEW active \in BOOLEAN, SetActive(s, u, active)
        PROVE  \E w, objects : AuthOpens(s, w, objects)
    BY <2>7, SetActivePrepares
  <2>8. CASE CleanUp(s)
    BY <2>8, CleanUpPrepares
  <2> QED BY <2>1, <2>2, <2>3, <2>4, <2>5, <2>6, <2>7, <2>8, Zenon DEF AuthStep
<1>2. /\ Shape' /\ UNCHANGED <<area, db, serial, today>> /\ tx' = [q \in Sessions |-> IF q = s THEN w ELSE tx[q]]
      /\ w.state = "open"
  BY <1>1, BeginShape DEF AuthOpens, Opens
<1>3. TableStays("account", Accounts, AccountRow)
  BY <1>1, TableBegin DEF AuthInv, AuthTyped, AuthFits, AuthOpens, Opens
<1>4. TableStays("issued", Tokens, Token)
  BY <1>1, TableBegin DEF AuthInv, AuthTyped, AuthFits, AuthOpens, Opens
<1>5. TableStays("blocked", Tokens, BlockRow)
  BY <1>1, TableBegin DEF AuthInv, AuthTyped, AuthFits, AuthOpens, Opens
<1>6. TableStays("otp", Otps, Otp)
  BY <1>1, TableBegin DEF AuthInv, AuthTyped, AuthFits, AuthOpens, Opens
<1>7. TableStays("reset", Resets, ResetRow)
  BY <1>1, TableBegin DEF AuthInv, AuthTyped, AuthFits, AuthOpens, Opens
<1>8. OnlyInv({"left"})'
  BY <1>1, OnlyBegin DEF AuthInv, AuthOpens, Opens
<1>9. ASSUME NEW q \in Sessions
      PROVE  /\ AuthWork(tx[q])'
             /\ tx'[q].state = "after" => \A n \in tx'[q].tell : n[2] \in Keys("blocked")
             /\ serial /\ tx'[q].state = "open" => AuthPromise(tx[q])'
  <2>1. PICK v : v = IF q = s THEN w ELSE tx[q]
    OBVIOUS
  <2>2. /\ tx[q]' = v /\ AuthWork(v)
        /\ v.state = "after" => \A n \in v.tell : n[2] \in Keys("blocked")
        /\ serial /\ v.state = "open" => AuthPromise(v)
    BY <1>1, <1>2, <2>1 DEF AuthOpens, AuthInv, Busy
  <2>3. Flushed(v, "issued")' = Flushed(v, "issued") /\ Flushed(v, "otp")' = Flushed(v, "otp")
    BY <1>2, FlushedSame
  <2>4. AuthWork(tx[q])'
    BY <2>2 DEF AuthWork, Rows
  <2> QED BY <2>2, <2>3, <2>4 DEF AuthPromise
<1>10. /\ DOMAIN db' = AuthTables \cup {"notice"} /\ today' \in 0..MaxDay
       /\ (\A n \in Keys("notice") : n[2] \in Keys("blocked"))'
       /\ (\A z \in Keys("reset") : db["reset"][z].with \in Keys("blocked"))'
       /\ (\A y, z \in Keys("reset") : db["reset"][y].with = db["reset"][z].with => y = z)'
       /\ (serial => OtpOnce(db["issued"], db["otp"]))'
  BY <1>2 DEF AuthInv, Keys
<1>11. AuthTyped'
  BY <1>3, <1>4, <1>5, <1>6, <1>7 DEF TableStays, TableInv, Fits, AuthTyped
<1>12. Keys("blocked")' = Keys("blocked")
  BY <1>2 DEF Keys
<1> QED BY <1>2, <1>8, <1>9, <1>10, <1>11, <1>12 DEF AuthInv, Busy

(* A commit loses nothing: what deletes rows is refused.                   *)
LEMMA AuthCommit ==
  ASSUME Shape, AuthInv, NEW s \in Sessions, Commit(s)
  PROVE  /\ tx[s].drop = None /\ tx[s].state = "open" /\ ~Refused(tx[s])
         /\ Keys("blocked") \subseteq Keys("blocked")' /\ DOMAIN Rows(tx[s].insert, "blocked") \subseteq Keys("blocked")'
         /\ db' = [t \in DOMAIN db |-> Flushed(tx[s], t)]
<1>1. tx[s].state = "open" /\ ~Refused(tx[s]) /\ db' = [t \in DOMAIN db |-> Flushed(tx[s], t)]
  BY CommitShape
<1>2. AuthWork(tx[s])
  BY DEF AuthInv
<1>3. tx[s].drop = None
  <2> SUFFICES ASSUME tx[s].drop # None PROVE FALSE
    OBVIOUS
  <2>1. PICK need : need = <<"account", "commit">> /\ need \in tx[s].needs
    BY <1>2 DEF AuthWork
  <2>2. need[2] \in Keys(need[1])
    BY <1>1, <2>1 DEF Refused
  <2>3. Keys("account") \subseteq Accounts
    BY DEF AuthInv, AuthTyped, TableInv, Table
  <2> QED BY <2>1, <2>2, <2>3, AuthConstants
<1>4. Keys("blocked") \subseteq DOMAIN Flushed(tx[s], "blocked") /\ DOMAIN Rows(tx[s].insert, "blocked") \subseteq DOMAIN Flushed(tx[s], "blocked")
  BY <1>3, NothingDropped
<1>5. Keys("blocked")' = DOMAIN Flushed(tx[s], "blocked")
  BY <1>1 DEF AuthInv, AuthTables, Keys
<1> QED BY <1>1, <1>3, <1>4, <1>5

(* The end of a request leaves password resets with blocked tokens, each   *)
(* with one of its own.                                                    *)
LEMMA ResetsEnd ==
  ASSUME Shape, AuthInv, NEW s \in Sessions, EndOfRequest(s)
  PROVE  /\ Keys("blocked") \subseteq Keys("blocked")'
         /\ \A z \in Keys("reset")' : db'["reset"][z].with \in Keys("blocked")'
         /\ \A y, z \in Keys("reset")' : db'["reset"][y].with = db'["reset"][z].with => y = z
<1>1. DOMAIN db' = DOMAIN db /\ "reset" \in DOMAIN db /\ "blocked" \in DOMAIN db
  BY OnlyCommits DEF AuthInv, AuthTables
<1>2. CASE Commit(s)
  <2>1. PICK w, f, new, more : w = tx[s] /\ f = Flushed(w, "reset") /\ new = Rows(w.insert, "reset") /\ more = Rows(w.insert, "blocked")
    OBVIOUS
  <2>2. /\ w.drop = None /\ ~Refused(w) /\ AuthWork(w) /\ db'["reset"] = f
        /\ Keys("blocked") \subseteq Keys("blocked")' /\ DOMAIN more \subseteq Keys("blocked")'
    BY <1>1, <1>2, <2>1, AuthCommit DEF AuthInv
  <2>3. Rows(w.put, "reset") = None /\ Rows(w.update, "reset") = None /\ Rows(w.put, "blocked") = None
    BY <2>2, NoRows DEF AuthWork
  <2>4. /\ DOMAIN Flushed(w, "reset") = Keys("reset") \cup DOMAIN Rows(w.insert, "reset")
        /\ \A z \in DOMAIN Rows(w.insert, "reset") : Flushed(w, "reset")[z] = Rows(w.insert, "reset")[z]
        /\ \A z \in Keys("reset") : z \notin DOMAIN Rows(w.insert, "reset") => Flushed(w, "reset")[z] = db["reset"][z]
    BY <2>2, <2>3, InsertFlush
  <2>5. /\ DOMAIN f = Keys("reset") \cup DOMAIN new
        /\ \A z \in DOMAIN new : f[z] = new[z]
        /\ \A z \in Keys("reset") : z \notin DOMAIN new => f[z] = db["reset"][z]
    BY <2>1, <2>4
  <2>6. \A k \in DOMAIN Rows(w.insert, "blocked") : k \notin Keys("blocked")
    BY <2>2, <2>3, KeptRows
  <2>7. /\ \A y, z \in DOMAIN new : y = z
        /\ \A z \in DOMAIN new : new[z].with \in DOMAIN more
    BY <2>1, <2>2 DEF AuthWork
  <2>8. /\ \A z \in Keys("reset") : db["reset"][z].with \in Keys("blocked")
        /\ \A y, z \in Keys("reset") : db["reset"][y].with = db["reset"][z].with => y = z
    BY DEF AuthInv
  <2>9. Keys("reset")' = DOMAIN f
    BY <2>2 DEF Keys
  <2>10. \A z \in DOMAIN f : f[z].with \in Keys("blocked")'
    BY <2>2, <2>5, <2>7, <2>8
  <2>11. \A y, z \in DOMAIN f : f[y].with = f[z].with => y = z
    BY <2>1, <2>5, <2>6, <2>7, <2>8
  <2> QED BY <2>2, <2>9, <2>10, <2>11
<1>3. CASE ~Commit(s)
  <2>1. db'["reset"] = db["reset"] /\ db'["blocked"] = db["blocked"]
    BY <1>1, <1>3, OnlyCommits
  <2> QED BY <2>1 DEF AuthInv, Keys
<1> QED BY <1>2, <1>3

(* The end of a request preserves the invariant of authentication.         *)
LEMMA AuthEnd ==
  ASSUME Shape, AuthInv, NEW s \in Sessions, EndOfRequest(s)
  PROVE  AuthInv'
<1>1. DOMAIN db' = DOMAIN db /\ DOMAIN db = AuthTables \cup {"notice"} /\ today' = today /\ serial' = serial
  BY OnlyCommits, WorksAtEnd DEF AuthInv, AuthTables
<1>2. TableStays("account", Accounts, AccountRow)
  BY <1>1, TableEnd DEF AuthInv, AuthTyped, AuthTables
<1>3. TableStays("issued", Tokens, Token)
  BY <1>1, TableEnd DEF AuthInv, AuthTyped, AuthTables
<1>4. TableStays("blocked", Tokens, BlockRow)
  BY <1>1, TableEnd DEF AuthInv, AuthTyped, AuthTables
<1>5. TableStays("otp", Otps, Otp)
  BY <1>1, TableEnd DEF AuthInv, AuthTyped, AuthTables
<1>6. TableStays("reset", Resets, ResetRow)
  BY <1>1, TableEnd DEF AuthInv, AuthTyped, AuthTables
<1>7. OnlyInv({"left"})'
  BY OnlyEnd DEF AuthInv
<1>8. AuthTyped'
  BY <1>2, <1>3, <1>4, <1>5, <1>6 DEF TableStays, TableInv, Fits, AuthTyped
<1>9. \A q \in Sessions : AuthWork(tx[q])'
  <2>1. ASSUME NEW q \in Sessions PROVE AuthWork(tx'[q])
    <3>1. CASE tx'[q] = tx[q]
      BY <3>1 DEF AuthInv
    <3>2. CASE /\ tx'[q].insert = None /\ tx'[q].put = None /\ tx'[q].update = None
               /\ tx'[q].drop = None /\ tx'[q].state \in {"idle", "after"}
      BY <3>2, NoRows DEF AuthWork
    <3> QED BY <3>1, <3>2, WorksAtEnd
  <2> QED BY <2>1 DEF AuthWork, Rows
<1>10. /\ Keys("blocked") \subseteq Keys("blocked")'
       /\ \A z \in Keys("reset")' : db'["reset"][z].with \in Keys("blocked")'
       /\ \A y, z \in Keys("reset")' : db'["reset"][y].with = db'["reset"][z].with => y = z
  BY ResetsEnd
<1>11. /\ \A n \in Keys("notice")' : n[2] \in Keys("blocked")'
       /\ \A q \in Sessions : tx'[q].state = "after" => \A n \in tx'[q].tell : n[2] \in Keys("blocked")'
  <2>1. NoticeFits(tx[s])
    BY NoRows DEF AuthInv, AuthWork, OnlyInv, OnlyFits, NoticeFits
  <2>2. /\ \A n \in Keys("notice")' : n \in Keys("notice") \/ (tx[s].state = "after" /\ n \in tx[s].tell)
        /\ \A q \in Sessions : \A n : tx'[q].state = "after" /\ n \in tx'[q].tell =>
                 \/ tx[q].state = "after" /\ n \in tx[q].tell
                 \/ q = s /\ Commit(s) /\ n \in tx[s].tell
    BY <2>1, NoticeEnd
  <2>3. Commit(s) => \A n \in tx[s].tell : n[2] \in Keys("blocked")'
    BY AuthCommit DEF AuthInv, AuthWork
  <2> QED BY <1>10, <2>2, <2>3 DEF AuthInv
<1>12. ASSUME serial
       PROVE  /\ OtpOnce(db'["issued"], db'["otp"])
              /\ \A q \in Sessions : tx'[q].state = "open" => AuthPromise(tx[q])'
  <2>1. CASE Commit(s)
    <3>1. Busy(s) /\ tx[s].drop = None /\ db'["issued"] = Flushed(tx[s], "issued") /\ db'["otp"] = Flushed(tx[s], "otp")
      BY <1>1, <2>1, AuthCommit DEF AuthTables, Busy
    <3>2. AuthPromise(tx[s])
      BY <1>12, <3>1 DEF AuthInv
    <3>3. \A q \in Sessions : tx'[q].state # "open"
      BY <1>12, <2>1, SerialEnd
    <3> QED BY <3>1, <3>2, <3>3 DEF AuthPromise
  <2>2. CASE ~Commit(s)
    <3>1. db'["issued"] = db["issued"] /\ db'["otp"] = db["otp"]
      BY <1>1, <2>2, OnlyCommits DEF AuthTables
    <3>2. ASSUME NEW q \in Sessions, tx'[q].state = "open" PROVE AuthPromise(tx[q])'
      <4>1. tx'[q] = tx[q]
        BY <1>12, <2>2, <3>2, SerialEnd
      <4>2. /\ Busy(q) /\ Flushed(tx[q], "issued")' = Flushed(tx[q], "issued")
            /\ Flushed(tx[q], "otp")' = Flushed(tx[q], "otp")
        BY <1>1, <1>12, <2>2, <3>2, SerialOpen DEF AuthInv, AuthTables
      <4> QED BY <1>12, <4>1, <4>2 DEF AuthInv, AuthPromise
    <3> QED BY <1>12, <3>1, <3>2 DEF AuthInv
  <2> QED BY <2>1, <2>2
<1> QED BY <1>1, <1>7, <1>8, <1>9, <1>10, <1>11, <1>12 DEF AuthInv, Busy

(* The area of authentication starts in its invariant.                     *)
LEMMA AuthStart == AuthInit => Shape /\ AuthInv /\ area = "auth"
<1> SUFFICES ASSUME AuthInit PROVE Shape /\ AuthInv /\ area = "auth"
  OBVIOUS
<1>1. PICK accounts : accounts = [u \in Accounts |-> [active |-> TRUE]]
  OBVIOUS
<1>2. PICK tables : tables = [account |-> accounts, issued |-> None, blocked |-> None, otp |-> None, reset |-> None]
  OBVIOUS
<1>3. DOMAIN tables = AuthTables /\ tables["account"] = accounts /\ \A t \in AuthTables \ {"account"} : tables[t] = None
  BY <1>2 DEF AuthTables
<1>4. "notice" \notin DOMAIN tables /\ Starts("auth", tables)
  BY <1>1, <1>2, <1>3 DEF AuthInit, AuthTables
<1>5. /\ Shape /\ area = "auth" /\ DOMAIN db = AuthTables \cup {"notice"}
      /\ db["account"] = accounts /\ \A t \in AuthTables \ {"account"} : db[t] = None
      /\ db["notice"] = None /\ \A s \in Sessions : tx[s] = Idle
  <2>1. /\ Shape /\ area = "auth" /\ DOMAIN db = DOMAIN tables \cup {"notice"}
        /\ \A t \in DOMAIN tables : db[t] = tables[t]
        /\ db["notice"] = None /\ \A s \in Sessions : tx[s] = Idle
    BY <1>4, StartIs
  <2> QED BY <1>3, <2>1 DEF AuthTables
<1>6. today = 0 /\ today \in 0..MaxDay
  BY <1>4, CalendarConstants DEF Starts
<1>7. TableInv("account", Accounts, AccountRow)
  <2>1. Table("account", Accounts, AccountRow)
    BY <1>1, <1>5 DEF Table, Keys, AccountRow
  <2>2. Fits(Idle, "account", Accounts, AccountRow)
    BY IdleIs, IdleFits
  <2> QED BY <1>5, <2>1, <2>2 DEF TableInv
<1>8. AuthTyped
  BY <1>5, <1>7, EmptyTable DEF AuthTyped, AuthTables
<1>9. AuthWork(Idle) /\ Idle.state = "idle"
  BY IdleIs, NoRows DEF AuthWork
<1>10. Keys("notice") = {} /\ Keys("reset") = {} /\ DOMAIN db["issued"] = {} /\ DOMAIN db["otp"] = {}
  BY <1>5, NoRows DEF Keys, AuthTables
<1> QED BY <1>5, <1>6, <1>8, <1>9, <1>10, EmptyHeads DEF AuthInv, OtpOnce, Busy

(* The invariant of authentication stays while nothing but the date does.  *)
LEMMA AuthSame ==
  ASSUME Unchanged, AuthInv, today' = today \/ (today < MaxDay /\ today' = today + 1)
  PROVE  AuthInv'
<1>1. db' = db /\ serial' = serial /\ tx' = tx /\ \A t : Keys(t)' = Keys(t)
  BY GeneralSame DEF Unchanged
<1>2. AuthTyped' /\ OnlyInv({"left"})'
  BY GeneralSame DEF AuthTyped, AuthInv
<1>3. \A s \in Sessions : AuthWork(tx[s])'
  BY <1>1 DEF AuthInv, AuthWork
<1>4. ASSUME NEW s \in Sessions, AuthPromise(tx[s]) PROVE AuthPromise(tx[s])'
  <2>1. Flushed(tx[s], "issued")' = Flushed(tx[s], "issued") /\ Flushed(tx[s], "otp")' = Flushed(tx[s], "otp")
    BY <1>1, FlushedSame
  <2> QED BY <1>1, <1>4, <2>1 DEF AuthPromise
<1>5. today' \in 0..MaxDay
  BY CalendarConstants DEF AuthInv
<1> QED BY <1>1, <1>2, <1>3, <1>4, <1>5 DEF AuthInv, Busy

(* Every step in the area of authentication preserves its invariant.       *)
LEMMA AuthStays ==
  ASSUME area = "auth", Shape, AuthInv, [CampusNext]_vars
  PROVE  area' = "auth" /\ Shape' /\ AuthInv'
<1>1. ASSUME NEW s \in Sessions, Handle(s) PROVE area' = area /\ Shape' /\ AuthInv'
  BY <1>1, AreaOf, AuthBegin DEF Handle
<1>2. ASSUME NEW s \in Sessions, EndOfRequest(s) PROVE area' = area /\ Shape' /\ AuthInv'
  BY <1>2, WorksAtEnd, AuthEnd
<1>3. Unchanged /\ (today' = today \/ (today < MaxDay /\ today' = today + 1)) => Shape' /\ AuthInv'
  BY AuthSame, GeneralSame
<1> QED BY <1>1, <1>2, <1>3, DayIs

(* A reset token is used once, a code gives one token, one code is valid,  *)
(* and whoever was told to be logged out is.                               *)
LEMMA AuthFollows ==
  ASSUME area = "auth", AuthInv
  PROVE  OneUse /\ AuthTypeOK /\ \A n \in Keys("notice") : n[1] = "left" /\ \A kind : ~Accepted(n[2], kind)
<1>1. \A n \in Keys("notice") : n[1] = "left" /\ \A kind : ~Accepted(n[2], kind)
  BY DEF AuthInv, OnlyInv, Accepted
<1>2. AuthTypeOK
  BY DEF AuthInv, AuthTyped, TableInv, AuthTypeOK, AccountRow, BlockRow, ResetRow
<1>3. ASSUME serial, NEW u \in Accounts PROVE Cardinality(ValidOtps(u)) <= 1
  <2>1. OtpOnce(db["issued"], db["otp"])
    BY <1>3 DEF AuthInv
  <2>2. \A o, p \in ValidOtps(u) : o = p
    BY <2>1 DEF OtpOnce, ValidOtps, Pending, Keys
  <2> QED BY <2>2, AtMostOne
<1>4. ASSUME serial, NEW t \in Keys("issued"), NEW r \in Keys("issued"),
             db["issued"][t].from = db["issued"][r].from, db["issued"][t].from \in Otps
      PROVE  t = r
  BY <1>4 DEF AuthInv, OtpOnce, Keys
<1>5. \A y, z \in Keys("reset") : db["reset"][y].with = db["reset"][z].with => y = z
  BY DEF AuthInv
<1> QED BY <1>1, <1>2, <1>3, <1>4, <1>5 DEF OneUse

-----------------------------------------------------------------------------
(***************************************************************************)
(* What an area that was proved about before keeps beyond its invariant.   *)
(***************************************************************************)
(* The session of a handler holds what the handler collected.              *)
LEMMA BeginIs ==
  ASSUME Shape, NEW s \in Sessions, NEW w, NEW objects, BeginWith(s, w, objects)
  PROVE  /\ tx'[s] = w /\ (\A q \in Sessions : q # s => tx'[q] = tx[q]) /\ UNCHANGED <<area, db, today, serial>>
         /\ tx[s].state = "idle"
BY DEF Shape, BeginWith

(* The same for one that stores nothing.                                   *)
LEMMA BeginOnly ==
  ASSUME Shape, NEW s \in Sessions, NEW w, Begin(s, w)
  PROVE  /\ tx'[s] = w /\ (\A q \in Sessions : q # s => tx'[q] = tx[q]) /\ UNCHANGED <<area, db, today, serial>>
BY BeginIs DEF Begin, BeginStoring

(* Two people have one conversation, while handlers do not overlap.        *)
Common(a, b) == \E u, v \in People : u # v /\ {u, v} \subseteq a.members /\ {u, v} \subseteq b.members
OneEach(rows) == \A c, d \in DOMAIN rows : rows[c].direct /\ rows[d].direct /\ Common(rows[c], rows[d]) => c = d
OpensOne(w) ==
    LET new == Rows(w.insert, "conversation") IN
    /\ \A c, d \in DOMAIN new : c = d
    /\ \A c \in DOMAIN new, d \in Keys("conversation") :
          new[c].direct /\ db["conversation"][d].direct => ~Common(new[c], db["conversation"][d])
DirectInv == serial => OneEach(db["conversation"]) /\ \A s \in Sessions : Busy(s) => OpensOne(tx[s])

(* Nobody opens a second conversation with the same person.                *)
LEMMA OpensOnce ==
  ASSUME Shape, NEW s \in Sessions, ChatStep(s) PROVE OpensOne(tx'[s])
<1>1. ASSUME NEW c \in Conversations, NEW u \in People, NEW v \in People, OpenDirect(s, c, u, v)
      PROVE  OpensOne(tx'[s])
  <2>0. PICK yes, both : yes = TRUE /\ both = {u, v}
    OBVIOUS
  <2>1. PICK row, one, new, w : /\ row = [direct |-> yes, members |-> both] /\ one = (c :> row)
                                /\ new = [conversation |-> one] /\ w = [Work EXCEPT !.insert = new]
    OBVIOUS
  <2>2. Begin(s, w)
    BY <1>1, <2>0, <2>1 DEF OpenDirect
  <2>3. tx'[s] = w
    BY <2>2, BeginOnly
  <2>4. w.insert = new
    BY <2>1 DEF Work, Idle
  <2>05. Rows(w.insert, "conversation") = one /\ row.members = both
    BY <2>1, <2>4 DEF Rows
  <2>5. Rows(w.insert, "conversation") = one /\ DOMAIN one = {c} /\ one[c] = row /\ row.members = {u, v}
    BY <2>0, <2>1, <2>05, OneOf
  <2>6. ASSUME NEW d \in Keys("conversation"), db["conversation"][d].direct, Common(row, db["conversation"][d])
        PROVE  FALSE
    <3>1. {u, v} \subseteq db["conversation"][d].members
      BY <2>5, <2>6 DEF Common
    <3>2. d \in DirectOf(u, v)
      BY <2>6, <3>1 DEF DirectOf
    <3> QED BY <1>1, <3>2 DEF OpenDirect
  <2> QED BY <2>3, <2>5, <2>6 DEF OpensOne
<1>2. ASSUME NEW c \in Conversations, NEW u \in People, NEW members \in SUBSET People, OpenGroup(s, c, u, members)
      PROVE  OpensOne(tx'[s])
  <2>1. PICK no : no = FALSE
    OBVIOUS
  <2>2. PICK row, one, new, w : /\ row = [direct |-> no, members |-> members \cup {u}] /\ one = (c :> row)
                                /\ new = [conversation |-> one] /\ w = [Work EXCEPT !.insert = new]
    OBVIOUS
  <2>3. Begin(s, w)
    BY <1>2, <2>1, <2>2 DEF OpenGroup
  <2>4. tx'[s] = w
    BY <2>3, BeginOnly
  <2>5. w.insert = new
    BY <2>2 DEF Work, Idle
  <2>05. Rows(w.insert, "conversation") = one /\ row.direct = no
    BY <2>2, <2>5 DEF Rows
  <2>6. Rows(w.insert, "conversation") = one /\ DOMAIN one = {c} /\ one[c] = row /\ ~row.direct
    BY <2>1, <2>2, <2>05, OneOf
  <2> QED BY <2>4, <2>6 DEF OpensOne
<1>3. ASSUME NEW w, NEW objects, BeginWith(s, w, objects), Rows(w.insert, "conversation") = None
      PROVE  OpensOne(tx'[s])
  <2>1. tx'[s] = w
    BY <1>3, BeginIs
  <2> QED BY <1>3, <2>1, NoRows DEF OpensOne
<1>4. ASSUME NEW m, NEW c, NEW u, SendMessage(s, m, c, u) PROVE OpensOne(tx'[s])
  <2>1. PICK one, new, needs : new = [message |-> one] /\ Begin(s, [Work EXCEPT !.insert = new, !.needs = needs])
    BY <1>4 DEF SendMessage
  <2>2. PICK w : w = [Work EXCEPT !.insert = new, !.needs = needs]
    OBVIOUS
  <2>3. Rows(w.insert, "conversation") = None
    BY <2>1, <2>2 DEF Work, Idle, Rows
  <2> QED BY <1>3, <2>1, <2>2, <2>3 DEF Begin, BeginStoring
<1>5. ASSUME NEW c, NEW u, NEW messages, MarkMessagesRead(s, c, u, messages) PROVE OpensOne(tx'[s])
  <2>1. PICK many, new, needs : new = [read |-> many] /\ Begin(s, [Work EXCEPT !.insert = new, !.needs = needs])
    BY <1>5 DEF MarkMessagesRead
  <2>2. PICK w : w = [Work EXCEPT !.insert = new, !.needs = needs]
    OBVIOUS
  <2>3. Rows(w.insert, "conversation") = None
    BY <2>1, <2>2 DEF Work, Idle, Rows
  <2> QED BY <1>3, <2>1, <2>2, <2>3 DEF Begin, BeginStoring
<1>6. ASSUME NEW c, NEW u, UploadChatFile(s, c, u) PROVE OpensOne(tx'[s])
  BY <1>3, <1>6, WorkIs, NoRows DEF UploadChatFile, BeginStoring
<1>7. ASSUME NEW c, NEW u, DeleteConversation(s, c, u) PROVE OpensOne(tx'[s])
  <2>1. PICK gone, needs : Begin(s, [Work EXCEPT !.drop = gone, !.needs = needs])
    BY <1>7 DEF DeleteConversation
  <2>2. PICK w : w = [Work EXCEPT !.drop = gone, !.needs = needs]
    OBVIOUS
  <2>3. Rows(w.insert, "conversation") = None
    BY <2>2, NoRows DEF Work, Idle
  <2> QED BY <1>3, <2>1, <2>2, <2>3 DEF Begin, BeginStoring
<1>8. ASSUME NEW m, NEW u, NEW emoji, React(s, m, u, emoji) PROVE OpensOne(tx'[s])
  <2>1. PICK one, new, needs, gone, up :
           /\ new = [reaction |-> one]
           /\ \/ Begin(s, [Work EXCEPT !.insert = new, !.needs = needs])
              \/ Begin(s, [Work EXCEPT !.drop = gone]) \/ Begin(s, [Work EXCEPT !.update = up])
    BY <1>8 DEF React
  <2>2. PICK w : Begin(s, w) /\ (w = [Work EXCEPT !.insert = new, !.needs = needs]
                                 \/ w = [Work EXCEPT !.drop = gone] \/ w = [Work EXCEPT !.update = up])
    BY <2>1
  <2>3. w.insert = new \/ w.insert = None
    BY <2>2 DEF Work, Idle
  <2>4. Rows(new, "conversation") = None /\ Rows(None, "conversation") = None
    BY <2>1, NoRows DEF Rows
  <2> QED BY <1>3, <2>2, <2>3, <2>4 DEF Begin, BeginStoring
<1> QED BY <1>1, <1>2, <1>4, <1>5, <1>6, <1>7, <1>8, Zenon DEF ChatStep

(* Every step of the chat keeps one conversation between two people.       *)
LEMMA DirectStays ==
  ASSUME area = "chat", Shape, ChatInv, DirectInv, [CampusNext]_vars PROVE DirectInv'
<1>1. ASSUME NEW s \in Sessions, Handle(s) PROVE DirectInv'
  <2>1. ChatStep(s)
    BY <1>1, AreaOf DEF Handle
  <2>2. OpensOne(tx'[s])
    BY <2>1, OpensOnce
  <2>3. PICK w, objects : BeginWith(s, w, objects)
    BY <2>1 DEF ChatStep, OpenDirect, OpenGroup, SendMessage, MarkMessagesRead, UploadChatFile, DeleteConversation,
              React, Begin, BeginStoring
  <2>4. (\A q \in Sessions : q # s => tx'[q] = tx[q]) /\ UNCHANGED <<area, db, today, serial>>
    BY <2>3, BeginIs
  <2>5. \A q \in Sessions : serial /\ tx'[q].state = "open" => OpensOne(tx'[q])
    BY <2>2, <2>4 DEF DirectInv, Busy
  <2> QED BY <2>4, <2>5 DEF DirectInv, OpensOne, Busy, Keys
<1>2. ASSUME NEW s \in Sessions, EndOfRequest(s), serial PROVE DirectInv'
  <2>1. serial' = serial /\ "conversation" \in DOMAIN db
    BY <1>2, WorksAtEnd DEF ChatInv, ChatTables
  <2>2. CASE Commit(s)
    <3>1. PICK f, w, new : w = tx[s] /\ f = Flushed(w, "conversation") /\ new = Rows(w.insert, "conversation")
      OBVIOUS
    <3>2. /\ Busy(s) /\ db'["conversation"] = f /\ \A q \in Sessions : tx'[q].state # "open"
      BY <1>2, <2>1, <2>2, <3>1, SerialEnd DEF Busy
    <3>3. Rows(w.put, "conversation") = None /\ Rows(w.update, "conversation") = None
      BY <3>1 DEF ChatInv, ChatWork, ChatTables
    <3>4. \A k \in DOMAIN Flushed(w, "conversation") :
             \/ k \in DOMAIN Rows(w.insert, "conversation") /\ Flushed(w, "conversation")[k] = Rows(w.insert, "conversation")[k]
             \/ k \in Keys("conversation") /\ Flushed(w, "conversation")[k] = db["conversation"][k]
      BY <3>3, FlushNoPut, NoRows
    <3>5. \A k \in DOMAIN f : \/ k \in DOMAIN new /\ f[k] = new[k]
                              \/ k \in Keys("conversation") /\ f[k] = db["conversation"][k]
      BY <3>1, <3>4
    <3>6. OpensOne(w) /\ OneEach(db["conversation"])
      BY <1>2, <3>1, <3>2 DEF DirectInv
    <3>7. ASSUME NEW c \in DOMAIN f, NEW d \in DOMAIN f, f[c].direct, f[d].direct, Common(f[c], f[d]) PROVE c = d
      <4>1. Common(f[d], f[c])
        BY <3>7 DEF Common
      <4>2. CASE c \in DOMAIN new /\ f[c] = new[c] /\ d \in DOMAIN new
        BY <3>1, <3>6, <4>2 DEF OpensOne
      <4>3. CASE c \in DOMAIN new /\ f[c] = new[c] /\ d \in Keys("conversation") /\ f[d] = db["conversation"][d]
        BY <3>1, <3>6, <3>7, <4>3 DEF OpensOne
      <4>4. CASE d \in DOMAIN new /\ f[d] = new[d] /\ c \in Keys("conversation") /\ f[c] = db["conversation"][c]
        BY <3>1, <3>6, <3>7, <4>1, <4>4 DEF OpensOne
      <4>5. CASE c \in Keys("conversation") /\ f[c] = db["conversation"][c] /\ d \in Keys("conversation") /\ f[d] = db["conversation"][d]
        BY <3>6, <3>7, <4>5 DEF OneEach, Keys
      <4> QED BY <3>5, <4>2, <4>3, <4>4, <4>5
    <3> QED BY <3>2, <3>7 DEF DirectInv, OneEach, Busy
  <2>3. CASE ~Commit(s)
    <3>1. /\ db'["conversation"] = db["conversation"]
          /\ \A q \in Sessions : tx'[q].state = "open" => tx'[q] = tx[q]
      BY <1>2, <2>1, <2>3, SerialEnd
    <3>2. OneEach(db["conversation"])' /\ \A q \in Sessions : Busy(q)' => OpensOne(tx[q])'
      BY <1>2, <3>1 DEF DirectInv, OneEach, OpensOne, Busy, Keys
    <3> QED BY <2>1, <3>2 DEF DirectInv
  <2> QED BY <2>2, <2>3
<1>3. ASSUME NEW s \in Sessions, EndOfRequest(s), ~serial PROVE DirectInv'
  BY <1>3, WorksAtEnd DEF DirectInv
<1>4. Unchanged => DirectInv'
  BY DEF Unchanged, DirectInv, OneEach, OpensOne, Busy, Keys
<1> QED BY <1>1, <1>2, <1>3, <1>4, StepIs

(* The chat starts without conversations.                                  *)
LEMMA DirectStart ==
  ASSUME Starts("chat", [conversation |-> None, message |-> None, read |-> None, reaction |-> None])
  PROVE  DirectInv
<1>1. PICK tables : tables = [conversation |-> None, message |-> None, read |-> None, reaction |-> None]
  OBVIOUS
<1>2. DOMAIN tables = {"conversation", "message", "read", "reaction"} /\ tables["conversation"] = None
  BY <1>1
<1>3. db["conversation"] = None /\ \A s \in Sessions : tx[s] = Idle
  BY <1>1, <1>2, StartIs
<1>4. \A s \in Sessions : ~Busy(s)
  BY <1>3, IdleIs DEF Busy
<1> QED BY <1>3, <1>4, NoRows DEF DirectInv, OneEach

(* Then two people have at most one conversation.                          *)
LEMMA DirectFollows == DirectInv => DirectOnce
<1> SUFFICES ASSUME DirectInv, area = "chat", serial, NEW u \in People, NEW v \in People, u # v
             PROVE  Cardinality(DirectOf(u, v)) <= 1
  BY DEF DirectOnce
<1>1. ASSUME NEW c \in DirectOf(u, v), NEW d \in DirectOf(u, v) PROVE c = d
  <2>1. Common(db["conversation"][c], db["conversation"][d])
    BY DEF DirectOf, Common
  <2> QED BY <2>1 DEF DirectInv, OneEach, DirectOf, Keys
<1> QED BY <1>1, AtMostOne

-----------------------------------------------------------------------------
(***************************************************************************)
(* Teaching: whatever is written of a section comes with the whole         *)
(* registry, which then has that section and, as long as nobody else was   *)
(* served in between, all that it had.                                     *)
(***************************************************************************)
TimetableRow == [file : Uploads]
SettingRow == [value : SUBSET Sections]
SectionRow == [active : BOOLEAN]
TeachingTables == {"posting", "timetable", "setting", "section"}

TeachingTyped == /\ TableInv("posting", Postings, Posting) /\ TableInv("timetable", Slots, TimetableRow)
                 /\ TableInv("setting", {"sections"}, SettingRow) /\ TableInv("section", Sections, SectionRow)
TeachingFits(w) == /\ Fits(w, "posting", Postings, Posting) /\ Fits(w, "timetable", Slots, TimetableRow)
                   /\ Fits(w, "setting", {"sections"}, SettingRow) /\ Fits(w, "section", Sections, SectionRow)

TeachingWork(w) ==
    /\ Rows(w.insert, "setting") = None /\ Rows(w.update, "setting") = None
    /\ Rows(w.put, "posting") = None /\ Rows(w.put, "timetable") = None
    /\ \/ w.drop = None
       \/ w.put = None /\ w.insert = None /\ w.update = None /\ DOMAIN w.drop \subseteq {"posting", "timetable"}
    /\ \A k \in DOMAIN Rows(w.put, "setting") : Rows(w.put, "setting")[k].set = Rows(w.put, "setting")[k].new

(* The registry as a unit of work leaves it, and what it has to have.      *)
After(w) == IF "sections" \in DOMAIN Rows(w.put, "setting") THEN Rows(w.put, "setting")["sections"].new.value
            ELSE Registry
Registers(w) ==
    /\ Registry \subseteq After(w)
    /\ \A i \in DOMAIN Rows(w.insert, "posting") : Rows(w.insert, "posting")[i].section \in After(w)
    /\ \A i \in DOMAIN Rows(w.update, "posting") :
          "section" \in DOMAIN Rows(w.update, "posting")[i] => Rows(w.update, "posting")[i].section \in After(w)
    /\ \A slot \in DOMAIN Rows(w.insert, "timetable") : slot[1] \in Sections => slot[1] \in After(w)
AllRegistered == /\ \A i \in Keys("posting") : db["posting"][i].section \in Registry
                 /\ \A slot \in Keys("timetable") : slot[1] \in Sections => slot[1] \in Registry

TeachingInv ==
    /\ DOMAIN db = TeachingTables \cup {"notice"} /\ TeachingTyped /\ OnlyInv({})
    /\ \A s \in Sessions : TeachingWork(tx[s])
    /\ \A i, j \in Keys("posting") : db["posting"][i] = db["posting"][j] => i = j
    /\ serial => AllRegistered /\ \A s \in Sessions : Busy(s) => Registers(tx[s])

TeachingOpens(s, w, objects) ==
    Opens(s, w, objects) /\ OnlyFits(w, {}) /\ TeachingFits(w) /\ TeachingWork(w) /\ Registers(w)

(* What registers a section writes the whole value back.                   *)
Puts(put, known) ==
    /\ \A t : t # "setting" => Rows(put, t) = None
    /\ DOMAIN Rows(put, "setting") = {"sections"}
    /\ Rows(put, "setting")["sections"].set = Rows(put, "setting")["sections"].new
    /\ Rows(put, "setting")["sections"].new \in SettingRow
    /\ Rows(put, "setting")["sections"].new.value = known
    /\ Fitting(SettingRow, Rows(put, "setting")["sections"].set)

LEMMA RegisteredIs ==
  ASSUME TeachingInv, NEW section \in Sections PROVE Puts(Registered(section), Registry \cup {section})
<1>1. Registry \subseteq Sections
  BY DEF TeachingInv, TeachingTyped, TableInv, Table, SettingRow, Registry
<1>2. PICK known : known = Registry \cup {section}
  OBVIOUS
<1>3. PICK row : row = [value |-> known]
  OBVIOUS
<1>4. PICK both, one, put : both = [new |-> row, set |-> row] /\ one = ("sections" :> both) /\ put = [setting |-> one]
  OBVIOUS
<1>5. Registered(section) = put
  BY <1>2, <1>3, <1>4 DEF Registered
<1>6. Rows(put, "setting") = one /\ \A t : t # "setting" => Rows(put, t) = None
  BY <1>4 DEF Rows
<1>7. DOMAIN one = {"sections"} /\ one["sections"] = both /\ both.new = row /\ both.set = row
  BY <1>4, OneOf
<1>8. row \in SettingRow /\ row.value = known
  BY <1>1, <1>2, <1>3 DEF SettingRow
<1>9. Fitting(SettingRow, row)
  <2>1. ASSUME NEW r \in SettingRow PROVE Over(r, row) \in SettingRow
    <3>1. PICK o : o = Over(r, row)
      OBVIOUS
    <3>2. o = [c \in {"value"} |-> known]
      BY <1>3, <3>1 DEF Over, SettingRow
    <3> QED BY <1>1, <1>2, <3>1, <3>2 DEF SettingRow
  <2> QED BY <2>1 DEF Fitting
<1> QED BY <1>2, <1>5, <1>6, <1>7, <1>8, <1>9 DEF Puts

(* What the handler of "assign" collects is sound.                         *)
LEMMA AssignPrepares ==
  ASSUME TeachingInv, NEW s \in Sessions, NEW i \in Postings, NEW row \in Posting, Assign(s, i, row)
  PROVE  \E w, objects : TeachingOpens(s, w, objects)
<1>1. PICK one, new, put : one = (i :> row) /\ new = [posting |-> one] /\ put = Registered(row.section)
  OBVIOUS
<1>2. PICK w : w = [Work EXCEPT !.insert = new, !.put = put]
  OBVIOUS
<1>3. BeginWith(s, w, stored \cup {})
  BY <1>1, <1>2 DEF Assign, Begin, BeginStoring
<1>4. /\ w.insert = new /\ w.update = None /\ w.put = put /\ w.drop = None /\ w.tell = {} /\ w.state = "open"
      /\ WorkShape(w)
  BY <1>2 DEF Work, Idle, WorkShape
<1>5. Rows(w.insert, "posting") = one /\ \A x \in {"notice", "timetable", "setting", "section"} : Rows(w.insert, x) = None
  BY <1>1, <1>4 DEF Rows
<1>6. DOMAIN None = {} /\ \A x : Rows(w.update, x) = None
  BY <1>4, NoRows
<1>7. row.section \in Sections /\ DOMAIN one = {i} /\ one[i] = row
  BY <1>1, OneOf DEF Posting
<1>8. Puts(w.put, Registry \cup {row.section})
  BY <1>1, <1>4, <1>7, RegisteredIs
<1>9. OnlyFits(w, {}) /\ TeachingFits(w) /\ TeachingWork(w)
  BY <1>4, <1>5, <1>6, <1>7, <1>8 DEF Fits, OnlyFits, TeachingFits, TeachingWork, Puts
<1>10. Registers(w)
  <2>1. After(w) = Registry \cup {row.section}
    BY <1>8 DEF Puts, After
  <2> QED BY <1>5, <1>6, <1>7, <2>1 DEF Registers
<1> QED BY <1>3, <1>4, <1>9, <1>10 DEF TeachingOpens, Opens

(* Columns of a section and a subject that change.                         *)
LEMMA ReassignedIs ==
  ASSUME NEW row, NEW section \in Sections, NEW subject \in Subjects, NEW columns,
         columns = Changed(row, [section |-> section, subject |-> subject])
  PROVE  /\ Fitting(Posting, columns)
         /\ "section" \in DOMAIN columns => columns.section = section
<1>1. PICK all : all = [section |-> section, subject |-> subject]
  OBVIOUS
<1>2. DOMAIN all = {"section", "subject"} /\ all["section"] = section /\ all["subject"] = subject
  BY <1>1
<1>3. DOMAIN columns \subseteq DOMAIN all /\ \A c \in DOMAIN columns : columns[c] = all[c]
  BY <1>1, ChangedIs
<1>4. ASSUME NEW r \in Posting PROVE Over(r, columns) \in Posting
  <2>1. PICK o : o = Over(r, columns)
    OBVIOUS
  <2>2. DOMAIN r = {"teacher", "section", "subject"} /\ r["teacher"] \in Teachers /\ r["section"] \in Sections /\ r["subject"] \in Subjects
    BY DEF Posting
  <2>3. o = [c \in {"teacher", "section", "subject"} |-> IF c \in DOMAIN columns THEN columns[c] ELSE r[c]]
    BY <2>1, <2>2, OverIs
  <2>4. o["teacher"] \in Teachers /\ o["section"] \in Sections /\ o["subject"] \in Subjects
    BY <1>2, <1>3, <2>2, <2>3
  <2>5. o = [teacher |-> o["teacher"], section |-> o["section"], subject |-> o["subject"]]
    BY <2>3
  <2> QED BY <2>1, <2>4, <2>5 DEF Posting
<1> QED BY <1>2, <1>3, <1>4 DEF Fitting

(* What the handler of "reassign" collects is sound.                       *)
LEMMA ReassignPrepares ==
  ASSUME TeachingInv, NEW s \in Sessions, NEW i \in Postings, NEW section \in Sections, NEW subject \in Subjects,
         Reassign(s, i, section, subject)
  PROVE  \E w, objects : TeachingOpens(s, w, objects)
<1>1. PICK columns, one, up, put : /\ columns = Changed(db["posting"][i], [section |-> section, subject |-> subject])
                                   /\ one = (i :> columns) /\ up = [posting |-> one] /\ put = Registered(section)
  OBVIOUS
<1>2. PICK w : w = [Work EXCEPT !.update = up, !.put = put]
  OBVIOUS
<1>3. BeginWith(s, w, stored \cup {})
  BY <1>1, <1>2 DEF Reassign, Sets, Begin, BeginStoring
<1>4. /\ w.insert = None /\ w.update = up /\ w.put = put /\ w.drop = None /\ w.tell = {} /\ w.state = "open"
      /\ WorkShape(w)
  BY <1>2 DEF Work, Idle, WorkShape
<1>5. Rows(w.update, "posting") = one /\ \A x \in {"notice", "timetable", "setting", "section"} : Rows(w.update, x) = None
  BY <1>1, <1>4 DEF Rows
<1>6. DOMAIN None = {} /\ \A x : Rows(w.insert, x) = None
  BY <1>4, NoRows
<1>7. DOMAIN one = {i} /\ one[i] = columns
  BY <1>1, OneOf
<1>8. Fitting(Posting, columns) /\ ("section" \in DOMAIN columns => columns.section = section)
  BY <1>1, ReassignedIs
<1>9. Puts(w.put, Registry \cup {section})
  BY <1>1, <1>4, RegisteredIs
<1>10. OnlyFits(w, {}) /\ TeachingFits(w) /\ TeachingWork(w)
  BY <1>4, <1>5, <1>6, <1>7, <1>8, <1>9 DEF Fits, OnlyFits, TeachingFits, TeachingWork, Puts
<1>11. Registers(w)
  <2>1. After(w) = Registry \cup {section}
    BY <1>9 DEF Puts, After
  <2> QED BY <1>5, <1>6, <1>7, <1>8, <2>1 DEF Registers
<1> QED BY <1>3, <1>4, <1>10, <1>11 DEF TeachingOpens, Opens

(* What a handler that only deletes collects is sound.                     *)
LEMMA DropPrepares ==
  ASSUME NEW s \in Sessions, NEW gone, DOMAIN gone \subseteq {"posting", "timetable"}, NEW objects,
         BeginWith(s, [Work EXCEPT !.drop = gone], objects)
  PROVE  \E w : TeachingOpens(s, w, objects)
<1>1. PICK w : w = [Work EXCEPT !.drop = gone]
  OBVIOUS
<1>2. /\ w.insert = None /\ w.update = None /\ w.put = None /\ w.drop = gone /\ w.tell = {} /\ w.state = "open"
      /\ WorkShape(w)
  BY <1>1 DEF Work, Idle, WorkShape
<1>3. DOMAIN None = {} /\ \A x : Rows(w.insert, x) = None /\ Rows(w.update, x) = None /\ Rows(w.put, x) = None
  BY <1>2, NoRows
<1>4. OnlyFits(w, {}) /\ TeachingFits(w) /\ TeachingWork(w) /\ Registers(w)
  BY <1>2, <1>3 DEF Fits, OnlyFits, TeachingFits, TeachingWork, Registers, After
<1> QED BY <1>1, <1>2, <1>4 DEF TeachingOpens, Opens

(* What the handler of "upload timetable" collects is sound.               *)
LEMMA TimetablePrepares ==
  ASSUME TeachingInv, NEW s \in Sessions, NEW scope \in Scopes, NEW kind \in {"daily", "exam"}, NEW u \in Uploads,
         UploadTimetable(s, scope, kind, u)
  PROVE  \E w, objects : TeachingOpens(s, w, objects)
<1>1. PICK slot, row, one, rows, there : /\ slot = <<scope, kind>> /\ row = [file |-> u] /\ one = (slot :> row)
                                         /\ rows = [timetable |-> one] /\ there = (slot \in Keys("timetable"))
  OBVIOUS
<1>2. PICK new, up, put : /\ new = IF slot \in Keys("timetable") THEN None ELSE rows
                          /\ up = IF slot \in Keys("timetable") THEN rows ELSE None
                          /\ put = IF scope = "class" THEN None ELSE Registered(scope)
  OBVIOUS
<1>3. PICK w, objects : w = [Work EXCEPT !.insert = new, !.update = up, !.put = put] /\ BeginWith(s, w, objects)
  BY <1>1, <1>2 DEF UploadTimetable, BeginStoring
<1>4. /\ w.insert = new /\ w.update = up /\ w.put = put /\ w.drop = None /\ w.tell = {} /\ w.state = "open"
      /\ WorkShape(w)
  BY <1>3 DEF Work, Idle, WorkShape
<1>5. DOMAIN None = {} /\ \A x : Rows(None, x) = None
  BY NoRows
<1>6. Rows(rows, "timetable") = one /\ \A x : x # "timetable" => Rows(rows, x) = None
  BY <1>1 DEF Rows
<1>7. /\ \A x : x # "timetable" => Rows(w.insert, x) = None /\ Rows(w.update, x) = None
      /\ Rows(w.insert, "timetable") \in {None, one} /\ Rows(w.update, "timetable") \in {None, one}
  BY <1>2, <1>4, <1>5, <1>6
<1>8. DOMAIN one = {slot} /\ one[slot] = row /\ slot \in Slots /\ row \in TimetableRow /\ slot[1] = scope
  BY <1>1, OneOf DEF Slots, TimetableRow
<1>9. Fitting(TimetableRow, row)
  <2>1. ASSUME NEW r \in TimetableRow PROVE Over(r, row) \in TimetableRow
    <3>1. PICK o : o = Over(r, row)
      OBVIOUS
    <3>2. o = [c \in {"file"} |-> u]
      BY <1>1, <3>1 DEF Over, TimetableRow
    <3> QED BY <3>1, <3>2 DEF TimetableRow
  <2> QED BY <2>1 DEF Fitting
<1>10. CASE scope = "class"
  <2>1. w.put = None /\ (\A x : Rows(w.put, x) = None) /\ scope \notin Sections
    BY <1>2, <1>4, <1>10, NoRows, TeachingConstants
  <2>2. OnlyFits(w, {}) /\ TeachingFits(w) /\ TeachingWork(w)
    BY <1>4, <1>5, <1>7, <1>8, <1>9, <2>1 DEF Fits, OnlyFits, TeachingFits, TeachingWork
  <2>3. Registers(w)
    BY <1>5, <1>7, <1>8, <2>1 DEF Registers, After
  <2> QED BY <1>3, <1>4, <2>2, <2>3 DEF TeachingOpens, Opens
<1>11. CASE scope # "class"
  <2>1. Puts(w.put, Registry \cup {scope})
    BY <1>2, <1>4, <1>11, RegisteredIs DEF Scopes
  <2>2. OnlyFits(w, {}) /\ TeachingFits(w) /\ TeachingWork(w)
    BY <1>4, <1>5, <1>7, <1>8, <1>9, <2>1 DEF Fits, OnlyFits, TeachingFits, TeachingWork, Puts
  <2>3. After(w) = Registry \cup {scope}
    BY <2>1 DEF Puts, After
  <2>4. Registers(w)
    BY <1>5, <1>7, <1>8, <2>3 DEF Registers
  <2> QED BY <1>3, <1>4, <2>2, <2>4 DEF TeachingOpens, Opens
<1> QED BY <1>10, <1>11

(* What the handlers of teaching collect is sound.                         *)
LEMMA TeachingPrepares ==
  ASSUME TeachingInv, NEW s \in Sessions, TeachingStep(s) \/ TimetableStep(s)
  PROVE  \E w, objects : TeachingOpens(s, w, objects)
<1>1. ASSUME NEW i, Unassign(s, i) PROVE \E w, objects : TeachingOpens(s, w, objects)
  <2>0. PICK one : one = {i}
    OBVIOUS
  <2>01. DOMAIN [posting |-> one] = {"posting"}
    OBVIOUS
  <2>1. PICK gone : gone = [posting |-> {i}] /\ DOMAIN gone = {"posting"}
    BY <2>0, <2>01
  <2> QED BY <1>1, <2>1, DropPrepares DEF Unassign, Begin, BeginStoring
<1>2. ASSUME NEW slot, DeleteTimetable(s, slot) PROVE \E w, objects : TeachingOpens(s, w, objects)
  <2>0. PICK one : one = {slot}
    OBVIOUS
  <2>01. DOMAIN [timetable |-> one] = {"timetable"}
    OBVIOUS
  <2>1. PICK gone : gone = [timetable |-> {slot}] /\ DOMAIN gone = {"timetable"}
    BY <2>0, <2>01
  <2> QED BY <1>2, <2>1, DropPrepares DEF DeleteTimetable
<1>3. ASSUME NEW i \in Postings, NEW row \in Posting, Assign(s, i, row) PROVE \E w, objects : TeachingOpens(s, w, objects)
  BY <1>3, AssignPrepares
<1>4. ASSUME NEW i \in Postings, NEW section \in Sections, NEW subject \in Subjects, Reassign(s, i, section, subject)
      PROVE  \E w, objects : TeachingOpens(s, w, objects)
  BY <1>4, ReassignPrepares
<1>5. ASSUME NEW scope \in Scopes, NEW kind \in {"daily", "exam"}, NEW u \in Uploads, UploadTimetable(s, scope, kind, u)
      PROVE  \E w, objects : TeachingOpens(s, w, objects)
  BY <1>5, TimetablePrepares
<1>6. "daily" \in {"daily", "exam"}
  OBVIOUS
<1>7. CASE TeachingStep(s)
  BY <1>1, <1>3, <1>4, <1>7, Zenon DEF TeachingStep
<1>8. CASE TimetableStep(s)
  BY <1>2, <1>5, <1>6, <1>8, Zenon DEF TimetableStep
<1> QED BY <1>7, <1>8

(* The handlers of teaching preserve their invariant.                      *)
LEMMA TeachingBegin ==
  ASSUME Shape, TeachingInv, NEW s \in Sessions, TeachingStep(s) \/ TimetableStep(s)
  PROVE  TeachingInv' /\ Shape' /\ area' = area
<1>1. PICK w, objects : TeachingOpens(s, w, objects)
  BY TeachingPrepares
<1>2. /\ Shape' /\ UNCHANGED <<area, db, serial, today>> /\ tx' = [q \in Sessions |-> IF q = s THEN w ELSE tx[q]]
      /\ w.state = "open"
  BY <1>1, BeginShape DEF TeachingOpens, Opens
<1>3. TableStays("posting", Postings, Posting)
  BY <1>1, TableBegin DEF TeachingInv, TeachingTyped, TeachingFits, TeachingOpens, Opens
<1>4. TableStays("timetable", Slots, TimetableRow)
  BY <1>1, TableBegin DEF TeachingInv, TeachingTyped, TeachingFits, TeachingOpens, Opens
<1>5. TableStays("setting", {"sections"}, SettingRow)
  BY <1>1, TableBegin DEF TeachingInv, TeachingTyped, TeachingFits, TeachingOpens, Opens
<1>6. TableStays("section", Sections, SectionRow)
  BY <1>1, TableBegin DEF TeachingInv, TeachingTyped, TeachingFits, TeachingOpens, Opens
<1>7. OnlyInv({})'
  BY <1>1, OnlyBegin DEF TeachingInv, TeachingOpens, Opens
<1>8. TeachingTyped'
  BY <1>3, <1>4, <1>5, <1>6 DEF TableStays, TableInv, Fits, TeachingTyped
<1>9. Registry' = Registry /\ \A t : Keys(t)' = Keys(t)
  BY <1>2, KeysSame DEF Registry
<1>10. ASSUME NEW q \in Sessions
       PROVE  /\ TeachingWork(tx[q])'
              /\ serial /\ tx'[q].state = "open" => Registers(tx[q])'
  <2>1. PICK v : v = IF q = s THEN w ELSE tx[q]
    OBVIOUS
  <2>2. tx[q]' = v /\ TeachingWork(v) /\ (serial /\ v.state = "open" => Registers(v))
    BY <1>1, <1>2, <2>1 DEF TeachingOpens, TeachingInv, Busy
  <2>3. TeachingWork(tx[q])'
    BY <2>2 DEF TeachingWork, Rows
  <2>4. Registers(v) => Registers(tx[q])'
    BY <1>9, <2>2 DEF Registers, After
  <2> QED BY <2>2, <2>3, <2>4
<1>11. /\ DOMAIN db' = TeachingTables \cup {"notice"}
       /\ (\A i, j \in Keys("posting") : db["posting"][i] = db["posting"][j] => i = j)'
       /\ (serial => AllRegistered)'
  BY <1>2, <1>9 DEF TeachingInv, AllRegistered
<1> QED BY <1>2, <1>7, <1>8, <1>10, <1>11 DEF TeachingInv, Busy

(* The registry after a commit.                                            *)
LEMMA RegistryCommit ==
  ASSUME TeachingInv, NEW s \in Sessions, NEW w, w = tx[s], "setting" \in DOMAIN db,
         db'["setting"] = Flushed(w, "setting")
  PROVE  Registry' = After(w)
<1>1. PICK f, put : f = Flushed(w, "setting") /\ put = Rows(w.put, "setting")
  OBVIOUS
<1>2. TeachingWork(w) /\ Rows(w.insert, "setting") = None /\ Rows(w.update, "setting") = None
  BY DEF TeachingInv, TeachingWork
<1>3. CASE w.drop = None
  <2>1. w.drop = None /\ Rows(w.insert, "setting") = None /\ Rows(w.update, "setting") = None
    BY <1>2, <1>3
  <2>2. /\ DOMAIN f = Keys("setting") \cup DOMAIN put
        /\ \A k \in DOMAIN f : f[k] = IF k \in DOMAIN put
               THEN IF k \in Keys("setting") THEN Over(db["setting"][k], put[k].set) ELSE put[k].new
               ELSE db["setting"][k]
    BY ONLY <1>1, <2>1, PutFlush
  <2>3. CASE "sections" \in DOMAIN put
    <3>1. f["sections"].value = put["sections"].new.value
      <4>1. CASE "sections" \in Keys("setting")
        <5>1. PICK old, set, over : old = db["setting"]["sections"] /\ set = put["sections"].set /\ over = Over(old, set)
          OBVIOUS
        <5>2. old \in SettingRow /\ set = put["sections"].new /\ set \in SettingRow
          BY <1>1, <1>2, <2>3, <4>1, <5>1 DEF TeachingInv, TeachingTyped, TableInv, Table, Fits, TeachingWork
        <5>3. "value" \in DOMAIN old /\ "value" \in DOMAIN set
          BY <5>2 DEF SettingRow
        <5>4. over["value"] = set["value"]
          BY <5>1, <5>3, OverIs
        <5> QED BY <2>2, <2>3, <4>1, <5>1, <5>2, <5>4
      <4>2. CASE "sections" \notin Keys("setting")
        BY <2>2, <2>3, <4>2
      <4> QED BY <4>1, <4>2
    <3>2. After(w) = put["sections"].new.value
      BY <1>1, <2>3 DEF After
    <3>3. Registry' = f["sections"].value
      BY <1>1, <2>2, <2>3 DEF Registry, Keys
    <3> QED BY <3>1, <3>2, <3>3
  <2>4. CASE "sections" \notin DOMAIN put
    BY <1>1, <2>2, <2>4 DEF Registry, After, Keys
  <2> QED BY <2>3, <2>4
<1>4. CASE w.drop # None
  <2>1. w.put = None /\ w.insert = None /\ w.update = None /\ DOMAIN w.drop \subseteq {"posting", "timetable"}
    BY <1>2, <1>4 DEF TeachingWork
  <2>2. Rows(w.put, "setting") = None /\ Rows(w.insert, "setting") = None /\ Rows(w.update, "setting") = None
    BY <2>1, NoRows
  <2>03. /\ DOMAIN Flushed(w, "setting") = {k \in Keys("setting") : <<"setting", k>> \notin Dropped(w)}
         /\ \A k \in DOMAIN Flushed(w, "setting") : Flushed(w, "setting")[k] = db["setting"][k]
    BY ONLY <2>2, DropFlush
  <2>3. /\ DOMAIN f = {k \in Keys("setting") : <<"setting", k>> \notin Dropped(w)}
        /\ \A k \in DOMAIN f : f[k] = db["setting"][k]
    BY <1>1, <2>03
  <2>4. PICK Z : Z = {"posting", "timetable"} \X UNION {w.drop[t] : t \in DOMAIN w.drop}
    OBVIOUS
  <2>5. Holds(w, Z)
    BY <2>1, <2>4 DEF Holds
  <2>6. HoldsBelow(w, Z)
    <3>1. \A t \in DOMAIN db : \A k \in Keys(t) : "of" \notin DOMAIN db[t][k]
      <4>1. /\ \A k \in Keys("posting") : db["posting"][k] \in Posting
            /\ \A k \in Keys("timetable") : db["timetable"][k] \in TimetableRow
            /\ \A k \in Keys("setting") : db["setting"][k] \in SettingRow
            /\ \A k \in Keys("section") : db["section"][k] \in SectionRow
            /\ \A k \in Keys("notice") : "of" \notin DOMAIN db["notice"][k]
            /\ DOMAIN db = {"posting", "timetable", "setting", "section", "notice"}
        BY DEF TeachingInv, TeachingTyped, TableInv, Table, OnlyInv, TeachingTables
      <4> QED BY <4>1 DEF Posting, TimetableRow, SettingRow, SectionRow
    <3> QED BY <3>1 DEF HoldsBelow
  <2>7. Dropped(w) \subseteq Z
    BY <2>5, <2>6, DroppedWithin
  <2>8. \A k : <<"setting", k>> \notin Dropped(w)
    BY <2>4, <2>7
  <2>9. DOMAIN f = Keys("setting") /\ \A k \in Keys("setting") : f[k] = db["setting"][k]
    BY <2>3, <2>8
  <2>10. After(w) = Registry
    BY <2>2, NoRows DEF After
  <2> QED BY <1>1, <2>9, <2>10 DEF Registry, Keys
<1> QED BY <1>3, <1>4

(* What is registered after a commit, one at a time.                       *)
LEMMA RegisteredCommit ==
  ASSUME Shape, TeachingInv, serial, NEW s \in Sessions, EndOfRequest(s), Commit(s)
  PROVE  AllRegistered'
<1>1. PICK w, f, g : w = tx[s] /\ f = Flushed(w, "posting") /\ g = Flushed(w, "timetable")
  OBVIOUS
<1>2. DOMAIN db = {"posting", "timetable", "setting", "section", "notice"}
  BY DEF TeachingInv, TeachingTables
<1>3. Busy(s) /\ db'["posting"] = f /\ db'["timetable"] = g /\ db'["setting"] = Flushed(w, "setting")
  BY <1>1, <1>2, CommitShape DEF Busy
<1>4. Registry' = After(w)
  BY <1>1, <1>2, <1>3, RegistryCommit
<1>5. AllRegistered /\ Registers(w) /\ TeachingWork(w)
  BY <1>1, <1>3 DEF TeachingInv
<1>6. Rows(w.put, "posting") = None /\ Rows(w.put, "timetable") = None
  BY <1>5 DEF TeachingWork
<1>7. ASSUME NEW i \in DOMAIN f PROVE f[i].section \in After(w)
  <2>1. \/ i \in DOMAIN Rows(w.insert, "posting") /\ f[i] = Rows(w.insert, "posting")[i]
        \/ i \in Keys("posting") /\ i \in DOMAIN Rows(w.update, "posting")
              /\ f[i] = Over(db["posting"][i], Rows(w.update, "posting")[i])
        \/ i \in Keys("posting") /\ f[i] = db["posting"][i]
    BY <1>1, <1>6, FlushNoPut
  <2>2. CASE i \in DOMAIN Rows(w.insert, "posting") /\ f[i] = Rows(w.insert, "posting")[i]
    BY <1>5, <2>2 DEF Registers
  <2>3. CASE i \in Keys("posting") /\ i \in DOMAIN Rows(w.update, "posting")
              /\ f[i] = Over(db["posting"][i], Rows(w.update, "posting")[i])
    <3>1. PICK old, set, over : old = db["posting"][i] /\ set = Rows(w.update, "posting")[i] /\ over = Over(old, set)
      OBVIOUS
    <3>2. old \in Posting /\ "section" \in DOMAIN old
      BY <2>3, <3>1 DEF TeachingInv, TeachingTyped, TableInv, Table, Posting
    <3>3. over["section"] = IF "section" \in DOMAIN set THEN set["section"] ELSE old["section"]
      BY <3>1, <3>2, OverIs
    <3>4. old["section"] \in After(w)
      BY <1>5, <2>3, <3>1 DEF AllRegistered, Registers
    <3>5. "section" \in DOMAIN set => set["section"] \in After(w)
      BY <1>5, <2>3, <3>1 DEF Registers
    <3> QED BY <2>3, <3>1, <3>3, <3>4, <3>5
  <2>4. CASE i \in Keys("posting") /\ f[i] = db["posting"][i]
    BY <1>5, <2>4 DEF AllRegistered, Registers
  <2> QED BY <2>1, <2>2, <2>3, <2>4
<1>8. ASSUME NEW slot \in DOMAIN g, slot[1] \in Sections PROVE slot[1] \in After(w)
  <2>1. slot \in Keys("timetable") \/ slot \in DOMAIN Rows(w.insert, "timetable")
    BY <1>1, <1>6, FlushedKeys, NoRows
  <2> QED BY <1>5, <1>8, <2>1 DEF AllRegistered, Registers
<1> QED BY <1>3, <1>4, <1>7, <1>8 DEF AllRegistered, Keys

(* The end of a request preserves the invariant of teaching.               *)
LEMMA TeachingEnd ==
  ASSUME Shape, TeachingInv, NEW s \in Sessions, EndOfRequest(s)
  PROVE  TeachingInv'
<1>1. DOMAIN db' = DOMAIN db /\ DOMAIN db = TeachingTables \cup {"notice"} /\ serial' = serial
  BY OnlyCommits, WorksAtEnd DEF TeachingInv, TeachingTables
<1>2. TableStays("posting", Postings, Posting)
  BY <1>1, TableEnd DEF TeachingInv, TeachingTyped, TeachingTables
<1>3. TableStays("timetable", Slots, TimetableRow)
  BY <1>1, TableEnd DEF TeachingInv, TeachingTyped, TeachingTables
<1>4. TableStays("setting", {"sections"}, SettingRow)
  BY <1>1, TableEnd DEF TeachingInv, TeachingTyped, TeachingTables
<1>5. TableStays("section", Sections, SectionRow)
  BY <1>1, TableEnd DEF TeachingInv, TeachingTyped, TeachingTables
<1>6. OnlyInv({})'
  BY OnlyEnd DEF TeachingInv
<1>7. TeachingTyped'
  BY <1>2, <1>3, <1>4, <1>5 DEF TableStays, TableInv, Fits, TeachingTyped
<1>8. \A q \in Sessions : TeachingWork(tx[q])'
  <2>1. ASSUME NEW q \in Sessions PROVE TeachingWork(tx'[q])
    <3>1. CASE tx'[q] = tx[q]
      BY <3>1 DEF TeachingInv
    <3>2. CASE /\ tx'[q].insert = None /\ tx'[q].put = None /\ tx'[q].update = None /\ tx'[q].drop = None
      BY <3>2, NoRows DEF TeachingWork
    <3> QED BY <3>1, <3>2, WorksAtEnd
  <2> QED BY <2>1 DEF TeachingWork, Rows
<1>9. \A i, j \in Keys("posting")' : db'["posting"][i] = db'["posting"][j] => i = j
  <2>1. CASE Commit(s)
    <3>1. PICK f, w : w = tx[s] /\ f = Flushed(w, "posting")
      OBVIOUS
    <3>2. db'["posting"] = f /\ ~Clashes(w, "posting")
      BY <1>1, <2>1, <3>1, CommitShape DEF Refused, TeachingTables
    <3>3. \A j, k \in DOMAIN f : j # k => f[j] # f[k]
      BY <3>1, <3>2 DEF Clashes, Clash
    <3> QED BY <3>2, <3>3 DEF Keys
  <2>2. CASE ~Commit(s)
    <3>1. db'["posting"] = db["posting"]
      BY <1>1, <2>2, OnlyCommits DEF TeachingTables
    <3> QED BY <3>1 DEF TeachingInv, Keys
  <2> QED BY <2>1, <2>2
<1>10. ASSUME serial
       PROVE  AllRegistered' /\ \A q \in Sessions : tx'[q].state = "open" => Registers(tx[q])'
  <2>1. CASE Commit(s)
    <3>1. AllRegistered'
      BY <1>10, <2>1, RegisteredCommit
    <3>2. \A q \in Sessions : tx'[q].state # "open"
      BY <1>10, <2>1, SerialEnd
    <3> QED BY <3>1, <3>2
  <2>2. CASE ~Commit(s)
    <3>1. db'["posting"] = db["posting"] /\ db'["timetable"] = db["timetable"] /\ db'["setting"] = db["setting"]
      BY <1>1, <2>2, OnlyCommits DEF TeachingTables
    <3>2. Registry' = Registry
      BY <3>1 DEF Registry, Keys
    <3>3. ASSUME NEW q \in Sessions, tx'[q].state = "open" PROVE Registers(tx[q])'
      <4>1. tx'[q] = tx[q]
        BY <1>10, <2>2, <3>3, SerialEnd
      <4>2. Registers(tx[q])
        BY <1>10, <3>3, <4>1 DEF TeachingInv, Busy
      <4> QED BY <3>2, <4>1, <4>2 DEF Registers, After
    <3>4. AllRegistered'
      BY <1>10, <3>1, <3>2 DEF TeachingInv, AllRegistered, Keys
    <3> QED BY <3>3, <3>4
  <2> QED BY <2>1, <2>2
<1> QED BY <1>1, <1>6, <1>7, <1>8, <1>9, <1>10 DEF TeachingInv, Busy

(* The area of teaching starts in its invariant.                           *)
LEMMA TeachingStart == TeachingInit => Shape /\ TeachingInv /\ area = "teaching"
<1> SUFFICES ASSUME TeachingInit PROVE Shape /\ TeachingInv /\ area = "teaching"
  OBVIOUS
<1>1. PICK open \in SUBSET Sections :
         Starts("teaching", [posting |-> None, timetable |-> None, setting |-> None,
                             section |-> [x \in Sections |-> [active |-> x \in open]]])
  BY DEF TeachingInit
<1>2. PICK sections : sections = [x \in Sections |-> [active |-> x \in open]]
  OBVIOUS
<1>3. PICK tables : tables = [posting |-> None, timetable |-> None, setting |-> None, section |-> sections]
  OBVIOUS
<1>4. /\ DOMAIN tables = TeachingTables /\ tables["section"] = sections
      /\ \A t \in TeachingTables \ {"section"} : tables[t] = None
  BY <1>3 DEF TeachingTables
<1>5. "notice" \notin DOMAIN tables /\ Starts("teaching", tables)
  BY <1>1, <1>2, <1>3, <1>4 DEF TeachingTables
<1>6. /\ Shape /\ area = "teaching" /\ DOMAIN db = TeachingTables \cup {"notice"}
      /\ db["section"] = sections /\ \A t \in TeachingTables \ {"section"} : db[t] = None
      /\ db["notice"] = None /\ \A s \in Sessions : tx[s] = Idle
  <2>1. /\ Shape /\ area = "teaching" /\ DOMAIN db = DOMAIN tables \cup {"notice"}
        /\ \A t \in DOMAIN tables : db[t] = tables[t]
        /\ db["notice"] = None /\ \A s \in Sessions : tx[s] = Idle
    BY <1>5, StartIs
  <2> QED BY <1>4, <2>1 DEF TeachingTables
<1>7. TableInv("section", Sections, SectionRow)
  <2>1. Table("section", Sections, SectionRow)
    BY <1>2, <1>6 DEF Table, Keys, SectionRow
  <2>2. Fits(Idle, "section", Sections, SectionRow)
    BY IdleIs, IdleFits
  <2> QED BY <1>6, <2>1, <2>2 DEF TableInv
<1>8. TeachingTyped
  BY <1>6, <1>7, EmptyTable DEF TeachingTyped, TeachingTables
<1>9. TeachingWork(Idle) /\ Idle.state = "idle"
  BY IdleIs, NoRows DEF TeachingWork
<1>10. Keys("posting") = {} /\ Keys("timetable") = {}
  BY <1>6, NoRows DEF Keys, TeachingTables
<1> QED BY <1>6, <1>8, <1>9, <1>10, EmptyHeads DEF TeachingInv, AllRegistered, Busy

(* The invariant of teaching stays while nothing changes.                  *)
LEMMA TeachingSame == ASSUME Unchanged, TeachingInv PROVE TeachingInv'
<1>1. db' = db /\ serial' = serial /\ tx' = tx /\ \A t : Keys(t)' = Keys(t)
  BY GeneralSame DEF Unchanged
<1>2. TeachingTyped' /\ OnlyInv({})'
  BY GeneralSame DEF TeachingTyped, TeachingInv
<1>3. \A s \in Sessions : TeachingWork(tx[s])'
  BY <1>1 DEF TeachingInv, TeachingWork
<1>4. Registry' = Registry
  BY <1>1 DEF Registry
<1>5. (serial => AllRegistered /\ \A s \in Sessions : Busy(s) => Registers(tx[s]))'
  BY <1>1, <1>4 DEF TeachingInv, AllRegistered, Registers, After, Busy
<1> QED BY <1>1, <1>2, <1>3, <1>5 DEF TeachingInv

(* Every step in the area of teaching preserves its invariant.             *)
LEMMA TeachingStays ==
  ASSUME area = "teaching", Shape, TeachingInv, [CampusNext]_vars
  PROVE  area' = "teaching" /\ Shape' /\ TeachingInv'
<1>1. ASSUME NEW s \in Sessions, Handle(s) PROVE area' = area /\ Shape' /\ TeachingInv'
  BY <1>1, AreaOf, TeachingBegin DEF Handle
<1>2. ASSUME NEW s \in Sessions, EndOfRequest(s) PROVE area' = area /\ Shape' /\ TeachingInv'
  BY <1>2, WorksAtEnd, TeachingEnd
<1>3. Unchanged => Shape' /\ TeachingInv'
  BY TeachingSame, GeneralSame
<1> QED BY <1>1, <1>2, <1>3, StepIs

(* Every section with a teacher or a timetable is registered, and the      *)
(* queries agree.                                                          *)
LEMMA TeachingFollows ==
  ASSUME area = "teaching", TeachingInv
  PROVE  TeachingTypeOK /\ SectionsRegistered /\ TeachingViewsAgree
<1>1. TeachingTypeOK
  BY DEF TeachingInv, TeachingTyped, TableInv, TeachingTypeOK, TimetableRow, SettingRow, SectionRow
<1>2. ASSUME serial, NEW x \in Sections, ListByClass(x) # {} \/ \E slot \in Keys("timetable") : slot[1] = x
      PROVE  x \in Registry
  BY <1>2 DEF TeachingInv, AllRegistered, ListByClass
<1>3. UNION {ListByTeacher(t) : t \in Teachers} = UNION {ListByClass(x) : x \in Sections}
  <2>1. \A i \in Keys("posting") : db["posting"][i].teacher \in Teachers /\ db["posting"][i].section \in Sections
    BY DEF TeachingInv, TeachingTyped, TableInv, Table, Posting
  <2>2. UNION {ListByTeacher(t) : t \in Teachers} = Keys("posting")
    BY <2>1 DEF ListByTeacher
  <2>3. UNION {ListByClass(x) : x \in Sections} = Keys("posting")
    BY <2>1 DEF ListByClass
  <2> QED BY <2>2, <2>3
<1>4. ASSUME NEW slot \in Keys("timetable"), NEW scope \in Sections, slot = <<"class", "daily">> \/ slot = <<scope, "daily">>,
             NEW kind
      PROVE  TimetablesSeen(scope, kind) # {}
  <2>1. PICK all : all = Fallback(scope, kind)
    OBVIOUS
  <2>2. DOMAIN all = 1..4 /\ all[3] = <<scope, "daily">> /\ all[4] = <<"class", "daily">>
    BY <2>1 DEF Fallback
  <2>3. 3 \in DOMAIN all /\ 4 \in DOMAIN all
    BY <2>2
  <2> QED BY <1>4, <2>1, <2>2, <2>3 DEF TimetablesSeen
<1>5. \A i, j \in Keys("posting") : db["posting"][i] = db["posting"][j] => i = j
  BY DEF TeachingInv
<1>6. TeachingViewsAgree
  BY <1>3, <1>4, <1>5 DEF TeachingViewsAgree
<1> QED BY <1>1, <1>2, <1>6 DEF SectionsRegistered

-----------------------------------------------------------------------------
(***************************************************************************)
(* Students: whatever leaves a student in a section registers it in the    *)
(* same unit of work, and a promotion changes the row of the student and   *)
(* the only row of its history.                                            *)
(***************************************************************************)
RegistryRow == [value : SUBSET (Forms \X Sections)]
StudentTables == {"pupil", "history", "room", "registry"}
StudentsTyped == /\ TableInv("pupil", Pupils, Pupil) /\ TableInv("history", HistoryIds, HistoryRow)
                 /\ TableInv("room", Forms \X Sections, {Present}) /\ TableInv("registry", {"sections"}, RegistryRow)
StudentsFits(w) == /\ Fits(w, "pupil", Pupils, Pupil) /\ Fits(w, "history", HistoryIds, HistoryRow)
                   /\ Fits(w, "room", Forms \X Sections, {Present}) /\ Fits(w, "registry", {"sections"}, RegistryRow)

StudentsWork(w) ==
    /\ w.drop = None
    /\ \A t \in {"pupil", "history", "room"} : Rows(w.put, t) = None
    /\ Rows(w.insert, "registry") = None /\ Rows(w.update, "registry") = None
    /\ Rows(w.insert, "notice") = None /\ Rows(w.put, "notice") = None
    /\ \A k \in DOMAIN Rows(w.put, "registry") : Rows(w.put, "registry")[k].set = Rows(w.put, "registry")[k].new

(* The registry as some writes leave it.                                   *)
KnownWith(put) == IF "sections" \in DOMAIN Rows(put, "registry") THEN Rows(put, "registry")["sections"].new.value
                  ELSE Known

(* What students, their history, the rooms and the registry have to agree  *)
(* on.                                                                     *)
StudentsGood(pupils, histories, rooms, known) ==
    /\ \A h, j \in DOMAIN histories : histories[h].student = histories[j].student => h = j
    /\ \A h \in DOMAIN histories : histories[h].student \in DOMAIN pupils
    /\ \A p \in DOMAIN pupils : <<pupils[p].form, pupils[p].section>> \in known
    /\ \A p \in DOMAIN pupils :
          pupils[p].promoted = \E h \in DOMAIN histories : histories[h].student = p /\ histories[h].status = "promoted"
    /\ rooms \subseteq known
StudentsPromise(w) ==
    StudentsGood(Flushed(w, "pupil"), Flushed(w, "history"), DOMAIN Flushed(w, "room"), KnownWith(w.put))

StudentsInv ==
    /\ DOMAIN db = StudentTables \cup {"notice"} /\ StudentsTyped /\ OnlyInv({})
    /\ \A s \in Sessions : StudentsWork(tx[s])
    /\ serial => /\ StudentsGood(db["pupil"], db["history"], Keys("room"), Known)
                 /\ \A s \in Sessions : Busy(s) => StudentsPromise(tx[s])
StudentsOpens(s, w, objects) ==
    /\ Opens(s, w, objects) /\ OnlyFits(w, {}) /\ StudentsFits(w) /\ StudentsWork(w)
    /\ serial => StudentsPromise(w)

(* Columns of a student, and of a history row.                             *)
LEMMA PupilFits ==
  ASSUME NEW columns, DOMAIN columns \subseteq {"form", "section", "promoted"},
         "form" \in DOMAIN columns => columns["form"] \in Forms,
         "section" \in DOMAIN columns => columns["section"] \in Sections,
         "promoted" \in DOMAIN columns => columns["promoted"] \in BOOLEAN
  PROVE  Fitting(Pupil, columns)
<1>1. ASSUME NEW r \in Pupil PROVE Over(r, columns) \in Pupil
  <2>1. PICK o : o = Over(r, columns)
    OBVIOUS
  <2>2. DOMAIN r = {"form", "section", "promoted"} /\ r["form"] \in Forms /\ r["section"] \in Sections /\ r["promoted"] \in BOOLEAN
    BY DEF Pupil
  <2>3. o = [c \in {"form", "section", "promoted"} |-> IF c \in DOMAIN columns THEN columns[c] ELSE r[c]]
    BY <2>1, <2>2, OverIs
  <2>4. o["form"] \in Forms /\ o["section"] \in Sections /\ o["promoted"] \in BOOLEAN
    BY <2>2, <2>3
  <2>5. o = [form |-> o["form"], section |-> o["section"], promoted |-> o["promoted"]]
    BY <2>3
  <2> QED BY <2>1, <2>4, <2>5 DEF Pupil
<1> QED BY <1>1 DEF Fitting

LEMMA HistoryFits ==
  ASSUME NEW columns, DOMAIN columns \subseteq {"student", "form", "status"},
         "student" \in DOMAIN columns => columns["student"] \in Pupils,
         "form" \in DOMAIN columns => columns["form"] \in Forms,
         "status" \in DOMAIN columns => columns["status"] \in {"promoted", "held_back"}
  PROVE  Fitting(HistoryRow, columns)
<1>1. ASSUME NEW r \in HistoryRow PROVE Over(r, columns) \in HistoryRow
  <2>1. PICK o : o = Over(r, columns)
    OBVIOUS
  <2>2. /\ DOMAIN r = {"student", "form", "status"} /\ r["student"] \in Pupils /\ r["form"] \in Forms
        /\ r["status"] \in {"promoted", "held_back"}
    BY DEF HistoryRow
  <2>3. o = [c \in {"student", "form", "status"} |-> IF c \in DOMAIN columns THEN columns[c] ELSE r[c]]
    BY <2>1, <2>2, OverIs
  <2>4. o["student"] \in Pupils /\ o["form"] \in Forms /\ o["status"] \in {"promoted", "held_back"}
    BY <2>2, <2>3
  <2>5. o = [student |-> o["student"], form |-> o["form"], status |-> o["status"]]
    BY <2>3
  <2> QED BY <2>1, <2>4, <2>5 DEF HistoryRow
<1> QED BY <1>1 DEF Fitting

(* What registers some sections writes the whole value back.               *)
Remembers(put, known) ==
    /\ \A t : t # "registry" => Rows(put, t) = None
    /\ \A k \in DOMAIN Rows(put, "registry") :
          /\ k = "sections" /\ Rows(put, "registry")[k].set = Rows(put, "registry")[k].new
          /\ Rows(put, "registry")[k].new \in RegistryRow
          /\ Fitting(RegistryRow, Rows(put, "registry")[k].set)
    /\ KnownWith(put) = known

LEMMA KnownTyped == ASSUME StudentsInv PROVE Known \subseteq Forms \X Sections
BY DEF StudentsInv, StudentsTyped, TableInv, Table, RegistryRow, Known

LEMMA RememberedIs ==
  ASSUME StudentsInv, NEW places, places \subseteq Forms \X Sections
  PROVE  Remembers(Remembered(places), Known \cup places)
<1>1. CASE places = {}
  <2>1. Remembered(places) = None
    BY <1>1 DEF Remembered
  <2> QED BY <1>1, <2>1, NoRows DEF Remembers, KnownWith
<1>2. CASE places # {}
  <2>1. PICK known : known = Known \cup places
    OBVIOUS
  <2>2. PICK row : row = [value |-> known]
    OBVIOUS
  <2>3. PICK both, one, put : both = [new |-> row, set |-> row] /\ one = ("sections" :> both) /\ put = [registry |-> one]
    OBVIOUS
  <2>4. Remembered(places) = put
    BY <1>2, <2>1, <2>2, <2>3 DEF Remembered
  <2>5. Rows(put, "registry") = one /\ \A t : t # "registry" => Rows(put, t) = None
    BY <2>3 DEF Rows
  <2>6. DOMAIN one = {"sections"} /\ one["sections"] = both /\ both.new = row /\ both.set = row
    BY <2>3, OneOf
  <2>7. known \subseteq Forms \X Sections
    BY <2>1, KnownTyped
  <2>8. row \in RegistryRow /\ row.value = known
    BY <2>2, <2>7 DEF RegistryRow
  <2>9. Fitting(RegistryRow, row)
    <3>1. ASSUME NEW r \in RegistryRow PROVE Over(r, row) \in RegistryRow
      <4>1. PICK o : o = Over(r, row)
        OBVIOUS
      <4>2. o = [c \in {"value"} |-> known]
        BY <2>2, <4>1 DEF Over, RegistryRow
      <4> QED BY <2>7, <4>1, <4>2 DEF RegistryRow
    <3> QED BY <3>1 DEF Fitting
  <2>10. KnownWith(put) = known
    BY <2>5, <2>6, <2>8 DEF KnownWith
  <2> QED BY <2>1, <2>4, <2>5, <2>6, <2>8, <2>9, <2>10 DEF Remembers
<1> QED BY <1>1, <1>2

(* What the handler of "create student" collects is sound: nobody has a    *)
(* history before.                                                         *)
LEMMA CreateStudentPrepares ==
  ASSUME StudentsInv, NEW s \in Sessions, NEW p \in Pupils, NEW form \in Forms, NEW section \in Sections,
         CreateStudent(s, p, form, section)
  PROVE  \E w, objects : StudentsOpens(s, w, objects)
<1>1. PICK no, place : no = FALSE /\ place = <<form, section>>
  OBVIOUS
<1>2. PICK row, one, new, put : /\ row = [form |-> form, section |-> section, promoted |-> no] /\ one = (p :> row)
                                /\ new = [pupil |-> one] /\ put = Remembered({place})
  OBVIOUS
<1>3. PICK w : w = [Work EXCEPT !.insert = new, !.put = put]
  OBVIOUS
<1>4. BeginWith(s, w, stored \cup {})
  BY <1>1, <1>2, <1>3 DEF CreateStudent, Begin, BeginStoring
<1>5. /\ w.insert = new /\ w.update = None /\ w.put = put /\ w.drop = None /\ w.tell = {} /\ w.state = "open"
      /\ WorkShape(w)
  BY <1>3 DEF Work, Idle, WorkShape
<1>6. Rows(w.insert, "pupil") = one /\ \A x \in {"notice", "history", "room", "registry"} : Rows(w.insert, x) = None
  BY <1>2, <1>5 DEF Rows
<1>7. DOMAIN None = {} /\ \A x : Rows(w.update, x) = None
  BY <1>5, NoRows
<1>8. DOMAIN one = {p} /\ one[p] = row /\ row \in Pupil
  <2>1. row \in Pupil
    BY <1>1, <1>2 DEF Pupil
  <2> QED BY <1>2, <2>1, OneOf
<1>9. Remembers(w.put, Known \cup {place})
  BY <1>1, <1>2, <1>5, RememberedIs
<1>10. OnlyFits(w, {}) /\ StudentsFits(w) /\ StudentsWork(w)
  BY <1>5, <1>6, <1>7, <1>8, <1>9 DEF Fits, OnlyFits, StudentsFits, StudentsWork, Remembers
<1>11. ASSUME serial PROVE StudentsPromise(w)
  <2>1. PICK f, g, r : f = Flushed(w, "pupil") /\ g = Flushed(w, "history") /\ r = Flushed(w, "room")
    OBVIOUS
  <2>2. Rows(w.put, "pupil") = None /\ Rows(w.put, "history") = None /\ Rows(w.put, "room") = None
    BY <1>10 DEF StudentsWork
  <2>3. /\ DOMAIN Flushed(w, "pupil") = Keys("pupil") \cup DOMAIN Rows(w.insert, "pupil")
        /\ \A k \in DOMAIN Rows(w.insert, "pupil") : Flushed(w, "pupil")[k] = Rows(w.insert, "pupil")[k]
        /\ \A k \in Keys("pupil") : k \notin DOMAIN Rows(w.insert, "pupil") => Flushed(w, "pupil")[k] = db["pupil"][k]
    BY <1>5, <1>7, <2>2, InsertFlush
  <2>4. /\ DOMAIN f = Keys("pupil") \cup {p} /\ f[p] = row
        /\ \A k \in Keys("pupil") : k # p => f[k] = db["pupil"][k]
    BY <1>6, <1>8, <2>1, <2>3
  <2>5. DOMAIN g = Keys("history") /\ \A k \in Keys("history") : g[k] = db["history"][k]
    BY <1>5, <1>6, <1>7, <2>1, <2>2, SameFlush
  <2>6. DOMAIN r = Keys("room")
    BY <1>5, <1>6, <1>7, <2>1, <2>2, SameFlush
  <2>7. p \notin Keys("pupil")
    BY DEF CreateStudent
  <2>8. StudentsGood(db["pupil"], db["history"], Keys("room"), Known)
    BY <1>11 DEF StudentsInv
  <2>9. row.promoted = FALSE /\ <<row.form, row.section>> = place
    BY <1>1, <1>2
  <2>10. \A h \in DOMAIN g : g[h].student # p
    BY <2>5, <2>7, <2>8 DEF StudentsGood, Keys
  <2>11. \A q \in DOMAIN f : f[q].promoted = \E h \in DOMAIN g : g[h].student = q /\ g[h].status = "promoted"
    <3>1. ASSUME NEW q \in DOMAIN f
          PROVE  f[q].promoted = \E h \in DOMAIN g : g[h].student = q /\ g[h].status = "promoted"
      <4>1. CASE q = p
        BY <2>4, <2>9, <2>10, <4>1
      <4>2. CASE q # p
        <5>1. q \in DOMAIN db["pupil"] /\ f[q] = db["pupil"][q]
          BY <2>4, <3>1, <4>2 DEF Keys
        <5>2. db["pupil"][q].promoted = \E h \in DOMAIN db["history"] :
                 db["history"][h].student = q /\ db["history"][h].status = "promoted"
          BY <2>8, <5>1 DEF StudentsGood
        <5> QED BY <2>5, <5>1, <5>2 DEF Keys
      <4> QED BY <4>1, <4>2
    <3> QED BY <3>1
  <2>12. \A q \in DOMAIN f : <<f[q].form, f[q].section>> \in Known \cup {place}
    BY <2>4, <2>8, <2>9 DEF StudentsGood, Keys
  <2>13. \A h, j \in DOMAIN g : g[h].student = g[j].student => h = j
    BY <2>5, <2>8 DEF StudentsGood, Keys
  <2>14. \A h \in DOMAIN g : g[h].student \in DOMAIN f
    BY <2>4, <2>5, <2>8 DEF StudentsGood, Keys
  <2>15. DOMAIN r \subseteq Known \cup {place}
    BY <2>6, <2>8 DEF StudentsGood
  <2>16. StudentsGood(f, g, DOMAIN r, Known \cup {place})
    BY <2>11, <2>12, <2>13, <2>14, <2>15 DEF StudentsGood
  <2> QED BY <1>9, <2>1, <2>16 DEF StudentsPromise, Remembers
<1> QED BY <1>4, <1>5, <1>10, <1>11 DEF StudentsOpens, Opens

(* What the handler of "update student" collects is sound.                 *)
LEMMA UpdateStudentPrepares ==
  ASSUME StudentsInv, NEW s \in Sessions, NEW p \in Pupils, NEW columns, DOMAIN columns \subseteq {"form", "section"},
         "form" \in DOMAIN columns => columns["form"] \in Forms,
         "section" \in DOMAIN columns => columns["section"] \in Sections,
         UpdateStudent(s, p, columns)
  PROVE  \E w, objects : StudentsOpens(s, w, objects)
<1>1. PICK old, row, place : old = db["pupil"][p] /\ row = Over(old, columns) /\ place = <<row.form, row.section>>
  OBVIOUS
<1>2. PICK cols, one, up, put : /\ cols = Changed(old, columns) /\ one = (p :> cols) /\ up = [pupil |-> one]
                                /\ put = Remembered({place})
  OBVIOUS
<1>3. PICK w : w = [Work EXCEPT !.update = up, !.put = put]
  OBVIOUS
<1>4. BeginWith(s, w, stored \cup {}) /\ p \in Keys("pupil")
  BY <1>1, <1>2, <1>3 DEF UpdateStudent, Sets, Begin, BeginStoring
<1>5. /\ w.insert = None /\ w.update = up /\ w.put = put /\ w.drop = None /\ w.tell = {} /\ w.state = "open"
      /\ WorkShape(w)
  BY <1>3 DEF Work, Idle, WorkShape
<1>6. Rows(w.update, "pupil") = one /\ \A x \in {"notice", "history", "room", "registry"} : Rows(w.update, x) = None
  BY <1>2, <1>5 DEF Rows
<1>7. DOMAIN None = {} /\ \A x : Rows(w.insert, x) = None
  BY <1>5, NoRows
<1>8. old \in Pupil
  BY <1>1, <1>4 DEF StudentsInv, StudentsTyped, TableInv, Table
<1>9. Fitting(Pupil, columns) /\ Fitting(Pupil, cols)
  <2>1. DOMAIN cols \subseteq DOMAIN columns /\ \A c \in DOMAIN cols : cols[c] = columns[c]
    BY <1>2, ChangedIs
  <2> QED BY <2>1, PupilFits
<1>10. row \in Pupil /\ Over(old, cols) = row /\ row.promoted = old.promoted
  <2>1. row \in Pupil
    BY <1>1, <1>8, <1>9 DEF Fitting
  <2>2. Over(old, cols) = row
    BY <1>1, <1>2, OverChanged
  <2>3. "promoted" \in DOMAIN old
    BY <1>8 DEF Pupil
  <2>4. row["promoted"] = old["promoted"]
    BY <1>1, <2>3, OverIs
  <2> QED BY <2>1, <2>2, <2>4
<1>11. DOMAIN one = {p} /\ one[p] = cols
  BY <1>2, OneOf
<1>12. Remembers(w.put, Known \cup {place})
  <2>1. place \in Forms \X Sections
    BY <1>1, <1>10 DEF Pupil
  <2> QED BY <1>2, <1>5, <2>1, RememberedIs
<1>13. OnlyFits(w, {}) /\ StudentsFits(w) /\ StudentsWork(w)
  BY <1>5, <1>6, <1>7, <1>9, <1>11, <1>12 DEF Fits, OnlyFits, StudentsFits, StudentsWork, Remembers
<1>14. ASSUME serial PROVE StudentsPromise(w)
  <2>1. PICK f, g, r : f = Flushed(w, "pupil") /\ g = Flushed(w, "history") /\ r = Flushed(w, "room")
    OBVIOUS
  <2>2. Rows(w.put, "pupil") = None /\ Rows(w.put, "history") = None /\ Rows(w.put, "room") = None
    BY <1>13 DEF StudentsWork
  <2>3. /\ DOMAIN Flushed(w, "pupil") = Keys("pupil")
        /\ \A k \in DOMAIN Rows(w.update, "pupil") : k \in Keys("pupil") =>
              Flushed(w, "pupil")[k] = Over(db["pupil"][k], Rows(w.update, "pupil")[k])
        /\ \A k \in Keys("pupil") : k \notin DOMAIN Rows(w.update, "pupil") => Flushed(w, "pupil")[k] = db["pupil"][k]
    BY <1>5, <1>7, <2>2, UpdateFlush
  <2>4. /\ DOMAIN f = Keys("pupil") /\ f[p] = row
        /\ \A k \in Keys("pupil") : k # p => f[k] = db["pupil"][k]
    BY <1>1, <1>4, <1>6, <1>10, <1>11, <2>1, <2>3
  <2>5. DOMAIN g = Keys("history") /\ \A k \in Keys("history") : g[k] = db["history"][k]
    BY <1>5, <1>6, <1>7, <2>1, <2>2, SameFlush
  <2>6. DOMAIN r = Keys("room")
    BY <1>5, <1>6, <1>7, <2>1, <2>2, SameFlush
  <2>8. StudentsGood(db["pupil"], db["history"], Keys("room"), Known)
    BY <1>14 DEF StudentsInv
  <2>9. \A q \in Keys("pupil") : f[q].promoted = db["pupil"][q].promoted
    BY <1>1, <1>10, <2>4
  <2>11. \A q \in DOMAIN f : f[q].promoted = \E h \in DOMAIN g : g[h].student = q /\ g[h].status = "promoted"
    <3>1. ASSUME NEW q \in DOMAIN f
          PROVE  f[q].promoted = \E h \in DOMAIN g : g[h].student = q /\ g[h].status = "promoted"
      <4>1. q \in DOMAIN db["pupil"] /\ f[q].promoted = db["pupil"][q].promoted
        BY <2>4, <2>9, <3>1 DEF Keys
      <4>2. db["pupil"][q].promoted = \E h \in DOMAIN db["history"] :
               db["history"][h].student = q /\ db["history"][h].status = "promoted"
        BY <2>8, <4>1 DEF StudentsGood
      <4> QED BY <2>5, <4>1, <4>2 DEF Keys
    <3> QED BY <3>1
  <2>12. \A q \in DOMAIN f : <<f[q].form, f[q].section>> \in Known \cup {place}
    BY <1>1, <2>4, <2>8 DEF StudentsGood, Keys
  <2>13. \A h, j \in DOMAIN g : g[h].student = g[j].student => h = j
    BY <2>5, <2>8 DEF StudentsGood, Keys
  <2>14. \A h \in DOMAIN g : g[h].student \in DOMAIN f
    BY <2>4, <2>5, <2>8 DEF StudentsGood, Keys
  <2>15. DOMAIN r \subseteq Known \cup {place}
    BY <2>6, <2>8 DEF StudentsGood
  <2>16. StudentsGood(f, g, DOMAIN r, Known \cup {place})
    BY <2>11, <2>12, <2>13, <2>14, <2>15 DEF StudentsGood
  <2> QED BY <1>12, <2>1, <2>16 DEF StudentsPromise, Remembers
<1> QED BY <1>4, <1>5, <1>13, <1>14 DEF StudentsOpens, Opens

(* What the handler of "create section" collects is sound.                 *)
LEMMA OpenRoomPrepares ==
  ASSUME StudentsInv, NEW s \in Sessions, NEW form \in Forms, NEW section \in Sections, OpenRoom(s, form, section)
  PROVE  \E w, objects : StudentsOpens(s, w, objects)
<1>01. <<form, section>> \in Forms \X Sections
  OBVIOUS
<1>1. PICK place : place = <<form, section>> /\ place \in Forms \X Sections
  BY <1>01
<1>2. PICK one, rooms : one = (place :> Present) /\ rooms = [room |-> one]
  OBVIOUS
<1>3. PICK new, put : new = (IF place \in Keys("room") THEN None ELSE rooms) /\ put = Remembered({place})
  OBVIOUS
<1>4. PICK w : w = [Work EXCEPT !.insert = new, !.put = put]
  OBVIOUS
<1>5. BeginWith(s, w, stored \cup {})
  BY <1>1, <1>2, <1>3, <1>4 DEF OpenRoom, Begin, BeginStoring
<1>6. /\ w.insert = new /\ w.update = None /\ w.put = put /\ w.drop = None /\ w.tell = {} /\ w.state = "open"
      /\ WorkShape(w)
  BY <1>4 DEF Work, Idle, WorkShape
<1>7. DOMAIN None = {} /\ (\A x : Rows(w.update, x) = None) /\ \A x : Rows(None, x) = None
  BY <1>6, NoRows
<1>8. Rows(rooms, "room") = one /\ \A x : x # "room" => Rows(rooms, x) = None
  BY <1>2 DEF Rows
<1>9. Rows(w.insert, "room") \in {None, one} /\ \A x : x # "room" => Rows(w.insert, x) = None
  BY <1>3, <1>6, <1>7, <1>8
<1>10. DOMAIN one = {place} /\ one[place] = Present
  BY <1>2, OneOf
<1>11. Remembers(w.put, Known \cup {place})
  BY <1>1, <1>3, <1>6, RememberedIs
<1>12. OnlyFits(w, {}) /\ StudentsFits(w) /\ StudentsWork(w)
  BY <1>1, <1>6, <1>7, <1>9, <1>10, <1>11 DEF Fits, OnlyFits, StudentsFits, StudentsWork, Remembers
<1>13. ASSUME serial PROVE StudentsPromise(w)
  <2>1. PICK f, g, r : f = Flushed(w, "pupil") /\ g = Flushed(w, "history") /\ r = Flushed(w, "room")
    OBVIOUS
  <2>2. Rows(w.put, "pupil") = None /\ Rows(w.put, "history") = None /\ Rows(w.put, "room") = None
    BY <1>12 DEF StudentsWork
  <2>3. DOMAIN f = Keys("pupil") /\ \A k \in Keys("pupil") : f[k] = db["pupil"][k]
    BY <1>6, <1>7, <1>9, <2>1, <2>2, SameFlush
  <2>4. DOMAIN g = Keys("history") /\ \A k \in Keys("history") : g[k] = db["history"][k]
    BY <1>6, <1>7, <1>9, <2>1, <2>2, SameFlush
  <2>5. DOMAIN r \subseteq Keys("room") \cup {place}
    BY <1>7, <1>9, <1>10, <2>1, <2>2, FlushedKeys
  <2>8. StudentsGood(db["pupil"], db["history"], Keys("room"), Known)
    BY <1>13 DEF StudentsInv
  <2>11. \A q \in DOMAIN f : f[q].promoted = \E h \in DOMAIN g : g[h].student = q /\ g[h].status = "promoted"
    <3>1. ASSUME NEW q \in DOMAIN f
          PROVE  f[q].promoted = \E h \in DOMAIN g : g[h].student = q /\ g[h].status = "promoted"
      <4>1. q \in DOMAIN db["pupil"] /\ f[q] = db["pupil"][q]
        BY <2>3, <3>1 DEF Keys
      <4>2. db["pupil"][q].promoted = \E h \in DOMAIN db["history"] :
               db["history"][h].student = q /\ db["history"][h].status = "promoted"
        BY <2>8, <4>1 DEF StudentsGood
      <4> QED BY <2>4, <4>1, <4>2 DEF Keys
    <3> QED BY <3>1
  <2>12. \A q \in DOMAIN f : <<f[q].form, f[q].section>> \in Known \cup {place}
    BY <2>3, <2>8 DEF StudentsGood, Keys
  <2>13. \A h, j \in DOMAIN g : g[h].student = g[j].student => h = j
    BY <2>4, <2>8 DEF StudentsGood, Keys
  <2>14. \A h \in DOMAIN g : g[h].student \in DOMAIN f
    BY <2>3, <2>4, <2>8 DEF StudentsGood, Keys
  <2>15. DOMAIN r \subseteq Known \cup {place}
    BY <2>5, <2>8 DEF StudentsGood
  <2>16. StudentsGood(f, g, DOMAIN r, Known \cup {place})
    BY <2>11, <2>12, <2>13, <2>14, <2>15 DEF StudentsGood
  <2> QED BY <1>11, <2>1, <2>16 DEF StudentsPromise, Remembers
<1> QED BY <1>5, <1>6, <1>12, <1>13 DEF StudentsOpens, Opens

(* What the handlers of the older promotion collect is sound: each student *)
(* has the history row that is changed, or had none.                       *)
LEMMA UpdatePromotionPrepares ==
  ASSUME StudentsInv, NEW s \in Sessions, NEW of, of \subseteq Keys("pupil"), NEW at \in Injection(of, HistoryIds),
         NEW status \in {"promoted", "held_back"}, UpdatePromotion(s, at, status)
  PROVE  \E w, objects : StudentsOpens(s, w, objects)
<1> DEFINE up == status = "promoted"
           P == {p \in DOMAIN at : ~(up /\ at[p] \in Keys("history") /\ db.history[at[p]].status = "promoted")}
           form(p) == IF up THEN db.pupil[p].form + 1 ELSE db.pupil[p].form
           row(p) == [student |-> p, form |-> form(p), status |-> status]
           known == {p \in P : at[p] \in Keys("history")}
           whose(h) == CHOOSE p \in P : at[p] = h
           columns(p) == [form |-> form(p), promoted |-> up]
<1>1. /\ \A p \in DOMAIN at : p \in Keys("pupil") /\ Latest(p, at[p])
      /\ \A p \in P : form(p) \in Forms
      /\ Begin(s, [Work EXCEPT
             !.update = [pupil |-> [p \in P |-> Changed(db.pupil[p], columns(p))],
                         history |-> [h \in {at[p] : p \in known} |-> Changed(db.history[h], row(whose(h)))]],
             !.insert = [history |-> [h \in {at[p] : p \in P \ known} |-> row(whose(h))]],
             !.put = Remembered({<<form(p), db.pupil[p].section>> : p \in P})])
  BY DEF UpdatePromotion
<1>2. /\ DOMAIN at = of /\ (\A p \in of : at[p] \in HistoryIds)
      /\ \A p, q \in of : at[p] = at[q] => p = q
  BY DEF Injection, IsInjective
<1>3. P \subseteq of /\ \A p \in P : whose(at[p]) = p
  <2>1. P \subseteq of
    BY <1>2
  <2>2. ASSUME NEW p \in P PROVE whose(at[p]) = p
    <3>1. \E q \in P : at[q] = at[p]
      OBVIOUS
    <3>2. whose(at[p]) \in P /\ at[whose(at[p])] = at[p]
      BY <3>1
    <3> QED BY <1>2, <2>1, <3>2
  <2> QED BY <2>1, <2>2
<1>4. \A p \in of : p \in Keys("pupil") /\ p \in Pupils /\ db["pupil"][p] \in Pupil
  BY <1>1, <1>2 DEF StudentsInv, StudentsTyped, TableInv, Table
<1>5. \A p \in of : at[p] \in Keys("history") => db["history"][at[p]].student = p
  BY <1>1, <1>2 DEF Latest, HistoryOf, Unused
<1>6. \A p \in of : \A h \in Keys("history") : db["history"][h].student = p =>
         at[p] \in Keys("history") /\ db["history"][at[p]].student = p
  BY <1>1, <1>2 DEF Latest, HistoryOf
<1>7. (\A p \in P : row(p) \in HistoryRow) /\ status \in {"promoted", "held_back"} /\ up \in BOOLEAN
  BY <1>1, <1>3, <1>4 DEF HistoryRow
<1>8. PICK pcols, hcols, hnew, places :
         /\ pcols = [p \in P |-> Changed(db["pupil"][p], columns(p))]
         /\ hcols = [h \in {at[p] : p \in known} |-> Changed(db["history"][h], row(whose(h)))]
         /\ hnew = [h \in {at[p] : p \in P \ known} |-> row(whose(h))]
         /\ places = {<<form(p), db["pupil"][p].section>> : p \in P}
  OBVIOUS
<1>9. PICK upd, new, put : upd = [pupil |-> pcols, history |-> hcols] /\ new = [history |-> hnew] /\ put = Remembered(places)
  OBVIOUS
<1>10. PICK w : w = [Work EXCEPT !.update = upd, !.insert = new, !.put = put]
  OBVIOUS
<1>11. BeginWith(s, w, stored \cup {})
  BY <1>1, <1>8, <1>9, <1>10 DEF Begin, BeginStoring
<1>12. /\ w.insert = new /\ w.update = upd /\ w.put = put /\ w.drop = None /\ w.tell = {} /\ w.state = "open"
       /\ WorkShape(w)
  BY <1>10 DEF Work, Idle, WorkShape
<1>13. /\ Rows(w.update, "pupil") = pcols /\ Rows(w.update, "history") = hcols /\ Rows(w.insert, "history") = hnew
       /\ \A x \in {"notice", "room", "registry"} : Rows(w.update, x) = None
       /\ \A x \in {"notice", "room", "registry", "pupil"} : Rows(w.insert, x) = None
       /\ DOMAIN None = {}
  BY <1>9, <1>12, NoRows DEF Rows
<1>14. places \subseteq Forms \X Sections
  <2>1. \A p \in P : form(p) \in Forms /\ db["pupil"][p] \in Pupil
    BY <1>1, <1>3, <1>4
  <2> HIDE DEF form
  <2>2. \A p \in P : form(p) \in Forms /\ db["pupil"][p].section \in Sections
    BY <2>1 DEF Pupil
  <2> QED BY <1>8, <2>2
<1>15. Remembers(w.put, Known \cup places)
  BY <1>9, <1>12, <1>14, RememberedIs
<1>16. \A p \in P : columns(p).form = form(p) /\ columns(p).promoted = up /\ DOMAIN columns(p) = {"form", "promoted"}
  OBVIOUS
<1>17. \A p \in P : row(p).student = p /\ row(p).status = status /\ DOMAIN row(p) = {"student", "form", "status"}
  OBVIOUS
<1>18. /\ DOMAIN pcols = P /\ (\A p \in P : pcols[p] = Changed(db["pupil"][p], columns(p)))
       /\ DOMAIN hcols = {at[p] : p \in known} /\ (\A p \in known : hcols[at[p]] = Changed(db["history"][at[p]], row(p)))
       /\ DOMAIN hnew = {at[p] : p \in P \ known} /\ (\A p \in P \ known : hnew[at[p]] = row(p))
  <2>1. \A p \in known : p \in P
    OBVIOUS
  <2> HIDE DEF row, form, whose, columns
  <2> QED BY <1>3, <1>8, <2>1
<1>19. \A p \in P : at[p] \in HistoryIds /\ p \in Pupils /\ p \in Keys("pupil") /\ db["pupil"][p] \in Pupil
  BY <1>2, <1>3, <1>4
<1>20. \A p \in P : p \in known <=> at[p] \in Keys("history")
  OBVIOUS
<1>21. known \subseteq P
  OBVIOUS
<1>22. \A p \in P : form(p) \in Forms
  BY <1>1
<1>23. up <=> status = "promoted"
  OBVIOUS
<1>24. \A p \in of : p \notin P => up /\ at[p] \in Keys("history") /\ db["history"][at[p]].status = "promoted"
  BY <1>2
<1> HIDE DEF up, P, form, row, known, whose, columns
<1>25. \A p \in P : Fitting(Pupil, pcols[p])
  <2>1. ASSUME NEW p \in P PROVE Fitting(Pupil, pcols[p])
    <3>1. PICK cols : cols = columns(p)
      OBVIOUS
    <3>2. /\ DOMAIN pcols[p] \subseteq {"form", "promoted"} /\ \A c \in DOMAIN pcols[p] : pcols[p][c] = cols[c]
      BY <1>16, <1>18, <3>1, ChangedIs
    <3>3. cols["form"] \in Forms /\ cols["promoted"] \in BOOLEAN
      BY <1>7, <1>16, <1>22, <3>1
    <3> QED BY <3>2, <3>3, PupilFits
  <2> QED BY <2>1
<1>26. \A p \in known : Fitting(HistoryRow, hcols[at[p]])
  <2>1. ASSUME NEW p \in known PROVE Fitting(HistoryRow, hcols[at[p]])
    <3>1. PICK cols, h : cols = row(p) /\ h = hcols[at[p]]
      OBVIOUS
    <3>2. cols \in HistoryRow /\ DOMAIN cols = {"student", "form", "status"}
      BY <1>7, <1>17, <1>21, <3>1
    <3>3. DOMAIN h \subseteq {"student", "form", "status"} /\ \A c \in DOMAIN h : h[c] = cols[c]
      BY <1>18, <3>1, <3>2, ChangedIs
    <3>4. cols["student"] \in Pupils /\ cols["form"] \in Forms /\ cols["status"] \in {"promoted", "held_back"}
      BY <3>2 DEF HistoryRow
    <3> QED BY <3>1, <3>3, <3>4, HistoryFits
  <2> QED BY <2>1
<1>27. /\ \A k \in DOMAIN hcols : Fitting(HistoryRow, hcols[k])
       /\ \A k \in DOMAIN hnew : k \in HistoryIds /\ hnew[k] \in HistoryRow
  BY <1>7, <1>18, <1>19, <1>26
<1>28. OnlyFits(w, {}) /\ StudentsFits(w) /\ StudentsWork(w)
  <2>1. OnlyFits(w, {}) /\ StudentsWork(w)
    BY <1>12, <1>13, <1>15 DEF OnlyFits, StudentsWork, Remembers
  <2>2. Rows(w.put, "pupil") = None /\ Rows(w.put, "history") = None /\ Rows(w.put, "room") = None
    BY <2>1 DEF StudentsWork
  <2>3. Fits(w, "pupil", Pupils, Pupil)
    BY <1>13, <1>18, <1>25, <2>2 DEF Fits
  <2>4. Fits(w, "history", HistoryIds, HistoryRow)
    BY <1>13, <1>27, <2>2 DEF Fits
  <2>5. Fits(w, "room", Forms \X Sections, {Present})
    BY <1>13, <2>2 DEF Fits
  <2>6. Fits(w, "registry", {"sections"}, RegistryRow)
    BY <1>13, <1>15 DEF Fits, Remembers
  <2> QED BY <2>1, <2>3, <2>4, <2>5, <2>6 DEF StudentsFits
<1>29. ASSUME serial PROVE StudentsPromise(w)
  <2>1. PICK f, g, r : f = Flushed(w, "pupil") /\ g = Flushed(w, "history") /\ r = Flushed(w, "room")
    OBVIOUS
  <2>2. Rows(w.put, "pupil") = None /\ Rows(w.put, "history") = None /\ Rows(w.put, "room") = None
    BY <1>28 DEF StudentsWork
  <2>3. /\ DOMAIN Flushed(w, "pupil") = Keys("pupil")
        /\ \A k \in DOMAIN Rows(w.update, "pupil") : k \in Keys("pupil") =>
              Flushed(w, "pupil")[k] = Over(db["pupil"][k], Rows(w.update, "pupil")[k])
        /\ \A k \in Keys("pupil") : k \notin DOMAIN Rows(w.update, "pupil") => Flushed(w, "pupil")[k] = db["pupil"][k]
    BY <1>12, <1>13, <2>2, UpdateFlush
  <2>4. /\ DOMAIN f = Keys("pupil") /\ (\A p \in P : f[p] = Over(db["pupil"][p], pcols[p]))
        /\ \A k \in Keys("pupil") : k \notin P => f[k] = db["pupil"][k]
    BY <1>13, <1>18, <1>19, <2>1, <2>3
  <2>5. \A p \in P : f[p].form = form(p) /\ f[p].promoted = up /\ f[p].section = db["pupil"][p].section
    <3>1. ASSUME NEW p \in P PROVE f[p].form = form(p) /\ f[p].promoted = up /\ f[p].section = db["pupil"][p].section
      <4>1. PICK old, cols, over : old = db["pupil"][p] /\ cols = columns(p) /\ over = Over(old, cols)
        OBVIOUS
      <4>2. f[p] = over
        BY <1>18, <2>4, <4>1, OverChanged
      <4>3. "form" \in DOMAIN old /\ "promoted" \in DOMAIN old /\ "section" \in DOMAIN old
        BY <1>19, <4>1 DEF Pupil
      <4>4. over["form"] = cols["form"] /\ over["promoted"] = cols["promoted"] /\ over["section"] = old["section"]
        BY <1>16, <4>1, <4>3, OverIs
      <4> QED BY <1>16, <4>1, <4>2, <4>4
    <3> QED BY <3>1
  <2>6. /\ DOMAIN Flushed(w, "history") = Keys("history") \cup DOMAIN Rows(w.insert, "history")
        /\ \A k \in DOMAIN Flushed(w, "history") : Flushed(w, "history")[k] =
              IF k \in DOMAIN Rows(w.insert, "history") THEN Rows(w.insert, "history")[k]
              ELSE IF k \in DOMAIN Rows(w.update, "history")
                   THEN Over(db["history"][k], Rows(w.update, "history")[k]) ELSE db["history"][k]
    BY <1>12, <2>2, PlainFlush
  <2>7. /\ DOMAIN g = Keys("history") \cup DOMAIN hnew
        /\ \A k \in DOMAIN g : g[k] = IF k \in DOMAIN hnew THEN hnew[k]
                                      ELSE IF k \in DOMAIN hcols THEN Over(db["history"][k], hcols[k]) ELSE db["history"][k]
    BY <1>13, <2>1, <2>6
  <2>8. \A p \in P : at[p] \in DOMAIN g /\ g[at[p]].student = p /\ g[at[p]].status = status
    <3>1. ASSUME NEW p \in P PROVE at[p] \in DOMAIN g /\ g[at[p]].student = p /\ g[at[p]].status = status
      <4>1. CASE p \notin known
        BY <1>17, <1>18, <2>7, <4>1
      <4>2. CASE p \in known
        <5>1. at[p] \in Keys("history")
          BY <1>20, <4>2
        <5>2. at[p] \notin DOMAIN hnew
          BY <1>18, <1>20, <5>1
        <5>3. PICK old, cols, over : old = db["history"][at[p]] /\ cols = row(p) /\ over = Over(old, cols)
          OBVIOUS
        <5>4. g[at[p]] = over
          BY <1>18, <2>7, <4>2, <5>1, <5>2, <5>3, OverChanged
        <5>5. old \in HistoryRow
          BY <5>1, <5>3 DEF StudentsInv, StudentsTyped, TableInv, Table
        <5>6. "student" \in DOMAIN old /\ "status" \in DOMAIN old
          BY <5>5 DEF HistoryRow
        <5>7. over["student"] = cols["student"] /\ over["status"] = cols["status"]
          BY <1>17, <5>3, <5>6, OverIs
        <5> QED BY <1>17, <2>7, <5>1, <5>3, <5>4, <5>7
      <4> QED BY <4>1, <4>2
    <3> QED BY <3>1
  <2>9. \A h \in DOMAIN g : \/ \E p \in P : h = at[p]
                            \/ h \in Keys("history") /\ g[h] = db["history"][h] /\ \A p \in P : h # at[p]
    BY <1>18, <1>21, <2>7
  <2>10. StudentsGood(db["pupil"], db["history"], Keys("room"), Known)
    BY <1>29 DEF StudentsInv
  <2>11. \A h, j \in Keys("history") : db["history"][h].student = db["history"][j].student => h = j
    BY <2>10 DEF StudentsGood, Keys
  <2>12. \A p \in of : \A h \in Keys("history") : db["history"][h].student = p => h = at[p]
    BY <1>6, <2>11
  <2>13. \A p \in P : \A h \in DOMAIN g : g[h].student = p => h = at[p]
    <3>1. ASSUME NEW p \in P, NEW h \in DOMAIN g, g[h].student = p PROVE h = at[p]
      <4>1. CASE \E q \in P : h = at[q]
        BY <2>8, <3>1, <4>1
      <4>2. CASE h \in Keys("history") /\ g[h] = db["history"][h]
        BY <1>3, <2>12, <3>1, <4>2
      <4> QED BY <2>9, <4>1, <4>2
    <3> QED BY <3>1
  <2>14. \A h, j \in DOMAIN g : g[h].student = g[j].student => h = j
    <3>1. ASSUME NEW h \in DOMAIN g, NEW j \in DOMAIN g, g[h].student = g[j].student PROVE h = j
      <4>1. CASE \E q \in P : h = at[q]
        BY <2>8, <2>13, <3>1, <4>1
      <4>2. CASE \E q \in P : j = at[q]
        BY <2>8, <2>13, <3>1, <4>2
      <4>3. CASE h \in Keys("history") /\ g[h] = db["history"][h] /\ j \in Keys("history") /\ g[j] = db["history"][j]
        BY <2>11, <3>1, <4>3
      <4> QED BY <2>9, <4>1, <4>2, <4>3
    <3> QED BY <3>1
  <2>15. \A h \in DOMAIN g : g[h].student \in DOMAIN f
    <3>1. ASSUME NEW h \in DOMAIN g PROVE g[h].student \in DOMAIN f
      <4>1. CASE \E q \in P : h = at[q]
        BY <1>19, <2>4, <2>8, <4>1
      <4>2. CASE h \in Keys("history") /\ g[h] = db["history"][h]
        BY <2>4, <2>10, <4>2 DEF StudentsGood, Keys
      <4> QED BY <2>9, <4>1, <4>2
    <3> QED BY <3>1
  <2>16. \A q \in DOMAIN f : <<f[q].form, f[q].section>> \in Known \cup places
    <3>1. ASSUME NEW q \in DOMAIN f PROVE <<f[q].form, f[q].section>> \in Known \cup places
      <4>1. CASE q \in P
        BY <1>8, <2>5, <4>1
      <4>2. CASE q \notin P
        BY <2>4, <2>10, <3>1, <4>2 DEF StudentsGood, Keys
      <4> QED BY <4>1, <4>2
    <3> QED BY <3>1
  <2>17. \A q \in DOMAIN f : f[q].promoted = \E h \in DOMAIN g : g[h].student = q /\ g[h].status = "promoted"
    <3>1. ASSUME NEW q \in DOMAIN f
          PROVE  f[q].promoted = \E h \in DOMAIN g : g[h].student = q /\ g[h].status = "promoted"
      <4>1. CASE q \in P
        <5>1. (\E h \in DOMAIN g : g[h].student = q /\ g[h].status = "promoted") <=> status = "promoted"
          BY <2>8, <2>13, <4>1
        <5>2. f[q].promoted = up /\ up \in BOOLEAN
          BY <1>7, <2>5, <4>1
        <5> QED BY <1>23, <5>1, <5>2
      <4>2. CASE q \notin P
        <5>1. q \in DOMAIN db["pupil"] /\ f[q] = db["pupil"][q]
          BY <2>4, <3>1, <4>2 DEF Keys
        <5>2. db["pupil"][q].promoted = \E h \in DOMAIN db["history"] :
                 db["history"][h].student = q /\ db["history"][h].status = "promoted"
          BY <2>10, <5>1 DEF StudentsGood
        <5>3. ASSUME NEW h \in DOMAIN g, g[h].student = q PROVE h \in DOMAIN db["history"] /\ g[h] = db["history"][h]
          BY <2>8, <2>9, <4>2, <5>3 DEF Keys
        <5>4. ASSUME NEW h \in DOMAIN db["history"], db["history"][h].student = q PROVE h \in DOMAIN g /\ g[h] = db["history"][h]
          <6>1. h \in Keys("history") /\ h \in DOMAIN g
            BY <2>7, <5>4 DEF Keys
          <6>2. ASSUME NEW p \in P, h = at[p] PROVE FALSE
            BY <1>3, <1>5, <4>2, <5>4, <6>1, <6>2
          <6> QED BY <2>9, <6>1, <6>2
        <5>5. (\E h \in DOMAIN g : g[h].student = q /\ g[h].status = "promoted")
                <=> \E h \in DOMAIN db["history"] : db["history"][h].student = q /\ db["history"][h].status = "promoted"
          BY <5>3, <5>4
        <5> QED BY <5>1, <5>2, <5>5
      <4> QED BY <4>1, <4>2
    <3> QED BY <3>1
  <2>18. Rows(w.insert, "room") = None /\ Rows(w.update, "room") = None /\ w.drop = None
    BY <1>12, <1>13
  <2>19. DOMAIN r = Keys("room")
    BY <2>1, <2>2, <2>18, SameFlush
  <2>20. DOMAIN r \subseteq Known \cup places
    BY <2>10, <2>19 DEF StudentsGood
  <2>21. StudentsGood(f, g, DOMAIN r, Known \cup places)
    BY <2>14, <2>15, <2>16, <2>17, <2>20 DEF StudentsGood
  <2> QED BY <1>15, <2>1, <2>21 DEF StudentsPromise, Remembers
<1> QED BY <1>11, <1>12, <1>28, <1>29 DEF StudentsOpens, Opens

(* What a handler of the students collects is sound.                       *)
LEMMA StudentsPrepare ==
  ASSUME StudentsInv, NEW s \in Sessions, StudentsStep(s) \/ PromotionStep(s)
  PROVE  \E w, objects : StudentsOpens(s, w, objects)
<1>1. ASSUME NEW p \in Pupils, NEW form \in Forms, NEW section \in Sections,
             \/ CreateStudent(s, p, form, section)
             \/ UpdateStudent(s, p, [form |-> form]) \/ UpdateStudent(s, p, [section |-> section])
      PROVE  \E w, objects : StudentsOpens(s, w, objects)
  <2>1. PICK one, other : one = [form |-> form] /\ other = [section |-> section]
    OBVIOUS
  <2>2. /\ DOMAIN one = {"form"} /\ one["form"] = form
        /\ DOMAIN other = {"section"} /\ other["section"] = section
    BY <2>1
  <2>3. UpdateStudent(s, p, one) => \E w, objects : StudentsOpens(s, w, objects)
    BY <2>2, UpdateStudentPrepares
  <2>4. UpdateStudent(s, p, other) => \E w, objects : StudentsOpens(s, w, objects)
    BY <2>2, UpdateStudentPrepares
  <2> QED BY <1>1, <2>1, <2>3, <2>4, CreateStudentPrepares
<1>2. ASSUME PromotionStep(s) PROVE \E w, objects : StudentsOpens(s, w, objects)
  <2>1. PICK status \in {"promoted", "held_back"} :
          \/ \E P \in SUBSET Keys("pupil") \ {{}} :
                \E at \in Injection(P, HistoryIds) : UpdatePromotion(s, at, status)
          \/ \E form \in Forms, section \in Sections :
                /\ RollOf(form, section) # {}
                /\ \E at \in Injection(RollOf(form, section), HistoryIds) :
                      UpdatePromotion(s, at, status)
    BY <1>2 DEF PromotionStep
  <2>2. PICK of : of \subseteq Keys("pupil") /\ \E at \in Injection(of, HistoryIds) : UpdatePromotion(s, at, status)
    BY <2>1 DEF RollOf
  <2> QED BY <2>2, UpdatePromotionPrepares
<1> QED BY <1>1, <1>2, OpenRoomPrepares DEF StudentsStep

(* The handlers of the students preserve their invariant.                  *)
LEMMA StudentsBegin ==
  ASSUME Shape, StudentsInv, NEW s \in Sessions, StudentsStep(s) \/ PromotionStep(s)
  PROVE  StudentsInv' /\ Shape' /\ area' = area
<1>1. PICK w, objects : StudentsOpens(s, w, objects)
  BY StudentsPrepare
<1>2. /\ Shape' /\ UNCHANGED <<area, db, serial, today>> /\ tx' = [q \in Sessions |-> IF q = s THEN w ELSE tx[q]]
      /\ w.state = "open"
  BY <1>1, BeginShape DEF StudentsOpens, Opens
<1>3. TableStays("pupil", Pupils, Pupil)
  BY <1>1, TableBegin DEF StudentsInv, StudentsTyped, StudentsFits, StudentsOpens, Opens
<1>4. TableStays("history", HistoryIds, HistoryRow)
  BY <1>1, TableBegin DEF StudentsInv, StudentsTyped, StudentsFits, StudentsOpens, Opens
<1>5. TableStays("room", Forms \X Sections, {Present})
  BY <1>1, TableBegin DEF StudentsInv, StudentsTyped, StudentsFits, StudentsOpens, Opens
<1>6. TableStays("registry", {"sections"}, RegistryRow)
  BY <1>1, TableBegin DEF StudentsInv, StudentsTyped, StudentsFits, StudentsOpens, Opens
<1>7. OnlyInv({})'
  BY <1>1, OnlyBegin DEF StudentsInv, StudentsOpens, Opens
<1>8. StudentsTyped'
  BY <1>3, <1>4, <1>5, <1>6 DEF TableStays, TableInv, Fits, StudentsTyped
<1>9. Known' = Known /\ \A t : Keys(t)' = Keys(t)
  BY <1>2, KeysSame DEF Known
<1>10. ASSUME NEW q \in Sessions
       PROVE  /\ StudentsWork(tx[q])'
              /\ serial /\ tx'[q].state = "open" => StudentsPromise(tx[q])'
  <2>1. PICK v : v = IF q = s THEN w ELSE tx[q]
    OBVIOUS
  <2>2. tx[q]' = v /\ StudentsWork(v) /\ (serial /\ v.state = "open" => StudentsPromise(v))
    BY <1>1, <1>2, <2>1 DEF StudentsOpens, StudentsInv, Busy
  <2>3. StudentsWork(tx[q])'
    BY <2>2 DEF StudentsWork, Rows
  <2>4. \A t : Flushed(v, t)' = Flushed(v, t)
    BY <1>2, FlushedSame
  <2>5. KnownWith(v.put)' = KnownWith(v.put)
    BY <1>9 DEF KnownWith, Rows
  <2>6. StudentsPromise(v) => StudentsPromise(tx[q])'
    BY <2>2, <2>4, <2>5 DEF StudentsPromise
  <2> QED BY <2>2, <2>3, <2>6
<1>11. /\ DOMAIN db' = StudentTables \cup {"notice"}
       /\ (serial => StudentsGood(db["pupil"], db["history"], Keys("room"), Known))'
  BY <1>2, <1>9 DEF StudentsInv, StudentsGood
<1> QED BY <1>2, <1>7, <1>8, <1>10, <1>11 DEF StudentsInv, Busy

(* What the flush makes of the registry.                                   *)
LEMMA RegistryFlush ==
  ASSUME NEW w, w.drop = None, Rows(w.insert, "registry") = None, Rows(w.update, "registry") = None
  PROVE  /\ DOMAIN Flushed(w, "registry") = Keys("registry") \cup DOMAIN Rows(w.put, "registry")
         /\ \A k \in DOMAIN Flushed(w, "registry") : Flushed(w, "registry")[k] =
               IF k \in DOMAIN Rows(w.put, "registry")
               THEN IF k \in Keys("registry") THEN Over(db["registry"][k], Rows(w.put, "registry")[k].set)
                    ELSE Rows(w.put, "registry")[k].new
               ELSE db["registry"][k]
BY PutFlush, Zenon

(* The registry after a commit.                                            *)
LEMMA KnownCommit ==
  ASSUME StudentsInv, NEW s \in Sessions, NEW w, w = tx[s], "registry" \in DOMAIN db,
         db'["registry"] = Flushed(w, "registry")
  PROVE  Known' = KnownWith(w.put)
<1>1. PICK f, put : f = Flushed(w, "registry") /\ put = Rows(w.put, "registry")
  OBVIOUS
<1>2. w.drop = None /\ Rows(w.insert, "registry") = None /\ Rows(w.update, "registry") = None
  BY DEF StudentsInv, StudentsWork
<1>3. /\ DOMAIN f = Keys("registry") \cup DOMAIN put
      /\ \A k \in DOMAIN f : f[k] = IF k \in DOMAIN put
             THEN IF k \in Keys("registry") THEN Over(db["registry"][k], put[k].set) ELSE put[k].new
             ELSE db["registry"][k]
  BY <1>1, <1>2, RegistryFlush
<1>4. CASE "sections" \in DOMAIN put
  <2>1. f["sections"].value = put["sections"].new.value
    <3>1. CASE "sections" \in Keys("registry")
      <4>1. PICK old, set, over : old = db["registry"]["sections"] /\ set = put["sections"].set /\ over = Over(old, set)
        OBVIOUS
      <4>2. old \in RegistryRow /\ set = put["sections"].new /\ set \in RegistryRow
        BY <1>1, <1>4, <3>1, <4>1 DEF StudentsInv, StudentsTyped, TableInv, Table, Fits, StudentsWork
      <4>3. "value" \in DOMAIN old /\ "value" \in DOMAIN set
        BY <4>2 DEF RegistryRow
      <4>4. over["value"] = set["value"]
        BY <4>1, <4>3, OverIs
      <4> QED BY <1>3, <1>4, <3>1, <4>1, <4>2, <4>4
    <3>2. CASE "sections" \notin Keys("registry")
      BY <1>3, <1>4, <3>2
    <3> QED BY <3>1, <3>2
  <2>2. KnownWith(w.put) = put["sections"].new.value
    BY <1>1, <1>4 DEF KnownWith
  <2>3. Known' = f["sections"].value
    BY <1>1, <1>3, <1>4 DEF Known, Keys
  <2> QED BY <2>1, <2>2, <2>3
<1>5. CASE "sections" \notin DOMAIN put
  BY <1>1, <1>3, <1>5 DEF Known, KnownWith, Keys
<1> QED BY <1>4, <1>5

(* The end of a request preserves the invariant of the students.           *)
LEMMA StudentsEnd ==
  ASSUME Shape, StudentsInv, NEW s \in Sessions, EndOfRequest(s)
  PROVE  StudentsInv'
<1>1. DOMAIN db' = DOMAIN db /\ DOMAIN db = StudentTables \cup {"notice"} /\ serial' = serial
  BY OnlyCommits, WorksAtEnd DEF StudentsInv, StudentTables
<1>2. TableStays("pupil", Pupils, Pupil)
  BY <1>1, TableEnd DEF StudentsInv, StudentsTyped, StudentTables
<1>3. TableStays("history", HistoryIds, HistoryRow)
  BY <1>1, TableEnd DEF StudentsInv, StudentsTyped, StudentTables
<1>4. TableStays("room", Forms \X Sections, {Present})
  BY <1>1, TableEnd DEF StudentsInv, StudentsTyped, StudentTables
<1>5. TableStays("registry", {"sections"}, RegistryRow)
  BY <1>1, TableEnd DEF StudentsInv, StudentsTyped, StudentTables
<1>6. OnlyInv({})'
  BY OnlyEnd DEF StudentsInv
<1>7. StudentsTyped'
  BY <1>2, <1>3, <1>4, <1>5 DEF TableStays, TableInv, Fits, StudentsTyped
<1>8. \A q \in Sessions : StudentsWork(tx[q])'
  <2>1. ASSUME NEW q \in Sessions PROVE StudentsWork(tx'[q])
    <3>1. CASE tx'[q] = tx[q]
      BY <3>1 DEF StudentsInv
    <3>2. CASE /\ tx'[q].insert = None /\ tx'[q].put = None /\ tx'[q].update = None /\ tx'[q].drop = None
      BY <3>2, NoRows DEF StudentsWork
    <3> QED BY <3>1, <3>2, WorksAtEnd
  <2> QED BY <2>1 DEF StudentsWork, Rows
<1>9. ASSUME serial
      PROVE  /\ StudentsGood(db["pupil"], db["history"], Keys("room"), Known)'
             /\ \A q \in Sessions : tx'[q].state = "open" => StudentsPromise(tx[q])'
  <2>1. CASE Commit(s)
    <3>1. PICK w : w = tx[s]
      OBVIOUS
    <3>2. /\ db'["pupil"] = Flushed(w, "pupil") /\ db'["history"] = Flushed(w, "history")
          /\ db'["room"] = Flushed(w, "room") /\ db'["registry"] = Flushed(w, "registry") /\ Busy(s)
      BY <1>1, <2>1, <3>1, CommitShape DEF StudentTables, Busy
    <3>3. Known' = KnownWith(w.put)
      BY <1>1, <3>1, <3>2, KnownCommit DEF StudentTables
    <3>4. StudentsPromise(w)
      BY <1>9, <3>1, <3>2 DEF StudentsInv
    <3>5. StudentsGood(db'["pupil"], db'["history"], DOMAIN db'["room"], Known')
      BY <3>2, <3>3, <3>4 DEF StudentsPromise
    <3>6. \A q \in Sessions : tx'[q].state # "open"
      BY <1>9, <2>1, SerialEnd
    <3> QED BY <3>5, <3>6 DEF Keys
  <2>2. CASE ~Commit(s)
    <3>1. \A t \in StudentTables : db'[t] = db[t]
      BY <1>1, <2>2, OnlyCommits DEF StudentTables
    <3>2. Known' = Known
      BY <3>1 DEF Known, Keys, StudentTables
    <3>3. ASSUME NEW q \in Sessions, tx'[q].state = "open" PROVE StudentsPromise(tx[q])'
      <4>1. tx'[q] = tx[q]
        BY <1>9, <2>2, <3>3, SerialEnd
      <4>2. Busy(q) /\ Flushed(tx[q], "pupil")' = Flushed(tx[q], "pupil")
        BY <1>1, <1>9, <2>2, <3>3, SerialOpen DEF StudentsInv, StudentTables
      <4>3. Flushed(tx[q], "history")' = Flushed(tx[q], "history")
        BY <1>1, <1>9, <2>2, <3>3, SerialOpen DEF StudentsInv, StudentTables
      <4>4. Flushed(tx[q], "room")' = Flushed(tx[q], "room")
        BY <1>1, <1>9, <2>2, <3>3, SerialOpen DEF StudentsInv, StudentTables
      <4>5. StudentsPromise(tx[q])
        BY <1>9, <4>2 DEF StudentsInv
      <4> QED BY <3>2, <4>1, <4>2, <4>3, <4>4, <4>5 DEF StudentsPromise, StudentsGood, KnownWith
    <3>4. StudentsGood(db["pupil"], db["history"], DOMAIN db["room"], Known)
      BY <1>9 DEF StudentsInv, Keys
    <3>5. StudentsGood(db'["pupil"], db'["history"], DOMAIN db'["room"], Known')
      BY <3>1, <3>2, <3>4 DEF StudentTables
    <3> QED BY <3>3, <3>5 DEF Keys
  <2> QED BY <2>1, <2>2
<1> QED BY <1>1, <1>6, <1>7, <1>8, <1>9 DEF StudentsInv, Busy

(* The area of the students starts in its invariant.                       *)
LEMMA StudentsStart == StudentsInit => Shape /\ StudentsInv /\ area = "students"
<1> SUFFICES ASSUME StudentsInit PROVE Shape /\ StudentsInv /\ area = "students"
  OBVIOUS
<1>1. PICK tables : tables = [pupil |-> None, history |-> None, room |-> None, registry |-> None]
  OBVIOUS
<1>2. DOMAIN tables = StudentTables /\ \A t \in StudentTables : tables[t] = None
  BY <1>1 DEF StudentTables
<1>3. "notice" \notin DOMAIN tables /\ Starts("students", tables)
  BY <1>1, <1>2 DEF StudentTables, StudentsInit
<1>4. /\ Shape /\ area = "students" /\ DOMAIN db = StudentTables \cup {"notice"}
      /\ \A t \in StudentTables : db[t] = None
      /\ db["notice"] = None /\ \A s \in Sessions : tx[s] = Idle
  <2>1. /\ Shape /\ area = "students" /\ DOMAIN db = DOMAIN tables \cup {"notice"}
        /\ \A t \in DOMAIN tables : db[t] = tables[t]
        /\ db["notice"] = None /\ \A s \in Sessions : tx[s] = Idle
    BY <1>3, StartIs
  <2> QED BY <1>2, <2>1
<1>5. StudentsTyped
  BY <1>4, EmptyTable DEF StudentsTyped, StudentTables
<1>6. StudentsWork(Idle) /\ Idle.state = "idle"
  BY IdleIs, NoRows DEF StudentsWork
<1>7. DOMAIN db["pupil"] = {} /\ DOMAIN db["history"] = {} /\ Keys("room") = {}
  BY <1>4, NoRows DEF Keys, StudentTables
<1>8. StudentsGood(db["pupil"], db["history"], Keys("room"), Known)
  BY <1>7 DEF StudentsGood
<1> QED BY <1>4, <1>5, <1>6, <1>8, EmptyHeads DEF StudentsInv, Busy

(* The invariant of the students stays while nothing changes.              *)
LEMMA StudentsSame == ASSUME Unchanged, StudentsInv PROVE StudentsInv'
<1>1. db' = db /\ serial' = serial /\ tx' = tx /\ \A t : Keys(t)' = Keys(t)
  BY GeneralSame DEF Unchanged
<1>2. StudentsTyped' /\ OnlyInv({})'
  BY GeneralSame DEF StudentsTyped, StudentsInv
<1>3. \A s \in Sessions : StudentsWork(tx[s])'
  BY <1>1 DEF StudentsInv, StudentsWork
<1>4. Known' = Known
  BY <1>1 DEF Known
<1>5. \A w : \A t : Flushed(w, t)' = Flushed(w, t)
  BY <1>1, FlushedSame
<1>6. ASSUME serial PROVE (StudentsGood(db["pupil"], db["history"], Keys("room"), Known))'
  BY <1>1, <1>4, <1>6 DEF StudentsInv, StudentsGood
<1>7. ASSUME serial, NEW s \in Sessions, Busy(s) PROVE StudentsPromise(tx[s])'
  BY <1>1, <1>4, <1>5, <1>7 DEF StudentsInv, StudentsPromise, StudentsGood, KnownWith
<1> QED BY <1>1, <1>2, <1>3, <1>6, <1>7 DEF StudentsInv, Busy

(* Every step in the area of the students preserves their invariant.       *)
LEMMA StudentsStay ==
  ASSUME area = "students", Shape, StudentsInv, [CampusNext]_vars
  PROVE  area' = "students" /\ Shape' /\ StudentsInv'
<1>1. ASSUME NEW s \in Sessions, Handle(s) PROVE area' = area /\ Shape' /\ StudentsInv'
  BY <1>1, AreaOf, StudentsBegin DEF Handle
<1>2. ASSUME NEW s \in Sessions, EndOfRequest(s) PROVE area' = area /\ Shape' /\ StudentsInv'
  BY <1>2, WorksAtEnd, StudentsEnd
<1>3. Unchanged => Shape' /\ StudentsInv'
  BY StudentsSame, GeneralSame
<1> QED BY <1>1, <1>2, <1>3, StepIs

(* One row of history for a student, who is where it says.                 *)
LEMMA StudentsFollow ==
  ASSUME area = "students", StudentsInv
  PROVE  StudentsTypeOK /\ StudentsAgree
<1>1. StudentsTypeOK
  BY DEF StudentsInv, StudentsTyped, TableInv, StudentsTypeOK, RegistryRow
<1>2. ASSUME serial, NEW p \in Keys("pupil")
      PROVE  /\ Cardinality(HistoryOf(p)) <= 1
             /\ <<db.pupil[p].form, db.pupil[p].section>> \in Known
             /\ db.pupil[p].promoted = \E h \in HistoryOf(p) : db.history[h].status = "promoted"
  <2>1. StudentsGood(db["pupil"], db["history"], Keys("room"), Known)
    BY <1>2 DEF StudentsInv
  <2>2. \A h, j \in HistoryOf(p) : h = j
    BY <2>1 DEF StudentsGood, HistoryOf, Keys
  <2>3. Cardinality(HistoryOf(p)) <= 1
    BY <2>2, AtMostOne
  <2>4. <<db["pupil"][p].form, db["pupil"][p].section>> \in Known
    BY <2>1 DEF StudentsGood, Keys
  <2>5. db["pupil"][p].promoted = \E h \in DOMAIN db["history"] :
           db["history"][h].student = p /\ db["history"][h].status = "promoted"
    BY <2>1 DEF StudentsGood, Keys
  <2>6. (\E h \in DOMAIN db["history"] : db["history"][h].student = p /\ db["history"][h].status = "promoted")
          = \E h \in HistoryOf(p) : db["history"][h].status = "promoted"
    BY DEF HistoryOf, Keys
  <2> QED BY <2>3, <2>4, <2>5, <2>6
<1>3. serial => Keys("room") \subseteq Known
  BY DEF StudentsInv, StudentsGood
<1> QED BY <1>1, <1>2, <1>3 DEF StudentsAgree

-----------------------------------------------------------------------------
(***************************************************************************)
(* Attendance: whoever is told of it has a row, which stays.               *)
(***************************************************************************)
AttendanceKeys == Pupils \X Subjects \X (0..MaxDay)
Recorded(n) == History(n[2]) # {}
AttendanceWork(w) ==
    /\ w.drop = None /\ Rows(w.put, "notice") = None
    /\ w.state = "open" => \A n \in w.tell : \E k \in DOMAIN Rows(w.put, "attendance") : k[1] = n[2]
    /\ w.state = "after" => \A n \in w.tell : Recorded(n)

AttendanceInv ==
    /\ DOMAIN db = {"student", "attendance", "notice"}
    /\ TableInv("student", Pupils, Place) /\ TableInv("attendance", AttendanceKeys, Mark)
    /\ OnlyInv({"attendance"})
    /\ \A n \in Keys("notice") : Recorded(n)
    /\ \A s \in Sessions : AttendanceWork(tx[s])

AttendanceOpens(s, w, objects) ==
    /\ Opens(s, w, objects) /\ OnlyFits(w, {"attendance"}) /\ AttendanceWork(w)
    /\ Fits(w, "student", Pupils, Place) /\ Fits(w, "attendance", AttendanceKeys, Mark)

(* What an upsert writes is a row of attendance.                           *)
LEMMA UpsertFits ==
  ASSUME NEW place \in Place, NEW status \in Statuses
  PROVE  Upsert(place, status).new \in Mark /\ Fitting(Mark, Upsert(place, status).set)
<1>1. PICK one, new, set : /\ one = [status |-> status] /\ new = (one @@ place)
                           /\ set = [status |-> status, section |-> place.section]
  OBVIOUS
<1>2. Upsert(place, status) = [new |-> new, set |-> set]
  BY <1>1 DEF Upsert
<1>3. DOMAIN place = {"class", "section"} /\ place["class"] \in Classes /\ place["section"] \in Sections
  BY DEF Place
<1>4. DOMAIN one = {"status"} /\ one["status"] = status
  BY <1>1
<1>5. new \in Mark
  <2>1. /\ DOMAIN new = {"status"} \cup {"class", "section"}
        /\ \A x \in {"status"} \cup {"class", "section"} : new[x] = IF x \in {"status"} THEN one[x] ELSE place[x]
    BY <1>1, <1>3, <1>4 DEF @@
  <2>2. new = [x \in {"class", "section", "status"} |-> new[x]]
    BY <1>1, <1>3, <1>4 DEF @@
  <2>3. new["class"] \in Classes /\ new["section"] \in Sections /\ new["status"] \in Statuses
    BY <1>3, <1>4, <2>1
  <2>4. new = [class |-> new["class"], section |-> new["section"], status |-> new["status"]]
    BY <2>2
  <2> QED BY <2>3, <2>4 DEF Mark
<1>6. Fitting(Mark, set)
  <2>1. ASSUME NEW row \in Mark PROVE Over(row, set) \in Mark
    <3>1. PICK o : o = Over(row, set)
      OBVIOUS
    <3>2. DOMAIN set = {"status", "section"} /\ set["status"] = status /\ set["section"] = place["section"]
      BY <1>1
    <3>3. DOMAIN row = {"class", "section", "status"} /\ row["class"] \in Classes
      BY DEF Mark
    <3>4. o = [c \in {"class", "section", "status"} |-> IF c \in {"status", "section"} THEN set[c] ELSE row[c]]
      BY <3>1, <3>2, <3>3, OverIs
    <3>5. o["class"] \in Classes /\ o["section"] \in Sections /\ o["status"] \in Statuses
      BY <1>3, <3>2, <3>3, <3>4
    <3>6. o = [class |-> o["class"], section |-> o["section"], status |-> o["status"]]
      BY <3>4
    <3> QED BY <3>1, <3>5, <3>6 DEF Mark
  <2> QED BY <2>1 DEF Fitting
<1> QED BY <1>2, <1>5, <1>6

(* What the handler of "replace" collects is sound.                        *)
LEMMA ReplacePrepares ==
  ASSUME NEW s \in Sessions, NEW p \in Pupils, NEW place \in Place, Replace(s, p, place)
  PROVE  \E w, objects : AttendanceOpens(s, w, objects)
<1>1. PICK columns, one, up : columns = Changed(db["student"][p], place) /\ one = (p :> columns) /\ up = [student |-> one]
  OBVIOUS
<1>2. PICK w : w = [Work EXCEPT !.update = up]
  OBVIOUS
<1>3. BeginWith(s, w, stored \cup {})
  BY <1>1, <1>2 DEF Replace, Sets, Begin, BeginStoring
<1>4. /\ w.insert = None /\ w.update = up /\ w.put = None /\ w.drop = None /\ w.tell = {} /\ w.state = "open"
      /\ WorkShape(w)
  BY <1>2 DEF Work, Idle, WorkShape
<1>5. Rows(w.update, "student") = one /\ \A x \in {"notice", "attendance"} : Rows(w.update, x) = None
  BY <1>1, <1>4 DEF Rows
<1>6. DOMAIN None = {} /\ \A x : Rows(w.insert, x) = None /\ Rows(w.put, x) = None
  BY <1>4, NoRows
<1>7. DOMAIN one = {p} /\ one[p] = columns
  BY <1>1, OneOf
<1>8. Fitting(Place, columns)
  <2>1. ASSUME NEW row \in Place PROVE Over(row, columns) \in Place
    <3>1. PICK o : o = Over(row, columns)
      OBVIOUS
    <3>2. DOMAIN place = {"class", "section"} /\ place["class"] \in Classes /\ place["section"] \in Sections
      BY DEF Place
    <3>3. DOMAIN row = {"class", "section"} /\ row["class"] \in Classes /\ row["section"] \in Sections
      BY DEF Place
    <3>4. DOMAIN columns \subseteq DOMAIN place /\ \A c \in DOMAIN columns : columns[c] = place[c]
      BY <1>1, ChangedIs
    <3>5. o = [c \in {"class", "section"} |-> IF c \in DOMAIN columns THEN columns[c] ELSE row[c]]
      BY <3>1, <3>3, OverIs
    <3>6. o["class"] \in Classes /\ o["section"] \in Sections
      BY <3>2, <3>3, <3>4, <3>5
    <3>7. o = [class |-> o["class"], section |-> o["section"]]
      BY <3>5
    <3> QED BY <3>1, <3>6, <3>7 DEF Place
  <2> QED BY <2>1 DEF Fitting
<1>9. OnlyFits(w, {"attendance"}) /\ AttendanceWork(w)
  BY <1>4, <1>6 DEF OnlyFits, AttendanceWork
<1>10. Fits(w, "student", Pupils, Place) /\ Fits(w, "attendance", AttendanceKeys, Mark)
  BY <1>5, <1>6, <1>7, <1>8 DEF Fits
<1> QED BY <1>3, <1>4, <1>9, <1>10 DEF AttendanceOpens, Opens

(* What the handler of "mark attendance" collects is sound.                *)
LEMMA MarkPrepares ==
  ASSUME NEW s \in Sessions, NEW place \in Place, NEW sub \in Subjects, NEW day \in 0..MaxDay,
         NEW P \in Batches, NEW marks \in [P -> Statuses], MarkAttendance(s, place, sub, day, marks)
  PROVE  \E w, objects : AttendanceOpens(s, w, objects)
<1>0. DOMAIN marks = P /\ P \subseteq Pupils /\ \A p \in P : marks[p] \in Statuses
  BY AttendanceConstants
<1>1. PICK keys, told : keys = {<<p, sub, day>> : p \in DOMAIN marks} /\ told = {<<"attendance", p>> : p \in DOMAIN marks}
  OBVIOUS
<1>2. PICK rows : rows = [k \in keys |-> Upsert(place, marks[k[1]])]
  OBVIOUS
<1>3. PICK put : put = [attendance |-> rows]
  OBVIOUS
<1>4. PICK w : w = [Work EXCEPT !.put = put, !.tell = told]
  OBVIOUS
<1>5. BeginWith(s, w, stored \cup {})
  BY <1>1, <1>2, <1>3, <1>4 DEF MarkAttendance, Begin, BeginStoring
<1>6. /\ w.insert = None /\ w.update = None /\ w.put = put /\ w.drop = None /\ w.tell = told /\ w.state = "open"
      /\ WorkShape(w)
  BY <1>4 DEF Work, Idle, WorkShape
<1>7. Rows(w.put, "attendance") = rows /\ \A x \in {"notice", "student"} : Rows(w.put, x) = None
  BY <1>3, <1>6 DEF Rows
<1>8. DOMAIN None = {} /\ \A x : Rows(w.insert, x) = None /\ Rows(w.update, x) = None
  BY <1>6, NoRows
<1>9. ASSUME NEW k \in keys PROVE k \in AttendanceKeys /\ rows[k].new \in Mark /\ Fitting(Mark, rows[k].set)
  <2>1. PICK p \in P : k = <<p, sub, day>>
    BY <1>0, <1>1
  <2>2. rows[k] = Upsert(place, marks[p])
    BY <1>2, <2>1
  <2> QED BY <1>0, <2>1, <2>2, UpsertFits DEF AttendanceKeys
<1>10. DOMAIN rows = keys
  BY <1>2
<1>11. Fits(w, "student", Pupils, Place) /\ Fits(w, "attendance", AttendanceKeys, Mark)
  BY <1>7, <1>8, <1>9, <1>10 DEF Fits
<1>12. OnlyFits(w, {"attendance"})
  BY <1>1, <1>6, <1>7, <1>8 DEF OnlyFits
<1>13. ASSUME NEW n \in told PROVE \E k \in keys : k[1] = n[2]
  <2>1. PICK p \in P : n = <<"attendance", p>>
    BY <1>0, <1>1
  <2>2. <<p, sub, day>> \in keys
    BY <1>0, <1>1
  <2> QED BY <2>1, <2>2
<1>14. AttendanceWork(w)
  BY <1>6, <1>7, <1>10, <1>13 DEF AttendanceWork
<1> QED BY <1>5, <1>6, <1>11, <1>12, <1>14 DEF AttendanceOpens, Opens

(* The handlers of attendance preserve the invariant of their area.        *)
LEMMA AttendanceBegin ==
  ASSUME Shape, AttendanceInv, NEW s \in Sessions, AttendanceStep(s)
  PROVE  AttendanceInv' /\ Shape' /\ area' = area
<1>1. \E w, objects : AttendanceOpens(s, w, objects)
  BY ReplacePrepares, MarkPrepares, Zenon DEF AttendanceStep
<1>2. PICK w, objects : AttendanceOpens(s, w, objects)
  BY <1>1
<1>3. BeginWith(s, w, objects) /\ WorkShape(w) /\ w.state = "open" /\ AttendanceWork(w)
  BY <1>2 DEF AttendanceOpens, Opens
<1>4. /\ Shape' /\ tx' = [q \in Sessions |-> IF q = s THEN w ELSE tx[q]] /\ UNCHANGED <<area, db>>
  BY <1>3, BeginShape
<1>5. TableStays("student", Pupils, Place) /\ TableStays("attendance", AttendanceKeys, Mark)
  BY <1>2, <1>3, TableBegin DEF AttendanceInv, AttendanceOpens
<1>6. OnlyInv({"attendance"})'
  BY <1>2, <1>3, OnlyBegin DEF AttendanceInv, AttendanceOpens
<1>7. TableInv("student", Pupils, Place)' /\ TableInv("attendance", AttendanceKeys, Mark)'
  BY <1>5 DEF TableStays, TableInv, Fits
<1>8. \A p : History(p)' = History(p)
  BY <1>4 DEF History, Keys
<1>9. ASSUME NEW q \in Sessions PROVE AttendanceWork(tx[q])'
  <2>1. PICK v : v = tx'[q] /\ AttendanceWork(v)
    BY <1>3, <1>4 DEF AttendanceInv
  <2>2. AttendanceWork(v)'
    BY <1>8, <2>1 DEF AttendanceWork, Recorded
  <2> QED BY <2>1, <2>2
<1>10. DOMAIN db' = {"student", "attendance", "notice"} /\ \A n \in Keys("notice")' : Recorded(n)'
  BY <1>4, <1>8 DEF AttendanceInv, Recorded, Keys
<1> QED BY <1>4, <1>6, <1>7, <1>9, <1>10 DEF AttendanceInv

(* The end of a request preserves the invariant of attendance.             *)
LEMMA AttendanceEnd ==
  ASSUME Shape, AttendanceInv, NEW s \in Sessions, EndOfRequest(s)
  PROVE  AttendanceInv'
<1>1. DOMAIN db' = DOMAIN db /\ "student" \in DOMAIN db /\ "attendance" \in DOMAIN db
  BY OnlyCommits DEF AttendanceInv
<1>2. TableStays("student", Pupils, Place)
  BY <1>1, TableEnd DEF AttendanceInv
<1>3. TableStays("attendance", AttendanceKeys, Mark)
  BY <1>1, TableEnd DEF AttendanceInv
<1>4. OnlyInv({"attendance"})'
  BY OnlyEnd DEF AttendanceInv
<1>5. TableInv("student", Pupils, Place)' /\ TableInv("attendance", AttendanceKeys, Mark)'
  BY <1>2, <1>3 DEF TableStays, TableInv, Fits
<1>6. PICK v : v = tx[s] /\ AttendanceWork(v)
  BY DEF AttendanceInv
<1>7. /\ Keys("attendance") \subseteq Keys("attendance")'
      /\ Commit(s) => DOMAIN Rows(v.put, "attendance") \subseteq Keys("attendance")' /\ v.state = "open"
  <2>1. CASE Commit(s)
    <3>1. db'["attendance"] = Flushed(v, "attendance") /\ v.state = "open"
      BY <1>1, <1>6, <2>1, CommitShape
    <3>2. DOMAIN Flushed(v, "attendance") = Keys("attendance") \cup DOMAIN Rows(v.insert, "attendance") \cup DOMAIN Rows(v.put, "attendance")
      BY <1>6, NothingDropped DEF AttendanceWork
    <3> QED BY <3>1, <3>2 DEF Keys
  <2>2. CASE ~Commit(s)
    BY <1>1, <2>2, OnlyCommits DEF Keys
  <2> QED BY <2>1, <2>2
<1>8. \A n : Recorded(n) => Recorded(n)'
  BY <1>7 DEF Recorded, History
<1>9. ASSUME Commit(s), NEW n \in v.tell PROVE Recorded(n)'
  <2>1. PICK k \in DOMAIN Rows(v.put, "attendance") : k[1] = n[2]
    BY <1>6, <1>7, <1>9 DEF AttendanceWork
  <2> QED BY <1>7, <1>9, <2>1 DEF Recorded, History
<1>10. NoticeFits(tx[s])
  BY DEF AttendanceInv, OnlyInv, OnlyFits, AttendanceWork, NoticeFits
<1>11. /\ \A n \in Keys("notice")' : n \in Keys("notice") \/ (tx[s].state = "after" /\ n \in tx[s].tell)
       /\ \A q \in Sessions : \A n : tx'[q].state = "after" /\ n \in tx'[q].tell =>
                 \/ tx[q].state = "after" /\ n \in tx[q].tell
                 \/ q = s /\ Commit(s) /\ n \in tx[s].tell
  BY <1>10, NoticeEnd
<1>12. \A q \in Sessions : \A n : tx[q].state = "after" /\ n \in tx[q].tell => Recorded(n)
  BY DEF AttendanceInv, AttendanceWork
<1>13. \A n \in Keys("notice")' : Recorded(n)'
  BY <1>8, <1>11, <1>12 DEF AttendanceInv
<1>14. ASSUME NEW q \in Sessions PROVE AttendanceWork(tx[q])'
  <2>1. \A n \in tx'[q].tell : tx'[q].state = "after" => Recorded(n)'
    BY <1>6, <1>8, <1>9, <1>11, <1>12
  <2>2. PICK w : w = tx'[q]
    OBVIOUS
  <2>3. CASE tx'[q] = tx[q]
    <3>1. AttendanceWork(w)
      BY <2>2, <2>3 DEF AttendanceInv
    <3>2. AttendanceWork(w)'
      BY <2>1, <2>2, <3>1 DEF AttendanceWork
    <3> QED BY <2>2, <3>2
  <2>4. CASE /\ tx'[q].insert = None /\ tx'[q].put = None /\ tx'[q].update = None /\ tx'[q].drop = None
             /\ tx'[q].state \in {"idle", "after"}
    <3>1. AttendanceWork(w)'
      BY <2>1, <2>2, <2>4, NoRows DEF AttendanceWork
    <3> QED BY <2>2, <3>1
  <2> QED BY <2>3, <2>4, WorksAtEnd
<1> QED BY <1>1, <1>4, <1>5, <1>13, <1>14 DEF AttendanceInv

(* The area of attendance starts in its invariant.                         *)
LEMMA AttendanceStart == AttendanceInit => Shape /\ AttendanceInv /\ area = "attendance"
<1> SUFFICES ASSUME AttendanceInit PROVE Shape /\ AttendanceInv /\ area = "attendance"
  OBVIOUS
<1>1. PICK place \in Place : Starts("attendance", [student |-> [p \in Pupils |-> place], attendance |-> None])
  BY DEF AttendanceInit
<1>2. PICK students : students = [p \in Pupils |-> place]
  OBVIOUS
<1>3. PICK tables : tables = [student |-> students, attendance |-> None]
  OBVIOUS
<1>4. DOMAIN tables = {"student", "attendance"} /\ tables["student"] = students /\ tables["attendance"] = None
  BY <1>3
<1>5. "notice" \notin DOMAIN tables /\ Starts("attendance", tables)
  BY <1>1, <1>2, <1>3, <1>4
<1>6. /\ Shape /\ area = "attendance" /\ DOMAIN db = DOMAIN tables \cup {"notice"}
      /\ \A t \in DOMAIN tables : db[t] = tables[t]
      /\ db["notice"] = None /\ \A s \in Sessions : tx[s] = Idle
  BY <1>5, StartIs
<1>7. TableInv("student", Pupils, Place)
  <2>1. Table("student", Pupils, Place)
    BY <1>2, <1>4, <1>6 DEF Table, Keys
  <2>2. Fits(Idle, "student", Pupils, Place)
    BY IdleIs, IdleFits
  <2> QED BY <1>6, <2>1, <2>2 DEF TableInv
<1>8. TableInv("attendance", AttendanceKeys, Mark)
  BY <1>4, <1>6, EmptyTable
<1>9. AttendanceWork(Idle)
  BY IdleIs, NoRows DEF AttendanceWork
<1>10. Keys("notice") = {}
  BY <1>6, NoRows DEF Keys
<1> QED BY <1>4, <1>6, <1>7, <1>8, <1>9, <1>10, EmptyHeads DEF AttendanceInv

(* The invariant of attendance stays while nothing changes.                *)
LEMMA AttendanceSame == ASSUME Unchanged, AttendanceInv PROVE AttendanceInv'
<1>1. db' = db /\ tx' = tx /\ \A t : Keys(t)' = Keys(t)
  BY GeneralSame DEF Unchanged
<1>2. TableInv("student", Pupils, Place)' /\ TableInv("attendance", AttendanceKeys, Mark)' /\ OnlyInv({"attendance"})'
  BY GeneralSame DEF AttendanceInv
<1>3. \A p : History(p)' = History(p)
  BY <1>1 DEF History
<1>4. \A s \in Sessions : AttendanceWork(tx[s])'
  BY <1>1, <1>3 DEF AttendanceInv, AttendanceWork, Recorded
<1> QED BY <1>1, <1>2, <1>3, <1>4 DEF AttendanceInv, Recorded

(* Every step in the area of attendance preserves its invariant.           *)
LEMMA AttendanceStays ==
  ASSUME area = "attendance", Shape, AttendanceInv, [CampusNext]_vars
  PROVE  area' = "attendance" /\ Shape' /\ AttendanceInv'
<1>1. ASSUME NEW s \in Sessions, Handle(s) PROVE area' = area /\ Shape' /\ AttendanceInv'
  BY <1>1, AreaOf, AttendanceBegin DEF Handle
<1>2. ASSUME NEW s \in Sessions, EndOfRequest(s) PROVE area' = area /\ Shape' /\ AttendanceInv'
  BY <1>2, WorksAtEnd, AttendanceEnd
<1>3. Unchanged => Shape' /\ AttendanceInv'
  BY AttendanceSame, GeneralSame
<1> QED BY <1>1, <1>2, <1>3, StepIs

(* Any function may be summed up by the values that it has.                *)
LEMMA SumOfIs ==
  ASSUME NEW groups, IsFiniteSet(DOMAIN groups), NEW column, NEW c,
         \A g \in DOMAIN groups : c[g] = groups[g][column]
  PROVE  SumOf(column, groups) = Total(c, DOMAIN groups)
<1> DEFINE G == DOMAIN groups
           sums(it) == [s \in SUBSET G |->
               IF s = {} THEN 0 ELSE groups[First(s)][column] + it[s \ {First(s)}]]
           j == CHOOSE it : it = sums(it)
<1>1. \A s \in SUBSET G : s # {} => c[First(s)] = groups[First(s)][column]
  BY FirstIn
<1>2. \A it : Partials(c, it, G) <=> it = sums(it)
  <2> TAKE it
  <2>1. sums(it) = [s \in SUBSET G |-> IF s = {} THEN 0 ELSE c[First(s)] + it[s \ {First(s)}]]
    BY <1>1
  <2> HIDE DEF sums, G
  <2> QED BY <2>1 DEF Partials
<1>3. \E it : it = sums(it)
  <2> HIDE DEF sums
  <2> QED BY <1>2, PartialsExist
<1>4. j = sums(j)
  <2> HIDE DEF sums
  <2> QED BY <1>3, Zenon
<1>5. Partials(c, j, G)
  <2> HIDE DEF sums, j, G
  <2> QED BY <1>2, <1>4
<1>6. Total(c, G) = j[G]
  <2> HIDE DEF j
  <2> QED BY <1>5, TotalIs
<1>7. SumOf(column, groups) = j[G]
  BY DEF SumOf, MapThenSumSet, MapThenFoldSet, First
<1> QED BY <1>6, <1>7

(* Rows counted group by group are all counted.                            *)
Counts(K, G, key) == [g \in G |-> Cardinality({k \in K : key[k] = g})]

LEMMA CountBy ==
  ASSUME NEW K, IsFiniteSet(K), NEW G, IsFiniteSet(G), NEW key, \A k \in K : key[k] \in G
  PROVE  Total(Counts(K, G, key), G) = Cardinality(K)
<1>01. PICK c : c = [g \in G |-> Cardinality({k \in K : key[k] = g})]
  OBVIOUS
<1>0. c = Counts(K, G, key) /\ \A g \in G : c[g] = Cardinality({k \in K : key[k] = g})
  BY <1>01 DEF Counts
<1> DEFINE in(T) == {k \in K : key[k] \in T}
           Bad == {T \in SUBSET G : Total(c, T) # Cardinality(in(T))}
<1>1. ASSUME Bad # {} PROVE FALSE
  <2>1. PICK T \in Bad : \A V \in SUBSET T : V # T => V \notin Bad
    <3>1. Bad \in SUBSET SUBSET G
      OBVIOUS
    <3> HIDE DEF Bad
    <3> QED BY <1>1, <3>1, Smallest
  <2>2. T # {}
    <3>1. in({}) = {} /\ Total(c, {}) = 0 /\ Cardinality({}) = 0
      BY TotalEmpty, FS_EmptySet
    <3> QED BY <2>1, <3>1
  <2>3. PICK x : x = First(T)
    OBVIOUS
  <2>4. x \in T /\ IsFiniteSet(T)
    BY <2>1, <2>2, <2>3, FirstIn, FS_Subset
  <2>5. Total(c, T) = c[x] + Total(c, T \ {x})
    BY <2>2, <2>3, <2>4, TotalFirst
  <2>6. T \ {x} \in SUBSET G /\ T \ {x} \notin Bad
    BY <2>1, <2>4
  <2>7. Total(c, T \ {x}) = Cardinality(in(T \ {x})) /\ c[x] = Cardinality(in({x}))
    <3>1. in({x}) = {k \in K : key[k] = x}
      OBVIOUS
    <3> QED BY <1>0, <2>1, <2>4, <2>6, <3>1
  <2>8. /\ IsFiniteSet(in(T \ {x})) /\ IsFiniteSet(in({x}))
        /\ in(T) = in(T \ {x}) \cup in({x}) /\ in(T \ {x}) \cap in({x}) = {}
    <3>1. in(T \ {x}) \subseteq K /\ in({x}) \subseteq K
      OBVIOUS
    <3>2. IsFiniteSet(in(T \ {x})) /\ IsFiniteSet(in({x}))
      <4> HIDE DEF in
      <4> QED BY <3>1, FS_Subset
    <3>3. in(T) = in(T \ {x}) \cup in({x}) /\ in(T \ {x}) \cap in({x}) = {}
      BY <2>4
    <3> QED BY <3>2, <3>3
  <2>9. Cardinality(in(T)) = Cardinality(in(T \ {x})) + Cardinality(in({x}))
    <3>1. PICK A, B : A = in(T \ {x}) /\ B = in({x})
      OBVIOUS
    <3>2. IsFiniteSet(A) /\ IsFiniteSet(B) /\ in(T) = A \cup B /\ A \cap B = {}
      BY <2>8, <3>1
    <3>3. Cardinality(A \cup B) = Cardinality(A) + Cardinality(B) - Cardinality(A \cap B)
      BY <3>2, FS_Union
    <3>4. Cardinality(A) \in Nat /\ Cardinality(B) \in Nat
      BY <3>2, FS_CardinalityType
    <3>5. Cardinality(A \cap B) = 0
      BY <3>2, FS_EmptySet
    <3>6. Cardinality(A \cup B) = Cardinality(A) + Cardinality(B)
      BY <3>3, <3>4, <3>5
    <3> HIDE DEF in
    <3> QED BY <3>1, <3>2, <3>6
  <2>10. Cardinality(in(T \ {x})) \in Nat /\ Cardinality(in({x})) \in Nat
    <3> HIDE DEF in
    <3> QED BY <2>8, FS_CardinalityType
  <2>11. Total(c, T) = Cardinality(in(T))
    <3> HIDE DEF in
    <3> QED BY <2>5, <2>7, <2>9, <2>10
  <2> QED BY <2>1, <2>11
<1>2. Total(c, G) = Cardinality(in(G))
  BY <1>1
<1>3. in(G) = K
  OBVIOUS
<1> QED BY <1>0, <1>2, <1>3

Columns == {"total", "present", "absent", "late"}
Counted(K, column) == IF column = "total" THEN K ELSE {k \in K : db["attendance"][k].status = column}

(* What is counted of some rows.                                           *)
LEMMA TallyIs ==
  ASSUME NEW K, NEW column \in Columns
  PROVE  Tally(K)[column] = Cardinality(Counted(K, column))
<1>1. PICK a, b, c, d : /\ a = Cardinality(K) /\ b = RowsWith("present", K)
                        /\ c = RowsWith("absent", K) /\ d = RowsWith("late", K)
  OBVIOUS
<1>2. Tally(K) = [total |-> a, present |-> b, absent |-> c, late |-> d]
  BY <1>1 DEF Tally
<1>3. CASE column = "total"
  BY <1>1, <1>2, <1>3 DEF Counted
<1>4. CASE column = "present"
  BY <1>1, <1>2, <1>4 DEF Counted, RowsWith
<1>5. CASE column = "absent"
  BY <1>1, <1>2, <1>5 DEF Counted, RowsWith
<1>6. CASE column = "late"
  BY <1>1, <1>2, <1>6 DEF Counted, RowsWith
<1> QED BY <1>3, <1>4, <1>5, <1>6 DEF Columns

(* Rows counted group by group, by some function of their keys.            *)
ByKey(K, key) == [g \in {key[k] : k \in K} |-> Tally({k \in K : key[k] = g})]

LEMMA KeysFinite ==
  ASSUME NEW K, IsFiniteSet(K), NEW key PROVE IsFiniteSet({key[k] : k \in K})
<1>1. PICK T, f : T = {key[k] : k \in K} /\ f = [k \in K |-> key[k]]
  OBVIOUS
<1>2. f \in [K -> T] /\ \A t \in T : \E k \in K : f[k] = t
  BY <1>1
<1>3. f \in Surjection(K, T)
  BY <1>2 DEF Surjection
<1>4. IsFiniteSet(T)
  BY <1>3, FS_Surjection
<1> QED BY <1>1, <1>4

LEMMA GroupsAddUp ==
  ASSUME NEW K, IsFiniteSet(K), NEW key, NEW column \in Columns
  PROVE  SumOf(column, ByKey(K, key)) = Cardinality(Counted(K, column))
<1>1. PICK G, groups : G = {key[k] : k \in K} /\ groups = ByKey(K, key)
  OBVIOUS
<1>2. DOMAIN groups = G /\ \A g \in G : groups[g] = Tally({k \in K : key[k] = g})
  BY <1>1 DEF ByKey
<1>3. IsFiniteSet(G)
  BY <1>1, KeysFinite
<1>4. PICK c : c = [g \in G |-> groups[g][column]]
  OBVIOUS
<1>5. SumOf(column, groups) = Total(c, G)
  BY <1>2, <1>3, <1>4, SumOfIs
<1>6. PICK L : L = Counted(K, column)
  OBVIOUS
<1>7. L \subseteq K /\ IsFiniteSet(L)
  BY <1>6, FS_Subset DEF Counted
<1>8. \A k \in L : key[k] \in G
  BY <1>1, <1>7
<1>9. ASSUME NEW g \in G PROVE c[g] = Counts(L, G, key)[g]
  <2>1. PICK M : M = {k \in K : key[k] = g}
    OBVIOUS
  <2>2. c[g] = Tally(M)[column]
    BY <1>2, <1>4, <2>1
  <2>3. Counted(M, column) = {k \in L : key[k] = g}
    BY <1>6, <2>1 DEF Counted
  <2> QED BY <2>2, <2>3, TallyIs DEF Counts
<1>10. Total(c, G) = Total(Counts(L, G, key), G)
  BY <1>3, <1>9, TotalSame
<1>11. Total(Counts(L, G, key), G) = Cardinality(L)
  BY <1>3, <1>7, <1>8, CountBy
<1> QED BY <1>1, <1>5, <1>6, <1>10, <1>11

(* The queries that count by class, subject, month and period.             *)
LEMMA ViewsByKey ==
  ASSUME TRUE
  PROVE  /\ \E key : ClassAnalytics = ByKey(Keys("attendance"), key)
         /\ \E key : SubjectAnalytics = ByKey(Keys("attendance"), key)
         /\ \A periods : \E key, K : /\ K \subseteq Keys("attendance")
                                     /\ Trend(periods) = ByKey(K, key)
         /\ \A p : \E key : MonthlySummary(p) = ByKey(History(p), key)
         /\ \A p : \E key : /\ SubjectStats(p) = ByKey(History(p), key)
                            /\ \A k \in History(p) : key[k] = k[2]
<1>1. \E key : ClassAnalytics = ByKey(Keys("attendance"), key)
  <2>1. PICK key : key = [k \in Keys("attendance") |-> <<db.attendance[k].class, db.attendance[k].section>>]
    OBVIOUS
  <2>2. {<<db.attendance[k].class, db.attendance[k].section>> : k \in Keys("attendance")} = {key[k] : k \in Keys("attendance")}
    BY <2>1
  <2>3. \A g : {k \in Keys("attendance") : <<db.attendance[k].class, db.attendance[k].section>> = g} = {k \in Keys("attendance") : key[k] = g}
    BY <2>1
  <2>4. ClassAnalytics = ByKey(Keys("attendance"), key)
    BY <2>2, <2>3 DEF ClassAnalytics, Grouped, ByKey
  <2> QED BY <2>4
<1>2. \E key : SubjectAnalytics = ByKey(Keys("attendance"), key)
  <2>1. PICK key : key = [k \in Keys("attendance") |-> k[2]]
    OBVIOUS
  <2>2. {k[2] : k \in Keys("attendance")} = {key[k] : k \in Keys("attendance")}
    BY <2>1
  <2>3. \A g : {k \in Keys("attendance") : k[2] = g} = {k \in Keys("attendance") : key[k] = g}
    BY <2>1
  <2>4. SubjectAnalytics = ByKey(Keys("attendance"), key)
    BY <2>2, <2>3 DEF SubjectAnalytics, Grouped, ByKey
  <2> QED BY <2>4
<1>3. ASSUME NEW periods
      PROVE  \E key, K : K \subseteq Keys("attendance") /\ Trend(periods) = ByKey(K, key)
  <2>1. PICK K : K = {k \in Keys("attendance") : k[3] > today - periods}
    OBVIOUS
  <2>2. PICK key : key = [k \in K |-> k[3]]
    OBVIOUS
  <2>3. {k[3] : k \in K} = {key[k] : k \in K}
    BY <2>2
  <2>4. \A g : {k \in K : k[3] = g} = {k \in K : key[k] = g}
    BY <2>2
  <2>5. Trend(periods) = ByKey(K, key)
    BY <2>1, <2>3, <2>4 DEF Trend, Grouped, ByKey
  <2> QED BY <2>1, <2>5
<1>4. ASSUME NEW p PROVE \E key : MonthlySummary(p) = ByKey(History(p), key)
  <2>1. PICK key : key = [k \in History(p) |-> k[3]]
    OBVIOUS
  <2>2. {k[3] : k \in History(p)} = {key[k] : k \in History(p)}
    BY <2>1
  <2>3. \A g : {k \in History(p) : k[3] = g} = {k \in History(p) : key[k] = g}
    BY <2>1
  <2>4. MonthlySummary(p) = ByKey(History(p), key)
    BY <2>2, <2>3 DEF MonthlySummary, Grouped, ByKey
  <2> QED BY <2>4
<1>5. ASSUME NEW p
      PROVE  \E key : /\ SubjectStats(p) = ByKey(History(p), key)
                      /\ \A k \in History(p) : key[k] = k[2]
  <2>1. PICK key : key = [k \in History(p) |-> k[2]]
    OBVIOUS
  <2>2. {k[2] : k \in History(p)} = {key[k] : k \in History(p)}
    BY <2>1
  <2>3. \A g : {k \in History(p) : k[2] = g} = {k \in History(p) : key[k] = g}
    BY <2>1
  <2>4. SubjectStats(p) = ByKey(History(p), key)
    BY <2>2, <2>3 DEF SubjectStats, Grouped, ByKey
  <2> QED BY <2>1, <2>4
<1> QED BY <1>1, <1>2, <1>3, <1>4, <1>5

(* There are finitely many rows.                                           *)
LEMMA AttendanceFinite ==
  ASSUME AttendanceInv, NEW K, K \subseteq Keys("attendance")
  PROVE  IsFiniteSet(K) /\ \A column \in Columns : IsFiniteSet(Counted(K, column))
<1>1. IsFiniteSet(0..MaxDay)
  BY FS_Interval, CalendarConstants
<1>2. IsFiniteSet(Pupils \X Subjects \X (0..MaxDay))
  <2>1. IsFiniteSet(Pupils) /\ IsFiniteSet(Subjects)
    BY AttendanceConstants
  <2>2. PICK D : D = 0..MaxDay /\ IsFiniteSet(D)
    BY <1>1
  <2>3. IsFiniteSet(Pupils \X Subjects)
    BY <2>1, FS_Product
  <2>4. IsFiniteSet((Pupils \X Subjects) \X D)
    BY <2>2, <2>3, FS_Product
  <2>5. PICK f : f = [x \in (Pupils \X Subjects) \X D |-> <<x[1][1], x[1][2], x[2]>>]
    OBVIOUS
  <2>6. IsFiniteSet({f[x] : x \in (Pupils \X Subjects) \X D})
    BY <2>4, KeysFinite
  <2>7. Pupils \X Subjects \X D \subseteq {f[x] : x \in (Pupils \X Subjects) \X D}
    <3>1. ASSUME NEW p \in Pupils, NEW sub \in Subjects, NEW d \in D
          PROVE  <<p, sub, d>> \in {f[x] : x \in (Pupils \X Subjects) \X D}
      <4>1. PICK x : x = <<<<p, sub>>, d>>
        OBVIOUS
      <4>2. x \in (Pupils \X Subjects) \X D /\ x[1][1] = p /\ x[1][2] = sub /\ x[2] = d
        BY <4>1
      <4>3. f[x] = <<p, sub, d>>
        BY <2>5, <4>2
      <4> QED BY <4>2, <4>3
    <3>2. ASSUME NEW e \in Pupils \X Subjects \X D PROVE e \in {f[x] : x \in (Pupils \X Subjects) \X D}
      <4>1. e = <<e[1], e[2], e[3]>> /\ e[1] \in Pupils /\ e[2] \in Subjects /\ e[3] \in D
        OBVIOUS
      <4>2. <<e[1], e[2], e[3]>> \in {f[x] : x \in (Pupils \X Subjects) \X D}
        BY <3>1, <4>1
      <4> QED BY <4>1, <4>2
    <3> QED BY <3>2
  <2>8. IsFiniteSet(Pupils \X Subjects \X D)
    BY <2>6, <2>7, FS_Subset
  <2> QED BY <2>2, <2>8
<1>3. IsFiniteSet(K)
  BY <1>2, FS_Subset DEF AttendanceInv, TableInv, Table, AttendanceKeys
<1>4. \A column \in Columns : IsFiniteSet(Counted(K, column))
  BY <1>3, FS_Subset DEF Counted
<1> QED BY <1>3, <1>4

(* The counts of some rows add up.                                         *)
LEMMA TallyAddsUp ==
  ASSUME AttendanceInv, NEW K, K \subseteq Keys("attendance")
  PROVE  /\ Tally(K).total \in Nat /\ Tally(K).present \in Nat /\ Tally(K).absent \in Nat /\ Tally(K).late \in Nat
         /\ Tally(K).total = Tally(K).present + Tally(K).absent + Tally(K).late
<1>1. PICK P, A, L : P = Counted(K, "present") /\ A = Counted(K, "absent") /\ L = Counted(K, "late")
  OBVIOUS
<1>2. IsFiniteSet(P) /\ IsFiniteSet(A) /\ IsFiniteSet(L) /\ IsFiniteSet(K)
  BY <1>1, AttendanceFinite DEF Columns
<1>3. /\ Tally(K)["total"] = Cardinality(K) /\ Tally(K)["present"] = Cardinality(P)
      /\ Tally(K)["absent"] = Cardinality(A) /\ Tally(K)["late"] = Cardinality(L)
  BY <1>1, TallyIs DEF Columns, Counted
<1>4. \A k \in K : db["attendance"][k].status \in {"present", "absent", "late"}
  BY AttendanceConstants DEF AttendanceInv, TableInv, Table, Mark
<1>5. K = (P \cup A) \cup L /\ P \cap A = {} /\ (P \cup A) \cap L = {}
  BY <1>1, <1>4 DEF Counted
<1>6. IsFiniteSet(P \cup A) /\ Cardinality(P \cup A) = Cardinality(P) + Cardinality(A) - Cardinality(P \cap A)
  BY <1>2, FS_Union
<1>7. Cardinality((P \cup A) \cup L) = Cardinality(P \cup A) + Cardinality(L) - Cardinality((P \cup A) \cap L)
  BY <1>2, <1>6, FS_Union
<1>8. /\ Cardinality(P) \in Nat /\ Cardinality(A) \in Nat /\ Cardinality(L) \in Nat /\ Cardinality(K) \in Nat
      /\ Cardinality({}) = 0
  BY <1>2, FS_CardinalityType, FS_EmptySet
<1>9. Cardinality(K) = Cardinality(P) + Cardinality(A) + Cardinality(L)
  <2>1. Cardinality(P \cap A) = 0 /\ Cardinality((P \cup A) \cap L) = 0
    BY <1>5, <1>8
  <2>2. Cardinality(P \cup A) = Cardinality(P) + Cardinality(A)
    BY <1>6, <1>8, <2>1
  <2>3. Cardinality((P \cup A) \cup L) = Cardinality(P) + Cardinality(A) + Cardinality(L)
    BY <1>7, <1>8, <2>1, <2>2
  <2> QED BY <1>5, <2>3
<1> QED BY <1>3, <1>8, <1>9

(* The queries of attendance agree.                                        *)
LEMMA AttendanceFollows ==
  ASSUME area = "attendance", AttendanceInv
  PROVE  /\ AttendanceTypeOK /\ AttendanceViewsAgree
         /\ \A n \in Keys("notice") : n[1] = "attendance" /\ History(n[2]) # {}
<1>1. AttendanceTypeOK
  BY DEF AttendanceInv, TableInv, AttendanceTypeOK, AttendanceKeys
<1>2. \A n \in Keys("notice") : n[1] = "attendance" /\ History(n[2]) # {}
  BY DEF AttendanceInv, OnlyInv, Recorded
<1>3. PICK all : all = Keys("attendance") /\ IsFiniteSet(all)
  BY AttendanceFinite
<1>4. \A p : History(p) \subseteq all /\ IsFiniteSet(History(p))
  BY <1>3, FS_Subset DEF History
<1>5. ASSUME NEW column \in Columns
      PROVE  /\ SumOf(column, ClassAnalytics) = SchoolTotals[column]
             /\ SumOf(column, SubjectAnalytics) = SchoolTotals[column]
             /\ SumOf(column, Trend(MaxDay + 1)) <= SchoolTotals[column]
             /\ \A p : /\ SumOf(column, MonthlySummary(p)) = Tally(History(p))[column]
                       /\ SumOf(column, SubjectStats(p)) = Tally(History(p))[column]
  <2>1. SchoolTotals[column] = Cardinality(Counted(all, column))
    BY <1>3, TallyIs DEF SchoolTotals
  <2>2. SumOf(column, ClassAnalytics) = Cardinality(Counted(all, column))
    BY <1>3, ViewsByKey, GroupsAddUp
  <2>3. SumOf(column, SubjectAnalytics) = Cardinality(Counted(all, column))
    BY <1>3, ViewsByKey, GroupsAddUp
  <2>4. SumOf(column, Trend(MaxDay + 1)) <= SchoolTotals[column]
    <3>1. PICK key, K : K \subseteq all /\ Trend(MaxDay + 1) = ByKey(K, key)
      BY <1>3, ViewsByKey
    <3>2. IsFiniteSet(K)
      BY <1>3, <3>1, FS_Subset
    <3>3. SumOf(column, Trend(MaxDay + 1)) = Cardinality(Counted(K, column))
      BY <3>1, <3>2, GroupsAddUp
    <3>4. Counted(K, column) \subseteq Counted(all, column) /\ IsFiniteSet(Counted(all, column))
      BY <1>3, <3>1, AttendanceFinite DEF Counted
    <3> QED BY <2>1, <3>3, <3>4, FS_Subset
  <2>5. ASSUME NEW p
        PROVE  /\ SumOf(column, MonthlySummary(p)) = Tally(History(p))[column]
               /\ SumOf(column, SubjectStats(p)) = Tally(History(p))[column]
    <3>1. PICK key : MonthlySummary(p) = ByKey(History(p), key)
      BY ViewsByKey
    <3>2. PICK by : SubjectStats(p) = ByKey(History(p), by)
      BY ViewsByKey
    <3>3. SumOf(column, ByKey(History(p), key)) = Cardinality(Counted(History(p), column))
      BY <1>4, GroupsAddUp
    <3>4. SumOf(column, ByKey(History(p), by)) = Cardinality(Counted(History(p), column))
      BY <1>4, GroupsAddUp
    <3>5. Tally(History(p))[column] = Cardinality(Counted(History(p), column))
      BY TallyIs
    <3> QED BY <3>1, <3>2, <3>3, <3>4, <3>5
  <2> QED BY <2>1, <2>2, <2>3, <2>4, <2>5
<1>6. SchoolTotals.total = SchoolTotals.present + SchoolTotals.absent + SchoolTotals.late
  BY <1>3, TallyAddsUp DEF SchoolTotals
<1>7. ASSUME NEW p \in Pupils, NEW sub \in Subjects, NEW day \in 0..MaxDay,
             LectureSnapshot(db.student[p], sub, day)[p] = "present"
      PROVE  sub \in DOMAIN SubjectStats(p) /\ SubjectStats(p)[sub].present > 0
  <2>1. PICK k : k = <<p, sub, day>>
    OBVIOUS
  <2>2. k \in all /\ db["attendance"][k].status = "present"
    BY <1>3, <1>7, <2>1 DEF LectureSnapshot
  <2>3. k \in History(p) /\ k[2] = sub
    BY <1>3, <2>1, <2>2 DEF History
  <2>4. PICK key : SubjectStats(p) = ByKey(History(p), key) /\ \A i \in History(p) : key[i] = i[2]
    BY ViewsByKey
  <2>5. PICK M : M = {i \in History(p) : key[i] = sub}
    OBVIOUS
  <2>6. sub \in DOMAIN SubjectStats(p) /\ SubjectStats(p)[sub] = Tally(M)
    <3>1. sub \in {key[i] : i \in History(p)}
      BY <2>3, <2>4
    <3> QED BY <2>4, <2>5, <3>1 DEF ByKey
  <2>7. k \in Counted(M, "present") /\ Tally(M)["present"] = Cardinality(Counted(M, "present"))
    BY <2>2, <2>3, <2>4, <2>5, TallyIs DEF Counted, Columns
  <2>8. IsFiniteSet(Counted(M, "present"))
    BY <1>3, <1>4, <2>5, AttendanceFinite DEF Columns
  <2>9. Cardinality(Counted(M, "present")) \in Nat /\ Cardinality(Counted(M, "present")) # 0
    BY <2>7, <2>8, FS_CardinalityType, FS_EmptySet
  <2> QED BY <2>6, <2>7, <2>9
<1>8. ASSUME NEW p \in Pupils PROVE (p \in Absentees) = (SumOf("absent", SubjectStats(p)) > 0)
  <2>1. SumOf("absent", SubjectStats(p)) = Tally(History(p))["absent"]
    BY <1>5 DEF Columns
  <2> QED BY <2>1 DEF Absentees
<1>9. ASSUME NEW p \in Pupils, \A k \in History(p) : db.attendance[k].class = db.student[p].class
      PROVE  (p \in BelowThreshold(db.student[p].class))
                     = (100 * SumOf("present", SubjectStats(p)) < Threshold * SumOf("total", SubjectStats(p)))
  <2>1. PICK t, n, a, l : /\ t = Tally(History(p)).total /\ n = Tally(History(p)).present
                          /\ a = Tally(History(p)).absent /\ l = Tally(History(p)).late
    OBVIOUS
  <2>2. t \in Nat /\ n \in Nat /\ a \in Nat /\ l \in Nat /\ t = n + a + l
    BY <1>3, <1>4, <2>1, TallyAddsUp
  <2>3. SumOf("present", SubjectStats(p)) = n /\ SumOf("total", SubjectStats(p)) = t
    BY <1>5, <2>1 DEF Columns
  <2>4. {k \in History(p) : db.attendance[k].class = db.student[p].class} = History(p)
    BY <1>9
  <2>5. p \in BelowThreshold(db.student[p].class) <=> t > 0 /\ 100 * n < Threshold * t
    BY <2>1, <2>4 DEF BelowThreshold
  <2>6. t = 0 => ~(100 * n < Threshold * t)
    BY <2>2, AttendanceConstants
  <2>7. t > 0 \/ t = 0
    BY <2>2
  <2> QED BY <2>3, <2>5, <2>6, <2>7
<1>10. AttendanceViewsAgree
  BY <1>5, <1>6, <1>7, <1>8, <1>9 DEF AttendanceViewsAgree, Columns
<1> QED BY <1>1, <1>2, <1>10

-----------------------------------------------------------------------------
(***************************************************************************)
(* Announcements: a task that was scheduled is about a row that stays.     *)
(***************************************************************************)
(* The work of a session may be given up.                                  *)
LEMMA ShapeFreed ==
  ASSUME Shape, UNCHANGED serial, DOMAIN db' = DOMAIN db, tx' = [q \in Sessions |-> tx'[q]],
         \A q \in Sessions : tx'[q] = tx[q] \/ tx'[q] = Idle
  PROVE  Shape'
<1>1. \A q \in Sessions : tx'[q].state = "open" => tx[q].state = "open"
  BY IdleIs
<1> QED BY <1>1, IdleIs DEF Shape, Busy

(* A table stays when its rows do and work is given up at most.            *)
LEMMA TableFreed ==
  ASSUME NEW t, NEW K, NEW R, TableInv(t, K, R), db'[t] = db[t],
         \A q \in Sessions : tx'[q] = tx[q] \/ tx'[q] = Idle
  PROVE  TableInv(t, K, R)'
<1>1. \A q \in Sessions : Fits(tx'[q], t, K, R)
  <2>1. Fits(Idle, t, K, R)
    BY IdleIs, IdleFits
  <2> QED BY <2>1 DEF TableInv
<1>2. Table(t, K, R)'
  BY DEF TableInv, Table, Keys
<1> QED BY <1>1, <1>2 DEF TableInv, Fits, Rows

PersonRow == [places : Places]
Posted(k) == k \in Keys("announcement")
AnnounceWork(w) ==
    /\ w.drop = None /\ NoticeFits(w) /\ w.tell = {}
    /\ w.state = "open" => \A job \in w.jobs : job[1] \in DOMAIN Rows(w.insert, "announcement")
    /\ w.state = "after" => \A job \in w.jobs : Posted(job[1])

AnnounceInv ==
    /\ DOMAIN db = {"announcement", "person", "notice"}
    /\ TableInv("announcement", Announcements, Announcement) /\ TableInv("person", People, PersonRow)
    /\ People \subseteq Keys("person")
    /\ \A n \in Keys("notice") : n[1] = "announcement" /\ Posted(n[2])
    /\ \A s \in Sessions : AnnounceWork(tx[s])

AnnounceOpens(s, w, objects) ==
    /\ Opens(s, w, objects) /\ AnnounceWork(w)
    /\ Fits(w, "announcement", Announcements, Announcement) /\ Fits(w, "person", People, PersonRow)

(* What the handler of "create announcement" collects is sound.            *)
LEMMA CreateAnnouncementPrepares ==
  ASSUME NEW s \in Sessions, NEW a \in Announcements, NEW u, NEW target \in Targets,
         CreateAnnouncement(s, a, u, target)
  PROVE  \E w, objects : AnnounceOpens(s, w, objects)
<1>1. PICK row, one, new, jobs : /\ row = [target |-> target, active |-> TRUE] /\ one = (a :> row)
                                 /\ new = [announcement |-> one] /\ jobs = {<<a, target>>}
  OBVIOUS
<1>2. PICK w : w = [Work EXCEPT !.insert = new, !.jobs = jobs]
  OBVIOUS
<1>3. BeginWith(s, w, stored \cup {})
  BY <1>1, <1>2 DEF CreateAnnouncement, Begin, BeginStoring
<1>4. /\ w.insert = new /\ w.update = None /\ w.put = None /\ w.drop = None /\ w.tell = {} /\ w.jobs = jobs
      /\ w.state = "open" /\ WorkShape(w)
  BY <1>2 DEF Work, Idle, WorkShape
<1>5. Rows(w.insert, "announcement") = one /\ \A x \in {"notice", "person"} : Rows(w.insert, x) = None
  BY <1>1, <1>4 DEF Rows
<1>6. DOMAIN None = {} /\ \A x : Rows(w.update, x) = None /\ Rows(w.put, x) = None
  BY <1>4, NoRows
<1>7. DOMAIN one = {a} /\ one[a] = row /\ row \in Announcement
  BY <1>1, OneOf DEF Announcement
<1>8. \A job \in jobs : job[1] = a
  BY <1>1
<1>9. AnnounceWork(w)
  BY <1>4, <1>5, <1>6, <1>7, <1>8 DEF AnnounceWork, NoticeFits
<1>10. Fits(w, "announcement", Announcements, Announcement) /\ Fits(w, "person", People, PersonRow)
  BY <1>5, <1>6, <1>7 DEF Fits
<1> QED BY <1>3, <1>4, <1>9, <1>10 DEF AnnounceOpens, Opens

(* A change of the columns of an announcement is sound.                    *)
LEMMA ChangePrepares ==
  ASSUME NEW s \in Sessions, NEW a, NEW columns, NEW objects, DOMAIN columns \subseteq {"target", "active"},
         "target" \in DOMAIN columns => columns["target"] \in Targets,
         "active" \in DOMAIN columns => columns["active"] \in BOOLEAN,
         BeginWith(s, [Work EXCEPT !.update = [announcement |-> Sets("announcement", a, columns)]], objects)
  PROVE  \E w : AnnounceOpens(s, w, objects)
<1>1. PICK cols, one, up : cols = Changed(db["announcement"][a], columns) /\ one = (a :> cols) /\ up = [announcement |-> one]
  OBVIOUS
<1>2. PICK w : w = [Work EXCEPT !.update = up]
  OBVIOUS
<1>3. BeginWith(s, w, objects)
  BY <1>1, <1>2 DEF Sets
<1>4. /\ w.insert = None /\ w.update = up /\ w.put = None /\ w.drop = None /\ w.tell = {} /\ w.jobs = {}
      /\ w.state = "open" /\ WorkShape(w)
  BY <1>2 DEF Work, Idle, WorkShape
<1>5. Rows(w.update, "announcement") = one /\ Rows(w.update, "person") = None
  BY <1>1, <1>4 DEF Rows
<1>6. DOMAIN None = {} /\ \A x : Rows(w.insert, x) = None /\ Rows(w.put, x) = None
  BY <1>4, NoRows
<1>7. DOMAIN one = {a} /\ one[a] = cols
  BY <1>1, OneOf
<1>8. Fitting(Announcement, cols)
  <2>1. ASSUME NEW r \in Announcement PROVE Over(r, cols) \in Announcement
    <3>1. PICK o : o = Over(r, cols)
      OBVIOUS
    <3>2. DOMAIN r = {"target", "active"} /\ r["target"] \in Targets /\ r["active"] \in BOOLEAN
      BY DEF Announcement
    <3>3. DOMAIN cols \subseteq DOMAIN columns /\ \A c \in DOMAIN cols : cols[c] = columns[c]
      BY <1>1, ChangedIs
    <3>4. o = [c \in {"target", "active"} |-> IF c \in DOMAIN cols THEN cols[c] ELSE r[c]]
      BY <3>1, <3>2, OverIs
    <3>5. o["target"] \in Targets
      BY <3>2, <3>3, <3>4
    <3>6. o["active"] \in BOOLEAN
      BY <3>2, <3>3, <3>4, Zenon
    <3>7. o = [target |-> o["target"], active |-> o["active"]]
      BY <3>4
    <3> QED BY <3>1, <3>5, <3>6, <3>7 DEF Announcement
  <2> QED BY <2>1 DEF Fitting
<1>9. AnnounceWork(w)
  BY <1>4, <1>6 DEF AnnounceWork, NoticeFits
<1>10. Fits(w, "announcement", Announcements, Announcement) /\ Fits(w, "person", People, PersonRow)
  BY <1>5, <1>6, <1>7, <1>8 DEF Fits
<1> QED BY <1>3, <1>4, <1>9, <1>10 DEF AnnounceOpens, Opens

(* What the handler of "move" collects is sound.                           *)
LEMMA MovePrepares ==
  ASSUME NEW s \in Sessions, NEW u, NEW places, Move(s, u, places)
  PROVE  \E w, objects : AnnounceOpens(s, w, objects)
<1>1. PICK row, one, up : row = [places |-> places] /\ one = (u :> row) /\ up = [person |-> one]
  OBVIOUS
<1>2. PICK w : w = [Work EXCEPT !.update = up]
  OBVIOUS
<1>3. BeginWith(s, w, stored \cup {}) /\ places \in Places
  BY <1>1, <1>2 DEF Move, Begin, BeginStoring
<1>4. /\ w.insert = None /\ w.update = up /\ w.put = None /\ w.drop = None /\ w.tell = {} /\ w.jobs = {}
      /\ w.state = "open" /\ WorkShape(w)
  BY <1>2 DEF Work, Idle, WorkShape
<1>5. Rows(w.update, "person") = one /\ Rows(w.update, "announcement") = None
  BY <1>1, <1>4 DEF Rows
<1>6. DOMAIN None = {} /\ \A x : Rows(w.insert, x) = None /\ Rows(w.put, x) = None
  BY <1>4, NoRows
<1>7. DOMAIN one = {u} /\ one[u] = row
  BY <1>1, OneOf
<1>8. Fitting(PersonRow, row)
  <2>1. ASSUME NEW r \in PersonRow PROVE Over(r, row) \in PersonRow
    <3>1. PICK o : o = Over(r, row)
      OBVIOUS
    <3>2. o = [c \in {"places"} |-> places]
      BY <1>1, <3>1 DEF Over, PersonRow
    <3> QED BY <1>3, <3>1, <3>2 DEF PersonRow
  <2> QED BY <2>1 DEF Fitting
<1>9. AnnounceWork(w)
  BY <1>4, <1>6 DEF AnnounceWork, NoticeFits
<1>10. Fits(w, "announcement", Announcements, Announcement) /\ Fits(w, "person", People, PersonRow)
  BY <1>5, <1>6, <1>7, <1>8 DEF Fits
<1> QED BY <1>3, <1>4, <1>9, <1>10 DEF AnnounceOpens, Opens

(* A handler that collects something sound preserves the invariant.        *)
LEMMA AnnounceOpened ==
  ASSUME Shape, AnnounceInv, NEW s \in Sessions, NEW w, NEW objects, AnnounceOpens(s, w, objects)
  PROVE  AnnounceInv' /\ Shape' /\ area' = area
<1>1. BeginWith(s, w, objects) /\ WorkShape(w) /\ w.state = "open" /\ AnnounceWork(w)
  BY DEF AnnounceOpens, Opens
<1>2. /\ Shape' /\ tx' = [q \in Sessions |-> IF q = s THEN w ELSE tx[q]] /\ UNCHANGED <<area, db>>
  BY <1>1, BeginShape
<1>3. TableStays("announcement", Announcements, Announcement) /\ TableStays("person", People, PersonRow)
  BY <1>1, TableBegin DEF AnnounceInv, AnnounceOpens
<1>4. TableInv("announcement", Announcements, Announcement)' /\ TableInv("person", People, PersonRow)'
  BY <1>3 DEF TableStays, TableInv, Fits
<1>5. \A t : Keys(t)' = Keys(t)
  BY <1>2 DEF Keys
<1>6. ASSUME NEW q \in Sessions PROVE AnnounceWork(tx[q])'
  <2>1. PICK v : v = tx'[q] /\ AnnounceWork(v)
    BY <1>1, <1>2 DEF AnnounceInv
  <2>2. AnnounceWork(v)'
    BY <1>5, <2>1 DEF AnnounceWork, Posted, NoticeFits
  <2> QED BY <2>1, <2>2
<1> QED BY <1>2, <1>4, <1>5, <1>6 DEF AnnounceInv, Posted

(* A step that changes notices and gives up work at most preserves the     *)
(* invariant when notices stay about announcements.                        *)
LEMMA NoticesOnly ==
  ASSUME Shape, AnnounceInv, UNCHANGED <<area, serial>>, DOMAIN db' = DOMAIN db,
         db'["announcement"] = db["announcement"], db'["person"] = db["person"],
         tx' = [q \in Sessions |-> tx'[q]],
         \A q \in Sessions : tx'[q] = tx[q] \/ tx'[q] = Idle,
         \A n \in Keys("notice")' : n[1] = "announcement" /\ Posted(n[2])
  PROVE  AnnounceInv' /\ Shape' /\ area' = area
<1>1. Shape'
  BY ShapeFreed
<1>2. TableInv("announcement", Announcements, Announcement)'
  BY TableFreed DEF AnnounceInv
<1>3. TableInv("person", People, PersonRow)'
  BY TableFreed DEF AnnounceInv
<1>4. Keys("announcement")' = Keys("announcement") /\ Keys("person")' = Keys("person")
  BY DEF Keys
<1>5. AnnounceWork(Idle)
  BY IdleIs, NoRows DEF AnnounceWork, NoticeFits
<1>6. ASSUME NEW q \in Sessions PROVE AnnounceWork(tx[q])'
  <2>1. PICK v : v = tx'[q] /\ AnnounceWork(v)
    BY <1>5 DEF AnnounceInv
  <2>2. AnnounceWork(v)'
    BY <1>4, <2>1 DEF AnnounceWork, Posted, NoticeFits
  <2> QED BY <2>1, <2>2
<1> QED BY <1>1, <1>2, <1>3, <1>4, <1>6 DEF AnnounceInv, Posted

LEMMA AnnounceStep ==
  ASSUME Shape, AnnounceInv, NEW s \in Sessions, Announce(s)
  PROVE  AnnounceInv' /\ Shape' /\ area' = area
<1>1. PICK more : more = [n \in NoticesOf(tx[s].jobs) |-> [read |-> FALSE]]
  OBVIOUS
<1>2. PICK old, both : old = db["notice"] /\ both = (old @@ more)
  OBVIOUS
<1>3. /\ db' = [db EXCEPT !.notice = both] /\ tx' = [tx EXCEPT ![s] = Idle]
      /\ UNCHANGED <<area, stored, today, serial>> /\ tx[s].state = "after"
  BY <1>1, <1>2 DEF Announce
<1>4. DOMAIN db' = DOMAIN db /\ db'["announcement"] = db["announcement"] /\ db'["person"] = db["person"]
  BY <1>3 DEF AnnounceInv
<1>5. tx' = [q \in Sessions |-> tx'[q]] /\ \A q \in Sessions : tx'[q] = tx[q] \/ tx'[q] = Idle
  BY <1>3 DEF Shape
<1>6. db'["notice"] = both
  BY <1>3 DEF AnnounceInv
<1>7. DOMAIN both = Keys("notice") \cup NoticesOf(tx[s].jobs)
  BY <1>1, <1>2 DEF @@, Keys
<1>8. ASSUME NEW n \in NoticesOf(tx[s].jobs) PROVE n[1] = "announcement" /\ Posted(n[2])
  <2>0. PICK job \in tx[s].jobs : \E u \in Recipients(job[2]) : n = <<"announcement", job[1], u>>
    BY DEF NoticesOf
  <2>1. PICK u \in Recipients(job[2]) : n = <<"announcement", job[1], u>>
    BY <2>0
  <2>2. Posted(job[1])
    BY <1>3, <2>1 DEF AnnounceInv, AnnounceWork
  <2> QED BY <2>1, <2>2
<1>9. \A n \in Keys("notice")' : n[1] = "announcement" /\ Posted(n[2])
  BY <1>6, <1>7, <1>8 DEF AnnounceInv, Keys
<1> QED BY <1>3, <1>4, <1>5, <1>9, NoticesOnly

LEMMA ChangeInboxStep ==
  ASSUME Shape, AnnounceInv, NEW s, NEW rows, DOMAIN rows \subseteq Keys("notice"), ChangeInbox(s, rows)
  PROVE  AnnounceInv' /\ Shape' /\ area' = area
<1>1. db' = [db EXCEPT !.notice = rows] /\ UNCHANGED <<area, stored, today, tx, serial>>
  BY DEF ChangeInbox
<1>2. /\ DOMAIN db' = DOMAIN db /\ db'["announcement"] = db["announcement"] /\ db'["person"] = db["person"]
      /\ db'["notice"] = rows
  BY <1>1 DEF AnnounceInv
<1>3. tx' = [q \in Sessions |-> tx'[q]] /\ \A q \in Sessions : tx'[q] = tx[q] \/ tx'[q] = Idle
  BY <1>1 DEF Shape
<1>4. \A n \in Keys("notice")' : n[1] = "announcement" /\ Posted(n[2])
  BY <1>2 DEF AnnounceInv, Keys
<1> QED BY <1>1, <1>2, <1>3, <1>4, NoticesOnly

(* The handlers of announcements preserve the invariant of their area.     *)
LEMMA AnnounceBegin ==
  ASSUME Shape, AnnounceInv, NEW s \in Sessions, AnnouncementsStep(s) \/ InboxStep(s)
  PROVE  AnnounceInv' /\ Shape' /\ area' = area
<1>1. ASSUME NEW a \in Announcements, NEW u, NEW target \in Targets, CreateAnnouncement(s, a, u, target)
      PROVE  AnnounceInv' /\ Shape' /\ area' = area
  BY <1>1, CreateAnnouncementPrepares, AnnounceOpened
<1>2. ASSUME NEW a, NEW u, NEW target \in Targets, NEW active \in BOOLEAN, UpdateAnnouncement(s, a, u, target, active)
      PROVE  AnnounceInv' /\ Shape' /\ area' = area
  <2>1. PICK columns : columns = [target |-> target, active |-> active]
    OBVIOUS
  <2>2. DOMAIN columns \subseteq {"target", "active"} /\ columns["target"] \in Targets /\ columns["active"] \in BOOLEAN
    BY <2>1
  <2>3. BeginWith(s, [Work EXCEPT !.update = [announcement |-> Sets("announcement", a, columns)]], stored \cup {})
    BY <1>2, <2>1 DEF UpdateAnnouncement, Begin, BeginStoring
  <2> QED BY <2>2, <2>3, ChangePrepares, AnnounceOpened
<1>3. ASSUME NEW a, DeleteAnnouncement(s, a)
      PROVE  AnnounceInv' /\ Shape' /\ area' = area
  <2>1. PICK columns : columns = [active |-> FALSE]
    OBVIOUS
  <2>2. DOMAIN columns \subseteq {"target", "active"} /\ "target" \notin DOMAIN columns /\ columns["active"] \in BOOLEAN
    BY <2>1
  <2>3. BeginWith(s, [Work EXCEPT !.update = [announcement |-> Sets("announcement", a, columns)]], stored \cup {})
    BY <1>3, <2>1 DEF DeleteAnnouncement, Begin, BeginStoring
  <2> QED BY <2>2, <2>3, ChangePrepares, AnnounceOpened
<1>4. ASSUME NEW u, NEW chosen, MarkRead(s, u, chosen)
      PROVE  AnnounceInv' /\ Shape' /\ area' = area
  <2>1. PICK rows : rows = [n \in Keys("notice") |-> IF n \in chosen \cap Inbox(u) THEN [read |-> TRUE] ELSE db.notice[n]]
    OBVIOUS
  <2>2. DOMAIN rows \subseteq Keys("notice") /\ ChangeInbox(s, rows)
    BY <1>4, <2>1 DEF MarkRead
  <2> QED BY <2>2, ChangeInboxStep
<1>5. ASSUME NEW u, ClearRead(s, u)
      PROVE  AnnounceInv' /\ Shape' /\ area' = area
  <2>1. PICK rows : rows = [n \in Keys("notice") \ ReadOnes(Inbox(u)) |-> db.notice[n]]
    OBVIOUS
  <2>2. DOMAIN rows \subseteq Keys("notice") /\ ChangeInbox(s, rows)
    BY <1>5, <2>1 DEF ClearRead
  <2> QED BY <2>2, ChangeInboxStep
<1>6. ASSUME NEW u, NEW places, Move(s, u, places)
      PROVE  AnnounceInv' /\ Shape' /\ area' = area
  BY <1>6, MovePrepares, AnnounceOpened
<1>7. CASE AnnouncementsStep(s)
  BY <1>1, <1>2, <1>3, <1>7, AnnounceStep, Zenon DEF AnnouncementsStep
<1>8. CASE InboxStep(s)
  BY <1>4, <1>5, <1>6, <1>8, Zenon DEF InboxStep
<1> QED BY <1>7, <1>8

(* The end of a request preserves the invariant of announcements.          *)
LEMMA AnnounceEnd ==
  ASSUME Shape, AnnounceInv, NEW s \in Sessions, EndOfRequest(s)
  PROVE  AnnounceInv'
<1>1. DOMAIN db' = DOMAIN db /\ "person" \in DOMAIN db /\ "announcement" \in DOMAIN db
  BY OnlyCommits DEF AnnounceInv
<1>2. TableStays("announcement", Announcements, Announcement)
  BY <1>1, TableEnd DEF AnnounceInv
<1>3. TableStays("person", People, PersonRow)
  BY <1>1, TableEnd DEF AnnounceInv
<1>4. TableInv("announcement", Announcements, Announcement)' /\ TableInv("person", People, PersonRow)'
  BY <1>2, <1>3 DEF TableStays, TableInv, Fits
<1>5. PICK v : v = tx[s] /\ AnnounceWork(v)
  BY DEF AnnounceInv
<1>6. /\ Keys("announcement") \subseteq Keys("announcement")' /\ Keys("person") \subseteq Keys("person")'
      /\ Commit(s) => DOMAIN Rows(v.insert, "announcement") \subseteq Keys("announcement")' /\ v.state = "open"
  <2>1. CASE Commit(s)
    <3>1. db'["announcement"] = Flushed(v, "announcement") /\ db'["person"] = Flushed(v, "person") /\ v.state = "open"
      BY <1>1, <1>5, <2>1, CommitShape
    <3>2. /\ Keys("announcement") \subseteq DOMAIN Flushed(v, "announcement")
          /\ DOMAIN Rows(v.insert, "announcement") \subseteq DOMAIN Flushed(v, "announcement")
      BY <1>5, NothingDropped DEF AnnounceWork
    <3>3. Keys("person") \subseteq DOMAIN Flushed(v, "person")
      BY <1>5, NothingDropped DEF AnnounceWork
    <3> QED BY <3>1, <3>2, <3>3 DEF Keys
  <2>2. CASE ~Commit(s)
    BY <1>1, <2>2, OnlyCommits DEF Keys
  <2> QED BY <2>1, <2>2
<1>7. \A k : Posted(k) => Posted(k)'
  BY <1>6 DEF Posted
<1>8. NoticeFits(tx[s])
  BY DEF AnnounceInv, AnnounceWork
<1>9. \A n \in Keys("notice")' : n \in Keys("notice")
  BY <1>5, <1>8, NoticeEnd DEF AnnounceWork
<1>10. \A n \in Keys("notice")' : n[1] = "announcement" /\ Posted(n[2])'
  BY <1>7, <1>9 DEF AnnounceInv
<1>11. ASSUME NEW q \in Sessions PROVE AnnounceWork(tx[q])'
  <2>0. PICK w : w = tx'[q]
    OBVIOUS
  <2>1. CASE q # s /\ tx'[q] = tx[q]
    <3>1. AnnounceWork(w)
      BY <2>0, <2>1 DEF AnnounceInv
    <3>2. AnnounceWork(w)'
      BY <1>7, <3>1 DEF AnnounceWork, NoticeFits
    <3> QED BY <2>0, <3>2
  <2>2. CASE q = s /\ Commit(s)
    <3>1. w = Rest(v)
      BY <1>5, <2>0, <2>2, CommitShape
    <3>2. w.insert = None /\ w.put = None /\ w.drop = None /\ w.tell = {} /\ w.jobs = v.jobs /\ w.state \in {"idle", "after"}
      BY <1>5, <3>1, RestIs DEF AnnounceWork
    <3>3. \A job \in v.jobs : Posted(job[1])'
      BY <1>5, <1>6, <2>2 DEF AnnounceWork, Posted
    <3>4. AnnounceWork(w)'
      BY <3>2, <3>3, NoRows DEF AnnounceWork, NoticeFits
    <3> QED BY <2>0, <3>4
  <2>3. CASE q = s /\ Abort(s)
    <3>1. w = Idle
      BY <2>0, <2>3, AbortShape
    <3>2. AnnounceWork(w)'
      BY <3>1, IdleIs, NoRows DEF AnnounceWork, NoticeFits
    <3> QED BY <2>0, <3>2
  <2>4. CASE q = s /\ Notify(s)
    <3>1. w.insert = None /\ w.put = None /\ w.drop = None /\ w.tell = {} /\ w.jobs = v.jobs /\ v.state = "after" /\ w.state \in {"idle", "after"}
      BY <1>5, <2>0, <2>4, NotifyShape
    <3>2. AnnounceWork(w)'
      BY <1>5, <1>7, <3>1, NoRows DEF AnnounceWork, NoticeFits
    <3> QED BY <2>0, <3>2
  <2> QED BY <2>1, <2>2, <2>3, <2>4, WorksAtEnd DEF EndOfRequest
<1> QED BY <1>1, <1>4, <1>6, <1>10, <1>11 DEF AnnounceInv

(* The area of announcements starts in its invariant.                      *)
PeopleAtStart == [u \in People |-> [places |-> {}]]
AnnounceStarts == Starts("announcements", [announcement |-> None, person |-> PeopleAtStart])

LEMMA AnnounceStart == AnnounceStarts => Shape /\ AnnounceInv /\ area = "announcements"
<1> SUFFICES ASSUME AnnounceStarts PROVE Shape /\ AnnounceInv /\ area = "announcements"
  OBVIOUS
<1>1. PICK tables : tables = [announcement |-> None, person |-> PeopleAtStart]
  OBVIOUS
<1>2. DOMAIN tables = {"announcement", "person"} /\ tables["announcement"] = None /\ tables["person"] = PeopleAtStart
  BY <1>1
<1>3. "notice" \notin DOMAIN tables /\ Starts("announcements", tables)
  BY <1>1, <1>2 DEF AnnounceStarts
<1>4. /\ Shape /\ area = "announcements" /\ DOMAIN db = DOMAIN tables \cup {"notice"}
      /\ \A t \in DOMAIN tables : db[t] = tables[t]
      /\ db["notice"] = None /\ \A s \in Sessions : tx[s] = Idle
  BY <1>3, StartIs
<1>5. TableInv("person", People, PersonRow) /\ Keys("person") = People
  <2>1. db["person"] = [u \in People |-> [places |-> {}]]
    BY <1>2, <1>4 DEF PeopleAtStart
  <2>2. Table("person", People, PersonRow) /\ Keys("person") = People
    BY <2>1, AnnouncementConstants DEF Table, Keys, PersonRow
  <2>3. Fits(Idle, "person", People, PersonRow)
    BY IdleIs, IdleFits
  <2> QED BY <1>4, <2>2, <2>3 DEF TableInv
<1>6. TableInv("announcement", Announcements, Announcement)
  BY <1>2, <1>4, EmptyTable
<1>7. AnnounceWork(Idle)
  BY IdleIs, NoRows DEF AnnounceWork, NoticeFits
<1>8. Keys("notice") = {}
  BY <1>4, NoRows DEF Keys
<1> QED BY <1>2, <1>4, <1>5, <1>6, <1>7, <1>8 DEF AnnounceInv

(* The invariant of announcements stays while nothing changes.             *)
LEMMA AnnounceSame == ASSUME Unchanged, AnnounceInv PROVE AnnounceInv'
<1>1. db' = db /\ tx' = tx /\ \A t : Keys(t)' = Keys(t)
  BY GeneralSame DEF Unchanged
<1>2. TableInv("announcement", Announcements, Announcement)' /\ TableInv("person", People, PersonRow)'
  BY GeneralSame DEF AnnounceInv
<1>3. \A s \in Sessions : AnnounceWork(tx[s])'
  BY <1>1 DEF AnnounceInv, AnnounceWork, Posted, NoticeFits
<1> QED BY <1>1, <1>2, <1>3 DEF AnnounceInv, Posted

(* Every step in the area of announcements preserves its invariant.        *)
LEMMA AnnounceStays ==
  ASSUME area = "announcements", Shape, AnnounceInv, [CampusNext]_vars
  PROVE  area' = "announcements" /\ Shape' /\ AnnounceInv'
<1>1. ASSUME NEW s \in Sessions, Handle(s) PROVE area' = area /\ Shape' /\ AnnounceInv'
  BY <1>1, AreaOf, AnnounceBegin DEF Handle
<1>2. ASSUME NEW s \in Sessions, EndOfRequest(s) PROVE area' = area /\ Shape' /\ AnnounceInv'
  BY <1>2, WorksAtEnd, AnnounceEnd
<1>3. Unchanged => Shape' /\ AnnounceInv'
  BY AnnounceSame, GeneralSame
<1> QED BY <1>1, <1>2, <1>3, StepIs

(* Whoever is told of an announcement finds it listed, and the other way   *)
(* round.                                                                  *)
LEMMA ToldIsListed ==
  ASSUME AnnounceInv, NEW a \in Keys("announcement"), NEW u \in People \cap {"student", "parent", "teacher"},
         db.announcement[a].active,
         db.announcement[a].target[3] # "all" => db.announcement[a].target[2] # "all"
  PROVE  (u \in Recipients(db.announcement[a].target)) = (a \in Listed(u))
<1>1. PICK target, places : target = db.announcement[a].target /\ places = db.person[u].places
  OBVIOUS
<1>2. \A place \in places : place = <<place[1], place[2]>>
  <2>1. db["person"][u] \in PersonRow
    BY DEF AnnounceInv, TableInv, Table
  <2>2. places \in Places
    BY <1>1, <2>1 DEF PersonRow
  <2> QED BY <2>2, AnnouncementConstants
<1>3. a \in Listed(u) <=> /\ target[1] \in {"all", u}
                          /\ target[2] # "all" => \E place \in places : place[1] = target[2]
                          /\ target[3] # "all" => target[2] # "all" /\ <<target[2], target[3]>> \in places
  BY <1>1 DEF Listed
<1>4. CASE target[2] = "all"
  <2>1. u \in Recipients(target) <=> target[1] \in {"all", u}
    BY <1>4 DEF Recipients
  <2> QED BY <1>1, <1>3, <1>4, <2>1
<1>5. CASE target[2] # "all" /\ target[1] \in {"all", "student", "parent", "teacher"}
  <2>1. u \in Recipients(target) <=> /\ target[1] \in {"all", u}
                                     /\ \E place \in places : InScope(place, target)
    BY <1>1, <1>5 DEF Recipients
  <2>2. \A place \in places : InScope(place, target) <=> place[1] = target[2] /\ target[3] \in {"all", place[2]}
    BY <1>5 DEF InScope
  <2>3. CASE target[3] = "all"
    BY <1>1, <1>3, <1>5, <2>1, <2>2, <2>3
  <2>4. CASE target[3] # "all"
    <3>1. (\E place \in places : InScope(place, target)) <=> <<target[2], target[3]>> \in places
      <4>1. ASSUME NEW place \in places, InScope(place, target) PROVE <<target[2], target[3]>> \in places
        <5>1. place = <<place[1], place[2]>> /\ place[1] = target[2] /\ place[2] = target[3]
          BY <1>2, <2>2, <2>4, <4>1
        <5> QED BY <5>1
      <4>2. ASSUME <<target[2], target[3]>> \in places PROVE \E place \in places : InScope(place, target)
        <5>1. PICK place : place = <<target[2], target[3]>>
          OBVIOUS
        <5>2. place[1] = target[2] /\ place[2] = target[3]
          BY <5>1
        <5> QED BY <2>2, <4>2, <5>1, <5>2
      <4> QED BY <4>1, <4>2
    <3>2. <<target[2], target[3]>> \in places => \E place \in places : place[1] = target[2]
      <4>1. PICK place : place = <<target[2], target[3]>>
        OBVIOUS
      <4>2. place[1] = target[2]
        BY <4>1
      <4> QED BY <4>1, <4>2
    <3> QED BY <1>1, <1>3, <1>5, <2>1, <2>4, <3>1, <3>2
  <2> QED BY <2>3, <2>4
<1>6. CASE target[2] # "all" /\ target[1] \notin {"all", "student", "parent", "teacher"}
  <2>1. u \in Recipients(target) <=> target[1] \in {"all", u}
    BY <1>6 DEF Recipients
  <2> QED BY <1>1, <1>3, <1>6, <2>1
<1> QED BY <1>4, <1>5, <1>6

LEMMA AnnounceFollows ==
  ASSUME area = "announcements", AnnounceInv
  PROVE  /\ MessagingTypeOK /\ ToldAreListed
         /\ \A n \in Keys("notice") : n[1] = "announcement" /\ n[2] \in Keys("announcement")
<1>1. MessagingTypeOK
  BY DEF AnnounceInv, TableInv, MessagingTypeOK, PersonRow
<1>2. ToldAreListed
  BY ToldIsListed DEF ToldAreListed
<1>3. \A n \in Keys("notice") : n[1] = "announcement" /\ n[2] \in Keys("announcement")
  BY DEF AnnounceInv, Posted
<1> QED BY <1>1, <1>2, <1>3

-----------------------------------------------------------------------------
(***************************************************************************)
(* Schedules: nobody is told of one that is not published.                 *)
(***************************************************************************)
(* The end of a request leaves nothing more to tell.                       *)
LEMMA TellEnds ==
  ASSUME Shape, NEW s \in Sessions, EndOfRequest(s), NEW q \in Sessions
  PROVE  tx'[q].tell \subseteq tx[q].tell
<1>1. CASE Commit(s)
  <2>1. tx'[q] = IF q = s THEN Rest(tx[s]) ELSE tx[q]
    BY <1>1, CommitShape
  <2>2. Rest(tx[s]).tell = tx[s].tell
    BY RestIs
  <2> QED BY <2>1, <2>2
<1>2. CASE Abort(s)
  <2>1. tx'[q] = IF q = s THEN Idle ELSE tx[q]
    BY <1>2, AbortShape
  <2> QED BY <2>1, IdleIs
<1>3. CASE Notify(s)
  <2>1. PICK w : tx' = [p \in Sessions |-> IF p = s THEN w ELSE tx[p]] /\ w.tell = {}
    BY <1>3, NotifyShape
  <2> QED BY <2>1
<1> QED BY <1>1, <1>2, <1>3 DEF EndOfRequest

SeriesShown(k) == k \in Keys("series") => db["series"][k].published

(* A schedule that is to be told of is shown, or will be when the work is  *)
(* committed; the ids of new ones are new.                                 *)
ShowsSeries(w, k) == /\ w.state = "open" /\ k \in DOMAIN Rows(w.update, "series")
                     /\ "published" \in DOMAIN Rows(w.update, "series")[k]
NewSeries(w) == DOMAIN Rows(w.insert, "series")
ShownInv ==
    /\ \A n \in Keys("notice") : SeriesShown(n[2])
    /\ \A s \in Sessions :
          /\ NoticeFits(tx[s])
          /\ \A n \in tx[s].tell : SeriesShown(n[2]) \/ ShowsSeries(tx[s], n[2])
          /\ \A k \in NewSeries(tx[s]) :
                /\ k \notin Keys("series")
                /\ \A n \in Keys("notice") : n[2] # k
                /\ \A q \in Sessions : /\ \A n \in tx[q].tell : n[2] # k
                                       /\ q # s => k \notin NewSeries(tx[q])

(* What handlers collect.                                                  *)
ShownOpens(s, w, objects) ==
    /\ Opens(s, w, objects) /\ NoticeFits(w)
    /\ \A n \in w.tell : n[2] \in Keys("series") /\ ShowsSeries(w, n[2])
    /\ \A k \in NewSeries(w) : Unused("series", k)
    /\ w.tell = {} \/ NewSeries(w) = {}

LEMMA CreateSeriesShows ==
  ASSUME NEW s \in Sessions, NEW x, NEW e, NEW section, CreateSeries(s, x, e, section)
  PROVE  \E w, objects : ShownOpens(s, w, objects)
<1>1. PICK row, needs : row = [of |-> <<"exam", e>>, section |-> section, published |-> FALSE] /\ needs = {<<"exam", e>>}
  OBVIOUS
<1>2. PICK one, new, w : one = (x :> row) /\ new = [series |-> one] /\ w = [Work EXCEPT !.insert = new, !.needs = needs]
  OBVIOUS
<1>3. BeginWith(s, w, stored \cup {}) /\ Unused("series", x)
  BY <1>1, <1>2 DEF CreateSeries, Begin, BeginStoring
<1>4. w.insert = new /\ w.put = None /\ w.tell = {} /\ w.state = "open" /\ WorkShape(w)
  BY <1>2 DEF Work, Idle, WorkShape
<1>5. Rows(w.insert, "series") = one /\ Rows(w.insert, "notice") = None /\ Rows(w.put, "notice") = None
  BY <1>2, <1>4, NoRows DEF Rows
<1>6. NewSeries(w) = {x}
  BY <1>2, <1>5, OneOf DEF NewSeries
<1> QED BY <1>3, <1>4, <1>5, <1>6 DEF ShownOpens, Opens, NoticeFits

LEMMA PublishSeriesShows ==
  ASSUME SchedulesInv, NEW s \in Sessions, NEW x, PublishSeries(s, x)
  PROVE  \E w, objects : ShownOpens(s, w, objects)
<1>1. PICK tell, set, cols, one, up, w : /\ tell = {<<"series", x>>} /\ set = [published |-> TRUE]
                                         /\ cols = Changed(db["series"][x], set)
                                         /\ one = (x :> cols) /\ up = [series |-> one]
                                         /\ w = [Work EXCEPT !.update = up, !.tell = tell]
  OBVIOUS
<1>2. BeginWith(s, w, stored \cup {}) /\ x \in Keys("series") /\ ~db["series"][x].published
  BY <1>1 DEF PublishSeries, Begin, BeginStoring, Sets
<1>3. w.insert = None /\ w.update = up /\ w.put = None /\ w.tell = tell /\ w.state = "open" /\ WorkShape(w)
  BY <1>1 DEF Work, Idle, WorkShape
<1>4. Rows(w.update, "series") = one /\ \A t : Rows(w.insert, t) = None /\ Rows(w.put, t) = None
  BY <1>1, <1>3, NoRows DEF Rows
<1>5. "published" \in DOMAIN set /\ set["published"] = TRUE
  BY <1>1
<1>6. "published" \in DOMAIN cols
  BY <1>1, <1>2, <1>5, ChangedIs
<1>7. DOMAIN one = {x} /\ one[x] = cols
  BY <1>1, OneOf
<1>8. ShowsSeries(w, x)
  BY <1>3, <1>4, <1>6, <1>7 DEF ShowsSeries
<1>9. \A n \in tell : n[2] = x
  BY <1>1
<1>10. NewSeries(w) = {}
  BY <1>4, NoRows DEF NewSeries
<1> QED BY <1>2, <1>3, <1>4, <1>8, <1>9, <1>10 DEF ShownOpens, Opens, NoticeFits

LEMMA EntriesShow ==
  ASSUME NEW s \in Sessions,
         \/ \E n, x : AddEntry(s, n, x)
         \/ \E n : CancelEntry(s, n)
         \/ \E e : DeleteExam(s, e)
  PROVE  \E w, objects : ShownOpens(s, w, objects)
<1>1. ASSUME NEW w, NEW objects, BeginWith(s, w, objects), w.state = "open", WorkShape(w), w.tell = {}, w.put = None,
             w.insert = None \/ DOMAIN w.insert = {"paper"}
      PROVE  ShownOpens(s, w, objects)
  <2>1. \A t : Rows(w.put, t) = None
    BY <1>1, NoRows
  <2>2. Rows(w.insert, "series") = None /\ Rows(w.insert, "notice") = None
    BY <1>1, NoRows DEF Rows
  <2> QED BY <1>1, <2>1, <2>2, NoRows DEF ShownOpens, Opens, NoticeFits, NewSeries
<1>2. ASSUME NEW n, NEW x, AddEntry(s, n, x) PROVE \E w, objects : ShownOpens(s, w, objects)
  <2>1. PICK one, needs : one = (n :> [of |-> <<"series", x>>, cancelled |-> FALSE]) /\ needs = {<<"series", x>>}
    OBVIOUS
  <2>2. PICK new, w : new = [paper |-> one] /\ w = [Work EXCEPT !.insert = new, !.needs = needs]
    OBVIOUS
  <2>3. BeginWith(s, w, stored \cup {})
    BY <1>2, <2>1, <2>2 DEF AddEntry, Begin, BeginStoring
  <2>4. w.insert = new /\ w.put = None /\ w.tell = {} /\ w.state = "open" /\ WorkShape(w) /\ DOMAIN new = {"paper"}
    BY <2>2 DEF Work, Idle, WorkShape
  <2> QED BY <1>1, <2>3, <2>4
<1>3. ASSUME NEW n, CancelEntry(s, n) PROVE \E w, objects : ShownOpens(s, w, objects)
  <2>1. PICK up, w : up = [paper |-> Sets("paper", n, [cancelled |-> TRUE])] /\ w = [Work EXCEPT !.update = up]
    OBVIOUS
  <2>2. BeginWith(s, w, stored \cup {})
    BY <1>3, <2>1 DEF CancelEntry, Begin, BeginStoring
  <2>3. w.insert = None /\ w.put = None /\ w.tell = {} /\ w.state = "open" /\ WorkShape(w)
    BY <2>1 DEF Work, Idle, WorkShape
  <2> QED BY <1>1, <2>2, <2>3
<1>4. ASSUME NEW e, DeleteExam(s, e) PROVE \E w, objects : ShownOpens(s, w, objects)
  <2>1. PICK gone, w : gone = [exam |-> {e}] /\ w = [Work EXCEPT !.drop = gone]
    OBVIOUS
  <2>2. BeginWith(s, w, stored \cup {})
    BY <1>4, <2>1 DEF DeleteExam, Begin, BeginStoring
  <2>3. w.insert = None /\ w.put = None /\ w.tell = {} /\ w.state = "open" /\ WorkShape(w)
    BY <2>1 DEF Work, Idle, WorkShape
  <2> QED BY <1>1, <2>2, <2>3
<1> QED BY <1>2, <1>3, <1>4

LEMMA ShownBegin ==
  ASSUME Shape, SchedulesInv, ShownInv, NEW s \in Sessions, SchedulesStep(s)
  PROVE  ShownInv'
<1>1. PICK w, objects : ShownOpens(s, w, objects)
  <2>1. CASE \E x \in Series, e \in ExamNames, section \in Sections : CreateSeries(s, x, e, section)
    BY <2>1, CreateSeriesShows
  <2>2. CASE \E n \in Entries, x \in Series : AddEntry(s, n, x)
    BY <2>2, EntriesShow
  <2>3. CASE \E x \in Series : PublishSeries(s, x)
    BY <2>3, PublishSeriesShows
  <2>4. CASE \E n \in Entries : CancelEntry(s, n)
    BY <2>4, EntriesShow
  <2>5. CASE \E e \in ExamNames : DeleteExam(s, e)
    BY <2>5, EntriesShow
  <2> QED BY <2>1, <2>2, <2>3, <2>4, <2>5 DEF SchedulesStep
<1>2. /\ tx' = [q \in Sessions |-> IF q = s THEN w ELSE tx[q]] /\ UNCHANGED db
      /\ BeginWith(s, w, objects)
  BY <1>1, BeginShape DEF ShownOpens, Opens
<1>3. \A k : SeriesShown(k)' = SeriesShown(k)
  BY <1>2 DEF SeriesShown, Keys
<1>4. \A k \in NewSeries(w) : /\ k \notin Keys("series")
                              /\ \A n \in Keys("notice") : n[2] # k
                              /\ \A q \in Sessions : k \notin NewSeries(tx[q]) /\ \A n \in tx[q].tell : n[2] # k
  BY <1>1 DEF ShownOpens, Unused, Named, NewSeries
<1>5. ASSUME NEW q \in Sessions
      PROVE  /\ NoticeFits(tx'[q])
             /\ \A n \in tx'[q].tell : SeriesShown(n[2]) \/ ShowsSeries(tx'[q], n[2])
             /\ \A k \in NewSeries(tx'[q]) :
                   /\ k \notin Keys("series")
                   /\ \A n \in Keys("notice") : n[2] # k
                   /\ \A p \in Sessions : /\ \A n \in tx'[p].tell : n[2] # k
                                          /\ p # q => k \notin NewSeries(tx'[p])
  <2>1. NoticeFits(tx'[q]) /\ \A n \in tx'[q].tell : SeriesShown(n[2]) \/ ShowsSeries(tx'[q], n[2])
    BY <1>1, <1>2 DEF ShownOpens, ShownInv
  <2>2. ASSUME NEW k \in NewSeries(tx'[q])
        PROVE  k \notin Keys("series") /\ \A n \in Keys("notice") : n[2] # k
    BY <1>2, <1>4, <2>2 DEF ShownInv
  <2>3. ASSUME NEW k \in NewSeries(tx'[q]), NEW p \in Sessions, NEW n \in tx'[p].tell PROVE n[2] # k
    <3>1. CASE p = s
      <4>1. n[2] \in Keys("series") /\ NewSeries(w) = {}
        BY <1>1, <1>2, <2>3, <3>1 DEF ShownOpens
      <4> QED BY <2>2, <4>1
    <3>2. CASE p # s /\ q = s
      BY <1>2, <1>4, <2>3, <3>2
    <3>3. CASE p # s /\ q # s
      BY <1>2, <2>3, <3>3 DEF ShownInv
    <3> QED BY <3>1, <3>2, <3>3
  <2>4. ASSUME NEW k \in NewSeries(tx'[q]), NEW p \in Sessions, p # q PROVE k \notin NewSeries(tx'[p])
    <3>1. CASE p = s
      BY <1>2, <1>4, <2>4, <3>1
    <3>2. CASE p # s /\ q = s
      BY <1>2, <1>4, <2>4, <3>2
    <3>3. CASE p # s /\ q # s
      BY <1>2, <2>4, <3>3 DEF ShownInv
    <3> QED BY <3>1, <3>2, <3>3
  <2> QED BY <2>1, <2>2, <2>3, <2>4
<1>6. \A t : Keys(t)' = Keys(t)
  BY <1>2 DEF Keys
<1> QED BY <1>3, <1>5, <1>6 DEF ShownInv, NoticeFits, ShowsSeries, NewSeries

LEMMA ShownEnd ==
  ASSUME Shape, SchedulesInv, ShownInv, NEW s \in Sessions, EndOfRequest(s)
  PROVE  ShownInv'
<1>1. /\ \A n \in Keys("notice")' : n \in Keys("notice") \/ n \in tx[s].tell
      /\ \A n \in Keys("notice")' : n \in Keys("notice") \/ tx[s].state = "after"
  BY NoticeEnd DEF ShownInv
<1>2. \A q \in Sessions : tx'[q].tell \subseteq tx[q].tell
  BY TellEnds
<1>3. \A q \in Sessions : \/ q # s /\ tx'[q] = tx[q]
                          \/ /\ q = s /\ tx'[q].insert = None /\ tx'[q].put = None /\ tx'[q].update = None
                             /\ tx'[q].state \in {"idle", "after"}
  BY WorksAtEnd
<1>4. "series" \in DOMAIN db /\ Rows(tx[s].put, "series") = None
  BY DEF SchedulesInv, ScheduleWork
<1>5. PICK w, f : w = tx[s] /\ f = Flushed(w, "series")
  OBVIOUS
<1>6. \/ Commit(s) /\ db'["series"] = f /\ w.state = "open"
      \/ ~Commit(s) /\ db'["series"] = db["series"]
  BY <1>4, <1>5, OnlyCommits
<1>7. ASSUME NEW k, k \notin NewSeries(w), SeriesShown(k) \/ (Commit(s) /\ ShowsSeries(w, k)) PROVE SeriesShown(k)'
  <2>1. CASE ~Commit(s)
    BY <1>6, <1>7, <2>1 DEF SeriesShown, Keys
  <2>2. CASE Commit(s)
    <3>1. SUFFICES ASSUME k \in DOMAIN f PROVE f[k].published
      BY <1>6, <2>2 DEF SeriesShown, Keys
    <3>2. \/ k \in Keys("series") /\ k \in DOMAIN Rows(w.update, "series")
                /\ f[k] = Over(db["series"][k], Rows(w.update, "series")[k])
          \/ k \in Keys("series") /\ k \notin DOMAIN Rows(w.update, "series") /\ f[k] = db["series"][k]
      BY <1>4, <1>5, <1>7, <3>1, FlushNoPut DEF NewSeries
    <3>3. CASE k \in Keys("series") /\ k \notin DOMAIN Rows(w.update, "series") /\ f[k] = db["series"][k]
      BY <1>7, <3>3 DEF SeriesShown, ShowsSeries
    <3>4. CASE k \in Keys("series") /\ k \in DOMAIN Rows(w.update, "series")
                  /\ f[k] = Over(db["series"][k], Rows(w.update, "series")[k])
      <4>1. PICK row, cols : row = db["series"][k] /\ cols = Rows(w.update, "series")[k]
        OBVIOUS
      <4>2. OnlyTrue(cols, "published") /\ row \in ExamSeries
        BY <1>5, <3>4, <4>1 DEF SchedulesInv, ScheduleWork, TableInv, Table
      <4>3. "published" \in DOMAIN row
        BY <4>2 DEF ExamSeries
      <4>4. f[k]["published"] = IF "published" \in DOMAIN cols THEN cols["published"] ELSE row["published"]
        BY <3>4, <4>1, <4>3, OverIs
      <4>5. "published" \in DOMAIN cols => f[k].published = TRUE
        BY <4>2, <4>4 DEF OnlyTrue
      <4>6. "published" \notin DOMAIN cols => row.published
        BY <1>7, <3>4, <4>1 DEF SeriesShown, ShowsSeries
      <4> QED BY <4>4, <4>5, <4>6
    <3> QED BY <3>2, <3>3, <3>4
  <2> QED BY <2>1, <2>2
<1>8. /\ \A n \in Keys("notice") : n[2] \notin NewSeries(w)
      /\ \A q \in Sessions : \A n \in tx[q].tell : n[2] \notin NewSeries(w)
  BY <1>5 DEF ShownInv
<1>9. ASSUME NEW n \in Keys("notice")' PROVE SeriesShown(n[2])'
  <2>1. n[2] \notin NewSeries(w)
    BY <1>1, <1>8
  <2>2. n \in Keys("notice") => SeriesShown(n[2])
    BY DEF ShownInv
  <2>3. n \notin Keys("notice") => SeriesShown(n[2])
    BY <1>1 DEF ShownInv, ShowsSeries
  <2> QED BY <1>7, <2>1, <2>2, <2>3
<1>10. ASSUME NEW q \in Sessions, NEW n \in tx'[q].tell PROVE SeriesShown(n[2])' \/ ShowsSeries(tx'[q], n[2])
  <2>1. n \in tx[q].tell /\ n[2] \notin NewSeries(w) /\ (SeriesShown(n[2]) \/ ShowsSeries(tx[q], n[2]))
    BY <1>2, <1>8 DEF ShownInv
  <2>2. CASE q # s /\ tx'[q] = tx[q]
    BY <1>7, <2>1, <2>2
  <2>3. CASE q = s
    <3>1. SeriesShown(n[2]) \/ Commit(s)
      <4>1. SUFFICES ASSUME ShowsSeries(tx[s], n[2]), ~Commit(s) PROVE FALSE
        BY <2>1, <2>3
      <4>2. tx'[s].tell = {}
        <5>1. Abort(s) \/ Notify(s)
          BY <4>1 DEF EndOfRequest
        <5>2. Abort(s) => tx'[s].tell = {}
          BY AbortShape, IdleIs
        <5>3. Notify(s) => FALSE
          BY <4>1 DEF Notify, ShowsSeries
        <5> QED BY <5>1, <5>2, <5>3
      <4> QED BY <1>10, <2>3, <4>2
    <3> QED BY <1>5, <1>7, <2>1, <2>3, <3>1
  <2> QED BY <1>3, <2>2, <2>3
<1>11. Keys("series")' \subseteq Keys("series") \cup NewSeries(w)
  <2>1. DOMAIN f \subseteq Keys("series") \cup DOMAIN Rows(w.insert, "series") \cup DOMAIN Rows(w.put, "series")
    BY <1>5, FlushedKeys
  <2> QED BY <1>4, <1>5, <1>6, <2>1, NoRows DEF Keys, NewSeries
<1>12. \A q \in Sessions : NewSeries(tx'[q]) = {} \/ (q # s /\ tx'[q] = tx[q])
  BY <1>3, NoRows DEF NewSeries
<1>13. ASSUME NEW q \in Sessions, NEW k \in NewSeries(tx'[q])
       PROVE  /\ k \notin Keys("series")'
              /\ \A n \in Keys("notice")' : n[2] # k
              /\ \A p \in Sessions : /\ \A n \in tx'[p].tell : n[2] # k
                                     /\ p # q => k \notin NewSeries(tx'[p])
  <2>1. q # s /\ k \in NewSeries(tx[q])
    BY <1>12
  <2>2. k \notin Keys("series")'
    BY <1>5, <1>11, <2>1 DEF ShownInv
  <2>3. \A n \in Keys("notice")' : n[2] # k
    BY <1>1, <2>1 DEF ShownInv
  <2>4. \A p \in Sessions : \A n \in tx'[p].tell : n[2] # k
    BY <1>2, <2>1 DEF ShownInv
  <2>5. \A p \in Sessions : p # q => k \notin NewSeries(tx'[p])
    BY <1>12, <2>1 DEF ShownInv
  <2> QED BY <2>2, <2>3, <2>4, <2>5
<1>14. \A q \in Sessions : NoticeFits(tx'[q])
  BY <1>3, NoRows DEF ShownInv, NoticeFits
<1> QED BY <1>9, <1>10, <1>13, <1>14 DEF ShownInv, NoticeFits, ShowsSeries, NewSeries

LEMMA ShownStays ==
  ASSUME area = "schedules", Shape, SchedulesInv, ShownInv, [CampusNext]_vars PROVE ShownInv'
<1>1. ASSUME NEW s \in Sessions, Handle(s) PROVE ShownInv'
  <2>1. SchedulesStep(s)
    BY <1>1, AreaOf DEF Handle
  <2> QED BY <2>1, ShownBegin
<1>2. ASSUME NEW s \in Sessions, EndOfRequest(s) PROVE ShownInv'
  BY <1>2, ShownEnd
<1>3. ASSUME Unchanged PROVE ShownInv'
  BY <1>3 DEF Unchanged, ShownInv, SeriesShown, ShowsSeries, NewSeries, NoticeFits, Keys
<1> QED BY <1>1, <1>2, <1>3, StepIs

LEMMA ShownStart ==
  ASSUME NEW tables, Starts("schedules", tables) PROVE ShownInv
<1>1. DOMAIN db["notice"] = {}
  BY NoRows DEF Starts
<1>2. \A s \in Sessions : tx[s] = Idle
  BY DEF Starts
<1> QED BY <1>1, <1>2, IdleIs, NoRows DEF ShownInv, Keys, NoticeFits, NewSeries

-----------------------------------------------------------------------------
(***************************************************************************)
(* The audience: types of its other tables, and posts that are told of.    *)
(***************************************************************************)
MarkRow == [by : {"teacher", "office"}]
TellsPosts(w) ==
    /\ w.drop = None /\ NoticeFits(w) /\ w.tell = {}
    /\ w.state = "open" => \A x \in w.jobs : x \in DOMAIN Rows(w.insert, "post")
    /\ w.state = "after" => \A x \in w.jobs : x \in Keys("post")
PeopleInv ==
    /\ \A p \in Pupils : db["student"][p] \in Student
    /\ TableInv("duty", Duties, {Present}) /\ TableInv("mark", Posts \X Pupils, MarkRow)
    /\ \A n \in Keys("notice") : n[1] = "post" /\ n[2] \in Keys("post")
    /\ \A s \in Sessions : TellsPosts(tx[s])

PeopleOpens(s, w, objects) ==
    /\ Opens(s, w, objects) /\ TellsPosts(w)
    /\ Fits(w, "duty", Duties, {Present}) /\ Fits(w, "mark", Posts \X Pupils, MarkRow)

(* A student who moves keeps the parent.                                   *)
LEMMA SeatAgain ==
  ASSUME NEW seat \in Seats, NEW row \in Student PROVE seat @@ row \in Student
<1>1. PICK old \in Seats, g \in Guardians : row = old @@ [parent |-> g]
  BY SMT DEF Student
<1>2. PICK person : person = [parent |-> g]
  OBVIOUS
<1>3. DOMAIN person = {"parent"} /\ person["parent"] = g
  BY <1>2
<1>4. DOMAIN seat = {"class", "section", "year"} /\ DOMAIN old = {"class", "section", "year"}
  BY AudienceConstants
<1>5. DOMAIN row = {"class", "section", "year", "parent"} /\ row["parent"] = g
  BY <1>1, <1>2, <1>3, <1>4 DEF @@
<1>6. seat @@ row = [x \in {"class", "section", "year", "parent"} |-> IF x \in {"class", "section", "year"} THEN seat[x] ELSE row[x]]
  BY <1>4, <1>5 DEF @@
<1>7. seat @@ person = [x \in {"class", "section", "year", "parent"} |-> IF x \in {"class", "section", "year"} THEN seat[x] ELSE person[x]]
  BY <1>3, <1>4 DEF @@
<1>8. seat @@ row = seat @@ person
  BY <1>3, <1>5, <1>6, <1>7
<1> QED BY <1>2, <1>8 DEF Student

(* What the handlers of posts collect.                                     *)
LEMMA NewPostTells ==
  ASSUME NEW s, NEW x, NEW row, NEW told, NewPost(s, x, row, told)
  PROVE  \E w, objects : PeopleOpens(s, w, objects)
<1>1. PICK one, new, jobs : one = (x :> row) /\ new = [post |-> one] /\ jobs = IF told THEN {x} ELSE {}
  OBVIOUS
<1>2. PICK w : w = [Work EXCEPT !.insert = new, !.jobs = jobs]
  OBVIOUS
<1>3. BeginWith(s, w, stored \cup {})
  BY <1>1, <1>2 DEF NewPost, Begin, BeginStoring
<1>4. /\ w.insert = new /\ w.put = None /\ w.update = None /\ w.drop = None /\ w.tell = {} /\ w.jobs = jobs
      /\ w.state = "open" /\ WorkShape(w)
  BY <1>2 DEF Work, Idle, WorkShape
<1>5. Rows(w.insert, "post") = one /\ \A t \in {"notice", "duty", "mark"} : Rows(w.insert, t) = None
  BY <1>1, <1>4 DEF Rows
<1>6. \A t : Rows(w.put, t) = None /\ Rows(w.update, t) = None
  BY <1>4, NoRows
<1>7. \A y \in jobs : y \in DOMAIN one
  BY <1>1, OneOf
<1>8. TellsPosts(w)
  BY <1>4, <1>5, <1>6, <1>7 DEF TellsPosts, NoticeFits
<1>9. Fits(w, "duty", Duties, {Present}) /\ Fits(w, "mark", Posts \X Pupils, MarkRow)
  BY <1>5, <1>6, NoRows DEF Fits
<1> QED BY <1>3, <1>4, <1>8, <1>9 DEF PeopleOpens, Opens

LEMMA EnterMarkTells ==
  ASSUME AudienceInv, NEW s, NEW x, NEW p \in Pupils, NEW by \in {"teacher", "office"}, EnterMark(s, x, p, by)
  PROVE  \E w, objects : PeopleOpens(s, w, objects)
<1>1. PICK pair, row : pair = <<x, p>> /\ row = [by |-> by]
  OBVIOUS
<1>2. PICK cols, one, new, first : /\ cols = Changed(db["mark"][pair], row) /\ one = (pair :> cols) /\ new = [mark |-> one]
                                   /\ first = (pair :> row)
  OBVIOUS
<1>3. PICK added : added = [mark |-> first]
  OBVIOUS
<1>4. PICK w : w = IF pair \in Keys("mark") THEN [Work EXCEPT !.update = new] ELSE [Work EXCEPT !.insert = added]
  OBVIOUS
<1>5. BeginWith(s, w, stored \cup {}) /\ x \in Keys("post")
  BY <1>1, <1>2, <1>3, <1>4 DEF EnterMark, Begin, BeginStoring, Sets, OfKind
<1>6. /\ w.put = None /\ w.drop = None /\ w.tell = {} /\ w.jobs = {} /\ w.state = "open" /\ WorkShape(w)
      /\ \/ w.insert = None /\ w.update = new
         \/ w.insert = added /\ w.update = None
  BY <1>4 DEF Work, Idle, WorkShape
<1>7. /\ Rows(w.insert, "mark") = None \/ Rows(w.insert, "mark") = first
      /\ Rows(w.update, "mark") = None \/ Rows(w.update, "mark") = one
      /\ \A t \in {"notice", "duty"} : Rows(w.insert, t) = None /\ Rows(w.update, t) = None
      /\ \A t : Rows(w.put, t) = None
  BY <1>2, <1>3, <1>6, NoRows DEF Rows
<1>8. pair \in Posts \X Pupils
  BY <1>1, <1>5 DEF AudienceInv, TableInv, Table
<1>9. DOMAIN first = {pair} /\ first[pair] = row /\ DOMAIN one = {pair} /\ one[pair] = cols
  BY <1>2, OneOf
<1>10. row \in MarkRow
  BY <1>1 DEF MarkRow
<1>11. Fitting(MarkRow, cols)
  <2>1. ASSUME NEW r \in MarkRow PROVE Over(r, cols) \in MarkRow
    <3>1. PICK o : o = Over(r, cols)
      OBVIOUS
    <3>2. DOMAIN r = {"by"} /\ r["by"] \in {"teacher", "office"} /\ DOMAIN row = {"by"} /\ row["by"] = by
      BY <1>1 DEF MarkRow
    <3>3. DOMAIN cols \subseteq DOMAIN row /\ \A c \in DOMAIN cols : cols[c] = row[c]
      BY <1>2, ChangedIs
    <3>4. o = [c \in {"by"} |-> IF c \in DOMAIN cols THEN cols[c] ELSE r[c]]
      BY <3>1, <3>2, OverIs
    <3>5. o = [by |-> o["by"]] /\ o["by"] \in {"teacher", "office"}
      BY <3>2, <3>3, <3>4
    <3> QED BY <3>1, <3>5 DEF MarkRow
  <2> QED BY <2>1 DEF Fitting
<1>12. Fits(w, "duty", Duties, {Present}) /\ Fits(w, "mark", Posts \X Pupils, MarkRow)
  BY <1>7, <1>8, <1>9, <1>10, <1>11, NoRows DEF Fits
<1>13. TellsPosts(w)
  BY <1>6, <1>7 DEF TellsPosts, NoticeFits
<1> QED BY <1>5, <1>6, <1>12, <1>13 DEF PeopleOpens, Opens

LEMMA PeopleOpened ==
  ASSUME Shape, AudienceInv, PeopleInv, NEW s \in Sessions, NEW w, NEW objects, PeopleOpens(s, w, objects)
  PROVE  PeopleInv'
<1>1. BeginWith(s, w, objects) /\ WorkShape(w) /\ w.state = "open" /\ TellsPosts(w)
  BY DEF PeopleOpens, Opens
<1>2. /\ Shape' /\ tx' = [q \in Sessions |-> IF q = s THEN w ELSE tx[q]] /\ UNCHANGED <<area, db>>
  BY <1>1, BeginShape
<1>3. TableStays("duty", Duties, {Present}) /\ TableStays("mark", Posts \X Pupils, MarkRow)
  BY <1>1, TableBegin DEF PeopleInv, PeopleOpens
<1>4. TableInv("duty", Duties, {Present})' /\ TableInv("mark", Posts \X Pupils, MarkRow)'
  BY <1>3 DEF TableStays, TableInv, Fits
<1>5. \A t : Keys(t)' = Keys(t)
  BY <1>2 DEF Keys
<1>6. ASSUME NEW q \in Sessions PROVE TellsPosts(tx[q])'
  <2>1. PICK v : v = tx'[q] /\ TellsPosts(v)
    BY <1>1, <1>2 DEF PeopleInv
  <2>2. TellsPosts(v)'
    BY <1>5, <2>1 DEF TellsPosts, NoticeFits
  <2> QED BY <2>1, <2>2
<1> QED BY <1>2, <1>4, <1>5, <1>6 DEF PeopleInv

(* The steps that are not the opening of a unit of work.                   *)
LEMMA SeatPeople ==
  ASSUME AudienceInv, PeopleInv, NEW p \in Pupils, NEW seat \in Seats, Seat(p, seat) PROVE PeopleInv'
<1>1. /\ db' = [db EXCEPT !["student"] = [db["student"] EXCEPT ![p] = seat @@ db["student"][p]]]
      /\ UNCHANGED <<area, stored, today, tx, serial>>
  BY DEF Seat, External
<1>2. PICK row : row = seat @@ db["student"][p] /\ row \in Student
  BY SeatAgain DEF PeopleInv
<1>3. /\ DOMAIN db' = DOMAIN db
      /\ \A q \in Pupils : db'["student"][q] = IF q = p THEN row ELSE db["student"][q]
      /\ \A t \in DOMAIN db : t # "student" => db'[t] = db[t]
  BY <1>1, <1>2 DEF AudienceInv, Keys
<1>4. \A t \in {"duty", "mark", "post", "notice"} : db'[t] = db[t] /\ Keys(t)' = Keys(t)
  BY <1>3 DEF AudienceInv, Keys
<1>5. \A q \in Pupils : db'["student"][q] \in Student
  BY <1>2, <1>3 DEF PeopleInv
<1>6. TableInv("duty", Duties, {Present})' /\ TableInv("mark", Posts \X Pupils, MarkRow)'
  BY <1>1, <1>4 DEF PeopleInv, TableInv, Table, Fits
<1>7. \A q \in Sessions : TellsPosts(tx[q])'
  BY <1>1, <1>4 DEF PeopleInv, TellsPosts, NoticeFits
<1> QED BY <1>4, <1>5, <1>6, <1>7 DEF PeopleInv

LEMMA ReappointPeople ==
  ASSUME AudienceInv, PeopleInv, NEW d \in Duties, Reappoint(d) PROVE PeopleInv'
<1>1. PICK set, duty : set = SymDiff(Keys("duty"), {d}) /\ duty = [e \in set |-> Present]
  OBVIOUS
<1>2. db' = [db EXCEPT !.duty = duty] /\ UNCHANGED <<area, stored, today, tx, serial>>
  BY <1>1 DEF Reappoint, External
<1>3. DOMAIN db' = DOMAIN db /\ db'["duty"] = duty /\ \A t \in {"student", "post", "mark", "notice"} : db'[t] = db[t] /\ Keys(t)' = Keys(t)
  BY <1>2 DEF AudienceInv, Keys
<1>4. set \subseteq Duties
  BY <1>1 DEF SymDiff, PeopleInv, TableInv, Table
<1>5. DOMAIN duty \subseteq Duties /\ \A e \in DOMAIN duty : duty[e] = Present
  BY <1>1, <1>4
<1>6. TableInv("duty", Duties, {Present})'
  BY <1>2, <1>3, <1>5 DEF PeopleInv, TableInv, Table, Keys, Fits
<1>7. TableInv("mark", Posts \X Pupils, MarkRow)'
  BY <1>2, <1>3 DEF PeopleInv, TableInv, Table, Fits
<1>8. \A q \in Sessions : TellsPosts(tx[q])'
  BY <1>2, <1>3 DEF PeopleInv, TellsPosts, NoticeFits
<1> QED BY <1>3, <1>6, <1>7, <1>8 DEF PeopleInv

LEMMA TellPeople ==
  ASSUME Shape, AudienceInv, PeopleInv, NEW s \in Sessions, Tell(s) PROVE PeopleInv'
<1>1. PICK names, more : /\ names = UNION {{<<"post", x, u>> : u \in ToldOf(x)} : x \in tx[s].jobs}
                         /\ more = [n \in names |-> [read |-> FALSE]]
  OBVIOUS
<1>2. PICK old, both : old = db["notice"] /\ both = (old @@ more)
  OBVIOUS
<1>3. /\ db' = [db EXCEPT !.notice = both] /\ tx' = [tx EXCEPT ![s] = Idle]
      /\ UNCHANGED <<area, stored, today, serial>> /\ tx[s].state = "after"
  BY <1>1, <1>2 DEF Tell
<1>4. /\ db'["notice"] = both /\ \A t \in {"student", "post", "mark", "duty"} : db'[t] = db[t] /\ Keys(t)' = Keys(t)
  BY <1>3 DEF AudienceInv, Keys
<1>5. tx' = [q \in Sessions |-> tx'[q]] /\ \A q \in Sessions : tx'[q] = tx[q] \/ tx'[q] = Idle
  BY <1>3 DEF Shape
<1>6. DOMAIN both = Keys("notice") \cup names
  BY <1>1, <1>2 DEF @@, Keys
<1>7. ASSUME NEW n \in names PROVE n[1] = "post" /\ n[2] \in Keys("post")
  <2>1. PICK x \in tx[s].jobs : \E u \in ToldOf(x) : n = <<"post", x, u>>
    BY <1>1
  <2>2. n[1] = "post" /\ n[2] = x
    BY <2>1
  <2>3. x \in Keys("post")
    BY <1>3, <2>1 DEF PeopleInv, TellsPosts
  <2> QED BY <2>2, <2>3
<1>8. \A n \in Keys("notice")' : n[1] = "post" /\ n[2] \in Keys("post")
  BY <1>4, <1>6, <1>7 DEF PeopleInv, Keys
<1>9. TableInv("duty", Duties, {Present})'
  BY <1>4, <1>5, TableFreed DEF PeopleInv
<1>10. TableInv("mark", Posts \X Pupils, MarkRow)'
  BY <1>4, <1>5, TableFreed DEF PeopleInv
<1>11. ASSUME NEW q \in Sessions PROVE TellsPosts(tx[q])'
  <2>1. PICK v : v = tx'[q] /\ (v = tx[q] \/ v = Idle)
    BY <1>5
  <2>2. TellsPosts(v)
    BY <2>1, IdleIs, NoRows DEF PeopleInv, TellsPosts, NoticeFits
  <2>3. TellsPosts(v)'
    BY <1>4, <2>2 DEF TellsPosts, NoticeFits
  <2> QED BY <2>1, <2>3
<1> QED BY <1>4, <1>8, <1>9, <1>10, <1>11 DEF PeopleInv

LEMMA PeopleBegin ==
  ASSUME Shape, AudienceInv, PeopleInv, NEW s \in Sessions, AudienceStep(s) PROVE PeopleInv'
<1>1. \/ \E x \in Posts, d \in Duties :
            (\E kind \in {"assignment", "homework"} : PostWork(s, x, kind, d)) \/ WriteDiary(s, x, d)
      \/ \E x \in Posts, kind \in {"exam", "series"}, seat \in Seats : Publish(s, x, kind, seat)
      \/ \E x \in Posts, p \in Pupils :
            \/ \E year \in Terms, negative \in BOOLEAN : WriteLog(s, x, p, year, negative)
            \/ \E by \in {"teacher", "office"} : EnterMark(s, x, p, by)
      \/ \E p \in Pupils, seat \in Seats : Seat(p, seat)
      \/ \E d \in Duties : Reappoint(d)
      \/ Tell(s)
  BY Zenon DEF AudienceStep
<1>2. \/ \E x, row, told : NewPost(s, x, row, told)
      \/ \E x \in Posts, p \in Pupils, by \in {"teacher", "office"} : EnterMark(s, x, p, by)
      \/ \E p \in Pupils, seat \in Seats : Seat(p, seat)
      \/ \E d \in Duties : Reappoint(d)
      \/ Tell(s)
  <2>1. ASSUME NEW x, NEW d, NEW kind, PostWork(s, x, kind, d) PROVE \E row, told : NewPost(s, x, row, told)
    BY <2>1, Zenon DEF PostWork
  <2>2. ASSUME NEW x, NEW d, WriteDiary(s, x, d) PROVE \E row, told : NewPost(s, x, row, told)
    BY <2>2, Zenon DEF WriteDiary
  <2>3. ASSUME NEW x, NEW kind, NEW seat, Publish(s, x, kind, seat) PROVE \E row, told : NewPost(s, x, row, told)
    BY <2>3, Zenon DEF Publish
  <2>4. ASSUME NEW x, NEW p, NEW year, NEW negative, WriteLog(s, x, p, year, negative)
        PROVE \E row, told : NewPost(s, x, row, told)
    BY <2>4, Zenon DEF WriteLog
  <2>5. CASE \E x \in Posts, d \in Duties :
               (\E kind \in {"assignment", "homework"} : PostWork(s, x, kind, d)) \/ WriteDiary(s, x, d)
    BY <2>1, <2>2, <2>5, Zenon
  <2>6. CASE \E x \in Posts, kind \in {"exam", "series"}, seat \in Seats : Publish(s, x, kind, seat)
    BY <2>3, <2>6, Zenon
  <2>7. CASE \E x \in Posts, p \in Pupils :
               \/ \E year \in Terms, negative \in BOOLEAN : WriteLog(s, x, p, year, negative)
               \/ \E by \in {"teacher", "office"} : EnterMark(s, x, p, by)
    <3>1. PICK x \in Posts, p \in Pupils :
               \/ \E year \in Terms, negative \in BOOLEAN : WriteLog(s, x, p, year, negative)
               \/ \E by \in {"teacher", "office"} : EnterMark(s, x, p, by)
      BY <2>7, Zenon
    <3>2. (\E by \in {"teacher", "office"} : EnterMark(s, x, p, by)) \/ \E year, negative : WriteLog(s, x, p, year, negative)
      BY <3>1, Zenon
    <3>3. (\E year, negative : WriteLog(s, x, p, year, negative)) => \E row, told : NewPost(s, x, row, told)
      BY <2>4, Zenon
    <3>4. (\E x1, row, told : NewPost(s, x1, row, told)) \/ (\E x1 \in Posts, p1 \in Pupils, by \in {"teacher", "office"} : EnterMark(s, x1, p1, by))
      <4>1. CASE \E by \in {"teacher", "office"} : EnterMark(s, x, p, by)
        <5>1. PICK by \in {"teacher", "office"} : EnterMark(s, x, p, by)
          BY <4>1, Zenon
        <5>2. x \in Posts /\ p \in Pupils
          BY <3>1
        <5> QED BY <5>1, <5>2, Zenon
      <4>2. CASE \E row, told : NewPost(s, x, row, told)
        BY <4>2, Zenon
      <4> QED BY <3>2, <3>3, <4>1, <4>2, Zenon
    <3> QED BY <3>4
  <2> QED BY <1>1, <2>5, <2>6, <2>7, Zenon
<1>3. \/ \E w, objects : PeopleOpens(s, w, objects)
      \/ \E p \in Pupils, seat \in Seats : Seat(p, seat)
      \/ \E d \in Duties : Reappoint(d)
      \/ Tell(s)
  BY <1>2, NewPostTells, EnterMarkTells
<1> QED BY <1>3, PeopleOpened, SeatPeople, ReappointPeople, TellPeople

LEMMA PeopleEnd ==
  ASSUME Shape, AudienceInv, PeopleInv, NEW s \in Sessions, EndOfRequest(s) PROVE PeopleInv'
<1>1. DOMAIN db' = DOMAIN db /\ \A t \in {"student", "duty", "post", "mark"} : t \in DOMAIN db
  BY OnlyCommits DEF AudienceInv
<1>2. TableStays("duty", Duties, {Present})
  BY <1>1, TableEnd DEF PeopleInv
<1>3. TableStays("mark", Posts \X Pupils, MarkRow)
  BY <1>1, TableEnd DEF PeopleInv
<1>4. TableInv("duty", Duties, {Present})' /\ TableInv("mark", Posts \X Pupils, MarkRow)'
  BY <1>2, <1>3 DEF TableStays, TableInv, Fits
<1>5. PICK v : v = tx[s] /\ TellsPosts(v) /\ AudienceWork(v)
  BY DEF PeopleInv, AudienceInv
<1>6. /\ Keys("post") \subseteq Keys("post")' /\ \A p \in Pupils : db'["student"][p] = db["student"][p]
      /\ Commit(s) => DOMAIN Rows(v.insert, "post") \subseteq Keys("post")' /\ v.state = "open"
  <2>1. CASE Commit(s)
    <3>1. db'["post"] = Flushed(v, "post") /\ db'["student"] = Flushed(v, "student") /\ v.state = "open"
      BY <1>1, <1>5, <2>1, CommitShape
    <3>2. /\ Keys("post") \subseteq DOMAIN Flushed(v, "post")
          /\ DOMAIN Rows(v.insert, "post") \subseteq DOMAIN Flushed(v, "post")
      BY <1>5, NothingDropped DEF TellsPosts
    <3>3. \A k \in Keys("student") : Flushed(v, "student")[k] = db["student"][k]
      BY <1>5, SameFlush DEF AudienceWork
    <3> QED BY <3>1, <3>2, <3>3 DEF Keys, AudienceInv
  <2>2. CASE ~Commit(s)
    BY <1>1, <2>2, OnlyCommits DEF Keys
  <2> QED BY <2>1, <2>2
<1>7. NoticeFits(tx[s])
  BY DEF PeopleInv, TellsPosts
<1>8. \A n \in Keys("notice")' : n \in Keys("notice")
  BY <1>5, <1>7, NoticeEnd DEF TellsPosts
<1>9. \A n \in Keys("notice")' : n[1] = "post" /\ n[2] \in Keys("post")'
  BY <1>6, <1>8 DEF PeopleInv
<1>10. ASSUME NEW q \in Sessions PROVE TellsPosts(tx[q])'
  <2>0. PICK w : w = tx'[q]
    OBVIOUS
  <2>1. CASE q # s /\ tx'[q] = tx[q]
    <3>1. TellsPosts(w)
      BY <2>0, <2>1 DEF PeopleInv
    <3>2. TellsPosts(w)'
      BY <1>6, <3>1 DEF TellsPosts, NoticeFits
    <3> QED BY <2>0, <3>2
  <2>2. CASE q = s /\ Commit(s)
    <3>1. w = Rest(v)
      BY <1>5, <2>0, <2>2, CommitShape
    <3>2. w.insert = None /\ w.put = None /\ w.drop = None /\ w.tell = {} /\ w.jobs = v.jobs /\ w.state \in {"idle", "after"}
      BY <1>5, <3>1, RestIs DEF TellsPosts
    <3>3. \A x \in v.jobs : x \in Keys("post")'
      BY <1>5, <1>6, <2>2 DEF TellsPosts
    <3>4. TellsPosts(w)'
      BY <3>2, <3>3, NoRows DEF TellsPosts, NoticeFits
    <3> QED BY <2>0, <3>4
  <2>3. CASE q = s /\ Abort(s)
    <3>1. w = Idle
      BY <2>0, <2>3, AbortShape
    <3>2. TellsPosts(w)'
      BY <3>1, IdleIs, NoRows DEF TellsPosts, NoticeFits
    <3> QED BY <2>0, <3>2
  <2>4. CASE q = s /\ Notify(s)
    <3>1. w.insert = None /\ w.put = None /\ w.drop = None /\ w.tell = {} /\ w.jobs = v.jobs /\ v.state = "after" /\ w.state \in {"idle", "after"}
      BY <1>5, <2>0, <2>4, NotifyShape
    <3>2. TellsPosts(w)'
      BY <1>5, <1>6, <3>1, NoRows DEF TellsPosts, NoticeFits
    <3> QED BY <2>0, <3>2
  <2> QED BY <2>1, <2>2, <2>3, <2>4, WorksAtEnd DEF EndOfRequest
<1> QED BY <1>4, <1>6, <1>9, <1>10 DEF PeopleInv

LEMMA PeopleSame == ASSUME Unchanged, PeopleInv PROVE PeopleInv'
<1>1. db' = db /\ tx' = tx /\ \A t : Keys(t)' = Keys(t)
  BY GeneralSame DEF Unchanged
<1>2. TableInv("duty", Duties, {Present})' /\ TableInv("mark", Posts \X Pupils, MarkRow)'
  BY GeneralSame DEF PeopleInv
<1>3. \A s \in Sessions : TellsPosts(tx[s])'
  BY <1>1 DEF PeopleInv, TellsPosts, NoticeFits
<1> QED BY <1>1, <1>2, <1>3 DEF PeopleInv

LEMMA PeopleStay ==
  ASSUME area = "audience", Shape, AudienceInv, PeopleInv, [CampusNext]_vars PROVE PeopleInv'
<1>1. ASSUME NEW s \in Sessions, Handle(s) PROVE PeopleInv'
  BY <1>1, AreaOf, PeopleBegin DEF Handle
<1>2. ASSUME NEW s \in Sessions, EndOfRequest(s) PROVE PeopleInv'
  BY <1>2, PeopleEnd
<1> QED BY <1>1, <1>2, PeopleSame, StepIs

LEMMA PeopleStart == AudienceInit => PeopleInv
<1> SUFFICES ASSUME AudienceInit PROVE PeopleInv
  OBVIOUS
<1>1. PICK students \in [Pupils -> Student], D \in SUBSET Duties :
         Starts("audience", [student |-> students, duty |-> [d \in D |-> Present], post |-> None, mark |-> None])
  BY DEF AudienceInit
<1>2. PICK duty : duty = [d \in D |-> Present]
  OBVIOUS
<1>3. PICK tables : tables = [student |-> students, duty |-> duty, post |-> None, mark |-> None]
  OBVIOUS
<1>4. /\ DOMAIN tables = {"student", "duty", "post", "mark"} /\ tables["student"] = students /\ tables["duty"] = duty
      /\ tables["mark"] = None
  BY <1>3
<1>5. "notice" \notin DOMAIN tables /\ Starts("audience", tables)
  BY <1>1, <1>2, <1>3, <1>4
<1>6. /\ DOMAIN db = DOMAIN tables \cup {"notice"}
      /\ \A t \in DOMAIN tables : db[t] = tables[t]
      /\ db["notice"] = None /\ \A s \in Sessions : tx[s] = Idle
  BY <1>5, StartIs
<1>7. TableInv("mark", Posts \X Pupils, MarkRow)
  BY <1>4, <1>6, EmptyTable
<1>8. TableInv("duty", Duties, {Present})
  <2>1. db["duty"] = [d \in D |-> Present]
    BY <1>2, <1>4, <1>6
  <2>2. Table("duty", Duties, {Present})
    BY <2>1 DEF Table, Keys
  <2>3. Fits(Idle, "duty", Duties, {Present})
    BY IdleIs, IdleFits
  <2> QED BY <1>6, <2>2, <2>3 DEF TableInv
<1>9. TellsPosts(Idle)
  BY IdleIs, NoRows DEF TellsPosts, NoticeFits
<1>10. Keys("notice") = {}
  BY <1>6, NoRows DEF Keys
<1>11. db["student"] = students
  BY <1>4, <1>6
<1> QED BY <1>6, <1>7, <1>8, <1>9, <1>10, <1>11 DEF PeopleInv

LEMMA PeopleFollow ==
  ASSUME AudienceInv, PeopleInv
  PROVE  /\ AudienceTypeOK
         /\ \A n \in Keys("notice") : n[1] = "post" /\ n[2] \in Keys("post")
<1>1. Table("student", Pupils, Student)
  BY DEF AudienceInv, PeopleInv, Table
<1>2. Table("post", Posts, Post)
  BY DEF AudienceInv, TableInv, Table, PostRow
<1> QED BY <1>1, <1>2 DEF PeopleInv, TableInv, AudienceTypeOK, MarkRow

-----------------------------------------------------------------------------
(***************************************************************************)
(* References: rows that belong to a row of another table, which they do   *)
(* not outlive.                                                            *)
(***************************************************************************)
Linked(o, p, loose, S) == o \in loose \/ (o = <<p, o[2]>> /\ o[2] \in S)
RefInv(t, p, loose) == \A k \in Keys(t) : Linked(db[t][k].of, p, loose, Keys(p))

(* What a unit of work inserts refers to what it inserts with it or what   *)
(* the database checks; so does what it changes.                           *)
RefWork(w, t, p, loose) ==
    /\ Rows(w.put, t) = None /\ Rows(w.put, p) = None
    /\ w.drop = None \/ w.insert = None
    /\ \A k \in DOMAIN Rows(w.insert, t) :
          Linked(Rows(w.insert, t)[k].of, p, loose,
                 DOMAIN Rows(w.insert, p) \cup {need[2] : need \in {n \in w.needs : n[1] = p}})
    /\ \A k \in DOMAIN Rows(w.update, t) : "of" \in DOMAIN Rows(w.update, t)[k] =>
          Linked(Rows(w.update, t)[k].of, p, loose, {need[2] : need \in {n \in w.needs : n[1] = p}})

(* Whatever refers to a row that is dropped is dropped.                    *)
Cascades(w, t, p) ==
    \A c : <<p, c>> \in Dropped(w) =>
       \A k \in Keys(t) : "of" \in DOMAIN db[t][k] /\ Owner(w, t, k) = <<p, c>> => <<t, k>> \in Dropped(w)

LEMMA RefCommit ==
  ASSUME NEW t, NEW p, NEW loose, RefInv(t, p, loose), \A k \in Keys(t) : "of" \in DOMAIN db[t][k],
         NEW w, RefWork(w, t, p, loose), ~Refused(w), Cascades(w, t, p)
  PROVE  \A k \in DOMAIN Flushed(w, t) : Linked(Flushed(w, t)[k].of, p, loose, DOMAIN Flushed(w, p))
<1>1. PICK f, S : f = Flushed(w, t) /\ S = DOMAIN Flushed(w, p)
  OBVIOUS
<1>2. \A need \in w.needs : need[2] \in Keys(need[1])
  BY DEF Refused
<1>3. PICK needed : needed = {need[2] : need \in {n \in w.needs : n[1] = p}}
  OBVIOUS
<1>4. needed \subseteq Keys(p)
  BY <1>2, <1>3
<1>5. \A c \in Keys(p) : <<p, c>> \notin Dropped(w) => c \in S
  BY <1>1, FlushedDomain
<1>6. ASSUME NEW k \in DOMAIN f PROVE Linked(f[k].of, p, loose, S)
  <2>1. PICK new, cols : new = Rows(w.insert, t) /\ cols = Rows(w.update, t)
    OBVIOUS
  <2>2. \/ k \in DOMAIN new /\ f[k] = new[k]
        \/ k \in Keys(t) /\ k \notin DOMAIN new /\ k \in DOMAIN cols /\ f[k] = Over(db[t][k], cols[k])
        \/ k \in Keys(t) /\ k \notin DOMAIN new /\ k \notin DOMAIN cols /\ f[k] = db[t][k]
    <3>1. Rows(w.put, t) = None /\ k \in DOMAIN Flushed(w, t)
      BY <1>1, <1>6 DEF RefWork
    <3> QED BY <1>1, <2>1, <3>1, FlushNoPut
  <2>3. CASE k \in DOMAIN new /\ f[k] = new[k]
    <3>1. w.insert # None
      BY <2>1, <2>3, NoRows
    <3>2. w.drop = None
      BY <3>1 DEF RefWork
    <3>3. Keys(p) \subseteq S /\ DOMAIN Rows(w.insert, p) \subseteq S
      BY <1>1, <3>2, NothingDropped
    <3>4. Linked(new[k].of, p, loose, DOMAIN Rows(w.insert, p) \cup needed)
      BY <1>3, <2>1, <2>3 DEF RefWork
    <3> QED BY <1>4, <2>3, <3>3, <3>4 DEF Linked
  <2>4. CASE k \in Keys(t) /\ k \notin DOMAIN new
    <3>1. <<t, k>> \notin Dropped(w)
      <4>1. k \in DOMAIN Flushed(w, t) /\ k \notin DOMAIN Rows(w.insert, t) /\ k \notin DOMAIN Rows(w.put, t)
        BY <1>1, <1>6, <2>1, <2>4, NoRows DEF RefWork
      <4> QED BY <4>1, FlushedDomain
    <3>2. PICK o : o = Owner(w, t, k)
      OBVIOUS
    <3>3. o = IF k \in DOMAIN cols /\ "of" \in DOMAIN cols[k] THEN cols[k].of ELSE db[t][k].of
      BY <2>1, <3>2 DEF Owner
    <3>4. f[k].of = o
      <4>1. k \in DOMAIN cols => Over(db[t][k], cols[k])["of"] = IF "of" \in DOMAIN cols[k] THEN cols[k]["of"] ELSE db[t][k]["of"]
        BY <2>4, OverIs
      <4> QED BY <2>2, <2>4, <3>3, <4>1
    <3>5. Linked(o, p, loose, Keys(p))
      <4>1. CASE k \in DOMAIN cols /\ "of" \in DOMAIN cols[k]
        <5>1. Linked(cols[k].of, p, loose, needed)
          BY <1>3, <2>1, <4>1 DEF RefWork
        <5> QED BY <1>4, <3>3, <4>1, <5>1 DEF Linked
      <4>2. CASE ~(k \in DOMAIN cols /\ "of" \in DOMAIN cols[k])
        BY <2>4, <3>3, <4>2 DEF RefInv
      <4> QED BY <4>1, <4>2
    <3>6. o = <<p, o[2]>> => <<p, o[2]>> \notin Dropped(w)
      BY <2>4, <3>1, <3>2 DEF Cascades
    <3> QED BY <1>5, <3>4, <3>5, <3>6 DEF Linked
  <2> QED BY <2>2, <2>3, <2>4
<1> QED BY <1>1, <1>6

(* A row that belongs to none is only dropped by itself.                   *)
LEMMA RootsDropped ==
  ASSUME NEW w, NEW p \in DOMAIN db, \A k \in Keys(p) : "of" \notin DOMAIN db[p][k]
  PROVE  \A c : <<p, c>> \in Dropped(w) => p \in DOMAIN w.drop /\ c \in w.drop[p]
<1>1. PICK rest, Z : rest = UNION {{<<t, k>> : k \in Keys(t)} : t \in DOMAIN db \ {p}} /\ Z = rest \cup Top(w)
  OBVIOUS
<1>2. Holds(w, Z)
  BY <1>1 DEF Holds, Top
<1>3. ASSUME NEW t \in DOMAIN db, NEW k \in Keys(t), "of" \in DOMAIN db[t][k] PROVE <<t, k>> \in Z
  BY <1>1, <1>3
<1>4. HoldsBelow(w, Z)
  BY <1>3 DEF HoldsBelow
<1>5. Dropped(w) \subseteq Z
  BY <1>2, <1>4, DroppedWithin
<1>6. ASSUME NEW c, <<p, c>> \in Dropped(w) PROVE p \in DOMAIN w.drop /\ c \in w.drop[p]
  <2>1. <<p, c>> \notin rest
    BY <1>1
  <2>2. <<p, c>> \in Top(w)
    BY <1>1, <1>5, <1>6, <2>1
  <2>3. PICK t \in DOMAIN w.drop : <<p, c>> \in {<<t, k>> : k \in w.drop[t]}
    BY <2>2 DEF Top
  <2> QED BY <2>3
<1> QED BY <1>6

LEMMA RootsCascade ==
  ASSUME NEW w, NEW t \in DOMAIN db, NEW p \in DOMAIN db, \A k \in Keys(p) : "of" \notin DOMAIN db[p][k]
  PROVE  Cascades(w, t, p)
<1>1. SUFFICES ASSUME NEW c, <<p, c>> \in Dropped(w), NEW k \in Keys(t), "of" \in DOMAIN db[t][k], Owner(w, t, k) = <<p, c>>
               PROVE  <<t, k>> \in Dropped(w)
  BY DEF Cascades
<1>2. p \in DOMAIN w.drop /\ c \in w.drop[p]
  BY <1>1, RootsDropped
<1> QED BY <1>1, <1>2, DroppedUnder

(* At the end of a request references hold.                                *)
LEMMA RefEnd ==
  ASSUME Shape, NEW t \in DOMAIN db, NEW p \in DOMAIN db, t # "notice", p # "notice", NEW loose,
         RefInv(t, p, loose), \A k \in Keys(t) : "of" \in DOMAIN db[t][k],
         NEW s \in Sessions, RefWork(tx[s], t, p, loose), Cascades(tx[s], t, p), EndOfRequest(s)
  PROVE  RefInv(t, p, loose)'
<1>1. CASE Commit(s)
  <2>1. ~Refused(tx[s]) /\ db'[t] = Flushed(tx[s], t) /\ db'[p] = Flushed(tx[s], p)
    BY <1>1, CommitShape
  <2>2. \A k \in DOMAIN Flushed(tx[s], t) : Linked(Flushed(tx[s], t)[k].of, p, loose, DOMAIN Flushed(tx[s], p))
    BY <2>1, RefCommit
  <2> QED BY <2>1, <2>2 DEF RefInv, Keys, Linked
<1>2. CASE ~Commit(s)
  <2>1. db'[t] = db[t] /\ db'[p] = db[p]
    BY <1>2, OnlyCommits
  <2> QED BY <2>1 DEF RefInv, Keys, Linked
<1> QED BY <1>1, <1>2

LEMMA RefWorkEnds ==
  ASSUME NEW w, w.insert = None, w.put = None, w.update = None, NEW t, NEW p, NEW loose
  PROVE  RefWork(w, t, p, loose)
BY NoRows DEF RefWork

-----------------------------------------------------------------------------
(***************************************************************************)
(* The structure of a year: no section or subject outlives its class.      *)
(***************************************************************************)
StructureSection == [of : OfClass, active : BOOLEAN]
SubjectRow == [of : OfClass \cup {WholeSchool}]
StructureTyped == /\ TableInv("class", ClassIds, Class) /\ TableInv("section", SectionKey, StructureSection)
                  /\ TableInv("subject", Codes, SubjectRow) /\ TableInv("year", Years, YearRow)
StructureFits(w) == /\ Fits(w, "class", ClassIds, Class) /\ Fits(w, "section", SectionKey, StructureSection)
                    /\ Fits(w, "subject", Codes, SubjectRow) /\ Fits(w, "year", Years, YearRow)
StructureWork(w) ==
    /\ RefWork(w, "section", "class", {}) /\ RefWork(w, "subject", "class", {WholeSchool})
    /\ \A k \in DOMAIN Rows(w.insert, "section") : Rows(w.insert, "section")[k].of = <<"class", k[1]>>
    /\ \A k \in DOMAIN Rows(w.update, "section") : "of" \notin DOMAIN Rows(w.update, "section")[k]
StructureInv ==
    /\ DOMAIN db = {"class", "section", "subject", "year", "notice"}
    /\ StructureTyped /\ OnlyInv({})
    /\ RefInv("section", "class", {}) /\ RefInv("subject", "class", {WholeSchool})
    /\ \A k \in Keys("section") : db["section"][k].of = <<"class", k[1]>>
    /\ \A s \in Sessions : StructureWork(tx[s])
StructureOpens(s, w, objects) ==
    Opens(s, w, objects) /\ OnlyFits(w, {}) /\ StructureFits(w) /\ StructureWork(w)

(* Columns of a class, a section and a subject.                            *)
LEMMA ClassFits ==
  ASSUME NEW y \in Years, NEW level \in Levels, NEW cols, DOMAIN cols \subseteq {"year", "level"},
         "year" \in DOMAIN cols => cols["year"] = y, "level" \in DOMAIN cols => cols["level"] = level
  PROVE  Fitting(Class, cols)
<1>1. ASSUME NEW r \in Class PROVE Over(r, cols) \in Class
  <2>1. PICK o : o = Over(r, cols)
    OBVIOUS
  <2>2. DOMAIN r = {"year", "level"} /\ r["year"] \in Years /\ r["level"] \in Levels
    BY DEF Class
  <2>3. o = [c \in {"year", "level"} |-> IF c \in DOMAIN cols THEN cols[c] ELSE r[c]]
    BY <2>1, <2>2, OverIs
  <2>4. o["year"] \in Years /\ o["level"] \in Levels /\ o = [year |-> o["year"], level |-> o["level"]]
    BY <2>2, <2>3
  <2> QED BY <2>1, <2>4 DEF Class
<1> QED BY <1>1 DEF Fitting

LEMMA SectionFits ==
  ASSUME NEW active \in BOOLEAN, NEW cols, DOMAIN cols \subseteq {"active"}, \A c \in DOMAIN cols : cols[c] = active
  PROVE  Fitting(StructureSection, cols)
<1>1. ASSUME NEW r \in StructureSection PROVE Over(r, cols) \in StructureSection
  <2>1. PICK o : o = Over(r, cols)
    OBVIOUS
  <2>2. DOMAIN r = {"of", "active"} /\ r["of"] \in OfClass /\ r["active"] \in BOOLEAN
    BY DEF StructureSection
  <2>3. o = [c \in {"of", "active"} |-> IF c \in DOMAIN cols THEN cols[c] ELSE r[c]]
    BY <2>1, <2>2, OverIs
  <2>4. o["of"] \in OfClass /\ o = [of |-> o["of"], active |-> o["active"]]
    BY <2>2, <2>3
  <2>5. o["active"] \in BOOLEAN
    BY <2>2, <2>3, Zenon
  <2> QED BY <2>1, <2>4, <2>5 DEF StructureSection
<1> QED BY <1>1 DEF Fitting

LEMMA SubjectFits ==
  ASSUME NEW of \in OfClass \cup {WholeSchool}, NEW cols, DOMAIN cols \subseteq {"of"}, \A c \in DOMAIN cols : cols[c] = of
  PROVE  Fitting(SubjectRow, cols)
<1>1. ASSUME NEW r \in SubjectRow PROVE Over(r, cols) \in SubjectRow
  <2>1. PICK o : o = Over(r, cols)
    OBVIOUS
  <2>2. DOMAIN r = {"of"} /\ r["of"] \in OfClass \cup {WholeSchool}
    BY DEF SubjectRow
  <2>3. o = [c \in {"of"} |-> IF c \in DOMAIN cols THEN cols[c] ELSE r[c]]
    BY <2>1, <2>2, OverIs
  <2>4. o["of"] \in OfClass \cup {WholeSchool} /\ o = [of |-> o["of"]]
    BY <2>2, <2>3
  <2> QED BY <2>1, <2>4 DEF SubjectRow
<1> QED BY <1>1 DEF Fitting

(* A change of one row of a table of the structure.                        *)
LEMMA PlainWork ==
  ASSUME NEW w, w.put = None, w.tell = {}, w.insert = None, Rows(w.update, "notice") = None,
         Rows(w.update, "section") = None, Rows(w.update, "subject") = None, Rows(w.update, "year") = None,
         \A k \in DOMAIN Rows(w.update, "class") : Fitting(Class, Rows(w.update, "class")[k])
  PROVE  OnlyFits(w, {}) /\ StructureFits(w) /\ StructureWork(w)
<1>1. DOMAIN None = {} /\ \A t : Rows(w.insert, t) = None /\ Rows(w.put, t) = None
  BY NoRows
<1> QED BY <1>1 DEF OnlyFits, StructureFits, Fits, StructureWork, RefWork

LEMMA CreateStandardPrepares ==
  ASSUME NEW s \in Sessions, NEW c \in ClassIds, NEW y \in Years, NEW level \in Levels, CreateStandard(s, c, y, level)
  PROVE  \E w, objects : StructureOpens(s, w, objects)
<1>1. PICK row, needs : row = [year |-> y, level |-> level] /\ needs = {<<"year", y>>}
  OBVIOUS
<1>2. PICK one, new, w : one = (c :> row) /\ new = [class |-> one] /\ w = [Work EXCEPT !.insert = new, !.needs = needs]
  OBVIOUS
<1>3. BeginWith(s, w, stored \cup {})
  BY <1>1, <1>2 DEF CreateStandard, Begin, BeginStoring
<1>4. /\ w.insert = new /\ w.update = None /\ w.put = None /\ w.drop = None /\ w.tell = {} /\ w.state = "open"
      /\ WorkShape(w)
  BY <1>2 DEF Work, Idle, WorkShape
<1>5. Rows(w.insert, "class") = one /\ \A t \in {"notice", "section", "subject", "year"} : Rows(w.insert, t) = None
  BY <1>2, <1>4 DEF Rows
<1>6. DOMAIN None = {} /\ \A t : Rows(w.update, t) = None /\ Rows(w.put, t) = None
  BY <1>4, NoRows
<1>7. DOMAIN one = {c} /\ one[c] = row /\ row \in Class
  BY <1>1, <1>2, OneOf DEF Class
<1>8. OnlyFits(w, {}) /\ StructureFits(w) /\ StructureWork(w)
  BY <1>4, <1>5, <1>6, <1>7 DEF OnlyFits, StructureFits, Fits, StructureWork, RefWork
<1> QED BY <1>3, <1>4, <1>8 DEF StructureOpens, Opens

LEMMA UpdateStandardPrepares ==
  ASSUME NEW s \in Sessions, NEW c \in ClassIds, NEW y \in Years, NEW level \in Levels, UpdateStandard(s, c, y, level)
  PROVE  \E w, objects : StructureOpens(s, w, objects)
<1>1. PICK row, needs : row = [year |-> y, level |-> level] /\ needs = {<<"year", y>>}
  OBVIOUS
<1>2. PICK cols, one, up : cols = Changed(db["class"][c], row) /\ one = (c :> cols) /\ up = [class |-> one]
  OBVIOUS
<1>3. PICK w : w = [Work EXCEPT !.update = up, !.needs = needs]
  OBVIOUS
<1>4. BeginWith(s, w, stored \cup {})
  BY <1>1, <1>2, <1>3 DEF UpdateStandard, Begin, BeginStoring, Sets
<1>5. /\ w.insert = None /\ w.update = up /\ w.put = None /\ w.drop = None /\ w.tell = {} /\ w.state = "open"
      /\ WorkShape(w)
  BY <1>3 DEF Work, Idle, WorkShape
<1>6. Rows(w.update, "class") = one /\ \A t \in {"notice", "section", "subject", "year"} : Rows(w.update, t) = None
  BY <1>2, <1>5 DEF Rows
<1>7. DOMAIN row = {"year", "level"} /\ row["year"] = y /\ row["level"] = level
  BY <1>1
<1>8. Fitting(Class, cols)
  BY <1>2, <1>7, ChangedIs, ClassFits
<1>9. \A k \in DOMAIN one : Fitting(Class, one[k])
  <2>1. DOMAIN one = {c} /\ one[c] = cols
    BY <1>2, OneOf
  <2> QED BY <1>8, <2>1
<1>10. OnlyFits(w, {}) /\ StructureFits(w) /\ StructureWork(w)
  BY <1>5, <1>6, <1>9, PlainWork
<1> QED BY <1>4, <1>5, <1>10 DEF StructureOpens, Opens

LEMMA DeleteStandardPrepares ==
  ASSUME NEW s \in Sessions, NEW c \in ClassIds, DeleteStandard(s, c)
  PROVE  \E w, objects : StructureOpens(s, w, objects)
<1>1. PICK row, gone, subjects : row = [of |-> WholeSchool] /\ gone = [class |-> {c}] /\ subjects = SubjectsOf(c)
  OBVIOUS
<1>2. PICK all, up : all = [k \in subjects |-> Changed(db["subject"][k], row)] /\ up = [subject |-> all]
  OBVIOUS
<1>3. PICK w : w = [Work EXCEPT !.drop = gone, !.update = up]
  OBVIOUS
<1>4. BeginWith(s, w, stored \cup {})
  BY <1>1, <1>2, <1>3 DEF DeleteStandard, Begin, BeginStoring, SetsAll
<1>5. /\ w.insert = None /\ w.update = up /\ w.put = None /\ w.tell = {} /\ w.state = "open"
      /\ WorkShape(w)
  BY <1>3 DEF Work, Idle, WorkShape
<1>6. Rows(w.update, "subject") = all /\ \A t \in {"notice", "section", "class", "year"} : Rows(w.update, t) = None
  BY <1>2, <1>5 DEF Rows
<1>7. DOMAIN row = {"of"} /\ row["of"] = WholeSchool
  BY <1>1
<1>8. ASSUME NEW k \in DOMAIN all
      PROVE  Fitting(SubjectRow, all[k]) /\ ("of" \in DOMAIN all[k] => all[k].of = WholeSchool)
  <2>1. PICK cols : cols = all[k] /\ cols = Changed(db["subject"][k], row)
    BY <1>2, <1>8
  <2>2. DOMAIN cols \subseteq {"of"} /\ \A x \in DOMAIN cols : cols[x] = WholeSchool
    BY <1>7, <2>1, ChangedIs
  <2>3. Fitting(SubjectRow, cols)
    BY <2>2, SubjectFits
  <2> QED BY <2>1, <2>2, <2>3
<1>9. DOMAIN None = {} /\ \A t : Rows(w.insert, t) = None /\ Rows(w.put, t) = None
  BY <1>5, NoRows
<1>10. OnlyFits(w, {}) /\ StructureFits(w)
  BY <1>5, <1>6, <1>8, <1>9 DEF OnlyFits, StructureFits, Fits
<1>11. StructureWork(w)
  BY <1>5, <1>6, <1>8, <1>9 DEF StructureWork, RefWork, Linked
<1> QED BY <1>4, <1>5, <1>10, <1>11 DEF StructureOpens, Opens

(* What a reference of a subject to a class needs.                         *)
LEMMA ClassNeeded ==
  ASSUME NEW of \in OfClass \cup {WholeSchool}, NEW w, w.needs = {of} \ {WholeSchool}, NEW S
  PROVE  Linked(of, "class", {WholeSchool}, S \cup {need[2] : need \in {n \in w.needs : n[1] = "class"}})
<1>1. CASE of = WholeSchool
  BY <1>1 DEF Linked
<1>2. CASE of # WholeSchool
  <2>1. of = <<"class", of[2]>> /\ of[1] = "class"
    BY <1>2 DEF OfClass
  <2>2. of \in {n \in w.needs : n[1] = "class"}
    BY <1>2, <2>1
  <2> QED BY <2>1, <2>2 DEF Linked
<1> QED BY <1>1, <1>2

LEMMA CreateSubjectPrepares ==
  ASSUME NEW s \in Sessions, NEW k \in Codes, NEW of \in OfClass \cup {WholeSchool}, CreateSubject(s, k, of)
  PROVE  \E w, objects : StructureOpens(s, w, objects)
<1>1. PICK row, needs : row = [of |-> of] /\ needs = {of} \ {WholeSchool}
  OBVIOUS
<1>2. PICK one, new, w : one = (k :> row) /\ new = [subject |-> one] /\ w = [Work EXCEPT !.insert = new, !.needs = needs]
  OBVIOUS
<1>3. BeginWith(s, w, stored \cup {})
  BY <1>1, <1>2 DEF CreateSubject, Begin, BeginStoring
<1>4. /\ w.insert = new /\ w.update = None /\ w.put = None /\ w.drop = None /\ w.tell = {} /\ w.state = "open"
      /\ WorkShape(w) /\ w.needs = needs
  BY <1>2 DEF Work, Idle, WorkShape
<1>5. Rows(w.insert, "subject") = one /\ \A t \in {"notice", "section", "class", "year"} : Rows(w.insert, t) = None
  BY <1>2, <1>4 DEF Rows
<1>6. DOMAIN None = {} /\ \A t : Rows(w.update, t) = None /\ Rows(w.put, t) = None
  BY <1>4, NoRows
<1>7. DOMAIN one = {k} /\ one[k] = row /\ row \in SubjectRow /\ row["of"] = of
  BY <1>1, <1>2, OneOf DEF SubjectRow
<1>8. Linked(of, "class", {WholeSchool}, DOMAIN Rows(w.insert, "class") \cup {need[2] : need \in {n \in w.needs : n[1] = "class"}})
  BY <1>1, <1>4, ClassNeeded
<1>9. StructureWork(w)
  BY <1>4, <1>5, <1>6, <1>7, <1>8 DEF StructureWork, RefWork
<1>10. OnlyFits(w, {}) /\ StructureFits(w)
  BY <1>4, <1>5, <1>6, <1>7 DEF OnlyFits, StructureFits, Fits
<1> QED BY <1>3, <1>4, <1>9, <1>10 DEF StructureOpens, Opens

LEMMA UpdateSubjectPrepares ==
  ASSUME NEW s \in Sessions, NEW k \in Codes, NEW of \in OfClass \cup {WholeSchool}, UpdateSubject(s, k, of)
  PROVE  \E w, objects : StructureOpens(s, w, objects)
<1>1. PICK row, needs : row = [of |-> of] /\ needs = {of} \ {WholeSchool}
  OBVIOUS
<1>2. PICK cols, one, up : cols = Changed(db["subject"][k], row) /\ one = (k :> cols) /\ up = [subject |-> one]
  OBVIOUS
<1>3. PICK w : w = [Work EXCEPT !.update = up, !.needs = needs]
  OBVIOUS
<1>4. BeginWith(s, w, stored \cup {})
  BY <1>1, <1>2, <1>3 DEF UpdateSubject, Begin, BeginStoring, Sets
<1>5. /\ w.insert = None /\ w.update = up /\ w.put = None /\ w.drop = None /\ w.tell = {} /\ w.state = "open"
      /\ WorkShape(w) /\ w.needs = needs
  BY <1>3 DEF Work, Idle, WorkShape
<1>6. Rows(w.update, "subject") = one /\ \A t \in {"notice", "section", "class", "year"} : Rows(w.update, t) = None
  BY <1>2, <1>5 DEF Rows
<1>7. DOMAIN row = {"of"} /\ row["of"] = of
  BY <1>1
<1>8. DOMAIN cols \subseteq {"of"} /\ \A x \in DOMAIN cols : cols[x] = of
  BY <1>2, <1>7, ChangedIs
<1>9. Fitting(SubjectRow, cols)
  BY <1>8, SubjectFits
<1>10. DOMAIN one = {k} /\ one[k] = cols
  BY <1>2, OneOf
<1>11. DOMAIN None = {} /\ \A t : Rows(w.insert, t) = None /\ Rows(w.put, t) = None
  BY <1>5, NoRows
<1>12. Linked(of, "class", {WholeSchool}, {} \cup {need[2] : need \in {n \in w.needs : n[1] = "class"}})
  BY <1>1, <1>5, ClassNeeded
<1>13. Linked(of, "class", {WholeSchool}, {need[2] : need \in {n \in w.needs : n[1] = "class"}})
  BY <1>12 DEF Linked
<1>14. "of" \in DOMAIN cols => cols.of = of
  BY <1>8
<1>15. StructureWork(w)
  BY <1>5, <1>6, <1>10, <1>11, <1>13, <1>14 DEF StructureWork, RefWork
<1>16. OnlyFits(w, {}) /\ StructureFits(w)
  BY <1>5, <1>6, <1>9, <1>10, <1>11 DEF OnlyFits, StructureFits, Fits
<1> QED BY <1>4, <1>5, <1>15, <1>16 DEF StructureOpens, Opens

LEMMA CreateSectionPrepares ==
  ASSUME NEW s \in Sessions, NEW c \in ClassIds, NEW y \in Years, NEW name \in Sections, CreateSection(s, c, y, name)
  PROVE  \E w, objects : StructureOpens(s, w, objects)
<1>1. PICK class, k, needs : class = <<"class", c>> /\ k = <<c, y, name>> /\ needs = {class}
  OBVIOUS
<1>2. PICK row, one, new, w : /\ row = [of |-> class, active |-> TRUE] /\ one = (k :> row) /\ new = [section |-> one]
                              /\ w = [Work EXCEPT !.insert = new, !.needs = needs]
  OBVIOUS
<1>3. BeginWith(s, w, stored \cup {})
  BY <1>1, <1>2 DEF CreateSection, Begin, BeginStoring
<1>4. /\ w.insert = new /\ w.update = None /\ w.put = None /\ w.drop = None /\ w.tell = {} /\ w.state = "open"
      /\ WorkShape(w) /\ w.needs = needs
  BY <1>2 DEF Work, Idle, WorkShape
<1>5. Rows(w.insert, "section") = one /\ \A t \in {"notice", "subject", "class", "year"} : Rows(w.insert, t) = None
  BY <1>2, <1>4 DEF Rows
<1>6. DOMAIN None = {} /\ \A t : Rows(w.update, t) = None /\ Rows(w.put, t) = None
  BY <1>4, NoRows
<1>7. k \in SectionKey /\ k[1] = c /\ class \in OfClass /\ class[1] = "class" /\ class[2] = c
  BY <1>1 DEF SectionKey, OfClass
<1>8. DOMAIN one = {k} /\ one[k] = row /\ row["of"] = class /\ row["active"] = TRUE
  BY <1>2, OneOf
<1>9. row \in StructureSection
  BY <1>2, <1>7 DEF StructureSection
<1>10. class \in {n \in w.needs : n[1] = "class"}
  BY <1>1, <1>4, <1>7
<1>11. Linked(class, "class", {}, DOMAIN Rows(w.insert, "class") \cup {need[2] : need \in {n \in w.needs : n[1] = "class"}})
  BY <1>1, <1>7, <1>10 DEF Linked
<1>12. StructureWork(w)
  BY <1>1, <1>4, <1>5, <1>6, <1>7, <1>8, <1>11 DEF StructureWork, RefWork
<1>13. OnlyFits(w, {}) /\ StructureFits(w)
  BY <1>4, <1>5, <1>6, <1>7, <1>8, <1>9 DEF OnlyFits, StructureFits, Fits
<1> QED BY <1>3, <1>4, <1>12, <1>13 DEF StructureOpens, Opens

LEMMA UpdateSectionPrepares ==
  ASSUME NEW s \in Sessions, NEW k, NEW active \in BOOLEAN, UpdateSection(s, k, active)
  PROVE  \E w, objects : StructureOpens(s, w, objects)
<1>1. PICK row, cols, one, up : /\ row = [active |-> active] /\ cols = Changed(db["section"][k], row) /\ one = (k :> cols)
                                /\ up = [section |-> one]
  OBVIOUS
<1>3. PICK w : w = [Work EXCEPT !.update = up]
  OBVIOUS
<1>4. BeginWith(s, w, stored \cup {})
  BY <1>1, <1>3 DEF UpdateSection, Begin, BeginStoring, Sets
<1>5. /\ w.insert = None /\ w.update = up /\ w.put = None /\ w.drop = None /\ w.tell = {} /\ w.state = "open"
      /\ WorkShape(w)
  BY <1>3 DEF Work, Idle, WorkShape
<1>6. Rows(w.update, "section") = one /\ \A t \in {"notice", "subject", "class", "year"} : Rows(w.update, t) = None
  BY <1>1, <1>5 DEF Rows
<1>7. DOMAIN row = {"active"} /\ row["active"] = active
  BY <1>1
<1>8. DOMAIN cols \subseteq {"active"} /\ \A x \in DOMAIN cols : cols[x] = active
  BY <1>1, <1>7, ChangedIs
<1>9. Fitting(StructureSection, cols)
  BY <1>8, SectionFits
<1>10. DOMAIN one = {k} /\ one[k] = cols /\ "of" \notin DOMAIN cols
  BY <1>1, <1>8, OneOf
<1>11. DOMAIN None = {} /\ \A t : Rows(w.insert, t) = None /\ Rows(w.put, t) = None
  BY <1>5, NoRows
<1>12. StructureWork(w)
  BY <1>5, <1>6, <1>10, <1>11 DEF StructureWork, RefWork
<1>13. OnlyFits(w, {}) /\ StructureFits(w)
  BY <1>5, <1>6, <1>9, <1>10, <1>11 DEF OnlyFits, StructureFits, Fits
<1> QED BY <1>4, <1>5, <1>12, <1>13 DEF StructureOpens, Opens

LEMMA DeleteRowPrepares ==
  ASSUME NEW s \in Sessions, NEW t, NEW k, DeleteRow(s, t, k)
  PROVE  \E w, objects : StructureOpens(s, w, objects)
<1>1. PICK gone, w : gone = (t :> {k}) /\ w = [Work EXCEPT !.drop = gone]
  OBVIOUS
<1>2. BeginWith(s, w, stored \cup {})
  BY <1>1 DEF DeleteRow, Begin, BeginStoring
<1>3. w.insert = None /\ w.update = None /\ w.put = None /\ w.tell = {} /\ w.state = "open" /\ WorkShape(w)
  BY <1>1 DEF Work, Idle, WorkShape
<1>4. DOMAIN None = {} /\ \A x : Rows(w.update, x) = None
  BY <1>3, NoRows
<1>5. OnlyFits(w, {}) /\ StructureFits(w) /\ StructureWork(w)
  BY <1>3, <1>4, PlainWork
<1> QED BY <1>2, <1>3, <1>5 DEF StructureOpens, Opens

(* The class each class is copied to.                                      *)
LEMMA TargetsAre ==
  ASSUME StructureInv, NEW from, NEW to, NEW what, NEW id \in [Levels -> ClassIds], NEW target,
         target = CopyTargets(from, to, what, id)
  PROVE  \A c \in DOMAIN target :
            /\ target[c] \in ClassIds
            /\ ClassAt(to, db.class[c].level) = {} => \E level \in Levels : target[c] = id[level]
<1>1. PICK set : set = {c \in ClassesOf(from) : ClassAt(to, db.class[c].level) # {} \/ "standards" \in what}
  OBVIOUS
<1>2. target = [c \in set |-> IF ClassAt(to, db.class[c].level) = {} THEN id[db.class[c].level]
                              ELSE CHOOSE k \in ClassAt(to, db.class[c].level) : TRUE]
  BY <1>1 DEF CopyTargets
<1>3. ASSUME NEW c \in set
      PROVE  /\ target[c] \in ClassIds
             /\ ClassAt(to, db.class[c].level) = {} => \E level \in Levels : target[c] = id[level]
  <2>1. PICK level, found : level = db.class[c].level /\ found = ClassAt(to, level)
    OBVIOUS
  <2>2. target[c] = IF found = {} THEN id[level] ELSE CHOOSE k \in found : TRUE
    BY <1>2, <1>3, <2>1
  <2>3. level \in Levels
    <3>1. c \in Keys("class")
      BY <1>1, <1>3 DEF ClassesOf
    <3>2. db["class"][c] \in Class
      BY <3>1 DEF StructureInv, StructureTyped, TableInv, Table
    <3> QED BY <2>1, <3>2 DEF Class
  <2>4. found \subseteq ClassIds
    BY <2>1 DEF ClassAt, StructureInv, StructureTyped, TableInv, Table
  <2>5. found # {} => (CHOOSE k \in found : TRUE) \in found
    OBVIOUS
  <2> QED BY <2>1, <2>2, <2>3, <2>4, <2>5
<1> QED BY <1>2, <1>3

LEMMA CopyPrepares ==
  ASSUME StructureInv, NEW s \in Sessions, NEW from \in Years, NEW to \in Years, NEW what,
         NEW id \in [Levels -> ClassIds], CopyStructure(s, from, to, what, id)
  PROVE  \E w, objects : StructureOpens(s, w, objects)
<1>1. PICK target : target = CopyTargets(from, to, what, id) /\ CopyInto(s, from, to, what, id, target)
  BY DEF CopyStructure
<1>2. \A c \in DOMAIN target :
         /\ target[c] \in ClassIds
         /\ ClassAt(to, db.class[c].level) = {} => \E level \in Levels : target[c] = id[level]
  BY <1>1, TargetsAre
<1>3. PICK made, sections, subjects :
         /\ made = {c \in DOMAIN target : ClassAt(to, db.class[c].level) = {}}
         /\ sections = IF "sections" \notin what THEN {}
                       ELSE UNION {{<<target[c], to, k[3]>> : k \in SectionsOf(c, from)} : c \in DOMAIN target}
         /\ subjects = IF "subjects" \notin what THEN {}
                       ELSE UNION {SubjectsOf(c) \ SubjectsOf(target[c]) : c \in DOMAIN target}
  OBVIOUS
<1>4. PICK classrows, sectionrows, subjectrows, needs :
         /\ classrows = [k \in {target[c] : c \in made} |-> [year |-> to, level |-> CHOOSE level \in Levels : id[level] = k]]
         /\ sectionrows = [k \in sections \ Keys("section") |-> [of |-> <<"class", k[1]>>, active |-> TRUE]]
         /\ subjectrows = [k \in subjects |-> [of |-> <<"class", target[db.subject[k].of[2]]>>]]
         /\ needs = {<<"year", to>>} \cup {<<"class", target[c]>> : c \in DOMAIN target \ made}
  OBVIOUS
<1>5. PICK new, w : /\ new = [class |-> classrows, section |-> sectionrows, subject |-> subjectrows]
                    /\ w = [Work EXCEPT !.insert = new, !.needs = needs]
  OBVIOUS
<1>6. BeginWith(s, w, stored \cup {})
  BY <1>1, <1>3, <1>4, <1>5 DEF CopyInto, Begin, BeginStoring
<1>7. /\ w.insert = new /\ w.update = None /\ w.put = None /\ w.drop = None /\ w.tell = {} /\ w.state = "open"
      /\ WorkShape(w) /\ w.needs = needs
  BY <1>5 DEF Work, Idle, WorkShape
<1>8. /\ Rows(w.insert, "class") = classrows /\ Rows(w.insert, "section") = sectionrows
      /\ Rows(w.insert, "subject") = subjectrows
      /\ \A t \in {"notice", "year"} : Rows(w.insert, t) = None
  BY <1>5, <1>7 DEF Rows
<1>9. DOMAIN None = {} /\ \A t : Rows(w.update, t) = None /\ Rows(w.put, t) = None
  BY <1>7, NoRows
<1>10. ASSUME NEW k \in DOMAIN classrows PROVE k \in ClassIds /\ classrows[k] \in Class
  <2>1. PICK c \in made : k = target[c]
    BY <1>4, <1>10
  <2>2. PICK level : level = CHOOSE l \in Levels : id[l] = k
    OBVIOUS
  <2>3. level \in Levels
    <3>1. \E l \in Levels : id[l] = k
      BY <1>2, <1>3, <2>1
    <3> QED BY <2>2, <3>1
  <2>4. classrows[k] = [year |-> to, level |-> level]
    BY <1>4, <1>10, <2>2
  <2>5. k \in ClassIds
    BY <1>2, <1>3, <2>1
  <2> QED BY <2>3, <2>4, <2>5 DEF Class
<1>11. PICK back : back = DOMAIN Rows(w.insert, "class") \cup {need[2] : need \in {n \in w.needs : n[1] = "class"}}
  OBVIOUS
<1>12. \A c \in DOMAIN target : target[c] \in back
  <2>1. SUFFICES ASSUME NEW c \in DOMAIN target PROVE target[c] \in back
    OBVIOUS
  <2>2. CASE c \in made
    BY <1>4, <1>8, <1>11, <2>2
  <2>3. CASE c \notin made
    <3>1. PICK need : need = <<"class", target[c]>>
      OBVIOUS
    <3>2. need \in needs /\ need[1] = "class" /\ need[2] = target[c]
      BY <1>4, <2>1, <2>3, <3>1
    <3>3. need \in {n \in w.needs : n[1] = "class"}
      BY <1>7, <3>2
    <3> QED BY <1>11, <3>2, <3>3
  <2> QED BY <2>2, <2>3
<1>13. ASSUME NEW k \in DOMAIN sectionrows
       PROVE  /\ k \in SectionKey /\ sectionrows[k] \in StructureSection /\ sectionrows[k].of = <<"class", k[1]>>
              /\ Linked(sectionrows[k].of, "class", {}, back)
  <2>1. k \in sections
    BY <1>4, <1>13
  <2>2. PICK c \in DOMAIN target : \E j \in SectionsOf(c, from) : k = <<target[c], to, j[3]>>
    BY <1>3, <2>1
  <2>3. PICK j \in SectionsOf(c, from) : k = <<target[c], to, j[3]>>
    BY <2>2
  <2>4. j \in SectionKey
    BY DEF SectionsOf, StructureInv, StructureTyped, TableInv, Table
  <2>5. j[3] \in Sections
    BY <2>4 DEF SectionKey
  <2>6. k \in SectionKey /\ k[1] = target[c]
    BY <1>2, <2>2, <2>3, <2>5 DEF SectionKey
  <2>7. PICK o : o = <<"class", k[1]>>
    OBVIOUS
  <2>8. o \in OfClass /\ o[2] = k[1]
    BY <1>2, <2>2, <2>6, <2>7 DEF OfClass
  <2>9. sectionrows[k] = [of |-> o, active |-> TRUE]
    BY <1>4, <1>13, <2>7
  <2>10. sectionrows[k] \in StructureSection /\ sectionrows[k].of = o
    BY <2>8, <2>9 DEF StructureSection
  <2>11. Linked(o, "class", {}, back)
    BY <1>12, <2>2, <2>6, <2>7, <2>8 DEF Linked
  <2> QED BY <2>6, <2>7, <2>10, <2>11
<1>14. ASSUME NEW k \in DOMAIN subjectrows
       PROVE  k \in Codes /\ subjectrows[k] \in SubjectRow /\ Linked(subjectrows[k].of, "class", {WholeSchool}, back)
  <2>1. k \in subjects
    BY <1>4, <1>14
  <2>2. PICK c \in DOMAIN target : k \in SubjectsOf(c)
    BY <1>3, <2>1
  <2>3. k \in Keys("subject") /\ db.subject[k].of = <<"class", c>>
    BY <2>2 DEF SubjectsOf
  <2>4. k \in Codes
    BY <2>3 DEF StructureInv, StructureTyped, TableInv, Table
  <2>5. db.subject[k].of[2] = c
    BY <2>3
  <2>6. PICK o : o = <<"class", target[c]>>
    OBVIOUS
  <2>7. o \in OfClass /\ o[2] = target[c]
    BY <1>2, <2>2, <2>6 DEF OfClass
  <2>8. subjectrows[k] = [of |-> o]
    BY <1>4, <1>14, <2>5, <2>6
  <2>9. subjectrows[k] \in SubjectRow /\ subjectrows[k].of = o
    BY <2>7, <2>8 DEF SubjectRow
  <2>10. Linked(o, "class", {WholeSchool}, back)
    BY <1>12, <2>2, <2>6, <2>7 DEF Linked
  <2> QED BY <2>4, <2>9, <2>10
<1>15. StructureWork(w)
  BY <1>7, <1>8, <1>9, <1>11, <1>13, <1>14 DEF StructureWork, RefWork
<1>16. OnlyFits(w, {}) /\ StructureFits(w)
  BY <1>7, <1>8, <1>9, <1>10, <1>13, <1>14 DEF OnlyFits, StructureFits, Fits
<1> QED BY <1>6, <1>7, <1>15, <1>16 DEF StructureOpens, Opens

(* The handlers of the structure preserve its invariant.                   *)
LEMMA StructureBegin ==
  ASSUME Shape, StructureInv, NEW s \in Sessions, StructureStep(s)
  PROVE  StructureInv' /\ Shape' /\ area' = area
<1>1. PICK w, objects : StructureOpens(s, w, objects)
  BY CreateStandardPrepares, UpdateStandardPrepares, DeleteStandardPrepares, CreateSubjectPrepares, UpdateSubjectPrepares,
     CreateSectionPrepares, UpdateSectionPrepares, DeleteRowPrepares, CopyPrepares DEF StructureStep
<1>2. BeginWith(s, w, objects) /\ WorkShape(w) /\ w.state = "open" /\ StructureWork(w) /\ StructureFits(w)
  BY <1>1 DEF StructureOpens, Opens
<1>3. Shape' /\ tx' = [q \in Sessions |-> IF q = s THEN w ELSE tx[q]] /\ UNCHANGED <<area, db>>
  BY <1>2, BeginShape
<1>4. TableStays("class", ClassIds, Class) /\ TableStays("section", SectionKey, StructureSection)
  BY <1>2, TableBegin DEF StructureInv, StructureTyped, StructureFits
<1>5. TableStays("subject", Codes, SubjectRow) /\ TableStays("year", Years, YearRow)
  BY <1>2, TableBegin DEF StructureInv, StructureTyped, StructureFits
<1>6. StructureTyped'
  BY <1>4, <1>5 DEF TableStays, StructureTyped, TableInv, Fits
<1>7. OnlyInv({})'
  BY <1>1, <1>2, OnlyBegin DEF StructureInv, StructureOpens
<1>8. ASSUME NEW q \in Sessions PROVE StructureWork(tx[q])'
  <2>1. PICK v : v = tx'[q] /\ StructureWork(v)
    BY <1>2, <1>3 DEF StructureInv
  <2>2. StructureWork(v)'
    BY <2>1 DEF StructureWork, RefWork, Linked, Rows
  <2> QED BY <2>1, <2>2
<1>9. RefInv("section", "class", {})' /\ RefInv("subject", "class", {WholeSchool})'
  BY <1>3 DEF StructureInv, RefInv, Keys, Linked
<1> QED BY <1>3, <1>6, <1>7, <1>8, <1>9 DEF StructureInv, Keys

(* The end of a request preserves the invariant of the structure.          *)
LEMMA StructureEnd ==
  ASSUME Shape, StructureInv, NEW s \in Sessions, EndOfRequest(s)
  PROVE  StructureInv'
<1>1. DOMAIN db' = DOMAIN db /\ \A t \in {"class", "section", "subject", "year"} : t \in DOMAIN db
  BY OnlyCommits DEF StructureInv
<1>2. TableStays("class", ClassIds, Class)
  BY <1>1, TableEnd DEF StructureInv, StructureTyped
<1>3. TableStays("section", SectionKey, StructureSection)
  BY <1>1, TableEnd DEF StructureInv, StructureTyped
<1>4. TableStays("subject", Codes, SubjectRow)
  BY <1>1, TableEnd DEF StructureInv, StructureTyped
<1>5. TableStays("year", Years, YearRow)
  BY <1>1, TableEnd DEF StructureInv, StructureTyped
<1>6. StructureTyped'
  BY <1>2, <1>3, <1>4, <1>5 DEF TableStays, StructureTyped, TableInv, Fits
<1>7. OnlyInv({})'
  BY OnlyEnd DEF StructureInv
<1>8. PICK w : w = tx[s] /\ StructureWork(w)
  BY DEF StructureInv
<1>9. \A k \in Keys("class") : "of" \notin DOMAIN db["class"][k]
  BY DEF StructureInv, StructureTyped, TableInv, Table, Class
<1>10. Cascades(w, "section", "class") /\ Cascades(w, "subject", "class")
  BY <1>1, <1>9, RootsCascade
<1>11. \A k \in Keys("section") : "of" \in DOMAIN db["section"][k]
  BY DEF StructureInv, StructureTyped, TableInv, Table, StructureSection
<1>12. \A k \in Keys("subject") : "of" \in DOMAIN db["subject"][k]
  BY DEF StructureInv, StructureTyped, TableInv, Table, SubjectRow
<1>13. RefInv("section", "class", {})'
  BY <1>1, <1>8, <1>10, <1>11, RefEnd DEF StructureInv, StructureWork
<1>14. RefInv("subject", "class", {WholeSchool})'
  BY <1>1, <1>8, <1>10, <1>12, RefEnd DEF StructureInv, StructureWork
<1>15. ASSUME NEW k \in Keys("section")' PROVE db'["section"][k].of = <<"class", k[1]>>
  <2>1. CASE Commit(s)
    <3>1. PICK f : f = Flushed(w, "section") /\ db'["section"] = f
      BY <1>1, <1>8, <2>1, CommitShape
    <3>2. PICK new, cols : new = Rows(w.insert, "section") /\ cols = Rows(w.update, "section")
      OBVIOUS
    <3>3. \/ k \in DOMAIN new /\ f[k] = new[k]
          \/ k \in Keys("section") /\ k \in DOMAIN cols /\ f[k] = Over(db["section"][k], cols[k])
          \/ k \in Keys("section") /\ f[k] = db["section"][k]
      <4>1. Rows(w.put, "section") = None /\ k \in DOMAIN Flushed(w, "section")
        BY <1>8, <1>15, <3>1 DEF StructureWork, RefWork, Keys
      <4> QED BY <3>1, <3>2, <4>1, FlushNoPut
    <3>4. CASE k \in DOMAIN new /\ f[k] = new[k]
      BY <1>8, <3>1, <3>2, <3>4 DEF StructureWork
    <3>5. CASE k \in Keys("section") /\ k \in DOMAIN cols /\ f[k] = Over(db["section"][k], cols[k])
      <4>1. "of" \notin DOMAIN cols[k] /\ "of" \in DOMAIN db["section"][k]
        BY <1>8, <1>11, <3>2, <3>5 DEF StructureWork
      <4>2. Over(db["section"][k], cols[k])["of"] = db["section"][k]["of"]
        BY <4>1, OverIs
      <4> QED BY <3>1, <3>5, <4>2 DEF StructureInv
    <3>6. CASE k \in Keys("section") /\ f[k] = db["section"][k]
      BY <3>1, <3>6 DEF StructureInv
    <3> QED BY <3>3, <3>4, <3>5, <3>6
  <2>2. CASE ~Commit(s)
    <3>1. db'["section"] = db["section"]
      BY <1>1, <2>2, OnlyCommits
    <3> QED BY <1>15, <3>1 DEF StructureInv, Keys
  <2> QED BY <2>1, <2>2
<1>16. ASSUME NEW q \in Sessions PROVE StructureWork(tx[q])'
  <2>1. PICK v : v = tx'[q]
    OBVIOUS
  <2>2. StructureWork(v)
    <3>1. CASE q # s /\ v = tx[q]
      BY <3>1 DEF StructureInv
    <3>2. CASE v.insert = None /\ v.put = None /\ v.update = None
      BY <3>2, RefWorkEnds, NoRows DEF StructureWork
    <3> QED BY <2>1, <3>1, <3>2, WorksAtEnd
  <2>3. StructureWork(v)'
    BY <2>2 DEF StructureWork, RefWork, Linked, Rows
  <2> QED BY <2>1, <2>3
<1> QED BY <1>1, <1>6, <1>7, <1>13, <1>14, <1>15, <1>16 DEF StructureInv

LEMMA StructureSame == ASSUME Unchanged, StructureInv PROVE StructureInv'
<1>1. db' = db /\ tx' = tx /\ \A t : Keys(t)' = Keys(t)
  BY GeneralSame DEF Unchanged
<1>2. StructureTyped' /\ OnlyInv({})'
  BY GeneralSame DEF StructureInv, StructureTyped
<1>3. ASSUME NEW q \in Sessions PROVE StructureWork(tx[q])'
  <2>1. PICK v : v = tx'[q] /\ StructureWork(v)
    BY <1>1 DEF StructureInv
  <2>2. StructureWork(v)'
    BY <1>1, <2>1 DEF StructureWork, RefWork, Linked, Rows
  <2> QED BY <2>1, <2>2
<1>4. RefInv("section", "class", {})' /\ RefInv("subject", "class", {WholeSchool})'
  BY <1>1 DEF StructureInv, RefInv, Linked
<1> QED BY <1>1, <1>2, <1>3, <1>4 DEF StructureInv

LEMMA StructureStays ==
  ASSUME area = "structure", Shape, StructureInv, [CampusNext]_vars
  PROVE  area' = "structure" /\ Shape' /\ StructureInv'
<1>1. ASSUME NEW s \in Sessions, Handle(s) PROVE area' = area /\ Shape' /\ StructureInv'
  BY <1>1, AreaOf, StructureBegin DEF Handle
<1>2. ASSUME NEW s \in Sessions, EndOfRequest(s) PROVE area' = area /\ Shape' /\ StructureInv'
  BY <1>2, WorksAtEnd, StructureEnd
<1>3. Unchanged => Shape' /\ StructureInv'
  BY StructureSame, GeneralSame
<1> QED BY <1>1, <1>2, <1>3, StepIs

YearsAtStart == [y \in Years |-> [active |-> FALSE]]
StructureStarts == Starts("structure", [class |-> None, section |-> None, subject |-> None, year |-> YearsAtStart])

LEMMA StructureStart == StructureStarts => Shape /\ StructureInv /\ area = "structure"
<1> SUFFICES ASSUME StructureStarts PROVE Shape /\ StructureInv /\ area = "structure"
  OBVIOUS
<1>1. PICK tables : tables = [class |-> None, section |-> None, subject |-> None, year |-> YearsAtStart]
  OBVIOUS
<1>2. /\ DOMAIN tables = {"class", "section", "subject", "year"} /\ tables["year"] = YearsAtStart
      /\ \A t \in {"class", "section", "subject"} : tables[t] = None
  BY <1>1
<1>3. "notice" \notin DOMAIN tables /\ Starts("structure", tables)
  BY <1>1, <1>2 DEF StructureStarts
<1>4. /\ Shape /\ area = "structure" /\ DOMAIN db = DOMAIN tables \cup {"notice"}
      /\ \A t \in DOMAIN tables : db[t] = tables[t]
      /\ db["notice"] = None /\ \A s \in Sessions : tx[s] = Idle
  BY <1>3, StartIs
<1>5. \A t \in {"class", "section", "subject"} : db[t] = None /\ Keys(t) = {}
  BY <1>2, <1>4, NoRows DEF Keys
<1>6. TableInv("class", ClassIds, Class) /\ TableInv("section", SectionKey, StructureSection) /\ TableInv("subject", Codes, SubjectRow)
  BY <1>4, <1>5, EmptyTable
<1>7. TableInv("year", Years, YearRow)
  <2>1. db["year"] = [y \in Years |-> [active |-> FALSE]]
    BY <1>2, <1>4 DEF YearsAtStart
  <2>2. Table("year", Years, YearRow)
    BY <2>1 DEF Table, Keys, YearRow
  <2>3. Fits(Idle, "year", Years, YearRow)
    BY IdleIs, IdleFits
  <2> QED BY <1>4, <2>2, <2>3 DEF TableInv
<1>8. OnlyInv({})
  BY <1>4, EmptyHeads
<1>9. StructureWork(Idle)
  BY IdleIs, RefWorkEnds, NoRows DEF StructureWork
<1> QED BY <1>2, <1>4, <1>5, <1>6, <1>7, <1>8, <1>9 DEF StructureInv, StructureTyped, RefInv

(* What is shown of the structure agrees with what is validated.           *)
LEMMA StructureFollows ==
  ASSUME area = "structure", StructureInv
  PROVE  YearsTypeOK /\ StructureViewsAgree /\ \A n \in Keys("notice") : FALSE
<1>1. YearsTypeOK
  BY DEF StructureInv, StructureTyped, TableInv, YearsTypeOK, StructureSection, SubjectRow
<1>2. \A k \in Keys("section") : k[1] \in Keys("class")
  <2>1. SUFFICES ASSUME NEW k \in Keys("section") PROVE k[1] \in Keys("class")
    OBVIOUS
  <2>2. PICK o : o = db["section"][k].of
    OBVIOUS
  <2>3. o = <<"class", k[1]>> /\ Linked(o, "class", {}, Keys("class"))
    BY <2>1, <2>2 DEF StructureInv, RefInv
  <2>4. o[2] = k[1]
    BY <2>3
  <2> QED BY <2>3, <2>4 DEF Linked
<1>3. \A k \in Keys("subject") : db.subject[k].of = WholeSchool \/ db.subject[k].of[2] \in Keys("class")
  BY DEF StructureInv, RefInv, Linked
<1>4. ASSUME NEW y
      PROVE  /\ Validation(y).valid <=> /\ DOMAIN StructureTree(y) # {}
                                        /\ \A c \in ClassesOf(y) : StructureTree(y)[c].subjects # {}
             /\ \A c \in ClassesOf(y) : StructureTree(y)[c].sections = {} => c \in Validation(y).bare
  <2>1. /\ DOMAIN StructureTree(y) = ClassesOf(y)
        /\ \A c \in ClassesOf(y) : StructureTree(y)[c] = [subjects |-> SubjectsOf(c), sections |-> SectionsOf(c, y)]
    BY DEF StructureTree
  <2>2. \A c \in ClassesOf(y) : StructureTree(y)[c].subjects = SubjectsOf(c) /\ StructureTree(y)[c].sections = SectionsOf(c, y)
    BY <2>1
  <2>3. Validation(y).valid <=> ClassesOf(y) # {} /\ \A c \in ClassesOf(y) : SubjectsOf(c) # {}
    BY Zenon DEF Validation
  <2>4. Validation(y).bare = {c \in ClassesOf(y) : \A k \in SectionsOf(c, y) : ~db.section[k].active}
    BY Zenon DEF Validation
  <2>5. \A c \in ClassesOf(y) : SectionsOf(c, y) = {} => c \in Validation(y).bare
    BY <2>4
  <2> QED BY <2>1, <2>2, <2>3, <2>5
<1>5. StructureViewsAgree
  BY <1>2, <1>3, <1>4 DEF StructureViewsAgree
<1>6. \A n \in Keys("notice") : FALSE
  BY DEF StructureInv, OnlyInv
<1> QED BY <1>1, <1>5, <1>6

-----------------------------------------------------------------------------
(***************************************************************************)
(* Every table holds finitely many rows, as a request adds finitely many.  *)
(***************************************************************************)
FewRows(w, t) == IsFiniteSet(DOMAIN Rows(w.insert, t)) /\ IsFiniteSet(DOMAIN Rows(w.put, t))
FewInv(t) == IsFiniteSet(Keys(t)) /\ \A s \in Sessions : FewRows(tx[s], t)

LEMMA FewNone == ASSUME NEW w, w.insert = None, w.put = None, NEW t PROVE FewRows(w, t)
BY NoRows, FS_EmptySet DEF FewRows

LEMMA FewOne == ASSUME NEW k, NEW row PROVE IsFiniteSet(DOMAIN (k :> row))
<1>1. DOMAIN (k :> row) = {k}
  BY OneOf
<1> QED BY <1>1, FS_Singleton

LEMMA FewBegin ==
  ASSUME Shape, NEW t, FewInv(t), NEW s \in Sessions, NEW w, NEW objects, BeginWith(s, w, objects), FewRows(w, t)
  PROVE  FewInv(t)'
<1>1. db' = db /\ \A q \in Sessions : tx'[q] = IF q = s THEN w ELSE tx[q]
  BY DEF Shape, BeginWith
<1>2. IsFiniteSet(Keys(t))'
  BY <1>1 DEF FewInv, Keys
<1>3. ASSUME NEW q \in Sessions PROVE FewRows(tx[q], t)'
  <2>1. PICK v : v = tx'[q] /\ FewRows(v, t)
    BY <1>1 DEF FewInv
  <2>2. FewRows(v, t)'
    BY <2>1 DEF FewRows, Rows
  <2> QED BY <2>1, <2>2
<1> QED BY <1>2, <1>3 DEF FewInv

LEMMA FewEnd ==
  ASSUME Shape, NEW t \in DOMAIN db, t # "notice", FewInv(t), NEW s \in Sessions, EndOfRequest(s)
  PROVE  FewInv(t)'
<1>1. ASSUME Commit(s) PROVE IsFiniteSet(DOMAIN db'[t])
  <2>1. db'[t] = Flushed(tx[s], t)
    BY <1>1, CommitShape
  <2>2. PICK A, B, C : /\ A = Keys(t) /\ B = DOMAIN Rows(tx[s].insert, t) /\ C = DOMAIN Rows(tx[s].put, t)
                       /\ IsFiniteSet(A) /\ IsFiniteSet(B) /\ IsFiniteSet(C)
    BY DEF FewInv, FewRows
  <2>3. DOMAIN db'[t] \subseteq (A \cup B) \cup C
    BY <2>1, <2>2, FlushedDomain
  <2>4. IsFiniteSet(A \cup B)
    BY <2>2, FS_Union
  <2>5. IsFiniteSet((A \cup B) \cup C)
    BY <2>2, <2>4, FS_Union
  <2> QED BY <2>3, <2>5, FS_Subset
<1>2. IsFiniteSet(Keys(t))'
  BY <1>1, OnlyCommits DEF FewInv, Keys
<1>3. ASSUME NEW q \in Sessions PROVE FewRows(tx[q], t)'
  <2>1. PICK v : v = tx'[q]
    OBVIOUS
  <2>2. FewRows(v, t)
    BY <2>1, WorksAtEnd, FewNone DEF FewInv
  <2>3. FewRows(v, t)'
    BY <2>2 DEF FewRows, Rows
  <2> QED BY <2>1, <2>3
<1> QED BY <1>2, <1>3 DEF FewInv

LEMMA FewSame == ASSUME Unchanged, NEW t, FewInv(t) PROVE FewInv(t)'
<1>1. db' = db /\ tx' = tx
  BY DEF Unchanged
<1>2. ASSUME NEW q \in Sessions PROVE FewRows(tx[q], t)'
  <2>1. PICK v : v = tx'[q] /\ FewRows(v, t)
    BY <1>1 DEF FewInv
  <2>2. FewRows(v, t)'
    BY <2>1 DEF FewRows, Rows
  <2> QED BY <2>1, <2>2
<1> QED BY <1>1, <1>2 DEF FewInv, Keys

LEMMA FewStart == ASSUME NEW t, db[t] = None, \A s \in Sessions : tx[s] = Idle PROVE FewInv(t)
<1>1. FewRows(Idle, t)
  BY IdleIs, FewNone
<1>2. IsFiniteSet(Keys(t))
  BY NoRows, FS_EmptySet DEF Keys
<1> QED BY <1>1, <1>2 DEF FewInv

(* Of finitely many numbers one is the greatest.                           *)
LEMMA Greatest ==
  ASSUME NEW S, IsFiniteSet(S), S \subseteq Nat, S # {}
  PROVE  Max(S) \in S /\ \A y \in S : y <= Max(S)
<1> DEFINE Top0(T) == \E x \in T : \A y \in T : x >= y
           Bad == {T \in SUBSET S : T # {} /\ ~Top0(T)}
<1>1. ASSUME Bad # {} PROVE FALSE
  <2>1. PICK T \in Bad : \A V \in SUBSET T : V # T => V \notin Bad
    <3>1. Bad \in SUBSET SUBSET S
      OBVIOUS
    <3> HIDE DEF Bad
    <3> QED BY <1>1, <3>1, Smallest
  <2>2. PICK x : x \in T
    BY <2>1
  <2>3. T \subseteq Nat
    BY <2>1
  <2>4. CASE T \ {x} = {}
    <3>1. \A y \in T : x >= y
      BY <2>2, <2>3, <2>4
    <3> QED BY <2>1, <2>2, <3>1
  <2>5. CASE T \ {x} # {}
    <3>1. T \ {x} \in SUBSET T /\ T \ {x} # T /\ T \ {x} \in SUBSET S
      BY <2>1, <2>2
    <3>2. Top0(T \ {x})
      BY <2>1, <2>5, <3>1
    <3>3. PICK m \in T \ {x} : \A y \in T \ {x} : m >= y
      BY <3>2
    <3>4. CASE m >= x
      <4>1. \A y \in T : m >= y
        BY <3>3, <3>4
      <4> QED BY <2>1, <3>3, <4>1
    <3>5. CASE ~(m >= x)
      <4>1. \A y \in T : x >= y
        BY <2>2, <2>3, <3>3, <3>5
      <4> QED BY <2>1, <2>2, <4>1
    <3> QED BY <3>4, <3>5
  <2> QED BY <2>4, <2>5
<1>2. PICK x \in S : \A y \in S : x >= y
  BY <1>1
<1>3. Max(S) \in S /\ \A y \in S : Max(S) >= y
  BY <1>2 DEF Max
<1> QED BY <1>3

-----------------------------------------------------------------------------
(***************************************************************************)
(* The best attempt of a student is the best there is.                     *)
(***************************************************************************)
LEMMA TriesFew ==
  ASSUME NEW s \in Sessions, QuizStep(s)
  PROVE  \E w : BeginWith(s, w, stored \cup {}) /\ FewRows(w, "attempt")
<1>1. ASSUME NEW total, CreateQuiz(s, total) PROVE \E w : BeginWith(s, w, stored \cup {}) /\ FewRows(w, "attempt")
  <2>1. PICK one, new, w : /\ one = ("q" :> [total |-> total, locked |-> FALSE]) /\ new = [quiz |-> one]
                           /\ w = [Work EXCEPT !.insert = new]
    OBVIOUS
  <2>2. BeginWith(s, w, stored \cup {})
    BY <1>1, <2>1 DEF CreateQuiz, Begin, BeginStoring
  <2>3. w.insert = new /\ w.put = None
    BY <2>1 DEF Work, Idle
  <2>4. FewRows(w, "attempt")
    BY <2>1, <2>3, NoRows, FS_EmptySet DEF FewRows, Rows
  <2> QED BY <2>2, <2>4
<1>2. ASSUME NEW columns, UpdateQuiz(s, columns) PROVE \E w : BeginWith(s, w, stored \cup {}) /\ FewRows(w, "attempt")
  <2>1. PICK w : w = [Work EXCEPT !.update = [quiz |-> Sets("quiz", "q", columns)]]
    OBVIOUS
  <2>2. BeginWith(s, w, stored \cup {})
    BY <1>2, <2>1 DEF UpdateQuiz, Begin, BeginStoring
  <2>3. w.insert = None /\ w.put = None
    BY <2>1 DEF Work, Idle
  <2> QED BY <2>2, <2>3, FewNone
<1>3. ASSUME NEW k, NEW marks, AddQuestion(s, k, marks)
      PROVE  \E w : BeginWith(s, w, stored \cup {}) /\ FewRows(w, "attempt")
  <2>1. PICK one, new, up : /\ one = (k :> [of |-> <<"quiz", "q">>, marks |-> marks]) /\ new = [question |-> one]
                            /\ up = [quiz |-> Recount((k :> marks) @@ MarksNow)]
    OBVIOUS
  <2>2. PICK w : w = [Work EXCEPT !.insert = new, !.update = up, !.needs = {<<"quiz", "q">>}]
    OBVIOUS
  <2>3. BeginWith(s, w, stored \cup {})
    BY <1>3, <2>1, <2>2 DEF AddQuestion, Begin, BeginStoring
  <2>4. w.insert = new /\ w.put = None
    BY <2>2 DEF Work, Idle
  <2>5. FewRows(w, "attempt")
    BY <2>1, <2>4, NoRows, FS_EmptySet DEF FewRows, Rows
  <2> QED BY <2>3, <2>5
<1>4. ASSUME NEW k, NEW marks, UpdateQuestion(s, k, marks)
      PROVE  \E w : BeginWith(s, w, stored \cup {}) /\ FewRows(w, "attempt")
  <2>1. PICK up : up = [question |-> Sets("question", k, [marks |-> marks]), quiz |-> Recount((k :> marks) @@ MarksNow)]
    OBVIOUS
  <2>2. PICK w : w = [Work EXCEPT !.update = up]
    OBVIOUS
  <2>3. BeginWith(s, w, stored \cup {})
    BY <1>4, <2>1, <2>2 DEF UpdateQuestion, Begin, BeginStoring
  <2>4. w.insert = None /\ w.put = None
    BY <2>2 DEF Work, Idle
  <2> QED BY <2>3, <2>4, FewNone
<1>5. ASSUME NEW k, DeleteQuestion(s, k) PROVE \E w : BeginWith(s, w, stored \cup {}) /\ FewRows(w, "attempt")
  <2>1. PICK gone, up : /\ gone = [question |-> {k}]
                        /\ up = [quiz |-> Recount(Restrict(MarksNow, Keys("question") \ {k}))]
    OBVIOUS
  <2>2. PICK w : w = [Work EXCEPT !.drop = gone, !.update = up]
    OBVIOUS
  <2>3. BeginWith(s, w, stored \cup {})
    BY <1>5, <2>1, <2>2 DEF DeleteQuestion, Begin, BeginStoring
  <2>4. w.insert = None /\ w.put = None
    BY <2>2 DEF Work, Idle
  <2> QED BY <2>3, <2>4, FewNone
<1>6. ASSUME NEW n, NEW p, NEW right, AttemptQuiz(s, n, p, right)
      PROVE  \E w : BeginWith(s, w, stored \cup {}) /\ FewRows(w, "attempt")
  <2>1. PICK sum, total : sum = Sum(MarksNow) /\ total = IF db.quiz["q"].total = 0 THEN sum ELSE db.quiz["q"].total
    OBVIOUS
  <2>2. PICK row : row = [of |-> <<"quiz", "q">>, student |-> p, total |-> total, score |-> Sum(Restrict(MarksNow, right))]
    OBVIOUS
  <2>3. PICK one, new, w : /\ one = (n :> row) /\ new = [attempt |-> one]
                           /\ w = [Work EXCEPT !.insert = new, !.needs = {<<"quiz", "q">>}]
    OBVIOUS
  <2>4. BeginWith(s, w, stored \cup {})
    BY <1>6, <2>1, <2>2, <2>3 DEF AttemptQuiz, Begin, BeginStoring
  <2>5. w.insert = new /\ w.put = None
    BY <2>3 DEF Work, Idle
  <2>6. Rows(w.insert, "attempt") = one /\ Rows(w.put, "attempt") = None
    BY <2>3, <2>5, NoRows DEF Rows
  <2>7. FewRows(w, "attempt")
    BY <2>3, <2>6, NoRows, FS_EmptySet, FewOne DEF FewRows
  <2> QED BY <2>4, <2>7
<1>7. ASSUME EndYear(s) PROVE \E w : BeginWith(s, w, stored \cup {}) /\ FewRows(w, "attempt")
  <2>1. PICK w : w = [Work EXCEPT !.update = [year |-> "y" :> [active |-> FALSE]]]
    OBVIOUS
  <2>2. BeginWith(s, w, stored \cup {})
    BY <1>7, <2>1 DEF EndYear, Begin, BeginStoring
  <2>3. w.insert = None /\ w.put = None
    BY <2>1 DEF Work, Idle
  <2> QED BY <2>2, <2>3, FewNone
<1> QED BY <1>1, <1>2, <1>3, <1>4, <1>5, <1>6, <1>7, Zenon DEF QuizStep

LEMMA TriesStay ==
  ASSUME area = "quizzes", Shape, QuizInv, FewInv("attempt"), [CampusNext]_vars PROVE FewInv("attempt")'
<1>1. ASSUME NEW s \in Sessions, Handle(s) PROVE FewInv("attempt")'
  <2>1. QuizStep(s)
    BY <1>1, AreaOf DEF Handle
  <2>2. PICK w : BeginWith(s, w, stored \cup {}) /\ FewRows(w, "attempt")
    BY <2>1, TriesFew
  <2> QED BY <2>2, FewBegin
<1>2. ASSUME NEW s \in Sessions, EndOfRequest(s) PROVE FewInv("attempt")'
  <2>1. "attempt" \in DOMAIN db
    BY DEF QuizInv
  <2> QED BY <1>2, <2>1, FewEnd
<1> QED BY <1>1, <1>2, StepIs, FewSame

LEMMA TriesStart ==
  ASSUME NEW year, Starts("quizzes", [quiz |-> None, question |-> None, attempt |-> None, year |-> year])
  PROVE  FewInv("attempt")
<1>1. PICK tables : tables = [quiz |-> None, question |-> None, attempt |-> None, year |-> year]
  OBVIOUS
<1>2. "notice" \notin DOMAIN tables /\ Starts("quizzes", tables) /\ "attempt" \in DOMAIN tables /\ tables["attempt"] = None
  BY <1>1
<1>3. db["attempt"] = None /\ \A s \in Sessions : tx[s] = Idle
  BY <1>2, StartIs
<1> QED BY <1>3, FewStart

LEMMA BestFollows ==
  ASSUME QuizInv, FewInv("attempt"), NEW p
  PROVE  \A n \in AttemptsOf(p) : db.attempt[n].score <= BestScore(p)
<1>1. \A n \in Keys("attempt") : db["attempt"][n].score \in Nat
  BY DEF QuizInv, QuizTyped, TableInv, Table, Attempt
<1>2. PICK key, K : /\ K = AttemptsOf(p) /\ key = [n \in K |-> db["attempt"][n].score]
  OBVIOUS
<1>3. K \subseteq Keys("attempt") /\ IsFiniteSet(K)
  BY <1>2, FS_Subset DEF AttemptsOf, FewInv
<1>4. PICK T : T = {key[n] : n \in K} /\ IsFiniteSet(T)
  BY <1>3, KeysFinite
<1>5. PICK S : S = {0} \cup T
  OBVIOUS
<1>6. IsFiniteSet(S) /\ S # {} /\ S \subseteq Nat
  <2>1. IsFiniteSet({0})
    BY FS_Singleton
  <2>2. IsFiniteSet(S)
    BY <1>4, <1>5, <2>1, FS_Union
  <2> QED BY <1>1, <1>2, <1>3, <1>4, <1>5, <2>2
<1>7. BestScore(p) = Max(S)
  <2>1. {db.attempt[n].score : n \in AttemptsOf(p)} = T
    BY <1>2, <1>4
  <2> QED BY <1>5, <2>1 DEF BestScore
<1>8. \A y \in S : y <= Max(S)
  BY <1>6, Greatest
<1> QED BY <1>2, <1>4, <1>5, <1>7, <1>8


-----------------------------------------------------------------------------
(***************************************************************************)
(* The classroom: no topic outlives its chapter, and no content its topic. *)
(***************************************************************************)
LinksWork(w) == RefWork(w, "topic", "chapter", {}) /\ RefWork(w, "item", "topic", {})
LinksInv ==
    /\ RefInv("topic", "chapter", {}) /\ RefInv("item", "topic", {})
    /\ \A s \in Sessions : LinksWork(tx[s])
    /\ \A t \in LessonTables : FewInv(t)
LinksOpens(s, w, objects) ==
    BeginWith(s, w, objects) /\ LinksWork(w) /\ \A t \in LessonTables : FewRows(w, t)

(* Work that inserts nothing and sets no reference.                        *)
LEMMA LinksNone ==
  ASSUME NEW w, w.insert = None, w.put = None, Rows(w.update, "topic") = None, Rows(w.update, "item") = None
  PROVE  LinksWork(w) /\ \A t \in LessonTables : FewRows(w, t)
BY FewNone, NoRows DEF LinksWork, RefWork

LEMMA LinksChapter ==
  ASSUME NEW s, NEW c, NEW class, CreateChapter(s, c, class) PROVE \E w, objects : LinksOpens(s, w, objects)
<1>1. PICK one, new, w : /\ one = (c :> [class |-> class, locked |-> FALSE]) /\ new = [chapter |-> one]
                         /\ w = [Work EXCEPT !.insert = new]
  OBVIOUS
<1>2. BeginWith(s, w, stored \cup {})
  BY <1>1 DEF CreateChapter, Begin, BeginStoring
<1>3. w.insert = new /\ w.put = None /\ w.update = None /\ w.drop = None
  BY <1>1 DEF Work, Idle
<1>4. /\ Rows(w.insert, "chapter") = one /\ Rows(w.insert, "topic") = None /\ Rows(w.insert, "item") = None
      /\ \A t : Rows(w.put, t) = None /\ Rows(w.update, t) = None
  BY <1>1, <1>3, NoRows DEF Rows
<1>5. \A t \in LessonTables : FewRows(w, t)
  BY <1>1, <1>4, NoRows, FS_EmptySet, FewOne DEF FewRows, LessonTables
<1>6. LinksWork(w)
  BY <1>3, <1>4, NoRows DEF LinksWork, RefWork
<1> QED BY <1>2, <1>5, <1>6 DEF LinksOpens

LEMMA LinksUpdate ==
  ASSUME NEW s, NEW c, NEW locked, UpdateChapter(s, c, locked) PROVE \E w, objects : LinksOpens(s, w, objects)
<1>1. PICK one, up, w : /\ one = Sets("chapter", c, [locked |-> locked]) /\ up = [chapter |-> one]
                        /\ w = [Work EXCEPT !.update = up]
  OBVIOUS
<1>2. BeginWith(s, w, stored \cup {})
  BY <1>1 DEF UpdateChapter, Begin, BeginStoring
<1>3. w.insert = None /\ w.put = None /\ w.update = up
  BY <1>1 DEF Work, Idle
<1>4. Rows(w.update, "topic") = None /\ Rows(w.update, "item") = None
  BY <1>1, <1>3 DEF Rows
<1> QED BY <1>2, <1>3, <1>4, LinksNone DEF LinksOpens

LEMMA LinksRemove ==
  ASSUME NEW s, NEW t, NEW k, Remove(s, t, k) PROVE \E w, objects : LinksOpens(s, w, objects)
<1>1. PICK gone, w : gone = (t :> {k}) /\ w = [Work EXCEPT !.drop = gone]
  OBVIOUS
<1>2. BeginWith(s, w, stored \cup {})
  BY <1>1 DEF Remove, Begin, BeginStoring
<1>3. w.insert = None /\ w.put = None /\ w.update = None
  BY <1>1 DEF Work, Idle
<1> QED BY <1>2, <1>3, NoRows, LinksNone DEF LinksOpens

LEMMA LinksUpload ==
  ASSUME NEW s, NEW n, UploadContent(s, n) PROVE \E w, objects : LinksOpens(s, w, objects)
<1>1. BeginWith(s, Work, stored \cup {<<"content", n>>})
  BY DEF UploadContent, BeginStoring
<1> QED BY <1>1, WorkIs, NoRows, LinksNone DEF LinksOpens

LEMMA LinksYear ==
  ASSUME NEW s, EndYear(s) PROVE \E w, objects : LinksOpens(s, w, objects)
<1>1. PICK up, w : up = [year |-> "y" :> [active |-> FALSE]] /\ w = [Work EXCEPT !.update = up]
  OBVIOUS
<1>2. BeginWith(s, w, stored \cup {})
  BY <1>1 DEF EndYear, Begin, BeginStoring
<1>3. w.insert = None /\ w.put = None /\ w.update = up
  BY <1>1 DEF Work, Idle
<1>4. Rows(w.update, "topic") = None /\ Rows(w.update, "item") = None
  BY <1>1, <1>3 DEF Rows
<1> QED BY <1>2, <1>3, <1>4, LinksNone DEF LinksOpens

LEMMA LinksTopic ==
  ASSUME NEW s, NEW i, NEW c, CreateTopic(s, i, c) PROVE \E w, objects : LinksOpens(s, w, objects)
<1>1. PICK o, need, needs : o = <<"chapter", c>> /\ need = o /\ needs = {need}
  OBVIOUS
<1>2. PICK row, one, new, w : /\ row = [of |-> o] /\ one = (i :> row) /\ new = [topic |-> one]
                              /\ w = [Work EXCEPT !.insert = new, !.needs = needs]
  OBVIOUS
<1>3. BeginWith(s, w, stored \cup {})
  BY <1>1, <1>2 DEF CreateTopic, Begin, BeginStoring
<1>4. w.insert = new /\ w.put = None /\ w.update = None /\ w.drop = None /\ w.needs = needs
  BY <1>2 DEF Work, Idle
<1>5. /\ Rows(w.insert, "topic") = one /\ Rows(w.insert, "chapter") = None /\ Rows(w.insert, "item") = None
      /\ \A t : Rows(w.put, t) = None /\ Rows(w.update, t) = None
  BY <1>2, <1>4, NoRows DEF Rows
<1>6. \A t \in LessonTables : FewRows(w, t)
  BY <1>2, <1>5, NoRows, FS_EmptySet, FewOne DEF FewRows, LessonTables
<1>7. DOMAIN one = {i} /\ one[i].of = o
  <2>1. one = (i :> row) /\ row.of = o
    BY <1>2
  <2>2. DOMAIN one = {i} /\ one[i] = row
    BY <2>1, OneOf
  <2> QED BY <2>1, <2>2
<1>8. c \in {n[2] : n \in {n \in w.needs : n[1] = "chapter"}}
  <2>1. need \in {n \in w.needs : n[1] = "chapter"} /\ need[2] = c
    BY <1>1, <1>4
  <2> QED BY <2>1
<1>9. Linked(o, "chapter", {}, DOMAIN Rows(w.insert, "chapter") \cup {n[2] : n \in {n \in w.needs : n[1] = "chapter"}})
  <2>1. o[2] = c /\ o = <<"chapter", o[2]>>
    BY <1>1
  <2> QED BY <1>8, <2>1 DEF Linked
<1>10. LinksWork(w)
  BY <1>4, <1>5, <1>7, <1>9, NoRows DEF LinksWork, RefWork
<1> QED BY <1>3, <1>6, <1>10 DEF LinksOpens

LEMMA LinksContent ==
  ASSUME NEW s, NEW k, NEW i, NEW class, AddContent(s, k, i, class) PROVE \E w, objects : LinksOpens(s, w, objects)
<1>1. PICK o, need, needs : o = <<"topic", i>> /\ need = o /\ needs = {need}
  OBVIOUS
<1>2. PICK row, one, new, w : /\ row = [of |-> o, class |-> class] /\ one = (k :> row) /\ new = [item |-> one]
                              /\ w = [Work EXCEPT !.insert = new, !.needs = needs]
  OBVIOUS
<1>3. BeginWith(s, w, stored \cup {})
  BY <1>1, <1>2 DEF AddContent, Begin, BeginStoring
<1>4. w.insert = new /\ w.put = None /\ w.update = None /\ w.drop = None /\ w.needs = needs
  BY <1>2 DEF Work, Idle
<1>5. /\ Rows(w.insert, "item") = one /\ Rows(w.insert, "chapter") = None /\ Rows(w.insert, "topic") = None
      /\ \A t : Rows(w.put, t) = None /\ Rows(w.update, t) = None
  BY <1>2, <1>4, NoRows DEF Rows
<1>6. \A t \in LessonTables : FewRows(w, t)
  BY <1>2, <1>5, NoRows, FS_EmptySet, FewOne DEF FewRows, LessonTables
<1>7. DOMAIN one = {k} /\ one[k].of = o
  <2>1. one = (k :> row) /\ row.of = o
    BY <1>2
  <2>2. DOMAIN one = {k} /\ one[k] = row
    BY <2>1, OneOf
  <2> QED BY <2>1, <2>2
<1>8. i \in {n[2] : n \in {n \in w.needs : n[1] = "topic"}}
  <2>1. need \in {n \in w.needs : n[1] = "topic"} /\ need[2] = i
    BY <1>1, <1>4
  <2> QED BY <2>1
<1>9. Linked(o, "topic", {}, DOMAIN Rows(w.insert, "topic") \cup {n[2] : n \in {n \in w.needs : n[1] = "topic"}})
  <2>1. o[2] = i /\ o = <<"topic", o[2]>>
    BY <1>1
  <2> QED BY <1>8, <2>1 DEF Linked
<1>10. LinksWork(w)
  BY <1>4, <1>5, <1>7, <1>9, NoRows DEF LinksWork, RefWork
<1> QED BY <1>3, <1>6, <1>10 DEF LinksOpens

LEMMA LinksBegin ==
  ASSUME Shape, LinksInv, NEW s \in Sessions, ClassroomStep(s) \/ ContentStep(s) PROVE LinksInv'
<1>1. PICK w, objects : LinksOpens(s, w, objects)
  BY LinksChapter, LinksUpdate, LinksRemove, LinksTopic, LinksContent, LinksUpload, LinksYear, Zenon
  DEF ClassroomStep, ContentStep
<1>2. db' = db /\ \A q \in Sessions : tx'[q] = IF q = s THEN w ELSE tx[q]
  BY <1>1 DEF LinksOpens, Shape, BeginWith
<1>3. RefInv("topic", "chapter", {})' /\ RefInv("item", "topic", {})'
  BY <1>2 DEF LinksInv, RefInv, Linked, Keys
<1>4. ASSUME NEW q \in Sessions PROVE LinksWork(tx[q])'
  <2>1. PICK v : v = tx'[q] /\ LinksWork(v)
    BY <1>1, <1>2 DEF LinksInv, LinksOpens
  <2>2. LinksWork(v)'
    BY <2>1 DEF LinksWork, RefWork, Linked, Rows
  <2> QED BY <2>1, <2>2
<1>5. ASSUME NEW t \in LessonTables PROVE FewInv(t)'
  BY <1>1, <1>5, FewBegin DEF LinksInv, LinksOpens
<1>6. \A t \in LessonTables : FewInv(t)'
  BY <1>5
<1> QED BY <1>3, <1>4, <1>6 DEF LinksInv, LessonTables

(* Below a row that goes with what it belongs to rows go as well.          *)
LEMMA ChainCascades ==
  ASSUME NEW w, NEW t \in DOMAIN db, NEW m \in DOMAIN db, NEW r \in DOMAIN db, m # r,
         \A k \in Keys(r) : "of" \notin DOMAIN db[r][k], \A k \in Keys(m) : "of" \in DOMAIN db[m][k],
         RefInv(m, r, {}), RefWork(w, m, r, {})
  PROVE  Cascades(w, t, m)
<1>1. PICK rest, mid, Z : /\ rest = UNION {{<<u, k>> : k \in Keys(u)} : u \in DOMAIN db \ {m, r}}
                          /\ mid = {<<m, k>> : k \in {j \in Keys(m) : Owner(w, m, j) \in Top(w)}}
                          /\ Z = (rest \cup mid) \cup Top(w)
  OBVIOUS
<1>2. Holds(w, Z)
  BY <1>1 DEF Holds, Top
<1>3. ASSUME NEW k \in Keys(m) PROVE Owner(w, m, k) = <<r, Owner(w, m, k)[2]>>
  <2>1. PICK o, cols : o = Owner(w, m, k) /\ cols = Rows(w.update, m)
    OBVIOUS
  <2>2. o = IF k \in DOMAIN cols /\ "of" \in DOMAIN cols[k] THEN cols[k].of ELSE db[m][k].of
    BY <2>1 DEF Owner
  <2>3. o = <<r, o[2]>>
    BY <2>1, <2>2 DEF RefWork, RefInv, Linked
  <2> QED BY <2>1, <2>3
<1>4. ASSUME NEW u \in DOMAIN db, NEW k \in Keys(u), "of" \in DOMAIN db[u][k], Owner(w, u, k) \in Z PROVE <<u, k>> \in Z
  <2>1. CASE u \notin {m, r}
    BY <1>1, <1>4, <2>1
  <2>2. CASE u = r
    BY <1>4, <2>2
  <2>3. CASE u = m
    <3>1. PICK o, x : o = Owner(w, m, k) /\ x = o[2]
      OBVIOUS
    <3>2. o = <<r, x>>
      BY <1>3, <1>4, <2>3, <3>1
    <3>3. o \notin rest
      BY <1>1, <3>2
    <3>4. o \notin mid
      BY <1>1, <3>2
    <3>5. o \in Top(w)
      BY <1>1, <1>4, <2>3, <3>1, <3>3, <3>4
    <3> QED BY <1>1, <1>4, <2>3, <3>1, <3>5
  <2> QED BY <2>1, <2>2, <2>3
<1>5. HoldsBelow(w, Z)
  BY <1>4 DEF HoldsBelow
<1>6. Dropped(w) \subseteq Z
  BY <1>2, <1>5, DroppedWithin
<1>7. ASSUME NEW u, NEW c, <<u, c>> \in Top(w) PROVE u \in DOMAIN w.drop /\ c \in w.drop[u]
  <2>1. PICK v \in DOMAIN w.drop : <<u, c>> \in {<<v, k>> : k \in w.drop[v]}
    BY <1>7 DEF Top
  <2> QED BY <2>1
<1>8. SUFFICES ASSUME NEW c, <<m, c>> \in Dropped(w), NEW k \in Keys(t), "of" \in DOMAIN db[t][k], Owner(w, t, k) = <<m, c>>
               PROVE  <<t, k>> \in Dropped(w)
  BY DEF Cascades
<1>9. <<m, c>> \in mid \/ <<m, c>> \in Top(w)
  <2>1. <<m, c>> \notin rest
    BY <1>1
  <2> QED BY <1>1, <1>6, <1>8, <2>1
<1>10. CASE <<m, c>> \in Top(w)
  BY <1>7, <1>8, <1>10, DroppedUnder
<1>11. CASE <<m, c>> \in mid
  <2>1. c \in Keys(m) /\ Owner(w, m, c) \in Top(w)
    BY <1>1, <1>11
  <2>2. PICK x : x = Owner(w, m, c)[2] /\ Owner(w, m, c) = <<r, x>>
    BY <1>3, <2>1
  <2>3. r \in DOMAIN w.drop /\ x \in w.drop[r]
    BY <1>7, <2>1, <2>2
  <2>4. "of" \in DOMAIN db[m][c]
    BY <2>1
  <2>5. \A j \in Keys(m) : "of" \in DOMAIN db[m][j] /\ Owner(w, m, j) = <<r, x>> =>
           \A i \in Keys(t) : "of" \in DOMAIN db[t][i] /\ Owner(w, t, i) = <<m, j>> => <<t, i>> \in Dropped(w)
    BY <2>3, DroppedUnder
  <2> QED BY <1>8, <2>1, <2>2, <2>4, <2>5
<1> QED BY <1>9, <1>10, <1>11

LEMMA LinksEnd ==
  ASSUME Shape, LessonsInv, LinksInv, NEW s \in Sessions, EndOfRequest(s) PROVE LinksInv'
<1>1. /\ "chapter" \in DOMAIN db /\ "topic" \in DOMAIN db /\ "item" \in DOMAIN db
      /\ \A k \in Keys("chapter") : "of" \notin DOMAIN db["chapter"][k]
      /\ \A k \in Keys("topic") : "of" \in DOMAIN db["topic"][k]
      /\ \A k \in Keys("item") : "of" \in DOMAIN db["item"][k]
  BY DEF LessonsInv, LessonsTyped, TableInv, Table, ChapterRow, TopicRow, ItemRow
<1>2. RefWork(tx[s], "topic", "chapter", {}) /\ RefWork(tx[s], "item", "topic", {})
  BY DEF LinksInv, LinksWork
<1>3. Cascades(tx[s], "topic", "chapter")
  BY <1>1, RootsCascade
<1>4. Cascades(tx[s], "item", "topic")
  BY <1>1, <1>2, ChainCascades DEF LinksInv
<1>5. RefInv("topic", "chapter", {})'
  BY <1>1, <1>2, <1>3, RefEnd DEF LinksInv
<1>6. RefInv("item", "topic", {})'
  BY <1>1, <1>2, <1>4, RefEnd DEF LinksInv
<1>7. ASSUME NEW q \in Sessions PROVE LinksWork(tx[q])'
  <2>1. PICK v : v = tx'[q]
    OBVIOUS
  <2>2. LinksWork(v)
    BY <2>1, WorksAtEnd, RefWorkEnds DEF LinksInv, LinksWork
  <2>3. LinksWork(v)'
    BY <2>2 DEF LinksWork, RefWork, Linked, Rows
  <2> QED BY <2>1, <2>3
<1>8. ASSUME NEW t \in LessonTables PROVE FewInv(t)'
  BY <1>1, <1>8, FewEnd DEF LinksInv, LessonTables
<1>9. \A t \in LessonTables : FewInv(t)'
  BY <1>8
<1> QED BY <1>5, <1>6, <1>7, <1>9 DEF LinksInv, LessonTables

LEMMA LinksSame == ASSUME Unchanged, LinksInv PROVE LinksInv'
<1>1. db' = db /\ tx' = tx
  BY DEF Unchanged
<1>2. RefInv("topic", "chapter", {})' /\ RefInv("item", "topic", {})'
  BY <1>1 DEF LinksInv, RefInv, Linked, Keys
<1>3. ASSUME NEW q \in Sessions PROVE LinksWork(tx[q])'
  <2>1. PICK v : v = tx'[q] /\ LinksWork(v)
    BY <1>1 DEF LinksInv
  <2>2. LinksWork(v)'
    BY <2>1 DEF LinksWork, RefWork, Linked, Rows
  <2> QED BY <2>1, <2>2
<1>4. ASSUME NEW t \in LessonTables PROVE FewInv(t)'
  BY <1>4, FewSame DEF LinksInv
<1>5. \A t \in LessonTables : FewInv(t)'
  BY <1>4
<1> QED BY <1>2, <1>3, <1>5 DEF LinksInv, LessonTables

LEMMA LinksStay ==
  ASSUME area = "classroom", Shape, LessonsInv, LinksInv, [CampusNext]_vars PROVE LinksInv'
<1>1. ASSUME NEW s \in Sessions, Handle(s) PROVE LinksInv'
  BY <1>1, AreaOf, LinksBegin DEF Handle
<1>2. ASSUME NEW s \in Sessions, EndOfRequest(s) PROVE LinksInv'
  BY <1>2, LinksEnd
<1> QED BY <1>1, <1>2, StepIs, LinksSame

LEMMA LinksStart ==
  ASSUME NEW year, Starts("classroom", [chapter |-> None, topic |-> None, item |-> None, year |-> year]) PROVE LinksInv
<1>1. PICK tables : tables = [chapter |-> None, topic |-> None, item |-> None, year |-> year]
  OBVIOUS
<1>2. /\ "notice" \notin DOMAIN tables /\ Starts("classroom", tables)
      /\ \A t \in LessonTables : t \in DOMAIN tables /\ tables[t] = None
  BY <1>1 DEF LessonTables
<1>3. (\A t \in LessonTables : db[t] = None) /\ \A s \in Sessions : tx[s] = Idle
  BY <1>2, StartIs
<1>4. LinksWork(Idle)
  BY IdleIs, RefWorkEnds DEF LinksWork
<1>5. Keys("topic") = {} /\ Keys("item") = {}
  BY <1>3, NoRows DEF Keys, LessonTables
<1>6. \A t \in LessonTables : FewInv(t)
  BY <1>3, FewStart
<1> QED BY <1>3, <1>4, <1>5, <1>6 DEF LinksInv, RefInv


(* The counts shown with chapters and topics are sums of counts.           *)
LEMMA TopicsSum ==
  ASSUME NEW G, IsFiniteSet(G), NEW c, \A g \in G : c[g] = TopicCount(g)
  PROVE  MapThenSumSet(TopicCount, G) = Total(c, G)
<1> DEFINE sums(it) == [s \in SUBSET G |-> IF s = {} THEN 0 ELSE TopicCount(First(s)) + it[s \ {First(s)}]]
           j == CHOOSE it : it = sums(it)
<1>1. \A s \in SUBSET G : s # {} => c[First(s)] = TopicCount(First(s))
  BY FirstIn
<1>2. \A it : Partials(c, it, G) <=> it = sums(it)
  <2> TAKE it
  <2>1. sums(it) = [s \in SUBSET G |-> IF s = {} THEN 0 ELSE c[First(s)] + it[s \ {First(s)}]]
    BY <1>1
  <2> HIDE DEF sums
  <2> QED BY <2>1 DEF Partials
<1>3. \E it : it = sums(it)
  <2> HIDE DEF sums
  <2> QED BY <1>2, PartialsExist
<1>4. j = sums(j)
  <2> HIDE DEF sums
  <2> QED BY <1>3, Zenon
<1>5. Partials(c, j, G)
  <2> HIDE DEF sums, j
  <2> QED BY <1>2, <1>4
<1>6. Total(c, G) = j[G]
  <2> HIDE DEF j
  <2> QED BY <1>5, TotalIs
<1>7. MapThenSumSet(TopicCount, G) = j[G]
  BY DEF MapThenSumSet, MapThenFoldSet, First
<1> QED BY <1>6, <1>7

LEMMA ContentSum ==
  ASSUME NEW G, IsFiniteSet(G), NEW c, \A g \in G : c[g] = ContentCount(g)
  PROVE  MapThenSumSet(ContentCount, G) = Total(c, G)
<1> DEFINE sums(it) == [s \in SUBSET G |-> IF s = {} THEN 0 ELSE ContentCount(First(s)) + it[s \ {First(s)}]]
           j == CHOOSE it : it = sums(it)
<1>1. \A s \in SUBSET G : s # {} => c[First(s)] = ContentCount(First(s))
  BY FirstIn
<1>2. \A it : Partials(c, it, G) <=> it = sums(it)
  <2> TAKE it
  <2>1. sums(it) = [s \in SUBSET G |-> IF s = {} THEN 0 ELSE c[First(s)] + it[s \ {First(s)}]]
    BY <1>1
  <2> HIDE DEF sums
  <2> QED BY <2>1 DEF Partials
<1>3. \E it : it = sums(it)
  <2> HIDE DEF sums
  <2> QED BY <1>2, PartialsExist
<1>4. j = sums(j)
  <2> HIDE DEF sums
  <2> QED BY <1>3, Zenon
<1>5. Partials(c, j, G)
  <2> HIDE DEF sums, j
  <2> QED BY <1>2, <1>4
<1>6. Total(c, G) = j[G]
  <2> HIDE DEF j
  <2> QED BY <1>5, TotalIs
<1>7. MapThenSumSet(ContentCount, G) = j[G]
  BY DEF MapThenSumSet, MapThenFoldSet, First
<1> QED BY <1>6, <1>7

(* What belongs to rows that are there is counted once, with one of them.  *)
LEMMA LinkedCount ==
  ASSUME NEW t, NEW p, RefInv(t, p, {}), IsFiniteSet(Keys(t)), IsFiniteSet(Keys(p)),
         NEW c, \A g \in Keys(p) : c[g] = Cardinality({k \in Keys(t) : db[t][k].of = <<p, g>>})
  PROVE  Total(c, Keys(p)) = Cardinality(Keys(t))
<1>1. PICK K, G : K = Keys(t) /\ G = Keys(p)
  OBVIOUS
<1>2. PICK key : key = [k \in K |-> db[t][k].of[2]]
  OBVIOUS
<1>3. ASSUME NEW k \in K PROVE key[k] \in G /\ db[t][k].of = <<p, key[k]>>
  BY <1>1, <1>2 DEF RefInv, Linked
<1>4. ASSUME NEW g \in G PROVE {k \in K : db[t][k].of = <<p, g>>} = {k \in K : key[k] = g}
  BY <1>3
<1>5. \A g \in G : c[g] = Counts(K, G, key)[g]
  BY <1>1, <1>4 DEF Counts
<1>6. Total(c, G) = Total(Counts(K, G, key), G)
  BY <1>1, <1>5, TotalSame
<1>7. Total(Counts(K, G, key), G) = Cardinality(K)
  BY <1>1, <1>3, CountBy
<1> QED BY <1>1, <1>6, <1>7

(* The counts that are shown add up to the rows there are.                 *)
LEMMA LinksFollow ==
  ASSUME area = "classroom", LessonsInv, LinksInv
  PROVE  ClassroomTypeOK /\ ClassroomViewsAgree /\ \A n \in Keys("notice") : FALSE
<1>1. \A t \in {"chapter", "topic", "item"} : IsFiniteSet(Keys(t))
  BY DEF LinksInv, FewInv, LessonTables
<1>2. MapThenSumSet(TopicCount, Keys("chapter")) = Cardinality(Keys("topic"))
  <2>1. PICK c : c = [g \in Keys("chapter") |-> TopicCount(g)]
    OBVIOUS
  <2>2. MapThenSumSet(TopicCount, Keys("chapter")) = Total(c, Keys("chapter"))
    BY <1>1, <2>1, TopicsSum
  <2>3. \A g \in Keys("chapter") : c[g] = Cardinality({k \in Keys("topic") : db["topic"][k].of = <<"chapter", g>>})
    BY <2>1 DEF TopicCount
  <2>4. Total(c, Keys("chapter")) = Cardinality(Keys("topic"))
    BY <1>1, <2>3, LinkedCount DEF LinksInv
  <2> QED BY <2>2, <2>4
<1>3. MapThenSumSet(ContentCount, Keys("topic")) = Cardinality(Keys("item"))
  <2>1. PICK c : c = [g \in Keys("topic") |-> ContentCount(g)]
    OBVIOUS
  <2>2. MapThenSumSet(ContentCount, Keys("topic")) = Total(c, Keys("topic"))
    BY <1>1, <2>1, ContentSum
  <2>3. \A g \in Keys("topic") : c[g] = Cardinality({k \in Keys("item") : db["item"][k].of = <<"topic", g>>})
    BY <2>1 DEF ContentCount, ContentOfTopic
  <2>4. Total(c, Keys("topic")) = Cardinality(Keys("item"))
    BY <1>1, <2>3, LinkedCount DEF LinksInv
  <2> QED BY <2>2, <2>4
<1>4. UNION {ContentOfClass(class) : class \in Classes} = Keys("item")
  <2>1. \A n \in Keys("item") : db["item"][n].class \in Classes
    BY DEF LessonsInv, LessonsTyped, TableInv, Table, ItemRow
  <2> QED BY <2>1 DEF ContentOfClass
<1>5. ClassroomTypeOK
  BY DEF LessonsInv, LessonsTyped, TableInv, ClassroomTypeOK, ChapterRow, TopicRow, ItemRow, Year
<1>6. \A n \in Keys("notice") : FALSE
  BY DEF LessonsInv, OnlyInv
<1> QED BY <1>2, <1>3, <1>4, <1>5, <1>6 DEF ClassroomViewsAgree


-----------------------------------------------------------------------------
(***************************************************************************)
(* The areas together.                                                     *)
(***************************************************************************)
(* A behaviour starts in one area.                                         *)
LEMMA StartArea == ASSUME NEW name, NEW tables, Starts(name, tables) PROVE area = name
BY DEF Starts

ChatStarts == Starts("chat", [conversation |-> None, message |-> None, read |-> None, reaction |-> None])

QuizStarts == Starts("quizzes", [quiz |-> None, question |-> None, attempt |-> None, year |-> ThisYear])
LessonStarts == Starts("classroom", [chapter |-> None, topic |-> None, item |-> None, year |-> ThisYear])

LEMMA StartOf ==
  ASSUME CampusInit
  PROVE  /\ area = "auth" => AuthInit
         /\ area = "chat" => ChatStarts
         /\ area = "teaching" => TeachingInit
         /\ area = "students" => StudentsInit
         /\ area = "attendance" => AttendanceInit
         /\ area = "announcements" => AnnounceStarts
         /\ area = "audience" => AudienceInit
         /\ area = "structure" => StructureStarts
         /\ area = "schedules" => \E tables : Starts("schedules", tables)
         /\ area = "quizzes" => QuizStarts
         /\ area = "classroom" => LessonStarts
<1>1. CourseworkInit => area \in {"assignments", "homework"}
  BY StartArea DEF CourseworkInit
<1>2. ExamsInit => area = "exams" \/ (area = "schedules" /\ \E tables : Starts("schedules", tables))
  BY StartArea DEF ExamsInit
<1>3. AttendanceInit => area = "attendance"
  BY StartArea DEF AttendanceInit
<1>4. ClassroomInit => (area = "classroom" /\ LessonStarts) \/ (area = "quizzes" /\ QuizStarts)
  BY StartArea DEF ClassroomInit, LessonStarts, QuizStarts
<1>5. YearsInit => area \in {"years", "grades"} \/ (area = "structure" /\ StructureStarts)
  BY StartArea DEF YearsInit, StructureStarts, YearsAtStart
<1>6. TeachingInit => area = "teaching"
  BY StartArea DEF TeachingInit
<1>7. DocumentsInit => area = "documents"
  BY StartArea DEF DocumentsInit
<1>8. MessagingInit => ChatStarts \/ (area = "announcements" /\ AnnounceStarts)
  BY StartArea DEF MessagingInit, ChatStarts, AnnounceStarts, PeopleAtStart
<1>9. ChatStarts => area = "chat"
  BY StartArea DEF ChatStarts
<1>10. AuthInit => area = "auth"
  BY StartArea DEF AuthInit
<1>11. AudienceInit => area = "audience"
  BY AudienceStart
<1>12. StudentsInit => area = "students"
  BY StartArea DEF StudentsInit
<1>13. GalleryInit => area = "gallery"
  BY StartArea DEF GalleryInit
<1> QED BY <1>1, <1>2, <1>3, <1>4, <1>5, <1>6, <1>7, <1>8, <1>9, <1>10, <1>11, <1>12, <1>13 DEF CampusInit

(* Every area has its invariant.                                           *)
LEMMA AreasApart ==
  ASSUME CampusInv
  PROVE  /\ area = "assignments" => Shape /\ AssignmentsInv
         /\ area = "homework" => Shape /\ HomeworkInv
         /\ area = "documents" => Shape /\ DocumentsInv
         /\ area = "exams" => Shape /\ ExamsInv
         /\ area = "years" => Shape /\ YearsInv
         /\ area = "grades" => Shape /\ GradesInv
         /\ area = "gallery" => Shape /\ GalleryInv
         /\ area = "audience" => Shape /\ AudienceInv
         /\ area = "schedules" => Shape /\ SchedulesInv
         /\ area = "chat" => Shape /\ ChatInv
         /\ area = "quizzes" => Shape /\ QuizInv
         /\ area = "classroom" => Shape /\ LessonsInv
         /\ area \in Others => "notice" \in DOMAIN db
BY DEF CampusInv, Without, Others

(* A behaviour stays in its area.                                          *)
LEMMA AreaKept == ASSUME CampusInv, [CampusNext]_vars PROVE area' = area
<1>1. ASSUME area = "assignments" PROVE area' = area
  BY <1>1, AreasApart, AssignmentsStay
<1>2. ASSUME area = "homework" PROVE area' = area
  BY <1>2, AreasApart, HomeworkStays
<1>3. ASSUME area = "documents" PROVE area' = area
  BY <1>3, AreasApart, DocumentsStay
<1>4. ASSUME area = "exams" PROVE area' = area
  BY <1>4, AreasApart, ExamsStay
<1>5. ASSUME area = "years" PROVE area' = area
  BY <1>5, AreasApart, YearsStay
<1>6. ASSUME area = "grades" PROVE area' = area
  BY <1>6, AreasApart, GradesStay
<1>7. ASSUME area = "gallery" PROVE area' = area
  BY <1>7, AreasApart, GalleryStays
<1>8. ASSUME area = "audience" PROVE area' = area
  BY <1>8, AreasApart, AudienceStays
<1>9. ASSUME area = "schedules" PROVE area' = area
  BY <1>9, AreasApart, SchedulesStay
<1>10. ASSUME area = "chat" PROVE area' = area
  BY <1>10, AreasApart, ChatStays
<1>11. ASSUME area = "quizzes" PROVE area' = area
  BY <1>11, AreasApart, QuizzesStay
<1>12. ASSUME area = "classroom" PROVE area' = area
  BY <1>12, AreasApart, LessonsStay
<1>13. ASSUME area \in Others PROVE area' = area
  BY <1>13, AreasApart, StepIs, OthersFrame, EndFrame DEF Framed
<1> QED BY <1>1, <1>2, <1>3, <1>4, <1>5, <1>6, <1>7, <1>8, <1>9, <1>10, <1>11, <1>12, <1>13 DEF CampusInv, Without

(* The invariant of the school: that of the campus, and of every area      *)
(* what it does not say of it.                                             *)
SchoolInv ==
    /\ CampusInv
    /\ area = "auth" => Shape /\ AuthInv
    /\ area = "chat" => DirectInv
    /\ area = "teaching" => Shape /\ TeachingInv
    /\ area = "students" => Shape /\ StudentsInv
    /\ area = "attendance" => Shape /\ AttendanceInv
    /\ area = "announcements" => Shape /\ AnnounceInv
    /\ area = "structure" => Shape /\ StructureInv
    /\ area = "schedules" => ShownInv
    /\ area = "audience" => PeopleInv
    /\ area = "quizzes" => FewInv("attempt")
    /\ area = "classroom" => LinksInv

LEMMA SchoolStarts == CampusInit => SchoolInv
<1> SUFFICES ASSUME CampusInit PROVE SchoolInv
  OBVIOUS
<1>1. CampusInv
  BY CampusStarts
<1>2. area = "chat" => DirectInv
  BY StartOf, DirectStart DEF ChatStarts
<1>3. area = "auth" => Shape /\ AuthInv
  BY StartOf, AuthStart
<1>4. area = "teaching" => Shape /\ TeachingInv
  BY StartOf, TeachingStart
<1>5. area = "students" => Shape /\ StudentsInv
  BY StartOf, StudentsStart
<1>6. area = "attendance" => Shape /\ AttendanceInv
  BY StartOf, AttendanceStart
<1>7. area = "announcements" => Shape /\ AnnounceInv
  BY StartOf, AnnounceStart
<1>8. area = "structure" => Shape /\ StructureInv
  BY StartOf, StructureStart
<1>9. area = "schedules" => ShownInv
  BY StartOf, ShownStart
<1>10. area = "audience" => PeopleInv
  BY StartOf, PeopleStart
<1>11. area = "quizzes" => FewInv("attempt")
  BY StartOf, TriesStart DEF QuizStarts
<1>12. area = "classroom" => LinksInv
  BY StartOf, LinksStart DEF LessonStarts
<1> QED BY <1>1, <1>2, <1>3, <1>4, <1>5, <1>6, <1>7, <1>8, <1>9, <1>10, <1>11, <1>12 DEF SchoolInv

LEMMA SchoolStays == SchoolInv /\ [CampusNext]_vars => SchoolInv'
<1> SUFFICES ASSUME SchoolInv, [CampusNext]_vars PROVE SchoolInv'
  OBVIOUS
<1>1. CampusInv' /\ area' = area
  BY CampusStays, AreaKept DEF SchoolInv
<1>2. area = "auth" => (Shape /\ AuthInv)'
  BY AuthStays DEF SchoolInv
<1>3. area = "chat" => DirectInv'
  BY AreasApart, DirectStays DEF SchoolInv
<1>4. area = "teaching" => (Shape /\ TeachingInv)'
  BY TeachingStays DEF SchoolInv
<1>5. area = "students" => (Shape /\ StudentsInv)'
  BY StudentsStay DEF SchoolInv
<1>6. area = "attendance" => (Shape /\ AttendanceInv)'
  BY AttendanceStays DEF SchoolInv
<1>7. area = "announcements" => (Shape /\ AnnounceInv)'
  BY AnnounceStays DEF SchoolInv
<1>8. area = "structure" => (Shape /\ StructureInv)'
  BY StructureStays DEF SchoolInv
<1>9. area = "schedules" => ShownInv'
  BY AreasApart, ShownStays DEF SchoolInv
<1>10. area = "audience" => PeopleInv'
  BY AreasApart, PeopleStay DEF SchoolInv
<1>11. area = "quizzes" => FewInv("attempt")'
  BY AreasApart, TriesStay DEF SchoolInv
<1>12. area = "classroom" => LinksInv'
  BY AreasApart, LinksStay DEF SchoolInv
<1> QED BY <1>1, <1>2, <1>3, <1>4, <1>5, <1>6, <1>7, <1>8, <1>9, <1>10, <1>11, <1>12 DEF SchoolInv

(* There is one of everything that handlers look for before they insert it.*)
LEMMA KindsFollow == SchoolInv => OneOfAKind
<1> SUFFICES ASSUME SchoolInv PROVE OneOfAKind
  OBVIOUS
<1>1. ASSUME area = "years" PROVE Cardinality(ActiveYears) <= 1
  <2>1. YearsInv
    BY <1>1, AreasApart DEF SchoolInv
  <2>2. \A y, z \in ActiveYears : y = z
    BY <2>1 DEF YearsInv, OneActive, ActiveYears, Keys
  <2> QED BY <2>2, AtMostOne
<1>2. ASSUME area = "assignments", serial, NEW a \in Assignments, NEW p \in Pupils
      PROVE  Cardinality(OfPupil(a, p)) <= 1
  <2>1. AssignmentsInv
    BY <1>2, AreasApart DEF SchoolInv
  <2>2. \A u, v \in OfPupil(a, p) : u = v
    BY <1>2, <2>1 DEF AssignmentsInv, OfPupil
  <2> QED BY <2>2, AtMostOne
<1>3. ASSUME area = "schedules", serial, NEW e \in ExamNames, NEW section \in Sections
      PROVE  Cardinality(SeriesOf(e, section)) <= 1
  <2>1. SchedulesInv
    BY <1>3, AreasApart DEF SchoolInv
  <2>2. \A x, y \in SeriesOf(e, section) : x = y
    BY <1>3, <2>1 DEF SchedulesInv, SeriesOnce, SeriesOf, Keys
  <2> QED BY <2>2, AtMostOne
<1>4. DirectOnce
  BY DirectFollows DEF SchoolInv, DirectOnce
<1>5. SectionsRegistered
  BY TeachingFollows DEF SchoolInv, SectionsRegistered
<1>6. ReviewsKept
  <2>1. ASSUME area = "documents", serial PROVE DocumentsGood
    BY <2>1, AreasApart DEF SchoolInv, DocumentsInv
  <2>2. ASSUME area = "documents", serial, NEW d \in Keys("document")
        PROVE  /\ <<"reviewed", d>> \in Keys("notice") => d \in Setting("review")
               /\ db.document[d].dated = (db.document[d].status = "approved")
    BY <2>1, <2>2 DEF DocumentsGood
  <2> QED BY <2>2 DEF ReviewsKept
<1>7. OneUse
  BY AuthFollows DEF SchoolInv, OneUse
<1>8. StudentsAgree
  BY StudentsFollow DEF SchoolInv, StudentsAgree
<1> QED BY <1>1, <1>2, <1>3, <1>4, <1>5, <1>6, <1>7, <1>8 DEF OneOfAKind

(* There is at most one active year, and, while handlers do not overlap,   *)
(* one submission of a student, one schedule of an exam and section, one   *)
(* conversation of two people, one history row of a student; every section *)
(* in use is registered, every review that was told of is on record.  A    *)
(* reset token changes one password, however requests overlap, and a code  *)
(* gives one reset token while they do not (services/academic_year.py,     *)
(* submission.py, exam_schedule.py, chat.py, student.py,                   *)
(* teacher_class_subject.py, timetable.py, document.py, auth.py).          *)
THEOREM OneOfEachKind == CampusSpec => []OneOfAKind
BY SchoolStarts, SchoolStays, KindsFollow, PTL DEF CampusSpec

-----------------------------------------------------------------------------
(* Areas whose rows are of their types already in the invariant of the     *)
(* campus.                                                                 *)
LEMMA TypesFollow == SchoolInv => CampusTypeOK
<1> SUFFICES ASSUME SchoolInv PROVE CampusTypeOK
  OBVIOUS
<1>1. CourseworkTypeOK
  BY AreasApart DEF SchoolInv, AssignmentsInv, HomeworkInv, TableInv, CourseworkTypeOK
<1>2. ExamsTypeOK
  BY AreasApart DEF SchoolInv, ExamsInv, SchedulesInv, TableInv, ExamsTypeOK
<1>3. AttendanceTypeOK
  BY AttendanceFollows DEF SchoolInv, AttendanceTypeOK
<1>4. ClassroomTypeOK
  <2>1. area = "quizzes" => ClassroomTypeOK
    BY AreasApart DEF SchoolInv, QuizInv, QuizTyped, TableInv, ClassroomTypeOK, Year
  <2>2. area = "classroom" => ClassroomTypeOK
    BY AreasApart, LinksFollow DEF SchoolInv
  <2> QED BY <2>1, <2>2 DEF ClassroomTypeOK
<1>5. YearsTypeOK
  <2>1. area = "years" => YearsTypeOK
    BY AreasApart DEF SchoolInv, YearsInv, TableInv, YearsTypeOK, YearRow
  <2>2. area = "grades" => YearsTypeOK
    BY AreasApart DEF SchoolInv, GradesInv, TableInv, YearsTypeOK
  <2>3. area = "structure" => YearsTypeOK
    BY StructureFollows DEF SchoolInv
  <2> QED BY <2>1, <2>2, <2>3 DEF YearsTypeOK
<1>6. TeachingTypeOK
  BY TeachingFollows DEF SchoolInv, TeachingTypeOK
<1>7. DocumentsTypeOK
  <2>1. SUFFICES ASSUME area = "documents" PROVE DocumentsTypeOK
    BY DEF DocumentsTypeOK
  <2>2. DocumentsInv
    BY <2>1, AreasApart DEF SchoolInv
  <2>3. Table("document", DocIds, Document)
    BY <2>2 DEF DocumentsInv, TableInv
  <2>4. Table("setting", {"review", "required"}, [value : (SUBSET DocIds) \cup (SUBSET DocTypes)])
    <3>1. ASSUME NEW key \in Keys("setting")
          PROVE  key \in {"review", "required"} /\ db["setting"][key] \in [value : (SUBSET DocIds) \cup (SUBSET DocTypes)]
      <4>1. key \in {"review", "required"} /\ db["setting"][key] \in [value : Values(key)]
        BY <2>2, <3>1 DEF DocumentsInv, SettingsTyped
      <4>2. PICK V, S : /\ V = Values(key) /\ S = (SUBSET DocIds) \cup (SUBSET DocTypes)
                        /\ V = SUBSET DocIds \/ V = SUBSET DocTypes
        BY DEF Values
      <4>3. V \subseteq S
        BY <4>2
      <4> QED BY <4>1, <4>2, <4>3
    <3> QED BY <3>1 DEF Table
  <2> QED BY <2>3, <2>4 DEF DocumentsTypeOK
<1>8. MessagingTypeOK
  <2>1. area = "chat" => MessagingTypeOK
    BY AreasApart DEF SchoolInv, ChatInv, ChatTyped, TableInv, MessagingTypeOK, ReadRow
  <2>2. area = "announcements" => MessagingTypeOK
    BY AnnounceFollows DEF SchoolInv
  <2> QED BY <2>1, <2>2 DEF MessagingTypeOK
<1>9. AuthTypeOK
  BY AuthFollows DEF SchoolInv, AuthTypeOK
<1>10. AudienceTypeOK
  BY AreasApart, PeopleFollow DEF SchoolInv, AudienceTypeOK
<1>11. StudentsTypeOK
  BY StudentsFollow DEF SchoolInv, StudentsTypeOK
<1>12. GalleryTypeOK
  BY AreasApart DEF SchoolInv, GalleryInv, TableInv, GalleryTypeOK
<1> QED BY <1>1, <1>2, <1>3, <1>4, <1>5, <1>6, <1>7, <1>8, <1>9, <1>10, <1>11, <1>12 DEF CampusTypeOK

(* Every table of every service holds rows of its type, whatever requests, *)
(* failures and background tasks there were (all services of daily school  *)
(* life, src/app/services).                                                *)
THEOREM TypesKept == CampusSpec => []CampusTypeOK
BY SchoolStarts, SchoolStays, TypesFollow, PTL DEF CampusSpec

(* The kinds of notifications there are in an area.                        *)
TrueNotice(n) ==
    \/ n[1] \in {"assignment", "homework", "announcement"} /\ n[2] \in Keys(n[1])
    \/ n[1] = "attendance" /\ History(n[2]) # {}
    \/ n[1] = "series" /\ SeriesShown(n[2])
    \/ n[1] = "uploaded" /\ n[2] \in Keys("document")
    \/ n[1] = "reviewed" /\ area = "documents" /\ n[2] \in Keys("document")
    \/ n[1] = "reviewed" /\ area # "documents" /\ db.submission[n[2]].graded
    \/ n[1] = "post" /\ n[2] \in Keys("post")
    \/ n[1] = "left" /\ \A kind \in {"access", "refresh"} : ~Accepted(n[2], kind)
    \/ n[1] = "exam"

LEMMA NoticesFollow == SchoolInv => ToldOfFacts
<1> SUFFICES ASSUME SchoolInv PROVE ToldOfFacts
  OBVIOUS
<1>1. ASSUME NEW n \in Keys("notice") PROVE TrueNotice(n)
  <2>1. CASE area = "assignments"
    <3>1. AssignmentFact(n)
      BY <2>1, AreasApart DEF SchoolInv, AssignmentsInv
    <3> QED BY <2>1, <3>1 DEF TrueNotice, AssignmentFact
  <2>2. CASE area = "homework"
    <3>1. n[1] = "homework" /\ n[2] \in Keys("homework")
      BY <2>2, AreasApart DEF SchoolInv, HomeworkInv, HeadInv, OnlyInv
    <3> QED BY <3>1 DEF TrueNotice
  <2>3. CASE area = "documents"
    <3>1. n[1] \in {"uploaded", "reviewed"} /\ n[2] \in Keys("document")
      BY <2>3, AreasApart DEF SchoolInv, DocumentsInv, HeadInv, OnlyInv
    <3> QED BY <2>3, <3>1 DEF TrueNotice
  <2>4. CASE area = "exams"
    <3>1. n[1] = "exam"
      BY <2>4, AreasApart DEF SchoolInv, ExamsInv, OnlyInv
    <3> QED BY <3>1 DEF TrueNotice
  <2>5. CASE area \in {"years", "grades", "gallery", "chat", "quizzes", "classroom"}
    <3>1. OnlyInv({})
      BY <2>5, AreasApart DEF SchoolInv, YearsInv, GradesInv, GalleryInv, ChatInv, QuizInv, LessonsInv
    <3> QED BY <3>1 DEF OnlyInv
  <2>6. CASE area = "schedules"
    <3>1. n[1] = "series" /\ SeriesShown(n[2])
      BY <2>6, AreasApart DEF SchoolInv, SchedulesInv, ShownInv, OnlyInv
    <3> QED BY <3>1 DEF TrueNotice
  <2>7. CASE area = "audience"
    <3>1. n[1] = "post" /\ n[2] \in Keys("post")
      BY <2>7, AreasApart, PeopleFollow DEF SchoolInv
    <3> QED BY <3>1 DEF TrueNotice
  <2>8. CASE area = "attendance"
    BY <2>8, AttendanceFollows DEF SchoolInv, TrueNotice
  <2>9. CASE area = "announcements"
    BY <2>9, AnnounceFollows DEF SchoolInv, TrueNotice
  <2>10. CASE area = "structure"
    BY <2>10, StructureFollows DEF SchoolInv
  <2>11. CASE area = "auth"
    BY <2>11, AuthFollows DEF SchoolInv, TrueNotice
  <2>12. CASE area \in {"teaching", "students"}
    <3>1. OnlyInv({})
      BY <2>12 DEF SchoolInv, TeachingInv, StudentsInv
    <3> QED BY <3>1 DEF OnlyInv
  <2>13. area \in {"assignments", "homework", "documents", "exams", "years", "grades", "gallery", "chat", "quizzes",
                   "classroom", "schedules", "audience", "attendance", "announcements", "structure", "auth",
                   "teaching", "students"}
    BY DEF SchoolInv, CampusInv, Without, Others
  <2> QED BY <2>1, <2>2, <2>3, <2>4, <2>5, <2>6, <2>7, <2>8, <2>9, <2>10, <2>11, <2>12, <2>13
<1> QED BY <1>1 DEF ToldOfFacts, TrueNotice, SeriesShown

(* Nobody is told of what did not happen, however handlers interleave,     *)
(* fail and commit, and whatever is deleted later: a notification of an    *)
(* assignment, a homework, an announcement, attendance, a document or a    *)
(* post names rows that are committed, one of a schedule a schedule that   *)
(* is published or gone, one of a review a graded submission, and a token  *)
(* that was told to be left is not accepted (background tasks of           *)
(* services/assignment.py, homework.py, announcement.py, attendance.py,    *)
(* exam_schedule.py, document.py, submission.py, diary.py, auth.py).       *)
THEOREM ToldTheTruth == CampusSpec => []ToldOfFacts
BY SchoolStarts, SchoolStays, NoticesFollow, PTL DEF CampusSpec

LEMMA DocumentViewsFollow == ASSUME area = "documents", DocumentsInv PROVE DocumentViewsAgree
<1>1. ASSUME NEW p \in Pupils, NEW type \in GridTypes
      PROVE  (<<p, type>> \in Missing) = (\A d \in ListForStudent(p) : db.document[d].type # type)
  <2>1. DocumentsOf(p, type) = {} <=> \A d \in ListForStudent(p) : db.document[d].type # type
    BY DEF DocumentsOf, ListForStudent
  <2>2. <<p, type>> \in Missing <=> DocumentsOf(p, type) = {}
    <3>1. PICK k : k = <<p, type>>
      OBVIOUS
    <3>2. k \in Pupils \X GridTypes /\ k[1] = p /\ k[2] = type
      BY <1>1, <3>1
    <3>3. k \in Missing <=> DocumentsOf(k[1], k[2]) = {}
      BY <3>2 DEF Missing, Lacking
    <3> QED BY <3>1, <3>2, <3>3
  <2>3. (<<p, type>> \in Missing) <=> \A d \in ListForStudent(p) : db.document[d].type # type
    BY <2>1, <2>2
  <2> DEFINE A == <<p, type>> \in Missing
             B == \A d \in ListForStudent(p) : db.document[d].type # type
  <2>4. A \in BOOLEAN
    OBVIOUS
  <2>5. B \in BOOLEAN
    BY Zenon
  <2>6. A <=> B
    BY <2>3
  <2>7. A = B
    <3> HIDE DEF A, B
    <3> QED BY <2>4, <2>5, <2>6
  <2> QED BY <2>7
<1>2. ASSUME serial, NEW p \in Pupils, NEW type \in DocTypes PROVE Cardinality(DocumentsOf(p, type)) <= 1
  <2>1. \A d, e \in DocumentsOf(p, type) : d = e
    BY <1>2 DEF DocumentsInv, DocumentsGood, DocumentsOf
  <2> QED BY <2>1, AtMostOne
<1>3. ASSUME serial, NEW p \in Pupils, NEW type \in Setting("required") PROVE RequiredOf(p)[type] # "none"
  <2>1. DocumentsOf(p, type) # {}
    BY <1>3 DEF DocumentsInv, DocumentsGood, DocumentsOf
  <2>2. PICK d : d = CHOOSE e \in DocumentsOf(p, type) : TRUE
    OBVIOUS
  <2>3. d \in DocumentsOf(p, type)
    BY <2>1, <2>2
  <2>4. db["document"][d].status # "none"
    <3>1. db["document"][d] \in Document
      BY <2>3 DEF DocumentsInv, TableInv, Table, DocumentsOf
    <3> QED BY <3>1 DEF Document, DocumentStatus
  <2>5. RequiredOf(p)[type] = db.document[d].status
    BY <1>3, <2>1, <2>2 DEF RequiredOf
  <2> QED BY <2>4, <2>5
<1> QED BY <1>1, <1>2, <1>3 DEF DocumentViewsAgree

LEMMA ViewsFollow == SchoolInv => ViewsAgree
<1> SUFFICES ASSUME SchoolInv PROVE ViewsAgree
  OBVIOUS
<1>1. AttendanceViewsAgree
  BY AttendanceFollows DEF SchoolInv, AttendanceViewsAgree
<1>2. ClassroomViewsAgree
  BY AreasApart, LinksFollow DEF SchoolInv, ClassroomViewsAgree
<1>3. StructureViewsAgree
  BY StructureFollows DEF SchoolInv, StructureViewsAgree
<1>4. TeachingViewsAgree
  BY TeachingFollows DEF SchoolInv, TeachingViewsAgree
<1>5. DocumentViewsAgree
  BY AreasApart, DocumentViewsFollow DEF SchoolInv, DocumentViewsAgree
<1>6. ToldAreListed
  BY AnnounceFollows DEF SchoolInv, ToldAreListed
<1>7. area = "exams" => \A p \in Pupils : \A e \in ExamsOfLearner(p) : p \in Distribution(e)
  BY DEF ExamsOfLearner, Distribution
<1>8. area = "schedules" => \A section \in Sections :
          ListSeries(section, TRUE) = {x \in ListSeries(section, FALSE) : db.series[x].published}
  BY DEF ListSeries
<1>9. ASSUME NEW children \in SUBSET Pupils
      PROVE  /\ ListHomework(children, "yes") \cap ListHomework(children, "no") = {}
             /\ ListHomework(children, "no") \cup ListHomework(children, "yes") = Keys("homework")
  <2>1. PICK done : done = {h \in Keys("homework") : \E p \in children : <<h, p>> \in Keys("response")}
    OBVIOUS
  <2>2. ListHomework(children, "yes") = done
    BY <2>1 DEF ListHomework
  <2>3. ListHomework(children, "no") = Keys("homework") \ done
    BY <2>1 DEF ListHomework
  <2> QED BY <2>1, <2>2, <2>3
<1>10. area = "quizzes" => \A p \in Pupils : \A n \in AttemptsOf(p) : db.attempt[n].score <= BestScore(p)
  BY AreasApart, BestFollows DEF SchoolInv
<1> QED BY <1>1, <1>2, <1>3, <1>4, <1>5, <1>6, <1>7, <1>8, <1>9, <1>10 DEF ViewsAgree

(* Two queries of one thing show the same: counts by class, subject,       *)
(* month and student add up to the attendance there is, those of chapters  *)
(* and topics to the content there is, a structure is valid just when the  *)
(* tree shows it so, whoever is told of an announcement sees it listed,    *)
(* what the grid of documents shows as missing a student does not have,    *)
(* and no attempt is better than the best (services/attendance.py,         *)
(* my_class.py, academic_structure.py, timetable.py, document.py,          *)
(* announcement.py, exam.py, homework.py).                                 *)
THEOREM ViewsKeptAlike == CampusSpec => []ViewsAgree
BY SchoolStarts, SchoolStays, ViewsFollow, PTL DEF CampusSpec
=============================================================================
