---------------------------- MODULE AdmissionProofs ----------------------------
(***************************************************************************)
(* Theorems about Admission, for every set of users, schools, roles, years *)
(* and requests: the identifiers issued, the audit of approvals and the    *)
(* warnings about namesakes, however handlers overlap, and what else holds *)
(* as long as none have.  And about RateLimit, which decides what reaches  *)
(* these and all other handlers, for every window and limit.               *)
(***************************************************************************)
EXTENDS Admission, RateLimit, TLAPS, Sums, SequenceTheorems

Fields == {"state", "next", "user", "userSeen", "audit", "profile",
           "config", "configSeen", "counter"}
Holders(t) == DOMAIN t.profile \cup t.next      \* who gets an identifier
Told(u) == \E i \in 1..Len(audit[u]) : audit[u][i].to = "ACTIVE"
Tells(t, u) == u \in DOMAIN t.audit /\ t.audit[u].to = "ACTIVE"
CounterOf(u, row) == <<KeyOf(u), row.tag>>

(* What a unit of work holds, whatever overlaps: an approval comes with    *)
(* its audit row, an identifier with an approval, a generated one with its *)
(* counter, held above what is committed, and with a locked format.        *)
Backed(t) ==
    /\ DOMAIN t.userSeen \subseteq DOMAIN user
    /\ DOMAIN t.audit \subseteq DOMAIN user
    /\ \A u \in DOMAIN t.user : t.user[u].status = "ACTIVE" => Tells(t, u)
    /\ \A u \in Holders(t) : u \in DOMAIN user /\ (Told(u) \/ Tells(t, u))
    /\ \A u, v \in Holders(t) : u = v
Numbered(t) ==
    /\ \A u \in DOMAIN t.profile : ~t.profile[u].custom =>
          /\ CounterOf(u, t.profile[u]) \in DOMAIN t.counter
          /\ t.profile[u].num = t.counter[CounterOf(u, t.profile[u])]
    /\ \A id \in DOMAIN t.counter : id \in DOMAIN counter => counter[id] < t.counter[id]
Formatted(t) ==
    /\ \A u \in t.next : KeyOf(u) \in DOMAIN t.config /\ t.config[KeyOf(u)].locked
    /\ \A u \in DOMAIN t.profile : ~t.profile[u].custom =>
          KeyOf(u) \in DOMAIN t.config /\ t.config[KeyOf(u)].locked
    /\ DOMAIN t.configSeen \subseteq DOMAIN config
    /\ \A key \in DOMAIN t.configSeen :
          t.configSeen[key].locked => config[key].locked /\ t.config[key].locked
Promised(t) == Backed(t) /\ Numbered(t) /\ Formatted(t)

(* What the committed rows say, whatever overlaps.                         *)
Unseen(rows) == \E i \in 1..Len(rows) : rows[i].to = "ACTIVE" /\ ~rows[i].duplicates
ApprovedUnseen(u) ==
    \/ Unseen(audit[u])
    \/ \E r \in Requests : Tells(tx[r], u) /\ ~tx[r].audit[u].duplicates
Approvals ==
    /\ DOMAIN profile \subseteq DOMAIN user
    /\ \A u \in Users \ DOMAIN user : audit[u] = <<>>
    /\ \A u \in DOMAIN user : user[u].status = "ACTIVE" => Told(u)
    /\ \A u \in DOMAIN profile : Told(u)
Numbers ==
    /\ \A u \in DOMAIN profile : ~profile[u].custom =>
          /\ CounterOf(u, profile[u]) \in DOMAIN counter
          /\ profile[u].num <= counter[CounterOf(u, profile[u])]
    /\ \A u, v \in DOMAIN profile :
          /\ u # v /\ ~profile[u].custom /\ ~profile[v].custom
          /\ CounterOf(u, profile[u]) = CounterOf(v, profile[v])
          => profile[u].num # profile[v].num
    /\ \A q, r \in Requests : q # r => DOMAIN tx[q].counter \cap DOMAIN tx[r].counter = {}
Formats == \A u \in DOMAIN profile : ~profile[u].custom =>
              KeyOf(u) \in DOMAIN config /\ config[KeyOf(u)].locked
Constraints == \A u, v \in DOMAIN profile :
                  u # v /\ Clash(u, v) => profile[u].value # profile[v].value
Namesaked == \A u, v \in Users :
                u # v /\ School[u] = School[v] /\ Name[u] = Name[v]
                   => ~(ApprovedUnseen(u) /\ ApprovedUnseen(v))

(* While handlers have not overlapped, what a request read is still so.    *)
Before(rows, i) == IF i = 1 THEN "PENDING_APPROVAL" ELSE rows[i - 1].to
Story(u) == /\ \A i \in 1..Len(audit[u]) : audit[u][i].from = Before(audit[u], i)
            /\ user[u].status = Before(audit[u], Len(audit[u]) + 1)
            /\ user[u].active <=> user[u].status = "ACTIVE"
Distinct(key, value) == \A v \in DOMAIN profile : KeyOf(v) = key => profile[v].value # value
Current(t) ==
    /\ \A u \in DOMAIN t.user :
          /\ t.user[u].active <=> t.user[u].status = "ACTIVE"
          /\ IF u \in DOMAIN t.userSeen
             THEN /\ t.userSeen[u] = user[u] /\ u \in DOMAIN t.audit
                  /\ t.audit[u].from = user[u].status /\ t.audit[u].to = t.user[u].status
             ELSE u \notin DOMAIN t.audit /\ t.user[u].status = "PENDING_APPROVAL"
    /\ DOMAIN t.audit \subseteq DOMAIN t.userSeen
    /\ \A u \in DOMAIN t.profile : Distinct(KeyOf(u), t.profile[u].value)
    /\ \A key \in DOMAIN t.configSeen :
          /\ t.configSeen[key] = config[key]
          /\ config[key].locked => /\ t.config[key].template = config[key].template
                                   /\ t.config[key].reset = config[key].reset
Alone == \A q, r \in Requests : Busy(q) /\ Busy(r) => q = r
SerialInv ==
    alone => /\ Alone
             /\ \A u \in DOMAIN user : Story(u)
             /\ \A u, v \in DOMAIN profile :
                   u # v /\ KeyOf(u) = KeyOf(v) => profile[u].value # profile[v].value
             /\ \A r \in Requests : Busy(r) => Current(tx[r])

OpenInv == /\ \A r \in Requests : Promised(tx[r])
           /\ Approvals /\ Numbers /\ Formats /\ Constraints /\ Namesaked
Inv == TypeOK /\ OpenInv /\ SerialInv

(* What a handler owes to Begin.                                           *)
Sound(work) ==
    /\ IsTx(work) /\ Promised(work) /\ Current(work)
    /\ work.counter = NoRows
    /\ \A u \in DOMAIN work.audit : Tells(work, u) /\ ~work.audit[u].duplicates
                                       => Namesakes(u) = {}
AloneStep == alone' = (alone /\ Alone')
-----------------------------------------------------------------------------
(* The units of work of the handlers.                                      *)
LEMMA FreshIs ==
    /\ DOMAIN Fresh = Fields /\ Fresh.state = "new" /\ Fresh.next = {}
    /\ Fresh.user = NoRows /\ Fresh.userSeen = NoRows /\ Fresh.audit = NoRows
    /\ Fresh.profile = NoRows /\ Fresh.config = NoRows /\ Fresh.configSeen = NoRows
    /\ Fresh.counter = NoRows
    /\ DOMAIN NoRows = {}
BY DEF Fresh, Fields, NoRows

LEMMA ClosedIs ==
    /\ DOMAIN Closed = Fields /\ Closed.state = "done" /\ Closed.next = {}
    /\ Closed.user = NoRows /\ Closed.userSeen = NoRows /\ Closed.audit = NoRows
    /\ Closed.profile = NoRows /\ Closed.config = NoRows /\ Closed.configSeen = NoRows
    /\ Closed.counter = NoRows
BY DEF Closed, Fresh, Fields, NoRows

(* A unit of work in which nothing is held.                                *)
LEMMA EmptyPromised ==
    ASSUME NEW t, t.next = {}, t.user = NoRows, t.userSeen = NoRows, t.audit = NoRows,
           t.profile = NoRows, t.config = NoRows, t.configSeen = NoRows, t.counter = NoRows
    PROVE  Promised(t) /\ Current(t)
<1>1. DOMAIN NoRows = {}
  BY FreshIs
<1> QED
  BY <1>1 DEF Promised, Backed, Numbered, Formatted, Current, Holders

LEMMA EmptyTyped ==
    ASSUME NEW t, DOMAIN t = Fields, t.state \in {"new", "counting", "open", "done"},
           t.next = {}, t.user = NoRows, t.userSeen = NoRows, t.audit = NoRows,
           t.profile = NoRows, t.config = NoRows, t.configSeen = NoRows, t.counter = NoRows
    PROVE  IsTx(t)
<1>1. \A S, T : Partial(NoRows, S, T)
  BY DEF NoRows, Partial
<1> QED
  BY <1>1 DEF IsTx, Fields

(* Rows as they are loaded.                                                *)
LEMMA LoadedRows ==
    ASSUME TypeOK, NEW u \in DOMAIN user
    PROVE  /\ u \in Users /\ user[u] \in User /\ KeyOf(u) \in Keys
           /\ DOMAIN Restrict(user, {u}) = {u} /\ Restrict(user, {u})[u] = user[u]
           /\ Partial(Restrict(user, {u}), {u}, User)
<1>1. u \in Users /\ user[u] \in User
  BY DEF TypeOK, Partial
<1>2. KeyOf(u) \in Keys
  <2>1. School[u] \in Range(School) /\ user[u].role \in Roles
    BY <1>1, AdmissionConstants DEF Range, User
  <2> QED
    BY <2>1 DEF KeyOf, Keys
<1>3. /\ DOMAIN Restrict(user, {u}) = {u} /\ Restrict(user, {u})[u] = user[u]
      /\ Partial(Restrict(user, {u}), {u}, User)
  BY <1>1 DEF Restrict, Partial
<1> QED
  BY <1>1, <1>2, <1>3

LEMMA LoadedConfigs ==
    ASSUME TypeOK, NEW S
    PROVE  /\ DOMAIN Restrict(config, S \cap DOMAIN config) = S \cap DOMAIN config
           /\ \A key \in S \cap DOMAIN config :
                 /\ Restrict(config, S \cap DOMAIN config)[key] = config[key]
                 /\ config[key] \in Config /\ key \in Keys
           /\ Partial(Restrict(config, S \cap DOMAIN config), S, Config)
BY DEF TypeOK, Partial, Restrict

LEMMA FreshSound == Sound(Fresh)
<1>1. Promised(Fresh) /\ Current(Fresh)
  BY FreshIs, EmptyPromised
<1>2. IsTx(Fresh)
  BY FreshIs, EmptyTyped
<1> QED
  BY <1>1, <1>2, FreshIs DEF Sound

LEMMA RegisterSound ==
    ASSUME Inv, NEW u \in Users, NEW role \in Roles, ContactFree(u)
    PROVE  Sound([Fresh EXCEPT !.state = "open", !.user = [v \in {u} |-> Registered(role)]])
<1>0. PICK work : work = [Fresh EXCEPT !.state = "open", !.user = [v \in {u} |-> Registered(role)]]
  OBVIOUS
<1> DEFINE rows == [v \in {u} |-> Registered(role)]
<1>1. /\ DOMAIN work = Fields /\ work.state = "open" /\ work.next = {}
      /\ work.user = rows /\ work.userSeen = NoRows /\ work.audit = NoRows
      /\ work.profile = NoRows /\ work.config = NoRows /\ work.configSeen = NoRows
      /\ work.counter = NoRows
  BY <1>0, FreshIs DEF Fields
<1>2. Registered(role) \in User /\ Registered(role).status = "PENDING_APPROVAL"
      /\ Registered(role).active = FALSE
  BY DEF Registered, User, UserStatus
<1>3. Partial(rows, Users, User) /\ \A S, T : Partial(NoRows, S, T)
  BY <1>2 DEF Partial, NoRows
<1>4. IsTx(work)
  BY <1>1, <1>3 DEF IsTx, Fields
<1>5. Promised(work)
  BY <1>1, <1>2, FreshIs DEF Promised, Backed, Numbered, Formatted, Holders
<1>6. Current(work)
  BY <1>1, <1>2, FreshIs DEF Current
<1> QED
  BY <1>0, <1>1, <1>4, <1>5, <1>6, FreshIs DEF Sound

LEMMA DecidedSound ==
    ASSUME Inv, NEW u \in DOMAIN user, NEW action \in DOMAIN Outcome
    PROVE  Sound(Decided(u, action))
<1> DEFINE row == [user[u] EXCEPT !.status = Outcome[action], !.active = (action = "APPROVE")]
           line == [from |-> user[u].status, to |-> Outcome[action],
                    duplicates |-> Namesakes(u) # {}]
<1>1. PICK work : work = Decided(u, action)
  OBVIOUS
<1>2. /\ DOMAIN work = Fields /\ work.state = "open" /\ work.next = {}
      /\ work.user = [v \in {u} |-> row] /\ work.userSeen = Restrict(user, {u})
      /\ work.audit = [v \in {u} |-> line]
      /\ work.profile = NoRows /\ work.config = NoRows /\ work.configSeen = NoRows
      /\ work.counter = NoRows
  BY <1>1, FreshIs DEF Decided, Fields
<1>3. /\ u \in Users /\ user[u] \in User
      /\ DOMAIN Restrict(user, {u}) = {u} /\ Restrict(user, {u})[u] = user[u]
      /\ Partial(Restrict(user, {u}), {u}, User)
  BY LoadedRows DEF Inv
<1>4. Outcome[action] \in UserStatus /\ (Outcome[action] = "ACTIVE" <=> action = "APPROVE")
  BY DEF Outcome, UserStatus
<1>5. row \in User /\ row.status = Outcome[action] /\ (row.active <=> action = "APPROVE")
  BY <1>3, <1>4 DEF User
<1>6. /\ line \in Audit /\ line.from = user[u].status /\ line.to = Outcome[action]
      /\ (line.duplicates <=> Namesakes(u) # {})
  BY <1>3, <1>4 DEF Audit, User
<1> HIDE DEF row, line
<1>7. /\ DOMAIN work.user = {u} /\ work.user[u] = row
      /\ DOMAIN work.audit = {u} /\ work.audit[u] = line
  BY <1>2
<1>8. IsTx(work)
  <2>1. \A S, T : Partial(NoRows, S, T)
    BY DEF Partial, NoRows
  <2>2. Partial(work.user, Users, User) /\ Partial(work.audit, Users, Audit)
    BY <1>2, <1>3, <1>5, <1>6 DEF Partial
  <2> QED
    BY <1>2, <1>3, <1>7, <2>1, <2>2 DEF IsTx, Fields
<1>9. Promised(work)
  BY <1>2, <1>3, <1>5, <1>6, <1>7, FreshIs
     DEF Promised, Backed, Numbered, Formatted, Holders, Tells
<1>10. Current(work)
  BY <1>2, <1>3, <1>4, <1>5, <1>6, <1>7, FreshIs DEF Current
<1>11. \A v \in DOMAIN work.audit : ~work.audit[v].duplicates => Namesakes(v) = {}
  BY <1>6, <1>7
<1> QED
  BY <1>1, <1>2, <1>8, <1>9, <1>10, <1>11 DEF Sound

(* upsert_config and list_configs.                                         *)
LEMMA ConfigSound ==
    ASSUME Inv, NEW rows, Partial(rows, Keys, Config),
           \A key \in DOMAIN rows \cap DOMAIN config : config[key].locked =>
              /\ rows[key].locked /\ rows[key].template = config[key].template
              /\ rows[key].reset = config[key].reset
    PROVE  Sound([Fresh EXCEPT !.state = "open", !.config = rows,
                               !.configSeen = Restrict(config, DOMAIN rows \cap DOMAIN config)])
<1>a. PICK seen : seen = Restrict(config, DOMAIN rows \cap DOMAIN config)
  OBVIOUS
<1>0. PICK work : work = [Fresh EXCEPT !.state = "open", !.config = rows, !.configSeen = seen]
  OBVIOUS
<1>1. /\ DOMAIN work = Fields /\ work.state = "open" /\ work.next = {}
      /\ work.user = NoRows /\ work.userSeen = NoRows /\ work.audit = NoRows
      /\ work.profile = NoRows /\ work.config = rows /\ work.configSeen = seen
      /\ work.counter = NoRows
  BY <1>0, FreshIs DEF Fields
<1>2. /\ DOMAIN seen = DOMAIN rows \cap DOMAIN config
      /\ \A key \in DOMAIN seen : seen[key] = config[key]
      /\ Partial(seen, DOMAIN rows, Config)
  BY <1>a, LoadedConfigs DEF Inv
<1>3. IsTx(work)
  <2>1. \A S, T : Partial(NoRows, S, T)
    BY DEF Partial, NoRows
  <2> QED
    BY <1>1, <1>2, <2>1 DEF IsTx, Fields
<1>4. Promised(work)
  BY <1>1, <1>2, FreshIs DEF Promised, Backed, Numbered, Formatted, Holders
<1>5. Current(work)
  BY <1>1, <1>2, FreshIs DEF Current
<1> QED
  BY <1>0, <1>a, <1>1, <1>3, <1>4, <1>5, FreshIs DEF Sound

(* A profile is added to work that holds none: one with a custom           *)
(* identifier, or one that waits for a number.                             *)
LEMMA CustomSound ==
    ASSUME Inv, NEW work, Sound(work), NEW u \in DOMAIN user, NEW value \in Value,
           Told(u) \/ Tells(work, u), work.profile = NoRows, work.next = {},
           ~InUse(KeyOf(u), value)
    PROVE  Sound(WithCustom(work, u, value))
<1> DEFINE row == [value |-> value, custom |-> TRUE, tag |-> 0, num |-> 0]
<1>0. PICK new : new = WithCustom(work, u, value)
  OBVIOUS
<1>1. DOMAIN work = Fields
  BY DEF Sound, IsTx, Fields
<1>2. /\ DOMAIN new = Fields /\ new.state = work.state /\ new.next = {}
      /\ new.user = work.user /\ new.userSeen = work.userSeen /\ new.audit = work.audit
      /\ new.profile = [v \in {u} |-> row] /\ new.config = work.config
      /\ new.configSeen = work.configSeen /\ new.counter = work.counter
  BY <1>0, <1>1 DEF WithCustom, Fields
<1>3. row \in Profile /\ u \in Users
  BY LoadedRows DEF Profile, Tags, Number, Inv
<1>4. IsTx(new)
  <2>1. Partial(new.profile, Users, Profile)
    BY <1>2, <1>3 DEF Partial
  <2> QED
    BY <1>2, <2>1 DEF Sound, IsTx, Fields
<1>5. Promised(new)
  BY <1>2 DEF Sound, Promised, Backed, Numbered, Formatted, Holders, Tells
<1>6. Current(new)
  BY <1>2 DEF Sound, Current, InUse, Distinct
<1> QED
  BY <1>0, <1>2, <1>4, <1>5, <1>6 DEF Sound, Tells

LEMMA NextSound ==
    ASSUME Inv, NEW work, Sound(work), NEW u \in DOMAIN user,
           Told(u) \/ Tells(work, u), work.profile = NoRows, work.next = {}
    PROVE  Sound(WithNext(work, u))
<1> DEFINE key == KeyOf(u)
           cfg == IF key \in DOMAIN config THEN config[key] ELSE DefaultFormat(key)
           line == [cfg EXCEPT !.locked = TRUE]
           seen == Restrict(config, {key} \cap DOMAIN config)
<1>0. PICK new : new = WithNext(work, u)
  OBVIOUS
<1>1. DOMAIN work = Fields
  BY DEF Sound, IsTx, Fields
<1>2. /\ DOMAIN new = Fields /\ new.state = "counting" /\ new.next = {u}
      /\ new.user = work.user /\ new.userSeen = work.userSeen /\ new.audit = work.audit
      /\ new.profile = NoRows /\ new.config = [k \in {key} |-> line]
      /\ new.configSeen = seen /\ new.counter = work.counter
  BY <1>0, <1>1 DEF WithNext, Fields
<1>3. u \in Users /\ key \in Keys
  BY LoadedRows DEF Inv
<1>4. DefaultFormat(key) \in Config
  BY AdmissionConstants DEF DefaultFormat, Config
<1>5. cfg \in Config
  BY <1>4 DEF Inv, TypeOK, Partial
<1>6. line \in Config /\ line.locked /\ line.template = cfg.template /\ line.reset = cfg.reset
  BY <1>5 DEF Config
<1>7. /\ DOMAIN seen = {key} \cap DOMAIN config
      /\ \A k \in DOMAIN seen : seen[k] = config[k]
      /\ Partial(seen, {key}, Config)
  BY LoadedConfigs DEF Inv
<1> HIDE DEF line, seen
<1>8. IsTx(new)
  <2>1. Partial(new.config, Keys, Config) /\ Partial(new.configSeen, DOMAIN new.config, Config)
    BY <1>2, <1>3, <1>6, <1>7 DEF Partial
  <2> QED
    BY <1>2, <1>3, <2>1 DEF Sound, IsTx, Fields
<1>9. Promised(new)
  <2>1. Backed(new)
    BY <1>2, FreshIs DEF Sound, Promised, Backed, Holders, Tells
  <2>2. Numbered(new)
    BY <1>2, FreshIs DEF Sound, Numbered
  <2>3. Formatted(new)
    BY <1>2, <1>6, <1>7, FreshIs DEF Formatted
  <2> QED
    BY <2>1, <2>2, <2>3 DEF Promised
<1>10. Current(new)
  BY <1>2, <1>6, <1>7, FreshIs DEF Sound, Current
<1> QED
  BY <1>0, <1>2, <1>8, <1>9, <1>10 DEF Sound, Tells
-----------------------------------------------------------------------------
(* What a unit of work holds survives a step that loses no row, takes back *)
(* no approval or lock, and leaves alone the counters that it holds.       *)
LEMMA PromiseStays ==
    ASSUME NEW t, Promised(t), DOMAIN user \subseteq DOMAIN user',
           \A u \in DOMAIN user : KeyOf(u)' = KeyOf(u) /\ (Told(u) => Told(u)'),
           \A id \in DOMAIN t.counter : id \in DOMAIN counter' =>
              id \in DOMAIN counter /\ counter'[id] = counter[id],
           \A key \in DOMAIN config : /\ key \in DOMAIN config'
                                      /\ config[key].locked => config'[key].locked
    PROVE  Promised(t)'
<1>1. Backed(t)'
  <2>1. Backed(t)
    BY DEF Promised
  <2> QED
    BY <2>1 DEF Backed, Holders, Tells
<1>2. \A u \in Holders(t) : u \in DOMAIN user
  BY DEF Promised, Backed
<1>3. Numbered(t)'
  <2>1. \A u \in DOMAIN t.profile : CounterOf(u, t.profile[u])' = CounterOf(u, t.profile[u])
    BY <1>2 DEF CounterOf, Holders
  <2> QED
    BY <2>1 DEF Promised, Numbered
<1>4. Formatted(t)'
  BY <1>2 DEF Promised, Formatted, Holders
<1> QED
  BY <1>1, <1>3, <1>4 DEF Promised

(* Who has been approved unseen was registered.                            *)
LEMMA UnseenAreUsers ==
    ASSUME Inv, NEW u \in Users, ApprovedUnseen(u)
    PROVE  u \in DOMAIN user
<1>1. CASE Unseen(audit[u])
  BY <1>1 DEF Unseen, Inv, OpenInv, Approvals
<1>2. CASE \E r \in Requests : Tells(tx[r], u)
  BY <1>2 DEF Tells, Inv, OpenInv, Promised, Backed
<1> QED
  BY <1>1, <1>2 DEF ApprovedUnseen

(* A step of one request that commits nothing.                             *)
LEMMA QuietKeeps ==
    ASSUME Inv, NEW r \in Requests, NEW new, UNCHANGED Committed,
           tx' = [tx EXCEPT ![r] = new], IsTx(new), Promised(new),
           \A q \in Requests \ {r} : DOMAIN new.counter \cap DOMAIN tx[q].counter = {},
           \A u \in Users : Tells(new, u) /\ ~new.audit[u].duplicates =>
              \/ Tells(tx[r], u) /\ ~tx[r].audit[u].duplicates
              \/ u \in DOMAIN user /\ Namesakes(u) = {},
           alone /\ new.state \in {"counting", "open"} => Current(new),
           AloneStep
    PROVE  Inv'
<1>1. /\ user' = user /\ audit' = audit /\ profile' = profile
      /\ config' = config /\ counter' = counter /\ year' = year
  BY DEF Committed
<1>2. \A q \in Requests : tx'[q] = IF q = r THEN new ELSE tx[q]
  BY DEF Inv, TypeOK
<1>3. TypeOK'
  <2>1. alone' \in BOOLEAN
    BY Zenon DEF AloneStep
  <2> QED
    BY <1>1, <1>2, <2>1 DEF Inv, TypeOK
<1>4. ASSUME NEW q \in Requests PROVE Promised(tx[q])'
  <2>1. PICK t : t = tx'[q]
    OBVIOUS
  <2>2. Promised(t)
    BY <1>2, <2>1 DEF Inv, OpenInv
  <2>3. \A u \in DOMAIN user : KeyOf(u)' = KeyOf(u) /\ (Told(u) => Told(u)')
    BY <1>1 DEF KeyOf, Told
  <2>4. Promised(t)'
    BY <1>1, <2>2, <2>3, PromiseStays
  <2> QED
    BY <2>1, <2>4 DEF Promised, Backed, Numbered, Formatted, Holders, Tells
<1>5. Approvals' /\ Formats' /\ Constraints'
  <2>1. Approvals'
    BY <1>1 DEF Inv, OpenInv, Approvals, Told
  <2>2. Formats'
    BY <1>1 DEF Inv, OpenInv, Formats, KeyOf
  <2>3. Constraints'
    BY <1>1 DEF Inv, OpenInv, Constraints, Clash
  <2> QED
    BY <2>1, <2>2, <2>3
<1>6. Numbers'
  <2>1. \A q, p \in Requests : q # p => DOMAIN tx'[q].counter \cap DOMAIN tx'[p].counter = {}
    BY <1>2 DEF Inv, OpenInv, Numbers
  <2> QED
    BY <1>1, <2>1 DEF Inv, OpenInv, Numbers, CounterOf, KeyOf
<1>7. Namesaked'
  <2>1. ASSUME NEW u \in Users, ApprovedUnseen(u)'
        PROVE  ApprovedUnseen(u) \/ (u \in DOMAIN user /\ Namesakes(u) = {})
    <3>1. CASE Unseen(audit[u])'
      BY <1>1, <3>1 DEF ApprovedUnseen, Unseen
    <3>2. CASE \E q \in Requests : Tells(tx'[q], u) /\ ~tx'[q].audit[u].duplicates
      BY <1>2, <3>2 DEF ApprovedUnseen
    <3> QED
      BY <2>1, <3>1, <3>2 DEF ApprovedUnseen, Tells
  <2>2. ASSUME NEW u \in Users, NEW v \in Users, u # v, School[u] = School[v],
               Name[u] = Name[v], ApprovedUnseen(u)', ApprovedUnseen(v)'
        PROVE  FALSE
    <3>1. u \in DOMAIN user /\ v \in DOMAIN user
      BY <2>1, <2>2, UnseenAreUsers
    <3>2. Namesakes(u) # {} /\ Namesakes(v) # {}
      BY <2>2, <3>1 DEF Namesakes
    <3> QED
      BY <2>1, <2>2, <3>2 DEF Inv, OpenInv, Namesaked
  <2> QED
    BY <2>2 DEF Namesaked
<1>8. SerialInv'
  <2> SUFFICES ASSUME alone'
               PROVE  /\ Alone' /\ \A u \in DOMAIN user' : Story(u)'
                      /\ \A u, v \in DOMAIN profile' :
                            u # v /\ (KeyOf(u) = KeyOf(v))' => profile'[u].value # profile'[v].value
                      /\ \A q \in Requests : Busy(q)' => Current(tx[q])'
    BY DEF SerialInv
  <2>1. alone /\ Alone'
    BY DEF AloneStep
  <2>2. \A u \in DOMAIN user' : Story(u)'
    BY <1>1, <2>1 DEF Inv, SerialInv, Story
  <2>3. \A u, v \in DOMAIN profile' :
           u # v /\ (KeyOf(u) = KeyOf(v))' => profile'[u].value # profile'[v].value
    BY <1>1, <2>1 DEF Inv, SerialInv, KeyOf
  <2>4. ASSUME NEW q \in Requests, Busy(q)' PROVE Current(tx[q])'
    <3>1. PICK t : t = tx'[q]
      OBVIOUS
    <3>2. Current(t)
      <4>1. CASE q = r
        BY <1>2, <2>1, <2>4, <3>1, <4>1 DEF Busy
      <4>2. CASE q # r
        BY <1>2, <2>1, <2>4, <3>1, <4>2 DEF Busy, Inv, SerialInv
      <4> QED
        BY <4>1, <4>2
    <3>3. \A key, value : Distinct(key, value)' <=> Distinct(key, value)
      BY <1>1 DEF Distinct, KeyOf
    <3>4. \A u : KeyOf(u)' = KeyOf(u)
      BY <1>1 DEF KeyOf
    <3>5. Current(t)'
      BY <1>1, <3>2, <3>3, <3>4 DEF Current
    <3> QED
      BY <3>1, <3>5 DEF Current
  <2> QED
    BY <2>1, <2>2, <2>3, <2>4
<1> QED
  BY <1>3, <1>4, <1>5, <1>6, <1>7, <1>8 DEF Inv, OpenInv

LEMMA BeginKeeps ==
    ASSUME Inv, NEW r \in Requests, NEW work, Sound(work), Begin(r, work), AloneStep
    PROVE  Inv'
<1>1. UNCHANGED Committed /\ tx' = [tx EXCEPT ![r] = work]
  BY DEF Begin
<1>2. DOMAIN work.counter = {}
  BY FreshIs DEF Sound
<1>3. \A u \in Users : Tells(work, u) /\ ~work.audit[u].duplicates =>
         u \in DOMAIN user /\ Namesakes(u) = {}
  BY DEF Sound, Tells, Promised, Backed
<1> QED
  BY <1>1, <1>2, <1>3, QuietKeeps DEF Sound

LEMMA AbortKeeps ==
    ASSUME Inv, NEW r \in Requests, Abort(r), AloneStep
    PROVE  Inv'
<1>1. UNCHANGED Committed /\ tx' = [tx EXCEPT ![r] = Closed]
  BY DEF Abort
<1>2. IsTx(Closed) /\ Promised(Closed)
  BY ClosedIs, EmptyTyped, EmptyPromised
<1>3. DOMAIN Closed.counter = {} /\ DOMAIN Closed.audit = {} /\ Closed.state = "done"
  BY ClosedIs, FreshIs
<1> QED
  BY <1>1, <1>2, <1>3, QuietKeeps DEF Tells
-----------------------------------------------------------------------------
(* The handlers.                                                           *)
LEMMA ApprovedWasTold ==
    ASSUME Inv, NEW u \in DOMAIN user, Approved(user[u])
    PROVE  Told(u)
BY DEF Approved, Inv, OpenInv, Approvals

LEMMA DecidedTells ==
    ASSUME Inv, NEW u \in DOMAIN user
    PROVE  /\ Sound(Decided(u, "APPROVE")) /\ Tells(Decided(u, "APPROVE"), u)
           /\ Decided(u, "APPROVE").profile = NoRows /\ Decided(u, "APPROVE").next = {}
<1>1. "APPROVE" \in DOMAIN Outcome /\ Outcome["APPROVE"] = "ACTIVE"
  BY DEF Outcome
<1>2. Sound(Decided(u, "APPROVE"))
  BY <1>1, DecidedSound
<1>3. PICK work : work = Decided(u, "APPROVE")
  OBVIOUS
<1>4. /\ DOMAIN work.audit = {u} /\ work.audit[u].to = "ACTIVE"
      /\ work.profile = NoRows /\ work.next = {}
  BY <1>1, <1>3, FreshIs DEF Decided, Fields
<1> QED
  BY <1>2, <1>3, <1>4 DEF Tells

LEMMA ProfileKeeps ==
    ASSUME Inv, NEW r \in Requests, NEW u \in Users, AloneStep,
           \/ \E override \in BOOLEAN : ApproveWithProfile(r, u, override)
           \/ \E override \in BOOLEAN, value \in Chosen : ApproveWithCustom(r, u, override, value)
           \/ CreateProfile(r, u)
           \/ \E value \in Chosen : CreateProfileCustom(r, u, value)
    PROVE  Inv'
<1>1. ASSUME NEW override \in BOOLEAN, ApproveWithProfile(r, u, override)
      PROVE  Inv'
  <2>1. u \in DOMAIN user
    BY <1>1 DEF ApproveWithProfile, CanDecide
  <2>2. CASE u \in DOMAIN profile
    BY <1>1, <2>1, <2>2, DecidedTells, BeginKeeps DEF ApproveWithProfile
  <2>3. CASE u \notin DOMAIN profile
    <3>1. Begin(r, WithNext(Decided(u, "APPROVE"), u))
      BY <1>1, <2>3 DEF ApproveWithProfile
    <3>2. Sound(WithNext(Decided(u, "APPROVE"), u))
      BY <2>1, DecidedTells, NextSound
    <3> QED
      BY <3>1, <3>2, BeginKeeps
  <2> QED
    BY <2>2, <2>3
<1>2. ASSUME NEW override \in BOOLEAN, NEW value \in Chosen,
             ApproveWithCustom(r, u, override, value)
      PROVE  Inv'
  <2>1. u \in DOMAIN user /\ value \in Value
    BY <1>2, CustomIdentifiers DEF ApproveWithCustom, CanDecide
  <2>2. CASE u \in DOMAIN profile \/ InUse(KeyOf(u), value)
    BY <1>2, <2>1, <2>2, DecidedTells, BeginKeeps DEF ApproveWithCustom
  <2>3. CASE ~(u \in DOMAIN profile \/ InUse(KeyOf(u), value))
    <3>1. Begin(r, WithCustom(Decided(u, "APPROVE"), u, value))
      BY <1>2, <2>3 DEF ApproveWithCustom
    <3>2. Sound(WithCustom(Decided(u, "APPROVE"), u, value))
      BY <2>1, <2>3, DecidedTells, CustomSound
    <3> QED
      BY <3>1, <3>2, BeginKeeps
  <2> QED
    BY <2>2, <2>3
<1>3. ASSUME CreateProfile(r, u)
      PROVE  Inv'
  <2>1. u \in DOMAIN user /\ Told(u) /\ Begin(r, WithNext(Fresh, u))
    BY <1>3, ApprovedWasTold DEF CreateProfile
  <2>2. Sound(WithNext(Fresh, u))
    BY <2>1, FreshIs, FreshSound, NextSound
  <2> QED
    BY <2>1, <2>2, BeginKeeps
<1>4. ASSUME NEW value \in Chosen, CreateProfileCustom(r, u, value)
      PROVE  Inv'
  <2>1. PICK work : work = [Fresh EXCEPT !.state = "open"]
    OBVIOUS
  <2>2. /\ u \in DOMAIN user /\ Told(u) /\ ~InUse(KeyOf(u), value) /\ value \in Value
        /\ Begin(r, WithCustom(work, u, value))
    BY <1>4, <2>1, ApprovedWasTold, CustomIdentifiers DEF CreateProfileCustom
  <2>3. /\ DOMAIN work = Fields /\ work.state = "open" /\ work.next = {}
        /\ work.user = NoRows /\ work.userSeen = NoRows /\ work.audit = NoRows
        /\ work.profile = NoRows /\ work.config = NoRows /\ work.configSeen = NoRows
        /\ work.counter = NoRows
    BY <2>1, FreshIs DEF Fields
  <2>4. Sound(work)
    BY <2>3, EmptyTyped, EmptyPromised, FreshIs DEF Sound
  <2>5. Sound(WithCustom(work, u, value))
    BY <2>2, <2>3, <2>4, CustomSound
  <2> QED
    BY <2>2, <2>5, BeginKeeps
<1> QED
  BY <1>1, <1>2, <1>3, <1>4, Zenon

LEMMA UpsertKeeps ==
    ASSUME Inv, NEW r \in Requests, NEW key \in Keys, NEW template \in Templates,
           NEW reset \in BOOLEAN, UpsertConfig(r, key, template, reset), AloneStep
    PROVE  Inv'
<1> DEFINE new == [template |-> template, reset |-> reset,
                   locked |-> key \in DOMAIN config /\ config[key].locked]
<1>1. PICK rows : rows = [k \in {key} |-> new]
  OBVIOUS
<1>2. DOMAIN rows = {key} /\ rows[key] = new
  BY <1>1
<1>3. /\ key \in DOMAIN config /\ config[key].locked => config[key] = new
      /\ Begin(r, [Fresh EXCEPT !.state = "open", !.config = rows,
                      !.configSeen = Restrict(config, DOMAIN rows \cap DOMAIN config)])
  BY <1>1, <1>2 DEF UpsertConfig
<1>4. key \in DOMAIN config => config[key].locked \in BOOLEAN
  BY DEF Inv, TypeOK, Partial, Config
<1>5. Partial(rows, Keys, Config)
  BY <1>1, <1>4 DEF Partial, Config
<1>6. \A k \in DOMAIN rows \cap DOMAIN config : config[k].locked =>
         /\ rows[k].locked /\ rows[k].template = config[k].template
         /\ rows[k].reset = config[k].reset
  BY <1>2, <1>3
<1> QED
  BY <1>3, <1>5, <1>6, ConfigSound, BeginKeeps

LEMMA ListKeeps ==
    ASSUME Inv, NEW r \in Requests, NEW school \in Range(School), ListConfigs(r, school), AloneStep
    PROVE  Inv'
<1> DEFINE missing == ({school} \X Roles) \ DOMAIN config
<1>1. PICK rows : rows = [k \in missing |-> DefaultFormat(k)]
  OBVIOUS
<1>2. DOMAIN rows = missing /\ DOMAIN rows \cap DOMAIN config = {}
  BY <1>1
<1>3. Restrict(config, DOMAIN rows \cap DOMAIN config) = NoRows
  BY <1>2 DEF Restrict, NoRows
<1>4. Begin(r, [Fresh EXCEPT !.state = "open", !.config = rows])
  BY <1>1 DEF ListConfigs
<1>5. [Fresh EXCEPT !.state = "open", !.config = rows]
         = [Fresh EXCEPT !.state = "open", !.config = rows, !.configSeen = NoRows]
  BY FreshIs DEF Fields
<1>6. missing \subseteq Keys /\ \A k \in missing : DefaultFormat(k) \in Config
  BY AdmissionConstants DEF Keys, DefaultFormat, Config
<1>7. Partial(rows, Keys, Config)
  BY <1>1, <1>6 DEF Partial
<1>8. Sound([Fresh EXCEPT !.state = "open", !.config = rows,
                          !.configSeen = Restrict(config, DOMAIN rows \cap DOMAIN config)])
  BY <1>2, <1>7, ConfigSound
<1> QED
  BY <1>3, <1>4, <1>5, <1>8, BeginKeeps

LEMMA HandleKeeps ==
    ASSUME Inv, NEW r \in Requests, Handle(r), AloneStep
    PROVE  Inv'
<1>1. ASSUME NEW u \in Users, NEW role \in Roles, Register(r, u, role)
      PROVE  Inv'
  BY <1>1, RegisterSound, BeginKeeps DEF Register
<1>2. ASSUME NEW u \in Users, NEW action \in DOMAIN Outcome, NEW override \in BOOLEAN,
             Decide(r, u, action, override)
      PROVE  Inv'
  <2>1. u \in DOMAIN user /\ Begin(r, Decided(u, action))
    BY <1>2 DEF Decide, CanDecide
  <2> QED
    BY <2>1, DecidedSound, BeginKeeps
<1>3. CASE \/ \E u \in Users, override \in BOOLEAN : ApproveWithProfile(r, u, override)
           \/ \E u \in Users, override \in BOOLEAN, value \in Chosen :
                 ApproveWithCustom(r, u, override, value)
           \/ \E u \in Users : CreateProfile(r, u)
           \/ \E u \in Users, value \in Chosen : CreateProfileCustom(r, u, value)
  BY <1>3, ProfileKeeps, Zenon
<1>4. CASE \E key \in Keys, template \in Templates, reset \in BOOLEAN :
              UpsertConfig(r, key, template, reset)
  BY <1>4, UpsertKeeps
<1>5. CASE \E school \in Range(School) : ListConfigs(r, school)
  BY <1>5, ListKeeps
<1> QED
  BY <1>1, <1>2, <1>3, <1>4, <1>5, Zenon DEF Handle

(* The counter is read under its lock: the number is above all that are    *)
(* issued, and no other open request holds one of the same counter.        *)
LEMMA TakeKeeps ==
    ASSUME Inv, NEW r \in Requests, TakeNumber(r), AloneStep
    PROVE  Inv'
<1> DEFINE t == tx[r]
           cfgOf(u) == t.config[KeyOf(u)]
           idOf(u) == <<KeyOf(u), IF cfgOf(u).reset THEN year ELSE 0>>
           numOf(u) == IF idOf(u) \in DOMAIN counter THEN counter[idOf(u)] + 1 ELSE 1
           rowOf(u) == [value |-> Format(cfgOf(u).template, numOf(u)), custom |-> FALSE,
                        tag |-> idOf(u)[2], num |-> numOf(u)]
<1>2. PICK u \in t.next :
         /\ t.state = "counting"
         /\ Unlocked(r, idOf(u))
         /\ tx' = [tx EXCEPT ![r].state = "open", ![r].next = {},
                             ![r].counter = [i \in {idOf(u)} |-> numOf(u)],
                             ![r].profile = IF InUse(KeyOf(u), rowOf(u).value) THEN NoRows
                                            ELSE [v \in {u} |-> rowOf(u)]]
         /\ UNCHANGED Committed
  BY DEF TakeNumber
<1>3. PICK cfg, id, num : cfg = cfgOf(u) /\ id = idOf(u) /\ num = numOf(u)
  OBVIOUS
<1>4. PICK row : row = [value |-> Format(cfg.template, num), custom |-> FALSE,
                        tag |-> id[2], num |-> num]
  OBVIOUS
<1>5. PICK new : new = [t EXCEPT !.state = "open", !.next = {}, !.counter = [i \in {id} |-> num],
                                 !.profile = IF InUse(KeyOf(u), row.value) THEN NoRows
                                             ELSE [v \in {u} |-> row]]
  OBVIOUS
<1>6. tx' = [tx EXCEPT ![r] = new]
  BY <1>2, <1>3, <1>4, <1>5
<1>7. /\ IsTx(t) /\ Promised(t) /\ DOMAIN t = Fields
  BY DEF Inv, TypeOK, OpenInv, IsTx, Fields
<1>8. /\ u \in Users /\ u \in DOMAIN user /\ KeyOf(u) \in DOMAIN t.config /\ cfg \in Config
      /\ cfg.locked /\ cfg = t.config[KeyOf(u)] /\ KeyOf(u) \in Keys
  <2>1. u \in DOMAIN user /\ KeyOf(u) \in DOMAIN t.config /\ t.config[KeyOf(u)].locked
    BY <1>7 DEF Promised, Backed, Formatted, Holders
  <2>2. t.config[KeyOf(u)] \in Config
    BY <1>7, <2>1 DEF IsTx, Partial
  <2> QED
    BY <1>3, <2>1, <2>2, LoadedRows DEF Inv
<1>9. id = <<KeyOf(u), id[2]>> /\ id[2] \in Tags /\ num \in Nat
      /\ (id \in DOMAIN counter => counter[id] < num)
  <2>1. id = <<KeyOf(u), IF cfg.reset THEN year ELSE 0>>
    BY <1>3
  <2>2. year \in Year /\ \A i \in DOMAIN counter : counter[i] \in Nat
    BY DEF Inv, TypeOK, Partial, Number
  <2>3. num = IF id \in DOMAIN counter THEN counter[id] + 1 ELSE 1
    BY <1>3
  <2> QED
    BY <2>1, <2>2, <2>3 DEF Tags
<1> HIDE DEF t, cfgOf, idOf, numOf, rowOf
<1>10. row \in Profile
  <2>1. Format(cfg.template, num) \in Value
    BY <1>9 DEF Format, Value, Number, Inv, TypeOK
  <2> QED
    BY <1>4, <1>9, <2>1 DEF Profile, Number
<1>11. /\ DOMAIN new = Fields /\ new.state = "open" /\ new.next = {}
       /\ new.user = t.user /\ new.userSeen = t.userSeen /\ new.audit = t.audit
       /\ new.config = t.config /\ new.configSeen = t.configSeen
       /\ DOMAIN new.counter = {id} /\ new.counter[id] = num
       /\ new.counter = [i \in {id} |-> num]
       /\ new.profile = NoRows \/ (new.profile = [v \in {u} |-> row] /\ ~InUse(KeyOf(u), row.value))
  BY <1>5, <1>7 DEF Fields
<1>12. /\ DOMAIN new.profile \subseteq {u}
       /\ \A v \in DOMAIN new.profile : new.profile[v] = row /\ ~InUse(KeyOf(u), row.value)
       /\ Partial(new.profile, Users, Profile)
  <2>1. CASE new.profile = NoRows
    BY <2>1, FreshIs DEF Partial, NoRows
  <2>2. CASE new.profile = [v \in {u} |-> row] /\ ~InUse(KeyOf(u), row.value)
    BY <2>2, <1>8, <1>10 DEF Partial
  <2> QED
    BY <1>11, <2>1, <2>2
<1>13. IsTx(new)
  <2>1. Partial(new.counter, Keys \X Tags, Number)
    BY <1>8, <1>9, <1>11 DEF Partial, Number
  <2> QED
    BY <1>7, <1>11, <1>12, <2>1 DEF IsTx, Fields
<1>14. Promised(new)
  <2>1. Backed(new)
    BY <1>7, <1>11, <1>12 DEF Promised, Backed, Holders, Tells
  <2>2. Numbered(new)
    <3>1. row.num = num /\ row.tag = id[2]
      BY <1>4
    <3> QED
      BY <1>9, <1>11, <1>12, <3>1 DEF Numbered, CounterOf
  <2>3. Formatted(new)
    BY <1>7, <1>8, <1>11, <1>12 DEF Promised, Formatted
  <2> QED
    BY <2>1, <2>2, <2>3 DEF Promised
<1>15. \A q \in Requests \ {r} : DOMAIN new.counter \cap DOMAIN tx[q].counter = {}
  BY <1>2, <1>3, <1>11 DEF Unlocked, idOf, cfgOf
<1>16. alone => Current(new)
  <2>1. alone => Current(t)
    BY <1>2 DEF Inv, SerialInv, Busy, t
  <2> QED
    BY <2>1, <1>11, <1>12 DEF Current, InUse, Distinct
<1>17. \A v \in Users : Tells(new, v) /\ ~new.audit[v].duplicates =>
          Tells(tx[r], v) /\ ~tx[r].audit[v].duplicates
  BY <1>11 DEF Tells, t
<1> QED
  BY <1>2, <1>6, <1>13, <1>14, <1>15, <1>16, <1>17, QuietKeeps
-----------------------------------------------------------------------------
(* A commit, table by table.                                               *)
LEMMA CommitUsers ==
    ASSUME Inv, NEW r \in Requests, Commit(r), NEW t, t = tx[r]
    PROVE  /\ DOMAIN user' = DOMAIN user \cup DOMAIN t.user
           /\ DOMAIN t.userSeen \subseteq DOMAIN user \cap DOMAIN t.user
           /\ (DOMAIN t.user \ DOMAIN t.userSeen) \cap DOMAIN user = {}
           /\ \A u \in DOMAIN user \ DOMAIN t.user : user'[u] = user[u]
           /\ \A u \in DOMAIN t.userSeen :
                 user'[u] = FlushedUser(user[u], t.userSeen[u], t.user[u])
           /\ \A u \in DOMAIN t.user \ DOMAIN t.userSeen : user'[u] = t.user[u]
<1>1. /\ ~Refused(t)
      /\ user' = Merged(user, [u \in DOMAIN t.user |->
                                 IF u \in DOMAIN t.userSeen
                                 THEN FlushedUser(user[u], t.userSeen[u], t.user[u])
                                 ELSE t.user[u]])
  BY DEF Commit
<1>2. IsTx(t) /\ Promised(t)
  BY DEF Inv, TypeOK, OpenInv
<1>3. DOMAIN t.userSeen \subseteq DOMAIN user \cap DOMAIN t.user
  BY <1>2 DEF IsTx, Partial, Promised, Backed
<1>4. (DOMAIN t.user \ DOMAIN t.userSeen) \cap DOMAIN user = {}
  BY <1>1 DEF Refused, ContactFree
<1>5. PICK rows : rows = [u \in DOMAIN t.user |->
                            IF u \in DOMAIN t.userSeen
                            THEN FlushedUser(user[u], t.userSeen[u], t.user[u])
                            ELSE t.user[u]]
  OBVIOUS
<1>6. /\ DOMAIN rows = DOMAIN t.user
      /\ \A u \in DOMAIN t.userSeen : rows[u] = FlushedUser(user[u], t.userSeen[u], t.user[u])
      /\ \A u \in DOMAIN t.user \ DOMAIN t.userSeen : rows[u] = t.user[u]
  BY <1>3, <1>5
<1>7. user' = Merged(user, rows)
  BY <1>1, <1>5
<1>8. /\ DOMAIN user' = DOMAIN user \cup DOMAIN rows
      /\ \A u \in DOMAIN rows : user'[u] = rows[u]
      /\ \A u \in DOMAIN user \ DOMAIN rows : user'[u] = user[u]
  BY <1>7 DEF Merged
<1> QED
  BY <1>3, <1>4, <1>6, <1>8

(* Columns are written one by one; the role is never written.              *)
LEMMA CommitStatus ==
    ASSUME Inv, NEW r \in Requests, Commit(r), NEW t, t = tx[r]
    PROVE  /\ Partial(user', Users, User)
           /\ \A u \in DOMAIN user : user'[u].role = user[u].role /\ KeyOf(u)' = KeyOf(u)
           /\ \A u \in DOMAIN user' : user'[u].status = "ACTIVE" =>
                 (u \in DOMAIN user /\ user[u].status = "ACTIVE") \/ Tells(t, u)
<1>0. /\ DOMAIN user' = DOMAIN user \cup DOMAIN t.user
      /\ DOMAIN t.userSeen \subseteq DOMAIN user \cap DOMAIN t.user
      /\ (DOMAIN t.user \ DOMAIN t.userSeen) \cap DOMAIN user = {}
      /\ \A u \in DOMAIN user \ DOMAIN t.user : user'[u] = user[u]
      /\ \A u \in DOMAIN t.userSeen :
            user'[u] = FlushedUser(user[u], t.userSeen[u], t.user[u])
      /\ \A u \in DOMAIN t.user \ DOMAIN t.userSeen : user'[u] = t.user[u]
  BY CommitUsers
<1>1. IsTx(t) /\ Promised(t) /\ Partial(user, Users, User)
  BY DEF Inv, TypeOK, OpenInv
<1>2. ASSUME NEW u \in DOMAIN user'
      PROVE  /\ u \in Users /\ user'[u] \in User
             /\ u \in DOMAIN user => user'[u].role = user[u].role
             /\ user'[u].status = "ACTIVE" =>
                   (u \in DOMAIN user /\ user[u].status = "ACTIVE") \/ Tells(t, u)
  <2>1. CASE u \in DOMAIN user \ DOMAIN t.user
    BY <1>0, <1>1, <2>1 DEF Partial
  <2>2. CASE u \in DOMAIN t.userSeen
    <3>1. user'[u] = FlushedUser(user[u], t.userSeen[u], t.user[u])
          /\ u \in DOMAIN user /\ u \in DOMAIN t.user
      BY <1>0, <2>2
    <3>2. user[u] \in User /\ t.userSeen[u] \in User /\ t.user[u] \in User /\ u \in Users
      BY <1>1, <2>2, <3>1 DEF IsTx, Partial
    <3>3. PICK now, seen, new : now = user[u] /\ seen = t.userSeen[u] /\ new = t.user[u]
      OBVIOUS
    <3>4. Column(now.active, seen.active, new.active) \in BOOLEAN
      BY <3>2, <3>3 DEF Column, User
    <3>5. Column(now.status, seen.status, new.status) \in {now.status, new.status}
      BY DEF Column
    <3>6. /\ FlushedUser(now, seen, new) \in User
          /\ FlushedUser(now, seen, new).role = now.role
          /\ FlushedUser(now, seen, new).status \in {now.status, new.status}
      BY <3>2, <3>3, <3>4, <3>5 DEF FlushedUser, User
    <3> QED
      BY <1>1, <3>1, <3>2, <3>3, <3>6 DEF Promised, Backed
  <2>3. CASE u \in DOMAIN t.user \ DOMAIN t.userSeen
    <3>1. user'[u] = t.user[u] /\ u \notin DOMAIN user
      BY <1>0, <2>3
    <3>2. u \in Users /\ t.user[u] \in User
      BY <1>1, <2>3 DEF IsTx, Partial
    <3> QED
      BY <1>1, <2>3, <3>1, <3>2 DEF Promised, Backed
  <2> QED
    BY <1>0, <2>1, <2>2, <2>3
<1>3. Partial(user', Users, User)
  <2>1. user' = [u \in DOMAIN user' |-> user'[u]]
    BY DEF Commit, Merged
  <2> QED
    BY <1>2, <2>1 DEF Partial
<1>4. \A u \in DOMAIN user : user'[u].role = user[u].role /\ KeyOf(u)' = KeyOf(u)
  BY <1>0, <1>2 DEF KeyOf
<1> QED
  BY <1>2, <1>3, <1>4

LEMMA CommitAudit ==
    ASSUME Inv, NEW r \in Requests, Commit(r), NEW t, t = tx[r]
    PROVE  /\ audit' \in [Users -> Seq(Audit)]
           /\ \A u \in Users : audit'[u] = IF u \in DOMAIN t.audit
                                           THEN Append(audit[u], t.audit[u]) ELSE audit[u]
           /\ \A u \in Users : Told(u) \/ Tells(t, u) => Told(u)'
           /\ \A u \in Users : Unseen(audit'[u]) =>
                 Unseen(audit[u]) \/ (Tells(t, u) /\ ~t.audit[u].duplicates)
<1>1. IsTx(t) /\ audit \in [Users -> Seq(Audit)]
  BY DEF Inv, TypeOK
<1>2. \A u \in DOMAIN t.audit : u \in Users /\ t.audit[u] \in Audit
  BY <1>1 DEF IsTx, Partial
<1>3. audit' = [u \in Users |-> IF u \in DOMAIN t.audit THEN Append(audit[u], t.audit[u])
                                ELSE audit[u]]
  BY DEF Commit
<1>4. audit' \in [Users -> Seq(Audit)]
  BY <1>1, <1>2, <1>3
<1>5. ASSUME NEW u \in Users
      PROVE  /\ Told(u) \/ Tells(t, u) => Told(u)'
             /\ Unseen(audit'[u]) => Unseen(audit[u]) \/ (Tells(t, u) /\ ~t.audit[u].duplicates)
  <2>1. CASE u \notin DOMAIN t.audit
    BY <1>3, <2>1 DEF Told, Tells
  <2>2. CASE u \in DOMAIN t.audit
    <3>1. PICK s, row : s = audit[u] /\ row = t.audit[u]
      OBVIOUS
    <3>2. audit'[u] = Append(s, row) /\ s \in Seq(Audit) /\ row \in Audit
      BY <1>1, <1>2, <1>3, <2>2, <3>1
    <3>3. /\ Len(Append(s, row)) = Len(s) + 1 /\ Len(s) \in Nat
          /\ \A i \in 1..Len(s) : Append(s, row)[i] = s[i]
          /\ Append(s, row)[Len(s) + 1] = row
      BY <3>2
    <3>4. Told(u) \/ Tells(t, u) => Told(u)'
      <4>1. ASSUME Told(u) PROVE Told(u)'
        <5>1. PICK i \in 1..Len(s) : s[i].to = "ACTIVE"
          BY <3>1, <4>1 DEF Told
        <5>2. i \in 1..Len(audit'[u]) /\ audit'[u][i].to = "ACTIVE"
          BY <3>2, <3>3, <5>1
        <5> QED
          BY <5>2 DEF Told
      <4>2. ASSUME Tells(t, u) PROVE Told(u)'
        <5>1. Len(s) + 1 \in 1..Len(audit'[u]) /\ audit'[u][Len(s) + 1].to = "ACTIVE"
          BY <3>1, <3>2, <3>3, <4>2 DEF Tells
        <5> QED
          BY <5>1 DEF Told
      <4> QED
        BY <4>1, <4>2
    <3>5. ASSUME Unseen(audit'[u])
          PROVE  Unseen(audit[u]) \/ (Tells(t, u) /\ ~t.audit[u].duplicates)
      <4>1. PICK i \in 1..(Len(s) + 1) :
               Append(s, row)[i].to = "ACTIVE" /\ ~Append(s, row)[i].duplicates
        BY <3>2, <3>3, <3>5 DEF Unseen
      <4>2. CASE i = Len(s) + 1
        BY <2>2, <3>1, <3>3, <4>1, <4>2 DEF Tells
      <4>3. CASE i # Len(s) + 1
        <5>1. i \in 1..Len(s)
          BY <3>3, <4>1, <4>3
        <5>2. s[i].to = "ACTIVE" /\ ~s[i].duplicates
          BY <3>3, <4>1, <5>1
        <5> QED
          BY <3>1, <5>1, <5>2 DEF Unseen
      <4> QED
        BY <4>2, <4>3
    <3> QED
      BY <3>4, <3>5
  <2> QED
    BY <2>1, <2>2
<1> QED
  BY <1>3, <1>4, <1>5

LEMMA CommitProfile ==
    ASSUME Inv, NEW r \in Requests, Commit(r), NEW t, t = tx[r]
    PROVE  /\ Partial(profile', Users, Profile)
           /\ DOMAIN profile' = DOMAIN profile \cup DOMAIN t.profile
           /\ DOMAIN profile \cap DOMAIN t.profile = {}
           /\ \A u \in DOMAIN profile : profile'[u] = profile[u]
           /\ \A u \in DOMAIN t.profile : profile'[u] = t.profile[u]
<1>1. /\ Partial(profile, Users, Profile) /\ Partial(t.profile, Users, Profile)
      /\ ~Refused(t) /\ profile' = Merged(profile, t.profile)
  BY DEF Inv, TypeOK, IsTx, Commit
<1>2. DOMAIN profile \cap DOMAIN t.profile = {}
  BY <1>1 DEF Refused
<1>3. /\ DOMAIN profile' = DOMAIN profile \cup DOMAIN t.profile
      /\ \A u \in DOMAIN profile : profile'[u] = profile[u]
      /\ \A u \in DOMAIN t.profile : profile'[u] = t.profile[u]
  BY <1>1, <1>2 DEF Merged
<1>4. Partial(profile', Users, Profile)
  BY <1>1 DEF Merged, Partial
<1> QED
  BY <1>2, <1>3, <1>4

(* The lock of a format is never taken back.                               *)
LEMMA CommitConfig ==
    ASSUME Inv, NEW r \in Requests, Commit(r), NEW t, t = tx[r]
    PROVE  /\ Partial(config', Keys, Config)
           /\ DOMAIN config' = DOMAIN config \cup DOMAIN t.config
           /\ DOMAIN t.configSeen \subseteq DOMAIN config \cap DOMAIN t.config
           /\ (DOMAIN t.config \ DOMAIN t.configSeen) \cap DOMAIN config = {}
           /\ \A key \in DOMAIN config \ DOMAIN t.config : config'[key] = config[key]
           /\ \A key \in DOMAIN t.configSeen :
                 config'[key] = FlushedConfig(config[key], t.configSeen[key], t.config[key])
           /\ \A key \in DOMAIN config : config[key].locked => config'[key].locked
           /\ \A key \in DOMAIN t.config : t.config[key].locked => config'[key].locked
<1>1. /\ IsTx(t) /\ Promised(t) /\ Partial(config, Keys, Config) /\ ~Refused(t)
      /\ config' = Merged(config, [k \in DOMAIN t.config |->
                                     IF k \in DOMAIN t.configSeen
                                     THEN FlushedConfig(config[k], t.configSeen[k], t.config[k])
                                     ELSE t.config[k]])
  BY DEF Inv, TypeOK, OpenInv, Commit
<1>2. /\ DOMAIN t.configSeen \subseteq DOMAIN config \cap DOMAIN t.config
      /\ (DOMAIN t.config \ DOMAIN t.configSeen) \cap DOMAIN config = {}
  BY <1>1 DEF IsTx, Partial, Promised, Formatted, Refused
<1>3. PICK rows : rows = [k \in DOMAIN t.config |->
                            IF k \in DOMAIN t.configSeen
                            THEN FlushedConfig(config[k], t.configSeen[k], t.config[k])
                            ELSE t.config[k]]
  OBVIOUS
<1>4. /\ DOMAIN rows = DOMAIN t.config
      /\ \A k \in DOMAIN t.configSeen :
            rows[k] = FlushedConfig(config[k], t.configSeen[k], t.config[k])
      /\ \A k \in DOMAIN t.config \ DOMAIN t.configSeen : rows[k] = t.config[k]
  BY <1>2, <1>3
<1>5. config' = Merged(config, rows)
  BY <1>1, <1>3
<1>6. /\ DOMAIN config' = DOMAIN config \cup DOMAIN t.config
      /\ \A k \in DOMAIN t.config : config'[k] = rows[k]
      /\ \A k \in DOMAIN config \ DOMAIN t.config : config'[k] = config[k]
      /\ config' = [k \in DOMAIN config' |-> config'[k]]
  BY <1>4, <1>5 DEF Merged
<1>7. ASSUME NEW k \in DOMAIN t.configSeen
      PROVE  /\ config'[k] \in Config
             /\ config[k].locked \/ t.config[k].locked => config'[k].locked
  <2>1. /\ config'[k] = FlushedConfig(config[k], t.configSeen[k], t.config[k])
        /\ config[k] \in Config /\ t.configSeen[k] \in Config /\ t.config[k] \in Config
        /\ t.configSeen[k].locked => config[k].locked /\ t.config[k].locked
    BY <1>1, <1>2, <1>4, <1>6 DEF IsTx, Partial, Promised, Formatted
  <2>2. PICK now, seen, new : now = config[k] /\ seen = t.configSeen[k] /\ new = t.config[k]
    OBVIOUS
  <2>3. /\ Column(now.locked, seen.locked, new.locked) \in BOOLEAN
        /\ Column(now.template, seen.template, new.template) \in Templates
        /\ Column(now.reset, seen.reset, new.reset) \in BOOLEAN
    BY <2>1, <2>2 DEF Column, Config
  <2>4. now.locked \/ new.locked => Column(now.locked, seen.locked, new.locked)
    BY <2>1, <2>2 DEF Column, Config
  <2>5. /\ FlushedConfig(now, seen, new) \in Config
        /\ FlushedConfig(now, seen, new).locked = Column(now.locked, seen.locked, new.locked)
    BY <2>3 DEF FlushedConfig, Config
  <2> QED
    BY <2>1, <2>2, <2>4, <2>5
<1>8. \A k \in DOMAIN t.config \ DOMAIN t.configSeen :
         config'[k] = t.config[k] /\ config'[k] \in Config
  BY <1>1, <1>4, <1>6 DEF IsTx, Partial
<1>9. \A k \in DOMAIN config' : config'[k] \in Config /\ k \in Keys
  BY <1>1, <1>6, <1>7, <1>8 DEF IsTx, Partial
<1>10. Partial(config', Keys, Config)
  BY <1>6, <1>9 DEF Partial
<1> QED
  BY <1>2, <1>4, <1>6, <1>7, <1>8, <1>10

(* A counter never goes back.                                              *)
LEMMA CommitCounter ==
    ASSUME Inv, NEW r \in Requests, Commit(r), NEW t, t = tx[r]
    PROVE  /\ Partial(counter', Keys \X Tags, Number)
           /\ DOMAIN counter' = DOMAIN counter \cup DOMAIN t.counter
           /\ \A id \in DOMAIN counter : counter[id] <= counter'[id]
           /\ \A id \in DOMAIN counter \ DOMAIN t.counter : counter'[id] = counter[id]
           /\ \A id \in DOMAIN t.counter : counter'[id] = t.counter[id]
<1>1. /\ Partial(counter, Keys \X Tags, Number) /\ Partial(t.counter, Keys \X Tags, Number)
      /\ Promised(t) /\ counter' = Merged(counter, t.counter)
  BY DEF Inv, TypeOK, OpenInv, IsTx, Commit
<1>2. /\ DOMAIN counter' = DOMAIN counter \cup DOMAIN t.counter
      /\ \A id \in DOMAIN counter \ DOMAIN t.counter : counter'[id] = counter[id]
      /\ \A id \in DOMAIN t.counter : counter'[id] = t.counter[id]
  BY <1>1 DEF Merged
<1>3. /\ \A id \in DOMAIN counter : counter[id] \in Nat
      /\ \A id \in DOMAIN t.counter : t.counter[id] \in Nat
      /\ \A id \in DOMAIN t.counter : id \in DOMAIN counter => counter[id] < t.counter[id]
  BY <1>1 DEF Partial, Number, Promised, Numbered
<1>4. \A id \in DOMAIN counter : counter[id] <= counter'[id]
  BY <1>2, <1>3
<1>5. Partial(counter', Keys \X Tags, Number)
  BY <1>1 DEF Merged, Partial
<1> QED
  BY <1>2, <1>4, <1>5

LEMMA CommitTx ==
    ASSUME Inv, NEW r \in Requests, Commit(r)
    PROVE  /\ \A q \in Requests : tx'[q] = IF q = r THEN Closed ELSE tx[q]
           /\ DOMAIN tx' = Requests /\ year' = year
           /\ IsTx(Closed) /\ Promised(Closed)
<1>1. tx' = [tx EXCEPT ![r] = Closed] /\ DOMAIN tx = Requests /\ year' = year
  BY DEF Commit, Inv, TypeOK
<1>2. IsTx(Closed) /\ Promised(Closed)
  BY ClosedIs, EmptyTyped, EmptyPromised
<1> QED
  BY <1>1, <1>2

LEMMA CommitPromises ==
    ASSUME Inv, NEW r \in Requests, Commit(r), NEW q \in Requests
    PROVE  Promised(tx[q])'
<1>1. PICK t : t = tx[r]
  OBVIOUS
<1>2. PICK s : s = tx'[q]
  OBVIOUS
<1>3. Promised(s)
  BY <1>2, CommitTx DEF Inv, OpenInv
<1>4. DOMAIN s.counter \cap DOMAIN t.counter = {}
  <2>1. CASE q = r
    BY <1>2, <2>1, CommitTx, ClosedIs, FreshIs
  <2>2. CASE q # r
    BY <1>1, <1>2, <2>2, CommitTx DEF Inv, OpenInv, Numbers
  <2> QED
    BY <2>1, <2>2
<1>5. DOMAIN user \subseteq DOMAIN user'
  BY <1>1, CommitUsers
<1>6. \A u \in DOMAIN user : KeyOf(u)' = KeyOf(u) /\ (Told(u) => Told(u)')
  <2>1. \A u \in DOMAIN user : KeyOf(u)' = KeyOf(u)
    BY <1>1, CommitStatus
  <2>2. \A u \in Users : Told(u) => Told(u)'
    BY <1>1, CommitAudit
  <2>3. DOMAIN user \subseteq Users
    BY DEF Inv, TypeOK, Partial
  <2> QED
    BY <2>1, <2>2, <2>3
<1>7. \A id \in DOMAIN s.counter : id \in DOMAIN counter' =>
         id \in DOMAIN counter /\ counter'[id] = counter[id]
  <2>1. /\ DOMAIN counter' = DOMAIN counter \cup DOMAIN t.counter
        /\ \A id \in DOMAIN counter \ DOMAIN t.counter : counter'[id] = counter[id]
    BY <1>1, CommitCounter
  <2> QED
    BY <1>4, <2>1
<1>8. \A key \in DOMAIN config : /\ key \in DOMAIN config'
                                 /\ config[key].locked => config'[key].locked
  <2>1. /\ DOMAIN config' = DOMAIN config \cup DOMAIN t.config
        /\ \A key \in DOMAIN config : config[key].locked => config'[key].locked
    BY <1>1, CommitConfig
  <2> QED
    BY <2>1
<1>9. Promised(s)'
  BY <1>3, <1>5, <1>6, <1>7, <1>8, PromiseStays
<1> QED
  BY <1>2, <1>9 DEF Promised, Backed, Numbered, Formatted, Holders, Tells

LEMMA CommitApprovals ==
    ASSUME Inv, NEW r \in Requests, Commit(r)
    PROVE  Approvals' /\ Namesaked'
<1>1. PICK t : t = tx[r]
  OBVIOUS
<1>2. /\ DOMAIN t.audit \subseteq DOMAIN user
      /\ \A u \in DOMAIN t.profile : u \in DOMAIN user /\ (Told(u) \/ Tells(t, u))
  BY <1>1 DEF Inv, OpenInv, Promised, Backed, Holders
<1>3. DOMAIN user \subseteq DOMAIN user' /\ DOMAIN user' \subseteq Users
  BY <1>1, CommitUsers, CommitStatus DEF Partial
<1>4. \A u \in DOMAIN user' : user'[u].status = "ACTIVE" =>
         (u \in DOMAIN user /\ user[u].status = "ACTIVE") \/ Tells(t, u)
  BY <1>1, CommitStatus
<1>5. /\ \A u \in Users : audit'[u] = IF u \in DOMAIN t.audit
                                      THEN Append(audit[u], t.audit[u]) ELSE audit[u]
      /\ \A u \in Users : Told(u) \/ Tells(t, u) => Told(u)'
      /\ \A u \in Users : Unseen(audit'[u]) =>
            Unseen(audit[u]) \/ (Tells(t, u) /\ ~t.audit[u].duplicates)
  BY <1>1, CommitAudit
<1>6. DOMAIN profile' = DOMAIN profile \cup DOMAIN t.profile
  BY <1>1, CommitProfile
<1>7. Approvals'
  <2>1. Approvals
    BY DEF Inv, OpenInv
  <2>2. DOMAIN profile' \subseteq DOMAIN user'
    BY <1>2, <1>3, <1>6, <2>1 DEF Approvals
  <2>3. \A u \in Users \ DOMAIN user' : audit'[u] = <<>>
    BY <1>2, <1>3, <1>5, <2>1 DEF Approvals
  <2>4. \A u \in DOMAIN user' : user'[u].status = "ACTIVE" => Told(u)'
    BY <1>3, <1>4, <1>5, <2>1 DEF Approvals
  <2>5. \A u \in DOMAIN profile' : Told(u)'
    BY <1>2, <1>3, <1>5, <1>6, <2>1, <2>2 DEF Approvals
  <2> QED
    BY <2>2, <2>3, <2>4, <2>5 DEF Approvals
<1>8. ASSUME NEW u \in Users, ApprovedUnseen(u)'
      PROVE  ApprovedUnseen(u)
  <2>1. CASE Unseen(audit'[u])
    BY <1>1, <1>5, <2>1 DEF ApprovedUnseen
  <2>2. ASSUME NEW q \in Requests, Tells(tx'[q], u), ~tx'[q].audit[u].duplicates
        PROVE  ApprovedUnseen(u)
    <3>1. q # r
      BY <2>2, CommitTx, ClosedIs, FreshIs DEF Tells
    <3>2. tx'[q] = tx[q]
      BY <3>1, CommitTx
    <3> QED
      BY <2>2, <3>2 DEF ApprovedUnseen
  <2> QED
    BY <1>8, <2>1, <2>2 DEF ApprovedUnseen, Unseen, Tells
<1>9. Namesaked'
  BY <1>8 DEF Namesaked, Inv, OpenInv
<1> QED
  BY <1>7, <1>9

LEMMA CommitNumbers ==
    ASSUME Inv, NEW r \in Requests, Commit(r)
    PROVE  Numbers' /\ Formats' /\ Constraints'
<1>1. PICK t : t = tx[r]
  OBVIOUS
<1>2. /\ Numbered(t) /\ Formatted(t)
      /\ \A u \in DOMAIN t.profile : u \in DOMAIN user
      /\ \A u, v \in DOMAIN t.profile : u = v
      /\ DOMAIN profile \subseteq DOMAIN user /\ ~Refused(t)
  BY <1>1 DEF Inv, OpenInv, Promised, Backed, Holders, Approvals, Commit
<1>3. \A u \in DOMAIN user : user'[u].role = user[u].role /\ KeyOf(u)' = KeyOf(u)
  BY <1>1, CommitStatus
<1>4. /\ Partial(profile', Users, Profile)
      /\ DOMAIN profile' = DOMAIN profile \cup DOMAIN t.profile
      /\ DOMAIN profile \cap DOMAIN t.profile = {}
      /\ \A u \in DOMAIN profile : profile'[u] = profile[u]
      /\ \A u \in DOMAIN t.profile : profile'[u] = t.profile[u]
  BY <1>1, CommitProfile
<1>5. /\ Partial(counter', Keys \X Tags, Number)
      /\ DOMAIN counter' = DOMAIN counter \cup DOMAIN t.counter
      /\ \A id \in DOMAIN counter : counter[id] <= counter'[id]
      /\ \A id \in DOMAIN t.counter : counter'[id] = t.counter[id]
  BY <1>1, CommitCounter
<1>6. /\ DOMAIN config' = DOMAIN config \cup DOMAIN t.config
      /\ \A key \in DOMAIN config : config[key].locked => config'[key].locked
      /\ \A key \in DOMAIN t.config : t.config[key].locked => config'[key].locked
  BY <1>1, CommitConfig
<1>7. \A u \in DOMAIN profile' : CounterOf(u, profile[u])' = CounterOf(u, profile'[u])
  BY <1>2, <1>3, <1>4 DEF CounterOf
<1>8. Numbers
  BY DEF Inv, OpenInv
<1>9. \A u \in DOMAIN profile' : profile'[u].num \in Nat
  BY <1>4 DEF Partial, Profile, Number
<1>10. \A id \in DOMAIN counter : counter[id] \in Nat /\ counter'[id] \in Nat
  BY <1>5 DEF Inv, TypeOK, Partial, Number
<1>11. ASSUME NEW u \in DOMAIN profile', ~profile'[u].custom
       PROVE  /\ CounterOf(u, profile'[u]) \in DOMAIN counter'
              /\ profile'[u].num <= counter'[CounterOf(u, profile'[u])]
  <2>1. CASE u \in DOMAIN profile
    BY <1>4, <1>5, <1>8, <1>9, <1>10, <1>11, <2>1 DEF Numbers
  <2>2. CASE u \in DOMAIN t.profile
    BY <1>2, <1>4, <1>5, <1>9, <1>11, <2>2 DEF Numbered
  <2> QED
    BY <1>4, <2>1, <2>2
(* A number just taken is above all that were issued from its counter.     *)
<1>12. ASSUME NEW u \in DOMAIN profile, NEW v \in DOMAIN t.profile,
              ~profile'[u].custom, ~profile'[v].custom,
              CounterOf(u, profile'[u]) = CounterOf(v, profile'[v])
       PROVE  profile'[u].num # profile'[v].num
  <2>1. PICK id : id = CounterOf(u, profile'[u])
    OBVIOUS
  <2>2. id \in DOMAIN counter /\ profile'[u].num <= counter[id]
    BY <1>4, <1>8, <1>12, <2>1 DEF Numbers
  <2>3. id \in DOMAIN t.counter /\ profile'[v].num = t.counter[id] /\ counter[id] < t.counter[id]
    BY <1>2, <1>4, <1>12, <2>1, <2>2 DEF Numbered
  <2> QED
    BY <1>4, <1>9, <1>10, <2>2, <2>3
<1>13. ASSUME NEW u \in DOMAIN profile', NEW v \in DOMAIN profile', u # v,
              ~profile'[u].custom, ~profile'[v].custom,
              CounterOf(u, profile'[u]) = CounterOf(v, profile'[v])
       PROVE  profile'[u].num # profile'[v].num
  <2>1. CASE u \in DOMAIN profile /\ v \in DOMAIN profile
    BY <1>4, <1>8, <1>13, <2>1 DEF Numbers
  <2>2. CASE u \in DOMAIN profile /\ v \in DOMAIN t.profile
    BY <1>12, <1>13, <2>2
  <2>3. CASE u \in DOMAIN t.profile /\ v \in DOMAIN profile
    BY <1>12, <1>13, <2>3
  <2>4. CASE u \in DOMAIN t.profile /\ v \in DOMAIN t.profile
    BY <1>2, <1>13, <2>4
  <2> QED
    BY <1>4, <2>1, <2>2, <2>3, <2>4
<1>14. \A q, p \in Requests : q # p => DOMAIN tx'[q].counter \cap DOMAIN tx'[p].counter = {}
  BY <1>8, CommitTx, ClosedIs, FreshIs DEF Numbers
<1>15. Numbers'
  BY <1>7, <1>11, <1>13, <1>14 DEF Numbers
<1>16. Formats'
  <2>1. Formats
    BY DEF Inv, OpenInv
  <2>2. ASSUME NEW u \in DOMAIN profile', ~profile'[u].custom
        PROVE  KeyOf(u)' \in DOMAIN config' /\ config'[KeyOf(u)'].locked
    <3>1. KeyOf(u)' = KeyOf(u)
      BY <1>2, <1>3, <1>4
    <3>2. CASE u \in DOMAIN profile
      BY <1>4, <1>6, <2>1, <2>2, <3>1, <3>2 DEF Formats
    <3>3. CASE u \in DOMAIN t.profile
      BY <1>2, <1>4, <1>6, <2>2, <3>1, <3>3 DEF Formatted
    <3> QED
      BY <1>4, <3>2, <3>3
  <2> QED
    BY <2>2 DEF Formats
<1>17. Constraints'
  <2>1. Constraints
    BY DEF Inv, OpenInv
  <2>2. \A u, v \in DOMAIN profile' : Clash(u, v)' <=> Clash(u, v)
    BY <1>2, <1>3, <1>4 DEF Clash
  <2>3. \A u \in DOMAIN t.profile, v \in DOMAIN profile :
           Clash(u, v) => t.profile[u].value # profile[v].value
    BY <1>2 DEF Refused
  <2>4. \A u, v : Clash(u, v) => Clash(v, u)
    BY DEF Clash
  <2>5. ASSUME NEW u \in DOMAIN profile', NEW v \in DOMAIN profile', u # v, Clash(u, v)
        PROVE  profile'[u].value # profile'[v].value
    <3>1. CASE u \in DOMAIN profile /\ v \in DOMAIN profile
      BY <1>4, <2>1, <2>5, <3>1 DEF Constraints
    <3>2. CASE u \in DOMAIN profile /\ v \in DOMAIN t.profile
      BY <1>4, <2>3, <2>4, <2>5, <3>2
    <3>3. CASE u \in DOMAIN t.profile /\ v \in DOMAIN profile
      BY <1>4, <2>3, <2>5, <3>3
    <3>4. CASE u \in DOMAIN t.profile /\ v \in DOMAIN t.profile
      BY <1>2, <2>5, <3>4
    <3> QED
      BY <1>4, <3>1, <3>2, <3>3, <3>4
  <2> QED
    BY <2>2, <2>5 DEF Constraints
<1> QED
  BY <1>15, <1>16, <1>17

(* A decision of the present status continues the audit.                   *)
LEMMA StoryGrows ==
    ASSUME NEW s \in Seq(Audit), NEW row \in Audit, row.from = Before(s, Len(s) + 1),
           \A i \in 1..Len(s) : s[i].from = Before(s, i),
           NEW new, new = Append(s, row)
    PROVE  /\ \A i \in 1..Len(new) : new[i].from = Before(new, i)
           /\ Before(new, Len(new) + 1) = row.to
<1>1. /\ Len(new) = Len(s) + 1 /\ Len(s) \in Nat
      /\ \A i \in 1..Len(s) : new[i] = s[i]
      /\ new[Len(s) + 1] = row
  OBVIOUS
<1>2. \A i \in 1..(Len(s) + 1) : Before(new, i) = Before(s, i)
  BY <1>1 DEF Before
<1>3. ASSUME NEW i \in 1..Len(new)
      PROVE  new[i].from = Before(new, i)
  <2>1. CASE i = Len(s) + 1
    BY <1>1, <1>2, <2>1
  <2>2. CASE i # Len(s) + 1
    BY <1>1, <1>2, <2>2
  <2> QED
    BY <2>1, <2>2
<1>4. Before(new, Len(new) + 1) = row.to
  <2>1. Len(new) + 1 # 1 /\ (Len(new) + 1) - 1 = Len(s) + 1
    BY <1>1
  <2> QED
    BY <1>1, <2>1 DEF Before
<1> QED
  BY <1>3, <1>4

(* What a request that was alone had read is what its commit changes.      *)
LEMMA CommitStory ==
    ASSUME Inv, NEW r \in Requests, Commit(r), alone, NEW u \in DOMAIN user'
    PROVE  Story(u)'
<1>1. PICK t : t = tx[r]
  OBVIOUS
<1>2. Current(t) /\ IsTx(t) /\ Partial(user, Users, User) /\ audit \in [Users -> Seq(Audit)]
  <2>1. Busy(r)
    BY DEF Commit, Busy
  <2> QED
    BY <1>1, <2>1 DEF Inv, SerialInv, TypeOK
<1>3. /\ DOMAIN user' = DOMAIN user \cup DOMAIN t.user
      /\ DOMAIN t.userSeen \subseteq DOMAIN user \cap DOMAIN t.user
      /\ (DOMAIN t.user \ DOMAIN t.userSeen) \cap DOMAIN user = {}
      /\ \A v \in DOMAIN user \ DOMAIN t.user : user'[v] = user[v]
      /\ \A v \in DOMAIN t.userSeen :
            user'[v] = FlushedUser(user[v], t.userSeen[v], t.user[v])
      /\ \A v \in DOMAIN t.user \ DOMAIN t.userSeen : user'[v] = t.user[v]
  BY <1>1, CommitUsers
<1>4. /\ Partial(user', Users, User)
      /\ \A v \in Users : audit'[v] = IF v \in DOMAIN t.audit
                                      THEN Append(audit[v], t.audit[v]) ELSE audit[v]
  BY <1>1, CommitStatus, CommitAudit
<1>5. u \in Users
  BY <1>4 DEF Partial
<1>6. /\ DOMAIN t.audit \subseteq DOMAIN t.userSeen
      /\ \A v \in DOMAIN t.user :
            /\ t.user[v].active <=> t.user[v].status = "ACTIVE"
            /\ IF v \in DOMAIN t.userSeen
               THEN /\ t.userSeen[v] = user[v] /\ v \in DOMAIN t.audit
                    /\ t.audit[v].from = user[v].status /\ t.audit[v].to = t.user[v].status
               ELSE v \notin DOMAIN t.audit /\ t.user[v].status = "PENDING_APPROVAL"
  BY <1>2 DEF Current
<1>7. u \in DOMAIN user => Story(u)
  BY DEF Inv, SerialInv
<1>8. CASE u \in DOMAIN user \ DOMAIN t.user
  <2>1. user'[u] = user[u] /\ audit'[u] = audit[u] /\ Story(u)
    BY <1>3, <1>4, <1>5, <1>6, <1>7, <1>8
  <2> QED
    BY <2>1 DEF Story
<1>9. CASE u \in DOMAIN t.user \ DOMAIN t.userSeen
  <2>1. /\ user'[u].status = "PENDING_APPROVAL" /\ user'[u].status # "ACTIVE"
        /\ user'[u].active <=> user'[u].status = "ACTIVE"
    BY <1>3, <1>6, <1>9
  <2>2. audit'[u] = <<>>
    BY <1>3, <1>4, <1>5, <1>6, <1>9 DEF Inv, OpenInv, Approvals
  <2> QED
    BY <2>1, <2>2 DEF Story, Before
<1>10. CASE u \in DOMAIN t.userSeen
  <2>1. PICK s, row, now, new : s = audit[u] /\ row = t.audit[u] /\ now = user[u] /\ new = t.user[u]
    OBVIOUS
  <2>2. /\ s \in Seq(Audit) /\ row \in Audit /\ now \in User /\ new \in User
        /\ user'[u] = FlushedUser(now, now, new) /\ audit'[u] = Append(s, row)
        /\ row.from = now.status /\ row.to = new.status
        /\ new.active <=> new.status = "ACTIVE"
        /\ \A i \in 1..Len(s) : s[i].from = Before(s, i)
        /\ now.status = Before(s, Len(s) + 1)
    <3>1. row \in Audit /\ now \in User /\ new \in User
      BY <1>2, <1>3, <1>6, <1>10, <2>1 DEF IsTx, Partial
    <3>2. /\ \A i \in 1..Len(s) : s[i].from = Before(s, i)
          /\ now.status = Before(s, Len(s) + 1)
      BY <1>3, <1>7, <1>10, <2>1 DEF Story
    <3> QED
      BY <1>2, <1>3, <1>4, <1>5, <1>6, <1>10, <2>1, <3>1, <3>2
  <2>3. /\ FlushedUser(now, now, new).status = new.status
        /\ FlushedUser(now, now, new).active = new.active
    BY DEF FlushedUser, Column
  <2>4. PICK all : all = Append(s, row)
    OBVIOUS
  <2>5. /\ \A i \in 1..Len(all) : all[i].from = Before(all, i)
        /\ Before(all, Len(all) + 1) = row.to
    BY <2>2, <2>4, StoryGrows
  <2>6. user'[u].status = row.to /\ (user'[u].active <=> user'[u].status = "ACTIVE")
    BY <2>2, <2>3
  <2> QED
    BY <2>2, <2>4, <2>5, <2>6 DEF Story
<1> QED
  BY <1>3, <1>8, <1>9, <1>10

LEMMA CommitSerial ==
    ASSUME Inv, NEW r \in Requests, Commit(r), AloneStep
    PROVE  SerialInv'
<1> SUFFICES ASSUME alone'
             PROVE  /\ Alone' /\ \A u \in DOMAIN user' : Story(u)'
                    /\ \A u, v \in DOMAIN profile' :
                          u # v /\ (KeyOf(u) = KeyOf(v))' => profile'[u].value # profile'[v].value
                    /\ \A q \in Requests : Busy(q)' => Current(tx[q])'
  BY DEF SerialInv
<1>1. alone /\ Alone'
  BY DEF AloneStep
<1>2. \A u \in DOMAIN user' : Story(u)'
  BY <1>1, CommitStory
<1>3. PICK t : t = tx[r]
  OBVIOUS
<1>4. Busy(r) /\ Alone /\ Current(t)
  BY <1>1, <1>3 DEF Commit, Busy, Inv, SerialInv
<1>5. \A q \in Requests : ~Busy(q)'
  BY <1>4, CommitTx, ClosedIs DEF Alone, Busy
<1>6. /\ \A u \in DOMAIN t.profile : u \in DOMAIN user
      /\ \A u, v \in DOMAIN t.profile : u = v
      /\ DOMAIN profile \subseteq DOMAIN user
  BY <1>3 DEF Inv, OpenInv, Promised, Backed, Holders, Approvals
<1>7. /\ DOMAIN profile' = DOMAIN profile \cup DOMAIN t.profile
      /\ DOMAIN profile \cap DOMAIN t.profile = {}
      /\ \A u \in DOMAIN profile : profile'[u] = profile[u]
      /\ \A u \in DOMAIN t.profile : profile'[u] = t.profile[u]
  BY <1>3, CommitProfile
<1>8. \A u \in DOMAIN profile' : KeyOf(u)' = KeyOf(u)
  <2>1. \A u \in DOMAIN user : KeyOf(u)' = KeyOf(u)
    BY <1>3, CommitStatus
  <2> QED
    BY <1>6, <1>7, <2>1
<1>9. ASSUME NEW u \in DOMAIN profile', NEW v \in DOMAIN profile', u # v, KeyOf(u) = KeyOf(v)
      PROVE  profile'[u].value # profile'[v].value
  <2>1. CASE u \in DOMAIN profile /\ v \in DOMAIN profile
    BY <1>1, <1>7, <1>9, <2>1 DEF Inv, SerialInv
  <2>2. CASE u \in DOMAIN t.profile /\ v \in DOMAIN profile
    BY <1>4, <1>7, <1>9, <2>2 DEF Current, Distinct
  <2>3. CASE u \in DOMAIN profile /\ v \in DOMAIN t.profile
    BY <1>4, <1>7, <1>9, <2>3 DEF Current, Distinct
  <2>4. CASE u \in DOMAIN t.profile /\ v \in DOMAIN t.profile
    BY <1>6, <1>9, <2>4
  <2> QED
    BY <1>7, <2>1, <2>2, <2>3, <2>4
<1> QED
  BY <1>1, <1>2, <1>5, <1>8, <1>9

LEMMA CommitKeeps ==
    ASSUME Inv, NEW r \in Requests, Commit(r), AloneStep
    PROVE  Inv'
<1>1. PICK t : t = tx[r]
  OBVIOUS
<1>2. TypeOK'
  <2>1. Partial(user', Users, User) /\ Partial(profile', Users, Profile)
    BY <1>1, CommitStatus, CommitProfile
  <2>2. Partial(config', Keys, Config) /\ Partial(counter', Keys \X Tags, Number)
    BY <1>1, CommitConfig, CommitCounter
  <2>3. audit' \in [Users -> Seq(Audit)]
    BY <1>1, CommitAudit
  <2>4. \A q \in Requests : IsTx(tx'[q])
    BY CommitTx DEF Inv, TypeOK
  <2>5. DOMAIN tx' = Requests /\ year' \in Year
    BY CommitTx DEF Inv, TypeOK
  <2>6. alone' \in BOOLEAN
    BY Zenon DEF AloneStep
  <2> QED
    BY <2>1, <2>2, <2>3, <2>4, <2>5, <2>6 DEF TypeOK
<1>3. \A q \in Requests : Promised(tx[q])'
  BY CommitPromises
<1>4. Approvals' /\ Namesaked' /\ Numbers' /\ Formats' /\ Constraints'
  BY CommitApprovals, CommitNumbers
<1>5. SerialInv'
  BY CommitSerial
<1> QED
  BY <1>2, <1>3, <1>4, <1>5 DEF Inv, OpenInv
-----------------------------------------------------------------------------
(* Every step.                                                             *)
LEMMA StillOpen ==
    ASSUME Inv, user' = user, audit' = audit, profile' = profile, config' = config,
           counter' = counter, tx' = tx
    PROVE  OpenInv'
<1>1. ASSUME NEW r \in Requests PROVE Promised(tx[r])'
  <2>1. Promised(tx[r])
    BY DEF Inv, OpenInv
  <2>2. \A u : KeyOf(u)' = KeyOf(u) /\ (Told(u)' <=> Told(u))
    BY DEF KeyOf, Told
  <2>3. \A u, row : CounterOf(u, row)' = CounterOf(u, row)
    BY <2>2 DEF CounterOf
  <2>4. PICK t : t = tx[r]
    OBVIOUS
  <2>5. Promised(t)'
    BY <2>1, <2>2, <2>4, PromiseStays
  <2>6. t = tx'[r]
    BY <2>4
  <2> QED
    BY <2>5, <2>6 DEF Promised, Backed, Numbered, Formatted, Holders, Tells
<1>2. Approvals' /\ Formats' /\ Constraints'
  <2>1. Approvals'
    BY DEF Inv, OpenInv, Approvals, Told
  <2>2. Formats'
    BY DEF Inv, OpenInv, Formats, KeyOf
  <2>3. Constraints'
    BY DEF Inv, OpenInv, Constraints, Clash
  <2> QED
    BY <2>1, <2>2, <2>3
<1>3. Numbers'
  BY DEF Inv, OpenInv, Numbers, CounterOf, KeyOf
<1>4. Namesaked'
  <2>1. \A u : ApprovedUnseen(u)' <=> ApprovedUnseen(u)
    BY DEF ApprovedUnseen, Unseen, Tells
  <2> QED
    BY <2>1 DEF Inv, OpenInv, Namesaked
<1> QED
  BY <1>1, <1>2, <1>3, <1>4 DEF OpenInv

LEMMA NewYearKeeps ==
    ASSUME Inv, NewYear, AloneStep
    PROVE  Inv'
<1>1. /\ user' = user /\ audit' = audit /\ profile' = profile /\ config' = config
      /\ counter' = counter /\ tx' = tx /\ year' = year + 1 /\ year < MaxYear
  BY DEF NewYear
<1>2. TypeOK'
  <2>1. alone' \in BOOLEAN
    BY Zenon DEF AloneStep
  <2>2. year' \in Year
    BY <1>1, AdmissionConstants DEF Inv, TypeOK, Year
  <2> QED
    BY <1>1, <2>1, <2>2 DEF Inv, TypeOK
<1>3. OpenInv'
  BY <1>1, StillOpen
<1>4. SerialInv'
  <2> SUFFICES ASSUME alone'
               PROVE  /\ Alone' /\ \A u \in DOMAIN user' : Story(u)'
                      /\ \A u, v \in DOMAIN profile' :
                            u # v /\ (KeyOf(u) = KeyOf(v))' => profile'[u].value # profile'[v].value
                      /\ \A r \in Requests : Busy(r)' => Current(tx[r])'
    BY DEF SerialInv
  <2>1. alone /\ Alone'
    BY DEF AloneStep
  <2>2. \A u \in DOMAIN user' : Story(u)'
    BY <1>1, <2>1 DEF Inv, SerialInv, Story
  <2>3. \A u, v \in DOMAIN profile' :
           u # v /\ (KeyOf(u) = KeyOf(v))' => profile'[u].value # profile'[v].value
    BY <1>1, <2>1 DEF Inv, SerialInv, KeyOf
  <2>4. ASSUME NEW r \in Requests, Busy(r)' PROVE Current(tx[r])'
    <3>1. Current(tx[r])
      BY <1>1, <2>1, <2>4 DEF Inv, SerialInv, Busy
    <3>2. /\ \A key, value : Distinct(key, value)' <=> Distinct(key, value)
          /\ \A u : KeyOf(u)' = KeyOf(u)
      BY <1>1 DEF Distinct, KeyOf
    <3>3. PICK t : t = tx[r]
      OBVIOUS
    <3>4. Current(t)'
      BY <1>1, <3>1, <3>2, <3>3 DEF Current
    <3>5. t = tx'[r]
      BY <1>1, <3>3
    <3> QED
      BY <3>4, <3>5 DEF Current
  <2> QED
    BY <2>1, <2>2, <2>3, <2>4
<1> QED
  BY <1>2, <1>3, <1>4 DEF Inv

LEMMA InitHolds == Init => Inv
<1> SUFFICES ASSUME Init PROVE Inv
  OBVIOUS
<1>1. /\ audit = [u \in Users |-> <<>>] /\ profile = NoRows /\ config = NoRows
      /\ counter = NoRows /\ year = 1 /\ tx = [r \in Requests |-> Fresh] /\ alone = TRUE
  BY DEF Init
<1>2. PICK S \in SUBSET Users : \E role \in [S -> Roles] : user = [u \in S |-> Registered(role[u])]
  BY DEF Init
<1>3. PICK role \in [S -> Roles] : user = [u \in S |-> Registered(role[u])]
  BY <1>2
<1>4. \A role_ \in Roles : /\ Registered(role_) \in User
                           /\ Registered(role_).status = "PENDING_APPROVAL"
                           /\ Registered(role_).active = FALSE
  BY DEF Registered, User, UserStatus
<1>5. Partial(user, Users, User) /\ \A u \in DOMAIN user : /\ user[u].status = "PENDING_APPROVAL"
                                                           /\ user[u].active = FALSE
  BY <1>3, <1>4 DEF Partial
<1>6. IsTx(Fresh) /\ Promised(Fresh)
  BY FreshIs, EmptyTyped, EmptyPromised
<1>7. \A r \in Requests : tx[r] = Fresh
  BY <1>1
<1>8. TypeOK
  <2>1. \A S_, T : Partial(NoRows, S_, T)
    BY DEF NoRows, Partial
  <2>2. year \in Year
    BY <1>1, AdmissionConstants DEF Year
  <2>3. audit \in [Users -> Seq(Audit)]
    BY <1>1
  <2> QED
    BY <1>1, <1>5, <1>6, <1>7, <2>1, <2>2, <2>3 DEF TypeOK
<1>9. DOMAIN profile = {} /\ \A u \in Users : audit[u] = <<>>
  BY <1>1, FreshIs
<1>10. OpenInv
  <2>1. \A r \in Requests : Promised(tx[r])
    BY <1>6, <1>7
  <2>2. Approvals
    BY <1>5, <1>9 DEF Approvals
  <2>3. Numbers /\ Formats /\ Constraints
    BY <1>7, <1>9, FreshIs DEF Numbers, Formats, Constraints
  <2>4. \A u \in Users : ~ApprovedUnseen(u)
    BY <1>7, <1>9, FreshIs DEF ApprovedUnseen, Unseen, Tells
  <2> QED
    BY <2>1, <2>2, <2>3, <2>4 DEF OpenInv, Namesaked
<1>11. SerialInv
  <2>1. \A r \in Requests : ~Busy(r)
    BY <1>7, FreshIs DEF Busy
  <2>2. \A u \in DOMAIN user : Story(u)
    BY <1>5, <1>9 DEF Story, Before, Partial
  <2> QED
    BY <1>9, <2>1, <2>2 DEF SerialInv, Alone
<1> QED
  BY <1>8, <1>10, <1>11 DEF Inv

LEMMA NextKeeps == Inv /\ [Next]_vars => Inv'
<1> SUFFICES ASSUME Inv, [Next]_vars PROVE Inv'
  OBVIOUS
<1>1. CASE Next
  <2>1. AloneStep
    BY <1>1, Zenon DEF Next, AloneStep, Alone
  <2>2. ASSUME NEW r \in Requests, Handle(r) \/ TakeNumber(r) \/ Commit(r) \/ Abort(r)
        PROVE  Inv'
    BY <2>1, <2>2, HandleKeeps, TakeKeeps, CommitKeeps, AbortKeeps
  <2>3. CASE NewYear
    BY <2>1, <2>3, NewYearKeeps
  <2> QED
    BY <1>1, <2>2, <2>3, Zenon DEF Next
<1>2. CASE UNCHANGED vars
  <2>1. /\ user' = user /\ audit' = audit /\ profile' = profile /\ config' = config
        /\ counter' = counter /\ year' = year /\ tx' = tx /\ alone' = alone
    BY <1>2 DEF vars
  <2>2. TypeOK'
    BY <2>1 DEF Inv, TypeOK
  <2>3. OpenInv'
    BY <2>1, StillOpen
  <2>4. SerialInv'
    BY <2>1 DEF Inv, SerialInv, Alone, Busy, Story, KeyOf, Current, Distinct
  <2> QED
    BY <2>2, <2>3, <2>4 DEF Inv
<1> QED
  BY <1>1, <1>2
-----------------------------------------------------------------------------
(* The invariant holds in every state of every behaviour: nothing is ever  *)
(* issued, approved or locked that is not backed by what the requests      *)
(* committed, and what a request that was alone had read is still so.      *)
THEOREM Invariant == Spec => []Inv
<1>1. Init => Inv
  BY InitHolds
<1>2. Inv /\ [Next]_vars => Inv'
  BY NextKeeps
<1> QED
  BY <1>1, <1>2, PTL DEF Spec

(* Every table keeps its type: statuses, audit rows, identifiers, formats  *)
(* and counters are of the kinds the models declare, in open requests too. *)
THEOREM TypeCorrect == Spec => []TypeOK
<1>1. Inv => TypeOK
  BY DEF Inv
<1> QED
  BY <1>1, Invariant, PTL

(* No number of a school, a type and a year is issued twice, no counter is *)
(* behind a number issued, and students and teachers never share an        *)
(* identifier, however requests overlap; parents do not while none has.    *)
THEOREM IdentifiersUnique == Spec => []UniqueIdentifiers
<1>1. ASSUME Inv PROVE UniqueIdentifiers
  <2>1. ASSUME NEW u \in DOMAIN profile, NEW v \in DOMAIN profile
        PROVE  /\ ~profile[u].custom =>
                     /\ <<KeyOf(u), profile[u].tag>> \in DOMAIN counter
                     /\ profile[u].num <= counter[<<KeyOf(u), profile[u].tag>>]
                     /\ u # v /\ ~profile[v].custom
                           /\ <<KeyOf(u), profile[u].tag>> = <<KeyOf(v), profile[v].tag>>
                           => profile[u].num # profile[v].num
               /\ u # v /\ KeyOf(u) = KeyOf(v) /\ profile[u].value = profile[v].value
                     => user[u].role = "PARENT" /\ ~alone
    <3>1. ~profile[u].custom =>
             /\ <<KeyOf(u), profile[u].tag>> \in DOMAIN counter
             /\ profile[u].num <= counter[<<KeyOf(u), profile[u].tag>>]
             /\ u # v /\ ~profile[v].custom
                   /\ <<KeyOf(u), profile[u].tag>> = <<KeyOf(v), profile[v].tag>>
                   => profile[u].num # profile[v].num
      BY <1>1, <2>1 DEF Inv, OpenInv, Numbers, CounterOf
    <3>2. ASSUME u # v, KeyOf(u) = KeyOf(v), profile[u].value = profile[v].value
          PROVE  user[u].role = "PARENT" /\ ~alone
      <4>1. ~alone
        BY <1>1, <2>1, <3>2 DEF Inv, SerialInv
      <4>2. School[u] = School[v] /\ user[u].role = user[v].role
        BY <3>2 DEF KeyOf
      <4>3. ~Clash(u, v)
        BY <1>1, <2>1, <3>2 DEF Inv, OpenInv, Constraints
      <4>4. user[u].role \in {"STUDENT", "TEACHER", "PARENT"}
        BY <1>1, <2>1, AdmissionConstants
           DEF Inv, OpenInv, Approvals, TypeOK, Partial, User
      <4> QED
        BY <4>1, <4>2, <4>3, <4>4 DEF Clash
    <3> QED
      BY <3>1, <3>2
  <2> QED
    BY <2>1 DEF UniqueIdentifiers
<1> QED
  BY <1>1, Invariant, PTL

(* Of two people of one school and one name at most one is ever approved   *)
(* by a decision that did not list the other, in every interleaving.       *)
THEOREM NamesakesHold == Spec => []NamesakesNeedOverride
<1>1. ASSUME Inv PROVE NamesakesNeedOverride
  <2>1. \A u \in Users : (\E i \in DOMAIN audit[u] : /\ audit[u][i].to = "ACTIVE"
                                                     /\ ~audit[u][i].duplicates)
                            => ApprovedUnseen(u)
    <3>1. \A u \in Users : DOMAIN audit[u] = 1..Len(audit[u])
      BY <1>1 DEF Inv, TypeOK
    <3> QED
      BY <3>1 DEF ApprovedUnseen, Unseen
  <2> QED
    BY <1>1, <2>1 DEF NamesakesNeedOverride, Inv, OpenInv, Namesaked
<1> QED
  BY <1>1, Invariant, PTL

(* Whoever has an identifier was approved by a recorded decision; and      *)
(* while no handlers have overlapped the audit leads, row by row, from the *)
(* registration to the present status, and is_active says ACTIVE.          *)
THEOREM AuditsTell == Spec => []AuditTellsStatus
<1>1. ASSUME Inv PROVE AuditTellsStatus
  <2>1. audit \in [Users -> Seq(Audit)] /\ DOMAIN user \subseteq Users
    BY <1>1 DEF Inv, TypeOK, Partial
  <2>2. ASSUME NEW u \in DOMAIN profile
        PROVE  \E i \in DOMAIN audit[u] : audit[u][i].to = "ACTIVE"
    <3>1. u \in Users /\ Told(u)
      BY <1>1, <2>1 DEF Inv, OpenInv, Approvals
    <3>2. DOMAIN audit[u] = 1..Len(audit[u])
      BY <2>1, <3>1
    <3> QED
      BY <3>1, <3>2 DEF Told
  <2>3. ASSUME alone, NEW u \in DOMAIN user
        PROVE  Story(u)
    BY <1>1, <2>3 DEF Inv, SerialInv
  <2> QED
    BY <2>2, <2>3 DEF AuditTellsStatus, Story, Before
<1> QED
  BY <1>1, Invariant, PTL

(* While no handlers have overlapped, a format from which an identifier    *)
(* has been generated keeps its template and its yearly reset.             *)
THEOREM FormatStays == Spec => FormatFrozen
<1>1. ASSUME Inv, [Next]_vars
      PROVE  [alone' => \A key \in DOMAIN config :
                (\E u \in DOMAIN profile : KeyOf(u) = key /\ ~profile[u].custom)
                   => /\ config'[key].template = config[key].template
                      /\ config'[key].reset = config[key].reset]_vars
  <2> SUFFICES ASSUME Next, alone', NEW key \in DOMAIN config,
                      NEW u \in DOMAIN profile, KeyOf(u) = key, ~profile[u].custom
               PROVE  /\ config'[key].template = config[key].template
                      /\ config'[key].reset = config[key].reset
    BY <1>1
  <2>1. alone
    BY DEF Next
  <2>2. CASE config' = config
    BY <2>2
  <2>3. ASSUME NEW r \in Requests, Commit(r)
        PROVE  /\ config'[key].template = config[key].template
               /\ config'[key].reset = config[key].reset
    <3>1. PICK t : t = tx[r]
      OBVIOUS
    <3>2. Current(t)
      BY <1>1, <2>1, <2>3, <3>1 DEF Inv, SerialInv, Commit, Busy
    <3>3. config[key].locked
      BY <1>1 DEF Inv, OpenInv, Formats
    <3>4. /\ (DOMAIN t.config \ DOMAIN t.configSeen) \cap DOMAIN config = {}
          /\ \A k \in DOMAIN config \ DOMAIN t.config : config'[k] = config[k]
          /\ \A k \in DOMAIN t.configSeen :
                config'[k] = FlushedConfig(config[k], t.configSeen[k], t.config[k])
      BY <1>1, <2>3, <3>1, CommitConfig
    <3>5. CASE key \in DOMAIN t.configSeen
      <4>1. /\ t.configSeen[key] = config[key]
            /\ t.config[key].template = config[key].template
            /\ t.config[key].reset = config[key].reset
        BY <3>2, <3>3, <3>5 DEF Current
      <4>2. PICK now, new : now = config[key] /\ new = t.config[key]
        OBVIOUS
      <4>3. /\ FlushedConfig(now, now, new).template = new.template
            /\ FlushedConfig(now, now, new).reset = new.reset
        BY DEF FlushedConfig, Column
      <4>4. config'[key] = FlushedConfig(now, now, new)
        BY <3>4, <3>5, <4>1, <4>2
      <4> QED
        BY <4>1, <4>2, <4>3, <4>4
    <3>6. CASE key \notin DOMAIN t.configSeen
      BY <3>4, <3>6
    <3> QED
      BY <3>5, <3>6
  <2>4. ASSUME NEW r \in Requests, Handle(r) \/ TakeNumber(r) \/ Abort(r)
        PROVE  config' = config
    <3>1. \A work : Begin(r, work) => config' = config
      BY DEF Begin, Committed
    <3> QED
      BY <2>4, <3>1, Zenon
         DEF Handle, Register, Decide, ApproveWithProfile, ApproveWithCustom, CreateProfile,
             CreateProfileCustom, UpsertConfig, ListConfigs, TakeNumber, Abort, Committed
  <2>5. NewYear => config' = config
    BY DEF NewYear
  <2> QED
    BY <2>2, <2>3, <2>4, <2>5, Zenon DEF Next
<1> QED
  BY <1>1, Invariant, PTL DEF Spec, FormatFrozen
-----------------------------------------------------------------------------
(* What Membership sees of a state: roles, and whose approval is on record.*)
RolesOf == [u \in DOMAIN user |-> user[u].role]
OnRecord == {u \in Users : \E i \in DOMAIN audit[u] : audit[u][i].to = "ACTIVE"}

LEMMA OnRecordIs ==
    ASSUME Inv
    PROVE  /\ \A u \in Users : u \in OnRecord <=> Told(u)
           /\ OnRecord \subseteq DOMAIN user /\ DOMAIN user \subseteq Users
           /\ DOMAIN profile \subseteq OnRecord
           /\ DOMAIN RolesOf = DOMAIN user /\ \A u \in DOMAIN user : RolesOf[u] = user[u].role
<1>1. audit \in [Users -> Seq(Audit)] /\ DOMAIN user \subseteq Users
  BY DEF Inv, TypeOK, Partial
<1>2. \A u \in Users : DOMAIN audit[u] = 1..Len(audit[u])
  BY <1>1
<1>3. \A u \in Users : u \in OnRecord <=> Told(u)
  BY <1>2 DEF OnRecord, Told
<1>4. ASSUME NEW u \in OnRecord PROVE u \in DOMAIN user
  <2>1. u \in Users /\ Told(u)
    BY <1>3, <1>4 DEF OnRecord
  <2>2. audit[u] # <<>>
    BY <2>1 DEF Told
  <2> QED
    BY <2>1, <2>2 DEF Inv, OpenInv, Approvals
<1>5. DOMAIN profile \subseteq OnRecord
  BY <1>1, <1>3 DEF Inv, OpenInv, Approvals
<1> QED
  BY <1>1, <1>3, <1>4, <1>5 DEF RolesOf

(* No handler changes a row of a user, of the audit or of a profile.       *)
LEMMA QuietMembers ==
    ASSUME Inv, user' = user, audit' = audit, profile' = profile, alone' => alone
    PROVE  Members!Transaction
<1>1. RolesOf' = RolesOf /\ OnRecord' = OnRecord
  BY DEF RolesOf, OnRecord
<1>2. Members!Grows(RolesOf, RolesOf') /\ Members!Grows(profile, profile')
  BY <1>1 DEF Members!Grows
<1>3. DOMAIN RolesOf' \subseteq Users /\ OnRecord \subseteq OnRecord' /\ OnRecord' \subseteq DOMAIN RolesOf
  BY <1>1, OnRecordIs
<1> QED
  BY <1>2, <1>3 DEF Members!Transaction, RolesOf, OnRecord

(* A generated number is above all that were issued from its counter, and  *)
(* the database, or the check of a handler that was alone, keeps           *)
(* identifiers apart.                                                      *)
LEMMA CommitIssues ==
    ASSUME Inv, Inv', NEW r \in Requests, Commit(r), NEW u \in DOMAIN profile' \ DOMAIN profile,
           NEW v \in DOMAIN profile
    PROVE  /\ u \in DOMAIN user /\ v \in DOMAIN user
           /\ School[u] = School[v] /\ user[u].role = user[v].role =>
                 /\ user[u].role # "PARENT" \/ alone' => profile'[u].value # profile[v].value
                 /\ ~profile'[u].custom /\ ~profile[v].custom /\ profile'[u].tag = profile[v].tag
                       => profile'[u].num > profile[v].num
<1>1. PICK t : t = tx[r]
  OBVIOUS
<1>2. /\ Numbered(t) /\ Numbers
      /\ \A w \in DOMAIN t.profile : w \in DOMAIN user
      /\ DOMAIN profile \subseteq DOMAIN user
  BY <1>1 DEF Inv, OpenInv, Promised, Backed, Holders, Approvals
<1>3. \A w \in DOMAIN user : user'[w].role = user[w].role /\ KeyOf(w)' = KeyOf(w)
  BY <1>1, CommitStatus
<1>4. /\ Partial(profile', Users, Profile)
      /\ DOMAIN profile' = DOMAIN profile \cup DOMAIN t.profile
      /\ \A w \in DOMAIN profile : profile'[w] = profile[w]
      /\ \A w \in DOMAIN t.profile : profile'[w] = t.profile[w]
  BY <1>1, CommitProfile
<1>5. u \in DOMAIN t.profile /\ u \in DOMAIN user /\ v \in DOMAIN user /\ u # v
  BY <1>2, <1>4
<1>6. ASSUME School[u] = School[v], user[u].role = user[v].role
      PROVE  KeyOf(u) = KeyOf(v) /\ KeyOf(u)' = KeyOf(v)'
  BY <1>3, <1>5, <1>6 DEF KeyOf
<1>7. ASSUME School[u] = School[v], user[u].role = user[v].role, user[u].role # "PARENT" \/ alone'
      PROVE  profile'[u].value # profile[v].value
  <2>1. CASE alone'
    <3>1. KeyOf(u)' = KeyOf(v)'
      BY <1>6, <1>7
    <3> QED
      BY <1>4, <1>5, <2>1, <3>1 DEF Inv, SerialInv
  <2>2. CASE user[u].role # "PARENT"
    <3>1. user[u].role \in {"STUDENT", "TEACHER", "PARENT"}
      BY <1>5, AdmissionConstants DEF Inv, TypeOK, Partial, User
    <3>2. Clash(u, v)
      BY <1>7, <2>2, <3>1 DEF Clash
    <3>3. t.profile[u].value # profile[v].value
      BY <1>1, <1>5, <3>2 DEF Commit, Refused
    <3> QED
      BY <1>4, <1>5, <3>3
  <2> QED
    BY <1>7, <2>1, <2>2
<1>8. ASSUME School[u] = School[v], user[u].role = user[v].role,
             ~profile'[u].custom, ~profile[v].custom, profile'[u].tag = profile[v].tag
      PROVE  profile'[u].num > profile[v].num
  <2>1. PICK id : id = CounterOf(u, profile'[u])
    OBVIOUS
  <2>2. id = CounterOf(v, profile[v])
    BY <1>6, <1>8, <2>1 DEF CounterOf
  <2>3. id \in DOMAIN counter /\ profile[v].num <= counter[id]
    BY <1>2, <1>8, <2>2 DEF Numbers
  <2>4. profile'[u].num = t.counter[id] /\ counter[id] < t.counter[id]
    BY <1>2, <1>4, <1>5, <1>8, <2>1, <2>3 DEF Numbered
  <2>5. profile[v].num \in Nat /\ profile'[u].num \in Nat /\ counter[id] \in Nat
    BY <1>4, <2>3 DEF Inv, TypeOK, Partial, Profile, Number
  <2> QED
    BY <2>3, <2>4, <2>5
<1> QED
  BY <1>5, <1>7, <1>8

LEMMA CommitMembers ==
    ASSUME Inv, Inv', NEW r \in Requests, Commit(r), alone' => alone
    PROVE  Members!Transaction
<1>1. PICK t : t = tx[r]
  OBVIOUS
<1>2. /\ DOMAIN user \subseteq DOMAIN user'
      /\ \A u \in DOMAIN user : user'[u].role = user[u].role
  BY <1>1, CommitUsers, CommitStatus
<1>3. /\ DOMAIN profile' = DOMAIN profile \cup DOMAIN t.profile
      /\ \A u \in DOMAIN profile : profile'[u] = profile[u]
  BY <1>1, CommitProfile
<1>4. /\ \A u \in Users : Told(u) => Told(u)'
      /\ \A u \in Users : audit'[u] = IF u \in DOMAIN t.audit
                                      THEN Append(audit[u], t.audit[u]) ELSE audit[u]
  BY <1>1, CommitAudit
<1>5. /\ DOMAIN t.audit \subseteq DOMAIN user
      /\ \A u, v \in DOMAIN t.profile : u = v
  BY <1>1 DEF Inv, OpenInv, Promised, Backed, Holders
<1>6. /\ \A u \in Users : (u \in OnRecord)' <=> Told(u)'
      /\ DOMAIN user' \subseteq Users
      /\ DOMAIN profile' \subseteq OnRecord'
      /\ DOMAIN RolesOf' = DOMAIN user' /\ \A u \in DOMAIN user' : RolesOf'[u] = user'[u].role
  <2>1. audit' \in [Users -> Seq(Audit)] /\ DOMAIN user' \subseteq Users
    BY DEF Inv, TypeOK, Partial
  <2>2. \A u \in Users : DOMAIN audit'[u] = 1..Len(audit'[u])
    BY <2>1
  <2>3. \A u \in Users : (u \in OnRecord)' <=> Told(u)'
    BY <2>2 DEF OnRecord, Told
  <2>4. DOMAIN profile' \subseteq OnRecord'
    BY <2>1, <2>3 DEF Inv, OpenInv, Approvals
  <2> QED
    BY <2>1, <2>3, <2>4 DEF RolesOf
<1>7. Members!Grows(RolesOf, RolesOf')
  BY <1>2, <1>6, OnRecordIs DEF Members!Grows
<1>8. OnRecord \subseteq OnRecord'
  BY <1>4, <1>6, OnRecordIs DEF OnRecord
<1>9. OnRecord' \subseteq DOMAIN RolesOf
  <2>1. ASSUME NEW u \in OnRecord', u \notin DOMAIN user PROVE FALSE
    <3>1. u \in Users /\ audit'[u] = audit[u]
      BY <1>4, <1>5, <2>1 DEF OnRecord
    <3>2. u \in OnRecord
      BY <2>1, <3>1 DEF OnRecord
    <3> QED
      BY <2>1, <3>2, OnRecordIs
  <2> QED
    BY <2>1, OnRecordIs
<1>10. Members!Grows(profile, profile')
  BY <1>3 DEF Members!Grows
<1>11. \A u, v \in DOMAIN profile' \ DOMAIN profile : u = v
  BY <1>3, <1>5
<1>12. ASSUME NEW u \in DOMAIN profile' \ DOMAIN profile PROVE Members!Issued(u)
  <2>1. u \in OnRecord'
    BY <1>6
  <2>2. ASSUME NEW v \in DOMAIN profile
        PROVE  /\ Members!Rivals(u, v) => profile'[u].value # profile[v].value
               /\ School[u] = School[v] /\ RolesOf[u] = RolesOf[v]
                  /\ Members!Numbered(profile'[u], profile[v]) => profile'[u].num > profile[v].num
    <3>1. u \in DOMAIN user /\ v \in DOMAIN user
      BY CommitIssues
    <3>2. RolesOf[u] = user[u].role /\ RolesOf[v] = user[v].role
      BY <3>1, OnRecordIs
    <3>3. Members!Rivals(u, v) => /\ School[u] = School[v] /\ RolesOf[u] = RolesOf[v]
                                  /\ RolesOf[u] # "PARENT" \/ alone'
      BY DEF Members!Rivals, RolesOf
    <3>4. Members!Rivals(u, v) => profile'[u].value # profile[v].value
      BY <3>2, <3>3, CommitIssues
    <3>5. ASSUME School[u] = School[v], RolesOf[u] = RolesOf[v], Members!Numbered(profile'[u], profile[v])
          PROVE  profile'[u].num > profile[v].num
      BY <3>2, <3>5, CommitIssues DEF Members!Numbered
    <3> QED
      BY <3>4, <3>5
  <2> QED
    BY <2>1, <2>2 DEF Members!Issued, RolesOf, OnRecord
<1> QED
  BY <1>6, <1>7, <1>8, <1>9, <1>10, <1>11, <1>12 DEF Members!Transaction, RolesOf, OnRecord

(* However requests overlap, the service keeps what Membership promises:   *)
(* roles and approvals on record stay, an identifier is given once, to     *)
(* someone approved, and numbers only go up.                               *)
THEOREM MembersServed == Spec => MembersSpec
<1>1. Init => Members!Init
  <2> SUFFICES ASSUME Init PROVE Members!Init
    OBVIOUS
  <2>1. Inv
    BY InitHolds
  <2>2. PICK S \in SUBSET Users : \E role \in [S -> Roles] : user = [u \in S |-> Registered(role[u])]
    BY DEF Init
  <2>3. PICK role \in [S -> Roles] : user = [u \in S |-> Registered(role[u])]
    BY <2>2
  <2>4. RolesOf \in [S -> Roles]
    BY <2>3 DEF RolesOf, Registered
  <2>5. OnRecord = {}
    BY DEF Init, OnRecord
  <2>6. profile = [u \in {} |-> 0] /\ alone = TRUE
    BY DEF Init, NoRows
  <2> QED
    BY <2>4, <2>5, <2>6 DEF Members!Init, RolesOf, OnRecord
<1>2. Inv /\ Inv' /\ [Next]_vars => [Members!Transaction]_(Members!vars)
  <2> SUFFICES ASSUME Inv, Inv', [Next]_vars PROVE Members!Transaction
    OBVIOUS
  <2>1. alone' => alone
    BY DEF Next, vars
  <2>2. ASSUME NEW r \in Requests, Commit(r) PROVE Members!Transaction
    BY <2>1, <2>2, CommitMembers
  <2>3. ASSUME NEW r \in Requests, Handle(r) \/ TakeNumber(r) \/ Abort(r)
        PROVE  user' = user /\ audit' = audit /\ profile' = profile
    <3>1. \A work : Begin(r, work) => user' = user /\ audit' = audit /\ profile' = profile
      BY DEF Begin, Committed
    <3> QED
      BY <2>3, <3>1, Zenon
         DEF Handle, Register, Decide, ApproveWithProfile, ApproveWithCustom, CreateProfile,
             CreateProfileCustom, UpsertConfig, ListConfigs, TakeNumber, Abort, Committed
  <2>4. NewYear \/ UNCHANGED vars => user' = user /\ audit' = audit /\ profile' = profile
    BY DEF NewYear, vars
  <2>5. \/ \E r \in Requests : Commit(r)
        \/ \E r \in Requests : Handle(r) \/ TakeNumber(r) \/ Abort(r)
        \/ NewYear \/ UNCHANGED vars
    BY Zenon DEF Next
  <2> QED
    BY <2>1, <2>2, <2>3, <2>4, <2>5, QuietMembers
<1> QED
  BY <1>1, <1>2, Invariant, PTL DEF Spec, MembersSpec, Members!Spec
-----------------------------------------------------------------------------
(***************************************************************************)
(* The limiter in front of registration and login (RateLimit), for every   *)
(* set of calls and paths, every window and every limit.  First what the   *)
(* ages below a limit are, of any list.                                    *)
(***************************************************************************)
Ages == 0..Window

(* The partial results f[i] of going through the first n ages of s.        *)
Keeps(f, s, limit, n) ==
    f = [i \in 0..n |-> IF i = 0 THEN <<>>
                        ELSE IF s[i] < limit THEN Append(f[i - 1], s[i]) ELSE f[i - 1]]

SameStart(s, t, n) == \A i \in 1..n : s[i] = t[i]
-----------------------------------------------------------------------------
(* There are partial results of every length, and they do not depend on    *)
(* what comes later.                                                       *)
LEMMA KeepsExist ==
    ASSUME NEW s, NEW limit, NEW n \in Nat
    PROVE  \E f : Keeps(f, s, limit, n)
<1> DEFINE Bad == {m \in Nat : ~ \E f : Keeps(f, s, limit, m)}
<1>1. SUFFICES ASSUME Bad # {} PROVE FALSE
  OBVIOUS
<1>2. PICK m \in Bad : \A k \in Bad : m <= k
  <2> HIDE DEF Bad
  <2>1. Bad \subseteq Nat
    BY DEF Bad
  <2> QED BY <1>1, <2>1, LeastOf
<1>3. m \in Nat /\ \A k \in Nat : k < m => \E f : Keeps(f, s, limit, k)
  BY <1>2
<1>4. CASE m = 0
  <2>1. PICK f : f = [i \in 0..0 |-> <<>>]
    OBVIOUS
  <2>2. Keeps(f, s, limit, 0)
    BY <2>1 DEF Keeps
  <2> QED
    BY <1>2, <1>4, <2>2
<1>5. CASE m # 0
  <2>1. PICK f : Keeps(f, s, limit, m - 1)
    BY <1>3, <1>5
  <2>2. PICK last : last = IF s[m] < limit THEN Append(f[m - 1], s[m]) ELSE f[m - 1]
    OBVIOUS
  <2>3. PICK g : g = [i \in 0..m |-> IF i = m THEN last ELSE f[i]]
    OBVIOUS
  <2>4. ASSUME NEW i \in 0..m
        PROVE  g[i] = IF i = 0 THEN <<>>
                      ELSE IF s[i] < limit THEN Append(g[i - 1], s[i]) ELSE g[i - 1]
    <3>1. CASE i = m
      BY <1>3, <1>5, <2>2, <2>3, <3>1
    <3>2. CASE i # m
      <4>1. i \in 0..(m - 1) /\ g[i] = f[i] /\ (i # 0 => g[i - 1] = f[i - 1])
        BY <1>3, <1>5, <2>3, <3>2
      <4>2. f[i] = IF i = 0 THEN <<>>
                   ELSE IF s[i] < limit THEN Append(f[i - 1], s[i]) ELSE f[i - 1]
        BY <2>1, <4>1 DEF Keeps
      <4> QED
        BY <4>1, <4>2
    <3> QED
      BY <3>1, <3>2
  <2>5. g = [i \in 0..m |-> g[i]]
    BY <2>3
  <2>6. Keeps(g, s, limit, m)
    BY <2>4, <2>5 DEF Keeps
  <2> QED
    BY <1>2, <2>6
<1> QED
  BY <1>4, <1>5

LEMMA KeepsAgree ==
    ASSUME NEW s, NEW t, NEW limit, NEW n \in Nat, NEW m \in Nat, n <= m, NEW f, NEW g,
           Keeps(f, s, limit, n), Keeps(g, t, limit, m), SameStart(s, t, n)
    PROVE  \A i \in 0..n : f[i] = g[i]
<1> DEFINE Bad == {i \in 0..n : f[i] # g[i]}
<1>1. SUFFICES ASSUME Bad # {} PROVE FALSE
  OBVIOUS
<1>2. PICK i \in Bad : \A k \in Bad : i <= k
  <2>1. Bad \subseteq Nat
    OBVIOUS
  <2> HIDE DEF Bad
  <2> QED BY <1>1, <2>1, LeastOf
<1>3. i \in 0..n /\ i \in 0..m /\ f[i] # g[i]
  BY <1>2
<1>4. CASE i = 0
  BY <1>3, <1>4 DEF Keeps
<1>5. CASE i # 0
  <2>1. i - 1 \in 0..n /\ i \in 1..n
    BY <1>3, <1>5
  <2>2. f[i - 1] = g[i - 1]
    <3>1. i - 1 \notin Bad
      BY <1>2, <1>3, <2>1
    <3> QED
      BY <2>1, <3>1
  <2>3. f[i] = IF s[i] < limit THEN Append(f[i - 1], s[i]) ELSE f[i - 1]
    BY <1>3, <1>5 DEF Keeps
  <2>4. g[i] = IF t[i] < limit THEN Append(g[i - 1], t[i]) ELSE g[i - 1]
    BY <1>3, <1>5 DEF Keeps
  <2> QED
    BY <1>3, <2>1, <2>2, <2>3, <2>4 DEF SameStart
<1> QED
  BY <1>4, <1>5

LEMMA BelowIs ==
    ASSUME NEW s, NEW limit, Len(s) \in Nat, NEW f, Keeps(f, s, limit, Len(s))
    PROVE  Below(s, limit) = f[Len(s)]
<1> DEFINE step(it) == [i \in 0..Len(s) |->
                          IF i = 0 THEN <<>>
                          ELSE IF s[i] < limit THEN Append(it[i - 1], s[i]) ELSE it[i - 1]]
           g == CHOOSE it : it = step(it)
<1>1. f = step(f)
  BY DEF Keeps
<1>2. g = step(g)
  <2> HIDE DEF step
  <2> QED BY <1>1, Zenon
<1>3. Keeps(g, s, limit, Len(s))
  <2> HIDE DEF g
  <2> QED BY <1>2 DEF Keeps
<1>4. g[Len(s)] = f[Len(s)]
  <2> HIDE DEF g
  <2>1. SameStart(s, s, Len(s))
    BY DEF SameStart
  <2> QED BY <1>3, <2>1, KeepsAgree
<1>5. Below(s, limit) = g[Len(s)]
  BY DEF Below
<1> QED
  BY <1>4, <1>5

(* The two ways to compute Below: of nothing, and of one age more.         *)
LEMMA BelowEmpty == ASSUME NEW limit PROVE Below(<<>>, limit) = <<>>
<1>1. Len(<<>>) = 0
  OBVIOUS
<1>2. PICK f : Keeps(f, <<>>, limit, 0)
  BY KeepsExist
<1>3. f[0] = <<>>
  BY <1>2 DEF Keeps
<1> QED
  BY <1>1, <1>2, <1>3, BelowIs

LEMMA BelowAppend ==
    ASSUME NEW S, NEW s \in Seq(S), NEW e \in S, NEW limit
    PROVE  Below(Append(s, e), limit)
             = IF e < limit THEN Append(Below(s, limit), e) ELSE Below(s, limit)
<1>1. PICK t, n, m : t = Append(s, e) /\ n = Len(s) /\ m = n + 1
  OBVIOUS
<1>2. /\ n \in Nat /\ m \in Nat /\ n <= m /\ n = m - 1 /\ m # 0 /\ n \in 0..n /\ m \in 0..m
      /\ Len(t) = m /\ t[m] = e /\ SameStart(s, t, n)
  BY <1>1, AppendProperties, LenProperties DEF SameStart
<1>3. PICK f : Keeps(f, s, limit, n)
  BY <1>2, KeepsExist
<1>4. PICK g : Keeps(g, t, limit, m)
  BY <1>2, KeepsExist
<1>5. f[n] = g[n]
  <2>1. \A i \in 0..n : f[i] = g[i]
    BY <1>2, <1>3, <1>4, KeepsAgree
  <2> QED
    BY <1>2, <2>1
<1>6. g[m] = IF t[m] < limit THEN Append(g[n], t[m]) ELSE g[n]
  BY <1>2, <1>4 DEF Keeps
<1>7. Below(t, limit) = g[m] /\ Below(s, limit) = f[n]
  BY <1>1, <1>2, <1>3, <1>4, BelowIs
<1> QED
  BY <1>1, <1>2, <1>5, <1>6, <1>7
-----------------------------------------------------------------------------
(* What fails for some sequence fails for the empty one, or for one that   *)
(* is longer by one than a sequence for which it does not.                 *)
LEMMA Shortest ==
    ASSUME NEW S, NEW Bad \in SUBSET Seq(S), Bad # {}
    PROVE  \/ <<>> \in Bad
           \/ \E s \in Seq(S), e \in S : s \notin Bad /\ Append(s, e) \in Bad
<1> DEFINE lengths == {n \in Nat : \E s \in Bad : Len(s) = n}
<1>1. PICK n \in lengths : \A k \in lengths : n <= k
  <2>1. lengths # {}
    <3>1. PICK s \in Bad : TRUE
      OBVIOUS
    <3>2. Len(s) \in lengths
      BY LenProperties
    <3> QED
      BY <3>2
  <2>2. lengths \subseteq Nat
    OBVIOUS
  <2> HIDE DEF lengths
  <2> QED BY <2>1, <2>2, LeastOf
<1>2. PICK s \in Bad : Len(s) = n
  BY <1>1
<1>3. CASE s = <<>>
  BY <1>2, <1>3
<1>4. CASE s # <<>>
  <2>1. PICK t \in Seq(S), e \in S : s = Append(t, e)
    BY <1>2, <1>4, SequenceEmptyOrAppend
  <2>2. Len(t) \in Nat /\ Len(t) < n
    BY <1>2, <2>1, AppendProperties, LenProperties
  <2>3. t \notin Bad
    <3>1. SUFFICES ASSUME t \in Bad PROVE FALSE
      OBVIOUS
    <3>2. Len(t) \in lengths
      BY <2>2, <3>1
    <3> QED
      BY <1>1, <2>2, <3>2
  <2> QED
    BY <1>2, <2>1, <2>3
<1> QED
  BY <1>3, <1>4

(* What is kept of a list of ages is a list of ages, and no longer.        *)
LEMMA BelowFits ==
    ASSUME NEW S, NEW s \in Seq(S), NEW limit
    PROVE  Below(s, limit) \in Seq(S) /\ Len(Below(s, limit)) <= Len(s)
<1> DEFINE good(t) == Below(t, limit) \in Seq(S) /\ Len(Below(t, limit)) <= Len(t)
           Bad == {t \in Seq(S) : ~ good(t)}
<1>1. good(<<>>)
  <2>1. <<>> \in Seq(S) /\ Len(<<>>) = 0 /\ Below(<<>>, limit) = <<>>
    BY BelowEmpty
  <2>2. PICK e : e = <<>>
    OBVIOUS
  <2>3. e \in Seq(S) /\ Len(e) <= Len(e) /\ Below(e, limit) = e
    BY <2>1, <2>2
  <2> QED
    BY <2>2, <2>3
<1>2. ASSUME NEW t \in Seq(S), NEW e \in S, good(t)
      PROVE  good(Append(t, e))
  <2>1. PICK b, a : b = Below(t, limit) /\ a = Below(Append(t, e), limit)
    OBVIOUS
  <2>2. a = IF e < limit THEN Append(b, e) ELSE b
    BY <2>1, BelowAppend
  <2>3. b \in Seq(S) /\ Len(b) <= Len(t)
    BY <1>2, <2>1
  <2>4. a \in Seq(S) /\ Len(a) <= Len(Append(t, e))
    <3>1. /\ Append(b, e) \in Seq(S) /\ Len(Append(b, e)) = Len(b) + 1
          /\ Len(Append(t, e)) = Len(t) + 1 /\ Len(t) \in Nat /\ Len(b) \in Nat
      BY <2>3, AppendProperties, LenProperties
    <3> QED
      BY <2>2, <2>3, <3>1
  <2> QED
    BY <2>1, <2>4
<1>3. Bad = {}
  <2>1. SUFFICES ASSUME Bad # {} PROVE FALSE
    OBVIOUS
  <2>2. <<>> \notin Bad
    BY <1>1
  <2>3. \A t \in Seq(S), e \in S : t \notin Bad => Append(t, e) \notin Bad
    <3> HIDE DEF good
    <3> QED BY <1>2
  <2>4. Bad \in SUBSET Seq(S)
    OBVIOUS
  <2> HIDE DEF Bad
  <2> QED BY <2>1, <2>2, <2>3, <2>4, Shortest
<1> QED
  BY <1>3

(* What was pruned needs no pruning.                                       *)
LEMMA BelowTwice ==
    ASSUME NEW S, NEW s \in Seq(S), NEW limit
    PROVE  Below(Below(s, limit), limit) = Below(s, limit)
<1> DEFINE good(t) == Below(Below(t, limit), limit) = Below(t, limit)
           Bad == {t \in Seq(S) : ~ good(t)}
<1>1. good(<<>>)
  BY BelowEmpty
<1>2. ASSUME NEW t \in Seq(S), NEW e \in S, good(t)
      PROVE  good(Append(t, e))
  <2>1. PICK b, a, c : b = Below(t, limit) /\ a = Below(Append(t, e), limit) /\ c = Below(a, limit)
    OBVIOUS
  <2>2. a = IF e < limit THEN Append(b, e) ELSE b
    BY <2>1, BelowAppend
  <2>3. b \in Seq(S) /\ Below(b, limit) = b
    BY <1>2, <2>1, BelowFits
  <2>4. Below(Append(b, e), limit) = IF e < limit THEN Append(b, e) ELSE b
    BY <2>3, BelowAppend
  <2> QED
    BY <2>1, <2>2, <2>3, <2>4
<1>3. Bad = {}
  <2>1. SUFFICES ASSUME Bad # {} PROVE FALSE
    OBVIOUS
  <2>2. <<>> \notin Bad
    BY <1>1
  <2>3. \A t \in Seq(S), e \in S : t \notin Bad => Append(t, e) \notin Bad
    <3> HIDE DEF good
    <3> QED BY <1>2
  <2>4. Bad \in SUBSET Seq(S)
    OBVIOUS
  <2> HIDE DEF Bad
  <2> QED BY <2>1, <2>2, <2>3, <2>4, Shortest
<1> QED
  BY <1>3

(* A list grows older age by age.                                          *)
Aged(e) == IF e < Window THEN e + 1 ELSE Window

LEMMA OlderAppend ==
    ASSUME NEW s \in Seq(Ages), NEW e \in Ages
    PROVE  /\ Older(s) \in Seq(Ages) /\ Len(Older(s)) = Len(s)
           /\ Older(Append(s, e)) = Append(Older(s), Aged(e))
<1>1. Window \in Nat \ {0} /\ Aged(e) \in Ages
  BY LimiterConstants DEF Aged, Ages
<1>2. PICK n : n = Len(s)
  OBVIOUS
<1>3. n \in Nat /\ DOMAIN s = 1..n /\ \A i \in 1..n : s[i] \in Ages
  BY <1>2, LenProperties, ElementOfSeq
<1>4. PICK o : o = Older(s)
  OBVIOUS
<1>5. o = [i \in 1..n |-> IF s[i] < Window THEN s[i] + 1 ELSE Window]
  BY <1>3, <1>4 DEF Older
<1>6. \A i \in 1..n : o[i] \in Ages
  BY <1>1, <1>3, <1>5 DEF Ages
<1>7. o \in Seq(Ages) /\ Len(o) = n
  <2>1. o \in [1..n -> Ages]
    BY <1>5, <1>6
  <2> QED
    BY <1>3, <2>1, SeqDef, LenProperties
<1>8. PICK t, a, p : t = Append(s, e) /\ a = Older(t) /\ p = Append(o, Aged(e))
  OBVIOUS
<1>9. /\ Len(t) = n + 1 /\ DOMAIN t = 1..(n + 1) /\ t[n + 1] = e /\ \A i \in 1..n : t[i] = s[i]
  BY <1>2, <1>3, <1>8, AppendProperties, LenProperties
<1>10. a = [i \in 1..(n + 1) |-> IF t[i] < Window THEN t[i] + 1 ELSE Window]
  BY <1>8, <1>9 DEF Older
<1>11. /\ p \in Seq(Ages) /\ Len(p) = n + 1 /\ p[n + 1] = Aged(e) /\ \A i \in 1..n : p[i] = o[i]
  BY <1>1, <1>7, <1>8, AppendProperties
<1>12. p = [i \in 1..(n + 1) |-> p[i]]
  BY <1>11, LenProperties
<1>13. \A i \in 1..(n + 1) : a[i] = p[i]
  <2> TAKE i \in 1..(n + 1)
  <2>1. CASE i = n + 1
    BY <1>3, <1>9, <1>10, <1>11, <2>1 DEF Aged
  <2>2. CASE i # n + 1
    <3>1. i \in 1..n
      BY <1>3, <2>2
    <3> QED
      BY <1>5, <1>9, <1>10, <1>11, <3>1
  <2> QED
    BY <2>1, <2>2
<1>14. a = p
  BY <1>10, <1>12, <1>13
<1> QED
  BY <1>2, <1>4, <1>7, <1>8, <1>14

(* It makes no difference whether a list is pruned before it grows older,  *)
(* once it is pruned afterwards.                                           *)
LEMMA OlderYoung ==
    ASSUME NEW s \in Seq(Ages)
    PROVE  Young(Older(Young(s))) = Young(Older(s))
<1> DEFINE good(t) == Young(Older(Young(t))) = Young(Older(t))
           Bad == {t \in Seq(Ages) : ~ good(t)}
<1>w. Window \in Nat \ {0}
  BY LimiterConstants
<1>1. good(<<>>)
  BY BelowEmpty DEF Young
<1>2. ASSUME NEW t \in Seq(Ages), NEW e \in Ages, good(t)
      PROVE  good(Append(t, e))
  <2>1. PICK y, o, x : y = Young(t) /\ o = Older(t) /\ x = Older(y)
    OBVIOUS
  <2>2. y \in Seq(Ages) /\ o \in Seq(Ages) /\ x \in Seq(Ages) /\ Young(x) = Young(o)
    BY <1>2, <2>1, BelowFits, OlderAppend DEF Young
  <2>3. e \in Int /\ e <= Window /\ Aged(e) \in Ages
    BY <1>w DEF Ages, Aged
  <2>4. Older(Append(t, e)) = Append(o, Aged(e)) /\ Older(Append(y, e)) = Append(x, Aged(e))
    BY <2>1, <2>2, OlderAppend
  <2>5. /\ Young(Append(o, Aged(e))) = IF Aged(e) < Window THEN Append(Young(o), Aged(e)) ELSE Young(o)
        /\ Young(Append(x, Aged(e))) = IF Aged(e) < Window THEN Append(Young(x), Aged(e)) ELSE Young(x)
    BY <2>2, <2>3, BelowAppend DEF Young
  <2>6. Young(Append(t, e)) = IF e < Window THEN Append(y, e) ELSE y
    BY <2>1, BelowAppend DEF Young
  <2>7. CASE e < Window
    BY <2>1, <2>2, <2>4, <2>5, <2>6, <2>7
  <2>8. CASE ~(e < Window)
    <3>1. ~(Aged(e) < Window)
      BY <1>w, <2>8 DEF Aged
    <3> QED
      BY <2>1, <2>2, <2>4, <2>5, <2>6, <2>8, <3>1
  <2> QED
    BY <2>7, <2>8
<1>3. Bad = {}
  <2>1. SUFFICES ASSUME Bad # {} PROVE FALSE
    OBVIOUS
  <2>2. <<>> \notin Bad
    BY <1>1
  <2>3. \A t \in Seq(Ages), e \in Ages : t \notin Bad => Append(t, e) \notin Bad
    <3> HIDE DEF good
    <3> QED BY <1>2
  <2>4. Bad \in SUBSET Seq(Ages)
    OBVIOUS
  <2> HIDE DEF Bad
  <2> QED BY <2>1, <2>2, <2>3, <2>4, Shortest
<1> QED
  BY <1>3
-----------------------------------------------------------------------------
(* The inductive invariant: what the process has let through in this       *)
(* window is exactly what its list, pruned now, would hold.                *)
CountedIsPassed == \A k \in Scopes : passed[k] = Young(counts[k])

LimiterInv == RateLimitTypeOK /\ CountedIsPassed /\ WithinLimit

LEMMA LimitIs == ASSUME NEW k \in Scopes PROVE LimitOf(k) \in Nat
<1>1. PublicLimit \in Nat /\ BearerLimit \in Nat /\ GeneralLimit \in Nat
  BY LimiterConstants
<1>2. \A path \in DOMAIN Overrides : Overrides[path] \in Nat
  BY LimiterConstants
<1> QED
  BY <1>1, <1>2 DEF LimitOf

LEMMA LimiterStarts == LimiterInit => LimiterInv
<1> SUFFICES ASSUME LimiterInit PROVE LimiterInv
  OBVIOUS
<1>1. ASSUME NEW k \in Scopes
      PROVE  counts[k] = <<>> /\ passed[k] = <<>> /\ Len(passed[k]) = 0
  BY DEF LimiterInit
<1>2. RateLimitTypeOK
  BY DEF RateLimitTypeOK, LimiterInit
<1>3. CountedIsPassed
  BY <1>1, BelowEmpty DEF CountedIsPassed, Young
<1>4. WithinLimit
  BY <1>1, LimitIs DEF WithinLimit
<1> QED
  BY <1>2, <1>3, <1>4 DEF LimiterInv

(* A request is let through when the pruned list has room for it.          *)
LEMMA AttemptKeeps ==
    ASSUME LimiterInv, NEW r \in Calls, Attempt(r)
    PROVE  LimiterInv'
<1>1. PICK k, kept : k = ScopeOf(r) /\ kept = Pruned(counts[k])
  OBVIOUS
<1>2. k \in Scopes
  BY <1>1 DEF Scopes
<1>3. /\ counts \in [Scopes -> Seq(Ages)] /\ passed \in [Scopes -> Seq(Ages)]
      /\ trying \subseteq Calls
  BY DEF LimiterInv, RateLimitTypeOK, Ages
<1>4. kept \in Seq(Ages) /\ kept = passed[k] /\ Young(kept) = kept /\ Len(kept) <= LimitOf(k)
  <2>1. kept = Young(counts[k]) /\ counts[k] \in Seq(Ages)
    BY <1>1, <1>2, <1>3 DEF Pruned, Young
  <2> QED
    BY <1>2, <1>3, <2>1, BelowFits, BelowTwice DEF LimiterInv, CountedIsPassed, WithinLimit, Young
<1>5. 0 \in Ages /\ 0 < Window
  BY LimiterConstants DEF Ages
<1>6. Young(Append(kept, 0)) = Append(kept, 0)
  BY <1>4, <1>5, BelowAppend DEF Young
<1>7. \A j \in Scopes : passed[j] = Young(counts[j]) /\ Len(passed[j]) <= LimitOf(j)
  BY DEF LimiterInv, CountedIsPassed, WithinLimit
<1>8. CASE /\ counts' = [counts EXCEPT ![k] = kept]
           /\ UNCHANGED <<passed, trying>>
  <2>1. RateLimitTypeOK'
    BY <1>2, <1>3, <1>4, <1>8 DEF RateLimitTypeOK, Ages
  <2>2. \A j \in Scopes : passed'[j] = Young(counts'[j]) /\ Len(passed'[j]) <= LimitOf(j)
    BY <1>2, <1>3, <1>4, <1>7, <1>8
  <2> QED
    BY <2>1, <2>2 DEF LimiterInv, CountedIsPassed, WithinLimit
<1>9. CASE /\ Len(kept) < LimitOf(k)
           /\ counts' = [counts EXCEPT ![k] = Append(kept, 0)]
           /\ passed' = [passed EXCEPT ![k] = Append(@, 0)]
           /\ trying' = trying \ {r}
  <2>1. PICK more : more = Append(kept, 0)
    OBVIOUS
  <2>2. more \in Seq(Ages) /\ Len(more) = Len(kept) + 1 /\ Young(more) = more
    BY <1>4, <1>5, <1>6, <2>1, AppendProperties
  <2>3. /\ counts' = [counts EXCEPT ![k] = more] /\ passed' = [passed EXCEPT ![k] = more]
        /\ trying' = trying \ {r}
    BY <1>4, <1>9, <2>1
  <2>4. RateLimitTypeOK'
    BY <1>2, <1>3, <2>2, <2>3 DEF RateLimitTypeOK, Ages
  <2>5. Len(more) <= LimitOf(k)
    BY <1>2, <1>4, <1>9, <2>2, LimitIs, LenProperties
  <2>6. \A j \in Scopes : passed'[j] = Young(counts'[j]) /\ Len(passed'[j]) <= LimitOf(j)
    BY <1>2, <1>3, <1>7, <2>2, <2>3, <2>5
  <2> QED
    BY <2>4, <2>6 DEF LimiterInv, CountedIsPassed, WithinLimit
<1> QED
  BY <1>1, <1>8, <1>9 DEF Attempt, AfterRefusal

LEMMA TickKeeps == ASSUME LimiterInv, Tick PROVE LimiterInv'
<1>1. /\ counts \in [Scopes -> Seq(Ages)] /\ passed \in [Scopes -> Seq(Ages)]
      /\ trying \subseteq Calls
  BY DEF LimiterInv, RateLimitTypeOK, Ages
<1>2. ASSUME NEW k \in Scopes
      PROVE  /\ Older(counts[k]) \in Seq(Ages) /\ Young(Older(passed[k])) \in Seq(Ages)
             /\ Young(Older(passed[k])) = Young(Older(counts[k]))
             /\ Len(Young(Older(passed[k]))) <= LimitOf(k)
  <2>1. PICK c, p, o, y : /\ c = counts[k] /\ p = passed[k]
                          /\ o = Older(p) /\ y = Young(o)
    OBVIOUS
  <2>2. c \in Seq(Ages) /\ p \in Seq(Ages) /\ p = Young(c) /\ Len(p) <= LimitOf(k)
    BY <1>1, <2>1 DEF LimiterInv, CountedIsPassed, WithinLimit
  <2>3. o \in Seq(Ages) /\ Len(o) = Len(p) /\ Older(c) \in Seq(Ages)
    <3>1. \A s \in Seq(Ages) : Older(s) \in Seq(Ages) /\ Len(Older(s)) = Len(s)
      <4>1. 0 \in Ages
        BY LimiterConstants DEF Ages
      <4> QED
        BY <4>1, OlderAppend
    <3> QED
      BY <2>1, <2>2, <3>1
  <2>4. y \in Seq(Ages) /\ Len(y) <= Len(o)
    BY <2>1, <2>3, BelowFits DEF Young
  <2>5. y = Young(Older(c))
    BY <2>1, <2>2, OlderYoung
  <2>6. Len(y) <= LimitOf(k)
    BY <2>2, <2>3, <2>4, LimitIs, LenProperties
  <2> QED
    BY <2>1, <2>3, <2>4, <2>5, <2>6
<1>3. /\ counts' = [k \in Scopes |-> Older(counts[k])]
      /\ passed' = [k \in Scopes |-> Young(Older(passed[k]))]
      /\ trying' = trying
  BY DEF Tick
<1>4. RateLimitTypeOK'
  BY <1>1, <1>2, <1>3 DEF RateLimitTypeOK, Ages
<1>5. \A k \in Scopes : passed'[k] = Young(counts'[k]) /\ Len(passed'[k]) <= LimitOf(k)
  BY <1>2, <1>3
<1> QED
  BY <1>4, <1>5 DEF LimiterInv, CountedIsPassed, WithinLimit

LEMMA LimiterStays == LimiterInv /\ [LimiterNext]_limiterVars => LimiterInv'
<1> SUFFICES ASSUME LimiterInv, [LimiterNext]_limiterVars PROVE LimiterInv'
  OBVIOUS
<1>1. CASE UNCHANGED limiterVars
  BY <1>1 DEF limiterVars, LimiterInv, RateLimitTypeOK, CountedIsPassed, WithinLimit
<1>2. ASSUME NEW r \in Calls, Send(r) PROVE LimiterInv'
  BY <1>2 DEF Send, LimiterInv, RateLimitTypeOK, CountedIsPassed, WithinLimit
<1>3. CASE Restart
  <2>1. \A k \in Scopes : counts'[k] = <<>> /\ passed'[k] = <<>> /\ Len(passed'[k]) = 0
    BY <1>3 DEF Restart
  <2>2. RateLimitTypeOK'
    BY <1>3 DEF Restart, LimiterInv, RateLimitTypeOK
  <2>3. \A k \in Scopes : passed'[k] = Young(counts'[k]) /\ Len(passed'[k]) <= LimitOf(k)
    BY <2>1, BelowEmpty, LimitIs DEF Young
  <2> QED
    BY <2>2, <2>3 DEF LimiterInv, CountedIsPassed, WithinLimit
<1> QED
  BY <1>1, <1>2, <1>3, AttemptKeeps, TickKeeps DEF LimiterNext

(* In any window of one life of the process no scope lets more requests    *)
(* through than its limit, whatever the requests, the window and the       *)
(* limits are, and whether or not anybody tries again.                     *)
THEOREM LimitsHold == LimiterSpec => []WithinLimit
<1>1. LimiterInv => WithinLimit
  BY DEF LimiterInv
<1> QED
  BY <1>1, LimiterStarts, LimiterStays, PTL DEF LimiterSpec

(* The list a scope is counted by, pruned, is what it let through in this  *)
(* window: no request is forgotten early, and none is counted that was     *)
(* refused.                                                                *)
THEOREM CountsAreExact == LimiterSpec => [](RateLimitTypeOK /\ CountedIsPassed)
<1>1. LimiterInv => RateLimitTypeOK /\ CountedIsPassed
  BY DEF LimiterInv
<1> QED
  BY <1>1, LimiterStarts, LimiterStays, PTL DEF LimiterSpec
=============================================================================
