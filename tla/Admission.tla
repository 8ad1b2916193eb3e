------------------------------ MODULE Admission ------------------------------
(***************************************************************************)
(* From registration to an identifier: create_registration                 *)
(* (src/app/services/registration.py), the approval decisions              *)
(* (services/approval.py, with or without a role profile), role profiles   *)
(* (services/role_profile.py) and the identifiers they get from the        *)
(* format configurations and counters of services/identifier.py.           *)
(*                                                                         *)
(* A handler reads and computes, then its session commits or rolls back,   *)
(* with other requests in between.  A generated identifier takes one step  *)
(* more: its counter row is read under SELECT FOR UPDATE and stays locked  *)
(* until the request ends.                                                 *)
(***************************************************************************)
EXTENDS Integers, Sequences, FiniteSets, Functions

CONSTANTS Users, School,       \* user ids and the school of each
          Name, Contact,       \* their full name and their e-mail or phone
          Roles,               \* roles of people who get a profile
          Templates,           \* format templates, as sets of tokens
          Chosen,              \* custom identifiers administrators enter
          MaxYear,             \* calendar years are 1..MaxYear
          Requests             \* the HTTP requests served, each once

ASSUME AdmissionConstants ==
    /\ DOMAIN School = Users /\ DOMAIN Name = Users /\ DOMAIN Contact = Users
    /\ Roles \subseteq {"STUDENT", "TEACHER", "PARENT"}
    /\ Templates \subseteq SUBSET {"YEAR", "SEQ"}
    /\ {{"SEQ"}, {"YEAR", "SEQ"}} \subseteq Templates
    /\ MaxYear \in Nat \ {0}

Year == 1..MaxYear
UserStatus == {"PENDING_APPROVAL", "ACTIVE", "REJECTED", "ON_HOLD"}
User == [role : Roles, status : UserStatus, active : BOOLEAN]
Audit == [from : UserStatus, to : UserStatus, duplicates : BOOLEAN]

Keys == Range(School) \X Roles                 \* one type of identifier per role
Config == [template : Templates, reset : BOOLEAN, locked : BOOLEAN]
Tags == {0} \cup Year                          \* "ALL" or a year
Number == Nat
Value == [year : {0} \cup Year, seq : Number]  \* what a template leaves of both

ASSUME CustomIdentifiers == Chosen \subseteq Value

Profile == [value : Value, custom : BOOLEAN, tag : Tags, num : Number]

VARIABLES user,        \* committed users rows
          audit,       \* user_approval_audits of each user, in commit order
          profile,     \* students, teachers and parents rows, by user
          config,      \* identifier_format_configs rows, by school and role
          counter,     \* identifier_counters rows: last_number
          year,        \* datetime.now().year
          tx,          \* what each request has read and is about to write
          alone        \* history: no two handlers have been open at once so far

vars == <<user, audit, profile, config, counter, year, tx, alone>>

Partial(f, S, T) == DOMAIN f \subseteq S /\ f \in [DOMAIN f -> T]

(* Every field of a unit of work is a table of the rows it will write;     *)
(* userSeen and configSeen are those it loaded, next is the user who waits *)
(* for a generated identifier.                                             *)
IsTx(t) == /\ DOMAIN t = {"state", "next", "user", "userSeen", "audit", "profile",
                          "config", "configSeen", "counter"}
           /\ t.state \in {"new", "counting", "open", "done"}
           /\ t.next \subseteq Users
           /\ Partial(t.user, Users, User) /\ Partial(t.userSeen, DOMAIN t.user, User)
           /\ Partial(t.audit, Users, Audit) /\ Partial(t.profile, Users, Profile)
           /\ Partial(t.config, Keys, Config) /\ Partial(t.configSeen, DOMAIN t.config, Config)
           /\ Partial(t.counter, Keys \X Tags, Number)

NoRows == [x \in {} |-> 0]
Fresh == [state |-> "new", next |-> {}, user |-> NoRows, userSeen |-> NoRows,
          audit |-> NoRows, profile |-> NoRows, config |-> NoRows,
          configSeen |-> NoRows, counter |-> NoRows]
Closed == [Fresh EXCEPT !.state = "done"]

TypeOK == /\ Partial(user, Users, User)
          /\ audit \in [Users -> Seq(Audit)]
          /\ Partial(profile, Users, Profile)
          /\ Partial(config, Keys, Config)
          /\ Partial(counter, Keys \X Tags, Number)
          /\ year \in Year
          /\ DOMAIN tx = Requests
          /\ \A r \in Requests : IsTx(tx[r])
          /\ alone \in BOOLEAN

Committed == <<user, audit, profile, config, counter, year>>
Begin(r, work) == /\ tx[r].state = "new"
                  /\ tx' = [tx EXCEPT ![r] = work]
                  /\ UNCHANGED Committed
-----------------------------------------------------------------------------
(* Registration and approval.                                              *)

(* Mutant of Registered: the status takes its backward-compatible alias.   *)
RegisteredHold(role) == [role |-> role, status |-> "HOLD", active |-> FALSE]

Registered(role) == [role |-> role, status |-> "PENDING_APPROVAL", active |-> FALSE]

(* Contacts are unique over all schools, by a check and by the database.   *)
ContactFree(u) == \A v \in DOMAIN user : Contact[v] # Contact[u]

Register(r, u, role) ==
    /\ ContactFree(u)
    /\ Begin(r, [Fresh EXCEPT !.state = "open", !.user = [v \in {u} |-> Registered(role)]])

Actionable == {"PENDING_APPROVAL", "ON_HOLD", "REJECTED"}
Outcome == [APPROVE |-> "ACTIVE", REJECT |-> "REJECTED", HOLD |-> "ON_HOLD"]

(* Mutant of Namesakes: only users who are already approved are compared.  *)
NamesakesApproved(u) == {v \in DOMAIN user \ {u} : /\ School[v] = School[u]
                                                   /\ Name[v] = Name[u]
                                                   /\ user[v].status = "ACTIVE"}

(* validate_user_for_approval: others of the school with the same name.    *)
Namesakes(u) == {v \in DOMAIN user \ {u} : School[v] = School[u] /\ Name[v] = Name[u]}

(* Mutant of Decided: the audit row is written from the changed user.      *)
DecidedAuditLate(u, action) ==
    [Fresh EXCEPT !.state = "open",
        !.user = [v \in {u} |-> [user[u] EXCEPT !.status = Outcome[action],
                                                !.active = (action = "APPROVE")]],
        !.userSeen = Restrict(user, {u}),
        !.audit = [v \in {u} |-> [from |-> Outcome[action], to |-> Outcome[action],
                                  duplicates |-> Namesakes(u) # {}]]]

(* The user and the audit row that decide leaves.                          *)
Decided(u, action) ==
    [Fresh EXCEPT !.state = "open",
        !.user = [v \in {u} |-> [user[u] EXCEPT !.status = Outcome[action],
                                                !.active = (action = "APPROVE")]],
        !.userSeen = Restrict(user, {u}),
        !.audit = [v \in {u} |-> [from |-> user[u].status, to |-> Outcome[action],
                                  duplicates |-> Namesakes(u) # {}]]]

(* Findings block an approval unless a staff admin overrides them.         *)
CanDecide(u, action, override) ==
    /\ u \in DOMAIN user /\ user[u].status \in Actionable
    /\ action = "APPROVE" /\ Namesakes(u) # {} => override

Decide(r, u, action, override) ==
    /\ CanDecide(u, action, override)
    /\ Begin(r, Decided(u, action))
-----------------------------------------------------------------------------
(* Identifier formats.                                                     *)
KeyOf(u) == <<School[u], user[u].role>>

DefaultFormat(key) == [template |-> IF key[2] = "STUDENT" THEN {"YEAR", "SEQ"} ELSE {"SEQ"},
                       reset |-> key[2] = "STUDENT", locked |-> FALSE]

(* Mutant of UpsertConfig: the lock is not looked at.                      *)
UpsertLocked(r, key, template, reset) ==
    LET new == [template |-> template, reset |-> reset,
                locked |-> key \in DOMAIN config /\ config[key].locked]
    IN  Begin(r, [Fresh EXCEPT !.state = "open", !.config = [k \in {key} |-> new],
                               !.configSeen = Restrict(config, {key} \cap DOMAIN config)])

(* A locked format may only be saved as it is.                             *)
UpsertConfig(r, key, template, reset) ==
    LET new == [template |-> template, reset |-> reset,
                locked |-> key \in DOMAIN config /\ config[key].locked]
    IN  /\ key \in DOMAIN config /\ config[key].locked => config[key] = new
        /\ Begin(r, [Fresh EXCEPT !.state = "open", !.config = [k \in {key} |-> new],
                                  !.configSeen = Restrict(config, {key} \cap DOMAIN config)])

(* Reading the configurations of a school writes the missing ones.         *)
ListConfigs(r, school) ==
    LET missing == ({school} \X Roles) \ DOMAIN config
    IN  /\ missing # {}
        /\ Begin(r, [Fresh EXCEPT !.state = "open",
                                  !.config = [k \in missing |-> DefaultFormat(k)]])
-----------------------------------------------------------------------------
(* Role profiles.                                                          *)

(* _get_target_user and _assert_user_approved                              *)
Approved(row) == row.status = "ACTIVE" /\ row.active

(* Mutant of InUse: identifiers that an administrator chose are forgotten. *)
InUseGenerated(key, value) ==
    \E v \in DOMAIN profile : KeyOf(v) = key /\ profile[v].value = value /\ ~profile[v].custom

(* An identifier of this type is already issued in the school.             *)
InUse(key, value) == \E v \in DOMAIN profile : KeyOf(v) = key /\ profile[v].value = value

(* create_*_profile with a custom identifier added to the work of r: the   *)
(* counter and the format's lock are not touched.                          *)
WithCustom(work, u, value) ==
    [work EXCEPT !.profile = [v \in {u} |-> [value |-> value, custom |-> TRUE,
                                             tag |-> 0, num |-> 0]]]

(* Without one, the configuration is read, or created from the defaults,   *)
(* and will be locked; the counter comes next.                             *)
WithNext(work, u) ==
    LET key == KeyOf(u)
        cfg == IF key \in DOMAIN config THEN config[key] ELSE DefaultFormat(key)
    IN  [work EXCEPT !.state = "counting", !.next = {u},
                     !.config = [k \in {key} |-> [cfg EXCEPT !.locked = TRUE]],
                     !.configSeen = Restrict(config, {key} \cap DOMAIN config)]

CreateProfile(r, u) ==
    /\ u \in DOMAIN user \ DOMAIN profile /\ Approved(user[u])
    /\ Begin(r, WithNext(Fresh, u))

CreateProfileCustom(r, u, value) ==
    /\ u \in DOMAIN user \ DOMAIN profile /\ Approved(user[u])
    /\ ~InUse(KeyOf(u), value)
    /\ Begin(r, WithCustom([Fresh EXCEPT !.state = "open"], u, value))

(* decision-with-profile: the approval goes on when the profile is refused *)
(* by a check, as for a user who has one or a custom identifier in use.    *)
ApproveWithProfile(r, u, override) ==
    /\ CanDecide(u, "APPROVE", override)
    /\ Begin(r, IF u \in DOMAIN profile THEN Decided(u, "APPROVE")
                ELSE WithNext(Decided(u, "APPROVE"), u))

ApproveWithCustom(r, u, override, value) ==
    /\ CanDecide(u, "APPROVE", override)
    /\ Begin(r, IF u \in DOMAIN profile \/ InUse(KeyOf(u), value)
                THEN Decided(u, "APPROVE")
                ELSE WithCustom(Decided(u, "APPROVE"), u, value))

Format(template, num) == [year |-> IF "YEAR" \in template THEN year ELSE 0,
                          seq |-> IF "SEQ" \in template THEN num ELSE 0]

(* Mutant of Unlocked: the counter is read without FOR UPDATE.             *)
UnlockedAlways(r, id) == r \in Requests

(* No other open request holds the counter's row, or is inserting it.      *)
Unlocked(r, id) == \A q \in Requests \ {r} : id \notin DOMAIN tx[q].counter

(* _increment_counter, _format_identifier and the check for duplicates.  A *)
(* duplicate is an error (Abort); a decision-with-profile swallows it and  *)
(* commits what was flushed, the number taken and the lock of the format.  *)
TakeNumber(r) ==
    \E u \in tx[r].next :
       LET key == KeyOf(u)
           cfg == tx[r].config[key]
           id == <<key, IF cfg.reset THEN year ELSE 0>>
           num == IF id \in DOMAIN counter THEN counter[id] + 1 ELSE 1
           row == [value |-> Format(cfg.template, num), custom |-> FALSE,
                   tag |-> id[2], num |-> num]
       IN  /\ tx[r].state = "counting"
           /\ Unlocked(r, id)
           /\ InUse(key, row.value) => u \in DOMAIN tx[r].audit
           /\ tx' = [tx EXCEPT ![r].state = "open", ![r].next = {},
                               ![r].counter = [i \in {id} |-> num],
                               ![r].profile = IF InUse(key, row.value) THEN NoRows
                                              ELSE [v \in {u} |-> row]]
           /\ UNCHANGED Committed
-----------------------------------------------------------------------------
(* The end of a request.                                                   *)
Column(now, seen, new) == IF new = seen THEN now ELSE new
FlushedUser(now, seen, new) ==
    [role |-> now.role, status |-> Column(now.status, seen.status, new.status),
     active |-> Column(now.active, seen.active, new.active)]
FlushedConfig(now, seen, new) ==
    [template |-> Column(now.template, seen.template, new.template),
     reset |-> Column(now.reset, seen.reset, new.reset),
     locked |-> Column(now.locked, seen.locked, new.locked)]
Merged(table, rows) == [x \in DOMAIN table \cup DOMAIN rows |->
                          IF x \in DOMAIN rows THEN rows[x] ELSE table[x]]

(* Unique: admission_number in a school, employee_code everywhere;         *)
(* parent_code is not.                                                     *)
Clash(u, v) == /\ user[u].role = user[v].role
               /\ \/ user[u].role = "TEACHER"
                  \/ user[u].role = "STUDENT" /\ School[u] = School[v]

(* What the database refuses, so that the request can only be aborted: a   *)
(* second row for a contact, a profile, a configuration, or an identifier. *)
Refused(t) ==
    \/ \E u \in DOMAIN t.user \ DOMAIN t.userSeen : ~ContactFree(u)
    \/ DOMAIN t.profile \cap DOMAIN profile # {}
    \/ (DOMAIN t.config \ DOMAIN t.configSeen) \cap DOMAIN config # {}
    \/ \E u \in DOMAIN t.profile, v \in DOMAIN profile :
          Clash(u, v) /\ t.profile[u].value = profile[v].value

Commit(r) ==
    LET t == tx[r] IN
    /\ t.state = "open" /\ ~Refused(t)
    /\ user' = Merged(user, [u \in DOMAIN t.user |->
                               IF u \in DOMAIN t.userSeen
                               THEN FlushedUser(user[u], t.userSeen[u], t.user[u])
                               ELSE t.user[u]])
    /\ audit' = [u \in Users |-> IF u \in DOMAIN t.audit THEN Append(audit[u], t.audit[u])
                                 ELSE audit[u]]
    /\ profile' = Merged(profile, t.profile)
    /\ config' = Merged(config, [k \in DOMAIN t.config |->
                                   IF k \in DOMAIN t.configSeen
                                   THEN FlushedConfig(config[k], t.configSeen[k], t.config[k])
                                   ELSE t.config[k]])
    /\ counter' = Merged(counter, t.counter)
    /\ tx' = [tx EXCEPT ![r] = Closed]
    /\ UNCHANGED year

Abort(r) == /\ tx[r].state \in {"counting", "open"}
            /\ tx' = [tx EXCEPT ![r] = Closed]
            /\ UNCHANGED Committed

NewYear == /\ year < MaxYear
           /\ year' = year + 1
           /\ UNCHANGED <<user, audit, profile, config, counter, tx>>

(* Some people have registered, one after the other, before we look.       *)
Init == /\ \E S \in SUBSET Users :
              /\ \A u, v \in S : Contact[u] = Contact[v] => u = v
              /\ \E role \in [S -> Roles] : user = [u \in S |-> Registered(role[u])]
        /\ audit = [u \in Users |-> <<>>]
        /\ profile = NoRows /\ config = NoRows /\ counter = NoRows
        /\ year = 1
        /\ tx = [r \in Requests |-> Fresh]
        /\ alone = TRUE

Handle(r) ==
    \/ \E u \in Users, role \in Roles : Register(r, u, role)
    \/ \E u \in Users, action \in DOMAIN Outcome, override \in BOOLEAN :
          Decide(r, u, action, override)
    \/ \E u \in Users, override \in BOOLEAN : ApproveWithProfile(r, u, override)
    \/ \E u \in Users, override \in BOOLEAN, value \in Chosen :
          ApproveWithCustom(r, u, override, value)
    \/ \E u \in Users : CreateProfile(r, u)
    \/ \E u \in Users, value \in Chosen : CreateProfileCustom(r, u, value)
    \/ \E key \in Keys, template \in Templates, reset \in BOOLEAN :
          UpsertConfig(r, key, template, reset)
    \/ \E school \in Range(School) : ListConfigs(r, school)

Busy(r) == tx[r].state \in {"counting", "open"}
Next == /\ \/ \E r \in Requests : Handle(r) \/ TakeNumber(r) \/ Commit(r) \/ Abort(r)
           \/ NewYear
        /\ alone' = (alone /\ \A q, r \in Requests : Busy(q)' /\ Busy(r)' => q = r)

Spec == Init /\ [][Next]_vars
-----------------------------------------------------------------------------
(* What holds of every interleaving.                                       *)

(* "Uses SELECT FOR UPDATE to prevent race conditions": no sequence number *)
(* of a school, a type and a year is issued twice, and the counter never   *)
(* falls behind the numbers issued. Nor do two profiles of one role in one *)
(* school bear the same identifier, custom ones included; parent codes,    *)
(* which the database does not keep unique, only as long as no two         *)
(* handlers have overlapped.                                               *)
UniqueIdentifiers ==
    \A u, v \in DOMAIN profile :
       LET tagged(x) == <<KeyOf(x), profile[x].tag>> IN
       /\ ~profile[u].custom =>
             /\ tagged(u) \in DOMAIN counter /\ profile[u].num <= counter[tagged(u)]
             /\ u # v /\ ~profile[v].custom /\ tagged(u) = tagged(v)
                   => profile[u].num # profile[v].num
       /\ u # v /\ KeyOf(u) = KeyOf(v) /\ profile[u].value = profile[v].value
             => user[u].role = "PARENT" /\ ~alone

(* Two people of one school and one name are never both approved unseen:   *)
(* the approval of one of them lists the other, and took an override.      *)
NamesakesNeedOverride ==
    \A u, v \in Users :
       LET unseen(x) == \E i \in DOMAIN audit[x] : /\ audit[x][i].to = "ACTIVE"
                                                   /\ ~audit[x][i].duplicates
       IN  u # v /\ School[u] = School[v] /\ Name[u] = Name[v] => ~(unseen(u) /\ unseen(v))

(* What holds while no two handlers have overlapped.                       *)

(* "Preventing generation before approval": whoever has an identifier has  *)
(* been approved by a recorded decision, whatever overlapped since. And    *)
(* while nothing overlapped the approval audit tells the whole story of a  *)
(* user: it starts with the pending registration, each row begins where    *)
(* the one before ended, the last row is the present status, and is_active *)
(* says ACTIVE.                                                            *)
AuditTellsStatus ==
    /\ \A u \in DOMAIN profile : \E i \in DOMAIN audit[u] : audit[u][i].to = "ACTIVE"
    /\ alone => \A u \in DOMAIN user :
          LET n == Len(audit[u])
              before(i) == IF i = 1 THEN "PENDING_APPROVAL" ELSE audit[u][i - 1].to
          IN  /\ \A i \in 1..n : audit[u][i].from = before(i)
              /\ user[u].status = before(n + 1)
              /\ user[u].active <=> user[u].status = "ACTIVE"

(* "Locking format after first identifier is issued": once an identifier   *)
(* of a type has been generated, its format does not change.               *)
FormatFrozen ==
    [][alone' => \A key \in DOMAIN config :
          (\E u \in DOMAIN profile : KeyOf(u) = key /\ ~profile[u].custom)
             => /\ config'[key].template = config[key].template
                /\ config'[key].reset = config[key].reset]_vars

(* However requests overlap, registration, approval and role profiles keep *)
(* the promise of Membership: none re-issues, renumbers or withdraws what  *)
(* another one issued ("prevents race condition", services/identifier.py). *)
Members == INSTANCE Membership
              WITH role <- [u \in DOMAIN user |-> user[u].role],
                   approved <- {u \in Users : \E i \in DOMAIN audit[u] : audit[u][i].to = "ACTIVE"},
                   card <- profile,
                   orderly <- alone
MembersSpec == Members!Spec
=============================================================================
