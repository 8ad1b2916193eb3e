----------------------------- MODULE Membership -----------------------------
(***************************************************************************)
(* What admission promises to people, without its handlers, transactions,  *)
(* decisions, formats or counters: whoever registers has one role for      *)
(* ever, whoever has been approved stays on record as approved, and only   *)
(* then gets one identifier, once, which these services never change.      *)
(* Generated identifiers of a school, a role and a year are numbered       *)
(* upwards, so that no number comes back, and identifiers of one role are  *)
(* distinct.                                                               *)
(***************************************************************************)
EXTENDS Integers

CONSTANTS Users, School, Roles

VARIABLES role,        \* [registered users -> Roles]
          approved,    \* users whose approval is on record
          card,        \* the identifier of everyone who has one
          orderly      \* requests have come one at a time so far

vars == <<role, approved, card, orderly>>

Init == /\ \E S \in SUBSET Users : role \in [S -> Roles]
        /\ approved = {}
        /\ card = [u \in {} |-> 0]
        /\ orderly = TRUE

(* Rows are added and never changed.                                       *)
Grows(old, new) == /\ DOMAIN old \subseteq DOMAIN new
                   /\ \A u \in DOMAIN old : new[u] = old[u]

(* Whose identifiers may not be equal: those of one role in one school;    *)
(* parents' only as long as nobody was served at the same time as another. *)
Rivals(u, v) == /\ School[u] = School[v] /\ role[u] = role[v]
                /\ role[u] # "PARENT" \/ orderly'

Numbered(x, y) == ~x.custom /\ ~y.custom /\ x.tag = y.tag

(* u gets an identifier.                                                   *)
Issued(u) ==
    /\ u \in approved'
    /\ \A v \in DOMAIN card :
          /\ Rivals(u, v) => card'[u].value # card[v].value
          /\ School[u] = School[v] /\ role[u] = role[v] /\ Numbered(card'[u], card[v])
                => card'[u].num > card[v].num

(* One transaction registers people, approves people who had registered,   *)
(* and issues at most one identifier.                                      *)
Transaction ==
    /\ Grows(role, role') /\ DOMAIN role' \subseteq Users
    /\ approved \subseteq approved' /\ approved' \subseteq DOMAIN role
    /\ Grows(card, card')
    /\ \A u, v \in DOMAIN card' \ DOMAIN card : u = v
    /\ \A u \in DOMAIN card' \ DOMAIN card : Issued(u)
    /\ orderly' => orderly

Spec == Init /\ [][Transaction]_vars
=============================================================================
