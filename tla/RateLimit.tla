-------------------------------- MODULE RateLimit --------------------------------
(***************************************************************************)
(* The HTTP rate limiter (src/app/middleware/rate_limiter.py) with its     *)
(* sliding window in the memory of one process (rate_limit_backend.py).    *)
(*                                                                         *)
(* Times are kept as ages, so that the clock may run for ever: a request   *)
(* let through at t has the age now - t, and beyond Window all ages count  *)
(* alike.  One client; the keys of others are never touched by it.         *)
(***************************************************************************)
EXTENDS Integers, Sequences, FiniteSets

CONSTANTS Overrides,     \* path -> limit of its own
          Public,        \* other paths counted for themselves
          PublicLimit, BearerLimit, GeneralLimit,
          Calls,         \* records: path, api, bearer
          Window         \* in ticks of the clock

ASSUME LimiterConstants ==
    /\ Window \in Nat \ {0}
    /\ {PublicLimit, BearerLimit, GeneralLimit} \subseteq Nat
    /\ \A path \in DOMAIN Overrides : Overrides[path] \in Nat

VARIABLES counts,        \* scope -> ages of the requests counted, oldest first
          passed,        \* scope -> ages of those the process let through in this window
          trying         \* requests a client tries until they are let through

limiterVars == <<counts, passed, trying>>

(* The scope of a request is its path or a group of paths.                 *)
ScopeOf(r) == IF r.path \in DOMAIN Overrides \cup Public THEN r.path
              ELSE IF r.api /\ r.bearer THEN "api_bearer" ELSE "general"
Scopes == {ScopeOf(r) : r \in Calls}
LimitOf(scope) == CASE scope \in DOMAIN Overrides -> Overrides[scope]
                    [] scope \in Public -> PublicLimit
                    [] scope = "api_bearer" -> BearerLimit
                    [] OTHER -> GeneralLimit

(* Those of a list of ages that are below a limit, in their order.         *)
Below(ages, limit) ==
    LET kept[i \in 0..Len(ages)] ==
            IF i = 0 THEN <<>>
            ELSE IF ages[i] < limit THEN Append(kept[i - 1], ages[i]) ELSE kept[i - 1]
    IN  kept[Len(ages)]

(* Requests let through in this window are younger than it.             *)
Young(ages) == Below(ages, Window)

RateLimitTypeOK == /\ counts \in [Scopes -> Seq(0..Window)]
                   /\ passed \in [Scopes -> Seq(0..Window)]
                   /\ trying \subseteq Calls

LimiterInit == /\ counts = [k \in Scopes |-> <<>>]
               /\ passed = [k \in Scopes |-> <<>>]
               /\ trying = {}
-----------------------------------------------------------------------------
(* Mutant of Pruned: a request is forgotten a tick too early.              *)
PrunedEarly(ages) == Below(ages, Window - 1)

(* t > now - window_seconds                                                *)
Pruned(ages) == Below(ages, Window)

(* Mutant of AfterRefusal: a refused attempt counts, in the place of the   *)
(* oldest one.                                                             *)
AfterRefusalCounted(ages) == Append(Tail(ages), 0)

(* What is_limited keeps when it says so: the attempt is not recorded.     *)
AfterRefusal(ages) == ages

Send(r) == /\ r \notin trying
           /\ trying' = trying \cup {r}
           /\ UNCHANGED <<counts, passed>>

(* rate_limit_middleware, is_limited.  A refused client tries again.       *)
Attempt(r) ==
    LET k == ScopeOf(r)
        kept == Pruned(counts[k])
    IN  /\ r \in trying
        /\ \/ /\ Len(kept) >= LimitOf(k)
              /\ counts' = [counts EXCEPT ![k] = AfterRefusal(kept)]
              /\ UNCHANGED <<passed, trying>>
           \/ /\ Len(kept) < LimitOf(k)
              /\ counts' = [counts EXCEPT ![k] = Append(kept, 0)]
              /\ passed' = [passed EXCEPT ![k] = Append(@, 0)]
              /\ trying' = trying \ {r}

Older(ages) == [i \in DOMAIN ages |-> IF ages[i] < Window THEN ages[i] + 1 ELSE Window]
Tick == /\ counts' = [k \in Scopes |-> Older(counts[k])]
        /\ passed' = [k \in Scopes |-> Young(Older(passed[k]))]
        /\ UNCHANGED trying

(* The counters are lost with the process.                                 *)
Restart == /\ counts' = [k \in Scopes |-> <<>>]
           /\ passed' = [k \in Scopes |-> <<>>]
           /\ UNCHANGED trying

LimiterNext == \/ \E r \in Calls : Send(r) \/ Attempt(r)
               \/ Tick \/ Restart

(* Time passes, and whoever was refused tries again, as the header         *)
(* Retry-After asks.                                                       *)
Fairness == WF_limiterVars(Tick) /\ \A r \in Calls : WF_limiterVars(Attempt(r))

LimiterSpec == LimiterInit /\ [][LimiterNext]_limiterVars
FairSpec == LimiterSpec /\ Fairness
-----------------------------------------------------------------------------
(* In any window of one life of the process no scope lets more requests    *)
(* through than its limit, although the list it counts by is only pruned   *)
(* when somebody tries.                                                    *)
WithinLimit == \A k \in Scopes : Len(passed[k]) <= LimitOf(k)

(* Nobody is shut out by trying: as long as somebody of a scope keeps      *)
(* trying, somebody of it is let through again and again, since refused    *)
(* attempts are not counted.                                               *)
LetThrough(k) == \E r \in Calls : ScopeOf(r) = k /\ Attempt(r) /\ r \notin trying'
NeverShutOut ==
    \A k \in Scopes : \/ []<>(\A r \in trying : ScopeOf(r) # k)
                      \/ []<><<LetThrough(k)>>_limiterVars
=============================================================================
