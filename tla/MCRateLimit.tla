------------------------------- MODULE MCRateLimit -------------------------------
(* A request of an override, a public path, two that share a scope, and    *)
(* one without a token.                                                    *)
EXTENDS RateLimit, TLC

MCOverrides == "login" :> 1
MCPublic == {"root"}
MCCalls == {[path |-> "login", api |-> TRUE, bearer |-> FALSE],
            [path |-> "root", api |-> FALSE, bearer |-> FALSE],
            [path |-> "fees", api |-> TRUE, bearer |-> TRUE],
            [path |-> "exams", api |-> TRUE, bearer |-> TRUE],
            [path |-> "open", api |-> TRUE, bearer |-> FALSE]}
=============================================================================
