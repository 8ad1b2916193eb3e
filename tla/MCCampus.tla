-------------------------------- MODULE MCCampus --------------------------------
(* Two clients of the campus, and a few rows in every area.                *)
EXTENDS Campus

CONSTANTS k1, k2, a, b          \* the classes and sections

MCDueDays == {0}
MCMarks == {<<0, 2>>, <<2, 2>>}
MCBands == {[low |-> 0, high |-> 4999, letter |-> "C"], [low |-> 5000, high |-> 10000, letter |-> "A"]}
MCBatches == {{p} : p \in Pupils}
MCWeights == {1, 2}
MCCopies == {{"standards", "sections"}, {"subjects"}}
MCWishes == {{}, {"id"}}
MCTargets == {<<"all", "all", "all">>, <<"all", "one", "a">>, <<"parent", "one", "all">>,
              <<"teacher", "one", "a">>, <<"student", "all", "a">>}
MCPlaces == {{}, {<<"one", "a">>}, {<<"one", "b">>}}
MCSeats == {[class |-> k1, section |-> a, year |-> "now"], [class |-> k1, section |-> b, year |-> "now"],
            [class |-> k2, section |-> a, year |-> "now"], [class |-> k1, section |-> a, year |-> "past"]}
MCDuties == {[class |-> k1, section |-> a, year |-> "now", subject |-> "art"],
             [class |-> k1, section |-> b, year |-> "now", subject |-> "art"],
             [class |-> k1, section |-> a, year |-> "now", subject |-> "music"],
             [class |-> k1, section |-> a, year |-> "past", subject |-> "art"]}

T == INSTANCE TLC
Alike == T!Permutations(Sessions) \cup T!Permutations(Pupils) \cup T!Permutations(Tokens)
         \cup T!Permutations(Guardians)

(* Handlers go on from states with at most so many rows, fewer when they   *)
(* overlap.  The tables that are filled from the start do not count.       *)
Standing == {"notice", "student", "person", "year", "account", "duty", "registry"}
            \cup (IF area = "teaching" THEN {"section"} ELSE {})
            \cup (IF area = "schedules" THEN {"exam"} ELSE {})
RowsInUse == MapThenSumSet(LAMBDA t : Cardinality(Keys(t)), DOMAIN db \ Standing)
RowBound == IF serial
            THEN CASE area \in {"attendance", "audience"} -> 1
                   [] area = "auth" -> 6
                   [] area = "assignments" -> 2
                   [] area = "students" -> 3
                   [] OTHER -> 4
            ELSE CASE area \in {"attendance", "announcements", "students"} -> 0
                   [] area = "auth" -> 4
                   [] area \in {"assignments", "documents", "structure"} -> 1
                   [] OTHER -> 2
FewRows == RowsInUse <= RowBound
=============================================================================
