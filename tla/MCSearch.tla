------------------------------ MODULE MCSearch ------------------------------
(***************************************************************************)
(* An instance of Search: two cafes in different districts, one of which   *)
(* may be published from two records; searches for work, for 24 hours in a *)
(* named place, for matcha nearby; answers of Jev that agree or do not.    *)
(***************************************************************************)
EXTENDS Search

\* Points are kilometres along a street.
Street == {0, 2, 3, 9}
Between == [p \in Street \X Street |-> IF p[1] < p[2] THEN p[2] - p[1] ELSE p[1] - p[2]]
Decay == [d \in 0..9 |-> <<100, 89, 80, 72, 64, 57, 51, 46, 41, 37>>[d + 1]]
Excess == [n \in 1..100 |-> IF n < 20 THEN 70 ELSE 30]
Centres == [s \in {"Kemang", "Tebet"} |-> IF s = "Kemang" THEN 0 ELSE 3]

F(key, value, confidence) == [key |-> key, value |-> value, confidence |-> confidence]

CafeRecords ==
    {[place |-> "kopi", name |-> 1, area |-> {"Kemang"}, point |-> 0, age |-> 30,
      fields |-> {F("Open 24 hours", "yes", 97), F("Power outlets", "yes", 92)}],
     [place |-> "kopi", name |-> 2, area |-> {"Kemang"}, point |-> 9, age |-> 0,
      fields |-> {F("Open 24 hours", "no", 97), F("Minimum price", 50, 85), F("Menu item", "matcha", 80), F("Quietness", "good", 88),
                  F("Opening hours", "late", 95)}],
     [place |-> "kedai", name |-> 3, area |-> {"Tebet"}, point |-> 3, age |-> 0,
      fields |-> {F("Open 24 hours", "yes", 97), F("Menu item", "matcha", 80), F("Wi-Fi", "yes", 70)}]}

Asks(mentions, must, says24, where, budget) ==
    [mentions |-> mentions, must |-> must, says24 |-> says24, where |-> where, budget |-> budget]

CafeQueries ==
    {Asks({"open_24h"}, {}, TRUE, "anywhere", 40),
     Asks({"matcha"}, {"matcha"}, FALSE, "near me", 0),
     Asks({"outlets", "quiet"}, {"outlets"}, FALSE, "Kemang", 0)}

JevAnswers ==
    {[k \in {"late", "wfc", "matcha", "breakfast"} |->
        CASE k = "late" -> [score |-> 300, confidence |-> 90]   [] k = "wfc" -> [score |-> 200, confidence |-> 60]
          [] k = "matcha" -> [score |-> 400, confidence |-> 95] [] k = "breakfast" -> [score |-> 100, confidence |-> 95]],
     [k \in {"wifi"} |-> [score |-> 100, confidence |-> 95]]}
=============================================================================
