----------------------------- MODULE Recommend -----------------------------
(***************************************************************************)
(* What a query asks for, and how a cafe ranks for it: the interpreters    *)
(* and RankCafes.                                                          *)
(*                                                                         *)
(* Weights, scores, confidences and fits are in hundredths, prices in      *)
(* thousands of rupiah, distances in kilometres.  A query is what the      *)
(* patterns and the word lists find in it: the dimensions it mentions, the *)
(* ones it mentions next to a word like "must", whether it says 24 hours,  *)
(* where, and its budget (0 if none).                                      *)
(***************************************************************************)
EXTENDS Integers, FiniteSets, Functions

CONSTANTS
    Scopes,        \* the named places of locationScopes
    CentreOf,      \* their centres
    Jakarta,       \* the centre of the city
    Distance,      \* between two points
    DistanceFit,   \* exp(-distance / 9), by distance
    OverBudgetFit, \* exp(-excess / 30), by what a cafe costs over the budget
    NearbyRadius   \* nearbyRadiusKM

ASSUME FitAssumption ==
    /\ DOMAIN DistanceFit \subseteq Nat
    /\ \A d \in DOMAIN DistanceFit : DistanceFit[d] \in 0..100
    /\ \A d, e \in DOMAIN DistanceFit : d <= e => DistanceFit[e] <= DistanceFit[d]
    /\ \A n \in DOMAIN OverBudgetFit : OverBudgetFit[n] \in 0..100

Dimensions == {"wfc", "musholla", "quiet", "minimalist", "matcha"} \cup
              {"wifi", "outlets", "outdoor", "parking", "late"} \cup {"open_24h", "breakfast", "pet_friendly"}

HardFilter == {"musholla", "matcha", "wifi", "outlets", "open_24h", "pet_friendly"}

Want(k, weight) == [key |-> k, weight |-> weight]

Keys(wants) == {w.key : w \in wants}

-----------------------------------------------------------------------------
\* InterpretDeterministically.
AliasWeight(k) ==
    CASE k \in {"musholla", "open_24h"} -> 100
      [] k = "quiet" -> 92      [] k = "wfc" -> 88        [] k = "wifi" -> 82
      [] k = "outlets" -> 80    [] k = "matcha" -> 72     [] k = "minimalist" -> 68
      [] k = "outdoor" -> 62    [] k \in {"parking", "late"} -> 58
      [] k = "breakfast" -> 52  [] k = "pet_friendly" -> 48

Deterministic(q) ==
    LET hard == {k \in q.mentions \cap HardFilter : k = "open_24h" \/ k \in q.must} IN
    IF q.mentions = {}
    THEN [hard |-> {}, soft |-> {Want("wfc", 84), Want("quiet", 50)}, confidence |-> 70]
    ELSE [hard |-> {Want(k, AliasWeight(k)) : k \in hard},
          soft |-> {Want(k, AliasWeight(k)) : k \in q.mentions \ hard},
          confidence |-> 92]

\* Jev scores each dimension from 0 to 400; below 136 it does not count.
Weight(s) == IF s.score > 400 THEN 100 ELSE s.score \div 4

Usable(scores) == {k \in DOMAIN scores : scores[k].score >= 136}

Jev(scores) ==
    LET sure == {k \in Usable(scores) \cap HardFilter : scores[k].score >= 350 /\ scores[k].confidence >= 82} IN
    [hard |-> {Want(k, Weight(scores[k])) : k \in sure},
     soft |-> {Want(k, Weight(scores[k])) : k \in Usable(scores) \ sure},
     confidence |-> SumFunction([k \in Usable(scores) |-> scores[k].confidence]) \div Cardinality(Usable(scores))]

\* enforceDeterministicConstraints: "24 jam" is exact, whatever the model made of it.
AsInterpreted(q, profile) == profile  \* mutant: the model has the last word
EnforceConstraints(q, profile) ==
    LET others(wants) == {w \in wants : w.key \notin {"open_24h", "late"}} IN
    IF q.says24 THEN [profile EXCEPT !.hard = others(@) \cup {Want("open_24h", 100)}, !.soft = others(@)]
    ELSE profile

\* enforceLocationIntent, applyDefaultUserLocation: a named place, then what is near the
\* user, who need not have asked for it.
LocationMode(q, user) ==
    IF q.where \in Scopes THEN "named"
    ELSE IF q.where = "near me" \/ user # {} THEN "nearby"
    ELSE "default"

-----------------------------------------------------------------------------
(***************************************************************************)
(* RankCafes.  A cafe has its area (the scopes it lies in), its point, the *)
(* facts that hold of it, its scores and the confidence of its evidence by *)
(* key, its prices, and the days since it was published.  user is a point  *)
(* or none, in a set.                                                      *)
(***************************************************************************)
AnywhereNear(q, user, cafe) == LocationMode(q, user) # "named" \/ q.where \in cafe.area  \* mutant: the radius is forgotten
InPlace(q, user, cafe) ==
    CASE LocationMode(q, user) = "named"  -> q.where \in cafe.area
      [] LocationMode(q, user) = "nearby" -> \E p \in user : Distance[p, cafe.point] <= NearbyRadius
      [] OTHER -> TRUE

FromCentre(q, user) == IF q.where \in Scopes THEN CentreOf[q.where] ELSE Jakarta  \* mutant: where the user is does not count
From(q, user) ==
    IF user # {} THEN CHOOSE p \in user : TRUE
    ELSE IF LocationMode(q, user) = "named" THEN CentreOf[q.where]
    ELSE Jakarta

Meets(profile, cafe) == Keys(profile.hard) \subseteq cafe.facts

Clamp(x, low, high) == IF x < low THEN low ELSE IF x > high THEN high ELSE x

ScoreOf(cafe, k) ==
    IF k \in cafe.facts THEN 100 ELSE IF k \in DOMAIN cafe.scores THEN cafe.scores[k] ELSE 0

\* Where nothing is known a middling confidence is assumed.
ConfidenceOf(cafe, k) ==
    IF k \in DOMAIN cafe.evidence /\ cafe.evidence[k] > 0 THEN cafe.evidence[k] ELSE 68

BudgetFit(budget, cafe) ==
    IF budget = 0 THEN 86
    ELSE IF cafe.priceMin <= budget
    THEN 100 - Clamp((100 * (cafe.priceMax - budget)) \div (IF budget < 15 THEN 15 ELSE budget), 0, 35)
    ELSE OverBudgetFit[cafe.priceMin - budget]

MatchScore(q, user, profile, cafe) ==
    LET wants   == profile.hard \cup profile.soft
        weights == SumFunction([w \in wants |-> w.weight])
        fit     == SumFunction([w \in wants |-> w.weight * ScoreOf(cafe, w.key) * ConfidenceOf(cafe, w.key)])
        cover   == SumFunction([w \in wants |-> w.weight * ConfidenceOf(cafe, w.key)])
        fuzzy   == IF weights > 0 THEN fit \div weights ELSE 6200
        known   == IF weights > 0 THEN cover \div weights ELSE 70
        matches == Cardinality({w \in wants : w.key \in cafe.facts})
        facility == Clamp(55 + (45 * matches) \div (IF wants = {} THEN 1 ELSE Cardinality(wants)), 0, 100)
        raw     == (55 * fuzzy
                    + 1500 * facility
                    + 1500 * DistanceFit[Distance[From(q, user), cafe.point]]
                    + 1000 * BudgetFit(q.budget, cafe)
                    + 500 * Clamp(100 - (100 * cafe.age) \div 240, 45, 100)) \div 100
        sure    == Clamp((known * profile.confidence) \div 100, 48, 97)
    IN  (Clamp((raw * (8200 + 18 * sure)) \div 10000, 0, 9900) + 50) \div 100
=============================================================================
