----------------------------- MODULE Conflicts -----------------------------
(***************************************************************************)
(* Which evidence conflicts: detectEvidenceConflicts over the fields of a  *)
(* record.  A crawl and a review both end in it.                           *)
(*                                                                         *)
(* A field has a key, a value (its canonicalConflictValue), the URL of its *)
(* source, a method ("google" for what Google's API said, "manual" for     *)
(* what an administrator said), a confidence in hundredths, and whether an *)
(* administrator excluded it.                                              *)
(***************************************************************************)
EXTENDS Integers

CONSTANT NoSource  \* evidence without a source URL

ConflictSensitive ==
    {"Identity", "Address", "Area", "Latitude", "Longitude", "Opening hours",
     "Open 24 hours", "Minimum price", "Maximum price", "Musholla", "Toilet", "Wi-Fi",
     "Power outlets", "Car parking", "Motorcycle parking", "Accessibility",
     "Air conditioning", "Indoor seating", "Outdoor seating", "Smoking zone",
     "Pet policy", "Halal evidence"}

Operational == {"Opening hours", "Minimum price", "Maximum price"}

OfKey(fs, k) == {f \in fs : f.key = k /\ ~f.excluded}

\* A Google field of at least .8 settles an operational key when nothing comes
\* within .1 of it and nothing was added by hand.
GoogleAlwaysWins(fs, k) ==  \* mutant: the strength of the other evidence is not compared
    /\ k \in Operational
    /\ \E g \in OfKey(fs, k) : g.method = "google" /\ g.confidence >= 80

GoogleWins(fs, k) ==
    /\ k \in Operational
    /\ \E g \in OfKey(fs, k) :
        /\ g.method = "google" /\ g.confidence >= 80
        /\ \A f \in OfKey(fs, k) :
             \/ f.method = "google" /\ f.confidence <= g.confidence
             \/ f.method \notin {"google", "manual"} /\ f.confidence <= g.confidence - 10

\* Several values and several sources; evidence without a source is not compared.
Contradicted(fs, k) ==
    LET cited == {f \in OfKey(fs, k) : f.source # NoSource} IN
    /\ \E f, g \in cited : f.value # g.value
    /\ \E f, g \in cited : f.source # g.source

Conflicting(fs, k) == k \in ConflictSensitive /\ Contradicted(fs, k) /\ ~GoogleWins(fs, k)
=============================================================================
