----------------------------- MODULE MCEvidence -----------------------------
(***************************************************************************)
(* Instances of Evidence: a page that names the cafe, Google's area and    *)
(* price, and two indexed sites that may contradict Google, one of them    *)
(* with more confidence than Google's own price has.                       *)
(***************************************************************************)
EXTENDS Evidence

Fact(k, v, s, m, c) == [key |-> k, value |-> v, source |-> s, method |-> m, confidence |-> c]

CafeKeys   == {"Identity", "Area", "Minimum price"}
CafeValues == {"v1", "v2"}
CafeSources == {"page", "maps", "site1", "site2"}

CafeCrawled ==
    <<Fact("Identity", "v1", "page", "sourced", 88),
      Fact("Area", "v1", "maps", "google", 96),
      Fact("Minimum price", "v1", "maps", "google", 85),
      Fact("Area", "v2", "site1", "sourced", 72),
      Fact("Minimum price", "v2", "site1", "sourced", 90),
      Fact("Minimum price", "v2", "site2", "sourced", 72)>>

\* A site that differs on the area; and, where the page does not name the cafe, one that
\* differs on the price with more confidence than Google, and one with so much less that
\* Google outweighs it.
CafeCrawls == {{1, 2, 4}, {2, 3, 5}, {2, 3, 6}}
=============================================================================
