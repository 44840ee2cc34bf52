------------------------------ MODULE MCCrawl ------------------------------
(***************************************************************************)
(* An instance of Crawl: a cafe of two branches, whose pages name it by    *)
(* their URL, their title or not at all; a place with reviews, one of them *)
(* without text; results about either branch, one of them in two searches; *)
(* claims that are supported, misplaced or made up.                        *)
(***************************************************************************)
EXTENDS Crawl

CONSTANTS none, maps_title  \* model values, for Blank and Generic

Page(url, maps, urlName, title, hours, says) ==
    [url |-> url, maps |-> maps, urlName |-> urlName, title |-> title, ldName |-> none,
     address |-> none, description |-> none, hours |-> hours, says |-> says]

CafePages ==
    {Page("site", FALSE, none, "Kopi - Kemang", "late", {"named", "cheap"}),
     Page("maps", TRUE, "Kopi - Kemang", maps_title, none, {"named"}),
     Page("maps", TRUE, none, maps_title, none, {"named"}),
     Page("site", FALSE, none, none, none, {})}

Told(url, author, says) == [url |-> url, author |-> author, says |-> says]
Place(reviews) ==
    [url |-> "maps", reviews |-> reviews,
     facts |-> [k \in {"Google Maps", "Opening hours", "Minimum price"} |->
                  CASE k = "Google Maps" -> "maps" [] k = "Opening hours" -> "early" [] OTHER -> "v1"]]

CafePlaces ==
    {Place(<<>>),
     Place(<<Told(none, "budi", {"cheap"})>>),
     Place(<<Told(none, "ana", {}), Told(none, "budi", {"noisy"}), Told("r3", "citra", {"noisy", "cheap"})>>)}

Item(url, site, terms, says) ==
    [url |-> url, site |-> site, terms |-> terms, says |-> says, boilerplate |-> FALSE]

CafeItems ==
    {Item("gm", "maps", {"kopi", "kemang"}, {"cheap"}),
     Item("tt", "tiktok", {"kopi", "kemang"}, {"cheap"}),
     Item("tt2", "tiktok", {"kopi", "kemang"}, {"noisy"}),
     Item("gm3", "maps", {"kopi", "kemang"}, {"noisy"}),
     Item("blog", "web", {"kopi", "kemang", "kedai"}, {"cheap", "named"}),
     Item("blog2", "web", {"kopi", "kemang"}, {"noisy"}),
     Item("other", "web", {"kopi", "cipete"}, {"cheap"}),
     [Item("gm2", "maps", {"kopi", "kemang"}, {"noisy"}) EXCEPT !.boilerplate = TRUE]}

Claim(key, value, cites, excerpt, confidence) ==
    [key |-> key, value |-> value, cites |-> cites, excerpt |-> excerpt, confidence |-> confidence]

CafeClaims ==
    {Claim("Identity", "Kedai", <<"source", 1>>, "named", 95),
     Claim("Identity", "Kedai", <<"exa", 1>>, "named", 95),
     Claim("Minimum price", "v2", <<"exa", 1>>, "cheap", 95),
     Claim("Minimum price", "v2", <<"exa", 2>>, "cheap", 60),
     Claim("Minimum price", "v1", <<"google_review", 3>>, "cheap", 95),
     Claim("Quietness", "noisy", <<"google_review", 2>>, "noisy", 80),
     Claim("Quietness", "noisy", <<"google_review", 2>>, "noisy", -1),
     Claim("Quietness", "noisy", <<"exa", 1>>, "noisy", 80),
     Claim("Crowd level", "busy", <<"exa", 1>>, "cheap", 80),
     Claim("Website", "blog", <<"exa", 2>>, "cheap", 80),
     Claim("Opening hours", none, <<"source", 1>>, "named", 80)}

CafeTerms == [n \in {"Kopi - Kemang", "Kedai", "host"} |->
                CASE n = "Kopi - Kemang" -> {"kopi", "kemang"} [] n = "Kedai" -> {"kedai"} [] OTHER -> {"host"}]

CafeHosts == [u \in {"site", "maps", "r3", "gm", "gm2", "gm3", "tt", "tt2", "blog", "blog2", "other"} |->
                CASE u \in {"maps", "r3", "gm", "gm2", "gm3"} -> "google" [] u \in {"blog", "blog2"} -> "blogs" [] u \in {"tt", "tt2"} -> "tiktok" [] OTHER -> u]

CafeSignals == [t \in {"named", "cheap", "noisy"} |->
                  IF t = "noisy" THEN {[key |-> "Quietness", value |-> "noisy", confidence |-> 86]} ELSE {}]
=============================================================================
