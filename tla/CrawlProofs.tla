---------------------------- MODULE CrawlProofs -----------------------------
(***************************************************************************)
(* Proofs about Crawl, for any pages, places, search results and claims,   *)
(* any limits and any configured providers: all evidence is supported by   *)
(* what it cites, only the page names the cafe, a URL is one source,       *)
(* Google's hours and prices prevail over indexed listings, and what is    *)
(* missing is explained.                                                   *)
(*                                                                         *)
(* At the heart of it is Sourced: a field is Google's about the place, or  *)
(* it cites a document of its number and link that supports it, which      *)
(* bounds what that kind of document may be evidence of and how sure it    *)
(* may be (Supports).  Documents are only appended, so support stays; as   *)
(* their numbers are distinct (Documents), it is unique.                   *)
(***************************************************************************)
EXTENDS Crawl, FiniteSetTheorems, SequenceTheorems, TLAPS

-----------------------------------------------------------------------------
(***************************************************************************)
(* Numbers in order: InOrder lists a finite set of them, the smallest      *)
(* first.                                                                  *)
(***************************************************************************)
LEMMA LeastNatural ==
  ASSUME NEW T \in SUBSET Nat, T # {}
  PROVE  \E x \in T : \A y \in T : x <= y
<1> DEFINE R == OpToRel(<, Nat)
<1>1. IsWellFoundedOn(R, Nat)
  BY NatLessThanWellFounded
<1>2. \A x, y \in Nat : x < y => <<x, y>> \in R
  BY DEF OpToRel
<1> HIDE DEF R
<1>3. PICK x \in T : \A y \in T : ~ (<<y, x>> \in R)
  BY <1>1, WFMin
<1>4. x \in Nat /\ \A y \in T : y \in Nat /\ ~(y < x)
  BY <1>2, <1>3
<1>5. \A a, b \in Nat : ~(b < a) => a <= b
  OBVIOUS
<1> QED  BY <1>4, <1>5

Ordered(s, S) ==
    /\ s \in [1..Cardinality(S) -> S]
    /\ \A x \in S : \E n \in 1..Cardinality(S) : s[n] = x
    /\ \A m, n \in 1..Cardinality(S) : m < n => s[m] < s[n]

\* The smallest, and then the others in order.
LEMMA SmallestFirst ==
    ASSUME NEW S \in SUBSET Nat, IsFiniteSet(S), S # {},
           \A T \in SUBSET Nat : IsFiniteSet(T) /\ Cardinality(T) < Cardinality(S) => \E t : Ordered(t, T)
    PROVE  \E s : Ordered(s, S)
<1>1. PICK x \in S : \A y \in S : x <= y
  BY LeastNatural
<1> DEFINE T == S \ {x}
           n == Cardinality(S)
<1>2. n \in Nat /\ IsFiniteSet(T) /\ Cardinality(T) = n - 1
  BY FS_CardinalityType, FS_RemoveElement
<1>3. T \in SUBSET Nat
  OBVIOUS
<1>4. PICK t : Ordered(t, T)
  BY <1>2, <1>3
<1>5. /\ t \in [1..(n - 1) -> T]
      /\ \A y \in T : \E i \in 1..(n - 1) : t[i] = y
      /\ \A i, j \in 1..(n - 1) : i < j => t[i] < t[j]
  BY <1>2, <1>4 DEF Ordered
<1> DEFINE s == [i \in 1..n |-> IF i = 1 THEN x ELSE t[i - 1]]
<1> n \in Nat
  BY <1>2
<1> HIDE DEF n
<1>6. n # 0 /\ 1 \in 1..n
  <2>1. S # {} => Cardinality(S) # 0
    BY FS_EmptySet
  <2> QED  BY <2>1 DEF n
<1>7. \A i \in 1..n : i # 1 => i - 1 \in 1..(n - 1) /\ s[i] = t[i - 1]
  OBVIOUS
<1>8. s \in [1..n -> S]
  BY <1>5, <1>7
<1>9. \A y \in S : \E i \in 1..n : s[i] = y
  <2> TAKE y \in S
  <2>1. CASE y = x
    BY <1>6, <2>1
  <2>2. CASE y # x
    <3>1. PICK i \in 1..(n - 1) : t[i] = y
      BY <1>5, <2>2
    <3>2. i + 1 \in 1..n /\ s[i + 1] = y
      BY <3>1
    <3> QED  BY <3>2
  <2> QED  BY <2>1, <2>2
<1>10. \A i, j \in 1..n : i < j => s[i] < s[j]
  <2> SUFFICES ASSUME NEW i \in 1..n, NEW j \in 1..n, i < j PROVE s[i] < s[j]
    OBVIOUS
  <2>1. j # 1 /\ j - 1 \in 1..(n - 1) /\ s[j] = t[j - 1]
    BY <1>7
  <2>2. t[j - 1] \in T
    BY <1>5, <2>1
  <2>3. CASE i = 1
    <3>1. x <= t[j - 1] /\ x # t[j - 1] /\ x \in Nat /\ t[j - 1] \in Nat
      BY <1>1, <2>2
    <3> QED  BY <2>1, <2>3, <3>1
  <2>4. CASE i # 1
    <3>1. i - 1 \in 1..(n - 1) /\ s[i] = t[i - 1]
      BY <1>7, <2>4
    <3> QED  BY <1>5, <2>1, <3>1
  <2> QED  BY <2>3, <2>4
<1>11. Ordered(s, S)
  BY <1>8, <1>9, <1>10 DEF Ordered, n
<1> QED  BY <1>11

\* A finite set of numbers has an order: otherwise take the smallest that has none.
LEMMA OrderExists ==
    ASSUME NEW S \in SUBSET Nat, IsFiniteSet(S)
    PROVE  \E s : Ordered(s, S)
<1> DEFINE Bad == {n \in Nat : \E T \in SUBSET Nat : IsFiniteSet(T) /\ Cardinality(T) = n /\ ~(\E t : Ordered(t, T))}
<1>1. SUFFICES ASSUME Bad # {} PROVE FALSE
  BY FS_CardinalityType
<1>2. PICK n \in Bad : \A m \in Bad : n <= m
  BY <1>1, LeastNatural
<1>3. PICK T \in SUBSET Nat : IsFiniteSet(T) /\ Cardinality(T) = n /\ ~(\E t : Ordered(t, T))
  OBVIOUS
<1>4. \A U \in SUBSET Nat : IsFiniteSet(U) /\ Cardinality(U) < Cardinality(T) => \E u : Ordered(u, U)
  <2> SUFFICES ASSUME NEW U \in SUBSET Nat, IsFiniteSet(U), Cardinality(U) < n, ~(\E u : Ordered(u, U)) PROVE FALSE
    BY <1>3
  <2>1. Cardinality(U) \in Nat
    BY FS_CardinalityType
  <2>2. Cardinality(U) \in Bad
    BY <2>1
  <2> QED  BY <1>2, <2>1, <2>2
<1>5. CASE T = {}
  <2>1. Cardinality(T) = 0
    BY <1>5, FS_EmptySet
  <2>2. Ordered([i \in 1..0 |-> i], T)
    BY <1>5, <2>1 DEF Ordered
  <2> QED  BY <1>3, <2>2
<1>6. CASE T # {}
  BY <1>3, <1>4, <1>6, SmallestFirst
<1> QED  BY <1>5, <1>6

\* InOrder gives each member once.
LEMMA InOrderForm ==
    ASSUME NEW S \in SUBSET Nat, IsFiniteSet(S)
    PROVE  /\ Cardinality(S) \in Nat
           /\ InOrder(S) \in [1..Cardinality(S) -> S]
           /\ \A x \in S : \E n \in 1..Cardinality(S) : InOrder(S)[n] = x
           /\ \A m, n \in 1..Cardinality(S) : InOrder(S)[m] = InOrder(S)[n] => m = n
<1> DEFINE N == Cardinality(S)
<1>1. N \in Nat
  BY FS_CardinalityType
<1> HIDE DEF N
<1>2. PICK s : Ordered(s, S)
  BY OrderExists
<1>3. /\ s \in [1..N -> S]
      /\ \A x \in S : \E n \in 1..N : s[n] = x
      /\ \A m, n \in 1..N : m < n => s[m] < s[n]
  BY <1>2 DEF Ordered, N
<1>4. \A m, n \in 1..N : s[m] = s[n] => m = n
  <2> SUFFICES ASSUME NEW m \in 1..N, NEW n \in 1..N, m # n PROVE s[m] # s[n]
    OBVIOUS
  <2>1. s[m] \in Nat /\ s[n] \in Nat
    BY <1>3
  <2> QED  BY <1>1, <1>3, <2>1
<1>5. s \in Bijection(1..N, S) /\ \A m, n \in DOMAIN s : m < n => s[m] < s[n]
  BY <1>3, <1>4 DEF Bijection, Injection, Surjection, IsInjective
<1>6. InOrder(S) \in Bijection(1..N, S)
  BY <1>5 DEF InOrder, N
<1>7. /\ InOrder(S) \in [1..N -> S]
      /\ \A x \in S : \E n \in 1..N : InOrder(S)[n] = x
      /\ \A m, n \in 1..N : InOrder(S)[m] = InOrder(S)[n] => m = n
  BY <1>6 DEF Bijection, Injection, Surjection, IsInjective
<1> QED  BY <1>1, <1>7 DEF N

-----------------------------------------------------------------------------
(***************************************************************************)
(* Sequences of known length, and of two in a row, each member is of one   *)
(* or of the other.                                                        *)
(***************************************************************************)
Listed(s) == Len(s) \in Nat /\ DOMAIN s = 1..Len(s) /\ s = [i \in 1..Len(s) |-> s[i]]

LEMMA ListedForm ==
    ASSUME NEW n \in Nat, NEW s, s = [i \in 1..n |-> s[i]]
    PROVE  Listed(s) /\ Len(s) = n /\ DOMAIN s = 1..n
<1> DEFINE S == {s[i] : i \in 1..n}
<1>1. s \in [1..n -> S]
  OBVIOUS
<1>2. s \in Seq(S)
  BY <1>1
<1>3. DOMAIN s = 1..n
  BY <1>1
<1>4. Len(s) = n
  BY <1>2, <1>3, LenProperties, SMT
<1> QED  BY <1>3, <1>4 DEF Listed

LEMMA JoinedForm ==
    ASSUME NEW s, NEW t, Listed(s), Listed(t)
    PROVE  /\ Listed(s \o t)
           /\ DOMAIN (s \o t) = 1..(Len(s) + Len(t))
           /\ Len(s \o t) = Len(s) + Len(t)
           /\ \A i \in 1..Len(s) : (s \o t)[i] = s[i]
           /\ \A i \in 1..Len(t) : (s \o t)[Len(s) + i] = t[i]
           /\ \A i \in 1..(Len(s) + Len(t)) : i \in 1..Len(s) \/ \E j \in 1..Len(t) : i = Len(s) + j
<1> DEFINE S == {s[i] : i \in 1..Len(s)} \cup {t[i] : i \in 1..Len(t)}
<1>1. s \in [1..Len(s) -> S] /\ t \in [1..Len(t) -> S]
  BY DEF Listed
<1>2. s \in Seq(S) /\ t \in Seq(S)
  BY <1>1 DEF Listed
<1> HIDE DEF S
<1> DEFINE m == Len(s)
           n == Len(t)
<1>3. m \in Nat /\ n \in Nat
  BY DEF Listed
<1>4. s \o t \in Seq(S) /\ Len(s \o t) = m + n
      /\ \A i \in 1..(m + n) : (s \o t)[i] = IF i <= m THEN s[i] ELSE t[i - m]
  BY <1>2, ConcatProperties
<1>5. s \o t \in [1..Len(s \o t) -> S] /\ DOMAIN (s \o t) = 1..Len(s \o t)
  BY <1>4, LenProperties
<1>6. Listed(s \o t)
  <2>1. s \o t = [i \in 1..Len(s \o t) |-> (s \o t)[i]]
    BY <1>5
  <2> QED  BY <1>3, <1>4, <1>5, <2>1 DEF Listed
<1> DEFINE u == s \o t
<1> HIDE DEF m, n, u
<1>7. /\ \A i \in 1..m : u[i] = s[i]
      /\ \A i \in 1..n : u[m + i] = t[i]
      /\ \A i \in 1..(m + n) : i \in 1..m \/ \E j \in 1..n : i = m + j
  <2>1. \A i \in 1..(m + n) : u[i] = IF i <= m THEN s[i] ELSE t[i - m]
    BY <1>4 DEF u
  <2>2. \A i \in 1..m : i \in 1..(m + n) /\ i <= m
    BY <1>3
  <2>3. \A i \in 1..n : m + i \in 1..(m + n) /\ ~(m + i <= m) /\ (m + i) - m = i
    BY <1>3
  <2>4. \A i \in 1..(m + n) : i \notin 1..m => i - m \in 1..n /\ i = m + (i - m)
    BY <1>3
  <2>5. \A i \in 1..n : u[m + i] = t[i]
    <3> TAKE i \in 1..n
    <3>1. u[m + i] = t[(m + i) - m]
      BY <2>1, <2>3
    <3> QED  BY <2>3, <3>1
  <2> QED  BY <2>1, <2>2, <2>4, <2>5
<1>8. Len(u) = m + n /\ DOMAIN u = 1..(m + n)
  BY <1>4, <1>5 DEF u, m, n
<1> QED  BY <1>6, <1>7, <1>8 DEF u, m, n

LEMMA JoinedOf ==
    ASSUME NEW s, NEW t, Listed(s), Listed(t), NEW i \in DOMAIN (s \o t)
    PROVE  (\E j \in DOMAIN s : (s \o t)[i] = s[j]) \/ (\E j \in DOMAIN t : (s \o t)[i] = t[j])
<1>1. DOMAIN s = 1..Len(s) /\ DOMAIN t = 1..Len(t)
  BY DEF Listed
<1>2. CASE i \in 1..Len(s)
  BY <1>1, <1>2, JoinedForm
<1>3. CASE i \notin 1..Len(s)
  <2>1. PICK j \in 1..Len(t) : i = Len(s) + j
    BY <1>3, JoinedForm
  <2>2. (s \o t)[i] = t[j]
    BY <2>1, JoinedForm
  <2> QED  BY <1>1, <2>2
<1> QED  BY <1>2, <1>3

LEMMA JoinedApart ==
    ASSUME NEW s, NEW t, Listed(s), Listed(t), NEW i \in DOMAIN (s \o t), NEW j \in DOMAIN (s \o t), i # j
    PROVE  \/ \E a, b \in DOMAIN s : a # b /\ (s \o t)[i] = s[a] /\ (s \o t)[j] = s[b]
           \/ \E a, b \in DOMAIN t : a # b /\ (s \o t)[i] = t[a] /\ (s \o t)[j] = t[b]
           \/ \E a \in DOMAIN s, b \in DOMAIN t : (s \o t)[i] = s[a] /\ (s \o t)[j] = t[b]
           \/ \E a \in DOMAIN s, b \in DOMAIN t : (s \o t)[i] = t[b] /\ (s \o t)[j] = s[a]
<1>1. DOMAIN s = 1..Len(s) /\ DOMAIN t = 1..Len(t) /\ Len(s) \in Nat
  BY DEF Listed
<1>2. \A x \in 1..Len(s) : (s \o t)[x] = s[x]
  BY JoinedForm
<1>3. ASSUME NEW x \in DOMAIN (s \o t), x \notin 1..Len(s)
      PROVE  \E a \in DOMAIN t : x = Len(s) + a /\ (s \o t)[x] = t[a]
  <2>0. x \in 1..(Len(s) + Len(t))
    BY JoinedForm
  <2>1. PICK a \in 1..Len(t) : x = Len(s) + a
    BY <1>3, <2>0, JoinedForm
  <2>2. (s \o t)[x] = t[a]
    BY <2>1, JoinedForm
  <2> QED  BY <1>1, <2>1, <2>2
<1>4. CASE i \in 1..Len(s) /\ j \in 1..Len(s)
  BY <1>1, <1>2, <1>4
<1>5. CASE i \in 1..Len(s) /\ j \notin 1..Len(s)
  BY <1>1, <1>2, <1>3, <1>5
<1>6. CASE i \notin 1..Len(s) /\ j \in 1..Len(s)
  BY <1>1, <1>2, <1>3, <1>6
<1>7. CASE i \notin 1..Len(s) /\ j \notin 1..Len(s)
  <2>1. PICK a \in DOMAIN t : i = Len(s) + a /\ (s \o t)[i] = t[a]
    BY <1>3, <1>7
  <2>2. PICK b \in DOMAIN t : j = Len(s) + b /\ (s \o t)[j] = t[b]
    BY <1>3, <1>7
  <2> QED  BY <2>1, <2>2
<1> QED  BY <1>4, <1>5, <1>6, <1>7

LEMMA UrlsJoined ==
    ASSUME NEW s, NEW t, Listed(s), Listed(t),
           \A i, j \in DOMAIN s : s[i].url = s[j].url => i = j,
           \A i, j \in DOMAIN t : t[i].url = t[j].url => i = j,
           \A i \in DOMAIN s, j \in DOMAIN t : s[i].url # t[j].url
    PROVE  \A i, j \in DOMAIN (s \o t) : (s \o t)[i].url = (s \o t)[j].url => i = j
<1> DEFINE all == s \o t
<1> SUFFICES ASSUME NEW i \in DOMAIN all, NEW j \in DOMAIN all, all[i].url = all[j].url, i # j PROVE FALSE
  OBVIOUS
<1>1. \/ \E a, b \in DOMAIN s : a # b /\ all[i] = s[a] /\ all[j] = s[b]
      \/ \E a, b \in DOMAIN t : a # b /\ all[i] = t[a] /\ all[j] = t[b]
      \/ \E a \in DOMAIN s, b \in DOMAIN t : all[i] = s[a] /\ all[j] = t[b]
      \/ \E a \in DOMAIN s, b \in DOMAIN t : all[i] = t[b] /\ all[j] = s[a]
  BY JoinedApart
<1> HIDE DEF all
<1> QED  BY <1>1

-----------------------------------------------------------------------------
(***************************************************************************)
(* What supports a piece of evidence.                                      *)
(***************************************************************************)
\* Names for keys and numbers that proofs compare and never look into.
PlaceID == <<"google_place", 1>>

ReviewKey == "Google review"
AlwaysOpenKey == "Open 24 hours"
MapsKey == "Google Maps"

\* What Google says of the place is of its number, and as sure as its key is.
FromPlace(f) ==
    /\ f.id = PlaceID /\ f.key \in PlaceFacts /\ f.confidence = GoogleConfidence(f.key)
    /\ f.method = IF f.key = AlwaysOpenKey THEN "rules" ELSE "google"

\* What a document may support.
Supports(doc, f) ==
    \/ f.method = "page" /\ doc.kind = "submitted_html"
    \/ f.method = "google" /\ f.key = ReviewKey
    \/ f.method = "rules" /\ f.key # "Identity" /\ doc.kind = "google_places_review"
    \/ f.method = "search" /\ f.key \notin Operational \cup {"Identity"}
    \/ /\ f.method = "model" /\ f.excerpt # {} /\ f.excerpt \subseteq doc.says
       /\ f.confidence <= Cap(doc.kind)
       /\ f.key = "Identity" => doc.kind = "submitted_html"

Cites(f, doc) == doc.id = f.id /\ doc.url = f.source /\ Supports(doc, f)

Sure(f) == f.confidence \in 0..100 /\ f.excluded = FALSE

Sourced(fs, docs) == \A f \in fs : Sure(f) /\ (FromPlace(f) \/ \E i \in DOMAIN docs : Cites(f, docs[i]))

FromPage(doc)   == doc.kind = "submitted_html" /\ doc.id = PageID
FromReview(doc) == doc.kind = "google_places_review" /\ \E n \in Nat : doc.id = ReviewID(n)
FromSearch(doc) == doc.kind \in {"maps", "tiktok", "web"} /\ \E n \in Nat : doc.id = SourceID(n)

Distinct(docs) == \A i, j \in DOMAIN docs : docs[i].id = docs[j].id => i = j

\* No key that conflicts is one that reviews or searches bring.
LEMMA KeysApart ==
    /\ "Identity" \notin Operational \cup PlaceFacts
    /\ AlwaysOpenKey \notin Operational
    /\ ReviewKey \notin Operational \cup {"Identity"}
    /\ \A kind : ContextKey(kind) \notin Operational \cup {"Identity"}
<1>1. ContextKey("maps") = "Google Maps review context" /\ ContextKey("tiktok") = "TikTok review context"
  BY Zenon DEF ContextKey
<1>2. \A kind : kind \notin {"maps", "tiktok"} => ContextKey(kind) = "Web review context"
  BY Zenon DEF ContextKey
<1>3. \A kind : ContextKey(kind) \notin Operational \cup {"Identity"}
  BY <1>1, <1>2, Zenon DEF Operational
<1>4. "Identity" \notin Operational \cup PlaceFacts
  BY Zenon DEF Operational, PlaceFacts
<1>5. AlwaysOpenKey \notin Operational
  BY Zenon DEF Operational, AlwaysOpenKey
<1>6. ReviewKey \notin Operational \cup {"Identity"}
  BY Zenon DEF Operational, ReviewKey
<1> QED  BY <1>3, <1>4, <1>5, <1>6

LEMMA GoogleIsSure ==
    /\ \A k \in PlaceFacts : GoogleConfidence(k) \in 85..100
    /\ Operational \subseteq PlaceFacts
<1> DEFINE maps == "Google Maps"
           always == "Open 24 hours"
           hours == "Opening hours"
           rating == "Google rating"
           minimum == "Minimum price"
           maximum == "Maximum price"
<1>1. PlaceFacts = {maps, "Latitude", "Longitude", "Address", always, "Area", hours, rating, "Website", minimum, maximum}
  BY Zenon DEF PlaceFacts
<1>2. \A k : GoogleConfidence(k) =
                CASE k = maps -> 100
                  [] k \in {"Latitude", "Longitude"} -> 99
                  [] k \in {"Address", always} -> 97
                  [] k = "Area" -> 96
                  [] k \in {hours, rating} -> 95
                  [] k = "Website" -> 90
                  [] k \in {minimum, maximum} -> 85
  BY Zenon DEF GoogleConfidence
<1>3. Operational \subseteq PlaceFacts
  BY Zenon DEF Operational, PlaceFacts
<1> HIDE DEF maps, always, hours, rating, minimum, maximum
<1>4. \A k \in PlaceFacts : GoogleConfidence(k) \in 85..100
  BY <1>1, <1>2, SMT
<1> QED  BY <1>3, <1>4

LEMMA AddingForm ==
    ASSUME NEW fs, NEW new
    PROVE  fs \subseteq Adding(fs, new) /\ Adding(fs, new) \subseteq fs \cup new
BY DEF Adding

LEMMA InTurnForm ==
    ASSUME NEW news, NEW f \in InTurn(news)
    PROVE  \E i \in DOMAIN news : f \in news[i]
BY DEF InTurn

LEMMA CapForm == \A kind : Cap(kind) \in 70..90
BY DEF Cap

LEMMA SourcedStays ==
    ASSUME NEW fs, NEW docs, NEW more, Listed(docs), Listed(more), Sourced(fs, docs)
    PROVE  Sourced(fs, docs \o more)
<1>1. \A i \in DOMAIN docs : i \in DOMAIN (docs \o more) /\ (docs \o more)[i] = docs[i]
  BY JoinedForm DEF Listed
<1> QED  BY <1>1 DEF Sourced

LEMMA SourcedByMore ==
    ASSUME NEW fs, NEW docs, NEW more, Listed(docs), Listed(more), Sourced(fs, more)
    PROVE  Sourced(fs, docs \o more)
<1>1. \A i \in DOMAIN more : \E j \in DOMAIN (docs \o more) : (docs \o more)[j] = more[i]
  <2> TAKE i \in DOMAIN more
  <2>1. i \in 1..Len(more) /\ Len(docs) + i \in 1..(Len(docs) + Len(more))
    BY DEF Listed
  <2>2. Len(docs) + i \in DOMAIN (docs \o more) /\ (docs \o more)[Len(docs) + i] = more[i]
    BY <2>1, JoinedForm
  <2> QED  BY <2>2
<1> QED  BY <1>1 DEF Sourced

-----------------------------------------------------------------------------
(***************************************************************************)
(* The page and the place.                                                 *)
(***************************************************************************)
OfPage(f, page, k, v, c) ==
    /\ v # Blank
    /\ f.key = k /\ f.value = v /\ f.id = PageID /\ f.source = page.url
    /\ f.method = "page" /\ f.confidence = c /\ f.excluded = FALSE

LEMMA PageFieldForm ==
    ASSUME NEW page, NEW k, NEW v, NEW c
    PROVE  /\ v # Blank => PageField(page, k, v, c) # {}
           /\ \A f \in PageField(page, k, v, c) : OfPage(f, page, k, v, c)
<1>1. CASE v = Blank
  BY <1>1 DEF PageField
<1>2. CASE v # Blank
  <2>1. PageField(page, k, v, c) = {Evidence(k, v, PageID, page.url, {}, "page", c)}
    BY <1>2 DEF PageField
  <2> QED  BY <1>2, <2>1 DEF Evidence, OfPage
<1> QED  BY <1>1, <1>2

LEMMA IdentityForm ==
    ASSUME NEW page
    PROVE  Identity(page).confidence \in 0..100
BY DEF Identity

LEMMA PageForm ==
    ASSUME NEW page
    PROVE  /\ \A f \in PageFields(page) :
                /\ f.id = PageID /\ f.source = page.url /\ f.method = "page" /\ Sure(f)
                /\ f.key # MapsKey
                /\ f.key = "Identity" => f.value = Identity(page).value /\ f.value # Blank
           /\ Identity(page).value # Blank => \E f \in PageFields(page) : f.key = "Identity"
<1> DEFINE who == Identity(page)
           url == "Source URL"
           hours == "Opening hours"
           text == IF page.maps THEN Blank ELSE page.description
<1>1. PageFields(page) =
        PageField(page, "Identity", who.value, who.confidence) \cup PageField(page, url, page.url, 100)
        \cup PageField(page, "Description", text, 76) \cup PageField(page, "Address", page.address, 92)
        \cup PageField(page, hours, page.hours, 90)
  BY Zenon DEF PageFields
<1>2. url # "Identity" /\ hours # "Identity" /\ MapsKey \notin {"Identity", url, "Description", "Address", hours}
  BY Zenon DEF MapsKey
<1>3. who.confidence \in 0..100
  BY IdentityForm
<1> HIDE DEF url, hours, text, who
<1>4. ASSUME NEW f \in PageFields(page)
      PROVE  /\ f.id = PageID /\ f.source = page.url /\ f.method = "page" /\ Sure(f)
             /\ f.key # MapsKey
             /\ f.key = "Identity" => f.value = who.value /\ f.value # Blank
  <2>1. \/ OfPage(f, page, "Identity", who.value, who.confidence)
        \/ OfPage(f, page, url, page.url, 100)
        \/ OfPage(f, page, "Description", text, 76)
        \/ OfPage(f, page, "Address", page.address, 92)
        \/ OfPage(f, page, hours, page.hours, 90)
    BY <1>1, PageFieldForm
  <2> QED  BY <1>2, <1>3, <2>1 DEF OfPage, Sure
<1>5. ASSUME who.value # Blank PROVE \E f \in PageFields(page) : f.key = "Identity"
  <2>1. PICK f \in PageField(page, "Identity", who.value, who.confidence) : TRUE
    BY <1>5, PageFieldForm
  <2>2. OfPage(f, page, "Identity", who.value, who.confidence)
    BY PageFieldForm
  <2>3. f.key = "Identity" /\ f \in PageFields(page)
    BY <1>1, <2>2 DEF OfPage
  <2> QED  BY <2>3
<1> QED  BY <1>4, <1>5 DEF who

LEMMA PlacesForm ==
    ASSUME NEW place \in Places
    PROVE  /\ "Google Maps" \in DOMAIN place.facts /\ DOMAIN place.facts \subseteq PlaceFacts
           /\ \E n \in 0..5 : DOMAIN place.reviews = 1..n
           /\ \A i \in DOMAIN place.reviews : place.reviews[i].says \subseteq DOMAIN Signals
BY ProvidersAssumption, Zenon

LEMMA ReviewDocumentsForm ==
    ASSUME NEW place \in Places
    PROVE  /\ Written(place) \in SUBSET Nat
           /\ Listed(ReviewDocuments(place))
           /\ \A n \in DOMAIN ReviewDocuments(place) : \E i \in Written(place) : ReviewDocuments(place)[n] = ReviewDocument(place, i)
           /\ \A i \in Written(place) : \E n \in DOMAIN ReviewDocuments(place) : ReviewDocuments(place)[n] = ReviewDocument(place, i)
           /\ \A n \in DOMAIN ReviewDocuments(place) : FromReview(ReviewDocuments(place)[n])
           /\ Distinct(ReviewDocuments(place))
<1> DEFINE W == Written(place)
           next == InOrder(W)
           N == Cardinality(W)
           docs == ReviewDocuments(place)
<1>1. PICK m \in 0..5 : DOMAIN place.reviews = 1..m
  BY PlacesForm, Zenon
<1>2. W \in SUBSET (1..m)
  BY <1>1 DEF Written
<1> HIDE DEF W
<1>3. IsFiniteSet(W) /\ W \in SUBSET Nat
  <2>1. m \in Int
    OBVIOUS
  <2>2. IsFiniteSet(1..m)
    BY <2>1, FS_Interval
  <2>3. IsFiniteSet(W)
    BY <1>2, <2>2, FS_Subset, Zenon
  <2>4. W \in SUBSET Nat
    BY <1>2
  <2> QED  BY <2>3, <2>4
<1>4. /\ N \in Nat
      /\ next \in [1..N -> W]
      /\ \A x \in W : \E n \in 1..N : next[n] = x
      /\ \A i, j \in 1..N : next[i] = next[j] => i = j
  BY <1>3, InOrderForm
<1>5. docs = [n \in 1..N |-> ReviewDocument(place, next[n])]
  BY DEF ReviewDocuments, W
<1> HIDE DEF next, N, docs
<1>6. docs = [n \in 1..N |-> docs[n]]
  BY <1>5
<1>7. Listed(docs) /\ DOMAIN docs = 1..N
  BY <1>4, <1>6, ListedForm
<1>8. \A n \in 1..N : docs[n] = ReviewDocument(place, next[n]) /\ next[n] \in W
  BY <1>4, <1>5
<1>9. \A i : ReviewDocument(place, i).id = ReviewID(i) /\ ReviewDocument(place, i).kind = "google_places_review"
  BY DEF ReviewDocument
<1>10. \A i, j \in Nat : ReviewID(i) = ReviewID(j) => i = j
  BY DEF ReviewID
<1>11. \A n \in 1..N : FromReview(docs[n])
  BY <1>3, <1>8, <1>9 DEF FromReview
<1>12. Distinct(docs)
  <2> SUFFICES ASSUME NEW i \in 1..N, NEW j \in 1..N, docs[i].id = docs[j].id PROVE i = j
    BY <1>7 DEF Distinct
  <2>1. docs[i].id = ReviewID(next[i]) /\ docs[j].id = ReviewID(next[j])
    BY <1>8, <1>9
  <2>2. next[i] = next[j]
    BY <1>3, <1>8, <1>10, <2>1
  <2> QED  BY <1>4, <2>2
<1>13. /\ \A n \in DOMAIN docs : \E i \in W : docs[n] = ReviewDocument(place, i)
       /\ \A i \in W : \E n \in DOMAIN docs : docs[n] = ReviewDocument(place, i)
  BY <1>4, <1>7, <1>8
<1> QED  BY <1>3, <1>7, <1>11, <1>12, <1>13 DEF docs, W

LEMMA PlaceFieldsForm ==
    ASSUME NEW place \in Places
    PROVE  /\ \A f \in PlaceFields(place) : Sure(f) /\ FromPlace(f)
           /\ \E f \in PlaceFields(place) : f.method = "google" /\ f.key = MapsKey
<1> DEFINE field(k) == Evidence(k, place.facts[k], PlaceID, place.url, {},
                                IF k = AlwaysOpenKey THEN "rules" ELSE "google", GoogleConfidence(k))
<1>1. PlaceFields(place) = {field(k) : k \in DOMAIN place.facts}
  BY Zenon DEF PlaceFields, PlaceID, AlwaysOpenKey
<1>2. MapsKey \in DOMAIN place.facts /\ DOMAIN place.facts \subseteq PlaceFacts
  BY PlacesForm, Zenon DEF MapsKey
<1>3. MapsKey # AlwaysOpenKey
  BY Zenon DEF AlwaysOpenKey, MapsKey
<1>4. \A k \in PlaceFacts : /\ Sure(field(k)) /\ FromPlace(field(k))
                            /\ field(k).key = k
                            /\ k # AlwaysOpenKey => field(k).method = "google"
  BY GoogleIsSure DEF Evidence, Sure, FromPlace
<1> HIDE DEF field
<1>5. MapsKey \in PlaceFacts /\ field(MapsKey) \in PlaceFields(place)
  BY <1>1, <1>2
<1>6. \E f \in PlaceFields(place) : f.method = "google" /\ f.key = MapsKey
  BY <1>3, <1>4, <1>5
<1>7. \A f \in PlaceFields(place) : Sure(f) /\ FromPlace(f)
  BY <1>1, <1>2, <1>4
<1> QED  BY <1>6, <1>7

-----------------------------------------------------------------------------
(***************************************************************************)
(* The searches.                                                           *)
(***************************************************************************)
LaneKinds == {"maps", "tiktok", "web"}

LEMMA LanesForm ==
    /\ Len(Lanes) \in 2..3
    /\ \A i \in 1..Len(Lanes) : Lanes[i].kind \in LaneKinds /\ Lanes[i].limit \in Nat
<1>1. MapsLimit \in Nat /\ TikTokLimit \in Nat
  BY CrawlAssumption DEF MapsLimit, TikTokLimit
<1> HIDE DEF MapsLimit, TikTokLimit
<1> DEFINE maps == [kind |-> "maps", limit |-> MapsLimit]
           tiktok == [kind |-> "tiktok", limit |-> TikTokLimit]
           web == [kind |-> "web", limit |-> 0]
<1>2. \A l \in {maps, tiktok, web} : l.kind \in LaneKinds /\ l.limit \in Nat
  BY <1>1 DEF LaneKinds
<1>3. Lanes = <<maps, tiktok, web>> \/ Lanes = <<maps, web>>
  BY DEF Lanes
<1> HIDE DEF maps, tiktok, web
<1> QED  BY <1>2, <1>3

LEMMA FoundForm ==
    ASSUME NEW n \in Nat, NEW items \in [1..n -> Items], Listed(sources), Len(sources) <= MaxResults,
           lane \in 1..Len(Lanes), Room > 0
    PROVE  /\ Listed(Found(items))
           /\ Len(Found(items)) <= Room
           /\ \A i \in DOMAIN Found(items) :
                /\ Found(items)[i].kind \in LaneKinds
                /\ \A j \in DOMAIN sources : sources[j].url # Found(items)[i].url
           /\ \A i, j \in DOMAIN Found(items) : Found(items)[i].url = Found(items)[j].url => i = j
<1> DEFINE new == {i \in DOMAIN items : New(items, i)}
           next == InOrder(new)
           N == Cardinality(new)
           K == IF N < Limit THEN N ELSE Limit
           found == Found(items)
           kind == Lanes[lane].kind
<1>1. Room \in Nat /\ Limit \in Nat /\ Limit <= Room
  <2>1. Room \in Nat
    BY CrawlAssumption DEF Room, Listed
  <2>2. Lanes[lane].limit \in Nat
    BY LanesForm
  <2> QED  BY <2>1, <2>2 DEF Limit
<1>2. IsFiniteSet(new) /\ new \in SUBSET Nat /\ new \in SUBSET (1..n)
  <2>1. IsFiniteSet(1..n)
    BY FS_Interval
  <2>2. new \in SUBSET (1..n)
    OBVIOUS
  <2> HIDE DEF new
  <2>3. IsFiniteSet(new)
    BY <2>1, <2>2, FS_Subset, Zenon
  <2> QED  BY <2>2, <2>3
<1>3. /\ N \in Nat
      /\ next \in [1..N -> new]
      /\ \A i, j \in 1..N : next[i] = next[j] => i = j
  <2> HIDE DEF new
  <2> QED  BY <1>2, InOrderForm
<1>4. K \in Nat /\ K <= Room /\ 1..K \subseteq 1..N
  <2> HIDE DEF N
  <2> QED  BY <1>1, <1>3
<1>5. found = [i \in 1..K |-> Discovered(items[next[i]], kind)]
  BY DEF Found, FirstOf
<1>6. \A i \in new : /\ i \in DOMAIN items
                     /\ \A s \in DOMAIN sources : sources[s].url # items[i].url
                     /\ \A j \in new : j < i => items[j].url # items[i].url
  BY DEF New
<1> HIDE DEF new, next, K, N, found, kind
<1>7. found = [i \in 1..K |-> found[i]]
  BY <1>5
<1>8. Listed(found) /\ Len(found) = K /\ DOMAIN found = 1..K
  BY <1>4, <1>7, ListedForm
<1>9. \A i \in 1..K : next[i] \in new /\ found[i].url = items[next[i]].url /\ found[i].kind = kind
  <2>1. \A i \in 1..K : next[i] \in new /\ found[i] = Discovered(items[next[i]], kind)
    BY <1>3, <1>4, <1>5
  <2>2. \A item, k : Discovered(item, k).url = item.url /\ Discovered(item, k).kind = k
    BY DEF Discovered
  <2> QED  BY <2>1, <2>2
<1>10. kind \in LaneKinds
  BY LanesForm DEF kind
<1>11. \A i, j \in 1..K : found[i].url = found[j].url => i = j
  <2> SUFFICES ASSUME NEW i \in 1..K, NEW j \in 1..K, found[i].url = found[j].url, i # j PROVE FALSE
    OBVIOUS
  <2>1. next[i] \in new /\ next[j] \in new /\ items[next[i]].url = items[next[j]].url
    BY <1>9
  <2>2. next[i] # next[j] /\ next[i] \in Nat /\ next[j] \in Nat
    BY <1>2, <1>3, <1>4, <2>1
  <2>3. next[i] < next[j] \/ next[j] < next[i]
    BY <2>2
  <2> QED  BY <1>6, <2>1, <2>3
<1>12. \A i \in 1..K : \A j \in DOMAIN sources : sources[j].url # found[i].url
  BY <1>6, <1>9
<1> QED  BY <1>4, <1>8, <1>9, <1>10, <1>11, <1>12 DEF found

LEMMA SourceDocumentsForm ==
    ASSUME NEW found, Listed(found), \A i \in DOMAIN found : found[i].kind \in LaneKinds
    PROVE  /\ Listed(SourceDocuments(found)) /\ DOMAIN SourceDocuments(found) = DOMAIN found
           /\ \A i \in DOMAIN SourceDocuments(found) : FromSearch(SourceDocuments(found)[i])
           /\ Distinct(SourceDocuments(found))
<1> DEFINE docs == SourceDocuments(found)
           N == Len(found)
<1>1. N \in Nat /\ DOMAIN found = 1..N
  BY DEF Listed
<1> HIDE DEF N
<1>2. docs = [i \in 1..N |-> [id |-> SourceID(i), url |-> found[i].url, kind |-> found[i].kind, says |-> found[i].says]]
  BY <1>1 DEF SourceDocuments
<1> HIDE DEF docs
<1>3. docs = [i \in 1..N |-> docs[i]]
  BY <1>2
<1>4. Listed(docs) /\ DOMAIN docs = 1..N
  BY <1>1, <1>3, ListedForm
<1>5. \A i \in 1..N : docs[i].id = SourceID(i) /\ docs[i].kind = found[i].kind
  BY <1>2
<1>6. \A i \in 1..N : FromSearch(docs[i])
  BY <1>1, <1>5 DEF FromSearch, LaneKinds
<1>7. Distinct(docs)
  BY <1>4, <1>5 DEF Distinct, SourceID
<1> QED  BY <1>1, <1>4, <1>6, <1>7 DEF docs

LEMMA ContextIsSourced ==
    ASSUME NEW fs, NEW found, Listed(found)
    PROVE  Sourced({Context(fs, found, i) : i \in DOMAIN found}, SourceDocuments(found))
<1> SUFFICES ASSUME NEW i \in DOMAIN found
             PROVE  /\ Sure(Context(fs, found, i))
                    /\ i \in DOMAIN SourceDocuments(found)
                    /\ Cites(Context(fs, found, i), SourceDocuments(found)[i])
  BY Zenon DEF Sourced
<1> DEFINE f == Context(fs, found, i)
<1>1. ContextConfidence(fs, found, i) \in 0..100
  BY DEF ContextConfidence
<1>2. /\ f.key = ContextKey(found[i].kind) /\ f.id = SourceID(i) /\ f.source = found[i].url
      /\ f.method = "search" /\ f.confidence = ContextConfidence(fs, found, i) /\ f.excluded = FALSE
  BY DEF Context, Evidence
<1>3. ContextKey(found[i].kind) \notin Operational \cup {"Identity"}
  BY KeysApart
<1>4. /\ i \in DOMAIN SourceDocuments(found)
      /\ SourceDocuments(found)[i].id = SourceID(i) /\ SourceDocuments(found)[i].url = found[i].url
  BY DEF SourceDocuments
<1> HIDE DEF f
<1> QED  BY <1>1, <1>2, <1>3, <1>4 DEF f, Sure, Cites, Supports

-----------------------------------------------------------------------------
(***************************************************************************)
(* The model.                                                              *)
(***************************************************************************)
LEMMA ClaimsForm == \A claim \in Claims : claim.confidence \in Int
BY ProvidersAssumption, Zenon

LEMMA BelievedForm ==
    ASSUME NEW claim, NEW doc, claim.confidence \in Int
    PROVE  Believed(claim, doc) \in 0..100 /\ Believed(claim, doc) <= Cap(doc.kind)
<1>1. Cap(doc.kind) \in 70..90
  BY CapForm
<1> QED  BY <1>1 DEF Believed

\* The price band is not a name.
LEMMA ClaimKeyForm ==
    ASSUME NEW claim, ClaimKey(claim) = "Identity"
    PROVE  claim.key = "Identity"
<1>1. "Typical spend minimum" # "Identity"
  BY Zenon
<1> QED  BY <1>1, Zenon DEF ClaimKey

\* What a model adds cites the document it was made of, and supports no name but the page's.
LEMMA MergedForm ==
    ASSUME NEW n \in Nat, NEW answer \in [1..n -> Claims],
           NEW f \in Merged(answer), f \notin fields
    PROVE  Sure(f) /\ f.method = "model" /\ \E i \in DOMAIN documents : Cites(f, documents[i])
<1> DEFINE news == [i \in DOMAIN answer |-> FromClaim(answer[i])]
<1>1. f \in InTurn(news)
  BY AddingForm DEF Merged
<1>2. PICK a \in DOMAIN news : f \in news[a]
  BY <1>1, InTurnForm
<1> DEFINE claim == answer[a]
<1>3. claim \in Claims /\ f \in FromClaim(claim)
  BY <1>2
<1> HIDE DEF claim, news
<1>4. PICK i \in DOMAIN documents : Accepted(claim, documents[i]) /\ f = ClaimEvidence(claim, documents[i])
  BY <1>3 DEF FromClaim
<1> DEFINE doc == documents[i]
<1>5. claim.confidence \in Int
  BY <1>3, ClaimsForm
<1>6. Believed(claim, doc) \in 0..100 /\ Believed(claim, doc) <= Cap(doc.kind)
  BY <1>5, BelievedForm
<1>7. claim.excerpt \in doc.says /\ (claim.key = "Identity" => doc.kind = "submitted_html")
  <2>1. ExcerptSupported(claim, doc) /\ MayIdentify(claim, doc)
    BY <1>4 DEF Accepted
  <2>2. claim.excerpt \in doc.says
    BY <2>1 DEF ExcerptSupported
  <2>3. claim.key = "Identity" => doc.kind = "submitted_html"
    BY <2>1, Zenon DEF MayIdentify, IsReview
  <2> QED  BY <2>2, <2>3
<1> HIDE DEF doc
<1>8. /\ f.key = ClaimKey(claim) /\ f.id = doc.id /\ f.source = doc.url /\ f.excerpt = {claim.excerpt}
      /\ f.method = "model" /\ f.confidence = Believed(claim, doc) /\ f.excluded = FALSE
  BY <1>4 DEF ClaimEvidence, Evidence, doc
<1>9. f.key = "Identity" => doc.kind = "submitted_html"
  BY <1>7, <1>8, ClaimKeyForm
<1>10. Sure(f) /\ Cites(f, doc)
  BY <1>6, <1>7, <1>8, <1>9 DEF Sure, Cites, Supports
<1> QED  BY <1>8, <1>10 DEF doc

\* Unless a key conflicts, one of its fields is the surest.
LEMMA BestExists ==
    ASSUME NEW fs, NEW k, \A f \in fs : Sure(f), ~Conflicting(fs, k), OfKey(fs, k) # {}
    PROVE  Best(fs, k) # {}
<1> DEFINE named == OfKey(fs, k)
           best == {f \in named : \A g \in named : g.confidence <= f.confidence}
           Doubts == {100 - f.confidence : f \in named}
<1>1. \A f \in named : f.confidence \in 0..100
  BY DEF OfKey, Sure
<1>2. Doubts \in SUBSET Nat /\ Doubts # {}
  BY <1>1
<1>3. PICK d \in Doubts : \A e \in Doubts : d <= e
  BY <1>2, LeastNatural
<1>4. PICK f \in named : d = 100 - f.confidence
  OBVIOUS
<1>5. f \in best
  <2> SUFFICES ASSUME NEW g \in named PROVE g.confidence <= f.confidence
    OBVIOUS
  <2>1. d <= 100 - g.confidence
    BY <1>3
  <2> QED  BY <1>1, <1>4, <2>1
<1>6. Best(fs, k) = IF \E g \in best : g.method = "page" THEN {g \in best : g.method = "page"} ELSE best
  BY DEF Best
<1> HIDE DEF best
<1> QED  BY <1>5, <1>6

LEMMA BestForm ==
    ASSUME NEW fs, NEW k
    PROVE  Best(fs, k) \subseteq OfKey(fs, k)
BY DEF Best

-----------------------------------------------------------------------------
(***************************************************************************)
(* Appending documents.                                                    *)
(***************************************************************************)
LEMMA IDsApart ==
    /\ \A n \in Nat : PageID # ReviewID(n) /\ PageID # SourceID(n) /\ PlaceID # ReviewID(n) /\ PlaceID # SourceID(n)
    /\ \A m, n \in Nat : ReviewID(m) # SourceID(n)
    /\ PageID # PlaceID
BY DEF PageID, ReviewID, SourceID, PlaceID

\* A page.
LEMMA PageSourced ==
    ASSUME NEW page
    PROVE  /\ Listed(<<PageDocument(page)>>) /\ Distinct(<<PageDocument(page)>>)
           /\ \A i \in DOMAIN <<PageDocument(page)>> : FromPage(<<PageDocument(page)>>[i])
           /\ Sourced(PageFields(page), <<PageDocument(page)>>)
<1> DEFINE doc == PageDocument(page)
           docs == <<doc>>
<1>1. doc.id = PageID /\ doc.url = page.url /\ doc.kind = "submitted_html"
  BY DEF PageDocument
<1> HIDE DEF doc
<1>2. Len(docs) = 1 /\ DOMAIN docs = 1..1 /\ docs[1] = doc /\ docs = [i \in 1..1 |-> docs[i]]
  OBVIOUS
<1> HIDE DEF docs
<1>3. Listed(docs) /\ Distinct(docs)
  BY <1>2 DEF Listed, Distinct
<1>4. \A i \in DOMAIN docs : FromPage(docs[i])
  BY <1>1, <1>2 DEF FromPage
<1>5. ASSUME NEW f \in PageFields(page) PROVE Sure(f) /\ 1 \in DOMAIN docs /\ Cites(f, docs[1])
  <2>1. f.id = PageID /\ f.source = page.url /\ f.method = "page" /\ Sure(f)
    BY PageForm
  <2> QED  BY <1>1, <1>2, <2>1 DEF Cites, Supports
<1>6. Sourced(PageFields(page), docs)
  BY <1>5, Zenon DEF Sourced
<1> QED  BY <1>3, <1>4, <1>6 DEF docs, doc

LEMMA DistinctJoined ==
    ASSUME NEW docs, NEW more, Listed(docs), Listed(more), Distinct(docs), Distinct(more),
           \A i \in DOMAIN docs, j \in DOMAIN more : docs[i].id # more[j].id
    PROVE  Distinct(docs \o more)
<1> DEFINE all == docs \o more
<1> SUFFICES ASSUME NEW i \in DOMAIN all, NEW j \in DOMAIN all, all[i].id = all[j].id, i # j PROVE FALSE
  BY DEF Distinct
<1>1. \/ \E a, b \in DOMAIN docs : a # b /\ all[i] = docs[a] /\ all[j] = docs[b]
      \/ \E a, b \in DOMAIN more : a # b /\ all[i] = more[a] /\ all[j] = more[b]
      \/ \E a \in DOMAIN docs, b \in DOMAIN more : all[i] = docs[a] /\ all[j] = more[b]
      \/ \E a \in DOMAIN docs, b \in DOMAIN more : all[i] = more[b] /\ all[j] = docs[a]
  BY JoinedApart
<1> HIDE DEF all
<1> QED  BY <1>1 DEF Distinct

\* What a place adds, if nothing linked to Google Maps before.
LEMMA PlaceSourced ==
    ASSUME NEW place \in Places, NEW fs, NEW docs, Listed(docs), Sourced(fs, docs),
           \A f \in fs : f.key # MapsKey
    PROVE  LET gs == WithSignals(WithPlace(fs, place), ReviewDocuments(place)) IN
           /\ fs \subseteq gs
           /\ Sourced(gs, docs \o ReviewDocuments(place))
           /\ \A f \in gs : f \in fs \/ f.method \in {"google", "rules"}
           /\ \E f \in gs : f.method = "google"
<1> DEFINE rd == ReviewDocuments(place)
           added == Adding(fs, PlaceFields(place))
           reviews == {Review(place, i) : i \in Written(place)}
           signals == [n \in DOMAIN rd |-> SignalsOf(rd[n])]
           gs == WithSignals(WithPlace(fs, place), rd)
<1>1. /\ Listed(rd)
      /\ \A n \in DOMAIN rd : \E i \in Written(place) : rd[n] = ReviewDocument(place, i)
      /\ \A i \in Written(place) : \E n \in DOMAIN rd : rd[n] = ReviewDocument(place, i)
  BY ReviewDocumentsForm
<1>2. added \subseteq gs /\ reviews \subseteq gs /\ gs \subseteq added \cup reviews \cup InTurn(signals)
  BY AddingForm DEF WithSignals, WithPlace
<1>3. fs \subseteq added /\ added \subseteq fs \cup PlaceFields(place)
  BY AddingForm
<1>4. \A i : /\ Review(place, i).id = ReviewID(i) /\ Review(place, i).source = ReviewURL(place, i)
             /\ Review(place, i).key = ReviewKey /\ Review(place, i).method = "google"
             /\ Sure(Review(place, i))
  <2> TAKE i
  <2>1. Review(place, i) = Evidence(ReviewKey, place.reviews[i].author, ReviewID(i), ReviewURL(place, i),
                                    place.reviews[i].says, "google", 88)
    BY Zenon DEF Review, ReviewKey
  <2> QED  BY <2>1 DEF Evidence, Sure
<1>5. \A i : /\ ReviewDocument(place, i).id = ReviewID(i) /\ ReviewDocument(place, i).url = ReviewURL(place, i)
             /\ ReviewDocument(place, i).kind = "google_places_review"
             /\ ReviewDocument(place, i).says = place.reviews[i].says
  BY DEF ReviewDocument
<1> HIDE DEF added, gs, rd
<1>6. ASSUME NEW f \in reviews PROVE Sure(f) /\ f.method = "google" /\ \E n \in DOMAIN rd : Cites(f, rd[n])
  <2>1. PICK i \in Written(place) : f = Review(place, i)
    OBVIOUS
  <2>2. PICK n \in DOMAIN rd : rd[n] = ReviewDocument(place, i)
    BY <1>1
  <2>3. Cites(f, rd[n])
    BY <1>4, <1>5, <2>1, <2>2 DEF Cites, Supports
  <2> QED  BY <1>4, <2>1, <2>3
<1>7. ASSUME NEW f \in InTurn(signals) PROVE Sure(f) /\ f.method = "rules" /\ \E n \in DOMAIN rd : Cites(f, rd[n])
  <2>1. PICK n \in DOMAIN signals : f \in signals[n]
    BY <1>7, InTurnForm
  <2>2. n \in DOMAIN rd /\ f \in SignalsOf(rd[n])
    BY <2>1
  <2>3. PICK i \in Written(place) : rd[n] = ReviewDocument(place, i)
    BY <1>1, <2>2
  <2> DEFINE doc == rd[n]
             read == UNION {Signals[t] : t \in doc.says}
  <2>9. f \in {Evidence(s.key, s.value, doc.id, doc.url, doc.says, "rules", s.confidence) : s \in read}
    BY <2>2 DEF SignalsOf
  <2>10. PICK s \in read : f = Evidence(s.key, s.value, doc.id, doc.url, doc.says, "rules", s.confidence)
    BY <2>9
  <2>4. PICK t \in doc.says : s \in Signals[t]
    OBVIOUS
  <2>5. t \in DOMAIN Signals
    BY <1>5, <2>3, <2>4, PlacesForm, Zenon DEF Written
  <2>6. s.key # "Identity" /\ s.confidence \in 0..100
    BY <2>4, <2>5, ProvidersAssumption, Zenon
  <2>7. f.key = s.key /\ f.id = rd[n].id /\ f.source = rd[n].url /\ f.method = "rules"
        /\ f.confidence = s.confidence /\ f.excluded = FALSE
    BY <2>10 DEF Evidence
  <2>8. rd[n].kind = "google_places_review"
    BY <1>5, <2>3
  <2> QED  BY <2>2, <2>6, <2>7, <2>8 DEF Sure, Cites, Supports
<1>8. \A f \in PlaceFields(place) : Sure(f) /\ FromPlace(f) /\ f.method \in {"google", "rules"}
  BY PlaceFieldsForm DEF FromPlace
<1> DEFINE known(f) == Sure(f) /\ (FromPlace(f) \/ \E n \in DOMAIN rd : Cites(f, rd[n]))
           told(f) == f.method \in {"google", "rules"}
<1>15. \A f \in reviews : known(f) /\ told(f)
  BY <1>6
<1>16. \A f \in InTurn(signals) : known(f) /\ told(f)
  BY <1>7
<1>17. \A f \in PlaceFields(place) : known(f) /\ told(f)
  BY <1>8
<1> HIDE DEF known, told, reviews, signals
<1>9. \A f \in gs : f \in fs \/ (known(f) /\ told(f))
  BY <1>2, <1>3, <1>15, <1>16, <1>17
<1>10. Sourced(fs, docs \o rd)
  BY <1>1, SourcedStays
<1> DEFINE news == gs \ fs
<1>11. Sourced(news, docs \o rd)
  <2> HIDE DEF news
  <2>0. \A f \in news : f \in gs /\ f \notin fs
    BY DEF news
  <2>1. Sourced(news, rd)
    <3>1. \A f \in news : known(f)
      BY <1>9, <2>0
    <3> QED  BY <3>1, Zenon DEF Sourced, known
  <2> QED  BY <1>1, <2>1, SourcedByMore
<1>12. Sourced(gs, docs \o rd)
  BY <1>10, <1>11, Zenon DEF Sourced
<1>14. fs \subseteq gs /\ \A f \in gs : f \in fs \/ f.method \in {"google", "rules"}
  <2>1. fs \subseteq gs
    BY <1>2, <1>3
  <2>2. \A f \in gs : f \in fs \/ told(f)
    BY <1>9
  <2> QED  BY <2>1, <2>2 DEF told
<1>13. \E f \in gs : f.method = "google"
  <2>1. PICK f \in PlaceFields(place) : f.method = "google" /\ f.key = MapsKey
    BY PlaceFieldsForm
  <2>2. f \in added
    BY <2>1 DEF added, Adding, Same
  <2> QED  BY <1>2, <2>1, <2>2
<1> QED  BY <1>12, <1>13, <1>14, Zenon DEF gs, rd

\* What the searches add.
LEMMA SearchSourced ==
    ASSUME NEW fs, NEW docs, NEW found, Listed(docs), Sourced(fs, docs), Listed(found),
           \A i \in DOMAIN found : found[i].kind \in LaneKinds
    PROVE  /\ Sourced(MergedSources(fs, found), docs \o SourceDocuments(found))
           /\ fs \subseteq MergedSources(fs, found)
           /\ \A f \in MergedSources(fs, found) : f \in fs \/ f.method = "search"
<1> DEFINE news == {Context(fs, found, i) : i \in DOMAIN found}
           sd == SourceDocuments(found)
<1>1. Listed(sd) /\ Sourced(news, sd)
  BY SourceDocumentsForm, ContextIsSourced
<1>2. MergedSources(fs, found) = fs \cup news
  BY DEF MergedSources
<1>3. \A f \in news : f.method = "search"
  BY DEF Context, Evidence
<1> HIDE DEF news, sd
<1>4. Sourced(fs, docs \o sd) /\ Sourced(news, docs \o sd)
  BY <1>1, SourcedStays, SourcedByMore
<1>5. Sourced(fs \cup news, docs \o sd)
  BY <1>4, Zenon DEF Sourced
<1> QED  BY <1>2, <1>3, <1>5 DEF sd

LEMMA OnlyPageAndModelName ==
    ASSUME NEW fs, NEW docs, Sourced(fs, docs), NEW f \in fs, f.method \notin {"page", "model"}
    PROVE  f.key # "Identity"
<1>1. CASE FromPlace(f)
  BY <1>1, KeysApart DEF FromPlace
<1>2. CASE \E i \in DOMAIN docs : Cites(f, docs[i])
  BY <1>2, KeysApart DEF Cites, Supports
<1> QED  BY <1>1, <1>2 DEF Sourced

Known(docs) == \A i \in DOMAIN docs : FromPage(docs[i]) \/ FromReview(docs[i]) \/ FromSearch(docs[i])

LEMMA KnownJoined ==
    ASSUME NEW docs, NEW more, Listed(docs), Listed(more), Known(docs), Known(more)
    PROVE  Known(docs \o more)
<1> SUFFICES ASSUME NEW i \in DOMAIN (docs \o more)
             PROVE  LET d == (docs \o more)[i] IN FromPage(d) \/ FromReview(d) \/ FromSearch(d)
  BY DEF Known
<1>1. (\E j \in DOMAIN docs : (docs \o more)[i] = docs[j]) \/ (\E j \in DOMAIN more : (docs \o more)[i] = more[j])
  BY JoinedOf
<1> QED  BY <1>1 DEF Known

-----------------------------------------------------------------------------
(***************************************************************************)
(* The invariant.                                                          *)
(***************************************************************************)
\* The stages are those of the configured providers, and so are the warnings.
Staged ==
    /\ stage \in {"fetch", "google", "exa", "model", "done", "failed"}
    /\ stage \in {"google", "exa", "model"} => stage \in Providers
    /\ warnings \subseteq Providers /\ unnamed \in BOOLEAN /\ laneFailed \in BOOLEAN

\* Documents are numbered apart: the page, then reviews, then what was searched.
Documents ==
    /\ Listed(documents) /\ Distinct(documents)
    /\ \A i \in DOMAIN documents : FromPage(documents[i]) \/ FromReview(documents[i]) \/ FromSearch(documents[i])
    /\ stage \in {"google", "exa"} => \A i \in DOMAIN documents : FromPage(documents[i]) \/ FromReview(documents[i])
    /\ stage = "google" => \A i \in DOMAIN documents : FromPage(documents[i])

\* All evidence has its place, or a document that supports it.
Fields ==
    /\ Sourced(fields, documents)
    /\ stage = "google" => \A f \in fields : f.key # MapsKey

\* The sources fit in MaxResults, and are of different URLs.
Sources ==
    /\ Listed(sources) /\ Len(sources) <= MaxResults
    /\ lane \in 1..(Len(Lanes) + 1)
    /\ \A i \in DOMAIN sources : sources[i].kind \in LaneKinds
    /\ SourcesDistinct
    /\ stage \in {"fetch", "google"} => sources = <<>> /\ ~laneFailed

\* The record has the best name there is, or Host and an issue.
Named ==
    /\ unnamed => name = Host /\ OfKey(fields, "Identity") = {}
    /\ stage \notin {"fetch", "failed"} /\ ~unnamed => \E f \in Best(fields, "Identity") : name = f.value

\* A provider that was asked brought something, or there is its warning.
Explained ==
    /\ stage \in {"exa", "model", "done"} /\ "google" \in Providers
         => (\E f \in fields : f.method = "google") \/ "google" \in warnings
    /\ stage \in {"model", "done"} /\ sources = <<>> /\ laneFailed => "exa" \in warnings
    /\ stage = "done" /\ "model" \in Providers => (\E f \in fields : f.method = "model") \/ "model" \in warnings

IInv == Staged /\ Documents /\ Fields /\ Sources /\ Named /\ Explained

-----------------------------------------------------------------------------
(***************************************************************************)
(* The stages.                                                             *)
(***************************************************************************)
LEMMA AfterForm ==
    /\ After("fetch") = IF "google" \in Providers THEN "google" ELSE After("google")
    /\ After("google") = IF "exa" \in Providers THEN "exa" ELSE After("exa")
    /\ After("exa") = IF "model" \in Providers THEN "model" ELSE "done"
    /\ After("model") = "done"
<1> DEFINE rank(t) == CHOOSE i \in DOMAIN Stages : Stages[i] = t
           ahead(s) == {i \in DOMAIN Stages :
                          /\ s = "fetch" \/ i > rank(s)
                          /\ Stages[i] \in Providers \cup {"done"}}
           next(s) == CHOOSE i \in ahead(s) : \A j \in ahead(s) : i <= j
<1>1. DOMAIN Stages = 1..4 /\ Stages[1] = "google" /\ Stages[2] = "exa" /\ Stages[3] = "model" /\ Stages[4] = "done"
  BY DEF Stages
<1>2. rank("google") = 1 /\ rank("exa") = 2 /\ rank("model") = 3
  BY <1>1
<1> HIDE DEF rank
<1>3. \A s : After(s) = Stages[next(s)]
  BY DEF After, rank
<1>4. \A s : \A i \in ahead(s) : (\A j \in ahead(s) : i <= j) => next(s) = i
  <2> SUFFICES ASSUME NEW s, NEW i \in ahead(s), \A j \in ahead(s) : i <= j
               PROVE  next(s) = i
    OBVIOUS
  <2>1. ahead(s) \subseteq 1..4
    BY <1>1
  <2> HIDE DEF ahead
  <2>2. next(s) \in ahead(s) /\ \A j \in ahead(s) : next(s) <= j
    OBVIOUS
  <2> QED  BY <2>1, <2>2
<1> DEFINE Ahead(n) == {i \in 1..4 : i > n /\ (i = 1 => "google" \in Providers) /\ (i = 2 => "exa" \in Providers)
                                     /\ (i = 3 => "model" \in Providers)}
<1>5. ahead("fetch") = Ahead(0) /\ ahead("google") = Ahead(1) /\ ahead("exa") = Ahead(2) /\ ahead("model") = Ahead(3)
  <2>1. \A i \in 1..4 : Stages[i] \in Providers \cup {"done"}
           <=> (i = 1 => "google" \in Providers) /\ (i = 2 => "exa" \in Providers) /\ (i = 3 => "model" \in Providers)
    BY <1>1
  <2> QED  BY <1>1, <1>2, <2>1
<1> HIDE DEF ahead, next
<1>6. next("model") = 4
  BY <1>4, <1>5
<1>7. next("exa") = IF "model" \in Providers THEN 3 ELSE 4
  BY <1>4, <1>5
<1>8. next("google") = IF "exa" \in Providers THEN 2 ELSE next("exa")
  BY <1>4, <1>5, <1>7
<1>9. next("fetch") = IF "google" \in Providers THEN 1 ELSE next("google")
  BY <1>4, <1>5, <1>7, <1>8
<1> QED  BY <1>1, <1>3, <1>6, <1>7, <1>8, <1>9

LEMMA AfterType ==
    /\ After("fetch") \in {"google", "exa", "model", "done"} /\ After("google") \in {"exa", "model", "done"}
    /\ After("exa") \in {"model", "done"} /\ After("model") = "done"
    /\ "google" \in Providers => After("fetch") = "google"
    /\ "model" \in Providers => After("fetch") # "done" /\ After("google") # "done" /\ After("exa") # "done"
    /\ \A s \in {"fetch", "google", "exa"} : After(s) # "done" => After(s) \in Providers
BY AfterForm

LEMMA StagedInductive == ASSUME Staged, [Next]_vars PROVE Staged'
<1>1. CASE FetchPage
  BY <1>1, AfterType DEF Staged, FetchPage
<1>2. CASE FetchFails
  BY <1>2 DEF Staged, FetchFails
<1>3. CASE ResolvePlace
  BY <1>3, AfterType DEF Staged, ResolvePlace
<1>4. CASE ResolveFails
  BY <1>4, AfterType DEF Staged, ResolveFails
<1>5. ASSUME NEW found, NEW failed \in BOOLEAN, SearchLane(found, failed) PROVE Staged'
  BY <1>5 DEF Staged, SearchLane
<1>6. CASE Search \/ SearchFails
  BY <1>5, <1>6 DEF Search, SearchFails
<1>7. CASE Discover
  BY <1>7, AfterType DEF Staged, Discover
<1>8. CASE Extract
  <2>1. stage = "model" /\ stage' = "done" /\ laneFailed' = laneFailed /\ (unnamed' = unnamed \/ unnamed' = FALSE)
        /\ warnings' \subseteq warnings \cup {"model"}
    BY <1>8, AfterType DEF Extract
  <2> QED  BY <2>1 DEF Staged
<1>9. CASE ExtractFails
  BY <1>9, AfterType DEF Staged, ExtractFails
<1>10. CASE UNCHANGED vars
  BY <1>10 DEF Staged, vars
<1> QED  BY <1>1, <1>2, <1>3, <1>4, <1>6, <1>7, <1>8, <1>9, <1>10 DEF Next

-----------------------------------------------------------------------------
(***************************************************************************)
(* The documents.                                                          *)
(***************************************************************************)
LEMMA DocumentsInductive ==
    ASSUME Staged, Documents, Sources, [Next]_vars
    PROVE  Documents'
<1> USE DEF Documents
<1>1. CASE FetchPage
  <2>1. PICK page \in Pages : documents' = <<PageDocument(page)>>
    BY <1>1 DEF FetchPage
  <2> QED  BY <2>1, PageSourced
<1>2. CASE ResolvePlace
  <2>1. PICK place \in Places : documents' = documents \o ReviewDocuments(place)
    BY <1>2 DEF ResolvePlace
  <2>2. stage = "google" /\ stage' \in {"exa", "model", "done"}
    BY <1>2, AfterType DEF ResolvePlace
  <2> DEFINE rd == ReviewDocuments(place)
  <2>3. Listed(rd) /\ Distinct(rd) /\ \A i \in DOMAIN rd : FromReview(rd[i])
    BY ReviewDocumentsForm
  <2> HIDE DEF rd
  <2>4. \A i \in DOMAIN documents : FromPage(documents[i])
    BY <2>2
  <2>5. \A i \in DOMAIN documents, j \in DOMAIN rd : documents[i].id # rd[j].id
    BY <2>3, <2>4, IDsApart DEF FromPage, FromReview
  <2>6. Listed(documents \o rd) /\ Distinct(documents \o rd)
    BY <2>3, <2>5, DistinctJoined, JoinedForm
  <2>7. \A i \in DOMAIN (documents \o rd) : FromPage((documents \o rd)[i]) \/ FromReview((documents \o rd)[i])
    <3> TAKE i \in DOMAIN (documents \o rd)
    <3>1. (\E j \in DOMAIN documents : (documents \o rd)[i] = documents[j])
          \/ (\E j \in DOMAIN rd : (documents \o rd)[i] = rd[j])
      BY <2>3, JoinedOf
    <3> QED  BY <2>3, <2>4, <3>1
  <2> QED  BY <2>1, <2>2, <2>6, <2>7 DEF rd
<1>3. CASE Discover
  <2>1. stage = "exa" /\ stage' \in {"model", "done"}
    BY <1>3, AfterType DEF Discover
  <2>2. CASE documents' = documents
    BY <2>1, <2>2
  <2>3. CASE documents' = documents \o SourceDocuments(sources)
    <3> DEFINE sd == SourceDocuments(sources)
    <3>1. Listed(sd) /\ Distinct(sd) /\ \A i \in DOMAIN sd : FromSearch(sd[i])
      BY SourceDocumentsForm DEF Sources
    <3> HIDE DEF sd
    <3>2. \A i \in DOMAIN documents, j \in DOMAIN sd : documents[i].id # sd[j].id
      BY <2>1, <3>1, IDsApart DEF FromPage, FromReview, FromSearch
    <3>3. Listed(documents \o sd) /\ Distinct(documents \o sd)
      BY <3>1, <3>2, DistinctJoined, JoinedForm
    <3>4. Known(documents) /\ Known(sd)
      BY <3>1 DEF Known
    <3>5. Known(documents \o sd)
      BY <3>1, <3>4, KnownJoined
    <3> QED  BY <2>1, <2>3, <3>3, <3>5 DEF sd, Known
  <2> QED  BY <1>3, <2>2, <2>3 DEF Discover
<1>4. ASSUME documents' = documents, stage' = stage \/ stage' \notin {"google", "exa"} PROVE Documents'
  BY <1>4
<1>5. CASE FetchFails
  BY <1>4, <1>5 DEF FetchFails
<1>6. CASE ResolveFails
  <2>1. stage = "google" /\ documents' = documents /\ stage' # "google"
    BY <1>6, AfterType DEF ResolveFails
  <2> QED  BY <2>1
<1>7. CASE Search \/ SearchFails
  BY <1>4, <1>7 DEF Search, SearchFails, SearchLane
<1>8. CASE Extract
  BY <1>4, <1>8, AfterType DEF Extract
<1>9. CASE ExtractFails
  BY <1>4, <1>9, AfterType DEF ExtractFails
<1>10. CASE UNCHANGED vars
  BY <1>4, <1>10 DEF vars
<1> QED  BY <1>1, <1>2, <1>3, <1>5, <1>6, <1>7, <1>8, <1>9, <1>10 DEF Next

-----------------------------------------------------------------------------
(***************************************************************************)
(* The evidence.                                                           *)
(***************************************************************************)
\* How the evidence grows, and by what.
Grown(methods) ==
    /\ fields \subseteq fields'
    /\ \A f \in fields' : f \in fields \/ f.method \in methods

LEMMA ResolvePlaceForm ==
    ASSUME Documents, Fields, ResolvePlace
    PROVE  /\ Grown({"google", "rules"}) /\ Sourced(fields', documents')
           /\ \E f \in fields' : f.method = "google"
<1>1. PICK place \in Places :
        /\ fields' = WithSignals(WithPlace(fields, place), ReviewDocuments(place))
        /\ documents' = documents \o ReviewDocuments(place)
  BY DEF ResolvePlace
<1>2. Listed(documents) /\ Sourced(fields, documents) /\ \A f \in fields : f.key # MapsKey
  BY DEF Documents, Fields, ResolvePlace
<1> QED  BY <1>1, <1>2, PlaceSourced DEF Grown

LEMMA DiscoverForm ==
    ASSUME Documents, Fields, Sources, Discover
    PROVE  Grown({"search"}) /\ Sourced(fields', documents')
<1>1. CASE UNCHANGED <<fields, documents>>
  BY <1>1 DEF Grown, Fields
<1>2. CASE fields' = MergedSources(fields, sources) /\ documents' = documents \o SourceDocuments(sources)
  BY <1>2, SearchSourced DEF Grown, Fields, Documents, Sources
<1> QED  BY <1>1, <1>2 DEF Discover

LEMMA ExtractForm ==
    ASSUME Documents, Fields, Extract
    PROVE  Grown({"model"}) /\ Sourced(fields', documents')
<1>1. PICK answer \in Answers(Claims) : fields' = Merged(answer)
  BY DEF Extract
<1>2. PICK n \in 0..MaxAnswer : answer \in [1..n -> Claims]
  BY DEF Answers
<1>3. n \in Nat
  BY <1>2, CrawlAssumption
<1>4. fields \subseteq fields'
  BY <1>1, AddingForm DEF Merged
<1>5. \A f \in fields' : f \notin fields => Sure(f) /\ f.method = "model" /\ \E i \in DOMAIN documents : Cites(f, documents[i])
  BY <1>1, <1>2, <1>3, MergedForm
<1>6. documents' = documents
  BY DEF Extract
<1>7. Sourced(fields', documents)
  BY <1>5 DEF Sourced, Fields
<1> QED  BY <1>4, <1>5, <1>6, <1>7 DEF Grown

LEMMA FieldsInductive ==
    ASSUME Staged, Documents, Sources, Fields, [Next]_vars
    PROVE  Fields'
<1>1. CASE FetchPage
  <2>1. PICK page \in Pages : fields' = PageFields(page) /\ documents' = <<PageDocument(page)>>
    BY <1>1 DEF FetchPage
  <2>2. Sourced(fields', documents')
    BY <2>1, PageSourced
  <2>3. \A f \in fields' : f.key # MapsKey
    BY <2>1, PageForm
  <2> QED  BY <2>2, <2>3 DEF Fields
<1>2. CASE ResolvePlace
  <2>1. stage' # "google" /\ Sourced(fields', documents')
    BY <1>2, AfterType, ResolvePlaceForm DEF ResolvePlace
  <2> QED  BY <2>1 DEF Fields
<1>3. CASE Discover
  <2>1. stage' # "google" /\ Sourced(fields', documents')
    BY <1>3, AfterType, DiscoverForm DEF Discover
  <2> QED  BY <2>1 DEF Fields
<1>4. CASE Extract
  <2>1. stage' # "google" /\ Sourced(fields', documents')
    BY <1>4, AfterType, ExtractForm DEF Extract
  <2> QED  BY <2>1 DEF Fields
<1>5. ASSUME UNCHANGED <<fields, documents>>, stage' = "google" => stage = "google" PROVE Fields'
  BY <1>5 DEF Fields
<1>6. CASE FetchFails
  BY <1>5, <1>6 DEF FetchFails
<1>7. CASE ResolveFails
  BY <1>5, <1>7 DEF ResolveFails
<1>8. CASE Search \/ SearchFails
  BY <1>5, <1>8 DEF Search, SearchFails, SearchLane
<1>9. CASE ExtractFails
  BY <1>5, <1>9, AfterType DEF ExtractFails
<1>10. CASE UNCHANGED vars
  BY <1>5, <1>10 DEF vars
<1> QED  BY <1>1, <1>2, <1>3, <1>4, <1>6, <1>7, <1>8, <1>9, <1>10 DEF Next

-----------------------------------------------------------------------------
(***************************************************************************)
(* The sources.                                                            *)
(***************************************************************************)
LEMMA LaneSearched ==
    ASSUME Sources, NEW found, NEW failed, SearchLane(found, failed), Listed(found), Len(found) <= Room,
           \A i \in DOMAIN found : /\ found[i].kind \in LaneKinds
                                   /\ \A j \in DOMAIN sources : sources[j].url # found[i].url,
           \A i, j \in DOMAIN found : found[i].url = found[j].url => i = j
    PROVE  Sources'
<1> DEFINE all == sources \o found
           m == Len(sources)
           n == Len(found)
<1>0. Listed(sources)
  BY DEF Sources
<1>1. sources' = all /\ lane' = lane + 1 /\ stage = "exa" /\ stage' = stage /\ lane <= Len(Lanes)
  BY DEF SearchLane
<1>2. Listed(all) /\ Len(all) = m + n
  BY <1>0, JoinedForm
<1>3. m \in Nat /\ n \in Nat
  BY <1>0 DEF Listed
<1>4. Len(all) <= MaxResults
  BY <1>2, <1>3, CrawlAssumption DEF Room
<1>5. lane' \in 1..(Len(Lanes) + 1)
  BY <1>1, LanesForm DEF Sources
<1>6. \A i \in DOMAIN all : all[i].kind \in LaneKinds
  <2> TAKE i \in DOMAIN all
  <2>1. (\E j \in DOMAIN sources : all[i] = sources[j]) \/ (\E j \in DOMAIN found : all[i] = found[j])
    BY <1>0, JoinedOf
  <2> QED  BY <2>1 DEF Sources
<1>7. \A i, j \in DOMAIN all : all[i].url = all[j].url => i = j
  BY <1>0, UrlsJoined DEF Sources, SourcesDistinct
<1> HIDE DEF all
<1>8. Lanes' = Lanes
  BY DEF Lanes
<1> QED  BY <1>1, <1>2, <1>4, <1>5, <1>6, <1>7 DEF Sources, SourcesDistinct

LEMMA SourcesInductive ==
    ASSUME Staged, Sources, [Next]_vars
    PROVE  Sources'
<1>0. Lanes' = Lanes
  BY DEF Lanes
<1>1. ASSUME UNCHANGED <<lane, sources, laneFailed>>, stage' \in {"fetch", "google"} => stage \in {"fetch", "google"}
      PROVE  Sources'
  BY <1>0, <1>1 DEF Sources, SourcesDistinct
<1>2. CASE Search
  <2>1. PICK items \in Answers(Items) : SearchLane(Found(items), FALSE)
    BY <1>2 DEF Search
  <2>2. PICK n \in 0..MaxAnswer : items \in [1..n -> Items]
    BY DEF Answers
  <2>3. n \in Nat
    BY <2>2, CrawlAssumption
  <2>4. Room > 0 /\ lane \in 1..Len(Lanes) /\ Listed(sources) /\ Len(sources) <= MaxResults
    BY <2>1, LanesForm DEF SearchLane, Sources
  <2>5. /\ Listed(Found(items)) /\ Len(Found(items)) <= Room
        /\ \A i \in DOMAIN Found(items) : /\ Found(items)[i].kind \in LaneKinds
                                          /\ \A j \in DOMAIN sources : sources[j].url # Found(items)[i].url
        /\ \A i, j \in DOMAIN Found(items) : Found(items)[i].url = Found(items)[j].url => i = j
    BY <2>2, <2>3, <2>4, FoundForm
  <2> QED  BY <2>1, <2>5, LaneSearched
<1>3. CASE SearchFails
  <2> DEFINE none == [i \in 1..0 |-> 0]
  <2>1. none = <<>> /\ none = [i \in 1..0 |-> none[i]]
    OBVIOUS
  <2>2. Listed(<<>>) /\ Len(<<>>) = 0 /\ DOMAIN <<>> = {}
    BY DEF Listed
  <2>3. Room > 0 /\ SearchLane(<<>>, TRUE)
    BY <1>3 DEF SearchFails, SearchLane
  <2>4. Len(<<>>) <= Room
    BY <2>2, <2>3, CrawlAssumption DEF Room, Sources, Listed
  <2> QED  BY <2>2, <2>3, <2>4, LaneSearched
<1>4. CASE FetchPage
  BY <1>1, <1>4 DEF FetchPage
<1>5. CASE FetchFails
  BY <1>1, <1>5 DEF FetchFails
<1>6. CASE ResolvePlace
  BY <1>1, <1>6 DEF ResolvePlace
<1>7. CASE ResolveFails
  BY <1>1, <1>7 DEF ResolveFails
<1>8. CASE Discover
  BY <1>1, <1>8, AfterType DEF Discover
<1>9. CASE Extract
  BY <1>1, <1>9, AfterType DEF Extract
<1>10. CASE ExtractFails
  BY <1>1, <1>10, AfterType DEF ExtractFails
<1>11. CASE UNCHANGED vars
  BY <1>1, <1>11 DEF vars
<1> QED  BY <1>2, <1>3, <1>4, <1>5, <1>6, <1>7, <1>8, <1>9, <1>10, <1>11 DEF Next

-----------------------------------------------------------------------------
(***************************************************************************)
(* The warnings.                                                           *)
(***************************************************************************)
LEMMA ExplainedInductive ==
    ASSUME Staged, Documents, Sources, Fields, Explained, [Next]_vars
    PROVE  Explained'
<1> DEFINE Google == \E f \in fields : f.method = "google"
           Model == \E f \in fields : f.method = "model"
<1>1. CASE FetchPage
  <2>1. stage' = After("fetch") /\ sources' = <<>> /\ laneFailed' = FALSE
    BY <1>1 DEF FetchPage, Sources, Staged
  <2> QED  BY <2>1, AfterType DEF Explained
<1>2. CASE ResolvePlace
  <2>1. \E f \in fields' : f.method = "google"
    BY <1>2, ResolvePlaceForm
  <2>2. stage' = After("google") /\ sources' = <<>> /\ laneFailed' = FALSE
    BY <1>2 DEF ResolvePlace, Sources, Staged
  <2> QED  BY <2>1, <2>2, AfterType DEF Explained
<1>3. CASE ResolveFails
  <2>1. stage' = After("google") /\ sources' = <<>> /\ laneFailed' = FALSE /\ "google" \in warnings'
    BY <1>3 DEF ResolveFails, Sources, Staged
  <2> QED  BY <2>1, AfterType DEF Explained
<1>4. CASE Discover
  <2>1. stage = "exa" /\ stage' = After("exa") /\ UNCHANGED <<sources, laneFailed>> /\ warnings \subseteq warnings'
        /\ (sources = <<>> /\ laneFailed => "exa" \in warnings')
    BY <1>4 DEF Discover
  <2>2. fields \subseteq fields'
    BY <1>4, DiscoverForm DEF Grown
  <2> QED  BY <2>1, <2>2, AfterType DEF Explained
<1>5. CASE Extract
  <2>1. stage = "model" /\ stage' = "done" /\ UNCHANGED <<sources, laneFailed>> /\ warnings \subseteq warnings'
        /\ (fields' = fields => "model" \in warnings')
    BY <1>5, AfterType DEF Extract
  <2>2. fields \subseteq fields' /\ \A f \in fields' : f \in fields \/ f.method \in {"model"}
    BY <1>5, ExtractForm DEF Grown
  <2>3. fields' # fields => \E f \in fields' : f.method = "model"
    BY <2>2
  <2> QED  BY <2>1, <2>2, <2>3 DEF Explained
<1>6. CASE ExtractFails
  BY <1>6, AfterType DEF ExtractFails, Explained
<1>7. CASE FetchFails
  BY <1>7 DEF FetchFails, Explained
<1>8. CASE Search \/ SearchFails
  BY <1>8 DEF Search, SearchFails, SearchLane, Explained
<1>9. CASE UNCHANGED vars
  BY <1>9 DEF vars, Explained
<1> QED  BY <1>1, <1>2, <1>3, <1>4, <1>5, <1>6, <1>7, <1>8, <1>9 DEF Next

-----------------------------------------------------------------------------
(***************************************************************************)
(* The name.                                                               *)
(***************************************************************************)
\* Names are all of the one submitted page, so they do not conflict.
LEMMA NamesComeFromThePage ==
    ASSUME NEW fs, NEW docs, Sourced(fs, docs), Known(docs), Distinct(docs)
    PROVE  /\ \A f \in fs : f.key = "Identity" => f.id = PageID
           /\ ~Conflicting(fs, "Identity")
<1>1. ASSUME NEW f \in fs, f.key = "Identity"
      PROVE  f.id = PageID /\ \E i \in DOMAIN docs : docs[i].id = PageID /\ docs[i].url = f.source
  <2>1. ~FromPlace(f)
    BY <1>1, KeysApart DEF FromPlace
  <2>2. PICK i \in DOMAIN docs : Cites(f, docs[i])
    BY <2>1 DEF Sourced
  <2>3. docs[i].kind = "submitted_html"
    BY <1>1, <2>2, KeysApart DEF Cites, Supports
  <2>4. FromPage(docs[i])
    BY <2>3 DEF Known, FromReview, FromSearch
  <2> QED  BY <2>2, <2>4 DEF FromPage, Cites
<1>2. ASSUME NEW f \in OfKey(fs, "Identity"), NEW g \in OfKey(fs, "Identity") PROVE f.source = g.source
  <2>1. f \in fs /\ g \in fs /\ f.key = "Identity" /\ g.key = "Identity"
    BY DEF OfKey
  <2>2. PICK i \in DOMAIN docs : docs[i].id = PageID /\ docs[i].url = f.source
    BY <1>1, <2>1
  <2>3. PICK j \in DOMAIN docs : docs[j].id = PageID /\ docs[j].url = g.source
    BY <1>1, <2>1
  <2> QED  BY <2>2, <2>3 DEF Distinct
<1>3. ~Contradicted(fs, "Identity")
  BY <1>2 DEF Contradicted
<1> QED  BY <1>1, <1>3, Zenon DEF Conflicting

LEMMA BestSame ==
    ASSUME NEW fs, NEW gs, NEW k, OfKey(fs, k) = OfKey(gs, k)
    PROVE  Best(fs, k) = Best(gs, k)
<1>1. Contradicted(fs, k) <=> Contradicted(gs, k)
  BY DEF Contradicted
<1>2. GoogleWins(fs, k) <=> GoogleWins(gs, k)
  BY DEF GoogleWins
<1>3. Conflicting(fs, k) <=> Conflicting(gs, k)
  BY <1>1, <1>2 DEF Conflicting
<1> QED  BY <1>3 DEF Best

LEMMA NamesStay ==
    ASSUME Sourced(fields', documents'), NEW methods, methods \subseteq {"google", "rules", "search"}, Grown(methods)
    PROVE  OfKey(fields', "Identity") = OfKey(fields, "Identity")
<1>1. \A f \in fields' : f \notin fields => f.key # "Identity"
  BY OnlyPageAndModelName DEF Grown
<1> QED  BY <1>1 DEF Grown, OfKey

LEMMA NamedInductive ==
    ASSUME Staged, Documents, Documents', Sources, Fields, Fields', Named, [Next]_vars
    PROVE  Named'
<1>0. Sourced(fields', documents') /\ Known(documents') /\ Distinct(documents')
  BY DEF Documents, Fields, Known
<1>00. ~Conflicting(fields', "Identity") /\ \A f \in fields' : Sure(f)
  BY <1>0, NamesComeFromThePage DEF Sourced
<1>1. CASE FetchPage
  <2>1. PICK page \in Pages :
          /\ fields' = PageFields(page)
          /\ unnamed' = (Identity(page).value = Blank)
          /\ name' = IF unnamed' THEN Host ELSE Identity(page).value
    BY <1>1 DEF FetchPage
  <2>2. \A f \in fields' : f.key = "Identity" => f.value = Identity(page).value /\ f.value # Blank
    BY <2>1, PageForm
  <2>3. CASE unnamed'
    <3>1. OfKey(fields', "Identity") = {}
      BY <2>1, <2>2, <2>3 DEF OfKey
    <3> QED  BY <2>1, <2>3, <3>1 DEF Named
  <2>4. CASE ~unnamed'
    <3>1. PICK f \in fields' : f.key = "Identity"
      BY <2>1, <2>4, PageForm
    <3>2. f \in OfKey(fields', "Identity")
      BY <1>00, <3>1 DEF OfKey, Sure
    <3>3. PICK g \in Best(fields', "Identity") : TRUE
      BY <1>00, <3>2, BestExists
    <3>4. g \in fields' /\ g.key = "Identity"
      BY BestForm DEF OfKey
    <3>5. g.value = name'
      BY <2>1, <2>2, <2>4, <3>4
    <3> QED  BY <2>4, <3>5 DEF Named
  <2> QED  BY <2>3, <2>4
<1>2. ASSUME OfKey(fields', "Identity") = OfKey(fields, "Identity"), UNCHANGED <<name, unnamed>>,
             stage' \notin {"fetch", "failed"} => stage \notin {"fetch", "failed"}
      PROVE  Named'
  <2>1. Best(fields', "Identity") = Best(fields, "Identity")
    BY <1>2, BestSame
  <2> QED  BY <1>2, <2>1 DEF Named
<1>3. CASE ResolvePlace
  <2>1. OfKey(fields', "Identity") = OfKey(fields, "Identity")
    BY <1>3, ResolvePlaceForm, NamesStay
  <2> QED  BY <1>2, <1>3, <2>1 DEF ResolvePlace
<1>4. CASE Discover
  <2>1. OfKey(fields', "Identity") = OfKey(fields, "Identity")
    BY <1>4, DiscoverForm, NamesStay
  <2> QED  BY <1>2, <1>4, <2>1 DEF Discover
<1>5. CASE Extract
  <2>1. stage = "model" /\ stage' = "done"
    BY <1>5, AfterType DEF Extract
  <2>2. fields \subseteq fields'
    BY <1>5, ExtractForm DEF Grown
  <2>3. CASE Best(fields', "Identity") = {} /\ UNCHANGED <<name, unnamed>>
    <3>1. OfKey(fields', "Identity") = {}
      BY <1>00, <2>3, BestExists
    <3>2. OfKey(fields, "Identity") = {}
      BY <2>2, <3>1 DEF OfKey
    <3>3. unnamed
      BY <2>1, <3>2, BestForm DEF Named
    <3> QED  BY <2>3, <3>1, <3>3 DEF Named
  <2>4. CASE (\E f \in Best(fields', "Identity") : name' = f.value) /\ unnamed' = FALSE
    BY <2>4 DEF Named
  <2> QED  BY <1>5, <2>3, <2>4 DEF Extract
<1>6. CASE FetchFails
  BY <1>6 DEF FetchFails, Named
<1>7. CASE ResolveFails
  BY <1>2, <1>7 DEF ResolveFails
<1>8. CASE Search \/ SearchFails
  BY <1>2, <1>8 DEF Search, SearchFails, SearchLane
<1>9. CASE ExtractFails
  BY <1>2, <1>9 DEF ExtractFails
<1>10. CASE UNCHANGED vars
  BY <1>2, <1>10 DEF vars
<1> QED  BY <1>1, <1>3, <1>4, <1>5, <1>6, <1>7, <1>8, <1>9, <1>10 DEF Next

-----------------------------------------------------------------------------
(***************************************************************************)
(* The results.                                                            *)
(***************************************************************************)
LEMMA InitIInv == ASSUME Init PROVE IInv
<1> DEFINE none == [i \in 1..0 |-> 0]
<1>1. Listed(<<>>) /\ Len(<<>>) = 0 /\ DOMAIN <<>> = {}
  <2>1. none = <<>> /\ none = [i \in 1..0 |-> none[i]]
    OBVIOUS
  <2> QED  BY DEF Listed
<1>2. Staged
  BY DEF Init, Staged
<1>3. Documents
  BY <1>1 DEF Init, Documents, Distinct
<1>4. Fields
  BY DEF Init, Fields, Sourced
<1>5. Sources
  BY <1>1, LanesForm, CrawlAssumption DEF Init, Sources, SourcesDistinct
<1>6. Named
  BY DEF Init, Named
<1>7. Explained
  BY DEF Init, Explained
<1> QED  BY <1>2, <1>3, <1>4, <1>5, <1>6, <1>7 DEF IInv

\* Whatever pages, places, results and claims there are, and whichever providers fail, a
\* crawl keeps its invariant.
THEOREM Inductive == Spec => []IInv
<1>1. Init => IInv
  BY InitIInv
<1>2. IInv /\ [Next]_vars => IInv'
  <2> SUFFICES ASSUME IInv, [Next]_vars PROVE IInv'
    OBVIOUS
  <2>1. Staged' /\ Documents' /\ Sources' /\ Fields' /\ Explained'
    BY StagedInductive, DocumentsInductive, SourcesInductive, FieldsInductive, ExplainedInductive DEF IInv
  <2>2. Named'
    BY <2>1, NamedInductive DEF IInv
  <2> QED  BY <2>1, <2>2 DEF IInv
<1> QED  BY <1>1, <1>2, PTL DEF Spec

\* A crawl is well typed: in particular no evidence is surer than 100, whatever a model
\* claims, and no more results are kept than EXA_MAX_RESULTS.
THEOREM TypeCorrect == Spec => []TypeOK
<1>1. IInv => TypeOK
  BY DEF IInv, Staged, Fields, Sources, Sourced, Sure, TypeOK
<1> QED  BY <1>1, Inductive, PTL

\* Every piece of evidence cites the one document it was made of, and a model's an excerpt
\* that is in it.
THEOREM EvidenceIsCited == Spec => []CitationsHold
<1>1. ASSUME IInv PROVE CitationsHold
  <2>1. \A i, j \in DOMAIN documents : documents[i].id = documents[j].id => i = j
    BY <1>1 DEF IInv, Documents, Distinct
  <2>2. ASSUME NEW f \in fields, f.id # PlaceID
        PROVE  \E i \in DOMAIN documents :
                  /\ documents[i].id = f.id /\ documents[i].url = f.source
                  /\ f.method = "model" => f.excerpt # {} /\ f.excerpt \subseteq documents[i].says
    <3>1. PICK i \in DOMAIN documents : Cites(f, documents[i])
      BY <1>1, <2>2 DEF IInv, Fields, Sourced, FromPlace
    <3>2. f.method = "model" => f.excerpt # {} /\ f.excerpt \subseteq documents[i].says
      BY <3>1 DEF Cites, Supports
    <3> QED  BY <3>1, <3>2 DEF Cites
  <2> QED  BY <2>1, <2>2 DEF CitationsHold, PlaceID
<1> QED  BY <1>1, Inductive, PTL

\* Nothing but the submitted page names the cafe, and the record has the surest of its
\* names or says that it has none.
THEOREM NamesComeFromPages == Spec => []OnlyThePageNames
<1>1. ASSUME IInv PROVE OnlyThePageNames
  <2>1. Sourced(fields, documents) /\ Known(documents) /\ Distinct(documents)
    BY <1>1 DEF IInv, Fields, Documents, Known
  <2>2. (\A f \in fields : f.key = "Identity" => f.id = PageID) /\ ~Conflicting(fields, "Identity")
    BY <2>1, NamesComeFromThePage
  <2> QED  BY <1>1, <2>2 DEF IInv, Named, OnlyThePageNames
<1> QED  BY <1>1, Inductive, PTL

\* No two sources of a crawl have one URL, however often the searches bring it.
THEOREM APageIsOneSource == Spec => []SourcesDistinct
<1>1. IInv => SourcesDistinct
  BY DEF IInv, Sources
<1> QED  BY <1>1, Inductive, PTL

\* What a model read in web and TikTok results never makes a conflict with Google's hours
\* and prices.
THEOREM GoogleOverrulesListings == Spec => []IndexedListingsYield
<1>1. ASSUME IInv, NEW k \in Operational,
             \E f \in OfKey(fields, k) : f.method = "google",
             \A f \in OfKey(fields, k) : f.method # "google" =>
               \E i \in DOMAIN documents : documents[i].id = f.id /\ documents[i].kind \in {"web", "tiktok"}
      PROVE  GoogleWins(fields, k)
  <2>1. Sourced(fields, documents) /\ Known(documents) /\ Distinct(documents)
    BY <1>1 DEF IInv, Fields, Documents, Known
  <2>2. k # "Identity" /\ k # ReviewKey /\ k # AlwaysOpenKey /\ GoogleConfidence(k) \in 85..100
    BY KeysApart, GoogleIsSure
  <2>3. ASSUME NEW f \in OfKey(fields, k), f.method = "google" PROVE f.confidence = GoogleConfidence(k)
    <3>1. f \in fields /\ f.key = k
      BY DEF OfKey
    <3>2. FromPlace(f)
      BY <2>1, <2>2, <2>3, <3>1 DEF Sourced, Cites, Supports
    <3> QED  BY <3>1, <3>2 DEF FromPlace
  <2>4. ASSUME NEW f \in OfKey(fields, k), f.method # "google"
        PROVE  f.method = "model" /\ f.confidence \in 0..72
    <3>1. f \in fields /\ f.key = k
      BY DEF OfKey
    <3>2. PICK i \in DOMAIN documents : documents[i].id = f.id /\ documents[i].kind \in {"web", "tiktok"}
      BY <1>1, <2>4
    <3>3. ~FromPlace(f)
      BY <2>2, <2>4, <3>1 DEF FromPlace
    <3>4. PICK j \in DOMAIN documents : Cites(f, documents[j])
      BY <2>1, <3>1, <3>3 DEF Sourced
    <3>5. i = j
      BY <2>1, <3>2, <3>4 DEF Cites, Distinct
    <3>6. f.method = "model" /\ f.confidence <= Cap(documents[i].kind)
      BY <2>2, <2>4, <3>1, <3>2, <3>4, <3>5 DEF Cites, Supports
    <3>7. Cap(documents[i].kind) \in 0..72
      BY <3>2 DEF Cap
    <3>8. f.confidence \in 0..100
      BY <2>1, <3>1 DEF Sourced, Sure
    <3> QED  BY <3>6, <3>7, <3>8
  <2>5. PICK g \in OfKey(fields, k) : g.method = "google"
    BY <1>1
  <2> QED  BY <2>2, <2>3, <2>4, <2>5 DEF GoogleWins
<1>2. ASSUME IInv PROVE IndexedListingsYield
  BY <1>1, <1>2, Zenon DEF IndexedListingsYield, Conflicting
<1> QED  BY <1>2, Inductive, PTL

\* A crawl with no fact of Google's, no source although a search failed, or no claim of the
\* model's, where the provider is configured, ends with that provider's warning.
THEOREM GapsAreReported == Spec => []GapsAreExplained
<1>1. IInv => GapsAreExplained
  BY DEF IInv, Explained, GapsAreExplained
<1> QED  BY <1>1, Inductive, PTL
=============================================================================
