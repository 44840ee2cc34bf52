--------------------------- MODULE MCVisitorPage ----------------------------
(* A query of each kind, one cafe, two photo URLs. *)
EXTENDS VisitorPage

VisitorQueries == {"ko", "kopi", "kopi near me", "kopi tebet"}
VisitorKinds == [q \in VisitorQueries |->
    CASE q = "ko" -> "short" [] q = "kopi" -> "plain" [] q = "kopi near me" -> "nearby" [] OTHER -> "named"]
=============================================================================
