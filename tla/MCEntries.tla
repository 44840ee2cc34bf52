------------------------------ MODULE MCEntries ------------------------------
(***************************************************************************)
(* An instance of Entries: the bounds are in the configuration.            *)
(***************************************************************************)
EXTENDS Entries, TLC

OnlyResolver == {"resolver"}

\* Requests are interchangeable.
Symmetry == Permutations(Admins)

\* The operations that make and remove records and entries.
Moving == {"create", "publish", "delete"}
=============================================================================
