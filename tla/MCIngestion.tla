---------------------------- MODULE MCIngestion ----------------------------
(***************************************************************************)
(* Instances of Ingestion.  Each instance lets administrators use the      *)
(* operations its question is about; the bounds are in the configurations. *)
(***************************************************************************)
EXTENDS Ingestion, TLC

AllProviders == {"resolver", "discoverer", "extractor"}
OnlyResolver == {"resolver"}

\* Requests and task slots are interchangeable.
Symmetry == Permutations(Admins) \cup Permutations(Tasks)

\* Everything an administrator can do to a single record.
OneRecord == AllOperations \ {"create"}

ForcedAndDelete == {"create_forced", "publish", "delete"}
Crawling == {"create", "refresh", "delete", "review"}
=============================================================================
