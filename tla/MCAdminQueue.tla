---------------------------- MODULE MCAdminQueue ----------------------------
(* One page, two runs, two calls at once; values are in the .cfg files. *)
EXTENDS AdminQueue
=============================================================================
