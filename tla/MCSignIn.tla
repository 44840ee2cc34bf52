------------------------------ MODULE MCSignIn ------------------------------
(***************************************************************************)
(* Instances of SignIn; handlers are interchangeable.                      *)
(***************************************************************************)
EXTENDS SignIn, TLC

Symmetry == Permutations(Handlers)
=============================================================================
