------------------------------ MODULE MCSession ------------------------------
(***************************************************************************)
(* Model-checking instance of a session: the bounds are in the .cfg files. *)
(***************************************************************************)
EXTENDS Session
=============================================================================
