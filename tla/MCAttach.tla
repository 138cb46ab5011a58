------------------------------ MODULE MCAttach ------------------------------
(***************************************************************************)
(* One terminal session from its local end, for model checking.            *)
(***************************************************************************)
EXTENDS Attach
=============================================================================
