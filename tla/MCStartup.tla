------------------------------ MODULE MCStartup ------------------------------
(***************************************************************************)
(* The startup of the two components of the program, for model checking.   *)
(***************************************************************************)
EXTENDS Startup
=============================================================================
