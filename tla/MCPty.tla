-------------------------------- MODULE MCPty --------------------------------
(***************************************************************************)
(* Terminal sessions of one user, for model checking.                      *)
(***************************************************************************)
EXTENDS Pty
=============================================================================
