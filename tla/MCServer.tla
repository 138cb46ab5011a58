------------------------------ MODULE MCServer ------------------------------
(***************************************************************************)
(* A server with two terminals and a daemon, for model checking.           *)
(***************************************************************************)
EXTENDS Server

MCRate == [b \in Buckets |-> IF b = "attach" THEN 1 ELSE 2]
MCBurst == [b \in Buckets |-> IF b = "attach" THEN 1 ELSE 2]
=============================================================================
