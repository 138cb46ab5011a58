------------------------------ MODULE MCDaemon ------------------------------
(* Queues of one message, so that each of them fills while its reader is     *)
(* blocked.                                                                  *)
EXTENDS Daemon
=============================================================================
