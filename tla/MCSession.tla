------------------------------ MODULE MCSession ------------------------------
(* Two callers, so that one's late response meets the other's request; queues *)
(* of one message, so that each of them fills and blocks its writer; and two  *)
(* changes, of which the session can refuse one while the other fills the     *)
(* daemon's queue: then Serve is held up for good.                            *)
EXTENDS Session
=============================================================================
