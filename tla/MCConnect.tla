------------------------------ MODULE MCConnect ------------------------------
(***************************************************************************)
(* Both ends of RemoteFS.Connect, for model checking: the loop of a daemon *)
(* and the registry of the server.  The two modules share no variable, so  *)
(* every behaviour of the one is checked beside one initial state of the   *)
(* other; more states of the other would show nothing new.                 *)
(*                                                                         *)
(* The registry has three connections of one user, so that a session is    *)
(* displaced before its own handler has closed the one before it, and one  *)
(* connection of another user.  The daemon's queues hold one message, so   *)
(* that each of them fills while its reader is blocked.                    *)
(***************************************************************************)
EXTENDS Manager, Daemon

CONSTANTS u1, u2, c1, c2, c3, c4

MCUserOf == [c \in Conns |-> IF c = c4 THEN u2 ELSE u1]

ConnectInit == Init /\ DaemonInit

\* The other end has not started, with one of its configurations.
DaemonRests == DaemonInit /\ ~failFast
RegistryRests == Init /\ ttl = 0

ConnectNext ==
  \/ DaemonRests /\ Next /\ UNCHANGED daemonVars
  \/ RegistryRests /\ DaemonNext /\ UNCHANGED vars

ConnectSpec ==
  ConnectInit /\ [][ConnectNext]_<<vars, daemonVars>> /\ DaemonFairness
=============================================================================
