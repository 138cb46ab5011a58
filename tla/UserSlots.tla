------------------------------ MODULE UserSlots ------------------------------
(***************************************************************************)
(* What the session registry promises each user of the server: one slot    *)
(* per user, holding the workspace of the latest connection.  A slot is    *)
(* "live" while its connection serves requests, "closing" between the end  *)
(* of the stream and the registry's reaction to it, "readonly" while it is *)
(* kept as an offline snapshot, and "absent" otherwise.  A connection has  *)
(* its turn once: when a newer one has taken the slot, or the snapshot has *)
(* expired, it never comes back.                                           *)
(***************************************************************************)
CONSTANTS
  Users,     \* user ids
  Conns,     \* connections a daemon ever makes
  UserOf,    \* the user a connection is authenticated as
  None       \* no connection

VARIABLES
  slot,      \* slot[u]: its mode and its connection
  used       \* the connections that have had their turn

slotVars == <<slot, used>>

Absent == [mode |-> "absent", conn |-> None]
Slot == [mode : {"live", "closing", "readonly"}, conn : Conns] \cup {Absent}

SlotsInit ==
  /\ slot = [u \in Users |-> Absent]
  /\ used = {}

Connect(c) ==
  /\ c \notin used
  /\ used' = used \cup {c}
  /\ slot' = [slot EXCEPT ![UserOf[c]] = [mode |-> "live", conn |-> c]]

Become(u, from, to) ==
  /\ slot[u].mode = from
  /\ slot' = [slot EXCEPT ![u] = [mode |-> to, conn |-> slot[u].conn]]
  /\ UNCHANGED used

\* The stream of the slot's connection ends.
Lose(u) == Become(u, "live", "closing")

\* The lost connection's tree and cache are kept, read-only.
Retain(u) == Become(u, "closing", "readonly")

\* The lost connection is dropped at once: retention is switched off.
Drop(u) ==
  /\ slot[u].mode = "closing"
  /\ slot' = [slot EXCEPT ![u] = Absent]
  /\ UNCHANGED used

\* Snapshots whose time is over disappear, and nothing else does.
Expire(expired) ==
  /\ \A u \in expired : slot[u].mode = "readonly"
  /\ slot' = [u \in Users |-> IF u \in expired THEN Absent ELSE slot[u]]
  /\ UNCHANGED used

SlotsNext ==
  \/ \E c \in Conns : Connect(c)
  \/ \E u \in Users : Lose(u) \/ Retain(u) \/ Drop(u)
  \/ \E expired \in SUBSET Users : Expire(expired)

SlotsSpec == SlotsInit /\ [][SlotsNext]_slotVars
=============================================================================
