------------------------------- MODULE Manager -------------------------------
(***************************************************************************)
(* The session registry (pkg/session/manager.go) and the RemoteFS.Connect  *)
(* handlers that drive it (pkg/session/service.go).  A connection and the  *)
(* session its handler creates are one identity, a member of Conns.  The   *)
(* registry's methods run under Manager.mu and are atomic; a handler is    *)
(* not: between Register, closing the predecessor, Serve and               *)
(* HandleDisconnect every other handler, reader and the clock may move.    *)
(***************************************************************************)
EXTENDS Integers

CONSTANTS
  Users,     \* user ids
  Conns,     \* connections, one session each
  UserOf,    \* the user a connection's token belongs to
  None,      \* no session
  Readers,   \* goroutines that call Get (the FUSE operations)
  TTLs,      \* values of OfflineReadOnlyTTL, 0 = no retention
  MaxTime    \* bound on the clock

ASSUME ManagerAssumption ==
  /\ UserOf \in [Conns -> Users]
  /\ None \notin Conns
  /\ TTLs \subseteq Nat
  /\ MaxTime \in Nat

VARIABLES
  ttl,           \* OfflineReadOnlyTTL of this server
  now,           \* the clock
  sessions,      \* Manager.sessions, None for an absent key
  cpc,           \* where each connection's handler is in Connect
  prev,          \* what Register returned to the handler
  closeErr,      \* each session's close error, "nil" while it is open
  offlineUntil,  \* each session's offline deadline, 0 for the zero time
  got,           \* the session a reader's Get has looked up
  rpc            \* where each reader is in Get

connVars == <<cpc, prev, closeErr, offlineUntil>>
readVars == <<got, rpc>>
vars == <<ttl, now, sessions, connVars, readVars>>

\* Every variable has its type, and no queue or counter exceeds its bound.
TypeOK ==
  /\ ttl \in TTLs
  /\ now \in Nat
  /\ sessions \in [Users -> Conns \cup {None}]
  /\ cpc \in [Conns -> {"idle", "bootstrapped", "replacing", "serving",
                        "leaving", "gone", "refused"}]
  /\ prev \in [Conns -> Conns \cup {None}]
  /\ closeErr \in [Conns -> {"nil", "ended", "replaced", "offline"}]
  /\ offlineUntil \in [Conns -> Nat]
  /\ got \in [Readers -> Conns \cup {None}]
  /\ rpc \in [Readers -> {"idle", "fetched", "expired"}]

Init ==
  /\ ttl \in TTLs
  /\ now = 0
  /\ sessions = [u \in Users |-> None]
  /\ cpc = [c \in Conns |-> "idle"]
  /\ prev = [c \in Conns |-> None]
  /\ closeErr = [c \in Conns |-> "nil"]
  /\ offlineUntil = [c \in Conns |-> 0]
  /\ got = [r \in Readers |-> None]
  /\ rpc = [r \in Readers |-> "idle"]

-----------------------------------------------------------------------------
IsExpired(c) == offlineUntil[c] # 0 /\ now >= offlineUntil[c]

\* pruneExpiredLocked.
Pruned(map) ==
  [u \in Users |-> IF map[u] # None /\ IsExpired(map[u]) THEN None ELSE map[u]]

\* Connect receives the first message; Bootstrap accepts it, or the handler
\* returns InvalidArgument and registers nothing.
Bootstrap(c) ==
  /\ cpc[c] = "idle"
  /\ \E next \in {"bootstrapped", "refused"} : cpc' = [cpc EXCEPT ![c] = next]
  /\ UNCHANGED <<ttl, now, sessions, prev, closeErr, offlineUntil, readVars>>

\* Register that forgets to hand back the session it displaces.
MutRegisterNoPrev(c) ==
  /\ cpc[c] = "bootstrapped"
  /\ sessions' = [Pruned(sessions) EXCEPT ![UserOf[c]] = c]
  /\ cpc' = [cpc EXCEPT ![c] = "serving"]
  /\ UNCHANGED <<ttl, now, prev, closeErr, offlineUntil, readVars>>

\* Register: prunes, takes the user's key and returns the session it displaces.
Register(c) ==
  /\ cpc[c] = "bootstrapped"
  /\ LET kept == Pruned(sessions)
         old  == kept[UserOf[c]] IN
       /\ sessions' = [kept EXCEPT ![UserOf[c]] = c]
       /\ prev' = [prev EXCEPT ![c] = old]
       /\ cpc' = [cpc EXCEPT ![c] = IF old = None THEN "serving" ELSE "replacing"]
  /\ UNCHANGED <<ttl, now, closeErr, offlineUntil, readVars>>

\* closeWithError: only the first error counts.
CloseErrAfter(c, err) == IF closeErr[c] = "nil" THEN err ELSE closeErr[c]

\* The handler closes the displaced session, after Register has released mu.
ClosePrev(c) ==
  /\ cpc[c] = "replacing"
  /\ closeErr' = [closeErr EXCEPT ![prev[c]] = CloseErrAfter(prev[c], "replaced")]
  /\ cpc' = [cpc EXCEPT ![c] = "serving"]
  /\ UNCHANGED <<ttl, now, sessions, prev, offlineUntil, readVars>>

\* Serve returns when the stream ends, and has closed the session.
ServeEnds(c) ==
  /\ cpc[c] = "serving"
  /\ closeErr' = [closeErr EXCEPT ![c] = CloseErrAfter(c, "ended")]
  /\ cpc' = [cpc EXCEPT ![c] = "leaving"]
  /\ UNCHANGED <<ttl, now, sessions, prev, offlineUntil, readVars>>

\* time.Now().Add(offlineReadOnlyTTL).
Deadline == now + ttl

\* RetainOffline: refused for a session that was closed as replaced.
RetainOffline(c) ==
  LET retained == closeErr[c] # "replaced" IN
    /\ closeErr' = [closeErr EXCEPT ![c] = IF retained THEN "offline" ELSE @]
    /\ offlineUntil' = [offlineUntil EXCEPT ![c] = IF retained THEN Deadline ELSE @]

\* HandleDisconnect that neither drops nor retains when retention is off.
MutDisconnectKeeps(c) ==
  /\ cpc[c] = "leaving"
  /\ cpc' = [cpc EXCEPT ![c] = "gone"]
  /\ \/ /\ sessions[UserOf[c]] = c
        /\ ttl # 0
        /\ RetainOffline(c)
     \/ /\ sessions[UserOf[c]] # c \/ ttl = 0
        /\ UNCHANGED <<closeErr, offlineUntil>>
  /\ UNCHANGED <<ttl, now, sessions, prev, readVars>>

\* HandleDisconnect: nothing if a newer session holds the key.  serveErr is an
\* error of the stream and never ErrSessionReplaced, so only the TTL decides
\* between dropping the session and keeping it as a snapshot.
HandleDisconnect(c) ==
  /\ cpc[c] = "leaving"
  /\ cpc' = [cpc EXCEPT ![c] = "gone"]
  /\ \/ /\ sessions[UserOf[c]] # c
        /\ UNCHANGED <<sessions, closeErr, offlineUntil>>
     \/ /\ sessions[UserOf[c]] = c
        /\ ttl = 0
        /\ sessions' = [sessions EXCEPT ![UserOf[c]] = None]
        /\ UNCHANGED <<closeErr, offlineUntil>>
     \/ /\ sessions[UserOf[c]] = c
        /\ ttl # 0
        /\ RetainOffline(c)
        /\ sessions' = Pruned(sessions)
  /\ UNCHANGED <<ttl, now, prev, readVars>>

-----------------------------------------------------------------------------
(* Readers *)

\* Get looks the session up under the read lock ...
GetLookup(r, u) ==
  /\ rpc[r] = "idle"
  /\ sessions[u] # None
  /\ got' = [got EXCEPT ![r] = sessions[u]]
  /\ rpc' = [rpc EXCEPT ![r] = "fetched"]
  /\ UNCHANGED <<ttl, now, sessions, connVars>>

\* ... and tests it without the lock: it returns the session, or goes on to
\* removeExpired.
GetTest(r) ==
  /\ rpc[r] = "fetched"
  /\ rpc' = [rpc EXCEPT ![r] = IF IsExpired(got[r]) THEN "expired" ELSE "idle"]
  /\ got' = [got EXCEPT ![r] = IF IsExpired(got[r]) THEN @ ELSE None]
  /\ UNCHANGED <<ttl, now, sessions, connVars>>

\* removeExpired that deletes whatever the key holds by then.
MutRemoveAny(r) ==
  /\ rpc[r] = "expired"
  /\ sessions' = [sessions EXCEPT ![UserOf[got[r]]] = None]
  /\ rpc' = [rpc EXCEPT ![r] = "idle"]
  /\ got' = [got EXCEPT ![r] = None]
  /\ UNCHANGED <<ttl, now, connVars>>

\* removeExpired: looks again under the write lock.
RemoveExpired(r) ==
  /\ rpc[r] = "expired"
  /\ LET c == got[r]
         u == UserOf[c] IN
       sessions' = IF sessions[u] = c /\ IsExpired(c)
                     THEN [sessions EXCEPT ![u] = None]
                     ELSE sessions
  /\ rpc' = [rpc EXCEPT ![r] = "idle"]
  /\ got' = [got EXCEPT ![r] = None]
  /\ UNCHANGED <<ttl, now, connVars>>

\* UserIDs and LookupDaemon prune and then only read.
PruneExpired ==
  /\ sessions' = Pruned(sessions)
  /\ UNCHANGED <<ttl, now, connVars, readVars>>

Tick ==
  /\ now < MaxTime
  /\ now' = now + 1
  /\ UNCHANGED <<ttl, sessions, connVars, readVars>>

-----------------------------------------------------------------------------
ConnStep(c) ==
  \/ Bootstrap(c) \/ Register(c) \/ ClosePrev(c) \/ ServeEnds(c) \/ HandleDisconnect(c)

ReaderStep(r) ==
  (\E u \in Users : GetLookup(r, u)) \/ GetTest(r) \/ RemoveExpired(r)

Next ==
  \/ \E c \in Conns : ConnStep(c)
  \/ \E r \in Readers : ReaderStep(r)
  \/ PruneExpired
  \/ Tick

Spec == Init /\ [][Next]_vars

-----------------------------------------------------------------------------
(* Properties *)

Registered(c) == cpc[c] \in {"replacing", "serving", "leaving", "gone"}

\* However the handlers of one user interleave, a session that lost its key to
\* a newer one is closed, or the handler that displaced it is about to close it:
\* no open session serves requests unseen by the registry.
NoOrphanSession ==
  \A c \in Conns :
    Registered(c) /\ closeErr[c] = "nil" /\ sessions[UserOf[c]] # c
      => \E d \in Conns : cpc[d] = "replacing" /\ prev[d] = c

\* The registry holds no dead entry: a registered session is never one that was
\* closed as replaced, and once its handler is gone it is an offline snapshot
\* with a deadline, which pruning will remove.
NoDeadEntry ==
  \A c \in Conns :
    sessions[UserOf[c]] = c =>
      /\ closeErr[c] # "replaced"
      /\ cpc[c] = "gone" => closeErr[c] = "offline" /\ offlineUntil[c] # 0

\* The slot each user sees: the registered session, unless its time is over.
ModeOf(c) ==
  IF closeErr[c] = "nil" THEN "live"
  ELSE IF offlineUntil[c] # 0 THEN "readonly" ELSE "closing"

SlotOf(u) ==
  IF sessions[u] = None \/ IsExpired(sessions[u])
    THEN [mode |-> "absent", conn |-> None]
    ELSE [mode |-> ModeOf(sessions[u]), conn |-> sessions[u]]

Slots == INSTANCE UserSlots WITH
  slot <- [u \in Users |-> SlotOf(u)],
  used <- {c \in Conns : Registered(c)}

\* The registry with its lazy pruning and its unlocked reads implements the
\* slots: latest connection wins, snapshots end at their deadline and not
\* before, and no reader's clean-up removes a session that has come since.
ImplementsSlots == Slots!SlotsSpec
=============================================================================
