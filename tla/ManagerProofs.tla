---------------------------- MODULE ManagerProofs ----------------------------
(***************************************************************************)
(* Proofs about the two ends of a connection: the session registry, for    *)
(* any users, connections, readers and retention times, and the daemon's   *)
(* loop, for any capacity of its queues.                                   *)
(***************************************************************************)
EXTENDS Manager, Daemon, TLAPS

\* The map's keys are the users of the sessions it holds, which have been
\* registered.
KeysMatch ==
  \A u \in Users :
    sessions[u] # None => UserOf[sessions[u]] = u /\ Registered(sessions[u])

\* A session that a handler is about to close as replaced is not in the map.
DisplacedNotRegistered ==
  \A d \in Conns :
    cpc[d] = "replacing" =>
      /\ prev[d] \in Conns
      /\ Registered(prev[d])
      /\ sessions[UserOf[prev[d]]] # prev[d]

\* How far a handler has come bounds what its session has been through.
HandlerProgress ==
  \A c \in Conns :
    /\ ~Registered(c) => closeErr[c] = "nil" /\ offlineUntil[c] = 0
    /\ cpc[c] \in {"leaving", "gone"} => closeErr[c] # "nil"
    /\ offlineUntil[c] # 0 => closeErr[c] = "offline" /\ cpc[c] = "gone"

\* A reader past its lookup holds a session.
ReaderHolds == \A r \in Readers : rpc[r] # "idle" => got[r] \in Conns

\* The inductive invariant: the two safety invariants need the other four.
IInv ==
  /\ TypeOK
  /\ KeysMatch
  /\ DisplacedNotRegistered
  /\ HandlerProgress
  /\ ReaderHolds
  /\ NoDeadEntry
  /\ NoOrphanSession

\* The initial states satisfy the inductive invariant.
LEMMA InitIInv == Init => IInv
  BY ManagerAssumption
  DEF Init, IInv, TypeOK, KeysMatch, DisplacedNotRegistered, HandlerProgress,
      ReaderHolds, NoDeadEntry, NoOrphanSession, Registered

\* Pruning keeps the map's type and removes only sessions that are closed.
LEMMA PrunedFacts ==
  ASSUME IInv
  PROVE  /\ Pruned(sessions) \in [Users -> Conns \cup {None}]
         /\ \A u \in Users : Pruned(sessions)[u] \in {sessions[u], None}
         /\ \A u \in Users : Pruned(sessions)[u] # sessions[u] =>
              /\ sessions[u] \in Conns
              /\ IsExpired(sessions[u])
              /\ closeErr[sessions[u]] = "offline"
  BY ManagerAssumption DEF Pruned, IsExpired, IInv, TypeOK, HandlerProgress

\* Every step of the registry preserves the inductive invariant.
LEMMA NextIInv == IInv /\ [Next]_vars => IInv'
<1> SUFFICES ASSUME IInv, [Next]_vars PROVE IInv'
  OBVIOUS
<1> USE ManagerAssumption
    DEF IInv, TypeOK, KeysMatch, DisplacedNotRegistered, HandlerProgress,
        ReaderHolds, NoDeadEntry, NoOrphanSession, Registered
<1>1. ASSUME NEW c \in Conns, Bootstrap(c) PROVE IInv'
  BY <1>1 DEF Bootstrap, readVars
<1>2. ASSUME NEW c \in Conns, Register(c) PROVE IInv'
  <2> DEFINE kept == Pruned(sessions)
             old  == kept[UserOf[c]]
  <2>1. /\ kept \in [Users -> Conns \cup {None}]
        /\ \A u \in Users : kept[u] \in {sessions[u], None}
        /\ \A u \in Users : kept[u] # sessions[u] =>
             sessions[u] \in Conns /\ closeErr[sessions[u]] = "offline"
    BY PrunedFacts
  <2> HIDE DEF kept
  <2>2. /\ sessions' = [kept EXCEPT ![UserOf[c]] = c]
        /\ prev' = [prev EXCEPT ![c] = old]
        /\ cpc[c] = "bootstrapped"
        /\ cpc' = [cpc EXCEPT ![c] = IF old = None THEN "serving" ELSE "replacing"]
        /\ UNCHANGED <<ttl, now, closeErr, offlineUntil, got, rpc>>
    BY <1>2 DEF Register, kept, readVars
  <2>3. TypeOK' /\ KeysMatch' /\ HandlerProgress' /\ ReaderHolds' /\ NoDeadEntry'
    BY <2>1, <2>2
  <2>4. DisplacedNotRegistered'
    BY <2>1, <2>2
  \* The one open session that can leave the map is the one c is about to close.
  <2>5. NoOrphanSession'
    BY <2>1, <2>2
  <2>6. QED
    BY <2>3, <2>4, <2>5
<1>3. ASSUME NEW c \in Conns, ClosePrev(c) PROVE IInv'
  BY <1>3 DEF ClosePrev, CloseErrAfter, readVars
<1>4. ASSUME NEW c \in Conns, ServeEnds(c) PROVE IInv'
  BY <1>4 DEF ServeEnds, CloseErrAfter, readVars
<1>5. ASSUME NEW c \in Conns, HandleDisconnect(c) PROVE IInv'
  <2>1. CASE sessions[UserOf[c]] # c
    BY <1>5, <2>1 DEF HandleDisconnect, readVars
  <2>2. CASE sessions[UserOf[c]] = c /\ ttl = 0
    BY <1>5, <2>2 DEF HandleDisconnect, readVars
  <2>3. CASE sessions[UserOf[c]] = c /\ ttl # 0
    BY <1>5, <2>3, PrunedFacts DEF HandleDisconnect, RetainOffline, Deadline, readVars
  <2>4. QED
    BY <2>1, <2>2, <2>3
<1>6. ASSUME NEW r \in Readers, ReaderStep(r) PROVE IInv'
  <2>1. ASSUME NEW u \in Users, GetLookup(r, u) PROVE IInv'
    BY <2>1 DEF GetLookup, connVars
  <2>2. CASE GetTest(r)
    BY <2>2 DEF GetTest, IsExpired, connVars
  <2>3. CASE RemoveExpired(r)
    BY <2>3 DEF RemoveExpired, IsExpired, connVars
  <2>4. QED
    BY <1>6, <2>1, <2>2, <2>3 DEF ReaderStep
<1>7. CASE PruneExpired
  BY <1>7, PrunedFacts DEF PruneExpired, connVars, readVars
<1>8. CASE Tick
  BY <1>8 DEF Tick, connVars, readVars
<1>9. CASE UNCHANGED vars
  BY <1>9 DEF vars, connVars, readVars
<1>10. QED
  BY <1>1, <1>2, <1>3, <1>4, <1>5, <1>6, <1>7, <1>8, <1>9 DEF Next, ConnStep

\* The inductive invariant holds in every reachable state of the registry.
THEOREM RegistryInvariant == Spec => []IInv
  BY InitIInv, NextIInv, PTL DEF Spec

\* Every reachable state of the registry is well typed.
THEOREM RegistryTypeOK == Spec => []TypeOK
<1>1. IInv => TypeOK
  BY DEF IInv
<1>2. QED
  BY <1>1, RegistryInvariant, PTL

\* No open session serves requests outside the registry, for any number of
\* connections of any number of users: Connect closes what Register displaced.
THEOREM RegistryNoOrphan == Spec => []NoOrphanSession
<1>1. IInv => NoOrphanSession
  BY DEF IInv
<1>2. QED
  BY <1>1, RegistryInvariant, PTL

\* The registry keeps no replaced session and no session without a deadline
\* once its handler has returned.
THEOREM RegistryNoDeadEntry == Spec => []NoDeadEntry
<1>1. IInv => NoDeadEntry
  BY DEF IInv
<1>2. QED
  BY <1>1, RegistryInvariant, PTL

-----------------------------------------------------------------------------
(* Refinement *)

\* The initial registry is the initial state of the slots.
LEMMA SlotsInitRefined == Init => Slots!SlotsInit
  BY DEF Init, Slots!SlotsInit, SlotOf, Registered, Slots!Absent

\* Every step of the registry is a step of the slots or leaves them alone.
LEMMA SlotsNextRefined ==
  IInv /\ IInv' /\ [Next]_vars => [Slots!SlotsNext]_(Slots!slotVars)
<1> SUFFICES ASSUME IInv, IInv', [Next]_vars
             PROVE  [Slots!SlotsNext]_(Slots!slotVars)
  OBVIOUS
<1> DEFINE Same(u) == SlotOf(u)' = SlotOf(u)
           SameUsed == {c \in Conns : Registered(c)}' = {c \in Conns : Registered(c)}
<1> USE ManagerAssumption
    DEF IInv, TypeOK, KeysMatch, DisplacedNotRegistered, HandlerProgress,
        ReaderHolds, NoDeadEntry, Registered, IsExpired
\* Steps that neither register nor end a session change no slot.
<1>1. ASSUME SameUsed, \A u \in Users : Same(u)
      PROVE  UNCHANGED Slots!slotVars
  BY <1>1 DEF Slots!slotVars
<1>2. ASSUME NEW c \in Conns, Bootstrap(c) PROVE UNCHANGED Slots!slotVars
  BY <1>1, <1>2 DEF Bootstrap, readVars, SlotOf, ModeOf
<1>3. ASSUME NEW c \in Conns, ClosePrev(c) PROVE UNCHANGED Slots!slotVars
  BY <1>1, <1>3 DEF ClosePrev, CloseErrAfter, readVars, SlotOf, ModeOf
<1>4. ASSUME NEW r \in Readers, ReaderStep(r) PROVE UNCHANGED Slots!slotVars
  BY <1>1, <1>4 DEF ReaderStep, GetLookup, GetTest, RemoveExpired, connVars, SlotOf, ModeOf
<1>5. CASE PruneExpired
  <2>1. UNCHANGED Slots!slotVars
    BY <1>1, <1>5 DEF PruneExpired, Pruned, connVars, readVars, SlotOf, ModeOf
  <2>2. QED BY <2>1
<1>6. ASSUME NEW c \in Conns, Register(c) PROVE Slots!Connect(c)
  <2>1. c \notin {d \in Conns : Registered(d)}
    BY <1>6 DEF Register
  <2>2. {d \in Conns : Registered(d)}' = {d \in Conns : Registered(d)} \cup {c}
    BY <1>6 DEF Register
  <2>3. /\ sessions' = [Pruned(sessions) EXCEPT ![UserOf[c]] = c]
        /\ UNCHANGED <<now, closeErr, offlineUntil>>
        /\ closeErr[c] = "nil" /\ offlineUntil[c] = 0 /\ UserOf[c] \in Users
    BY <1>6 DEF Register
  <2>4. \A u \in Users \ {UserOf[c]} : Same(u)
    BY <2>3 DEF Pruned, SlotOf, ModeOf
  <2>5. sessions'[UserOf[c]] = c
    BY <2>3 DEF Pruned
  <2>6. SlotOf(UserOf[c])' = [mode |-> "live", conn |-> c]
    BY <2>3, <2>5 DEF SlotOf, ModeOf
  <2> DEFINE live == [mode |-> "live", conn |-> c]
  <2> HIDE DEF live
  <2>7. [u \in Users |-> SlotOf(u)]'
          = [[u \in Users |-> SlotOf(u)] EXCEPT ![UserOf[c]] = live]
    <3>1. SlotOf(UserOf[c])' = live
      BY <2>6 DEF live
    <3>2. UserOf[c] \in Users
      OBVIOUS
    <3>3. \A u \in Users : u # UserOf[c] => SlotOf(u)' = SlotOf(u)
      BY <2>4
    <3> HIDE DEF IInv
    <3>4. QED
      BY <3>1, <3>2, <3>3
  <2>8. QED
    BY <2>1, <2>2, <2>7 DEF Slots!Connect, live
<1>7. ASSUME NEW c \in Conns, ServeEnds(c)
      PROVE  Slots!Lose(UserOf[c]) \/ UNCHANGED Slots!slotVars
  <2>1. SameUsed
    BY <1>7 DEF ServeEnds
  <2>2. \A u \in Users \ {UserOf[c]} : Same(u)
    BY <1>7 DEF ServeEnds, CloseErrAfter, readVars, SlotOf, ModeOf
  <2>3. CASE sessions[UserOf[c]] = c /\ closeErr[c] = "nil"
    <3>1. SlotOf(UserOf[c]) = [mode |-> "live", conn |-> c]
      BY <2>3 DEF SlotOf, ModeOf
    <3>2. SlotOf(UserOf[c])' = [mode |-> "closing", conn |-> c]
      BY <1>7, <2>3 DEF ServeEnds, CloseErrAfter, readVars, SlotOf, ModeOf
    <3>3. QED
      BY <2>1, <2>2, <3>1, <3>2 DEF Slots!Lose, Slots!Become
  <2>4. CASE ~(sessions[UserOf[c]] = c /\ closeErr[c] = "nil")
    <3>1. Same(UserOf[c])
      BY <1>7, <2>4 DEF ServeEnds, CloseErrAfter, readVars, SlotOf, ModeOf
    <3>2. QED
      BY <1>1, <2>1, <2>2, <3>1
  <2>5. QED
    BY <2>3, <2>4
<1>8. ASSUME NEW c \in Conns, HandleDisconnect(c)
      PROVE  \/ Slots!Retain(UserOf[c]) \/ Slots!Drop(UserOf[c])
             \/ UNCHANGED Slots!slotVars
  <2>1. SameUsed
    BY <1>8 DEF HandleDisconnect
  <2>2. \A u \in Users \ {UserOf[c]} : Same(u)
    BY <1>8 DEF HandleDisconnect, RetainOffline, Deadline, Pruned, readVars, SlotOf, ModeOf
  <2>3. CASE sessions[UserOf[c]] # c
    BY <1>1, <1>8, <2>1, <2>2, <2>3 DEF HandleDisconnect, readVars, SlotOf, ModeOf
  <2>4. CASE sessions[UserOf[c]] = c
    <3>1. SlotOf(UserOf[c]) = [mode |-> "closing", conn |-> c]
      BY <1>8, <2>4 DEF HandleDisconnect, SlotOf, ModeOf
    <3>2. CASE ttl = 0
      <4>1. SlotOf(UserOf[c])' = [mode |-> "absent", conn |-> None]
        BY <1>8, <2>4, <3>2 DEF HandleDisconnect, readVars, SlotOf
      <4>2. QED
        BY <2>1, <2>2, <3>1, <4>1 DEF Slots!Drop, Slots!Absent
    <3>3. CASE ttl # 0
      <4>1. SlotOf(UserOf[c])' = [mode |-> "readonly", conn |-> c]
        BY <1>8, <2>4, <3>3
        DEF HandleDisconnect, RetainOffline, Deadline, Pruned, readVars, SlotOf, ModeOf
      <4>2. QED
        BY <2>1, <2>2, <3>1, <4>1 DEF Slots!Retain, Slots!Become
    <3>4. QED
      BY <3>2, <3>3
  <2>5. QED
    BY <2>3, <2>4
\* The clock takes exactly the snapshots whose deadline it reaches.
<1>9. CASE Tick
  <2> DEFINE due == {u \in Users : SlotOf(u)' # SlotOf(u)}
  <2>1. SameUsed
    BY <1>9 DEF Tick, connVars
  <2>2. \A u \in due : SlotOf(u).mode = "readonly" /\ SlotOf(u)' = [mode |-> "absent", conn |-> None]
    BY <1>9 DEF Tick, connVars, SlotOf, ModeOf
  <2>3. Slots!Expire(due)
    BY <2>1, <2>2 DEF Slots!Expire, Slots!Absent
  <2>4. due \in SUBSET Users
    OBVIOUS
  <2>5. QED
    BY <2>3, <2>4 DEF Slots!SlotsNext
<1>10. CASE UNCHANGED vars
  BY <1>1, <1>10 DEF vars, connVars, SlotOf, ModeOf
<1>11. QED
  BY <1>2, <1>3, <1>4, <1>5, <1>6, <1>7, <1>8, <1>9, <1>10
  DEF Next, ConnStep, Slots!SlotsNext

\* The registry implements the slots, for every number of users, connections
\* and readers and every retention time: the lazy clean-up of Get, Register,
\* UserIDs, LookupDaemon and HandleDisconnect is invisible, and a displaced or
\* expired session never comes back.
THEOREM RegistryImplementsSlots == Spec => ImplementsSlots
<1>1. Init => Slots!SlotsInit
  BY SlotsInitRefined
<1>2. IInv /\ IInv' /\ [Next]_vars => [Slots!SlotsNext]_(Slots!slotVars)
  BY SlotsNextRefined
<1>3. QED
  BY <1>1, <1>2, RegistryInvariant, PTL DEF Spec, ImplementsSlots, Slots!SlotsSpec

-----------------------------------------------------------------------------
(* The daemon's loop *)

\* Every step of the loop and of the goroutines keeps the types and bounds.
LEMMA DaemonTypes == DaemonTypeOK /\ [DaemonNext]_daemonVars => DaemonTypeOK'
<1> SUFFICES ASSUME DaemonTypeOK, [DaemonNext]_daemonVars PROVE DaemonTypeOK'
  OBVIOUS
<1> USE DaemonAssumption DEF DaemonTypeOK, Stages, runVars, sessVars
<1>1. CASE RunStep
  <2>8. CASE PrepareRun
    BY <2>8 DEF PrepareRun, RunReturns
  <2>1. CASE IterationStart
    BY <2>1 DEF IterationStart, RunReturns
  <2>2. CASE StageDone
    BY <2>2 DEF StageDone, After
  <2>7. CASE StageFails
    BY <2>7 DEF StageFails, After
  <2>3. CASE TreeSent
    <3>1. worker' \in [Workers -> {"setup", "select", "sending", "queueing", "ended"}]
      BY <2>3 DEF TreeSent
    <3>2. sendQ' \in 0..SendCap /\ eventQ' \in 0..EventCap /\ level' \in 0..MaxLevel
      BY <2>3 DEF TreeSent
    <3> QED BY <2>3, <3>1, <3>2, Zenon DEF TreeSent
  <2>6. CASE ServeReturns
    BY <2>6 DEF ServeReturns
  <2>4. CASE Decide
    BY <2>4 DEF Decide, RunReturns, NextRetryDelay
  <2>5. CASE WaitForRetry
    BY <2>5 DEF WaitForRetry, RunReturns
  <2> QED BY <1>1, <2>1, <2>2, <2>3, <2>4, <2>5, <2>6, <2>7, <2>8 DEF RunStep
<1>2. ASSUME NEW w \in Workers, WorkerStep(w) PROVE DaemonTypeOK'
  <2> USE DEF Goto, outside, WorkerEnds, WorkerFails
  <2>1. CASE SeesDone(w)
    BY <2>1 DEF SeesDone
  <2>2. CASE QueueDaemonMessage(w)
    BY <2>2 DEF QueueDaemonMessage
  <2>3. CASE SendTake \/ SendDone
    BY <2>3 DEF SendTake, SendDone
  <2>4. CASE SendFails \/ RecvFails \/ WatchSetup
    <3>1. /\ worker' \in [Workers -> {"setup", "select", "sending", "queueing", "ended"}]
          /\ UNCHANGED <<sendQ, eventQ, outside>>
      BY <2>4 DEF SendFails, RecvFails, WatchSetup
    <3>2. sessCancelled' \in BOOLEAN /\ groupErr' \in {"nil", "err"}
      BY <2>4 DEF SendFails, RecvFails, WatchSetup
    <3> QED BY <3>1, <3>2
  <2>5. CASE WatchEmit \/ ForwardTake
    BY <2>5 DEF WatchEmit, ForwardTake
  <2> QED BY <1>2, <2>1, <2>2, <2>3, <2>4, <2>5 DEF WorkerStep
<1>3. CASE RecvRequest \/ WatchEvent \/ HeartbeatTick
  <2>1. worker' \in [Workers -> {"setup", "select", "sending", "queueing", "ended"}]
    BY <1>3 DEF RecvRequest, WatchEvent, HeartbeatTick, Goto
  <2>2. UNCHANGED <<sessCancelled, groupErr, sendQ, eventQ, outside>>
    BY <1>3 DEF RecvRequest, WatchEvent, HeartbeatTick
  <2> QED BY <2>1, <2>2 DEF outside
<1>4. CASE Cancel
  BY <1>4, ZenonT(30) DEF Cancel
<1>6. CASE LinkBreaks
  BY <1>6, ZenonT(30) DEF LinkBreaks
<1>5. CASE UNCHANGED daemonVars
  BY <1>5 DEF daemonVars
<1> QED BY <1>1, <1>2, <1>3, <1>4, <1>5, <1>6 DEF DaemonNext

\* Before the first session: an iteration that comes to its end has failed, and a session
\* that is served has been established.  Nothing is tried with a refused configuration.
FirstAttempt ==
  /\ ~prepared => loop \in {"preparing", "returned"}
  /\ loop = "preparing" => err = "nil" /\ ~prepared
  /\ ~everEstablished => /\ loop # "serving"
                         /\ (loop = "decide" => err = "err")

\* A goroutine of the session leaves Run and its outcome alone.
LEMMA WorkersLeaveRun ==
  ASSUME NEW w \in Workers, WorkerStep(w)
  PROVE  UNCHANGED <<runVars, cancelled, loop>>
  BY DEF WorkerStep, SeesDone, QueueDaemonMessage, SendTake, SendDone, SendFails, RecvFails,
         WatchSetup, WatchEmit, ForwardTake, outside

LEMMA OutcomeStep ==
  ASSUME DaemonTypeOK, FirstAttempt, StartupOutcome, [DaemonNext]_daemonVars
  PROVE  FirstAttempt' /\ StartupOutcome'
<1> USE DEF FirstAttempt, StartupOutcome, DaemonTypeOK, runVars
<1>9. CASE PrepareRun
  BY <1>9 DEF PrepareRun, RunReturns
<1>1. CASE IterationStart \/ WaitForRetry
  BY <1>1 DEF IterationStart, WaitForRetry, RunReturns
<1>2. CASE StageDone \/ StageFails
  BY <1>2 DEF StageDone, StageFails, Stages, After
<1>3. CASE TreeSent \/ ServeReturns
  BY <1>3 DEF TreeSent, ServeReturns
<1>4. CASE Decide
  BY <1>4 DEF Decide, RunReturns
<1>5. ASSUME NEW w \in Workers, WorkerStep(w) PROVE FirstAttempt' /\ StartupOutcome'
  BY <1>5, WorkersLeaveRun
<1>6. CASE RecvRequest \/ WatchEvent \/ HeartbeatTick
  BY <1>6 DEF RecvRequest, WatchEvent, HeartbeatTick, outside
<1>7. CASE Cancel \/ LinkBreaks
  BY <1>7 DEF Cancel, LinkBreaks
<1>8. CASE UNCHANGED daemonVars
  BY <1>8 DEF daemonVars
<1> QED BY <1>1, <1>2, <1>3, <1>4, <1>5, <1>6, <1>7, <1>8, <1>9 DEF DaemonNext, RunStep

\* The queues of the daemon stay within their capacities and its back-off within its
\* bound, whatever fails and in whatever order its goroutines end.
THEOREM DaemonTypesKept == DaemonSpec => []DaemonTypeOK
<1>1. DaemonInit => worker \in [Workers -> {"setup", "select", "sending", "queueing", "ended"}]
  BY DEF DaemonInit
<1>2. DaemonInit => level \in 0..MaxLevel /\ sendQ \in 0..SendCap /\ eventQ \in 0..EventCap
  BY DaemonAssumption DEF DaemonInit
<1>3. DaemonInit => DaemonTypeOK
  BY <1>1, <1>2 DEF DaemonInit, DaemonTypeOK, Stages
<1> QED BY <1>3, DaemonTypes, PTL DEF DaemonSpec

\* For any queues and back-off: before the first session Run reports an error only in
\* fail-fast mode or for a configuration prepareRun refuses, and ends without one only
\* when it was cancelled.
THEOREM DaemonStartupOutcome == DaemonSpec => []StartupOutcome
<1>1. DaemonInit => FirstAttempt /\ StartupOutcome
  BY DEF DaemonInit, FirstAttempt, StartupOutcome
<1>2. DaemonTypeOK /\ FirstAttempt /\ StartupOutcome /\ [DaemonNext]_daemonVars
        => FirstAttempt' /\ StartupOutcome'
  BY OutcomeStep
<1> QED BY <1>1, <1>2, DaemonTypesKept, PTL DEF DaemonSpec
=============================================================================
