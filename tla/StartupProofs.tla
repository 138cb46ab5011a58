---------------------------- MODULE StartupProofs ----------------------------
(***************************************************************************)
(* For any components, retries and capacities: types and bounds, and that  *)
(* the events channel is closed after its last sender.  For the components *)
(* of the program, daemon and pty: the exit tells what has happened.       *)
(***************************************************************************)
EXTENDS Startup, SequenceTheorems, TLAPS

-----------------------------------------------------------------------------
(* Types and attempts *)

\* The queues.
QueueTypes ==
  /\ failCh \in Seq(Failure) /\ Len(failCh) =< FailCap
  /\ retryChs \in [Components -> Seq(1..MaxAttempts)]
  /\ \A c \in Components : Len(retryChs[c]) =< RetryCap
  /\ overflow \in BOOLEAN
  /\ events \in Seq(Event) /\ Len(events) =< EventCap

\* The rest.
StateTypes ==
  /\ deps \in [Components -> SUBSET Components]
  /\ ctxDone \in BOOLEAN
  /\ phase \in [Components -> {"pending", "started", "waitingRetry", "gaveUp"}]
  /\ lastFailure \in [Components -> 0..MaxAttempts]
  /\ startedChs \in SUBSET Components
  /\ rpc \in [Components -> Places]
  /\ attempt \in [Components -> 0..MaxAttempts]
  /\ ready \in [Components -> BOOLEAN]
  /\ ret \in [Components -> {"none", "nil", "err"}]
  /\ driving \in [Components -> SUBSET Failure]
  /\ cpc \in {"select", "publish", "abort", "overflow", "done"}
  /\ decision \in Retry
  /\ aborted \in BOOLEAN
  /\ closed \in BOOLEAN
  /\ sup \in [started : SUBSET Components, failed : SUBSET Components,
              daemonFatal : BOOLEAN, ptyErr : {"none", "nil", "err"},
              exit : {"none", "ok", "startupFailed", "runFailed", "ptyFailed"}]

\* What bounds the attempts, given that every retry is one more.
AttemptInv ==
  /\ \A c \in Components :
       /\ rpc[c] = "deps" => attempt[c] = 0
       /\ rpc[c] \in {"awaitRetry", "delay"} => attempt[c] < MaxAttempts
       /\ rpc[c] \notin {"deps", "done"} => attempt[c] > 0
       /\ phase[c] = "waitingRetry" => lastFailure[c] > 0
  /\ cpc = "publish" => decision.attempt < MaxAttempts

TypeInv == QueueTypes /\ StateTypes /\ AttemptInv

LEMMA TypeInvIsTypeOK == TypeInv => TypeOK
BY DEF TypeInv, QueueTypes, StateTypes, TypeOK

LEMMA Bounds == /\ MaxRetries \in Nat /\ MaxAttempts \in Nat \ {0} /\ MaxAttempts = MaxRetries + 1
                /\ FailCap \in Nat \ {0} /\ RetryCap \in Nat \ {0} /\ EventCap \in Nat \ {0}
                /\ "daemon" \in Components /\ "pty" \in Components
BY StartupAssumption DEF MaxAttempts

LEMMA InitTypeInv == Init => TypeInv
<1> SUFFICES ASSUME Init PROVE TypeInv
  OBVIOUS
<1>0. /\ failCh = <<>> /\ retryChs = [c \in Components |-> <<>>] /\ overflow = FALSE /\ events = <<>>
      /\ deps \in [Components -> SUBSET Components]
  BY DEF Init
<1>1. QueueTypes
  <2>1. failCh \in Seq(Failure) /\ Len(failCh) =< FailCap
    BY <1>0, Bounds
  <2>2. events \in Seq(Event) /\ Len(events) =< EventCap
    BY <1>0, Bounds
  <2>3. /\ retryChs \in [Components -> Seq(1..MaxAttempts)]
        /\ \A c \in Components : Len(retryChs[c]) =< RetryCap
    BY <1>0, Bounds
  <2> QED BY <1>0, <2>1, <2>2, <2>3 DEF QueueTypes
<1>2. StateTypes
  <2>1. NoRetry \in Retry
    BY Bounds DEF NoRetry, Retry
  <2>2. /\ phase \in [Components -> {"pending", "started", "waitingRetry", "gaveUp"}]
        /\ rpc \in [Components -> Places]
        /\ driving \in [Components -> SUBSET Failure]
    BY DEF Init, Places
  <2>3. /\ lastFailure \in [Components -> 0..MaxAttempts]
        /\ attempt \in [Components -> 0..MaxAttempts]
    BY Bounds DEF Init
  <2> QED BY <1>0, <2>1, <2>2, <2>3 DEF Init, StateTypes
<1>3. AttemptInv
  BY Bounds DEF Init, AttemptInv
<1> QED BY <1>1, <1>2, <1>3 DEF TypeInv

LEMMA QueuesUntouched ==
  ASSUME QueueTypes, UNCHANGED <<busVars, events>>
  PROVE  QueueTypes'
BY DEF QueueTypes, busVars

LEMMA EmitType ==
  ASSUME QueueTypes, NEW c \in Components, NEW kind \in {"started", "gaveUp", "aborted", "exited"},
         NEW err \in BOOLEAN, Emit(c, kind, err), UNCHANGED busVars
  PROVE  QueueTypes'
<1>1. [component |-> c, kind |-> kind, err |-> err] \in Event
  BY DEF Event
<1>2. events \in Seq(Event) /\ Len(events) < EventCap /\ EventCap \in Nat
  BY Bounds DEF QueueTypes, Emit
<1>3. events' \in Seq(Event) /\ Len(events') =< EventCap
  BY <1>1, <1>2 DEF Emit
<1> QED BY <1>3 DEF QueueTypes, busVars

LEMMA AbortType ==
  ASSUME QueueTypes, NEW c \in Components, Abort(c), UNCHANGED busVars
  PROVE  QueueTypes'
BY EmitType, QueuesUntouched DEF Abort

LEMMA OnFailedType ==
  ASSUME QueueTypes, NEW f \in Failure, OnFailed(f), UNCHANGED events
  PROVE  QueueTypes'
<1>1. failCh \in Seq(Failure) /\ FailCap \in Nat
  BY Bounds DEF QueueTypes
<1>2. failCh' \in Seq(Failure) /\ Len(failCh') =< FailCap /\ overflow' \in BOOLEAN
  <2>1. CASE Len(failCh) < FailCap
    <3>1. failCh' = Append(failCh, f) /\ overflow' = overflow
      BY <2>1 DEF OnFailed
    <3>2. Append(failCh, f) \in Seq(Failure) /\ Len(Append(failCh, f)) = Len(failCh) + 1
      BY <1>1
    <3> QED BY <1>1, <2>1, <3>1, <3>2 DEF QueueTypes
  <2>2. CASE ~(Len(failCh) < FailCap)
    BY <2>2 DEF QueueTypes, OnFailed
  <2> QED BY <2>1, <2>2
<1>3. retryChs' = retryChs
  BY DEF OnFailed
<1> QED BY <1>2, <1>3 DEF QueueTypes

LEMMA OnRetryType ==
  ASSUME QueueTypes, NEW to \in Components, NEW n \in 1..MaxAttempts, OnRetry(to, n),
         UNCHANGED events
  PROVE  QueueTypes'
<1>0. RetryCap \in Nat
  BY Bounds
<1>1. CASE Len(retryChs[to]) < RetryCap
  <2>1. /\ retryChs' = [retryChs EXCEPT ![to] = Append(retryChs[to], n)]
        /\ UNCHANGED <<failCh, overflow>>
    BY <1>1 DEF OnRetry
  <2>2. retryChs[to] \in Seq(1..MaxAttempts)
    BY DEF QueueTypes
  <2>3. /\ Append(retryChs[to], n) \in Seq(1..MaxAttempts)
        /\ Len(Append(retryChs[to], n)) =< RetryCap
    BY <1>0, <1>1, <2>2
  <2> QED BY <2>1, <2>3 DEF QueueTypes
<1>2. CASE ~(Len(retryChs[to]) < RetryCap)
  BY <1>2 DEF QueueTypes, OnRetry
<1> QED BY <1>1, <1>2

LEMMA TailShorter ==
  ASSUME NEW S, NEW s \in Seq(S), NEW n \in Nat, Len(s) =< n, s # <<>>
  PROVE  Tail(s) \in Seq(S) /\ Len(Tail(s)) =< n
BY HeadTailProperties

LEMMA RunnerType ==
  ASSUME TypeInv, NEW c \in Components, RunnerStep(c)
  PROVE  TypeInv'
<1> USE DEF Goto, runVars, coordVars
<1>0. MaxAttempts \in Nat \ {0} /\ QueueTypes /\ StateTypes /\ AttemptInv
  BY Bounds DEF TypeInv
<1>1. CASE AwaitDependencies(c) \/ SleepRetryDelay(c)
  <2>1. QueueTypes'
    BY <1>0, <1>1, QueuesUntouched DEF AwaitDependencies, SleepRetryDelay
  <2>2. CASE Goto(c, "done") /\ UNCHANGED runVars
    BY <1>0, <1>1, <2>1, <2>2 DEF TypeInv, StateTypes, AttemptInv, Places, AwaitDependencies,
                                 SleepRetryDelay
  <2>3. CASE BeginAttempt(c)
    <3>1. attempt[c] + 1 \in 1..MaxAttempts
      BY <1>0, <1>1 DEF StateTypes, AttemptInv, AwaitDependencies, SleepRetryDelay
    <3>2. StateTypes'
      BY <1>0, <1>1, <2>3, <3>1 DEF StateTypes, Places, AwaitDependencies, SleepRetryDelay,
                                    BeginAttempt
    <3>3. AttemptInv'
      BY <1>0, <1>1, <2>3, <3>1 DEF StateTypes, AttemptInv, AwaitDependencies, SleepRetryDelay,
                                    BeginAttempt
    <3> QED BY <2>1, <3>2, <3>3 DEF TypeInv
  <2> QED BY <1>1, <2>2, <2>3 DEF AwaitDependencies, SleepRetryDelay
<1>2. CASE MarkStarted(c)
  <2>1. PendingPeerFailures(c) \in SUBSET Failure
    BY <1>0 DEF StateTypes, AttemptInv, PendingPeerFailures, Failure
  <2>2. QueueTypes'
    BY <1>0, <1>2, QueuesUntouched DEF MarkStarted
  <2>3. StateTypes'
    BY <1>0, <1>2, <2>1 DEF MarkStarted, StateTypes, Places
  <2>4. AttemptInv'
    BY <1>0, <1>2 DEF MarkStarted, StateTypes, AttemptInv
  <2> QED BY <2>2, <2>3, <2>4 DEF TypeInv
<1>3. CASE AnnounceStarted(c)
  <2>1. QueueTypes'
    BY <1>0, <1>3, EmitType DEF AnnounceStarted
  <2> QED BY <1>0, <1>3, <2>1 DEF AnnounceStarted, TypeInv, StateTypes, AttemptInv, Places
<1>4. CASE DrivePeers(c)
  <2>1. CASE driving[c] = {} /\ Goto(c, "running") /\ UNCHANGED <<driving, busVars>>
    <3>1. QueueTypes'
      BY <1>0, <1>4, <2>1, QueuesUntouched DEF DrivePeers
    <3> QED BY <1>0, <1>4, <2>1, <3>1 DEF DrivePeers, TypeInv, StateTypes, AttemptInv, Places
  <2>2. ASSUME NEW f \in driving[c], DriveRetry(f), driving' = [driving EXCEPT ![c] = @ \ {f}],
               UNCHANGED rpc
        PROVE  TypeInv'
    <3>1. f \in Failure
      BY <1>0 DEF StateTypes
    <3>2. f.component \in Components /\ f.attempt \in 1..MaxAttempts
      BY <3>1 DEF Failure
    <3>3. events' = events
      BY <1>4 DEF DrivePeers
    <3>4. QueueTypes'
      <4>1. CASE f.attempt < MaxAttempts
        <5>1. f.attempt + 1 \in 1..MaxAttempts
          BY <1>0, <3>2, <4>1
        <5> QED BY <1>0, <2>2, <3>2, <3>3, <4>1, <5>1, OnRetryType DEF DriveRetry
      <4>2. CASE ~(f.attempt < MaxAttempts)
        BY <1>0, <2>2, <3>3, <4>2, QueuesUntouched DEF DriveRetry
      <4> QED BY <4>1, <4>2
    <3>5. StateTypes'
      BY <1>0, <1>4, <2>2 DEF DrivePeers, StateTypes
    <3>6. AttemptInv'
      BY <1>0, <1>4, <2>2 DEF DrivePeers, AttemptInv
    <3> QED BY <3>4, <3>5, <3>6 DEF TypeInv
  <2> QED BY <1>4, <2>1, <2>2 DEF DrivePeers
<1>5. CASE ComponentExits(c)
  <2>1. QueueTypes'
    BY <1>0, <1>5, EmitType DEF ComponentExits
  <2> QED BY <1>0, <1>5, <2>1 DEF ComponentExits, TypeInv, StateTypes, AttemptInv, Places
<1>6. CASE AttemptFails(c)
  <2>1. QueueTypes'
    BY <1>0, <1>6, QueuesUntouched DEF AttemptFails
  <2> QED BY <1>0, <1>6, <2>1 DEF AttemptFails, TypeInv, StateTypes, AttemptInv, Places
<1>7. CASE PublishFailure(c)
  <2>1. attempt[c] \in 1..MaxAttempts
    BY <1>0, <1>7 DEF PublishFailure, StateTypes, AttemptInv
  <2>2. [component |-> c, attempt |-> attempt[c]] \in Failure
    BY <2>1 DEF Failure
  <2>3. QueueTypes'
    BY <1>0, <1>7, <2>2, OnFailedType DEF PublishFailure
  <2>4. StateTypes'
    BY <1>0, <1>7 DEF PublishFailure, StateTypes, Places
  <2>5. AttemptInv'
    BY <1>0, <1>7, <2>1 DEF PublishFailure, StateTypes, AttemptInv
  <2> QED BY <2>3, <2>4, <2>5 DEF TypeInv
<1>8. CASE MarkGaveUp(c)
  <2>1. QueueTypes'
    BY <1>0, <1>8, QueuesUntouched DEF MarkGaveUp
  <2> QED BY <1>0, <1>8, <2>1 DEF MarkGaveUp, TypeInv, StateTypes, AttemptInv, Places
<1>9. CASE AnnounceGaveUp(c)
  <2>1. QueueTypes'
    BY <1>0, <1>9, EmitType DEF AnnounceGaveUp
  <2> QED BY <1>0, <1>9, <2>1 DEF AnnounceGaveUp, TypeInv, StateTypes, AttemptInv, Places
<1>10. CASE RunnerAborts(c)
  <2>1. QueueTypes'
    BY <1>0, <1>10, AbortType DEF RunnerAborts
  <2>2. StateTypes'
    <3>1. aborted' \in BOOLEAN /\ ctxDone' \in BOOLEAN
      BY <1>10 DEF RunnerAborts, Abort, TypeInv, StateTypes
    <3>2. rpc' \in [Components -> Places]
      BY <1>0, <1>10 DEF RunnerAborts, TypeInv, StateTypes, Places
    <3> QED BY <1>10, <3>1, <3>2 DEF RunnerAborts, TypeInv, StateTypes
  <2>3. AttemptInv'
    BY <1>0, <1>10 DEF RunnerAborts, Abort, TypeInv, StateTypes, AttemptInv
  <2> QED BY <2>1, <2>2, <2>3 DEF TypeInv
<1>11. CASE AwaitRetry(c)
  <2>1. retryChs[c] \in Seq(1..MaxAttempts) /\ Len(retryChs[c]) =< RetryCap /\ RetryCap \in Nat
    BY <1>0, Bounds DEF QueueTypes
  <2>2. retryChs[c] # <<>> => /\ Tail(retryChs[c]) \in Seq(1..MaxAttempts)
                              /\ Len(Tail(retryChs[c])) =< RetryCap
    BY <2>1, TailShorter
  <2>3. QueueTypes'
    BY <1>0, <1>11, <2>2 DEF AwaitRetry, QueueTypes
  <2>4. StateTypes'
    <3>0. \E place \in {"done", "delay"} : rpc' = [rpc EXCEPT ![c] = place]
      BY <1>11 DEF AwaitRetry
    <3>1. rpc' \in [Components -> Places]
      BY <1>0, <3>0 DEF StateTypes, Places
    <3> QED BY <1>0, <1>11, <3>1 DEF AwaitRetry, StateTypes
  <2>5. AttemptInv'
    BY <1>0, <1>11, ZenonT(30) DEF AwaitRetry, StateTypes, AttemptInv
  <2> QED BY <2>3, <2>4, <2>5 DEF TypeInv
<1> QED BY <1>1, <1>2, <1>3, <1>4, <1>5, <1>6, <1>7, <1>8, <1>9, <1>10, <1>11 DEF RunnerStep

LEMMA ComponentType ==
  ASSUME TypeInv, NEW c \in Components,
         RunReady(c) \/ (\E e \in {"nil", "err"} : RunReturns(c, e))
  PROVE  TypeInv'
<1>1. QueueTypes'
  BY QueuesUntouched DEF TypeInv, RunReady, RunReturns
<1>2. StateTypes'
  <2>1. CASE RunReady(c)
    BY <2>1 DEF TypeInv, StateTypes, RunReady, coordVars
  <2>2. ASSUME NEW e \in {"nil", "err"}, RunReturns(c, e) PROVE StateTypes'
    BY <2>2 DEF TypeInv, StateTypes, RunReturns, coordVars
  <2> QED BY <2>1, <2>2
<1>3. AttemptInv'
  BY DEF TypeInv, AttemptInv, RunReady, RunReturns, coordVars
<1> QED BY <1>1, <1>2, <1>3 DEF TypeInv

\* onFailure, of a failure that names an attempt.
LEMMA OnFailureDecides ==
  ASSUME NEW f \in Failure, OnFailure(f)
  PROVE  /\ cpc' \in {"select", "publish", "abort"}
         /\ \E p \in Components :
              decision' = [to |-> f.component, attempt |-> f.attempt, from |-> p]
         /\ cpc' = "publish" => f.attempt < MaxAttempts
         /\ RecordFailure(f)
<1>1. f.component \in Components
  BY DEF Failure
<1>2. /\ StartedPeers(f.component) \subseteq Components
      /\ (IF HasPendingDependent(f.component) THEN {f.component} ELSE {}) \subseteq Components
  BY <1>1 DEF StartedPeers
<1> QED BY <1>1, <1>2 DEF OnFailure, Decide

LEMMA CoordinatorType ==
  ASSUME TypeInv, CoordinatorStep
  PROVE  TypeInv'
<1> USE DEF runVars
<1>0. MaxAttempts \in Nat \ {0} /\ QueueTypes /\ StateTypes /\ AttemptInv
  BY Bounds DEF TypeInv
<1>1. CASE TakeFailure
  <2> DEFINE f == Head(failCh)
  <2>1. f \in Failure /\ Tail(failCh) \in Seq(Failure) /\ Len(Tail(failCh)) =< FailCap
    BY <1>0, <1>1, Bounds, HeadTailProperties DEF QueueTypes, TakeFailure
  <2>2. failCh' = Tail(failCh) /\ OnFailure(f)
        /\ UNCHANGED <<deps, ctxDone, startedChs, rpc, runVars, driving, retryChs, overflow, aborted,
                       events, closed, sup>>
    BY <1>1 DEF TakeFailure
  <2> HIDE DEF f
  <2>3. QueueTypes'
    BY <1>0, <2>1, <2>2 DEF QueueTypes
  <2>4. f.component \in Components /\ f.attempt \in 1..MaxAttempts
    BY <2>1 DEF Failure
  <2>5. /\ cpc' \in {"select", "publish", "abort"}
        /\ cpc' = "publish" => decision'.attempt < MaxAttempts
        /\ decision' \in Retry /\ RecordFailure(f)
    BY <2>1, <2>2, <2>4, OnFailureDecides DEF Retry
  <2>6. /\ phase' \in [Components -> {"pending", "started", "waitingRetry", "gaveUp"}]
        /\ lastFailure' \in [Components -> 0..MaxAttempts]
        /\ \A c \in Components : phase'[c] = "waitingRetry" => lastFailure'[c] > 0
    BY <1>0, <2>4, <2>5 DEF StateTypes, AttemptInv, RecordFailure
  <2>7. StateTypes'
    BY <1>0, <2>2, <2>5, <2>6 DEF StateTypes
  <2>8. AttemptInv'
    BY <1>0, <2>2, <2>5, <2>6 DEF AttemptInv
  <2> QED BY <2>3, <2>7, <2>8 DEF TypeInv
<1>2. CASE PublishRetry
  <2>1. decision.to \in Components /\ decision.attempt + 1 \in 1..MaxAttempts
    BY <1>0, <1>2 DEF PublishRetry, StateTypes, AttemptInv, Retry
  <2>2. QueueTypes'
    BY <1>0, <1>2, <2>1, OnRetryType DEF PublishRetry
  <2> QED BY <1>0, <1>2, <2>2 DEF PublishRetry, TypeInv, StateTypes, AttemptInv
<1>3. CASE TakeOverflow
  <2>1. QueueTypes'
    BY <1>0, <1>3 DEF TakeOverflow, QueueTypes
  <2> QED BY <1>0, <1>3, <2>1 DEF TakeOverflow, TypeInv, StateTypes, AttemptInv
<1>4. CASE CoordinatorAborts
  <2>1. decision.to \in Components
    BY <1>0 DEF StateTypes, Retry
  <2>2. QueueTypes'
    BY <1>0, <1>4, <2>1, AbortType DEF CoordinatorAborts
  <2> QED BY <1>0, <1>4, <2>2 DEF CoordinatorAborts, Abort, TypeInv, StateTypes, AttemptInv
<1>5. CASE CoordinatorEnds
  <2>1. QueueTypes'
    BY <1>0, <1>5, QueuesUntouched DEF CoordinatorEnds
  <2> QED BY <1>0, <1>5, <2>1 DEF CoordinatorEnds, TypeInv, StateTypes, AttemptInv
<1> QED BY <1>1, <1>2, <1>3, <1>4, <1>5 DEF CoordinatorStep

LEMMA EventTaken ==
  ASSUME TypeInv, events # <<>>
  PROVE  /\ Head(events) \in Event /\ Tail(events) \in Seq(Event)
         /\ Len(Tail(events)) = Len(events) - 1
BY HeadTailProperties DEF TypeInv, QueueTypes

LEMMA SuperviseType ==
  ASSUME TypeInv, Supervise
  PROVE  TypeInv'
<1> USE DEF runVars, busVars, coordVars
<1> DEFINE e == Head(events)
<1>1. /\ events # <<>> /\ events' = Tail(events)
      /\ UNCHANGED <<deps, phase, lastFailure, startedChs, rpc, runVars, driving, busVars, coordVars,
                     aborted, closed>>
  BY DEF Supervise
<1>2. QueueTypes'
  <2>1. Tail(events) \in Seq(Event) /\ Len(Tail(events)) =< EventCap
    BY <1>1, EventTaken, Bounds DEF TypeInv, QueueTypes
  <2> QED BY <1>1, <2>1 DEF TypeInv, QueueTypes
<1>3. e.component \in Components /\ e.err \in BOOLEAN
  BY <1>1, EventTaken DEF Event
<1>4. ctxDone' \in BOOLEAN
  BY DEF Supervise, HandleExit, TypeInv, StateTypes
<1>5. sup' \in [started : SUBSET Components, failed : SUBSET Components,
                daemonFatal : BOOLEAN, ptyErr : {"none", "nil", "err"},
                exit : {"none", "ok", "startupFailed", "runFailed", "ptyFailed"}]
  <2>1. sup \in [started : SUBSET Components, failed : SUBSET Components,
                 daemonFatal : BOOLEAN, ptyErr : {"none", "nil", "err"},
                 exit : {"none", "ok", "startupFailed", "runFailed", "ptyFailed"}]
    BY DEF TypeInv, StateTypes
  <2>2. \/ sup' = [sup EXCEPT !.started = @ \cup {e.component}]
        \/ sup' = [sup EXCEPT !.failed = @ \cup ({e.component} \ sup.started)]
        \/ sup' = sup
        \/ \E v \in {"nil", "err"} : sup' = [sup EXCEPT !.ptyErr = v]
        \/ sup' = [sup EXCEPT !.daemonFatal = @ \/ e.err]
    BY DEF Supervise, HandleExit
  <2> HIDE DEF e
  <2> QED BY <1>3, <2>1, <2>2
<1>6. StateTypes'
  BY <1>1, <1>4, <1>5 DEF TypeInv, StateTypes
<1>7. AttemptInv'
  BY <1>1 DEF TypeInv, AttemptInv
<1> QED BY <1>2, <1>6, <1>7 DEF TypeInv

LEMMA EndType ==
  ASSUME TypeInv, LastCancels \/ CloseEvents \/ Finish \/ ShutdownSignal
  PROVE  TypeInv'
<1> USE DEF LastCancels, CloseEvents, Finish, ShutdownSignal
<1>1. QueueTypes'
  BY QueuesUntouched DEF TypeInv
<1>2. StateTypes'
  <2> USE DEF TypeInv, StateTypes, runVars, coordVars
  <2>1. CASE LastCancels \/ CloseEvents \/ ShutdownSignal
    BY <2>1
  <2>2. CASE Finish
    <3>1. sup.failed \cup ({"daemon", "pty"} \ sup.started) \in SUBSET Components
      BY Bounds
    <3>2. PICK why \in {"ok", "startupFailed", "runFailed", "ptyFailed"} :
            sup' = [sup EXCEPT !.failed = sup.failed \cup ({"daemon", "pty"} \ sup.started),
                               !.exit = why]
      BY <2>2
    <3> QED BY <2>2, <3>1, <3>2
  <2> QED BY <2>1, <2>2
<1>3. AttemptInv'
  BY DEF TypeInv, AttemptInv, runVars, coordVars
<1> QED BY <1>1, <1>2, <1>3 DEF TypeInv

LEMMA NextType == TypeInv /\ [Next]_vars => TypeInv'
<1> SUFFICES ASSUME TypeInv, [Next]_vars PROVE TypeInv'
  OBVIOUS
<1>1. CASE UNCHANGED vars
  <2>1. QueueTypes'
    BY <1>1, QueuesUntouched DEF TypeInv, vars
  <2> QED BY <1>1, <2>1 DEF TypeInv, StateTypes, AttemptInv, vars, runVars, coordVars
<1> QED BY <1>1, RunnerType, ComponentType, CoordinatorType, SuperviseType, EndType DEF Next

\* Every variable has its type: no queue grows beyond its capacity, and no attempt is made
\* beyond MaxRetries.
THEOREM StartupTypes == Spec => []TypeOK
<1>1. Spec => []TypeInv
  BY InitTypeInv, NextType, PTL DEF Spec
<1> QED BY <1>1, TypeInvIsTypeOK, PTL

-----------------------------------------------------------------------------
(* The end of the run *)

\* The channel is closed by the last one.
CloseInv == closed => AllDone /\ cpc = "done" /\ ctxDone

\* Nobody but the supervisor, the finish of the run included, goes on after that.
LEMMA ClosedIsClosed ==
  ASSUME CloseInv, closed, Next
  PROVE  Supervise \/ Finish
<1>1. \A c \in Components : rpc[c] = "done"
  BY DEF CloseInv, AllDone
<1>2. ASSUME NEW c \in Components, RunnerStep(c) PROVE FALSE
  BY <1>1, <1>2 DEF RunnerStep, AwaitDependencies, MarkStarted, AnnounceStarted, DrivePeers,
     ComponentExits, AttemptFails, PublishFailure, MarkGaveUp, AnnounceGaveUp, RunnerAborts,
     AwaitRetry, SleepRetryDelay
<1>3. ASSUME NEW c \in Components, RunReady(c) \/ \E e \in {"nil", "err"} : RunReturns(c, e)
      PROVE FALSE
  BY <1>1, <1>3 DEF RunReady, RunReturns
<1>4. ~CoordinatorStep
  BY DEF CloseInv, CoordinatorStep, TakeFailure, PublishRetry, TakeOverflow, CoordinatorAborts,
         CoordinatorEnds
<1>5. ~LastCancels /\ ~CloseEvents /\ ~ShutdownSignal
  BY DEF CloseInv, LastCancels, CloseEvents, ShutdownSignal
<1> QED BY <1>2, <1>3, <1>4, <1>5 DEF Next

\* The context does not come back, and the channel is closed once.
LEMMA NextClose ==
  ASSUME TypeInv, CloseInv, [Next]_vars
  PROVE  CloseInv'
<1>1. CASE closed
  <2>1. CASE UNCHANGED vars
    BY <2>1 DEF CloseInv, AllDone, vars, coordVars
  <2>2. CASE Supervise
    <3>1. rpc' = rpc /\ cpc' = cpc /\ closed' = closed
      BY <2>2 DEF Supervise, coordVars
    <3>2. ctxDone' = TRUE
      BY <1>1, <2>2 DEF CloseInv, TypeInv, StateTypes, Supervise, HandleExit
    <3> QED BY <3>1, <3>2 DEF CloseInv, AllDone
  <2>3. CASE Finish
    BY <2>3 DEF Finish, CloseInv, AllDone, coordVars
  <2> QED BY <1>1, <2>1, <2>2, <2>3, ClosedIsClosed
<1>2. CASE ~closed
  <2>1. CASE CloseEvents
    BY <2>1 DEF CloseEvents, CloseInv, AllDone, coordVars
  <2>2. CASE ~CloseEvents
    <3>1. closed' = closed
      BY <2>2 DEF Next, vars, RunnerStep, AwaitDependencies, MarkStarted, AnnounceStarted,
         DrivePeers, ComponentExits, AttemptFails, PublishFailure, MarkGaveUp, AnnounceGaveUp,
         RunnerAborts, AwaitRetry, SleepRetryDelay, RunReady, RunReturns, CoordinatorStep,
         TakeFailure, PublishRetry, TakeOverflow, CoordinatorAborts, CoordinatorEnds, LastCancels,
         Supervise, Finish, ShutdownSignal
    <3> QED BY <1>2, <3>1 DEF CloseInv
  <2> QED BY <2>1, <2>2
<1> QED BY <1>1, <1>2 DEF TypeInv, StateTypes

\* Run closes the events channel after the runners and coordinate: nobody sends on a closed
\* channel, abort included.
THEOREM StartupNoSendAfterClose == Spec => []NoSendAfterClose
<1>1. Init => TypeInv /\ CloseInv
  BY InitTypeInv DEF Init, CloseInv
<1>2. (TypeInv /\ CloseInv) /\ [Next]_vars => (TypeInv /\ CloseInv)'
  BY NextType, NextClose
<1>3. CloseInv => NoSendAfterClose
  BY DEF CloseInv, NoSendAfterClose
<1> QED BY <1>1, <1>2, <1>3, PTL DEF Spec

-----------------------------------------------------------------------------
(* What the supervisor has been told, or will be *)

Up == {"announcing", "driving", "running"}

Pending(c, kind, err) ==
  \E i \in 1..Len(events) : events[i] = [component |-> c, kind |-> kind, err |-> err]

\* Who has started is running or done, and is announced once it has started.
StartTold(c) ==
  /\ c \in startedChs => rpc[c] \in Up \cup {"done"}
  /\ rpc[c] \in Up => c \in startedChs
  /\ c \in startedChs /\ rpc[c] # "announcing" => c \in sup.started \/ Pending(c, "started", FALSE)
  /\ c \in sup.started => c \in startedChs
  /\ \A x \in BOOLEAN : Pending(c, "started", x) => c \in startedChs

\* Who has given up has not started and will not.
FailureTold(c) ==
  (c \in sup.failed /\ sup.exit = "none") \/ (\E x \in BOOLEAN : Pending(c, "gaveUp", x)) =>
    c \notin startedChs /\ rpc[c] \in {"aborting", "done"}

\* How Run returned is told once it is over.
ExitTold(c) ==
  /\ c \in startedChs /\ rpc[c] = "done" /\ ret[c] = "err" =>
       Pending(c, "exited", TRUE) \/ IF c = "pty" THEN sup.ptyErr = "err" ELSE sup.daemonFatal
  /\ \A x \in BOOLEAN :
       Pending(c, "exited", x) => c \in startedChs /\ rpc[c] = "done" /\ x = (ret[c] = "err")

EventInv == \A c \in Components : StartTold(c) /\ FailureTold(c) /\ ExitTold(c)

LEMMA PendingKept ==
  ASSUME events' = events
  PROVE  \A c, kind, err : Pending(c, kind, err)' <=> Pending(c, kind, err)
BY DEF Pending

LEMMA PendingEmit ==
  ASSUME TypeInv, NEW c \in Components, NEW kind \in {"started", "gaveUp", "aborted", "exited"},
         NEW err \in BOOLEAN, Emit(c, kind, err)
  PROVE  \A p, k, x : Pending(p, k, x)' <=> Pending(p, k, x) \/ (p = c /\ k = kind /\ x = err)
<1> DEFINE e == [component |-> c, kind |-> kind, err |-> err]
<1>1. e \in Event
  BY DEF Event
<1>2. events \in Seq(Event) /\ events' = Append(events, e)
  BY DEF TypeInv, QueueTypes, Emit
<1>3. /\ Len(events') = Len(events) + 1 /\ events'[Len(events) + 1] = e
      /\ \A i \in 1..Len(events) : events'[i] = events[i]
  BY <1>1, <1>2, AppendProperties
<1>4. ASSUME NEW p, NEW k, NEW x
      PROVE  Pending(p, k, x)' <=> Pending(p, k, x) \/ (p = c /\ k = kind /\ x = err)
  <2>1. e = [component |-> p, kind |-> k, err |-> x] <=> p = c /\ k = kind /\ x = err
    OBVIOUS
  <2> HIDE DEF e
  <2>2. Len(events) \in Nat
    BY <1>2
  <2>3. Pending(p, k, x)' <=> \E i \in 1..(Len(events) + 1) :
                                events'[i] = [component |-> p, kind |-> k, err |-> x]
    BY <1>3 DEF Pending
  <2> QED BY <1>3, <2>1, <2>2, <2>3 DEF Pending
<1> QED BY <1>4

LEMMA PendingTaken ==
  ASSUME TypeInv, events # <<>>, events' = Tail(events)
  PROVE  /\ \A c, k, x : Pending(c, k, x)' => Pending(c, k, x)
         /\ \A c, k, x : Pending(c, k, x) =>
               Pending(c, k, x)' \/ Head(events) = [component |-> c, kind |-> k, err |-> x]
         /\ Pending(Head(events).component, Head(events).kind, Head(events).err)
<1>1. events \in Seq(Event) /\ Len(events) \in Nat \ {0}
  BY DEF TypeInv, QueueTypes
<1>2. /\ Len(events') = Len(events) - 1 /\ events[1] = Head(events)
      /\ \A i \in 1..(Len(events) - 1) : events'[i] = events[i + 1]
  BY <1>1, HeadTailProperties
<1>3. ASSUME NEW c, NEW k, NEW x, Pending(c, k, x)' PROVE Pending(c, k, x)
  <2>1. PICK i \in 1..(Len(events) - 1) : events'[i] = [component |-> c, kind |-> k, err |-> x]
    BY <1>2, <1>3 DEF Pending
  <2>2. i + 1 \in 1..Len(events) /\ events[i + 1] = events'[i]
    BY <1>1, <1>2
  <2> QED BY <2>1, <2>2 DEF Pending
<1>4. ASSUME NEW c, NEW k, NEW x, Pending(c, k, x)
      PROVE  Pending(c, k, x)' \/ Head(events) = [component |-> c, kind |-> k, err |-> x]
  <2>1. PICK i \in 1..Len(events) : events[i] = [component |-> c, kind |-> k, err |-> x]
    BY <1>4 DEF Pending
  <2>2. CASE i = 1
    BY <1>2, <2>1, <2>2
  <2>3. CASE i # 1
    <3>1. i - 1 \in 1..(Len(events) - 1) /\ (i - 1) + 1 = i
      BY <1>1, <2>3
    <3>2. events'[i - 1] = events[i] /\ i - 1 \in 1..Len(events')
      BY <1>2, <3>1
    <3> QED BY <2>1, <3>2 DEF Pending
  <2> QED BY <2>2, <2>3
<1>5. Pending(Head(events).component, Head(events).kind, Head(events).err)
  <2>1. Head(events) = [component |-> Head(events).component, kind |-> Head(events).kind,
                        err |-> Head(events).err]
    BY <1>1, EventTaken DEF Event
  <2>2. 1 \in 1..Len(events)
    BY <1>1
  <2> QED BY <1>2, <2>1, <2>2 DEF Pending
<1> QED BY <1>3, <1>4, <1>5

LEMMA AbortPending ==
  ASSUME TypeInv, NEW c \in Components, Abort(c)
  PROVE  \A p, k, x : k # "aborted" => (Pending(p, k, x)' <=> Pending(p, k, x))
<1>1. CASE events' = events
  BY <1>1, PendingKept
<1>2. CASE Emit(c, "aborted", TRUE)
  <2>1. \A p, k, x : Pending(p, k, x)' <=> Pending(p, k, x) \/ (p = c /\ k = "aborted" /\ x = TRUE)
    BY <1>2, PendingEmit
  <2> QED BY <2>1
<1> QED BY <1>1, <1>2 DEF Abort

\* Before a component is up, and on the way to giving up.
Early == {"deps", "attempt", "failed", "givingUp", "awaitRetry", "delay"}

\* A runner that is not up goes on, and does not come up.
LEMMA EarlyMove ==
  ASSUME TypeInv, EventInv, NEW c \in Components, rpc[c] \in Early,
         NEW place \in Early \cup {"gaveUp", "done"}, rpc' = [rpc EXCEPT ![c] = place],
         \A p \in Components \ {c} : ret'[p] = ret[p], UNCHANGED <<startedChs, events, sup>>
  PROVE  EventInv'
<1>1. c \notin startedChs
  BY DEF EventInv, StartTold, FailureTold, ExitTold, Early, Up
<1>2. \A p, k, x : Pending(p, k, x)' <=> Pending(p, k, x)
  BY PendingKept
<1>3. rpc'[c] = place /\ \A p \in Components \ {c} : rpc'[p] = rpc[p]
  BY DEF TypeInv, StateTypes
<1>4. \A x \in BOOLEAN : ~Pending(c, "started", x) /\ ~Pending(c, "gaveUp", x)
                         /\ ~Pending(c, "exited", x)
  BY <1>1 DEF EventInv, StartTold, FailureTold, ExitTold, Early, Up
<1>5. sup.exit = "none" => c \notin sup.failed
  BY DEF EventInv, StartTold, FailureTold, ExitTold, Early, Up
<1>6. \A p \in Components \ {c} : rpc'[p] = rpc[p] /\ ret'[p] = ret[p]
  BY <1>3
<1>7. StartTold(c)' /\ FailureTold(c)' /\ ExitTold(c)'
  BY <1>1, <1>2, <1>3, <1>4, <1>5 DEF EventInv, StartTold, FailureTold, ExitTold, Early, Up
<1>8. ASSUME NEW p \in Components \ {c} PROVE StartTold(p)' /\ FailureTold(p)' /\ ExitTold(p)'
  BY <1>2, <1>6 DEF EventInv, StartTold, FailureTold, ExitTold
<1> QED BY <1>7, <1>8 DEF EventInv

LEMMA RunnerEvents ==
  ASSUME TypeInv, EventInv, NEW c \in Components, RunnerStep(c)
  PROVE  EventInv'
<1> USE DEF Goto, runVars
<1>0. rpc \in [Components -> Places] /\ ret \in [Components -> {"none", "nil", "err"}]
      /\ startedChs \in SUBSET Components
  BY DEF TypeInv, StateTypes
<1>1. CASE AwaitDependencies(c) \/ SleepRetryDelay(c) \/ AttemptFails(c) \/ PublishFailure(c)
           \/ MarkGaveUp(c) \/ AwaitRetry(c)
  <2>1. /\ rpc[c] \in Early /\ UNCHANGED <<startedChs, events, sup>>
        /\ \A p \in Components \ {c} : ret'[p] = ret[p]
        /\ \E place \in Early \cup {"gaveUp", "done"} : rpc' = [rpc EXCEPT ![c] = place]
    BY <1>0, <1>1 DEF AwaitDependencies, SleepRetryDelay, BeginAttempt, AttemptFails,
                      PublishFailure, MarkGaveUp, AwaitRetry, Early
  <2> QED BY <2>1, EarlyMove
<1>2. CASE MarkStarted(c)
  <2>1. /\ rpc[c] = "attempt" /\ rpc' = [rpc EXCEPT ![c] = "announcing"]
        /\ startedChs' = startedChs \cup {c} /\ UNCHANGED <<ret, events, sup>>
    BY <1>2 DEF MarkStarted
  <2>2. \A p, k, x : Pending(p, k, x)' <=> Pending(p, k, x)
    BY <2>1, PendingKept
  <2> QED BY <1>0, <2>1, <2>2 DEF EventInv, StartTold, FailureTold, ExitTold, Up
<1>3. CASE AnnounceStarted(c)
  <2>1. /\ rpc[c] = "announcing" /\ rpc' = [rpc EXCEPT ![c] = "driving"]
        /\ UNCHANGED <<startedChs, ret, sup>>
    BY <1>3 DEF AnnounceStarted
  <2>2. \A p, k, x : Pending(p, k, x)' <=> Pending(p, k, x) \/ (p = c /\ k = "started" /\ x = FALSE)
    BY <1>3, PendingEmit DEF AnnounceStarted
  <2> QED BY <1>0, <2>1, <2>2 DEF EventInv, StartTold, FailureTold, ExitTold, Up
<1>4. CASE DrivePeers(c)
  <2>1. /\ rpc[c] = "driving" /\ UNCHANGED <<startedChs, ret, sup, events>>
        /\ \E place \in {"driving", "running"} : rpc' = [rpc EXCEPT ![c] = place]
    BY <1>0, <1>4 DEF DrivePeers
  <2>2. \A p, k, x : Pending(p, k, x)' <=> Pending(p, k, x)
    BY <2>1, PendingKept
  <2>3. SUFFICES ASSUME NEW d \in Components PROVE StartTold(d)' /\ FailureTold(d)' /\ ExitTold(d)'
    BY DEF EventInv
  <2>4. StartTold(d) /\ FailureTold(d) /\ ExitTold(d)
    BY DEF EventInv
  <2>5. rpc'[d] = rpc[d] \/ (d = c /\ rpc[d] = "driving" /\ rpc'[d] \in {"driving", "running"})
    BY <1>0, <2>1
  <2>6. StartTold(d)'
    BY <2>1, <2>2, <2>4, <2>5 DEF StartTold, Up
  <2>7. FailureTold(d)'
    BY <2>1, <2>2, <2>4, <2>5 DEF FailureTold
  <2>8. ExitTold(d)'
    BY <2>1, <2>2, <2>4, <2>5 DEF ExitTold
  <2> QED BY <2>6, <2>7, <2>8
<1>5. CASE ComponentExits(c)
  <2>1. /\ rpc[c] = "running" /\ rpc' = [rpc EXCEPT ![c] = "done"]
        /\ UNCHANGED <<startedChs, ret, sup>>
    BY <1>5 DEF ComponentExits
  <2>2. \A p, k, x : Pending(p, k, x)' <=>
          Pending(p, k, x) \/ (p = c /\ k = "exited" /\ x = (ret[c] = "err"))
    <3>1. PICK err \in BOOLEAN : err = (ret[c] = "err")
      OBVIOUS
    <3>2. Emit(c, "exited", err)
      BY <1>5, <3>1 DEF ComponentExits
    <3>3. \A p, k, x : Pending(p, k, x)' <=> Pending(p, k, x) \/ (p = c /\ k = "exited" /\ x = err)
      BY <3>2, PendingEmit
    <3> QED BY <3>1, <3>3
  <2> QED BY <1>0, <2>1, <2>2 DEF EventInv, StartTold, FailureTold, ExitTold, Up
<1>6. CASE AnnounceGaveUp(c)
  <2>1. /\ rpc[c] = "gaveUp" /\ rpc' = [rpc EXCEPT ![c] = "aborting"]
        /\ UNCHANGED <<startedChs, ret, sup>>
    BY <1>6 DEF AnnounceGaveUp
  <2>2. \A p, k, x : Pending(p, k, x)' <=> Pending(p, k, x) \/ (p = c /\ k = "gaveUp" /\ x = TRUE)
    BY <1>6, PendingEmit DEF AnnounceGaveUp
  <2> QED BY <1>0, <2>1, <2>2 DEF EventInv, StartTold, FailureTold, ExitTold, Up
<1>7. CASE RunnerAborts(c)
  <2>1. /\ rpc[c] = "aborting" /\ rpc' = [rpc EXCEPT ![c] = "done"]
        /\ UNCHANGED <<startedChs, ret, sup>>
    BY <1>7 DEF RunnerAborts
  <2>2. \A p, k, x : k # "aborted" => (Pending(p, k, x)' <=> Pending(p, k, x))
    <3>1. Abort(c)
      BY <1>7 DEF RunnerAborts
    <3> QED BY <3>1, AbortPending
  <2>3. SUFFICES ASSUME NEW d \in Components PROVE StartTold(d)' /\ FailureTold(d)' /\ ExitTold(d)'
    BY DEF EventInv
  <2>4. StartTold(d) /\ FailureTold(d) /\ ExitTold(d)
    BY DEF EventInv
  <2>5. rpc'[d] = rpc[d] \/ (d = c /\ rpc[d] = "aborting" /\ rpc'[d] = "done")
    BY <1>0, <2>1
  <2>6. StartTold(d)'
    BY <2>1, <2>2, <2>4, <2>5 DEF StartTold, Up
  <2>7. FailureTold(d)'
    BY <2>1, <2>2, <2>4, <2>5 DEF FailureTold
  <2>8. ExitTold(d)'
    <3>1. d \in startedChs => rpc'[d] = rpc[d]
      BY <2>4, <2>5 DEF StartTold, Up
    <3>2. \A x : Pending(d, "exited", x)' <=> Pending(d, "exited", x)
      BY <2>2
    <3> QED BY <2>1, <2>4, <3>1, <3>2 DEF ExitTold
  <2> QED BY <2>6, <2>7, <2>8
<1> QED BY <1>1, <1>2, <1>3, <1>4, <1>5, <1>6, <1>7 DEF RunnerStep

\* Run, coordinate and the end of the run.
LEMMA OtherEvents ==
  ASSUME TypeInv, EventInv, UNCHANGED <<rpc, startedChs, sup>>,
         \A c \in Components : rpc[c] = "done" => ret'[c] = ret[c],
         \A c, k, x : k # "aborted" => (Pending(c, k, x)' <=> Pending(c, k, x))
  PROVE  EventInv'
BY ZenonT(30) DEF EventInv, StartTold, FailureTold, ExitTold, Up

LEMMA SuperviseEvents ==
  ASSUME TypeInv, EventInv, Supervise
  PROVE  EventInv'
<1> DEFINE e == Head(events)
<1>1. /\ events # <<>> /\ events' = Tail(events)
      /\ rpc' = rpc /\ startedChs' = startedChs /\ ret' = ret
  BY DEF Supervise, runVars
<1>2. e \in Event
  BY <1>1, EventTaken
<1>3. e.component \in Components /\ e.err \in BOOLEAN
      /\ e = [component |-> e.component, kind |-> e.kind, err |-> e.err]
  BY <1>2 DEF Event
<1>4. /\ \A c, k, x : Pending(c, k, x)' => Pending(c, k, x)
      /\ \A c, k, x : Pending(c, k, x) =>
            Pending(c, k, x)' \/ e = [component |-> c, kind |-> k, err |-> x]
      /\ Pending(e.component, e.kind, e.err)
  BY <1>1, PendingTaken
<1>5. \A c, k, x : e = [component |-> c, kind |-> k, err |-> x] =>
                     c = e.component /\ k = e.kind /\ x = e.err
  OBVIOUS
<1>6. sup \in [started : SUBSET Components, failed : SUBSET Components,
               daemonFatal : BOOLEAN, ptyErr : {"none", "nil", "err"},
               exit : {"none", "ok", "startupFailed", "runFailed", "ptyFailed"}]
  BY DEF TypeInv, StateTypes
<1>7. \/ e.kind = "started" /\ sup' = [sup EXCEPT !.started = @ \cup {e.component}]
      \/ e.kind = "gaveUp" /\ sup' = [sup EXCEPT !.failed = @ \cup ({e.component} \ sup.started)]
      \/ e.kind = "aborted" /\ sup' = sup
      \/ e.kind = "exited" /\ e.component = "pty"
           /\ sup' = [sup EXCEPT !.ptyErr = IF e.err THEN "err" ELSE "nil"]
      \/ e.kind = "exited" /\ e.component # "pty"
           /\ sup' = [sup EXCEPT !.daemonFatal = @ \/ e.err]
  BY DEF Supervise, HandleExit
<1> HIDE DEF e
<1> DEFINE told == e.component
<1>8. \A c, k, x : Pending(c, k, x) => Pending(c, k, x)' \/ (c = told /\ k = e.kind /\ x = e.err)
  BY <1>4, <1>5
<1>9. \A c \in Components : StartTold(c) /\ FailureTold(c) /\ ExitTold(c)
  BY DEF EventInv
<1>10. ASSUME NEW c \in Components PROVE StartTold(c)'
  <2>1. /\ c \in sup'.started => c \in sup.started \/ (c = told /\ e.kind = "started")
        /\ c \in sup.started \/ (c = told /\ e.kind = "started") => c \in sup'.started
    BY <1>6, <1>7
  <2>2. c = told /\ e.kind = "started" => c \in startedChs
    BY <1>3, <1>4, <1>9 DEF StartTold
  <2> QED BY <1>1, <1>4, <1>8, <1>9, <2>1, <2>2 DEF StartTold
<1>11. ASSUME NEW c \in Components PROVE FailureTold(c)'
  <2>1. /\ c \in sup'.failed => c \in sup.failed \/ (c = told /\ e.kind = "gaveUp")
        /\ sup'.exit = sup.exit
    BY <1>6, <1>7
  <2>2. c = told /\ e.kind = "gaveUp" => c \notin startedChs /\ rpc[c] \in {"aborting", "done"}
    BY <1>3, <1>4, <1>9 DEF FailureTold
  <2> QED BY <1>1, <1>4, <1>9, <2>1, <2>2 DEF FailureTold
<1>12. ASSUME NEW c \in Components PROVE ExitTold(c)'
  <2>1. ASSUME c \in startedChs, rpc[c] = "done", ret[c] = "err",
               ~(IF c = "pty" THEN sup'.ptyErr = "err" ELSE sup'.daemonFatal)
        PROVE  Pending(c, "exited", TRUE)'
    <3>1. c = told /\ e.kind = "exited" => e.err = TRUE
      BY <1>3, <1>4, <1>9, <2>1 DEF ExitTold
    <3>2. ~(IF c = "pty" THEN sup.ptyErr = "err" ELSE sup.daemonFatal)
      <4>1. CASE c = "pty"
        BY <1>6, <1>7, <2>1, <3>1, <4>1
      <4>2. CASE c # "pty"
        BY <1>6, <1>7, <2>1, <4>2
      <4> QED BY <4>1, <4>2
    <3>3. Pending(c, "exited", TRUE)
      BY <1>9, <2>1, <3>2 DEF ExitTold
    <3>4. ~(c = told /\ e.kind = "exited")
      <4>1. CASE c = "pty"
        BY <1>6, <1>7, <2>1, <3>1, <4>1
      <4>2. CASE c # "pty"
        BY <1>6, <1>7, <2>1, <3>1, <4>2
      <4> QED BY <4>1, <4>2
    <3> QED BY <1>8, <3>3, <3>4
  <2> QED BY <1>1, <1>4, <1>9, <2>1 DEF ExitTold
<1> QED BY <1>10, <1>11, <1>12 DEF EventInv

\* finish: what the supervisor has been told by the end is what has happened.
LEMMA FinishEvents ==
  ASSUME TypeInv, EventInv, Finish
  PROVE  EventInv'
<1>1. /\ rpc' = rpc /\ startedChs' = startedChs /\ ret' = ret /\ events' = events
      /\ \A c, k, x : Pending(c, k, x)' <=> Pending(c, k, x)
  BY PendingKept DEF Finish, runVars
<1>2. /\ sup'.started = sup.started /\ sup'.ptyErr = sup.ptyErr
      /\ sup'.daemonFatal = sup.daemonFatal /\ sup'.exit # "none"
  BY DEF TypeInv, StateTypes, Finish
<1>3. ASSUME NEW c \in Components PROVE StartTold(c)' /\ FailureTold(c)' /\ ExitTold(c)'
  BY <1>1, <1>2 DEF EventInv, StartTold, FailureTold, ExitTold
<1> QED BY <1>3 DEF EventInv

LEMMA NextEvents ==
  ASSUME TypeInv, EventInv, [Next]_vars
  PROVE  EventInv'
<1>1. CASE UNCHANGED vars
  <2>1. UNCHANGED <<rpc, startedChs, sup, ret, events>>
    BY <1>1 DEF vars, runVars
  <2> QED BY <2>1, PendingKept, OtherEvents
<1>2. ASSUME NEW c \in Components, RunReady(c) \/ \E e \in {"nil", "err"} : RunReturns(c, e)
      PROVE  EventInv'
  <2>1. UNCHANGED <<rpc, startedChs, sup, events>>
    BY <1>2 DEF RunReady, RunReturns
  <2>2. \A p \in Components : rpc[p] = "done" => ret'[p] = ret[p]
    BY <1>2 DEF RunReady, RunReturns, TypeInv, StateTypes
  <2> QED BY <2>1, <2>2, PendingKept, OtherEvents
<1>3. CASE CoordinatorAborts
  <2>1. UNCHANGED <<rpc, startedChs, sup, ret>> /\ Abort(decision.to)
    BY <1>3 DEF CoordinatorAborts, runVars
  <2>2. decision.to \in Components
    BY DEF TypeInv, StateTypes, Retry
  <2>3. \A c, k, x : k # "aborted" => (Pending(c, k, x)' <=> Pending(c, k, x))
    BY <2>1, <2>2, AbortPending
  <2> QED BY <2>1, <2>3, OtherEvents
<1>4. CASE TakeFailure \/ PublishRetry \/ TakeOverflow \/ CoordinatorEnds \/ LastCancels
           \/ CloseEvents \/ ShutdownSignal
  <2>1. UNCHANGED <<rpc, startedChs, sup, ret, events>>
    BY <1>4 DEF TakeFailure, PublishRetry, TakeOverflow, CoordinatorEnds, LastCancels,
                CloseEvents, ShutdownSignal, runVars
  <2> QED BY <2>1, PendingKept, OtherEvents
<1> QED BY <1>1, <1>2, <1>3, <1>4, RunnerEvents, SuperviseEvents, FinishEvents
        DEF Next, CoordinatorStep

\* The exit is the last thing.
ExitInv == (sup.exit # "none" => closed /\ events = <<>>) /\ TruthfulExit

\* The components of the program.
TwoComponents == Components = {"daemon", "pty"}

LEMMA FinishTruthful ==
  ASSUME TwoComponents, TypeInv, CloseInv, EventInv, Finish
  PROVE  ExitInv'
<1> DEFINE failed == sup.failed \cup ({"daemon", "pty"} \ sup.started)
<1>1. /\ closed /\ events = <<>> /\ sup.exit = "none"
      /\ closed' = closed /\ events' = events /\ startedChs' = startedChs /\ ret' = ret
      /\ \A c \in Components : rpc[c] = "done"
  BY DEF Finish, CloseInv, AllDone, runVars
<1>2. sup'.exit = IF failed # {} THEN "startupFailed"
                  ELSE IF sup.daemonFatal THEN "runFailed"
                  ELSE IF sup.ptyErr = "err" THEN "ptyFailed" ELSE "ok"
  BY DEF Finish, TypeInv, StateTypes
<1>3. \A c, k, x : ~Pending(c, k, x)
  BY <1>1 DEF Pending
<1>4. ASSUME NEW c \in Components
      PROVE  /\ c \in sup.started <=> c \in startedChs
             /\ c \in sup.failed => c \notin startedChs
             /\ c \in startedChs /\ ret[c] = "err" =>
                  IF c = "pty" THEN sup.ptyErr = "err" ELSE sup.daemonFatal
  BY <1>1, <1>3 DEF EventInv, StartTold, FailureTold, ExitTold
<1>5. sup.failed \in SUBSET Components /\ Components = {"daemon", "pty"}
  BY DEF TypeInv, StateTypes, TwoComponents
<1>6. failed = {} <=> {"daemon", "pty"} \subseteq startedChs
  BY <1>4, <1>5
<1> HIDE DEF failed
<1>7. sup'.exit = "startupFailed" <=> ~({"daemon", "pty"} \subseteq startedChs)
  BY <1>2, <1>6
<1>8. sup'.exit = "ok" => ret["daemon"] # "err" /\ ret["pty"] # "err"
  <2>1. sup'.exit = "ok" => failed = {} /\ ~sup.daemonFatal /\ sup.ptyErr # "err"
    BY <1>2
  <2>2. "daemon" \in Components /\ "pty" \in Components
    BY <1>5
  <2> QED BY <1>4, <1>6, <2>1, <2>2
<1> QED BY <1>1, <1>7, <1>8 DEF ExitInv, TruthfulExit

LEMMA NextExit ==
  ASSUME TwoComponents, TypeInv, CloseInv, EventInv, ExitInv, [Next]_vars
  PROVE  ExitInv'
<1>1. CASE UNCHANGED vars
  BY <1>1 DEF vars, runVars, ExitInv, TruthfulExit
<1>2. CASE Finish
  BY <1>2, FinishTruthful
<1>3. CASE sup.exit # "none" /\ Next
  <2>1. Supervise \/ Finish
    BY <1>3, ClosedIsClosed DEF ExitInv
  <2> QED BY <1>3, <2>1 DEF ExitInv, Supervise, Finish
<1>4. CASE sup.exit = "none" /\ ~Finish /\ Next
  <2>1. CASE Supervise
    <3>1. sup'.exit = sup.exit
      BY <2>1 DEF Supervise, HandleExit, TypeInv, StateTypes
    <3> QED BY <1>4, <3>1 DEF ExitInv, TruthfulExit
  <2>2. CASE ~Supervise
    <3>1. sup' = sup
      BY <1>4, <2>2 DEF Next, RunnerStep, AwaitDependencies, MarkStarted, AnnounceStarted,
         DrivePeers, ComponentExits, AttemptFails, PublishFailure, MarkGaveUp, AnnounceGaveUp,
         RunnerAborts, AwaitRetry, SleepRetryDelay, RunReady, RunReturns, CoordinatorStep,
         TakeFailure, PublishRetry, TakeOverflow, CoordinatorAborts, CoordinatorEnds, LastCancels,
         CloseEvents, ShutdownSignal
    <3> QED BY <1>4, <3>1 DEF ExitInv, TruthfulExit
  <2> QED BY <2>1, <2>2
<1> QED BY <1>1, <1>2, <1>3, <1>4

\* supervise: the exit of the process, for its two components: a failed startup is reported
\* exactly when one of them has never started, and success only when neither has failed.
THEOREM StartupTruthfulExit ==
  ASSUME TwoComponents
  PROVE  Spec => []TruthfulExit
<1> DEFINE I == TypeInv /\ CloseInv /\ EventInv /\ ExitInv
<1>1. Init => I
  <2> SUFFICES ASSUME Init PROVE I
    OBVIOUS
  <2>1. TypeInv
    BY InitTypeInv
  <2>2. CloseInv /\ ExitInv
    BY DEF Init, CloseInv, ExitInv, TruthfulExit
  <2>3. \A c, k, x : ~Pending(c, k, x)
    BY DEF Init, Pending
  <2>4. EventInv
    BY <2>3 DEF Init, EventInv, StartTold, FailureTold, ExitTold, Up
  <2> QED BY <2>1, <2>2, <2>4
<1>2. I /\ [Next]_vars => I'
  BY NextType, NextClose, NextEvents, NextExit
<1>3. I => TruthfulExit
  BY DEF ExitInv
<1> HIDE DEF I
<1> QED BY <1>1, <1>2, <1>3, PTL DEF Spec

-----------------------------------------------------------------------------
(* Failures and their retries, for the two components of the program *)

\* A failure on its way to coordinate ...
InFailCh(c) == \E i \in 1..Len(failCh) : failCh[i].component = c
\* ... a retry it has decided on ...
Publishing(c) == cpc = "publish" /\ decision.to = c
\* ... one that a peer that has started owes ...
Owed(c) == \E p \in Components : \E f \in driving[p] : f.component = c
\* ... and one that has been requested.
InRetryCh(c) == retryChs[c] # <<>>

\* After a failed attempt, and before the next.
Down == {"awaitRetry", "givingUp", "gaveUp", "aborting", "done"}

\* Who starts c's next attempt before c has started: a peer that is up, or c itself, for
\* one that waits for it and has not begun.
Driven(c) == \E p \in Components \ {c} : p \in startedChs \/ (c \in deps[p] /\ attempt[p] = 0)

\* One failure leads to one retry: there is one thing on its way ...
OneToken(c) ==
  /\ ~(InFailCh(c) /\ Publishing(c)) /\ ~(InFailCh(c) /\ Owed(c)) /\ ~(InFailCh(c) /\ InRetryCh(c))
  /\ ~(Publishing(c) /\ Owed(c)) /\ ~(Publishing(c) /\ InRetryCh(c)) /\ ~(Owed(c) /\ InRetryCh(c))
  /\ InFailCh(c) \/ Publishing(c) \/ Owed(c) \/ InRetryCh(c) => rpc[c] \in Down /\ c \notin startedChs

\* ... and it is for the last attempt.
TokenValue(c) ==
  /\ \A i \in 1..Len(failCh) : failCh[i].component = c =>
       failCh[i].attempt = attempt[c] /\ \A j \in 1..Len(failCh) : failCh[j].component = c => i = j
  /\ Publishing(c) => decision.attempt = attempt[c]
  /\ \A p \in Components : \A f \in driving[p] : f.component = c => f.attempt = attempt[c] /\ p # c
  /\ InRetryCh(c) => retryChs[c] = <<attempt[c] + 1>>

\* Only a retry that has a driver is on its way or has been made.
HasDriver(c) ==
  Publishing(c) \/ Owed(c) \/ InRetryCh(c) \/ rpc[c] = "delay" \/ attempt[c] > 1 =>
    c \in startedChs \/ Driven(c)

\* What coordinate knows of a component, and what it is doing.
PhaseTrue(c) ==
  /\ phase[c] = "started" <=> c \in startedChs
  /\ c \in startedChs => rpc[c] \in Up \cup {"done"}
  /\ rpc[c] \in Up => c \in startedChs
  /\ phase[c] = "gaveUp" => rpc[c] \in {"gaveUp", "aborting", "done"}
  /\ rpc[c] \in {"givingUp", "gaveUp", "aborting"} => attempt[c] = MaxAttempts
  /\ attempt[c] > 0 => deps[c] \subseteq startedChs
  /\ lastFailure[c] =< attempt[c]
  /\ attempt[c] > 0 /\ lastFailure[c] = attempt[c] => ~InFailCh(c) /\ rpc[c] \in Down \cup {"delay"}

\* When coordinate aborts, nobody is up or will be.
DeadEnd ==
  cpc = "abort" =>
    \A c \in Components : /\ rpc[c] \in Down /\ c \notin startedChs
                          /\ rpc[c] = "awaitRetry" => ~InRetryCh(c)

RetryOf(c) == OneToken(c) /\ TokenValue(c) /\ HasDriver(c) /\ PhaseTrue(c)

RetryInv == DeadEnd /\ \A c \in Components : RetryOf(c)

\* Steps that have nothing to do with it.
LEMMA RetryUntouched ==
  ASSUME RetryInv, UNCHANGED <<failCh, retryChs, cpc, decision, driving, rpc, startedChs, attempt,
                               deps, phase, lastFailure>>
  PROVE  RetryInv'
<1>1. ASSUME NEW c \in Components
      PROVE  /\ InFailCh(c)' <=> InFailCh(c)
             /\ Publishing(c)' <=> Publishing(c)
             /\ Owed(c)' <=> Owed(c)
             /\ InRetryCh(c)' <=> InRetryCh(c)
             /\ Driven(c)' <=> Driven(c)
  BY DEF InFailCh, Publishing, Owed, InRetryCh, Driven
<1>2. ASSUME NEW c \in Components PROVE RetryOf(c)'
  <2>1. OneToken(c)' /\ HasDriver(c)' /\ PhaseTrue(c)'
    BY <1>1 DEF RetryInv, RetryOf, OneToken, HasDriver, PhaseTrue
  <2>2. TokenValue(c)'
    BY <1>1 DEF RetryInv, RetryOf, TokenValue
  <2> QED BY <2>1, <2>2 DEF RetryOf
<1>3. DeadEnd'
  BY <1>1 DEF RetryInv, DeadEnd
<1> QED BY <1>2, <1>3 DEF RetryInv

\* A runner that goes on without an attempt, a failure or a retry.
LEMMA MoveKeepsRetries ==
  ASSUME TypeInv, RetryInv, NEW c \in Components, NEW place \in Places \ {"delay", "awaitRetry"},
         rpc' = [rpc EXCEPT ![c] = place],
         UNCHANGED <<failCh, retryChs, cpc, decision, driving, startedChs, attempt, deps, phase,
                     lastFailure>>,
         rpc[c] \in Down \cup {"delay"} => place \in Down,
         c \in startedChs => place \in Up \cup {"done"},
         place \in Up => c \in startedChs,
         phase[c] = "gaveUp" => place \in {"gaveUp", "aborting", "done"},
         place \in {"givingUp", "gaveUp", "aborting"} => attempt[c] = MaxAttempts
  PROVE  RetryInv'
<1>1. ASSUME NEW p \in Components
      PROVE  /\ InFailCh(p)' <=> InFailCh(p)
             /\ Publishing(p)' <=> Publishing(p)
             /\ Owed(p)' <=> Owed(p)
             /\ InRetryCh(p)' <=> InRetryCh(p)
             /\ Driven(p)' <=> Driven(p)
  BY DEF InFailCh, Publishing, Owed, InRetryCh, Driven
<1>2. rpc'[c] = place /\ \A p \in Components \ {c} : rpc'[p] = rpc[p]
  BY DEF TypeInv, StateTypes
<1>3. ASSUME NEW p \in Components PROVE RetryOf(p)'
  <2>1. OneToken(p)'
    BY <1>1, <1>2 DEF RetryInv, RetryOf, OneToken
  <2>2. TokenValue(p)'
    BY <1>1 DEF RetryInv, RetryOf, TokenValue
  <2>3. HasDriver(p)'
    BY <1>1, <1>2 DEF RetryInv, RetryOf, HasDriver
  <2>4. PhaseTrue(p)'
    BY <1>1, <1>2 DEF RetryInv, RetryOf, PhaseTrue
  <2> QED BY <2>1, <2>2, <2>3, <2>4 DEF RetryOf
<1>4. DeadEnd'
  BY <1>1, <1>2 DEF RetryInv, DeadEnd
<1> QED BY <1>3, <1>4 DEF RetryInv

LEMMA MarkGaveUpRetries ==
  ASSUME TypeInv, RetryInv, NEW c \in Components, MarkGaveUp(c)
  PROVE  RetryInv'
<1>1. /\ rpc[c] = "givingUp"
      /\ UNCHANGED <<failCh, retryChs, cpc, decision, driving, startedChs, attempt, deps,
                     lastFailure>>
  BY DEF MarkGaveUp, busVars, coordVars, runVars
<1>2. /\ rpc'[c] = "gaveUp" /\ phase'[c] = "gaveUp"
      /\ \A p \in Components \ {c} : rpc'[p] = rpc[p] /\ phase'[p] = phase[p]
  BY DEF MarkGaveUp, Goto, TypeInv, StateTypes
<1>3. ASSUME NEW p \in Components
      PROVE  /\ InFailCh(p)' <=> InFailCh(p)
             /\ Publishing(p)' <=> Publishing(p)
             /\ Owed(p)' <=> Owed(p)
             /\ InRetryCh(p)' <=> InRetryCh(p)
             /\ Driven(p)' <=> Driven(p)
  BY <1>1 DEF InFailCh, Publishing, Owed, InRetryCh, Driven
<1>4. ASSUME NEW p \in Components PROVE RetryOf(p)'
  <2>1. OneToken(p)'
    BY <1>1, <1>2, <1>3 DEF RetryInv, RetryOf, OneToken, Down
  <2>2. TokenValue(p)'
    BY <1>1, <1>3 DEF RetryInv, RetryOf, TokenValue
  <2>3. HasDriver(p)'
    BY <1>1, <1>2, <1>3 DEF RetryInv, RetryOf, HasDriver
  <2>4. PhaseTrue(p)'
    BY <1>1, <1>2, <1>3 DEF RetryInv, RetryOf, PhaseTrue, Down, Up
  <2> QED BY <2>1, <2>2, <2>3, <2>4 DEF RetryOf
<1>5. DeadEnd'
  BY <1>1, <1>2, <1>3 DEF RetryInv, DeadEnd, Down
<1> QED BY <1>4, <1>5 DEF RetryInv

\* The next attempt: of those who wait for c none has begun, unless c has started.
LEMMA BeginAttemptRetries ==
  ASSUME TypeInv, RetryInv, NEW c \in Components, BeginAttempt(c),
         rpc[c] \in {"deps", "delay"}, rpc[c] = "deps" => deps[c] \subseteq startedChs,
         UNCHANGED <<failCh, retryChs, cpc, decision, driving, startedChs, deps, phase, lastFailure>>
  PROVE  RetryInv'
<1>1. /\ rpc'[c] = "attempt" /\ attempt'[c] = attempt[c] + 1
      /\ \A p \in Components \ {c} : rpc'[p] = rpc[p] /\ attempt'[p] = attempt[p]
  BY DEF BeginAttempt, Goto, TypeInv, StateTypes
<1>2. /\ rpc[c] = "deps" <=> attempt[c] = 0
      /\ \A p \in Components : attempt[p] \in Nat /\ lastFailure[p] \in Nat
  BY Bounds DEF TypeInv, StateTypes, AttemptInv
<1>3. c \notin startedChs /\ (attempt[c] > 0 => deps[c] \subseteq startedChs)
      /\ lastFailure[c] =< attempt[c]
  BY DEF RetryInv, RetryOf, PhaseTrue, Up
<1>4. ~InFailCh(c) /\ ~Publishing(c) /\ ~Owed(c) /\ ~InRetryCh(c)
  BY DEF RetryInv, RetryOf, OneToken, Down
<1>5. ASSUME NEW p \in Components
      PROVE  /\ InFailCh(p)' <=> InFailCh(p)
             /\ Publishing(p)' <=> Publishing(p)
             /\ Owed(p)' <=> Owed(p)
             /\ InRetryCh(p)' <=> InRetryCh(p)
  BY DEF InFailCh, Publishing, Owed, InRetryCh
<1>6. ASSUME NEW p \in Components, Driven(p) PROVE p \in startedChs \/ Driven(p)'
  <2>1. PICK q \in Components \ {p} : q \in startedChs \/ (p \in deps[q] /\ attempt[q] = 0)
    BY <1>6 DEF Driven
  <2>2. CASE q = c
    BY <1>2, <1>3, <2>1, <2>2
  <2>3. CASE q # c
    BY <1>1, <2>1, <2>3 DEF Driven
  <2> QED BY <2>2, <2>3
<1>7. ASSUME NEW p \in Components PROVE RetryOf(p)'
  <2>1. OneToken(p)'
    BY <1>1, <1>4, <1>5, <1>7 DEF RetryInv, RetryOf, OneToken
  <2>2. TokenValue(p)'
    <3>1. CASE p = c
      BY <1>4, <1>5, <3>1 DEF TokenValue, InFailCh, Owed
    <3>2. CASE p # c
      BY <1>1, <1>5, <3>2 DEF RetryInv, RetryOf, TokenValue
    <3> QED BY <3>1, <3>2
  <2>3. HasDriver(p)'
    <3>1. CASE p = c
      <4>1. attempt'[c] > 1 => rpc[c] = "delay"
        BY <1>1, <1>2
      <4>2. rpc[c] = "delay" => Driven(c)
        BY <1>3 DEF RetryInv, RetryOf, HasDriver
      <4> QED BY <1>1, <1>4, <1>5, <1>6, <3>1, <4>1, <4>2 DEF HasDriver
    <3>2. CASE p # c
      BY <1>1, <1>5, <1>6, <3>2 DEF RetryInv, RetryOf, HasDriver
    <3> QED BY <3>1, <3>2
  <2>4. PhaseTrue(p)'
    <3>1. CASE p = c
      BY <1>1, <1>2, <1>3, <3>1 DEF RetryInv, RetryOf, PhaseTrue, Up
    <3>2. CASE p # c
      BY <1>1, <1>5, <3>2 DEF RetryInv, RetryOf, PhaseTrue
    <3> QED BY <3>1, <3>2
  <2> QED BY <2>1, <2>2, <2>3, <2>4 DEF RetryOf
<1>8. DeadEnd'
  BY <1>1, <1>5 DEF RetryInv, DeadEnd, Down
<1> QED BY <1>7, <1>8 DEF RetryInv

\* markStarted: what it owes its peer is the retry of an attempt nobody else has seen to.
LEMMA MarkStartedRetries ==
  ASSUME TwoComponents, TypeInv, RetryInv, NEW c \in Components, MarkStarted(c)
  PROVE  RetryInv'
<1>1. /\ rpc[c] = "attempt" /\ startedChs' = startedChs \cup {c}
      /\ UNCHANGED <<failCh, retryChs, cpc, decision, attempt, deps, lastFailure>>
  BY DEF MarkStarted, busVars, coordVars, runVars
<1>2. /\ rpc'[c] = "announcing" /\ phase'[c] = "started" /\ driving'[c] = PendingPeerFailures(c)
      /\ \A p \in Components \ {c} :
            rpc'[p] = rpc[p] /\ phase'[p] = phase[p] /\ driving'[p] = driving[p]
  BY DEF MarkStarted, Goto, TypeInv, StateTypes
<1>3. c \notin startedChs /\ attempt[c] > 0 /\ deps[c] \subseteq startedChs
      /\ ~InFailCh(c) /\ ~Publishing(c) /\ ~Owed(c) /\ ~InRetryCh(c)
      /\ lastFailure[c] # attempt[c]
  BY <1>1 DEF TypeInv, AttemptInv, RetryInv, RetryOf, OneToken, PhaseTrue, Down, Up
<1>4. ASSUME NEW p \in Components
      PROVE  /\ InFailCh(p)' <=> InFailCh(p)
             /\ Publishing(p)' <=> Publishing(p)
             /\ InRetryCh(p)' <=> InRetryCh(p)
             /\ Driven(p) => Driven(p)'
  BY <1>1 DEF InFailCh, Publishing, InRetryCh, Driven
<1>5. ASSUME NEW p \in Components, phase[p] = "waitingRetry", p # c
      PROVE  /\ ~InFailCh(p) /\ ~Publishing(p) /\ ~Owed(p) /\ ~InRetryCh(p)
             /\ lastFailure[p] = attempt[p] /\ rpc[p] \in Down /\ p \notin startedChs
  <2>1. p \notin startedChs
    BY <1>5 DEF RetryInv, RetryOf, PhaseTrue
  <2>2. ~Driven(p)
    <3>1. Components \ {p} = {c}
      BY <1>5 DEF TwoComponents
    <3> QED BY <1>3, <3>1 DEF Driven
  <2>3. ~Publishing(p) /\ ~Owed(p) /\ ~InRetryCh(p) /\ rpc[p] # "delay" /\ ~(attempt[p] > 1)
    BY <2>1, <2>2 DEF RetryInv, RetryOf, HasDriver
  <2>4. attempt[p] \in Nat /\ lastFailure[p] \in Nat /\ lastFailure[p] > 0
    BY <1>5, Bounds DEF TypeInv, StateTypes, AttemptInv
  <2>5. lastFailure[p] =< attempt[p]
    BY DEF RetryInv, RetryOf, PhaseTrue
  <2>6. lastFailure[p] = attempt[p] /\ attempt[p] > 0
    BY <2>3, <2>4, <2>5
  <2>7. ~InFailCh(p) /\ rpc[p] \in Down
    BY <2>3, <2>6 DEF RetryInv, RetryOf, PhaseTrue
  <2> QED BY <2>1, <2>3, <2>6, <2>7
<1>6. /\ \A p \in Components : Owed(p)' => Owed(p) \/ (phase[p] = "waitingRetry" /\ p # c)
      /\ \A f \in driving'[c] :
           /\ f.component \in Components \ {c} /\ phase[f.component] = "waitingRetry"
           /\ f.attempt = lastFailure[f.component]
  <2>1. \A f \in driving'[c] :
           /\ f.component \in Components \ {c} /\ phase[f.component] = "waitingRetry"
           /\ f.attempt = lastFailure[f.component]
    BY <1>2 DEF PendingPeerFailures
  <2> QED BY <1>2, <2>1 DEF Owed
<1>7. ASSUME NEW p \in Components PROVE RetryOf(p)'
  <2>1. OneToken(p)'
    <3>1. CASE p = c
      BY <1>3, <1>4, <1>6, <3>1 DEF OneToken
    <3>2. CASE p # c
      BY <1>1, <1>2, <1>4, <1>5, <1>6, <3>2 DEF RetryInv, RetryOf, OneToken
    <3> QED BY <3>1, <3>2
  <2>2. TokenValue(p)'
    <3>1. ASSUME NEW q \in Components, NEW f \in driving'[q], f.component = p
          PROVE  f.attempt = attempt[p] /\ q # p
      <4>1. CASE q = c
        BY <1>5, <1>6, <3>1, <4>1
      <4>2. CASE q # c
        BY <1>2, <3>1, <4>2 DEF RetryInv, RetryOf, TokenValue
      <4> QED BY <4>1, <4>2
    <3> QED BY <1>1, <1>4, <3>1 DEF RetryInv, RetryOf, TokenValue
  <2>3. HasDriver(p)'
    <3>1. CASE p = c
      BY <1>1, <3>1 DEF HasDriver
    <3>2. CASE p # c
      <4>1. Driven(p)'
        BY <1>1, <3>2 DEF Driven
      <4> QED BY <4>1 DEF HasDriver
    <3> QED BY <3>1, <3>2
  <2>4. PhaseTrue(p)'
    BY <1>1, <1>2, <1>3, <1>4 DEF RetryInv, RetryOf, PhaseTrue, Up
  <2> QED BY <2>1, <2>2, <2>3, <2>4 DEF RetryOf
<1>8. DeadEnd'
  BY <1>1 DEF RetryInv, DeadEnd, Down
<1> QED BY <1>7, <1>8 DEF RetryInv

\* publishRetry into an empty channel.
LEMMA RetryRequested ==
  ASSUME TypeInv, NEW c \in Components, ~InRetryCh(c), OnRetry(c, attempt[c] + 1)
  PROVE  /\ retryChs'[c] \in {<<>>, <<attempt[c] + 1>>}
         /\ \A p \in Components \ {c} : retryChs'[p] = retryChs[p]
         /\ failCh' = failCh
<1>1. retryChs[c] = <<>> /\ retryChs \in [Components -> Seq(1..MaxAttempts)]
  BY DEF InRetryCh, TypeInv, QueueTypes
<1>2. Append(<<>>, attempt[c] + 1) = <<attempt[c] + 1>>
  OBVIOUS
<1>3. CASE retryChs' = [retryChs EXCEPT ![c] = <<attempt[c] + 1>>]
  BY <1>1, <1>3 DEF OnRetry
<1>4. CASE retryChs' = retryChs
  BY <1>1, <1>4 DEF OnRetry
<1> QED BY <1>1, <1>2, <1>3, <1>4 DEF OnRetry

\* publishFailed: the attempt that has just failed, and nothing is on its way yet.
LEMMA PublishFailureRetries ==
  ASSUME TypeInv, RetryInv, NEW c \in Components, PublishFailure(c)
  PROVE  RetryInv'
<1>1. /\ rpc[c] = "failed" /\ OnFailed([component |-> c, attempt |-> attempt[c]])
      /\ UNCHANGED <<retryChs, cpc, decision, driving, startedChs, attempt, deps, phase, lastFailure>>
  BY DEF PublishFailure, OnFailed, coordVars, runVars
<1>2. /\ rpc'[c] = IF attempt[c] = MaxAttempts THEN "givingUp" ELSE "awaitRetry"
      /\ \A p \in Components \ {c} : rpc'[p] = rpc[p]
  BY DEF PublishFailure, Goto, TypeInv, StateTypes
<1>3. /\ ~InFailCh(c) /\ ~Publishing(c) /\ ~Owed(c) /\ ~InRetryCh(c) /\ c \notin startedChs
      /\ attempt[c] > 0 /\ lastFailure[c] # attempt[c] /\ phase[c] # "gaveUp"
  BY <1>1 DEF TypeInv, AttemptInv, RetryInv, RetryOf, OneToken, PhaseTrue, Down, Up
<1>4. ASSUME NEW p \in Components
      PROVE  /\ Publishing(p)' <=> Publishing(p)
             /\ Owed(p)' <=> Owed(p)
             /\ InRetryCh(p)' <=> InRetryCh(p)
             /\ Driven(p)' <=> Driven(p)
  BY <1>1 DEF Publishing, Owed, InRetryCh, Driven
<1>5. \/ failCh' = failCh
      \/ /\ Len(failCh) \in Nat /\ Len(failCh') = Len(failCh) + 1
         /\ failCh'[Len(failCh) + 1] = [component |-> c, attempt |-> attempt[c]]
         /\ \A i \in 1..Len(failCh) : failCh'[i] = failCh[i]
  <2>1. failCh \in Seq(Failure)
    BY DEF TypeInv, QueueTypes
  <2>2. [component |-> c, attempt |-> attempt[c]] \in Failure
    <3>1. attempt[c] \in 1..MaxAttempts
      BY <1>3, Bounds DEF TypeInv, StateTypes
    <3> QED BY <3>1 DEF Failure
  <2>3. failCh' = failCh \/ failCh' = Append(failCh, [component |-> c, attempt |-> attempt[c]])
    BY <1>1 DEF OnFailed
  <2> QED BY <2>1, <2>2, <2>3, AppendProperties
<1>6. \A p \in Components \ {c} : InFailCh(p)' <=> InFailCh(p)
  BY <1>5 DEF InFailCh
<1>7. ASSUME NEW p \in Components PROVE RetryOf(p)'
  <2>1. OneToken(p)'
    <3>1. CASE p = c
      BY <1>1, <1>2, <1>3, <1>4, <3>1 DEF OneToken, Down
    <3>2. CASE p # c
      BY <1>1, <1>2, <1>4, <1>6, <3>2 DEF RetryInv, RetryOf, OneToken
    <3> QED BY <3>1, <3>2
  <2>2. TokenValue(p)'
    <3>1. ASSUME NEW i \in 1..Len(failCh'), failCh'[i].component = p
          PROVE  /\ failCh'[i].attempt = attempt[p]
                 /\ \A j \in 1..Len(failCh') : failCh'[j].component = p => i = j
      <4>1. CASE failCh' = failCh
        BY <3>1, <4>1 DEF RetryInv, RetryOf, TokenValue
      <4>2. CASE failCh' # failCh /\ p = c
        BY <1>3, <1>5, <3>1, <4>2 DEF InFailCh
      <4>3. CASE failCh' # failCh /\ p # c
        BY <1>5, <3>1, <4>3 DEF RetryInv, RetryOf, TokenValue
      <4> QED BY <4>1, <4>2, <4>3
    <3> QED BY <1>1, <1>4, <3>1 DEF RetryInv, RetryOf, TokenValue
  <2>3. HasDriver(p)'
    BY <1>1, <1>2, <1>4 DEF RetryInv, RetryOf, HasDriver
  <2>4. PhaseTrue(p)'
    BY <1>1, <1>2, <1>3, <1>6 DEF RetryInv, RetryOf, PhaseTrue, Up
  <2> QED BY <2>1, <2>2, <2>3, <2>4 DEF RetryOf
<1>8. DeadEnd'
  BY <1>1 DEF RetryInv, DeadEnd, Down
<1> QED BY <1>7, <1>8 DEF RetryInv

\* A retry that was owed or decided on is requested: one token becomes another.
LEMMA RequestRetries ==
  ASSUME TypeInv, RetryInv, NEW c \in Components, Publishing(c) \/ Owed(c), attempt[c] < MaxAttempts,
         OnRetry(c, attempt[c] + 1), ~Publishing(c)', ~Owed(c)',
         \A p \in Components : \A f \in driving'[p] : f \in driving[p],
         \A p \in Components : Publishing(p)' => Publishing(p), cpc' # "abort",
         UNCHANGED <<decision, rpc, startedChs, attempt, deps, phase, lastFailure>>
  PROVE  RetryInv'
<1>1. ~InFailCh(c) /\ ~InRetryCh(c) /\ rpc[c] \in Down /\ c \notin startedChs /\ Driven(c)
  BY DEF RetryInv, RetryOf, OneToken, HasDriver
<1>2. /\ retryChs'[c] \in {<<>>, <<attempt[c] + 1>>}
      /\ \A p \in Components \ {c} : retryChs'[p] = retryChs[p]
      /\ failCh' = failCh
  BY <1>1, RetryRequested
<1>3. ASSUME NEW p \in Components
      PROVE  /\ InFailCh(p)' <=> InFailCh(p)
             /\ Owed(p)' => Owed(p)
             /\ p # c => (InRetryCh(p)' <=> InRetryCh(p))
             /\ Driven(p)' <=> Driven(p)
  BY <1>2 DEF InFailCh, Owed, InRetryCh, Driven
<1>4. ASSUME NEW p \in Components PROVE RetryOf(p)'
  <2>1. OneToken(p)'
    BY <1>1, <1>3 DEF RetryInv, RetryOf, OneToken
  <2>2. TokenValue(p)'
    BY <1>2, <1>3 DEF RetryInv, RetryOf, TokenValue, InRetryCh
  <2>3. HasDriver(p)'
    BY <1>1, <1>3 DEF RetryInv, RetryOf, HasDriver
  <2>4. PhaseTrue(p)'
    BY <1>3 DEF RetryInv, RetryOf, PhaseTrue
  <2> QED BY <2>1, <2>2, <2>3, <2>4 DEF RetryOf
<1> QED BY <1>4 DEF RetryInv, DeadEnd

\* One that is dropped, because there is no attempt left.
LEMMA ForgetRetries ==
  ASSUME TypeInv, RetryInv, NEW c \in Components,
         \A p \in Components : \A f \in driving'[p] : f \in driving[p],
         UNCHANGED <<failCh, retryChs, cpc, decision, rpc, startedChs, attempt, deps, phase,
                     lastFailure>>
  PROVE  RetryInv'
<1>1. ASSUME NEW p \in Components
      PROVE  /\ InFailCh(p)' <=> InFailCh(p)
             /\ Publishing(p)' <=> Publishing(p)
             /\ Owed(p)' => Owed(p)
             /\ InRetryCh(p)' <=> InRetryCh(p)
             /\ Driven(p)' <=> Driven(p)
  BY DEF InFailCh, Publishing, Owed, InRetryCh, Driven
<1>2. ASSUME NEW p \in Components PROVE RetryOf(p)'
  <2>1. OneToken(p)' /\ HasDriver(p)' /\ PhaseTrue(p)'
    BY <1>1 DEF RetryInv, RetryOf, OneToken, HasDriver, PhaseTrue
  <2>2. TokenValue(p)'
    BY <1>1 DEF RetryInv, RetryOf, TokenValue
  <2> QED BY <2>1, <2>2 DEF RetryOf
<1>3. DeadEnd'
  BY <1>1 DEF RetryInv, DeadEnd
<1> QED BY <1>2, <1>3 DEF RetryInv

\* waitRetry: the request is taken.
LEMMA TakeRetryRetries ==
  ASSUME TypeInv, RetryInv, NEW c \in Components, rpc[c] = "awaitRetry", InRetryCh(c),
         retryChs' = [retryChs EXCEPT ![c] = Tail(@)], Goto(c, "delay"),
         UNCHANGED <<failCh, cpc, decision, driving, startedChs, attempt, deps, phase, lastFailure>>
  PROVE  RetryInv'
<1>1. /\ ~InFailCh(c) /\ ~Publishing(c) /\ ~Owed(c) /\ c \notin startedChs /\ Driven(c)
      /\ retryChs[c] = <<attempt[c] + 1>> /\ cpc # "abort" /\ phase[c] # "gaveUp"
  BY DEF RetryInv, RetryOf, OneToken, TokenValue, HasDriver, PhaseTrue, DeadEnd
<1>2. retryChs'[c] = <<>> /\ \A p \in Components \ {c} : retryChs'[p] = retryChs[p]
  <2>1. Tail(<<attempt[c] + 1>>) = <<>>
    OBVIOUS
  <2> QED BY <1>1, <2>1 DEF TypeInv, QueueTypes
<1>3. rpc'[c] = "delay" /\ \A p \in Components \ {c} : rpc'[p] = rpc[p]
  BY DEF Goto, TypeInv, StateTypes
<1>4. ASSUME NEW p \in Components
      PROVE  /\ InFailCh(p)' <=> InFailCh(p)
             /\ Publishing(p)' <=> Publishing(p)
             /\ Owed(p)' <=> Owed(p)
             /\ Driven(p)' <=> Driven(p)
             /\ InRetryCh(p)' <=> InRetryCh(p) /\ p # c
  BY <1>2 DEF InFailCh, Publishing, Owed, InRetryCh, Driven
<1>5. ASSUME NEW p \in Components PROVE RetryOf(p)'
  <2>1. OneToken(p)'
    BY <1>1, <1>3, <1>4 DEF RetryInv, RetryOf, OneToken
  <2>2. TokenValue(p)'
    BY <1>2, <1>4 DEF RetryInv, RetryOf, TokenValue
  <2>3. HasDriver(p)'
    BY <1>1, <1>3, <1>4 DEF RetryInv, RetryOf, HasDriver
  <2>4. PhaseTrue(p)'
    BY <1>1, <1>3, <1>4 DEF RetryInv, RetryOf, PhaseTrue, Up
  <2> QED BY <2>1, <2>2, <2>3, <2>4 DEF RetryOf
<1> QED BY <1>1, <1>5 DEF RetryInv, DeadEnd

LEMMA RunnerRetries ==
  ASSUME TwoComponents, TypeInv, RetryInv, NEW c \in Components, RunnerStep(c)
  PROVE  RetryInv'
<1> USE DEF busVars, coordVars, runVars
<1>0. rpc \in [Components -> Places]
  BY DEF TypeInv, StateTypes
<1>1. CASE \/ AnnounceStarted(c) \/ ComponentExits(c) \/ AttemptFails(c)
           \/ AnnounceGaveUp(c) \/ RunnerAborts(c)
  <2>1. /\ UNCHANGED <<failCh, retryChs, cpc, decision, driving, startedChs, attempt, deps, phase,
                       lastFailure>>
        /\ \E place \in {"driving", "done", "failed", "aborting"} :
             /\ rpc' = [rpc EXCEPT ![c] = place]
             /\ rpc[c] \in Down => place \in {"aborting", "done"} /\ rpc[c] \in {"gaveUp", "aborting"}
             /\ rpc[c] \in Down \cup {"attempt"} \cup Up
             /\ rpc[c] \in Up => place \in {"driving", "done"}
             /\ rpc[c] = "attempt" => place \in {"failed", "done"}
    BY <1>1 DEF AnnounceStarted, ComponentExits, AttemptFails, AnnounceGaveUp, RunnerAborts, Goto,
                Down, Up
  <2>2. PhaseTrue(c)
    BY DEF RetryInv, RetryOf
  <2> QED BY <2>1, <2>2, MoveKeepsRetries DEF PhaseTrue, Places, Down, Up
<1>2. CASE AwaitDependencies(c) \/ SleepRetryDelay(c)
  <2>1. CASE BeginAttempt(c) /\ (rpc[c] = "deps" => deps[c] \subseteq startedChs)
    BY <1>2, <2>1, BeginAttemptRetries DEF AwaitDependencies, SleepRetryDelay
  <2>2. CASE Goto(c, "done") /\ UNCHANGED attempt
    <3>1. PhaseTrue(c)
      BY DEF RetryInv, RetryOf
    <3> QED BY <1>2, <2>2, <3>1, MoveKeepsRetries
            DEF AwaitDependencies, SleepRetryDelay, Goto, PhaseTrue, Places, Down, Up
  <2> QED BY <1>2, <2>1, <2>2 DEF AwaitDependencies, SleepRetryDelay
<1>3. CASE DrivePeers(c)
  <2>1. CASE Goto(c, "running") /\ UNCHANGED <<driving, busVars>>
    <3>1. PhaseTrue(c)
      BY DEF RetryInv, RetryOf
    <3> QED BY <1>3, <2>1, <3>1, MoveKeepsRetries DEF DrivePeers, Goto, PhaseTrue, Places, Down, Up
  <2>2. ASSUME NEW f \in driving[c], DriveRetry(f), driving' = [driving EXCEPT ![c] = @ \ {f}],
               UNCHANGED rpc
        PROVE  RetryInv'
    <3>1. f.component \in Components /\ driving \in [Components -> SUBSET Failure]
          /\ \A p \in Components : \A g \in driving[p] : g = [component |-> g.component, attempt |-> g.attempt]
      BY DEF TypeInv, StateTypes, Failure
    <3>2. \A p \in Components : \A g \in driving'[p] : g \in driving[p]
      BY <2>2, <3>1
    <3>3. UNCHANGED <<cpc, decision, startedChs, attempt, deps, phase, lastFailure>>
      BY <1>3 DEF DrivePeers
    <3>4. Owed(f.component) /\ f.attempt = attempt[f.component] /\ c # f.component
      BY <3>1 DEF Owed, RetryInv, RetryOf, TokenValue
    <3>5. ~Owed(f.component)'
      <4> SUFFICES ASSUME NEW p \in Components, NEW g \in driving'[p], g.component = f.component
                   PROVE  FALSE
        BY DEF Owed
      <4>1. g \in driving[p] /\ g.attempt = f.attempt /\ p # f.component
        BY <3>1, <3>2, <3>4 DEF RetryInv, RetryOf, TokenValue
      <4>2. p = c
        BY <3>1, <3>4, <4>1 DEF TwoComponents
      <4>3. g = f
        BY <3>1, <4>1
      <4> QED BY <2>2, <3>1, <4>2, <4>3
    <3>6. ~Publishing(f.component) /\ \A p \in Components : Publishing(p)' <=> Publishing(p)
      BY <3>1, <3>3, <3>4 DEF Publishing, RetryInv, RetryOf, OneToken
    <3>7. cpc # "abort"
      BY <1>3 DEF DrivePeers, RetryInv, DeadEnd, Down
    <3>8. CASE f.attempt < MaxAttempts
      BY <2>2, <3>1, <3>2, <3>3, <3>4, <3>5, <3>6, <3>7, <3>8, RequestRetries DEF DriveRetry
    <3>9. CASE ~(f.attempt < MaxAttempts)
      BY <2>2, <3>2, <3>3, <3>9, ForgetRetries DEF DriveRetry
    <3> QED BY <3>8, <3>9
  <2> QED BY <1>3, <2>1, <2>2 DEF DrivePeers
<1>4. CASE AwaitRetry(c)
  <2>1. CASE Goto(c, "done") /\ UNCHANGED retryChs
    <3>1. PhaseTrue(c)
      BY DEF RetryInv, RetryOf
    <3> QED BY <1>4, <2>1, <3>1, MoveKeepsRetries DEF AwaitRetry, Goto, PhaseTrue, Places, Down, Up
  <2>2. CASE InRetryCh(c) /\ retryChs' = [retryChs EXCEPT ![c] = Tail(@)] /\ Goto(c, "delay")
    BY <1>4, <2>2, TakeRetryRetries DEF AwaitRetry
  <2> QED BY <1>4, <2>1, <2>2 DEF AwaitRetry, InRetryCh
<1> QED BY <1>1, <1>2, <1>3, <1>4, MarkStartedRetries, PublishFailureRetries, MarkGaveUpRetries
        DEF RunnerStep

\* onFailure decides on a retry that has a driver, and on an abort at a dead end.
LEMMA TakeFailureRetries ==
  ASSUME TwoComponents, TypeInv, RetryInv, TakeFailure
  PROVE  RetryInv'
<1>0. PICK f : f = Head(failCh)
  OBVIOUS
<1> DEFINE c == f.component
<1>1. /\ cpc = "select" /\ failCh # <<>> /\ failCh' = Tail(failCh) /\ OnFailure(f)
      /\ UNCHANGED <<startedChs, rpc, attempt, driving, retryChs, deps>>
  BY <1>0 DEF TakeFailure, runVars
<1>2. /\ f \in Failure /\ Len(failCh) \in Nat \ {0} /\ failCh[1] = f
      /\ Len(failCh') = Len(failCh) - 1
      /\ \A i \in 1..(Len(failCh) - 1) : failCh'[i] = failCh[i + 1]
  BY <1>0, <1>1, HeadTailProperties DEF TypeInv, QueueTypes
<1>3. c \in Components /\ f.attempt \in 1..MaxAttempts
  BY <1>2 DEF Failure
<1>4. /\ InFailCh(c) /\ f.attempt = attempt[c]
      /\ \A j \in 1..Len(failCh) : failCh[j].component = c => j = 1
  <2>1. 1 \in 1..Len(failCh)
    BY <1>2
  <2> QED BY <1>2, <1>3, <2>1 DEF InFailCh, RetryInv, RetryOf, TokenValue
<1>5. /\ ~Owed(c) /\ ~InRetryCh(c) /\ rpc[c] \in Down /\ c \notin startedChs
      /\ attempt[c] > 0 /\ lastFailure[c] =< attempt[c]
  BY <1>3, <1>4 DEF RetryInv, RetryOf, OneToken, PhaseTrue
<1>6. /\ cpc' \in {"select", "publish", "abort"} /\ RecordFailure(f)
      /\ decision'.to = c /\ decision'.attempt = attempt[c]
  BY <1>1, <1>2, <1>4, OnFailureDecides
<1>7. /\ \A p \in Components \ {c} : phase'[p] = phase[p] /\ lastFailure'[p] = lastFailure[p]
      /\ phase[c] = "gaveUp" => phase'[c] = "gaveUp" /\ lastFailure'[c] = lastFailure[c]
      /\ phase[c] # "gaveUp" => phase'[c] = "waitingRetry" /\ lastFailure'[c] = attempt[c]
  BY <1>3, <1>4, <1>6 DEF RecordFailure, TypeInv, StateTypes
<1>8. /\ \A p \in Components \ {c} : InFailCh(p)' => InFailCh(p)
      /\ ~InFailCh(c)'
      /\ \A i \in 1..Len(failCh') : i + 1 \in 1..Len(failCh) /\ failCh'[i] = failCh[i + 1]
  <2>1. \A i \in 1..Len(failCh') : i + 1 \in 1..Len(failCh) /\ failCh'[i] = failCh[i + 1] /\ i + 1 # 1
    BY <1>2
  <2> QED BY <1>4, <2>1 DEF InFailCh
<1>9. ASSUME NEW p \in Components
      PROVE  /\ ~Publishing(p)
             /\ Publishing(p)' <=> cpc' = "publish" /\ p = c
             /\ Owed(p)' <=> Owed(p)
             /\ InRetryCh(p)' <=> InRetryCh(p)
             /\ Driven(p)' <=> Driven(p)
  BY <1>1, <1>6 DEF Publishing, Owed, InRetryCh, Driven
<1>10. cpc' = "publish" => Driven(c)
  <2> SUFFICES ASSUME cpc' = "publish" PROVE Driven(c)
    OBVIOUS
  <2>1. StartedPeers(c) # {} \/ HasPendingDependent(c)
    BY <1>1 DEF OnFailure, Decide
  <2>2. CASE StartedPeers(c) # {}
    BY <2>2 DEF StartedPeers, Driven, RetryInv, RetryOf, PhaseTrue
  <2>3. CASE HasPendingDependent(c)
    <3>1. PICK p \in Components \ {c} : c \in deps[p]
      BY <2>3 DEF HasPendingDependent
    <3>2. attempt[p] \in Nat /\ ~(attempt[p] > 0)
      BY <1>5, <3>1, Bounds DEF TypeInv, StateTypes, RetryInv, RetryOf, PhaseTrue
    <3> QED BY <3>1, <3>2 DEF Driven
  <2> QED BY <2>1, <2>2, <2>3
<1>11. ASSUME NEW p \in Components PROVE RetryOf(p)'
  <2>1. OneToken(p)'
    BY <1>1, <1>3, <1>5, <1>8, <1>9 DEF RetryInv, RetryOf, OneToken
  <2>2. TokenValue(p)'
    <3>1. ASSUME NEW i \in 1..Len(failCh'), failCh'[i].component = p
          PROVE  /\ failCh'[i].attempt = attempt[p]
                 /\ \A j \in 1..Len(failCh') : failCh'[j].component = p => i = j
      <4>1. i + 1 \in 1..Len(failCh) /\ failCh[i + 1].component = p /\ failCh'[i] = failCh[i + 1]
        BY <1>8, <3>1
      <4>2. failCh[i + 1].attempt = attempt[p]
            /\ \A j \in 1..Len(failCh) : failCh[j].component = p => i + 1 = j
        BY <4>1 DEF RetryInv, RetryOf, TokenValue
      <4>3. ASSUME NEW j \in 1..Len(failCh'), failCh'[j].component = p PROVE i = j
        <5>1. i + 1 = j + 1
          BY <1>8, <4>2, <4>3
        <5> QED BY <1>2, <5>1
      <4> QED BY <4>1, <4>2, <4>3
    <3> QED BY <1>1, <1>6, <1>9, <3>1 DEF RetryInv, RetryOf, TokenValue
  <2>3. HasDriver(p)'
    BY <1>1, <1>9, <1>10 DEF RetryInv, RetryOf, HasDriver
  <2>4. PhaseTrue(p)'
    <3>1. CASE p = c
      <4>1. PhaseTrue(c) /\ attempt[c] \in Nat
        BY <1>3, Bounds DEF RetryInv, RetryOf, TypeInv, StateTypes
      <4>2. CASE phase[c] = "gaveUp"
        BY <1>1, <1>5, <1>7, <1>8, <3>1, <4>1, <4>2 DEF PhaseTrue
      <4>3. CASE phase[c] # "gaveUp"
        BY <1>1, <1>5, <1>7, <1>8, <3>1, <4>1, <4>3 DEF PhaseTrue
      <4> QED BY <4>2, <4>3
    <3>2. CASE p # c
      BY <1>1, <1>7, <1>8, <3>2 DEF RetryInv, RetryOf, PhaseTrue
    <3> QED BY <3>1, <3>2
  <2> QED BY <2>1, <2>2, <2>3, <2>4 DEF RetryOf
<1>12. DeadEnd'
  <2> SUFFICES ASSUME cpc' = "abort", NEW p \in Components
               PROVE  /\ rpc[p] \in Down /\ p \notin startedChs
                      /\ rpc[p] = "awaitRetry" => ~InRetryCh(p)
    BY <1>1, <1>9 DEF DeadEnd
  <2>1. CASE p = c
    BY <1>5, <2>1
  <2>2. CASE p # c
    <3>1. phase[p] \in {"waitingRetry", "gaveUp"}
      BY <1>1, <2>2 DEF OnFailure, Decide, AllDown
    <3>2. p \notin startedChs
      BY <3>1 DEF RetryInv, RetryOf, PhaseTrue
    <3>3. CASE phase[p] = "gaveUp"
      BY <3>2, <3>3 DEF RetryInv, RetryOf, PhaseTrue, Down
    <3>4. CASE phase[p] = "waitingRetry"
      <4>1. ~Driven(p)
        <5>1. Components \ {p} = {c}
          BY <1>3, <2>2 DEF TwoComponents
        <5> QED BY <1>5, <5>1 DEF Driven
      <4>2. ~InRetryCh(p) /\ rpc[p] # "delay" /\ ~(attempt[p] > 1)
        BY <3>2, <4>1 DEF RetryInv, RetryOf, HasDriver
      <4>3. attempt[p] \in Nat /\ lastFailure[p] \in Nat /\ lastFailure[p] > 0
        BY <3>4, Bounds DEF TypeInv, StateTypes, AttemptInv
      <4>4. lastFailure[p] =< attempt[p]
        BY DEF RetryInv, RetryOf, PhaseTrue
      <4>5. lastFailure[p] = attempt[p] /\ attempt[p] > 0
        BY <4>2, <4>3, <4>4
      <4>6. rpc[p] \in Down
        BY <4>2, <4>5 DEF RetryInv, RetryOf, PhaseTrue
      <4> QED BY <3>2, <4>2, <4>6
    <3> QED BY <3>1, <3>3, <3>4
  <2> QED BY <2>1, <2>2
<1> QED BY <1>11, <1>12 DEF RetryInv

\* coordinate turns to something else.
LEMMA CoordinateRetries ==
  ASSUME TypeInv, RetryInv, cpc # "publish", cpc' \notin {"publish", "abort"},
         UNCHANGED <<failCh, retryChs, decision, driving, rpc, startedChs, attempt, deps, phase,
                     lastFailure>>
  PROVE  RetryInv'
<1>1. ASSUME NEW p \in Components
      PROVE  /\ InFailCh(p)' <=> InFailCh(p)
             /\ ~Publishing(p)'
             /\ Owed(p)' <=> Owed(p)
             /\ InRetryCh(p)' <=> InRetryCh(p)
             /\ Driven(p)' <=> Driven(p)
  BY DEF InFailCh, Publishing, Owed, InRetryCh, Driven
<1>2. ASSUME NEW p \in Components PROVE RetryOf(p)'
  <2>1. OneToken(p)' /\ HasDriver(p)' /\ PhaseTrue(p)'
    BY <1>1 DEF RetryInv, RetryOf, OneToken, HasDriver, PhaseTrue
  <2>2. TokenValue(p)'
    BY <1>1 DEF RetryInv, RetryOf, TokenValue
  <2> QED BY <2>1, <2>2 DEF RetryOf
<1> QED BY <1>2 DEF RetryInv, DeadEnd

LEMMA NextRetries ==
  ASSUME TwoComponents, TypeInv, RetryInv, [Next]_vars
  PROVE  RetryInv'
<1> USE DEF busVars, coordVars, runVars
<1>1. CASE UNCHANGED vars
  BY <1>1, RetryUntouched DEF vars
<1>2. CASE \/ \E c \in Components : RunReady(c) \/ \E e \in {"nil", "err"} : RunReturns(c, e)
           \/ LastCancels \/ CloseEvents \/ Supervise \/ Finish \/ ShutdownSignal
  BY <1>2, RetryUntouched
     DEF RunReady, RunReturns, LastCancels, CloseEvents, Supervise, Finish, ShutdownSignal
<1>3. CASE PublishRetry
  <2>0. PICK c : c = decision.to
    OBVIOUS
  <2>1. /\ cpc = "publish" /\ cpc' = "select" /\ OnRetry(c, decision.attempt + 1)
        /\ UNCHANGED <<driving, decision, rpc, startedChs, attempt, deps, phase, lastFailure>>
    BY <1>3, <2>0 DEF PublishRetry
  <2>2. c \in Components /\ decision.attempt < MaxAttempts
    BY <2>0, <2>1 DEF TypeInv, StateTypes, AttemptInv, Retry
  <2>3. Publishing(c)
    BY <2>0, <2>1 DEF Publishing
  <2>4. decision.attempt = attempt[c] /\ ~Owed(c)
    BY <2>2, <2>3 DEF RetryInv, RetryOf, OneToken, TokenValue
  <2>5. ~Owed(c)' /\ \A p \in Components : ~Publishing(p)'
    BY <2>1, <2>4 DEF Owed, Publishing
  <2> QED BY <2>1, <2>2, <2>3, <2>4, <2>5, RequestRetries
<1>4. CASE TakeOverflow \/ CoordinatorAborts \/ CoordinatorEnds
  BY <1>4, CoordinateRetries DEF TakeOverflow, CoordinatorAborts, CoordinatorEnds
<1> QED BY <1>1, <1>2, <1>3, <1>4, RunnerRetries, TakeFailureRetries DEF Next, CoordinatorStep

LEMMA RetryInvariant ==
  ASSUME TwoComponents
  PROVE  Spec => [](TypeInv /\ RetryInv)
<1>1. Init => TypeInv /\ RetryInv
  <2> SUFFICES ASSUME Init PROVE RetryInv
    BY InitTypeInv
  <2>1. /\ failCh = <<>> /\ cpc = "select" /\ startedChs = {} /\ Len(failCh) = 0
        /\ \A c \in Components : /\ retryChs[c] = <<>> /\ driving[c] = {} /\ rpc[c] = "deps"
                                 /\ attempt[c] = 0 /\ phase[c] = "pending" /\ lastFailure[c] = 0
    BY DEF Init
  <2>2. \A c \in Components : ~InFailCh(c) /\ ~Publishing(c) /\ ~Owed(c) /\ ~InRetryCh(c)
    BY <2>1 DEF InFailCh, Publishing, Owed, InRetryCh
  <2>3. ASSUME NEW c \in Components PROVE RetryOf(c)
    BY <2>1, <2>2 DEF RetryOf, OneToken, TokenValue, HasDriver, PhaseTrue, Up
  <2> QED BY <2>1, <2>3 DEF RetryInv, DeadEnd
<1>2. (TypeInv /\ RetryInv) /\ [Next]_vars => (TypeInv /\ RetryInv)'
  BY NextType, NextRetries
<1> QED BY <1>1, <1>2, PTL DEF Spec

\* onFailure and markStarted, for the two components of the program: however failures,
\* starts and retries overlap, a failed attempt is retried once.
THEOREM StartupOneRetryPerFailure ==
  ASSUME TwoComponents
  PROVE  Spec => []OneRetryPerFailure
<1>1. TypeInv /\ RetryInv => OneRetryPerFailure
  <2> SUFFICES ASSUME TypeInv, RetryInv, NEW c \in Components, InRetryCh(c)
               PROVE  retryChs[c] = <<attempt[c] + 1>> /\ rpc[c] \in {"awaitRetry", "done"}
    BY DEF OneRetryPerFailure, InRetryCh
  <2>1. retryChs[c] = <<attempt[c] + 1>> /\ rpc[c] \in Down
    BY DEF RetryInv, RetryOf, OneToken, TokenValue
  <2>2. attempt[c] # MaxAttempts
    <3>1. retryChs[c] \in Seq(1..MaxAttempts) /\ attempt[c] \in Nat /\ MaxAttempts \in Nat
      BY Bounds DEF TypeInv, QueueTypes, StateTypes
    <3>2. retryChs[c][1] \in 1..MaxAttempts /\ retryChs[c][1] = attempt[c] + 1
      BY <2>1, <3>1
    <3> QED BY <3>1, <3>2
  <2> QED BY <2>1, <2>2 DEF RetryInv, RetryOf, PhaseTrue, Down
<1> QED BY <1>1, RetryInvariant, PTL

\* onFailure, for the two components of the program: it gives up on the startup when neither
\* is up, and neither comes up before it has aborted.
THEOREM StartupAbortsAtDeadEnd ==
  ASSUME TwoComponents
  PROVE  Spec => []AbortsAtDeadEnd
<1>1. TypeInv /\ RetryInv => AbortsAtDeadEnd
  BY DEF RetryInv, DeadEnd, AbortsAtDeadEnd, Down
<1> QED BY <1>1, RetryInvariant, PTL
=============================================================================
