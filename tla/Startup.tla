------------------------------- MODULE Startup -------------------------------
(***************************************************************************)
(* The startup of the unified entry: the coordinator's event loop and one  *)
(* runner per component (pkg/startup), the supervisor that turns their     *)
(* events into the exit of the process (app/rclaude/supervise.go), and the *)
(* components' Run functions, of which only what the runner sees is        *)
(* modelled: that they become ready, and that they return.                 *)
(*                                                                         *)
(* Bus.Publish runs its subscribers under the lock of the bus and they do  *)
(* not block, so publishing is one step.  The context of the coordinator is *)
(* the only one anybody waits for: shutdown signals, the supervisor and     *)
(* abort all end it.                                                        *)
(***************************************************************************)
EXTENDS Naturals, Sequences, FiniteSets

CONSTANTS
  Components,  \* the names of the specs; "daemon" and "pty" are among them
  MaxRetries,  \* Options.MaxRetries
  FailCap,     \* failBufferSize
  RetryCap,    \* retryBufferSize
  EventCap     \* eventBufferSize

ASSUME StartupAssumption ==
  /\ {"daemon", "pty"} \subseteq Components
  /\ MaxRetries \in Nat
  /\ FailCap \in Nat \ {0}
  /\ RetryCap \in Nat \ {0}
  /\ EventCap \in Nat \ {0}

MaxAttempts == MaxRetries + 1

VARIABLES
  deps,        \* the DependsOn of every spec
  ctxDone,     \* the run context is cancelled
  phase,       \* componentState.phase
  lastFailure, \* the attempt of componentState.lastFailure
  startedChs,  \* which started channels are closed
  rpc,         \* where each component's runner is
  attempt,     \* its current attempt
  ready,       \* Run of this attempt called ready
  ret,         \* what Run of this attempt returned, "none" while it runs
  driving,     \* the failures markStarted has yet to answer with a retry
  failCh,      \* failures on their way to coordinate
  retryChs,    \* retry requests, by their attempt
  overflow,    \* overflowCh holds a signal
  cpc,         \* where coordinate is
  decision,    \* the retry onFailure decided on: who, which attempt, notified by whom
  aborted,     \* abortOnce is done
  events,      \* events on their way to supervise
  closed,      \* the events channel is closed
  sup          \* the supervisor

busVars == <<failCh, retryChs, overflow>>
runVars == <<attempt, ready, ret>>
coordVars == <<cpc, decision>>
vars == <<deps, ctxDone, phase, lastFailure, startedChs, rpc, runVars, driving, busVars,
          coordVars, aborted, events, closed, sup>>

Places == {"deps", "attempt", "announcing", "driving", "running", "failed",
           "awaitRetry", "delay", "givingUp", "gaveUp", "aborting", "done"}

Retry == [to : Components, attempt : 1..MaxAttempts, from : Components]
Failure == [component : Components, attempt : 1..MaxAttempts]
Event == [component : Components, kind : {"started", "gaveUp", "aborted", "exited"},
          err : BOOLEAN]
NoRetry == [to |-> "pty", attempt |-> 1, from |-> "pty"]

\* Every variable has its type, and no queue or counter exceeds its bound.
TypeOK ==
  /\ deps \in [Components -> SUBSET Components]
  /\ ctxDone \in BOOLEAN
  /\ phase \in [Components -> {"pending", "started", "waitingRetry", "gaveUp"}]
  /\ lastFailure \in [Components -> 0..MaxAttempts]
  /\ startedChs \in SUBSET Components
  /\ rpc \in [Components -> Places]
  /\ attempt \in [Components -> 0..MaxAttempts]
  /\ ready \in [Components -> BOOLEAN]
  /\ ret \in [Components -> {"none", "nil", "err"}]
  /\ driving \in [Components -> SUBSET Failure]
  /\ failCh \in Seq(Failure) /\ Len(failCh) =< FailCap
  /\ retryChs \in [Components -> Seq(1..MaxAttempts)]
  /\ \A c \in Components : Len(retryChs[c]) =< RetryCap
  /\ overflow \in BOOLEAN
  /\ cpc \in {"select", "publish", "abort", "overflow", "done"}
  /\ decision \in Retry
  /\ aborted \in BOOLEAN
  /\ events \in Seq(Event) /\ Len(events) =< EventCap
  /\ closed \in BOOLEAN
  /\ sup \in [started : SUBSET Components, failed : SUBSET Components,
              daemonFatal : BOOLEAN, ptyErr : {"none", "nil", "err"},
              exit : {"none", "ok", "startupFailed", "runFailed", "ptyFailed"}]

\* buildDependencies and ensureAcyclic: every cycle, and every dependency on
\* itself, is a set of components each of which waits for another of the set.
Acyclic(d) ==
  \A S \in SUBSET Components \ {{}} : \E c \in S : d[c] \cap S = {}

Init ==
  /\ deps \in {d \in [Components -> SUBSET Components] : Acyclic(d)}
  /\ ctxDone = FALSE
  /\ phase = [c \in Components |-> "pending"]
  /\ lastFailure = [c \in Components |-> 0]
  /\ startedChs = {}
  /\ rpc = [c \in Components |-> "deps"]
  /\ attempt = [c \in Components |-> 0]
  /\ ready = [c \in Components |-> FALSE]
  /\ ret = [c \in Components |-> "none"]
  /\ driving = [c \in Components |-> {}]
  /\ failCh = <<>>
  /\ retryChs = [c \in Components |-> <<>>]
  /\ overflow = FALSE
  /\ cpc = "select"
  /\ decision = NoRetry
  /\ aborted = FALSE
  /\ events = <<>>
  /\ closed = FALSE
  /\ sup = [started |-> {}, failed |-> {}, daemonFatal |-> FALSE, ptyErr |-> "none",
            exit |-> "none"]

Goto(c, place) == rpc' = [rpc EXCEPT ![c] = place]

-----------------------------------------------------------------------------
(* The bus and the events channel *)

Emit(c, kind, err) ==
  /\ Len(events) < EventCap
  /\ events' = Append(events, [component |-> c, kind |-> kind, err |-> err])

\* onFailed and onRetry of busHandlers: a full queue signals the overflow.
OnFailed(f) ==
  IF Len(failCh) < FailCap
    THEN failCh' = Append(failCh, f) /\ UNCHANGED <<retryChs, overflow>>
    ELSE overflow' = TRUE /\ UNCHANGED <<failCh, retryChs>>

OnRetry(to, n) ==
  IF Len(retryChs[to]) < RetryCap
    THEN retryChs' = [retryChs EXCEPT ![to] = Append(@, n)] /\ UNCHANGED <<failCh, overflow>>
    ELSE overflow' = TRUE /\ UNCHANGED <<failCh, retryChs>>

\* publishRetry, unless the failed attempt was the last.
DriveRetry(f) ==
  IF f.attempt < MaxAttempts THEN OnRetry(f.component, f.attempt + 1) ELSE UNCHANGED busVars

\* abort: the first to come sends the event and ends the context.
Abort(trigger) ==
  \/ aborted /\ UNCHANGED <<aborted, events, ctxDone>>
  \/ /\ ~aborted
     /\ aborted' = TRUE
     /\ Emit(trigger, "aborted", TRUE)
     /\ ctxDone' = TRUE

-----------------------------------------------------------------------------
(* runComponent *)

BeginAttempt(c) ==
  /\ attempt' = [attempt EXCEPT ![c] = @ + 1]
  /\ ready' = [ready EXCEPT ![c] = FALSE]
  /\ ret' = [ret EXCEPT ![c] = "none"]
  /\ Goto(c, "attempt")

AwaitDependencies(c) ==
  /\ rpc[c] = "deps"
  /\ \/ ctxDone /\ Goto(c, "done") /\ UNCHANGED runVars
     \/ deps[c] \subseteq startedChs /\ BeginAttempt(c)
  /\ UNCHANGED <<deps, ctxDone, phase, lastFailure, startedChs, driving, busVars, coordVars,
                 aborted, events, closed, sup>>

\* The component's Run: it calls ready, and it returns.
RunReady(c) ==
  /\ rpc[c] = "attempt" /\ ret[c] = "none" /\ ~ready[c]
  /\ ready' = [ready EXCEPT ![c] = TRUE]
  /\ UNCHANGED <<deps, ctxDone, phase, lastFailure, startedChs, rpc, attempt, ret, driving,
                 busVars, coordVars, aborted, events, closed, sup>>

RunReturns(c, e) ==
  /\ rpc[c] \in {"attempt", "announcing", "driving", "running"}
  /\ ret[c] = "none"
  /\ ret' = [ret EXCEPT ![c] = e]
  /\ UNCHANGED <<deps, ctxDone, phase, lastFailure, startedChs, rpc, attempt, ready, driving,
                 busVars, coordVars, aborted, events, closed, sup>>

\* The last failure of every peer, also of one that has started since.
MutPeerFailures(c) ==
  {[component |-> p, attempt |-> lastFailure[p]] :
     p \in {q \in Components \ {c} : lastFailure[q] > 0}}

\* pendingPeerFailuresLocked.
PendingPeerFailures(c) ==
  {[component |-> p, attempt |-> lastFailure[p]] :
     p \in {q \in Components \ {c} : phase[q] = "waitingRetry"}}

\* A markStarted that overlooks the failures that came before it.
MutMarkStartedAlone(c) ==
  /\ rpc[c] = "attempt" /\ ready[c]
  /\ phase' = [phase EXCEPT ![c] = "started"]
  /\ driving' = [driving EXCEPT ![c] = {}]
  /\ startedChs' = startedChs \cup {c}
  /\ Goto(c, "announcing")
  /\ UNCHANGED <<deps, ctxDone, lastFailure, runVars, busVars, coordVars, aborted, events,
                 closed, sup>>

\* runAttempt sees that ready was called, also when Run has returned since:
\* markStarted up to its event.
MarkStarted(c) ==
  /\ rpc[c] = "attempt" /\ ready[c]
  /\ phase' = [phase EXCEPT ![c] = "started"]
  /\ driving' = [driving EXCEPT ![c] = PendingPeerFailures(c)]
  /\ startedChs' = startedChs \cup {c}
  /\ Goto(c, "announcing")
  /\ UNCHANGED <<deps, ctxDone, lastFailure, runVars, busVars, coordVars, aborted, events,
                 closed, sup>>

AnnounceStarted(c) ==
  /\ rpc[c] = "announcing"
  /\ Emit(c, "started", FALSE)
  /\ Goto(c, "driving")
  /\ UNCHANGED <<deps, ctxDone, phase, lastFailure, startedChs, runVars, driving, busVars,
                 coordVars, aborted, closed, sup>>

\* The retries of the peers that failed while this component was pending.
DrivePeers(c) ==
  /\ rpc[c] = "driving"
  /\ \/ /\ driving[c] = {}
        /\ Goto(c, "running")
        /\ UNCHANGED <<driving, busVars>>
     \/ \E f \in driving[c] :
          /\ DriveRetry(f)
          /\ driving' = [driving EXCEPT ![c] = @ \ {f}]
          /\ UNCHANGED rpc
  /\ UNCHANGED <<deps, ctxDone, phase, lastFailure, startedChs, runVars, coordVars, aborted,
                 events, closed, sup>>

\* Run of a started component has returned.
ComponentExits(c) ==
  /\ rpc[c] = "running" /\ ret[c] # "none"
  /\ Emit(c, "exited", ret[c] = "err")
  /\ Goto(c, "done")
  /\ UNCHANGED <<deps, ctxDone, phase, lastFailure, startedChs, runVars, driving, busVars,
                 coordVars, aborted, closed, sup>>

\* Run returned without having called ready, with an error or without.
AttemptFails(c) ==
  /\ rpc[c] = "attempt" /\ ret[c] # "none" /\ ~ready[c]
  /\ Goto(c, IF ctxDone THEN "done" ELSE "failed")
  /\ UNCHANGED <<deps, ctxDone, phase, lastFailure, startedChs, runVars, driving, busVars,
                 coordVars, aborted, events, closed, sup>>

PublishFailure(c) ==
  /\ rpc[c] = "failed"
  /\ OnFailed([component |-> c, attempt |-> attempt[c]])
  /\ Goto(c, IF attempt[c] = MaxAttempts THEN "givingUp" ELSE "awaitRetry")
  /\ UNCHANGED <<deps, ctxDone, phase, lastFailure, startedChs, runVars, driving, coordVars,
                 aborted, events, closed, sup>>

\* markGaveUp: the phase, the event, the abort.
MarkGaveUp(c) ==
  /\ rpc[c] = "givingUp"
  /\ phase' = [phase EXCEPT ![c] = "gaveUp"]
  /\ Goto(c, "gaveUp")
  /\ UNCHANGED <<deps, ctxDone, lastFailure, startedChs, runVars, driving, busVars, coordVars,
                 aborted, events, closed, sup>>

AnnounceGaveUp(c) ==
  /\ rpc[c] = "gaveUp"
  /\ Emit(c, "gaveUp", TRUE)
  /\ Goto(c, "aborting")
  /\ UNCHANGED <<deps, ctxDone, phase, lastFailure, startedChs, runVars, driving, busVars,
                 coordVars, aborted, closed, sup>>

RunnerAborts(c) ==
  /\ rpc[c] = "aborting"
  /\ Abort(c)
  /\ Goto(c, "done")
  /\ UNCHANGED <<deps, phase, lastFailure, startedChs, runVars, driving, busVars, coordVars,
                 closed, sup>>

AwaitRetry(c) ==
  /\ rpc[c] = "awaitRetry"
  /\ \/ ctxDone /\ Goto(c, "done") /\ UNCHANGED retryChs
     \/ /\ retryChs[c] # <<>>
        /\ retryChs' = [retryChs EXCEPT ![c] = Tail(@)]
        /\ Goto(c, "delay")
  /\ UNCHANGED <<deps, ctxDone, phase, lastFailure, startedChs, runVars, driving, failCh,
                 overflow, coordVars, aborted, events, closed, sup>>

SleepRetryDelay(c) ==
  /\ rpc[c] = "delay"
  /\ \/ ctxDone /\ Goto(c, "done") /\ UNCHANGED runVars
     \/ BeginAttempt(c)
  /\ UNCHANGED <<deps, ctxDone, phase, lastFailure, startedChs, driving, busVars, coordVars,
                 aborted, events, closed, sup>>

-----------------------------------------------------------------------------
(* coordinate *)

\* What onFailure finds under the lock, once the failure is recorded.
StartedPeers(c) == {p \in Components \ {c} : phase[p] = "started"}
HasPendingDependent(c) ==
  \E p \in Components \ {c} : phase[p] = "pending" /\ c \in deps[p]
AllDown(c) == \A p \in Components \ {c} : phase[p] \in {"waitingRetry", "gaveUp"}

Decide(place, to, n, from) ==
  /\ cpc' = place
  /\ decision' = [to |-> to, attempt |-> n, from |-> from]

RecordFailure(f) ==
  IF phase[f.component] = "gaveUp" THEN UNCHANGED <<phase, lastFailure>>
  ELSE /\ phase' = [phase EXCEPT ![f.component] = "waitingRetry"]
       /\ lastFailure' = [lastFailure EXCEPT ![f.component] = f.attempt]

\* An onFailure that also aborts when a peer has not yet finished its first attempt.
MutAbortEarly(f) ==
  LET c == f.component IN
    /\ RecordFailure(f)
    /\ \/ /\ StartedPeers(c) # {} /\ f.attempt < MaxAttempts
          /\ \E p \in StartedPeers(c) : Decide("publish", c, f.attempt, p)
       \/ /\ StartedPeers(c) = {}
          /\ Decide("abort", c, f.attempt, c)
       \/ /\ StartedPeers(c) # {} /\ f.attempt = MaxAttempts
          /\ Decide("select", c, f.attempt, c)

\* onFailure: a started peer drives the retry; a component that others wait for
\* drives its own; when everybody is down startup is aborted; and otherwise a
\* peer that starts later will drive it.
OnFailure(f) ==
  LET c == f.component
      drivers == IF StartedPeers(c) # {} THEN StartedPeers(c)
                 ELSE IF HasPendingDependent(c) THEN {c} ELSE {} IN
    /\ RecordFailure(f)
    /\ \/ /\ drivers # {} /\ f.attempt < MaxAttempts
          /\ \E p \in drivers : Decide("publish", c, f.attempt, p)
       \/ /\ drivers = {} /\ AllDown(c)
          /\ Decide("abort", c, f.attempt, c)
       \/ /\ IF drivers # {} THEN f.attempt = MaxAttempts ELSE ~AllDown(c)
          /\ Decide("select", c, f.attempt, c)

TakeFailure ==
  /\ cpc = "select"
  /\ failCh # <<>>
  /\ failCh' = Tail(failCh)
  /\ OnFailure(Head(failCh))
  /\ UNCHANGED <<deps, ctxDone, startedChs, rpc, runVars, driving, retryChs, overflow, aborted,
                 events, closed, sup>>

PublishRetry ==
  /\ cpc = "publish"
  /\ OnRetry(decision.to, decision.attempt + 1)
  /\ cpc' = "select"
  /\ UNCHANGED <<deps, ctxDone, phase, lastFailure, startedChs, rpc, runVars, driving, decision,
                 aborted, events, closed, sup>>

\* The component that overflowed only names the event, which nobody reads.
TakeOverflow ==
  /\ cpc = "select"
  /\ overflow
  /\ overflow' = FALSE
  /\ cpc' = "overflow"
  /\ UNCHANGED <<deps, ctxDone, phase, lastFailure, startedChs, rpc, runVars, driving, failCh,
                 retryChs, decision, aborted, events, closed, sup>>

CoordinatorAborts ==
  /\ cpc \in {"abort", "overflow"}
  /\ Abort(decision.to)
  /\ cpc' = "select"
  /\ UNCHANGED <<deps, phase, lastFailure, startedChs, rpc, runVars, driving, busVars, decision,
                 closed, sup>>

CoordinatorEnds ==
  /\ cpc = "select"
  /\ ctxDone
  /\ cpc' = "done"
  /\ UNCHANGED <<deps, ctxDone, phase, lastFailure, startedChs, rpc, runVars, driving, busVars,
                 decision, aborted, events, closed, sup>>

-----------------------------------------------------------------------------
(* The goroutine of Run that waits for the others *)

AllDone == \A c \in Components : rpc[c] = "done"

LastCancels ==
  /\ AllDone /\ ~ctxDone
  /\ ctxDone' = TRUE
  /\ UNCHANGED <<deps, phase, lastFailure, startedChs, rpc, runVars, driving, busVars, coordVars,
                 aborted, events, closed, sup>>

\* Closing without waiting for coordinate.
MutCloseEvents ==
  /\ AllDone /\ ctxDone /\ ~closed
  /\ closed' = TRUE
  /\ UNCHANGED <<deps, ctxDone, phase, lastFailure, startedChs, rpc, runVars, driving, busVars,
                 coordVars, aborted, events, sup>>

CloseEvents ==
  /\ AllDone /\ ctxDone /\ ~closed
  /\ cpc = "done"
  /\ closed' = TRUE
  /\ UNCHANGED <<deps, ctxDone, phase, lastFailure, startedChs, rpc, runVars, driving, busVars,
                 coordVars, aborted, events, sup>>

-----------------------------------------------------------------------------
(* supervise, and the shutdown signal *)

\* A supervisor that does not end the run when the terminal session is over.
MutHandleExit(e) ==
  /\ e.kind = "exited"
  /\ IF e.component = "pty"
       THEN sup' = [sup EXCEPT !.ptyErr = IF e.err THEN "err" ELSE "nil"]
       ELSE sup' = [sup EXCEPT !.daemonFatal = @ \/ e.err]
  /\ ctxDone' = (ctxDone \/ (e.component # "pty" /\ e.err))

\* onExited: the end of the terminal session, or an error of the daemon, ends
\* everything; a daemon that returned nil is taken to have been stopped.
HandleExit(e) ==
  /\ e.kind = "exited"
  /\ IF e.component = "pty"
       THEN sup' = [sup EXCEPT !.ptyErr = IF e.err THEN "err" ELSE "nil"]
       ELSE sup' = [sup EXCEPT !.daemonFatal = @ \/ e.err]
  /\ ctxDone' = (ctxDone \/ e.component = "pty" \/ e.err)

\* handle.
Supervise ==
  /\ events # <<>>
  /\ events' = Tail(events)
  /\ LET e == Head(events) IN
       \/ /\ e.kind = "started"
          /\ sup' = [sup EXCEPT !.started = @ \cup {e.component}]
          /\ UNCHANGED ctxDone
       \/ /\ e.kind = "gaveUp"
          /\ sup' = [sup EXCEPT !.failed = @ \cup ({e.component} \ sup.started)]
          /\ UNCHANGED ctxDone
       \/ /\ e.kind = "aborted"
          /\ ctxDone' = TRUE
          /\ UNCHANGED sup
       \/ HandleExit(e)
  /\ UNCHANGED <<deps, phase, lastFailure, startedChs, rpc, runVars, driving, busVars, coordVars,
                 aborted, closed>>

\* A finish that does not drain the channel.
MutFinishEarly ==
  /\ closed /\ sup.exit = "none"
  /\ LET failed == sup.failed \cup ({"daemon", "pty"} \ sup.started) IN
       sup' = [sup EXCEPT
                 !.failed = failed,
                 !.exit = IF failed # {} THEN "startupFailed"
                          ELSE IF sup.daemonFatal THEN "runFailed"
                          ELSE IF sup.ptyErr = "err" THEN "ptyFailed" ELSE "ok"]
  /\ UNCHANGED <<deps, ctxDone, phase, lastFailure, startedChs, rpc, runVars, driving, busVars,
                 coordVars, aborted, events, closed>>

\* finish, once the channel is closed and drained.
Finish ==
  /\ closed /\ events = <<>> /\ sup.exit = "none"
  /\ LET failed == sup.failed \cup ({"daemon", "pty"} \ sup.started) IN
       sup' = [sup EXCEPT
                 !.failed = failed,
                 !.exit = IF failed # {} THEN "startupFailed"
                          ELSE IF sup.daemonFatal THEN "runFailed"
                          ELSE IF sup.ptyErr = "err" THEN "ptyFailed" ELSE "ok"]
  /\ UNCHANGED <<deps, ctxDone, phase, lastFailure, startedChs, rpc, runVars, driving, busVars,
                 coordVars, aborted, events, closed>>

\* watchShutdownSignals: the first signal.
ShutdownSignal ==
  /\ ~ctxDone
  /\ ctxDone' = TRUE
  /\ UNCHANGED <<deps, phase, lastFailure, startedChs, rpc, runVars, driving, busVars, coordVars,
                 aborted, events, closed, sup>>

-----------------------------------------------------------------------------
RunnerStep(c) ==
  \/ AwaitDependencies(c) \/ MarkStarted(c) \/ AnnounceStarted(c) \/ DrivePeers(c)
  \/ ComponentExits(c) \/ AttemptFails(c) \/ PublishFailure(c)
  \/ MarkGaveUp(c) \/ AnnounceGaveUp(c) \/ RunnerAborts(c)
  \/ AwaitRetry(c) \/ SleepRetryDelay(c)

CoordinatorStep ==
  TakeFailure \/ PublishRetry \/ TakeOverflow \/ CoordinatorAborts \/ CoordinatorEnds

Next ==
  \/ \E c \in Components :
       \/ RunnerStep(c)
       \/ RunReady(c)
       \/ \E e \in {"nil", "err"} : RunReturns(c, e)
  \/ CoordinatorStep
  \/ LastCancels \/ CloseEvents
  \/ Supervise \/ Finish
  \/ ShutdownSignal

Spec == Init /\ [][Next]_vars

\* Every goroutine that can go on does.  Of a component's Run it is assumed that
\* an attempt comes to an end (it becomes ready or returns) and that Run returns
\* once its context has ended: for the daemon, module Daemon shows it.
Fairness ==
  /\ \A c \in Components :
       /\ WF_vars(RunnerStep(c))
       /\ WF_vars(RunReady(c) \/ (~ready[c] /\ \E e \in {"nil", "err"} : RunReturns(c, e)))
       /\ WF_vars(ctxDone /\ \E e \in {"nil", "err"} : RunReturns(c, e))
  /\ WF_vars(CoordinatorStep)
  /\ WF_vars(LastCancels \/ CloseEvents)
  /\ WF_vars(Supervise \/ Finish)

FairSpec == Spec /\ Fairness

-----------------------------------------------------------------------------
(* Properties *)

\* A component whose attempt failed is never stranded in awaitRetry: somebody
\* drives its retry, or the run ends.  Whoever could drive it may be starting,
\* failing or giving up at that moment.
NotStranded == \A c \in Components : (rpc[c] = "awaitRetry") ~> (rpc[c] # "awaitRetry")

\* Once the context has ended, the terminal session is over or the daemon has
\* failed, the process comes to its exit: no goroutine stays blocked on the bus,
\* on the events channel or waiting for another.
RunEnds ==
  (ctxDone \/ sup.ptyErr # "none" \/ sup.daemonFatal) ~> (sup.exit # "none")

\* onFailure gives up on the startup only at a dead end: no component is up when
\* it decides to, and none comes up before it has aborted.
AbortsAtDeadEnd ==
  cpc = "abort" => \A c \in Components : rpc[c] \notin {"announcing", "driving", "running"}

\* One retry request for one failure: a request in a component's channel is for
\* the attempt after the one that has just failed, whether coordinate or a peer
\* that has just started put it there.  (With a third component this is not so.)
OneRetryPerFailure ==
  \A c \in Components :
    retryChs[c] # <<>> =>
      /\ retryChs[c] = <<attempt[c] + 1>>
      /\ rpc[c] \in {"awaitRetry", "done"}

\* The events channel is closed after its last sender: a send on it afterwards
\* would panic.
NoSendAfterClose ==
  closed => AllDone /\ cpc \notin {"abort", "overflow"}

\* The process reports a failed startup exactly when one of its components never
\* started, and success only when neither has failed after that.
TruthfulExit ==
  sup.exit # "none" =>
    /\ sup.exit = "startupFailed" <=> ~({"daemon", "pty"} \subseteq startedChs)
    /\ sup.exit = "ok" => ret["daemon"] # "err" /\ ret["pty"] # "err"
=============================================================================
