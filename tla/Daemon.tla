------------------------------- MODULE Daemon -------------------------------
(***************************************************************************)
(* The daemon's process-lifetime loop (pkg/syncer/daemon.go): Run, its     *)
(* reconnect loop, the steps that establish a session, and the five        *)
(* goroutines serveStream runs over the established stream, joined by an   *)
(* errgroup.  What the goroutines exchange is counted, not looked at: the  *)
(* requests and their answers are the subject of module Session.           *)
(***************************************************************************)
EXTENDS Naturals

CONSTANTS
  SendCap,    \* daemonOutgoingBufferSize
  EventCap,   \* daemonWatchEventBufferSize
  MaxLevel    \* bound: failures in a row that still lengthen the delay

ASSUME DaemonAssumption ==
  /\ SendCap \in Nat \ {0}
  /\ EventCap \in Nat \ {0}
  /\ MaxLevel \in Nat \ {0}

VARIABLES
  failFast,         \* RunOptions.StartupFailFast
  cancelled,        \* the context given to Run is cancelled
  loop,             \* where the goroutine of Run is
  prepared,         \* prepareRun accepted the configuration
  everEstablished,  \* runtimeDeps.everEstablished
  established,      \* what runSession returned: the session was established
  err,              \* ... and the error, then the error Run returns
  level,            \* the reconnect back-off: 0 after a reset
  sessCancelled,    \* cancel of the session's context was called
  groupErr,         \* the errgroup's first error
  worker,           \* where each goroutine of serveStream is
  sendQ,            \* messages in sendQueue
  eventQ,           \* changes in watchEvents
  link              \* the stream: "up" or "broken"

runVars  == <<failFast, prepared, everEstablished, established, err, level>>
sessVars == <<sessCancelled, groupErr, worker, sendQ, eventQ>>
daemonVars == <<runVars, cancelled, loop, sessVars, link>>

Workers == {"send", "recv", "watch", "forward", "heartbeat"}

\* The calls that establish a session, in order.
Stages == {"dialing", "opening", "scanning", "sendingTree"}

\* Every variable has its type, and no queue or counter exceeds its bound.
DaemonTypeOK ==
  /\ failFast \in BOOLEAN
  /\ cancelled \in BOOLEAN
  /\ loop \in Stages \cup {"preparing", "top", "serving", "decide", "waiting", "returned"}
  /\ prepared \in BOOLEAN
  /\ everEstablished \in BOOLEAN
  /\ established \in BOOLEAN
  /\ err \in {"nil", "err"}
  /\ level \in 0..MaxLevel
  /\ sessCancelled \in BOOLEAN
  /\ groupErr \in {"nil", "err"}
  /\ worker \in [Workers -> {"setup", "select", "sending", "queueing", "ended"}]
  /\ sendQ \in 0..SendCap
  /\ eventQ \in 0..EventCap
  /\ link \in {"up", "broken"}

DaemonInit ==
  /\ failFast \in BOOLEAN
  /\ cancelled = FALSE
  /\ loop = "preparing"
  /\ prepared = FALSE
  /\ everEstablished = FALSE
  /\ established = FALSE
  /\ err = "nil"
  /\ level = 0
  /\ sessCancelled = FALSE
  /\ groupErr = "nil"
  /\ worker = [w \in Workers |-> "ended"]
  /\ sendQ = 0
  /\ eventQ = 0
  /\ link = "broken"

\* ctx.Done() of the session, and of the errgroup's context derived from it.
SessionDone == cancelled \/ sessCancelled
GroupDone == SessionDone \/ groupErr = "err"

-----------------------------------------------------------------------------
(* Run, runDaemonLoop and runDaemonIteration *)

RunReturns(e) ==
  /\ loop' = "returned"
  /\ err' = e
  /\ UNCHANGED <<failFast, prepared, everEstablished, established, level, cancelled,
                 sessVars, link>>

\* prepareRun: the configuration, the workspace root, the sensitive patterns and
\* the audit store are accepted, or Run returns the error at once, whatever the
\* mode and whether or not the context is cancelled.
PrepareRun ==
  /\ loop = "preparing"
  /\ \/ RunReturns("err")
     \/ /\ loop' = "top"
        /\ prepared' = TRUE
        /\ UNCHANGED <<failFast, everEstablished, established, err, level, cancelled,
                       sessVars, link>>

IterationStart ==
  /\ loop = "top"
  /\ \/ cancelled /\ RunReturns("nil")
     \/ ~cancelled /\ loop' = "dialing" /\ UNCHANGED <<runVars, cancelled, sessVars, link>>

\* runSession: Dial, OpenStream and Scan, one after the other.
After(stage) ==
  IF stage = "dialing" THEN "opening"
  ELSE IF stage = "opening" THEN "scanning" ELSE "sendingTree"

StageDone ==
  /\ loop \in Stages \ {"sendingTree"}
  /\ loop' = After(loop)
  /\ UNCHANGED <<runVars, cancelled, sessVars, link>>

StageFails ==
  /\ loop \in Stages
  /\ loop' = "decide"
  /\ established' = FALSE
  /\ err' = "err"
  /\ UNCHANGED <<failFast, prepared, everEstablished, level, cancelled, sessVars, link>>

\* The initial tree is sent: markEstablished, and serveStream starts its
\* goroutines on fresh queues.
TreeSent ==
  /\ loop = "sendingTree"
  /\ loop' = "serving"
  /\ everEstablished' = TRUE
  /\ sessCancelled' = FALSE
  /\ groupErr' = "nil"
  /\ worker' = [w \in Workers |-> IF w = "watch" THEN "setup" ELSE "select"]
  /\ sendQ' = 0
  /\ eventQ' = 0
  /\ link' = "up"
  /\ UNCHANGED <<failFast, prepared, established, err, level, cancelled>>

\* group.Wait returns, and serveStream after it.
ServeReturns ==
  /\ loop = "serving"
  /\ \A w \in Workers : worker[w] = "ended"
  /\ loop' = "decide"
  /\ established' = TRUE
  /\ err' = IF SessionDone THEN "nil" ELSE groupErr
  /\ UNCHANGED <<failFast, prepared, everEstablished, level, cancelled, sessVars, link>>

\* nextRetryDelay: the delay grows with every failure in a row.
NextRetryDelay ==
  IF established THEN 1 ELSE IF level < MaxLevel THEN level + 1 ELSE level

\* An iteration that gives up on every failed session.
MutDecideGivesUp ==
  /\ loop = "decide"
  /\ RunReturns(IF cancelled THEN "nil" ELSE err)

\* An iteration whose fail-fast test looks at this session only.
MutDecideFailFast ==
  /\ loop = "decide"
  /\ \/ /\ err = "nil" \/ cancelled
        /\ RunReturns("nil")
     \/ /\ err = "err" /\ ~cancelled
        /\ ~established
        /\ RunReturns("err")

\* The end of runDaemonIteration.  The back-off has no limit on the elapsed
\* time (daemonReconnectMaxElapsed is zero), so it never says Stop.
Decide ==
  /\ loop = "decide"
  /\ \/ /\ err = "nil" \/ cancelled
        /\ RunReturns("nil")
     \/ /\ err = "err" /\ ~cancelled
        /\ failFast /\ ~everEstablished
        /\ RunReturns("err")
     \/ /\ err = "err" /\ ~cancelled
        /\ ~failFast \/ everEstablished
        /\ loop' = "waiting"
        /\ level' = NextRetryDelay
        /\ UNCHANGED <<failFast, prepared, everEstablished, established, err, cancelled,
                       sessVars, link>>

\* waitForRetry.
WaitForRetry ==
  /\ loop = "waiting"
  /\ \/ cancelled /\ RunReturns("nil")
     \/ loop' = "top" /\ UNCHANGED <<runVars, cancelled, sessVars, link>>

-----------------------------------------------------------------------------
(* The goroutines of serveStream *)

Goto(w, place) == worker' = [worker EXCEPT ![w] = place]

\* The goroutine returns nil.
WorkerEnds(w) ==
  /\ Goto(w, "ended")
  /\ UNCHANGED <<sessCancelled, groupErr>>

\* A failure the errgroup hears of but the stream's context does not.
MutWorkerFails(w) ==
  /\ Goto(w, "ended")
  /\ groupErr' = "err"
  /\ UNCHANGED sessCancelled

\* The goroutine returns an error: start cancels the session's context, which
\* releases whoever is blocked in the stream, and the errgroup keeps the first.
WorkerFails(w) ==
  /\ Goto(w, "ended")
  /\ sessCancelled' = TRUE
  /\ groupErr' = "err"

outside == <<runVars, cancelled, loop, link>>

\* The select of every goroutine but the receive loop: ctx.Done() ends it.
SeesDone(w) ==
  /\ w # "recv"
  /\ worker[w] = "select"
  /\ GroupDone
  /\ WorkerEnds(w)
  /\ UNCHANGED <<sendQ, eventQ, outside>>

\* runSendLoop takes a message ...
SendTake ==
  /\ worker["send"] = "select"
  /\ sendQ > 0
  /\ sendQ' = sendQ - 1
  /\ Goto("send", "sending")
  /\ UNCHANGED <<sessCancelled, groupErr, eventQ, outside>>

\* ... and sends it, or fails with the stream.
SendDone ==
  /\ worker["send"] = "sending"
  /\ link = "up" /\ ~SessionDone
  /\ Goto("send", "select")
  /\ UNCHANGED <<sessCancelled, groupErr, sendQ, eventQ, outside>>

SendFails ==
  /\ worker["send"] = "sending"
  /\ link = "broken" \/ SessionDone
  /\ WorkerFails("send")
  /\ UNCHANGED <<sendQ, eventQ, outside>>

\* runRecvLoop gets a request and handles it; Recv fails with the stream.
RecvRequest ==
  /\ worker["recv"] = "select"
  /\ link = "up" /\ ~SessionDone
  /\ Goto("recv", "queueing")
  /\ UNCHANGED <<sessCancelled, groupErr, sendQ, eventQ, outside>>

RecvFails ==
  /\ worker["recv"] = "select"
  /\ link = "broken" \/ SessionDone
  /\ WorkerFails("recv")
  /\ UNCHANGED <<sendQ, eventQ, outside>>

\* Watch: adding the tree to the watcher may fail.
WatchSetup ==
  /\ worker["watch"] = "setup"
  /\ \/ Goto("watch", "select") /\ UNCHANGED <<sessCancelled, groupErr>>
     \/ WorkerFails("watch")
  /\ UNCHANGED <<sendQ, eventQ, outside>>

\* An event of the file system that is to be reported.
WatchEvent ==
  /\ worker["watch"] = "select"
  /\ Goto("watch", "queueing")
  /\ UNCHANGED <<sessCancelled, groupErr, sendQ, eventQ, outside>>

\* handleWatchEvent puts the change into watchEvents, or drops it.
WatchEmit ==
  /\ worker["watch"] = "queueing"
  /\ \/ eventQ < EventCap /\ eventQ' = eventQ + 1
     \/ GroupDone /\ UNCHANGED eventQ
  /\ Goto("watch", "select")
  /\ UNCHANGED <<sessCancelled, groupErr, sendQ, outside>>

ForwardTake ==
  /\ worker["forward"] = "select"
  /\ eventQ > 0
  /\ eventQ' = eventQ - 1
  /\ Goto("forward", "queueing")
  /\ UNCHANGED <<sessCancelled, groupErr, sendQ, outside>>

HeartbeatTick ==
  /\ worker["heartbeat"] = "select"
  /\ Goto("heartbeat", "queueing")
  /\ UNCHANGED <<sessCancelled, groupErr, sendQ, eventQ, outside>>

\* queueDaemonMessage that only waits for room.
MutQueueBlindly(w) ==
  /\ w \in {"recv", "forward", "heartbeat"}
  /\ worker[w] = "queueing"
  /\ sendQ < SendCap
  /\ sendQ' = sendQ + 1
  /\ Goto(w, "select")
  /\ UNCHANGED <<sessCancelled, groupErr, eventQ, outside>>

\* queueDaemonMessage: the message is queued, or the goroutine returns nil.
QueueDaemonMessage(w) ==
  /\ w \in {"recv", "forward", "heartbeat"}
  /\ worker[w] = "queueing"
  /\ \/ /\ sendQ < SendCap
        /\ sendQ' = sendQ + 1
        /\ Goto(w, "select")
        /\ UNCHANGED <<sessCancelled, groupErr>>
     \/ /\ GroupDone
        /\ WorkerEnds(w)
        /\ UNCHANGED sendQ
  /\ UNCHANGED <<eventQ, outside>>

-----------------------------------------------------------------------------
(* The environment *)

Cancel ==
  /\ ~cancelled
  /\ cancelled' = TRUE
  /\ UNCHANGED <<runVars, loop, sessVars, link>>

LinkBreaks ==
  /\ loop = "serving"
  /\ link = "up"
  /\ link' = "broken"
  /\ UNCHANGED <<runVars, cancelled, loop, sessVars>>

-----------------------------------------------------------------------------
RunStep ==
  \/ PrepareRun \/ IterationStart \/ StageDone \/ StageFails \/ TreeSent \/ ServeReturns
  \/ Decide \/ WaitForRetry

WorkerStep(w) ==
  \/ SeesDone(w)
  \/ QueueDaemonMessage(w)
  \/ w = "send" /\ (SendTake \/ SendDone \/ SendFails)
  \/ w = "recv" /\ RecvFails
  \/ w = "watch" /\ (WatchSetup \/ WatchEmit)
  \/ w = "forward" /\ ForwardTake

DaemonNext ==
  \/ RunStep
  \/ \E w \in Workers : WorkerStep(w)
  \/ RecvRequest \/ WatchEvent \/ HeartbeatTick
  \/ Cancel \/ LinkBreaks

DaemonSpec == DaemonInit /\ [][DaemonNext]_daemonVars

\* Every goroutine that is not blocked runs on.  A select that finds ctx.Done()
\* ready again and again takes it at last: Go picks among the ready cases at
\* random.  Nothing is assumed of requests, file events, the ticker, the network
\* or the owner of the context.
DaemonFairness ==
  /\ WF_daemonVars(RunStep)
  /\ \A w \in Workers : WF_daemonVars(WorkerStep(w))
  /\ SF_daemonVars(\E w \in Workers : SeesDone(w))

DaemonFairSpec == DaemonSpec /\ DaemonFairness

-----------------------------------------------------------------------------
(* Properties *)

\* Run returns once its context is cancelled, wherever it is: no goroutine of
\* the session stays blocked in the stream or on a full queue.
CancelReturns == cancelled ~> (loop = "returned")

\* When one goroutine of a session fails (the watcher, the sender), the others
\* end too, also those blocked in the stream while the network is fine.
FailureWindsDown == (groupErr = "err") ~> (loop # "serving")

\* Before the first session: Run reports an error only in fail-fast mode or for
\* a configuration prepareRun refuses, and ends without one only when it was
\* cancelled.  The startup coordinator relies on it to tell a daemon that failed
\* to start from one that was stopped.
StartupOutcome ==
  loop = "returned" /\ ~everEstablished =>
    IF err = "err" THEN failFast \/ ~prepared ELSE cancelled /\ prepared

\* A daemon whose configuration was accepted and that is not in fail-fast mode
\* goes on dialling until it has a session or is cancelled.
RetriesUntilEstablished ==
  ~failFast /\ <>prepared =>
    (<>(everEstablished \/ cancelled) \/ []<>(loop = "dialing"))

\* "Run blocks until ctx is canceled or an unrecoverable configuration error
\* occurs", says the comment on Run: without an error it returns only when it
\* was cancelled.
RunBlocksUntilCancelled == loop = "returned" /\ err = "nil" => cancelled
=============================================================================
