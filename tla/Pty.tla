--------------------------------- MODULE Pty ---------------------------------
(***************************************************************************)
(* The terminal sessions of one user on the server: RemotePTY.Attach       *)
(* (pkg/ptyservice/service.go) with its loop and its three pumps, the      *)
(* process behind it (pkg/ptyhost/host_unix.go) and the user's PTY slot    *)
(* (RegisterPTY and UnregisterPTY of pkg/session/manager.go).              *)
(*                                                                         *)
(* Terminal data is counted.  What the host's drain goroutine and          *)
(* pumpStdout do to it one after the other is one stage: they are joined   *)
(* by a pipe without a buffer.  The client and the agent do as they like:  *)
(* a client need not read what is sent to it, nor an agent what is typed,  *)
(* and processes the agent has started may keep its terminal open.         *)
(***************************************************************************)
EXTENDS Naturals, Sequences

CONSTANTS
  Attaches,   \* calls of Attach
  Other,      \* the user's other calls, of which only the slot is modelled
  None,       \* the slot is free
  OutCap,     \* capacity of stdoutCh
  ClientCap,  \* capacity of clientCh
  TtyIn,      \* input the terminal takes before a write to it blocks
  TtyOut,     \* output the terminal takes before the agent blocks
  MaxOut,     \* bound: output of an agent
  MaxIn,      \* bound: frames of a client
  ClientFrames, \* the kinds of frames the client sends
  IOFaults    \* whether reading the terminal and waiting for the process may fail

Frames == {"stdin", "resize", "detach", "bad"}

ASSUME PtyAssumption ==
  /\ None \notin Attaches /\ Other \notin Attaches /\ None # Other
  /\ {OutCap, ClientCap, TtyIn, TtyOut} \subseteq Nat \ {0}
  /\ {MaxOut, MaxIn} \subseteq Nat
  /\ ClientFrames \subseteq Frames
  /\ IOFaults \in BOOLEAN

VARIABLES
  activePTY,    \* the call whose session id is registered for the user
  pc,           \* where each call of Attach is
  client,       \* the client's side of the stream
  frames,       \* how many frames it has sent
  recv,         \* pumpClientFrames: "recv", a frame in hand, or "ended"
  clientCh,
  pump,         \* drain and pumpStdout: "read", something in hand, or "ended"
  stdoutCh,
  clientOn,     \* the loop still listens to clientCh
  streamOpen, stdoutClosed, hostExited,  \* attachRuntime
  asked,        \* Shutdown was called
  sent,         \* stdout frames sent
  last,         \* the last frame of another kind, from the attached frame on
  child,        \* the process: "none", "running", "exited"
  heir,         \* it has exited, and a descendant has the terminal open
  killed,       \* it got SIGKILL
  waited,       \* reap: "no", or what cmd.Wait returned, "ok" or "err"
  ptmxClosed,   \* the master side of the terminal is closed
  ttyIn, ttyOut,\* what the terminal holds for the agent, and from it
  produced      \* output of the agent so far

callVars  == <<clientOn, streamOpen, stdoutClosed, hostExited, sent, last>>
inVars    == <<client, frames, recv, clientCh>>
outVars   == <<pump, stdoutCh>>
hostVars  == <<asked, child, heir, killed, waited, ptmxClosed, ttyIn, ttyOut, produced>>
vars == <<activePTY, pc, callVars, inVars, outVars, hostVars>>

Places == {"idle", "reserving", "limiting", "starting", "spawning", "refuse", "spawned",
           "loop", "sending", "writing", "resizing", "waitHost", "cleanup", "sendError",
           "returning", "done"}

CallTypeOK ==
  /\ activePTY \in Attaches \cup {None, Other}
  /\ pc \in [Attaches -> Places]
  /\ clientOn \in [Attaches -> BOOLEAN]
  /\ streamOpen \in [Attaches -> BOOLEAN]
  /\ stdoutClosed \in [Attaches -> BOOLEAN]
  /\ hostExited \in [Attaches -> BOOLEAN]
  /\ sent \in [Attaches -> Nat]
  /\ last \in [Attaches -> {"none", "attached", "error", "exited"}]

PumpTypeOK ==
  /\ client \in [Attaches -> {"open", "eof", "broken"}]
  /\ frames \in [Attaches -> 0..MaxIn]
  /\ recv \in [Attaches -> Frames \cup {"none", "recv", "err", "ended"}]
  /\ clientCh \in [Attaches -> Seq(Frames \cup {"err"})]
  /\ pump \in [Attaches -> {"none", "read", "data", "eof", "err", "ended"}]
  /\ stdoutCh \in [Attaches -> Seq({"data", "eof", "err"})]
  /\ \A a \in Attaches : Len(clientCh[a]) =< ClientCap /\ Len(stdoutCh[a]) =< OutCap

HostTypeOK ==
  /\ asked \in [Attaches -> BOOLEAN]
  /\ child \in [Attaches -> {"none", "running", "exited"}]
  /\ heir \in [Attaches -> BOOLEAN]
  /\ killed \in [Attaches -> BOOLEAN]
  /\ waited \in [Attaches -> {"no", "ok", "err"}]
  /\ ptmxClosed \in [Attaches -> BOOLEAN]
  /\ ttyIn \in [Attaches -> 0..TtyIn]
  /\ ttyOut \in [Attaches -> 0..TtyOut]
  /\ produced \in [Attaches -> 0..MaxOut]

\* Every variable has its type, and no queue holds more than its capacity.
TypeOK == CallTypeOK /\ PumpTypeOK /\ HostTypeOK

Init ==
  /\ activePTY = None
  /\ pc = [a \in Attaches |-> "idle"]
  /\ client = [a \in Attaches |-> "open"]
  /\ frames = [a \in Attaches |-> 0]
  /\ recv = [a \in Attaches |-> "none"]
  /\ clientCh = [a \in Attaches |-> <<>>]
  /\ pump = [a \in Attaches |-> "none"]
  /\ stdoutCh = [a \in Attaches |-> <<>>]
  /\ clientOn = [a \in Attaches |-> TRUE]
  /\ streamOpen = [a \in Attaches |-> TRUE]
  /\ stdoutClosed = [a \in Attaches |-> FALSE]
  /\ hostExited = [a \in Attaches |-> FALSE]
  /\ asked = [a \in Attaches |-> FALSE]
  /\ sent = [a \in Attaches |-> 0]
  /\ last = [a \in Attaches |-> "none"]
  /\ child = [a \in Attaches |-> "none"]
  /\ heir = [a \in Attaches |-> FALSE]
  /\ killed = [a \in Attaches |-> FALSE]
  /\ waited = [a \in Attaches |-> "no"]
  /\ ptmxClosed = [a \in Attaches |-> FALSE]
  /\ ttyIn = [a \in Attaches |-> 0]
  /\ ttyOut = [a \in Attaches |-> 0]
  /\ produced = [a \in Attaches |-> 0]

Set(f, a, v) == [f EXCEPT ![a] = v]
Goto(a, place) == pc' = Set(pc, a, place)

-----------------------------------------------------------------------------
(* attach, up to the loop *)

\* receiveAttachRequest and LookupDaemon: the first frame may not come or be of
\* another kind, and the daemon may not be connected.
ReceiveAttach(a) ==
  /\ pc[a] = "idle"
  /\ \E place \in {"reserving", "done"} : Goto(a, place)
  /\ UNCHANGED <<activePTY, callVars, inVars, outVars, hostVars>>

\* RegisterPTY, some time after the daemon was found connected.
RegisterPTY(a) ==
  /\ pc[a] = "reserving"
  /\ \/ /\ activePTY = None
        /\ activePTY' = a
        /\ Goto(a, "limiting")
     \/ activePTY # None /\ Goto(a, "done") /\ UNCHANGED activePTY
  /\ UNCHANGED <<callVars, inVars, outVars, hostVars>>

\* A limiter that refuses before the deferred UnregisterPTY is in place.
MutLimitBeforeDefer(a) ==
  /\ pc[a] = "limiting"
  /\ \E place \in {"starting", "done"} : Goto(a, place)
  /\ UNCHANGED <<activePTY, callVars, inVars, outVars, hostVars>>

EnforceAttachLimit(a) ==
  /\ pc[a] = "limiting"
  /\ \E place \in {"starting", "refuse"} : Goto(a, place)
  /\ UNCHANGED <<activePTY, callVars, inVars, outVars, hostVars>>

\* startHost: the program, the directory and the environment may be refused.
StartHost(a) ==
  /\ pc[a] = "starting"
  /\ \E place \in {"spawning", "refuse"} : Goto(a, place)
  /\ UNCHANGED <<activePTY, callVars, inVars, outVars, hostVars>>

\* Spawn: the process runs and its terminal is read, or there is no process.
Spawn(a) ==
  /\ pc[a] = "spawning"
  /\ \/ /\ child' = Set(child, a, "running")
        /\ pump' = Set(pump, a, "read")
        /\ Goto(a, "spawned")
     \/ Goto(a, "refuse") /\ UNCHANGED <<child, pump>>
  /\ UNCHANGED <<activePTY, callVars, inVars, stdoutCh, asked, heir, killed, waited, ptmxClosed,
                 ttyIn, ttyOut, produced>>

\* Host.Shutdown, which the loop calls once: SIGHUP, and the clock of the grace
\* period starts.
Shutdown(a) == asked' = Set(asked, a, TRUE)

\* sendAttachedFrame, after which the pumps run; if it fails, cleanupHost.
SendAttached(a) ==
  /\ pc[a] = "spawned"
  /\ \/ /\ client[a] # "broken"
        /\ last' = Set(last, a, "attached")
        /\ recv' = Set(recv, a, "recv")
        /\ Goto(a, "loop")
        /\ UNCHANGED asked
     \/ /\ client[a] = "broken"
        /\ Shutdown(a)
        /\ Goto(a, "cleanup")
        /\ UNCHANGED <<last, recv>>
  /\ UNCHANGED <<activePTY, clientOn, streamOpen, stdoutClosed, hostExited, sent, client, frames,
                 clientCh, outVars, child, heir, killed, waited, ptmxClosed, ttyIn, ttyOut,
                 produced>>

-----------------------------------------------------------------------------
(* runAttached *)

readyToExit(a) == hostExited[a] /\ stdoutClosed[a]
InLoop(a) == pc[a] = "loop" /\ ~readyToExit(a)

\* closeStream.
CloseStream(a) == streamOpen' = Set(streamOpen, a, FALSE) /\ Shutdown(a)

\* An error path that does not wait for the process.
MutFailLoop(a) == Shutdown(a) /\ Goto(a, "sendError")

\* The paths that end the call with an error: shutdown, waitHostSilently.
FailLoop(a) == Shutdown(a) /\ Goto(a, "waitHost")

\* handleStdoutEvent finds the channel closed: after an error, for the end of the
\* output is an event of its own, after which the loop no longer looks.
StdoutEnds(a) ==
  /\ InLoop(a) /\ ~stdoutClosed[a]
  /\ stdoutCh[a] = <<>> /\ pump[a] = "ended"
  /\ stdoutClosed' = Set(stdoutClosed, a, TRUE)
  /\ UNCHANGED <<activePTY, pc, clientOn, streamOpen, hostExited, sent, last, inVars, outVars,
                 hostVars>>

\* handleStdoutEvent: output is sent while there is a stream to send it on, and read to
\* its end all the same afterwards.
StdoutEvent(a) ==
  /\ InLoop(a) /\ ~stdoutClosed[a]
  /\ stdoutCh[a] # <<>>
  /\ stdoutCh' = Set(stdoutCh, a, Tail(stdoutCh[a]))
  /\ LET e == Head(stdoutCh[a]) IN
       \/ e = "data" /\ streamOpen[a] /\ Goto(a, "sending") /\ UNCHANGED <<asked, stdoutClosed>>
       \/ e = "data" /\ ~streamOpen[a] /\ UNCHANGED <<pc, asked, stdoutClosed>>
       \/ /\ e = "eof"
          /\ stdoutClosed' = Set(stdoutClosed, a, TRUE)
          /\ UNCHANGED <<pc, asked>>
       \/ e = "err" /\ FailLoop(a) /\ UNCHANGED stdoutClosed
  /\ UNCHANGED <<activePTY, clientOn, streamOpen, hostExited, sent, last, inVars, pump, child,
                 heir, killed, waited, ptmxClosed, ttyIn, ttyOut, produced>>

\* stream.Send returns: when the client has taken enough of what was sent before, or
\* with an error, which closes the stream, when the connection is lost.
SendStdout(a) ==
  /\ pc[a] = "sending"
  /\ \/ client[a] # "broken" /\ sent' = Set(sent, a, sent[a] + 1) /\ UNCHANGED <<asked, streamOpen>>
     \/ client[a] = "broken" /\ CloseStream(a) /\ UNCHANGED sent
  /\ Goto(a, "loop")
  /\ UNCHANGED <<activePTY, clientOn, stdoutClosed, hostExited, last, inVars, outVars, child, heir,
                 killed, waited, ptmxClosed, ttyIn, ttyOut, produced>>

\* The client is gone and the process is left to itself.
MutClientGone(a) ==
  /\ streamOpen' = Set(streamOpen, a, FALSE)
  /\ clientOn' = Set(clientOn, a, FALSE)
  /\ UNCHANGED <<pc, asked>>

ClientGone(a) ==
  /\ CloseStream(a)
  /\ clientOn' = Set(clientOn, a, FALSE)
  /\ UNCHANGED pc

\* handleClientEvent.  "bad" is a frame that is too large, beyond the rate limit
\* or not of a kind the loop knows.
ClientEvent(a) ==
  /\ InLoop(a) /\ clientOn[a]
  /\ clientCh[a] # <<>>
  /\ clientCh' = Set(clientCh, a, Tail(clientCh[a]))
  /\ LET f == Head(clientCh[a]) IN
       \/ f = "err" /\ ClientGone(a)
       \/ /\ f = "detach"
          /\ Shutdown(a)
          /\ clientOn' = Set(clientOn, a, FALSE)
          /\ UNCHANGED <<pc, streamOpen>>
       \/ f = "bad" /\ FailLoop(a) /\ UNCHANGED <<clientOn, streamOpen>>
       \/ f = "stdin" /\ Goto(a, "writing") /\ UNCHANGED <<asked, clientOn, streamOpen>>
       \/ f = "resize" /\ Goto(a, "resizing") /\ UNCHANGED <<asked, clientOn, streamOpen>>
  /\ UNCHANGED <<activePTY, stdoutClosed, hostExited, sent, last, client, frames, recv, outVars,
                 child, heir, killed, waited, ptmxClosed, ttyIn, ttyOut, produced>>

\* Some process has the terminal open.
HasTerminal(a) == child[a] = "running" \/ heir[a]

\* handleClientStdin's write to the terminal: it waits for room, and fails once
\* the terminal is closed or no process has it open any more.  The loop waits with it.
WriteStdin(a) ==
  /\ pc[a] = "writing"
  /\ \/ /\ ~ptmxClosed[a] /\ ttyIn[a] < TtyIn
        /\ ttyIn' = Set(ttyIn, a, ttyIn[a] + 1)
        /\ Goto(a, "loop")
        /\ UNCHANGED asked
     \/ (ptmxClosed[a] \/ ~HasTerminal(a)) /\ FailLoop(a) /\ UNCHANGED ttyIn
  /\ UNCHANGED <<activePTY, callVars, inVars, outVars, child, heir, killed, waited, ptmxClosed, ttyOut,
                 produced>>

\* handleClientResize.
ResizeHost(a) ==
  /\ pc[a] = "resizing"
  /\ \/ ~ptmxClosed[a] /\ Goto(a, "loop") /\ UNCHANGED asked
     \/ ptmxClosed[a] /\ FailLoop(a)
  /\ UNCHANGED <<activePTY, callVars, inVars, outVars, child, heir, killed, waited, ptmxClosed, ttyIn,
                 ttyOut, produced>>

\* waitHost and handleExitEvent.
ExitEvent(a) ==
  /\ InLoop(a) /\ ~hostExited[a]
  /\ waited[a] # "no"
  /\ hostExited' = Set(hostExited, a, TRUE)
  /\ \/ waited[a] = "ok" /\ UNCHANGED pc
     \/ waited[a] = "err" /\ Goto(a, "sendError")
  /\ UNCHANGED <<activePTY, clientOn, streamOpen, stdoutClosed, sent, last, inVars, outVars,
                 hostVars>>

\* waitHostSilently, in the loop and in cleanupHost.
WaitHostSilently(a) ==
  /\ pc[a] \in {"waitHost", "cleanup"}
  /\ waited[a] # "no"
  /\ Goto(a, IF pc[a] = "cleanup" THEN "returning" ELSE "sendError")
  /\ UNCHANGED <<activePTY, callVars, inVars, outVars, hostVars>>

\* A finish that does not wait for the end of the output.
MutFinishOnExit(a) ==
  /\ pc[a] = "loop" /\ hostExited[a]
  /\ last' = IF streamOpen[a] /\ client[a] # "broken" THEN Set(last, a, "exited") ELSE last
  /\ Goto(a, "returning")
  /\ UNCHANGED <<activePTY, clientOn, streamOpen, stdoutClosed, hostExited, sent, inVars, outVars,
                 hostVars>>

\* applicationError, before the process runs or from the loop: with the stream closed
\* it is no error, and the loop goes on.
SendError(a) ==
  /\ pc[a] \in {"refuse", "sendError"}
  /\ last' = IF streamOpen[a] /\ client[a] # "broken" THEN Set(last, a, "error") ELSE last
  /\ Goto(a, IF streamOpen[a] THEN "returning" ELSE "loop")
  /\ UNCHANGED <<activePTY, clientOn, streamOpen, stdoutClosed, hostExited, sent, inVars, outVars,
                 hostVars>>

\* finish: the last frame, if there is a stream to send it on.
Finish(a) ==
  /\ pc[a] = "loop" /\ readyToExit(a)
  /\ last' = IF streamOpen[a] /\ client[a] # "broken" THEN Set(last, a, "exited") ELSE last
  /\ Goto(a, "returning")
  /\ UNCHANGED <<activePTY, clientOn, streamOpen, stdoutClosed, hostExited, sent, inVars, outVars,
                 hostVars>>

\* The deferred UnregisterPTY, by the session id of this call.
UnregisterPTY(a) ==
  /\ pc[a] = "returning"
  /\ activePTY' = IF activePTY = a THEN None ELSE activePTY
  /\ Goto(a, "done")
  /\ UNCHANGED <<callVars, inVars, outVars, hostVars>>

\* Another client of the user attaches and returns.
OtherCall ==
  /\ \/ activePTY = None /\ activePTY' = Other
     \/ activePTY = Other /\ activePTY' = None
  /\ UNCHANGED <<pc, callVars, inVars, outVars, hostVars>>

-----------------------------------------------------------------------------
(* The pumps *)

\* pumpClientFrames receives a frame, or the end of the stream: the client's, or
\* that of a call that has returned.
RecvFrame(a) ==
  /\ recv[a] = "recv"
  /\ \/ /\ client[a] = "open" /\ pc[a] # "done"
        /\ frames[a] < MaxIn
        /\ frames' = Set(frames, a, frames[a] + 1)
        /\ \E f \in ClientFrames : recv' = Set(recv, a, f)
     \/ /\ client[a] # "open" \/ pc[a] = "done"
        /\ recv' = Set(recv, a, "err")
        /\ UNCHANGED frames
  /\ UNCHANGED <<activePTY, pc, callVars, client, clientCh, outVars, hostVars>>

PutFrame(a) ==
  /\ recv[a] \in Frames \cup {"err"}
  /\ Len(clientCh[a]) < ClientCap
  /\ clientCh' = Set(clientCh, a, Append(clientCh[a], recv[a]))
  /\ recv' = Set(recv, a, IF recv[a] = "err" THEN "ended" ELSE "recv")
  /\ UNCHANGED <<activePTY, pc, callVars, client, frames, outVars, hostVars>>

\* drain and pumpStdout: output, and then its end, when nobody has the terminal open or
\* it was closed; drain closes the terminal after the last of it.
ReadStdout(a) ==
  /\ pump[a] = "read"
  /\ \/ /\ ~ptmxClosed[a] /\ ttyOut[a] > 0
        /\ ttyOut' = Set(ttyOut, a, ttyOut[a] - 1)
        /\ pump' = Set(pump, a, "data")
        /\ UNCHANGED ptmxClosed
     \/ /\ ptmxClosed[a] \/ (~HasTerminal(a) /\ ttyOut[a] = 0)
        /\ pump' = Set(pump, a, "eof")
        /\ ptmxClosed' = Set(ptmxClosed, a, TRUE)
        /\ UNCHANGED ttyOut
  /\ UNCHANGED <<activePTY, pc, callVars, inVars, stdoutCh, asked, child, heir, killed, waited, ttyIn,
                 produced>>

\* drain fails to read the terminal.
ReadFails(a) ==
  /\ IOFaults
  /\ pump[a] = "read"
  /\ pump' = Set(pump, a, "err")
  /\ ptmxClosed' = Set(ptmxClosed, a, TRUE)
  /\ UNCHANGED <<activePTY, pc, callVars, inVars, stdoutCh, asked, child, heir, killed, waited, ttyIn,
                 ttyOut, produced>>

PutStdout(a) ==
  /\ pump[a] \in {"data", "eof", "err"}
  /\ Len(stdoutCh[a]) < OutCap
  /\ stdoutCh' = Set(stdoutCh, a, Append(stdoutCh[a], pump[a]))
  /\ pump' = Set(pump, a, IF pump[a] = "data" THEN "read" ELSE "ended")
  /\ UNCHANGED <<activePTY, pc, callVars, inVars, hostVars>>

-----------------------------------------------------------------------------
(* The host and its process *)

\* reap.
Reap(a) ==
  /\ child[a] = "exited" /\ waited[a] = "no"
  /\ \/ waited' = Set(waited, a, "ok")
     \/ IOFaults /\ waited' = Set(waited, a, "err")
  /\ UNCHANGED <<activePTY, pc, callVars, inVars, outVars, asked, child, heir, killed, ptmxClosed, ttyIn,
                 ttyOut, produced>>

\* The grace period is over: SIGKILL, and the terminal is closed.
Kill(a) ==
  /\ asked[a] /\ ~killed[a]
  /\ waited[a] = "no"
  /\ killed' = Set(killed, a, TRUE)
  /\ child' = Set(child, a, "exited")
  /\ ptmxClosed' = Set(ptmxClosed, a, TRUE)
  /\ UNCHANGED <<activePTY, pc, callVars, inVars, outVars, asked, heir, waited, ttyIn, ttyOut,
                 produced>>

\* The agent reads its input, writes output and exits as it likes, and so do the
\* processes that it leaves behind.
ChildStep(a) ==
  /\ HasTerminal(a)
  /\ \/ /\ ttyIn[a] > 0
        /\ ttyIn' = Set(ttyIn, a, ttyIn[a] - 1)
        /\ UNCHANGED <<child, heir, ttyOut, produced>>
     \/ /\ produced[a] < MaxOut /\ ttyOut[a] < TtyOut
        /\ ttyOut' = Set(ttyOut, a, ttyOut[a] + 1)
        /\ produced' = Set(produced, a, produced[a] + 1)
        /\ UNCHANGED <<child, heir, ttyIn>>
     \/ /\ child[a] = "running"
        /\ child' = Set(child, a, "exited")
        /\ \E left \in BOOLEAN : heir' = Set(heir, a, left)
        /\ UNCHANGED <<ttyIn, ttyOut, produced>>
     \/ /\ heir[a]
        /\ heir' = Set(heir, a, FALSE)
        /\ UNCHANGED <<child, ttyIn, ttyOut, produced>>
  /\ UNCHANGED <<activePTY, pc, callVars, inVars, outVars, asked, killed, waited, ptmxClosed>>

\* The client of a running call stops sending, or the connection is lost.
ClientLeaves(a) ==
  /\ pc[a] \notin {"idle", "done"}
  /\ client[a] # "broken"
  /\ \E s \in {"eof", "broken"} \ {client[a]} : client' = Set(client, a, s)
  /\ UNCHANGED <<activePTY, pc, callVars, frames, recv, clientCh, outVars, hostVars>>

-----------------------------------------------------------------------------
CallStep(a) ==
  \/ ReceiveAttach(a) \/ RegisterPTY(a) \/ EnforceAttachLimit(a) \/ StartHost(a)
  \/ Spawn(a) \/ SendAttached(a)
  \/ StdoutEvent(a) \/ SendStdout(a) \/ StdoutEnds(a) \/ ClientEvent(a) \/ ExitEvent(a)
  \/ WriteStdin(a) \/ ResizeHost(a) \/ WaitHostSilently(a)
  \/ SendError(a) \/ Finish(a) \/ UnregisterPTY(a)

Next ==
  \/ \E a \in Attaches :
       \/ CallStep(a)
       \/ RecvFrame(a) \/ PutFrame(a)
       \/ ReadStdout(a) \/ ReadFails(a) \/ PutStdout(a)
       \/ Reap(a) \/ Kill(a)
       \/ ChildStep(a) \/ ClientLeaves(a)
  \/ OtherCall

Spec == Init /\ [][Next]_vars

\* The call is in stream.Send.
Sends(a) ==
  \/ pc[a] \in {"refuse", "spawned", "sending"}
  \/ streamOpen[a] /\ (pc[a] = "sendError" \/ (pc[a] = "loop" /\ readyToExit(a)))

\* Goroutines that can run do, and the grace period passes.  Nothing is assumed
\* of the agent or of the client: a Send is only sure to return once the connection is
\* lost.  Go's select picks at random, so the event that the client is gone is not
\* passed over for ever in favour of output.
Fairness ==
  \A a \in Attaches :
    /\ WF_vars((Sends(a) => client[a] = "broken") /\ CallStep(a))
    /\ SF_vars(ClientEvent(a))
    /\ WF_vars(RecvFrame(a)) /\ WF_vars(PutFrame(a))
    /\ WF_vars(ReadStdout(a)) /\ WF_vars(PutStdout(a))
    /\ WF_vars(Reap(a)) /\ WF_vars(Kill(a))

FairSpec == Spec /\ Fairness

-----------------------------------------------------------------------------
(* Properties *)

\* The calls between RegisterPTY and UnregisterPTY.
Holding(a) == pc[a] \notin {"idle", "reserving", "done"}

\* The slot belongs to a call that is still running: every way out of Attach
\* after RegisterPTY gives it back, and no call gives back another's.
SlotHasOwner == \A a \in Attaches : activePTY = a <=> Holding(a)

\* One agent per user: while the process of a call runs, the call holds the slot,
\* on every path on which the call ends.
OneAgentPerUser == \A a \in Attaches : child[a] = "running" => activePTY = a

\* The exit of the process is reported after all of its output, in whichever
\* order the end of the one and of the other were noticed; what a killed agent left in
\* the terminal is lost with it.
ExitAfterOutput ==
  \A a \in Attaches : last[a] = "exited" /\ ~killed[a] => sent[a] = produced[a]

\* What a call may wait for that the server does not control: an agent that does not read
\* its input, a client that does not read its output, and a descendant of the agent
\* that keeps the terminal open.
HeldUp(a) ==
  \/ pc[a] = "writing" /\ ttyIn[a] = TtyIn /\ ~ptmxClosed[a] /\ HasTerminal(a)
  \/ Sends(a) /\ client[a] # "broken"
  \/ heir[a] /\ ~ptmxClosed[a]

\* When the client is gone the slot becomes free again, also when the agent ignores
\* SIGHUP, unless the call is held up for good by one of the three.
PeerEOFReleasesSlot ==
  \A a \in Attaches :
    \/ <>[]HeldUp(a)
    \/ (client[a] # "open" /\ activePTY = a) ~> (activePTY # a)

==============================================================================
