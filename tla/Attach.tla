------------------------------- MODULE Attach -------------------------------
(***************************************************************************)
(* The local end of a terminal session: runCommand (pkg/ptyattach) puts    *)
(* the terminal into raw mode, dials the server and runs a client          *)
(* (pkg/ptyclient) whose goroutines, an errgroup, send frames, read the     *)
(* keyboard, follow the size of the terminal and receive frames; then it    *)
(* resets and restores the terminal and reports how the session ended.     *)
(*                                                                         *)
(* Frames, errors and outcomes are told apart by kind.  The server is any  *)
(* server that answers the attach frame, and the stream may break at any   *)
(* time.  The context of the stream is the caller's: what the client       *)
(* cancels is a context below it.                                          *)
(***************************************************************************)
EXTENDS Naturals, Sequences

CONSTANTS
  OutCap,     \* capacity of outbound
  ResizeCap,  \* capacity of the channel of sizes
  MaxIn,      \* bound: chunks typed
  MaxWinch,   \* bound: sizes taken, the one at the start included
  MaxOut      \* bound: stdout frames

ASSUME AttachAssumption ==
  /\ {OutCap, ResizeCap} \subseteq Nat \ {0}
  /\ {MaxIn, MaxWinch, MaxOut} \subseteq Nat

VARIABLES
  term,       \* the local terminal: "cooked", "raw", or "stuck" if it could not be restored
  opened,     \* the stream to the server was opened
  reset,      \* the reset sequence was written
  output,     \* chunks written to the terminal
  main,       \* where runCommand is
  user,       \* the caller's context is cancelled
  cancelled,  \* Run's own context is cancelled
  gerr,       \* the first error of the group
  sender, sendErr,   \* sendLoop, and what it is about to return
  outbound, ack,
  stdin, pipe,       \* stdinPump, and the bridge to the keyboard
  typed,
  resizer, sizes,    \* resizePump, and the channel it reads
  sizesClosed, winches,
  recv, recvErr,     \* recvLoop, and what it is about to return
  result,     \* the ExitResult without its Err
  status,     \* what runCommand returns
  server,     \* "idle", "open", "ending", "ended"
  greeted,    \* it has got the attach frame
  halfClosed, \* CloseSend was called
  wire,       \* frames on their way to the client
  outs        \* stdout frames sent

termVars == <<term, opened, reset, output>>
ctxVars  == <<user, cancelled, gerr>>
sendVars == <<sender, sendErr, outbound, ack>>
pumpVars == <<stdin, pipe, typed, resizer, sizes, sizesClosed, winches>>
recvVars == <<recv, recvErr, result>>
srvVars  == <<server, greeted, halfClosed, wire, outs>>
vars == <<termVars, main, ctxVars, sendVars, pumpVars, recvVars, status, srvVars>>

\* Frames that end a session; the first three carry how the agent exited.
Endings == {"exit0", "exitN", "signal", "error"}

Init ==
  /\ term = "cooked" /\ opened = FALSE /\ reset = FALSE /\ output = 0
  /\ main = "load"
  /\ user = FALSE /\ cancelled = FALSE /\ gerr = "none"
  /\ sender = "off" /\ sendErr = "none" /\ outbound = <<>> /\ ack = "none"
  /\ stdin = "off" /\ pipe = "open" /\ typed = 0
  /\ resizer = "off" /\ sizes = 0 /\ sizesClosed = FALSE /\ winches = 0
  /\ recv = "off" /\ recvErr = "none" /\ result = "none"
  /\ status = "none"
  /\ server = "idle" /\ greeted = FALSE /\ halfClosed = FALSE /\ wire = <<>> /\ outs = 0

\* The context the goroutines of the group look at.
Done == user \/ cancelled \/ gerr # "none"

\* The end of a goroutine of the group: only the first error counts.
GroupErr(err) == gerr' = IF gerr = "none" THEN err ELSE gerr

-----------------------------------------------------------------------------
(* runCommand up to the client *)

Return(what) == main' = "done" /\ status' = what

LoadConfig ==
  /\ main = "load"
  /\ \/ main' = "prepare" /\ UNCHANGED status
     \/ Return("failed")       \* the configuration, or not a terminal
  /\ UNCHANGED <<termVars, ctxVars, sendVars, pumpVars, recvVars, srvVars>>

MakeRaw ==
  /\ main = "prepare"
  /\ \/ term' = "raw" /\ main' = "size" /\ UNCHANGED status
     \/ Return("failed") /\ UNCHANGED term
  /\ UNCHANGED <<opened, reset, output, ctxVars, sendVars, pumpVars, recvVars, srvVars>>

\* The ioctl that puts the settings back may fail.
Restore == term' \in {"cooked", "stuck"}

\* Forgets the terminal when its size cannot be told.
MutSizeFailsRaw ==
  /\ main = "size"
  /\ \/ main' = "dial" /\ UNCHANGED <<term, status>>
     \/ Return("failed") /\ UNCHANGED term
  /\ UNCHANGED <<opened, reset, output, ctxVars, sendVars, pumpVars, recvVars, srvVars>>

QuerySize ==
  /\ main = "size"
  /\ \/ main' = "dial" /\ UNCHANGED <<term, status>>
     \/ Return("failed") /\ Restore
  /\ UNCHANGED <<opened, reset, output, ctxVars, sendVars, pumpVars, recvVars, srvVars>>

\* dialPTY, the bridge, and the start of Run: sendLoop runs from here on.
Dial ==
  /\ main = "dial"
  /\ \/ /\ opened' = TRUE /\ main' = "enqueue" /\ sender' = "select"
        /\ UNCHANGED <<term, status>>
     \/ Return("failed") /\ Restore /\ UNCHANGED <<opened, sender>>
  /\ UNCHANGED <<reset, output, ctxVars, sendErr, outbound, ack, pumpVars, recvVars, srvVars>>

-----------------------------------------------------------------------------
(* Run: the handshake *)

\* Where Run goes when it gives up: shutdownBackground, with what it will return.
\* A pipe closed at either end is an orderly end to the pump.
GiveUp(err) ==
  /\ main' = "shutdown"
  /\ recvErr' = err
  /\ cancelled' = TRUE
  /\ pipe' = "closed"

\* enqueueSync, first half.
Enqueue ==
  /\ main = "enqueue"
  /\ \/ /\ Len(outbound) < OutCap
        /\ outbound' = Append(outbound, "attach")
        /\ main' = "ack"
        /\ UNCHANGED <<recvErr, cancelled, pipe>>
     \/ Done /\ GiveUp("canceled") /\ UNCHANGED outbound
  /\ UNCHANGED <<termVars, user, gerr, sender, sendErr, ack, stdin, typed, resizer, sizes,
                 sizesClosed, winches, recv, result, status, srvVars>>

\* enqueueSync, second half.
AwaitAck ==
  /\ main = "ack"
  /\ \/ ack = "ok" /\ main' = "first" /\ UNCHANGED <<recvErr, cancelled, pipe>>
     \/ ack \notin {"none", "ok"} /\ GiveUp(ack)
     \/ Done /\ GiveUp("canceled")
  /\ UNCHANGED <<termVars, user, gerr, sendVars, stdin, typed, resizer, sizes, sizesClosed,
                 winches, recv, result, status, srvVars>>

\* What Recv returns: the next frame or how the stream ended, or the
\* cancellation of the stream's context.
Received == (IF wire = <<>> THEN {} ELSE {Head(wire)}) \cup (IF user THEN {"rpc"} ELSE {})
Consume == wire' = IF wire = <<>> THEN wire ELSE Tail(wire)

\* The first frame.  Attached: OnAttached, and the pumps are started.
FirstFrame ==
  /\ main = "first"
  /\ \/ \E f \in Received :
          /\ Consume
          /\ \/ /\ f = "attached"
                /\ main' = "wait" /\ stdin' = "check" /\ resizer' = "select" /\ recv' = "recv"
                /\ UNCHANGED <<recvErr, cancelled, pipe, result>>
             \/ /\ f = "error"
                /\ GiveUp("none")
                /\ result' = "error"
                /\ UNCHANGED <<stdin, resizer, recv>>
             \/ /\ f \notin {"attached", "error"}
                /\ GiveUp(IF f = "rpc" THEN "rpc" ELSE "failed")
                /\ UNCHANGED <<stdin, resizer, recv, result>>
          /\ UNCHANGED halfClosed
     \/ /\ Done
        /\ halfClosed' = TRUE
        /\ GiveUp("canceled")
        /\ UNCHANGED <<stdin, resizer, recv, result, wire>>
  /\ UNCHANGED <<termVars, user, gerr, sendVars, typed, sizes, sizesClosed, winches, status,
                 server, greeted, outs>>

-----------------------------------------------------------------------------
(* sendLoop *)

SendSelect ==
  /\ sender = "select"
  /\ \/ Done /\ sender' = "closing" /\ UNCHANGED outbound
     \/ /\ outbound # <<>>
        /\ sender' = Head(outbound)
        /\ outbound' = Tail(outbound)
  /\ UNCHANGED <<termVars, main, ctxVars, sendErr, ack, pumpVars, recvVars, status, srvVars>>

Sending == sender \in {"attach", "stdin", "resize"}
Acknowledge(err) == ack' = IF sender = "attach" THEN err ELSE ack

\* Stream.Send; it may have to wait for the server to take frames.
SendOk ==
  /\ Sending
  /\ server # "ended"
  /\ sender' = "select"
  /\ Acknowledge("ok")
  /\ greeted' = (greeted \/ sender = "attach")
  /\ UNCHANGED <<termVars, main, ctxVars, sendErr, outbound, pumpVars, recvVars, status,
                 server, halfClosed, wire, outs>>

\* The stream has ended (io.EOF) or its context is cancelled.
SendFails ==
  /\ Sending
  /\ server = "ended" \/ user
  /\ \E err \in {"failed"} \cup (IF user THEN {"rpc"} ELSE {}) :
       Acknowledge(err) /\ sendErr' = err
  /\ sender' = "closing"
  /\ UNCHANGED <<termVars, main, ctxVars, outbound, pumpVars, recvVars, status, srvVars>>

\* The deferred calls come before the group learns the error.
SendCloses ==
  /\ sender = "closing"
  /\ halfClosed' = TRUE
  /\ cancelled' = TRUE
  /\ sender' = "returning"
  /\ UNCHANGED <<termVars, main, user, gerr, sendErr, outbound, ack, pumpVars, recvVars, status,
                 server, greeted, wire, outs>>

SendReturns ==
  /\ sender = "returning"
  /\ sender' = "ended"
  /\ GroupErr(sendErr)
  /\ UNCHANGED <<termVars, main, user, cancelled, sendErr, outbound, ack, pumpVars, recvVars,
                 status, srvVars>>

-----------------------------------------------------------------------------
(* stdinPump and resizePump *)

PumpRest == <<termVars, main, user, cancelled, sender, sendErr, ack, recvVars, status, srvVars>>

\* ctx.Err, once per turn.
StdinCheck ==
  /\ stdin = "check"
  /\ stdin' = IF Done THEN "ended" ELSE "read"
  /\ UNCHANGED <<PumpRest, gerr, outbound, pipe, typed, resizer, sizes, sizesClosed, winches>>

\* Read returns a chunk, or the end of the pipe: an orderly end is no error.
StdinRead ==
  /\ stdin = "read"
  /\ \/ /\ pipe = "open" /\ typed < MaxIn
        /\ stdin' = "enqueue" /\ typed' = typed + 1
        /\ UNCHANGED gerr
     \/ /\ pipe # "open"
        /\ stdin' = "ended"
        /\ GroupErr(IF pipe = "broken" THEN "failed" ELSE "none")
        /\ UNCHANGED typed
  /\ UNCHANGED <<PumpRest, outbound, pipe, resizer, sizes, sizesClosed, winches>>

\* forwardStdinChunk.
StdinEnqueue ==
  /\ stdin = "enqueue"
  /\ \/ /\ Len(outbound) < OutCap
        /\ outbound' = Append(outbound, "stdin")
        /\ stdin' = "check"
        /\ UNCHANGED gerr
     \/ Done /\ stdin' = "ended" /\ GroupErr("canceled") /\ UNCHANGED outbound
  /\ UNCHANGED <<PumpRest, pipe, typed, resizer, sizes, sizesClosed, winches>>

ResizeSelect ==
  /\ resizer = "select"
  /\ \/ Done /\ resizer' = "ended" /\ UNCHANGED sizes
     \/ sizes > 0 /\ resizer' = "enqueue" /\ sizes' = sizes - 1
     \/ sizes = 0 /\ sizesClosed /\ resizer' = "ended" /\ UNCHANGED sizes
  /\ UNCHANGED <<PumpRest, gerr, outbound, stdin, pipe, typed, sizesClosed, winches>>

ResizeEnqueue ==
  /\ resizer = "enqueue"
  /\ \/ /\ Len(outbound) < OutCap
        /\ outbound' = Append(outbound, "resize")
        /\ resizer' = "select"
        /\ UNCHANGED gerr
     \/ Done /\ resizer' = "ended" /\ GroupErr("canceled") /\ UNCHANGED outbound
  /\ UNCHANGED <<PumpRest, stdin, pipe, typed, sizes, sizesClosed, winches>>

-----------------------------------------------------------------------------
(* recvLoop *)

\* Recv and handleServerFrame; after output the context is looked at.
RecvFrame ==
  /\ recv = "recv"
  /\ \E f \in Received :
       /\ Consume
       /\ \/ /\ f = "stdout"
             /\ \/ /\ output' = output + 1
                   /\ recv' = IF Done THEN "closing" ELSE "recv"
                   /\ UNCHANGED recvErr
                \/ recvErr' = "failed" /\ recv' = "closing" /\ UNCHANGED output
             /\ UNCHANGED result
          \/ /\ f \in Endings
             /\ result' = f /\ recv' = "closing"
             /\ UNCHANGED <<output, recvErr>>
          \/ /\ f \notin Endings \cup {"stdout"}
             /\ recvErr' = (IF f = "rpc" THEN "rpc" ELSE "failed") /\ recv' = "closing"
             /\ UNCHANGED <<output, result>>
  /\ UNCHANGED <<term, opened, reset, main, ctxVars, sendVars, pumpVars, status, server,
                 greeted, halfClosed, outs>>

\* Leaves the reader of the keyboard open.
MutRecvKeepsStdin ==
  /\ recv = "closing"
  /\ cancelled' = TRUE
  /\ recv' = "returning"
  /\ UNCHANGED <<termVars, main, user, gerr, sendVars, pumpVars, recvErr, result, status, srvVars>>

\* closeStdin and cancel, deferred: before the group learns the error.
RecvCloses ==
  /\ recv = "closing"
  /\ pipe' = "closed"
  /\ cancelled' = TRUE
  /\ recv' = "returning"
  /\ UNCHANGED <<termVars, main, user, gerr, sendVars, stdin, typed, resizer, sizes, sizesClosed,
                 winches, recvErr, result, status, srvVars>>

RecvReturns ==
  /\ recv = "returning"
  /\ recv' = "ended"
  /\ GroupErr(recvErr)
  /\ UNCHANGED <<termVars, main, user, cancelled, sendVars, pumpVars, recvErr, result, status,
                 srvVars>>

-----------------------------------------------------------------------------
(* The end *)

\* exitStatusFromResult.
ExitStatus(res, err) ==
  IF res = "error" THEN "error"
  ELSE IF err # "none" THEN (IF err \in {"rpc", "canceled"} THEN err ELSE "failed")
  ELSE IF res \in {"signal", "exitN"} THEN res
  ELSE "ok"

\* Every error of the group goes into the result.
MutErrAlwaysCounts(res, err) == ExitStatus(IF err = "none" THEN res ELSE "none", err)

\* buildExitResult: an error of the group counts only if nothing else is known.
Outcome(res, err) == ExitStatus(res, IF res \in {"none", "exit0"} THEN err ELSE "none")

Members == {stdin, resizer, recv, sender}

\* Run returns as soon as its context is done.
MutNoWait ==
  /\ main = "wait" /\ Done
  /\ main' = "close" /\ status' = Outcome(result, gerr)
  /\ UNCHANGED <<termVars, ctxVars, sendVars, pumpVars, recvVars, srvVars>>

\* g.Wait after a handshake, and what Run returns.
GroupWait ==
  /\ main = "wait"
  /\ Members = {"ended"}
  /\ main' = "close" /\ status' = Outcome(result, gerr)
  /\ UNCHANGED <<termVars, ctxVars, sendVars, pumpVars, recvVars, srvVars>>

\* g.Wait of shutdownBackground: the error of the group is dropped.
ShutdownWait ==
  /\ main = "shutdown"
  /\ sender = "ended"
  /\ main' = "close" /\ status' = ExitStatus(result, recvErr)
  /\ UNCHANGED <<termVars, ctxVars, sendVars, pumpVars, recvVars, srvVars>>

\* closeCommandRuntime: a failure counts only where there is no other.
Unless(what) == IF status = "ok" THEN what ELSE status

CloseRuntime ==
  /\ main = "close"
  /\ main' = "restore"
  /\ status' \in {status, Unless("failed")}
  /\ reset' = TRUE
  /\ UNCHANGED <<term, opened, output, ctxVars, sendVars, pumpVars, recvVars, srvVars>>

RestoreTerminal ==
  /\ main = "restore"
  /\ main' = "done"
  /\ Restore
  /\ status' = IF term' = "stuck" THEN Unless("failed") ELSE status
  /\ UNCHANGED <<opened, reset, output, ctxVars, sendVars, pumpVars, recvVars, srvVars>>

-----------------------------------------------------------------------------
(* Around the client, for as long as it makes a difference *)

Running == main \notin {"close", "restore", "done"}

UserCancels ==
  /\ ~user /\ opened /\ Running
  /\ user' = TRUE
  /\ UNCHANGED <<termVars, main, cancelled, gerr, sendVars, pumpVars, recvVars, status, srvVars>>

\* The keyboard: what io.Copy of the bridge comes upon.
KeyboardEnds ==
  /\ opened /\ pipe = "open" /\ stdin # "ended" /\ Running
  /\ pipe' \in {"closed", "broken"}
  /\ UNCHANGED <<termVars, main, ctxVars, sendVars, stdin, typed, resizer, sizes, sizesClosed,
                 winches, recvVars, status, srvVars>>

\* A size, at the start and for every SIGWINCH: one that finds the channel full is
\* dropped.
Winch ==
  /\ main \notin {"load", "prepare", "size"} /\ Running /\ resizer # "ended"
  /\ ~sizesClosed /\ winches < MaxWinch
  /\ winches' = winches + 1
  /\ sizes' = IF sizes < ResizeCap THEN sizes + 1 ELSE sizes
  /\ UNCHANGED <<termVars, main, ctxVars, sendVars, stdin, pipe, typed, resizer, sizesClosed,
                 recvVars, status, srvVars>>

CloseSizes ==
  /\ main \notin {"load", "prepare", "size"} /\ Running /\ resizer # "ended"
  /\ user /\ ~sizesClosed
  /\ sizesClosed' = TRUE
  /\ UNCHANGED <<termVars, main, ctxVars, sendVars, stdin, pipe, typed, resizer, sizes, winches,
                 recvVars, status, srvVars>>

Serve(frames) == /\ wire' = wire \o frames
                 /\ UNCHANGED <<termVars, main, ctxVars, sendVars, pumpVars, recvVars, status,
                                greeted, halfClosed>>

\* The answer to the attach frame.
ServerAnswers ==
  /\ server = "idle" /\ greeted /\ Running
  /\ \E f \in {"attached", "error", "odd"} :
       Serve(<<f>>) /\ server' = IF f = "attached" THEN "open" ELSE "ending"
  /\ UNCHANGED outs

ServerOutput ==
  /\ server = "open" /\ outs < MaxOut /\ Running
  /\ outs' = outs + 1
  /\ Serve(<<"stdout">>)
  /\ UNCHANGED server

ServerEnds ==
  /\ server = "open" /\ Running
  /\ \E f \in Endings : Serve(<<f>>)
  /\ server' = "ending"
  /\ UNCHANGED outs

\* The handler returns.
ServerReturns ==
  /\ opened /\ server # "ended" /\ Running
  /\ Serve(<<IF server = "ending" THEN "eof" ELSE "rpc">>)
  /\ server' = "ended"
  /\ UNCHANGED outs

\* The connection breaks: frames on their way are lost.
Broken ==
  /\ opened /\ server # "ended" /\ Running
  /\ wire # <<>>
  /\ server' = "ended"
  /\ \E n \in 0..(Len(wire) - 1) : wire' = Append(SubSeq(wire, 1, n), "rpc")
  /\ UNCHANGED <<termVars, main, ctxVars, sendVars, pumpVars, recvVars, status, greeted,
                 halfClosed, outs>>

-----------------------------------------------------------------------------
Command == LoadConfig \/ MakeRaw \/ QuerySize \/ Dial \/ Enqueue \/ AwaitAck \/ FirstFrame
             \/ GroupWait \/ ShutdownWait \/ CloseRuntime \/ RestoreTerminal
SendLoop == SendSelect \/ SendFails \/ SendCloses \/ SendReturns
StdinPump == StdinCheck \/ StdinRead \/ StdinEnqueue
ResizePump == ResizeSelect \/ ResizeEnqueue
RecvLoop == RecvFrame \/ RecvCloses \/ RecvReturns
Remote == ServerAnswers \/ ServerOutput \/ ServerEnds \/ ServerReturns \/ Broken

Next == Command \/ SendLoop \/ SendOk \/ StdinPump \/ ResizePump \/ RecvLoop
          \/ UserCancels \/ KeyboardEnds \/ Winch \/ CloseSizes \/ Remote

Spec == Init /\ [][Next]_vars

\* Goroutines that can run do.  Nobody has to type, the server has to take no
\* frame; but once the client has closed its side, it ends the session.
FairSpec ==
  /\ Spec
  /\ WF_vars(Command) /\ WF_vars(SendLoop) /\ WF_vars(StdinEnqueue \/ StdinCheck)
  /\ WF_vars(stdin = "read" /\ pipe # "open" /\ StdinRead)
  /\ WF_vars(ResizePump) /\ WF_vars(RecvLoop)
  /\ WF_vars(halfClosed /\ ServerReturns)

-----------------------------------------------------------------------------
(* Properties *)

\* closeCommandRuntime, Prepare, prepareCommandRuntime: however it ends, the
\* command leaves no terminal in raw mode that it did not try to restore, and
\* resets the emulator exactly if the agent could have written to it.
TerminalLeftClean == main = "done" => term # "raw" /\ reset = opened

\* Run waits for its goroutines: nothing reaches the terminal after the
\* reset sequence, which would leave it in a mode the agent had set.
NoOutputAfterReset == [][reset => output' = output]_vars

\* buildExitResult, exitStatusFromResult: whatever order the goroutines end in,
\* the agent's failure and the server's error are reported as such, and
\* success only for an agent that exited with 0 or a session that was cancelled.
OutcomeKept ==
  main = "done" =>
    /\ result \in Endings \ {"exit0"} => status = result
    /\ status = "ok" => result = "exit0" \/ user

\* closeStdin, cancel and CloseSend: a session that the caller cancels, the
\* server ends or the client half-closes comes to its end, although reading
\* the keyboard and receiving cannot be interrupted by the client's context.
SessionEnds == user \/ server = "ended" \/ halfClosed ~> main = "done"
=============================================================================
