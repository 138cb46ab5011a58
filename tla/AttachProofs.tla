---------------------------- MODULE AttachProofs ----------------------------
(***************************************************************************)
(* For any capacities and bounds: the command leaves its terminal clean,   *)
(* nothing reaches the terminal after it was reset, and what it reports is *)
(* how the session ended.                                                  *)
(***************************************************************************)
EXTENDS Attach, TLAPS

Early == {"load", "prepare", "size", "dial"}
InRun == {"enqueue", "ack", "first", "wait", "shutdown"}

\* How far runCommand is says what it has done to the terminal ...
TerminalInv ==
  /\ main \in Early \cup InRun \cup {"close", "restore", "done"}
  /\ main \in {"load", "prepare"} => term = "cooked"
  /\ main \in Early => opened = FALSE /\ reset = FALSE
  /\ main \in InRun \cup {"close"} => opened = TRUE /\ reset = FALSE
  /\ main = "restore" => opened = TRUE /\ reset = TRUE
  /\ main = "done" => term # "raw" /\ reset = opened

\* ... and whether recvLoop may be running.
ReceiverInv ==
  /\ main \notin {"wait", "close", "restore", "done"} => recv = "off"
  /\ main \in {"close", "restore", "done"} => recv \in {"off", "ended"}

AttachInv == TerminalInv /\ ReceiverInv

-----------------------------------------------------------------------------
\* A step that leaves the command, its terminal and recvLoop alone.
LEMMA Untouched ==
  ASSUME AttachInv, UNCHANGED <<term, opened, reset, main, recv>>
  PROVE  AttachInv'
  BY DEF AttachInv, TerminalInv, ReceiverInv, Early, InRun

LEMMA InitAttachInv == Init => AttachInv
  BY DEF Init, AttachInv, TerminalInv, ReceiverInv, Early, InRun

\* The steps of runCommand and Run.
LEMMA CommandKeepsInv == AttachInv /\ Command => AttachInv'
<1> SUFFICES ASSUME AttachInv, Command PROVE AttachInv'
    OBVIOUS
<1> USE DEF AttachInv, TerminalInv, ReceiverInv, Early, InRun
<1>1. CASE LoadConfig
  BY <1>1 DEF LoadConfig, Return, termVars, recvVars
<1>2. CASE MakeRaw
  BY <1>2 DEF MakeRaw, Return, recvVars
<1>3. CASE QuerySize
  BY <1>3 DEF QuerySize, Return, Restore, recvVars
<1>4. CASE Dial
  BY <1>4 DEF Dial, Return, Restore, recvVars
<1>5. CASE Enqueue
  BY <1>5 DEF Enqueue, GiveUp, termVars
<1>6. CASE AwaitAck
  BY <1>6 DEF AwaitAck, GiveUp, termVars
<1>7. CASE FirstFrame
  <2>1. main = "first" /\ UNCHANGED <<term, opened, reset>>
    BY <1>7 DEF FirstFrame, termVars
  <2>2. \/ main' = "wait"
        \/ main' = "shutdown" /\ recv' = recv
    BY <1>7 DEF FirstFrame, GiveUp
  <2> QED
    BY <2>1, <2>2
<1>8. CASE GroupWait
  <2>1. recv = "ended"
    BY <1>8 DEF GroupWait, Members
  <2> QED
    BY <1>8, <2>1 DEF GroupWait, termVars, recvVars
<1>9. CASE ShutdownWait
  BY <1>9 DEF ShutdownWait, termVars, recvVars
<1>10. CASE CloseRuntime
  BY <1>10 DEF CloseRuntime, recvVars
<1>11. CASE RestoreTerminal
  BY <1>11 DEF RestoreTerminal, Restore, recvVars
<1> QED
  BY <1>1, <1>2, <1>3, <1>4, <1>5, <1>6, <1>7, <1>8, <1>9, <1>10, <1>11 DEF Command

\* recvLoop runs only while Run waits for its group.
LEMMA ReceiverKeepsInv == AttachInv /\ RecvLoop => AttachInv'
<1> SUFFICES ASSUME AttachInv, RecvLoop PROVE AttachInv'
    OBVIOUS
<1>1. recv \notin {"off", "ended"}
  BY DEF RecvLoop, RecvFrame, RecvCloses, RecvReturns
<1>2. main = "wait"
  BY <1>1 DEF AttachInv, TerminalInv, ReceiverInv, Early, InRun
<1>3. UNCHANGED <<term, opened, reset, main>>
  BY DEF RecvLoop, RecvFrame, RecvCloses, RecvReturns, termVars
<1> QED
  BY <1>2, <1>3 DEF AttachInv, TerminalInv, ReceiverInv, Early, InRun

LEMMA NextKeepsInv == AttachInv /\ [Next]_vars => AttachInv'
<1> SUFFICES ASSUME AttachInv, [Next]_vars PROVE AttachInv'
    OBVIOUS
<1>1. CASE Command
  BY <1>1, CommandKeepsInv
<1>2. CASE SendLoop \/ SendOk
  <2>1. UNCHANGED <<term, opened, reset, main, recv>>
    BY <1>2 DEF SendLoop, SendSelect, SendOk, SendFails, SendCloses, SendReturns, termVars,
                recvVars
  <2> QED
    BY <2>1, Untouched
<1>3. CASE StdinPump \/ ResizePump
  <2>1. UNCHANGED <<term, opened, reset, main, recv>>
    BY <1>3 DEF StdinPump, ResizePump, StdinCheck, StdinRead, StdinEnqueue, ResizeSelect,
                ResizeEnqueue, PumpRest, termVars, recvVars
  <2> QED
    BY <2>1, Untouched
<1>4. CASE RecvLoop
  BY <1>4, ReceiverKeepsInv
<1>5. CASE UserCancels \/ KeyboardEnds \/ Winch \/ CloseSizes
  <2>1. UNCHANGED <<term, opened, reset, main, recv>>
    BY <1>5 DEF UserCancels, KeyboardEnds, Winch, CloseSizes, termVars, recvVars
  <2> QED
    BY <2>1, Untouched
<1>6. CASE Remote
  <2>1. UNCHANGED <<term, opened, reset, main, recv>>
    BY <1>6 DEF Remote, ServerAnswers, ServerOutput, ServerEnds, ServerReturns, Broken, Serve,
                termVars, recvVars
  <2> QED
    BY <2>1, Untouched
<1>7. CASE UNCHANGED vars
  BY <1>7, Untouched DEF vars, termVars, recvVars
<1> QED
  BY <1>1, <1>2, <1>3, <1>4, <1>5, <1>6, <1>7 DEF Next

-----------------------------------------------------------------------------
(* What the command reports *)

Kinds == {"attach", "stdin", "resize"}
Ending == {"closing", "returning", "ended"}

\* Somebody has a reason to end the session.
Reason == user \/ gerr # "none" \/ sendErr # "none" \/ recvErr # "none" \/ result # "none"

\* What was received in time decides what is reported.
Reported ==
  /\ result \in Endings \ {"exit0"} => status = result
  /\ status = "ok" => result = "exit0" \/ user

\* No goroutine of the group ends, and nobody cancels the context, without a reason
\* that the group has learnt when the last of them has ended.
OutcomeInv ==
  /\ outbound \in Seq(Kinds)
  /\ result \in Endings \cup {"none"}
  /\ main \in Early \cup {"enqueue", "ack", "first"} => result = "none"
  /\ main = "shutdown" => result = "error" \/ (result = "none" /\ recvErr # "none")
  /\ cancelled \/ sender \in Ending \/ recv \in Ending => Reason
  /\ sender = "ended" /\ sendErr # "none" => gerr # "none"
  /\ recv = "ended" /\ recvErr # "none" => gerr # "none"
  /\ main \in {"close", "restore", "done"} => Reported

\* The caller may cancel and a goroutine may report an error.
LEMMA OutcomeUntouched ==
  ASSUME OutcomeInv, outbound' \in Seq(Kinds), user => user', gerr # "none" => gerr' # "none",
         UNCHANGED <<result, main, recvErr, cancelled, sender, sendErr, recv, status>>
  PROVE  OutcomeInv'
  BY DEF OutcomeInv, Reason, Reported

LEMMA InitOutcome == Init => OutcomeInv
  BY DEF Init, OutcomeInv, Reason, Reported, Early, Ending, Endings, Kinds

\* The order in which the end of the session is looked at: an outcome that was
\* received, then an error, and success only without either.
LEMMA OutcomeDecides ==
  ASSUME NEW res \in Endings \cup {"none"}, NEW err
  PROVE  /\ res \in Endings \ {"exit0"} => Outcome(res, err) = res
         /\ Outcome(res, err) = "ok" => res \in {"none", "exit0"} /\ err = "none"
         /\ res = "error" => ExitStatus(res, err) = "error"
         /\ res = "none" /\ err # "none" => ExitStatus(res, err) # "ok"
  BY DEF Outcome, ExitStatus, Endings

\* The steps of runCommand and Run.
LEMMA CommandOutcome == AttachInv /\ OutcomeInv /\ Command => OutcomeInv'
<1> SUFFICES ASSUME AttachInv, OutcomeInv, Command PROVE OutcomeInv'
    OBVIOUS
<1>1. CASE LoadConfig \/ MakeRaw \/ QuerySize
  <2>1. /\ main \in Early /\ main' \in Early \cup {"done"} /\ (main' = "done" => status' = "failed")
        /\ UNCHANGED <<outbound, user, gerr, result, recvErr, cancelled, sender, sendErr, recv>>
    BY <1>1 DEF LoadConfig, MakeRaw, QuerySize, Return, Early, ctxVars, sendVars, recvVars
  <2> QED BY <2>1 DEF OutcomeInv, Reason, Reported, Early, Endings
<1>2. CASE Dial
  <2>1. /\ main = "dial" /\ main' \in {"enqueue", "done"} /\ (main' = "done" => status' = "failed")
        /\ sender' \in {sender, "select"}
        /\ UNCHANGED <<outbound, user, gerr, result, recvErr, cancelled, sendErr, recv>>
    BY <1>2 DEF Dial, Return, ctxVars, recvVars
  <2> QED BY <2>1 DEF OutcomeInv, Reason, Reported, Early, Ending, Endings
<1>3. CASE Enqueue \/ AwaitAck
  <2>1. /\ main \in {"enqueue", "ack"}
        /\ \/ main' \in {"ack", "first"} /\ UNCHANGED <<recvErr, cancelled>>
           \/ main' = "shutdown" /\ recvErr' # "none"
        /\ UNCHANGED <<user, gerr, result, sender, sendErr, recv, status>>
    BY <1>3 DEF Enqueue, AwaitAck, GiveUp, sendVars
  <2>2. outbound' \in Seq(Kinds)
    BY <1>3 DEF Enqueue, AwaitAck, sendVars, OutcomeInv, Kinds
  <2>3. recv = "off"
    BY <2>1 DEF AttachInv, ReceiverInv
  <2> QED BY <2>1, <2>2, <2>3 DEF OutcomeInv, Reason, Reported, Early, Ending, Endings
<1>4. CASE FirstFrame
  <2>1. main = "first" /\ recv = "off" /\ UNCHANGED <<outbound, user, gerr, sender, sendErr, status>>
    BY <1>4 DEF FirstFrame, sendVars, AttachInv, ReceiverInv
  <2>2. \/ main' = "wait" /\ recv' = "recv" /\ UNCHANGED <<recvErr, cancelled, result>>
        \/ main' = "shutdown" /\ result' = "error" /\ recv' = recv
        \/ main' = "shutdown" /\ recvErr' # "none" /\ UNCHANGED <<recv, result>>
    BY <1>4 DEF FirstFrame, GiveUp
  <2> QED BY <2>1, <2>2 DEF OutcomeInv, Reason, Reported, Early, Ending, Endings
<1>5. CASE GroupWait
  <2>1. /\ main' = "close" /\ status' = Outcome(result, gerr) /\ recv = "ended" /\ sender = "ended"
        /\ UNCHANGED <<outbound, user, gerr, result, recvErr, cancelled, sender, sendErr, recv>>
    BY <1>5 DEF GroupWait, Members, ctxVars, sendVars, recvVars
  <2>2. user \/ gerr # "none" \/ result # "none"
    BY <2>1 DEF OutcomeInv, Reason, Ending
  <2>3. result \in Endings \cup {"none"}
    BY DEF OutcomeInv
  <2>4. Reported'
    BY <2>1, <2>2, <2>3, OutcomeDecides DEF Reported
  <2> QED BY <2>1, <2>4 DEF OutcomeInv, Reason, Early
<1>6. CASE ShutdownWait
  <2>1. /\ main = "shutdown" /\ main' = "close" /\ status' = ExitStatus(result, recvErr)
        /\ UNCHANGED <<outbound, user, gerr, result, recvErr, cancelled, sender, sendErr, recv>>
    BY <1>6 DEF ShutdownWait, ctxVars, sendVars, recvVars
  <2>2. result = "error" \/ (result = "none" /\ recvErr # "none")
    BY <2>1 DEF OutcomeInv
  <2>3. Reported'
    BY <2>1, <2>2, OutcomeDecides DEF Reported, Endings
  <2> QED BY <2>1, <2>3 DEF OutcomeInv, Reason, Early
<1>7. CASE CloseRuntime \/ RestoreTerminal
  <2>1. /\ main \in {"close", "restore"} /\ main' \in {"restore", "done"}
        /\ status' = status \/ status' = Unless("failed")
        /\ UNCHANGED <<outbound, user, gerr, result, recvErr, cancelled, sender, sendErr, recv>>
    BY <1>7 DEF CloseRuntime, RestoreTerminal, ctxVars, sendVars, recvVars
  <2>2. Reported'
    BY <2>1 DEF OutcomeInv, Reported, Unless, Endings
  <2> QED BY <2>1, <2>2 DEF OutcomeInv, Reason, Early
<1> QED
  BY <1>1, <1>2, <1>3, <1>4, <1>5, <1>6, <1>7 DEF Command

\* sendLoop ends because the context is done, or with an error that it passes on.
LEMMA SenderOutcome == OutcomeInv /\ (SendLoop \/ SendOk) => OutcomeInv'
<1> SUFFICES ASSUME OutcomeInv, SendLoop \/ SendOk PROVE OutcomeInv'
    OBVIOUS
<1>1. UNCHANGED <<user, result, main, recvErr, recv, status>>
  BY DEF SendLoop, SendSelect, SendOk, SendFails, SendCloses, SendReturns, ctxVars, recvVars
<1>2. CASE SendSelect
  <2>1. CASE outbound # <<>> /\ sender' = Head(outbound) /\ outbound' = Tail(outbound)
    <3>1. sender' \in Kinds /\ outbound' \in Seq(Kinds)
      BY <2>1 DEF OutcomeInv
    <3> QED BY <1>1, <1>2, <3>1
            DEF SendSelect, ctxVars, OutcomeInv, Reason, Reported, Ending, Kinds
  <2>2. CASE Done /\ sender' = "closing" /\ UNCHANGED outbound
    BY <1>1, <1>2, <2>2 DEF SendSelect, ctxVars, Done, OutcomeInv, Reason, Reported
  <2> QED BY <1>2, <2>1, <2>2 DEF SendSelect
<1>3. CASE SendOk
  BY <1>1, <1>3 DEF SendOk, ctxVars, OutcomeInv, Reason, Reported, Ending
<1>4. CASE SendFails
  <2>1. sender' = "closing" /\ sendErr' # "none" /\ UNCHANGED <<outbound, gerr, cancelled>>
    BY <1>4 DEF SendFails, ctxVars
  <2> QED BY <1>1, <2>1 DEF OutcomeInv, Reason, Reported
<1>5. CASE SendCloses
  BY <1>1, <1>5 DEF SendCloses, OutcomeInv, Reason, Reported, Ending
<1>6. CASE SendReturns
  BY <1>1, <1>6 DEF SendReturns, GroupErr, OutcomeInv, Reason, Reported, Ending
<1> QED
  BY <1>2, <1>3, <1>4, <1>5, <1>6 DEF SendLoop

\* So does recvLoop, unless it has received the outcome.
LEMMA ReceiverOutcome == AttachInv /\ OutcomeInv /\ RecvLoop => OutcomeInv'
<1> SUFFICES ASSUME AttachInv, OutcomeInv, RecvLoop PROVE OutcomeInv'
    OBVIOUS
<1>1. recv \notin {"off", "ended"}
  BY DEF RecvLoop, RecvFrame, RecvCloses, RecvReturns
<1>2. main = "wait"
  BY <1>1 DEF AttachInv, TerminalInv, ReceiverInv, Early, InRun
<1>3. UNCHANGED <<outbound, user, main, sender, sendErr, status>>
  BY DEF RecvLoop, RecvFrame, RecvCloses, RecvReturns, ctxVars, sendVars
<1>4. CASE RecvFrame
  <2>1. \/ recv' = "recv" /\ UNCHANGED <<recvErr, result>>
        \/ recv' = "closing" /\ Done /\ UNCHANGED <<recvErr, result>>
        \/ recv' = "closing" /\ recvErr' # "none" /\ UNCHANGED result
        \/ recv' = "closing" /\ result' \in Endings /\ UNCHANGED recvErr
    BY <1>4 DEF RecvFrame
  <2>2. UNCHANGED <<gerr, cancelled>>
    BY <1>4 DEF RecvFrame, ctxVars
  <2>3. recv' \in {"recv", "closing"} /\ result' \in Endings \cup {"none"}
    BY <2>1 DEF OutcomeInv
  <2>4. Reason => Reason'
    BY <1>3, <2>1, <2>2 DEF Reason, Endings
  <2>5. recv' = "closing" => Reason'
    BY <1>3, <2>1, <2>2 DEF Reason, Done, Endings, OutcomeInv
  <2> QED BY <1>2, <1>3, <2>2, <2>3, <2>4, <2>5 DEF OutcomeInv, Ending, Early
<1>5. CASE RecvCloses
  BY <1>2, <1>3, <1>5 DEF RecvCloses, OutcomeInv, Reason, Ending, Early
<1>6. CASE RecvReturns
  BY <1>2, <1>3, <1>6 DEF RecvReturns, GroupErr, OutcomeInv, Reason, Ending, Early
<1> QED
  BY <1>4, <1>5, <1>6 DEF RecvLoop

LEMMA NextOutcome == AttachInv /\ OutcomeInv /\ [Next]_vars => OutcomeInv'
<1> SUFFICES ASSUME AttachInv, OutcomeInv, [Next]_vars PROVE OutcomeInv'
    OBVIOUS
<1>1. CASE StdinPump \/ ResizePump
  <2>1. /\ UNCHANGED <<user, result, main, recvErr, cancelled, sender, sendErr, recv, status>>
        /\ gerr # "none" => gerr' # "none"
    BY <1>1 DEF StdinPump, ResizePump, StdinCheck, StdinRead, StdinEnqueue, ResizeSelect,
                ResizeEnqueue, PumpRest, GroupErr, recvVars
  <2>2. outbound' \in Seq(Kinds)
    BY <1>1 DEF StdinPump, ResizePump, StdinCheck, StdinRead, StdinEnqueue, ResizeSelect,
                ResizeEnqueue, OutcomeInv, Kinds
  <2> QED BY <2>1, <2>2, OutcomeUntouched
<1>2. CASE UserCancels \/ KeyboardEnds \/ Winch \/ CloseSizes \/ Remote \/ UNCHANGED vars
  <2> DEFINE Rest == <<outbound, gerr, result, main, recvErr, cancelled, sender, sendErr, recv, status>>
  <2>1. CASE UserCancels
    BY <2>1, OutcomeUntouched DEF UserCancels, sendVars, recvVars, OutcomeInv
  <2>2. CASE KeyboardEnds \/ Winch \/ CloseSizes \/ UNCHANGED vars
    <3>1. UNCHANGED <<Rest, user>>
      BY <2>2 DEF KeyboardEnds, Winch, CloseSizes, vars, ctxVars, sendVars, recvVars
    <3> QED BY <3>1, OutcomeUntouched DEF OutcomeInv
  <2>3. CASE Remote
    <3>1. UNCHANGED <<Rest, user>>
      BY <2>3 DEF Remote, ServerAnswers, ServerOutput, ServerEnds, ServerReturns, Broken, Serve,
                  ctxVars, sendVars, recvVars
    <3> QED BY <3>1, OutcomeUntouched DEF OutcomeInv
  <2> QED BY <1>2, <2>1, <2>2, <2>3
<1> QED
  BY <1>1, <1>2, CommandOutcome, SenderOutcome, ReceiverOutcome DEF Next

-----------------------------------------------------------------------------
\* The state of the terminal and of recvLoop follows runCommand.
THEOREM AttachInvariant == Spec => []AttachInv
  BY InitAttachInv, NextKeepsInv, PTL DEF Spec

\* runCommand, closeCommandRuntime: on every path the terminal is restored, and
\* reset exactly if the stream was opened.
THEOREM AttachLeavesTerminalClean == Spec => []TerminalLeftClean
<1>1. AttachInv => TerminalLeftClean
  BY DEF AttachInv, TerminalInv, TerminalLeftClean
<1> QED
  BY <1>1, AttachInvariant, PTL

\* Run waits for recvLoop: nothing is written to the terminal after its reset.
THEOREM AttachNoOutputAfterReset == Spec => NoOutputAfterReset
<1>1. AttachInv /\ [Next]_vars => [reset => output' = output]_vars
  <2> SUFFICES ASSUME AttachInv, [Next]_vars, reset PROVE output' = output
      OBVIOUS
  <2>1. recv \in {"off", "ended"} /\ main \in {"restore", "done"}
    BY DEF AttachInv, TerminalInv, ReceiverInv, Early, InRun
  <2>2. CASE Command
    BY <2>1, <2>2 DEF Command, LoadConfig, MakeRaw, QuerySize, Dial, Enqueue, AwaitAck,
                      FirstFrame, GroupWait, ShutdownWait, CloseRuntime, RestoreTerminal
  <2>3. CASE SendLoop \/ SendOk
    BY <2>3 DEF SendLoop, SendSelect, SendOk, SendFails, SendCloses, SendReturns, termVars
  <2>4. CASE StdinPump \/ ResizePump
    BY <2>4 DEF StdinPump, ResizePump, StdinCheck, StdinRead, StdinEnqueue, ResizeSelect,
                ResizeEnqueue, PumpRest, termVars
  <2>5. CASE RecvLoop
    BY <2>1, <2>5 DEF RecvLoop, RecvFrame, RecvCloses, RecvReturns
  <2>6. CASE UserCancels \/ KeyboardEnds \/ Winch \/ CloseSizes
    BY <2>6 DEF UserCancels, KeyboardEnds, Winch, CloseSizes, termVars
  <2>7. CASE Remote
    BY <2>7 DEF Remote, ServerAnswers, ServerOutput, ServerEnds, ServerReturns, Broken, Serve,
                termVars
  <2>8. CASE UNCHANGED vars
    BY <2>8 DEF vars, termVars
  <2> QED
    BY <2>2, <2>3, <2>4, <2>5, <2>6, <2>7, <2>8 DEF Next
<1> QED
  BY <1>1, AttachInvariant, PTL DEF Spec, NoOutputAfterReset

\* buildExitResult, exitStatusFromResult: in whichever order the goroutines of the group
\* end, an outcome that was received is what is reported, and success is reported only
\* for an agent that exited with 0 or a session the caller cancelled.
THEOREM AttachOutcomeKept == Spec => []OutcomeKept
<1>1. Init => AttachInv /\ OutcomeInv
  BY InitAttachInv, InitOutcome
<1>2. (AttachInv /\ OutcomeInv) /\ [Next]_vars => (AttachInv /\ OutcomeInv)'
  BY NextKeepsInv, NextOutcome
<1>3. OutcomeInv => OutcomeKept
  BY DEF OutcomeInv, Reported, OutcomeKept
<1> QED
  BY <1>1, <1>2, <1>3, PTL DEF Spec
=============================================================================
