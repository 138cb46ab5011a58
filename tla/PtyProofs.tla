------------------------------ MODULE PtyProofs ------------------------------
(***************************************************************************)
(* Proofs about the terminal sessions of a user, for any number of calls   *)
(* and any sizes of the channels and of the terminal.                      *)
(***************************************************************************)
EXTENDS Pty, SequenceTheorems, TLAPS

Before == {"idle", "reserving", "limiting", "starting", "spawning", "refuse"}
After == {"returning", "done"}

\* The process of a call runs after Spawn and is waited for before the call
\* returns, also when an event other than its exit ends the call.
ProcessInv ==
  \A a \in Attaches :
    /\ pc[a] \in Before => child[a] = "none" /\ streamOpen[a]
    /\ pc[a] \in After => child[a] # "running"
    /\ pc[a] \notin Before \cup After => child[a] # "none"
    /\ asked[a] => child[a] # "none"
    /\ pc[a] = "sendError" \/ hostExited[a] => waited[a] # "no"
    /\ waited[a] # "no" => child[a] = "exited"
    /\ heir[a] => child[a] = "exited"

\* The inductive invariant.
IInv == TypeOK /\ SlotHasOwner /\ ProcessInv

USE DEF callVars, inVars, outVars, hostVars, Set, Goto, Shutdown, Frames

\* The initial states satisfy the inductive invariant.
LEMMA InitIInv == Init => IInv
<1> SUFFICES ASSUME Init PROVE IInv
  OBVIOUS
<1>1. CallTypeOK
  BY DEF Init, CallTypeOK, Places
<1>2. PumpTypeOK
  BY PtyAssumption DEF Init, PumpTypeOK
<1>3. HostTypeOK
  BY PtyAssumption DEF Init, HostTypeOK
<1>4. SlotHasOwner /\ ProcessInv
  BY PtyAssumption DEF Init, SlotHasOwner, Holding, ProcessInv, Before, After
<1>5. QED
  BY <1>1, <1>2, <1>3, <1>4 DEF IInv, TypeOK

-----------------------------------------------------------------------------
(* Which part of the state a step may touch *)

\* The slot and the state of the call change by its own steps.
LEMMA OthersKeepCall ==
  [Next]_vars => (\E a \in Attaches : CallStep(a)) \/ OtherCall \/ UNCHANGED <<activePTY, pc, callVars>>
  BY DEF Next, vars, RecvFrame, PutFrame, ReadStdout, ReadFails, PutStdout, Reap, Kill,
         ChildStep, ClientLeaves

\* The channels and the pumps that fill them.
LEMMA OthersKeepPumps ==
  [Next]_vars =>
    \/ \E a \in Attaches :
         \/ Spawn(a) \/ SendAttached(a) \/ StdoutEvent(a) \/ ClientEvent(a)
         \/ RecvFrame(a) \/ PutFrame(a) \/ ReadStdout(a) \/ ReadFails(a) \/ PutStdout(a)
         \/ ClientLeaves(a)
    \/ UNCHANGED <<inVars, outVars>>
  BY DEF Next, vars, CallStep, ReceiveAttach, RegisterPTY, EnforceAttachLimit, StartHost, SendStdout,
         StdoutEnds, ExitEvent, WriteStdin, ResizeHost, WaitHostSilently, SendError, Finish, UnregisterPTY,
         OtherCall, Reap, Kill, ChildStep

\* The process, its terminal and the request that it end.
LEMMA OthersKeepHost ==
  [Next]_vars =>
    \/ \E a \in Attaches :
         \/ Spawn(a) \/ SendAttached(a) \/ StdoutEvent(a) \/ SendStdout(a) \/ ClientEvent(a)
         \/ WriteStdin(a) \/ ResizeHost(a) \/ ReadStdout(a) \/ ReadFails(a)
         \/ Reap(a) \/ Kill(a) \/ ChildStep(a)
    \/ UNCHANGED hostVars
  BY DEF Next, vars, CallStep, ReceiveAttach, RegisterPTY, EnforceAttachLimit, StartHost, StdoutEnds,
         ExitEvent, WaitHostSilently, SendError, Finish, UnregisterPTY, OtherCall, RecvFrame,
         PutFrame, PutStdout, ClientLeaves

-----------------------------------------------------------------------------
(* Every step keeps the types *)

\* A step of a call keeps the type of what the call knows.
LEMMA CallType ==
  ASSUME CallTypeOK, NEW a \in Attaches, CallStep(a)
  PROVE  CallTypeOK'
<1> USE DEF CallTypeOK, Places
<1>1. CASE ReceiveAttach(a) \/ EnforceAttachLimit(a) \/ StartHost(a)
  BY <1>1 DEF ReceiveAttach, EnforceAttachLimit, StartHost
<1>2. CASE RegisterPTY(a)
  BY <1>2 DEF RegisterPTY
<1>3. CASE Spawn(a)
  BY <1>3 DEF Spawn
<1>4. CASE SendAttached(a)
  BY <1>4 DEF SendAttached
<1>5. CASE StdoutEvent(a)
  <2>1. /\ UNCHANGED <<activePTY, clientOn, streamOpen, hostExited, sent, last>>
        /\ stdoutClosed' = stdoutClosed \/ stdoutClosed' = [stdoutClosed EXCEPT ![a] = TRUE]
        /\ pc' = pc \/ \E place \in {"sending", "waitHost"} : pc' = [pc EXCEPT ![a] = place]
    BY <1>5 DEF StdoutEvent, FailLoop
  <2>2. stdoutClosed' \in [Attaches -> BOOLEAN]
    BY <2>1
  <2>3. pc' \in [Attaches -> Places]
    BY <2>1
  <2>4. QED
    BY <2>1, <2>2, <2>3
<1>14. CASE SendStdout(a)
  <2>1. /\ UNCHANGED <<activePTY, clientOn, stdoutClosed, hostExited, last>>
        /\ sent' = sent \/ sent' = [sent EXCEPT ![a] = sent[a] + 1]
        /\ streamOpen' = streamOpen \/ streamOpen' = [streamOpen EXCEPT ![a] = FALSE]
        /\ pc' = [pc EXCEPT ![a] = "loop"]
    BY <1>14 DEF SendStdout, CloseStream
  <2>2. sent' \in [Attaches -> Nat]
    BY <2>1
  <2>3. streamOpen' \in [Attaches -> BOOLEAN]
    BY <2>1
  <2>4. QED
    BY <2>1, <2>2, <2>3
<1>6. CASE StdoutEnds(a)
  BY <1>6 DEF StdoutEnds
<1>7. CASE ClientEvent(a)
  BY <1>7 DEF ClientEvent, ClientGone, CloseStream, FailLoop
<1>8. CASE ExitEvent(a)
  BY <1>8 DEF ExitEvent
<1>9. CASE WriteStdin(a) \/ ResizeHost(a)
  BY <1>9 DEF WriteStdin, ResizeHost, FailLoop
<1>10. CASE WaitHostSilently(a)
  BY <1>10 DEF WaitHostSilently
<1>11. CASE SendError(a)
  BY <1>11 DEF SendError
<1>12. CASE Finish(a)
  BY <1>12 DEF Finish
<1>13. CASE UnregisterPTY(a)
  BY <1>13 DEF UnregisterPTY
<1>15. QED
  BY <1>1, <1>2, <1>3, <1>4, <1>5, <1>6, <1>7, <1>8, <1>9, <1>10, <1>11, <1>12, <1>13, <1>14
     DEF CallStep

\* Every step keeps the types of the channels, and their bounds.
LEMMA NextPumpType == PumpTypeOK /\ [Next]_vars => PumpTypeOK'
<1> SUFFICES ASSUME PumpTypeOK, [Next]_vars PROVE PumpTypeOK'
  OBVIOUS
<1> USE PtyAssumption DEF PumpTypeOK
<1>1. CASE UNCHANGED <<inVars, outVars>>
  BY <1>1
<1>2. ASSUME NEW a \in Attaches, Spawn(a) \/ SendAttached(a) \/ ClientLeaves(a)
      PROVE  PumpTypeOK'
  BY <1>2 DEF Spawn, SendAttached, ClientLeaves
<1>3. ASSUME NEW a \in Attaches, StdoutEvent(a)
      PROVE  PumpTypeOK'
  <2>1. /\ stdoutCh' = [stdoutCh EXCEPT ![a] = Tail(stdoutCh[a])]
        /\ stdoutCh[a] # <<>>
        /\ UNCHANGED <<inVars, pump>>
    BY <1>3 DEF StdoutEvent
  <2>2. QED
    BY <2>1
<1>4. ASSUME NEW a \in Attaches, ClientEvent(a)
      PROVE  PumpTypeOK'
  <2>1. /\ clientCh' = [clientCh EXCEPT ![a] = Tail(clientCh[a])]
        /\ clientCh[a] # <<>>
        /\ UNCHANGED <<client, frames, recv, outVars>>
    BY <1>4 DEF ClientEvent
  <2>2. QED
    BY <2>1
<1>5. ASSUME NEW a \in Attaches, RecvFrame(a)
      PROVE  PumpTypeOK'
  <2>1. /\ UNCHANGED <<client, clientCh, outVars>>
        /\ frames' = frames \/ (frames[a] < MaxIn /\ frames' = [frames EXCEPT ![a] = frames[a] + 1])
        /\ \E f \in Frames \cup {"err"} : recv' = [recv EXCEPT ![a] = f]
    BY <1>5 DEF RecvFrame
  <2>2. frames' \in [Attaches -> 0..MaxIn]
    <3>1. CASE frames' = frames
      BY <3>1
    <3>2. CASE frames[a] < MaxIn /\ frames' = [frames EXCEPT ![a] = frames[a] + 1]
      BY <3>2
    <3>3. QED
      BY <2>1, <3>1, <3>2
  <2>3. recv' \in [Attaches -> Frames \cup {"none", "recv", "err", "ended"}]
    BY <2>1
  <2>4. QED
    BY <2>1, <2>2, <2>3
<1>6. ASSUME NEW a \in Attaches, PutFrame(a)
      PROVE  PumpTypeOK'
  BY <1>6 DEF PutFrame
<1>7. ASSUME NEW a \in Attaches, ReadStdout(a) \/ ReadFails(a)
      PROVE  PumpTypeOK'
  BY <1>7 DEF ReadStdout, ReadFails
<1>8. ASSUME NEW a \in Attaches, PutStdout(a)
      PROVE  PumpTypeOK'
  BY <1>8 DEF PutStdout
<1>9. QED
  BY <1>1, <1>2, <1>3, <1>4, <1>5, <1>6, <1>7, <1>8, OthersKeepPumps

\* Every step keeps the types of the process and of its terminal.
LEMMA NextHostType == HostTypeOK /\ [Next]_vars => HostTypeOK'
<1> SUFFICES ASSUME HostTypeOK, [Next]_vars PROVE HostTypeOK'
  OBVIOUS
<1> USE PtyAssumption DEF HostTypeOK
<1>1. CASE UNCHANGED hostVars
  BY <1>1
<1>2. ASSUME NEW a \in Attaches, Spawn(a) \/ SendAttached(a)
      PROVE  HostTypeOK'
  BY <1>2 DEF Spawn, SendAttached
<1>3. ASSUME NEW a \in Attaches, StdoutEvent(a) \/ SendStdout(a) \/ ClientEvent(a)
      PROVE  HostTypeOK'
  <2>1. /\ asked' = asked \/ asked' = [asked EXCEPT ![a] = TRUE]
        /\ UNCHANGED <<child, heir, killed, waited, ptmxClosed, ttyIn, ttyOut, produced>>
    BY <1>3 DEF StdoutEvent, SendStdout, ClientEvent, ClientGone, CloseStream, FailLoop
  <2>2. QED
    BY <2>1
<1>4. ASSUME NEW a \in Attaches, WriteStdin(a) \/ ResizeHost(a)
      PROVE  HostTypeOK'
  <2>1. /\ UNCHANGED <<child, heir, killed, waited, ptmxClosed, ttyOut, produced>>
        /\ asked' = asked \/ asked' = [asked EXCEPT ![a] = TRUE]
    BY <1>4 DEF WriteStdin, ResizeHost, FailLoop
  <2>2. ttyIn' = ttyIn \/ (ttyIn[a] < TtyIn /\ ttyIn' = [ttyIn EXCEPT ![a] = ttyIn[a] + 1])
    BY <1>4 DEF WriteStdin, ResizeHost
  <2>3. ttyIn' \in [Attaches -> 0..TtyIn]
    BY <2>2
  <2>4. asked' \in [Attaches -> BOOLEAN]
    BY <2>1
  <2>5. QED
    BY <2>1, <2>3, <2>4
<1>5. ASSUME NEW a \in Attaches, ReadStdout(a) \/ ReadFails(a)
      PROVE  HostTypeOK'
  <2>1. /\ UNCHANGED <<asked, child, heir, killed, waited, ttyIn, produced>>
        /\ ptmxClosed' = ptmxClosed \/ ptmxClosed' = [ptmxClosed EXCEPT ![a] = TRUE]
    BY <1>5 DEF ReadStdout, ReadFails
  <2>2. ttyOut' = ttyOut \/ (ttyOut[a] > 0 /\ ttyOut' = [ttyOut EXCEPT ![a] = ttyOut[a] - 1])
    BY <1>5 DEF ReadStdout, ReadFails
  <2>3. ttyOut' \in [Attaches -> 0..TtyOut]
    BY <2>2
  <2>4. ptmxClosed' \in [Attaches -> BOOLEAN]
    BY <2>1
  <2>5. QED
    BY <2>1, <2>3, <2>4
<1>6. ASSUME NEW a \in Attaches, Reap(a) \/ Kill(a)
      PROVE  HostTypeOK'
  <2>1. CASE Reap(a)
    BY <2>1 DEF Reap
  <2>2. CASE Kill(a)
    BY <2>2 DEF Kill
  <2>3. QED
    BY <1>6, <2>1, <2>2
<1>7. ASSUME NEW a \in Attaches, ChildStep(a)
      PROVE  HostTypeOK'
  <2>1. /\ UNCHANGED <<asked, killed, waited, ptmxClosed>>
        /\ child' = child \/ child' = [child EXCEPT ![a] = "exited"]
        /\ heir' = heir \/ \E left \in BOOLEAN : heir' = [heir EXCEPT ![a] = left]
    BY <1>7, Zenon DEF ChildStep
  <2>2. /\ ttyIn' = ttyIn \/ (ttyIn[a] > 0 /\ ttyIn' = [ttyIn EXCEPT ![a] = ttyIn[a] - 1])
        /\ ttyOut' = ttyOut \/ (ttyOut[a] < TtyOut /\ ttyOut' = [ttyOut EXCEPT ![a] = ttyOut[a] + 1])
        /\ \/ produced' = produced
           \/ produced[a] < MaxOut /\ produced' = [produced EXCEPT ![a] = produced[a] + 1]
    BY <1>7 DEF ChildStep
  <2>3. ttyIn' \in [Attaches -> 0..TtyIn]
    BY <2>2
  <2>4. ttyOut' \in [Attaches -> 0..TtyOut]
    BY <2>2
  <2>5. produced' \in [Attaches -> 0..MaxOut]
    BY <2>2
  <2>6. child' \in [Attaches -> {"none", "running", "exited"}]
    BY <2>1
  <2>7. heir' \in [Attaches -> BOOLEAN]
    <3>1. CASE heir' = heir
      BY <3>1
    <3>2. ASSUME NEW left \in BOOLEAN, heir' = [heir EXCEPT ![a] = left]
          PROVE  heir' \in [Attaches -> BOOLEAN]
      BY <3>2
    <3> QED BY <2>1, <3>1, <3>2
  <2> QED BY <2>1, <2>3, <2>4, <2>5, <2>6, <2>7
<1>8. QED
  BY <1>1, <1>2, <1>3, <1>4, <1>5, <1>6, <1>7, OthersKeepHost

\* Every step keeps the types.
LEMMA NextTypeOK == TypeOK /\ [Next]_vars => TypeOK'
<1> SUFFICES ASSUME TypeOK, [Next]_vars PROVE TypeOK'
  OBVIOUS
<1>1. CallTypeOK'
  <2>1. CASE UNCHANGED <<activePTY, pc, callVars>>
    BY <2>1 DEF TypeOK, CallTypeOK
  <2>2. CASE OtherCall
    BY <2>2 DEF TypeOK, CallTypeOK, OtherCall
  <2>3. ASSUME NEW a \in Attaches, CallStep(a)
        PROVE  CallTypeOK'
    BY <2>3, CallType DEF TypeOK
  <2>4. QED
    BY <2>1, <2>2, <2>3, OthersKeepCall
<1>2. QED
  BY <1>1, NextPumpType, NextHostType DEF TypeOK

-----------------------------------------------------------------------------
(* Every step keeps the slot with its owner *)

\* How a call moves on: from one place to another of the same side of the two
\* steps that take and give back the slot.
LEMMA CallMoves ==
  ASSUME TypeOK, NEW a \in Attaches, CallStep(a)
  PROVE  \/ RegisterPTY(a) \/ UnregisterPTY(a)
         \/ /\ UNCHANGED activePTY
            /\ \E place \in Places :
                 /\ pc' = [pc EXCEPT ![a] = place]
                 /\ Holding(a) <=> place \notin {"idle", "reserving", "done"}
<1> USE DEF TypeOK, CallTypeOK, Places, Holding
<1>1. CASE ReceiveAttach(a) \/ EnforceAttachLimit(a) \/ StartHost(a)
  BY <1>1 DEF ReceiveAttach, EnforceAttachLimit, StartHost
<1>2. CASE Spawn(a) \/ SendAttached(a)
  BY <1>2 DEF Spawn, SendAttached
<1>3. CASE StdoutEvent(a) \/ SendStdout(a)
  BY <1>3 DEF StdoutEvent, SendStdout, FailLoop, InLoop
<1>4. CASE StdoutEnds(a) \/ ExitEvent(a)
  BY <1>4 DEF StdoutEnds, ExitEvent, InLoop
<1>5. CASE ClientEvent(a)
  BY <1>5 DEF ClientEvent, ClientGone, CloseStream, FailLoop, InLoop
<1>6. CASE WriteStdin(a) \/ ResizeHost(a)
  BY <1>6 DEF WriteStdin, ResizeHost, FailLoop
<1>7. CASE WaitHostSilently(a) \/ SendError(a) \/ Finish(a)
  BY <1>7 DEF WaitHostSilently, SendError, Finish
<1>8. QED
  BY <1>1, <1>2, <1>3, <1>4, <1>5, <1>6, <1>7 DEF CallStep

\* Every step keeps the slot with its owner.
LEMMA NextSlot == TypeOK /\ SlotHasOwner /\ [Next]_vars => SlotHasOwner'
<1> SUFFICES ASSUME TypeOK, SlotHasOwner, [Next]_vars PROVE SlotHasOwner'
  OBVIOUS
<1> USE DEF SlotHasOwner, Holding
<1>1. CASE UNCHANGED <<activePTY, pc, callVars>>
  BY <1>1
<1>2. CASE OtherCall
  BY <1>2, PtyAssumption DEF OtherCall
<1>3. ASSUME NEW a \in Attaches, RegisterPTY(a)
      PROVE  SlotHasOwner'
  BY <1>3, PtyAssumption DEF RegisterPTY, TypeOK, CallTypeOK
<1>4. ASSUME NEW a \in Attaches, UnregisterPTY(a)
      PROVE  SlotHasOwner'
  BY <1>4, PtyAssumption DEF UnregisterPTY, TypeOK, CallTypeOK
<1>5. ASSUME NEW a \in Attaches, CallStep(a), ~RegisterPTY(a), ~UnregisterPTY(a)
      PROVE  SlotHasOwner'
  <2>1. PICK place \in Places :
          /\ pc' = [pc EXCEPT ![a] = place]
          /\ Holding(a) <=> place \notin {"idle", "reserving", "done"}
          /\ UNCHANGED activePTY
    BY <1>5, CallMoves
  <2>2. QED
    BY <2>1 DEF TypeOK, CallTypeOK
<1>6. QED
  BY <1>1, <1>2, <1>3, <1>4, <1>5, OthersKeepCall

-----------------------------------------------------------------------------
(* Every step keeps the process within its call *)

\* A step of a call keeps its process within it.
LEMMA CallKeepsProcess ==
  ASSUME TypeOK, ProcessInv, NEW a \in Attaches, CallStep(a)
  PROVE  ProcessInv'
<1> USE DEF TypeOK, CallTypeOK, HostTypeOK, ProcessInv, Before, After, Places
<1>1. CASE ReceiveAttach(a) \/ EnforceAttachLimit(a) \/ StartHost(a)
  BY <1>1 DEF ReceiveAttach, EnforceAttachLimit, StartHost
<1>2. CASE RegisterPTY(a) \/ UnregisterPTY(a)
  BY <1>2 DEF RegisterPTY, UnregisterPTY
<1>3. CASE Spawn(a)
  BY <1>3 DEF Spawn
<1>4. CASE SendAttached(a)
  BY <1>4 DEF SendAttached
<1>5. CASE StdoutEvent(a) \/ SendStdout(a)
  <2>1. CASE StdoutEvent(a)
    <3>1. /\ pc[a] = "loop"
          /\ UNCHANGED <<streamOpen, hostExited, child, heir, waited>>
      BY <2>1 DEF StdoutEvent, InLoop
    <3>2. \/ UNCHANGED <<pc, asked>>
          \/ pc' = [pc EXCEPT ![a] = "sending"] /\ UNCHANGED asked
          \/ pc' = [pc EXCEPT ![a] = "waitHost"] /\ asked' = [asked EXCEPT ![a] = TRUE]
      BY <2>1, Zenon DEF StdoutEvent, FailLoop
    <3>3. CASE UNCHANGED <<pc, asked>>
      BY <3>1, <3>3
    <3>4. CASE pc' = [pc EXCEPT ![a] = "sending"] /\ UNCHANGED asked
      BY <3>1, <3>4
    <3>5. CASE pc' = [pc EXCEPT ![a] = "waitHost"] /\ asked' = [asked EXCEPT ![a] = TRUE]
      BY <3>1, <3>5
    <3> QED BY <3>2, <3>3, <3>4, <3>5
  <2>2. CASE SendStdout(a)
    BY <2>2, SMTT(30) DEF SendStdout, CloseStream
  <2> QED BY <1>5, <2>1, <2>2
<1>6. CASE StdoutEnds(a)
  BY <1>6 DEF StdoutEnds
<1>7. CASE ClientEvent(a)
  BY <1>7, SMTT(30) DEF ClientEvent, ClientGone, CloseStream, FailLoop, InLoop
<1>8. CASE WriteStdin(a) \/ ResizeHost(a)
  BY <1>8 DEF WriteStdin, ResizeHost, FailLoop
<1>9. CASE ExitEvent(a)
  BY <1>9 DEF ExitEvent, InLoop
<1>10. CASE WaitHostSilently(a) \/ SendError(a)
  BY <1>10 DEF WaitHostSilently, SendError
<1>11. CASE Finish(a)
  BY <1>11 DEF Finish, readyToExit
<1>12. QED
  BY <1>1, <1>2, <1>3, <1>4, <1>5, <1>6, <1>7, <1>8, <1>9, <1>10, <1>11 DEF CallStep

\* Every step keeps the process of a call within the call.
LEMMA NextProcess == TypeOK /\ ProcessInv /\ [Next]_vars => ProcessInv'
<1> SUFFICES ASSUME TypeOK, ProcessInv, [Next]_vars PROVE ProcessInv'
  OBVIOUS
<1>1. CASE UNCHANGED <<pc, streamOpen, hostExited, asked, child, heir, waited>>
  BY <1>1 DEF ProcessInv
<1>2. ASSUME NEW a \in Attaches, CallStep(a)
      PROVE  ProcessInv'
  BY <1>2, CallKeepsProcess
<1>3. ASSUME NEW a \in Attaches, Reap(a) \/ Kill(a) \/ ChildStep(a)
      PROVE  ProcessInv'
  <2> USE DEF TypeOK, CallTypeOK, HostTypeOK, ProcessInv, Before, After
  <2>1. CASE Reap(a)
    BY <2>1 DEF Reap
  <2>2. CASE Kill(a)
    <3>1. child[a] # "none" /\ waited[a] = "no"
      BY <2>2 DEF Kill
    <3>2. QED
      BY <2>2, <3>1 DEF Kill
  <2>3. CASE ChildStep(a)
    BY <2>3 DEF ChildStep, HasTerminal
  <2>4. QED
    BY <1>3, <2>1, <2>2, <2>3
<1>4. QED
  <2>1. ASSUME NEW a \in Attaches,
               RecvFrame(a) \/ PutFrame(a) \/ ReadStdout(a) \/ ReadFails(a) \/ PutStdout(a)
                 \/ ClientLeaves(a)
        PROVE  UNCHANGED <<pc, streamOpen, hostExited, asked, child, heir, waited>>
    BY <2>1 DEF RecvFrame, PutFrame, ReadStdout, ReadFails, PutStdout, ClientLeaves
  <2>2. CASE OtherCall \/ UNCHANGED vars
    BY <1>1, <2>2 DEF OtherCall, vars
  <2>3. QED
    BY <1>1, <1>2, <1>3, <2>1, <2>2 DEF Next

-----------------------------------------------------------------------------
(* Where the output of the process is *)

Out == {"data", "eof", "err"}

\* pumpStdout puts what ends the output after all of it.
Marker(q) == q # <<>> /\ q[Len(q)] # "data"
OnlyLast(q) == \A i \in 1..(Len(q) - 1) : q[i] = "data"

\* All that will be written was, and all of it was read; or the process was killed.
Drained(a) == killed[a] \/ (~HasTerminal(a) /\ ttyOut[a] = 0)

\* While the stream is open every chunk of output is somewhere: sent, in stdoutCh, in the
\* terminal or in the hands of the pump or of the loop.
Markers(q) == IF Marker(q) THEN 1 ELSE 0
InHand(a) == IF pump[a] = "data" THEN 1 ELSE 0
Queued(a) == Len(stdoutCh[a])
InLoopsHand(a) == IF pc[a] = "sending" THEN 1 ELSE 0
Conserved(a) ==
  produced[a] + Markers(stdoutCh[a]) =
    sent[a] + Queued(a) + ttyOut[a] + InHand(a) + InLoopsHand(a)

\* Why the loop may believe that there is no more output.
EndInv(a) ==
  /\ pump[a] = "eof" \/ (Marker(stdoutCh[a]) /\ stdoutCh[a][Len(stdoutCh[a])] = "eof") => Drained(a)
  /\ streamOpen[a] /\ pump[a] = "ended" =>
       Marker(stdoutCh[a]) \/ stdoutClosed[a] \/ pc[a] \in {"waitHost", "sendError"} \cup After
  /\ streamOpen[a] /\ stdoutClosed[a] => Drained(a) /\ pump[a] = "ended" /\ stdoutCh[a] = <<>>

FlowOf(a) ==
  /\ pc[a] \in Before => pump[a] = "none"
  /\ OnlyLast(stdoutCh[a])
  /\ Marker(stdoutCh[a]) => pump[a] = "ended"
  /\ ptmxClosed[a] => killed[a] \/ pump[a] \in {"eof", "err", "ended"}
  /\ EndInv(a)
  /\ streamOpen[a] => Conserved(a)
  /\ last[a] = "exited" => /\ child[a] = "exited" /\ pc[a] \in After
                           /\ killed[a] \/ (sent[a] = produced[a] /\ ~heir[a])

FlowInv == \A a \in Attaches : FlowOf(a)

LEMMA InitFlow == Init => FlowInv
<1> SUFFICES ASSUME Init, NEW a \in Attaches PROVE FlowOf(a)
  BY DEF FlowInv
<1>1. Len(<<>>) = 0
  OBVIOUS
<1> QED BY <1>1 DEF Init, FlowOf, EndInv, Conserved, Markers, InHand, Queued, InLoopsHand, HasTerminal, Marker, OnlyLast, Before

\* The loop takes the first event: only the last may be the end of the output.
LEMMA TakeFirst ==
  ASSUME NEW q \in Seq(Out), q # <<>>, OnlyLast(q)
  PROVE  /\ OnlyLast(Tail(q)) /\ Len(Tail(q)) = Len(q) - 1 /\ Len(q) \in Nat
         /\ Head(q) = "data" => /\ Marker(Tail(q)) <=> Marker(q)
                                /\ Marker(q) => Tail(q)[Len(Tail(q))] = q[Len(q)]
         /\ Head(q) # "data" => Marker(q) /\ Tail(q) = <<>> /\ q[Len(q)] = Head(q)
<1>1. /\ Len(q) \in Nat \ {0} /\ Len(Tail(q)) = Len(q) - 1 /\ Tail(q) \in Seq(Out) /\ Head(q) = q[1]
      /\ \A i \in 1..(Len(q) - 1) : Tail(q)[i] = q[i + 1]
  BY HeadTailProperties
<1>2. OnlyLast(Tail(q))
  BY <1>1 DEF OnlyLast
<1>3. CASE Len(q) = 1
  <2>1. Len(Tail(q)) = 0 /\ Tail(q) \in Seq(Out)
    BY <1>1, <1>3
  <2>2. Tail(q) = <<>>
    BY <2>1, EmptySeq
  <2> QED BY <1>1, <1>2, <1>3, <2>2 DEF Marker
<1>4. CASE Len(q) # 1
  <2>1. Len(q) - 1 \in 1..(Len(q) - 1) /\ 1 \in 1..(Len(q) - 1)
    BY <1>1, <1>4
  <2>2. Tail(q)[Len(Tail(q))] = q[Len(q)] /\ Tail(q) # <<>>
    BY <1>1, <1>4, <2>1
  <2>3. Head(q) = "data"
    BY <1>1, <2>1 DEF OnlyLast
  <2> QED BY <1>1, <1>2, <2>2, <2>3 DEF Marker
<1> QED BY <1>3, <1>4

LEMMA PutLast ==
  ASSUME NEW q \in Seq(Out), NEW e \in Out, OnlyLast(q), ~Marker(q)
  PROVE  /\ OnlyLast(Append(q, e)) /\ Len(Append(q, e)) = Len(q) + 1 /\ Len(q) \in Nat
         /\ Marker(Append(q, e)) <=> e # "data"
         /\ Append(q, e)[Len(Append(q, e))] = e
<1>1. /\ Len(q) \in Nat /\ Len(Append(q, e)) = Len(q) + 1 /\ Append(q, e) # <<>>
      /\ Append(q, e)[Len(q) + 1] = e
      /\ \A i \in 1..Len(q) : Append(q, e)[i] = q[i]
  BY AppendProperties
<1>2. \A i \in 1..Len(q) : q[i] = "data"
  <2> SUFFICES ASSUME NEW i \in 1..Len(q) PROVE q[i] = "data"
    OBVIOUS
  <2>1. CASE i = Len(q)
    <3>1. q # <<>>
      BY <1>1, <2>1
    <3> QED BY <2>1, <3>1 DEF Marker
  <2>2. CASE i # Len(q)
    BY <1>1, <2>2 DEF OnlyLast
  <2> QED BY <2>1, <2>2
<1> QED BY <1>1, <1>2 DEF OnlyLast, Marker

\* A step of one call or of its process is not seen by another.
Same(b) ==
  /\ pc'[b] = pc[b] /\ sent'[b] = sent[b] /\ last'[b] = last[b]
  /\ streamOpen'[b] = streamOpen[b] /\ stdoutClosed'[b] = stdoutClosed[b]
  /\ pump'[b] = pump[b] /\ stdoutCh'[b] = stdoutCh[b]
  /\ child'[b] = child[b] /\ heir'[b] = heir[b] /\ killed'[b] = killed[b] /\ ptmxClosed'[b] = ptmxClosed[b]
  /\ ttyOut'[b] = ttyOut[b] /\ produced'[b] = produced[b]

LEMMA SameFlow ==
  ASSUME NEW b \in Attaches, FlowOf(b), Same(b)
  PROVE  FlowOf(b)'
  BY DEF Same, FlowOf, EndInv, Drained, Conserved, Markers, InHand, Queued, InLoopsHand, HasTerminal, Marker, OnlyLast

LEMMA OthersSame ==
  ASSUME TypeOK, NEW a \in Attaches, NEW b \in Attaches, a # b,
         \/ CallStep(a) \/ RecvFrame(a) \/ PutFrame(a) \/ ReadStdout(a) \/ ReadFails(a)
         \/ PutStdout(a) \/ Reap(a) \/ Kill(a) \/ ChildStep(a) \/ ClientLeaves(a)
  PROVE  Same(b)
<1> USE DEF TypeOK, CallTypeOK, PumpTypeOK, HostTypeOK, Same
<1>1. CASE ReceiveAttach(a) \/ EnforceAttachLimit(a) \/ StartHost(a) \/ RegisterPTY(a) \/ UnregisterPTY(a)
  <2>1. (\E place : Goto(a, place)) /\ UNCHANGED <<callVars, inVars, outVars, hostVars>>
    BY <1>1, Zenon DEF ReceiveAttach, EnforceAttachLimit, StartHost, RegisterPTY, UnregisterPTY
  <2> QED BY <2>1
<1>2. CASE Spawn(a) \/ SendAttached(a)
  BY <1>2 DEF Spawn, SendAttached
<1>3. CASE StdoutEvent(a) \/ SendStdout(a)
  BY <1>3, SMTT(30) DEF StdoutEvent, SendStdout, CloseStream, FailLoop
<1>4. CASE StdoutEnds(a) \/ ExitEvent(a)
  BY <1>4 DEF StdoutEnds, ExitEvent
<1>5. CASE ClientEvent(a)
  BY <1>5 DEF ClientEvent, ClientGone, CloseStream, FailLoop
<1>6. CASE WriteStdin(a) \/ ResizeHost(a)
  BY <1>6 DEF WriteStdin, ResizeHost, FailLoop
<1>7. CASE WaitHostSilently(a) \/ SendError(a) \/ Finish(a)
  BY <1>7 DEF WaitHostSilently, SendError, Finish
<1>8. CASE RecvFrame(a) \/ PutFrame(a) \/ ClientLeaves(a)
  BY <1>8 DEF RecvFrame, PutFrame, ClientLeaves
<1>9. CASE ReadStdout(a) \/ ReadFails(a) \/ PutStdout(a)
  BY <1>9, SMTT(30) DEF ReadStdout, ReadFails, PutStdout
<1>10. CASE Reap(a) \/ Kill(a) \/ ChildStep(a)
  BY <1>10, SMTT(30) DEF Reap, Kill, ChildStep
<1> QED BY <1>1, <1>2, <1>3, <1>4, <1>5, <1>6, <1>7, <1>8, <1>9, <1>10 DEF CallStep

\* The types of what belongs to one call.
LEMMA TypesOf ==
  ASSUME TypeOK, NEW a \in Attaches
  PROVE  /\ pc[a] \in Places /\ sent[a] \in Nat /\ stdoutCh[a] \in Seq(Out)
         /\ streamOpen[a] \in BOOLEAN /\ stdoutClosed[a] \in BOOLEAN
         /\ pump[a] \in {"none", "read", "data", "eof", "err", "ended"}
         /\ child[a] \in {"none", "running", "exited"} /\ killed[a] \in BOOLEAN /\ heir[a] \in BOOLEAN
         /\ ttyOut[a] \in Nat /\ produced[a] \in Nat
         /\ Markers(stdoutCh[a]) \in Nat /\ InHand(a) \in Nat /\ Queued(a) \in Nat /\ InLoopsHand(a) \in Nat
<1>1. pc[a] \in Places /\ sent[a] \in Nat /\ streamOpen[a] \in BOOLEAN /\ stdoutClosed[a] \in BOOLEAN
  BY DEF TypeOK, CallTypeOK
<1>2. stdoutCh[a] \in Seq(Out) /\ pump[a] \in {"none", "read", "data", "eof", "err", "ended"}
  BY DEF TypeOK, PumpTypeOK, Out
<1>3. child[a] \in {"none", "running", "exited"} /\ killed[a] \in BOOLEAN /\ heir[a] \in BOOLEAN
  BY DEF TypeOK, HostTypeOK
<1>4. ttyOut[a] \in 0..TtyOut /\ produced[a] \in 0..MaxOut
  BY DEF TypeOK, HostTypeOK
<1>5. Markers(stdoutCh[a]) \in Nat /\ InHand(a) \in Nat /\ Queued(a) \in Nat /\ InLoopsHand(a) \in Nat
  BY <1>2 DEF Markers, InHand, Queued, InLoopsHand
<1> QED BY <1>1, <1>2, <1>3, <1>4, <1>5

\* A step that moves the call on and leaves the output alone.
LEMMA MoveFlow ==
  ASSUME TypeOK, NEW a \in Attaches, FlowOf(a), NEW place \in Places,
         pc' = [pc EXCEPT ![a] = place],
         place \in Before => pc[a] \in Before,
         pc[a] \in {"waitHost", "sendError"} \cup After =>
           place \in {"waitHost", "sendError"} \cup After \/ ~streamOpen[a],
         last'[a] = last[a] \/ last'[a] # "exited",
         pc[a] \in After => place \in After, pc[a] # "sending", place # "sending",
         streamOpen'[a] = streamOpen[a] \/ streamOpen'[a] = FALSE,
         UNCHANGED <<sent, stdoutClosed, outVars, child, heir, killed, ptmxClosed, ttyOut, produced>>
  PROVE  FlowOf(a)'
<1>1. pc'[a] = place
  BY DEF TypeOK, CallTypeOK
<1>2. Drained(a)' <=> Drained(a)
  BY DEF Drained, HasTerminal
<1>3. Conserved(a)' <=> Conserved(a)
  BY <1>1 DEF Conserved, InHand, Queued, InLoopsHand
<1> QED BY <1>1, <1>2, <1>3 DEF FlowOf, EndInv

\* The loop takes an event of pumpStdout.
LEMMA StdoutEventFlow ==
  ASSUME TypeOK, NEW a \in Attaches, FlowOf(a), StdoutEvent(a)
  PROVE  FlowOf(a)'
<1> DEFINE q == stdoutCh[a]
<1>1. /\ pc[a] = "loop" /\ ~stdoutClosed[a] /\ q # <<>> /\ stdoutCh'[a] = Tail(q)
      /\ UNCHANGED <<streamOpen, sent, last, pump, child, heir, killed, ptmxClosed, ttyOut, produced>>
  BY DEF StdoutEvent, InLoop, TypeOK, PumpTypeOK
<1>2. /\ OnlyLast(Tail(q)) /\ Len(Tail(q)) = Len(q) - 1 /\ Len(q) \in Nat
      /\ Head(q) = "data" => /\ Marker(Tail(q)) <=> Marker(q)
                             /\ Marker(q) => Tail(q)[Len(Tail(q))] = q[Len(q)]
      /\ Head(q) # "data" => Marker(q) /\ Tail(q) = <<>> /\ q[Len(q)] = Head(q)
  BY <1>1, TypesOf, TakeFirst DEF FlowOf
<1>3. Drained(a)' <=> Drained(a)
  BY <1>1 DEF Drained, HasTerminal
<1>4. last[a] # "exited"
  BY <1>1 DEF FlowOf, After
<1>5. CASE Head(q) = "data"
  <2>1. /\ UNCHANGED stdoutClosed
        /\ (streamOpen[a] /\ pc'[a] = "sending") \/ (~streamOpen[a] /\ pc' = pc)
    <3>1. /\ UNCHANGED stdoutClosed
          /\ \/ streamOpen[a] /\ pc' = [pc EXCEPT ![a] = "sending"]
             \/ ~streamOpen[a] /\ pc' = pc
      BY <1>5 DEF StdoutEvent
    <3> QED BY <3>1 DEF TypeOK, CallTypeOK
  <2>2. streamOpen'[a] => Conserved(a)'
    <3> SUFFICES ASSUME streamOpen'[a] PROVE Conserved(a)'
      OBVIOUS
    <3>1. streamOpen[a] /\ InLoopsHand(a) = 0 /\ InLoopsHand(a)' = 1
      BY <1>1, <2>1 DEF InLoopsHand
    <3>2. Conserved(a)
      BY <3>1 DEF FlowOf
    <3>3. /\ sent[a] \in Nat /\ ttyOut[a] \in Nat /\ produced[a] \in Nat /\ Queued(a) \in Nat
          /\ Markers(stdoutCh[a]) \in Nat /\ InHand(a) \in Nat /\ InLoopsHand(a) \in Nat
      BY TypesOf
    <3>4. /\ Queued(a)' = Queued(a) - 1
          /\ Markers(stdoutCh[a])' = Markers(q) /\ InHand(a)' = InHand(a)
      BY <1>1, <1>2, <1>5 DEF Markers, InHand, Queued
    <3>5. ttyOut'[a] = ttyOut[a] /\ produced'[a] = produced[a] /\ sent'[a] = sent[a]
      BY <1>1
    <3>6. produced[a] + Markers(q) = sent[a] + (Queued(a) - 1) + ttyOut[a] + InHand(a) + 1
      BY <3>1, <3>2, <3>3 DEF Conserved
    <3> QED BY <3>1, <3>4, <3>5, <3>6 DEF Conserved
  <2>3. pc'[a] \in {"loop", "sending"}
    BY <1>1, <2>1
  <2>4. EndInv(a)'
    BY <1>1, <1>2, <1>3, <1>5, <2>1, <2>3 DEF FlowOf, EndInv, After
  <2> QED BY <1>1, <1>2, <1>4, <1>5, <2>2, <2>3, <2>4 DEF FlowOf, Before
<1>6. CASE Head(q) # "data"
  <2>1. \/ Head(q) = "eof" /\ stdoutClosed'[a] = TRUE /\ pc' = pc
        \/ stdoutClosed' = stdoutClosed /\ pc'[a] = "waitHost"
    BY <1>6 DEF StdoutEvent, FailLoop, TypeOK, CallTypeOK
  <2>2. pump[a] = "ended" /\ stdoutCh'[a] = <<>> /\ ~Marker(stdoutCh'[a]) /\ Len(stdoutCh'[a]) = 0
    BY <1>1, <1>2, <1>6 DEF FlowOf, Marker
  <2>3. Head(q) = "eof" => Drained(a)
    BY <1>2, <1>6 DEF FlowOf, EndInv
  <2>4. EndInv(a)'
    BY <1>1, <1>3, <2>1, <2>2, <2>3 DEF EndInv
  <2>5. streamOpen'[a] => Conserved(a)'
    <3> SUFFICES ASSUME streamOpen'[a] PROVE Conserved(a)'
      OBVIOUS
    <3>1. Conserved(a) /\ Marker(q) /\ Len(q) = 1
      BY <1>1, <1>2, <1>6, <2>1, <2>2 DEF FlowOf
    <3>2. /\ sent[a] \in Nat /\ ttyOut[a] \in Nat /\ produced[a] \in Nat /\ Queued(a) \in Nat
          /\ Markers(stdoutCh[a]) \in Nat /\ InHand(a) \in Nat /\ InLoopsHand(a) \in Nat
      BY TypesOf
    <3>3. /\ Markers(q) = 1 /\ Markers(stdoutCh[a])' = 0 /\ InHand(a)' = InHand(a)
          /\ Queued(a) = 1 /\ Queued(a)' = 0
      BY <1>1, <2>2, <3>1 DEF Markers, Marker, InHand, Queued
    <3>4. /\ sent'[a] = sent[a] /\ ttyOut'[a] = ttyOut[a] /\ produced'[a] = produced[a]
          /\ InLoopsHand(a)' = InLoopsHand(a)
      BY <1>1, <2>1 DEF InLoopsHand
    <3> QED BY <3>1, <3>2, <3>3, <3>4 DEF Conserved
  <2> QED BY <1>1, <1>2, <1>4, <1>6, <2>1, <2>2, <2>4, <2>5 DEF FlowOf, Before
<1> QED BY <1>5, <1>6

\* The loop's Send returns.
LEMMA SendStdoutFlow ==
  ASSUME TypeOK, NEW a \in Attaches, FlowOf(a), SendStdout(a)
  PROVE  FlowOf(a)'
<1>1. /\ pc[a] = "sending" /\ pc'[a] = "loop"
      /\ UNCHANGED <<last, stdoutClosed, outVars, child, heir, killed, ptmxClosed, ttyOut, produced>>
      /\ \/ streamOpen' = streamOpen /\ sent'[a] = sent[a] + 1
         \/ streamOpen'[a] = FALSE
  BY DEF SendStdout, CloseStream, TypeOK, CallTypeOK
<1>2. Drained(a)' <=> Drained(a)
  BY <1>1 DEF Drained, HasTerminal
<1>3. streamOpen'[a] => Conserved(a)'
  <2> SUFFICES ASSUME streamOpen'[a] PROVE Conserved(a)'
    OBVIOUS
  <2>1. Conserved(a) /\ sent'[a] = sent[a] + 1
    BY <1>1 DEF FlowOf
  <2>2. /\ InLoopsHand(a) = 1 /\ InLoopsHand(a)' = 0
        /\ InHand(a)' = InHand(a) /\ Queued(a)' = Queued(a)
        /\ Markers(stdoutCh[a])' = Markers(stdoutCh[a])
        /\ ttyOut'[a] = ttyOut[a] /\ produced'[a] = produced[a]
    BY <1>1 DEF InLoopsHand, InHand, Queued
  <2>3. /\ sent[a] \in Nat /\ ttyOut[a] \in Nat /\ produced[a] \in Nat /\ Queued(a) \in Nat
        /\ Markers(stdoutCh[a]) \in Nat /\ InHand(a) \in Nat
    BY TypesOf
  <2> QED BY <2>1, <2>2, <2>3 DEF Conserved
<1>4. EndInv(a)'
  BY <1>1, <1>2 DEF FlowOf, EndInv, After
<1>5. last[a] # "exited"
  BY <1>1 DEF FlowOf, After
<1> QED BY <1>1, <1>3, <1>4, <1>5 DEF FlowOf, Before

\* pumpStdout and drain.
LEMMA PumpFlow ==
  ASSUME TypeOK, NEW a \in Attaches, FlowOf(a), ReadStdout(a) \/ ReadFails(a) \/ PutStdout(a)
  PROVE  FlowOf(a)'
<1>1. UNCHANGED <<pc, sent, last, streamOpen, stdoutClosed, child, heir, killed, produced>>
  BY DEF ReadStdout, ReadFails, PutStdout
<1>2. pc[a] \notin Before /\ pump[a] # "ended" /\ ~Marker(stdoutCh[a]) /\ ~(streamOpen[a] /\ stdoutClosed[a])
  BY DEF ReadStdout, ReadFails, PutStdout, FlowOf, EndInv
<1>3. CASE ReadStdout(a) \/ ReadFails(a)
  <2>1. pump[a] = "read" /\ UNCHANGED stdoutCh
    BY <1>3 DEF ReadStdout, ReadFails
  <2>2. \/ ttyOut[a] > 0 /\ ttyOut'[a] = ttyOut[a] - 1 /\ pump'[a] = "data" /\ UNCHANGED ptmxClosed
        \/ Drained(a) /\ UNCHANGED ttyOut /\ pump'[a] = "eof"
        \/ UNCHANGED ttyOut /\ pump'[a] = "err"
    BY <1>3, <2>1 DEF ReadStdout, ReadFails, TypeOK, PumpTypeOK, HostTypeOK, FlowOf, Drained
  <2>3. pump'[a] # "eof" \/ Drained(a)'
    BY <1>1, <2>2 DEF Drained, HasTerminal
  <2>4. ptmxClosed'[a] => killed[a] \/ pump'[a] \in {"eof", "err", "ended"}
    BY <2>1, <2>2 DEF FlowOf
  <2>5. EndInv(a)'
    BY <1>1, <1>2, <2>1, <2>2, <2>3 DEF EndInv
  <2>6. streamOpen[a] => Conserved(a)'
    <3>1. /\ sent[a] \in Nat /\ ttyOut[a] \in Nat /\ produced[a] \in Nat /\ Queued(a) \in Nat
          /\ Markers(stdoutCh[a]) \in Nat /\ InHand(a) \in Nat /\ InLoopsHand(a) \in Nat
      BY TypesOf
    <3>2. InHand(a) = 0 /\ (InHand(a)' = IF pump'[a] = "data" THEN 1 ELSE 0)
      BY <2>1 DEF InHand
    <3>3. ttyOut'[a] + InHand(a)' = ttyOut[a] /\ ttyOut'[a] \in Nat /\ InHand(a)' \in Nat
      BY <2>2, <3>1, <3>2
    <3>4. streamOpen[a] => Conserved(a)
      BY DEF FlowOf
    <3>5. /\ Queued(a)' = Queued(a) /\ Markers(stdoutCh[a])' = Markers(stdoutCh[a])
          /\ InLoopsHand(a)' = InLoopsHand(a)
      BY <1>1, <2>1 DEF Queued, InLoopsHand
    <3> QED BY <1>1, <3>1, <3>2, <3>3, <3>4, <3>5 DEF Conserved
  <2> QED BY <1>1, <1>2, <2>1, <2>4, <2>5, <2>6 DEF FlowOf
<1>4. CASE PutStdout(a)
  <2> DEFINE e == pump[a]
             q == stdoutCh[a]
  <2>1. /\ e \in Out /\ stdoutCh'[a] = Append(q, e) /\ UNCHANGED <<ptmxClosed, ttyOut>>
        /\ pump'[a] = IF e = "data" THEN "read" ELSE "ended"
    BY <1>4 DEF PutStdout, TypeOK, PumpTypeOK, Out
  <2>2. /\ OnlyLast(Append(q, e)) /\ Len(Append(q, e)) = Len(q) + 1 /\ Len(q) \in Nat
        /\ Marker(Append(q, e)) <=> e # "data"
        /\ Append(q, e)[Len(Append(q, e))] = e
    BY <1>2, <2>1, TypesOf, PutLast DEF FlowOf
  <2>3. Drained(a)' <=> Drained(a)
    BY <1>1, <2>1 DEF Drained, HasTerminal
  <2>4. EndInv(a)'
    BY <1>1, <1>2, <2>1, <2>2, <2>3 DEF FlowOf, EndInv
  <2>5. streamOpen[a] => Conserved(a)'
    <3>1. Queued(a)' = Queued(a) + 1 /\ Markers(q) = 0
      BY <1>2, <2>1, <2>2 DEF Markers, Queued
    <3>2. /\ sent[a] \in Nat /\ ttyOut[a] \in Nat /\ produced[a] \in Nat /\ Queued(a) \in Nat
          /\ Markers(stdoutCh[a]) \in Nat /\ InHand(a) \in Nat /\ InLoopsHand(a) \in Nat
      BY TypesOf
    <3>3. /\ Markers(stdoutCh[a])' + InHand(a) = 1 /\ InHand(a)' = 0 /\ Markers(stdoutCh[a])' \in Nat
      BY <2>1, <2>2 DEF Markers, InHand
    <3>4. streamOpen[a] => Conserved(a)
      BY DEF FlowOf
    <3>5. /\ sent'[a] = sent[a] /\ ttyOut'[a] = ttyOut[a] /\ produced'[a] = produced[a]
          /\ InLoopsHand(a)' = InLoopsHand(a)
      BY <1>1, <2>1 DEF InLoopsHand
    <3> QED BY <3>1, <3>2, <3>3, <3>4, <3>5 DEF Conserved
  <2> QED BY <1>1, <1>2, <2>1, <2>2, <2>4, <2>5 DEF FlowOf
<1> QED BY <1>3, <1>4

\* The process writes and exits, or is killed.
LEMMA HostFlow ==
  ASSUME TypeOK, ProcessInv, NEW a \in Attaches, FlowOf(a), Spawn(a) \/ Kill(a) \/ ChildStep(a)
  PROVE  FlowOf(a)'
<1>1. UNCHANGED <<sent, last, streamOpen, stdoutClosed, stdoutCh>>
  BY DEF Spawn, Kill, ChildStep
<1>2. CASE Spawn(a)
  <2>1. /\ pc[a] \in Before /\ pump[a] = "none" /\ child[a] = "none" /\ last[a] # "exited"
    BY <1>2 DEF Spawn, FlowOf, ProcessInv, Before, After
  <2>2. /\ \/ pump'[a] = "none" /\ pc'[a] = "refuse"
           \/ pump'[a] = "read" /\ pc'[a] = "spawned"
        /\ UNCHANGED <<heir, killed, ptmxClosed, ttyOut, produced>>
    <3>1. /\ \/ pump' = pump /\ pc' = [pc EXCEPT ![a] = "refuse"]
             \/ pump' = [pump EXCEPT ![a] = "read"] /\ pc' = [pc EXCEPT ![a] = "spawned"]
          /\ UNCHANGED <<heir, killed, ptmxClosed, ttyOut, produced>>
      BY <1>2, Zenon DEF Spawn
    <3> QED BY <2>1, <3>1 DEF TypeOK, CallTypeOK, PumpTypeOK
  <2>3. streamOpen[a] => Conserved(a)'
    BY <1>1, <2>1, <2>2 DEF FlowOf, Conserved, InHand, Queued, InLoopsHand, Before
  <2>5. EndInv(a)'
    BY <1>1, <2>1, <2>2 DEF FlowOf, EndInv
  <2> QED BY <1>1, <2>1, <2>2, <2>3, <2>5 DEF FlowOf, Before
<1>3. CASE Kill(a)
  <2>1. /\ killed'[a] = TRUE /\ child'[a] = "exited" /\ UNCHANGED <<pc, pump, heir, ttyOut, produced>>
    BY <1>3 DEF Kill, TypeOK, HostTypeOK
  <2>2. Drained(a)'
    BY <2>1 DEF Drained
  <2>3. Conserved(a)' <=> Conserved(a)
    BY <1>1, <2>1 DEF Conserved, InHand, Queued, InLoopsHand
  <2> QED BY <1>1, <2>1, <2>2, <2>3 DEF FlowOf, EndInv
<1>4. CASE ChildStep(a)
  <2>1. /\ HasTerminal(a) /\ UNCHANGED <<pc, pump, killed, ptmxClosed>>
        /\ \/ ttyOut'[a] = ttyOut[a] + 1 /\ produced'[a] = produced[a] + 1
           \/ UNCHANGED <<ttyOut, produced>>
    BY <1>4 DEF ChildStep, TypeOK, HostTypeOK
  <2>2. (last[a] = "exited" => killed[a]) /\ (Drained(a) => killed[a])
    BY <2>1 DEF FlowOf, Drained, HasTerminal
  <2>6. child'[a] = child[a] \/ child'[a] = "exited"
    BY <1>4 DEF ChildStep, TypeOK, HostTypeOK
  <2>3. streamOpen[a] => Conserved(a)'
    <3>2. /\ sent[a] \in Nat /\ ttyOut[a] \in Nat /\ produced[a] \in Nat /\ Queued(a) \in Nat
          /\ Markers(stdoutCh[a]) \in Nat /\ InHand(a) \in Nat /\ InLoopsHand(a) \in Nat
      BY TypesOf
    <3>3. streamOpen[a] => Conserved(a)
      BY DEF FlowOf
    <3>4. /\ InHand(a)' = InHand(a) /\ Markers(stdoutCh[a])' = Markers(stdoutCh[a])
          /\ Queued(a)' = Queued(a) /\ sent'[a] = sent[a] /\ InLoopsHand(a)' = InLoopsHand(a)
      BY <1>1, <2>1 DEF InHand, Queued, InLoopsHand
    <3>5. \/ ttyOut'[a] = ttyOut[a] + 1 /\ produced'[a] = produced[a] + 1
          \/ ttyOut'[a] = ttyOut[a] /\ produced'[a] = produced[a]
      BY <2>1
    <3>6. CASE ttyOut'[a] = ttyOut[a] + 1 /\ produced'[a] = produced[a] + 1
      BY <3>2, <3>3, <3>4, <3>6 DEF Conserved
    <3>7. CASE ttyOut'[a] = ttyOut[a] /\ produced'[a] = produced[a]
      BY <3>2, <3>3, <3>4, <3>7 DEF Conserved
    <3> QED BY <3>5, <3>6, <3>7
  <2>4. Drained(a) => Drained(a)'
    BY <2>1, <2>2 DEF Drained
  <2>5. EndInv(a)'
    BY <1>1, <2>1, <2>4 DEF FlowOf, EndInv
  <2> QED BY <1>1, <2>1, <2>2, <2>3, <2>5, <2>6 DEF FlowOf
<1> QED BY <1>2, <1>3, <1>4

\* finish reports the exit when all of the output was sent.
LEMMA FinishFlow ==
  ASSUME TypeOK, ProcessInv, NEW a \in Attaches, FlowOf(a), Finish(a)
  PROVE  FlowOf(a)'
<1>1. /\ pc[a] = "loop" /\ pc'[a] = "returning" /\ hostExited[a] /\ stdoutClosed[a]
      /\ last'[a] = last[a] \/ (streamOpen[a] /\ last'[a] = "exited")
      /\ UNCHANGED <<sent, streamOpen, stdoutClosed, outVars, hostVars>>
  BY DEF Finish, readyToExit, TypeOK, CallTypeOK
<1>2. child[a] = "exited" /\ last[a] # "exited"
  BY <1>1 DEF ProcessInv, FlowOf, After
<1>3. streamOpen[a] => killed[a] \/ (sent[a] = produced[a] /\ ~heir[a])
  <2> SUFFICES ASSUME streamOpen[a], ~killed[a] PROVE sent[a] = produced[a] /\ ~heir[a]
    OBVIOUS
  <2>1. /\ ttyOut[a] = 0 /\ pump[a] = "ended" /\ stdoutCh[a] = <<>> /\ Conserved(a)
        /\ ~heir[a]
    BY <1>1 DEF FlowOf, EndInv, Drained, HasTerminal
  <2>2. Markers(stdoutCh[a]) = 0 /\ InHand(a) = 0 /\ Queued(a) = 0 /\ InLoopsHand(a) = 0
    BY <1>1, <2>1 DEF Marker, Markers, InHand, Queued, InLoopsHand
  <2> QED BY <2>1, <2>2, TypesOf DEF Conserved
<1>4. Drained(a)' <=> Drained(a)
  BY <1>1 DEF Drained, HasTerminal
<1>5. Conserved(a)' <=> Conserved(a)
  BY <1>1 DEF Conserved, InHand, Queued, InLoopsHand
<1> QED BY <1>1, <1>2, <1>3, <1>4, <1>5 DEF FlowOf, EndInv, Before, After

\* The other steps of the call.
LEMMA CallFlow ==
  ASSUME TypeOK, ProcessInv, NEW a \in Attaches, FlowOf(a), CallStep(a)
  PROVE  FlowOf(a)'
<1> DEFINE Rest == <<sent, stdoutClosed, outVars, child, heir, killed, ptmxClosed, ttyOut, produced>>
<1>1. CASE \/ ReceiveAttach(a) \/ EnforceAttachLimit(a) \/ StartHost(a) \/ RegisterPTY(a)
           \/ UnregisterPTY(a) \/ WaitHostSilently(a) \/ WriteStdin(a) \/ ResizeHost(a)
  <2>1. /\ UNCHANGED <<Rest, last, streamOpen>>
        /\ \E place \in Places :
             /\ pc' = [pc EXCEPT ![a] = place]
             /\ place \in Before => pc[a] \in Before
             /\ pc[a] \in {"waitHost", "sendError"} \cup After => place \in {"sendError"} \cup After
             /\ pc[a] \in After => place \in After
             /\ pc[a] # "sending" /\ place # "sending"
    BY <1>1 DEF ReceiveAttach, EnforceAttachLimit, StartHost, RegisterPTY, UnregisterPTY,
                WaitHostSilently, WriteStdin, ResizeHost, FailLoop, Places, Before, After
  <2> QED BY <2>1, MoveFlow
<1>2. CASE SendAttached(a)
  <2>1. /\ UNCHANGED <<Rest, streamOpen>> /\ pc[a] = "spawned"
        /\ \E place \in {"loop", "cleanup"} : pc' = [pc EXCEPT ![a] = place]
        /\ last'[a] = last[a] \/ last'[a] # "exited"
    BY <1>2 DEF SendAttached, TypeOK, CallTypeOK
  <2> QED BY <2>1, MoveFlow DEF Places, Before, After
<1>3. CASE ClientEvent(a)
  <2>1. /\ UNCHANGED <<Rest, last>> /\ pc[a] = "loop"
        /\ \E place \in {"loop", "waitHost", "writing", "resizing"} : pc' = [pc EXCEPT ![a] = place]
        /\ streamOpen'[a] = streamOpen[a] \/ streamOpen'[a] = FALSE
    BY <1>3 DEF ClientEvent, ClientGone, CloseStream, FailLoop, InLoop, TypeOK, CallTypeOK
  <2> QED BY <2>1, MoveFlow DEF Places, Before, After
<1>4. CASE ExitEvent(a)
  <2>1. /\ UNCHANGED <<Rest, last, streamOpen>> /\ pc[a] = "loop"
        /\ \E place \in {"loop", "sendError"} : pc' = [pc EXCEPT ![a] = place]
    BY <1>4 DEF ExitEvent, InLoop, TypeOK, CallTypeOK
  <2> QED BY <2>1, MoveFlow DEF Places, Before, After
<1>5. CASE SendError(a)
  <2>1. /\ UNCHANGED <<Rest, streamOpen>> /\ pc[a] \in {"refuse", "sendError"}
        /\ pc' = [pc EXCEPT ![a] = IF streamOpen[a] THEN "returning" ELSE "loop"]
        /\ last'[a] = last[a] \/ last'[a] # "exited"
    BY <1>5 DEF SendError, TypeOK, CallTypeOK
  <2>2. CASE streamOpen[a]
    BY <2>1, <2>2, MoveFlow DEF Places, Before, After
  <2>3. CASE ~streamOpen[a]
    BY <2>1, <2>3, MoveFlow DEF Places, Before, After
  <2> QED BY <2>2, <2>3
<1>6. CASE StdoutEnds(a)
  <2>1. /\ pc[a] = "loop" /\ ~stdoutClosed[a] /\ stdoutCh[a] = <<>> /\ pump[a] = "ended"
        /\ UNCHANGED <<pc, sent, last, streamOpen, outVars, hostVars>>
    BY <1>6 DEF StdoutEnds, InLoop
  <2>2. ~Marker(stdoutCh[a]) /\ ~streamOpen[a]
    BY <2>1 DEF FlowOf, EndInv, Marker, After
  <2>3. Drained(a)' <=> Drained(a)
    BY <2>1 DEF Drained, HasTerminal
  <2> QED BY <2>1, <2>2, <2>3 DEF FlowOf, EndInv
<1> QED BY <1>1, <1>2, <1>3, <1>4, <1>5, <1>6, StdoutEventFlow, SendStdoutFlow,
             HostFlow, FinishFlow DEF CallStep

\* Every step keeps account of the output.
LEMMA NextFlow == TypeOK /\ ProcessInv /\ FlowInv /\ [Next]_vars => FlowInv'
<1> SUFFICES ASSUME TypeOK, ProcessInv, FlowInv, [Next]_vars, NEW b \in Attaches PROVE FlowOf(b)'
  BY DEF FlowInv
<1>1. FlowOf(b)
  BY DEF FlowInv
<1>2. CASE OtherCall \/ UNCHANGED vars
  <2>1. Same(b)
    BY <1>2 DEF OtherCall, vars, Same
  <2> QED BY <1>1, <2>1, SameFlow
<1>3. ASSUME NEW a \in Attaches,
             \/ CallStep(a) \/ RecvFrame(a) \/ PutFrame(a) \/ ReadStdout(a) \/ ReadFails(a)
             \/ PutStdout(a) \/ Reap(a) \/ Kill(a) \/ ChildStep(a) \/ ClientLeaves(a)
      PROVE  FlowOf(b)'
  <2>1. CASE a # b
    BY <1>1, <1>3, <2>1, OthersSame, SameFlow
  <2>2. CASE a = b
    <3>1. CASE RecvFrame(b) \/ PutFrame(b) \/ Reap(b) \/ ClientLeaves(b)
      <4>1. Same(b)
        BY <3>1 DEF RecvFrame, PutFrame, Reap, ClientLeaves, Same
      <4> QED BY <1>1, <4>1, SameFlow
    <3> QED BY <1>1, <1>3, <2>2, <3>1, CallFlow, PumpFlow, HostFlow
  <2> QED BY <2>1, <2>2
<1> QED BY <1>2, <1>3 DEF Next

-----------------------------------------------------------------------------
(* The theorems *)

\* The inductive invariant holds: in particular the process of a call of Attach
\* has been waited for when the call returns, on every path.
THEOREM PtyInvariant == Spec => []IInv
<1>1. IInv /\ [Next]_vars => IInv'
  BY NextTypeOK, NextSlot, NextProcess DEF IInv
<1>2. QED
  BY InitIInv, <1>1, PTL DEF Spec

\* Every reachable state is well typed and no channel exceeds its capacity.
THEOREM PtyTypeOK == Spec => []TypeOK
<1>1. IInv => TypeOK
  BY DEF IInv
<1>2. QED
  BY PtyInvariant, <1>1, PTL

\* The slot of the user is held by exactly the call that runs between RegisterPTY
\* and the deferred UnregisterPTY, whatever the number of calls.
THEOREM PtySlotHasOwner == Spec => []SlotHasOwner
<1>1. IInv => SlotHasOwner
  BY DEF IInv
<1>2. QED
  BY PtyInvariant, <1>1, PTL

\* While the process of a call runs, the call holds the slot: a user never has
\* two agents.
THEOREM PtyOneAgentPerUser == Spec => []OneAgentPerUser
<1>1. IInv => OneAgentPerUser
  BY DEF IInv, OneAgentPerUser, SlotHasOwner, Holding, ProcessInv, Before, After
<1>2. QED
  BY PtyInvariant, <1>1, PTL

\* The exit of the process is reported to the client after all of its output, whichever of
\* the exit and the end of the output was noticed first, for any sizes of the channel and
\* of the terminal.
THEOREM PtyExitAfterOutput == Spec => []ExitAfterOutput
<1>1. Init => FlowInv
  BY InitFlow
<1>2. IInv /\ FlowInv /\ [Next]_vars => FlowInv'
  BY NextFlow DEF IInv
<1>3. FlowInv => ExitAfterOutput
  BY DEF FlowInv, FlowOf, ExitAfterOutput
<1> QED
  BY <1>1, <1>2, <1>3, PtyInvariant, PTL DEF Spec
=============================================================================
