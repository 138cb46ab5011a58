---------------------------- MODULE SessionProofs ----------------------------
(***************************************************************************)
(* Proofs about one session's requests, for any callers and buffer sizes.  *)
(***************************************************************************)
EXTENDS Session, TLAPS

Started == {"prepared", "checked", "registered", "awaiting", "dropping"}

\* Ids are handed out once: two callers share an id only while both have none.
IdsUnique ==
  \A c \in Callers :
    /\ id[c] =< reqSeq
    /\ pc[c] = "idle" => id[c] = 0
    /\ pc[c] \in Started => id[c] # 0
    /\ \A d \in Callers : c # d /\ id[c] = id[d] => id[c] = 0

\* The requests that were given an id.
Issued == {c \in Callers : id[c] # 0}

\* Only requests that were given an id are on their way.
QueuesIssued ==
  /\ sendCh \in Seq(Issued)
  /\ sending \in Issued \cup {NoCaller}
  /\ down \in Seq(Issued)
  /\ handling \in Issued \cup {NoCaller}
  /\ daemonQ \in Seq(Issued \cup {NoCaller})
  /\ up \in Seq(Issued \cup {NoCaller})

\* A caller that has not registered has an untouched channel that nobody holds.
Unregistered ==
  \A c \in Callers :
    pc[c] \in {"idle", "prepared", "checked"} =>
      /\ c \notin pending \cup batch \cup chClosed
      /\ resolving # c
      /\ chVal[c] = NoCaller

\* What resolvePending is about to send answers the caller of that channel.
ResolvingOwn ==
  /\ resolver = "idle" => resolving = NoCaller
  /\ resolver # "idle" => resolving \in Callers /\ response = resolving

\* Who holds which channel, and what is in it.
ChannelInv ==
  /\ Unregistered
  /\ ResolvingOwn
  /\ ChannelDiscipline
  /\ NoPendingLeak
  /\ OwnResponse

\* The inductive invariant.
IInv ==
  /\ TypeOK
  /\ IdsUnique
  /\ QueuesIssued
  /\ ChannelInv

\* The initial states satisfy the inductive invariant.
LEMMA InitIInv == Init => IInv
<1> SUFFICES ASSUME Init PROVE IInv
  OBVIOUS
<1>1. TypeOK
  BY SessionAssumption DEF Init, TypeOK, CallerTypeOK, ChannelTypeOK, CloseTypeOK,
                           QueueTypeOK, Message
<1>2. IdsUnique /\ QueuesIssued
  BY DEF Init, IdsUnique, QueuesIssued, Started
<1>3. ChannelInv
  BY SessionAssumption DEF Init, ChannelInv, Unregistered, ResolvingOwn,
                           ChannelDiscipline, NoPendingLeak, OwnResponse
<1>4. QED
  BY <1>1, <1>2, <1>3 DEF IInv

-----------------------------------------------------------------------------
(* Which part of the state a step may touch *)

USE DEF callerVars, resolveVars, chanVars, closeVars, linkVars

\* Only the callers' own steps change what the callers know.
LEMMA OthersKeepCallers ==
  [Next]_vars => (\E c \in Callers : CallerStep(c) \/ CtxDone(c)) \/ UNCHANGED callerVars
  BY DEF Next, vars, SendStep, SendTake, SendReceived, SendBuffered, SendFails,
         SendCancelled, RecvStep, RecvMessage, RecvFails, RecvRefuses, ResolveSend, ResolveClose,
         ServeClose, HandlerReturns, SweepStep, SwapPending, SweepBatch, Replace,
         RetainOffline, OfflineElapses, StreamBreaks, DaemonHandle,
         DaemonQueueResponse, DaemonQueueChange, DaemonSend

\* A caller's response channel is touched by few steps.
LEMMA OthersKeepChannels ==
  [Next]_vars =>
    \/ \E c \in Callers : RegisterPending(c) \/ AwaitResponse(c) \/ DropPending(c)
    \/ RecvMessage \/ ResolveSend \/ ResolveClose \/ SwapPending \/ SweepBatch
    \/ UNCHANGED chanVars
  BY DEF Next, vars, CallerStep, RequestOffline, PrepareRequest, CheckClosed,
         EnqueueRequest, CtxDone, SendStep, SendTake, SendReceived, SendBuffered, SendFails,
         SendCancelled, RecvStep, RecvFails, RecvRefuses, ServeClose, HandlerReturns,
         SweepStep, Replace, RetainOffline, OfflineElapses, StreamBreaks,
         DaemonHandle, DaemonQueueResponse, DaemonQueueChange, DaemonSend

\* The queues are written by their two ends, and emptied with the stream.
LEMMA OthersKeepQueues ==
  [Next]_vars =>
    \/ \E c \in Callers : EnqueueRequest(c)
    \/ SendTake \/ SendReceived \/ SendBuffered \/ SendFails
    \/ RecvMessage \/ RecvFails \/ RecvRefuses \/ HandlerReturns
    \/ StreamBreaks \/ DaemonHandle
    \/ DaemonQueueResponse \/ DaemonQueueChange \/ DaemonSend
    \/ UNCHANGED <<sendCh, linkVars>>
  BY DEF Next, vars, CallerStep, RequestOffline, PrepareRequest, CheckClosed,
         RegisterPending, AwaitResponse, DropPending, CtxDone, SendStep, SendCancelled,
         RecvStep, ResolveSend,
         ResolveClose, ServeClose, SweepStep, SwapPending, SweepBatch, Replace,
         RetainOffline, OfflineElapses

\* The error, deadline and loops of the session are changed by its own handler,
\* by the handler that replaces it and by time.
LEMMA OthersKeepClose ==
  [Next]_vars =>
    \/ SendFails \/ SendCancelled \/ RecvFails \/ RecvRefuses \/ ServeClose
    \/ Replace \/ SwapPending
    \/ SweepBatch \/ RetainOffline \/ OfflineElapses
    \/ UNCHANGED closeVars
  BY DEF Next, vars, CallerStep, RequestOffline, PrepareRequest, CheckClosed,
         RegisterPending, EnqueueRequest, AwaitResponse, DropPending, CtxDone,
         SendStep, SendTake, SendReceived, SendBuffered, HandlerReturns,
         RecvStep, RecvMessage, ResolveSend, ResolveClose, SweepStep, StreamBreaks,
         DaemonHandle, DaemonQueueResponse, DaemonQueueChange, DaemonSend

-----------------------------------------------------------------------------
(* Every step keeps the types *)

\* Taking from a queue and adding to one.
LEMMA TakeFrom ==
  ASSUME NEW S, NEW s \in Seq(S), s # <<>>
  PROVE  Head(s) \in S /\ Tail(s) \in Seq(S) /\ Len(Tail(s)) = Len(s) - 1
  OBVIOUS

\* Adding to the end of a queue keeps its type.
LEMMA AddTo ==
  ASSUME NEW S, NEW s \in Seq(S), NEW x \in S
  PROVE  Append(s, x) \in Seq(S) /\ Len(Append(s, x)) = Len(s) + 1
  OBVIOUS

\* Every step keeps the types of what the callers know.
LEMMA NextCallerType == TypeOK /\ [Next]_vars => CallerTypeOK'
<1> SUFFICES ASSUME TypeOK, [Next]_vars PROVE CallerTypeOK'
  OBVIOUS
<1>2. ASSUME NEW c \in Callers, NEW place \in Started \cup {"done"},
             NEW resp \in Message, Return(c, place, resp), UNCHANGED <<id, reqSeq>>
      PROVE CallerTypeOK'
  BY <1>2 DEF TypeOK, CallerTypeOK, Return, Goto, Started
<1>3. ASSUME NEW c \in Callers, NEW place \in Started \cup {"done"},
             Goto(c, place), UNCHANGED <<id, reqSeq, outResp>>
      PROVE CallerTypeOK'
  BY <1>3 DEF TypeOK, CallerTypeOK, Goto, Started
<1>4. ASSUME NEW c \in Callers, PrepareRequest(c) PROVE CallerTypeOK'
  BY <1>4 DEF TypeOK, CallerTypeOK, PrepareRequest, NextRequestID, Goto
<1>5. ASSUME NEW c \in Callers, RequestOffline(c) \/ CtxDone(c) PROVE CallerTypeOK'
  BY <1>2, <1>5 DEF RequestOffline, CtxDone, Message, Started
<1>6. ASSUME NEW c \in Callers, CheckClosed(c) \/ EnqueueRequest(c) PROVE CallerTypeOK'
  BY <1>2, <1>3, <1>6 DEF CheckClosed, EnqueueRequest, Message, Started
<1>7. ASSUME NEW c \in Callers, AwaitResponse(c) PROVE CallerTypeOK'
  BY <1>2, <1>7 DEF AwaitResponse, Message, Started, TypeOK, ChannelTypeOK
<1>8. ASSUME NEW c \in Callers, RegisterPending(c) \/ DropPending(c) PROVE CallerTypeOK'
  BY <1>3, <1>8 DEF RegisterPending, DropPending, Started
<1>9. CASE UNCHANGED callerVars
  BY <1>9 DEF TypeOK, CallerTypeOK
<1>10. QED
  BY <1>4, <1>5, <1>6, <1>7, <1>8, <1>9, OthersKeepCallers DEF CallerStep

\* Every step keeps the types of the response channels and of the pending map.
LEMMA NextChannelType == TypeOK /\ ResolvingOwn /\ [Next]_vars => ChannelTypeOK'
<1> SUFFICES ASSUME TypeOK, ResolvingOwn, [Next]_vars PROVE ChannelTypeOK'
  OBVIOUS
<1> USE DEF TypeOK, ChannelTypeOK
<1>1. ASSUME NEW c \in Callers, RegisterPending(c) \/ DropPending(c) PROVE ChannelTypeOK'
  BY <1>1 DEF RegisterPending, DropPending
<1>2. ASSUME NEW c \in Callers, AwaitResponse(c) PROVE ChannelTypeOK'
  BY <1>2 DEF AwaitResponse, Message
<1>3. CASE RecvMessage
  BY <1>3 DEF RecvMessage, Waiting, QueueTypeOK, Message
<1>4. CASE ResolveSend \/ ResolveClose
  BY <1>4 DEF ResolveSend, ResolveClose, ResolvingOwn, Message
<1>5. CASE SwapPending \/ SweepBatch
  BY <1>5 DEF SwapPending, SweepBatch
<1>6. CASE UNCHANGED chanVars
  BY <1>6
<1>7. QED
  BY <1>1, <1>2, <1>3, <1>4, <1>5, <1>6, OthersKeepChannels

\* Every step keeps the types of what closing the session writes.
LEMMA NextCloseType == TypeOK /\ [Next]_vars => CloseTypeOK'
<1> SUFFICES ASSUME TypeOK, [Next]_vars PROVE CloseTypeOK'
  OBVIOUS
<1> USE DEF TypeOK, CloseTypeOK
<1>1. CASE SendFails \/ SendCancelled \/ RecvFails \/ RecvRefuses \/ RetainOffline
           \/ OfflineElapses
  BY <1>1 DEF SendFails, SendCancelled, RecvFails, RecvRefuses, RetainOffline,
              OfflineElapses
<1>2. CASE ServeClose \/ Replace
  BY <1>2 DEF ServeClose, Replace, CloseWithError
<1>3. CASE SwapPending \/ SweepBatch
  BY <1>3 DEF SwapPending, SweepBatch
<1>4. CASE UNCHANGED closeVars
  BY <1>4
<1>5. QED
  BY <1>1, <1>2, <1>3, <1>4, OthersKeepClose

\* Every step keeps the queues typed and within their capacity.
LEMMA NextQueueType == TypeOK /\ [Next]_vars => QueueTypeOK'
<1> SUFFICES ASSUME TypeOK, [Next]_vars PROVE QueueTypeOK'
  OBVIOUS
<1> USE SessionAssumption DEF TypeOK, QueueTypeOK
<1>1. ASSUME NEW c \in Callers, EnqueueRequest(c) PROVE QueueTypeOK'
  <2>1. Append(sendCh, c) \in Seq(Callers) /\ Len(Append(sendCh, c)) = Len(sendCh) + 1
    BY AddTo
  <2>2. sendCh' \in Seq(Callers) /\ Len(sendCh') =< SendBuffer
    <3>1. CASE Len(sendCh) < SendBuffer /\ sendCh' = Append(sendCh, c)
      BY <2>1, <3>1
    <3>2. CASE UNCHANGED sendCh
      BY <3>2
    <3>3. QED
      BY <1>1, <3>1, <3>2 DEF EnqueueRequest
  <2>3. UNCHANGED linkVars
    BY <1>1 DEF EnqueueRequest
  <2>4. QED
    BY <2>2, <2>3
<1>2. CASE SendTake
  <2>1. sendCh # <<>>
    BY <1>2 DEF SendTake
  <2>2. /\ Head(sendCh) \in Callers
        /\ Tail(sendCh) \in Seq(Callers)
        /\ Len(Tail(sendCh)) = Len(sendCh) - 1
    BY <2>1, TakeFrom
  <2>3. QED
    BY <1>2, <2>2 DEF SendTake, Message
<1>13. CASE SendReceived \/ SendFails
  BY <1>13 DEF SendReceived, SendFails, Message
<1>14. CASE SendBuffered
  <2>1. sending \in Callers
    BY <1>14 DEF SendBuffered, Message
  <2>2. Append(down, sending) \in Seq(Callers)
    BY <2>1, AddTo
  <2>3. QED
    BY <1>14, <2>2 DEF SendBuffered, Message
<1>3. CASE RecvMessage \/ RecvRefuses
  BY <1>3, TakeFrom DEF RecvMessage, RecvRefuses
<1>4. CASE RecvFails
  BY <1>4 DEF RecvFails, Message
<1>15. CASE HandlerReturns
  BY <1>15 DEF HandlerReturns, LinkLost, Message
<1>5. CASE StreamBreaks
  BY <1>5 DEF StreamBreaks, LinkLost, Message
<1>6. CASE DaemonHandle
  BY <1>6, TakeFrom DEF DaemonHandle, Message
<1>7. ASSUME NEW m \in Message, Len(daemonQ) < DaemonBuffer,
             daemonQ' = Append(daemonQ, m)
      PROVE  daemonQ' \in Seq(Message) /\ Len(daemonQ') =< DaemonBuffer
  <2>1. Append(daemonQ, m) \in Seq(Message) /\ Len(Append(daemonQ, m)) = Len(daemonQ) + 1
    BY AddTo
  <2>2. QED
    BY <1>7, <2>1
<1>8. CASE DaemonQueueResponse
  BY <1>7, <1>8 DEF DaemonQueueResponse, Message
<1>9. CASE DaemonQueueChange
  BY <1>7, <1>9 DEF DaemonQueueChange, Message
<1>10. CASE DaemonSend
  <2>1. daemonQ # <<>>
    BY <1>10 DEF DaemonSend
  <2>2. /\ Head(daemonQ) \in Message
        /\ Tail(daemonQ) \in Seq(Message)
        /\ Len(Tail(daemonQ)) = Len(daemonQ) - 1
    BY <2>1, TakeFrom
  <2>3. Append(up, Head(daemonQ)) \in Seq(Message)
    BY <2>2, AddTo
  <2>4. QED
    BY <1>10, <2>2, <2>3 DEF DaemonSend
<1>11. CASE UNCHANGED <<sendCh, linkVars>>
  BY <1>11
<1>12. QED
  BY <1>1, <1>2, <1>3, <1>4, <1>5, <1>6, <1>8, <1>9, <1>10, <1>11, <1>13, <1>14,
     <1>15, OthersKeepQueues

\* Every variable keeps its type.
LEMMA NextTypeOK == TypeOK /\ ResolvingOwn /\ [Next]_vars => TypeOK'
  BY NextCallerType, NextChannelType, NextCloseType, NextQueueType DEF TypeOK

-----------------------------------------------------------------------------
(* Every step keeps the ids unique and the queues filled with issued requests *)

\* nextRequestID gives no two callers one request id.
LEMMA NextIdsUnique == TypeOK /\ IdsUnique /\ [Next]_vars => IdsUnique'
<1> SUFFICES ASSUME TypeOK, IdsUnique, [Next]_vars PROVE IdsUnique'
  OBVIOUS
<1> USE DEF TypeOK, CallerTypeOK, IdsUnique
<1>1. ASSUME NEW c \in Callers, PrepareRequest(c) PROVE IdsUnique'
  BY <1>1 DEF PrepareRequest, NextRequestID, Goto, Started
<1>2. ASSUME NEW c \in Callers, NEW place, Goto(c, place), place # "idle",
             place \in Started => pc[c] \in Started, UNCHANGED <<id, reqSeq>>
      PROVE IdsUnique'
  BY <1>2 DEF Goto
<1>3. ASSUME NEW c \in Callers, CallerStep(c) \/ CtxDone(c), ~PrepareRequest(c)
      PROVE IdsUnique'
  BY <1>2, <1>3 DEF CallerStep, CtxDone, RequestOffline, CheckClosed, RegisterPending,
                    EnqueueRequest, AwaitResponse, DropPending, Return, Started
<1>4. CASE UNCHANGED callerVars
  BY <1>4
<1>5. QED
  BY <1>1, <1>3, <1>4, OthersKeepCallers

\* An issued request stays issued.
LEMMA IssuedStays == TypeOK /\ [Next]_vars => Issued \subseteq Issued'
<1> SUFFICES ASSUME TypeOK, [Next]_vars PROVE Issued \subseteq Issued'
  OBVIOUS
<1> USE DEF Issued, TypeOK, CallerTypeOK
<1>1. ASSUME NEW c \in Callers, PrepareRequest(c) PROVE Issued \subseteq Issued'
  BY <1>1 DEF PrepareRequest, NextRequestID
<1>2. CASE UNCHANGED id
  BY <1>2
<1>3. QED
  BY <1>1, <1>2, OthersKeepCallers
  DEF CallerStep, CtxDone, RequestOffline, CheckClosed, RegisterPending,
      EnqueueRequest, AwaitResponse, DropPending

\* A queue holds only messages about requests that were issued.
LEMMA NextQueuesIssued ==
  TypeOK /\ IdsUnique /\ QueuesIssued /\ [Next]_vars => QueuesIssued'
<1> SUFFICES ASSUME TypeOK, IdsUnique, QueuesIssued, [Next]_vars PROVE QueuesIssued'
  OBVIOUS
<1> DEFINE Ok == Issued'
<1> DEFINE OkOrNone == Ok \cup {NoCaller}
\* With every queue read against the issued requests after the step, the step
\* only moves elements between queues.
<1>1. Issued \subseteq Ok
  BY IssuedStays
<1>2. /\ sendCh \in Seq(Ok) /\ down \in Seq(Ok) /\ handling \in OkOrNone
      /\ sending \in OkOrNone
      /\ daemonQ \in Seq(OkOrNone) /\ up \in Seq(OkOrNone)
  BY <1>1 DEF QueuesIssued
<1>3. SUFFICES /\ sendCh' \in Seq(Ok) /\ down' \in Seq(Ok) /\ handling' \in OkOrNone
               /\ sending' \in OkOrNone
               /\ daemonQ' \in Seq(OkOrNone) /\ up' \in Seq(OkOrNone)
  BY DEF QueuesIssued
<1>4. Ok \subseteq OkOrNone /\ NoCaller \in OkOrNone
  OBVIOUS
<1>5. \A c \in Callers : pc[c] = "registered" => c \in Issued
  BY DEF IdsUnique, Issued, Started
<1> HIDE DEF Ok, OkOrNone
<1>6. ASSUME NEW c \in Callers, EnqueueRequest(c)
      PROVE sendCh' \in Seq(Ok) /\ UNCHANGED linkVars
  <2>1. Append(sendCh, c) \in Seq(Ok)
    BY <1>1, <1>2, <1>5, <1>6, AddTo DEF EnqueueRequest
  <2>2. QED
    BY <1>2, <1>6, <2>1 DEF EnqueueRequest
<1>7. CASE SendTake
  <2>1. Head(sendCh) \in Ok /\ Tail(sendCh) \in Seq(Ok)
    BY <1>2, <1>7, TakeFrom DEF SendTake
  <2>3. QED
    BY <1>2, <1>4, <1>7, <2>1 DEF SendTake
<1>16. CASE SendReceived \/ SendFails
  BY <1>2, <1>4, <1>16 DEF SendReceived, SendFails
<1>17. CASE SendBuffered
  <2>1. sending \in Ok
    BY <1>2, <1>17 DEF SendBuffered, OkOrNone
  <2>2. Append(down, sending) \in Seq(Ok)
    BY <1>2, <2>1, AddTo
  <2>3. QED
    BY <1>2, <1>4, <1>17, <2>2 DEF SendBuffered
<1>8. CASE RecvMessage \/ RecvRefuses
  BY <1>2, <1>8, TakeFrom DEF RecvMessage, RecvRefuses
<1>9. CASE RecvFails \/ HandlerReturns \/ StreamBreaks
  <2>1. <<>> \in Seq(Ok) /\ <<>> \in Seq(OkOrNone)
    OBVIOUS
  <2>2. QED
    BY <1>2, <1>4, <1>9, <2>1 DEF RecvFails, HandlerReturns, StreamBreaks, LinkLost
<1>10. CASE DaemonHandle
  <2>1. Head(down) \in Ok /\ Tail(down) \in Seq(Ok)
    BY <1>2, <1>10, TakeFrom DEF DaemonHandle
  <2>2. QED
    BY <1>2, <1>4, <1>10, <2>1 DEF DaemonHandle
<1>11. CASE DaemonQueueResponse
  <2>1. Append(daemonQ, handling) \in Seq(OkOrNone)
    BY <1>2, AddTo
  <2>2. QED
    BY <1>2, <1>4, <1>11, <2>1 DEF DaemonQueueResponse
<1>12. CASE DaemonQueueChange
  <2>1. Append(daemonQ, NoCaller) \in Seq(OkOrNone)
    BY <1>2, <1>4, AddTo
  <2>2. QED
    BY <1>2, <1>12, <2>1 DEF DaemonQueueChange
<1>13. CASE DaemonSend
  <2>1. Head(daemonQ) \in OkOrNone /\ Tail(daemonQ) \in Seq(OkOrNone)
    BY <1>2, <1>13, TakeFrom DEF DaemonSend
  <2>2. Append(up, Head(daemonQ)) \in Seq(OkOrNone)
    BY <1>2, <2>1, AddTo
  <2>3. QED
    BY <1>2, <1>13, <2>1, <2>2 DEF DaemonSend
<1>14. CASE UNCHANGED <<sendCh, linkVars>>
  BY <1>2, <1>14
<1>15. QED
  BY <1>2, <1>6, <1>7, <1>8, <1>9, <1>10, <1>11, <1>12, <1>13, <1>14,
     <1>16, <1>17, OthersKeepQueues

-----------------------------------------------------------------------------
(* Every step keeps the discipline of the response channels *)

\* Every step keeps the facts about the response channels: who owns one, who may
\* send on it or close it, and what it can hold.
LEMMA NextChannelInv == IInv /\ [Next]_vars => ChannelInv'
<1> SUFFICES ASSUME IInv, [Next]_vars PROVE ChannelInv'
  OBVIOUS
<1> USE SessionAssumption
    DEF ChannelInv, Unregistered, ResolvingOwn, ChannelDiscipline, NoPendingLeak,
        OwnResponse
<1>1. /\ pc \in [Callers -> {"idle", "prepared", "checked", "registered",
                             "awaiting", "dropping", "done"}]
      /\ outResp \in [Callers -> Message]
      /\ chVal \in [Callers -> Message]
      /\ pending \subseteq Callers /\ batch \subseteq Callers /\ chClosed \subseteq Callers
      /\ resolver \in {"idle", "taken", "sent"}
      /\ ChannelInv
  BY DEF IInv, TypeOK, CallerTypeOK, ChannelTypeOK
\* A caller outside registerPending, awaitResponse and dropPending moves
\* forward without touching a channel.
<1>2. ASSUME NEW c \in Callers, NEW place, Goto(c, place), UNCHANGED chanVars,
             place \in {"idle", "prepared", "checked"}
               => pc[c] \in {"idle", "prepared", "checked"},
             pc[c] \in {"registered", "awaiting", "dropping"}
               => place \in {"registered", "awaiting", "dropping"},
             outResp'= outResp \/ outResp' = [outResp EXCEPT ![c] = NoCaller]
      PROVE ChannelInv'
  BY <1>1, <1>2 DEF Goto
<1>3. ASSUME NEW c \in Callers,
             RequestOffline(c) \/ PrepareRequest(c) \/ CheckClosed(c) \/ EnqueueRequest(c)
               \/ CtxDone(c)
      PROVE ChannelInv'
  BY <1>1, <1>2, <1>3 DEF RequestOffline, PrepareRequest, CheckClosed, EnqueueRequest,
                     CtxDone, Return
<1>4. ASSUME NEW c \in Callers, RegisterPending(c) PROVE ChannelInv'
  BY <1>1, <1>4 DEF RegisterPending, Goto
<1>5. ASSUME NEW c \in Callers, AwaitResponse(c) PROVE ChannelInv'
  <2>1. CASE /\ Return(c, "dropping", NoCaller)
             /\ UNCHANGED chVal
    BY <1>1, <1>5, <2>1 DEF AwaitResponse, Return, Goto
  <2>2. CASE /\ chVal[c] # NoCaller
             /\ Return(c, "dropping", chVal[c])
             /\ chVal' = [chVal EXCEPT ![c] = NoCaller]
    BY <1>1, <1>5, <2>2 DEF AwaitResponse, Return, Goto
  <2>3. QED
    BY <1>5, <2>1, <2>2 DEF AwaitResponse
<1>6. ASSUME NEW c \in Callers, DropPending(c) PROVE ChannelInv'
  BY <1>1, <1>6 DEF DropPending, Goto
<1>7. CASE RecvMessage
  <2>1. Head(up) \in Issued \cup {NoCaller}
    BY <1>7, TakeFrom DEF IInv, QueuesIssued, RecvMessage
  <2>2. CASE UNCHANGED <<pending, resolveVars>>
    BY <1>1, <1>7, <2>2 DEF RecvMessage
  <2>3. ASSUME NEW c \in Waiting(Head(up)),
               pending' = pending \ {c}, resolver' = "taken", resolving' = c,
               response' = Head(up)
        PROVE ChannelInv'
    \* Ids are unique, so the caller whose id the response carries is the one
    \* whose request it answers.
    <3>1. c \in pending /\ Head(up) = c
      BY <1>1, <2>1, <2>3 DEF IInv, IdsUnique, Issued, Waiting
    <3>2. QED
      BY <1>1, <1>7, <2>3, <3>1 DEF RecvMessage
  <2>4. QED
    BY <1>7, <2>2, <2>3 DEF RecvMessage
<1>8. CASE ResolveSend
  BY <1>1, <1>8 DEF ResolveSend
<1>9. CASE ResolveClose
  BY <1>1, <1>9 DEF ResolveClose
<1>10. CASE SwapPending
  BY <1>1, <1>10 DEF SwapPending
<1>11. CASE SweepBatch
  BY <1>1, <1>11 DEF SweepBatch
<1>12. CASE UNCHANGED <<callerVars, chanVars>>
  BY <1>1, <1>12
<1>13. QED
  BY <1>3, <1>4, <1>5, <1>6, <1>7, <1>8, <1>9, <1>10, <1>11, <1>12,
     OthersKeepCallers, OthersKeepChannels DEF CallerStep

\* Every step of a session preserves the inductive invariant.
LEMMA NextIInv == IInv /\ [Next]_vars => IInv'
  BY NextTypeOK, NextIdsUnique, NextQueuesIssued, NextChannelInv DEF IInv, ChannelInv

-----------------------------------------------------------------------------
\* The inductive invariant holds throughout every execution of a session.
THEOREM SessionInvariant == Spec => []IInv
<1>1. Init => IInv
  BY InitIInv
<1>2. IInv /\ [Next]_vars => IInv'
  BY NextIInv
<1>3. QED
  BY <1>1, <1>2, PTL DEF Spec

\* Every variable keeps its type, and sendCh and the daemon's sendQueue never
\* hold more than their capacity.
THEOREM SessionTypeOK == Spec => []TypeOK
<1>1. IInv => TypeOK
  BY DEF IInv, ChannelInv
<1>2. QED
  BY <1>1, SessionInvariant, PTL

\* For any number of concurrent callers, Request never hands a caller another
\* caller's response.
THEOREM SessionOwnResponse == Spec => []OwnResponse
<1>1. IInv => OwnResponse
  BY DEF IInv, ChannelInv
<1>2. QED
  BY <1>1, SessionInvariant, PTL

\* No interleaving of resolvePending, dropPending and closeWithError closes a
\* response channel twice or sends on a closed one, which would panic.
THEOREM SessionChannelDiscipline == Spec => []ChannelDiscipline
<1>1. IInv => ChannelDiscipline
  BY DEF IInv, ChannelInv
<1>2. QED
  BY <1>1, SessionInvariant, PTL

\* The pending map holds only channels of callers that are inside Request.
THEOREM SessionNoPendingLeak == Spec => []NoPendingLeak
<1>1. IInv => NoPendingLeak
  BY DEF IInv, ChannelInv
<1>2. QED
  BY <1>1, SessionInvariant, PTL

-----------------------------------------------------------------------------
\* RetainOffline is the only operation that overwrites a close error, and it
\* refuses a session that was closed as replaced.
LEMMA NextReplacedIsFinal ==
  [Next]_vars => [closeErr = "replaced" => closeErr' = "replaced"]_vars
<1> SUFFICES ASSUME Next, closeErr = "replaced" PROVE closeErr' = "replaced"
  OBVIOUS
<1>1. ASSUME NEW c \in Callers, CallerStep(c) \/ CtxDone(c) PROVE closeErr' = closeErr
  BY <1>1 DEF CallerStep, CtxDone, RequestOffline, PrepareRequest, CheckClosed,
              RegisterPending, EnqueueRequest, AwaitResponse, DropPending
<1>2. CASE SendStep \/ SendBuffered \/ RecvStep \/ RecvRefuses \/ SweepStep
           \/ HandlerReturns
  BY <1>2 DEF SendStep, SendTake, SendReceived, SendBuffered, SendFails, SendCancelled,
              RecvStep, RecvMessage, RecvFails, RecvRefuses, ResolveSend, ResolveClose,
              ServeClose, CloseWithError, closed, HandlerReturns, SweepStep,
              SwapPending, SweepBatch
<1>3. CASE Replace \/ RetainOffline \/ OfflineElapses
  BY <1>3 DEF Replace, CloseWithError, closed, RetainOffline, OfflineElapses
<1>4. CASE StreamBreaks \/ DaemonHandle \/ DaemonQueueResponse \/ DaemonQueueChange
           \/ DaemonSend
  BY <1>4 DEF StreamBreaks, DaemonHandle, DaemonQueueResponse, DaemonQueueChange,
              DaemonSend
<1>5. QED
  BY <1>1, <1>2, <1>3, <1>4 DEF Next

\* A session that a newer connection has replaced reports ErrSessionReplaced to
\* its callers from then on.
THEOREM SessionReplacedIsFinal == Spec => ReplacedIsFinal
  BY NextReplacedIsFinal, PTL DEF Spec, ReplacedIsFinal
=============================================================================
