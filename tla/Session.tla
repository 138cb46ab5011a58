------------------------------- MODULE Session -------------------------------
(***************************************************************************)
(* One server-side session (pkg/session/session.go) and the daemon at the  *)
(* other end of its stream (pkg/syncer/daemon.go): the multiplexing of     *)
(* file requests over one bidirectional stream.                            *)
(*                                                                         *)
(* Every caller is a goroutine of the FUSE layer that runs Request once.   *)
(* A request, and the response the daemon computes for it, is named by its *)
(* caller; what the session matches responses by is the id it gave the     *)
(* request, id[c].  The caller's response channel (capacity 1) is chVal[c] *)
(* with c \in chClosed once it is closed, and the session's pending map is *)
(* the set of callers whose channel is in the map, under the key id[c].    *)
(*                                                                         *)
(* The goroutines that share this state are the callers, the send loop,    *)
(* the receive loop (which is also the goroutine of Serve), the handler of *)
(* a newer connection that closes the session as replaced, and the         *)
(* daemon's receive, watch and send goroutines.                            *)
(***************************************************************************)
EXTENDS Naturals, Sequences

CONSTANTS
  Callers,       \* goroutines that call Request, once each
  NoCaller,      \* no response, or a message that is none
  SendBuffer,    \* capacity of sendCh, sessionSendBufferSize
  DaemonBuffer,  \* capacity of the daemon's sendQueue, daemonOutgoingBufferSize
  WireBuffer,    \* messages the stream holds per direction before it blocks
  MaxChanges     \* bound: watch events the daemon reports

ASSUME SessionAssumption ==
  /\ NoCaller \notin Callers
  /\ SendBuffer \in Nat \ {0}
  /\ DaemonBuffer \in Nat \ {0}
  /\ WireBuffer \in Nat \ {0}
  /\ MaxChanges \in Nat

VARIABLES
  pc,         \* where each caller is in Request
  id,         \* the id prepareRequest gave the caller's request, 0 before
  reqSeq,     \* the session's request counter
  outResp,    \* the response Request returned to each caller, none with an error
  pending,    \* callers whose response channel is in the pending map
  chVal,      \* the response buffered in each caller's channel
  chClosed,   \* callers whose channel is closed
  resolver,   \* the receive loop in resolvePending: "idle", "taken", "sent"
  resolving,  \* the channel it took from the map
  response,   \* the response it sends on it
  batch,      \* channels that closeWithError took from the map and must close
  closeErr,   \* the session's close error; "nil" while it is open
  sweep,      \* closeWithError: "none", "marked", "swapped" or "done"
  sweeper,    \* the goroutine that runs it
  offline,    \* offlineUntil: "zero", "ahead" of the clock or "past"
  serve,      \* where Serve is
  sendLoop,   \* the send loop: "running" or "ended"
  sendCh,     \* requests queued for the send loop
  sending,    \* the request the send loop is in stream.Send with
  stream,     \* the stream: "up" or "broken"
  down,       \* requests on their way to the daemon
  handling,   \* the response the daemon's receive loop is about to queue
  daemonQ,    \* the daemon's sendQueue
  up,         \* messages on their way to the server
  changes     \* watch events reported so far

callerVars  == <<pc, id, reqSeq, outResp>>
resolveVars == <<resolver, resolving, response>>
chanVars    == <<pending, chVal, chClosed, batch, resolveVars>>
closeVars   == <<closeErr, sweep, sweeper, offline, serve, sendLoop>>
linkVars    == <<sending, stream, down, handling, daemonQ, up, changes>>
vars == <<callerVars, chanVars, closeVars, sendCh, linkVars>>

Message == Callers \cup {NoCaller}   \* a response, or a FileChange or heartbeat

closed == closeErr # "nil"

CallerTypeOK ==
  /\ pc \in [Callers -> {"idle", "prepared", "checked", "registered",
                         "awaiting", "dropping", "done"}]
  /\ id \in [Callers -> Nat]
  /\ reqSeq \in Nat
  /\ outResp \in [Callers -> Message]

ChannelTypeOK ==
  /\ pending \in SUBSET Callers
  /\ chVal \in [Callers -> Message]
  /\ chClosed \in SUBSET Callers
  /\ batch \in SUBSET Callers
  /\ resolver \in {"idle", "taken", "sent"}
  /\ resolving \in Message
  /\ response \in Message

CloseTypeOK ==
  /\ closeErr \in {"nil", "replaced", "closed", "offline"}
  /\ sweep \in {"none", "marked", "swapped", "done"}
  /\ sweeper \in {"nobody", "serve", "replacer"}
  /\ offline \in {"zero", "ahead", "past"}
  /\ serve \in {"serving", "ending", "sweeping", "ended"}
  /\ sendLoop \in {"running", "ended"}

\* The queues, with the capacity of those that are channels of the code.
QueueTypeOK ==
  /\ sendCh \in Seq(Callers)
  /\ Len(sendCh) =< SendBuffer
  /\ sending \in Message
  /\ stream \in {"up", "broken"}
  /\ down \in Seq(Callers)
  /\ handling \in Message
  /\ daemonQ \in Seq(Message)
  /\ Len(daemonQ) =< DaemonBuffer
  /\ up \in Seq(Message)
  /\ changes \in Nat

\* Every variable has its type, and no queue or counter exceeds its bound.
TypeOK == CallerTypeOK /\ ChannelTypeOK /\ CloseTypeOK /\ QueueTypeOK

Init ==
  /\ pc = [c \in Callers |-> "idle"]
  /\ id = [c \in Callers |-> 0]
  /\ reqSeq = 0
  /\ outResp = [c \in Callers |-> NoCaller]
  /\ pending = {}
  /\ chVal = [c \in Callers |-> NoCaller]
  /\ chClosed = {}
  /\ resolver = "idle"
  /\ resolving = NoCaller
  /\ response = NoCaller
  /\ batch = {}
  /\ closeErr = "nil"
  /\ sweep = "none"
  /\ sweeper = "nobody"
  /\ offline = "zero"
  /\ serve = "serving"
  /\ sendLoop = "running"
  /\ sendCh = <<>>
  /\ sending = NoCaller
  /\ stream = "up"
  /\ down = <<>>
  /\ handling = NoCaller
  /\ daemonQ = <<>>
  /\ up = <<>>
  /\ changes = 0

-----------------------------------------------------------------------------
(* The callers: Request *)

Goto(c, place) == pc' = [pc EXCEPT ![c] = place]

\* Request is about to return this response from that place, or an error: the
\* session's, or that of the caller's context.
Return(c, place, resp) ==
  /\ Goto(c, place)
  /\ outResp' = [outResp EXCEPT ![c] = resp]

RequestOffline(c) ==
  /\ pc[c] = "idle"
  /\ offline = "ahead"
  /\ Return(c, "done", NoCaller)
  /\ UNCHANGED <<id, reqSeq, chanVars, closeVars, sendCh, linkVars>>

\* A counter that is stored without being advanced.
MutStuckRequestID == 1

NextRequestID == reqSeq + 1

PrepareRequest(c) ==
  /\ pc[c] = "idle"
  /\ offline # "ahead"
  /\ reqSeq' = NextRequestID
  /\ id' = [id EXCEPT ![c] = NextRequestID]
  /\ Goto(c, "prepared")
  /\ UNCHANGED <<outResp, chanVars, closeVars, sendCh, linkVars>>

\* registerPending, first half: the closed channel is read before pendingMu
\* is taken, so the session may be closed in between.
CheckClosed(c) ==
  /\ pc[c] = "prepared"
  /\ \/ /\ closed
        /\ Return(c, "done", NoCaller)
     \/ /\ ~closed
        /\ Goto(c, "checked")
        /\ UNCHANGED <<outResp>>
  /\ UNCHANGED <<id, reqSeq, chanVars, closeVars, sendCh, linkVars>>

\* registerPending, second half.  ErrDuplicateRequestID cannot occur: every
\* caller leaves the id to nextRequestID.
RegisterPending(c) ==
  /\ pc[c] = "checked"
  /\ \A d \in pending : id[d] # id[c]
  /\ pending' = pending \cup {c}
  /\ Goto(c, "registered")
  /\ UNCHANGED <<id, reqSeq, outResp, chVal, chClosed, batch, resolveVars,
                 closeVars, sendCh, linkVars>>

\* enqueueRequest that does not look at the closed channel.
MutEnqueueBlind(c) ==
  /\ pc[c] = "registered"
  /\ Len(sendCh) < SendBuffer
  /\ sendCh' = Append(sendCh, c)
  /\ Goto(c, "awaiting")
  /\ UNCHANGED <<id, reqSeq, outResp, chanVars, closeVars, linkVars>>

\* enqueueRequest: when both the closed channel and sendCh are ready, select
\* may take either.
EnqueueRequest(c) ==
  /\ pc[c] = "registered"
  /\ \/ /\ Len(sendCh) < SendBuffer
        /\ sendCh' = Append(sendCh, c)
        /\ Goto(c, "awaiting")
        /\ UNCHANGED <<outResp>>
     \/ /\ closed
        /\ Return(c, "dropping", NoCaller)
        /\ UNCHANGED sendCh
  /\ UNCHANGED <<id, reqSeq, chanVars, closeVars, linkVars>>

\* awaitResponse: the closed session, or the channel when it holds a response
\* or is closed without one.
AwaitResponse(c) ==
  /\ pc[c] = "awaiting"
  /\ \/ /\ closed \/ (c \in chClosed /\ chVal[c] = NoCaller)
        /\ Return(c, "dropping", NoCaller)
        /\ UNCHANGED chVal
     \/ /\ chVal[c] # NoCaller
        /\ Return(c, "dropping", chVal[c])
        /\ chVal' = [chVal EXCEPT ![c] = NoCaller]
  /\ UNCHANGED <<id, reqSeq, pending, chClosed, batch, resolveVars, closeVars,
                 sendCh, linkVars>>

\* The caller's context ends (a timeout or an interrupted system call).
CtxDone(c) ==
  /\ pc[c] \in {"registered", "awaiting"}
  /\ Return(c, "dropping", NoCaller)
  /\ UNCHANGED <<id, reqSeq, chanVars, closeVars, sendCh, linkVars>>

\* dropPending that leaves the entry of a request that was not answered.
MutDropKeepsEntry(c) ==
  /\ pc[c] = "dropping"
  /\ Goto(c, "done")
  /\ UNCHANGED <<id, reqSeq, outResp, chanVars, closeVars, sendCh, linkVars>>

\* The deferred dropPending: it closes the channel only if it took it from the
\* map.
DropPending(c) ==
  /\ pc[c] = "dropping"
  /\ pending' = pending \ {c}
  /\ chClosed' = chClosed \cup (pending \cap {c})
  /\ Goto(c, "done")
  /\ UNCHANGED <<id, reqSeq, outResp, chVal, batch, resolveVars, closeVars,
                 sendCh, linkVars>>

-----------------------------------------------------------------------------
(* Serve: the send loop and the receive loop *)

\* The context of both loops: Serve cancels it when the receive loop has
\* returned, and the stream's own context ends with the stream.
RunCtxDone == serve # "serving" \/ stream = "broken"

\* runSendLoop takes a request, also when its context is done: select may take
\* either case.
SendTake ==
  /\ sendLoop = "running"
  /\ sending = NoCaller
  /\ sendCh # <<>>
  /\ sending' = Head(sendCh)
  /\ sendCh' = Tail(sendCh)
  /\ UNCHANGED <<callerVars, chanVars, closeVars, stream, down, handling,
                 daemonQ, up, changes>>

\* stream.Send returns when the daemon receives the message ...
SendReceived ==
  /\ sending # NoCaller
  /\ stream = "up"
  /\ down = <<>> /\ handling = NoCaller
  /\ handling' = sending
  /\ sending' = NoCaller
  /\ UNCHANGED <<callerVars, chanVars, closeVars, sendCh, stream, down, daemonQ, up,
                 changes>>

\* ... or earlier, when it fits into the stream's flow-control window ...
SendBuffered ==
  /\ sending # NoCaller
  /\ stream = "up"
  /\ Len(down) < WireBuffer
  /\ down' = Append(down, sending)
  /\ sending' = NoCaller
  /\ UNCHANGED <<callerVars, chanVars, closeVars, sendCh, stream, handling, daemonQ, up,
                 changes>>

\* ... and fails with the stream, which ends the loop.
SendFails ==
  /\ sending # NoCaller
  /\ stream = "broken"
  /\ sendLoop' = "ended"
  /\ sending' = NoCaller
  /\ UNCHANGED <<callerVars, chanVars, closeErr, sweep, sweeper, offline, serve, sendCh,
                 stream, down, handling, daemonQ, up, changes>>

SendCancelled ==
  /\ sendLoop = "running"
  /\ sending = NoCaller
  /\ RunCtxDone
  /\ sendLoop' = "ended"
  /\ UNCHANGED <<callerVars, chanVars, closeErr, sweep, sweeper, offline, serve, sendCh,
                 linkVars>>

\* The channels of the map under the id of this response.
Waiting(resp) == {c \in pending : resp # NoCaller /\ id[c] = id[resp]}

\* resolvePending without the delete.
MutRecvKeepsEntry ==
  /\ serve = "serving"
  /\ resolver = "idle"
  /\ up # <<>>
  /\ up' = Tail(up)
  /\ \E c \in Waiting(Head(up)) :
       /\ resolver' = "taken"
       /\ resolving' = c
       /\ response' = Head(up)
  /\ UNCHANGED <<callerVars, pending, chVal, chClosed, batch, closeVars, sendCh,
                 sending, stream, down, handling, daemonQ, changes>>

\* runRecvLoop takes a message.  resolvePending deletes the channel a response
\* is for from the map, under pendingMu, and goes on after the unlock; a
\* response nobody waits for, and any other message, leaves the requests alone.
RecvMessage ==
  /\ serve = "serving"
  /\ resolver = "idle"
  /\ up # <<>>
  /\ up' = Tail(up)
  /\ \/ /\ Waiting(Head(up)) = {}
        /\ UNCHANGED <<pending, resolveVars>>
     \/ \E c \in Waiting(Head(up)) :
          /\ pending' = pending \ {c}
          /\ resolver' = "taken"
          /\ resolving' = c
          /\ response' = Head(up)
  /\ UNCHANGED <<callerVars, chVal, chClosed, batch, closeVars, sendCh,
                 sending, stream, down, handling, daemonQ, changes>>

\* resolvePending: ch <- resp ...
ResolveSend ==
  /\ resolver = "taken"
  /\ resolver' = "sent"
  /\ chVal' = [chVal EXCEPT ![resolving] = response]
  /\ UNCHANGED <<callerVars, pending, chClosed, batch, resolving, response,
                 closeVars, sendCh, linkVars>>

\* ... then close(ch).
ResolveClose ==
  /\ resolver = "sent"
  /\ resolver' = "idle"
  /\ resolving' = NoCaller
  /\ response' = NoCaller
  /\ chClosed' = chClosed \cup {resolving}
  /\ UNCHANGED <<callerVars, pending, chVal, batch, closeVars, sendCh, linkVars>>

\* What the daemon still holds of a stream that is over reaches nobody, and it
\* reports no further watch event on it.
LinkLost ==
  /\ stream' = "broken"
  /\ down' = <<>>
  /\ handling' = NoCaller
  /\ daemonQ' = <<>>
  /\ changes' = MaxChanges

\* runRecvLoop returns because Recv failed: what was received is dropped.
RecvFails ==
  /\ serve = "serving"
  /\ resolver = "idle"
  /\ stream = "broken"
  /\ serve' = "ending"
  /\ up' = <<>>
  /\ UNCHANGED <<callerVars, chanVars, closeErr, sweep, sweeper, offline, sendLoop,
                 sendCh, sending, stream, down, handling, daemonQ, changes>>

\* runRecvLoop returns because a change or a tree was refused.  The stream stays
\* up, and nothing is received from it any more.
RecvRefuses ==
  /\ serve = "serving"
  /\ resolver = "idle"
  /\ up # <<>> /\ Head(up) = NoCaller
  /\ serve' = "ending"
  /\ up' = Tail(up)
  /\ UNCHANGED <<callerVars, chanVars, closeErr, sweep, sweeper, offline, sendLoop,
                 sendCh, sending, stream, down, handling, daemonQ, changes>>

\* closeWithError with the test for a closed session left out.
MutCloseAgain(who, err) ==
  /\ closeErr' = err
  /\ sweep' = "marked"
  /\ sweeper' = who

\* closeWithError under stateMu: only the first call gets past it.
CloseWithError(who, err) ==
  /\ ~closed
  /\ closeErr' = err
  /\ sweep' = "marked"
  /\ sweeper' = who

\* The end of Serve, which waits for the send loop first.  What finalErr holds is
\* not told apart: nil becomes ErrSessionClosed in closeWithError.
ServeClose ==
  /\ serve = "ending"
  /\ sendLoop = "ended"
  /\ \/ /\ CloseWithError("serve", "closed")
        /\ serve' = "sweeping"
     \/ /\ closed
        /\ serve' = "ended"
        /\ UNCHANGED <<closeErr, sweep, sweeper>>
  /\ UNCHANGED <<callerVars, chanVars, offline, sendLoop, sendCh, linkVars>>

\* The handler of a newer connection closes this session as its predecessor.
Replace ==
  /\ CloseWithError("replacer", "replaced")
  /\ UNCHANGED <<callerVars, chanVars, offline, serve, sendLoop, sendCh, linkVars>>

\* closeWithError under pendingMu: the map is exchanged for an empty one.
SwapPending ==
  /\ sweep = "marked"
  /\ sweep' = "swapped"
  /\ batch' = pending
  /\ pending' = {}
  /\ UNCHANGED <<callerVars, chVal, chClosed, resolveVars, closeErr, sweeper,
                 offline, serve, sendLoop, sendCh, linkVars>>

\* closeWithError closes the channels it took, and returns.
SweepBatch ==
  /\ sweep = "swapped"
  /\ sweep' = "done"
  /\ chClosed' = chClosed \cup batch
  /\ batch' = {}
  /\ serve' = IF sweeper = "serve" THEN "ended" ELSE serve
  /\ UNCHANGED <<callerVars, pending, chVal, resolveVars, closeErr, sweeper,
                 offline, sendLoop, sendCh, linkVars>>

\* The handler returns after Serve, which ends the stream.
HandlerReturns ==
  /\ serve = "ended"
  /\ stream = "up"
  /\ LinkLost
  /\ up' = <<>>
  /\ UNCHANGED <<callerVars, chanVars, closeVars, sendCh, sending>>

\* HandleDisconnect, after Serve has returned, keeps the session as an offline
\* read-only snapshot; RetainOffline refuses a replaced one.
RetainOffline ==
  /\ serve = "ended"
  /\ offline = "zero"
  /\ closeErr # "replaced"
  /\ closeErr' = "offline"
  /\ offline' = "ahead"
  /\ UNCHANGED <<callerVars, chanVars, sweep, sweeper, serve, sendLoop, sendCh,
                 linkVars>>

\* The clock passes offlineUntil.
OfflineElapses ==
  /\ offline = "ahead"
  /\ offline' = "past"
  /\ UNCHANGED <<callerVars, chanVars, closeErr, sweep, sweeper, serve, sendLoop,
                 sendCh, linkVars>>

-----------------------------------------------------------------------------
(* The stream and the daemon *)

\* The stream breaks; what the server has received is still to be taken.
StreamBreaks ==
  /\ stream = "up"
  /\ LinkLost
  /\ UNCHANGED <<callerVars, chanVars, closeVars, sendCh, sending, up>>

\* runRecvLoop of the daemon takes a request and handles it; it takes the next
\* one only after the response is in sendQueue.
DaemonHandle ==
  /\ stream = "up"
  /\ handling = NoCaller
  /\ down # <<>>
  /\ handling' = Head(down)
  /\ down' = Tail(down)
  /\ UNCHANGED <<callerVars, chanVars, closeVars, sendCh, sending, stream, daemonQ,
                 up, changes>>

DaemonQueueResponse ==
  /\ stream = "up"
  /\ handling # NoCaller
  /\ Len(daemonQ) < DaemonBuffer
  /\ daemonQ' = Append(daemonQ, handling)
  /\ handling' = NoCaller
  /\ UNCHANGED <<callerVars, chanVars, closeVars, sendCh, sending, stream, down, up,
                 changes>>

\* forwardWatchEvents and the heartbeat compete for the same queue.
DaemonQueueChange ==
  /\ stream = "up"
  /\ changes < MaxChanges
  /\ Len(daemonQ) < DaemonBuffer
  /\ daemonQ' = Append(daemonQ, NoCaller)
  /\ changes' = changes + 1
  /\ UNCHANGED <<callerVars, chanVars, closeVars, sendCh, sending, stream, down,
                 handling, up>>

DaemonSend ==
  /\ stream = "up"
  /\ daemonQ # <<>>
  /\ Len(up) < WireBuffer
  /\ up' = Append(up, Head(daemonQ))
  /\ daemonQ' = Tail(daemonQ)
  /\ UNCHANGED <<callerVars, chanVars, closeVars, sendCh, sending, stream, down,
                 handling, changes>>

-----------------------------------------------------------------------------
CallerStep(c) ==
  \/ RequestOffline(c) \/ PrepareRequest(c) \/ CheckClosed(c) \/ RegisterPending(c)
  \/ EnqueueRequest(c) \/ AwaitResponse(c) \/ DropPending(c)

SendStep  == SendTake \/ SendReceived \/ SendFails \/ SendCancelled
RecvStep  == RecvMessage \/ RecvFails \/ ResolveSend \/ ResolveClose \/ ServeClose
SweepStep == SwapPending \/ SweepBatch

Next ==
  \/ \E c \in Callers : CallerStep(c) \/ CtxDone(c)
  \/ SendStep \/ SendBuffered \/ RecvStep \/ RecvRefuses \/ SweepStep \/ HandlerReturns
  \/ Replace \/ RetainOffline \/ OfflineElapses
  \/ StreamBreaks
  \/ DaemonHandle \/ DaemonQueueResponse \/ DaemonQueueChange \/ DaemonSend

Spec == Init /\ [][Next]_vars

\* Serve waits for a send loop that waits for the daemon to take a request, while
\* nobody receives what the daemon has to send first.  If the daemon's queue and
\* the stream are full as well, only the callers' deadlines get them out.
HeldUp == serve = "ending" /\ sending # NoCaller /\ stream = "up"

\* Every goroutine that can run keeps running, a select that finds ctx.Done()
\* ready takes it at last, and a call that has begun goes on.  While the stream is
\* up the network and the daemon make progress as far as the other side receives:
\* a message may be too large for the stream to buffer.  A stream that stalls
\* without breaking leaves the callers to their deadlines, and so does a session
\* that is held up: withRequestTimeout gives every request one.  Nothing is assumed
\* of deadlines otherwise, nor of replacement or of the stream staying up.
Fairness ==
  /\ \A c \in Callers : WF_vars(pc[c] # "idle" /\ CallerStep(c))
  /\ \A c \in Callers : WF_vars(HeldUp /\ CtxDone(c))
  /\ WF_vars(SendStep)
  /\ WF_vars(RecvStep)
  /\ WF_vars(SweepStep)
  /\ WF_vars(DaemonHandle)
  /\ WF_vars(DaemonQueueResponse)
  /\ WF_vars(serve = "serving" /\ DaemonSend)

FairSpec == Spec /\ Fairness

-----------------------------------------------------------------------------
(* Properties *)

\* Request hands a caller the response to its own request and no other, also
\* when an earlier caller gave up and its response arrives late.
OwnResponse ==
  \A c \in Callers : outResp[c] \in {c, NoCaller} /\ chVal[c] \in {c, NoCaller}

\* A response channel is sent on at most once and closed at most once, whoever
\* of resolvePending, dropPending and closeWithError takes it from the map: the
\* one who will send or close finds it open, and no second one holds it.
ChannelDiscipline ==
  /\ \A c \in pending \cup batch : c \notin chClosed /\ chVal[c] = NoCaller
  /\ pending \cap batch = {}
  /\ resolver # "idle" => resolving \notin pending \cup batch \cup chClosed

\* A channel stays in the map only while its caller is inside Request: nothing
\* that was registered is forgotten there, on no return path, also when the
\* registration slipped in after closeWithError had emptied the map.
NoPendingLeak ==
  \A c \in pending : pc[c] \in {"registered", "awaiting", "dropping"}

\* A session that was replaced stays replaced: neither the end of its own
\* stream nor offline retention changes the error that callers are given.
ReplacedIsFinal == [][closeErr = "replaced" => closeErr' = "replaced"]_vars

\* Every Request that starts returns, and relies on its deadline only while
\* Serve is held up by its own send loop: the bounded queues of both sides do not
\* block each other for good otherwise, and a close wakes every caller.
RequestReturns == \A c \in Callers : (pc[c] = "prepared") ~> (pc[c] = "done")

=============================================================================
