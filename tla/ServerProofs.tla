---------------------------- MODULE ServerProofs ----------------------------
(***************************************************************************)
(* The server keeps its rates, for any number of streams, any rates and    *)
(* bursts and for as long as it runs (Server); and what it shows of a file *)
(* is never older than the metadata it shows with it, for any number of    *)
(* readers, writers and versions (FileView).                               *)
(***************************************************************************)
EXTENDS Server, FileView, SequenceTheorems, TLAPS

\* What a limiter has given out and what it still holds is covered by the burst and
\* what came in up to its last refill.
Covered(b) ==
  /\ born[b] =< last[b] /\ last[b] =< now
  /\ granted[b] + tokens[b] =< Burst[b] + Rate[b] * (last[b] - born[b])

LimitInv ==
  /\ now \in Nat /\ made \subseteq Buckets
  /\ tokens \in [Buckets -> Nat] /\ last \in [Buckets -> Nat]
  /\ born \in [Buckets -> Nat] /\ granted \in [Buckets -> Nat]
  /\ remaining \in [Waiters -> Nat]
  /\ \A b \in made : Covered(b)
  /\ \A b \in Buckets \ made : granted[b] = 0

\* A stream that waits does so at a limiter that was made.
WaiterInv ==
  /\ stage \in [Streams -> {"none", "auth", "limited", "serving", "stuck", "ended"}]
  /\ bucket \in [Streams -> Buckets]
  /\ \A s \in Streams : stage[s] = "limited" => bucket[s] \in made

ServerInv == LimitInv /\ WaiterInv

-----------------------------------------------------------------------------
(* Arithmetic of a refill *)

\* What comes in from a to b and from b to c is what comes in from a to c.
LEMMA RateAdds ==
  ASSUME NEW r \in Nat, NEW a \in Nat, NEW b \in Nat, NEW c \in Nat
  PROVE  r * (b - a) + r * (c - b) = r * (c - a)
OBVIOUS

\* Time that passes brings something in, or nothing.
LEMMA RateGrows ==
  ASSUME NEW r \in Nat, NEW a \in Nat, NEW b \in Nat, a =< b
  PROVE  r * (b - a) \in Nat
<1>1. b - a \in Nat
  OBVIOUS
<1> QED BY <1>1

\* refillLocked: a refill gives a natural number, at most what came in.
LEMMA RefillBounds ==
  ASSUME LimitInv, NEW b \in made
  PROVE  /\ Refilled(b) \in Nat
         /\ granted[b] + Refilled(b) =< Burst[b] + Rate[b] * (now - born[b])
<1>1. b \in Buckets /\ Rate[b] \in Nat /\ Burst[b] \in Nat
  BY LimiterAssumption DEF LimitInv
<1>2. /\ now \in Nat /\ last[b] \in Nat /\ born[b] \in Nat
      /\ tokens[b] \in Nat /\ granted[b] \in Nat
  BY <1>1 DEF LimitInv
<1>3. /\ born[b] =< last[b] /\ last[b] =< now
      /\ granted[b] + tokens[b] =< Burst[b] + Rate[b] * (last[b] - born[b])
  BY DEF LimitInv, Covered
<1> DEFINE came == Rate[b] * (now - last[b])
           before == Rate[b] * (last[b] - born[b])
           all == Rate[b] * (now - born[b])
<1>4. came \in Nat
  BY <1>1, <1>2, <1>3, RateGrows
<1>5. before \in Nat
  BY <1>1, <1>2, <1>3, RateGrows
<1>6. before + came = all
  BY <1>1, <1>2, RateAdds
<1>7. Refilled(b) = Least(Burst[b], tokens[b] + came)
  BY DEF Refilled
<1>8. granted[b] + tokens[b] =< Burst[b] + before
  BY <1>3
<1> HIDE DEF came, before, all
<1>9. Refilled(b) \in Nat /\ Refilled(b) =< tokens[b] + came
  BY <1>1, <1>2, <1>4, <1>7 DEF Least
<1>10. granted[b] + Refilled(b) =< Burst[b] + all
  BY <1>1, <1>2, <1>4, <1>5, <1>6, <1>8, <1>9
<1> QED BY <1>9, <1>10 DEF all

-----------------------------------------------------------------------------
(* The limiter's operations *)

\* limiterFor: a new limiter is full and has given nothing out, an old one stays.
LEMMA CallKeepsLimit ==
  ASSUME LimitInv, NEW w \in Waiters, NEW b \in Buckets, NEW n \in Nat, WaitCalled(w, b, n)
  PROVE  LimitInv' /\ b \in made' /\ made \subseteq made'
<1> USE DEF WaitCalled, LimiterFor
<1>1. Burst \in [Buckets -> Nat] /\ Rate \in [Buckets -> Nat]
  BY LimiterAssumption
<1>2. /\ now' \in Nat /\ made' \subseteq Buckets
      /\ tokens' \in [Buckets -> Nat] /\ last' \in [Buckets -> Nat]
      /\ born' \in [Buckets -> Nat] /\ granted' \in [Buckets -> Nat]
      /\ remaining' \in [Waiters -> Nat]
  BY <1>1 DEF LimitInv
<1>3. ASSUME NEW x \in made' PROVE Covered(x)'
  <2>1. CASE x \in made
    <3>1. /\ tokens'[x] = tokens[x] /\ last'[x] = last[x] /\ born'[x] = born[x]
          /\ granted'[x] = granted[x] /\ now' = now
      BY <2>1 DEF LimitInv
    <3> QED BY <2>1, <3>1 DEF LimitInv, Covered
  <2>2. CASE x \notin made
    <3>1. /\ x = b /\ tokens'[x] = Burst[x] /\ last'[x] = now /\ born'[x] = now
          /\ granted'[x] = 0 /\ now' = now
      BY <2>2 DEF LimitInv
    <3>2. now \in Nat /\ Burst[x] \in Nat /\ Rate[x] \in Nat
      BY <1>1, <3>1 DEF LimitInv
    <3>3. Rate[x] * (now - now) = 0
      BY <3>2
    <3> QED BY <3>1, <3>2, <3>3 DEF Covered
  <2> QED BY <2>1, <2>2
<1>4. \A x \in Buckets \ made' : granted'[x] = 0
  BY DEF LimitInv
<1> QED BY <1>2, <1>3, <1>4 DEF LimitInv

\* One turn of Wait gives out what it takes from the bucket, no more.
LEMMA TurnKeepsLimit ==
  ASSUME LimitInv, NEW w \in Waiters, NEW b \in made, WaitTurn(w, b)
  PROVE  LimitInv' /\ made' = made
<1> DEFINE avail == Refilled(b)
           take == Least(remaining[w], avail)
<1>1. /\ avail \in Nat
      /\ granted[b] + avail =< Burst[b] + Rate[b] * (now - born[b])
  BY RefillBounds
<1>2. /\ tokens' = [tokens EXCEPT ![b] = avail - take]
      /\ last' = [last EXCEPT ![b] = now]
      /\ granted' = [granted EXCEPT ![b] = @ + take]
      /\ remaining' = [remaining EXCEPT ![w] = remaining[w] - take]
      /\ now' = now /\ made' = made /\ born' = born
  BY DEF WaitTurn
<1>3. b \in Buckets /\ remaining[w] \in Nat
  BY DEF LimitInv
<1> HIDE DEF avail
<1>4. take \in Nat /\ avail - take \in Nat /\ remaining[w] - take \in Nat
  BY <1>1, <1>3 DEF Least
<1> HIDE DEF take
<1>5. /\ now' \in Nat /\ made' \subseteq Buckets
      /\ tokens' \in [Buckets -> Nat] /\ last' \in [Buckets -> Nat]
      /\ born' \in [Buckets -> Nat] /\ granted' \in [Buckets -> Nat]
      /\ remaining' \in [Waiters -> Nat]
  BY <1>2, <1>3, <1>4 DEF LimitInv
<1>6. ASSUME NEW x \in made' PROVE Covered(x)'
  <2>1. CASE x = b
    <3>1. /\ tokens'[b] = avail - take /\ last'[b] = now /\ granted'[b] = granted[b] + take
          /\ born'[b] = born[b] /\ granted[b] \in Nat
      BY <1>2, <1>3 DEF LimitInv
    <3>2. granted'[b] + tokens'[b] = granted[b] + avail
      BY <1>1, <1>4, <3>1
    <3>3. born[b] =< now
      BY <1>3 DEF LimitInv, Covered
    <3>4. now =< now
      BY DEF LimitInv
    <3> QED BY <1>1, <1>2, <2>1, <3>1, <3>2, <3>3, <3>4 DEF Covered
  <2>2. CASE x # b
    <3>1. x \in Buckets /\ x \in made
      BY <1>2 DEF LimitInv
    <3>2. /\ tokens'[x] = tokens[x] /\ last'[x] = last[x] /\ born'[x] = born[x]
          /\ granted'[x] = granted[x] /\ now' = now
      BY <1>2, <2>2, <3>1 DEF LimitInv
    <3> QED BY <3>1, <3>2 DEF LimitInv, Covered
  <2> QED BY <2>1, <2>2
<1>7. \A x \in Buckets \ made' : granted'[x] = 0
  BY <1>2 DEF LimitInv
<1> QED BY <1>2, <1>5, <1>6, <1>7 DEF LimitInv

\* waitContext: what a cancelled Wait has taken is not given back.
LEMMA CancelKeepsLimit ==
  ASSUME LimitInv, NEW w \in Waiters, WaitCancelled(w)
  PROVE  LimitInv' /\ made' = made
BY DEF LimitInv, Covered, WaitCancelled

LEMMA TickKeepsLimit ==
  ASSUME LimitInv, Tick
  PROVE  LimitInv' /\ made' = made
<1>1. now' \in Nat /\ now =< now'
  BY DEF LimitInv, Tick
<1>2. UNCHANGED <<made, tokens, last, born, granted, remaining>>
  BY DEF Tick
<1>3. ASSUME NEW x \in made PROVE last[x] =< now'
  BY <1>1 DEF LimitInv, Covered
<1> QED BY <1>1, <1>2, <1>3 DEF LimitInv, Covered

\* A step that leaves the limiters alone.
LEMMA LimitUntouched ==
  ASSUME LimitInv, UNCHANGED limitVars
  PROVE  LimitInv' /\ made' = made
BY DEF LimitInv, Covered, limitVars

-----------------------------------------------------------------------------
(* The invariant *)

LEMMA InitServerInv == Init => ServerInv
<1> SUFFICES ASSUME Init PROVE ServerInv
  OBVIOUS
<1>1. LimitInv
  BY DEF Init, LimiterInit, LimitInv
<1>2. WaiterInv
  BY ServerAssumption DEF Init, WaiterInv
<1> QED BY <1>1, <1>2 DEF ServerInv

\* Steps of the process and of the goroutine that waits for the signal.
LEMMA ProcessKeepsInv ==
  ASSUME ServerInv, Process \/ Signal \/ Drained \/ WatcherUnmounts
  PROVE  ServerInv'
<1> USE DEF ServerInv, procVars, streamVars
<1>1. UNCHANGED <<streamVars, limitVars>>
  BY DEF Process, MountWorkspace, Listen, Signal, StopServing, Drained, ForceStop, Stopped,
         CloseListener, WatcherUnmounts, ExitUnmounts
<1>2. LimitInv' /\ made' = made
  BY <1>1, LimitUntouched
<1>3. WaiterInv'
  BY <1>1, <1>2 DEF WaiterInv
<1> QED BY <1>2, <1>3

\* Steps of a stream.
LEMMA StreamKeepsInv ==
  ASSUME ServerInv, NEW s \in Streams,
         \/ Accept(s) \/ Authenticate(s) \/ Input(s) \/ Limited(s) \/ GiveUp(s)
         \/ HandlerEnds(s) \/ HandlerPanics(s) \/ HandlerSticks(s) \/ AgentEnds(s)
  PROVE  ServerInv'
<1> USE DEF ServerInv, Goto
<1>1. s \in Waiters
  BY DEF Streams
<1>2. CASE Accept(s)
  BY <1>2, LimitUntouched DEF WaiterInv, Accept
<1>3. CASE Authenticate(s)
  <2>1. CASE UNCHANGED <<bucket, limitVars>> /\ (Goto(s, "ended") \/ Goto(s, "serving"))
    BY <2>1, LimitUntouched DEF WaiterInv
  <2>2. CASE /\ Goto(s, "limited")
             /\ bucket' = [bucket EXCEPT ![s] = "attach"]
             /\ WaitCalled(s, "attach", 1)
    <3>1. LimitInv' /\ "attach" \in made' /\ made \subseteq made'
      BY <1>1, <2>2, CallKeepsLimit, ServerAssumption
    <3>2. WaiterInv'
      BY <2>2, <3>1, ServerAssumption DEF WaiterInv
    <3> QED BY <3>1, <3>2
  <2> QED BY <1>3, <2>1, <2>2 DEF Authenticate
<1>4. CASE Input(s)
  <2>1. LimitInv' /\ "input" \in made' /\ made \subseteq made'
    BY <1>1, <1>4, CallKeepsLimit, ServerAssumption DEF Input
  <2>2. WaiterInv'
    BY <1>4, <2>1, ServerAssumption DEF WaiterInv, Input
  <2> QED BY <2>1, <2>2
<1>5. CASE Limited(s)
  <2>1. bucket[s] \in made
    BY <1>5 DEF Limited, WaiterInv
  <2>2. LimitInv' /\ made' = made
    BY <1>1, <1>5, <2>1, TurnKeepsLimit DEF Limited
  <2>3. WaiterInv'
    BY <1>5, <2>2 DEF WaiterInv, Limited
  <2> QED BY <2>2, <2>3
<1>6. CASE GiveUp(s)
  <2>1. LimitInv' /\ made' = made
    BY <1>1, <1>6, CancelKeepsLimit DEF GiveUp
  <2> QED BY <1>6, <2>1 DEF WaiterInv, GiveUp
<1>7. CASE HandlerEnds(s) \/ HandlerPanics(s) \/ HandlerSticks(s) \/ AgentEnds(s)
  BY <1>7, LimitUntouched DEF WaiterInv, HandlerEnds, HandlerPanics, HandlerSticks, AgentEnds
<1> QED BY <1>2, <1>3, <1>4, <1>5, <1>6, <1>7

LEMMA NextKeepsServerInv == ServerInv /\ [Next]_vars => ServerInv'
<1> SUFFICES ASSUME ServerInv, [Next]_vars PROVE ServerInv'
  OBVIOUS
<1>1. CASE Process \/ Signal \/ Drained \/ WatcherUnmounts
  BY <1>1, ProcessKeepsInv
<1>2. CASE TimePasses
  <2>1. LimitInv' /\ made' = made
    BY <1>2, TickKeepsLimit DEF TimePasses, ServerInv
  <2> QED BY <1>2, <2>1 DEF ServerInv, WaiterInv, TimePasses, streamVars, procVars
<1>3. CASE \E s \in Streams : \/ Accept(s) \/ Authenticate(s) \/ Input(s) \/ Limited(s)
                              \/ GiveUp(s) \/ HandlerEnds(s) \/ HandlerPanics(s)
                              \/ HandlerSticks(s) \/ AgentEnds(s)
  BY <1>3, StreamKeepsInv
<1>4. CASE UNCHANGED vars
  <2>1. LimitInv' /\ made' = made
    BY <1>4, LimitUntouched DEF vars, ServerInv
  <2> QED BY <1>4, <2>1 DEF ServerInv, WaiterInv, vars, streamVars, procVars
<1> QED BY <1>1, <1>2, <1>3, <1>4 DEF Next

-----------------------------------------------------------------------------
(* The theorems *)

\* The server process and its limiters, whatever their streams and signals do, keep
\* the invariant.
THEOREM ServerInvariant == Spec => []ServerInv
BY InitServerInv, NextKeepsServerInv, PTL DEF Spec

\* Wait, limiterFor: what a limiter lets through is the burst and what came in since it
\* was made, for any number of sessions that wait and give up.
THEOREM ServerRateKept == Spec => []RateKept
<1>1. ServerInv => RateKept
  <2> SUFFICES ASSUME ServerInv, NEW b \in made
               PROVE  granted[b] =< Burst[b] + Rate[b] * (now - born[b])
    BY DEF RateKept
  <2>1. LimitInv
    BY DEF ServerInv
  <2>2. b \in Buckets
    BY <2>1 DEF LimitInv
  <2>3. /\ Burst[b] \in Nat /\ Rate[b] \in Nat /\ granted[b] \in Nat
        /\ now \in Nat /\ born[b] \in Nat
    BY <2>1, <2>2, LimiterAssumption DEF LimitInv
  <2>4. born[b] =< now
    BY <2>1, <2>2 DEF LimitInv, Covered
  <2>5. Rate[b] * (now - born[b]) \in Nat
    BY <2>3, <2>4, RateGrows
  <2>6. /\ Refilled(b) \in Nat
        /\ granted[b] + Refilled(b) =< Burst[b] + Rate[b] * (now - born[b])
    BY <2>1, RefillBounds
  <2> QED BY <2>3, <2>5, <2>6
<1> QED BY <1>1, ServerInvariant, PTL

-----------------------------------------------------------------------------
(* The view of a file *)

Messages == [to : Procs, answer : Answer] \cup [to : {None}, change : Change]

\* What is left of a queue when its first element is taken ...
LEMMA TakeFrom ==
  ASSUME NEW S, NEW q \in Seq(S), q # <<>>
  PROVE  /\ Tail(q) \in Seq(S) /\ Head(q) \in S /\ Head(q) = q[1] /\ 1 \in 1..Len(q)
         /\ Len(Tail(q)) =< Len(q)
         /\ \A i \in 1..Len(Tail(q)) : i + 1 \in 1..Len(q) /\ Tail(q)[i] = q[i + 1]
  OBVIOUS

\* ... and what is in it when one is put at its end.
LEMMA PutInto ==
  ASSUME NEW S, NEW q \in Seq(S), NEW e \in S
  PROVE  /\ Append(q, e) \in Seq(S) /\ Len(Append(q, e)) = Len(q) + 1
         /\ \A i \in 1..Len(Append(q, e)) :
              \/ i \in 1..Len(q) /\ Append(q, e)[i] = q[i]
              \/ Append(q, e)[i] = e
  OBVIOUS

\* The reader has sent its request, or needs none.
Asked(r) == pc[r] \in {"waiting", "answered", "done"}

\* The version a message is about.
VerOf(m) == IF m.to = None THEN m.change.ver ELSE m.answer.ver

\* The file on disk has the newest version, and nobody knows of a newer one.
NoneNewer ==
  /\ disk # None => disk = newest
  /\ tree # None => tree =< newest
  /\ cache # None => cache.ver =< newest
  /\ \A i \in 1..Len(events) : events[i].ver =< newest
  /\ \A i \in 1..Len(up) : VerOf(up[i]) =< newest
  /\ \A p \in Procs : info[p] =< newest /\ answer[p].ver =< newest

\* A request for content follows the look at the metadata, so the answer is at least as
\* new, wherever it is.
NotOlder(a, r) == a.ok => a.ver > 0 /\ a.ver >= info[r]

\* Content is not older than a version that looks like version j.
NoOlderThan(v, j) == \E i \in Infos : SigOf[i] = SigOf[j] /\ i =< v

ReadOf(r) ==
  /\ op[r] = "read"
  /\ \A i \in 1..Len(down) : down[i] = r => Asked(r)
  /\ handling = r => Asked(r)
  /\ \A i \in 1..Len(up) : up[i].to = r => Asked(r) /\ NotOlder(up[i].answer, r)
  /\ pc[r] = "answered" => NotOlder(answer[r], r)
  /\ content[r] # None => pc[r] = "done" /\ NoOlderThan(content[r], info[r])

\* An entry's content is at least as new as the metadata it is kept under.
EntryInv == cache # None => \E i \in Infos : cache.sig = SigOf[i] /\ i =< cache.ver

ViewInv == ViewTypeOK /\ NoneNewer /\ EntryInv /\ \A r \in Readers : ReadOf(r)

LEMMA Kinds ==
  /\ Versions \subseteq Infos /\ Infos \subseteq Nat /\ 0 \in Infos
  /\ None \notin Infos /\ None \notin Procs
  /\ \A a \in Answer : a.ok \in BOOLEAN /\ a.ver \in Infos
  /\ Silence \in Answer
  /\ \A m \in Messages : /\ m.to # None => m.to \in Procs /\ m.answer \in Answer
                         /\ m.to = None => m.change \in Change
  BY FileViewAssumption DEF Versions, Infos, Procs, Answer, Silence, Messages

\* The type invariant in the parts that steps change together.
DiskTypes == /\ disk \in Versions \cup {None} /\ newest \in Versions
             /\ remembered \in BOOLEAN /\ notes \in Seq(Note)
EventTypes == events \in Seq(Change) /\ Len(events) =< EventCap
LinkTypes == /\ down \in Seq(Procs) /\ handling \in Procs \cup {None}
             /\ removed \in BOOLEAN /\ up \in Seq(Messages)
TreeTypes == /\ tree \in Infos \cup {None} /\ cache \in Entry \cup {None}
             /\ recv \in {"idle", "invalidate"}
Places == {"idle", "looked", "waiting", "answered", "applied", "done"}
ProcTypes == /\ pc \in [Procs -> Places]
             /\ op \in [Procs -> {"read", "write", "delete"}]
             /\ info \in [Procs -> Infos]
             /\ content \in [Procs -> Versions \cup {None}]
             /\ answer \in [Procs -> Answer]

LEMMA ViewParts ==
  /\ ViewTypeOK <=> DiskTypes /\ EventTypes /\ LinkTypes /\ TreeTypes /\ ProcTypes
  /\ ViewTypeOK' <=> DiskTypes' /\ EventTypes' /\ LinkTypes' /\ TreeTypes' /\ ProcTypes'
  BY DEF ViewTypeOK, DiskTypes, EventTypes, LinkTypes, TreeTypes, ProcTypes, Places, Messages

LEMMA PartsSame ==
  /\ UNCHANGED daemonVars => (DiskTypes /\ EventTypes => DiskTypes' /\ EventTypes')
  /\ UNCHANGED <<disk, newest, remembered, notes>> => (DiskTypes => DiskTypes')
  /\ UNCHANGED events => (EventTypes => EventTypes')
  /\ UNCHANGED linkVars => (LinkTypes => LinkTypes')
  /\ UNCHANGED treeVars => (TreeTypes => TreeTypes')
  /\ UNCHANGED callVars => (ProcTypes => ProcTypes')
  BY DEF daemonVars, linkVars, treeVars, callVars, DiskTypes, EventTypes, LinkTypes, TreeTypes,
         ProcTypes

\* Queues keep elements, drop some, or get some that are not too new.
LEMMA NewerKept ==
  ASSUME ViewTypeOK, NoneNewer, newest' \in Nat, newest' >= newest,
         disk' # None => disk' = newest',
         tree' # None => tree' = tree \/ tree' =< newest',
         cache' # None => cache' = cache \/ cache'.ver =< newest',
         \A i \in 1..Len(events') : \/ events'[i].ver =< newest'
                                    \/ \E j \in 1..Len(events) : events'[i] = events[j],
         \A i \in 1..Len(up') : \/ VerOf(up'[i]) =< newest'
                                \/ \E j \in 1..Len(up) : up'[i] = up[j],
         \A p \in Procs : /\ info'[p] = info[p] \/ info'[p] =< newest'
                          /\ answer'[p] = answer[p] \/ answer'[p].ver =< newest'
  PROVE  NoneNewer'
<1>1. newest \in Nat /\ \A n \in Nat : n =< newest => n =< newest'
  <2>1. newest \in Nat
    BY Kinds DEF ViewTypeOK
  <2> QED BY <2>1
<1>2. tree' # None => tree' =< newest'
  BY <1>1, Kinds DEF ViewTypeOK, NoneNewer
<1>3. cache' # None => cache'.ver =< newest'
  <2>1. cache # None => cache.ver \in Nat
    BY Kinds DEF ViewTypeOK, Entry
  <2> QED BY <1>1, <2>1 DEF NoneNewer
<1>4. \A i \in 1..Len(events') : events'[i].ver =< newest'
  <2>1. \A j \in 1..Len(events) : events[j] \in Change
    BY DEF ViewTypeOK
  <2>2. \A j \in 1..Len(events) : events[j].ver \in Nat
    BY <2>1, Kinds DEF Change
  <2> QED BY <1>1, <2>2 DEF NoneNewer
<1>5. \A i \in 1..Len(up') : VerOf(up'[i]) =< newest'
  <2>1. \A j \in 1..Len(up) : up[j] \in Messages
    BY DEF ViewTypeOK, Messages
  <2>2. \A j \in 1..Len(up) : VerOf(up[j]) \in Nat
    BY <2>1, Kinds DEF VerOf, Change
  <2> QED BY <1>1, <2>2 DEF NoneNewer
<1>6. \A p \in Procs : info'[p] =< newest' /\ answer'[p].ver =< newest'
  <2>1. \A p \in Procs : info[p] \in Nat /\ answer[p].ver \in Nat
    BY Kinds DEF ViewTypeOK
  <2> QED BY <1>1, <2>1 DEF NoneNewer
<1>7. (\A i \in 1..Len(up) : VerOf(up[i]) =< newest)'
        <=> \A i \in 1..Len(up') : VerOf(up'[i]) =< newest'
  BY DEF VerOf
<1> QED BY <1>2, <1>3, <1>4, <1>5, <1>6, <1>7 DEF NoneNewer

\* What a step of another may do to a reader's request.
LEMMA ReadKept ==
  ASSUME NEW x \in Readers, ReadOf(x), op' = op, info'[x] = info[x], content'[x] = content[x],
         Asked(x) => Asked(x)',
         content[x] # None => pc'[x] = "done",
         pc'[x] = "answered" => \/ pc[x] = "answered" /\ answer'[x] = answer[x]
                                \/ \E j \in 1..Len(up) : up[j].to = x /\ answer'[x] = up[j].answer,
         \A i \in 1..Len(down') : down'[i] = x => Asked(x)' \/ \E j \in 1..Len(down) : down[j] = x,
         handling' = x => handling = x \/ \E j \in 1..Len(down) : down[j] = x,
         \A i \in 1..Len(up') : up'[i].to = x =>
            \/ \E j \in 1..Len(up) : up'[i] = up[j]
            \/ handling = x /\ NotOlder(up'[i].answer, x)
  PROVE  ReadOf(x)'
<1>1. \A a : NotOlder(a, x) => (a.ok => a.ver > 0 /\ a.ver >= info'[x])
  BY DEF NotOlder
<1>2. \A i \in 1..Len(up') : up'[i].to = x =>
        Asked(x)' /\ (up'[i].answer.ok => up'[i].answer.ver > 0 /\ up'[i].answer.ver >= info'[x])
  BY <1>1 DEF ReadOf
<1>3. pc'[x] = "answered" => (answer'[x].ok => answer'[x].ver > 0 /\ answer'[x].ver >= info'[x])
  BY <1>1 DEF ReadOf
<1>4. \A i \in 1..Len(down') : down'[i] = x => Asked(x)'
  BY DEF ReadOf
<1>5. handling' = x => Asked(x)'
  BY DEF ReadOf
<1>6. content'[x] # None => pc'[x] = "done" /\ NoOlderThan(content'[x], info'[x])
  BY DEF ReadOf
<1>7. op'[x] = "read"
  BY DEF ReadOf
<1>8. NoOlderThan(content[x], info[x])' <=> NoOlderThan(content'[x], info'[x])
  BY DEF NoOlderThan
<1> QED BY <1>2, <1>3, <1>4, <1>5, <1>6, <1>7, <1>8 DEF ReadOf, NotOlder

\* A step that puts nothing into the cache.
LEMMA EntryKept ==
  ASSUME EntryInv, cache' = cache \/ cache' = None
  PROVE  EntryInv'
  BY DEF EntryInv

\* readChunk and prefetchFile.
LEMMA LookupKeeps ==
  ASSUME ViewInv, NEW r \in Readers, ReadLookup(r)
  PROVE  ViewInv'
<1> USE DEF ViewInv
<1>1. /\ r \in Procs /\ pc[r] = "idle"
      /\ UNCHANGED <<daemonVars, linkVars, treeVars, op, content, answer>>
      /\ \/ tree # None /\ info' = [info EXCEPT ![r] = tree] /\ pc' = [pc EXCEPT ![r] = "looked"]
         \/ info' = info /\ pc' = [pc EXCEPT ![r] = "done"]
  BY DEF ReadLookup, Procs, MoveTo
<1>2. ProcTypes /\ TreeTypes /\ newest \in Nat /\ newest' = newest
  BY <1>1, ViewParts, Kinds DEF DiskTypes, daemonVars
<1>3. ProcTypes'
  BY <1>1, <1>2 DEF ProcTypes, TreeTypes, Places
<1>4. ViewTypeOK'
  BY <1>1, <1>3, ViewParts, PartsSame
<1>5. \A p \in Procs : info'[p] = info[p] \/ info'[p] =< newest'
  BY <1>1, <1>2 DEF ProcTypes, NoneNewer
<1>6. NoneNewer'
  <2>1. /\ disk' = disk /\ tree' = tree /\ cache' = cache /\ events' = events /\ up' = up
        /\ answer' = answer
    BY <1>1 DEF daemonVars, linkVars, treeVars
  <2>2. disk' # None => disk' = newest'
    BY <1>2, <2>1 DEF NoneNewer
  <2> QED BY <1>2, <1>5, <2>1, <2>2, NewerKept
<1>7. EntryInv'
  BY <1>1, EntryKept DEF treeVars
<1>8. ASSUME NEW x \in Readers PROVE ReadOf(x)'
  <2>1. /\ down' = down /\ handling' = handling /\ up' = up /\ op' = op /\ content' = content
        /\ answer' = answer
    BY <1>1 DEF linkVars
  <2>2. CASE x = r
    <3>1. /\ op[r] = "read" /\ content[r] = None /\ handling # r
          /\ \A i \in 1..Len(down) : down[i] # r
          /\ \A i \in 1..Len(up) : up[i].to # r
      BY <1>1 DEF ReadOf, Asked
    <3>2. pc'[r] # "answered"
      BY <1>1, <1>2 DEF ProcTypes
    <3> QED BY <2>1, <2>2, <3>1, <3>2 DEF ReadOf
  <2>3. CASE x # r
    <3>1. pc'[x] = pc[x] /\ info'[x] = info[x]
      BY <1>1, <1>2, <2>3 DEF ProcTypes, Procs
    <3>2. Asked(x)' <=> Asked(x)
      BY <3>1 DEF Asked
    <3>3. ReadOf(x)
      OBVIOUS
    <3> HIDE DEF ViewInv
    <3> QED BY <2>1, <3>1, <3>2, <3>3, ReadKept DEF ReadOf
  <2> QED BY <2>2, <2>3
<1> QED BY <1>4, <1>6, <1>7, <1>8

LEMMA CachedKeeps ==
  ASSUME ViewInv, NEW r \in Readers, ReadCached(r)
  PROVE  ViewInv'
<1> USE DEF ViewInv
<1>1. /\ r \in Procs /\ pc[r] = "looked"
      /\ UNCHANGED <<daemonVars, handling, removed, up, tree, recv, op, info, answer>>
  BY DEF ReadCached, Procs
<1>2. \/ /\ cache # None /\ cache.sig = SigOf[info[r]] /\ UNCHANGED <<cache, down>>
         /\ content' = [content EXCEPT ![r] = cache.ver]
         /\ pc' = [pc EXCEPT ![r] = "done"]
      \/ /\ cache' = None /\ down' = Append(down, r) /\ UNCHANGED content
         /\ pc' = [pc EXCEPT ![r] = "waiting"]
  BY DEF ReadCached, Hit, MoveTo
<1>3. /\ ProcTypes /\ TreeTypes /\ LinkTypes /\ newest \in Nat /\ newest' = newest
      /\ cache # None => cache.ver \in Versions
  BY <1>1, ViewParts, Kinds DEF DiskTypes, daemonVars, TreeTypes, Entry
<1>4. /\ down' \in Seq(Procs)
      /\ \A i \in 1..Len(down') : down'[i] = r \/ \E j \in 1..Len(down) : down'[i] = down[j]
  <2>1. CASE down' = down
    BY <1>3, <2>1 DEF LinkTypes
  <2>2. CASE down' = Append(down, r)
    BY <1>1, <1>3, <2>2, PutInto DEF LinkTypes
  <2> QED BY <1>2, <2>1, <2>2
<1>5. ViewTypeOK'
  <2>1. ProcTypes'
    <3>1. pc' \in [Procs -> Places] /\ content' \in [Procs -> Versions \cup {None}]
      BY <1>2, <1>3 DEF ProcTypes, Places
    <3> QED BY <1>1, <1>3, <3>1 DEF ProcTypes
  <2>2. TreeTypes'
    BY <1>1, <1>2, <1>3 DEF TreeTypes
  <2>3. LinkTypes'
    BY <1>1, <1>3, <1>4 DEF LinkTypes
  <2> QED BY <1>1, <2>1, <2>2, <2>3, ViewParts, PartsSame
<1>6. NoneNewer'
  <2>1. /\ disk' = disk /\ tree' = tree /\ (cache' = cache \/ cache' = None) /\ events' = events
        /\ up' = up /\ answer' = answer /\ info' = info
    BY <1>1, <1>2 DEF daemonVars
  <2>2. disk' # None => disk' = newest'
    BY <1>3, <2>1 DEF NoneNewer
  <2> QED BY <1>3, <2>1, <2>2, NewerKept
<1>7. EntryInv'
  BY <1>2, EntryKept
<1>8. ASSUME NEW x \in Readers PROVE ReadOf(x)'
  <2>1. /\ handling' = handling /\ up' = up /\ op' = op /\ answer' = answer /\ info' = info
    BY <1>1
  <2>2. CASE x = r
    <3>1. /\ op[r] = "read" /\ content[r] = None /\ info[r] \in Infos
          /\ handling # r /\ \A i \in 1..Len(up) : up[i].to # r
      BY <1>1, <1>3 DEF ReadOf, Asked, ProcTypes
    <3>2. pc'[r] \in {"waiting", "done"}
      BY <1>1, <1>2, <1>3 DEF ProcTypes
    <3>3. content'[r] # None => pc'[r] = "done" /\ NoOlderThan(content'[r], info'[r])
      <4>1. CASE content' = content
        BY <3>1, <4>1
      <4>2. CASE /\ cache # None /\ cache.sig = SigOf[info[r]]
                 /\ content' = [content EXCEPT ![r] = cache.ver]
                 /\ pc' = [pc EXCEPT ![r] = "done"]
        <5>1. content'[r] = cache.ver /\ pc'[r] = "done"
          BY <1>1, <1>3, <4>2 DEF ProcTypes
        <5> QED BY <2>1, <4>2, <5>1 DEF EntryInv, NoOlderThan
      <4> QED BY <1>2, <4>1, <4>2
    <3>4. NoOlderThan(content[r], info[r])' <=> NoOlderThan(content'[r], info'[r])
      BY DEF NoOlderThan
    <3> QED BY <2>1, <2>2, <3>1, <3>2, <3>3, <3>4 DEF ReadOf, Asked
  <2>3. CASE x # r
    <3>1. pc'[x] = pc[x] /\ content'[x] = content[x]
      BY <1>2, <1>3, <2>3 DEF ProcTypes, Procs
    <3>2. Asked(x)' <=> Asked(x)
      BY <3>1 DEF Asked
    <3>3. ReadOf(x)
      OBVIOUS
    <3>4. \A i \in 1..Len(down') : down'[i] = x => \E j \in 1..Len(down) : down[j] = x
      BY <1>4, <2>3
    <3> HIDE DEF ViewInv
    <3> QED BY <2>1, <3>1, <3>2, <3>3, <3>4, ReadKept DEF ReadOf
  <2> QED BY <2>2, <2>3
<1> QED BY <1>5, <1>6, <1>7, <1>8

LEMMA PutKeeps ==
  ASSUME ViewInv, NEW r \in Readers, ReadPut(r)
  PROVE  ViewInv'
<1> USE DEF ViewInv
<1>1. /\ r \in Procs /\ pc[r] = "answered"
      /\ UNCHANGED <<daemonVars, linkVars, tree, recv, op, info>>
      /\ answer' = [answer EXCEPT ![r] = Silence] /\ pc' = [pc EXCEPT ![r] = "done"]
  BY DEF ReadPut, MoveTo, Procs
<1>2. \/ /\ answer[r].ok
         /\ cache' = [ver |-> answer[r].ver, sig |-> SigOf[info[r]],
                      late |-> answer[r].ver # disk]
         /\ content' = [content EXCEPT ![r] = answer[r].ver]
      \/ UNCHANGED <<cache, content>>
  BY DEF ReadPut
<1>3. /\ ProcTypes /\ TreeTypes /\ newest \in Nat /\ newest' = newest
      /\ answer[r] \in Answer /\ info[r] \in Infos /\ answer[r].ver =< newest
  BY <1>1, ViewParts, Kinds DEF DiskTypes, daemonVars, ProcTypes, NoneNewer
<1>4. answer[r].ok => answer[r].ver \in Versions /\ answer[r].ver >= info[r]
  <2>1. NotOlder(answer[r], r)
    BY <1>1 DEF ReadOf
  <2> QED BY <1>3, <2>1, Kinds DEF NotOlder, Versions, Infos
<1>5. ViewTypeOK'
  <2>1. pc' \in [Procs -> Places] /\ answer' \in [Procs -> Answer]
    BY <1>1, <1>3, Kinds DEF ProcTypes, Places
  <2>2. content' \in [Procs -> Versions \cup {None}]
    BY <1>2, <1>3, <1>4 DEF ProcTypes
  <2>3. ProcTypes'
    BY <1>1, <1>3, <2>1, <2>2 DEF ProcTypes
  <2>4. TreeTypes'
    <3>1. cache' \in Entry \cup {None}
      <4>1. CASE UNCHANGED cache
        BY <1>3, <4>1 DEF TreeTypes
      <4>2. ASSUME answer[r].ok, NEW late, late = (answer[r].ver # disk),
                   cache' = [ver |-> answer[r].ver, sig |-> SigOf[info[r]], late |-> late]
            PROVE  cache' \in Entry
        <5>1. late \in BOOLEAN
          BY <4>2
        <5> QED BY <1>3, <1>4, <4>2, <5>1 DEF Entry
      <4> QED BY <1>2, <4>1, <4>2
    <3> QED BY <1>1, <1>3, <3>1 DEF TreeTypes
  <2> QED BY <1>1, <2>3, <2>4, ViewParts, PartsSame
<1>6. NoneNewer'
  <2>1. /\ disk' = disk /\ tree' = tree /\ events' = events /\ up' = up /\ info' = info
    BY <1>1 DEF daemonVars, linkVars
  <2>2. \A p \in Procs : answer'[p] = answer[p] \/ answer'[p].ver =< newest'
    BY <1>1, <1>3 DEF ProcTypes, Silence
  <2>3. cache' # None => cache' = cache \/ cache'.ver =< newest'
    BY <1>2, <1>3
  <2>4. disk' # None => disk' = newest'
    BY <1>3, <2>1 DEF NoneNewer
  <2> QED BY <1>3, <2>1, <2>2, <2>3, <2>4, NewerKept
<1>7. EntryInv'
  <2>1. CASE UNCHANGED cache
    BY <2>1, EntryKept
  <2>2. CASE answer[r].ok /\ cache' = [ver |-> answer[r].ver, sig |-> SigOf[info[r]],
                                        late |-> answer[r].ver # disk]
    <3>1. cache'.sig = SigOf[info[r]] /\ info[r] =< cache'.ver
      BY <1>3, <1>4, <2>2, Kinds
    <3> QED BY <1>3, <3>1 DEF EntryInv
  <2> QED BY <1>2, <2>1, <2>2
<1>8. ASSUME NEW x \in Readers PROVE ReadOf(x)'
  <2>1. /\ down' = down /\ handling' = handling /\ up' = up /\ op' = op /\ info' = info
    BY <1>1 DEF linkVars
  <2>2. CASE x = r
    <3>1. content[r] = None
      BY <1>1 DEF ReadOf
    <3>2. content'[r] # None => NoOlderThan(content'[r], info'[r])
      <4>1. CASE content' = content
        BY <3>1, <4>1
      <4>2. CASE answer[r].ok /\ content' = [content EXCEPT ![r] = answer[r].ver]
        <5>1. content'[r] = answer[r].ver /\ info[r] =< content'[r]
          BY <1>1, <1>3, <1>4, <4>2, Kinds DEF ProcTypes
        <5> QED BY <1>3, <2>1, <5>1 DEF NoOlderThan
      <4> QED BY <1>2, <4>1, <4>2
    <3>3. pc'[r] = "done"
      BY <1>1, <1>3 DEF ProcTypes
    <3>4. Asked(r)' /\ ReadOf(r)
      BY <3>3 DEF Asked
    <3>5. NoOlderThan(content[r], info[r])' <=> NoOlderThan(content'[r], info'[r])
      BY DEF NoOlderThan
    <3> HIDE DEF ViewInv
    <3> QED BY <2>1, <2>2, <3>2, <3>3, <3>4, <3>5 DEF ReadOf, NotOlder
  <2>3. CASE x # r
    <3>1. pc'[x] = pc[x] /\ content'[x] = content[x] /\ answer'[x] = answer[x]
      BY <1>1, <1>2, <1>3, <2>3 DEF ProcTypes, Procs
    <3>2. Asked(x)' <=> Asked(x)
      BY <3>1 DEF Asked
    <3>3. ReadOf(x)
      OBVIOUS
    <3> HIDE DEF ViewInv
    <3> QED BY <2>1, <3>1, <3>2, <3>3, ReadKept DEF ReadOf
  <2> QED BY <2>2, <2>3
<1> QED BY <1>5, <1>6, <1>7, <1>8

LEMMA Apart == \A r \in Readers, w \in Writers : r # w /\ r \in Procs /\ w \in Procs
  BY FileViewAssumption DEF Procs

\* writeChunk, truncatePath and removePath.
LEMMA RequestKeeps ==
  ASSUME ViewInv, NEW w \in Writers, WriteRequest(w)
  PROVE  ViewInv'
<1> USE DEF ViewInv
<1>1. /\ w \in Procs /\ down' = Append(down, w) /\ pc' = [pc EXCEPT ![w] = "waiting"]
      /\ UNCHANGED <<daemonVars, handling, removed, up, treeVars, op, info, content, answer>>
  BY DEF WriteRequest, MoveTo, Procs
<1>2. ProcTypes /\ LinkTypes /\ newest \in Nat /\ newest' = newest
  BY <1>1, ViewParts, Kinds DEF DiskTypes, daemonVars
<1>3. /\ down' \in Seq(Procs)
      /\ \A i \in 1..Len(down') : down'[i] = w \/ \E j \in 1..Len(down) : down'[i] = down[j]
  BY <1>1, <1>2, PutInto DEF LinkTypes
<1>4. ViewTypeOK'
  <2>1. ProcTypes'
    BY <1>1, <1>2 DEF ProcTypes, Places
  <2>2. LinkTypes'
    BY <1>1, <1>2, <1>3 DEF LinkTypes
  <2> QED BY <1>1, <2>1, <2>2, ViewParts, PartsSame
<1>5. NoneNewer'
  <2>1. /\ disk' = disk /\ tree' = tree /\ cache' = cache /\ events' = events /\ up' = up
        /\ answer' = answer /\ info' = info
    BY <1>1 DEF daemonVars, treeVars
  <2>2. disk' # None => disk' = newest'
    BY <1>2, <2>1 DEF NoneNewer
  <2> QED BY <1>2, <2>1, <2>2, NewerKept
<1>6. EntryInv'
  BY <1>1, EntryKept DEF treeVars
<1>7. ASSUME NEW x \in Readers PROVE ReadOf(x)'
  <2>1. /\ handling' = handling /\ up' = up /\ op' = op /\ answer' = answer /\ info' = info
        /\ content' = content /\ x # w /\ x \in Procs /\ ReadOf(x)
    BY <1>1, Apart
  <2>2. pc'[x] = pc[x]
    BY <1>1, <1>2, <2>1 DEF ProcTypes
  <2>3. Asked(x)' <=> Asked(x)
    BY <2>2 DEF Asked
  <2>4. \A i \in 1..Len(down') : down'[i] = x => \E j \in 1..Len(down) : down[j] = x
    BY <1>3, <2>1
  <2> HIDE DEF ViewInv
  <2> QED BY <2>1, <2>2, <2>3, <2>4, ReadKept DEF ReadOf
<1> QED BY <1>4, <1>5, <1>6, <1>7

LEMMA ApplyKeeps ==
  ASSUME ViewInv, NEW w \in Writers, WriteApply(w)
  PROVE  ViewInv'
<1> USE DEF ViewInv
<1>1. /\ w \in Procs /\ UNCHANGED <<daemonVars, linkVars, cache, recv, op, content>>
      /\ answer' = [answer EXCEPT ![w] = Silence]
      /\ \/ /\ tree' = None \/ tree' = answer[w].ver
            /\ info' = [info EXCEPT ![w] = answer[w].ver]
            /\ pc' = [pc EXCEPT ![w] = "applied"]
         \/ UNCHANGED <<tree, info>> /\ pc' = [pc EXCEPT ![w] = "done"]
  BY DEF WriteApply, MoveTo, Procs
<1>2. /\ ProcTypes /\ TreeTypes /\ newest \in Nat /\ newest' = newest
      /\ answer[w].ver \in Infos /\ answer[w].ver =< newest
  BY <1>1, ViewParts, Kinds DEF DiskTypes, daemonVars, ProcTypes, NoneNewer
<1>3. ViewTypeOK'
  <2>1. pc' \in [Procs -> Places] /\ answer' \in [Procs -> Answer] /\ info' \in [Procs -> Infos]
    BY <1>1, <1>2, Kinds DEF ProcTypes, Places
  <2>2. ProcTypes'
    BY <1>1, <1>2, <2>1 DEF ProcTypes
  <2>3. TreeTypes'
    BY <1>1, <1>2 DEF TreeTypes
  <2> QED BY <1>1, <2>2, <2>3, ViewParts, PartsSame
<1>4. NoneNewer'
  <2>1. disk' = disk /\ cache' = cache /\ events' = events /\ up' = up
    BY <1>1 DEF daemonVars, linkVars
  <2>2. disk' # None => disk' = newest'
    BY <1>2, <2>1 DEF NoneNewer
  <2>3. \A p \in Procs : answer'[p] = answer[p] \/ answer'[p].ver =< newest'
    BY <1>1, <1>2 DEF ProcTypes, Silence
  <2>4. \A p \in Procs : info'[p] = info[p] \/ info'[p] =< newest'
    BY <1>1, <1>2 DEF ProcTypes
  <2>5. tree' # None => tree' = tree \/ tree' =< newest'
    BY <1>1, <1>2
  <2> QED BY <1>2, <2>1, <2>2, <2>3, <2>4, <2>5, NewerKept
<1>5. EntryInv'
  BY <1>1, EntryKept
<1>6. ASSUME NEW x \in Readers PROVE ReadOf(x)'
  <2>1. /\ down' = down /\ handling' = handling /\ up' = up /\ op' = op /\ content' = content
        /\ x # w /\ x \in Procs /\ ReadOf(x)
    BY <1>1, Apart DEF linkVars
  <2>2. pc'[x] = pc[x] /\ info'[x] = info[x] /\ answer'[x] = answer[x]
    BY <1>1, <1>2, <2>1 DEF ProcTypes
  <2>3. Asked(x)' <=> Asked(x)
    BY <2>2 DEF Asked
  <2> HIDE DEF ViewInv
  <2> QED BY <2>1, <2>2, <2>3, ReadKept DEF ReadOf
<1> QED BY <1>3, <1>4, <1>5, <1>6

LEMMA InvalidateKeeps ==
  ASSUME ViewInv, \/ \E w \in Writers : WriteInvalidate(w)
                  \/ RecvInvalidate
  PROVE  ViewInv'
<1> USE DEF ViewInv
<1>1. /\ cache' = None /\ (recv' = "idle" \/ recv' = recv)
      /\ UNCHANGED <<daemonVars, linkVars, tree, op, info, content, answer>>
      /\ pc' = pc \/ \E w \in Writers : pc[w] = "applied" /\ pc' = [pc EXCEPT ![w] = "done"]
  BY DEF WriteInvalidate, RecvInvalidate, MoveTo, callVars
<1>2. ProcTypes /\ TreeTypes /\ newest \in Nat /\ newest' = newest
  BY <1>1, ViewParts, Kinds DEF DiskTypes, daemonVars
<1>3. ViewTypeOK'
  <2>1. pc' \in [Procs -> Places]
    BY <1>1, <1>2, Apart DEF ProcTypes, Places
  <2>2. ProcTypes' /\ TreeTypes'
    BY <1>1, <1>2, <2>1 DEF ProcTypes, TreeTypes
  <2> QED BY <1>1, <2>2, ViewParts, PartsSame
<1>4. NoneNewer'
  <2>1. /\ disk' = disk /\ tree' = tree /\ events' = events /\ up' = up /\ info' = info
        /\ answer' = answer
    BY <1>1 DEF daemonVars, linkVars
  <2>2. disk' # None => disk' = newest'
    BY <1>2, <2>1 DEF NoneNewer
  <2> QED BY <1>1, <1>2, <2>1, <2>2, NewerKept
<1>5. EntryInv'
  BY <1>1, EntryKept
<1>6. ASSUME NEW x \in Readers PROVE ReadOf(x)'
  <2>1. /\ down' = down /\ handling' = handling /\ up' = up /\ op' = op /\ content' = content
        /\ answer' = answer /\ info' = info /\ x \in Procs /\ ReadOf(x)
    BY <1>1, Apart DEF linkVars, Procs
  <2>2. pc'[x] = pc[x]
    BY <1>1, <1>2, <2>1, Apart DEF ProcTypes
  <2>3. Asked(x)' <=> Asked(x)
    BY <2>2 DEF Asked
  <2> HIDE DEF ViewInv
  <2> QED BY <2>1, <2>2, <2>3, ReadKept DEF ReadOf
<1> QED BY <1>3, <1>4, <1>5, <1>6

\* A caller that gives up leaves its request behind.
LEMMA TimeoutKeeps ==
  ASSUME ViewInv, NEW p \in Procs, Timeout(p)
  PROVE  ViewInv'
<1> USE DEF ViewInv
<1>1. /\ pc[p] = "waiting" /\ pc' = [pc EXCEPT ![p] = "done"]
      /\ UNCHANGED <<daemonVars, linkVars, treeVars, op, info, content, answer>>
  BY DEF Timeout, MoveTo
<1>2. ProcTypes /\ newest \in Nat /\ newest' = newest
  BY <1>1, ViewParts, Kinds DEF DiskTypes, daemonVars
<1>3. ViewTypeOK'
  <2>1. ProcTypes'
    BY <1>1, <1>2 DEF ProcTypes, Places
  <2> QED BY <1>1, <2>1, ViewParts, PartsSame
<1>4. NoneNewer'
  <2>1. /\ disk' = disk /\ tree' = tree /\ cache' = cache /\ events' = events /\ up' = up
        /\ info' = info /\ answer' = answer
    BY <1>1 DEF daemonVars, linkVars, treeVars
  <2>2. disk' # None => disk' = newest'
    BY <1>2, <2>1 DEF NoneNewer
  <2> QED BY <1>2, <2>1, <2>2, NewerKept
<1>5. EntryInv'
  BY <1>1, EntryKept DEF treeVars
<1>6. ASSUME NEW x \in Readers PROVE ReadOf(x)'
  <2>1. /\ down' = down /\ handling' = handling /\ up' = up /\ op' = op /\ content' = content
        /\ answer' = answer /\ info' = info /\ x \in Procs /\ ReadOf(x)
    BY <1>1 DEF linkVars, Procs
  <2>2. pc'[x] = pc[x] \/ (pc[x] = "waiting" /\ pc'[x] = "done")
    BY <1>1, <1>2, <2>1 DEF ProcTypes
  <2>3. Asked(x) => Asked(x)'
    BY <2>2 DEF Asked
  <2>4. content[x] # None => pc'[x] = "done"
    BY <2>1, <2>2 DEF ReadOf
  <2>5. pc'[x] = "answered" => pc[x] = "answered"
    BY <2>2
  <2> HIDE DEF ViewInv
  <2> QED BY <2>1, <2>3, <2>4, <2>5, ReadKept
<1> QED BY <1>3, <1>4, <1>5, <1>6

\* The receive loop.
LEMMA AnswerKeeps ==
  ASSUME ViewInv, RecvAnswer
  PROVE  ViewInv'
<1> USE DEF ViewInv
<1> DEFINE m == Head(up)
<1>1. /\ up # <<>> /\ up' = Tail(up) /\ m.to # None
      /\ UNCHANGED <<daemonVars, down, handling, removed, treeVars, op, info, content>>
      /\ \/ /\ pc[m.to] = "waiting" /\ answer' = [answer EXCEPT ![m.to] = m.answer]
            /\ pc' = [pc EXCEPT ![m.to] = "answered"]
         \/ UNCHANGED <<answer, pc>>
  BY DEF RecvAnswer, Received, MoveTo
<1>2. ProcTypes /\ LinkTypes /\ newest \in Nat /\ newest' = newest
  BY <1>1, ViewParts, Kinds DEF DiskTypes, daemonVars
<1>3. /\ up' \in Seq(Messages) /\ m \in Messages /\ m = up[1] /\ 1 \in 1..Len(up)
      /\ \A i \in 1..Len(up') : i + 1 \in 1..Len(up) /\ up'[i] = up[i + 1]
  BY <1>1, <1>2, TakeFrom DEF LinkTypes
<1>4. m.to \in Procs /\ m.answer \in Answer /\ m.answer.ver =< newest
  <2>1. VerOf(m) = m.answer.ver
    BY <1>1 DEF VerOf
  <2> QED BY <1>1, <1>3, <2>1, Kinds DEF NoneNewer
<1> HIDE DEF m
<1>5. ViewTypeOK'
  <2>1. pc' \in [Procs -> Places] /\ answer' \in [Procs -> Answer]
    BY <1>1, <1>2, <1>4 DEF ProcTypes, Places
  <2>2. ProcTypes' /\ LinkTypes'
    BY <1>1, <1>2, <1>3, <2>1 DEF ProcTypes, LinkTypes
  <2> QED BY <1>1, <2>2, ViewParts, PartsSame
<1>6. NoneNewer'
  <2>1. disk' = disk /\ tree' = tree /\ cache' = cache /\ events' = events /\ info' = info
    BY <1>1 DEF daemonVars, treeVars
  <2>2. disk' # None => disk' = newest'
    BY <1>2, <2>1 DEF NoneNewer
  <2>3. \A p \in Procs : answer'[p] = answer[p] \/ answer'[p].ver =< newest'
    BY <1>1, <1>2, <1>4 DEF ProcTypes
  <2>4. \A i \in 1..Len(up') : \E j \in 1..Len(up) : up'[i] = up[j]
    BY <1>3
  <2> HIDE DEF ViewInv
  <2>5. ViewTypeOK /\ NoneNewer
    BY DEF ViewInv
  <2> QED BY <1>2, <2>1, <2>2, <2>3, <2>4, <2>5, NewerKept
<1>7. EntryInv'
  BY <1>1, EntryKept DEF treeVars
<1>8. ASSUME NEW x \in Readers PROVE ReadOf(x)'
  <2>1. /\ down' = down /\ handling' = handling /\ op' = op /\ content' = content
        /\ info' = info /\ x \in Procs /\ ReadOf(x)
    BY <1>1 DEF Procs
  <2>2. \/ pc'[x] = pc[x] /\ answer'[x] = answer[x]
        \/ pc[x] = "waiting" /\ pc'[x] = "answered" /\ m.to = x /\ answer'[x] = m.answer
    BY <1>1, <1>2, <1>4, <2>1 DEF ProcTypes
  <2>3. Asked(x) => Asked(x)'
    BY <2>2 DEF Asked
  <2>4. content[x] # None => pc'[x] = "done"
    BY <2>1, <2>2 DEF ReadOf
  <2>5. pc'[x] = "answered" => \/ pc[x] = "answered" /\ answer'[x] = answer[x]
                               \/ \E j \in 1..Len(up) : up[j].to = x /\ answer'[x] = up[j].answer
    BY <1>3, <2>2
  <2>6. \A i \in 1..Len(up') : \E j \in 1..Len(up) : up'[i] = up[j]
    BY <1>3
  <2> HIDE DEF ViewInv
  <2> QED BY <2>1, <2>3, <2>4, <2>5, <2>6, ReadKept
<1> QED BY <1>5, <1>6, <1>7, <1>8

LEMMA ChangeKeeps ==
  ASSUME ViewInv, RecvChange
  PROVE  ViewInv'
<1> USE DEF ViewInv
<1> DEFINE m == Head(up)
<1>1. /\ up # <<>> /\ up' = Tail(up) /\ m.to = None /\ recv' = "invalidate"
      /\ tree' = None \/ tree' = m.change.ver
      /\ UNCHANGED <<daemonVars, down, handling, removed, cache, callVars>>
  BY DEF RecvChange, Received
<1>2. TreeTypes /\ LinkTypes /\ newest \in Nat /\ newest' = newest
  BY <1>1, ViewParts, Kinds DEF DiskTypes, daemonVars
<1>3. /\ up' \in Seq(Messages) /\ m \in Messages /\ m = up[1] /\ 1 \in 1..Len(up)
      /\ \A i \in 1..Len(up') : i + 1 \in 1..Len(up) /\ up'[i] = up[i + 1]
  BY <1>1, <1>2, TakeFrom DEF LinkTypes
<1>4. m.change.ver \in Infos /\ m.change.ver =< newest
  <2>1. VerOf(m) = m.change.ver
    BY <1>1 DEF VerOf
  <2> QED BY <1>1, <1>3, <2>1, Kinds DEF NoneNewer, Change
<1> HIDE DEF m
<1>5. ViewTypeOK'
  <2>1. TreeTypes' /\ LinkTypes'
    BY <1>1, <1>2, <1>3, <1>4 DEF TreeTypes, LinkTypes
  <2> QED BY <1>1, <2>1, ViewParts, PartsSame
<1>6. \A i \in 1..Len(up') : \E j \in 1..Len(up) : up'[i] = up[j]
  BY <1>3
<1>7. NoneNewer'
  <2>1. disk' = disk /\ cache' = cache /\ events' = events /\ info' = info /\ answer' = answer
    BY <1>1 DEF daemonVars, callVars
  <2>2. disk' # None => disk' = newest'
    BY <1>2, <2>1 DEF NoneNewer
  <2>3. tree' # None => tree' =< newest'
    BY <1>1, <1>2, <1>4
  <2>4. ViewTypeOK /\ NoneNewer
    BY DEF ViewInv
  <2> HIDE DEF ViewInv
  <2> QED BY <1>2, <1>6, <2>1, <2>2, <2>3, <2>4, NewerKept
<1>8. EntryInv'
  BY <1>1, EntryKept
<1>9. ASSUME NEW x \in Readers PROVE ReadOf(x)'
  <2>1. /\ down' = down /\ handling' = handling /\ op' = op /\ content' = content
        /\ info' = info /\ answer' = answer /\ pc' = pc /\ ReadOf(x)
    BY <1>1 DEF callVars
  <2>2. Asked(x)' <=> Asked(x)
    BY <2>1 DEF Asked
  <2> HIDE DEF ViewInv
  <2> QED BY <1>6, <2>1, <2>2, ReadKept DEF ReadOf
<1> QED BY <1>5, <1>7, <1>8, <1>9

\* The daemon: a change of the file makes a newer version, or removes it.
LEMMA DiskStep ==
  ASSUME DiskTypes, disk # None => disk = newest,
         \/ \E kind \in Note : DiskChange(kind)
         \/ UNCHANGED <<disk, newest, notes>>
  PROVE  /\ disk' \in Versions \cup {None} /\ newest' \in Versions /\ notes' \in Seq(Note)
         /\ newest' \in Nat /\ newest' >= newest
         /\ disk' # None => disk' = newest'
<1>1. newest \in Nat /\ newest \in Versions
  BY Kinds DEF DiskTypes
<1>2. CASE \E kind \in Note : DiskChange(kind)
  <2>1. PICK kind \in Note : DiskChange(kind)
    BY <1>2
  <2>2. notes' \in Seq(Note)
    BY <2>1, PutInto DEF DiskChange, DiskTypes
  <2>3. CASE newest < MaxVer /\ newest' = newest + 1 /\ disk' = newest + 1
    BY <1>1, <2>2, <2>3, FileViewAssumption DEF Versions
  <2>4. CASE disk' = None /\ newest' = newest
    BY <1>1, <2>2, <2>4
  <2> QED BY <2>1, <2>3, <2>4 DEF DiskChange
<1>3. CASE UNCHANGED <<disk, newest, notes>>
  BY <1>1, <1>3 DEF DiskTypes
<1> QED BY <1>2, <1>3

LEMMA StartKeeps ==
  ASSUME ViewInv, HandleStart
  PROVE  ViewInv'
<1> USE DEF ViewInv
<1>1. /\ handling = None /\ down # <<>> /\ handling' = Head(down) /\ down' = Tail(down)
      /\ UNCHANGED <<events, up, treeVars, callVars>>
  BY DEF HandleStart
<1>2. /\ \/ \E kind \in Note : DiskChange(kind)
         \/ UNCHANGED <<disk, newest, notes>>
      /\ remembered' \in {TRUE, remembered}
      /\ removed' = removed \/ removed' = (disk # None)
  BY DEF HandleStart, Note
<1>3. DiskTypes /\ LinkTypes
  BY ViewParts
<1>4. /\ disk' \in Versions \cup {None} /\ newest' \in Versions /\ notes' \in Seq(Note)
      /\ newest' \in Nat /\ newest' >= newest
      /\ disk' # None => disk' = newest'
  BY <1>2, <1>3, DiskStep DEF NoneNewer
<1>5. /\ down' \in Seq(Procs) /\ handling' \in Procs /\ handling' = down[1] /\ 1 \in 1..Len(down)
      /\ \A i \in 1..Len(down') : i + 1 \in 1..Len(down) /\ down'[i] = down[i + 1]
  BY <1>1, <1>3, TakeFrom DEF LinkTypes
<1>6. ViewTypeOK'
  <2>1. remembered' \in BOOLEAN
    BY <1>2, <1>3 DEF DiskTypes
  <2>2. removed' \in BOOLEAN
    BY <1>2, <1>3 DEF LinkTypes
  <2>3. DiskTypes'
    BY <1>4, <2>1 DEF DiskTypes
  <2>4. LinkTypes'
    BY <1>1, <1>3, <1>5, <2>2 DEF LinkTypes
  <2> QED BY <1>1, <2>3, <2>4, ViewParts, PartsSame
<1>7. NoneNewer'
  <2>1. /\ tree' = tree /\ cache' = cache /\ events' = events /\ up' = up /\ info' = info
        /\ answer' = answer
    BY <1>1 DEF treeVars, callVars
  <2> QED BY <1>4, <2>1, NewerKept
<1>8. EntryInv'
  BY <1>1, EntryKept DEF treeVars
<1>9. ASSUME NEW x \in Readers PROVE ReadOf(x)'
  <2>1. /\ up' = up /\ op' = op /\ content' = content /\ info' = info /\ answer' = answer
        /\ pc' = pc /\ ReadOf(x)
    BY <1>1 DEF callVars
  <2>2. Asked(x)' <=> Asked(x)
    BY <2>1 DEF Asked
  <2>3. \A i \in 1..Len(down') : \E j \in 1..Len(down) : down'[i] = down[j]
    BY <1>5
  <2>4. \E j \in 1..Len(down) : handling' = down[j]
    BY <1>5
  <2> HIDE DEF ViewInv
  <2> QED BY <2>1, <2>2, <2>3, <2>4, ReadKept DEF ReadOf
<1> QED BY <1>6, <1>7, <1>8, <1>9

\* The answer to a read is the version on disk: the newest there is.
LEMMA ReplyKeeps ==
  ASSUME ViewInv, HandleReply
  PROVE  ViewInv'
<1> USE DEF ViewInv
<1> DEFINE ok == IF op[handling] = "delete" THEN removed ELSE disk # None
           ver == IF ok /\ disk # None THEN disk ELSE 0
           m == [to |-> handling, answer |-> [ok |-> ok, ver |-> ver]]
<1>1. /\ handling # None /\ handling' = None /\ removed' = FALSE /\ up' = Append(up, m)
      /\ UNCHANGED <<daemonVars, down, treeVars, callVars>>
  BY DEF HandleReply
<1>2. DiskTypes /\ LinkTypes /\ newest \in Nat /\ newest' = newest
  BY <1>1, ViewParts, Kinds DEF DiskTypes, daemonVars
<1>3. handling \in Procs /\ ok \in BOOLEAN
  BY <1>1, <1>2 DEF LinkTypes
<1>4. ver \in Infos /\ ver =< newest
  BY <1>2, Kinds DEF DiskTypes, NoneNewer
<1>5. m \in Messages
  BY <1>3, <1>4 DEF Messages, Answer
<1>6. m.to = handling /\ m.answer.ver = ver /\ m.answer.ok = ok
  OBVIOUS
<1>7. ASSUME NEW x \in Readers, handling = x PROVE NotOlder(m.answer, x)
  <2>1. op[x] = "read"
    BY DEF ReadOf
  <2>2. ok <=> disk # None
    BY <1>7, <2>1
  <2>3. ok => ver = newest /\ newest > 0
    BY <1>2, <2>2, FileViewAssumption DEF DiskTypes, NoneNewer, Versions
  <2>4. info[x] =< newest
    BY DEF NoneNewer, Procs
  <2> QED BY <1>6, <2>3, <2>4 DEF NotOlder
<1> HIDE DEF m, ok, ver
<1>8. /\ up' \in Seq(Messages)
      /\ \A i \in 1..Len(up') : up'[i] = m \/ \E j \in 1..Len(up) : up'[i] = up[j]
  BY <1>1, <1>2, <1>5, PutInto DEF LinkTypes
<1>9. ViewTypeOK'
  <2>1. LinkTypes'
    BY <1>1, <1>2, <1>8 DEF LinkTypes
  <2> QED BY <1>1, <2>1, ViewParts, PartsSame
<1>10. NoneNewer'
  <2>1. /\ disk' = disk /\ tree' = tree /\ cache' = cache /\ events' = events /\ info' = info
        /\ answer' = answer
    BY <1>1 DEF daemonVars, treeVars, callVars
  <2>2. disk' # None => disk' = newest'
    BY <1>2, <2>1 DEF NoneNewer
  <2>3. VerOf(m) =< newest'
    BY <1>2, <1>1, <1>4, <1>6 DEF VerOf
  <2>4. \A i \in 1..Len(up') : VerOf(up'[i]) =< newest' \/ \E j \in 1..Len(up) : up'[i] = up[j]
    BY <1>8, <2>3
  <2>5. ViewTypeOK /\ NoneNewer
    OBVIOUS
  <2> HIDE DEF ViewInv
  <2> QED BY <1>2, <2>1, <2>2, <2>4, <2>5, NewerKept
<1>11. EntryInv'
  BY <1>1, EntryKept DEF treeVars
<1>12. ASSUME NEW x \in Readers PROVE ReadOf(x)'
  <2>1. /\ down' = down /\ op' = op /\ content' = content /\ info' = info /\ answer' = answer
        /\ pc' = pc /\ ReadOf(x) /\ handling' # x
    BY <1>1, FileViewAssumption DEF callVars
  <2>2. Asked(x)' <=> Asked(x)
    BY <2>1 DEF Asked
  <2>3. \A i \in 1..Len(up') : up'[i].to = x =>
            \/ \E j \in 1..Len(up) : up'[i] = up[j]
            \/ handling = x /\ NotOlder(up'[i].answer, x)
    BY <1>6, <1>7, <1>8
  <2> HIDE DEF ViewInv
  <2> QED BY <2>1, <2>2, <2>3, ReadKept DEF ReadOf
<1> QED BY <1>9, <1>10, <1>11, <1>12

LEMMA OwnerKeeps ==
  ASSUME ViewInv, \/ \E kind \in Note : UserChange(kind)
                  \/ SelfWriteElapses \/ WatchSuppress \/ WatchReport
  PROVE  ViewInv'
<1> USE DEF ViewInv
<1>1. /\ UNCHANGED <<linkVars, treeVars, callVars>> /\ remembered' \in {FALSE, remembered}
      /\ \/ \E kind \in Note : DiskChange(kind)
         \/ UNCHANGED <<disk, newest, notes>>
         \/ UNCHANGED <<disk, newest>> /\ notes # <<>> /\ notes' = Tail(notes)
      /\ \/ events' = events
         \/ /\ Len(events) < EventCap /\ UNCHANGED <<disk, newest>> /\ notes # <<>>
            /\ events' = Append(events, ChangeOf(Head(notes)))
  BY DEF UserChange, SelfWriteElapses, WatchSuppress, WatchReport
<1>2. DiskTypes /\ EventTypes /\ newest \in Nat
  BY ViewParts, Kinds DEF DiskTypes
<1>3. /\ disk' \in Versions \cup {None} /\ newest' \in Versions /\ notes' \in Seq(Note)
      /\ newest' \in Nat /\ newest' >= newest
      /\ disk' # None => disk' = newest'
  <2>1. CASE UNCHANGED <<disk, newest>> /\ notes # <<>> /\ notes' = Tail(notes)
    <3>1. notes' \in Seq(Note)
      BY <1>2, <2>1, TakeFrom DEF DiskTypes
    <3> QED BY <1>2, <2>1, <3>1 DEF DiskTypes, NoneNewer
  <2>2. CASE ~(UNCHANGED <<disk, newest>> /\ notes # <<>> /\ notes' = Tail(notes))
    BY <1>1, <1>2, <2>2, DiskStep DEF NoneNewer
  <2> QED BY <2>1, <2>2
<1>4. /\ events' \in Seq(Change) /\ Len(events') =< EventCap
      /\ \A i \in 1..Len(events') : \/ events'[i].ver =< newest'
                                    \/ \E j \in 1..Len(events) : events'[i] = events[j]
  <2>1. CASE events' = events
    BY <1>2, <2>1 DEF EventTypes
  <2>2. CASE /\ Len(events) < EventCap /\ UNCHANGED <<disk, newest>>
             /\ events' = Append(events, ChangeOf(Head(notes)))
    <3> DEFINE c == ChangeOf(Head(notes))
    <3>1. c.kind \in {"modify", "delete"} /\ c.ver \in Infos /\ c.ver =< newest'
      BY <1>2, <2>2, Kinds DEF ChangeOf, DiskTypes, NoneNewer
    <3>2. c \in Change
      BY <3>1 DEF ChangeOf, Change
    <3> HIDE DEF c
    <3>3. /\ events' \in Seq(Change) /\ Len(events') = Len(events) + 1
          /\ \A i \in 1..Len(events') :
               events'[i] = c \/ \E j \in 1..Len(events) : events'[i] = events[j]
      BY <1>2, <2>2, <3>2, PutInto DEF EventTypes, c
    <3>4. Len(events') =< EventCap
      BY <1>2, <2>2, <3>3, FileViewAssumption DEF EventTypes
    <3> QED BY <3>1, <3>3, <3>4
  <2> QED BY <1>1, <2>1, <2>2
<1>5. ViewTypeOK'
  <2>1. DiskTypes' /\ EventTypes'
    BY <1>1, <1>2, <1>3, <1>4 DEF DiskTypes, EventTypes
  <2> QED BY <1>1, <2>1, ViewParts, PartsSame
<1>6. NoneNewer'
  <2>1. /\ tree' = tree /\ cache' = cache /\ up' = up /\ info' = info /\ answer' = answer
    BY <1>1 DEF treeVars, linkVars, callVars
  <2>2. ViewTypeOK /\ NoneNewer
    OBVIOUS
  <2> HIDE DEF ViewInv
  <2> QED BY <1>3, <1>4, <2>1, <2>2, NewerKept
<1>7. EntryInv'
  BY <1>1, EntryKept DEF treeVars
<1>8. ASSUME NEW x \in Readers PROVE ReadOf(x)'
  <2>1. UNCHANGED <<down, handling, up, op, content, info, answer, pc>> /\ ReadOf(x)
    BY <1>1 DEF callVars, linkVars
  <2> QED BY <2>1 DEF ReadOf, Asked, NotOlder, NoOlderThan
<1> QED BY <1>5, <1>6, <1>7, <1>8

LEMMA ForwardKeeps ==
  ASSUME ViewInv, ForwardEvent
  PROVE  ViewInv'
<1> USE DEF ViewInv
<1> DEFINE m == [to |-> None, change |-> Head(events)]
<1>1. /\ events # <<>> /\ up' = Append(up, m) /\ events' = Tail(events)
      /\ UNCHANGED <<disk, newest, remembered, notes, down, handling, removed, treeVars, callVars>>
  BY DEF ForwardEvent
<1>2. DiskTypes /\ EventTypes /\ LinkTypes /\ newest \in Nat
  BY ViewParts, Kinds DEF DiskTypes
<1>3. /\ events' \in Seq(Change) /\ Head(events) \in Change /\ Head(events) = events[1]
      /\ 1 \in 1..Len(events) /\ Len(events') =< Len(events)
      /\ \A i \in 1..Len(events') : i + 1 \in 1..Len(events) /\ events'[i] = events[i + 1]
  BY <1>1, <1>2, TakeFrom DEF EventTypes
<1>4. m \in Messages /\ m.to = None /\ m.change = events[1]
  BY <1>3 DEF Messages
<1> HIDE DEF m
<1>5. /\ up' \in Seq(Messages)
      /\ \A i \in 1..Len(up') : up'[i] = m \/ \E j \in 1..Len(up) : up'[i] = up[j]
  BY <1>1, <1>2, <1>4, PutInto DEF LinkTypes
<1>6. ViewTypeOK'
  <2>1. LinkTypes'
    BY <1>1, <1>2, <1>5 DEF LinkTypes
  <2>2. EventTypes'
    <3>1. Len(events') \in Nat /\ Len(events) \in Nat
      BY <1>2, <1>3, LenProperties DEF EventTypes
    <3> QED BY <1>2, <1>3, <3>1, FileViewAssumption DEF EventTypes
  <2> QED BY <1>1, <2>1, <2>2, ViewParts, PartsSame
<1>7. NoneNewer'
  <2>1. /\ disk' = disk /\ newest' = newest /\ tree' = tree /\ cache' = cache /\ info' = info
        /\ answer' = answer
    BY <1>1 DEF treeVars, callVars
  <2>2. VerOf(m) =< newest'
    BY <1>3, <1>4, <2>1 DEF VerOf, NoneNewer
  <2>3. \A i \in 1..Len(up') : VerOf(up'[i]) =< newest' \/ \E j \in 1..Len(up) : up'[i] = up[j]
    BY <1>5, <2>2
  <2>4. \A i \in 1..Len(events') : \E j \in 1..Len(events) : events'[i] = events[j]
    BY <1>3
  <2>5. disk' # None => disk' = newest'
    BY <2>1 DEF NoneNewer
  <2>6. ViewTypeOK /\ NoneNewer
    OBVIOUS
  <2> HIDE DEF ViewInv
  <2> QED BY <1>2, <2>1, <2>3, <2>4, <2>5, <2>6, NewerKept
<1>8. EntryInv'
  BY <1>1, EntryKept DEF treeVars
<1>9. ASSUME NEW x \in Readers PROVE ReadOf(x)'
  <2>1. /\ down' = down /\ handling' = handling /\ op' = op /\ content' = content
        /\ info' = info /\ answer' = answer /\ pc' = pc /\ ReadOf(x)
    BY <1>1 DEF callVars
  <2>2. Asked(x)' <=> Asked(x)
    BY <2>1 DEF Asked
  <2>3. \A i \in 1..Len(up') : up'[i].to = x => \E j \in 1..Len(up) : up'[i] = up[j]
    BY <1>4, <1>5, FileViewAssumption
  <2> HIDE DEF ViewInv
  <2> QED BY <2>1, <2>2, <2>3, ReadKept DEF ReadOf
<1> QED BY <1>6, <1>7, <1>8, <1>9

LEMMA ViewInvKept == ViewSpec => []ViewInv
<1>1. ViewInit => ViewInv
  <2> SUFFICES ASSUME ViewInit PROVE ViewInv
    OBVIOUS
  <2>1. DiskTypes /\ EventTypes /\ LinkTypes
    <3>1. 1 \in Versions /\ 0 =< EventCap
      BY FileViewAssumption DEF Versions
    <3>2. /\ <<>> \in Seq(Note) /\ <<>> \in Seq(Change)
          /\ <<>> \in Seq(Procs) /\ <<>> \in Seq(Messages)
      OBVIOUS
    <3> QED BY <3>1, <3>2 DEF ViewInit, DiskTypes, EventTypes, LinkTypes
  <2>2. TreeTypes
    BY FileViewAssumption DEF ViewInit, TreeTypes, Infos
  <2>3. ProcTypes
    BY Kinds DEF ViewInit, ProcTypes, Places
  <2>4. ViewTypeOK
    BY <2>1, <2>2, <2>3, ViewParts
  <2>5. NoneNewer /\ EntryInv
    <3>1. \A p \in Procs : info[p] = 0 /\ answer[p].ver = 0
      BY DEF ViewInit, Silence
    <3> QED BY <3>1 DEF ViewInit, NoneNewer, EntryInv
  <2>6. ASSUME NEW r \in Readers PROVE ReadOf(r)
    BY FileViewAssumption DEF ViewInit, ReadOf, Procs
  <2> QED BY <2>4, <2>5, <2>6 DEF ViewInv
<1>2. ViewInv /\ [ViewNext]_viewVars => ViewInv'
  <2> SUFFICES ASSUME ViewInv, [ViewNext]_viewVars PROVE ViewInv'
    OBVIOUS
  <2>1. CASE \E r \in Readers : ReadLookup(r)
    BY <2>1, LookupKeeps
  <2>2. CASE \E r \in Readers : ReadCached(r)
    BY <2>2, CachedKeeps
  <2>3. CASE \E r \in Readers : ReadPut(r)
    BY <2>3, PutKeeps
  <2>4. CASE \E w \in Writers : WriteRequest(w)
    BY <2>4, RequestKeeps
  <2>5. CASE \E w \in Writers : WriteApply(w)
    BY <2>5, ApplyKeeps
  <2>6. CASE (\E w \in Writers : WriteInvalidate(w)) \/ RecvInvalidate
    BY <2>6, InvalidateKeeps
  <2>7. CASE \E p \in Procs : Timeout(p)
    BY <2>7, TimeoutKeeps
  <2>8. CASE RecvAnswer
    BY <2>8, AnswerKeeps
  <2>9. CASE RecvChange
    BY <2>9, ChangeKeeps
  <2>10. CASE HandleStart
    BY <2>10, StartKeeps
  <2>11. CASE HandleReply
    BY <2>11, ReplyKeeps
  <2>12. CASE \/ \E kind \in {"write", "remove"} : UserChange(kind)
              \/ SelfWriteElapses \/ WatchSuppress \/ WatchReport
    BY <2>12, OwnerKeeps DEF Note
  <2>13. CASE ForwardEvent
    BY <2>13, ForwardKeeps
  <2>14. CASE UNCHANGED viewVars
    <3>1. UNCHANGED <<daemonVars, linkVars, treeVars, callVars>>
      BY <2>14 DEF viewVars
    <3>2. ViewTypeOK'
      BY <3>1, ViewParts, PartsSame DEF ViewInv
    <3>3. NoneNewer' /\ EntryInv'
      BY <3>1 DEF ViewInv, NoneNewer, EntryInv, VerOf, daemonVars, linkVars, treeVars, callVars
    <3>4. ASSUME NEW x \in Readers PROVE ReadOf(x)'
      <4>1. UNCHANGED <<down, handling, up, op, content, info, answer, pc>> /\ ReadOf(x)
        BY <3>1 DEF callVars, linkVars, ViewInv
      <4> QED BY <4>1 DEF ReadOf, Asked, NotOlder, NoOlderThan
    <3> QED BY <3>2, <3>3, <3>4 DEF ViewInv
  <2> QED BY <2>1, <2>2, <2>3, <2>4, <2>5, <2>6, <2>7, <2>8, <2>9, <2>10, <2>11, <2>12, <2>13,
             <2>14 DEF ViewNext
<1> QED BY <1>1, <1>2, PTL DEF ViewSpec

\* Every variable of the view keeps its type, and the watcher's channel (watchEvents) never
\* holds more than its capacity.
THEOREM ViewTypesKept == ViewSpec => []ViewTypeOK
<1>1. ViewInv => ViewTypeOK
  BY DEF ViewInv
<1> QED BY <1>1, ViewInvKept, PTL

\* However many versions look alike, no read returns content older than the oldest one that
\* looks like the metadata it was asked for with, whoever put it into the cache and when.
THEOREM ReadsAreNotOlder == ViewSpec => []NotOlderThanInfo
<1>1. ViewInv => NotOlderThanInfo
  BY DEF ViewInv, ReadOf, NoOlderThan, NotOlderThanInfo
<1> QED BY <1>1, ViewInvKept, PTL

\* An invalidation of the cache is due.
Due == recv = "invalidate" \/ \E w \in Writers : pc[w] = "applied"

\* An entry that was current when it was stored, and is older than the metadata, is about to
\* be removed.
StaleIsDue ==
  cache # None /\ tree # None => (cache.ver < tree => cache.late \/ Due)

\* A change that reaches the tree is followed by its invalidation; and what is stored while
\* the disk holds it is at least as new as any metadata.
LEMMA StaleStep ==
  ASSUME ViewInv, StaleIsDue, [ViewNext]_viewVars
  PROVE  StaleIsDue'
<1>1. /\ ProcTypes /\ TreeTypes /\ DiskTypes
      /\ disk # None => disk = newest
      /\ tree # None => tree =< newest
  BY ViewParts DEF ViewInv, NoneNewer
<1>2. ASSUME UNCHANGED <<cache, tree, recv>>, NEW p \in Procs, NEW place,
             pc' = [pc EXCEPT ![p] = place], pc[p] # "applied"
      PROVE  StaleIsDue'
  <2>1. Due => Due'
    <3>1. ASSUME NEW w \in Writers, pc[w] = "applied" PROVE pc'[w] = "applied"
      BY <1>1, <1>2, <3>1 DEF ProcTypes, Procs
    <3> QED BY <1>2, <3>1 DEF Due
  <2> QED BY <1>2, <2>1 DEF StaleIsDue
<1>3. ASSUME UNCHANGED <<cache, tree, recv, pc>> PROVE StaleIsDue'
  BY <1>3 DEF StaleIsDue, Due
<1>4. ASSUME cache' = None PROVE StaleIsDue'
  BY <1>4 DEF StaleIsDue
<1>5. ASSUME NEW r \in Readers, ReadLookup(r) PROVE StaleIsDue'
  BY <1>2, <1>5 DEF ReadLookup, MoveTo, treeVars, Procs
<1>6. ASSUME NEW r \in Readers, ReadCached(r) PROVE StaleIsDue'
  BY <1>2, <1>4, <1>6 DEF ReadCached, MoveTo, Procs
<1>7. ASSUME NEW r \in Readers, ReadPut(r) PROVE StaleIsDue'
  <2>1. CASE UNCHANGED cache
    BY <1>2, <1>7, <2>1 DEF ReadPut, MoveTo, Procs
  <2>2. CASE /\ answer[r].ok
             /\ cache' = [ver |-> answer[r].ver, sig |-> SigOf[info[r]],
                          late |-> answer[r].ver # disk]
    <3>1. answer[r].ver \in Infos /\ tree' = tree
      BY <1>1, <1>7, Kinds DEF ReadPut, ProcTypes, Procs
    <3>2. cache'.ver = answer[r].ver /\ cache'.late = (answer[r].ver # disk)
      BY <2>2
    <3>3. CASE answer[r].ver # disk
      BY <3>2, <3>3 DEF StaleIsDue
    <3>4. CASE answer[r].ver = disk
      <4>1. disk = newest /\ newest \in Nat
        BY <1>1, <3>1, <3>4, Kinds DEF DiskTypes
      <4>2. tree # None => tree \in Nat /\ ~(cache'.ver < tree')
        BY <1>1, <3>1, <3>2, <3>4, <4>1, Kinds DEF TreeTypes
      <4> QED BY <3>1, <4>2 DEF StaleIsDue
    <3> QED BY <3>3, <3>4
  <2> QED BY <1>7, <2>1, <2>2 DEF ReadPut
<1>8. ASSUME NEW w \in Writers, WriteRequest(w) PROVE StaleIsDue'
  BY <1>2, <1>8 DEF WriteRequest, MoveTo, treeVars, Procs
<1>9. ASSUME NEW w \in Writers, WriteApply(w) PROVE StaleIsDue'
  <2>1. CASE pc' = [pc EXCEPT ![w] = "applied"]
    <3>1. pc'[w] = "applied"
      BY <1>1, <2>1 DEF ProcTypes, Procs
    <3> QED BY <3>1 DEF StaleIsDue, Due
  <2>2. CASE UNCHANGED <<tree, info>> /\ pc' = [pc EXCEPT ![w] = "done"]
    BY <1>2, <1>9, <2>2 DEF WriteApply, Procs
  <2> QED BY <1>9, <2>1, <2>2 DEF WriteApply, MoveTo
<1>10. ASSUME NEW p \in Procs, Timeout(p) PROVE StaleIsDue'
  BY <1>2, <1>10 DEF Timeout, MoveTo, treeVars
<1>11. CASE (\E w \in Writers : WriteInvalidate(w)) \/ RecvInvalidate
  BY <1>4, <1>11 DEF WriteInvalidate, RecvInvalidate
<1>12. CASE RecvAnswer
  <2>1. UNCHANGED <<cache, tree, recv>>
    BY <1>12 DEF RecvAnswer, treeVars
  <2>2. CASE pc[Head(up).to] # "waiting"
    BY <1>3, <1>12, <2>1, <2>2 DEF RecvAnswer, MoveTo
  <2>3. CASE pc[Head(up).to] = "waiting"
    <3>1. up \in Seq(Messages) /\ up # <<>>
      BY <1>12, ViewParts DEF RecvAnswer, Received, ViewInv, LinkTypes
    <3>2. Head(up) \in Messages /\ Head(up).to # None
      BY <1>12, <3>1, TakeFrom DEF RecvAnswer
    <3>3. Head(up).to \in Procs
      BY <3>2, Kinds
    <3>4. pc' = [pc EXCEPT ![Head(up).to] = "answered"]
      BY <1>12, <2>3 DEF RecvAnswer, MoveTo
    <3> QED BY <1>2, <2>1, <2>3, <3>3, <3>4
  <2> QED BY <2>2, <2>3
<1>13. CASE RecvChange
  BY <1>13 DEF RecvChange, StaleIsDue, Due
<1>14. CASE HandleStart \/ HandleReply
  BY <1>3, <1>14 DEF HandleStart, HandleReply, treeVars, callVars
<1>15. CASE \/ \E kind \in {"write", "remove"} : UserChange(kind)
            \/ SelfWriteElapses \/ WatchSuppress \/ WatchReport \/ ForwardEvent
  BY <1>3, <1>15 DEF UserChange, SelfWriteElapses, WatchSuppress, WatchReport, ForwardEvent,
                     treeVars, callVars
<1>16. CASE UNCHANGED viewVars
  BY <1>3, <1>16 DEF viewVars, treeVars, callVars
<1> QED BY <1>5, <1>6, <1>7, <1>8, <1>9, <1>10, <1>11, <1>12, <1>13, <1>14, <1>15, <1>16
        DEF ViewNext

\* However many versions look alike: when all has settled and the metadata is that of the
\* disk, so is what the cache holds, unless a read that the change overtook stored it.
THEOREM SettledCacheFresh == ViewSpec => []SettledCacheIsFresh
<1>1. ViewInit => StaleIsDue
  BY DEF ViewInit, StaleIsDue
<1>2. ViewInv /\ StaleIsDue /\ [ViewNext]_viewVars => StaleIsDue'
  BY StaleStep
<1>3. ViewInv /\ StaleIsDue => SettledCacheIsFresh
  <2> SUFFICES ASSUME ViewInv, StaleIsDue, Settled, tree = disk, tree # None, cache # None,
                      ~cache.late
               PROVE  cache.ver = disk
    BY DEF SettledCacheIsFresh
  <2>1. DiskTypes /\ TreeTypes
    BY ViewParts DEF ViewInv
  <2>2. /\ disk = newest /\ newest \in Nat /\ cache.ver \in Nat /\ cache.ver =< newest
    BY <2>1, Kinds DEF ViewInv, NoneNewer, DiskTypes, TreeTypes, Entry
  <2>3. ~Due
    BY Apart DEF Settled, Due, Procs
  <2>4. ~(cache.ver < tree)
    BY <2>3 DEF StaleIsDue
  <2> QED BY <2>2, <2>4
<1> QED BY <1>1, <1>2, <1>3, ViewInvKept, PTL DEF ViewSpec
=============================================================================
