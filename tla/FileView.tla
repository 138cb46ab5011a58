------------------------------ MODULE FileView ------------------------------
(***************************************************************************)
(* One file as the mount shows it (pkg/fusefs/view.go, prefetch.go), the   *)
(* metadata and content the session keeps of it (pkg/session/session.go,   *)
(* pkg/contentcache) and the daemon that owns it (pkg/syncer/handle.go,    *)
(* handle_write.go, selfwrite.go, watch.go).                               *)
(*                                                                         *)
(* A file's content is named by its version: 1, 2, ... in the order of the *)
(* changes on the daemon's disk.  Metadata is that of a version, and        *)
(* SigOf[v] is what of it the content cache compares: size and modification *)
(* time in whole seconds, which two versions may share.  Version 0 stands   *)
(* for the bare FileInfo the watcher sends when the file is gone before it  *)
(* could be examined.                                                       *)
(*                                                                         *)
(* Requests and messages travel in order, one stream each way; the answer  *)
(* wakes its caller, which acts on it at its own pace.                     *)
(***************************************************************************)
EXTENDS Naturals, Sequences

CONSTANTS
  Readers,   \* goroutines in readChunk or prefetchFile, once each
  Writers,   \* goroutines in writeChunk, truncatePath or removePath, once each
  SigOf,     \* the signature of each version's metadata
  None,      \* no file, no metadata, no content
  MaxVer,    \* bound: versions the file goes through
  MaxNotes,  \* bound: notifications open when the owner changes the file again
  EventCap   \* capacity of watchEvents

Versions == 1..MaxVer
Infos == 0..MaxVer

ASSUME FileViewAssumption ==
  /\ Readers \cap Writers = {}
  /\ None \notin Nat \cup Readers \cup Writers
  /\ MaxVer \in Nat \ {0}
  /\ MaxNotes \in Nat
  /\ EventCap \in Nat \ {0}
  /\ DOMAIN SigOf = Infos

VARIABLES
  disk,      \* the version on disk, None when there is no file
  newest,    \* the newest version there has been
  remembered,\* selfWrites holds the path and its time is not over
  notes,     \* notifications of the file system not yet handled
  events,    \* watchEvents
  down,      \* requests on their way to the daemon
  handling,  \* the request the daemon is carrying out, None if none
  removed,   \* ... and whether it has removed the file
  up,        \* messages on their way to the server
  tree,      \* the session tree's metadata of the file
  cache,     \* the content cache's entry for it
  recv,      \* the receive loop: "idle", or "invalidate" after a tree update
  pc,        \* where each goroutine is
  op,        \* what each writer does
  info,      \* the metadata a reader looked up, or that a writer got back
  content,   \* the version a reader got
  answer     \* the response in each caller's channel

daemonVars == <<disk, newest, remembered, notes, events>>
linkVars   == <<down, handling, removed, up>>
treeVars   == <<tree, cache, recv>>
callVars   == <<pc, op, info, content, answer>>
viewVars == <<daemonVars, linkVars, treeVars, callVars>>

Procs == Readers \cup Writers

Note   == {"write", "remove"}
Change == [kind : {"modify", "delete"}, ver : Infos]
Answer == [ok : BOOLEAN, ver : Infos]
\* What the cache holds, the signature it was stored under and, for the properties,
\* whether the disk held something else by then.
Entry  == [ver : Versions, sig : {SigOf[i] : i \in Infos}, late : BOOLEAN]
Silence == [ok |-> FALSE, ver |-> 0]

\* Every variable has its type, and no queue or counter exceeds its bound.
ViewTypeOK ==
  /\ disk \in Versions \cup {None}
  /\ newest \in Versions
  /\ remembered \in BOOLEAN
  /\ notes \in Seq(Note)
  /\ events \in Seq(Change)
  /\ Len(events) =< EventCap
  /\ down \in Seq(Procs)
  /\ handling \in Procs \cup {None}
  /\ removed \in BOOLEAN
  /\ up \in Seq([to : Procs, answer : Answer] \cup [to : {None}, change : Change])
  /\ tree \in Infos \cup {None}
  /\ cache \in Entry \cup {None}
  /\ recv \in {"idle", "invalidate"}
  /\ pc \in [Procs -> {"idle", "looked", "waiting", "answered", "applied", "done"}]
  /\ op \in [Procs -> {"read", "write", "delete"}]
  /\ info \in [Procs -> Infos]
  /\ content \in [Procs -> Versions \cup {None}]
  /\ answer \in [Procs -> Answer]

\* A session that has just been bootstrapped: the tree shows the file as it is.
ViewInit ==
  /\ disk = 1
  /\ newest = 1
  /\ remembered = FALSE
  /\ notes = <<>>
  /\ events = <<>>
  /\ down = <<>>
  /\ handling = None
  /\ removed = FALSE
  /\ up = <<>>
  /\ tree = 1
  /\ cache = None
  /\ recv = "idle"
  /\ pc = [p \in Procs |-> "idle"]
  /\ op \in {f \in [Procs -> {"read", "write", "delete"}] :
               \A p \in Procs : f[p] = "read" <=> p \in Readers}
  /\ info = [p \in Procs |-> 0]
  /\ content = [p \in Procs |-> None]
  /\ answer = [p \in Procs |-> Silence]

MoveTo(p, place) == pc' = [pc EXCEPT ![p] = place]

-----------------------------------------------------------------------------
(* readChunk and prefetchFile *)

\* lookupInfo.
ReadLookup(r) ==
  /\ pc[r] = "idle"
  /\ \/ /\ tree # None
        /\ info' = [info EXCEPT ![r] = tree]
        /\ MoveTo(r, "looked")
     \/ /\ tree = None
        /\ MoveTo(r, "done")
        /\ UNCHANGED info
  /\ UNCHANGED <<daemonVars, linkVars, treeVars, op, content, answer>>

\* Get of the content cache: an entry under another signature is removed.
Hit(r) == cache # None /\ cache.sig = SigOf[info[r]]

ReadCached(r) ==
  /\ pc[r] = "looked"
  /\ \/ /\ Hit(r)
        /\ content' = [content EXCEPT ![r] = cache.ver]
        /\ MoveTo(r, "done")
        /\ UNCHANGED <<cache, down>>
     \/ /\ ~Hit(r)
        /\ cache' = None
        /\ down' = Append(down, r)
        /\ MoveTo(r, "waiting")
        /\ UNCHANGED content
  /\ UNCHANGED <<daemonVars, handling, removed, up, tree, recv, op, info, answer>>

\* PutCachedContent under the metadata of this moment.
MutPutCurrentInfo(r) ==
  /\ pc[r] = "answered" /\ r \in Readers
  /\ answer[r].ok
  /\ cache' = [ver |-> answer[r].ver, sig |-> SigOf[IF tree = None THEN 0 ELSE tree],
               late |-> answer[r].ver # disk]
  /\ content' = [content EXCEPT ![r] = answer[r].ver]
  /\ answer' = [answer EXCEPT ![r] = Silence]
  /\ MoveTo(r, "done")
  /\ UNCHANGED <<daemonVars, linkVars, tree, recv, op, info>>

\* The read comes back: PutCachedContent under the metadata that was looked up
\* before the request.
ReadPut(r) ==
  /\ pc[r] = "answered" /\ r \in Readers
  /\ \/ /\ answer[r].ok
        /\ cache' = [ver |-> answer[r].ver, sig |-> SigOf[info[r]],
                     late |-> answer[r].ver # disk]
        /\ content' = [content EXCEPT ![r] = answer[r].ver]
     \/ /\ ~answer[r].ok
        /\ UNCHANGED <<cache, content>>
  /\ answer' = [answer EXCEPT ![r] = Silence]
  /\ MoveTo(r, "done")
  /\ UNCHANGED <<daemonVars, linkVars, tree, recv, op, info>>

-----------------------------------------------------------------------------
(* writeChunk, truncatePath and removePath *)

WriteRequest(w) ==
  /\ pc[w] = "idle"
  /\ down' = Append(down, w)
  /\ MoveTo(w, "waiting")
  /\ UNCHANGED <<daemonVars, handling, removed, up, treeVars, op, info, content, answer>>

\* A request that failed on the daemon changes nothing here.  ApplyWriteResult
\* and ApplyDelete update the tree, and then the cache.
WriteApply(w) ==
  /\ pc[w] = "answered" /\ w \in Writers
  /\ \/ /\ answer[w].ok
        /\ tree' = IF op[w] = "delete" THEN None ELSE answer[w].ver
        /\ info' = [info EXCEPT ![w] = answer[w].ver]
        /\ MoveTo(w, "applied")
     \/ /\ ~answer[w].ok
        /\ MoveTo(w, "done")
        /\ UNCHANGED <<tree, info>>
  /\ answer' = [answer EXCEPT ![w] = Silence]
  /\ UNCHANGED <<daemonVars, linkVars, cache, recv, op, content>>

WriteInvalidate(w) ==
  /\ pc[w] = "applied"
  /\ cache' = None
  /\ MoveTo(w, "done")
  /\ UNCHANGED <<daemonVars, linkVars, tree, recv, op, info, content, answer>>

\* The request times out: the caller is gone, the request is not.
Timeout(p) ==
  /\ pc[p] = "waiting"
  /\ MoveTo(p, "done")
  /\ UNCHANGED <<daemonVars, linkVars, treeVars, op, info, content, answer>>

-----------------------------------------------------------------------------
(* The session's receive loop *)

Received == /\ up # <<>> /\ recv = "idle"
            /\ up' = Tail(up)

\* A response wakes its caller; one that comes too late finds nobody waiting.
RecvAnswer ==
  /\ Received
  /\ LET m == Head(up) IN
       /\ m.to # None
       /\ \/ /\ pc[m.to] = "waiting"
             /\ answer' = [answer EXCEPT ![m.to] = m.answer]
             /\ MoveTo(m.to, "answered")
          \/ pc[m.to] # "waiting" /\ UNCHANGED <<answer, pc>>
  /\ UNCHANGED <<daemonVars, down, handling, removed, treeVars, op, info, content>>

\* applyChange: the tree first ...
RecvChange ==
  /\ Received
  /\ LET m == Head(up) IN
       /\ m.to = None
       /\ tree' = IF m.change.kind = "delete" THEN None ELSE m.change.ver
  /\ recv' = "invalidate"
  /\ UNCHANGED <<daemonVars, down, handling, removed, cache, callVars>>

\* applyChange that leaves the cache to its signatures.
MutRecvKeepsCache ==
  /\ recv = "invalidate"
  /\ recv' = "idle"
  /\ UNCHANGED <<daemonVars, linkVars, tree, cache, callVars>>

\* ... then the cache.
RecvInvalidate ==
  /\ recv = "invalidate"
  /\ recv' = "idle"
  /\ cache' = None
  /\ UNCHANGED <<daemonVars, linkVars, tree, callVars>>

-----------------------------------------------------------------------------
(* The daemon *)

\* The file changes, and the file system notifies the watcher.
DiskChange(kind) ==
  /\ \/ kind = "write" /\ newest < MaxVer /\ newest' = newest + 1 /\ disk' = newest + 1
     \/ kind = "remove" /\ disk # None /\ disk' = None /\ UNCHANGED newest
  /\ notes' = Append(notes, kind)

\* handleWrite, handleTruncate and handleDelete remember the path and change the
\* file; a read leaves it alone, and the removal of a file that is gone fails.
HandleStart ==
  /\ handling = None
  /\ down # <<>>
  /\ handling' = Head(down)
  /\ down' = Tail(down)
  /\ \/ /\ op[Head(down)] = "read"
        /\ UNCHANGED <<remembered, removed, disk, newest, notes>>
     \/ /\ op[Head(down)] = "write"
        /\ remembered' = TRUE
        /\ DiskChange("write")
        /\ UNCHANGED removed
     \/ /\ op[Head(down)] = "delete"
        /\ remembered' = TRUE
        /\ removed' = (disk # None)
        /\ \/ DiskChange("remove")
           \/ disk = None /\ UNCHANGED <<disk, newest, notes>>
  /\ UNCHANGED <<events, up, treeVars, callVars>>

\* The handler reads the file, or examines it after the change (lstat), and the
\* answer is queued.
HandleReply ==
  /\ handling # None
  /\ LET ok == IF op[handling] = "delete" THEN removed ELSE disk # None IN
       up' = Append(up, [to |-> handling,
                         answer |-> [ok |-> ok,
                                     ver |-> IF ok /\ disk # None THEN disk ELSE 0]])
  /\ handling' = None
  /\ removed' = FALSE
  /\ UNCHANGED <<daemonVars, down, treeVars, callVars>>

\* The owner of the machine works on the file.
UserChange(kind) ==
  /\ Len(notes) < MaxNotes
  /\ DiskChange(kind)
  /\ UNCHANGED <<remembered, events, linkVars, treeVars, callVars>>

\* The self-write window closes.
SelfWriteElapses ==
  /\ remembered
  /\ remembered' = FALSE
  /\ UNCHANGED <<disk, newest, notes, events, linkVars, treeVars, callVars>>

\* watchChangeFromEvent: a path that is remembered is passed over; otherwise the
\* file is examined now, not when it changed.
ChangeOf(note) ==
  [kind |-> IF note = "remove" THEN "delete" ELSE "modify",
   ver  |-> IF note = "remove" \/ disk = None THEN 0 ELSE disk]

WatchSuppress ==
  /\ notes # <<>>
  /\ remembered
  /\ notes' = Tail(notes)
  /\ UNCHANGED <<disk, newest, remembered, events, linkVars, treeVars, callVars>>

WatchReport ==
  /\ notes # <<>>
  /\ ~remembered
  /\ Len(events) < EventCap
  /\ events' = Append(events, ChangeOf(Head(notes)))
  /\ notes' = Tail(notes)
  /\ UNCHANGED <<disk, newest, remembered, linkVars, treeVars, callVars>>

\* forwardWatchEvents, which competes with the answers for the send queue.
ForwardEvent ==
  /\ events # <<>>
  /\ up' = Append(up, [to |-> None, change |-> Head(events)])
  /\ events' = Tail(events)
  /\ UNCHANGED <<disk, newest, remembered, notes, down, handling, removed, treeVars,
                 callVars>>

-----------------------------------------------------------------------------
ViewNext ==
  \/ \E r \in Readers : ReadLookup(r) \/ ReadCached(r) \/ ReadPut(r)
  \/ \E w \in Writers : WriteRequest(w) \/ WriteApply(w) \/ WriteInvalidate(w)
  \/ \E p \in Procs : Timeout(p)
  \/ RecvAnswer \/ RecvChange \/ RecvInvalidate
  \/ HandleStart \/ HandleReply
  \/ \E kind \in {"write", "remove"} : UserChange(kind)
  \/ SelfWriteElapses \/ WatchSuppress \/ WatchReport \/ ForwardEvent

ViewSpec == ViewInit /\ [][ViewNext]_viewVars

-----------------------------------------------------------------------------
(* Properties *)

\* A read never returns content older than the oldest version that looks like the
\* metadata it was asked for with, whether it came from the daemon or from the
\* cache, and however slow another read was to put its answer into the cache.  Two
\* versions look alike when they agree in size and second: the signature of the
\* cache tells no more.
NotOlderThanInfo ==
  \A r \in Readers : content[r] # None =>
    \E i \in Infos : SigOf[i] = SigOf[info[r]] /\ i =< content[r]

\* Nothing is on its way any more.
Settled ==
  /\ notes = <<>> /\ events = <<>> /\ down = <<>> /\ up = <<>>
  /\ handling = None
  /\ recv = "idle"
  /\ \A p \in Procs : pc[p] \in {"idle", "done"}

\* When everything has settled and the metadata is up to date, what the cache holds
\* is what is on disk, also when the versions look alike: every change that reaches
\* the tree invalidates what the cache held of the file before.  Left is the read
\* that was overtaken by the change and put its answer into the cache after it.
SettledCacheIsFresh ==
  Settled /\ tree = disk /\ tree # None /\ cache # None =>
    (cache.ver = disk \/ cache.late)

=============================================================================
