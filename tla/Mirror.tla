------------------------------- MODULE Mirror -------------------------------
(***************************************************************************)
(* A workspace and its mirror on the server.  The daemon owns the files    *)
(* (pkg/syncer: scan, watcher, self-write filter, request handlers); the   *)
(* session keeps their metadata in a Tree and their content in a           *)
(* ContentCache; the FUSE nodes (pkg/fusefs/mount_linux.go, view.go,       *)
(* prefetch.go) show the tree to the agent and pass its calls to the       *)
(* daemon.  Two parties change files, then: the agent through the mount,   *)
(* whose results are applied by the caller, and the owner of the machine,  *)
(* whose changes are noticed by the watcher.                               *)
(*                                                                         *)
(* This module is about many paths; the finer steps within one call on one *)
(* file, and whether a cached content is up to date, are the matter of     *)
(* FileView.  A file is named by the version of its content, and its       *)
(* metadata is that of a version; several versions may have one signature. *)
(***************************************************************************)
EXTENDS ContentCache

CONSTANTS
  SortedPaths,         \* the paths there can be, in the order of their names
  InitialDisk,         \* the workspace when the daemon scans it
  Callers,             \* FUSE requests being served at a time
  Fetchers,            \* goroutines that prefetch
  SizeOf,              \* the length of each version
  SigOf,               \* its signature: length and modification time in seconds
  Absent, Dir,         \* what there is at a path that is not a file
  None,                \* a message to nobody in particular
  PrefetchMaxFile,     \* PrefetchMaxFileBytes
  PrefetchMaxPerDir,   \* PrefetchMaxFilesPerDir
  MaxVer,              \* bound: versions
  MaxCalls,            \* bound: calls through the mount
  MaxOps               \* bound: calls, local edits and faults together

Paths == Range(SortedPaths)
Versions == 1..MaxVer
Procs == Callers \cup Fetchers

ASSUME MirrorAssumption ==
  /\ SortedPaths \in Seq(Seq(STRING) \ {Root})
  /\ \A p \in Paths : ParentOf(p) \in Paths \cup {Root}
  /\ Callers \cap Fetchers = {}
  /\ None \notin Procs
  /\ MaxVer \in Nat
  /\ Absent # Dir /\ Absent \notin Nat /\ Dir \notin Nat
  /\ InitialDisk \in [Paths -> Versions \cup {Absent, Dir}]
  /\ \A p \in Paths : InitialDisk[p] # Absent =>
                         ParentOf(p) = Root \/ InitialDisk[ParentOf(p)] = Dir
  /\ SizeOf \in [0..MaxVer -> Nat]
  /\ SizeOf[0] = 0
  /\ SigOf \in [0..MaxVer -> Nat]
  /\ \A v, w \in 0..MaxVer : SigOf[v] = SigOf[w] => SizeOf[v] = SizeOf[w]

VARIABLES
  disk,        \* what there is at each path
  last,        \* the newest version
  by,          \* who changed each path last
  watched,     \* the directories the watcher is registered for
  watching,    \* Watch has registered the directories it found
  remembered,  \* paths in the self-write filter
  notes,       \* notifications of the file system not yet handled
  events,      \* watchEvents
  down,        \* requests on their way to the daemon
  made,        \* the daemon has made the change that the first of them asks for
  up,          \* messages on their way to the server
  tree,        \* the session's metadata
  cache,       \* the session's contents
  prefetching, \* paths being prefetched
  pc,          \* where each goroutine of the server is
  call,        \* what it does
  reply,       \* what the daemon answered
  calls,       \* how many calls there have been
  edits,       \* how many local edits
  faults,      \* how many timeouts, late failures and lost notifications
  excused      \* history: why the mirror may differ, and where

diskVars  == <<disk, last, by>>
watchVars == <<watched, watching, remembered, notes, events>>
linkVars  == <<down, made, up>>
viewVars  == <<tree, cache, prefetching>>
procVars  == <<pc, call, reply>>
countVars == <<calls, edits, faults>>
vars == <<diskVars, watchVars, linkVars, viewVars, procVars, countVars, excused>>

Call(op, path, to, ver) == [op |-> op, path |-> path, to |-> to, ver |-> ver]
NoCall == Call("none", Root, Root, 0)
Answer(ok, dir, ver) == [ok |-> ok, dir |-> dir, ver |-> ver]
Silence == Answer(FALSE, FALSE, 0)
Change(kind, path, dir, ver) == [kind |-> kind, path |-> path, dir |-> dir, ver |-> ver]

\* What lstat reports of a path: a bare FileInfo when there is nothing.
IsDir(p) == IF p = Root THEN TRUE ELSE disk[p] = Dir
VerOf(d, p) == IF d[p] \in Versions THEN d[p] ELSE 0

\* replaceTree with what Scan found: one insertion after the other into a new tree.
Scanned(t, p) == IF InitialDisk[p] = Absent THEN t
                 ELSE Insert(t, p, InitialDisk[p] = Dir, VerOf(InitialDisk, p))

Built[n \in 0..Len(SortedPaths)] ==
  IF n = 0 THEN New ELSE Scanned(Built[n - 1], SortedPaths[n])

ReplaceTree == Built[Len(SortedPaths)]

\* The session is established: the tree shows the workspace as it was scanned,
\* the watcher is not running yet.
Init ==
  /\ disk = InitialDisk
  /\ last = Max({0} \cup {VerOf(InitialDisk, p) : p \in Paths})
  /\ by = [p \in Paths |-> "scan"]
  /\ watched = {}
  /\ watching = FALSE
  /\ remembered = {}
  /\ notes = <<>>
  /\ events = <<>>
  /\ down = <<>>
  /\ made = FALSE
  /\ up = <<>>
  /\ tree = ReplaceTree
  /\ cache = EmptyCache
  /\ prefetching = {}
  /\ pc = [p \in Procs |-> "idle"]
  /\ call = [p \in Procs |-> NoCall]
  /\ reply = [p \in Procs |-> Silence]
  /\ calls = 0
  /\ edits = 0
  /\ faults = 0
  /\ excused = {}

Reasons(paths, why) == {[path |-> p, why |-> why] : p \in paths}
Excuse(paths, why) == excused' = excused \cup Reasons(paths, why)

MayHappen == calls + edits + faults < MaxOps
Fault == MayHappen /\ faults' = faults + 1

-----------------------------------------------------------------------------
(* Calls of the mount that change something *)

Shown(t, p) == IF p \notin DOMAIN t THEN Absent
               ELSE IF t[p].dir THEN Dir ELSE t[p].ver

\* The kernel has looked the names up before it makes the call: a new name is
\* free, its directory is one, and what is removed or moved is there.
InDirectory(p) == ParentOf(p) = Root \/ Shown(tree, ParentOf(p)) = Dir

MayCall(op, p, q) ==
  \/ op \in {"create", "mkdir"} /\ Shown(tree, p) = Absent /\ InDirectory(p) /\ q = p
  \/ op \in {"write", "truncate"} /\ Shown(tree, p) \notin {Absent, Dir} /\ q = p
  \/ op = "remove" /\ Shown(tree, p) # Absent /\ q = p
  \/ /\ op = "rename" /\ Shown(tree, p) # Absent /\ InDirectory(q)
     /\ ~Within(p, q)
     /\ Shown(tree, p) = Dir => Len(p) = Len(q)
     /\ Shown(tree, q) # Absent => (Shown(tree, q) = Dir <=> Shown(tree, p) = Dir)

MayStart(c) == pc[c] = "idle" /\ calls < MaxCalls /\ MayHappen

\* requestFileOp: the request is queued.
CallStart(c) ==
  /\ MayStart(c)
  /\ \E op \in {"create", "mkdir", "write", "truncate", "remove", "rename"}, p, q \in Paths :
       /\ MayCall(op, p, q)
       /\ call' = [call EXCEPT ![c] = Call(op, p, q, 0)]
  /\ calls' = calls + 1
  /\ pc' = [pc EXCEPT ![c] = "waiting"]
  /\ down' = Append(down, c)
  /\ UNCHANGED <<diskVars, watchVars, made, up, viewVars, reply, edits, faults, excused>>

Idle(p) == /\ pc' = [pc EXCEPT ![p] = "idle"]
           /\ call' = [call EXCEPT ![p] = NoCall]
           /\ reply' = [reply EXCEPT ![p] = Silence]

\* Where the step that makes the tree newTree brings back something that the
\* disk has got over: an answer or a change that was overtaken.  A change by the
\* owner of the machine has a notification of its own still to come.
Overtaken(newTree, who) ==
  {q \in Paths : /\ Shown(newTree, q) # Shown(tree, q)
                 /\ Shown(newTree, q) # disk[q]
                 /\ by[q] \in who}

\* invalidatePath.
InvalidatePath(c, p, recursive) == IF recursive THEN InvalidatePrefix(c, p) ELSE Invalidate(c, p)

\* A rename that leaves the old name in the tree.
MutRenameKeepsOld(t, c, r) ==
  CASE c.op = "remove" -> Delete(t, c.path)
    [] OTHER           -> Insert(t, c.to, r.dir, r.ver)

\* ApplyWriteResult, ApplyDelete or ApplyRename with what the daemon answered.
ApplyTree(t, c, r) ==
  CASE c.op = "remove" -> Delete(t, c.path)
    [] c.op = "rename" -> Insert(Delete(t, c.path), c.to, r.dir, r.ver)
    [] OTHER           -> Insert(t, c.path, r.dir, r.ver)

ApplyCache(c, r) ==
  LET wasDir == Shown(tree, c.path) = Dir IN
    CASE c.op = "remove" -> InvalidatePath(cache, c.path, wasDir)
      [] c.op = "rename" -> InvalidatePath(InvalidatePath(cache, c.path, wasDir), c.to, r.dir)
      [] OTHER           -> InvalidatePath(cache, c.path, r.dir)

\* A failed request changes nothing.
CallApply(c) ==
  /\ pc[c] = "answered"
  /\ call[c].op \notin {"read", "chunk"}
  /\ \/ /\ reply[c].ok
        /\ tree' = ApplyTree(tree, call[c], reply[c])
        /\ cache' = ApplyCache(call[c], reply[c])
        /\ excused' = excused
             \cup Reasons(Overtaken(tree', {"agent", "user"}), "missed")
             \cup Reasons({x \in Paths : /\ call[c].op = "rename" /\ reply[c].dir
                                        /\ Within(call[c].to, x) /\ x # call[c].to}, "renamed")
     \/ ~reply[c].ok /\ UNCHANGED <<tree, cache, excused>>
  /\ Idle(c)
  /\ UNCHANGED <<diskVars, watchVars, linkVars, prefetching, countVars>>

-----------------------------------------------------------------------------
(* Reading, listing and prefetching *)

\* shouldUseContentCache.
Cacheable(ver) == CacheMax > 0 /\ SizeOf[ver] =< CacheMax

Request(p, op, path, ver) ==
  /\ call' = [call EXCEPT ![p] = Call(op, path, path, ver)]
  /\ pc' = [pc EXCEPT ![p] = "waiting"]
  /\ down' = Append(down, p)

\* readChunk: from the cache, or by a request for the whole file if it may be
\* cached and for the chunk otherwise.
ReadStart(c, path) ==
  /\ MayStart(c)
  /\ Shown(tree, path) \notin {Absent, Dir}
  /\ calls' = calls + 1
  /\ LET ver == tree[path].ver IN
       /\ cache' = Get(cache, path, SigOf[ver])
       /\ \/ Hit(cache, path, SigOf[ver]) /\ UNCHANGED <<pc, call, down>>
          \/ /\ ~Hit(cache, path, SigOf[ver])
             /\ Request(c, IF Cacheable(ver) THEN "read" ELSE "chunk", path, ver)
  /\ UNCHANGED <<diskVars, watchVars, made, up, tree, prefetching, reply, edits, faults, excused>>

\* shouldPrefetchFile, whose look into the cache drops outdated entries, ...
Prefetchable(path) ==
  LET ver == tree[path].ver IN
    /\ ~tree[path].dir
    /\ SizeOf[ver] \in 1..PrefetchMaxFile
    /\ Cacheable(ver)

Examined(dir) == {p \in List(tree, dir) : Prefetchable(p)}

AfterLooks(dir) ==
  LET looked[n \in 0..Len(SortedPaths)] ==
        IF n = 0 THEN cache
        ELSE LET p == SortedPaths[n] IN
               IF p \in Examined(dir) THEN Get(looked[n - 1], p, SigOf[tree[p].ver])
               ELSE looked[n - 1]
  IN  looked[Len(SortedPaths)]

\* ... prefetchCandidates, the first few by name ...
Before(p, q) == \E i, j \in DOMAIN SortedPaths : /\ i < j
                                                 /\ SortedPaths[i] = p /\ SortedPaths[j] = q

Candidates(dir) ==
  LET fit == {p \in Examined(dir) : ~Hit(cache, p, SigOf[tree[p].ver])} IN
    {p \in fit : Cardinality({q \in fit : Before(q, p)}) < PrefetchMaxPerDir}

\* startPrefetch without the look at what is being fetched.
MutStartAgain(dir) == Candidates(dir)

\* ... and startPrefetch: one goroutine for each that is not being fetched.
ToStart(dir) == Candidates(dir) \ prefetching

\* Readdir.
ListDir(c, dir) ==
  /\ MayStart(c)
  /\ dir = Root \/ Shown(tree, dir) = Dir
  /\ calls' = calls + 1
  /\ cache' = AfterLooks(dir)
  /\ \E start \in [ToStart(dir) -> {f \in Fetchers : pc[f] = "idle"}] :
       /\ \A p, q \in ToStart(dir) : p # q => start[p] # start[q]
       /\ prefetching' = prefetching \cup ToStart(dir)
       /\ pc' = [f \in Procs |-> IF f \in Range(start) THEN "started" ELSE pc[f]]
       /\ call' = [f \in Procs |->
                     IF f \in Range(start)
                     THEN LET p == CHOOSE q \in ToStart(dir) : start[q] = f
                          IN  Call("read", p, p, tree[p].ver)
                     ELSE call[f]]
  /\ UNCHANGED <<diskVars, watchVars, linkVars, tree, reply, edits, faults, excused>>

\* prefetchFile: it may be cached by now.
Prefetch(f) ==
  /\ pc[f] = "started"
  /\ LET path == call[f].path
         ver  == call[f].ver
     IN  /\ cache' = Get(cache, path, SigOf[ver])
         /\ \/ /\ Hit(cache, path, SigOf[ver])
               /\ prefetching' = prefetching \ {path}
               /\ Idle(f)
               /\ UNCHANGED down
            \/ /\ ~Hit(cache, path, SigOf[ver])
               /\ Request(f, "read", path, ver)
               /\ UNCHANGED <<prefetching, reply>>
  /\ UNCHANGED <<diskVars, watchVars, made, up, tree, countVars, excused>>

\* The content arrives and is put into the cache, under the metadata the read
\* began with; FinishPrefetch.
ReadDone(p) ==
  /\ pc[p] = "answered"
  /\ call[p].op \in {"read", "chunk"}
  /\ cache' = IF reply[p].ok /\ call[p].op = "read"
              THEN Put(cache, Entry(call[p].path, SigOf[call[p].ver], reply[p].ver,
                                    SizeOf[reply[p].ver]))
              ELSE cache
  /\ prefetching' = IF p \in Fetchers THEN prefetching \ {call[p].path} ELSE prefetching
  /\ Idle(p)
  /\ UNCHANGED <<diskVars, watchVars, linkVars, tree, countVars, excused>>

-----------------------------------------------------------------------------
(* The session's receive loop *)

Delivery(p) == up # <<>> /\ Head(up).to = p /\ up' = Tail(up)

\* resolvePending hands the answer to its caller ...
RecvAnswer(p) ==
  /\ Delivery(p)
  /\ pc' = [pc EXCEPT ![p] = "answered"]
  /\ reply' = [reply EXCEPT ![p] = Head(up).answer]
  /\ UNCHANGED <<diskVars, watchVars, down, made, viewVars, call, countVars, excused>>

\* ... or finds that the caller has timed out: the request was carried out, and
\* nobody applies its result.
AnswerTooLate(p) ==
  /\ Delivery(p) /\ Fault
  /\ Idle(p)
  /\ prefetching' = IF p \in Fetchers THEN prefetching \ {call[p].path} ELSE prefetching
  /\ IF call[p].op \in {"read", "chunk"} THEN UNCHANGED excused
     ELSE Excuse({q \in Paths : Within(call[p].path, q) \/ Within(call[p].to, q)}, "missed")
  /\ UNCHANGED <<diskVars, watchVars, down, made, tree, cache, calls, edits>>

\* applyChange.
ApplyChange(t, x) ==
  IF x.kind = "delete" THEN Delete(t, x.path) ELSE Insert(t, x.path, x.dir, x.ver)

RecvChange ==
  /\ Delivery(None)
  /\ LET x == Head(up).change IN
         /\ tree' = ApplyChange(tree, x)
         /\ cache' = InvalidatePath(cache, x.path,
                       IF x.kind = "delete" THEN Shown(tree, x.path) = Dir ELSE x.dir)
         /\ Excuse(Overtaken(tree', {"agent"}), "missed")
  /\ UNCHANGED <<diskVars, watchVars, down, made, prefetching, procVars, countVars>>

-----------------------------------------------------------------------------
(* The workspace, and the daemon's handlers *)

\* A directory tells its watcher of the names in it that change.
Notice(p, kind, who) ==
  IF ParentOf(p) \in watched THEN <<[path |-> p, kind |-> kind, by |-> who]>> ELSE <<>>

\* For the history: the paths of a local change that nobody watches.
Unwatched(paths, who) == {p \in paths : who = "user" /\ ParentOf(p) \notin watched}

\* What the file system allows: a file is written or created in a directory, a
\* directory is made where there is nothing, a file or an empty directory is
\* removed, and os.Rename refuses a directory as its target.
CanHold(p) == IsDir(ParentOf(p))
CanWrite(p) == CanHold(p) /\ disk[p] # Dir
CanMkdir(p) == CanHold(p) /\ disk[p] = Absent
CanRemove(p) == disk[p] # Absent /\ \A q \in Paths : ParentOf(q) = p => disk[q] = Absent
CanRename(p, q) == /\ disk[p] # Absent /\ CanHold(q)
                   /\ IF disk[p] = Dir THEN disk[q] = Absent ELSE disk[q] # Dir

DiskSet(p, what, kind, who) ==
  /\ disk' = [disk EXCEPT ![p] = what]
  /\ by' = [by EXCEPT ![p] = who]
  /\ notes' = notes \o Notice(p, kind, who)
  /\ Excuse(Unwatched({p}, who), "missed")
  /\ last' = IF what \in Versions THEN what ELSE last
  /\ watched' = IF what = Absent THEN watched \ {p} ELSE watched

DiskWrite(p, who) ==
  /\ last < MaxVer
  /\ DiskSet(p, last + 1, IF disk[p] = Absent THEN "create" ELSE "write", who)
DiskMkdir(p, who) == DiskSet(p, Dir, "create", who)
DiskRemove(p, who) == DiskSet(p, Absent, "remove", who)

\* For the history: what moves along with a directory that the owner moves.
MovedAlong(p, q, who) ==
  {x \in Paths \ {p, q} : who = "user" /\ disk[p] = Dir /\ (Within(p, x) \/ Within(q, x))}

\* Everything below moves along; the file system tells of the two names and of nothing
\* below.  The watcher loses a directory that moves.  Of the directories watched in it
\* fsnotify goes on telling under the old names; that is left out, and taken to explain
\* everything from then on.
DiskRename(p, q, who) ==
  LET source(y) == p \o SubSeq(y, Len(q) + 1, Len(y)) IN
    /\ disk' = [x \in Paths |-> IF Within(q, x) /\ source(x) \in Paths THEN disk[source(x)]
                                ELSE IF Within(p, x) THEN Absent ELSE disk[x]]
    /\ by' = [x \in Paths |-> IF disk'[x] # disk[x] THEN who ELSE by[x]]
    /\ notes' = (notes \o Notice(p, "remove", who)) \o Notice(q, "create", who)
    /\ excused' = excused
         \cup Reasons(Unwatched({p, q}, who), "missed")
         \cup Reasons(MovedAlong(p, q, who), "missed")
         \cup Reasons({x \in Paths : \E w \in watched : Within(p, w) /\ w # p}, "missed")
    /\ watched' = {w \in watched : ~Within(p, w)}
    /\ UNCHANGED last

\* handleWrite, handleTruncate, handleMkdir, handleDelete and handleRename.  A
\* file that is created although it exists is left as it is.
Effect(c) ==
  \/ /\ c.op \in {"write", "create"} /\ CanWrite(c.path)
     /\ c.op = "write" \/ disk[c.path] = Absent
     /\ DiskWrite(c.path, "agent")
  \/ /\ c.op = "create" /\ CanWrite(c.path) /\ disk[c.path] # Absent
     /\ UNCHANGED <<diskVars, watched, notes, excused>>
  \/ /\ c.op = "truncate" /\ CanWrite(c.path) /\ disk[c.path] # Absent
     /\ DiskWrite(c.path, "agent")
  \/ c.op = "mkdir" /\ CanMkdir(c.path) /\ DiskMkdir(c.path, "agent")
  \/ c.op = "remove" /\ CanRemove(c.path) /\ DiskRemove(c.path, "agent")
  \/ c.op = "rename" /\ CanRename(c.path, c.to) /\ DiskRename(c.path, c.to, "agent")

Refused(c) ==
  \/ c.op \in {"write", "create"} /\ ~CanWrite(c.path)
  \/ c.op = "truncate" /\ (~CanWrite(c.path) \/ disk[c.path] = Absent)
  \/ c.op = "mkdir" /\ ~CanMkdir(c.path)
  \/ c.op = "remove" /\ ~CanRemove(c.path)
  \/ c.op = "rename" /\ ~CanRename(c.path, c.to)

Respond(ok, dir, ver) ==
  /\ down' = Tail(down)
  /\ up' = Append(up, [to |-> Head(down), answer |-> Answer(ok, dir, ver)])

\* Handle: the paths are remembered and the change is made, ...
HandleChange ==
  /\ down # <<>> /\ ~made
  /\ LET c == call[Head(down)] IN
       /\ c.op \notin {"read", "chunk"}
       /\ remembered' = remembered \cup {c.path, c.to}
       /\ \/ /\ Effect(c)
             /\ made' = TRUE
             /\ UNCHANGED <<down, up>>
          \/ /\ Refused(c)
             /\ Respond(FALSE, FALSE, 0)
             /\ UNCHANGED <<diskVars, watched, notes, excused, made>>
  /\ UNCHANGED <<watching, events, viewVars, procVars, countVars>>

\* ... and the answer describes what lstat finds by now, unless there was nothing to
\* describe from the start.
HandleStat ==
  /\ made
  /\ made' = FALSE
  /\ LET c == call[Head(down)] IN
       /\ c.op # "remove" => disk[c.to] # Absent
       /\ Respond(TRUE, disk[c.to] = Dir, VerOf(disk, c.to))
  /\ UNCHANGED <<diskVars, watchVars, viewVars, procVars, countVars, excused>>

\* The answer is a failure although the change was made: lstat finds nothing or fails, or
\* a file was opened, perhaps created, and could not be written.
HandleFails ==
  /\ made /\ Fault
  /\ made' = FALSE
  /\ LET c == call[Head(down)] IN
       /\ c.op # "remove"
       /\ Excuse({q \in Paths : Within(c.path, q) \/ Within(c.to, q)}, "missed")
  /\ Respond(FALSE, FALSE, 0)
  /\ UNCHANGED <<diskVars, watchVars, viewVars, procVars, calls, edits>>

\* handleRead.
HandleRead ==
  /\ down # <<>> /\ ~made
  /\ LET c == call[Head(down)] IN
       /\ c.op \in {"read", "chunk"}
       /\ Respond(disk[c.path] \in Versions, FALSE, VerOf(disk, c.path))
  /\ UNCHANGED <<diskVars, watchVars, made, viewVars, procVars, countVars, excused>>

-----------------------------------------------------------------------------
(* The owner of the machine, and the watcher *)

LocalEdit ==
  /\ MayHappen
  /\ edits' = edits + 1
  /\ \/ \E p \in Paths :
          \/ CanWrite(p) /\ DiskWrite(p, "user")
          \/ CanMkdir(p) /\ DiskMkdir(p, "user")
          \/ CanRemove(p) /\ DiskRemove(p, "user")
     \/ \E p, q \in Paths : /\ p # q /\ ~Within(p, q)
                            /\ disk[p] = Dir => Len(p) = Len(q)
                            /\ CanRename(p, q) /\ DiskRename(p, q, "user")
  /\ UNCHANGED <<watching, remembered, events, linkVars, viewVars, procVars, calls, faults>>

\* Watch: addTreeRecursively registers the directories there are now.
WatchStart ==
  /\ ~watching
  /\ watching' = TRUE
  /\ watched' = {Root} \cup {p \in Paths : disk[p] = Dir}
  /\ UNCHANGED <<diskVars, remembered, notes, events, linkVars, viewVars, procVars, countVars,
                 excused>>

\* watchChangeFromEvent passes over a remembered path, whoever changed it ...
WatchSuppress ==
  /\ notes # <<>>
  /\ Head(notes).path \in remembered
  /\ notes' = Tail(notes)
  /\ IF Head(notes).by = "user" THEN Excuse({Head(notes).path}, "missed") ELSE UNCHANGED excused
  /\ UNCHANGED <<diskVars, watched, watching, remembered, events, linkVars, viewVars, procVars,
                 countVars>>

\* ... the file system may not have told of a change at all, if too much happened, which
\* the watcher logs as an error ...
WatchOverflow ==
  /\ notes # <<>> /\ Fault
  /\ notes' = Tail(notes)
  /\ IF Head(notes).by = "user" THEN Excuse({Head(notes).path}, "missed") ELSE UNCHANGED excused
  /\ UNCHANGED <<diskVars, watched, watching, remembered, events, linkVars, viewVars, procVars,
                 calls, edits>>

\* ... and otherwise, or when the time of the path turns out to be over, examines
\* what is there now; a new directory is watched from now on, whatever it holds.
WatchReport ==
  /\ notes # <<>>
  /\ LET n == Head(notes) IN
       /\ remembered' = remembered \ {n.path}
       /\ notes' = Tail(notes)
       /\ events' = Append(events,
            IF n.kind = "remove" THEN Change("delete", n.path, FALSE, 0)
            ELSE Change("modify", n.path, disk[n.path] = Dir, VerOf(disk, n.path)))
       /\ watched' = IF n.kind = "create" /\ disk[n.path] = Dir
                     THEN watched \cup {n.path} ELSE watched
  /\ UNCHANGED <<diskVars, watching, linkVars, viewVars, procVars, countVars, excused>>

\* forwardWatchEvents.
ForwardEvent ==
  /\ events # <<>>
  /\ events' = Tail(events)
  /\ up' = Append(up, [to |-> None, change |-> Head(events)])
  /\ UNCHANGED <<diskVars, watched, watching, remembered, notes, down, made, viewVars, procVars,
                 countVars, excused>>

-----------------------------------------------------------------------------
Next ==
  \/ \E c \in Callers :
       \/ CallStart(c)
       \/ \E p \in Paths : ReadStart(c, p)
       \/ \E p \in Paths \cup {Root} : ListDir(c, p)
       \/ CallApply(c)
  \/ \E f \in Fetchers : Prefetch(f)
  \/ \E p \in Procs : ReadDone(p) \/ RecvAnswer(p) \/ AnswerTooLate(p)
  \/ RecvChange
  \/ HandleChange \/ HandleStat \/ HandleFails \/ HandleRead
  \/ LocalEdit \/ WatchStart
  \/ WatchSuppress \/ WatchOverflow \/ WatchReport \/ ForwardEvent

Spec == Init /\ [][Next]_vars

-----------------------------------------------------------------------------
(* Properties *)

\* The session's tree is sound after any mixture of the agent's results and the
\* watcher's changes, in whatever order they arrive: what Lookup finds is what
\* List shows, no node is left behind when its directory goes, and a file has
\* no children.
TreeSound == Sound(tree)

\* However reads, prefetches and invalidations of files and directories
\* interleave, the content cache counts its bytes rightly, stays within its
\* limit and has one entry per path.
CacheSound == CacheConsistent(cache)

\* A file is prefetched by one goroutine at a time, and the set of files being
\* prefetched holds nothing that nobody fetches.
PrefetchOnce ==
  LET active == {f \in Fetchers : pc[f] \in {"started", "waiting", "answered"}} IN
    /\ prefetching = {call[f].path : f \in active}
    /\ \A f, g \in active : f # g => call[f].path # call[g].path

\* Nothing is on its way.
Settled ==
  /\ watching
  /\ notes = <<>> /\ events = <<>> /\ down = <<>> /\ up = <<>>
  /\ \A p \in Procs : pc[p] = "idle"

Excused(p) == {x.why : x \in {y \in excused : y.path = p}}

\* Session, Watch and Handle: when everything has settled, the mount shows what is on disk,
\* and where it does not there is a reason of a known kind.  The change was missed: the
\* owner made it in a directory that was not watched, within the self-write window
\* of a call, or by moving the directory it is in; its notification was lost; the call
\* that made it timed out, or failed afterwards.  Or a result or a change was applied
\* after the disk had moved on, or the path is below a directory the agent renamed.
DivergenceExplained ==
  Settled => \A p \in Paths : Shown(tree, p) # disk[p] => Excused(p) # {}

\* README: "mv" works unchanged on the mount.  What a directory holds is to be
\* seen under its new name.
RenamedSubtreeVisible ==
  Settled => \A p \in Paths : Shown(tree, p) # disk[p] =>
               Excused(p) \cap {"missed"} # {}
=============================================================================
