------------------------------ MODULE Requests ------------------------------
(***************************************************************************)
(* Handle of the daemon (pkg/syncer/handle.go, handle_write.go, audit.go): *)
(* a request is refused if it touches a sensitive path, a change is made   *)
(* under the locks of its paths, and every request is audited when it has  *)
(* been handled, outside the locks.                                        *)
(*                                                                         *)
(* Paths are sequences of names.  Symbolic links are left out, so that the *)
(* path a request names is the one it works on.  The owner of the          *)
(* workspace changes it behind the daemon's back.  Handle is modelled as   *)
(* its locks are made for it, with several calls at a time; the receive    *)
(* loop of today makes one after the other.                                *)
(***************************************************************************)
EXTENDS Locker, Audit, Tree, FiniteSets

CONSTANTS
  Matched,       \* the paths that a pattern, with slashes or without, matches as they stand
  InitialDisk,   \* what there is at each path, "absent", "file" or "dir"
  Requested,     \* bound: the requests that may come in
  MaxRequests,   \* bound: how many do
  Edits,         \* bound: what the owner may do, written as requests
  MaxEdits       \* bound: how often

Paths == Keys

VARIABLES
  disk,
  req,       \* the request of each call
  step,      \* where it is
  walk,      \* a rename: what WalkDir has listed and not examined yet
  touched,   \* a rename: whether anything within its path has changed since it came in
  shown,     \* the paths whose metadata or content it will show
  requests,  \* how many there have been
  edits      \* how many changes by the owner

callVars == <<req, step, walk, shown, requests>>
diskVars == <<disk, touched, edits>>
vars == <<lockVars, auditVars, callVars, diskVars>>

Request(op, p, q) == [op |-> op, path |-> p, to |-> q]

ReadLike == {"read", "stat", "list_dir"}
Mutating == {"write", "delete", "mkdir", "truncate", "rename"}

ASSUME RequestsAssumption ==
  \A r \in Requested \cup Edits :
                       /\ r.op \in ReadLike \cup Mutating
                       /\ {r.path, r.to} \subseteq Paths
                       /\ r.op # "rename" => r.path = r.to

\* Paths are not the root and come with the directories they are in, and what exists
\* on the disk is in a directory.
ASSUME DiskAssumption ==
  /\ Paths \subseteq Seq(STRING) \ {Root}
  /\ \A q \in Paths : Ancestors(q) \subseteq Paths
  /\ InitialDisk \in [Paths -> {"absent", "file", "dir"}]
  /\ \A q \in Paths : InitialDisk[q] # "absent" =>
       \A p \in Ancestors(q) : InitialDisk[p] = "dir"

Init ==
  /\ LockerInit
  /\ AuditInit
  /\ disk = InitialDisk
  /\ req = [h \in Handlers |-> Request("stat", Root, Root)]
  /\ step = [h \in Handlers |-> "idle"]
  /\ walk = [h \in Handlers |-> {}]
  /\ touched = [h \in Handlers |-> FALSE]
  /\ shown = [h \in Handlers |-> {}]
  /\ requests = 0
  /\ edits = 0

-----------------------------------------------------------------------------
(* What is sensitive *)

\* Match: a pattern matches the path or a directory on the way to it.
Match(p) == \E i \in 1..Len(p) : SubSeq(p, 1, i) \in Matched

\* blocksSensitivePath for every path that a request names.
Blocked(r) == Match(r.path) \/ Match(r.to)

\* What a listing says of a path.
Entry(p) == [path |-> p, kind |-> disk[p]]

\* Looks at the two names of a rename and at nothing below.
MutNamesOnly(r) == {}

\* hasSensitiveDescendant walks what is below a directory; there is nothing to walk
\* if the path is not one, or does not exist.
ToExamine(r) == {e \in {Entry(r.path)} : r.op = "rename" /\ e.kind = "dir"}

-----------------------------------------------------------------------------
(* What the file system does (external) *)

ParentIsDir(p) == ParentOf(p) = Root \/ disk[ParentOf(p)] = "dir"
Children(p) == {q \in Paths : ParentOf(q) = p /\ disk[q] # "absent"}

Possible(r) ==
  CASE r.op \in {"read", "truncate"} -> disk[r.path] = "file"
    [] r.op = "stat"     -> disk[r.path] # "absent"
    [] r.op = "list_dir" -> disk[r.path] = "dir"
    [] r.op = "write"    -> ParentIsDir(r.path) /\ disk[r.path] # "dir"
    [] r.op = "mkdir"    -> ParentIsDir(r.path) /\ disk[r.path] = "absent"
    [] r.op = "delete"   -> disk[r.path] # "absent" /\ Children(r.path) = {}
    [] r.op = "rename"   -> /\ disk[r.path] # "absent" /\ ParentIsDir(r.to)
                            /\ \/ r.path = r.to
                               \/ disk[r.path] = "dir" /\ disk[r.to] = "absent"
                                    /\ ~Within(r.path, r.to)
                               \/ disk[r.path] = "file" /\ disk[r.to] # "dir"

\* Everything below a directory moves along.
Moved(p, q) ==
  LET source(x) == p \o SubSeq(x, Len(q) + 1, Len(x)) IN
    [x \in Paths |-> IF Within(q, x) THEN IF source(x) \in Paths THEN disk[source(x)] ELSE "absent"
                     ELSE IF Within(p, x) THEN "absent" ELSE disk[x]]

Change(r) ==
  CASE r.op = "write"  -> [disk EXCEPT ![r.path] = "file"]
    [] r.op = "mkdir"  -> [disk EXCEPT ![r.path] = "dir"]
    [] r.op = "delete" -> [disk EXCEPT ![r.path] = "absent"]
    [] r.op = "rename" -> IF r.path = r.to THEN disk ELSE Moved(r.path, r.to)
    [] OTHER           -> disk

\* Whoever changes the disk overtakes the renames that are under way in that place.
UnderWay(h) == req[h].op = "rename" /\ step[h] \in {"walk", "locking"}
ChangeDisk(r) ==
  /\ disk' = Change(r)
  /\ touched' = [h \in Handlers |->
       \/ touched[h]
       \/ UnderWay(h) /\ \E x \in Paths : Within(req[h].path, x) /\ disk'[x] # disk[x]]

\* The owner of the workspace changes it, without the daemon.
OwnerEdit ==
  /\ edits < MaxEdits
  /\ edits' = edits + 1
  /\ \E r \in Edits : Possible(r) /\ ChangeDisk(r)
  /\ UNCHANGED <<lockVars, auditVars, callVars>>

-----------------------------------------------------------------------------
(* Handle *)

Goto(h, s) == step' = [step EXCEPT ![h] = s]
Show(h, paths) == shown' = [shown EXCEPT ![h] = paths]

\* A request comes in and the paths it names are examined; a blocked one is refused.
Receive(h) ==
  /\ step[h] = "idle" /\ store # "none" /\ requests < MaxRequests
  /\ requests' = requests + 1
  /\ \E r \in Requested :
       \/ /\ Blocked(r)
          /\ Goto(h, "audit") /\ UNCHANGED <<req, walk, lockVars>>
       \/ /\ ~Blocked(r) /\ r.op \in ReadLike
          /\ req' = [req EXCEPT ![h] = r]
          /\ Goto(h, "look") /\ UNCHANGED <<walk, lockVars>>
       \/ /\ ~Blocked(r) /\ r.op \in Mutating
          /\ req' = [req EXCEPT ![h] = r]
          /\ walk' = [walk EXCEPT ![h] = ToExamine(r)]
          /\ IF ToExamine(r) = {} THEN Goto(h, "locking") /\ LockMany(h, r.path, r.to)
                                 ELSE Goto(h, "walk") /\ UNCHANGED lockVars
  /\ UNCHANGED <<auditVars, diskVars, shown>>

\* WalkDir: an entry is examined by its name, and one that was listed as a directory is
\* read.  The code takes the entries of a directory in the order of their names, the
\* model in any order.  A directory that has become a file is an error.
Examine(h) ==
  /\ step[h] = "walk"
  /\ \E e \in walk[h] :
       \/ /\ Match(e.path) \/ (e.kind = "dir" /\ disk[e.path] = "file")
          /\ Goto(h, "audit")
          /\ walk' = [walk EXCEPT ![h] = {}]
       \/ /\ ~Match(e.path)
          /\ e.kind = "dir" => disk[e.path] = "dir"
          /\ walk' = [walk EXCEPT ![h] = (@ \ {e}) \cup
                        {Entry(q) : q \in {q \in Children(e.path) : e.kind = "dir"}}]
          /\ UNCHANGED step
  /\ UNCHANGED <<lockVars, auditVars, diskVars, req, shown, requests>>

\* The locks are taken once the walk has come to its end, or to a directory that is gone
\* by now: resolveRenamePaths ignores ErrNotExist, with which that ends the walk.
TakeLocks(h) ==
  /\ step[h] = "walk"
  /\ \/ walk[h] = {}
     \/ \E e \in walk[h] : ~Match(e.path) /\ e.kind = "dir" /\ disk[e.path] = "absent"
  /\ walk' = [walk EXCEPT ![h] = {}]
  /\ Goto(h, "locking")
  /\ LockMany(h, req[h].path, req[h].to)
  /\ UNCHANGED <<auditVars, diskVars, req, shown, requests>>

\* handleRead, handleStat, handleListDir: a listing leaves out what is sensitive.
Look(h) ==
  /\ step[h] = "look"
  /\ LET r == req[h] IN
       Show(h, IF ~Possible(r) THEN {}
               ELSE IF r.op = "list_dir" THEN {q \in Children(r.path) : ~Match(q)}
               ELSE {r.path})
  /\ Goto(h, "audit")
  /\ UNCHANGED <<lockVars, auditVars, diskVars, req, walk, requests>>

\* The change itself, with the locks held.
Act(h) ==
  /\ step[h] = "locking" /\ place[h] = "in"
  /\ IF Possible(req[h])
     THEN ChangeDisk(req[h]) /\ Goto(h, "stat") /\ UNCHANGED place
     ELSE /\ Goto(h, "unlocking") /\ place' = [place EXCEPT ![h] = "unlock"]
          /\ UNCHANGED <<disk, touched>>
  /\ UNCHANGED <<locks, refCount, owner, todo, taken, auditVars, req, walk, shown, requests, edits>>

\* lstatToFileInfo: the answer describes what is there by now, if anything.  A
\* deletion has nothing to describe.
Stat(h) ==
  /\ step[h] = "stat"
  /\ Show(h, IF disk[req[h].to] = "absent" THEN {} ELSE {req[h].to})
  /\ Goto(h, "unlocking")
  /\ place' = [place EXCEPT ![h] = "unlock"]
  /\ UNCHANGED <<locks, refCount, owner, todo, taken, auditVars, diskVars, req, walk, requests>>

\* The deferred unlock comes first, then auditRequest, then the answer is sent.  Of
\* a record there is who made it.
AuditRequest(h) ==
  /\ \/ step[h] = "audit"
     \/ step[h] = "unlocking" /\ place[h] = "out"
  /\ Record(h)
  /\ Goto(h, "idle")
  /\ Show(h, {})
  /\ req' = [req EXCEPT ![h] = Request("stat", Root, Root)]
  /\ touched' = [touched EXCEPT ![h] = FALSE]
  /\ UNCHANGED <<lockVars, disk, edits, walk, requests>>

Locking(h) == LockStep(h) /\ UNCHANGED <<auditVars, callVars, diskVars>>
Auditing == AuditStep /\ UNCHANGED <<lockVars, callVars, diskVars>>

HandlerStep(h) ==
  \/ Look(h) \/ Examine(h) \/ TakeLocks(h)
  \/ Act(h) \/ Stat(h) \/ AuditRequest(h) \/ Locking(h)

Next == Auditing \/ OwnerEdit \/ \E h \in Handlers : Receive(h) \/ HandlerStep(h)

Spec == Init /\ [][Next]_vars

\* Goroutines run; a mutex is passed on to those who wait for it; a save ends within
\* saveTimeout.
FairSpec ==
  /\ Spec
  /\ \A h \in Handlers : /\ WF_vars(HandlerStep(h))
                         /\ SF_vars(Locking(h) /\ place[h] = "wait")
  /\ WF_vars(WriterStep /\ Auditing)
  /\ \A c \in Closers : WF_vars(CloseStore(c) /\ Auditing)

-----------------------------------------------------------------------------
(* Properties *)

Renames(h) == req[h].op = "rename" /\ step[h] = "locking" /\ step'[h] = "stat"

\* blocksSensitivePath, hasSensitiveDescendant, handleListDir: a sensitive path is never
\* shown, and no request changes what there is at one but the rename of a directory
\* that it is in, and that only if something in the directory has changed since the
\* request came in.  A rename may make a path, with what is there, sensitive that
\* was not so under its old name.
SensitiveKept ==
  [][\A p \in Paths : Match(p) =>
       /\ disk'[p] # disk[p] =>
            \/ edits' # edits
            \/ \E h \in Handlers : Renames(h) /\ (touched[h] \/ disk[p] = "absent")
       /\ \A h \in Handlers : p \notin shown'[h]]_vars

\* LockMany sorts, and Record never blocks: every request is answered, and every
\* Close returns, whatever is requested at the same time.
EverythingReturns ==
  /\ \A h \in Handlers : step[h] # "idle" ~> step[h] = "idle"
  /\ \A c \in Closers : closing[c] # "no" ~> closing[c] = "returned"
=============================================================================
