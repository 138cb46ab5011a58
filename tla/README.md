# Rclaude: a verification project in TLA+

Rclaude runs an AI agent on a server over files that stay on the user's machine. A *daemon* on the
user's machine serves its workspace to the server over one gRPC stream; the server shows it as a FUSE
mount; the agent runs in that mount on a server-side terminal, which the user's *rclaude* process
attaches to over a second stream. This directory holds TLA+ models of that program, TLC runs that check
them on small instances, and TLAPS proofs for every instance.

All paths below are relative to `src/`.

## 1. Inventory

| Component | State it keeps | Operations | Talks to |
|---|---|---|---|
| session (`pkg/session/session.go`) | pending map, one response channel per request, send queue, close error, offline deadline, tree and cache | `Request`, send and receive loop, `resolvePending`, `closeWithError`, `RetainOffline`, `applyChange`, `Apply*` | the file view calls `Request`; the daemon answers over the stream |
| session registry (`pkg/session/manager.go`, `service.go`) | user → session, user → PTY session id | `Register`, `Get`, `removeExpired`, `HandleDisconnect`, `RegisterPTY`, `UnregisterPTY`; `Connect` drives it | connect handlers, FUSE operations, PTY service |
| daemon loop (`pkg/syncer/daemon.go`) | back-off, `everEstablished`, two queues, five goroutines | dial, open, scan, send tree, serve, retry | session (stream), watcher, startup coordinator (`OnReady`) |
| request handling, path locks, sensitive filter (`pkg/syncer/handle*.go`, `locker.go`, `path_resolution.go`) | the disk, reference-counted lock entries | read, write, delete, rename…, refusal, audit | daemon loop, audit |
| scan, watcher, self-write filter (`pkg/syncer`) | watched directories, remembered paths | registration, notifications, suppression | daemon loop |
| audit (`pkg/audit`) | bounded queue, store | record, drop, write, close | request handling |
| FUSE nodes, file view, prefetch (`pkg/fusefs`) | calls in progress, in-flight set | look up, list, read through the cache, change and apply the result, prefetch | session, registry |
| metadata tree (`pkg/fstree`), content cache (`pkg/contentcache`) | nodes by path with their children's names; entries by recency with a signature, bytes in use | insert, delete, list; get, put, invalidate, evict | session, file view |
| startup coordinator (`pkg/startup`), unified entry (`app/rclaude`) | phase and last failure per component, bounded queues, events channel; exit decision | runners, retries, give up, abort; supervise, shutdown signals | daemon and PTY attach as components |
| PTY service, PTY host (`pkg/ptyservice`, `pkg/ptyhost`) | loop state of a call, two channels; process, terminal, wait result | attach, stdout/client/exit events, error paths; spawn, drain, reap, shutdown with grace period | registry (slot), client stream, the agent |
| PTY client and attach (`pkg/ptyclient`, `pkg/ptyattach`) | terminal mode, outbound queue, result, exit status | handshake, send, receive, keyboard, resize, restore | PTY service, terminal |
| server application, rate limiter, authentication (`app/server`, `pkg/ratelimit`, `pkg/auth`) | the mount, the gRPC server, a token bucket per user and purpose | mount, serve, stop gracefully or by force, unmount; wait for tokens | everything on the server |
| configuration, logging, transport, generated protocol code | – | – | – |

What is hard here, and what must hold:

* **Requests over a shared stream.** Answers come late, callers time out, the session is closed or
  replaced under them. Every caller gets its own answer, no channel is closed twice, nobody waits for
  ever.
* **Reconnection.** Handlers of old and new connections of a user interleave; reads test expiry
  without the lock. The newest connection wins, and no clean-up hits the wrong session.
* **Wind-down of the daemon.** Five goroutines on two bounded queues; any may fail at any time.
* **A mirror with two writers.** The agent changes files through the mount and the owner on the machine.
  Metadata, content and notifications travel separately and are applied by different goroutines; the
  tree and the cache must stay sound, and the mount must come to show the disk.
* **Locks and audit.** Entries of locks come and go; the queue fills and is closed. Nobody may wait for
  ever, and no record that was let in may be lost.
* **Startup.** Failures, retries and starts of peers race; queues are bounded and drop.
* **Terminal sessions.** On the server three event sources meet in one loop that also does blocking
  I/O: one agent per user, the slot must come back, and the exit must not overtake the output. On the
  client two of the goroutines cannot be interrupted: the session must end, tell the truth about how,
  and leave the terminal as it was.
* **Shutdown of the server.** Long-lived streams, a mount that is closed from two places.

`PROJECT.json` lists the hazards one by one, at their lines, with the property that covers each.

## 2. Modules and how they correspond to the code

| Module | Models | State and actions |
|---|---|---|
| `Session` | one session's `Request` and its stream | A caller is a request: `pc` is its line in `Request`; `pending` is the map, `chVal`/`chClosed` its channel; `resolver` and `batch` are what `resolvePending` and `closeWithError` hold after they released the lock. One action per stretch between two blocking points or unlocks. The send loop holds the message it is sending (`sending`) until the stream takes it, and `Serve` waits for it before it closes the session. The daemon's end answers in order. |
| `UserSlots` | (abstract) what the registry promises | One slot per user: live, closing, read-only, absent. |
| `Manager` | registry and `Connect` handlers | Methods under `Manager.mu` are one action; a handler takes several (`Bootstrap`, `Register`, `ClosePrev`, `ServeEnds`, `HandleDisconnect`), `Get` up to three. `Slots` is the refinement mapping to `UserSlots`. |
| `Daemon` | `Run` with its reconnect loop and `serveStream` | `loop` is the goroutine of `Run`, from `prepareRun` on, `worker` the five of `serveStream`; queues are counted. |
| `FileView` | one file in fine steps: mount, session, daemon, disk, watcher | Content is its version number; `SigOf` is the part of the metadata that the cache compares, which versions may share. An entry of the cache remembers whether the disk had moved on when it was stored (`late`, a history). |
| `Tree` | `pkg/fstree` | Pure operators on a function from paths to nodes. A node keeps its children's names as the code does, so that map and names can fall out of step; `Sound` says that they do not. |
| `ContentCache` | `pkg/contentcache` | Pure operators on the list of entries and the byte count, which is kept by hand as in the code; loops over the entries (prefix invalidation, eviction) are recursive functions that remove one entry after the other. |
| `Mirror` | a workspace of several paths and its mirror; composes `Tree` and `ContentCache` with the daemon's disk, watcher and self-write filter, the FUSE calls and prefetch | `pc`/`call` are the FUSE requests and prefetch goroutines, `up`/`down` the stream, `notes`/`events` the watcher's queues. A call is a lookup, a request, the change the daemon makes, its answer (`made` in between: the answer may still be a failure), and the application of the answer. `excused` is a history variable: per path, whether something happened after which the code cannot make the mount agree with the disk. |
| `Locker` | `pkg/syncer/locker.go` | Entries have an identity: a goroutine goes on with the one it found, whatever becomes of the map. Lookup, mutex and release are separate steps. |
| `Audit` | `pkg/audit` | `Record` and the first half of `Close` are atomic by the recorder's mutex; the writer and the rest of `Close` take steps of their own. |
| `Requests` | `Handle`; composes `Locker` and `Audit` | `step` is the call's place: refusal, the walk below a directory that is to be renamed, locks, the change or the look, the locks' release, the audit. `walk` is what the walk has listed and not examined; the owner changes the disk meanwhile. `touched` is a history: something changed where a rename is under way. |
| `Startup` | coordinator, runners, supervisor | `rpc` is each runner, `cpc` the coordinator; publishing is one step because `EventBus.Publish` runs its subscribers under its lock and they do not block. A component's `Run` only becomes ready and returns. |
| `Pty` | `Attach` of the service, the pumps, the host, the PTY slot | `pc` is the call; terminal data is counted; `drain` and `pumpStdout`, joined by an unbuffered pipe, are one stage. A send or a write blocks until the other side takes it; the agent, its descendant (`heir`) and the client do as they like. |
| `Attach` | the client's side: `runCommand` and the client's `Run` | `main` is the command, with the handshake and the deferred steps in their order; `sender`, `stdin`, `resizer` and `recv` are the goroutines of the errgroup. The server is any server that answers the attach frame. |
| `Limiter` | `pkg/ratelimit` and the per-user stores | Time advances in steps in which whole units come in. One turn of `Wait` under the mutex is one action. |
| `Server` | `app/server/main.go`, the closing of the mount, the interceptors; composes `Limiter` | `main` is `runPreparedServer`, `watcher` the goroutine of `Mount`, `once` its `sync.Once`; a stream is at the interceptors, at a limiter, serving, stuck or ended. |

`MC*` modules and `.cfg` files instantiate them. `SessionProofs`, `ManagerProofs`, `PtyProofs`,
`AttachProofs`, `ServerProofs`, `RequestsProofs`, `StartupProofs` and `MirrorProofs` hold the theorems;
those about `Daemon` are in `ManagerProofs` and those about `FileView` in `ServerProofs`, whose names
therefore begin with `Daemon` and `View` where others would clash. Operators named `Mut…` are not used by any
specification: each is a plausible mistake in the definition that follows it, and shows that a property
would notice it.

How the models meet: the end of the stream in `Session` is the daemon of `Daemon`; what `Session` shows
of a request is what `FileView` and `Mirror` assume of it (answered once or timed out); what `Requests`
does to the disk is one step of `Mirror`, whose locks it is about; what `Daemon` shows of `Run` (it
returns when cancelled, `StartupOutcome`) is what `Startup` assumes of a component; `Attach` and `Pty`
are the two ends of a terminal session, each with an arbitrary other end; `Server` is around `Manager`
and `Pty`, whose handlers it knows as streams that are served.

Simplifications a reader should know of:

* `Requests` has the set of paths that some pattern matches (`Matched`), so that a path can be sensitive in
  one directory and not in another, as with `secrets/**`; how a glob matches a string is left out, and so
  are symbolic links: a path names what it works on, and `blocksSensitivePath` has no target to follow.
  `mkdir` is the non-recursive one the mount asks for. `Handle` is called by several goroutines at a time,
  which its locks are made for; the receive loop of today calls it one request after the other
  (`pkg/syncer/daemon.go:381`).
* `Mirror`: a timeout is an answer that comes too late; the self-write window is open until the watcher
  finds it expired. fsnotify reports a change once and drops the watch of a directory that was moved
  (external); what it tells of watched directories further down, under their old names, is left out, and
  every path is excused from then on. `os.Rename` does not replace a directory. Excluded or sensitive
  names are not in the workspace. Inode numbers are left out. Whether cached content is up to date is the
  matter of `FileView`. The limit of files prefetched per listing is in the model but not reached by two
  files.
* `Startup`, `Daemon`: the content of messages is left out. `Limiter`: tokens are integers.
* `UserSlots` lets a read-only slot expire at any time: the refinement is about who has the slot, and says
  nothing of a session retained for too short a time.
* `DrainedBeforeClose` says nothing of records that are dropped because the queue is full.
* `Limiter` has several waiters of a user at the attach limiter, more than the program, where the slot
  comes first (`pkg/ptyservice/service.go:121`).
* Histories (`excused`, `granted`, `born`, `output`, `shown` and the like) only serve the properties.

## 3. Runs

| Run | Checks | Bounds |
|---|---|---|
| `session` | `OwnResponse`, `ChannelDiscipline`, `NoPendingLeak`, `ReplacedIsFinal`, `RequestReturns` | 2 callers: one whose answer is late and one it could reach; every queue and the stream hold 1 message, so each fills; 2 spontaneous changes (`MaxChanges`), one to be refused and one to block the daemon behind it |
| `connect` | `NoOrphanSession`, `NoDeadEntry`, `ImplementsSlots`; `StartupOutcome`, `CancelReturns`, `FailureWindsDown`, `RetriesUntilEstablished` | the two ends of `Connect` side by side: `Manager` and `Daemon` share no variable, so that each is explored beside an initial state of the other. 3 connections of one user, so that a session is displaced before its own handler closed the one before it, and 1 of another user; retention 0 and 1, clock to 2 (`MaxTime`). Queues of 1; back-off levels to 2 (`MaxLevel`): first, longer, capped |
| `daemon_reconnect` | *violated*: `RunBlocksUntilCancelled` | the daemon of `connect` |
| `view` | `NotOlderThanInfo`, `SettledCacheIsFresh` | 2 readers (one slow, one that hits what it stored), 1 writer, 3 versions (`MaxVer`), the last two of which have the same signature; the owner waits for one notification at most (`MaxNotes`) |
| `mirror` | `TreeSound`, `CacheSound`, `PrefetchOnce`, `DivergenceExplained` | directories `d` and `e` that can become each other, with a file each; 2 callers and 2 prefetchers; 2 calls through the mount (`MaxCalls`) and 3 calls, edits and faults in all (`MaxOps`): a call, another, and an edit, a timeout, a late failure or a lost notification in any order; a cache that two of the versions fill, one that does not fit into it, and two with one signature |
| `mirror_rename` | *violated*: `RenamedSubtreeVisible` | as `mirror` |
| `requests` | `LockDiscipline`, `DrainedBeforeClose`, `SensitiveKept`, `EverythingReturns` | 2 handlers, 2 requests (`MaxRequests`) of six kinds, among them renames in opposite directions and of a directory with a sensitive file and one that would be sensitive under the new name; 1 removal by the owner (`MaxEdits`), which ends the walk or makes it miss something; 4 lock entries, as many as two renames use at a time; an audit queue of 1; 2 closers |
| `startup` | `AbortsAtDeadEnd`, `OneRetryPerFailure`, `NoSendAfterClose`, `TruthfulExit`, `NotStranded`, `RunEnds` | the program's two components with each acyclic dependency between them; the program's 3 retries; all queues of 1 |
| `pty` | `SlotHasOwner`, `OneAgentPerUser`, `ExitAfterOutput`, `PeerEOFReleasesSlot` | 1 call in full and the user's other calls as holders of the slot; channels and terminal of 1, 2 frames and 2 pieces of output (`MaxIn`, `MaxOut`): more than any buffer |
| `attach` | `TerminalLeftClean`, `OutcomeKept`, `NoOutputAfterReset`, `SessionEnds` | queues of 1; one chunk typed, one size, one frame of output: each goroutine blocks and is cancelled at every point; more only repeats it |
| `server` | `RateKept`, `ShutdownCompletes` | 2 terminals of a user, who share the limiters, and a daemon; input of 3 units on a burst of 2, so that a `Wait` takes a part, sleeps and is overtaken; 2 steps of time (`MaxTime`) |
| `server_unmount` | *violated*: `UnmountedAtExit` | as `server`, and nobody but the agents works in the mount |

`CHECK_DEADLOCK FALSE` is set in all of them because every one of these systems may come to rest: all
calls have returned, the process has ended, nobody edits the file.

`DivergenceExplained` says what the mount promises, with the gaps of the code named. When everything has
come to rest the mount shows the disk, and a path where it does not had one of these happen to it. Its
change was missed: the owner made it in a directory that was not watched, within the self-write window
of a call, or by moving a directory it is in; its notification was lost; the call that made it timed out
on the server, or was answered with a failure after the change; or a result or a change was applied to
the tree after the disk had moved on. Or the path is below a directory that the agent renamed, which
`mirror_rename` takes away. The property does not say that these do not happen, and the hazards of
`PROJECT.json` that it stands by say so: it says that nothing else does, and that each does harm only where
it happened. That every change is noticed otherwise, by the right one of two goroutines and in an order in
which the last one counts, is what has to hold for it.

`SettledCacheIsFresh` is about content whose signature does not tell it from that on disk: only
invalidation removes it. It excepts what a read put into the cache when the disk had already moved on,
for nothing may come after it; `NotOlderThanInfo` bounds what a read can return in any case.

`SensitiveKept` excepts the rename of a directory in which something has changed since the request came in:
the walk that looks for sensitive names takes no locks. A rename may also make a path sensitive that was
not so under its old name; that is what the code promises, not more.

### Fairness

A goroutine that can take a step eventually does (weak fairness per goroutine); timers fire. Go's
`select` chooses at random among the ready cases, so a case that is ready again and again is taken:
strong fairness for `SeesDone` in `Daemon` and for `ClientEvent` in `Pty`. Go's mutexes hand over to a
waiter after a millisecond: strong fairness for a handler that waits for a lock in `Requests`. Faults (a
read error, a lost link) are never forced by fairness, and nothing is assumed of the user, the client or
the agent.

`Session` assumes that while the stream is up the network and the daemon make progress as far as the
other side receives: the daemon takes requests, answers them, and what it sends arrives. After a refused
message the receive loop has ended, and `Serve` waits for a send loop that may wait for the daemon
(`HeldUp`, `pkg/session/session.go:161`). There the callers are left to their deadlines, which the file
view gives every request (`withRequestTimeout`); `RequestReturns` uses them in that state and in no other.
`Startup` assumes that an attempt of a component ends, ready or not, and that `Run` returns once its
context is cancelled; `CancelReturns` shows the second for the daemon. `Attach` assumes that a server
returns once the client has half-closed the stream, which `PeerEOFReleasesSlot` shows for ours where it is
not held up; reading the keyboard is not fair unless the pipe was closed. In `Pty` a send is sure to return
only when the connection is lost, and a write to the terminal when there is room or nobody has it open.
`Server` assumes that handlers return once `Stop` has cancelled their streams, unless they are stuck in
one of those ways, and nothing before that.

### What the violations show

* **`daemon_reconnect`** – `serveStream` tests the error of the session's own context
  (`pkg/syncer/daemon.go:338`), which the failing goroutine has itself cancelled. A broken stream is
  returned as nil, and `Run` ends instead of reconnecting, against its comment. The supervisor takes
  this for a graceful stop (`app/rclaude/supervise.go:83`), and the terminal session goes on without
  files.
* **`mirror_rename`** – `ApplyRename` (`pkg/session/session.go:274`) deletes the old path with all below
  it and puts back the one `FileInfo` the daemon answered with. A directory that was moved with `mv` on
  the mount is empty, until the session is renewed: the watcher's reports of both names are suppressed
  as self-writes, against `README.md:58`.
* **`server_unmount`** – the goroutine of `Mount` closes the mount at the signal
  (`pkg/fusefs/mount_linux.go:64`), while an agent has its working directory there. The unmount fails, its
  error is dropped, and the `sync.Once` is used up: when the streams have been stopped and no agent is
  left, the deferred close does nothing, and the process leaves a stale mount behind.
  `app/server/main.go:224` says that the forced stop is "guaranteeing the deferred FUSE unmount always
  runs". The property asks for it only where no agent is left at the end. Only a signal that comes when
  nothing works in the mount is sure to leave none.

Other disagreements and limits that came up while modelling, which the properties leave out by name or by
bound:

* *Two versions within a second.* The cache compares size and modification time in whole seconds
  (`pkg/session/session.go:637`). `readChunk` stores an answer under the metadata it looked up before
  asking (`pkg/fusefs/view.go:137`); if the change that overtook it has the same signature and was applied
  before, the older content is served from then on. `SettledCacheIsFresh` excepts that entry (`late`).
* *Older metadata last.* Results of writes are applied by their callers, changes by the receive loop
  (`pkg/session/session.go:242`, `:254`); an older one may come last, and its repair may be suppressed.
* *Self-write window.* It suppresses the owner's own edits to the path as well
  (`pkg/syncer/watch.go:158`; `README.md:154`).
* *Failure after the change.* `handleWrite` and the others answer with an error when the write or the
  `lstat` after the change fails (`pkg/syncer/handle_write.go:144`, `:225`); the notification is suppressed
  all the same, and the mount does not learn of what was done. An overflow of the watcher is only logged
  (`pkg/syncer/watch.go:68`), and nothing is scanned again.
* *The walk before a rename* ends at a directory that has vanished as if there were nothing sensitive
  (`pkg/syncer/path_resolution.go:191`, `handle_write.go:94`).
* *A loop that is held up.* `runAttached` writes the client's input to the terminal and the output to the
  stream itself (`pkg/ptyservice/service.go:397`, `:642`). If the agent does not read and the terminal is
  full, or the client does not read, the loop does not see that the client has gone, and the slot stays
  busy. So it does when a descendant of the agent keeps the terminal open after the agent has exited
  (`pkg/ptyhost/host_unix.go:180`). `PeerEOFReleasesSlot` names these (`HeldUp`). A handler in that state
  does not return when `Stop` cancels its stream either, and `<-stopped` waits for it
  (`app/server/main.go:246`), against the comment at `:229`: `ShutdownCompletes` names it (`stuck`).
* *Input as the agent exits* cannot be written; the call ends with that error and drops the queued output
  and the exit status (`service.go:354`).
* *Success reported as failure.* When an agent exits with 0 while the client is queueing input or a size,
  the cancelled goroutine's error may be the first of the group, and the status is 130 or a failure
  (`pkg/ptyclient/client.go:301`); in the same way a broken stream may be reported as cancelled, and a
  cancelled session as success. `OutcomeKept` claims what is left, that failures are not turned into success, and so
  would not catch this.
* *Forced exit.* The exit on a second signal or after the grace period (`app/rclaude/main.go:169`) runs no
  deferred step and leaves the terminal in raw mode; `TerminalLeftClean` is about all other ways out.
* *Sizes.* When the channel of sizes is full the newest is dropped, not the oldest
  (`pkg/ptyclient/resize_unix.go:14`).
* *Retries.* `pkg/startup/doc.go:10` says that "only a successfully started peer may drive retries";
  since dependencies exist, a component with a waiting dependent drives its own (`coordinator.go:346`).
  With three components `OneRetryPerFailure` would not hold: a component may drive its own retry and a
  peer that then starts drives it again. The program has two.

## 4. Proofs

TLAPS checks the theorems for all values of the constants, under the named assumptions of each module
(sizes and rates are positive, the "none" values are not members, `UserOf` maps connections to users,
paths are sequences of names and come with the directories they are in, and what a scan finds is in a
directory it finds).

* **`SessionProofs`** – `TypeOK`, `OwnResponse`, `ChannelDiscipline`, `NoPendingLeak` and
  `ReplacedIsFinal` for any callers and buffers. The properties are not inductive alone: that
  an answer reaches its own caller needs that ids are handed out once (`IdsUnique`), that only requests
  with an id travel (`QueuesIssued`), that an unregistered caller's channel is untouched
  (`Unregistered`), and that what `resolvePending` holds answers the channel it holds (`ResolvingOwn`).
  Frame lemmas (`OthersKeep…`) say once which steps touch which variables.
* **`ManagerProofs`** – `TypeOK`, `NoOrphanSession`, `NoDeadEntry` and the refinement
  `ImplementsSlots`, for any users, connections, readers and retention times. The invariant adds that
  keys match the users of their sessions, that a session about to be closed as replaced is not in the
  map, how far a handler's progress bounds the state of its session, and that a reader past its lookup
  holds a session. The refinement goes action by action: each is one step of the slots or none;
  clock ticks map to expiry, and lazy pruning to none. The same module proves the types and
  `StartupOutcome` of `Daemon`, for any queues and any back-off. It needs `FirstAttempt`: with a
  configuration that was refused nothing is tried, before the first session was established nothing is served, and an iteration that comes to its decision has
  failed, so that `Run` cannot take it for the end of a session.
* **`PtyProofs`** – `TypeOK`, `SlotHasOwner`, `OneAgentPerUser` and `ExitAfterOutput` for any number of
  concurrent calls, beyond the single detailed call TLC explores, and for any channels and amounts. The
  invariant adds `ProcessInv`: no process before `Spawn`, none running once the call is on its way out,
  and `sendError` or `hostExited` only after `reap`. That the exit is reported after all output is a
  matter of conservation (`Conserved`): what the process wrote was sent, or is in the channel, in the
  terminal or in the hands of the pump or the loop; and of what may be believed (`EndInv`): the pump puts one mark
  after everything else, and only when the terminal is drained and nobody has it open, or the process was killed.
* **`AttachProofs`** – `TerminalLeftClean`, `OutcomeKept` and the action property `NoOutputAfterReset`,
  for any capacities and any amount of input and output. The invariant says what each place of
  `runCommand` has done to the terminal, and that `recvLoop`, the only writer, has ended before the
  command gets to the reset, because the client's `Run` waits for its errgroup. For `OutcomeKept` it
  adds `Reason`: nobody in the group ends, and nobody cancels, without a reason that the group has learnt
  by the time the last of them ended, so a lost stream is never reported as success.
* **`ServerProofs`** – `RateKept` for any number of sessions, any rates and bursts and unbounded time. A bound
  on what was granted is not inductive: `Covered` adds that what is in the bucket was paid for too,
  counted up to the last refill, and a lemma adds up what comes in before and after it. A stream that
  waits does so at a limiter that exists (`WaiterInv`), without which a turn could take from one that was
  never filled.
  The same module proves the types, `NotOlderThanInfo` and `SettledCacheIsFresh` of `FileView` for any
  number of readers, edits and versions and any signatures. `ViewInv` puts the versions in an order: nobody
  knows of a newer one than the disk (`NoneNewer`), an answer is at least as new as the metadata its
  request followed (`ReadOf`), and an entry of the cache is no older than some version of its signature
  (`EntryInv`). For the second property that is not enough, as signatures may be shared: an entry
  that was current when it was stored and is older than the tree's metadata has an invalidation due
  (`StaleIsDue`).
* **`RequestsProofs`** – `LockDiscipline`, `DrainedBeforeClose` and the action property `SensitiveKept` for
  any handlers, paths and requests, any number of requests and any queue. For the locks: the count of an
  entry is the number of its users (`Counted`, with the library's theorems on cardinality), a goroutine's
  entry is the one on the map (`OnMap`), an entry on the map has one path and a user (`MapSound`),
  `LockMany` goes through different paths (`PathsDiffer`), and each owns all its mutexes but the one it
  waits for (`Owned`). For the audit: what was let in is what was passed on, then what the writer holds,
  then the queue, in this order (`AuditInv`). For the sensitive files: the disk stays a tree
  (`Lawful`), without which a rename or removal of a directory could carry off a file nobody looked at;
  a call that touches the disk was admitted by the filter (`WorkInv`); and while nothing changes in the
  directory, every sensitive path in it is below something the walk has still to examine (`Pending`), so
  that a walk that comes to its end has seen there is none. `DiskAssumption` is that the disk
  is a tree to begin with.
* **`StartupProofs`** – types, `NoSendAfterClose`, `TruthfulExit`, `OneRetryPerFailure` and
  `AbortsAtDeadEnd`, for any capacity of the queues and any number of attempts; the first two for any
  components, the others for the program's two (`TwoComponents`), which is a hypothesis they need: see
  the end of section 3. `EventInv` says that what a runner did is known to the supervisor or on its way in
  `events`. `RetryInv` follows a failure: one token of it is in `failCh`, with the coordinator, with
  a driver or in the retry channel (`OneToken`), it carries the number of the last attempt
  (`TokenValue`), it has somebody who can drive it (`HasDriver`), and what the coordinator believes of a
  component is so (`PhaseTrue`).
* **`MirrorProofs`** – `TreeSound`, `PrefetchOnce`, `CacheSound` and `DivergenceExplained` for any
  workspace, callers, prefetchers, sizes and limits and any numbers of versions, calls and faults.
  - *Tree.* The stronger `Good` is kept by each operator of `Tree`: every node's parent is a directory
    that has its name, and the names lead to nodes. The recursive deletion removes everything below a path
    because the tree is closed under prefixes (`PrefixClosed`, `ReachedIsBelow`); the tree that
    `ReplaceTree` builds from a scan is `Good` after each path of it.
  - *Goroutines.* That an answer never reaches an idle caller or prefetcher is `QueueInv`: who has a
    request or an answer on the stream waits for it, and has only one.
  - *Cache.* `Counted` (the bytes kept by hand are the sum over the entries, and paths differ) is kept by
    the removal of one entry and by the addition of one at the front, and so by the loops. Within the
    limit it is only after `Put` has evicted: `Evict` leaves at most as many bytes as fit, or nothing.
  - *Divergence.* A second invariant, `DInv`, follows every change from the disk to the tree. It says for
    each path who changed it last and what that entails, or that the path is excused. What nobody has
    changed is shown, and everything on its way leaves it shown (`ScanInv`). What the owner has changed
    has its notification in `notes`, or its change in `events` or in `up`, and from there on
    everything in this queue and all in the queues before it *fits* the disk (`UserInv`): the tree shows
    the path rightly after it if it did so before. What the agent has changed is shown, or an answer is
    on its way, or about to be given, that will show it or excuse it (`AgentInv`, `Making`). What fits is a condition on one message, one
    path and what the disk has there (`InsertFits`, `DeleteFits`), which the operators of `Tree` keep
    (`InsertKeepsShown`, `DeleteKeepsShown`). It rests on the disk being a tree: above what is
    there are directories, below what is missing there is nothing (`ExistingFits`, `MissingFits`). The
    step is taken for each queue in turn (`ReportPasses`, `ForwardPasses`, `ChangePasses`,
    `AnswerPasses`, `QueuesPass`), for what is shown (`ShownStep`) and for the answers, given and not yet given
    (`MendedStep`, `MakingStep`).

  Inductions over data are made over sets of numbers: the least counterexample (`Least`, from the
  well-foundedness of the naturals), the induction up to a bound it gives (`InductionUpTo`), and the
  existence of a function that a loop defines (`IterationExists`).

Only model-checked: all liveness (`RequestReturns`, the daemon's, `NotStranded`, `RunEnds`,
`PeerEOFReleasesSlot`, `EverythingReturns`, `SessionEnds`, `ShutdownCompletes`), which the prover does
not reach. Every safety invariant and action property of the passing runs is stated by a theorem.
No module declares a recursive operator.

## 5. Not modelled, and why

Generated protocol code, configuration, logging and the statements of the SQL store are I/O or wiring.
Glob patterns and the resolution of symbolic links are functions of strings and of the file system. The
token table is a stateless lookup. Inode numbers and attributes are FUSE's. The forced exit on a second
signal is left out of `Startup`, which it would end sooner, and of `Attach`, see section 3. The
Windows variants of console and resize are left out; their control is that of the Unix ones.

## 6. Plan

Done, in this order: `Session`, `Manager` with `UserSlots`, `Daemon`, `FileView`, `Startup`, `Pty`; then
`Tree`, `ContentCache` and `Mirror`, `Attach`, `Locker`, `Audit` and `Requests`, `Limiter` and `Server`.

Every safety property of the passing runs is proved.

Next:

1. `Reconnect`: `Manager` and `FileView` composed, for reads that look up metadata and session in two
   calls.
2. `Startup`, `Daemon` and `Manager` composed: the first attach may find no daemon although it reported
   ready.
