------------------------------- MODULE Locker -------------------------------
(***************************************************************************)
(* The path locks of the daemon (pkg/syncer/locker.go).  A path that       *)
(* somebody holds or waits for has an entry with a mutex and a count of    *)
(* those who use it; the last one out takes the entry off the map.  An     *)
(* entry has an identity: a goroutine goes on using the one it has found,   *)
(* whatever becomes of the map.                                            *)
(***************************************************************************)
EXTENDS SequencesExt

CONSTANTS
  Handlers,    \* goroutines that lock paths
  SortedKeys,  \* the paths, in the order of their names
  Entries,     \* the entries there can be
  None         \* no entry, nobody

ASSUME LockerAssumption == None \notin Entries /\ None \notin Handlers

Keys == Range(SortedKeys)

VARIABLES
  locks,     \* the entry of each path, if it is on the map
  refCount,
  owner,     \* who holds the mutex of each entry
  place,     \* where each goroutine is in Lock and in the function it returned
  todo,      \* paths LockMany has yet to lock
  taken      \* paths and entries it has counted itself in for

lockVars == <<locks, refCount, owner, place, todo, taken>>

LockerInit ==
  /\ locks = [k \in Keys |-> None]
  /\ refCount = [e \in Entries |-> 0]
  /\ owner = [e \in Entries |-> None]
  /\ place = [h \in Handlers |-> "out"]
  /\ todo = [h \in Handlers |-> <<>>]
  /\ taken = [h \in Handlers |-> <<>>]

\* In the order they are asked for.
MutAsAsked(p, q) == IF p = q THEN <<p>> ELSE <<p, q>>

\* p comes before q in the order of their names.
Before(p, q) ==
  \E i, j \in DOMAIN SortedKeys : i < j /\ SortedKeys[i] = p /\ SortedKeys[j] = q

\* LockMany: without duplicates, and sorted.
LockOrder(p, q) == IF p = q THEN <<p>> ELSE IF Before(p, q) THEN <<p, q>> ELSE <<q, p>>

\* Lock is LockMany of one path.
LockMany(h, p, q) ==
  /\ place' = [place EXCEPT ![h] = "count"]
  /\ todo' = [todo EXCEPT ![h] = LockOrder(p, q)]
  /\ UNCHANGED <<locks, refCount, owner, taken>>

Unused == {e \in Entries : refCount[e] = 0}

\* Lock, under the mutex of the map: the entry is found or made, and counted.  An entry
\* that nobody uses any more may be made again; Entries bounds how many are in use.
CountIn(h) ==
  /\ place[h] = "count"
  /\ LET key == Head(todo[h])
         entry == IF locks[key] # None THEN locks[key] ELSE CHOOSE e \in Unused : TRUE
     IN  /\ locks[key] # None \/ Unused # {}
         /\ locks' = [locks EXCEPT ![key] = entry]
         /\ refCount' = [refCount EXCEPT ![entry] = @ + 1]
         /\ taken' = [taken EXCEPT ![h] = Append(@, [key |-> key, entry |-> entry])]
         /\ todo' = [todo EXCEPT ![h] = Tail(@)]
  /\ place' = [place EXCEPT ![h] = "wait"]
  /\ UNCHANGED owner

\* entry.mu.Lock.
Acquire(h) ==
  /\ place[h] = "wait"
  /\ owner[Last(taken[h]).entry] = None
  /\ owner' = [owner EXCEPT ![Last(taken[h]).entry] = h]
  /\ place' = [place EXCEPT ![h] = IF todo[h] = <<>> THEN "in" ELSE "count"]
  /\ UNCHANGED <<locks, refCount, todo, taken>>

\* What LockMany returned, in reverse order: entry.mu.Unlock ...
Unlock(h) ==
  /\ place[h] = "unlock"
  /\ owner' = [owner EXCEPT ![Last(taken[h]).entry] = None]
  /\ place' = [place EXCEPT ![h] = "countOut"]
  /\ UNCHANGED <<locks, refCount, todo, taken>>

\* Takes the entry off the map whoever still waits for it.
MutForget(h) ==
  /\ place[h] = "countOut"
  /\ LET last == Last(taken[h]) IN
       /\ refCount' = [refCount EXCEPT ![last.entry] = @ - 1]
       /\ locks' = [locks EXCEPT ![last.key] = None]
  /\ taken' = [taken EXCEPT ![h] = Front(@)]
  /\ place' = [place EXCEPT ![h] = IF taken'[h] = <<>> THEN "out" ELSE "unlock"]
  /\ UNCHANGED <<owner, todo>>

\* ... and, under the mutex of the map, the count.
CountOut(h) ==
  /\ place[h] = "countOut"
  /\ LET last == Last(taken[h]) IN
       /\ refCount' = [refCount EXCEPT ![last.entry] = @ - 1]
       /\ locks' = IF refCount'[last.entry] = 0 THEN [locks EXCEPT ![last.key] = None] ELSE locks
  /\ taken' = [taken EXCEPT ![h] = Front(@)]
  /\ place' = [place EXCEPT ![h] = IF taken'[h] = <<>> THEN "out" ELSE "unlock"]
  /\ UNCHANGED <<owner, todo>>

LockStep(h) == CountIn(h) \/ Acquire(h) \/ Unlock(h) \/ CountOut(h)

-----------------------------------------------------------------------------
(* Properties *)

Locked(h) == {taken[h][i].key : i \in 1..Len(taken[h])}

\* No two goroutines are between Lock and unlock of the same path.
MutualExclusion ==
  \A g, h \in Handlers : place[g] = "in" /\ place[h] = "in" /\ g # h
                           => Locked(g) \cap Locked(h) = {}

\* A path has an entry on the map exactly while somebody uses it.
NothingLeaked == \A k \in Keys : locks[k] # None <=> \E h \in Handlers : k \in Locked(h)

\* Lock and the function it returns: the locks exclude, and leave nothing behind.
LockDiscipline == MutualExclusion /\ NothingLeaked
=============================================================================
