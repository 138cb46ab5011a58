--------------------------- MODULE RequestsProofs ---------------------------
(***************************************************************************)
(* For any number of handlers, paths, requests and closers: path locks     *)
(* exclude and leave nothing behind, what was let into the audit queue is  *)
(* stored before the store is closed, and sensitive paths stay as they are *)
(* and unseen.                                                             *)
(***************************************************************************)
EXTENDS Requests, FiniteSetTheorems, SequenceTheorems, TLAPS

-----------------------------------------------------------------------------
(* The locks *)

Taken == [key : Keys, entry : Entries]

LockTypes ==
  /\ locks \in [Keys -> Entries \cup {None}]
  /\ refCount \in [Entries -> Nat]
  /\ owner \in [Entries -> Handlers \cup {None}]
  /\ place \in [Handlers -> {"out", "count", "wait", "in", "unlock", "countOut"}]
  /\ todo \in [Handlers -> Seq(Keys)]
  /\ taken \in [Handlers -> Seq(Taken)]

\* Those who have counted themselves in for an entry.
Users(e) == {h \in Handlers : \E i \in 1..Len(taken[h]) : taken[h][i].entry = e}

\* The count of an entry is the number of its users.
Counted == \A e \in Entries : IsFiniteSet(Users(e)) /\ refCount[e] = Cardinality(Users(e))

\* The entry somebody uses is the one on the map ...
OnMap == \A h \in Handlers : \A i \in 1..Len(taken[h]) : locks[taken[h][i].key] = taken[h][i].entry

\* ... where no two paths share one, and none is without a user.
MapSound ==
  /\ \A k, l \in Keys : locks[k] # None /\ locks[k] = locks[l] => k = l
  /\ \A k \in Keys : locks[k] # None =>
       \E h \in Handlers : \E i \in 1..Len(taken[h]) : taken[h][i].key = k

\* LockMany goes through different paths.
PathsDiffer ==
  \A h \in Handlers :
    /\ \A i, j \in 1..Len(taken[h]) : taken[h][i].key = taken[h][j].key => i = j
    /\ \A i, j \in 1..Len(todo[h]) : todo[h][i] = todo[h][j] => i = j
    /\ \A i \in 1..Len(taken[h]) : \A j \in 1..Len(todo[h]) : taken[h][i].key # todo[h][j]

\* What each place in Lock has done.
PlaceInv ==
  \A h \in Handlers :
    /\ place[h] = "out" => taken[h] = <<>> /\ todo[h] = <<>>
    /\ place[h] = "count" => todo[h] # <<>>
    /\ place[h] \in {"wait", "in", "unlock", "countOut"} => taken[h] # <<>>
    /\ place[h] \in {"in", "unlock", "countOut"} => todo[h] = <<>>

\* Everyone owns the mutexes of its entries, but for the one it waits for or has just
\* released.
Owned ==
  \A h \in Handlers : \A i \in 1..Len(taken[h]) :
    i < Len(taken[h]) \/ place[h] \notin {"wait", "countOut"} => owner[taken[h][i].entry] = h

LockInv == LockTypes /\ Counted /\ OnMap /\ MapSound /\ PathsDiffer /\ PlaceInv /\ Owned

\* Two different paths of a handler have different entries.
LEMMA EntriesDiffer ==
  ASSUME LockInv, NEW h \in Handlers, NEW i \in 1..Len(taken[h]), NEW j \in 1..Len(taken[h]),
         taken[h][i].entry = taken[h][j].entry
  PROVE  i = j
<1>1. taken[h] \in Seq(Taken)
  BY DEF LockInv, LockTypes
<1>2. taken[h][i] \in Taken /\ taken[h][j] \in Taken
  BY <1>1
<1>3. /\ locks[taken[h][i].key] = taken[h][i].entry
      /\ locks[taken[h][j].key] = taken[h][j].entry
  BY DEF LockInv, OnMap
<1>4. taken[h][i].key = taken[h][j].key
  BY <1>2, <1>3, LockerAssumption DEF LockInv, MapSound, Taken
<1> QED BY <1>4 DEF LockInv, PathsDiffer

LEMMA InitLockInv == LockerInit => LockInv
<1> SUFFICES ASSUME LockerInit PROVE LockInv
  OBVIOUS
<1> USE DEF LockerInit
<1>1. LockTypes
  BY DEF LockTypes
<1>2. \A e \in Entries : Users(e) = {}
  BY DEF Users
<1>3. Counted
  BY <1>2, FS_EmptySet DEF Counted
<1>4. OnMap /\ MapSound /\ PathsDiffer /\ PlaceInv /\ Owned
  BY DEF OnMap, MapSound, PathsDiffer, PlaceInv, Owned
<1> QED BY <1>1, <1>3, <1>4 DEF LockInv

\* A step that leaves the locks alone.
LEMMA LocksUntouched ==
  ASSUME LockInv, UNCHANGED lockVars
  PROVE  LockInv'
<1>1. /\ locks' = locks /\ refCount' = refCount /\ owner' = owner /\ place' = place
      /\ todo' = todo /\ taken' = taken
  BY DEF lockVars
<1>2. LockTypes' /\ Counted'
  BY <1>1 DEF LockInv, LockTypes, Counted, Users
<1>3. OnMap' /\ MapSound' /\ PathsDiffer' /\ PlaceInv' /\ Owned'
  BY <1>1 DEF LockInv, OnMap, MapSound, PathsDiffer, PlaceInv, Owned
<1> QED BY <1>2, <1>3 DEF LockInv

\* LockMany: the paths it goes through are different.
LEMMA LockManyKeepsInv ==
  ASSUME LockInv, NEW h \in Handlers, place[h] = "out",
         NEW p \in Keys, NEW q \in Keys, LockMany(h, p, q)
  PROVE  LockInv'
<1> USE DEF LockMany
<1>1. LockOrder(p, q) \in Seq(Keys) /\ LockOrder(p, q) # <<>>
  BY DEF LockOrder
<1>2. \A i, j \in 1..Len(LockOrder(p, q)) :
        LockOrder(p, q)[i] = LockOrder(p, q)[j] => i = j
  BY DEF LockOrder
<1>3. taken[h] = <<>> /\ UNCHANGED <<locks, refCount, owner, taken>>
  BY DEF LockInv, PlaceInv
<1>4. LockTypes'
  BY <1>1 DEF LockInv, LockTypes
<1>5. Counted' /\ OnMap' /\ MapSound'
  BY <1>3 DEF LockInv, Counted, Users, OnMap, MapSound
<1>6. /\ todo'[h] = LockOrder(p, q) /\ place'[h] = "count"
      /\ \A g \in Handlers \ {h} : todo'[g] = todo[g] /\ place'[g] = place[g]
  BY DEF LockInv, LockTypes
<1>7. PathsDiffer'
  BY <1>2, <1>3, <1>6 DEF LockInv, PathsDiffer
<1>8. PlaceInv' /\ Owned'
  BY <1>1, <1>3, <1>6 DEF LockInv, PlaceInv, Owned
<1> QED BY <1>4, <1>5, <1>7, <1>8 DEF LockInv

\* Lock, under the mutex of the map.
LEMMA CountInKeepsInv ==
  ASSUME LockInv, NEW h \in Handlers, CountIn(h)
  PROVE  LockInv'
<1> DEFINE key == Head(todo[h])
           entry == IF locks[key] # None THEN locks[key] ELSE CHOOSE e \in Unused : TRUE
           new == [key |-> key, entry |-> entry]
           n == Len(taken[h])
<1>1. /\ todo[h] # <<>> /\ todo[h] \in Seq(Keys) /\ taken[h] \in Seq(Taken)
  BY DEF LockInv, LockTypes, PlaceInv, CountIn
<1>2. key \in Keys /\ key = todo[h][1] /\ Len(todo[h]) \in Nat \ {0} /\ n \in Nat
  BY <1>1
<1>3. locks[key] # None \/ Unused # {}
  BY DEF CountIn
<1>4. entry \in Entries
  <2>1. CASE locks[key] # None
    BY <1>2, <2>1 DEF LockInv, LockTypes
  <2>2. CASE locks[key] = None
    BY <1>3, <2>2 DEF Unused
  <2> QED BY <2>1, <2>2
<1>5. /\ locks' = [locks EXCEPT ![key] = entry]
      /\ refCount' = [refCount EXCEPT ![entry] = @ + 1]
      /\ taken' = [taken EXCEPT ![h] = Append(@, new)]
      /\ todo' = [todo EXCEPT ![h] = Tail(@)]
      /\ place' = [place EXCEPT ![h] = "wait"]
      /\ owner' = owner
  BY DEF CountIn
\* Nobody uses an entry that is made, and the handler does not use the one it finds.
<1>6. ASSUME locks[key] = None PROVE Users(entry) = {} /\ \A k \in Keys : locks[k] # entry
  <2>1. entry \in Unused
    BY <1>3, <1>6
  <2>2. Users(entry) = {}
    BY <2>1, FS_EmptySet DEF LockInv, Counted, Unused
  <2>3. ASSUME NEW k \in Keys, locks[k] = entry PROVE FALSE
    <3>1. locks[k] # None
      BY <1>4, <2>3, LockerAssumption
    <3>2. PICK g \in Handlers : \E i \in 1..Len(taken[g]) : taken[g][i].key = k
      BY <3>1 DEF LockInv, MapSound
    <3>3. \E i \in 1..Len(taken[g]) : taken[g][i].entry = entry
      BY <2>3, <3>2 DEF LockInv, OnMap
    <3> QED BY <2>2, <3>3 DEF Users
  <2> QED BY <2>2, <2>3
<1>7. h \notin Users(entry)
  <2> SUFFICES ASSUME NEW i \in 1..n, taken[h][i].entry = entry, locks[key] # None PROVE FALSE
    BY <1>6 DEF Users
  <2>1. locks[taken[h][i].key] = locks[key] /\ taken[h][i] \in Taken
    BY <1>1 DEF LockInv, OnMap
  <2>2. taken[h][i].key = key
    BY <1>2, <2>1 DEF LockInv, MapSound, Taken
  <2> QED BY <1>2, <2>2 DEF LockInv, PathsDiffer
<1> HIDE DEF key, entry
<1>8. new \in Taken
  BY <1>2, <1>4 DEF Taken
<1>9. /\ taken'[h] = Append(taken[h], new)
      /\ todo'[h] = Tail(todo[h]) /\ place'[h] = "wait"
      /\ \A g \in Handlers \ {h} :
           taken'[g] = taken[g] /\ todo'[g] = todo[g] /\ place'[g] = place[g]
  BY <1>5 DEF LockInv, LockTypes
<1>10. /\ Len(taken'[h]) = n + 1 /\ 1..Len(taken'[h]) = 1..n \cup {n + 1}
       /\ taken'[h][n + 1].key = key /\ taken'[h][n + 1].entry = entry
       /\ \A i \in 1..n : taken'[h][i] = taken[h][i]
  BY <1>1, <1>8, <1>9
<1>11. /\ Len(todo'[h]) = Len(todo[h]) - 1
       /\ \A i \in 1..Len(todo'[h]) : todo'[h][i] = todo[h][i + 1]
  BY <1>1, <1>9
<1>12. /\ locks'[key] = entry
       /\ \A k \in Keys \ {key} : locks'[k] = locks[k]
  BY <1>2, <1>5 DEF LockInv, LockTypes
<1>13. \A k \in Keys : locks[k] # None => locks'[k] = locks[k]
  BY <1>12 DEF entry
<1>14. LockTypes'
  <2>1. Append(taken[h], new) \in Seq(Taken) /\ Tail(todo[h]) \in Seq(Keys)
    BY <1>1, <1>8
  <2> QED BY <1>2, <1>4, <1>5, <2>1 DEF LockInv, LockTypes
<1>15. Counted'
  <2> HIDE DEF new, n
  <2>1. ASSUME NEW e \in Entries, e # entry PROVE Users(e)' = Users(e)
    <3>1. (\E i \in 1..Len(taken'[h]) : taken'[h][i].entry = e)
            <=> \E i \in 1..Len(taken[h]) : taken[h][i].entry = e
      BY <1>10, <2>1 DEF n
    <3>2. \A g \in Handlers : g # h => taken'[g] = taken[g]
      BY <1>9
    <3> QED BY <3>1, <3>2, Zenon DEF Users
  <2>2. ASSUME NEW e \in Entries, e = entry PROVE Users(e)' = Users(e) \cup {h}
    <3>1. \E i \in 1..Len(taken'[h]) : taken'[h][i].entry = e
      BY <1>10, <2>2
    <3> QED BY <1>9, <3>1 DEF Users
  <2>3. ASSUME NEW e \in Entries, e = entry
        PROVE  IsFiniteSet(Users(e)') /\ Cardinality(Users(e)') = Cardinality(Users(e)) + 1
    BY <1>7, <2>2, <2>3, FS_AddElement DEF LockInv, Counted
  <2>4. \A e \in Entries : refCount'[e] = IF e = entry THEN refCount[e] + 1 ELSE refCount[e]
    BY <1>4, <1>5 DEF LockInv, LockTypes
  <2>5. ASSUME NEW e \in Entries
        PROVE  IsFiniteSet(Users(e)') /\ refCount'[e] = Cardinality(Users(e)')
    BY <2>1, <2>3, <2>4 DEF LockInv, Counted
  <2> QED BY <2>5 DEF Counted
<1>16. OnMap'
  <2>1. ASSUME NEW g \in Handlers, NEW i \in 1..Len(taken'[g])
        PROVE  locks'[taken'[g][i].key] = taken'[g][i].entry
    <3>1. CASE g = h /\ i = n + 1
      BY <1>10, <1>12, <3>1
    <3>2. CASE ~(g = h /\ i = n + 1)
      <4>1. i \in 1..Len(taken[g]) /\ taken'[g][i] = taken[g][i]
        BY <1>2, <1>9, <1>10, <3>2, SMTT(30)
      <4>2. taken[g][i] \in Taken
        BY <4>1 DEF LockInv, LockTypes
      <4>3. locks[taken[g][i].key] = taken[g][i].entry /\ taken[g][i].entry # None
        BY <4>1, <4>2, LockerAssumption DEF LockInv, OnMap, Taken
      <4> QED BY <1>13, <4>1, <4>2, <4>3 DEF Taken
    <3> QED BY <3>1, <3>2
  <2> QED BY <2>1 DEF OnMap
<1>17. MapSound'
  <2>1. ASSUME NEW k \in Keys, NEW l \in Keys, locks'[k] # None, locks'[k] = locks'[l] PROVE k = l
    BY <1>6, <1>12, <2>1, SMTT(30) DEF LockInv, MapSound, entry
  <2>2. ASSUME NEW k \in Keys, locks'[k] # None
        PROVE  \E g \in Handlers : \E i \in 1..Len(taken'[g]) : taken'[g][i].key = k
    <3>1. CASE k = key
      BY <1>2, <1>10, <3>1
    <3>2. CASE k # key
      <4>1. PICK g \in Handlers : \E i \in 1..Len(taken[g]) : taken[g][i].key = k
        BY <1>12, <2>2, <3>2 DEF LockInv, MapSound
      <4>2. \A i \in 1..Len(taken[g]) : i \in 1..Len(taken'[g]) /\ taken'[g][i] = taken[g][i]
        BY <1>2, <1>9, <1>10
      <4> QED BY <4>1, <4>2
    <3> QED BY <3>1, <3>2
  <2> QED BY <2>1, <2>2 DEF MapSound
<1>18. PathsDiffer'
  <2>1. /\ \A i, j \in 1..Len(taken[h]) : taken[h][i].key = taken[h][j].key => i = j
        /\ \A i, j \in 1..Len(todo[h]) : todo[h][i] = todo[h][j] => i = j
        /\ \A i \in 1..Len(taken[h]) : \A j \in 1..Len(todo[h]) : taken[h][i].key # todo[h][j]
    BY DEF LockInv, PathsDiffer
  <2>2. \A j \in 1..Len(todo'[h]) : todo'[h][j] # key
    BY <1>2, <1>11, <2>1, SMTT(30)
  <2>3. \A i \in 1..n : taken'[h][i].key # key
    BY <1>2, <1>10, <2>1, SMTT(30)
  <2>4. \A i, j \in 1..Len(taken'[h]) : taken'[h][i].key = taken'[h][j].key => i = j
    BY <1>10, <2>1, <2>3
  <2>5. \A i, j \in 1..Len(todo'[h]) : todo'[h][i] = todo'[h][j] => i = j
    BY <1>2, <1>11, <2>1
  <2>6. \A i \in 1..Len(taken'[h]) : \A j \in 1..Len(todo'[h]) : taken'[h][i].key # todo'[h][j]
    <3>1. ASSUME NEW i \in 1..n, NEW j \in 1..Len(todo'[h]) PROVE taken'[h][i].key # todo'[h][j]
      <4>1. j + 1 \in 1..Len(todo[h]) /\ todo'[h][j] = todo[h][j + 1]
        BY <1>2, <1>11
      <4> QED BY <1>10, <2>1, <4>1
    <3> QED BY <1>10, <2>2, <3>1
  <2>7. ASSUME NEW g \in Handlers, g # h
        PROVE  /\ \A i, j \in 1..Len(taken'[g]) : taken'[g][i].key = taken'[g][j].key => i = j
               /\ \A i, j \in 1..Len(todo'[g]) : todo'[g][i] = todo'[g][j] => i = j
               /\ \A i \in 1..Len(taken'[g]) : \A j \in 1..Len(todo'[g]) :
                    taken'[g][i].key # todo'[g][j]
    BY <1>9, <2>7, SMTT(30) DEF LockInv, PathsDiffer
  <2> QED BY <2>4, <2>5, <2>6, <2>7 DEF PathsDiffer
<1>19. PlaceInv'
  BY <1>2, <1>9, <1>10 DEF LockInv, PlaceInv
<1>20. Owned'
  <2>1. ASSUME NEW i \in 1..n PROVE owner[taken[h][i].entry] = h
    BY <2>1 DEF LockInv, Owned, CountIn
  <2> QED BY <1>2, <1>5, <1>9, <1>10, <2>1 DEF LockInv, Owned
<1> QED BY <1>14, <1>15, <1>16, <1>17, <1>18, <1>19, <1>20 DEF LockInv

\* The step leaves the map, the counts and the paths alone.
LEMMA MapUntouched ==
  ASSUME LockInv, UNCHANGED <<locks, refCount, todo, taken>>
  PROVE  Counted' /\ OnMap' /\ MapSound' /\ PathsDiffer'
<1>1. locks' = locks /\ refCount' = refCount /\ todo' = todo /\ taken' = taken
  OBVIOUS
<1>2. Counted'
  BY <1>1 DEF LockInv, Counted, Users
<1> QED BY <1>1, <1>2 DEF LockInv, OnMap, MapSound, PathsDiffer

\* entry.mu.Lock: nobody loses a mutex by it.
LEMMA AcquireKeepsInv ==
  ASSUME LockInv, NEW h \in Handlers, Acquire(h)
  PROVE  LockInv'
<1> DEFINE n == Len(taken[h])
           e == taken[h][n].entry
<1>1. /\ taken[h] \in Seq(Taken) /\ n \in Nat \ {0} /\ e \in Entries
  <2>1. taken[h] # <<>> /\ taken[h] \in Seq(Taken)
    BY DEF LockInv, LockTypes, PlaceInv, Acquire
  <2>2. n \in Nat \ {0}
    BY <2>1
  <2>3. taken[h][n] \in Taken
    BY <2>1, <2>2
  <2> QED BY <2>1, <2>2, <2>3 DEF Taken
<1>2. /\ owner[e] = None /\ owner' = [owner EXCEPT ![e] = h]
      /\ place' = [place EXCEPT ![h] = IF todo[h] = <<>> THEN "in" ELSE "count"]
      /\ UNCHANGED <<locks, refCount, todo, taken>>
  BY DEF Acquire, Last
<1>3. Counted' /\ OnMap' /\ MapSound' /\ PathsDiffer'
  BY <1>2, MapUntouched
<1>4. LockTypes'
  BY <1>1, <1>2 DEF LockInv, LockTypes
<1>5. /\ place'[h] = IF todo[h] = <<>> THEN "in" ELSE "count"
      /\ \A g \in Handlers \ {h} : place'[g] = place[g]
  BY <1>2 DEF LockInv, LockTypes
<1>6. PlaceInv'
  BY <1>1, <1>2, <1>5 DEF LockInv, PlaceInv
<1>7. owner'[e] = h /\ \A x \in Entries \ {e} : owner'[x] = owner[x]
  BY <1>1, <1>2 DEF LockInv, LockTypes
<1>8. ASSUME NEW g \in Handlers, NEW i \in 1..Len(taken[g]), taken[g][i].entry # e
      PROVE  owner'[taken[g][i].entry] = owner[taken[g][i].entry]
  <2>1. taken[g][i] \in Taken
    BY DEF LockInv, LockTypes
  <2> QED BY <1>7, <1>8, <2>1 DEF Taken
<1>9. ASSUME NEW g \in Handlers, NEW i \in 1..Len(taken[g]),
             i < Len(taken[g]) \/ place'[g] \notin {"wait", "countOut"}
      PROVE  owner'[taken[g][i].entry] = g
  <2>1. CASE g = h
    <3>1. CASE i = n
      BY <1>7, <2>1, <3>1
    <3>2. CASE i # n
      <4>1. i < n /\ n \in 1..n
        BY <1>1, <2>1, <3>2
      <4>2. owner[taken[h][i].entry] = h
        BY <2>1, <4>1 DEF LockInv, Owned
      <4>3. taken[h][i].entry # e
        BY <2>1, <4>1, EntriesDiffer
      <4> QED BY <1>8, <2>1, <4>2, <4>3
    <3> QED BY <3>1, <3>2
  <2>2. CASE g # h
    <3>1. owner[taken[g][i].entry] = g
      BY <1>5, <1>9, <2>2 DEF LockInv, Owned
    <3>2. taken[g][i].entry # e
      BY <1>2, <3>1, LockerAssumption
    <3> QED BY <1>8, <3>1, <3>2
  <2> QED BY <2>1, <2>2
<1>10. Owned'
  BY <1>2, <1>9 DEF Owned
<1> QED BY <1>3, <1>4, <1>6, <1>10 DEF LockInv

\* The caller is through and calls what LockMany returned.
LEMMA ReleaseKeepsInv ==
  ASSUME LockInv, NEW h \in Handlers, place[h] = "in", place' = [place EXCEPT ![h] = "unlock"],
         UNCHANGED <<locks, refCount, owner, todo, taken>>
  PROVE  LockInv'
<1>1. Counted' /\ OnMap' /\ MapSound' /\ PathsDiffer'
  BY MapUntouched
<1>2. LockTypes'
  BY DEF LockInv, LockTypes
<1>3. place'[h] = "unlock" /\ \A g \in Handlers \ {h} : place'[g] = place[g]
  BY DEF LockInv, LockTypes
<1>4. PlaceInv' /\ Owned'
  BY <1>3 DEF LockInv, PlaceInv, Owned
<1> QED BY <1>1, <1>2, <1>4 DEF LockInv

\* entry.mu.Unlock: it is the handler's own mutex.
LEMMA UnlockKeepsInv ==
  ASSUME LockInv, NEW h \in Handlers, Unlock(h)
  PROVE  LockInv'
<1> DEFINE n == Len(taken[h])
           e == taken[h][n].entry
<1>1. /\ taken[h] \in Seq(Taken) /\ n \in Nat \ {0} /\ e \in Entries
  <2>1. taken[h] # <<>> /\ taken[h] \in Seq(Taken)
    BY DEF LockInv, LockTypes, PlaceInv, Unlock
  <2>2. n \in Nat \ {0}
    BY <2>1
  <2>3. taken[h][n] \in Taken
    BY <2>1, <2>2
  <2> QED BY <2>1, <2>2, <2>3 DEF Taken
<1>2. /\ place[h] = "unlock" /\ owner' = [owner EXCEPT ![e] = None]
      /\ place' = [place EXCEPT ![h] = "countOut"]
      /\ UNCHANGED <<locks, refCount, todo, taken>>
  BY DEF Unlock, Last
<1>3. Counted' /\ OnMap' /\ MapSound' /\ PathsDiffer'
  BY <1>2, MapUntouched
<1>4. LockTypes'
  BY <1>1, <1>2 DEF LockInv, LockTypes
<1>5. place'[h] = "countOut" /\ \A g \in Handlers \ {h} : place'[g] = place[g]
  BY <1>2 DEF LockInv, LockTypes
<1>6. PlaceInv'
  BY <1>1, <1>2, <1>5 DEF LockInv, PlaceInv
<1>7. owner[e] = h
  <2>1. n \in 1..n
    BY <1>1
  <2> QED BY <1>2, <2>1 DEF LockInv, Owned
<1>8. \A x \in Entries \ {e} : owner'[x] = owner[x]
  BY <1>1, <1>2 DEF LockInv, LockTypes
<1>9. ASSUME NEW g \in Handlers, NEW i \in 1..Len(taken[g]),
             i < Len(taken[g]) \/ place'[g] \notin {"wait", "countOut"}
      PROVE  owner'[taken[g][i].entry] = g
  <2>1. taken[g][i] \in Taken
    BY DEF LockInv, LockTypes
  <2>2. owner[taken[g][i].entry] = g
    BY <1>2, <1>5, <1>9 DEF LockInv, Owned
  <2>3. taken[g][i].entry # e
    <3>1. CASE g # h
      BY <1>7, <2>2, <3>1
    <3>2. CASE g = h
      <4>1. i < n /\ n \in 1..n
        BY <1>1, <1>5, <1>9, <3>2
      <4> QED BY <3>2, <4>1, EntriesDiffer
    <3> QED BY <3>1, <3>2
  <2> QED BY <1>8, <2>1, <2>2, <2>3 DEF Taken
<1>10. Owned'
  BY <1>2, <1>9 DEF Owned
<1> QED BY <1>3, <1>4, <1>6, <1>10 DEF LockInv

\* The count, under the mutex of the map: the last one out takes the entry off the map.
LEMMA CountOutKeepsInv ==
  ASSUME LockInv, NEW h \in Handlers, CountOut(h)
  PROVE  LockInv'
<1> DEFINE n == Len(taken[h])
           key == taken[h][n].key
           entry == taken[h][n].entry
           rest == SubSeq(taken[h], 1, n - 1)
<1>1. place[h] = "countOut" /\ taken[h] # <<>> /\ taken[h] \in Seq(Taken) /\ todo[h] = <<>>
  BY DEF LockInv, LockTypes, PlaceInv, CountOut
<1>2. n \in Nat \ {0}
  BY <1>1
<1>3. key \in Keys /\ entry \in Entries
  <2>1. taken[h][n] \in Taken
    BY <1>1, <1>2
  <2> QED BY <2>1 DEF Taken
<1>4. /\ refCount' = [refCount EXCEPT ![entry] = @ - 1]
      /\ locks' = IF refCount'[entry] = 0 THEN [locks EXCEPT ![key] = None] ELSE locks
      /\ taken' = [taken EXCEPT ![h] = rest]
      /\ place' = [place EXCEPT ![h] = IF taken'[h] = <<>> THEN "out" ELSE "unlock"]
      /\ owner' = owner /\ todo' = todo
  BY DEF CountOut, Last, Front
<1>5. /\ rest \in Seq(Taken) /\ Len(rest) = n - 1
      /\ \A i \in 1..(n - 1) : rest[i] = taken[h][i]
  <2>1. \A i \in 1..(n - 1) : taken[h][i] \in Taken
    BY <1>1, <1>2
  <2> QED BY <1>2, <2>1, SubSeqProperties
<1>6. /\ taken'[h] = rest /\ \A g \in Handlers \ {h} : taken'[g] = taken[g]
      /\ place'[h] = (IF rest = <<>> THEN "out" ELSE "unlock")
      /\ \A g \in Handlers \ {h} : place'[g] = place[g]
  BY <1>4 DEF LockInv, LockTypes
\* In terms of indices: what is left of taken is what was there, without the last.
<1>7. /\ Len(taken'[h]) = n - 1 /\ 1..Len(taken[h]) = 1..Len(taken'[h]) \cup {n}
      /\ n \notin 1..Len(taken'[h])
      /\ \A i \in 1..Len(taken'[h]) : taken'[h][i] = taken[h][i]
  BY <1>2, <1>5, <1>6
<1>8. locks[key] = entry
  BY <1>2 DEF LockInv, OnMap
<1> HIDE DEF n, key, entry, rest
<1>9. \A i \in 1..Len(taken'[h]) : taken[h][i].entry # entry /\ taken[h][i].key # key
  <2>1. ASSUME NEW i \in 1..Len(taken'[h]) PROVE taken[h][i].entry # entry
    <3>1. i \in 1..Len(taken[h]) /\ n \in 1..Len(taken[h]) /\ i # n
      BY <1>7
    <3> QED BY <3>1, EntriesDiffer DEF entry
  <2>2. ASSUME NEW i \in 1..Len(taken'[h]) PROVE taken[h][i].key # key
    <3>1. i \in 1..Len(taken[h]) /\ n \in 1..Len(taken[h]) /\ i # n
      BY <1>7
    <3> QED BY <3>1 DEF LockInv, PathsDiffer, key
  <2> QED BY <2>1, <2>2
<1>10. ASSUME NEW e \in Entries PROVE Users(e)' = IF e = entry THEN Users(e) \ {h} ELSE Users(e)
  <2>1. (\E i \in 1..Len(taken'[h]) : taken'[h][i].entry = e)
          <=> e # entry /\ \E i \in 1..Len(taken[h]) : taken[h][i].entry = e
    BY <1>7, <1>9 DEF entry
  <2> QED BY <1>6, <2>1 DEF Users
<1>11. h \in Users(entry)
  BY <1>7 DEF Users, entry
<1>12. refCount[entry] \in Nat \ {0}
  BY <1>3, <1>11, FS_EmptySet DEF LockInv, LockTypes, Counted
<1>13. \A e \in Entries : refCount'[e] = IF e = entry THEN refCount[e] - 1 ELSE refCount[e]
  BY <1>3, <1>4 DEF LockInv, LockTypes
<1>14. ASSUME NEW e \in Entries
       PROVE  IsFiniteSet(Users(e)') /\ refCount'[e] = Cardinality(Users(e)')
  <2>1. IsFiniteSet(Users(e)) /\ refCount[e] = Cardinality(Users(e))
    BY DEF LockInv, Counted
  <2>2. CASE e = entry
    BY <1>10, <1>11, <1>13, <2>1, <2>2, FS_RemoveElement
  <2>3. CASE e # entry
    BY <1>10, <1>13, <2>1, <2>3
  <2> QED BY <2>2, <2>3
<1>15. Counted'
  BY <1>14 DEF Counted
<1>16. LockTypes'
  <2>1. refCount' \in [Entries -> Nat]
    BY <1>3, <1>4, <1>12, <1>13 DEF LockInv, LockTypes
  <2>2. locks' \in [Keys -> Entries \cup {None}]
    BY <1>3, <1>4 DEF LockInv, LockTypes
  <2> QED BY <1>4, <1>5, <2>1, <2>2 DEF LockInv, LockTypes
\* Who still uses the path keeps its entry on the map.
<1>17. ASSUME NEW g \in Handlers, NEW i \in 1..Len(taken'[g]), taken'[g][i].entry = entry
       PROVE  refCount'[entry] # 0
  <2>1. PICK e \in Entries : e = entry
    BY <1>3
  <2>2. g \in Users(e)'
    BY <1>17, <2>1 DEF Users
  <2>3. Cardinality(Users(e)') # 0
    BY <1>14, <2>2, FS_EmptySet
  <2> QED BY <1>14, <2>1, <2>3
<1>18. /\ \A k \in Keys \ {key} : locks'[k] = locks[k]
       /\ locks'[key] = IF refCount'[entry] = 0 THEN None ELSE locks[key]
  BY <1>3, <1>4 DEF LockInv, LockTypes
<1>19. ASSUME NEW g \in Handlers, NEW i \in 1..Len(taken'[g])
       PROVE  /\ i \in 1..Len(taken[g]) /\ taken'[g][i] = taken[g][i]
              /\ taken[g][i] \in Taken
              /\ locks'[taken[g][i].key] = taken[g][i].entry
  <2>1. i \in 1..Len(taken[g]) /\ taken'[g][i] = taken[g][i]
    BY <1>6, <1>7
  <2>2. taken[g][i] \in Taken
    BY <2>1 DEF LockInv, LockTypes
  <2>3. locks[taken[g][i].key] = taken[g][i].entry
    BY <2>1 DEF LockInv, OnMap
  <2>4. CASE taken[g][i].key = key
    <3>1. taken[g][i].entry = entry
      BY <1>8, <2>3, <2>4
    <3> QED BY <1>17, <1>18, <2>1, <2>2, <2>3, <2>4, <3>1
  <2>5. CASE taken[g][i].key # key
    BY <1>18, <2>1, <2>2, <2>3, <2>5 DEF Taken
  <2> QED BY <2>4, <2>5
<1>20. OnMap'
  BY <1>19 DEF OnMap
<1>21. MapSound'
  <2>1. \A k \in Keys : locks'[k] # None => locks'[k] = locks[k]
    BY <1>18
  <2>2. ASSUME NEW k \in Keys, NEW l \in Keys, locks'[k] # None, locks'[k] = locks'[l] PROVE k = l
    BY <2>1, <2>2 DEF LockInv, MapSound
  <2>3. ASSUME NEW k \in Keys, locks'[k] # None
        PROVE  \E g \in Handlers : \E i \in 1..Len(taken'[g]) : taken'[g][i].key = k
    <3>1. CASE k = key
      <4>1. PICK e \in Entries : e = entry
        BY <1>3
      <4>2. Cardinality(Users(e)') # 0
        BY <1>14, <1>18, <2>3, <3>1, <4>1
      <4>3. PICK g \in Users(e)' : TRUE
        BY <4>2, FS_EmptySet
      <4>4. PICK i \in 1..Len(taken'[g]) : taken'[g][i].entry = e /\ g \in Handlers
        BY <4>3 DEF Users
      <4>5. /\ g \in Handlers /\ taken'[g][i] = taken[g][i] /\ taken[g][i] \in Taken
            /\ locks[taken[g][i].key] = e
        BY <1>19, <4>4 DEF LockInv, OnMap
      <4>6. taken[g][i].key = key
        BY <1>3, <1>8, <4>1, <4>5, LockerAssumption DEF LockInv, MapSound, Taken
      <4> QED BY <3>1, <4>5, <4>6
    <3>2. CASE k # key
      <4>1. locks[k] # None
        BY <1>18, <2>3, <3>2
      <4>2. PICK g \in Handlers : \E i \in 1..Len(taken[g]) : taken[g][i].key = k
        BY <4>1 DEF LockInv, MapSound
      <4>3. CASE g = h
        <5>1. PICK i \in 1..Len(taken[h]) : taken[h][i].key = k
          BY <4>2, <4>3
        <5>2. i # n
          BY <3>2, <5>1 DEF key
        <5> QED BY <1>7, <5>1, <5>2
      <4>4. CASE g # h
        BY <1>6, <4>2, <4>4
      <4> QED BY <4>3, <4>4
    <3> QED BY <3>1, <3>2
  <2> QED BY <2>2, <2>3 DEF MapSound
<1>22. PathsDiffer'
  <2>1. ASSUME NEW g \in Handlers
        PROVE  /\ \A i, j \in 1..Len(taken'[g]) : taken'[g][i].key = taken'[g][j].key => i = j
               /\ \A i, j \in 1..Len(todo'[g]) : todo'[g][i] = todo'[g][j] => i = j
               /\ \A i \in 1..Len(taken'[g]) : \A j \in 1..Len(todo'[g]) :
                    taken'[g][i].key # todo'[g][j]
    BY <1>4, <1>19 DEF LockInv, PathsDiffer
  <2> QED BY <2>1 DEF PathsDiffer
<1>23. PlaceInv'
  BY <1>1, <1>4, <1>6 DEF LockInv, PlaceInv
<1>24. Owned'
  <2>1. ASSUME NEW g \in Handlers, NEW i \in 1..Len(taken'[g]),
               i < Len(taken'[g]) \/ place'[g] \notin {"wait", "countOut"}
        PROVE  owner'[taken'[g][i].entry] = g
    <3>1. i < Len(taken[g]) \/ place[g] \notin {"wait", "countOut"}
      <4>1. CASE g = h
        BY <1>2, <1>7, <4>1 DEF n
      <4>2. CASE g # h
        BY <1>6, <2>1, <4>2
      <4> QED BY <4>1, <4>2
    <3> QED BY <1>4, <1>19, <3>1 DEF LockInv, Owned
  <2> QED BY <2>1 DEF Owned
<1> QED BY <1>15, <1>16, <1>20, <1>21, <1>22, <1>23, <1>24 DEF LockInv

\* What the invariant says of the locks.
LEMMA LocksAreDisciplined == LockInv => LockDiscipline
<1> SUFFICES ASSUME LockInv PROVE LockDiscipline
  OBVIOUS
<1>1. ASSUME NEW g \in Handlers, NEW h \in Handlers, place[g] = "in", place[h] = "in", g # h,
             NEW k \in Locked(g), k \in Locked(h)
      PROVE  FALSE
  <2>1. PICK i \in 1..Len(taken[g]) : taken[g][i].key = k
    BY DEF Locked
  <2>2. PICK j \in 1..Len(taken[h]) : taken[h][j].key = k
    BY <1>1 DEF Locked
  <2>3. taken[g][i].entry = taken[h][j].entry
    BY <2>1, <2>2 DEF LockInv, OnMap
  <2>4. owner[taken[g][i].entry] = g /\ owner[taken[h][j].entry] = h
    BY <1>1 DEF LockInv, Owned
  <2> QED BY <1>1, <2>3, <2>4
<1>2. MutualExclusion
  BY <1>1 DEF MutualExclusion
<1>3. NothingLeaked
  <2>1. ASSUME NEW k \in Keys, locks[k] # None PROVE \E h \in Handlers : k \in Locked(h)
    BY <2>1 DEF LockInv, MapSound, Locked
  <2>2. ASSUME NEW k \in Keys, NEW h \in Handlers, k \in Locked(h) PROVE locks[k] # None
    <3>1. PICK i \in 1..Len(taken[h]) : taken[h][i].key = k
      BY <2>2 DEF Locked
    <3>2. taken[h][i] \in Taken
      BY DEF LockInv, LockTypes
    <3> QED BY <3>1, <3>2, LockerAssumption DEF LockInv, OnMap, Taken
  <2> QED BY <2>1, <2>2 DEF NothingLeaked
<1> QED BY <1>2, <1>3 DEF LockDiscipline

-----------------------------------------------------------------------------
(* The audit queue *)

\* A record that was let in has been passed on, is in the writer's hands or is queued,
\* in this order; the writer ends when there will be no more, and Close waits for it.
AuditInv ==
  /\ queue \in Seq(Handlers) /\ saving \in Seq(Handlers)
  /\ kept \in Seq(Handlers) /\ passed \in Seq(Handlers)
  /\ closing \in [Closers -> {"no", "waits", "drains", "returned"}]
  /\ kept = (passed \o saving) \o queue
  /\ writer # "saving" => saving = <<>>
  /\ writer = "done" => queue = <<>> /\ closed
  /\ store = "none" => writer = "off"
  /\ store = "closed" \/ (\E c \in Closers : closing[c] = "returned") => writer = "done"

LEMMA InitAuditInv == AuditInit => AuditInv
BY DEF AuditInit, AuditInv

LEMMA AuditUntouched ==
  ASSUME AuditInv, UNCHANGED auditVars
  PROVE  AuditInv'
BY DEF AuditInv, auditVars

\* Record: what comes last in the queue comes last of what was let in.
LEMMA RecordKeepsInv ==
  ASSUME AuditInv, NEW h \in Handlers, Record(h)
  PROVE  AuditInv'
<1>1. CASE UNCHANGED auditVars
  BY <1>1, AuditUntouched
<1>2. CASE ~closed /\ queue' = Append(queue, h) /\ kept' = Append(kept, h)
           /\ UNCHANGED <<closed, writer, saving, store, closing, passed>>
  <2>1. /\ queue \in Seq(Handlers) /\ kept \in Seq(Handlers)
        /\ passed \o saving \in Seq(Handlers) /\ <<h>> \in Seq(Handlers)
    BY DEF AuditInv
  <2>2. queue' = queue \o <<h>> /\ kept' = kept \o <<h>>
    BY <1>2, <2>1, AppendIsConcat
  <2>3. kept' = (passed \o saving) \o (queue \o <<h>>)
    BY <2>1, <2>2, ConcatAssociative, SMTT(30) DEF AuditInv
  <2>4. queue' \in Seq(Handlers) /\ kept' \in Seq(Handlers)
    BY <1>2, <2>1
  <2> QED BY <1>2, <2>2, <2>3, <2>4 DEF AuditInv
<1> QED BY <1>1, <1>2 DEF Record

LEMMA WriterKeepsInv ==
  ASSUME AuditInv, WriterStep
  PROVE  AuditInv'
<1>1. CASE TakeRecord /\ queue # <<>>
  <2>1. /\ saving = <<>> /\ saving' = <<Head(queue)>> /\ queue' = Tail(queue)
        /\ writer = "idle" /\ writer' = "saving"
        /\ UNCHANGED <<closed, store, closing, kept, passed>>
    BY <1>1 DEF AuditInv, TakeRecord
  <2>2. /\ Head(queue) \in Handlers /\ Tail(queue) \in Seq(Handlers)
        /\ <<Head(queue)>> \in Seq(Handlers) /\ passed \in Seq(Handlers)
    BY <1>1 DEF AuditInv
  <2>3. queue = <<Head(queue)>> \o Tail(queue)
    BY <1>1, <2>2 DEF AuditInv
  <2>4. kept = passed \o queue
    BY <2>1, ConcatEmptySeq DEF AuditInv
  <2>5. passed \o (<<Head(queue)>> \o Tail(queue)) = (passed \o <<Head(queue)>>) \o Tail(queue)
    BY <2>2, ConcatAssociative
  <2>6. kept' = (passed' \o saving') \o queue'
    BY <2>1, <2>3, <2>4, <2>5
  <2> QED BY <2>1, <2>2, <2>6 DEF AuditInv
<1>2. CASE TakeRecord /\ queue = <<>>
  BY <1>2 DEF AuditInv, TakeRecord
<1>3. CASE SaveRecord
  <2>1. /\ passed' = passed \o saving /\ saving' = <<>> /\ passed \o saving \in Seq(Handlers)
        /\ writer = "saving" /\ writer' = "idle"
        /\ UNCHANGED <<queue, closed, store, closing, kept>>
    BY <1>3 DEF AuditInv, SaveRecord
  <2>2. passed' \o saving' = passed \o saving
    BY <2>1, ConcatEmptySeq
  <2> QED BY <2>1, <2>2 DEF AuditInv
<1> QED BY <1>1, <1>2, <1>3 DEF WriterStep, TakeRecord

LEMMA AuditStepKeepsInv ==
  ASSUME AuditInv, AuditStep
  PROVE  AuditInv'
<1>1. CASE OpenStore
  BY <1>1 DEF AuditInv, OpenStore
<1>2. ASSUME NEW c \in Closers, CloseQueue(c) PROVE AuditInv'
  BY <1>2 DEF AuditInv, CloseQueue
<1>3. ASSUME NEW c \in Closers, CloseStore(c) PROVE AuditInv'
  BY <1>3 DEF AuditInv, CloseStore
<1> QED BY <1>1, <1>2, <1>3, WriterKeepsInv DEF AuditStep

LEMMA AuditDrains == AuditInv => DrainedBeforeClose
<1> SUFFICES ASSUME AuditInv, writer = "done" PROVE passed = kept
  BY DEF AuditInv, DrainedBeforeClose
<1>1. saving = <<>> /\ queue = <<>> /\ passed \in Seq(Handlers)
  BY DEF AuditInv
<1>2. (passed \o <<>>) \o <<>> = passed
  BY <1>1, ConcatEmptySeq
<1> QED BY <1>1, <1>2 DEF AuditInv

-----------------------------------------------------------------------------
(* Paths, by their names *)

LEMMA PathType == ASSUME NEW p \in Paths PROVE p \in Seq(STRING) /\ Len(p) \in Nat \ {0}
<1>1. p \in Seq(STRING) /\ p # <<>>
  BY DiskAssumption DEF Root
<1> QED BY <1>1

LEMMA WithinByNames ==
  ASSUME NEW p \in Seq(STRING), NEW q \in Seq(STRING)
  PROVE  Within(p, q) <=> Len(p) =< Len(q) /\ \A i \in 1..Len(p) : p[i] = q[i]
<1> SUFFICES ASSUME Len(p) =< Len(q)
             PROVE  SubSeq(q, 1, Len(p)) = p <=> \A i \in 1..Len(p) : p[i] = q[i]
  BY DEF Within
<1>1. \A i \in 1..Len(p) : q[i] \in STRING
  OBVIOUS
<1>2. /\ SubSeq(q, 1, Len(p)) \in Seq(STRING) /\ Len(SubSeq(q, 1, Len(p))) = Len(p)
      /\ \A i \in 1..Len(p) : SubSeq(q, 1, Len(p))[i] = q[i]
  BY <1>1, SubSeqProperties
<1>3. (\A i \in 1..Len(p) : p[i] = q[i]) => SubSeq(q, 1, Len(p)) = p
  BY <1>2, SeqEqual
<1> QED BY <1>2, <1>3

\* Two paths with the same names are the same.
LEMMA SameNames ==
  ASSUME NEW p \in Seq(STRING), NEW q \in Seq(STRING), Within(p, q), Len(p) = Len(q)
  PROVE  p = q
BY WithinByNames, SeqEqual

LEMMA WithinTransitive ==
  ASSUME NEW p \in Seq(STRING), NEW q \in Seq(STRING), NEW x \in Seq(STRING),
         Within(p, q), Within(q, x)
  PROVE  Within(p, x)
<1>1. Len(p) =< Len(q) /\ \A i \in 1..Len(p) : p[i] = q[i]
  BY WithinByNames
<1>2. Len(q) =< Len(x) /\ \A i \in 1..Len(q) : q[i] = x[i]
  BY WithinByNames
<1>3. Len(p) =< Len(x) /\ \A i \in 1..Len(p) : p[i] = x[i]
  BY <1>1, <1>2
<1> QED BY <1>3, WithinByNames

\* Of two paths above a third one is above the other.
LEMMA WithinLinear ==
  ASSUME NEW p \in Seq(STRING), NEW q \in Seq(STRING), NEW x \in Seq(STRING),
         Within(p, x), Within(q, x)
  PROVE  Within(p, q) \/ Within(q, p)
<1>1. Len(p) =< Len(x) /\ \A i \in 1..Len(p) : p[i] = x[i]
  BY WithinByNames
<1>2. Len(q) =< Len(x) /\ \A i \in 1..Len(q) : q[i] = x[i]
  BY WithinByNames
<1>3. CASE Len(p) =< Len(q)
  BY <1>1, <1>2, <1>3, WithinByNames
<1>4. CASE Len(q) =< Len(p)
  BY <1>1, <1>2, <1>4, WithinByNames
<1> QED BY <1>3, <1>4

LEMMA PrefixNames ==
  ASSUME NEW q \in Seq(STRING), NEW n \in 0..Len(q)
  PROVE  /\ SubSeq(q, 1, n) \in Seq(STRING) /\ Len(SubSeq(q, 1, n)) = n
         /\ \A i \in 1..n : SubSeq(q, 1, n)[i] = q[i]
         /\ Within(SubSeq(q, 1, n), q)
<1> DEFINE p == SubSeq(q, 1, n)
<1>1. Len(q) \in Nat /\ \A i \in 1..n : q[i] \in STRING
  OBVIOUS
<1>2. p \in Seq(STRING) /\ Len(p) = n /\ \A i \in 1..n : p[i] = q[i]
  BY <1>1, SubSeqProperties
<1> HIDE DEF p
<1>3. Len(p) =< Len(q) /\ \A i \in 1..Len(p) : p[i] = q[i]
  BY <1>1, <1>2
<1>4. Within(p, q)
  BY <1>2, <1>3, WithinByNames
<1> QED BY <1>2, <1>4 DEF p

\* The prefixes of a path are paths.
LEMMA PrefixIsPath ==
  ASSUME NEW q \in Paths, NEW n \in 1..Len(q)
  PROVE  /\ SubSeq(q, 1, n) \in Paths /\ Len(SubSeq(q, 1, n)) = n
         /\ \A i \in 1..n : SubSeq(q, 1, n)[i] = q[i]
         /\ Within(SubSeq(q, 1, n), q)
<1>1. q \in Seq(STRING) /\ Len(q) \in Nat \ {0}
  BY PathType
<1>3. /\ SubSeq(q, 1, n) \in Seq(STRING) /\ Len(SubSeq(q, 1, n)) = n
      /\ \A i \in 1..n : SubSeq(q, 1, n)[i] = q[i]
      /\ Within(SubSeq(q, 1, n), q)
  BY <1>1, PrefixNames
<1>5. CASE n = Len(q)
  BY <1>1, <1>3, <1>5, SubSeqFull
<1>6. CASE n # Len(q)
  <2>1. SubSeq(q, 1, n) \in Ancestors(q)
    BY <1>1, <1>6 DEF Ancestors
  <2> QED BY <1>3, <2>1, DiskAssumption
<1> QED BY <1>5, <1>6

LEMMA AboveIsPath ==
  ASSUME NEW q \in Paths, NEW p \in Seq(STRING), p # <<>>, Within(p, q)
  PROVE  p \in Paths
<1>1. Len(p) \in Nat \ {0} /\ Len(q) \in Nat
  BY PathType
<1>2. Len(p) =< Len(q) /\ SubSeq(q, 1, Len(p)) = p
  BY DEF Within
<1>3. Len(p) \in 1..Len(q)
  BY <1>1, <1>2
<1> HIDE DEF Within
<1>4. SubSeq(q, 1, Len(p)) \in Paths
  BY <1>3, PrefixIsPath
<1> QED BY <1>2, <1>4

\* The parent of a path: above it are all others that are.
LEMMA ParentNames ==
  ASSUME NEW p \in Paths
  PROVE  /\ ParentOf(p) \in Seq(STRING) /\ Len(ParentOf(p)) = Len(p) - 1
         /\ \A i \in 1..(Len(p) - 1) : ParentOf(p)[i] = p[i]
         /\ Within(ParentOf(p), p)
         /\ ParentOf(p) # Root => ParentOf(p) \in Paths
<1>1. p \in Seq(STRING) /\ Len(p) \in Nat \ {0}
  BY PathType
<1>2. Len(p) - 1 \in 0..Len(p)
  BY <1>1
<1>3. /\ ParentOf(p) \in Seq(STRING) /\ Len(ParentOf(p)) = Len(p) - 1
      /\ \A i \in 1..(Len(p) - 1) : ParentOf(p)[i] = p[i]
      /\ Within(ParentOf(p), p)
  BY <1>1, <1>2, PrefixNames DEF ParentOf
<1> QED BY <1>1, <1>3, AboveIsPath DEF Root

LEMMA AboveParent ==
  ASSUME NEW p \in Paths, NEW a \in Paths, Within(a, p), a # p
  PROVE  Within(a, ParentOf(p)) /\ ParentOf(p) \in Paths
<1>1. /\ p \in Seq(STRING) /\ Len(p) \in Nat \ {0} /\ a \in Seq(STRING) /\ Len(a) \in Nat \ {0}
  BY PathType
<1>2. Len(a) =< Len(p) /\ \A i \in 1..Len(a) : a[i] = p[i]
  BY <1>1, WithinByNames
<1>3. Len(a) =< Len(p) - 1
  BY <1>1, <1>2, SameNames
<1>5. /\ ParentOf(p) \in Seq(STRING) /\ Len(ParentOf(p)) = Len(p) - 1
      /\ \A i \in 1..(Len(p) - 1) : ParentOf(p)[i] = p[i]
  BY ParentNames
<1>6. Len(a) =< Len(ParentOf(p)) /\ \A i \in 1..Len(a) : a[i] = ParentOf(p)[i]
  BY <1>1, <1>2, <1>3, <1>5
<1>7. Within(a, ParentOf(p))
  BY <1>1, <1>5, <1>6, WithinByNames
<1>4. ParentOf(p) # Root
  BY <1>1, <1>3, <1>5 DEF Root
<1> QED BY <1>4, <1>7, ParentNames

-----------------------------------------------------------------------------
(* The disk *)

Kinds == {"absent", "file", "dir"}

DiskType == disk \in [Paths -> Kinds]

\* What exists is in a directory.
Lawful ==
  \A p, q \in Paths : Within(p, q) /\ p # q /\ disk[q] # "absent" => disk[p] = "dir"

DiskInv == DiskType /\ Lawful

\* A request that has not been blocked.
Admitted(r) == r \in Requested /\ ~Match(r.path) /\ ~Match(r.to)

LEMMA RequestType ==
  ASSUME NEW r \in Requested \cup Edits
  PROVE  /\ r.path \in Paths /\ r.to \in Paths /\ r.op \in ReadLike \cup Mutating
         /\ r.op # "rename" => r.path = r.to
BY RequestsAssumption

LEMMA InitDiskInv == Init => DiskInv
<1> SUFFICES ASSUME disk = InitialDisk PROVE DiskInv
  BY DEF Init
<1>1. DiskType
  BY DiskAssumption DEF DiskType, Kinds
<1>2. ASSUME NEW p \in Paths, NEW q \in Paths, Within(p, q), p # q, disk[q] # "absent"
      PROVE  disk[p] = "dir"
  <2>1. p \in Seq(STRING) /\ q \in Seq(STRING) /\ Len(p) \in Nat \ {0} /\ Len(q) \in Nat \ {0}
    BY PathType
  <2>2. Len(p) =< Len(q) /\ SubSeq(q, 1, Len(p)) = p
    BY <1>2 DEF Within
  <2>3. Len(p) # Len(q)
    BY <1>2, <2>1, SameNames
  <2>4. Len(p) \in 1..(Len(q) - 1)
    BY <2>1, <2>2, <2>3
  <2>5. p \in Ancestors(q)
    BY <2>2, <2>4 DEF Ancestors
  <2> QED BY <1>2, <2>5, DiskAssumption
<1> QED BY <1>1, <1>2 DEF DiskInv, Lawful

\* What is above a path that can be made is a directory.
LEMMA ParentGuards ==
  ASSUME DiskInv, NEW q \in Paths, ParentIsDir(q), NEW a \in Paths, Within(a, q), a # q
  PROVE  disk[a] = "dir"
<1>1. Within(a, ParentOf(q)) /\ ParentOf(q) \in Paths
  BY AboveParent
<1>2. disk[ParentOf(q)] = "dir"
  BY <1>1, DiskAssumption DEF ParentIsDir
<1> QED BY <1>1, <1>2 DEF DiskInv, Lawful

\* handleWrite and handleMkdir.
LEMMA PutKeepsDisk ==
  ASSUME DiskInv, NEW p \in Paths, ParentIsDir(p), disk[p] # "dir",
         NEW kind \in {"file", "dir"}, disk' = [disk EXCEPT ![p] = kind]
  PROVE  DiskInv'
<1>1. DiskType'
  BY DEF DiskInv, DiskType, Kinds
<1>2. ASSUME NEW a \in Paths, NEW b \in Paths, Within(a, b), a # b, disk'[b] # "absent"
      PROVE  disk'[a] = "dir"
  <2>1. CASE b = p
    <3>1. disk[a] = "dir"
      BY <1>2, <2>1, ParentGuards
    <3> QED BY <1>2, <2>1, <3>1 DEF DiskInv, DiskType
  <2>2. CASE b # p
    <3>1. disk[b] # "absent"
      BY <1>2, <2>2 DEF DiskInv, DiskType
    <3>2. disk[a] = "dir"
      BY <1>2, <3>1 DEF DiskInv, Lawful
    <3> QED BY <3>2 DEF DiskInv, DiskType
  <2> QED BY <2>1, <2>2
<1>3. Lawful'
  BY <1>2 DEF Lawful
<1> QED BY <1>1, <1>3 DEF DiskInv

\* Something below a directory is below one of its children.
LEMMA BelowAChild ==
  ASSUME DiskInv, NEW p \in Paths, NEW b \in Paths, Within(p, b), p # b, disk[b] # "absent"
  PROVE  \E c \in Children(p) : c \in Paths /\ Within(c, b)
<1>1. p \in Seq(STRING) /\ b \in Seq(STRING) /\ Len(p) \in Nat \ {0} /\ Len(b) \in Nat \ {0}
  BY PathType
<1>2. Len(p) =< Len(b) /\ \A i \in 1..Len(p) : p[i] = b[i]
  BY <1>1, WithinByNames
<1>3. Len(p) # Len(b)
  BY <1>1, SameNames
<1>4. Len(p) + 1 \in 1..Len(b)
  BY <1>1, <1>2, <1>3
<1>5. PICK c \in Paths : /\ Len(c) = Len(p) + 1 /\ \A i \in 1..(Len(p) + 1) : c[i] = b[i]
                         /\ Within(c, b)
  BY <1>4, PrefixIsPath
<1>6. /\ ParentOf(c) \in Seq(STRING) /\ Len(ParentOf(c)) = Len(c) - 1
      /\ \A i \in 1..(Len(c) - 1) : ParentOf(c)[i] = c[i]
  BY ParentNames
<1>7. Len(ParentOf(c)) = Len(p) /\ \A i \in 1..Len(p) : ParentOf(c)[i] = p[i]
  BY <1>1, <1>2, <1>5, <1>6
<1>8. ParentOf(c) = p
  BY <1>1, <1>6, <1>7, SeqEqual
<1>9. disk[c] # "absent"
  BY <1>5 DEF DiskInv, Lawful
<1> QED BY <1>5, <1>8, <1>9 DEF Children

LEMMA EmptyIsEmpty ==
  ASSUME DiskInv, NEW p \in Paths, Children(p) = {}, NEW b \in Paths, Within(p, b), p # b
  PROVE  disk[b] = "absent"
BY BelowAChild

LEMMA DeleteKeepsDisk ==
  ASSUME DiskInv, NEW p \in Paths, Children(p) = {},
         disk' = [disk EXCEPT ![p] = "absent"]
  PROVE  DiskInv'
<1>1. DiskType'
  BY DEF DiskInv, DiskType, Kinds
<1>2. ASSUME NEW a \in Paths, NEW b \in Paths, Within(a, b), a # b, disk'[b] # "absent"
      PROVE  disk'[a] = "dir"
  <2>1. disk[b] # "absent"
    BY <1>2 DEF DiskInv, DiskType
  <2>2. a # p
    BY <1>2, <2>1, EmptyIsEmpty
  <2>3. disk[a] = "dir"
    BY <1>2, <2>1 DEF DiskInv, Lawful
  <2> QED BY <2>2, <2>3 DEF DiskInv, DiskType
<1>3. Lawful'
  BY <1>2 DEF Lawful
<1> QED BY <1>1, <1>3 DEF DiskInv

-----------------------------------------------------------------------------
(* Renaming: where what is found below the new name comes from *)

Source(p, q, x) == p \o SubSeq(x, Len(q) + 1, Len(x))

LEMMA SourceNames ==
  ASSUME NEW p \in Seq(STRING), NEW q \in Seq(STRING), NEW x \in Seq(STRING), Within(q, x)
  PROVE  /\ Source(p, q, x) \in Seq(STRING)
         /\ Len(Source(p, q, x)) = Len(p) + Len(x) - Len(q)
         /\ \A i \in 1..Len(p) : Source(p, q, x)[i] = p[i]
         /\ \A i \in (Len(p) + 1)..(Len(p) + Len(x) - Len(q)) :
               Source(p, q, x)[i] = x[i - Len(p) + Len(q)]
<1> DEFINE t == SubSeq(x, Len(q) + 1, Len(x))
<1>1. Len(p) \in Nat /\ Len(q) \in Nat /\ Len(x) \in Nat /\ Len(q) =< Len(x)
  BY DEF Within
<1>2. \A i \in (Len(q) + 1)..Len(x) : x[i] \in STRING
  BY <1>1
<1>3. /\ t \in Seq(STRING) /\ Len(t) = Len(x) - Len(q)
      /\ \A i \in 1..(Len(x) - Len(q)) : t[i] = x[Len(q) + i]
  <2>1. /\ t \in Seq(STRING)
        /\ Len(t) = IF Len(q) + 1 =< Len(x) THEN Len(x) - (Len(q) + 1) + 1 ELSE 0
        /\ \A i \in 1..(Len(x) - (Len(q) + 1) + 1) : t[i] = x[Len(q) + 1 + i - 1]
    BY <1>1, <1>2, SubSeqProperties
  <2> HIDE DEF t
  <2> QED BY <1>1, <2>1
<1> HIDE DEF t
<1>4. /\ p \o t \in Seq(STRING) /\ Len(p \o t) = Len(p) + Len(t)
      /\ \A i \in 1..(Len(p) + Len(t)) :
            (p \o t)[i] = IF i =< Len(p) THEN p[i] ELSE t[i - Len(p)]
  BY <1>3, ConcatProperties
<1>5. Source(p, q, x) = p \o t
  BY DEF Source, t
<1>6. Len(p) + Len(t) = Len(p) + Len(x) - Len(q)
  BY <1>1, <1>3
<1>7. \A i \in 1..Len(p) : (p \o t)[i] = p[i]
  BY <1>1, <1>3, <1>4
<1>8. ASSUME NEW i \in (Len(p) + 1)..(Len(p) + Len(x) - Len(q))
      PROVE  (p \o t)[i] = x[i - Len(p) + Len(q)]
  <2>1. i - Len(p) \in 1..(Len(x) - Len(q)) /\ i \in 1..(Len(p) + Len(t)) /\ ~(i =< Len(p))
    BY <1>1, <1>3
  <2>2. (p \o t)[i] = t[i - Len(p)]
    BY <1>4, <2>1
  <2>3. t[i - Len(p)] = x[Len(q) + (i - Len(p))]
    BY <1>3, <2>1
  <2>4. Len(q) + (i - Len(p)) = i - Len(p) + Len(q)
    BY <1>1
  <2> QED BY <2>2, <2>3, <2>4
<1> QED BY <1>4, <1>5, <1>6, <1>7, <1>8

\* A directory is moved as a whole.
LEMMA SourceWithin ==
  ASSUME NEW p \in Seq(STRING), NEW q \in Seq(STRING), NEW a \in Seq(STRING),
         NEW b \in Seq(STRING), Within(q, a), Within(a, b)
  PROVE  Within(p, Source(p, q, a)) /\ Within(Source(p, q, a), Source(p, q, b))
<1> DEFINE s == Source(p, q, a)
           t == Source(p, q, b)
<1>0. Len(p) \in Nat /\ Len(q) \in Nat /\ Len(a) \in Nat /\ Len(b) \in Nat
  OBVIOUS
<1>1. Len(q) =< Len(a) /\ Len(a) =< Len(b) /\ \A i \in 1..Len(a) : a[i] = b[i]
  BY WithinByNames
<1>2. Within(q, b)
  BY WithinTransitive
<1>3. /\ s \in Seq(STRING) /\ Len(s) = Len(p) + Len(a) - Len(q)
      /\ \A i \in 1..Len(p) : s[i] = p[i]
      /\ \A i \in (Len(p) + 1)..(Len(p) + Len(a) - Len(q)) : s[i] = a[i - Len(p) + Len(q)]
  BY SourceNames, ZenonT(30)
<1>4. /\ t \in Seq(STRING) /\ Len(t) = Len(p) + Len(b) - Len(q)
      /\ \A i \in 1..Len(p) : t[i] = p[i]
      /\ \A i \in (Len(p) + 1)..(Len(p) + Len(b) - Len(q)) : t[i] = b[i - Len(p) + Len(q)]
  BY <1>2, SourceNames, ZenonT(30)
<1> HIDE DEF s, t
<1>5. Len(p) =< Len(s) /\ Len(s) =< Len(t)
  BY <1>0, <1>1, <1>3, <1>4
<1>6. ASSUME NEW i \in 1..Len(s) PROVE s[i] = t[i]
  <2>1. CASE i \in 1..Len(p)
    BY <2>1, <1>3, <1>4
  <2>2. CASE i \in (Len(p) + 1)..Len(s)
    <3>1. i - Len(p) + Len(q) \in 1..Len(a) /\ i \in (Len(p) + 1)..(Len(p) + Len(b) - Len(q))
      BY <2>2, <1>0, <1>1, <1>3
    <3> QED BY <2>2, <3>1, <1>1, <1>3, <1>4
  <2> QED BY <2>1, <2>2, <1>0, <1>3
<1>7. Within(p, s)
  BY <1>3, <1>5, WithinByNames
<1>8. Within(s, t)
  BY <1>3, <1>4, <1>5, <1>6, WithinByNames
<1> QED BY <1>7, <1>8 DEF s, t

\* handleRename: what is moved along is in the directories it was in.
LEMMA RenameKeepsDisk ==
  ASSUME DiskInv, NEW r \in Requested \cup Edits, r.op = "rename", r.path # r.to, Possible(r),
         disk' = Moved(r.path, r.to)
  PROVE  DiskInv'
<1> DEFINE p == r.path
           q == r.to
<1>1. p \in Paths /\ q \in Paths /\ p # q
  BY RequestType
<1>3. /\ disk[p] # "absent" /\ ParentIsDir(q)
      /\ \/ disk[p] = "dir" /\ disk[q] = "absent" /\ ~Within(p, q)
         \/ disk[p] = "file" /\ disk[q] # "dir"
  BY DEF Possible
<1>4. disk' = [x \in Paths |-> IF Within(q, x)
                               THEN IF Source(p, q, x) \in Paths THEN disk[Source(p, q, x)] ELSE "absent"
                               ELSE IF Within(p, x) THEN "absent" ELSE disk[x]]
  BY DEF Moved, Source
<1>5. \A x \in Paths : x \in Seq(STRING) /\ Len(x) \in Nat \ {0}
  BY PathType
<1> HIDE DEF p, q
<1>6. disk \in [Paths -> Kinds]
  BY DEF DiskInv, DiskType
<1>7. ~Within(p, q)
  <2>1. ASSUME Within(p, q) PROVE disk[p] = "dir"
    BY <2>1, <1>1, <1>3, ParentGuards
  <2> QED BY <1>3, <2>1
<1>8. DiskType'
  BY <1>4, <1>6 DEF DiskType, Kinds
<1>9. ASSUME NEW a \in Paths, NEW b \in Paths, Within(a, b), a # b, disk'[b] # "absent"
      PROVE  disk'[a] = "dir"
  <2>1. CASE Within(q, a)
    <3> DEFINE s == Source(p, q, a)
               t == Source(p, q, b)
    <3>1. Within(q, b)
      BY <2>1, <1>1, <1>5, <1>9, WithinTransitive
    <3>2. t \in Paths /\ disk'[b] = disk[t] /\ disk[t] # "absent"
      BY <3>1, <1>4, <1>9
    <3>3. s \in Seq(STRING) /\ Len(s) = Len(p) + Len(a) - Len(q)
      BY <2>1, <1>1, <1>5, SourceNames
    <3>4. Len(t) = Len(p) + Len(b) - Len(q)
      BY <3>1, <1>1, <1>5, SourceNames
    <3>5. Within(p, s) /\ Within(s, t)
      BY <2>1, <1>1, <1>5, <1>9, SourceWithin
    <3> HIDE DEF s, t
    <3>6. Len(a) # Len(b)
      BY <1>5, <1>9, SameNames
    <3>7. Len(s) # Len(t) /\ s # <<>>
      <4>1. Len(p) =< Len(s)
        BY <3>5 DEF Within
      <4> QED BY <3>3, <3>4, <3>6, <4>1, <1>1, <1>5
    <3>8. s \in Paths /\ s # t
      BY <3>2, <3>3, <3>5, <3>7, AboveIsPath
    <3>9. disk[s] = "dir"
      BY <3>2, <3>5, <3>8 DEF DiskInv, Lawful
    <3>10. disk'[a] = IF s \in Paths THEN disk[s] ELSE "absent"
      BY <2>1, <1>4 DEF s
    <3> QED BY <3>8, <3>9, <3>10
  <2>2. CASE ~Within(q, a) /\ Within(q, b)
    <3>1. Within(a, q) /\ a # q
      <4>1. Within(q, q)
        BY <1>1, <1>5, WithinByNames
      <4> QED BY <2>2, <4>1, <1>1, <1>5, <1>9, WithinLinear
    <3>2. disk[a] = "dir"
      BY <3>1, <1>1, <1>3, ParentGuards
    <3>3. ~Within(p, a)
      BY <3>1, <1>1, <1>5, <1>7, WithinTransitive
    <3> QED BY <2>2, <3>2, <3>3, <1>4
  <2>3. CASE ~Within(q, a) /\ ~Within(q, b)
    <3>1. ~Within(p, b) /\ disk[b] # "absent"
      BY <2>3, <1>4, <1>9
    <3>2. ~Within(p, a)
      BY <3>1, <1>1, <1>5, <1>9, WithinTransitive
    <3>3. disk[a] = "dir"
      BY <3>1, <1>9 DEF DiskInv, Lawful
    <3> QED BY <2>3, <3>2, <3>3, <1>4
  <2> QED BY <2>1, <2>2, <2>3
<1> QED BY <1>8, <1>9 DEF DiskInv, Lawful

LEMMA DiskUntouched ==
  ASSUME DiskInv, disk' = disk
  PROVE  DiskInv'
BY DEF DiskInv, DiskType, Lawful

LEMMA ChangeKeepsDisk ==
  ASSUME DiskInv, NEW r \in Requested \cup Edits, Possible(r), disk' = Change(r)
  PROVE  DiskInv'
<1>1. r.path \in Paths /\ r.op \in ReadLike \cup Mutating
  BY RequestType
<1>2. CASE r.op = "write"
  <2>1. ParentIsDir(r.path) /\ disk[r.path] # "dir" /\ disk' = [disk EXCEPT ![r.path] = "file"]
    BY <1>2 DEF Possible, Change
  <2> QED BY <1>1, <2>1, PutKeepsDisk
<1>3. CASE r.op = "mkdir"
  <2>1. ParentIsDir(r.path) /\ disk[r.path] # "dir" /\ disk' = [disk EXCEPT ![r.path] = "dir"]
    BY <1>3 DEF Possible, Change
  <2> QED BY <1>1, <2>1, PutKeepsDisk
<1>4. CASE r.op = "delete"
  <2>1. Children(r.path) = {} /\ disk' = [disk EXCEPT ![r.path] = "absent"]
    BY <1>4 DEF Possible, Change
  <2> QED BY <1>1, <2>1, DeleteKeepsDisk
<1>5. CASE r.op = "rename" /\ r.path # r.to
  <2>1. disk' = Moved(r.path, r.to)
    BY <1>5 DEF Change
  <2> QED BY <1>5, <2>1, RenameKeepsDisk
<1>6. CASE r.op \in ReadLike \cup {"truncate"} \/ (r.op = "rename" /\ r.path = r.to)
  <2>1. disk' = disk
    BY <1>6 DEF Change, ReadLike
  <2> QED BY <2>1, DiskUntouched
<1> QED BY <1>1, <1>2, <1>3, <1>4, <1>5, <1>6 DEF Mutating

\* What a request other than a rename can change is what it names.
LEMMA ChangesItsPath ==
  ASSUME DiskInv, NEW r \in Requested, r.op # "rename", NEW p \in Paths, p # r.path
  PROVE  Change(r)[p] = disk[p]
BY RequestType DEF Change, DiskInv, DiskType

\* What there is at the new name of a rename, or below it, is not covered up: there is
\* nothing, or the one file that is replaced.
LEMMA NothingCovered ==
  ASSUME DiskInv, NEW r \in Requested, r.op = "rename", Possible(r), NEW p \in Paths,
         p # r.to, disk[p] # "absent", ~Within(r.path, p)
  PROVE  Change(r)[p] = disk[p]
<1>1. r.path \in Paths /\ r.to \in Paths
  BY RequestType
<1>2. CASE r.path = r.to
  BY <1>2 DEF Change
<1>3. CASE r.path # r.to
  <2>1. disk[r.to] # "dir"
    BY <1>3 DEF Possible
  <2>2. ~Within(r.to, p)
    BY <1>1, <2>1 DEF DiskInv, Lawful
  <2>3. Change(r) = Moved(r.path, r.to)
    BY <1>3 DEF Change
  <2> QED BY <2>2, <2>3 DEF Moved
<1> QED BY <1>2, <1>3

-----------------------------------------------------------------------------
(* The walk of hasSensitiveDescendant *)

WalkType ==
  /\ walk \in [Handlers -> SUBSET [path : Paths, kind : Kinds]]
  /\ touched \in [Handlers -> BOOLEAN]

\* While nothing has changed within the directory to be renamed, what the walk has listed
\* is as it was listed, and covers everything sensitive there: once it is empty
\* there is nothing.
Pending(h) ==
  /\ step[h] # "walk" => walk[h] = {}
  /\ (UnderWay(h) /\ ~touched[h]) =>
       /\ \A e \in walk[h] : Within(req[h].path, e.path) /\ disk[e.path] = e.kind
       /\ \A x \in Paths : (Within(req[h].path, x) /\ Match(x) /\ disk[x] # "absent") =>
            \E e \in walk[h] : Within(e.path, x)

WalkInv == WalkType /\ \A h \in Handlers : Pending(h)

LEMMA PendingUntouched ==
  ASSUME NEW g \in Handlers, Pending(g), disk' = disk, req'[g] = req[g], step'[g] = step[g],
         walk'[g] = walk[g], touched'[g] = touched[g]
  PROVE  Pending(g)'
<1>1. UnderWay(g)' = UnderWay(g)
  BY DEF UnderWay
<1> QED BY <1>1 DEF Pending

LEMMA PendingDone ==
  ASSUME NEW g \in Handlers, step'[g] \notin {"walk", "locking"}, walk'[g] = {}
  PROVE  Pending(g)'
BY DEF Pending, UnderWay

\* A change elsewhere on the disk does not matter, and one within the directory is noted.
LEMMA PendingOvertaken ==
  ASSUME NEW g \in Handlers, Pending(g), WalkType, NEW r, ChangeDisk(r),
         req'[g] = req[g], step'[g] = step[g], walk'[g] = walk[g]
  PROVE  Pending(g)'
<1>1. UnderWay(g)' = UnderWay(g)
  BY DEF UnderWay
<1>2. ASSUME UnderWay(g), ~touched'[g]
      PROVE  ~touched[g] /\ \A x \in Paths : Within(req[g].path, x) => disk'[x] = disk[x]
  BY <1>2, Zenon DEF ChangeDisk
<1>3. ASSUME UnderWay(g), ~touched'[g]
      PROVE  /\ \A e \in walk'[g] : Within(req'[g].path, e.path) /\ disk'[e.path] = e.kind
             /\ \A x \in Paths : (Within(req'[g].path, x) /\ Match(x) /\ disk'[x] # "absent") =>
                  \E e \in walk'[g] : Within(e.path, x)
  <2>1. ~touched[g] /\ \A x \in Paths : Within(req[g].path, x) => disk'[x] = disk[x]
    BY <1>2, <1>3
  <2>2. /\ \A e \in walk[g] : Within(req[g].path, e.path) /\ disk[e.path] = e.kind
        /\ \A x \in Paths : (Within(req[g].path, x) /\ Match(x) /\ disk[x] # "absent") =>
             \E e \in walk[g] : Within(e.path, x)
    BY <1>3, <2>1 DEF Pending
  <2>3. \A e \in walk[g] : e.path \in Paths
    BY DEF WalkType
  <2> QED BY <2>1, <2>2, <2>3
<1> QED BY <1>1, <1>3 DEF Pending

-----------------------------------------------------------------------------
(* The handlers *)

\* Where a handler is in Handle, and where in its locks.
StepInv ==
  /\ step \in [Handlers -> {"idle", "audit", "look", "walk", "locking", "stat", "unlocking"}]
  /\ \A h \in Handlers :
       /\ step[h] \in {"idle", "audit", "look", "walk"} => place[h] = "out"
       /\ step[h] = "locking" => place[h] \in {"count", "wait", "in"}
       /\ step[h] = "stat" => place[h] = "in"
       /\ step[h] = "unlocking" => place[h] \in {"unlock", "countOut", "out"}

\* What a handler works on, and what it will show.
WorkInv ==
  /\ req \in [Handlers -> Requested \cup {Request("stat", Root, Root)}]
  /\ shown \in [Handlers -> SUBSET Paths]
  /\ \A h \in Handlers :
       /\ step[h] \in {"look", "walk", "locking", "stat"} => Admitted(req[h])
       /\ \A p \in shown[h] : ~Match(p)

Inv == LockInv /\ AuditInv /\ DiskInv /\ StepInv /\ WorkInv /\ WalkInv

LEMMA InitInv == Init => Inv
<1>1. Init => LockInv /\ AuditInv /\ DiskInv
  BY InitLockInv, InitAuditInv, InitDiskInv DEF Init
<1>2. Init => StepInv /\ WorkInv
  BY DEF Init, LockerInit, StepInv, WorkInv
<1>3. Init => WalkInv
  BY DEF Init, WalkInv, WalkType, Pending, UnderWay, Request
<1> QED BY <1>1, <1>2, <1>3 DEF Inv

\* A step of one call leaves those of the others alone.
LEMMA OthersPending ==
  ASSUME Inv, NEW h \in Handlers, disk' = disk,
         \A g \in Handlers \ {h} : /\ req'[g] = req[g] /\ step'[g] = step[g]
                                   /\ walk'[g] = walk[g] /\ touched'[g] = touched[g]
  PROVE  \A g \in Handlers \ {h} : Pending(g)'
<1>1. \A g \in Handlers : Pending(g)
  BY DEF Inv, WalkInv
<1> QED BY <1>1, PendingUntouched

\* What a rename begins with is all there is to examine.
LEMMA WalkBegins ==
  ASSUME DiskInv, NEW r \in Requested, Admitted(r), r.op = "rename", NEW x \in Paths,
         Within(r.path, x), Match(x), disk[x] # "absent"
  PROVE  \E e \in ToExamine(r) : Within(e.path, x)
<1>1. r.path \in Paths /\ r.path # x
  BY RequestType DEF Admitted
<1>2. disk[r.path] = "dir"
  BY <1>1 DEF DiskInv, Lawful
<1> DEFINE e == Entry(r.path)
<1>3. e.path = r.path /\ e.kind = "dir"
  BY <1>2 DEF Entry
<1>4. e \in ToExamine(r)
  BY <1>3 DEF ToExamine
<1> QED BY <1>3, <1>4

LEMMA ReceiveKeepsInv ==
  ASSUME Inv, NEW h \in Handlers, Receive(h)
  PROVE  Inv'
<1>1. step[h] = "idle" /\ place[h] = "out" /\ UNCHANGED <<auditVars, disk, touched, shown>>
  BY DEF Inv, StepInv, Receive, diskVars
<1>2. AuditInv' /\ DiskInv'
  BY <1>1, AuditUntouched, DiskUntouched DEF Inv
<1>3. PICK r \in Requested :
        \/ /\ Blocked(r)
           /\ Goto(h, "audit") /\ UNCHANGED <<req, walk, lockVars>>
        \/ /\ ~Blocked(r) /\ r.op \in ReadLike
           /\ req' = [req EXCEPT ![h] = r]
           /\ Goto(h, "look") /\ UNCHANGED <<walk, lockVars>>
        \/ /\ ~Blocked(r) /\ r.op \in Mutating
           /\ req' = [req EXCEPT ![h] = r]
           /\ walk' = [walk EXCEPT ![h] = ToExamine(r)]
           /\ IF ToExamine(r) = {} THEN Goto(h, "locking") /\ LockMany(h, r.path, r.to)
                                  ELSE Goto(h, "walk") /\ UNCHANGED lockVars
  BY DEF Receive
<1>4. ~Blocked(r) => Admitted(r)
  BY DEF Admitted, Blocked
<1>20. walk[h] = {} /\ WalkType
  BY <1>1 DEF Inv, WalkInv, Pending
<1>21. r.path \in Paths /\ r.to \in Paths
  BY RequestType
<1>5. CASE Goto(h, "audit") /\ UNCHANGED <<req, walk, lockVars>>
  <2>1. LockInv'
    BY <1>5, LocksUntouched DEF Inv
  <2>2. StepInv' /\ WorkInv'
    BY <1>1, <1>5 DEF Inv, StepInv, WorkInv, Goto, lockVars
  <2>3. \A g \in Handlers \ {h} : Pending(g)'
    BY <1>1, <1>5, OthersPending DEF Inv, StepInv, Goto
  <2>4. Pending(h)'
    BY <1>5, <1>20, PendingDone DEF Inv, StepInv, Goto
  <2>5. WalkType'
    BY <1>1, <1>5, <1>20 DEF WalkType
  <2> QED BY <1>2, <2>1, <2>2, <2>3, <2>4, <2>5 DEF Inv, WalkInv
<1>6. CASE ~Blocked(r) /\ req' = [req EXCEPT ![h] = r] /\ Goto(h, "look")
           /\ UNCHANGED <<walk, lockVars>>
  <2>1. LockInv'
    BY <1>6, LocksUntouched DEF Inv
  <2>2. StepInv'
    BY <1>1, <1>6 DEF Inv, StepInv, Goto, lockVars
  <2>3. req' \in [Handlers -> Requested \cup {Request("stat", Root, Root)}]
    BY <1>6 DEF Inv, WorkInv
  <2>4. \A g \in Handlers : step'[g] \in {"look", "walk", "locking", "stat"} => Admitted(req'[g])
    BY <1>4, <1>6 DEF Inv, StepInv, WorkInv, Goto
  <2>5. WorkInv'
    BY <1>1, <2>3, <2>4 DEF Inv, WorkInv
  <2>6. \A g \in Handlers \ {h} : Pending(g)'
    BY <1>1, <1>6, OthersPending DEF Inv, StepInv, WorkInv, Goto
  <2>7. Pending(h)'
    BY <1>6, <1>20, PendingDone DEF Inv, StepInv, Goto
  <2>8. WalkType'
    BY <1>1, <1>6, <1>20 DEF WalkType
  <2> QED BY <1>2, <2>1, <2>2, <2>5, <2>6, <2>7, <2>8 DEF Inv, WalkInv
<1>7. CASE /\ ~Blocked(r) /\ req' = [req EXCEPT ![h] = r]
           /\ walk' = [walk EXCEPT ![h] = ToExamine(r)]
           /\ IF ToExamine(r) = {} THEN Goto(h, "locking") /\ LockMany(h, r.path, r.to)
                                  ELSE Goto(h, "walk") /\ UNCHANGED lockVars
  <2>0. PICK to \in {"walk", "locking"} :
             step' = [step EXCEPT ![h] = to] /\ (to = "locking" => ToExamine(r) = {})
    BY <1>7 DEF Goto
  <2>1. LockInv'
    BY <1>1, <1>7, <1>21, LockManyKeepsInv, LocksUntouched DEF Inv, Paths
  <2>2. StepInv'
    BY <1>1, <1>7 DEF Inv, LockInv, LockTypes, StepInv, Goto, LockMany, lockVars
  <2>3. req' \in [Handlers -> Requested \cup {Request("stat", Root, Root)}]
    BY <1>7 DEF Inv, WorkInv
  <2>4. \A g \in Handlers : step'[g] \in {"look", "walk", "locking", "stat"} => Admitted(req'[g])
    BY <1>4, <1>7, <2>0 DEF Inv, StepInv, WorkInv
  <2>5. WorkInv'
    BY <1>1, <2>3, <2>4 DEF Inv, WorkInv
  <2>6. \A g \in Handlers \ {h} : Pending(g)'
    BY <1>1, <1>7, <1>20, <2>0, OthersPending DEF Inv, StepInv, WorkInv, WalkType
  <2>7. /\ req'[h] = r /\ walk'[h] = ToExamine(r) /\ step'[h] = to
    BY <1>7, <1>20, <2>0 DEF Inv, StepInv, WorkInv, WalkType
  <2>8. \A e \in ToExamine(r) : e = Entry(r.path) /\ e.path = r.path /\ disk[e.path] = e.kind
    BY DEF ToExamine, Entry
  <2>9. ToExamine(r) \in SUBSET [path : Paths, kind : Kinds]
    BY <1>21 DEF ToExamine, Entry, Inv, DiskInv, DiskType
  <2>10. Within(r.path, r.path)
    BY <1>21, PathType, WithinByNames
  <2>11. Pending(h)'
    <3>1. step'[h] # "walk" => walk'[h] = {}
      BY <2>0, <2>7
    <3>2. \A e \in walk'[h] : Within(req'[h].path, e.path) /\ disk'[e.path] = e.kind
      BY <1>1, <2>7, <2>8, <2>10
    <3>3. ASSUME UnderWay(h)', NEW x \in Paths, Within(req'[h].path, x), Match(x), disk'[x] # "absent"
          PROVE  \E e \in walk'[h] : Within(e.path, x)
      <4>1. r.op = "rename" /\ Within(r.path, x) /\ disk[x] # "absent"
        BY <1>1, <2>7, <3>3 DEF UnderWay
      <4> QED BY <1>4, <1>7, <2>7, <3>3, <4>1, WalkBegins DEF Inv
    <3> QED BY <3>1, <3>2, <3>3 DEF Pending
  <2>12. WalkType'
    BY <1>1, <1>7, <1>20, <2>9 DEF WalkType
  <2> QED BY <1>2, <2>1, <2>2, <2>5, <2>6, <2>11, <2>12 DEF Inv, WalkInv
<1> QED BY <1>3, <1>5, <1>6, <1>7

\* The sensitive things in a directory that has been read are in what it was read to hold.
LEMMA ExamineKeepsInv ==
  ASSUME Inv, NEW h \in Handlers, Examine(h)
  PROVE  Inv'
<1>1. /\ step[h] = "walk" /\ UNCHANGED <<lockVars, auditVars, disk, touched, req, shown>>
  BY DEF Examine, diskVars
<1>2. LockInv' /\ AuditInv' /\ DiskInv'
  BY <1>1, LocksUntouched, AuditUntouched, DiskUntouched DEF Inv
<1>3. PICK e \in walk[h] :
        \/ /\ Goto(h, "audit")
           /\ walk' = [walk EXCEPT ![h] = {}]
        \/ /\ ~Match(e.path)
           /\ e.kind = "dir" => disk[e.path] = "dir"
           /\ walk' = [walk EXCEPT ![h] = (@ \ {e}) \cup
                         {Entry(q) : q \in {q \in Children(e.path) : e.kind = "dir"}}]
           /\ UNCHANGED step
  BY DEF Examine
<1>4. WalkType /\ Pending(h)
  BY DEF Inv, WalkInv
<1>5. CASE Goto(h, "audit") /\ walk' = [walk EXCEPT ![h] = {}]
  <2>1. StepInv' /\ WorkInv'
    BY <1>1, <1>5 DEF Inv, StepInv, WorkInv, Goto, lockVars
  <2>2. \A g \in Handlers \ {h} : Pending(g)'
    BY <1>1, <1>4, <1>5, OthersPending DEF Inv, StepInv, Goto, WalkType
  <2>3. Pending(h)'
    BY <1>4, <1>5, PendingDone DEF Inv, StepInv, Goto, WalkType
  <2>4. WalkType'
    BY <1>1, <1>4, <1>5 DEF WalkType
  <2> QED BY <1>2, <2>1, <2>2, <2>3, <2>4 DEF Inv, WalkInv
<1>6. CASE /\ ~Match(e.path)
           /\ e.kind = "dir" => disk[e.path] = "dir"
           /\ walk' = [walk EXCEPT ![h] = (@ \ {e}) \cup
                         {Entry(q) : q \in {q \in Children(e.path) : e.kind = "dir"}}]
           /\ UNCHANGED step
  <2> DEFINE found == {Entry(q) : q \in {q \in Children(e.path) : e.kind = "dir"}}
  <2>1. StepInv' /\ WorkInv'
    BY <1>1, <1>6 DEF Inv, StepInv, WorkInv, lockVars
  <2>2. \A g \in Handlers \ {h} : Pending(g)'
    BY <1>1, <1>4, <1>6, OthersPending DEF WalkType
  <2>3. e.path \in Paths /\ walk'[h] = (walk[h] \ {e}) \cup found
    BY <1>4, <1>6 DEF WalkType
  <2>4. found \in SUBSET [path : Paths, kind : Kinds]
    BY DEF Entry, Children, Inv, DiskInv, DiskType
  <2>5. WalkType'
    BY <1>1, <1>4, <1>6, <2>4 DEF WalkType
  <2>6. \A q \in Children(e.path) : e.kind = "dir" => Entry(q) \in found
    OBVIOUS
  <2>7. \A d \in found : \E q \in Children(e.path) : d.path = q /\ d.kind = disk[q]
    BY DEF Entry
  <2> HIDE DEF found
  <2>8. Pending(h)'
    <3>1. SUFFICES ASSUME UnderWay(h)', ~touched'[h]
                   PROVE  /\ \A d \in walk'[h] : Within(req'[h].path, d.path) /\ disk'[d.path] = d.kind
                          /\ \A x \in Paths :
                               (Within(req'[h].path, x) /\ Match(x) /\ disk'[x] # "absent") =>
                                  \E d \in walk'[h] : Within(d.path, x)
      BY <1>1, <1>6 DEF Pending
    <3>2. UnderWay(h) /\ ~touched[h]
      BY <1>1, <1>6, <3>1 DEF UnderWay
    <3>3. /\ \A d \in walk[h] : Within(req[h].path, d.path) /\ disk[d.path] = d.kind
          /\ \A x \in Paths : (Within(req[h].path, x) /\ Match(x) /\ disk[x] # "absent") =>
               \E d \in walk[h] : Within(d.path, x)
      BY <1>4, <3>2 DEF Pending
    <3>4. req[h].path \in Paths
      BY <1>1, RequestType DEF Inv, WorkInv, Admitted
    <3>5. ASSUME NEW q \in Children(e.path) PROVE Within(req[h].path, q) /\ q \in Paths
      <4>1. q \in Paths /\ ParentOf(q) = e.path
        BY <3>5 DEF Children
      <4>2. Within(e.path, q)
        BY <4>1, ParentNames
      <4>3. q \in Seq(STRING) /\ e.path \in Seq(STRING) /\ req[h].path \in Seq(STRING)
        BY <2>3, <3>4, <4>1, PathType
      <4> QED BY <3>3, <4>1, <4>2, <4>3, WithinTransitive
    <3>6. \A d \in walk'[h] : Within(req[h].path, d.path) /\ disk[d.path] = d.kind
      BY <2>3, <2>7, <3>3, <3>5
    <3>7. ASSUME NEW x \in Paths, Within(req[h].path, x), Match(x), disk[x] # "absent"
          PROVE  \E d \in walk'[h] : Within(d.path, x)
      <4>1. PICK d \in walk[h] : Within(d.path, x)
        BY <3>3, <3>7
      <4>2. CASE d # e
        BY <2>3, <4>1, <4>2
      <4>3. CASE d = e
        <5>1. Within(e.path, x) /\ e.path # x
          BY <1>6, <3>7, <4>1, <4>3
        <5>2. e.kind = "dir"
          BY <2>3, <3>3, <3>7, <5>1 DEF Inv, DiskInv, Lawful
        <5>3. PICK c \in Children(e.path) : c \in Paths /\ Within(c, x)
          BY <2>3, <3>7, <5>1, BelowAChild DEF Inv
        <5>4. Entry(c) \in walk'[h] /\ Entry(c).path = c
          BY <2>3, <2>6, <5>2, <5>3 DEF Entry
        <5> QED BY <5>3, <5>4
      <4> QED BY <4>2, <4>3
    <3> QED BY <1>1, <3>6, <3>7
  <2> QED BY <1>2, <2>1, <2>2, <2>5, <2>8 DEF Inv, WalkInv
<1> QED BY <1>3, <1>5, <1>6

\* The walk is over, or the directory has been touched.
LEMMA TakeLocksKeepsInv ==
  ASSUME Inv, NEW h \in Handlers, TakeLocks(h)
  PROVE  Inv'
<1>1. /\ step[h] = "walk" /\ place[h] = "out" /\ Goto(h, "locking")
      /\ LockMany(h, req[h].path, req[h].to)
      /\ walk' = [walk EXCEPT ![h] = {}]
      /\ UNCHANGED <<auditVars, disk, touched, req, shown>>
  BY DEF TakeLocks, diskVars, Inv, StepInv
<1>2. AuditInv' /\ DiskInv'
  BY <1>1, AuditUntouched, DiskUntouched DEF Inv
<1>3. Admitted(req[h]) /\ WalkType /\ Pending(h)
  BY <1>1 DEF Inv, WorkInv, WalkInv
<1>4. req[h].path \in Paths /\ req[h].to \in Paths
  BY <1>3, RequestType DEF Admitted
<1>5. LockInv'
  BY <1>1, <1>4, LockManyKeepsInv DEF Inv, Paths
<1>6. StepInv'
  BY <1>1 DEF Inv, LockInv, LockTypes, StepInv, Goto, LockMany
<1>7. WorkInv'
  BY <1>1, <1>3 DEF Inv, StepInv, WorkInv, Goto
<1>8. \A g \in Handlers \ {h} : Pending(g)'
  BY <1>1, <1>3, OthersPending DEF Inv, StepInv, Goto, WalkType
<1>9. WalkType'
  BY <1>1, <1>3 DEF WalkType
<1>10. walk'[h] = {} /\ step'[h] = "locking"
  BY <1>1, <1>3 DEF Inv, StepInv, Goto, WalkType
<1>11. Pending(h)'
  <2>1. SUFFICES ASSUME UnderWay(h)', ~touched'[h], NEW x \in Paths, Within(req'[h].path, x),
                        Match(x), disk'[x] # "absent"
                 PROVE  FALSE
    BY <1>10 DEF Pending
  <2>2. UnderWay(h) /\ ~touched[h]
    BY <1>1, <2>1 DEF UnderWay
  <2>3. /\ \A e \in walk[h] : disk[e.path] = e.kind
        /\ \E e \in walk[h] : Within(e.path, x)
    BY <1>1, <1>3, <2>1, <2>2 DEF Pending
  <2>4. walk[h] = {} \/ \E e \in walk[h] : e.kind = "dir" /\ disk[e.path] = "absent"
    BY DEF TakeLocks
  <2> QED BY <2>3, <2>4
<1> QED BY <1>2, <1>5, <1>6, <1>7, <1>8, <1>9, <1>11 DEF Inv, WalkInv

\* A step out of what is under way, or of what was not.
LEMMA StepIntoDone ==
  ASSUME Inv, NEW h \in Handlers, UNCHANGED <<disk, touched, req, walk>>, step[h] # "walk",
         NEW to, to \notin {"walk", "locking"}, Goto(h, to)
  PROVE  WalkInv'
<1>1. \A g \in Handlers \ {h} : Pending(g)'
  BY OthersPending DEF Inv, StepInv, Goto
<1>2. walk[h] = {} /\ WalkType
  BY DEF Inv, WalkInv, Pending
<1>3. Pending(h)'
  BY <1>2, PendingDone DEF Inv, StepInv, Goto
<1>4. WalkType'
  BY <1>2 DEF WalkType
<1> QED BY <1>1, <1>3, <1>4 DEF WalkInv

LEMMA LookKeepsInv ==
  ASSUME Inv, NEW h \in Handlers, Look(h)
  PROVE  Inv'
<1>1. /\ step[h] = "look" /\ Goto(h, "audit")
      /\ UNCHANGED <<lockVars, auditVars, disk, touched, req, walk>>
  BY DEF Look, diskVars
<1>2. LockInv' /\ AuditInv' /\ DiskInv'
  BY <1>1, LocksUntouched, AuditUntouched, DiskUntouched DEF Inv
<1>3. StepInv'
  BY <1>1 DEF Inv, StepInv, Goto, lockVars
<1>4. Admitted(req[h])
  BY <1>1 DEF Inv, WorkInv
<1>5. req[h].path \in Paths /\ ~Match(req[h].path)
  BY <1>4, RequestType DEF Admitted
<1> DEFINE seen == IF ~Possible(req[h]) THEN {}
                   ELSE IF req[h].op = "list_dir" THEN {q \in Children(req[h].path) : ~Match(q)}
                   ELSE {req[h].path}
<1>6. shown' = [shown EXCEPT ![h] = seen]
  BY DEF Look, Show
<1>7. seen \in SUBSET Paths /\ \A p \in seen : ~Match(p)
  BY <1>5 DEF Children
<1> HIDE DEF seen
<1>8. WorkInv'
  BY <1>1, <1>6, <1>7 DEF Inv, StepInv, WorkInv, Goto
<1>9. WalkInv'
  BY <1>1, StepIntoDone
<1> QED BY <1>2, <1>3, <1>8, <1>9 DEF Inv

LEMMA ActKeepsInv ==
  ASSUME Inv, NEW h \in Handlers, Act(h)
  PROVE  Inv'
<1>1. /\ step[h] = "locking" /\ place[h] = "in"
      /\ UNCHANGED <<locks, refCount, owner, todo, taken, auditVars, req, walk, shown>>
  BY DEF Act
<1>2. AuditInv'
  BY <1>1, AuditUntouched DEF Inv
<1>3. CASE Possible(req[h])
  <2>1. ChangeDisk(req[h]) /\ disk' = Change(req[h]) /\ Goto(h, "stat") /\ place' = place
    BY <1>3 DEF Act, ChangeDisk
  <2>2. Admitted(req[h])
    BY <1>1 DEF Inv, WorkInv
  <2>3. DiskInv'
    BY <1>3, <2>1, <2>2, ChangeKeepsDisk DEF Inv, Admitted
  <2>4. LockInv'
    BY <1>1, <2>1, LocksUntouched DEF Inv, lockVars
  <2>5. StepInv' /\ WorkInv'
    BY <1>1, <2>1 DEF Inv, StepInv, WorkInv, Goto
  <2>6. WalkType /\ WalkType' /\ walk[h] = {} /\ \A g \in Handlers : Pending(g)
    <3>1. WalkType /\ \A g \in Handlers : Pending(g)
      BY DEF Inv, WalkInv
    <3>2. touched' \in [Handlers -> BOOLEAN]
      BY <2>1, Zenon DEF ChangeDisk
    <3> QED BY <1>1, <3>1, <3>2 DEF WalkType, Pending
  <2>7. Pending(h)'
    BY <1>1, <2>1, <2>6, PendingDone DEF Inv, StepInv, Goto
  <2>8. ASSUME NEW g \in Handlers \ {h} PROVE Pending(g)'
    <3>1. step'[g] = step[g] /\ req'[g] = req[g] /\ walk'[g] = walk[g]
      BY <1>1, <2>1 DEF Inv, StepInv, Goto
    <3> QED BY <2>1, <2>6, <3>1, PendingOvertaken
  <2> QED BY <1>2, <2>3, <2>4, <2>5, <2>6, <2>7, <2>8 DEF Inv, WalkInv
<1>4. CASE ~Possible(req[h])
  <2>1. disk' = disk /\ touched' = touched /\ Goto(h, "unlocking") /\ place' = [place EXCEPT ![h] = "unlock"]
    BY <1>4 DEF Act
  <2>2. LockInv'
    BY <1>1, <2>1, ReleaseKeepsInv DEF Inv
  <2>3. StepInv'
    BY <1>1, <2>1 DEF Inv, LockInv, LockTypes, StepInv, Goto
  <2>4. WorkInv'
    BY <1>1, <2>1 DEF Inv, StepInv, WorkInv, Goto
  <2>5. WalkInv'
    BY <1>1, <2>1, StepIntoDone
  <2> QED BY <1>2, <2>1, <2>2, <2>3, <2>4, <2>5, DiskUntouched DEF Inv
<1> QED BY <1>3, <1>4

LEMMA StatKeepsInv ==
  ASSUME Inv, NEW h \in Handlers, Stat(h)
  PROVE  Inv'
<1>1. /\ step[h] = "stat" /\ Goto(h, "unlocking") /\ place' = [place EXCEPT ![h] = "unlock"]
      /\ UNCHANGED <<locks, refCount, owner, todo, taken, auditVars, disk, touched, req, walk>>
  BY DEF Stat, diskVars
<1>2. place[h] = "in" /\ Admitted(req[h])
  BY <1>1 DEF Inv, StepInv, WorkInv
<1>3. LockInv' /\ AuditInv' /\ DiskInv'
  BY <1>1, <1>2, ReleaseKeepsInv, AuditUntouched, DiskUntouched DEF Inv
<1>4. StepInv'
  BY <1>1 DEF Inv, LockInv, LockTypes, StepInv, Goto
<1> DEFINE seen == IF disk[req[h].to] = "absent" THEN {} ELSE {req[h].to}
<1>5. shown' = [shown EXCEPT ![h] = seen]
  BY DEF Stat, Show
<1>6. seen \in SUBSET Paths /\ \A p \in seen : ~Match(p)
  BY <1>2, RequestType DEF Admitted
<1> HIDE DEF seen
<1>7. WorkInv'
  BY <1>1, <1>5, <1>6 DEF Inv, StepInv, WorkInv, Goto
<1>8. WalkInv'
  BY <1>1, StepIntoDone
<1> QED BY <1>3, <1>4, <1>7, <1>8 DEF Inv

LEMMA AuditRequestKeepsInv ==
  ASSUME Inv, NEW h \in Handlers, AuditRequest(h)
  PROVE  Inv'
<1>1. /\ place[h] = "out" /\ Record(h) /\ Goto(h, "idle") /\ UNCHANGED <<lockVars, disk, walk>>
      /\ step[h] # "walk"
      /\ shown' = [shown EXCEPT ![h] = {}]
      /\ touched' = [touched EXCEPT ![h] = FALSE]
      /\ req' = [req EXCEPT ![h] = Request("stat", Root, Root)]
  BY DEF AuditRequest, Inv, StepInv, Show
<1>2. LockInv' /\ AuditInv' /\ DiskInv'
  BY <1>1, LocksUntouched, RecordKeepsInv, DiskUntouched DEF Inv
<1>3. StepInv'
  BY <1>1 DEF Inv, StepInv, Goto, lockVars
<1>4. WorkInv'
  BY <1>1 DEF Inv, StepInv, WorkInv, Goto
<1>5. WalkType /\ walk[h] = {}
  BY <1>1 DEF Inv, WalkInv, Pending
<1>6. touched' \in [Handlers -> BOOLEAN] /\ \A g \in Handlers \ {h} : touched'[g] = touched[g]
  BY <1>1, <1>5, Zenon DEF WalkType
<1>7. WalkType'
  BY <1>1, <1>5, <1>6 DEF WalkType
<1>8. \A g \in Handlers \ {h} : Pending(g)'
  BY <1>1, <1>6, OthersPending DEF Inv, StepInv, WorkInv, Goto
<1>9. Pending(h)'
  BY <1>1, <1>5, PendingDone DEF Inv, StepInv, Goto
<1> QED BY <1>2, <1>3, <1>4, <1>7, <1>8, <1>9 DEF Inv, WalkInv

LEMMA WalkUntouched ==
  ASSUME WalkInv, UNCHANGED <<disk, touched, req, step, walk>>
  PROVE  WalkInv'
BY PendingUntouched DEF WalkInv, WalkType

LEMMA OwnerEditKeepsInv ==
  ASSUME Inv, OwnerEdit
  PROVE  Inv'
<1>1. UNCHANGED <<lockVars, auditVars, req, step, walk, shown>>
  BY DEF OwnerEdit, callVars
<1>2. PICK r \in Edits : Possible(r) /\ ChangeDisk(r)
  BY DEF OwnerEdit
<1>3. LockInv' /\ AuditInv'
  BY <1>1, LocksUntouched, AuditUntouched DEF Inv
<1>4. DiskInv'
  BY <1>2, ChangeKeepsDisk DEF Inv, ChangeDisk
<1>5. StepInv' /\ WorkInv'
  BY <1>1 DEF Inv, StepInv, WorkInv, lockVars
<1>6. touched' \in [Handlers -> BOOLEAN]
  BY <1>2, Zenon DEF ChangeDisk
<1>7. WalkType' /\ \A g \in Handlers : Pending(g)'
  BY <1>1, <1>2, <1>6, PendingOvertaken DEF Inv, WalkInv, WalkType
<1> QED BY <1>3, <1>4, <1>5, <1>7 DEF Inv, WalkInv

LEMMA LockingKeepsInv ==
  ASSUME Inv, NEW h \in Handlers, Locking(h)
  PROVE  Inv'
<1>1. LockStep(h) /\ UNCHANGED <<auditVars, disk, touched, req, step, walk, shown>>
  BY DEF Locking, callVars, diskVars
<1>2. LockInv'
  BY <1>1, CountInKeepsInv, AcquireKeepsInv, UnlockKeepsInv, CountOutKeepsInv DEF Inv, LockStep
<1>3. AuditInv' /\ DiskInv'
  BY <1>1, AuditUntouched, DiskUntouched DEF Inv
<1>4. PICK to : /\ place' = [place EXCEPT ![h] = to]
                /\ \/ place[h] \in {"count", "wait"} /\ to \in {"count", "wait", "in"}
                   \/ place[h] \in {"unlock", "countOut"} /\ to \in {"unlock", "countOut", "out"}
  <2>1. CASE CountIn(h)
    BY <2>1 DEF CountIn
  <2>2. CASE Acquire(h)
    BY <2>2 DEF Acquire
  <2>3. CASE Unlock(h)
    BY <2>3 DEF Unlock
  <2>4. CASE CountOut(h)
    BY <2>4 DEF CountOut
  <2> QED BY <1>1, <2>1, <2>2, <2>3, <2>4 DEF LockStep
<1>5. StepInv'
  BY <1>1, <1>4 DEF Inv, LockInv, LockTypes, StepInv
<1>6. WorkInv'
  BY <1>1 DEF Inv, WorkInv
<1> QED BY <1>1, <1>2, <1>3, <1>5, <1>6, WalkUntouched DEF Inv

LEMMA AuditingKeepsInv ==
  ASSUME Inv, Auditing
  PROVE  Inv'
<1>1. AuditStep /\ UNCHANGED <<lockVars, disk, touched, req, step, walk, shown>>
  BY DEF Auditing, callVars, diskVars
<1>2. LockInv' /\ AuditInv' /\ DiskInv'
  BY <1>1, LocksUntouched, AuditStepKeepsInv, DiskUntouched DEF Inv
<1>3. StepInv' /\ WorkInv'
  BY <1>1 DEF Inv, StepInv, WorkInv, lockVars
<1> QED BY <1>1, <1>2, <1>3, WalkUntouched DEF Inv

LEMMA NextKeepsInv == Inv /\ [Next]_vars => Inv'
<1> SUFFICES ASSUME Inv, [Next]_vars PROVE Inv'
  OBVIOUS
<1>1. CASE UNCHANGED vars
  <2>1. UNCHANGED <<lockVars, auditVars, disk, touched, req, step, walk, shown>>
    BY <1>1 DEF vars, callVars, diskVars
  <2>2. LockInv' /\ AuditInv' /\ DiskInv'
    BY <2>1, LocksUntouched, AuditUntouched, DiskUntouched DEF Inv
  <2>3. StepInv' /\ WorkInv'
    BY <2>1 DEF Inv, StepInv, WorkInv, lockVars
  <2> QED BY <2>1, <2>2, <2>3, WalkUntouched DEF Inv
<1>2. CASE Auditing \/ OwnerEdit
  BY <1>2, AuditingKeepsInv, OwnerEditKeepsInv
<1>3. ASSUME NEW h \in Handlers, Receive(h) \/ HandlerStep(h) PROVE Inv'
  BY <1>3, ReceiveKeepsInv, LookKeepsInv, ExamineKeepsInv, TakeLocksKeepsInv, ActKeepsInv,
     StatKeepsInv, AuditRequestKeepsInv, LockingKeepsInv DEF HandlerStep
<1> QED BY <1>1, <1>2, <1>3 DEF Next

\* The inductive invariant of Handle, its locks and its audit.
THEOREM RequestsInvariant == Spec => []Inv
BY InitInv, NextKeepsInv, PTL DEF Spec

\* pathLocker: the locks of a path exclude, and an entry is on the map exactly while
\* somebody holds the path or waits for it.
THEOREM RequestsLockDiscipline == Spec => []LockDiscipline
<1>1. Inv => LockDiscipline
  BY LocksAreDisciplined DEF Inv
<1> QED BY RequestsInvariant, <1>1, PTL

\* Recorder.Close: what was let into the queue has been stored before it returns.
THEOREM RequestsDrainedBeforeClose == Spec => []DrainedBeforeClose
<1>1. Inv => DrainedBeforeClose
  BY AuditDrains DEF Inv
<1> QED BY RequestsInvariant, <1>1, PTL

\* A change by a request to what there is at a sensitive path is a rename's, and moves
\* something that was there only if the renamed directory has been touched.
LEMMA ActSparesSensitive ==
  ASSUME Inv, NEW h \in Handlers, Act(h), NEW p \in Paths, Match(p), disk'[p] # disk[p]
  PROVE  Renames(h) /\ (touched[h] \/ disk[p] = "absent")
<1>1. step[h] = "locking" /\ Admitted(req[h]) /\ req[h] \in Requested
  BY DEF Act, Inv, WorkInv, Admitted
<1>2. Possible(req[h]) /\ disk' = Change(req[h]) /\ Goto(h, "stat")
  BY DEF Act, ChangeDisk
<1>3. p # req[h].path /\ p # req[h].to
  BY <1>1 DEF Admitted
<1>4. req[h].op = "rename"
  BY <1>1, <1>2, <1>3, ChangesItsPath DEF Inv
<1>5. Renames(h)
  BY <1>1, <1>2, <1>4 DEF Renames, Goto, Inv, StepInv
<1>6. ASSUME ~touched[h], disk[p] # "absent" PROVE FALSE
  <2>1. Within(req[h].path, p)
    BY <1>1, <1>2, <1>3, <1>4, <1>6, NothingCovered DEF Inv
  <2>2. UnderWay(h) /\ walk[h] = {} /\ Pending(h)
    BY <1>1, <1>4 DEF Inv, WalkInv, Pending, UnderWay
  <2>3. \E e \in walk[h] : Within(e.path, p)
    BY <1>6, <2>1, <2>2 DEF Pending
  <2> QED BY <2>2, <2>3
<1> QED BY <1>5, <1>6

Numbered == edits \in Nat

LEMMA EditsAreNumbered == Spec => []Numbered
<1>1. Init => Numbered
  BY DEF Init, Numbered
<1>2. Numbered /\ [Next]_vars => Numbered'
  <2> SUFFICES ASSUME edits \in Nat, [Next]_vars PROVE edits' \in Nat
    BY DEF Numbered
  <2>1. ASSUME NEW h \in Handlers, Receive(h) \/ HandlerStep(h) PROVE edits' = edits
    BY <2>1 DEF HandlerStep, Receive, Look, Examine, TakeLocks, Act, Stat, AuditRequest, Locking,
                diskVars
  <2>2. CASE OwnerEdit
    BY <2>2 DEF OwnerEdit
  <2>3. CASE Auditing \/ UNCHANGED vars
    BY <2>3 DEF Auditing, vars, diskVars
  <2> QED BY <2>1, <2>2, <2>3 DEF Next
<1> QED BY <1>1, <1>2, PTL DEF Spec

\* Handle: whatever is requested, whatever the owner does meanwhile and however the calls
\* are interleaved between the examination of the paths and the change, what is
\* sensitive is not shown, and is moved only along with a directory in which
\* something has changed since the request for it came in.
THEOREM RequestsSensitiveKept == Spec => SensitiveKept
<1> DEFINE Kept ==
      \A p \in Paths : Match(p) =>
        /\ disk'[p] # disk[p] =>
             \/ edits' # edits
             \/ \E h \in Handlers : Renames(h) /\ (touched[h] \/ disk[p] = "absent")
        /\ \A h \in Handlers : p \notin shown'[h]
<1>1. ASSUME Inv, Inv', Numbered, Next PROVE Kept
  <2> SUFFICES ASSUME NEW p \in Paths, Match(p)
               PROVE  /\ disk'[p] # disk[p] =>
                           \/ edits' # edits
                           \/ \E h \in Handlers : Renames(h) /\ (touched[h] \/ disk[p] = "absent")
                      /\ \A h \in Handlers : p \notin shown'[h]
    OBVIOUS
  <2>1. \A h \in Handlers : p \notin shown'[h]
    BY <1>1 DEF Inv, WorkInv
  <2>2. CASE Auditing
    BY <2>1, <2>2 DEF Auditing, diskVars
  <2>3. CASE OwnerEdit
    BY <1>1, <2>1, <2>3 DEF OwnerEdit, Numbered
  <2>4. ASSUME NEW h \in Handlers, Receive(h) \/ HandlerStep(h), ~Act(h) PROVE disk' = disk
    BY <2>4 DEF HandlerStep, Receive, Look, Examine, TakeLocks, Stat, AuditRequest, Locking, diskVars
  <2>5. ASSUME NEW h \in Handlers, Act(h), disk'[p] # disk[p]
        PROVE  Renames(h) /\ (touched[h] \/ disk[p] = "absent")
    BY <1>1, <2>5, ActSparesSensitive
  <2> QED BY <1>1, <2>1, <2>2, <2>3, <2>4, <2>5 DEF Next
<1>2. Inv /\ Numbered /\ [Next]_vars => [Kept]_vars
  BY <1>1, NextKeepsInv
<1> QED BY RequestsInvariant, EditsAreNumbered, <1>2, PTL DEF Spec, SensitiveKept
=============================================================================
