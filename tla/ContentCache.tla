---------------------------- MODULE ContentCache ----------------------------
(***************************************************************************)
(* The content cache of a session (pkg/contentcache/cache.go): a list of   *)
(* entries, the most recently used first, and the number of bytes in use,  *)
(* which is kept by hand.  Every operation holds the cache's lock.          *)
(***************************************************************************)
EXTENDS SequencesExt, Tree

CONSTANT CacheMax   \* maxBytes

ASSUME CacheMaxAssumption == CacheMax \in Nat

\* A cached content, the signature it was stored under and its length.
Entry(path, sig, content, size) ==
  [path |-> path, sig |-> sig, content |-> content, size |-> size]

EmptyCache == [lru |-> <<>>, used |-> 0]

At(cache, p) == {i \in DOMAIN cache.lru : cache.lru[i].path = p}
Holds(cache, p) == At(cache, p) # {}
IndexOf(cache, p) == CHOOSE i \in At(cache, p) : TRUE
EntryOf(cache, p) == cache.lru[IndexOf(cache, p)]

\* An entry that leaves without its bytes.
MutRemoveKeepsBytes(cache, i) == [cache EXCEPT !.lru = RemoveAt(@, i)]

\* removeElement.
RemoveElement(cache, i) ==
  LET size == cache.lru[i].size IN
    [lru  |-> RemoveAt(cache.lru, i),
     used |-> IF size > cache.used THEN 0 ELSE cache.used - size]

Hit(cache, p, sig) == Holds(cache, p) /\ EntryOf(cache, p).sig = sig

Invalidate(cache, p) ==
  IF Holds(cache, p) THEN RemoveElement(cache, IndexOf(cache, p)) ELSE cache

\* Get: a hit moves to the front, an entry under another signature is removed.
Get(cache, p, sig) ==
  IF Hit(cache, p, sig)
  THEN [cache EXCEPT !.lru = <<EntryOf(cache, p)>> \o RemoveAt(@, IndexOf(cache, p))]
  ELSE Invalidate(cache, p)

\* Every entry that matchesPrefix is removed, one after the other.
InvalidatePrefix(cache, p) ==
  LET swept[n \in 0..Len(cache.lru)] ==
        IF n = 0 THEN cache
        ELSE LET path == cache.lru[n].path IN
               IF Within(p, path) THEN Invalidate(swept[n - 1], path) ELSE swept[n - 1]
  IN  swept[Len(cache.lru)]

\* evictLocked: from the back of the list, until the rest fits.
EvictBack(cache) ==
  IF cache.used > CacheMax /\ cache.lru # <<>>
  THEN RemoveElement(cache, Len(cache.lru)) ELSE cache

Evict(cache) ==
  LET evicted[n \in 0..Len(cache.lru)] ==
        IF n = 0 THEN cache ELSE EvictBack(evicted[n - 1])
  IN  evicted[Len(cache.lru)]

\* Put.
Put(cache, entry) ==
  IF CacheMax = 0 THEN cache
  ELSE IF entry.size > CacheMax THEN Invalidate(cache, entry.path)
  ELSE LET rest == Invalidate(cache, entry.path) IN
         Evict([lru |-> <<entry>> \o rest.lru, used |-> rest.used + entry.size])

\* The length of all contents together.
Bytes(lru) ==
  LET sum[n \in 0..Len(lru)] == IF n = 0 THEN 0 ELSE sum[n - 1] + lru[n].size
  IN  sum[Len(lru)]

\* The bytes in use are those of the entries and within the limit, and a path
\* has one entry.
CacheConsistent(cache) ==
  /\ cache.used = Bytes(cache.lru)
  /\ cache.used =< CacheMax
  /\ \A i, j \in DOMAIN cache.lru : i # j => cache.lru[i].path # cache.lru[j].path
=============================================================================
