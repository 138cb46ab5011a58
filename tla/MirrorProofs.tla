---------------------------- MODULE MirrorProofs ----------------------------
(***************************************************************************)
(* Proofs about the mirror of a workspace, for any set of paths, any       *)
(* workspace, any sizes, any number of callers and fetchers and calls of   *)
(* any number: the metadata tree is sound, no file is prefetched twice,    *)
(* the content cache counts rightly and keeps to its limit, what it gives  *)
(* out once everything has settled is what is on disk, and so is what the  *)
(* mount shows, but for differences of known origin.                       *)
(*                                                                         *)
(* There are two invariants: IInv, about the tree, the queues, the cache   *)
(* and the answers, and DInv, which follows each change from the disk      *)
(* through the queues or the answers to the tree.                          *)
(***************************************************************************)
EXTENDS Mirror, SequenceTheorems, WellFoundedInduction, TLAPS

\* Every set of naturals with an element has a least one: induction over a
\* definition of this module goes through the least counterexample.
LEMMA Least ==
  ASSUME NEW T, T \subseteq Nat, T # {}
  PROVE  \E x \in T : \A y \in T : x =< y
<1> DEFINE R == {ss \in Nat \X Nat : ss[1] < ss[2]}
<1>1. IsWellFoundedOn(R, Nat)
  BY NatLessThanWellFounded DEF OpToRel
<1>2. \E x \in T : \A y \in T : ~(<<y, x>> \in R)
  <2> HIDE DEF R
  <2> QED BY <1>1, WFMin
<1>3. PICK x \in T : \A y \in T : ~(<<y, x>> \in R)
  BY <1>2
<1>4. \A y \in T : y < x => <<y, x>> \in R
  OBVIOUS
<1>5. \A y \in T : ~(y < x)
  BY <1>3, <1>4
<1>6. \A y \in T : x =< y
  BY <1>5
<1> QED BY <1>6

\* Induction up to a bound, for a property given as the set of numbers that have it.
LEMMA InductionUpTo ==
  ASSUME NEW N \in Nat, NEW T, 0 \in T, \A n \in 1..N : n - 1 \in T => n \in T
  PROVE  \A n \in 0..N : n \in T
<1> DEFINE Bad == {n \in 0..N : n \notin T}
<1>1. SUFFICES ASSUME Bad # {} PROVE FALSE
  OBVIOUS
<1>2. PICK n \in Bad : \A m \in Bad : n =< m
  <2>1. Bad \subseteq Nat
    OBVIOUS
  <2> HIDE DEF Bad
  <2> QED BY <1>1, <2>1, Least
<1>3. n \in 1..N /\ n - 1 \in 0..N /\ ~(n =< n - 1)
  BY <1>2
<1>4. n - 1 \in T
  BY <1>2, <1>3
<1> QED BY <1>2, <1>3, <1>4

\* A function that is defined by recursion on its argument exists.
Iterates(f, S, N, base, G) ==
  f \in [0..N -> S] /\ f[0] = base /\ \A n \in 1..N : f[n] = G[<<n, f[n - 1]>>]

\* Such a function exists, for any step G.
LEMMA IterationExists ==
  ASSUME NEW S, NEW N \in Nat, NEW base \in S, NEW G \in [(1..N) \X S -> S]
  PROVE  \E f : Iterates(f, S, N, base, G)
<1> DEFINE Goes(f, m) == f[0] = base /\ \A n \in 1..m : f[n] = G[<<n, f[n - 1]>>]
           T == {m \in 0..N : \E f \in [0..m -> S] : Goes(f, m)}
<1>1. 0 \in T
  <2> DEFINE h == [i \in 0..0 |-> base]
  <2>1. h \in [0..0 -> S] /\ Goes(h, 0)
    OBVIOUS
  <2>2. 0 \in 0..N
    OBVIOUS
  <2> HIDE DEF h, Goes
  <2> QED BY <2>1, <2>2
<1>2. ASSUME NEW m \in 1..N, m - 1 \in T PROVE m \in T
  <2>1. PICK f \in [0..(m - 1) -> S] : Goes(f, m - 1)
    BY <1>2
  <2> DEFINE g == [i \in 0..m |-> IF i = m THEN G[<<m, f[m - 1]>>] ELSE f[i]]
  <2>2. g \in [0..m -> S] /\ g[0] = base
    <3>1. f[m - 1] \in S /\ <<m, f[m - 1]>> \in (1..N) \X S
      BY <2>1
    <3>2. G[<<m, f[m - 1]>>] \in S
      BY <3>1
    <3> QED BY <2>1, <3>2
  <2>3. ASSUME NEW n \in 1..m PROVE g[n] = G[<<n, g[n - 1]>>]
    <3>1. g[n - 1] = f[n - 1]
      OBVIOUS
    <3>2. CASE n = m
      <4>1. g[m] = G[<<m, f[m - 1]>>]
        OBVIOUS
      <4> QED BY <3>1, <3>2, <4>1
    <3>3. CASE n # m
      <4>1. n \in 1..(m - 1) /\ g[n] = f[n]
        BY <3>3
      <4> QED BY <2>1, <3>1, <4>1
    <3> QED BY <3>2, <3>3
  <2> HIDE DEF g
  <2> QED BY <2>2, <2>3
<1>3. N \in T
  <2> HIDE DEF T
  <2> QED BY <1>1, <1>2, InductionUpTo
<1> QED BY <1>3 DEF Iterates

-----------------------------------------------------------------------------
(* Paths *)

Path == Seq(STRING)

\* The first n names of a path.
LEMMA PrefixProperties ==
  ASSUME NEW p \in Path, NEW n \in 0..Len(p)
  PROVE  /\ SubSeq(p, 1, n) \in Path
         /\ Len(SubSeq(p, 1, n)) = n
         /\ \A i \in 1..n : SubSeq(p, 1, n)[i] = p[i]
<1>1. \A i \in 1..n : p[i] \in STRING
  BY ElementOfSeq DEF Path
<1>2. Len(p) \in Nat
  BY LenProperties DEF Path
<1> QED BY <1>1, <1>2, SubSeqProperties, n \in Int, 1 \in Int DEF Path

\* A prefix of a prefix is a prefix.
LEMMA PrefixOfPrefix ==
  ASSUME NEW p \in Path, NEW n \in 0..Len(p), NEW m \in 0..n
  PROVE  SubSeq(SubSeq(p, 1, n), 1, m) = SubSeq(p, 1, m)
<1>0. Len(p) \in Nat
  BY LenProperties DEF Path
<1> DEFINE s == SubSeq(p, 1, n)
           a == SubSeq(s, 1, m)
           b == SubSeq(p, 1, m)
<1>1. s \in Path /\ Len(s) = n /\ \A i \in 1..n : s[i] = p[i]
  BY PrefixProperties
<1>2. b \in Path /\ Len(b) = m /\ \A i \in 1..m : b[i] = p[i]
  BY <1>0, PrefixProperties
<1>3. a \in Path /\ Len(a) = m /\ \A i \in 1..m : a[i] = s[i]
  <2> HIDE DEF s
  <2> QED BY <1>0, <1>1, PrefixProperties
<1>4. \A i \in 1..m : a[i] = b[i]
  BY <1>0, <1>1, <1>2, <1>3
<1>5. a = b
  <2> HIDE DEF a, b
  <2> QED BY <1>2, <1>3, <1>4, SeqEqual DEF Path
<1> QED BY <1>5

\* The parent of a path is its longest proper prefix.
LEMMA ParentProperties ==
  ASSUME NEW p \in Path, p # Root
  PROVE  /\ Len(p) \in Nat \ {0}
         /\ ParentOf(p) \in Path
         /\ Len(ParentOf(p)) = Len(p) - 1
         /\ ParentOf(p) # p
<1>1. Len(p) \in Nat \ {0}
  BY EmptySeq DEF Path, Root
<1>2. ParentOf(p) \in Path /\ Len(ParentOf(p)) = Len(p) - 1
  BY <1>1, PrefixProperties, Len(p) - 1 \in 0..Len(p) DEF ParentOf
<1>3. Len(p) - 1 # Len(p)
  BY <1>1
<1> QED BY <1>1, <1>2, <1>3

\* The parent of a prefix is the prefix that is one name shorter.
LEMMA ParentOfPrefix ==
  ASSUME NEW p \in Path, NEW n \in 1..Len(p)
  PROVE  ParentOf(SubSeq(p, 1, n)) = SubSeq(p, 1, n - 1)
<1>1. Len(p) \in Nat
  BY LenProperties DEF Path
<1>2. n \in 0..Len(p) /\ n - 1 \in 0..n
  BY <1>1
<1>3. Len(SubSeq(p, 1, n)) = n
  BY <1>2, PrefixProperties
<1> QED BY <1>2, <1>3, PrefixOfPrefix DEF ParentOf

\* A path is its own longest prefix, and the root its shortest.
LEMMA ExtremePrefixes ==
  ASSUME NEW p \in Path
  PROVE  SubSeq(p, 1, Len(p)) = p /\ SubSeq(p, 1, 0) = Root /\ Len(Root) = 0 /\ Root \in Path
  BY SubSeqFull, SubSeqEmpty, EmptySeq, 0 \in Int, 1 \in Int DEF Path, Root

\* What is below a path is the path itself or is below it by its parent.
LEMMA WithinParent ==
  ASSUME NEW p \in Path, NEW q \in Path, Within(p, q), p # q
  PROVE  q # Root /\ Len(p) < Len(q) /\ Within(p, ParentOf(q))
<1>1. Len(p) \in Nat /\ Len(q) \in Nat
  BY LenProperties DEF Path
<1>2. Len(p) < Len(q)
  BY <1>1, ExtremePrefixes DEF Within
<1>3. q # Root
  BY <1>1, <1>2, ExtremePrefixes
<1>4. Len(ParentOf(q)) = Len(q) - 1
  BY <1>3, ParentProperties
<1>5. SubSeq(ParentOf(q), 1, Len(p)) = SubSeq(q, 1, Len(p))
  BY <1>1, <1>2, PrefixOfPrefix, Len(q) - 1 \in 0..Len(q), Len(p) \in 0..(Len(q) - 1) DEF ParentOf
<1> QED BY <1>1, <1>2, <1>3, <1>4, <1>5 DEF Within

\* A path is within its own prefixes and within itself, and what is within a
\* child is within its parent.
LEMMA WithinPrefix ==
  ASSUME NEW p \in Path
  PROVE  /\ Within(p, p)
         /\ \A n \in 0..Len(p) : Within(SubSeq(p, 1, n), p)
  BY ExtremePrefixes, PrefixProperties, LenProperties DEF Within, Path

\* If the parent of a path is within p then so is the path.
LEMMA WithinChild ==
  ASSUME NEW p \in Path, NEW q \in Path, q # Root, Within(p, ParentOf(q))
  PROVE  Within(p, q)
<1>1. Len(p) \in Nat /\ Len(q) \in Nat \ {0} /\ Len(ParentOf(q)) = Len(q) - 1
  BY LenProperties, ParentProperties DEF Path
<1>2. Len(p) =< Len(q) - 1
  BY <1>1 DEF Within
<1>3. SubSeq(ParentOf(q), 1, Len(p)) = SubSeq(q, 1, Len(p))
  BY <1>1, <1>2, PrefixOfPrefix, Len(q) - 1 \in 0..Len(q), Len(p) \in 0..(Len(q) - 1) DEF ParentOf
<1> QED BY <1>1, <1>2, <1>3 DEF Within

-----------------------------------------------------------------------------
(* The operations of the metadata tree *)

NodeSet == [dir: BOOLEAN, ver: Nat, children: SUBSET Path]

\* What Insert and Delete keep: a map from paths to nodes, and sound.
IsTree(t) == DOMAIN t \subseteq Path /\ \A q \in DOMAIN t : t[q] \in NodeSet
Good(t) == IsTree(t) /\ Sound(t)

\* The parts of a node.
LEMMA NodeProperties ==
  ASSUME NEW dir \in BOOLEAN, NEW ver \in Nat, NEW cs \in SUBSET Path
  PROVE  /\ Node(dir, ver, cs) \in NodeSet /\ Node(dir, ver, cs).dir = dir
         /\ Node(dir, ver, cs).children = cs
  BY DEF Node, NodeSet

\* A directory is a node.
LEMMA DirectoryNode ==
  ASSUME NEW cs \in SUBSET Path
  PROVE  /\ Node(TRUE, 0, cs) \in NodeSet /\ Node(TRUE, 0, cs).dir = TRUE
         /\ Node(TRUE, 0, cs).children = cs
  BY DEF Node, NodeSet

\* A node hangs from a directory that lists it.
LEMMA Hangs ==
  ASSUME NEW t, Good(t), NEW x \in DOMAIN t, x # Root
  PROVE  /\ x \in Path /\ ParentOf(x) \in DOMAIN t
         /\ t[ParentOf(x)].dir /\ x \in t[ParentOf(x)].children
  BY DEF Good, IsTree, Sound

\* With a path a sound tree holds all the directories on the way to it.
LEMMA PrefixClosed ==
  ASSUME NEW t, Good(t), NEW q \in DOMAIN t, NEW n \in 0..Len(q)
  PROVE  SubSeq(q, 1, n) \in DOMAIN t
<1>0. q \in Path /\ Len(q) \in Nat
  BY LenProperties DEF Good, IsTree, Path
<1> DEFINE Lost == {k \in 0..Len(q) : SubSeq(q, 1, Len(q) - k) \notin DOMAIN t}
<1> SUFFICES ASSUME SubSeq(q, 1, n) \notin DOMAIN t PROVE FALSE
  OBVIOUS
<1>1. Lost \subseteq Nat /\ Len(q) - n \in Lost
  BY <1>0
<1>2. PICK k \in Lost : \A j \in Lost : k =< j
  <2> HIDE DEF Lost
  <2> QED BY <1>1, Least
<1>3. k # 0
  <2>1. SubSeq(q, 1, Len(q) - 0) = q
    BY <1>0, ExtremePrefixes, Len(q) - 0 = Len(q)
  <2> QED BY <1>2, <2>1
<1>4. Len(q) - (k - 1) \in 1..Len(q) /\ k - 1 \in 0..Len(q) /\ ~(k =< k - 1)
  BY <1>0, <1>2, <1>3
<1>5. SubSeq(q, 1, Len(q) - (k - 1)) \in DOMAIN t
  BY <1>2, <1>4
<1>6. ParentOf(SubSeq(q, 1, Len(q) - (k - 1))) = SubSeq(q, 1, Len(q) - k)
  BY <1>0, <1>4, ParentOfPrefix, (Len(q) - (k - 1)) - 1 = Len(q) - k
<1>7. SubSeq(q, 1, Len(q) - (k - 1)) # Root
  BY <1>0, <1>4, PrefixProperties, ExtremePrefixes
<1>8. SubSeq(q, 1, Len(q) - k) \in DOMAIN t
  BY <1>5, <1>6, <1>7, Hangs
<1> QED BY <1>2, <1>8

\* deleteLocked and pruneChildren reach everything below a path.
LEMMA ReachedIsBelow ==
  ASSUME NEW t, Good(t), NEW p \in DOMAIN t
  PROVE  Reached(t, p) = {q \in DOMAIN t : Within(p, q)}
<1>1. SUFFICES ASSUME NEW q \in DOMAIN t, Within(p, q), NEW n \in (Len(p) + 1)..Len(q)
               PROVE  /\ SubSeq(q, 1, n - 1) \in DOMAIN t
                      /\ t[SubSeq(q, 1, n - 1)].dir
                      /\ SubSeq(q, 1, n) \in t[SubSeq(q, 1, n - 1)].children
  BY DEF Reached
<1>2. q \in Path /\ Len(q) \in Nat /\ Len(p) \in Nat
  BY LenProperties DEF Good, IsTree, Path
<1>3. n \in 0..Len(q) /\ n \in 1..Len(q)
  BY <1>2
<1>4. SubSeq(q, 1, n) \in DOMAIN t
  BY <1>3, PrefixClosed
<1>5. SubSeq(q, 1, n) # Root
  BY <1>2, <1>3, PrefixProperties, ExtremePrefixes
<1>6. ParentOf(SubSeq(q, 1, n)) = SubSeq(q, 1, n - 1)
  BY <1>2, <1>3, ParentOfPrefix
<1>7. PICK x : x = SubSeq(q, 1, n)
  OBVIOUS
<1> QED BY <1>4, <1>5, <1>6, <1>7, Hangs

\* Delete takes a path and everything below it out of the tree, and its name
\* out of the parent.
LEMMA DeleteKeepsGood ==
  ASSUME NEW t, Good(t), NEW p
  PROVE  Good(Delete(t, p))
<1> SUFFICES ASSUME p # Root, p \in DOMAIN t PROVE Good(Delete(t, p))
  BY DEF Delete
<1> DEFINE d == Delete(t, p)
           D == {q \in DOMAIN t : ~Within(p, q)}
<1>1. DOMAIN d = D
  BY ReachedIsBelow DEF Delete, Without
<1>2. \A q \in D : d[q] = IF q = ParentOf(p) THEN [t[q] EXCEPT !.children = @ \ {p}] ELSE t[q]
  BY ReachedIsBelow DEF Delete, Without
<1> HIDE DEF d
<1>3. IsTree(d)
  BY <1>1, <1>2 DEF Good, IsTree, NodeSet
<1>4. \A q \in D : /\ t[q] \in NodeSet
                   /\ d[q].dir = t[q].dir
                   /\ d[q].children = IF q = ParentOf(p) THEN t[q].children \ {p} ELSE t[q].children
  BY <1>2 DEF Good, IsTree, NodeSet
<1>5. p \in Path /\ Within(p, p)
  BY WithinPrefix DEF Good, IsTree
<1>6. Root \in D
  BY <1>5, WithinParent, ExtremePrefixes DEF Good, Sound
<1>7. ASSUME NEW q \in D, q # Root
      PROVE  ParentOf(q) \in D /\ d[ParentOf(q)].dir /\ q \in d[ParentOf(q)].children
  <2>1. ParentOf(q) \in DOMAIN t /\ t[ParentOf(q)].dir /\ q \in t[ParentOf(q)].children
    BY <1>7 DEF Good, Sound
  <2>2. ~Within(p, ParentOf(q))
    BY <1>5, <1>7, WithinChild DEF Good, IsTree
  <2>3. q # p
    BY <1>5, <1>7
  <2> QED BY <1>4, <2>1, <2>2, <2>3
<1>8. ASSUME NEW q \in D, NEW c \in d[q].children
      PROVE  c \in D /\ c # Root /\ ParentOf(c) = q
  <2>1. c \in t[q].children /\ (q = ParentOf(p) => c # p)
    BY <1>4, <1>8
  <2>2. c \in DOMAIN t /\ c # Root /\ ParentOf(c) = q
    BY <2>1 DEF Good, Sound
  <2>3. c # p
    BY <2>1, <2>2
  <2>4. ~Within(p, c)
    BY <1>5, <2>2, <2>3, WithinParent DEF Good, IsTree
  <2> QED BY <2>2, <2>4
<1>9. ASSUME NEW q \in D, ~d[q].dir PROVE d[q].children = {}
  BY <1>4, <1>9 DEF Good, Sound
<1> QED BY <1>1, <1>3, <1>6, <1>7, <1>8, <1>9 DEF Good, Sound, d

\* The directories on the way to a path are paths shorter than it, and the
\* parent of each of them is another or the root.
LEMMA AncestorProperties ==
  ASSUME NEW p \in Path, p # Root
  PROVE  /\ ParentOf(p) = Root \/ ParentOf(p) \in Ancestors(p)
         /\ \A a \in Ancestors(p) :
              /\ a \in Path /\ a # Root /\ Len(a) < Len(p)
              /\ ParentOf(a) = Root \/ ParentOf(a) \in Ancestors(p)
<1>1. Len(p) \in Nat \ {0}
  BY ParentProperties
<1>2. ParentOf(p) = Root \/ ParentOf(p) \in Ancestors(p)
  <2>1. CASE Len(p) = 1
    BY <2>1, ExtremePrefixes, Len(p) - 1 = 0 DEF ParentOf
  <2>2. CASE Len(p) # 1
    <3>1. Len(p) - 1 \in 1..(Len(p) - 1)
      BY <1>1, <2>2
    <3> QED BY <3>1 DEF ParentOf, Ancestors
  <2> QED BY <2>1, <2>2
<1>3. ASSUME NEW n \in 1..(Len(p) - 1)
      PROVE  /\ SubSeq(p, 1, n) \in Path /\ SubSeq(p, 1, n) # Root /\ Len(SubSeq(p, 1, n)) < Len(p)
             /\ ParentOf(SubSeq(p, 1, n)) = Root \/ ParentOf(SubSeq(p, 1, n)) \in Ancestors(p)
  <2>1. n \in 0..Len(p) /\ n \in 1..Len(p) /\ n < Len(p)
    BY <1>1
  <2>2. SubSeq(p, 1, n) \in Path /\ Len(SubSeq(p, 1, n)) = n
    BY <2>1, PrefixProperties
  <2>3. SubSeq(p, 1, n) # Root
    BY <2>1, <2>2, ExtremePrefixes
  <2>4. ParentOf(SubSeq(p, 1, n)) = SubSeq(p, 1, n - 1)
    BY <2>1, ParentOfPrefix
  <2>5. SubSeq(p, 1, n - 1) = Root \/ SubSeq(p, 1, n - 1) \in Ancestors(p)
    <3>1. CASE n = 1
      BY <3>1, ExtremePrefixes
    <3>2. CASE n # 1
      BY <1>1, <3>2, n - 1 \in 1..(Len(p) - 1) DEF Ancestors
    <3> QED BY <3>1, <3>2
  <2> QED BY <2>1, <2>2, <2>3, <2>4, <2>5
<1> QED BY <1>2, <1>3 DEF Ancestors

\* The tree before the ancestors are made sure of: what is below a directory
\* that becomes a file is gone.
Pruned(t, p, dir) == IF p \in DOMAIN t /\ t[p].dir /\ ~dir THEN Prune(t, p) ELSE t

\* It lacks what is below p if p is to become a file, and nothing else.
LEMMA PrunedProperties ==
  ASSUME NEW t, Good(t), NEW p \in Path, p # Root, NEW dir \in BOOLEAN
  PROVE  LET u == Pruned(t, p, dir) IN
         /\ DOMAIN u \subseteq DOMAIN t /\ \A q \in DOMAIN u : u[q] = t[q]
         /\ Root \in DOMAIN u
         /\ p \in DOMAIN u <=> p \in DOMAIN t
         /\ \A q \in DOMAIN u : \A n \in 0..Len(q) : SubSeq(q, 1, n) \in DOMAIN u
         /\ \A q \in DOMAIN t : q \notin DOMAIN u => ~dir /\ Within(p, q) /\ q # p
         /\ \A q \in DOMAIN u : Within(p, q) /\ q # p => dir \/ ~t[p].dir
<1>0. DOMAIN t \subseteq Path /\ Root \in DOMAIN t
  BY DEF Good, IsTree, Sound
<1>1. CASE p \in DOMAIN t /\ t[p].dir /\ ~dir
  <2> DEFINE u == Pruned(t, p, dir)
  <2>1. DOMAIN u = {q \in DOMAIN t : ~Within(p, q) \/ q = p} /\ \A q \in DOMAIN u : u[q] = t[q]
    BY <1>1, ReachedIsBelow DEF Pruned, Prune, Without
  <2> HIDE DEF u
  <2>2. Root \in DOMAIN u
    BY <1>0, <2>1, WithinParent, ExtremePrefixes
  <2>3. ASSUME NEW q \in DOMAIN u, NEW n \in 0..Len(q) PROVE SubSeq(q, 1, n) \in DOMAIN u
    <3>1. SubSeq(q, 1, n) \in DOMAIN t
      BY <2>1, PrefixClosed
    <3>2. ASSUME Within(p, SubSeq(q, 1, n)), SubSeq(q, 1, n) # p PROVE FALSE
      <4>1. q \in Path /\ Len(p) \in Nat /\ Len(q) \in Nat /\ Len(SubSeq(q, 1, n)) = n
        BY <1>0, <2>1, LenProperties, PrefixProperties DEF Path
      <4>2. Len(p) < n
        BY <1>0, <3>1, <3>2, <4>1, WithinParent
      <4>3. Len(p) \in 0..n /\ n =< Len(q)
        BY <4>1, <4>2
      <4>4. SubSeq(SubSeq(q, 1, n), 1, Len(p)) = SubSeq(q, 1, Len(p))
        BY <4>1, <4>3, PrefixOfPrefix
      <4>5. Within(p, q) /\ q # p
        <5>1. SubSeq(q, 1, Len(p)) = p
          BY <3>2, <4>4 DEF Within
        <5>2. Len(p) < Len(q)
          BY <4>1, <4>2, <4>3
        <5> QED BY <4>1, <5>1, <5>2 DEF Within
      <4> QED BY <2>1, <4>5
    <3> QED BY <2>1, <3>1, <3>2
  <2>4. p \in DOMAIN u /\ p \in DOMAIN t
    BY <1>1, <2>1
  <2>5. \A q \in DOMAIN t : q \notin DOMAIN u => ~dir /\ Within(p, q) /\ q # p
    BY <1>1, <2>1
  <2>6. \A q \in DOMAIN u : ~(Within(p, q) /\ q # p)
    BY <2>1
  <2>7. DOMAIN u \subseteq DOMAIN t
    BY <2>1
  <2> QED BY <2>1, <2>2, <2>3, <2>4, <2>5, <2>6, <2>7 DEF u
<1>2. CASE ~(p \in DOMAIN t /\ t[p].dir /\ ~dir)
  <2>1. Pruned(t, p, dir) = t
    BY <1>2 DEF Pruned
  <2>2. ASSUME NEW q \in DOMAIN t, Within(p, q), q # p PROVE p \in DOMAIN t
    <3>1. Len(p) \in Nat /\ Len(q) \in Nat /\ Len(p) =< Len(q) /\ SubSeq(q, 1, Len(p)) = p
      BY <1>0, <2>2, LenProperties DEF Within, Path
    <3> QED BY <3>1, PrefixClosed, Len(p) \in 0..Len(q)
  <2>3. \A q \in DOMAIN t : \A n \in 0..Len(q) : SubSeq(q, 1, n) \in DOMAIN t
    BY PrefixClosed
  <2> QED BY <1>0, <1>2, <2>1, <2>2, <2>3
<1> QED BY <1>1, <1>2

\* What ensureAncestors has to create: the directories on the way to p that the
\* tree does not hold.
Missing(u, p) == Ancestors(p) \ DOMAIN u

\* The nodes that insertLocked hangs from q.
Hung(u, p, q) == {a \in Missing(u, p) \cup {p} : ParentOf(a) = q}

\* In a tree that holds, with a path, all on the way to it, the search for the
\* first ancestor that exists passes over all that are missing.
LEMMA MissingProperties ==
  ASSUME NEW u, NEW p \in Path, p # Root, DOMAIN u \subseteq Path,
         \A q \in DOMAIN u : \A n \in 0..Len(q) : SubSeq(q, 1, n) \in DOMAIN u
  PROVE  {a \in Ancestors(p) : \A b \in Ancestors(p) : Within(a, b) => b \notin DOMAIN u}
           = Missing(u, p)
<1>1. ASSUME NEW a \in Ancestors(p), a \notin DOMAIN u, NEW b \in Ancestors(p), Within(a, b),
             b \in DOMAIN u
      PROVE  FALSE
  <2>1. a \in Path /\ b \in Path
    BY AncestorProperties
  <2>2. Len(a) \in Nat /\ Len(b) \in Nat /\ Len(a) =< Len(b) /\ SubSeq(b, 1, Len(a)) = a
    BY <1>1, <2>1, LenProperties DEF Within, Path
  <2> QED BY <1>1, <2>2, Len(a) \in 0..Len(b)
<1>2. \A a \in Ancestors(p) : Within(a, a)
  BY AncestorProperties, WithinPrefix
<1> QED BY <1>1, <1>2 DEF Missing

\* insertLocked, node by node.
Shape(t, p, dir, ver) ==
  LET u == Pruned(t, p, dir)
      r == InsertLocked(t, p, dir, ver)
  IN  /\ DOMAIN r = DOMAIN u \cup Missing(u, p) \cup {p}
      /\ r[p] = Node(dir, ver, IF dir /\ p \in DOMAIN t THEN t[p].children ELSE {})
      /\ \A q \in DOMAIN u \cup Missing(u, p) : q # p =>
           /\ r[q] \in NodeSet
           /\ r[q].children = (IF q \in DOMAIN u THEN t[q].children ELSE {}) \cup Hung(u, p, q)
           /\ r[q].dir = IF q \notin DOMAIN u \/ Hung(u, p, q) # {} THEN TRUE ELSE t[q].dir
           /\ q \in DOMAIN u /\ Hung(u, p, q) = {} => r[q] = t[q]

\* The node goes to its path, and hangs from a directory as the missing ones do.
LEMMA InsertShape ==
  ASSUME NEW t, Good(t), NEW p \in Path, p # Root, NEW dir \in BOOLEAN, NEW ver \in Nat
  PROVE  Shape(t, p, dir, ver)
<1> DEFINE u == Pruned(t, p, dir)
           M == Missing(u, p)
           created(q) == {a \in M : ParentOf(a) = q}
           ready == EnsureAncestors(u, p)
           r == InsertLocked(t, p, dir, ver)
<1>1. /\ DOMAIN u \subseteq DOMAIN t /\ \A q \in DOMAIN u : u[q] = t[q] /\ t[q] \in NodeSet
      /\ DOMAIN u \subseteq Path
      /\ Root \in DOMAIN u
      /\ p \in DOMAIN u <=> p \in DOMAIN t
      /\ \A q \in DOMAIN u : \A n \in 0..Len(q) : SubSeq(q, 1, n) \in DOMAIN u
  BY PrunedProperties DEF Good, IsTree
<1> HIDE DEF u
<1>2. {a \in Ancestors(p) : \A b \in Ancestors(p) : Within(a, b) => b \notin DOMAIN u} = M
  BY <1>1, MissingProperties
<1>3. /\ DOMAIN ready = DOMAIN u \cup M
      /\ \A q \in DOMAIN u \cup M :
           ready[q] = IF q \in M THEN Node(TRUE, 0, created(q))
                      ELSE IF q = ParentOf(p) \/ created(q) # {}
                           THEN Node(TRUE, 0, u[q].children \cup created(q))
                           ELSE u[q]
  BY <1>2 DEF EnsureAncestors
<1>4. r = [q \in DOMAIN ready \cup {p} |->
             IF q = p THEN Node(dir, ver, KeptChildren(ready, p, dir))
             ELSE IF q = ParentOf(p) THEN [ready[q] EXCEPT !.children = @ \cup {p}]
             ELSE ready[q]]
  BY DEF InsertLocked, u, Pruned
<1>5. M \subseteq Path /\ M \cap DOMAIN u = {}
  BY AncestorProperties DEF Missing
<1> HIDE DEF ready, r, M
<1>6. DOMAIN r = DOMAIN u \cup M \cup {p}
  BY <1>3, <1>4
<1>7. p \notin M
  <2>1. Len(p) \in Nat
    BY ParentProperties
  <2> QED BY <2>1, AncestorProperties DEF M, Missing
<1>8. created(p) = {} /\ ParentOf(p) # p
  <2>1. ASSUME NEW a \in M PROVE ParentOf(a) # p
    <3>1. a \in Path /\ a # Root /\ Len(a) < Len(p)
      BY <2>1, AncestorProperties DEF M, Missing
    <3>2. Len(ParentOf(a)) = Len(a) - 1 /\ Len(a) \in Nat /\ Len(p) \in Nat
      BY <3>1, ParentProperties
    <3> QED BY <3>1, <3>2
  <2> QED BY <2>1, ParentProperties
<1>9. r[p] = Node(dir, ver, IF dir /\ p \in DOMAIN t THEN t[p].children ELSE {})
  <2>1. p \in DOMAIN u => ready[p] = u[p]
    BY <1>3, <1>7, <1>8
  <2>2. KeptChildren(ready, p, dir) = IF dir /\ p \in DOMAIN t THEN t[p].children ELSE {}
    BY <1>1, <1>3, <1>7, <2>1 DEF KeptChildren
  <2> QED BY <1>4, <2>2
<1>10. ASSUME NEW q \in DOMAIN u \cup M, q # p
       PROVE  /\ r[q] \in NodeSet
              /\ r[q].children = (IF q \in DOMAIN u THEN t[q].children ELSE {}) \cup Hung(u, p, q)
              /\ r[q].dir = IF q \notin DOMAIN u \/ Hung(u, p, q) # {} THEN TRUE ELSE t[q].dir
              /\ q \in DOMAIN u /\ Hung(u, p, q) = {} => r[q] = t[q]
  <2>1. /\ ready[q] \in NodeSet
        /\ ready[q].children = (IF q \in DOMAIN u THEN t[q].children ELSE {}) \cup created(q)
        /\ ready[q].dir = IF q \notin DOMAIN u \/ created(q) # {} \/ q = ParentOf(p)
                          THEN TRUE ELSE t[q].dir
    <3>1. created(q) \in SUBSET Path
      BY <1>5
    <3> HIDE DEF created
    <3>2. CASE q \in M
      <4>1. ready[q] = Node(TRUE, 0, created(q)) /\ q \notin DOMAIN u
        BY <1>3, <1>5, <3>2
      <4>2. ready[q] \in NodeSet /\ ready[q].dir = TRUE /\ ready[q].children = created(q)
        BY <3>1, <4>1, DirectoryNode
      <4> QED BY <4>1, <4>2
    <3>3. CASE q \in DOMAIN u /\ (q = ParentOf(p) \/ created(q) # {})
      <4>1. t[q] \in NodeSet /\ u[q] = t[q] /\ q \notin M
        BY <1>1, <1>5, <3>3
      <4>2. ready[q] = Node(TRUE, 0, t[q].children \cup created(q))
        BY <1>3, <3>3, <4>1
      <4>3. t[q].children \cup created(q) \in SUBSET Path
        BY <3>1, <4>1 DEF NodeSet
      <4>4. /\ ready[q] \in NodeSet /\ ready[q].dir = TRUE
            /\ ready[q].children = t[q].children \cup created(q)
        BY <4>2, <4>3, DirectoryNode
      <4> QED BY <3>3, <4>4
    <3>4. CASE q \in DOMAIN u /\ ~(q = ParentOf(p) \/ created(q) # {})
      <4>1. t[q] \in NodeSet /\ u[q] = t[q] /\ q \notin M
        BY <1>1, <1>5, <3>4
      <4>2. ready[q] = t[q]
        BY <1>3, <3>4, <4>1
      <4> QED BY <3>4, <4>1, <4>2 DEF NodeSet
    <3> QED BY <1>10, <3>2, <3>3, <3>4
  <2>2. Hung(u, p, q) = created(q) \cup (IF q = ParentOf(p) THEN {p} ELSE {})
    BY DEF Hung, M
  <2> HIDE DEF created
  <2>3. CASE q = ParentOf(p)
    <3>1. r[q] = [ready[q] EXCEPT !.children = @ \cup {p}]
      BY <1>3, <1>4, <1>10, <2>3
    <3>2. r[q] \in NodeSet /\ r[q].children = ready[q].children \cup {p} /\ r[q].dir = ready[q].dir
      BY <2>1, <3>1 DEF NodeSet
    <3>3. Hung(u, p, q) # {}
      BY <2>2, <2>3
    <3> QED BY <2>1, <2>2, <2>3, <3>2, <3>3
  <2>4. CASE q # ParentOf(p)
    <3>1. r[q] = ready[q]
      BY <1>3, <1>4, <1>10, <2>4
    <3>2. ASSUME q \in DOMAIN u, Hung(u, p, q) = {} PROVE r[q] = t[q]
      <4>1. q \notin M /\ u[q] = t[q] /\ created(q) = {}
        BY <1>1, <1>5, <2>2, <3>2
      <4> QED BY <1>3, <2>4, <3>1, <3>2, <4>1
    <3> QED BY <2>1, <2>2, <2>4, <3>1, <3>2
  <2> QED BY <2>3, <2>4
<1> QED BY <1>6, <1>9, <1>10 DEF u, r, M, Shape

\* Insert keeps a tree sound, whatever it finds in the way: missing
\* directories, a file among the ancestors, a directory that becomes a file.
LEMMA InsertKeepsGood ==
  ASSUME NEW t, Good(t), NEW p \in Path, NEW dir \in BOOLEAN, NEW ver \in Nat
  PROVE  Good(Insert(t, p, dir, ver))
<1> SUFFICES ASSUME p # Root PROVE Good(InsertLocked(t, p, dir, ver))
  BY DEF Insert
<1> DEFINE u == Pruned(t, p, dir)
           M == Missing(u, p)
           r == InsertLocked(t, p, dir, ver)
<1>1. /\ DOMAIN r = DOMAIN u \cup M \cup {p}
      /\ r[p] = Node(dir, ver, IF dir /\ p \in DOMAIN t THEN t[p].children ELSE {})
      /\ \A q \in DOMAIN u \cup M : q # p =>
           /\ r[q] \in NodeSet
           /\ r[q].children = (IF q \in DOMAIN u THEN t[q].children ELSE {}) \cup Hung(u, p, q)
           /\ r[q].dir = IF q \notin DOMAIN u \/ Hung(u, p, q) # {} THEN TRUE ELSE t[q].dir
  <2>1. Shape(t, p, dir, ver)
    BY InsertShape
  <2> QED BY <2>1 DEF Shape
<1>2. /\ DOMAIN u \subseteq DOMAIN t /\ Root \in DOMAIN u
      /\ p \in DOMAIN u <=> p \in DOMAIN t
      /\ \A q \in DOMAIN u : \A n \in 0..Len(q) : SubSeq(q, 1, n) \in DOMAIN u
      /\ \A q \in DOMAIN t : q \notin DOMAIN u => ~dir /\ Within(p, q) /\ q # p
      /\ \A q \in DOMAIN u : Within(p, q) /\ q # p => dir \/ ~t[p].dir
  BY PrunedProperties
<1> HIDE DEF u, r
<1>3. DOMAIN t \subseteq Path /\ \A q \in DOMAIN t : t[q] \in NodeSet
  BY DEF Good, IsTree
<1>4. /\ p \notin M /\ M \subseteq Path /\ Root \notin M
      /\ \A a \in M \cup {p} : ParentOf(a) \in DOMAIN u \cup M /\ ParentOf(a) # p
  <2>1. Len(p) \in Nat /\ ParentOf(p) # p
    BY ParentProperties
  <2>2. ASSUME NEW a \in M PROVE a \in Path /\ a # Root /\ a # p /\ ParentOf(a) # p
    <3>1. a \in Path /\ a # Root /\ Len(a) < Len(p)
      BY <2>2, AncestorProperties DEF Missing
    <3>2. Len(ParentOf(a)) = Len(a) - 1 /\ Len(a) \in Nat
      BY <3>1, ParentProperties
    <3> QED BY <2>1, <3>1, <3>2
  <2>3. \A a \in M \cup {p} : ParentOf(a) = Root \/ ParentOf(a) \in Ancestors(p)
    BY AncestorProperties DEF Missing
  <2>4. \A a \in M \cup {p} : ParentOf(a) \in DOMAIN u \cup M
    BY <1>2, <2>3 DEF Missing
  <2> QED BY <2>1, <2>2, <2>4
<1> HIDE DEF M
<1>5. r[p] \in NodeSet /\ r[p].dir = dir
      /\ r[p].children = IF dir /\ p \in DOMAIN t THEN t[p].children ELSE {}
  <2> DEFINE cs == IF dir /\ p \in DOMAIN t THEN t[p].children ELSE {}
  <2>1. cs \in SUBSET Path
    BY <1>3 DEF NodeSet
  <2>2. r[p] = Node(dir, ver, cs)
    BY <1>1
  <2> HIDE DEF cs
  <2>3. r[p] \in NodeSet /\ r[p].dir = dir /\ r[p].children = cs
    BY <2>1, <2>2, NodeProperties
  <2> QED BY <2>3 DEF cs
<1>6. IsTree(r)
  <2>1. DOMAIN r \subseteq Path
    BY <1>1, <1>2, <1>3, <1>4
  <2>2. \A q \in DOMAIN r : r[q] \in NodeSet
    BY <1>1, <1>5
  <2> QED BY <2>1, <2>2 DEF IsTree
<1>7. Root \in DOMAIN r
  BY <1>1, <1>2
<1>8. ASSUME NEW x \in DOMAIN r, x # Root
      PROVE  ParentOf(x) \in DOMAIN r /\ r[ParentOf(x)].dir /\ x \in r[ParentOf(x)].children
  <2>1. CASE x \in M \cup {p}
    <3>1. x \in Hung(u, p, ParentOf(x))
      BY <2>1 DEF Hung, M
    <3> QED BY <1>1, <1>4, <2>1, <3>1
  <2>2. CASE x \in DOMAIN u /\ x \notin M \cup {p}
    <3>1. /\ x \in Path /\ ParentOf(x) \in DOMAIN t
          /\ t[ParentOf(x)].dir /\ x \in t[ParentOf(x)].children
      BY <1>2, <1>8, <2>2, Hangs
    <3>2. ParentOf(x) \in DOMAIN u
      <4>1. Len(x) \in Nat \ {0}
        BY <1>8, <3>1, ParentProperties
      <4> QED BY <1>2, <2>2, <4>1, Len(x) - 1 \in 0..Len(x) DEF ParentOf
    <3>3. CASE ParentOf(x) # p
      BY <1>1, <3>1, <3>2, <3>3
    <3>4. CASE ParentOf(x) = p
      <4>1. Within(p, x)
        BY <1>8, <3>1, <3>4, WithinChild, WithinPrefix
      <4>2. dir /\ p \in DOMAIN t
        BY <1>2, <2>2, <3>1, <3>4, <4>1
      <4> QED BY <1>1, <1>5, <3>1, <3>4, <4>2
    <3> QED BY <3>3, <3>4
  <2> QED BY <1>1, <2>1, <2>2
<1>9. ASSUME NEW x \in DOMAIN r, NEW c \in r[x].children
      PROVE  c \in DOMAIN r /\ c # Root /\ ParentOf(c) = x
  <2>1. CASE c \in Hung(u, p, x)
    BY <1>1, <1>4, <2>1 DEF Hung, M
  <2>2. CASE x \in DOMAIN t /\ c \in t[x].children /\ x \in DOMAIN u /\ (x = p => dir)
    <3>1. c \in DOMAIN t /\ c # Root /\ ParentOf(c) = x
      BY <2>2 DEF Good, Sound
    <3>2. c \in DOMAIN u
      <4>1. SUFFICES ASSUME c \notin DOMAIN u PROVE FALSE
        OBVIOUS
      <4>2. ~dir /\ Within(p, c) /\ c # p
        BY <1>2, <3>1, <4>1
      <4>3. Within(p, x)
        BY <1>3, <3>1, <4>2, WithinParent
      <4>4. x # p
        BY <2>2, <4>2
      <4>5. c \in Path /\ p \in DOMAIN t /\ t[p].dir
        BY <1>3, <3>1, <4>1 DEF u, Pruned
      <4> QED BY <1>2, <2>2, <4>2, <4>3, <4>4, <4>5
    <3> QED BY <1>1, <3>1, <3>2
  <2>3. CASE x = p
    BY <1>2, <1>5, <1>9, <2>2, <2>3
  <2>4. CASE x # p
    BY <1>1, <1>2, <1>9, <2>1, <2>2, <2>4, ZenonT(30)
  <2> QED BY <2>3, <2>4
<1>10. ASSUME NEW x \in DOMAIN r, ~r[x].dir PROVE r[x].children = {}
  <2>1. CASE x = p
    BY <1>5, <1>10, <2>1
  <2>2. CASE x # p
    <3>1. x \in DOMAIN u /\ Hung(u, p, x) = {} /\ ~t[x].dir
      BY <1>1, <1>10, <2>2
    <3>2. t[x].children = {}
      BY <1>2, <3>1 DEF Good, Sound
    <3> QED BY <1>1, <2>2, <3>1, <3>2
  <2> QED BY <2>1, <2>2
<1> QED BY <1>6, <1>7, <1>8, <1>9, <1>10 DEF Good, Sound, r

-----------------------------------------------------------------------------
(* The tree that a scan builds *)

\* The paths and the versions a tree knows of.
Knows(t, n) == DOMAIN t \subseteq Paths \cup {Root} /\ \A q \in DOMAIN t : t[q].ver \in 0..n

\* The paths there can be are paths, and none is the root.
LEMMA PathsType == Paths \subseteq Path \ {Root}
  BY MirrorAssumption, RangeOfSeq DEF Paths, Path

\* With a path there are the directories on the way to it.
LEMMA PrefixInPaths ==
  ASSUME NEW p \in Paths, NEW n \in 1..Len(p)
  PROVE  SubSeq(p, 1, n) \in Paths
<1>0. p \in Path /\ Len(p) \in Nat \ {0}
  BY PathsType, ParentProperties
<1> DEFINE T == {k \in 0..(Len(p) - 1) : SubSeq(p, 1, Len(p) - k) \in Paths}
<1>1. 0 \in T
  <2>1. SubSeq(p, 1, Len(p) - 0) = p
    BY <1>0, ExtremePrefixes, Len(p) - 0 = Len(p)
  <2>2. 0 \in 0..(Len(p) - 1)
    BY <1>0
  <2>3. SubSeq(p, 1, Len(p) - 0) \in Paths
    BY <2>1, Zenon
  <2> QED BY <2>2, <2>3, Zenon
<1>2. ASSUME NEW k \in 1..(Len(p) - 1), k - 1 \in T PROVE k \in T
  <2> DEFINE q == SubSeq(p, 1, Len(p) - (k - 1))
  <2>1. /\ q \in Paths /\ Len(p) - (k - 1) \in 1..Len(p) /\ k \in 0..(Len(p) - 1)
        /\ Len(p) - k \in 1..Len(p) /\ (Len(p) - (k - 1)) - 1 = Len(p) - k
    BY <1>0, <1>2
  <2>2. ParentOf(q) = SubSeq(p, 1, Len(p) - k)
    BY <1>0, <2>1, ParentOfPrefix
  <2>3. Len(SubSeq(p, 1, Len(p) - k)) = Len(p) - k /\ Len(p) - k # 0
    <3>1. Len(p) - k \in 0..Len(p) /\ Len(p) - k # 0
      BY <1>0
    <3> QED BY <1>0, <3>1, PrefixProperties
  <2>4. ParentOf(q) # Root
    BY <2>2, <2>3, ExtremePrefixes, <1>0
  <2>5. ParentOf(q) \in Paths
    <3> HIDE DEF q
    <3> QED BY <2>1, <2>4, MirrorAssumption
  <2> QED BY <2>1, <2>2, <2>5
<1>3. \A k \in 0..(Len(p) - 1) : k \in T
  <2> HIDE DEF T
  <2> QED BY <1>0, <1>1, <1>2, InductionUpTo, Len(p) - 1 \in Nat
<1>4. Len(p) - n \in 0..(Len(p) - 1) /\ Len(p) - (Len(p) - n) = n
  BY <1>0
<1> QED BY <1>3, <1>4

\* Deletion and insertion add no path and no version but those they are given.
LEMMA DeleteKnows ==
  ASSUME NEW t, Good(t), NEW n \in Nat, Knows(t, n), NEW p
  PROVE  Knows(Delete(t, p), n)
<1>1. \A q \in DOMAIN t : t[q] \in NodeSet
  BY DEF Good, IsTree
<1>2. \A q \in DOMAIN t : [t[q] EXCEPT !.children = @ \ {p}].ver = t[q].ver
  BY <1>1 DEF NodeSet
<1> QED BY <1>1, <1>2 DEF Knows, Delete, Without

\* Insert keeps the versions of a tree within those that are known.
LEMMA InsertKnows ==
  ASSUME NEW t, Good(t), NEW n \in Nat, Knows(t, n),
         NEW p \in Paths, NEW dir \in BOOLEAN, NEW ver \in 0..n
  PROVE  Knows(Insert(t, p, dir, ver), n)
<1>1. p \in Path /\ p # Root /\ \A q \in DOMAIN t : t[q] \in NodeSet
  BY PathsType DEF Good, IsTree
<1>2. Ancestors(p) \subseteq Paths
  <2>1. \A k \in 1..(Len(p) - 1) : k \in 1..Len(p)
    BY <1>1, ParentProperties
  <2>2. \A k \in 1..(Len(p) - 1) : SubSeq(p, 1, k) \in Paths
    BY <2>1, PrefixInPaths
  <2> QED BY <2>2 DEF Ancestors
<1> DEFINE u == Pruned(t, p, dir)
           w == EnsureAncestors(u, p)
           r == InsertLocked(t, p, dir, ver)
<1>3. DOMAIN u \subseteq DOMAIN t /\ \A q \in DOMAIN u : u[q] = t[q]
  BY <1>1, PrunedProperties
<1>4. DOMAIN w \subseteq DOMAIN t \cup Ancestors(p)
  BY <1>3 DEF EnsureAncestors
<1>5. \A q \in DOMAIN w : (\E cs : w[q] = Node(TRUE, 0, cs)) \/ (q \in DOMAIN t /\ w[q] = t[q])
  <2> HIDE DEF u
  <2>1. \A q \in DOMAIN w : q \in DOMAIN u \/ \E cs : w[q] = Node(TRUE, 0, cs)
    BY DEF EnsureAncestors
  <2>2. \A q \in DOMAIN w : q \in DOMAIN u => w[q] = u[q] \/ \E cs : w[q] = Node(TRUE, 0, cs)
    BY DEF EnsureAncestors
  <2> HIDE DEF w
  <2> QED BY <1>3, <2>1, <2>2
<1>6. /\ DOMAIN r = DOMAIN w \cup {p}
      /\ r[p] = Node(dir, ver, KeptChildren(w, p, dir))
      /\ \A q \in DOMAIN w : q # p =>
           r[q] = IF q = ParentOf(p) THEN [w[q] EXCEPT !.children = @ \cup {p}] ELSE w[q]
  BY DEF InsertLocked, Pruned
<1> HIDE DEF u, w, r
<1>7. \A cs : Node(TRUE, 0, cs).ver = 0 /\ [Node(TRUE, 0, cs) EXCEPT !.children = @ \cup {p}].ver = 0
  BY DEF Node
<1>8. \A q \in DOMAIN t : t[q].ver \in 0..n /\ [t[q] EXCEPT !.children = @ \cup {p}].ver = t[q].ver
  BY <1>1 DEF Knows, NodeSet
<1>9. ASSUME NEW q \in DOMAIN w, q # p PROVE r[q].ver \in 0..n
  <2>1. CASE \E cs : w[q] = Node(TRUE, 0, cs)
    <3>1. PICK cs : w[q] = Node(TRUE, 0, cs)
      BY <2>1
    <3>2. r[q] = w[q] \/ r[q] = [w[q] EXCEPT !.children = @ \cup {p}]
      BY <1>6, <1>9
    <3>3. r[q].ver = 0
      BY <1>7, <3>1, <3>2, Zenon
    <3> QED BY <3>3
  <2>2. CASE q \in DOMAIN t /\ w[q] = t[q]
    BY <1>6, <1>8, <1>9, <2>2
  <2> QED BY <1>5, <2>1, <2>2
<1>10. r[p].ver = ver
  BY <1>6 DEF Node
<1>11. Knows(r, n)
  BY <1>2, <1>4, <1>6, <1>9, <1>10 DEF Knows
<1> QED BY <1>1, <1>11 DEF Insert, r

\* The version of a file is a number, and 0 for anything else.
LEMMA VerOfType == \A d, p : VerOf(d, p) \in Nat
  BY MirrorAssumption DEF VerOf, Versions

\* The new tree, and one insertion of a scanned path.
LEMMA NewIsGood == Good(New) /\ \A n \in Nat : Knows(New, n)
<1>1. Root \in Path
  BY EmptySeq DEF Root, Path
<1>2. DOMAIN New = {Root} /\ New[Root] = Node(TRUE, 0, {})
  BY DEF New
<1>3. New[Root] \in NodeSet /\ New[Root].dir = TRUE /\ New[Root].children = {}
  BY <1>2, DirectoryNode
<1>4. New[Root].ver = 0
  BY <1>2 DEF Node
<1>5. Good(New)
  BY <1>1, <1>2, <1>3 DEF Good, IsTree, Sound
<1>6. ASSUME NEW n \in Nat PROVE Knows(New, n)
  <2>1. New[Root].ver \in 0..n
    BY <1>4
  <2> QED BY <1>2, <2>1 DEF Knows
<1> QED BY <1>5, <1>6

\* One insertion of replaceTree keeps the tree sound.
LEMMA ScannedKeepsGood ==
  ASSUME NEW t, Good(t), NEW n \in Nat, Knows(t, n), NEW p \in Paths, VerOf(InitialDisk, p) =< n
  PROVE  Good(Scanned(t, p)) /\ Knows(Scanned(t, p), n)
<1>1. p \in Path /\ VerOf(InitialDisk, p) \in Nat /\ (InitialDisk[p] = Dir) \in BOOLEAN
  BY PathsType, VerOfType
<1>2. PICK dir \in BOOLEAN : dir = (InitialDisk[p] = Dir)
  BY <1>1
<1>3. Good(Insert(t, p, dir, VerOf(InitialDisk, p)))
  BY <1>1, InsertKeepsGood
<1>4. Knows(Insert(t, p, dir, VerOf(InitialDisk, p)), n)
  BY <1>1, InsertKnows
<1> QED BY <1>2, <1>3, <1>4 DEF Scanned

\* A scan of n paths.
IsBuild(f, n) ==
  f = [i \in 0..n |-> IF i = 0 THEN New ELSE Scanned(f[i - 1], SortedPaths[i])]

\* The recursion of replaceTree has a solution.
LEMMA BuildExists == \E f : IsBuild(f, Len(SortedPaths))
<1>0. Len(SortedPaths) \in Nat
  BY MirrorAssumption, LenProperties
<1> DEFINE Bad == {n \in Nat : ~\E f : IsBuild(f, n)}
<1>1. SUFFICES ASSUME Bad # {} PROVE FALSE
  BY <1>0
<1>2. PICK n \in Bad : \A m \in Bad : n =< m
  <2>1. Bad \subseteq Nat
    OBVIOUS
  <2> HIDE DEF Bad
  <2> QED BY <1>1, <2>1, Least
<1>3. n # 0
  <2>1. IsBuild([i \in 0..0 |-> New], 0)
    BY DEF IsBuild
  <2> QED BY <2>1
<1>4. PICK f : IsBuild(f, n - 1)
  <2>1. n - 1 \in Nat /\ ~(n =< n - 1)
    BY <1>3
  <2> QED BY <1>2, <2>1
<1> DEFINE g == [i \in 0..n |-> IF i = n THEN Scanned(f[n - 1], SortedPaths[n]) ELSE f[i]]
<1>5. \A i \in 0..(n - 1) : f[i] = IF i = 0 THEN New ELSE Scanned(f[i - 1], SortedPaths[i])
  BY <1>4 DEF IsBuild
<1>6. ASSUME NEW i \in 0..n
      PROVE  g[i] = IF i = 0 THEN New ELSE Scanned(g[i - 1], SortedPaths[i])
  <2>1. CASE i = n
    <3>1. g[i - 1] = f[i - 1]
      BY <1>3, <2>1
    <3> QED BY <1>3, <2>1, <3>1
  <2>2. CASE i # n
    <3>1. i \in 0..(n - 1) /\ g[i] = f[i]
      BY <2>2
    <3>2. i # 0 => g[i - 1] = f[i - 1]
      BY <2>2
    <3> QED BY <1>5, <3>1, <3>2
  <2> QED BY <2>1, <2>2
<1>7. IsBuild(g, n)
  BY <1>6 DEF IsBuild
<1> QED BY <1>2, <1>7

\* Built is that solution.
LEMMA BuiltIsBuild == IsBuild(Built, Len(SortedPaths))
  BY BuildExists DEF Built, IsBuild

\* The tree of a session is sound when it is established, whatever the
\* workspace holds.
LEMMA ReplaceTreeIsGood ==
  ASSUME NEW n \in Nat, \A p \in Paths : VerOf(InitialDisk, p) =< n
  PROVE  Good(ReplaceTree) /\ Knows(ReplaceTree, n)
<1>0. Len(SortedPaths) \in Nat
  BY MirrorAssumption, LenProperties
<1>1. \A i \in 0..Len(SortedPaths) :
        Built[i] = IF i = 0 THEN New ELSE Scanned(Built[i - 1], SortedPaths[i])
  BY BuiltIsBuild DEF IsBuild
<1> DEFINE T == {i \in 0..Len(SortedPaths) : Good(Built[i]) /\ Knows(Built[i], n)}
<1>2. 0 \in T
  BY <1>0, <1>1, NewIsGood
<1>3. ASSUME NEW i \in 1..Len(SortedPaths), i - 1 \in T PROVE i \in T
  <2>1. i \in 0..Len(SortedPaths) /\ i # 0
    BY <1>0
  <2>2. SortedPaths[i] \in Paths
    BY MirrorAssumption, RangeEquality DEF Paths
  <2>3. Built[i] = Scanned(Built[i - 1], SortedPaths[i])
    BY <1>1, <2>1
  <2> QED BY <1>3, <2>1, <2>2, <2>3, ScannedKeepsGood
<1>4. \A i \in 0..Len(SortedPaths) : i \in T
  <2> HIDE DEF T
  <2> QED BY <1>0, <1>2, <1>3, InductionUpTo
<1> QED BY <1>0, <1>4 DEF ReplaceTree

-----------------------------------------------------------------------------
(* The content cache *)

EntrySet == [path: Path, sig: Nat, content: Nat, size: Nat]
CacheSet == [lru: Seq(EntrySet), used: Nat]

\* What a list of entries holds.
LEMMA EntryTypes ==
  ASSUME NEW lru \in Seq(EntrySet)
  PROVE  /\ Len(lru) \in Nat /\ DOMAIN lru = 1..Len(lru)
         /\ \A n \in 1..Len(lru) : lru[n] \in EntrySet /\ lru[n].size \in Nat
<1>1. \A e \in EntrySet : e.size \in Nat
  BY DEF EntrySet
<1>2. Len(lru) \in Nat /\ DOMAIN lru = 1..Len(lru)
  BY LenProperties
<1>3. \A n \in 1..Len(lru) : lru[n] \in EntrySet
  BY ElementOfSeq
<1> QED BY <1>1, <1>2, <1>3

\* The bytes of the first entries of a list.
Sums(f, lru) ==
  /\ f \in [0..Len(lru) -> Nat]
  /\ f[0] = 0
  /\ \A n \in 1..Len(lru) : f[n] = f[n - 1] + lru[n].size

\* Bytes is the last of the sums over the entries of the list.
LEMMA BytesIsSum ==
  ASSUME NEW lru \in Seq(EntrySet)
  PROVE  \E f : Sums(f, lru) /\ Bytes(lru) = f[Len(lru)]
<1> DEFINE N == Len(lru)
           IsSum(f) == f = [n \in 0..N |-> IF n = 0 THEN 0 ELSE f[n - 1] + lru[n].size]
           G == [x \in (1..N) \X Nat |-> x[2] + lru[x[1]].size]
<1>1. N \in Nat /\ \A n \in 1..N : lru[n].size \in Nat
  BY EntryTypes
<1>2. G \in [(1..N) \X Nat -> Nat]
  BY <1>1
<1>3. PICK f : Iterates(f, Nat, N, 0, G)
  <2> HIDE DEF G, N
  <2> QED BY <1>1, <1>2, IterationExists
<1>4. \A n \in 1..N : f[n] = f[n - 1] + lru[n].size
  <2>1. ASSUME NEW n \in 1..N PROVE G[<<n, f[n - 1]>>] = f[n - 1] + lru[n].size
    <3>1. f[n - 1] \in Nat
      BY <1>1, <1>3 DEF Iterates
    <3> QED BY <3>1
  <2> QED BY <1>3, <2>1 DEF Iterates
<1>5. IsSum(f)
  <2>1. f \in [0..N -> Nat] /\ f[0] = 0
    BY <1>3 DEF Iterates
  <2> QED BY <1>1, <1>4, <2>1
<1> DEFINE g == CHOOSE h : IsSum(h)
<1>6. IsSum(g)
  BY <1>5
<1>7. Bytes(lru) = g[N]
  BY DEF Bytes
<1> HIDE DEF g
<1>8. /\ DOMAIN g = 0..N /\ g[0] = 0 /\ g = [n \in 0..N |-> g[n]]
      /\ \A n \in 1..N : g[n] = g[n - 1] + lru[n].size
  BY <1>1, <1>6
<1> DEFINE T == {n \in 0..N : g[n] \in Nat}
<1>9. \A n \in 0..N : n \in T
  <2>1. 0 \in T
    BY <1>1, <1>8
  <2>2. ASSUME NEW n \in 1..N, n - 1 \in T PROVE n \in T
    <3>1. n \in 0..N /\ lru[n].size \in Nat
      BY <1>1
    <3>2. g[n] = g[n - 1] + lru[n].size
      BY <1>8
    <3>3. g[n - 1] \in Nat
      BY <2>2
    <3>4. g[n] \in Nat
      BY <3>1, <3>2, <3>3
    <3> QED BY <3>1, <3>4
  <2> HIDE DEF T
  <2> QED BY <1>1, <2>1, <2>2, InductionUpTo
<1>10. g \in [0..N -> Nat]
  BY <1>8, <1>9
<1> QED BY <1>7, <1>8, <1>10 DEF Sums

\* It is a natural number, ...
LEMMA BytesType == ASSUME NEW lru \in Seq(EntrySet) PROVE Bytes(lru) \in Nat
<1>1. Len(lru) \in Nat
  BY LenProperties
<1> QED BY <1>1, BytesIsSum DEF Sums

\* ... zero for no entries, ...
LEMMA BytesOfEmpty == Bytes(<<>>) = 0
<1>1. <<>> \in Seq(EntrySet) /\ Len(<<>>) = 0
  BY EmptySeq
<1> QED BY <1>1, BytesIsSum DEF Sums

\* A list without one of its elements.
LEMMA RemoveAtProperties ==
  ASSUME NEW S, NEW s \in Seq(S), NEW i \in 1..Len(s)
  PROVE  /\ RemoveAt(s, i) \in Seq(S) /\ Len(RemoveAt(s, i)) = Len(s) - 1
         /\ \A k \in 1..(Len(s) - 1) : RemoveAt(s, i)[k] = IF k < i THEN s[k] ELSE s[k + 1]
<1> DEFINE a == SubSeq(s, 1, i - 1)
           b == SubSeq(s, i + 1, Len(s))
<1>1. Len(s) \in Nat /\ i \in Nat /\ 1 =< i /\ i =< Len(s) /\ \A k \in 1..Len(s) : s[k] \in S
  BY LenProperties, ElementOfSeq
<1>2. a \in Seq(S) /\ Len(a) = i - 1 /\ \A k \in 1..(i - 1) : a[k] = s[k]
  BY <1>1, SubSeqProperties
<1>3. b \in Seq(S) /\ Len(b) = Len(s) - i /\ \A k \in 1..(Len(s) - i) : b[k] = s[i + k]
  BY <1>1, SubSeqProperties
<1>4. RemoveAt(s, i) = a \o b
  BY DEF RemoveAt
<1> HIDE DEF a, b
<1>5. /\ a \o b \in Seq(S) /\ Len(a \o b) = Len(a) + Len(b)
      /\ \A k \in 1..(Len(a) + Len(b)) : (a \o b)[k] = IF k =< Len(a) THEN a[k] ELSE b[k - Len(a)]
  BY <1>2, <1>3, ConcatProperties
<1>6. ASSUME NEW k \in 1..(Len(s) - 1)
      PROVE  (a \o b)[k] = IF k < i THEN s[k] ELSE s[k + 1]
  <2>1. k \in 1..(Len(a) + Len(b))
    BY <1>1, <1>2, <1>3
  <2>2. CASE k < i
    BY <1>1, <1>2, <1>5, <2>1, <2>2
  <2>3. CASE ~(k < i)
    <3>1. k - (i - 1) \in 1..(Len(s) - i) /\ i + (k - (i - 1)) = k + 1 /\ ~(k =< Len(a))
      BY <1>1, <1>2, <2>3
    <3>2. (a \o b)[k] = b[k - (i - 1)]
      BY <1>2, <1>5, <2>1, <3>1
    <3> QED BY <1>3, <2>3, <3>1, <3>2
  <2> QED BY <2>2, <2>3
<1>7. Len(a \o b) = Len(s) - 1
  BY <1>1, <1>2, <1>3, <1>5
<1> QED BY <1>4, <1>5, <1>6, <1>7

\* ... less by the size of an entry that is taken out ...
LEMMA BytesOfRemoveAt ==
  ASSUME NEW lru \in Seq(EntrySet), NEW i \in 1..Len(lru)
  PROVE  Bytes(RemoveAt(lru, i)) + lru[i].size = Bytes(lru)
<1> DEFINE r == RemoveAt(lru, i)
           N == Len(lru)
<1>1. /\ r \in Seq(EntrySet) /\ Len(r) = N - 1 /\ N \in Nat /\ i \in 1..N
      /\ \A k \in 1..(N - 1) : r[k] = IF k < i THEN lru[k] ELSE lru[k + 1]
      /\ \A k \in 1..N : lru[k].size \in Nat
  BY RemoveAtProperties, EntryTypes
<1>2. PICK f : Sums(f, lru) /\ Bytes(lru) = f[N]
  BY BytesIsSum
<1> HIDE DEF r
<1>3. PICK g : Sums(g, r) /\ Bytes(r) = g[N - 1]
  BY <1>1, BytesIsSum
<1> HIDE DEF N
<1>4. /\ f \in [0..N -> Nat] /\ f[0] = 0 /\ \A n \in 1..N : f[n] = f[n - 1] + lru[n].size
      /\ g \in [0..(N - 1) -> Nat] /\ g[0] = 0
      /\ \A n \in 1..(N - 1) : g[n] = g[n - 1] + r[n].size
  BY <1>1, <1>2, <1>3 DEF Sums, N
<1> DEFINE T == {k \in 0..(N - 1) : g[k] = IF k < i THEN f[k] ELSE f[k + 1] - lru[i].size}
<1>5. \A k \in 0..(N - 1) : k \in T
  <2>1. 0 \in T /\ N - 1 \in Nat
    BY <1>1, <1>4
  <2>2. ASSUME NEW k \in 1..(N - 1), k - 1 \in T PROVE k \in T
    <3>1. /\ g[k] = g[k - 1] + r[k].size /\ f[k] = f[k - 1] + lru[k].size
          /\ f[k + 1] = f[k] + lru[k + 1].size
          /\ f[k - 1] \in Nat /\ f[k] \in Nat /\ f[k + 1] \in Nat
          /\ lru[k].size \in Nat /\ lru[k + 1].size \in Nat /\ lru[i].size \in Nat
      <4>1. /\ k \in 1..N /\ k + 1 \in 1..N /\ k - 1 \in 0..N /\ k \in 0..N /\ k + 1 \in 0..N
            /\ (k + 1) - 1 = k
        BY <1>1
      <4>2. f[k + 1] = f[k] + lru[k + 1].size
        BY <1>4, <4>1
      <4> QED BY <1>1, <1>4, <4>1, <4>2
    <3>2. CASE k < i
      <4>1. g[k - 1] = f[k - 1] /\ r[k] = lru[k]
        BY <1>1, <2>2, <3>2
      <4> QED BY <3>1, <3>2, <4>1
    <3>3. CASE k = i
      <4>1. g[k - 1] = f[k - 1] /\ r[k] = lru[k + 1]
        BY <1>1, <2>2, <3>3
      <4>2. PICK a, b, c \in Nat : a = f[k - 1] /\ b = lru[k].size /\ c = lru[k + 1].size
        BY <3>1
      <4>3. g[k] = a + c /\ f[k] = a + b /\ f[k + 1] = f[k] + c /\ lru[i].size = b
        BY <3>1, <3>3, <4>1, <4>2
      <4>4. g[k] = f[k + 1] - lru[i].size
        BY <4>3
      <4> QED BY <3>3, <4>4
    <3>4. CASE k > i
      <4>1. g[k - 1] = f[k] - lru[i].size /\ r[k] = lru[k + 1]
        <5>1. ~(k - 1 < i) /\ ~(k < i) /\ (k - 1) + 1 = k
          BY <1>1, <3>4
        <5>2. g[k - 1] = f[(k - 1) + 1] - lru[i].size
          BY <2>2, <5>1
        <5> QED BY <1>1, <5>1, <5>2
      <4>2. PICK a, b, c \in Nat : a = f[k] /\ b = lru[i].size /\ c = lru[k + 1].size
        BY <3>1
      <4>3. g[k] = (a - b) + c /\ f[k + 1] = a + c /\ lru[i].size = b
        BY <3>1, <4>1, <4>2
      <4>4. g[k] = f[k + 1] - lru[i].size
        BY <4>3
      <4> QED BY <1>1, <3>4, <4>4
    <3> QED BY <1>1, <3>2, <3>3, <3>4
  <2> HIDE DEF T
  <2> QED BY <2>1, <2>2, InductionUpTo
<1>6. N - 1 \in 0..(N - 1) /\ f[N] = f[N - 1] + lru[N].size /\ f[N - 1] \in Nat /\ f[N] \in Nat
  BY <1>1, <1>4
<1>7. g[N - 1] = IF N - 1 < i THEN f[N - 1] ELSE f[N] - lru[i].size
  BY <1>1, <1>5, <1>6
<1>8. CASE i = N
  BY <1>1, <1>2, <1>3, <1>6, <1>7, <1>8 DEF r
<1>9. CASE i # N
  BY <1>1, <1>2, <1>3, <1>6, <1>7, <1>9 DEF r
<1> QED BY <1>8, <1>9

\* A list with one more element at its front.
LEMMA PushFrontProperties ==
  ASSUME NEW S, NEW s \in Seq(S), NEW e \in S
  PROVE  /\ <<e>> \o s \in Seq(S) /\ Len(<<e>> \o s) = Len(s) + 1
         /\ (<<e>> \o s)[1] = e
         /\ \A k \in 1..Len(s) : (<<e>> \o s)[k + 1] = s[k]
  OBVIOUS

\* ... and more by the size of one that is put in front.
LEMMA BytesOfPushFront ==
  ASSUME NEW lru \in Seq(EntrySet), NEW e \in EntrySet
  PROVE  Bytes(<<e>> \o lru) = Bytes(lru) + e.size
<1> DEFINE r == <<e>> \o lru
           N == Len(lru)
<1>1. /\ r \in Seq(EntrySet) /\ Len(r) = N + 1 /\ N \in Nat /\ r[1] = e /\ e.size \in Nat
      /\ \A k \in 1..N : r[k + 1] = lru[k]
      /\ \A k \in 1..N : lru[k].size \in Nat
  <2>1. e.size \in Nat
    BY DEF EntrySet
  <2> QED BY <2>1, PushFrontProperties, EntryTypes
<1>2. PICK f : Sums(f, lru) /\ Bytes(lru) = f[N]
  BY BytesIsSum
<1> HIDE DEF r
<1>3. PICK g : Sums(g, r) /\ Bytes(r) = g[N + 1]
  BY <1>1, BytesIsSum
<1> HIDE DEF N
<1>4. /\ f \in [0..N -> Nat] /\ f[0] = 0 /\ \A n \in 1..N : f[n] = f[n - 1] + lru[n].size
      /\ g \in [0..(N + 1) -> Nat] /\ g[0] = 0
      /\ \A n \in 1..(N + 1) : g[n] = g[n - 1] + r[n].size
  BY <1>1, <1>2, <1>3 DEF Sums, N
<1> DEFINE T == {k \in 0..N : g[k + 1] = f[k] + e.size}
<1>5. \A k \in 0..N : k \in T
  <2>1. 0 \in T
    BY <1>1, <1>4
  <2>2. ASSUME NEW k \in 1..N, k - 1 \in T PROVE k \in T
    <3>1. /\ g[k + 1] = g[k] + r[k + 1].size /\ f[k] = f[k - 1] + lru[k].size
          /\ f[k - 1] \in Nat /\ g[k] = f[k - 1] + e.size /\ r[k + 1] = lru[k]
          /\ lru[k].size \in Nat
      BY <1>1, <1>4, <2>2
    <3> QED BY <1>1, <3>1
  <2> HIDE DEF T
  <2> QED BY <1>1, <2>1, <2>2, InductionUpTo
<1>6. g[N + 1] = f[N] + e.size
  BY <1>1, <1>5
<1> QED BY <1>2, <1>3, <1>6 DEF r

\* What a cache holds, and that it holds and counts it rightly but for the limit.
Entries(c) == {c.lru[i] : i \in DOMAIN c.lru}

Counted(c) ==
  /\ c \in CacheSet
  /\ c.used = Bytes(c.lru)
  /\ \A i, j \in 1..Len(c.lru) : i # j => c.lru[i].path # c.lru[j].path

\* What a cache that counts rightly consists of.
LEMMA CountedParts ==
  ASSUME NEW c, Counted(c)
  PROVE  /\ c.lru \in Seq(EntrySet) /\ c.used \in Nat /\ c = [lru |-> c.lru, used |-> c.used]
         /\ Len(c.lru) \in Nat /\ DOMAIN c.lru = 1..Len(c.lru)
         /\ Entries(c) = {c.lru[i] : i \in 1..Len(c.lru)}
         /\ Entries(c) \subseteq EntrySet
<1>1. c.lru \in Seq(EntrySet) /\ c.used \in Nat /\ c = [lru |-> c.lru, used |-> c.used]
  BY DEF Counted, CacheSet
<1> QED BY <1>1, EntryTypes DEF Entries

\* removeElement keeps the count, and takes out the one entry.
LEMMA RemoveElementKeeps ==
  ASSUME NEW c, Counted(c), NEW i \in 1..Len(c.lru)
  PROVE  /\ Counted(RemoveElement(c, i))
         /\ Len(RemoveElement(c, i).lru) = Len(c.lru) - 1
         /\ RemoveElement(c, i).used =< c.used
         /\ Entries(RemoveElement(c, i)) = Entries(c) \ {c.lru[i]}
<1> DEFINE d == RemoveElement(c, i)
           r == RemoveAt(c.lru, i)
           N == Len(c.lru)
<1>1. c.lru \in Seq(EntrySet) /\ c.used \in Nat /\ N \in Nat /\ DOMAIN c.lru = 1..N
  BY CountedParts
<1>2. /\ r \in Seq(EntrySet) /\ Len(r) = N - 1 /\ DOMAIN r = 1..(N - 1)
      /\ \A k \in 1..(N - 1) : r[k] = IF k < i THEN c.lru[k] ELSE c.lru[k + 1]
  BY <1>1, RemoveAtProperties, EntryTypes
<1>3. /\ Bytes(r) + c.lru[i].size = c.used /\ Bytes(r) \in Nat /\ c.lru[i].size \in Nat
  BY <1>1, <1>2, BytesOfRemoveAt, BytesType, EntryTypes DEF Counted
<1>4. d = [lru |-> r, used |-> Bytes(r)]
  BY <1>1, <1>3 DEF RemoveElement
<1>5. d.lru = r /\ d.used = Bytes(r) /\ d \in CacheSet
  BY <1>2, <1>3, <1>4 DEF CacheSet
<1>6. \A x, y \in 1..N : x # y => c.lru[x].path # c.lru[y].path
  BY DEF Counted
<1> DEFINE from(k) == IF k < i THEN k ELSE k + 1
<1>7. \A k \in 1..(N - 1) : from(k) \in 1..N /\ from(k) # i /\ r[k] = c.lru[from(k)]
  BY <1>1, <1>2
<1>8. \A k, m \in 1..(N - 1) : k # m => from(k) # from(m)
  BY <1>1
<1>9. \A k \in 1..N : k # i => \E m \in 1..(N - 1) : from(m) = k
  <2> SUFFICES ASSUME NEW k \in 1..N, k # i PROVE \E m \in 1..(N - 1) : from(m) = k
    OBVIOUS
  <2>1. CASE k < i
    <3>1. k \in 1..(N - 1) /\ from(k) = k
      BY <1>1, <2>1
    <3> QED BY <3>1
  <2>2. CASE ~(k < i)
    <3>1. k - 1 \in 1..(N - 1) /\ from(k - 1) = k
      BY <1>1, <2>2
    <3> QED BY <3>1
  <2> QED BY <2>1, <2>2
<1> HIDE DEF from, r, d, N
<1>10. \A k, m \in 1..(N - 1) : k # m => r[k].path # r[m].path
  BY <1>6, <1>7, <1>8
<1>11. Counted(d)
  BY <1>2, <1>5, <1>10 DEF Counted
<1>12. Entries(d) = Entries(c) \ {c.lru[i]}
  <2>1. Entries(d) = {r[k] : k \in 1..(N - 1)} /\ Entries(c) = {c.lru[k] : k \in 1..N}
    BY <1>1, <1>2, <1>5 DEF Entries
  <2>2. \A k \in 1..N : k # i => c.lru[k] # c.lru[i]
    BY <1>6 DEF N
  <2>3. ASSUME NEW k \in 1..(N - 1) PROVE r[k] \in Entries(c) \ {c.lru[i]}
    BY <1>7, <2>1, <2>2
  <2>4. ASSUME NEW k \in 1..N, c.lru[k] # c.lru[i] PROVE c.lru[k] \in Entries(d)
    <3>1. k # i
      BY <2>4
    <3>2. PICK m \in 1..(N - 1) : from(m) = k
      BY <1>9, <3>1
    <3> QED BY <1>7, <2>1, <3>2
  <2> QED BY <2>1, <2>3, <2>4
<1>13. Len(d.lru) = N - 1 /\ d.used =< c.used
  BY <1>2, <1>3, <1>5, <1>1
<1> QED BY <1>11, <1>12, <1>13 DEF d, N

\* Whether and where a path is held.
LEMMA WhereHeld ==
  ASSUME NEW c, Counted(c), NEW p
  PROVE  /\ Holds(c, p) <=> \E e \in Entries(c) : e.path = p
         /\ Holds(c, p) => /\ IndexOf(c, p) \in 1..Len(c.lru)
                           /\ EntryOf(c, p) = c.lru[IndexOf(c, p)]
                           /\ EntryOf(c, p) \in Entries(c) /\ EntryOf(c, p).path = p
                           /\ \A e \in Entries(c) : e.path = p => e = EntryOf(c, p)
<1>1. At(c, p) = {i \in 1..Len(c.lru) : c.lru[i].path = p}
  BY CountedParts DEF At
<1>2. Entries(c) = {c.lru[i] : i \in 1..Len(c.lru)}
  BY CountedParts
<1>3. Holds(c, p) => IndexOf(c, p) \in At(c, p)
  BY DEF Holds, IndexOf
<1>4. \A i, j \in 1..Len(c.lru) : i # j => c.lru[i].path # c.lru[j].path
  BY DEF Counted
<1>5. Holds(c, p) <=> \E e \in Entries(c) : e.path = p
  BY <1>1, <1>2 DEF Holds
<1>6. ASSUME Holds(c, p)
      PROVE  /\ IndexOf(c, p) \in 1..Len(c.lru) /\ EntryOf(c, p) = c.lru[IndexOf(c, p)]
             /\ EntryOf(c, p) \in Entries(c) /\ EntryOf(c, p).path = p
             /\ \A e \in Entries(c) : e.path = p => e = EntryOf(c, p)
  <2>1. IndexOf(c, p) \in 1..Len(c.lru) /\ c.lru[IndexOf(c, p)].path = p
    BY <1>1, <1>3, <1>6
  <2>2. EntryOf(c, p) = c.lru[IndexOf(c, p)]
    BY DEF EntryOf
  <2> QED BY <1>2, <1>4, <2>1, <2>2
<1> QED BY <1>5, <1>6

\* Invalidate takes away what is held for the path and no more.
LEMMA InvalidateKeepsCount ==
  ASSUME NEW c, Counted(c), NEW p
  PROVE  /\ Counted(Invalidate(c, p))
         /\ Invalidate(c, p).used =< c.used
         /\ Entries(Invalidate(c, p)) = {e \in Entries(c) : e.path # p}
<1>1. c.used \in Nat
  BY CountedParts
<1>2. CASE Holds(c, p)
  <2>1. /\ IndexOf(c, p) \in 1..Len(c.lru) /\ EntryOf(c, p).path = p
        /\ EntryOf(c, p) = c.lru[IndexOf(c, p)]
        /\ \A e \in Entries(c) : e.path = p => e = EntryOf(c, p)
    BY <1>2, WhereHeld
  <2>2. Invalidate(c, p) = RemoveElement(c, IndexOf(c, p))
    BY <1>2 DEF Invalidate
  <2>3. /\ Counted(Invalidate(c, p)) /\ Invalidate(c, p).used =< c.used
        /\ Entries(Invalidate(c, p)) = Entries(c) \ {EntryOf(c, p)}
    BY <2>1, <2>2, RemoveElementKeeps
  <2> QED BY <2>1, <2>3
<1>3. CASE ~Holds(c, p)
  <2>1. Invalidate(c, p) = c
    BY <1>3 DEF Invalidate
  <2>2. \A e \in Entries(c) : e.path # p
    BY <1>3, WhereHeld
  <2> QED BY <1>1, <2>1, <2>2
<1> QED BY <1>2, <1>3

\* A new entry at the front, for a path that has none.
PushFront(c, e) == [lru |-> <<e>> \o c.lru, used |-> c.used + e.size]

\* An entry for a path that has none is counted.
LEMMA PushFrontKeepsCount ==
  ASSUME NEW c, Counted(c), NEW e \in EntrySet, \A x \in Entries(c) : x.path # e.path
  PROVE  Counted(PushFront(c, e)) /\ Entries(PushFront(c, e)) = Entries(c) \cup {e}
<1> DEFINE r == <<e>> \o c.lru
           d == [lru |-> r, used |-> c.used + e.size]
           N == Len(c.lru)
<1>1. /\ c.lru \in Seq(EntrySet) /\ c.used \in Nat /\ N \in Nat
      /\ Entries(c) = {c.lru[i] : i \in 1..N}
  BY CountedParts
<1>2. e.size \in Nat
  BY DEF EntrySet
<1>3. /\ r \in Seq(EntrySet) /\ Len(r) = N + 1 /\ r[1] = e /\ \A k \in 1..N : r[k + 1] = c.lru[k]
      /\ DOMAIN r = 1..(N + 1)
  BY <1>1, PushFrontProperties, EntryTypes
<1>4. Bytes(r) = c.used + e.size
  BY <1>1, BytesOfPushFront DEF Counted
<1>5. d.lru = r /\ d.used = c.used + e.size /\ d \in CacheSet
  BY <1>1, <1>2, <1>3 DEF CacheSet
<1> HIDE DEF r, d
<1>6. ASSUME NEW k \in 1..(N + 1) PROVE k = 1 \/ (k - 1 \in 1..N /\ r[k] = c.lru[k - 1])
  <2>1. k # 1 => k - 1 \in 1..N /\ (k - 1) + 1 = k
    BY <1>1
  <2> QED BY <1>3, <2>1
<1>7. \A i, j \in 1..N : i # j => c.lru[i].path # c.lru[j].path
  BY DEF Counted
<1>8. ASSUME NEW k \in 1..(N + 1), NEW m \in 1..(N + 1), k # m PROVE r[k].path # r[m].path
  <2>1. \A x \in 1..N : c.lru[x].path # e.path
    BY <1>1
  <2>2. CASE k = 1
    BY <1>3, <1>6, <1>8, <2>1, <2>2
  <2>3. CASE m = 1
    BY <1>3, <1>6, <1>8, <2>1, <2>3
  <2>4. CASE k # 1 /\ m # 1
    <3>1. k - 1 # m - 1
      BY <1>1, <1>8
    <3> QED BY <1>6, <1>7, <2>4, <3>1
  <2> QED BY <2>2, <2>3, <2>4
<1>9. Counted(d)
  BY <1>3, <1>4, <1>5, <1>8 DEF Counted
<1>10. Entries(d) = Entries(c) \cup {e}
  <2>1. Entries(d) = {r[k] : k \in 1..(N + 1)}
    BY <1>3, <1>5 DEF Entries
  <2>2. ASSUME NEW k \in 1..(N + 1) PROVE r[k] \in Entries(c) \cup {e}
    BY <1>1, <1>3, <1>6
  <2>3. e \in Entries(d)
    <3>1. 1 \in 1..(N + 1)
      BY <1>1
    <3> QED BY <1>3, <2>1, <3>1
  <2>4. ASSUME NEW k \in 1..N PROVE c.lru[k] \in Entries(d)
    <3>1. k + 1 \in 1..(N + 1)
      BY <1>1
    <3> QED BY <1>3, <2>1, <3>1
  <2> QED BY <1>1, <2>1, <2>2, <2>3, <2>4
<1> QED BY <1>9, <1>10 DEF d, r, PushFront

\* Get moves an entry to the front or drops it.
LEMMA GetKeepsCount ==
  ASSUME NEW c, Counted(c), NEW p, NEW sig
  PROVE  /\ Counted(Get(c, p, sig))
         /\ Get(c, p, sig).used =< c.used
         /\ Entries(Get(c, p, sig)) \subseteq Entries(c)
<1>1. CASE Hit(c, p, sig)
  <2> DEFINE i == IndexOf(c, p)
             d == RemoveElement(c, i)
             e == c.lru[i]
  <2>1. i \in 1..Len(c.lru) /\ EntryOf(c, p) = e /\ e \in Entries(c) /\ Entries(c) \subseteq EntrySet
    BY <1>1, WhereHeld, CountedParts DEF Hit
  <2>2. /\ c.lru \in Seq(EntrySet) /\ c.used \in Nat /\ e \in EntrySet /\ e.size \in Nat
    BY <2>1, CountedParts, EntryTypes
  <2>3. Counted(d) /\ Entries(d) = Entries(c) \ {e}
    BY <2>1, RemoveElementKeeps
  <2>4. d.lru = RemoveAt(c.lru, i) /\ d.used = Bytes(d.lru) /\ d.used + e.size = c.used
    <3>1. d.lru = RemoveAt(c.lru, i)
      BY DEF RemoveElement
    <3> QED BY <2>1, <2>2, <2>3, <3>1, BytesOfRemoveAt DEF Counted
  <2>5. \A x \in Entries(d) : x.path # e.path
    <3>1. \A x \in Entries(c) : x.path = p => x = e
      BY <1>1, <2>1, WhereHeld DEF Hit
    <3>2. e.path = p
      BY <1>1, <2>1, WhereHeld DEF Hit
    <3> QED BY <2>3, <3>1, <3>2
  <2>6. Get(c, p, sig) = PushFront(d, e)
    <3>1. Get(c, p, sig) = [c EXCEPT !.lru = <<e>> \o RemoveAt(@, i)]
      BY <1>1, <2>1 DEF Get
    <3>2. c = [lru |-> c.lru, used |-> c.used]
      BY CountedParts
    <3> QED BY <2>4, <3>1, <3>2 DEF PushFront
  <2> HIDE DEF d, e, i
  <2>7. Counted(Get(c, p, sig)) /\ Entries(Get(c, p, sig)) = Entries(d) \cup {e}
    BY <2>2, <2>3, <2>5, <2>6, PushFrontKeepsCount
  <2>8. Get(c, p, sig).used = c.used
    BY <2>4, <2>6 DEF PushFront
  <2> QED BY <2>1, <2>2, <2>3, <2>7, <2>8
<1>2. CASE ~Hit(c, p, sig)
  <2>1. Get(c, p, sig) = Invalidate(c, p)
    BY <1>2 DEF Get
  <2> QED BY <2>1, InvalidateKeepsCount
<1> QED BY <1>1, <1>2


\* evictLocked comes to an end within the limit.
LEMMA EvictKeepsCount ==
  ASSUME NEW c, Counted(c)
  PROVE  /\ Counted(Evict(c)) /\ Evict(c).used =< CacheMax
         /\ Entries(Evict(c)) \subseteq Entries(c)
<1> DEFINE N == Len(c.lru)
           S == {d \in CacheSet : Counted(d)}
           G == [x \in (1..N) \X S |-> EvictBack(x[2])]
           IsLoop(f) == f = [n \in 0..N |-> IF n = 0 THEN c ELSE EvictBack(f[n - 1])]
<1>1. c \in S /\ N \in Nat /\ CacheMax \in Nat
  BY CountedParts, CacheMaxAssumption DEF Counted
<1>2. ASSUME NEW d \in S
      PROVE  /\ EvictBack(d) \in S /\ Entries(EvictBack(d)) \subseteq Entries(d)
             /\ d.used =< CacheMax => EvictBack(d) = d
             /\ \/ EvictBack(d).used =< CacheMax
                \/ Len(EvictBack(d).lru) = Len(d.lru) - 1
  <2>1. Len(d.lru) \in Nat /\ d.used \in Nat /\ d.lru \in Seq(EntrySet) /\ Counted(d)
    BY CountedParts
  <2>2. CASE d.used > CacheMax /\ d.lru # <<>>
    <3>1. Len(d.lru) \in 1..Len(d.lru)
      BY <2>1, <2>2, EmptySeq
    <3>2. EvictBack(d) = RemoveElement(d, Len(d.lru))
      BY <2>2 DEF EvictBack
    <3>3. /\ Counted(EvictBack(d)) /\ Entries(EvictBack(d)) \subseteq Entries(d)
          /\ Len(EvictBack(d).lru) = Len(d.lru) - 1
      BY <2>1, <3>1, <3>2, RemoveElementKeeps
    <3> QED BY <1>1, <2>1, <2>2, <3>3 DEF Counted
  <2>3. CASE ~(d.used > CacheMax /\ d.lru # <<>>)
    <3>1. EvictBack(d) = d
      BY <2>3 DEF EvictBack
    <3>2. d.lru = <<>> => d.used = 0
      BY <2>1, BytesOfEmpty DEF Counted
    <3> QED BY <1>1, <2>1, <2>3, <3>1, <3>2
  <2> QED BY <2>2, <2>3
<1>3. G \in [(1..N) \X S -> S]
  BY <1>2
<1>4. PICK f : Iterates(f, S, N, c, G)
  <2> HIDE DEF G, N, S
  <2> QED BY <1>1, <1>3, IterationExists
<1> HIDE DEF S
<1>5. IsLoop(f)
  <2>1. f \in [0..N -> S] /\ f[0] = c /\ \A n \in 1..N : f[n] = G[<<n, f[n - 1]>>]
    BY <1>4 DEF Iterates
  <2>2. ASSUME NEW n \in 1..N PROVE f[n] = EvictBack(f[n - 1])
    <3>1. <<n, f[n - 1]>> \in (1..N) \X S
      BY <1>1, <2>1
    <3> QED BY <2>1, <3>1
  <2> QED BY <1>1, <2>1, <2>2
<1> DEFINE g == CHOOSE h : IsLoop(h)
<1>6. IsLoop(g)
  BY <1>5
<1>7. Evict(c) = g[N]
  BY DEF Evict
<1> HIDE DEF g, G
<1>8. g[0] = c /\ \A n \in 1..N : g[n] = EvictBack(g[n - 1])
  BY <1>1, <1>6
<1> DEFINE T == {n \in 0..N : /\ g[n] \in S /\ Entries(g[n]) \subseteq Entries(c)
                              /\ g[n].used =< CacheMax \/ Len(g[n].lru) = N - n}
<1>9. \A n \in 0..N : n \in T
  <2>1. 0 \in T
    BY <1>1, <1>8
  <2>2. ASSUME NEW n \in 1..N, n - 1 \in T PROVE n \in T
    <3>1. /\ g[n - 1] \in S /\ Entries(g[n - 1]) \subseteq Entries(c)
          /\ g[n - 1].used =< CacheMax \/ Len(g[n - 1].lru) = N - (n - 1)
      BY <2>2
    <3>2. g[n] = EvictBack(g[n - 1]) /\ n \in 0..N /\ n \in Nat
      BY <1>1, <1>8
    <3>3. g[n] \in S /\ Entries(g[n]) \subseteq Entries(c)
      BY <1>2, <3>1, <3>2
    <3>4. g[n].used =< CacheMax \/ Len(g[n].lru) = N - n
      <4>1. CASE g[n - 1].used =< CacheMax
        BY <1>2, <3>1, <3>2, <4>1
      <4>2. CASE Len(g[n - 1].lru) = N - (n - 1)
        <5>1. g[n].used =< CacheMax \/ Len(g[n].lru) = Len(g[n - 1].lru) - 1
          BY <1>2, <3>1, <3>2
        <5>2. (N - (n - 1)) - 1 = N - n
          BY <1>1, <3>2
        <5> QED BY <4>2, <5>1, <5>2
      <4> QED BY <3>1, <4>1, <4>2
    <3> QED BY <3>2, <3>3, <3>4
  <2> HIDE DEF T
  <2> QED BY <1>1, <2>1, <2>2, InductionUpTo
<1>10. /\ g[N] \in S /\ Entries(g[N]) \subseteq Entries(c)
       /\ g[N].used =< CacheMax \/ Len(g[N].lru) = 0
  BY <1>1, <1>9
<1>11. Counted(g[N])
  BY <1>10 DEF S
<1>12. g[N].used =< CacheMax
  <2>1. CASE Len(g[N].lru) = 0
    <3>1. g[N].lru = <<>>
      BY <1>11, <2>1, CountedParts, EmptySeq
    <3> QED BY <1>1, <1>11, <3>1, BytesOfEmpty DEF Counted
  <2> QED BY <1>10, <2>1
<1> QED BY <1>7, <1>10, <1>11, <1>12


\* InvalidatePrefix leaves nothing of what is below the path.
LEMMA PrefixKeepsCount ==
  ASSUME NEW c, Counted(c), NEW p
  PROVE  /\ Counted(InvalidatePrefix(c, p))
         /\ InvalidatePrefix(c, p).used =< c.used
         /\ Entries(InvalidatePrefix(c, p)) \subseteq {e \in Entries(c) : ~Within(p, e.path)}
<1> DEFINE N == Len(c.lru)
           S == {d \in CacheSet : Counted(d)}
           Swept(n, d) == LET path == c.lru[n].path IN
                            IF Within(p, path) THEN Invalidate(d, path) ELSE d
           G == [x \in (1..N) \X S |-> Swept(x[1], x[2])]
           IsLoop(f) == f = [n \in 0..N |-> IF n = 0 THEN c ELSE Swept(n, f[n - 1])]
<1>1. c \in S /\ N \in Nat /\ c.used \in Nat
  BY CountedParts DEF Counted
<1>2. ASSUME NEW d \in S, NEW n \in 1..N
      PROVE  /\ Swept(n, d) \in S /\ Entries(Swept(n, d)) \subseteq Entries(d)
             /\ Swept(n, d).used =< d.used /\ Swept(n, d).used \in Nat /\ d.used \in Nat
             /\ Within(p, c.lru[n].path) => \A e \in Entries(Swept(n, d)) : e.path # c.lru[n].path
  <2>1. Counted(d) /\ d.used \in Nat
    BY CountedParts
  <2>2. CASE Within(p, c.lru[n].path)
    <3>1. Swept(n, d) = Invalidate(d, c.lru[n].path)
      BY <2>2
    <3>2. /\ Counted(Swept(n, d)) /\ Swept(n, d).used =< d.used
          /\ Entries(Swept(n, d)) = {e \in Entries(d) : e.path # c.lru[n].path}
      BY <2>1, <3>1, InvalidateKeepsCount
    <3>3. Swept(n, d) \in CacheSet /\ Swept(n, d).used \in Nat
      BY <3>2, CountedParts DEF Counted
    <3> QED BY <2>1, <3>2, <3>3
  <2>3. CASE ~Within(p, c.lru[n].path)
    <3>1. Swept(n, d) = d
      BY <2>3
    <3> QED BY <2>1, <2>3, <3>1
  <2> QED BY <2>2, <2>3
<1> HIDE DEF Swept
<1>3. G \in [(1..N) \X S -> S]
  BY <1>2
<1>4. PICK f : Iterates(f, S, N, c, G)
  <2> HIDE DEF G, N, S
  <2> QED BY <1>1, <1>3, IterationExists
<1> HIDE DEF S
<1>5. IsLoop(f)
  <2>1. f \in [0..N -> S] /\ f[0] = c /\ \A n \in 1..N : f[n] = G[<<n, f[n - 1]>>]
    BY <1>4 DEF Iterates
  <2>2. ASSUME NEW n \in 1..N PROVE f[n] = Swept(n, f[n - 1])
    <3>1. <<n, f[n - 1]>> \in (1..N) \X S
      BY <1>1, <2>1
    <3> QED BY <2>1, <3>1
  <2> QED BY <1>1, <2>1, <2>2
<1> DEFINE g == CHOOSE h : IsLoop(h)
<1>6. IsLoop(g)
  BY <1>5
<1>7. InvalidatePrefix(c, p) = g[N]
  BY DEF InvalidatePrefix, Swept
<1> HIDE DEF g, G
<1>8. g[0] = c /\ \A n \in 1..N : g[n] = Swept(n, g[n - 1])
  <2>1. g[0] = c
    BY <1>1, <1>6
  <2>2. ASSUME NEW n \in 1..N PROVE g[n] = Swept(n, g[n - 1])
    <3>1. n \in 0..N /\ n # 0
      BY <1>1
    <3>2. g[n] = [m \in 0..N |-> IF m = 0 THEN c ELSE Swept(m, g[m - 1])][n]
      BY <1>6, Zenon
    <3> QED BY <3>1, <3>2
  <2> QED BY <2>1, <2>2
<1> DEFINE Gone(k, d) == Within(p, c.lru[k].path) => \A e \in Entries(d) : e.path # c.lru[k].path
           T == {n \in 0..N : /\ g[n] \in S /\ Entries(g[n]) \subseteq Entries(c)
                              /\ g[n].used =< c.used /\ g[n].used \in Nat
                              /\ \A k \in 1..n : Gone(k, g[n])}
<1>9. \A n \in 0..N : n \in T
  <2>1. 0 \in T
    BY <1>1, <1>8
  <2>2. ASSUME NEW n \in 1..N, n - 1 \in T PROVE n \in T
    <3>1. /\ g[n - 1] \in S /\ Entries(g[n - 1]) \subseteq Entries(c) /\ g[n - 1].used =< c.used
          /\ \A k \in 1..(n - 1) : Gone(k, g[n - 1])
      BY <2>2
    <3>2. g[n] = Swept(n, g[n - 1]) /\ n \in 0..N /\ n \in Nat
      BY <1>1, <1>8
    <3>3. /\ g[n] \in S /\ Entries(g[n]) \subseteq Entries(g[n - 1]) /\ Gone(n, g[n])
          /\ g[n].used =< g[n - 1].used /\ g[n].used \in Nat /\ g[n - 1].used \in Nat
      BY <1>2, <3>1, <3>2
    <3>4. g[n].used =< c.used
      BY <1>1, <3>1, <3>3
    <3>5. ASSUME NEW k \in 1..n PROVE Gone(k, g[n])
      <4>1. k = n \/ k \in 1..(n - 1)
        BY <3>2
      <4> QED BY <3>1, <3>3, <4>1
    <3> HIDE DEF Gone
    <3> QED BY <3>1, <3>2, <3>3, <3>4, <3>5
  <2> HIDE DEF T
  <2> QED BY <1>1, <2>1, <2>2, InductionUpTo
<1>10. /\ g[N] \in S /\ Entries(g[N]) \subseteq Entries(c) /\ g[N].used =< c.used
       /\ \A k \in 1..N : Gone(k, g[N])
  BY <1>1, <1>9
<1>11. Counted(g[N])
  BY <1>10 DEF S
<1>12. ASSUME NEW e \in Entries(g[N]) PROVE ~Within(p, e.path)
  <2>1. PICK k \in 1..N : e = c.lru[k]
    BY <1>10, CountedParts
  <2> QED BY <1>10, <2>1
<1> QED BY <1>7, <1>10, <1>11, <1>12

\* Put, for a cache that is within its limit.
LEMMA PutKeepsCount ==
  ASSUME NEW c, Counted(c), c.used =< CacheMax, NEW e \in EntrySet
  PROVE  /\ Counted(Put(c, e)) /\ Put(c, e).used =< CacheMax
         /\ Entries(Put(c, e)) \subseteq {x \in Entries(c) : x.path # e.path} \cup {e}
            \/ Put(c, e) = c
<1>1. CacheMax \in Nat /\ c.used \in Nat
  BY CacheMaxAssumption, CountedParts
<1> DEFINE d == Invalidate(c, e.path)
<1>2. /\ Counted(d) /\ d.used =< c.used /\ d.used \in Nat
      /\ Entries(d) = {x \in Entries(c) : x.path # e.path}
  <2>1. Counted(d) /\ d.used =< c.used /\ Entries(d) = {x \in Entries(c) : x.path # e.path}
    BY InvalidateKeepsCount
  <2> QED BY <2>1, CountedParts
<1>3. CASE CacheMax = 0
  <2>1. Put(c, e) = c
    BY <1>3 DEF Put
  <2> QED BY <2>1
<1>4. CASE CacheMax # 0 /\ e.size > CacheMax
  <2>1. Put(c, e) = d
    BY <1>4 DEF Put
  <2> HIDE DEF d
  <2> QED BY <1>1, <1>2, <2>1
<1>5. CASE CacheMax # 0 /\ ~(e.size > CacheMax)
  <2>1. Put(c, e) = Evict(PushFront(d, e))
    BY <1>5 DEF Put, PushFront
  <2> HIDE DEF d
  <2>2. Counted(PushFront(d, e)) /\ Entries(PushFront(d, e)) = Entries(d) \cup {e}
    BY <1>2, PushFrontKeepsCount
  <2>3. /\ Counted(Put(c, e)) /\ Put(c, e).used =< CacheMax
        /\ Entries(Put(c, e)) \subseteq Entries(d) \cup {e}
    BY <2>1, <2>2, EvictKeepsCount
  <2> QED BY <1>2, <2>3
<1> QED BY <1>3, <1>4, <1>5

\* The cache a session starts with counts rightly.
LEMMA EmptyIsCounted == Counted(EmptyCache) /\ EmptyCache.used = 0 /\ Entries(EmptyCache) = {}
<1>1. EmptyCache.lru = <<>> /\ EmptyCache.used = 0 /\ EmptyCache \in CacheSet
  BY EmptySeq DEF EmptyCache, CacheSet
<1> QED BY <1>1, BytesOfEmpty DEF Counted, Entries

-----------------------------------------------------------------------------
(* The inductive invariant *)

\* What goroutines and messages carry: paths there can be and versions there have
\* been.  Nothing is moved below itself.
Ops == {"create", "mkdir", "write", "truncate", "remove", "rename", "read", "chunk"}
CallSet == {c \in [op: Ops, path: Paths, to: Paths, ver: 0..last] :
              IF c.op = "rename" THEN ~Within(c.path, c.to) ELSE c.to = c.path}
AnswerSet == [ok: BOOLEAN, dir: BOOLEAN, ver: 0..last]
ChangeSet == [kind: {"delete", "modify"}, path: Paths, dir: BOOLEAN, ver: 0..last]
NoteSet == [path: Paths, kind: {"create", "write", "remove"}, by: {"agent", "user"}]
MessageSet == [to: Procs, answer: AnswerSet] \cup [to: {None}, change: ChangeSet]
Places == {"idle", "started", "waiting", "answered"}

DiskTypes == last \in 0..MaxVer /\ disk \in [Paths -> (1..last) \cup {Absent, Dir}]
ProcTypes ==
  /\ pc \in [Procs -> Places]
  /\ DOMAIN call = Procs
  /\ \A r \in Procs : pc[r] # "idle" => call[r] \in CallSet
  /\ reply \in [Procs -> AnswerSet]
LinkTypes == down \in Seq(Procs) /\ up \in Seq(MessageSet)
WatchTypes == notes \in Seq(NoteSet) /\ events \in Seq(ChangeSet)

\* A change that was made is the one the first request asks for.
MadeInv == made => down # <<>>

Types == DiskTypes /\ ProcTypes /\ LinkTypes /\ WatchTypes /\ MadeInv

TreeInv == Good(tree) /\ Knows(tree, last)

\* What exists is in a directory.
WellFormed(d) == \A p \in Paths : d[p] # Absent => ParentOf(p) = Root \/ d[ParentOf(p)] = Dir
DiskInv == WellFormed(disk)

\* A request or an answer on its way belongs to a goroutine that waits for it,
\* and there is one of the two for it and no more.
RequestsWait ==
  \A i \in 1..Len(down) :
    /\ pc[down[i]] = "waiting"
    /\ \A j \in 1..Len(down) : down[j] = down[i] => j = i
AnswersWait ==
  \A i \in 1..Len(up) : up[i].to \in Procs =>
    /\ pc[up[i].to] = "waiting"
    /\ \A j \in 1..Len(up) : up[j].to = up[i].to => j = i
OneOfTheTwo == \A i \in 1..Len(down), j \in 1..Len(up) : down[i] # up[j].to
QueueInv == RequestsWait /\ AnswersWait /\ OneOfTheTwo

\* The cache counts its bytes rightly and keeps to its limit, and holds what was read.
CacheInv ==
  /\ Counted(cache) /\ cache.used =< CacheMax
  /\ \A x \in Entries(cache) : x.path \in Paths

\* The answers for a goroutine that are on their way or have arrived.
Carried(r) == {m.answer : m \in {x \in Range(up) : x.to = r}}
                \cup {a \in {reply[r]} : pc[r] = "answered"}

\* The inductive invariant.
IInv == Types /\ TreeInv /\ QueueInv /\ PrefetchOnce /\ DiskInv /\ CacheInv

\* The newest version a scan finds.
LEMMA NewestScanned ==
  LET n == Max({0} \cup {VerOf(InitialDisk, p) : p \in Paths}) IN
    n \in 0..MaxVer /\ \A p \in Paths : VerOf(InitialDisk, p) =< n
<1> DEFINE V == {0} \cup {VerOf(InitialDisk, p) : p \in Paths}
           B == {k \in Nat : \A v \in V : v =< k}
<1>1. MaxVer \in Nat /\ \A v \in V : v \in 0..MaxVer
  BY MirrorAssumption DEF VerOf, Versions
<1>2. PICK b \in B : \A k \in B : b =< k
  <2>1. MaxVer \in B /\ B \subseteq Nat
    BY <1>1
  <2> HIDE DEF B
  <2> QED BY <2>1, Least
<1>3. b \in V
  <2>1. SUFFICES ASSUME b \notin V PROVE FALSE
    OBVIOUS
  <2>2. \A v \in V : v =< b /\ v # b /\ v \in Nat
    BY <1>1, <1>2, <2>1
  <2>3. 0 \in V
    OBVIOUS
  <2> HIDE DEF V
  <2>4. b \in Nat /\ b # 0 /\ b - 1 \in Nat /\ ~(b =< b - 1)
    BY <1>2, <2>2, <2>3
  <2>5. \A v \in V : v =< b - 1
    BY <2>2, <2>4
  <2> QED BY <1>2, <2>4, <2>5
<1>4. Max(V) \in V /\ \A v \in V : Max(V) >= v
  <2>1. \A v \in V : b >= v
    BY <1>1, <1>2
  <2> HIDE DEF V, B
  <2> QED BY <1>3, <2>1 DEF Max
<1>5. \A p \in Paths : VerOf(InitialDisk, p) \in V
  OBVIOUS
<1> HIDE DEF V
<1>6. Max(V) \in 0..MaxVer /\ \A p \in Paths : VerOf(InitialDisk, p) =< Max(V)
  BY <1>1, <1>4, <1>5
<1> QED BY <1>6 DEF V

\* The initial states satisfy the inductive invariant.
LEMMA InitIInv == Init => IInv
<1> SUFFICES ASSUME Init PROVE IInv
  OBVIOUS
<1>0. /\ last \in 0..MaxVer /\ last \in Nat /\ \A p \in Paths : VerOf(InitialDisk, p) =< last
  <2>1. last = Max({0} \cup {VerOf(InitialDisk, p) : p \in Paths})
    BY DEF Init
  <2>2. MaxVer \in Nat
    BY MirrorAssumption
  <2> QED BY <2>1, <2>2, NewestScanned
<1>1. ProcTypes
  <2>1. Silence \in AnswerSet
    BY <1>0 DEF Silence, Answer, AnswerSet
  <2> QED BY <2>1 DEF Init, ProcTypes, Places
<1>2. LinkTypes /\ WatchTypes
  BY EmptySeq DEF Init, LinkTypes, WatchTypes
<1>3. TreeInv
  BY <1>0, ReplaceTreeIsGood DEF Init, TreeInv
<1>4. QueueInv
  BY DEF Init, QueueInv, RequestsWait, AnswersWait, OneOfTheTwo
<1>5. PrefetchOnce
  <2>1. \A f \in Fetchers : pc[f] = "idle"
    BY DEF Init, Procs
  <2> QED BY <2>1 DEF Init, PrefetchOnce
<1>6. DiskTypes
  <2>1. disk = InitialDisk /\ disk \in [Paths -> Versions \cup {Absent, Dir}] /\ MaxVer \in Nat
    BY MirrorAssumption DEF Init
  <2>2. ASSUME NEW p \in Paths PROVE disk[p] \in (1..last) \cup {Absent, Dir}
    <3>1. CASE disk[p] \in Versions
      <4>1. disk[p] =< last
        BY <1>0, <2>1, <3>1 DEF VerOf
      <4> QED BY <1>0, <2>1, <3>1, <4>1 DEF Versions
    <3> QED BY <2>1, <3>1
  <2> QED BY <1>0, <2>1, <2>2 DEF DiskTypes
<1>7. DiskInv
  BY MirrorAssumption DEF Init, DiskInv, WellFormed
<1>8. CacheInv
  BY EmptyIsCounted, CacheMaxAssumption DEF Init, CacheInv
<1>9. MadeInv
  BY DEF Init, MadeInv
<1> QED BY <1>1, <1>2, <1>3, <1>4, <1>5, <1>6, <1>7, <1>8, <1>9 DEF IInv, Types

-----------------------------------------------------------------------------
(* The workspace *)

\* Above what exists there are directories.
LEMMA DirsAbove ==
  ASSUME NEW d, WellFormed(d), NEW p \in Paths, d[p] # Absent,
         NEW q \in Path, q # Root, Within(q, p), q # p
  PROVE  q \in Paths /\ d[q] = Dir
<1>0. /\ p \in Path /\ Len(p) \in Nat \ {0} /\ Len(q) \in Nat \ {0} /\ Len(q) < Len(p)
      /\ SubSeq(p, 1, Len(q)) = q
  BY PathsType, ParentProperties, WithinParent DEF Within
<1> DEFINE at(k) == SubSeq(p, 1, Len(p) - k)
           T == {k \in 0..(Len(p) - 1) :
                   at(k) \in Paths /\ d[at(k)] # Absent /\ (k # 0 => d[at(k)] = Dir)}
<1>1. 0 \in T
  <2>1. at(0) = p
    BY <1>0, ExtremePrefixes, Len(p) - 0 = Len(p)
  <2>2. 0 \in 0..(Len(p) - 1)
    BY <1>0
  <2> HIDE DEF at
  <2> QED BY <2>1, <2>2
<1>2. ASSUME NEW k \in 1..(Len(p) - 1), k - 1 \in T PROVE k \in T
  <2>1. /\ Len(p) - (k - 1) \in 1..Len(p) /\ k \in 0..(Len(p) - 1) /\ k # 0
        /\ Len(p) - k \in 1..Len(p) /\ (Len(p) - (k - 1)) - 1 = Len(p) - k
    BY <1>0
  <2>2. ParentOf(at(k - 1)) = at(k)
    BY <1>0, <2>1, ParentOfPrefix
  <2>3. at(k) \in Paths
    BY <2>1, PrefixInPaths
  <2>4. at(k - 1) \in Paths /\ d[at(k - 1)] # Absent
    BY <1>2
  <2> HIDE DEF at
  <2>5. d[at(k)] = Dir
    BY <2>2, <2>3, <2>4, PathsType DEF WellFormed
  <2>6. d[at(k)] # Absent
    BY <2>5, MirrorAssumption
  <2> QED BY <2>1, <2>3, <2>5, <2>6
<1>3. \A k \in 0..(Len(p) - 1) : k \in T
  <2>1. Len(p) - 1 \in Nat
    BY <1>0
  <2> HIDE DEF T
  <2> QED BY <1>1, <1>2, <2>1, InductionUpTo
<1>4. /\ Len(p) - Len(q) \in 0..(Len(p) - 1) /\ Len(p) - Len(q) # 0
      /\ Len(p) - (Len(p) - Len(q)) = Len(q)
  BY <1>0
<1>5. at(Len(p) - Len(q)) = q
  BY <1>0, <1>4
<1> HIDE DEF at
<1> QED BY <1>3, <1>4, <1>5

\* Where something that is found below q came from when p was renamed to q.
Source(p, q, y) == p \o SubSeq(y, Len(q) + 1, Len(y))

\* It is a path, and starts with the old name of the directory.
LEMMA SourceShape ==
  ASSUME NEW p \in Path, p # Root, NEW q \in Path, NEW y \in Path, Within(q, y)
  PROVE  /\ Len(p) \in Nat \ {0} /\ Len(q) \in Nat /\ Len(y) \in Nat /\ Len(q) =< Len(y)
         /\ Source(p, q, y) \in Path /\ Len(Source(p, q, y)) = Len(p) + (Len(y) - Len(q))
         /\ \A i \in 1..Len(p) : Source(p, q, y)[i] = p[i]
         /\ \A i \in 1..(Len(y) - Len(q)) : Source(p, q, y)[Len(p) + i] = y[Len(q) + i]
<1>0. Len(p) \in Nat \ {0} /\ Len(q) \in Nat /\ Len(y) \in Nat /\ Len(q) =< Len(y)
  BY ParentProperties, LenProperties DEF Within, Path
<1> DEFINE s == SubSeq(y, Len(q) + 1, Len(y))
<1>1. s \in Path /\ Len(s) = Len(y) - Len(q) /\ \A i \in 1..(Len(y) - Len(q)) : s[i] = y[Len(q) + i]
  <2>1. \A i \in 1..Len(y) : y[i] \in STRING
    BY ElementOfSeq DEF Path
  <2> QED BY <1>0, <2>1, SubSeqProperties DEF Path
<1>2. /\ Source(p, q, y) \in Path /\ Len(Source(p, q, y)) = Len(p) + (Len(y) - Len(q))
      /\ \A i \in 1..Len(p) : Source(p, q, y)[i] = p[i]
      /\ \A i \in 1..(Len(y) - Len(q)) : Source(p, q, y)[Len(p) + i] = y[Len(q) + i]
  <2> HIDE DEF s
  <2>1. p \o s \in Path /\ Len(p \o s) = Len(p) + Len(s)
        /\ \A i \in 1..(Len(p) + Len(s)) : (p \o s)[i] = IF i =< Len(p) THEN p[i] ELSE s[i - Len(p)]
    BY <1>1, ConcatProperties DEF Path
  <2>2. ASSUME NEW i \in 1..(Len(y) - Len(q)) PROVE (p \o s)[Len(p) + i] = y[Len(q) + i]
    <3>1. Len(p) + i \in 1..(Len(p) + Len(s)) /\ ~(Len(p) + i =< Len(p)) /\ (Len(p) + i) - Len(p) = i
      BY <1>0, <1>1
    <3> QED BY <1>1, <2>1, <3>1
  <2>3. \A i \in 1..Len(p) : (p \o s)[i] = p[i]
    BY <1>0, <1>1, <2>1
  <2>4. Source(p, q, y) = p \o s
    BY DEF Source, s
  <2> QED BY <1>1, <2>1, <2>2, <2>3, <2>4
<1> QED BY <1>0, <1>2

\* The path q itself came from p, and what is in a directory from what was in
\* the directory this came from.
LEMMA SourceProperties ==
  ASSUME NEW p \in Path, p # Root, NEW q \in Path, NEW y \in Path, Within(q, y)
  PROVE  /\ Source(p, q, y) \in Path /\ Source(p, q, y) # Root
         /\ y = q => Source(p, q, y) = p
         /\ y # q => ParentOf(Source(p, q, y)) = Source(p, q, ParentOf(y))
<1> DEFINE x == Source(p, q, y)
<1>1. /\ Len(p) \in Nat \ {0} /\ Len(q) \in Nat /\ Len(y) \in Nat /\ Len(q) =< Len(y)
      /\ x \in Path /\ Len(x) = Len(p) + (Len(y) - Len(q))
      /\ \A i \in 1..Len(p) : x[i] = p[i]
      /\ \A i \in 1..(Len(y) - Len(q)) : x[Len(p) + i] = y[Len(q) + i]
  BY SourceShape, Zenon
<1> HIDE DEF x
<1>2. x # Root
  BY <1>1, ExtremePrefixes
<1>3. ASSUME y = q PROVE x = p
  <2>1. Len(x) = Len(p)
    BY <1>1, <1>3
  <2> QED BY <1>1, <2>1, SeqEqual DEF Path
<1>4. ASSUME y # q PROVE ParentOf(x) = Source(p, q, ParentOf(y))
  <2>0. PICK z : z = ParentOf(y)
    OBVIOUS
  <2> DEFINE w == Source(p, q, z)
  <2>1. y # Root /\ Within(q, z)
    BY <1>4, <2>0, WithinParent
  <2>2. z \in Path /\ Len(z) = Len(y) - 1
    BY <2>0, <2>1, ParentProperties
  <2>3. \A i \in 1..(Len(y) - 1) : z[i] = y[i]
    <3>1. Len(y) - 1 \in 0..Len(y)
      BY <1>1, <2>1, ParentProperties
    <3> QED BY <2>0, <3>1, PrefixProperties DEF ParentOf
  <2>4. /\ w \in Path /\ Len(w) = Len(p) + (Len(z) - Len(q)) /\ Len(q) =< Len(z)
        /\ \A i \in 1..Len(p) : w[i] = p[i]
        /\ \A i \in 1..(Len(z) - Len(q)) : w[Len(p) + i] = z[Len(q) + i]
    BY <2>1, <2>2, SourceShape, ZenonT(60)
  <2> HIDE DEF w
  <2> DEFINE v == ParentOf(x)
  <2>5. v \in Path /\ Len(v) = Len(x) - 1
    BY <1>1, <1>2, ParentProperties
  <2>6. \A i \in 1..(Len(x) - 1) : v[i] = x[i]
    <3>1. Len(x) - 1 \in 0..Len(x)
      BY <1>1, <1>2, ParentProperties
    <3> QED BY <1>1, <3>1, PrefixProperties DEF ParentOf
  <2> HIDE DEF v
  <2>7. Len(v) = Len(w)
    BY <1>1, <2>2, <2>4, <2>5
  <2>8. ASSUME NEW i \in 1..Len(v) PROVE v[i] = w[i]
    <3>1. v[i] = x[i]
      BY <2>5, <2>6
    <3>2. CASE i =< Len(p)
      <4>1. i \in 1..Len(p)
        BY <1>1, <3>2
      <4> QED BY <1>1, <2>4, <3>1, <4>1
    <3>3. CASE ~(i =< Len(p))
      <4> DEFINE k == i - Len(p)
      <4>1. /\ k \in 1..(Len(z) - Len(q)) /\ k \in 1..(Len(y) - Len(q)) /\ Len(p) + k = i
            /\ Len(q) + k \in 1..(Len(y) - 1)
        BY <1>1, <2>2, <2>5, <3>3
      <4> HIDE DEF k
      <4>2. w[i] = z[Len(q) + k] /\ x[i] = y[Len(q) + k]
        BY <1>1, <2>4, <4>1
      <4> QED BY <2>3, <3>1, <4>1, <4>2
    <3> QED BY <3>2, <3>3
  <2>9. v = w
    BY <2>4, <2>5, <2>7, <2>8, SeqEqual DEF Path
  <2> QED BY <2>0, <2>9 DEF v, w
<1> QED BY <1>1, <1>2, <1>3, <1>4 DEF x

\* A step of the agent or of the owner on one path, and a rename.
Edits(p, who) ==
  \/ CanWrite(p) /\ DiskWrite(p, who)
  \/ CanMkdir(p) /\ DiskMkdir(p, who)
  \/ CanRemove(p) /\ DiskRemove(p, who)
Moves(p, q, who) == ~Within(p, q) /\ CanRename(p, q) /\ DiskRename(p, q, who)

\* Facts about the places of the workspace.
LEMMA PlaceTypes ==
  ASSUME NEW p \in Paths
  PROVE  /\ p \in Path /\ p # Root /\ Len(p) \in Nat \ {0} /\ Within(p, p)
         /\ ParentOf(p) \in Path /\ ParentOf(p) # p
         /\ ParentOf(p) # Root => ParentOf(p) \in Paths
  BY PathsType, ParentProperties, WithinPrefix, MirrorAssumption

\* A step on one path leaves the workspace well formed, and brings no version
\* that has been there before.
LEMMA EditKeepsDisk ==
  ASSUME DiskTypes, DiskInv, NEW p \in Paths, NEW who, Edits(p, who)
  PROVE  /\ DiskTypes' /\ last =< last' /\ DiskInv'
         /\ \A x \in Paths, v \in 0..last : disk'[x] = v => disk[x] = v
<1>0. /\ last \in Nat /\ MaxVer \in Nat /\ last =< MaxVer
      /\ disk \in [Paths -> (1..last) \cup {Absent, Dir}]
      /\ Absent # Dir /\ Absent \notin Nat /\ Dir \notin Nat
  BY MirrorAssumption DEF DiskTypes
<1>1. PICK what : /\ disk' = [disk EXCEPT ![p] = what]
                  /\ last' = IF what \in Versions THEN what ELSE last
                  /\ \/ what = last + 1 /\ last < MaxVer /\ CanWrite(p)
                     \/ what = Dir /\ CanMkdir(p)
                     \/ what = Absent /\ CanRemove(p)
  BY DEF Edits, DiskWrite, DiskMkdir, DiskRemove, DiskSet
<1>2. \/ what = last' /\ last' = last + 1 /\ last' =< MaxVer
      \/ what \in {Absent, Dir} /\ last' = last
  BY <1>0, <1>1 DEF Versions
<1>3. DiskTypes' /\ last =< last'
  <2>1. last' \in 0..MaxVer /\ last =< last' /\ last' \in Nat
    BY <1>0, <1>2
  <2>2. what \in (1..last') \cup {Absent, Dir}
    BY <1>0, <1>2
  <2>3. 1..last \subseteq 1..last'
    BY <1>0, <2>1
  <2>4. disk' \in [Paths -> (1..last') \cup {Absent, Dir}]
    BY <1>0, <1>1, <2>2, <2>3
  <2> QED BY <2>1, <2>4 DEF DiskTypes
<1>4. ASSUME NEW x \in Paths, NEW v \in 0..last, disk'[x] = v PROVE disk[x] = v
  <2>1. v \in Nat /\ v # last + 1
    BY <1>0
  <2>2. what # v
    BY <1>0, <1>2, <2>1
  <2> QED BY <1>0, <1>1, <1>4, <2>2
<1>5. ASSUME NEW x \in Paths, disk'[x] # Absent PROVE ParentOf(x) = Root \/ disk'[ParentOf(x)] = Dir
  <2>1. SUFFICES ASSUME ParentOf(x) # Root PROVE disk'[ParentOf(x)] = Dir
    OBVIOUS
  <2>2. ParentOf(x) \in Paths /\ ParentOf(x) # x
    BY <2>1, PlaceTypes
  <2>3. CASE x = p
    <3>1. disk[ParentOf(p)] = Dir
      BY <1>0, <1>1, <1>5, <2>1, <2>3 DEF CanWrite, CanMkdir, CanHold, IsDir
    <3> QED BY <1>0, <1>1, <2>2, <2>3, <3>1
  <2>4. CASE x # p
    <3>1. disk[x] # Absent
      BY <1>0, <1>1, <1>5, <2>4
    <3>2. disk[ParentOf(x)] = Dir
      BY <2>1, <3>1 DEF DiskInv, WellFormed
    <3>3. ParentOf(x) # p
      BY <1>0, <1>1, <3>1, <3>2 DEF CanWrite, CanMkdir, CanRemove
    <3> QED BY <1>0, <1>1, <2>2, <3>2, <3>3
  <2> QED BY <2>3, <2>4
<1> QED BY <1>3, <1>4, <1>5 DEF DiskInv, WellFormed

\* Nothing is moved to where it is, nor above itself.
LEMMA MovesApart ==
  ASSUME DiskInv, NEW p \in Paths, NEW q \in Paths, ~Within(p, q), CanRename(p, q)
  PROVE  ~Within(q, p)
<1>1. SUFFICES ASSUME Within(q, p) PROVE FALSE
  OBVIOUS
<1>2. q # p
  BY PlaceTypes
<1>3. disk[q] = Dir
  BY <1>1, <1>2, PlaceTypes, DirsAbove DEF DiskInv, CanRename
<1> QED BY <1>3, MirrorAssumption DEF CanRename

\* A rename leaves the workspace well formed.  A version that comes back to a
\* path comes with what was renamed: to its new name, or below that of a directory.
LEMMA MoveKeepsDisk ==
  ASSUME DiskTypes, DiskInv, NEW p \in Paths, NEW q \in Paths, NEW who, Moves(p, q, who)
  PROVE  /\ DiskTypes' /\ last = last' /\ DiskInv' /\ disk'[q] = disk[p]
         /\ \A x \in Paths : disk'[x] = disk[x] \/ disk'[x] = Absent \/ Within(q, x)
         /\ \A x \in Paths : Within(q, x) /\ x # q /\ disk'[x] # Absent => disk[p] = Dir
<1>0. /\ last \in Nat /\ last =< MaxVer
      /\ disk \in [Paths -> (1..last) \cup {Absent, Dir}]
      /\ Absent # Dir /\ Absent \notin Nat /\ Dir \notin Nat
  BY MirrorAssumption DEF DiskTypes
<1>1. /\ p \in Path /\ p # Root /\ q \in Path /\ q # Root /\ Within(q, q) /\ Within(p, p)
      /\ ~Within(p, q) /\ ~Within(q, p) /\ CanRename(p, q)
  BY PlaceTypes, MovesApart DEF Moves
<1>2. /\ last' = last
      /\ disk' = [x \in Paths |-> IF Within(q, x) /\ Source(p, q, x) \in Paths
                                  THEN disk[Source(p, q, x)]
                                  ELSE IF Within(p, x) THEN Absent ELSE disk[x]]
  BY DEF Moves, DiskRename, Source
<1>3. DiskTypes'
  <2>1. disk' \in [Paths -> (1..last) \cup {Absent, Dir}]
    BY <1>0, <1>2
  <2> QED BY <1>2, <2>1 DEF DiskTypes
<1>4. disk'[q] = disk[p]
  BY <1>1, <1>2, SourceProperties
<1>5. ASSUME NEW x \in Paths, Within(q, x), x # q, disk'[x] # Absent
      PROVE  Source(p, q, x) \in Paths /\ disk[Source(p, q, x)] # Absent
  <2>1. SUFFICES ASSUME Source(p, q, x) \notin Paths PROVE FALSE
    BY <1>2, <1>5
  <2>2. disk[x] # Absent
    BY <1>2, <1>5, <2>1
  <2>3. disk[q] = Dir
    BY <1>1, <1>5, <2>2, DirsAbove DEF DiskInv
  <2> QED BY <1>0, <1>1, <2>3 DEF CanRename
<1>6. ASSUME NEW x \in Paths, disk'[x] # Absent PROVE ParentOf(x) = Root \/ disk'[ParentOf(x)] = Dir
  <2>1. SUFFICES ASSUME ParentOf(x) # Root PROVE disk'[ParentOf(x)] = Dir
    OBVIOUS
  <2>2. x \in Path /\ x # Root /\ ParentOf(x) \in Paths /\ ParentOf(x) \in Path
    BY <2>1, PlaceTypes
  <2>3. CASE x = q
    <3>1. disk[ParentOf(q)] = Dir
      BY <1>1, <2>1, <2>3 DEF CanRename, CanHold, IsDir
    <3>2. ~Within(q, ParentOf(q))
      <4>1. Len(ParentOf(q)) = Len(q) - 1 /\ Len(q) \in Nat
        BY <1>1, ParentProperties
      <4> QED BY <4>1 DEF Within
    <3>3. ~Within(p, ParentOf(q))
      BY <1>1, WithinChild
    <3> QED BY <1>2, <2>2, <2>3, <3>1, <3>2, <3>3
  <2>4. CASE x # q /\ Within(q, x)
    <3> DEFINE s == Source(p, q, x)
    <3>1. s \in Paths /\ disk[s] # Absent
      BY <1>5, <1>6, <2>4
    <3>2. ParentOf(s) = Source(p, q, ParentOf(x)) /\ Within(q, ParentOf(x))
      BY <1>1, <2>2, <2>4, SourceProperties, WithinParent
    <3>3. ParentOf(s) # Root
      BY <1>1, <2>2, <3>2, SourceProperties
    <3> HIDE DEF s
    <3>4. ParentOf(s) \in Paths /\ disk[ParentOf(s)] = Dir
      BY <3>1, <3>3, PlaceTypes DEF DiskInv, WellFormed
    <3> QED BY <1>2, <2>2, <3>2, <3>4
  <2>5. CASE ~Within(q, x)
    <3>1. ~Within(p, x) /\ disk[x] # Absent
      BY <1>2, <1>6, <2>5
    <3>2. disk[ParentOf(x)] = Dir
      BY <2>1, <3>1 DEF DiskInv, WellFormed
    <3>3. ~Within(q, ParentOf(x)) /\ ~Within(p, ParentOf(x))
      BY <1>1, <2>2, <2>5, <3>1, WithinChild
    <3> QED BY <1>2, <2>2, <3>2, <3>3
  <2> QED BY <2>3, <2>4, <2>5
<1>7. DiskInv'
  BY <1>6 DEF DiskInv, WellFormed
<1>8. ASSUME NEW x \in Paths, Within(q, x), x # q, disk'[x] # Absent PROVE disk[p] = Dir
  <2>1. WellFormed(disk')
    BY <1>6 DEF WellFormed
  <2>2. disk'[q] = Dir
    BY <1>1, <1>8, <2>1, DirsAbove
  <2> QED BY <1>4, <2>2
<1>9. \A x \in Paths : disk'[x] = disk[x] \/ disk'[x] = Absent \/ Within(q, x)
  BY <1>2
<1> QED BY <1>2, <1>3, <1>4, <1>7, <1>8, <1>9

\* The request that is served belongs to a goroutine that waits.
LEMMA HeadWaits ==
  ASSUME Types, QueueInv, down # <<>>
  PROVE  /\ Head(down) \in Procs /\ pc[Head(down)] = "waiting"
         /\ call[Head(down)] \in CallSet
<1>1. down \in Seq(Procs) /\ Head(down) \in Procs /\ Head(down) = down[1]
  BY HeadTailProperties DEF Types, LinkTypes
<1>2. 1 \in 1..Len(down)
  BY <1>1, EmptySeq
<1>3. pc[Head(down)] = "waiting"
  BY <1>1, <1>2 DEF QueueInv, RequestsWait
<1> QED BY <1>1, <1>3 DEF Types, ProcTypes

\* The parts of a call.
LEMMA CallParts ==
  ASSUME NEW c \in CallSet
  PROVE  /\ c.op \in Ops /\ c.path \in Paths /\ c.to \in Paths /\ c.ver \in 0..last
         /\ c.op = "rename" => ~Within(c.path, c.to)
         /\ c.op # "rename" => c.to = c.path
  BY DEF CallSet

\* What a handler does to the workspace.
LEMMA EffectSteps ==
  ASSUME NEW c \in CallSet, Effect(c)
  PROVE  \/ UNCHANGED <<disk, last, notes, excused>>
         \/ Edits(c.path, "agent")
         \/ c.op = "rename" /\ Moves(c.path, c.to, "agent")
<1>1. c.op = "rename" => ~Within(c.path, c.to)
  BY CallParts
<1> QED BY <1>1 DEF Effect, Edits, Moves, diskVars

\* What its owner does.
LEMMA LocalSteps ==
  ASSUME LocalEdit
  PROVE  \/ \E p \in Paths : Edits(p, "user")
         \/ \E p, q \in Paths : Moves(p, q, "user")
  BY DEF LocalEdit, Edits, Moves

\* A handler makes the change, or refuses; what answers the first request.
Makes == HandleChange /\ Effect(call[Head(down)]) /\ made' /\ UNCHANGED <<down, up>>
Refuses ==
  /\ HandleChange /\ Respond(FALSE, FALSE, 0)
  /\ UNCHANGED <<diskVars, watched, notes, excused, made>>
Replies == Refuses \/ HandleStat \/ HandleFails \/ HandleRead

LEMMA MakesOrRefuses == HandleChange => Makes \/ Refuses
  BY DEF HandleChange, Makes, Refuses

\* Nobody else changes the workspace.
LEMMA OthersKeepDisk ==
  [Next]_vars => Makes \/ LocalEdit \/ UNCHANGED <<disk, last, by>>
  BY MakesOrRefuses
     DEF Next, vars, diskVars, CallStart, ReadStart, ListDir, CallApply, Prefetch, ReadDone,
         RecvAnswer, AnswerTooLate, RecvChange, Refuses, HandleStat, HandleFails, HandleRead,
         WatchStart, WatchSuppress, WatchOverflow, WatchReport, ForwardEvent

\* The workspace stays well formed, and its versions only grow.
LEMMA DiskStep ==
  ASSUME Types, QueueInv, DiskInv, [Next]_vars
  PROVE  DiskTypes' /\ last =< last' /\ DiskInv' /\ last' \in Nat /\ last \in Nat
<1>0. DiskTypes /\ last \in Nat /\ MaxVer \in Nat
  BY MirrorAssumption DEF Types, DiskTypes
<1> SUFFICES DiskTypes' /\ last =< last' /\ DiskInv'
  BY <1>0 DEF DiskTypes
<1>1. ASSUME NEW p \in Paths, NEW who, Edits(p, who) PROVE DiskTypes' /\ last =< last' /\ DiskInv'
  BY <1>0, <1>1, EditKeepsDisk
<1>2. ASSUME NEW p \in Paths, NEW q \in Paths, NEW who, Moves(p, q, who)
      PROVE  DiskTypes' /\ last =< last' /\ DiskInv'
  BY <1>0, <1>2, MoveKeepsDisk
<1>3. CASE UNCHANGED <<disk, last>>
  BY <1>0, <1>3 DEF DiskTypes, DiskInv, WellFormed
<1>4. CASE Makes
  <2>1. PICK c \in CallSet : Effect(c)
    BY <1>4, HeadWaits DEF Makes, HandleChange
  <2>2. c.path \in Paths /\ c.to \in Paths
    BY CallParts
  <2>3. \/ UNCHANGED <<disk, last>>
        \/ Edits(c.path, "agent")
        \/ Moves(c.path, c.to, "agent")
    BY <2>1, EffectSteps
  <2> QED BY <1>1, <1>2, <1>3, <2>2, <2>3
<1>5. CASE LocalEdit
  <2>1. CASE \E p \in Paths : Edits(p, "user")
    BY <1>1, <2>1
  <2>2. CASE \E p, q \in Paths : Moves(p, q, "user")
    BY <1>2, <2>2
  <2> QED BY <1>0, <1>5, <2>1, <2>2, LocalSteps
<1> QED BY <1>3, <1>4, <1>5, OthersKeepDisk

\* What was a type stays one when there are more versions.
LEMMA TypesGrow ==
  ASSUME last \in Nat, last' \in Nat, last =< last'
  PROVE  /\ 0..last \subseteq 0..last'
         /\ CallSet \subseteq CallSet' /\ AnswerSet \subseteq AnswerSet'
         /\ ChangeSet \subseteq ChangeSet' /\ MessageSet \subseteq MessageSet'
         /\ NoteSet' = NoteSet
         /\ Seq(MessageSet) \subseteq Seq(MessageSet') /\ Seq(ChangeSet) \subseteq Seq(ChangeSet')
<1>1. 0..last \subseteq 0..last'
  OBVIOUS
<1>2. CallSet \subseteq CallSet'
  BY <1>1 DEF CallSet
<1>3. AnswerSet \subseteq AnswerSet'
  BY <1>1 DEF AnswerSet
<1>4. ChangeSet \subseteq ChangeSet'
  BY <1>1 DEF ChangeSet
<1>5. MessageSet \subseteq MessageSet'
  BY <1>3, <1>4 DEF MessageSet
<1>6. NoteSet' = NoteSet
  BY DEF NoteSet
<1> QED BY <1>1, <1>2, <1>3, <1>4, <1>5, <1>6, SeqMonotonic

-----------------------------------------------------------------------------
(* The tree *)

\* Only results and changes touch the tree.
LEMMA OthersKeepTree ==
  [Next]_vars => (\E c \in Callers : CallApply(c)) \/ RecvChange \/ UNCHANGED tree
  BY DEF Next, vars, viewVars, CallStart, ReadStart, ListDir, Prefetch, ReadDone, RecvAnswer,
         AnswerTooLate, HandleChange, HandleStat, HandleFails, HandleRead, LocalEdit,
         WatchStart, WatchSuppress, WatchOverflow, WatchReport, ForwardEvent

\* What a message holds depends on whom it is for.
LEMMA MessageTypes ==
  ASSUME LinkTypes, up # <<>>
  PROVE  /\ Head(up).to \in Procs => Head(up).answer \in AnswerSet
         /\ Head(up).to = None => Head(up).change \in ChangeSet
  <1>1. Head(up) \in MessageSet
    BY HeadTailProperties DEF LinkTypes
  <1> QED BY <1>1, MirrorAssumption DEF MessageSet

\* Both leave the workspace alone.
LEMMA TreeWithoutDisk ==
  (\E c \in Callers : CallApply(c)) \/ RecvChange => UNCHANGED <<disk, last>>
  BY DEF CallApply, RecvChange, diskVars

\* The tree stays sound in every step.
LEMMA TreeStep ==
  ASSUME Types, TreeInv, [Next]_vars, last =< last', last \in Nat, last' \in Nat
  PROVE  TreeInv'
<1>0. Good(tree) /\ Knows(tree, last)
  BY DEF TreeInv
<1>1. ASSUME NEW c \in Callers, CallApply(c) PROVE Good(tree') /\ Knows(tree', last)
  <2>1. c \in Procs /\ pc[c] # "idle"
    BY <1>1 DEF Procs, CallApply
  <2>2. call[c].path \in Paths /\ call[c].to \in Paths /\ Paths \subseteq Path
    BY <2>1, CallParts, PathsType DEF Types, ProcTypes
  <2>3. reply[c].dir \in BOOLEAN /\ reply[c].ver \in 0..last /\ reply[c].ver \in Nat
    BY <2>1 DEF Types, ProcTypes, AnswerSet
  <2>4. \A t : t = ApplyTree(tree, call[c], reply[c]) => Good(t) /\ Knows(t, last)
    <3>1. Good(Delete(tree, call[c].path)) /\ Knows(Delete(tree, call[c].path), last)
      BY <1>0, DeleteKeepsGood, DeleteKnows
    <3>2. \A t : t = Insert(Delete(tree, call[c].path), call[c].to, reply[c].dir, reply[c].ver)
                   => Good(t) /\ Knows(t, last)
      BY <2>2, <2>3, <3>1, InsertKeepsGood, InsertKnows
    <3>3. \A t : t = Insert(tree, call[c].path, reply[c].dir, reply[c].ver)
                   => Good(t) /\ Knows(t, last)
      BY <1>0, <2>2, <2>3, InsertKeepsGood, InsertKnows
    <3> QED BY <3>1, <3>2, <3>3 DEF ApplyTree
  <2>5. tree' = tree \/ tree' = ApplyTree(tree, call[c], reply[c])
    BY <1>1 DEF CallApply
  <2> QED BY <1>0, <2>4, <2>5
<1>2. CASE RecvChange
  <2>1. up # <<>> /\ Head(up).to = None /\ tree' = ApplyChange(tree, Head(up).change)
    BY <1>2 DEF RecvChange, Delivery
  <2>2. Head(up).change \in ChangeSet
    BY <2>1, MessageTypes DEF Types
  <2>3. PICK x \in ChangeSet : x = Head(up).change
    BY <2>2
  <2>4. x.path \in Paths /\ x.path \in Path /\ x.dir \in BOOLEAN /\ x.ver \in 0..last /\ x.ver \in Nat
    BY PathsType DEF ChangeSet
  <2>5. Good(Insert(tree, x.path, x.dir, x.ver)) /\ Good(Delete(tree, x.path))
    BY <1>0, <2>4, InsertKeepsGood, DeleteKeepsGood
  <2>6. Knows(Insert(tree, x.path, x.dir, x.ver), last) /\ Knows(Delete(tree, x.path), last)
    BY <1>0, <2>4, InsertKnows, DeleteKnows
  <2>7. Good(tree') /\ Knows(tree', last)
    BY <2>1, <2>3, <2>5, <2>6 DEF ApplyChange
  <2>8. last' = last
    BY <1>2, TreeWithoutDisk
  <2> QED BY <2>7, <2>8 DEF TreeInv, Good, IsTree, Sound, Knows
<1>3. CASE UNCHANGED tree
  <2>1. \A q \in DOMAIN tree : tree[q].ver \in 0..last'
    BY <1>0, TypesGrow DEF Knows
  <2> QED BY <1>0, <1>3, <2>1 DEF TreeInv, Good, IsTree, Sound, Knows
<1>4. ASSUME NEW c \in Callers, CallApply(c) PROVE TreeInv'
  <2>1. last' = last
    BY <1>4, TreeWithoutDisk
  <2>2. Good(tree') /\ Knows(tree', last)
    BY <1>1, <1>4
  <2> QED BY <2>1, <2>2 DEF TreeInv, Good, IsTree, Sound, Knows
<1> QED BY <1>2, <1>3, <1>4, OthersKeepTree

-----------------------------------------------------------------------------
(* The queues between the server and the daemon *)

\* What a step may do to them: a goroutine asks; the daemon answers; a goroutine
\* gets its answer, or a change is taken; a change is sent; or the queues stay
\* as they are and who waits goes on waiting.
Asks(p) ==
  /\ pc[p] \in {"idle", "started"}
  /\ pc' = [pc EXCEPT ![p] = "waiting"]
  /\ down' = Append(down, p)
  /\ up' = up
Serves ==
  /\ down # <<>>
  /\ down' = Tail(down)
  /\ \E m \in [to: Procs, answer: AnswerSet'] : m.to = Head(down) /\ up' = Append(up, m)
  /\ pc' = pc
Delivers(p) ==
  /\ up # <<>> /\ Head(up).to = p
  /\ up' = Tail(up)
  /\ \E x \in Places : pc' = [pc EXCEPT ![p] = x]
  /\ down' = down
DeliversChange ==
  /\ up # <<>> /\ Head(up).to = None
  /\ up' = Tail(up)
  /\ UNCHANGED <<down, pc>>
Forwards ==
  /\ \E m \in [to: {None}, change: ChangeSet'] : up' = Append(up, m)
  /\ UNCHANGED <<down, pc>>
KeepsQueues ==
  /\ UNCHANGED <<down, up>>
  /\ pc' \in [Procs -> Places]
  /\ \A p \in Procs : pc[p] = "waiting" => pc'[p] = "waiting"

\* The goroutines that a listing starts were idle.
LEMMA ListDirPc ==
  ASSUME Types, NEW c \in Callers, NEW dir, ListDir(c, dir)
  PROVE  KeepsQueues
<1>1. PICK start \in [ToStart(dir) -> {f \in Fetchers : pc[f] = "idle"}] :
        pc' = [f \in Procs |-> IF f \in Range(start) THEN "started" ELSE pc[f]]
  BY DEF ListDir
<1>2. \A f \in Range(start) : pc[f] = "idle"
  BY DEF Range
<1>3. UNCHANGED <<down, up>>
  BY DEF ListDir, linkVars
<1>4. \A f \in Procs : pc[f] \in Places
  BY DEF Types, ProcTypes
<1> QED BY <1>1, <1>2, <1>3, <1>4 DEF KeepsQueues, Places

\* The version on disk is one there has been.
LEMMA VerOfKnown ==
  ASSUME NEW n \in Nat, NEW d \in [Paths -> (1..n) \cup {Absent, Dir}], NEW p \in Paths
  PROVE  VerOf(d, p) \in 0..n
<1>1. d[p] \in (1..n) \cup {Absent, Dir} /\ Absent \notin Nat /\ Dir \notin Nat /\ MaxVer \in Nat
  BY MirrorAssumption
<1> QED BY <1>1 DEF VerOf, Versions

\* Handlers answer the request at the head of the queue.
LEMMA HandlersServe ==
  ASSUME Types, QueueInv, DiskInv, Replies, [Next]_vars
  PROVE  Serves
<1>0. DiskTypes' /\ last' \in Nat /\ last \in Nat /\ DiskTypes
  BY DiskStep DEF Types
<1>1. down # <<>> /\ pc' = pc
  BY DEF Replies, Refuses, HandleChange, HandleStat, HandleFails, HandleRead, procVars, Types, MadeInv
<1> DEFINE c == call[Head(down)]
<1>2. Head(down) \in Procs /\ c.path \in Paths /\ c.to \in Paths
  BY <1>1, HeadWaits, CallParts
<1>3. \E ok, dir \in BOOLEAN, ver \in 0..last' : Respond(ok, dir, ver)
  <2>1. last' = last
    BY DEF Replies, Refuses, HandleStat, HandleFails, HandleRead, diskVars
  <2>2. VerOf(disk, c.path) \in 0..last' /\ VerOf(disk, c.to) \in 0..last' /\ 0 \in 0..last'
    BY <1>0, <1>2, <2>1, VerOfKnown DEF DiskTypes
  <2>3. PICK yes \in BOOLEAN, no \in BOOLEAN : yes = TRUE /\ no = FALSE
    OBVIOUS
  <2>4. CASE HandleRead
    <3>1. PICK ok \in BOOLEAN : ok = (disk[c.path] \in Versions)
      <4>1. (disk[c.path] \in Versions) \in BOOLEAN
        OBVIOUS
      <4> QED BY <4>1, Zenon
    <3>2. Respond(ok, no, VerOf(disk, c.path))
      BY <2>3, <2>4, <3>1 DEF HandleRead
    <3> QED BY <2>2, <3>2
  <2>5. CASE HandleStat
    <3>1. PICK dir \in BOOLEAN : dir = (disk[c.to] = Dir)
      OBVIOUS
    <3>2. Respond(yes, dir, VerOf(disk, c.to))
      BY <2>3, <2>5, <3>1 DEF HandleStat
    <3> QED BY <2>2, <3>2
  <2>6. CASE Refuses \/ HandleFails
    <3>1. Respond(no, no, 0)
      BY <2>3, <2>6 DEF Refuses, HandleFails
    <3> QED BY <2>2, <3>1
  <2> QED BY <2>4, <2>5, <2>6 DEF Replies
<1>4. PICK ok, dir \in BOOLEAN, ver \in 0..last' : Respond(ok, dir, ver)
  BY <1>3
<1>5. PICK m : m = [to |-> Head(down), answer |-> Answer(ok, dir, ver)]
  OBVIOUS
<1>6. m \in [to: Procs, answer: AnswerSet'] /\ m.to = Head(down)
  BY <1>2, <1>5 DEF Answer, AnswerSet
<1>7. down' = Tail(down) /\ up' = Append(up, m)
  BY <1>4, <1>5 DEF Respond
<1> QED BY <1>1, <1>6, <1>7 DEF Serves

\* Every step is of one of these kinds.
LEMMA QueueSteps ==
  ASSUME Types, QueueInv, DiskInv, [Next]_vars
  PROVE  \/ \E p \in Procs : Asks(p) \/ Delivers(p)
         \/ Serves \/ DeliversChange \/ Forwards \/ KeepsQueues
<1>0. pc \in [Procs -> Places] /\ Callers \subseteq Procs /\ Fetchers \subseteq Procs
  BY DEF Types, ProcTypes, Procs
<1>1. ASSUME NEW c \in Callers, CallStart(c) PROVE Asks(c)
  BY <1>1 DEF CallStart, MayStart, Asks
<1>2. ASSUME NEW c \in Callers, NEW path \in Paths, ReadStart(c, path) PROVE Asks(c) \/ KeepsQueues
  BY <1>0, <1>2 DEF ReadStart, MayStart, Request, Asks, KeepsQueues
<1>3. ASSUME NEW c \in Callers, NEW dir, ListDir(c, dir) PROVE KeepsQueues
  BY <1>3, ListDirPc
<1>4. ASSUME NEW c \in Callers, CallApply(c) PROVE KeepsQueues
  BY <1>0, <1>4 DEF CallApply, Idle, KeepsQueues, Places, linkVars
<1>5. ASSUME NEW f \in Fetchers, Prefetch(f) PROVE Asks(f) \/ KeepsQueues
  BY <1>0, <1>5 DEF Prefetch, Request, Idle, Asks, KeepsQueues, Places
<1>6. ASSUME NEW p \in Procs, ReadDone(p) PROVE KeepsQueues
  BY <1>0, <1>6 DEF ReadDone, Idle, KeepsQueues, Places, linkVars
<1>7. ASSUME NEW p \in Procs, RecvAnswer(p) \/ AnswerTooLate(p) PROVE Delivers(p)
  BY <1>7 DEF RecvAnswer, AnswerTooLate, Delivery, Idle, Delivers, Places
<1>8. CASE RecvChange
  BY <1>8 DEF RecvChange, Delivery, DeliversChange, procVars
<1>9. CASE Replies
  BY <1>9, HandlersServe
<1>10. CASE ForwardEvent
  <2>1. Head(events) \in ChangeSet
    BY <1>10, HeadTailProperties DEF ForwardEvent, Types, WatchTypes
  <2>2. PICK m : m = [to |-> None, change |-> Head(events)]
    OBVIOUS
  <2>3. m \in [to: {None}, change: ChangeSet']
    <3>1. ChangeSet' = ChangeSet
      BY <1>10 DEF ForwardEvent, ChangeSet, diskVars
    <3> QED BY <2>1, <2>2, <3>1
  <2> QED BY <1>10, <2>2, <2>3 DEF ForwardEvent, Forwards, procVars
<1>11. CASE \/ Makes \/ LocalEdit \/ WatchStart \/ WatchSuppress \/ WatchOverflow \/ WatchReport
            \/ UNCHANGED vars
  BY <1>0, <1>11 DEF Makes, HandleChange, LocalEdit, WatchStart, WatchSuppress, WatchOverflow,
                     WatchReport, vars, procVars, linkVars, KeepsQueues
<1> QED BY <1>0, <1>1, <1>2, <1>3, <1>4, <1>5, <1>6, <1>7, <1>8, <1>9, <1>10, <1>11, MakesOrRefuses
        DEF Next, Replies

\* The queues hold what they should.
LEMMA LinkStep ==
  ASSUME Types, QueueInv, DiskInv, [Next]_vars
  PROVE  LinkTypes' /\ pc' \in [Procs -> Places]
<1>0. /\ pc \in [Procs -> Places] /\ down \in Seq(Procs) /\ up \in Seq(MessageSet')
      /\ "waiting" \in Places
  BY DiskStep, TypesGrow DEF Types, ProcTypes, LinkTypes, Places
<1>1. ASSUME NEW p \in Procs, Asks(p) PROVE LinkTypes' /\ pc' \in [Procs -> Places]
  BY <1>0, <1>1, AppendProperties DEF Asks, LinkTypes
<1>2. ASSUME NEW p \in Procs, Delivers(p) PROVE LinkTypes' /\ pc' \in [Procs -> Places]
  BY <1>0, <1>2, HeadTailProperties DEF Delivers, LinkTypes
<1>3. CASE Serves
  <2>1. PICK m \in [to: Procs, answer: AnswerSet'] : up' = Append(up, m)
    BY <1>3 DEF Serves
  <2>2. m \in MessageSet'
    BY DEF MessageSet
  <2>3. up' \in Seq(MessageSet')
    BY <1>0, <2>1, <2>2, AppendProperties
  <2> QED BY <1>0, <1>3, <2>3, HeadTailProperties DEF Serves, LinkTypes
<1>4. CASE DeliversChange
  BY <1>0, <1>4, HeadTailProperties DEF DeliversChange, LinkTypes
<1>5. CASE Forwards
  <2>1. PICK m \in [to: {None}, change: ChangeSet'] : up' = Append(up, m)
    BY <1>5 DEF Forwards
  <2>2. m \in MessageSet'
    BY DEF MessageSet
  <2>3. up' \in Seq(MessageSet')
    BY <1>0, <2>1, <2>2, AppendProperties
  <2> QED BY <1>0, <1>5, <2>3 DEF Forwards, LinkTypes
<1>6. CASE KeepsQueues
  BY <1>0, <1>6 DEF KeepsQueues, LinkTypes
<1> QED BY <1>1, <1>2, <1>3, <1>4, <1>5, <1>6, QueueSteps

\* The request stays as long as its change is made and not answered.
LEMMA MadeStep ==
  ASSUME Types, [Next]_vars
  PROVE  MadeInv'
<1>1. ASSUME NEW p, down' = Append(down, p) PROVE down' # <<>>
  BY <1>1, AppendProperties, EmptySeq DEF Types, LinkTypes
<1>2. CASE HandleStat \/ HandleFails
  BY <1>2 DEF HandleStat, HandleFails, MadeInv
<1>3. CASE HandleChange \/ HandleRead
  BY <1>3 DEF HandleChange, HandleRead, MadeInv
<1>4. CASE \E p \in Procs : down' = Append(down, p)
  BY <1>1, <1>4 DEF MadeInv
<1>5. CASE UNCHANGED <<down, made>>
  BY <1>5 DEF MadeInv, Types
<1>6. \/ HandleStat \/ HandleFails \/ HandleChange \/ HandleRead
      \/ \E p \in Procs : down' = Append(down, p)
      \/ UNCHANGED <<down, made>>
  BY DEF Next, vars, linkVars, CallStart, ReadStart, Request, ListDir, CallApply, Prefetch, ReadDone,
         RecvAnswer, AnswerTooLate, RecvChange, LocalEdit, WatchStart, WatchSuppress,
         WatchOverflow, WatchReport, ForwardEvent, Procs
<1> QED BY <1>2, <1>3, <1>4, <1>5, <1>6

\* Who has a request or an answer on its way waits for it, and has one.
LEMMA QueueStep ==
  ASSUME Types, QueueInv, DiskInv, [Next]_vars
  PROVE  QueueInv'
<1>0. /\ pc \in [Procs -> Places] /\ down \in Seq(Procs) /\ up \in Seq(MessageSet')
      /\ Len(down) \in Nat /\ Len(up) \in Nat
      /\ \A i \in 1..Len(down) : down[i] \in Procs
      /\ None \notin Procs
  <2>1. Seq(MessageSet) \subseteq Seq(MessageSet')
    BY DiskStep, TypesGrow
  <2> QED BY <2>1, LenProperties, ElementOfSeq, MirrorAssumption DEF Types, ProcTypes, LinkTypes
<1>1. ASSUME NEW p \in Procs, Asks(p) PROVE QueueInv'
  <2>1. /\ Len(down') = Len(down) + 1 /\ \A i \in 1..Len(down) : down'[i] = down[i]
        /\ down'[Len(down) + 1] = p
    BY <1>0, <1>1, AppendProperties DEF Asks
  <2>2. up' = up /\ pc[p] # "waiting" /\ pc'[p] = "waiting"
        /\ \A q \in Procs : q # p => pc'[q] = pc[q]
    BY <1>0, <1>1 DEF Asks
  <2>3. /\ \A i \in 1..Len(down) : down[i] # p
        /\ \A i \in 1..Len(up) : up[i].to # p
    BY <2>2 DEF QueueInv, RequestsWait, AnswersWait
  <2>4. \A i \in 1..Len(down') : i \in 1..Len(down) \/ i = Len(down) + 1
    BY <1>0, <2>1
  <2>5. RequestsWait'
    BY <1>0, <2>1, <2>2, <2>3, <2>4 DEF QueueInv, RequestsWait
  <2>6. AnswersWait'
    BY <2>2, <2>3 DEF QueueInv, AnswersWait
  <2>7. OneOfTheTwo'
    BY <2>1, <2>2, <2>3, <2>4 DEF QueueInv, OneOfTheTwo
  <2> QED BY <2>5, <2>6, <2>7 DEF QueueInv
<1>2. ASSUME NEW p \in Procs \cup {None}, Delivers(p) \/ (p = None /\ DeliversChange) PROVE QueueInv'
  <2>1. /\ up # <<>> /\ up' = Tail(up) /\ down' = down /\ up[1].to = p
        /\ \A q \in Procs : q # p => pc'[q] = pc[q]
    BY <1>0, <1>2 DEF Delivers, DeliversChange
  <2>2. Len(up') = Len(up) - 1 /\ \A i \in 1..Len(up') : up'[i] = up[i + 1]
    BY <1>0, <2>1, HeadTailProperties
  <2>3. 1 \in 1..Len(up)
    BY <1>0, <2>1, EmptySeq
  <2>4. \A i \in 1..Len(up') : i + 1 \in 1..Len(up) /\ i + 1 # 1
    BY <1>0, <2>2
  <2>5. \A i \in 1..Len(up') : up'[i].to \in Procs => up'[i].to # p
    BY <2>1, <2>2, <2>3, <2>4 DEF QueueInv, AnswersWait
  <2>6. \A i \in 1..Len(down) : down[i] # p
    BY <2>1, <2>3 DEF QueueInv, OneOfTheTwo
  <2>7. RequestsWait'
    BY <1>0, <2>1, <2>6 DEF QueueInv, RequestsWait
  <2>8. AnswersWait'
    <3> SUFFICES ASSUME NEW i \in 1..Len(up'), up'[i].to \in Procs
                 PROVE  /\ pc'[up'[i].to] = "waiting"
                        /\ \A j \in 1..Len(up') : up'[j].to = up'[i].to => j = i
      BY DEF AnswersWait
    <3>1. pc'[up'[i].to] = "waiting"
      BY <2>1, <2>2, <2>4, <2>5 DEF QueueInv, AnswersWait
    <3>2. ASSUME NEW j \in 1..Len(up'), up'[j].to = up'[i].to PROVE j = i
      <4>1. up[i + 1].to \in Procs /\ up[j + 1].to = up[i + 1].to
        BY <2>2, <3>2
      <4>2. j + 1 = i + 1
        BY <2>4, <4>1 DEF QueueInv, AnswersWait
      <4> QED BY <4>2
    <3> QED BY <3>1, <3>2
  <2>9. OneOfTheTwo'
    BY <2>1, <2>2, <2>4 DEF QueueInv, OneOfTheTwo
  <2> QED BY <2>7, <2>8, <2>9 DEF QueueInv
<1>3. CASE Serves
  <2>1. PICK m \in [to: Procs, answer: AnswerSet'] : m.to = Head(down) /\ up' = Append(up, m)
    BY <1>3 DEF Serves
  <2>2. m \in MessageSet'
    BY DEF MessageSet
  <2>3. /\ Len(up') = Len(up) + 1 /\ \A i \in 1..Len(up) : up'[i] = up[i]
        /\ up'[Len(up) + 1] = m
    BY <1>0, <2>1, <2>2, AppendProperties
  <2>4. down # <<>> /\ down' = Tail(down) /\ pc' = pc /\ down[1] = m.to
    BY <1>0, <1>3, <2>1 DEF Serves
  <2>5. Len(down') = Len(down) - 1 /\ \A i \in 1..Len(down') : down'[i] = down[i + 1]
    BY <1>0, <2>4, HeadTailProperties
  <2>6. 1 \in 1..Len(down)
    BY <1>0, <2>4, EmptySeq
  <2>7. \A i \in 1..Len(down') : i + 1 \in 1..Len(down) /\ i + 1 # 1
    BY <1>0, <2>5
  <2>8. \A i \in 1..Len(up') : i \in 1..Len(up) \/ i = Len(up) + 1
    BY <1>0, <2>3
  <2>9. pc[m.to] = "waiting" /\ \A i \in 1..Len(up) : up[i].to # m.to
    BY <2>4, <2>6 DEF QueueInv, RequestsWait, OneOfTheTwo
  <2>10. \A i \in 1..Len(down') : down'[i] # m.to
    BY <2>4, <2>5, <2>6, <2>7 DEF QueueInv, RequestsWait
  <2>11. RequestsWait'
    <3> SUFFICES ASSUME NEW i \in 1..Len(down')
                 PROVE  /\ pc'[down'[i]] = "waiting"
                        /\ \A j \in 1..Len(down') : down'[j] = down'[i] => j = i
      BY DEF RequestsWait
    <3>1. pc'[down'[i]] = "waiting"
      BY <2>4, <2>5, <2>7 DEF QueueInv, RequestsWait
    <3>2. ASSUME NEW j \in 1..Len(down'), down'[j] = down'[i] PROVE j = i
      <4>1. j + 1 = i + 1
        BY <2>5, <2>7, <3>2, SMTT(30) DEF QueueInv, RequestsWait
      <4> QED BY <4>1
    <3> QED BY <3>1, <3>2
  <2>12. AnswersWait'
    BY <2>3, <2>4, <2>8, <2>9 DEF QueueInv, AnswersWait
  <2>13. OneOfTheTwo'
    BY <2>3, <2>5, <2>7, <2>8, <2>10 DEF QueueInv, OneOfTheTwo
  <2> QED BY <2>11, <2>12, <2>13 DEF QueueInv
<1>4. CASE Forwards
  <2>1. PICK m \in [to: {None}, change: ChangeSet'] : up' = Append(up, m)
    BY <1>4 DEF Forwards
  <2>2. m \in MessageSet' /\ m.to = None
    BY DEF MessageSet
  <2>3. /\ Len(up') = Len(up) + 1 /\ \A i \in 1..Len(up) : up'[i] = up[i]
        /\ up'[Len(up) + 1] = m
    BY <1>0, <2>1, <2>2, AppendProperties
  <2>4. down' = down /\ pc' = pc
    BY <1>4 DEF Forwards
  <2>5. \A i \in 1..Len(up') : i \in 1..Len(up) \/ i = Len(up) + 1
    BY <1>0, <2>3
  <2>6. RequestsWait'
    BY <2>4 DEF QueueInv, RequestsWait
  <2>7. AnswersWait'
    BY <1>0, <2>2, <2>3, <2>4, <2>5 DEF QueueInv, AnswersWait
  <2>8. OneOfTheTwo'
    BY <1>0, <2>2, <2>3, <2>4, <2>5 DEF QueueInv, OneOfTheTwo
  <2> QED BY <2>6, <2>7, <2>8 DEF QueueInv
<1>5. CASE KeepsQueues
  BY <1>0, <1>5 DEF KeepsQueues, QueueInv, RequestsWait, AnswersWait, OneOfTheTwo
<1> QED BY <1>1, <1>2, <1>3, <1>4, <1>5, QueueSteps

-----------------------------------------------------------------------------
(* Types *)

\* A goroutine that is given an answer was waiting.
LEMMA DeliveryToWaiting ==
  ASSUME Types, QueueInv, NEW p \in Procs, Delivery(p)
  PROVE  pc[p] = "waiting"
<1>1. up \in Seq(MessageSet) /\ up # <<>> /\ up[1].to = p
  BY DEF Delivery, Types, LinkTypes
<1>2. 1 \in 1..Len(up)
  BY <1>1, EmptySeq
<1> QED BY <1>1, <1>2 DEF QueueInv, AnswersWait

\* What Readdir has prefetched are files of the tree.
LEMMA StartedKnown ==
  ASSUME TreeInv, NEW dir, dir = Root \/ Shown(tree, dir) = Dir, NEW p \in ToStart(dir)
  PROVE  p \in Paths /\ tree[p].ver \in 0..last
<1>1. dir \in DOMAIN tree
  BY MirrorAssumption DEF TreeInv, Good, Sound, Shown
<1>2. p \in tree[dir].children /\ p \in DOMAIN tree
  BY DEF ToStart, Candidates, Examined, List
<1>3. p # Root
  BY <1>1, <1>2 DEF TreeInv, Good, Sound
<1> QED BY <1>2, <1>3 DEF TreeInv, Knows

\* What is read is a path there can be, and the version that is expected there
\* has been.
LEMMA ReadCall ==
  ASSUME NEW op \in {"read", "chunk"}, NEW p \in Paths, NEW v \in 0..last
  PROVE  Call(op, p, p, v) \in CallSet
<1>1. PICK c : c = Call(op, p, p, v)
  OBVIOUS
<1>2. c \in [op: Ops, path: Paths, to: Paths, ver: 0..last] /\ c.op # "rename" /\ c.to = c.path
  BY <1>1 DEF Call, Ops
<1> QED BY <1>1, <1>2 DEF CallSet

\* What a goroutine does and was answered.
LEMMA ProcStep ==
  ASSUME Types, QueueInv, TreeInv, DiskInv, [Next]_vars
  PROVE  ProcTypes'
<1>0. /\ pc' \in [Procs -> Places] /\ pc \in [Procs -> Places]
      /\ DOMAIN call = Procs /\ reply \in [Procs -> AnswerSet']
      /\ \A r \in Procs : pc[r] # "idle" => call[r] \in CallSet'
      /\ Callers \subseteq Procs /\ Fetchers \subseteq Procs
      /\ CallSet \subseteq CallSet' /\ AnswerSet \subseteq AnswerSet' /\ last \in Nat /\ last' \in Nat
  BY DiskStep, TypesGrow, LinkStep DEF Types, ProcTypes, Procs
<1>1. ASSUME NEW p \in Procs, Idle(p) PROVE ProcTypes'
  <2>1. Silence \in AnswerSet'
    BY <1>0 DEF Silence, Answer, AnswerSet
  <2>2. /\ pc' = [pc EXCEPT ![p] = "idle"] /\ call' = [call EXCEPT ![p] = NoCall]
        /\ reply' = [reply EXCEPT ![p] = Silence]
    BY <1>1 DEF Idle
  <2> QED BY <1>0, <2>1, <2>2 DEF ProcTypes
<1>2. ASSUME NEW p \in Procs, NEW x \in CallSet, call' = [call EXCEPT ![p] = x],
             NEW place, pc' = [pc EXCEPT ![p] = place], reply' = reply
      PROVE  ProcTypes'
  BY <1>0, <1>2 DEF ProcTypes
<1>3. ASSUME NEW c \in Callers, CallStart(c) PROVE ProcTypes'
  <2>1. PICK op \in {"create", "mkdir", "write", "truncate", "remove", "rename"}, p, q \in Paths :
          MayCall(op, p, q) /\ call' = [call EXCEPT ![c] = Call(op, p, q, 0)]
    BY <1>3 DEF CallStart
  <2>2. PICK x : x = Call(op, p, q, 0)
    OBVIOUS
  <2>3. IF op = "rename" THEN ~Within(p, q) ELSE q = p
    BY <2>1 DEF MayCall
  <2>4. x \in [op: Ops, path: Paths, to: Paths, ver: 0..last]
    BY <1>0, <2>2 DEF Call, Ops
  <2>5. x.op = op /\ x.path = p /\ x.to = q
    BY <2>2 DEF Call
  <2>6. x \in CallSet
    BY <2>3, <2>4, <2>5 DEF CallSet
  <2> QED BY <1>0, <1>2, <1>3, <2>1, <2>2, <2>6 DEF CallStart
<1>4. ASSUME NEW c \in Callers, NEW path \in Paths, ReadStart(c, path) PROVE ProcTypes'
  <2>1. reply' = reply
    BY <1>4 DEF ReadStart
  <2>2. CASE UNCHANGED <<pc, call>>
    BY <1>0, <2>1, <2>2 DEF ProcTypes
  <2>3. CASE ~UNCHANGED <<pc, call>>
    <3>1. PICK op \in {"read", "chunk"} : Request(c, op, path, tree[path].ver)
      BY <1>4, <2>3 DEF ReadStart
    <3>2. tree[path].ver \in 0..last
      BY <1>4 DEF ReadStart, Shown, TreeInv, Knows
    <3>3. Call(op, path, path, tree[path].ver) \in CallSet
      BY <3>2, ReadCall
    <3> QED BY <1>0, <1>2, <2>1, <3>1, <3>3 DEF Request
  <2> QED BY <2>2, <2>3
<1>5. ASSUME NEW c \in Callers, NEW dir, ListDir(c, dir) PROVE ProcTypes'
  <2>1. PICK start \in [ToStart(dir) -> {f \in Fetchers : pc[f] = "idle"}] :
          /\ pc' = [f \in Procs |-> IF f \in Range(start) THEN "started" ELSE pc[f]]
          /\ call' = [f \in Procs |->
                       IF f \in Range(start)
                       THEN LET p == CHOOSE q \in ToStart(dir) : start[q] = f
                            IN  Call("read", p, p, tree[p].ver)
                       ELSE call[f]]
    BY <1>5 DEF ListDir
  <2>2. \A p \in ToStart(dir) : Call("read", p, p, tree[p].ver) \in CallSet
    <3>1. dir = Root \/ Shown(tree, dir) = Dir
      BY <1>5 DEF ListDir
    <3> QED BY <3>1, StartedKnown, ReadCall
  <2>3. ASSUME NEW f \in Procs, f \in Range(start) PROVE call'[f] \in CallSet
    <3> DEFINE p == CHOOSE q \in ToStart(dir) : start[q] = f
    <3>1. \E q \in ToStart(dir) : start[q] = f
      BY <2>3 DEF Range
    <3>2. p \in ToStart(dir)
      BY <3>1
    <3>3. call'[f] = Call("read", p, p, tree[p].ver)
      BY <2>1, <2>3
    <3> HIDE DEF p
    <3> QED BY <2>2, <3>2, <3>3
  <2>4. \A f \in Procs : f \notin Range(start) => call'[f] = call[f] /\ pc'[f] = pc[f]
    BY <2>1
  <2>5. reply' = reply /\ DOMAIN call' = Procs
    BY <1>5, <2>1 DEF ListDir
  <2> QED BY <1>0, <2>3, <2>4, <2>5 DEF ProcTypes
<1>6. ASSUME NEW f \in Fetchers, Prefetch(f) PROVE ProcTypes'
  <2>1. CASE Idle(f)
    BY <1>0, <1>1, <2>1
  <2>2. CASE ~Idle(f)
    <3>1. Request(f, "read", call[f].path, call[f].ver) /\ reply' = reply
      BY <1>6, <2>2 DEF Prefetch
    <3>2. call[f].path \in Paths /\ call[f].ver \in 0..last
      BY <1>0, <1>6, CallParts DEF Prefetch, Types, ProcTypes
    <3>3. Call("read", call[f].path, call[f].path, call[f].ver) \in CallSet
      BY <3>2, ReadCall
    <3> QED BY <1>0, <1>2, <3>1, <3>3 DEF Request
  <2> QED BY <2>1, <2>2
<1>7. ASSUME NEW p \in Procs, RecvAnswer(p) PROVE ProcTypes'
  <2>1. Head(up).answer \in AnswerSet
    BY <1>7, MessageTypes DEF RecvAnswer, Delivery, Types
  <2>2. pc[p] # "idle"
    BY <1>7, DeliveryToWaiting DEF RecvAnswer
  <2>3. /\ pc' = [pc EXCEPT ![p] = "answered"] /\ call' = call
        /\ reply' = [reply EXCEPT ![p] = Head(up).answer]
    BY <1>7 DEF RecvAnswer
  <2> QED BY <1>0, <2>1, <2>2, <2>3 DEF ProcTypes
<1>8. CASE UNCHANGED <<pc, call, reply>>
  BY <1>0, <1>8 DEF ProcTypes
<1>9. ASSUME NEW p \in Procs, CallApply(p) \/ ReadDone(p) \/ AnswerTooLate(p) PROVE ProcTypes'
  BY <1>1, <1>9 DEF CallApply, ReadDone, AnswerTooLate
<1>10. CASE \/ RecvChange \/ HandleChange \/ HandleStat \/ HandleFails \/ HandleRead \/ LocalEdit
            \/ WatchStart \/ WatchSuppress \/ WatchOverflow \/ WatchReport \/ ForwardEvent
            \/ UNCHANGED vars
  BY <1>8, <1>10 DEF RecvChange, HandleChange, HandleStat, HandleFails, HandleRead, LocalEdit,
                     WatchStart, WatchSuppress, WatchOverflow, WatchReport, ForwardEvent, vars,
                     procVars
<1> QED BY <1>0, <1>3, <1>4, <1>5, <1>6, <1>7, <1>9, <1>10 DEF Next

\* A change to the workspace is noted by its path.
LEMMA NoticeType ==
  ASSUME NEW p \in Paths, NEW kind \in {"create", "write", "remove"}, NEW who \in {"agent", "user"}
  PROVE  Notice(p, kind, who) \in Seq(NoteSet)
<1>1. PICK n : n = [path |-> p, kind |-> kind, by |-> who]
  OBVIOUS
<1>2. n \in NoteSet
  BY <1>1 DEF NoteSet
<1>3. <<n>> \in Seq(NoteSet) /\ <<>> \in Seq(NoteSet)
  BY <1>2
<1> QED BY <1>1, <1>3 DEF Notice

\* The notifications of a change of one path, ...
LEMMA NotesOfDiskSet ==
  ASSUME WatchTypes, NEW p \in Paths, NEW what, NEW kind \in {"create", "write", "remove"},
         NEW who \in {"agent", "user"}, DiskSet(p, what, kind, who)
  PROVE  notes' \in Seq(NoteSet)
<1>1. Notice(p, kind, who) \in Seq(NoteSet)
  BY NoticeType
<1> QED BY <1>1, ConcatProperties DEF DiskSet, WatchTypes

\* ... of a rename ...
LEMMA NotesOfDiskRename ==
  ASSUME WatchTypes, NEW p \in Paths, NEW q \in Paths, NEW who \in {"agent", "user"},
         DiskRename(p, q, who)
  PROVE  notes' \in Seq(NoteSet)
<1>1. Notice(p, "remove", who) \in Seq(NoteSet) /\ Notice(q, "create", who) \in Seq(NoteSet)
  BY NoticeType
<1>2. notes' = (notes \o Notice(p, "remove", who)) \o Notice(q, "create", who)
  BY DEF DiskRename
<1> QED BY <1>1, <1>2, ConcatProperties DEF WatchTypes

\* ... and of any of the changes of one path are notifications.
LEMMA NotesOfEdit ==
  ASSUME WatchTypes, NEW p \in Paths, NEW who \in {"agent", "user"},
         DiskWrite(p, who) \/ DiskMkdir(p, who) \/ DiskRemove(p, who)
  PROVE  notes' \in Seq(NoteSet)
<1>1. PICK kind \in {"create", "write"} : kind = IF disk[p] = Absent THEN "create" ELSE "write"
  OBVIOUS
<1>2. \/ DiskSet(p, last + 1, kind, who)
      \/ DiskSet(p, Dir, "create", who)
      \/ DiskSet(p, Absent, "remove", who)
  BY <1>1 DEF DiskWrite, DiskMkdir, DiskRemove
<1> QED BY <1>2, NotesOfDiskSet

\* What the watcher has to tell.
LEMMA WatchStep ==
  ASSUME Types, QueueInv, DiskInv, [Next]_vars
  PROVE  WatchTypes'
<1>0. /\ notes \in Seq(NoteSet) /\ events \in Seq(ChangeSet') /\ NoteSet' = NoteSet
      /\ WatchTypes /\ DiskTypes /\ last \in Nat
  BY DiskStep, TypesGrow DEF Types, WatchTypes
<1>1. CASE HandleChange
  <2>1. events' = events
    BY <1>1 DEF HandleChange
  <2>3. PICK c : c = call[Head(down)]
    OBVIOUS
  <2>4. c.path \in Paths /\ c.to \in Paths
    BY <1>1, <2>3, HeadWaits, CallParts DEF HandleChange
  <2>5. Effect(c) \/ notes' = notes
    BY <1>1, <2>3 DEF HandleChange
  <2>6. Effect(c) => \/ notes' = notes
                     \/ DiskWrite(c.path, "agent") \/ DiskMkdir(c.path, "agent")
                     \/ DiskRemove(c.path, "agent") \/ DiskRename(c.path, c.to, "agent")
    BY DEF Effect
  <2>7. CASE DiskWrite(c.path, "agent") \/ DiskMkdir(c.path, "agent") \/ DiskRemove(c.path, "agent")
    <3>1. notes' \in Seq(NoteSet)
      BY <1>0, <2>4, <2>7, NotesOfEdit
    <3> QED BY <1>0, <2>1, <3>1 DEF WatchTypes
  <2>8. CASE DiskRename(c.path, c.to, "agent")
    <3>1. notes' \in Seq(NoteSet)
      BY <1>0, <2>4, <2>8, NotesOfDiskRename
    <3> QED BY <1>0, <2>1, <3>1 DEF WatchTypes
  <2>9. CASE notes' = notes
    BY <1>0, <2>1, <2>9 DEF WatchTypes
  <2> QED BY <2>5, <2>6, <2>7, <2>8, <2>9
<1>2. CASE LocalEdit
  <2>1. \/ \E p \in Paths : DiskWrite(p, "user") \/ DiskMkdir(p, "user") \/ DiskRemove(p, "user")
        \/ \E p, q \in Paths : DiskRename(p, q, "user")
    BY <1>2 DEF LocalEdit
  <2>2. ASSUME NEW p \in Paths, DiskWrite(p, "user") \/ DiskMkdir(p, "user") \/ DiskRemove(p, "user")
        PROVE  notes' \in Seq(NoteSet)
    BY <1>0, <2>2, NotesOfEdit
  <2>3. ASSUME NEW p \in Paths, NEW q \in Paths, DiskRename(p, q, "user")
        PROVE  notes' \in Seq(NoteSet)
    BY <1>0, <2>3, NotesOfDiskRename
  <2>4. notes' \in Seq(NoteSet)
    BY <2>1, <2>2, <2>3
  <2> QED BY <1>0, <1>2, <2>4 DEF LocalEdit, WatchTypes
<1>3. CASE WatchSuppress \/ WatchOverflow
  BY <1>0, <1>3, HeadTailProperties DEF WatchSuppress, WatchOverflow, WatchTypes
<1>4. CASE WatchReport
  <2>1. PICK n \in NoteSet : n = Head(notes) /\ Tail(notes) \in Seq(NoteSet)
    BY <1>0, <1>4, HeadTailProperties DEF WatchReport
  <2>2. PICK x : x = IF n.kind = "remove" THEN Change("delete", n.path, FALSE, 0)
                     ELSE Change("modify", n.path, disk[n.path] = Dir, VerOf(disk, n.path))
    OBVIOUS
  <2>3. x \in ChangeSet
    <3>1. n.path \in Paths /\ VerOf(disk, n.path) \in 0..last /\ 0 \in 0..last
      <4>1. n.path \in Paths
        BY DEF NoteSet
      <4> QED BY <1>0, <4>1, VerOfKnown DEF DiskTypes
    <3>2. PICK dir \in BOOLEAN : dir = (disk[n.path] = Dir)
      OBVIOUS
    <3>3. Change("delete", n.path, FALSE, 0) \in ChangeSet
      BY <3>1 DEF Change, ChangeSet
    <3>4. Change("modify", n.path, dir, VerOf(disk, n.path)) \in ChangeSet
      BY <3>1 DEF Change, ChangeSet
    <3> QED BY <2>2, <3>2, <3>3, <3>4
  <2>4. notes' = Tail(notes) /\ events' = Append(events, x)
    BY <1>4, <2>1, <2>2 DEF WatchReport
  <2>5. ChangeSet' = ChangeSet
    BY <1>4 DEF WatchReport, ChangeSet, diskVars
  <2> QED BY <1>0, <2>1, <2>3, <2>4, <2>5, AppendProperties DEF WatchTypes
<1>5. CASE ForwardEvent
  BY <1>0, <1>5, HeadTailProperties DEF ForwardEvent, WatchTypes
<1>6. CASE UNCHANGED <<notes, events>>
  BY <1>0, <1>6 DEF WatchTypes
<1>7. CASE ~(\/ HandleChange \/ LocalEdit \/ WatchSuppress \/ WatchOverflow \/ WatchReport
             \/ ForwardEvent)
  <2>1. UNCHANGED <<notes, events>>
    BY <1>7 DEF Next, vars, watchVars, CallStart, ReadStart, ListDir, CallApply, Prefetch, ReadDone,
                RecvAnswer, AnswerTooLate, RecvChange, HandleStat, HandleFails, HandleRead,
                WatchStart
  <2> QED BY <1>6, <2>1
<1> QED BY <1>1, <1>2, <1>3, <1>4, <1>5, <1>7

-----------------------------------------------------------------------------
(* Prefetching *)

\* A goroutine that fetches, and what.
Busy(f) == pc[f] \in {"started", "waiting", "answered"}

\* PrefetchOnce for single goroutines.
LEMMA PrefetchOnceIs ==
  PrefetchOnce <=>
    /\ \A f \in Fetchers : Busy(f) => call[f].path \in prefetching
    /\ \A p \in prefetching : \E f \in Fetchers : Busy(f) /\ call[f].path = p
    /\ \A f, g \in Fetchers : Busy(f) /\ Busy(g) /\ f # g => call[f].path # call[g].path
  BY DEF PrefetchOnce, Busy

\* A fetcher that ends takes its path out of the set, and nobody else's.
LEMMA FetcherEnds ==
  ASSUME PrefetchOnce, NEW f \in Fetchers, Busy(f), ~Busy(f)',
         prefetching' = prefetching \ {call[f].path},
         \A g \in Fetchers : g # f => (Busy(g)' <=> Busy(g)) /\ call'[g] = call[g]
  PROVE  PrefetchOnce'
<1>1. /\ \A g \in Fetchers : Busy(g) => call[g].path \in prefetching
      /\ \A p \in prefetching : \E g \in Fetchers : Busy(g) /\ call[g].path = p
      /\ \A g, h \in Fetchers : Busy(g) /\ Busy(h) /\ g # h => call[g].path # call[h].path
  BY PrefetchOnceIs
<1>2. /\ \A g \in Fetchers : Busy(g)' => call'[g].path \in prefetching'
      /\ \A p \in prefetching' : \E g \in Fetchers : Busy(g)' /\ call'[g].path = p
      /\ \A g, h \in Fetchers : Busy(g)' /\ Busy(h)' /\ g # h => call'[g].path # call'[h].path
  BY <1>1
<1> QED BY <1>2 DEF PrefetchOnce, Busy

\* Steps of callers, of the daemon and of the watcher leave the fetchers alone.
LEMMA FetchersAlone ==
  ASSUME PrefetchOnce, UNCHANGED prefetching,
         \A g \in Fetchers : (Busy(g)' <=> Busy(g)) /\ call'[g].path = call[g].path
  PROVE  PrefetchOnce'
<1>1. /\ \A g \in Fetchers : Busy(g) => call[g].path \in prefetching
      /\ \A p \in prefetching : \E g \in Fetchers : Busy(g) /\ call[g].path = p
      /\ \A g, h \in Fetchers : Busy(g) /\ Busy(h) /\ g # h => call[g].path # call[h].path
  BY PrefetchOnceIs
<1>2. /\ \A g \in Fetchers : Busy(g)' => call'[g].path \in prefetching'
      /\ \A p \in prefetching' : \E g \in Fetchers : Busy(g)' /\ call'[g].path = p
      /\ \A g, h \in Fetchers : Busy(g)' /\ Busy(h)' /\ g # h => call'[g].path # call'[h].path
  BY <1>1
<1> QED BY <1>2 DEF PrefetchOnce, Busy

\* Readdir starts a goroutine of its own for each file it marks, and marks only
\* files that are not marked.
LEMMA ListDirStarts ==
  ASSUME Types, PrefetchOnce, NEW c \in Callers, NEW dir, ListDir(c, dir)
  PROVE  PrefetchOnce'
<1>0. /\ \A g \in Fetchers : Busy(g) => call[g].path \in prefetching
      /\ \A p \in prefetching : \E g \in Fetchers : Busy(g) /\ call[g].path = p
      /\ \A g, h \in Fetchers : Busy(g) /\ Busy(h) /\ g # h => call[g].path # call[h].path
      /\ Fetchers \subseteq Procs
  BY PrefetchOnceIs DEF Procs
<1>1. PICK start \in [ToStart(dir) -> {f \in Fetchers : pc[f] = "idle"}] :
        /\ \A p, q \in ToStart(dir) : p # q => start[p] # start[q]
        /\ prefetching' = prefetching \cup ToStart(dir)
        /\ pc' = [f \in Procs |-> IF f \in Range(start) THEN "started" ELSE pc[f]]
        /\ call' = [f \in Procs |->
                      IF f \in Range(start)
                      THEN LET p == CHOOSE q \in ToStart(dir) : start[q] = f
                           IN  Call("read", p, p, tree[p].ver)
                      ELSE call[f]]
  BY DEF ListDir
<1>2. ToStart(dir) \cap prefetching = {}
  BY DEF ToStart
<1>3. Range(start) = {start[p] : p \in ToStart(dir)}
  BY DEF Range
<1>4. ASSUME NEW p \in ToStart(dir)
      PROVE  /\ start[p] \in Fetchers /\ ~Busy(start[p]) /\ Busy(start[p])'
             /\ call'[start[p]].path = p
  <2>1. start[p] \in Fetchers /\ pc[start[p]] = "idle" /\ start[p] \in Range(start)
    BY <1>3
  <2>2. (CHOOSE q \in ToStart(dir) : start[q] = start[p]) = p
    BY <1>1
  <2>3. call'[start[p]] = Call("read", p, p, tree[p].ver)
    BY <1>0, <1>1, <2>1, <2>2
  <2>4. pc'[start[p]] = "started"
    BY <1>0, <1>1, <2>1
  <2> QED BY <2>1, <2>3, <2>4 DEF Busy, Call
<1>5. ASSUME NEW f \in Fetchers, f \notin Range(start)
      PROVE  (Busy(f)' <=> Busy(f)) /\ call'[f] = call[f]
  BY <1>0, <1>1, <1>5 DEF Busy
<1> HIDE DEF Busy, ToStart
<1>6. ASSUME NEW f \in Fetchers, Busy(f)'
      PROVE  \/ \E p \in ToStart(dir) : f = start[p] /\ call'[f].path = p
             \/ Busy(f) /\ call'[f] = call[f] /\ f \notin Range(start)
  BY <1>3, <1>4, <1>5, <1>6
<1>7. ASSUME NEW f \in Fetchers, Busy(f)' PROVE call'[f].path \in prefetching'
  <2>1. prefetching' = prefetching \cup ToStart(dir)
    BY <1>1
  <2>2. CASE \E p \in ToStart(dir) : f = start[p] /\ call'[f].path = p
    BY <2>1, <2>2
  <2>3. CASE Busy(f) /\ call'[f] = call[f]
    BY <1>0, <2>1, <2>3
  <2> QED BY <1>6, <1>7, <2>2, <2>3
<1>8. ASSUME NEW p \in prefetching' PROVE \E f \in Fetchers : Busy(f)' /\ call'[f].path = p
  <2>1. CASE p \in ToStart(dir)
    BY <1>4, <2>1
  <2>2. CASE p \in prefetching
    <3>1. PICK f \in Fetchers : Busy(f) /\ call[f].path = p
      BY <1>0, <2>2
    <3>2. f \notin Range(start)
      BY <1>3, <1>4, <3>1
    <3> QED BY <1>5, <3>1, <3>2
  <2> QED BY <1>1, <1>8, <2>1, <2>2
<1>9. ASSUME NEW f \in Fetchers, NEW g \in Fetchers, Busy(f)', Busy(g)', f # g
      PROVE  call'[f].path # call'[g].path
  <2>1. ASSUME NEW x \in Fetchers, NEW y \in Fetchers, Busy(y), call'[y] = call[y],
               \E p \in ToStart(dir) : x = start[p] /\ call'[x].path = p
        PROVE  call'[x].path # call'[y].path
    BY <1>0, <1>2, <2>1
  <2>2. CASE /\ \E p \in ToStart(dir) : f = start[p] /\ call'[f].path = p
             /\ \E p \in ToStart(dir) : g = start[p] /\ call'[g].path = p
    BY <1>9, <2>2
  <2>3. CASE Busy(f) /\ call'[f] = call[f] /\ Busy(g) /\ call'[g] = call[g]
    BY <1>0, <1>9, <2>3
  <2>4. /\ \/ \E p \in ToStart(dir) : f = start[p] /\ call'[f].path = p
           \/ Busy(f) /\ call'[f] = call[f]
        /\ \/ \E p \in ToStart(dir) : g = start[p] /\ call'[g].path = p
           \/ Busy(g) /\ call'[g] = call[g]
    BY <1>6, <1>9
  <2> QED BY <2>1, <2>2, <2>3, <2>4
<1> QED BY <1>7, <1>8, <1>9 DEF PrefetchOnce, Busy

\* No step starts a second goroutine for a file, or leaves one marked.
LEMMA PrefetchStep ==
  ASSUME Types, QueueInv, PrefetchOnce, [Next]_vars
  PROVE  PrefetchOnce'
<1>0. /\ pc \in [Procs -> Places] /\ DOMAIN call = Procs
      /\ Callers \subseteq Procs /\ Fetchers \subseteq Procs /\ Callers \cap Fetchers = {}
      /\ Procs = Callers \cup Fetchers
  BY MirrorAssumption DEF Types, ProcTypes, Procs
<1>1. ASSUME NEW c \in Callers, CallStart(c) PROVE PrefetchOnce'
  <2>1. PICK x : call' = [call EXCEPT ![c] = x]
    BY <1>1 DEF CallStart
  <2>2. pc' = [pc EXCEPT ![c] = "waiting"] /\ UNCHANGED prefetching
    BY <1>1 DEF CallStart, viewVars
  <2> QED BY <1>0, <2>1, <2>2, FetchersAlone DEF Busy
<1>2. ASSUME NEW c \in Callers, NEW path \in Paths, ReadStart(c, path) PROVE PrefetchOnce'
  <2>1. UNCHANGED prefetching
    BY <1>2 DEF ReadStart
  <2>2. CASE UNCHANGED <<pc, call>>
    BY <2>1, <2>2, FetchersAlone DEF Busy
  <2>3. CASE ~UNCHANGED <<pc, call>>
    <3>1. PICK x : call' = [call EXCEPT ![c] = x] /\ pc' = [pc EXCEPT ![c] = "waiting"]
      BY <1>2, <2>3 DEF ReadStart, Request
    <3> QED BY <1>0, <2>1, <3>1, FetchersAlone DEF Busy
  <2> QED BY <2>2, <2>3
<1>3. ASSUME NEW c \in Callers, NEW dir, ListDir(c, dir) PROVE PrefetchOnce'
  BY <1>3, ListDirStarts
<1>4. ASSUME NEW c \in Callers, Idle(c), UNCHANGED prefetching PROVE PrefetchOnce'
  BY <1>0, <1>4, FetchersAlone DEF Idle, Busy
<1>5. ASSUME NEW f \in Fetchers, Busy(f), Idle(f), prefetching' = prefetching \ {call[f].path}
      PROVE  PrefetchOnce'
  <2>1. ~Busy(f)' /\ \A g \in Fetchers : g # f => (Busy(g)' <=> Busy(g)) /\ call'[g] = call[g]
    BY <1>0, <1>5 DEF Idle, Busy
  <2> QED BY <1>5, <2>1, FetcherEnds
<1>6. ASSUME NEW f \in Fetchers, Prefetch(f) PROVE PrefetchOnce'
  <2>1. Busy(f)
    BY <1>6 DEF Prefetch, Busy
  <2>2. CASE Idle(f) /\ prefetching' = prefetching \ {call[f].path}
    BY <1>5, <2>1, <2>2
  <2>3. CASE Request(f, "read", call[f].path, call[f].ver) /\ UNCHANGED prefetching
    <3>1. PICK x : x = Call("read", call[f].path, call[f].path, call[f].ver)
      OBVIOUS
    <3>2. x.path = call[f].path
      BY <3>1 DEF Call
    <3>3. call' = [call EXCEPT ![f] = x] /\ pc' = [pc EXCEPT ![f] = "waiting"]
      BY <2>3, <3>1 DEF Request
    <3>4. \A g \in Fetchers : (Busy(g)' <=> Busy(g)) /\ call'[g].path = call[g].path
      BY <1>0, <2>1, <3>2, <3>3 DEF Busy
    <3> QED BY <2>3, <3>4, FetchersAlone
  <2> QED BY <1>6, <2>2, <2>3 DEF Prefetch
<1>7. ASSUME NEW p \in Procs, ReadDone(p) \/ AnswerTooLate(p) PROVE PrefetchOnce'
  <2>1. Busy(p) /\ Idle(p)
    BY <1>7, DeliveryToWaiting DEF ReadDone, AnswerTooLate, Busy
  <2>2. prefetching' = IF p \in Fetchers THEN prefetching \ {call[p].path} ELSE prefetching
    BY <1>7 DEF ReadDone, AnswerTooLate
  <2> QED BY <1>0, <1>4, <1>5, <2>1, <2>2
<1>8. ASSUME NEW p \in Procs, RecvAnswer(p) PROVE PrefetchOnce'
  <2>1. pc[p] = "waiting"
    BY <1>8, DeliveryToWaiting DEF RecvAnswer
  <2>2. pc' = [pc EXCEPT ![p] = "answered"] /\ UNCHANGED <<call, prefetching>>
    BY <1>8 DEF RecvAnswer, viewVars
  <2>3. \A g \in Fetchers : (Busy(g)' <=> Busy(g)) /\ call'[g].path = call[g].path
    BY <1>0, <2>1, <2>2 DEF Busy
  <2> QED BY <2>2, <2>3, FetchersAlone
<1>9. CASE \/ RecvChange \/ HandleChange \/ HandleStat \/ HandleFails \/ HandleRead \/ LocalEdit
           \/ WatchStart \/ WatchSuppress \/ WatchOverflow \/ WatchReport \/ ForwardEvent
           \/ UNCHANGED vars
  <2>1. UNCHANGED <<pc, call, prefetching>>
    BY <1>9 DEF RecvChange, HandleChange, HandleStat, HandleFails, HandleRead, LocalEdit,
                WatchStart, WatchSuppress, WatchOverflow, WatchReport, ForwardEvent, vars,
                procVars, viewVars
  <2> QED BY <2>1, FetchersAlone DEF Busy
<1>10. ASSUME NEW c \in Callers, CallApply(c) PROVE PrefetchOnce'
  BY <1>4, <1>10 DEF CallApply
<1> QED BY <1>1, <1>2, <1>3, <1>6, <1>7, <1>8, <1>9, <1>10 DEF Next

-----------------------------------------------------------------------------
(* What steps do to the cache *)

\* invalidatePath leaves nothing of the path, or of what is below it.
LEMMA InvalidatePathKeeps ==
  ASSUME NEW c, Counted(c), NEW p \in Path, NEW recursive \in BOOLEAN
  PROVE  LET d == InvalidatePath(c, p, recursive) IN
         /\ Counted(d) /\ d.used =< c.used
         /\ Entries(d) \subseteq {e \in Entries(c) : e.path # p /\ (recursive => ~Within(p, e.path))}
<1>1. Within(p, p)
  BY WithinPrefix
<1>2. CASE recursive
  <2>1. InvalidatePath(c, p, recursive) = InvalidatePrefix(c, p)
    BY <1>2 DEF InvalidatePath
  <2> QED BY <1>1, <2>1, PrefixKeepsCount
<1>3. CASE ~recursive
  <2>1. InvalidatePath(c, p, recursive) = Invalidate(c, p)
    BY <1>3 DEF InvalidatePath
  <2> QED BY <1>3, <2>1, InvalidateKeepsCount
<1> QED BY <1>2, <1>3

\* Looking for what to prefetch drops outdated entries.
LEMMA LooksKeepCount ==
  ASSUME Counted(cache), NEW dir
  PROVE  /\ Counted(AfterLooks(dir)) /\ AfterLooks(dir).used =< cache.used
         /\ Entries(AfterLooks(dir)) \subseteq Entries(cache)
<1> DEFINE N == Len(SortedPaths)
           S == {d \in CacheSet : Counted(d)}
           Look(n, d) == LET p == SortedPaths[n] IN
                           IF p \in Examined(dir) THEN Get(d, p, SigOf[tree[p].ver]) ELSE d
           G == [x \in (1..N) \X S |-> Look(x[1], x[2])]
           IsLoop(f) == f = [n \in 0..N |-> IF n = 0 THEN cache ELSE Look(n, f[n - 1])]
<1>1. cache \in S /\ N \in Nat /\ cache.used \in Nat
  BY CountedParts, MirrorAssumption, LenProperties DEF Counted
<1>2. ASSUME NEW d \in S, NEW n \in 1..N
      PROVE  /\ Look(n, d) \in S /\ Entries(Look(n, d)) \subseteq Entries(d)
             /\ Look(n, d).used =< d.used /\ Look(n, d).used \in Nat /\ d.used \in Nat
  <2>1. Counted(d) /\ d.used \in Nat
    BY CountedParts
  <2>2. CASE SortedPaths[n] \in Examined(dir)
    <3>1. Look(n, d) = Get(d, SortedPaths[n], SigOf[tree[SortedPaths[n]].ver])
      BY <2>2
    <3>2. /\ Counted(Look(n, d)) /\ Look(n, d).used =< d.used
          /\ Entries(Look(n, d)) \subseteq Entries(d)
      BY <2>1, <3>1, GetKeepsCount
    <3>3. Look(n, d) \in CacheSet /\ Look(n, d).used \in Nat
      BY <3>2, CountedParts DEF Counted
    <3> QED BY <2>1, <3>2, <3>3
  <2>3. CASE SortedPaths[n] \notin Examined(dir)
    <3>1. Look(n, d) = d
      BY <2>3
    <3> QED BY <2>1, <3>1
  <2> QED BY <2>2, <2>3
<1> HIDE DEF Look
<1>3. G \in [(1..N) \X S -> S]
  BY <1>2
<1>4. PICK f : Iterates(f, S, N, cache, G)
  <2> HIDE DEF G, N, S
  <2> QED BY <1>1, <1>3, IterationExists
<1> HIDE DEF S
<1>5. IsLoop(f)
  <2>1. f \in [0..N -> S] /\ f[0] = cache /\ \A n \in 1..N : f[n] = G[<<n, f[n - 1]>>]
    BY <1>4 DEF Iterates
  <2>2. ASSUME NEW n \in 1..N PROVE f[n] = Look(n, f[n - 1])
    <3>1. <<n, f[n - 1]>> \in (1..N) \X S
      BY <1>1, <2>1
    <3> QED BY <2>1, <3>1
  <2> QED BY <1>1, <2>1, <2>2
<1> DEFINE g == CHOOSE h : IsLoop(h)
<1>6. IsLoop(g)
  BY <1>5
<1>7. AfterLooks(dir) = g[N]
  BY DEF AfterLooks, Look
<1> HIDE DEF g, G
<1>8. g[0] = cache /\ \A n \in 1..N : g[n] = Look(n, g[n - 1])
  <2>1. g[0] = cache
    BY <1>1, <1>6
  <2>2. ASSUME NEW n \in 1..N PROVE g[n] = Look(n, g[n - 1])
    <3>1. n \in 0..N /\ n # 0
      BY <1>1
    <3>2. g[n] = [m \in 0..N |-> IF m = 0 THEN cache ELSE Look(m, g[m - 1])][n]
      BY <1>6, Zenon
    <3> QED BY <3>1, <3>2
  <2> QED BY <2>1, <2>2
<1> DEFINE T == {n \in 0..N : /\ g[n] \in S /\ Entries(g[n]) \subseteq Entries(cache)
                              /\ g[n].used =< cache.used /\ g[n].used \in Nat}
<1>9. \A n \in 0..N : n \in T
  <2>1. 0 \in T
    BY <1>1, <1>8
  <2>2. ASSUME NEW n \in 1..N, n - 1 \in T PROVE n \in T
    <3>1. /\ g[n - 1] \in S /\ Entries(g[n - 1]) \subseteq Entries(cache)
          /\ g[n - 1].used =< cache.used
      BY <2>2
    <3>2. g[n] = Look(n, g[n - 1]) /\ n \in 0..N
      BY <1>1, <1>8
    <3>3. /\ g[n] \in S /\ Entries(g[n]) \subseteq Entries(g[n - 1])
          /\ g[n].used =< g[n - 1].used /\ g[n].used \in Nat /\ g[n - 1].used \in Nat
      BY <1>2, <3>1, <3>2
    <3>4. g[n].used =< cache.used
      BY <1>1, <3>1, <3>3
    <3> QED BY <3>1, <3>2, <3>3, <3>4
  <2> HIDE DEF T
  <2> QED BY <1>1, <2>1, <2>2, InductionUpTo
<1>10. g[N] \in S /\ Entries(g[N]) \subseteq Entries(cache) /\ g[N].used =< cache.used
  BY <1>1, <1>9
<1>11. Counted(g[N])
  BY <1>10 DEF S
<1> QED BY <1>7, <1>10, <1>11

\* A step that takes entries out of the cache, or none.
CacheShrinks ==
  /\ Counted(cache') /\ cache'.used =< CacheMax
  /\ Entries(cache') \subseteq Entries(cache)

\* ApplyDelete, ApplyRename and ApplyWriteResult.
LEMMA ApplyShrinks ==
  ASSUME Types, CacheInv, NEW c \in Procs, CallApply(c)
  PROVE  CacheShrinks
<1>0. /\ Counted(cache) /\ cache.used =< CacheMax /\ cache.used \in Nat /\ CacheMax \in Nat
  BY CountedParts, CacheMaxAssumption DEF CacheInv
<1>1. pc[c] # "idle"
  BY DEF CallApply
<1>2. call[c] \in CallSet /\ reply[c] \in AnswerSet
  BY <1>1 DEF Types, ProcTypes
<1>3. call[c].path \in Path /\ call[c].to \in Path /\ reply[c].dir \in BOOLEAN
  BY <1>2, CallParts, PathsType DEF AnswerSet
<1>4. CASE ~reply[c].ok
  <2>1. cache' = cache
    BY <1>4 DEF CallApply
  <2> QED BY <1>0, <2>1 DEF CacheShrinks
<1>5. CASE reply[c].ok
  <2>1. cache' = ApplyCache(call[c], reply[c])
    BY <1>5 DEF CallApply
  <2>2. PICK was \in BOOLEAN : was = (Shown(tree, call[c].path) = Dir)
    OBVIOUS
  <2> DEFINE a == InvalidatePath(cache, call[c].path, was)
             b == InvalidatePath(a, call[c].to, reply[c].dir)
             d == InvalidatePath(cache, call[c].path, reply[c].dir)
  <2>3. Counted(a) /\ a.used =< cache.used /\ Entries(a) \subseteq Entries(cache)
    BY <1>0, <1>3, InvalidatePathKeeps
  <2>4. Counted(d) /\ d.used =< cache.used /\ Entries(d) \subseteq Entries(cache)
    BY <1>0, <1>3, InvalidatePathKeeps
  <2>5. cache' = IF call[c].op = "remove" THEN a ELSE IF call[c].op = "rename" THEN b ELSE d
    BY <2>1, <2>2 DEF ApplyCache
  <2> HIDE DEF a, d
  <2>6. /\ Counted(b) /\ b.used =< a.used
        /\ Entries(b) \subseteq Entries(a)
    BY <1>3, <2>3, InvalidatePathKeeps
  <2> HIDE DEF b
  <2>7. a.used \in Nat /\ b.used \in Nat /\ d.used \in Nat
    BY <2>3, <2>4, <2>6, CountedParts
  <2>8. a.used =< CacheMax /\ b.used =< CacheMax /\ d.used =< CacheMax
    BY <1>0, <2>3, <2>4, <2>6, <2>7
  <2> QED BY <2>3, <2>4, <2>5, <2>6, <2>8 DEF CacheShrinks
<1> QED BY <1>4, <1>5

\* applyChange.
LEMMA ChangeShrinks ==
  ASSUME Types, CacheInv, RecvChange
  PROVE  CacheShrinks
<1>0. /\ Counted(cache) /\ cache.used =< CacheMax /\ cache.used \in Nat /\ CacheMax \in Nat
  BY CountedParts, CacheMaxAssumption DEF CacheInv
<1>1. up # <<>> /\ Head(up).to = None
  BY DEF RecvChange, Delivery
<1>2. PICK x \in ChangeSet : x = Head(up).change
  BY <1>1, MessageTypes DEF Types
<1>3. x.path \in Path /\ x.dir \in BOOLEAN
  BY PathsType DEF ChangeSet
<1>4. PICK rec \in BOOLEAN : rec = IF x.kind = "delete" THEN Shown(tree, x.path) = Dir ELSE x.dir
  BY <1>3
<1>5. cache' = InvalidatePath(cache, x.path, rec)
  BY <1>2, <1>4 DEF RecvChange
<1>6. /\ Counted(cache') /\ cache'.used =< cache.used
      /\ Entries(cache') \subseteq Entries(cache)
  BY <1>0, <1>3, <1>5, InvalidatePathKeeps
<1>7. cache'.used =< CacheMax
  BY <1>0, <1>6, CountedParts
<1> QED BY <1>6, <1>7 DEF CacheShrinks

\* ReadDone puts in what was read under the signature the read began with.
ReadEntry(p) == Entry(call[p].path, SigOf[call[p].ver], reply[p].ver, SizeOf[reply[p].ver])

\* The end of a read puts its entry into the cache, or only takes others out.
LEMMA ReadPuts ==
  ASSUME Types, CacheInv, NEW p \in Procs, ReadDone(p)
  PROVE  \/ CacheShrinks
         \/ /\ reply[p].ok /\ call[p].op = "read"
            /\ Counted(cache') /\ cache'.used =< CacheMax
            /\ Entries(cache') \subseteq Entries(cache) \cup {ReadEntry(p)}
            /\ call[p].path \in Paths
<1>0. Counted(cache) /\ cache.used =< CacheMax
  BY DEF CacheInv
<1>1. call[p] \in CallSet /\ reply[p] \in AnswerSet
  BY DEF ReadDone, Types, ProcTypes
<1>2. CASE ~(reply[p].ok /\ call[p].op = "read")
  <2>1. cache' = cache
    BY <1>2 DEF ReadDone
  <2> QED BY <1>0, <2>1 DEF CacheShrinks
<1>3. CASE reply[p].ok /\ call[p].op = "read"
  <2>1. cache' = Put(cache, ReadEntry(p))
    BY <1>3 DEF ReadDone, ReadEntry
  <2>2. call[p].path \in Paths /\ call[p].path \in Path /\ call[p].ver \in 0..last
    BY <1>1, CallParts, PathsType
  <2>3. reply[p].ver \in 0..last /\ last \in 0..MaxVer /\ MaxVer \in Nat
    BY <1>1, MirrorAssumption DEF AnswerSet, Types, DiskTypes
  <2>4. reply[p].ver \in Nat /\ call[p].ver \in 0..MaxVer /\ reply[p].ver \in 0..MaxVer
    BY <2>2, <2>3
  <2>5. SizeOf[reply[p].ver] \in Nat /\ SigOf[call[p].ver] \in Nat
    BY <2>4, MirrorAssumption
  <2>6. ReadEntry(p) \in EntrySet
    BY <2>2, <2>4, <2>5 DEF ReadEntry, Entry, EntrySet
  <2> QED BY <1>0, <1>3, <2>1, <2>2, <2>6, PutKeepsCount
<1> QED BY <1>2, <1>3

\* Every step takes entries out of the cache or puts in what was read.
LEMMA CacheSteps ==
  ASSUME Types, CacheInv, [Next]_vars
  PROVE  CacheShrinks \/ \E p \in Procs : ReadDone(p)
<1>0. /\ Counted(cache) /\ cache.used =< CacheMax /\ cache.used \in Nat /\ CacheMax \in Nat
  BY CountedParts, CacheMaxAssumption DEF CacheInv
<1>1. ASSUME NEW c, Counted(c), c.used =< cache.used, Entries(c) \subseteq Entries(cache), cache' = c
      PROVE  CacheShrinks
  <2>1. c.used =< CacheMax
    BY <1>0, <1>1, CountedParts
  <2> QED BY <1>1, <2>1 DEF CacheShrinks
<1>2. CASE UNCHANGED cache
  BY <1>0, <1>2 DEF CacheShrinks
<1>3. ASSUME NEW c \in Callers, NEW path, ReadStart(c, path) PROVE CacheShrinks
  <2>1. PICK sig : cache' = Get(cache, path, sig)
    BY <1>3 DEF ReadStart
  <2> QED BY <1>0, <1>1, <2>1, GetKeepsCount
<1>4. ASSUME NEW c \in Callers, NEW dir, ListDir(c, dir) PROVE CacheShrinks
  <2>1. cache' = AfterLooks(dir)
    BY <1>4 DEF ListDir
  <2> QED BY <1>0, <1>1, <2>1, LooksKeepCount
<1>5. ASSUME NEW f \in Fetchers, Prefetch(f) PROVE CacheShrinks
  <2>1. cache' = Get(cache, call[f].path, SigOf[call[f].ver])
    BY <1>5 DEF Prefetch
  <2> QED BY <1>0, <1>1, <2>1, GetKeepsCount
<1>6. ASSUME NEW c \in Callers, CallApply(c) PROVE CacheShrinks
  BY <1>6, ApplyShrinks DEF Procs
<1>7. CASE RecvChange
  BY <1>7, ChangeShrinks
<1>8. CASE \/ \E c \in Callers : CallStart(c)
           \/ \E p \in Procs : RecvAnswer(p) \/ AnswerTooLate(p)
           \/ HandleChange \/ HandleStat \/ HandleFails \/ HandleRead \/ LocalEdit \/ WatchStart
           \/ WatchSuppress \/ WatchOverflow \/ WatchReport \/ ForwardEvent \/ UNCHANGED vars
  <2>1. UNCHANGED cache
    BY <1>8 DEF CallStart, RecvAnswer, AnswerTooLate, HandleChange, HandleStat, HandleFails,
                HandleRead, LocalEdit, WatchStart, WatchSuppress, WatchOverflow, WatchReport,
                ForwardEvent, vars, viewVars
  <2> QED BY <1>2, <2>1
<1> QED BY <1>3, <1>4, <1>5, <1>6, <1>7, <1>8 DEF Next

\* The cache counts rightly and keeps to its limit in every step.
LEMMA CacheStep ==
  ASSUME Types, CacheInv, [Next]_vars
  PROVE  CacheInv'
<1>0. \A x \in Entries(cache) : x.path \in Paths
  BY DEF CacheInv
<1>1. CASE CacheShrinks
  BY <1>0, <1>1 DEF CacheShrinks, CacheInv
<1>2. ASSUME NEW p \in Procs, ReadDone(p), ~CacheShrinks PROVE CacheInv'
  <2>1. /\ Counted(cache') /\ cache'.used =< CacheMax
        /\ Entries(cache') \subseteq Entries(cache) \cup {ReadEntry(p)}
        /\ call[p].path \in Paths
    BY <1>2, ReadPuts
  <2>2. ReadEntry(p).path = call[p].path
    BY DEF ReadEntry, Entry
  <2> QED BY <1>0, <2>1, <2>2 DEF CacheInv
<1> QED BY <1>1, <1>2, CacheSteps

-----------------------------------------------------------------------------
(* What is on its way, and the history *)

\* What is in a queue that grows at its end or loses its head.
LEMMA RangeAppend ==
  ASSUME NEW S, NEW s \in Seq(S), NEW e \in S
  PROVE  Range(Append(s, e)) = Range(s) \cup {e}
<1>1. /\ Append(s, e) \in Seq(S) /\ Len(Append(s, e)) = Len(s) + 1 /\ Len(s) \in Nat
      /\ \A i \in 1..Len(s) : Append(s, e)[i] = s[i]
      /\ Append(s, e)[Len(s) + 1] = e
  BY AppendProperties, LenProperties
<1>2. PICK t : t = Append(s, e)
  OBVIOUS
<1>3. Range(t) = {t[i] : i \in 1..(Len(s) + 1)} /\ Range(s) = {s[i] : i \in 1..Len(s)}
  <2>1. t \in Seq(S) /\ Len(t) = Len(s) + 1
    BY <1>1, <1>2, Zenon
  <2>2. Range(t) = {t[i] : i \in 1..Len(t)} /\ Range(s) = {s[i] : i \in 1..Len(s)}
    BY <2>1, RangeEquality, Zenon
  <2> QED BY <2>1, <2>2, Zenon
<1>4. 1..(Len(s) + 1) = 1..Len(s) \cup {Len(s) + 1}
  BY <1>1
<1>5. Range(t) = {t[i] : i \in 1..Len(s)} \cup {t[Len(s) + 1]}
  BY <1>3, <1>4
<1> QED BY <1>1, <1>2, <1>3, <1>5

\* The elements of a queue are its head and those behind.
LEMMA RangeTail ==
  ASSUME NEW S, NEW s \in Seq(S), s # <<>>
  PROVE  Range(s) = {Head(s)} \cup Range(Tail(s))
<1>1. /\ Tail(s) \in Seq(S) /\ Len(Tail(s)) = Len(s) - 1 /\ Len(s) \in Nat \ {0}
      /\ \A i \in 1..(Len(s) - 1) : Tail(s)[i] = s[i + 1]
  BY HeadTailProperties, EmptySeq
<1>2. PICK t : t = Tail(s)
  OBVIOUS
<1>3. Range(t) = {t[i] : i \in 1..(Len(s) - 1)} /\ Range(s) = {s[i] : i \in 1..Len(s)}
  <2>1. t \in Seq(S) /\ Len(t) = Len(s) - 1
    BY <1>1, <1>2
  <2>2. Range(t) = {t[i] : i \in 1..Len(t)}
    BY <2>1, RangeEquality
  <2>3. Range(s) = {s[i] : i \in 1..Len(s)}
    BY RangeEquality
  <2> QED BY <2>1, <2>2, <2>3
<1>4. Head(s) = s[1]
  OBVIOUS
<1>5. ASSUME NEW x \in Range(s) PROVE x = s[1] \/ x \in Range(t)
  <2>1. PICK i \in 1..Len(s) : x = s[i]
    BY <1>3
  <2>2. CASE i # 1
    <3>1. i - 1 \in 1..(Len(s) - 1) /\ (i - 1) + 1 = i
      BY <1>1, <2>2
    <3>2. t[i - 1] = s[i]
      BY <1>1, <1>2, <3>1
    <3> QED BY <1>3, <2>1, <3>1, <3>2
  <2> QED BY <2>1, <2>2
<1>6. ASSUME NEW x \in Range(t) PROVE x \in Range(s)
  <2>1. PICK i \in 1..(Len(s) - 1) : x = t[i]
    BY <1>3
  <2>2. i + 1 \in 1..Len(s) /\ x = s[i + 1]
    BY <1>1, <1>2, <2>1
  <2> QED BY <1>3, <2>2
<1>7. s[1] \in Range(s)
  BY <1>1, <1>3
<1> QED BY <1>2, <1>4, <1>5, <1>6, <1>7

\* The history keeps every excuse.
LEMMA ExcusesStay ==
  ASSUME Types, QueueInv, DiskInv, [Next]_vars
  PROVE  excused \subseteq excused'
<1>1. ASSUME NEW p, NEW who, Edits(p, who) PROVE excused \subseteq excused'
  BY <1>1 DEF Edits, DiskWrite, DiskMkdir, DiskRemove, DiskSet, Excuse
<1>2. ASSUME NEW p, NEW q, NEW who, Moves(p, q, who) PROVE excused \subseteq excused'
  BY <1>2 DEF Moves, DiskRename
<1>3. CASE Makes
  <2>1. PICK c \in CallSet : Effect(c)
    BY <1>3, HeadWaits DEF Makes, HandleChange
  <2> QED BY <1>1, <1>2, <2>1, EffectSteps
<1>4. CASE LocalEdit
  BY <1>1, <1>2, <1>4, LocalSteps
<1>5. CASE \E c \in Callers : CallApply(c)
  BY <1>5 DEF CallApply
<1>6. CASE \E p \in Procs : AnswerTooLate(p)
  BY <1>6 DEF AnswerTooLate, Excuse
<1>7. CASE RecvChange
  BY <1>7 DEF RecvChange, Excuse
<1>8. CASE WatchSuppress \/ WatchOverflow \/ HandleFails
  BY <1>8 DEF WatchSuppress, WatchOverflow, HandleFails, Excuse
<1>9. CASE \/ \E c \in Callers : \/ CallStart(c)
                                 \/ \E p \in Paths : ReadStart(c, p)
                                 \/ \E p \in Paths \cup {Root} : ListDir(c, p)
           \/ \E f \in Fetchers : Prefetch(f)
           \/ \E p \in Procs : ReadDone(p) \/ RecvAnswer(p)
           \/ Refuses \/ HandleStat \/ HandleRead \/ WatchStart \/ WatchReport \/ ForwardEvent
           \/ UNCHANGED vars
  <2>1. UNCHANGED excused
    BY <1>9 DEF CallStart, ReadStart, ListDir, Prefetch, ReadDone, RecvAnswer, Refuses, HandleStat,
                HandleRead, WatchStart, WatchReport, ForwardEvent, vars
  <2> QED BY <2>1
<1> QED BY <1>3, <1>4, <1>5, <1>6, <1>7, <1>8, <1>9, MakesOrRefuses DEF Next

\* A goroutine for which there is an answer waits for it or has it.
LEMMA CarriedTo ==
  ASSUME Types, QueueInv, NEW r \in Procs
  PROVE  /\ Carried(r) # {} => pc[r] \in {"waiting", "answered"}
         /\ pc[r] = "answered" => Carried(r) = {reply[r]}
<1>1. ASSUME NEW m \in Range(up), m.to = r PROVE pc[r] = "waiting"
  <2>1. PICK i \in 1..Len(up) : m = up[i]
    BY RangeEquality DEF Types, LinkTypes
  <2> QED BY <1>1, <2>1 DEF QueueInv, AnswersWait
<1>2. pc[r] = "answered" => {m.answer : m \in {x \in Range(up) : x.to = r}} = {}
  BY <1>1
<1> QED BY <1>1, <1>2 DEF Carried

\* The steps as they concern the answers for one goroutine: it keeps them, it is
\* done with them, or the daemon gives it one.
KeepsAnswers(r) == Carried(r)' = Carried(r) /\ (Carried(r) # {} => call'[r] = call[r])
Finishes(r) == CallApply(r) \/ ReadDone(r) \/ AnswerTooLate(r)
IsAnswered(r) == /\ call' = call
                 /\ Replies
                 /\ down # <<>> /\ r = Head(down)
                 /\ \E a : /\ Carried(r)' = Carried(r) \cup {a}
                           /\ up' = Append(up, [to |-> r, answer |-> a])

\* Messages to others do not concern it.
LEMMA OthersMessages ==
  ASSUME NEW r \in Procs, NEW m, m.to # r, UNCHANGED <<pc[r], reply[r], call[r]>>,
         \/ Range(up') = Range(up) \cup {m}
         \/ Range(up) = {m} \cup Range(up')
         \/ up' = up
  PROVE  KeepsAnswers(r)
<1>1. {x \in Range(up') : x.to = r} = {x \in Range(up) : x.to = r}
  OBVIOUS
<1> QED BY <1>1 DEF KeepsAnswers, Carried

\* Nor does what goroutines do that have no answer yet.
LEMMA WithoutAnswer ==
  ASSUME Types, QueueInv, UNCHANGED up, NEW r \in Procs,
         pc[r] \in {"waiting", "answered"} => UNCHANGED <<pc[r], reply[r], call[r]>>,
         pc'[r] = "answered" => pc[r] = "answered"
  PROVE  KeepsAnswers(r)
<1>1. CASE pc[r] \in {"waiting", "answered"}
  BY <1>1 DEF KeepsAnswers, Carried
<1>2. CASE pc[r] \notin {"waiting", "answered"}
  <2>1. Carried(r) = {}
    BY <1>2, CarriedTo
  <2>2. pc'[r] # "answered"
    BY <1>2
  <2>3. Carried(r)' = {}
    BY <2>1, <2>2 DEF Carried
  <2> QED BY <2>1, <2>3 DEF KeepsAnswers
<1> QED BY <1>1, <1>2

\* ListDir starts goroutines that were idle.
LEMMA ListDirOnlyStarts ==
  ASSUME NEW c \in Callers, NEW dir, ListDir(c, dir), NEW r \in Procs
  PROVE  /\ pc[r] # "idle" => UNCHANGED <<pc[r], call[r]>>
         /\ pc'[r] = "answered" => pc[r] = "answered"
<1>1. PICK start \in [ToStart(dir) -> {f \in Fetchers : pc[f] = "idle"}] :
        /\ pc' = [f \in Procs |-> IF f \in Range(start) THEN "started" ELSE pc[f]]
        /\ call' = [f \in Procs |->
                      IF f \in Range(start)
                      THEN LET p == CHOOSE q \in ToStart(dir) : start[q] = f
                           IN  Call("read", p, p, tree[p].ver)
                      ELSE call[f]]
  BY DEF ListDir
<1>2. \A f \in Range(start) : pc[f] = "idle"
  BY DEF Range
<1>3. pc[r] # "idle" => r \notin Range(start)
  BY <1>2
<1> QED BY <1>1, <1>3

\* A handler answers the goroutine whose request it serves, and no other.
LEMMA HandlersAnswer ==
  ASSUME Types, QueueInv, DiskInv, Replies, [Next]_vars, NEW r \in Procs
  PROVE  KeepsAnswers(r) \/ IsAnswered(r)
<1>0. down # <<>> /\ Head(down) \in Procs /\ UNCHANGED <<pc, call, reply>>
  BY HeadWaits DEF Replies, Refuses, HandleChange, HandleStat, HandleFails, HandleRead, procVars,
                   Types, MadeInv
<1>1. PICK a : up' = Append(up, [to |-> Head(down), answer |-> a])
  BY DEF Replies, Refuses, HandleStat, HandleFails, HandleRead, Respond
<1>2. PICK m : m = [to |-> Head(down), answer |-> a]
  OBVIOUS
<1>3. m.to = Head(down) /\ m.answer = a
  BY <1>2
<1>4. up \in Seq(MessageSet') /\ up' \in Seq(MessageSet')
  BY LinkStep, DiskStep, TypesGrow DEF Types, LinkTypes
<1>5. Range(up') = Range(up) \cup {m}
  <2>1. /\ up' = Append(up, m) /\ Len(up) \in Nat /\ Len(up') = Len(up) + 1 /\ up'[Len(up) + 1] = m
    BY <1>1, <1>2, <1>4
  <2>2. m \in MessageSet'
    BY <1>4, <2>1, ElementOfSeq
  <2> QED BY <1>4, <2>1, <2>2, RangeAppend
<1>6. CASE r # Head(down)
  BY <1>0, <1>3, <1>5, <1>6, OthersMessages
<1>7. CASE r = Head(down)
  <2>1. {x.answer : x \in {y \in Range(up') : y.to = r}}
          = {x.answer : x \in {y \in Range(up) : y.to = r}} \cup {a}
    BY <1>3, <1>5, <1>7
  <2>2. Carried(r)' = Carried(r) \cup {a}
    BY <1>0, <2>1 DEF Carried
  <2> QED BY <1>0, <1>1, <1>7, <2>2 DEF IsAnswered
<1> QED BY <1>6, <1>7

\* resolvePending hands on what has arrived.
LEMMA RecvKeepsAnswers ==
  ASSUME Types, QueueInv, NEW p \in Procs, RecvAnswer(p), NEW r \in Procs
  PROVE  KeepsAnswers(r)
<1>0. pc[p] = "waiting" /\ pc \in [Procs -> Places] /\ reply \in [Procs -> AnswerSet]
  BY DeliveryToWaiting DEF RecvAnswer, Types, ProcTypes
<1>1. /\ up # <<>> /\ Head(up).to = p /\ up' = Tail(up) /\ up \in Seq(MessageSet) /\ call' = call
      /\ pc' = [pc EXCEPT ![p] = "answered"] /\ reply' = [reply EXCEPT ![p] = Head(up).answer]
  BY DEF RecvAnswer, Delivery, Types, LinkTypes
<1>2. Range(up) = {Head(up)} \cup Range(up')
  BY <1>1, RangeTail
<1>3. CASE r # p
  BY <1>0, <1>1, <1>2, <1>3, OthersMessages
<1>4. CASE r = p
  <2>1. Carried(r) = {x.answer : x \in {y \in Range(up') : y.to = r}} \cup {Head(up).answer}
    BY <1>0, <1>1, <1>2, <1>4 DEF Carried
  <2>2. Carried(r)' = {x.answer : x \in {y \in Range(up') : y.to = r}} \cup {Head(up).answer}
    BY <1>0, <1>1, <1>4 DEF Carried
  <2> QED BY <1>1, <2>1, <2>2 DEF KeepsAnswers
<1> QED BY <1>3, <1>4

\* Every step is one of the three.
LEMMA AnswerSteps ==
  ASSUME Types, QueueInv, DiskInv, [Next]_vars, NEW r \in Procs
  PROVE  KeepsAnswers(r) \/ Finishes(r) \/ IsAnswered(r)
<1>0. /\ pc \in [Procs -> Places] /\ DOMAIN call = Procs /\ DOMAIN reply = Procs
      /\ up \in Seq(MessageSet) /\ Callers \subseteq Procs /\ Fetchers \subseteq Procs
      /\ None \notin Procs
  BY MirrorAssumption DEF Types, ProcTypes, LinkTypes, Procs
<1>1. ASSUME NEW p \in Procs, pc[p] \in {"idle", "started"}, UNCHANGED up,
             pc'[p] # "answered",
             \A x \in Procs \ {p} : UNCHANGED <<pc[x], reply[x], call[x]>>
      PROVE  KeepsAnswers(r)
  <2>1. pc[r] \in {"waiting", "answered"} => r # p
    BY <1>1
  <2>2. pc'[r] = "answered" => r # p
    BY <1>1
  <2> QED BY <1>1, <2>1, <2>2, WithoutAnswer
<1>2. ASSUME NEW c \in Callers, CallStart(c) PROVE KeepsAnswers(r)
  <2>1. pc[c] = "idle" /\ UNCHANGED <<up, reply>> /\ pc' = [pc EXCEPT ![c] = "waiting"]
    BY <1>2 DEF CallStart, MayStart
  <2>2. \A x \in Procs \ {c} : call'[x] = call[x]
    BY <1>0, <1>2 DEF CallStart
  <2> QED BY <1>0, <1>1, <2>1, <2>2
<1>3. ASSUME NEW c \in Callers, NEW path, ReadStart(c, path) PROVE KeepsAnswers(r)
  <2>1. pc[c] = "idle" /\ UNCHANGED <<up, reply>>
    BY <1>3 DEF ReadStart, MayStart
  <2>2. CASE UNCHANGED <<pc, call>>
    BY <1>1, <1>0, <2>1, <2>2
  <2>3. CASE \E op, ver : Request(c, op, path, ver)
    <3>1. /\ pc' = [pc EXCEPT ![c] = "waiting"]
          /\ \A x \in Procs \ {c} : call'[x] = call[x]
      BY <1>0, <2>3 DEF Request
    <3> QED BY <1>0, <1>1, <2>1, <3>1
  <2> QED BY <1>3, <2>2, <2>3 DEF ReadStart
<1>4. ASSUME NEW c \in Callers, NEW dir, ListDir(c, dir) PROVE KeepsAnswers(r)
  <2>1. UNCHANGED <<up, reply>>
    BY <1>4 DEF ListDir, linkVars
  <2> QED BY <1>4, <2>1, ListDirOnlyStarts, WithoutAnswer
<1>5. ASSUME NEW f \in Fetchers, Prefetch(f) PROVE KeepsAnswers(r)
  <2>1. pc[f] = "started" /\ UNCHANGED up
    BY <1>5 DEF Prefetch
  <2>2. CASE Idle(f)
    BY <1>0, <1>1, <2>1, <2>2 DEF Idle
  <2>3. CASE Request(f, "read", call[f].path, call[f].ver) /\ UNCHANGED reply
    <3>1. /\ pc' = [pc EXCEPT ![f] = "waiting"]
          /\ \A x \in Procs \ {f} : call'[x] = call[x]
      BY <1>0, <2>3 DEF Request
    <3> QED BY <1>0, <1>1, <2>1, <2>3, <3>1
  <2> QED BY <1>5, <2>2, <2>3 DEF Prefetch
<1>6. ASSUME NEW c \in Procs, CallApply(c) \/ ReadDone(c) PROVE KeepsAnswers(r) \/ Finishes(r)
  <2>1. CASE r = c
    BY <1>6, <2>1 DEF Finishes
  <2>2. CASE r # c
    <3>1. UNCHANGED <<up, pc[r], call[r], reply[r]>>
      BY <1>0, <1>6, <2>2 DEF CallApply, ReadDone, Idle, linkVars
    <3> QED BY <3>1 DEF KeepsAnswers, Carried
  <2> QED BY <2>1, <2>2
<1>7. ASSUME NEW p \in Procs, RecvAnswer(p) PROVE KeepsAnswers(r)
  BY <1>7, RecvKeepsAnswers
<1>8. ASSUME NEW p \in Procs, AnswerTooLate(p) PROVE KeepsAnswers(r) \/ Finishes(r)
  <2>1. CASE r = p
    BY <1>8, <2>1 DEF Finishes
  <2>2. CASE r # p
    <3>1. /\ up # <<>> /\ Head(up).to = p /\ up' = Tail(up)
          /\ UNCHANGED <<pc[r], call[r], reply[r]>>
      BY <1>0, <1>8, <2>2 DEF AnswerTooLate, Delivery, Idle
    <3>2. Range(up) = {Head(up)} \cup Range(up')
      BY <1>0, <3>1, RangeTail
    <3> QED BY <2>2, <3>1, <3>2, OthersMessages
  <2> QED BY <2>1, <2>2
<1>9. CASE RecvChange
  <2>1. up # <<>> /\ Head(up).to = None /\ up' = Tail(up) /\ UNCHANGED <<pc, call, reply>>
    BY <1>9 DEF RecvChange, Delivery, procVars
  <2>2. Range(up) = {Head(up)} \cup Range(up')
    BY <1>0, <2>1, RangeTail
  <2> QED BY <1>0, <2>1, <2>2, OthersMessages
<1>10. CASE Replies
  BY <1>10, HandlersAnswer
<1>11. CASE ForwardEvent
  <2>1. /\ events # <<>> /\ events \in Seq(ChangeSet) /\ UNCHANGED <<pc, call, reply>>
        /\ up' = Append(up, [to |-> None, change |-> Head(events)])
    BY <1>11 DEF ForwardEvent, procVars, Types, WatchTypes
  <2>2. PICK m : m = [to |-> None, change |-> Head(events)]
    OBVIOUS
  <2>3. m.to = None /\ m \in MessageSet
    BY <2>1, <2>2, HeadTailProperties DEF MessageSet
  <2>4. Range(up') = Range(up) \cup {m}
    BY <1>0, <2>1, <2>2, <2>3, RangeAppend
  <2> QED BY <1>0, <2>1, <2>3, <2>4, OthersMessages
<1>12. CASE \/ Makes \/ LocalEdit \/ WatchStart \/ WatchSuppress \/ WatchOverflow \/ WatchReport
            \/ UNCHANGED vars
  <2>1. UNCHANGED <<up, pc, call, reply>>
    BY <1>12 DEF Makes, HandleChange, LocalEdit, WatchStart, WatchSuppress, WatchOverflow,
                 WatchReport, vars, linkVars, procVars
  <2> QED BY <2>1 DEF KeepsAnswers, Carried
<1> QED BY <1>0, <1>2, <1>3, <1>4, <1>5, <1>6, <1>7, <1>8, <1>9, <1>10, <1>11, <1>12,
           MakesOrRefuses
        DEF Next, Replies

-----------------------------------------------------------------------------
(* What a tree shows of a path *)

\* Above what a sound tree holds there are directories.
LEMMA DirsInTree ==
  ASSUME NEW t, Good(t), NEW p \in DOMAIN t, NEW q \in Path, Within(q, p), q # p
  PROVE  q \in DOMAIN t /\ t[q].dir
<1>0. p \in Path /\ Len(p) \in Nat /\ Len(q) \in Nat /\ Len(q) < Len(p) /\ SubSeq(p, 1, Len(q)) = q
  BY WithinParent, LenProperties DEF Good, IsTree, Path, Within
<1>1. PICK n \in 1..Len(p) : n = Len(q) + 1
  BY <1>0
<1>2. PICK x : x = SubSeq(p, 1, n)
  OBVIOUS
<1>3. x \in DOMAIN t /\ ParentOf(x) = q
  BY <1>0, <1>1, <1>2, PrefixClosed, ParentOfPrefix, n \in 0..Len(p), n - 1 = Len(q)
<1>4. x # Root
  BY <1>0, <1>1, <1>2, PrefixProperties, ExtremePrefixes, n \in 0..Len(p)
<1> QED BY <1>3, <1>4, Hangs

\* After a deletion the tree shows nothing of the path and what is below it, and
\* the rest as before.
LEMMA ShownAfterDelete ==
  ASSUME NEW t, Good(t), NEW p \in Path, p # Root, NEW q \in Path
  PROVE  Shown(Delete(t, p), q) = IF Within(p, q) THEN Absent ELSE Shown(t, q)
<1>1. CASE p \notin DOMAIN t
  <2>1. Delete(t, p) = t
    BY <1>1 DEF Delete
  <2>2. Within(p, q) => q \notin DOMAIN t
    BY <1>1, DirsInTree
  <2> QED BY <2>1, <2>2 DEF Shown
<1>2. CASE p \in DOMAIN t
  <2> DEFINE d == Delete(t, p)
             D == {x \in DOMAIN t : ~Within(p, x)}
  <2>1. DOMAIN d = D
    BY <1>2, ReachedIsBelow DEF Delete, Without
  <2>2. \A x \in D : d[x] = IF x = ParentOf(p) THEN [t[x] EXCEPT !.children = @ \ {p}] ELSE t[x]
    BY <1>2, ReachedIsBelow DEF Delete, Without
  <2> HIDE DEF d
  <2>3. \A x \in D : d[x].dir = t[x].dir /\ d[x].ver = t[x].ver
    BY <2>2 DEF Good, IsTree, NodeSet
  <2>4. Shown(d, q) = IF Within(p, q) THEN Absent ELSE Shown(t, q)
    BY <2>1, <2>3 DEF Shown
  <2> QED BY <2>4 DEF d
<1> QED BY <1>1, <1>2

\* After an insertion it shows the path as it was given, directories above it,
\* nothing below it if it is a file, and the rest as before.
LEMMA ShownAfterInsert ==
  ASSUME NEW t, Good(t), NEW p \in Path, p # Root, NEW dir \in BOOLEAN, NEW ver \in Nat,
         NEW q \in Path, q # Root
  PROVE  /\ q = p => Shown(Insert(t, p, dir, ver), q) = IF dir THEN Dir ELSE ver
         /\ Within(q, p) /\ q # p => Shown(Insert(t, p, dir, ver), q) = Dir
         /\ Within(p, q) /\ q # p /\ ~dir => Shown(Insert(t, p, dir, ver), q) = Absent
         /\ ~Within(q, p) /\ (Within(p, q) => dir) => Shown(Insert(t, p, dir, ver), q) = Shown(t, q)
<1> DEFINE u == Pruned(t, p, dir)
           M == Missing(u, p)
           r == Insert(t, p, dir, ver)
<1>1. /\ DOMAIN r = DOMAIN u \cup M \cup {p}
      /\ r[p] = Node(dir, ver, IF dir /\ p \in DOMAIN t THEN t[p].children ELSE {})
      /\ \A x \in DOMAIN u \cup M : x # p => (x \in DOMAIN u /\ Hung(u, p, x) = {} => r[x] = t[x])
  <2>1. Shape(t, p, dir, ver) /\ r = InsertLocked(t, p, dir, ver)
    BY InsertShape DEF Insert
  <2> QED BY <2>1 DEF Shape
<1>2. Good(r)
  BY InsertKeepsGood
<1>3. /\ DOMAIN u \subseteq DOMAIN t
      /\ \A x \in DOMAIN t : x \notin DOMAIN u => ~dir /\ Within(p, x) /\ x # p
  BY PrunedProperties
<1> HIDE DEF u, r
<1>4. r[p].dir = dir /\ r[p].ver = ver
  BY <1>1 DEF Node
<1>5. q = p => Shown(r, q) = IF dir THEN Dir ELSE ver
  BY <1>1, <1>4 DEF Shown
<1>6. Within(q, p) /\ q # p => Shown(r, q) = Dir
  BY <1>1, <1>2, DirsInTree DEF Shown
<1>7. Within(p, q) /\ q # p /\ ~dir => Shown(r, q) = Absent
  BY <1>1, <1>2, <1>4, DirsInTree DEF Shown
<1>8. ASSUME ~Within(q, p), Within(p, q) => dir PROVE Shown(r, q) = Shown(t, q)
  <2>1. q # p
    BY <1>8, WithinPrefix
  <2>2. \A a \in Ancestors(p) : Within(a, p)
    <3>1. Len(p) \in Nat \ {0}
      BY ParentProperties
    <3>2. \A n \in 1..(Len(p) - 1) : n \in 0..Len(p)
      BY <3>1
    <3> QED BY <3>2, WithinPrefix DEF Ancestors
  <2>3. q \notin M
    BY <1>8, <2>2 DEF Missing
  <2>4. Hung(u, p, q) = {}
    <3>1. SUFFICES ASSUME NEW a \in M \cup {p}, ParentOf(a) = q PROVE FALSE
      BY DEF Hung
    <3>2. ParentOf(a) \in Ancestors(p) \/ ParentOf(a) = Root
      BY <3>1, AncestorProperties DEF Missing
    <3> QED BY <1>8, <2>2, <3>1, <3>2
  <2>5. q \in DOMAIN r <=> q \in DOMAIN t
    BY <1>1, <1>3, <1>8, <2>1, <2>3
  <2>6. q \in DOMAIN t => r[q] = t[q]
    BY <1>1, <1>3, <1>8, <2>1, <2>4
  <2> QED BY <2>5, <2>6 DEF Shown
<1> QED BY <1>5, <1>6, <1>7, <1>8 DEF r

-----------------------------------------------------------------------------
(* What an insertion, a deletion or a message may do to what is shown *)

\* Where the disk has d at q, putting p into the tree leaves q shown as it is on
\* disk, if it was so before, ...
InsertFits(d, p, dir, ver, q) ==
  /\ q = p => d = IF dir THEN Dir ELSE ver
  /\ Within(q, p) /\ q # p => d = Dir
  /\ Within(p, q) /\ q # p /\ ~dir => d = Absent

\* ... and so does taking p out of it.
DeleteFits(d, p, q) == Within(p, q) => d = Absent

\* An insertion that fits keeps what is shown right, and makes it so for its path, ...
LEMMA InsertKeepsShown ==
  ASSUME NEW t, Good(t), NEW p \in Paths, NEW dir \in BOOLEAN, NEW ver \in Nat, NEW q \in Paths,
         NEW d, InsertFits(d, p, dir, ver, q)
  PROVE  /\ Shown(t, q) = d => Shown(Insert(t, p, dir, ver), q) = d
         /\ q = p => Shown(Insert(t, p, dir, ver), q) = d
<1>1. p \in Path /\ q \in Path /\ p # Root /\ q # Root /\ Within(p, p)
  BY PlaceTypes
<1>2. PICK s : s = Shown(Insert(t, p, dir, ver), q)
  OBVIOUS
<1>3. /\ q = p => s = IF dir THEN Dir ELSE ver
      /\ Within(q, p) /\ q # p => s = Dir
      /\ Within(p, q) /\ q # p /\ ~dir => s = Absent
      /\ ~Within(q, p) /\ (Within(p, q) => dir) => s = Shown(t, q)
  BY <1>1, <1>2, ShownAfterInsert
<1> QED BY <1>1, <1>2, <1>3 DEF InsertFits

\* ... and a deletion that fits does, for everything below its path.
LEMMA DeleteKeepsShown ==
  ASSUME NEW t, Good(t), NEW p \in Paths, NEW q \in Paths, NEW d, DeleteFits(d, p, q)
  PROVE  /\ Shown(t, q) = d => Shown(Delete(t, p), q) = d
         /\ Within(p, q) => Shown(Delete(t, p), q) = d
<1>1. p \in Path /\ q \in Path /\ p # Root
  BY PlaceTypes
<1> QED BY <1>1, ShownAfterDelete DEF DeleteFits

\* What lstat reports of something that exists is what it is.
LEMMA Described ==
  ASSUME NEW n \in Nat, n =< MaxVer, NEW d \in [Paths -> (1..n) \cup {Absent, Dir}],
         NEW p \in Paths, d[p] # Absent
  PROVE  d[p] = IF d[p] = Dir THEN Dir ELSE VerOf(d, p)
<1>1. d[p] # Dir => d[p] \in 1..MaxVer
  BY MirrorAssumption
<1> QED BY <1>1 DEF VerOf, Versions

\* In a well-formed workspace a path can be shown as it is, or as missing when it
\* is, without doing harm to any other.
LEMMA TrueInsertFits ==
  ASSUME NEW n \in Nat, n =< MaxVer, NEW d \in [Paths -> (1..n) \cup {Absent, Dir}], WellFormed(d),
         NEW p \in Paths, NEW q \in Paths, q = p => d[q] # Absent,
         Within(q, p) /\ q # p => d[q] = Dir
  PROVE  InsertFits(d[q], p, d[p] = Dir, VerOf(d, p), q)
<1>1. p \in Path /\ q \in Path /\ p # Root /\ q # Root
  BY PlaceTypes
<1>2. q = p => d[q] = IF d[p] = Dir THEN Dir ELSE VerOf(d, p)
  BY Described
<1>3. Within(p, q) /\ q # p /\ d[p] # Dir => d[q] = Absent
  BY <1>1, DirsAbove
<1> QED BY <1>2, <1>3 DEF InsertFits

\* What is at a path fits when it is put into the tree, ...
LEMMA ExistingFits ==
  ASSUME NEW n \in Nat, n =< MaxVer, NEW d \in [Paths -> (1..n) \cup {Absent, Dir}], WellFormed(d),
         NEW p \in Paths, d[p] # Absent, NEW q \in Paths
  PROVE  /\ Within(q, p) /\ q # p => d[q] = Dir
         /\ InsertFits(d[q], p, d[p] = Dir, VerOf(d, p), q)
<1>1. Within(q, p) /\ q # p => d[q] = Dir
  BY PlaceTypes, DirsAbove
<1> QED BY <1>1, TrueInsertFits

\* ... and what is missing fits when it is taken out.
LEMMA MissingFits ==
  ASSUME NEW d, WellFormed(d), NEW p \in Paths, d[p] = Absent, NEW q \in Paths
  PROVE  DeleteFits(d[q], p, q)
<1>1. Dir # Absent
  BY MirrorAssumption
<1>2. Within(p, q) /\ q # p => d[q] = Absent
  BY <1>1, PlaceTypes, DirsAbove
<1> QED BY <1>2 DEF DeleteFits

\* The tree of a new session shows the workspace as it was scanned.
LEMMA ScanShown ==
  ASSUME NEW q \in Paths
  PROVE  Shown(ReplaceTree, q) = InitialDisk[q]
<1>0. /\ Len(SortedPaths) \in Nat /\ MaxVer \in Nat
      /\ InitialDisk \in [Paths -> (1..MaxVer) \cup {Absent, Dir}]
      /\ WellFormed(InitialDisk)
  BY MirrorAssumption, LenProperties DEF WellFormed, Versions
<1>1. \A i \in 0..Len(SortedPaths) :
        Built[i] = IF i = 0 THEN New ELSE Scanned(Built[i - 1], SortedPaths[i])
  BY BuiltIsBuild DEF IsBuild
<1>2. \A p \in Paths : VerOf(InitialDisk, p) \in 0..MaxVer
  BY <1>0, VerOfKnown
<1> DEFINE Done(i) == \E j \in 1..i : SortedPaths[j] = q
           T == {i \in 0..Len(SortedPaths) :
                   /\ Good(Built[i]) /\ Knows(Built[i], MaxVer)
                   /\ Shown(Built[i], q) \in {Absent, InitialDisk[q]}
                   /\ Done(i) => Shown(Built[i], q) = InitialDisk[q]}
<1>3. 0 \in T
  <2>1. Built[0] = New /\ 0 \in 0..Len(SortedPaths)
    BY <1>0, <1>1
  <2>2. Shown(New, q) = Absent
    BY PathsType DEF Shown, New
  <2>3. ~Done(0)
    OBVIOUS
  <2> QED BY <1>0, <2>1, <2>2, <2>3, NewIsGood
<1>4. ASSUME NEW i \in 1..Len(SortedPaths), i - 1 \in T PROVE i \in T
  <2>1. i \in 0..Len(SortedPaths) /\ i # 0
    BY <1>0
  <2>2. SortedPaths[i] \in Paths
    BY MirrorAssumption, RangeEquality DEF Paths
  <2>3. PICK p \in Paths : p = SortedPaths[i]
    BY <2>2
  <2>4. PICK t : t = Built[i - 1]
    OBVIOUS
  <2>5. /\ Good(t) /\ Knows(t, MaxVer) /\ Shown(t, q) \in {Absent, InitialDisk[q]}
        /\ Done(i - 1) => Shown(t, q) = InitialDisk[q]
    BY <1>4, <2>4
  <2>6. Built[i] = Scanned(t, p)
    BY <1>1, <2>1, <2>3, <2>4
  <2>7. Done(i) => Done(i - 1) \/ q = p
    BY <2>3
  <2>8. Good(Scanned(t, p)) /\ Knows(Scanned(t, p), MaxVer)
    BY <1>0, <1>2, <2>5, ScannedKeepsGood
  <2>9. /\ Shown(Scanned(t, p), q) \in {Absent, InitialDisk[q]}
        /\ Done(i - 1) \/ q = p => Shown(Scanned(t, p), q) = InitialDisk[q]
    <3> HIDE DEF Done
    <3>1. CASE InitialDisk[p] = Absent
      BY <2>5, <3>1 DEF Scanned
    <3>2. CASE InitialDisk[p] # Absent
      <4>1. PICK dir \in BOOLEAN : dir = (InitialDisk[p] = Dir)
        OBVIOUS
      <4>2. PICK ver \in Nat : ver = VerOf(InitialDisk, p)
        BY <1>2
      <4>3. Scanned(t, p) = Insert(t, p, dir, ver)
        BY <3>2, <4>1, <4>2 DEF Scanned
      <4>4. InsertFits(InitialDisk[q], p, dir, ver, q)
        BY <1>0, <3>2, <4>1, <4>2, ExistingFits
      <4>5. PICK s : s = Shown(Insert(t, p, dir, ver), q)
        OBVIOUS
      <4>6. /\ q = p => s = IF dir THEN Dir ELSE ver
            /\ Within(q, p) /\ q # p => s = Dir
            /\ Within(p, q) /\ q # p /\ ~dir => s = Absent
            /\ ~Within(q, p) /\ (Within(p, q) => dir) => s = Shown(t, q)
        BY <2>5, <4>5, PlaceTypes, ShownAfterInsert
      <4>7. s \in {InitialDisk[q], Shown(t, q)} /\ (q = p => s = InitialDisk[q])
            /\ (Shown(t, q) = InitialDisk[q] => s = InitialDisk[q])
        BY <4>4, <4>6, PlaceTypes DEF InsertFits
      <4> QED BY <2>5, <4>3, <4>5, <4>7
    <3> QED BY <3>1, <3>2
  <2> HIDE DEF Done
  <2> QED BY <2>1, <2>6, <2>7, <2>8, <2>9
<1>5. \A i \in 0..Len(SortedPaths) : i \in T
  <2> HIDE DEF T
  <2> QED BY <1>0, <1>3, <1>4, InductionUpTo
<1>6. Done(Len(SortedPaths))
  <2>1. PICK S : SortedPaths \in Seq(S)
    BY MirrorAssumption
  <2>2. Range(SortedPaths) = {SortedPaths[j] : j \in 1..Len(SortedPaths)}
    BY <2>1, RangeEquality
  <2> QED BY <2>2 DEF Paths
<1> HIDE DEF Done
<1> QED BY <1>0, <1>5, <1>6 DEF ReplaceTree

-----------------------------------------------------------------------------
(* Queues whose elements fit *)

\* All of a queue is in F; an element of K is in it and all from there on is in F.
AllIn(s, F) == \A j \in 1..Len(s) : s[j] \in F
HoldsFrom(s, K, F) == \E i \in 1..Len(s) : s[i] \in K /\ \A j \in i..Len(s) : s[j] \in F

\* An element that fits is appended without harm.
LEMMA AppendFits ==
  ASSUME NEW S, NEW s \in Seq(S), NEW e, NEW K, NEW F, e \in F
  PROVE  /\ AllIn(s, F) => AllIn(Append(s, e), F)
         /\ HoldsFrom(s, K, F) => HoldsFrom(Append(s, e), K, F)
         /\ e \in K => HoldsFrom(Append(s, e), K, F)
<1>1. PICK t : t = Append(s, e)
  OBVIOUS
<1>2. /\ Len(t) = Len(s) + 1 /\ Len(s) \in Nat
      /\ \A i \in 1..Len(s) : t[i] = s[i]
      /\ t[Len(s) + 1] = e
  BY <1>1
<1>3. \A i \in 1..Len(t) : i \in 1..Len(s) \/ i = Len(s) + 1
  BY <1>2
<1>4. AllIn(s, F) => AllIn(t, F)
  BY <1>2, <1>3 DEF AllIn
<1>5. ASSUME HoldsFrom(s, K, F) PROVE HoldsFrom(t, K, F)
  <2>1. PICK i \in 1..Len(s) : s[i] \in K /\ \A j \in i..Len(s) : s[j] \in F
    BY <1>5 DEF HoldsFrom
  <2>2. i \in 1..Len(t) /\ t[i] \in K
    BY <1>2, <2>1
  <2>3. ASSUME NEW j \in i..Len(t) PROVE t[j] \in F
    <3>1. (j \in i..Len(s) /\ j \in 1..Len(s)) \/ j = Len(s) + 1
      BY <1>2
    <3> QED BY <1>2, <2>1, <3>1
  <2> QED BY <2>2, <2>3 DEF HoldsFrom
<1>6. ASSUME e \in K PROVE HoldsFrom(t, K, F)
  <2>1. Len(s) + 1 \in 1..Len(t) /\ \A j \in (Len(s) + 1)..Len(t) : j = Len(s) + 1
    BY <1>2
  <2> QED BY <1>2, <1>6, <2>1 DEF HoldsFrom
<1> QED BY <1>1, <1>4, <1>5, <1>6

\* The head of a queue is taken without harm, and is the element or not.
LEMMA TailFits ==
  ASSUME NEW S, NEW s \in Seq(S), s # <<>>, NEW K, NEW F
  PROVE  /\ AllIn(s, F) => Head(s) \in F /\ AllIn(Tail(s), F)
         /\ HoldsFrom(s, K, F) => HoldsFrom(Tail(s), K, F) \/ (Head(s) \in K /\ AllIn(s, F))
<1>1. PICK t : t = Tail(s)
  OBVIOUS
<1>2. /\ Len(t) = Len(s) - 1 /\ Len(s) \in Nat \ {0}
      /\ \A i \in 1..(Len(s) - 1) : t[i] = s[i + 1]
      /\ Head(s) = s[1]
  BY <1>1, HeadTailProperties, EmptySeq
<1>3. ASSUME AllIn(s, F) PROVE Head(s) \in F /\ AllIn(t, F)
  <2>1. 1 \in 1..Len(s) /\ \A i \in 1..Len(t) : i \in 1..(Len(s) - 1) /\ i + 1 \in 1..Len(s)
    BY <1>2
  <2> QED BY <1>2, <1>3, <2>1 DEF AllIn
<1>4. ASSUME HoldsFrom(s, K, F) PROVE HoldsFrom(t, K, F) \/ (Head(s) \in K /\ AllIn(s, F))
  <2>1. PICK i \in 1..Len(s) : s[i] \in K /\ \A j \in i..Len(s) : s[j] \in F
    BY <1>4 DEF HoldsFrom
  <2>2. CASE i = 1
    BY <1>2, <2>1, <2>2 DEF AllIn
  <2>3. CASE i # 1
    <3>1. i - 1 \in 1..Len(t) /\ i - 1 \in 1..(Len(s) - 1) /\ (i - 1) + 1 = i
      BY <1>2, <2>3
    <3>2. t[i - 1] \in K
      BY <1>2, <2>1, <3>1
    <3>3. ASSUME NEW j \in (i - 1)..Len(t) PROVE t[j] \in F
      <4>1. j \in 1..(Len(s) - 1) /\ j + 1 \in i..Len(s)
        BY <1>2, <2>3
      <4> QED BY <1>2, <2>1, <4>1
    <3> QED BY <3>1, <3>2, <3>3 DEF HoldsFrom
  <2> QED BY <2>2, <2>3
<1> QED BY <1>1, <1>3, <1>4

-----------------------------------------------------------------------------
(* What is on its way fits what is on disk *)

AnyChange == [kind: {"delete", "modify"}, path: Paths, dir: BOOLEAN, ver: Nat]
AnyAnswer == [ok: BOOLEAN, dir: BOOLEAN, ver: Nat]
AnyMessage == [to: Procs, answer: AnyAnswer] \cup [to: {None}, change: AnyChange]

\* Notifications, changes and answers that leave q shown as it is on disk, where
\* the disk has d.  A notification of something other than a removal makes the
\* watcher look at the disk.
NoteFits(d, n, q) ==
  IF n.kind = "remove" THEN DeleteFits(d, n.path, q)
  ELSE /\ q = n.path => d # Absent
       /\ Within(q, n.path) /\ q # n.path => d = Dir
ChangeFits(d, x, q) ==
  IF x.kind = "delete" THEN DeleteFits(d, x.path, q) ELSE InsertFits(d, x.path, x.dir, x.ver, q)
AnswerFits(d, c, a, q) ==
  a.ok => /\ c.op \in {"remove", "rename"} => DeleteFits(d, c.path, q)
          /\ c.op \in {"create", "mkdir", "write", "truncate", "rename"} =>
               InsertFits(d, c.to, a.dir, a.ver, q)

FitNotes(d, q) == {n \in NoteSet : NoteFits(d, n, q)}
FitChanges(d, q) == {x \in AnyChange : ChangeFits(d, x, q)}
FitMessages(d, q) == {m \in AnyMessage : m.to = None => ChangeFits(d, m.change, q)}

\* Those that are about q itself.
NotesOf(q) == {n \in NoteSet : n.path = q /\ n.by = "user"}
ChangesOf(q) == {x \in AnyChange : x.path = q}
MessagesOf(q) == {m \in AnyMessage : m.to = None /\ m.change.path = q}

\* An answer that makes its caller show q as it is on disk, or that will be an excuse.
Mends(d, c, a, q) ==
  /\ a.ok
  /\ \/ c.op \in {"remove", "rename"} /\ Within(c.path, q) /\ d = Absent
     \/ c.op = "rename" /\ Within(c.to, q) /\ q # c.to /\ a.dir
     \/ /\ c.op \in {"create", "mkdir", "write", "truncate", "rename"} /\ c.to = q
        /\ d = IF a.dir THEN Dir ELSE a.ver

NotesFit(q) == AllIn(notes, FitNotes(disk[q], q))
EventsFit(q) == AllIn(events, FitChanges(disk[q], q))
MessagesFit(q) == AllIn(up, FitMessages(disk[q], q))
AnswersFit(q) == \A r \in Procs : \A a \in Carried(r) : AnswerFits(disk[q], call[r], a, q)
Noted(q) == HoldsFrom(notes, NotesOf(q), FitNotes(disk[q], q))
Reported(q) == HoldsFrom(events, ChangesOf(q), FitChanges(disk[q], q))
Sent(q) == HoldsFrom(up, MessagesOf(q), FitMessages(disk[q], q))
DiskShown(q) == Shown(tree, q) = disk[q]
Mended(q) == \E r \in Procs : \E a \in Carried(r) : Mends(disk[q], call[r], a, q)

\* The request whose change the daemon has made and not answered yet: its answer will
\* leave q as it is, and will mend it or be an excuse.
Asked == call[Head(down)]
MakingFits(q) == made /\ Asked.op \in {"remove", "rename"} => DeleteFits(disk[q], Asked.path, q)
WillMend(d, c, q) ==
  \/ c.op \in {"remove", "rename"} /\ Within(c.path, q) /\ d = Absent
  \/ c.op = "rename" /\ Within(c.to, q) /\ q # c.to /\ d # Absent
  \/ c.op \in {"create", "mkdir", "write", "truncate", "rename"} /\ c.to = q
Making(q) == made /\ WillMend(disk[q], Asked, q)

\* What nobody has changed is shown, and nothing on its way changes that.
ScanInv(q) ==
  /\ NotesFit(q) /\ EventsFit(q) /\ MessagesFit(q) /\ AnswersFit(q) /\ MakingFits(q)
  /\ DiskShown(q)

\* What the owner of the machine has changed is in one of the queues of the
\* watcher, with nothing behind it that does not fit, or is shown.
UserInv(q) ==
  \/ Noted(q)
  \/ NotesFit(q) /\ (\/ Reported(q)
                     \/ EventsFit(q) /\ (Sent(q) \/ (MessagesFit(q) /\ DiskShown(q))))

\* What the agent has changed is shown or will be by its answer.
AgentInv(q) == DiskShown(q) \/ Mended(q) \/ Making(q)

Explained(q) == Excused(q) # {}

\* The mirror follows the disk, or there is a reason why not.
Follows(q) == \/ Explained(q)
              \/ by[q] = "scan" /\ ScanInv(q)
              \/ by[q] = "user" /\ UserInv(q)
              \/ by[q] = "agent" /\ AgentInv(q)
DInv == /\ by \in [Paths -> {"scan", "user", "agent"}]
        /\ \A q \in Paths : Follows(q)

\* What the queues hold, however many versions there are.
LEMMA QueueTypes ==
  ASSUME Types
  PROVE  /\ notes \in Seq(NoteSet) /\ events \in Seq(AnyChange) /\ up \in Seq(AnyMessage)
         /\ last \in Nat /\ last =< MaxVer /\ disk \in [Paths -> (1..last) \cup {Absent, Dir}]
         /\ AnswerSet \subseteq AnyAnswer
<1>1. last \in Nat /\ last =< MaxVer /\ disk \in [Paths -> (1..last) \cup {Absent, Dir}]
  BY MirrorAssumption DEF Types, DiskTypes
<1>2. AnswerSet \subseteq AnyAnswer /\ ChangeSet \subseteq AnyChange
  BY <1>1 DEF AnswerSet, ChangeSet, AnyAnswer, AnyChange
<1>3. MessageSet \subseteq AnyMessage
  BY <1>2 DEF MessageSet, AnyMessage
<1> QED BY <1>1, <1>2, <1>3, SeqMonotonic DEF Types, LinkTypes, WatchTypes

\* Excuses stay, and an excuse entered now explains.
LEMMA StaysExplained ==
  ASSUME excused \subseteq excused', NEW q, Explained(q)
  PROVE  Explained(q)'
  BY DEF Explained, Excused

\* A reason given now explains.
LEMMA NowExplained ==
  ASSUME NEW S, NEW q \in S, NEW why, Reasons(S, why) \subseteq excused'
  PROVE  Explained(q)'
<1>1. [path |-> q, why |-> why] \in excused'
  BY DEF Reasons
<1>2. why \in Excused(q)'
  BY <1>1 DEF Excused
<1> QED BY <1>2 DEF Explained

\* What was scanned is shown, and nothing is on its way.
LEMMA InitDInv == Init => DInv
<1> SUFFICES ASSUME Init PROVE DInv
  OBVIOUS
<1>1. by \in [Paths -> {"scan", "user", "agent"}]
  BY DEF Init
<1>2. ASSUME NEW q \in Paths PROVE Follows(q)
  <2>1. Len(notes) = 0 /\ Len(events) = 0 /\ Len(up) = 0 /\ Range(up) = {}
    BY DEF Init, Range
  <2>2. NotesFit(q) /\ EventsFit(q) /\ MessagesFit(q)
    BY <2>1 DEF NotesFit, EventsFit, MessagesFit, AllIn
  <2>3. \A r \in Procs : pc[r] # "answered"
    BY DEF Init
  <2>4. AnswersFit(q)
    BY <2>1, <2>3 DEF AnswersFit, Carried
  <2>5. DiskShown(q) /\ by[q] = "scan"
    BY ScanShown DEF Init, DiskShown
  <2>6. MakingFits(q)
    BY DEF Init, MakingFits
  <2> QED BY <2>2, <2>4, <2>5, <2>6 DEF Follows, ScanInv
<1> QED BY <1>1, <1>2 DEF DInv

-----------------------------------------------------------------------------
(* The workspace changes *)

\* A notification is queued where somebody watches.
LEMMA NoticeAppends ==
  ASSUME NEW s \in Seq(NoteSet), NEW p \in Paths, NEW kind \in {"create", "write", "remove"},
         NEW who \in {"agent", "user"}, NEW n, n = [path |-> p, kind |-> kind, by |-> who]
  PROVE  /\ n \in NoteSet /\ n.path = p /\ n.kind = kind /\ n.by = who
         /\ s \o Notice(p, kind, who) = IF ParentOf(p) \in watched THEN Append(s, n) ELSE s
<1>1. n \in NoteSet /\ n.path = p /\ n.kind = kind /\ n.by = who
  BY DEF NoteSet
<1>2. CASE ParentOf(p) \in watched
  <2>1. Notice(p, kind, who) = <<n>>
    BY <1>2 DEF Notice
  <2>2. Append(s, n) = s \o <<n>>
    BY <1>1, AppendIsConcat
  <2> QED BY <1>1, <1>2, <2>1, <2>2
<1>3. CASE ParentOf(p) \notin watched
  <2>1. Notice(p, kind, who) = <<>>
    BY <1>3 DEF Notice
  <2>2. s \o <<>> = s
    BY ConcatEmptySeq
  <2> QED BY <1>1, <1>3, <2>1, <2>2
<1> QED BY <1>2, <1>3

\* A notification that is true fits every path.
LEMMA TrueNoteFits ==
  ASSUME NEW d, WellFormed(d), NEW n \in NoteSet, NEW q \in Paths,
         IF n.kind = "remove" THEN d[n.path] = Absent ELSE d[n.path] # Absent
  PROVE  n \in FitNotes(d[q], q)
<1>1. n.path \in Paths
  BY DEF NoteSet
<1>2. CASE n.kind = "remove"
  <2>1. DeleteFits(d[q], n.path, q)
    BY <1>1, <1>2, MissingFits
  <2> QED BY <1>2, <2>1 DEF FitNotes, NoteFits
<1>3. CASE n.kind # "remove"
  <2>1. Within(q, n.path) /\ q # n.path => d[q] = Dir
    BY <1>1, <1>3, PlaceTypes, DirsAbove
  <2> QED BY <1>3, <2>1 DEF FitNotes, NoteFits
<1> QED BY <1>2, <1>3

\* An edit tells the truth of one path.
LEMMA EditNotes ==
  ASSUME Types, DiskInv, NEW p \in Paths, NEW who \in {"agent", "user"}, Edits(p, who)
  PROVE  \E n \in NoteSet :
           /\ n.path = p /\ n.by = who
           /\ \A q \in Paths : n \in FitNotes(disk'[q], q)
           /\ notes' = IF ParentOf(p) \in watched THEN Append(notes, n) ELSE notes
<1>0. /\ disk \in [Paths -> (1..last) \cup {Absent, Dir}] /\ last \in Nat
      /\ Absent # Dir /\ Absent \notin Nat /\ notes \in Seq(NoteSet) /\ DiskTypes
  BY QueueTypes, MirrorAssumption DEF Types
<1>1. WellFormed(disk')
  BY <1>0, EditKeepsDisk DEF DiskInv
<1>2. \E kind \in {"create", "write", "remove"} :
        /\ notes' = notes \o Notice(p, kind, who)
        /\ IF kind = "remove" THEN disk'[p] = Absent ELSE disk'[p] # Absent
  <2>1. CASE DiskWrite(p, who)
    <3>1. PICK kind \in {"create", "write"} : kind = IF disk[p] = Absent THEN "create" ELSE "write"
      OBVIOUS
    <3>2. DiskSet(p, last + 1, kind, who)
      BY <2>1, <3>1 DEF DiskWrite
    <3>3. disk'[p] = last + 1 /\ last + 1 \in Nat /\ notes' = notes \o Notice(p, kind, who)
      BY <1>0, <3>2 DEF DiskSet
    <3> QED BY <1>0, <3>3
  <2>2. CASE DiskMkdir(p, who)
    <3>1. disk'[p] = Dir /\ notes' = notes \o Notice(p, "create", who)
      BY <1>0, <2>2 DEF DiskMkdir, DiskSet
    <3> QED BY <1>0, <3>1
  <2>3. CASE DiskRemove(p, who)
    <3>1. disk'[p] = Absent /\ notes' = notes \o Notice(p, "remove", who)
      BY <1>0, <2>3 DEF DiskRemove, DiskSet
    <3> QED BY <3>1
  <2> QED BY <2>1, <2>2, <2>3 DEF Edits
<1>3. PICK kind \in {"create", "write", "remove"} :
        /\ notes' = notes \o Notice(p, kind, who)
        /\ IF kind = "remove" THEN disk'[p] = Absent ELSE disk'[p] # Absent
  BY <1>2
<1>4. PICK n : n = [path |-> p, kind |-> kind, by |-> who]
  OBVIOUS
<1>5. /\ n \in NoteSet /\ n.path = p /\ n.kind = kind /\ n.by = who
      /\ notes \o Notice(p, kind, who) = IF ParentOf(p) \in watched THEN Append(notes, n) ELSE notes
  BY <1>0, <1>4, NoticeAppends
<1>6. \A q \in Paths : n \in FitNotes(disk'[q], q)
  BY <1>1, <1>3, <1>5, TrueNoteFits
<1> QED BY <1>3, <1>5, <1>6

\* A rename tells the truth of two.
LEMMA MoveNotes ==
  ASSUME Types, DiskInv, NEW p \in Paths, NEW q \in Paths, NEW who \in {"agent", "user"},
         Moves(p, q, who)
  PROVE  \E m, n \in NoteSet, s \in Seq(NoteSet) :
           /\ m.path = p /\ m.by = who /\ n.path = q /\ n.by = who
           /\ \A x \in Paths : m \in FitNotes(disk'[x], x) /\ n \in FitNotes(disk'[x], x)
           /\ s = IF ParentOf(p) \in watched THEN Append(notes, m) ELSE notes
           /\ notes' = IF ParentOf(q) \in watched THEN Append(s, n) ELSE s
<1>0. notes \in Seq(NoteSet) /\ DiskTypes /\ Absent # Dir
  BY QueueTypes, MirrorAssumption DEF Types
<1>1. WellFormed(disk') /\ disk'[q] = disk[p] /\ disk[p] # Absent
  BY <1>0, MoveKeepsDisk DEF DiskInv, Moves, CanRename
<1>2. disk'[p] = Absent
  <2>1. ~Within(q, p) /\ Within(p, p)
    BY MovesApart, PlaceTypes DEF Moves
  <2> QED BY <2>1 DEF Moves, DiskRename
<1>3. PICK removed, created \in {"create", "write", "remove"} :
        removed = "remove" /\ created = "create"
  OBVIOUS
<1>4. PICK m, n : /\ m = [path |-> p, kind |-> removed, by |-> who]
                  /\ n = [path |-> q, kind |-> created, by |-> who]
  OBVIOUS
<1>5. /\ m \in NoteSet /\ m.path = p /\ m.kind = removed /\ m.by = who
      /\ notes \o Notice(p, removed, who) = IF ParentOf(p) \in watched THEN Append(notes, m) ELSE notes
  BY <1>0, <1>4, NoticeAppends
<1>6. PICK s \in Seq(NoteSet) : s = notes \o Notice(p, removed, who)
  BY <1>0, <1>5, AppendProperties
<1>7. /\ n \in NoteSet /\ n.path = q /\ n.kind = created /\ n.by = who
      /\ s \o Notice(q, created, who) = IF ParentOf(q) \in watched THEN Append(s, n) ELSE s
  BY <1>4, NoticeAppends
<1>8. notes' = s \o Notice(q, created, who)
  BY <1>3, <1>6 DEF Moves, DiskRename
<1>9. \A x \in Paths : m \in FitNotes(disk'[x], x) /\ n \in FitNotes(disk'[x], x)
  BY <1>1, <1>2, <1>3, <1>5, <1>7, TrueNoteFits
<1> QED BY <1>5, <1>6, <1>7, <1>8, <1>9

\* Who changes a path.
LEMMA EditBy ==
  ASSUME Types, by \in [Paths -> {"scan", "user", "agent"}], NEW p \in Paths,
         NEW who \in {"agent", "user"}, Edits(p, who)
  PROVE  /\ by' \in [Paths -> {"scan", "user", "agent"}] /\ by'[p] = who
         /\ \A x \in Paths : x # p => by'[x] = by[x] /\ disk'[x] = disk[x]
<1>1. DOMAIN disk = Paths
  BY DEF Types, DiskTypes
<1>2. \E what : disk' = [disk EXCEPT ![p] = what] /\ by' = [by EXCEPT ![p] = who]
  BY DEF Edits, DiskWrite, DiskMkdir, DiskRemove, DiskSet
<1> QED BY <1>1, <1>2

\* A rename names whoever made it, for every path that changes.
LEMMA MoveBy ==
  ASSUME by \in [Paths -> {"scan", "user", "agent"}], NEW p \in Paths, NEW q \in Paths,
         NEW who \in {"agent", "user"}, Moves(p, q, who)
  PROVE  /\ by' \in [Paths -> {"scan", "user", "agent"}]
         /\ \A x \in Paths : by'[x] = IF disk'[x] # disk[x] THEN who ELSE by[x]
<1>1. by' = [x \in Paths |-> IF disk'[x] # disk[x] THEN who ELSE by[x]]
  BY DEF Moves, DiskRename
<1> QED BY <1>1

\* Where a rename changes something: where it came from, at its new name, and, if
\* it is a directory, below that.
LEMMA MoveChanges ==
  ASSUME Types, DiskInv, NEW p \in Paths, NEW q \in Paths, NEW who, Moves(p, q, who),
         NEW x \in Paths, disk'[x] # disk[x]
  PROVE  \/ Within(p, x) /\ disk'[x] = Absent /\ (x # p => disk[p] = Dir)
         \/ x = q
         \/ Within(q, x) /\ disk[p] = Dir /\ disk'[x] # Absent
<1>0. DiskTypes /\ Absent # Dir
  BY MirrorAssumption DEF Types
<1>1. /\ \A y \in Paths : Within(q, y) /\ y # q /\ disk'[y] # Absent => disk[p] = Dir
  BY <1>0, MoveKeepsDisk
<1>2. Within(p, x) /\ x # p /\ disk[x] # Absent => disk[p] = Dir
  BY PlaceTypes, DirsAbove DEF DiskInv
<1>3. Within(q, x) /\ x # q /\ disk[x] # Absent => disk[q] = Dir
  BY PlaceTypes, DirsAbove DEF DiskInv
<1>4. disk[q] # Dir
  BY <1>0 DEF Moves, CanRename
<1>5. Within(q, x) \/ (Within(p, x) /\ disk'[x] = Absent)
  BY DEF Moves, DiskRename
<1> QED BY <1>1, <1>2, <1>3, <1>4, <1>5

\* Old notifications still fit a path that stays as it is, and the new ones do too.
LEMMA NotesGrow ==
  ASSUME Types, QueueInv, DiskInv, Makes \/ LocalEdit, NEW q \in Paths, disk'[q] = disk[q]
  PROVE  (NotesFit(q) => NotesFit(q)') /\ (Noted(q) => Noted(q)')
<1>0. notes \in Seq(NoteSet) /\ DiskTypes
  BY QueueTypes DEF Types
<1>1. PICK F : F = FitNotes(disk[q], q) /\ F = FitNotes(disk'[q], q)
  OBVIOUS
<1>2. PICK K : K = NotesOf(q)
  OBVIOUS
<1> SUFFICES /\ AllIn(notes, F) => AllIn(notes', F)
             /\ HoldsFrom(notes, K, F) => HoldsFrom(notes', K, F)
  BY <1>1, <1>2 DEF NotesFit, Noted, NotesOf
<1> DEFINE Goal == /\ AllIn(notes, F) => AllIn(notes', F)
                   /\ HoldsFrom(notes, K, F) => HoldsFrom(notes', K, F)
<1>3. CASE notes' = notes
  BY <1>3
<1>4. ASSUME NEW p \in Paths, NEW who \in {"agent", "user"}, Edits(p, who) PROVE Goal
  <2>1. PICK n : /\ n \in F
                 /\ notes' = IF ParentOf(p) \in watched THEN Append(notes, n) ELSE notes
    BY <1>1, <1>4, EditNotes
  <2>2. /\ AllIn(notes, F) => AllIn(Append(notes, n), F)
        /\ HoldsFrom(notes, K, F) => HoldsFrom(Append(notes, n), K, F)
    BY <1>0, <2>1, AppendFits
  <2> QED BY <2>1, <2>2
<1>5. ASSUME NEW p \in Paths, NEW x \in Paths, NEW who \in {"agent", "user"}, Moves(p, x, who)
      PROVE  Goal
  <2>1. PICK m \in F, n \in F, s \in Seq(NoteSet) :
          /\ s = IF ParentOf(p) \in watched THEN Append(notes, m) ELSE notes
          /\ notes' = IF ParentOf(x) \in watched THEN Append(s, n) ELSE s
    BY <1>1, <1>5, MoveNotes
  <2>2. /\ AllIn(notes, F) => AllIn(Append(notes, m), F)
        /\ HoldsFrom(notes, K, F) => HoldsFrom(Append(notes, m), K, F)
    BY <1>0, <2>1, AppendFits
  <2>3. /\ AllIn(s, F) => AllIn(Append(s, n), F)
        /\ HoldsFrom(s, K, F) => HoldsFrom(Append(s, n), K, F)
    BY <2>1, AppendFits
  <2> QED BY <2>1, <2>2, <2>3
<1>6. CASE Makes
  <2>1. PICK c \in CallSet : Effect(c)
    BY <1>6, HeadWaits DEF Makes, HandleChange
  <2>2. PICK who \in {"agent", "user"} : who = "agent"
    OBVIOUS
  <2>3. c.path \in Paths /\ c.to \in Paths
    BY CallParts
  <2>4. notes' = notes \/ Edits(c.path, who) \/ Moves(c.path, c.to, who)
    BY <2>1, <2>2, EffectSteps
  <2> HIDE DEF Goal
  <2>5. Goal
    BY <1>3, <1>4, <1>5, <2>3, <2>4 DEF Goal
  <2> QED BY <2>5 DEF Goal
<1>7. CASE LocalEdit
  <2>1. PICK who \in {"agent", "user"} : who = "user"
    OBVIOUS
  <2>2. \/ \E p \in Paths : Edits(p, who)
        \/ \E p, x \in Paths : Moves(p, x, who)
    BY <1>0, <1>7, <2>1, LocalSteps
  <2> HIDE DEF Goal
  <2>3. Goal
    BY <1>4, <1>5, <2>2
  <2> QED BY <2>3 DEF Goal
<1> QED BY <1>6, <1>7

\* What the owner changes is noted, or nobody watches.
LEMMA UserNoted ==
  ASSUME Types, NEW q \in Paths, NEW s \in Seq(NoteSet), NEW n \in NotesOf(q),
         NEW F, n \in F, notes' = Append(s, n), F = FitNotes(disk'[q], q)
  PROVE  Noted(q)'
<1>1. PICK K : K = NotesOf(q)
  OBVIOUS
<1>2. HoldsFrom(notes', K, F)
  BY <1>1, AppendFits
<1> QED BY <1>1, <1>2 DEF Noted, NotesOf

\* A path that a local edit changes is noted, or nobody watched its directory.
LEMMA UserChange ==
  ASSUME Types, DiskInv, by \in [Paths -> {"scan", "user", "agent"}], LocalEdit
  PROVE  /\ by' \in [Paths -> {"scan", "user", "agent"}]
         /\ \A q \in Paths : \/ by'[q] = by[q] /\ disk'[q] = disk[q]
                             \/ by'[q] = "user" /\ (Noted(q)' \/ Explained(q)')
<1> DEFINE Goal == /\ by' \in [Paths -> {"scan", "user", "agent"}]
                   /\ \A q \in Paths : \/ by'[q] = by[q] /\ disk'[q] = disk[q]
                                       \/ by'[q] = "user" /\ (Noted(q)' \/ Explained(q)')
<1>0. notes \in Seq(NoteSet) /\ DiskTypes
  BY QueueTypes DEF Types
<1>1. ASSUME NEW p \in Paths, ParentOf(p) \notin watched, NEW S, p \in S,
             Reasons(Unwatched(S, "user"), "missed") \subseteq excused'
      PROVE  Explained(p)'
  <2>1. p \in Unwatched(S, "user")
    BY <1>1 DEF Unwatched
  <2> QED BY <1>1, <2>1, NowExplained
<1>2. PICK who \in {"agent", "user"} : who = "user"
  OBVIOUS
<1>3. ASSUME NEW p \in Paths, Edits(p, who) PROVE Goal
  <2>1. /\ by' \in [Paths -> {"scan", "user", "agent"}] /\ by'[p] = who
        /\ \A x \in Paths : x # p => by'[x] = by[x] /\ disk'[x] = disk[x]
    BY <1>3, EditBy
  <2>2. PICK n \in NoteSet :
           /\ n.path = p /\ n.by = who
           /\ \A q \in Paths : n \in FitNotes(disk'[q], q)
           /\ notes' = IF ParentOf(p) \in watched THEN Append(notes, n) ELSE notes
    BY <1>3, EditNotes
  <2>3. CASE ParentOf(p) \in watched
    <3>1. n \in NotesOf(p)
      BY <1>2, <2>2 DEF NotesOf
    <3>2. Noted(p)'
      BY <1>0, <2>2, <2>3, <3>1, UserNoted
    <3> QED BY <1>2, <2>1, <3>2
  <2>4. CASE ParentOf(p) \notin watched
    <3>1. Reasons(Unwatched({p}, "user"), "missed") \subseteq excused'
      BY <1>2, <1>3 DEF Edits, DiskWrite, DiskMkdir, DiskRemove, DiskSet, Excuse
    <3>2. Explained(p)'
      BY <1>1, <2>4, <3>1
    <3> QED BY <1>2, <2>1, <3>2
  <2> QED BY <2>3, <2>4
<1>4. ASSUME NEW p \in Paths, NEW x \in Paths, Moves(p, x, who) PROVE Goal
  <2>1. /\ by' \in [Paths -> {"scan", "user", "agent"}]
        /\ \A y \in Paths : by'[y] = IF disk'[y] # disk[y] THEN who ELSE by[y]
    BY <1>4, MoveBy
  <2>2. ASSUME NEW y \in Paths, disk'[y] # disk[y], y # p, y # x PROVE Explained(y)'
    <3>1. y \in MovedAlong(p, x, "user")
      BY <1>4, <2>2, MoveChanges DEF MovedAlong
    <3>2. Reasons(MovedAlong(p, x, "user"), "missed") \subseteq excused'
      BY <1>2, <1>4 DEF Moves, DiskRename
    <3> QED BY <3>1, <3>2, NowExplained
  <2>3. PICK m \in NoteSet, n \in NoteSet, s \in Seq(NoteSet) :
           /\ m.path = p /\ m.by = who /\ n.path = x /\ n.by = who
           /\ \A y \in Paths : m \in FitNotes(disk'[y], y) /\ n \in FitNotes(disk'[y], y)
           /\ s = IF ParentOf(p) \in watched THEN Append(notes, m) ELSE notes
           /\ notes' = IF ParentOf(x) \in watched THEN Append(s, n) ELSE s
    BY <1>4, MoveNotes
  <2>4. m \in NotesOf(p) /\ n \in NotesOf(x)
    BY <1>2, <2>3 DEF NotesOf
  <2>5. Reasons(Unwatched({p, x}, "user"), "missed") \subseteq excused'
    BY <1>2, <1>4 DEF Moves, DiskRename
  <2>6. Noted(x)' \/ Explained(x)'
    <3>1. CASE ParentOf(x) \in watched
      BY <2>3, <2>4, <3>1, UserNoted
    <3>2. CASE ParentOf(x) \notin watched
      BY <1>1, <2>5, <3>2
    <3> QED BY <3>1, <3>2
  <2>7. Noted(p)' \/ Explained(p)'
    <3>1. CASE ParentOf(p) \in watched
      <4>1. PICK F, K : F = FitNotes(disk'[p], p) /\ K = NotesOf(p)
        OBVIOUS
      <4>2. s = Append(notes, m) /\ m \in F /\ n \in F /\ m \in K
        BY <2>3, <2>4, <3>1, <4>1
      <4>3. HoldsFrom(s, K, F)
        BY <1>0, <4>2, AppendFits
      <4>4. HoldsFrom(Append(s, n), K, F)
        BY <4>2, <4>3, AppendFits
      <4>5. HoldsFrom(notes', K, F)
        BY <2>3, <4>3, <4>4
      <4> QED BY <4>1, <4>5 DEF Noted, NotesOf
    <3>2. CASE ParentOf(p) \notin watched
      BY <1>1, <2>5, <3>2
    <3> QED BY <3>1, <3>2
  <2>8. ASSUME NEW y \in Paths
        PROVE  \/ by'[y] = by[y] /\ disk'[y] = disk[y]
               \/ by'[y] = "user" /\ (Noted(y)' \/ Explained(y)')
    <3>1. CASE disk'[y] = disk[y]
      BY <2>1, <3>1
    <3>2. CASE disk'[y] # disk[y]
      <4>1. by'[y] = "user"
        BY <1>2, <2>1, <3>2
      <4>2. CASE y = p
        BY <2>7, <4>1, <4>2
      <4>3. CASE y = x
        BY <2>6, <4>1, <4>3
      <4>4. CASE y # p /\ y # x
        BY <2>2, <3>2, <4>1, <4>4
      <4> QED BY <4>2, <4>3, <4>4
    <3> QED BY <3>1, <3>2
  <2> QED BY <2>1, <2>8
<1> HIDE DEF Goal
<1>5. Goal
  BY <1>0, <1>2, <1>3, <1>4, LocalSteps
<1> QED BY <1>5 DEF Goal

-----------------------------------------------------------------------------
(* Answers *)

\* What a handler answers: that it failed, or what it finds now at the path that it
\* changed.
LEMMA HandlersTell ==
  ASSUME Types, QueueInv, DiskInv, Refuses \/ HandleFails \/ HandleStat, [Next]_vars
  PROVE  \E r \in Procs, a \in AnyAnswer :
           /\ down # <<>> /\ r = Head(down) /\ call[r] \in CallSet /\ call' = call
           /\ up' = Append(up, [to |-> r, answer |-> a]) /\ a \in Carried(r)'
           /\ IF HandleStat
              THEN /\ a.ok /\ a.dir = (disk[call[r].to] = Dir) /\ a.ver = VerOf(disk, call[r].to)
                   /\ call[r].op # "remove" => disk[call[r].to] # Absent
              ELSE ~a.ok
<1>1. PICK r \in Procs : down # <<>> /\ r = Head(down) /\ call[r] \in CallSet
  BY HeadWaits DEF Refuses, HandleChange, HandleFails, HandleStat, Types, MadeInv
<1>2. call' = call
  BY DEF Refuses, HandleChange, HandleFails, HandleStat, procVars
<1> DEFINE Right(a) ==
      IF HandleStat
      THEN /\ a.ok /\ a.dir = (disk[call[r].to] = Dir) /\ a.ver = VerOf(disk, call[r].to)
           /\ call[r].op # "remove" => disk[call[r].to] # Absent
      ELSE ~a.ok
<1>3. \E a : up' = Append(up, [to |-> r, answer |-> a]) /\ Right(a)
  <2>1. CASE HandleStat
    <3>1. PICK a : a = Answer(TRUE, disk[call[r].to] = Dir, VerOf(disk, call[r].to))
      OBVIOUS
    <3>2. /\ up' = Append(up, [to |-> r, answer |-> a])
          /\ call[r].op # "remove" => disk[call[r].to] # Absent
      BY <1>1, <2>1, <3>1 DEF HandleStat, Respond
    <3>3. a.ok /\ a.dir = (disk[call[r].to] = Dir) /\ a.ver = VerOf(disk, call[r].to)
      BY <3>1 DEF Answer
    <3> QED BY <2>1, <3>2, <3>3
  <2>2. CASE ~HandleStat
    <3>1. PICK a : a = Answer(FALSE, FALSE, 0)
      OBVIOUS
    <3>2. Respond(FALSE, FALSE, 0)
      BY <2>2 DEF Refuses, HandleFails
    <3>3. up' = Append(up, [to |-> r, answer |-> a]) /\ ~a.ok
      BY <1>1, <3>1, <3>2 DEF Respond, Answer
    <3> QED BY <2>2, <3>3
  <2> QED BY <2>1, <2>2
<1>4. PICK a : up' = Append(up, [to |-> r, answer |-> a]) /\ Right(a)
  BY <1>3
<1> HIDE DEF Right
<1>5. PICK m : m = [to |-> r, answer |-> a]
  OBVIOUS
<1>6. up' \in Seq(MessageSet') /\ up \in Seq(MessageSet') /\ Len(up) \in Nat /\ last' \in Nat
  BY LinkStep, DiskStep, TypesGrow DEF Types, LinkTypes
<1>7. Len(up') = Len(up) + 1 /\ up'[Len(up) + 1] = m
  BY <1>4, <1>5, <1>6
<1>8. m \in Range(up')
  BY <1>6, <1>7, RangeEquality
<1>9. m.to = r /\ m.answer = a
  BY <1>5
<1>10. a \in Carried(r)'
  BY <1>8, <1>9 DEF Carried
<1>11. a \in AnyAnswer
  <2>1. m \in MessageSet'
    BY <1>6, <1>7, ElementOfSeq
  <2>2. a \in AnswerSet'
    BY <1>9, <2>1, MirrorAssumption DEF MessageSet
  <2> QED BY <1>6, <2>2 DEF AnswerSet, AnyAnswer
<1> QED BY <1>1, <1>2, <1>4, <1>10, <1>11 DEF Right

\* What a change that succeeds leaves behind.
LEMMA EffectSeen ==
  ASSUME Types, DiskInv, NEW c \in CallSet, Effect(c)
  PROVE  /\ c.op \in {"remove", "rename"} => disk'[c.path] = Absent
         /\ c.op \in {"create", "mkdir", "write", "truncate", "rename"} => disk'[c.to] # Absent
<1>0. /\ disk \in [Paths -> (1..last) \cup {Absent, Dir}] /\ last \in Nat
      /\ Absent # Dir /\ Absent \notin Nat /\ DiskTypes
  BY QueueTypes, MirrorAssumption DEF Types
<1>1. /\ c.path \in Paths /\ c.to \in Paths /\ (c.op # "rename" => c.to = c.path)
      /\ (c.op = "rename" => ~Within(c.path, c.to))
  BY CallParts
<1>2. CASE c.op = "rename"
  <2>1. Moves(c.path, c.to, "agent")
    BY <1>1, <1>2 DEF Effect, Moves
  <2>2. disk'[c.to] = disk[c.path] /\ disk[c.path] # Absent
    BY <1>0, <1>1, <2>1, MoveKeepsDisk DEF Moves, CanRename
  <2>3. disk'[c.path] = Absent
    <3>1. ~Within(c.to, c.path) /\ Within(c.path, c.path)
      BY <1>1, <2>1, MovesApart, PlaceTypes DEF Moves
    <3> QED BY <1>1, <2>1, <3>1 DEF Moves, DiskRename
  <2> QED BY <1>2, <2>2, <2>3
<1>3. CASE c.op = "remove"
  <2>1. disk'[c.path] = Absent
    BY <1>0, <1>1, <1>3 DEF Effect, DiskRemove, DiskSet
  <2> QED BY <1>3, <2>1
<1>4. CASE c.op = "mkdir"
  <2>1. disk'[c.path] = Dir
    BY <1>0, <1>1, <1>4 DEF Effect, DiskMkdir, DiskSet
  <2> QED BY <1>0, <1>1, <1>4, <2>1
<1>5. CASE c.op \in {"create", "write", "truncate"}
  <2>1. DiskWrite(c.path, "agent") \/ (disk' = disk /\ disk[c.path] # Absent)
    BY <1>5 DEF Effect, diskVars
  <2>2. DiskWrite(c.path, "agent") => disk'[c.path] = last + 1 /\ last + 1 \in Nat
    BY <1>0, <1>1 DEF DiskWrite, DiskSet
  <2>3. disk'[c.path] # Absent
    BY <1>0, <2>1, <2>2
  <2> QED BY <1>1, <1>5, <2>3
<1>6. c.op \notin {"remove", "rename", "create", "mkdir", "write", "truncate"} => FALSE
  BY DEF Effect
<1> QED BY <1>2, <1>3, <1>4, <1>5, <1>6

\* The answer fits a path that the change, if it took something away, left absent.
LEMMA NewAnswerFits ==
  ASSUME Types, DiskInv, NEW c \in CallSet, NEW a \in AnyAnswer, NEW q \in Paths,
         c.op \in {"remove", "rename"} => DeleteFits(disk[q], c.path, q),
         \/ ~a.ok
         \/ /\ a.ok /\ a.dir = (disk[c.to] = Dir) /\ a.ver = VerOf(disk, c.to)
            /\ c.op # "remove" => disk[c.to] # Absent
  PROVE  AnswerFits(disk[q], c, a, q)
<1>1. SUFFICES ASSUME a.ok, a.dir = (disk[c.to] = Dir), a.ver = VerOf(disk, c.to),
                      c.op # "remove" => disk[c.to] # Absent
               PROVE  AnswerFits(disk[q], c, a, q)
  BY DEF AnswerFits
<1>2. /\ last \in Nat /\ last =< MaxVer /\ disk \in [Paths -> (1..last) \cup {Absent, Dir}]
      /\ WellFormed(disk) /\ c.to \in Paths
  BY QueueTypes, CallParts DEF DiskInv
<1>3. ASSUME c.op \in {"create", "mkdir", "write", "truncate", "rename"}
      PROVE  InsertFits(disk[q], c.to, a.dir, a.ver, q)
  <2>1. disk[c.to] # Absent
    BY <1>1, <1>3
  <2>2. InsertFits(disk[q], c.to, disk[c.to] = Dir, VerOf(disk, c.to), q)
    BY <1>2, <2>1, ExistingFits
  <2> QED BY <1>1, <2>2
<1> QED BY <1>3 DEF AnswerFits

\* Answers on their way keep fitting a path that stays as it is.
LEMMA AnswersFitStep ==
  ASSUME Types, QueueInv, DiskInv, [Next]_vars, NEW q \in Paths, disk'[q] = disk[q], AnswersFit(q),
         MakingFits(q)
  PROVE  AnswersFit(q)'
<1>1. SUFFICES ASSUME NEW r \in Procs, NEW a \in Carried(r)', NEW c, c = call'[r]
               PROVE  AnswerFits(disk'[q], c, a, q)
  BY DEF AnswersFit
<1>2. CASE a \in Carried(r) /\ c = call[r]
  <2>1. AnswerFits(disk[q], c, a, q)
    BY <1>2 DEF AnswersFit
  <2> QED BY <2>1
<1>3. CASE KeepsAnswers(r)
  BY <1>1, <1>2, <1>3 DEF KeepsAnswers
<1>4. CASE Finishes(r)
  <2>1. c = NoCall
    BY <1>1, <1>4 DEF Finishes, CallApply, ReadDone, AnswerTooLate, Idle, Types, ProcTypes
  <2> QED BY <2>1 DEF NoCall, Call, AnswerFits
<1>5. CASE IsAnswered(r) /\ a \notin Carried(r)
  <2>0. /\ c = call[r] /\ down # <<>> /\ r = Head(down)
        /\ up' = Append(up, [to |-> r, answer |-> a])
    BY <1>1, <1>5 DEF IsAnswered
  <2>1. CASE HandleRead
    <3>1. c.op \in {"read", "chunk"}
      BY <2>0, <2>1 DEF HandleRead
    <3> QED BY <3>1 DEF AnswerFits
  <2>2. CASE Refuses \/ HandleFails \/ HandleStat
    <3>1. PICK b \in AnyAnswer :
            /\ up' = Append(up, [to |-> r, answer |-> b]) /\ c \in CallSet
            /\ IF HandleStat
               THEN /\ b.ok /\ b.dir = (disk[c.to] = Dir) /\ b.ver = VerOf(disk, c.to)
                    /\ c.op # "remove" => disk[c.to] # Absent
               ELSE ~b.ok
      BY <2>0, <2>2, HandlersTell
    <3>2. a = b
      <4>1. PICK m, n : /\ m = [to |-> r, answer |-> a] /\ up' = Append(up, m)
                        /\ n = [to |-> r, answer |-> b] /\ up' = Append(up, n)
        BY <2>0, <3>1
      <4>2. up \in Seq(MessageSet)
        BY DEF Types, LinkTypes
      <4>3. Append(up, m)[Len(up) + 1] = m /\ Append(up, n)[Len(up) + 1] = n
        BY <4>2
      <4>4. m = n
        BY <4>1, <4>3
      <4>5. m.answer = a /\ n.answer = b
        BY <4>1
      <4> QED BY <4>4, <4>5
    <3>3. CASE ~b.ok
      BY <3>2, <3>3 DEF AnswerFits
    <3>4. CASE b.ok
      <4>1. HandleStat
        BY <3>1, <3>4
      <4>2. made /\ c = Asked
        BY <2>0, <4>1 DEF HandleStat, Asked
      <4>3. c.op \in {"remove", "rename"} => DeleteFits(disk[q], c.path, q)
        BY <4>2 DEF MakingFits
      <4>4. AnswerFits(disk[q], c, b, q)
        BY <3>1, <4>1, <4>3, NewAnswerFits
      <4> QED BY <3>2, <4>4
    <3> QED BY <3>3, <3>4
  <2> QED BY <1>5, <2>1, <2>2 DEF IsAnswered, Replies
<1>6. IsAnswered(r) => c = call[r]
  BY <1>1 DEF IsAnswered
<1> QED BY <1>2, <1>3, <1>4, <1>5, <1>6, AnswerSteps

\* What the agent changes, the answer will show, or the path stays as it is.
LEMMA AgentChange ==
  ASSUME Types, QueueInv, DiskInv, by \in [Paths -> {"scan", "user", "agent"}], Makes
  PROVE  /\ by' \in [Paths -> {"scan", "user", "agent"}]
         /\ \A q \in Paths : \/ by'[q] = by[q] /\ disk'[q] = disk[q]
                             \/ by'[q] = "agent" /\ Making(q)'
<1>1. PICK c \in CallSet : c = Asked /\ Effect(c)
  BY HeadWaits DEF Makes, HandleChange, Asked
<1>2. made' /\ Asked' = c
  BY <1>1 DEF Makes, HandleChange, procVars, Asked
<1>3. /\ c.path \in Paths /\ c.to \in Paths /\ c.op \in Ops
      /\ (c.op # "rename" => c.to = c.path) /\ (c.op = "rename" => ~Within(c.path, c.to))
  BY CallParts
<1>4. ASSUME NEW q \in Paths, WillMend(disk'[q], c, q) PROVE Making(q)'
  BY <1>2, <1>4 DEF Making
<1>5. CASE UNCHANGED <<disk, by>>
  BY <1>5
<1>6. CASE Edits(c.path, "agent") /\ c.op # "rename"
  <2>1. /\ by' \in [Paths -> {"scan", "user", "agent"}] /\ by'[c.path] = "agent"
        /\ \A x \in Paths : x # c.path => by'[x] = by[x] /\ disk'[x] = disk[x]
    BY <1>3, <1>6, EditBy
  <2>2. c.op = "remove" => disk'[c.path] = Absent
    BY <1>1, EffectSeen
  <2>3. c.op \in {"remove", "create", "mkdir", "write", "truncate"}
    BY <1>1, <1>6 DEF Effect
  <2>4. WillMend(disk'[c.path], c, c.path)
    BY <1>3, <1>6, <2>2, <2>3, PlaceTypes DEF WillMend
  <2> QED BY <1>3, <1>4, <2>1, <2>4
<1>7. CASE c.op = "rename" /\ Moves(c.path, c.to, "agent")
  <2>1. /\ by' \in [Paths -> {"scan", "user", "agent"}]
        /\ \A x \in Paths : by'[x] = IF disk'[x] # disk[x] THEN "agent" ELSE by[x]
    BY <1>3, <1>7, MoveBy
  <2>2. ASSUME NEW x \in Paths, disk'[x] # disk[x] PROVE WillMend(disk'[x], c, x)
    <3>1. \/ Within(c.path, x) /\ disk'[x] = Absent
          \/ x = c.to
          \/ Within(c.to, x) /\ disk'[x] # Absent
      BY <1>3, <1>7, <2>2, MoveChanges
    <3> QED BY <1>7, <3>1 DEF WillMend
  <2> QED BY <1>4, <2>1, <2>2
<1>8. \/ UNCHANGED <<disk, by>>
      \/ Edits(c.path, "agent") /\ c.op # "rename"
      \/ c.op = "rename" /\ Moves(c.path, c.to, "agent")
  BY <1>1, <1>3 DEF Effect, Edits, Moves, diskVars
<1> QED BY <1>5, <1>6, <1>7, <1>8

\* The request whose change was made stays the first one until it is answered.
LEMMA MadeSteps ==
  ASSUME Types, QueueInv, [Next]_vars
  PROVE  \/ HandleStat \/ HandleFails \/ Makes
         \/ ~made /\ ~made'
         \/ made /\ made' /\ Asked' = Asked
<1>0. /\ down \in Seq(Procs) /\ pc \in [Procs -> Places] /\ DOMAIN call = Procs
      /\ Callers \subseteq Procs /\ Fetchers \subseteq Procs /\ (made => down # <<>>)
  BY DEF Types, LinkTypes, ProcTypes, MadeInv, Procs
<1>1. CASE HandleRead \/ Refuses
  BY <1>1 DEF HandleRead, Refuses, HandleChange
<1>2. CASE ~(HandleRead \/ HandleChange \/ HandleStat \/ HandleFails)
  <2>1. made' = made
    BY <1>2 DEF Next, vars, linkVars, CallStart, ReadStart, ListDir, CallApply, Prefetch, ReadDone,
                RecvAnswer, AnswerTooLate, RecvChange, LocalEdit, WatchStart, WatchSuppress,
                WatchOverflow, WatchReport, ForwardEvent
  <2>2. SUFFICES ASSUME made PROVE Asked' = Asked
    BY <2>1
  <2>3. PICK h \in Procs : h = Head(down) /\ pc[h] = "waiting" /\ down # <<>>
    BY <1>0, <2>2, HeadWaits
  <2>4. Head(down') = h
    <3>1. ASSUME NEW p, down' = Append(down, p) PROVE Head(down') = h
      BY <1>0, <2>3, <3>1, AppendProperties
    <3>2. down' = down \/ \E p : down' = Append(down, p)
      BY <1>2 DEF Next, vars, linkVars, CallStart, ReadStart, Request, ListDir, CallApply, Prefetch,
                  ReadDone, RecvAnswer, AnswerTooLate, RecvChange, LocalEdit, WatchStart,
                  WatchSuppress, WatchOverflow, WatchReport, ForwardEvent
    <3> QED BY <2>3, <3>1, <3>2
  <2>5. call'[h] = call[h]
    <3>1. ASSUME NEW p \in Procs, AnswerTooLate(p) PROVE p # h
      <4>1. up # <<>> /\ Head(up).to = p
        BY <3>1 DEF AnswerTooLate, Delivery
      <4>2. 1 \in 1..Len(up) /\ 1 \in 1..Len(down) /\ Head(up) = up[1] /\ Head(down) = down[1]
        BY <1>0, <2>3, <4>1, EmptySeq DEF Types, LinkTypes
      <4>3. down[1] # up[1].to
        BY <4>2 DEF QueueInv, OneOfTheTwo
      <4> QED BY <2>3, <4>1, <4>2, <4>3
    <3>2. ASSUME NEW p \in Procs, p # h, \E x : call' = [call EXCEPT ![p] = x]
          PROVE  call'[h] = call[h]
      BY <1>0, <3>2
    <3>3. CASE \E c \in Callers : CallStart(c) \/ \E p \in Paths : ReadStart(c, p)
      <4>1. PICK c \in Callers : /\ pc[c] = "idle"
                                 /\ call' = call \/ \E x : call' = [call EXCEPT ![c] = x]
        BY <3>3 DEF CallStart, ReadStart, MayStart, Request
      <4> QED BY <1>0, <2>3, <3>2, <4>1
    <3>4. CASE \E c \in Callers : \E p \in Paths \cup {Root} : ListDir(c, p)
      BY <2>3, <3>4, ListDirOnlyStarts
    <3>5. CASE \E p \in Procs : CallApply(p) \/ ReadDone(p) \/ AnswerTooLate(p)
      <4>1. PICK p \in Procs : /\ pc[p] = "answered" \/ AnswerTooLate(p)
                               /\ call' = [call EXCEPT ![p] = NoCall]
        BY <3>5 DEF CallApply, ReadDone, AnswerTooLate, Idle
      <4> QED BY <2>3, <3>1, <3>2, <4>1
    <3>6. CASE \E f \in Fetchers : Prefetch(f)
      <4>1. PICK f \in Fetchers : pc[f] = "started" /\ \E x : call' = [call EXCEPT ![f] = x]
        BY <3>6 DEF Prefetch, Idle, Request
      <4> QED BY <1>0, <2>3, <3>2, <4>1
    <3>7. CASE \/ \E p \in Procs : RecvAnswer(p)
               \/ RecvChange \/ LocalEdit \/ WatchStart \/ WatchSuppress \/ WatchOverflow
               \/ WatchReport \/ ForwardEvent \/ UNCHANGED vars
      BY <3>7 DEF RecvAnswer, RecvChange, LocalEdit, WatchStart, WatchSuppress, WatchOverflow,
                  WatchReport, ForwardEvent, vars, procVars
    <3> QED BY <1>0, <1>2, <3>3, <3>4, <3>5, <3>6, <3>7 DEF Next
  <2> QED BY <2>3, <2>4, <2>5 DEF Asked
<1> QED BY <1>1, <1>2, MakesOrRefuses

\* The answer to a change that was made will fit a path that stays as it is.
LEMMA MakingFitsStep ==
  ASSUME Types, QueueInv, DiskInv, [Next]_vars, NEW q \in Paths, disk'[q] = disk[q], MakingFits(q)
  PROVE  MakingFits(q)'
<1>1. CASE ~made'
  BY <1>1 DEF MakingFits
<1>2. CASE made /\ made' /\ Asked' = Asked
  BY <1>2 DEF MakingFits
<1>3. CASE Makes
  <2>1. PICK c \in CallSet : c = Asked /\ Effect(c)
    BY <1>3, HeadWaits DEF Makes, HandleChange, Asked
  <2>2. Asked' = c /\ c.path \in Paths
    BY <1>3, <2>1, CallParts DEF Makes, HandleChange, procVars, Asked
  <2>3. WellFormed(disk')
    BY DiskStep DEF DiskInv
  <2>4. PICK d : d = disk'
    OBVIOUS
  <2>5. c.op \in {"remove", "rename"} => DeleteFits(d[q], c.path, q)
    BY <2>1, <2>2, <2>3, <2>4, EffectSeen, MissingFits
  <2> QED BY <2>2, <2>4, <2>5 DEF MakingFits
<1>4. CASE HandleStat \/ HandleFails
  BY <1>4 DEF HandleStat, HandleFails, MakingFits
<1> QED BY <1>1, <1>2, <1>3, <1>4, MadeSteps

\* A change that was made is answered by what mends the path, or by a failure that is a
\* reason.
LEMMA MakingStep ==
  ASSUME Types, QueueInv, DiskInv, [Next]_vars, NEW q \in Paths, disk'[q] = disk[q], Making(q)
  PROVE  Making(q)' \/ Mended(q)' \/ Explained(q)'
<1>1. made /\ WillMend(disk[q], Asked, q) /\ down # <<>>
  BY DEF Making, Types, MadeInv
<1>2. CASE made' /\ Asked' = Asked
  BY <1>1, <1>2 DEF Making
<1>3. CASE HandleStat
  <2>1. PICK r \in Procs, a \in AnyAnswer :
           /\ r = Head(down) /\ call[r] \in CallSet /\ call' = call /\ a \in Carried(r)'
           /\ a.ok /\ a.dir = (disk[call[r].to] = Dir) /\ a.ver = VerOf(disk, call[r].to)
           /\ call[r].op # "remove" => disk[call[r].to] # Absent
    BY <1>3, HandlersTell
  <2>2. PICK c \in CallSet : c = Asked /\ c = call[r]
    BY <2>1 DEF Asked
  <2>3. c.to \in Paths /\ c.to \in Path /\ c.to # Root /\ Dir # Absent
    BY CallParts, PlaceTypes, MirrorAssumption
  <2>4. disk[c.to] # Absent => disk[c.to] = IF a.dir THEN Dir ELSE a.ver
    <3>1. disk[c.to] # Absent => disk[c.to] = IF disk[c.to] = Dir THEN Dir ELSE VerOf(disk, c.to)
      BY <2>3, QueueTypes, Described
    <3> QED BY <2>1, <2>2, <3>1
  <2>5. Within(c.to, q) /\ q # c.to /\ disk[q] # Absent => disk[c.to] = Dir
    BY <2>3, DirsAbove DEF DiskInv
  <2>6. Mends(disk[q], c, a, q)
    <3>1. CASE c.op \in {"remove", "rename"} /\ Within(c.path, q) /\ disk[q] = Absent
      BY <2>1, <3>1 DEF Mends
    <3>2. CASE c.op = "rename" /\ Within(c.to, q) /\ q # c.to /\ disk[q] # Absent
      <4>1. a.dir
        BY <2>1, <2>2, <2>5, <3>2
      <4> QED BY <2>1, <3>2, <4>1 DEF Mends
    <3>3. CASE c.op \in {"create", "mkdir", "write", "truncate", "rename"} /\ c.to = q
      <4>1. disk[q] = IF a.dir THEN Dir ELSE a.ver
        BY <2>1, <2>2, <2>4, <3>3
      <4> QED BY <2>1, <3>3, <4>1 DEF Mends
    <3> QED BY <1>1, <2>2, <3>1, <3>2, <3>3 DEF WillMend
  <2>7. Mends(disk'[q], call'[r], a, q)
    BY <2>1, <2>2, <2>6
  <2> QED BY <2>1, <2>7 DEF Mended
<1>4. CASE HandleFails
  <2>1. PICK c \in CallSet : c = Asked
    BY <1>1, HeadWaits DEF Asked
  <2>2. PICK S : S = {x \in Paths : Within(c.path, x) \/ Within(c.to, x)}
    OBVIOUS
  <2>3. Reasons(S, "missed") \subseteq excused'
    BY <1>4, <2>1, <2>2 DEF HandleFails, Excuse, Asked
  <2>4. q \in S
    BY <1>1, <2>1, <2>2, PlaceTypes DEF WillMend
  <2> QED BY <2>3, <2>4, NowExplained
<1>5. ~Makes
  BY <1>1 DEF Makes, HandleChange
<1> QED BY <1>1, <1>2, <1>3, <1>4, <1>5, MadeSteps

-----------------------------------------------------------------------------
(* What steps do to the queues and the tree, as it concerns a path that stays as it is *)

\* Queues and trees that stay as they are fit as they did.
LEMMA QueuesUntouched ==
  ASSUME NEW q, disk'[q] = disk[q]
  PROVE  /\ notes' = notes => (NotesFit(q) => NotesFit(q)') /\ (Noted(q) => Noted(q)')
         /\ events' = events => (EventsFit(q) => EventsFit(q)') /\ (Reported(q) => Reported(q)')
         /\ up' = up => (MessagesFit(q) => MessagesFit(q)') /\ (Sent(q) => Sent(q)')
         /\ tree' = tree => (DiskShown(q) => DiskShown(q)')
  BY DEF NotesFit, Noted, NotesOf, EventsFit, Reported, ChangesOf, MessagesFit, Sent, MessagesOf,
         DiskShown

\* Answers do not concern the tree until they are applied.
LEMMA AnswerPasses ==
  ASSUME Types, NEW q, disk'[q] = disk[q],
         \/ \E m \in AnyMessage : m.to \in Procs /\ up' = Append(up, m)
         \/ up # <<>> /\ Head(up).to \in Procs /\ up' = Tail(up)
  PROVE  (MessagesFit(q) => MessagesFit(q)') /\ (Sent(q) => Sent(q)')
<1>0. up \in Seq(AnyMessage) /\ None \notin Procs
  BY QueueTypes, MirrorAssumption
<1>1. PICK F, K : F = FitMessages(disk[q], q) /\ F = FitMessages(disk'[q], q) /\ K = MessagesOf(q)
  OBVIOUS
<1>2. SUFFICES /\ AllIn(up, F) => AllIn(up', F)
               /\ HoldsFrom(up, K, F) => HoldsFrom(up', K, F)
  BY <1>1 DEF MessagesFit, Sent, MessagesOf
<1>3. ASSUME NEW m \in AnyMessage, m.to \in Procs, up' = Append(up, m)
      PROVE  /\ AllIn(up, F) => AllIn(up', F)
             /\ HoldsFrom(up, K, F) => HoldsFrom(up', K, F)
  <2>1. m \in F
    BY <1>0, <1>1, <1>3 DEF FitMessages
  <2>2. /\ AllIn(up, F) => AllIn(Append(up, m), F)
        /\ HoldsFrom(up, K, F) => HoldsFrom(Append(up, m), K, F)
    BY <1>0, <2>1, AppendFits
  <2> QED BY <1>3, <2>2
<1>4. CASE up # <<>> /\ Head(up).to \in Procs /\ up' = Tail(up)
  <2>1. Head(up) \notin K
    BY <1>0, <1>1, <1>4 DEF MessagesOf
  <2>2. /\ AllIn(up, F) => AllIn(Tail(up), F)
        /\ HoldsFrom(up, K, F) => HoldsFrom(Tail(up), K, F) \/ Head(up) \in K
    BY <1>0, <1>4, TailFits
  <2> QED BY <1>4, <2>1, <2>2
<1> QED BY <1>3, <1>4

\* A notification that is passed over or lost was one of the agent's, or that is a reason.
LEMMA SuppressPasses ==
  ASSUME Types, NEW q \in Paths, disk'[q] = disk[q], WatchSuppress \/ WatchOverflow
  PROVE  (NotesFit(q) => NotesFit(q)') /\ (Noted(q) => Noted(q)' \/ Explained(q)')
<1>0. notes \in Seq(NoteSet) /\ notes # <<>> /\ notes' = Tail(notes)
  BY QueueTypes DEF WatchSuppress, WatchOverflow
<1>1. PICK F, K : F = FitNotes(disk[q], q) /\ F = FitNotes(disk'[q], q) /\ K = NotesOf(q)
  OBVIOUS
<1>2. /\ AllIn(notes, F) => AllIn(Tail(notes), F)
      /\ HoldsFrom(notes, K, F) => HoldsFrom(Tail(notes), K, F) \/ Head(notes) \in K
  BY <1>0, TailFits
<1>3. NotesFit(q) => NotesFit(q)'
  BY <1>0, <1>1, <1>2 DEF NotesFit
<1>4. Noted(q) => Noted(q)' \/ Head(notes) \in K
  BY <1>0, <1>1, <1>2 DEF Noted, NotesOf
<1>5. ASSUME Head(notes) \in K PROVE Explained(q)'
  <2>1. Head(notes).path = q /\ Head(notes).by = "user"
    BY <1>1, <1>5 DEF NotesOf
  <2>2. Reasons({q}, "missed") \subseteq excused'
    BY <2>1 DEF WatchSuppress, WatchOverflow, Excuse
  <2> QED BY <2>2, NowExplained
<1> QED BY <1>3, <1>4, <1>5

\* What the watcher reports of a notification that fits, fits.
LEMMA ReportFits ==
  ASSUME Types, DiskInv, NEW n \in NoteSet, NEW q \in Paths, NoteFits(disk[q], n, q), NEW x,
         x = IF n.kind = "remove" THEN Change("delete", n.path, FALSE, 0)
             ELSE Change("modify", n.path, disk[n.path] = Dir, VerOf(disk, n.path))
  PROVE  x \in FitChanges(disk[q], q) /\ x.path = n.path
<1>0. /\ last \in Nat /\ last =< MaxVer /\ disk \in [Paths -> (1..last) \cup {Absent, Dir}]
      /\ WellFormed(disk) /\ n.path \in Paths
  BY QueueTypes DEF DiskInv, NoteSet
<1>1. CASE n.kind = "remove"
  <2>1. x \in AnyChange /\ x.kind = "delete" /\ x.path = n.path
    BY <1>0, <1>1 DEF Change, AnyChange
  <2>2. ChangeFits(disk[q], x, q)
    BY <1>1, <2>1 DEF NoteFits, ChangeFits
  <2> QED BY <2>1, <2>2 DEF FitChanges
<1>2. CASE n.kind # "remove"
  <2>1. PICK dir \in BOOLEAN : dir = (disk[n.path] = Dir)
    OBVIOUS
  <2>2. PICK ver \in Nat : ver = VerOf(disk, n.path)
    BY VerOfType
  <2>3. x = Change("modify", n.path, dir, ver)
    BY <1>2, <2>1, <2>2
  <2>4. /\ x \in AnyChange /\ x.kind = "modify" /\ x.path = n.path
        /\ x.dir = dir /\ x.ver = ver
    BY <1>0, <2>3 DEF Change, AnyChange
  <2>5. /\ q = n.path => disk[q] # Absent
        /\ Within(q, n.path) /\ q # n.path => disk[q] = Dir
    BY <1>2 DEF NoteFits
  <2>6. InsertFits(disk[q], n.path, disk[n.path] = Dir, VerOf(disk, n.path), q)
    BY <1>0, <2>5, TrueInsertFits
  <2>7. ChangeFits(disk[q], x, q)
    BY <2>1, <2>2, <2>4, <2>6 DEF ChangeFits
  <2> QED BY <2>4, <2>7 DEF FitChanges
<1> QED BY <1>1, <1>2

\* A notification that the watcher reports becomes a change for the same path.
LEMMA ReportPasses ==
  ASSUME Types, DiskInv, NEW q \in Paths, disk'[q] = disk[q], WatchReport
  PROVE  /\ NotesFit(q) => /\ NotesFit(q)'
                           /\ EventsFit(q) => EventsFit(q)'
                           /\ Reported(q) => Reported(q)'
         /\ Noted(q) => Noted(q)' \/ (NotesFit(q)' /\ Reported(q)')
<1>1. PICK n, x :
        /\ n = Head(notes) /\ notes # <<>> /\ notes' = Tail(notes)
        /\ x = IF n.kind = "remove" THEN Change("delete", n.path, FALSE, 0)
               ELSE Change("modify", n.path, disk[n.path] = Dir, VerOf(disk, n.path))
        /\ events' = Append(events, x)
  BY DEF WatchReport
<1>2. notes \in Seq(NoteSet) /\ events \in Seq(AnyChange) /\ n \in NoteSet
  BY <1>1, QueueTypes, HeadTailProperties
<1>3. PICK F, K, G, L : /\ F = FitNotes(disk[q], q) /\ F = FitNotes(disk'[q], q) /\ K = NotesOf(q)
                        /\ G = FitChanges(disk[q], q) /\ G = FitChanges(disk'[q], q)
                        /\ L = ChangesOf(q)
  OBVIOUS
<1>4. /\ AllIn(notes, F) => Head(notes) \in F /\ AllIn(Tail(notes), F)
      /\ HoldsFrom(notes, K, F) =>
           HoldsFrom(Tail(notes), K, F) \/ (Head(notes) \in K /\ AllIn(notes, F))
  BY <1>1, <1>2, TailFits
<1>5. ASSUME n \in F
      PROVE  /\ x \in G /\ x.path = n.path
             /\ AllIn(events, G) => AllIn(events', G)
             /\ HoldsFrom(events, L, G) => HoldsFrom(events', L, G)
             /\ x \in L => HoldsFrom(events', L, G)
  <2>1. NoteFits(disk[q], n, q)
    BY <1>3, <1>5 DEF FitNotes
  <2>2. x \in G /\ x.path = n.path
    BY <1>1, <1>2, <1>3, <2>1, ReportFits
  <2>3. /\ AllIn(events, G) => AllIn(Append(events, x), G)
        /\ HoldsFrom(events, L, G) => HoldsFrom(Append(events, x), L, G)
        /\ x \in L => HoldsFrom(Append(events, x), L, G)
    BY <1>2, <2>2, AppendFits
  <2> QED BY <1>1, <2>2, <2>3
<1>6. n \in K /\ n \in F => x \in L
  BY <1>3, <1>5 DEF NotesOf, ChangesOf, FitChanges
<1>7. /\ AllIn(notes, F) => /\ AllIn(notes', F)
                            /\ AllIn(events, G) => AllIn(events', G)
                            /\ HoldsFrom(events, L, G) => HoldsFrom(events', L, G)
      /\ HoldsFrom(notes, K, F) =>
           HoldsFrom(notes', K, F) \/ (AllIn(notes', F) /\ HoldsFrom(events', L, G))
  BY <1>1, <1>4, <1>5, <1>6
<1>8. /\ NotesFit(q) <=> AllIn(notes, F)
      /\ NotesFit(q)' <=> AllIn(notes', F)
      /\ Noted(q) <=> HoldsFrom(notes, K, F)
      /\ Noted(q)' <=> HoldsFrom(notes', K, F)
  BY <1>3 DEF NotesFit, Noted, NotesOf
<1>9. /\ EventsFit(q) <=> AllIn(events, G)
      /\ EventsFit(q)' <=> AllIn(events', G)
      /\ Reported(q) <=> HoldsFrom(events, L, G)
      /\ Reported(q)' <=> HoldsFrom(events', L, G)
  BY <1>3 DEF EventsFit, Reported, ChangesOf
<1> QED BY <1>7, <1>8, <1>9

\* What is forwarded arrives behind what was sent before.
LEMMA ForwardPasses ==
  ASSUME Types, NEW q \in Paths, disk'[q] = disk[q], ForwardEvent
  PROVE  /\ EventsFit(q) => /\ EventsFit(q)'
                            /\ MessagesFit(q) => MessagesFit(q)'
                            /\ Sent(q) => Sent(q)'
         /\ Reported(q) => Reported(q)' \/ (EventsFit(q)' /\ Sent(q)')
<1>1. PICK m : /\ m = [to |-> None, change |-> Head(events)] /\ up' = Append(up, m)
               /\ events # <<>> /\ events' = Tail(events)
  BY DEF ForwardEvent
<1>2. /\ events \in Seq(AnyChange) /\ up \in Seq(AnyMessage) /\ Head(events) \in AnyChange
      /\ m.to = None /\ m.change = Head(events)
  BY <1>1, QueueTypes, HeadTailProperties
<1>3. m \in AnyMessage
  BY <1>1, <1>2 DEF AnyMessage
<1>4. PICK G, L, H, M : /\ G = FitChanges(disk[q], q) /\ G = FitChanges(disk'[q], q)
                        /\ L = ChangesOf(q)
                        /\ H = FitMessages(disk[q], q) /\ H = FitMessages(disk'[q], q)
                        /\ M = MessagesOf(q)
  OBVIOUS
<1>5. /\ AllIn(events, G) => Head(events) \in G /\ AllIn(Tail(events), G)
      /\ HoldsFrom(events, L, G) =>
           HoldsFrom(Tail(events), L, G) \/ (Head(events) \in L /\ AllIn(events, G))
  BY <1>1, <1>2, TailFits
<1>6. (Head(events) \in G => m \in H) /\ (Head(events) \in L => m \in M)
  BY <1>2, <1>3, <1>4 DEF FitChanges, FitMessages, ChangesOf, MessagesOf
<1>7. m \in H => /\ AllIn(up, H) => AllIn(up', H)
                 /\ HoldsFrom(up, M, H) => HoldsFrom(up', M, H)
                 /\ m \in M => HoldsFrom(up', M, H)
  BY <1>1, <1>2, AppendFits
<1>8. /\ AllIn(events, G) => /\ AllIn(events', G)
                             /\ AllIn(up, H) => AllIn(up', H)
                             /\ HoldsFrom(up, M, H) => HoldsFrom(up', M, H)
      /\ HoldsFrom(events, L, G) =>
           HoldsFrom(events', L, G) \/ (AllIn(events', G) /\ HoldsFrom(up', M, H))
  BY <1>1, <1>5, <1>6, <1>7
<1>9. /\ EventsFit(q) <=> AllIn(events, G)
      /\ EventsFit(q)' <=> AllIn(events', G)
      /\ Reported(q) <=> HoldsFrom(events, L, G)
      /\ Reported(q)' <=> HoldsFrom(events', L, G)
  BY <1>4 DEF EventsFit, Reported, ChangesOf
<1>10. /\ MessagesFit(q) <=> AllIn(up, H)
       /\ MessagesFit(q)' <=> AllIn(up', H)
       /\ Sent(q) <=> HoldsFrom(up, M, H)
       /\ Sent(q)' <=> HoldsFrom(up', M, H)
  BY <1>4 DEF MessagesFit, Sent, MessagesOf
<1> QED BY <1>8, <1>9, <1>10

\* A change that fits is applied without harm, and one of the path itself shows it.
LEMMA ChangeShows ==
  ASSUME Types, TreeInv, NEW q \in Paths, NEW x \in FitChanges(disk[q], q)
  PROVE  /\ DiskShown(q) => Shown(ApplyChange(tree, x), q) = disk[q]
         /\ x.path = q => Shown(ApplyChange(tree, x), q) = disk[q]
<1>1. /\ Good(tree) /\ x.path \in Paths /\ x.dir \in BOOLEAN /\ x.ver \in Nat
      /\ ChangeFits(disk[q], x, q)
  BY DEF TreeInv, FitChanges, AnyChange
<1>2. CASE x.kind = "delete"
  <2>1. DeleteFits(disk[q], x.path, q) /\ ApplyChange(tree, x) = Delete(tree, x.path)
    BY <1>1, <1>2 DEF ChangeFits, ApplyChange
  <2>2. /\ Shown(tree, q) = disk[q] => Shown(Delete(tree, x.path), q) = disk[q]
        /\ Within(x.path, q) => Shown(Delete(tree, x.path), q) = disk[q]
    BY <1>1, <2>1, DeleteKeepsShown
  <2>3. x.path = q => Within(x.path, q)
    BY PlaceTypes
  <2> QED BY <2>1, <2>2, <2>3 DEF DiskShown
<1>3. CASE x.kind # "delete"
  <2>1. /\ InsertFits(disk[q], x.path, x.dir, x.ver, q)
        /\ ApplyChange(tree, x) = Insert(tree, x.path, x.dir, x.ver)
    BY <1>1, <1>3 DEF ChangeFits, ApplyChange
  <2>2. /\ Shown(tree, q) = disk[q] => Shown(Insert(tree, x.path, x.dir, x.ver), q) = disk[q]
        /\ q = x.path => Shown(Insert(tree, x.path, x.dir, x.ver), q) = disk[q]
    BY <1>1, <2>1, InsertKeepsShown
  <2> QED BY <2>1, <2>2 DEF DiskShown
<1> QED BY <1>2, <1>3

\* A change that arrives is applied, and shows its path as it is on disk if it fits.
LEMMA ChangePasses ==
  ASSUME Types, TreeInv, NEW q \in Paths, disk'[q] = disk[q], RecvChange
  PROVE  /\ MessagesFit(q) => MessagesFit(q)' /\ (DiskShown(q) => DiskShown(q)')
         /\ Sent(q) => Sent(q)' \/ (MessagesFit(q)' /\ DiskShown(q)')
<1>1. PICK m : /\ m = Head(up) /\ up # <<>> /\ m.to = None /\ up' = Tail(up)
               /\ tree' = ApplyChange(tree, m.change)
  BY DEF RecvChange, Delivery
<1>2. up \in Seq(AnyMessage) /\ m \in AnyMessage
  BY <1>1, QueueTypes, HeadTailProperties
<1>3. PICK H, M : /\ H = FitMessages(disk[q], q) /\ H = FitMessages(disk'[q], q)
                  /\ M = MessagesOf(q)
  OBVIOUS
<1>4. /\ AllIn(up, H) => Head(up) \in H /\ AllIn(Tail(up), H)
      /\ HoldsFrom(up, M, H) => HoldsFrom(Tail(up), M, H) \/ (Head(up) \in M /\ AllIn(up, H))
  BY <1>1, <1>2, TailFits
<1>5. ASSUME m \in H
      PROVE  (DiskShown(q) => DiskShown(q)') /\ (m \in M => DiskShown(q)')
  <2>1. m.change \in AnyChange
    BY <1>1, <1>2, MirrorAssumption DEF AnyMessage
  <2>2. PICK x \in FitChanges(disk[q], q) : x = m.change
    BY <1>1, <1>3, <1>5, <2>1 DEF FitMessages, FitChanges
  <2>3. /\ DiskShown(q) => Shown(tree', q) = disk[q]
        /\ x.path = q => Shown(tree', q) = disk[q]
    BY <1>1, <2>2, ChangeShows
  <2>4. m \in M => x.path = q
    BY <1>3, <2>2 DEF MessagesOf
  <2>5. DiskShown(q)' <=> Shown(tree', q) = disk[q]
    BY DEF DiskShown
  <2> QED BY <2>3, <2>4, <2>5
<1>6. /\ MessagesFit(q) <=> AllIn(up, H)
      /\ MessagesFit(q)' <=> AllIn(up', H)
      /\ Sent(q) <=> HoldsFrom(up, M, H)
      /\ Sent(q)' <=> HoldsFrom(up', M, H)
  BY <1>3 DEF MessagesFit, Sent, MessagesOf
<1> QED BY <1>1, <1>4, <1>5, <1>6

\* What is shown of a path of the agent's stays so, or it is overtaken by a change.
LEMMA ChangeOvertakes ==
  ASSUME NEW q \in Paths, by[q] = "agent", RecvChange, DiskShown(q)
  PROVE  DiskShown(q)' \/ Explained(q)'
<1>1. disk' = disk
  BY DEF RecvChange, diskVars
<1>2. CASE Shown(tree', q) = disk[q]
  BY <1>1, <1>2 DEF DiskShown
<1>3. CASE Shown(tree', q) # disk[q]
  <2>1. PICK t : t = tree'
    OBVIOUS
  <2>2. q \in Overtaken(t, {"agent"})
    BY <1>3, <2>1 DEF Overtaken, DiskShown
  <2>3. Reasons(Overtaken(t, {"agent"}), "missed") \subseteq excused'
    BY <2>1 DEF RecvChange, Excuse
  <2> QED BY <2>2, <2>3, NowExplained
<1> QED BY <1>2, <1>3

\* An answer that is applied overtakes what the agent or the owner has changed, or
\* leaves it as it is ...
LEMMA AnswerOvertakes ==
  ASSUME NEW q \in Paths, by[q] \in {"agent", "user"}, NEW c \in Callers, CallApply(c),
         DiskShown(q)
  PROVE  DiskShown(q)' \/ Explained(q)'
<1>1. disk' = disk
  BY DEF CallApply, diskVars
<1>2. CASE Shown(tree', q) = disk[q]
  BY <1>1, <1>2 DEF DiskShown
<1>3. CASE Shown(tree', q) # disk[q]
  <2>1. PICK t : t = tree'
    OBVIOUS
  <2>2. q \in Overtaken(t, {"agent", "user"}) /\ tree' # tree
    BY <1>3, <2>1 DEF Overtaken, DiskShown
  <2>3. Reasons(Overtaken(t, {"agent", "user"}), "missed") \subseteq excused'
    BY <2>1, <2>2 DEF CallApply
  <2> QED BY <2>2, <2>3, NowExplained
<1> QED BY <1>2, <1>3

\* ... and leaves it, if it fits.
LEMMA AnswerShows ==
  ASSUME Types, TreeInv, NEW c \in CallSet, NEW a \in AnyAnswer, NEW q \in Paths,
         c.op \notin {"read", "chunk"}, a.ok, AnswerFits(disk[q], c, a, q), DiskShown(q)
  PROVE  Shown(ApplyTree(tree, c, a), q) = disk[q]
<1>0. /\ Good(tree) /\ c.path \in Paths /\ c.to \in Paths /\ c.op \in Ops
      /\ (c.op # "rename" => c.to = c.path) /\ a.dir \in BOOLEAN /\ a.ver \in Nat
  BY CallParts DEF TreeInv, AnyAnswer
<1>1. CASE c.op = "remove"
  <2>1. DeleteFits(disk[q], c.path, q) /\ ApplyTree(tree, c, a) = Delete(tree, c.path)
    BY <1>1 DEF AnswerFits, ApplyTree
  <2> QED BY <1>0, <2>1, DeleteKeepsShown DEF DiskShown
<1>2. CASE c.op = "rename"
  <2>1. /\ DeleteFits(disk[q], c.path, q) /\ InsertFits(disk[q], c.to, a.dir, a.ver, q)
        /\ ApplyTree(tree, c, a) = Insert(Delete(tree, c.path), c.to, a.dir, a.ver)
    BY <1>2 DEF AnswerFits, ApplyTree
  <2>2. PICK t : t = Delete(tree, c.path)
    OBVIOUS
  <2>3. Good(t) /\ Shown(t, q) = disk[q]
    BY <1>0, <2>1, <2>2, DeleteKeepsGood, DeleteKeepsShown DEF DiskShown
  <2> QED BY <1>0, <2>1, <2>2, <2>3, InsertKeepsShown
<1>3. CASE c.op \notin {"remove", "rename"}
  <2>1. c.op \in {"create", "mkdir", "write", "truncate", "rename"}
    BY <1>0, <1>3 DEF Ops
  <2>2. /\ InsertFits(disk[q], c.path, a.dir, a.ver, q)
        /\ ApplyTree(tree, c, a) = Insert(tree, c.path, a.dir, a.ver)
    BY <1>0, <1>3, <2>1 DEF AnswerFits, ApplyTree
  <2> QED BY <1>0, <2>2, InsertKeepsShown DEF DiskShown
<1> QED BY <1>1, <1>2, <1>3

\* An answer that mends shows the path when it is applied, but for what is below a
\* directory that was renamed.
LEMMA AnswerMends ==
  ASSUME Types, TreeInv, NEW c \in CallSet, NEW a \in AnyAnswer, NEW q \in Paths,
         Mends(disk[q], c, a, q)
  PROVE  \/ Shown(ApplyTree(tree, c, a), q) = disk[q]
         \/ c.op = "rename" /\ Within(c.to, q) /\ q # c.to /\ a.dir
<1>0. /\ Good(tree) /\ c.path \in Paths /\ c.to \in Paths /\ c.op \in Ops
      /\ (c.op # "rename" => c.to = c.path) /\ (c.op = "rename" => ~Within(c.path, c.to))
      /\ a.dir \in BOOLEAN /\ a.ver \in Nat
  BY CallParts DEF TreeInv, AnyAnswer
<1>1. CASE c.op = "remove"
  <2>1. Within(c.path, q) /\ disk[q] = Absent /\ ApplyTree(tree, c, a) = Delete(tree, c.path)
    BY <1>1 DEF Mends, ApplyTree
  <2>2. DeleteFits(disk[q], c.path, q)
    BY <2>1 DEF DeleteFits
  <2> QED BY <1>0, <2>1, <2>2, DeleteKeepsShown
<1>2. CASE c.op # "remove" /\ c.to = q /\ disk[q] = (IF a.dir THEN Dir ELSE a.ver)
  <2>1. PICK t : Good(t) /\ ApplyTree(tree, c, a) = Insert(t, q, a.dir, a.ver)
    BY <1>0, <1>2, DeleteKeepsGood DEF ApplyTree
  <2>2. q \in Path /\ q # Root
    BY PlaceTypes
  <2>3. Shown(Insert(t, q, a.dir, a.ver), q) = IF a.dir THEN Dir ELSE a.ver
    BY <1>0, <2>1, <2>2, ShownAfterInsert
  <2> QED BY <1>2, <2>1, <2>3
<1>3. CASE c.op = "rename" /\ Within(c.path, q) /\ disk[q] = Absent
  <2>1. PICK t : t = Delete(tree, c.path)
    OBVIOUS
  <2>2. DeleteFits(disk[q], c.path, q)
    BY <1>3 DEF DeleteFits
  <2>3. Good(t) /\ Shown(t, q) = disk[q]
    BY <1>0, <1>3, <2>1, <2>2, DeleteKeepsGood, DeleteKeepsShown
  <2>4. ~Within(q, c.to)
    <3>1. SUFFICES ASSUME Within(q, c.to) PROVE FALSE
      OBVIOUS
    <3>2. q \in Path /\ c.to \in Path /\ c.path \in Path
      BY <1>0, PlaceTypes
    <3>3. /\ Len(q) \in Nat /\ Len(c.to) \in Nat /\ Len(c.path) \in Nat
          /\ Len(c.path) =< Len(q) /\ Len(q) =< Len(c.to)
          /\ SubSeq(q, 1, Len(c.path)) = c.path /\ SubSeq(c.to, 1, Len(q)) = q
      BY <1>3, <3>1, <3>2, LenProperties DEF Within, Path
    <3>4. SubSeq(SubSeq(c.to, 1, Len(q)), 1, Len(c.path)) = SubSeq(c.to, 1, Len(c.path))
      BY <3>2, <3>3, PrefixOfPrefix, Len(q) \in 0..Len(c.to), Len(c.path) \in 0..Len(q)
    <3>5. Within(c.path, c.to)
      <4>1. SubSeq(c.to, 1, Len(c.path)) = c.path
        BY <3>3, <3>4
      <4>2. Len(c.path) =< Len(c.to)
        BY <3>3
      <4> QED BY <4>1, <4>2 DEF Within
    <3> QED BY <1>0, <1>3, <3>5
  <2>5. q # c.to
    BY <1>0, <1>3
  <2>6. InsertFits(disk[q], c.to, a.dir, a.ver, q)
    BY <1>3, <2>4, <2>5 DEF InsertFits
  <2>7. ApplyTree(tree, c, a) = Insert(t, c.to, a.dir, a.ver)
    BY <1>3, <2>1 DEF ApplyTree
  <2> QED BY <1>0, <2>3, <2>6, <2>7, InsertKeepsShown
<1> QED BY <1>0, <1>1, <1>2, <1>3 DEF Mends

\* The answer that is to mend a path goes on its way, is applied, or comes too late.
LEMMA MendedStep ==
  ASSUME Types, QueueInv, DiskInv, TreeInv, [Next]_vars, NEW q \in Paths, disk'[q] = disk[q],
         Mended(q)
  PROVE  Mended(q)' \/ DiskShown(q)' \/ Explained(q)'
<1>0. PICK r \in Procs : \E a \in Carried(r) : Mends(disk[q], call[r], a, q)
  BY DEF Mended
<1>1. PICK a \in Carried(r) : Mends(disk[q], call[r], a, q)
  BY <1>0
<1>2. PICK c : c = call[r]
  OBVIOUS
<1>3. /\ Mends(disk[q], c, a, q) /\ a.ok /\ c.op \notin {"read", "chunk"}
      /\ Within(c.path, q) \/ Within(c.to, q)
  BY <1>1, <1>2, PlaceTypes DEF Mends
<1>4. c \in CallSet
  BY <1>2, CarriedTo DEF Types, ProcTypes
<1>5. CASE KeepsAnswers(r) \/ IsAnswered(r)
  <2>1. a \in Carried(r)' /\ call'[r] = c
    BY <1>2, <1>5 DEF KeepsAnswers, IsAnswered
  <2>2. Mends(disk'[q], call'[r], a, q)
    BY <1>3, <2>1
  <2> QED BY <2>1, <2>2 DEF Mended
<1>6. CASE CallApply(r)
  <2>1. a = reply[r] /\ disk' = disk
    BY <1>6, CarriedTo DEF CallApply, diskVars
  <2>2. a \in AnyAnswer
    BY <2>1, QueueTypes DEF Types, ProcTypes
  <2>3. tree' = ApplyTree(tree, c, a)
    BY <1>2, <1>3, <1>6, <2>1 DEF CallApply
  <2>4. CASE Shown(tree', q) = disk[q]
    BY <2>1, <2>4 DEF DiskShown
  <2>5. CASE c.op = "rename" /\ Within(c.to, q) /\ q # c.to /\ a.dir
    <3>1. PICK S : S = {x \in Paths : /\ c.op = "rename" /\ a.dir
                                      /\ Within(c.to, x) /\ x # c.to}
      OBVIOUS
    <3>2. Reasons(S, "renamed") \subseteq excused'
      BY <1>2, <1>3, <1>6, <2>1, <3>1 DEF CallApply
    <3>3. q \in S
      BY <2>5, <3>1
    <3> QED BY <3>2, <3>3, NowExplained
  <2> QED BY <1>3, <1>4, <2>2, <2>3, <2>4, <2>5, AnswerMends
<1>7. CASE ReadDone(r)
  BY <1>2, <1>3, <1>7 DEF ReadDone
<1>8. CASE AnswerTooLate(r)
  <2>1. PICK S : S = {x \in Paths : Within(c.path, x) \/ Within(c.to, x)}
    OBVIOUS
  <2>2. Reasons(S, "missed") \subseteq excused' /\ q \in S
    BY <1>2, <1>3, <1>8, <2>1 DEF AnswerTooLate, Excuse
  <2> QED BY <2>2, NowExplained
<1> QED BY <1>5, <1>6, <1>7, <1>8, AnswerSteps DEF Finishes

-----------------------------------------------------------------------------
(* The mirror follows the disk *)

\* The steps as they concern the queues between the disk and the tree.
LEMMA QueuesSplit ==
  ASSUME [Next]_vars
  PROVE  \/ UNCHANGED <<notes, events, up>>
         \/ Makes \/ Replies \/ LocalEdit
         \/ WatchSuppress \/ WatchOverflow \/ WatchReport \/ ForwardEvent \/ RecvChange
         \/ /\ \E p \in Procs : up # <<>> /\ Head(up).to = p /\ up' = Tail(up)
            /\ UNCHANGED <<notes, events>>
<1>1. CASE \E c \in Callers : \/ CallStart(c) \/ CallApply(c)
                              \/ \E p \in Paths : ReadStart(c, p)
                              \/ \E p \in Paths \cup {Root} : ListDir(c, p)
  BY <1>1 DEF CallStart, CallApply, ReadStart, ListDir, watchVars, linkVars
<1>2. CASE (\E f \in Fetchers : Prefetch(f)) \/ (\E p \in Procs : ReadDone(p)) \/ WatchStart
  BY <1>2 DEF Prefetch, ReadDone, WatchStart, watchVars, linkVars
<1>3. CASE \E p \in Procs : RecvAnswer(p) \/ AnswerTooLate(p)
  BY <1>3 DEF RecvAnswer, AnswerTooLate, Delivery, watchVars
<1>4. CASE UNCHANGED vars
  BY <1>4 DEF vars, watchVars, linkVars
<1> QED BY <1>1, <1>2, <1>3, <1>4, MakesOrRefuses DEF Next, Replies

\* What fits stays so, and what is in one queue is there after a step, in the next
\* one or shown.
LEMMA QueuesPass ==
  ASSUME Types, QueueInv, DiskInv, TreeInv, [Next]_vars, NEW q \in Paths, disk'[q] = disk[q]
  PROVE  /\ NotesFit(q) => NotesFit(q)'
         /\ NotesFit(q) /\ EventsFit(q) => EventsFit(q)'
         /\ NotesFit(q) /\ EventsFit(q) /\ MessagesFit(q) => MessagesFit(q)'
         /\ Noted(q) => Noted(q)' \/ (NotesFit(q)' /\ Reported(q)') \/ Explained(q)'
         /\ NotesFit(q) /\ Reported(q) => Reported(q)' \/ (EventsFit(q)' /\ Sent(q)')
         /\ NotesFit(q) /\ EventsFit(q) /\ Sent(q) => Sent(q)' \/ (MessagesFit(q)' /\ DiskShown(q)')
<1> DEFINE N == (NotesFit(q) => NotesFit(q)') /\ (Noted(q) => Noted(q)')
           E == (EventsFit(q) => EventsFit(q)') /\ (Reported(q) => Reported(q)')
           M == (MessagesFit(q) => MessagesFit(q)') /\ (Sent(q) => Sent(q)')
<1>1. /\ notes' = notes => N
      /\ events' = events => E
      /\ up' = up => M
  BY QueuesUntouched
<1>2. CASE UNCHANGED <<notes, events, up>>
  BY <1>1, <1>2
<1>3. CASE Replies
  <2>1. events' = events /\ notes' = notes
    BY <1>3 DEF Replies, Refuses, HandleChange, HandleStat, HandleFails, HandleRead, watchVars
  <2>2. N
    BY <1>1, <2>1
  <2>3. \E m \in AnyMessage : m.to \in Procs /\ up' = Append(up, m)
    <3>1. PICK m \in [to: Procs, answer: AnswerSet'] : up' = Append(up, m)
      BY <1>3, HandlersServe DEF Serves
    <3>2. last' \in Nat
      BY DiskStep
    <3>3. AnswerSet' \subseteq AnyAnswer
      BY <3>2 DEF AnswerSet, AnyAnswer
    <3>4. m \in AnyMessage /\ m.to \in Procs
      BY <3>1, <3>3 DEF AnyMessage
    <3> QED BY <3>1, <3>4
  <2>4. M
    BY <2>3, AnswerPasses
  <2> QED BY <1>1, <2>1, <2>2, <2>4
<1>4. CASE LocalEdit \/ Makes
  <2>1. UNCHANGED <<events, up>>
    BY <1>4 DEF LocalEdit, Makes, HandleChange, linkVars
  <2>2. N
    BY <1>4, NotesGrow
  <2> QED BY <1>1, <2>1, <2>2
<1>5. CASE WatchSuppress \/ WatchOverflow
  <2>1. UNCHANGED <<events, up>>
    BY <1>5 DEF WatchSuppress, WatchOverflow, linkVars
  <2> QED BY <1>1, <1>5, <2>1, SuppressPasses
<1>6. CASE WatchReport
  <2>1. up' = up
    BY <1>6 DEF WatchReport, linkVars
  <2> QED BY <1>1, <1>6, <2>1, ReportPasses
<1>7. CASE ForwardEvent
  <2>1. notes' = notes
    BY <1>7 DEF ForwardEvent
  <2> QED BY <1>1, <1>7, <2>1, ForwardPasses
<1>8. CASE RecvChange
  <2>1. UNCHANGED <<notes, events>>
    BY <1>8 DEF RecvChange, watchVars
  <2> QED BY <1>1, <1>8, <2>1, ChangePasses
<1>9. CASE /\ \E p \in Procs : up # <<>> /\ Head(up).to = p /\ up' = Tail(up)
           /\ UNCHANGED <<notes, events>>
  <2>1. M
    BY <1>9, AnswerPasses
  <2> QED BY <1>1, <1>9, <2>1
<1> QED BY <1>2, <1>3, <1>4, <1>5, <1>6, <1>7, <1>8, <1>9, QueuesSplit

\* What is shown stays so, unless a change or an answer brings something back that
\* does not fit, or is about something that was changed in the meantime.
LEMMA ShownStep ==
  ASSUME Types, QueueInv, DiskInv, TreeInv, [Next]_vars, NEW q \in Paths, disk'[q] = disk[q],
         DiskShown(q),
         \/ by[q] = "agent"
         \/ by[q] = "user" /\ MessagesFit(q)
         \/ MessagesFit(q) /\ AnswersFit(q)
  PROVE  DiskShown(q)' \/ Explained(q)'
<1>1. CASE tree' = tree
  BY <1>1, QueuesUntouched
<1>2. CASE RecvChange
  <2>1. CASE by[q] = "agent"
    BY <1>2, <2>1, ChangeOvertakes
  <2>2. CASE MessagesFit(q)
    BY <1>2, <2>2, ChangePasses
  <2> QED BY <2>1, <2>2
<1>3. ASSUME NEW c \in Callers, CallApply(c) PROVE DiskShown(q)' \/ Explained(q)'
  <2>1. CASE by[q] \in {"agent", "user"}
    BY <1>3, <2>1, AnswerOvertakes
  <2>2. CASE AnswersFit(q)
    <3>1. c \in Procs /\ pc[c] = "answered" /\ disk' = disk
      BY <1>3 DEF Procs, CallApply, diskVars
    <3>2. PICK a, k : a = reply[c] /\ k = call[c]
      OBVIOUS
    <3>3. a \in Carried(c)
      BY <3>1, <3>2, CarriedTo
    <3>4. k \in CallSet /\ a \in AnyAnswer
      BY <3>1, <3>2, QueueTypes DEF Types, ProcTypes
    <3>5. AnswerFits(disk[q], k, a, q)
      BY <2>2, <3>1, <3>2, <3>3 DEF AnswersFit
    <3>6. CASE ~a.ok
      <4>1. tree' = tree
        BY <1>3, <3>2, <3>6 DEF CallApply
      <4> QED BY <1>1, <4>1
    <3>7. CASE a.ok
      <4>1. tree' = ApplyTree(tree, k, a) /\ k.op \notin {"read", "chunk"}
        BY <1>3, <3>2, <3>7 DEF CallApply
      <4>2. Shown(tree', q) = disk[q]
        BY <3>4, <3>5, <3>7, <4>1, AnswerShows
      <4> QED BY <3>1, <4>2 DEF DiskShown
    <3> QED BY <3>6, <3>7
  <2> QED BY <2>1, <2>2
<1> QED BY <1>1, <1>2, <1>3, OthersKeepTree

\* A step that leaves q alone on disk leaves it followed.
LEMMA FollowsStep ==
  ASSUME Types, QueueInv, DiskInv, TreeInv, [Next]_vars, NEW q \in Paths,
         by'[q] = by[q], disk'[q] = disk[q], Follows(q)
  PROVE  Follows(q)'
<1>1. CASE Explained(q)
  <2>1. Explained(q)'
    BY <1>1, ExcusesStay, StaysExplained
  <2> QED BY <2>1 DEF Follows
<1>2. CASE by[q] = "scan" /\ ScanInv(q)
  <2>1. /\ NotesFit(q) /\ EventsFit(q) /\ MessagesFit(q) /\ AnswersFit(q) /\ MakingFits(q)
        /\ DiskShown(q)
    BY <1>2 DEF ScanInv
  <2>2. NotesFit(q)' /\ EventsFit(q)' /\ MessagesFit(q)' /\ AnswersFit(q)' /\ MakingFits(q)'
    BY <2>1, QueuesPass, AnswersFitStep, MakingFitsStep
  <2>3. DiskShown(q)' \/ Explained(q)'
    BY <2>1, ShownStep
  <2> QED BY <1>2, <2>2, <2>3 DEF Follows, ScanInv
<1>3. CASE by[q] = "user" /\ UserInv(q)
  <2>1. \/ Noted(q)
        \/ NotesFit(q) /\ Reported(q)
        \/ NotesFit(q) /\ EventsFit(q) /\ Sent(q)
        \/ NotesFit(q) /\ EventsFit(q) /\ MessagesFit(q) /\ DiskShown(q)
    BY <1>3 DEF UserInv
  <2>2. NotesFit(q) /\ EventsFit(q) /\ MessagesFit(q) /\ DiskShown(q) =>
          DiskShown(q)' \/ Explained(q)'
    BY <1>3, ShownStep
  <2>3. \/ Noted(q)'
        \/ NotesFit(q)' /\ Reported(q)'
        \/ NotesFit(q)' /\ EventsFit(q)' /\ Sent(q)'
        \/ NotesFit(q)' /\ EventsFit(q)' /\ MessagesFit(q)' /\ DiskShown(q)'
        \/ Explained(q)'
    BY <2>1, <2>2, QueuesPass
  <2> QED BY <1>3, <2>3 DEF Follows, UserInv
<1>4. CASE by[q] = "agent" /\ AgentInv(q)
  <2>1. DiskShown(q)' \/ Mended(q)' \/ Making(q)' \/ Explained(q)'
    BY <1>4, ShownStep, MendedStep, MakingStep DEF AgentInv
  <2> QED BY <1>4, <2>1 DEF Follows, AgentInv
<1> QED BY <1>1, <1>2, <1>3, <1>4 DEF Follows

\* Every step keeps what the mirror follows.
LEMMA StepDInv ==
  ASSUME Types, QueueInv, DiskInv, TreeInv, DInv, [Next]_vars
  PROVE  DInv'
<1>1. by \in [Paths -> {"scan", "user", "agent"}] /\ \A q \in Paths : Follows(q)
  BY DEF DInv
<1>2. CASE Makes
  <2>1. /\ by' \in [Paths -> {"scan", "user", "agent"}]
        /\ \A q \in Paths : \/ by'[q] = by[q] /\ disk'[q] = disk[q]
                            \/ by'[q] = "agent" /\ Making(q)'
    BY <1>1, <1>2, AgentChange
  <2>2. ASSUME NEW q \in Paths PROVE Follows(q)'
    <3>1. CASE by'[q] = by[q] /\ disk'[q] = disk[q]
      BY <1>1, <3>1, FollowsStep
    <3>2. CASE by'[q] = "agent" /\ Making(q)'
      BY <3>2 DEF Follows, AgentInv
    <3> QED BY <2>1, <3>1, <3>2
  <2> QED BY <2>1, <2>2 DEF DInv
<1>3. CASE LocalEdit
  <2>1. /\ by' \in [Paths -> {"scan", "user", "agent"}]
        /\ \A q \in Paths : \/ by'[q] = by[q] /\ disk'[q] = disk[q]
                            \/ by'[q] = "user" /\ (Noted(q)' \/ Explained(q)')
    BY <1>1, <1>3, UserChange
  <2>2. ASSUME NEW q \in Paths PROVE Follows(q)'
    <3>1. CASE by'[q] = by[q] /\ disk'[q] = disk[q]
      BY <1>1, <3>1, FollowsStep
    <3>2. CASE by'[q] = "user" /\ (Noted(q)' \/ Explained(q)')
      BY <3>2 DEF Follows, UserInv
    <3> QED BY <2>1, <3>1, <3>2
  <2> QED BY <2>1, <2>2 DEF DInv
<1>4. CASE UNCHANGED <<disk, by>>
  BY <1>1, <1>4, FollowsStep DEF DInv
<1> QED BY <1>2, <1>3, <1>4, OthersKeepDisk

\* In a settled mirror, what is followed is shown or there is a reason why not.
LEMMA SettledShown ==
  ASSUME Types, Settled, NEW q, Follows(q)
  PROVE  DiskShown(q) \/ Explained(q)
<1>1. Len(notes) = 0 /\ Len(events) = 0 /\ Len(up) = 0 /\ Range(up) = {}
  BY DEF Settled, Range
<1>2. ~Noted(q) /\ ~Reported(q) /\ ~Sent(q)
  BY <1>1 DEF Noted, Reported, Sent, HoldsFrom
<1>3. \A r \in Procs : Carried(r) = {}
  BY <1>1 DEF Settled, Carried
<1>4. ~Mended(q) /\ ~Making(q)
  BY <1>3 DEF Mended, Making, Settled, Types, MadeInv
<1> QED BY <1>2, <1>4 DEF Follows, ScanInv, UserInv, AgentInv

-----------------------------------------------------------------------------
(* Theorems *)

\* Every step keeps the inductive invariant.
LEMMA StepIInv == IInv /\ [Next]_vars => IInv'
<1> SUFFICES ASSUME IInv, [Next]_vars PROVE IInv'
  OBVIOUS
<1>0. Types /\ TreeInv /\ QueueInv /\ PrefetchOnce /\ DiskInv /\ CacheInv
  BY DEF IInv
<1>1. DiskTypes' /\ last =< last' /\ DiskInv' /\ last' \in Nat /\ last \in Nat
  BY <1>0, DiskStep
<1>2. ProcTypes' /\ LinkTypes' /\ WatchTypes' /\ MadeInv'
  BY <1>0, ProcStep, LinkStep, WatchStep, MadeStep
<1>3. TreeInv' /\ CacheInv'
  BY <1>0, <1>1, TreeStep, CacheStep
<1>4. QueueInv' /\ PrefetchOnce'
  BY <1>0, QueueStep, PrefetchStep
<1> QED BY <1>1, <1>2, <1>3, <1>4 DEF IInv, Types

\* Whatever callers, fetchers, the daemon, the watcher and the owner of the files do, the
\* inductive invariant holds.
THEOREM MirrorInvariant == Spec => []IInv
  BY InitIInv, StepIInv, PTL DEF Spec

\* Whatever the agent does through the mount and the owner does to the files, and in
\* whatever order answers and changes arrive, the metadata tree is sound.
THEOREM MirrorTreeSound == Spec => []TreeSound
<1>1. IInv => TreeSound
  BY DEF IInv, TreeInv, Good, TreeSound
<1> QED BY <1>1, MirrorInvariant, PTL

\* startPrefetch and FinishPrefetch: nothing is fetched by two goroutines at a time,
\* and nothing stays marked as being fetched.
THEOREM MirrorPrefetchOnce == Spec => []PrefetchOnce
<1>1. IInv => PrefetchOnce
  BY DEF IInv
<1> QED BY <1>1, MirrorInvariant, PTL

\* However reads, prefetches and invalidations interleave, the content cache counts
\* its bytes rightly, stays within its limit and has one entry per path.
THEOREM MirrorCacheSound == Spec => []CacheSound
<1>1. IInv => CacheSound
  BY CountedParts DEF IInv, CacheInv, CacheSound, CacheConsistent, Counted
<1> QED BY <1>1, MirrorInvariant, PTL

\* The agent's calls, the owner's edits and the watcher's changes: when everything has
\* settled, the mount shows what is on disk, and where it does not there is a reason of
\* a known kind: the change was missed, was overtaken, or is below a renamed directory.
THEOREM MirrorDivergenceExplained == Spec => []DivergenceExplained
<1>1. Init => IInv /\ DInv
  BY InitIInv, InitDInv
<1>2. IInv /\ DInv /\ [Next]_vars => (IInv /\ DInv)'
  BY StepIInv, StepDInv DEF IInv
<1>3. IInv /\ DInv => DivergenceExplained
  BY SettledShown DEF IInv, DInv, DivergenceExplained, DiskShown, Explained
<1> QED BY <1>1, <1>2, <1>3, PTL DEF Spec
=============================================================================
