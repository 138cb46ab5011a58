-------------------------------- MODULE Tree --------------------------------
(***************************************************************************)
(* The metadata tree of a session (pkg/fstree/fstree.go): a map from paths *)
(* to nodes, in which a directory also keeps the names of its children.    *)
(* The two say the same thing twice, and every operation has to keep them  *)
(* in step.                                                                *)
(*                                                                         *)
(* A path is the sequence of its names and the root is <<>>; a node's child*)
(* is named by its full path.  Of a FileInfo there is whether it is a       *)
(* directory and which content it describes: 0 for a directory, and for    *)
(* the bare FileInfo that carries nothing but a path.                       *)
(***************************************************************************)
EXTENDS Naturals, Sequences

Root == <<>>

\* splitParent.
ParentOf(p) == SubSeq(p, 1, Len(p) - 1)

\* p itself, or a path below it.
Within(p, q) == Len(p) =< Len(q) /\ SubSeq(q, 1, Len(p)) = p

\* The directories on the way to p, without the root.
Ancestors(p) == {SubSeq(p, 1, n) : n \in 1..(Len(p) - 1)}

Node(dir, ver, children) == [dir |-> dir, ver |-> ver, children |-> children]

New == [p \in {Root} |-> Node(TRUE, 0, {})]

\* List: the registered children of a directory that exist.
List(tree, p) == tree[p].children \cap DOMAIN tree

Without(tree, paths) == [q \in DOMAIN tree \ paths |-> tree[q]]

\* What deleteLocked finds from p: it descends through the children of
\* directories and through nothing else.
Reached(tree, p) ==
  {q \in DOMAIN tree :
     /\ Within(p, q)
     /\ p \in DOMAIN tree
     /\ \A n \in (Len(p) + 1)..Len(q) :
          LET parent == SubSeq(q, 1, n - 1) IN
            /\ parent \in DOMAIN tree
            /\ tree[parent].dir
            /\ SubSeq(q, 1, n) \in tree[parent].children}

\* Deletion that forgets to tell the parent.
MutDeleteKeepsName(tree, p) ==
  IF p = Root \/ p \notin DOMAIN tree THEN tree ELSE Without(tree, Reached(tree, p))

Delete(tree, p) ==
  IF p = Root \/ p \notin DOMAIN tree THEN tree
  ELSE LET rest == Without(tree, Reached(tree, p)) IN
         [q \in DOMAIN rest |->
            IF q = ParentOf(p) THEN [rest[q] EXCEPT !.children = @ \ {p}] ELSE rest[q]]

\* pruneChildren: a file takes the place of a directory.
Prune(tree, p) == Without(tree, Reached(tree, p) \ {p})

\* ensureAncestors: missing directories are created up to the first ancestor
\* that exists, and that one is made a directory if it was taken for a file.
EnsureAncestors(tree, p) ==
  LET missing == {a \in Ancestors(p) :
                    \A b \in Ancestors(p) : Within(a, b) => b \notin DOMAIN tree}
      created(q) == {a \in missing : ParentOf(a) = q}
  IN  [q \in DOMAIN tree \cup missing |->
         IF q \in missing THEN Node(TRUE, 0, created(q))
         ELSE IF q = ParentOf(p) \/ created(q) # {}
              THEN Node(TRUE, 0, tree[q].children \cup created(q))
              ELSE tree[q]]

\* childrenMapForInfo: a directory keeps the children it had.
KeptChildren(tree, p, dir) ==
  IF dir /\ p \in DOMAIN tree THEN tree[p].children ELSE {}

\* insertLocked.
InsertLocked(tree, p, dir, ver) ==
  LET pruned == IF p \in DOMAIN tree /\ tree[p].dir /\ ~dir THEN Prune(tree, p) ELSE tree
      ready  == EnsureAncestors(pruned, p)
  IN  [q \in DOMAIN ready \cup {p} |->
         IF q = p THEN Node(dir, ver, KeptChildren(ready, p, dir))
         ELSE IF q = ParentOf(p) THEN [ready[q] EXCEPT !.children = @ \cup {p}]
         ELSE ready[q]]

\* The root stays as it is.
Insert(tree, p, dir, ver) == IF p = Root THEN tree ELSE InsertLocked(tree, p, dir, ver)

\* Every node but the root hangs from a directory that lists it, a directory
\* lists nothing that does not exist, and a file lists nothing: Lookup and List
\* agree, and no node is out of the reach of a deletion of its directory.
Sound(tree) ==
  /\ Root \in DOMAIN tree
  /\ \A p \in DOMAIN tree :
       /\ p # Root => /\ ParentOf(p) \in DOMAIN tree
                      /\ tree[ParentOf(p)].dir
                      /\ p \in tree[ParentOf(p)].children
       /\ \A c \in tree[p].children : c \in DOMAIN tree /\ c # Root /\ ParentOf(c) = p
       /\ ~tree[p].dir => tree[p].children = {}
=============================================================================
