------------------------------ MODULE MCMirror ------------------------------
EXTENDS Mirror, TLC

d  == <<"d">>
df == <<"d", "f">>
e  == <<"e">>
ef == <<"e", "f">>

MCPaths == <<d, df, e, ef>>

MCDisk == (d :> Dir) @@ (df :> 1) @@ [p \in {e, ef} |-> Absent]

\* Versions 1 and 3 cannot be told apart, and 2 does not fit into the cache.
MCSizes == <<1, 3, 1, 2>> @@ (0 :> 0)

MCSymmetry == Permutations(Callers) \cup Permutations(Fetchers)
=============================================================================
