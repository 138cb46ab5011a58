----------------------------- MODULE MCFileView -----------------------------
EXTENDS FileView, TLC

\* Readers are alike.
MCSymmetry == Permutations(Readers)

\* The second change of the file leaves its size and comes within the second of
\* the first.
MCSigs == [v \in Infos |-> IF v = 3 THEN 2 ELSE v]
=============================================================================
