---------------------------- MODULE MCDirectory -----------------------------
(***************************************************************************)
(* A root and one directory below it, with files of short and long names,  *)
(* clusters of four entries, and room for one more node.                   *)
(***************************************************************************)
EXTENDS Directory

CONSTANTS R, D, F, G, S, L, X

NamePieces == [n \in {S, L} |-> IF n = L THEN 2 ELSE 1]
Fill(s, clusters) == s \o [i \in 1 .. clusters * SLOTS - Len(s) |-> Free]
Volume(root, below) == [d \in {R, D} |-> IF d = R THEN root ELSE below]

InitialVolumes ==
    { \* the directory is full, and a long name stands over two clusters
      Volume(Fill(SetOf(D, S, 1) \o SetOf(F, L, 0), 2), Fill(SetOf(G, L, 0), 1)),
      \* a gap, and a label behind the last file
      Volume(Fill(SetOf(F, S, 0) \o <<Free>> \o SetOf(G, S, 0) \o <<LabelSlot(X)>>, 2),
             <<>>) }
=============================================================================
