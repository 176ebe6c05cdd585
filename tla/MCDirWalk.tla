----------------------------- MODULE MCDirWalk -----------------------------
(***************************************************************************)
(* An instance of DirWalk for TLC: three levels, files before, between and *)
(* after directories, an empty directory, and a directory that holds only  *)
(* a directory.                                                            *)
(***************************************************************************)
EXTENDS DirWalk

CONSTANTS root, sub, deep, empty, other, inner, f1, f2, f3, f4, f5, f6

MCNodes == {root, sub, deep, empty, other, inner, f1, f2, f3, f4, f5, f6}

MCEntries ==
    [d \in {root, sub, deep, empty, other, inner} |->
        CASE d = root -> <<f1, sub, f2, empty, other>>
          [] d = sub -> <<deep, f3>>
          [] d = deep -> <<f4, f5>>
          [] d = empty -> <<>>
          [] d = other -> <<inner>>
          [] d = inner -> <<f6>>]

\* No bad name, or one of any node.
MCBadNameSets == {{}} \cup {{n} : n \in MCNodes \ {root}}
NoBadNames == {{}}
=============================================================================
