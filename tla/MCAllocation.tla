---------------------------- MODULE MCAllocation ----------------------------
(***************************************************************************)
(* A volume of six clusters, four of them in the bitmap, one of these     *)
(* taken, and two files.                                                   *)
(***************************************************************************)
EXTENDS Allocation

CONSTANTS A, B

\* A file of two clusters, one of them behind the bitmap, contiguous or not, and
\* an empty one.
Info(first, bytes, flag) ==
    [start |-> first, size |-> bytes, contiguous |-> flag, sound |-> TRUE]
Empty == Info(EXFAT_CLUSTER_FREE, 0, FALSE)
Table(cells) == [c \in Clusters |-> IF c \in DOMAIN cells THEN cells[c] ELSE EXFAT_CLUSTER_FREE]

InitialMedia ==
    { [fat |-> Table([c \in {} |-> 0]), used |-> {3, 5, 6},
       entry |-> [f \in {A, B} |-> IF f = A THEN Info(5, 4, TRUE) ELSE Empty]],
      [fat |-> Table([c \in {4, 7} |-> IF c = 7 THEN 4 ELSE EXFAT_CLUSTER_END]),
       used |-> {3, 4, 7},
       entry |-> [f \in {A, B} |-> IF f = A THEN Info(7, 3, FALSE) ELSE Empty]] }
=============================================================================
