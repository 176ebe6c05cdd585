----------------------------- MODULE MCRecovery -----------------------------
(***************************************************************************)
(* An instance of Recovery for TLC: two names, and listings that hold a    *)
(* whole file of two clusters, a file whose chain is lost after its first  *)
(* cluster, an empty file (one lost offset), an empty directory tree, and  *)
(* the same tree listed with a file missing, as a damaged partition may.   *)
(***************************************************************************)
EXTENDS Recovery

CONSTANTS a, b

File(name, offsets) == [fileName |-> name, offsets |-> offsets]

MCNames == {a, b}

MCListings ==
    {<<>>,
     <<File(a, <<3, 4>>), File(b, <<5, 0>>)>>,
     <<File(b, <<0>>), File(a, <<3, 4>>)>>}
=============================================================================
