---------------------------- MODULE MCStatusFile ----------------------------
(***************************************************************************)
(* An instance of StatusFile for TLC: names of one and two characters,     *)
(* one, two and three elements (the count then needs both digits, and its  *)
(* first digit may be zero), lost elements, and a batch of two records     *)
(* that fills its pages exactly.                                           *)
(***************************************************************************)
EXTENDS StatusFile

Element(o, s) == [offset |-> o, size |-> s]
Fi(name, offsets) == [name |-> name, offsets |-> offsets]

MCBatches ==
    {<<>>,
     <<Fi(<<7>>, <<Element(3, 2)>>), Fi(<<7, 8>>, <<Element(4, 2), Element(0, 0)>>)>>,
     <<Fi(<<7>>, <<Element(0, 2)>>),
       Fi(<<8>>, <<Element(3, 2), Element(4, 2), Element(5, 1)>>)>>,
     <<Fi(<<7, 8>>, <<Element(3, 2)>>), Fi(<<8, 8>>, <<Element(5, 1)>>)>>}
=============================================================================
