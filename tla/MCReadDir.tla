----------------------------- MODULE MCReadDir -----------------------------
(* Small directories: every sequence of two and four entries over all kinds *)
(* of entry, and of six over those that make up files.                      *)
EXTENDS ReadDir

Info(empty, contiguous, rest) ==
    [type |-> "info", flags |-> TRUE, empty |-> empty,
     contiguous |-> contiguous, rest |-> rest]
Plain == Info(FALSE, FALSE, TRUE)
Contiguous == Info(FALSE, TRUE, TRUE)
EmptyFile == Info(TRUE, FALSE, TRUE)
Name == [type |-> "name"]
FileOf(c, sum) == [type |-> "file", continuations |-> c, checksum |-> sum]
Other(type) == [type |-> type]
System(type, sound) == [type |-> type, sound |-> sound]

Files == {FileOf(2, <<Plain, Name>>), FileOf(3, <<Plain, Name, Name>>)}

Unsound == Info(FALSE, FALSE, FALSE)
Kinds == Files \cup
    {Plain, Unsound, Name, Other("deleted"), Other("optional"), Other("unknown"),
     System("upcase", TRUE), System("bitmap", TRUE), System("label", TRUE)}

AllKinds == Kinds \cup
    {FileOf(1, <<Name>>), FileOf(4, <<Plain, Name, Name, Name>>),
     FileOf(2, <<Unsound, Name>>), [Plain EXCEPT !.flags = FALSE],
     System("upcase", FALSE), System("bitmap", FALSE), System("label", FALSE)}

FileKinds == Files \cup {Plain, Name, Other("optional")}

\* Two names and no info; more names than the node's name holds; the flags of
\* two infos; a checksum that leaves an optional entry out.
Curious ==
    {<<FileOf(2, <<Name, Name>>), Name, Name, Other("deleted")>>,
     <<FileOf(3, <<Name, Name, Name>>), Name, Name, Name>>,
     <<FileOf(3, <<Contiguous, EmptyFile, Name>>), Contiguous, EmptyFile, Name>>,
     <<FileOf(3, <<EmptyFile, Contiguous, Name>>), EmptyFile, Contiguous, Name>>,
     <<FileOf(2, <<EmptyFile, Name>>), EmptyFile, Name, Other("deleted")>>,
     <<FileOf(2, <<Contiguous, Name>>), Contiguous, Name, Other("deleted")>>,
     <<FileOf(3, <<Plain, Name>>), Plain, Other("optional"), Name>>}

MCDirectories ==
    {<<>>} \cup [1 .. 2 -> AllKinds] \cup [1 .. 4 -> Kinds]
    \cup [1 .. 6 -> FileKinds] \cup Curious
=============================================================================
