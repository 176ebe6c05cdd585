------------------------------ MODULE ReadDir ------------------------------
(***************************************************************************)
(* exfat_cache_directory: one directory read from the medium, entry by     *)
(* entry, by readdir() of libexfat/node.c.                                 *)
(*                                                                         *)
(* A file is a set of entries: a FILE entry that tells how many follow it  *)
(* (its continuations), the INFO entry, and NAME entries.  readdir() counts*)
(* them down; the set is complete, and checked, at the NAME entry that     *)
(* brings the count to zero.  Other entries may stand anywhere.            *)
(*                                                                         *)
(* DirWalk takes this module as one step: OpenDir if it ends in "cached",  *)
(* OpenDirFails if in "failed", Abort if in "aborted".                     *)
(***************************************************************************)
EXTENDS Integers, Sequences, FiniteSets

CONSTANTS
    Directories,        \* the directories a medium may hold
    CLUSTER_SIZE,       \* in entries
    EXFAT_NAME_MAX,     \* characters of a node's name
    EXFAT_ENAME_MAX     \* characters of a NAME entry

ASSUME SizesAssumption ==
    /\ CLUSTER_SIZE \in Nat \ {0}
    /\ EXFAT_NAME_MAX \in Nat \ {0}
    /\ EXFAT_ENAME_MAX \in Nat \ {0}

\* A checksum is the sequence of the entries it was computed over: the model
\* knows no collisions.  "rest" sums up what check_node asks of an INFO entry
\* by itself (valid size, start cluster, alignment of a directory's size).
InfoEntry == [type : {"info"}, flags : BOOLEAN, empty : BOOLEAN,
              contiguous : BOOLEAN, rest : BOOLEAN]
NameEntry == [type : {"name"}]
FileEntry == [type : {"file"}, continuations : Nat,
              checksum : Seq(InfoEntry \cup NameEntry)]
SystemEntry == [type : {"upcase", "bitmap", "label"}, sound : BOOLEAN]
OtherEntry == [type : {"deleted", "optional", "unknown"}]
Entry == InfoEntry \cup NameEntry \cup FileEntry \cup SystemEntry \cup OtherEntry

\* The size of a directory is a number of clusters: check_node and
\* rootdir_size see to it.
ASSUME DirectoriesAssumption ==
    \A d \in Directories : d \in Seq(Entry) /\ Len(d) % CLUSTER_SIZE = 0

VARIABLES
    dir,            \* the entries of the directory
    phase,          \* "open", "entry", "next", "emit"; "cached", "failed",
                    \* "fault", "aborted"
    pos,            \* it->offset: the entry readdir() looks at, from 1
    continuations,
    node,           \* *node; NULL or the node being filled
    checksum,       \* actual_checksum
    children,       \* dir->child and what follows it
    heap,           \* allocated nodes and bitmap chunks, by their entry
    upcase,         \* ef->upcase, ef->cmap.chunk: the entry they came from
    chunk,
    ioFailed        \* history: a read or an allocation has failed

vars == <<dir, phase, pos, continuations, node, checksum, children, heap,
          upcase, chunk, ioFailed>>
system == <<upcase, chunk>>
set == <<continuations, node, checksum>>

NULL == [file |-> 0]

NewNode(k) == [file |-> k, info |-> 0, names |-> 0, contiguous |-> FALSE]

\* Entry 0 stands for NULL, and for a table that was there before: that of the
\* root, when another directory is read.
Mounted == -1

Init ==
    /\ dir \in Directories
    /\ phase = "open"
    /\ pos = 1
    /\ continuations = 0 /\ node = NULL /\ checksum = <<>>
    /\ children = <<>>
    /\ heap = {}
    /\ \/ upcase = 0 /\ chunk = 0
       \/ upcase = Mounted /\ chunk = Mounted
    /\ ioFailed = FALSE

DIV_ROUND_UP(a, b) == (a + b - 1) \div b

MaxContinuations == 1 + DIV_ROUND_UP(EXFAT_NAME_MAX, EXFAT_ENAME_MAX)

E == dir[pos]
Reading(type) == phase = "entry" /\ pos <= Len(dir) /\ E.type = type
Crossing == pos % CLUSTER_SIZE = 0 /\ pos < Len(dir)

ErrorKeepsNode ==                                               \* mutant
    /\ phase' = "failed"
    /\ heap' = heap \ {children[i].file : i \in DOMAIN children}
    /\ children' = <<>>
    /\ node' = NULL
    /\ UNCHANGED <<dir, pos, continuations, checksum>>

\* goto error in readdir(), and the rollback in exfat_cache_directory.
Error ==
    /\ phase' = "failed"
    /\ heap' = heap \ ({children[i].file : i \in DOMAIN children} \cup {node.file})
    /\ children' = <<>>
    /\ node' = NULL
    /\ UNCHANGED <<dir, pos, continuations, checksum>>

Open ==
    /\ phase = "open"
    /\ phase' = "entry"
    /\ UNCHANGED <<dir, pos, set, children, heap, system, ioFailed>>

\* opendir() rejects the start cluster, or cannot read it.  It reports the
\* directory by its name: see CheckNodeAborts.
OpenFails ==
    /\ phase = "open"
    /\ phase' \in {"failed", "aborted"}
    /\ ioFailed' = TRUE
    /\ UNCHANGED <<dir, pos, set, children, heap, system>>

\* -ENOENT.  A node that is still there is dropped as it is.
EndOfDirectory ==
    /\ phase = "entry" /\ pos > Len(dir) /\ continuations = 0
    /\ phase' = "cached"
    /\ node' = NULL
    /\ UNCHANGED <<dir, pos, continuations, checksum, children, heap, system, ioFailed>>

FileRestarts ==                                                 \* mutant
    /\ Reading("file")
    /\ E.continuations \in 2 .. MaxContinuations
    /\ continuations' = E.continuations
    /\ checksum' = <<>>
    /\ node' = NewNode(pos)
    /\ heap' = heap \cup {pos}
    /\ phase' = "next"
    /\ UNCHANGED <<dir, pos, children, system, ioFailed>>

File ==
    /\ Reading("file") /\ continuations = 0
    /\ E.continuations \in 2 .. MaxContinuations
    /\ continuations' = E.continuations
    /\ checksum' = <<>>
    /\ node' = NewNode(pos)
    /\ heap' = heap \cup {pos}
    /\ phase' = "next"
    /\ UNCHANGED <<dir, pos, children, system, ioFailed>>

FileInfoFree ==                                                 \* mutant
    /\ Reading("info") /\ continuations >= 2 /\ E.flags
    /\ node' = [node EXCEPT !.info = pos, !.contiguous = @ \/ E.contiguous]
    /\ checksum' = Append(checksum, E)
    /\ phase' = "next"
    /\ UNCHANGED <<dir, pos, continuations, children, heap, system, ioFailed>>

FileInfo ==
    /\ Reading("info") /\ continuations >= 2 /\ E.flags
    /\ node' = [node EXCEPT !.info = pos, !.contiguous = @ \/ E.contiguous]
    /\ checksum' = Append(checksum, E)
    /\ continuations' = continuations - 1
    /\ phase' = "next"
    /\ UNCHANGED <<dir, pos, children, heap, system, ioFailed>>

\* (*node)->name + EXFAT_NAME_MAX - namep
Room == EXFAT_NAME_MAX - node.names * EXFAT_ENAME_MAX

Empty(n) == n.info = 0 \/ dir[n.info].empty

CheckNode(n, actual) ==
    /\ actual = dir[n.file].checksum
    /\ n.info # 0 => dir[n.info].rest
    /\ Empty(n) => ~n.contiguous

FileName ==
    /\ Reading("name") /\ continuations > 0 /\ Room >= 0
    /\ LET named == [node EXCEPT !.names = @ + 1]
           actual == Append(checksum, E)
       IN  /\ continuations = 1 => CheckNode(named, actual)
           /\ node' = named
           /\ checksum' = actual
    /\ continuations' = continuations - 1
    /\ phase' = IF continuations = 1 THEN "emit" ELSE "next"
    /\ UNCHANGED <<dir, pos, children, heap, system, ioFailed>>

\* memcpy is given a negative length, as a size_t.
FileNameFaults ==
    /\ Reading("name") /\ continuations > 0 /\ Room < 0
    /\ phase' = "fault"
    /\ UNCHANGED <<dir, pos, set, children, heap, system, ioFailed>>

Upcase ==
    /\ Reading("upcase") /\ (upcase # 0 \/ E.sound)
    /\ upcase' = IF upcase = 0 THEN pos ELSE upcase
    /\ phase' = "next"
    /\ UNCHANGED <<dir, pos, set, children, heap, chunk, ioFailed>>

\* A second bitmap takes the place of the first, which nothing frees.
Bitmap ==
    /\ Reading("bitmap") /\ E.sound
    /\ chunk' = pos
    /\ heap' = heap \cup {pos}
    /\ phase' = "next"
    /\ UNCHANGED <<dir, pos, set, children, upcase, ioFailed>>

Label ==
    /\ Reading("label") /\ E.sound
    /\ phase' = "next"
    /\ UNCHANGED <<dir, pos, set, children, heap, system, ioFailed>>

Deleted ==
    /\ Reading("deleted")
    /\ phase' = "next"
    /\ UNCHANGED <<dir, pos, set, children, heap, system, ioFailed>>

\* An unknown entry that need not be understood counts as a continuation, and
\* completes nothing.
Optional ==
    /\ Reading("optional") /\ continuations > 0
    /\ continuations' = continuations - 1
    /\ phase' = "next"
    /\ UNCHANGED <<dir, pos, node, checksum, children, heap, system, ioFailed>>

CheckNodeFails ==
    /\ Reading("name") /\ continuations = 1 /\ Room >= 0
    /\ ~CheckNode([node EXCEPT !.names = @ + 1], Append(checksum, E))

\* check_node reports a bad node by its name, which need not convert to UTF-8
\* (module Utf): exfat_get_name takes that for a bug and calls abort().
CheckNodeAborts ==
    /\ phase = "entry" /\ CheckNodeFails
    /\ phase' = "aborted"
    /\ UNCHANGED <<dir, pos, set, children, heap, system, ioFailed>>

\* What readdir() does not accept.
Rejected ==
    \/ pos > Len(dir) /\ continuations # 0
    \/ /\ Reading("file")
       /\ continuations # 0 \/ E.continuations \notin 2 .. MaxContinuations
    \/ Reading("info") /\ (continuations < 2 \/ ~E.flags)
    \/ Reading("name") /\ continuations = 0
    \/ CheckNodeFails
    \/ Reading("upcase") /\ upcase = 0 /\ ~E.sound
    \/ (Reading("bitmap") \/ Reading("label")) /\ ~E.sound
    \/ Reading("optional") /\ continuations = 0
    \/ Reading("unknown")

Reject ==
    /\ phase = "entry" /\ Rejected
    /\ Error
    /\ UNCHANGED <<system, ioFailed>>

\* fetch_next_entry.
Fetch ==
    /\ phase = "next"
    /\ pos' = pos + 1
    /\ phase' = "entry"
    /\ UNCHANGED <<dir, set, children, heap, system, ioFailed>>

\* return 0, and the caller links the node; the next call starts afresh.
Emit ==
    /\ phase = "emit"
    /\ pos' = pos + 1
    /\ children' = Append(children, node)
    /\ node' = NULL
    /\ checksum' = <<>>
    /\ phase' = "entry"
    /\ UNCHANGED <<dir, continuations, heap, system, ioFailed>>

\* The next cluster is invalid or cannot be read; a node or a table cannot be
\* allocated, or the table not be read.
FetchFails ==
    /\ phase \in {"next", "emit"} /\ Crossing
    /\ Error
    /\ ioFailed' = TRUE
    /\ UNCHANGED system

EntryFails ==
    /\ \/ Reading("file") /\ continuations = 0
          /\ E.continuations \in 2 .. MaxContinuations
       \/ Reading("upcase") /\ upcase = 0 /\ E.sound
    /\ Error
    /\ ioFailed' = TRUE
    /\ UNCHANGED system

\* The chunk is replaced before it is read: by NULL if malloc fails, else by a
\* buffer of garbage.
BitmapFails ==
    /\ Reading("bitmap") /\ E.sound
    /\ phase' = "failed"
    /\ \E isAllocated \in BOOLEAN :
         /\ chunk' = IF isAllocated THEN pos ELSE 0
         /\ heap' = (heap \ ({children[i].file : i \in DOMAIN children} \cup {node.file}))
                    \cup (IF isAllocated THEN {pos} ELSE {})
    /\ children' = <<>>
    /\ node' = NULL
    /\ ioFailed' = TRUE
    /\ UNCHANGED <<dir, pos, continuations, checksum, upcase>>

Next ==
    \/ Open \/ OpenFails \/ EndOfDirectory
    \/ File \/ FileInfo \/ FileName \/ FileNameFaults
    \/ Upcase \/ Bitmap \/ Label \/ Deleted \/ Optional
    \/ Reject \/ CheckNodeAborts \/ Fetch \/ Emit
    \/ FetchFails \/ EntryFails \/ BitmapFails

Spec == Init /\ [][Next]_vars /\ WF_vars(Next)

-----------------------------------------------------------------------------
(* Properties                                                              *)

Kind(k) == dir[k].type
IsSecondary(k) == Kind(k) \in {"info", "name", "optional"}
FileEntries == {k \in DOMAIN dir : Kind(k) = "file"}

\* The set a FILE entry opens, by its own count: that many of the secondary
\* entries after it, whatever stands between them.
Owned(k) ==
    {j \in k + 1 .. Len(dir) :
        /\ IsSecondary(j)
        /\ Cardinality({l \in k + 1 .. j : IsSecondary(l)}) <= dir[k].continuations}

OfKind(S, type) == {j \in S : Kind(j) = type}
Last(S) == IF S = {} THEN 0 ELSE CHOOSE j \in S : \A l \in S : l <= j

\* A set that ends in an optional entry is never completed: its file is dropped.
Dropped(k) == Owned(k) # {} /\ Kind(Last(Owned(k))) = "optional"

NodeOf(k) ==
    [file |-> k,
     info |-> Last(OfKind(Owned(k), "info")),
     names |-> Cardinality(OfKind(Owned(k), "name")),
     contiguous |-> \E j \in OfKind(Owned(k), "info") : dir[j].contiguous]

\* Each variable has its type, and the count never exceeds what the FILE entry
\* of the set being read announces.
TypeOK ==
    /\ dir \in Directories
    /\ phase \in {"open", "entry", "next", "emit", "cached", "failed", "fault",
                "aborted"}
    /\ pos \in 1 .. Len(dir) + 1
    /\ phase \in {"next", "emit"} => pos <= Len(dir)
    /\ continuations \in 0 .. MaxContinuations
    /\ node = NULL \/
       /\ node \in [file : FileEntries, info : 0 .. Len(dir), names : Nat,
                    contiguous : BOOLEAN]
       /\ node.info # 0 => Kind(node.info) = "info"
    /\ children \in Seq([file : FileEntries, info : 0 .. Len(dir), names : Nat,
                         contiguous : BOOLEAN])
    /\ heap \subseteq DOMAIN dir
    /\ upcase \in {Mounted} \cup 0 .. Len(dir)
    /\ chunk \in {Mounted} \cup 0 .. Len(dir)
    /\ ioFailed \in BOOLEAN

\* A directory that is read lists, in the order of the medium, each file whose
\* set does not end in an optional entry, with the info and the names of that
\* set and of no other: no two sets are ever mixed.
ListedExactly ==
    phase = "cached" =>
        /\ {children[i].file : i \in DOMAIN children}
              = {k \in FileEntries : ~Dropped(k)}
        /\ \A i, j \in DOMAIN children :
             i < j => children[i].file < children[j].file
        /\ \A i \in DOMAIN children : children[i] = NodeOf(children[i].file)

\* Every node allocated is linked, or being filled, or freed; and every bitmap
\* but the current one, with two exceptions: a set that ended in an optional
\* entry leaves its node behind, and a bitmap the one before it.
HeapOwned ==
    LET owned == {children[i].file : i \in DOMAIN children} \cup {node.file, chunk}
    IN  \A k \in heap \ owned :
          \/ Kind(k) = "file" /\ Dropped(k)
          \/ Kind(k) = "bitmap" /\ chunk # k

\* The sets of a sound directory: info, then as many names as a full name may
\* take, with the checksum of both.
Sound(k) ==
    LET c == dir[k].continuations
        after == SubSeq(dir, k + 1, k + c)
    IN  /\ c >= 2 /\ k + c <= Len(dir)
        /\ (c - 2) * EXFAT_ENAME_MAX < EXFAT_NAME_MAX
        /\ after = dir[k].checksum
        /\ after[1] \in InfoEntry /\ after[1].flags /\ after[1].rest
        /\ after[1].empty => ~after[1].contiguous
        /\ \A i \in 2 .. c : after[i] \in NameEntry

\* Each entry belongs to a sound set or may stand by itself.  An optional entry
\* may not: outside a set readdir rejects it, although it means to skip it.
SoundDirectory ==
    /\ \A k \in FileEntries : Sound(k)
    /\ \A j \in DOMAIN dir :
         \/ Kind(j) \in {"deleted", "file"}
         \/ Kind(j) \in {"upcase", "bitmap", "label"} /\ dir[j].sound
         \/ \E k \in FileEntries : j \in k + 1 .. k + dir[k].continuations

\* A sound directory is read, unless the medium or the memory fails.
SoundIsCached ==
    phase \in {"failed", "fault", "aborted"} => ioFailed \/ ~SoundDirectory

\* The copy of a name goes wrong only in a set whose info is missing: with one
\* continuation spent on it the names that are left fit.
FaultsOnlyWithoutInfo == phase = "fault" => node.info = 0

\* What exfat_opendir makes of a directory is what its entries say: a listing
\* without a set too many, too few or mixed, and no refusal without a reason.
ListingExact == TypeOK /\ ListedExactly /\ SoundIsCached
=============================================================================
