------------------------------ MODULE DirWalk ------------------------------
(***************************************************************************)
(* How bbcp lists a partition: ExfatPartition::_dirsRecursiveWalk over the *)
(* nodes of libexfat, with the reference counts that exfat_opendir,        *)
(* exfat_readdir, exfat_closedir and exfat_put_node keep, the caching of a *)
(* directory, which may fail, and the unmounting that ends the listing.    *)
(*                                                                         *)
(* The C++ recursion is a stack of frames.  Caching a directory reads it   *)
(* from the medium as a whole: all its entries, or, after any error in     *)
(* readdir(), none (exfat_cache_directory frees what it has read).         *)
(***************************************************************************)
EXTENDS Integers, Sequences, SequencesExt, FiniteSets

CONSTANTS
    Nodes,      \* what the medium holds
    Root,
    Entries,    \* Entries[d]: the nodes of directory d, in order
    BadNameSets \* which nodes' names ExfatNode::getName may not convert

Dirs == DOMAIN Entries
Files == Nodes \ Dirs

\* The directories form a tree: each node but the root is the entry of one
\* directory, once, and whatever set of nodes is taken, one of them has none of
\* the others as an entry.  (On a medium where a directory is below itself the
\* recursion has no end.)
ASSUME TreeAssumption ==
    /\ Root \in Dirs /\ Dirs \subseteq Nodes
    /\ \A d \in Dirs : Entries[d] \in Seq(Nodes \ {Root})
    /\ \A n \in Nodes \ {Root} :
         \E d \in Dirs : \E k \in DOMAIN Entries[d] : Entries[d][k] = n
    /\ \A d, e \in Dirs : \A k \in DOMAIN Entries[d], l \in DOMAIN Entries[e] :
         Entries[d][k] = Entries[e][l] => d = e /\ k = l
    /\ \A S \in SUBSET Nodes :
         S # {} => \E n \in S :
                     n \in Dirs => \A k \in DOMAIN Entries[n] : Entries[n][k] \notin S

\* The name of the root is empty, and converts.
ASSUME NamesAssumption == BadNameSets \subseteq SUBSET (Nodes \ {Root})

VARIABLES
    badNames,   \* the names getName does not convert; never changes
    phase,      \* "walk", "unmount", "done", "spin", "aborted"
    stack,      \* frames: the ExfatNode and its exfat_iterator, deepest last
    references, \* node->references
    cached,     \* directories with EXFAT_ATTRIB_CACHED
    out,        \* the list of files
    failed      \* history: directories that could not be cached

walkVars == <<badNames, phase, stack, references, cached, out, failed>>

\* current is the index of it->current in its directory; 0 for NULL.
Frame(n) == [node |-> n, isOpen |-> FALSE, current |-> 0]

\* Once exfat_mount has returned: it holds one reference to the root, and has
\* cached it (a root that cannot be read does not mount).
WalkInit ==
    /\ badNames \in BadNameSets
    /\ phase = "walk"
    /\ stack = <<Frame(Root)>>
    /\ references = [n \in Nodes |-> IF n = Root THEN 1 ELSE 0]
    /\ cached = {Root}
    /\ out = <<>>
    /\ failed = {}

Top == Last(stack)
Node == Top.node

\* The children a directory node has in memory.
Child(d) == IF d \in cached THEN Entries[d] ELSE <<>>

Get(refs, n) == [refs EXCEPT ![n] = @ + 1]
Put(refs, n) == [refs EXCEPT ![n] = @ - 1]

SetTop(frame) == Append(Front(stack), frame)

\* The frame below puts l_n back when the recursive call returns.
Return(refs) ==
    /\ stack' = Front(stack)
    /\ references' = IF Len(stack) > 1 THEN Put(refs, Node) ELSE refs
    /\ phase' = IF Len(stack) > 1 THEN phase ELSE "unmount"

\* case EXF_NODE_FILE.
ListFile ==
    /\ phase = "walk" /\ Node \in Files \ badNames
    /\ out' = Append(out, Node)
    /\ Return(references)
    /\ UNCHANGED <<badNames, cached, failed>>

OpenDirNoGet ==                                                 \* mutant
    /\ phase = "walk" /\ Node \in Dirs /\ ~Top.isOpen
    /\ cached' = cached \cup {Node}
    /\ stack' = SetTop([Top EXCEPT !.isOpen = TRUE])
    /\ UNCHANGED <<badNames, phase, references, out, failed>>

\* ExfatNode::open, exfat_opendir, exfat_cache_directory.
OpenDir ==
    /\ phase = "walk" /\ Node \in Dirs /\ ~Top.isOpen
    /\ references' = Get(references, Node)
    /\ cached' = cached \cup {Node}
    /\ stack' = SetTop([Top EXCEPT !.isOpen = TRUE])
    /\ UNCHANGED <<badNames, phase, out, failed>>

OpenDirFailsEnds ==                                             \* mutant
    /\ phase = "walk" /\ Node \in Dirs \ cached /\ ~Top.isOpen
    /\ failed' = failed \cup {Node}
    /\ stack' = <<>>
    /\ phase' = "unmount"
    /\ UNCHANGED <<badNames, references, cached, out>>

\* exfat_opendir fails and puts the node back; open() logs and goes on as if
\* it had not.
OpenDirFails ==
    /\ phase = "walk" /\ Node \in Dirs \ (cached \cup badNames) /\ ~Top.isOpen
    /\ references' = Put(Get(references, Node), Node)
    /\ failed' = failed \cup {Node}
    /\ stack' = SetTop([Top EXCEPT !.isOpen = TRUE])
    /\ UNCHANGED <<badNames, phase, cached, out>>

\* exfat_readdir returns the next child, and the walk goes down to it.
ReadDir ==
    /\ phase = "walk" /\ Node \in Dirs \ badNames /\ Top.isOpen
    /\ Top.current < Len(Child(Node))
    /\ LET n == Child(Node)[Top.current + 1]
       IN  /\ references' = Get(references, n)
           /\ stack' = Append(SetTop([Top EXCEPT !.current = @ + 1]), Frame(n))
    /\ UNCHANGED <<badNames, phase, cached, out, failed>>

CloseDirLate ==                                                 \* mutant
    /\ phase = "walk" /\ Node \in Dirs /\ Top.isOpen
    /\ Top.current > Len(Child(Node))
    /\ Return(Put(references, Node))
    /\ UNCHANGED <<badNames, cached, out, failed>>

\* exfat_readdir returns NULL; ~ExfatNode calls exfat_closedir.
CloseDir ==
    /\ phase = "walk" /\ Node \in Dirs /\ Top.isOpen
    /\ Top.current = Len(Child(Node))
    /\ Return(Put(references, Node))
    /\ UNCHANGED <<badNames, cached, out, failed>>

\* ExfatNode::getName hands exfat_get_name a name that does not convert, or
\* whose UTF-8 does not fit EXFAT_NAME_MAX bytes: exfat_bug calls abort().
\* It is asked for the name of each file; of a directory, before each child;
\* of a directory that did not open; and of an entry that check_node rejects.
Abort ==
    /\ phase = "walk"
    /\ \/ Node \in Files \cap badNames
       \/ /\ Node \in Dirs \ cached /\ ~Top.isOpen
          /\ ({Node} \cup ToSet(Entries[Node])) \cap badNames # {}
       \/ /\ Node \in Dirs \cap badNames /\ Top.isOpen
          /\ Top.current < Len(Child(Node))
    /\ phase' = "aborted"
    /\ UNCHANGED <<badNames, stack, references, cached, out, failed>>

InMemory == {Root} \cup UNION {ToSet(Child(d)) : d \in cached}

\* exfat_unmount: the mount's reference is put, and reset_cache frees every
\* node, putting it until its count is 0.  A count below 0 goes the other way:
\* the loop spins down the whole range of int.
Unmount ==
    /\ phase = "unmount"
    /\ LET refs == Put(references, Root)
       IN  IF \E n \in InMemory : refs[n] < 0
             THEN /\ phase' = "spin"
                  /\ references' = refs
                  /\ UNCHANGED cached
             ELSE /\ phase' = "done"
                  /\ references' = [n \in Nodes |-> 0]
                  /\ cached' = {}
    /\ UNCHANGED <<badNames, stack, out, failed>>

WalkNext ==
    \/ ListFile \/ OpenDir \/ OpenDirFails \/ ReadDir \/ CloseDir
    \/ Abort \/ Unmount

WalkSpec == WalkInit /\ [][WalkNext]_walkVars /\ WF_walkVars(WalkNext)

-----------------------------------------------------------------------------
(* Properties                                                              *)

\* Who should hold a reference to n: the mount, the frame that reached it with
\* exfat_readdir, the frame that has it open.
Holders(n) ==
    (IF n = Root /\ phase # "done" THEN 1 ELSE 0)
    + Cardinality({k \in DOMAIN stack : k > 1 /\ stack[k].node = n})
    + Cardinality({k \in DOMAIN stack : stack[k].node = n /\ stack[k].isOpen
                                        /\ n \notin failed})

OnStack(n) == \E k \in DOMAIN stack : stack[k].node = n

\* Every node lies below the root once, and the frames follow the tree.
WalkTypeOK ==
    /\ badNames \in BadNameSets
    /\ phase \in {"walk", "unmount", "done", "spin", "aborted"}
    /\ references \in [Nodes -> Int]
    /\ cached \subseteq Dirs /\ failed \subseteq Dirs
    /\ out \in Seq(Files)
    /\ \A k \in DOMAIN stack :
         /\ stack[k].current \in 0 .. Len(Child(stack[k].node))
         /\ k > 1 =>
              \E c \in DOMAIN Child(stack[k - 1].node) :
                 /\ c = stack[k - 1].current
                 /\ stack[k].node = Child(stack[k - 1].node)[c]

\* The count of every node is the number of its holders, exactly, through the
\* whole recursion; each directory that failed to open has cost it one.
ReferencesAccounted ==
    phase \in {"walk", "unmount"} =>
        \A n \in Nodes :
            references[n] = Holders(n)
                            - (IF n \in failed /\ ~OnStack(n) THEN 1 ELSE 0)

\* The files below a node, as a reader of the medium would list them.
Below[n \in Nodes] ==
    IF n \in Files THEN <<n>>
    ELSE IF n \in failed THEN <<>>
    ELSE FlattenSeq([k \in DOMAIN Entries[n] |-> Below[Entries[n][k]]])

\* The list is every file with no failed directory above it, once, in the
\* order of the medium; one failure drops its own directory and nothing else.
ListedExactly == phase \in {"unmount", "done", "spin"} => out = Below[Root]

\* The walk and the unmounting end, unless a directory failed: then the loop
\* of reset_cache may be what does not; or a name keeps the walk from its end.
WalkEnds ==
    <>( \/ phase = "done"
        \/ phase = "spin" /\ failed # {}
        \/ phase = "aborted" /\ badNames # {})

\* The frames follow the tree, and no reference is lost or put twice on the way
\* (ExfatPartition::_getUnits, exfat_get_node, exfat_put_node).
WalkSound == WalkTypeOK /\ ReferencesAccounted
=============================================================================
