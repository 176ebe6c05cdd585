----------------------------- MODULE Allocation -----------------------------
(***************************************************************************)
(* How libexfat gives clusters to files and takes them back: cluster.c     *)
(* (exfat_truncate with grow_file, shrink_file and erase_range), reading   *)
(* and writing through them (io.c), and what reaches the medium when       *)
(* (exfat_flush_node, exfat_flush, exfat_unmount).                         *)
(*                                                                         *)
(* The library is single-threaded: a call runs to its end, but any read or *)
(* write of the medium in it may fail, and each failure leaves the steps   *)
(* before it done.  A step of the model ends where the next access to the  *)
(* medium may fail.  Sizes are in bytes, of CLUSTER_SIZE a cluster.        *)
(***************************************************************************)
EXTENDS Integers, FiniteSets

CONSTANTS
    Files,
    CMAP_SIZE,          \* ef->cmap.size: the clusters that the bitmap is read for
    CLUSTER_SIZE,
    Reserved,           \* clusters of the bitmap, the upcase table, the root
    Beyond,             \* what stands on the medium where a FAT cell would be
                        \* that is not in the FAT
    Media,              \* the media to begin with, which are sound
    Sizes,              \* bound: sizes and offsets the client asks for
    MaxCalls,           \* bound: calls of the client
    MaxFaults           \* bound: reads and writes that fail

\* The volume has cluster_count clusters, numbered from 2; readdir takes the two
\* off for the size of the bitmap, so that the last two of the volume are in no
\* bitmap: they are never given out, and free_cluster leaves them marked.
EXFAT_FIRST_DATA_CLUSTER == 2
cluster_count == CMAP_SIZE + 2
Clusters == EXFAT_FIRST_DATA_CLUSTER .. EXFAT_FIRST_DATA_CLUSTER + cluster_count - 1
Bits == EXFAT_FIRST_DATA_CLUSTER .. EXFAT_FIRST_DATA_CLUSTER + CMAP_SIZE - 1
Tail == Clusters \ Bits

\* 0, 0xfffffff6, 0xfffffff7 and 0xffffffff: what matters of the last three is
\* their order, and that they are larger than any cluster of the volume.  A
\* uint32_t, as the numbers and counts of clusters are, goes up to the last.
EXFAT_CLUSTER_FREE == 0
EXFAT_LAST_DATA_CLUSTER == EXFAT_FIRST_DATA_CLUSTER + cluster_count + 1
EXFAT_CLUSTER_BAD == EXFAT_LAST_DATA_CLUSTER + 1
EXFAT_CLUSTER_END == EXFAT_LAST_DATA_CLUSTER + 2
UINT32 == EXFAT_CLUSTER_END + 1
CLUSTER_INVALID(c) == c < EXFAT_FIRST_DATA_CLUSTER \/ c > EXFAT_LAST_DATA_CLUSTER

Cells == Clusters \cup {EXFAT_CLUSTER_FREE, EXFAT_CLUSTER_END}

NoEntry == [start |-> -1]
Entries == [start : Nat, size : Nat, contiguous : BOOLEAN, sound : BOOLEAN]
           \cup {NoEntry}

\* The clusters that bytes take, and what a uint32_t holds of that, or of the
\* index of the cluster a byte is in.
Needed(bytes) == (bytes + CLUSTER_SIZE - 1) \div CLUSTER_SIZE
bytes2clusters(bytes) == Needed(bytes) % UINT32
IndexOf(offset) == (offset \div CLUSTER_SIZE) % UINT32

\* exfat_next_cluster by a FAT, of a node or of its entry.
NextOn(table, n, c) ==
    IF c < EXFAT_FIRST_DATA_CLUSTER THEN 0
    ELSE IF n.contiguous THEN c + 1
    ELSE IF c \in Clusters THEN table[c] ELSE Beyond

\* check_node, which rejects the whole directory.
Acceptable(e) ==
    e # NoEntry => /\ e.sound
                   /\ e.size = 0 => e.start = EXFAT_CLUSTER_FREE /\ ~e.contiguous
                   /\ e.size > 0 => ~CLUSTER_INVALID(e.start)

\* The clusters of a file, in their order, as a medium has them.
ChainsOn(m, f) ==
    LET e == m.entry[f]
        count == IF e = NoEntry THEN 0 ELSE Needed(e.size)
    IN  {c \in [0 .. count - 1 -> m.used \ Reserved] :
            count > 0 =>
                /\ c[0] = e.start
                /\ \A i \in 0 .. count - 2 : NextOn(m.fat, e, c[i]) = c[i + 1]
                /\ e.contiguous \/ m.fat[c[count - 1]] = EXFAT_CLUSTER_END}

\* A volume nothing is wrong with: each used cluster belongs to one file.
SoundMedium(m) ==
    /\ m.fat \in [Clusters -> Nat] /\ m.entry \in [Files -> Entries]
    /\ Reserved \subseteq m.used /\ m.used \subseteq Clusters
    /\ \A f \in Files : Acceptable(m.entry[f]) /\ ChainsOn(m, f) # {}
    /\ \A f, g \in Files : \A c \in ChainsOn(m, f), d \in ChainsOn(m, g) :
          \A i \in DOMAIN c, j \in DOMAIN d : c[i] = d[j] => f = g /\ i = j
    /\ \A x \in m.used \ Reserved :
          \E f \in Files : \E c \in ChainsOn(m, f) : \E i \in DOMAIN c : c[i] = x

ASSUME AllocationAssumption ==
    /\ CMAP_SIZE \in Nat \ {0} /\ CLUSTER_SIZE \in Nat \ {0}
    /\ Reserved \subseteq Clusters
    /\ Beyond \in Cells
    /\ \A m \in Media : SoundMedium(m)
    /\ Sizes \subseteq Nat
    /\ MaxCalls \in Nat /\ MaxFaults \in Nat

VARIABLES
    fat,            \* the FAT, which is only on the medium
    entry,          \* [Files -> the INFO entry on the medium, or NoEntry]
    diskBmap,       \* the used clusters, by the bitmap on the medium
    clean,          \* EXFAT_STATE_MOUNTED is off
    node,           \* [Files -> exfat_node, or NoNode]
    bmap,           \* cmap.chunk: the used clusters
    bmapDirty,      \* cmap.dirty
    op,             \* the call that runs
    stale,          \* bytes not written since their cluster was given out
    calls,
    faults,
    hurt,           \* history: files of which an access failed in a call
    retried,        \* history: such a file was used again
    backward,       \* history: grow_file kept a file contiguous that went back
    wrapped,        \* history: a size was asked for that overflows the count
    ignored         \* history: exfat_unmount ignored that exfat_flush failed

medium == <<fat, entry, diskBmap, clean>>
memory == <<node, bmap, bmapDirty>>
history == <<hurt, retried, backward, wrapped, ignored>>
vars == <<medium, memory, op, stale, calls, faults, history>>

NoNode == [state |-> "absent"]
Idle == [pc |-> "idle"]

\* What a mount makes of an entry.
NodeOf(e) ==
    IF e = NoEntry THEN NoNode
    ELSE [state |-> "linked", start |-> e.start, size |-> e.size,
          contiguous |-> e.contiguous, dirty |-> FALSE,
          index |-> 0, cluster |-> e.start]

Init ==
    /\ \E m \in Media : fat = m.fat /\ entry = m.entry /\ diskBmap = m.used
    /\ clean = FALSE
    /\ node = [f \in Files |-> NodeOf(entry[f])]
    /\ bmap = diskBmap /\ bmapDirty = FALSE
    /\ op = Idle
    /\ stale = (Clusters \ diskBmap) \X (0 .. CLUSTER_SIZE - 1)
    /\ calls = 0 /\ faults = 0
    /\ hurt = {} /\ retried = FALSE /\ backward = FALSE /\ wrapped = FALSE
    /\ ignored = FALSE

-----------------------------------------------------------------------------
(* Reading the medium                                                      *)

\* exfat_next_cluster, if its read does not fail.
NextCluster(n, c) == NextOn(fat, n, c)

\* The clusters exfat_advance_cluster comes by on its way to index count: it
\* goes on from the last index it was asked for, unless that is past count.
Walk(n, count) ==
    LET from == IF n.index > count THEN 0 ELSE n.index
        next == [c \in Nat |-> NextCluster(n, c)]
        onward == [c \in Nat |-> IF CLUSTER_INVALID(c) THEN c ELSE next[c]]
        at[i \in from .. count] ==
            IF i = from THEN IF n.index > count THEN n.start ELSE n.cluster
            ELSE IF i = from + 1 THEN next[at[i - 1]] ELSE onward[at[i - 1]]
    IN  at

\* current - 1, which wraps at 0: an index past any chain.
Before(current) == IF current = 0 THEN EXFAT_CLUSTER_END ELSE current - 1

CanFault(n) == faults + n < MaxFaults
Outcomes(n, canFail) == {FALSE} \cup (IF canFail /\ CanFault(n) THEN {TRUE} ELSE {})

\* exfat_next_cluster: what it may return, and whether its read failed.
NextClusters(n, c) ==
    {[cluster |-> IF failed THEN EXFAT_CLUSTER_BAD ELSE NextCluster(n, c),
      failed |-> failed] :
        failed \in Outcomes(0, ~n.contiguous /\ c >= EXFAT_FIRST_DATA_CLUSTER)}

\* exfat_advance_cluster: the node it may leave, and whether a read failed.
Advanced(n, count) ==
    LET walk == Walk(n, count)
        first == CHOOSE i \in DOMAIN walk : \A j \in DOMAIN walk : i <= j
    IN  {[node |-> [n EXCEPT !.index = count,
                             !.cluster = IF failed THEN EXFAT_CLUSTER_BAD
                                         ELSE walk[count]],
          failed |-> failed] :
            failed \in Outcomes(0, /\ ~n.contiguous /\ first < count
                                   /\ walk[first] >= EXFAT_FIRST_DATA_CLUSTER)}

-----------------------------------------------------------------------------
(* The calls of the client                                                 *)

File == node[op.f]
SetFile(n) == node' = [node EXCEPT ![op.f] = n]

\* The accesses of a step that failed.
Failed(f, n) ==
    /\ faults' = faults + n
    /\ hurt' = IF n > 0 THEN hurt \cup {f} ELSE hurt
Count(failed) == IF failed THEN 1 ELSE 0
NoFault == UNCHANGED <<faults, hurt>>

\* More bytes than a uint32_t can count the clusters of.
Overflows(bytes) == Needed(bytes) >= UINT32

Call == op.pc = "idle" /\ calls < MaxCalls /\ calls' = calls + 1 /\ clean = FALSE
Use(f) == Call /\ retried' = (retried \/ f \in hurt)

Running(f, pc, then) ==
    [pc |-> pc, f |-> f, then |-> then, size |-> 0, erase |-> FALSE,
     boundary |-> 0, offset |-> 0, len |-> 0, left |-> 0, cluster |-> 0,
     current |-> 0, given |-> 0, full |-> FALSE, before |-> {}]

TruncateNoErase(f, size) ==   \* mutant: the new bytes are not erased
    /\ Use(f) /\ node[f].state = "linked"
    /\ op' = [Running(f, "truncate", "idle") EXCEPT !.size = size]
    /\ wrapped' = (wrapped \/ Overflows(size))
    /\ UNCHANGED <<medium, memory, stale, faults, hurt, backward, ignored>>

\* exfat_truncate, called with a reference that is held.  Only
\* exfat_generic_pwrite does not have the new bytes erased.
Truncate(f, size) ==
    /\ Use(f) /\ node[f].state = "linked"
    /\ op' = [Running(f, "truncate", "idle") EXCEPT !.size = size, !.erase = TRUE]
    /\ wrapped' = (wrapped \/ Overflows(size))
    /\ UNCHANGED <<medium, memory, stale, faults, hurt, backward, ignored>>

\* exfat_generic_pwrite.
Pwrite(f, offset, len) ==
    /\ Use(f) /\ node[f].state = "linked"
    /\ op' = [Running(f, "write", "write") EXCEPT !.offset = offset, !.len = len]
    /\ wrapped' = (wrapped \/ Overflows(offset + len))
    /\ UNCHANGED <<medium, memory, stale, faults, hurt, backward, ignored>>

\* exfat_cleanup_node, after exfat_unlink.
CleanupNode(f) ==
    /\ Use(f) /\ node[f].state = "unlinked"
    /\ op' = [Running(f, "truncate", "free") EXCEPT !.erase = TRUE]
    /\ UNCHANGED <<medium, memory, stale, faults, hurt, backward, wrapped, ignored>>

FreeNode ==
    /\ op.pc = "free"
    /\ SetFile(NoNode)
    /\ op' = Idle
    /\ UNCHANGED <<medium, bmap, bmapDirty, stale, calls, faults, history>>

\* exfat_generic_pread: where it leaves the pointer.  The time of access is
\* set unless the volume is mounted with noatime.
Pread(f, offset) ==
    /\ Use(f) /\ node[f].state = "linked" /\ offset < node[f].size
    /\ \E a \in Advanced(node[f], IndexOf(offset)), atime \in BOOLEAN :
         /\ atime => ~CLUSTER_INVALID(a.node.cluster)
         /\ node' = [node EXCEPT ![f] = [a.node EXCEPT !.dirty = @ \/ atime]]
         /\ Failed(f, Count(a.failed))
    /\ UNCHANGED <<medium, bmap, bmapDirty, op, stale, backward, wrapped, ignored>>

\* exfat_mknod and exfat_unlink, as far as clusters go.
Mknod(f) ==
    /\ Call /\ node[f].state = "absent"
    /\ entry' = [entry EXCEPT ![f] =
                    [start |-> EXFAT_CLUSTER_FREE, size |-> 0,
                     contiguous |-> FALSE, sound |-> TRUE]]
    /\ node' = [node EXCEPT ![f] = NodeOf(entry'[f])]
    /\ UNCHANGED <<fat, diskBmap, clean, bmap, bmapDirty, op, stale, faults, history>>

Unlink(f) ==
    /\ Call /\ node[f].state = "linked"
    /\ entry' = [entry EXCEPT ![f] = NoEntry]
    /\ node' = [node EXCEPT ![f].state = "unlinked"]
    /\ UNCHANGED <<fat, diskBmap, clean, bmap, bmapDirty, op, stale, faults, history>>

-----------------------------------------------------------------------------
(* exfat_truncate                                                          *)

ReturnRetries(ok) ==   \* mutant: pwrite goes on, whatever truncate returned
    op' = IF op.then = "free" THEN [op EXCEPT !.pc = "free"]
          ELSE IF op.then = "write" THEN [op EXCEPT !.pc = "write"]
          ELSE Idle

\* What follows when exfat_truncate returns: exfat_cleanup_node frees the node
\* even in case of error, exfat_generic_pwrite goes on if there was none.
Return(ok) ==
    op' = IF op.then = "free" THEN [op EXCEPT !.pc = "free"]
          ELSE IF op.then = "write" /\ ok THEN [op EXCEPT !.pc = "write"]
          ELSE Idle

Sized(c1, c2) ==
    IF c1 < c2 THEN "grow" ELSE IF c1 > c2 THEN "shrink" ELSE "erase"

ChainOf(n, count) ==
    LET next == [c \in Nat |-> NextCluster(n, c)]
        at[i \in 0 .. count] == IF i = 0 THEN n.start ELSE next[at[i - 1]]
    IN  [i \in 0 .. count - 1 |-> at[i]]

BeginTruncate ==
    /\ op.pc = "truncate"
    /\ LET c1 == bytes2clusters(File.size)
           c2 == bytes2clusters(op.size)
       IN  IF File.size = op.size THEN Return(TRUE)
           ELSE op' = [op EXCEPT !.pc = Sized(c1, c2), !.current = c1,
                                 !.left = IF c1 < c2 THEN c2 - c1 ELSE c1 - c2,
                                 !.given = 0,
                                 !.before = [used |-> bmap, chain |-> ChainOf(File, c1)]]
    /\ UNCHANGED <<medium, memory, stale, calls, faults, history>>

\* allocate_cluster: the first free cluster from hint on, or else the first.
Found(hint) ==
    LET h == IF hint \in Bits THEN hint ELSE EXFAT_FIRST_DATA_CLUSTER
        free == Bits \ bmap
        up == {c \in free : c >= h}
        least(S) == CHOOSE c \in S : \A d \in S : c <= d
    IN  IF up # {} THEN least(up)
        ELSE IF free # {} THEN least(free)
        ELSE EXFAT_CLUSTER_END

SetNext(table, n, current, next) ==
    IF n.contiguous \/ current \notin Clusters THEN table
    ELSE [table EXCEPT ![current] = next]

\* grow_file, up to its loop: the last cluster of the file, or its first.
GrowFile ==
    /\ op.pc = "grow" /\ File.start # EXFAT_CLUSTER_FREE
    /\ \E a \in Advanced(File, Before(op.current)) :
         /\ SetFile(a.node)
         /\ IF CLUSTER_INVALID(a.node.cluster) THEN Return(FALSE)
            ELSE op' = [op EXCEPT !.pc = "growing", !.cluster = a.node.cluster]
         /\ Failed(op.f, Count(a.failed))
    /\ UNCHANGED <<medium, bmap, bmapDirty, stale, calls, retried, backward, wrapped, ignored>>

GrowEmptyUncounted ==   \* mutant: the first cluster is not counted as allocated
    /\ op.pc = "grow" /\ File.start = EXFAT_CLUSTER_FREE /\ File.index = 0
    /\ LET first == Found(0)
       IN  IF CLUSTER_INVALID(first) THEN Return(FALSE) /\ UNCHANGED memory
           ELSE /\ bmap' = bmap \cup {first} /\ bmapDirty' = TRUE
                /\ SetFile([File EXCEPT !.start = first, !.cluster = first,
                                        !.contiguous = TRUE])
                /\ op' = [op EXCEPT !.pc = "growing", !.cluster = first,
                                    !.left = @ - 1]
    /\ UNCHANGED <<medium, stale, calls, faults, history>>

GrowEmpty ==
    /\ op.pc = "grow" /\ File.start = EXFAT_CLUSTER_FREE /\ File.index = 0
    /\ LET first == Found(0)
       IN  IF CLUSTER_INVALID(first) THEN Return(FALSE) /\ UNCHANGED memory
           ELSE /\ bmap' = bmap \cup {first} /\ bmapDirty' = TRUE
                /\ SetFile([File EXCEPT !.start = first, !.cluster = first,
                                        !.contiguous = TRUE])
                /\ op' = [op EXCEPT !.pc = "growing", !.cluster = first,
                                    !.left = @ - 1, !.given = 1]
    /\ UNCHANGED <<medium, stale, calls, faults, history>>

\* A pointer that was left behind: nothing is allocated, and 0 is returned.
GrowNot ==
    /\ op.pc = "grow" /\ File.start = EXFAT_CLUSTER_FREE /\ File.index # 0
    /\ op' = [op EXCEPT !.pc = "erase"]
    /\ UNCHANGED <<medium, memory, stale, calls, faults, history>>

\* One more cluster.  The loop's test for what follows previous is as the code
\* has it: a file stays contiguous only if it grew backwards.
Keeps(n, next) == n.contiguous /\ next = op.cluster - 1
NoncontiguousShort(n, last) ==   \* mutant: one cell short
    [c \in Clusters |-> IF c \in n.start .. last - 2 THEN c + 1 ELSE fat[c]]
Noncontiguous(n, last) ==
    [c \in Clusters |-> IF c \in n.start .. last - 1 THEN c + 1 ELSE fat[c]]

Grow ==
    /\ op.pc = "growing" /\ op.left > 0
    /\ LET next == Found(op.cluster + 1)
           keeps == Keeps(File, next)
           n == IF File.contiguous /\ ~keeps
                THEN [File EXCEPT !.contiguous = FALSE, !.dirty = TRUE] ELSE File
           table == IF File.contiguous /\ ~keeps
                    THEN Noncontiguous(File, op.cluster) ELSE fat
       IN  /\ ~CLUSTER_INVALID(next)
           /\ bmap' = bmap \cup {next} /\ bmapDirty' = TRUE
           /\ backward' = (backward \/ keeps)
           /\ SetFile(n)
           /\ \E fails \in Outcomes(0, ~n.contiguous) :
                /\ IF fails THEN Return(FALSE) /\ fat' = table
                   ELSE /\ fat' = SetNext(table, n, op.cluster, next)
                        /\ op' = [op EXCEPT !.cluster = next, !.left = @ - 1,
                                            !.given = @ + 1]
                /\ Failed(op.f, Count(fails))
    /\ UNCHANGED <<entry, diskBmap, clean, stale, calls, retried, wrapped, ignored>>

\* make_noncontiguous fails at one of its writes.
GrowConversionFails ==
    /\ op.pc = "growing" /\ op.left > 0 /\ File.contiguous /\ CanFault(0)
    /\ LET next == Found(op.cluster + 1)
       IN  /\ ~CLUSTER_INVALID(next) /\ ~Keeps(File, next)
           /\ bmap' = bmap \cup {next} /\ bmapDirty' = TRUE
    /\ \E c \in File.start .. op.cluster - 1 : fat' = Noncontiguous(File, c)
    /\ Return(FALSE)
    /\ Failed(op.f, 1)
    /\ UNCHANGED <<entry, diskBmap, clean, node, stale, calls, retried, backward, wrapped, ignored>>

\* No space: what was allocated is taken back with shrink_file.
GrowFull ==
    /\ op.pc = "growing" /\ op.left > 0
    /\ CLUSTER_INVALID(Found(op.cluster + 1))
    /\ IF op.given = 0 THEN Return(FALSE)
       ELSE op' = [op EXCEPT !.pc = "shrink", !.full = TRUE,
                             !.current = @ + op.given, !.left = op.given]
    /\ UNCHANGED <<medium, memory, stale, calls, faults, history>>

GrowDone ==
    /\ op.pc = "growing" /\ op.left = 0
    /\ \E fails \in Outcomes(0, ~File.contiguous) :
         /\ IF fails THEN Return(FALSE) /\ UNCHANGED fat
            ELSE /\ fat' = SetNext(fat, File, op.cluster, EXFAT_CLUSTER_END)
                 /\ op' = [op EXCEPT !.pc = "erase"]
         /\ Failed(op.f, Count(fails))
    /\ UNCHANGED <<entry, diskBmap, clean, memory, stale, calls, retried, backward, wrapped, ignored>>

\* shrink_file, up to its loop: the file is cropped.  exfat_bug ends the process.
ShrinkAborts ==
    /\ op.pc = "shrink" /\ File.start = EXFAT_CLUSTER_FREE
    /\ op' = [pc |-> "aborted"]
    /\ UNCHANGED <<medium, memory, stale, calls, faults, history>>

Rewound(n) == [n EXCEPT !.index = 0, !.cluster = n.start]

Crop ==
    /\ op.pc = "shrink" /\ File.start # EXFAT_CLUSTER_FREE /\ op.current > op.left
    /\ \E a \in Advanced(File, op.current - op.left - 1) :
         LET last == a.node.cluster
         IN  \/ /\ CLUSTER_INVALID(last)
                /\ SetFile(a.node) /\ Return(FALSE)
                /\ Failed(op.f, Count(a.failed))
                /\ UNCHANGED fat
             \/ /\ ~CLUSTER_INVALID(last)
                /\ \E next \in NextClusters(File, last) :
                   \E fails \in Outcomes(Count(next.failed), ~File.contiguous) :
                     /\ Failed(op.f, Count(next.failed) + Count(fails))
                     /\ IF fails THEN SetFile(a.node) /\ Return(FALSE) /\ UNCHANGED fat
                        ELSE /\ SetFile(Rewound(a.node))
                             /\ fat' = SetNext(fat, File, last, EXFAT_CLUSTER_END)
                             /\ op' = [op EXCEPT !.pc = "freeing",
                                                 !.cluster = next.cluster]
    /\ UNCHANGED <<entry, diskBmap, clean, bmap, bmapDirty, stale, calls, retried, backward, wrapped, ignored>>

CropAll ==
    /\ op.pc = "shrink" /\ File.start # EXFAT_CLUSTER_FREE /\ op.current = op.left
    /\ SetFile(Rewound([File EXCEPT !.start = EXFAT_CLUSTER_FREE, !.dirty = TRUE]))
    /\ op' = [op EXCEPT !.pc = "freeing", !.cluster = File.start]
    /\ UNCHANGED <<medium, bmap, bmapDirty, stale, calls, faults, history>>

FreeClusterClean ==   \* mutant: the bitmap is not marked as dirty
    /\ op.pc = "freeing" /\ op.left > 0 /\ ~CLUSTER_INVALID(op.cluster)
    /\ \E next \in NextClusters(File, op.cluster) :
         /\ Failed(op.f, Count(next.failed))
         /\ fat' = SetNext(fat, File, op.cluster, EXFAT_CLUSTER_FREE)
         /\ bmap' = bmap \ ({op.cluster} \cap Bits)
         /\ stale' = stale \cup (({op.cluster} \cap Clusters) \X (0 .. CLUSTER_SIZE - 1))
         /\ op' = [op EXCEPT !.cluster = next.cluster, !.left = @ - 1]
    /\ UNCHANGED <<entry, diskBmap, clean, node, bmapDirty, calls, retried, backward, wrapped, ignored>>

\* The loop of shrink_file, with free_cluster.
FreeCluster ==
    /\ op.pc = "freeing" /\ op.left > 0 /\ ~CLUSTER_INVALID(op.cluster)
    /\ \E next \in NextClusters(File, op.cluster) :
       \E fails \in Outcomes(Count(next.failed), ~File.contiguous) :
         /\ Failed(op.f, Count(next.failed) + Count(fails))
         /\ IF fails THEN Return(FALSE) /\ UNCHANGED <<fat, bmap, bmapDirty, stale>>
            ELSE /\ fat' = SetNext(fat, File, op.cluster, EXFAT_CLUSTER_FREE)
                 /\ bmap' = bmap \ ({op.cluster} \cap Bits)
                 /\ bmapDirty' = (bmapDirty \/ op.cluster \in Bits)
                 /\ stale' = stale \cup (({op.cluster} \cap Clusters) \X (0 .. CLUSTER_SIZE - 1))
                 /\ op' = [op EXCEPT !.cluster = next.cluster, !.left = @ - 1]
    /\ UNCHANGED <<entry, diskBmap, clean, node, calls, retried, backward, wrapped, ignored>>

FreeInvalid ==
    /\ op.pc = "freeing" /\ op.left > 0 /\ CLUSTER_INVALID(op.cluster)
    /\ Return(FALSE)
    /\ UNCHANGED <<medium, memory, stale, calls, faults, history>>

ShrinkDone ==
    /\ op.pc = "freeing" /\ op.left = 0
    /\ IF op.full THEN Return(FALSE) ELSE op' = [op EXCEPT !.pc = "erase"]
    /\ UNCHANGED <<medium, memory, stale, calls, faults, history>>

\* erase_range: the rest of the cluster begin is in, then whole clusters.
Bytes(c, from, to) == {c} \X (from .. to - 1)
CanErase == op.erase /\ File.size < op.size

Erase ==
    /\ op.pc = "erase" /\ CanErase
    /\ LET begin == File.size
           boundary == (begin \div CLUSTER_SIZE + 1) * CLUSTER_SIZE
           upTo == IF boundary < op.size THEN boundary ELSE op.size
       IN  \E a \in Advanced(File, IndexOf(begin)) :
           \E fails \in Outcomes(Count(a.failed), ~CLUSTER_INVALID(a.node.cluster)) :
             /\ SetFile(a.node)
             /\ Failed(op.f, Count(a.failed) + Count(fails))
             /\ IF CLUSTER_INVALID(a.node.cluster) \/ fails
                THEN Return(FALSE) /\ UNCHANGED stale
                ELSE /\ stale' = stale \ Bytes(a.node.cluster, begin % CLUSTER_SIZE,
                                               upTo - boundary + CLUSTER_SIZE)
                     /\ op' = [op EXCEPT !.pc = "erasing", !.boundary = boundary,
                                         !.cluster = a.node.cluster]
    /\ UNCHANGED <<medium, bmap, bmapDirty, calls, retried, backward, wrapped, ignored>>

EraseClusterOneMore ==   \* mutant: the cluster that begins at the end as well
    /\ op.pc = "erasing" /\ op.boundary <= op.size
    /\ \E next \in NextClusters(File, op.cluster) :
         /\ Failed(op.f, Count(next.failed))
         /\ IF CLUSTER_INVALID(next.cluster)
            THEN op' = [pc |-> "aborted"] /\ UNCHANGED stale
            ELSE /\ stale' = stale \ Bytes(next.cluster, 0, CLUSTER_SIZE)
                 /\ op' = [op EXCEPT !.cluster = next.cluster,
                                     !.boundary = @ + CLUSTER_SIZE]
    /\ UNCHANGED <<medium, memory, calls, retried, backward, wrapped, ignored>>

\* The cluster cannot be invalid, says the code, and ends the process if it is.
EraseCluster ==
    /\ op.pc = "erasing" /\ op.boundary < op.size
    /\ \E next \in NextClusters(File, op.cluster) :
       \E fails \in Outcomes(Count(next.failed), ~CLUSTER_INVALID(next.cluster)) :
         /\ Failed(op.f, Count(next.failed) + Count(fails))
         /\ IF CLUSTER_INVALID(next.cluster)
            THEN op' = [pc |-> "aborted"] /\ UNCHANGED stale
            ELSE IF fails THEN Return(FALSE) /\ UNCHANGED stale
            ELSE /\ stale' = stale \ Bytes(next.cluster, 0, CLUSTER_SIZE)
                 /\ op' = [op EXCEPT !.cluster = next.cluster,
                                     !.boundary = @ + CLUSTER_SIZE]
    /\ UNCHANGED <<medium, memory, calls, retried, backward, wrapped, ignored>>

\* The end of exfat_truncate.
Resize ==
    /\ \/ op.pc = "erase" /\ ~CanErase
       \/ op.pc = "erasing" /\ op.boundary >= op.size
    /\ SetFile([File EXCEPT !.size = op.size, !.dirty = TRUE])
    /\ Return(TRUE)
    /\ UNCHANGED <<medium, bmap, bmapDirty, stale, calls, faults, history>>

-----------------------------------------------------------------------------
(* exfat_generic_pwrite                                                    *)

BeginWrite ==
    /\ op.pc = "write"
    /\ LET end == op.offset + op.len
           truncates(size, erase) ==
               /\ op' = [op EXCEPT !.pc = "truncate", !.size = size, !.erase = erase]
               /\ NoFault /\ UNCHANGED node
       IN  IF op.offset > File.size THEN truncates(op.offset, TRUE)
           ELSE IF end > File.size THEN truncates(end, FALSE)
           ELSE IF op.len = 0 THEN op' = Idle /\ NoFault /\ UNCHANGED node
           ELSE \E a \in Advanced(File, IndexOf(op.offset)) :
                  /\ SetFile(a.node)
                  /\ op' = IF CLUSTER_INVALID(a.node.cluster) THEN Idle
                           ELSE [op EXCEPT !.pc = "writing", !.left = op.len,
                                           !.offset = @ % CLUSTER_SIZE,
                                           !.cluster = a.node.cluster]
                  /\ Failed(op.f, Count(a.failed))
    /\ UNCHANGED <<medium, bmap, bmapDirty, stale, calls, retried, backward, wrapped, ignored>>

WriteCluster ==
    /\ op.pc = "writing" /\ op.left > 0
    /\ LET lsize == IF CLUSTER_SIZE - op.offset < op.left
                    THEN CLUSTER_SIZE - op.offset ELSE op.left
       IN  \E next \in NextClusters(File, op.cluster) :
           \E fails \in Outcomes(Count(next.failed), TRUE) :
             /\ Failed(op.f, Count(next.failed) + Count(fails))
             /\ IF fails \/ CLUSTER_INVALID(op.cluster)
                THEN op' = Idle /\ UNCHANGED stale
                ELSE /\ stale' = stale \ Bytes(op.cluster, op.offset, op.offset + lsize)
                     /\ op' = [op EXCEPT !.offset = 0, !.left = @ - lsize,
                                         !.cluster = next.cluster]
    /\ UNCHANGED <<medium, memory, calls, retried, backward, wrapped, ignored>>

WriteDone ==
    /\ op.pc = "writing" /\ op.left = 0
    /\ SetFile([File EXCEPT !.dirty = TRUE])
    /\ op' = Idle
    /\ UNCHANGED <<medium, bmap, bmapDirty, stale, calls, faults, history>>

-----------------------------------------------------------------------------
(* What reaches the medium                                                 *)

InfoOf(n) ==
    [start |-> n.start, size |-> n.size,
     contiguous |-> n.size # 0 /\ n.contiguous, sound |-> TRUE]

\* exfat_flush: the bitmap.
Flushed(failed) ==
    IF failed \/ ~bmapDirty THEN UNCHANGED <<diskBmap, bmapDirty>>
    ELSE diskBmap' = bmap /\ bmapDirty' = FALSE

Flush ==
    /\ Call
    /\ \E fails \in Outcomes(0, bmapDirty) :
         Flushed(fails) /\ faults' = faults + Count(fails)
    /\ UNCHANGED <<fat, entry, clean, node, bmap, op, stale, history>>

\* exfat_flush_node: the first entry of the set carries the checksum, and is
\* written before the second.
FlushNode(f) ==
    /\ Call /\ node[f].state = "linked" /\ node[f].dirty
    /\ entry' = [entry EXCEPT ![f] = InfoOf(node[f])]
    /\ node' = [node EXCEPT ![f].dirty = FALSE]
    /\ \E fails \in Outcomes(0, bmapDirty) :
         Flushed(fails) /\ faults' = faults + Count(fails)
    /\ UNCHANGED <<fat, clean, bmap, op, stale, history>>

FlushNodeFails(f) ==
    /\ Call /\ node[f].state = "linked" /\ node[f].dirty /\ CanFault(0)
    /\ \E sound \in {entry[f].sound, FALSE} :
         entry' = [entry EXCEPT ![f].sound = sound]
    /\ Failed(f, 1)
    /\ UNCHANGED <<fat, diskBmap, clean, memory, op, stale, retried, backward, wrapped, ignored>>

Dirty == {f \in Files : node[f].state = "linked" /\ node[f].dirty}

\* exfat_unmount.  The client has cleaned up what it unlinked.
Unmount ==
    /\ Call /\ \A f \in Files : node[f].state # "unlinked"
    /\ entry' = [f \in Files |-> IF f \in Dirty THEN InfoOf(node[f]) ELSE entry[f]]
    /\ \E fails \in Outcomes(0, bmapDirty) :
         /\ diskBmap' = IF fails \/ ~bmapDirty THEN diskBmap ELSE bmap
         /\ ignored' = (ignored \/ fails)
         /\ faults' = faults + Count(fails)
    /\ node' = [f \in Files |-> NoNode] /\ bmap' = {} /\ bmapDirty' = FALSE
    /\ clean' = TRUE
    /\ UNCHANGED <<fat, op, stale, hurt, retried, backward, wrapped>>

\* A node cannot be flushed: exfat_flush_nodes gives up, and reset_cache finds
\* a dirty node.
UnmountAborts ==
    /\ Call /\ \A f \in Files : node[f].state # "unlinked"
    /\ CanFault(0)
    /\ \E f \in Dirty :
       \E flushed \in SUBSET (Dirty \ {f}) :
       \E sound \in {entry[f].sound, FALSE} :
         /\ entry' = [g \in Files |-> IF g \in flushed THEN InfoOf(node[g])
                                      ELSE IF g = f THEN [entry[f] EXCEPT !.sound = sound]
                                      ELSE entry[g]]
         /\ diskBmap' \in {diskBmap} \cup (IF bmapDirty THEN {bmap} ELSE {})
         /\ Failed(f, 1)
    /\ op' = [pc |-> "aborted"]
    /\ UNCHANGED <<fat, clean, memory, stale, retried, backward, wrapped, ignored>>

Mount ==
    /\ clean /\ calls < MaxCalls /\ calls' = calls + 1
    /\ \A f \in Files : Acceptable(entry[f])
    /\ node' = [f \in Files |-> NodeOf(entry[f])]
    /\ bmap' = diskBmap /\ bmapDirty' = FALSE
    /\ clean' = FALSE
    /\ UNCHANGED <<fat, entry, diskBmap, op, stale, faults, history>>

-----------------------------------------------------------------------------
(* exfat_find_used_sectors: the next range of used clusters behind b.  The *)
(* search ends at cluster_count, which is two less than the number behind  *)
(* the last cluster: it looks at all that the bitmap has, and a range that *)
(* reaches its end is given one cluster more.  The first range begins with *)
(* sector 0, before any cluster, because the caller began with it.         *)

NoRange == [a |-> 0]
FindUsed(used, b) ==
    LET behind == {c \in used : b < c /\ c < cluster_count}
        least(S) == CHOOSE c \in S : \A d \in S : c <= d
        a == least(behind)
        free == {c \in a .. cluster_count - 1 : c \notin used}
    IN  IF behind = {} THEN NoRange
        ELSE [a |-> a, b |-> IF free = {} THEN cluster_count ELSE least(free) - 1]

UsedRanges(used) ==
    LET next[b \in Nat] == LET r == FindUsed(used, b)
                           IN  IF r = NoRange THEN {} ELSE {r} \cup next[r.b]
        first == FindUsed(used, EXFAT_FIRST_DATA_CLUSTER - 1)
    IN  IF first = NoRange THEN {} ELSE {[first EXCEPT !.a = 0]} \cup next[first.b]

-----------------------------------------------------------------------------
Steps ==
    \/ BeginTruncate \/ GrowFile \/ GrowEmpty \/ GrowNot \/ Grow
    \/ GrowConversionFails \/ GrowFull \/ GrowDone
    \/ ShrinkAborts \/ Crop \/ CropAll \/ FreeCluster \/ FreeInvalid \/ ShrinkDone
    \/ Erase \/ EraseCluster \/ Resize
    \/ BeginWrite \/ WriteCluster \/ WriteDone \/ FreeNode

Calls ==
    \/ \E f \in Files :
         \/ \E size \in Sizes : Truncate(f, size)
         \/ \E offset \in Sizes, len \in Sizes : Pwrite(f, offset, len)
         \/ \E offset \in Sizes : Pread(f, offset)
         \/ CleanupNode(f) \/ Mknod(f) \/ Unlink(f)
         \/ FlushNode(f) \/ FlushNodeFails(f)
    \/ Flush \/ Unmount \/ UnmountAborts \/ Mount

Next == Steps \/ Calls

Spec == Init /\ [][Next]_vars
FairSpec == Spec /\ WF_vars(Steps)

-----------------------------------------------------------------------------
(* Properties                                                              *)

Nodes == [state : {"linked", "unlinked"}, start : Nat, size : Nat,
          contiguous : BOOLEAN, dirty : BOOLEAN,
          index : Nat, cluster : Nat] \cup {NoNode}

\* Each variable has its type; in particular no bit is set outside the volume,
\* whatever failed and was tried again.
TypeOK ==
    /\ fat \in [Clusters -> Nat]
    /\ \A f \in Files : entry[f] \in Entries /\ node[f] \in Nodes
    /\ bmap \subseteq Clusters /\ diskBmap \subseteq Clusters
    /\ stale \subseteq Clusters \X (0 .. CLUSTER_SIZE - 1)
    /\ calls \in 0 .. MaxCalls /\ faults \in 0 .. MaxFaults
    /\ hurt \subseteq Files
    /\ {clean, bmapDirty, retried, backward, wrapped, ignored} \subseteq BOOLEAN

\* A call that fails may leave its file with a size that its clusters do not
\* make up, or with a pointer that is none, and the next call on it goes on
\* from there; a file that grew backwards is not where its flag says; a size of
\* 2^32 clusters or more is one whose clusters are not counted, and not given
\* out; and an unmount that could not write the bitmap says nothing of it.  After
\* any of these, clusters of other files may be taken for a file's own.
Trusted == ~retried /\ ~backward /\ ~wrapped /\ ~ignored

Resting(f) == node[f].state # "absent" /\ (op.pc # "idle" => op.f # f)
Chain(f) == ChainOf(node[f], Needed(node[f].size))
Owned(f) == {Chain(f)[i] : i \in DOMAIN Chain(f)}
Sound == {f \in Files \ hurt : op.pc # "aborted" /\ Resting(f)}

\* A file at rest has as many clusters as its size asks for, each its own and
\* marked as used, with the end mark behind them; and whatever fails in a call
\* on one file does not touch those of another.
ChainsOwned ==
    Trusted => \A f \in Sound :
        /\ Owned(f) \subseteq bmap \ Reserved
        /\ Cardinality(Owned(f)) = Needed(node[f].size)
        /\ \A g \in Sound \ {f} : Owned(f) \cap Owned(g) = {}
        /\ (node[f].size > 0 /\ ~node[f].contiguous) =>
               fat[Chain(f)[Needed(node[f].size) - 1]] = EXFAT_CLUSTER_END

\* Between calls, if nothing failed, what the files have is in use, and whatever
\* is in use belongs to a file - unless it is one of the two clusters that
\* free_cluster does not take back.
NothingLost ==
    Trusted /\ hurt = {} /\ op.pc = "idle" /\ ~clean =>
        LET owned == Reserved \cup UNION {Owned(f) : f \in Sound}
        IN  owned \subseteq bmap /\ bmap \ owned \subseteq Tail

\* A write goes to the file it is for.
WritesOwn ==
    /\ Trusted /\ op.pc \in {"erasing", "writing"}
    /\ op.pc = "writing" => op.left > 0
    /\ op.f \notin hurt
    => \A f \in Sound : op.cluster \in bmap \ (Reserved \cup Owned(f))

\* What a file shows was written to it, or erased, since it got its clusters:
\* no byte of a deleted file comes back.
NoStaleBytes ==
    Trusted => \A f \in Sound : \A i \in 0 .. node[f].size - 1 :
        <<Chain(f)[i \div CLUSTER_SIZE], i % CLUSTER_SIZE>> \notin stale

\* A file that could not grow for lack of space is as it was, and so is the
\* bitmap.
NoSpaceRestores ==
    Trusted /\ op.pc = "freeing" /\ op.left = 0 /\ op.full /\ op.f \notin hurt =>
        /\ bmap = op.before.used
        /\ ChainOf(File, Needed(File.size)) = op.before.chain

\* The pointer kept from one call to the next is where its index says.
PointerExact ==
    Trusted => \A f \in Sound :
        LET n == node[f] IN
        /\ n.start = EXFAT_CLUSTER_FREE => n.index = 0
        /\ n.index < Needed(n.size) => n.cluster = Chain(f)[n.index]

\* A volume that is marked as clean is sound on the medium: its entries pass
\* check_node, their clusters are their own, and the bitmap has these and no
\* others, but for what free_cluster does not take back - as long as no access
\* failed, the flush of the bitmap included.
CleanIsSound ==
    clean /\ Trusted /\ hurt = {} =>
        LET chain(f) == IF entry[f] = NoEntry THEN {}
                        ELSE LET n == NodeOf(entry[f])
                                 all == ChainOf(n, Needed(n.size))
                             IN  {all[i] : i \in DOMAIN all}
            owned == Reserved \cup UNION {chain(f) : f \in Files}
        IN  /\ \A f \in Files : Acceptable(entry[f])
            /\ \A f, g \in Files : f # g => chain(f) \cap chain(g) = {}
            /\ owned \subseteq diskBmap /\ diskBmap \ owned \subseteq Tail

\* exfat_bug does not end the process unless an access failed, a file grew
\* backwards, or a size was asked for whose clusters a uint32_t does not count:
\* erase_range then goes on behind the end of the file, where a comment says
\* that the cluster cannot be invalid.
AbortsOnlyIfFailed == op.pc = "aborted" => faults > 0 \/ backward \/ wrapped

\* The entry of a file whose accesses did not fail is one that check_node takes.
EntriesAcceptable == Trusted => \A f \in Files \ hurt : Acceptable(entry[f])

\* The ranges that the scan of the bitmap finds hold every used cluster of it,
\* and of the free ones only those before the first used one, which the first
\* range begins before.  Without a used cluster there is no range; and none goes
\* further than one cluster behind those of the bitmap.
ScanIsExact ==
    LET shown == UNION {r.a .. r.b : r \in UsedRanges(bmap)}
        used == bmap \cap Bits
        before == {c \in Bits : \A x \in used : c < x}
    IN  /\ used = {} => shown = {}
        /\ used # {} => shown \cap Bits = used \cup before
        /\ shown \subseteq 0 .. cluster_count

\* Every call ends.
CallEnds == (op.pc \notin {"idle", "aborted"}) ~> (op.pc \in {"idle", "aborted"})

\* The clusters of every file are its own, found where its pointer says, and
\* none falls between the files.
ClustersAccounted == TypeOK /\ ChainsOwned /\ PointerExact /\ NothingLost

\* What a file shows is its own: nobody else wrote there, nothing of a deleted
\* file is left there.
BytesOwn == WritesOwn /\ NoStaleBytes

\* What a call answers is so: ENOSPC that nothing was taken, the scan of the
\* bitmap that these and no others are in use.
AnswersExact == NoSpaceRestores /\ ScanIsExact

\* What reaches the medium fits together, at any time for an entry and for the
\* volume as a whole once it is marked as clean.
MediumSound == EntriesAcceptable /\ CleanIsSound
=============================================================================
