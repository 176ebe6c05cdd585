---------------------------- MODULE ClusterChain ----------------------------
(***************************************************************************)
(* Where a file's content lies: ExfatNode::getOffsets following the        *)
(* cluster chain of a node with exfat_next_cluster and exfat_c2o.  The     *)
(* medium is damaged: an entry of the FAT may be unreadable, and a         *)
(* readable one may say anything.                                          *)
(***************************************************************************)
EXTENDS Integers, Sequences

CONSTANTS
    HeapEnd,        \* the last cluster of the heap
    LastData,       \* EXFAT_LAST_DATA_CLUSTER
    ClusterSize,
    HeapStart,      \* byte offset of the first cluster on the partition
    MaxSize,        \* bound: the longest file
    Wrap            \* numbers in a uint64_t

EXFAT_CLUSTER_FREE == 0
EXFAT_FIRST_DATA_CLUSTER == 2
EXFAT_CLUSTER_BAD == LastData + 1
EXFAT_CLUSTER_END == LastData + 2
Clusters == 0 .. EXFAT_CLUSTER_END      \* every value of a cluster_t
Heap == EXFAT_FIRST_DATA_CLUSTER .. HeapEnd

ASSUME SizesAssumption ==
    /\ HeapEnd \in Nat /\ LastData \in Nat /\ HeapEnd <= LastData
    /\ LastData >= EXFAT_FIRST_DATA_CLUSTER
    /\ ClusterSize \in Nat \ {0} /\ HeapStart \in Nat \ {0}
    /\ MaxSize \in Nat
    /\ Wrap \in Nat /\ Wrap > MaxSize

CLUSTER_INVALID(c) == c < EXFAT_FIRST_DATA_CLUSTER \/ c > LastData

Node == [start : Clusters, size : 0 .. MaxSize, contiguous : BOOLEAN]

\* What check_node lets into a directory listing.
CheckNode(n) ==
    /\ n.size = 0 => n.start = EXFAT_CLUSTER_FREE /\ ~n.contiguous
    /\ n.size > 0 => ~CLUSTER_INVALID(n.start)

-----------------------------------------------------------------------------
VARIABLES
    node,       \* m_node
    fat,        \* what the FAT of the medium says of each heap cluster
    pc,         \* "first", "loop", "done"
    next, i, out,
    unread      \* history: positions whose link could not be read

vars == <<node, fat, pc, next, i, out, unread>>

Init ==
    /\ node \in {n \in Node : CheckNode(n)}
    /\ fat \in [Heap -> Clusters]
    /\ pc = "first"
    /\ next = 0 /\ i = 0 /\ out = <<>> /\ unread = {}

\* bound: MaxSize is below 2^63, and 2^31 clusters, so that the conversion to an
\* off_t and the int that counts clusters change nothing.
CalcNumClusters ==
    IF node.size % ClusterSize # 0 THEN node.size \div ClusterSize + 1
                                   ELSE node.size \div ClusterSize

\* uint64_t: 0 - 1 wraps.
calc_clusters == (CalcNumClusters - 1) % Wrap

\* exfat_c2o; cluster numbers below 2 have no place on the medium.
ClusterToOffset(c) ==
    IF c < EXFAT_FIRST_DATA_CLUSTER THEN 0
    ELSE HeapStart + (c - EXFAT_FIRST_DATA_CLUSTER) * ClusterSize

\* What exfat_next_cluster may return.  Beyond the FAT it reads whatever lies
\* there, or nothing at all, and then returns a variable it has not set.
NextCluster(c) ==
    IF c < EXFAT_FIRST_DATA_CLUSTER THEN {EXFAT_CLUSTER_FREE}
    ELSE IF node.contiguous THEN {(c + 1) % (EXFAT_CLUSTER_END + 1)}
    ELSE IF c \in Heap THEN {fat[c], EXFAT_CLUSTER_BAD}
    ELSE Clusters

Lost == [offset |-> 0, size |-> 0]

First ==
    /\ pc = "first"
    /\ next' = node.start
    /\ out' = <<[offset |-> ClusterToOffset(node.start), size |-> ClusterSize]>>
    /\ pc' = IF ClusterToOffset(node.start) = 0 THEN "done" ELSE "loop"
    /\ UNCHANGED <<node, fat, i, unread>>

\* One round of the loop over a link that gives a cluster number.
Follow ==
    /\ pc = "loop" /\ i < calc_clusters
    /\ next' \in NextCluster(next) \ {EXFAT_CLUSTER_BAD}
    /\ out' = Append(out, [offset |-> ClusterToOffset(next'),
                           size |-> ClusterSize])
    /\ i' = i + 1
    /\ UNCHANGED <<node, fat, pc, unread>>

LoseChainGoesOn ==                                              \* mutant
    /\ pc = "loop" /\ i < calc_clusters
    /\ EXFAT_CLUSTER_BAD \in NextCluster(next)
    /\ out' = Append(out, Lost)
    /\ i' = i + 1
    /\ unread' = unread \cup {i + 1}
    /\ UNCHANGED <<node, fat, pc, next>>

LoseChainRetries ==                                             \* mutant
    /\ pc = "loop" /\ i < calc_clusters
    /\ EXFAT_CLUSTER_BAD \in NextCluster(next)
    /\ UNCHANGED vars

\* exfat_next_cluster gives EXFAT_CLUSTER_BAD: the entry cannot be read, or
\* marks a bad cluster.
LoseChain ==
    /\ pc = "loop" /\ i < calc_clusters
    /\ EXFAT_CLUSTER_BAD \in NextCluster(next)
    /\ out' = Append(out, Lost)
    /\ unread' = unread \cup {i + 1}
    /\ pc' = "done"
    /\ UNCHANGED <<node, fat, next, i>>

FixSizeOfNext ==                                                \* mutant
    /\ pc = "loop" /\ i >= calc_clusters
    /\ out' = IF node.size % ClusterSize = 0 THEN out
              ELSE [out EXCEPT ![i].size = node.size % ClusterSize]
    /\ pc' = "done"
    /\ UNCHANGED <<node, fat, next, i, unread>>

\* The loop is over: out[calc_clusters], 0-based, gets the rest of the size.
FixSize ==
    /\ pc = "loop" /\ i >= calc_clusters
    /\ out' = IF node.size % ClusterSize = 0 THEN out
              ELSE [out EXCEPT ![calc_clusters + 1].size =
                                  node.size % ClusterSize]
    /\ pc' = "done"
    /\ UNCHANGED <<node, fat, next, i, unread>>

Next == First \/ Follow \/ LoseChain \/ FixSize

Spec == Init /\ [][Next]_vars /\ WF_vars(Next)

-----------------------------------------------------------------------------
(* Properties                                                              *)

Offset == [offset : Nat, size : 0 .. ClusterSize]

\* The loop counter stays within the clusters of the file, and nothing is
\* listed beyond them.
TypeOK ==
    /\ node \in Node /\ fat \in [Heap -> Clusters]
    /\ pc \in {"first", "loop", "done"}
    /\ next \in Clusters
    /\ i \in 0 .. CalcNumClusters
    /\ out \in Seq(Offset)
    /\ Len(out) <= CalcNumClusters \/ node.size = 0

\* A lost cluster is followed only by lost clusters: Processor may skip zero
\* offsets without moving what comes after them (Recovery assumes it).
LostIsSuffix ==
    \A a, b \in DOMAIN out :
        a < b /\ out[b].offset # 0 => out[a].offset # 0

\* An empty file never gets into the loop, whose bound would be -1 as a
\* uint64_t, and the element whose size is fixed exists.
BoundsHold ==
    pc = "loop" =>
        /\ node.size > 0
        /\ i >= calc_clusters => calc_clusters + 1 \in DOMAIN out

\* The file's chain as the medium has it.
Link(c) ==
    IF node.contiguous THEN c + 1 ELSE IF c \in Heap THEN fat[c] ELSE 0

Chain[k \in Nat \ {0}] == IF k = 1 THEN node.start ELSE Link(Chain[k - 1])

SoundTo(k) == \A l \in 1 .. k : Chain[l] \in Heap

\* Damage never reaches back: up to the first bad or unreadable link, what
\* is listed is the file's own clusters, in order and in full.
PrefixExact ==
    \A k \in DOMAIN out :
        SoundTo(k) /\ (\A l \in unread : l >= k) =>
            /\ out[k].offset = ClusterToOffset(Chain[k])
            /\ pc = "done" =>
                 out[k].size = IF k = CalcNumClusters /\ node.size % ClusterSize # 0
                                 THEN node.size % ClusterSize ELSE ClusterSize

\* A file whose chain is whole, and read without an error, is listed whole.
WholeIfSound ==
    pc = "done" /\ unread = {} /\ node.size > 0 => Len(out) = CalcNumClusters

\* getOffsets returns, whatever loops the FAT holds.
GetOffsetsEnds == <>(pc = "done")

\* What getOffsets lists is right as far as the medium lets it be, and its
\* counter stays where the file is.
OffsetsExact == TypeOK /\ BoundsHold /\ PrefixExact /\ WholeIfSound
=============================================================================
