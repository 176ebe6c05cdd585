--------------------------- MODULE ReadDirProofs ---------------------------
(***************************************************************************)
(* Proofs about ReadDir, for every directory, cluster size and name length.*)
(*                                                                         *)
(* That the copy of a name faults only in a set without info is a matter   *)
(* of counting: each entry that goes into a node has taken one from the    *)
(* continuations, which began at no more than one plus the number of NAME  *)
(* entries that fill a name.  Counted says so of every reachable state.    *)
(*                                                                         *)
(* That no memory is left behind takes the meaning of the count: what has  *)
(* been met of the set and what is left of it make up what its FILE entry  *)
(* announced, so a count of zero tells that the set is over.  InSet says   *)
(* that, and Unlost where each thing on the heap is.                       *)
(*                                                                         *)
(* That the listing is the directory's compares the parser with what is    *)
(* meant by a file: each node listed comes from one set of entries, sets   *)
(* are listed in their order, and in a sound directory none is left out.   *)
(***************************************************************************)
EXTENDS ReadDir, SequenceTheorems, FiniteSetTheorems, TLAPS

NodeType == [file : Nat, info : Nat, names : Nat, contiguous : BOOLEAN]

\* What a node has been given, its INFO entries counted once.
Given(n) == n.names + (IF n.info = 0 THEN 0 ELSE 1)

\* While entries are read, a count above zero belongs to a node, and what the
\* node has been given fits what is left of the count.
Counted ==
    /\ pos \in Nat \ {0}
    /\ continuations \in Nat
    /\ phase = "emit" => continuations = 0
    /\ phase \in {"open", "entry", "next"} /\ continuations > 0 =>
         node \in NodeType /\ Given(node) + continuations <= MaxContinuations
    /\ phase = "fault" =>
         node \in NodeType /\ Given(node) < MaxContinuations /\ Room < 0

-----------------------------------------------------------------------------
(* The constants                                                           *)

\* One NAME entry short of a full name there is room left.
LEMMA RoomLeft ==
    ASSUME NEW n \in Nat, n + 2 <= MaxContinuations
    PROVE  EXFAT_NAME_MAX - n * EXFAT_ENAME_MAX >= 0
<1> DEFINE q == DIV_ROUND_UP(EXFAT_NAME_MAX, EXFAT_ENAME_MAX)
           m == EXFAT_NAME_MAX
           e == EXFAT_ENAME_MAX
<1>1. m \in Nat /\ e \in Nat \ {0}
  BY SizesAssumption
<1>2. q \in Int /\ q * e <= m + e - 1
  BY <1>1, SMT DEF DIV_ROUND_UP
<1>3. n + 1 <= q
  BY <1>2 DEF MaxContinuations
<1>4. (n + 1) * e <= q * e
  <2> HIDE DEF q
  <2> QED BY <1>1, <1>2, <1>3, SMT
<1>5. (n + 1) * e = n * e + e
  BY <1>1, SMT
<1>6. n * e \in Int /\ q * e \in Int
  BY <1>1, <1>2, SMT
<1> HIDE DEF q
<1> QED BY <1>1, <1>2, <1>4, <1>5, <1>6, SMT

LEMMA MaxInt == MaxContinuations \in Int
BY SizesAssumption, SMT DEF MaxContinuations, DIV_ROUND_UP

-----------------------------------------------------------------------------
(* The steps                                                               *)

LEMMA InitCounted == Init => Counted
BY DEF Init, Counted

LEMMA StepCounted == Counted /\ [Next]_vars => Counted'
<1> SUFFICES ASSUME Counted, [Next]_vars PROVE Counted'
  OBVIOUS
<1> USE DEF Counted
<1> USE MaxInt
<1>1. CASE File
  <2>1. /\ E.continuations \in 2 .. MaxContinuations
        /\ continuations' = E.continuations
        /\ node' = NewNode(pos) /\ pos' = pos
        /\ phase' = "next"
    BY <1>1 DEF File
  <2>2. node' \in NodeType /\ Given(node)' = 0
    BY <2>1 DEF NodeType, NewNode, Given
  <2> QED BY <2>1, <2>2
<1>2. CASE FileInfo
  <2>1. /\ phase = "entry" /\ continuations >= 2
        /\ node' = [node EXCEPT !.info = pos, !.contiguous = @ \/ E.contiguous]
        /\ continuations' = continuations - 1 /\ pos' = pos
        /\ phase' = "next"
    BY <1>2 DEF FileInfo, Reading
  <2>2. node \in NodeType /\ Given(node) + continuations <= MaxContinuations
    BY <2>1
  <2>3. /\ node' \in [file : Nat, info : Nat, names : Nat, contiguous : BOOLEAN]
        /\ node'.names = node.names
    BY <2>1, <2>2 DEF NodeType
  <2>4. Given(node)' <= Given(node) + 1 /\ Given(node) \in Nat /\ Given(node)' \in Nat
    BY <2>2, <2>3 DEF Given, NodeType
  <2> QED BY <2>1, <2>2, <2>3, <2>4 DEF NodeType
<1>3. CASE FileName
  <2>1. /\ phase = "entry" /\ continuations > 0
        /\ node' = [node EXCEPT !.names = @ + 1]
        /\ continuations' = continuations - 1 /\ pos' = pos
        /\ phase' = IF continuations = 1 THEN "emit" ELSE "next"
    BY <1>3 DEF FileName, Reading
  <2>2. node \in NodeType /\ Given(node) + continuations <= MaxContinuations
    BY <2>1
  <2>3. /\ node' \in NodeType
        /\ node'.names = node.names + 1 /\ node'.info = node.info
    BY <2>1, <2>2 DEF NodeType
  <2>4. Given(node)' = Given(node) + 1 /\ Given(node) \in Nat
    BY <2>2, <2>3 DEF Given, NodeType
  <2> QED BY <2>1, <2>2, <2>3, <2>4
<1>4. CASE FileNameFaults
  <2>1. /\ phase = "entry" /\ continuations > 0 /\ Room < 0
        /\ node' = node /\ continuations' = continuations /\ pos' = pos
        /\ phase' = "fault"
    BY <1>4 DEF FileNameFaults, Reading, set
  <2>2. node \in NodeType /\ Given(node) + continuations <= MaxContinuations
    BY <2>1
  <2>3. Given(node) \in Nat
    BY <2>2 DEF Given, NodeType
  <2>4. Room' = Room /\ Given(node)' = Given(node)
    BY <2>1 DEF Room, Given
  <2> QED BY <2>1, <2>2, <2>3, <2>4
<1>5. CASE Optional
  <2>1. /\ phase = "entry" /\ continuations > 0
        /\ node' = node /\ continuations' = continuations - 1 /\ pos' = pos
        /\ phase' = "next"
    BY <1>5 DEF Optional, Reading
  <2>2. node \in NodeType /\ Given(node) + continuations <= MaxContinuations
    BY <2>1
  <2>3. Given(node) \in Nat
    BY <2>2 DEF Given, NodeType
  <2> QED BY <2>1, <2>2, <2>3 DEF Given
<1>6. CASE Fetch
  BY <1>6 DEF Fetch, set, Given
<1>7. CASE Emit
  BY <1>7 DEF Emit, Given
<1>8. CASE Open \/ Upcase \/ Bitmap \/ Label \/ Deleted
  BY <1>8 DEF Open, Upcase, Bitmap, Label, Deleted, Reading, set, Given
<1>9. CASE OpenFails \/ EndOfDirectory \/ Reject \/ CheckNodeAborts
           \/ FetchFails \/ EntryFails \/ BitmapFails
  BY <1>9 DEF OpenFails, EndOfDirectory, Reject, CheckNodeAborts, FetchFails,
              EntryFails, BitmapFails,
              Error, set
<1>10. CASE UNCHANGED vars
  BY <1>10 DEF vars, Given, Room
<1> QED
  BY <1>1, <1>2, <1>3, <1>4, <1>5, <1>6, <1>7, <1>8, <1>9, <1>10 DEF Next

\* A set that has been given its info never runs out of room for its names:
\* the only one that can is a set of names alone (node.c, case
\* EXFAT_ENTRY_FILE_NAME).
THEOREM FaultsNeedMissingInfo == Spec => []FaultsOnlyWithoutInfo
<1>1. Counted => FaultsOnlyWithoutInfo
  <2> SUFFICES ASSUME Counted, phase = "fault", node.info # 0 PROVE FALSE
    BY DEF FaultsOnlyWithoutInfo
  <2>1. node \in NodeType /\ Given(node) < MaxContinuations /\ Room < 0
    BY DEF Counted
  <2>2. node.names \in Nat /\ Given(node) = node.names + 1
    BY <2>1 DEF Given, NodeType
  <2>3. node.names + 2 <= MaxContinuations
    BY <2>1, <2>2, MaxInt
  <2> QED BY <2>1, <2>2, <2>3, RoomLeft, SizesAssumption DEF Room
<1> QED BY <1>1, InitCounted, StepCounted, PTL DEF Spec

-----------------------------------------------------------------------------
(* The heap.  A node leaves readdir()'s hands unlinked and unfreed only if  *)
(* another FILE entry, or the end of the directory, is met while a node is *)
(* there whose count is zero; and then the set's last entry was optional.  *)

\* The secondary entries after k, up to m; and the last entry processed.
Seconds(k, m) == {l \in k + 1 .. m : IsSecondary(l)}
Upto == IF phase = "entry" THEN pos - 1 ELSE pos

EndsOptional(S) == \E j \in S : Kind(j) = "optional" /\ \A l \in S : l <= j

\* What the count says of the set that is being read.
Filling(k) ==
    /\ k \in DOMAIN dir /\ Kind(k) = "file" /\ k <= Upto
    /\ dir[k].continuations \in Nat
    /\ Cardinality(Seconds(k, Upto)) + continuations = dir[k].continuations
    /\ continuations = 0 => EndsOptional(Seconds(k, Upto))

InSet ==
    /\ dir \in Seq(Entry)
    /\ pos \in 1 .. Len(dir) + 1
    /\ phase \in {"next", "emit"} => pos <= Len(dir)
    /\ continuations \in Nat
    /\ node \in NodeType \cup {NULL}
    /\ phase \in {"open", "entry", "next"} /\ continuations > 0 => node.file # 0
    /\ node.file \in {0} \cup DOMAIN dir
    /\ phase \in {"open", "entry", "next"} =>
         \A k \in DOMAIN dir : node.file = k => Filling(k)
    /\ phase = "open" => node = NULL
    /\ phase = "emit" => node.file # 0 /\ continuations = 0

\* HeapOwned, with its two parts named.
Held == {children[i].file : i \in DOMAIN children} \cup {node.file, chunk}
Spare(k) == (Kind(k) = "file" /\ Dropped(k)) \/ Kind(k) = "bitmap"

Unlost ==
    /\ heap \subseteq DOMAIN dir
    /\ \E S : children \in Seq(S)
    /\ \A b \in DOMAIN dir : chunk = b => Kind(b) = "bitmap"
    /\ \A k \in heap \ Held : Spare(k)

LEMMA SecondsGrow ==
    ASSUME NEW k \in Nat, NEW m \in Nat, k <= m
    PROVE  /\ IsFiniteSet(Seconds(k, m))
           /\ IsSecondary(m + 1) => /\ Seconds(k, m + 1) = Seconds(k, m) \cup {m + 1}
                                    /\ Cardinality(Seconds(k, m + 1))
                                         = Cardinality(Seconds(k, m)) + 1
           /\ ~IsSecondary(m + 1) => Seconds(k, m + 1) = Seconds(k, m)
           /\ Cardinality(Seconds(k, m)) \in Nat
<1>1. IsFiniteSet(k + 1 .. m)
  BY FS_Interval
<1>2. IsFiniteSet(Seconds(k, m)) /\ Cardinality(Seconds(k, m)) \in Nat
  <2>1. Seconds(k, m) \subseteq k + 1 .. m
    BY DEF Seconds
  <2> QED BY <1>1, <2>1, FS_Subset, FS_CardinalityType
<1>3. m + 1 \notin Seconds(k, m)
  BY DEF Seconds
<1>4. k + 1 .. m + 1 = (k + 1 .. m) \cup {m + 1}
  OBVIOUS
<1>5. IsSecondary(m + 1) => Seconds(k, m + 1) = Seconds(k, m) \cup {m + 1}
  BY <1>4 DEF Seconds
<1>6. ~IsSecondary(m + 1) => Seconds(k, m + 1) = Seconds(k, m)
  BY <1>4 DEF Seconds
<1>7. Cardinality(Seconds(k, m) \cup {m + 1}) = Cardinality(Seconds(k, m)) + 1
  BY <1>2, <1>3, FS_AddElement
<1> QED BY <1>2, <1>5, <1>6, <1>7

\* A set is over when as many entries have been met as it announces.
LEMMA OwnedIsMet ==
    ASSUME NEW k \in Nat, NEW m \in Nat, k <= m, Len(dir) \in Nat, m <= Len(dir),
           dir[k].continuations \in Nat,
           Cardinality(Seconds(k, m)) = dir[k].continuations
    PROVE  Owned(k) = Seconds(k, m)
<1> DEFINE S == Seconds(k, m)
<1>1. ASSUME NEW j \in S
      PROVE  /\ j \in k + 1 .. Len(dir) /\ IsSecondary(j)
             /\ Cardinality(Seconds(k, j)) <= dir[k].continuations
  <2>1. j \in k + 1 .. m /\ IsSecondary(j)
    BY DEF Seconds
  <2>2. Seconds(k, j) \subseteq S
    BY <2>1 DEF Seconds
  <2>3. IsFiniteSet(S)
    BY SecondsGrow
  <2>4. Cardinality(Seconds(k, j)) <= Cardinality(S)
    BY <2>2, <2>3, FS_Subset
  <2>5. j \in k + 1 .. Len(dir)
    BY <2>1
  <2>6. Cardinality(Seconds(k, j)) <= dir[k].continuations
    BY <2>4, Zenon
  <2> QED BY <2>1, <2>5, <2>6, Zenon
<1>2. ASSUME NEW j \in k + 1 .. Len(dir), IsSecondary(j), j \notin S
      PROVE  ~(Cardinality(Seconds(k, j)) <= dir[k].continuations)
  <2>1. j \in Nat /\ j > m
    <3>1. j \in Nat /\ j \in k + 1 .. Len(dir)
      OBVIOUS
    <3>2. j \notin k + 1 .. m
      BY <1>2 DEF Seconds
    <3> QED BY <3>1, <3>2
  <2>2. S \cup {j} \subseteq Seconds(k, j)
    <3>1. j \in k + 1 .. j
      BY <2>1
    <3>2. k + 1 .. m \subseteq k + 1 .. j
      BY <2>1
    <3> QED BY <1>2, <3>1, <3>2 DEF Seconds
  <2>3. IsFiniteSet(S) /\ IsFiniteSet(Seconds(k, j)) /\ Cardinality(S) \in Nat
    <3>1. k <= j
      BY <2>1
    <3> QED BY <2>1, <3>1, SecondsGrow
  <2>4. Cardinality(S \cup {j}) = Cardinality(S) + 1
    BY <1>2, <2>3, FS_AddElement
  <2>5. Cardinality(S \cup {j}) <= Cardinality(Seconds(k, j))
    BY <2>2, <2>3, FS_Subset
  <2>6. Cardinality(Seconds(k, j)) \in Nat
    BY <2>3, FS_CardinalityType
  <2> HIDE DEF S
  <2>7. Cardinality(S) = dir[k].continuations
    BY DEF S
  <2> QED BY ONLY <2>3, <2>4, <2>5, <2>6, <2>7
<1>3. Owned(k) = {j \in k + 1 .. Len(dir) :
                     IsSecondary(j) /\ Cardinality(Seconds(k, j)) <= dir[k].continuations}
  BY DEF Owned, Seconds
<1> HIDE DEF S
<1>4. Owned(k) = S
  BY ONLY <1>1, <1>2, <1>3
<1> QED BY <1>4 DEF S

\* The last entry of a set of entries is that no other comes after.
LEMMA LastIs ==
    ASSUME NEW S \in SUBSET Nat, NEW j \in S, \A l \in S : l <= j
    PROVE  Last(S) = j
<1>1. \A i \in S : (\A l \in S : l <= i) => i = j
  OBVIOUS
<1> QED BY <1>1 DEF Last

\* A node whose count is zero before the next entry is that of a dropped set.
LEMMA ZeroIsDropped ==
    ASSUME InSet, phase = "entry", continuations = 0, node.file # 0
    PROVE  Kind(node.file) = "file" /\ Dropped(node.file)
<1> DEFINE k == node.file
           S == Seconds(k, pos - 1)
<1>1. /\ k \in DOMAIN dir /\ Kind(k) = "file" /\ k <= pos - 1
      /\ dir[k].continuations \in Nat
      /\ Cardinality(S) = dir[k].continuations
      /\ EndsOptional(S)
  <2>1. Filling(k) /\ Upto = pos - 1
    BY DEF InSet, Upto
  <2>2. /\ k \in DOMAIN dir /\ Kind(k) = "file" /\ k <= pos - 1
        /\ dir[k].continuations \in Nat
        /\ Cardinality(S) + continuations = dir[k].continuations
        /\ EndsOptional(S)
    BY <2>1 DEF Filling
  <2>3. Cardinality(S) \in Nat
    <3>1. k \in Nat /\ pos - 1 \in Nat /\ k <= pos - 1
      BY <2>2 DEF InSet
    <3> HIDE DEF k
    <3> QED BY <3>1, SecondsGrow
  <2> QED BY <2>2, <2>3
<1>2. k \in Nat /\ pos - 1 \in Nat /\ pos - 1 <= Len(dir) /\ Len(dir) \in Nat
  BY <1>1 DEF InSet
<1> HIDE DEF k
<1>3. Owned(k) = S
  BY <1>1, <1>2, OwnedIsMet
<1>4. PICK j \in S : Kind(j) = "optional" /\ \A l \in S : l <= j
  BY <1>1 DEF EndsOptional
<1>5. Last(S) = j /\ S # {}
  <2>1. S \subseteq Nat
    BY <1>2 DEF Seconds
  <2> HIDE DEF S
  <2> QED BY <1>4, <2>1, LastIs
<1> QED BY <1>1, <1>3, <1>4, <1>5 DEF Dropped, k

\* An entry is processed: it belongs to the set, and is counted down, or not.
LEMMA StillFilling ==
    ASSUME InSet, phase = "entry", phase' = "next", pos' = pos, dir' = dir,
           pos <= Len(dir), NEW k \in DOMAIN dir, Filling(k),
           continuations' \in Nat,
           \/ ~IsSecondary(pos) /\ continuations' = continuations
           \/ /\ IsSecondary(pos) /\ continuations' = continuations - 1
              /\ continuations' = 0 => Kind(pos) = "optional"
    PROVE  Filling(k)'
<1>1. /\ k \in Nat /\ pos \in Nat /\ pos - 1 \in Nat /\ k <= pos - 1
      /\ Kind(k) = "file" /\ dir[k].continuations \in Nat
      /\ Cardinality(Seconds(k, pos - 1)) + continuations = dir[k].continuations
      /\ continuations = 0 => EndsOptional(Seconds(k, pos - 1))
      /\ continuations \in Nat
  BY DEF InSet, Filling, Upto
<1>3. /\ IsSecondary(pos) => /\ Seconds(k, pos) = Seconds(k, pos - 1) \cup {pos}
                              /\ Cardinality(Seconds(k, pos))
                                   = Cardinality(Seconds(k, pos - 1)) + 1
      /\ ~IsSecondary(pos) => Seconds(k, pos) = Seconds(k, pos - 1)
      /\ Cardinality(Seconds(k, pos - 1)) \in Nat
  <2>1. PICK m \in Nat : m = pos - 1
    BY <1>1
  <2>2. k \in Nat /\ k <= m /\ m + 1 = pos
    BY <1>1, <2>1
  <2>3. /\ IsSecondary(m + 1) => /\ Seconds(k, m + 1) = Seconds(k, m) \cup {m + 1}
                                 /\ Cardinality(Seconds(k, m + 1))
                                      = Cardinality(Seconds(k, m)) + 1
        /\ ~IsSecondary(m + 1) => Seconds(k, m + 1) = Seconds(k, m)
        /\ Cardinality(Seconds(k, m)) \in Nat
    BY <2>2, SecondsGrow
  <2>4. m + 1 = pos /\ m = pos - 1
    BY <2>1, <2>2
  <2> QED BY ONLY <2>3, <2>4, Zenon
<1>4. Cardinality(Seconds(k, pos)) + continuations' = dir[k].continuations
  <2>1. CASE IsSecondary(pos)
    <3>1. continuations' = continuations - 1
      BY <2>1
    <3>2. Cardinality(Seconds(k, pos)) = Cardinality(Seconds(k, pos - 1)) + 1
      BY <2>1, <1>3
    <3> QED BY ONLY <3>1, <3>2, <1>1, <1>3
  <2>2. CASE ~IsSecondary(pos)
    BY <2>2, <1>1, <1>3
  <2> QED BY <2>1, <2>2
<1>5. ASSUME continuations' = 0
      PROVE  EndsOptional(Seconds(k, pos))
  <2>1. CASE IsSecondary(pos)
    <3>1. Kind(pos) = "optional" /\ pos \in Seconds(k, pos)
      BY <1>3, <1>5, <2>1
    <3>2. \A l \in Seconds(k, pos) : l <= pos
      BY <1>1 DEF Seconds
    <3> QED BY <3>1, <3>2 DEF EndsOptional
  <2>2. CASE ~IsSecondary(pos)
    BY <2>2, <1>1, <1>3, <1>5
  <2> QED BY <2>1, <2>2
<1>6. Seconds(k, pos)' = Seconds(k, pos)
  BY DEF Seconds, IsSecondary, Kind
<1>7. EndsOptional(Seconds(k, pos))' <=> EndsOptional(Seconds(k, pos))
  BY <1>6 DEF EndsOptional, Kind
<1>8. Upto' = pos
  BY DEF Upto
<1>9. k <= pos
  BY <1>1
<1> QED BY <1>1, <1>4, <1>5, <1>6, <1>7, <1>8, <1>9 DEF Filling, Kind

\* An entry that leaves the set open.
LEMMA Processed ==
    ASSUME InSet, phase = "entry", phase' = "next", pos' = pos, dir' = dir,
           pos <= Len(dir), node' \in NodeType \cup {NULL}, node'.file = node.file,
           continuations' \in Nat,
           \/ ~IsSecondary(pos) /\ continuations' = continuations
           \/ /\ IsSecondary(pos) /\ continuations' = continuations - 1
              /\ continuations' = 0 => Kind(pos) = "optional"
    PROVE  InSet'
<1>1. continuations' > 0 => node'.file # 0
  <2>1. continuations' > 0 => continuations > 0
    BY DEF InSet
  <2> QED BY <2>1 DEF InSet
<1>2. \A k \in DOMAIN dir : node.file = k => Filling(k)'
  BY StillFilling DEF InSet
<1>3. \A k \in DOMAIN dir' : node'.file = k => Filling(k)'
  BY <1>2
<1>4. /\ dir \in Seq(Entry) /\ pos \in 1 .. Len(dir) + 1
      /\ node.file \in {0} \cup DOMAIN dir
  BY DEF InSet
<1> QED BY <1>1, <1>3, <1>4 DEF InSet

LEMMA InitInSet == Init => InSet /\ Unlost
<1> SUFFICES ASSUME Init PROVE InSet /\ Unlost
  OBVIOUS
<1>1. dir \in Seq(Entry) /\ Len(dir) \in Nat /\ DOMAIN dir = 1 .. Len(dir)
  BY DirectoriesAssumption DEF Init
<1>2. node = NULL /\ node.file = 0 /\ continuations = 0 /\ phase = "open" /\ pos = 1
  BY DEF Init, NULL
<1>3. InSet
  BY <1>1, <1>2 DEF InSet
<1>4. heap = {} /\ children = <<>> /\ chunk \in {0, -1}
  BY DEF Init, Mounted
<1>5. children \in Seq({})
  BY <1>4, EmptySeq
<1> QED BY <1>1, <1>3, <1>4, <1>5 DEF Unlost

LEMMA StepInSet == InSet /\ [Next]_vars => InSet'
<1> SUFFICES ASSUME InSet, [Next]_vars PROVE InSet'
  OBVIOUS
<1>1. /\ dir \in Seq(Entry) /\ Len(dir) \in Nat /\ DOMAIN dir = 1 .. Len(dir)
      /\ pos \in 1 .. Len(dir) + 1 /\ pos \in Nat
      /\ continuations \in Nat /\ node \in NodeType \cup {NULL}
      /\ node.file \in {0} \cup DOMAIN dir
  BY DEF InSet
<1>2. node.file # 0 => node \in NodeType
  BY <1>1 DEF NULL
<1>3. CASE Open
  <2>1. /\ phase = "open" /\ phase' = "entry" /\ dir' = dir /\ pos' = pos
        /\ continuations' = continuations /\ node' = node
    BY <1>3 DEF Open, set
  <2>2. node.file = 0
    BY <2>1 DEF InSet, NULL
  <2> QED BY <1>1, <2>1, <2>2 DEF InSet
<1>4. CASE File
  <2>1. /\ phase = "entry" /\ pos <= Len(dir) /\ Kind(pos) = "file"
        /\ continuations' = dir[pos].continuations
        /\ dir[pos].continuations \in 2 .. MaxContinuations
        /\ node' = NewNode(pos) /\ phase' = "next" /\ dir' = dir /\ pos' = pos
    BY <1>4 DEF File, Reading, Kind, E
  <2>2. continuations' \in Nat /\ continuations' > 0
    BY <2>1
  <2>3. node' \in NodeType /\ node'.file = pos /\ pos \in DOMAIN dir
    BY <1>1, <2>1 DEF NewNode, NodeType
  <2>4. Filling(pos)'
    <3>1. Seconds(pos, pos) = {}
      BY <1>1 DEF Seconds
    <3>2. Seconds(pos, pos)' = {}
      BY <1>1, <2>1 DEF Seconds
    <3>3. Cardinality({}) = 0
      BY FS_EmptySet
    <3>4. Upto' = pos
      BY <2>1 DEF Upto
    <3>5. Cardinality(Seconds(pos, pos)') + continuations' = dir[pos].continuations
      BY <2>1, <2>2, <3>2, <3>3
    <3> QED BY <1>1, <2>1, <2>2, <2>3, <3>4, <3>5 DEF Filling, Kind
  <2>5. \A k \in DOMAIN dir' : node'.file = k => Filling(k)'
    <3> SUFFICES ASSUME NEW k \in DOMAIN dir', node'.file = k PROVE Filling(k)'
      OBVIOUS
    <3>1. k = pos
      BY <2>3
    <3> QED BY <2>1, <2>4, <3>1 DEF Filling, Upto, Seconds, Kind, IsSecondary, EndsOptional
  <2> QED BY <1>1, <2>1, <2>2, <2>3, <2>5 DEF InSet
<1>5. CASE FileInfo
  <2>1. /\ phase = "entry" /\ pos <= Len(dir) /\ Kind(pos) = "info" /\ continuations >= 2
        /\ node' = [node EXCEPT !.info = pos,
                                !.contiguous = node.contiguous \/ E.contiguous]
        /\ continuations' = continuations - 1
        /\ phase' = "next" /\ dir' = dir /\ pos' = pos
    BY <1>5 DEF FileInfo, Reading, Kind, E
  <2>2. node \in NodeType
    BY <1>1, <1>2, <2>1 DEF InSet
  <2>3. node' \in NodeType /\ node'.file = node.file
    BY <1>1, <2>1, <2>2, Zenon DEF NodeType
  <2>4. IsSecondary(pos) /\ continuations' \in Nat /\ continuations' # 0
    BY <1>1, <2>1 DEF IsSecondary
  <2> QED BY <2>1, <2>3, <2>4, Processed
<1>6. CASE FileName
  <2>1. /\ phase = "entry" /\ pos <= Len(dir) /\ Kind(pos) = "name" /\ continuations > 0
        /\ node' = [node EXCEPT !.names = node.names + 1]
        /\ continuations' = continuations - 1
        /\ phase' = IF continuations = 1 THEN "emit" ELSE "next"
        /\ dir' = dir /\ pos' = pos
    BY <1>6 DEF FileName, Reading, Kind, E
  <2>2. node \in NodeType /\ node.file # 0
    BY <1>1, <1>2, <2>1 DEF InSet
  <2>3. node' \in NodeType /\ node'.file = node.file
    BY <1>1, <2>1, <2>2 DEF NodeType
  <2>4. IsSecondary(pos) /\ continuations' \in Nat
    BY <1>1, <2>1 DEF IsSecondary
  <2>5. CASE continuations = 1
    <3>1. phase' = "emit" /\ continuations' = 0
      BY <2>1, <2>5
    <3> QED BY <1>1, <2>1, <2>2, <2>3, <3>1 DEF InSet
  <2>6. CASE continuations # 1
    <3>1. phase' = "next" /\ continuations' # 0
      BY <1>1, <2>1, <2>6
    <3> QED BY <2>1, <2>3, <2>4, <3>1, Processed
  <2> QED BY <2>5, <2>6
<1>7. CASE Upcase \/ Bitmap \/ Label \/ Deleted
  <2>1. /\ phase = "entry" /\ pos <= Len(dir)
        /\ Kind(pos) \in {"upcase", "bitmap", "label", "deleted"}
        /\ node' = node /\ continuations' = continuations
        /\ phase' = "next" /\ dir' = dir /\ pos' = pos
    BY <1>7 DEF Upcase, Bitmap, Label, Deleted, Reading, Kind, E, set
  <2>2. ~IsSecondary(pos)
    BY <2>1 DEF IsSecondary
  <2> QED BY <1>1, <2>1, <2>2, Processed
<1>8. CASE Optional
  <2>1. /\ phase = "entry" /\ pos <= Len(dir) /\ Kind(pos) = "optional"
        /\ continuations > 0 /\ node' = node /\ continuations' = continuations - 1
        /\ phase' = "next" /\ dir' = dir /\ pos' = pos
    BY <1>8 DEF Optional, Reading, Kind, E
  <2>2. IsSecondary(pos) /\ continuations' \in Nat
    BY <1>1, <2>1 DEF IsSecondary
  <2> QED BY <1>1, <2>1, <2>2, Processed
<1>9. CASE Fetch
  <2>1. /\ phase = "next" /\ phase' = "entry" /\ pos' = pos + 1 /\ dir' = dir
        /\ node' = node /\ continuations' = continuations
    BY <1>9 DEF Fetch, set
  <2>2. pos <= Len(dir) /\ (continuations > 0 => node.file # 0)
    BY <2>1 DEF InSet
  <2>3. \A k \in DOMAIN dir : node.file = k => Filling(k)
    BY <2>1 DEF InSet
  <2>4. Upto' = pos /\ Upto = pos
    BY <1>1, <2>1 DEF Upto
  <2>5. ASSUME NEW k \in DOMAIN dir, Filling(k) PROVE Filling(k)'
    <3>3. Seconds(k, Upto)' = Seconds(k, Upto)
      BY <2>1, <2>4 DEF Seconds, IsSecondary, Kind
    <3>4. EndsOptional(Seconds(k, Upto))' <=> EndsOptional(Seconds(k, Upto))
      BY <2>1, <3>3 DEF EndsOptional, Kind
    <3> QED BY <2>1, <2>4, <2>5, <3>3, <3>4 DEF Filling, Kind
  <2>6. \A k \in DOMAIN dir' : node'.file = k => Filling(k)'
    BY <2>1, <2>3, <2>5
  <2> QED BY <1>1, <2>1, <2>2, <2>6 DEF InSet
<1>10. CASE Emit
  <2>1. /\ phase = "emit" /\ phase' = "entry" /\ pos' = pos + 1 /\ dir' = dir
        /\ node' = NULL /\ continuations' = continuations
    BY <1>10 DEF Emit
  <2>2. pos <= Len(dir) /\ continuations = 0
    BY <2>1 DEF InSet
  <2>3. NULL.file = 0
    BY DEF NULL
  <2> QED BY <1>1, <2>1, <2>2, <2>3 DEF InSet
<1>11. CASE OpenFails \/ EndOfDirectory \/ FileNameFaults \/ Reject \/ CheckNodeAborts
            \/ FetchFails \/ EntryFails \/ BitmapFails
  <2>1. /\ phase' \in {"cached", "failed", "aborted", "fault"}
        /\ pos' = pos /\ dir' = dir /\ continuations' = continuations
        /\ node' \in {node, NULL}
    BY <1>11 DEF OpenFails, EndOfDirectory, FileNameFaults, Reject, CheckNodeAborts,
                 FetchFails, EntryFails, BitmapFails, Error, set
  <2>2. NULL.file = 0
    BY DEF NULL
  <2> QED BY <1>1, <2>1, <2>2 DEF InSet
<1>12. CASE UNCHANGED vars
  <2>1. /\ dir' = dir /\ phase' = phase /\ pos' = pos /\ node' = node
        /\ continuations' = continuations
    BY <1>12 DEF vars
  <2>2. Upto' = Upto
    BY <2>1 DEF Upto
  <2>3. ASSUME NEW k \in DOMAIN dir, Filling(k) PROVE Filling(k)'
    <3>1. Seconds(k, Upto)' = Seconds(k, Upto)
      BY <2>1, <2>2 DEF Seconds, IsSecondary, Kind
    <3>2. EndsOptional(Seconds(k, Upto))' <=> EndsOptional(Seconds(k, Upto))
      BY <2>1, <3>1 DEF EndsOptional, Kind
    <3> QED BY <2>1, <2>2, <2>3, <3>1, <3>2 DEF Filling, Kind
  <2>4. phase \in {"open", "entry", "next"} =>
          \A k \in DOMAIN dir' : node'.file = k => Filling(k)'
    BY <2>1, <2>3 DEF InSet
  <2> QED BY <2>1, <2>4 DEF InSet
<1> QED
  BY <1>3, <1>4, <1>5, <1>6, <1>7, <1>8, <1>9, <1>10, <1>11, <1>12 DEF Next

\* Whether a node or a table may be left behind depends on the directory alone.
LEMMA SpareStays ==
    ASSUME dir' = dir, NEW k
    PROVE  /\ Kind(k)' = Kind(k)
           /\ Spare(k) => Spare(k)'
<1>1. Kind(k)' = Kind(k)
  BY DEF Kind
<1>2. Owned(k)' = Owned(k)
  BY DEF Owned, IsSecondary, Kind
<1>3. Dropped(k)' = Dropped(k)
  BY <1>2 DEF Dropped, Kind
<1> QED BY <1>1, <1>3 DEF Spare

LEMMA StepUnlost == InSet /\ Unlost /\ [Next]_vars => Unlost'
<1> SUFFICES ASSUME InSet, Unlost, [Next]_vars PROVE Unlost'
  OBVIOUS
<1> DEFINE Listed == {children[i].file : i \in DOMAIN children}
<1>1. PICK S : children \in Seq(S)
  BY DEF Unlost
<1>2. /\ heap \subseteq DOMAIN dir
      /\ \A b \in DOMAIN dir : chunk = b => Kind(b) = "bitmap"
      /\ \A k \in heap : k \in Listed \/ k = node.file \/ k = chunk \/ Spare(k)
  BY DEF Unlost, Held
<1>3. /\ dir \in Seq(Entry) /\ Len(dir) \in Nat /\ DOMAIN dir = 1 .. Len(dir)
      /\ pos \in 1 .. Len(dir) + 1 /\ pos \in Nat
  BY DEF InSet
<1>4. dir' = dir
  BY DEF Next, vars, Open, OpenFails, EndOfDirectory, File, FileInfo, FileName,
         FileNameFaults, Upcase, Bitmap, Label, Deleted, Optional, Reject,
         CheckNodeAborts, Fetch, Emit, FetchFails, EntryFails, BitmapFails, Error
<1>5. \A k : Kind(k)' = Kind(k) /\ (Spare(k) => Spare(k)')
  BY <1>4, SpareStays
<1>6. phase = "entry" /\ continuations = 0 /\ node.file # 0 => Spare(node.file)
  BY ZeroIsDropped DEF Spare
\* It is enough to say where each thing on the heap has gone.
<1>7. ASSUME NEW T, children' \in Seq(T),
             heap' \subseteq DOMAIN dir,
             \A b \in DOMAIN dir : chunk' = b => Kind(b) = "bitmap",
             \A k \in heap' : k \in Listed' \/ k = node'.file \/ k = chunk' \/ Spare(k)
      PROVE  Unlost'
  <2>1. \A b \in DOMAIN dir' : chunk' = b => Kind(b)' = "bitmap"
    BY <1>4, <1>5, <1>7
  <2>2. \A k \in heap' : k \in Listed' \/ k = node'.file \/ k = chunk' \/ Spare(k)'
    BY <1>5, <1>7
  <2>3. \A k \in (heap \ Held)' : Spare(k)'
    BY <2>2 DEF Held
  <2> QED BY <1>4, <1>7, <2>1, <2>3 DEF Unlost
<1>8. CASE EndOfDirectory
  <2>1. /\ phase = "entry" /\ continuations = 0 /\ node' = NULL
        /\ children' = children /\ heap' = heap /\ chunk' = chunk
    BY <1>8 DEF EndOfDirectory, system
  <2>2. \A k \in heap : k = node.file => Spare(k)
    <3>1. 0 \notin heap
      BY <1>2, <1>3
    <3> QED BY <1>6, <2>1, <3>1
  <2> QED BY <1>1, <1>2, <1>7, <2>1, <2>2
<1>9. CASE File
  <2>1. /\ phase = "entry" /\ continuations = 0 /\ node' = NewNode(pos)
        /\ pos <= Len(dir)
        /\ children' = children /\ heap' = heap \cup {pos} /\ chunk' = chunk
    BY <1>9 DEF File, system, Reading
  <2>2. \A k \in heap : k = node.file => Spare(k)
    <3>1. 0 \notin heap
      BY <1>2, <1>3
    <3> QED BY <1>6, <2>1, <3>1
  <2>3. node'.file = pos /\ pos \in DOMAIN dir
    BY <1>3, <2>1 DEF NewNode
  <2> QED BY <1>1, <1>2, <1>7, <2>1, <2>2, <2>3
<1>10. CASE Bitmap
  <2>1. /\ pos <= Len(dir) /\ Kind(pos) = "bitmap" /\ node' = node
        /\ children' = children /\ heap' = heap \cup {pos} /\ chunk' = pos
    BY <1>10 DEF Bitmap, set, Reading, Kind, E
  <2>2. \A k \in heap : k = chunk => Spare(k)
    BY <1>2 DEF Spare
  <2>3. pos \in DOMAIN dir
    BY <1>3, <2>1
  <2> QED BY <1>1, <1>2, <1>7, <2>1, <2>2, <2>3
<1>11. CASE BitmapFails
  <2>1. PICK isAllocated \in BOOLEAN :
          /\ chunk' = IF isAllocated THEN pos ELSE 0
          /\ heap' = (heap \ (Listed \cup {node.file}))
                     \cup (IF isAllocated THEN {pos} ELSE {})
    BY <1>11 DEF BitmapFails
  <2>2. /\ pos <= Len(dir) /\ Kind(pos) = "bitmap" /\ node' = NULL /\ children' = <<>>
    BY <1>11 DEF BitmapFails, Reading, Kind, E
  <2>3. \A k \in heap : k = chunk => Spare(k)
    BY <1>2 DEF Spare
  <2>4. pos \in DOMAIN dir /\ 0 \notin DOMAIN dir
    BY <1>3, <2>2
  <2>5. children' \in Seq({})
    BY <2>2, EmptySeq
  <2>6. \A k \in heap' : k = chunk' \/ Spare(k)
    BY <1>2, <2>1, <2>3
  <2> QED BY <1>2, <1>7, <2>1, <2>2, <2>4, <2>5, <2>6
<1>12. CASE Reject \/ FetchFails \/ EntryFails
  <2>1. /\ heap' = heap \ (Listed \cup {node.file})
        /\ children' = <<>> /\ node' = NULL /\ chunk' = chunk
    BY <1>12 DEF Reject, FetchFails, EntryFails, Error, system
  <2>2. children' \in Seq({})
    BY <2>1, EmptySeq
  <2> QED BY <1>2, <1>7, <2>1, <2>2
<1>13. CASE Emit
  <2>1. /\ children' = Append(children, node) /\ heap' = heap /\ chunk' = chunk
    BY <1>13 DEF Emit, system
  <2>2. /\ children' \in Seq(S \cup {node})
        /\ Len(children') = Len(children) + 1 /\ Len(children) \in Nat
        /\ DOMAIN children = 1 .. Len(children) /\ DOMAIN children' = 1 .. Len(children')
        /\ \A i \in DOMAIN children : children'[i] = children[i]
        /\ children'[Len(children')] = node
    <3>1. children \in Seq(S \cup {node})
      BY <1>1
    <3> QED BY <2>1, <3>1, AppendProperties
  <2>3. Listed \subseteq Listed' /\ node.file \in Listed'
    BY <2>2
  <2> HIDE DEF Listed
  <2> QED BY <1>2, <1>7, <2>1, <2>2, <2>3
<1>14. CASE \/ Open \/ OpenFails \/ FileInfo \/ FileName \/ FileNameFaults \/ Upcase
            \/ Label \/ Deleted \/ Optional \/ CheckNodeAborts \/ Fetch
            \/ UNCHANGED vars
  <2>1. children' = children /\ heap' = heap /\ chunk' = chunk
    BY <1>14 DEF Open, OpenFails, FileInfo, FileName, FileNameFaults, Upcase, Label,
                 Deleted, Optional, CheckNodeAborts, Fetch, vars, set, system
  <2>2. node' = node \/ FileInfo \/ FileName
    BY <1>14 DEF Open, OpenFails, FileNameFaults, Upcase, Label, Deleted, Optional,
                 CheckNodeAborts, Fetch, vars, set
  <2>3. ASSUME FileInfo \/ FileName PROVE node'.file = node.file
    <3>1. phase = "entry" /\ continuations > 0
      BY <2>3 DEF FileInfo, FileName, Reading, InSet
    <3>2. node.file # 0 /\ node \in NodeType \cup {NULL}
      BY <3>1 DEF InSet
    <3>3. node \in NodeType
      BY <3>2 DEF NULL
    <3>4. \/ node' = [node EXCEPT !.info = pos,
                                  !.contiguous = node.contiguous \/ E.contiguous]
          \/ node' = [node EXCEPT !.names = node.names + 1]
      BY <2>3 DEF FileInfo, FileName
    <3> QED BY <3>3, <3>4, Zenon DEF NodeType
  <2>4. node'.file = node.file
    BY <2>2, <2>3
  <2> QED BY <1>1, <1>2, <1>7, <2>1, <2>4
<1> QED
  BY <1>8, <1>9, <1>10, <1>11, <1>12, <1>13, <1>14 DEF Next

\* Reading a directory leaves no memory behind it but that of the two cases
\* HeapOwned names (node.c, readdir, exfat_cache_directory).
THEOREM NothingLeaks == Spec => []HeapOwned
<1>1. Unlost => HeapOwned
  <2> SUFFICES ASSUME Unlost, NEW k \in heap \ Held
               PROVE  \/ Kind(k) = "file" /\ Dropped(k)
                      \/ Kind(k) = "bitmap" /\ chunk # k
    BY DEF HeapOwned, Held
  <2>1. Spare(k) /\ chunk # k
    BY DEF Unlost, Held
  <2> QED BY <2>1 DEF Spare
<1>2. Init => InSet /\ Unlost
  BY InitInSet
<1>3. InSet /\ Unlost /\ [Next]_vars => InSet' /\ Unlost'
  BY StepInSet, StepUnlost
<1> QED BY <1>1, <1>2, <1>3, PTL DEF Spec

-----------------------------------------------------------------------------
(* Types                                                                   *)

Node == [file : FileEntries, info : 0 .. Len(dir), names : Nat, contiguous : BOOLEAN]
IsNode(n) == n = NULL \/ (n \in Node /\ (n.info # 0 => Kind(n.info) = "info"))

LEMMA DirStays == [Next]_vars => dir' = dir
BY DEF Next, vars, Open, OpenFails, EndOfDirectory, File, FileInfo, FileName,
       FileNameFaults, Upcase, Bitmap, Label, Deleted, Optional, Reject,
       CheckNodeAborts, Fetch, Emit, FetchFails, EntryFails, BitmapFails, Error

\* TypeOK holds after a step that leaves each variable in its type.
LEMMA TypesKept ==
    ASSUME TypeOK, dir' = dir,
           phase' \in {"open", "entry", "next", "emit", "cached", "failed", "fault",
                       "aborted"},
           pos' \in 1 .. Len(dir) + 1,
           phase' \in {"next", "emit"} => pos' <= Len(dir),
           continuations' \in 0 .. MaxContinuations,
           IsNode(node'), children' \in Seq(Node), heap' \subseteq DOMAIN dir,
           upcase' \in {Mounted} \cup 0 .. Len(dir),
           chunk' \in {Mounted} \cup 0 .. Len(dir),
           ioFailed' \in BOOLEAN
    PROVE  TypeOK'
<1>1. FileEntries' = FileEntries /\ Len(dir') = Len(dir) /\ DOMAIN dir' = DOMAIN dir
  BY DEF FileEntries, Kind
<1>2. dir' \in Directories
  BY DEF TypeOK
<1>3. \/ node' = NULL
      \/ /\ node' \in [file : FileEntries', info : 0 .. Len(dir'), names : Nat,
                       contiguous : BOOLEAN]
         /\ node'.info # 0 => Kind(node.info)' = "info"
  BY <1>1 DEF IsNode, Node, Kind
<1>4. children' \in Seq([file : FileEntries', info : 0 .. Len(dir'), names : Nat,
                         contiguous : BOOLEAN])
  BY <1>1 DEF Node
<1> QED BY <1>1, <1>2, <1>3, <1>4, Zenon DEF TypeOK

LEMMA InitTypes == Init => TypeOK
<1> SUFFICES ASSUME Init PROVE TypeOK
  OBVIOUS
<1>1. dir \in Seq(Entry) /\ Len(dir) \in Nat /\ dir \in Directories
  BY DirectoriesAssumption DEF Init
<1>2. /\ phase = "open" /\ pos = 1 /\ continuations = 0 /\ node = NULL
      /\ children = <<>> /\ heap = {} /\ ioFailed = FALSE
      /\ upcase \in {0, Mounted} /\ chunk \in {0, Mounted}
  BY DEF Init
<1>3. 0 \in 0 .. Len(dir) /\ 1 \in 1 .. Len(dir) + 1
  BY <1>1
<1>4. children \in Seq(Node)
  BY <1>2, EmptySeq
<1>5. 0 \in 0 .. MaxContinuations
  <2> DEFINE q == DIV_ROUND_UP(EXFAT_NAME_MAX, EXFAT_ENAME_MAX)
  <2>1. q \in Int /\ q >= 0
    BY SizesAssumption, SMT DEF DIV_ROUND_UP
  <2> HIDE DEF q
  <2> QED BY <2>1, SMT DEF MaxContinuations, q
<1>6. children \in Seq([file : FileEntries, info : 0 .. Len(dir), names : Nat,
                       contiguous : BOOLEAN])
  BY <1>4, Zenon DEF Node
<1> QED BY <1>1, <1>2, <1>3, <1>5, <1>6, Zenon DEF TypeOK

LEMMA StepTypes == InSet /\ TypeOK /\ [Next]_vars => TypeOK'
<1> SUFFICES ASSUME InSet, TypeOK, [Next]_vars PROVE TypeOK'
  OBVIOUS
<1>1. dir' = dir
  BY DirStays
<1>2. /\ dir \in Seq(Entry) /\ Len(dir) \in Nat /\ DOMAIN dir = 1 .. Len(dir)
      /\ pos \in Nat /\ pos \in 1 .. Len(dir) + 1 /\ continuations \in Nat
      /\ phase \in {"open", "entry", "next"} /\ continuations > 0 => node.file # 0
      /\ phase = "emit" => node.file # 0
  BY DEF InSet
<1>3. /\ phase \in {"open", "entry", "next", "emit", "cached", "failed", "fault",
                    "aborted"}
      /\ phase \in {"next", "emit"} => pos <= Len(dir)
      /\ continuations \in 0 .. MaxContinuations
      /\ heap \subseteq DOMAIN dir
      /\ upcase \in {Mounted} \cup 0 .. Len(dir)
      /\ chunk \in {Mounted} \cup 0 .. Len(dir)
      /\ ioFailed \in BOOLEAN
  BY DEF TypeOK
<1>4. IsNode(node) /\ children \in Seq(Node)
  BY Zenon DEF TypeOK, IsNode, Node
<1>5. IsNode(NULL) /\ <<>> \in Seq(Node)
  BY EmptySeq DEF IsNode
<1>6. node.file # 0 => node \in Node /\ (node.info # 0 => Kind(node.info) = "info")
  BY <1>4 DEF IsNode, NULL
<1>7. MaxContinuations \in Int
  BY MaxInt
<1>8. CASE File
  <2>1. /\ pos <= Len(dir) /\ Kind(pos) = "file"
        /\ continuations' \in 2 .. MaxContinuations
        /\ node' = NewNode(pos) /\ heap' = heap \cup {pos} /\ phase' = "next"
        /\ pos' = pos /\ children' = children /\ upcase' = upcase /\ chunk' = chunk
        /\ ioFailed' = ioFailed
    BY <1>8 DEF File, Reading, Kind, E, system
  <2>2. pos \in FileEntries /\ pos \in DOMAIN dir
    BY <1>2, <2>1 DEF FileEntries
  <2>3. IsNode(node')
    BY <1>2, <2>1, <2>2 DEF IsNode, Node, NewNode
  <2>4. continuations' \in 0 .. MaxContinuations
    BY <1>7, <2>1
  <2>5. heap' \subseteq DOMAIN dir
    BY <1>3, <2>1, <2>2
  <2> QED BY <1>1, <1>2, <1>3, <1>4, <2>1, <2>3, <2>4, <2>5, TypesKept
<1>9. CASE FileInfo
  <2>1. /\ phase = "entry" /\ pos <= Len(dir) /\ Kind(pos) = "info" /\ continuations >= 2
        /\ node' = [node EXCEPT !.info = pos,
                                !.contiguous = node.contiguous \/ E.contiguous]
        /\ continuations' = continuations - 1 /\ phase' = "next"
        /\ pos' = pos /\ children' = children /\ heap' = heap /\ upcase' = upcase
        /\ chunk' = chunk /\ ioFailed' = ioFailed
    BY <1>9 DEF FileInfo, Reading, Kind, E, system
  <2>2. node \in Node /\ pos \in 0 .. Len(dir)
    BY <1>2, <1>6, <2>1
  <2>3. node' \in Node /\ node'.info = pos
    BY <2>1, <2>2, Zenon DEF Node
  <2>4. IsNode(node')
    BY <2>1, <2>3 DEF IsNode
  <2>5. continuations' \in 0 .. MaxContinuations
    BY <1>3, <1>7, <2>1
  <2> QED BY <1>1, <1>2, <1>3, <1>4, <2>1, <2>4, <2>5, TypesKept
<1>10. CASE FileName
  <2>1. /\ phase = "entry" /\ pos <= Len(dir) /\ continuations > 0
        /\ node' = [node EXCEPT !.names = node.names + 1]
        /\ continuations' = continuations - 1 /\ phase' \in {"emit", "next"}
        /\ pos' = pos /\ children' = children /\ heap' = heap /\ upcase' = upcase
        /\ chunk' = chunk /\ ioFailed' = ioFailed
    BY <1>10 DEF FileName, Reading, system
  <2>2. node \in Node /\ (node.info # 0 => Kind(node.info) = "info")
    BY <1>2, <1>6, <2>1
  <2>3. node' \in Node /\ node'.info = node.info
    BY <2>1, <2>2 DEF Node
  <2>4. IsNode(node')
    BY <2>2, <2>3 DEF IsNode
  <2>5. continuations' \in 0 .. MaxContinuations
    BY <1>3, <1>7, <2>1
  <2> QED BY <1>1, <1>2, <1>3, <1>4, <2>1, <2>4, <2>5, TypesKept
<1>11. CASE Upcase \/ Bitmap \/ Label \/ Deleted
  <2>1. /\ pos <= Len(dir) /\ node' = node /\ continuations' = continuations
        /\ phase' = "next" /\ pos' = pos /\ children' = children
        /\ heap' \in {heap, heap \cup {pos}} /\ upcase' \in {upcase, pos}
        /\ chunk' \in {chunk, pos} /\ ioFailed' = ioFailed
    BY <1>11 DEF Upcase, Bitmap, Label, Deleted, Reading, set, system
  <2>2. pos \in DOMAIN dir /\ pos \in 0 .. Len(dir)
    BY <1>2, <2>1
  <2>3. /\ heap' \subseteq DOMAIN dir
        /\ upcase' \in {Mounted} \cup 0 .. Len(dir)
        /\ chunk' \in {Mounted} \cup 0 .. Len(dir)
    BY <1>3, <2>1, <2>2
  <2> QED BY <1>1, <1>2, <1>3, <1>4, <2>1, <2>3, TypesKept
<1>12. CASE Optional
  <2>1. /\ pos <= Len(dir) /\ continuations > 0 /\ node' = node
        /\ continuations' = continuations - 1 /\ phase' = "next"
        /\ pos' = pos /\ children' = children /\ heap' = heap /\ upcase' = upcase
        /\ chunk' = chunk /\ ioFailed' = ioFailed
    BY <1>12 DEF Optional, Reading, system
  <2>2. continuations' \in 0 .. MaxContinuations
    BY <1>3, <1>7, <2>1
  <2> QED BY <1>1, <1>2, <1>3, <1>4, <2>1, <2>2, TypesKept
<1>13. CASE Fetch \/ Emit
  <2>1. /\ phase \in {"next", "emit"} /\ phase' = "entry" /\ pos' = pos + 1
        /\ node' \in {node, NULL} /\ continuations' = continuations
        /\ heap' = heap /\ upcase' = upcase /\ chunk' = chunk /\ ioFailed' = ioFailed
    BY <1>13 DEF Fetch, Emit, set, system
  <2>2. pos' \in 1 .. Len(dir) + 1
    BY <1>2, <1>3, <2>1
  <2>3. children' \in Seq(Node)
    <3>1. CASE Fetch
      BY <1>4, <3>1 DEF Fetch
    <3>2. CASE Emit
      <4>1. node \in Node /\ children' = Append(children, node)
        BY <1>2, <1>6, <3>2 DEF Emit
      <4> QED BY <1>4, <4>1, AppendProperties
    <3> QED BY <1>13, <3>1, <3>2
  <2>4. IsNode(node')
    BY <1>4, <1>5, <2>1
  <2> QED BY <1>1, <1>3, <2>1, <2>2, <2>3, <2>4, TypesKept
<1>14. CASE \/ Open \/ OpenFails \/ EndOfDirectory \/ FileNameFaults \/ Reject
            \/ CheckNodeAborts \/ FetchFails \/ EntryFails
  <2>1. /\ phase' \in {"entry", "cached", "failed", "fault", "aborted"}
        /\ pos' = pos /\ node' \in {node, NULL} /\ continuations' = continuations
        /\ children' \in {children, <<>>} /\ heap' \subseteq heap
        /\ upcase' = upcase /\ chunk' = chunk /\ ioFailed' \in {ioFailed, TRUE}
    BY <1>14 DEF Open, OpenFails, EndOfDirectory, FileNameFaults, Reject,
                 CheckNodeAborts, FetchFails, EntryFails, Error, set, system
  <2>2. IsNode(node') /\ children' \in Seq(Node) /\ heap' \subseteq DOMAIN dir
    BY <1>3, <1>4, <1>5, <2>1
  <2> QED BY <1>1, <1>2, <1>3, <2>1, <2>2, TypesKept
<1>15. CASE BitmapFails
  <2>1. /\ pos <= Len(dir) /\ phase' = "failed" /\ pos' = pos /\ node' = NULL
        /\ continuations' = continuations /\ children' = <<>>
        /\ heap' \subseteq heap \cup {pos} /\ chunk' \in {pos, 0}
        /\ upcase' = upcase /\ ioFailed' = TRUE
    BY <1>15 DEF BitmapFails, Reading
  <2>2. pos \in DOMAIN dir /\ {pos, 0} \subseteq 0 .. Len(dir)
    BY <1>2, <2>1
  <2>3. heap' \subseteq DOMAIN dir /\ chunk' \in {Mounted} \cup 0 .. Len(dir)
    BY <1>3, <2>1, <2>2
  <2> QED BY <1>1, <1>2, <1>3, <1>5, <2>1, <2>3, TypesKept
<1>16. CASE UNCHANGED vars
  <2>1. /\ phase' = phase /\ pos' = pos /\ continuations' = continuations
        /\ node' = node /\ children' = children /\ heap' = heap /\ upcase' = upcase
        /\ chunk' = chunk /\ ioFailed' = ioFailed
    BY <1>16 DEF vars
  <2> QED BY <1>1, <1>2, <1>3, <1>4, <2>1, TypesKept
<1> QED
  BY <1>8, <1>9, <1>10, <1>11, <1>12, <1>13, <1>14, <1>15, <1>16 DEF Next

-----------------------------------------------------------------------------
(* The listing.  What the node has been given is what stands in the medium  *)
(* between its FILE entry and the entry processed last.                    *)

Busy == phase \in {"entry", "next", "emit"}

\* NodeOf, as far as entry m.
NodeUpto(k, m) ==
    [file |-> k,
     info |-> Last(OfKind(Seconds(k, m), "info")),
     names |-> Cardinality(OfKind(Seconds(k, m), "name")),
     contiguous |-> \E j \in OfKind(Seconds(k, m), "info") : dir[j].contiguous]

\* The node that is filled is that of the FILE entry met last.
Fills(k, m) ==
    /\ k \in FileEntries /\ k <= m
    /\ node = NodeUpto(k, m)
    /\ \A f \in FileEntries : f <= m => f <= k

NodeSoFar ==
    Busy /\ node.file # 0 => \E k \in FileEntries, m \in Nat : m = Upto /\ Fills(k, m)

\* A node is returned when its set is over, at a name.
Complete(k, m) ==
    /\ Kind(m) = "name"
    /\ Cardinality(Seconds(k, m)) = dir[k].continuations

CompleteSoFar ==
    phase = "emit" => \A k \in FileEntries : node.file = k => Complete(k, pos)

\* The children are the files met before, but for the dropped ones.
ListSoFar ==
    /\ phase = "open" => children = <<>> /\ pos = 1
    /\ Busy \/ phase = "cached" =>
        /\ {children[i].file : i \in DOMAIN children}
             = {f \in FileEntries : f <= Upto /\ f # node.file /\ ~Dropped(f)}
        /\ \A i, j \in DOMAIN children : i < j => children[i].file < children[j].file
        /\ \A i \in DOMAIN children, k \in FileEntries :
             children[i].file = k => children[i] = NodeOf(k)
    /\ phase = "cached" => pos = Len(dir) + 1 /\ node.file = 0

LEMMA KindsGrow ==
    ASSUME NEW k \in Nat, NEW m \in Nat, k <= m, NEW t \in {"info", "name"}
    PROVE  /\ IsFiniteSet(OfKind(Seconds(k, m), t))
           /\ OfKind(Seconds(k, m), t) \subseteq k + 1 .. m
           /\ Kind(m + 1) = t =>
                OfKind(Seconds(k, m + 1), t) = OfKind(Seconds(k, m), t) \cup {m + 1}
           /\ Kind(m + 1) # t =>
                OfKind(Seconds(k, m + 1), t) = OfKind(Seconds(k, m), t)
<1>1. OfKind(Seconds(k, m), t) \subseteq k + 1 .. m
  BY DEF OfKind, Seconds
<1>2. IsFiniteSet(OfKind(Seconds(k, m), t))
  BY <1>1, FS_Interval, FS_Subset
<1>3. k + 1 .. m + 1 = (k + 1 .. m) \cup {m + 1}
  OBVIOUS
<1>4. Kind(m + 1) = t => IsSecondary(m + 1)
  BY DEF IsSecondary
<1> QED BY <1>1, <1>2, <1>3, <1>4 DEF OfKind, Seconds

\* What readdir() writes to a node.
LEMMA GivenInfo ==
    ASSUME NEW r \in Node, NEW x \in 0 .. Len(dir), NEW y \in BOOLEAN, NEW s,
           s = [r EXCEPT !.info = x, !.contiguous = y]
    PROVE  s = [file |-> r.file, info |-> x, names |-> r.names, contiguous |-> y]
<1>1. s \in Node /\ s.file = r.file /\ s.names = r.names
  BY Zenon DEF Node
<1>2. s.info = x
  BY Zenon DEF Node
<1>3. s.contiguous = y
  BY Zenon DEF Node
<1>4. s \in Node => s = [file |-> s.file, info |-> s.info, names |-> s.names,
                         contiguous |-> s.contiguous]
  BY ONLY SMT DEF Node
<1> QED BY ONLY <1>1, <1>2, <1>3, <1>4, Zenon

LEMMA GivenName ==
    ASSUME NEW r \in Node, NEW s, s = [r EXCEPT !.names = r.names + 1]
    PROVE  s = [file |-> r.file, info |-> r.info, names |-> r.names + 1,
                contiguous |-> r.contiguous]
<1>1. PICK x \in Nat : x = r.names + 1
  BY DEF Node
<1>2. s = [r EXCEPT !.names = x]
  BY <1>1
<1>3. s \in Node /\ s.file = r.file /\ s.info = r.info /\ s.contiguous = r.contiguous
  BY <1>2, Zenon DEF Node
<1>4. s.names = x
  BY <1>2, Zenon DEF Node
<1>5. s = [file |-> s.file, info |-> s.info, names |-> s.names,
           contiguous |-> s.contiguous]
  BY <1>3, SMT DEF Node
<1> QED BY ONLY <1>1, <1>3, <1>4, <1>5, Zenon

\* What one more entry adds to a node.
LEMMA NodeGrows ==
    ASSUME NEW k \in Nat, NEW m \in Nat, k <= m
    PROVE  /\ Kind(m + 1) = "info" =>
                NodeUpto(k, m + 1)
                  = [file |-> k, info |-> m + 1, names |-> NodeUpto(k, m).names,
                     contiguous |-> NodeUpto(k, m).contiguous \/ dir[m + 1].contiguous]
           /\ Kind(m + 1) = "name" =>
                NodeUpto(k, m + 1)
                  = [file |-> k, info |-> NodeUpto(k, m).info,
                     names |-> NodeUpto(k, m).names + 1,
                     contiguous |-> NodeUpto(k, m).contiguous]
           /\ Kind(m + 1) \notin {"info", "name"} => NodeUpto(k, m + 1) = NodeUpto(k, m)
<1> DEFINE I(n) == OfKind(Seconds(k, n), "info")
           N(n) == OfKind(Seconds(k, n), "name")
<1>1. /\ Kind(m + 1) = "info" => I(m + 1) = I(m) \cup {m + 1}
      /\ Kind(m + 1) # "info" => I(m + 1) = I(m)
      /\ I(m) \subseteq k + 1 .. m
  BY KindsGrow
<1>2. /\ Kind(m + 1) = "name" => N(m + 1) = N(m) \cup {m + 1}
      /\ Kind(m + 1) # "name" => N(m + 1) = N(m)
      /\ N(m) \subseteq k + 1 .. m /\ IsFiniteSet(N(m))
  BY KindsGrow
<1> DEFINE C(n) == \E j \in I(n) : dir[j].contiguous
<1>3. \A n : NodeUpto(k, n) = [file |-> k, info |-> Last(I(n)),
                               names |-> Cardinality(N(n)), contiguous |-> C(n)]
  BY DEF NodeUpto
<1> HIDE DEF I, N
<1>4. \A n : /\ NodeUpto(k, n).info = Last(I(n))
             /\ NodeUpto(k, n).names = Cardinality(N(n))
             /\ NodeUpto(k, n).contiguous = C(n)
  <2> TAKE n
  <2>1. NodeUpto(k, n) = [file |-> k, info |-> Last(I(n)),
                          names |-> Cardinality(N(n)), contiguous |-> C(n)]
    BY <1>3, Zenon
  <2> HIDE DEF C
  <2> QED BY ONLY <2>1, SMT
<1>5. CASE Kind(m + 1) = "info"
  <2>1. N(m + 1) = N(m) /\ I(m + 1) = I(m) \cup {m + 1}
    BY <1>1, <1>2, <1>5
  <2>2. Last(I(m + 1)) = m + 1
    <3>1. I(m + 1) \in SUBSET Nat /\ m + 1 \in I(m + 1) /\ \A l \in I(m + 1) : l <= m + 1
      BY <1>1, <2>1
    <3> QED BY <3>1, LastIs
  <2>3. C(m + 1) = (C(m) \/ dir[m + 1].contiguous)
    <3>1. C(m + 1) <=> C(m) \/ dir[m + 1].contiguous
      BY <2>1
    <3>2. C(m + 1) \in BOOLEAN
      OBVIOUS
    <3> HIDE DEF C
    <3> QED BY <3>1, <3>2
  <2> HIDE DEF C
  <2>4. NodeUpto(k, m + 1)
          = [file |-> k, info |-> m + 1, names |-> NodeUpto(k, m).names,
             contiguous |-> NodeUpto(k, m).contiguous \/ dir[m + 1].contiguous]
    BY ONLY <1>3, <1>4, <2>1, <2>2, <2>3, Zenon
  <2> QED BY <1>5, <2>4
<1>6. CASE Kind(m + 1) = "name"
  <2>1. I(m + 1) = I(m) /\ N(m + 1) = N(m) \cup {m + 1} /\ m + 1 \notin N(m)
    BY <1>1, <1>2, <1>6
  <2>2. Cardinality(N(m + 1)) = Cardinality(N(m)) + 1
    BY <1>2, <2>1, FS_AddElement
  <2>3. C(m + 1) = C(m)
    BY <2>1
  <2> HIDE DEF C
  <2>4. NodeUpto(k, m + 1)
          = [file |-> k, info |-> NodeUpto(k, m).info,
             names |-> NodeUpto(k, m).names + 1,
             contiguous |-> NodeUpto(k, m).contiguous]
    BY ONLY <1>3, <1>4, <2>1, <2>2, <2>3, Zenon
  <2> QED BY <1>6, <2>4
<1>7. CASE Kind(m + 1) \notin {"info", "name"}
  <2>1. I(m + 1) = I(m) /\ N(m + 1) = N(m)
    BY <1>1, <1>2, <1>7
  <2>2. C(m + 1) = C(m)
    BY <2>1
  <2> HIDE DEF C
  <2> QED BY <1>3, <1>7, <2>1, <2>2, Zenon
<1> QED BY <1>5, <1>6, <1>7

\* The definitions that speak of the entries alone keep their values.
LEMMA EntriesStay ==
    ASSUME dir' = dir
    PROVE  /\ FileEntries' = FileEntries
           /\ \A k : Kind(k)' = Kind(k)
           /\ \A k, m : Seconds(k, m)' = Seconds(k, m)
           /\ \A k, m : NodeUpto(k, m)' = NodeUpto(k, m)
           /\ \A k : NodeOf(k)' = NodeOf(k)
           /\ \A k : Dropped(k)' = Dropped(k)
<1>1. \A k : Kind(k)' = Kind(k)
  BY DEF Kind
<1>2. \A k : IsSecondary(k)' = IsSecondary(k)
  BY DEF IsSecondary, Kind
<1>3. \A k, m : Seconds(k, m)' = Seconds(k, m)
  BY DEF Seconds, IsSecondary, Kind
<1>4. \A k : Owned(k)' = Owned(k)
  BY DEF Owned, IsSecondary, Kind
<1>5. \A k : Dropped(k)' = Dropped(k)
  BY DEF Dropped, Owned, IsSecondary, Kind
<1>6. \A k, m : NodeUpto(k, m)' = NodeUpto(k, m)
  BY DEF NodeUpto, OfKind, Seconds, IsSecondary, Kind
<1>7. \A k : NodeOf(k)' = NodeOf(k)
  BY DEF NodeOf, OfKind, Owned, IsSecondary, Kind
<1>8. FileEntries' = FileEntries
  BY DEF FileEntries, Kind
<1> QED BY <1>1, <1>3, <1>5, <1>6, <1>7, <1>8

LEMMA NodeSoFarKept ==
    ASSUME dir' = dir, NEW k \in FileEntries, NEW m \in Nat, k <= m, Upto' = m,
           node' = NodeUpto(k, m), \A f \in FileEntries : f <= m => f <= k
    PROVE  NodeSoFar'
<1>1. /\ FileEntries' = FileEntries
      /\ \A j, n : NodeUpto(j, n)' = NodeUpto(j, n)
  BY EntriesStay
<1>2. Fills(k, m)'
  BY <1>1 DEF Fills
<1> QED BY <1>1, <1>2 DEF NodeSoFar

\* An entry other than a FILE entry goes into the node, or by it.
LEMMA NodeGiven ==
    ASSUME InSet, TypeOK, NodeSoFar, phase = "entry", pos <= Len(dir),
           Kind(pos) # "file", dir' = dir, pos' = pos, phase' \in {"next", "emit"},
           node.file # 0,
           Kind(pos) = "info" =>
             node' = [node EXCEPT !.info = pos,
                                  !.contiguous = node.contiguous \/ dir[pos].contiguous],
           Kind(pos) = "name" => node' = [node EXCEPT !.names = node.names + 1],
           Kind(pos) \notin {"info", "name"} => node' = node
    PROVE  NodeSoFar'
<1>1. PICK k \in FileEntries, m \in Nat : m = Upto /\ Fills(k, m)
  BY DEF NodeSoFar, Busy
<1>2. /\ dir \in Seq(Entry) /\ Len(dir) \in Nat /\ DOMAIN dir = 1 .. Len(dir)
      /\ pos \in Nat /\ m = pos - 1 /\ m + 1 = pos
  BY <1>1 DEF InSet, Upto
<1>3. /\ k \in Nat /\ k <= m /\ node = NodeUpto(k, m)
      /\ \A f \in FileEntries : f <= m => f <= k
  BY <1>1, <1>2 DEF Fills, FileEntries
<1>4. node \in Node
  BY DEF TypeOK, NULL, Node
<1>5. /\ node.file = k /\ node.info = NodeUpto(k, m).info
      /\ node.names = NodeUpto(k, m).names
      /\ node.contiguous = NodeUpto(k, m).contiguous
  BY <1>3, Zenon DEF NodeUpto
<1>6. node' = NodeUpto(k, m + 1)
  <2>1. CASE Kind(pos) = "info"
    <3>1. (node.contiguous \/ dir[pos].contiguous) \in BOOLEAN
      OBVIOUS
    <3>2. pos \in 0 .. Len(dir)
      BY <1>2
    <3>3. node' = [file |-> node.file, info |-> pos, names |-> node.names,
                   contiguous |-> node.contiguous \/ dir[pos].contiguous]
      BY <1>4, <2>1, <3>1, <3>2, GivenInfo
    <3>4. NodeUpto(k, m + 1)
            = [file |-> k, info |-> m + 1, names |-> NodeUpto(k, m).names,
               contiguous |-> NodeUpto(k, m).contiguous \/ dir[m + 1].contiguous]
      <4>1. Kind(m + 1) = "info"
        BY <1>2, <2>1
      <4> QED BY ONLY <1>3, <4>1, NodeGrows, m \in Nat, Zenon
    <3> QED BY ONLY <1>2, <1>5, <3>3, <3>4, Zenon
  <2>2. CASE Kind(pos) = "name"
    <3>1. node' = [file |-> node.file, info |-> node.info, names |-> node.names + 1,
                   contiguous |-> node.contiguous]
      BY <1>4, <2>2, GivenName
    <3>2. NodeUpto(k, m + 1)
            = [file |-> k, info |-> NodeUpto(k, m).info,
               names |-> NodeUpto(k, m).names + 1,
               contiguous |-> NodeUpto(k, m).contiguous]
      <4>1. Kind(m + 1) = "name"
        BY <1>2, <2>2
      <4> QED BY ONLY <1>3, <4>1, NodeGrows, m \in Nat, Zenon
    <3> QED BY ONLY <1>5, <3>1, <3>2, Zenon
  <2>3. CASE Kind(pos) \notin {"info", "name"}
    <3>1. NodeUpto(k, m + 1) = NodeUpto(k, m)
      BY <1>2, <1>3, <2>3, NodeGrows
    <3> QED BY <1>3, <2>3, <3>1
  <2> QED BY <2>1, <2>2, <2>3
<1>7. \A f \in FileEntries : f <= m + 1 => f <= k
  BY <1>2, <1>3 DEF FileEntries
<1>8. Upto' = m + 1
  BY <1>2 DEF Upto
<1>9. k <= m + 1 /\ m + 1 \in Nat
  BY <1>3
<1> QED BY <1>6, <1>7, <1>8, <1>9, NodeSoFarKept

LEMMA StepNodeSoFar == InSet /\ TypeOK /\ NodeSoFar /\ [Next]_vars => NodeSoFar'
<1> SUFFICES ASSUME InSet, TypeOK, NodeSoFar, [Next]_vars PROVE NodeSoFar'
  OBVIOUS
<1>1. dir' = dir
  BY DirStays
<1>2. /\ dir \in Seq(Entry) /\ Len(dir) \in Nat /\ DOMAIN dir = 1 .. Len(dir)
      /\ pos \in Nat /\ pos \in 1 .. Len(dir) + 1
      /\ phase \in {"open", "entry", "next"} /\ continuations > 0 => node.file # 0
      /\ phase = "open" => node = NULL
  BY DEF InSet
<1>3. NULL.file = 0
  BY DEF NULL
<1>4. CASE File
  <2>1. /\ pos <= Len(dir) /\ Kind(pos) = "file" /\ node' = NewNode(pos)
        /\ pos' = pos /\ phase' = "next"
    BY <1>4 DEF File, Reading, Kind, E
  <2>2. pos \in FileEntries /\ Upto' = pos
    BY <1>2, <2>1 DEF FileEntries, Upto
  <2>3. node' = NodeUpto(pos, pos)
    <3>1. \A t : OfKind(Seconds(pos, pos), t) = {}
      BY <1>2 DEF OfKind, Seconds
    <3>2. Last({}) = 0 /\ Cardinality({}) = 0
      BY FS_EmptySet DEF Last
    <3>3. NodeUpto(pos, pos) = [file |-> pos, info |-> 0, names |-> 0, contiguous |-> FALSE]
      BY <3>1, <3>2 DEF NodeUpto
    <3> QED BY <2>1, <3>3 DEF NewNode
  <2> QED BY <1>1, <1>2, <2>2, <2>3, NodeSoFarKept
<1>5. CASE FileInfo
  <2>1. /\ phase = "entry" /\ pos <= Len(dir) /\ Kind(pos) = "info" /\ continuations >= 2
        /\ node' = [node EXCEPT !.info = pos,
                                !.contiguous = node.contiguous \/ dir[pos].contiguous]
        /\ pos' = pos /\ phase' = "next"
    BY <1>5 DEF FileInfo, Reading, Kind, E
  <2>2. node.file # 0
    BY <1>2, <2>1 DEF InSet
  <2> QED BY <1>1, <2>1, <2>2, NodeGiven
<1>6. CASE FileName
  <2>1. /\ phase = "entry" /\ pos <= Len(dir) /\ Kind(pos) = "name" /\ continuations > 0
        /\ node' = [node EXCEPT !.names = node.names + 1]
        /\ pos' = pos /\ phase' \in {"next", "emit"}
    BY <1>6 DEF FileName, Reading, Kind, E
  <2> QED BY <1>1, <1>2, <2>1, NodeGiven
<1>7. CASE Upcase \/ Bitmap \/ Label \/ Deleted \/ Optional
  <2>1. /\ phase = "entry" /\ pos <= Len(dir)
        /\ Kind(pos) \in {"upcase", "bitmap", "label", "deleted", "optional"}
        /\ node' = node /\ pos' = pos /\ phase' = "next"
    BY <1>7 DEF Upcase, Bitmap, Label, Deleted, Optional, Reading, Kind, E, set
  <2>2. CASE node.file = 0
    BY <2>1, <2>2 DEF NodeSoFar
  <2>3. CASE node.file # 0
    <3>1. Kind(pos) \notin {"info", "name", "file"}
      BY <2>1
    <3> QED BY <1>1, <2>1, <2>3, <3>1, NodeGiven
  <2> QED BY <2>2, <2>3
<1>8. CASE Fetch \/ UNCHANGED vars
  <2>1. node' = node /\ Upto' = Upto /\ (Busy' => Busy)
    <3>1. CASE Fetch
      BY <1>2, <3>1 DEF Fetch, set, Upto, Busy
    <3>2. CASE UNCHANGED vars
      BY <3>2 DEF vars, Upto, Busy
    <3> QED BY <1>8, <3>1, <3>2
  <2>2. CASE Busy' /\ node.file # 0
    <3>1. PICK k \in FileEntries, m \in Nat : m = Upto /\ Fills(k, m)
      BY <2>1, <2>2 DEF NodeSoFar
    <3> QED BY <1>1, <2>1, <3>1, NodeSoFarKept DEF Fills
  <2>3. CASE ~(Busy' /\ node.file # 0)
    BY <2>1, <2>3 DEF NodeSoFar
  <2> QED BY <2>2, <2>3
<1>9. CASE Open \/ Emit
  <2>1. node' = NULL
    BY <1>2, <1>9 DEF Open, Emit, set
  <2> QED BY <1>3, <2>1 DEF NodeSoFar
<1>10. CASE OpenFails \/ EndOfDirectory \/ FileNameFaults \/ Reject \/ CheckNodeAborts
            \/ FetchFails \/ EntryFails \/ BitmapFails
  <2>1. phase' \in {"cached", "failed", "aborted", "fault"}
    BY <1>10 DEF OpenFails, EndOfDirectory, FileNameFaults, Reject, CheckNodeAborts,
                 FetchFails, EntryFails, BitmapFails, Error
  <2> QED BY <2>1 DEF NodeSoFar, Busy
<1> QED
  BY <1>4, <1>5, <1>6, <1>7, <1>8, <1>9, <1>10 DEF Next

LEMMA StepCompleteSoFar == InSet /\ CompleteSoFar /\ [Next]_vars => CompleteSoFar'
<1> SUFFICES ASSUME InSet, CompleteSoFar, [Next]_vars PROVE CompleteSoFar'
  OBVIOUS
<1>1. dir' = dir
  BY DirStays
<1>2. /\ dir \in Seq(Entry) /\ Len(dir) \in Nat /\ DOMAIN dir = 1 .. Len(dir)
      /\ pos \in Nat /\ continuations \in Nat
  BY DEF InSet
<1>3. /\ FileEntries' = FileEntries
      /\ \A k : Kind(k)' = Kind(k)
      /\ \A k, m : Seconds(k, m)' = Seconds(k, m)
  BY <1>1, EntriesStay
<1>4. CASE FileName /\ phase' = "emit"
  <2>1. /\ phase = "entry" /\ pos <= Len(dir) /\ Kind(pos) = "name" /\ continuations = 1
        /\ pos' = pos
        /\ node' = [node EXCEPT !.names = node.names + 1]
    BY <1>4 DEF FileName, Reading, Kind, E
  <2>2. node.file # 0 /\ node \in NodeType
    BY <2>1 DEF InSet, NULL
  <2>3. node'.file = node.file
    BY <2>1, <2>2 DEF NodeType
  <2>4. ASSUME NEW k \in FileEntries, node.file = k PROVE Complete(k, pos)
    <3>1. Filling(k) /\ Upto = pos - 1
      BY <1>2, <2>1, <2>4 DEF InSet, FileEntries, Upto
    <3>2. /\ k \in Nat /\ k <= pos - 1
          /\ Cardinality(Seconds(k, pos - 1)) + 1 = dir[k].continuations
      BY <1>2, <2>1, <3>1 DEF Filling
    <3>3. PICK m \in Nat : m = pos - 1
      BY <1>2, <3>2
    <3>4. m + 1 = pos /\ k <= m
      BY <1>2, <3>2, <3>3
    <3>5. IsSecondary(m + 1)
      BY <2>1, <3>4 DEF IsSecondary
    <3>6. Cardinality(Seconds(k, m + 1)) = Cardinality(Seconds(k, m)) + 1
      BY <3>2, <3>4, <3>5, SecondsGrow
    <3>7. Cardinality(Seconds(k, pos)) = dir[k].continuations
      BY ONLY <3>2, <3>3, <3>4, <3>6, Zenon
    <3> QED BY <2>1, <3>7 DEF Complete
  <2> QED BY <1>1, <1>3, <2>1, <2>3, <2>4 DEF CompleteSoFar, Complete
<1>5. CASE UNCHANGED vars
  <2>1. phase' = phase /\ node' = node /\ pos' = pos
    BY <1>5 DEF vars
  <2> QED BY <1>1, <1>3, <2>1 DEF CompleteSoFar, Complete
<1>6. CASE Next /\ ~(FileName /\ phase' = "emit")
  <2>1. phase' # "emit"
    BY <1>6 DEF Next, Open, OpenFails, EndOfDirectory, File, FileInfo,
           FileNameFaults, Upcase, Bitmap, Label, Deleted, Optional, Reject,
           CheckNodeAborts, Fetch, Emit, FetchFails, EntryFails, BitmapFails, Error
  <2> QED BY <2>1 DEF CompleteSoFar
<1> QED BY <1>4, <1>5, <1>6

\* A step that links no node: the files met before that are not dropped, but
\* for the one that is read, are the same.
LEMMA ListKept ==
    ASSUME ListSoFar, Busy, dir' = dir, children' = children, phase' # "open",
           \A f \in FileEntries :
             ~Dropped(f) =>
               ((f <= Upto' /\ f # node'.file) <=> (f <= Upto /\ f # node.file)),
           phase' = "cached" => pos' = Len(dir) + 1 /\ node'.file = 0
    PROVE  ListSoFar'
<1>1. /\ FileEntries' = FileEntries
      /\ \A k : NodeOf(k)' = NodeOf(k)
      /\ \A k : Dropped(k)' = Dropped(k)
  BY EntriesStay
<1>2. /\ {children[i].file : i \in DOMAIN children}
           = {f \in FileEntries : f <= Upto /\ f # node.file /\ ~Dropped(f)}
      /\ \A i, j \in DOMAIN children : i < j => children[i].file < children[j].file
      /\ \A i \in DOMAIN children, k \in FileEntries :
           children[i].file = k => children[i] = NodeOf(k)
  BY Zenon DEF ListSoFar
<1>3. {f \in FileEntries' : f <= Upto' /\ f # node'.file /\ ~Dropped(f)'}
        = {f \in FileEntries : f <= Upto /\ f # node.file /\ ~Dropped(f)}
  BY <1>1
<1>4. /\ {children'[i].file : i \in DOMAIN children'}
           = {f \in FileEntries' : f <= Upto' /\ f # node'.file /\ ~Dropped(f)'}
      /\ \A i, j \in DOMAIN children' : i < j => children'[i].file < children'[j].file
      /\ \A i \in DOMAIN children', k \in FileEntries' :
           children'[i].file = k => children'[i] = NodeOf(k)'
  BY <1>1, <1>2, <1>3
<1>5. phase' = "cached" => pos' = Len(dir') + 1 /\ node'.file = 0
  OBVIOUS
<1> QED BY <1>4, <1>5, Zenon DEF ListSoFar

LEMMA StepListSoFar ==
    /\ InSet /\ TypeOK /\ NodeSoFar /\ CompleteSoFar /\ ListSoFar
    /\ [Next]_vars
    => ListSoFar'
<1> SUFFICES ASSUME InSet, TypeOK, NodeSoFar, CompleteSoFar, ListSoFar, [Next]_vars
             PROVE  ListSoFar'
  OBVIOUS
<1>1. dir' = dir
  BY DirStays
<1>2. /\ dir \in Seq(Entry) /\ Len(dir) \in Nat /\ DOMAIN dir = 1 .. Len(dir)
      /\ pos \in Nat /\ pos \in 1 .. Len(dir) + 1
  BY DEF InSet
<1>3. FileEntries \subseteq DOMAIN dir /\ FileEntries \subseteq Nat /\ 0 \notin FileEntries
  BY <1>2 DEF FileEntries
<1>4. NULL.file = 0
  BY DEF NULL
<1>5. CASE Open
  <2>1. /\ phase = "open" /\ phase' = "entry" /\ pos' = pos /\ children' = children
    BY <1>5 DEF Open
  <2>2. children = <<>> /\ pos = 1
    BY <2>1 DEF ListSoFar
  <2>3. {f \in FileEntries' : f <= Upto' /\ f # node'.file /\ ~Dropped(f)'} = {}
    <3>1. FileEntries' = FileEntries /\ Upto' = 0
      BY <1>1, <2>1, <2>2, EntriesStay DEF Upto
    <3>2. ~ \E f \in FileEntries : f <= 0
      BY <1>2, <1>3
    <3> QED BY <3>1, <3>2
  <2>4. {children'[i].file : i \in DOMAIN children'} = {} /\ DOMAIN children' = {}
    BY <2>1, <2>2
  <2> QED BY <2>1, <2>3, <2>4 DEF ListSoFar
<1>6. CASE EndOfDirectory
  <2>1. /\ phase = "entry" /\ pos > Len(dir) /\ continuations = 0 /\ phase' = "cached"
        /\ node' = NULL /\ pos' = pos /\ children' = children
    BY <1>6 DEF EndOfDirectory
  <2>2. pos = Len(dir) + 1 /\ Upto = pos - 1 /\ Upto' = pos
    BY <1>2, <2>1 DEF Upto
  <2>3. node.file # 0 => Dropped(node.file)
    BY <2>1, ZeroIsDropped
  <2>4. \A f \in FileEntries :
          ~Dropped(f) => ((f <= Upto' /\ f # node'.file) <=> (f <= Upto /\ f # node.file))
    <3> SUFFICES ASSUME NEW f \in FileEntries, ~Dropped(f)
                 PROVE  f <= Upto' /\ f # node'.file /\ f <= Upto /\ f # node.file
      OBVIOUS
    <3>1. f # 0 /\ f <= Len(dir) /\ f \in Nat
      BY <1>2, <1>3
    <3>2. f # node.file
      BY <2>3, <3>1
    <3> QED BY <1>2, <1>4, <2>1, <2>2, <3>1, <3>2
  <2> QED BY <1>1, <1>4, <2>1, <2>2, <2>4, ListKept DEF Busy
<1>7. CASE File
  <2>1. /\ phase = "entry" /\ pos <= Len(dir) /\ continuations = 0 /\ phase' = "next"
        /\ node' = NewNode(pos) /\ pos' = pos /\ children' = children
    BY <1>7 DEF File, Reading
  <2>2. node'.file = pos /\ Upto = pos - 1 /\ Upto' = pos
    BY <2>1 DEF NewNode, Upto
  <2>3. node.file # 0 => Dropped(node.file)
    BY <2>1, ZeroIsDropped
  <2>4. \A f \in FileEntries :
          ~Dropped(f) => ((f <= Upto' /\ f # node'.file) <=> (f <= Upto /\ f # node.file))
    <3> SUFFICES ASSUME NEW f \in FileEntries, ~Dropped(f)
                 PROVE  (f <= Upto' /\ f # node'.file) <=> (f <= Upto /\ f # node.file)
      OBVIOUS
    <3>1. f # 0 /\ f \in Nat
      BY <1>2, <1>3
    <3>2. f # node.file
      BY <2>3, <3>1
    <3>3. (f <= pos /\ f # pos) <=> f <= pos - 1
      BY <1>2, <3>1
    <3> QED BY <2>2, <3>2, <3>3
  <2> QED BY <1>1, <2>1, <2>4, ListKept DEF Busy
<1>8. CASE FileInfo \/ FileName \/ Upcase \/ Bitmap \/ Label \/ Deleted \/ Optional
  <2>1. /\ phase = "entry" /\ pos <= Len(dir) /\ Kind(pos) # "file"
        /\ phase' \in {"next", "emit"} /\ pos' = pos /\ children' = children
    BY <1>8 DEF FileInfo, FileName, Upcase, Bitmap, Label, Deleted, Optional,
                Reading, Kind, E
  <2>2. node'.file = node.file
    <3>1. node' = node \/ FileInfo \/ FileName
      BY <1>8 DEF Upcase, Bitmap, Label, Deleted, Optional, set
    <3>2. ASSUME FileInfo \/ FileName PROVE node'.file = node.file
      <4>1. continuations > 0
        BY <3>2 DEF FileInfo, FileName, InSet
      <4>2. node \in NodeType
        BY <2>1, <4>1 DEF InSet, NULL
      <4>3. \/ node' = [node EXCEPT !.info = pos,
                                    !.contiguous = node.contiguous \/ E.contiguous]
            \/ node' = [node EXCEPT !.names = node.names + 1]
        BY <3>2 DEF FileInfo, FileName
      <4> QED BY <4>2, <4>3, Zenon DEF NodeType
    <3> QED BY <3>1, <3>2
  <2>3. Upto = pos - 1 /\ Upto' = pos
    BY <2>1 DEF Upto
  <2>4. \A f \in FileEntries : f <= pos <=> f <= pos - 1
    <3>1. pos \notin FileEntries
      BY <2>1 DEF FileEntries
    <3> QED BY <1>2, <1>3, <3>1
  <2> QED BY <1>1, <2>1, <2>2, <2>3, <2>4, ListKept DEF Busy
<1>9. CASE Fetch
  <2>1. /\ phase = "next" /\ phase' = "entry" /\ pos' = pos + 1 /\ node' = node
        /\ children' = children
    BY <1>9 DEF Fetch, set
  <2>2. Upto' = Upto
    BY <1>2, <2>1 DEF Upto
  <2> QED BY <1>1, <2>1, <2>2, ListKept DEF Busy
<1>10. CASE Emit
  <2>1. /\ phase = "emit" /\ phase' = "entry" /\ pos' = pos + 1 /\ node' = NULL
        /\ children' = Append(children, node)
    BY <1>10 DEF Emit
  <2>2. Busy /\ node.file # 0 /\ Upto = pos /\ Upto' = pos /\ pos <= Len(dir)
    BY <1>2, <2>1 DEF InSet, Busy, Upto
  <2>3. PICK k \in FileEntries, m \in Nat : m = pos /\ Fills(k, m)
    BY <2>2 DEF NodeSoFar
  <2>4. /\ k \in Nat /\ k <= pos /\ node = NodeUpto(k, pos)
        /\ \A f \in FileEntries : f <= pos => f <= k
    BY <1>3, <2>3 DEF Fills
  <2>5. node.file = k
    BY <2>4 DEF NodeUpto
  <2>6. Kind(pos) = "name" /\ Cardinality(Seconds(k, pos)) = dir[k].continuations
    BY <2>1, <2>5 DEF CompleteSoFar, Complete
  <2>7. Owned(k) = Seconds(k, pos)
    <3>1. Cardinality(Seconds(k, pos)) \in Nat
      BY <1>2, <2>4, SecondsGrow
    <3> QED BY <1>2, <2>2, <2>4, <2>6, <3>1, OwnedIsMet
  <2>8. node = NodeOf(k)
    BY <2>4, <2>7, Zenon DEF NodeUpto, NodeOf
  <2>9. ~Dropped(k)
    <3>1. pos # k
      BY <2>3, <2>6 DEF FileEntries
    <3>2. pos \in Seconds(k, pos) /\ Seconds(k, pos) \in SUBSET Nat
          /\ \A l \in Seconds(k, pos) : l <= pos
      BY <1>2, <2>4, <2>6, <3>1 DEF Seconds, IsSecondary
    <3>3. Last(Owned(k)) = pos
      BY <2>7, <3>2, LastIs
    <3> QED BY <2>6, <3>3 DEF Dropped
  <2>10. /\ \E S : children \in Seq(S)
         /\ \A i, j \in DOMAIN children : i < j => children[i].file < children[j].file
         /\ \A i \in DOMAIN children, f \in FileEntries :
              children[i].file = f => children[i] = NodeOf(f)
         /\ {children[i].file : i \in DOMAIN children}
              = {f \in FileEntries : f <= pos /\ f # k /\ ~Dropped(f)}
    <3>1. \E S : children \in Seq(S)
      BY DEF TypeOK
    <3> QED BY <2>2, <2>5, <3>1, Zenon DEF ListSoFar
  <2>11. PICK n \in Nat :
           /\ DOMAIN children = 1 .. n /\ DOMAIN children' = 1 .. n + 1
           /\ \A i \in 1 .. n : children'[i] = children[i]
           /\ children'[n + 1] = node
    <3>1. PICK S : children \in Seq(S)
      BY <2>10
    <3>2. children \in Seq(S \cup {node})
      BY <3>1
    <3>3. /\ children' \in Seq(S \cup {node}) /\ Len(children') = Len(children) + 1
          /\ \A i \in 1 .. Len(children) : children'[i] = children[i]
          /\ children'[Len(children) + 1] = node
      BY <2>1, <3>2, AppendProperties
    <3>4. Len(children) \in Nat /\ DOMAIN children = 1 .. Len(children)
          /\ DOMAIN children' = 1 .. Len(children')
      BY <3>2, <3>3, LenProperties
    <3> QED BY <3>3, <3>4
  <2>12. \A i \in 1 .. n : children[i].file \in FileEntries /\ children[i].file < k
    <3> SUFFICES ASSUME NEW i \in 1 .. n
                 PROVE  children[i].file \in FileEntries /\ children[i].file < k
      OBVIOUS
    <3>1. PICK f : f = children[i].file
      OBVIOUS
    <3>2. f \in FileEntries /\ f <= pos /\ f # k
      BY <2>10, <2>11, <3>1
    <3>3. f <= k /\ f \in Nat
      BY <1>3, <2>4, <3>2
    <3>4. f < k
      BY <2>4, <3>2, <3>3
    <3> QED BY <3>1, <3>2, <3>4
  <2>13. \A i, j \in DOMAIN children' : i < j => children'[i].file < children'[j].file
    <3> SUFFICES ASSUME NEW i \in 1 .. n + 1, NEW j \in 1 .. n + 1, i < j
                 PROVE  children'[i].file < children'[j].file
      BY <2>11
    <3>1. i \in 1 .. n
      OBVIOUS
    <3>2. CASE j \in 1 .. n
      BY <2>10, <2>11, <3>1, <3>2
    <3>3. CASE j = n + 1
      BY <2>5, <2>11, <2>12, <3>1, <3>3
    <3> QED BY <3>2, <3>3
  <2>14. \A i \in DOMAIN children', f \in FileEntries :
           children'[i].file = f => children'[i] = NodeOf(f)
    <3> SUFFICES ASSUME NEW i \in 1 .. n + 1, NEW f \in FileEntries, children'[i].file = f
                 PROVE  children'[i] = NodeOf(f)
      BY <2>11
    <3>1. CASE i \in 1 .. n
      BY <2>10, <2>11, <3>1
    <3>2. CASE i = n + 1
      BY <2>5, <2>8, <2>11, <3>2
    <3> QED BY <3>1, <3>2
  <2>15. {children'[i].file : i \in DOMAIN children'}
           = {f \in FileEntries : f <= pos /\ f # 0 /\ ~Dropped(f)}
    <3>1. {children'[i].file : i \in DOMAIN children'}
            = {children[i].file : i \in DOMAIN children} \cup {k}
      <4>1. 1 .. n + 1 = (1 .. n) \cup {n + 1}
        OBVIOUS
      <4> QED BY <2>5, <2>11, <4>1
    <3>2. {f \in FileEntries : f <= pos /\ f # k /\ ~Dropped(f)} \cup {k}
            = {f \in FileEntries : f <= pos /\ f # 0 /\ ~Dropped(f)}
      BY <1>3, <2>3, <2>4, <2>9
    <3> QED BY <2>10, <3>1, <3>2
  <2>16. /\ FileEntries' = FileEntries
         /\ \A f : NodeOf(f)' = NodeOf(f)
         /\ \A f : Dropped(f)' = Dropped(f)
    BY <1>1, EntriesStay
  <2>17. {children'[i].file : i \in DOMAIN children'}
           = {f \in FileEntries' : f <= Upto' /\ f # node'.file /\ ~Dropped(f)'}
    BY <1>4, <2>1, <2>2, <2>15, <2>16
  <2>18. \A i \in DOMAIN children', f \in FileEntries' :
           children'[i].file = f => children'[i] = NodeOf(f)'
    BY <2>14, <2>16
  <2>19. phase' # "open" /\ phase' # "cached"
    BY <2>1
  <2> QED BY ONLY <2>13, <2>17, <2>18, <2>19, Zenon DEF ListSoFar
<1>11. CASE OpenFails \/ FileNameFaults \/ Reject \/ CheckNodeAborts
            \/ FetchFails \/ EntryFails \/ BitmapFails
  <2>1. phase' \in {"failed", "aborted", "fault"}
    BY <1>11 DEF OpenFails, FileNameFaults, Reject, CheckNodeAborts,
                 FetchFails, EntryFails, BitmapFails, Error
  <2> QED BY <2>1 DEF ListSoFar, Busy
<1>12. CASE UNCHANGED vars
  <2>1. phase' = phase /\ pos' = pos /\ node' = node /\ children' = children
    BY <1>12 DEF vars
  <2>2. Upto' = Upto
    BY <2>1 DEF Upto
  <2>3. /\ FileEntries' = FileEntries
        /\ \A f : NodeOf(f)' = NodeOf(f)
        /\ \A f : Dropped(f)' = Dropped(f)
    BY <1>1, EntriesStay
  <2>4. {f \in FileEntries' : f <= Upto' /\ f # node'.file /\ ~Dropped(f)'}
          = {f \in FileEntries : f <= Upto /\ f # node.file /\ ~Dropped(f)}
    BY <2>1, <2>2, <2>3
  <2>5. /\ phase = "open" => children = <<>> /\ pos = 1
        /\ Busy \/ phase = "cached" =>
             /\ {children[i].file : i \in DOMAIN children}
                  = {f \in FileEntries : f <= Upto /\ f # node.file /\ ~Dropped(f)}
             /\ \A i, j \in DOMAIN children :
                  i < j => children[i].file < children[j].file
             /\ \A i \in DOMAIN children, k \in FileEntries :
                  children[i].file = k => children[i] = NodeOf(k)
        /\ phase = "cached" => pos = Len(dir) + 1 /\ node.file = 0
    BY Zenon DEF ListSoFar
  <2>6. /\ phase' = "open" => children' = <<>> /\ pos' = 1
        /\ phase' = "cached" => pos' = Len(dir') + 1 /\ node'.file = 0
    BY <1>1, <2>1, <2>5
  <2>7. CASE Busy' \/ phase' = "cached"
    <3>1. Busy \/ phase = "cached"
      BY <2>1, <2>7 DEF Busy
    <3>2. /\ {children'[i].file : i \in DOMAIN children'}
               = {f \in FileEntries' : f <= Upto' /\ f # node'.file /\ ~Dropped(f)'}
          /\ \A i, j \in DOMAIN children' :
               i < j => children'[i].file < children'[j].file
          /\ \A i \in DOMAIN children', k \in FileEntries' :
               children'[i].file = k => children'[i] = NodeOf(k)'
      BY <2>1, <2>3, <2>4, <2>5, <3>1
    <3> QED BY ONLY <2>6, <3>2, Zenon DEF ListSoFar
  <2>8. CASE ~(Busy' \/ phase' = "cached")
    BY ONLY <2>6, <2>8, Zenon DEF ListSoFar
  <2> QED BY <2>7, <2>8
<1> QED
  BY <1>5, <1>6, <1>7, <1>8, <1>9, <1>10, <1>11, <1>12 DEF Next

-----------------------------------------------------------------------------
(* Sound directories.  Nothing stands between the entries of a sound set,   *)
(* so the node that is filled and the count tell where in the set pos is.  *)

InSound(k) ==
    /\ k <= Upto
    /\ continuations = dir[k].continuations - (Upto - k)
    /\ checksum = SubSeq(dir, k + 1, Upto)
    /\ Upto = k => node.info = 0 /\ node.contiguous = FALSE
    /\ Upto > k => node.info = k + 1 /\ node.contiguous = dir[k + 1].contiguous

SoundSoFar ==
    SoundDirectory /\ ~ioFailed =>
        /\ phase \notin {"failed", "fault", "aborted"}
        /\ phase = "open" => pos = 1 /\ continuations = 0
        /\ Busy /\ continuations > 0 => \E k \in FileEntries : node.file = k /\ InSound(k)
        /\ Busy => \A f \in FileEntries :
                     f <= Upto /\ (continuations > 0 => f # node.file) =>
                         f + dir[f].continuations <= Upto

\* A set whose names fit announces no more entries than readdir() takes.
LEMMA SoundCount ==
    ASSUME NEW c \in Nat, c >= 2, (c - 2) * EXFAT_ENAME_MAX < EXFAT_NAME_MAX
    PROVE  c \in 2 .. MaxContinuations
<1> DEFINE q == DIV_ROUND_UP(EXFAT_NAME_MAX, EXFAT_ENAME_MAX)
           m == EXFAT_NAME_MAX
           e == EXFAT_ENAME_MAX
<1>1. m \in Nat /\ e \in Nat \ {0}
  BY SizesAssumption
<1>2. q \in Int /\ (q + 1) * e > m + e - 1
  BY <1>1, SMT DEF DIV_ROUND_UP
<1>3. (c - 2) * e + e <= m + e - 1
  <2>1. (c - 2) * e \in Int
    BY <1>1
  <2> QED BY <1>1, <2>1
<1>4. (c - 1) * e = (c - 2) * e + e
  BY <1>1, SMT
<1>5. c - 1 < q + 1
  <2> HIDE DEF q
  <2>1. (c - 1) * e < (q + 1) * e
    <3>1. (c - 1) * e \in Int /\ (q + 1) * e \in Int
      BY <1>1, <1>2
    <3> QED BY <1>1, <1>2, <1>3, <1>4, <3>1
  <2>2. CASE c - 1 >= q + 1
    <3>1. PICK d \in Nat : c - 1 = q + 1 + d
      BY <1>2, <2>2
    <3>2. (c - 1) * e = (q + 1) * e + d * e
      BY <1>1, <1>2, <3>1, SMT
    <3>3. d * e >= 0
      BY <1>1, SMT
    <3>4. (q + 1) * e \in Int /\ d * e \in Int
      BY <1>1, <1>2
    <3> QED BY <2>1, <3>2, <3>3, <3>4
  <2> QED BY <1>2, <2>2
<1> HIDE DEF q
<1> QED BY <1>2, <1>5 DEF MaxContinuations, q

\* What a sound set is made of, entry by entry.
LEMMA SoundSet ==
    ASSUME dir \in Seq(Entry), SoundDirectory, NEW k \in FileEntries
    PROVE  /\ dir[k].continuations \in 2 .. MaxContinuations
           /\ dir[k].continuations \in Nat
           /\ k + dir[k].continuations <= Len(dir)
           /\ Kind(k + 1) = "info" /\ dir[k + 1].flags /\ dir[k + 1].rest
           /\ dir[k + 1].contiguous \in BOOLEAN
           /\ dir[k + 1].empty => ~dir[k + 1].contiguous
           /\ \A j \in k + 2 .. k + dir[k].continuations : Kind(j) = "name"
           /\ SubSeq(dir, k + 1, k + dir[k].continuations) = dir[k].checksum
<1> DEFINE c == dir[k].continuations
           after == SubSeq(dir, k + 1, k + c)
<1>1. /\ Len(dir) \in Nat /\ DOMAIN dir = 1 .. Len(dir) /\ k \in Nat \ {0}
      /\ k \in DOMAIN dir /\ Kind(k) = "file" /\ dir[k] \in Entry
  BY ElementOfSeq DEF FileEntries
<1>2. c \in Nat
  BY <1>1 DEF Entry, FileEntry, InfoEntry, NameEntry, SystemEntry, OtherEntry, Kind
<1>3. /\ c >= 2 /\ k + c <= Len(dir)
      /\ (c - 2) * EXFAT_ENAME_MAX < EXFAT_NAME_MAX
      /\ after = dir[k].checksum
      /\ after[1] \in InfoEntry /\ after[1].flags /\ after[1].rest
      /\ after[1].empty => ~after[1].contiguous
      /\ \A i \in 2 .. c : after[i] \in NameEntry
  <2>1. Sound(k)
    BY DEF SoundDirectory
  <2> QED BY <2>1, Zenon DEF Sound
<1> HIDE DEF c
<1>4. \A i \in 1 .. c : after[i] = dir[k + i]
  <2>1. \A i \in k + 1 .. k + c : dir[i] \in Entry
    BY <1>1, <1>2, <1>3, ElementOfSeq
  <2>2. \A i \in 1 .. (k + c) - (k + 1) + 1 : after[i] = dir[k + 1 + i - 1]
    <3>1. k + 1 \in Int /\ k + c \in Int
      BY <1>1, <1>2
    <3> QED BY ONLY <2>1, <3>1, SubSeqProperties
  <2>3. \A i \in 1 .. c : i \in 1 .. (k + c) - (k + 1) + 1 /\ k + 1 + i - 1 = k + i
    BY <1>1, <1>2
  <2> HIDE DEF after
  <2> QED BY ONLY <2>2, <2>3
<1>5. after[1] = dir[k + 1]
  <2>1. 1 \in 1 .. c
    BY <1>2, <1>3
  <2> HIDE DEF after
  <2> QED BY <1>4, <2>1
<1>6. \A j \in k + 2 .. k + c : Kind(j) = "name"
  <2> SUFFICES ASSUME NEW j \in k + 2 .. k + c PROVE Kind(j) = "name"
    OBVIOUS
  <2>1. PICK i \in 2 .. c : j = k + i
    BY <1>1, <1>2
  <2>2. dir[j] \in NameEntry
    <3>1. i \in 1 .. c
      BY <1>2
    <3> HIDE DEF after
    <3> QED BY <1>3, <1>4, <2>1, <3>1
  <2> QED BY <2>2 DEF NameEntry, Kind
<1>7. c \in 2 .. MaxContinuations
  BY <1>2, <1>3, SoundCount
<1> HIDE DEF after
<1>8. Kind(k + 1) = "info" /\ dir[k + 1].contiguous \in BOOLEAN
  BY <1>3, <1>5 DEF InfoEntry, Kind
<1>9. dir[k + 1].flags /\ dir[k + 1].rest /\ (dir[k + 1].empty => ~dir[k + 1].contiguous)
  BY <1>3, <1>5
<1> QED BY <1>2, <1>3, <1>6, <1>7, <1>8, <1>9 DEF c, after

\* An entry that no set before it reaches stands by itself.
LEMMA StandsAlone ==
    ASSUME dir \in Seq(Entry), SoundDirectory, NEW j \in DOMAIN dir,
           \A f \in FileEntries : f < j => f + dir[f].continuations < j
    PROVE  \/ Kind(j) \in {"deleted", "file"}
           \/ Kind(j) \in {"upcase", "bitmap", "label"} /\ dir[j].sound
<1>1. \/ Kind(j) \in {"deleted", "file"}
      \/ Kind(j) \in {"upcase", "bitmap", "label"} /\ dir[j].sound
      \/ \E k \in FileEntries : j \in k + 1 .. k + dir[k].continuations
  BY DEF SoundDirectory
<1>2. ASSUME NEW k \in FileEntries, j \in k + 1 .. k + dir[k].continuations
      PROVE  FALSE
  <2>1. k \in Nat /\ dir[k].continuations \in Nat /\ j \in Nat
    <3>1. dir[k].continuations \in Nat
      BY SoundSet
    <3> QED BY <3>1 DEF FileEntries
  <2>2. k < j /\ j <= k + dir[k].continuations
    BY <1>2, <2>1
  <2>3. k + dir[k].continuations < j
    BY <2>2
  <2> QED BY <2>1, <2>2, <2>3
<1> QED BY <1>1, <1>2

LEMMA SubSeqGrows ==
    ASSUME NEW S, NEW s \in Seq(S), NEW k \in Nat, NEW m \in Nat, k <= m, m < Len(s)
    PROVE  SubSeq(s, k + 1, m + 1) = Append(SubSeq(s, k + 1, m), s[m + 1])
<1>1. /\ Len(s) \in Nat /\ k + 1 \in 1 .. Len(s) /\ m + 1 \in k + 1 .. Len(s)
      /\ (m + 1) - 1 = m
  BY LenProperties
<1>2. SubSeq(s, k + 1, m + 1) = SubSeq(s, k + 1, (m + 1) - 1) \o <<s[m + 1]>>
  BY <1>1, SubSeqRecursiveSecond
<1>3. SubSeq(s, k + 1, m) \in Seq(S) /\ s[m + 1] \in S
  <2>1. \A i \in k + 1 .. m : s[i] \in S
    BY <1>1, ElementOfSeq
  <2>2. k + 1 \in Int /\ m \in Int
    OBVIOUS
  <2> QED BY <1>1, <2>1, <2>2, ElementOfSeq, SubSeqProperties
<1> QED BY <1>1, <1>2, <1>3, AppendIsConcat

\* Where readdir() stands in a sound directory.
LEMMA SoundPosition ==
    ASSUME InSet, SoundDirectory, SoundSoFar, ~ioFailed, phase = "entry"
    PROVE  /\ continuations = 0 /\ pos <= Len(dir) =>
                \/ Kind(pos) \in {"deleted", "file"}
                \/ Kind(pos) \in {"upcase", "bitmap", "label"} /\ dir[pos].sound
           /\ continuations > 0 =>
                \E k \in FileEntries :
                  /\ node.file = k /\ InSound(k)
                  /\ k < pos /\ pos <= k + dir[k].continuations /\ pos <= Len(dir)
                  /\ continuations = dir[k].continuations - (pos - 1 - k)
                  /\ pos = k + 1 => Kind(pos) = "info" /\ continuations >= 2
                  /\ pos # k + 1 => Kind(pos) = "name"
<1>1. /\ dir \in Seq(Entry) /\ Len(dir) \in Nat /\ DOMAIN dir = 1 .. Len(dir)
      /\ pos \in Nat /\ pos \in 1 .. Len(dir) + 1 /\ continuations \in Nat
      /\ Upto = pos - 1 /\ Busy
  BY DEF InSet, Upto, Busy
<1>2. /\ continuations > 0 => \E k \in FileEntries : node.file = k /\ InSound(k)
      /\ \A f \in FileEntries :
           f <= Upto /\ (continuations > 0 => f # node.file) =>
             f + dir[f].continuations <= Upto
  BY <1>1, Zenon DEF SoundSoFar
<1>3. ASSUME continuations = 0, pos <= Len(dir)
      PROVE  \/ Kind(pos) \in {"deleted", "file"}
             \/ Kind(pos) \in {"upcase", "bitmap", "label"} /\ dir[pos].sound
  <2>1. ASSUME NEW f \in FileEntries, f < pos
        PROVE  f + dir[f].continuations < pos
    <3>1. f \in Nat /\ dir[f].continuations \in Nat
      <4>1. dir[f].continuations \in Nat
        BY <1>1, SoundSet
      <4> QED BY <1>1, <4>1 DEF FileEntries
    <3>2. f <= Upto
      BY <1>1, <2>1, <3>1
    <3>3. f + dir[f].continuations <= Upto
      BY <1>2, <1>3, <3>2
    <3> QED BY <1>1, <3>1, <3>3
  <2>2. pos \in DOMAIN dir
    BY <1>1, <1>3
  <2> QED BY <1>1, <2>1, <2>2, StandsAlone
<1>4. ASSUME continuations > 0
      PROVE  \E k \in FileEntries :
               /\ node.file = k /\ InSound(k)
               /\ k < pos /\ pos <= k + dir[k].continuations /\ pos <= Len(dir)
               /\ continuations = dir[k].continuations - (pos - 1 - k)
               /\ pos = k + 1 => Kind(pos) = "info" /\ continuations >= 2
               /\ pos # k + 1 => Kind(pos) = "name"
  <2>1. PICK k \in FileEntries : node.file = k /\ InSound(k)
    BY <1>2, <1>4
  <2>2. k <= pos - 1 /\ continuations = dir[k].continuations - (pos - 1 - k)
    BY <1>1, <2>1 DEF InSound
  <2>3. PICK c \in Nat : c = dir[k].continuations
    BY <1>1, SoundSet
  <2>4. k \in Nat /\ c >= 2 /\ k + c <= Len(dir)
    <3>1. dir[k].continuations \in 2 .. MaxContinuations
          /\ k + dir[k].continuations <= Len(dir)
      BY <1>1, SoundSet
    <3> QED BY <1>1, <2>3, <3>1, MaxInt DEF FileEntries
  <2>5. k < pos /\ pos <= k + c /\ pos <= Len(dir)
    BY <1>1, <1>4, <2>2, <2>3, <2>4
  <2>6. Kind(k + 1) = "info" /\ \A j \in k + 2 .. k + c : Kind(j) = "name"
    BY <1>1, <2>3, SoundSet
  <2>7. pos = k + 1 => Kind(pos) = "info" /\ continuations >= 2
    <3>1. pos = k + 1 => continuations = c
      BY <1>1, <2>2, <2>3, <2>4
    <3> QED BY <2>4, <2>6, <3>1
  <2>8. pos # k + 1 => Kind(pos) = "name"
    <3>1. pos # k + 1 => pos \in k + 2 .. k + c
      BY <1>1, <2>4, <2>5
    <3> QED BY <2>6, <3>1
  <2> QED BY <2>1, <2>2, <2>3, <2>5, <2>7, <2>8
<1> QED BY <1>3, <1>4

\* readdir() has no reason to refuse an entry of a sound directory.
LEMMA SoundNotRejected ==
    ASSUME InSet, Counted, SoundDirectory, SoundSoFar, ~ioFailed, phase = "entry"
    PROVE  ~Rejected /\ ~CheckNodeFails /\ ~FileNameFaults
<1>1. /\ dir \in Seq(Entry) /\ Len(dir) \in Nat /\ DOMAIN dir = 1 .. Len(dir)
      /\ pos \in Nat /\ pos \in 1 .. Len(dir) + 1 /\ continuations \in Nat
      /\ Upto = pos - 1
  BY DEF InSet, Upto
<1>2. \A type : Reading(type) => pos <= Len(dir) /\ Kind(pos) = type
  BY DEF Reading, Kind, E
<1>3. CASE continuations = 0
  <2>1. ~CheckNodeFails /\ ~FileNameFaults
    BY <1>3 DEF CheckNodeFails, FileNameFaults
  <2>2. ASSUME pos <= Len(dir) PROVE ~Rejected
    <3>1. \/ Kind(pos) \in {"deleted", "file"}
          \/ Kind(pos) \in {"upcase", "bitmap", "label"} /\ dir[pos].sound
      BY <1>3, <2>2, SoundPosition
    <3>2. Kind(pos) = "file" => E.continuations \in 2 .. MaxContinuations
      <4>1. Kind(pos) = "file" => pos \in FileEntries
        BY <1>1, <2>2 DEF FileEntries
      <4> QED BY <1>1, <4>1, SoundSet DEF E
    <3>3. Kind(pos) \in {"upcase", "bitmap", "label"} => E.sound
      BY <3>1 DEF E
    <3> QED BY <1>2, <1>3, <2>1, <3>1, <3>2, <3>3 DEF Rejected
  <2>3. ASSUME ~(pos <= Len(dir)) PROVE ~Rejected
    BY <1>2, <1>3, <2>1, <2>3 DEF Rejected
  <2> QED BY <2>1, <2>2, <2>3
<1>4. CASE continuations > 0
  <2>1. PICK k \in FileEntries :
          /\ node.file = k /\ InSound(k)
          /\ k < pos /\ pos <= k + dir[k].continuations /\ pos <= Len(dir)
          /\ continuations = dir[k].continuations - (pos - 1 - k)
          /\ pos = k + 1 => Kind(pos) = "info" /\ continuations >= 2
          /\ pos # k + 1 => Kind(pos) = "name"
    BY <1>4, SoundPosition, Zenon
  <2>2. /\ dir[k].continuations \in Nat
        /\ dir[k + 1].flags /\ dir[k + 1].rest
        /\ dir[k + 1].empty => ~dir[k + 1].contiguous
        /\ SubSeq(dir, k + 1, k + dir[k].continuations) = dir[k].checksum
    BY <1>1, SoundSet, Zenon
  <2>3. k \in Nat
    BY <1>1 DEF FileEntries
  <2>4. node \in NodeType /\ Given(node) + continuations <= MaxContinuations
    BY <1>4 DEF Counted
  <2>5. ASSUME pos # k + 1
        PROVE  node.info = k + 1 /\ node.contiguous = dir[k + 1].contiguous
    <3>1. Upto > k
      BY <1>1, <2>1, <2>3, <2>5
    <3> QED BY <2>1, <3>1 DEF InSound
  <2>6. ASSUME pos # k + 1 PROVE Room >= 0
    <3>1. node.names \in Nat /\ node.names + 1 + continuations <= MaxContinuations
      BY <2>3, <2>4, <2>5, <2>6 DEF Given, NodeType
    <3>2. node.names + 2 <= MaxContinuations
      BY <1>1, <1>4, <3>1, MaxInt
    <3> QED BY <3>1, <3>2, RoomLeft DEF Room
  <2>7. ~FileNameFaults
    <3> SUFFICES ASSUME FileNameFaults PROVE FALSE
      OBVIOUS
    <3>1. Kind(pos) = "name" /\ Room < 0
      BY <1>2 DEF FileNameFaults
    <3>2. pos # k + 1
      BY <2>1, <3>1
    <3>3. Room \in Int
      BY <2>4, SizesAssumption DEF Room, NodeType
    <3> QED BY <2>6, <3>1, <3>2, <3>3
  <2>8. ~CheckNodeFails
    <3> SUFFICES ASSUME CheckNodeFails PROVE FALSE
      OBVIOUS
    <3> DEFINE named == [node EXCEPT !.names = node.names + 1]
    <3>1. /\ Kind(pos) = "name" /\ continuations = 1
          /\ ~CheckNode(named, Append(checksum, E))
      BY <1>2 DEF CheckNodeFails
    <3>2. pos # k + 1 /\ pos = k + dir[k].continuations
      <4>1. pos # k + 1
        BY <2>1, <3>1
      <4>2. PICK c \in Nat : c = dir[k].continuations
        BY <2>2
      <4>3. 1 = c - (pos - 1 - k)
        BY <2>1, <3>1, <4>2
      <4> QED BY ONLY <1>1, <2>3, <4>1, <4>2, <4>3
    <3>3. /\ named.file = k /\ named.info = k + 1
          /\ named.contiguous = dir[k + 1].contiguous
      <4>1. /\ named.file = node.file /\ named.info = node.info
            /\ named.contiguous = node.contiguous
        BY <2>4 DEF NodeType
      <4> QED BY ONLY <2>1, <2>5, <3>2, <4>1, Zenon
    <3> HIDE DEF named
    <3>4. Append(checksum, E) = dir[k].checksum
      <4>1. PICK m \in Nat : m = pos - 1
        BY <1>1, <2>1, <2>3
      <4>2. k <= m /\ m < Len(dir) /\ m + 1 = pos
        BY <1>1, <2>1, <2>3, <4>1
      <4>3. SubSeq(dir, k + 1, m + 1) = Append(SubSeq(dir, k + 1, m), dir[m + 1])
        BY <1>1, <2>3, <4>2, SubSeqGrows
      <4>4. checksum = SubSeq(dir, k + 1, m)
        BY <1>1, <2>1, <4>1 DEF InSound
      <4> QED BY <2>2, <3>2, <4>2, <4>3, <4>4 DEF E
    <3>5. named.info # 0
      BY <2>3, <3>3
    <3> QED BY <2>2, <3>1, <3>3, <3>4, <3>5 DEF CheckNode, Empty
  <2>9. ~Rejected
    <3>1. Kind(pos) \in {"info", "name"}
      BY <2>1
    <3>2. Kind(pos) = "info" => continuations >= 2 /\ E.flags
      <4>1. Kind(pos) = "info" => pos = k + 1
        BY <2>1
      <4> QED BY <2>1, <2>2, <4>1 DEF E
    <3>3. ~(pos > Len(dir)) /\ ~(continuations < 2 /\ continuations >= 2)
      BY <1>1, <2>1
    <3> QED BY <1>1, <1>2, <1>4, <2>8, <3>1, <3>2, <3>3 DEF Rejected
  <2> QED BY <2>7, <2>8, <2>9
<1> QED BY <1>1, <1>3, <1>4

LEMMA InitSound == Init => SoundSoFar /\ NodeSoFar /\ CompleteSoFar /\ ListSoFar
BY DEF Init, SoundSoFar, NodeSoFar, CompleteSoFar, ListSoFar, Busy

\* What is left to say of a step: where the set stands, and that the sets
\* before are over.
LEMMA SoundKept ==
    ASSUME dir' = dir,
           phase' \in {"entry", "next", "emit"},
           continuations' > 0 =>
             \E k \in FileEntries :
               /\ node'.file = k /\ k <= Upto'
               /\ continuations' = dir[k].continuations - (Upto' - k)
               /\ checksum' = SubSeq(dir, k + 1, Upto')
               /\ Upto' = k => node'.info = 0 /\ node'.contiguous = FALSE
               /\ Upto' > k => node'.info = k + 1
                               /\ node'.contiguous = dir[k + 1].contiguous,
           \A f \in FileEntries :
             f <= Upto' /\ (continuations' > 0 => f # node'.file) =>
               f + dir[f].continuations <= Upto'
    PROVE  SoundSoFar'
<1>1. FileEntries' = FileEntries
  BY EntriesStay
<1>2. continuations' > 0 => \E k \in FileEntries : node'.file = k /\ InSound(k)'
  BY DEF InSound
<1> QED BY <1>1, <1>2 DEF SoundSoFar

LEMMA StepSound ==
    InSet /\ TypeOK /\ Counted /\ SoundSoFar /\ [Next]_vars => SoundSoFar'
<1> SUFFICES ASSUME InSet, TypeOK, Counted, SoundSoFar, [Next]_vars,
                    SoundDirectory', ~ioFailed'
             PROVE  SoundSoFar'
  BY DEF SoundSoFar
<1>1. dir' = dir
  BY DirStays
<1>2. SoundDirectory
  BY <1>1 DEF SoundDirectory, Sound, FileEntries, Kind
<1>3. ~ioFailed
  <2>1. ioFailed' = ioFailed \/ ioFailed' = TRUE
    BY DEF Next, vars, Open, OpenFails, EndOfDirectory, File, FileInfo, FileName,
           FileNameFaults, Upcase, Bitmap, Label, Deleted, Optional, Reject,
           CheckNodeAborts, Fetch, Emit, FetchFails, EntryFails, BitmapFails
  <2> QED BY <2>1
<1>4. /\ dir \in Seq(Entry) /\ Len(dir) \in Nat /\ DOMAIN dir = 1 .. Len(dir)
      /\ pos \in Nat /\ pos \in 1 .. Len(dir) + 1 /\ continuations \in Nat
  BY DEF InSet
<1>5. /\ phase = "open" => pos = 1 /\ continuations = 0
      /\ Busy /\ continuations > 0 => \E k \in FileEntries : node.file = k /\ InSound(k)
      /\ Busy => \A f \in FileEntries :
                   f <= Upto /\ (continuations > 0 => f # node.file) =>
                       f + dir[f].continuations <= Upto
      /\ phase \notin {"failed", "fault", "aborted"}
  BY <1>2, <1>3, Zenon DEF SoundSoFar
<1>6. \A f \in FileEntries : f \in Nat \ {0} /\ Kind(f) = "file"
  BY <1>4 DEF FileEntries
<1>7. CASE Open
  <2>1. /\ phase = "open" /\ phase' = "entry" /\ pos' = pos
        /\ continuations' = continuations
    BY <1>7 DEF Open, set
  <2>2. Upto' = 0 /\ continuations' = 0
    BY <1>5, <2>1 DEF Upto
  <2>3. \A f \in FileEntries : ~(f <= 0)
    BY <1>6
  <2> QED BY <1>1, <2>1, <2>2, <2>3, SoundKept
<1>8. CASE File
  <2>1. /\ phase = "entry" /\ pos <= Len(dir) /\ Kind(pos) = "file" /\ continuations = 0
        /\ continuations' = dir[pos].continuations /\ checksum' = <<>>
        /\ node' = NewNode(pos) /\ pos' = pos /\ phase' = "next"
    BY <1>8 DEF File, Reading, Kind, E
  <2>2. Upto' = pos /\ Upto = pos - 1 /\ Busy
    BY <2>1 DEF Upto, Busy
  <2>3. /\ node'.file = pos /\ node'.info = 0 /\ node'.contiguous = FALSE
        /\ pos \in FileEntries
    BY <1>4, <2>1 DEF NewNode, FileEntries
  <2>4. dir[pos].continuations \in Nat /\ dir[pos].continuations > 0
    <3>1. dir[pos].continuations \in 2 .. MaxContinuations
          /\ dir[pos].continuations \in Nat
      BY <1>2, <1>4, <2>3, SoundSet
    <3> QED BY <3>1, MaxInt
  <2>5. checksum' = SubSeq(dir, pos + 1, pos)
    BY <1>4, <2>1, SubSeqEmpty
  <2>6. continuations' = dir[pos].continuations - (pos - pos)
    BY <1>4, <2>1, <2>4
  <2>7. ASSUME NEW f \in FileEntries, f <= pos, f # pos
        PROVE  f + dir[f].continuations <= pos
    <3>1. f \in Nat /\ dir[f].continuations \in Nat
      <4>1. dir[f].continuations \in Nat
        BY <1>2, <1>4, SoundSet
      <4> QED BY <1>6, <4>1
    <3>2. f <= Upto
      BY <1>4, <2>2, <2>7, <3>1
    <3>3. f + dir[f].continuations <= Upto
      BY <1>5, <2>1, <2>2, <3>2
    <3> QED BY <1>4, <2>2, <3>1, <3>3
  <2>8. continuations' > 0
    BY <2>1, <2>4
  <2>9. pos <= pos /\ ~(pos > pos)
    BY <1>4
  <2> QED BY <1>1, <2>1, <2>2, <2>3, <2>5, <2>6, <2>7, <2>8, <2>9, SoundKept
<1>9. CASE FileInfo \/ FileName
  <2>1. /\ phase = "entry" /\ pos <= Len(dir) /\ continuations > 0
        /\ Kind(pos) = "info" =>
             node' = [node EXCEPT !.info = pos,
                                  !.contiguous = node.contiguous \/ dir[pos].contiguous]
        /\ Kind(pos) = "name" => node' = [node EXCEPT !.names = node.names + 1]
        /\ checksum' = Append(checksum, dir[pos])
        /\ continuations' = continuations - 1
        /\ pos' = pos /\ phase' \in {"next", "emit"}
    BY <1>4, <1>9 DEF FileInfo, FileName, Reading, Kind, E
  <2>2. Upto' = pos /\ Upto = pos - 1 /\ Busy
    BY <2>1 DEF Upto, Busy
  <2>3. PICK k \in FileEntries :
          /\ node.file = k /\ InSound(k)
          /\ k < pos /\ pos <= k + dir[k].continuations /\ pos <= Len(dir)
          /\ continuations = dir[k].continuations - (pos - 1 - k)
          /\ pos = k + 1 => Kind(pos) = "info" /\ continuations >= 2
          /\ pos # k + 1 => Kind(pos) = "name"
    BY <1>2, <1>3, <2>1, SoundPosition, Zenon
  <2>4. node \in Node /\ k \in Nat
    <3>1. k \in Nat \ {0}
      BY <1>6
    <3>2. node # NULL
      BY <2>3, <3>1 DEF NULL
    <3> QED BY <3>1, <3>2 DEF TypeOK, Node
  <2>5. PICK c \in Nat : c = dir[k].continuations
    BY <1>2, <1>4, SoundSet
  <2>6. continuations' = c - (pos - k)
    <3>1. continuations = c - (pos - 1 - k)
      BY <2>3, <2>5
    <3>2. continuations' = continuations - 1
      BY <2>1
    <3> QED BY ONLY <1>4, <2>4, <2>5, <3>1, <3>2
  <2>7. checksum' = SubSeq(dir, k + 1, pos)
    <3>1. PICK m \in Nat : m = pos - 1
      BY <1>4, <2>3, <2>4
    <3>2. k <= m /\ m < Len(dir) /\ m + 1 = pos
      BY <1>4, <2>1, <2>3, <2>4, <3>1
    <3>3. SubSeq(dir, k + 1, m + 1) = Append(SubSeq(dir, k + 1, m), dir[m + 1])
      BY <1>4, <2>4, <3>2, SubSeqGrows
    <3>4. checksum = SubSeq(dir, k + 1, m)
      BY <2>2, <2>3, <3>1 DEF InSound
    <3> QED BY <2>1, <3>2, <3>3, <3>4
  <2>8. node'.file = k /\ node'.info = k + 1 /\ node'.contiguous = dir[k + 1].contiguous
    <3>1. dir[k + 1].contiguous \in BOOLEAN
      BY <1>2, <1>4, SoundSet, Zenon
    <3>2. CASE pos = k + 1
      <4>1. node.contiguous = FALSE
        <5>1. Upto = k
          BY <2>2, <2>4, <3>2
        <5> QED BY <2>3, <5>1 DEF InSound
      <4>2. node' = [node EXCEPT !.info = pos,
                                 !.contiguous = node.contiguous \/ dir[pos].contiguous]
        BY <2>1, <2>3, <3>2
      <4>3. (node.contiguous \/ dir[pos].contiguous) \in BOOLEAN /\ pos \in 0 .. Len(dir)
        BY <1>4, <2>1
      <4>4. node' = [file |-> node.file, info |-> pos, names |-> node.names,
                     contiguous |-> node.contiguous \/ dir[pos].contiguous]
        BY <2>4, <4>2, <4>3, GivenInfo
      <4>5. /\ node'.file = node.file /\ node'.info = pos
            /\ node'.contiguous = (node.contiguous \/ dir[pos].contiguous)
        BY ONLY <4>4, Zenon
      <4>6. (FALSE \/ dir[k + 1].contiguous) = dir[k + 1].contiguous
        BY <3>1
      <4> QED BY ONLY <2>3, <3>2, <4>1, <4>5, <4>6, Zenon
    <3>3. CASE pos # k + 1
      <4>1. node.info = k + 1 /\ node.contiguous = dir[k + 1].contiguous
        <5>1. Upto > k
          BY <1>4, <2>2, <2>3, <2>4, <3>3
        <5> QED BY <2>3, <5>1 DEF InSound
      <4>2. node' = [node EXCEPT !.names = node.names + 1]
        BY <2>1, <2>3, <3>3
      <4>3. node' = [file |-> node.file, info |-> node.info, names |-> node.names + 1,
                     contiguous |-> node.contiguous]
        BY <2>4, <4>2, GivenName
      <4>4. /\ node'.file = node.file /\ node'.info = node.info
            /\ node'.contiguous = node.contiguous
        BY ONLY <4>3, Zenon
      <4> QED BY ONLY <2>3, <4>1, <4>4, Zenon
    <3> QED BY <3>2, <3>3
  <2>9. pos > k /\ k <= pos /\ pos # k
    BY <1>4, <2>3, <2>4
  <2>10. ASSUME NEW f \in FileEntries, f <= pos, continuations' > 0 => f # k
         PROVE  f + dir[f].continuations <= pos
    <3>1. f \in Nat /\ dir[f].continuations \in Nat
      <4>1. dir[f].continuations \in Nat
        BY <1>2, <1>4, SoundSet
      <4> QED BY <1>6, <4>1
    <3>2. CASE f = k
      <4>1. ~(continuations' > 0)
        BY <2>10, <3>2
      <4>2. continuations' = 0
        BY <1>4, <2>1, <4>1
      <4>3. 0 = c - (pos - k) /\ f = k /\ dir[f].continuations = c
        BY <2>5, <2>6, <3>2, <4>2
      <4> QED BY ONLY <1>4, <2>4, <2>5, <4>3
    <3>3. CASE f # k
      <4>1. f # pos
        BY <1>6, <2>3
      <4>2. f <= Upto
        BY <1>4, <2>2, <2>10, <3>1, <4>1
      <4>3. f + dir[f].continuations <= Upto
        BY <1>5, <2>2, <2>3, <3>3, <4>2
      <4> QED BY <1>4, <2>2, <3>1, <4>3
    <3> QED BY <3>2, <3>3
  <2>11. phase' \in {"entry", "next", "emit"}
    BY <2>1
  <2>12. continuations' = dir[k].continuations - (Upto' - k)
    BY <2>2, <2>5, <2>6
  <2>13. /\ continuations' > 0 =>
             \E j \in FileEntries :
               /\ node'.file = j /\ j <= Upto'
               /\ continuations' = dir[j].continuations - (Upto' - j)
               /\ checksum' = SubSeq(dir, j + 1, Upto')
               /\ Upto' = j => node'.info = 0 /\ node'.contiguous = FALSE
               /\ Upto' > j => node'.info = j + 1
                               /\ node'.contiguous = dir[j + 1].contiguous
         /\ \A f \in FileEntries :
             f <= Upto' /\ (continuations' > 0 => f # node'.file) =>
               f + dir[f].continuations <= Upto'
    BY <2>2, <2>7, <2>8, <2>9, <2>10, <2>12, Zenon
  <2> QED BY ONLY <1>1, <2>11, <2>13, SoundKept
<1>10. CASE Upcase \/ Bitmap \/ Label \/ Deleted \/ Optional
  <2>1. /\ phase = "entry" /\ pos <= Len(dir)
        /\ Kind(pos) \in {"upcase", "bitmap", "label", "deleted", "optional"}
        /\ Kind(pos) = "optional" => continuations > 0
        /\ continuations' = IF Kind(pos) = "optional" THEN continuations - 1
                                                      ELSE continuations
        /\ pos' = pos /\ phase' = "next"
    BY <1>10 DEF Upcase, Bitmap, Label, Deleted, Optional, Reading, Kind, E, set
  <2>2. Upto' = pos /\ Upto = pos - 1 /\ Busy
    BY <2>1 DEF Upto, Busy
  <2>3. continuations = 0
    <3> SUFFICES ASSUME continuations > 0 PROVE FALSE
      BY <1>4
    <3>1. Kind(pos) \in {"info", "name"}
      BY <1>2, <1>3, <2>1, SoundPosition
    <3> QED BY <2>1, <3>1
  <2>4. continuations' = 0
    BY <2>1, <2>3
  <2>5. ASSUME NEW f \in FileEntries, f <= pos
        PROVE  f + dir[f].continuations <= pos
    <3>1. f \in Nat /\ dir[f].continuations \in Nat
      <4>1. dir[f].continuations \in Nat
        BY <1>2, <1>4, SoundSet
      <4> QED BY <1>6, <4>1
    <3>2. f # pos
      BY <1>6, <2>1
    <3>3. f <= Upto
      BY <1>4, <2>2, <2>5, <3>1, <3>2
    <3>4. f + dir[f].continuations <= Upto
      BY <1>5, <2>2, <2>3, <3>3
    <3> QED BY <1>4, <2>2, <3>1, <3>4
  <2>6. phase' \in {"entry", "next", "emit"} /\ ~(continuations' > 0)
    BY <2>1, <2>4
  <2>7. \A f \in FileEntries :
             f <= Upto' /\ (continuations' > 0 => f # node'.file) =>
               f + dir[f].continuations <= Upto'
    BY ONLY <2>2, <2>5, Zenon
  <2> QED BY ONLY <1>1, <2>6, <2>7, SoundKept
<1>11. CASE Fetch \/ Emit
  <2>1. /\ phase \in {"next", "emit"} /\ phase' = "entry" /\ pos' = pos + 1
        /\ continuations' = continuations
        /\ phase = "next" => node' = node /\ checksum' = checksum
    BY <1>11 DEF Fetch, Emit, set
  <2>2. Upto' = pos /\ Upto = pos /\ Busy
    BY <1>4, <2>1 DEF Upto, Busy
  <2>3. CASE continuations = 0
    BY <1>1, <1>5, <2>1, <2>2, <2>3, SoundKept
  <2>4. CASE continuations > 0
    <3>1. phase = "next"
      BY <2>1, <2>4 DEF InSet
    <3>2. PICK k \in FileEntries : node.file = k /\ InSound(k)
      BY <1>5, <2>2, <2>4
    <3>3. /\ k <= Upto' /\ node'.file = k
          /\ continuations' = dir[k].continuations - (Upto' - k)
          /\ checksum' = SubSeq(dir, k + 1, Upto')
          /\ Upto' = k => node'.info = 0 /\ node'.contiguous = FALSE
          /\ Upto' > k => node'.info = k + 1
                          /\ node'.contiguous = dir[k + 1].contiguous
      BY <2>1, <2>2, <3>1, <3>2, Zenon DEF InSound
    <3>4. phase' \in {"entry", "next", "emit"}
      BY <2>1
    <3>5. \A f \in FileEntries :
             f <= Upto' /\ (continuations' > 0 => f # node'.file) =>
               f + dir[f].continuations <= Upto'
      BY <1>5, <2>1, <2>2, <3>1, Zenon
    <3> QED BY ONLY <1>1, <3>3, <3>4, <3>5, SoundKept
  <2> QED BY <1>4, <2>3, <2>4
<1>12. CASE EndOfDirectory
  BY <1>12 DEF EndOfDirectory, SoundSoFar, Busy
<1>13. CASE Reject \/ CheckNodeAborts \/ FileNameFaults
  <2>1. phase = "entry" /\ (Rejected \/ CheckNodeFails \/ FileNameFaults)
    BY <1>13 DEF Reject, CheckNodeAborts, FileNameFaults, Reading
  <2> QED BY <1>2, <1>3, <2>1, SoundNotRejected
<1>14. CASE OpenFails \/ FetchFails \/ EntryFails \/ BitmapFails
  <2>1. ioFailed' = TRUE
    BY <1>14 DEF OpenFails, FetchFails, EntryFails, BitmapFails
  <2> QED BY <2>1
<1>15. CASE UNCHANGED vars
  <2>1. /\ phase' = phase /\ pos' = pos /\ continuations' = continuations
        /\ node' = node /\ checksum' = checksum
    BY <1>15 DEF vars
  <2>2. Upto' = Upto /\ (Busy' <=> Busy)
    BY <2>1 DEF Upto, Busy
  <2>3. FileEntries' = FileEntries
    BY <1>1, EntriesStay
  <2>4. \A k : InSound(k)' <=> InSound(k)
    BY <1>1, <2>1, <2>2 DEF InSound
  <2> QED BY <1>1, <1>5, <2>1, <2>2, <2>3, <2>4 DEF SoundSoFar
<1> QED
  BY <1>7, <1>8, <1>9, <1>10, <1>11, <1>12, <1>13, <1>14, <1>15 DEF Next

\* What the parts of the invariant say of a directory that is read, or refused.
LEMMA ListingHolds ==
    ASSUME InSet, TypeOK, ListSoFar, SoundSoFar
    PROVE  ListingExact
<1>1. SoundIsCached
  BY DEF SoundSoFar, SoundIsCached
<1>2. ASSUME phase = "cached" PROVE
        /\ {children[i].file : i \in DOMAIN children} = {k \in FileEntries : ~Dropped(k)}
        /\ \A i, j \in DOMAIN children : i < j => children[i].file < children[j].file
        /\ \A i \in DOMAIN children : children[i] = NodeOf(children[i].file)
  <2>1. /\ {children[i].file : i \in DOMAIN children}
             = {f \in FileEntries : f <= Upto /\ f # node.file /\ ~Dropped(f)}
        /\ \A i, j \in DOMAIN children : i < j => children[i].file < children[j].file
        /\ \A i \in DOMAIN children, k \in FileEntries :
             children[i].file = k => children[i] = NodeOf(k)
        /\ pos = Len(dir) + 1 /\ node.file = 0
    BY <1>2, Zenon DEF ListSoFar
  <2>2. /\ Len(dir) \in Nat /\ DOMAIN dir = 1 .. Len(dir) /\ Upto = Len(dir) + 1
    BY <1>2, <2>1 DEF InSet, Upto
  <2>3. \A f \in FileEntries : f <= Upto /\ f # node.file
    BY <2>1, <2>2 DEF FileEntries
  <2>4. \A i \in DOMAIN children : children[i].file \in FileEntries
    BY <2>1
  <2> QED BY <2>1, <2>3, <2>4
<1> QED BY <1>1, <1>2, Zenon DEF ListingExact, ListedExactly

\* readdir() lists each file of the medium once, in the order of the medium,
\* with the info and the names of its own set, but for those whose set ends in
\* an optional entry; and it refuses no sound directory unless the medium or the
\* memory fails (node.c, readdir, check_node and exfat_cache_directory).
THEOREM ListingIsExact == Spec => []ListingExact
<1> DEFINE Inv == /\ Counted /\ InSet /\ TypeOK /\ NodeSoFar /\ CompleteSoFar
                  /\ ListSoFar /\ SoundSoFar
<1>1. Init => Inv
  BY InitCounted, InitInSet, InitTypes, InitSound
<1>2. Inv /\ [Next]_vars => Inv'
  BY StepCounted, StepInSet, StepTypes, StepNodeSoFar, StepCompleteSoFar,
     StepListSoFar, StepSound
<1>3. Inv => ListingExact
  BY ListingHolds
<1> QED BY <1>1, <1>2, <1>3, PTL DEF Spec

=============================================================================
