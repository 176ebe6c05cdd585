------------------------- MODULE ClusterChainProofs -------------------------
(***************************************************************************)
(* Proofs about ClusterChain, for every FAT, node and size of the volume.  *)
(*                                                                         *)
(* What keeps a live cluster from following a lost one is that a cluster   *)
(* number without a place on the medium is followed by 0, and 0 by 0: the  *)
(* invariant ties the last offset listed to the cluster in hand.           *)
(*                                                                         *)
(* That what is listed is the chain compares the loop with the iteration   *)
(* of exfat_next_cluster, a recursive function on the naturals.  Facts     *)
(* about it are shown on sets of numbers that have a least element.        *)
(***************************************************************************)
EXTENDS ClusterChain, SequenceTheorems, WellFoundedInduction, TLAPS

Listed == [offset : Int, size : Int]

\* The last offset is that of next, and there is one for every round.
AtNext ==
    pc = "loop" =>
        /\ Len(out) = i + 1
        /\ out[i + 1].offset = ClusterToOffset(next)

Inv ==
    /\ node \in Node /\ CheckNode(node)
    /\ fat \in [Heap -> Clusters]
    /\ next \in Clusters /\ i \in Nat
    /\ out \in Seq(Listed)
    /\ pc = "first" => out = <<>> /\ i = 0
    /\ pc = "loop" => node.size > 0
    /\ AtNext
    /\ LostIsSuffix

-----------------------------------------------------------------------------

LEMMA ClustersAreNat ==
    /\ Clusters \subseteq Nat
    /\ EXFAT_CLUSTER_FREE \in Clusters
    /\ Heap \subseteq Nat
    /\ LastData + 3 \in Nat \ {0}
BY SizesAssumption DEF Clusters, Heap, EXFAT_CLUSTER_END, EXFAT_CLUSTER_FREE,
                       EXFAT_FIRST_DATA_CLUSTER

\* Only the numbers below the first cluster have no place (exfat_c2o).
LEMMA OffsetOf ==
    ASSUME NEW c \in Clusters
    PROVE  /\ ClusterToOffset(c) \in Nat
           /\ ClusterToOffset(c) = 0 <=> c < EXFAT_FIRST_DATA_CLUSTER
<1>1. c \in Nat /\ ClusterSize \in Nat /\ HeapStart \in Nat /\ HeapStart > 0
  BY ClustersAreNat, SizesAssumption
<1>2. CASE c < 2
  BY <1>2 DEF ClusterToOffset, EXFAT_FIRST_DATA_CLUSTER
<1>3. CASE ~(c < 2)
  <2>1. c - 2 \in Nat
    BY <1>1, <1>3
  <2>2. \A k, s \in Nat : k * s \in Nat
    OBVIOUS
  <2>3. (c - 2) * ClusterSize \in Nat
    BY <2>1, <2>2, <1>1
  <2>4. ClusterToOffset(c) = HeapStart + (c - 2) * ClusterSize
    BY <1>3 DEF ClusterToOffset, EXFAT_FIRST_DATA_CLUSTER
  <2> QED BY ONLY <1>1, <1>3, <2>3, <2>4 DEF EXFAT_FIRST_DATA_CLUSTER
<1> QED BY <1>2, <1>3

\* exfat_next_cluster gives a cluster number, and 0 for what has no place.
LEMMA NextOf ==
    ASSUME node \in Node, fat \in [Heap -> Clusters],
           NEW c \in Clusters, NEW d \in NextCluster(c)
    PROVE  /\ d \in Clusters
           /\ c < EXFAT_FIRST_DATA_CLUSTER => d < EXFAT_FIRST_DATA_CLUSTER
<1>1. CASE c < EXFAT_FIRST_DATA_CLUSTER
  BY <1>1, ClustersAreNat DEF NextCluster, EXFAT_CLUSTER_FREE, EXFAT_FIRST_DATA_CLUSTER
<1>2. CASE ~(c < EXFAT_FIRST_DATA_CLUSTER) /\ node.contiguous
  <2>1. d = (c + 1) % (LastData + 3)
    <3>1. d = (c + 1) % (LastData + 2 + 1)
      BY <1>2 DEF NextCluster, EXFAT_CLUSTER_END
    <3>2. LastData + 2 + 1 = LastData + 3
      BY SizesAssumption
    <3> QED BY <3>1, <3>2
  <2>2. \A a \in Nat, b \in Nat \ {0} : a % b \in Nat /\ a % b < b
    OBVIOUS
  <2>3. c + 1 \in Nat
    BY ClustersAreNat
  <2>4. d \in Nat /\ d < LastData + 3
    BY ONLY <2>1, <2>2, <2>3, ClustersAreNat
  <2> QED BY <1>2, <2>4, SizesAssumption DEF Clusters, EXFAT_CLUSTER_END
<1>3. CASE ~(c < EXFAT_FIRST_DATA_CLUSTER) /\ ~node.contiguous /\ c \in Heap
  <2>1. d = fat[c] \/ d = EXFAT_CLUSTER_BAD
    BY <1>3 DEF NextCluster
  <2>2. EXFAT_CLUSTER_BAD \in Clusters
    BY SizesAssumption DEF Clusters, EXFAT_CLUSTER_BAD, EXFAT_CLUSTER_END
  <2> QED BY <1>3, <2>1, <2>2
<1>4. CASE ~(c < EXFAT_FIRST_DATA_CLUSTER) /\ ~node.contiguous /\ c \notin Heap
  BY <1>4 DEF NextCluster
<1> QED BY <1>1, <1>2, <1>3, <1>4

\* One more offset at the end of the list: if the one before is lost, it is.
LEMMA AppendKeepsSuffix ==
    ASSUME out \in Seq(Listed), LostIsSuffix, Len(out) > 0,
           NEW o \in Listed, out' = Append(out, o),
           o.offset # 0 => out[Len(out)].offset # 0
    PROVE  LostIsSuffix'
<1> SUFFICES ASSUME NEW a \in DOMAIN out', NEW b \in DOMAIN out',
                    a < b, out'[b].offset # 0
             PROVE  out'[a].offset # 0
  BY DEF LostIsSuffix
<1>1. /\ DOMAIN out = 1 .. Len(out) /\ DOMAIN out' = 1 .. Len(out) + 1
      /\ \A k \in 1 .. Len(out) : out'[k] = out[k]
      /\ out'[Len(out) + 1] = o
      /\ Len(out) \in Nat
  BY AppendProperties, LenProperties
<1>2. a \in DOMAIN out /\ out'[a] = out[a]
  BY <1>1
<1>3. CASE b = Len(out) + 1
  <2>1. out[Len(out)].offset # 0
    BY <1>1, <1>3
  <2>2. CASE a = Len(out)
    BY <1>2, <2>1, <2>2
  <2>3. CASE a < Len(out)
    <3>1. Len(out) \in DOMAIN out
      BY <1>1
    <3> QED BY <1>2, <2>1, <2>3, <3>1 DEF LostIsSuffix
  <2> QED BY <1>1, <1>2, <2>2, <2>3
<1>4. CASE b # Len(out) + 1
  <2>1. b \in DOMAIN out /\ out'[b] = out[b]
    BY <1>1, <1>4
  <2> QED BY <1>2, <2>1 DEF LostIsSuffix
<1> QED BY <1>3, <1>4

-----------------------------------------------------------------------------

LEMMA InitInv == Init => Inv
<1> SUFFICES ASSUME Init PROVE Inv
  OBVIOUS
<1>1. node \in Node /\ CheckNode(node) /\ fat \in [Heap -> Clusters]
  BY DEF Init
<1>2. next \in Clusters /\ i \in Nat /\ i = 0
  BY ClustersAreNat DEF Init, EXFAT_CLUSTER_FREE
<1>3. out = <<>> /\ pc = "first"
  BY DEF Init
<1>4. out \in Seq(Listed) /\ LostIsSuffix
  BY <1>3, EmptySeq DEF LostIsSuffix
<1> QED BY <1>1, <1>2, <1>3, <1>4 DEF Inv, AtNext

\* The first cluster is that of the node, if it has one.
LEMMA FirstStep == Inv /\ First => Inv'
<1> SUFFICES ASSUME Inv, First PROVE Inv'
  OBVIOUS
<1> DEFINE o == [offset |-> ClusterToOffset(node.start), size |-> ClusterSize]
<1>1. /\ out' = <<o>> /\ next' = node.start
      /\ pc' = IF ClusterToOffset(node.start) = 0 THEN "done" ELSE "loop"
      /\ UNCHANGED <<node, fat, i, unread>> /\ pc = "first" /\ i = 0
  BY DEF First, Inv
<1>2. node.start \in Clusters /\ node.size \in Nat
  BY SizesAssumption DEF Inv, Node
<1>3. o \in Listed
  BY <1>2, OffsetOf, SizesAssumption DEF Listed
<1>4. out' \in Seq(Listed) /\ Len(out') = 1 /\ out'[1] = o /\ DOMAIN out' = {1}
  BY <1>1, <1>3
<1>5. LostIsSuffix'
  BY <1>4 DEF LostIsSuffix
<1>6. pc' = "loop" => node.size > 0
  <2> SUFFICES ASSUME node.size = 0, pc' = "loop" PROVE FALSE
    BY <1>2
  <2>1. node.start = EXFAT_CLUSTER_FREE
    BY DEF Inv, CheckNode
  <2> QED BY <1>1, <1>2, <2>1, OffsetOf DEF EXFAT_CLUSTER_FREE, EXFAT_FIRST_DATA_CLUSTER
<1>7. AtNext'
  <2> SUFFICES ASSUME pc' = "loop"
               PROVE  Len(out') = i' + 1 /\ out'[i' + 1].offset = (ClusterToOffset(next))'
    BY DEF AtNext
  <2>1. (ClusterToOffset(next))' = ClusterToOffset(node.start)
    BY <1>1 DEF ClusterToOffset
  <2> QED BY <1>1, <1>4, <2>1
<1>8. pc' # "first"
  BY <1>1
<1>9. CheckNode(node)' /\ (node \in Node)' /\ (fat \in [Heap -> Clusters])' /\ i' \in Nat
  BY <1>1 DEF Inv, CheckNode
<1> QED BY <1>1, <1>2, <1>4, <1>5, <1>6, <1>7, <1>8, <1>9 DEF Inv

LEMMA FollowStep == Inv /\ Follow => Inv'
<1> SUFFICES ASSUME Inv, Follow PROVE Inv'
  OBVIOUS
<1> DEFINE o == [offset |-> ClusterToOffset(next'), size |-> ClusterSize]
<1>1. /\ pc = "loop" /\ next' \in NextCluster(next)
      /\ out' = Append(out, o) /\ i' = i + 1
      /\ UNCHANGED <<node, fat, pc, unread>>
  BY DEF Follow
<1>2. next' \in Clusters /\ (next < EXFAT_FIRST_DATA_CLUSTER => next' < EXFAT_FIRST_DATA_CLUSTER)
  BY <1>1, NextOf DEF Inv
<1>3. Len(out) = i + 1 /\ out[Len(out)].offset = ClusterToOffset(next) /\ i \in Nat
  BY <1>1 DEF Inv, AtNext
<1>4. o \in Listed
  BY <1>2, OffsetOf, SizesAssumption DEF Listed
<1>5. /\ out' \in Seq(Listed) /\ Len(out') = Len(out) + 1 /\ out'[Len(out) + 1] = o
  BY <1>1, <1>4, AppendProperties DEF Inv
<1>6. o.offset # 0 => out[Len(out)].offset # 0
  BY <1>2, <1>3, OffsetOf DEF Inv
<1>7. LostIsSuffix'
  BY <1>1, <1>3, <1>4, <1>6, AppendKeepsSuffix DEF Inv
<1>8. AtNext'
  <2>1. (ClusterToOffset(next))' = o.offset
    BY DEF ClusterToOffset
  <2> QED BY <1>1, <1>3, <1>5, <2>1 DEF AtNext
<1>9. CheckNode(node)' /\ (node \in Node)' /\ (fat \in [Heap -> Clusters])' /\ i' \in Nat
  BY <1>1, <1>3 DEF Inv, CheckNode
<1> QED BY <1>1, <1>2, <1>5, <1>7, <1>8, <1>9 DEF Inv

LEMMA LoseChainStep == Inv /\ LoseChain => Inv'
<1> SUFFICES ASSUME Inv, LoseChain PROVE Inv'
  OBVIOUS
<1>1. /\ pc = "loop" /\ pc' = "done" /\ out' = Append(out, Lost)
      /\ UNCHANGED <<node, fat, next, i>>
  BY DEF LoseChain
<1>2. Lost \in Listed /\ Lost.offset = 0
  BY DEF Lost, Listed
<1>3. Len(out) > 0
  BY <1>1 DEF Inv, AtNext
<1>4. LostIsSuffix'
  BY <1>1, <1>2, <1>3, AppendKeepsSuffix DEF Inv
<1>5. out' \in Seq(Listed)
  BY <1>1, <1>2, AppendProperties DEF Inv
<1>6. CheckNode(node)' /\ (node \in Node)' /\ (fat \in [Heap -> Clusters])'
  BY <1>1 DEF Inv, CheckNode
<1> QED BY <1>1, <1>4, <1>5, <1>6 DEF Inv, AtNext

\* The last size is put right; no offset changes.
LEMMA FixSizeStep == Inv /\ FixSize => Inv'
<1> SUFFICES ASSUME Inv, FixSize PROVE Inv'
  OBVIOUS
<1> DEFINE rest == node.size % ClusterSize
           k == calc_clusters + 1
<1>1. /\ pc = "loop" /\ pc' = "done"
      /\ out' = out \/ out' = [out EXCEPT ![k].size = rest]
      /\ UNCHANGED <<node, fat, next, i>>
  BY DEF FixSize
<1>2. rest \in Int
  BY SizesAssumption DEF Inv, Node
<1>3. ASSUME out' = [out EXCEPT ![k].size = rest]
      PROVE  out' \in Seq(Listed) /\ LostIsSuffix'
  <2>1. DOMAIN out' = DOMAIN out /\ \A a \in DOMAIN out : out'[a].offset = out[a].offset
    BY <1>3 DEF Inv, Listed
  <2>2. \A a \in DOMAIN out : [out[a] EXCEPT !.size = rest] \in Listed
    <3>1. \A r \in Listed : [r EXCEPT !.size = rest] \in Listed
      BY <1>2 DEF Listed
    <3>2. \A a \in DOMAIN out : out[a] \in Listed
      BY DEF Inv
    <3> QED BY <3>1, <3>2
  <2>3. out' \in Seq(Listed)
    <3>1. CASE k \in DOMAIN out
      BY <1>3, <2>2, <3>1, ExceptSeq DEF Inv
    <3>2. CASE k \notin DOMAIN out
      <4>1. out' = out
        BY <1>3, <3>2 DEF Inv
      <4> QED BY <4>1 DEF Inv
    <3> QED BY <3>1, <3>2
  <2>4. LostIsSuffix'
    BY <2>1 DEF Inv, LostIsSuffix
  <2> QED BY <2>3, <2>4
<1>4. out' \in Seq(Listed) /\ LostIsSuffix'
  BY <1>1, <1>3 DEF Inv, LostIsSuffix
<1>5. CheckNode(node)' /\ (node \in Node)' /\ (fat \in [Heap -> Clusters])'
  BY <1>1 DEF Inv, CheckNode
<1> QED BY <1>1, <1>4, <1>5 DEF Inv, AtNext

LEMMA StutterStep == Inv /\ UNCHANGED vars => Inv'
BY DEF Inv, vars, CheckNode, AtNext, LostIsSuffix, ClusterToOffset

LEMMA StepInv == Inv /\ [Next]_vars => Inv'
BY FirstStep, FollowStep, LoseChainStep, FixSizeStep, StutterStep DEF Next

\* Whatever the FAT says, or refuses to say, no live cluster is listed behind a
\* lost one (ExfatNode::getOffsets): Processor may skip the lost ones.
THEOREM NothingLiveBehindLost == Spec => []LostIsSuffix
<1>1. Inv => LostIsSuffix
  BY DEF Inv
<1> QED BY <1>1, InitInv, StepInv, PTL DEF Spec

\* The loop is not entered for an empty file, and the element whose size is put
\* right behind it is there (ExfatNode::getOffsets).
THEOREM LastElementIsThere == Spec => []BoundsHold
<1>1. Inv => BoundsHold
  <2> SUFFICES ASSUME Inv, pc = "loop"
               PROVE  node.size > 0 /\ (i >= calc_clusters => calc_clusters + 1 \in DOMAIN out)
    BY DEF BoundsHold
  <2>1. node.size > 0 /\ Len(out) = i + 1 /\ DOMAIN out = 1 .. Len(out) /\ i \in Nat
    BY LenProperties DEF Inv, AtNext
  <2>2. calc_clusters \in Nat
    <3>1. node.size \in Nat /\ ClusterSize \in Nat \ {0} /\ Wrap \in Nat \ {0}
      BY SizesAssumption DEF Inv, Node
    <3>2. \A a \in Nat, b \in Nat \ {0} : a \div b \in Nat
      OBVIOUS
    <3>3. CalcNumClusters \in Nat
      BY <3>1, <3>2 DEF CalcNumClusters
    <3>4. \A a \in Int, b \in Nat \ {0} : a % b \in Nat
      OBVIOUS
    <3> QED BY <3>1, <3>3, <3>4 DEF calc_clusters
  <2> QED BY <2>1, <2>2
<1> QED BY <1>1, InitInv, StepInv, PTL DEF Spec

-----------------------------------------------------------------------------
(* Induction.  The order of the natural numbers is well-founded, so a set   *)
(* of them has a least element; sets take the place of predicates.          *)

LEMMA LeastElement ==
    ASSUME NEW T, T \subseteq Nat, T # {}
    PROVE  \E m \in T : \A n \in T : m <= n
<1>1. PICK R : /\ IsWellFoundedOn(R, Nat)
               /\ \A n, k \in Nat : n < k => <<n, k>> \in R
  <2>1. \A n, k \in Nat : n < k => <<n, k>> \in OpToRel(<, Nat)
    BY DEF OpToRel
  <2> QED BY <2>1, NatLessThanWellFounded, Zenon
<1>2. PICK m \in T : \A n \in T : ~(<<n, m>> \in R)
  <2>1. IsWellFoundedOn(R, Nat) /\ T \subseteq Nat /\ T # {}
    BY <1>1
  <2>2. \A A, B, C : IsWellFoundedOn(A, B) /\ C \subseteq B /\ C # {} =>
          \E x \in C : \A y \in C : ~(<<y, x>> \in A)
    BY WFMin
  <2> QED BY ONLY <2>1, <2>2, Zenon
<1>3. ASSUME NEW n \in T PROVE m <= n
  <2>1. n \in Nat /\ m \in Nat
    OBVIOUS
  <2>2. ~(n < m)
    BY <1>1, <1>2, <2>1
  <2> QED BY ONLY <2>1, <2>2
<1> QED BY <1>3

LEMMA SetInduction ==
    ASSUME NEW S, 0 \in S, \A n \in Nat : n \in S => n + 1 \in S
    PROVE  Nat \subseteq S
<1> SUFFICES ASSUME Nat \ S # {} PROVE FALSE
  OBVIOUS
<1>1. PICK m \in Nat \ S : \A n \in Nat \ S : m <= n
  BY LeastElement
<1>2. m - 1 \in Nat /\ m - 1 \notin S
  BY <1>1
<1> QED BY <1>1, <1>2

IsIteration(g, D, a, step) ==
    /\ g \in [Nat \ {0} -> D]
    /\ g[1] = a
    /\ \A k \in Nat \ {0} : g[k + 1] = step[g[k]]

\* A function that is iterated from a first value has all its iterates.
LEMMA Iterates ==
    ASSUME NEW D, NEW a \in D, NEW step \in [D -> D]
    PROVE  \E g : IsIteration(g, D, a, step)
<1> DEFINE Upto(n) == {h \in [1 .. n -> D] :
                         h[1] = a /\ \A k \in 1 .. n - 1 : h[k + 1] = step[h[k]]}
<1>1. \A n \in Nat \ {0} : Upto(n) # {}
  <2> DEFINE S == {n \in Nat : n # 0 => Upto(n) # {}}
  <2>1. 0 \in S
    OBVIOUS
  <2>2. ASSUME NEW n \in Nat, n \in S PROVE n + 1 \in S
    <3>1. CASE n = 0
      <4> DEFINE h == [k \in 1 .. 1 |-> a]
      <4>1. h \in Upto(1)
        OBVIOUS
      <4> QED BY <3>1, <4>1
    <3>2. CASE n # 0
      <4>1. PICK h \in Upto(n) : TRUE
        BY <2>2, <3>2
      <4> DEFINE f == [k \in 1 .. n + 1 |-> IF k = n + 1 THEN step[h[n]] ELSE h[k]]
      <4>2. h \in [1 .. n -> D] /\ h[1] = a /\ \A k \in 1 .. n - 1 : h[k + 1] = step[h[k]]
        BY <4>1
      <4>3. step[h[n]] \in D
        BY <3>2, <4>2
      <4>4. f \in [1 .. n + 1 -> D]
        BY <4>2, <4>3
      <4>5. f[1] = a
        BY <3>2, <4>2
      <4>6. ASSUME NEW k \in 1 .. n PROVE f[k + 1] = step[f[k]]
        <5>1. CASE k = n
          BY <5>1
        <5>2. CASE k # n
          <6>1. k \in 1 .. n - 1 /\ k + 1 \in 1 .. n + 1 /\ k + 1 # n + 1 /\ k # n + 1
            BY <5>2
          <6>2. f[k + 1] = h[k + 1] /\ f[k] = h[k]
            BY <6>1
          <6> QED BY <4>2, <6>1, <6>2
        <5> QED BY <5>1, <5>2
      <4>7. n + 1 - 1 = n
        OBVIOUS
      <4>8. f \in Upto(n + 1)
        <5> HIDE DEF f
        <5> QED BY <4>4, <4>5, <4>6, <4>7
      <4> QED BY <4>8
    <3> QED BY <3>1, <3>2
  <2> HIDE DEF S
  <2>3. Nat \subseteq S
    BY <2>1, <2>2, SetInduction
  <2> QED BY <2>3 DEF S
<1>2. \A k \in Nat : \A m, n \in Nat : \A h \in Upto(m) : \A f \in Upto(n) :
        k \in 1 .. m /\ k \in 1 .. n => h[k] = f[k]
  <2> DEFINE S == {k \in Nat : \A m, n \in Nat : \A h \in Upto(m) : \A f \in Upto(n) :
                                 k \in 1 .. m /\ k \in 1 .. n => h[k] = f[k]}
  <2>1. 0 \in S
    OBVIOUS
  <2>2. ASSUME NEW k \in Nat, k \in S PROVE k + 1 \in S
    <3> SUFFICES ASSUME NEW m \in Nat, NEW n \in Nat, NEW h \in Upto(m), NEW f \in Upto(n),
                        k + 1 \in 1 .. m, k + 1 \in 1 .. n
                 PROVE  h[k + 1] = f[k + 1]
      OBVIOUS
    <3>1. CASE k = 0
      BY <3>1
    <3>2. CASE k # 0
      <4>1. k \in 1 .. m - 1 /\ k \in 1 .. n - 1 /\ k \in 1 .. m /\ k \in 1 .. n
        BY <3>2
      <4>2. h[k] = f[k]
        <5> HIDE DEF Upto
        <5> QED BY <2>2, <4>1
      <4> QED BY <4>1, <4>2
    <3> QED BY <3>1, <3>2
  <2> HIDE DEF S
  <2>3. Nat \subseteq S
    BY <2>1, <2>2, SetInduction
  <2> QED BY <2>3 DEF S
<1> DEFINE H(n) == CHOOSE h \in Upto(n) : TRUE
           g == [k \in Nat \ {0} |-> H(k)[k]]
<1>3. \A n \in Nat \ {0} : H(n) \in Upto(n)
  BY <1>1
<1> HIDE DEF H
<1>4. g \in [Nat \ {0} -> D]
  <2>1. ASSUME NEW k \in Nat \ {0} PROVE H(k)[k] \in D
    BY <1>3
  <2> QED BY <2>1
<1>5. g[1] = a
  BY <1>3
<1>6. ASSUME NEW k \in Nat \ {0} PROVE g[k + 1] = step[g[k]]
  <2>1. H(k + 1) \in Upto(k + 1) /\ H(k) \in Upto(k)
    BY <1>3
  <2>2. H(k + 1)[k + 1] = step[H(k + 1)[k]]
    BY <2>1
  <2>3. H(k + 1)[k] = H(k)[k]
    <3>1. k \in 1 .. k /\ k \in 1 .. k + 1
      OBVIOUS
    <3> HIDE DEF Upto
    <3> QED BY <1>2, <2>1, <3>1
  <2> QED BY <2>2, <2>3
<1> HIDE DEF g
<1> QED BY <1>4, <1>5, <1>6 DEF IsIteration

-----------------------------------------------------------------------------
(* The chain and what is listed of it.                                      *)

\* The chain of a node; the recursive function Chain is the one there is.
IsChain(c) ==
    c[1] = node.start /\ \A k \in Nat \ {0} : c[k + 1] = Link(c[k])

LEMMA ChainIsChain ==
    ASSUME node \in Node, fat \in [Heap -> Clusters]
    PROVE  IsChain(Chain)
<1> DEFINE body(g, k) == IF k = 1 THEN node.start ELSE Link(g[k - 1])
           step == [c \in Nat |-> Link(c)]
<1>1. node.start \in Nat /\ step \in [Nat -> Nat]
  <2>1. ASSUME NEW c \in Nat PROVE Link(c) \in Nat
    <3>1. CASE node.contiguous
      BY <3>1 DEF Link
    <3>2. CASE ~node.contiguous /\ c \in Heap
      <4>1. fat[c] \in Clusters
        BY <3>2
      <4> QED BY <3>2, <4>1, ClustersAreNat DEF Link
    <3>3. CASE ~node.contiguous /\ c \notin Heap
      BY <3>3 DEF Link
    <3> QED BY <3>1, <3>2, <3>3
  <2>2. node.start \in Nat
    BY ClustersAreNat DEF Node
  <2> QED BY <2>1, <2>2
<1>2. PICK g : IsIteration(g, Nat, node.start, step)
  <2> HIDE DEF step
  <2> QED BY <1>1, Iterates
<1>3. ASSUME NEW k \in Nat \ {0} PROVE g[k] = body(g, k)
  <2>1. CASE k = 1
    BY <1>2, <2>1 DEF IsIteration
  <2>2. CASE k # 1
    <3>1. k - 1 \in Nat \ {0} /\ (k - 1) + 1 = k
      BY <2>2
    <3>2. g[(k - 1) + 1] = step[g[k - 1]] /\ g[k - 1] \in Nat
      BY <1>2, <3>1 DEF IsIteration
    <3> QED BY <2>2, <3>1, <3>2
  <2> QED BY <2>1, <2>2
<1>4. g = [k \in Nat \ {0} |-> body(g, k)]
  BY <1>2, <1>3 DEF IsIteration
<1>5. Chain = [k \in Nat \ {0} |-> body(Chain, k)]
  <2>1. \E f : f = [k \in Nat \ {0} |-> body(f, k)]
    BY <1>4
  <2> QED BY <2>1 DEF Chain
<1>6. \A k \in Nat \ {0} : Chain[k] = body(Chain, k)
  BY <1>5
<1>7. Chain[1] = node.start
  BY <1>6
<1>8. ASSUME NEW k \in Nat \ {0} PROVE Chain[k + 1] = Link(Chain[k])
  <2>1. k + 1 \in Nat \ {0} /\ k + 1 # 1 /\ (k + 1) - 1 = k
    OBVIOUS
  <2> QED BY <1>6, <2>1
<1> QED BY <1>7, <1>8 DEF IsChain

\* The clusters of a file that holds something, and what is over in the last.
LEMMA CalcOf ==
    ASSUME node \in Node, node.size > 0
    PROVE  /\ CalcNumClusters \in Nat \ {0}
           /\ calc_clusters = CalcNumClusters - 1
           /\ calc_clusters \in Nat
           /\ node.size % ClusterSize \in 0 .. ClusterSize - 1
<1> DEFINE q == node.size \div ClusterSize
           r == node.size % ClusterSize
<1>1. node.size \in Nat \ {0} /\ ClusterSize \in Nat \ {0} /\ Wrap \in Nat /\ node.size < Wrap
  BY SizesAssumption DEF Node
<1>2. \A a \in Nat, b \in Nat \ {0} :
        /\ a \div b \in Nat /\ a % b \in 0 .. b - 1 /\ a = b * (a \div b) + (a % b)
        /\ a \div b <= a
  <2>1. \A a \in Nat, b \in Nat \ {0} : a \div b \in Nat
    OBVIOUS
  <2>2. \A a \in Nat, b \in Nat \ {0} : a % b \in 0 .. b - 1
    OBVIOUS
  <2>3. \A a \in Nat, b \in Nat \ {0} : a = b * (a \div b) + (a % b)
    OBVIOUS
  <2>4. \A a \in Nat, b \in Nat \ {0} : a \div b <= a
    <3> SUFFICES ASSUME NEW a \in Nat, NEW b \in Nat \ {0}
                 PROVE  a \div b <= a
      OBVIOUS
    <3>1. a \div b \in Nat /\ a % b \in Nat /\ a = b * (a \div b) + (a % b)
      BY <2>1, <2>2, <2>3
    <3>2. \A x \in Nat, y \in Nat \ {0} : x <= y * x
      OBVIOUS
    <3>3. a \div b <= b * (a \div b) /\ b * (a \div b) \in Nat
      BY <3>1, <3>2
    <3> QED BY <3>1, <3>3
  <2> QED BY <2>1, <2>2, <2>3, <2>4
<1>3. q \in Nat /\ r \in 0 .. ClusterSize - 1 /\ node.size = ClusterSize * q + r /\ q <= node.size
  BY ONLY <1>1, <1>2
<1> HIDE DEF q, r
<1>4. q = 0 => r # 0
  BY ONLY <1>1, <1>3
<1>5. CalcNumClusters = IF r # 0 THEN q + 1 ELSE q
  BY DEF CalcNumClusters, q, r
<1>6. CalcNumClusters \in Nat \ {0} /\ CalcNumClusters - 1 <= node.size
  BY ONLY <1>1, <1>3, <1>4, <1>5
<1>7. \A a \in Nat, b \in Nat : a < b => a % b = a
  OBVIOUS
<1>8. CalcNumClusters - 1 \in Nat /\ CalcNumClusters - 1 < Wrap
  BY ONLY <1>1, <1>6
<1>9. calc_clusters = CalcNumClusters - 1
  BY <1>1, <1>7, <1>8 DEF calc_clusters
<1> QED BY <1>3, <1>6, <1>8, <1>9 DEF r

-----------------------------------------------------------------------------
(* What is listed is the chain, up to where it cannot be followed.          *)

Sound(c, k) == \A l \in 1 .. k : c[l] \in Heap

Read(k) == \A l \in unread : l >= k

\* The clusters listed are those of the chain c, and next is the one in hand.
Follows(c) ==
    /\ \A k \in DOMAIN out :
         Sound(c, k) /\ Read(k) => out[k].offset = ClusterToOffset(c[k])
    /\ pc = "loop" /\ Sound(c, i + 1) => next = c[i + 1]

\* Every cluster is listed in full, the last one with what is over.
Full ==
    /\ pc = "loop" => \A k \in DOMAIN out : out[k].size = ClusterSize
    /\ pc = "done" /\ node.size > 0 =>
         \A k \in DOMAIN out :
             Read(k) =>
                 out[k].size = IF k = CalcNumClusters /\ node.size % ClusterSize # 0
                                 THEN node.size % ClusterSize ELSE ClusterSize

\* The loop has as many rounds as the file has clusters behind the first, and
\* an unreadable link ends it.
Rounds ==
    /\ pc \in {"first", "loop", "done"}
    /\ out \in Seq(Offset)
    /\ i \in 0 .. CalcNumClusters
    /\ pc # "done" => unread = {}
    /\ pc = "loop" => i <= calc_clusters
    /\ node.size > 0 => Len(out) <= CalcNumClusters

Walked ==
    /\ Rounds /\ Full /\ WholeIfSound
    /\ \A c : IsChain(c) => Follows(c)

LEMMA CalcIsNat ==
    ASSUME node \in Node
    PROVE  CalcNumClusters \in Nat /\ node.size % ClusterSize \in 0 .. ClusterSize
<1>1. node.size \in Nat /\ ClusterSize \in Nat \ {0}
  BY SizesAssumption DEF Node
<1>2. \A a \in Nat, b \in Nat \ {0} : a \div b \in Nat /\ a % b \in 0 .. b
  OBVIOUS
<1> QED BY <1>1, <1>2 DEF CalcNumClusters

\* Nothing the loop bound is made of changes.
LEMMA CalcKept ==
    node' = node => /\ CalcNumClusters' = CalcNumClusters
                    /\ calc_clusters' = calc_clusters
BY DEF CalcNumClusters, calc_clusters

LEMMA ChainKept ==
    ASSUME NEW c, UNCHANGED <<node, fat>>
    PROVE  IsChain(c)' <=> IsChain(c)
BY DEF IsChain, Link

LEMMA InitWalked == Init => Walked
<1> SUFFICES ASSUME Init PROVE Walked
  OBVIOUS
<1>1. /\ pc = "first" /\ i = 0 /\ unread = {} /\ node \in Node
      /\ out = <<>> /\ DOMAIN out = {} /\ Len(out) = 0 /\ out \in Seq(Offset)
  BY DEF Init
<1>2. CalcNumClusters \in Nat
  BY <1>1, CalcIsNat
<1>3. Rounds
  BY <1>1, <1>2 DEF Rounds
<1> QED BY <1>1, <1>3 DEF Walked, Full, WholeIfSound, Follows

LEMMA FirstWalked == Inv /\ Walked /\ First => Walked'
<1> SUFFICES ASSUME Inv, Walked, First PROVE Walked'
  OBVIOUS
<1> DEFINE o == [offset |-> ClusterToOffset(node.start), size |-> ClusterSize]
<1>1. /\ out' = <<o>> /\ next' = node.start /\ pc = "first" /\ i = 0
      /\ pc' = IF ClusterToOffset(node.start) = 0 THEN "done" ELSE "loop"
      /\ node' = node /\ fat' = fat /\ i' = i /\ unread' = unread
  BY DEF First, Inv
<1>2. unread = {} /\ unread' = {} /\ i' = 0
  BY <1>1 DEF Walked, Rounds
<1>3. node \in Node /\ node.start \in Clusters /\ node.size \in Nat /\ CheckNode(node)
  BY SizesAssumption DEF Inv, Node
<1>4. /\ ClusterToOffset(node.start) \in Nat
      /\ ClusterToOffset(node.start) = 0 <=> node.start < 2
  BY <1>3, OffsetOf DEF EXFAT_FIRST_DATA_CLUSTER
<1>5. pc' = "done" => node.size = 0
  <2> SUFFICES ASSUME pc' = "done", node.size > 0 PROVE FALSE
    BY <1>3
  <2>1. node.start < 2
    BY <1>1, <1>4
  <2>2. ~(node.start < 2)
    BY <1>3 DEF CheckNode, CLUSTER_INVALID, EXFAT_FIRST_DATA_CLUSTER
  <2> QED BY <2>1, <2>2
<1>6. o \in Offset
  <2>1. ClusterSize \in 0 .. ClusterSize
    BY SizesAssumption
  <2> QED BY <1>4, <2>1 DEF Offset
<1>7. /\ out' \in Seq(Offset) /\ Len(out') = 1 /\ DOMAIN out' = {1} /\ out'[1] = o
  BY <1>1, <1>6
<1>8. Rounds'
  <2>1. i' \in 0 .. CalcNumClusters' /\ CalcNumClusters' = CalcNumClusters
    BY <1>1, <1>2, <1>3, CalcIsNat, CalcKept
  <2>2. pc' = "loop" => i' <= calc_clusters'
    <3> SUFFICES ASSUME pc' = "loop" PROVE i' <= calc_clusters'
      OBVIOUS
    <3>1. node.size > 0
      <4>1. ~(node.start < 2)
        BY <1>1, <1>4
      <4> QED BY <1>3, <4>1 DEF CheckNode, EXFAT_CLUSTER_FREE
    <3>2. calc_clusters \in Nat /\ calc_clusters' = calc_clusters
      BY <1>1, <1>3, <3>1, CalcOf, CalcKept
    <3> QED BY <1>2, <3>2
  <2>3. node'.size > 0 => Len(out') <= CalcNumClusters'
    BY <1>1, <1>3, <1>7, <2>1, CalcOf
  <2>4. pc' \in {"first", "loop", "done"}
    BY <1>1
  <2> QED BY <1>2, <1>7, <2>1, <2>2, <2>3, <2>4 DEF Rounds
<1>9. Full'
  <2>1. pc' = "done" => ~(node'.size > 0)
    BY <1>1, <1>5
  <2>2. \A k \in DOMAIN out' : out'[k].size = ClusterSize
    BY <1>7
  <2> QED BY <2>1, <2>2 DEF Full
<1>10. WholeIfSound'
  BY <1>1, <1>5 DEF WholeIfSound
<1>11. ASSUME NEW c, IsChain(c)' PROVE Follows(c)'
  <2>1. c[1] = node.start
    BY <1>1, <1>11, ChainKept DEF IsChain
  <2>2. (ClusterToOffset(c[1]))' = ClusterToOffset(node.start)
    BY <2>1 DEF ClusterToOffset
  <2>3. next' = c[i' + 1]
    BY <1>1, <1>2, <2>1
  <2>4. \A k \in DOMAIN out' : out'[k].offset = (ClusterToOffset(c[k]))'
    BY <1>7, <2>2
  <2> QED BY <2>3, <2>4 DEF Follows
<1> QED BY <1>8, <1>9, <1>10, <1>11 DEF Walked

\* A readable link to a cluster of the heap is followed to where it leads.
LEMMA NextIsLink ==
    ASSUME node \in Node, fat \in [Heap -> Clusters],
           NEW c \in Heap, NEW d \in NextCluster(c) \ {EXFAT_CLUSTER_BAD},
           Link(c) \in Heap
    PROVE  d = Link(c)
<1>1. c \in Nat /\ c >= 2 /\ c <= LastData /\ LastData \in Nat
  BY SizesAssumption DEF Heap, EXFAT_FIRST_DATA_CLUSTER
<1>2. CASE node.contiguous
  <2>1. d = (c + 1) % (LastData + 2 + 1)
    BY <1>1, <1>2 DEF NextCluster, EXFAT_CLUSTER_END, EXFAT_FIRST_DATA_CLUSTER
  <2>2. c + 1 \in Nat /\ LastData + 2 + 1 \in Nat \ {0} /\ c + 1 < LastData + 2 + 1
    BY ONLY <1>1
  <2>3. \A a \in Nat, b \in Nat \ {0} : a < b => a % b = a
    OBVIOUS
  <2>4. d = c + 1
    BY ONLY <2>1, <2>2, <2>3
  <2> QED BY <1>2, <2>4 DEF Link
<1>3. CASE ~node.contiguous
  <2>1. NextCluster(c) = {fat[c], EXFAT_CLUSTER_BAD}
    BY <1>1, <1>3 DEF NextCluster, EXFAT_FIRST_DATA_CLUSTER
  <2> QED BY <1>3, <2>1 DEF Link
<1> QED BY <1>2, <1>3

LEMMA SoundBefore ==
    ASSUME NEW c, NEW k \in Nat, NEW m \in Nat, k <= m, Sound(c, m)
    PROVE  Sound(c, k)
<1>1. \A l \in 1 .. k : l \in 1 .. m
  OBVIOUS
<1> QED BY <1>1 DEF Sound

LEMMA FollowWalked == Inv /\ Walked /\ Follow => Walked'
<1> SUFFICES ASSUME Inv, Walked, Follow PROVE Walked'
  OBVIOUS
<1> DEFINE o == [offset |-> ClusterToOffset(next'), size |-> ClusterSize]
<1>1. /\ pc = "loop" /\ pc' = "loop" /\ i < calc_clusters
      /\ next' \in NextCluster(next) \ {EXFAT_CLUSTER_BAD}
      /\ out' = Append(out, o) /\ i' = i + 1
      /\ node' = node /\ fat' = fat /\ unread' = unread
  BY DEF Follow
<1>2. /\ node \in Node /\ node.size > 0 /\ fat \in [Heap -> Clusters]
      /\ next \in Clusters /\ next' \in Clusters
  BY <1>1, NextOf DEF Inv
<1>3. /\ CalcNumClusters \in Nat \ {0} /\ calc_clusters = CalcNumClusters - 1
      /\ CalcNumClusters' = CalcNumClusters /\ calc_clusters' = calc_clusters
  BY <1>1, <1>2, CalcOf, CalcKept
<1>4. unread = {} /\ Len(out) = i + 1 /\ i \in Nat /\ out \in Seq(Offset)
  BY <1>1 DEF Inv, AtNext, Walked, Rounds
<1>5. o \in Offset
  <2>1. ClusterToOffset(next') \in Nat /\ ClusterSize \in 0 .. ClusterSize
    BY <1>2, OffsetOf, SizesAssumption
  <2> QED BY <2>1 DEF Offset
<1>6. /\ out' \in Seq(Offset) /\ Len(out') = i + 2 /\ DOMAIN out' = 1 .. i + 2
      /\ DOMAIN out = 1 .. i + 1
      /\ \A k \in 1 .. i + 1 : out'[k] = out[k]
      /\ out'[i + 2] = o
  <2>1. /\ out' \in Seq(Offset) /\ Len(out') = Len(out) + 1 /\ out'[Len(out) + 1] = o
        /\ \A k \in 1 .. Len(out) : out'[k] = out[k]
    BY <1>1, <1>4, <1>5, AppendProperties
  <2>2. DOMAIN out' = 1 .. Len(out') /\ DOMAIN out = 1 .. Len(out)
    BY <1>4, <2>1, LenProperties
  <2>3. Len(out') = i + 2 /\ Len(out) + 1 = i + 2
    BY ONLY <1>4, <2>1
  <2> QED BY <1>4, <2>1, <2>2, <2>3
<1>7. Rounds'
  <2>1. i' \in 0 .. CalcNumClusters' /\ i' <= calc_clusters' /\ Len(out') <= CalcNumClusters'
    <3>1. calc_clusters \in Nat /\ i + 1 <= calc_clusters
      BY ONLY <1>1, <1>3, <1>4
    <3> QED BY ONLY <1>1, <1>3, <1>4, <1>6, <3>1
  <2> QED BY <1>1, <1>4, <1>6, <2>1 DEF Rounds
<1>8. Full'
  <2>1. \A k \in DOMAIN out : out[k].size = ClusterSize
    BY <1>1 DEF Walked, Full
  <2>2. ASSUME NEW k \in DOMAIN out' PROVE out'[k].size = ClusterSize
    <3>1. k \in 1 .. i + 1 \/ k = i + 2
      BY ONLY <1>4, <1>6, <2>2
    <3> QED BY <1>6, <2>1, <3>1
  <2> QED BY <1>1, <2>2 DEF Full
<1>9. WholeIfSound'
  BY <1>1 DEF WholeIfSound
<1>10. ASSUME NEW c, IsChain(c)' PROVE Follows(c)'
  <2>1. IsChain(c) /\ Follows(c)
    BY <1>1, <1>10, ChainKept DEF Walked
  <2>2. ASSUME NEW k \in DOMAIN out' PROVE k \in 1 .. i + 1 \/ k = i + 2
    BY ONLY <1>4, <1>6, <2>2
  <2>3. (i + 1) + 1 = i + 2 /\ i + 1 \in Nat \ {0} /\ i + 2 \in Nat /\ i + 1 <= i + 2
    BY <1>4
  <2>4. c[i + 2] = Link(c[i + 1])
    <3>1. c[(i + 1) + 1] = Link(c[i + 1])
      BY <2>1, <2>3 DEF IsChain
    <3> QED BY <2>3, <3>1
  <2>5. ASSUME Sound(c, i + 2) PROVE next' = c[i + 2]
    <3>1. Sound(c, i + 1)
      BY <2>3, <2>5, SoundBefore
    <3>2. next = c[i + 1]
      BY <1>1, <2>1, <3>1 DEF Follows
    <3>3. c[i + 1] \in Heap /\ c[i + 2] \in Heap
      BY <1>4, <2>5 DEF Sound
    <3> QED BY <1>1, <1>2, <2>4, <3>2, <3>3, NextIsLink
  <2>6. \A d : (ClusterToOffset(d))' = ClusterToOffset(d)
    BY DEF ClusterToOffset
  <2>7. \A k : (Sound(c, k))' = Sound(c, k)
    BY DEF Sound
  <2>8. \A k : Read(k) /\ Read(k)'
    BY <1>1, <1>4 DEF Read
  <2>9. ASSUME NEW k \in DOMAIN out', Sound(c, k)
        PROVE  out'[k].offset = ClusterToOffset(c[k])
    <3>1. CASE k \in 1 .. i + 1
      <4>1. out'[k] = out[k] /\ k \in DOMAIN out
        BY <1>6, <3>1
      <4> QED BY <2>1, <2>8, <2>9, <4>1 DEF Follows
    <3>2. CASE k = i + 2
      <4>1. next' = c[i + 2]
        BY <2>5, <2>9, <3>2
      <4>2. out'[k] = o
        BY <1>6, <3>2
      <4> QED BY <3>2, <4>1, <4>2
    <3> QED BY <2>2, <3>1, <3>2
  <2>10. Sound(c, i' + 1) => next' = c[i' + 1]
    <3>1. i' + 1 = i + 2
      BY <1>1, <1>4
    <3> QED BY <2>5, <3>1
  <2> QED BY <2>6, <2>7, <2>9, <2>10 DEF Follows
<1> QED BY <1>7, <1>8, <1>9, <1>10 DEF Walked

LEMMA LoseChainWalked == Inv /\ Walked /\ LoseChain => Walked'
<1> SUFFICES ASSUME Inv, Walked, LoseChain PROVE Walked'
  OBVIOUS
<1>1. /\ pc = "loop" /\ pc' = "done" /\ i < calc_clusters
      /\ out' = Append(out, Lost) /\ unread' = unread \cup {i + 1}
      /\ node' = node /\ fat' = fat /\ i' = i /\ next' = next
  BY DEF LoseChain
<1>2. node \in Node /\ node.size > 0
  BY <1>1 DEF Inv
<1>3. /\ CalcNumClusters \in Nat \ {0} /\ calc_clusters = CalcNumClusters - 1
      /\ CalcNumClusters' = CalcNumClusters /\ calc_clusters' = calc_clusters
  BY <1>1, <1>2, CalcOf, CalcKept
<1>4. unread' = {i + 1} /\ Len(out) = i + 1 /\ i \in Nat /\ out \in Seq(Offset)
  BY <1>1 DEF Inv, AtNext, Walked, Rounds
<1>5. Lost \in Offset
  BY SizesAssumption DEF Lost, Offset
<1>6. /\ out' \in Seq(Offset) /\ Len(out') = i + 2 /\ DOMAIN out' = 1 .. i + 2
      /\ DOMAIN out = 1 .. i + 1
      /\ \A k \in 1 .. i + 1 : out'[k] = out[k]
  <2>1. /\ out' \in Seq(Offset) /\ Len(out') = Len(out) + 1
        /\ \A k \in 1 .. Len(out) : out'[k] = out[k]
    BY <1>1, <1>4, <1>5, AppendProperties
  <2>2. DOMAIN out' = 1 .. Len(out') /\ DOMAIN out = 1 .. Len(out)
    BY <1>4, <2>1, LenProperties
  <2>3. Len(out') = i + 2
    BY ONLY <1>4, <2>1
  <2> QED BY <1>4, <2>1, <2>2, <2>3
<1>7. Rounds'
  <2>1. i' \in 0 .. CalcNumClusters' /\ Len(out') <= CalcNumClusters'
    BY ONLY <1>1, <1>3, <1>4, <1>6
  <2> QED BY <1>1, <1>6, <2>1 DEF Rounds
<1>8. ASSUME NEW k \in DOMAIN out', Read(k)'
      PROVE  /\ k \in DOMAIN out /\ out'[k] = out[k] /\ Read(k)
             /\ k # CalcNumClusters
  <2>1. i + 1 >= k
    BY <1>4, <1>8 DEF Read
  <2>2. k \in 1 .. i + 1 /\ k # CalcNumClusters
    BY ONLY <1>1, <1>3, <1>4, <1>6, <1>8, <2>1
  <2>3. Read(k)
    BY <1>1 DEF Read, Walked, Rounds
  <2> QED BY <1>6, <2>2, <2>3
<1>9. Full'
  <2>1. ASSUME NEW k \in DOMAIN out', Read(k)' PROVE out'[k].size = ClusterSize
    BY <1>1, <1>8, <2>1 DEF Walked, Full
  <2> QED BY <1>1, <1>3, <1>8, <2>1 DEF Full
<1>10. WholeIfSound'
  BY <1>4 DEF WholeIfSound
<1>11. ASSUME NEW c, IsChain(c)' PROVE Follows(c)'
  <2>1. IsChain(c) /\ Follows(c)
    BY <1>1, <1>11, ChainKept DEF Walked
  <2>2. \A d : (ClusterToOffset(d))' = ClusterToOffset(d)
    BY DEF ClusterToOffset
  <2>3. \A k : (Sound(c, k))' = Sound(c, k)
    BY DEF Sound
  <2>4. ASSUME NEW k \in DOMAIN out', Sound(c, k), Read(k)'
        PROVE  out'[k].offset = ClusterToOffset(c[k])
    BY <1>8, <2>1, <2>4 DEF Follows
  <2> QED BY <1>1, <2>2, <2>3, <2>4 DEF Follows
<1> QED BY <1>7, <1>9, <1>10, <1>11 DEF Walked

LEMMA FixSizeWalked == Inv /\ Walked /\ FixSize => Walked'
<1> SUFFICES ASSUME Inv, Walked, FixSize PROVE Walked'
  OBVIOUS
<1> DEFINE rest == node.size % ClusterSize
<1>1. /\ pc = "loop" /\ pc' = "done" /\ i >= calc_clusters
      /\ out' = IF rest = 0 THEN out ELSE [out EXCEPT ![calc_clusters + 1].size = rest]
      /\ node' = node /\ fat' = fat /\ i' = i /\ next' = next /\ unread' = unread
  BY DEF FixSize
<1>2. node \in Node /\ node.size > 0
  BY <1>1 DEF Inv
<1>3. /\ CalcNumClusters \in Nat \ {0} /\ calc_clusters = CalcNumClusters - 1
      /\ CalcNumClusters' = CalcNumClusters
      /\ rest \in 0 .. ClusterSize
  BY <1>1, <1>2, CalcOf, CalcKept, CalcIsNat
<1>4. unread = {} /\ Len(out) = i + 1 /\ i \in Nat /\ out \in Seq(Offset) /\ i <= calc_clusters
  BY <1>1 DEF Inv, AtNext, Walked, Rounds
<1>5. Len(out) = CalcNumClusters /\ calc_clusters + 1 = CalcNumClusters /\ i = calc_clusters
  BY ONLY <1>1, <1>3, <1>4
<1>6. DOMAIN out = 1 .. CalcNumClusters /\ CalcNumClusters \in DOMAIN out
  <2>1. DOMAIN out = 1 .. Len(out)
    BY <1>4, LenProperties
  <2> QED BY <1>3, <1>5, <2>1
<1>7. \A k \in DOMAIN out : out[k] \in Offset /\ out[k].size = ClusterSize
  BY <1>1, <1>4 DEF Walked, Full
<1> DEFINE N == CalcNumClusters
<1>8. /\ out' \in Seq(Offset) /\ Len(out') = N /\ DOMAIN out' = DOMAIN out
      /\ \A k \in DOMAIN out :
           /\ out'[k].offset = out[k].offset
           /\ out'[k].size = IF k = N /\ rest # 0 THEN rest ELSE ClusterSize
  <2>1. CASE rest = 0
    BY <1>1, <1>4, <1>5, <1>7, <2>1
  <2>2. CASE rest # 0
    <3> DEFINE r == [out[N] EXCEPT !.size = rest]
    <3>1. out' = [out EXCEPT ![N] = r]
      <4>1. out' = [out EXCEPT ![N].size = rest]
        BY <1>1, <1>5, <2>2
      <4> QED BY <4>1
    <3>2. r \in Offset /\ r.offset = out[N].offset /\ r.size = rest
      <4>1. out[N] \in Offset
        BY <1>6, <1>7
      <4> QED BY <1>3, <4>1 DEF Offset
    <3> HIDE DEF r, rest, N
    <3>3. out' \in Seq(Offset) /\ Len(out') = Len(out)
      <4>1. N \in 1 .. Len(out)
        BY <1>4, <1>6, LenProperties DEF N
      <4> QED BY <1>4, <3>1, <3>2, <4>1, ExceptSeq
    <3>4. DOMAIN out' = DOMAIN out /\ \A k \in DOMAIN out : out'[k] = IF k = N THEN r ELSE out[k]
      BY <1>4, <3>1
    <3>5. Len(out') = N
      BY <1>5, <3>3 DEF N
    <3> QED BY <1>7, <2>2, <3>2, <3>3, <3>4, <3>5
  <2> QED BY <2>1, <2>2
<1>9. Rounds'
  <2>1. i' \in 0 .. CalcNumClusters' /\ Len(out') <= CalcNumClusters'
    BY ONLY <1>1, <1>3, <1>4, <1>5, <1>8
  <2> QED BY <1>1, <1>8, <2>1 DEF Rounds
<1>10. Full'
  <2>1. \A k \in DOMAIN out' :
          out'[k].size = IF k = CalcNumClusters /\ node.size % ClusterSize # 0
                           THEN node.size % ClusterSize ELSE ClusterSize
    BY <1>8
  <2>2. (node.size % ClusterSize)' = node.size % ClusterSize
    BY <1>1
  <2> QED BY <1>1, <1>3, <2>1, <2>2 DEF Full
<1>11. WholeIfSound'
  BY <1>1, <1>3, <1>8 DEF WholeIfSound
<1>12. ASSUME NEW c, IsChain(c)' PROVE Follows(c)'
  <2>1. IsChain(c) /\ Follows(c)
    BY <1>1, <1>12, ChainKept DEF Walked
  <2>2. \A d : (ClusterToOffset(d))' = ClusterToOffset(d)
    BY DEF ClusterToOffset
  <2>3. \A k : (Sound(c, k))' = Sound(c, k)
    BY DEF Sound
  <2>4. \A k : Read(k)' = Read(k)
    BY <1>1 DEF Read
  <2>5. ASSUME NEW k \in DOMAIN out', Sound(c, k), Read(k)
        PROVE  out'[k].offset = ClusterToOffset(c[k])
    BY <1>8, <2>1, <2>5 DEF Follows
  <2> QED BY <1>1, <2>2, <2>3, <2>4, <2>5 DEF Follows
<1> QED BY <1>9, <1>10, <1>11, <1>12 DEF Walked

LEMMA StutterWalked == Walked /\ UNCHANGED vars => Walked'
<1> SUFFICES ASSUME Walked, UNCHANGED vars PROVE Walked'
  OBVIOUS
<1>1. /\ node' = node /\ fat' = fat /\ pc' = pc /\ next' = next
      /\ i' = i /\ out' = out /\ unread' = unread
  BY DEF vars
<1>2. CalcNumClusters' = CalcNumClusters /\ calc_clusters' = calc_clusters
  BY <1>1, CalcKept
<1>3. \A k : Read(k)' = Read(k)
  BY <1>1 DEF Read
<1>4. Rounds' /\ Full' /\ WholeIfSound'
  BY <1>1, <1>2, <1>3 DEF Walked, Rounds, Full, WholeIfSound
<1>5. ASSUME NEW c, IsChain(c)' PROVE Follows(c)'
  <2>1. Follows(c)
    BY <1>1, <1>5, ChainKept DEF Walked
  <2>2. \A d : (ClusterToOffset(d))' = ClusterToOffset(d)
    BY DEF ClusterToOffset
  <2>3. \A k : (Sound(c, k))' = Sound(c, k)
    BY DEF Sound
  <2> QED BY <1>1, <1>3, <2>1, <2>2, <2>3 DEF Follows
<1> QED BY <1>4, <1>5 DEF Walked

LEMMA StepWalked == Inv /\ Walked /\ [Next]_vars => Inv' /\ Walked'
BY StepInv, FirstWalked, FollowWalked, LoseChainWalked, FixSizeWalked, StutterWalked DEF Next

LEMMA WalkedIsExact == Inv /\ Walked => TypeOK /\ PrefixExact /\ WholeIfSound
<1> SUFFICES ASSUME Inv, Walked PROVE TypeOK /\ PrefixExact /\ WholeIfSound
  OBVIOUS
<1>1. node \in Node /\ fat \in [Heap -> Clusters] /\ CheckNode(node) /\ next \in Clusters
  BY DEF Inv
<1>2. node.size \in Nat
  BY <1>1, SizesAssumption DEF Node
<1>3. TypeOK
  <2>1. node.size > 0 \/ node.size = 0
    BY <1>2
  <2> QED BY <1>1, <2>1 DEF Walked, Rounds, TypeOK
<1>4. ASSUME NEW k \in DOMAIN out, SoundTo(k), Read(k)
      PROVE  /\ out[k].offset = ClusterToOffset(Chain[k])
             /\ pc = "done" =>
                  out[k].size = IF k = CalcNumClusters /\ node.size % ClusterSize # 0
                                  THEN node.size % ClusterSize ELSE ClusterSize
  <2>1. IsChain(Chain) /\ Follows(Chain) /\ Sound(Chain, k)
    BY <1>1, <1>4, ChainIsChain DEF Walked, SoundTo, Sound
  <2>2. node.size > 0
    <3> SUFFICES ASSUME node.size = 0 PROVE FALSE
      BY <1>2
    <3>1. node.start = 0
      BY <1>1 DEF CheckNode, EXFAT_CLUSTER_FREE
    <3>2. 1 \in 1 .. k
      BY <1>4, LenProperties DEF Walked, Rounds
    <3>3. Chain[1] \in Heap /\ Chain[1] = node.start
      BY <2>1, <3>2 DEF Sound, IsChain
    <3> QED BY <3>1, <3>3 DEF Heap, EXFAT_FIRST_DATA_CLUSTER
  <2> QED BY <1>4, <2>1, <2>2 DEF Walked, Full, Follows
<1>5. PrefixExact
  BY <1>4 DEF PrefixExact, Read
<1> QED BY <1>3, <1>5 DEF Walked

\* getOffsets lists the file's own clusters, in order and in full, as far as
\* the FAT can be read and stays on the heap; a file whose chain is whole is
\* listed whole, and the loop never leaves the clusters of the file
\* (ExfatNode::getOffsets, exfat_next_cluster, exfat_c2o).
THEOREM OffsetsAreExact == Spec => []OffsetsExact
<1>1. Init => Inv /\ Walked
  BY InitInv, InitWalked
<1>2. Spec => [](Inv /\ Walked)
  BY <1>1, StepWalked, PTL DEF Spec
<1>3. Inv /\ Walked => TypeOK /\ PrefixExact /\ WholeIfSound
  BY WalkedIsExact
<1>4. TypeOK /\ PrefixExact /\ WholeIfSound /\ BoundsHold => OffsetsExact
  BY DEF OffsetsExact
<1> QED BY <1>2, <1>3, <1>4, LastElementIsThere, PTL
=============================================================================
