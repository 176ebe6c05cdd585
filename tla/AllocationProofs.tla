-------------------------- MODULE AllocationProofs --------------------------
(***************************************************************************)
(* Proofs about Allocation, for any number of files, clusters and bytes,   *)
(* any sound medium to begin with and any failures: the clusters of a file *)
(* are its own through every step of every call, its bytes were written to *)
(* it, ENOSPC takes nothing, and an unmounted volume is sound.             *)
(*                                                                         *)
(* The argument is one inductive invariant, in AllocationInvariant.  Its   *)
(* part Base holds always: types, and which variables go together.  The    *)
(* rest holds as long as the volume is Trusted: until a file is used again *)
(* that a call has failed on, or grows backwards, a size overflows, or an  *)
(* unmount does not write the bitmap.  There is a lemma ...Base and a      *)
(* lemma ...Held for each action.  Those of the steps of a call rest on    *)
(* NowStep: a step that touches no cluster but those of its own file, or   *)
(* free ones, leaves the claims of all other files alone.                  *)
(***************************************************************************)
EXTENDS AllocationInvariant, FiniteSetTheorems, WellFoundedInduction, TLAPS

-----------------------------------------------------------------------------
(* Induction over the numbers, as far as definitions by recursion need it  *)

LEMMA LeastElement ==
    ASSUME NEW T, T \subseteq Nat, T # {}
    PROVE  \E m \in T : \A n \in T : m <= n
<1>1. PICK R : /\ IsWellFoundedOn(R, Nat)
               /\ \A n, k \in Nat : n < k => <<n, k>> \in R
  <2>1. \A n, k \in Nat : n < k => <<n, k>> \in OpToRel(<, Nat)
    BY DEF OpToRel
  <2> QED BY <2>1, NatLessThanWellFounded, Zenon
<1>2. PICK m \in T : \A n \in T : ~(<<n, m>> \in R)
  <2>1. IsWellFoundedOn(R, Nat) /\ T \subseteq Nat /\ T # {}
    BY <1>1
  <2>2. \A A, B, C : IsWellFoundedOn(A, B) /\ C \subseteq B /\ C # {} =>
          \E x \in C : \A y \in C : ~(<<y, x>> \in A)
    BY WFMin
  <2> QED BY ONLY <2>1, <2>2, Zenon
<1>3. ASSUME NEW n \in T PROVE m <= n
  <2>1. n \in Nat /\ m \in Nat
    OBVIOUS
  <2>2. ~(n < m)
    BY <1>1, <1>2, <2>1
  <2> QED BY ONLY <2>1, <2>2
<1> QED BY <1>3

LEMMA SetInduction ==
    ASSUME NEW S, 0 \in S, \A n \in Nat : n \in S => n + 1 \in S
    PROVE  Nat \subseteq S
<1> SUFFICES ASSUME Nat \ S # {} PROVE FALSE
  OBVIOUS
<1>1. PICK m \in Nat \ S : \A n \in Nat \ S : m <= n
  BY LeastElement
<1>2. m - 1 \in Nat /\ m - 1 \notin S
  BY <1>1
<1> QED BY <1>1, <1>2

\* A function on 0 .. n may be defined by its first value and a step.
LEMMA StepByStep ==
    ASSUME NEW n \in Nat, NEW a \in Nat, NEW next \in [Nat -> [Nat -> Nat]]
    PROVE  \E g \in [0 .. n -> Nat] :
             g[0] = a /\ \A k \in 1 .. n : g[k] = next[k][g[k - 1]]
<1> DEFINE IsIt(g, l) == g[0] = a /\ \A k \in 1 .. l : g[k] = next[k][g[k - 1]]
           Exists(l) == \E g \in [0 .. l -> Nat] : IsIt(g, l)
           S == {l \in Nat : Exists(l)}
<1>1. Exists(0)
  <2> DEFINE g == [k \in 0 .. 0 |-> a]
  <2>1. g \in [0 .. 0 -> Nat] /\ IsIt(g, 0)
    OBVIOUS
  <2> QED BY <2>1
<1>2. ASSUME NEW l \in Nat, Exists(l) PROVE Exists(l + 1)
  <2> PICK g \in [0 .. l -> Nat] : IsIt(g, l)
    BY <1>2
  <2> PICK last : last = next[l + 1][g[l]]
    OBVIOUS
  <2> DEFINE h == [k \in 0 .. l + 1 |-> IF k = l + 1 THEN last ELSE g[k]]
  <2>1. last \in Nat
    <3>1. l + 1 \in Nat /\ g[l] \in Nat
      OBVIOUS
    <3>2. next[l + 1] \in [Nat -> Nat]
      BY <3>1
    <3> QED BY <3>1, <3>2
  <2>2. h \in [0 .. l + 1 -> Nat]
    <3>1. \A k \in 0 .. l + 1 : k = l + 1 \/ k \in 0 .. l
      OBVIOUS
    <3> QED BY <2>1, <3>1
  <2>3. IsIt(h, l + 1)
    <3>1. h[0] = a
      OBVIOUS
    <3>2. ASSUME NEW k \in 1 .. l + 1 PROVE h[k] = next[k][h[k - 1]]
      <4>1. CASE k = l + 1
        <5>1. h[k] = last /\ h[k - 1] = g[l]
          BY <4>1
        <5> QED BY ONLY <4>1, <5>1, last = next[l + 1][g[l]], Zenon
      <4>2. CASE k # l + 1
        <5>1. k \in 1 .. l
          BY <4>2
        <5>2. g[k] = next[k][g[k - 1]]
          BY <5>1
        <5>3. /\ k \in 0 .. l + 1 /\ k # l + 1
              /\ k - 1 \in 0 .. l + 1 /\ k - 1 # l + 1
          BY <5>1
        <5>4. h[k] = g[k] /\ h[k - 1] = g[k - 1]
          BY ONLY <5>3
        <5> QED BY ONLY <5>2, <5>4, Zenon
      <4> QED BY <4>1, <4>2
    <3> HIDE DEF h
    <3> QED BY <3>1, <3>2
  <2> HIDE DEF h, IsIt
  <2> QED BY <2>2, <2>3
<1>3. 0 \in S /\ \A l \in Nat : l \in S => l + 1 \in S
  <2> HIDE DEF Exists
  <2> QED BY <1>1, <1>2
<1>4. n \in S
  <2> HIDE DEF S
  <2> QED BY <1>3, SetInduction
<1> HIDE DEF IsIt
<1>5. Exists(n)
  <2> HIDE DEF Exists
  <2> QED BY <1>4
<1> QED BY <1>5 DEF IsIt

\* A definition by recursion over an interval defines a function.
Iterates(g, from, count, a, step) ==
    g[from] = a /\ \A i \in from + 1 .. count : g[i] = step[i][g[i - 1]]

LEMMA IterationExists ==
    ASSUME NEW from \in Nat, NEW count \in Nat, from <= count,
           NEW a \in Nat, NEW step \in [Nat -> [Nat -> Nat]]
    PROVE  \E g \in [from .. count -> Nat] : Iterates(g, from, count, a, step)
<1> DEFINE shifted == [k \in Nat |-> step[k + from]]
<1>1. shifted \in [Nat -> [Nat -> Nat]]
  OBVIOUS
<1>2. PICK h \in [0 .. count - from -> Nat] :
        h[0] = a /\ \A k \in 1 .. count - from : h[k] = shifted[k][h[k - 1]]
  <2> HIDE DEF shifted
  <2>1. count - from \in Nat
    OBVIOUS
  <2> QED BY <1>1, <2>1, StepByStep, ZenonT(60)
<1> DEFINE g == [i \in from .. count |-> h[i - from]]
<1>3. g \in [from .. count -> Nat] /\ g[from] = a
  <2>1. \A i \in from .. count : i - from \in 0 .. count - from
    OBVIOUS
  <2>2. g[from] = h[from - from] /\ from - from = 0
    OBVIOUS
  <2> QED BY <2>1, <2>2, <1>2
<1>4. ASSUME NEW i \in from + 1 .. count PROVE g[i] = step[i][g[i - 1]]
  <2>1. /\ i - from \in 1 .. count - from /\ (i - from) + from = i /\ i - from \in Nat
        /\ i - 1 \in from .. count /\ (i - 1) - from = (i - from) - 1
    BY <1>4
  <2>2. g[i] = h[i - from] /\ g[i - 1] = h[(i - from) - 1]
    BY <2>1
  <2>3. shifted[i - from] = step[i]
    BY <2>1
  <2> HIDE DEF g, shifted
  <2>4. h[i - from] = shifted[i - from][h[(i - from) - 1]]
    BY <2>1, <1>2
  <2> QED BY ONLY <2>2, <2>3, <2>4, Zenon
<1>5. Iterates(g, from, count, a, step)
  <2> HIDE DEF g
  <2> QED BY <1>3, <1>4 DEF Iterates
<1> HIDE DEF g
<1> QED BY <1>3, <1>5

LEMMA Iterated ==
    ASSUME NEW from \in Nat, NEW count \in Nat, from <= count,
           NEW a \in Nat, NEW step \in [Nat -> [Nat -> Nat]], NEW at,
           Iterates(at, from, count, a, step)
    PROVE  \A i \in from .. count : at[i] \in Nat
<1>8. at[from] = a
  BY DEF Iterates
<1>9. \A i \in from + 1 .. count : at[i] = step[i][at[i - 1]]
  BY DEF Iterates
<1>10. \A i \in from .. count : at[i] \in Nat
  <2> DEFINE S == {k \in Nat : from + k <= count => at[from + k] \in Nat}
  <2>1. 0 \in S
    <3>1. from + 0 = from
      OBVIOUS
    <3>2. at[from] \in Nat
      BY ONLY <1>8, a \in Nat, Zenon
    <3>3. at[from + 0] \in Nat
      BY ONLY <3>1, <3>2, Zenon
    <3> QED BY ONLY <3>3
  <2>2. ASSUME NEW k \in Nat, k \in S PROVE k + 1 \in S
    <3> SUFFICES ASSUME from + (k + 1) <= count PROVE at[from + (k + 1)] \in Nat
      OBVIOUS
    <3>1. /\ at[from + k] \in Nat /\ from + (k + 1) \in from + 1 .. count
          /\ (from + (k + 1)) - 1 = from + k /\ from + (k + 1) \in Nat
      BY <2>2
    <3>2. at[from + (k + 1)] = step[from + (k + 1)][at[from + k]]
      BY <3>1, <1>9, Zenon
    <3>3. step[from + (k + 1)] \in [Nat -> Nat]
      BY <3>1
    <3> QED BY ONLY <3>1, <3>2, <3>3
  <2>3. Nat \subseteq S
    <3> HIDE DEF S
    <3> QED BY <2>1, <2>2, SetInduction
  <2> TAKE i \in from .. count
  <2>4. i - from \in Nat /\ from + (i - from) = i /\ i <= count
    OBVIOUS
  <2>5. i - from \in S
    BY <2>3, <2>4
  <2> QED BY <2>4, <2>5
<1> QED BY <1>10

-----------------------------------------------------------------------------
(* Numbers of clusters and of bytes                                        *)

LEMMA ClusterNumbers ==
    /\ Clusters \subseteq Nat
    /\ \A c \in Clusters : /\ ~CLUSTER_INVALID(c) /\ c # EXFAT_CLUSTER_FREE
                           /\ c >= EXFAT_FIRST_DATA_CLUSTER
    /\ CLUSTER_INVALID(EXFAT_CLUSTER_BAD) /\ CLUSTER_INVALID(EXFAT_CLUSTER_END)
    /\ CLUSTER_INVALID(EXFAT_CLUSTER_FREE)
    /\ EXFAT_CLUSTER_BAD \in Nat /\ EXFAT_CLUSTER_END \in Nat
    /\ EXFAT_CLUSTER_FREE \in Nat /\ Beyond \in Nat /\ Reserved \subseteq Clusters
    /\ EXFAT_CLUSTER_END \notin Clusters /\ Bits \subseteq Clusters
BY AllocationAssumption DEF Clusters, CLUSTER_INVALID, EXFAT_CLUSTER_BAD, EXFAT_CLUSTER_END,
   EXFAT_CLUSTER_FREE, EXFAT_FIRST_DATA_CLUSTER, EXFAT_LAST_DATA_CLUSTER, Cells, Bits,
   cluster_count

LEMMA ClusterSize == CLUSTER_SIZE \in Nat /\ CLUSTER_SIZE > 0
BY AllocationAssumption

LEMMA Division ==
    ASSUME NEW a \in Nat
    PROVE  /\ a \div CLUSTER_SIZE \in Nat /\ a % CLUSTER_SIZE \in 0 .. CLUSTER_SIZE - 1
           /\ a = (a \div CLUSTER_SIZE) * CLUSTER_SIZE + (a % CLUSTER_SIZE)
BY ClusterSize

\* The quotient is the only one.
LEMMA Quotient ==
    ASSUME NEW a \in Nat, NEW q \in Nat,
           q * CLUSTER_SIZE <= a, a < (q + 1) * CLUSTER_SIZE
    PROVE  a \div CLUSTER_SIZE = q /\ a % CLUSTER_SIZE = a - q * CLUSTER_SIZE
BY ClusterSize, Division

LEMMA Products ==
    ASSUME NEW p \in Nat, NEW q \in Nat
    PROVE  /\ p * CLUSTER_SIZE \in Nat /\ (p + 1) * CLUSTER_SIZE = p * CLUSTER_SIZE + CLUSTER_SIZE
           /\ p <= q => p * CLUSTER_SIZE <= q * CLUSTER_SIZE
           /\ p < q => (p + 1) * CLUSTER_SIZE <= q * CLUSTER_SIZE
BY ClusterSize

LEMMA ClusterCount ==
    ASSUME NEW size \in Nat
    PROVE  /\ Needed(size) \in Nat
           /\ Needed(size) = 0 <=> size = 0
           /\ \A i \in 0 .. size - 1 : i \div CLUSTER_SIZE \in 0 .. Needed(size) - 1
           /\ \A k \in Nat : k * CLUSTER_SIZE < size => k < Needed(size)
           /\ \A k \in Nat : size <= k * CLUSTER_SIZE => Needed(size) <= k
<1> DEFINE a == size + CLUSTER_SIZE - 1
           q == a \div CLUSTER_SIZE
<1>1. a \in Nat /\ Needed(size) = q
  BY ClusterSize DEF Needed
<1>2. /\ q \in Nat /\ q * CLUSTER_SIZE <= a /\ a < (q + 1) * CLUSTER_SIZE
  <2> HIDE DEF a
  <2> QED BY <1>1, Division, Products, ClusterSize
<1> HIDE DEF q
<1>3. q = 0 <=> size = 0
  BY <1>1, <1>2, ClusterSize, Products
<1>4. ASSUME NEW k \in Nat, k * CLUSTER_SIZE < size PROVE k < q
  <2>1. ASSUME q <= k PROVE FALSE
    <3>1. (q + 1) * CLUSTER_SIZE <= (k + 1) * CLUSTER_SIZE
      BY <2>1, <1>2, ClusterSize, Products
    <3> QED BY <3>1, <1>4, <1>2, ClusterSize, Products
  <2> QED BY <2>1, <1>2
<1>5. ASSUME NEW k \in Nat, size <= k * CLUSTER_SIZE PROVE q <= k
  <2>1. ASSUME k < q PROVE FALSE
    <3>1. (k + 1) * CLUSTER_SIZE <= q * CLUSTER_SIZE
      BY <2>1, <1>2, ClusterSize, Products
    <3> QED BY <3>1, <1>5, <1>2, ClusterSize, Products
  <2> QED BY <2>1, <1>2
<1>6. ASSUME NEW i \in 0 .. size - 1 PROVE i \div CLUSTER_SIZE \in 0 .. q - 1
  <2>1. i \in Nat /\ i < size
    OBVIOUS
  <2>2. i \div CLUSTER_SIZE \in Nat /\ (i \div CLUSTER_SIZE) * CLUSTER_SIZE <= i
    BY <2>1, Division, ClusterSize
  <2> DEFINE k == i \div CLUSTER_SIZE
  <2> HIDE DEF k
  <2>3. k \in Nat /\ k * CLUSTER_SIZE < size
    BY <2>1, <2>2, ClusterSize, Products DEF k
  <2>4. k < q
    BY <2>3, <1>4
  <2>5. k \in 0 .. q - 1
    BY <2>3, <2>4, <1>2
  <2> QED BY <2>5 DEF k
<1> QED BY <1>1, <1>2, <1>3, <1>4, <1>5, <1>6

LEMMA CountGrows ==
    ASSUME NEW s \in Nat, NEW t \in Nat, s <= t
    PROVE  Needed(s) <= Needed(t)
<1> DEFINE q == Needed(t)
<1>1. q \in Nat
  BY ClusterCount
<1>2. t <= q * CLUSTER_SIZE
  <2>1. q * CLUSTER_SIZE < t => q < q
    BY <1>1, ClusterCount
  <2> HIDE DEF q
  <2> QED BY <1>1, <2>1, Products
<1>3. s <= q * CLUSTER_SIZE
  <2> HIDE DEF q
  <2> QED BY <1>1, <1>2, Products
<1> QED BY <1>1, <1>3, ClusterCount

LEMMA PlacesCounted ==
    ASSUME NEW c \in [Nat -> Nat], NEW count \in Nat, NEW d, d = 0 .. count - 1,
           Distinct(c, d)
    PROVE  Cardinality(Places(c, d)) = count
<1> PICK T : T = Places(c, d)
  OBVIOUS
<1> PICK g : g = [i \in d |-> c[i]]
  OBVIOUS
<1>1. g \in Surjection(d, T) /\ g \in Injection(d, T)
  <2>1. g \in [d -> T] /\ \A i \in d : g[i] = c[i]
    BY DEF Places
  <2>2. \A t \in T : \E s \in d : g[s] = t
    BY <2>1 DEF Places
  <2>3. IsInjective(g)
    BY <2>1 DEF IsInjective, Distinct
  <2> QED BY ONLY <2>1, <2>2, <2>3 DEF Surjection, Injection
<1>2. IsFiniteSet(d) /\ Cardinality(d) = count
  BY FS_Interval
<1>3. Cardinality(T) = Cardinality(d)
  BY <1>1, <1>2, FS_Surjection
<1> QED BY <1>2, <1>3

\* A chain of different clusters of the volume is one that a uint32_t can count.
LEMMA ChainFits ==
    ASSUME NEW c \in [Nat -> Nat], NEW count \in Nat, NEW d, d = 0 .. count - 1,
           \A i \in d : c[i] \in Clusters, \A i, j \in d : c[i] = c[j] => i = j
    PROVE  count < UINT32
<1>1. Distinct(c, d) /\ Places(c, d) \subseteq Clusters
  BY DEF Distinct, Places
<1>2. Cardinality(Places(c, d)) = count
  BY <1>1, PlacesCounted
<1>3. IsFiniteSet(Clusters) /\ Cardinality(Clusters) = CMAP_SIZE + 2
  <2>1. Clusters = 2 .. CMAP_SIZE + 3
    BY AllocationAssumption DEF Clusters, EXFAT_FIRST_DATA_CLUSTER, cluster_count
  <2> QED BY ONLY <2>1, FS_Interval, AllocationAssumption
<1>4. count <= CMAP_SIZE + 2
  <2>1. Cardinality(Places(c, d)) <= Cardinality(Clusters)
    BY ONLY <1>1, <1>3, FS_Subset
  <2> QED BY ONLY <2>1, <1>2, <1>3
<1> QED BY <1>4, AllocationAssumption DEF UINT32, EXFAT_CLUSTER_END, EXFAT_LAST_DATA_CLUSTER,
        EXFAT_FIRST_DATA_CLUSTER, cluster_count

LEMMA WordSize == UINT32 \in Nat /\ UINT32 > 0
BY AllocationAssumption DEF UINT32, EXFAT_CLUSTER_END, EXFAT_LAST_DATA_CLUSTER,
   EXFAT_FIRST_DATA_CLUSTER, cluster_count

LEMMA Uncut ==
    ASSUME NEW x \in Nat, x < UINT32
    PROVE  x % UINT32 = x
BY ONLY WordSize, x \in Nat, x < UINT32

LEMMA IndexIsNat == \A x \in Nat : IndexOf(x) \in Nat /\ bytes2clusters(x) \in Nat
<1> SUFFICES ASSUME NEW x \in Nat PROVE IndexOf(x) \in Nat /\ bytes2clusters(x) \in Nat
  OBVIOUS
<1>2. x \div CLUSTER_SIZE \in Nat /\ Needed(x) \in Nat
  BY Division, ClusterCount
<1> PICK a, b, u : a = x \div CLUSTER_SIZE /\ b = Needed(x) /\ u = UINT32
  OBVIOUS
<1>3. a \in Nat /\ b \in Nat /\ u \in Nat /\ u > 0
  BY <1>2, WordSize
<1>4. a % u \in Nat /\ b % u \in Nat
  BY ONLY <1>3
<1> QED BY <1>4 DEF IndexOf, bytes2clusters

\* The index of a byte of such a chain is not cut off.
LEMMA IndexInChain ==
    ASSUME NEW count \in Nat, count < UINT32, NEW b \in Nat, b \div CLUSTER_SIZE \in 0 .. count - 1
    PROVE  IndexOf(b) = b \div CLUSTER_SIZE
<1> PICK k : k = b \div CLUSTER_SIZE
  OBVIOUS
<1>1. k \in Nat /\ k < UINT32
  BY ONLY WordSize, count \in Nat, count < UINT32, k = b \div CLUSTER_SIZE,
     b \div CLUSTER_SIZE \in 0 .. count - 1
<1> QED BY <1>1, Uncut DEF IndexOf

-----------------------------------------------------------------------------
(* The operators of the model                                              *)

LEMMA FoundIsFree ==
    ASSUME NEW hint
    PROVE  /\ Found(hint) \in Bits \ bmap \/ Found(hint) = EXFAT_CLUSTER_END
           /\ Found(hint) \in Nat
           /\ ~CLUSTER_INVALID(Found(hint)) => Found(hint) \in Bits \ bmap
           /\ Bits \subseteq Clusters
<1> DEFINE h == IF hint \in Bits THEN hint ELSE EXFAT_FIRST_DATA_CLUSTER
           free == Bits \ bmap
           up == {c \in free : c >= h}
           least(S) == CHOOSE c \in S : \A d \in S : c <= d
<1>1. ASSUME NEW S, S \subseteq free, S # {} PROVE least(S) \in free
  <2>1. \E c \in S : \A d \in S : c <= d
    BY <1>1, LeastElement, ClusterNumbers
  <2>2. least(S) \in S
    <3> HIDE DEF free
    <3> QED BY ONLY <2>1, Zenon
  <2> QED BY <2>2, <1>1
<1>2. Found(hint) = IF up # {} THEN least(up)
                    ELSE IF free # {} THEN least(free) ELSE EXFAT_CLUSTER_END
  BY DEF Found
<1>3. up \subseteq free
  OBVIOUS
<1>4. up # {} => least(up) \in free
  <2> HIDE DEF up, free
  <2> QED BY <1>1, <1>3
<1>5. free # {} => least(free) \in free
  <2> HIDE DEF free
  <2> QED BY <1>1
<1> HIDE DEF up, least
<1>6. Found(hint) \in free \/ Found(hint) = EXFAT_CLUSTER_END
  BY <1>2, <1>4, <1>5
<1> QED BY <1>6, ClusterNumbers

LEMMA NextIsNat ==
    ASSUME fat \in [Clusters -> Nat], NEW n, NEW c \in Nat
    PROVE  NextCluster(n, c) \in Nat
BY ClusterNumbers DEF NextCluster, NextOn

LEMMA WalkIs ==
    ASSUME fat \in [Clusters -> Nat], NEW n \in Nodes, n # NoNode, NEW count \in Nat,
           NEW from, from = IF n.index > count THEN 0 ELSE n.index
    PROVE  /\ from \in 0 .. count /\ DOMAIN Walk(n, count) = from .. count
           /\ Walk(n, count) \in [from .. count -> Nat]
           /\ Walk(n, count)[from] = IF n.index > count THEN n.start ELSE n.cluster
           /\ \A i \in from + 1 .. count :
                LET b == Walk(n, count)[i - 1]
                IN  Walk(n, count)[i] = IF i # from + 1 /\ CLUSTER_INVALID(b) THEN b
                                        ELSE NextCluster(n, b)
<1> DEFINE next == [c \in Nat |-> NextCluster(n, c)]
           onward == [c \in Nat |-> IF CLUSTER_INVALID(c) THEN c ELSE next[c]]
           a == IF n.index > count THEN n.start ELSE n.cluster
           step == [i \in Nat |-> IF i = from + 1 THEN next ELSE onward]
           IsIt(g) == g = [i \in from .. count |->
                             IF i = from THEN a
                             ELSE IF i = from + 1 THEN next[g[i - 1]] ELSE onward[g[i - 1]]]
           Stepped(g) == g = [i \in from .. count |-> IF i = from THEN a ELSE step[i][g[i - 1]]]
<1>1. Walk(n, count) = CHOOSE g : IsIt(g)
  BY DEF Walk
<1>2. n.index \in Nat /\ n.start \in Nat /\ n.cluster \in Nat
  BY DEF Nodes
<1>3. from \in 0 .. count /\ from \in Nat /\ a \in Nat /\ from <= count
  BY <1>2
<1>4. next \in [Nat -> Nat]
  BY NextIsNat
<1>5. onward \in [Nat -> Nat]
  <2> HIDE DEF next
  <2> QED BY <1>4
<1>6. step \in [Nat -> [Nat -> Nat]]
  <2> HIDE DEF next, onward
  <2> QED BY <1>4, <1>5
<1>7. \A g : IsIt(g) <=> Stepped(g)
  <2> TAKE g
  <2>1. ASSUME NEW i \in from .. count
        PROVE  (IF i = from THEN a ELSE step[i][g[i - 1]])
                 = (IF i = from THEN a
                    ELSE IF i = from + 1 THEN next[g[i - 1]] ELSE onward[g[i - 1]])
    <3>1. i \in Nat
      BY <1>3
    <3>2. step[i] = IF i = from + 1 THEN next ELSE onward
      BY <3>1
    <3> HIDE DEF step, next, onward, a
    <3> QED BY <3>2
  <2>2. [i \in from .. count |-> IF i = from THEN a ELSE step[i][g[i - 1]]]
          = [i \in from .. count |-> IF i = from THEN a
                 ELSE IF i = from + 1 THEN next[g[i - 1]] ELSE onward[g[i - 1]]]
    <3> HIDE DEF step, next, onward, a
    <3> QED BY <2>1
  <2> HIDE DEF step, next, onward, a
  <2> QED BY ONLY <2>2 DEF IsIt, Stepped
<1>8. Walk(n, count) = CHOOSE g : Stepped(g)
  <2> HIDE DEF IsIt, Stepped
  <2> QED BY ONLY <1>1, <1>7
<1> DEFINE at == Walk(n, count)
<1>9. /\ at \in [from .. count -> Nat] /\ at[from] = a
      /\ \A i \in from + 1 .. count : at[i] = step[i][at[i - 1]]
  <2> PICK S, A : S = step /\ A = a
    OBVIOUS
  <2>0. S \in [Nat -> [Nat -> Nat]] /\ A \in Nat
    <3> HIDE DEF step, a
    <3> QED BY <1>3, <1>6
  <2>1. \E g : Stepped(g)
    <3> HIDE DEF step, a, at
    <3> PICK g \in [from .. count -> Nat] : Iterates(g, from, count, A, S)
      BY ONLY <1>3, <2>0, count \in Nat, IterationExists
    <3>1. \A i \in from .. count : g[i] = IF i = from THEN a ELSE step[i][g[i - 1]]
      BY <1>3 DEF Iterates
    <3>2. Stepped(g)
      BY <3>1
    <3> QED BY <3>2
  <2>2. Stepped(at)
    <3> HIDE DEF Stepped
    <3> QED BY ONLY <1>8, <2>1, Zenon DEF at
  <2> HIDE DEF at, step, a
  <2>3. \A i \in from .. count : at[i] = IF i = from THEN a ELSE step[i][at[i - 1]]
    BY <2>2
  <2>4. /\ \A i \in from .. count : at[i] \in Nat
        /\ at[from] = a /\ \A i \in from + 1 .. count : at[i] = step[i][at[i - 1]]
    <3> HIDE DEF Stepped
    <3> PICK X : X = at
      OBVIOUS
    <3>1. Iterates(X, from, count, A, S)
      BY <2>3, <1>3 DEF Iterates
    <3>2. \A i \in from .. count : X[i] \in Nat
      BY ONLY <3>1, <1>3, <2>0, count \in Nat, Iterated
    <3> QED BY <3>1, <3>2 DEF Iterates
  <2>5. at = [i \in from .. count |-> at[i]]
    BY <2>2, <2>3
  <2> QED BY ONLY <2>4, <2>5
<1> HIDE DEF at
<1>10. ASSUME NEW i \in from + 1 .. count
       PROVE  at[i] = IF i # from + 1 /\ CLUSTER_INVALID(at[i - 1]) THEN at[i - 1]
                      ELSE NextCluster(n, at[i - 1])
  <2>1. i - 1 \in from .. count /\ i \in Nat
    BY <1>3
  <2>2. at[i - 1] \in Nat
    BY <2>1, <1>9
  <2>3. at[i] = step[i][at[i - 1]]
    BY <1>9, Zenon
  <2>4. step[i] = IF i = from + 1 THEN next ELSE onward
    BY <2>1
  <2>5. next[at[i - 1]] = NextCluster(n, at[i - 1])
    BY <2>2
  <2>6. onward[at[i - 1]] = IF CLUSTER_INVALID(at[i - 1]) THEN at[i - 1] ELSE next[at[i - 1]]
    BY <2>2
  <2> HIDE DEF step, next, onward
  <2> QED BY <2>3, <2>4, <2>5, <2>6
<1>11. DOMAIN at = from .. count
  BY <1>9
<1> HIDE DEF a
<1>12. at[from] = IF n.index > count THEN n.start ELSE n.cluster
  BY <1>9 DEF a
<1> QED BY <1>3, <1>9, <1>10, <1>11, <1>12 DEF at

LEMMA ChainOfIs ==
    ASSUME fat \in [Clusters -> Nat], NEW n, n.start \in Nat, NEW count \in Nat
    PROVE  /\ DOMAIN ChainOf(n, count) = 0 .. count - 1
           /\ ChainOf(n, count) \in [0 .. count - 1 -> Nat]
           /\ count > 0 => ChainOf(n, count)[0] = n.start
           /\ \A i \in 1 .. count - 1 :
                ChainOf(n, count)[i] = NextCluster(n, ChainOf(n, count)[i - 1])
<1> DEFINE next == [c \in Nat |-> NextCluster(n, c)]
           step == [i \in Nat |-> next]
           IsIt(g) == g = [i \in 0 .. count |-> IF i = 0 THEN n.start ELSE next[g[i - 1]]]
           Stepped(g) == g = [i \in 0 .. count |-> IF i = 0 THEN n.start ELSE step[i][g[i - 1]]]
<1> PICK at : at = CHOOSE g : IsIt(g)
  OBVIOUS
<1>1. ChainOf(n, count) = [i \in 0 .. count - 1 |-> at[i]]
  BY DEF ChainOf
<1>2. n.start \in Nat
  OBVIOUS
<1>3. next \in [Nat -> Nat]
  BY NextIsNat
<1>4. step \in [Nat -> [Nat -> Nat]]
  <2> HIDE DEF next
  <2> QED BY <1>3
<1>5. \A g : IsIt(g) <=> Stepped(g)
  <2> TAKE g
  <2>1. \A i \in 0 .. count : step[i] = next
    <3> HIDE DEF next
    <3> QED OBVIOUS
  <2> HIDE DEF step, next
  <2>2. [i \in 0 .. count |-> IF i = 0 THEN n.start ELSE step[i][g[i - 1]]]
          = [i \in 0 .. count |-> IF i = 0 THEN n.start ELSE next[g[i - 1]]]
    BY ONLY <2>1
  <2> QED BY ONLY <2>2 DEF IsIt, Stepped
<1>6. at = CHOOSE g : Stepped(g)
  <2> HIDE DEF IsIt, Stepped
  <2> QED BY <1>5
<1>7. /\ at \in [0 .. count -> Nat] /\ at[0] = n.start
      /\ \A i \in 0 + 1 .. count : at[i] = step[i][at[i - 1]]
  <2>1. 0 \in Nat /\ 0 <= count
    OBVIOUS
  <2> PICK S, A : S = step /\ A = n.start
    OBVIOUS
  <2>0. S \in [Nat -> [Nat -> Nat]] /\ A \in Nat
    <3> HIDE DEF step
    <3> QED BY <1>2, <1>4
  <2>2. \E g : Stepped(g)
    <3> HIDE DEF step
    <3> PICK g \in [0 .. count -> Nat] : Iterates(g, 0, count, A, S)
      BY ONLY <2>1, <2>0, count \in Nat, IterationExists
    <3>1. \A i \in 0 .. count : g[i] = IF i = 0 THEN n.start ELSE step[i][g[i - 1]]
      BY <2>1 DEF Iterates
    <3>2. Stepped(g)
      BY <3>1
    <3> QED BY <3>2
  <2>3. Stepped(at)
    <3> HIDE DEF Stepped
    <3> QED BY ONLY <1>6, <2>2, Zenon
  <2> HIDE DEF step
  <2>4. \A i \in 0 .. count : at[i] = IF i = 0 THEN n.start ELSE step[i][at[i - 1]]
    BY <2>3
  <2>5. /\ \A i \in 0 .. count : at[i] \in Nat
        /\ at[0] = n.start /\ \A i \in 0 + 1 .. count : at[i] = step[i][at[i - 1]]
    <3> HIDE DEF Stepped
    <3>1. Iterates(at, 0, count, A, S)
      <4>1. \A i \in 0 + 1 .. count : i \in 0 .. count /\ i # 0
        OBVIOUS
      <4>2. 0 \in 0 .. count
        OBVIOUS
      <4> QED BY ONLY <2>4, <4>1, <4>2, S = step, A = n.start, Zenon DEF Iterates
    <3>2. \A i \in 0 .. count : at[i] \in Nat
      BY ONLY <3>1, <2>1, <2>0, count \in Nat, Iterated
    <3> QED BY <3>1, <3>2 DEF Iterates
  <2>6. at = [i \in 0 .. count |-> at[i]]
    BY ONLY <2>3, <2>4 DEF Stepped
  <2> QED BY ONLY <2>5, <2>6
<1>8. ASSUME NEW i \in 1 .. count - 1 PROVE at[i] = NextCluster(n, at[i - 1])
  <2>1. i \in 0 + 1 .. count /\ i - 1 \in 0 .. count /\ i \in Nat
    OBVIOUS
  <2>2. at[i] = step[i][at[i - 1]] /\ at[i - 1] \in Nat
    BY <2>1, <1>7
  <2>3. step[i] = next
    BY <2>1
  <2>4. next[at[i - 1]] = NextCluster(n, at[i - 1])
    BY <2>2
  <2> HIDE DEF step, next
  <2> QED BY <2>2, <2>3, <2>4
<1> DEFINE ch == ChainOf(n, count)
<1>9. \A i \in 0 .. count - 1 : ch[i] = at[i] /\ at[i] \in Nat
  <2>1. \A i \in 0 .. count - 1 : i \in 0 .. count
    OBVIOUS
  <2>2. \A i \in 0 .. count - 1 : at[i] \in Nat
    BY ONLY <2>1, <1>7
  <2> QED BY ONLY <1>1, <2>2
<1>10. DOMAIN ch = 0 .. count - 1 /\ ch \in [0 .. count - 1 -> Nat]
  BY ONLY <1>1, <1>9
<1>11. ASSUME NEW i \in 1 .. count - 1 PROVE ch[i] = NextCluster(n, ch[i - 1])
  <2>1. i \in 0 .. count - 1 /\ i - 1 \in 0 .. count - 1
    OBVIOUS
  <2>2. ch[i] = at[i] /\ ch[i - 1] = at[i - 1] /\ at[i] = NextCluster(n, at[i - 1])
    <3> HIDE DEF ch
    <3> QED BY <2>1, <1>8, <1>9
  <2> HIDE DEF ch
  <2> QED BY ONLY <2>2, Zenon
<1>12. count > 0 => ch[0] = n.start
  <2> HIDE DEF ch
  <2>1. count > 0 => 0 \in 0 .. count - 1
    OBVIOUS
  <2> QED BY ONLY <2>1, <1>7, <1>9
<1> QED BY <1>10, <1>11, <1>12

LEMMA ChainOfLinked ==
    ASSUME fat \in [Clusters -> Nat], NEW n, n.start \in Nat, NEW c, NEW count \in Nat,
           Linked(n, c, count)
    PROVE  \A i \in 0 .. count - 1 : ChainOf(n, count)[i] = c[i]
<1> PICK ch : ch = ChainOf(n, count)
  OBVIOUS
<1>1. /\ count > 0 => ch[0] = c[0]
      /\ \A i \in 1 .. count - 1 : ch[i] = NextCluster(n, ch[i - 1])
  <2>1. /\ count > 0 => ChainOf(n, count)[0] = n.start
        /\ \A i \in 1 .. count - 1 :
             ChainOf(n, count)[i] = NextCluster(n, ChainOf(n, count)[i - 1])
    BY ChainOfIs
  <2>2. count > 0 => n.start = c[0]
    BY DEF Linked
  <2> QED BY ONLY <2>1, <2>2, ch = ChainOf(n, count), Zenon
<1>2. \A i \in 0 .. count - 2 : NextCluster(n, c[i]) = c[i + 1]
  BY DEF Linked
<1> DEFINE S == {k \in Nat : k < count => ch[k] = c[k]}
<1>3. 0 \in S
  BY <1>1
<1>4. ASSUME NEW k \in Nat, k \in S PROVE k + 1 \in S
  <2> SUFFICES ASSUME k + 1 < count PROVE ch[k + 1] = c[k + 1]
    OBVIOUS
  <2>1. k \in 0 .. count - 2 /\ k + 1 \in 1 .. count - 1 /\ (k + 1) - 1 = k
    OBVIOUS
  <2>2. ch[k] = c[k]
    BY <1>4
  <2>3. ch[k + 1] = NextCluster(n, ch[k])
    BY <2>1, <1>1
  <2>4. NextCluster(n, c[k]) = c[k + 1]
    BY <2>1, <1>2
  <2> QED BY ONLY <2>2, <2>3, <2>4, Zenon
<1>5. Nat \subseteq S
  <2> HIDE DEF S
  <2> QED BY <1>3, <1>4, SetInduction
<1>6. \A i \in 0 .. count - 1 : i \in S /\ i < count
  BY <1>5
<1> QED BY <1>6

LEMMA WalkLinked ==
    ASSUME fat \in [Clusters -> Nat], NEW n \in Nodes, n # NoNode, NEW c,
           NEW count \in Nat, NEW k \in 0 .. count - 1,
           Linked(n, c, count), Pointed(n, c, count),
           \A i \in 0 .. count - 1 : c[i] \in Clusters
    PROVE  Walk(n, k)[k] = c[k]
<1> PICK at : at = Walk(n, k)
  OBVIOUS
<1> DEFINE from == IF n.index > k THEN 0 ELSE n.index
<1>1. /\ from \in 0 .. k
      /\ at[from] = IF n.index > k THEN n.start ELSE n.cluster
      /\ \A i \in from + 1 .. k :
           at[i] = IF i # from + 1 /\ CLUSTER_INVALID(at[i - 1]) THEN at[i - 1]
                   ELSE NextCluster(n, at[i - 1])
  <2> HIDE DEF from
  <2> k \in Nat
    OBVIOUS
  <2> QED BY WalkIs, SMTT(30) DEF from
<1>2. at[from] = c[from]
  BY <1>1 DEF Linked, Pointed
<1>3. \A i \in 0 .. count - 2 : NextCluster(n, c[i]) = c[i + 1]
  BY DEF Linked
<1>4. \A i \in 0 .. count - 1 : ~CLUSTER_INVALID(c[i])
  BY ClusterNumbers
<1> HIDE DEF from
<1> DEFINE S == {i \in Nat : from + i <= k => at[from + i] = c[from + i]}
<1>5. 0 \in S
  BY <1>1, <1>2
<1>6. ASSUME NEW i \in Nat, i \in S PROVE i + 1 \in S
  <2> SUFFICES ASSUME from + (i + 1) <= k PROVE at[from + (i + 1)] = c[from + (i + 1)]
    OBVIOUS
  <2> PICK j : j = from + i
    OBVIOUS
  <2>1. /\ j \in 0 .. count - 2 /\ j + 1 = from + (i + 1) /\ (j + 1) - 1 = j
        /\ j + 1 \in from + 1 .. k /\ j \in 0 .. count - 1
    BY <1>1
  <2>2. at[j] = c[j]
    BY <1>6, <1>1
  <2>3. at[j + 1] = NextCluster(n, at[j])
    BY <2>1, <2>2, <1>1, <1>4
  <2>4. NextCluster(n, c[j]) = c[j + 1]
    BY <2>1, <1>3
  <2>5. at[j + 1] = c[j + 1]
    BY ONLY <2>2, <2>3, <2>4, Zenon
  <2> QED BY ONLY <2>5, <2>1, Zenon
<1>7. Nat \subseteq S
  <2> HIDE DEF S
  <2> QED BY <1>5, <1>6, SetInduction
<1>8. k - from \in S /\ from + (k - from) = k
  BY <1>7, <1>1
<1>9. at[k] = c[k]
  BY <1>8
<1> QED BY <1>9

\* The clusters of a contiguous file follow each other.
LEMMA ContiguousLinked ==
    ASSUME NEW n, n.contiguous, NEW c, NEW count \in Nat, Linked(n, c, count),
           \A i \in 0 .. count - 1 : c[i] \in Clusters
    PROVE  \A i \in 0 .. count - 1 : c[i] = n.start + i
<1>1. \A i \in 0 .. count - 2 : c[i + 1] = c[i] + 1
  <2> TAKE i \in 0 .. count - 2
  <2>1. i \in 0 .. count - 1
    OBVIOUS
  <2>2. NextCluster(n, c[i]) = c[i] + 1
    <3>1. c[i] \in Nat /\ c[i] >= EXFAT_FIRST_DATA_CLUSTER
      BY <2>1, ClusterNumbers
    <3>2. ~(c[i] < EXFAT_FIRST_DATA_CLUSTER)
      BY ONLY <3>1 DEF EXFAT_FIRST_DATA_CLUSTER
    <3> QED BY ONLY <3>2, n.contiguous, Zenon DEF NextCluster, NextOn
  <2> QED BY <2>2 DEF Linked
<1>2. count > 0 => n.start = c[0]
  BY DEF Linked
<1>3. \A i \in 0 .. count - 1 : c[i] \in Nat
  BY ClusterNumbers
<1> DEFINE S == {k \in Nat : k < count => c[k] = n.start + k}
<1>4. 0 \in S
  BY <1>2, <1>3
<1>5. ASSUME NEW k \in Nat, k \in S PROVE k + 1 \in S
  <2> SUFFICES ASSUME k + 1 < count PROVE c[k + 1] = n.start + (k + 1)
    OBVIOUS
  <2>1. k \in 0 .. count - 2 /\ 0 \in 0 .. count - 1
    OBVIOUS
  <2>2. c[k] = n.start + k /\ c[k + 1] = c[k] + 1 /\ n.start \in Nat
    BY <1>5, <1>1, <1>2, <1>3, <2>1
  <2> QED BY ONLY <2>2, k \in Nat
<1>6. Nat \subseteq S
  <2> HIDE DEF S
  <2> QED BY <1>4, <1>5, SetInduction
<1>7. \A i \in 0 .. count - 1 : i \in S /\ i < count
  BY <1>6
<1> QED BY <1>7

LEMMA OutcomesAre ==
    ASSUME NEW n, NEW canFail, NEW fails \in Outcomes(n, canFail)
    PROVE  fails \in BOOLEAN /\ (fails => canFail /\ CanFault(n))
BY DEF Outcomes

LEMMA NextClustersAre ==
    ASSUME fat \in [Clusters -> Nat], NEW n, NEW c \in Nat, NEW next \in NextClusters(n, c)
    PROVE  /\ next.failed \in BOOLEAN /\ (next.failed => CanFault(0))
           /\ next.cluster = IF next.failed THEN EXFAT_CLUSTER_BAD ELSE NextCluster(n, c)
           /\ next.cluster \in Nat
<1>1. PICK failed \in Outcomes(0, ~n.contiguous /\ c >= EXFAT_FIRST_DATA_CLUSTER) :
        next = [cluster |-> IF failed THEN EXFAT_CLUSTER_BAD ELSE NextCluster(n, c),
                failed |-> failed]
  BY DEF NextClusters
<1>2. failed \in BOOLEAN /\ (failed => CanFault(0))
  BY OutcomesAre
<1>3. next.failed = failed
      /\ next.cluster = IF failed THEN EXFAT_CLUSTER_BAD ELSE NextCluster(n, c)
  BY <1>1
<1>4. NextCluster(n, c) \in Nat /\ EXFAT_CLUSTER_BAD \in Nat
  BY NextIsNat, ClusterNumbers
<1> QED BY ONLY <1>2, <1>3, <1>4

LEMMA AdvancedAre ==
    ASSUME fat \in [Clusters -> Nat], NEW n \in Nodes, n # NoNode, NEW count \in Nat,
           NEW a \in Advanced(n, count)
    PROVE  /\ a.failed \in BOOLEAN /\ (a.failed => CanFault(0))
           /\ a.node \in Nodes /\ a.node # NoNode
           /\ a.node.state = n.state /\ a.node.start = n.start /\ a.node.size = n.size
           /\ a.node.contiguous = n.contiguous /\ a.node.dirty = n.dirty
           /\ a.node.index = count
           /\ a.node.cluster = IF a.failed THEN EXFAT_CLUSTER_BAD ELSE Walk(n, count)[count]
<1>1. PICK can : \E failed \in Outcomes(0, can) :
        a = [node |-> [n EXCEPT !.index = count,
                                !.cluster = IF failed THEN EXFAT_CLUSTER_BAD
                                            ELSE Walk(n, count)[count]],
             failed |-> failed]
  BY DEF Advanced
<1>2. PICK failed \in Outcomes(0, can) :
        a = [node |-> [n EXCEPT !.index = count,
                                !.cluster = IF failed THEN EXFAT_CLUSTER_BAD
                                            ELSE Walk(n, count)[count]],
             failed |-> failed]
  BY <1>1
<1>3. failed \in BOOLEAN /\ (failed => CanFault(0))
  BY OutcomesAre
<1> PICK end : end = IF failed THEN EXFAT_CLUSTER_BAD ELSE Walk(n, count)[count]
  OBVIOUS
<1>4. end \in Nat
  <2> DEFINE from == IF n.index > count THEN 0 ELSE n.index
  <2>1. from \in 0 .. count /\ Walk(n, count) \in [from .. count -> Nat]
    BY WalkIs
  <2> HIDE DEF from
  <2>2. Walk(n, count)[count] \in Nat
    BY <2>1
  <2> QED BY <2>2, ClusterNumbers
<1>5. a.failed = failed /\ a.node = [n EXCEPT !.index = count, !.cluster = end]
  BY <1>2
<1>6. n \in [state : {"linked", "unlinked"}, start : Nat, size : Nat,
             contiguous : BOOLEAN, dirty : BOOLEAN, index : Nat, cluster : Nat]
  BY DEF Nodes
<1> PICK m : m = [n EXCEPT !.index = count, !.cluster = end]
  OBVIOUS
<1>7. /\ m \in [state : {"linked", "unlinked"}, start : Nat, size : Nat,
                contiguous : BOOLEAN, dirty : BOOLEAN, index : Nat, cluster : Nat]
      /\ m.state = n.state /\ m.start = n.start /\ m.size = n.size
      /\ m.contiguous = n.contiguous /\ m.dirty = n.dirty
      /\ m.index = count /\ m.cluster = end
  BY ONLY <1>6, <1>4, count \in Nat, m = [n EXCEPT !.index = count, !.cluster = end]
<1>8. m \in Nodes /\ m # NoNode
  BY <1>7 DEF Nodes, NoNode
<1>9. a.node = m
  BY <1>5
<1> QED BY ONLY <1>3, <1>5, <1>7, <1>8, <1>9,
     end = IF failed THEN EXFAT_CLUSTER_BAD ELSE Walk(n, count)[count], Zenon

\* What a step of a call does to what has a type: it is about one file.
LEMMA OwnStepBase ==
    ASSUME Base, Runs,
           clean' = clean, entry' = entry, diskBmap' = diskBmap, calls' = calls,
           retried' = retried, ignored' = ignored, backward' \in BOOLEAN /\ wrapped' \in BOOLEAN,
           fat' \in [Clusters -> Nat], bmap' \subseteq Clusters,
           bmapDirty' \in BOOLEAN, bmap' # bmap => bmapDirty', bmapDirty => bmapDirty',
           stale' \subseteq Clusters \X (0 .. CLUSTER_SIZE - 1),
           Faulted,
           NEW n \in Nodes, node' = [node EXCEPT ![op.f] = n],
           Onward,
           n.state = File.state
    PROVE  Base'
<1>1. /\ op \in Ops /\ op.f \in Files /\ ~clean /\ node \in [Files -> Nodes]
      /\ node[op.f].state = (IF op.then = "free" THEN "unlinked" ELSE "linked")
  <2>1. op \in Ops /\ node \in [Files -> Nodes] /\ (clean => op.pc = "idle")
        /\ node[op.f].state = (IF op.then = "free" THEN "unlinked" ELSE "linked")
    BY ONLY Base, Runs, Zenon DEF Base
  <2>2. op.f \in Files
    BY <2>1 DEF Ops
  <2>3. op.pc # "idle"
    BY DEF Runs
  <2> QED BY ONLY <2>1, <2>2, <2>3, Zenon
<1>2. node' \in [Files -> Nodes] /\ \A g \in Files : node'[g].state = node[g].state
  <2>1. node' = [node EXCEPT ![op.f] = n] /\ n.state = node[op.f].state
    BY DEF File
  <2> QED BY ONLY <2>1, <1>1, n \in Nodes
<1>3. TypeOK'
  <2>1. \A f \in Files : entry'[f] \in Entries /\ node'[f] \in Nodes
    <3>1. entry' = entry /\ entry \in [Files -> Entries]
      BY DEF Base
    <3> QED BY ONLY <3>1, <1>2
  <2>2. /\ diskBmap' \subseteq Clusters /\ calls' \in 0 .. MaxCalls
        /\ faults' \in 0 .. MaxFaults
    <3>1. /\ diskBmap \subseteq Clusters /\ calls \in 0 .. MaxCalls
          /\ faults \in 0 .. MaxFaults
      BY DEF Base, TypeOK
    <3>2. diskBmap' = diskBmap /\ calls' = calls /\ faults' \in faults .. MaxFaults
      BY DEF Faulted
    <3> QED BY ONLY <3>1, <3>2, AllocationAssumption
  <2>3. hurt' \subseteq Files
    <3>1. hurt \subseteq Files
      BY DEF Base, TypeOK
    <3> QED BY <3>1, <1>1 DEF Faulted
  <2>4. {clean', bmapDirty', retried', backward', wrapped', ignored'} \subseteq BOOLEAN
    <3>1. {clean, bmapDirty, retried, backward, wrapped, ignored} \subseteq BOOLEAN
      BY DEF Base, TypeOK
    <3> QED BY ONLY <3>1, clean' = clean, retried' = retried, ignored' = ignored,
            backward' \in BOOLEAN /\ wrapped' \in BOOLEAN, bmapDirty' \in BOOLEAN
  <2>5. fat' \in [Clusters -> Nat] /\ bmap' \subseteq Clusters
        /\ stale' \subseteq Clusters \X (0 .. CLUSTER_SIZE - 1)
    OBVIOUS
  <2> QED BY ONLY <2>1, <2>2, <2>3, <2>4, <2>5, Zenon DEF TypeOK
<1>4. Runs' => /\ op' \in Ops'
               /\ node'[op'.f].state = (IF op'.then = "free" THEN "unlinked" ELSE "linked")
               /\ op'.pc # "grow"
               /\ op'.pc = "free" => op'.then = "free"
               /\ op'.pc = "writing" => op'.offset < CLUSTER_SIZE
  BY <1>1, <1>2 DEF Runs, Idle, Onward
<1>5. ~clean'
  BY <1>1
<1>6. \A g \in Files : node'[g].state = "linked" <=> entry'[g] # NoEntry
  BY <1>1, <1>2 DEF Base
<1>7. ~bmapDirty' => diskBmap' = bmap'
  BY <1>1 DEF Base
<1>8. faults' = 0 => hurt' = {} /\ ~retried' /\ ~ignored'
  <2> SUFFICES ASSUME faults' = 0 PROVE hurt' = {} /\ ~retried' /\ ~ignored'
    OBVIOUS
  <2>1. faults = 0 /\ ~(faults' > 0)
    <3>1. faults \in 0 .. MaxFaults /\ faults' \in faults .. MaxFaults
      BY DEF Base, TypeOK, Faulted
    <3> QED BY ONLY <3>1, faults' = 0, AllocationAssumption
  <2>2. hurt = {} /\ ~retried /\ ~ignored
    BY <2>1 DEF Base
  <2> QED BY <2>1, <2>2 DEF Faulted
<1>9. entry' \in [Files -> Entries]
  BY DEF Base
<1>10. op'.pc = "grow" => ~Runs'
  BY <1>4
<1>11. clean' => FALSE
  BY <1>5
<1>12. (\A g \in Files : node'[g].state = "linked" <=> entry'[g] # NoEntry)
         /\ (~bmapDirty' => diskBmap' = bmap')
  BY <1>6, <1>7
<1>13. Runs' => /\ op' \in Ops'
                /\ node'[op'.f].state = (IF op'.then = "free" THEN "unlinked" ELSE "linked")
                /\ op'.pc = "grow" => op'.left > 0
                /\ op'.pc = "free" => op'.then = "free"
                /\ op'.pc = "writing" => op'.offset < CLUSTER_SIZE
  BY ONLY <1>4, Zenon
<1>14. clean' => /\ op'.pc = "idle" /\ bmap' = {} /\ ~bmapDirty'
                 /\ \A f \in Files : node'[f] = NoNode
  BY ONLY <1>11, Zenon
<1>15. ~clean' => /\ \A f \in Files : node'[f].state = "linked" <=> entry'[f] # NoEntry
                  /\ ~bmapDirty' => diskBmap' = bmap'
  BY ONLY <1>12, Zenon
<1>16. node' \in [Files -> Nodes]
  BY ONLY <1>2, Zenon
<1> QED BY ONLY <1>16, <1>3, <1>13, <1>14, <1>15, <1>8, <1>9, Zenon DEF Base

-----------------------------------------------------------------------------
(* Types, and what comes with them, step by step                           *)

LEMMA OpFields ==
    ASSUME op \in Ops
    PROVE  /\ op.pc \in Pcs /\ op.f \in Files /\ op.then \in {"idle", "write", "free"}
           /\ op.size \in Nat /\ op.erase \in BOOLEAN /\ op.boundary \in Nat
           /\ op.offset \in Nat /\ op.len \in Nat /\ op.left \in Nat
           /\ op.cluster \in Nat /\ op.current \in Nat /\ op.given \in Nat
           /\ op.full \in BOOLEAN
BY DEF Ops

\* What a call that runs can rely on.
LEMMA BaseRuns ==
    ASSUME Base, Runs
    PROVE  /\ op \in Ops /\ op.f \in Files /\ ~clean
           /\ node \in [Files -> Nodes] /\ entry \in [Files -> Entries]
           /\ File = node[op.f] /\ File \in Nodes /\ File # NoNode
           /\ File.state \in {"linked", "unlinked"} /\ File.start \in Nat /\ File.size \in Nat
           /\ File.contiguous \in BOOLEAN /\ File.dirty \in BOOLEAN
           /\ File.index \in Nat /\ File.cluster \in Nat
           /\ File.state = (IF op.then = "free" THEN "unlinked" ELSE "linked")
           /\ fat \in [Clusters -> Nat] /\ bmap \subseteq Clusters
           /\ stale \subseteq Clusters \X (0 .. CLUSTER_SIZE - 1)
           /\ faults \in 0 .. MaxFaults /\ hurt \subseteq Files
           /\ backward \in BOOLEAN /\ wrapped \in BOOLEAN /\ bmapDirty \in BOOLEAN
<1>1. /\ op \in Ops /\ (clean => op.pc = "idle")
      /\ node \in [Files -> Nodes] /\ entry \in [Files -> Entries]
      /\ node[op.f].state = (IF op.then = "free" THEN "unlinked" ELSE "linked")
  BY ONLY Base, Runs, Zenon DEF Base
<1>2. ~clean
  BY <1>1 DEF Runs, Idle
<1>3. op.f \in Files
  BY <1>1, OpFields
<1>4. File = node[op.f] /\ File \in Nodes
  BY <1>1, <1>3 DEF File
<1>5. File.state = (IF op.then = "free" THEN "unlinked" ELSE "linked")
  BY <1>1 DEF File
<1>6. File # NoNode
  BY <1>5 DEF NoNode
<1>7. /\ File.state \in {"linked", "unlinked"} /\ File.start \in Nat /\ File.size \in Nat
      /\ File.contiguous \in BOOLEAN /\ File.dirty \in BOOLEAN
      /\ File.index \in Nat /\ File.cluster \in Nat
  BY ONLY <1>4, <1>6 DEF Nodes
<1>8. /\ fat \in [Clusters -> Nat] /\ bmap \subseteq Clusters
      /\ stale \subseteq Clusters \X (0 .. CLUSTER_SIZE - 1)
      /\ faults \in 0 .. MaxFaults /\ hurt \subseteq Files
  BY DEF Base, TypeOK
<1>9. backward \in BOOLEAN /\ wrapped \in BOOLEAN /\ bmapDirty \in BOOLEAN
  BY DEF Base, TypeOK
<1> QED BY ONLY <1>1, <1>2, <1>3, <1>4, <1>5, <1>6, <1>7, <1>8, <1>9, Zenon

LEMMA FaultedIs ==
    ASSUME Base, Runs, NEW n \in Nat, n > 0 => CanFault(n - 1), Failed(op.f, n)
    PROVE  /\ Faulted
           /\ n = 0 => hurt' = hurt
           /\ n > 0 => hurt' = hurt \cup {op.f}
<1>1. faults \in 0 .. MaxFaults
  BY BaseRuns
<1>2. faults' = faults + n
  BY DEF Failed
<1>3. n > 0 => faults + (n - 1) < MaxFaults
  BY DEF CanFault
<1>4. faults' \in faults .. MaxFaults /\ (n > 0 => faults' > 0)
  BY ONLY <1>1, <1>2, <1>3, n \in Nat, AllocationAssumption
<1>5. hurt' = IF n > 0 THEN hurt \cup {op.f} ELSE hurt
  BY DEF Failed
<1> QED BY ONLY <1>4, <1>5, n \in Nat DEF Faulted

\* One access of a step fails, or two.
LEMMA Counted ==
    ASSUME Base, Runs, NEW a \in BOOLEAN, NEW b \in BOOLEAN,
           a => CanFault(0), b => CanFault(Count(a)), Failed(op.f, Count(a) + Count(b))
    PROVE  /\ Faulted
           /\ ~a /\ ~b => hurt' = hurt
           /\ a \/ b => hurt' = hurt \cup {op.f}
<1> PICK n : n = Count(a) + Count(b)
  OBVIOUS
<1>1. n \in Nat /\ (n > 0 <=> a \/ b)
  BY DEF Count
<1>2. n > 0 => CanFault(n - 1)
  <2>1. CASE b
    <3>1. n - 1 = Count(a)
      BY <2>1 DEF Count
    <3> QED BY <3>1, <2>1
  <2>2. CASE a /\ ~b
    <3>1. n - 1 = 0
      BY <2>2 DEF Count
    <3> QED BY <3>1, <2>2
  <2>3. CASE ~a /\ ~b
    BY <2>3, <1>1
  <2> QED BY <2>1, <2>2, <2>3
<1>3. Failed(op.f, n)
  OBVIOUS
<1>4. /\ Faulted
      /\ n = 0 => hurt' = hurt
      /\ n > 0 => hurt' = hurt \cup {op.f}
  BY <1>1, <1>2, <1>3, FaultedIs
<1> QED BY ONLY <1>1, <1>4

LEMMA CountedOne ==
    ASSUME Base, Runs, NEW a \in BOOLEAN, a => CanFault(0), Failed(op.f, Count(a))
    PROVE  /\ Faulted
           /\ ~a => hurt' = hurt
           /\ a => hurt' = hurt \cup {op.f}
<1>1. Count(a) = Count(a) + Count(FALSE)
  BY DEF Count
<1>2. Failed(op.f, Count(a) + Count(FALSE))
  BY ONLY <1>1, Failed(op.f, Count(a)), Zenon
<1>3. \A b \in BOOLEAN : (b => CanFault(Count(a))) /\ Failed(op.f, Count(a) + Count(b)) =>
         /\ Faulted
         /\ ~a /\ ~b => hurt' = hurt
         /\ a \/ b => hurt' = hurt \cup {op.f}
  BY Counted
<1> QED BY <1>2, <1>3

\* How a call goes on when exfat_truncate has returned.
LEMMA Returned ==
    ASSUME Base, Runs, NEW ok, Return(ok)
    PROVE  /\ Onward /\ op'.pc # "aborted"
           /\ op'.pc \in {"idle", "free", "write"}
           /\ op.then = "free" => op' = [op EXCEPT !.pc = "free"]
           /\ op.then = "write" /\ ok => op' = [op EXCEPT !.pc = "write"]
           /\ op.then # "free" /\ (op.then = "write" => ~ok) => op' = Idle
<1>1. op \in Ops
  BY BaseRuns
<1>2. ASSUME NEW pc \in {"free", "write"}, op' = [op EXCEPT !.pc = pc]
      PROVE  op' \in Ops' /\ op'.f = op.f /\ op'.then = op.then /\ op'.pc = pc
  BY <1>1, <1>2 DEF Ops, Pcs
<1>3. Idle.pc = "idle"
  BY DEF Idle
<1> QED BY <1>2, <1>3 DEF Return, Onward

LEMMA CountTyped ==
    ASSUME NEW size \in Nat
    PROVE  Needed(size) \in Nat
BY ClusterCount

\* A step that changes nothing but how the call goes on.
LEMMA QuietBase ==
    ASSUME Base, Runs, UNCHANGED <<medium, memory, stale, calls, faults, history>>,
           Onward
    PROVE  Base'
<1>1. /\ clean' = clean /\ entry' = entry /\ diskBmap' = diskBmap /\ calls' = calls
      /\ retried' = retried /\ ignored' = ignored /\ backward' = backward /\ wrapped' = wrapped
      /\ fat' = fat /\ bmap' = bmap /\ bmapDirty' = bmapDirty /\ stale' = stale
      /\ faults' = faults /\ hurt' = hurt /\ node' = node
  BY DEF medium, memory, history
<1>2. /\ File \in Nodes /\ op.f \in Files /\ node \in [Files -> Nodes] /\ File = node[op.f]
      /\ backward \in BOOLEAN /\ wrapped \in BOOLEAN /\ fat \in [Clusters -> Nat] /\ bmap \subseteq Clusters
      /\ bmapDirty \in BOOLEAN /\ stale \subseteq Clusters \X (0 .. CLUSTER_SIZE - 1)
      /\ faults \in 0 .. MaxFaults
  BY BaseRuns
<1>3. node' = [node EXCEPT ![op.f] = File]
  BY <1>1, <1>2
<1>4. Faulted
  BY ONLY <1>1, <1>2, AllocationAssumption DEF Faulted
<1> QED BY <1>1, <1>2, <1>3, <1>4, OwnStepBase

LEMMA BeginTruncateBase ==
    ASSUME Base, BeginTruncate
    PROVE  Base'
<1> USE DEF BeginTruncate
<1>0. Runs
  BY DEF Runs
<1>1. /\ op \in Ops /\ File.size \in Nat /\ op.size \in Nat
  BY <1>0, BaseRuns, OpFields
<1> PICK c1, c2 : c1 = bytes2clusters(File.size) /\ c2 = bytes2clusters(op.size)
  OBVIOUS
<1>2. c1 \in Nat /\ c2 \in Nat
  BY <1>1, IndexIsNat
<1>u. UNCHANGED <<medium, memory, stale, calls, faults, history>>
  OBVIOUS
<1>3. CASE File.size = op.size
  <2>1. Return(TRUE)
    BY <1>3
  <2> QED BY <1>0, <1>u, <2>1, Returned, QuietBase
<1>4. CASE File.size # op.size
  <2> PICK b : b = [used |-> bmap, chain |-> ChainOf(File, c1)]
    OBVIOUS
  <2> PICK left : left = IF c1 < c2 THEN c2 - c1 ELSE c1 - c2
    OBVIOUS
  <2>1. op' = [op EXCEPT !.pc = Sized(c1, c2), !.current = c1, !.left = left,
                         !.given = 0, !.before = b]
    BY <1>4
  <2>2. Sized(c1, c2) \in {"grow", "shrink", "erase"} /\ (Sized(c1, c2) = "grow" <=> c1 < c2)
    BY DEF Sized
  <2>3. left \in Nat /\ (c1 < c2 => left > 0)
    BY <1>2
  <2>4. /\ op' \in Ops' /\ op'.f = op.f /\ op'.then = op.then /\ op'.pc # "writing"
        /\ op'.pc # "free"
        /\ op'.pc = "grow" => op'.left > 0
    <3>1. op \in [pc : Pcs, f : Files, then : {"idle", "write", "free"}, size : Nat,
            erase : BOOLEAN, boundary : Nat, offset : Nat, len : Nat, left : Nat,
            cluster : Nat, current : Nat, given : Nat, full : BOOLEAN,
            before : {op.before}]
      BY <1>1 DEF Ops
    <3>2. op' \in [pc : Pcs, f : Files, then : {"idle", "write", "free"}, size : Nat,
            erase : BOOLEAN, boundary : Nat, offset : Nat, len : Nat, left : Nat,
            cluster : Nat, current : Nat, given : Nat, full : BOOLEAN,
            before : {b}]
      BY ONLY <3>1, <2>1, <2>2, <2>3, <1>2 DEF Pcs
    <3>3. op'.before = b /\ op'.f = op.f /\ op'.then = op.then /\ op'.pc = Sized(c1, c2)
          /\ op'.left = left
      BY ONLY <3>1, <2>1
    <3> QED BY ONLY <3>2, <3>3, <2>2, <2>3 DEF Ops
  <2>5. CASE op'.pc # "grow"
    BY <1>0, <1>u, <2>4, <2>5, QuietBase DEF Onward
  <2>6. CASE op'.pc = "grow"
    <3>1. /\ clean' = clean /\ entry' = entry /\ diskBmap' = diskBmap /\ calls' = calls
          /\ retried' = retried /\ ignored' = ignored /\ backward' = backward /\ wrapped' = wrapped
          /\ fat' = fat /\ bmap' = bmap /\ bmapDirty' = bmapDirty /\ stale' = stale
          /\ faults' = faults /\ hurt' = hurt /\ node' = node
      BY DEF medium, memory, history
    <3>2. TypeOK'
      <4>1. TypeOK
        BY DEF Base
      <4> QED BY ONLY <4>1, <3>1, Zenon DEF TypeOK
    <3>3. Runs' => /\ op' \in Ops'
                   /\ node'[op'.f].state = (IF op'.then = "free" THEN "unlinked" ELSE "linked")
                   /\ op'.pc = "grow" => op'.left > 0
                   /\ op'.pc = "free" => op'.then = "free"
                   /\ op'.pc = "writing" => op'.offset < CLUSTER_SIZE
      <4>1. node[op.f].state = (IF op.then = "free" THEN "unlinked" ELSE "linked")
        BY <1>0 DEF Base
      <4>2. node'[op'.f].state = (IF op'.then = "free" THEN "unlinked" ELSE "linked")
        BY ONLY <4>1, <3>1, <2>4
      <4> QED BY ONLY <4>2, <2>4, Zenon
    <3>4. ~clean'
      BY <3>1, <1>0, BaseRuns
    <3>5. /\ \A f \in Files : node[f].state = "linked" <=> entry[f] # NoEntry
          /\ ~bmapDirty => diskBmap = bmap
      BY <1>0, BaseRuns DEF Base
    <3>6. /\ node \in [Files -> Nodes] /\ entry \in [Files -> Entries]
          /\ faults = 0 => hurt = {} /\ ~retried /\ ~ignored
      BY DEF Base
    <3>7. node' \in [Files -> Nodes] /\ entry' \in [Files -> Entries]
      BY ONLY <3>6, <3>1, Zenon
    <3>8. faults' = 0 => hurt' = {} /\ ~retried' /\ ~ignored'
      BY ONLY <3>6, <3>1, Zenon
    <3>9. ~clean' => /\ \A f \in Files : node'[f].state = "linked" <=> entry'[f] # NoEntry
                     /\ ~bmapDirty' => diskBmap' = bmap'
      BY ONLY <3>5, <3>1, Zenon
    <3>10. clean' => /\ op'.pc = "idle" /\ bmap' = {} /\ ~bmapDirty'
                     /\ \A f \in Files : node'[f] = NoNode
      BY ONLY <3>4, Zenon
    <3> QED BY ONLY <3>2, <3>3, <3>7, <3>8, <3>9, <3>10, Zenon DEF Base
  <2> QED BY <2>5, <2>6
<1> QED BY <1>3, <1>4

\* A step that reads or writes the medium, but only moves the pointer.
LEMMA NodeBase ==
    ASSUME Base, Runs, UNCHANGED <<medium, bmap, bmapDirty, stale, calls, retried, backward, wrapped, ignored>>,
           Faulted, Onward, NEW n \in Nodes, n.state = File.state, SetFile(n)
    PROVE  Base'
<1>1. /\ clean' = clean /\ entry' = entry /\ diskBmap' = diskBmap /\ calls' = calls
      /\ retried' = retried /\ ignored' = ignored /\ backward' = backward /\ wrapped' = wrapped
      /\ fat' = fat /\ bmap' = bmap /\ bmapDirty' = bmapDirty /\ stale' = stale
  BY DEF medium
<1>2. /\ backward \in BOOLEAN /\ wrapped \in BOOLEAN /\ fat \in [Clusters -> Nat] /\ bmap \subseteq Clusters
      /\ bmapDirty \in BOOLEAN /\ stale \subseteq Clusters \X (0 .. CLUSTER_SIZE - 1)
  BY BaseRuns
<1>3. node' = [node EXCEPT ![op.f] = n]
  BY DEF SetFile
<1>4. /\ backward' \in BOOLEAN /\ wrapped' \in BOOLEAN /\ fat' \in [Clusters -> Nat] /\ bmap' \subseteq Clusters
      /\ bmapDirty' \in BOOLEAN /\ stale' \subseteq Clusters \X (0 .. CLUSTER_SIZE - 1)
      /\ (bmap' # bmap => bmapDirty') /\ (bmapDirty => bmapDirty')
  BY ONLY <1>1, <1>2, Zenon
<1> QED BY <1>1, <1>3, <1>4, OwnStepBase

LEMMA AbortedOnward ==
    ASSUME op' = [pc |-> "aborted"]
    PROVE  Onward
BY DEF Onward

LEMMA OnwardTo ==
    ASSUME op \in Ops, op' \in [pc : Pcs, f : Files, then : {"idle", "write", "free"}, size : Nat,
            erase : BOOLEAN, boundary : Nat, offset : Nat, len : Nat, left : Nat,
            cluster : Nat, current : Nat, given : Nat, full : BOOLEAN,
            before : {op.before}],
           op'.before = op.before, op'.f = op.f, op'.then = op.then,
           op'.pc # "grow", op'.pc # "free", op'.pc = "writing" => op'.offset < CLUSTER_SIZE
    PROVE  Onward
<1>1. op' \in Ops'
  BY ONLY op' \in [pc : Pcs, f : Files, then : {"idle", "write", "free"}, size : Nat,
            erase : BOOLEAN, boundary : Nat, offset : Nat, len : Nat, left : Nat,
            cluster : Nat, current : Nat, given : Nat, full : BOOLEAN,
            before : {op.before}], op'.before = op.before, Zenon DEF Ops
<1> QED BY <1>1 DEF Onward

LEMMA GrowFileBase ==
    ASSUME Base, GrowFile
    PROVE  Base'
<1> USE DEF GrowFile
<1>0. Runs
  BY DEF Runs
<1>1. /\ op \in Ops /\ op.current \in Nat
  BY <1>0, BaseRuns, OpFields
<1>2. Before(op.current) \in Nat
  BY <1>1, ClusterNumbers DEF Before
<1>3. PICK a \in Advanced(File, Before(op.current)) :
         /\ SetFile(a.node)
         /\ IF CLUSTER_INVALID(a.node.cluster) THEN Return(FALSE)
            ELSE op' = [op EXCEPT !.pc = "growing", !.cluster = a.node.cluster]
         /\ Failed(op.f, Count(a.failed))
  OBVIOUS
<1>4. /\ a.failed \in BOOLEAN /\ (a.failed => CanFault(0))
      /\ a.node \in Nodes /\ a.node # NoNode /\ a.node.state = File.state
  BY <1>0, <1>2, BaseRuns, AdvancedAre
<1>5. Faulted
  BY <1>0, <1>3, <1>4, CountedOne
<1>6. a.node.cluster \in Nat
  BY ONLY <1>4 DEF Nodes
<1>7. Onward
  <2>1. CASE Return(FALSE)
    BY <1>0, <2>1, Returned
  <2>2. CASE op' = [op EXCEPT !.pc = "growing", !.cluster = a.node.cluster]
    BY <1>1, <1>6, <2>2, OnwardTo DEF Ops, Pcs
  <2> QED BY <1>3, <2>1, <2>2
<1>8. UNCHANGED <<medium, bmap, bmapDirty, stale, calls, retried, backward, wrapped, ignored>>
  BY Zenon
<1> QED BY <1>0, <1>3, <1>4, <1>5, <1>7, <1>8, NodeBase

LEMMA GrowEmptyBase ==
    ASSUME Base, GrowEmpty
    PROVE  Base'
<1> USE DEF GrowEmpty
<1>0. Runs
  BY DEF Runs
<1>1. /\ op \in Ops /\ op.left \in Nat /\ op.left > 0
  BY <1>0, BaseRuns, OpFields DEF Base
<1> PICK first : first = Found(0)
  OBVIOUS
<1>u. UNCHANGED <<medium, stale, calls, faults, history>>
  OBVIOUS
<1>2. CASE CLUSTER_INVALID(first)
  <2>1. Return(FALSE) /\ UNCHANGED memory
    BY <1>2
  <2> QED BY <1>0, <1>u, <2>1, Returned, QuietBase
<1>3. CASE ~CLUSTER_INVALID(first)
  <2> PICK n : n = [File EXCEPT !.start = first, !.cluster = first, !.contiguous = TRUE]
    OBVIOUS
  <2>1. /\ bmap' = bmap \cup {first} /\ bmapDirty' = TRUE /\ SetFile(n)
        /\ op' = [op EXCEPT !.pc = "growing", !.cluster = first,
                            !.left = @ - 1, !.given = 1]
    BY <1>3
  <2>2. first \in Clusters /\ first \in Nat
    BY <1>3, FoundIsFree
  <2>3. File \in Nodes /\ File # NoNode
    BY <1>0, BaseRuns
  <2>4. n \in Nodes /\ n.state = File.state
    BY ONLY <2>2, <2>3, n = [File EXCEPT !.start = first, !.cluster = first, !.contiguous = TRUE]
       DEF Nodes
  <2>5. Onward
    <3> PICK left : left = op.left - 1
      OBVIOUS
    <3>1. left \in Nat
      BY <1>1
    <3>2. op' = [op EXCEPT !.pc = "growing", !.cluster = first, !.left = left, !.given = 1]
      BY <2>1
    <3> QED BY <1>1, <3>1, <3>2, <2>2, OnwardTo, ZenonT(30) DEF Ops, Pcs
  <2>6. /\ clean' = clean /\ entry' = entry /\ diskBmap' = diskBmap /\ calls' = calls
        /\ retried' = retried /\ ignored' = ignored /\ backward' = backward /\ wrapped' = wrapped
        /\ fat' = fat /\ stale' = stale /\ faults' = faults /\ hurt' = hurt
    BY <1>u DEF medium, history
  <2>7. /\ backward \in BOOLEAN /\ wrapped \in BOOLEAN /\ fat \in [Clusters -> Nat] /\ bmap \subseteq Clusters
        /\ bmapDirty \in BOOLEAN /\ stale \subseteq Clusters \X (0 .. CLUSTER_SIZE - 1)
        /\ faults \in 0 .. MaxFaults
    BY <1>0, BaseRuns
  <2>8. bmap' \subseteq Clusters /\ bmapDirty' \in BOOLEAN
    BY <2>1, <2>2, <2>7
  <2>9. Faulted
    BY ONLY <2>6, <2>7, AllocationAssumption DEF Faulted
  <2>10. node' = [node EXCEPT ![op.f] = n]
    BY <2>1 DEF SetFile
  <2> QED BY <1>0, <2>1, <2>4, <2>5, <2>6, <2>7, <2>8, <2>9, <2>10, OwnStepBase
<1> QED BY <1>2, <1>3

LEMMA GrowNotBase ==
    ASSUME Base, GrowNot
    PROVE  Base'
<1> USE DEF GrowNot
<1>0. Runs
  BY DEF Runs
<1>1. op \in Ops
  BY <1>0, BaseRuns
<1>2. Onward
  BY <1>1, OnwardTo DEF Ops, Pcs
<1> QED BY <1>0, <1>2, QuietBase

LEMMA SetNextIs ==
    ASSUME NEW table \in [Clusters -> Nat], NEW n, NEW current, NEW next \in Nat
    PROVE  /\ SetNext(table, n, current, next) \in [Clusters -> Nat]
           /\ \A x \in Clusters : x # current => SetNext(table, n, current, next)[x] = table[x]
           /\ ~n.contiguous /\ current \in Clusters =>
                SetNext(table, n, current, next)[current] = next
BY DEF SetNext

LEMMA NoncontiguousIs ==
    ASSUME fat \in [Clusters -> Nat], NEW n, NEW last
    PROVE  /\ Noncontiguous(n, last) \in [Clusters -> Nat]
           /\ \A x \in Clusters : Noncontiguous(n, last)[x] =
                IF x \in n.start .. last - 1 THEN x + 1 ELSE fat[x]
<1>1. \A x \in Clusters : (IF x \in n.start .. last - 1 THEN x + 1 ELSE fat[x]) \in Nat
  BY ClusterNumbers
<1>2. Noncontiguous(n, last) = [c \in Clusters |-> IF c \in n.start .. last - 1 THEN c + 1 ELSE fat[c]]
  BY DEF Noncontiguous
<1> QED BY ONLY <1>1, <1>2

LEMMA FatBase ==
    ASSUME Base, Runs,
           UNCHANGED <<entry, diskBmap, clean, bmap, bmapDirty, stale, calls,
                       retried, backward, wrapped, ignored>>,
           fat' \in [Clusters -> Nat],
           Faulted, Onward, NEW n \in Nodes, n.state = File.state, SetFile(n)
    PROVE  Base'
<1>1. /\ clean' = clean /\ entry' = entry /\ diskBmap' = diskBmap /\ calls' = calls
      /\ retried' = retried /\ ignored' = ignored /\ backward' = backward /\ wrapped' = wrapped
      /\ bmap' = bmap /\ bmapDirty' = bmapDirty /\ stale' = stale
  OBVIOUS
<1>2. /\ backward \in BOOLEAN /\ wrapped \in BOOLEAN /\ bmap \subseteq Clusters
      /\ bmapDirty \in BOOLEAN /\ stale \subseteq Clusters \X (0 .. CLUSTER_SIZE - 1)
  BY BaseRuns
<1>3. node' = [node EXCEPT ![op.f] = n]
  BY DEF SetFile
<1>4. /\ backward' \in BOOLEAN /\ wrapped' \in BOOLEAN /\ bmap' \subseteq Clusters
      /\ bmapDirty' \in BOOLEAN /\ stale' \subseteq Clusters \X (0 .. CLUSTER_SIZE - 1)
      /\ (bmap' # bmap => bmapDirty') /\ (bmapDirty => bmapDirty')
  BY ONLY <1>1, <1>2, Zenon
<1> QED BY <1>1, <1>3, <1>4, OwnStepBase

LEMMA SameFile ==
    ASSUME Base, Runs, UNCHANGED node
    PROVE  File \in Nodes /\ SetFile(File)
<1>1. File \in Nodes /\ op.f \in Files /\ node \in [Files -> Nodes] /\ File = node[op.f]
  BY BaseRuns
<1>2. node' = [node EXCEPT ![op.f] = File]
  BY <1>1
<1> QED BY <1>1, <1>2 DEF SetFile

LEMMA GrowBase ==
    ASSUME Base, Grow
    PROVE  Base'
<1>0. Runs
  BY DEF Runs, Grow
<1>1. /\ op \in Ops /\ op.left \in Nat /\ op.given \in Nat /\ op.left > 0
      /\ File \in Nodes /\ File # NoNode /\ op.cluster \in Nat
      /\ fat \in [Clusters -> Nat] /\ bmap \subseteq Clusters /\ backward \in BOOLEAN /\ wrapped \in BOOLEAN
      /\ stale \subseteq Clusters \X (0 .. CLUSTER_SIZE - 1) /\ File.start \in Nat
  BY <1>0, BaseRuns, OpFields DEF Grow
<1> PICK next : next = Found(op.cluster + 1)
  OBVIOUS
<1> PICK keeps : keeps = Keeps(File, next)
  OBVIOUS
<1> PICK n : n = IF File.contiguous /\ ~keeps
                 THEN [File EXCEPT !.contiguous = FALSE, !.dirty = TRUE] ELSE File
  OBVIOUS
<1> PICK table : table = IF File.contiguous /\ ~keeps
                         THEN Noncontiguous(File, op.cluster) ELSE fat
  OBVIOUS
<1>2. /\ ~CLUSTER_INVALID(next)
      /\ bmap' = bmap \cup {next} /\ bmapDirty' = TRUE
      /\ backward' = (backward \/ keeps)
      /\ SetFile(n)
      /\ \E fails \in Outcomes(0, ~n.contiguous) :
           /\ IF fails THEN Return(FALSE) /\ fat' = table
              ELSE /\ fat' = SetNext(table, n, op.cluster, next)
                   /\ op' = [op EXCEPT !.cluster = next, !.left = @ - 1,
                                       !.given = @ + 1]
           /\ Failed(op.f, Count(fails))
      /\ UNCHANGED <<entry, diskBmap, clean, stale, calls, retried, wrapped, ignored>>
  BY DEF Grow
<1>3. next \in Clusters /\ next \in Nat
  BY <1>2, FoundIsFree
<1>4. n \in Nodes /\ n.state = File.state
  BY ONLY <1>1, n = IF File.contiguous /\ ~keeps
                 THEN [File EXCEPT !.contiguous = FALSE, !.dirty = TRUE] ELSE File DEF Nodes
<1>5. table \in [Clusters -> Nat]
  BY <1>1, NoncontiguousIs
<1>6. PICK fails \in Outcomes(0, ~n.contiguous) :
           /\ IF fails THEN Return(FALSE) /\ fat' = table
              ELSE /\ fat' = SetNext(table, n, op.cluster, next)
                   /\ op' = [op EXCEPT !.cluster = next, !.left = @ - 1,
                                       !.given = @ + 1]
           /\ Failed(op.f, Count(fails))
  BY <1>2
<1>7. fails \in BOOLEAN /\ (fails => CanFault(0))
  BY OutcomesAre
<1>8. Faulted
  BY <1>0, <1>6, <1>7, CountedOne
<1>9. fat' \in [Clusters -> Nat]
  <2>1. SetNext(table, n, op.cluster, next) \in [Clusters -> Nat]
    BY <1>3, <1>5, SetNextIs, Zenon
  <2> QED BY ONLY <2>1, <1>5, <1>6, Zenon
<1>10. Onward
  <2>1. CASE fails
    BY <1>0, <1>6, <2>1, Returned
  <2>2. CASE ~fails
    <3> PICK left, given : left = op.left - 1 /\ given = op.given + 1
      OBVIOUS
    <3>1. left \in Nat /\ given \in Nat
      BY <1>1
    <3>2. op' = [op EXCEPT !.cluster = next, !.left = left, !.given = given]
      BY <1>6, <2>2
    <3>3. op.pc = "growing"
      BY DEF Grow
    <3> QED BY <1>1, <3>1, <3>2, <3>3, <1>3, OnwardTo DEF Ops, Pcs
  <2> QED BY <2>1, <2>2
<1>11. backward' \in BOOLEAN /\ wrapped' \in BOOLEAN
  <2>1. keeps \in BOOLEAN
    BY <1>1 DEF Keeps, Nodes
  <2> QED BY ONLY <2>1, <1>1, <1>2, Zenon
<1>12. /\ clean' = clean /\ entry' = entry /\ diskBmap' = diskBmap /\ calls' = calls
       /\ retried' = retried /\ ignored' = ignored /\ stale' = stale
  BY <1>2
<1>13. /\ bmap' \subseteq Clusters /\ bmapDirty' \in BOOLEAN /\ bmapDirty'
       /\ stale' \subseteq Clusters \X (0 .. CLUSTER_SIZE - 1)
  BY ONLY <1>1, <1>2, <1>3, <1>12
<1>14. node' = [node EXCEPT ![op.f] = n]
  BY <1>2 DEF SetFile
<1> QED BY <1>0, <1>4, <1>8, <1>9, <1>10, <1>11, <1>12, <1>13, <1>14, OwnStepBase

LEMMA GrowConversionFailsBase ==
    ASSUME Base, GrowConversionFails
    PROVE  Base'
<1> USE DEF GrowConversionFails
<1>0. Runs
  BY DEF Runs
<1>1. /\ fat \in [Clusters -> Nat] /\ bmap \subseteq Clusters /\ backward \in BOOLEAN /\ wrapped \in BOOLEAN
      /\ stale \subseteq Clusters \X (0 .. CLUSTER_SIZE - 1)
  BY <1>0, BaseRuns
<1> PICK next : next = Found(op.cluster + 1)
  OBVIOUS
<1>2. ~CLUSTER_INVALID(next) /\ bmap' = bmap \cup {next} /\ bmapDirty' = TRUE
  OBVIOUS
<1>3. next \in Clusters
  BY <1>2, FoundIsFree
<1>4. fat' \in [Clusters -> Nat]
  BY <1>1, NoncontiguousIs
<1>5. Onward
  BY <1>0, Returned
<1>6. Faulted
  <2>1. Failed(op.f, 1) /\ CanFault(0)
    OBVIOUS
  <2>2. Count(TRUE) = 1 /\ TRUE \in BOOLEAN
    BY DEF Count
  <2>3. Failed(op.f, Count(TRUE))
    BY ONLY <2>1, <2>2, Zenon
  <2> QED BY <1>0, <2>1, <2>2, <2>3, CountedOne
<1>7. File \in Nodes /\ SetFile(File)
  BY <1>0, SameFile
<1>8. /\ clean' = clean /\ entry' = entry /\ diskBmap' = diskBmap /\ calls' = calls
      /\ retried' = retried /\ ignored' = ignored /\ stale' = stale /\ backward' = backward /\ wrapped' = wrapped
  OBVIOUS
<1>9. /\ bmap' \subseteq Clusters /\ bmapDirty' \in BOOLEAN /\ bmapDirty' /\ backward' \in BOOLEAN /\ wrapped' \in BOOLEAN
      /\ stale' \subseteq Clusters \X (0 .. CLUSTER_SIZE - 1)
  BY ONLY <1>1, <1>2, <1>3, <1>8
<1>10. node' = [node EXCEPT ![op.f] = File]
  BY <1>7 DEF SetFile
<1> QED BY <1>0, <1>4, <1>5, <1>6, <1>7, <1>8, <1>9, <1>10, OwnStepBase

LEMMA GrowFullBase ==
    ASSUME Base, GrowFull
    PROVE  Base'
<1> USE DEF GrowFull
<1>0. Runs
  BY DEF Runs
<1>1. op \in Ops /\ op.current \in Nat /\ op.given \in Nat
  BY <1>0, BaseRuns, OpFields
<1>2. Onward
  <2>1. CASE op.given = 0
    BY <1>0, <2>1, Returned
  <2>2. CASE op.given # 0
    <3> PICK current, left : current = op.current + op.given /\ left = op.given
      OBVIOUS
    <3>1. left \in Nat /\ current \in Nat
      BY <1>1
    <3>2. op' = [op EXCEPT !.pc = "shrink", !.full = TRUE, !.current = current, !.left = left]
      BY <2>2
    <3> QED BY <1>1, <3>1, <3>2, OnwardTo DEF Ops, Pcs
  <2> QED BY <2>1, <2>2
<1>3. UNCHANGED <<medium, memory, stale, calls, faults, history>>
  OBVIOUS
<1> QED BY <1>0, <1>2, <1>3, QuietBase

LEMMA GrowDoneBase ==
    ASSUME Base, GrowDone
    PROVE  Base'
<1> USE DEF GrowDone
<1>0. Runs
  BY DEF Runs
<1>1. op \in Ops /\ fat \in [Clusters -> Nat]
  BY <1>0, BaseRuns
<1>2. PICK fails \in Outcomes(0, ~File.contiguous) :
         /\ IF fails THEN Return(FALSE) /\ UNCHANGED fat
            ELSE /\ fat' = SetNext(fat, File, op.cluster, EXFAT_CLUSTER_END)
                 /\ op' = [op EXCEPT !.pc = "erase"]
         /\ Failed(op.f, Count(fails))
  OBVIOUS
<1>3. fails \in BOOLEAN /\ (fails => CanFault(0))
  BY OutcomesAre
<1>4. Faulted
  BY <1>0, <1>2, <1>3, CountedOne
<1>5. fat' \in [Clusters -> Nat]
  <2>1. SetNext(fat, File, op.cluster, EXFAT_CLUSTER_END) \in [Clusters -> Nat]
    BY <1>1, ClusterNumbers, SetNextIs, Zenon
  <2> QED BY ONLY <2>1, <1>1, <1>2, Zenon
<1>6. Onward
  <2>1. CASE fails
    BY <1>0, <1>2, <2>1, Returned
  <2>2. CASE ~fails
    BY <1>1, <1>2, <2>2, OnwardTo DEF Ops, Pcs
  <2> QED BY <2>1, <2>2
<1>7. File \in Nodes /\ SetFile(File)
  BY <1>0, SameFile DEF memory
<1>8. UNCHANGED <<entry, diskBmap, clean, bmap, bmapDirty, stale, calls,
                  retried, backward, wrapped, ignored>>
  BY DEF memory
<1> QED BY <1>0, <1>4, <1>5, <1>6, <1>7, <1>8, FatBase

LEMMA ShrinkAbortsBase ==
    ASSUME Base, ShrinkAborts
    PROVE  Base'
<1> USE DEF ShrinkAborts
<1>0. Runs
  BY DEF Runs
<1>1. Onward
  BY AbortedOnward
<1>2. UNCHANGED <<medium, memory, stale, calls, faults, history>>
  OBVIOUS
<1> QED BY <1>0, <1>1, <1>2, QuietBase

LEMMA RewoundIs ==
    ASSUME NEW n \in Nodes, n # NoNode
    PROVE  /\ Rewound(n) \in Nodes /\ Rewound(n) # NoNode
           /\ Rewound(n).state = n.state /\ Rewound(n).start = n.start
           /\ Rewound(n).size = n.size /\ Rewound(n).contiguous = n.contiguous
           /\ Rewound(n).dirty = n.dirty
           /\ Rewound(n).index = 0 /\ Rewound(n).cluster = n.start
<1>1. n \in [state : {"linked", "unlinked"}, start : Nat, size : Nat,
             contiguous : BOOLEAN, dirty : BOOLEAN, index : Nat, cluster : Nat]
  BY DEF Nodes
<1> PICK m : m = Rewound(n)
  OBVIOUS
<1>2. m = [n EXCEPT !.index = 0, !.cluster = n.start]
  BY DEF Rewound
<1>3. /\ m \in [state : {"linked", "unlinked"}, start : Nat, size : Nat,
                contiguous : BOOLEAN, dirty : BOOLEAN, index : Nat, cluster : Nat]
      /\ m.state = n.state /\ m.start = n.start /\ m.size = n.size
      /\ m.contiguous = n.contiguous /\ m.dirty = n.dirty
      /\ m.index = 0 /\ m.cluster = n.start
  BY ONLY <1>1, <1>2
<1>4. m \in Nodes /\ m # NoNode
  BY <1>3 DEF Nodes, NoNode
<1> QED BY ONLY <1>3, <1>4, m = Rewound(n), Zenon

LEMMA CropBase ==
    ASSUME Base, Crop
    PROVE  Base'
<1>0. Runs /\ op.pc = "shrink"
  BY DEF Runs, Crop
<1>1. /\ op \in Ops /\ fat \in [Clusters -> Nat] /\ File \in Nodes /\ File # NoNode
      /\ op.current \in Nat /\ op.left \in Nat
  BY <1>0, BaseRuns, OpFields
<1>2. op.current - op.left - 1 \in Nat
  <2>1. op.current > op.left
    BY ZenonT(30) DEF Crop
  <2> QED BY ONLY <2>1, <1>1
<1>3. PICK a \in Advanced(File, op.current - op.left - 1) :
         \/ /\ CLUSTER_INVALID(a.node.cluster) /\ SetFile(a.node) /\ Return(FALSE)
            /\ Failed(op.f, Count(a.failed)) /\ UNCHANGED fat
         \/ /\ ~CLUSTER_INVALID(a.node.cluster)
            /\ \E next \in NextClusters(File, a.node.cluster) :
               \E fails \in Outcomes(Count(next.failed), ~File.contiguous) : Cropped(a, next, fails)
  BY DEF Crop, Cropped
<1>4. /\ a.failed \in BOOLEAN /\ (a.failed => CanFault(0))
      /\ a.node \in Nodes /\ a.node # NoNode /\ a.node.state = File.state
  BY <1>1, <1>2, AdvancedAre
<1>5. a.node.cluster \in Nat
  BY ONLY <1>4 DEF Nodes
<1>6. UNCHANGED <<entry, diskBmap, clean, bmap, bmapDirty, stale, calls,
                  retried, backward, wrapped, ignored>>
  BY DEF Crop
<1>7. CASE CLUSTER_INVALID(a.node.cluster)
  <2>1. SetFile(a.node) /\ Return(FALSE) /\ Failed(op.f, Count(a.failed)) /\ UNCHANGED fat
    BY ONLY <1>3, <1>7, Zenon
  <2>2. Faulted
    BY <1>0, <1>4, <2>1, CountedOne
  <2>3. Onward
    BY <1>0, <2>1, Returned
  <2>4. fat' \in [Clusters -> Nat]
    BY <1>1, <2>1
  <2> QED BY <1>0, <1>4, <1>6, <2>1, <2>2, <2>3, <2>4, FatBase
<1>8. CASE ~CLUSTER_INVALID(a.node.cluster)
  <2>1. PICK next \in NextClusters(File, a.node.cluster) :
             \E fails \in Outcomes(Count(next.failed), ~File.contiguous) : Cropped(a, next, fails)
    BY ONLY <1>3, <1>8, Zenon
  <2>2. PICK fails \in Outcomes(Count(next.failed), ~File.contiguous) :
               /\ Failed(op.f, Count(next.failed) + Count(fails))
               /\ IF fails THEN SetFile(a.node) /\ Return(FALSE) /\ UNCHANGED fat
                  ELSE /\ SetFile(Rewound(a.node))
                       /\ fat' = SetNext(fat, File, a.node.cluster, EXFAT_CLUSTER_END)
                       /\ op' = [op EXCEPT !.pc = "freeing",
                                           !.cluster = next.cluster]
    BY ONLY <2>1, Zenon DEF Cropped
  <2>3. /\ next.failed \in BOOLEAN /\ (next.failed => CanFault(0))
        /\ next.cluster \in Nat
    BY <1>1, <1>5, NextClustersAre
  <2>4. fails \in BOOLEAN /\ (fails => CanFault(Count(next.failed)))
    BY OutcomesAre
  <2>5. Faulted
    BY <1>0, <2>2, <2>3, <2>4, Counted
  <2>6. CASE fails
    <3>1. SetFile(a.node) /\ Return(FALSE) /\ UNCHANGED fat
      BY <2>2, <2>6
    <3>2. Onward
      BY <1>0, <3>1, Returned
    <3>3. fat' \in [Clusters -> Nat]
      BY <1>1, <3>1
    <3> QED BY <1>0, <1>4, <1>6, <2>5, <3>1, <3>2, <3>3, FatBase
  <2>7. CASE ~fails
    <3>1. /\ SetFile(Rewound(a.node))
          /\ fat' = SetNext(fat, File, a.node.cluster, EXFAT_CLUSTER_END)
          /\ op' = [op EXCEPT !.pc = "freeing", !.cluster = next.cluster]
      BY <2>2, <2>7
    <3>2. Onward
      BY <1>1, <2>3, <3>1, OnwardTo DEF Ops, Pcs
    <3>3. fat' \in [Clusters -> Nat]
      BY <1>1, <3>1, SetNextIs, ClusterNumbers, Zenon
    <3>4. Rewound(a.node) \in Nodes /\ Rewound(a.node).state = File.state
      BY <1>4, RewoundIs
    <3> QED BY <1>0, <1>6, <2>5, <3>1, <3>2, <3>3, <3>4, FatBase
  <2> QED BY <2>4, <2>6, <2>7
<1> QED BY <1>7, <1>8

LEMMA CropAllBase ==
    ASSUME Base, CropAll
    PROVE  Base'
<1> USE DEF CropAll
<1>0. Runs
  BY DEF Runs
<1>1. /\ op \in Ops /\ File \in Nodes /\ File # NoNode /\ File.start \in Nat
      /\ faults \in 0 .. MaxFaults
  BY <1>0, BaseRuns
<1> PICK m : m = [File EXCEPT !.start = EXFAT_CLUSTER_FREE, !.dirty = TRUE]
  OBVIOUS
<1>2. m \in Nodes /\ m # NoNode /\ m.state = File.state
  <2>1. File \in [state : {"linked", "unlinked"}, start : Nat, size : Nat,
             contiguous : BOOLEAN, dirty : BOOLEAN, index : Nat, cluster : Nat]
    BY <1>1 DEF Nodes
  <2>2. m \in [state : {"linked", "unlinked"}, start : Nat, size : Nat,
             contiguous : BOOLEAN, dirty : BOOLEAN, index : Nat, cluster : Nat]
        /\ m.state = File.state
    BY <2>1, ClusterNumbers
  <2> QED BY <2>2 DEF Nodes, NoNode
<1>3. SetFile(Rewound(m)) /\ op' = [op EXCEPT !.pc = "freeing", !.cluster = File.start]
  OBVIOUS
<1>4. Rewound(m) \in Nodes /\ Rewound(m).state = File.state
  BY <1>2, RewoundIs
<1>5. Onward
  BY <1>1, <1>3, OnwardTo DEF Ops, Pcs
<1>6. Faulted
  <2>1. faults' = faults /\ hurt' = hurt
    BY DEF history
  <2> QED BY ONLY <2>1, <1>1, AllocationAssumption DEF Faulted
<1>7. UNCHANGED <<medium, bmap, bmapDirty, stale, calls, retried, backward, wrapped, ignored>>
  BY DEF history
<1> QED BY <1>0, <1>3, <1>4, <1>5, <1>6, <1>7, NodeBase

LEMMA FreeClusterBase ==
    ASSUME Base, FreeCluster
    PROVE  Base'
<1>0. Runs /\ op.pc = "freeing" /\ op.left > 0
  BY DEF Runs, FreeCluster
<1>1. /\ op \in Ops /\ fat \in [Clusters -> Nat] /\ File \in Nodes /\ File # NoNode
      /\ op.cluster \in Nat /\ op.left \in Nat /\ bmap \subseteq Clusters
      /\ bmapDirty \in BOOLEAN /\ stale \subseteq Clusters \X (0 .. CLUSTER_SIZE - 1)
      /\ backward \in BOOLEAN /\ wrapped \in BOOLEAN
  BY <1>0, BaseRuns, OpFields
<1> DEFINE P(next, fails) ==
         /\ Failed(op.f, Count(next.failed) + Count(fails))
         /\ IF fails THEN Return(FALSE) /\ UNCHANGED <<fat, bmap, bmapDirty, stale>>
            ELSE /\ fat' = SetNext(fat, File, op.cluster, EXFAT_CLUSTER_FREE)
                 /\ bmap' = bmap \ ({op.cluster} \cap Bits)
                 /\ bmapDirty' = (bmapDirty \/ op.cluster \in Bits)
                 /\ stale' = stale \cup (({op.cluster} \cap Clusters) \X (0 .. CLUSTER_SIZE - 1))
                 /\ op' = [op EXCEPT !.cluster = next.cluster, !.left = @ - 1]
<1>2. PICK next \in NextClusters(File, op.cluster) : \E fails \in Outcomes(Count(next.failed), ~File.contiguous) : P(next, fails)
  BY DEF FreeCluster
<1>3. PICK fails \in Outcomes(Count(next.failed), ~File.contiguous) : P(next, fails)
  BY <1>2
<1>4. /\ next.failed \in BOOLEAN /\ (next.failed => CanFault(0))
      /\ next.cluster \in Nat
  BY <1>1, NextClustersAre
<1>5. fails \in BOOLEAN /\ (fails => CanFault(Count(next.failed)))
  BY OutcomesAre
<1>6. Faulted
  BY <1>0, <1>3, <1>4, <1>5, Counted
<1>7. UNCHANGED <<entry, diskBmap, clean, node, calls, retried, backward, wrapped, ignored>>
  BY DEF FreeCluster
<1>8. File \in Nodes /\ SetFile(File)
  BY <1>0, <1>7, SameFile
<1>9. CASE fails
  <2>1. Return(FALSE) /\ UNCHANGED <<fat, bmap, bmapDirty, stale>>
    BY <1>3, <1>9
  <2>2. Onward
    BY <1>0, <2>1, Returned
  <2>3. UNCHANGED <<medium, bmap, bmapDirty, stale, calls, retried, backward, wrapped, ignored>>
    BY <1>7, <2>1 DEF medium
  <2> QED BY <1>0, <1>6, <1>8, <2>2, <2>3, NodeBase
<1>10. CASE ~fails
  <2> PICK left : left = op.left - 1
    OBVIOUS
  <2>1. /\ fat' = SetNext(fat, File, op.cluster, EXFAT_CLUSTER_FREE)
        /\ bmap' = bmap \ ({op.cluster} \cap Bits)
        /\ bmapDirty' = (bmapDirty \/ op.cluster \in Bits)
        /\ stale' = stale \cup (({op.cluster} \cap Clusters) \X (0 .. CLUSTER_SIZE - 1))
        /\ op' = [op EXCEPT !.cluster = next.cluster, !.left = left]
    BY <1>3, <1>10
  <2>2. left \in Nat
    BY <1>0, <1>1
  <2>3. Onward
    BY <1>0, <1>1, <1>4, <2>1, <2>2, OnwardTo DEF Ops, Pcs
  <2>4. fat' \in [Clusters -> Nat]
    BY <1>1, <2>1, SetNextIs, ClusterNumbers, Zenon
  <2>5. bmap' \subseteq Clusters /\ (bmap' # bmap => op.cluster \in Bits)
    BY ONLY <1>1, <2>1
  <2>6. stale' \subseteq Clusters \X (0 .. CLUSTER_SIZE - 1)
    <3>1. ({op.cluster} \cap Clusters) \X (0 .. CLUSTER_SIZE - 1)
            \subseteq Clusters \X (0 .. CLUSTER_SIZE - 1)
      OBVIOUS
    <3> QED BY ONLY <1>1, <2>1, <3>1, Zenon
  <2>7. bmapDirty' \in BOOLEAN /\ (bmap' # bmap => bmapDirty') /\ (bmapDirty => bmapDirty')
    BY ONLY <1>1, <2>1, <2>5, Zenon
  <2>8. /\ clean' = clean /\ entry' = entry /\ diskBmap' = diskBmap /\ calls' = calls
        /\ retried' = retried /\ ignored' = ignored /\ backward' = backward /\ wrapped' = wrapped
    BY <1>7
  <2>9. backward' \in BOOLEAN /\ wrapped' \in BOOLEAN /\ node' = [node EXCEPT ![op.f] = File]
    BY <1>1, <1>8, <2>8 DEF SetFile
  <2> QED BY <1>0, <1>6, <1>8, <2>3, <2>4, <2>5, <2>6, <2>7, <2>8, <2>9, OwnStepBase
<1> QED BY <1>5, <1>9, <1>10

LEMMA FreeInvalidBase ==
    ASSUME Base, FreeInvalid
    PROVE  Base'
<1>0. Runs
  BY DEF Runs, FreeInvalid
<1>1. Return(FALSE) /\ UNCHANGED <<medium, memory, stale, calls, faults, history>>
  BY DEF FreeInvalid
<1> QED BY <1>0, <1>1, Returned, QuietBase

LEMMA ShrinkDoneBase ==
    ASSUME Base, ShrinkDone
    PROVE  Base'
<1> USE DEF ShrinkDone
<1>0. Runs
  BY DEF Runs
<1>1. op \in Ops
  BY <1>0, BaseRuns
<1>2. Onward
  <2>1. CASE op.full
    BY <1>0, <2>1, Returned
  <2>2. CASE ~op.full
    BY <1>1, <2>2, OnwardTo DEF Ops, Pcs
  <2> QED BY <2>1, <2>2
<1>3. UNCHANGED <<medium, memory, stale, calls, faults, history>>
  OBVIOUS
<1> QED BY <1>0, <1>2, <1>3, QuietBase

\* A step that writes bytes of the file, or fails to.
LEMMA StaleBase ==
    ASSUME Base, Runs, UNCHANGED <<medium, bmap, bmapDirty, calls, retried, backward, wrapped, ignored>>,
           stale' \subseteq stale,
           Faulted, Onward, NEW n \in Nodes, n.state = File.state, SetFile(n)
    PROVE  Base'
<1>1. /\ clean' = clean /\ entry' = entry /\ diskBmap' = diskBmap /\ calls' = calls
      /\ retried' = retried /\ ignored' = ignored /\ backward' = backward /\ wrapped' = wrapped
      /\ fat' = fat /\ bmap' = bmap /\ bmapDirty' = bmapDirty
  BY DEF medium
<1>2. /\ backward \in BOOLEAN /\ wrapped \in BOOLEAN /\ fat \in [Clusters -> Nat] /\ bmap \subseteq Clusters
      /\ bmapDirty \in BOOLEAN /\ stale \subseteq Clusters \X (0 .. CLUSTER_SIZE - 1)
  BY BaseRuns
<1>3. node' = [node EXCEPT ![op.f] = n]
  BY DEF SetFile
<1>4. /\ backward' \in BOOLEAN /\ wrapped' \in BOOLEAN /\ fat' \in [Clusters -> Nat] /\ bmap' \subseteq Clusters
      /\ bmapDirty' \in BOOLEAN
      /\ (bmap' # bmap => bmapDirty') /\ (bmapDirty => bmapDirty')
  BY ONLY <1>1, <1>2, Zenon
<1>5. stale' \subseteq Clusters \X (0 .. CLUSTER_SIZE - 1)
  BY ONLY <1>2, stale' \subseteq stale, Zenon
<1> QED BY <1>1, <1>3, <1>4, <1>5, OwnStepBase

LEMMA EraseBase ==
    ASSUME Base, Erase
    PROVE  Base'
<1>0. Runs
  BY DEF Runs, Erase
<1>1. /\ op \in Ops /\ fat \in [Clusters -> Nat] /\ File \in Nodes /\ File # NoNode
      /\ File.size \in Nat /\ op.size \in Nat
  BY <1>0, BaseRuns, OpFields
<1> PICK k, index : k = File.size \div CLUSTER_SIZE /\ index = IndexOf(File.size)
  OBVIOUS
<1> PICK boundary : boundary = (k + 1) * CLUSTER_SIZE
  OBVIOUS
<1> PICK upTo : upTo = IF boundary < op.size THEN boundary ELSE op.size
  OBVIOUS
<1>2. k \in Nat /\ boundary \in Nat /\ index \in Nat
  <2>1. k \in Nat
    BY <1>1, Division
  <2>2. k + 1 \in Nat
    BY <2>1, SMTT(30)
  <2> QED BY <1>1, <2>1, <2>2, Products, IndexIsNat
<1> DEFINE P(a, fails) ==
             /\ SetFile(a.node)
             /\ Failed(op.f, Count(a.failed) + Count(fails))
             /\ IF CLUSTER_INVALID(a.node.cluster) \/ fails
                THEN Return(FALSE) /\ UNCHANGED stale
                ELSE /\ stale' = stale \ Bytes(a.node.cluster, File.size % CLUSTER_SIZE,
                                               upTo - boundary + CLUSTER_SIZE)
                     /\ op' = [op EXCEPT !.pc = "erasing", !.boundary = boundary,
                                         !.cluster = a.node.cluster]
<1>3. PICK a \in Advanced(File, index) : \E fails \in Outcomes(Count(a.failed), ~CLUSTER_INVALID(a.node.cluster)) : P(a, fails)
  BY DEF Erase
<1>4. PICK fails \in Outcomes(Count(a.failed), ~CLUSTER_INVALID(a.node.cluster)) : P(a, fails)
  BY <1>3
<1>5. /\ a.failed \in BOOLEAN /\ (a.failed => CanFault(0))
      /\ a.node \in Nodes /\ a.node # NoNode /\ a.node.state = File.state
  BY <1>1, <1>2, AdvancedAre
<1>6. a.node.cluster \in Nat
  BY ONLY <1>5 DEF Nodes
<1>7. fails \in BOOLEAN /\ (fails => CanFault(Count(a.failed)))
  BY OutcomesAre
<1>8. Faulted
  BY <1>0, <1>4, <1>5, <1>7, Counted
<1>9. stale' \subseteq stale
  BY <1>4, Zenon
<1>10. Onward
  <2>1. CASE CLUSTER_INVALID(a.node.cluster) \/ fails
    <3>1. Return(FALSE)
      BY <1>4, <2>1
    <3> QED BY <1>0, <3>1, Returned
  <2>2. CASE ~(CLUSTER_INVALID(a.node.cluster) \/ fails)
    <3>1. op' = [op EXCEPT !.pc = "erasing", !.boundary = boundary,
                           !.cluster = a.node.cluster]
      BY <1>4, <2>2
    <3> QED BY <1>1, <1>2, <1>6, <3>1, OnwardTo DEF Ops, Pcs
  <2> QED BY <2>1, <2>2
<1>11. UNCHANGED <<medium, bmap, bmapDirty, calls, retried, backward, wrapped, ignored>>
  BY DEF Erase
<1> QED BY <1>0, <1>4, <1>5, <1>8, <1>9, <1>10, <1>11, StaleBase

LEMMA EraseClusterBase ==
    ASSUME Base, EraseCluster
    PROVE  Base'
<1>0. Runs
  BY DEF Runs, EraseCluster
<1>1. /\ op \in Ops /\ fat \in [Clusters -> Nat] /\ op.cluster \in Nat
      /\ op.boundary \in Nat
  BY <1>0, BaseRuns, OpFields
<1> DEFINE P(next, fails) ==
         /\ Failed(op.f, Count(next.failed) + Count(fails))
         /\ IF CLUSTER_INVALID(next.cluster)
            THEN op' = [pc |-> "aborted"] /\ UNCHANGED stale
            ELSE IF fails THEN Return(FALSE) /\ UNCHANGED stale
            ELSE /\ stale' = stale \ Bytes(next.cluster, 0, CLUSTER_SIZE)
                 /\ op' = [op EXCEPT !.cluster = next.cluster,
                                     !.boundary = @ + CLUSTER_SIZE]
<1>2. PICK next \in NextClusters(File, op.cluster) : \E fails \in Outcomes(Count(next.failed), ~CLUSTER_INVALID(next.cluster)) : P(next, fails)
  BY DEF EraseCluster
<1>3. PICK fails \in Outcomes(Count(next.failed), ~CLUSTER_INVALID(next.cluster)) : P(next, fails)
  BY <1>2
<1>4. /\ next.failed \in BOOLEAN /\ (next.failed => CanFault(0))
      /\ next.cluster \in Nat
  BY <1>1, NextClustersAre
<1>5. fails \in BOOLEAN /\ (fails => CanFault(Count(next.failed)))
  BY OutcomesAre
<1>6. Faulted
  BY <1>0, <1>3, <1>4, <1>5, Counted
<1>7. stale' \subseteq stale
  BY <1>3, Zenon
<1>8. Onward
  <2>1. CASE CLUSTER_INVALID(next.cluster)
    <3>1. op' = [pc |-> "aborted"]
      BY <1>3, <2>1
    <3> QED BY <3>1, AbortedOnward
  <2>2. CASE ~CLUSTER_INVALID(next.cluster) /\ fails
    <3>1. Return(FALSE)
      BY <1>3, <2>2
    <3> QED BY <1>0, <3>1, Returned
  <2>3. CASE ~CLUSTER_INVALID(next.cluster) /\ ~fails
    <3> PICK boundary : boundary = op.boundary + CLUSTER_SIZE
      OBVIOUS
    <3>1. op' = [op EXCEPT !.cluster = next.cluster, !.boundary = boundary]
      BY <1>3, <2>3
    <3>2. boundary \in Nat
      BY <1>1, ClusterSize
    <3>3. op.pc = "erasing"
      BY DEF EraseCluster
    <3> QED BY <1>1, <1>4, <3>1, <3>2, <3>3, OnwardTo DEF Ops, Pcs
  <2> QED BY <1>5, <2>1, <2>2, <2>3
<1>9. UNCHANGED <<medium, bmap, bmapDirty, calls, retried, backward, wrapped, ignored>> /\ UNCHANGED node
  BY DEF EraseCluster, memory
<1>10. File \in Nodes /\ SetFile(File)
  BY <1>0, <1>9, SameFile
<1> QED BY <1>0, <1>6, <1>7, <1>8, <1>9, <1>10, StaleBase

LEMMA ResizeBase ==
    ASSUME Base, Resize
    PROVE  Base'
<1> USE DEF Resize
<1>0. Runs
  BY DEF Runs
<1>1. /\ op \in Ops /\ File \in Nodes /\ File # NoNode /\ op.size \in Nat
      /\ faults \in 0 .. MaxFaults
  BY <1>0, BaseRuns, OpFields
<1> PICK m : m = [File EXCEPT !.size = op.size, !.dirty = TRUE]
  OBVIOUS
<1>2. m \in Nodes /\ m.state = File.state
  <2>1. File \in [state : {"linked", "unlinked"}, start : Nat, size : Nat,
             contiguous : BOOLEAN, dirty : BOOLEAN, index : Nat, cluster : Nat]
    BY <1>1 DEF Nodes
  <2>2. m \in [state : {"linked", "unlinked"}, start : Nat, size : Nat,
             contiguous : BOOLEAN, dirty : BOOLEAN, index : Nat, cluster : Nat]
        /\ m.state = File.state
    BY <2>1, <1>1
  <2> QED BY <2>2 DEF Nodes
<1>3. SetFile(m) /\ Return(TRUE)
  OBVIOUS
<1>4. Onward
  BY <1>0, <1>3, Returned
<1>5. Faulted
  <2>1. faults' = faults /\ hurt' = hurt
    BY DEF history
  <2> QED BY ONLY <2>1, <1>1, AllocationAssumption DEF Faulted
<1>6. UNCHANGED <<medium, bmap, bmapDirty, stale, calls, retried, backward, wrapped, ignored>>
  BY DEF history
<1> QED BY <1>0, <1>2, <1>3, <1>4, <1>5, <1>6, NodeBase

LEMMA WriteDoneBase ==
    ASSUME Base, WriteDone
    PROVE  Base'
<1> USE DEF WriteDone
<1>0. Runs
  BY DEF Runs
<1>1. /\ File \in Nodes /\ File # NoNode /\ faults \in 0 .. MaxFaults
  BY <1>0, BaseRuns
<1> PICK m : m = [File EXCEPT !.dirty = TRUE]
  OBVIOUS
<1>2. m \in Nodes /\ m.state = File.state
  BY <1>1 DEF Nodes
<1>3. SetFile(m)
  OBVIOUS
<1>4. Onward
  BY DEF Onward
<1>5. Faulted
  <2>1. faults' = faults /\ hurt' = hurt
    BY DEF history
  <2> QED BY ONLY <2>1, <1>1, AllocationAssumption DEF Faulted
<1>6. UNCHANGED <<medium, bmap, bmapDirty, stale, calls, retried, backward, wrapped, ignored>>
  BY DEF history
<1> QED BY <1>0, <1>2, <1>3, <1>4, <1>5, <1>6, NodeBase

LEMMA BeginWriteBase ==
    ASSUME Base, BeginWrite
    PROVE  Base'
<1>0. Runs
  BY DEF Runs, BeginWrite
<1>1. /\ op \in Ops /\ fat \in [Clusters -> Nat] /\ File \in Nodes /\ File # NoNode
      /\ File.size \in Nat /\ op.offset \in Nat /\ op.len \in Nat /\ faults \in 0 .. MaxFaults
  BY <1>0, BaseRuns, OpFields
<1> DEFINE Truncates(size, erase) ==
      /\ op' = [op EXCEPT !.pc = "truncate", !.size = size, !.erase = erase]
      /\ NoFault /\ UNCHANGED node
<1>2. \/ Truncates(op.offset, TRUE)
      \/ Truncates(op.offset + op.len, FALSE)
      \/ op' = Idle /\ NoFault /\ UNCHANGED node
      \/ \E a \in Advanced(File, IndexOf(op.offset)) :
                  /\ SetFile(a.node)
                  /\ op' = IF CLUSTER_INVALID(a.node.cluster) THEN Idle
                           ELSE [op EXCEPT !.pc = "writing", !.left = op.len,
                                           !.offset = @ % CLUSTER_SIZE,
                                           !.cluster = a.node.cluster]
                  /\ Failed(op.f, Count(a.failed))
  BY DEF BeginWrite
<1>3. /\ UNCHANGED <<medium, bmap, bmapDirty, stale, calls, retried, backward, wrapped, ignored>>
  BY DEF BeginWrite
<1>4. ASSUME NEW size \in Nat, NEW erase \in BOOLEAN, Truncates(size, erase) PROVE Base'
  <2>1. op' = [op EXCEPT !.pc = "truncate", !.size = size, !.erase = erase]
    BY <1>4
  <2>2. Onward
    BY <1>1, <2>1, OnwardTo DEF Ops, Pcs
  <2>3. UNCHANGED <<medium, memory, stale, calls, faults, history>>
    BY <1>3, <1>4 DEF memory, history, NoFault
  <2> QED BY <1>0, <2>2, <2>3, QuietBase
<1>5. CASE op' = Idle /\ NoFault /\ UNCHANGED node
  <2>1. UNCHANGED <<medium, memory, stale, calls, faults, history>>
    BY <1>3, <1>5 DEF memory, history, NoFault
  <2>2. Onward
    BY <1>5 DEF Onward
  <2> QED BY <1>0, <2>1, <2>2, QuietBase
<1>6. ASSUME NEW a \in Advanced(File, IndexOf(op.offset)),
             SetFile(a.node),
             op' = IF CLUSTER_INVALID(a.node.cluster) THEN Idle
                   ELSE [op EXCEPT !.pc = "writing", !.left = op.len,
                                   !.offset = @ % CLUSTER_SIZE,
                                   !.cluster = a.node.cluster],
             Failed(op.f, Count(a.failed))
      PROVE  Base'
  <2> PICK offset : offset = op.offset % CLUSTER_SIZE
    OBVIOUS
  <2>1. IndexOf(op.offset) \in Nat /\ offset \in Nat /\ offset < CLUSTER_SIZE
    BY <1>1, IndexIsNat, Division, ClusterSize
  <2>2. /\ a.failed \in BOOLEAN /\ (a.failed => CanFault(0))
        /\ a.node \in Nodes /\ a.node # NoNode /\ a.node.state = File.state
    BY <1>1, <2>1, AdvancedAre
  <2>3. a.node.cluster \in Nat
    BY ONLY <2>2 DEF Nodes
  <2>4. Faulted
    BY <1>0, <1>6, <2>2, CountedOne
  <2>5. Onward
    <3>1. CASE CLUSTER_INVALID(a.node.cluster)
      <4>1. op' = Idle
        BY <1>6, <3>1
      <4> QED BY <4>1 DEF Onward
    <3>2. CASE ~CLUSTER_INVALID(a.node.cluster)
      <4>1. op' = [op EXCEPT !.pc = "writing", !.left = op.len, !.offset = offset,
                             !.cluster = a.node.cluster]
        BY <1>6, <3>2
      <4> QED BY <1>1, <2>1, <2>3, <4>1, OnwardTo DEF Ops, Pcs
    <3> QED BY <3>1, <3>2
  <2> QED BY <1>0, <1>3, <1>6, <2>2, <2>4, <2>5, NodeBase
<1> HIDE DEF Truncates
<1>7. op.offset + op.len \in Nat
  BY <1>1
<1> QED BY <1>1, <1>2, <1>4, <1>5, <1>6, <1>7

LEMMA WriteClusterBase ==
    ASSUME Base, WriteCluster
    PROVE  Base'
<1>0. Runs /\ op.pc = "writing" /\ op.left > 0
  BY DEF Runs, WriteCluster
<1>1. /\ op \in Ops /\ fat \in [Clusters -> Nat] /\ op.cluster \in Nat
      /\ op.left \in Nat /\ op.offset \in Nat
  BY <1>0, BaseRuns, OpFields
<1>2. op.offset < CLUSTER_SIZE
  BY <1>0 DEF Base
<1> PICK lsize : lsize = IF CLUSTER_SIZE - op.offset < op.left
                         THEN CLUSTER_SIZE - op.offset ELSE op.left
  OBVIOUS
<1> DEFINE P(next, fails) ==
             /\ Failed(op.f, Count(next.failed) + Count(fails))
             /\ IF fails \/ CLUSTER_INVALID(op.cluster)
                THEN op' = Idle /\ UNCHANGED stale
                ELSE /\ stale' = stale \ Bytes(op.cluster, op.offset, op.offset + lsize)
                     /\ op' = [op EXCEPT !.offset = 0, !.left = @ - lsize,
                                         !.cluster = next.cluster]
<1>3. PICK next \in NextClusters(File, op.cluster) : \E fails \in Outcomes(Count(next.failed), TRUE) : P(next, fails)
  BY DEF WriteCluster
<1>4. PICK fails \in Outcomes(Count(next.failed), TRUE) : P(next, fails)
  BY <1>3
<1>5. /\ next.failed \in BOOLEAN /\ (next.failed => CanFault(0))
      /\ next.cluster \in Nat
  BY <1>1, NextClustersAre
<1>6. fails \in BOOLEAN /\ (fails => CanFault(Count(next.failed)))
  BY OutcomesAre
<1>7. Faulted
  BY <1>0, <1>4, <1>5, <1>6, Counted
<1>8. stale' \subseteq stale
  BY <1>4, Zenon
<1>9. Onward
  <2>1. CASE fails \/ CLUSTER_INVALID(op.cluster)
    <3>1. op' = Idle
      BY <1>4, <2>1
    <3> QED BY <3>1 DEF Onward
  <2>2. CASE ~(fails \/ CLUSTER_INVALID(op.cluster))
    <3> PICK left : left = op.left - lsize
      OBVIOUS
    <3>1. op' = [op EXCEPT !.offset = 0, !.left = left, !.cluster = next.cluster]
      BY <1>4, <2>2
    <3>2. left \in Nat
      BY ONLY <1>1, <1>2, ClusterSize, left = op.left - lsize,
         lsize = IF CLUSTER_SIZE - op.offset < op.left
                 THEN CLUSTER_SIZE - op.offset ELSE op.left
    <3>3. 0 < CLUSTER_SIZE
      BY ClusterSize
    <3> QED BY <1>0, <1>1, <1>5, <3>1, <3>2, <3>3, OnwardTo DEF Ops, Pcs
  <2> QED BY <2>1, <2>2
<1>10. UNCHANGED <<medium, bmap, bmapDirty, calls, retried, backward, wrapped, ignored>> /\ UNCHANGED node
  BY DEF WriteCluster, memory
<1>11. File \in Nodes /\ SetFile(File)
  BY <1>0, <1>10, SameFile
<1> QED BY <1>0, <1>7, <1>8, <1>9, <1>10, <1>11, StaleBase

\* What a step outside the calls that run has to leave as it was.
LEMMA TypesAre ==
    ASSUME Base
    PROVE  /\ TypeOK /\ node \in [Files -> Nodes] /\ entry \in [Files -> Entries]
           /\ fat \in [Clusters -> Nat] /\ bmap \subseteq Clusters /\ diskBmap \subseteq Clusters
           /\ stale \subseteq Clusters \X (0 .. CLUSTER_SIZE - 1)
           /\ calls \in 0 .. MaxCalls /\ faults \in 0 .. MaxFaults /\ hurt \subseteq Files
           /\ clean \in BOOLEAN /\ bmapDirty \in BOOLEAN /\ retried \in BOOLEAN
           /\ backward \in BOOLEAN /\ wrapped \in BOOLEAN /\ ignored \in BOOLEAN
BY DEF Base, TypeOK

\* The same from its parts, in the state after a step.
LEMMA TypesAfter ==
    ASSUME node' \in [Files -> Nodes], entry' \in [Files -> Entries],
           fat' \in [Clusters -> Nat], bmap' \subseteq Clusters, diskBmap' \subseteq Clusters,
           stale' \subseteq Clusters \X (0 .. CLUSTER_SIZE - 1),
           calls' \in 0 .. MaxCalls, faults' \in 0 .. MaxFaults, hurt' \subseteq Files,
           clean' \in BOOLEAN, bmapDirty' \in BOOLEAN, retried' \in BOOLEAN,
           backward' \in BOOLEAN /\ wrapped' \in BOOLEAN, ignored' \in BOOLEAN
    PROVE  TypeOK'
<1>1. \A f \in Files : entry'[f] \in Entries /\ node'[f] \in Nodes
  OBVIOUS
<1>2. {clean', bmapDirty', retried', backward', wrapped', ignored'} \subseteq BOOLEAN
  OBVIOUS
<1> QED BY <1>1, <1>2 DEF TypeOK

LEMMA FreeNodeBase ==
    ASSUME Base, FreeNode
    PROVE  Base'
<1> USE DEF FreeNode
<1>0. Runs
  BY DEF Runs
<1>1. /\ op \in Ops /\ op.f \in Files /\ ~clean
      /\ node[op.f].state = (IF op.then = "free" THEN "unlinked" ELSE "linked")
  BY <1>0, BaseRuns DEF Base
<1>t. /\ node \in [Files -> Nodes] /\ entry \in [Files -> Entries]
      /\ fat \in [Clusters -> Nat] /\ bmap \subseteq Clusters /\ diskBmap \subseteq Clusters
      /\ stale \subseteq Clusters \X (0 .. CLUSTER_SIZE - 1)
      /\ calls \in 0 .. MaxCalls /\ faults \in 0 .. MaxFaults /\ hurt \subseteq Files
      /\ clean \in BOOLEAN /\ bmapDirty \in BOOLEAN /\ retried \in BOOLEAN
      /\ backward \in BOOLEAN /\ wrapped \in BOOLEAN /\ ignored \in BOOLEAN
  BY TypesAre
<1>2. /\ clean' = clean /\ entry' = entry /\ diskBmap' = diskBmap /\ calls' = calls
      /\ retried' = retried /\ ignored' = ignored /\ backward' = backward /\ wrapped' = wrapped
      /\ fat' = fat /\ bmap' = bmap /\ bmapDirty' = bmapDirty /\ stale' = stale
      /\ faults' = faults /\ hurt' = hurt
  BY DEF medium, history
<1>3. node' = [node EXCEPT ![op.f] = NoNode] /\ op' = Idle
  BY DEF SetFile
<1>4. node' \in [Files -> Nodes]
  <2>1. NoNode \in Nodes
    BY DEF Nodes
  <2> QED BY ONLY <1>t, <1>3, <2>1
<1>5. TypeOK'
  BY <1>t, <1>2, <1>4, TypesAfter
<1>6. \A f \in Files : node'[f].state = "linked" <=> entry'[f] # NoEntry
  <2>1. \A f \in Files : node[f].state = "linked" <=> entry[f] # NoEntry
    BY <1>1 DEF Base
  <2>2. node[op.f].state # "linked"
    <3>1. op.then = "free"
      BY <1>0 DEF Base
    <3> QED BY <3>1, <1>1
  <2>3. node'[op.f].state # "linked"
    BY <1>3, <1>1, <1>t DEF NoNode
  <2>4. \A f \in Files : f # op.f => node'[f] = node[f]
    BY <1>3, <1>t
  <2> QED BY ONLY <2>1, <2>2, <2>3, <2>4, <1>2, Zenon
<1>7. ~Runs'
  BY <1>3 DEF Runs, Idle
<1>8. ~bmapDirty' => diskBmap' = bmap'
  BY <1>1, <1>2 DEF Base
<1>9. faults' = 0 => hurt' = {} /\ ~retried' /\ ~ignored'
  BY <1>2 DEF Base
<1>10. entry' \in [Files -> Entries] /\ ~clean'
  BY <1>t, <1>2, <1>1
<1> QED BY ONLY <1>4, <1>5, <1>6, <1>7, <1>8, <1>9, <1>10, Zenon DEF Base

-----------------------------------------------------------------------------
(* The same, call by call                                                  *)

LEMMA CallIs ==
    ASSUME Base, Call
    PROVE  /\ ~clean /\ op.pc = "idle" /\ ~Runs /\ calls' \in 0 .. MaxCalls
           /\ \A f \in Files : node[f].state = "linked" <=> entry[f] # NoEntry
           /\ ~bmapDirty => diskBmap = bmap
           /\ faults = 0 => hurt = {} /\ ~retried /\ ~ignored
<1>1. op.pc = "idle" /\ calls < MaxCalls /\ calls' = calls + 1 /\ clean = FALSE
  BY DEF Call
<1>2. calls' \in 0 .. MaxCalls
  <2>1. calls \in 0 .. MaxCalls
    BY TypesAre
  <2> QED BY ONLY <1>1, <2>1, AllocationAssumption
<1>3. ~Runs
  BY <1>1 DEF Runs
<1> QED BY <1>1, <1>2, <1>3 DEF Base

LEMMA FaultsAre ==
    ASSUME Base, NEW failed \in BOOLEAN, failed => CanFault(0),
           faults' = faults + Count(failed)
    PROVE  faults' \in 0 .. MaxFaults /\ (faults' = 0 => faults = 0 /\ ~failed)
<1>1. faults \in 0 .. MaxFaults
  BY TypesAre
<1>2. failed => faults + 0 < MaxFaults
  BY DEF CanFault
<1>3. faults' = faults + IF failed THEN 1 ELSE 0
  BY DEF Count
<1> QED BY ONLY <1>1, <1>2, <1>3, failed \in BOOLEAN, AllocationAssumption

LEMMA StartBase ==
    ASSUME Base, NEW f \in Files, Use(f), op' \in Ops', op'.f = f,
           op'.pc \in {"truncate", "write"},
           node[f].state = (IF op'.then = "free" THEN "unlinked" ELSE "linked"),
           UNCHANGED <<medium, memory, stale, faults, hurt, backward, ignored>>,
           NEW over, wrapped' = (wrapped \/ Overflows(over)) \/ wrapped' = wrapped
    PROVE  Base'
<1>1. /\ Call /\ retried' = (retried \/ f \in hurt)
  BY DEF Use
<1>2. /\ ~clean /\ calls' \in 0 .. MaxCalls
      /\ \A g \in Files : node[g].state = "linked" <=> entry[g] # NoEntry
      /\ ~bmapDirty => diskBmap = bmap
      /\ faults = 0 => hurt = {} /\ ~retried /\ ~ignored
  BY <1>1, CallIs
<1>t. /\ node \in [Files -> Nodes] /\ entry \in [Files -> Entries]
      /\ fat \in [Clusters -> Nat] /\ bmap \subseteq Clusters /\ diskBmap \subseteq Clusters
      /\ stale \subseteq Clusters \X (0 .. CLUSTER_SIZE - 1)
      /\ faults \in 0 .. MaxFaults /\ hurt \subseteq Files
      /\ clean \in BOOLEAN /\ bmapDirty \in BOOLEAN /\ retried \in BOOLEAN
      /\ backward \in BOOLEAN /\ wrapped \in BOOLEAN /\ ignored \in BOOLEAN
  BY TypesAre
<1>3. /\ clean' = clean /\ entry' = entry /\ diskBmap' = diskBmap
      /\ ignored' = ignored /\ backward' = backward /\ node' = node
      /\ fat' = fat /\ bmap' = bmap /\ bmapDirty' = bmapDirty /\ stale' = stale
      /\ faults' = faults /\ hurt' = hurt
  BY DEF medium, memory
<1>4. retried' \in BOOLEAN /\ wrapped' \in BOOLEAN
  BY <1>1, <1>t DEF Overflows
<1>5. TypeOK'
  BY <1>t, <1>2, <1>3, <1>4, TypesAfter
<1>6. /\ node' \in [Files -> Nodes] /\ entry' \in [Files -> Entries] /\ ~clean'
  BY <1>t, <1>2, <1>3
<1>7. op' \in Ops' /\ node'[op'.f].state = (IF op'.then = "free" THEN "unlinked" ELSE "linked")
      /\ op'.pc # "grow" /\ op'.pc # "free" /\ op'.pc # "writing"
  BY <1>3
<1>8. faults' = 0 => hurt' = {} /\ ~retried' /\ ~ignored'
  <2>1. hurt = {} => f \notin hurt
    OBVIOUS
  <2> QED BY ONLY <1>1, <1>2, <1>3, <2>1, Zenon
<1>9. (\A g \in Files : node'[g].state = "linked" <=> entry'[g] # NoEntry)
      /\ (~bmapDirty' => diskBmap' = bmap')
  BY ONLY <1>2, <1>3, Zenon
<1> QED BY ONLY <1>5, <1>6, <1>7, <1>8, <1>9, Zenon DEF Base

LEMMA RunningIs ==
    ASSUME NEW f \in Files, NEW pc \in Pcs, NEW then \in {"idle", "write", "free"}
    PROVE  Running(f, pc, then) \in
             [pc : {pc}, f : {f}, then : {then}, size : Nat,
              erase : BOOLEAN, boundary : Nat, offset : Nat, len : Nat, left : Nat,
              cluster : Nat, current : Nat, given : Nat, full : {FALSE}, before : {{}}]
BY DEF Running

LEMMA TruncateBase ==
    ASSUME Base, NEW f \in Files, NEW size \in Sizes, Truncate(f, size)
    PROVE  Base'
<1> PICK r : r = Running(f, "truncate", "idle")
  OBVIOUS
<1>1. op' = [r EXCEPT !.size = size, !.erase = TRUE]
  BY DEF Truncate
<1>2. r \in [pc : {"truncate"}, f : {f}, then : {"idle"}, size : Nat,
             erase : BOOLEAN, boundary : Nat, offset : Nat, len : Nat, left : Nat,
             cluster : Nat, current : Nat, given : Nat, full : {FALSE}, before : {{}}]
  <2>1. "truncate" \in Pcs /\ "idle" \in {"idle", "write", "free"}
    BY DEF Pcs
  <2> QED BY ONLY <2>1, f \in Files, r = Running(f, "truncate", "idle"), RunningIs
<1>3. size \in Nat
  BY AllocationAssumption
<1>4. op' \in [pc : {"truncate"}, f : {f}, then : {"idle"}, size : Nat,
               erase : BOOLEAN, boundary : Nat, offset : Nat, len : Nat, left : Nat,
               cluster : Nat, current : Nat, given : Nat, full : {FALSE}, before : {{}}]
  BY ONLY <1>1, <1>2, <1>3
<1>5. op' \in Ops' /\ op'.f = f /\ op'.pc = "truncate" /\ op'.then = "idle"
  BY <1>4 DEF Ops, Pcs
<1>6. Use(f) /\ node[f].state = "linked"
      /\ UNCHANGED <<medium, memory, stale, faults, hurt, backward, ignored>>
      /\ wrapped' = (wrapped \/ Overflows(size))
  BY DEF Truncate
<1> QED BY <1>5, <1>6, StartBase

LEMMA PwriteBase ==
    ASSUME Base, NEW f \in Files, NEW offset \in Sizes, NEW len \in Sizes,
           Pwrite(f, offset, len)
    PROVE  Base'
<1> PICK r : r = Running(f, "write", "write")
  OBVIOUS
<1>1. op' = [r EXCEPT !.offset = offset, !.len = len]
  BY DEF Pwrite
<1>2. r \in [pc : {"write"}, f : {f}, then : {"write"}, size : Nat,
             erase : BOOLEAN, boundary : Nat, offset : Nat, len : Nat, left : Nat,
             cluster : Nat, current : Nat, given : Nat, full : {FALSE}, before : {{}}]
  <2>1. "write" \in Pcs /\ "write" \in {"idle", "write", "free"}
    BY DEF Pcs
  <2> QED BY ONLY <2>1, f \in Files, r = Running(f, "write", "write"), RunningIs
<1>3. offset \in Nat /\ len \in Nat
  BY AllocationAssumption
<1>4. op' \in [pc : {"write"}, f : {f}, then : {"write"}, size : Nat,
               erase : BOOLEAN, boundary : Nat, offset : Nat, len : Nat, left : Nat,
               cluster : Nat, current : Nat, given : Nat, full : {FALSE}, before : {{}}]
  BY ONLY <1>1, <1>2, <1>3
<1>5. op' \in Ops' /\ op'.f = f /\ op'.pc = "write" /\ op'.then = "write"
  BY <1>4 DEF Ops, Pcs
<1>6. Use(f) /\ node[f].state = "linked"
      /\ UNCHANGED <<medium, memory, stale, faults, hurt, backward, ignored>>
      /\ wrapped' = (wrapped \/ Overflows(offset + len))
  BY DEF Pwrite
<1> QED BY <1>5, <1>6, StartBase

LEMMA CleanupNodeBase ==
    ASSUME Base, NEW f \in Files, CleanupNode(f)
    PROVE  Base'
<1> PICK r : r = Running(f, "truncate", "free")
  OBVIOUS
<1>1. op' = [r EXCEPT !.erase = TRUE]
  BY DEF CleanupNode
<1>2. r \in [pc : {"truncate"}, f : {f}, then : {"free"}, size : Nat,
             erase : BOOLEAN, boundary : Nat, offset : Nat, len : Nat, left : Nat,
             cluster : Nat, current : Nat, given : Nat, full : {FALSE}, before : {{}}]
  <2>1. "truncate" \in Pcs /\ "free" \in {"idle", "write", "free"}
    BY DEF Pcs
  <2> QED BY ONLY <2>1, f \in Files, r = Running(f, "truncate", "free"), RunningIs
<1>4. op' \in [pc : {"truncate"}, f : {f}, then : {"free"}, size : Nat,
               erase : BOOLEAN, boundary : Nat, offset : Nat, len : Nat, left : Nat,
               cluster : Nat, current : Nat, given : Nat, full : {FALSE}, before : {{}}]
  BY ONLY <1>1, <1>2
<1>5. op' \in Ops' /\ op'.f = f /\ op'.pc = "truncate" /\ op'.then = "free"
  BY <1>4 DEF Ops, Pcs
<1>6. Use(f) /\ node[f].state = "unlinked"
      /\ UNCHANGED <<medium, memory, stale, faults, hurt, backward, wrapped, ignored>>
  BY DEF CleanupNode
<1> QED BY <1>5, <1>6, StartBase

LEMMA RestBase ==
    ASSUME Base, Call, op' = op \/ op'.pc = "aborted",
           UNCHANGED <<fat, bmap, stale, clean, backward, wrapped>>,
           node' \in [Files -> Nodes], entry' \in [Files -> Entries],
           diskBmap' \in {diskBmap, bmap}, bmapDirty' \in BOOLEAN,
           hurt' \subseteq Files, retried' \in BOOLEAN, ignored' \in BOOLEAN,
           faults' \in 0 .. MaxFaults,
           faults' = 0 => hurt' = {} /\ ~retried' /\ ~ignored',
           \A g \in Files : node'[g].state = "linked" <=> entry'[g] # NoEntry,
           ~bmapDirty' => diskBmap' = bmap
    PROVE  Base'
<1>1. ~clean /\ op.pc = "idle" /\ calls' \in 0 .. MaxCalls
  BY CallIs
<1>t. /\ fat \in [Clusters -> Nat] /\ bmap \subseteq Clusters /\ diskBmap \subseteq Clusters
      /\ stale \subseteq Clusters \X (0 .. CLUSTER_SIZE - 1)
      /\ clean \in BOOLEAN /\ backward \in BOOLEAN /\ wrapped \in BOOLEAN
  BY TypesAre
<1>2. fat' = fat /\ bmap' = bmap /\ stale' = stale /\ clean' = clean /\ backward' = backward /\ wrapped' = wrapped
  OBVIOUS
<1>3. diskBmap' \subseteq Clusters
  BY <1>t
<1>4. TypeOK'
  BY <1>1, <1>t, <1>2, <1>3, TypesAfter
<1>5. ~Runs' /\ ~clean'
  BY <1>1, <1>2 DEF Runs
<1>6. ~bmapDirty' => diskBmap' = bmap'
  BY <1>2
<1>7. \A g \in Files : node'[g].state = "linked" <=> entry'[g] # NoEntry
  OBVIOUS
<1>8. node' \in [Files -> Nodes] /\ entry' \in [Files -> Entries]
      /\ (faults' = 0 => hurt' = {} /\ ~retried' /\ ~ignored')
  OBVIOUS
<1> QED BY ONLY <1>4, <1>5, <1>6, <1>7, <1>8, Zenon DEF Base

\* The bitmap is written, or was clean, or its write failed.
LEMMA FlushedIs ==
    ASSUME Base, ~clean, NEW fails \in Outcomes(0, bmapDirty), Flushed(fails)
    PROVE  /\ fails \in BOOLEAN /\ (fails => CanFault(0))
           /\ diskBmap' \in {diskBmap, bmap} /\ bmapDirty' \in BOOLEAN
           /\ ~bmapDirty' => diskBmap' = bmap
<1>1. fails \in BOOLEAN /\ (fails => bmapDirty /\ CanFault(0))
  BY OutcomesAre
<1>2. bmapDirty \in BOOLEAN /\ (~bmapDirty => diskBmap = bmap)
  BY DEF Base, TypeOK
<1> QED BY <1>1, <1>2 DEF Flushed

LEMMA NodeFields ==
    ASSUME NEW n \in Nodes
    PROVE  /\ n # NoNode => /\ n.state \in {"linked", "unlinked"} /\ n.start \in Nat
                            /\ n.size \in Nat /\ n.contiguous \in BOOLEAN
                            /\ n.dirty \in BOOLEAN /\ n.index \in Nat /\ n.cluster \in Nat
           /\ n.state \in {"linked", "unlinked", "absent"}
           /\ n.state = "absent" <=> n = NoNode
BY DEF Nodes, NoNode

LEMMA NodeOfIs ==
    ASSUME NEW e \in Entries
    PROVE  NodeOf(e) \in Nodes /\ (NodeOf(e).state = "linked" <=> e # NoEntry)
           /\ (NodeOf(e) = NoNode <=> e = NoEntry)
<1>1. CASE e = NoEntry
  BY <1>1 DEF NodeOf, Nodes, NoNode
<1>2. CASE e # NoEntry
  <2>1. e \in [start : Nat, size : Nat, contiguous : BOOLEAN, sound : BOOLEAN]
    BY <1>2 DEF Entries
  <2>2. NodeOf(e) = [state |-> "linked", start |-> e.start, size |-> e.size,
          contiguous |-> e.contiguous, dirty |-> FALSE,
          index |-> 0, cluster |-> e.start]
    BY <1>2 DEF NodeOf
  <2> QED BY <2>1, <2>2, <1>2 DEF Nodes, NoNode
<1> QED BY <1>1, <1>2

LEMMA InfoOfIs ==
    ASSUME NEW n \in Nodes, n # NoNode
    PROVE  InfoOf(n) \in Entries /\ InfoOf(n) # NoEntry
<1>1. n.start \in Nat /\ n.size \in Nat /\ n.contiguous \in BOOLEAN
  BY NodeFields
<1>2. (n.size # 0 /\ n.contiguous) \in BOOLEAN
  BY ONLY <1>1
<1>3. InfoOf(n) \in [start : Nat, size : Nat, contiguous : BOOLEAN, sound : BOOLEAN]
  BY ONLY <1>1, <1>2 DEF InfoOf
<1>4. InfoOf(n).start \in Nat
  BY <1>3
<1>5. NoEntry.start = -1
  BY DEF NoEntry
<1>6. InfoOf(n) # NoEntry
  BY ONLY <1>4, <1>5
<1> QED BY ONLY <1>3, <1>6 DEF Entries

LEMMA PreadBase ==
    ASSUME Base, NEW f \in Files, NEW offset \in Sizes, Pread(f, offset)
    PROVE  Base'
<1>1. /\ Use(f) /\ node[f].state = "linked" /\ Call
      /\ UNCHANGED <<medium, bmap, bmapDirty, op, stale, backward, wrapped, ignored>>
  BY DEF Pread, Use
<1>2. PICK a \in Advanced(node[f], IndexOf(offset)), atime \in BOOLEAN :
         /\ atime => ~CLUSTER_INVALID(a.node.cluster)
         /\ node' = [node EXCEPT ![f] = [a.node EXCEPT !.dirty = @ \/ atime]]
         /\ Failed(f, Count(a.failed))
  BY DEF Pread
<1>t. /\ node \in [Files -> Nodes] /\ entry \in [Files -> Entries]
      /\ fat \in [Clusters -> Nat] /\ faults \in 0 .. MaxFaults /\ hurt \subseteq Files
      /\ bmapDirty \in BOOLEAN /\ retried \in BOOLEAN /\ ignored \in BOOLEAN
  BY TypesAre
<1>3. /\ ~clean /\ \A g \in Files : node[g].state = "linked" <=> entry[g] # NoEntry
      /\ ~bmapDirty => diskBmap = bmap
      /\ faults = 0 => hurt = {} /\ ~retried /\ ~ignored
  BY <1>1, CallIs
<1>4. IndexOf(offset) \in Nat /\ node[f] \in Nodes /\ node[f] # NoNode
  <2>1. offset \in Nat
    BY AllocationAssumption
  <2> QED BY <2>1, <1>t, <1>1, IndexIsNat DEF NoNode
<1>5. /\ a.failed \in BOOLEAN /\ (a.failed => CanFault(0))
      /\ a.node \in Nodes /\ a.node # NoNode /\ a.node.state = node[f].state
  BY <1>t, <1>4, AdvancedAre
<1> PICK m : m = [a.node EXCEPT !.dirty = @ \/ atime]
  OBVIOUS
<1>6. m \in Nodes /\ m.state = "linked"
  <2>1. a.node.dirty \in BOOLEAN
    BY <1>5, NodeFields
  <2> PICK dirty : dirty = (a.node.dirty \/ atime)
    OBVIOUS
  <2>2. dirty \in BOOLEAN
    BY ONLY <2>1, atime \in BOOLEAN, dirty = (a.node.dirty \/ atime), Zenon
  <2>3. m = [a.node EXCEPT !.dirty = dirty]
    OBVIOUS
  <2> QED BY ONLY <2>2, <2>3, <1>5, <1>1 DEF Nodes, NoNode
<1>7. /\ node' \in [Files -> Nodes] /\ node'[f].state = "linked"
      /\ \A g \in Files \ {f} : node'[g] = node[g]
  BY <1>t, <1>2, <1>6
<1>8. /\ clean' = clean /\ entry' = entry /\ diskBmap' = diskBmap
      /\ ignored' = ignored /\ backward' = backward /\ wrapped' = wrapped /\ op' = op
      /\ fat' = fat /\ bmap' = bmap /\ bmapDirty' = bmapDirty /\ stale' = stale
  BY <1>1 DEF medium
<1>9. faults' \in 0 .. MaxFaults /\ (faults' = 0 => faults = 0 /\ ~a.failed)
  BY <1>2, <1>5, FaultsAre DEF Failed
<1>10. hurt' = hurt \/ hurt' = hurt \cup {f}
  BY <1>2 DEF Failed
<1>11. ~a.failed => hurt' = hurt
  BY <1>2 DEF Failed, Count
<1>12. retried' = (retried \/ f \in hurt)
  BY <1>1 DEF Use
<1>13. faults' = 0 => hurt' = {} /\ ~retried' /\ ~ignored'
  <2>1. hurt = {} => f \notin hurt
    OBVIOUS
  <2> QED BY ONLY <1>3, <1>8, <1>9, <1>11, <1>12, <2>1, Zenon
<1>14. hurt' \subseteq Files /\ retried' \in BOOLEAN
  BY <1>t, <1>10, <1>12
<1>15. \A g \in Files : node'[g].state = "linked" <=> entry'[g] # NoEntry
  BY <1>1, <1>3, <1>7, <1>8
<1>16. diskBmap' \in {diskBmap, bmap} /\ bmapDirty' \in BOOLEAN /\ ignored' \in BOOLEAN
       /\ (~bmapDirty' => diskBmap' = bmap)
  BY <1>t, <1>3, <1>8
<1>17. entry' \in [Files -> Entries] /\ UNCHANGED <<fat, bmap, stale, clean, backward, wrapped>>
  BY <1>t, <1>8
<1> QED BY <1>1, <1>7, <1>8, <1>9, <1>13, <1>14, <1>15, <1>16, <1>17, RestBase

LEMMA MknodBase ==
    ASSUME Base, NEW f \in Files, Mknod(f)
    PROVE  Base'
<1> PICK e : e = [start |-> EXFAT_CLUSTER_FREE, size |-> 0,
                  contiguous |-> FALSE, sound |-> TRUE]
  OBVIOUS
<1>1. /\ Call /\ node[f].state = "absent" /\ entry' = [entry EXCEPT ![f] = e]
      /\ node' = [node EXCEPT ![f] = NodeOf(entry'[f])]
      /\ UNCHANGED <<fat, diskBmap, clean, bmap, bmapDirty, op, stale, faults, history>>
  BY DEF Mknod
<1>t. /\ node \in [Files -> Nodes] /\ entry \in [Files -> Entries]
      /\ faults \in 0 .. MaxFaults /\ hurt \subseteq Files
      /\ bmapDirty \in BOOLEAN /\ retried \in BOOLEAN /\ ignored \in BOOLEAN
  BY TypesAre
<1>2. /\ ~clean /\ \A g \in Files : node[g].state = "linked" <=> entry[g] # NoEntry
      /\ ~bmapDirty => diskBmap = bmap
      /\ faults = 0 => hurt = {} /\ ~retried /\ ~ignored
  BY <1>1, CallIs
<1>3. e \in Entries /\ e # NoEntry
  BY ClusterNumbers DEF Entries, NoEntry
<1>4. entry' \in [Files -> Entries] /\ entry'[f] = e /\ \A g \in Files \ {f} : entry'[g] = entry[g]
  BY ONLY <1>1, <1>3, <1>t, f \in Files
<1>5. NodeOf(e) \in Nodes /\ NodeOf(e).state = "linked"
  BY <1>3, NodeOfIs
<1>6. node' \in [Files -> Nodes] /\ node'[f] = NodeOf(e) /\ \A g \in Files \ {f} : node'[g] = node[g]
  BY ONLY <1>1, <1>4, <1>5, <1>t, f \in Files
<1>7. \A g \in Files : node'[g].state = "linked" <=> entry'[g] # NoEntry
  BY <1>2, <1>3, <1>4, <1>5, <1>6
<1>8. /\ hurt' = hurt /\ retried' = retried /\ ignored' = ignored /\ backward' = backward /\ wrapped' = wrapped
      /\ diskBmap' = diskBmap /\ bmapDirty' = bmapDirty /\ faults' = faults /\ op' = op
  BY <1>1 DEF history
<1>9. /\ diskBmap' \in {diskBmap, bmap} /\ bmapDirty' \in BOOLEAN /\ ignored' \in BOOLEAN
      /\ ~bmapDirty' => diskBmap' = bmap
      /\ retried' \in BOOLEAN /\ hurt' \subseteq Files /\ faults' \in 0 .. MaxFaults
  BY <1>t, <1>2, <1>8
<1>10. UNCHANGED <<fat, bmap, stale, clean, backward, wrapped>>
  BY <1>1, <1>8
<1>11. faults' = 0 => hurt' = {} /\ ~retried' /\ ~ignored'
  BY <1>2, <1>8
<1> QED BY <1>1, <1>4, <1>6, <1>7, <1>8, <1>9, <1>10, <1>11, RestBase

LEMMA UnlinkBase ==
    ASSUME Base, NEW f \in Files, Unlink(f)
    PROVE  Base'
<1>1. /\ Call /\ node[f].state = "linked" /\ entry' = [entry EXCEPT ![f] = NoEntry]
      /\ node' = [node EXCEPT ![f].state = "unlinked"]
      /\ UNCHANGED <<fat, diskBmap, clean, bmap, bmapDirty, op, stale, faults, history>>
  BY DEF Unlink
<1>t. /\ node \in [Files -> Nodes] /\ entry \in [Files -> Entries]
      /\ faults \in 0 .. MaxFaults /\ hurt \subseteq Files
      /\ bmapDirty \in BOOLEAN /\ retried \in BOOLEAN /\ ignored \in BOOLEAN
  BY TypesAre
<1>2. /\ ~clean /\ \A g \in Files : node[g].state = "linked" <=> entry[g] # NoEntry
      /\ ~bmapDirty => diskBmap = bmap
      /\ faults = 0 => hurt = {} /\ ~retried /\ ~ignored
  BY <1>1, CallIs
<1>3. NoEntry \in Entries
  BY DEF Entries
<1>4. entry' \in [Files -> Entries] /\ entry'[f] = NoEntry
      /\ \A g \in Files \ {f} : entry'[g] = entry[g]
  BY ONLY <1>1, <1>3, <1>t, f \in Files
<1> PICK m : m = [node[f] EXCEPT !.state = "unlinked"]
  OBVIOUS
<1>5. m \in Nodes /\ m.state = "unlinked"
  BY <1>1, <1>t DEF Nodes, NoNode
<1>6. node' \in [Files -> Nodes] /\ node'[f] = m /\ \A g \in Files \ {f} : node'[g] = node[g]
  BY ONLY <1>1, <1>5, <1>t, f \in Files, m = [node[f] EXCEPT !.state = "unlinked"]
<1>7. \A g \in Files : node'[g].state = "linked" <=> entry'[g] # NoEntry
  <2> TAKE g \in Files
  <2>1. CASE g = f
    <3>1. node'[f].state # "linked"
      BY ONLY <1>5, <1>6
    <3> QED BY ONLY <2>1, <3>1, <1>4, Zenon
  <2>2. CASE g # f
    BY <2>2, <1>2, <1>4, <1>6
  <2> QED BY <2>1, <2>2
<1>8. /\ hurt' = hurt /\ retried' = retried /\ ignored' = ignored /\ backward' = backward /\ wrapped' = wrapped
      /\ diskBmap' = diskBmap /\ bmapDirty' = bmapDirty /\ faults' = faults /\ op' = op
  BY <1>1 DEF history
<1>9. /\ diskBmap' \in {diskBmap, bmap} /\ bmapDirty' \in BOOLEAN /\ ignored' \in BOOLEAN
      /\ ~bmapDirty' => diskBmap' = bmap
      /\ retried' \in BOOLEAN /\ hurt' \subseteq Files /\ faults' \in 0 .. MaxFaults
  BY <1>t, <1>2, <1>8
<1>10. UNCHANGED <<fat, bmap, stale, clean, backward, wrapped>>
  BY <1>1, <1>8
<1>11. faults' = 0 => hurt' = {} /\ ~retried' /\ ~ignored'
  BY <1>2, <1>8
<1> QED BY <1>1, <1>4, <1>6, <1>7, <1>8, <1>9, <1>10, <1>11, RestBase

LEMMA FlushBase ==
    ASSUME Base, Flush
    PROVE  Base'
<1>1. /\ Call /\ UNCHANGED <<fat, entry, clean, node, bmap, op, stale, history>>
  BY DEF Flush
<1>2. PICK fails \in Outcomes(0, bmapDirty) : Flushed(fails) /\ faults' = faults + Count(fails)
  BY DEF Flush
<1>t. /\ node \in [Files -> Nodes] /\ entry \in [Files -> Entries]
      /\ hurt \subseteq Files /\ retried \in BOOLEAN /\ ignored \in BOOLEAN
  BY TypesAre
<1>3. /\ ~clean /\ \A g \in Files : node[g].state = "linked" <=> entry[g] # NoEntry
      /\ faults = 0 => hurt = {} /\ ~retried /\ ~ignored
  BY <1>1, CallIs
<1>4. /\ fails \in BOOLEAN /\ (fails => CanFault(0))
      /\ diskBmap' \in {diskBmap, bmap} /\ bmapDirty' \in BOOLEAN
      /\ ~bmapDirty' => diskBmap' = bmap
  BY <1>2, <1>3, FlushedIs
<1>5. faults' \in 0 .. MaxFaults /\ (faults' = 0 => faults = 0 /\ ~fails)
  BY <1>2, <1>4, FaultsAre
<1>6. /\ hurt' = hurt /\ retried' = retried /\ ignored' = ignored /\ backward' = backward /\ wrapped' = wrapped
      /\ entry' = entry /\ node' = node /\ op' = op
  BY <1>1 DEF history
<1>7. /\ node' \in [Files -> Nodes] /\ entry' \in [Files -> Entries]
      /\ hurt' \subseteq Files /\ retried' \in BOOLEAN /\ ignored' \in BOOLEAN
      /\ \A g \in Files : node'[g].state = "linked" <=> entry'[g] # NoEntry
  BY ONLY <1>t, <1>3, <1>6, Zenon
<1>8. faults' = 0 => hurt' = {} /\ ~retried' /\ ~ignored'
  BY ONLY <1>3, <1>5, <1>6, Zenon
<1>9. UNCHANGED <<fat, bmap, stale, clean, backward, wrapped>>
  BY <1>1, <1>6
<1> QED BY <1>1, <1>4, <1>5, <1>6, <1>7, <1>8, <1>9, RestBase

LEMMA FlushNodeBase ==
    ASSUME Base, NEW f \in Files, FlushNode(f)
    PROVE  Base'
<1>1. /\ Call /\ UNCHANGED <<fat, clean, bmap, op, stale, history>>
      /\ node[f].state = "linked" /\ entry' = [entry EXCEPT ![f] = InfoOf(node[f])]
      /\ node' = [node EXCEPT ![f].dirty = FALSE]
  BY DEF FlushNode
<1>2. PICK fails \in Outcomes(0, bmapDirty) : Flushed(fails) /\ faults' = faults + Count(fails)
  BY DEF FlushNode
<1>t. /\ node \in [Files -> Nodes] /\ entry \in [Files -> Entries]
      /\ hurt \subseteq Files /\ retried \in BOOLEAN /\ ignored \in BOOLEAN
  BY TypesAre
<1>3. /\ ~clean /\ \A g \in Files : node[g].state = "linked" <=> entry[g] # NoEntry
      /\ faults = 0 => hurt = {} /\ ~retried /\ ~ignored
  BY <1>1, CallIs
<1>4. /\ fails \in BOOLEAN /\ (fails => CanFault(0))
      /\ diskBmap' \in {diskBmap, bmap} /\ bmapDirty' \in BOOLEAN
      /\ ~bmapDirty' => diskBmap' = bmap
  BY <1>2, <1>3, FlushedIs
<1>5. faults' \in 0 .. MaxFaults /\ (faults' = 0 => faults = 0 /\ ~fails)
  BY <1>2, <1>4, FaultsAre
<1>6. /\ hurt' = hurt /\ retried' = retried /\ ignored' = ignored /\ backward' = backward /\ wrapped' = wrapped
      /\ op' = op
  BY <1>1 DEF history
<1>7. node[f] \in Nodes /\ node[f] # NoNode
  BY <1>1, <1>t DEF NoNode
<1>8. InfoOf(node[f]) \in Entries /\ InfoOf(node[f]) # NoEntry
  BY <1>7, InfoOfIs
<1> PICK m : m = [node[f] EXCEPT !.dirty = FALSE]
  OBVIOUS
<1>9. m \in Nodes /\ m.state = "linked"
  BY <1>1, <1>7 DEF Nodes, NoNode
<1>10. node' \in [Files -> Nodes] /\ node'[f] = m /\ \A g \in Files \ {f} : node'[g] = node[g]
  BY ONLY <1>1, <1>9, <1>t, f \in Files, m = [node[f] EXCEPT !.dirty = FALSE]
<1>11. entry' \in [Files -> Entries] /\ entry'[f] = InfoOf(node[f])
       /\ \A g \in Files \ {f} : entry'[g] = entry[g]
  BY ONLY <1>1, <1>8, <1>t, f \in Files
<1>12. \A g \in Files : node'[g].state = "linked" <=> entry'[g] # NoEntry
  <2> TAKE g \in Files
  <2>1. CASE g = f
    BY ONLY <2>1, <1>8, <1>9, <1>10, <1>11
  <2>2. CASE g # f
    BY <2>2, <1>3, <1>10, <1>11
  <2> QED BY <2>1, <2>2
<1>13. hurt' \subseteq Files /\ retried' \in BOOLEAN /\ ignored' \in BOOLEAN
  BY ONLY <1>t, <1>6, Zenon
<1>14. faults' = 0 => hurt' = {} /\ ~retried' /\ ~ignored'
  BY ONLY <1>3, <1>5, <1>6, Zenon
<1>15. UNCHANGED <<fat, bmap, stale, clean, backward, wrapped>>
  BY <1>1, <1>6
<1> QED BY <1>1, <1>4, <1>5, <1>6, <1>10, <1>11, <1>12, <1>13, <1>14, <1>15, RestBase

LEMMA FlushNodeFailsBase ==
    ASSUME Base, NEW f \in Files, FlushNodeFails(f)
    PROVE  Base'
<1>1. /\ Call /\ node[f].state = "linked" /\ CanFault(0) /\ Failed(f, 1)
      /\ UNCHANGED <<fat, diskBmap, clean, memory, op, stale, retried, backward, wrapped, ignored>>
  BY DEF FlushNodeFails
<1>2. PICK sound \in {entry[f].sound, FALSE} : entry' = [entry EXCEPT ![f].sound = sound]
  BY DEF FlushNodeFails
<1>t. /\ node \in [Files -> Nodes] /\ entry \in [Files -> Entries]
      /\ hurt \subseteq Files /\ retried \in BOOLEAN /\ ignored \in BOOLEAN
      /\ faults \in 0 .. MaxFaults /\ bmapDirty \in BOOLEAN
  BY TypesAre
<1>3. /\ ~clean /\ \A g \in Files : node[g].state = "linked" <=> entry[g] # NoEntry
      /\ ~bmapDirty => diskBmap = bmap
  BY <1>1, CallIs
<1>4. faults' \in 0 .. MaxFaults /\ faults' # 0
  <2>1. faults' = faults + 1 /\ faults + 0 < MaxFaults
    BY <1>1 DEF Failed, CanFault
  <2> QED BY ONLY <2>1, <1>t, AllocationAssumption
<1>5. hurt' = hurt \cup {f}
  BY <1>1 DEF Failed
<1> PICK e : e = [entry[f] EXCEPT !.sound = sound]
  OBVIOUS
<1>6. e \in Entries /\ e # NoEntry
  <2>1. entry[f] # NoEntry
    BY <1>1, <1>3
  <2>2. entry[f] \in [start : Nat, size : Nat, contiguous : BOOLEAN, sound : BOOLEAN]
    BY <2>1, <1>t DEF Entries
  <2>3. sound \in BOOLEAN
    BY <2>2
  <2>4. e \in [start : Nat, size : Nat, contiguous : BOOLEAN, sound : BOOLEAN]
    BY ONLY <2>2, <2>3, e = [entry[f] EXCEPT !.sound = sound]
  <2>5. e.start \in Nat /\ NoEntry.start = -1
    BY <2>4 DEF NoEntry
  <2>6. e # NoEntry
    BY ONLY <2>5
  <2> QED BY ONLY <2>4, <2>6 DEF Entries
<1>7. entry' \in [Files -> Entries] /\ entry'[f] = e /\ \A g \in Files \ {f} : entry'[g] = entry[g]
  BY ONLY <1>2, <1>6, <1>t, f \in Files, e = [entry[f] EXCEPT !.sound = sound]
<1>8. /\ retried' = retried /\ ignored' = ignored /\ backward' = backward /\ wrapped' = wrapped
      /\ op' = op /\ node' = node /\ bmap' = bmap /\ bmapDirty' = bmapDirty /\ diskBmap' = diskBmap
  BY <1>1 DEF memory
<1>9. \A g \in Files : node'[g].state = "linked" <=> entry'[g] # NoEntry
  <2> TAKE g \in Files
  <2>1. CASE g = f
    BY <2>1, <1>1, <1>6, <1>7, <1>8
  <2>2. CASE g # f
    BY <2>2, <1>3, <1>7, <1>8
  <2> QED BY <2>1, <2>2
<1>10. /\ hurt' \subseteq Files /\ retried' \in BOOLEAN /\ ignored' \in BOOLEAN
       /\ node' \in [Files -> Nodes] /\ bmapDirty' \in BOOLEAN
       /\ diskBmap' \in {diskBmap, bmap} /\ (~bmapDirty' => diskBmap' = bmap)
  BY <1>t, <1>3, <1>5, <1>8
<1>11. UNCHANGED <<fat, bmap, stale, clean, backward, wrapped>>
  BY <1>1, <1>8
<1>12. faults' = 0 => hurt' = {} /\ ~retried' /\ ~ignored'
  BY ONLY <1>4
<1> QED BY <1>1, <1>4, <1>7, <1>8, <1>9, <1>10, <1>11, <1>12, RestBase

LEMMA DirtyIs ==
    ASSUME Base, NEW f \in Dirty
    PROVE  /\ f \in Files /\ node[f].state = "linked" /\ node[f] \in Nodes /\ node[f] # NoNode
           /\ InfoOf(node[f]) \in Entries /\ InfoOf(node[f]) # NoEntry
<1>1. f \in Files /\ node[f].state = "linked" /\ node \in [Files -> Nodes]
  BY TypesAre DEF Dirty
<1>2. node[f] \in Nodes /\ node[f] # NoNode
  BY <1>1 DEF NoNode
<1> QED BY <1>1, <1>2, InfoOfIs

LEMMA UnmountBase ==
    ASSUME Base, Unmount
    PROVE  Base'
<1>1. /\ Call
      /\ entry' = [f \in Files |-> IF f \in Dirty THEN InfoOf(node[f]) ELSE entry[f]]
      /\ node' = [f \in Files |-> NoNode] /\ bmap' = {} /\ bmapDirty' = FALSE
      /\ clean' = TRUE
      /\ UNCHANGED <<fat, op, stale, hurt, retried, backward, wrapped>>
  BY DEF Unmount
<1>2. PICK fails \in Outcomes(0, bmapDirty) :
         /\ diskBmap' = IF fails \/ ~bmapDirty THEN diskBmap ELSE bmap
         /\ ignored' = (ignored \/ fails)
         /\ faults' = faults + Count(fails)
  BY DEF Unmount
<1>t. /\ node \in [Files -> Nodes] /\ entry \in [Files -> Entries]
      /\ fat \in [Clusters -> Nat] /\ bmap \subseteq Clusters /\ diskBmap \subseteq Clusters
      /\ stale \subseteq Clusters \X (0 .. CLUSTER_SIZE - 1)
      /\ hurt \subseteq Files /\ retried \in BOOLEAN /\ ignored \in BOOLEAN
      /\ backward \in BOOLEAN /\ wrapped \in BOOLEAN
  BY TypesAre
<1>3. /\ op.pc = "idle" /\ calls' \in 0 .. MaxCalls
      /\ faults = 0 => hurt = {} /\ ~retried /\ ~ignored
  BY <1>1, CallIs
<1>4. fails \in BOOLEAN /\ (fails => CanFault(0))
  BY OutcomesAre
<1>5. faults' \in 0 .. MaxFaults /\ (faults' = 0 => faults = 0 /\ ~fails)
  BY <1>2, <1>4, FaultsAre
<1>6. entry' \in [Files -> Entries]
  <2>1. \A f \in Files : (IF f \in Dirty THEN InfoOf(node[f]) ELSE entry[f]) \in Entries
    BY <1>t, DirtyIs
  <2> QED BY ONLY <1>1, <2>1
<1>7. node' \in [Files -> Nodes] /\ \A f \in Files : node'[f] = NoNode
  BY ONLY <1>1 DEF Nodes
<1>8. diskBmap' \subseteq Clusters
  BY <1>t, <1>2
<1>9. ignored' \in BOOLEAN
  BY <1>t, <1>2, <1>4
<1>10. /\ fat' = fat /\ op' = op /\ stale' = stale /\ hurt' = hurt /\ retried' = retried
       /\ backward' = backward /\ wrapped' = wrapped
  BY <1>1
<1>11. TypeOK'
  <2>1. bmap' \subseteq Clusters /\ clean' \in BOOLEAN /\ bmapDirty' \in BOOLEAN
    BY <1>1
  <2> QED BY <1>t, <1>3, <1>5, <1>6, <1>7, <1>8, <1>9, <1>10, <2>1, TypesAfter
<1>12. faults' = 0 => hurt' = {} /\ ~retried' /\ ~ignored'
  BY ONLY <1>2, <1>3, <1>5, <1>10, Zenon
<1>13. op'.pc = "idle" /\ ~Runs'
  BY <1>3, <1>10 DEF Runs
<1>14. bmap' = {} /\ ~bmapDirty' /\ clean'
  BY <1>1
<1> QED BY ONLY <1>6, <1>7, <1>11, <1>12, <1>13, <1>14, Zenon DEF Base

LEMMA UnmountAbortsBase ==
    ASSUME Base, UnmountAborts
    PROVE  Base'
<1>1. /\ Call /\ CanFault(0) /\ op' = [pc |-> "aborted"]
      /\ UNCHANGED <<fat, clean, memory, stale, retried, backward, wrapped, ignored>>
  BY DEF UnmountAborts
<1>2. PICK f \in Dirty :
      \E flushed \in SUBSET (Dirty \ {f}) :
       \E sound \in {entry[f].sound, FALSE} :
         /\ entry' = [g \in Files |-> IF g \in flushed THEN InfoOf(node[g])
                                      ELSE IF g = f THEN [entry[f] EXCEPT !.sound = sound]
                                      ELSE entry[g]]
         /\ diskBmap' \in {diskBmap} \cup (IF bmapDirty THEN {bmap} ELSE {})
         /\ Failed(f, 1)
  BY DEF UnmountAborts
<1>3. PICK flushed \in SUBSET (Dirty \ {f}), sound \in {entry[f].sound, FALSE} :
         /\ entry' = [g \in Files |-> IF g \in flushed THEN InfoOf(node[g])
                                      ELSE IF g = f THEN [entry[f] EXCEPT !.sound = sound]
                                      ELSE entry[g]]
         /\ diskBmap' \in {diskBmap} \cup (IF bmapDirty THEN {bmap} ELSE {})
         /\ Failed(f, 1)
  BY <1>2
<1>t. /\ node \in [Files -> Nodes] /\ entry \in [Files -> Entries]
      /\ hurt \subseteq Files /\ retried \in BOOLEAN /\ ignored \in BOOLEAN
      /\ faults \in 0 .. MaxFaults /\ bmapDirty \in BOOLEAN
  BY TypesAre
<1>4. /\ ~clean /\ \A g \in Files : node[g].state = "linked" <=> entry[g] # NoEntry
      /\ ~bmapDirty => diskBmap = bmap
  BY <1>1, CallIs
<1>5. faults' \in 0 .. MaxFaults /\ faults' # 0
  <2>1. faults' = faults + 1 /\ faults + 0 < MaxFaults
    BY <1>1, <1>3 DEF Failed, CanFault
  <2> QED BY ONLY <2>1, <1>t, AllocationAssumption
<1>6. hurt' = hurt \cup {f} /\ f \in Files /\ node[f].state = "linked"
  BY <1>3, DirtyIs DEF Failed
<1> PICK e : e = [entry[f] EXCEPT !.sound = sound]
  OBVIOUS
<1>7. e \in Entries /\ e # NoEntry
  <2>1. entry[f] # NoEntry
    BY <1>4, <1>6
  <2>2. entry[f] \in [start : Nat, size : Nat, contiguous : BOOLEAN, sound : BOOLEAN]
    BY <2>1, <1>6, <1>t DEF Entries
  <2>3. sound \in BOOLEAN
    BY <2>2
  <2>4. e \in [start : Nat, size : Nat, contiguous : BOOLEAN, sound : BOOLEAN]
    BY ONLY <2>2, <2>3, e = [entry[f] EXCEPT !.sound = sound]
  <2>5. e.start \in Nat /\ NoEntry.start = -1
    BY <2>4 DEF NoEntry
  <2>6. e # NoEntry
    BY ONLY <2>5
  <2> QED BY ONLY <2>4, <2>6 DEF Entries
<1>8. entry' = [g \in Files |-> IF g \in flushed THEN InfoOf(node[g])
                                ELSE IF g = f THEN e ELSE entry[g]]
  BY <1>3
<1>9. \A g \in flushed : g \in Files /\ node[g].state = "linked" /\ InfoOf(node[g]) \in Entries
                         /\ InfoOf(node[g]) # NoEntry
  BY DirtyIs
<1>10. entry' \in [Files -> Entries]
  BY ONLY <1>7, <1>8, <1>9, <1>t
<1>11. \A g \in Files : node[g].state = "linked" <=> entry'[g] # NoEntry
  BY ONLY <1>4, <1>6, <1>7, <1>8, <1>9
<1>12. node' = node /\ bmap' = bmap /\ bmapDirty' = bmapDirty
       /\ retried' = retried /\ ignored' = ignored
  BY <1>1 DEF memory
<1>13. /\ hurt' \subseteq Files /\ retried' \in BOOLEAN /\ ignored' \in BOOLEAN
       /\ node' \in [Files -> Nodes] /\ bmapDirty' \in BOOLEAN
  BY <1>t, <1>6, <1>12
<1>14. \A g \in Files : node'[g].state = "linked" <=> entry'[g] # NoEntry
  BY <1>11, <1>12
<1>15. diskBmap' \in {diskBmap, bmap} /\ (~bmapDirty' => diskBmap' = bmap)
  BY <1>3, <1>4, <1>12
<1>16. UNCHANGED <<fat, bmap, stale, clean, backward, wrapped>>
  BY <1>1, <1>12
<1>17. op'.pc = "aborted"
  BY <1>1
<1>18. faults' = 0 => hurt' = {} /\ ~retried' /\ ~ignored'
  BY ONLY <1>5
<1> QED BY <1>1, <1>5, <1>10, <1>13, <1>14, <1>15, <1>16, <1>17, <1>18, RestBase

LEMMA MountBase ==
    ASSUME Base, Mount
    PROVE  Base'
<1>1. /\ clean /\ calls < MaxCalls /\ calls' = calls + 1
      /\ node' = [f \in Files |-> NodeOf(entry[f])]
      /\ bmap' = diskBmap /\ bmapDirty' = FALSE /\ clean' = FALSE
      /\ UNCHANGED <<fat, entry, diskBmap, op, stale, faults, history>>
  BY DEF Mount
<1>t. /\ node \in [Files -> Nodes] /\ entry \in [Files -> Entries]
      /\ fat \in [Clusters -> Nat] /\ bmap \subseteq Clusters /\ diskBmap \subseteq Clusters
      /\ stale \subseteq Clusters \X (0 .. CLUSTER_SIZE - 1)
      /\ calls \in 0 .. MaxCalls /\ faults \in 0 .. MaxFaults
      /\ hurt \subseteq Files /\ retried \in BOOLEAN /\ ignored \in BOOLEAN
      /\ backward \in BOOLEAN /\ wrapped \in BOOLEAN
  BY TypesAre
<1>2. \A f \in Files : NodeOf(entry[f]) \in Nodes
        /\ (NodeOf(entry[f]).state = "linked" <=> entry[f] # NoEntry)
  BY <1>t, NodeOfIs
<1>3. node' \in [Files -> Nodes] /\ \A f \in Files : node'[f].state = "linked" <=> entry[f] # NoEntry
  BY ONLY <1>1, <1>2
<1>4. /\ fat' = fat /\ entry' = entry /\ diskBmap' = diskBmap /\ op' = op /\ stale' = stale
      /\ faults' = faults /\ hurt' = hurt /\ retried' = retried /\ ignored' = ignored
      /\ backward' = backward /\ wrapped' = wrapped
  BY <1>1 DEF history
<1>5. calls' \in 0 .. MaxCalls
  BY ONLY <1>1, <1>t, AllocationAssumption
<1>6. TypeOK'
  <2>1. bmap' \subseteq Clusters /\ clean' \in BOOLEAN /\ bmapDirty' \in BOOLEAN
    BY <1>1, <1>t
  <2> QED BY <1>t, <1>3, <1>4, <1>5, <2>1, TypesAfter
<1>7. op.pc = "idle" /\ (faults = 0 => hurt = {} /\ ~retried /\ ~ignored)
  BY <1>1 DEF Base
<1>8. op'.pc = "idle" /\ ~Runs' /\ (faults' = 0 => hurt' = {} /\ ~retried' /\ ~ignored')
  BY <1>4, <1>7 DEF Runs
<1>9. ~clean' /\ diskBmap' = bmap'
      /\ (\A f \in Files : node'[f].state = "linked" <=> entry'[f] # NoEntry)
  BY <1>1, <1>3, <1>4
<1>10. entry' \in [Files -> Entries]
  BY <1>4, <1>t
<1> QED BY ONLY <1>3, <1>6, <1>8, <1>9, <1>10, Zenon DEF Base

LEMMA InitBase ==
    ASSUME Init
    PROVE  Base
<1>1. PICK m \in Media : fat = m.fat /\ entry = m.entry /\ diskBmap = m.used
  BY DEF Init
<1>2. SoundMedium(m)
  BY AllocationAssumption
<1>3. /\ fat \in [Clusters -> Nat] /\ entry \in [Files -> Entries] /\ diskBmap \subseteq Clusters
  BY <1>1, <1>2 DEF SoundMedium
<1>4. /\ clean = FALSE /\ node = [f \in Files |-> NodeOf(entry[f])]
      /\ bmap = diskBmap /\ bmapDirty = FALSE /\ op = Idle
      /\ stale = (Clusters \ diskBmap) \X (0 .. CLUSTER_SIZE - 1)
      /\ calls = 0 /\ faults = 0
      /\ hurt = {} /\ retried = FALSE /\ backward = FALSE /\ wrapped = FALSE /\ ignored = FALSE
  BY DEF Init
<1>5. \A f \in Files : NodeOf(entry[f]) \in Nodes
        /\ (NodeOf(entry[f]).state = "linked" <=> entry[f] # NoEntry)
  BY <1>3, NodeOfIs
<1>6. node \in [Files -> Nodes] /\ \A f \in Files : node[f].state = "linked" <=> entry[f] # NoEntry
  BY ONLY <1>4, <1>5
<1>7. TypeOK
  <2>1. calls \in 0 .. MaxCalls /\ faults \in 0 .. MaxFaults
    BY ONLY <1>4, AllocationAssumption
  <2>2. \A f \in Files : entry[f] \in Entries /\ node[f] \in Nodes
    BY <1>3, <1>6
  <2>3. stale \subseteq Clusters \X (0 .. CLUSTER_SIZE - 1)
    BY ONLY <1>4
  <2>4. {clean, bmapDirty, retried, backward, wrapped, ignored} \subseteq BOOLEAN
    BY ONLY <1>4
  <2>5. bmap \subseteq Clusters /\ hurt \subseteq Files
    BY ONLY <1>3, <1>4
  <2> QED BY ONLY <1>3, <2>1, <2>2, <2>3, <2>4, <2>5, Zenon DEF TypeOK
<1>8. ~Runs
  BY <1>4 DEF Runs, Idle
<1>9. ~clean /\ hurt = {} /\ ~retried /\ ~ignored
  BY <1>4
<1> QED BY ONLY <1>3, <1>4, <1>6, <1>7, <1>8, <1>9, Zenon DEF Base

-----------------------------------------------------------------------------
(* Whose clusters are whose: what a step of one file leaves to the others  *)

LEMMA NextStays ==
    ASSUME NEW n, NEW x \in Clusters, fat'[x] = fat[x]
    PROVE  NextCluster(n, x)' = NextCluster(n, x)
BY DEF NextCluster, NextOn

LEMMA LinkedStays ==
    ASSUME NEW n, NEW c, NEW count \in Nat, Linked(n, c, count),
           \A i \in 0 .. count - 2 : c[i] \in Clusters /\ fat'[c[i]] = fat[c[i]]
    PROVE  Linked(n, c, count)'
<1>1. /\ n.start = (IF count = 0 THEN EXFAT_CLUSTER_FREE ELSE c[0])
      /\ \A i \in 0 .. count - 2 : NextCluster(n, c[i]) = c[i + 1]
  BY DEF Linked
<1>2. \A i \in 0 .. count - 2 : NextCluster(n, c[i])' = NextCluster(n, c[i])
  BY NextStays
<1>3. \A i \in 0 .. count - 2 : NextCluster(n, c[i])' = c[i + 1]
  BY ONLY <1>1, <1>2
<1> QED BY ONLY <1>1, <1>3, Zenon DEF Linked

LEMMA WholeStays ==
    ASSUME NEW n, n.size \in Nat, NEW c, NEW d, Whole(n, c, d),
           \A i \in d : c[i] \in Clusters /\ fat'[c[i]] = fat[c[i]]
    PROVE  Whole(n, c, d)'
<1> PICK count : count = Needed(n.size)
  OBVIOUS
<1>1. count \in Nat /\ d = 0 .. count - 1 /\ Linked(n, c, count)
      /\ Ended(n, c, count) /\ Pointed(n, c, count)
  BY CountTyped DEF Whole
<1>2. \A i \in 0 .. count - 2 : i \in d
  BY <1>1
<1>3. Linked(n, c, count)'
  BY <1>1, <1>2, LinkedStays
<1>4. Ended(n, c, count)'
  <2>1. count > 0 => count - 1 \in d
    BY <1>1
  <2>2. count > 0 => fat'[c[count - 1]] = fat[c[count - 1]]
    BY <2>1
  <2> QED BY ONLY <1>1, <2>2 DEF Ended
<1>5. Pointed(n, c, count)'
  BY ONLY <1>1, Zenon DEF Pointed
<1> QED BY ONLY <1>1, <1>3, <1>4, <1>5, count = Needed(n.size), Zenon DEF Whole

LEMMA FreshStays ==
    ASSUME NEW c, NEW size \in Nat, AllFresh(c, size),
           \A j \in 0 .. Needed(size) - 1 : Untouched(c[j])
    PROVE  AllFresh(c, size)'
<1>1. \A i \in 0 .. size - 1 : <<c[i \div CLUSTER_SIZE], i % CLUSTER_SIZE>> \notin stale
  BY DEF AllFresh, Fresh
<1>2. ASSUME NEW i \in 0 .. size - 1
      PROVE  <<c[i \div CLUSTER_SIZE], i % CLUSTER_SIZE>> \notin stale'
  <2>1. i \div CLUSTER_SIZE \in 0 .. Needed(size) - 1
    BY ClusterCount
  <2>2. Untouched(c[i \div CLUSTER_SIZE])
    BY <2>1
  <2> PICK x, b : x = c[i \div CLUSTER_SIZE] /\ b = i % CLUSTER_SIZE
    OBVIOUS
  <2>3. Untouched(x) /\ <<x, b>> \notin stale
    BY <2>2, <1>1
  <2>4. <<x, b>> \notin stale'
    BY <2>3, Zenon DEF Untouched
  <2> QED BY <2>4
<1> QED BY ONLY <1>2, Zenon DEF AllFresh, Fresh

LEMMA LiesStays ==
    ASSUME NEW n \in Nodes, NEW c, NEW d, Lies(n, c, d), bmap \subseteq Clusters,
           \A i \in d : c[i] \in bmap /\ Untouched(c[i])
    PROVE  Lies(n, c, d)'
<1>3. CASE n = NoNode
  <2>1. d = {}
    BY <1>3 DEF Lies
  <2> QED BY ONLY <1>3, <2>1, Zenon DEF Lies
<1>4. CASE n # NoNode
  <2>1. Whole(n, c, d) /\ AllFresh(c, n.size)
    BY ONLY Lies(n, c, d), <1>4, Zenon DEF Lies
  <2>2. n.size \in Nat
    BY <1>4, NodeFields
  <2>4. \A i \in d : c[i] \in Clusters /\ fat'[c[i]] = fat[c[i]]
    BY DEF Untouched
  <2>5. Whole(n, c, d)'
    BY <2>1, <2>2, <2>4, WholeStays
  <2>6. d = 0 .. Needed(n.size) - 1
    BY <2>1 DEF Whole
  <2>7. AllFresh(c, n.size)'
    BY <2>1, <2>2, <2>6, FreshStays
  <2> QED BY ONLY <2>5, <2>7, <1>4, Zenon DEF Lies
<1> QED BY <1>3, <1>4

LEMMA ClaimsStay ==
    ASSUME Base, NEW f, NEW o, Elsewhere(f, o), NEW g \in Files \ {f}, NEW c, NEW d,
           ~Busy(g), ~Busy(g)', Claims(g, c, d), \A i \in d : c[i] \in bmap \ o
    PROVE  Claims(g, c, d)'
<1>1. /\ ~clean /\ ~clean' /\ node'[g] = node[g] /\ entry'[g] = entry[g]
      /\ \A x \in bmap \ o : Untouched(x)
  BY DEF Elsewhere
<1> PICK n : n = node[g]
  OBVIOUS
<1>2. View(g) = n /\ View(g)' = n
  BY <1>1 DEF View
<1>3. Lies(n, c, d)
  BY <1>2 DEF Claims, AtRest
<1>4. Lies(n, c, d)'
  <2>1. n \in Nodes /\ bmap \subseteq Clusters
    BY TypesAre
  <2>2. \A i \in d : c[i] \in bmap /\ Untouched(c[i])
    BY <1>1
  <2> QED BY <2>1, <2>2, <1>3, LiesStays
<1>5. AtRest(g, c, d)'
  BY <1>2, <1>4 DEF AtRest
<1>6. Saved(node[g], entry[g])
  BY <1>1 DEF Claims
<1>7. Saved(node[g], entry[g])'
  BY <1>1, <1>6 DEF Saved, InfoOf
<1> QED BY <1>5, <1>7 DEF Claims

LEMMA ApartStays ==
    ASSUME Base, NEW ch, NEW D, Apart(ch, D), NEW f \in Files, NEW o,
           o = Own(ch, D, f),
           Elsewhere(f, o), NEW ch2, NEW D2,
           Stays(ch, ch2, f), Stays(D, D2, f), NEW c2, NEW d2, c2 = ch2[f], d2 = D2[f],
           f \notin hurt' => Ours(f, o, c2, d2),
           Safe' \ {f} \subseteq Safe
    PROVE  Apart(ch2, D2)'
<1>0. /\ o = IF f \in hurt THEN {} ELSE Places(ch[f], D[f])
      /\ \A g \in Files \ {f} : ch2[g] = ch[g] /\ D2[g] = D[g]
      /\ f \notin hurt' => Ours(f, o, ch2[f], D2[f])
  BY DEF Own, Stays
<1>1. /\ ~clean /\ ~clean' /\ hurt \subseteq hurt'
      /\ \A x \in bmap \ o : x \in bmap'
  BY DEF Elsewhere
<1>2. Used = bmap /\ Used' = bmap'
  BY <1>1 DEF Used
<1>3. /\ \A g \in Safe : \A i \in D[g] : ch[g][i] \in bmap \ Reserved
      /\ \A g, h \in Safe : \A i \in D[g] : \A j \in D[h] : ch[g][i] = ch[h][j] => g = h /\ i = j
      /\ Reserved \subseteq bmap
      /\ hurt = {} => \A x \in bmap \ (Reserved \cup Tail) : \E g \in Files : \E i \in D[g] : ch[g][i] = x
  BY ONLY Apart(ch, D), <1>2, Zenon DEF Apart
<1>4. ASSUME NEW g, NEW i, g \in Safe' \ {f}, i \in D[g]
      PROVE  ch[g][i] \in bmap \ (Reserved \cup o) /\ g \in Safe
  <2>1. g \in Safe
    BY <1>4
  <2>2. ch[g][i] \in bmap \ Reserved
    BY <1>3, <1>4, <2>1
  <2>3. ch[g][i] \notin o
    <3>1. CASE f \in hurt
      BY <3>1, <1>0
    <3>2. CASE f \notin hurt
      <4>1. f \in Safe /\ o = {ch[f][j] : j \in D[f]}
        BY <3>2, <1>0 DEF Safe, Places
      <4>2. \A j \in D[f] : ch[g][i] # ch[f][j]
        BY <1>3, <1>4, <2>1, <4>1
      <4> QED BY <4>1, <4>2, <1>4
    <3> QED BY <3>1, <3>2
  <2> QED BY <2>1, <2>2, <2>3
<1>5. Reserved \cap o = {}
  <2>1. CASE f \in hurt
    BY <2>1, <1>0
  <2>2. CASE f \notin hurt
    <3>1. f \in Safe /\ o = {ch[f][j] : j \in D[f]}
      BY <2>2, <1>0 DEF Safe, Places
    <3> QED BY <3>1, <1>3
  <2> QED BY <2>1, <2>2
<1>6. Reserved \subseteq bmap'
  BY <1>1, <1>3, <1>5
<1>7. ASSUME NEW g, NEW i, g \in Safe', i \in D2[g]
      PROVE  ch2[g][i] \in bmap' \ Reserved
  <2>1. CASE g = f
    <3>1. Ours(f, o, ch2[f], D2[f])
      BY <2>1, <1>7, <1>0 DEF Safe
    <3> QED BY <2>1, <3>1, <1>7 DEF Ours
  <2>2. CASE g # f
    <3>1. g \in Files /\ ch2[g] = ch[g] /\ D2[g] = D[g] /\ i \in D[g]
      BY <2>2, <1>7, <1>0 DEF Safe
    <3>2. ch[g][i] \in bmap \ (Reserved \cup o)
      BY <1>4, <1>7, <2>2, <3>1
    <3> QED BY <3>1, <3>2, <1>1
  <2> QED BY <2>1, <2>2
<1>8. ASSUME NEW g, NEW h, NEW i, NEW j, g \in Safe', h \in Safe', i \in D2[g], j \in D2[h],
             ch2[g][i] = ch2[h][j], g # f
      PROVE  g = h /\ i = j
  <2>1. g \in Files /\ ch2[g] = ch[g] /\ D2[g] = D[g] /\ g \in Safe
    BY <1>8, <1>0 DEF Safe
  <2>2. ch[g][i] \in bmap \ (Reserved \cup o)
    BY <1>4, <1>8, <2>1
  <2>3. CASE h = f
    <3>1. Ours(f, o, ch2[f], D2[f])
      BY <2>3, <1>8, <1>0 DEF Safe
    <3>2. ch2[f][j] \in o \/ ch2[f][j] \notin bmap
      BY <3>1, <2>3, <1>8 DEF Ours
    <3> QED BY <3>2, <2>1, <2>2, <2>3, <1>8
  <2>4. CASE h # f
    <3>1. h \in Files /\ ch2[h] = ch[h] /\ D2[h] = D[h] /\ h \in Safe
      BY <2>4, <1>8, <1>0 DEF Safe
    <3> QED BY <2>1, <3>1, <1>3, <1>8
  <2> QED BY <2>3, <2>4
<1>9. ASSUME NEW g, NEW h, NEW i, NEW j, g \in Safe', h \in Safe', i \in D2[g], j \in D2[h],
             ch2[g][i] = ch2[h][j]
      PROVE  g = h /\ i = j
  <2>1. CASE g # f
    BY <2>1, <1>8, <1>9
  <2>2. CASE h # f
    BY <2>2, <1>8, <1>9
  <2>3. CASE g = f /\ h = f
    <3>1. Ours(f, o, ch2[f], D2[f])
      BY <2>3, <1>9, <1>0 DEF Safe
    <3> QED BY <3>1, <2>3, <1>9 DEF Ours
  <2> QED BY <2>1, <2>2, <2>3
<1>10. ASSUME hurt' = {}, NEW x \in bmap' \ (Reserved \cup Tail)
       PROVE  \E g \in Files : \E i \in D2[g] : ch2[g][i] = x
  <2>1. hurt = {} /\ f \notin hurt /\ f \in Safe /\ Ours(f, o, ch2[f], D2[f])
    BY <1>1, <1>10, <1>0 DEF Safe
  <2>2. CASE \E i \in D2[f] : ch2[f][i] = x
    BY <2>2
  <2>3. CASE x \in bmap \ o
    <3>1. PICK g \in Files : \E i \in D[g] : ch[g][i] = x
      BY <1>3, <2>1, <2>3
    <3>2. g # f
      BY <1>0, <2>1, <2>3, <3>1 DEF Places
    <3>3. ch2[g] = ch[g] /\ D2[g] = D[g]
      BY <3>2, <1>0
    <3> QED BY <3>1, <3>3
  <2> QED BY <2>1, <2>2, <2>3, <1>10 DEF Ours
<1> QED BY ONLY <1>2, <1>6, <1>7, <1>9, <1>10, Zenon DEF Apart

LEMMA HeldStep ==
    ASSUME Base, NEW ch \in [Files -> [Nat -> Nat]], NEW D \in [Files -> SUBSET Nat],
           Held(ch, D), NEW f \in Files, NEW o, o = Own(ch, D, f), Elsewhere(f, o),
           Runs => op.f = f, Runs' => op'.f = f,
           NEW c2 \in [Nat -> Nat], NEW d2 \in SUBSET Nat,
           f \notin hurt' => Ours(f, o, c2, d2),
           f \notin hurt' => Claims(f, c2, d2)',
           f \in hurt' /\ Runs' => HurtInCall'
    PROVE  Owns'
<1> PICK ch2, D2 : ch2 = [ch EXCEPT ![f] = c2] /\ D2 = [D EXCEPT ![f] = d2]
  OBVIOUS
<1>1. /\ ch2 \in [Files -> [Nat -> Nat]] /\ D2 \in [Files -> SUBSET Nat]
      /\ ch2[f] = c2 /\ D2[f] = d2
      /\ \A g \in Files \ {f} : ch2[g] = ch[g] /\ D2[g] = D[g]
  OBVIOUS
<1>2. /\ Apart(ch, D) /\ \A g \in Safe : Claims(g, ch[g], D[g])
  BY DEF Held
<1>3. Safe' \ {f} \subseteq Safe
  BY DEF Safe, Elsewhere
<1>4. Apart(ch2, D2)'
  <2>1. Stays(ch, ch2, f) /\ Stays(D, D2, f)
    BY <1>1 DEF Stays
  <2>2. c2 = ch2[f] /\ d2 = D2[f] /\ Apart(ch, D)
    BY <1>1, <1>2
  <2> QED BY <2>1, <2>2, <1>3, ApartStays
<1>5. ASSUME NEW g, g \in Safe'
      PROVE  Claims(g, ch2[g], D2[g])'
  <2>1. CASE g = f
    <3>1. Claims(f, c2, d2)'
      BY <2>1, <1>5 DEF Safe
    <3> PICK c, d : c = ch2[g] /\ d = D2[g]
      OBVIOUS
    <3>2. c = c2 /\ d = d2
      BY <1>1, <2>1
    <3>3. Claims(g, c, d)'
      BY <3>1, <3>2, <2>1
    <3> QED BY <3>3
  <2>2. CASE g # f
    <3>1. g \in Files \ {f} /\ g \in Safe
      BY <1>3, <1>5, <2>2 DEF Safe
    <3> PICK c, d : c = ch[g] /\ d = D[g]
      OBVIOUS
    <3>2. Claims(g, c, d)
      BY <1>2, <3>1
    <3>3. ~Busy(g) /\ ~Busy(g)'
      BY <2>2 DEF Busy
    <3>4. \A i \in d : c[i] \in bmap \ o
      <4>1. ~clean
        BY DEF Elsewhere
      <4>2. /\ \A i \in d : c[i] \in bmap
            /\ \A h \in Safe : \A i \in D[g] : \A j \in D[h] : ch[g][i] = ch[h][j] => g = h
        BY <4>1, <1>2, <3>1 DEF Apart, Used
      <4>3. CASE f \in hurt
        BY <4>2, <4>3 DEF Own
      <4>4. CASE f \notin hurt
        <5>1. f \in Safe /\ o = {ch[f][j] : j \in D[f]}
          BY <4>4 DEF Safe, Own, Places
        <5>2. \A i \in D[g] : \A j \in D[f] : ch[g][i] # ch[f][j]
          BY <5>1, <4>2, <2>2
        <5> QED BY <5>1, <5>2, <4>2
      <4> QED BY <4>3, <4>4
    <3>5. Claims(g, c, d)'
      BY <3>1, <3>2, <3>3, <3>4, ClaimsStay
    <3>6. c = ch2[g] /\ d = D2[g]
      BY <1>1, <3>1
    <3> QED BY <3>5, <3>6
  <2> QED BY <2>1, <2>2
<1>6. Runs' /\ op'.f \in hurt' => HurtInCall'
  OBVIOUS
<1>7. Held(ch2, D2)'
  BY ONLY <1>4, <1>5, <1>6, Zenon DEF Held
<1> QED BY ONLY <1>1, <1>7, Zenon DEF Owns

LEMMA CallStep ==
    ASSUME Base, Runs, NEW ch \in [Files -> [Nat -> Nat]], NEW D \in [Files -> SUBSET Nat],
           Held(ch, D), NEW f, f = op.f, NEW o, o = Own(ch, D, f),
           NEW n2, NEW o2, Goes(f, n2, o2), Clears(o),
           NEW c2 \in [Nat -> Nat], NEW d2 \in SUBSET Nat,
           f \notin hurt' => Ours(f, o, c2, d2),
           f \notin hurt' => InCallAfter(f, n2, o2, c2, d2)
    PROVE  Owns'
<1>0. /\ clean' = clean /\ entry' = entry /\ node' = [node EXCEPT ![f] = n2] /\ op' = o2
      /\ o2.pc \notin {"idle", "aborted"} => o2.f = f
      /\ hurt \subseteq hurt' /\ hurt' \subseteq hurt \cup {f}
      /\ f \in hurt' /\ o2.pc \notin {"idle", "aborted"} => Hurt(n2, o2)
      /\ \A x \in bmap \ o : x \in bmap' /\ Untouched(x)
  BY DEF Goes, Clears
<1>1. f \in Files /\ ~clean /\ ~clean' /\ node \in [Files -> Nodes] /\ Runs
  BY <1>0, BaseRuns
<1>2. node'[f] = n2 /\ \A g \in Files \ {f} : node'[g] = node[g]
  BY <1>0, <1>1
<1>3. Elsewhere(f, o)
  BY <1>0, <1>1, <1>2 DEF Elsewhere
<1>4. Runs' <=> o2.pc \notin {"idle", "aborted"}
  BY <1>0 DEF Runs
<1>5. ASSUME f \notin hurt' PROVE Claims(f, c2, d2)'
  <2>1. InCallAfter(f, n2, o2, c2, d2)
    BY <1>5
  <2>2. Saved(node'[f], entry'[f])
    BY <2>1, <1>0, <1>2 DEF InCallAfter
  <2>3. Saved(node[f], entry[f])'
    BY <2>2 DEF Saved, InfoOf
  <2>4. CASE o2.pc \notin {"idle", "aborted"}
    <3>1. Under(n2, o2, c2, d2)'
      BY <2>1, <2>4 DEF InCallAfter
    <3>2. InCall(f, c2, d2)'
      BY <1>0, <3>1, <1>2 DEF InCall
    <3>3. Busy(f)'
      BY <1>0, <2>4, <1>4 DEF Busy
    <3> QED BY <3>2, <3>3, <2>3 DEF Claims
  <2>5. CASE o2.pc \in {"idle", "aborted"}
    <3>1. Lies(n2, c2, d2)'
      BY <2>1, <2>5 DEF InCallAfter
    <3>2. AtRest(f, c2, d2)'
      BY <3>1, <1>1, <1>2 DEF AtRest, View
    <3>3. ~Busy(f)'
      BY <2>5, <1>4 DEF Busy
    <3> QED BY <3>2, <3>3, <2>3 DEF Claims
  <2> QED BY <2>4, <2>5
<1>6. ASSUME f \in hurt', Runs' PROVE HurtInCall'
  <2>1. Hurt(n2, o2) /\ op'.f = f
    BY <1>0, <1>4, <1>6
  <2>2. Hurt(n2, o2)'
    BY <2>1 DEF Hurt
  <2>3. File' = n2
    BY <2>1, <1>2 DEF File
  <2> QED BY <1>0, <2>2, <2>3 DEF HurtInCall
<1>7. Runs => op.f = f
  OBVIOUS
<1>8. Runs' => op'.f = f
  BY <1>0, <1>4
<1>9. f \notin hurt' => Ours(f, o, c2, d2)
  OBVIOUS
<1>10. f \notin hurt' => Claims(f, c2, d2)'
  BY <1>5
<1>11. f \in hurt' /\ Runs' => HurtInCall'
  BY <1>6
<1> QED BY <1>1, <1>3, <1>7, <1>8, <1>9, <1>10, <1>11, HeldStep

LEMMA OursSame ==
    ASSUME Base, ~clean, NEW ch \in [Files -> [Nat -> Nat]], NEW D \in [Files -> SUBSET Nat],
           Held(ch, D), NEW f \in Files, f \notin hurt, bmap' = bmap
    PROVE  Ours(f, Own(ch, D, f), ch[f], D[f])
<1>1. f \in Safe
  BY DEF Safe
<1>2. /\ \A i \in D[f] : ch[f][i] \in bmap \ Reserved
      /\ \A i \in D[f] : \A j \in D[f] : ch[f][i] = ch[f][j] => i = j
  BY <1>1 DEF Held, Apart, Used
<1>3. Own(ch, D, f) = {ch[f][i] : i \in D[f]}
  BY DEF Own, Places
<1> PICK c, d, o : c = ch[f] /\ d = D[f] /\ o = Own(ch, D, f)
  OBVIOUS
<1> QED BY <1>2, <1>3 DEF Ours

LEMMA NowIs ==
    ASSUME Base, NEW ch, NEW D, NEW f, NEW c, NEW d, NEW n, NEW o,
           Now(ch, D, f, c, d, n, o)
    PROVE  Known(f, c, d, n, o)
<1>0. /\ ch \in [Files -> [Nat -> Nat]] /\ D \in [Files -> SUBSET Nat] /\ Held(ch, D)
      /\ Runs /\ f = op.f /\ c = ch[f] /\ d = D[f] /\ n = File /\ o = op
  BY DEF Now
<1>1. f \in Files /\ ~clean /\ File = node[f] /\ bmap \subseteq Clusters
  BY <1>0, BaseRuns
<1>2. c \in [Nat -> Nat] /\ d \in SUBSET Nat
  BY <1>0, <1>1
<1>3. Reserved \subseteq bmap
  BY <1>0, <1>1 DEF Held, Apart, Used
<1>4. ASSUME f \notin hurt
      PROVE  /\ Under(n, o, c, d) /\ Saved(n, entry[f])
             /\ \A i \in d : c[i] \in bmap /\ c[i] \in Clusters /\ c[i] \notin Reserved
             /\ \A i, j \in d : c[i] = c[j] => i = j
  <2>1. f \in Safe /\ Busy(f)
    BY <1>0, <1>1, <1>4 DEF Safe, Busy
  <2>2. Claims(f, c, d)
    BY <1>0, <2>1 DEF Held
  <2>3. Under(n, o, c, d) /\ Saved(n, entry[f])
    BY <1>0, <2>1, <2>2, <1>1 DEF Claims, InCall
  <2>4. /\ \A i \in D[f] : ch[f][i] \in bmap \ Reserved
        /\ \A i \in D[f] : \A j \in D[f] : ch[f][i] = ch[f][j] => i = j
    BY <1>0, <2>1, <1>1 DEF Held, Apart, Used
  <2> QED BY <1>0, <2>3, <2>4, <1>1
<1>5. ASSUME f \in hurt PROVE Hurt(n, o)
  BY <1>0, <1>5 DEF Held, HurtInCall
<1> QED BY ONLY <1>1, <1>2, <1>3, <1>4, <1>5, Zenon DEF Known

\* A step that gives no cluster to anyone and takes none.
LEMMA QuietStep ==
    ASSUME Base, NEW ch, NEW D, NEW f, NEW c, NEW d, NEW n, NEW o,
           Now(ch, D, f, c, d, n, o),
           NEW n2, NEW o2, Goes(f, n2, o2),
           fat' = fat, bmap' = bmap, stale' \subseteq stale,
           f \notin hurt' => InCallAfter(f, n2, o2, c, d)
    PROVE  Owns'
<1>0. /\ ch \in [Files -> [Nat -> Nat]] /\ D \in [Files -> SUBSET Nat] /\ Held(ch, D)
      /\ Runs /\ f = op.f /\ c = ch[f] /\ d = D[f]
  BY DEF Now
<1>1. f \in Files /\ ~clean /\ c \in [Nat -> Nat] /\ d \in SUBSET Nat
  BY <1>0, BaseRuns
<1> PICK own : own = Own(ch, D, f)
  OBVIOUS
<1>2. Clears(own)
  BY DEF Clears, Untouched
<1>3. f \notin hurt' => Ours(f, own, c, d)
  <2> SUFFICES ASSUME f \notin hurt' PROVE Ours(f, own, c, d)
    OBVIOUS
  <2>1. f \notin hurt
    BY DEF Goes
  <2> QED BY <1>0, <1>1, <2>1, OursSame
<1> QED BY <1>0, <1>1, <1>2, <1>3, CallStep

\* When exfat_truncate has returned: what is left to show.
LEMMA ReturnHurts ==
    ASSUME Base, Runs, Return(FALSE), NEW n2, NEW o2, o2 = op'
    PROVE  /\ o2.pc \notin {"idle", "aborted"} => Hurt(n2, o2)
           /\ o2.pc \notin {"idle", "aborted"} => o2.f = op.f
<1>1. op \in Ops
  BY BaseRuns
<1>2. op.then = "free" => o2.pc = "free" /\ o2.f = op.f
  BY <1>1, Returned DEF Ops
<1>3. op.then # "free" => o2 = Idle
  BY Returned
<1>4. o2.pc \notin {"idle", "aborted"} => o2.pc = "free" /\ o2.f = op.f
  BY <1>2, <1>3 DEF Idle
<1> QED BY <1>4 DEF Hurt

LEMMA ReturnLies ==
    ASSUME Base, Runs, NEW ok, Return(ok), NEW f, f = op.f, NEW n2, NEW o2, o2 = op',
           NEW c2, NEW d2, Saved(n2, entry[f]), Lies(n2, c2, d2)',
           op.then = "free" => d2 = {}, op.then = "write" => ~ok
    PROVE  /\ InCallAfter(f, n2, o2, c2, d2)
           /\ o2.pc \notin {"idle", "aborted"} => o2.f = op.f
<1>1. op \in Ops
  BY BaseRuns
<1>2. op.then = "free" => o2.pc = "free" /\ o2.f = op.f
  BY <1>1, Returned DEF Ops
<1>3. op.then # "free" => o2 = Idle
  BY Returned
<1>4. o2.pc \notin {"idle", "aborted"} => op.then = "free" /\ o2.pc = "free" /\ o2.f = op.f
  BY <1>2, <1>3 DEF Idle
<1>5. o2.pc \notin {"idle", "aborted"} => Under(n2, o2, c2, d2)'
  BY <1>4 DEF Under
<1> QED BY ONLY <1>4, <1>5, Saved(n2, entry[f]), Lies(n2, c2, d2)' DEF InCallAfter

\* At the start and when it is through, a call has the file as it lies.
LEMMA LiesIs ==
    ASSUME NEW n, n # NoNode, NEW c, NEW d, Whole(n, c, d), AllFresh(c, n.size)
    PROVE  Lies(n, c, d)
BY DEF Lies

LEMMA NowStep ==
    ASSUME Base, NEW ch, NEW D, NEW f, NEW c, NEW d, NEW n, NEW o,
           Now(ch, D, f, c, d, n, o),
           NEW own, own = Own(ch, D, f), NEW n2, NEW o2, Goes(f, n2, o2), Clears(own),
           NEW c2 \in [Nat -> Nat], NEW d2 \in SUBSET Nat,
           f \notin hurt' => Ours(f, own, c2, d2),
           f \notin hurt' => InCallAfter(f, n2, o2, c2, d2)
    PROVE  Owns'
<1>1. /\ ch \in [Files -> [Nat -> Nat]] /\ D \in [Files -> SUBSET Nat] /\ Held(ch, D)
      /\ Runs /\ f = op.f
  BY DEF Now
<1> QED BY <1>1, CallStep

LEMMA NowOurs ==
    ASSUME Base, NEW ch, NEW D, NEW f, NEW c, NEW d, NEW n, NEW o,
           Now(ch, D, f, c, d, n, o), f \notin hurt, bmap' = bmap,
           NEW own, own = Own(ch, D, f)
    PROVE  Ours(f, own, c, d)
<1>1. /\ ch \in [Files -> [Nat -> Nat]] /\ D \in [Files -> SUBSET Nat] /\ Held(ch, D)
      /\ Runs /\ f = op.f /\ c = ch[f] /\ d = D[f]
  BY DEF Now
<1>2. f \in Files /\ ~clean
  BY <1>1, BaseRuns
<1> QED BY <1>1, <1>2, OursSame

LEMMA TypedNow ==
    ASSUME Base, NEW ch, NEW D, NEW f, NEW c, NEW d, NEW n, NEW o,
           Now(ch, D, f, c, d, n, o)
    PROVE  Typed(f, n, o)
<1>0. Runs /\ f = op.f /\ n = File /\ o = op
  BY DEF Now
<1>1. /\ n \in Nodes /\ n # NoNode
      /\ n.state = (IF o.then = "free" THEN "unlinked" ELSE "linked")
      /\ fat \in [Clusters -> Nat] /\ bmap \subseteq Clusters
      /\ stale \subseteq Clusters \X (0 .. CLUSTER_SIZE - 1)
      /\ op \in Ops /\ n = node[op.f] /\ node \in [Files -> Nodes] /\ op.f \in Files
  BY <1>0, BaseRuns
<1>2. n \in [state : {"linked", "unlinked"}, start : Nat, size : Nat,
             contiguous : BOOLEAN, dirty : BOOLEAN, index : Nat, cluster : Nat]
  BY <1>1 DEF Nodes
<1>3. o \in OpsOf(o)
  BY <1>0, <1>1 DEF Ops, OpsOf
<1>4. /\ n.start \in Nat /\ n.size \in Nat
      /\ n.contiguous \in BOOLEAN /\ n.dirty \in BOOLEAN /\ n.index \in Nat
      /\ n.cluster \in Nat
  BY <1>2
<1>5. /\ o.pc \in Pcs /\ o.f \in Files /\ o.then \in {"idle", "write", "free"}
      /\ o.size \in Nat /\ o.erase \in BOOLEAN /\ o.boundary \in Nat
      /\ o.offset \in Nat /\ o.len \in Nat /\ o.left \in Nat
      /\ o.cluster \in Nat /\ o.current \in Nat /\ o.given \in Nat
      /\ o.full \in BOOLEAN
  BY <1>3 DEF OpsOf
<1>6. Needed(n.size) \in Nat /\ Needed(o.size) \in Nat
  BY <1>4, <1>5, CountTyped
<1>7. node = [node EXCEPT ![f] = n]
  BY <1>0, <1>1
<1> QED BY ONLY <1>0, <1>1, <1>2, <1>3, <1>4, <1>5, <1>6, <1>7, Zenon DEF Typed

LEMMA PartsSame ==
    ASSUME NEW n, NEW o, NEW c, NEW d, NEW count, NEW size, NEW i
    PROVE  /\ fat' = fat => /\ Linked(n, c, count) => Linked(n, c, count)'
                            /\ Ended(n, c, count) => Ended(n, c, count)'
                            /\ NextCluster(n, i)' = NextCluster(n, i)
           /\ Pointed(n, c, count) => Pointed(n, c, count)'
           /\ stale' \subseteq stale => /\ Fresh(c, i) => Fresh(c, i)'
                                        /\ AllFresh(c, size) => AllFresh(c, size)'
           /\ Asked(n, o) => Asked(n, o)'
           /\ bmap' = bmap => (Remembered(n, o, c, d) => Remembered(n, o, c, d)')
<1>1. fat' = fat => NextCluster(n, i)' = NextCluster(n, i)
  BY DEF NextCluster, NextOn
<1>2. fat' = fat => (Linked(n, c, count) => Linked(n, c, count)')
  BY Zenon DEF Linked, NextCluster, NextOn
<1>3. fat' = fat => (Ended(n, c, count) => Ended(n, c, count)')
  BY Zenon DEF Ended
<1>4. Pointed(n, c, count) => Pointed(n, c, count)'
  BY Zenon DEF Pointed
<1>5. stale' \subseteq stale => /\ Fresh(c, i) => Fresh(c, i)'
                                /\ AllFresh(c, size) => AllFresh(c, size)'
  <2> SUFFICES ASSUME stale' \subseteq stale
               PROVE  /\ Fresh(c, i) => Fresh(c, i)'
                      /\ AllFresh(c, size) => AllFresh(c, size)'
    OBVIOUS
  <2>1. \A x : x \notin stale => x \notin stale'
    OBVIOUS
  <2> QED BY ONLY <2>1, Zenon DEF AllFresh, Fresh
<1>6. Asked(n, o) => Asked(n, o)'
  BY Zenon DEF Asked, Counts, Overflows, Needed
<1>7. bmap' = bmap => (Remembered(n, o, c, d) => Remembered(n, o, c, d)')
  BY Zenon DEF Remembered, Needed
<1> QED BY ONLY <1>1, <1>2, <1>3, <1>4, <1>5, <1>6, <1>7, Zenon

LEMMA LiesSame ==
    ASSUME Quiet, NEW n, NEW c, NEW d, Lies(n, c, d)
    PROVE  Lies(n, c, d)'
BY Zenon DEF Quiet, Lies, Whole, Linked, Ended, Pointed, AllFresh, Fresh, NextCluster, NextOn,
   Needed

LEMMA UnderSame ==
    ASSUME Quiet, NEW n, NEW o, NEW c, NEW d, Under(n, o, c, d)
    PROVE  Under(n, o, c, d)'
<1>1. fat' = fat /\ bmap' = bmap /\ stale' = stale
  BY DEF Quiet
<1>2. Starting(n, o, c, d) => Starting(n, o, c, d)'
  BY ONLY <1>1, Zenon DEF Starting, Whole, Linked, Ended, Pointed, AllFresh, Fresh, NextCluster,
     NextOn, Asked, Counts, Overflows, Needed
<1>3. Growing(n, o, c, d) => Growing(n, o, c, d)'
  BY ONLY <1>1, Zenon DEF Growing, Linked, Ended, AllFresh, Fresh, NextCluster,
     NextOn, Asked, Counts, Overflows, Remembered, Needed
<1>4. Grows(n, o, c, d) => Grows(n, o, c, d)'
  BY ONLY <1>3, Zenon DEF Grows
<1>5. Extends(n, o, c, d) => Extends(n, o, c, d)'
  BY ONLY <1>3, Zenon DEF Extends, Needed
<1>6. Shrinks(n, o, c, d) => Shrinks(n, o, c, d)'
  BY ONLY <1>1, Zenon DEF Shrinks, Kept, KeptSize, Linked, Pointed, AllFresh, Fresh, NextCluster,
     NextOn, Asked, Counts, Overflows, Remembered, Needed
<1>7. Freeing(n, o, c, d) => Freeing(n, o, c, d)'
  BY ONLY <1>1, Zenon DEF Freeing, Kept, KeptSize, Linked, Ended, Pointed, AllFresh, Fresh,
     NextCluster, NextOn, Asked, Counts, Overflows, Remembered, Needed
<1>8. Sizing(n, o, c, d) => Sizing(n, o, c, d)'
  BY ONLY <1>1, Zenon DEF Sizing, Linked, Ended, Pointed, NextCluster, NextOn, Asked, Counts, Overflows, Needed
<1>9. Erases(n, o, c, d) => Erases(n, o, c, d)'
  BY ONLY <1>1, <1>8, Zenon DEF Erases, AllFresh, Fresh, Least
<1>10. Erasing(n, o, c, d) => Erasing(n, o, c, d)'
  BY ONLY <1>1, <1>8, Zenon DEF Erasing, AllFresh, Fresh, Least
<1>11. Writes(n, o, c, d) => Writes(n, o, c, d)'
  BY ONLY <1>1, Zenon DEF Writes, Whole, Linked, Ended, Pointed, Fresh, NextCluster,
     NextOn, Needed
<1>12. Writing(n, o, c, d) => Writing(n, o, c, d)'
  BY ONLY <1>1, Zenon DEF Writing, Whole, Linked, Ended, Pointed, AllFresh, Fresh, NextCluster,
     NextOn, Needed
<1> QED BY ONLY Under(n, o, c, d), <1>2, <1>4, <1>5, <1>6, <1>7, <1>9, <1>10, <1>11, <1>12,
     Zenon DEF Under

LEMMA QuietAfter ==
    ASSUME Quiet, NEW f, NEW n2, NEW o2, NEW c, NEW d, Saved(n2, entry[f]),
           o2.pc \in Pcs, Under(n2, o2, c, d)
    PROVE  InCallAfter(f, n2, o2, c, d)
<1>1. Under(n2, o2, c, d)'
  BY UnderSame
<1>2. o2.pc \notin {"idle", "aborted"}
  BY DEF Pcs
<1> QED BY ONLY <1>1, <1>2, Saved(n2, entry[f]) DEF InCallAfter

\* A step of the call on a file that is not hurt, to where it is not at rest.
LEMMA QuietTo ==
    ASSUME Base, NEW ch, NEW D, NEW f, NEW c, NEW d, NEW n, NEW o,
           Now(ch, D, f, c, d, n, o),
           Quiet, clean' = clean, entry' = entry, hurt' = hurt, f \notin hurt,
           NEW n2, node' = [node EXCEPT ![f] = n2], NEW o2, o2 = op', o2.f = f,
           o2.pc \in Pcs, Saved(n2, entry[f]), Under(n2, o2, c, d)
    PROVE  Owns'
<1>1. InCallAfter(f, n2, o2, c, d)
  BY QuietAfter
<1>2. Goes(f, n2, o2)
  BY DEF Goes
<1> QED BY <1>1, <1>2, QuietStep DEF Quiet

\* ... to where exfat_truncate returns.
LEMMA QuietReturn ==
    ASSUME Base, NEW ch, NEW D, NEW f, NEW c, NEW d, NEW n, NEW o,
           Now(ch, D, f, c, d, n, o),
           Quiet, clean' = clean, entry' = entry, hurt' = hurt, f \notin hurt,
           NEW n2, node' = [node EXCEPT ![f] = n2], NEW ok, Return(ok),
           op.then = "free" => d = {}, op.then = "write" => ~ok,
           Saved(n2, entry[f]), Lies(n2, c, d)
    PROVE  Owns'
<1> PICK o2 : o2 = op'
  OBVIOUS
<1>0. Runs /\ f = op.f
  BY DEF Now
<1>1. Lies(n2, c, d)'
  BY LiesSame
<1>2. /\ InCallAfter(f, n2, o2, c, d)
      /\ o2.pc \notin {"idle", "aborted"} => o2.f = f
  BY <1>0, <1>1, ReturnLies
<1>3. Goes(f, n2, o2)
  BY <1>2 DEF Goes
<1> QED BY <1>2, <1>3, QuietStep DEF Quiet

\* ... on a file that is hurt, now or before.
LEMMA QuietHurt ==
    ASSUME Base, NEW ch, NEW D, NEW f, NEW c, NEW d, NEW n, NEW o,
           Now(ch, D, f, c, d, n, o),
           fat' = fat, bmap' = bmap, stale' \subseteq stale, clean' = clean, entry' = entry,
           f \in hurt', hurt \subseteq hurt', hurt' \subseteq hurt \cup {f},
           NEW n2, node' = [node EXCEPT ![f] = n2], NEW o2, o2 = op',
           o2.pc \notin {"idle", "aborted"} => o2.f = f /\ Hurt(n2, o2)
    PROVE  Owns'
<1>1. Goes(f, n2, o2)
  BY DEF Goes
<1>2. f \in hurt'
  OBVIOUS
<1> QED BY <1>1, <1>2, QuietStep

LEMMA BeginTruncateHeld ==
    ASSUME Base, NEW ch, NEW D, NEW f, NEW c, NEW d, NEW n, NEW o,
           Now(ch, D, f, c, d, n, o), BeginTruncate
    PROVE  Owns'
<1> PICK o2 : o2 = op'
  OBVIOUS
<1>1. Known(f, c, d, n, o)
  BY NowIs
<1>2. Typed(f, n, o)
  BY TypedNow
<1>3. /\ o.pc = "truncate" /\ Quiet /\ hurt' = hurt
      /\ clean' = clean /\ entry' = entry /\ node' = [node EXCEPT ![f] = n]
  BY <1>2 DEF BeginTruncate, medium, memory, history, Quiet, Typed
<1> PICK c1, c2 : c1 = Needed(n.size) /\ c2 = Needed(o.size)
  OBVIOUS
<1>a. c1 \in Nat /\ c2 \in Nat /\ n.size \in Nat /\ o.size \in Nat
  BY <1>2 DEF Typed
<1>4. f \notin hurt
  BY <1>1, <1>3 DEF Hurt, Known
<1>5. Whole(n, c, d) /\ AllFresh(c, n.size) /\ Asked(n, o) /\ ~o.full
  BY <1>1, <1>3, <1>4 DEF Under, Starting, Known
<1>b. bytes2clusters(n.size) = c1 /\ bytes2clusters(o.size) = c2
  <2>1. c1 < UINT32
    BY <1>1, <1>4, <1>5, <1>a, ChainFits DEF Whole, Known
  <2>2. ~Overflows(o.size)
    BY <1>5 DEF Asked, Counts
  <2> QED BY ONLY <1>a, <2>1, <2>2, c1 = Needed(n.size), c2 = Needed(o.size), Uncut, WordSize
          DEF bytes2clusters, Overflows
<1>6. /\ d = 0 .. c1 - 1 /\ Linked(n, c, c1) /\ Ended(n, c, c1) /\ Pointed(n, c, c1)
  BY <1>5 DEF Whole
<1>7. CASE n.size = o.size
  <2>1. Return(TRUE)
    BY <1>2, <1>7, <1>b DEF BeginTruncate, Typed
  <2>2. Lies(n, c, d)
    BY <1>2, <1>5, LiesIs DEF Typed
  <2>3. o.then = "free" => d = {}
    <3>1. o.then = "free" => c1 = 0
      BY <1>2, <1>5, <1>7, ClusterCount DEF Asked, Typed
    <3> QED BY <3>1, <1>6
  <2>4. o.then # "write"
    BY <1>2, <1>5, <1>7 DEF Asked, Typed
  <2> QED BY <1>1, <1>3, <1>4, <1>2, <2>1, <2>2, <2>3, <2>4, QuietReturn DEF Known, Typed
<1>8. CASE n.size # o.size
  <2>1. o2 = [o EXCEPT !.pc = Sized(c1, c2), !.current = c1,
                       !.left = IF c1 < c2 THEN c2 - c1 ELSE c1 - c2,
                       !.given = 0,
                       !.before = [used |-> bmap, chain |-> ChainOf(n, c1)]]
    BY <1>2, <1>8, <1>b DEF BeginTruncate, Typed
  <2> PICK left, before : /\ left = IF c1 < c2 THEN c2 - c1 ELSE c1 - c2
                          /\ before = [used |-> bmap, chain |-> ChainOf(n, c1)]
    OBVIOUS
  <2>2. /\ o2.pc = Sized(c1, c2) /\ o2.current = c1 /\ o2.left = left /\ o2.given = 0
        /\ o2.before = before /\ o2.f = f /\ o2.then = o.then /\ o2.size = o.size
        /\ o2.erase = o.erase /\ o2.offset = o.offset /\ o2.len = o.len /\ o2.full = o.full
    <3>1. o2 = [o EXCEPT !.pc = Sized(c1, c2), !.current = c1, !.left = left,
                         !.given = 0, !.before = before]
      BY <2>1
    <3> QED BY ONLY <3>1, <1>2 DEF OpsOf, Typed
  <2>3. o2.pc = (IF c1 < c2 THEN "grow" ELSE IF c1 > c2 THEN "shrink" ELSE "erase")
    BY <2>2 DEF Sized
  <2>4. Asked(n, o2) /\ ~o2.full
    BY ONLY <2>2, <1>5, Zenon DEF Asked, Counts
  <2>5. ASSUME c1 < c2 PROVE Under(n, o2, c, d) /\ o2.pc \in Pcs
    <3>1. n.size < o.size
      <4>1. o.size <= n.size => c2 <= c1
        BY <1>2, CountGrows DEF Typed
      <4> QED BY ONLY <4>1, <1>2, <2>5, c1 = Needed(n.size),
         c2 = Needed(o.size) DEF Typed
    <3>2. Remembered(n, o2, c, c1 .. c1 - 1)
      <4>1. c1 .. c1 - 1 = {}
        BY <1>2 DEF Typed
      <4>2. before.used = bmap /\ before.chain = ChainOf(n, c1)
        OBVIOUS
      <4>3. {c[j] : j \in {}} = {}
        OBVIOUS
      <4>4. /\ ChainOf(n, c1) \in [0 .. c1 - 1 -> Nat]
            /\ \A j \in 0 .. c1 - 1 : ChainOf(n, c1)[j] = c[j]
        <5>1. ChainOf(n, c1) \in [0 .. c1 - 1 -> Nat]
          BY <1>2, <1>a, ChainOfIs DEF Typed
        <5>2. \A j \in 0 .. c1 - 1 : ChainOf(n, c1)[j] = c[j]
          <6>1. fat \in [Clusters -> Nat] /\ n.start \in Nat /\ c1 \in Nat /\ Linked(n, c, c1)
            BY ONLY <1>2, <1>a, <1>6 DEF Typed
          <6> QED BY ONLY <6>1, ChainOfLinked, Zenon
        <5> QED BY <5>1, <5>2
      <4>5. bmap \ {c[j] : j \in c1 .. c1 - 1} = bmap
        BY <4>1, <4>3
      <4> QED BY ONLY <4>1, <4>2, <4>4, <4>5, <2>2, c1 = Needed(n.size), Zenon DEF Remembered
    <3>3. c1 + 0 = c1 /\ c1 + left = c2 /\ left > 0
      BY ONLY <1>a, <2>5, left = IF c1 < c2 THEN c2 - c1 ELSE c1 - c2
    <3>4. /\ n.index = 0 \/ n.index < c1
          /\ c1 > 0 => n.cluster = c[n.index]
      BY <1>6 DEF Pointed
    <3>5. Growing(n, o2, c, d)
      <4>1. o2.given = 0 /\ o2.current = c1 /\ o2.size = o.size /\ o2.left = left
        BY <2>2
      <4>2. c1 + o2.given = c1
        BY <4>1, <3>3
      <4> PICK k : k = c1 + o2.given
        OBVIOUS
      <4>3. k = c1
        BY <4>2
      <4>4. /\ k + o2.left = Needed(o2.size)
            /\ d = 0 .. k - 1 /\ Linked(n, c, k)
            /\ o2.given = 0 => Ended(n, c, k)
            /\ k > 0 => n.cluster = c[n.index]
            /\ Remembered(n, o2, c, c1 .. k - 1)
            /\ n.size < o2.size
        BY <4>3, <4>1, <3>1, <3>2, <3>3, <3>4, <1>6
      <4> QED BY ONLY <4>4, <4>1, <2>4, <3>4, <1>5, c1 = Needed(n.size), k = c1 + o2.given,
              Zenon DEF Growing
    <3>6. Grows(n, o2, c, d)
      BY <3>5, <3>3, <2>2 DEF Grows
    <3>7. o2.pc = "grow"
      BY <2>3, <2>5
    <3> QED BY ONLY <3>6, <3>7, Zenon DEF Under, Pcs
  <2>6. ASSUME c1 > c2 PROVE Under(n, o2, c, d) /\ o2.pc \in Pcs
    <3>1. n.size > o.size
      <4>1. n.size <= o.size => c1 <= c2
        BY <1>2, CountGrows DEF Typed
      <4> QED BY ONLY <4>1, <1>a, <2>6
    <3>2. Shrinks(n, o2, c, d)
      <4>1. Kept(n, o2) = c2
        BY <2>2, <2>4 DEF Kept, KeptSize
      <4>2. o2.left > 0 /\ o2.current = c2 + o2.left /\ o2.current = c1
        BY ONLY <2>2, <2>6, <1>2, left = IF c1 < c2 THEN c2 - c1 ELSE c1 - c2,
                c1 = Needed(n.size), c2 = Needed(o.size) DEF Typed
      <4>3. ~o2.full /\ n.size > o2.size
        BY <2>2, <2>4, <3>1
      <4> QED BY ONLY <4>1, <4>2, <4>3, <2>4, <1>5, <1>6, Zenon DEF Shrinks
    <3>3. o2.pc = "shrink"
      BY ONLY <2>3, <2>6, <1>a
    <3> QED BY ONLY <3>2, <3>3, Zenon DEF Under, Pcs
  <2>7. ASSUME c1 = c2 PROVE Under(n, o2, c, d) /\ o2.pc \in Pcs
    <3>1. Erases(n, o2, c, d)
      <4>1. Sizing(n, o2, c, d)
        <5>1. c1 = Needed(o2.size)
          BY <2>2, <2>7
        <5> QED BY ONLY <5>1, <2>4, <1>6, Zenon DEF Sizing
      <4>2. AllFresh(c, Least(n.size, o2.size))
        <5>1. \A i \in 0 .. n.size - 1 : Fresh(c, i)
          BY <1>5 DEF AllFresh
        <5>2. Least(n.size, o.size) \in Nat /\ Least(n.size, o.size) <= n.size
          BY <1>2 DEF Least, Typed
        <5>3. \A i \in 0 .. Least(n.size, o.size) - 1 : Fresh(c, i)
          BY ONLY <5>1, <5>2, <1>2 DEF Typed
        <5> QED BY <5>3, <2>2 DEF AllFresh
      <4> QED BY <4>1, <4>2 DEF Erases
    <3>2. o2.pc = "erase"
      BY ONLY <2>3, <2>7, <1>a
    <3> QED BY ONLY <3>1, <3>2, Zenon DEF Under, Pcs
  <2>8. Under(n, o2, c, d) /\ o2.pc \in Pcs
    BY ONLY <2>5, <2>6, <2>7, <1>a
  <2> QED BY <1>1, <1>3, <1>4, <2>2, <2>8, QuietTo DEF Known
<1> QED BY <1>7, <1>8

LEMMA AlikeHolds ==
    ASSUME NEW n, NEW n2, Alike(n, n2), NEW c, NEW count, NEW o, NEW i, NEW e
    PROVE  /\ Linked(n, c, count) => Linked(n2, c, count)
           /\ Ended(n, c, count) => Ended(n2, c, count)
           /\ Asked(n, o) => Asked(n2, o)
           /\ Remembered(n, o, c, i) => Remembered(n2, o, c, i)
           /\ Saved(n, e) => Saved(n2, e)
           /\ AllFresh(c, n.size) => AllFresh(c, n2.size)
<1>1. /\ n2.state = n.state /\ n2.start = n.start /\ n2.size = n.size
      /\ n2.contiguous = n.contiguous /\ n2.dirty = n.dirty
  BY DEF Alike
<1>2. Linked(n, c, count) => Linked(n2, c, count)
  BY ONLY <1>1, Zenon DEF Linked, NextCluster, NextOn
<1>3. Ended(n, c, count) => Ended(n2, c, count)
  BY ONLY <1>1, Zenon DEF Ended
<1>4. Asked(n, o) => Asked(n2, o)
  BY ONLY <1>1, Zenon DEF Asked, Counts
<1>5. Remembered(n, o, c, i) => Remembered(n2, o, c, i)
  BY ONLY <1>1, Zenon DEF Remembered
<1>6. Saved(n, e) => Saved(n2, e)
  BY ONLY <1>1, Zenon DEF Saved, InfoOf
<1>7. AllFresh(c, n.size) => AllFresh(c, n2.size)
  BY ONLY <1>1, Zenon
<1> QED BY ONLY <1>2, <1>3, <1>4, <1>5, <1>6, <1>7, Zenon

\* exfat_advance_cluster in a chain: if no read fails it comes to its place k.
LEMMA AdvancedLinked ==
    ASSUME fat \in [Clusters -> Nat], NEW n \in Nodes, n # NoNode, NEW c,
           NEW count \in Nat, NEW k \in 0 .. count - 1,
           Linked(n, c, count), Pointed(n, c, count),
           \A i \in 0 .. count - 1 : c[i] \in Clusters,
           NEW a \in Advanced(n, k)
    PROVE  /\ a.failed \in BOOLEAN /\ (a.failed => CanFault(0))
           /\ a.node \in Nodes /\ a.node # NoNode /\ Alike(n, a.node)
           /\ a.node.index = k
           /\ ~a.failed => a.node.cluster = c[k] /\ ~CLUSTER_INVALID(a.node.cluster)
           /\ a.failed => CLUSTER_INVALID(a.node.cluster)
<1>0. k \in Nat
  OBVIOUS
<1>1. /\ a.failed \in BOOLEAN /\ (a.failed => CanFault(0))
      /\ a.node \in Nodes /\ a.node # NoNode
      /\ a.node.state = n.state /\ a.node.start = n.start /\ a.node.size = n.size
      /\ a.node.contiguous = n.contiguous /\ a.node.dirty = n.dirty
      /\ a.node.index = k
      /\ a.node.cluster = IF a.failed THEN EXFAT_CLUSTER_BAD ELSE Walk(n, k)[k]
  BY <1>0, AdvancedAre
<1>2. Walk(n, k)[k] = c[k]
  BY WalkLinked
<1>3. c[k] \in Clusters
  OBVIOUS
<1>4. ~CLUSTER_INVALID(c[k]) /\ CLUSTER_INVALID(EXFAT_CLUSTER_BAD)
  BY <1>3, ClusterNumbers
<1> QED BY ONLY <1>1, <1>2, <1>4, Zenon DEF Alike

LEMMA GrowFileHeld ==
    ASSUME Base, NEW ch, NEW D, NEW f, NEW c, NEW d, NEW n, NEW o,
           Now(ch, D, f, c, d, n, o), GrowFile
    PROVE  Owns'
<1> PICK o2 : o2 = op'
  OBVIOUS
<1>1. Known(f, c, d, n, o)
  BY NowIs
<1>2. Typed(f, n, o)
  BY TypedNow
<1>3. /\ o.pc = "grow" /\ n.start # EXFAT_CLUSTER_FREE
      /\ fat' = fat /\ bmap' = bmap /\ stale' = stale /\ clean' = clean /\ entry' = entry
      /\ Quiet
  BY <1>2 DEF GrowFile, medium, Quiet, Typed
<1>4. f \notin hurt
  BY <1>1, <1>3 DEF Hurt, Known
<1> PICK c1 : c1 = Needed(n.size)
  OBVIOUS
<1>5. Growing(n, o, c, d) /\ o.given = 0 /\ o.left > 0
  BY <1>1, <1>3, <1>4 DEF Under, Grows, Known
<1> PICK count : count = c1 + o.given
  OBVIOUS
<1>6. /\ Asked(n, o) /\ ~o.full /\ o.current = c1
      /\ n.size < o.size /\ count + o.left = Needed(o.size)
      /\ d = 0 .. count - 1 /\ Linked(n, c, count)
      /\ Ended(n, c, count)
      /\ n.index = 0 \/ n.index < c1
      /\ count > 0 => n.cluster = c[n.index]
      /\ AllFresh(c, n.size)
      /\ Remembered(n, o, c, c1 .. count - 1)
  BY ONLY <1>5, c1 = Needed(n.size), count = c1 + o.given, Zenon DEF Growing
<1>7. count = c1 /\ c1 \in Nat /\ o.left \in Nat
  BY ONLY <1>2, <1>5, c1 = Needed(n.size), count = c1 + o.given DEF Typed
<1>8. c1 > 0
  BY <1>3, <1>6, <1>7 DEF Linked
<1>9. Before(o.current) = c1 - 1 /\ c1 - 1 \in 0 .. c1 - 1
  BY <1>6, <1>7, <1>8 DEF Before
<1>10. PICK a \in Advanced(n, c1 - 1) :
         /\ node' = [node EXCEPT ![f] = a.node]
         /\ IF CLUSTER_INVALID(a.node.cluster) THEN Return(FALSE)
            ELSE o2 = [o EXCEPT !.pc = "growing", !.cluster = a.node.cluster]
         /\ Failed(f, Count(a.failed))
  BY <1>2, <1>9 DEF GrowFile, SetFile, Typed
<1>11. /\ a.failed \in BOOLEAN /\ (a.failed => CanFault(0))
       /\ a.node \in Nodes /\ a.node # NoNode /\ Alike(n, a.node)
       /\ a.node.index = c1 - 1
       /\ ~a.failed => a.node.cluster = c[c1 - 1] /\ ~CLUSTER_INVALID(a.node.cluster)
       /\ a.failed => CLUSTER_INVALID(a.node.cluster)
  <2>1. Linked(n, c, c1) /\ Pointed(n, c, c1)
    BY <1>6, <1>7 DEF Pointed
  <2>2. \A i \in 0 .. c1 - 1 : c[i] \in Clusters
    BY <1>1, <1>4, <1>6, <1>7 DEF Known
  <2> QED BY <2>1, <2>2, <1>2, <1>7, <1>9, AdvancedLinked DEF Typed
<1>12. /\ ~a.failed => hurt' = hurt
       /\ a.failed => hurt' = hurt \cup {f}
  BY <1>2, <1>10, <1>11, CountedOne DEF Typed
<1>13. CASE a.failed
  <2>1. Return(FALSE)
    BY <1>10, <1>11, <1>13
  <2>2. o2.pc \notin {"idle", "aborted"} => o2.f = f /\ Hurt(a.node, o2)
    BY <1>2, <2>1, ReturnHurts DEF Typed
  <2>3. f \in hurt' /\ hurt \subseteq hurt' /\ hurt' \subseteq hurt \cup {f}
    BY <1>12, <1>13
  <2> QED BY <1>3, <1>10, <2>2, <2>3, QuietHurt
<1>14. CASE ~a.failed
  <2> PICK n2, last : n2 = a.node /\ last = c[c1 - 1]
    OBVIOUS
  <2>1. o2 = [o EXCEPT !.pc = "growing", !.cluster = last] /\ n2.cluster = last
        /\ n2.index = c1 - 1 /\ Alike(n, n2)
    BY <1>10, <1>11, <1>14
  <2>2. /\ o2.pc = "growing" /\ o2.cluster = last /\ o2.f = f /\ o2.then = o.then
        /\ o2.size = o.size /\ o2.erase = o.erase /\ o2.offset = o.offset /\ o2.len = o.len
        /\ o2.full = o.full /\ o2.current = o.current /\ o2.left = o.left /\ o2.given = o.given
        /\ o2.before = o.before
    BY ONLY <1>2, <2>1 DEF OpsOf, Typed
  <2>3. /\ Linked(n2, c, count) /\ Ended(n2, c, count) /\ Asked(n2, o)
        /\ Remembered(n2, o, c, c1 .. count - 1) /\ Saved(n2, entry[f]) /\ AllFresh(c, n2.size)
        /\ n2.size = n.size
    <3>1. Saved(n, entry[f])
      BY <1>1, <1>4 DEF Known
    <3>2. n2.size = n.size
      BY <2>1 DEF Alike
    <3>3. /\ Linked(n, c, count) => Linked(n2, c, count)
          /\ Ended(n, c, count) => Ended(n2, c, count)
          /\ Asked(n, o) => Asked(n2, o)
          /\ Remembered(n, o, c, c1 .. count - 1) => Remembered(n2, o, c, c1 .. count - 1)
          /\ Saved(n, entry[f]) => Saved(n2, entry[f])
          /\ AllFresh(c, n.size) => AllFresh(c, n2.size)
      BY ONLY <2>1, AlikeHolds, SMTT(30)
    <3> QED BY ONLY <3>1, <3>2, <3>3, <1>6, Zenon
  <2>4. Asked(n2, o2) /\ Remembered(n2, o2, c, c1 .. count - 1)
    BY ONLY <2>2, <2>3, Zenon DEF Asked, Counts, Remembered
  <2>5. n2.index < c1 /\ n2.cluster = c[n2.index] /\ count - 1 = c1 - 1 /\ count > 0
    BY <2>1, <1>7, <1>8
  <2>6. Growing(n2, o2, c, d)
    <3>1. c1 = Needed(n2.size) /\ count = c1 + o2.given
      BY <2>2, <2>3
    <3> QED BY ONLY <3>1, <2>2, <2>3, <2>4, <2>5, <1>6, Zenon DEF Growing
  <2>7. Extends(n2, o2, c, d)
    <3>1. count = Needed(n2.size) + o2.given
      BY <2>2, <2>3
    <3>2. count > 0 /\ o2.cluster = c[count - 1]
      BY <2>2, <2>5
    <3> QED BY ONLY <3>1, <3>2, <2>6, Zenon DEF Extends
  <2>8. Under(n2, o2, c, d) /\ o2.pc \in Pcs
    BY ONLY <2>2, <2>7, Zenon DEF Under, Pcs
  <2> QED BY <1>3, <1>4, <1>10, <1>12, <1>14, <2>2, <2>3, <2>8, QuietTo
<1> QED BY <1>11, <1>13, <1>14

LEMMA GrowsNow ==
    ASSUME Base, NEW ch, NEW D, NEW f, NEW c, NEW d, NEW n, NEW o,
           Now(ch, D, f, c, d, n, o),
           o.pc = "grow", NEW c1, c1 = Needed(n.size)
    PROVE  /\ f \notin hurt /\ o.given = 0 /\ o.left > 0
           /\ Asked(n, o) /\ ~o.full /\ o.current = c1 /\ c1 \in Nat /\ o.left \in Nat
           /\ n.size < o.size /\ c1 + o.left = Needed(o.size)
           /\ d = 0 .. c1 - 1 /\ Linked(n, c, c1) /\ Ended(n, c, c1)
           /\ n.index = 0 \/ n.index < c1
           /\ c1 > 0 => n.cluster = c[n.index]
           /\ AllFresh(c, n.size)
           /\ Remembered(n, o, c, c1 .. c1 - 1)
           /\ c1 > 0 <=> n.start # EXFAT_CLUSTER_FREE
<1>1. Known(f, c, d, n, o)
  BY NowIs
<1>2. Typed(f, n, o)
  BY TypedNow
<1>4. f \notin hurt
  BY <1>1 DEF Hurt, Known
<1>5. Growing(n, o, c, d) /\ o.given = 0 /\ o.left > 0
  BY <1>1, <1>4 DEF Under, Grows, Known
<1> PICK count : count = c1 + o.given
  OBVIOUS
<1>6. /\ Asked(n, o) /\ ~o.full /\ o.current = c1
      /\ n.size < o.size /\ count + o.left = Needed(o.size)
      /\ d = 0 .. count - 1 /\ Linked(n, c, count)
      /\ Ended(n, c, count)
      /\ n.index = 0 \/ n.index < c1
      /\ count > 0 => n.cluster = c[n.index]
      /\ AllFresh(c, n.size)
      /\ Remembered(n, o, c, c1 .. count - 1)
  BY ONLY <1>5, c1 = Needed(n.size), count = c1 + o.given, Zenon DEF Growing
<1>7. count = c1 /\ c1 \in Nat /\ o.left \in Nat
  BY ONLY <1>2, <1>5, c1 = Needed(n.size), count = c1 + o.given DEF Typed
<1>8. c1 > 0 <=> n.start # EXFAT_CLUSTER_FREE
  <2>1. n.start = (IF c1 = 0 THEN EXFAT_CLUSTER_FREE ELSE c[0])
    BY <1>6, <1>7 DEF Linked
  <2>2. c1 > 0 => c[0] \in Clusters
    <3>1. c1 > 0 => 0 \in d
      BY <1>6, <1>7
    <3> QED BY <3>1, <1>1, <1>4 DEF Known
  <2>3. c1 > 0 => c[0] # EXFAT_CLUSTER_FREE
    BY <2>2, ClusterNumbers
  <2>4. c1 # 0 <=> c1 > 0
    BY <1>7
  <2> QED BY ONLY <2>1, <2>3, <2>4, Zenon
<1>9. /\ c1 + o.left = Needed(o.size)
      /\ d = 0 .. c1 - 1 /\ Linked(n, c, c1) /\ Ended(n, c, c1)
      /\ c1 > 0 => n.cluster = c[n.index]
      /\ Remembered(n, o, c, c1 .. c1 - 1)
  BY <1>6, <1>7
<1> QED BY ONLY <1>4, <1>5, <1>6, <1>7, <1>8, <1>9, Zenon

LEMMA GrowNotHeld ==
    ASSUME Base, NEW ch, NEW D, NEW f, NEW c, NEW d, NEW n, NEW o,
           Now(ch, D, f, c, d, n, o), GrowNot
    PROVE  FALSE
<1>2. Typed(f, n, o)
  BY TypedNow
<1> PICK c1 : c1 = Needed(n.size)
  OBVIOUS
<1>3. o.pc = "grow" /\ n.start = EXFAT_CLUSTER_FREE /\ n.index # 0
  BY <1>2 DEF GrowNot, Typed
<1>4. /\ c1 \in Nat
      /\ n.index = 0 \/ n.index < c1
      /\ c1 > 0 <=> n.start # EXFAT_CLUSTER_FREE
  BY <1>3, GrowsNow
<1>5. n.index \in Nat
  BY <1>2 DEF Typed
<1> QED BY ONLY <1>3, <1>4, <1>5

LEMMA GrowEmptyHeld ==
    ASSUME Base, NEW ch, NEW D, NEW f, NEW c, NEW d, NEW n, NEW o,
           Now(ch, D, f, c, d, n, o), GrowEmpty
    PROVE  Owns'
<1> PICK o2 : o2 = op'
  OBVIOUS
<1>1. Known(f, c, d, n, o)
  BY NowIs
<1>2. Typed(f, n, o)
  BY TypedNow
<1>3. /\ o.pc = "grow" /\ n.start = EXFAT_CLUSTER_FREE /\ n.index = 0
      /\ fat' = fat /\ stale' = stale /\ clean' = clean /\ entry' = entry
      /\ hurt' = hurt
  BY <1>2 DEF GrowEmpty, medium, history, Typed
<1> PICK c1 : c1 = Needed(n.size)
  OBVIOUS
<1>4. /\ f \notin hurt /\ o.given = 0 /\ o.left > 0
      /\ Asked(n, o) /\ ~o.full /\ o.current = c1 /\ c1 \in Nat /\ o.left \in Nat
      /\ n.size < o.size /\ c1 + o.left = Needed(o.size)
      /\ d = 0 .. c1 - 1 /\ Linked(n, c, c1) /\ Ended(n, c, c1)
      /\ n.index = 0 \/ n.index < c1
      /\ c1 > 0 => n.cluster = c[n.index]
      /\ AllFresh(c, n.size)
      /\ Remembered(n, o, c, c1 .. c1 - 1)
      /\ c1 > 0 <=> n.start # EXFAT_CLUSTER_FREE
  BY ONLY Base, Now(ch, D, f, c, d, n, o), <1>3, c1 = Needed(n.size), GrowsNow
<1>5. c1 = 0 /\ d = {}
  BY <1>3, <1>4
<1>6. n.size = 0
  BY <1>2, <1>5, ClusterCount DEF Typed
<1> PICK first : first = Found(0)
  OBVIOUS
<1>7. CASE CLUSTER_INVALID(first)
  <2>1. Return(FALSE) /\ UNCHANGED memory
    BY <1>7 DEF GrowEmpty
  <2>2. Quiet /\ node' = [node EXCEPT ![f] = n]
    BY <1>2, <1>3, <2>1 DEF Quiet, memory, Typed
  <2>3. Whole(n, c, d)
    <3>1. Pointed(n, c, c1)
      BY <1>3, <1>5 DEF Pointed
    <3> QED BY ONLY <3>1, <1>4, c1 = Needed(n.size), Zenon DEF Whole
  <2>4. Lies(n, c, d)
    BY <1>2, <1>4, <2>3, LiesIs DEF Typed
  <2> QED BY <1>1, <1>3, <1>4, <1>5, <2>1, <2>2, <2>4, QuietReturn DEF Known
<1>8. CASE ~CLUSTER_INVALID(first)
  <2>1. first \in Clusters /\ first \in Bits /\ first \notin bmap /\ first \in Nat
    BY <1>8, FoundIsFree
  <2> PICK n2, c2, d2 : /\ n2 = [n EXCEPT !.start = first, !.cluster = first, !.contiguous = TRUE]
                        /\ c2 = [c EXCEPT ![0] = first] /\ d2 = {0}
    OBVIOUS
  <2>2. /\ bmap' = bmap \cup {first} /\ node' = [node EXCEPT ![f] = n2]
        /\ o2 = [o EXCEPT !.pc = "growing", !.cluster = first, !.left = @ - 1, !.given = 1]
    BY <1>2, <1>8 DEF GrowEmpty, SetFile, Typed
  <2> PICK left : left = o.left - 1
    OBVIOUS
  <2>3. /\ o2.pc = "growing" /\ o2.cluster = first /\ o2.f = f /\ o2.then = o.then
        /\ o2.size = o.size /\ o2.erase = o.erase /\ o2.offset = o.offset /\ o2.len = o.len
        /\ o2.full = o.full /\ o2.current = o.current /\ o2.left = left /\ o2.given = 1
        /\ o2.before = o.before
    <3>1. o2 = [o EXCEPT !.pc = "growing", !.cluster = first, !.left = left, !.given = 1]
      BY <1>2, <2>2 DEF OpsOf, Typed
    <3> QED BY ONLY <3>1, <1>2 DEF OpsOf, Typed
  <2>4. /\ n2.state = n.state /\ n2.size = n.size /\ n2.dirty = n.dirty /\ n2.index = 0
        /\ n2.start = first /\ n2.cluster = first
    BY ONLY <1>2, <1>3, n2 = [n EXCEPT !.start = first, !.cluster = first,
       !.contiguous = TRUE] DEF Typed
  <2>5. c2 \in [Nat -> Nat] /\ c2[0] = first /\ d2 \in SUBSET Nat
    BY <1>1, <2>1 DEF Known
  <2>6. Own(ch, D, f) = {}
    BY <1>4, <1>5 DEF Own, Places, Now
  <2>7. Clears(Own(ch, D, f))
    BY <1>3, <2>2 DEF Clears, Untouched
  <2>8. Ours(f, {}, c2, d2)
    BY <1>1, <2>1, <2>2, <2>5 DEF Ours, Known
  <2>9. Goes(f, n2, o2)
    BY <1>3, <1>4, <2>2, <2>3 DEF Goes
  <2>10. Extends(n2, o2, c2, d2)'
    <3>1. Asked(n2, o2)'
      BY ONLY <1>4, <2>3, <2>4, Zenon DEF Asked, Counts, Overflows, Needed
    <3>2. AllFresh(c2, n2.size)'
      BY <1>6, <2>4 DEF AllFresh
    <3>3. Linked(n2, c2, 1)'
      BY <2>4, <2>5 DEF Linked
    <3>4. Remembered(n2, o2, c2, 0 .. 0)'
      <4>1. o.before.used = bmap /\ o.before.chain \in [0 .. c1 - 1 -> Nat]
        <5>1. c1 .. c1 - 1 = {} /\ {c[j] : j \in {}} = {}
          BY <1>5
        <5> QED BY <1>4, <5>1 DEF Remembered
      <4>2. {c2[j] : j \in 0 .. 0} = {first}
        BY <2>5
      <4>3. bmap' \ {first} = bmap
        BY <2>1, <2>2
      <4>4. Needed(n2.size) = c1 /\ 0 .. c1 - 1 = {}
        <5>1. 0 .. c1 - 1 = {}
          BY <1>5
        <5> QED BY <5>1, <2>4
      <4>5. o2.before.used = bmap' \ {c2[j] : j \in 0 .. 0} /\ \A j \in 0 .. 0 : c2[j] \in Bits
        BY <4>1, <4>2, <4>3, <2>3, <2>1, <2>5
      <4>6. o2.before.chain \in [0 .. Needed(n2.size) - 1 -> Nat]
        BY <4>1, <4>4, <2>3
      <4>7. \A j \in 0 .. Needed(n2.size) - 1 : o2.before.chain[j] = c2[j]
        BY <4>4
      <4> QED BY ONLY <4>5, <4>6, <4>7, Zenon DEF Remembered, Needed
    <3> PICK k : k = c1 + o2.given
      OBVIOUS
    <3>5. k = 1 /\ k - 1 = 0 /\ left \in Nat /\ 1 + left = Needed(o2.size)
      BY <1>4, <1>5, <2>3
    <3>6. /\ c1 = Needed(n2.size)
          /\ n2.size < o2.size /\ k + o2.left = Needed(o2.size)
          /\ d2 = 0 .. k - 1
          /\ n2.cluster = c2[n2.index]
          /\ o2.current = c1 /\ ~o2.full /\ o2.given # 0
      <4>1. d2 = 0 .. 0
        OBVIOUS
      <4> QED BY <1>4, <2>3, <2>4, <2>5, <3>5, <4>1
    <3>7. Linked(n2, c2, k)' /\ Remembered(n2, o2, c2, c1 .. k - 1)'
      BY <3>3, <3>4, <3>5, <1>5
    <3>8. Growing(n2, o2, c2, d2)'
      BY ONLY <3>1, <3>2, <3>6, <3>7, <2>4, k = c1 + o2.given, Zenon
         DEF Growing, Needed
    <3>9. k > 0 /\ o2.cluster = c2[k - 1]
      BY <2>3, <2>5, <3>5
    <3> QED BY ONLY <3>6, <3>8, <3>9, k = c1 + o2.given, Zenon DEF Extends, Needed
  <2>11. Under(n2, o2, c2, d2)'
    BY ONLY <2>3, <2>10, Zenon DEF Under
  <2>12. Saved(n2, entry[f])
    BY <1>6, <2>1, <2>4, ClusterNumbers DEF Saved
  <2>13. InCallAfter(f, n2, o2, c2, d2)
    BY ONLY <2>3, <2>11, <2>12, Zenon DEF InCallAfter
  <2>14. f \notin hurt' => Ours(f, Own(ch, D, f), c2, d2)
    BY <2>6, <2>8
  <2> PICK own : own = Own(ch, D, f)
    OBVIOUS
  <2>15. Clears(own) /\ (f \notin hurt' => Ours(f, own, c2, d2))
    BY <2>7, <2>14
  <2> QED BY ONLY Base, Now(ch, D, f, c, d, n, o), own = Own(ch, D, f),
          <2>15, <2>5, <2>9, <2>13, NowStep
<1> QED BY <1>7, <1>8

LEMMA ExtendsNow ==
    ASSUME Base, NEW ch, NEW D, NEW f, NEW c, NEW d, NEW n, NEW o,
           Now(ch, D, f, c, d, n, o),
           o.pc = "growing", NEW c1, c1 = Needed(n.size), NEW count, count = c1 + o.given
    PROVE  /\ f \notin hurt /\ c1 \in Nat /\ count \in Nat /\ count > 0 /\ c1 <= count
           /\ o.cluster = c[count - 1] /\ o.cluster \in Clusters /\ o.left \in Nat /\ o.given \in Nat
           /\ Asked(n, o) /\ ~o.full /\ o.current = c1
           /\ n.size < o.size /\ count + o.left = Needed(o.size)
           /\ d = 0 .. count - 1 /\ Linked(n, c, count)
           /\ o.given = 0 => Ended(n, c, count)
           /\ n.index = 0 \/ n.index < c1
           /\ n.cluster = c[n.index]
           /\ AllFresh(c, n.size)
           /\ Remembered(n, o, c, c1 .. count - 1)
           /\ n.start = c[0]
           /\ \A i \in 0 .. count - 1 : c[i] \in Clusters
<1>1. Known(f, c, d, n, o)
  BY NowIs
<1>2. Typed(f, n, o)
  BY TypedNow
<1>4. f \notin hurt
  BY <1>1 DEF Hurt, Known
<1>5. Growing(n, o, c, d) /\ count > 0 /\ o.cluster = c[count - 1]
  BY <1>1, <1>4 DEF Under, Extends, Known
<1>6. /\ Asked(n, o) /\ ~o.full /\ o.current = c1
      /\ n.size < o.size /\ count + o.left = Needed(o.size)
      /\ d = 0 .. count - 1 /\ Linked(n, c, count)
      /\ o.given = 0 => Ended(n, c, count)
      /\ n.index = 0 \/ n.index < c1
      /\ count > 0 => n.cluster = c[n.index]
      /\ AllFresh(c, n.size)
      /\ Remembered(n, o, c, c1 .. count - 1)
  BY ONLY <1>5, c1 = Needed(n.size), count = c1 + o.given, Zenon DEF Growing
<1>7. count \in Nat /\ c1 \in Nat /\ c1 <= count /\ o.left \in Nat /\ o.given \in Nat
  <2>1. c1 \in Nat /\ o.given \in Nat /\ o.left \in Nat
    BY <1>2 DEF Typed
  <2> QED BY ONLY <2>1, count = c1 + o.given
<1>8. n.start = c[0]
  BY <1>5, <1>6 DEF Linked
<1>9. \A i \in 0 .. count - 1 : c[i] \in Clusters
  BY <1>1, <1>4, <1>6 DEF Known
<1>10. o.cluster \in Clusters
  BY <1>5, <1>7, <1>9
<1> QED BY ONLY <1>4, <1>5, <1>6, <1>7, <1>8, <1>9, <1>10, Zenon

\* The cells that make_noncontiguous writes are those of the file.
LEMMA ConvertedOwn ==
    ASSUME fat \in [Clusters -> Nat], NEW n, n.contiguous, n.start \in Nat, NEW c,
           NEW count \in Nat, count > 0, Linked(n, c, count),
           \A i \in 0 .. count - 1 : c[i] \in Clusters, NEW last, last <= c[count - 1], last \in Int,
           NEW table, table = Noncontiguous(n, last)
    PROVE  /\ table \in [Clusters -> Nat]
           /\ \A x \in Clusters : (\A i \in 0 .. count - 1 : c[i] # x) => table[x] = fat[x]
           /\ last = c[count - 1] => \A i \in 0 .. count - 2 : table[c[i]] = c[i + 1]
<1>1. \A i \in 0 .. count - 1 : c[i] = n.start + i
  BY ContiguousLinked
<1>2. /\ table \in [Clusters -> Nat]
      /\ \A x \in Clusters : table[x] = IF x \in n.start .. last - 1 THEN x + 1 ELSE fat[x]
  BY NoncontiguousIs
<1>3. c[count - 1] = n.start + (count - 1)
  BY <1>1
<1>4. ASSUME NEW x \in Clusters, \A i \in 0 .. count - 1 : c[i] # x
      PROVE  table[x] = fat[x]
  <2>1. x \in Nat
    BY ClusterNumbers
  <2>2. ASSUME x \in n.start .. last - 1 PROVE FALSE
    <3>1. x - n.start \in 0 .. count - 1 /\ n.start + (x - n.start) = x
      BY <2>1, <2>2, <1>3
    <3>2. c[x - n.start] = n.start + (x - n.start)
      BY <3>1, <1>1
    <3> QED BY <3>1, <3>2, <1>4
  <2> QED BY <1>2, <2>2
<1>5. ASSUME last = c[count - 1], NEW i \in 0 .. count - 2
      PROVE  table[c[i]] = c[i + 1]
  <2>1. i \in 0 .. count - 1 /\ i + 1 \in 0 .. count - 1
    OBVIOUS
  <2>2. c[i] = n.start + i /\ c[i + 1] = n.start + (i + 1) /\ c[i] \in Clusters
    BY <1>1, <2>1
  <2>3. c[i] \in n.start .. last - 1
    BY <2>2, <1>3, <1>5
  <2>4. table[c[i]] = c[i] + 1
    BY <1>2, <2>2, <2>3
  <2> QED BY <2>2, <2>4
<1> QED BY ONLY <1>2, <1>4, <1>5, Zenon

LEMMA GrowFullHeld ==
    ASSUME Base, NEW ch, NEW D, NEW f, NEW c, NEW d, NEW n, NEW o,
           Now(ch, D, f, c, d, n, o), GrowFull
    PROVE  Owns'
<1> PICK o2 : o2 = op'
  OBVIOUS
<1>1. Known(f, c, d, n, o)
  BY NowIs
<1>2. Typed(f, n, o)
  BY TypedNow
<1>3. /\ o.pc = "growing" /\ Quiet /\ hurt' = hurt
      /\ clean' = clean /\ entry' = entry /\ node' = [node EXCEPT ![f] = n]
  BY <1>2 DEF GrowFull, medium, memory, history, Quiet, Typed
<1> PICK c1 : c1 = Needed(n.size)
  OBVIOUS
<1> PICK count : count = c1 + o.given
  OBVIOUS
<1>4. /\ f \notin hurt /\ c1 \in Nat /\ count \in Nat /\ count > 0 /\ c1 <= count
      /\ o.cluster = c[count - 1] /\ o.cluster \in Clusters /\ o.left \in Nat /\ o.given \in Nat
      /\ Asked(n, o) /\ ~o.full /\ o.current = c1
      /\ n.size < o.size /\ count + o.left = Needed(o.size)
      /\ d = 0 .. count - 1 /\ Linked(n, c, count)
      /\ o.given = 0 => Ended(n, c, count)
      /\ n.index = 0 \/ n.index < c1
      /\ n.cluster = c[n.index]
      /\ AllFresh(c, n.size)
      /\ Remembered(n, o, c, c1 .. count - 1)
      /\ n.start = c[0]
      /\ \A i \in 0 .. count - 1 : c[i] \in Clusters
  BY ONLY Base, Now(ch, D, f, c, d, n, o), <1>3, c1 = Needed(n.size),
     count = c1 + o.given, ExtendsNow
<1>5. CASE o.given = 0
  <2>1. Return(FALSE)
    BY <1>2, <1>5 DEF GrowFull, Typed
  <2>2. count = c1
    BY <1>4, <1>5
  <2>3. Whole(n, c, d)
    <3>1. Pointed(n, c, c1)
      BY ONLY <1>4, <2>2, Zenon DEF Pointed
    <3> QED BY ONLY <3>1, <1>4, <1>5, <2>2, c1 = Needed(n.size), Zenon DEF Whole
  <2>4. Lies(n, c, d)
    BY <1>2, <1>4, <2>3, LiesIs DEF Typed
  <2>5. o.then # "free"
    <3>1. o.then = "free" => o.size = 0
      BY <1>4 DEF Asked
    <3>2. n.size \in Nat /\ n.size < o.size
      BY <1>2, <1>4 DEF Typed
    <3> QED BY ONLY <3>1, <3>2
  <2> QED BY <1>1, <1>2, <1>3, <1>4, <2>1, <2>4, <2>5, QuietReturn DEF Known, Typed
<1>6. CASE o.given # 0
  <2> PICK full, current : full = TRUE /\ current = o.current + o.given
    OBVIOUS
  <2>1. o2 = [o EXCEPT !.pc = "shrink", !.full = full, !.current = current, !.left = o.given]
    BY <1>2, <1>6 DEF GrowFull, OpsOf, Typed
  <2>2. /\ o2.pc = "shrink" /\ o2.f = f /\ o2.then = o.then
        /\ o2.size = o.size /\ o2.erase = o.erase /\ o2.offset = o.offset /\ o2.len = o.len
        /\ o2.full = full /\ o2.current = current /\ o2.left = o.given /\ o2.before = o.before
    BY ONLY <1>2, <2>1 DEF OpsOf, Typed
  <2>4. current = count /\ o.given > 0 /\ current - 1 = count - 1
    BY <1>2, <1>4, <1>6, SMTT(30) DEF Typed
  <2>5. Kept(n, o2) = c1
    BY <2>2 DEF Kept, KeptSize
  <2>6. Asked(n, o2) /\ Remembered(n, o2, c, c1 .. current - 1)
    BY ONLY <1>4, <2>2, <2>4, Zenon DEF Asked, Counts, Remembered
  <2>7. Pointed(n, c, current)
    <3>1. n.index = 0 \/ n.index < count
      BY <1>2, <1>4 DEF Typed
    <3> QED BY ONLY <3>1, <2>4, <1>4, Zenon DEF Pointed
  <2>8. Shrinks(n, o2, c, d)
    <3>1. o2.left > 0 /\ o2.current = c1 + o2.left /\ n.size < o2.size /\ o2.full
      BY <1>4, <2>2, <2>4
    <3>2. d = 0 .. o2.current - 1 /\ Linked(n, c, o2.current) /\ Pointed(n, c, o2.current)
          /\ Remembered(n, o2, c, Kept(n, o2) .. o2.current - 1)
      BY ONLY <1>4, <2>2, <2>4, <2>5, <2>6, <2>7, Zenon
    <3> QED BY ONLY <3>1, <3>2, <2>5, <2>6, <1>4, Zenon DEF Shrinks
  <2>9. Under(n, o2, c, d) /\ o2.pc \in Pcs
    BY ONLY <2>2, <2>8, Zenon DEF Under, Pcs
  <2> QED BY <1>1, <1>3, <1>4, <2>2, <2>9, QuietTo DEF Known
<1> QED BY <1>5, <1>6

LEMMA GrowDoneHeld ==
    ASSUME Base, NEW ch, NEW D, NEW f, NEW c, NEW d, NEW n, NEW o,
           Now(ch, D, f, c, d, n, o), GrowDone
    PROVE  Owns'
<1> PICK o2 : o2 = op'
  OBVIOUS
<1>1. Known(f, c, d, n, o)
  BY NowIs
<1>2. Typed(f, n, o)
  BY TypedNow
<1>3. /\ o.pc = "growing" /\ o.left = 0 /\ bmap' = bmap /\ stale' = stale
      /\ clean' = clean /\ entry' = entry /\ node' = [node EXCEPT ![f] = n]
  BY <1>2 DEF GrowDone, memory, Typed
<1> PICK c1 : c1 = Needed(n.size)
  OBVIOUS
<1> PICK count : count = c1 + o.given
  OBVIOUS
<1>4. /\ f \notin hurt /\ c1 \in Nat /\ count \in Nat /\ count > 0 /\ c1 <= count
      /\ o.cluster = c[count - 1] /\ o.cluster \in Clusters /\ o.left \in Nat /\ o.given \in Nat
      /\ Asked(n, o) /\ ~o.full /\ o.current = c1
      /\ n.size < o.size /\ count + o.left = Needed(o.size)
      /\ d = 0 .. count - 1 /\ Linked(n, c, count)
      /\ o.given = 0 => Ended(n, c, count)
      /\ n.index = 0 \/ n.index < c1
      /\ n.cluster = c[n.index]
      /\ AllFresh(c, n.size)
      /\ Remembered(n, o, c, c1 .. count - 1)
      /\ n.start = c[0]
      /\ \A i \in 0 .. count - 1 : c[i] \in Clusters
  BY ONLY Base, Now(ch, D, f, c, d, n, o), <1>3, c1 = Needed(n.size),
     count = c1 + o.given, ExtendsNow
<1>5. PICK fails \in Outcomes(0, ~n.contiguous) :
         /\ IF fails THEN Return(FALSE) /\ UNCHANGED fat
            ELSE /\ fat' = SetNext(fat, n, o.cluster, EXFAT_CLUSTER_END)
                 /\ o2 = [o EXCEPT !.pc = "erase"]
         /\ Failed(f, Count(fails))
  BY <1>2 DEF GrowDone, Typed
<1>6. fails \in BOOLEAN /\ (fails => CanFault(0))
  BY OutcomesAre
<1>7. /\ ~fails => hurt' = hurt
      /\ fails => hurt' = hurt \cup {f}
  BY <1>2, <1>5, <1>6, CountedOne DEF Typed
<1>8. CASE fails
  <2>1. Return(FALSE) /\ fat' = fat
    BY <1>5, <1>8
  <2>2. o2.pc \notin {"idle", "aborted"} => o2.f = f /\ Hurt(n, o2)
    BY <1>2, <2>1, ReturnHurts DEF Typed
  <2>3. f \in hurt' /\ hurt \subseteq hurt' /\ hurt' \subseteq hurt \cup {f}
    BY <1>7, <1>8
  <2> QED BY <1>3, <2>1, <2>2, <2>3, QuietHurt
<1>9. CASE ~fails
  <2>1. fat' = SetNext(fat, n, o.cluster, EXFAT_CLUSTER_END) /\ o2 = [o EXCEPT !.pc = "erase"]
    BY <1>5, <1>9
  <2>2. /\ o2.pc = "erase" /\ o2.f = f /\ o2.then = o.then
        /\ o2.size = o.size /\ o2.erase = o.erase /\ o2.offset = o.offset /\ o2.len = o.len
        /\ o2.full = o.full
    BY ONLY <1>2, <2>1 DEF OpsOf, Typed
  <2>3. /\ \A x \in Clusters : x # o.cluster => fat'[x] = fat[x]
        /\ ~n.contiguous => fat'[o.cluster] = EXFAT_CLUSTER_END
    <3>1. fat \in [Clusters -> Nat] /\ o.cluster \in Clusters /\ EXFAT_CLUSTER_END \in Nat
      BY <1>2, <1>4, ClusterNumbers DEF Typed
    <3> PICK k, end, table : k = o.cluster /\ end = EXFAT_CLUSTER_END
                             /\ table = SetNext(fat, n, k, end)
      OBVIOUS
    <3>2. /\ \A x \in Clusters : x # k => table[x] = fat[x]
          /\ ~n.contiguous /\ k \in Clusters => table[k] = end
      BY <3>1, SetNextIs
    <3>3. table = fat'
      BY <2>1
    <3> QED BY ONLY <3>1, <3>2, <3>3, k = o.cluster, end = EXFAT_CLUSTER_END, Zenon
  <2>4. count = Needed(o.size)
    BY <1>3, <1>4
  <2>5. \A i \in 0 .. count - 2 : c[i] \in Clusters /\ fat'[c[i]] = fat[c[i]]
    <3> TAKE i \in 0 .. count - 2
    <3>1. i \in d /\ count - 1 \in d /\ i # count - 1
      BY <1>4
    <3>2. c[i] # c[count - 1] /\ c[i] \in Clusters
      BY <1>1, <1>4, <3>1 DEF Known
    <3> QED BY <2>3, <3>2, <1>4
  <2>6. Linked(n, c, count)'
    BY <1>4, <2>5, LinkedStays
  <2>7. Ended(n, c, count)'
    BY <2>3, <1>4 DEF Ended
  <2>8. Pointed(n, c, count)'
    <3>1. n.index = 0 \/ n.index < count
      BY <1>2, <1>4 DEF Typed
    <3> QED BY ONLY <3>1, <1>4, Zenon DEF Pointed
  <2>9. Asked(n, o2)'
    BY ONLY <1>4, <2>2, Zenon DEF Asked, Counts, Overflows, Needed
  <2>10. Sizing(n, o2, c, d)'
    BY ONLY <2>2, <2>4, <2>6, <2>7, <2>8, <2>9, <1>4, Zenon DEF Sizing, Needed
  <2>11. AllFresh(c, Least(n.size, o2.size))'
    <3>1. Least(n.size, o2.size) = n.size
      BY <1>4, <2>2 DEF Least
    <3>2. AllFresh(c, n.size)'
      BY <1>3, <1>4 DEF AllFresh, Fresh
    <3> QED BY ONLY <3>1, <3>2, Zenon DEF Least
  <2>12. Erases(n, o2, c, d)'
    BY ONLY <2>10, <2>11, Zenon DEF Erases
  <2>13. Under(n, o2, c, d)'
    BY ONLY <2>2, <2>12, Zenon DEF Under
  <2>14. InCallAfter(f, n, o2, c, d)
    BY ONLY <2>2, <2>13, <1>1, <1>4, Zenon DEF InCallAfter, Known
  <2> PICK own : own = Own(ch, D, f)
    OBVIOUS
  <2>15. Ours(f, own, c, d)
    BY <1>3, <1>4, NowOurs
  <2>16. Clears(own)
    <3>1. own = {c[i] : i \in d}
      BY <1>4 DEF Own, Places, Now
    <3>2. o.cluster \in own
      <4>1. count - 1 \in d
        BY <1>4
      <4> QED BY <3>1, <4>1, <1>4
    <3>3. \A x \in bmap \ own : fat'[x] = fat[x]
      BY <3>2, <2>3, <1>2 DEF Typed
    <3> QED BY <3>3, <1>3 DEF Clears, Untouched
  <2>17. Goes(f, n, o2)
    BY <1>3, <1>4, <1>7, <1>9, <2>2 DEF Goes
  <2> QED BY ONLY Base, Now(ch, D, f, c, d, n, o), own = Own(ch, D, f), o2 = op',
          <1>1, <2>14, <2>15, <2>16, <2>17, NowStep DEF Known
<1> QED BY <1>6, <1>8, <1>9

LEMMA GrowConversionFailsHeld ==
    ASSUME Base, NEW ch, NEW D, NEW f, NEW c, NEW d, NEW n, NEW o,
           Now(ch, D, f, c, d, n, o), GrowConversionFails
    PROVE  Owns'
<1> PICK o2 : o2 = op'
  OBVIOUS
<1>1. Known(f, c, d, n, o)
  BY NowIs
<1>2. Typed(f, n, o)
  BY TypedNow
<1>3. /\ o.pc = "growing" /\ n.contiguous /\ bmap \subseteq bmap' /\ stale' = stale
      /\ clean' = clean /\ entry' = entry /\ node' = [node EXCEPT ![f] = n]
      /\ Return(FALSE) /\ Failed(f, 1) /\ CanFault(0)
  BY <1>2 DEF GrowConversionFails, Typed
<1> PICK c1 : c1 = Needed(n.size)
  OBVIOUS
<1> PICK count : count = c1 + o.given
  OBVIOUS
<1>4. /\ f \notin hurt /\ c1 \in Nat /\ count \in Nat /\ count > 0 /\ c1 <= count
      /\ o.cluster = c[count - 1] /\ o.cluster \in Clusters /\ o.left \in Nat /\ o.given \in Nat
      /\ Asked(n, o) /\ ~o.full /\ o.current = c1
      /\ n.size < o.size /\ count + o.left = Needed(o.size)
      /\ d = 0 .. count - 1 /\ Linked(n, c, count)
      /\ o.given = 0 => Ended(n, c, count)
      /\ n.index = 0 \/ n.index < c1
      /\ n.cluster = c[n.index]
      /\ AllFresh(c, n.size)
      /\ Remembered(n, o, c, c1 .. count - 1)
      /\ n.start = c[0]
      /\ \A i \in 0 .. count - 1 : c[i] \in Clusters
  BY ONLY Base, Now(ch, D, f, c, d, n, o), <1>3, c1 = Needed(n.size),
     count = c1 + o.given, ExtendsNow
<1>5. PICK last \in n.start .. o.cluster - 1 : fat' = Noncontiguous(n, last)
  BY <1>2 DEF GrowConversionFails, Typed
<1>6. last \in Int /\ last <= c[count - 1]
  <2>1. o.cluster \in Nat /\ n.start \in Nat
    BY <1>2 DEF Typed
  <2>2. last \in Int /\ last <= o.cluster
    BY <2>1
  <2> QED BY <2>2, <1>4
<1> PICK table : table = fat'
  OBVIOUS
<1>7. \A x \in Clusters : (\A i \in 0 .. count - 1 : c[i] # x) => fat'[x] = fat[x]
  <2>1. \A x \in Clusters : (\A i \in 0 .. count - 1 : c[i] # x) => table[x] = fat[x]
    <3>1. /\ fat \in [Clusters -> Nat] /\ n.contiguous /\ n.start \in Nat
          /\ table = Noncontiguous(n, last)
      BY <1>2, <1>3, <1>5 DEF Typed
    <3>2. /\ count \in Nat /\ count > 0 /\ Linked(n, c, count)
          /\ \A i \in 0 .. count - 1 : c[i] \in Clusters
          /\ last <= c[count - 1] /\ last \in Int
      BY ONLY <1>4, <1>6
    <3> QED BY ONLY <3>1, <3>2, ConvertedOwn, SMTT(60)
  <2> QED BY <2>1
<1>8. hurt' = hurt \cup {f}
  BY <1>3 DEF Failed
<1>9. o2.pc \notin {"idle", "aborted"} => o2.f = f /\ Hurt(n, o2)
  BY <1>2, <1>3, ReturnHurts DEF Typed
<1>10. Goes(f, n, o2)
  BY <1>3, <1>8, <1>9 DEF Goes
<1> PICK own : own = Own(ch, D, f)
  OBVIOUS
<1>11. Clears(own)
  <2>1. own = {c[i] : i \in d}
    BY <1>4 DEF Own, Places, Now
  <2>2. \A x \in bmap \ own : fat'[x] = fat[x]
    BY <1>2, <1>4, <1>7, <2>1 DEF Typed
  <2> QED BY <2>2, <1>3 DEF Clears, Untouched
<1>12. f \in hurt'
  BY <1>8
<1> QED BY ONLY Base, Now(ch, D, f, c, d, n, o), own = Own(ch, D, f),
        <1>1, <1>10, <1>11, <1>12, NowStep DEF Known

LEMMA GrowHeld ==
    ASSUME Base, NEW ch, NEW D, NEW f, NEW c, NEW d, NEW n, NEW o,
           Now(ch, D, f, c, d, n, o), Grow, ~backward'
    PROVE  Owns'
<1> PICK o2 : o2 = op'
  OBVIOUS
<1>1. Known(f, c, d, n, o)
  BY NowIs
<1>2. Typed(f, n, o)
  BY TypedNow
<1> PICK next : next = Found(op.cluster + 1)
  OBVIOUS
<1> PICK n2 : n2 = IF n.contiguous THEN [n EXCEPT !.contiguous = FALSE, !.dirty = TRUE] ELSE n
  OBVIOUS
<1> PICK table : table = IF n.contiguous THEN Noncontiguous(n, o.cluster) ELSE fat
  OBVIOUS
<1>3. ~Keeps(n, next)
  BY <1>2 DEF Grow, Typed
<1>4. /\ o.pc = "growing" /\ o.left > 0 /\ ~CLUSTER_INVALID(next)
      /\ bmap' = bmap \cup {next} /\ stale' = stale
      /\ clean' = clean /\ entry' = entry /\ node' = [node EXCEPT ![f] = n2]
  BY <1>2, <1>3 DEF Grow, SetFile, Typed
<1> PICK c1 : c1 = Needed(n.size)
  OBVIOUS
<1> PICK count : count = c1 + o.given
  OBVIOUS
<1>5. /\ f \notin hurt /\ c1 \in Nat /\ count \in Nat /\ count > 0 /\ c1 <= count
      /\ o.cluster = c[count - 1] /\ o.cluster \in Clusters /\ o.left \in Nat /\ o.given \in Nat
      /\ Asked(n, o) /\ ~o.full /\ o.current = c1
      /\ n.size < o.size /\ count + o.left = Needed(o.size)
      /\ d = 0 .. count - 1 /\ Linked(n, c, count)
      /\ o.given = 0 => Ended(n, c, count)
      /\ n.index = 0 \/ n.index < c1
      /\ n.cluster = c[n.index]
      /\ AllFresh(c, n.size)
      /\ Remembered(n, o, c, c1 .. count - 1)
      /\ n.start = c[0]
      /\ \A i \in 0 .. count - 1 : c[i] \in Clusters
  BY ONLY Base, Now(ch, D, f, c, d, n, o), <1>4, c1 = Needed(n.size),
     count = c1 + o.given, ExtendsNow
<1>a. count \in Nat /\ count > 0 /\ c1 \in Nat /\ c1 <= count
  BY ONLY <1>5
<1>6. next \in Clusters /\ next \in Bits /\ next \notin bmap /\ next \in Nat
  BY <1>4, FoundIsFree
<1>7. /\ n2.state = n.state /\ n2.start = n.start /\ n2.size = n.size /\ n2.index = n.index
      /\ n2.cluster = n.cluster /\ ~n2.contiguous /\ (n2 = n \/ n2.dirty)
  BY ONLY <1>2, n2 = IF n.contiguous THEN [n EXCEPT !.contiguous = FALSE,
     !.dirty = TRUE] ELSE n DEF Typed
<1>8. PICK fails \in Outcomes(0, ~n2.contiguous) :
         /\ IF fails THEN Return(FALSE) /\ fat' = table
            ELSE /\ fat' = SetNext(table, n2, o.cluster, next)
                 /\ o2 = [o EXCEPT !.cluster = next, !.left = @ - 1, !.given = @ + 1]
         /\ Failed(f, Count(fails))
  BY <1>2, <1>3 DEF Grow, Typed
<1>9. fails \in BOOLEAN /\ (fails => CanFault(0))
  BY OutcomesAre
<1>10. /\ ~fails => hurt' = hurt
       /\ fails => hurt' = hurt \cup {f}
  BY <1>2, <1>8, <1>9, CountedOne DEF Typed
<1>11. /\ table \in [Clusters -> Nat]
       /\ \A x \in Clusters : (\A i \in 0 .. count - 1 : c[i] # x) => table[x] = fat[x]
       /\ \A i \in 0 .. count - 2 : table[c[i]] = c[i + 1]
  <2>1. CASE n.contiguous
    <3>1. table = Noncontiguous(n, o.cluster) /\ fat \in [Clusters -> Nat] /\ n.start \in Nat
          /\ o.cluster \in Int /\ o.cluster <= c[count - 1] /\ n.contiguous
      <4>1. o.cluster \in Nat
        BY <1>2 DEF Typed
      <4>2. o.cluster \in Int /\ o.cluster <= c[count - 1]
        BY ONLY <4>1, <1>5
      <4> QED BY <4>2, <2>1, <1>2 DEF Typed
    <3> PICK last : last = o.cluster
      OBVIOUS
    <3>2. table = Noncontiguous(n, last) /\ last \in Int /\ last <= c[count - 1]
      BY <3>1
    <3>3. last = c[count - 1]
      BY <1>5
    <3>4. Linked(n, c, count) /\ \A i \in 0 .. count - 1 : c[i] \in Clusters
      BY <1>5
    <3>5. /\ table \in [Clusters -> Nat]
          /\ \A x \in Clusters : (\A i \in 0 .. count - 1 : c[i] # x) => table[x] = fat[x]
          /\ last = c[count - 1] => \A i \in 0 .. count - 2 : table[c[i]] = c[i + 1]
      BY ONLY <3>1, <3>2, <3>4, <1>a, ConvertedOwn
    <3> QED BY ONLY <3>3, <3>5, Zenon
  <2>2. CASE ~n.contiguous
    <3>1. table = fat
      BY <2>2
    <3>2. ASSUME NEW i \in 0 .. count - 2 PROVE fat[c[i]] = c[i + 1]
      <4>1. NextCluster(n, c[i]) = c[i + 1] /\ i \in 0 .. count - 1
        BY <1>5 DEF Linked
      <4>2. c[i] \in Clusters /\ c[i] >= EXFAT_FIRST_DATA_CLUSTER /\ c[i] \in Nat
        BY <4>1, <1>5, ClusterNumbers
      <4>3. ~(c[i] < EXFAT_FIRST_DATA_CLUSTER)
        BY ONLY <4>2 DEF EXFAT_FIRST_DATA_CLUSTER
      <4> QED BY ONLY <4>1, <4>2, <4>3, <2>2, Zenon DEF NextCluster, NextOn
    <3> QED BY <1>2, <3>1, <3>2 DEF Typed
  <2> QED BY <2>1, <2>2
<1> PICK own : own = Own(ch, D, f)
  OBVIOUS
<1>12. own = {c[i] : i \in d}
  BY <1>5 DEF Own, Places, Now
<1>13. \A x \in bmap \ own : table[x] = fat[x]
  <2>1. d = 0 .. count - 1 /\ bmap \subseteq Clusters
    BY <1>2, <1>5 DEF Typed
  <2>2. \A x \in Clusters : (\A i \in 0 .. count - 1 : c[i] # x) => table[x] = fat[x]
    BY <1>11
  <2> QED BY ONLY <2>1, <2>2, <1>12
<1>14. CASE fails
  <2>1. Return(FALSE) /\ fat' = table
    BY <1>8, <1>14
  <2>2. o2.pc \notin {"idle", "aborted"} => o2.f = f /\ Hurt(n2, o2)
    BY <1>2, <2>1, ReturnHurts DEF Typed
  <2>3. f \in hurt' /\ hurt \subseteq hurt' /\ hurt' \subseteq hurt \cup {f}
    BY <1>10, <1>14
  <2>4. Clears(own)
    BY <1>4, <1>13, <2>1 DEF Clears, Untouched
  <2>5. Goes(f, n2, o2)
    BY <1>4, <2>2, <2>3 DEF Goes
  <2> QED BY ONLY Base, Now(ch, D, f, c, d, n, o), own = Own(ch, D, f),
          <1>1, <2>3, <2>4, <2>5, NowStep DEF Known
<1>15. CASE ~fails
  <2> PICK left, given, k : left = o.left - 1 /\ given = o.given + 1 /\ k = o.cluster
    OBVIOUS
  <2>1. fat' = SetNext(table, n2, k, next)
        /\ o2 = [o EXCEPT !.cluster = next, !.left = left, !.given = given]
    BY <1>2, <1>8, <1>15 DEF OpsOf, Typed
  <2>2. /\ o2.pc = "growing" /\ o2.cluster = next /\ o2.f = f /\ o2.then = o.then
        /\ o2.size = o.size /\ o2.erase = o.erase /\ o2.offset = o.offset /\ o2.len = o.len
        /\ o2.full = o.full /\ o2.current = o.current /\ o2.left = left /\ o2.given = given
        /\ o2.before = o.before
    BY ONLY <1>2, <1>4, <2>1 DEF OpsOf, Typed
  <2>3. /\ \A x \in Clusters : x # k => fat'[x] = table[x]
        /\ fat'[k] = next
    <3> PICK t : t = SetNext(table, n2, k, next)
      OBVIOUS
    <3>1. /\ \A x \in Clusters : x # k => t[x] = table[x]
          /\ ~n2.contiguous /\ k \in Clusters => t[k] = next
      <4>1. table \in [Clusters -> Nat] /\ next \in Nat
        BY <1>6, <1>11
      <4> QED BY ONLY <4>1, t = SetNext(table, n2, k, next), SetNextIs
    <3>2. t = fat' /\ ~n2.contiguous /\ k \in Clusters
      BY <2>1, <1>7, <1>5
    <3> QED BY ONLY <3>1, <3>2, Zenon
  <2> PICK c2, d2 : c2 = [c EXCEPT ![count] = next] /\ d2 = 0 .. count
    OBVIOUS
  <2>4. c2 \in [Nat -> Nat] /\ c2[count] = next /\ d2 \in SUBSET Nat
        /\ \A i \in 0 .. count - 1 : c2[i] = c[i]
    BY ONLY <1>1, <1>a, <1>6, c2 = [c EXCEPT ![count] = next], d2 = 0 .. count DEF Known
  <2>5. \A i, j \in 0 .. count - 1 : c[i] = c[j] => i = j
    BY <1>1, <1>5 DEF Known
  <2>6. \A i \in 0 .. count - 1 : c[i] \in bmap /\ c[i] \in own /\ c[i] \notin Reserved
                                  /\ c[i] # next
    BY <1>1, <1>5, <1>6, <1>12, ZenonT(30) DEF Known
  <2>7. ASSUME NEW i \in 0 .. count - 1 PROVE fat'[c2[i]] = c2[i + 1] /\ c2[i] \in Clusters
    <3>1. c2[i] = c[i] /\ c[i] \in Clusters
      BY <1>5, <2>4
    <3>2. CASE i = count - 1
      <4>1. c2[i + 1] = next /\ c[i] = k
        BY <2>4, <1>5, <3>2
      <4> QED BY <3>1, <4>1, <2>3
    <3>3. CASE i # count - 1
      <4>1. i \in 0 .. count - 2 /\ i + 1 \in 0 .. count - 1 /\ count - 1 \in 0 .. count - 1
        BY ONLY <1>a, <3>3, i \in 0 .. count - 1
      <4>2. c[i] # k
        BY <2>5, <4>1, <3>3, <1>5
      <4>3. fat'[c[i]] = c[i + 1]
        BY <4>1, <4>2, <3>1, <2>3, <1>11
      <4> QED BY <3>1, <4>3, <4>1, <2>4
    <3> QED BY <3>2, <3>3
  <2> PICK more : more = count + 1
    OBVIOUS
  <2>8. more \in Nat /\ more > 0 /\ more - 1 = count /\ more - 2 = count - 1
    BY ONLY <1>a, more = count + 1
  <2>9. Linked(n2, c2, more)'
    <3>1. n2.start = c2[0] /\ more # 0
      <4>1. 0 \in 0 .. count - 1
        BY ONLY <1>a
      <4>2. c2[0] = c[0]
        BY <4>1, <2>4
      <4> QED BY <4>2, <1>5, <1>7, <2>8
    <3>2. \A i \in 0 .. more - 2 : NextCluster(n2, c2[i])' = c2[i + 1]
      <4> TAKE i \in 0 .. more - 2
      <4>1. fat'[c2[i]] = c2[i + 1] /\ c2[i] \in Clusters
        BY <2>7, <2>8
      <4>2. ~(c2[i] < EXFAT_FIRST_DATA_CLUSTER)
        BY <4>1, ClusterNumbers DEF EXFAT_FIRST_DATA_CLUSTER
      <4> QED BY ONLY <4>1, <4>2, <1>7, Zenon DEF NextCluster, NextOn
    <3> QED BY ONLY <3>1, <3>2, Zenon DEF Linked
  <2>10. AllFresh(c2, n2.size)'
    <3>1. \A i \in 0 .. n.size - 1 : Fresh(c2, i)'
      <4> TAKE i \in 0 .. n.size - 1
      <4> PICK q, r : q = i \div CLUSTER_SIZE /\ r = i % CLUSTER_SIZE
        OBVIOUS
      <4>1. q \in 0 .. c1 - 1
        BY <1>2, ClusterCount DEF Typed
      <4>2. q \in 0 .. count - 1
        BY <4>1, <1>5
      <4>3. c2[q] = c[q]
        BY <2>4, <4>2
      <4>4. <<c[q], r>> \notin stale
        BY <1>5 DEF AllFresh, Fresh
      <4> QED BY ONLY <4>3, <4>4, <1>4, q = i \div CLUSTER_SIZE, r = i % CLUSTER_SIZE, Zenon DEF Fresh
    <3> QED BY ONLY <3>1, <1>7, Zenon DEF AllFresh
  <2>11. Asked(n2, o2)'
    BY ONLY <1>5, <1>7, <2>2, Zenon DEF Asked, Counts, Overflows, Needed
  <2>12. Remembered(n2, o2, c2, c1 .. count)'
    <3>1. /\ o.before.used = bmap \ {c[j] : j \in c1 .. count - 1}
          /\ \A j \in c1 .. count - 1 : c[j] \in Bits
          /\ o.before.chain \in [0 .. c1 - 1 -> Nat]
          /\ \A j \in 0 .. c1 - 1 : o.before.chain[j] = c[j]
      BY ONLY <1>5, c1 = Needed(n.size), Zenon DEF Remembered
    <3>2. {c2[j] : j \in c1 .. count} = {c[j] : j \in c1 .. count - 1} \cup {next}
      <4>1. \A j \in c1 .. count : j = count \/ (j \in c1 .. count - 1 /\ j \in 0 .. count - 1)
        BY <1>5, SMTT(30)
      <4>2. \A j \in c1 .. count - 1 : j \in c1 .. count /\ j \in 0 .. count - 1
        BY <1>5
      <4>3. count \in c1 .. count
        BY <1>5
      <4> QED BY <4>1, <4>2, <4>3, <2>4
    <3>a. \A j \in c1 .. count : c2[j] \in Bits
      <4>1. \A j \in c1 .. count : c2[j] \in {c[i] : i \in c1 .. count - 1} \cup {next}
        BY ONLY <3>2
      <4> QED BY ONLY <4>1, <3>1, <1>6
    <3>3. bmap' \ {c2[j] : j \in c1 .. count} = bmap \ {c[j] : j \in c1 .. count - 1}
      BY <3>2, <1>4, <1>6
    <3>4. \A j \in 0 .. c1 - 1 : c2[j] = c[j]
      BY <2>4, <1>5
    <3>5. o2.before.used = bmap' \ {c2[j] : j \in c1 .. count}
      BY <3>1, <3>3, <2>2
    <3>6. o2.before.chain \in [0 .. c1 - 1 -> Nat] /\ \A j \in 0 .. c1 - 1 : o2.before.chain[j] = c2[j]
      BY <3>1, <3>4, <2>2
    <3>7. Needed(n2.size) = c1
      BY <1>7
    <3> QED BY ONLY <3>5, <3>6, <3>7, <3>a, Zenon DEF Remembered, Needed
  <2>13. Extends(n2, o2, c2, d2)'
    <3>1. /\ more = c1 + o2.given /\ more + o2.left = Needed(o2.size)
          /\ o2.given # 0
      <4>1. /\ o2.given = given /\ o2.left = left /\ o2.size = o.size
            /\ o.given \in Nat /\ o.left \in Nat /\ o.left > 0
            /\ count + o.left = Needed(o.size)
        BY ONLY <2>2, <1>4, <1>5
      <4>2. more = c1 + given /\ more + left = count + o.left /\ given # 0
        BY ONLY <4>1, <1>a, more = count + 1, count = c1 + o.given, left = o.left - 1,
                given = o.given + 1
      <4> QED BY <4>1, <4>2
    <3>2. n2.index = 0 \/ n2.index < c1
      BY <1>5, <1>7
    <3>3. n2.cluster = c2[n2.index]
      <4>1. n.index \in 0 .. count - 1
        <5>1. n.index \in Nat /\ (n.index = 0 \/ n.index < c1)
          BY <1>2, <1>5 DEF Typed
        <5> QED BY ONLY <5>1, <1>a
      <4> QED BY <4>1, <2>4, <1>5, <1>7
    <3>4. /\ c1 = Needed(n2.size) /\ n2.size < o2.size /\ ~o2.full /\ o2.current = c1
      BY <1>5, <1>7, <2>2
    <3>5. d2 = 0 .. more - 1 /\ Remembered(n2, o2, c2, c1 .. more - 1)'
      BY <2>8, <2>12
    <3>6. Growing(n2, o2, c2, d2)'
      BY ONLY <3>1, <3>2, <3>3, <3>4, <3>5, <2>9, <2>10, <2>11, Zenon DEF Growing, Needed
    <3>7. more > 0 /\ o2.cluster = c2[more - 1]
      BY <2>2, <2>4, <2>8
    <3> QED BY ONLY <3>1, <3>4, <3>6, <3>7, Zenon DEF Extends, Needed
  <2>14. Under(n2, o2, c2, d2)'
    BY ONLY <2>2, <2>13, Zenon DEF Under
  <2>15. Saved(n2, entry[f])
    BY <1>1, <1>5, <1>7 DEF Saved, Known
  <2>16. InCallAfter(f, n2, o2, c2, d2)
    BY ONLY <2>2, <2>14, <2>15, Zenon DEF InCallAfter
  <2>17. Clears(own)
    <3>1. k \in own
      BY <2>6, <1>5, SMTT(30)
    <3>2. \A x \in bmap \ own : fat'[x] = fat[x]
      BY <3>1, <2>3, <1>13, <1>2, ZenonT(30) DEF Typed
    <3> QED BY <3>2, <1>4 DEF Clears, Untouched
  <2>18. Ours(f, own, c2, d2)
    <3>1. \A i \in d2 : i = count \/ i \in 0 .. count - 1
      BY <1>5
    <3>2. next \in bmap' \ Reserved
      BY <1>1, <1>4, <1>6 DEF Known
    <3>3. \A i \in d2 : c2[i] \in bmap' \ Reserved /\ (c2[i] \in own \/ c2[i] \notin bmap)
      BY <3>1, <3>2, <2>4, <2>6, <1>4, <1>6
    <3>4. \A i, j \in d2 : c2[i] = c2[j] => i = j
      BY <3>1, <2>4, <2>5, <2>6
    <3>5. \A x \in bmap' : x \in bmap \ own \/ \E i \in d2 : c2[i] = x
      <4> TAKE x \in bmap'
      <4>1. CASE x = next
        <5>1. count \in d2
          BY <1>5
        <5> QED BY <4>1, <5>1, <2>4
      <4>2. CASE x \in own
        <5>1. PICK i \in d : c[i] = x
          BY <4>2, <1>12
        <5>2. i \in 0 .. count - 1 /\ i \in d2
          BY <1>5
        <5> QED BY <5>1, <5>2, <2>4
      <4> QED BY <4>1, <4>2, <1>4
    <3> QED BY ONLY <3>3, <3>4, <3>5, Zenon DEF Ours
  <2>19. Goes(f, n2, o2)
    BY <1>4, <1>5, <1>10, <1>15, <2>2 DEF Goes
  <2> QED BY ONLY Base, Now(ch, D, f, c, d, n, o), own = Own(ch, D, f),
          <2>4, <2>16, <2>17, <2>18, <2>19, NowStep
<1> QED BY <1>9, <1>14, <1>15

LEMMA ShrinksNow ==
    ASSUME Base, NEW ch, NEW D, NEW f, NEW c, NEW d, NEW n, NEW o,
           Now(ch, D, f, c, d, n, o),
           o.pc = "shrink", NEW kept, kept = Kept(n, o), NEW count, count = o.current
    PROVE  /\ f \notin hurt /\ kept \in Nat /\ count \in Nat /\ o.left \in Nat /\ o.left > 0
           /\ count = kept + o.left
           /\ Asked(n, o)
           /\ o.full => n.size < o.size /\ Remembered(n, o, c, kept .. count - 1)
           /\ ~o.full => n.size > o.size
           /\ d = 0 .. count - 1 /\ Linked(n, c, count) /\ Pointed(n, c, count)
           /\ AllFresh(c, n.size)
           /\ n.start = c[0] /\ n.start # EXFAT_CLUSTER_FREE
           /\ \A i \in 0 .. count - 1 : c[i] \in Clusters
           /\ ~o.full => o.then # "write"
           /\ KeptSize(n, o) \in Nat /\ kept = Needed(KeptSize(n, o))
           /\ KeptSize(n, o) <= n.size
<1>1. Known(f, c, d, n, o)
  BY NowIs
<1>2. Typed(f, n, o)
  BY TypedNow
<1>4. f \notin hurt
  BY <1>1 DEF Hurt, Known
<1>5. Shrinks(n, o, c, d)
  BY <1>1, <1>4 DEF Under, Known
<1>6. /\ Asked(n, o) /\ o.left > 0 /\ count = kept + o.left
      /\ o.full => n.size < o.size /\ Remembered(n, o, c, kept .. count - 1)
      /\ ~o.full => n.size > o.size
      /\ d = 0 .. count - 1 /\ Linked(n, c, count) /\ Pointed(n, c, count)
      /\ AllFresh(c, n.size)
  BY ONLY <1>5, kept = Kept(n, o), count = o.current, Zenon DEF Shrinks
<1>7. n.size \in Nat /\ o.size \in Nat /\ o.left \in Nat /\ count \in Nat /\ o.full \in BOOLEAN
  BY <1>2 DEF Typed
<1>8. KeptSize(n, o) \in Nat /\ KeptSize(n, o) <= n.size
  BY ONLY <1>6, <1>7 DEF KeptSize
<1>9. kept = Needed(KeptSize(n, o)) /\ kept \in Nat
  BY <1>8, CountTyped DEF Kept
<1>10. 0 \in d /\ \A i \in 0 .. count - 1 : c[i] \in Clusters
  <2>1. 0 \in 0 .. count - 1
    BY ONLY <1>6, <1>7, <1>9
  <2>2. \A i \in d : c[i] \in Clusters
    BY <1>1, <1>4 DEF Known
  <2> QED BY ONLY <2>1, <2>2, <1>6
<1>11. n.start = c[0]
  <2>1. count # 0
    BY ONLY <1>6, <1>7, <1>9
  <2> QED BY <2>1, <1>6 DEF Linked
<1>12. n.start # EXFAT_CLUSTER_FREE
  <2>1. c[0] \in Clusters
    BY <1>1, <1>4, <1>10 DEF Known
  <2> QED BY <2>1, <1>11, ClusterNumbers
<1>13. ~o.full => o.then # "write"
  <2>1. o.then = "write" => n.size < o.size
    BY <1>6 DEF Asked
  <2>2. ~(n.size > o.size /\ n.size < o.size)
    BY <1>7
  <2> QED BY ONLY <2>1, <2>2, <1>6, Zenon
<1> QED BY ONLY <1>4, <1>6, <1>7, <1>8, <1>9, <1>10, <1>11, <1>12, <1>13, Zenon

LEMMA ShrinkAbortsHeld ==
    ASSUME Base, NEW ch, NEW D, NEW f, NEW c, NEW d, NEW n, NEW o,
           Now(ch, D, f, c, d, n, o), ShrinkAborts
    PROVE  FALSE
<1>2. Typed(f, n, o)
  BY TypedNow
<1> PICK kept, count : kept = Kept(n, o) /\ count = o.current
  OBVIOUS
<1>3. o.pc = "shrink" /\ n.start = EXFAT_CLUSTER_FREE
  BY <1>2 DEF ShrinkAborts, Typed
<1>4. n.start # EXFAT_CLUSTER_FREE
  BY <1>3, ShrinksNow
<1> QED BY <1>3, <1>4

LEMMA CropAllHeld ==
    ASSUME Base, NEW ch, NEW D, NEW f, NEW c, NEW d, NEW n, NEW o,
           Now(ch, D, f, c, d, n, o), CropAll
    PROVE  Owns'
<1> PICK o2 : o2 = op'
  OBVIOUS
<1>1. Known(f, c, d, n, o)
  BY NowIs
<1>2. Typed(f, n, o)
  BY TypedNow
<1>3. /\ o.pc = "shrink" /\ o.current = o.left /\ Quiet /\ hurt' = hurt
      /\ clean' = clean /\ entry' = entry
  BY <1>2 DEF CropAll, medium, memory, history, Quiet, Typed
<1> PICK kept : kept = Kept(n, o)
  OBVIOUS
<1> PICK count : count = o.current
  OBVIOUS
<1>4. /\ f \notin hurt /\ kept \in Nat /\ count \in Nat /\ o.left \in Nat /\ o.left > 0
      /\ count = kept + o.left
      /\ Asked(n, o)
      /\ o.full => n.size < o.size /\ Remembered(n, o, c, kept .. count - 1)
      /\ ~o.full => n.size > o.size
      /\ d = 0 .. count - 1 /\ Linked(n, c, count) /\ Pointed(n, c, count)
      /\ AllFresh(c, n.size)
      /\ n.start = c[0] /\ n.start # EXFAT_CLUSTER_FREE
      /\ \A i \in 0 .. count - 1 : c[i] \in Clusters
      /\ ~o.full => o.then # "write"
      /\ KeptSize(n, o) \in Nat /\ kept = Needed(KeptSize(n, o))
      /\ KeptSize(n, o) <= n.size
  BY ONLY Base, Now(ch, D, f, c, d, n, o), <1>3, kept = Kept(n, o), count = o.current, ShrinksNow
<1>5. kept = 0 /\ count = o.left
  BY ONLY <1>3, <1>4, count = o.current
<1> PICK m : m = [n EXCEPT !.start = EXFAT_CLUSTER_FREE, !.dirty = TRUE]
  OBVIOUS
<1> PICK n2 : n2 = Rewound(m)
  OBVIOUS
<1>6. node' = [node EXCEPT ![f] = n2] /\ o2 = [o EXCEPT !.pc = "freeing", !.cluster = n.start]
  BY <1>2 DEF CropAll, SetFile, Typed
<1>7. /\ o2.pc = "freeing" /\ o2.cluster = c[0] /\ o2.f = f /\ o2.then = o.then
      /\ o2.size = o.size /\ o2.erase = o.erase /\ o2.offset = o.offset /\ o2.len = o.len
      /\ o2.full = o.full /\ o2.current = o.current /\ o2.left = o.left /\ o2.before = o.before
  BY ONLY <1>2, <1>4, <1>6 DEF OpsOf, Typed
<1>8. /\ n2.state = n.state /\ n2.start = EXFAT_CLUSTER_FREE /\ n2.size = n.size /\ n2.index = 0
      /\ n2.contiguous = n.contiguous /\ n2.dirty
  <2>1. m \in [state : {"linked", "unlinked"}, start : Nat, size : Nat,
               contiguous : BOOLEAN, dirty : BOOLEAN, index : Nat, cluster : Nat]
    BY <1>2, ClusterNumbers DEF Typed
  <2>2. /\ m.state = n.state /\ m.start = EXFAT_CLUSTER_FREE /\ m.size = n.size
        /\ m.contiguous = n.contiguous /\ m.dirty
    BY <1>2 DEF Typed
  <2>3. m \in Nodes /\ m # NoNode
    BY <2>1 DEF Nodes, NoNode
  <2> QED BY <2>2, <2>3, RewoundIs
<1>9. KeptSize(n2, o2) = KeptSize(n, o) /\ Kept(n2, o2) = 0
  <2>1. KeptSize(n2, o2) = KeptSize(n, o)
    BY <1>7, <1>8 DEF KeptSize
  <2> QED BY <2>1, <1>4, <1>5 DEF Kept
<1> PICK low : low = o2.current - o2.left
  OBVIOUS
<1>10. low = 0 /\ o2.left <= o2.current /\ 0 <= low /\ o2.current = count
  <2>1. o2.current = count /\ o2.left = count /\ count \in Nat
    BY <1>4, <1>5, <1>7
  <2> QED BY ONLY <2>1, low = o2.current - o2.left
<1>11. Asked(n2, o2)
  BY ONLY <1>4, <1>7, <1>8, Zenon DEF Asked, Counts
<1>12. o2.full => n2.size < o2.size /\ Remembered(n2, o2, c, low .. o2.current - 1)
  BY ONLY <1>4, <1>5, <1>7, <1>8, <1>10, ZenonT(40) DEF Remembered
<1>13. ~o2.full => n2.size > o2.size
  BY <1>4, <1>7, <1>8
<1>14. d = (0 .. 0 - 1) \cup (low .. o2.current - 1)
  <2>1. 0 .. 0 - 1 = {}
    OBVIOUS
  <2>2. d = low .. o2.current - 1
    BY <1>4, <1>10
  <2> QED BY ONLY <2>1, <2>2
<1>15. Linked(n2, c, 0) /\ Ended(n2, c, 0) /\ Pointed(n2, c, 0)
  BY <1>8 DEF Linked, Ended, Pointed
<1>16. o2.left > 0 => o2.cluster = c[low]
  BY <1>7, <1>10
<1>17. \A i \in low .. o2.current - 2 : NextCluster(n2, c[i]) = c[i + 1]
  <2>1. \A i \in 0 .. count - 2 : NextCluster(n, c[i]) = c[i + 1]
    BY <1>4 DEF Linked
  <2> QED BY ONLY <2>1, <1>8, <1>10, Zenon DEF NextCluster, NextOn
<1>18. AllFresh(c, KeptSize(n2, o2))
  <2> PICK s : s = KeptSize(n, o)
    OBVIOUS
  <2>1. s \in Nat /\ s <= n.size /\ n.size \in Nat
    BY <1>2, <1>4 DEF Typed
  <2>2. \A i \in 0 .. s - 1 : i \in 0 .. n.size - 1
    BY <2>1
  <2>3. AllFresh(c, s)
    BY <2>2, <1>4 DEF AllFresh
  <2> QED BY <2>3, <1>9
<1>19. Freeing(n2, o2, c, d)
  BY ONLY <1>9, <1>10, <1>11, <1>12, <1>13, <1>14, <1>15, <1>16, <1>17, <1>18,
     low = o2.current - o2.left, Zenon DEF Freeing
<1>20. Under(n2, o2, c, d) /\ o2.pc \in Pcs
  BY ONLY <1>7, <1>19, Zenon DEF Under, Pcs
<1>21. Saved(n2, entry[f])
  BY <1>8 DEF Saved
<1> QED BY <1>3, <1>4, <1>6, <1>7, <1>20, <1>21, QuietTo

LEMMA CropHeld ==
    ASSUME Base, NEW ch, NEW D, NEW f, NEW c, NEW d, NEW n, NEW o,
           Now(ch, D, f, c, d, n, o), Crop
    PROVE  Owns'
<1> PICK o2 : o2 = op'
  OBVIOUS
<1>1. Known(f, c, d, n, o)
  BY NowIs
<1>2. Typed(f, n, o)
  BY TypedNow
<1>3. /\ o.pc = "shrink" /\ o.current > o.left /\ bmap' = bmap /\ stale' = stale
      /\ clean' = clean /\ entry' = entry
  BY <1>2 DEF Crop, Typed
<1> PICK kept : kept = Kept(n, o)
  OBVIOUS
<1> PICK count : count = o.current
  OBVIOUS
<1>4. /\ f \notin hurt /\ kept \in Nat /\ count \in Nat /\ o.left \in Nat /\ o.left > 0
      /\ count = kept + o.left
      /\ Asked(n, o)
      /\ o.full => n.size < o.size /\ Remembered(n, o, c, kept .. count - 1)
      /\ ~o.full => n.size > o.size
      /\ d = 0 .. count - 1 /\ Linked(n, c, count) /\ Pointed(n, c, count)
      /\ AllFresh(c, n.size)
      /\ n.start = c[0] /\ n.start # EXFAT_CLUSTER_FREE
      /\ \A i \in 0 .. count - 1 : c[i] \in Clusters
      /\ ~o.full => o.then # "write"
      /\ KeptSize(n, o) \in Nat /\ kept = Needed(KeptSize(n, o))
      /\ KeptSize(n, o) <= n.size
  BY ONLY Base, Now(ch, D, f, c, d, n, o), <1>3, kept = Kept(n, o), count = o.current, ShrinksNow
<1>5. kept > 0 /\ kept - 1 \in 0 .. count - 1 /\ o.current - o.left - 1 = kept - 1
      /\ kept <= count - 1 /\ kept \in 0 .. count - 1 /\ o.current - o.left = kept
  BY ONLY <1>3, <1>4, count = o.current, SMTT(30)
<1> PICK k : k = kept - 1
  OBVIOUS
<1>6. PICK a \in Advanced(File, op.current - op.left - 1) :
         \/ /\ CLUSTER_INVALID(a.node.cluster) /\ SetFile(a.node) /\ Return(FALSE)
            /\ Failed(op.f, Count(a.failed)) /\ UNCHANGED fat
         \/ /\ ~CLUSTER_INVALID(a.node.cluster)
            /\ \E next \in NextClusters(File, a.node.cluster) :
               \E fails \in Outcomes(Count(next.failed), ~File.contiguous) : Cropped(a, next, fails)
  BY DEF Crop, Cropped
<1>b. a \in Advanced(n, k)
  <2>1. op.current - op.left - 1 = k
    BY ONLY <1>2, <1>5, k = kept - 1 DEF Typed
  <2> QED BY <1>2, <2>1, Zenon DEF Typed
<1>7. /\ a.failed \in BOOLEAN /\ (a.failed => CanFault(0))
      /\ a.node \in Nodes /\ a.node # NoNode /\ Alike(n, a.node)
      /\ ~a.failed => a.node.cluster = c[kept - 1] /\ ~CLUSTER_INVALID(a.node.cluster)
      /\ a.failed => CLUSTER_INVALID(a.node.cluster)
  <2>1. /\ k \in 0 .. count - 1 /\ fat \in [Clusters -> Nat] /\ n \in Nodes /\ n # NoNode
        /\ count \in Nat /\ Linked(n, c, count) /\ Pointed(n, c, count)
        /\ \A i \in 0 .. count - 1 : c[i] \in Clusters
    BY <1>2, <1>4, <1>5 DEF Typed
  <2>2. /\ a.failed \in BOOLEAN /\ (a.failed => CanFault(0))
        /\ a.node \in Nodes /\ a.node # NoNode /\ Alike(n, a.node)
        /\ ~a.failed => a.node.cluster = c[k] /\ ~CLUSTER_INVALID(a.node.cluster)
        /\ a.failed => CLUSTER_INVALID(a.node.cluster)
    BY ONLY <2>1, <1>b, AdvancedLinked
  <2> QED BY ONLY <2>2, k = kept - 1, Zenon
<1>8. CASE CLUSTER_INVALID(a.node.cluster)
  <2>1. /\ node' = [node EXCEPT ![f] = a.node] /\ Return(FALSE) /\ fat' = fat
        /\ Failed(f, Count(a.failed)) /\ a.failed
    BY <1>2, <1>6, <1>7, <1>8 DEF SetFile, Typed
  <2>2. hurt' = hurt \cup {f}
    BY <1>2, <1>7, <2>1, CountedOne DEF Typed
  <2>3. o2.pc \notin {"idle", "aborted"} => o2.f = f /\ Hurt(a.node, o2)
    BY <1>2, <2>1, ReturnHurts DEF Typed
  <2> QED BY <1>3, <2>1, <2>2, <2>3, QuietHurt
<1>9. CASE ~CLUSTER_INVALID(a.node.cluster)
  <2>1. PICK next \in NextClusters(File, a.node.cluster) :
             \E fails \in Outcomes(Count(next.failed), ~File.contiguous) : Cropped(a, next, fails)
    BY ONLY <1>6, <1>9, Zenon
  <2>a. PICK fails \in Outcomes(Count(next.failed), ~File.contiguous) :
               /\ Failed(op.f, Count(next.failed) + Count(fails))
               /\ IF fails THEN SetFile(a.node) /\ Return(FALSE) /\ UNCHANGED fat
                  ELSE /\ SetFile(Rewound(a.node))
                       /\ fat' = SetNext(fat, File, a.node.cluster, EXFAT_CLUSTER_END)
                       /\ op' = [op EXCEPT !.pc = "freeing", !.cluster = next.cluster]
    BY ONLY <2>1, Zenon DEF Cropped
  <2>2. /\ next \in NextClusters(n, a.node.cluster)
        /\ Failed(f, Count(next.failed) + Count(fails))
        /\ fails => SetFile(a.node) /\ Return(FALSE) /\ UNCHANGED fat
        /\ ~fails => /\ SetFile(Rewound(a.node))
                     /\ fat' = SetNext(fat, n, a.node.cluster, EXFAT_CLUSTER_END)
                     /\ o2 = [o EXCEPT !.pc = "freeing", !.cluster = next.cluster]
    BY <2>a, <1>2 DEF Typed
  <2> PICK last : last = a.node.cluster
    OBVIOUS
  <2>3. last = c[kept - 1] /\ last \in Clusters /\ last \in Nat
    <3>1. last = c[kept - 1]
      BY <1>7, <1>9
    <3>2. last \in Clusters
      BY <3>1, <1>4, <1>5
    <3> QED BY <3>1, <3>2, ClusterNumbers
  <2>4. /\ next.failed \in BOOLEAN /\ (next.failed => CanFault(0)) /\ next.cluster \in Nat
        /\ next.cluster = IF next.failed THEN EXFAT_CLUSTER_BAD ELSE NextCluster(n, last)
    BY <1>2, <2>2, <2>3, NextClustersAre DEF Typed
  <2>5. fails \in BOOLEAN /\ (fails => CanFault(Count(next.failed)))
    BY OutcomesAre
  <2>6. /\ ~next.failed /\ ~fails => hurt' = hurt
        /\ next.failed \/ fails => hurt' = hurt \cup {f}
    BY <1>2, <2>2, <2>4, <2>5, Counted DEF Typed
  <2>7. CASE fails
    <3>1. node' = [node EXCEPT ![f] = a.node] /\ Return(FALSE) /\ fat' = fat
      BY <1>2, <2>2, <2>7 DEF SetFile, Typed
    <3>2. o2.pc \notin {"idle", "aborted"} => o2.f = f /\ Hurt(a.node, o2)
      BY <1>2, <3>1, ReturnHurts DEF Typed
    <3>3. hurt' = hurt \cup {f}
      BY <2>6, <2>7
    <3> QED BY <1>3, <3>1, <3>2, <3>3, QuietHurt
  <2>8. CASE ~fails
    <3> PICK n2 : n2 = Rewound(a.node)
      OBVIOUS
    <3>1. /\ node' = [node EXCEPT ![f] = n2]
          /\ fat' = SetNext(fat, n, last, EXFAT_CLUSTER_END)
          /\ o2 = [o EXCEPT !.pc = "freeing", !.cluster = next.cluster]
      BY <1>2, <2>2, <2>8 DEF SetFile, Typed
    <3> PICK after : after = next.cluster
      OBVIOUS
    <3>2. /\ o2.pc = "freeing" /\ o2.cluster = after /\ o2.f = f /\ o2.then = o.then
          /\ o2.size = o.size /\ o2.erase = o.erase /\ o2.offset = o.offset /\ o2.len = o.len
          /\ o2.full = o.full /\ o2.current = o.current /\ o2.left = o.left
          /\ o2.before = o.before
      BY ONLY <1>2, <2>4, <3>1, after = next.cluster DEF OpsOf, Typed
    <3>3. /\ n2.state = n.state /\ n2.start = n.start /\ n2.size = n.size /\ n2.index = 0
          /\ n2.cluster = n.start /\ n2.contiguous = n.contiguous /\ n2.dirty = n.dirty
      BY <1>7, RewoundIs DEF Alike
    <3>4. /\ \A x \in Clusters : x # last => fat'[x] = fat[x]
          /\ ~n.contiguous => fat'[last] = EXFAT_CLUSTER_END
      <4>1. fat \in [Clusters -> Nat] /\ EXFAT_CLUSTER_END \in Nat
        BY <1>2, ClusterNumbers DEF Typed
      <4> PICK end, table : end = EXFAT_CLUSTER_END /\ table = SetNext(fat, n, last, end)
        OBVIOUS
      <4>2. /\ \A x \in Clusters : x # last => table[x] = fat[x]
            /\ ~n.contiguous /\ last \in Clusters => table[last] = end
        BY <4>1, SetNextIs
      <4>3. table = fat'
        BY <3>1
      <4> QED BY ONLY <2>3, <4>2, <4>3, end = EXFAT_CLUSTER_END, Zenon
    <3> PICK own : own = Own(ch, D, f)
      OBVIOUS
    <3>5. Clears(own)
      <4>1. own = {c[i] : i \in d}
        BY <1>4 DEF Own, Places, Now
      <4>2. last \in own
        <5>1. kept - 1 \in d
          BY <1>4, <1>5
        <5> QED BY <4>1, <5>1, <2>3
      <4>3. \A x \in bmap \ own : fat'[x] = fat[x]
        BY <4>2, <3>4, <1>2 DEF Typed
      <4> QED BY <4>3, <1>3 DEF Clears, Untouched
    <3>6. ASSUME next.failed PROVE Owns'
      <4>1. hurt' = hurt \cup {f}
        BY <2>6, <3>6
      <4>2. Hurt(n2, o2)
        <5>1. CLUSTER_INVALID(o2.cluster)
          BY <3>2, <3>6, <2>4, ClusterNumbers
        <5>2. o2.full \/ (o2.size < n2.size /\ o2.then # "write")
          BY <1>2, <1>4, <3>2, <3>3 DEF Typed
        <5> QED BY ONLY <5>1, <5>2, <3>2, Zenon DEF Hurt
      <4>3. Goes(f, n2, o2)
        BY <1>3, <3>1, <3>2, <4>1, <4>2 DEF Goes
      <4>4. f \in hurt'
        BY <4>1
      <4> QED BY ONLY Base, Now(ch, D, f, c, d, n, o), own = Own(ch, D, f),
              <1>1, <3>5, <4>3, <4>4, NowStep DEF Known
    <3>7. ASSUME ~next.failed PROVE Owns'
      <4>1. hurt' = hurt
        BY <2>6, <2>8, <3>7
      <4>2. \A i \in 0 .. count - 2 : NextCluster(n, c[i]) = c[i + 1]
        BY <1>4 DEF Linked
      <4>3. after = c[kept]
        <5>1. kept - 1 \in 0 .. count - 2 /\ (kept - 1) + 1 = kept
          BY ONLY <1>4, <1>5
        <5>2. NextCluster(n, c[kept - 1]) = c[kept]
          BY <4>2, <5>1
        <5> QED BY <5>2, <2>3, <2>4, <3>7
      <4>4. KeptSize(n2, o2) = KeptSize(n, o) /\ Kept(n2, o2) = kept
        <5>1. KeptSize(n2, o2) = KeptSize(n, o)
          BY <3>2, <3>3 DEF KeptSize
        <5> QED BY <5>1, <1>4 DEF Kept
      <4> PICK low : low = o2.current - o2.left
        OBVIOUS
      <4>5. low = kept /\ o2.left <= o2.current /\ o2.current = count
        <5>1. o2.current = count /\ o2.left = o.left
          BY <3>2
        <5> QED BY ONLY <5>1, <1>4, low = o2.current - o2.left
      <4>6. \A i \in 0 .. count - 1 : i # kept - 1 => fat'[c[i]] = fat[c[i]]
        <5> TAKE i \in 0 .. count - 1
        <5> HAVE i # kept - 1
        <5>1. c[i] # c[kept - 1] /\ c[i] \in Clusters
          BY <1>1, <1>4, <1>5 DEF Known
        <5> QED BY <5>1, <2>3, <3>4
      <4>7. Linked(n2, c, kept)'
        <5>1. Linked(n2, c, kept)
          <6>1. n2.start = c[0] /\ kept # 0
            BY <1>4, <1>5, <3>3
          <6>2. \A i \in 0 .. kept - 2 : i \in 0 .. count - 2
            BY ONLY <1>4, <1>5
          <6>3. \A i \in 0 .. kept - 2 : NextCluster(n2, c[i]) = c[i + 1]
            BY ONLY <6>2, <4>2, <3>3, Zenon DEF NextCluster, NextOn
          <6> QED BY ONLY <6>1, <6>3, Zenon DEF Linked
        <5>2. \A i \in 0 .. kept - 2 : i \in 0 .. count - 1 /\ i # kept - 1
          BY ONLY <1>4, <1>5
        <5>3. \A i \in 0 .. kept - 2 : c[i] \in Clusters /\ fat'[c[i]] = fat[c[i]]
          BY <5>2, <4>6, <1>4
        <5>4. kept \in Nat
          BY <1>4
        <5> QED BY ONLY <5>1, <5>3, <5>4, LinkedStays
      <4>8. Ended(n2, c, kept)'
        BY ONLY <3>3, <3>4, <2>3, Zenon DEF Ended
      <4>9. Pointed(n2, c, kept)'
        BY ONLY <3>3, <1>4, Zenon DEF Pointed
      <4>10. \A i \in low .. o2.current - 2 : NextCluster(n2, c[i])' = c[i + 1]
        <5> TAKE i \in low .. o2.current - 2
        <5>1. i \in 0 .. count - 2 /\ i \in 0 .. count - 1 /\ i # kept - 1
          BY ONLY <1>4, <1>5, <4>5, i \in low .. o2.current - 2, SMTT(30)
        <5>2. NextCluster(n2, c[i]) = c[i + 1]
          BY ONLY <5>1, <4>2, <3>3, Zenon DEF NextCluster, NextOn
        <5>3. c[i] \in Clusters /\ fat'[c[i]] = fat[c[i]]
          BY <5>1, <4>6, <1>4
        <5>4. NextCluster(n2, c[i])' = NextCluster(n2, c[i])
          BY <5>3, NextStays
        <5> QED BY ONLY <5>2, <5>4, Zenon
      <4>11. AllFresh(c, KeptSize(n2, o2))'
        <5> PICK s : s = KeptSize(n, o)
          OBVIOUS
        <5>1. s \in Nat /\ s <= n.size /\ n.size \in Nat
          BY <1>2, <1>4 DEF Typed
        <5>2. \A i \in 0 .. s - 1 : i \in 0 .. n.size - 1
          BY ONLY <5>1
        <5>3. AllFresh(c, s)
          BY <5>2, <1>4 DEF AllFresh
        <5>4. KeptSize(n2, o2) = s
          BY <4>4
        <5>5. AllFresh(c, s)'
          BY ONLY <5>3, <1>3, Zenon DEF AllFresh, Fresh
        <5> QED BY ONLY <5>4, <5>5, Zenon DEF KeptSize
      <4>12. o2.full => n2.size < o2.size /\ Remembered(n2, o2, c, low .. o2.current - 1)'
        <5> HAVE o2.full
        <5>1. n.size < o.size /\ Remembered(n, o, c, kept .. count - 1)
          BY <1>4, <3>2
        <5>2. n2.size < o2.size
          BY <5>1, <3>2, <3>3
        <5>3. Remembered(n2, o2, c, kept .. count - 1)'
          <6>1. Remembered(n2, o2, c, kept .. count - 1)
            BY ONLY <5>1, <3>2, <3>3, ZenonT(30) DEF Remembered
          <6> QED BY ONLY <6>1, <1>3, Zenon DEF Remembered, Needed
        <5> QED BY ONLY <5>2, <5>3, <4>5, Zenon DEF Remembered
      <4>13. ~o2.full => n2.size > o2.size
        BY <1>4, <3>2, <3>3
      <4>14. d = (0 .. kept - 1) \cup (low .. o2.current - 1)
        BY ONLY <1>4, <1>5, <4>5
      <4>15. o2.left > 0 => o2.cluster = c[low]
        BY <3>2, <4>3, <4>5
      <4>16. Asked(n2, o2)'
        BY ONLY <1>4, <3>2, <3>3, Zenon DEF Asked, Counts, Overflows, Needed
      <4>17. kept <= low
        BY <1>4, <4>5
      <4>18. Freeing(n2, o2, c, d)'
        BY ONLY <4>4, <4>5, <4>7, <4>8, <4>9, <4>10, <4>11, <4>12, <4>13, <4>14, <4>15, <4>16,
           <4>17, low = o2.current - o2.left, Zenon DEF Freeing, Kept, KeptSize, Needed
      <4>19. Under(n2, o2, c, d)'
        BY ONLY <3>2, <4>18, Zenon DEF Under
      <4>20. Saved(n2, entry[f])
        BY <1>1, <1>4, <3>3 DEF Saved, InfoOf, Known
      <4>21. InCallAfter(f, n2, o2, c, d)
        BY ONLY <3>2, <4>19, <4>20, Zenon DEF InCallAfter
      <4>22. Ours(f, own, c, d)
        BY <1>3, <1>4, NowOurs
      <4>23. Goes(f, n2, o2)
        BY <1>3, <1>4, <3>1, <3>2, <4>1 DEF Goes
      <4> QED BY ONLY Base, Now(ch, D, f, c, d, n, o), own = Own(ch, D, f),
              <1>1, <3>5, <4>21, <4>22, <4>23, NowStep DEF Known
    <3> QED BY <2>4, <3>6, <3>7
  <2> QED BY <2>5, <2>7, <2>8
<1> QED BY <1>8, <1>9

LEMMA FreeingNow ==
    ASSUME Base, NEW ch, NEW D, NEW f, NEW c, NEW d, NEW n, NEW o,
           Now(ch, D, f, c, d, n, o),
           o.pc = "freeing", f \notin hurt, NEW kept, kept = Kept(n, o), NEW count, count = o.current,
           NEW low, low = count - o.left
    PROVE  /\ kept \in Nat /\ count \in Nat /\ o.left \in Nat /\ low \in Nat
           /\ kept <= low /\ low + o.left = count
           /\ Asked(n, o)
           /\ o.full => n.size < o.size /\ Remembered(n, o, c, low .. count - 1)
           /\ ~o.full => n.size > o.size
           /\ d = (0 .. kept - 1) \cup (low .. count - 1)
           /\ Linked(n, c, kept) /\ Ended(n, c, kept) /\ Pointed(n, c, kept)
           /\ o.left > 0 => low \in d /\ o.cluster = c[low]
           /\ \A i \in low .. count - 2 : NextCluster(n, c[i]) = c[i + 1]
           /\ \A i \in d : c[i] \in Clusters
           /\ ~o.full => o.then # "write"
           /\ KeptSize(n, o) \in Nat /\ kept = Needed(KeptSize(n, o))
           /\ AllFresh(c, KeptSize(n, o))
<1>1. Known(f, c, d, n, o)
  BY NowIs
<1>2. Typed(f, n, o)
  BY TypedNow
<1>5. Freeing(n, o, c, d)
  BY <1>1 DEF Under, Known
<1>6. /\ Asked(n, o) /\ o.left <= o.current /\ kept <= low
      /\ o.full => n.size < o.size /\ Remembered(n, o, c, low .. count - 1)
      /\ ~o.full => n.size > o.size
      /\ d = (0 .. kept - 1) \cup (low .. count - 1)
      /\ Linked(n, c, kept) /\ Ended(n, c, kept) /\ Pointed(n, c, kept)
      /\ o.left > 0 => o.cluster = c[low]
      /\ \A i \in low .. count - 2 : NextCluster(n, c[i]) = c[i + 1]
      /\ AllFresh(c, KeptSize(n, o))
  BY ONLY <1>5, kept = Kept(n, o), count = o.current, low = count - o.left, Zenon DEF Freeing
<1>7. n.size \in Nat /\ o.size \in Nat /\ o.left \in Nat /\ count \in Nat /\ o.full \in BOOLEAN
  BY <1>2 DEF Typed
<1>8. KeptSize(n, o) \in Nat
  BY ONLY <1>7 DEF KeptSize
<1>9. kept = Needed(KeptSize(n, o)) /\ kept \in Nat
  BY <1>8, CountTyped DEF Kept
<1>10. low \in Nat /\ low + o.left = count
  <2>1. o.left <= count
    BY <1>6
  <2> QED BY ONLY <2>1, <1>7, low = count - o.left
<1>11. o.left > 0 => low \in d
  BY ONLY <1>6, <1>7, <1>9, <1>10
<1>12. \A i \in d : c[i] \in Clusters
  BY <1>1 DEF Known
<1>13. ~o.full => o.then # "write"
  <2>1. o.then = "write" => n.size < o.size
    BY <1>6 DEF Asked
  <2>2. ~(n.size > o.size /\ n.size < o.size)
    BY <1>7
  <2> QED BY ONLY <2>1, <2>2, <1>6, Zenon
<1> QED BY ONLY <1>6, <1>7, <1>8, <1>9, <1>10, <1>11, <1>12, <1>13, Zenon

LEMMA FreeClusterHeld ==
    ASSUME Base, NEW ch, NEW D, NEW f, NEW c, NEW d, NEW n, NEW o,
           Now(ch, D, f, c, d, n, o), FreeCluster
    PROVE  Owns'
<1> PICK o2 : o2 = op'
  OBVIOUS
<1>1. Known(f, c, d, n, o)
  BY NowIs
<1>2. Typed(f, n, o)
  BY TypedNow
<1>3. /\ o.pc = "freeing" /\ o.left > 0 /\ ~CLUSTER_INVALID(o.cluster) /\ clean' = clean
      /\ entry' = entry /\ node' = [node EXCEPT ![f] = n]
  BY <1>2 DEF FreeCluster, Typed
<1> PICK kept : kept = Kept(n, o)
  OBVIOUS
<1> PICK count : count = o.current
  OBVIOUS
<1> PICK low : low = count - o.left
  OBVIOUS
<1>a. f \notin hurt
  BY <1>1, <1>3 DEF Hurt, Known
<1>4. /\ kept \in Nat /\ count \in Nat /\ o.left \in Nat /\ low \in Nat
      /\ kept <= low /\ low + o.left = count
      /\ Asked(n, o)
      /\ o.full => n.size < o.size /\ Remembered(n, o, c, low .. count - 1)
      /\ ~o.full => n.size > o.size
      /\ d = (0 .. kept - 1) \cup (low .. count - 1)
      /\ Linked(n, c, kept) /\ Ended(n, c, kept) /\ Pointed(n, c, kept)
      /\ o.left > 0 => low \in d /\ o.cluster = c[low]
      /\ \A i \in low .. count - 2 : NextCluster(n, c[i]) = c[i + 1]
      /\ \A i \in d : c[i] \in Clusters
      /\ ~o.full => o.then # "write"
      /\ KeptSize(n, o) \in Nat /\ kept = Needed(KeptSize(n, o))
      /\ AllFresh(c, KeptSize(n, o))
  BY ONLY Base, Now(ch, D, f, c, d, n, o), <1>3, <1>a, kept = Kept(n, o), count = o.current,
     low = count - o.left, FreeingNow
<1> PICK own : own = Own(ch, D, f)
  OBVIOUS
<1> PICK k : k = o.cluster
  OBVIOUS
<1>5. own = {c[i] : i \in d} /\ low \in d /\ k = c[low] /\ k \in own /\ k \in Clusters
  <2>1. own = {c[i] : i \in d}
    BY <1>a DEF Own, Places, Now
  <2> QED BY <2>1, <1>3, <1>4
<1> DEFINE P(next, fails) ==
         /\ Failed(op.f, Count(next.failed) + Count(fails))
         /\ IF fails THEN Return(FALSE) /\ UNCHANGED <<fat, bmap, bmapDirty, stale>>
            ELSE /\ fat' = SetNext(fat, File, op.cluster, EXFAT_CLUSTER_FREE)
                 /\ bmap' = bmap \ ({op.cluster} \cap Bits)
                 /\ bmapDirty' = (bmapDirty \/ op.cluster \in Bits)
                 /\ stale' = stale \cup (({op.cluster} \cap Clusters) \X (0 .. CLUSTER_SIZE - 1))
                 /\ op' = [op EXCEPT !.cluster = next.cluster, !.left = @ - 1]
<1>6. PICK next \in NextClusters(File, op.cluster) : \E fails \in Outcomes(Count(next.failed), ~File.contiguous) : P(next, fails)
  BY DEF FreeCluster
<1>7. PICK fails \in Outcomes(Count(next.failed), ~File.contiguous) : P(next, fails)
  BY <1>6
<1>8. /\ next \in NextClusters(n, k)
      /\ Failed(f, Count(next.failed) + Count(fails))
      /\ fails => Return(FALSE) /\ fat' = fat /\ bmap' = bmap /\ stale' = stale
      /\ ~fails => /\ fat' = SetNext(fat, n, k, EXFAT_CLUSTER_FREE)
                   /\ bmap' = bmap \ ({k} \cap Bits)
                   /\ stale' = stale \cup (({k} \cap Clusters) \X (0 .. CLUSTER_SIZE - 1))
                   /\ o2 = [o EXCEPT !.cluster = next.cluster, !.left = @ - 1]
  BY <1>7, <1>2 DEF Typed
<1>9. /\ next.failed \in BOOLEAN /\ (next.failed => CanFault(0)) /\ next.cluster \in Nat
      /\ next.cluster = IF next.failed THEN EXFAT_CLUSTER_BAD ELSE NextCluster(n, k)
  <2>1. k \in Nat
    BY <1>5, ClusterNumbers
  <2> QED BY <1>2, <1>8, <2>1, NextClustersAre DEF Typed
<1>10. fails \in BOOLEAN /\ (fails => CanFault(Count(next.failed)))
  BY OutcomesAre
<1>11. /\ ~next.failed /\ ~fails => hurt' = hurt
       /\ next.failed \/ fails => hurt' = hurt \cup {f}
  BY <1>2, <1>8, <1>9, <1>10, Counted DEF Typed
<1>12. CASE fails
  <2>1. Return(FALSE) /\ fat' = fat /\ bmap' = bmap /\ stale' = stale
    BY <1>8, <1>12
  <2>2. o2.pc \notin {"idle", "aborted"} => o2.f = f /\ Hurt(n, o2)
    BY <1>2, <2>1, ReturnHurts DEF Typed
  <2>3. f \in hurt' /\ hurt \subseteq hurt' /\ hurt' \subseteq hurt \cup {f}
    BY <1>11, <1>12
  <2> QED BY <1>3, <2>1, <2>2, <2>3, QuietHurt
<1>13. CASE ~fails
  <2> PICK after, left : after = next.cluster /\ left = o.left - 1
    OBVIOUS
  <2>1. /\ fat' = SetNext(fat, n, k, EXFAT_CLUSTER_FREE)
        /\ bmap' = bmap \ ({k} \cap Bits)
        /\ stale' = stale \cup ({k} \X (0 .. CLUSTER_SIZE - 1))
        /\ o2 = [o EXCEPT !.cluster = after, !.left = left]
    BY <1>5, <1>8, <1>13
  <2>2. /\ o2.pc = "freeing" /\ o2.cluster = after /\ o2.f = f /\ o2.then = o.then
        /\ o2.size = o.size /\ o2.erase = o.erase /\ o2.offset = o.offset /\ o2.len = o.len
        /\ o2.full = o.full /\ o2.current = o.current /\ o2.left = left
        /\ o2.before = o.before
    <3>1. left \in Int /\ after \in Nat
      BY <1>4, <1>9
    <3> QED BY ONLY <1>2, <1>3, <2>1, <3>1 DEF OpsOf, Typed
  <2>3. \A x \in Clusters : x # k => Untouched(x)
    <3>1. fat \in [Clusters -> Nat] /\ EXFAT_CLUSTER_FREE \in Nat
      BY <1>2, ClusterNumbers DEF Typed
    <3> PICK free, table : free = EXFAT_CLUSTER_FREE /\ table = SetNext(fat, n, k, free)
      OBVIOUS
    <3>2. \A x \in Clusters : x # k => table[x] = fat[x]
      BY <3>1, SetNextIs
    <3>3. table = fat'
      BY <2>1
    <3>4. \A x : x # k => \A b : <<x, b>> \in stale' => <<x, b>> \in stale
      BY ONLY <2>1
    <3> QED BY ONLY <3>2, <3>3, <3>4, Zenon DEF Untouched
  <2>4. Clears(own)
    <3>1. \A x \in bmap \ own : x \in Clusters /\ x # k /\ x \in bmap'
      BY <1>2, <1>5, <2>1 DEF Typed
    <3> QED BY ONLY <3>1, <2>3, Zenon DEF Clears
  <2>5. ASSUME next.failed PROVE Owns'
    <3>1. hurt' = hurt \cup {f}
      BY <1>11, <2>5
    <3>2. Hurt(n, o2)
      <4>1. CLUSTER_INVALID(o2.cluster)
        BY <1>9, <2>2, <2>5, ClusterNumbers
      <4>2. o2.full \/ (o2.size < n.size /\ o2.then # "write")
        BY <1>2, <1>4, <2>2 DEF Typed
      <4> QED BY ONLY <4>1, <4>2, <2>2, Zenon DEF Hurt
    <3>3. Goes(f, n, o2)
      BY <1>3, <2>2, <3>1, <3>2 DEF Goes
    <3>4. f \in hurt'
      BY <3>1
    <3> QED BY ONLY Base, Now(ch, D, f, c, d, n, o), own = Own(ch, D, f),
            <1>1, <2>4, <3>3, <3>4, NowStep DEF Known
  <2>6. ASSUME ~next.failed PROVE Owns'
    <3>1. hurt' = hurt
      BY <1>11, <1>13, <2>6
    <3> PICK low2, d2 : low2 = low + 1 /\ d2 = d \ {low}
      OBVIOUS
    <3>2. /\ o.left > 0 /\ o.left \in Nat /\ left \in Nat /\ kept <= low2 /\ left <= count
          /\ low2 = count - left /\ o2.left <= o2.current /\ low2 = o2.current - o2.left
      <4>1. o2.left = left /\ o2.current = count
        BY <2>2
      <4> QED BY ONLY <1>3, <1>4, <4>1, left = o.left - 1, low2 = low + 1
    <3>3. d2 = (0 .. kept - 1) \cup (low2 .. count - 1) /\ d2 \in SUBSET Nat
      <4>1. (0 .. kept - 1) \cup (low2 .. count - 1) = ((0 .. kept - 1) \cup (low .. count - 1)) \ {low}
        BY ONLY <1>4, low2 = low + 1
      <4>2. d2 = (0 .. kept - 1) \cup (low2 .. count - 1)
        BY ONLY <4>1, <1>4, d2 = d \ {low}
      <4>3. (0 .. kept - 1) \cup (low2 .. count - 1) \subseteq Nat
        BY ONLY <1>4, low2 = low + 1
      <4> QED BY ONLY <4>2, <4>3
    <3>4. \A i \in d2 : i \in d /\ c[i] # k /\ c[i] \in Clusters /\ Untouched(c[i])
      <4> TAKE i \in d2
      <4>1. i \in d /\ i # low
        BY d2 = d \ {low}
      <4>2. c[i] # k /\ c[i] \in Clusters
        <5>1. \A j, l \in d : c[j] = c[l] => j = l
          BY <1>1, <1>a DEF Known
        <5>2. low \in d /\ k = c[low] /\ c[i] \in Clusters
          BY <4>1, <1>1, <1>a, <1>5 DEF Known
        <5> QED BY ONLY <4>1, <5>1, <5>2, Zenon
      <4> QED BY ONLY <4>1, <4>2, <2>3, Zenon
    <3>5. \A i \in 0 .. kept - 1 : i \in d2
      BY ONLY <3>3
    <3>6. Linked(n, c, kept)'
      <4>1. \A i \in 0 .. kept - 2 : i \in d2
        BY ONLY <3>3, <1>4
      <4>2. \A i \in 0 .. kept - 2 : c[i] \in Clusters /\ fat'[c[i]] = fat[c[i]]
        BY ONLY <4>1, <3>4, Zenon DEF Untouched
      <4> QED BY ONLY <4>2, <1>4, LinkedStays
    <3>7. Ended(n, c, kept)'
      <4>1. kept > 0 => kept - 1 \in d2
        BY ONLY <3>3, <1>4
      <4>2. kept > 0 => fat'[c[kept - 1]] = fat[c[kept - 1]]
        BY ONLY <4>1, <3>4, Zenon DEF Untouched
      <4>3. Ended(n, c, kept)
        BY <1>4
      <4> QED BY ONLY <4>2, <4>3, Zenon DEF Ended
    <3>8. Pointed(n, c, kept)'
      BY ONLY <1>4, Zenon DEF Pointed
    <3>9. KeptSize(n, o2) = KeptSize(n, o) /\ Kept(n, o2) = kept
      <4>1. KeptSize(n, o2) = KeptSize(n, o)
        BY <2>2 DEF KeptSize
      <4> QED BY <4>1, <1>4 DEF Kept
    <3>10. AllFresh(c, KeptSize(n, o2))'
      <4> PICK s : s = KeptSize(n, o)
        OBVIOUS
      <4>1. s \in Nat /\ AllFresh(c, s) /\ Needed(s) = kept
        BY <1>4
      <4>2. \A j \in 0 .. Needed(s) - 1 : Untouched(c[j])
        BY ONLY <4>1, <3>4, <3>5
      <4>3. AllFresh(c, s)'
        BY ONLY <4>1, <4>2, FreshStays
      <4>4. s = KeptSize(n, o2)
        BY <3>9
      <4> QED BY ONLY <4>3, <4>4, Zenon DEF KeptSize
    <3>11. o2.left > 0 => o2.cluster = c[low2]
      <4> HAVE o2.left > 0
      <4>1. low \in low .. count - 2
        <5>1. left > 0
          BY <2>2
        <5> QED BY ONLY <5>1, <1>4, <3>2, left = o.left - 1
      <4>2. NextCluster(n, c[low]) = c[low + 1]
        BY <4>1, <1>4
      <4> QED BY <4>2, <1>5, <1>9, <2>2, <2>6
    <3>12. \A i \in low2 .. o2.current - 2 : NextCluster(n, c[i])' = c[i + 1]
      <4> TAKE i \in low2 .. o2.current - 2
      <4>0. o2.current = count
        BY <2>2
      <4>1. i \in low .. count - 2 /\ i \in d2
        BY ONLY <4>0, <1>4, <3>3, low2 = low + 1, i \in low2 .. o2.current - 2
      <4>2. NextCluster(n, c[i]) = c[i + 1]
        BY <4>1, <1>4
      <4>3. c[i] \in Clusters /\ fat'[c[i]] = fat[c[i]]
        BY <4>1, <3>4 DEF Untouched
      <4>4. NextCluster(n, c[i])' = NextCluster(n, c[i])
        BY <4>3, NextStays
      <4> QED BY ONLY <4>2, <4>4, Zenon
    <3>13. o2.full => n.size < o2.size /\ Remembered(n, o2, c, low2 .. o2.current - 1)'
      <4> HAVE o2.full
      <4>0. o2.current = count
        BY <2>2
      <4>1. n.size < o2.size /\ Remembered(n, o, c, low .. count - 1)
        BY <1>4, <2>2
      <4>2. bmap' \ {c[j] : j \in low2 .. count - 1} = bmap \ {c[j] : j \in low .. count - 1}
        <5>1. \A j : j \in low .. count - 1 <=> j = low \/ j \in low2 .. count - 1
          BY ONLY <1>3, <1>4, low2 = low + 1
        <5>2. k \in Bits
          BY <4>1, <5>1, <1>5 DEF Remembered
        <5> QED BY ONLY <5>1, <5>2, <1>5, <2>1
      <4>a. \A j \in low2 .. count - 1 : c[j] \in Bits
        <5>1. low2 .. count - 1 \subseteq low .. count - 1
          BY ONLY <1>4, low2 = low + 1
        <5> QED BY ONLY <4>1, <5>1, Zenon DEF Remembered
      <4>3. /\ o2.before.used = bmap \ {c[j] : j \in low .. count - 1}
            /\ o2.before.chain \in [0 .. Needed(n.size) - 1 -> Nat]
            /\ \A j \in 0 .. Needed(n.size) - 1 : o2.before.chain[j] = c[j]
        BY ONLY <4>1, <2>2, Zenon DEF Remembered
      <4>4. o2.before.used = bmap' \ {c[j] : j \in low2 .. count - 1}
        BY ONLY <4>2, <4>3, Zenon
      <4>5. Remembered(n, o2, c, low2 .. count - 1)'
        BY ONLY <4>3, <4>4, <4>a, Zenon DEF Remembered, Needed
      <4> QED BY ONLY <4>0, <4>1, <4>5, Zenon DEF Remembered
    <3>14. ~o2.full => n.size > o2.size
      BY <1>4, <2>2
    <3>15. Asked(n, o2)'
      BY ONLY <1>4, <2>2, Zenon DEF Asked, Counts, Overflows, Needed
    <3>16. d2 = (0 .. kept - 1) \cup (low2 .. o2.current - 1)
      BY <2>2, <3>3
    <3>17. Freeing(n, o2, c, d2)'
      BY ONLY <3>2, <3>6, <3>7, <3>8, <3>9, <3>10, <3>11, <3>12, <3>13, <3>14, <3>15, <3>16,
         Zenon DEF Freeing, Kept, KeptSize, Needed
    <3>18. Under(n, o2, c, d2)'
      BY ONLY <2>2, <3>17, Zenon DEF Under
    <3>19. InCallAfter(f, n, o2, c, d2)
      BY ONLY <2>2, <3>18, <1>1, <1>a, Zenon DEF InCallAfter, Known
    <3>20. Ours(f, own, c, d2)
      <4>1. \A i \in d2 : c[i] \in bmap' \ Reserved /\ c[i] \in own
        BY <3>4, <1>1, <1>a, <1>5, <2>1 DEF Known
      <4>2. \A i, j \in d2 : c[i] = c[j] => i = j
        BY <3>4, <1>1, <1>a DEF Known
      <4>3. \A x \in bmap' \ Tail : x \in bmap \ own \/ \E i \in d2 : c[i] = x
        <5> TAKE x \in bmap' \ Tail
        <5>1. CASE x \in own
          <6>1. PICK i \in d : c[i] = x
            BY <5>1, <1>5
          <6>2. i # low
            BY <6>1, <1>5, <2>1 DEF Tail
          <6> QED BY <6>1, <6>2, d2 = d \ {low}
        <5> QED BY <5>1, <2>1
      <4> QED BY ONLY <4>1, <4>2, <4>3, Zenon DEF Ours
    <3>21. Goes(f, n, o2)
      BY <1>3, <1>a, <2>2, <3>1 DEF Goes
    <3> QED BY ONLY Base, Now(ch, D, f, c, d, n, o), own = Own(ch, D, f),
            <1>1, <2>4, <3>3, <3>19, <3>20, <3>21, NowStep DEF Known
  <2> QED BY <1>9, <2>5, <2>6
<1> QED BY <1>10, <1>12, <1>13

LEMMA FreeInvalidHeld ==
    ASSUME Base, NEW ch, NEW D, NEW f, NEW c, NEW d, NEW n, NEW o,
           Now(ch, D, f, c, d, n, o), FreeInvalid
    PROVE  Owns'
<1> PICK o2 : o2 = op'
  OBVIOUS
<1>1. Known(f, c, d, n, o)
  BY NowIs
<1>2. Typed(f, n, o)
  BY TypedNow
<1>3. /\ o.pc = "freeing" /\ o.left > 0 /\ CLUSTER_INVALID(o.cluster) /\ Return(FALSE)
      /\ Quiet /\ clean' = clean /\ entry' = entry /\ hurt' = hurt
      /\ node' = [node EXCEPT ![f] = n]
  BY <1>2 DEF FreeInvalid, medium, memory, history, Quiet, Typed
<1>4. f \in hurt
  <2> SUFFICES ASSUME f \notin hurt PROVE FALSE
    OBVIOUS
  <2> PICK kept, count : kept = Kept(n, o) /\ count = o.current
    OBVIOUS
  <2> PICK low : low = count - o.left
    OBVIOUS
  <2>1. /\ o.left > 0 => low \in d /\ o.cluster = c[low]
        /\ \A i \in d : c[i] \in Clusters
    BY ONLY Base, Now(ch, D, f, c, d, n, o), <1>3, f \notin hurt, kept = Kept(n, o),
       count = o.current, low = count - o.left, FreeingNow
  <2>2. o.cluster \in Clusters
    BY <2>1, <1>3
  <2> QED BY <2>2, <1>3, ClusterNumbers
<1>5. o2.pc \notin {"idle", "aborted"} => o2.f = f /\ Hurt(n, o2)
  BY <1>2, <1>3, ReturnHurts DEF Typed
<1>6. fat' = fat /\ bmap' = bmap /\ stale' \subseteq stale
  BY <1>3 DEF Quiet
<1> QED BY <1>3, <1>4, <1>5, <1>6, QuietHurt

LEMMA ShrinkDoneHeld ==
    ASSUME Base, NEW ch, NEW D, NEW f, NEW c, NEW d, NEW n, NEW o,
           Now(ch, D, f, c, d, n, o), ShrinkDone
    PROVE  Owns'
<1> PICK o2 : o2 = op'
  OBVIOUS
<1>1. Known(f, c, d, n, o)
  BY NowIs
<1>2. Typed(f, n, o)
  BY TypedNow
<1>3. /\ o.pc = "freeing" /\ o.left = 0
      /\ IF o.full THEN Return(FALSE) ELSE o2 = [o EXCEPT !.pc = "erase"]
      /\ Quiet /\ clean' = clean /\ entry' = entry /\ hurt' = hurt
      /\ node' = [node EXCEPT ![f] = n]
  BY <1>2 DEF ShrinkDone, medium, memory, history, Quiet, Typed
<1>4. ~o.full => /\ o2.pc = "erase" /\ o2.f = f /\ o2.then = o.then
                 /\ o2.size = o.size /\ o2.erase = o.erase /\ o2.offset = o.offset
                 /\ o2.len = o.len /\ o2.full = o.full
  <2> HAVE ~o.full
  <2>1. o2 = [o EXCEPT !.pc = "erase"]
    BY <1>3
  <2> QED BY ONLY <1>2, <2>1 DEF OpsOf, Typed
<1>5. fat' = fat /\ bmap' = bmap /\ stale' \subseteq stale
  BY <1>3 DEF Quiet
<1>6. CASE f \in hurt
  <2>1. o.full => (o2.pc \notin {"idle", "aborted"} => o2.f = f /\ Hurt(n, o2))
    <3> HAVE o.full
    <3>1. Return(FALSE)
      BY <1>3
    <3> QED BY <1>2, <3>1, ReturnHurts DEF Typed
  <2>2. ~o.full => o2.f = f /\ Hurt(n, o2)
    <3> HAVE ~o.full
    <3>1. o.size < n.size /\ o.then # "write"
      BY <1>1, <1>3, <1>6 DEF Hurt, Known
    <3> QED BY <1>4, <3>1 DEF Hurt
  <2>3. o2.pc \notin {"idle", "aborted"} => o2.f = f /\ Hurt(n, o2)
    BY ONLY <2>1, <2>2, Zenon
  <2> QED BY <1>3, <1>5, <1>6, <2>3, QuietHurt
<1>7. CASE f \notin hurt
  <2> PICK kept, count : kept = Kept(n, o) /\ count = o.current
    OBVIOUS
  <2> PICK low : low = count - o.left
    OBVIOUS
  <2>1. /\ kept \in Nat /\ count \in Nat /\ o.left \in Nat /\ low \in Nat
        /\ Asked(n, o)
        /\ o.full => n.size < o.size /\ Remembered(n, o, c, low .. count - 1)
        /\ ~o.full => n.size > o.size
        /\ d = (0 .. kept - 1) \cup (low .. count - 1)
        /\ Linked(n, c, kept) /\ Ended(n, c, kept) /\ Pointed(n, c, kept)
        /\ ~o.full => o.then # "write"
        /\ KeptSize(n, o) \in Nat /\ kept = Needed(KeptSize(n, o))
        /\ AllFresh(c, KeptSize(n, o))
    BY ONLY Base, Now(ch, D, f, c, d, n, o), <1>3, <1>7, kept = Kept(n, o), count = o.current,
       low = count - o.left, FreeingNow
  <2>2. d = 0 .. kept - 1
    BY ONLY <1>3, <2>1, low = count - o.left
  <2>3. Saved(n, entry[f])
    BY <1>1, <1>7 DEF Known
  <2>4. CASE o.full
    <3>1. KeptSize(n, o) = n.size
      BY <2>4 DEF KeptSize
    <3>2. Lies(n, c, d)
      BY ONLY <1>2, <2>1, <2>2, <3>1, Zenon DEF Lies, Whole, Typed
    <3>3. o.then # "free"
      <4>1. o.then = "free" => o.size = 0
        BY <2>1 DEF Asked
      <4>2. n.size < o.size /\ n.size \in Nat
        BY <1>2, <2>1, <2>4 DEF Typed
      <4> QED BY ONLY <4>1, <4>2
    <3>4. Return(FALSE) /\ op.then # "free"
      BY <1>2, <1>3, <2>4, <3>3 DEF Typed
    <3> QED BY <1>3, <1>7, <2>3, <3>2, <3>4, QuietReturn
  <2>5. CASE ~o.full
    <3>1. KeptSize(n, o) = o.size
      BY <2>5 DEF KeptSize
    <3>2. Least(n.size, o2.size) = o.size
      BY <1>2, <1>4, <2>1, <2>5, SMTT(30) DEF Least, Typed
    <3>3. Asked(n, o2)
      BY ONLY <1>4, <2>1, <2>5, Zenon DEF Asked, Counts
    <3>4. kept = Needed(o2.size)
      BY <1>4, <2>1, <2>5, <3>1
    <3>5. Erases(n, o2, c, d)
      BY ONLY <1>4, <2>1, <2>2, <2>5, <3>1, <3>2, <3>3, <3>4, Zenon DEF Erases, Sizing
    <3>6. Under(n, o2, c, d) /\ o2.pc \in Pcs /\ o2.f = f
      BY ONLY <1>4, <2>5, <3>5, Zenon DEF Under, Pcs
    <3> QED BY <1>3, <1>7, <2>3, <3>6, QuietTo
  <2> QED BY <2>4, <2>5
<1> QED BY <1>6, <1>7

\* What erase_range makes fresh.
LEMMA ErasedFresh ==
    ASSUME NEW c, NEW k \in Nat, NEW b \in Nat, NEW s \in Nat, NEW from \in Nat, NEW top \in Nat,
           AllFresh(c, b), k * CLUSTER_SIZE + from <= b, from < CLUSTER_SIZE,
           s <= (k + 1) * CLUSTER_SIZE, s - k * CLUSTER_SIZE <= top,
           stale' = stale \ Bytes(c[k], from, top)
    PROVE  AllFresh(c, s)'
<1>1. ASSUME NEW i \in 0 .. s - 1 PROVE Fresh(c, i)'
  <2>1. CASE i < b
    <3>1. i \in 0 .. b - 1
      BY <2>1
    <3>2. Fresh(c, i)
      BY <3>1 DEF AllFresh
    <3> QED BY <3>2 DEF Fresh
  <2>2. CASE ~(i < b)
    <3> PICK size : size = CLUSTER_SIZE
      OBVIOUS
    <3>1. k * size \in Nat /\ (k + 1) * size = k * size + size
      BY Products
    <3> PICK low : low = k * size
      OBVIOUS
    <3>2. i \in Nat /\ low <= i /\ i < low + size /\ i - low \in from .. top - 1
      <4>1. i < s /\ b <= i /\ i \in Nat
        BY ONLY <1>1, <2>2, s \in Nat, b \in Nat
      <4>2. low + from <= b /\ s <= low + size /\ s - low <= top /\ low \in Nat
        BY ONLY <3>1, low = k * size, size = CLUSTER_SIZE, k * CLUSTER_SIZE + from <= b,
           s <= (k + 1) * CLUSTER_SIZE, s - k * CLUSTER_SIZE <= top
      <4>3. size \in Nat
        BY ClusterSize
      <4> QED BY ONLY <4>1, <4>2, <4>3, from \in Nat, top \in Nat, s \in Nat, b \in Nat
    <3>3. i \div CLUSTER_SIZE = k /\ i % CLUSTER_SIZE = i - low
      <4>1. k * CLUSTER_SIZE <= i /\ i < (k + 1) * CLUSTER_SIZE
        BY <3>1, <3>2
      <4>2. i \div CLUSTER_SIZE = k /\ i % CLUSTER_SIZE = i - k * CLUSTER_SIZE
        BY ONLY <3>2, <4>1, k \in Nat, Quotient
      <4> QED BY ONLY <4>2, low = k * size, size = CLUSTER_SIZE, Zenon
    <3>4. <<c[k], i - low>> \in Bytes(c[k], from, top)
      BY ONLY <3>2 DEF Bytes
    <3> QED BY ONLY <3>3, <3>4, stale' = stale \ Bytes(c[k], from, top) DEF Fresh
  <2> QED BY <2>1, <2>2
<1> QED BY <1>1 DEF AllFresh

LEMMA EraseHeld ==
    ASSUME Base, NEW ch, NEW D, NEW f, NEW c, NEW d, NEW n, NEW o,
           Now(ch, D, f, c, d, n, o), Erase
    PROVE  Owns'
<1> PICK o2 : o2 = op'
  OBVIOUS
<1>1. Known(f, c, d, n, o)
  BY NowIs
<1>2. Typed(f, n, o)
  BY TypedNow
<1>3. /\ o.pc = "erase" /\ o.erase /\ n.size < o.size /\ fat' = fat /\ bmap' = bmap
      /\ clean' = clean /\ entry' = entry
  BY <1>2 DEF Erase, CanErase, medium, Typed
<1>a. f \notin hurt
  <2> SUFFICES ASSUME f \in hurt PROVE FALSE
    OBVIOUS
  <2>1. o.size < n.size
    BY <1>1, <1>3 DEF Hurt, Known
  <2> QED BY ONLY <1>2, <1>3, <2>1 DEF Typed
<1> PICK count : count = Needed(o.size)
  OBVIOUS
<1>4. /\ Asked(n, o) /\ ~o.full /\ count \in Nat
      /\ d = 0 .. count - 1 /\ Linked(n, c, count) /\ Ended(n, c, count)
      /\ Pointed(n, c, count)
      /\ AllFresh(c, n.size) /\ \A i \in 0 .. count - 1 : c[i] \in Clusters
  <2>1. Erases(n, o, c, d)
    BY <1>1, <1>3, <1>a DEF Under, Known
  <2>2. /\ Asked(n, o) /\ ~o.full
        /\ d = 0 .. count - 1 /\ Linked(n, c, count) /\ Ended(n, c, count)
        /\ Pointed(n, c, count) /\ AllFresh(c, Least(n.size, o.size))
    BY ONLY <2>1, count = Needed(o.size), Zenon DEF Erases, Sizing
  <2>3. Least(n.size, o.size) = n.size
    BY <1>3 DEF Least
  <2>4. \A i \in d : c[i] \in Clusters
    BY <1>1, <1>a DEF Known
  <2> QED BY <1>2, <2>2, <2>3, <2>4 DEF Typed
<1> PICK size, s, b : size = CLUSTER_SIZE /\ s = o.size /\ b = n.size
  OBVIOUS
<1> PICK k, from : k = b \div size /\ from = b % size
  OBVIOUS
<1> PICK boundary : boundary = (k + 1) * size
  OBVIOUS
<1> PICK upTo : upTo = IF boundary < s THEN boundary ELSE s
  OBVIOUS
<1> PICK top : top = upTo - boundary + size
  OBVIOUS
<1>5. /\ k \in Nat /\ from \in Nat /\ from < size /\ k * size + from = b /\ k \in 0 .. count - 1
      /\ b \in Nat /\ s \in Nat /\ size \in Nat /\ size > 0 /\ b < s
      /\ k * size \in Nat /\ boundary = k * size + size
  <2>1. b \in Nat /\ s \in Nat /\ b < s
    BY <1>2, <1>3 DEF Typed
  <2>2. size \in Nat /\ size > 0
    BY ClusterSize
  <2>3. k \in Nat /\ from \in 0 .. size - 1 /\ b = k * size + from
    BY ONLY <2>1, Division, k = b \div size, from = b % size, size = CLUSTER_SIZE
  <2>4. k * size \in Nat /\ (k + 1) * size = k * size + size
    BY <2>3, Products
  <2>5. b \in 0 .. s - 1
    BY ONLY <2>1
  <2>6. \A i \in 0 .. s - 1 : i \div CLUSTER_SIZE \in 0 .. Needed(s) - 1
    BY ONLY <2>1, ClusterCount
  <2>7. k \in 0 .. count - 1
    BY ONLY <2>5, <2>6, k = b \div size, size = CLUSTER_SIZE, count = Needed(o.size),
       s = o.size
  <2> QED BY ONLY <2>1, <2>2, <2>3, <2>4, <2>7, boundary = (k + 1) * size
<1>6. /\ boundary \in Nat /\ upTo \in Nat /\ top \in Nat /\ upTo <= boundary
      /\ upTo - k * size <= top
  BY ONLY <1>5, upTo = IF boundary < s THEN boundary ELSE s, top = upTo - boundary + size, SMTT(30)
<1> DEFINE P(a, fails) ==
        LET bound == (File.size \div CLUSTER_SIZE + 1) * CLUSTER_SIZE
            up == IF bound < op.size THEN bound ELSE op.size
        IN  /\ SetFile(a.node)
            /\ Failed(op.f, Count(a.failed) + Count(fails))
            /\ IF CLUSTER_INVALID(a.node.cluster) \/ fails
               THEN Return(FALSE) /\ UNCHANGED stale
               ELSE /\ stale' = stale \ Bytes(a.node.cluster, File.size % CLUSTER_SIZE,
                                              up - bound + CLUSTER_SIZE)
                    /\ op' = [op EXCEPT !.pc = "erasing", !.boundary = bound,
                                        !.cluster = a.node.cluster]
<1>7. PICK a \in Advanced(File, IndexOf(File.size)) :
         \E fails \in Outcomes(Count(a.failed), ~CLUSTER_INVALID(a.node.cluster)) : P(a, fails)
  BY DEF Erase
<1>8. PICK fails \in Outcomes(Count(a.failed), ~CLUSTER_INVALID(a.node.cluster)) : P(a, fails)
  BY ONLY <1>7, Zenon
<1>c. IndexOf(b) = k
  <2>1. \A i, j \in d : c[i] = c[j] => i = j
    BY <1>1, <1>a DEF Known
  <2>2. c \in [Nat -> Nat]
    BY <1>1 DEF Known
  <2>3. k \in d /\ k = b \div CLUSTER_SIZE /\ \A i \in d : c[i] \in Clusters
    BY <1>4, <1>5
  <2>4. count < UINT32
    BY <1>4, <2>1, <2>2, <2>3, ChainFits
  <2>5. b \div CLUSTER_SIZE \in 0 .. count - 1
    BY <1>4, <2>3
  <2> QED BY <1>4, <1>5, <2>3, <2>4, <2>5, IndexInChain
<1>b. /\ File.size \div CLUSTER_SIZE = k /\ File.size % CLUSTER_SIZE = from
      /\ IndexOf(File.size) = k
      /\ File = n /\ op = o /\ op.f = f /\ op.size = s /\ op' = o2 /\ CLUSTER_SIZE = size
  BY ONLY <1>2, <1>c, o2 = op', k = b \div size, from = b % size, size = CLUSTER_SIZE, s = o.size,
     b = n.size, Zenon DEF Typed
<1>9. /\ a \in Advanced(n, k)
      /\ node' = [node EXCEPT ![f] = a.node]
      /\ Failed(f, Count(a.failed) + Count(fails))
      /\ CLUSTER_INVALID(a.node.cluster) \/ fails => Return(FALSE) /\ stale' = stale
      /\ ~(CLUSTER_INVALID(a.node.cluster) \/ fails) =>
           /\ stale' = stale \ Bytes(a.node.cluster, from, top)
           /\ o2 = [o EXCEPT !.pc = "erasing", !.boundary = boundary,
                             !.cluster = a.node.cluster]
  <2>1. /\ a \in Advanced(n, k)
        /\ SetFile(a.node)
        /\ Failed(f, Count(a.failed) + Count(fails))
        /\ CLUSTER_INVALID(a.node.cluster) \/ fails => Return(FALSE) /\ stale' = stale
    BY ONLY <1>7, <1>8, <1>b, Zenon
  <2>2. node' = [node EXCEPT ![f] = a.node]
    BY <2>1, <1>b DEF SetFile
  <2>3. ~(CLUSTER_INVALID(a.node.cluster) \/ fails) =>
           /\ stale' = stale \ Bytes(a.node.cluster, from, top)
           /\ o2 = [o EXCEPT !.pc = "erasing", !.boundary = boundary,
                             !.cluster = a.node.cluster]
    BY ONLY <1>8, <1>b, boundary = (k + 1) * size, top = upTo - boundary + size,
       upTo = IF boundary < s THEN boundary ELSE s
  <2> QED BY ONLY <2>1, <2>2, <2>3, Zenon
<1>10. /\ a.failed \in BOOLEAN /\ (a.failed => CanFault(0))
       /\ a.node \in Nodes /\ a.node # NoNode /\ Alike(n, a.node)
       /\ a.node.index = k
       /\ ~a.failed => a.node.cluster = c[k] /\ ~CLUSTER_INVALID(a.node.cluster)
       /\ a.failed => CLUSTER_INVALID(a.node.cluster)
  <2>1. /\ k \in 0 .. count - 1 /\ fat \in [Clusters -> Nat] /\ n \in Nodes /\ n # NoNode
        /\ count \in Nat /\ Linked(n, c, count) /\ Pointed(n, c, count)
        /\ \A i \in 0 .. count - 1 : c[i] \in Clusters
    BY <1>2, <1>4, <1>5 DEF Typed
  <2> QED BY ONLY <2>1, <1>9, AdvancedLinked
<1>11. fails \in BOOLEAN /\ (fails => CanFault(Count(a.failed)))
  BY OutcomesAre
<1>12. /\ ~a.failed /\ ~fails => hurt' = hurt
       /\ a.failed \/ fails => hurt' = hurt \cup {f}
  BY <1>2, <1>9, <1>10, <1>11, Counted DEF Typed
<1>13. CASE a.failed \/ fails
  <2>1. Return(FALSE) /\ stale' = stale
    BY <1>9, <1>10, <1>13
  <2>2. o2.pc \notin {"idle", "aborted"} => o2.f = f /\ Hurt(a.node, o2)
    BY <1>2, <2>1, ReturnHurts DEF Typed
  <2>3. f \in hurt' /\ hurt \subseteq hurt' /\ hurt' \subseteq hurt \cup {f}
    BY <1>12, <1>13
  <2>4. stale' \subseteq stale /\ node' = [node EXCEPT ![f] = a.node]
    BY <1>9, <2>1
  <2> QED BY ONLY Base, Now(ch, D, f, c, d, n, o), o2 = op', <1>3, <2>2, <2>3, <2>4, QuietHurt
<1>14. CASE ~a.failed /\ ~fails
  <2> PICK n2 : n2 = a.node
    OBVIOUS
  <2>1. /\ stale' = stale \ Bytes(c[k], from, top) /\ n2.cluster = c[k] /\ n2.index = k
        /\ o2 = [o EXCEPT !.pc = "erasing", !.boundary = boundary, !.cluster = c[k]]
        /\ Alike(n, n2) /\ node' = [node EXCEPT ![f] = n2] /\ hurt' = hurt
    BY <1>9, <1>10, <1>12, <1>14
  <2>2. /\ o2.pc = "erasing" /\ o2.f = f /\ o2.then = o.then
        /\ o2.size = o.size /\ o2.erase = o.erase /\ o2.offset = o.offset
        /\ o2.len = o.len /\ o2.full = o.full /\ o2.boundary = boundary /\ o2.cluster = c[k]
    BY ONLY <1>2, <2>1 DEF OpsOf, Typed
  <2>3. n2.size = n.size /\ n2.start = n.start /\ n2.contiguous = n.contiguous
    BY <2>1 DEF Alike
  <2>4. Linked(n2, c, count) /\ Ended(n2, c, count) /\ Saved(n2, entry[f])
    BY <2>1, <1>1, <1>a, <1>4, AlikeHolds, ZenonT(30) DEF Known
  <2>5. Linked(n2, c, count)' /\ Ended(n2, c, count)'
    BY <2>4, <1>3, PartsSame
  <2>6. Pointed(n2, c, count)'
    <3>1. n2.index < count
      BY <2>1, <1>5, <1>4
    <3> QED BY ONLY <2>1, <3>1, Zenon DEF Pointed
  <2>7. Asked(n2, o2)'
    BY ONLY <1>4, <2>2, <2>3, Zenon DEF Asked, Counts, Overflows, Needed
  <2>8. Sizing(n2, o2, c, d)'
    BY ONLY <1>4, <2>2, <2>5, <2>6, <2>7, count = Needed(o.size), Zenon
       DEF Sizing, Needed
  <2>9. AllFresh(c, upTo)'
    <3>1. AllFresh(c, b) /\ stale' = stale \ Bytes(c[k], from, top)
      BY <1>4, <2>1
    <3>2. k * CLUSTER_SIZE + from <= b /\ from < CLUSTER_SIZE /\ upTo <= (k + 1) * CLUSTER_SIZE
          /\ upTo - k * CLUSTER_SIZE <= top
      BY <1>5, <1>6
    <3>3. k \in Nat /\ b \in Nat /\ upTo \in Nat /\ from \in Nat /\ top \in Nat
      BY <1>5, <1>6
    <3> QED BY ONLY <3>1, <3>2, <3>3, ErasedFresh
  <2>10. upTo = Least(o2.boundary, o2.size)
    BY <2>2 DEF Least
  <2>11. AllFresh(c, Least(o2.boundary, o2.size))'
    BY ONLY <2>9, <2>10, Zenon DEF Least
  <2>12. \E j \in d : o2.boundary = (j + 1) * CLUSTER_SIZE /\ o2.cluster = c[j]
    BY <1>4, <1>5, <2>2
  <2>13. o2.erase /\ n2.size < o2.size
    BY <1>3, <2>2, <2>3
  <2>14. Erasing(n2, o2, c, d)'
    BY ONLY <2>8, <2>11, <2>12, <2>13, Zenon DEF Erasing
  <2>15. Under(n2, o2, c, d)'
    BY ONLY <2>2, <2>14, Zenon DEF Under
  <2>16. InCallAfter(f, n2, o2, c, d)
    BY ONLY <2>2, <2>4, <2>15, Zenon DEF InCallAfter
  <2>17. Goes(f, n2, o2)
    BY <1>3, <1>a, <2>1, <2>2 DEF Goes
  <2>18. stale' \subseteq stale
    BY <2>1
  <2> QED BY ONLY Base, Now(ch, D, f, c, d, n, o), <1>3, <2>16, <2>17, <2>18, QuietStep
<1> QED BY <1>10, <1>11, <1>13, <1>14

LEMMA ErasingNow ==
    ASSUME Base, NEW ch, NEW D, NEW f, NEW c, NEW d, NEW n, NEW o,
           Now(ch, D, f, c, d, n, o),
           o.pc = "erasing", NEW count, count = Needed(o.size)
    PROVE  /\ f \notin hurt /\ count \in Nat /\ o.erase /\ n.size < o.size
           /\ Asked(n, o) /\ ~o.full
           /\ d = 0 .. count - 1 /\ Linked(n, c, count) /\ Ended(n, c, count)
           /\ Pointed(n, c, count) /\ \A i \in 0 .. count - 1 : c[i] \in Clusters
           /\ \E k \in d : o.boundary = (k + 1) * CLUSTER_SIZE /\ o.cluster = c[k]
           /\ AllFresh(c, Least(o.boundary, o.size))
<1>1. Known(f, c, d, n, o)
  BY NowIs
<1>2. Typed(f, n, o)
  BY TypedNow
<1>3. f \notin hurt
  BY <1>1 DEF Hurt, Known
<1>4. Erasing(n, o, c, d)
  BY <1>1, <1>3 DEF Under, Known
<1>5. /\ o.erase /\ n.size < o.size /\ Asked(n, o) /\ ~o.full
      /\ d = 0 .. count - 1 /\ Linked(n, c, count) /\ Ended(n, c, count)
      /\ Pointed(n, c, count)
      /\ \E k \in d : o.boundary = (k + 1) * CLUSTER_SIZE /\ o.cluster = c[k]
      /\ AllFresh(c, Least(o.boundary, o.size))
  BY ONLY <1>4, count = Needed(o.size), Zenon DEF Erasing, Sizing
<1>6. \A i \in d : c[i] \in Clusters
  BY <1>1, <1>3 DEF Known
<1>7. \A i \in 0 .. count - 1 : c[i] \in Clusters
  BY ONLY <1>5, <1>6
<1>8. count \in Nat
  BY <1>2 DEF Typed
<1> QED BY ONLY <1>3, <1>5, <1>7, <1>8, Zenon

LEMMA EraseClusterHeld ==
    ASSUME Base, NEW ch, NEW D, NEW f, NEW c, NEW d, NEW n, NEW o,
           Now(ch, D, f, c, d, n, o), EraseCluster
    PROVE  Owns' /\ (op'.pc = "aborted" => f \in hurt')
<1> PICK o2 : o2 = op'
  OBVIOUS
<1>1. Known(f, c, d, n, o)
  BY NowIs
<1>2. Typed(f, n, o)
  BY TypedNow
<1>3. /\ o.pc = "erasing" /\ o.boundary < o.size /\ fat' = fat /\ bmap' = bmap
      /\ clean' = clean /\ entry' = entry /\ node' = [node EXCEPT ![f] = n]
  BY <1>2 DEF EraseCluster, medium, memory, Typed
<1> PICK count : count = Needed(o.size)
  OBVIOUS
<1>4. /\ f \notin hurt /\ count \in Nat /\ o.erase /\ n.size < o.size
      /\ Asked(n, o) /\ ~o.full
      /\ d = 0 .. count - 1 /\ Linked(n, c, count) /\ Ended(n, c, count)
      /\ Pointed(n, c, count) /\ \A i \in 0 .. count - 1 : c[i] \in Clusters
      /\ \E k \in d : o.boundary = (k + 1) * CLUSTER_SIZE /\ o.cluster = c[k]
      /\ AllFresh(c, Least(o.boundary, o.size))
  BY ONLY Base, Now(ch, D, f, c, d, n, o), <1>3, count = Needed(o.size), ErasingNow
<1> PICK size, s, b : size = CLUSTER_SIZE /\ s = o.size /\ b = o.boundary
  OBVIOUS
<1>5. PICK k \in d : b = (k + 1) * size /\ o.cluster = c[k]
  BY <1>4
<1> PICK after : after = b + size
  OBVIOUS
<1>6. /\ k \in Nat /\ k \in 0 .. count - 2 /\ k + 1 \in 0 .. count - 1
      /\ b \in Nat /\ s \in Nat /\ size \in Nat /\ size > 0 /\ b < s
      /\ after = ((k + 1) + 1) * size /\ after \in Nat
  <2>1. b \in Nat /\ s \in Nat /\ b < s /\ k \in 0 .. count - 1 /\ k \in Nat /\ count \in Nat
    BY <1>2, <1>3, <1>4 DEF Typed
  <2>2. size \in Nat /\ size > 0
    BY ClusterSize
  <2>3. \A j \in Nat : j * CLUSTER_SIZE < s => j < count
    BY <2>1, ClusterCount
  <2>4. k + 1 < count
    <3>1. k + 1 \in Nat /\ (k + 1) * CLUSTER_SIZE < s
      BY <2>1, <1>5
    <3> QED BY ONLY <3>1, <2>3
  <2>5. after = ((k + 1) + 1) * size
    <3>1. k + 1 \in Nat
      BY ONLY <2>1
    <3> PICK j : j = k + 1
      OBVIOUS
    <3>2. (j + 1) * CLUSTER_SIZE = j * CLUSTER_SIZE + CLUSTER_SIZE
      BY <3>1, Products
    <3> QED BY ONLY <3>2, <1>5, j = k + 1, after = b + size, size = CLUSTER_SIZE
  <2> QED BY ONLY <2>1, <2>2, <2>4, <2>5, after = b + size
<1> DEFINE P(next, fails) ==
         /\ Failed(op.f, Count(next.failed) + Count(fails))
         /\ IF CLUSTER_INVALID(next.cluster)
            THEN op' = [pc |-> "aborted"] /\ UNCHANGED stale
            ELSE IF fails THEN Return(FALSE) /\ UNCHANGED stale
            ELSE /\ stale' = stale \ Bytes(next.cluster, 0, CLUSTER_SIZE)
                 /\ op' = [op EXCEPT !.cluster = next.cluster,
                                     !.boundary = @ + CLUSTER_SIZE]
<1>7. PICK next \in NextClusters(File, op.cluster) : \E fails \in Outcomes(Count(next.failed), ~CLUSTER_INVALID(next.cluster)) : P(next, fails)
  BY DEF EraseCluster
<1>8. PICK fails \in Outcomes(Count(next.failed), ~CLUSTER_INVALID(next.cluster)) : P(next, fails)
  BY <1>7
<1>9. /\ next \in NextClusters(n, c[k])
      /\ Failed(f, Count(next.failed) + Count(fails))
      /\ CLUSTER_INVALID(next.cluster) => o2.pc = "aborted" /\ stale' = stale
      /\ ~CLUSTER_INVALID(next.cluster) /\ fails => Return(FALSE) /\ stale' = stale
      /\ ~CLUSTER_INVALID(next.cluster) /\ ~fails =>
           /\ stale' = stale \ Bytes(next.cluster, 0, CLUSTER_SIZE)
           /\ o2 = [o EXCEPT !.cluster = next.cluster, !.boundary = after]
  <2>1. o.cluster = c[k] /\ o.boundary + CLUSTER_SIZE = after
    BY ONLY <1>5, after = b + size, b = o.boundary, size = CLUSTER_SIZE
  <2>2. op.cluster = c[k] /\ op.boundary + CLUSTER_SIZE = after /\ File = n /\ op = o /\ op.f = f
    BY <1>2, <2>1, Zenon DEF Typed
  <2>3. /\ next \in NextClusters(n, c[k])
        /\ Failed(f, Count(next.failed) + Count(fails))
        /\ CLUSTER_INVALID(next.cluster) => op' = [pc |-> "aborted"] /\ stale' = stale
        /\ ~CLUSTER_INVALID(next.cluster) /\ fails => Return(FALSE) /\ stale' = stale
    BY ONLY <1>7, <1>8, <2>2, Zenon
  <2>4. ~CLUSTER_INVALID(next.cluster) /\ ~fails =>
           /\ stale' = stale \ Bytes(next.cluster, 0, CLUSTER_SIZE)
           /\ o2 = [o EXCEPT !.cluster = next.cluster, !.boundary = after]
    BY ONLY <1>8, <2>2, o2 = op'
  <2>5. op' = [pc |-> "aborted"] => o2.pc = "aborted"
    BY ONLY o2 = op'
  <2> QED BY ONLY <2>3, <2>4, <2>5, Zenon
<1>10. /\ next.failed \in BOOLEAN /\ (next.failed => CanFault(0)) /\ next.cluster \in Nat
       /\ next.cluster = IF next.failed THEN EXFAT_CLUSTER_BAD ELSE c[k + 1]
       /\ ~next.failed => ~CLUSTER_INVALID(next.cluster)
       /\ next.failed => CLUSTER_INVALID(next.cluster)
  <2>1. c[k] \in Nat /\ c[k + 1] \in Clusters
    <3>1. k \in 0 .. count - 1
      BY <1>6, <1>4
    <3> QED BY <3>1, <1>4, <1>6, ClusterNumbers
  <2>2. NextCluster(n, c[k]) = c[k + 1]
    BY <1>4, <1>6 DEF Linked
  <2>3. /\ next.failed \in BOOLEAN /\ (next.failed => CanFault(0)) /\ next.cluster \in Nat
        /\ next.cluster = IF next.failed THEN EXFAT_CLUSTER_BAD ELSE NextCluster(n, c[k])
    BY <1>2, <1>9, <2>1, NextClustersAre DEF Typed
  <2> QED BY ONLY <2>1, <2>2, <2>3, ClusterNumbers
<1>11. fails \in BOOLEAN /\ (fails => CanFault(Count(next.failed)))
  BY OutcomesAre
<1>12. /\ ~next.failed /\ ~fails => hurt' = hurt
       /\ next.failed \/ fails => hurt' = hurt \cup {f}
  BY <1>2, <1>9, <1>10, <1>11, Counted DEF Typed
<1>13. CASE next.failed \/ fails
  <2>1. o2.pc \notin {"idle", "aborted"} => o2.f = f /\ Hurt(n, o2)
    <3>1. ASSUME ~CLUSTER_INVALID(next.cluster) PROVE Return(FALSE)
      BY <1>9, <1>10, <1>13, <3>1
    <3>2. CLUSTER_INVALID(next.cluster) => o2.pc = "aborted"
      BY <1>9
    <3>3. Return(FALSE) => (o2.pc \notin {"idle", "aborted"} => o2.f = f /\ Hurt(n, o2))
      <4> HAVE Return(FALSE)
      <4> QED BY <1>2, ReturnHurts DEF Typed
    <3> QED BY ONLY <3>1, <3>2, <3>3
  <2>2. f \in hurt' /\ hurt \subseteq hurt' /\ hurt' \subseteq hurt \cup {f}
    BY <1>12, <1>13
  <2>3. stale' \subseteq stale
    BY <1>9, <1>10, <1>13
  <2>4. Owns'
    BY ONLY Base, Now(ch, D, f, c, d, n, o), o2 = op', <1>3, <2>1, <2>2, <2>3, QuietHurt
  <2> QED BY <2>2, <2>4
<1>14. CASE ~next.failed /\ ~fails
  <2>1. /\ stale' = stale \ Bytes(c[k + 1], 0, CLUSTER_SIZE) /\ hurt' = hurt
        /\ o2 = [o EXCEPT !.cluster = c[k + 1], !.boundary = after]
    BY <1>9, <1>10, <1>12, <1>14
  <2>2. /\ o2.pc = "erasing" /\ o2.f = f /\ o2.then = o.then
        /\ o2.size = o.size /\ o2.erase = o.erase /\ o2.offset = o.offset
        /\ o2.len = o.len /\ o2.full = o.full /\ o2.boundary = after /\ o2.cluster = c[k + 1]
    BY ONLY <1>2, <1>3, <2>1 DEF OpsOf, Typed
  <2>3. Linked(n, c, count)' /\ Ended(n, c, count)' /\ Pointed(n, c, count)'
    BY <1>3, <1>4, PartsSame
  <2>4. Asked(n, o2)'
    BY ONLY <1>4, <2>2, Zenon DEF Asked, Counts, Overflows, Needed
  <2>5. Sizing(n, o2, c, d)'
    BY ONLY <1>4, <2>2, <2>3, <2>4, count = Needed(o.size), Zenon
       DEF Sizing, Needed
  <2> PICK upTo : upTo = Least(after, s)
    OBVIOUS
  <2>6. AllFresh(c, upTo)'
    <3> PICK j : j = k + 1
      OBVIOUS
    <3>1. Least(b, s) = b
      BY <1>6 DEF Least
    <3>2. AllFresh(c, b) /\ stale' = stale \ Bytes(c[j], 0, CLUSTER_SIZE)
      BY <1>4, <2>1, <3>1
    <3>3. upTo \in Nat /\ upTo <= after
      BY ONLY <1>6, upTo = Least(after, s) DEF Least
    <3>4. /\ j * CLUSTER_SIZE + 0 <= b /\ 0 < CLUSTER_SIZE /\ upTo <= (j + 1) * CLUSTER_SIZE
          /\ upTo - j * CLUSTER_SIZE <= CLUSTER_SIZE
      <4>1. b = j * CLUSTER_SIZE /\ after = (j + 1) * CLUSTER_SIZE /\ after = b + CLUSTER_SIZE
        BY ONLY <1>5, <1>6, j = k + 1, size = CLUSTER_SIZE, after = b + size
      <4>2. CLUSTER_SIZE \in Nat /\ CLUSTER_SIZE > 0
        BY ClusterSize
      <4> PICK p, q : p = j * CLUSTER_SIZE /\ q = (j + 1) * CLUSTER_SIZE
        OBVIOUS
      <4>3. p + 0 <= b /\ 0 < CLUSTER_SIZE /\ upTo <= q /\ upTo - p <= CLUSTER_SIZE
        BY ONLY <3>3, <4>1, <4>2, <1>6, p = j * CLUSTER_SIZE, q = (j + 1) * CLUSTER_SIZE
      <4> QED BY ONLY <4>3, p = j * CLUSTER_SIZE, q = (j + 1) * CLUSTER_SIZE, Zenon
    <3>5. j \in Nat /\ b \in Nat /\ CLUSTER_SIZE \in Nat
      BY <1>6
    <3> QED BY ONLY <3>2, <3>3, <3>4, <3>5, ErasedFresh
  <2>7. upTo = Least(o2.boundary, o2.size)
    BY <2>2
  <2>8. AllFresh(c, Least(o2.boundary, o2.size))'
    BY ONLY <2>6, <2>7, Zenon DEF Least
  <2>9. \E j \in d : o2.boundary = (j + 1) * CLUSTER_SIZE /\ o2.cluster = c[j]
    <3>1. k + 1 \in d
      BY <1>4, <1>6
    <3> QED BY <3>1, <1>6, <2>2
  <2>10. o2.erase /\ n.size < o2.size
    BY <1>4, <2>2
  <2>11. Erasing(n, o2, c, d)'
    BY ONLY <2>5, <2>8, <2>9, <2>10, Zenon DEF Erasing
  <2>12. Under(n, o2, c, d)'
    BY ONLY <2>2, <2>11, Zenon DEF Under
  <2>13. Saved(n, entry[f])
    BY <1>1, <1>4 DEF Known
  <2>14. InCallAfter(f, n, o2, c, d)
    BY ONLY <2>2, <2>12, <2>13, Zenon DEF InCallAfter
  <2>15. Goes(f, n, o2)
    BY <1>3, <1>4, <2>1, <2>2 DEF Goes
  <2>16. stale' \subseteq stale
    BY <2>1
  <2>17. Owns'
    BY ONLY Base, Now(ch, D, f, c, d, n, o), <1>3, <2>14, <2>15, <2>16, QuietStep
  <2>18. op'.pc = "erasing"
    BY <2>2
  <2> QED BY <2>17, <2>18
<1> QED BY <1>10, <1>11, <1>13, <1>14

\* The size of the file and what is to be written behind it.
LEMMA ResizedFresh ==
    ASSUME NEW n, NEW o, NEW c, n.size \in Nat, o.size \in Nat, o.boundary \in Nat,
           o.offset \in Nat, Asked(n, o),
           \/ AllFresh(c, Least(n.size, o.size)) /\ ~(o.erase /\ n.size < o.size)
           \/ AllFresh(c, Least(o.boundary, o.size)) /\ o.boundary >= o.size
    PROVE  /\ AllFresh(c, o.size) \/ o.then = "write"
           /\ o.then = "write" =>
                \A i \in 0 .. o.size - 1 :
                  Fresh(c, i) \/ (o.offset <= i /\ o.size = o.offset + o.len)
<1>1. CASE AllFresh(c, Least(o.boundary, o.size)) /\ o.boundary >= o.size
  <2>1. Least(o.boundary, o.size) = o.size
    BY <1>1 DEF Least
  <2>2. AllFresh(c, o.size)
    BY <1>1, <2>1
  <2> QED BY <2>2 DEF AllFresh
<1>2. CASE AllFresh(c, Least(n.size, o.size)) /\ ~(o.erase /\ n.size < o.size)
  <2>1. CASE o.size <= n.size
    <3>1. Least(n.size, o.size) = o.size
      BY <2>1 DEF Least
    <3>2. AllFresh(c, o.size)
      BY <1>2, <3>1
    <3> QED BY <3>2 DEF AllFresh
  <2>2. CASE ~(o.size <= n.size)
    <3>1. n.size < o.size /\ Least(n.size, o.size) = n.size
      BY <2>2 DEF Least
    <3>2. AllFresh(c, n.size) /\ ~o.erase
      BY <1>2, <3>1
    <3>3. o.then = "write" /\ n.size >= o.offset /\ o.size = o.offset + o.len
      BY <3>2 DEF Asked
    <3>4. \A i \in 0 .. o.size - 1 : i \in 0 .. n.size - 1 \/ n.size <= i
      OBVIOUS
    <3> PICK size, begin : size = n.size /\ begin = o.offset
      OBVIOUS
    <3>5. ASSUME NEW i \in 0 .. o.size - 1, ~Fresh(c, i) PROVE begin <= i
      <4>1. i \in 0 .. size - 1 => Fresh(c, i)
        BY <3>2 DEF AllFresh
      <4>2. size <= i
        BY <4>1, <3>4, <3>5
      <4>3. begin <= size
        BY <3>3
      <4>4. begin \in Nat /\ size \in Nat /\ i \in Int
        OBVIOUS
      <4> QED BY ONLY <4>2, <4>3, <4>4
    <3> QED BY <3>3, <3>5
  <2> QED BY <2>1, <2>2
<1> QED BY <1>1, <1>2

LEMMA ResizeHeld ==
    ASSUME Base, NEW ch, NEW D, NEW f, NEW c, NEW d, NEW n, NEW o,
           Now(ch, D, f, c, d, n, o), Resize
    PROVE  Owns'
<1> PICK o2 : o2 = op'
  OBVIOUS
<1>1. Known(f, c, d, n, o)
  BY NowIs
<1>2. Typed(f, n, o)
  BY TypedNow
<1> PICK n2 : n2 = [n EXCEPT !.size = o.size, !.dirty = TRUE]
  OBVIOUS
<1>3. /\ \/ o.pc = "erase" /\ ~(o.erase /\ n.size < o.size)
         \/ o.pc = "erasing" /\ o.boundary >= o.size
      /\ Return(TRUE) /\ Quiet /\ clean' = clean /\ entry' = entry /\ hurt' = hurt
      /\ node' = [node EXCEPT ![f] = n2]
  BY <1>2 DEF Resize, CanErase, SetFile, medium, history, Quiet, Typed
<1>4. /\ n2.state = n.state /\ n2.start = n.start /\ n2.size = o.size /\ n2.index = n.index
      /\ n2.cluster = n.cluster /\ n2.contiguous = n.contiguous /\ n2.dirty /\ n2 # NoNode
  BY ONLY <1>2, n2 = [n EXCEPT !.size = o.size, !.dirty = TRUE] DEF NoNode, Typed
<1>5. o2 = IF o.then = "free" THEN [o EXCEPT !.pc = "free"]
           ELSE IF o.then = "write" THEN [o EXCEPT !.pc = "write"]
           ELSE Idle
  BY <1>2, <1>3 DEF Return, Typed
<1>6. fat' = fat /\ bmap' = bmap /\ stale' \subseteq stale
  BY <1>3 DEF Quiet
<1>7. CASE f \in hurt
  <2>1. o.then # "write" /\ o.pc = "erase"
    BY <1>1, <1>3, <1>7 DEF Hurt, Known
  <2>2. o2.pc \notin {"idle", "aborted"} => o2.f = f /\ o2.pc = "free"
    BY ONLY <1>2, <1>5, <2>1 DEF OpsOf, Idle, Typed
  <2>3. o2.pc \notin {"idle", "aborted"} => o2.f = f /\ Hurt(n2, o2)
    BY ONLY <2>2 DEF Hurt
  <2> QED BY ONLY Base, Now(ch, D, f, c, d, n, o), o2 = op', <1>3, <1>6, <1>7, <2>3, QuietHurt
<1>8. CASE f \notin hurt
  <2> PICK count : count = Needed(o.size)
    OBVIOUS
  <2>1. /\ Asked(n, o) /\ ~o.full /\ count \in Nat
        /\ d = 0 .. count - 1 /\ Linked(n, c, count) /\ Ended(n, c, count)
        /\ Pointed(n, c, count)
        /\ \/ AllFresh(c, Least(n.size, o.size)) /\ ~(o.erase /\ n.size < o.size)
           \/ AllFresh(c, Least(o.boundary, o.size)) /\ o.boundary >= o.size
    <3>1. CASE o.pc = "erase" /\ ~(o.erase /\ n.size < o.size)
      <4>1. Erases(n, o, c, d)
        BY <1>1, <1>8, <3>1 DEF Under, Known
      <4>2. count \in Nat
        BY <1>2 DEF Typed
      <4> QED BY ONLY <3>1, <4>1, <4>2, count = Needed(o.size), Zenon DEF Erases, Sizing
    <3>2. CASE o.pc = "erasing" /\ o.boundary >= o.size
      <4>1. Erasing(n, o, c, d)
        BY <1>1, <1>8, <3>2 DEF Under, Known
      <4>2. count \in Nat
        BY <1>2 DEF Typed
      <4> QED BY ONLY <3>2, <4>1, <4>2, count = Needed(o.size), Zenon DEF Erasing, Sizing
    <3> QED BY <1>3, <3>1, <3>2
  <2>2. /\ AllFresh(c, o.size) \/ o.then = "write"
        /\ o.then = "write" =>
             \A i \in 0 .. o.size - 1 :
               Fresh(c, i) \/ (o.offset <= i /\ o.size = o.offset + o.len)
    <3>1. n.size \in Nat /\ o.size \in Nat /\ o.boundary \in Nat /\ o.offset \in Nat
      BY <1>2 DEF Typed
    <3> QED BY ONLY <3>1, <2>1, ResizedFresh
  <2>3. Linked(n2, c, count) /\ Ended(n2, c, count) /\ Pointed(n2, c, count)
    BY ONLY <1>4, <2>1, Zenon DEF Linked, Ended, Pointed, NextCluster, NextOn
  <2>4. Whole(n2, c, d)
    BY ONLY <1>4, <2>1, <2>3, count = Needed(o.size), Zenon DEF Whole
  <2>5. Saved(n2, entry[f])
    BY <1>4 DEF Saved
  <2>6. CASE o.then = "write"
    <3>1. o2 = [o EXCEPT !.pc = "write"]
      BY <1>5, <2>6
    <3>2. /\ o2.pc = "write" /\ o2.f = f /\ o2.then = o.then /\ o2.full = o.full
          /\ o2.offset = o.offset /\ o2.len = o.len /\ o2.size = o.size
      BY ONLY <1>2, <3>1 DEF OpsOf, Typed
    <3>6. Counts(o2)
      BY <2>1, <3>2 DEF Asked, Counts
    <3>3. \A i \in 0 .. n2.size - 1 :
            Fresh(c, i) \/ (o2.offset <= i /\ n2.size = o2.offset + o2.len)
      BY ONLY <2>2, <2>6, <3>2, <1>4, Zenon
    <3>4. Writes(n2, o2, c, d)
      BY ONLY <2>1, <2>4, <2>6, <3>2, <3>3, <3>6, Zenon DEF Writes
    <3>5. Under(n2, o2, c, d) /\ o2.pc \in Pcs /\ o2.f = f
      BY ONLY <3>2, <3>4, Zenon DEF Under, Pcs
    <3> QED BY ONLY Base, Now(ch, D, f, c, d, n, o), o2 = op', <1>3, <1>8, <2>5, <3>5, QuietTo
  <2>7. CASE o.then # "write"
    <3>1. AllFresh(c, n2.size)
      BY <1>4, <2>2, <2>7
    <3>2. Lies(n2, c, d)
      BY ONLY <1>4, <2>4, <3>1, LiesIs
    <3>3. op.then = "free" => d = {}
      <4> HAVE op.then = "free"
      <4>1. o.size = 0
        BY <1>2, <2>1 DEF Asked, Typed
      <4>2. count = 0
        BY <1>2, <4>1, ClusterCount DEF Typed
      <4> QED BY <2>1, <4>2
    <3>4. op.then # "write"
      BY <1>2, <2>7 DEF Typed
    <3> QED BY ONLY Base, Now(ch, D, f, c, d, n, o), <1>3, <1>8, <2>5, <3>2, <3>3, <3>4, QuietReturn
  <2> QED BY <2>6, <2>7
<1> QED BY <1>7, <1>8

LEMMA FreeNodeHeld ==
    ASSUME Base, NEW ch, NEW D, NEW f, NEW c, NEW d, NEW n, NEW o,
           Now(ch, D, f, c, d, n, o), FreeNode
    PROVE  Owns'
<1> PICK o2 : o2 = op'
  OBVIOUS
<1>1. Known(f, c, d, n, o)
  BY NowIs
<1>2. Typed(f, n, o)
  BY TypedNow
<1>3. /\ o.pc = "free" /\ o2 = Idle
      /\ fat' = fat /\ bmap' = bmap /\ stale' \subseteq stale /\ clean' = clean
      /\ entry' = entry /\ hurt' = hurt /\ node' = [node EXCEPT ![f] = NoNode]
  BY <1>2 DEF FreeNode, SetFile, medium, history, Typed
<1>4. o2.pc = "idle"
  BY <1>3 DEF Idle
<1>5. f \notin hurt' => InCallAfter(f, NoNode, o2, c, d)
  <2> HAVE f \notin hurt'
  <2>1. d = {}
    BY <1>1, <1>3 DEF Under, Known
  <2>2. Lies(NoNode, c, d)'
    BY <2>1 DEF Lies
  <2>3. Saved(NoNode, entry[f])
    BY DEF Saved, NoNode
  <2> QED BY ONLY <1>4, <2>2, <2>3, Zenon DEF InCallAfter
<1>6. Goes(f, NoNode, o2)
  BY <1>3, <1>4 DEF Goes
<1> QED BY ONLY Base, Now(ch, D, f, c, d, n, o), <1>3, <1>5, <1>6, QuietStep

LEMMA WriteDoneHeld ==
    ASSUME Base, NEW ch, NEW D, NEW f, NEW c, NEW d, NEW n, NEW o,
           Now(ch, D, f, c, d, n, o), WriteDone
    PROVE  Owns'
<1> PICK o2 : o2 = op'
  OBVIOUS
<1>1. Known(f, c, d, n, o)
  BY NowIs
<1>2. Typed(f, n, o)
  BY TypedNow
<1> PICK n2 : n2 = [n EXCEPT !.dirty = TRUE]
  OBVIOUS
<1>3. /\ o.pc = "writing" /\ o.left = 0 /\ o2 = Idle
      /\ Quiet /\ fat' = fat /\ bmap' = bmap /\ stale' \subseteq stale /\ clean' = clean
      /\ entry' = entry /\ hurt' = hurt /\ node' = [node EXCEPT ![f] = n2]
  BY <1>2 DEF WriteDone, SetFile, medium, history, Quiet, Typed
<1>4. o2.pc = "idle"
  BY <1>3 DEF Idle
<1>5. /\ n2.state = n.state /\ n2.start = n.start /\ n2.size = n.size /\ n2.index = n.index
      /\ n2.cluster = n.cluster /\ n2.contiguous = n.contiguous /\ n2.dirty /\ n2 # NoNode
  BY ONLY <1>2, n2 = [n EXCEPT !.dirty = TRUE] DEF NoNode, Typed
<1>6. f \notin hurt' => InCallAfter(f, n2, o2, c, d)
  <2> HAVE f \notin hurt'
  <2>1. Writing(n, o, c, d)
    BY <1>1, <1>3 DEF Under, Known
  <2>2. Whole(n, c, d) /\ AllFresh(c, n.size)
    BY <2>1, <1>3 DEF Writing
  <2>3. Whole(n2, c, d)
    BY ONLY <1>5, <2>2, Zenon DEF Whole, Linked, Ended, Pointed, NextCluster, NextOn
  <2>4. Lies(n2, c, d)
    BY <1>5, <2>2, <2>3, LiesIs
  <2>5. Lies(n2, c, d)'
    BY <1>3, <2>4, LiesSame
  <2>6. Saved(n2, entry[f])
    BY <1>5 DEF Saved
  <2> QED BY ONLY <1>4, <2>5, <2>6, Zenon DEF InCallAfter
<1>7. Goes(f, n2, o2)
  BY <1>3, <1>4 DEF Goes
<1> QED BY ONLY Base, Now(ch, D, f, c, d, n, o), <1>3, <1>6, <1>7, QuietStep

LEMMA BeginWriteHeld ==
    ASSUME Base, NEW ch, NEW D, NEW f, NEW c, NEW d, NEW n, NEW o,
           Now(ch, D, f, c, d, n, o), BeginWrite
    PROVE  Owns'
<1> PICK o2 : o2 = op'
  OBVIOUS
<1>1. Known(f, c, d, n, o)
  BY NowIs
<1>2. Typed(f, n, o)
  BY TypedNow
<1>3. /\ o.pc = "write" /\ fat' = fat /\ bmap' = bmap /\ stale' = stale
      /\ clean' = clean /\ entry' = entry
  BY <1>2 DEF BeginWrite, medium, Typed
<1>4. f \notin hurt /\ Quiet
  BY <1>1, <1>3 DEF Hurt, Quiet, Known
<1> PICK size, offset, len : size = n.size /\ offset = o.offset /\ len = o.len
  OBVIOUS
<1>5. /\ o.then = "write" /\ ~o.full /\ Whole(n, c, d) /\ Saved(n, entry[f])
      /\ \A i \in 0 .. size - 1 : Fresh(c, i) \/ (offset <= i /\ size = offset + len)
      /\ size \in Nat /\ offset \in Nat /\ len \in Nat
      /\ ~Overflows(offset + len)
  <2>1. Writes(n, o, c, d) /\ Saved(n, entry[f])
    BY <1>1, <1>3, <1>4 DEF Under, Known
  <2>2. /\ o.then = "write" /\ ~o.full /\ Whole(n, c, d)
        /\ \A i \in 0 .. n.size - 1 :
             Fresh(c, i) \/ (o.offset <= i /\ n.size = o.offset + o.len)
        /\ ~Overflows(o.offset + o.len)
    BY ONLY <2>1, Zenon DEF Writes, Counts
  <2> QED BY <1>2, <2>1, <2>2 DEF Typed
<1> DEFINE Advances ==
          \E a \in Advanced(File, IndexOf(op.offset)) :
             /\ SetFile(a.node)
             /\ op' = IF CLUSTER_INVALID(a.node.cluster) THEN Idle
                      ELSE [op EXCEPT !.pc = "writing", !.left = op.len,
                                      !.offset = @ % CLUSTER_SIZE,
                                      !.cluster = a.node.cluster]
             /\ Failed(op.f, Count(a.failed))
<1>6. IF offset > size
      THEN /\ o2 = [o EXCEPT !.pc = "truncate", !.size = offset, !.erase = TRUE]
           /\ hurt' = hurt /\ node' = [node EXCEPT ![f] = n]
      ELSE IF offset + len > size
      THEN /\ o2 = [o EXCEPT !.pc = "truncate", !.size = offset + len, !.erase = FALSE]
           /\ hurt' = hurt /\ node' = [node EXCEPT ![f] = n]
      ELSE IF len = 0 THEN o2 = Idle /\ hurt' = hurt /\ node' = [node EXCEPT ![f] = n]
      ELSE Advances
  <2>1. File.size = size /\ op.offset = offset /\ op.len = len
    BY <1>2 DEF Typed
  <2>2. node' = node => node' = [node EXCEPT ![f] = n]
    BY <1>2 DEF Typed
  <2>3. IF offset > size
        THEN /\ op' = [op EXCEPT !.pc = "truncate", !.size = offset, !.erase = TRUE]
             /\ hurt' = hurt /\ node' = node
        ELSE IF offset + len > size
        THEN /\ op' = [op EXCEPT !.pc = "truncate", !.size = offset + len, !.erase = FALSE]
             /\ hurt' = hurt /\ node' = node
        ELSE IF len = 0 THEN op' = Idle /\ hurt' = hurt /\ node' = node
        ELSE Advances
    <3> PICK Else : Else <=> Advances
      OBVIOUS
    <3>1. BeginWrite
      OBVIOUS
    <3> QED BY ONLY <3>1, <2>1, Zenon DEF BeginWrite, NoFault
  <2>4. op = o /\ op' = o2
    BY <1>2 DEF Typed
  <2> QED BY ONLY <2>2, <2>3, <2>4, Zenon
<1>7. ASSUME NEW s, NEW erase \in BOOLEAN, s \in Nat, size < s,
             erase \/ (size >= offset /\ s = offset + len),
             size < offset \/ size < offset + len, ~Overflows(s),
             o2 = [o EXCEPT !.pc = "truncate", !.size = s, !.erase = erase],
             hurt' = hurt, node' = [node EXCEPT ![f] = n]
      PROVE  Owns'
  <2>1. /\ o2.pc = "truncate" /\ o2.f = f /\ o2.then = o.then /\ o2.full = o.full
        /\ o2.size = s /\ o2.erase = erase /\ o2.offset = o.offset /\ o2.len = o.len
    BY ONLY <1>2, <1>7 DEF OpsOf, Typed
  <2>2. AllFresh(c, n.size)
    <3>1. \A i \in 0 .. size - 1 : ~(offset <= i /\ size = offset + len)
      BY ONLY <1>5, <1>7
    <3>2. \A i \in 0 .. n.size - 1 : Fresh(c, i)
      BY ONLY <3>1, <1>5, size = n.size, Zenon
    <3> QED BY ONLY <3>2, Zenon DEF AllFresh
  <2>3. Asked(n, o2)
    <3>1. ~o2.erase => n.size >= o2.offset /\ o2.size = o2.offset + o2.len
      BY <2>1, <1>7
    <3>2. o2.then = "write" /\ n.size < o2.size
      BY <2>1, <1>5, <1>7
    <3>3. Counts(o2)
      BY <2>1, <1>5, <1>7 DEF Counts
    <3> QED BY ONLY <3>1, <3>2, <3>3 DEF Asked
  <2>4. Starting(n, o2, c, d)
    BY ONLY <1>5, <2>1, <2>2, <2>3, Zenon DEF Starting
  <2>5. Under(n, o2, c, d) /\ o2.pc \in Pcs
    BY ONLY <2>1, <2>4, Zenon DEF Under, Pcs
  <2> QED BY ONLY Base, Now(ch, D, f, c, d, n, o), o2 = op', <1>3, <1>4, <1>5, <1>7, <2>1, <2>5, QuietTo
<1>8. CASE offset > size
  <2>1. ~Overflows(offset)
    <3>1. offset + len \in Nat /\ offset <= offset + len
      BY ONLY <1>5
    <3>2. Needed(offset) <= Needed(offset + len) /\ Needed(offset) \in Nat /\ Needed(offset + len) \in Nat
      BY ONLY <1>5, <3>1, CountGrows, CountTyped
    <3> QED BY ONLY <1>5, <3>2, WordSize DEF Overflows
  <2> QED BY ONLY <1>5, <1>6, <1>7, <1>8, <2>1
<1>9. CASE ~(offset > size) /\ offset + len > size
  <2>1. offset + len \in Nat /\ size < offset + len /\ size >= offset
    BY ONLY <1>5, <1>9
  <2> QED BY ONLY <1>5, <1>6, <1>7, <1>9, <2>1
<1>10. CASE ~(offset > size) /\ ~(offset + len > size) /\ len = 0
  <2>1. o2 = Idle /\ hurt' = hurt /\ node' = [node EXCEPT ![f] = n]
    BY <1>6, <1>10
  <2>2. o2.pc = "idle"
    BY <2>1 DEF Idle
  <2>3. AllFresh(c, n.size)
    <3>1. \A i \in 0 .. size - 1 : ~(offset <= i /\ size = offset + len)
      BY ONLY <1>5, <1>10
    <3>2. \A i \in 0 .. n.size - 1 : Fresh(c, i)
      BY ONLY <3>1, <1>5, size = n.size, Zenon
    <3> QED BY ONLY <3>2, Zenon DEF AllFresh
  <2>4. Lies(n, c, d)
    BY <1>2, <1>5, <2>3, LiesIs DEF Typed
  <2>5. Lies(n, c, d)'
    BY <1>4, <2>4, LiesSame
  <2>6. InCallAfter(f, n, o2, c, d)
    BY ONLY <2>2, <1>5, <2>5, Zenon DEF InCallAfter
  <2>7. Goes(f, n, o2)
    BY <1>3, <2>1, <2>2 DEF Goes
  <2>8. stale' \subseteq stale
    BY <1>3
  <2> QED BY ONLY Base, Now(ch, D, f, c, d, n, o), <1>3, <2>6, <2>7, <2>8, QuietStep
<1>11. CASE ~(offset > size) /\ ~(offset + len > size) /\ len # 0
  <2>1. PICK a \in Advanced(File, IndexOf(op.offset)) :
             /\ SetFile(a.node)
             /\ op' = IF CLUSTER_INVALID(a.node.cluster) THEN Idle
                      ELSE [op EXCEPT !.pc = "writing", !.left = op.len,
                                      !.offset = @ % CLUSTER_SIZE,
                                      !.cluster = a.node.cluster]
             /\ Failed(op.f, Count(a.failed))
    BY ONLY <1>6, <1>11, Zenon
  <2> PICK bytes : bytes = CLUSTER_SIZE
    OBVIOUS
  <2> PICK k, from : k = offset \div bytes /\ from = offset % bytes
    OBVIOUS
  <2> PICK count : count = Needed(n.size)
    OBVIOUS
  <2>3. /\ k \in Nat /\ from \in Nat /\ from < bytes /\ k * bytes + from = offset
        /\ k \in 0 .. count - 1 /\ offset < size /\ len > 0 /\ offset + len <= size
        /\ bytes \in Nat
    <3>1. bytes \in Nat /\ bytes > 0
      BY ClusterSize
    <3>2. offset < size /\ len > 0 /\ offset + len <= size
      BY ONLY <1>5, <1>11
    <3>3. k \in Nat /\ from \in 0 .. bytes - 1 /\ offset = k * bytes + from
      BY ONLY <1>5, Division, k = offset \div bytes, from = offset % bytes, bytes = CLUSTER_SIZE
    <3>4. \A i \in 0 .. size - 1 : i \div CLUSTER_SIZE \in 0 .. Needed(size) - 1
      BY ONLY <1>5, ClusterCount
    <3>5. offset \in 0 .. size - 1
      BY ONLY <1>5, <3>2
    <3>6. k \in 0 .. count - 1
      BY ONLY <3>4, <3>5, k = offset \div bytes, bytes = CLUSTER_SIZE,
         count = Needed(n.size), size = n.size
    <3> QED BY ONLY <3>1, <3>2, <3>3, <3>6
  <2>4. d = 0 .. count - 1 /\ Linked(n, c, count) /\ Ended(n, c, count) /\ Pointed(n, c, count)
    BY <1>5 DEF Whole
  <2>9. IndexOf(offset) = k
    <3>1. \A i \in d : c[i] \in Clusters
      BY <1>1, <1>4 DEF Known
    <3>2. \A i, j \in d : c[i] = c[j] => i = j
      BY <1>1, <1>4 DEF Known
    <3>3. count \in Nat /\ k \in d /\ c \in [Nat -> Nat]
      BY <1>1, <1>2, <2>3, <2>4 DEF Known, Typed
    <3>4. k = offset \div CLUSTER_SIZE
      OBVIOUS
    <3>5. count < UINT32
      BY <2>4, <3>1, <3>2, <3>3, ChainFits
    <3> QED BY <1>5, <2>4, <3>3, <3>4, <3>5, IndexInChain
  <2>2. /\ a \in Advanced(n, k) /\ node' = [node EXCEPT ![f] = a.node]
        /\ Failed(f, Count(a.failed))
        /\ o2 = IF CLUSTER_INVALID(a.node.cluster) THEN Idle
                ELSE [o EXCEPT !.pc = "writing", !.left = len, !.offset = from,
                               !.cluster = a.node.cluster]
    <3>1. /\ File = n /\ op = o /\ op.f = f /\ op.len = len /\ op' = o2
          /\ IndexOf(op.offset) = k /\ op.offset % CLUSTER_SIZE = from
      BY ONLY <1>2, <2>9, from = offset % bytes, bytes = CLUSTER_SIZE,
         offset = o.offset, len = o.len, o2 = op', Zenon DEF Typed
    <3>2. a \in Advanced(n, k) /\ SetFile(a.node) /\ Failed(f, Count(a.failed))
      BY ONLY <2>1, <3>1, Zenon
    <3>3. node' = [node EXCEPT ![f] = a.node]
      BY ONLY <3>1, <3>2, Zenon DEF SetFile
    <3>4. o2 = IF CLUSTER_INVALID(a.node.cluster) THEN Idle
                ELSE [o EXCEPT !.pc = "writing", !.left = len, !.offset = from,
                               !.cluster = a.node.cluster]
      BY ONLY <2>1, <3>1
    <3> QED BY ONLY <3>2, <3>3, <3>4, Zenon
  <2>5. /\ a.failed \in BOOLEAN /\ (a.failed => CanFault(0))
        /\ a.node \in Nodes /\ a.node # NoNode /\ Alike(n, a.node)
        /\ a.node.index = k
        /\ ~a.failed => a.node.cluster = c[k] /\ ~CLUSTER_INVALID(a.node.cluster)
        /\ a.failed => CLUSTER_INVALID(a.node.cluster)
    <3>1. \A i \in 0 .. count - 1 : c[i] \in Clusters
      BY <1>1, <1>4, <2>4 DEF Known
    <3>2. /\ k \in 0 .. count - 1 /\ fat \in [Clusters -> Nat] /\ n \in Nodes /\ n # NoNode
          /\ count \in Nat
      BY <1>2, <2>3 DEF Typed
    <3> QED BY ONLY <2>2, <2>4, <3>1, <3>2, AdvancedLinked
  <2>6. /\ ~a.failed => hurt' = hurt
        /\ a.failed => hurt' = hurt \cup {f}
    BY <1>2, <2>2, <2>5, CountedOne DEF Typed
  <2>7. CASE a.failed
    <3>1. o2 = Idle
      BY <2>2, <2>5, <2>7
    <3>2. o2.pc \notin {"idle", "aborted"} => o2.f = f /\ Hurt(a.node, o2)
      BY <3>1 DEF Idle
    <3>3. f \in hurt' /\ hurt \subseteq hurt' /\ hurt' \subseteq hurt \cup {f}
      BY <2>6, <2>7
    <3>4. stale' \subseteq stale
      BY <1>3
    <3> QED BY ONLY Base, Now(ch, D, f, c, d, n, o), o2 = op', <1>3, <2>2, <3>2, <3>3, <3>4, QuietHurt
  <2>8. CASE ~a.failed
    <3> PICK n2 : n2 = a.node
      OBVIOUS
    <3>1. /\ n2.cluster = c[k] /\ n2.index = k /\ Alike(n, n2)
          /\ node' = [node EXCEPT ![f] = n2] /\ hurt' = hurt
          /\ o2 = [o EXCEPT !.pc = "writing", !.left = len, !.offset = from, !.cluster = c[k]]
      BY <2>2, <2>5, <2>6, <2>8
    <3>2. /\ o2.pc = "writing" /\ o2.f = f /\ o2.then = o.then /\ o2.left = len
          /\ o2.offset = from /\ o2.cluster = c[k]
      BY ONLY <1>2, <3>1 DEF OpsOf, Typed
    <3>3. n2.size = n.size
      BY <3>1 DEF Alike
    <3>4. Linked(n2, c, count) /\ Ended(n2, c, count) /\ Saved(n2, entry[f])
      BY <3>1, <1>5, <2>4, AlikeHolds
    <3>5. Pointed(n2, c, count)
      <4>1. n2.index < count
        <5>1. k < count /\ n2.index = k
          <6>1. k \in 0 .. count - 1 /\ count \in Nat
            BY <1>2, <2>3 DEF Typed
          <6> QED BY ONLY <6>1, <3>1
        <5> QED BY ONLY <5>1, Zenon
      <4> QED BY ONLY <3>1, <4>1, Zenon DEF Pointed
    <3>6. Whole(n2, c, d)
      BY ONLY <2>4, <3>3, <3>4, <3>5, count = Needed(n.size), Zenon DEF Whole
    <3>7. \A i \in 0 .. n2.size - 1 : Fresh(c, i) \/ i \in offset .. offset + len - 1
      <4>1. \A i \in 0 .. size - 1 :
              offset <= i /\ size = offset + len => i \in offset .. offset + len - 1
        BY ONLY <1>5
      <4> QED BY ONLY <4>1, <1>5, <3>3, size = n.size, Zenon
    <3>8. Writing(n2, o2, c, d)
      <4>1. k \in d /\ o2.left > 0 /\ o2.left # 0
        <5>1. len # 0 /\ len > 0 /\ o2.left = len /\ k \in 0 .. count - 1
          BY ONLY <1>11, <2>3, <3>2
        <5> QED BY ONLY <5>1, <2>4, Zenon
      <4>2. k * CLUSTER_SIZE + o2.offset = offset /\ offset + o2.left <= n2.size
        BY <2>3, <3>2, <3>3
      <4>3. o2.then = "write" /\ o2.left = len
        BY <1>5, <3>2
      <4> QED BY ONLY <3>2, <3>6, <3>7, <4>1, <4>2, <4>3, Zenon DEF Writing
    <3>9. Under(n2, o2, c, d) /\ o2.pc \in Pcs
      BY ONLY <3>2, <3>8, Zenon DEF Under, Pcs
    <3> QED BY ONLY Base, Now(ch, D, f, c, d, n, o), o2 = op', <1>3, <1>4, <3>1, <3>2, <3>4, <3>9,
            QuietTo
  <2> QED BY <2>5, <2>7, <2>8
<1> QED BY <1>8, <1>9, <1>10, <1>11

\* A byte that is written, of the bytes from .. top - 1 of a cluster.
LEMMA WrittenFresh ==
    ASSUME NEW c, NEW k \in Nat, NEW from \in Nat, NEW top \in Nat, top <= CLUSTER_SIZE,
           NEW i \in Nat, k * CLUSTER_SIZE + from <= i, i < k * CLUSTER_SIZE + top,
           stale' = stale \ Bytes(c[k], from, top)
    PROVE  Fresh(c, i)'
<1> PICK size, low : size = CLUSTER_SIZE /\ low = k * size
  OBVIOUS
<1>1. k * size \in Nat /\ (k + 1) * size = k * size + size /\ size \in Nat
  BY Products, ClusterSize
<1>2. low <= i /\ i < low + size /\ i - low \in from .. top - 1 /\ low \in Nat
  <2>1. low + from <= i /\ i < low + top /\ low \in Nat /\ top <= size
    BY ONLY <1>1, low = k * size, size = CLUSTER_SIZE, k * CLUSTER_SIZE + from <= i,
       i < k * CLUSTER_SIZE + top, top <= CLUSTER_SIZE
  <2> QED BY ONLY <1>1, <2>1, from \in Nat, top \in Nat, i \in Nat
<1>3. i \div CLUSTER_SIZE = k /\ i % CLUSTER_SIZE = i - low
  <2>1. k * CLUSTER_SIZE <= i /\ i < (k + 1) * CLUSTER_SIZE
    BY ONLY <1>1, <1>2, low = k * size, size = CLUSTER_SIZE
  <2>2. i \div CLUSTER_SIZE = k /\ i % CLUSTER_SIZE = i - k * CLUSTER_SIZE
    BY ONLY <2>1, i \in Nat, k \in Nat, Quotient
  <2> QED BY ONLY <2>2, low = k * size, size = CLUSTER_SIZE, Zenon
<1>4. <<c[k], i - low>> \in Bytes(c[k], from, top)
  BY ONLY <1>2 DEF Bytes
<1> QED BY ONLY <1>3, <1>4, stale' = stale \ Bytes(c[k], from, top) DEF Fresh

LEMMA WritingNow ==
    ASSUME Base, NEW ch, NEW D, NEW f, NEW c, NEW d, NEW n, NEW o,
           Now(ch, D, f, c, d, n, o),
           o.pc = "writing", o.left > 0, f \notin hurt, NEW count, count = Needed(n.size)
    PROVE  /\ count \in Nat /\ o.then = "write" /\ Whole(n, c, d)
           /\ d = 0 .. count - 1 /\ Linked(n, c, count)
           /\ \A i \in 0 .. count - 1 : c[i] \in Clusters
           /\ \E k \in d :
                LET from == k * CLUSTER_SIZE + o.offset
                IN  /\ o.cluster = c[k] /\ from + o.left <= n.size
                    /\ \A i \in 0 .. n.size - 1 :
                         Fresh(c, i) \/ i \in from .. from + o.left - 1
<1>1. Known(f, c, d, n, o)
  BY NowIs
<1>2. Typed(f, n, o)
  BY TypedNow
<1>3. Writing(n, o, c, d)
  BY <1>1 DEF Under, Known
<1>4. /\ o.then = "write" /\ Whole(n, c, d)
      /\ \E k \in d :
           LET from == k * CLUSTER_SIZE + o.offset
           IN  /\ o.cluster = c[k] /\ from + o.left <= n.size
               /\ \A i \in 0 .. n.size - 1 :
                    Fresh(c, i) \/ i \in from .. from + o.left - 1
  BY ONLY <1>3, o.left > 0, Zenon DEF Writing
<1>5. d = 0 .. count - 1 /\ Linked(n, c, count)
  BY <1>4 DEF Whole
<1>6. count \in Nat
  BY <1>2 DEF Typed
<1>7. \A i \in 0 .. count - 1 : c[i] \in Clusters
  <2>1. \A i \in d : c[i] \in Clusters
    BY <1>1 DEF Known
  <2> QED BY ONLY <1>5, <2>1
<1> QED BY ONLY <1>4, <1>5, <1>6, <1>7, Zenon

LEMMA WriteClusterHeld ==
    ASSUME Base, NEW ch, NEW D, NEW f, NEW c, NEW d, NEW n, NEW o,
           Now(ch, D, f, c, d, n, o), WriteCluster
    PROVE  Owns'
<1> PICK o2 : o2 = op'
  OBVIOUS
<1>1. Known(f, c, d, n, o)
  BY NowIs
<1>2. Typed(f, n, o)
  BY TypedNow
<1>3. /\ o.pc = "writing" /\ o.left > 0 /\ fat' = fat /\ bmap' = bmap
      /\ clean' = clean /\ entry' = entry /\ node' = [node EXCEPT ![f] = n]
  BY <1>2 DEF WriteCluster, medium, memory, Typed
<1> PICK size, offset, left : size = CLUSTER_SIZE /\ offset = o.offset /\ left = o.left
  OBVIOUS
<1> PICK lsize : lsize = IF size - offset < left THEN size - offset ELSE left
  OBVIOUS
<1>4. /\ size \in Nat /\ offset \in Nat /\ left \in Nat /\ left > 0 /\ offset < size
      /\ lsize \in Nat /\ lsize > 0 /\ lsize <= left /\ offset + lsize <= size
      /\ lsize < left => offset + lsize = size
  <2>1. offset \in Nat /\ left \in Nat /\ left > 0
    BY <1>2, <1>3 DEF Typed
  <2>2. offset < size
    BY <1>2, <1>3 DEF Base, Typed
  <2>3. size \in Nat
    BY ClusterSize
  <2> QED BY ONLY <2>1, <2>2, <2>3, lsize = IF size - offset < left THEN size - offset ELSE left
<1>5. PICK next \in NextClusters(File, op.cluster) :
       \E fails \in Outcomes(Count(next.failed), TRUE) :
         /\ Failed(op.f, Count(next.failed) + Count(fails))
         /\ IF fails \/ CLUSTER_INVALID(op.cluster)
            THEN op' = Idle /\ UNCHANGED stale
            ELSE /\ stale' = stale \ Bytes(op.cluster, op.offset, op.offset + lsize)
                 /\ op' = [op EXCEPT !.offset = 0, !.left = @ - lsize,
                                     !.cluster = next.cluster]
  <2>1. (IF CLUSTER_SIZE - op.offset < op.left THEN CLUSTER_SIZE - op.offset ELSE op.left) = lsize
    BY ONLY <1>2, lsize = (IF size - offset < left THEN size - offset ELSE left),
       size = CLUSTER_SIZE, offset = o.offset, left = o.left DEF Typed
  <2>2. WriteCluster
    OBVIOUS
  <2> QED BY ONLY <2>1, <2>2, Zenon DEF WriteCluster
<1>6. PICK fails \in Outcomes(Count(next.failed), TRUE) :
         /\ Failed(op.f, Count(next.failed) + Count(fails))
         /\ IF fails \/ CLUSTER_INVALID(op.cluster)
            THEN op' = Idle /\ UNCHANGED stale
            ELSE /\ stale' = stale \ Bytes(op.cluster, op.offset, op.offset + lsize)
                 /\ op' = [op EXCEPT !.offset = 0, !.left = @ - lsize,
                                     !.cluster = next.cluster]
  BY ONLY <1>5, Zenon
<1> PICK rest : rest = left - lsize
  OBVIOUS
<1>7. /\ next \in NextClusters(n, o.cluster)
      /\ Failed(f, Count(next.failed) + Count(fails))
      /\ fails \/ CLUSTER_INVALID(o.cluster) => o2 = Idle /\ stale' = stale
      /\ ~(fails \/ CLUSTER_INVALID(o.cluster)) =>
           /\ stale' = stale \ Bytes(o.cluster, offset, offset + lsize)
           /\ o2 = [o EXCEPT !.offset = 0, !.left = rest, !.cluster = next.cluster]
  <2>1. /\ File = n /\ op = o /\ op.f = f /\ op' = o2 /\ op.offset = offset /\ op.left = left
        /\ op.cluster = o.cluster
    BY ONLY <1>2, offset = o.offset, left = o.left, o2 = op', Zenon DEF Typed
  <2>2. /\ next \in NextClusters(n, o.cluster)
        /\ Failed(f, Count(next.failed) + Count(fails))
        /\ fails \/ CLUSTER_INVALID(o.cluster) => o2 = Idle /\ stale' = stale
    BY ONLY <1>5, <1>6, <2>1, Zenon
  <2>3. ~(fails \/ CLUSTER_INVALID(o.cluster)) =>
           /\ stale' = stale \ Bytes(o.cluster, offset, offset + lsize)
           /\ o2 = [o EXCEPT !.offset = 0, !.left = rest, !.cluster = next.cluster]
    BY ONLY <1>6, <2>1, rest = left - lsize
  <2> QED BY ONLY <2>2, <2>3, Zenon
<1>8. /\ next.failed \in BOOLEAN /\ (next.failed => CanFault(0)) /\ next.cluster \in Nat
      /\ next.cluster = IF next.failed THEN EXFAT_CLUSTER_BAD ELSE NextCluster(n, o.cluster)
  BY <1>2, <1>7, NextClustersAre DEF Typed
<1>9. fails \in BOOLEAN /\ (fails => CanFault(Count(next.failed)))
  BY OutcomesAre
<1>10. /\ ~next.failed /\ ~fails => hurt' = hurt
       /\ next.failed \/ fails => hurt' = hurt \cup {f}
  BY <1>2, <1>7, <1>8, <1>9, Counted DEF Typed
<1>11. stale' \subseteq stale
  BY <1>7, <1>9
<1>12. ~(fails \/ CLUSTER_INVALID(o.cluster)) =>
         /\ o2.pc = "writing" /\ o2.f = f /\ o2.then = o.then /\ o2.left = rest
         /\ o2.offset = 0 /\ o2.cluster = next.cluster
  <2> HAVE ~(fails \/ CLUSTER_INVALID(o.cluster))
  <2> PICK after : after = next.cluster
    OBVIOUS
  <2>1. o2 = [o EXCEPT !.offset = 0, !.left = rest, !.cluster = after]
    BY <1>7
  <2> QED BY ONLY <1>2, <1>3, <2>1, after = next.cluster DEF OpsOf, Typed
<1>13. CASE f \in hurt \/ fails \/ next.failed
  <2>1. f \in hurt => o2 = Idle
    <3>1. f \in hurt => CLUSTER_INVALID(o.cluster)
      BY <1>1, <1>3 DEF Hurt, Known
    <3> QED BY <3>1, <1>7
  <2>2. fails => o2 = Idle
    BY <1>7
  <2>3. next.failed => CLUSTER_INVALID(next.cluster)
    BY <1>8, ClusterNumbers
  <2>4. o2.pc \notin {"idle", "aborted"} => o2.f = f /\ Hurt(n, o2)
    <3>1. CASE fails \/ CLUSTER_INVALID(o.cluster)
      <4>1. o2.pc = "idle"
        BY <1>7, <3>1 DEF Idle
      <4> QED BY <4>1
    <3>2. CASE ~(fails \/ CLUSTER_INVALID(o.cluster))
      <4>1. o2.pc = "writing" /\ o2.f = f /\ o2.cluster = next.cluster
        BY <1>12, <3>2
      <4>2. f \notin hurt
        BY <1>1, <1>3, <3>2 DEF Hurt, Known
      <4>3. next.failed
        BY <1>13, <3>2, <4>2
      <4>4. CLUSTER_INVALID(o2.cluster)
        BY <4>1, <4>3, <2>3
      <4> QED BY ONLY <4>1, <4>4 DEF Hurt
    <3> QED BY <3>1, <3>2
  <2>5. f \in hurt' /\ hurt \subseteq hurt' /\ hurt' \subseteq hurt \cup {f}
    BY <1>8, <1>9, <1>10, <1>13
  <2> QED BY ONLY Base, Now(ch, D, f, c, d, n, o), o2 = op', <1>3, <1>11, <2>4, <2>5, QuietHurt
<1>14. CASE ~(f \in hurt \/ fails \/ next.failed)
  <2> PICK count : count = Needed(n.size)
    OBVIOUS
  <2>1. /\ f \notin hurt /\ count \in Nat /\ o.then = "write" /\ Whole(n, c, d)
        /\ d = 0 .. count - 1 /\ Linked(n, c, count)
        /\ \A i \in 0 .. count - 1 : c[i] \in Clusters
        /\ \E k \in d :
             LET from == k * CLUSTER_SIZE + o.offset
             IN  /\ o.cluster = c[k] /\ from + o.left <= n.size
                 /\ \A i \in 0 .. n.size - 1 :
                      Fresh(c, i) \/ i \in from .. from + o.left - 1
    <3>1. f \notin hurt
      BY <1>14
    <3> QED BY ONLY Base, Now(ch, D, f, c, d, n, o), <3>1, <1>3, count = Needed(n.size),
            WritingNow
  <2>2. PICK k \in d :
             LET from == k * CLUSTER_SIZE + o.offset
             IN  /\ o.cluster = c[k] /\ from + o.left <= n.size
                 /\ \A i \in 0 .. n.size - 1 :
                      Fresh(c, i) \/ i \in from .. from + o.left - 1
    BY ONLY <2>1, Zenon
  <2> PICK low, from : low = k * size /\ from = low + offset
    OBVIOUS
  <2>3. /\ o.cluster = c[k] /\ from + left <= n.size
        /\ \A i \in 0 .. n.size - 1 : Fresh(c, i) \/ i \in from .. from + left - 1
    BY ONLY <2>2, low = k * size, from = low + offset, size = CLUSTER_SIZE, offset = o.offset,
       left = o.left, Zenon
  <2>4. k \in Nat /\ k \in 0 .. count - 1 /\ low \in Nat /\ from \in Nat /\ n.size \in Nat
        /\ (k + 1) * size = low + size /\ rest \in Nat /\ rest <= left
    <3>1. k \in 0 .. count - 1 /\ k \in Nat
      BY ONLY <2>1, k \in d
    <3>2. k * size \in Nat /\ (k + 1) * size = k * size + size
      BY <3>1, Products
    <3>3. n.size \in Nat
      BY <1>2 DEF Typed
    <3> QED BY ONLY <3>1, <3>2, <3>3, <1>4, low = k * size, from = low + offset, rest = left - lsize
  <2>5. ~CLUSTER_INVALID(o.cluster)
    BY <2>1, <2>3, <2>4, ClusterNumbers
  <2>6. /\ stale' = stale \ Bytes(c[k], offset, offset + lsize)
        /\ o2.pc = "writing" /\ o2.f = f /\ o2.then = o.then /\ o2.left = rest
        /\ o2.offset = 0 /\ o2.cluster = NextCluster(n, c[k]) /\ hurt' = hurt
    BY <1>7, <1>8, <1>10, <1>12, <1>14, <2>3, <2>5
  <2>7. \A i \in 0 .. n.size - 1 :
          Fresh(c, i)' \/ i \in from + lsize .. from + lsize + rest - 1
    <3> TAKE i \in 0 .. n.size - 1
    <3>1. CASE Fresh(c, i)
      <4>1. Fresh(c, i)'
        BY ONLY <3>1, <1>11 DEF Fresh
      <4> QED BY <4>1
    <3>2. CASE i \in from .. from + left - 1 /\ i < from + lsize
      <4>1. i \in Nat /\ low + offset <= i /\ i < low + (offset + lsize)
            /\ offset + lsize \in Nat /\ offset + lsize <= size
        BY ONLY <1>4, <2>4, <3>2, from = low + offset
      <4> PICK top : top = offset + lsize
        OBVIOUS
      <4>2. /\ top \in Nat /\ top <= CLUSTER_SIZE /\ k * CLUSTER_SIZE + offset <= i
            /\ i < k * CLUSTER_SIZE + top /\ stale' = stale \ Bytes(c[k], offset, top)
        BY ONLY <4>1, <2>6, low = k * size, size = CLUSTER_SIZE, top = offset + lsize, Zenon
      <4>3. k \in Nat /\ offset \in Nat /\ i \in Nat
        BY <1>4, <2>4, <4>1
      <4>4. Fresh(c, i)'
        BY ONLY <4>2, <4>3, WrittenFresh
      <4> QED BY <4>4
    <3>3. CASE i \in from .. from + left - 1 /\ ~(i < from + lsize)
      BY ONLY <1>4, <2>4, <3>3, rest = left - lsize
    <3> QED BY ONLY <2>3, <3>1, <3>2, <3>3, Zenon
  <2>8. Whole(n, c, d)'
    <3>1. Ended(n, c, count) /\ Pointed(n, c, count)
      BY <2>1 DEF Whole
    <3>2. Linked(n, c, count)' /\ Ended(n, c, count)' /\ Pointed(n, c, count)'
      BY <1>3, <2>1, <3>1, PartsSame
    <3> QED BY ONLY <2>1, <3>2, count = Needed(n.size), Zenon DEF Whole, Needed
  <2>9. rest = 0 => AllFresh(c, n.size)'
    <3> HAVE rest = 0
    <3>1. \A i \in 0 .. n.size - 1 : i \notin from + lsize .. from + lsize + rest - 1
      BY ONLY <1>4, <2>4, rest = 0
    <3>2. \A i \in 0 .. n.size - 1 : Fresh(c, i)'
      BY ONLY <2>7, <3>1, Zenon
    <3> QED BY ONLY <3>2, Zenon DEF AllFresh, Fresh
  <2>10. rest > 0 => \E j \in d :
           LET start == j * CLUSTER_SIZE + o2.offset
           IN  /\ o2.cluster = c[j] /\ start + o2.left <= n.size
               /\ \A i \in 0 .. n.size - 1 :
                    Fresh(c, i)' \/ i \in start .. start + o2.left - 1
    <3> HAVE rest > 0
    <3> PICK j, start : j = k + 1 /\ start = from + lsize
      OBVIOUS
    <3>1. /\ j \in Nat /\ start = low + size /\ start + rest = from + left /\ start < n.size
          /\ start \in Nat
      <4>1. lsize < left /\ from + left <= n.size
        BY ONLY <1>4, <2>3, rest > 0, rest = left - lsize
      <4> QED BY ONLY <4>1, <1>4, <2>4, rest = left - lsize, j = k + 1, start = from + lsize,
                 from = low + offset
    <3>2. j * CLUSTER_SIZE = start
      BY ONLY <2>4, <3>1, j = k + 1, size = CLUSTER_SIZE
    <3>3. \A i \in Nat : i * CLUSTER_SIZE < n.size => i < count
      BY <2>4, ClusterCount
    <3>4. j < count
      BY ONLY <3>1, <3>2, <3>3
    <3>5. j \in d /\ k \in 0 .. count - 2
      BY ONLY <2>1, <2>4, <3>1, <3>4, j = k + 1
    <3>6. o2.cluster = c[j]
      <4>1. NextCluster(n, c[k]) = c[k + 1]
        BY <2>1, <3>5 DEF Linked
      <4> QED BY <4>1, <2>6
    <3>7. j * CLUSTER_SIZE + o2.offset = start /\ o2.left = rest
      BY ONLY <2>6, <3>1, <3>2
    <3>8. start + rest <= n.size
      BY ONLY <2>3, <3>1
    <3>9. \A i \in 0 .. n.size - 1 : Fresh(c, i)' \/ i \in start .. start + rest - 1
      BY ONLY <2>7, start = from + lsize
    <3> QED BY ONLY <3>5, <3>6, <3>7, <3>8, <3>9, Zenon
  <2>11. Writing(n, o2, c, d)'
    <3>1. o2.left = rest /\ o2.then = "write"
      BY <2>1, <2>6
    <3> QED BY ONLY <3>1, <2>8, <2>9, <2>10, Zenon DEF Writing, Fresh
  <2>12. Under(n, o2, c, d)'
    BY ONLY <2>6, <2>11, Zenon DEF Under
  <2>13. Saved(n, entry[f])
    BY <1>1, <2>1 DEF Known
  <2>14. InCallAfter(f, n, o2, c, d)
    BY ONLY <2>6, <2>12, <2>13, Zenon DEF InCallAfter
  <2>15. Goes(f, n, o2)
    BY <1>3, <2>1, <2>6 DEF Goes
  <2> QED BY ONLY Base, Now(ch, D, f, c, d, n, o), <1>3, <1>11, <2>14, <2>15, QuietStep
<1> QED BY <1>13, <1>14

-----------------------------------------------------------------------------
(* The calls: a file at rest, when one begins                              *)

LEMMA RestIs ==
    ASSUME Base, NEW ch, NEW D, NEW f, NEW c, NEW d, NEW n, Rest(ch, D, f, c, d, n)
    PROVE  /\ f \in Files /\ c \in [Nat -> Nat] /\ d \in SUBSET Nat /\ n \in Nodes
           /\ ~Runs /\ ~clean /\ n = node[f]
           /\ f \notin hurt => /\ Lies(n, c, d) /\ Saved(n, entry[f])
                               /\ \A i \in d : c[i] \in Clusters
                               /\ \A i, j \in d : c[i] = c[j] => i = j
<1>0. /\ ch \in [Files -> [Nat -> Nat]] /\ D \in [Files -> SUBSET Nat] /\ Held(ch, D)
      /\ ~Runs /\ ~clean /\ f \in Files /\ c = ch[f] /\ d = D[f] /\ n = node[f]
  BY DEF Rest
<1>1. node \in [Files -> Nodes] /\ bmap \subseteq Clusters
  BY TypesAre
<1>2. c \in [Nat -> Nat] /\ d \in SUBSET Nat /\ n \in Nodes
  BY <1>0, <1>1
<1>3. ASSUME f \notin hurt
      PROVE  /\ Lies(n, c, d) /\ Saved(n, entry[f]) /\ \A i \in d : c[i] \in Clusters
             /\ \A i, j \in d : c[i] = c[j] => i = j
  <2>1. f \in Safe /\ ~Busy(f) /\ View(f) = n
    BY <1>0, <1>3 DEF Safe, Busy, View
  <2>2. Claims(f, c, d)
    BY <1>0, <2>1 DEF Held
  <2>3. Lies(n, c, d) /\ Saved(n, entry[f])
    BY <1>0, <2>1, <2>2 DEF Claims, AtRest
  <2>4. \A i \in D[f] : ch[f][i] \in bmap
    BY <1>0, <2>1 DEF Held, Apart, Used
  <2>5. \A i, j \in D[f] : ch[f][i] = ch[f][j] => i = j
    BY <1>0, <2>1 DEF Held, Apart
  <2> QED BY <1>0, <1>1, <2>3, <2>4, <2>5
<1> QED BY ONLY <1>0, <1>2, <1>3, Zenon

LEMMA RestStep ==
    ASSUME Base, NEW ch, NEW D, NEW f, NEW c, NEW d, NEW n, Rest(ch, D, f, c, d, n),
           NEW n2, NEW e2, NEW o2, Begins(f, n2, e2, o2),
           f \notin hurt' => Saved(n2, e2),
           f \notin hurt' /\ o2.pc \notin {"idle", "aborted"} => Under(n2, o2, c, d),
           f \notin hurt' /\ o2.pc \in {"idle", "aborted"} => Lies(n2, c, d)
    PROVE  Owns'
<1>0. /\ ch \in [Files -> [Nat -> Nat]] /\ D \in [Files -> SUBSET Nat] /\ Held(ch, D)
      /\ ~Runs /\ ~clean /\ f \in Files /\ c = ch[f] /\ d = D[f] /\ n = node[f]
      /\ c \in [Nat -> Nat] /\ d \in SUBSET Nat
  BY DEF Rest
<1>1. /\ fat' = fat /\ bmap' = bmap /\ stale' = stale /\ clean' = clean
      /\ hurt \subseteq hurt' /\ hurt' \subseteq hurt \cup {f}
      /\ node' = [node EXCEPT ![f] = n2] /\ entry' = [entry EXCEPT ![f] = e2] /\ op' = o2
      /\ o2.pc \notin {"idle", "aborted"} => o2.f = f /\ f \notin hurt'
  BY DEF Begins
<1>2. Quiet
  BY <1>1 DEF Quiet
<1>3. /\ node'[f] = n2 /\ entry'[f] = e2
      /\ \A g \in Files \ {f} : node'[g] = node[g] /\ entry'[g] = entry[g]
  <2>1. node \in [Files -> Nodes] /\ entry \in [Files -> Entries]
    BY TypesAre
  <2> QED BY ONLY <2>1, <1>0, <1>1
<1> PICK own : own = Own(ch, D, f)
  OBVIOUS
<1>4. Elsewhere(f, own)
  BY <1>0, <1>1, <1>3 DEF Elsewhere, Untouched
<1>5. f \notin hurt' => Ours(f, own, c, d)
  <2> SUFFICES ASSUME f \notin hurt' PROVE Ours(f, own, c, d)
    OBVIOUS
  <2>1. f \notin hurt
    BY <1>1
  <2> QED BY <1>0, <1>1, <2>1, OursSame
<1>6. Runs' <=> o2.pc \notin {"idle", "aborted"}
  BY <1>1 DEF Runs
<1>7. ASSUME f \notin hurt' PROVE Claims(f, c, d)'
  <2>1. Saved(node[f], entry[f])'
    <3>1. Saved(n2, e2)
      BY <1>7
    <3>2. Saved(node'[f], entry'[f])
      BY ONLY <3>1, <1>3, Zenon
    <3> QED BY <3>2 DEF Saved, InfoOf
  <2>2. CASE o2.pc \notin {"idle", "aborted"}
    <3>1. Under(n2, o2, c, d)'
      BY <1>2, <1>7, <2>2, UnderSame
    <3>2. InCall(f, c, d)'
      BY <1>1, <3>1, <1>3 DEF InCall
    <3>3. Busy(f)'
      BY <1>1, <2>2, <1>6 DEF Busy
    <3> QED BY <3>2, <3>3, <2>1 DEF Claims
  <2>3. CASE o2.pc \in {"idle", "aborted"}
    <3>1. Lies(n2, c, d)'
      BY <1>2, <1>7, <2>3, LiesSame
    <3>2. AtRest(f, c, d)'
      BY <3>1, <1>0, <1>1, <1>3 DEF AtRest, View
    <3>3. ~Busy(f)'
      BY <2>3, <1>6 DEF Busy
    <3> QED BY <3>2, <3>3, <2>1 DEF Claims
  <2> QED BY <2>2, <2>3
<1>8. Runs => op.f = f
  BY <1>0
<1>9. Runs' => op'.f = f
  BY <1>1, <1>6
<1>10. f \notin hurt' => Claims(f, c, d)'
  BY <1>7
<1>11. f \in hurt' /\ Runs' => HurtInCall'
  BY <1>1, <1>6
<1> QED BY <1>0, <1>4, <1>5, <1>8, <1>9, <1>10, <1>11, HeldStep

\* The calls that run on.
LEMMA StartHeld ==
    ASSUME Base, NEW ch, NEW D, NEW f, NEW c, NEW d, NEW n, Rest(ch, D, f, c, d, n),
           UNCHANGED <<medium, memory, stale, hurt>>, NEW o2, op' = o2, o2.f = f,
           f \notin hurt, o2.pc \notin {"idle", "aborted"},
           Whole(n, c, d) /\ AllFresh(c, n.size) => Under(n, o2, c, d), n # NoNode
    PROVE  Owns'
<1>1. /\ f \in Files /\ n = node[f]
      /\ f \notin hurt => /\ Lies(n, c, d) /\ Saved(n, entry[f])
  BY RestIs
<1> PICK e : e = entry[f]
  OBVIOUS
<1>2. node = [node EXCEPT ![f] = n] /\ entry = [entry EXCEPT ![f] = e]
  <2>1. node \in [Files -> Nodes] /\ entry \in [Files -> Entries]
    BY TypesAre
  <2> QED BY ONLY <2>1, <1>1, e = entry[f]
<1>3. /\ fat' = fat /\ bmap' = bmap /\ stale' = stale /\ clean' = clean /\ hurt' = hurt
      /\ node' = node /\ entry' = entry
  BY DEF medium, memory
<1>4. node' = [node EXCEPT ![f] = n] /\ entry' = [entry EXCEPT ![f] = e]
  BY ONLY <1>2, <1>3, Zenon
<1>5. Begins(f, n, e, o2)
  BY <1>3, <1>4 DEF Begins
<1>6. Saved(n, e)
  BY <1>1
<1>7. Under(n, o2, c, d)
  BY <1>1 DEF Lies
<1> QED BY <1>5, <1>6, <1>7, RestStep

LEMMA NothingCounts == ~Overflows(0)
BY ClusterCount, WordSize DEF Overflows

LEMMA TruncateHeld ==
    ASSUME Base, NEW ch, NEW D, NEW f, NEW c, NEW d, NEW n, Rest(ch, D, f, c, d, n),
           f \notin hurt, NEW size \in Sizes, Truncate(f, size), ~wrapped'
    PROVE  Owns'
<1> PICK r, o2 : r = Running(f, "truncate", "idle") /\ o2 = op'
  OBVIOUS
<1>1. f \in Files /\ n = node[f] /\ n \in Nodes
  BY RestIs
<1>2. /\ o2 = [r EXCEPT !.size = size, !.erase = TRUE] /\ node[f].state = "linked"
      /\ UNCHANGED <<medium, memory, stale, hurt>> /\ ~Overflows(size)
  BY DEF Truncate
<1>3. n # NoNode
  BY ONLY <1>1, <1>2 DEF NoNode
<1>4. o2.pc = "truncate" /\ o2.f = f /\ o2.then = "idle" /\ o2.erase /\ ~o2.full /\ o2.size = size
  BY ONLY <1>2, r = Running(f, "truncate", "idle") DEF Running
<1>5. Asked(n, o2)
  BY <1>2, <1>4 DEF Asked, Counts
<1>6. Whole(n, c, d) /\ AllFresh(c, n.size) => Under(n, o2, c, d)
  BY <1>4, <1>5 DEF Under, Starting
<1>7. op' = o2 /\ o2.f = f /\ o2.pc \notin {"idle", "aborted"}
  BY <1>4
<1>8. UNCHANGED <<medium, memory, stale, hurt>>
  BY <1>2
<1> QED BY ONLY Base, Rest(ch, D, f, c, d, n), f \notin hurt, <1>3, <1>6, <1>7, <1>8, StartHeld

LEMMA PwriteHeld ==
    ASSUME Base, NEW ch, NEW D, NEW f, NEW c, NEW d, NEW n, Rest(ch, D, f, c, d, n),
           f \notin hurt, NEW offset \in Sizes, NEW len \in Sizes, Pwrite(f, offset, len),
           ~wrapped'
    PROVE  Owns'
<1> PICK r, o2 : r = Running(f, "write", "write") /\ o2 = op'
  OBVIOUS
<1>1. f \in Files /\ n = node[f] /\ n \in Nodes
  BY RestIs
<1>2. /\ o2 = [r EXCEPT !.offset = offset, !.len = len] /\ node[f].state = "linked"
      /\ UNCHANGED <<medium, memory, stale, hurt>> /\ ~Overflows(offset + len)
  BY DEF Pwrite
<1>3. n # NoNode
  BY ONLY <1>1, <1>2 DEF NoNode
<1>4. o2.pc = "write" /\ o2.f = f /\ o2.then = "write" /\ ~o2.full
      /\ o2.size = 0 /\ o2.offset = offset /\ o2.len = len
  BY ONLY <1>2, r = Running(f, "write", "write") DEF Running
<1>6. Counts(o2)
  BY <1>2, <1>4, NothingCounts DEF Counts
<1>5. Whole(n, c, d) /\ AllFresh(c, n.size) => Under(n, o2, c, d)
  <2> HAVE Whole(n, c, d) /\ AllFresh(c, n.size)
  <2>1. Writes(n, o2, c, d)
    BY ONLY <1>4, <1>6, Whole(n, c, d) /\ AllFresh(c, n.size), Zenon DEF Writes, AllFresh
  <2> QED BY <1>4, <2>1 DEF Under
<1>7. op' = o2 /\ o2.f = f /\ o2.pc \notin {"idle", "aborted"}
  BY <1>4
<1>8. UNCHANGED <<medium, memory, stale, hurt>>
  BY <1>2
<1> QED BY ONLY Base, Rest(ch, D, f, c, d, n), f \notin hurt, <1>3, <1>5, <1>7, <1>8, StartHeld

LEMMA CleanupNodeHeld ==
    ASSUME Base, NEW ch, NEW D, NEW f, NEW c, NEW d, NEW n, Rest(ch, D, f, c, d, n),
           f \notin hurt, CleanupNode(f)
    PROVE  Owns'
<1> PICK r, o2 : r = Running(f, "truncate", "free") /\ o2 = op'
  OBVIOUS
<1>1. f \in Files /\ n = node[f] /\ n \in Nodes
  BY RestIs
<1>2. /\ o2 = [r EXCEPT !.erase = TRUE] /\ node[f].state = "unlinked"
      /\ UNCHANGED <<medium, memory, stale, hurt>>
  BY DEF CleanupNode
<1>3. n # NoNode
  BY ONLY <1>1, <1>2 DEF NoNode
<1>4. o2.pc = "truncate" /\ o2.f = f /\ o2.then = "free" /\ o2.erase /\ ~o2.full /\ o2.size = 0
  BY ONLY <1>2, r = Running(f, "truncate", "free") DEF Running
<1>5. Asked(n, o2)
  BY <1>4, NothingCounts DEF Asked, Counts
<1>6. Whole(n, c, d) /\ AllFresh(c, n.size) => Under(n, o2, c, d)
  BY <1>4, <1>5 DEF Under, Starting
<1>7. op' = o2 /\ o2.f = f /\ o2.pc \notin {"idle", "aborted"}
  BY <1>4
<1>8. UNCHANGED <<medium, memory, stale, hurt>>
  BY <1>2
<1> QED BY ONLY Base, Rest(ch, D, f, c, d, n), f \notin hurt, <1>3, <1>6, <1>7, <1>8, StartHeld

LEMMA LiesAlike ==
    ASSUME NEW n, NEW n2, n # NoNode, n2 # NoNode, NEW c, NEW d,
           n2.start = n.start, n2.size = n.size, n2.contiguous = n.contiguous,
           n2.index = n.index, n2.cluster = n.cluster, Lies(n, c, d)
    PROVE  Lies(n2, c, d)
BY Zenon DEF Lies, Whole, Linked, Ended, Pointed, NextCluster, NextOn

\* A call that is over at once.
LEMMA OverHeld ==
    ASSUME Base, NEW ch, NEW D, NEW f, NEW c, NEW d, NEW n, Rest(ch, D, f, c, d, n), Call,
           UNCHANGED <<fat, clean, bmap, op, stale>>,
           hurt \subseteq hurt', hurt' \subseteq hurt \cup {f},
           NEW n2, NEW e2, node' = [node EXCEPT ![f] = n2], entry' = [entry EXCEPT ![f] = e2],
           f \notin hurt' => Saved(n2, e2) /\ Lies(n2, c, d)
    PROVE  Owns'
<1> PICK o2 : o2 = op
  OBVIOUS
<1>1. o2.pc = "idle"
  BY CallIs
<1>2. Begins(f, n2, e2, o2)
  BY <1>1 DEF Begins
<1>3. /\ f \notin hurt' /\ o2.pc \notin {"idle", "aborted"} => Under(n2, o2, c, d)
      /\ f \notin hurt' /\ o2.pc \in {"idle", "aborted"} => Lies(n2, c, d)
      /\ f \notin hurt' => Saved(n2, e2)
  BY <1>1
<1> QED BY ONLY Base, Rest(ch, D, f, c, d, n), <1>2, <1>3, RestStep

LEMMA PreadHeld ==
    ASSUME Base, NEW ch, NEW D, NEW f, NEW c, NEW d, NEW n, Rest(ch, D, f, c, d, n),
           NEW offset \in Sizes, Pread(f, offset)
    PROVE  Owns'
<1>1. /\ f \in Files /\ n \in Nodes /\ n = node[f]
      /\ f \notin hurt => /\ Lies(n, c, d) /\ Saved(n, entry[f])
                          /\ \A i \in d : c[i] \in Clusters
                          /\ \A i, j \in d : c[i] = c[j] => i = j
      /\ c \in [Nat -> Nat]
  BY RestIs
<1>2. /\ Call /\ n.state = "linked" /\ offset < n.size /\ n # NoNode
      /\ UNCHANGED <<fat, clean, bmap, op, stale, entry>>
  BY <1>1 DEF Pread, Use, medium, NoNode
<1> PICK k : k = offset \div CLUSTER_SIZE
  OBVIOUS
<1>3. PICK a \in Advanced(n, IndexOf(offset)), atime \in BOOLEAN :
         /\ node' = [node EXCEPT ![f] = [a.node EXCEPT !.dirty = @ \/ atime]]
         /\ Failed(f, Count(a.failed))
  BY <1>1 DEF Pread
<1> PICK n2, e2 : n2 = [a.node EXCEPT !.dirty = @ \/ atime] /\ e2 = entry[f]
  OBVIOUS
<1>4. entry' = [entry EXCEPT ![f] = e2]
  <2>1. entry \in [Files -> Entries]
    BY TypesAre
  <2> QED BY ONLY <1>1, <1>2, <2>1, e2 = entry[f]
<1>5. hurt \subseteq hurt' /\ hurt' \subseteq hurt \cup {f}
  BY <1>3 DEF Failed
<1>6. ASSUME f \notin hurt' PROVE Saved(n2, e2) /\ Lies(n2, c, d)
  <2> PICK count : count = Needed(n.size)
    OBVIOUS
  <2>1. fat \in [Clusters -> Nat] /\ n.size \in Nat /\ offset \in Nat
    BY <1>1, <1>2, TypesAre, NodeFields, AllocationAssumption
  <2>2. f \notin hurt
    BY <1>5, <1>6
  <2>3. /\ count \in Nat /\ d = 0 .. count - 1 /\ Linked(n, c, count) /\ Ended(n, c, count)
        /\ Pointed(n, c, count) /\ AllFresh(c, n.size)
    BY <1>1, <1>2, <2>1, <2>2, CountTyped DEF Lies, Whole
  <2>4. k \in 0 .. count - 1
    <3>1. offset \in 0 .. n.size - 1
      BY ONLY <1>2, <2>1
    <3> QED BY <3>1, <2>1, ClusterCount
  <2>5. \A i \in 0 .. count - 1 : c[i] \in Clusters
    BY <1>1, <2>2, <2>3
  <2>14. a \in Advanced(n, k)
    <3>1. count < UINT32
      BY <1>1, <2>2, <2>3, ChainFits
    <3>2. offset \div CLUSTER_SIZE = k
      OBVIOUS
    <3>3. offset \div CLUSTER_SIZE \in 0 .. count - 1
      BY <2>4, <3>2
    <3>4. IndexOf(offset) = k
      BY <2>1, <2>3, <3>1, <3>2, <3>3, IndexInChain
    <3> QED BY <1>3, <3>4
  <2>6. /\ a.failed \in BOOLEAN /\ a.node \in Nodes /\ a.node # NoNode /\ Alike(n, a.node)
        /\ a.node.index = k /\ (~a.failed => a.node.cluster = c[k])
    <3>1. /\ n \in Nodes /\ n # NoNode /\ count \in Nat /\ Linked(n, c, count)
          /\ Pointed(n, c, count)
      BY <1>1, <1>2, <2>3
    <3> QED BY ONLY <3>1, <2>14, <2>1, <2>4, <2>5, AdvancedLinked
  <2>7. ~a.failed
    <3>1. a.failed => Count(a.failed) > 0
      BY DEF Count
    <3> QED BY <3>1, <1>3, <1>6 DEF Failed
  <2> PICK m, dirty : m = a.node /\ dirty = (m.dirty \/ atime)
    OBVIOUS
  <2>8. /\ n2.state = n.state /\ n2.start = n.start /\ n2.size = n.size
        /\ n2.contiguous = n.contiguous /\ n2.index = k /\ n2.cluster = c[k]
        /\ n2.dirty = dirty /\ m.dirty = n.dirty
    <3>1. n2 = [m EXCEPT !.dirty = dirty]
      OBVIOUS
    <3>2. m \in [state : {"linked", "unlinked"}, start : Nat, size : Nat,
                 contiguous : BOOLEAN, dirty : BOOLEAN, index : Nat, cluster : Nat]
      BY <2>6 DEF Nodes
    <3>3. /\ n2.state = m.state /\ n2.start = m.start /\ n2.size = m.size /\ n2.dirty = dirty
          /\ n2.contiguous = m.contiguous /\ n2.index = m.index /\ n2.cluster = m.cluster
      BY ONLY <3>1, <3>2
    <3>4. /\ m.state = n.state /\ m.start = n.start /\ m.size = n.size
          /\ m.contiguous = n.contiguous /\ m.index = k /\ m.cluster = c[k] /\ m.dirty = n.dirty
      BY <2>6, <2>7 DEF Alike
    <3> QED BY ONLY <3>3, <3>4, Zenon
  <2>9. Saved(n2, e2)
    <3>1. Saved(n, e2)
      BY <1>1, <2>2
    <3> QED BY ONLY <3>1, <2>8, dirty = (m.dirty \/ atime), Zenon DEF Saved, InfoOf
  <2>10. n2 # NoNode
    BY <1>2, <2>8 DEF NoNode
  <2>11. Pointed(n2, c, count)
    <3>1. n2.index < count /\ n2.cluster = c[n2.index]
      BY ONLY <2>3, <2>4, <2>8
    <3> QED BY ONLY <3>1, Zenon DEF Pointed
  <2>12. Whole(n2, c, d)
    BY ONLY <2>3, <2>8, <2>11, count = Needed(n.size), Zenon
       DEF Whole, Linked, Ended, NextCluster, NextOn
  <2>13. AllFresh(c, n2.size)
    BY ONLY <2>3, <2>8, Zenon
  <2> QED BY ONLY <2>9, <2>10, <2>12, <2>13, Zenon DEF Lies
<1>7. node' = [node EXCEPT ![f] = n2]
  BY <1>3
<1>8. f \notin hurt' => Saved(n2, e2) /\ Lies(n2, c, d)
  BY <1>6
<1>9. UNCHANGED <<fat, clean, bmap, op, stale>>
  BY <1>2
<1>10. Call
  BY <1>2
<1> QED BY ONLY Base, Rest(ch, D, f, c, d, n), <1>4, <1>5, <1>7, <1>8, <1>9, <1>10, OverHeld

LEMMA MknodHeld ==
    ASSUME Base, NEW ch, NEW D, NEW f, NEW c, NEW d, NEW n, Rest(ch, D, f, c, d, n),
           Mknod(f)
    PROVE  Owns'
<1>1. /\ f \in Files /\ n \in Nodes /\ n = node[f]
      /\ f \notin hurt => /\ Lies(n, c, d) /\ Saved(n, entry[f])
  BY RestIs
<1> PICK e2 : e2 = [start |-> EXFAT_CLUSTER_FREE, size |-> 0,
                    contiguous |-> FALSE, sound |-> TRUE]
  OBVIOUS
<1> PICK n2 : n2 = NodeOf(e2)
  OBVIOUS
<1>2. Call /\ n.state = "absent" /\ entry' = [entry EXCEPT ![f] = e2]
  BY <1>1 DEF Mknod
<1>3. hurt' = hurt /\ UNCHANGED <<fat, clean, bmap, op, stale>>
  BY DEF Mknod, history
<1>4. node' = [node EXCEPT ![f] = n2]
  <2>1. entry'[f] = e2
    <3>1. entry \in [Files -> Entries]
      BY TypesAre
    <3> QED BY ONLY <1>1, <1>2, <3>1
  <2>2. node' = [node EXCEPT ![f] = NodeOf(entry'[f])]
    BY DEF Mknod
  <2> QED BY ONLY <2>1, <2>2, n2 = NodeOf(e2), Zenon
<1>5. /\ e2.start = EXFAT_CLUSTER_FREE /\ e2.size = 0 /\ e2.contiguous = FALSE /\ e2 # NoEntry
      /\ EXFAT_CLUSTER_FREE = 0
  BY DEF NoEntry, EXFAT_CLUSTER_FREE
<1>6. /\ n2.state = "linked" /\ n2.start = 0 /\ n2.size = 0 /\ n2.contiguous = FALSE
      /\ n2.index = 0 /\ n2.cluster = 0 /\ n2 # NoNode
  BY <1>5 DEF NodeOf, NoNode
<1>7. Saved(n2, e2)
  <2>1. InfoOf(n2) = e2
    BY <1>5, <1>6 DEF InfoOf
  <2> QED BY <2>1 DEF Saved
<1>8. ASSUME f \notin hurt' PROVE Lies(n2, c, d)
  <2>1. n = NoNode
    BY <1>1, <1>2, NodeFields
  <2>2. d = {}
    BY <2>1, <1>1, <1>3, <1>8 DEF Lies
  <2>3. Needed(n2.size) = 0
    BY <1>6, ClusterCount
  <2>4. Linked(n2, c, 0) /\ Ended(n2, c, 0) /\ Pointed(n2, c, 0)
    BY <1>5, <1>6 DEF Linked, Ended, Pointed
  <2>5. d = 0 .. 0 - 1
    BY <2>2
  <2>6. Whole(n2, c, d)
    BY ONLY <2>3, <2>4, <2>5, Zenon DEF Whole
  <2>7. AllFresh(c, n2.size)
    BY <1>6 DEF AllFresh
  <2> QED BY <1>6, <2>6, <2>7, LiesIs
<1>9. f \notin hurt' => Saved(n2, e2) /\ Lies(n2, c, d)
  BY <1>7, <1>8
<1>10. Call /\ hurt \subseteq hurt' /\ hurt' \subseteq hurt \cup {f}
  BY <1>2, <1>3
<1>11. UNCHANGED <<fat, clean, bmap, op, stale>> /\ entry' = [entry EXCEPT ![f] = e2]
  BY <1>2, <1>3
<1> QED BY ONLY Base, Rest(ch, D, f, c, d, n), <1>4, <1>9, <1>10, <1>11, OverHeld

LEMMA UnlinkHeld ==
    ASSUME Base, NEW ch, NEW D, NEW f, NEW c, NEW d, NEW n, Rest(ch, D, f, c, d, n),
           Unlink(f)
    PROVE  Owns'
<1>1. /\ f \in Files /\ n \in Nodes /\ n = node[f]
      /\ f \notin hurt => /\ Lies(n, c, d) /\ Saved(n, entry[f])
  BY RestIs
<1> PICK n2, e2 : n2 = [n EXCEPT !.state = "unlinked"] /\ e2 = NoEntry
  OBVIOUS
<1>2. /\ Call /\ n.state = "linked" /\ entry' = [entry EXCEPT ![f] = e2]
      /\ hurt' = hurt /\ UNCHANGED <<fat, clean, bmap, op, stale>>
  BY <1>1 DEF Unlink, history
<1>3. node' = [node EXCEPT ![f] = n2]
  BY <1>1 DEF Unlink
<1>4. /\ n \in [state : {"linked", "unlinked"}, start : Nat, size : Nat,
                contiguous : BOOLEAN, dirty : BOOLEAN, index : Nat, cluster : Nat]
      /\ n # NoNode
  BY <1>1, <1>2 DEF Nodes, NoNode
<1>5. /\ n2.state = "unlinked" /\ n2.start = n.start /\ n2.size = n.size
      /\ n2.contiguous = n.contiguous /\ n2.index = n.index /\ n2.cluster = n.cluster
  BY ONLY <1>4, n2 = [n EXCEPT !.state = "unlinked"]
<1>6. n2 # NoNode
  BY ONLY <1>5 DEF NoNode
<1>7. f \notin hurt' => Saved(n2, e2) /\ Lies(n2, c, d)
  <2> SUFFICES ASSUME f \notin hurt' PROVE Saved(n2, e2) /\ Lies(n2, c, d)
    OBVIOUS
  <2>1. Lies(n, c, d)
    BY <1>1, <1>2
  <2>2. Lies(n2, c, d)
    BY <2>1, <1>4, <1>5, <1>6, LiesAlike
  <2> QED BY <1>5, <2>2 DEF Saved
<1>8. Call /\ hurt \subseteq hurt' /\ hurt' \subseteq hurt \cup {f}
  BY <1>2
<1>9. UNCHANGED <<fat, clean, bmap, op, stale>> /\ entry' = [entry EXCEPT ![f] = e2]
  BY <1>2
<1> QED BY ONLY Base, Rest(ch, D, f, c, d, n), <1>3, <1>7, <1>8, <1>9, OverHeld

LEMMA FlushNodeHeld ==
    ASSUME Base, NEW ch, NEW D, NEW f, NEW c, NEW d, NEW n, Rest(ch, D, f, c, d, n),
           FlushNode(f)
    PROVE  Owns'
<1>1. /\ f \in Files /\ n \in Nodes /\ n = node[f]
      /\ f \notin hurt => /\ Lies(n, c, d) /\ Saved(n, entry[f])
  BY RestIs
<1> PICK n2, e2 : n2 = [n EXCEPT !.dirty = FALSE] /\ e2 = InfoOf(n)
  OBVIOUS
<1>2. /\ Call /\ n.state = "linked" /\ entry' = [entry EXCEPT ![f] = e2]
      /\ UNCHANGED <<fat, clean, bmap, op, stale>> /\ hurt' = hurt
  BY <1>1 DEF FlushNode, history
<1>3. node' = [node EXCEPT ![f] = n2]
  BY <1>1 DEF FlushNode
<1>4. /\ n \in [state : {"linked", "unlinked"}, start : Nat, size : Nat,
                contiguous : BOOLEAN, dirty : BOOLEAN, index : Nat, cluster : Nat]
      /\ n # NoNode
  BY <1>1, <1>2 DEF Nodes, NoNode
<1>5. /\ n2.state = "linked" /\ n2.start = n.start /\ n2.size = n.size
      /\ n2.contiguous = n.contiguous /\ n2.index = n.index /\ n2.cluster = n.cluster
  BY ONLY <1>2, <1>4, n2 = [n EXCEPT !.dirty = FALSE]
<1>6. n2 # NoNode
  BY ONLY <1>5 DEF NoNode
<1>7. f \notin hurt' => Saved(n2, e2) /\ Lies(n2, c, d)
  <2> SUFFICES ASSUME f \notin hurt' PROVE Saved(n2, e2) /\ Lies(n2, c, d)
    OBVIOUS
  <2>1. Lies(n, c, d)
    BY <1>1, <1>2
  <2>2. Lies(n2, c, d)
    BY <2>1, <1>4, <1>5, <1>6, LiesAlike
  <2>3. InfoOf(n2) = InfoOf(n)
    BY ONLY <1>5, Zenon DEF InfoOf
  <2> QED BY <2>2, <2>3 DEF Saved
<1>8. Call /\ hurt \subseteq hurt' /\ hurt' \subseteq hurt \cup {f}
  BY <1>2
<1>9. UNCHANGED <<fat, clean, bmap, op, stale>> /\ entry' = [entry EXCEPT ![f] = e2]
  BY <1>2
<1> QED BY ONLY Base, Rest(ch, D, f, c, d, n), <1>3, <1>7, <1>8, <1>9, OverHeld

LEMMA FlushNodeFailsHeld ==
    ASSUME Base, NEW ch, NEW D, NEW f, NEW c, NEW d, NEW n, Rest(ch, D, f, c, d, n),
           FlushNodeFails(f)
    PROVE  Owns'
<1>1. f \in Files /\ n = node[f]
  BY RestIs
<1>2. /\ Call /\ Failed(f, 1) /\ UNCHANGED <<fat, clean, memory, op, stale>>
  BY DEF FlushNodeFails
<1>3. PICK sound : entry' = [entry EXCEPT ![f].sound = sound]
  BY DEF FlushNodeFails
<1> PICK e2 : e2 = [entry[f] EXCEPT !.sound = sound]
  OBVIOUS
<1>4. node' = [node EXCEPT ![f] = n]
  <2>1. node \in [Files -> Nodes]
    BY TypesAre
  <2>2. node' = node
    BY <1>2 DEF memory
  <2> QED BY ONLY <2>1, <2>2, <1>1
<1>5. hurt' = hurt \cup {f}
  BY <1>2 DEF Failed
<1>6. entry' = [entry EXCEPT ![f] = e2] /\ UNCHANGED <<fat, clean, bmap, op, stale>>
  BY <1>2, <1>3 DEF memory
<1>7. Call /\ hurt \subseteq hurt' /\ hurt' \subseteq hurt \cup {f} /\ f \in hurt'
  BY <1>2, <1>5
<1> QED BY ONLY Base, Rest(ch, D, f, c, d, n), <1>4, <1>6, <1>7, OverHeld

-----------------------------------------------------------------------------
(* The calls on the volume                                                 *)

LEMMA VolumeHeld ==
    ASSUME NEW ch \in [Files -> [Nat -> Nat]], NEW D \in [Files -> SUBSET Nat], Held(ch, D),
           ~Runs', hurt' = hurt, Used' = Used,
           \A f \in Safe : \E n \in {View(f)'} :
             Lies(n, ch[f], D[f])' /\ (~clean' => Saved(n, entry'[f])),
           \A f \in Files : ~clean' => View(f)' = node'[f]
    PROVE  Owns'
<1>1. Safe' = Safe
  BY DEF Safe
<1>2. Apart(ch, D)'
  <2>1. Apart(ch, D)
    BY DEF Held
  <2> QED BY ONLY <1>1, <2>1, hurt' = hurt, Used' = Used, Zenon DEF Apart
<1>3. ASSUME NEW f, f \in Safe'
      PROVE  Claims(f, ch[f], D[f])'
  <2> PICK c, d : c = ch[f] /\ d = D[f]
    OBVIOUS
  <2>1. f \in Safe /\ f \in Files
    BY <1>1, <1>3 DEF Safe
  <2>2. PICK n : n = View(f)' /\ Lies(n, c, d)' /\ (~clean' => Saved(n, entry'[f]))
    BY <2>1
  <2>3. AtRest(f, c, d)'
    BY <2>2 DEF AtRest
  <2>4. ~clean' => Saved(node[f], entry[f])'
    <3>1. ~clean' => Saved(node'[f], entry'[f])
      BY <2>1, <2>2
    <3> QED BY <3>1 DEF Saved, InfoOf
  <2>5. ~Busy(f)'
    BY DEF Busy
  <2>6. Claims(f, c, d)'
    BY ONLY <2>3, <2>4, <2>5, Zenon DEF Claims
  <2> QED BY <2>6
<1>4. Held(ch, D)'
  BY ONLY <1>2, <1>3, ~Runs', Zenon DEF Held
<1> QED BY ONLY <1>4, ch \in [Files -> [Nat -> Nat]], D \in [Files -> SUBSET Nat], Zenon DEF Owns

LEMMA LiesKept ==
    ASSUME fat' = fat, stale' = stale, NEW n, NEW c, NEW d, Lies(n, c, d)
    PROVE  Lies(n, c, d)'
BY Zenon DEF Lies, Whole, Linked, Ended, Pointed, AllFresh, Fresh, NextCluster, NextOn,
   Needed

LEMMA FlushHeld ==
    ASSUME Base, NEW ch \in [Files -> [Nat -> Nat]], NEW D \in [Files -> SUBSET Nat],
           Held(ch, D), Flush
    PROVE  Owns'
<1>1. Call /\ UNCHANGED <<fat, entry, clean, node, bmap, op, stale, hurt>>
  BY DEF Flush, history
<1>2. ~clean /\ ~Runs /\ ~Runs' /\ ~clean'
  BY <1>1, CallIs DEF Runs
<1>3. Used' = Used
  BY <1>1, <1>2 DEF Used
<1>4. \A f \in Files : View(f)' = node'[f]
  BY <1>2 DEF View
<1>5. ASSUME NEW f, f \in Safe
      PROVE  \E n \in {View(f)'} : Lies(n, ch[f], D[f])' /\ (~clean' => Saved(n, entry'[f]))
  <2> PICK c, d, n : c = ch[f] /\ d = D[f] /\ n = node[f]
    OBVIOUS
  <2>1. f \in Files /\ f \notin hurt
    BY <1>5 DEF Safe
  <2>2. Lies(n, c, d) /\ Saved(n, entry[f])
    <3>1. Rest(ch, D, f, c, d, n)
      BY <1>2, <2>1 DEF Rest
    <3> QED BY <2>1, <3>1, RestIs
  <2>3. Lies(n, c, d)'
    BY <1>1, <2>2, LiesKept
  <2>4. View(f)' = n /\ entry'[f] = entry[f]
    BY <1>1, <1>4, <2>1
  <2> QED BY <2>2, <2>3, <2>4
<1> QED BY ONLY ch \in [Files -> [Nat -> Nat]], D \in [Files -> SUBSET Nat], Held(ch, D),
        <1>1, <1>2, <1>3, <1>4, <1>5, VolumeHeld

\* A node and what a mount makes of the entry it was written to.
LEMMA InfoLies ==
    ASSUME NEW n \in Nodes, n # NoNode, NEW c, NEW d, Lies(n, c, d)
    PROVE  Lies(NodeOf(InfoOf(n)), c, d)
<1> PICK e, count : e = InfoOf(n) /\ count = Needed(n.size)
  OBVIOUS
<1> PICK m : m = NodeOf(e)
  OBVIOUS
<1>1. e # NoEntry /\ n.size \in Nat /\ n.contiguous \in BOOLEAN
  BY InfoOfIs, NodeFields
<1> PICK contiguous : contiguous = (n.size # 0 /\ n.contiguous)
  OBVIOUS
<1>2. e.start = n.start /\ e.size = n.size /\ e.contiguous = contiguous
  BY DEF InfoOf
<1>3. /\ m.state = "linked" /\ m.start = n.start /\ m.size = n.size
      /\ m.contiguous = contiguous /\ m.index = 0 /\ m.cluster = n.start
  BY <1>1, <1>2 DEF NodeOf
<1>4. m # NoNode
  BY <1>3 DEF NoNode
<1>5. /\ d = 0 .. count - 1 /\ Linked(n, c, count) /\ Ended(n, c, count)
      /\ count \in Nat /\ AllFresh(c, n.size) /\ (count = 0 <=> n.size = 0)
  BY <1>1, ClusterCount DEF Lies, Whole
<1>6. n.start = (IF count = 0 THEN EXFAT_CLUSTER_FREE ELSE c[0])
  BY <1>5 DEF Linked
<1>7. count > 0 => (m.contiguous <=> n.contiguous)
  BY ONLY <1>1, <1>3, <1>5, contiguous = (n.size # 0 /\ n.contiguous)
<1>8. Linked(m, c, count)
  <2>1. CASE count = 0
    <3>1. 0 .. count - 2 = {}
      BY ONLY <2>1
    <3> QED BY ONLY <1>3, <1>6, <3>1, Zenon DEF Linked
  <2>2. CASE count > 0
    BY ONLY <1>3, <1>5, <1>7, <2>2, Zenon DEF Linked, NextCluster, NextOn
  <2> QED BY ONLY <1>5, <2>1, <2>2
<1>9. Ended(m, c, count)
  BY ONLY <1>5, <1>7, Zenon DEF Ended
<1>10. Pointed(m, c, count)
  <2>1. count > 0 => m.cluster = c[m.index]
    BY ONLY <1>3, <1>5, <1>6
  <2> QED BY ONLY <1>3, <2>1, Zenon DEF Pointed
<1>11. Whole(m, c, d)
  BY ONLY <1>3, <1>5, <1>8, <1>9, <1>10, count = Needed(n.size), Zenon DEF Whole
<1>12. AllFresh(c, m.size)
  BY ONLY <1>3, <1>5, Zenon
<1> QED BY <1>4, <1>11, <1>12, LiesIs

\* What a mount makes of an entry that check_node takes is on the medium.
LEMMA EntrySaved ==
    ASSUME NEW e \in Entries, Acceptable(e)
    PROVE  Saved(NodeOf(e), e)
<1> PICK n : n = NodeOf(e)
  OBVIOUS
<1>1. CASE e = NoEntry
  BY <1>1 DEF Saved, NodeOf, NoNode
<1>2. CASE e # NoEntry
  <2>1. e \in [start : Nat, size : Nat, contiguous : BOOLEAN, sound : BOOLEAN]
    BY <1>2 DEF Entries
  <2>2. e.sound /\ (e.size = 0 => ~e.contiguous)
    BY <1>2 DEF Acceptable
  <2>3. n.start = e.start /\ n.size = e.size /\ n.contiguous = e.contiguous
    BY <1>2 DEF NodeOf
  <2> PICK contiguous : contiguous = (e.size # 0 /\ e.contiguous)
    OBVIOUS
  <2>4. e.contiguous \in BOOLEAN /\ e.sound \in BOOLEAN
    BY <2>1
  <2>5. contiguous = e.contiguous /\ e.sound = TRUE
    BY ONLY <2>2, <2>4, contiguous = (e.size # 0 /\ e.contiguous)
  <2>6. InfoOf(n) = [start |-> e.start, size |-> e.size, contiguous |-> contiguous, sound |-> TRUE]
    BY <2>3 DEF InfoOf
  <2>7. InfoOf(n) = e
    <3>1. e = [start |-> e.start, size |-> e.size, contiguous |-> e.contiguous, sound |-> e.sound]
      BY ONLY <2>1
    <3> QED BY ONLY <2>5, <2>6, <3>1, Zenon
  <2> QED BY <2>7 DEF Saved
<1> QED BY <1>1, <1>2

\* What an unmount leaves of a file is what a mount makes of it again.
LEMMA UnmountedLies ==
    ASSUME Base, Call, NEW f \in Files, NEW n, n = node[f], n.state # "unlinked",
           NEW e2, e2 = (IF f \in Dirty THEN InfoOf(n) ELSE entry[f]),
           NEW c, NEW d, Lies(n, c, d), Saved(n, entry[f])
    PROVE  Lies(NodeOf(e2), c, d)
<1>1. n \in Nodes /\ entry[f] \in Entries /\ (n.state = "linked" <=> entry[f] # NoEntry)
  BY TypesAre, CallIs
<1>2. CASE n = NoNode
  <2>0. n.state # "linked"
    BY <1>2 DEF NoNode
  <2>1. e2 = NoEntry
    BY <2>0, <1>1 DEF Dirty
  <2> QED BY <1>2, <2>1 DEF NodeOf
<1>3. CASE n # NoNode
  <2>1. n.state = "linked" /\ n.size \in Nat
    BY <1>1, <1>3, NodeFields
  <2>2. n.size > 0 \/ n.start = EXFAT_CLUSTER_FREE
    <3>1. n.size = 0 => Needed(n.size) = 0
      BY <2>1, ClusterCount
    <3>2. Linked(n, c, Needed(n.size))
      BY <1>3 DEF Lies, Whole
    <3> QED BY ONLY <2>1, <3>1, <3>2 DEF Linked
  <2>3. e2 = InfoOf(n)
    BY <2>1, <2>2 DEF Dirty, Saved
  <2> QED BY <1>1, <1>3, <2>3, InfoLies
<1> QED BY <1>2, <1>3

LEMMA UnmountHeld ==
    ASSUME Base, NEW ch \in [Files -> [Nat -> Nat]], NEW D \in [Files -> SUBSET Nat],
           Held(ch, D), Unmount, ~ignored'
    PROVE  Owns'
<1>1. /\ Call /\ (\A f \in Files : node[f].state # "unlinked")
      /\ clean' /\ UNCHANGED <<fat, op, stale, hurt>>
      /\ entry' = [f \in Files |-> IF f \in Dirty THEN InfoOf(node[f]) ELSE entry[f]]
  BY DEF Unmount
<1>2. ~clean /\ ~Runs /\ ~Runs' /\ (~bmapDirty => diskBmap = bmap)
  BY <1>1, CallIs DEF Runs
<1>3. PICK fails : /\ diskBmap' = IF fails \/ ~bmapDirty THEN diskBmap ELSE bmap
                   /\ ignored' = (ignored \/ fails)
  BY DEF Unmount
<1>4. Used' = Used
  BY <1>1, <1>2, <1>3 DEF Used
<1>5. ASSUME NEW f, f \in Safe
      PROVE  \E n \in {View(f)'} : Lies(n, ch[f], D[f])' /\ (~clean' => Saved(n, entry'[f]))
  <2> PICK c, d, n : c = ch[f] /\ d = D[f] /\ n = node[f]
    OBVIOUS
  <2>1. f \in Files /\ f \notin hurt
    BY <1>5 DEF Safe
  <2>2. Lies(n, c, d) /\ Saved(n, entry[f])
    <3>1. Rest(ch, D, f, c, d, n)
      BY <1>2, <2>1 DEF Rest
    <3> QED BY <2>1, <3>1, RestIs
  <2> PICK e2 : e2 = (IF f \in Dirty THEN InfoOf(n) ELSE entry[f])
    OBVIOUS
  <2> PICK m : m = NodeOf(e2)
    OBVIOUS
  <2>3. Lies(m, c, d)
    BY <1>1, <2>1, <2>2, UnmountedLies
  <2>4. Lies(m, c, d)'
    BY <1>1, <2>3, LiesKept
  <2>5. View(f)' = m
    <3>1. entry'[f] = e2
      BY <1>1, <2>1
    <3>2. View(f)' = NodeOf(entry'[f])
      BY <1>1 DEF View, NodeOf
    <3> QED BY ONLY <3>1, <3>2, m = NodeOf(e2), Zenon
  <2> QED BY <1>1, <2>4, <2>5
<1>6. hurt' = hurt /\ \A f \in Files : ~clean' => View(f)' = node'[f]
  BY <1>1
<1> QED BY ONLY ch \in [Files -> [Nat -> Nat]], D \in [Files -> SUBSET Nat], Held(ch, D),
        <1>2, <1>4, <1>5, <1>6, VolumeHeld

LEMMA MountHeld ==
    ASSUME Base, NEW ch \in [Files -> [Nat -> Nat]], NEW D \in [Files -> SUBSET Nat],
           Held(ch, D), Mount
    PROVE  Owns'
<1>1. /\ clean /\ ~clean' /\ UNCHANGED <<fat, entry, op, stale, hurt>> /\ bmap' = diskBmap
      /\ (\A f \in Files : Acceptable(entry[f])) /\ node' = [f \in Files |-> NodeOf(entry[f])]
  BY DEF Mount, history
<1>2. ~Runs /\ ~Runs' /\ Used' = Used
  BY <1>1 DEF Base, Runs, Used
<1>3. \A f \in Files : View(f) = NodeOf(entry[f]) /\ View(f)' = NodeOf(entry[f])
                       /\ View(f)' = node'[f]
  BY <1>1 DEF View
<1>4. ASSUME NEW f, f \in Safe
      PROVE  \E n \in {View(f)'} : Lies(n, ch[f], D[f])' /\ (~clean' => Saved(n, entry'[f]))
  <2> PICK c, d, n : c = ch[f] /\ d = D[f] /\ n = NodeOf(entry[f])
    OBVIOUS
  <2>1. f \in Files /\ f \in Safe /\ ~Busy(f)
    BY <1>2, <1>4 DEF Safe, Busy
  <2>2. Lies(n, c, d)
    <3>1. Claims(f, c, d)
      BY <2>1 DEF Held
    <3> QED BY <1>3, <2>1, <3>1 DEF Claims, AtRest
  <2>3. Lies(n, c, d)'
    BY <1>1, <2>2, LiesKept
  <2>4. Saved(n, entry[f])
    <3>1. entry[f] \in Entries
      BY <2>1, TypesAre
    <3> QED BY <1>1, <2>1, <3>1, EntrySaved
  <2>5. View(f)' = n /\ entry'[f] = entry[f]
    BY <1>1, <1>3, <2>1
  <2> QED BY <2>3, <2>4, <2>5
<1>5. hurt' = hurt /\ \A f \in Files : ~clean' => View(f)' = node'[f]
  BY <1>1, <1>3
<1> QED BY ONLY ch \in [Files -> [Nat -> Nat]], D \in [Files -> SUBSET Nat], Held(ch, D),
        <1>2, <1>4, <1>5, VolumeHeld

-----------------------------------------------------------------------------
(* A sound medium                                                          *)

LEMMA ChainsAre ==
    ASSUME NEW m, NEW f, NEW c
    PROVE  c \in ChainsOn(m, f) <=> Chained(m, f, c)
BY DEF ChainsOn, Chained, CountOf

LEMMA CountIs ==
    ASSUME NEW m \in Media, NEW f \in Files
    PROVE  CountOf(m, f) \in Nat /\ m.entry[f] \in Entries
<1>1. m.entry[f] \in Entries
  BY AllocationAssumption DEF SoundMedium
<1>2. m.entry[f] # NoEntry => m.entry[f].size \in Nat
  BY <1>1 DEF Entries
<1> QED BY <1>1, <1>2, CountTyped DEF CountOf

\* There is one.
LEMMA ChainUnique ==
    ASSUME NEW m \in Media, NEW f \in Files, NEW c, NEW d, Chained(m, f, c), Chained(m, f, d)
    PROVE  c = d
<1> PICK count, e : count = CountOf(m, f) /\ e = m.entry[f]
  OBVIOUS
<1>1. count \in Nat
  BY CountIs
<1> DEFINE S == {i \in Nat : i < count => c[i] = d[i]}
<1>2. 0 \in S
  <2>1. 0 < count => c[0] = d[0]
    BY <1>1 DEF Chained
  <2> QED BY <2>1
<1>3. ASSUME NEW i \in Nat, i \in S PROVE i + 1 \in S
  <2> SUFFICES ASSUME i + 1 < count PROVE c[i + 1] = d[i + 1]
    OBVIOUS
  <2>1. count > 0 /\ i \in 0 .. count - 2 /\ c[i] = d[i]
    BY <1>1, <1>3
  <2>2. NextOn(m.fat, e, c[i]) = c[i + 1] /\ NextOn(m.fat, e, d[i]) = d[i + 1]
    BY <2>1 DEF Chained
  <2> QED BY ONLY <2>1, <2>2, Zenon
<1>4. Nat \subseteq S
  <2> HIDE DEF S
  <2> QED BY <1>2, <1>3, SetInduction
<1>5. \A i \in 0 .. count - 1 : c[i] = d[i]
  <2> TAKE i \in 0 .. count - 1
  <2>1. i \in Nat /\ i < count
    BY <1>1
  <2>2. i \in S
    BY <1>4, <2>1
  <2> QED BY <2>1, <2>2
<1> PICK A, X : A = m.used \ Reserved /\ X = 0 .. count - 1
  OBVIOUS
<1>6. c \in [X -> A] /\ d \in [X -> A] /\ \A i \in X : c[i] = d[i]
  BY <1>5 DEF Chained
<1> QED BY ONLY <1>6

\* The clusters of a file of the medium, as a chain of the model.
LEMMA EntryLies ==
    ASSUME NEW m \in Media, fat = m.fat, diskBmap = m.used,
           stale = (Clusters \ diskBmap) \X (0 .. CLUSTER_SIZE - 1),
           NEW f \in Files, NEW c, Chained(m, f, c), NEW b \in [Nat -> Nat],
           \A i \in 0 .. CountOf(m, f) - 1 : b[i] = c[i]
    PROVE  Lies(NodeOf(m.entry[f]), b, 0 .. CountOf(m, f) - 1)
<1> PICK count, e : count = CountOf(m, f) /\ e = m.entry[f]
  OBVIOUS
<1> PICK n, d : n = NodeOf(e) /\ d = 0 .. count - 1
  OBVIOUS
<1>1. /\ count \in Nat /\ e \in Entries
      /\ \A i \in 0 .. count - 1 : b[i] = c[i] /\ c[i] \in diskBmap
      /\ count > 0 => /\ c[0] = e.start
                      /\ \A i \in 0 .. count - 2 : NextOn(fat, e, c[i]) = c[i + 1]
                      /\ e.contiguous \/ fat[c[count - 1]] = EXFAT_CLUSTER_END
  BY CountIs DEF Chained
<1>2. Acceptable(e)
  BY AllocationAssumption DEF SoundMedium
<1>3. CASE e = NoEntry
  <2>1. n = NoNode /\ count = 0
    BY <1>3 DEF NodeOf, CountOf
  <2> QED BY <2>1 DEF Lies
<1>4. CASE e # NoEntry
  <2>1. count = Needed(e.size) /\ e.size \in Nat
    BY <1>1, <1>4 DEF CountOf, Entries
  <2>2. /\ n.start = e.start /\ n.size = e.size /\ n.contiguous = e.contiguous
        /\ n.index = 0 /\ n.cluster = e.start /\ n.state = "linked"
    BY <1>4 DEF NodeOf
  <2>3. n # NoNode
    BY <2>2 DEF NoNode
  <2>4. \A i : NextCluster(n, i) = NextOn(fat, e, i)
    BY ONLY <2>2, Zenon DEF NextCluster, NextOn
  <2>5. Linked(n, b, count)
    <3>1. n.start = (IF count = 0 THEN EXFAT_CLUSTER_FREE ELSE b[0])
      <4>1. CASE count = 0
        <5>1. e.size = 0
          BY <2>1, <4>1, ClusterCount
        <5> QED BY <1>2, <1>4, <2>2, <4>1, <5>1 DEF Acceptable
      <4>2. CASE count > 0
        BY ONLY <1>1, <2>2, <4>2
      <4> QED BY <1>1, <4>1, <4>2
    <3>2. ASSUME NEW i \in 0 .. count - 2 PROVE NextCluster(n, b[i]) = b[i + 1]
      <4>1. i \in 0 .. count - 1 /\ i + 1 \in 0 .. count - 1 /\ count > 0
        <5>1. count \in Nat /\ i \in 0 .. count - 2
          BY <1>1
        <5> QED BY ONLY <5>1
      <4> QED BY <4>1, <1>1, <2>4
    <3> QED BY ONLY <3>1, <3>2, Zenon DEF Linked
  <2>6. Ended(n, b, count)
    <3>1. count > 0 => count - 1 \in 0 .. count - 1
      BY <1>1, SMTT(30)
    <3> QED BY <1>1, <2>2, <3>1 DEF Ended
  <2>7. Pointed(n, b, count)
    <3>1. count > 0 => 0 \in 0 .. count - 1
      BY <1>1
    <3> QED BY <1>1, <2>2, <3>1 DEF Pointed
  <2>8. Whole(n, b, d)
    BY ONLY <2>1, <2>2, <2>5, <2>6, <2>7, d = 0 .. count - 1, Zenon DEF Whole
  <2>9. AllFresh(b, n.size)
    <3>1. ASSUME NEW i \in 0 .. n.size - 1 PROVE Fresh(b, i)
      <4>1. i \div CLUSTER_SIZE \in 0 .. count - 1
        BY <2>1, <2>2, ClusterCount
      <4> PICK k, j : k = i \div CLUSTER_SIZE /\ j = i % CLUSTER_SIZE
        OBVIOUS
      <4>2. b[k] \in diskBmap
        BY <1>1, <4>1
      <4>3. <<b[k], j>> \notin stale
        BY <4>2
      <4> QED BY <4>3 DEF Fresh
    <3> QED BY <3>1 DEF AllFresh
  <2> QED BY <2>3, <2>8, <2>9, LiesIs
<1> QED BY <1>3, <1>4

LEMMA InitHeld ==
    ASSUME Init
    PROVE  Owns
<1>1. PICK m \in Media : fat = m.fat /\ entry = m.entry /\ diskBmap = m.used
  BY DEF Init
<1>2. /\ ~clean /\ node = [f \in Files |-> NodeOf(entry[f])] /\ bmap = diskBmap /\ hurt = {}
      /\ stale = (Clusters \ diskBmap) \X (0 .. CLUSTER_SIZE - 1) /\ ~Runs
  BY DEF Init, Idle, Runs
<1>3. /\ Reserved \subseteq m.used /\ m.used \subseteq Clusters
      /\ \A f \in Files : Acceptable(m.entry[f]) /\ ChainsOn(m, f) # {}
      /\ \A f, g \in Files : \A c \in ChainsOn(m, f), d \in ChainsOn(m, g) :
            \A i \in DOMAIN c, j \in DOMAIN d : c[i] = d[j] => f = g /\ i = j
      /\ \A x \in m.used \ Reserved :
            \E f \in Files : \E c \in ChainsOn(m, f) : \E i \in DOMAIN c : c[i] = x
  BY AllocationAssumption, Zenon DEF SoundMedium
<1> PICK C : C = [f \in Files |-> CHOOSE c : c \in ChainsOn(m, f)]
  OBVIOUS
<1>4. \A f \in Files : C[f] \in ChainsOn(m, f) /\ Chained(m, f, C[f])
  BY <1>3, ChainsAre
<1>5. \A f \in Files : /\ CountOf(m, f) \in Nat /\ m.entry[f] \in Entries
                       /\ C[f] \in [0 .. CountOf(m, f) - 1 -> m.used \ Reserved]
  BY <1>4, CountIs DEF Chained
<1> PICK D : D = [f \in Files |-> 0 .. CountOf(m, f) - 1]
  OBVIOUS
<1> PICK ch : ch = [f \in Files |-> [i \in Nat |-> IF i \in D[f] THEN C[f][i] ELSE 0]]
  OBVIOUS
<1>6. \A f \in Files : /\ D[f] = 0 .. CountOf(m, f) - 1 /\ D[f] \subseteq Nat
                       /\ \A i \in D[f] : ch[f][i] = C[f][i] /\ C[f][i] \in m.used \ Reserved
  <2> TAKE f \in Files
  <2> PICK count, c : count = CountOf(m, f) /\ c = C[f]
    OBVIOUS
  <2>1. count \in Nat /\ c \in [0 .. count - 1 -> m.used \ Reserved]
    BY <1>5
  <2>2. D[f] = 0 .. count - 1
    OBVIOUS
  <2>3. D[f] \subseteq Nat /\ \A i \in D[f] : c[i] \in m.used \ Reserved
    BY ONLY <2>1, <2>2
  <2>4. ch[f] = [i \in Nat |-> IF i \in D[f] THEN c[i] ELSE 0]
    OBVIOUS
  <2>5. \A i \in D[f] : ch[f][i] = c[i]
    BY ONLY <2>3, <2>4
  <2> QED BY <2>2, <2>3, <2>5
<1>7. ch \in [Files -> [Nat -> Nat]] /\ D \in [Files -> SUBSET Nat]
  <2>1. ASSUME NEW f \in Files PROVE ch[f] \in [Nat -> Nat] /\ D[f] \in SUBSET Nat
    <3>1. \A i \in D[f] : C[f][i] \in Nat
      BY <1>3, <1>6, ClusterNumbers
    <3> QED BY <3>1, <1>6
  <2> QED BY <2>1
<1>8. \A f \in Files : View(f) = NodeOf(m.entry[f]) /\ node[f] = NodeOf(m.entry[f])
  BY <1>1, <1>2 DEF View
<1>9. Apart(ch, D)
  <2>1. Used = m.used /\ Safe = Files
    BY <1>1, <1>2 DEF Used, Safe
  <2>2. \A f, g \in Files : \A i \in D[f] : \A j \in D[g] : ch[f][i] = ch[g][j] => f = g /\ i = j
    <3> SUFFICES ASSUME NEW f \in Files, NEW g \in Files, NEW i \in D[f], NEW j \in D[g],
                        ch[f][i] = ch[g][j]
                 PROVE  f = g /\ i = j
      OBVIOUS
    <3>1. C[f][i] = C[g][j] /\ i \in DOMAIN C[f] /\ j \in DOMAIN C[g]
      BY <1>5, <1>6
    <3> QED BY <1>3, <1>4, <3>1
  <2>3. \A x \in m.used \ Reserved : \E f \in Files : \E i \in D[f] : ch[f][i] = x
    <3> TAKE x \in m.used \ Reserved
    <3>1. PICK f \in Files : \E c \in ChainsOn(m, f) : \E i \in DOMAIN c : c[i] = x
      BY <1>3
    <3>2. PICK c \in ChainsOn(m, f) : \E i \in DOMAIN c : c[i] = x
      BY <3>1
    <3>3. Chained(m, f, c) /\ Chained(m, f, C[f])
      BY <1>4, ChainsAre
    <3>4. c = C[f]
      BY <3>3, ChainUnique
    <3> QED BY <3>2, <3>4, <1>5, <1>6
  <2> QED BY ONLY <1>3, <1>6, <2>1, <2>2, <2>3 DEF Apart
<1>10. ASSUME NEW f \in Files PROVE Claims(f, ch[f], D[f])
  <2> PICK e, b, d : e = m.entry[f] /\ b = ch[f] /\ d = 0 .. CountOf(m, f) - 1
    OBVIOUS
  <2>1. b \in [Nat -> Nat] /\ \A i \in 0 .. CountOf(m, f) - 1 : b[i] = C[f][i]
    BY <1>6, <1>7
  <2>2. Chained(m, f, C[f])
    BY <1>4
  <2>3. Lies(NodeOf(e), b, d)
    BY ONLY m \in Media, f \in Files, <1>1, <1>2, <2>1, <2>2, EntryLies,
       e = m.entry[f], d = 0 .. CountOf(m, f) - 1
  <2>4. Saved(NodeOf(e), e)
    BY <1>3, <1>5, EntrySaved
  <2>5. ~Busy(f) /\ View(f) = NodeOf(e) /\ node[f] = NodeOf(e) /\ entry[f] = e
    BY <1>1, <1>2, <1>8 DEF Busy
  <2>6. D[f] = d
    BY <1>6
  <2> QED BY <2>3, <2>4, <2>5, <2>6 DEF Claims, AtRest
<1>11. Held(ch, D)
  <2>1. \A f \in Safe : Claims(f, ch[f], D[f])
    BY <1>10 DEF Safe
  <2> QED BY ONLY <1>2, <1>9, <2>1, Zenon DEF Held
<1> QED BY ONLY <1>7, <1>11, Zenon DEF Owns

-----------------------------------------------------------------------------
(* All steps                                                               *)

LEMMA StepsKeep ==
    ASSUME Steps
    PROVE  Onwards /\ entry' = entry
<1>h. \A f, n : Failed(f, n) => hurt \subseteq hurt'
  BY DEF Failed
<1> USE DEF Onwards
<1>1. CASE BeginTruncate
  BY <1>1 DEF BeginTruncate, medium, history
<1>2. CASE GrowFile
  <2>1. hurt \subseteq hurt'
    BY <1>2, <1>h, Zenon DEF GrowFile
  <2> QED BY <1>2, <2>1 DEF GrowFile, medium
<1>3. CASE GrowEmpty
  BY <1>3 DEF GrowEmpty, medium, history
<1>4. CASE GrowNot
  BY <1>4 DEF GrowNot, medium, history
<1>5. CASE Grow
  <2>1. hurt \subseteq hurt'
    BY <1>5, <1>h, Zenon DEF Grow
  <2> QED BY <1>5, <2>1 DEF Grow
<1>6. CASE GrowConversionFails
  <2>1. hurt \subseteq hurt'
    BY <1>6, <1>h, Zenon DEF GrowConversionFails
  <2> QED BY <1>6, <2>1 DEF GrowConversionFails
<1>7. CASE GrowFull
  BY <1>7 DEF GrowFull, medium, history
<1>8. CASE GrowDone
  <2>1. hurt \subseteq hurt'
    BY <1>8, <1>h, Zenon DEF GrowDone
  <2> QED BY <1>8, <2>1 DEF GrowDone
<1>9. CASE ShrinkAborts
  BY <1>9 DEF ShrinkAborts, medium, history
<1>10. CASE Crop
  <2>1. hurt \subseteq hurt'
    BY <1>10, <1>h, Zenon DEF Crop
  <2> QED BY <1>10, <2>1 DEF Crop
<1>11. CASE CropAll
  BY <1>11 DEF CropAll, medium, history
<1>12. CASE FreeCluster
  <2>1. hurt \subseteq hurt'
    BY <1>12, <1>h, Zenon DEF FreeCluster
  <2> QED BY <1>12, <2>1 DEF FreeCluster
<1>13. CASE FreeInvalid
  BY <1>13 DEF FreeInvalid, medium, history
<1>14. CASE ShrinkDone
  BY <1>14 DEF ShrinkDone, medium, history
<1>15. CASE Erase
  <2>1. hurt \subseteq hurt'
    BY <1>15, <1>h, Zenon DEF Erase
  <2> QED BY <1>15, <2>1 DEF Erase, medium
<1>16. CASE EraseCluster
  <2>1. hurt \subseteq hurt'
    BY <1>16, <1>h, Zenon DEF EraseCluster
  <2> QED BY <1>16, <2>1 DEF EraseCluster, medium
<1>17. CASE Resize
  BY <1>17 DEF Resize, medium, history
<1>18. CASE BeginWrite
  <2>1. hurt \subseteq hurt'
    <3>1. NoFault => hurt \subseteq hurt'
      BY DEF NoFault
    <3> QED BY <1>18, <1>h, <3>1, Zenon DEF BeginWrite
  <2> QED BY <1>18, <2>1 DEF BeginWrite, medium
<1>19. CASE WriteCluster
  <2>1. hurt \subseteq hurt'
    BY <1>19, <1>h, Zenon DEF WriteCluster
  <2> QED BY <1>19, <2>1 DEF WriteCluster, medium
<1>20. CASE WriteDone
  BY <1>20 DEF WriteDone, medium, history
<1>21. CASE FreeNode
  BY <1>21, SMTT(30) DEF FreeNode, medium, history
<1> QED BY <1>1, <1>2, <1>3, <1>4, <1>5, <1>6, <1>7, <1>8, <1>9, <1>10, <1>11, <1>12, <1>13, <1>14,
        <1>15, <1>16, <1>17, <1>18, <1>19, <1>20, <1>21 DEF Steps

LEMMA StepsRun ==
    ASSUME Steps
    PROVE  Runs
BY DEF Steps, BeginTruncate, GrowFile, GrowEmpty, GrowNot, Grow, GrowConversionFails, GrowFull,
   GrowDone, ShrinkAborts, Crop, CropAll, FreeCluster, FreeInvalid, ShrinkDone, Erase,
   EraseCluster, Resize, BeginWrite, WriteCluster, WriteDone, FreeNode, Runs

LEMMA StepsBase ==
    ASSUME Base, Steps
    PROVE  Base'
BY BeginTruncateBase, GrowFileBase, GrowEmptyBase, GrowNotBase, GrowBase,
   GrowConversionFailsBase, GrowFullBase, GrowDoneBase, ShrinkAbortsBase, CropBase,
   CropAllBase, FreeClusterBase, FreeInvalidBase, ShrinkDoneBase, EraseBase, EraseClusterBase,
   ResizeBase, BeginWriteBase, WriteClusterBase, WriteDoneBase, FreeNodeBase, Zenon DEF Steps

LEMMA StepsHeld ==
    ASSUME Base, Steps, Owns, ~backward'
    PROVE  Owns'
<1>1. PICK ch \in [Files -> [Nat -> Nat]], D \in [Files -> SUBSET Nat] : Held(ch, D)
  BY DEF Owns
<1>2. Runs
  BY StepsRun
<1> PICK f, c, d, n, o : f = op.f /\ c = ch[f] /\ d = D[f] /\ n = File /\ o = op
  OBVIOUS
<1>3. Now(ch, D, f, c, d, n, o)
  BY <1>1, <1>2 DEF Now
<1> QED
  BY ONLY Base, Steps, ~backward', <1>3, BeginTruncateHeld, GrowFileHeld, GrowEmptyHeld,
     GrowNotHeld, GrowHeld, GrowConversionFailsHeld, GrowFullHeld, GrowDoneHeld, ShrinkAbortsHeld,
     CropHeld, CropAllHeld, FreeClusterHeld, FreeInvalidHeld, ShrinkDoneHeld, EraseHeld,
     EraseClusterHeld, ResizeHeld, BeginWriteHeld, WriteClusterHeld, WriteDoneHeld, FreeNodeHeld,
     Zenon DEF Steps

\* Two steps end the process: shrink_file of a file without clusters, which does
\* not happen while the clusters are owned, and erase_range after a failure.
LEMMA StepsAbort ==
    ASSUME Base, Steps, op'.pc = "aborted"
    PROVE  ShrinkAborts \/ EraseCluster
<1>1. Runs
  BY StepsRun
<1>2. \A ok : ~Return(ok)
  BY <1>1, Returned
<1>3. op \in Ops /\ Idle.pc # "aborted"
  BY <1>1 DEF Base, Idle
<1>4. PICK before : op \in [pc : Pcs, f : Files, then : {"idle", "write", "free"}, size : Nat,
         erase : BOOLEAN, boundary : Nat, offset : Nat, len : Nat, left : Nat, cluster : Nat,
         current : Nat, given : Nat, full : BOOLEAN, before : {before}]
  BY <1>3 DEF Ops
<1>5. op.pc # "aborted"
  BY <1>1 DEF Runs
<1> SUFFICES ASSUME ~ShrinkAborts, ~EraseCluster PROVE FALSE
  OBVIOUS
<1>6. CASE BeginTruncate
  BY <1>6, <1>2, <1>3, <1>4, <1>5, ZenonT(30) DEF BeginTruncate, Sized
<1>7. CASE GrowFile
  BY <1>7, <1>2, <1>3, <1>4, <1>5 DEF GrowFile
<1>8. CASE GrowEmpty
  BY <1>8, <1>2, <1>3, <1>4, <1>5 DEF GrowEmpty
<1>9. CASE GrowNot
  BY <1>9, <1>2, <1>3, <1>4, <1>5 DEF GrowNot
<1>10. CASE Grow
  BY <1>10, <1>2, <1>3, <1>4, <1>5 DEF Grow
<1>11. CASE GrowConversionFails
  BY <1>11, <1>2, <1>3, <1>4, <1>5 DEF GrowConversionFails
<1>12. CASE GrowFull
  BY <1>12, <1>2, <1>3, <1>4, <1>5 DEF GrowFull, Sized
<1>13. CASE GrowDone
  BY <1>13, <1>2, <1>3, <1>4, <1>5 DEF GrowDone
<1>14. CASE Crop
  BY <1>14, <1>2, <1>3, <1>4, <1>5 DEF Crop
<1>15. CASE CropAll
  BY <1>15, <1>2, <1>3, <1>4, <1>5 DEF CropAll
<1>16. CASE FreeCluster
  BY <1>16, <1>2, <1>3, <1>4, <1>5 DEF FreeCluster
<1>17. CASE FreeInvalid
  BY <1>17, <1>2, <1>3, <1>4, <1>5 DEF FreeInvalid
<1>18. CASE ShrinkDone
  BY <1>18, <1>2, <1>3, <1>4, <1>5 DEF ShrinkDone
<1>19. CASE Erase
  BY <1>19, <1>2, <1>3, <1>4, <1>5 DEF Erase
<1>20. CASE Resize
  BY <1>20, <1>2, <1>3, <1>4, <1>5 DEF Resize
<1>21. CASE BeginWrite
  BY <1>21, <1>2, <1>3, <1>4, <1>5 DEF BeginWrite
<1>22. CASE WriteCluster
  BY <1>22, <1>2, <1>3, <1>4, <1>5 DEF WriteCluster
<1>23. CASE WriteDone
  BY <1>23, <1>2, <1>3, <1>4, <1>5 DEF WriteDone
<1>24. CASE FreeNode
  BY <1>24, <1>2, <1>3, <1>4, <1>5 DEF FreeNode
<1> QED
  BY <1>6, <1>7, <1>8, <1>9, <1>10, <1>11, <1>12, <1>13, <1>14, <1>15, <1>16, <1>17, <1>18,
     <1>19, <1>20, <1>21, <1>22, <1>23, <1>24 DEF Steps

-----------------------------------------------------------------------------
(* All calls                                                               *)

LEMMA CallsBase ==
    ASSUME Base, Calls
    PROVE  Base'
BY TruncateBase, PwriteBase, PreadBase, CleanupNodeBase, MknodBase, UnlinkBase, FlushNodeBase,
   FlushNodeFailsBase, FlushBase, UnmountBase, UnmountAbortsBase, MountBase, Zenon DEF Calls

LEMMA CallsOnward ==
    ASSUME Base, Calls
    PROVE  Onwards
<1>1. \A f, n : Failed(f, n) => hurt \subseteq hurt'
  BY DEF Failed
<1>2. \A f : Use(f) => (retried => retried')
  BY DEF Use
<1> USE DEF Onwards
<1>3. ASSUME NEW f \in Files, NEW size \in Sizes, Truncate(f, size) PROVE Onwards
  BY <1>2, <1>3 DEF Truncate
<1>4. ASSUME NEW f \in Files, NEW offset \in Sizes, NEW len \in Sizes, Pwrite(f, offset, len)
      PROVE  Onwards
  BY <1>2, <1>4 DEF Pwrite
<1>5. ASSUME NEW f \in Files, CleanupNode(f) PROVE Onwards
  BY <1>2, <1>5 DEF CleanupNode
<1>6. ASSUME NEW f \in Files, NEW offset \in Sizes, Pread(f, offset) PROVE Onwards
  <2>1. hurt \subseteq hurt' /\ Use(f) /\ UNCHANGED <<backward, wrapped, ignored>>
    BY <1>1, <1>6, Zenon DEF Pread
  <2> QED BY <1>2, <2>1
<1>7. ASSUME NEW f \in Files, FlushNodeFails(f) PROVE Onwards
  BY <1>1, <1>7 DEF FlushNodeFails
<1>8. CASE UNCHANGED history
  BY <1>8 DEF history
<1>9. CASE Unmount
  BY <1>9 DEF Unmount
<1>10. CASE UnmountAborts
  <2>1. hurt \subseteq hurt' /\ UNCHANGED <<retried, backward, wrapped, ignored>>
    BY <1>1, <1>10, Zenon DEF UnmountAborts
  <2> QED BY <2>1
<1>11. \/ \E f \in Files : Mknod(f) \/ Unlink(f) \/ FlushNode(f)
       \/ Flush \/ Mount
       => UNCHANGED history
  BY Zenon DEF Mknod, Unlink, FlushNode, Flush, Mount
<1> HIDE DEF Onwards
<1> QED BY <1>3, <1>4, <1>5, <1>6, <1>7, <1>8, <1>9, <1>10, <1>11, Zenon DEF Calls

LEMMA CallsHeld ==
    ASSUME Base, Calls, Owns, Trusted', op'.pc # "aborted"
    PROVE  Owns'
<1>1. PICK ch \in [Files -> [Nat -> Nat]], D \in [Files -> SUBSET Nat] : Held(ch, D)
  BY DEF Owns
<1>2. Call => ~Runs /\ ~clean
  BY CallIs
<1>3. \A f \in Files : Call => Rest(ch, D, f, ch[f], D[f], node[f])
  BY <1>1, <1>2 DEF Rest
<1>4. \A f \in Files : Use(f) => Rest(ch, D, f, ch[f], D[f], node[f]) /\ f \notin hurt
  <2>1. \A f : Use(f) => Call /\ f \notin hurt
    BY DEF Use, Trusted
  <2> QED BY <1>3, <2>1
<1>0. ~wrapped'
  BY DEF Trusted
<1>5. ASSUME NEW f \in Files, NEW size \in Sizes, Truncate(f, size) PROVE Owns'
  <2>1. Use(f)
    BY <1>5 DEF Truncate
  <2>2. Rest(ch, D, f, ch[f], D[f], node[f]) /\ f \notin hurt
    BY <1>4, <2>1
  <2> QED BY ONLY Base, <1>0, <1>5, <2>2, TruncateHeld
<1>6. ASSUME NEW f \in Files, NEW offset \in Sizes, NEW len \in Sizes, Pwrite(f, offset, len)
      PROVE  Owns'
  <2>1. Use(f)
    BY <1>6 DEF Pwrite
  <2>2. Rest(ch, D, f, ch[f], D[f], node[f]) /\ f \notin hurt
    BY <1>4, <2>1
  <2> QED BY ONLY Base, <1>0, <1>6, <2>2, PwriteHeld
<1>7. ASSUME NEW f \in Files, CleanupNode(f) PROVE Owns'
  <2>1. Use(f)
    BY <1>7 DEF CleanupNode
  <2>2. Rest(ch, D, f, ch[f], D[f], node[f]) /\ f \notin hurt
    BY <1>4, <2>1
  <2> QED BY ONLY Base, <1>7, <2>2, CleanupNodeHeld
<1>8. ASSUME NEW f \in Files, NEW offset \in Sizes, Pread(f, offset) PROVE Owns'
  <2>1. Use(f)
    BY <1>8 DEF Pread
  <2>2. Rest(ch, D, f, ch[f], D[f], node[f])
    BY <1>4, <2>1
  <2> QED BY ONLY Base, <1>8, <2>2, PreadHeld
<1>9. ASSUME NEW f \in Files, Mknod(f) \/ Unlink(f) \/ FlushNode(f) \/ FlushNodeFails(f)
      PROVE  Owns'
  <2>1. Call
    BY <1>9, Zenon DEF Mknod, Unlink, FlushNode, FlushNodeFails
  <2>2. Rest(ch, D, f, ch[f], D[f], node[f])
    BY <1>3, <2>1
  <2> QED BY ONLY Base, <1>9, <2>2, MknodHeld, UnlinkHeld, FlushNodeHeld, FlushNodeFailsHeld
<1>10. CASE Flush
  BY <1>1, <1>10, FlushHeld
<1>11. CASE Unmount
  BY <1>1, <1>11, UnmountHeld DEF Trusted
<1>12. ~UnmountAborts
  BY DEF UnmountAborts
<1>13. CASE Mount
  BY <1>1, <1>13, MountHeld
<1> QED BY <1>5, <1>6, <1>7, <1>8, <1>9, <1>10, <1>11, <1>12, <1>13, Zenon DEF Calls

-----------------------------------------------------------------------------
(* The invariant                                                           *)

LEMMA InfoAcceptable ==
    ASSUME NEW n \in Nodes, n # NoNode, NEW c, NEW d, Lies(n, c, d),
           \A i \in d : c[i] \in Clusters
    PROVE  Acceptable(InfoOf(n))
<1> PICK e, count : e = InfoOf(n) /\ count = Needed(n.size)
  OBVIOUS
<1> PICK contiguous : contiguous = (n.size # 0 /\ n.contiguous)
  OBVIOUS
<1>1. e.start = n.start /\ e.size = n.size /\ e.contiguous = contiguous /\ e.sound
  BY DEF InfoOf
<1>2. /\ n.size \in Nat /\ count \in Nat /\ (count = 0 <=> n.size = 0)
      /\ d = 0 .. count - 1 /\ n.start = (IF count = 0 THEN EXFAT_CLUSTER_FREE ELSE c[0])
  BY NodeFields, ClusterCount DEF Lies, Whole, Linked
<1>3. e.size = 0 => e.start = EXFAT_CLUSTER_FREE /\ ~e.contiguous
  BY ONLY <1>1, <1>2, contiguous = (n.size # 0 /\ n.contiguous), Zenon
<1>4. e.size > 0 => ~CLUSTER_INVALID(e.start)
  <2> SUFFICES ASSUME n.size > 0 PROVE ~CLUSTER_INVALID(e.start)
    BY <1>1
  <2>1. count > 0 /\ 0 \in d
    BY <1>2
  <2>2. e.start = c[0] /\ c[0] \in Clusters
    BY <1>1, <1>2, <2>1
  <2> QED BY <2>2, ClusterNumbers
<1> QED BY ONLY <1>1, <1>3, <1>4, e = InfoOf(n), Zenon DEF Acceptable

\* A node at rest that is linked can be written to its entry.
LEMMA NodeAcceptable ==
    ASSUME Base, Owns, Call, NEW f \in Files, f \notin hurt, node[f].state = "linked"
    PROVE  Acceptable(InfoOf(node[f]))
<1>1. PICK ch \in [Files -> [Nat -> Nat]], D \in [Files -> SUBSET Nat] : Held(ch, D)
  BY DEF Owns
<1> PICK c, d, n : c = ch[f] /\ d = D[f] /\ n = node[f]
  OBVIOUS
<1>2. Rest(ch, D, f, c, d, n)
  BY <1>1, CallIs DEF Rest
<1>3. n \in Nodes /\ Lies(n, c, d) /\ \A i \in d : c[i] \in Clusters
  BY <1>2, RestIs
<1>4. n # NoNode
  BY DEF NoNode
<1> QED BY <1>3, <1>4, InfoAcceptable

LEMMA CallsAccepted ==
    ASSUME Base, Calls, Owns, Trusted', Accepted
    PROVE  Accepted'
<1>1. hurt \subseteq hurt' /\ Safe' \subseteq Safe
  BY CallsOnward DEF Onwards, Safe
<1>2. SUFFICES ASSUME NEW g, g \in Safe' PROVE Acceptable(entry'[g])
  BY DEF Accepted
<1>3. g \in Files /\ g \notin hurt /\ g \notin hurt' /\ Acceptable(entry[g])
  BY <1>1, <1>2 DEF Safe, Accepted
<1>4. entry \in [Files -> Entries]
  BY TypesAre
<1>5. CASE entry' = entry
  BY <1>3, <1>5
<1>6. ASSUME NEW f \in Files, Mknod(f) PROVE Acceptable(entry'[g])
  <2> PICK e2 : e2 = [start |-> EXFAT_CLUSTER_FREE, size |-> 0,
                      contiguous |-> FALSE, sound |-> TRUE]
    OBVIOUS
  <2>1. entry' = [entry EXCEPT ![f] = e2]
    BY <1>6 DEF Mknod
  <2>2. Acceptable(e2)
    BY DEF Acceptable
  <2> QED BY <1>3, <1>4, <2>1, <2>2
<1>7. ASSUME NEW f \in Files, Unlink(f) PROVE Acceptable(entry'[g])
  <2>1. entry' = [entry EXCEPT ![f] = NoEntry]
    BY <1>7 DEF Unlink
  <2>2. Acceptable(NoEntry)
    BY DEF Acceptable
  <2> QED BY <1>3, <1>4, <2>1, <2>2
<1>8. ASSUME NEW f \in Files, FlushNode(f) PROVE Acceptable(entry'[g])
  <2>1. entry' = [entry EXCEPT ![f] = InfoOf(node[f])] /\ Call /\ node[f].state = "linked"
    BY <1>8 DEF FlushNode
  <2>2. g = f => Acceptable(InfoOf(node[f]))
    BY <1>3, <2>1, NodeAcceptable
  <2> QED BY <1>3, <1>4, <2>1, <2>2
<1>9. ASSUME NEW f \in Files, FlushNodeFails(f) PROVE Acceptable(entry'[g])
  <2>1. PICK sound : entry' = [entry EXCEPT ![f].sound = sound]
    BY <1>9 DEF FlushNodeFails
  <2>2. hurt' = hurt \cup {f}
    BY <1>9 DEF FlushNodeFails, Failed
  <2> QED BY <1>3, <1>4, <2>1, <2>2
<1>10. \A f \in Dirty : Call /\ f = g => Acceptable(InfoOf(node[g]))
  BY <1>3, NodeAcceptable DEF Dirty
<1>11. CASE Unmount
  <2>1. Call /\ entry' = [f \in Files |-> IF f \in Dirty THEN InfoOf(node[f]) ELSE entry[f]]
    BY <1>11 DEF Unmount
  <2> QED BY <1>3, <1>10, <2>1
<1>12. CASE UnmountAborts
  <2>1. PICK f \in Dirty : \E flushed \in SUBSET (Dirty \ {f}) : \E sound \in {entry[f].sound, FALSE} :
          /\ entry' = [h \in Files |-> IF h \in flushed THEN InfoOf(node[h])
                                       ELSE IF h = f THEN [entry[f] EXCEPT !.sound = sound]
                                       ELSE entry[h]]
          /\ Failed(f, 1)
    BY <1>12 DEF UnmountAborts
  <2>2. PICK flushed \in SUBSET (Dirty \ {f}), sound \in {entry[f].sound, FALSE} :
          entry' = [h \in Files |-> IF h \in flushed THEN InfoOf(node[h])
                                    ELSE IF h = f THEN [entry[f] EXCEPT !.sound = sound]
                                    ELSE entry[h]]
    BY <2>1
  <2>3. f \in hurt' /\ Call
    BY <2>1, <1>12 DEF Failed, UnmountAborts
  <2>4. g # f
    BY <1>3, <2>3
  <2>5. g \in flushed => Acceptable(InfoOf(node[g]))
    BY <1>10, <2>3
  <2> QED BY <1>3, <2>2, <2>4, <2>5
<1>13. \/ \E f \in Files :
            \/ \E size \in Sizes : Truncate(f, size)
            \/ \E offset \in Sizes, len \in Sizes : Pwrite(f, offset, len)
            \/ \E offset \in Sizes : Pread(f, offset)
            \/ CleanupNode(f)
       \/ Flush \/ Mount
       => entry' = entry
  BY Zenon DEF Truncate, Pwrite, Pread, CleanupNode, Flush, Mount, medium
<1> QED BY <1>5, <1>6, <1>7, <1>8, <1>9, <1>11, <1>12, <1>13, Zenon DEF Calls

LEMMA InitInv ==
    ASSUME Init
    PROVE  Inv
<1>1. \A f \in Files : Acceptable(entry[f])
  BY AllocationAssumption DEF Init, SoundMedium
<1>2. Accepted
  BY <1>1 DEF Accepted, Safe
<1>3. AbortsOnlyIfFailed
  BY DEF Init, Idle, AbortsOnlyIfFailed
<1> QED BY <1>2, <1>3, InitBase, InitHeld DEF Inv

LEMMA StepsAbortFailed ==
    ASSUME Base, Steps, Owns, op'.pc = "aborted"
    PROVE  faults' > 0 \/ backward'
<1>1. PICK ch \in [Files -> [Nat -> Nat]], D \in [Files -> SUBSET Nat] : Held(ch, D)
  BY DEF Owns
<1> PICK f, c, d, n, o : f = op.f /\ c = ch[f] /\ d = D[f] /\ n = File /\ o = op
  OBVIOUS
<1>2. Now(ch, D, f, c, d, n, o)
  BY <1>1, StepsRun DEF Now
<1>3. ~ShrinkAborts
  BY ONLY Base, <1>2, ShrinkAbortsHeld
<1>4. EraseCluster
  BY <1>3, StepsAbort
<1>5. f \in hurt'
  BY ONLY Base, <1>2, <1>4, op'.pc = "aborted", EraseClusterHeld
<1>6. Base'
  BY StepsBase
<1>7. faults' # 0
  BY <1>5, <1>6 DEF Base
<1>8. faults' \in Nat
  BY <1>6 DEF Base, TypeOK
<1> QED BY <1>7, <1>8

LEMMA CallsAbortFailed ==
    ASSUME Base, Calls, op'.pc = "aborted"
    PROVE  faults' > 0
<1>1. Base'
  BY CallsBase
<1>2. faults' \in Nat /\ faults \in Nat
  BY <1>1, SMTT(30) DEF Base, TypeOK
<1>3. op.pc # "aborted"
  BY ZenonT(20) DEF Calls, Truncate, Pwrite, Pread, CleanupNode, Mknod, Unlink, FlushNode, FlushNodeFails,
     Flush, Unmount, UnmountAborts, Mount, Use, Call, Base
<1>4. CASE UnmountAborts
  <2>1. PICK f : Failed(f, 1)
    BY <1>4 DEF UnmountAborts
  <2> QED BY <1>2, <2>1 DEF Failed
<1>5. CASE op' = op
  BY <1>3, <1>5
<1>6. ASSUME NEW f \in Files, NEW size \in Sizes, Truncate(f, size) PROVE FALSE
  <2> PICK r : r = Running(f, "truncate", "idle")
    OBVIOUS
  <2>1. r.pc = "truncate" /\ op' = [r EXCEPT !.size = size, !.erase = TRUE]
    BY <1>6 DEF Running, Truncate
  <2>2. op'.pc = r.pc
    BY <2>1, RunningIs DEF Pcs
  <2> QED BY <2>1, <2>2
<1>7. ASSUME NEW f \in Files, NEW offset \in Sizes, NEW len \in Sizes, Pwrite(f, offset, len)
      PROVE  FALSE
  <2> PICK r : r = Running(f, "write", "write")
    OBVIOUS
  <2>1. r.pc = "write" /\ op' = [r EXCEPT !.offset = offset, !.len = len]
    BY <1>7 DEF Running, Pwrite
  <2>2. op'.pc = r.pc
    BY <2>1, RunningIs DEF Pcs
  <2> QED BY <2>1, <2>2
<1>8. ASSUME NEW f \in Files, CleanupNode(f) PROVE FALSE
  <2> PICK r : r = Running(f, "truncate", "free")
    OBVIOUS
  <2>1. r.pc = "truncate" /\ op' = [r EXCEPT !.erase = TRUE]
    BY <1>8 DEF Running, CleanupNode
  <2>2. op'.pc = r.pc
    BY <2>1, RunningIs DEF Pcs
  <2> QED BY <2>1, <2>2
<1>9. ASSUME NEW f \in Files, NEW offset \in Sizes, Pread(f, offset) PROVE op' = op
  BY <1>9 DEF Pread
<1>10. \/ \E f \in Files : Mknod(f) \/ Unlink(f) \/ FlushNode(f) \/ FlushNodeFails(f)
       \/ Flush \/ Unmount \/ Mount
       => op' = op
  BY DEF Mknod, Unlink, FlushNode, FlushNodeFails, Flush, Unmount, Mount
<1> QED BY <1>4, <1>5, <1>6, <1>7, <1>8, <1>9, <1>10, Zenon DEF Calls

LEMMA SameHeld ==
    ASSUME UNCHANGED <<fat, entry, diskBmap, clean, node, bmap, op, stale, hurt>>, Owns
    PROVE  Owns'
<1>1. PICK ch \in [Files -> [Nat -> Nat]], D \in [Files -> SUBSET Nat] : Held(ch, D)
  BY DEF Owns
<1>2. Apart(ch, D)'
  <2>1. Apart(ch, D)
    BY <1>1 DEF Held
  <2> QED BY <2>1 DEF Apart, Used, Safe
<1>3. ASSUME NEW f, f \in Safe' PROVE Claims(f, ch[f], D[f])'
  <2> PICK c, d : c = ch[f] /\ d = D[f]
    OBVIOUS
  <2>1. Claims(f, c, d)
    BY <1>1, <1>3 DEF Held, Safe
  <2>2. Quiet /\ (Busy(f)' <=> Busy(f))
    BY DEF Quiet, Busy, Runs
  <2>3. ~clean' => Saved(node[f], entry[f])'
    BY <2>1 DEF Claims, Saved, InfoOf
  <2>4. CASE Busy(f)
    <3>1. PICK n, o : n = node[f] /\ o = op /\ Under(n, o, c, d)
      BY <2>1, <2>4 DEF Claims, InCall
    <3>2. Under(n, o, c, d)'
      BY <2>2, <3>1, UnderSame
    <3>3. InCall(f, c, d)'
      BY <3>1, <3>2 DEF InCall
    <3> QED BY <2>2, <2>3, <2>4, <3>3 DEF Claims
  <2>5. CASE ~Busy(f)
    <3>1. PICK n : n = View(f) /\ Lies(n, c, d)
      BY <2>1, <2>5 DEF Claims, AtRest
    <3>2. Lies(n, c, d)'
      BY <2>2, <3>1, LiesSame
    <3>3. View(f)' = n
      BY <3>1 DEF View, NodeOf
    <3>4. AtRest(f, c, d)'
      BY <3>2, <3>3 DEF AtRest
    <3> QED BY <2>2, <2>3, <2>5, <3>4 DEF Claims
  <2> QED BY <2>4, <2>5
<1>4. Runs' /\ op'.f \in hurt' => HurtInCall'
  <2>1. Runs /\ op.f \in hurt => HurtInCall
    BY <1>1 DEF Held
  <2> QED BY <2>1 DEF Runs, HurtInCall, Hurt, File
<1>5. Held(ch, D)'
  BY ONLY <1>2, <1>3, <1>4, Zenon DEF Held
<1> QED BY <1>5 DEF Owns

LEMMA NextInv ==
    ASSUME Inv, [Next]_vars
    PROVE  Inv'
<1>1. CASE UNCHANGED vars
  <2>1. UNCHANGED <<fat, entry, diskBmap, clean, node, bmap, bmapDirty, op, stale, calls,
                    faults, hurt, retried, backward, wrapped, ignored>>
    BY <1>1 DEF vars, medium, memory, history
  <2>2. Base' /\ (Trusted' <=> Trusted) /\ (Accepted' <=> Accepted)
    BY <2>1 DEF Inv, Base, TypeOK, Ops, Pcs, Runs, Trusted, Accepted, Safe, File
  <2>3. Owns => Owns'
    BY <2>1, SameHeld
  <2> QED BY <2>1, <2>2, <2>3 DEF Inv, AbortsOnlyIfFailed
<1>2. CASE Next
  <2>1. Base /\ op.pc # "aborted"
    BY <1>2, StepsRun, ZenonT(20) DEF Inv, Next, Runs, Calls, Truncate, Pwrite, Pread, CleanupNode, Mknod,
       Unlink, FlushNode, FlushNodeFails, Flush, Unmount, UnmountAborts, Mount, Use, Call, Base
  <2>2. Base' /\ Onwards
    BY <1>2, <2>1, StepsBase, StepsKeep, CallsBase, CallsOnward DEF Next
  <2>3. Trusted' => Trusted
    BY <2>2 DEF Trusted, Onwards
  <2>4. Trusted => Accepted /\ Owns
    BY <2>1 DEF Inv
  <2>5. Trusted' => Accepted'
    <3>1. CASE Steps
      <4>1. entry' = entry /\ hurt \subseteq hurt'
        BY <2>2, <3>1, StepsKeep DEF Onwards
      <4> QED BY <2>3, <2>4, <4>1 DEF Accepted, Safe
    <3>2. CASE Calls
      BY <2>1, <2>3, <2>4, <3>2, CallsAccepted
    <3> QED BY <1>2, <3>1, <3>2 DEF Next
  <2>6. Trusted' /\ op'.pc # "aborted" => Owns'
    BY <1>2, <2>1, <2>3, <2>4, StepsHeld, CallsHeld DEF Next, Trusted
  <2>7. AbortsOnlyIfFailed'
    <3> SUFFICES ASSUME op'.pc = "aborted" PROVE faults' > 0 \/ backward' \/ wrapped'
      BY DEF AbortsOnlyIfFailed
    <3>1. CASE Calls
      BY <2>1, <3>1, CallsAbortFailed
    <3>2. CASE Steps
      <4>1. CASE Trusted
        BY <2>1, <2>4, <3>2, <4>1, StepsAbortFailed
      <4>2. CASE ~Trusted
        <5>1. faults' # 0 \/ backward' \/ wrapped'
          BY <2>2, <4>2 DEF Trusted, Onwards, Base
        <5>2. faults' \in Nat
          BY <2>2 DEF Base, TypeOK
        <5> QED BY <5>1, <5>2
      <4> QED BY <4>1, <4>2
    <3> QED BY <1>2, <3>1, <3>2 DEF Next
  <2> QED BY <2>2, <2>5, <2>6, <2>7, SMTT(30) DEF Inv
<1> QED BY <1>1, <1>2

-----------------------------------------------------------------------------
(* What the invariant says of the files at rest                            *)

LEMMA LiesChain ==
    ASSUME fat \in [Clusters -> Nat], NEW n \in Nodes, n # NoNode, NEW c \in [Nat -> Nat], NEW d,
           Lies(n, c, d), NEW count, count = Needed(n.size)
    PROVE  ChainIs(n, c, d, count)
<1>1. n.start \in Nat /\ n.size \in Nat /\ Whole(n, c, d)
  BY NodeFields DEF Lies
<1>2. count \in Nat /\ d = 0 .. count - 1 /\ Linked(n, c, count)
  BY <1>1, ClusterCount DEF Whole
<1> PICK chain : chain = ChainOf(n, count)
  OBVIOUS
<1>3. DOMAIN chain = d /\ \A i \in d : chain[i] = c[i]
  <2>1. DOMAIN chain = 0 .. count - 1
    BY <1>1, <1>2, ChainOfIs
  <2>2. \A i \in 0 .. count - 1 : ChainOf(n, count)[i] = c[i]
    <3>1. fat \in [Clusters -> Nat] /\ n.start \in Nat /\ count \in Nat /\ Linked(n, c, count)
      BY <1>1, <1>2
    <3> QED BY ONLY <3>1, ChainOfLinked, Zenon
  <2> QED BY ONLY <1>2, <2>1, <2>2, chain = ChainOf(n, count), Zenon
<1>4. {chain[i] : i \in DOMAIN chain} = Places(c, d)
  BY ONLY <1>3 DEF Places
<1> QED BY <1>2, <1>3, <1>4 DEF ChainIs

LEMMA SoundIs ==
    ASSUME Base, NEW ch \in [Files -> [Nat -> Nat]], NEW D \in [Files -> SUBSET Nat],
           Held(ch, D), NEW f, f \in Sound
    PROVE  Settled(f, ch[f], D[f])
<1>1. /\ f \in Files /\ f \in Safe /\ node[f].state # "absent"
      /\ op.pc # "idle" => op.f # f
  BY DEF Sound, Resting, Safe
<1>2. ~Busy(f)
  BY <1>1 DEF Busy, Runs
<1>3. node[f] \in Nodes /\ node[f] # NoNode /\ fat \in [Clusters -> Nat]
  BY <1>1, TypesAre DEF NoNode
<1>4. ~clean
  BY <1>1, <1>3 DEF Base
<1>5. Lies(node[f], ch[f], D[f])
  BY <1>1, <1>2, <1>4 DEF Held, Claims, AtRest, View
<1>6. /\ Needed(node[f].size) \in Nat /\ DOMAIN Chain(f) = D[f]
      /\ D[f] = 0 .. Needed(node[f].size) - 1
      /\ \A i \in D[f] : Chain(f)[i] = ch[f][i]
      /\ Owned(f) = Places(ch[f], D[f])
  <2> PICK n, c, d, count :
        n = node[f] /\ c = ch[f] /\ d = D[f] /\ count = Needed(n.size)
    OBVIOUS
  <2>1. c \in [Nat -> Nat]
    BY <1>1
  <2>2. ChainIs(n, c, d, count)
    <3>1. n \in Nodes /\ n # NoNode /\ fat \in [Clusters -> Nat] /\ Lies(n, c, d)
      BY <1>3, <1>5
    <3> QED BY ONLY <2>1, <3>1, count = Needed(n.size), LiesChain, Zenon
  <2>3. Chain(f) = ChainOf(n, count)
    BY DEF Chain
  <2>4. Owned(f) = {ChainOf(n, count)[i] : i \in DOMAIN ChainOf(n, count)}
    BY ONLY <2>3, Zenon DEF Owned
  <2> QED BY ONLY <2>2, <2>3, <2>4, d = D[f], c = ch[f], n = node[f],
             count = Needed(n.size), Zenon DEF ChainIs
<1>7. Used = bmap
  BY <1>4 DEF Used
<1>8. \A i \in D[f] : ch[f][i] \in bmap \ Reserved
  BY <1>1, <1>7 DEF Held, Apart
<1> QED BY <1>1, <1>2, <1>3, <1>4, <1>5, <1>6, <1>7, <1>8 DEF Settled

LEMMA ChainsAreOwned ==
    ASSUME Inv
    PROVE  ChainsOwned
<1> SUFFICES ASSUME Trusted, NEW f \in Sound
             PROVE  /\ Owned(f) \subseteq bmap \ Reserved
                    /\ Cardinality(Owned(f)) = Needed(node[f].size)
                    /\ \A g \in Sound \ {f} : Owned(f) \cap Owned(g) = {}
                    /\ (node[f].size > 0 /\ ~node[f].contiguous) =>
                           fat[Chain(f)[Needed(node[f].size) - 1]] = EXFAT_CLUSTER_END
  BY DEF ChainsOwned
<1>1. Base /\ Owns
  BY DEF Inv, Sound
<1>2. PICK ch \in [Files -> [Nat -> Nat]], D \in [Files -> SUBSET Nat] : Held(ch, D)
  BY <1>1 DEF Owns
<1>s. \A g \in Sound : Settled(g, ch[g], D[g])
  BY <1>1, <1>2, SoundIs
<1> PICK count : count = Needed(node[f].size)
  OBVIOUS
<1>3. \A g \in Sound : /\ g \in Files /\ g \in Safe /\ Owned(g) = Places(ch[g], D[g])
                       /\ \A i \in D[g] : Chain(g)[i] = ch[g][i] /\ ch[g][i] \in bmap \ Reserved
  BY <1>s DEF Settled
<1>4. node[f] # NoNode /\ Lies(node[f], ch[f], D[f]) /\ node[f] \in Nodes
  BY <1>s DEF Settled
<1>10. count \in Nat /\ D[f] = 0 .. count - 1
  BY <1>s DEF Settled
<1>5. \A g, h \in Safe : \A i \in D[g] : \A j \in D[h] : ch[g][i] = ch[h][j] => g = h /\ i = j
  BY <1>2 DEF Held, Apart
<1>6. Owned(f) \subseteq bmap \ Reserved
  BY <1>3 DEF Places
<1>7. Cardinality(Owned(f)) = count
  <2> PICK c, d : c = ch[f] /\ d = D[f]
    OBVIOUS
  <2>1. c \in [Nat -> Nat] /\ Distinct(c, d)
    BY <1>3, <1>5 DEF Distinct
  <2>2. d = 0 .. count - 1
    BY <1>10
  <2>3. Cardinality(Places(c, d)) = count
    BY ONLY <1>10, <2>1, <2>2, PlacesCounted, Zenon
  <2> QED BY <1>3, <2>3
<1>8. ASSUME NEW g \in Sound \ {f} PROVE Owned(f) \cap Owned(g) = {}
  <2>1. ASSUME NEW x \in Owned(f), x \in Owned(g) PROVE FALSE
    <3>1. PICK i \in D[f] : x = ch[f][i]
      BY <1>3 DEF Places
    <3>2. PICK j \in D[g] : x = ch[g][j]
      BY <1>3, <2>1 DEF Places
    <3>3. f \in Safe /\ g \in Safe /\ f # g
      BY <1>3
    <3> QED BY ONLY <1>5, <3>1, <3>2, <3>3, i \in D[f], j \in D[g], Zenon
  <2> QED BY <2>1
<1>9. ASSUME node[f].size > 0, ~node[f].contiguous
      PROVE  fat[Chain(f)[count - 1]] = EXFAT_CLUSTER_END
  <2>1. node[f].size \in Nat /\ (count = 0 <=> node[f].size = 0)
    BY <1>4, NodeFields, ClusterCount
  <2>2. count > 0 /\ count - 1 \in D[f]
    <3>1. node[f].size > 0
      BY <1>9
    <3> QED BY ONLY <1>10, <2>1, <3>1
  <2>3. Ended(node[f], ch[f], count)
    BY <1>4 DEF Lies, Whole
  <2> QED BY <1>3, <1>9, <2>2, <2>3 DEF Ended
<1> QED BY <1>6, <1>7, <1>8, <1>9

LEMMA PointersAreExact ==
    ASSUME Inv
    PROVE  PointerExact
<1> SUFFICES ASSUME Trusted, NEW f \in Sound
             PROVE  /\ node[f].start = EXFAT_CLUSTER_FREE => node[f].index = 0
                    /\ node[f].index < Needed(node[f].size) =>
                         node[f].cluster = Chain(f)[node[f].index]
  BY DEF PointerExact
<1>1. Base /\ Owns
  BY DEF Inv, Sound
<1>2. PICK ch \in [Files -> [Nat -> Nat]], D \in [Files -> SUBSET Nat] : Held(ch, D)
  BY <1>1 DEF Owns
<1>s. Settled(f, ch[f], D[f])
  BY <1>1, <1>2, SoundIs
<1> PICK n, c, d, count : n = node[f] /\ c = ch[f] /\ d = D[f] /\ count = Needed(n.size)
  OBVIOUS
<1>3. /\ n \in Nodes /\ n # NoNode /\ Lies(n, c, d) /\ count \in Nat /\ d = 0 .. count - 1
      /\ \A i \in d : Chain(f)[i] = c[i] /\ c[i] \in bmap
  BY <1>s DEF Settled
<1>4. /\ n.index \in Nat /\ Linked(n, c, count) /\ Pointed(n, c, count)
  BY <1>3, NodeFields DEF Lies, Whole
<1>5. n.start = EXFAT_CLUSTER_FREE => n.index = 0
  <2> SUFFICES ASSUME n.index # 0 PROVE n.start # EXFAT_CLUSTER_FREE
    OBVIOUS
  <2>1. count > 0 /\ 0 \in d
    BY <1>3, <1>4, SMTT(30) DEF Pointed
  <2>2. n.start = c[0]
    BY <1>4, <2>1 DEF Linked
  <2>3. c[0] \in Clusters
    BY <1>1, <1>3, <2>1, TypesAre
  <2> QED BY <2>2, <2>3, ClusterNumbers
<1>6. n.index < count => n.cluster = Chain(f)[n.index]
  <2> SUFFICES ASSUME n.index < count PROVE n.cluster = Chain(f)[n.index]
    OBVIOUS
  <2>1. n.index \in d /\ count > 0
    <3>1. n.index \in Nat /\ count \in Nat /\ d = 0 .. count - 1
      BY <1>3, <1>4
    <3> QED BY ONLY <3>1, n.index < count
  <2> QED BY <1>3, <1>4, <2>1 DEF Pointed
<1> QED BY <1>5, <1>6

LEMMA NothingIsLost ==
    ASSUME Inv
    PROVE  NothingLost
<1> SUFFICES ASSUME Trusted, hurt = {}, op.pc = "idle", ~clean
             PROVE  /\ Reserved \cup UNION {Owned(f) : f \in Sound} \subseteq bmap
                    /\ bmap \ (Reserved \cup UNION {Owned(f) : f \in Sound}) \subseteq Tail
  BY DEF NothingLost
<1>1. Base /\ Owns
  BY DEF Inv
<1>2. PICK ch \in [Files -> [Nat -> Nat]], D \in [Files -> SUBSET Nat] : Held(ch, D)
  BY <1>1 DEF Owns
<1>3. Used = bmap /\ Safe = Files /\ ~Runs
  BY DEF Used, Safe, Runs
<1>4. Reserved \subseteq bmap
  BY <1>2, <1>3 DEF Held, Apart
<1>5. \A f \in Sound : Owned(f) \subseteq bmap
  BY ChainsAreOwned DEF ChainsOwned
<1>6. ASSUME NEW x \in bmap, x \notin Reserved, x \notin Tail PROVE \E f \in Sound : x \in Owned(f)
  <2>1. PICK f \in Files : \E i \in D[f] : ch[f][i] = x
    BY <1>2, <1>3, <1>6 DEF Held, Apart
  <2>2. PICK i \in D[f] : ch[f][i] = x
    BY <2>1
  <2>3. Claims(f, ch[f], D[f]) /\ ~Busy(f)
    BY <1>2, <1>3 DEF Held, Busy
  <2>4. Lies(node[f], ch[f], D[f])
    BY <2>3 DEF Claims, AtRest, View
  <2>5. node[f] # NoNode
    BY <2>2, <2>4 DEF Lies
  <2>6. node[f].state # "absent"
    BY <1>1, <2>5, TypesAre, NodeFields
  <2>7. f \in Sound
    BY <2>6 DEF Sound, Resting
  <2>8. Settled(f, ch[f], D[f])
    BY <1>1, <1>2, <2>7, SoundIs
  <2> QED BY <2>2, <2>7, <2>8 DEF Places, Settled
<1> QED BY <1>4, <1>5, <1>6

LEMMA NoByteIsStale ==
    ASSUME Inv
    PROVE  NoStaleBytes
<1> SUFFICES ASSUME Trusted, NEW f \in Sound, NEW i \in 0 .. node[f].size - 1
             PROVE  <<Chain(f)[i \div CLUSTER_SIZE], i % CLUSTER_SIZE>> \notin stale
  BY DEF NoStaleBytes
<1>1. Base /\ Owns
  BY DEF Inv, Sound
<1>2. PICK ch \in [Files -> [Nat -> Nat]], D \in [Files -> SUBSET Nat] : Held(ch, D)
  BY <1>1 DEF Owns
<1>s. Settled(f, ch[f], D[f])
  BY <1>1, <1>2, SoundIs
<1> PICK n, c, d, count : n = node[f] /\ c = ch[f] /\ d = D[f] /\ count = Needed(n.size)
  OBVIOUS
<1>3. /\ n \in Nodes /\ n # NoNode /\ Lies(n, c, d) /\ count \in Nat /\ d = 0 .. count - 1
      /\ \A j \in d : Chain(f)[j] = c[j]
  BY <1>s DEF Settled
<1>4. i \div CLUSTER_SIZE \in d
  BY <1>3, NodeFields, ClusterCount
<1>5. Fresh(c, i)
  BY <1>3 DEF Lies, AllFresh
<1> QED BY <1>3, <1>4, <1>5 DEF Fresh

\* The file of a call that runs, as the invariant has it.
LEMMA CallIsUnder ==
    ASSUME Base, NEW ch \in [Files -> [Nat -> Nat]], NEW D \in [Files -> SUBSET Nat],
           Held(ch, D), Runs, op.f \notin hurt
    PROVE  /\ op.f \in Safe /\ ~clean /\ Used = bmap
           /\ \E n \in {File}, o \in {op} : Under(n, o, ch[op.f], D[op.f])
<1>1. op.f \in Files /\ ~clean /\ File = node[op.f]
  BY BaseRuns
<1>2. op.f \in Safe /\ Busy(op.f)
  BY <1>1 DEF Safe, Busy
<1>3. Claims(op.f, ch[op.f], D[op.f])
  BY <1>2 DEF Held
<1> QED BY <1>1, <1>2, <1>3 DEF Claims, InCall, Used

LEMMA WritesAreOwn ==
    ASSUME Inv
    PROVE  WritesOwn
<1> SUFFICES ASSUME Trusted, op.pc \in {"erasing", "writing"}, op.pc = "writing" => op.left > 0,
                    op.f \notin hurt, NEW g \in Sound
             PROVE  op.cluster \in bmap \ (Reserved \cup Owned(g))
  BY DEF WritesOwn
<1>1. Base /\ Owns /\ Runs
  BY DEF Inv, Runs
<1>2. PICK ch \in [Files -> [Nat -> Nat]], D \in [Files -> SUBSET Nat] : Held(ch, D)
  BY <1>1 DEF Owns
<1> PICK f, c, d : f = op.f /\ c = ch[f] /\ d = D[f]
  OBVIOUS
<1>3. f \in Safe /\ Used = bmap /\ \E n \in {File}, o \in {op} : Under(n, o, c, d)
  BY <1>1, <1>2, CallIsUnder
<1>4. PICK n, o : n = File /\ o = op /\ Under(n, o, c, d)
  BY <1>3
<1>5. \E k \in d : o.cluster = c[k]
  <2>1. CASE o.pc = "erasing"
    BY <1>4, <2>1 DEF Under, Erasing
  <2>2. CASE o.pc = "writing"
    <3>1. o.left > 0
      BY <1>4, <2>2
    <3> QED BY <1>4, <2>2, <3>1, Zenon DEF Under, Writing
  <2> QED BY <1>4, <2>1, <2>2
<1>6. PICK k \in d : o.cluster = c[k]
  BY <1>5
<1>7. op.cluster \in bmap \ Reserved
  BY <1>2, <1>3, <1>4, <1>6 DEF Held, Apart
<1>8. Settled(g, ch[g], D[g])
  BY <1>1, <1>2, SoundIs
<1>9. op.cluster \notin Owned(g)
  <2> SUFFICES ASSUME op.cluster \in Owned(g) PROVE FALSE
    OBVIOUS
  <2>1. PICK j \in D[g] : op.cluster = ch[g][j]
    BY <1>8 DEF Settled, Places
  <2>2. g \in Safe /\ ch[f][k] = ch[g][j] /\ k \in D[f]
    BY <1>4, <1>6, <1>8, <2>1 DEF Settled
  <2>3. f = g
    BY <1>2, <1>3, <2>2 DEF Held, Apart
  <2> QED BY <2>3 DEF Sound, Resting
<1> QED BY <1>7, <1>9

LEMMA NoSpaceIsRestored ==
    ASSUME Inv
    PROVE  NoSpaceRestores
<1> SUFFICES ASSUME Trusted, op.pc = "freeing", op.left = 0, op.full, op.f \notin hurt
             PROVE  /\ bmap = op.before.used
                    /\ ChainOf(File, Needed(File.size)) = op.before.chain
  BY DEF NoSpaceRestores
<1>1. Base /\ Owns /\ Runs
  BY DEF Inv, Runs
<1>2. PICK ch \in [Files -> [Nat -> Nat]], D \in [Files -> SUBSET Nat] : Held(ch, D)
  BY <1>1 DEF Owns
<1> PICK c, d : c = ch[op.f] /\ d = D[op.f]
  OBVIOUS
<1>3. PICK n, o : n = File /\ o = op /\ Under(n, o, c, d)
  <2>1. \E n \in {File}, o \in {op} : Under(n, o, c, d)
    BY <1>1, <1>2, CallIsUnder
  <2> QED BY <2>1
<1>4. Freeing(n, o, c, d)
  BY <1>3 DEF Under
<1> PICK count : count = Needed(n.size)
  OBVIOUS
<1>5. /\ n.size \in Nat /\ n.start \in Nat /\ o.current \in Nat /\ fat \in [Clusters -> Nat]
      /\ op.f \in Files /\ c \in [Nat -> Nat]
  <2>1. op.f \in Files /\ op \in Ops /\ File.size \in Nat /\ File.start \in Nat
        /\ fat \in [Clusters -> Nat]
    BY <1>1, BaseRuns
  <2> QED BY <1>3, <2>1, OpFields
<1>6. Kept(n, o) = count /\ o.left = 0 /\ o.full
  BY <1>3 DEF Kept, KeptSize
<1>7. Linked(n, c, count) /\ Remembered(n, o, c, o.current - o.left .. o.current - 1)
  BY ONLY <1>4, <1>6, Zenon DEF Freeing
<1>8. o.current - o.left .. o.current - 1 = {}
  BY ONLY <1>5, <1>6
<1>9. o.before.used = bmap \ {c[j] : j \in {}}
  BY ONLY <1>7, <1>8, Zenon DEF Remembered
<1>10. /\ o.before.chain \in [0 .. count - 1 -> Nat]
       /\ \A j \in 0 .. count - 1 : o.before.chain[j] = c[j]
  BY ONLY <1>7, count = Needed(n.size), Zenon DEF Remembered
<1>11. count \in Nat
  BY <1>5, ClusterCount
<1>12. ChainOf(n, count) \in [0 .. count - 1 -> Nat]
  BY <1>5, <1>11, ChainOfIs
<1>13. \A i \in 0 .. count - 1 : ChainOf(n, count)[i] = c[i]
  <2>1. Linked(n, c, count) /\ fat \in [Clusters -> Nat] /\ n.start \in Nat
    BY <1>5, <1>7
  <2> QED BY ONLY <1>11, <2>1, ChainOfLinked, ZenonT(30)
<1>14. ChainOf(n, count) = o.before.chain
  <2> PICK a, b, X : a = ChainOf(n, count) /\ b = o.before.chain /\ X = 0 .. count - 1
    OBVIOUS
  <2>1. a \in [X -> Nat] /\ b \in [X -> Nat] /\ \A i \in X : a[i] = b[i]
    BY <1>10, <1>12, <1>13
  <2>2. a = b
    BY ONLY <2>1
  <2> QED BY <2>2
<1>15. bmap = o.before.used
  BY <1>9
<1> QED BY <1>3, <1>14, <1>15

LEMMA EntriesAreAcceptable ==
    ASSUME Inv
    PROVE  EntriesAcceptable
BY DEF Inv, EntriesAcceptable, Accepted, Safe

LEMMA CleanVolumeIsSound ==
    ASSUME Inv
    PROVE  CleanIsSound
<1> SUFFICES ASSUME clean, Trusted, hurt = {}
             PROVE  /\ \A f \in Files : Acceptable(entry[f])
                    /\ \A f, g \in Files : f # g => OnMedium(f) \cap OnMedium(g) = {}
                    /\ Reserved \cup UNION {OnMedium(f) : f \in Files} \subseteq diskBmap
                    /\ diskBmap \ (Reserved \cup UNION {OnMedium(f) : f \in Files}) \subseteq Tail
  BY DEF CleanIsSound, OnMedium
<1>1. Base /\ Owns /\ Accepted /\ op.pc = "idle"
  BY DEF Inv, Base
<1>2. PICK ch \in [Files -> [Nat -> Nat]], D \in [Files -> SUBSET Nat] : Held(ch, D)
  BY <1>1 DEF Owns
<1>3. Safe = Files /\ Used = diskBmap /\ ~Runs
  BY <1>1 DEF Safe, Used, Runs
<1>4. Apart(ch, D)
  BY <1>2 DEF Held
<1>5. ASSUME NEW f \in Files PROVE OnMedium(f) = Places(ch[f], D[f])
  <2> PICK e, n, c, d : e = entry[f] /\ n = NodeOf(e) /\ c = ch[f] /\ d = D[f]
    OBVIOUS
  <2>1. e \in Entries /\ fat \in [Clusters -> Nat] /\ c \in [Nat -> Nat]
    BY <1>1, TypesAre
  <2>2. Lies(n, c, d)
    <3>1. Claims(f, c, d) /\ ~Busy(f)
      BY <1>2, <1>3 DEF Held, Busy
    <3>2. View(f) = n
      BY DEF View
    <3> QED BY <3>1, <3>2 DEF Claims, AtRest
  <2>3. CASE e = NoEntry
    <3>1. n = NoNode
      BY <2>3 DEF NodeOf
    <3>2. d = {}
      BY <2>2, <3>1 DEF Lies
    <3> QED BY <2>3, <3>2 DEF OnMedium, Places
  <2>4. CASE e # NoEntry
    <3> PICK count : count = Needed(n.size)
      OBVIOUS
    <3>1. n \in Nodes /\ n # NoNode
      BY <2>1, <2>4, NodeOfIs
    <3>2. ChainIs(n, c, d, count)
      BY ONLY <2>1, <2>2, <3>1, count = Needed(n.size), LiesChain, Zenon
    <3>3. OnMedium(f) = {ChainOf(n, count)[i] : i \in DOMAIN ChainOf(n, count)}
      BY ONLY <2>4, e = entry[f], n = NodeOf(e), count = Needed(n.size), Zenon
         DEF OnMedium
    <3> QED BY ONLY <3>2, <3>3, c = ch[f], d = D[f], Zenon DEF ChainIs
  <2> QED BY <2>3, <2>4
<1>6. ASSUME NEW f \in Files, NEW g \in Files, f # g PROVE OnMedium(f) \cap OnMedium(g) = {}
  <2>1. ASSUME NEW x, x \in OnMedium(f), x \in OnMedium(g) PROVE FALSE
    <3>1. PICK i \in D[f] : x = ch[f][i]
      BY <1>5, <2>1 DEF Places
    <3>2. PICK j \in D[g] : x = ch[g][j]
      BY <1>5, <2>1 DEF Places
    <3>3. f \in Safe /\ g \in Safe /\ f # g
      BY <1>3, <1>6
    <3>4. \A h, k \in Safe : \A a \in D[h] : \A b \in D[k] : ch[h][a] = ch[k][b] => h = k /\ a = b
      BY <1>4 DEF Apart
    <3> QED BY ONLY <3>1, <3>2, <3>3, <3>4, i \in D[f], j \in D[g], Zenon
  <2> QED BY <2>1
<1>7. /\ Reserved \cup UNION {OnMedium(f) : f \in Files} \subseteq diskBmap
      /\ diskBmap \ (Reserved \cup UNION {OnMedium(f) : f \in Files}) \subseteq Tail
  <2>1. Reserved \subseteq diskBmap
    BY <1>3, <1>4 DEF Apart
  <2>2. \A f \in Files : OnMedium(f) \subseteq diskBmap
    BY <1>3, <1>4, <1>5 DEF Apart, Places
  <2>3. ASSUME NEW x \in diskBmap, x \notin Reserved, x \notin Tail PROVE \E f \in Files : x \in OnMedium(f)
    <3>1. PICK f \in Files : \E i \in D[f] : ch[f][i] = x
      BY <1>3, <1>4, <2>3 DEF Apart
    <3> QED BY <1>5, <3>1 DEF Places
  <2> QED BY <2>1, <2>2, <2>3
<1>8. \A f \in Files : Acceptable(entry[f])
  BY <1>1, <1>3 DEF Accepted
<1> QED BY <1>6, <1>7, <1>8

-----------------------------------------------------------------------------
(* The scan of the bitmap                                                  *)

LEMMA ChosenLeast ==
    ASSUME NEW S, S \subseteq Nat, S # {}, NEW m, m = CHOOSE c \in S : \A d \in S : c <= d
    PROVE  m \in S /\ \A d \in S : m <= d
<1>1. \E c \in S : \A d \in S : c <= d
  BY LeastElement
<1> QED BY ONLY <1>1, m = CHOOSE c \in S : \A d \in S : c <= d, Zenon

\* The range that exfat_find_used_sectors finds behind b, if any, is made up of
\* used clusters, with none before it.
LEMMA FoundRange ==
    ASSUME NEW used, used \subseteq Clusters, NEW b \in Nat, NEW r, r = FindUsed(used, b)
    PROVE  /\ r = NoRange => \A x \in used : ~(b < x /\ x < cluster_count)
           /\ r # NoRange => /\ r.a \in Nat /\ r.b \in Nat
                             /\ b < r.a /\ r.a <= r.b /\ r.b <= cluster_count /\ r.a < cluster_count
                             /\ r.a \in used /\ r = [a |-> r.a, b |-> r.b]
                             /\ \A x \in used : ~(b < x /\ x < r.a)
                             /\ \A x \in r.a .. r.b : x < cluster_count => x \in used
<1> PICK size : size = cluster_count
  OBVIOUS
<1>0. size \in Nat /\ used \subseteq Nat
  BY AllocationAssumption, ClusterNumbers DEF cluster_count
<1> PICK behind : behind = {c \in used : b < c /\ c < size}
  OBVIOUS
<1> PICK a : a = CHOOSE c \in behind : \A d \in behind : c <= d
  OBVIOUS
<1> PICK free : free = {c \in a .. size - 1 : c \notin used}
  OBVIOUS
<1> PICK e : e = CHOOSE c \in free : \A d \in free : c <= d
  OBVIOUS
<1> PICK end : end = r.b
  OBVIOUS
<1>1. /\ behind = {} => r = NoRange
      /\ behind # {} => r = [a |-> a, b |-> IF free = {} THEN size ELSE e - 1]
  BY DEF FindUsed
<1>2. CASE behind = {}
  <2>1. r = NoRange
    BY <1>1, <1>2
  <2>2. \A x \in used : ~(b < x /\ x < size)
    BY <1>2
  <2> QED BY <2>1, <2>2
<1>3. CASE behind # {}
  <2>1. a \in behind /\ \A d \in behind : a <= d
    <3>1. behind \subseteq Nat
      BY <1>0
    <3> QED BY ONLY <3>1, <1>3, ChosenLeast, a = CHOOSE c \in behind : \A d \in behind : c <= d
  <2>2. a \in Nat /\ a \in used /\ b < a /\ a < size
    BY ONLY <1>0, <2>1, behind = {c \in used : b < c /\ c < size}
  <2>3. \A x \in used : ~(b < x /\ x < a)
    <3> SUFFICES ASSUME NEW x \in used, b < x, x < a PROVE FALSE
      OBVIOUS
    <3>1. x \in Nat
      BY <1>0
    <3>2. x < size
      BY ONLY <1>0, <2>2, <3>1, x < a
    <3>3. x \in behind
      BY ONLY <3>2, x \in used, b < x, behind = {c \in used : b < c /\ c < size}
    <3>4. a <= x
      BY <2>1, <3>3
    <3> QED BY ONLY <2>2, <3>1, <3>4, x < a
  <2>4. r = [a |-> a, b |-> IF free = {} THEN size ELSE e - 1]
    BY <1>1, <1>3
  <2>5. /\ free = {} => end = size
        /\ free # {} => end = e - 1
    BY <2>4
  <2>6. /\ end \in Nat /\ a <= end /\ end <= size
        /\ \A x \in a .. end : x < size => x \in used
    <3>1. CASE free = {}
      <4>1. end = size
        BY <2>5, <3>1
      <4>2. \A x \in a .. size - 1 : x \in used
        BY <3>1
      <4>3. \A x \in a .. size : x < size => x \in a .. size - 1
        BY ONLY <1>0, <2>2
      <4> QED BY ONLY <1>0, <2>2, <4>1, <4>2, <4>3
    <3>2. CASE free # {}
      <4>1. free \subseteq Nat
        BY ONLY <2>2, free = {c \in a .. size - 1 : c \notin used}
      <4>3. e \in free /\ \A d \in free : e <= d
        BY ONLY <4>1, <3>2, ChosenLeast, e = CHOOSE c \in free : \A d \in free : c <= d
      <4>4. e \in a .. size - 1 /\ e \notin used
        BY <4>3
      <4>5. e # a
        BY <2>2, <4>4
      <4>6. end = e - 1
        BY <2>5, <3>2
      <4>7. end \in Nat /\ a <= end /\ end <= size
        BY ONLY <1>0, <2>2, <4>4, <4>5, <4>6
      <4>8. \A x \in a .. end : x \in a .. size - 1 /\ ~(e <= x)
        BY ONLY <1>0, <2>2, <4>4, <4>6
      <4>9. \A x \in a .. end : x \in used
        <5> TAKE x \in a .. end
        <5>1. x \in a .. size - 1 /\ ~(e <= x)
          BY <4>8
        <5>2. x \notin free
          BY <4>3, <5>1
        <5> QED BY <5>1, <5>2
      <4> QED BY <4>7, <4>9
    <3> QED BY <3>1, <3>2
  <2>7. r.a = a /\ r.b = end /\ r # NoRange /\ r = [a |-> r.a, b |-> r.b]
    <3>1. NoRange.a = 0 /\ r.a = a /\ r.b = end /\ r = [a |-> r.a, b |-> r.b]
      BY <2>4 DEF NoRange
    <3>2. a # 0
      BY ONLY <2>2, b \in Nat
    <3> QED BY ONLY <3>1, <3>2
  <2> QED BY ONLY <1>0, <2>2, <2>3, <2>6, <2>7, size = cluster_count, b \in Nat
<1> QED BY <1>2, <1>3

\* The ranges found from b on, as the recursion has them.
Further(used, from, b) ==
    IF FindUsed(used, b) = NoRange THEN {}
    ELSE {FindUsed(used, b)} \cup from[FindUsed(used, b).b]

LEMMA ScanDefined ==
    ASSUME NEW used, used \subseteq Clusters
    PROVE  \E from : from = [b \in Nat |-> Further(used, from, b)]
<1> PICK size : size = cluster_count
  OBVIOUS
<1>0. size \in Nat
  BY AllocationAssumption DEF cluster_count
<1> DEFINE From(k, g) == \A b \in Nat : b + k >= size => g[b] = Further(used, g, b)
           S == {k \in Nat : \E g : From(k, g)}
<1>1. \A b \in Nat : FindUsed(used, b) # NoRange =>
        FindUsed(used, b).b \in Nat /\ b < FindUsed(used, b).b /\ b < size
  <2> TAKE b \in Nat
  <2> PICK r : r = FindUsed(used, b)
    OBVIOUS
  <2>1. r # NoRange => r.a \in Nat /\ r.b \in Nat /\ b < r.a /\ r.a <= r.b /\ r.a < size
    BY FoundRange
  <2> QED BY ONLY <1>0, <2>1, r = FindUsed(used, b), b \in Nat
<1>2. 0 \in S
  <2> DEFINE g == [b \in Nat |-> {}]
  <2>1. ASSUME NEW b \in Nat, b + 0 >= size PROVE g[b] = Further(used, g, b)
    <3>1. FindUsed(used, b) = NoRange
      BY <1>0, <1>1, <2>1
    <3> QED BY <3>1 DEF Further
  <2>2. From(0, g)
    <3> HIDE DEF g
    <3> QED BY <2>1
  <2> HIDE DEF From, g
  <2> QED BY <2>2
<1>3. ASSUME NEW k \in Nat, k \in S PROVE k + 1 \in S
  <2> PICK g : From(k, g)
    BY <1>3
  <2> DEFINE h == [b \in Nat |-> Further(used, g, b)]
  <2>1. ASSUME NEW b \in Nat, b + (k + 1) >= size PROVE h[b] = Further(used, h, b)
    <3> PICK r : r = FindUsed(used, b)
      OBVIOUS
    <3>1. CASE r = NoRange
      BY <3>1 DEF Further
    <3>2. CASE r # NoRange
      <4>1. r.b \in Nat /\ b < r.b
        BY <1>1, <3>2
      <4>2. r.b + k >= size
        BY ONLY <1>0, <2>1, <4>1
      <4>3. g[r.b] = Further(used, g, r.b)
        BY <4>1, <4>2
      <4>4. h[r.b] = g[r.b]
        BY <4>1, <4>3
      <4>5. h[b] = Further(used, g, b)
        OBVIOUS
      <4> HIDE DEF h
      <4> QED BY ONLY <4>4, <4>5, r = FindUsed(used, b), Zenon DEF Further
    <3> QED BY <3>1, <3>2
  <2>2. From(k + 1, h)
    <3> HIDE DEF h
    <3> QED BY <2>1
  <2> HIDE DEF From, h
  <2> QED BY <2>2
<1>4. size \in S
  <2> HIDE DEF S
  <2> QED BY <1>0, <1>2, <1>3, SetInduction
<1>5. PICK g : From(size, g)
  BY <1>4
<1> DEFINE from == [b \in Nat |-> Further(used, g, b)]
<1>6. ASSUME NEW b \in Nat PROVE Further(used, g, b) = Further(used, from, b)
  <2> PICK r : r = FindUsed(used, b)
    OBVIOUS
  <2>1. CASE r = NoRange
    BY <2>1 DEF Further
  <2>2. CASE r # NoRange
    <3>1. r.b \in Nat
      BY <1>1, <2>2
    <3>2. r.b + size >= size
      BY ONLY <1>0, <3>1
    <3>3. from[r.b] = g[r.b]
      BY <1>5, <3>1, <3>2
    <3> HIDE DEF from
    <3> QED BY ONLY <3>3, r = FindUsed(used, b), Zenon DEF Further
  <2> QED BY <2>1, <2>2
<1>7. from = [b \in Nat |-> Further(used, from, b)]
  BY <1>6
<1> HIDE DEF from
<1> QED BY <1>7

\* What the ranges found from b on hold, as far as the scan goes.
Holds(used, from, b) ==
    /\ \A r \in from[b] : r.a \in Nat /\ r.b \in Nat /\ b < r.a /\ r.b <= cluster_count
    /\ \A x \in Nat : b < x /\ x < cluster_count =>
         (x \in used <=> \E r \in from[b] : x \in r.a .. r.b)

LEMMA ScanHolds ==
    ASSUME NEW used, used \subseteq Clusters, NEW from,
           from = [b \in Nat |-> Further(used, from, b)]
    PROVE  \A b \in Nat : Holds(used, from, b)
<1> PICK size : size = cluster_count
  OBVIOUS
<1>0. size \in Nat
  BY AllocationAssumption DEF cluster_count
<1> DEFINE S == {k \in Nat : \A b \in Nat : b + k >= size => Holds(used, from, b)}
<1>1. \A b \in Nat : from[b] = Further(used, from, b)
  BY Zenon
<1>2. ASSUME NEW b \in Nat, FindUsed(used, b) = NoRange PROVE Holds(used, from, b)
  <2>1. from[b] = {}
    BY <1>1, <1>2 DEF Further
  <2>2. \A x \in used : ~(b < x /\ x < cluster_count)
    BY <1>2, FoundRange
  <2> QED BY ONLY <2>1, <2>2 DEF Holds
<1>3. ASSUME NEW b \in Nat, NEW r, r = FindUsed(used, b), r # NoRange, Holds(used, from, r.b)
      PROVE  Holds(used, from, b)
  <2> PICK R, T : R = from[b] /\ T = from[r.b]
    OBVIOUS
  <2>1. R = {r} \cup T
    BY <1>1, <1>3 DEF Further
  <2>2. /\ r.a \in Nat /\ r.b \in Nat /\ b < r.a /\ r.a <= r.b /\ r.b <= size
        /\ \A x \in used : ~(b < x /\ x < r.a)
        /\ \A x \in r.a .. r.b : x < size => x \in used
    BY <1>3, FoundRange
  <2>3. /\ \A s \in T : s.a \in Nat /\ s.b \in Nat /\ r.b < s.a /\ s.b <= size
        /\ \A x \in Nat : r.b < x /\ x < size => (x \in used <=> \E s \in T : x \in s.a .. s.b)
    BY ONLY <1>3, T = from[r.b], size = cluster_count, Zenon DEF Holds
  <2>4. \A s \in R : s.a \in Nat /\ s.b \in Nat /\ b < s.a /\ s.b <= size
    <3>1. \A s \in T : s.a \in Nat /\ s.b \in Nat /\ b < s.a /\ s.b <= size
      BY ONLY <2>2, <2>3, b \in Nat
    <3> QED BY ONLY <2>1, <2>2, <3>1, Zenon
  <2>5. ASSUME NEW x \in Nat, b < x, x < size
        PROVE  x \in used <=> \E s \in R : x \in s.a .. s.b
    <3>1. \A s \in T : x <= r.b => x \notin s.a .. s.b
      BY ONLY <2>2, <2>3, x \in Nat
    <3>2. (\E s \in R : x \in s.a .. s.b) <=> (x \in r.a .. r.b \/ \E s \in T : x \in s.a .. s.b)
      BY ONLY <2>1, Zenon
    <3>3. CASE x < r.a
      <4>1. x \notin r.a .. r.b /\ x <= r.b
        BY ONLY <2>2, <3>3, x \in Nat
      <4>2. x \notin used
        BY <2>2, <2>5, <3>3
      <4> QED BY ONLY <3>1, <3>2, <4>1, <4>2, Zenon
    <3>4. CASE r.a <= x /\ x <= r.b
      <4>1. x \in r.a .. r.b
        BY ONLY <2>2, <3>4, x \in Nat
      <4>2. x \in used
        BY <2>2, <2>5, <4>1
      <4> QED BY ONLY <3>2, <4>1, <4>2, Zenon
    <3>5. CASE r.b < x
      <4>1. x \notin r.a .. r.b
        BY ONLY <2>2, <3>5, x \in Nat
      <4>2. x \in used <=> \E s \in T : x \in s.a .. s.b
        BY <2>3, <2>5, <3>5
      <4> QED BY ONLY <3>2, <4>1, <4>2, Zenon
    <3> QED BY ONLY <2>2, <3>3, <3>4, <3>5, x \in Nat
  <2> QED BY ONLY <2>4, <2>5, R = from[b], size = cluster_count, Zenon DEF Holds
<1>4. 0 \in S
  <2> SUFFICES ASSUME NEW b \in Nat, b + 0 >= size PROVE Holds(used, from, b)
    OBVIOUS
  <2> PICK r : r = FindUsed(used, b)
    OBVIOUS
  <2>1. ~(b < size)
    BY ONLY <1>0, b \in Nat, b + 0 >= size
  <2>2. r # NoRange => r.a \in Nat /\ b < r.a /\ r.a < size
    BY FoundRange
  <2>3. r = NoRange
    BY ONLY <1>0, <2>1, <2>2, b \in Nat
  <2> QED BY <1>2, <2>3
<1>5. ASSUME NEW k \in Nat, k \in S PROVE k + 1 \in S
  <2> SUFFICES ASSUME NEW b \in Nat, b + (k + 1) >= size PROVE Holds(used, from, b)
    OBVIOUS
  <2> PICK r : r = FindUsed(used, b)
    OBVIOUS
  <2>1. CASE r = NoRange
    BY <1>2, <2>1
  <2>2. CASE r # NoRange
    <3>1. r.a \in Nat /\ r.b \in Nat /\ b < r.a /\ r.a <= r.b
      BY <2>2, FoundRange
    <3>2. r.b \in Nat /\ r.b + k >= size
      BY ONLY <1>0, <3>1, b \in Nat, k \in Nat, b + (k + 1) >= size
    <3>3. Holds(used, from, r.b)
      BY <1>5, <3>2
    <3> QED BY <1>3, <2>2, <3>3
  <2> QED BY <2>1, <2>2
<1>6. size \in S
  <2> HIDE DEF S
  <2> QED BY <1>0, <1>4, <1>5, SetInduction
<1> TAKE b \in Nat
<1>7. b + size >= size
  BY ONLY <1>0, b \in Nat
<1> QED BY <1>6, <1>7

\* The first range begins with sector 0, and takes in what is before a.
LEMMA ScanIsExactly ==
    ASSUME Base
    PROVE  ScanIsExact
<1> PICK from : from = CHOOSE g : g = [b \in Nat |-> Further(bmap, g, b)]
  OBVIOUS
<1> PICK R, r, size, shown, used, before :
      /\ R = UsedRanges(bmap) /\ r = FindUsed(bmap, 1) /\ size = cluster_count
      /\ shown = UNION {s.a .. s.b : s \in R} /\ used = bmap \cap Bits
      /\ before = {c \in Bits : \A x \in used : c < x}
  OBVIOUS
<1>1. /\ bmap \subseteq Clusters /\ size \in Nat /\ Bits = 2 .. size - 1
      /\ EXFAT_FIRST_DATA_CLUSTER - 1 = 1
  BY TypesAre, AllocationAssumption DEF Bits, cluster_count, EXFAT_FIRST_DATA_CLUSTER
<1>2. from = [b \in Nat |-> Further(bmap, from, b)]
  BY ONLY ScanDefined, <1>1, from = CHOOSE g : g = [b \in Nat |-> Further(bmap, g, b)], Zenon
<1>3. R = IF r = NoRange THEN {} ELSE {[r EXCEPT !.a = 0]} \cup from[r.b]
  BY ONLY <1>1, R = UsedRanges(bmap), r = FindUsed(bmap, 1),
     from = CHOOSE g : g = [b \in Nat |-> Further(bmap, g, b)], Zenon DEF UsedRanges, Further
<1>4. CASE r = NoRange
  <2>1. \A x \in bmap : ~(1 < x /\ x < size)
    BY <1>1, <1>4, FoundRange
  <2>2. used = {}
    BY ONLY <1>1, <2>1, used = bmap \cap Bits
  <2>3. shown = {}
    BY <1>3, <1>4
  <2>4. shown \subseteq 0 .. size
    BY ONLY <2>3
  <2> QED BY <2>2, <2>3, <2>4 DEF ScanIsExact
<1>5. CASE r # NoRange
  <2> PICK T, a, b : T = from[r.b] /\ a = r.a /\ b = r.b
    OBVIOUS
  <2>1. /\ a \in Nat /\ b \in Nat /\ 1 < a /\ a <= b /\ b <= size /\ a \in bmap
        /\ \A x \in bmap : ~(1 < x /\ x < a)
        /\ \A x \in a .. b : x < size => x \in bmap
        /\ r = [a |-> a, b |-> b] /\ a < size
    <3> PICK one \in Nat : one = 1
      OBVIOUS
    <3>1. /\ r.a \in Nat /\ r.b \in Nat /\ one < r.a /\ r.a <= r.b /\ r.b <= cluster_count
          /\ r.a < cluster_count /\ r.a \in bmap /\ r = [a |-> r.a, b |-> r.b]
          /\ \A x \in bmap : ~(one < x /\ x < r.a)
          /\ \A x \in r.a .. r.b : x < cluster_count => x \in bmap
      BY ONLY <1>1, <1>5, FoundRange, r = FindUsed(bmap, one), one \in Nat
    <3> QED BY ONLY <3>1, one = 1, a = r.a, b = r.b, size = cluster_count, Zenon
  <2> PICK z : z = [a |-> 0, b |-> b]
    OBVIOUS
  <2>2. R = {z} \cup T /\ z.a = 0 /\ z.b = b
    <3>1. [r EXCEPT !.a = 0] = z
      BY ONLY <2>1, z = [a |-> 0, b |-> b]
    <3>2. R = {z} \cup T
      BY ONLY <1>3, <1>5, <3>1, T = from[r.b]
    <3> QED BY ONLY <3>2, z = [a |-> 0, b |-> b]
  <2>3. Holds(bmap, from, b)
    <3>1. \A x \in Nat : Holds(bmap, from, x)
      BY ONLY <1>1, <1>2, ScanHolds, Zenon
    <3> QED BY ONLY <2>1, <3>1, Zenon
  <2>4. /\ \A s \in T : s.a \in Nat /\ s.b \in Nat /\ b < s.a /\ s.b <= size
        /\ \A x \in Nat : b < x /\ x < size => (x \in bmap <=> \E s \in T : x \in s.a .. s.b)
    BY ONLY <2>3, T = from[r.b], b = r.b, size = cluster_count, Zenon DEF Holds
  <2>5. \A x : x \in shown <=> x \in 0 .. b \/ \E s \in T : x \in s.a .. s.b
    BY ONLY <2>2, shown = UNION {s.a .. s.b : s \in R}, Zenon
  <2>6. a \in used
    BY ONLY <1>1, <2>1, used = bmap \cap Bits
  <2>7. ASSUME NEW x \in Bits PROVE x \in before <=> x < a
    <3>1. x < a => \A y \in used : x < y
      <4> SUFFICES ASSUME x < a, NEW y \in used PROVE x < y
        OBVIOUS
      <4>1. y \in Nat /\ x \in Nat /\ 1 < y /\ y \in bmap
        BY ONLY <1>1, used = bmap \cap Bits, x \in Bits, y \in used
      <4>2. ~(y < a)
        BY <2>1, <4>1
      <4> QED BY ONLY <2>1, <4>1, <4>2, x < a
    <3> QED BY ONLY <2>6, <3>1, x \in Bits, before = {c \in Bits : \A y \in used : c < y}, Zenon
  <2>8. ASSUME NEW x \in Bits PROVE x \in shown <=> x \in used \/ x \in before
    <3>1. x \in Nat /\ 1 < x /\ x < size
      BY <1>1
    <3>2. x \in used <=> x \in bmap
      OBVIOUS
    <3>3. CASE x < a
      BY ONLY <2>1, <2>5, <2>7, <3>1, <3>3, x \in Bits
    <3>4. CASE a <= x /\ x <= b
      BY ONLY <2>1, <2>5, <3>1, <3>2, <3>4
    <3>5. CASE b < x
      <4>1. x \notin 0 .. b /\ ~(x < a)
        BY ONLY <2>1, <3>1, <3>5
      <4>2. x \in bmap <=> \E s \in T : x \in s.a .. s.b
        BY <2>4, <3>1, <3>5
      <4>3. x \notin before
        BY <2>7, <4>1
      <4> QED BY ONLY <2>5, <3>2, <4>1, <4>2, <4>3, Zenon
    <3> QED BY ONLY <2>1, <3>1, <3>3, <3>4, <3>5
  <2>9. shown \subseteq 0 .. size
    <3> SUFFICES ASSUME NEW x \in shown PROVE x \in 0 .. size
      OBVIOUS
    <3>1. CASE x \in 0 .. b
      BY ONLY <1>1, <2>1, <3>1
    <3>2. CASE x \notin 0 .. b
      <4>1. PICK s \in T : x \in s.a .. s.b
        BY <2>5, <3>2
      <4>2. s.a \in Nat /\ s.b \in Nat /\ s.b <= size
        BY <2>4
      <4> QED BY ONLY <1>1, <4>1, <4>2
    <3> QED BY <3>1, <3>2
  <2>10. used # {} /\ shown \cap Bits = used \cup before
    BY <2>6, <2>8
  <2> QED BY <2>9, <2>10 DEF ScanIsExact
<1> QED BY <1>4, <1>5

-----------------------------------------------------------------------------
(* The theorems                                                            *)

LEMMA Invariance == Spec => []Inv
<1>1. Init => Inv
  BY InitInv
<1>2. Inv /\ [Next]_vars => Inv'
  BY NextInv
<1> QED BY <1>1, <1>2, PTL DEF Spec

\* The clusters of every file that no access failed on are its own, as many as
\* its size asks for, marked as used, and found where its pointer says; none falls
\* between the files, but the last two of the volume, which free_cluster leaves
\* marked.  exfat_truncate keeps this through its steps, as long as bytes2clusters
\* does not overflow; what fails in a call on one file does not touch another's.
THEOREM ClustersAreAccounted == Spec => []ClustersAccounted
<1>1. Inv => ClustersAccounted
  BY ChainsAreOwned, PointersAreExact, NothingIsLost DEF Inv, Base, ClustersAccounted
<1> QED BY <1>1, Invariance, PTL

\* exfat_generic_pwrite and erase_range write to no cluster of another file,
\* and no byte within the size of a file is older than its cluster's giving out:
\* what a deleted file has left does not show,
\* unless a size was asked for whose clusters bytes2clusters cannot count.
THEOREM BytesAreOwn == Spec => []BytesOwn
<1>1. Inv => BytesOwn
  BY WritesAreOwn, NoByteIsStale DEF BytesOwn
<1> QED BY <1>1, Invariance, PTL

\* When grow_file is out of space, shrink_file takes back what was given out and
\* no more.  exfat_find_used_sectors shows every used cluster, and of others those
\* before the first, and one behind the last of the bitmap.
THEOREM AnswersAreExact == Spec => []AnswersExact
<1>1. Inv => AnswersExact
  BY NoSpaceIsRestored, ScanIsExactly DEF Inv, AnswersExact
<1> QED BY <1>1, Invariance, PTL

\* check_node takes the entry of every file that no access failed on, at any
\* time; and after exfat_unmount the entries and the bitmap fit together,
\* but for what free_cluster does not take back.
THEOREM MediumIsSound == Spec => []MediumSound
<1>1. Inv => MediumSound
  BY EntriesAreAcceptable, CleanVolumeIsSound DEF MediumSound
<1> QED BY <1>1, Invariance, PTL

\* exfat_bug in shrink_file is not reached, and that in erase_range, and that of
\* exfat_unmount, only after an access has failed, a file was kept as contiguous
\* that grew backwards, or bytes2clusters overflowed.
THEOREM AbortsOnlyAfterFailure == Spec => []AbortsOnlyIfFailed
<1>1. Inv => AbortsOnlyIfFailed
  BY DEF Inv
<1> QED BY <1>1, Invariance, PTL
=============================================================================
