---------------------------- MODULE OnDiskProofs ----------------------------
(***************************************************************************)
(* Proofs about what is on the disks when a process is gone: the status    *)
(* file, for every page size, every count and every list of records, and   *)
(* the mark a mounted volume carries, for every set of options and number  *)
(* of mounts.                                                              *)
(*                                                                         *)
(* The records of the status file are of different lengths and load()      *)
(* finds each only by having read the one before.  Its invariant therefore *)
(* names the offsets P at which the records lie; behind the last there is  *)
(* nothing, or the beginning of a record that was cut.  load() is then at  *)
(* a record boundary, or over a cut record somewhere beyond the end.       *)
(***************************************************************************)
EXTENDS StatusFile, Mount, SequenceTheorems, WellFoundedInduction, TLAPS

-----------------------------------------------------------------------------
(* The records and their cells                                             *)

\* What a record of the file may be, and how many cells it has.
Files == [name : Seq(Nat \ {0}), offsets : Seq([offset : Nat, size : Nat])]
Units ==
    {r \in [name : Seq(Nat \ {0}), offsets : Seq([offset : Nat, size : Nat]), isProcessed : BOOLEAN] :
        Len(r.offsets) < Base * Base}
Extent(r) == Len(r.name) + 2 * Len(r.offsets) + 4

\* The cells of the record r, one by one.
CellsOf(r, m, q, M) ==
    /\ m = Len(r.name) /\ q = Len(r.offsets)
    /\ \A c \in 1 .. m : M[c] = r.name[c]
    /\ M[m + 1] = 0 /\ M[m + 2] = q % Base /\ M[m + 3] = q \div Base
    /\ \A e \in 1 .. q : /\ M[m + 3 + (2 * e - 1)] = r.offsets[e].offset
                         /\ M[m + 3 + 2 * e] = r.offsets[e].size
    /\ M[m + 3 + 2 * q + 1] = IF r.isProcessed THEN 1 ELSE 0

LEMMA BaseIs == Base \in Nat /\ Base > 1 /\ PageSize \in Nat /\ PageSize > 0
BY CellAssumption

\* A count is the sum of its two digits, and each is a number.
LEMMA Digits ==
    ASSUME NEW q \in Nat
    PROVE  q % Base \in Nat /\ q \div Base \in Nat /\ (q % Base) + Base * (q \div Base) = q
BY BaseIs

LEMMA UnitFields ==
    ASSUME NEW r \in Units
    PROVE  /\ r.name \in Seq(Nat \ {0}) /\ r.offsets \in Seq([offset : Nat, size : Nat])
           /\ r.isProcessed \in BOOLEAN /\ Len(r.offsets) < Base * Base
           /\ Len(r.name) \in Nat /\ Len(r.offsets) \in Nat
           /\ Extent(r) \in Nat /\ Extent(r) > 0
           /\ r = [name |-> r.name, offsets |-> r.offsets, isProcessed |-> r.isProcessed]
<1>1. /\ r.name \in Seq(Nat \ {0}) /\ r.offsets \in Seq([offset : Nat, size : Nat])
      /\ r.isProcessed \in BOOLEAN /\ Len(r.offsets) < Base * Base
      /\ r = [name |-> r.name, offsets |-> r.offsets, isProcessed |-> r.isProcessed]
  BY DEF Units
<1>2. Len(r.name) \in Nat /\ Len(r.offsets) \in Nat
  BY <1>1
<1>3. Extent(r) \in Nat /\ Extent(r) > 0
  <2>1. PICK m, q : m = Len(r.name) /\ q = Len(r.offsets)
    OBVIOUS
  <2>2. m \in Nat /\ q \in Nat
    BY <1>2, <2>1
  <2>3. Extent(r) = m + 2 * q + 4
    BY <2>1, Zenon DEF Extent
  <2> QED BY ONLY <2>2, <2>3
<1> QED BY <1>1, <1>2, <1>3

\* What is put behind a sequence of cells lies there.
LEMMA Behind ==
    ASSUME NEW s \in Seq(Nat), NEW t \in Seq(Nat), NEW u, u = s \o t
    PROVE  /\ u \in Seq(Nat) /\ Len(u) = Len(s) + Len(t)
           /\ \A c \in 1 .. Len(s) : u[c] = s[c]
           /\ \A c \in 1 .. Len(t) : u[Len(s) + c] = t[c]
<1>1. /\ u \in Seq(Nat) /\ Len(u) = Len(s) + Len(t)
      /\ \A c \in 1 .. Len(s) + Len(t) :
           u[c] = IF c <= Len(s) THEN s[c] ELSE t[c - Len(s)]
  BY ConcatProperties, Zenon
<1>2. Len(s) \in Nat /\ Len(t) \in Nat
  OBVIOUS
<1>3. ASSUME NEW c \in 1 .. Len(s) PROVE u[c] = s[c]
  <2>1. c \in 1 .. Len(s) + Len(t) /\ c <= Len(s)
    BY ONLY <1>2, c \in 1 .. Len(s)
  <2> QED BY ONLY <1>1, <2>1
<1>4. ASSUME NEW c \in 1 .. Len(t) PROVE u[Len(s) + c] = t[c]
  <2>1. Len(s) + c \in 1 .. Len(s) + Len(t) /\ ~(Len(s) + c <= Len(s)) /\ Len(s) + c - Len(s) = c
    BY ONLY <1>2, c \in 1 .. Len(t)
  <2> QED BY ONLY <1>1, <2>1, SMTT(30)
<1> QED BY <1>1, <1>3, <1>4

\* The parts of a marshalled unit, one behind the other.
LaidOut(A, B, C, D, m, q, M) ==
    /\ M \in Seq(Nat) /\ Len(M) = m + 2 * q + 4
    /\ \A c \in 1 .. m + 1 : M[c] = A[c]
    /\ M[m + 2] = B[1] /\ M[m + 3] = B[2]
    /\ \A c \in 1 .. 2 * q : M[m + 3 + c] = C[c]
    /\ M[m + 3 + 2 * q + 1] = D[1]

LEMMA Parts ==
    ASSUME NEW A \in Seq(Nat), NEW B \in Seq(Nat), NEW C \in Seq(Nat), NEW D \in Seq(Nat),
           NEW m \in Nat, NEW q \in Nat,
           Len(A) = m + 1, Len(B) = 2, Len(C) = 2 * q, Len(D) = 1
    PROVE  LaidOut(A, B, C, D, m, q, (A \o (B \o C)) \o D)
<1>0. PICK M : M = (A \o (B \o C)) \o D
  OBVIOUS
<1>1. PICK S : S = B \o C
  OBVIOUS
<1>2. PICK T : T = A \o S
  OBVIOUS
<1>3. /\ S \in Seq(Nat) /\ Len(S) = Len(B) + Len(C)
      /\ \A c \in 1 .. Len(B) : S[c] = B[c]
      /\ \A c \in 1 .. Len(C) : S[Len(B) + c] = C[c]
  BY ONLY <1>1, Behind, B \in Seq(Nat), C \in Seq(Nat), SMTT(30)
<1>4. /\ T \in Seq(Nat) /\ Len(T) = Len(A) + Len(S)
      /\ \A c \in 1 .. Len(A) : T[c] = A[c]
      /\ \A c \in 1 .. Len(S) : T[Len(A) + c] = S[c]
  <2>1. S \in Seq(Nat)
    BY <1>3
  <2> QED BY ONLY <1>2, <2>1, Behind, A \in Seq(Nat), SMTT(30)
<1>5. /\ M \in Seq(Nat) /\ Len(M) = Len(T) + Len(D)
      /\ \A c \in 1 .. Len(T) : M[c] = T[c]
      /\ \A c \in 1 .. Len(D) : M[Len(T) + c] = D[c]
  <2>1. M = T \o D
    BY <1>0, <1>1, <1>2
  <2>2. T \in Seq(Nat)
    BY <1>4
  <2> QED BY ONLY <2>1, <2>2, Behind, D \in Seq(Nat), SMTT(30)
<1>6. /\ Len(S) = 2 + 2 * q /\ Len(T) = m + 2 * q + 3 /\ Len(M) = m + 2 * q + 4
  BY <1>3, <1>4, <1>5
<1>7. ASSUME NEW c \in 1 .. m + 1 PROVE M[c] = A[c]
  <2>1. c \in 1 .. Len(A) /\ c \in 1 .. Len(T)
    BY <1>6
  <2> QED BY ONLY <1>4, <1>5, <2>1
<1>8. ASSUME NEW c \in 1 .. 2 + 2 * q PROVE M[m + 1 + c] = S[c]
  <2>1. c \in 1 .. Len(S) /\ Len(A) + c \in 1 .. Len(T) /\ Len(A) + c = m + 1 + c
    BY <1>6
  <2> QED BY ONLY <1>4, <1>5, <2>1
<1>9. M[m + 2] = B[1] /\ M[m + 3] = B[2]
  <2>1. /\ 1 \in 1 .. 2 + 2 * q /\ 2 \in 1 .. 2 + 2 * q
        /\ m + 1 + 1 = m + 2 /\ m + 1 + 2 = m + 3
        /\ 1 \in 1 .. Len(B) /\ 2 \in 1 .. Len(B)
    OBVIOUS
  <2>2. M[m + 1 + 1] = S[1] /\ M[m + 1 + 2] = S[2] /\ S[1] = B[1] /\ S[2] = B[2]
    BY ONLY <1>3, <1>8, <2>1
  <2> QED BY ONLY <2>1, <2>2
<1>10. ASSUME NEW c \in 1 .. 2 * q PROVE M[m + 3 + c] = C[c]
  <2>1. /\ 2 + c \in 1 .. 2 + 2 * q /\ m + 1 + (2 + c) = m + 3 + c
        /\ c \in 1 .. Len(C) /\ Len(B) + c = 2 + c
    OBVIOUS
  <2>2. M[m + 1 + (2 + c)] = S[2 + c] /\ S[Len(B) + c] = C[c]
    BY ONLY <1>3, <1>8, <2>1
  <2> QED BY ONLY <2>1, <2>2
<1>11. M[m + 3 + 2 * q + 1] = D[1]
  <2>1. 1 \in 1 .. Len(D) /\ Len(T) + 1 = m + 3 + 2 * q + 1
    BY <1>6
  <2> QED BY ONLY <1>5, <2>1
<1>12. LaidOut(A, B, C, D, m, q, M)
  BY <1>5, <1>6, <1>7, <1>9, <1>10, <1>11, Zenon DEF LaidOut
<1> QED BY ONLY <1>0, <1>12, Zenon

\* What MarshalUnit writes.
LEMMA MarshalIs ==
    ASSUME NEW r \in Units
    PROVE  /\ MarshalUnit(r) \in Seq(Nat) /\ Len(MarshalUnit(r)) = Extent(r)
           /\ CellsOf(r, Len(r.name), Len(r.offsets), MarshalUnit(r))
           /\ MarshalFileInternals(r) \in Seq(Nat)
<1>a. PICK m, q : m = Len(r.name) /\ q = Len(r.offsets)
  OBVIOUS
<1>0. m \in Nat /\ q \in Nat
  BY <1>a, UnitFields
<1>b. PICK A, B, C, D :
      /\ A = MarshalString(r.name) /\ B = <<q % Base, q \div Base>>
      /\ C = [c \in 1 .. 2 * q |-> LET element == r.offsets[(c + 1) \div 2]
                                   IN  IF c % 2 = 1 THEN element.offset ELSE element.size]
      /\ D = MarshalBool(r.isProcessed)
  OBVIOUS
<1>1. /\ A \in Seq(Nat) /\ Len(A) = m + 1 /\ A[m + 1] = 0
      /\ \A c \in 1 .. m : A[c] = r.name[c]
  <2>1. r.name \in Seq(Nat)
    BY UnitFields
  <2>2. A = Append(r.name, 0)
    BY <1>b DEF MarshalString
  <2> QED BY ONLY <1>a, <2>1, <2>2
<1>2. B \in Seq(Nat) /\ Len(B) = 2 /\ B[1] = q % Base /\ B[2] = q \div Base
  <2>1. q % Base \in Nat /\ q \div Base \in Nat
    BY <1>0, Digits, Zenon
  <2> QED BY <2>1, <1>b
<1>3. ASSUME NEW e \in 1 .. q
      PROVE  /\ r.offsets[e].offset \in Nat /\ r.offsets[e].size \in Nat
             /\ 2 * e - 1 \in 1 .. 2 * q /\ 2 * e \in 1 .. 2 * q
             /\ C[2 * e - 1] = r.offsets[e].offset /\ C[2 * e] = r.offsets[e].size
  <2>1. r.offsets[e] \in [offset : Nat, size : Nat]
    <3>1. r.offsets \in Seq([offset : Nat, size : Nat])
      BY UnitFields
    <3>2. PICK o : o = r.offsets
      OBVIOUS
    <3>3. o \in Seq([offset : Nat, size : Nat]) /\ e \in 1 .. Len(o)
      BY <3>1, <3>2, <1>a
    <3> QED BY ONLY <3>2, ElementOfSeq, <3>3, Zenon
  <2>2. /\ 2 * e - 1 \in 1 .. 2 * q /\ 2 * e \in 1 .. 2 * q
        /\ ((2 * e - 1) + 1) \div 2 = e /\ (2 * e + 1) \div 2 = e
        /\ (2 * e - 1) % 2 = 1 /\ (2 * e) % 2 = 0
    BY ONLY <1>0, e \in 1 .. q
  <2>3. C[2 * e - 1] = r.offsets[e].offset
    BY ONLY <2>2, <1>b
  <2>4. C[2 * e] = r.offsets[e].size
    BY ONLY <2>2, <1>b
  <2> QED BY <2>1, <2>2, <2>3, <2>4
<1>4. C \in Seq(Nat) /\ Len(C) = 2 * q
  <2>1. ASSUME NEW c \in 1 .. 2 * q PROVE C[c] \in Nat
    <3>1. \E e \in 1 .. q : c = 2 * e - 1 \/ c = 2 * e
      <4>1. CASE c % 2 = 1
        <5>1. (c + 1) \div 2 \in 1 .. q /\ c = 2 * ((c + 1) \div 2) - 1
          BY ONLY <1>0, <4>1, c \in 1 .. 2 * q
        <5> QED BY <5>1
      <4>2. CASE c % 2 # 1
        <5>1. c \div 2 \in 1 .. q /\ c = 2 * (c \div 2)
          BY ONLY <1>0, <4>2, c \in 1 .. 2 * q
        <5> QED BY <5>1
      <4> QED BY <4>1, <4>2
    <3> QED BY <1>3, <3>1
  <2>2. C = [c \in 1 .. 2 * q |-> C[c]]
    BY <1>b
  <2>3. C \in [1 .. 2 * q -> Nat] /\ 2 * q \in Nat
    BY ONLY <1>0, <2>1, <2>2
  <2> QED BY ONLY <2>3
<1>5. D \in Seq(Nat) /\ Len(D) = 1 /\ D[1] = IF r.isProcessed THEN 1 ELSE 0
  BY <1>b DEF MarshalBool
<1>6. PICK M : M = (A \o (B \o C)) \o D
  OBVIOUS
<1>7. M = MarshalUnit(r)
  <2>1. MarshalOffsets(r.offsets) = B \o C
    BY <1>a, <1>b, Zenon DEF MarshalOffsets
  <2>2. MarshalFileInternals(r) = A \o (B \o C)
    BY <1>b, <2>1, Zenon DEF MarshalFileInternals
  <2> QED BY <1>b, <1>6, <2>2, Zenon DEF MarshalUnit
<1>8. /\ M \in Seq(Nat) /\ Len(M) = m + 2 * q + 4
      /\ \A c \in 1 .. m + 1 : M[c] = A[c]
      /\ M[m + 2] = B[1] /\ M[m + 3] = B[2]
      /\ \A c \in 1 .. 2 * q : M[m + 3 + c] = C[c]
      /\ M[m + 3 + 2 * q + 1] = D[1]
  <2>1. /\ A \in Seq(Nat) /\ B \in Seq(Nat) /\ C \in Seq(Nat) /\ D \in Seq(Nat)
        /\ Len(A) = m + 1 /\ Len(B) = 2 /\ Len(C) = 2 * q /\ Len(D) = 1
    BY <1>1, <1>2, <1>4, <1>5, Zenon
  <2>2. m \in Nat /\ q \in Nat
    BY <1>0
  <2>3. LaidOut(A, B, C, D, m, q, (A \o (B \o C)) \o D)
    BY ONLY <2>1, <2>2, Parts, ZenonT(30)
  <2>4. LaidOut(A, B, C, D, m, q, M)
    BY ONLY <1>6, <2>3, Zenon
  <2> QED BY ONLY <2>4, Zenon DEF LaidOut
<1>9. ASSUME NEW c \in 1 .. m PROVE M[c] = r.name[c]
  <2>1. c \in 1 .. m + 1
    BY <1>0
  <2> QED BY <1>1, <1>8, <2>1
<1>10. M[m + 1] = 0
  <2>1. m + 1 \in 1 .. m + 1
    BY <1>0
  <2> QED BY <1>1, <1>8, <2>1
<1>11. ASSUME NEW e \in 1 .. q
       PROVE  /\ M[m + 3 + (2 * e - 1)] = r.offsets[e].offset
              /\ M[m + 3 + 2 * e] = r.offsets[e].size
  BY <1>3, <1>8, Zenon
<1>12. Len(M) = Extent(r)
  BY ONLY <1>0, <1>8, <1>a DEF Extent
<1>13. CellsOf(r, m, q, M)
  BY ONLY <1>a, <1>2, <1>5, <1>8, <1>9, <1>10, <1>11, Zenon DEF CellsOf
<1>14. MarshalFileInternals(r) \in Seq(Nat)
  <2>1. PICK S : S = B \o C
    OBVIOUS
  <2>2. S \in Seq(Nat)
    BY ONLY <1>2, <1>4, <2>1, ConcatProperties, Zenon
  <2>3. A \o S \in Seq(Nat)
    BY ONLY <1>1, <2>2, ConcatProperties, Zenon
  <2>4. MarshalOffsets(r.offsets) = B \o C
    BY <1>a, <1>b, Zenon DEF MarshalOffsets
  <2> QED BY <1>b, <2>1, <2>3, <2>4, Zenon DEF MarshalFileInternals
<1> QED BY <1>a, <1>7, <1>8, <1>12, <1>13, <1>14

LEMMA LeastElement ==
    ASSUME NEW T, T \subseteq Nat, T # {}
    PROVE  \E m \in T : \A n \in T : m <= n
<1>1. PICK R : /\ IsWellFoundedOn(R, Nat)
               /\ \A n, k \in Nat : n < k => <<n, k>> \in R
  <2>1. \A n, k \in Nat : n < k => <<n, k>> \in OpToRel(<, Nat)
    BY DEF OpToRel
  <2> QED BY <2>1, NatLessThanWellFounded, Zenon
<1>2. PICK m \in T : \A n \in T : ~(<<n, m>> \in R)
  <2>1. IsWellFoundedOn(R, Nat) /\ T \subseteq Nat /\ T # {}
    BY <1>1
  <2>2. \A A, B, C : IsWellFoundedOn(A, B) /\ C \subseteq B /\ C # {} =>
          \E x \in C : \A y \in C : ~(<<y, x>> \in A)
    BY WFMin
  <2> QED BY ONLY <2>1, <2>2, Zenon
<1>3. ASSUME NEW n \in T PROVE m <= n
  <2>1. n \in Nat /\ m \in Nat
    OBVIOUS
  <2>2. ~(n < m)
    BY <1>1, <1>2, <2>1
  <2> QED BY ONLY <2>1, <2>2
<1> QED BY <1>3

LEMMA SetInduction ==
    ASSUME NEW S, 0 \in S, \A n \in Nat : n \in S => n + 1 \in S
    PROVE  Nat \subseteq S
<1> SUFFICES ASSUME Nat \ S # {} PROVE FALSE
  OBVIOUS
<1>1. PICK m \in Nat \ S : \A n \in Nat \ S : m <= n
  BY LeastElement
<1>2. m - 1 \in Nat /\ m - 1 \notin S
  BY <1>1
<1> QED BY <1>1, <1>2

-----------------------------------------------------------------------------
(* Reading the file back                                                   *)

\* The map holds the file, in whole pages.
LEMMA PagesCover ==
    ASSUME NEW s \in Nat
    PROVE  /\ ((s + PageSize - 1) \div PageSize) * PageSize \in Nat
           /\ s <= ((s + PageSize - 1) \div PageSize) * PageSize
<1>1. PICK x, d, l : /\ x = s + PageSize - 1
                     /\ d = x \div PageSize /\ l = x % PageSize
  OBVIOUS
<1>2. x \in Nat /\ PageSize \in Nat /\ PageSize > 0
  BY <1>1, BaseIs
<1>3. d \in Nat /\ l \in Nat /\ l < PageSize /\ x = PageSize * d + l
  BY ONLY <1>1, <1>2
<1>4. d * PageSize = PageSize * d /\ PageSize * d \in Nat
  BY ONLY <1>2, <1>3
<1>5. s <= d * PageSize
  BY ONLY <1>1, <1>2, <1>3, <1>4, s \in Nat
<1> QED BY <1>1, <1>4, <1>5

\* What the map is while the file is loaded.
MapIs == file \in Seq(Nat) /\ size = Len(file)

LEMMA MapEndIs ==
    ASSUME MapIs
    PROVE  size \in Nat /\ MapEnd \in Nat /\ size <= MapEnd
<1>1. size \in Nat
  BY DEF MapIs
<1> QED BY <1>1, PagesCover DEF MapEnd

LEMMA CellIs ==
    ASSUME MapIs, NEW at \in Nat
    PROVE  /\ Cell(at) \in Nat
           /\ at < size => Cell(at) = file[at + 1]
           /\ at >= size => Cell(at) = 0
<1>1. file \in Seq(Nat) /\ size = Len(file)
  BY DEF MapIs
<1>2. CASE at < size
  <2>1. at + 1 \in 1 .. Len(file)
    BY <1>1, <1>2
  <2>2. file[at + 1] \in Nat
    BY <1>1, <2>1, ElementOfSeq, Zenon
  <2>3. Cell(at) = file[at + 1] /\ ~(at >= size)
    BY <1>1, <1>2 DEF Cell
  <2> QED BY ONLY <1>2, <2>2, <2>3
<1>3. CASE ~(at < size)
  BY <1>1, <1>3 DEF Cell
<1> QED BY <1>2, <1>3

\* The string that starts at "at" ends there.
EndsAt(at, k) ==
    /\ k \in at .. MapEnd
    /\ k = MapEnd \/ Cell(k) = 0
    /\ \A l \in at .. k - 1 : Cell(l) # 0

LEMMA NulIs ==
    ASSUME MapIs, NEW at \in Nat, at <= MapEnd
    PROVE  EndsAt(at, Nul(at))
<1>1. MapEnd \in Nat
  BY MapEndIs
<1>2. PICK E : E = MapEnd
  OBVIOUS
<1>3. PICK K : K = {k \in at .. E : k = E \/ Cell(k) = 0}
  OBVIOUS
<1>4. K \subseteq Nat /\ K # {}
  BY <1>1, <1>2, <1>3
<1>5. PICK z \in K : \A k \in K : z <= k
  BY <1>4, LeastElement
<1>6. z \in at .. E /\ (z = E \/ Cell(z) = 0)
  BY <1>3
<1>7. ASSUME NEW l \in at .. z - 1 PROVE Cell(l) # 0
  <2>1. l \in at .. E /\ ~(z <= l)
    BY <1>1, <1>2, <1>6
  <2> QED BY ONLY <1>3, <1>5, <2>1
<1>8. \E k \in at .. MapEnd : /\ k = MapEnd \/ Cell(k) = 0
                              /\ \A l \in at .. k - 1 : Cell(l) # 0
  BY <1>2, <1>6, <1>7, Zenon
<1> QED BY <1>8, Zenon DEF Nul, EndsAt

LEMMA NulOnce ==
    ASSUME MapIs, NEW at \in Nat, NEW k, EndsAt(at, k)
    PROVE  Nul(at) = k
<1>1. MapEnd \in Nat
  BY MapEndIs
<1>2. PICK z, E : z = Nul(at) /\ E = MapEnd
  OBVIOUS
<1>3. k \in at .. E /\ (k = E \/ Cell(k) = 0) /\ \A l \in at .. k - 1 : Cell(l) # 0
  BY <1>2 DEF EndsAt
<1>4. at <= MapEnd
  BY <1>1, <1>2, <1>3
<1>5. z \in at .. E /\ (z = E \/ Cell(z) = 0) /\ \A l \in at .. z - 1 : Cell(l) # 0
  BY <1>2, <1>4, NulIs DEF EndsAt
<1>6. E \in Nat
  BY <1>1, <1>2
<1>7. ~(z < k)
  <2> SUFFICES ASSUME z < k PROVE FALSE
    OBVIOUS
  <2>1. z \in at .. k - 1 /\ z # E
    BY <1>3, <1>5, <1>6
  <2> QED BY ONLY <2>1, <1>3, <1>5
<1>8. ~(k < z)
  <2> SUFFICES ASSUME k < z PROVE FALSE
    OBVIOUS
  <2>1. k \in at .. z - 1 /\ k # E
    BY <1>3, <1>5, <1>6
  <2> QED BY ONLY <2>1, <1>3, <1>5
<1>9. z = k
  BY ONLY <1>3, <1>5, <1>6, <1>7, <1>8, at \in Nat
<1> QED BY <1>2, <1>9

\* The first n cells of the record r lie at p.
Holds(r, p, n) == \A c \in 1 .. n : file[p + c] = MarshalUnit(r)[c]

LEMMA HeldCell ==
    ASSUME MapIs, NEW r \in Units, NEW p \in Nat, NEW n \in Nat, Holds(r, p, n), p + n <= size,
           NEW c \in 1 .. n
    PROVE  Cell(p + c - 1) = MarshalUnit(r)[c]
<1>1. size \in Nat
  BY MapEndIs
<1>2. p + c - 1 \in Nat /\ p + c - 1 < size /\ (p + c - 1) + 1 = p + c
  BY <1>1
<1>3. Cell(p + c - 1) = file[p + c]
  BY <1>2, CellIs
<1> QED BY <1>3, Zenon DEF Holds

\* What the first cells of a record say of its name.
LEMMA NameEnds ==
    ASSUME MapIs, NEW r \in Units, NEW p \in Nat, NEW n \in Nat, Holds(r, p, n), p + n <= size
    PROVE  /\ \A l \in p .. p + n - 1 : l < p + Len(r.name) => Cell(l) # 0
           /\ Len(r.name) < n => EndsAt(p, p + Len(r.name))
<1>1. PICK m, M, E : m = Len(r.name) /\ M = MarshalUnit(r) /\ E = MapEnd
  OBVIOUS
<1>2. m \in Nat /\ E \in Nat /\ size \in Nat /\ size <= E
  BY <1>1, MapEndIs, UnitFields
<1>3. /\ \A c \in 1 .. m : M[c] = r.name[c]
      /\ M[m + 1] = 0
  BY <1>1, MarshalIs, Zenon DEF CellsOf
<1>4. \A c \in 1 .. n : Cell(p + c - 1) = M[c]
  BY <1>1, HeldCell
<1>5. ASSUME NEW l \in p .. p + n - 1, l < p + m PROVE Cell(l) # 0
  <2>1. PICK c : c = l - p + 1
    OBVIOUS
  <2>2. c \in 1 .. n /\ c \in 1 .. m /\ p + c - 1 = l
    BY ONLY <1>2, <1>5, <2>1, p \in Nat, n \in Nat
  <2>3. r.name[c] # 0
    <3>1. r.name \in Seq(Nat \ {0}) /\ c \in 1 .. Len(r.name)
      BY <1>1, <2>2, UnitFields, Zenon
    <3>2. r.name[c] \in Nat \ {0}
      BY <3>1, ElementOfSeq, Zenon
    <3> QED BY <3>2
  <2> QED BY ONLY <1>3, <1>4, <2>2, <2>3, Zenon
<1>6. ASSUME m < n PROVE EndsAt(p, p + m)
  <2>1. Cell(p + m) = 0
    <3>1. m + 1 \in 1 .. n /\ p + (m + 1) - 1 = p + m
      BY <1>2, <1>6
    <3> QED BY ONLY <1>3, <1>4, <3>1
  <2>2. p + m \in p .. E
    BY ONLY <1>2, <1>6, p \in Nat, n \in Nat, p + n <= size
  <2>3. ASSUME NEW l \in p .. (p + m) - 1 PROVE Cell(l) # 0
    <3>1. l \in p .. p + n - 1 /\ l < p + m
      BY <1>2, <1>6
    <3> QED BY <1>5, <3>1
  <2> QED BY <1>1, <2>1, <2>2, <2>3, Zenon DEF EndsAt
<1> QED BY <1>1, <1>5, <1>6, Zenon

\* Reading back a whole record gives that record, and the offset behind it.
LEMMA Reading ==
    ASSUME MapIs, NEW r \in Units, NEW p \in Nat, Holds(r, p, Extent(r)), p + Extent(r) <= size
    PROVE  /\ p < MapEnd /\ Mapped(p) /\ Unmarshal(p) = r
           /\ FlagAt(p) + 1 = p + Extent(r)
<1>1. PICK m, q, M, E :
        m = Len(r.name) /\ q = Len(r.offsets) /\ M = MarshalUnit(r) /\ E = MapEnd
  OBVIOUS
<1>2. PICK n : n = Extent(r)
  OBVIOUS
<1>3. /\ m \in Nat /\ q \in Nat /\ E \in Nat /\ size \in Nat /\ size <= E
      /\ n = m + 2 * q + 4 /\ n \in Nat /\ p + n <= size
  BY <1>1, <1>2, MapEndIs, UnitFields DEF Extent
<1>4. /\ \A c \in 1 .. m : M[c] = r.name[c]
      /\ M[m + 2] = q % Base /\ M[m + 3] = q \div Base
      /\ \A e \in 1 .. q : /\ M[m + 3 + (2 * e - 1)] = r.offsets[e].offset
                           /\ M[m + 3 + 2 * e] = r.offsets[e].size
      /\ M[m + 3 + 2 * q + 1] = IF r.isProcessed THEN 1 ELSE 0
  BY <1>1, MarshalIs, Zenon DEF CellsOf
<1>5. \A c \in 1 .. n : Cell(p + c - 1) = M[c]
  <2>1. n \in Nat /\ Holds(r, p, n) /\ p + n <= size
    BY <1>2, <1>3, Zenon
  <2> QED BY <1>1, <2>1, HeldCell, Zenon
<1>6. Nul(p) = p + m
  <2>1. m < n
    BY <1>3
  <2>2. EndsAt(p, p + m)
    BY <1>1, <1>2, <1>3, <2>1, NameEnds
  <2> QED BY <2>2, NulOnce
<1>7. CountAt(p) = q
  <2>1. /\ m + 2 \in 1 .. n /\ p + (m + 2) - 1 = p + m + 1
        /\ m + 3 \in 1 .. n /\ p + (m + 3) - 1 = p + m + 2
    BY ONLY <1>3, p \in Nat
  <2>2. Cell(p + m + 1) = q % Base /\ Cell(p + m + 2) = q \div Base
    BY ONLY <1>4, <1>5, <2>1
  <2>3. CountAt(p) = Cell(p + m + 1) + Base * Cell(p + m + 2)
    BY <1>6, Zenon DEF CountAt
  <2>4. (q % Base) + Base * (q \div Base) = q
    BY <1>3, Digits
  <2> QED BY ONLY <2>2, <2>3, <2>4, Zenon
<1>8. FirstElement(p) = p + m + 3 /\ FlagAt(p) = p + m + 3 + 2 * q
  BY <1>6, <1>7, Zenon DEF FirstElement, FlagAt
<1>9. p < E /\ p + m + 3 <= E /\ p + m + 3 + 2 * q < E /\ p + m + 3 + 2 * q + 1 = p + n
  BY ONLY <1>3, p \in Nat
<1>10. p < MapEnd /\ Mapped(p) /\ FlagAt(p) + 1 = p + Extent(r)
  BY ONLY <1>1, <1>2, <1>8, <1>9, Zenon DEF Mapped
<1>11. [c \in 1 .. Nul(p) - p |-> Cell(p + c - 1)] = r.name
  <2>1. r.name \in Seq(Nat \ {0})
    BY UnitFields
  <2>2. r.name = [c \in 1 .. m |-> r.name[c]]
    BY ONLY <1>1, <2>1, SMTT(30)
  <2>3. \A c \in 1 .. m : Cell(p + c - 1) = r.name[c]
    <3>1. \A c \in 1 .. m : c \in 1 .. n
      BY ONLY <1>3
    <3> QED BY ONLY <1>4, <1>5, <3>1
  <2>4. Nul(p) - p = m
    BY ONLY <1>3, <1>6, p \in Nat
  <2>5. PICK f : f = r.name
    OBVIOUS
  <2> QED BY ONLY <2>2, <2>3, <2>4, <2>5
<1>12. [e \in 1 .. CountAt(p) |-> [offset |-> Cell(FirstElement(p) + 2 * (e - 1)),
                                   size |-> Cell(FirstElement(p) + 2 * (e - 1) + 1)]] = r.offsets
  <2>1. r.offsets \in Seq([offset : Nat, size : Nat])
    BY UnitFields
  <2>2. PICK o : o = r.offsets
    OBVIOUS
  <2>3. o = [e \in 1 .. q |-> o[e]] /\ \A e \in 1 .. q : o[e] \in [offset : Nat, size : Nat]
    <3>1. o \in Seq([offset : Nat, size : Nat]) /\ Len(o) = q
      BY ONLY <1>1, <2>1, <2>2
    <3>2. \A e \in 1 .. q : o[e] \in [offset : Nat, size : Nat]
      BY ONLY <3>1, ElementOfSeq, Zenon
    <3>3. o = [e \in 1 .. q |-> o[e]]
      BY ONLY <3>1
    <3> QED BY ONLY <3>2, <3>3
  <2>4. ASSUME NEW e \in 1 .. q
        PROVE  o[e] = [offset |-> Cell(p + m + 3 + 2 * (e - 1)), size |-> Cell(p + m + 3 + 2 * (e - 1) + 1)]
    <3>1. /\ m + 3 + (2 * e - 1) \in 1 .. n /\ m + 3 + 2 * e \in 1 .. n
          /\ p + (m + 3 + (2 * e - 1)) - 1 = p + m + 3 + 2 * (e - 1)
          /\ p + (m + 3 + 2 * e) - 1 = p + m + 3 + 2 * (e - 1) + 1
      BY ONLY <1>3, p \in Nat, e \in 1 .. q
    <3>2. /\ Cell(p + m + 3 + 2 * (e - 1)) = o[e].offset
          /\ Cell(p + m + 3 + 2 * (e - 1) + 1) = o[e].size
      BY ONLY <1>4, <1>5, <2>2, <3>1
    <3>3. o[e] = [offset |-> o[e].offset, size |-> o[e].size]
      BY <2>3
    <3> QED BY ONLY <3>2, <3>3, Zenon
  <2>5. o = [e \in 1 .. q |-> [offset |-> Cell(p + m + 3 + 2 * (e - 1)),
                               size |-> Cell(p + m + 3 + 2 * (e - 1) + 1)]]
    BY ONLY <2>3, <2>4
  <2> QED BY ONLY <1>7, <1>8, <2>2, <2>5, Zenon
<1>13. (Cell(FlagAt(p)) # 0) = r.isProcessed
  <2>1. m + 3 + 2 * q + 1 \in 1 .. n /\ p + (m + 3 + 2 * q + 1) - 1 = p + m + 3 + 2 * q
    BY ONLY <1>3, p \in Nat
  <2>2. Cell(FlagAt(p)) = IF r.isProcessed THEN 1 ELSE 0
    BY ONLY <1>4, <1>5, <1>8, <2>1
  <2>3. r.isProcessed \in BOOLEAN
    BY UnitFields
  <2> QED BY ONLY <2>2, <2>3
<1>14. r = [name |-> r.name, offsets |-> r.offsets, isProcessed |-> r.isProcessed]
  BY UnitFields, Zenon
<1>15. Unmarshal(p) = r
  BY ONLY <1>11, <1>12, <1>13, <1>14, Zenon DEF Unmarshal
<1> QED BY <1>10, <1>15

\* What reading gives wherever it does not leave the map.
ReadUnits == [name : Seq(Nat), offsets : Seq([offset : Nat, size : Nat]), isProcessed : BOOLEAN]

LEMMA ReadingStays ==
    ASSUME MapIs, NEW at \in Nat, at < MapEnd, Mapped(at)
    PROVE  /\ Nul(at) \in Nat /\ Nul(at) >= at /\ CountAt(at) \in Nat
           /\ FlagAt(at) \in Nat /\ at < FlagAt(at) + 1 /\ FlagAt(at) + 1 <= MapEnd
           /\ FlagAt(at) = Nul(at) + 3 + 2 * CountAt(at)
           /\ Unmarshal(at) \in ReadUnits
<1>1. PICK k, E : k = Nul(at) /\ E = MapEnd
  OBVIOUS
<1>2. E \in Nat
  BY <1>1, MapEndIs
<1>3. k \in at .. E
  <2>1. at <= MapEnd
    BY <1>1, <1>2
  <2> QED BY <1>1, <2>1, NulIs DEF EndsAt
<1>4. PICK q : q = CountAt(at)
  OBVIOUS
<1>5. k \in Nat /\ k >= at
  BY <1>2, <1>3
<1>6. q \in Nat
  <2>1. PICK x, y : x = Cell(k + 1) /\ y = Cell(k + 2)
    OBVIOUS
  <2>2. k + 1 \in Nat /\ k + 2 \in Nat
    BY <1>5
  <2>3. x \in Nat /\ y \in Nat /\ Base \in Nat
    BY <2>1, <2>2, CellIs, BaseIs
  <2>4. q = x + Base * y
    BY <1>1, <1>4, <2>1 DEF CountAt
  <2> QED BY ONLY <2>3, <2>4
<1>7. FirstElement(at) = k + 3 /\ FlagAt(at) = k + 3 + 2 * q
  BY ONLY <1>1, <1>4, Zenon DEF FirstElement, FlagAt
<1>8. k + 3 + 2 * q < E
  BY <1>1, <1>7 DEF Mapped
<1>9. Unmarshal(at) \in ReadUnits
  <2>1. PICK f, o, b :
        /\ f = [c \in 1 .. k - at |-> Cell(at + c - 1)]
        /\ o = [e \in 1 .. q |-> [offset |-> Cell(k + 3 + 2 * (e - 1)),
                                  size |-> Cell(k + 3 + 2 * (e - 1) + 1)]]
        /\ b = (Cell(FlagAt(at)) # 0)
    OBVIOUS
  <2>2. Unmarshal(at) = [name |-> f, offsets |-> o, isProcessed |-> b]
    BY ONLY <1>1, <1>4, <1>7, <2>1, Zenon DEF Unmarshal
  <2>3. f \in Seq(Nat)
    <3>1. PICK z : z = k - at
      OBVIOUS
    <3>2. z \in Nat
      BY ONLY <1>5, <3>1, at \in Nat
    <3>3. ASSUME NEW c \in 1 .. z PROVE Cell(at + c - 1) \in Nat
      <4>1. at + c - 1 \in Nat
        BY ONLY <3>2, at \in Nat, c \in 1 .. z
      <4> QED BY <4>1, CellIs
    <3>4. f = [c \in 1 .. z |-> Cell(at + c - 1)]
      BY ONLY <2>1, <3>1
    <3>5. f \in [1 .. z -> Nat]
      BY ONLY <3>3, <3>4
    <3> QED BY ONLY <3>2, <3>5
  <2>4. o \in Seq([offset : Nat, size : Nat])
    <3>1. ASSUME NEW e \in 1 .. q
          PROVE  /\ Cell(k + 3 + 2 * (e - 1)) \in Nat
                 /\ Cell(k + 3 + 2 * (e - 1) + 1) \in Nat
      <4>1. k + 3 + 2 * (e - 1) \in Nat /\ k + 3 + 2 * (e - 1) + 1 \in Nat
        BY ONLY <1>5, <1>6, e \in 1 .. q
      <4> QED BY <4>1, CellIs
    <3>2. ASSUME NEW e \in 1 .. q
          PROVE  [offset |-> Cell(k + 3 + 2 * (e - 1)),
                  size |-> Cell(k + 3 + 2 * (e - 1) + 1)] \in [offset : Nat, size : Nat]
      BY ONLY <3>1
    <3>3. o \in [1 .. q -> [offset : Nat, size : Nat]]
      BY ONLY <2>1, <3>2, Zenon
    <3>4. PICK S : S = [offset : Nat, size : Nat]
      OBVIOUS
    <3>5. o \in [1 .. q -> S]
      BY ONLY <3>3, <3>4, Zenon
    <3>6. o \in Seq(S)
      BY ONLY <1>6, <3>5
    <3> QED BY ONLY <3>4, <3>6, Zenon
  <2>5. b \in BOOLEAN
    BY <2>1
  <2> QED BY ONLY <2>2, <2>3, <2>4, <2>5 DEF ReadUnits
<1>10. k + 3 + 2 * q \in Nat /\ at < k + 3 + 2 * q + 1 /\ k + 3 + 2 * q + 1 <= E
  BY ONLY <1>2, <1>5, <1>6, <1>8, at \in Nat
<1> QED BY ONLY <1>1, <1>4, <1>5, <1>6, <1>7, <1>9, <1>10, Zenon

\* Reading where a record was cut steps over the end of the file.
LEMMA CutReading ==
    ASSUME MapIs, NEW r \in Units, NEW p \in Nat, NEW n \in Nat, p + n = size, n < Extent(r),
           Holds(r, p, n), p < MapEnd, Mapped(p)
    PROVE  FlagAt(p) + 1 > size
<1>1. PICK m, q, k, z, E :
        /\ m = Len(r.name) /\ q = Len(r.offsets) /\ k = Nul(p) /\ z = CountAt(p) /\ E = MapEnd
  OBVIOUS
<1>2. /\ m \in Nat /\ q \in Nat /\ Extent(r) = m + 2 * q + 4 /\ E \in Nat
      /\ k \in Nat /\ z \in Nat /\ FlagAt(p) = k + 3 + 2 * z
  BY <1>1, MapEndIs, UnitFields, ReadingStays DEF Extent
<1>3. EndsAt(p, k)
  <2>1. p <= MapEnd
    BY <1>1, <1>2
  <2> QED BY <1>1, <2>1, NulIs
<1>4. CASE n <= m + 2
  <2>1. k >= p + n \/ k >= p + m
    <3> SUFFICES ASSUME k < p + n, k < p + m PROVE FALSE
      BY <1>2
    <3>1. k \in p .. E /\ (k = E \/ Cell(k) = 0)
      BY <1>1, <1>3 DEF EndsAt
    <3>2. k \in p .. p + n - 1
      BY <1>2, <3>1
    <3>3. p + n <= size
      BY MapEndIs
    <3>4. Cell(k) # 0
      BY <1>1, <3>2, <3>3, NameEnds
    <3>5. k # E
      BY <1>1, <1>2, MapEndIs
    <3> QED BY <3>1, <3>4, <3>5
  <2>2. size \in Nat
    BY MapEndIs
  <2> QED BY ONLY <1>2, <1>4, <2>1, <2>2, p + n = size, p \in Nat, n \in Nat
<1>5. CASE n > m + 2
  <2>1. size \in Nat /\ p + n <= size /\ m < n
    BY <1>2, <1>5, MapEndIs
  <2>2. k = p + m
    BY <1>1, <2>1, NameEnds, NulOnce
  <2>3. /\ m + 2 \in 1 .. n /\ p + (m + 2) - 1 = p + m + 1
        /\ m + 3 \in 1 .. n /\ p + (m + 3) - 1 = p + m + 2
    BY ONLY <1>2, <1>5, p \in Nat, n \in Nat
  <2>4. \A c \in 1 .. n : Cell(p + c - 1) = MarshalUnit(r)[c]
    BY <2>1, HeldCell, Zenon
  <2>5. MarshalUnit(r)[m + 2] = q % Base /\ MarshalUnit(r)[m + 3] = q \div Base
    BY <1>1, MarshalIs, Zenon DEF CellsOf
  <2>6. Cell(p + m + 1) = q % Base /\ Cell(p + m + 2) = q \div Base
    BY ONLY <2>3, <2>4, <2>5
  <2>7. z = Cell(p + m + 1) + Base * Cell(p + m + 2)
    BY <1>1, <2>2, Zenon DEF CountAt
  <2>8. (q % Base) + Base * (q \div Base) = q
    BY <1>2, Digits
  <2>9. z = q
    BY ONLY <2>6, <2>7, <2>8, Zenon
  <2> QED BY ONLY <1>2, <2>1, <2>2, <2>9, p + n = size, n < Extent(r), p \in Nat, n \in Nat
<1> QED BY <1>2, <1>4, <1>5

-----------------------------------------------------------------------------
(* The image of the records                                                *)

LEMMA SubSeqIs ==
    ASSUME NEW s \in Seq(Nat), NEW a \in Nat, a <= Len(s)
    PROVE  /\ SubSeq(s, 1, a) \in Seq(Nat) /\ Len(SubSeq(s, 1, a)) = a
           /\ \A c \in 1 .. a : SubSeq(s, 1, a)[c] = s[c]
<1>1. \A c \in 1 .. a : c \in 1 .. Len(s) /\ s[c] \in Nat
  OBVIOUS
<1>2. SubSeq(s, 1, a) = [c \in 1 .. a |-> s[c]]
  OBVIOUS
<1> QED BY <1>1, <1>2

\* Sequences with the same elements are the same.
LEMMA SameSeq ==
    ASSUME NEW s \in Seq(Nat), NEW t \in Seq(Nat), Len(s) = Len(t),
           \A c \in 1 .. Len(s) : s[c] = t[c]
    PROVE  s = t
<1>1. s = [c \in 1 .. Len(s) |-> s[c]] /\ t = [c \in 1 .. Len(s) |-> t[c]]
  OBVIOUS
<1> QED BY <1>1

LEMMA Glue ==
    ASSUME NEW s \in Seq(Nat), NEW a \in Nat, NEW t \in Seq(Nat), a + Len(t) <= Len(s),
           \A c \in 1 .. Len(t) : s[a + c] = t[c]
    PROVE  SubSeq(s, 1, a) \o t = SubSeq(s, 1, a + Len(t))
<1>1. PICK n, u, v, w :
        /\ n = Len(t) /\ u = SubSeq(s, 1, a) /\ v = u \o t /\ w = SubSeq(s, 1, a + n)
  OBVIOUS
<1>2. n \in Nat /\ Len(s) \in Nat /\ a + n <= Len(s) /\ a <= Len(s) /\ a + n \in Nat
  BY <1>1
<1>3. u \in Seq(Nat) /\ Len(u) = a /\ \A c \in 1 .. a : u[c] = s[c]
  BY <1>1, <1>2, SubSeqIs, Zenon
<1>4. w \in Seq(Nat) /\ Len(w) = a + n /\ \A c \in 1 .. a + n : w[c] = s[c]
  BY <1>1, <1>2, SubSeqIs, Zenon
<1>5. /\ v \in Seq(Nat) /\ Len(v) = Len(u) + Len(t)
      /\ \A c \in 1 .. Len(u) : v[c] = u[c]
      /\ \A c \in 1 .. Len(t) : v[Len(u) + c] = t[c]
  <2>1. u \in Seq(Nat) /\ v = u \o t
    BY <1>1, <1>3, Zenon
  <2> QED BY ONLY <2>1, t \in Seq(Nat), Behind, SMTT(30)
<1>6. Len(v) = a + n
  BY <1>1, <1>3, <1>5
<1>7. ASSUME NEW c \in 1 .. a + n PROVE v[c] = w[c]
  <2>1. w[c] = s[c]
    BY <1>4, Zenon
  <2>2. CASE c <= a
    <3>1. c \in 1 .. a
      BY <1>2, <2>2
    <3> QED BY ONLY <1>3, <1>5, <2>1, <3>1
  <2>3. CASE ~(c <= a)
    <3>1. PICK d : d = c - a
      OBVIOUS
    <3>2. d \in 1 .. n /\ a + d = c
      BY ONLY <1>2, <2>3, <3>1, a \in Nat, c \in 1 .. a + n
    <3>3. v[a + d] = t[d] /\ s[a + d] = t[d]
      BY ONLY <1>1, <1>3, <1>5, <3>2, \A b \in 1 .. Len(t) : s[a + b] = t[b]
    <3> QED BY ONLY <2>1, <3>2, <3>3
  <2> QED BY <2>2, <2>3
<1>8. v = w
  BY ONLY <1>4, <1>5, <1>6, <1>7, SameSeq
<1> QED BY <1>1, <1>8

\* The records recs begin at the offsets P.
Placed(recs, P) ==
    /\ P \in [0 .. Len(recs) -> Nat] /\ P[0] = 0
    /\ \A k \in 1 .. Len(recs) : P[k] = P[k - 1] + Extent(recs[k])
    /\ \A j, k \in 0 .. Len(recs) : j < k => P[j] < P[k]

\* They lie there.
Laid(recs, cells, P) ==
    \A k \in 1 .. Len(recs) : \A c \in 1 .. Extent(recs[k]) :
        cells[P[k - 1] + c] = MarshalUnit(recs[k])[c]

\* Then the image of the records is the file up to the end of the last one.
LEMMA ImageIs ==
    ASSUME NEW recs \in Seq(Units), NEW cells \in Seq(Nat), NEW P,
           Placed(recs, P), Laid(recs, cells, P), P[Len(recs)] <= Len(cells)
    PROVE  Image(recs) = SubSeq(cells, 1, P[Len(recs)])
<1>1. PICK n, s : n = Len(recs) /\ s = [k \in 1 .. n |-> MarshalUnit(recs[k])]
  OBVIOUS
<1>2. n \in Nat /\ Len(s) = n
  BY <1>1
<1>3. Image(recs) = FlattenSeq(s)
  <2>1. DOMAIN recs = 1 .. n
    BY <1>1
  <2> QED BY <1>1, <2>1, Zenon DEF Image
<1>4. \A k \in 1 .. n : recs[k] \in Units
  BY <1>1, ElementOfSeq, Zenon
<1>5. /\ P \in [0 .. n -> Nat] /\ P[0] = 0
      /\ \A k \in 1 .. n : P[k] = P[k - 1] + Extent(recs[k])
      /\ \A j, k \in 0 .. n : j < k => P[j] < P[k]
  BY <1>1, Zenon DEF Placed
<1>6. ASSUME NEW k \in 0 .. n PROVE P[k] \in Nat /\ P[k] <= Len(cells)
  <2>1. k < n \/ k = n
    BY <1>2
  <2>2. P[k] \in Nat /\ P[n] \in Nat
    BY <1>2, <1>5
  <2>3. P[n] <= Len(cells)
    BY <1>1
  <2>4. k < n => P[k] < P[n]
    <3>1. n \in 0 .. n
      BY <1>2
    <3> QED BY ONLY <1>5, <3>1, k \in 0 .. n, Zenon
  <2>5. Len(cells) \in Nat
    OBVIOUS
  <2> QED BY ONLY <2>1, <2>2, <2>3, <2>4, <2>5
<1>7. ASSUME NEW k \in 1 .. n
      PROVE  SubSeq(cells, 1, P[k - 1]) \o s[k] = SubSeq(cells, 1, P[k])
  <2>1. PICK a, t : a = P[k - 1] /\ t = MarshalUnit(recs[k])
    OBVIOUS
  <2>2. recs[k] \in Units
    BY <1>4, Zenon
  <2>3. t \in Seq(Nat) /\ Len(t) = Extent(recs[k])
    BY <2>1, <2>2, MarshalIs, Zenon
  <2>4. k - 1 \in 0 .. n /\ k \in 0 .. n
    BY <1>2
  <2>5. a \in Nat /\ P[k] = a + Len(t) /\ P[k] <= Len(cells)
    BY <1>5, <1>6, <2>1, <2>3, <2>4, Zenon
  <2>6. \A c \in 1 .. Len(t) : cells[a + c] = t[c]
    BY <1>1, <2>1, <2>3, Zenon DEF Laid
  <2>7. SubSeq(cells, 1, a) \o t = SubSeq(cells, 1, a + Len(t))
    <3>1. a + Len(t) <= Len(cells)
      BY <2>5, Zenon
    <3> QED BY ONLY <2>3, <2>5, <2>6, <3>1, cells \in Seq(Nat), Glue, Zenon
  <2>8. s[k] = t
    BY <1>1, <2>1
  <2> QED BY ONLY <2>1, <2>5, <2>7, <2>8, Zenon
<1>8. CASE n = 0
  <2>1. FlattenSeq(s) = s
    BY <1>2, <1>8, Zenon DEF FlattenSeq
  <2>2. s = <<>>
    BY <1>1, <1>2, <1>8
  <2>3. SubSeq(cells, 1, 0) = <<>>
    OBVIOUS
  <2>4. P[n] = 0
    BY <1>5, <1>8
  <2> QED BY ONLY <1>1, <1>3, <2>1, <2>2, <2>3, <2>4, Zenon
<1>9. CASE n # 0
  <2>1. PICK F : F = CHOOSE f : f = [i \in 1 .. Len(s) |-> IF i = 1 THEN s[i] ELSE f[i - 1] \o s[i]]
    OBVIOUS
  <2>2. FlattenSeq(s) = F[n]
    BY <1>2, <1>9, <2>1, Zenon DEF FlattenSeq
  <2>3. PICK G : G = [i \in 1 .. n |-> SubSeq(cells, 1, P[i])]
    OBVIOUS
  <2>4. SubSeq(cells, 1, P[1]) = s[1]
    <3>1. 1 \in 1 .. n /\ 1 - 1 = 0
      BY <1>2, <1>9
    <3>2. SubSeq(cells, 1, P[0]) \o s[1] = SubSeq(cells, 1, P[1])
      BY <1>7, <3>1, Zenon
    <3>3. SubSeq(cells, 1, 0) = <<>>
      OBVIOUS
    <3>4. s[1] \in Seq(Nat)
      <4>1. s[1] = MarshalUnit(recs[1]) /\ recs[1] \in Units
        BY <1>1, <1>4, <3>1, Zenon
      <4> QED BY <4>1, MarshalIs
    <3>5. <<>> \o s[1] = s[1]
      BY ONLY <3>4
    <3> QED BY ONLY <1>5, <3>2, <3>3, <3>5, Zenon
  <2>5. G = [i \in 1 .. n |-> IF i = 1 THEN s[i] ELSE G[i - 1] \o s[i]]
    <3>1. ASSUME NEW i \in 1 .. n
          PROVE  SubSeq(cells, 1, P[i]) = IF i = 1 THEN s[i] ELSE G[i - 1] \o s[i]
      <4>1. CASE i = 1
        BY <2>4, <4>1, Zenon
      <4>2. CASE i # 1
        <5>1. i - 1 \in 1 .. n
          BY ONLY <1>2, <4>2, i \in 1 .. n
        <5>2. G[i - 1] = SubSeq(cells, 1, P[i - 1])
          BY ONLY <2>3, <5>1, Zenon
        <5> QED BY <1>7, <4>2, <5>2, Zenon
      <4> QED BY <4>1, <4>2
    <3> QED BY ONLY <2>3, <3>1, Zenon
  <2>6. F = [i \in 1 .. n |-> IF i = 1 THEN s[i] ELSE F[i - 1] \o s[i]]
    BY ONLY <1>2, <2>1, <2>5, Zenon
  <2>7. PICK S : S = {i \in Nat : i \in 1 .. n => F[i] = SubSeq(cells, 1, P[i])}
    OBVIOUS
  <2>8. 0 \in S
    BY <1>2, <2>7
  <2>9. ASSUME NEW i \in Nat, i \in S PROVE i + 1 \in S
    <3>0. SUFFICES ASSUME i + 1 \in 1 .. n PROVE F[i + 1] = SubSeq(cells, 1, P[i + 1])
      <4>1. i + 1 \in Nat
        OBVIOUS
      <4> QED BY <2>7, <4>1, Zenon
    <3>1. F[i + 1] = IF i + 1 = 1 THEN s[i + 1] ELSE F[(i + 1) - 1] \o s[i + 1]
      BY ONLY <2>6, <3>0, Zenon
    <3>2. CASE i = 0
      BY ONLY <2>4, <3>1, <3>2
    <3>3. CASE i # 0
      <4>1. i \in 1 .. n /\ (i + 1) - 1 = i /\ i + 1 # 1
        BY ONLY <1>2, <3>0, <3>3, i \in Nat
      <4>2. F[i] = SubSeq(cells, 1, P[i])
        BY <2>7, <2>9, <4>1, Zenon
      <4>3. SubSeq(cells, 1, P[(i + 1) - 1]) \o s[i + 1] = SubSeq(cells, 1, P[i + 1])
        BY <1>7, <3>0, Zenon
      <4> QED BY ONLY <3>1, <4>1, <4>2, <4>3, Zenon
    <3> QED BY <3>2, <3>3
  <2>10. n \in S
    BY <1>2, <2>8, <2>9, SetInduction
  <2>11. F[n] = SubSeq(cells, 1, P[n])
    <3>1. n \in 1 .. n
      BY <1>2, <1>9
    <3> QED BY <2>7, <2>10, <3>1, Zenon
  <2> QED BY ONLY <1>1, <1>3, <2>2, <2>11, Zenon
<1> QED BY <1>8, <1>9

-----------------------------------------------------------------------------
(* The invariant                                                           *)

\* What the variables hold.
Kinds ==
    /\ file \in Seq(Nat) /\ records \in Seq(Units) /\ torn \in BOOLEAN
    /\ phase \in {"off", "store", "load", "loaded"}

\* What store() is given can be marshalled.
BatchIs ==
    /\ batch \in Seq(Files)
    /\ \A k \in DOMAIN batch : Len(batch[k].offsets) < Base * Base

\* A record begins at "at" of which not all the cells are there.
CutAt(cells, at) ==
    \E r \in Units : /\ at < Len(cells) /\ Len(cells) < at + Extent(r)
                     /\ \A c \in 1 .. Len(cells) - at : cells[at + c] = MarshalUnit(r)[c]

\* The records lie in the file from the offsets P on, and behind them nothing
\* but the beginning of a record that was cut.
Written(recs, cells, cut, P) ==
    /\ Placed(recs, P) /\ Laid(recs, cells, P)
    /\ IF cut THEN CutAt(cells, P[Len(recs)]) ELSE Len(cells) = P[Len(recs)]

\* Outside of load() nothing is loaded.
Idle ==
    /\ phase = "store" => ~torn
    /\ phase \in {"off", "store"} => size = 0 /\ off = 0 /\ units = <<>>

\* The first j records, as load() leaves them.
UpTo(recs, j, P) == [k \in 1 .. j |-> [unit |-> recs[k], at |-> P[k - 1]]]

\* load() has read the first records, or has stepped over the end of the file.
Loading(P) ==
    /\ phase \in {"load", "loaded"} => size = Len(file) /\ size > 0
    /\ units \in Seq([unit : ReadUnits, at : Nat])
    /\ off \in Nat /\ off <= MapEnd
    /\ \A k \in DOMAIN units : units[k].at < MapEnd
    /\ phase = "load" =>
         \/ \E j \in 0 .. Len(records) : off = P[j] /\ units = UpTo(records, j, P)
         \/ torn /\ off > size
    /\ phase = "loaded" => ~torn /\ units = UpTo(records, Len(records), P)

FileInv(P) == Kinds /\ BatchIs /\ Written(records, file, torn, P) /\ Idle /\ Loading(P)

Held == \E P : FileInv(P)

\* The invariant gives what the runs check.
LEMMA HeldSound ==
    ASSUME Held
    PROVE  FileSound /\ LoadIsExact
<1>1. PICK P : FileInv(P)
  BY Zenon DEF Held
<1>2. Kinds /\ Written(records, file, torn, P) /\ Idle /\ Loading(P)
  BY <1>1, Zenon DEF FileInv
<1>3. PICK n, E : n = Len(records) /\ E = P[n]
  OBVIOUS
<1>4. file \in Seq(Nat) /\ records \in Seq(Units) /\ torn \in BOOLEAN
  BY <1>2, Zenon DEF Kinds
<1>5. n \in Nat /\ E \in Nat /\ Len(file) \in Nat
  <2>1. n \in Nat /\ n \in 0 .. n
    BY <1>3, <1>4
  <2>2. P \in [0 .. n -> Nat]
    BY <1>2, <1>3, Zenon DEF Written, Placed
  <2> QED BY <1>3, <1>4, <2>1, <2>2
<1>6. E <= Len(file) /\ (~torn => E = Len(file))
  <2>1. CASE torn
    <3>1. E < Len(file)
      BY <1>2, <1>3, <2>1, Zenon DEF Written, CutAt
    <3> QED BY <1>5, <2>1, <3>1
  <2>2. CASE ~torn
    <3>1. E = Len(file)
      BY <1>2, <1>3, <2>2, Zenon DEF Written
    <3> QED BY <1>5, <2>2, <3>1
  <2> QED BY <2>1, <2>2
<1>7. Image(records) = SubSeq(file, 1, E)
  <2>1. Placed(records, P) /\ Laid(records, file, P) /\ P[Len(records)] <= Len(file)
    BY <1>2, <1>3, <1>6, Zenon DEF Written
  <2> QED BY ONLY <1>3, <1>4, <2>1, ImageIs, Zenon
<1>8. FileIsImage
  <2>1. /\ SubSeq(file, 1, E) \in Seq(Nat) /\ Len(SubSeq(file, 1, E)) = E
    BY <1>4, <1>5, <1>6, SubSeqIs, Zenon
  <2>2. PICK I : I = Image(records)
    OBVIOUS
  <2>3. I \in Seq(Nat) /\ Len(I) = E
    BY <1>7, <2>1, <2>2, Zenon
  <2>4. SubSeq(I, 1, Len(I)) = I
    BY ONLY <2>3
  <2>5. IsPrefix(I, file)
    BY ONLY <1>6, <1>7, <2>2, <2>3, <2>4, Zenon DEF IsPrefix
  <2>6. ~torn => I = file
    <3>1. SubSeq(file, 1, Len(file)) = file
      BY ONLY <1>4
    <3> QED BY ONLY <1>6, <1>7, <2>2, <3>1, Zenon
  <2> QED BY <2>2, <2>5, <2>6, Zenon DEF FileIsImage
<1>9. TypeOK
  <2>1. \A c \in DOMAIN file : file[c] \in Nat
    BY <1>4
  <2>2. phase \in {"off", "store", "load", "loaded"} /\ torn \in BOOLEAN
    BY <1>2, Zenon DEF Kinds
  <2>3. size \in {0, Len(file)}
    <3>1. size = 0 \/ size = Len(file)
      BY <1>2, <2>2 DEF Idle, Loading
    <3> QED BY <3>1
  <2>4. MapEnd \in Nat
    <3>1. size \in Nat
      BY <1>5, <2>3
    <3> QED BY <3>1, PagesCover DEF MapEnd
  <2>5. off \in Nat /\ off <= MapEnd /\ \A k \in DOMAIN units : units[k].at < MapEnd
    BY <1>2, Zenon DEF Loading
  <2>6. off \in 0 .. MapEnd
    BY ONLY <2>4, <2>5
  <2> QED BY <2>1, <2>2, <2>3, <2>5, <2>6, Zenon DEF TypeOK
<1>10. LoadIsExact
  <2> SUFFICES ASSUME phase = "loaded"
               PROVE  ~torn /\ [k \in DOMAIN units |-> units[k].unit] = records
    BY Zenon DEF LoadIsExact
  <2>1. ~torn /\ units = UpTo(records, n, P)
    BY <1>2, <1>3, Zenon DEF Loading
  <2>2. PICK u, R : u = units /\ R = records
    OBVIOUS
  <2>3. u = [k \in 1 .. n |-> [unit |-> R[k], at |-> P[k - 1]]]
    BY <2>1, <2>2, Zenon DEF UpTo
  <2>4. R = [k \in 1 .. n |-> R[k]]
    BY <1>3, <1>4, <2>2
  <2>5. DOMAIN u = 1 .. n /\ \A k \in 1 .. n : u[k].unit = R[k]
    BY ONLY <2>3
  <2>6. [k \in DOMAIN u |-> u[k].unit] = R
    BY ONLY <2>4, <2>5
  <2> QED BY ONLY <2>1, <2>2, <2>6, Zenon
<1> QED BY <1>8, <1>9, <1>10, Zenon DEF FileSound

-----------------------------------------------------------------------------
(* What store() and syncMe() do to the records that lie in the file        *)

LEMMA PlacedIs ==
    ASSUME NEW recs \in Seq(Units), NEW P, Placed(recs, P)
    PROVE  /\ Len(recs) \in Nat
           /\ \A k \in 0 .. Len(recs) : P[k] \in Nat /\ P[k] <= P[Len(recs)]
           /\ \A k \in 1 .. Len(recs) :
                /\ recs[k] \in Units /\ Extent(recs[k]) \in Nat /\ Extent(recs[k]) > 0
                /\ k - 1 \in 0 .. Len(recs) /\ k \in 0 .. Len(recs)
                /\ P[k] = P[k - 1] + Extent(recs[k])
<1>1. PICK n : n = Len(recs)
  OBVIOUS
<1>2. n \in Nat
  BY <1>1
<1>3. /\ P \in [0 .. n -> Nat]
      /\ \A k \in 1 .. n : P[k] = P[k - 1] + Extent(recs[k])
      /\ \A j, k \in 0 .. n : j < k => P[j] < P[k]
  BY <1>1, Zenon DEF Placed
<1>4. ASSUME NEW k \in 0 .. n PROVE P[k] \in Nat /\ P[k] <= P[n]
  <2>1. n \in 0 .. n /\ (k < n \/ k = n)
    BY <1>2
  <2>2. P[k] \in Nat /\ P[n] \in Nat
    BY <1>3, <2>1
  <2>3. k < n => P[k] < P[n]
    BY ONLY <1>3, <2>1, k \in 0 .. n, Zenon
  <2> QED BY ONLY <2>1, <2>2, <2>3
<1>5. ASSUME NEW k \in 1 .. n
      PROVE  /\ recs[k] \in Units /\ Extent(recs[k]) \in Nat /\ Extent(recs[k]) > 0
             /\ k - 1 \in 0 .. n /\ k \in 0 .. n
             /\ P[k] = P[k - 1] + Extent(recs[k])
  <2>1. recs[k] \in Units
    BY <1>1, ElementOfSeq, Zenon
  <2>3. Extent(recs[k]) \in Nat /\ Extent(recs[k]) > 0
    BY <2>1, UnitFields, Zenon
  <2>4. k - 1 \in 0 .. n /\ k \in 0 .. n
    BY ONLY <1>2, k \in 1 .. n
  <2> QED BY <1>3, <2>1, <2>3, <2>4, Zenon
<1> QED BY ONLY <1>1, <1>2, <1>4, <1>5, Zenon

\* Every cell of a record lies before the end of the last one.
LEMMA CellInFile ==
    ASSUME NEW recs \in Seq(Units), NEW P, Placed(recs, P),
           NEW k \in 1 .. Len(recs), NEW c \in 1 .. Extent(recs[k])
    PROVE  /\ P[k - 1] \in Nat /\ P[k] \in Nat /\ P[k - 1] + c <= P[k]
           /\ P[k - 1] + c \in 1 .. P[Len(recs)]
<1>1. /\ Len(recs) \in Nat /\ P[Len(recs)] \in Nat /\ P[k - 1] \in Nat /\ P[k] \in Nat
      /\ P[k] <= P[Len(recs)] /\ Extent(recs[k]) \in Nat
      /\ P[k] = P[k - 1] + Extent(recs[k])
  <2>1. Len(recs) \in 0 .. Len(recs)
    BY PlacedIs
  <2> QED BY PlacedIs, <2>1, Zenon
<1>2. PICK a, b, e, x : a = P[k - 1] /\ b = P[k] /\ e = P[Len(recs)] /\ x = Extent(recs[k])
  OBVIOUS
<1>3. c \in 1 .. x
  BY <1>2
<1>4. a + c <= b /\ a + c \in 1 .. e
  BY ONLY <1>1, <1>2, <1>3
<1> QED BY ONLY <1>1, <1>2, <1>4, Zenon

LEMMA Empty ==
    ASSUME NEW P, P = [k \in 0 .. 0 |-> 0]
    PROVE  Written(<<>>, <<>>, FALSE, P)
<1>1. Len(<<>>) = 0
  OBVIOUS
<1>2. P \in [0 .. 0 -> Nat] /\ P[0] = 0
  OBVIOUS
<1>3. Placed(<<>>, P)
  BY <1>1, <1>2 DEF Placed
<1>4. Laid(<<>>, <<>>, P)
  BY <1>1 DEF Laid
<1> QED BY <1>1, <1>2, <1>3, <1>4, Zenon DEF Written

LEMMA Grows ==
    ASSUME NEW recs \in Seq(Units), NEW cells \in Seq(Nat), NEW P, Written(recs, cells, FALSE, P),
           NEW r \in Units
    PROVE  \E Q : Written(Append(recs, r), cells \o MarshalUnit(r), FALSE, Q)
<1>1. PICK n, x, R, M, C :
        /\ n = Len(recs) /\ x = Extent(r) /\ R = Append(recs, r)
        /\ M = MarshalUnit(r) /\ C = cells \o M
  OBVIOUS
<1>2. Placed(recs, P) /\ Laid(recs, cells, P) /\ Len(cells) = P[n]
  BY <1>1, Zenon DEF Written
<1>3. /\ n \in Nat
      /\ \A k \in 0 .. n : P[k] \in Nat /\ P[k] <= P[n]
      /\ \A k \in 1 .. n : /\ k - 1 \in 0 .. n /\ k \in 0 .. n
                           /\ P[k] = P[k - 1] + Extent(recs[k])
  BY <1>1, <1>2, PlacedIs, Zenon
<1>4. /\ P[0] = 0 /\ P \in [0 .. n -> Nat]
      /\ \A j, k \in 0 .. n : j < k => P[j] < P[k]
  BY <1>1, <1>2, Zenon DEF Placed
<1>5. x \in Nat /\ x > 0 /\ M \in Seq(Nat) /\ Len(M) = x
  BY <1>1, UnitFields, MarshalIs, Zenon
<1>6. /\ Len(R) = n + 1 /\ R[n + 1] = r
      /\ \A k \in 1 .. n : R[k] = recs[k]
  BY <1>1
<1>7. /\ C \in Seq(Nat) /\ Len(C) = Len(cells) + Len(M)
      /\ \A c \in 1 .. Len(cells) : C[c] = cells[c]
      /\ \A c \in 1 .. Len(M) : C[Len(cells) + c] = M[c]
  <2>1. M \in Seq(Nat) /\ C = cells \o M
    BY <1>1, <1>5, Zenon
  <2> QED BY ONLY <2>1, cells \in Seq(Nat), Behind, SMTT(30)
<1>8. PICK b : b = P[n]
  OBVIOUS
<1>9. PICK Q : Q = [k \in 0 .. n + 1 |-> IF k = n + 1 THEN b + x ELSE P[k]]
  OBVIOUS
<1>10. b \in Nat
  <2>1. n \in 0 .. n
    BY <1>3
  <2> QED BY <1>3, <1>8, <2>1
<1>11. ASSUME NEW k \in 0 .. n PROVE Q[k] = P[k]
  <2>1. k \in 0 .. n + 1 /\ k # n + 1
    BY ONLY <1>3, k \in 0 .. n
  <2> QED BY ONLY <1>9, <2>1, Zenon
<1>12. Q[n + 1] = b + x
  <2>1. n + 1 \in 0 .. n + 1
    BY ONLY <1>3
  <2> QED BY ONLY <1>9, <2>1, Zenon
<1>13. Q \in [0 .. n + 1 -> Nat]
  <2>1. ASSUME NEW k \in 0 .. n + 1
        PROVE  (IF k = n + 1 THEN b + x ELSE P[k]) \in Nat
    <3>1. CASE k = n + 1
      BY <1>5, <1>10, <3>1
    <3>2. CASE k # n + 1
      <4>1. k \in 0 .. n
        BY ONLY <1>3, <3>2, k \in 0 .. n + 1
      <4> QED BY <1>3, <3>2, <4>1
    <3> QED BY <3>1, <3>2
  <2> QED BY ONLY <1>9, <2>1, Zenon
<1>14. ASSUME NEW k \in 1 .. n + 1
       PROVE  Q[k] = Q[k - 1] + Extent(R[k])
  <2>1. CASE k = n + 1
    <3>1. k - 1 = n /\ n \in 0 .. n
      BY ONLY <1>3, <2>1
    <3> QED BY ONLY <1>1, <1>6, <1>8, <1>11, <1>12, <2>1, <3>1, Zenon
  <2>2. CASE k # n + 1
    <3>1. k \in 1 .. n
      BY ONLY <1>3, <2>2, k \in 1 .. n + 1
    <3>2. k - 1 \in 0 .. n /\ k \in 0 .. n /\ P[k] = P[k - 1] + Extent(recs[k])
      BY ONLY <1>3, <3>1, Zenon
    <3> QED BY ONLY <1>6, <1>11, <3>1, <3>2, Zenon
  <2> QED BY <2>1, <2>2
<1>15. ASSUME NEW j \in 0 .. n + 1, NEW k \in 0 .. n + 1, j < k
       PROVE  Q[j] < Q[k]
  <2>1. j \in 0 .. n
    BY ONLY <1>3, <1>15, j \in 0 .. n + 1, k \in 0 .. n + 1
  <2>2. CASE k = n + 1
    <3>1. Q[j] \in Nat /\ Q[j] <= b
      BY ONLY <1>3, <1>8, <1>11, <2>1
    <3>2. Q[k] = b + x
      BY ONLY <1>12, <2>2
    <3> QED BY ONLY <1>5, <1>10, <3>1, <3>2
  <2>3. CASE k # n + 1
    <3>1. k \in 0 .. n
      BY ONLY <1>3, <2>3, k \in 0 .. n + 1
    <3> QED BY ONLY <1>4, <1>11, <1>15, <2>1, <3>1, Zenon
  <2> QED BY <2>2, <2>3
<1>16. Placed(R, Q)
  <2>1. Q[0] = 0
    <3>1. 0 \in 0 .. n
      BY ONLY <1>3
    <3> QED BY ONLY <1>4, <1>11, <3>1, Zenon
  <2> QED BY ONLY <1>6, <1>13, <1>14, <1>15, <2>1, Zenon DEF Placed
<1>17. ASSUME NEW k \in 1 .. n + 1, NEW c \in 1 .. Extent(R[k])
       PROVE  C[Q[k - 1] + c] = MarshalUnit(R[k])[c]
  <2>1. CASE k = n + 1
    <3>1. k - 1 = n /\ n \in 0 .. n
      BY ONLY <1>3, <2>1
    <3>2. Q[k - 1] = b /\ R[k] = r /\ Len(cells) = b
      BY ONLY <1>2, <1>6, <1>8, <1>11, <2>1, <3>1, Zenon
    <3>3. c \in 1 .. Len(M)
      BY ONLY <1>1, <1>5, <3>2, c \in 1 .. Extent(R[k]), Zenon
    <3> QED BY ONLY <1>1, <1>7, <3>2, <3>3, Zenon
  <2>2. CASE k # n + 1
    <3>1. k \in 1 .. n
      BY ONLY <1>3, <2>2, k \in 1 .. n + 1
    <3>2. k - 1 \in 0 .. n /\ R[k] = recs[k]
      BY ONLY <1>3, <1>6, <3>1, Zenon
    <3>3. c \in 1 .. Extent(recs[k]) /\ Q[k - 1] = P[k - 1]
      BY ONLY <1>11, <3>2, c \in 1 .. Extent(R[k]), Zenon
    <3>4. P[k - 1] + c \in 1 .. P[n]
      BY <1>1, <1>2, <3>1, <3>3, CellInFile, Zenon
    <3>5. C[P[k - 1] + c] = cells[P[k - 1] + c]
      BY ONLY <1>2, <1>7, <3>4, Zenon
    <3>6. cells[P[k - 1] + c] = MarshalUnit(recs[k])[c]
      BY <1>1, <1>2, <3>1, <3>3, Zenon DEF Laid
    <3> QED BY ONLY <3>2, <3>3, <3>5, <3>6, Zenon
  <2> QED BY <2>1, <2>2
<1>18. Laid(R, C, Q)
  BY ONLY <1>6, <1>17, Zenon DEF Laid
<1>19. Len(C) = Q[Len(R)]
  BY ONLY <1>2, <1>5, <1>6, <1>7, <1>8, <1>12, Zenon
<1>20. Written(R, C, FALSE, Q)
  BY ONLY <1>16, <1>18, <1>19, Zenon DEF Written
<1> QED BY ONLY <1>1, <1>20, Zenon

\* A record of which n cells were written is cut.
LEMMA Cuts ==
    ASSUME NEW recs \in Seq(Units), NEW cells \in Seq(Nat), NEW P, Written(recs, cells, FALSE, P),
           NEW r \in Units, NEW n \in 1 .. Len(MarshalUnit(r)) - 1
    PROVE  /\ cells \o SubSeq(MarshalUnit(r), 1, n) \in Seq(Nat)
           /\ Written(recs, cells \o SubSeq(MarshalUnit(r), 1, n), TRUE, P)
<1>1. PICK M, x, S, C, e :
        /\ M = MarshalUnit(r) /\ x = Extent(r) /\ S = SubSeq(M, 1, n) /\ C = cells \o S
        /\ e = P[Len(recs)]
  OBVIOUS
<1>2. M \in Seq(Nat) /\ Len(M) = x /\ x \in Nat
  BY <1>1, UnitFields, MarshalIs, Zenon
<1>3. n \in Nat /\ n > 0 /\ n < x /\ n <= Len(M)
  BY ONLY <1>1, <1>2, n \in 1 .. Len(MarshalUnit(r)) - 1
<1>4. S \in Seq(Nat) /\ Len(S) = n /\ \A c \in 1 .. n : S[c] = M[c]
  BY <1>1, <1>2, <1>3, SubSeqIs, Zenon
<1>5. Placed(recs, P) /\ Laid(recs, cells, P) /\ Len(cells) = e
  BY <1>1, Zenon DEF Written
<1>6. /\ C \in Seq(Nat) /\ Len(C) = Len(cells) + Len(S)
      /\ \A c \in 1 .. Len(cells) : C[c] = cells[c]
      /\ \A c \in 1 .. Len(S) : C[Len(cells) + c] = S[c]
  <2>1. S \in Seq(Nat) /\ C = cells \o S
    BY <1>1, <1>4, Zenon
  <2> QED BY ONLY <2>1, cells \in Seq(Nat), Behind, SMTT(30)
<1>7. e \in Nat
  BY <1>5
<1>8. Laid(recs, C, P)
  <2>1. ASSUME NEW k \in 1 .. Len(recs), NEW c \in 1 .. Extent(recs[k])
        PROVE  C[P[k - 1] + c] = MarshalUnit(recs[k])[c]
    <3>1. P[k - 1] + c \in 1 .. Len(cells)
      BY <1>1, <1>5, CellInFile, Zenon
    <3>2. cells[P[k - 1] + c] = MarshalUnit(recs[k])[c]
      BY <1>5, Zenon DEF Laid
    <3> QED BY ONLY <1>6, <3>1, <3>2, Zenon
  <2> QED BY ONLY <2>1, Zenon DEF Laid
<1>9. CutAt(C, e)
  <2>1. Len(C) = e + n
    BY ONLY <1>4, <1>5, <1>6
  <2>2. e < Len(C) /\ Len(C) < e + x /\ Len(C) - e = n
    BY ONLY <1>2, <1>3, <1>7, <2>1
  <2>3. \A c \in 1 .. n : C[e + c] = M[c]
    BY ONLY <1>4, <1>5, <1>6, Zenon
  <2> QED BY <1>1, <2>2, <2>3, ZenonT(40) DEF CutAt
<1>10. Written(recs, C, TRUE, P)
  BY ONLY <1>1, <1>5, <1>8, <1>9, Zenon DEF Written
<1> QED BY ONLY <1>1, <1>6, <1>10, Zenon

\* Of a record that is marked no cell changes but the flag.
LEMMA MarkedIs ==
    ASSUME NEW r \in Units, NEW m, m = [r EXCEPT !.isProcessed = TRUE]
    PROVE  /\ m \in Units /\ Extent(m) = Extent(r)
           /\ \A c \in 1 .. Extent(r) - 1 : MarshalUnit(m)[c] = MarshalUnit(r)[c]
<1>1. /\ m = [name |-> r.name, offsets |-> r.offsets, isProcessed |-> TRUE]
      /\ r.name \in Seq(Nat \ {0}) /\ r.offsets \in Seq([offset : Nat, size : Nat])
      /\ Len(r.offsets) < Base * Base
  <2>1. r = [name |-> r.name, offsets |-> r.offsets, isProcessed |-> r.isProcessed]
    BY UnitFields, Zenon
  <2> QED BY <2>1, UnitFields
<1>2. m.name = r.name /\ m.offsets = r.offsets
  BY ONLY <1>1
<1>3. m \in Units
  BY ONLY <1>1 DEF Units
<1>4. Extent(m) = Extent(r)
  BY ONLY <1>2, Zenon DEF Extent
<1>5. PICK T, D, E, M, N, x :
        /\ T = MarshalFileInternals(r) /\ D = MarshalBool(r.isProcessed) /\ E = MarshalBool(m.isProcessed)
        /\ N = T \o D /\ M = T \o E /\ x = Extent(r)
  OBVIOUS
<1>6. N = MarshalUnit(r) /\ M = MarshalUnit(m)
  BY ONLY <1>2, <1>5, Zenon DEF MarshalUnit, MarshalFileInternals
<1>7. T \in Seq(Nat) /\ Len(N) = x
  BY <1>5, <1>6, MarshalIs, Zenon
<1>8. D \in Seq(Nat) /\ E \in Seq(Nat) /\ Len(D) = 1
  BY <1>5 DEF MarshalBool
<1>9. Len(N) = Len(T) + Len(D) /\ \A c \in 1 .. Len(T) : N[c] = T[c]
  <2>1. D \in Seq(Nat) /\ N = T \o D /\ T \in Seq(Nat)
    BY <1>5, <1>7, <1>8, Zenon
  <2> QED BY ONLY <2>1, Behind, SMTT(30)
<1>10. \A c \in 1 .. Len(T) : M[c] = T[c]
  <2>1. E \in Seq(Nat) /\ M = T \o E /\ T \in Seq(Nat)
    BY <1>5, <1>7, <1>8, Zenon
  <2> QED BY ONLY <2>1, Behind, SMTT(30)
<1>11. x - 1 = Len(T)
  <2>1. Len(T) \in Nat
    BY ONLY <1>7
  <2> QED BY ONLY <1>7, <1>8, <1>9, <2>1
<1>12. \A c \in 1 .. x - 1 : M[c] = N[c]
  BY ONLY <1>9, <1>10, <1>11, Zenon
<1> QED BY <1>3, <1>4, <1>5, <1>6, <1>12, Zenon

\* The records of the file and their cells, with the k-th record marked.
MarkIn(recs, k) == [recs EXCEPT ![k].isProcessed = TRUE]

MarkOf(r) == [r EXCEPT !.isProcessed = TRUE]

\* The cells with those of S put over them from a on.
Overwritten(cells, a, S) ==
    [c \in DOMAIN cells |-> IF c - a \in DOMAIN S THEN S[c - a] ELSE cells[c]]

Marking(recs, k, R, cells, C, P) ==
    /\ R \in Seq(Units) /\ C \in Seq(Nat) /\ Len(C) = Len(cells)
    /\ Len(R) = Len(recs) /\ R[k] = MarkOf(recs[k])
    /\ \A j \in 1 .. Len(recs) : j # k => R[j] = recs[j]
    /\ Written(R, C, FALSE, P)

LEMMA Marks ==
    ASSUME NEW recs \in Seq(Units), NEW cells \in Seq(Nat), NEW P, Written(recs, cells, FALSE, P),
           NEW k \in 1 .. Len(recs)
    PROVE  Marking(recs, k, MarkIn(recs, k), cells,
                   Overwritten(cells, P[k - 1], MarshalUnit(MarkOf(recs[k]))), P)
<1>a. PICK m, a : m = MarkOf(recs[k]) /\ a = P[k - 1]
  OBVIOUS
<1>b. m = [recs[k] EXCEPT !.isProcessed = TRUE]
  BY <1>a DEF MarkOf
<1>c. PICK C : C = Overwritten(cells, a, MarshalUnit(m))
  OBVIOUS
<1>1. PICK n, r, M, R, x, e :
        /\ n = Len(recs) /\ r = recs[k] /\ M = MarshalUnit(m) /\ R = MarkIn(recs, k)
        /\ x = Extent(r) /\ e = P[n]
  OBVIOUS
<1>2. Placed(recs, P) /\ Laid(recs, cells, P) /\ Len(cells) = e
  BY <1>1, Zenon DEF Written
<1>3. r \in Units /\ x \in Nat /\ n \in Nat /\ P[k] = a + x /\ k - 1 \in 0 .. n /\ k \in 0 .. n
  BY <1>a, <1>1, <1>2, PlacedIs, Zenon
<1>4. m \in Units /\ Extent(m) = x
  BY <1>b, <1>1, <1>3, MarkedIs, Zenon
<1>5. M \in Seq(Nat) /\ Len(M) = x
  BY <1>1, <1>4, MarshalIs, Zenon
<1>6. /\ DOMAIN R = 1 .. n /\ R[k] = m /\ R = [j \in 1 .. n |-> R[j]]
      /\ \A j \in 1 .. n : j # k => R[j] = recs[j]
  <2>1. recs = [j \in 1 .. n |-> recs[j]]
    BY <1>1
  <2>2. R = [recs EXCEPT ![k] = [recs[k] EXCEPT !.isProcessed = TRUE]]
    BY <1>1, Zenon DEF MarkIn
  <2>3. R = [recs EXCEPT ![k] = m]
    BY <1>b, <2>2
  <2>4. R = [j \in 1 .. n |-> IF j = k THEN m ELSE recs[j]]
    BY ONLY <2>1, <2>3
  <2> QED BY ONLY <1>1, <2>4, k \in 1 .. Len(recs)
<1>7. R \in Seq(Units) /\ Len(R) = n
  <2>1. \A j \in 1 .. n : R[j] \in Units
    <3>1. \A j \in 1 .. n : recs[j] \in Units
      BY <1>1, ElementOfSeq, Zenon
    <3> QED BY ONLY <1>4, <1>6, <3>1
  <2>2. R \in [1 .. n -> Units]
    BY ONLY <1>6, <2>1, Zenon
  <2>3. PICK U : U = Units
    OBVIOUS
  <2>4. R \in [1 .. n -> U]
    BY ONLY <2>2, <2>3, Zenon
  <2>5. R \in Seq(U) /\ Len(R) = n
    BY ONLY <1>3, <2>4
  <2> QED BY ONLY <2>3, <2>5, Zenon
<1>8. DOMAIN cells = 1 .. e /\ e \in Nat
  BY <1>2
<1>9. DOMAIN M = 1 .. x
  BY ONLY <1>5
<1>10. C = [c \in 1 .. e |-> IF c - a \in 1 .. x THEN M[c - a] ELSE cells[c]]
  BY ONLY <1>1, <1>c, <1>8, <1>9, Zenon DEF Overwritten
<1>11. C \in Seq(Nat) /\ Len(C) = e
  <2>1. \A c \in 1 .. x : M[c] \in Nat
    BY ONLY <1>5
  <2>2. \A c \in 1 .. e : cells[c] \in Nat
    BY <1>8
  <2>3. C \in [1 .. e -> Nat]
    BY ONLY <1>10, <2>1, <2>2
  <2> QED BY ONLY <1>8, <2>3
<1>12. a \in Nat
  BY <1>a, <1>1, <1>2, <1>3, PlacedIs, Zenon
<1>13. ASSUME NEW j \in 1 .. n PROVE Extent(R[j]) = Extent(recs[j])
  BY <1>1, <1>4, <1>6, Zenon
<1>14. Placed(R, P)
  <2>1. /\ P \in [0 .. n -> Nat] /\ P[0] = 0
        /\ \A j \in 1 .. n : P[j] = P[j - 1] + Extent(recs[j])
        /\ \A i, j \in 0 .. n : i < j => P[i] < P[j]
    BY <1>1, <1>2, Zenon DEF Placed
  <2>2. \A j \in 1 .. n : P[j] = P[j - 1] + Extent(R[j])
    BY ONLY <1>13, <2>1, Zenon
  <2> QED BY ONLY <1>7, <2>1, <2>2, Zenon DEF Placed
<1>15. ASSUME NEW j \in 1 .. n, NEW c \in 1 .. Extent(R[j])
       PROVE  C[P[j - 1] + c] = MarshalUnit(R[j])[c]
  <2>1. PICK b, y : b = P[j - 1] /\ y = Extent(recs[j])
    OBVIOUS
  <2>2. c \in 1 .. y /\ j - 1 \in 0 .. n /\ j \in 0 .. n /\ b \in Nat /\ P[j] \in Nat /\ y \in Nat
    <3>1. j \in 1 .. Len(recs) /\ c \in 1 .. Extent(recs[j])
      BY <1>1, <1>13, Zenon
    <3> QED BY <1>1, <1>2, <2>1, <3>1, PlacedIs, Zenon
  <2>3. b + c \in 1 .. e /\ b + c <= P[j]
    <3>1. j \in 1 .. Len(recs) /\ c \in 1 .. Extent(recs[j])
      BY <1>1, <2>1, <2>2, Zenon
    <3> QED BY <1>1, <1>2, <2>1, <3>1, CellInFile, Zenon
  <2>4. cells[b + c] = MarshalUnit(recs[j])[c]
    BY <1>1, <1>2, <2>1, <2>2, Zenon DEF Laid
  <2>5. CASE j = k
    <3>1. b = a /\ y = x /\ R[j] = m
      BY <1>a, <1>1, <1>6, <2>1, <2>5, Zenon
    <3>2. (b + c) - a = c
      BY ONLY <1>12, <2>2, <3>1
    <3>3. C[b + c] = M[c]
      BY ONLY <1>10, <2>2, <2>3, <3>1, <3>2, Zenon
    <3> QED BY ONLY <1>1, <2>1, <3>1, <3>3, Zenon
  <2>6. CASE j # k
    <3>1. ~((b + c) - a \in 1 .. x)
      <4>1. \A i, l \in 0 .. n : i < l => P[i] < P[l]
        BY <1>1, <1>2, Zenon DEF Placed
      <4>2. CASE j < k
        <5>1. j < k - 1 \/ j = k - 1
          BY ONLY <4>2, j \in 1 .. n, k \in 1 .. Len(recs), <1>1, <1>3
        <5>2. P[j] <= a
          <6>1. j < k - 1 => P[j] < P[k - 1]
            BY ONLY <1>3, <2>2, <4>1, Zenon
          <6>2. a = P[k - 1]
            BY <1>a
          <6> QED BY ONLY <1>12, <2>2, <5>1, <6>1, <6>2
        <5> QED BY ONLY <1>12, <2>2, <2>3, <1>3, <5>2
      <4>3. CASE k < j
        <5>1. k < j - 1 \/ k = j - 1
          BY ONLY <4>3, j \in 1 .. n, k \in 1 .. Len(recs), <1>1, <1>3
        <5>2. P[k] <= b
          <6>1. k < j - 1 => P[k] < P[j - 1]
            BY ONLY <1>3, <2>2, <4>1, Zenon
          <6> QED BY ONLY <1>3, <1>12, <2>1, <2>2, <5>1, <6>1
        <5> QED BY ONLY <1>3, <1>12, <2>2, <5>2
      <4> QED BY ONLY <1>1, <2>6, <4>2, <4>3, j \in 1 .. n, k \in 1 .. Len(recs), <1>3
    <3>2. C[b + c] = cells[b + c]
      BY ONLY <1>10, <2>3, <3>1, Zenon
    <3>3. R[j] = recs[j]
      BY ONLY <1>6, <2>6, j \in 1 .. n, Zenon
    <3> QED BY ONLY <2>1, <2>4, <3>2, <3>3, Zenon
  <2> QED BY <2>5, <2>6
<1>16. Laid(R, C, P)
  BY ONLY <1>7, <1>15, Zenon DEF Laid
<1>17. Written(R, C, FALSE, P)
  BY ONLY <1>1, <1>7, <1>11, <1>14, <1>16, Zenon DEF Written
<1> QED BY ONLY <1>a, <1>c, <1>1, <1>2, <1>6, <1>7, <1>11, <1>17, Zenon DEF Marking

\* The first n cells of the record r when it is marked, but for its flag.
Lengths(r) == 0 .. Len(MarshalUnit(MarkOf(r))) - 1
MarkedPart(r, n) == SubSeq(MarshalUnit(MarkOf(r)), 1, n)

\* A memcpy of a marked record that stops before the flag changes nothing.
LEMMA MarkCut ==
    ASSUME NEW recs \in Seq(Units), NEW cells \in Seq(Nat), NEW P, Written(recs, cells, FALSE, P),
           NEW k \in 1 .. Len(recs), NEW n \in Lengths(recs[k])
    PROVE  Overwritten(cells, P[k - 1], MarkedPart(recs[k], n)) = cells
<1>a. PICK m, a, S : m = MarkOf(recs[k]) /\ a = P[k - 1] /\ S = SubSeq(MarshalUnit(m), 1, n)
  OBVIOUS
<1>b. m = [recs[k] EXCEPT !.isProcessed = TRUE]
  BY <1>a DEF MarkOf
<1>1. PICK r, M, x : r = recs[k] /\ M = MarshalUnit(m) /\ x = Extent(r)
  OBVIOUS
<1>2. Placed(recs, P) /\ Laid(recs, cells, P)
  BY Zenon DEF Written
<1>3. r \in Units /\ x \in Nat /\ a \in Nat
  BY <1>a, <1>1, <1>2, PlacedIs, Zenon
<1>4. m \in Units /\ Extent(m) = x /\ \A c \in 1 .. x - 1 : M[c] = MarshalUnit(r)[c]
  <2>1. m = [r EXCEPT !.isProcessed = TRUE]
    BY <1>b, <1>1, Zenon
  <2>2. /\ m \in Units /\ Extent(m) = Extent(r)
        /\ \A c \in 1 .. Extent(r) - 1 : MarshalUnit(m)[c] = MarshalUnit(r)[c]
    BY ONLY <1>3, <2>1, MarkedIs, SMTT(30)
  <2> QED BY ONLY <1>1, <2>2, Zenon
<1>5. M \in Seq(Nat) /\ Len(M) = x
  BY <1>1, <1>4, MarshalIs, Zenon
<1>6. n \in Nat /\ n <= x - 1 /\ n <= Len(M)
  <2>1. n \in 0 .. Len(M) - 1
    BY <1>a, <1>1, Zenon DEF Lengths
  <2> QED BY ONLY <1>3, <1>5, <2>1
<1>7. S \in Seq(Nat) /\ Len(S) = n /\ \A c \in 1 .. n : S[c] = M[c]
  BY <1>a, <1>1, <1>5, <1>6, SubSeqIs, Zenon
<1>8. DOMAIN S = 1 .. n
  BY ONLY <1>7
<1>9. ASSUME NEW c \in DOMAIN cells, c - a \in 1 .. n PROVE S[c - a] = cells[c]
  <2>1. PICK d : d = c - a
    OBVIOUS
  <2>2. d \in 1 .. n /\ c \in Nat
    BY <1>9, <2>1
  <2>3. d \in 1 .. x - 1 /\ d \in 1 .. x /\ a + d = c
    BY ONLY <1>3, <1>6, <2>1, <2>2, SMTT(30)
  <2>4. cells[a + d] = MarshalUnit(r)[d]
    BY <1>a, <1>1, <1>2, <2>3, Zenon DEF Laid
  <2> QED BY ONLY <1>4, <1>7, <2>1, <2>2, <2>3, <2>4, Zenon
<1>10. cells = [c \in DOMAIN cells |-> cells[c]]
  OBVIOUS
<1>11. Overwritten(cells, a, S) = cells
  BY ONLY <1>8, <1>9, <1>10, Zenon DEF Overwritten
<1> QED BY ONLY <1>a, <1>11, Zenon DEF MarkedPart

-----------------------------------------------------------------------------
(* Every step keeps the invariant                                          *)

LEMMA NoneIs == <<>> \in Seq(Units) /\ <<>> \in Seq(Nat)
<1>1. \A U : <<>> \in Seq(U)
  OBVIOUS
<1> QED BY <1>1, Zenon

\* Nothing is loaded.
LEMMA Rests ==
    ASSUME NEW P, phase' \in {"off", "store"}, phase' = "store" => ~torn',
           size' = 0, off' = 0, units' = <<>>
    PROVE  Idle' /\ Loading(P)'
<1>1. Idle'
  BY DEF Idle
<1>2. MapEnd' \in Nat
  <2>1. ((0 + PageSize - 1) \div PageSize) * PageSize \in Nat
    BY PagesCover
  <2> QED BY <2>1 DEF MapEnd
<1>3. off' \in Nat /\ off' <= MapEnd'
  BY <1>2
<1>4. /\ units' \in Seq([unit : ReadUnits, at : Nat])
      /\ \A k \in DOMAIN units' : units'[k].at < MapEnd'
  BY SMT
<1>5. phase' # "load" /\ phase' # "loaded"
  OBVIOUS
<1> QED BY <1>1, <1>3, <1>4, <1>5, Zenon DEF Loading

\* A process that dies leaves the file, the records and the cut alone.
LEMMA Dies ==
    ASSUME Held, Die, UNCHANGED <<records, torn>>, file' = file
    PROVE  Held'
<1>1. PICK P : FileInv(P)
  BY Zenon DEF Held
<1>2. Kinds /\ Written(records, file, torn, P)
  BY <1>1, Zenon DEF FileInv
<1>3. phase' = "off" /\ batch' = <<>> /\ units' = <<>> /\ size' = 0 /\ off' = 0
  BY Zenon DEF Die
<1>4. Idle' /\ Loading(P)'
  BY <1>3, Rests
<1>5. Kinds'
  BY <1>2, <1>3 DEF Kinds
<1>6. BatchIs'
  BY <1>3, SMT DEF BatchIs
<1>7. Written(records, file, torn, P)'
  BY <1>2
<1>8. FileInv(P)'
  BY <1>4, <1>5, <1>6, <1>7, Zenon DEF FileInv
<1> QED BY <1>8, Zenon DEF Held

LEMMA StartHeld ==
    ASSUME Init
    PROVE  Held
<1>1. PICK P : P = [k \in 0 .. 0 |-> 0]
  OBVIOUS
<1>2. /\ file = <<>> /\ phase = "off" /\ batch = <<>> /\ size = 0 /\ off = 0 /\ units = <<>>
      /\ records = <<>> /\ torn = FALSE
  BY Zenon DEF Init
<1>3. Written(records, file, torn, P)
  BY <1>1, <1>2, Empty, Zenon
<1>4. Kinds
  BY <1>2, NoneIs, Zenon DEF Kinds
<1>5. BatchIs
  BY <1>2, SMT DEF BatchIs
<1>6. Idle
  BY <1>2, Zenon DEF Idle
<1>7. Loading(P)
  <2>1. MapEnd \in Nat
    <3>1. ((0 + PageSize - 1) \div PageSize) * PageSize \in Nat
      BY PagesCover
    <3> QED BY <1>2, <3>1 DEF MapEnd
  <2>2. off \in Nat /\ off <= MapEnd
    BY <1>2, <2>1
  <2>3. /\ units \in Seq([unit : ReadUnits, at : Nat])
        /\ \A k \in DOMAIN units : units[k].at < MapEnd
    BY <1>2, SMT
  <2>4. phase # "load" /\ phase # "loaded"
    BY <1>2
  <2> QED BY <2>2, <2>3, <2>4, Zenon DEF Loading
<1>8. FileInv(P)
  BY <1>3, <1>4, <1>5, <1>6, <1>7, Zenon DEF FileInv
<1> QED BY <1>8, Zenon DEF Held

LEMMA OpenStoreHeld ==
    ASSUME Held, OpenStore
    PROVE  Held'
<1>1. PICK Q : FileInv(Q)
  BY Zenon DEF Held
<1>2. PICK P : P = [k \in 0 .. 0 |-> 0]
  OBVIOUS
<1>3. /\ phase = "off" /\ phase' = "store" /\ batch' \in Batches
      /\ file' = <<>> /\ records' = <<>> /\ torn' = FALSE
      /\ size' = size /\ off' = off /\ units' = units
  BY DEF OpenStore
<1>4. size = 0 /\ off = 0 /\ units = <<>>
  BY <1>1, <1>3 DEF FileInv, Idle
<1>5. Idle' /\ Loading(P)'
  BY <1>3, <1>4, Rests
<1>6. Written(records, file, torn, P)'
  BY <1>2, <1>3, Empty, Zenon
<1>7. Kinds'
  BY <1>3, NoneIs, Zenon DEF Kinds
<1>8. BatchIs'
  BY <1>3, CellAssumption, Zenon DEF BatchIs, Files
<1>9. FileInv(P)'
  BY <1>5, <1>6, <1>7, <1>8, Zenon DEF FileInv
<1> QED BY <1>9, Zenon DEF Held

\* store() has a list of records to write.
LEMMA Storing ==
    ASSUME NEW P, FileInv(P), phase = "store"
    PROVE  /\ size = 0 /\ off = 0 /\ units = <<>> /\ torn = FALSE
           /\ file \in Seq(Nat) /\ records \in Seq(Units)
           /\ Written(records, file, FALSE, P)
           /\ batch # <<>> => New(Head(batch)) \in Units /\ Tail(batch) \in Seq(Files)
           /\ batch # <<>> => \A k \in DOMAIN Tail(batch) : Len(Tail(batch)[k].offsets) < Base * Base
<1>1. Kinds /\ BatchIs /\ Written(records, file, torn, P) /\ Idle
  BY Zenon DEF FileInv
<1>2. size = 0 /\ off = 0 /\ units = <<>> /\ ~torn
  BY <1>1 DEF Idle
<1>3. torn = FALSE /\ file \in Seq(Nat) /\ records \in Seq(Units)
  BY <1>1, <1>2, Zenon DEF Kinds
<1>4. ASSUME batch # <<>>
      PROVE  /\ New(Head(batch)) \in Units /\ Tail(batch) \in Seq(Files)
             /\ \A k \in DOMAIN Tail(batch) : Len(Tail(batch)[k].offsets) < Base * Base
  <2>1. PICK b, n, h, t : b = batch /\ n = Len(b) /\ h = Head(b) /\ t = Tail(b)
    OBVIOUS
  <2>2. PICK F : F = Files
    OBVIOUS
  <2>3. b \in Seq(F) /\ \A k \in DOMAIN b : Len(b[k].offsets) < Base * Base
    BY <1>1, <2>1, <2>2, Zenon DEF BatchIs
  <2>4. n \in Nat /\ n > 0 /\ h = b[1] /\ DOMAIN b = 1 .. n /\ h \in F
    BY ONLY <1>4, <2>1, <2>3
  <2>5. t \in Seq(F) /\ DOMAIN t = 1 .. n - 1 /\ \A k \in 1 .. n - 1 : t[k] = b[k + 1]
    BY ONLY <1>4, <2>1, <2>3
  <2>6. 1 \in DOMAIN b /\ \A k \in 1 .. n - 1 : k + 1 \in DOMAIN b
    BY ONLY <2>4
  <2>7. \A k \in DOMAIN t : Len(t[k].offsets) < Base * Base
    BY ONLY <2>3, <2>5, <2>6, Zenon
  <2>8. h \in [name : Seq(Nat \ {0}), offsets : Seq([offset : Nat, size : Nat])]
    BY ONLY <2>2, <2>4, Zenon DEF Files
  <2>9. Len(h.offsets) < Base * Base
    BY ONLY <2>3, <2>4, <2>6, Zenon
  <2>10. h.name \in Seq(Nat \ {0}) /\ h.offsets \in Seq([offset : Nat, size : Nat])
    BY ONLY <2>8
  <2>11. New(h) \in Units
    BY ONLY <2>9, <2>10 DEF New, Units
  <2> QED BY ONLY <2>1, <2>2, <2>5, <2>7, <2>11, Zenon
<1> QED BY <1>1, <1>2, <1>3, <1>4, Zenon

LEMMA WriteUnitHeld ==
    ASSUME Held, WriteUnit
    PROVE  Held'
<1>1. PICK P : FileInv(P)
  BY Zenon DEF Held
<1>2. PICK r : r = New(Head(batch))
  OBVIOUS
<1>3. /\ phase = "store" /\ batch # <<>> /\ phase' = phase
      /\ file' = file \o MarshalUnit(r) /\ records' = Append(records, r)
      /\ batch' = Tail(batch) /\ size' = size /\ off' = off /\ units' = units /\ torn' = torn
  BY <1>2 DEF WriteUnit
<1>4. /\ size = 0 /\ off = 0 /\ units = <<>> /\ torn = FALSE
      /\ file \in Seq(Nat) /\ records \in Seq(Units)
      /\ Written(records, file, FALSE, P)
      /\ r \in Units /\ Tail(batch) \in Seq(Files)
      /\ \A k \in DOMAIN Tail(batch) : Len(Tail(batch)[k].offsets) < Base * Base
  BY <1>1, <1>2, <1>3, Storing, Zenon
<1>5. PICK Q : Written(Append(records, r), file \o MarshalUnit(r), FALSE, Q)
  BY <1>4, Grows, Zenon
<1>6. Written(records, file, torn, Q)'
  BY <1>3, <1>4, <1>5, Zenon
<1>7. Idle' /\ Loading(Q)'
  BY <1>3, <1>4, Rests
<1>8. BatchIs'
  BY <1>3, <1>4, Zenon DEF BatchIs
<1>9. Kinds'
  <2>1. PICK U : U = Units
    OBVIOUS
  <2>2. Append(records, r) \in Seq(Units)
    BY ONLY <1>4, <2>1
  <2>3. file \o MarshalUnit(r) \in Seq(Nat)
    <3>1. MarshalUnit(r) \in Seq(Nat)
      BY <1>4, MarshalIs, Zenon
    <3> QED BY <1>4, <3>1, ConcatProperties, Zenon
  <2> QED BY <1>3, <1>4, <2>2, <2>3, Zenon DEF Kinds
<1>10. FileInv(Q)'
  BY <1>6, <1>7, <1>8, <1>9, Zenon DEF FileInv
<1> QED BY <1>10, Zenon DEF Held

LEMMA WriteCutHeld ==
    ASSUME Held, WriteCut
    PROVE  Held'
<1>1. PICK P : FileInv(P)
  BY Zenon DEF Held
<1>2. PICK r : r = New(Head(batch))
  OBVIOUS
<1>3. /\ phase = "store" /\ batch # <<>> /\ torn' = TRUE /\ records' = records
      /\ phase' = "off" /\ batch' = <<>> /\ units' = <<>> /\ size' = 0 /\ off' = 0
  BY DEF WriteCut, Die
<1>4. PICK n \in 1 .. Len(MarshalUnit(r)) - 1 : file' = file \o SubSeq(MarshalUnit(r), 1, n)
  BY <1>2 DEF WriteCut
<1>5. /\ file \in Seq(Nat) /\ records \in Seq(Units) /\ r \in Units
      /\ Written(records, file, FALSE, P)
  BY <1>1, <1>2, <1>3, Storing, Zenon
<1>6. file' \in Seq(Nat) /\ Written(records, file, torn, P)'
  <2>1. /\ file \o SubSeq(MarshalUnit(r), 1, n) \in Seq(Nat)
        /\ Written(records, file \o SubSeq(MarshalUnit(r), 1, n), TRUE, P)
    BY <1>5, Cuts, Zenon
  <2> QED BY <1>3, <1>4, <2>1, Zenon
<1>7. Idle' /\ Loading(P)'
  BY <1>3, Rests
<1>8. BatchIs'
  BY <1>3, SMT DEF BatchIs
<1>9. Kinds'
  BY <1>3, <1>5, <1>6, Zenon DEF Kinds
<1>10. FileInv(P)'
  BY <1>6, <1>7, <1>8, <1>9, Zenon DEF FileInv
<1> QED BY <1>10, Zenon DEF Held

LEMMA CloseStoreHeld ==
    ASSUME Held, CloseStore
    PROVE  Held'
<1>1. PICK P : FileInv(P)
  BY Zenon DEF Held
<1>2. /\ phase = "store" /\ phase' = "off" /\ file' = file /\ batch' = batch /\ size' = size
      /\ off' = off /\ units' = units /\ records' = records /\ torn' = torn
  BY DEF CloseStore
<1>3. Kinds /\ BatchIs /\ Written(records, file, torn, P)
  BY <1>1, Zenon DEF FileInv
<1>4. size = 0 /\ off = 0 /\ units = <<>>
  BY <1>1, <1>2, Storing, Zenon
<1>5. Idle' /\ Loading(P)'
  BY <1>2, <1>4, Rests
<1>6. Kinds'
  BY <1>2, <1>3, Zenon DEF Kinds
<1>7. BatchIs' /\ Written(records, file, torn, P)'
  BY <1>2, <1>3, Zenon DEF BatchIs
<1>8. FileInv(P)'
  BY <1>5, <1>6, <1>7, Zenon DEF FileInv
<1> QED BY <1>8, Zenon DEF Held

-----------------------------------------------------------------------------
(* Loading                                                                 *)

LEMMA UnitsRead == Units \subseteq ReadUnits
<1>1. ASSUME NEW r \in Units PROVE r \in ReadUnits
  <2>1. /\ r = [name |-> r.name, offsets |-> r.offsets, isProcessed |-> r.isProcessed]
        /\ r.name \in Seq(Nat \ {0}) /\ r.offsets \in Seq([offset : Nat, size : Nat])
        /\ r.isProcessed \in BOOLEAN
    BY UnitFields, Zenon
  <2>2. r.name \in Seq(Nat)
    BY ONLY <2>1
  <2> QED BY ONLY <2>1, <2>2 DEF ReadUnits
<1> QED BY <1>1

LEMMA UpToIs ==
    ASSUME NEW recs \in Seq(Units), NEW P, Placed(recs, P), NEW j \in 0 .. Len(recs)
    PROVE  /\ UpTo(recs, j, P) \in Seq([unit : ReadUnits, at : Nat])
           /\ DOMAIN UpTo(recs, j, P) = 1 .. j
           /\ \A k \in 1 .. j : /\ UpTo(recs, j, P)[k].unit = recs[k]
                                /\ UpTo(recs, j, P)[k].at = P[k - 1]
<1>1. PICK u, U, n : u = UpTo(recs, j, P) /\ U = ReadUnits /\ n = Len(recs)
  OBVIOUS
<1>2. u = [k \in 1 .. j |-> [unit |-> recs[k], at |-> P[k - 1]]]
  BY <1>1, Zenon DEF UpTo
<1>3. n \in Nat /\ j \in Nat /\ j <= n
  BY <1>1
<1>4. ASSUME NEW k \in 1 .. j PROVE recs[k] \in U /\ P[k - 1] \in Nat
  <2>1. k \in 1 .. Len(recs)
    BY ONLY <1>1, <1>3, k \in 1 .. j
  <2> QED BY <1>1, <2>1, PlacedIs, UnitsRead, Zenon
<1>5. u \in [1 .. j -> [unit : U, at : Nat]]
  BY ONLY <1>2, <1>4
<1>6. PICK W : W = [unit : U, at : Nat]
  OBVIOUS
<1>7. u \in [1 .. j -> W]
  BY ONLY <1>5, <1>6, Zenon
<1>8. u \in Seq(W)
  BY ONLY <1>3, <1>7
<1>9. DOMAIN u = 1 .. j /\ \A k \in 1 .. j : u[k].unit = recs[k] /\ u[k].at = P[k - 1]
  BY ONLY <1>2
<1> QED BY ONLY <1>1, <1>6, <1>8, <1>9, Zenon

LEMMA UpToNext ==
    ASSUME NEW recs, NEW P, NEW j \in Nat
    PROVE  Append(UpTo(recs, j, P), [unit |-> recs[j + 1], at |-> P[j]]) = UpTo(recs, j + 1, P)
<1>1. PICK u, e, v :
        /\ u = [k \in 1 .. j |-> [unit |-> recs[k], at |-> P[k - 1]]]
        /\ e = [unit |-> recs[j + 1], at |-> P[j]]
        /\ v = [k \in 1 .. j + 1 |-> [unit |-> recs[k], at |-> P[k - 1]]]
  OBVIOUS
<1>2. Len(u) = j
  BY ONLY <1>1, j \in Nat
<1>3. Append(u, e) = [k \in 1 .. j + 1 |-> IF k = j + 1 THEN e ELSE u[k]]
  <2>1. PICK W : W = {v[k] : k \in 1 .. j + 1}
    OBVIOUS
  <2>2. \A k \in 1 .. j : k \in 1 .. j + 1
    OBVIOUS
  <2>3. \A k \in 1 .. j : u[k] = v[k]
    BY ONLY <1>1, <2>2, Zenon
  <2>4. u \in [1 .. j -> W]
    <3>1. \A k \in 1 .. j : u[k] \in W
      BY ONLY <2>1, <2>2, <2>3, Zenon
    <3>2. u = [k \in 1 .. j |-> u[k]]
      BY ONLY <1>1
    <3> QED BY ONLY <3>1, <3>2, Zenon
  <2>5. u \in Seq(W)
    BY ONLY <2>4, j \in Nat
  <2>6. e \in W
    <3>1. j + 1 \in 1 .. j + 1 /\ (j + 1) - 1 = j
      OBVIOUS
    <3>2. v[j + 1] = e
      BY ONLY <1>1, <3>1, Zenon
    <3> QED BY ONLY <2>1, <3>1, <3>2, Zenon
  <2>7. PICK w : w = Append(u, e)
    OBVIOUS
  <2>8. /\ w \in Seq(W) /\ Len(w) = j + 1
        /\ \A k \in 1 .. Len(u) : w[k] = u[k]
        /\ w[Len(u) + 1] = e
    BY ONLY <1>2, <2>5, <2>6, <2>7, AppendProperties
  <2>9. w = [k \in 1 .. j + 1 |-> w[k]]
    BY ONLY <2>8
  <2>10. ASSUME NEW k \in 1 .. j + 1 PROVE w[k] = IF k = j + 1 THEN e ELSE u[k]
    <3>1. k # j + 1 => k \in 1 .. j
      BY ONLY j \in Nat, k \in 1 .. j + 1
    <3> QED BY ONLY <1>2, <2>8, <3>1, Zenon
  <2> QED BY ONLY <2>7, <2>9, <2>10, Zenon
<1>4. ASSUME NEW k \in 1 .. j + 1
      PROVE  (IF k = j + 1 THEN e ELSE u[k]) = [unit |-> recs[k], at |-> P[k - 1]]
  <2>1. CASE k = j + 1
    <3>1. k - 1 = j
      BY ONLY <2>1, j \in Nat
    <3> QED BY ONLY <1>1, <2>1, <3>1, Zenon
  <2>2. CASE k # j + 1
    <3>1. k \in 1 .. j
      BY ONLY <2>2, j \in Nat, k \in 1 .. j + 1
    <3> QED BY ONLY <1>1, <2>2, <3>1, Zenon
  <2> QED BY <2>1, <2>2
<1>5. Append(u, e) = v
  BY ONLY <1>1, <1>3, <1>4, Zenon
<1> QED BY ONLY <1>1, <1>5, Zenon DEF UpTo

LEMMA InitMmapHeld ==
    ASSUME Held, InitMmap
    PROVE  Held'
<1>1. PICK P : FileInv(P)
  BY Zenon DEF Held
<1>2. /\ phase = "off" /\ file # <<>> /\ phase' = "load" /\ size' = Len(file)
      /\ file' = file /\ batch' = batch /\ off' = off /\ units' = units
      /\ records' = records /\ torn' = torn
  BY DEF InitMmap
<1>3. Kinds /\ BatchIs /\ Written(records, file, torn, P) /\ Idle
  BY <1>1, Zenon DEF FileInv
<1>4. off = 0 /\ units = <<>>
  BY <1>2, <1>3 DEF Idle
<1>5. Len(file) \in Nat /\ Len(file) > 0
  <2>1. file \in Seq(Nat)
    BY <1>3, Zenon DEF Kinds
  <2> QED BY <1>2, <2>1
<1>6. Placed(records, P) /\ records \in Seq(Units)
  BY <1>3, Zenon DEF Written, Kinds
<1>7. P[0] = 0 /\ 0 \in 0 .. Len(records)
  BY <1>6 DEF Placed
<1>8. UpTo(records, 0, P) = <<>>
  BY SMT DEF UpTo
<1>9. Loading(P)'
  <2>1. MapEnd' \in Nat
    BY <1>2, <1>5, PagesCover DEF MapEnd
  <2>2. off' \in Nat /\ off' <= MapEnd'
    BY <1>2, <1>4, <2>1
  <2>3. size' = Len(file') /\ size' > 0
    BY <1>2, <1>5
  <2>4. /\ units' \in Seq([unit : ReadUnits, at : Nat])
        /\ \A k \in DOMAIN units' : units'[k].at < MapEnd'
    BY <1>2, <1>4, SMT
  <2>5. \E j \in 0 .. Len(records') : off' = P[j] /\ units' = UpTo(records', j, P)
    BY <1>2, <1>4, <1>7, <1>8, Zenon
  <2>6. phase' # "loaded"
    BY <1>2
  <2> QED BY <2>2, <2>3, <2>4, <2>5, <2>6, Zenon DEF Loading
<1>10. Kinds'
  BY <1>2, <1>3, SMT DEF Kinds
<1>11. BatchIs' /\ Written(records, file, torn, P)'
  BY <1>2, <1>3, Zenon DEF BatchIs
<1>12. Idle'
  BY <1>2 DEF Idle
<1>13. FileInv(P)'
  BY <1>9, <1>10, <1>11, <1>12, Zenon DEF FileInv
<1> QED BY <1>13, Zenon DEF Held

\* While load() is under way the file is mapped as it is.
LEMMA Mapping ==
    ASSUME NEW P, FileInv(P), phase \in {"load", "loaded"}
    PROVE  /\ MapIs /\ size \in Nat /\ MapEnd \in Nat /\ size <= MapEnd
           /\ records \in Seq(Units) /\ torn \in BOOLEAN
           /\ Placed(records, P) /\ Laid(records, file, P)
           /\ Written(records, file, torn, P)
           /\ P[Len(records)] <= size /\ (~torn => P[Len(records)] = size)
           /\ torn => P[Len(records)] < size /\ CutAt(file, P[Len(records)])
<1>1. Kinds /\ Written(records, file, torn, P) /\ Loading(P)
  BY Zenon DEF FileInv
<1>2. size = Len(file) /\ file \in Seq(Nat) /\ records \in Seq(Units) /\ torn \in BOOLEAN
  BY <1>1, Zenon DEF Loading, Kinds
<1>3. MapIs
  BY <1>2, Zenon DEF MapIs
<1>4. size \in Nat /\ MapEnd \in Nat /\ size <= MapEnd
  BY <1>3, MapEndIs, Zenon
<1>5. Placed(records, P) /\ Laid(records, file, P)
  BY <1>1, Zenon DEF Written
<1>6. ~torn => P[Len(records)] = size
  BY <1>1, <1>2, Zenon DEF Written
<1>7. torn => P[Len(records)] < size /\ CutAt(file, P[Len(records)])
  BY <1>1, <1>2, Zenon DEF Written, CutAt
<1>8. P[Len(records)] \in Nat
  <2>1. Len(records) \in 0 .. Len(records)
    BY <1>2
  <2> QED BY <1>2, <1>5, <2>1, PlacedIs, Zenon
<1>9. P[Len(records)] <= size
  <2>1. PICK e : e = P[Len(records)]
    OBVIOUS
  <2>2. e = size \/ e < size
    BY <1>2, <1>6, <1>7, <2>1, Zenon
  <2>3. e \in Nat
    BY <1>8, <2>1
  <2>4. e <= size
    BY ONLY <1>4, <2>2, <2>3
  <2> QED BY ONLY <2>1, <2>4
<1> QED BY <1>1, <1>2, <1>3, <1>4, <1>5, <1>6, <1>7, <1>9, Zenon

\* Reading at the offset of a record gives the record and the next offset.
LEMMA ReadsNext ==
    ASSUME NEW P, FileInv(P), phase = "load", NEW j \in 0 .. Len(records), j # Len(records), off = P[j]
    PROVE  /\ Unmarshal(off) = records[j + 1] /\ FlagAt(off) + 1 = P[j + 1]
           /\ j + 1 \in 0 .. Len(records)
<1>1. /\ MapIs /\ size \in Nat /\ records \in Seq(Units)
      /\ Placed(records, P) /\ Laid(records, file, P)
      /\ P[Len(records)] <= size
  BY Mapping, Zenon
<1>2. PICK r, p, x : r = records[j + 1] /\ p = off /\ x = Extent(r)
  OBVIOUS
<1>3. j + 1 \in 1 .. Len(records) /\ (j + 1) - 1 = j /\ j + 1 \in 0 .. Len(records)
  <2>1. Len(records) \in Nat
    BY <1>1
  <2> QED BY ONLY <2>1, j \in 0 .. Len(records), j # Len(records)
<1>4. /\ r \in Units /\ x \in Nat /\ P[j + 1] = P[j] + x /\ P[j] \in Nat
      /\ P[j + 1] <= P[Len(records)] /\ P[j + 1] \in Nat /\ P[Len(records)] \in Nat
  <2>1. Len(records) \in 0 .. Len(records)
    BY <1>1
  <2> QED BY <1>1, <1>2, <1>3, <2>1, PlacedIs, Zenon
<1>5. p \in Nat /\ p + x = P[j + 1] /\ p + x <= size
  <2>1. p = P[j]
    BY <1>2
  <2>2. PICK a, b, e, z : a = P[j] /\ b = P[j + 1] /\ e = P[Len(records)] /\ z = size
    OBVIOUS
  <2>3. /\ a \in Nat /\ b \in Nat /\ e \in Nat /\ z \in Nat /\ x \in Nat
        /\ b = a + x /\ b <= e /\ e <= z /\ p = a
    BY <1>1, <1>4, <2>1, <2>2
  <2>4. p + x = b /\ p + x <= z /\ p \in Nat
    BY ONLY <2>3
  <2> QED BY ONLY <2>2, <2>4
<1>6. Holds(r, p, x)
  <2>1. ASSUME NEW c \in 1 .. x PROVE file[p + c] = MarshalUnit(r)[c]
    <3>1. file[P[(j + 1) - 1] + c] = MarshalUnit(records[j + 1])[c]
      BY <1>1, <1>2, <1>3, Zenon DEF Laid
    <3> QED BY <1>2, <1>3, <3>1, Zenon
  <2> QED BY <2>1, Zenon DEF Holds
<1>7. Unmarshal(p) = r /\ FlagAt(p) + 1 = p + x
  BY <1>1, <1>2, <1>4, <1>5, <1>6, Reading, Zenon
<1> QED BY <1>2, <1>3, <1>5, <1>7, Zenon

\* Reading behind the last record, where there is a cut one, steps over size.
LEMMA ReadsCut ==
    ASSUME NEW P, FileInv(P), phase = "load", torn, off = P[Len(records)], off < MapEnd, Mapped(off)
    PROVE  FlagAt(off) + 1 > size
<1>1. MapIs /\ size \in Nat /\ records \in Seq(Units) /\ Placed(records, P)
      /\ CutAt(file, P[Len(records)])
  BY Mapping, Zenon
<1>2. PICK p, n, z : p = off /\ n = size - off /\ z = size
  OBVIOUS
<1>3. size = Len(file)
  BY <1>1, Zenon DEF MapIs
<1>4. PICK r \in Units : /\ p < z /\ z < p + Extent(r)
                         /\ \A c \in 1 .. n : file[p + c] = MarshalUnit(r)[c]
  BY <1>1, <1>2, <1>3, Zenon DEF CutAt
<1>5. p \in Nat
  <2>1. Len(records) \in 0 .. Len(records)
    BY <1>1
  <2> QED BY <1>1, <1>2, <2>1, PlacedIs, Zenon
<1>6. Extent(r) \in Nat
  BY UnitFields, Zenon
<1>7. n \in Nat /\ p + n = z /\ n < Extent(r)
  <2>1. n = z - p /\ z \in Nat
    BY <1>1, <1>2
  <2> QED BY ONLY <1>4, <1>5, <1>6, <2>1
<1>8. Holds(r, p, n)
  BY <1>4, Zenon DEF Holds
<1>9. p < MapEnd /\ Mapped(p) /\ p + n = size
  BY <1>2, <1>7, Zenon
<1>10. FlagAt(p) + 1 > size
  BY <1>1, <1>5, <1>7, <1>8, <1>9, CutReading, Zenon
<1> QED BY <1>2, <1>10, Zenon

LEMMA LoadUnitHeld ==
    ASSUME Held, LoadUnit
    PROVE  Held'
<1>1. PICK P : FileInv(P)
  BY Zenon DEF Held
<1>2. /\ phase = "load" /\ off # size /\ off < MapEnd /\ Mapped(off)
      /\ units' = Append(units, [unit |-> Unmarshal(off), at |-> off])
      /\ off' = FlagAt(off) + 1
      /\ file' = file /\ phase' = phase /\ batch' = batch /\ size' = size
      /\ records' = records /\ torn' = torn
  BY DEF LoadUnit
<1>3. Kinds /\ BatchIs /\ Written(records, file, torn, P) /\ Loading(P)
  BY <1>1, Zenon DEF FileInv
<1>4. /\ MapIs /\ size \in Nat /\ MapEnd \in Nat /\ size <= MapEnd
      /\ records \in Seq(Units) /\ torn \in BOOLEAN /\ Placed(records, P)
      /\ P[Len(records)] <= size /\ (~torn => P[Len(records)] = size)
  BY <1>1, <1>2, Mapping, Zenon
<1>5. off \in Nat /\ units \in Seq([unit : ReadUnits, at : Nat]) /\ size = Len(file) /\ size > 0
  BY <1>2, <1>3, Zenon DEF Loading
<1>6. /\ FlagAt(off) \in Nat /\ off < FlagAt(off) + 1 /\ FlagAt(off) + 1 <= MapEnd
      /\ Unmarshal(off) \in ReadUnits
  BY <1>2, <1>4, <1>5, ReadingStays, Zenon
<1>7. PICK u, e, v, E, a, f :
        /\ u = units /\ v = units' /\ E = MapEnd /\ a = off /\ f = FlagAt(off)
        /\ e = [unit |-> Unmarshal(off), at |-> off]
  OBVIOUS
<1>8. MapEnd' = E
  BY <1>2, <1>7, Zenon DEF MapEnd
<1>9. f \in Nat /\ a \in Nat /\ E \in Nat /\ a < f + 1 /\ f + 1 <= E /\ a < E /\ off' = f + 1
  BY <1>2, <1>4, <1>5, <1>6, <1>7, Zenon
<1>10. off' \in Nat /\ off' <= MapEnd'
  <2>1. f + 1 \in Nat
    BY ONLY <1>9
  <2> QED BY <1>8, <1>9, <2>1, Zenon
<1>11. v \in Seq([unit : ReadUnits, at : Nat]) /\ \A k \in DOMAIN v : v[k].at < E
  <2>1. PICK W, U : U = ReadUnits /\ W = [unit : U, at : Nat]
    OBVIOUS
  <2>2. e \in W /\ e.at = a
    BY ONLY <1>6, <1>7, <1>9, <2>1
  <2>3. u \in Seq(W) /\ v = Append(u, e)
    BY <1>2, <1>5, <1>7, <2>1, Zenon
  <2>4. \A k \in DOMAIN u : u[k].at < E
    BY <1>3, <1>7, Zenon DEF Loading
  <2>5. v \in Seq(W) /\ \A k \in DOMAIN v : v[k] = e \/ (k \in DOMAIN u /\ v[k] = u[k])
    BY ONLY <2>2, <2>3
  <2>6. \A k \in DOMAIN v : v[k].at < E
    BY ONLY <1>9, <2>2, <2>4, <2>5, Zenon
  <2> QED BY ONLY <2>1, <2>5, <2>6, Zenon
<1>12. \/ \E j \in 0 .. Len(records) : off' = P[j] /\ units' = UpTo(records, j, P)
       \/ torn /\ off' > size
  <2>1. CASE torn /\ off > size
    <3>1. PICK z : z = size
      OBVIOUS
    <3>2. a > z /\ z \in Nat
      BY <1>4, <1>7, <2>1, <3>1, Zenon
    <3>3. f + 1 > z
      BY ONLY <1>9, <3>2
    <3> QED BY <1>9, <2>1, <3>1, <3>3, Zenon
  <2>2. ASSUME NEW j \in 0 .. Len(records), off = P[j], units = UpTo(records, j, P)
        PROVE  \/ \E i \in 0 .. Len(records) : off' = P[i] /\ units' = UpTo(records, i, P)
               \/ torn /\ off' > size
    <3>1. CASE j # Len(records)
      <4>1. /\ Unmarshal(off) = records[j + 1] /\ FlagAt(off) + 1 = P[j + 1]
            /\ j + 1 \in 0 .. Len(records)
        BY <1>1, <1>2, <2>2, <3>1, ReadsNext, Zenon
      <4>2. j \in Nat
        OBVIOUS
      <4>3. Append(UpTo(records, j, P), [unit |-> records[j + 1], at |-> P[j]]) = UpTo(records, j + 1, P)
        BY <4>2, UpToNext, Zenon
      <4>4. units' = UpTo(records, j + 1, P) /\ off' = P[j + 1]
        BY <1>2, <2>2, <4>1, <4>3, Zenon
      <4> QED BY <4>1, <4>4, Zenon
    <3>2. CASE j = Len(records)
      <4>1. torn
        BY <1>2, <1>4, <2>2, <3>2, Zenon
      <4>2. FlagAt(off) + 1 > size
        BY <1>1, <1>2, <2>2, <3>2, <4>1, ReadsCut, Zenon
      <4> QED BY <1>2, <4>1, <4>2, Zenon
    <3> QED BY <3>1, <3>2
  <2> QED BY <1>2, <1>3, <2>1, <2>2, Zenon DEF Loading
<1>13. Loading(P)'
  <2>1. phase' = "load" /\ phase' # "loaded"
    BY <1>2
  <2>2. size' = Len(file') /\ size' > 0
    BY <1>2, <1>5, Zenon
  <2>3. /\ units' \in Seq([unit : ReadUnits, at : Nat])
        /\ \A k \in DOMAIN units' : units'[k].at < MapEnd'
    BY <1>7, <1>8, <1>11, Zenon
  <2>4. \/ \E j \in 0 .. Len(records') : off' = P[j] /\ units' = UpTo(records', j, P)
        \/ torn' /\ off' > size'
    BY <1>2, <1>12, Zenon
  <2> QED BY <1>10, <2>1, <2>2, <2>3, <2>4, Zenon DEF Loading
<1>14. Kinds' /\ BatchIs' /\ Written(records, file, torn, P)'
  BY <1>2, <1>3, Zenon DEF Kinds, BatchIs
<1>15. Idle'
  BY <1>2 DEF Idle
<1>16. FileInv(P)'
  BY <1>13, <1>14, <1>15, Zenon DEF FileInv
<1> QED BY <1>16, Zenon DEF Held

LEMMA LoadDoneHeld ==
    ASSUME Held, LoadDone
    PROVE  Held'
<1>1. PICK P : FileInv(P)
  BY Zenon DEF Held
<1>2. /\ phase = "load" /\ off = size /\ phase' = "loaded"
      /\ file' = file /\ batch' = batch /\ size' = size /\ off' = off /\ units' = units
      /\ records' = records /\ torn' = torn
  BY DEF LoadDone
<1>3. Kinds /\ BatchIs /\ Written(records, file, torn, P) /\ Loading(P)
  BY <1>1, Zenon DEF FileInv
<1>4. /\ size \in Nat /\ records \in Seq(Units) /\ Placed(records, P)
      /\ P[Len(records)] <= size /\ (~torn => P[Len(records)] = size)
      /\ (torn => P[Len(records)] < size)
  BY <1>1, <1>2, Mapping, Zenon
<1>5. PICK n, e, z : n = Len(records) /\ e = P[n] /\ z = size
  OBVIOUS
<1>6. PICK j \in 0 .. n : off = P[j] /\ units = UpTo(records, j, P)
  <2>1. ~(off > size)
    BY <1>2, <1>4
  <2> QED BY <1>2, <1>3, <1>5, <2>1, Zenon DEF Loading
<1>7. /\ n \in Nat /\ e \in Nat /\ P[j] = z /\ z \in Nat /\ (torn => e < z)
      /\ (~torn => e = z) /\ P[j] <= e
  <2>1. n \in Nat /\ n \in 0 .. n
    BY <1>4, <1>5
  <2>2. P[j] <= e /\ e \in Nat
    BY <1>4, <1>5, <2>1, PlacedIs, Zenon
  <2> QED BY <1>2, <1>4, <1>5, <1>6, <2>1, <2>2, Zenon
<1>8. ~torn /\ e = z
  <2>1. ~(e < z)
    BY ONLY <1>7
  <2> QED BY ONLY <1>7, <2>1, Zenon
<1>9. j = n
  <2>1. j < n => P[j] < P[n]
    <3>1. n \in 0 .. n
      BY <1>7
    <3> QED BY <1>4, <1>5, <3>1, Zenon DEF Placed
  <2>2. ~(z < z)
    BY ONLY <1>7
  <2>3. ~(j < n)
    BY <1>5, <1>7, <1>8, <2>1, <2>2, Zenon
  <2> QED BY ONLY <1>7, <2>3, j \in 0 .. n
<1>10. Loading(P)'
  <2>1. phase' = "loaded" /\ phase' # "load"
    BY <1>2
  <2>2. MapEnd' = MapEnd
    BY <1>2, Zenon DEF MapEnd
  <2>3. ~torn' /\ units' = UpTo(records', Len(records'), P)
    BY <1>2, <1>5, <1>6, <1>8, <1>9, Zenon
  <2> QED BY <1>2, <1>3, <2>1, <2>2, <2>3, Zenon DEF Loading
<1>11. Kinds'
  BY <1>2, <1>3, SMT DEF Kinds
<1>12. BatchIs' /\ Written(records, file, torn, P)'
  BY <1>2, <1>3, Zenon DEF BatchIs
<1>13. Idle'
  BY <1>2 DEF Idle
<1>14. FileInv(P)'
  BY <1>10, <1>11, <1>12, <1>13, Zenon DEF FileInv
<1> QED BY <1>14, Zenon DEF Held

\* What is loaded are the records, with the offsets they lie at.
LEMMA Loaded ==
    ASSUME NEW P, FileInv(P), phase = "loaded", NEW k \in DOMAIN units
    PROVE  /\ k \in 1 .. Len(records) /\ file \in Seq(Nat) /\ records \in Seq(Units)
           /\ torn = FALSE /\ Placed(records, P) /\ Written(records, file, FALSE, P)
           /\ units = UpTo(records, Len(records), P)
           /\ units[k].unit = records[k] /\ units[k].at = P[k - 1]
           /\ DOMAIN units = 1 .. Len(records) /\ size = Len(file) /\ size > 0
<1>1. /\ file \in Seq(Nat) /\ records \in Seq(Units) /\ torn \in BOOLEAN
      /\ Written(records, file, torn, P) /\ Loading(P)
  BY Zenon DEF FileInv, Kinds
<1>2. ~torn /\ units = UpTo(records, Len(records), P) /\ size = Len(file) /\ size > 0
  BY <1>1, Zenon DEF Loading
<1>3. torn = FALSE
  BY <1>1, <1>2
<1>4. Placed(records, P) /\ Written(records, file, FALSE, P)
  BY <1>1, <1>3, Zenon DEF Written
<1>5. Len(records) \in 0 .. Len(records)
  BY <1>1
<1>6. /\ DOMAIN UpTo(records, Len(records), P) = 1 .. Len(records)
      /\ \A l \in 1 .. Len(records) : /\ UpTo(records, Len(records), P)[l].unit = records[l]
                                      /\ UpTo(records, Len(records), P)[l].at = P[l - 1]
  BY <1>1, <1>4, <1>5, UpToIs, ZenonT(30)
<1>7. k \in 1 .. Len(records)
  BY <1>2, <1>6, Zenon
<1> QED BY <1>1, <1>2, <1>3, <1>4, <1>6, <1>7, Zenon

LEMMA SyncUnitHeld ==
    ASSUME Held, NEW k \in DOMAIN units, SyncUnit(k)
    PROVE  Held'
<1>1. PICK P : FileInv(P)
  BY Zenon DEF Held
<1>2. PICK m, a, n, u, recs, R, C :
        /\ m = Marked(k) /\ a = units[k].at /\ n = Len(records) /\ u = units
        /\ recs = records /\ R = MarkIn(records, k) /\ C = Overwrite(units[k].at, MarshalUnit(Marked(k)))
  OBVIOUS
<1>3. /\ phase = "loaded" /\ phase' = phase /\ batch' = batch /\ size' = size
      /\ off' = off /\ torn' = torn
      /\ units' = [units EXCEPT ![k].unit = m]
      /\ file' = C /\ records' = R
  BY <1>2, Zenon DEF SyncUnit, MarkIn
<1>4. /\ k \in 1 .. n /\ file \in Seq(Nat) /\ recs \in Seq(Units)
      /\ torn = FALSE /\ Placed(recs, P) /\ Written(recs, file, FALSE, P)
      /\ u = UpTo(recs, n, P) /\ n = Len(recs)
      /\ units[k].unit = recs[k] /\ a = P[k - 1]
      /\ DOMAIN u = 1 .. n /\ size = Len(file) /\ size > 0
  BY <1>1, <1>2, <1>3, Loaded, Zenon
<1>5. m = MarkOf(recs[k])
  BY <1>2, <1>4 DEF Marked, MarkOf
<1>6. PICK cells : cells = file
  OBVIOUS
<1>7. C = Overwritten(cells, P[k - 1], MarshalUnit(MarkOf(recs[k])))
  BY <1>2, <1>4, <1>5, <1>6, Zenon DEF Overwrite, Overwritten
<1>8. /\ R \in Seq(Units) /\ C \in Seq(Nat) /\ Len(C) = Len(cells)
      /\ Len(R) = n /\ R[k] = m
      /\ \A j \in 1 .. n : j # k => R[j] = recs[j]
      /\ Written(R, C, FALSE, P)
  <2>1. /\ recs \in Seq(Units) /\ cells \in Seq(Nat) /\ Written(recs, cells, FALSE, P)
        /\ k \in 1 .. Len(recs) /\ R = MarkIn(recs, k) /\ n = Len(recs)
    BY <1>2, <1>4, <1>6, Zenon
  <2>2. Marking(recs, k, MarkIn(recs, k), cells,
                Overwritten(cells, P[k - 1], MarshalUnit(MarkOf(recs[k]))), P)
    BY ONLY <2>1, Marks, Zenon
  <2>3. Marking(recs, k, R, cells, C, P)
    BY ONLY <1>7, <2>1, <2>2, Zenon
  <2> QED BY ONLY <1>5, <2>1, <2>3, Zenon DEF Marking
<1>9. units' = UpTo(R, n, P)
  <2>1. PICK v : v = [u EXCEPT ![k].unit = m]
    OBVIOUS
  <2>2. u = [j \in 1 .. n |-> [unit |-> recs[j], at |-> P[j - 1]]]
    BY <1>4, Zenon DEF UpTo
  <2>3. v = [j \in 1 .. n |-> IF j = k THEN [unit |-> m, at |-> P[j - 1]]
                              ELSE [unit |-> recs[j], at |-> P[j - 1]]]
    <3>1. PICK w : w = [unit |-> m, at |-> P[k - 1]]
      OBVIOUS
    <3>2. u[k] = [unit |-> recs[k], at |-> P[k - 1]]
      BY ONLY <1>4, <2>2, Zenon
    <3>3. [u[k] EXCEPT !.unit = m] = w
      BY ONLY <3>1, <3>2
    <3>4. v = [u EXCEPT ![k] = [u[k] EXCEPT !.unit = m]]
      BY ONLY <2>1, Zenon
    <3>5. v = [u EXCEPT ![k] = w]
      BY ONLY <3>3, <3>4, Zenon
    <3>6. v = [j \in 1 .. n |-> IF j = k THEN w ELSE u[j]]
      BY ONLY <1>4, <3>5
    <3>7. ASSUME NEW j \in 1 .. n
          PROVE  (IF j = k THEN w ELSE u[j]) = IF j = k THEN [unit |-> m, at |-> P[j - 1]]
                                               ELSE [unit |-> recs[j], at |-> P[j - 1]]
      <4>1. CASE j = k
        BY ONLY <3>1, <4>1, Zenon
      <4>2. CASE j # k
        BY ONLY <2>2, <4>2, j \in 1 .. n, Zenon
      <4> QED BY <4>1, <4>2
    <3> QED BY ONLY <3>6, <3>7, Zenon
  <2>4. ASSUME NEW j \in 1 .. n
        PROVE  (IF j = k THEN [unit |-> m, at |-> P[j - 1]]
                ELSE [unit |-> recs[j], at |-> P[j - 1]]) = [unit |-> R[j], at |-> P[j - 1]]
    <3>1. CASE j = k
      BY ONLY <1>8, <3>1, Zenon
    <3>2. CASE j # k
      BY ONLY <1>8, <3>2, j \in 1 .. n, Zenon
    <3> QED BY <3>1, <3>2
  <2>5. v = [j \in 1 .. n |-> [unit |-> R[j], at |-> P[j - 1]]]
    BY ONLY <2>3, <2>4, Zenon
  <2>6. units' = v
    BY <1>2, <1>3, <2>1, Zenon
  <2> QED BY ONLY <2>5, <2>6, Zenon DEF UpTo
<1>10. Placed(R, P)
  BY <1>8, Zenon DEF Written
<1>11. Loading(P)'
  <2>1. phase' = "loaded" /\ phase' # "load"
    BY <1>3
  <2>2. MapEnd' = MapEnd
    BY <1>3, Zenon DEF MapEnd
  <2>3. size' = Len(file') /\ size' > 0
    BY <1>3, <1>4, <1>6, <1>8, Zenon
  <2>4. off' \in Nat /\ off' <= MapEnd' /\ \A j \in DOMAIN u : u[j].at < MapEnd'
    <3>1. Loading(P)
      BY <1>1, Zenon DEF FileInv
    <3> QED BY <1>2, <1>3, <2>2, <3>1, Zenon DEF Loading
  <2>5. ~torn' /\ units' = UpTo(records', Len(records'), P)
    BY <1>3, <1>4, <1>8, <1>9, Zenon
  <2>6. n \in 0 .. n
    BY <1>4
  <2>7. /\ UpTo(R, n, P) \in Seq([unit : ReadUnits, at : Nat])
        /\ DOMAIN UpTo(R, n, P) = 1 .. n
        /\ \A j \in 1 .. n : UpTo(R, n, P)[j].at = P[j - 1]
    BY <1>8, <1>10, <2>6, UpToIs, ZenonT(40)
  <2>8. \A j \in 1 .. n : u[j].at = P[j - 1]
    BY <1>4, <2>6, UpToIs, ZenonT(30)
  <2>9. units' \in Seq([unit : ReadUnits, at : Nat]) /\ \A j \in DOMAIN units' : units'[j].at < MapEnd'
    BY ONLY <1>4, <1>9, <2>4, <2>7, <2>8, ZenonT(40)
  <2> QED BY <2>1, <2>3, <2>4, <2>5, <2>9, Zenon DEF Loading
<1>12. Written(records, file, torn, P)'
  BY <1>3, <1>4, <1>8, Zenon
<1>13. Kinds'
  BY <1>3, <1>4, <1>8 DEF Kinds
<1>14. BatchIs'
  <2>1. BatchIs
    BY <1>1, Zenon DEF FileInv
  <2> QED BY <1>3, <2>1, Zenon DEF BatchIs
<1>15. Idle'
  BY <1>3 DEF Idle
<1>16. FileInv(P)'
  BY <1>11, <1>12, <1>13, <1>14, <1>15, Zenon DEF FileInv
<1> QED BY <1>16, Zenon DEF Held

LEMMA SyncCutHeld ==
    ASSUME Held, NEW k \in DOMAIN units, SyncCut(k)
    PROVE  Held'
<1>1. PICK P : FileInv(P)
  BY Zenon DEF Held
<1>2. PICK m, a : m = Marked(k) /\ a = units[k].at
  OBVIOUS
<1>3. phase = "loaded" /\ Die /\ records' = records /\ torn' = torn
  BY DEF SyncCut
<1>4. PICK n \in 0 .. Len(MarshalUnit(m)) - 1 : file' = Overwrite(a, SubSeq(MarshalUnit(m), 1, n))
  BY <1>2, Zenon DEF SyncCut
<1>5. /\ k \in 1 .. Len(records) /\ file \in Seq(Nat) /\ records \in Seq(Units)
      /\ Written(records, file, FALSE, P)
      /\ units[k].unit = records[k] /\ a = P[k - 1]
  BY <1>1, <1>2, <1>3, Loaded, Zenon
<1>6. m = MarkOf(records[k])
  BY <1>2, <1>5 DEF Marked, MarkOf
<1>7. n \in Lengths(records[k])
  BY <1>6 DEF Lengths
<1>8. Overwritten(file, P[k - 1], MarkedPart(records[k], n)) = file
  BY ONLY <1>5, <1>7, MarkCut, ZenonT(30)
<1>9. file' = file
  BY <1>4, <1>5, <1>6, <1>8, Zenon DEF Overwrite, Overwritten, MarkedPart
<1> QED BY <1>3, <1>9, Dies, Zenon

-----------------------------------------------------------------------------
(* What holds of every behaviour                                           *)

LEMMA StepHeld ==
    ASSUME Held, [Next]_vars
    PROVE  Held'
<1>1. CASE OpenStore
  BY <1>1, OpenStoreHeld
<1>2. CASE WriteUnit
  BY <1>2, WriteUnitHeld
<1>3. CASE WriteCut
  BY <1>3, WriteCutHeld
<1>4. CASE CloseStore
  BY <1>4, CloseStoreHeld
<1>5. CASE InitMmap
  BY <1>5, InitMmapHeld
<1>6. CASE LoadUnit
  BY <1>6, LoadUnitHeld
<1>7. CASE LoadFaults
  BY <1>7, Dies, Zenon DEF LoadFaults
<1>8. CASE LoadDone
  BY <1>8, LoadDoneHeld
<1>9. CASE \E k \in DOMAIN units : SyncUnit(k)
  BY <1>9, SyncUnitHeld
<1>10. CASE \E k \in DOMAIN units : SyncCut(k)
  BY <1>10, SyncCutHeld
<1>11. CASE Exit
  BY <1>11, Dies, Zenon DEF Exit
<1>12. CASE UNCHANGED vars
  BY <1>12 DEF vars, Held, FileInv, Kinds, BatchIs, Written, Idle, Loading, MapEnd
<1> QED
  BY <1>1, <1>2, <1>3, <1>4, <1>5, <1>6, <1>7, <1>8, <1>9, <1>10, <1>11, <1>12, Zenon DEF Next

\* In every behaviour the status file begins with the marshalled records, each
\* with the mark it was given, and is no more than that unless store() is
\* running or was killed: a memcpy of syncMe() over a mapped record, even one
\* that stops half-way, touches none of its neighbours (UnitStorage::store and
\* syncMe, Marshal).
THEOREM FileIsSound == Spec => []FileSound
<1>1. Init => Held
  BY StartHeld
<1>2. Held /\ [Next]_vars => Held'
  BY StepHeld
<1>3. Held => FileSound
  BY HeldSound
<1> QED BY <1>1, <1>2, <1>3, PTL DEF Spec

\* In every behaviour a load() that returns gives back exactly the records that
\* store() wrote, with the marks syncMe() left, in whatever process; where the
\* file was cut it does not return (UnitStorage::load).
THEOREM LoadedIsExact == Spec => []LoadIsExact
<1>1. Init => Held
  BY StartHeld
<1>2. Held /\ [Next]_vars => Held'
  BY StepHeld
<1>3. Held => LoadIsExact
  BY HeldSound
<1> QED BY <1>1, <1>2, <1>3, PTL DEF Spec

-----------------------------------------------------------------------------
(* The mount                                                               *)

\* What is held before each step of a mount.
MountHeldAt ==
    /\ step = 1 => held = {}
    /\ step = 2 => held = {"dev"}
    /\ step \in 3 .. 5 => held = Early
    /\ step \in 6 .. 8 => held = Middle
    /\ step \in {9, Cached} => held = Late
    /\ step = Prepare => held = Resources

MountHeld ==
    /\ step \in 1 .. Prepare
    /\ volume \in {"idle", "mounting", "mounted", "unmounting"}
    /\ mode \in {"ro", "rw", "ro_fallback"}
    /\ volume = "idle" => held = {}
    /\ volume = "mounting" => MountHeldAt
    /\ volume = "mounted" => held = Resources
    /\ volume = "unmounting" => held = Resources \ {"children", "root"}
    /\ volume = "mounting" /\ step = 1 => ro = 0
    /\ (volume = "mounting" /\ step > 1) \/ volume \in {"mounted", "unmounting"} =>
         (ro = 0 => mode # "ro" /\ ~isProtected)
    /\ leaked \subseteq Tables

\* A mark that is needed is there.
MountMarked ==
    /\ volume \in {"mounted", "unmounting"} /\ ro = 0 => disk = TRUE
    /\ disk \in BOOLEAN /\ unclean \in BOOLEAN
    /\ unclean = TRUE => disk = TRUE

MountInv == MountHeld /\ MountMarked

LEMMA MountStepsAre ==
    /\ Len(MountSteps) = 9 /\ Cached = 10 /\ Prepare = 11
    /\ MountSteps[1].takes = {"dev"} /\ MountSteps[1].frees = {}
    /\ MountSteps[2].takes = {"sb"} /\ MountSteps[2].frees = {"dev"}
    /\ MountSteps[3].takes = {} /\ MountSteps[3].frees = Early
    /\ MountSteps[4].takes = {} /\ MountSteps[4].frees = Early
    /\ MountSteps[5].takes = {"zero_cluster"} /\ MountSteps[5].frees = Early
    /\ MountSteps[6].takes = {} /\ MountSteps[6].frees = Middle
    /\ MountSteps[7].takes = {} /\ MountSteps[7].frees = Middle
    /\ MountSteps[8].takes = {"root"} /\ MountSteps[8].frees = Middle
    /\ MountSteps[9].takes = {} /\ MountSteps[9].frees = Late
<1>1. Len(MountSteps) = 9
  BY DEF MountSteps
<1>2. /\ MountSteps[1].takes = {"dev"} /\ MountSteps[1].frees = {}
      /\ MountSteps[2].takes = {"sb"} /\ MountSteps[2].frees = {"dev"}
      /\ MountSteps[3].takes = {} /\ MountSteps[3].frees = Early
  BY DEF MountSteps
<1>3. /\ MountSteps[4].takes = {} /\ MountSteps[4].frees = Early
      /\ MountSteps[5].takes = {"zero_cluster"} /\ MountSteps[5].frees = Early
      /\ MountSteps[6].takes = {} /\ MountSteps[6].frees = Middle
  BY DEF MountSteps
<1>4. /\ MountSteps[7].takes = {} /\ MountSteps[7].frees = Middle
      /\ MountSteps[8].takes = {"root"} /\ MountSteps[8].frees = Middle
      /\ MountSteps[9].takes = {} /\ MountSteps[9].frees = Late
  BY DEF MountSteps
<1> QED BY <1>1, <1>2, <1>3, <1>4 DEF Cached, Prepare

LEMMA FallbackIsSet == Fallback # 0
BY DEF Fallback

LEMMA MountInitInv == MountInit => MountInv
<1>1. MountInit => MountHeld
  BY MountStepsAre, ModesAssumption DEF MountInit, MountHeld
<1>2. MountInit => MountMarked
  BY DEF MountInit, MountMarked
<1> QED BY <1>1, <1>2 DEF MountInv

LEMMA StepMountMarked == MountMarked /\ [MountNext]_mountVars => MountMarked'
<1> SUFFICES ASSUME MountMarked, [MountNext]_mountVars PROVE MountMarked'
  OBVIOUS
<1> USE DEF MountMarked
<1>1. CASE Begin \/ MountStep \/ MountStepFails \/ CacheRoot \/ CacheRootFails
           \/ Unmount \/ Protect
  BY <1>1 DEF Begin, MountStep, MountStepFails, GiveUp, CacheRoot, CacheRootFails,
              Unmount, Protect
<1>2. CASE PrepareSuperBlock
  BY <1>2 DEF PrepareSuperBlock
<1>3. CASE PrepareFails
  BY <1>3 DEF PrepareFails, GiveUp
<1>4. CASE Finalize
  BY <1>4 DEF Finalize
<1>5. CASE Crash
  BY <1>5 DEF Crash
<1>6. CASE UNCHANGED mountVars
  BY <1>6 DEF mountVars
<1> QED BY <1>1, <1>2, <1>3, <1>4, <1>5, <1>6 DEF MountNext

LEMMA StepMountHeld == MountHeld /\ [MountNext]_mountVars => MountHeld'
<1> SUFFICES ASSUME MountHeld, [MountNext]_mountVars PROVE MountHeld'
  OBVIOUS
<1> USE MountStepsAre DEF MountHeld, MountHeldAt
<1>1. CASE Begin
  BY <1>1, ModesAssumption DEF Begin
<1>2. CASE MountStep
  <2>1. /\ volume = "mounting" /\ volume' = "mounting"
        /\ step \in 1 .. 9 /\ step' = step + 1
        /\ held' = held \cup MountSteps[step].takes
        /\ UNCHANGED <<mode, isProtected, leaked>>
    <3>1. /\ volume = "mounting" /\ volume' = volume
          /\ step <= Len(MountSteps) /\ step' = step + 1
          /\ held' = held \cup MountSteps[step].takes
          /\ UNCHANGED <<mode, isProtected, leaked>>
      BY ONLY <1>2, Zenon DEF MountStep
    <3>2. step \in 1 .. Prepare
      OBVIOUS
    <3>3. step \in 1 .. 9
      BY ONLY <3>1, <3>2, MountStepsAre
    <3> QED BY ONLY <3>1, <3>3
  <2>2. ro' = 0 => mode # "ro" /\ ~isProtected
    <3>1. CASE step = 1
      <4>1. CanOpen /\ (ro' = 0 => ~OpensReadOnly)
        BY <1>2, <3>1, FallbackIsSet DEF MountStep
      <4>2. mode \in {"ro", "rw", "ro_fallback"}
        OBVIOUS
      <4> QED BY ONLY <4>1, <4>2 DEF CanOpen, OpensReadOnly
    <3>2. CASE step # 1
      <4>1. volume = "mounting" /\ step > 1 /\ ro' = ro
        <5>1. volume = "mounting" /\ ro' = ro
          BY ONLY <1>2, <3>2, Zenon DEF MountStep
        <5>2. step > 1
          BY ONLY <2>1, <3>2
        <5> QED BY ONLY <5>1, <5>2
      <4> QED BY <4>1
    <3> QED BY <3>1, <3>2
  <2>3. MountHeldAt'
    <3>1. CASE step \in 1 .. 3
      BY <2>1, <3>1 DEF Early, Middle, Late
    <3>2. CASE step \in 4 .. 6
      BY <2>1, <3>2 DEF Early, Middle, Late
    <3>3. CASE step \in 7 .. 9
      BY <2>1, <3>3 DEF Early, Middle, Late
    <3> QED BY <2>1, <3>1, <3>2, <3>3
  <2> QED BY <2>1, <2>2, <2>3
<1>3. CASE MountStepFails
  <2>1. /\ volume = "mounting" /\ step \in 1 .. 9 /\ volume' = "idle" /\ held' = {}
        /\ leaked' = leaked \cup (held \ MountSteps[step].frees)
        /\ UNCHANGED <<step, mode, isProtected, ro>>
    BY <1>3 DEF MountStepFails, GiveUp
  <2>2. held \ MountSteps[step].frees = {}
    BY <2>1 DEF Early, Middle, Late
  <2> QED BY <2>1, <2>2
<1>4. CASE CacheRoot
  BY <1>4 DEF CacheRoot, Resources
<1>5. CASE CacheRootFails
  BY <1>5 DEF CacheRootFails
<1>6. CASE PrepareSuperBlock
  BY <1>6 DEF PrepareSuperBlock
<1>7. CASE PrepareFails
  <2>1. held \ AfterError \subseteq Tables
    BY <1>7 DEF PrepareFails, AfterError, Resources
  <2> QED BY <1>7, <2>1 DEF PrepareFails, GiveUp
<1>8. CASE Unmount
  BY <1>8 DEF Unmount
<1>9. CASE Finalize
  <2>1. held \ ({"dev", "zero_cluster", "sb"} \cup Tables) = {}
    BY <1>9 DEF Finalize, Resources, Late, Middle, Early
  <2> QED BY <1>9, <2>1 DEF Finalize
<1>10. CASE Crash \/ Protect
  BY <1>10 DEF Crash, Protect
<1>11. CASE UNCHANGED mountVars
  BY <1>11 DEF mountVars
<1> QED
  BY <1>1, <1>2, <1>3, <1>4, <1>5, <1>6, <1>7, <1>8, <1>9, <1>10, <1>11 DEF MountNext

LEMMA MountStepInv == MountInv /\ [MountNext]_mountVars => MountInv'
BY StepMountHeld, StepMountMarked DEF MountInv

\* A writable volume in use, or abandoned by a process that died, is marked on
\* the medium (prepare_super_block, finalize_super_block).
THEOREM AlwaysMarked == MountSpec => []UncleanIsMarked
<1>1. MountInv => UncleanIsMarked
  BY DEF MountInv, MountMarked, UncleanIsMarked
<1> QED BY <1>1, MountInitInv, MountStepInv, PTL DEF MountSpec

\* The variables the invariant does not speak of in full.
MountTyped ==
    /\ mode \in Modes /\ ro \in {0, 1, Fallback}
    /\ mounts \in 0 .. MaxMounts
    /\ isProtected \in BOOLEAN /\ sb \in BOOLEAN

LEMMA InitMountTyped == MountInit => MountTyped
<1>1. MountInit => mounts \in 0 .. MaxMounts
  BY ModesAssumption DEF MountInit
<1>2. MountInit => mode \in Modes /\ ro = 0 /\ isProtected \in BOOLEAN /\ sb = FALSE
  BY Zenon DEF MountInit
<1>3. sb = FALSE => sb \in BOOLEAN
  OBVIOUS
<1> QED BY <1>1, <1>2, <1>3, Zenon DEF MountTyped

LEMMA StepMountTyped == MountMarked /\ MountTyped /\ [MountNext]_mountVars => MountTyped'
<1> SUFFICES ASSUME MountMarked, MountTyped, [MountNext]_mountVars PROVE MountTyped'
  OBVIOUS
<1> USE DEF MountTyped
<1>1. CASE Begin
  <2>1. mounts' \in 0 .. MaxMounts
    BY <1>1, ModesAssumption DEF Begin
  <2>2. mode' \in Modes /\ ro' = 0 /\ isProtected' = isProtected /\ sb' = FALSE
    BY <1>1 DEF Begin
  <2> QED BY <2>1, <2>2
<1>2. CASE MountStep
  <2>1. ro' \in {0, 1, Fallback}
    BY ONLY <1>2, MountTyped, Zenon DEF MountStep, MountTyped
  <2>2. sb' = disk \/ sb' = sb
    BY ONLY <1>2, Zenon DEF MountStep
  <2>3. UNCHANGED <<mode, isProtected, mounts>>
    BY <1>2 DEF MountStep
  <2> QED BY <2>1, <2>2, <2>3 DEF MountMarked
<1>3. CASE MountStepFails \/ CacheRoot \/ CacheRootFails \/ PrepareFails
           \/ Unmount \/ Crash
  BY <1>3 DEF MountStepFails, CacheRoot, CacheRootFails, PrepareFails, GiveUp, Unmount, Crash
<1>4. CASE PrepareSuperBlock
  BY <1>4 DEF PrepareSuperBlock
<1>5. CASE Finalize
  BY <1>5 DEF Finalize
<1>6. CASE Protect
  BY <1>6 DEF Protect
<1>7. CASE UNCHANGED mountVars
  BY <1>7 DEF mountVars
<1> QED BY <1>1, <1>2, <1>3, <1>4, <1>5, <1>6, <1>7 DEF MountNext

\* Every error path of exfat_mount gives back what was taken before it, the
\* two tables excepted; exfat_unmount gives back everything.
THEOREM AllGivenBack == MountSpec => []ResourcesSound
<1>1. MountInv => GivesBack
  BY DEF MountInv, MountHeld, GivesBack, Resources, Tables, Late, Middle, Early
<1>2. MountInv /\ MountTyped => MountTypeOK
  <2> SUFFICES ASSUME MountInv, MountTyped PROVE MountTypeOK
    OBVIOUS
  <2>1. volume \in {"idle", "mounting", "mounted", "unmounting"} /\ step \in 1 .. Prepare
    BY DEF MountInv, MountHeld
  <2>2. held \subseteq Resources
    <3>1. volume = "mounting" /\ MountHeldAt => held \subseteq Resources
      BY <2>1, MountStepsAre DEF MountHeldAt, Resources, Late, Middle, Early
    <3> QED BY <2>1, <3>1 DEF MountInv, MountHeld
  <2>3. leaked \subseteq Resources
    BY DEF MountInv, MountHeld, Resources
  <2>4. {isProtected, sb, disk, unclean} \subseteq BOOLEAN
    BY Zenon DEF MountInv, MountMarked, MountTyped
  <2> QED BY <2>1, <2>2, <2>3, <2>4 DEF MountTyped, MountTypeOK
<1>3. MountInv /\ MountTyped /\ [MountNext]_mountVars => (MountInv /\ MountTyped)'
  BY MountStepInv, StepMountTyped DEF MountInv
<1>4. MountInv /\ MountTyped => ResourcesSound
  BY <1>1, <1>2 DEF ResourcesSound
<1> QED BY <1>3, <1>4, MountInitInv, InitMountTyped, PTL DEF MountSpec

\* A volume mounted with the option bbcp passes, or on a protected device, is
\* never written (exfat_mount, prepare_super_block, finalize_super_block).
THEOREM NeverWritten == MountSpec => ReadOnlyMounts
<1>1. MountInv /\ [MountNext]_mountVars
        => [(mode = "ro" \/ isProtected) /\ volume # "idle" => disk' = disk]_mountVars
  <2> SUFFICES ASSUME MountInv, [MountNext]_mountVars, mode = "ro" \/ isProtected, volume # "idle"
               PROVE  disk' = disk
    OBVIOUS
  <2>1. CASE PrepareSuperBlock \/ PrepareFails \/ Finalize
    <3>1. (volume = "mounting" /\ step > 1) \/ volume \in {"mounted", "unmounting"}
      <4>1. (volume = "mounting" /\ step = Prepare) \/ volume = "unmounting"
        BY ONLY <2>1, Zenon DEF PrepareSuperBlock, PrepareFails, Finalize
      <4> QED BY ONLY <4>1, MountStepsAre
    <3>2. ro # 0
      BY <3>1 DEF MountInv, MountHeld
    <3> QED BY <2>1, <3>2 DEF PrepareSuperBlock, PrepareFails, Finalize
  <2>2. CASE ~(PrepareSuperBlock \/ PrepareFails \/ Finalize)
    BY <2>2 DEF MountNext, mountVars, Begin, MountStep, MountStepFails, CacheRoot,
                CacheRootFails, Unmount, Crash, Protect
  <2> QED BY <2>1, <2>2
<1> QED BY <1>1, MountInitInv, MountStepInv, PTL DEF MountSpec, ReadOnlyMounts
=============================================================================
