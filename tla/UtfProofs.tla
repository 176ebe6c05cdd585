----------------------------- MODULE UtfProofs -----------------------------
(***************************************************************************)
(* Proofs about Utf, for every set of names, strings and buffer sizes.     *)
(*                                                                         *)
(* The buffers are a matter of lengths.  That a name comes back from its   *)
(* conversion is one of places: the bytes of each character are where the  *)
(* sizes of those before it add up to (Written), and utf8_to_wchar takes   *)
(* from there what wchar_to_utf8 has put (CharBack).                       *)
(***************************************************************************)
EXTENDS Utf, SequenceTheorems, WellFoundedInduction, TLAPS

\* Six bytes have been enough for each unit that has been taken.
SixEach ==
    /\ outsize \in Nat
    /\ phase = "encode" =>
         /\ name \in Names /\ inp \in Nat
         /\ \E S : utf8 \in Seq(S)
         /\ Len(utf8) <= 6 * inp
    /\ LibrarySizeSuffices

LEMMA WidthBound == \A wc : Width(wc) \in 1 .. 6
BY DEF Width

LEMMA Utf8Length ==
    ASSUME NEW wc
    PROVE  \E S : Utf8(wc) \in Seq(S) /\ Len(Utf8(wc)) = Width(wc)
<1> DEFINE n == Width(wc)
           byte(i) == IF i = 1 THEN Mark(n) + wc \div 64^(n - 1)
                      ELSE 2^7 + ((wc \div 64^(n - i)) % 64)
           S == {byte(i) : i \in 1 .. n}
<1>1. n \in Nat
  BY WidthBound
<1>2. Utf8(wc) = [i \in 1 .. n |-> byte(i)]
  BY DEF Utf8
<1> HIDE DEF n, byte
<1>3. [i \in 1 .. n |-> byte(i)] \in Seq(S) /\ Len([i \in 1 .. n |-> byte(i)]) = n
  BY <1>1
<1> QED BY <1>2, <1>3 DEF n

LEMMA InitSixEach == Init => SixEach
<1> SUFFICES ASSUME Init PROVE SixEach
  OBVIOUS
<1>1. <<>> \in Seq({}) /\ Len(<<>>) = 0
  BY EmptySeq
<1>2. outsize \in Nat /\ phase # "ENAMETOOLONG"
  BY NamesAssumption DEF Init
<1>3. ASSUME phase = "encode"
      PROVE  name \in Names /\ inp = 0 /\ utf8 = <<>>
  BY <1>3 DEF Init
<1>4. ASSUME phase = "encode"
      PROVE  /\ name \in Names /\ inp \in Nat
             /\ \E S : utf8 \in Seq(S)
             /\ Len(utf8) <= 6 * inp
  <2>1. utf8 \in Seq({}) /\ Len(utf8) = 0
    BY <1>1, <1>3, <1>4
  <2> QED BY <2>1, <1>3, <1>4
<1> QED BY <1>2, <1>4 DEF SixEach, LibrarySizeSuffices

LEMMA StepSixEach == SixEach /\ [Next]_vars => SixEach'
<1> SUFFICES ASSUME SixEach, [Next]_vars PROVE SixEach'
  OBVIOUS
<1>1. CASE Encode
  <2> DEFINE bytes == Utf8(WideChar(inp + 1))
  <2>1. /\ phase = "encode" /\ phase' = phase
        /\ name' = name /\ outsize' = outsize
        /\ utf8' = utf8 \o bytes
        /\ inp' = inp + (IF Paired(inp + 1) THEN 2 ELSE 1)
    BY <1>1 DEF Encode
  <2> PICK S : utf8 \in Seq(S)
    BY <2>1 DEF SixEach
  <2> PICK T : bytes \in Seq(T) /\ Len(bytes) = Width(WideChar(inp + 1))
    BY Utf8Length
  <2>2. inp \in Nat /\ Len(utf8) <= 6 * inp /\ Len(utf8) \in Nat
    BY <2>1, LenProperties DEF SixEach
  <2>3. Len(bytes) \in 1 .. 6
    BY WidthBound
  <2>4. utf8 \in Seq(S \cup T) /\ bytes \in Seq(S \cup T)
    <3> HIDE DEF bytes
    <3>1. utf8 \in Seq(S) /\ bytes \in Seq(T)
      OBVIOUS
    <3> QED BY <3>1
  <2>5. utf8' \in Seq(S \cup T) /\ Len(utf8') = Len(utf8) + Len(bytes)
    <3> HIDE DEF bytes
    <3> QED BY <2>1, <2>4, ConcatProperties
  <2>6. inp' \in Nat /\ Len(utf8') <= 6 * inp'
    <3> HIDE DEF bytes
    <3> QED BY <2>1, <2>2, <2>3, <2>5
  <2> QED BY <2>1, <2>5, <2>6 DEF SixEach, LibrarySizeSuffices
<1>2. CASE EncodeTooLong
  <2>1. /\ phase = "encode" /\ phase' = "ENAMETOOLONG" /\ outsize' = outsize
        /\ inp < Len(name)
        /\ Width(WideChar(inp + 1)) > outsize - Len(utf8)
    BY <1>2 DEF EncodeTooLong
  <2>2. /\ name \in Seq(CodeUnit \ {0}) /\ Len(name) <= EXFAT_NAME_MAX
        /\ EXFAT_NAME_MAX \in Nat
    BY <2>1, NamesAssumption DEF SixEach
  <2>3. /\ inp \in Nat /\ outsize \in Nat /\ Len(name) \in Nat
        /\ Len(utf8) <= 6 * inp /\ Len(utf8) \in Nat
    BY <2>1, <2>2, LenProperties DEF SixEach
  <2>4. outsize < 6 * EXFAT_NAME_MAX
    BY <2>1, <2>2, <2>3, WidthBound
  <2> QED BY <2>1, <2>2, <2>3, <2>4 DEF SixEach, LibrarySizeSuffices, UTF8_BYTES
<1>3. CASE EncodeIllegal \/ EncodeDone \/ Decode \/ DecodeIllegal \/ DecodeTooLong
           \/ DecodeDone
  BY <1>3 DEF EncodeIllegal, EncodeDone, Decode, DecodeIllegal, DecodeTooLong,
              DecodeDone, SixEach, LibrarySizeSuffices
<1>4. CASE UNCHANGED vars
  BY <1>4 DEF vars, SixEach, LibrarySizeSuffices
<1> QED BY <1>1, <1>2, <1>3, <1>4 DEF Next

\* Whatever the name, a buffer of UTF8_BYTES(EXFAT_NAME_MAX) never makes
\* exfat_get_name fail for want of room; ExfatNode::getName's does.
THEOREM LibrarySize == Spec => []LibrarySizeSuffices
<1>1. SixEach => LibrarySizeSuffices
  BY DEF SixEach
<1> QED BY <1>1, InitSixEach, StepSixEach, PTL DEF Spec

-----------------------------------------------------------------------------
(* The output buffers.  The check that there is room compares lengths that  *)
(* are those of the very pieces that are then written.                      *)

Fits ==
    /\ outsize \in Nat
    /\ phase = "encode" => inp \in Nat
    /\ phase = "encode" \/ name # <<>> =>
         /\ \E S : utf8 \in Seq(S)
         /\ Len(utf8) <= outsize
    /\ \E T : utf16 \in Seq(T)
    /\ Len(utf16) <= EXFAT_NAME_MAX

LEMMA Utf16Length == \A wc : \E T : Utf16(wc) \in Seq(T)
<1> TAKE wc
<1> DEFINE rest == wc - 2^16
           high == 54 * 2^10 + ((rest \div 2^10) % 2^10)
           low == 55 * 2^10 + (rest % 2^10)
<1>1. Utf16(wc) = <<wc>> \/ Utf16(wc) = <<high, low>>
  BY DEF Utf16
<1> HIDE DEF high, low
<1>2. <<wc>> \in Seq({wc}) /\ <<high, low>> \in Seq({high, low})
  OBVIOUS
<1> QED BY <1>1, <1>2

\* What is appended within the room that is left leaves the whole within it.
LEMMA AppendedWithin ==
    ASSUME NEW s, NEW t, NEW S, NEW T, s \in Seq(S), t \in Seq(T),
           NEW size \in Nat, Len(t) <= size - Len(s)
    PROVE  s \o t \in Seq(S \cup T) /\ Len(s \o t) <= size
<1>1. s \in Seq(S \cup T) /\ t \in Seq(S \cup T)
  OBVIOUS
<1>2. s \o t \in Seq(S \cup T) /\ Len(s \o t) = Len(s) + Len(t)
  BY <1>1, ConcatProperties
<1>3. Len(s) \in Nat /\ Len(t) \in Nat
  BY LenProperties
<1> QED BY <1>2, <1>3

LEMMA InitFits == Init => Fits
<1> SUFFICES ASSUME Init PROVE Fits
  OBVIOUS
<1>1. <<>> \in Seq({}) /\ Len(<<>>) = 0
  BY EmptySeq
<1>2. outsize \in Nat /\ inp = 0 /\ utf16 = <<>> /\ EXFAT_NAME_MAX \in Nat
  BY NamesAssumption DEF Init
<1>3. utf16 \in Seq({}) /\ Len(utf16) <= EXFAT_NAME_MAX
  BY <1>1, <1>2
<1>4. ASSUME phase = "encode" \/ name # <<>>
      PROVE  utf8 \in Seq({}) /\ Len(utf8) <= outsize
  <2>1. utf8 = <<>>
    BY <1>4 DEF Init
  <2> QED BY <2>1, <1>1, <1>2
<1> QED BY <1>2, <1>3, <1>4 DEF Fits

LEMMA StepFits == Fits /\ [Next]_vars => Fits'
<1> SUFFICES ASSUME Fits, [Next]_vars PROVE Fits'
  OBVIOUS
<1>1. CASE Encode
  <2> DEFINE bytes == Utf8(WideChar(inp + 1))
  <2>1. /\ phase = "encode" /\ phase' = phase
        /\ name' = name /\ outsize' = outsize /\ utf16' = utf16
        /\ utf8' = utf8 \o bytes /\ Len(bytes) <= outsize - Len(utf8)
        /\ inp' = inp + (IF Paired(inp + 1) THEN 2 ELSE 1)
    BY <1>1 DEF Encode
  <2>2. PICK S : utf8 \in Seq(S)
    BY <2>1 DEF Fits
  <2>3. PICK T : bytes \in Seq(T)
    BY Utf8Length
  <2>4. inp' \in Nat /\ outsize \in Nat
    BY <2>1 DEF Fits
  <2>5. utf8' \in Seq(S \cup T) /\ Len(utf8') <= outsize
    <3> HIDE DEF bytes
    <3> QED BY <2>1, <2>2, <2>3, <2>4, AppendedWithin
  <2> HIDE DEF bytes
  <2> QED BY <2>1, <2>4, <2>5 DEF Fits
<1>2. CASE Decode
  <2> DEFINE units == Utf16(CharOf(inp + 1, N))
  <2>1. /\ phase = "decode" /\ phase' = phase
        /\ name' = name /\ outsize' = outsize /\ utf8' = utf8
        /\ utf16' = utf16 \o units /\ Len(units) <= EXFAT_NAME_MAX - Len(utf16)
    BY <1>2 DEF Decode
  <2>2. PICK S : utf16 \in Seq(S)
    BY DEF Fits
  <2>3. PICK T : units \in Seq(T)
    BY Utf16Length
  <2>4. utf16' \in Seq(S \cup T) /\ Len(utf16') <= EXFAT_NAME_MAX
    <3>1. EXFAT_NAME_MAX \in Nat
      BY NamesAssumption
    <3> HIDE DEF units
    <3> QED BY <2>1, <2>2, <2>3, <3>1, AppendedWithin
  <2> HIDE DEF units
  <2> QED BY <2>1, <2>4 DEF Fits
<1>3. CASE EncodeIllegal \/ EncodeTooLong \/ EncodeDone \/ DecodeIllegal
           \/ DecodeTooLong \/ DecodeDone
  BY <1>3 DEF EncodeIllegal, EncodeTooLong, EncodeDone, DecodeIllegal,
              DecodeTooLong, DecodeDone, Fits
<1>4. CASE UNCHANGED vars
  BY <1>4 DEF vars, Fits
<1> QED BY <1>1, <1>2, <1>3, <1>4 DEF Next

\* Whatever the name, the string and the buffer, utf16_to_utf8 and
\* utf8_to_utf16 stay within the size they were given.
THEOREM NothingOverrun == Spec => []NoOverrun
<1>1. Fits => NoOverrun
  BY DEF Fits, NoOverrun
<1> QED BY <1>1, InitFits, StepFits, PTL DEF Spec

-----------------------------------------------------------------------------
(* Induction over the numbers, as far as definitions by recursion need it  *)

LEMMA LeastElement ==
    ASSUME NEW T, T \subseteq Nat, T # {}
    PROVE  \E m \in T : \A n \in T : m <= n
<1>1. PICK R : /\ IsWellFoundedOn(R, Nat)
               /\ \A n, k \in Nat : n < k => <<n, k>> \in R
  <2>1. \A n, k \in Nat : n < k => <<n, k>> \in OpToRel(<, Nat)
    BY DEF OpToRel
  <2> QED BY <2>1, NatLessThanWellFounded, Zenon
<1>2. PICK m \in T : \A n \in T : ~(<<n, m>> \in R)
  <2>1. IsWellFoundedOn(R, Nat) /\ T \subseteq Nat /\ T # {}
    BY <1>1
  <2>2. \A A, B, C : IsWellFoundedOn(A, B) /\ C \subseteq B /\ C # {} =>
          \E x \in C : \A y \in C : ~(<<y, x>> \in A)
    BY WFMin
  <2> QED BY ONLY <2>1, <2>2, Zenon
<1>3. ASSUME NEW n \in T PROVE m <= n
  <2>1. n \in Nat /\ m \in Nat
    OBVIOUS
  <2>2. ~(n < m)
    BY <1>1, <1>2, <2>1
  <2> QED BY ONLY <2>1, <2>2
<1> QED BY <1>3

LEMMA SetInduction ==
    ASSUME NEW S, 0 \in S, \A n \in Nat : n \in S => n + 1 \in S
    PROVE  Nat \subseteq S
<1> SUFFICES ASSUME Nat \ S # {} PROVE FALSE
  OBVIOUS
<1>1. PICK m \in Nat \ S : \A n \in Nat \ S : m <= n
  BY LeastElement
<1>2. m - 1 \in Nat /\ m - 1 \notin S
  BY <1>1
<1> QED BY <1>1, <1>2

\* A function on 0 .. n may be defined by its first value and a step.
LEMMA StepByStep ==
    ASSUME NEW n \in Nat, NEW a \in Nat, NEW next \in [Nat -> [Nat -> Nat]]
    PROVE  \E g \in [0 .. n -> Nat] :
             g[0] = a /\ \A k \in 1 .. n : g[k] = next[k][g[k - 1]]
<1> DEFINE IsIt(g, l) == g[0] = a /\ \A k \in 1 .. l : g[k] = next[k][g[k - 1]]
           Exists(l) == \E g \in [0 .. l -> Nat] : IsIt(g, l)
           S == {l \in Nat : Exists(l)}
<1>1. Exists(0)
  <2> DEFINE g == [k \in 0 .. 0 |-> a]
  <2>1. g \in [0 .. 0 -> Nat] /\ IsIt(g, 0)
    OBVIOUS
  <2> QED BY <2>1
<1>2. ASSUME NEW l \in Nat, Exists(l) PROVE Exists(l + 1)
  <2> PICK g \in [0 .. l -> Nat] : IsIt(g, l)
    BY <1>2
  <2> PICK last : last = next[l + 1][g[l]]
    OBVIOUS
  <2> DEFINE h == [k \in 0 .. l + 1 |-> IF k = l + 1 THEN last ELSE g[k]]
  <2>1. last \in Nat
    <3>1. l + 1 \in Nat /\ g[l] \in Nat
      OBVIOUS
    <3>2. next[l + 1] \in [Nat -> Nat]
      BY <3>1
    <3> QED BY <3>1, <3>2
  <2>2. h \in [0 .. l + 1 -> Nat]
    <3>1. \A k \in 0 .. l + 1 : k = l + 1 \/ k \in 0 .. l
      OBVIOUS
    <3> QED BY <2>1, <3>1
  <2>3. IsIt(h, l + 1)
    <3>1. h[0] = a
      OBVIOUS
    <3>2. ASSUME NEW k \in 1 .. l + 1 PROVE h[k] = next[k][h[k - 1]]
      <4>1. CASE k = l + 1
        <5>1. h[k] = last /\ h[k - 1] = g[l]
          BY <4>1
        <5> QED BY ONLY <4>1, <5>1, last = next[l + 1][g[l]], Zenon
      <4>2. CASE k # l + 1
        <5>1. k \in 1 .. l
          BY <4>2
        <5>2. g[k] = next[k][g[k - 1]]
          BY <5>1
        <5>3. /\ k \in 0 .. l + 1 /\ k # l + 1
              /\ k - 1 \in 0 .. l + 1 /\ k - 1 # l + 1
          BY <5>1
        <5>4. h[k] = g[k] /\ h[k - 1] = g[k - 1]
          BY ONLY <5>3
        <5> QED BY ONLY <5>2, <5>4, Zenon
      <4> QED BY <4>1, <4>2
    <3> HIDE DEF h
    <3> QED BY <3>1, <3>2
  <2> HIDE DEF h, IsIt
  <2> QED BY <2>2, <2>3
<1>3. 0 \in S /\ \A l \in Nat : l \in S => l + 1 \in S
  <2> HIDE DEF Exists
  <2> QED BY <1>1, <1>2
<1>4. n \in S
  <2> HIDE DEF S
  <2> QED BY <1>3, SetInduction
<1> HIDE DEF IsIt
<1>5. Exists(n)
  <2> HIDE DEF Exists
  <2> QED BY <1>4
<1> QED BY <1>5 DEF IsIt

\* Sizes add up to no less for more units.
IsSizes(Z) ==
    /\ Z \in [0 .. Len(name) -> Nat]
    /\ Z[0] = 0
    /\ \A k \in 1 .. Len(name) : Z[k] = Z[k - 1] + UnitSize(k)

Unit == CodeUnit \ {0}

LEMMA UnitSizes == \A i : UnitSize(i) \in 0 .. 4
BY DEF UnitSize

LEMMA SizesAre ==
    ASSUME name \in Seq(Unit)
    PROVE  IsSizes(SizeUpto)
<1> DEFINE n == Len(name)
           IsUpto(g) == g = [k \in 0 .. n |-> IF k = 0 THEN 0 ELSE g[k - 1] + UnitSize(k)]
<1>1. n \in Nat
  OBVIOUS
<1>2. \E g : IsUpto(g) /\ g \in [0 .. n -> Nat]
  <2> DEFINE next == [k \in Nat |-> [x \in Nat |-> x + UnitSize(k)]]
  <2>1. next \in [Nat -> [Nat -> Nat]]
    BY UnitSizes
  <2> HIDE DEF n
  <2>2. PICK g \in [0 .. n -> Nat] :
               g[0] = 0 /\ \A k \in 1 .. n : g[k] = next[k][g[k - 1]]
    <3> HIDE DEF next
    <3> QED BY <1>1, <2>1, StepByStep, ZenonT(40)
  <2>3. \A k \in 1 .. n : g[k] = g[k - 1] + UnitSize(k)
    <3> TAKE k \in 1 .. n
    <3>1. k \in Nat /\ g[k - 1] \in Nat
      BY <1>1
    <3> QED BY <2>2, <3>1
  <2>4. g[0] = 0
    BY <2>2
  <2>5. \A k \in 0 .. n : g[k] = IF k = 0 THEN 0 ELSE g[k - 1] + UnitSize(k)
    BY <2>3, <2>4, <1>1
  <2>6. IsUpto(g)
    BY <2>5
  <2> QED BY <2>6
<1>3. SizeUpto = CHOOSE g : IsUpto(g)
  BY DEF SizeUpto
<1>4. IsUpto(SizeUpto)
  <2> HIDE DEF IsUpto
  <2> QED BY <1>2, <1>3
<1> HIDE DEF n
<1>5. /\ SizeUpto[0] = 0
      /\ \A k \in 1 .. n : SizeUpto[k] = SizeUpto[k - 1] + UnitSize(k)
  BY <1>1, <1>4
<1>6. SizeUpto \in [0 .. n -> Nat]
  <2> PICK g : IsUpto(g) /\ g \in [0 .. n -> Nat]
    BY <1>2
  <2>1. g[0] = 0 /\ \A k \in 1 .. n : g[k] = g[k - 1] + UnitSize(k)
    BY <1>1
  <2> DEFINE S == {k \in Nat : k <= n => SizeUpto[k] = g[k]}
  <2>2. 0 \in S
    BY <2>1, <1>5
  <2>3. ASSUME NEW k \in Nat, k \in S PROVE k + 1 \in S
    <3> SUFFICES ASSUME k + 1 <= n PROVE SizeUpto[k + 1] = g[k + 1]
      OBVIOUS
    <3>1. SizeUpto[k] = g[k] /\ k + 1 \in 1 .. n /\ (k + 1) - 1 = k
      BY <2>3, <1>1
    <3> QED BY <3>1, <2>1, <1>5
  <2>4. Nat \subseteq S
    <3> HIDE DEF S, IsUpto
    <3> QED BY <2>2, <2>3, SetInduction
  <2>5. \A k \in 0 .. n : SizeUpto[k] = g[k]
    <3> HIDE DEF IsUpto
    <3> TAKE k \in 0 .. n
    <3>1. k \in S /\ k <= n
      BY <2>4, <1>1
    <3> QED BY <3>1
  <2>6. SizeUpto = [k \in 0 .. n |-> IF k = 0 THEN 0 ELSE SizeUpto[k - 1] + UnitSize(k)]
    BY <1>4
  <2>7. SizeUpto = [k \in 0 .. n |-> SizeUpto[k]]
    BY <2>6
  <2>8. \A k \in 0 .. n : SizeUpto[k] \in Nat
    BY <2>5
  <2> QED BY <2>7, <2>8
<1> QED BY <1>5, <1>6 DEF IsSizes, n

LEMMA SizesGrow ==
    ASSUME name \in Seq(Unit), NEW Z, IsSizes(Z),
           NEW a \in 0 .. Len(name), NEW b \in a .. Len(name)
    PROVE  Z[a] <= Z[b]
<1> DEFINE n == Len(name)
           S == {k \in Nat : a + k <= n => Z[a] <= Z[a + k]}
<1>1. n \in Nat /\ a \in Nat /\ b - a \in Nat /\ a + (b - a) = b /\ b <= n
  OBVIOUS
<1>2. /\ \A k \in 0 .. n : Z[k] \in Nat
      /\ \A k \in 1 .. n : Z[k] = Z[k - 1] + UnitSize(k)
  BY DEF IsSizes
<1> HIDE DEF n
<1>3. 0 \in S
  BY <1>1, <1>2
<1>4. ASSUME NEW k \in Nat, k \in S PROVE k + 1 \in S
  <2> SUFFICES ASSUME a + (k + 1) <= n PROVE Z[a] <= Z[a + (k + 1)]
    OBVIOUS
  <2> PICK m : m = a + k
    OBVIOUS
  <2>1. m \in 0 .. n /\ m + 1 \in 1 .. n /\ (m + 1) - 1 = m /\ a + (k + 1) = m + 1 /\ a \in 0 .. n
    BY <1>1
  <2>2. Z[a] <= Z[m]
    BY <1>4, <1>1
  <2>3. Z[m + 1] = Z[m] + UnitSize(m + 1)
    BY <1>2, <2>1
  <2>4. Z[a] \in Nat /\ Z[m] \in Nat /\ UnitSize(m + 1) \in Nat
    BY <1>2, <2>1, UnitSizes, SMTT(30)
  <2>5. Z[a] <= Z[m + 1]
    BY ONLY <2>2, <2>3, <2>4
  <2> QED BY ONLY <2>1, <2>5, Zenon
<1>5. b - a \in S
  <2> HIDE DEF S
  <2> QED BY <1>1, <1>3, <1>4, SetInduction
<1> QED BY <1>1, <1>5

-----------------------------------------------------------------------------
(* Characters                                                              *)

Chars == 1 .. 2^21 - 1

LEMMA Widths ==
    ASSUME NEW wc \in Chars
    PROVE  Width(wc) = IF wc < 2^7 THEN 1 ELSE IF wc < 2^11 THEN 2
                       ELSE IF wc < 2^16 THEN 3 ELSE 4
<1>1. wc < 2^21 /\ wc \in Nat
  BY SMT DEF Chars
<1> QED BY <1>1, SMT DEF Width

\* The bytes of a character.
LEMMA Utf8Bytes ==
    ASSUME NEW wc \in Chars
    PROVE  /\ Utf8(wc) \in Seq(Byte) /\ Len(Utf8(wc)) = Width(wc)
           /\ wc < 2^7 => Width(wc) = 1 /\ Utf8(wc)[1] = wc
           /\ wc >= 2^7 /\ wc < 2^11 =>
                /\ Width(wc) = 2
                /\ Utf8(wc)[1] = 192 + wc \div 64
                /\ Utf8(wc)[2] = 128 + (wc % 64)
           /\ wc >= 2^11 /\ wc < 2^16 =>
                /\ Width(wc) = 3
                /\ Utf8(wc)[1] = 224 + wc \div 64^2
                /\ Utf8(wc)[2] = 128 + ((wc \div 64) % 64)
                /\ Utf8(wc)[3] = 128 + (wc % 64)
           /\ wc >= 2^16 =>
                /\ Width(wc) = 4
                /\ Utf8(wc)[1] = 240 + wc \div 64^3
                /\ Utf8(wc)[2] = 128 + ((wc \div 64^2) % 64)
                /\ Utf8(wc)[3] = 128 + ((wc \div 64) % 64)
                /\ Utf8(wc)[4] = 128 + (wc % 64)
<1> DEFINE byte(n, i) == IF i = 1 THEN Mark(n) + wc \div 64^(n - 1)
                         ELSE 2^7 + ((wc \div 64^(n - i)) % 64)
<1>1. Utf8(wc) = [i \in 1 .. Width(wc) |-> byte(Width(wc), i)]
  BY DEF Utf8
<1>2. wc \in Nat /\ wc < 2^21
  BY DEF Chars
<1>4. Mark(1) = 0 /\ Mark(2) = 192 /\ Mark(3) = 224 /\ Mark(4) = 240
  BY DEF Mark
<1>5. CASE wc < 2^7
  <2>1. Width(wc) = 1
    BY <1>5, Widths, Zenon
  <2>2. byte(1, 1) = wc
    BY <1>2, <1>4, SMT
  <2>3. wc \in Byte
    BY <1>2, <1>5 DEF Byte
  <2>4. Utf8(wc) = [i \in 1 .. 1 |-> wc]
    BY <1>1, <2>1, <2>2
  <2>5. Utf8(wc) \in Seq(Byte) /\ Len(Utf8(wc)) = 1 /\ Utf8(wc)[1] = wc
    BY <2>3, <2>4
  <2> QED BY <2>1, <2>5, <1>5, <1>2
<1>6. CASE wc >= 2^7 /\ wc < 2^11
  <2>1. Width(wc) = 2
    BY <1>6, <1>2, Widths, SMT
  <2>2. byte(2, 1) = 192 + wc \div 64 /\ byte(2, 2) = 128 + (wc % 64)
    BY <1>2, <1>4, SMT
  <2>3. 192 + wc \div 64 \in Byte /\ 128 + (wc % 64) \in Byte
    BY <1>2, <1>6 DEF Byte
  <2>4. Utf8(wc) = [i \in 1 .. 2 |-> byte(2, i)]
    BY <1>1, <2>1
  <2>5. /\ Utf8(wc) \in Seq(Byte) /\ Len(Utf8(wc)) = 2
        /\ Utf8(wc)[1] = byte(2, 1) /\ Utf8(wc)[2] = byte(2, 2)
    <3> HIDE DEF byte
    <3> QED BY <2>2, <2>3, <2>4
  <2> HIDE DEF byte
  <2> QED BY <2>1, <2>2, <2>5, <1>6, <1>2
<1>7. CASE wc >= 2^11 /\ wc < 2^16
  <2>1. Width(wc) = 3
    BY <1>7, <1>2, Widths, SMT
  <2>2. /\ byte(3, 1) = 224 + wc \div 64^2 /\ byte(3, 2) = 128 + ((wc \div 64) % 64)
        /\ byte(3, 3) = 128 + (wc % 64)
    BY <1>2, <1>4, SMT
  <2>3. /\ 224 + wc \div 64^2 \in Byte /\ 128 + ((wc \div 64) % 64) \in Byte
        /\ 128 + (wc % 64) \in Byte
    BY <1>2, <1>7 DEF Byte
  <2>4. Utf8(wc) = [i \in 1 .. 3 |-> byte(3, i)]
    BY <1>1, <2>1
  <2>5. /\ Utf8(wc) \in Seq(Byte) /\ Len(Utf8(wc)) = 3
        /\ Utf8(wc)[1] = byte(3, 1) /\ Utf8(wc)[2] = byte(3, 2)
        /\ Utf8(wc)[3] = byte(3, 3)
    <3> HIDE DEF byte
    <3> QED BY <2>2, <2>3, <2>4
  <2> HIDE DEF byte
  <2> QED BY <2>1, <2>2, <2>5, <1>7, <1>2
<1>8. CASE wc >= 2^16
  <2>1. Width(wc) = 4
    BY <1>8, <1>2, Widths, SMT
  <2>2. /\ byte(4, 1) = 240 + wc \div 64^3 /\ byte(4, 2) = 128 + ((wc \div 64^2) % 64)
        /\ byte(4, 3) = 128 + ((wc \div 64) % 64) /\ byte(4, 4) = 128 + (wc % 64)
    BY <1>2, <1>4, SMT
  <2>3. /\ 240 + wc \div 64^3 \in Byte /\ 128 + ((wc \div 64^2) % 64) \in Byte
        /\ 128 + ((wc \div 64) % 64) \in Byte /\ 128 + (wc % 64) \in Byte
    BY <1>2, <1>8 DEF Byte
  <2>4. Utf8(wc) = [i \in 1 .. 4 |-> byte(4, i)]
    BY <1>1, <2>1
  <2>5. /\ Utf8(wc) \in Seq(Byte) /\ Len(Utf8(wc)) = 4
        /\ Utf8(wc)[1] = byte(4, 1) /\ Utf8(wc)[2] = byte(4, 2)
        /\ Utf8(wc)[3] = byte(4, 3) /\ Utf8(wc)[4] = byte(4, 4)
    <3> HIDE DEF byte
    <3> QED BY <2>2, <2>3, <2>4
  <2> HIDE DEF byte
  <2> QED BY <2>1, <2>2, <2>5, <1>8, <1>2
<1> QED BY <1>2, <1>5, <1>6, <1>7, <1>8

\* The lead byte tells the width.
LEMMA LeadByte ==
    ASSUME NEW wc \in Chars
    PROVE  Needed(Utf8(wc)[1]) = Width(wc)
<1> PICK b : b = Utf8(wc)[1]
  OBVIOUS
<1> DEFINE Asks(n) == b \div 2^(7 - n) = 2^(n + 1) - 2
<1>1. wc \in Nat /\ wc < 2^21
  BY DEF Chars
<1>2. /\ Asks(2) <=> b \div 32 = 6
      /\ Asks(3) <=> b \div 16 = 14
      /\ Asks(4) <=> b \div 8 = 30
      /\ Asks(5) <=> b \div 4 = 62
      /\ Asks(6) <=> b \div 2 = 126
  OBVIOUS
<1> HIDE DEF Asks
<1>3. Needed(b) = IF b < 128 THEN 1
                  ELSE IF \E n \in 2 .. 6 : Asks(n) THEN CHOOSE n \in 2 .. 6 : Asks(n) ELSE 0
  BY DEF Needed, Asks
<1>4. \A m \in 2 .. 6 : b >= 128 /\ b \in Nat /\ Asks(m) /\ (\A n \in 2 .. 6 : Asks(n) => n = m)
        => Needed(b) = m
  <2> TAKE m \in 2 .. 6
  <2> SUFFICES ASSUME b >= 128, b \in Nat, Asks(m), \A n \in 2 .. 6 : Asks(n) => n = m
               PROVE  Needed(b) = m
    OBVIOUS
  <2>1. ~(b < 128)
    OBVIOUS
  <2>2. (CHOOSE n \in 2 .. 6 : Asks(n)) = m
    OBVIOUS
  <2> QED BY <1>3, <2>1, <2>2
<1>5. \A m : (\A n \in 2 .. 6 : Asks(n) => n = m) <=>
               /\ Asks(2) => m = 2
               /\ Asks(3) => m = 3
               /\ Asks(4) => m = 4
               /\ Asks(5) => m = 5
               /\ Asks(6) => m = 6
  <2>1. \A n \in 2 .. 6 : n = 2 \/ n = 3 \/ n = 4 \/ n = 5 \/ n = 6
    OBVIOUS
  <2>2. 2 \in 2 .. 6 /\ 3 \in 2 .. 6 /\ 4 \in 2 .. 6 /\ 5 \in 2 .. 6 /\ 6 \in 2 .. 6
    OBVIOUS
  <2> QED BY ONLY <2>1, <2>2
<1>6. CASE wc < 2^7
  BY <1>6, <1>1, <1>3, Utf8Bytes
<1>7. CASE wc >= 2^7 /\ wc < 2^11
  <2>1. b = 192 + wc \div 64 /\ Width(wc) = 2
    BY <1>7, Utf8Bytes
  <2>2. b \in Nat /\ b >= 192 /\ b < 224
    BY <2>1, <1>1, <1>7
  <2>3. /\ b \div 32 = 6 /\ b \div 16 # 14 /\ b \div 8 # 30 /\ b \div 4 # 62
        /\ b \div 2 # 126
    BY ONLY <2>2
  <2> QED BY <1>2, <1>4, <1>5, <2>1, <2>2, <2>3
<1>8. CASE wc >= 2^11 /\ wc < 2^16
  <2>1. b = 224 + wc \div 64^2 /\ Width(wc) = 3
    BY <1>8, Utf8Bytes
  <2>2. b \in Nat /\ b >= 224 /\ b < 240
    BY <2>1, <1>1, <1>8
  <2>3. /\ b \div 32 # 6 /\ b \div 16 = 14 /\ b \div 8 # 30 /\ b \div 4 # 62
        /\ b \div 2 # 126
    BY ONLY <2>2
  <2> QED BY <1>2, <1>4, <1>5, <2>1, <2>2, <2>3
<1>9. CASE wc >= 2^16
  <2>1. b = 240 + wc \div 64^3 /\ Width(wc) = 4
    BY <1>9, Utf8Bytes
  <2>2. b \in Nat /\ b >= 240 /\ b < 248
    BY <2>1, <1>1, <1>9
  <2>3. /\ b \div 32 # 6 /\ b \div 16 # 14 /\ b \div 8 = 30 /\ b \div 4 # 62
        /\ b \div 2 # 126
    BY ONLY <2>2
  <2> QED BY <1>2, <1>4, <1>5, <2>1, <2>2, <2>3
<1> QED BY <1>1, <1>6, <1>7, <1>8, <1>9

\* utf8_to_wchar, byte by byte.
LEMMA CharOfIs ==
    ASSUME utf8 \in Seq(Byte), NEW i \in Nat \ {0}, NEW n \in 1 .. 6,
           i + n - 1 <= Len(utf8)
    PROVE  \E g \in [1 .. n -> Nat] :
             /\ CharOf(i, n) = g[n]
             /\ g[1] = IF n = 1 THEN utf8[i] ELSE utf8[i] % 2^(7 - n)
             /\ \A k \in 2 .. n : g[k] = g[k - 1] * 64 + (utf8[i + k - 1] % 64)
<1> DEFINE lead == IF n = 1 THEN utf8[i] ELSE utf8[i] % 2^(7 - n)
           rest(k) == utf8[i + k - 1] % 64
           IsWc(w) == w = [k \in 1 .. n |-> IF k > 1 THEN w[k - 1] * 64 + rest(k) ELSE lead]
<1>1. \A k \in 1 .. n : utf8[i + k - 1] \in Nat
  <2> TAKE k \in 1 .. n
  <2>1. i + k - 1 \in 1 .. Len(utf8)
    OBVIOUS
  <2>2. utf8[i + k - 1] \in Byte
    BY <2>1, ElementOfSeq
  <2> QED BY <2>2 DEF Byte
<1>2. lead \in Nat
  <2>1. utf8[i] \in Nat
    <3>1. 1 \in 1 .. n /\ i + 1 - 1 = i
      OBVIOUS
    <3> QED BY <1>1, <3>1
  <2>2. n # 1 => 2^(7 - n) \in {2, 4, 8, 16, 32}
    <3>1. n = 1 \/ n = 2 \/ n = 3 \/ n = 4 \/ n = 5 \/ n = 6
      OBVIOUS
    <3>2. 7 - 2 = 5 /\ 7 - 3 = 4 /\ 7 - 4 = 3 /\ 7 - 5 = 2 /\ 7 - 6 = 1
      OBVIOUS
    <3>3. 2^5 = 32 /\ 2^4 = 16 /\ 2^3 = 8 /\ 2^2 = 4 /\ 2^1 = 2
      OBVIOUS
    <3> QED BY ONLY <3>1, <3>2, <3>3, ZenonT(40)
  <2>3. \A x \in Nat : x % 2 \in Nat /\ x % 4 \in Nat /\ x % 8 \in Nat /\ x % 16 \in Nat
                       /\ x % 32 \in Nat
    OBVIOUS
  <2> QED BY <2>1, <2>2, <2>3
<1>3. \A k \in 1 .. n : rest(k) \in Nat
  <2> TAKE k \in 1 .. n
  <2>1. \A x \in Nat : x % 64 \in Nat
    OBVIOUS
  <2> QED BY <1>1, <2>1
<1>4. \E w : IsWc(w) /\ w \in [1 .. n -> Nat]
  <2> DEFINE next == [k \in Nat |-> [x \in Nat |->
                        x * 64 + (IF k \in 1 .. n - 1 THEN rest(k + 1) ELSE 0)]]
  <2> HIDE DEF lead, rest
  <2>1. next \in [Nat -> [Nat -> Nat]]
    <3>1. \A k \in Nat : k \in 1 .. n - 1 => rest(k + 1) \in Nat
      BY <1>3
    <3> QED BY <3>1
  <2>2. PICK g \in [0 .. n - 1 -> Nat] :
               g[0] = lead /\ \A k \in 1 .. n - 1 : g[k] = next[k][g[k - 1]]
    <3> HIDE DEF next
    <3> PICK m : m = n - 1
      OBVIOUS
    <3>1. m \in Nat
      OBVIOUS
    <3>2. \E g \in [0 .. m -> Nat] :
            g[0] = lead /\ \A k \in 1 .. m : g[k] = next[k][g[k - 1]]
      BY ONLY <1>2, <2>1, <3>1, StepByStep, ZenonT(40)
    <3> QED BY <3>2
  <2> DEFINE w == [k \in 1 .. n |-> g[k - 1]]
  <2>3. w \in [1 .. n -> Nat]
    OBVIOUS
  <2>4. ASSUME NEW k \in 1 .. n
        PROVE  w[k] = IF k > 1 THEN w[k - 1] * 64 + rest(k) ELSE lead
    <3>1. CASE k = 1
      BY <2>2, <3>1
    <3>2. CASE k > 1
      <4> PICK m : m = k - 1
        OBVIOUS
      <4>1. m \in 1 .. n - 1 /\ k = m + 1 /\ m \in Nat /\ m - 1 \in 0 .. n - 1
        BY <3>2
      <4>2. g[m - 1] \in Nat
        BY <4>1
      <4>3. g[m] = g[m - 1] * 64 + rest(m + 1)
        BY <2>2, <4>1, <4>2
      <4>4. w[k] = g[m] /\ w[k - 1] = g[m - 1]
        BY <4>1
      <4> QED BY <3>2, <4>1, <4>3, <4>4
    <3> QED BY <3>1, <3>2
  <2>5. IsWc(w)
    <3>1. w = [k \in 1 .. n |-> w[k]]
      OBVIOUS
    <3> HIDE DEF w
    <3> QED BY <2>4, <3>1
  <2> HIDE DEF w, IsWc
  <2> QED BY <2>3, <2>5
<1>5. CharOf(i, n) = (CHOOSE w : IsWc(w))[n]
  BY DEF CharOf
<1> PICK c : c = CHOOSE w : IsWc(w)
  OBVIOUS
<1>6. IsWc(c) /\ CharOf(i, n) = c[n]
  <2> HIDE DEF IsWc
  <2> QED BY <1>4, <1>5
<1> HIDE DEF lead, rest
<1>9. \A w : IsWc(w) => /\ w[1] = lead
                         /\ \A k \in 2 .. n : w[k] = w[k - 1] * 64 + rest(k)
                         /\ w = [l \in 1 .. n |-> w[l]]
  <2> TAKE w
  <2> SUFFICES ASSUME IsWc(w)
               PROVE  /\ w[1] = lead
                      /\ \A k \in 2 .. n : w[k] = w[k - 1] * 64 + rest(k)
                      /\ w = [l \in 1 .. n |-> w[l]]
    BY Zenon
  <2>1. \A k \in 1 .. n : w[k] = IF k > 1 THEN w[k - 1] * 64 + rest(k) ELSE lead
    BY Zenon
  <2>2. w = [k \in 1 .. n |-> w[k]]
    BY Zenon
  <2> HIDE DEF IsWc
  <2>3. \A k \in 2 .. n : k \in 1 .. n /\ k > 1
    OBVIOUS
  <2>4. 1 \in 1 .. n /\ ~(1 > 1)
    OBVIOUS
  <2> QED BY ONLY <2>1, <2>2, <2>3, <2>4, Zenon
<1>7. c[1] = lead /\ \A k \in 2 .. n : c[k] = c[k - 1] * 64 + rest(k)
  <2> HIDE DEF IsWc
  <2> QED BY <1>6, <1>9, Zenon
<1>8. c \in [1 .. n -> Nat]
  <2> PICK w : IsWc(w) /\ w \in [1 .. n -> Nat]
    BY <1>4
  <2> HIDE DEF IsWc
  <2>1. w[1] = lead /\ \A k \in 2 .. n : w[k] = w[k - 1] * 64 + rest(k)
    BY <1>9, Zenon
  <2>2. \A k \in 1 .. n : c[k] = w[k]
    <3>1. c[1] = w[1]
      BY <1>7, <2>1, Zenon
    <3>2. \A k \in 2 .. n : c[k - 1] = w[k - 1] => c[k] = w[k]
      BY <1>7, <2>1, ZenonT(30)
    <3>3. \A k \in 1 .. n : k = 1 \/ k = 2 \/ k = 3 \/ k = 4 \/ k = 5 \/ k = 6
      OBVIOUS
    <3>4. 2 <= n => c[2] = w[2]
      BY <3>1, <3>2
    <3>5. 3 <= n => c[3] = w[3]
      BY <3>4, <3>2
    <3>6. 4 <= n => c[4] = w[4]
      BY <3>5, <3>2
    <3>7. 5 <= n => c[5] = w[5]
      BY <3>6, <3>2
    <3>8. 6 <= n => c[6] = w[6]
      BY <3>7, <3>2
    <3> QED BY <3>1, <3>3, <3>4, <3>5, <3>6, <3>7, <3>8, SMTT(40)
  <2>3. c = [k \in 1 .. n |-> c[k]]
    <3>1. c = [k \in 1 .. n |-> IF k > 1 THEN c[k - 1] * 64 + rest(k) ELSE lead]
      BY <1>6, Zenon DEF IsWc
    <3> QED BY ONLY <3>1, Zenon
  <2>4. \A k \in 1 .. n : c[k] \in Nat
    BY <2>2
  <2> QED BY <2>3, <2>4
<1> QED BY <1>6, <1>7, <1>8 DEF lead, rest

LEMMA CharOfNat ==
    ASSUME utf8 \in Seq(Byte), NEW i \in Nat \ {0}, NEW n \in 1 .. 6,
           i + n - 1 <= Len(utf8)
    PROVE  CharOf(i, n) \in Nat
<1> PICK g \in [1 .. n -> Nat] :
        /\ CharOf(i, n) = g[n]
        /\ g[1] = IF n = 1 THEN utf8[i] ELSE utf8[i] % 2^(7 - n)
        /\ \A k \in 2 .. n : g[k] = g[k - 1] * 64 + (utf8[i + k - 1] % 64)
  BY CharOfIs, ZenonT(40)
<1> QED OBVIOUS

\* It takes from the bytes of a character what wchar_to_utf8 put there.
LEMMA CharBack ==
    ASSUME utf8 \in Seq(Byte), NEW wc \in Chars, NEW at \in Nat,
           at + Width(wc) <= Len(utf8),
           \A j \in 1 .. Width(wc) : utf8[at + j] = Utf8(wc)[j]
    PROVE  CharOf(at + 1, Width(wc)) = wc
<1> PICK n : n = Width(wc)
  OBVIOUS
<1>0. wc \in Nat /\ wc < 2^21
  BY DEF Chars
<1>10. /\ wc < 2^7 => n = 1 /\ Utf8(wc)[1] = wc
       /\ wc >= 2^7 /\ wc < 2^11 =>
            /\ n = 2
            /\ Utf8(wc)[1] = 192 + wc \div 64
            /\ Utf8(wc)[2] = 128 + (wc % 64)
       /\ wc >= 2^11 /\ wc < 2^16 =>
            /\ n = 3
            /\ Utf8(wc)[1] = 224 + wc \div 64^2
            /\ Utf8(wc)[2] = 128 + ((wc \div 64) % 64)
            /\ Utf8(wc)[3] = 128 + (wc % 64)
       /\ wc >= 2^16 =>
            /\ n = 4
            /\ Utf8(wc)[1] = 240 + wc \div 64^3
            /\ Utf8(wc)[2] = 128 + ((wc \div 64^2) % 64)
            /\ Utf8(wc)[3] = 128 + ((wc \div 64) % 64)
            /\ Utf8(wc)[4] = 128 + (wc % 64)
  <2>1. n = Width(wc) /\ wc \in Chars
    OBVIOUS
  <2> QED BY ONLY <2>1, Utf8Bytes, SMT
<1>1. n \in {1, 2, 3, 4}
  BY <1>0, <1>10, SMT
<1>2. at + 1 \in Nat \ {0} /\ n \in 1 .. 6 /\ at + 1 + n - 1 <= Len(utf8)
  BY <1>1
<1>3. PICK g \in [1 .. n -> Nat] :
        /\ CharOf(at + 1, n) = g[n]
        /\ g[1] = IF n = 1 THEN utf8[at + 1] ELSE utf8[at + 1] % 2^(7 - n)
        /\ \A k \in 2 .. n : g[k] = g[k - 1] * 64 + (utf8[at + 1 + k - 1] % 64)
  <2>1. utf8 \in Seq(Byte)
    OBVIOUS
  <2> QED BY ONLY <1>2, <2>1, CharOfIs, ZenonT(40)
<1>4. \A k \in 2 .. n : g[k] = g[k - 1] * 64 + (Utf8(wc)[k] % 64)
  <2> TAKE k \in 2 .. n
  <2>1. at + 1 + k - 1 = at + k /\ k \in 1 .. Width(wc)
    OBVIOUS
  <2>2. utf8[at + 1 + k - 1] = Utf8(wc)[k]
    BY <2>1
  <2> QED BY <1>3, <2>2
<1>5. g[1] = IF n = 1 THEN Utf8(wc)[1] ELSE Utf8(wc)[1] % 2^(7 - n)
  <2>1. utf8[at + 1] = Utf8(wc)[1]
    BY <1>1
  <2> QED BY <1>3, <2>1
<1>6. CASE n = 1
  <2>1. Utf8(wc)[1] = wc
    BY <1>0, <1>6, <1>10, SMT
  <2> QED BY <1>3, <1>5, <1>6, <2>1
<1>7. CASE n = 2
  <2>1. Utf8(wc)[1] = 192 + wc \div 64 /\ Utf8(wc)[2] = 128 + (wc % 64) /\ wc < 2048
    BY <1>0, <1>7, <1>10, SMT
  <2>2. g[2] = g[1] * 64 + (Utf8(wc)[2] % 64)
    BY <1>4, <1>7
  <2>3. g[1] = (192 + wc \div 64) % 32
    BY <1>5, <1>7, <2>1
  <2>4. g[2] = wc
    BY ONLY <1>0, <2>1, <2>2, <2>3
  <2> QED BY <1>3, <1>7, <2>4
<1>8. CASE n = 3
  <2>1. /\ Utf8(wc)[1] = 224 + wc \div 64^2 /\ Utf8(wc)[2] = 128 + ((wc \div 64) % 64)
        /\ Utf8(wc)[3] = 128 + (wc % 64) /\ wc < 2^16
    BY <1>0, <1>8, <1>10, SMT
  <2>2. g[2] = g[1] * 64 + (Utf8(wc)[2] % 64) /\ g[3] = g[2] * 64 + (Utf8(wc)[3] % 64)
    BY <1>4, <1>8
  <2>3. g[1] = (224 + wc \div 64^2) % 16
    BY <1>5, <1>8, <2>1
  <2>4. g[3] = wc
    BY ONLY <1>0, <2>1, <2>2, <2>3, SMTT(30)
  <2> QED BY <1>3, <1>8, <2>4
<1>9. CASE n = 4
  <2>1. /\ Utf8(wc)[1] = 240 + wc \div 64^3 /\ Utf8(wc)[2] = 128 + ((wc \div 64^2) % 64)
        /\ Utf8(wc)[3] = 128 + ((wc \div 64) % 64) /\ Utf8(wc)[4] = 128 + (wc % 64)
    BY <1>0, <1>9, <1>10, SMT
  <2>2. /\ g[2] = g[1] * 64 + (Utf8(wc)[2] % 64) /\ g[3] = g[2] * 64 + (Utf8(wc)[3] % 64)
        /\ g[4] = g[3] * 64 + (Utf8(wc)[4] % 64)
    BY <1>4, <1>9
  <2>3. g[1] = (240 + wc \div 64^3) % 8
    BY <1>5, <1>9, <2>1
  <2>4. (240 + wc \div 64^3) % 8 = wc \div 64^3
    BY ONLY <1>0, SMT
  <2>5. \A d \in Nat : (128 + (d % 64)) % 64 = d % 64
    BY SMT
  <2>6. /\ (wc \div 64^3) * 64 + ((wc \div 64^2) % 64) = wc \div 64^2
        /\ (wc \div 64^2) * 64 + ((wc \div 64) % 64) = wc \div 64
        /\ (wc \div 64) * 64 + (wc % 64) = wc
        /\ wc \div 64^2 \in Nat /\ wc \div 64 \in Nat
    BY ONLY <1>0, SMT
  <2>7. /\ Utf8(wc)[2] % 64 = (wc \div 64^2) % 64
        /\ Utf8(wc)[3] % 64 = (wc \div 64) % 64
        /\ Utf8(wc)[4] % 64 = wc % 64
    <3>1. /\ (128 + ((wc \div 64^2) % 64)) % 64 = (wc \div 64^2) % 64
          /\ (128 + ((wc \div 64) % 64)) % 64 = (wc \div 64) % 64
          /\ (128 + (wc % 64)) % 64 = wc % 64
      BY ONLY <1>0, <2>5, <2>6, ZenonT(30)
    <3> QED BY ONLY <2>1, <3>1, Zenon
  <2>8. g[2] = wc \div 64^2
    BY ONLY <2>2, <2>3, <2>4, <2>6, <2>7, ZenonT(30)
  <2>10. g[3] = wc \div 64
    BY ONLY <2>2, <2>6, <2>7, <2>8, Zenon
  <2>9. g[4] = wc
    BY ONLY <2>2, <2>6, <2>7, <2>10, Zenon
  <2> QED BY <1>3, <1>9, <2>9
<1> QED BY <1>1, <1>6, <1>7, <1>8, <1>9

LEMMA NeededBound == \A b : Needed(b) \in 0 .. 6
<1> TAKE b
<1> DEFINE Asks(n) == b \div 2^(7 - n) = 2^(n + 1) - 2
<1>1. Needed(b) = IF b < 2^7 THEN 1
                  ELSE IF \E n \in 2 .. 6 : Asks(n) THEN CHOOSE n \in 2 .. 6 : Asks(n) ELSE 0
  BY DEF Needed
<1> HIDE DEF Asks
<1>2. (\E n \in 2 .. 6 : Asks(n)) => (CHOOSE n \in 2 .. 6 : Asks(n)) \in 2 .. 6
  OBVIOUS
<1> QED BY <1>1, <1>2

LEMMA Utf16Units ==
    ASSUME NEW wc \in Nat
    PROVE  /\ Utf16(wc) \in Seq(CodeUnit)
           /\ wc < 2^16 => Utf16(wc) = <<wc>>
           /\ wc >= 2^16 =>
                Utf16(wc) = <<54 * 2^10 + (((wc - 2^16) \div 2^10) % 2^10),
                              55 * 2^10 + ((wc - 2^16) % 2^10)>>
<1>1. CASE wc < 2^16
  <2>1. wc \in CodeUnit /\ Utf16(wc) = <<wc>>
    BY <1>1 DEF CodeUnit, Utf16
  <2> QED BY <1>1, <2>1
<1>2. CASE wc >= 2^16
  <2> DEFINE high == 54 * 2^10 + (((wc - 2^16) \div 2^10) % 2^10)
             low == 55 * 2^10 + ((wc - 2^16) % 2^10)
  <2>1. Utf16(wc) = <<high, low>>
    BY <1>2 DEF Utf16
  <2>2. high \in CodeUnit /\ low \in CodeUnit
    BY <1>2 DEF CodeUnit
  <2>3. <<high, low>> \in Seq(CodeUnit)
    <3> HIDE DEF high, low
    <3> QED BY <2>2
  <2> QED BY <1>2, <2>1, <2>3
<1> QED BY <1>1, <1>2

-----------------------------------------------------------------------------
(* The way there and back                                                  *)

\* Unit i begins a character; the bytes of those up to n are in their places.
Starts(i) == ~(i > 1 /\ Paired(i - 1))
Taken(i) == IF Paired(i) THEN 2 ELSE 1

Written(Z, n) ==
    \A i \in 1 .. n : Starts(i) =>
        /\ ~Unpaired(i)
        /\ Z[i - 1] + Width(WideChar(i)) <= Len(utf8)
        /\ \A j \in 1 .. Width(WideChar(i)) : utf8[Z[i - 1] + j] = Utf8(WideChar(i))[j]

Sizes ==
    /\ name \in Seq(Unit) /\ Len(name) <= EXFAT_NAME_MAX
    /\ outsize \in Nat /\ EXFAT_NAME_MAX \in Nat

Encoding(Z) ==
    phase = "encode" =>
        /\ inp \in 0 .. Len(name) /\ Starts(inp + 1)
        /\ utf16 = <<>>
        /\ Len(utf8) = Z[inp]
        /\ Written(Z, inp)

Decoded(Z, p) ==
    /\ p \in 0 .. Len(name) /\ Starts(p + 1)
    /\ inp = Z[p]
    /\ Len(utf16) = p /\ \A k \in 1 .. p : utf16[k] = name[k]
    /\ phase = "done" => p = Len(name)

Decoding(Z) ==
    name # <<>> /\ phase \in {"decode", "done", "refused"} =>
        /\ phase # "refused"
        /\ Len(utf8) = Z[Len(name)]
        /\ Written(Z, Len(name))
        /\ \E p \in 0 .. Len(name) : Decoded(Z, p)

Failing(Z) ==
    /\ phase = "EILSEQ" => \E i \in DOMAIN name : Unpaired(i)
    /\ phase = "ENAMETOOLONG" => Z[Len(name)] > outsize

\* What each character adds to the sizes, and which units it is made of.
LEMMA OneCharacter ==
    ASSUME name \in Seq(Unit), NEW Z, IsSizes(Z),
           NEW i \in 1 .. Len(name), Starts(i), ~Unpaired(i)
    PROVE  /\ WideChar(i) \in Chars
           /\ Taken(i) \in {1, 2}
           /\ i - 1 + Taken(i) <= Len(name)
           /\ Z[i - 1 + Taken(i)] = Z[i - 1] + Width(WideChar(i))
           /\ Starts(i + Taken(i))
           /\ Utf16(WideChar(i)) =
                IF Paired(i) THEN <<name[i], name[i + 1]>> ELSE <<name[i]>>
<1>1. \A k \in 1 .. Len(name) : name[k] \in Nat /\ name[k] > 0 /\ name[k] < 2^16
  <2> TAKE k \in 1 .. Len(name)
  <2>1. name[k] \in Unit
    BY ElementOfSeq
  <2>2. \A u \in 0 .. 2^16 - 1 : u # 0 => u \in Nat /\ u > 0 /\ u < 2^16
    BY SMT
  <2> QED BY <2>1, <2>2, Zenon DEF Unit, CodeUnit
<1>2. Len(name) \in Nat /\ i \in Nat /\ i >= 1 /\ i <= Len(name)
  OBVIOUS
<1>3. \A u : (IsHigh(u) <=> u \div 2^10 = 54) /\ (IsLow(u) <=> u \div 2^10 = 55)
  BY DEF IsHigh, IsLow
<1>4. \A k \in 1 .. Len(name) : Z[k] = Z[k - 1] + UnitSize(k)
  BY DEF IsSizes
<1>5. \A k \in 0 .. Len(name) : Z[k] \in Nat
  BY DEF IsSizes
<1>6. CASE Paired(i)
  <2>1. /\ i < Len(name)
        /\ name[i] \div 2^10 = 54 /\ name[i + 1] \div 2^10 = 55
    BY <1>6, <1>3 DEF Paired
  <2>2. PICK h, l : h = name[i] /\ l = name[i + 1]
    OBVIOUS
  <2>3. h \in Nat /\ l \in Nat /\ h \div 2^10 = 54 /\ l \div 2^10 = 55
    BY <1>1, <1>2, <2>1, <2>2
  <2>4. PICK wc : wc = (h % 2^10) * 2^10 + (l % 2^10) + 2^16
    OBVIOUS
  <2>5. wc = WideChar(i)
    BY <1>6, <2>2, <2>4 DEF WideChar
  <2>6. wc \in Nat /\ wc >= 2^16 /\ wc < 2^21
    BY ONLY <2>3, <2>4
  <2>7. Width(wc) = 4
    BY <2>6, SMT DEF Width
  <2>8. ~Paired(i + 1) /\ Taken(i) = 2
    <3>1. l \div 2^10 # 54
      BY <2>3
    <3> QED BY <3>1, <2>2, <1>3, <1>6 DEF Paired, Taken
  <2>9. UnitSize(i) = 4 /\ UnitSize(i + 1) = 0
    <3>1. i + 1 > 1 /\ (i + 1) - 1 = i
      BY <1>2
    <3> QED BY <3>1, <1>6, <2>8 DEF UnitSize
  <2>10. Z[i + 1] = Z[i - 1] + 4
    <3> PICK k : k = i + 1
      OBVIOUS
    <3>1. k \in 1 .. Len(name) /\ k - 1 = i /\ i - 1 \in 0 .. Len(name)
      BY <1>2, <2>1
    <3>2. Z[k] = Z[i] + 0
      BY <1>4, <3>1, <2>9
    <3>3. Z[i] = Z[i - 1] + 4
      BY <1>4, <2>9
    <3>4. Z[i] \in Nat /\ Z[i - 1] \in Nat
      BY <1>5, <3>1, <1>2
    <3> QED BY <3>2, <3>3, <3>4
  <2>11. Starts(i + 2)
    <3>1. (i + 2) - 1 = i + 1
      BY <1>2
    <3> QED BY <2>8, <3>1 DEF Starts
  <2>12. Utf16(wc) = <<h, l>>
    <3>1. Utf16(wc) = <<54 * 2^10 + (((wc - 2^16) \div 2^10) % 2^10),
                        55 * 2^10 + ((wc - 2^16) % 2^10)>>
      BY <2>6, Utf16Units
    <3>2. /\ 54 * 2^10 + (((wc - 2^16) \div 2^10) % 2^10) = h
          /\ 55 * 2^10 + ((wc - 2^16) % 2^10) = l
      BY ONLY <2>3, <2>4
    <3> QED BY <3>1, <3>2
  <2>13. WideChar(i) \in Chars
    BY <2>5, <2>6 DEF Chars
  <2>14. i - 1 + Taken(i) = i + 1 /\ i + Taken(i) = i + 2 /\ i - 1 + Taken(i) <= Len(name)
    BY <2>8, <1>2, <2>1
  <2> QED BY <1>6, <2>2, <2>5, <2>7, <2>8, <2>10, <2>11, <2>12, <2>13, <2>14
<1>7. CASE ~Paired(i)
  <2>1. WideChar(i) = name[i] /\ Taken(i) = 1
    BY <1>7 DEF WideChar, Taken
  <2>2. name[i] \in Nat /\ name[i] > 0 /\ name[i] < 2^16
    BY <1>1
  <2>3. UnitSize(i) = IF name[i] < 128 THEN 1 ELSE IF name[i] < 2048 THEN 2 ELSE 3
    BY <1>7 DEF UnitSize, Starts
  <2>4. Width(name[i]) = UnitSize(i)
    BY <2>2, <2>3, SMT DEF Width
  <2>5. Z[i] = Z[i - 1] + UnitSize(i)
    BY <1>4
  <2>6. Starts(i + 1)
    <3>1. (i + 1) - 1 = i
      BY <1>2
    <3> QED BY <1>7, <3>1 DEF Starts
  <2>7. Utf16(name[i]) = <<name[i]>>
    BY <2>2, Utf16Units
  <2>8. name[i] \in Chars
    BY <2>2 DEF Chars
  <2>9. i - 1 + 1 = i /\ i <= Len(name)
    BY <1>2
  <2> QED BY <1>7, <2>1, <2>4, <2>5, <2>6, <2>7, <2>8, <2>9
<1> QED BY <1>6, <1>7

LEMMA SizesUnique ==
    ASSUME name \in Seq(Unit), NEW Y, NEW Z, IsSizes(Y), IsSizes(Z)
    PROVE  Y[Len(name)] = Z[Len(name)]
<1> PICK n : n = Len(name)
  OBVIOUS
<1> DEFINE S == {k \in Nat : k <= n => Y[k] = Z[k]}
<1>1. n \in Nat
  OBVIOUS
<1>2. /\ Y[0] = 0 /\ Z[0] = 0
      /\ \A k \in 1 .. n : Y[k] = Y[k - 1] + UnitSize(k) /\ Z[k] = Z[k - 1] + UnitSize(k)
  BY DEF IsSizes
<1>3. 0 \in S
  BY <1>2
<1>4. ASSUME NEW k \in Nat, k \in S PROVE k + 1 \in S
  <2> SUFFICES ASSUME k + 1 <= n PROVE Y[k + 1] = Z[k + 1]
    OBVIOUS
  <2>1. Y[k] = Z[k] /\ k + 1 \in 1 .. n /\ (k + 1) - 1 = k
    BY <1>1, <1>4
  <2> QED BY <1>2, <2>1
<1>5. n \in S
  <2> HIDE DEF S
  <2> QED BY <1>1, <1>3, <1>4, SetInduction
<1> QED BY <1>5, <1>1

Converts(Z) == Sizes /\ TypeOK /\ IsSizes(Z) /\ Encoding(Z) /\ Decoding(Z) /\ Failing(Z)

\* The input stays, and with it what it is taken for.
LEMMA InputStays ==
    ASSUME NEW Z, IsSizes(Z), Sizes, [Next]_vars
    PROVE  /\ name' = name /\ outsize' = outsize
           /\ IsSizes(Z)' /\ Sizes'
           /\ \A i : /\ Paired(i)' <=> Paired(i)
                     /\ Unpaired(i)' <=> Unpaired(i)
                     /\ Starts(i)' <=> Starts(i)
                     /\ WideChar(i)' = WideChar(i)
<1>1. name' = name /\ outsize' = outsize
  <2>1. CASE Encode
    BY <2>1 DEF Encode
  <2>2. CASE EncodeIllegal \/ EncodeTooLong \/ EncodeDone
    BY <2>2 DEF EncodeIllegal, EncodeTooLong, EncodeDone
  <2>3. CASE Decode
    BY <2>3 DEF Decode
  <2>4. CASE DecodeIllegal \/ DecodeTooLong \/ DecodeDone
    BY <2>4 DEF DecodeIllegal, DecodeTooLong, DecodeDone
  <2>5. CASE UNCHANGED vars
    BY <2>5 DEF vars
  <2> QED BY <2>1, <2>2, <2>3, <2>4, <2>5 DEF Next
<1>2. \A i : (Paired(i)' <=> Paired(i))
  BY <1>1 DEF Paired
<1>3. \A i : /\ Unpaired(i)' <=> Unpaired(i)
             /\ Starts(i)' <=> Starts(i)
  BY <1>1, <1>2 DEF Unpaired, Starts
<1>4. \A i : WideChar(i)' = WideChar(i)
  BY <1>1, <1>2 DEF WideChar
<1>5. \A i : UnitSize(i)' = UnitSize(i)
  BY <1>1, <1>2 DEF UnitSize
<1>6. IsSizes(Z)'
  BY <1>1, <1>5 DEF IsSizes
<1>7. Sizes'
  BY <1>1 DEF Sizes
<1> QED BY <1>1, <1>2, <1>3, <1>4, <1>6, <1>7

\* Where nothing has changed but what the rest of the step is about.
LEMMA WrittenStays ==
    ASSUME NEW Z, NEW n, Written(Z, n), utf8' = utf8, IsSizes(Z), Sizes, [Next]_vars
    PROVE  Written(Z, n)'
BY InputStays DEF Written

LEMMA EncodeStep ==
    ASSUME NEW Z, Converts(Z), Encode
    PROVE  Converts(Z)'
<1> DEFINE i == inp + 1
           wc == WideChar(i)
<1>1. /\ phase = "encode" /\ phase' = phase /\ inp < Len(name) /\ ~Unpaired(i)
      /\ utf8' = utf8 \o Utf8(wc) /\ utf16' = utf16
      /\ inp' = inp + Taken(i)
  BY DEF Encode, Taken
<1>2. /\ inp \in 0 .. Len(name) /\ Starts(i) /\ utf16 = <<>>
      /\ Len(utf8) = Z[inp] /\ Written(Z, inp)
  BY <1>1 DEF Converts, Encoding
<1>3. /\ name \in Seq(Unit) /\ IsSizes(Z) /\ Sizes /\ TypeOK
  BY DEF Converts, Sizes
<1>4. i \in 1 .. Len(name) /\ i - 1 = inp /\ inp \in Nat /\ Len(name) \in Nat
  BY <1>1, <1>2, <1>3
<1>5. /\ wc \in Chars /\ Taken(i) \in {1, 2}
      /\ i - 1 + Taken(i) <= Len(name)
      /\ Z[i - 1 + Taken(i)] = Z[i - 1] + Width(wc)
      /\ Starts(i + Taken(i))
  BY <1>1, <1>2, <1>3, <1>4, OneCharacter
<1>6. Utf8(wc) \in Seq(Byte) /\ Len(Utf8(wc)) = Width(wc) /\ Width(wc) \in 1 .. 6
  <2> HIDE DEF wc
  <2> QED BY <1>5, Utf8Bytes, WidthBound
<1>7. utf8 \in Seq(Byte) /\ utf16 \in Seq(CodeUnit)
  BY <1>3 DEF TypeOK
<1> HIDE DEF wc
<1>8. /\ utf8' \in Seq(Byte) /\ Len(utf8') = Len(utf8) + Width(wc)
      /\ \A k \in 1 .. Len(utf8) : utf8'[k] = utf8[k]
      /\ \A j \in 1 .. Width(wc) : utf8'[Len(utf8) + j] = Utf8(wc)[j]
  <2>1. /\ utf8' \in Seq(Byte) /\ Len(utf8') = Len(utf8) + Width(wc)
        /\ \A k \in 1 .. Len(utf8) + Width(wc) :
             utf8'[k] = IF k <= Len(utf8) THEN utf8[k] ELSE Utf8(wc)[k - Len(utf8)]
    BY <1>1, <1>6, <1>7, ConcatProperties, SMTT(30)
  <2>2. Len(utf8) \in Nat
    BY <1>7
  <2>3. ASSUME NEW j \in 1 .. Width(wc) PROVE utf8'[Len(utf8) + j] = Utf8(wc)[j]
    <3>1. /\ Len(utf8) + j \in 1 .. Len(utf8) + Width(wc) /\ ~(Len(utf8) + j <= Len(utf8))
          /\ (Len(utf8) + j) - Len(utf8) = j
      BY <2>2, <1>6
    <3> QED BY <2>1, <3>1
  <2>4. ASSUME NEW k \in 1 .. Len(utf8) PROVE utf8'[k] = utf8[k]
    <3>1. k \in 1 .. Len(utf8) + Width(wc) /\ k <= Len(utf8)
      BY <2>2, <1>6
    <3> QED BY <2>1, <3>1
  <2> QED BY <2>1, <2>3, <2>4
<1>9. /\ inp' \in 0 .. Len(name) /\ inp' = i - 1 + Taken(i) /\ inp' + 1 = i + Taken(i)
      /\ inp' \in Nat
  BY <1>1, <1>4, <1>5
<1>10. Len(utf8') = Z[inp'] /\ Starts(inp' + 1)
  BY <1>2, <1>4, <1>5, <1>8, <1>9
<1>11. /\ name' = name /\ outsize' = outsize /\ IsSizes(Z)' /\ Sizes'
       /\ \A k : /\ Unpaired(k)' <=> Unpaired(k)
                 /\ Starts(k)' <=> Starts(k)
                 /\ WideChar(k)' = WideChar(k)
  BY <1>3, InputStays DEF Next
<1>12. ASSUME NEW k \in 1 .. inp', Starts(k)
       PROVE  /\ ~Unpaired(k)
              /\ Z[k - 1] + Width(WideChar(k)) <= Len(utf8')
              /\ \A j \in 1 .. Width(WideChar(k)) :
                   utf8'[Z[k - 1] + j] = Utf8(WideChar(k))[j]
  <2>1. CASE k <= inp
    <3>1. /\ ~Unpaired(k)
          /\ Z[k - 1] + Width(WideChar(k)) <= Len(utf8)
          /\ \A j \in 1 .. Width(WideChar(k)) :
               utf8[Z[k - 1] + j] = Utf8(WideChar(k))[j]
      <4>1. k \in 1 .. inp
        BY <2>1, <1>4, <1>9
      <4> QED BY <1>2, <1>12, <4>1 DEF Written
    <3>2. k - 1 \in 0 .. Len(name)
      BY <2>1, <1>4, <1>9
    <3>3. Z[k - 1] \in Nat /\ Width(WideChar(k)) \in 1 .. 6 /\ Len(utf8) \in Nat
      <4>1. Z[k - 1] \in Nat
        BY <3>2, <1>3 DEF IsSizes
      <4> QED BY <4>1, <1>7, WidthBound
    <3>4. Z[k - 1] + Width(WideChar(k)) <= Len(utf8')
      BY <3>1, <3>3, <1>6, <1>8, SMTT(30)
    <3>5. ASSUME NEW j \in 1 .. Width(WideChar(k))
          PROVE  utf8'[Z[k - 1] + j] = Utf8(WideChar(k))[j]
      <4>1. Z[k - 1] + j \in 1 .. Len(utf8)
        BY <3>1, <3>3, SMTT(30)
      <4> QED BY <3>1, <4>1, <1>8
    <3> QED BY <3>1, <3>4, <3>5
  <2>2. CASE k = i
    <3>1. Z[k - 1] = Len(utf8) /\ WideChar(k) = wc /\ ~Unpaired(k)
      BY <2>2, <1>1, <1>2, <1>4 DEF wc
    <3>2. Len(utf8) \in Nat
      BY <1>7
    <3> QED BY <3>1, <3>2, <1>6, <1>8
  <2>3. CASE k > i
    <3>1. k = i + 1 /\ Taken(i) = 2
      BY <2>3, <1>4, <1>5, <1>9
    <3>2. Paired(i) /\ k - 1 = i /\ k > 1
      BY <3>1, <1>4 DEF Taken
    <3> QED BY <3>2, <1>12 DEF Starts
  <2> QED BY <2>1, <2>2, <2>3, <1>4, <1>9
<1>13. Written(Z, inp)'
  BY <1>11, <1>12 DEF Written
<1>14. Encoding(Z)'
  BY <1>2, <1>1, <1>9, <1>10, <1>11, <1>13 DEF Encoding
<1>15. Decoding(Z)' /\ Failing(Z)'
  BY <1>1 DEF Decoding, Failing
<1>16. TypeOK'
  BY <1>1, <1>3, <1>8, <1>9 DEF TypeOK
<1> QED BY <1>11, <1>14, <1>15, <1>16 DEF Converts

LEMMA EncodeIllegalStep ==
    ASSUME NEW Z, Converts(Z), EncodeIllegal
    PROVE  Converts(Z)'
<1>1. /\ phase = "encode" /\ phase' = "EILSEQ" /\ inp < Len(name) /\ Unpaired(inp + 1)
      /\ UNCHANGED <<utf8, utf16, inp>>
  BY DEF EncodeIllegal
<1>2. /\ name \in Seq(Unit) /\ IsSizes(Z) /\ Sizes /\ TypeOK /\ inp \in 0 .. Len(name)
  BY <1>1 DEF Converts, Sizes, Encoding
<1>3. /\ name' = name /\ IsSizes(Z)' /\ Sizes' /\ \A k : Unpaired(k)' <=> Unpaired(k)
  BY <1>2, InputStays DEF Next
<1>4. inp + 1 \in DOMAIN name
  BY <1>1, <1>2
<1>5. Failing(Z)'
  BY <1>1, <1>3, <1>4 DEF Failing
<1>6. Encoding(Z)' /\ Decoding(Z)' /\ TypeOK'
  BY <1>1, <1>2 DEF Encoding, Decoding, TypeOK
<1> QED BY <1>3, <1>5, <1>6 DEF Converts

LEMMA EncodeTooLongStep ==
    ASSUME NEW Z, Converts(Z), EncodeTooLong
    PROVE  Converts(Z)'
<1> DEFINE i == inp + 1
<1>1. /\ phase = "encode" /\ phase' = "ENAMETOOLONG" /\ inp < Len(name) /\ ~Unpaired(i)
      /\ Width(WideChar(i)) > outsize - Len(utf8)
      /\ UNCHANGED <<utf8, utf16, inp>>
  BY DEF EncodeTooLong
<1>2. /\ name \in Seq(Unit) /\ IsSizes(Z) /\ Sizes /\ TypeOK /\ inp \in 0 .. Len(name)
      /\ Starts(i) /\ Len(utf8) = Z[inp] /\ outsize \in Nat
  BY <1>1 DEF Converts, Sizes, Encoding
<1>3. /\ name' = name /\ outsize' = outsize /\ IsSizes(Z)' /\ Sizes'
  BY <1>2, InputStays DEF Next
<1>4. i \in 1 .. Len(name) /\ i - 1 = inp /\ Len(name) \in Nat
  BY <1>1, <1>2
<1>5. /\ Taken(i) \in {1, 2} /\ i - 1 + Taken(i) <= Len(name)
      /\ Z[i - 1 + Taken(i)] = Z[i - 1] + Width(WideChar(i))
  BY <1>1, <1>2, <1>4, OneCharacter
<1> PICK m : m = i - 1 + Taken(i)
  OBVIOUS
<1>6. m \in 0 .. Len(name) /\ Len(name) \in m .. Len(name)
  BY <1>4, <1>5
<1>7. Z[m] <= Z[Len(name)]
  BY <1>2, <1>6, SizesGrow
<1>8. Z[m] = Len(utf8) + Width(WideChar(i))
  BY <1>2, <1>4, <1>5
<1>9. Z[m] \in Nat /\ Z[Len(name)] \in Nat /\ Width(WideChar(i)) \in 1 .. 6
  <2>1. \A k \in 0 .. Len(name) : Z[k] \in Nat
    BY <1>2 DEF IsSizes
  <2>2. Len(name) \in 0 .. Len(name)
    BY <1>4
  <2> QED BY <1>6, <2>1, <2>2, WidthBound
<1>10. Len(utf8) \in Nat
  BY <1>2 DEF TypeOK
<1>11. Z[Len(name)] > outsize
  <2>1. /\ Width(WideChar(i)) > outsize - Len(utf8) /\ outsize \in Nat
        /\ Z[m] <= Z[Len(name)] /\ Z[m] = Len(utf8) + Width(WideChar(i))
        /\ Z[m] \in Nat /\ Z[Len(name)] \in Nat /\ Width(WideChar(i)) \in Nat
        /\ Len(utf8) \in Nat
    BY <1>1, <1>2, <1>7, <1>8, <1>9, <1>10
  <2> QED BY ONLY <2>1
<1>12. Failing(Z)'
  BY <1>1, <1>3, <1>11 DEF Failing
<1>13. Encoding(Z)' /\ Decoding(Z)' /\ TypeOK'
  BY <1>1, <1>2 DEF Encoding, Decoding, TypeOK
<1> QED BY <1>3, <1>12, <1>13 DEF Converts

LEMMA EncodeDoneStep ==
    ASSUME NEW Z, Converts(Z), EncodeDone
    PROVE  Converts(Z)'
<1>1. /\ phase = "encode" /\ phase' = "decode" /\ inp = Len(name) /\ inp' = 0
      /\ UNCHANGED <<utf8, utf16>>
  BY DEF EncodeDone
<1>2. /\ name \in Seq(Unit) /\ IsSizes(Z) /\ Sizes /\ TypeOK
      /\ utf16 = <<>> /\ Len(utf8) = Z[inp] /\ Written(Z, inp)
  BY <1>1 DEF Converts, Sizes, Encoding
<1>3. /\ name' = name /\ IsSizes(Z)' /\ Sizes'
      /\ \A k : /\ Unpaired(k)' <=> Unpaired(k)
                /\ Starts(k)' <=> Starts(k)
                /\ WideChar(k)' = WideChar(k)
  BY <1>2, InputStays DEF Next
<1>4. Written(Z, Len(name))'
  <2>1. Written(Z, Len(name))
    BY <1>1, <1>2
  <2> QED BY <1>1, <1>3, <2>1 DEF Written
<1>5. Decoded(Z, 0)'
  <2>1. Z[0] = 0 /\ Len(name) \in Nat
    BY <1>2 DEF IsSizes
  <2>2. Len(<<>>) = 0
    OBVIOUS
  <2>3. Starts(1)'
    BY DEF Starts
  <2> QED BY <1>1, <1>2, <1>3, <2>1, <2>2, <2>3 DEF Decoded
<1>6. Decoding(Z)'
  <2>1. 0 \in 0 .. Len(name)
    BY <1>2
  <2>2. Len(utf8') = Z[Len(name')]
    BY <1>1, <1>2, <1>3
  <2> QED BY <1>1, <1>3, <1>4, <1>5, <2>1, <2>2 DEF Decoding
<1>7. Encoding(Z)' /\ Failing(Z)' /\ TypeOK'
  BY <1>1, <1>2 DEF Encoding, Failing, TypeOK
<1> QED BY <1>3, <1>6, <1>7 DEF Converts

\* What utf8_to_wchar finds where a character of the name begins.
LEMMA Reading ==
    ASSUME NEW Z, Converts(Z), phase = "decode", name # <<>>, inp < Len(utf8),
           NEW p, Decoded(Z, p)
    PROVE  LET i == p + 1
           IN  /\ i \in 1 .. Len(name) /\ Starts(i) /\ ~Unpaired(i)
               /\ N = Width(WideChar(i)) /\ CanTake
               /\ CharOf(inp + 1, N) = WideChar(i)
<1> DEFINE i == p + 1
<1>1. /\ name \in Seq(Unit) /\ IsSizes(Z) /\ TypeOK
      /\ Len(utf8) = Z[Len(name)] /\ Written(Z, Len(name))
  BY DEF Converts, Sizes, Decoding
<1>2. p \in 0 .. Len(name) /\ Starts(i) /\ inp = Z[p]
  BY DEF Decoded
<1>3. p # Len(name)
  <2>1. p = Len(name) => inp = Len(utf8)
    BY <1>1, <1>2
  <2>2. Len(utf8) \in Nat
    BY <1>1 DEF TypeOK
  <2> QED BY <2>1, <2>2
<1>4. i \in 1 .. Len(name) /\ i - 1 = p
  BY <1>1, <1>2, <1>3
<1>5. /\ ~Unpaired(i)
      /\ inp + Width(WideChar(i)) <= Len(utf8)
      /\ \A j \in 1 .. Width(WideChar(i)) : utf8[inp + j] = Utf8(WideChar(i))[j]
  BY <1>1, <1>2, <1>4 DEF Written
<1>6. WideChar(i) \in Chars
  BY <1>1, <1>2, <1>4, <1>5, OneCharacter
<1> PICK wc : wc = WideChar(i)
  OBVIOUS
<1>7. Width(wc) \in 1 .. 6 /\ inp \in Nat /\ utf8 \in Seq(Byte)
  BY <1>1, WidthBound DEF TypeOK
<1>8. N = Width(wc)
  <2>1. utf8[inp + 1] = Utf8(wc)[1]
    BY <1>5, <1>7
  <2> QED BY <2>1, <1>6, LeadByte DEF N
<1>9. CharOf(inp + 1, Width(wc)) = wc
  BY <1>5, <1>6, <1>7, CharBack
<1>10. CanTake
  <2>1. Len(utf8) \in Nat
    BY <1>7
  <2> QED BY <2>1, <1>5, <1>7, <1>8 DEF CanTake
<1> QED BY <1>2, <1>4, <1>5, <1>8, <1>9, <1>10

LEMMA DecodeStep ==
    ASSUME NEW Z, Converts(Z), Decode
    PROVE  Converts(Z)'
<1> DEFINE units == Utf16(CharOf(inp + 1, N))
<1>1. /\ phase = "decode" /\ phase' = phase /\ inp < Len(utf8) /\ CanTake
      /\ utf16' = utf16 \o units
      /\ inp' = inp + N /\ utf8' = utf8
  BY DEF Decode
<1>2. /\ name \in Seq(Unit) /\ IsSizes(Z) /\ Sizes /\ TypeOK
  BY DEF Converts, Sizes
<1>3. /\ name' = name /\ IsSizes(Z)' /\ Sizes'
      /\ \A k : /\ Unpaired(k)' <=> Unpaired(k)
                /\ Starts(k)' <=> Starts(k)
                /\ WideChar(k)' = WideChar(k)
  BY <1>2, InputStays DEF Next
<1>4. /\ inp \in Nat /\ utf8 \in Seq(Byte) /\ utf16 \in Seq(CodeUnit) /\ Len(utf8) \in Nat
  BY <1>2 DEF TypeOK
<1>5. N \in 1 .. 6 /\ inp + 1 + N - 1 <= Len(utf8)
  <2>1. N \in 0 .. 6
    BY NeededBound DEF N
  <2> QED BY <2>1, <1>1, <1>4 DEF CanTake
<1>6. units \in Seq(CodeUnit)
  <2> PICK c : c = CharOf(inp + 1, N)
    OBVIOUS
  <2>1. c \in Nat
    <3>1. inp + 1 \in Nat \ {0}
      BY <1>4
    <3> PICK n : n = N
      OBVIOUS
    <3>2. n \in 1 .. 6 /\ (inp + 1) + n - 1 <= Len(utf8)
      BY <1>4, <1>5
    <3> PICK i : i = inp + 1
      OBVIOUS
    <3>3. /\ utf8 \in Seq(Byte) /\ i \in Nat \ {0} /\ n \in 1 .. 6
          /\ i + n - 1 <= Len(utf8)
      BY <1>4, <3>1, <3>2
    <3>4. CharOf(i, n) \in Nat
      BY ONLY <3>3, CharOfNat
    <3> QED BY <3>4
  <2>2. Utf16(c) \in Seq(CodeUnit)
    BY <2>1, Utf16Units
  <2> QED BY <2>2
<1> HIDE DEF units
<1>7. TypeOK'
  <2>1. utf16' \in Seq(CodeUnit) /\ inp' \in Nat
    BY <1>1, <1>4, <1>5, <1>6, ConcatProperties
  <2> QED BY <2>1, <1>1, <1>2 DEF TypeOK
<1>8. ASSUME name # <<>>
      PROVE  \E p \in 0 .. Len(name) : Decoded(Z, p)'
  <2> PICK p \in 0 .. Len(name) : Decoded(Z, p)
    BY <1>1, <1>8 DEF Converts, Decoding
  <2> PICK i : i = p + 1
    OBVIOUS
  <2>1. /\ i \in 1 .. Len(name) /\ Starts(i) /\ ~Unpaired(i)
        /\ N = Width(WideChar(i))
        /\ CharOf(inp + 1, N) = WideChar(i)
    BY <1>1, <1>8, Reading
  <2>2. /\ inp = Z[p] /\ Len(utf16) = p /\ \A k \in 1 .. p : utf16[k] = name[k]
    BY DEF Decoded
  <2>3. /\ Taken(i) \in {1, 2} /\ i - 1 + Taken(i) <= Len(name)
        /\ Z[i - 1 + Taken(i)] = Z[i - 1] + Width(WideChar(i))
        /\ Starts(i + Taken(i))
        /\ units = IF Paired(i) THEN <<name[i], name[i + 1]>> ELSE <<name[i]>>
    BY <1>2, <2>1, OneCharacter DEF units
  <2> PICK q : q = p + Taken(i)
    OBVIOUS
  <2>4. /\ q \in 0 .. Len(name) /\ i - 1 = p /\ i - 1 + Taken(i) = q /\ i + Taken(i) = q + 1
        /\ p \in Nat /\ Len(name) \in Nat
    BY <1>2, <2>3
  <2>5. Z[q] = inp' /\ Starts(q + 1)
    BY <1>1, <2>1, <2>2, <2>3, <2>4
  <2>6. Len(utf16') = q /\ \A k \in 1 .. q : utf16'[k] = name[k]
    <3>1. /\ Len(utf16') = Len(utf16) + Len(units)
          /\ \A k \in 1 .. Len(utf16) + Len(units) :
               utf16'[k] = IF k <= Len(utf16) THEN utf16[k] ELSE units[k - Len(utf16)]
      BY <1>1, <1>4, <1>6, ConcatProperties
    <3>2. Len(units) = Taken(i) /\ \A j \in 1 .. Taken(i) : units[j] = name[p + j]
      <4>1. CASE Paired(i)
        <5>1. units = <<name[p + 1], name[p + 2]>> /\ Taken(i) = 2
          BY <4>1, <2>3, <2>4 DEF Taken
        <5>2. \A j \in 1 .. 2 : j = 1 \/ j = 2
          OBVIOUS
        <5> QED BY <5>1, <5>2
      <4>2. CASE ~Paired(i)
        <5>1. units = <<name[p + 1]>> /\ Taken(i) = 1
          BY <4>2, <2>3 DEF Taken
        <5>2. \A j \in 1 .. 1 : j = 1
          OBVIOUS
        <5> QED BY <5>1, <5>2
      <4> QED BY <4>1, <4>2
    <3>3. Len(utf16') = q
      BY <2>2, <3>1, <3>2
    <3>4. ASSUME NEW k \in 1 .. q PROVE utf16'[k] = name[k]
      <4>1. CASE k <= p
        <5>1. k \in 1 .. p /\ k \in 1 .. Len(utf16) + Len(units) /\ k <= Len(utf16)
          BY <4>1, <2>2, <2>3, <2>4, <3>2
        <5> QED BY <5>1, <2>2, <3>1
      <4>2. CASE k > p
        <5> PICK j : j = k - p
          OBVIOUS
        <5>1. /\ j \in 1 .. Taken(i) /\ p + j = k /\ k - Len(utf16) = j
              /\ k \in 1 .. Len(utf16) + Len(units) /\ ~(k <= Len(utf16))
          BY <4>2, <2>2, <2>3, <2>4, <3>2
        <5>2. utf16'[k] = units[j]
          BY <3>1, <5>1
        <5> QED BY <5>1, <5>2, <3>2
      <4> QED BY <4>1, <4>2, <2>4
    <3> QED BY <3>3, <3>4
  <2>7. Decoded(Z, q)'
    BY <1>1, <1>3, <2>4, <2>5, <2>6 DEF Decoded
  <2> QED BY <2>4, <2>7
<1>9. Decoding(Z)'
  <2>1. ASSUME name # <<>>
        PROVE  /\ Len(utf8)' = Z[Len(name)'] /\ Written(Z, Len(name))'
    <3>1. Len(utf8) = Z[Len(name)] /\ Written(Z, Len(name))
      BY <1>1, <2>1 DEF Converts, Decoding
    <3> QED BY <1>1, <1>3, <3>1 DEF Written
  <2> QED BY <1>1, <1>3, <1>8, <2>1 DEF Decoding
<1>10. Encoding(Z)' /\ Failing(Z)'
  BY <1>1 DEF Encoding, Failing
<1> QED BY <1>3, <1>7, <1>9, <1>10 DEF Converts

LEMMA DecodeEnds ==
    ASSUME NEW Z, Converts(Z), DecodeIllegal \/ DecodeTooLong \/ DecodeDone
    PROVE  Converts(Z)'
<1>1. /\ phase = "decode" /\ phase' \in {"done", "refused"}
      /\ UNCHANGED <<inp, utf8, utf16>>
  BY DEF DecodeIllegal, DecodeTooLong, DecodeDone
<1>2. /\ name \in Seq(Unit) /\ IsSizes(Z) /\ Sizes /\ TypeOK
  BY DEF Converts, Sizes
<1>3. /\ name' = name /\ IsSizes(Z)' /\ Sizes'
      /\ \A k : /\ Unpaired(k)' <=> Unpaired(k)
                /\ Starts(k)' <=> Starts(k)
                /\ WideChar(k)' = WideChar(k)
  BY <1>2, InputStays DEF Next
<1>4. ASSUME name # <<>> PROVE Decoding(Z)'
  <2>1. /\ Len(utf8) = Z[Len(name)] /\ Written(Z, Len(name))
    BY <1>1, <1>4 DEF Converts, Decoding
  <2> PICK p \in 0 .. Len(name) : Decoded(Z, p)
    BY <1>1, <1>4 DEF Converts, Decoding
  <2> PICK i : i = p + 1
    OBVIOUS
  <2>2. /\ inp = Z[p] /\ Len(utf16) = p /\ Starts(i)
    BY DEF Decoded
  <2>3. /\ i - 1 = p /\ p \in Nat /\ Len(name) \in Nat
    BY <1>2
  <2>4. ASSUME inp < Len(utf8)
        PROVE  CanTake /\ ~(Len(Utf16(CharOf(inp + 1, N))) > EXFAT_NAME_MAX - Len(utf16))
    <3>1. /\ i \in 1 .. Len(name) /\ Starts(i) /\ ~Unpaired(i) /\ CanTake
          /\ CharOf(inp + 1, N) = WideChar(i)
      BY <1>1, <1>4, <2>4, Reading
    <3>2. /\ Taken(i) \in {1, 2} /\ i - 1 + Taken(i) <= Len(name)
          /\ Utf16(WideChar(i)) = IF Paired(i) THEN <<name[i], name[i + 1]>> ELSE <<name[i]>>
      BY <1>2, <3>1, OneCharacter
    <3>3. Len(Utf16(WideChar(i))) = Taken(i)
      <4>1. CASE Paired(i)
        <5>1. Utf16(WideChar(i)) = <<name[i], name[i + 1]>> /\ Taken(i) = 2
          BY <3>2, <4>1 DEF Taken
        <5> QED BY <5>1
      <4>2. CASE ~Paired(i)
        <5>1. Utf16(WideChar(i)) = <<name[i]>> /\ Taken(i) = 1
          BY <3>2, <4>2 DEF Taken
        <5> QED BY <5>1
      <4> QED BY <4>1, <4>2
    <3>4. Len(name) <= EXFAT_NAME_MAX /\ EXFAT_NAME_MAX \in Nat
      BY <1>2 DEF Sizes
    <3>5. Taken(i) <= EXFAT_NAME_MAX - Len(utf16)
      BY <2>2, <2>3, <3>2, <3>4
    <3>6. Len(Utf16(CharOf(inp + 1, N))) = Taken(i)
      BY <3>1, <3>3
    <3>7. EXFAT_NAME_MAX - Len(utf16) \in Int
      BY <2>2, <2>3, <3>4
    <3> QED BY <3>1, <3>2, <3>5, <3>6, <3>7
  <2>5. DecodeDone
    <3>1. ~DecodeIllegal
      BY <2>4 DEF DecodeIllegal
    <3>2. ~DecodeTooLong
      BY <2>4 DEF DecodeTooLong
    <3> QED BY <3>1, <3>2
  <2>6. phase' = "done" /\ inp = Len(utf8)
    BY <2>5 DEF DecodeDone
  <2>7. p = Len(name)
    <3> SUFFICES ASSUME p # Len(name) PROVE FALSE
      OBVIOUS
    <3>1. i \in 1 .. Len(name)
      BY <2>3
    <3>2. Z[p] + Width(WideChar(i)) <= Len(utf8)
      BY <2>1, <2>2, <2>3, <3>1 DEF Written
    <3>3. Width(WideChar(i)) \in 1 .. 6 /\ Len(utf8) \in Nat
      BY <1>2, WidthBound DEF TypeOK
    <3> QED BY <2>2, <2>6, <3>2, <3>3
  <2>8. Decoded(Z, p)'
    <3>1. Starts(p + 1)'
      BY <1>3, <2>2
    <3>2. \A k \in 1 .. p : utf16[k] = name[k]
      BY DEF Decoded
    <3> QED BY <1>1, <1>3, <2>2, <2>7, <3>1, <3>2 DEF Decoded
  <2>9. Written(Z, Len(name))'
    BY <1>1, <1>3, <2>1 DEF Written
  <2> QED BY <1>1, <1>3, <2>1, <2>6, <2>8, <2>9 DEF Decoding
<1>5. Decoding(Z)'
  BY <1>3, <1>4 DEF Decoding
<1>6. Encoding(Z)' /\ Failing(Z)' /\ TypeOK'
  BY <1>1, <1>2 DEF Encoding, Failing, TypeOK
<1> QED BY <1>3, <1>5, <1>6 DEF Converts

ConvertsSoFar == \E Z : Converts(Z)

LEMMA StepConverts == ConvertsSoFar /\ [Next]_vars => ConvertsSoFar'
<1> SUFFICES ASSUME ConvertsSoFar, [Next]_vars PROVE ConvertsSoFar'
  OBVIOUS
<1> PICK Z : Converts(Z)
  BY DEF ConvertsSoFar
<1>1. CASE UNCHANGED vars
  <2>1. /\ name \in Seq(Unit) /\ IsSizes(Z) /\ Sizes /\ TypeOK /\ Encoding(Z) /\ Decoding(Z)
        /\ Failing(Z)
    BY DEF Converts, Sizes
  <2>2. UNCHANGED <<phase, name, outsize, inp, utf8, utf16>>
    BY <1>1 DEF vars
  <2>3. IsSizes(Z)' /\ Sizes'
        /\ \A k : /\ Unpaired(k)' <=> Unpaired(k)
                  /\ Starts(k)' <=> Starts(k)
                  /\ WideChar(k)' = WideChar(k)
    BY <2>1, InputStays
  <2>4. TypeOK'
    BY <2>1, <2>2 DEF TypeOK
  <2>5. \A n : Written(Z, n)' <=> Written(Z, n)
    BY <2>2, <2>3 DEF Written
  <2>6. Encoding(Z)'
    BY <2>1, <2>2, <2>3, <2>5 DEF Encoding
  <2>7. \A p : Decoded(Z, p)' <=> Decoded(Z, p)
    BY <2>2, <2>3 DEF Decoded
  <2>8. Decoding(Z)'
    BY <2>1, <2>2, <2>5, <2>7 DEF Decoding
  <2>9. Failing(Z)'
    BY <2>1, <2>2, <2>3 DEF Failing
  <2>10. Converts(Z)'
    BY <2>3, <2>4, <2>6, <2>8, <2>9 DEF Converts
  <2> QED BY <2>10 DEF ConvertsSoFar
<1>2. CASE Next
  <2>1. Converts(Z)'
    BY <1>2, EncodeStep, EncodeIllegalStep, EncodeTooLongStep, EncodeDoneStep,
       DecodeStep, DecodeEnds DEF Next
  <2> QED BY <2>1 DEF ConvertsSoFar
<1> QED BY <1>1, <1>2

LEMMA InitConverts == Init => ConvertsSoFar
<1> SUFFICES ASSUME Init PROVE ConvertsSoFar
  OBVIOUS
<1>1. EXFAT_NAME_MAX \in Nat /\ outsize \in Nat /\ inp = 0 /\ utf16 = <<>>
  BY NamesAssumption DEF Init
<1>2. \/ phase = "encode" /\ name \in Names /\ utf8 = <<>>
      \/ phase = "decode" /\ name = <<>> /\ utf8 \in Strings
  BY DEF Init
<1>3. name \in Seq(Unit) /\ Len(name) <= EXFAT_NAME_MAX
  <2>1. CASE name \in Names
    BY <2>1, NamesAssumption DEF Unit
  <2>2. CASE name = <<>>
    <3>1. <<>> \in Seq(Unit) /\ Len(<<>>) = 0
      BY EmptySeq
    <3> QED BY <1>1, <2>2, <3>1
  <2> QED BY <1>2, <2>1, <2>2
<1>4. utf8 \in Seq(Byte)
  <2>1. CASE utf8 = <<>>
    BY <2>1, EmptySeq
  <2>2. CASE utf8 \in Strings
    <3>1. utf8 \in Seq(Byte \ {0})
      BY <2>2, NamesAssumption
    <3> QED BY <3>1
  <2> QED BY <1>2, <2>1, <2>2
<1> PICK Z : Z = SizeUpto
  OBVIOUS
<1>5. IsSizes(Z)
  BY <1>3, SizesAre
<1>6. Sizes
  BY <1>1, <1>3 DEF Sizes
<1>7. TypeOK
  <2>1. utf16 \in Seq(CodeUnit)
    BY <1>1, EmptySeq
  <2> QED BY <1>1, <1>2, <1>4, <2>1 DEF TypeOK
<1>8. Encoding(Z)
  <2> SUFFICES ASSUME phase = "encode"
               PROVE  /\ inp \in 0 .. Len(name) /\ Starts(inp + 1) /\ utf16 = <<>>
                      /\ Len(utf8) = Z[inp] /\ Written(Z, inp)
    BY DEF Encoding
  <2>1. utf8 = <<>>
    BY <1>2
  <2>2. Len(<<>>) = 0
    BY EmptySeq
  <2>3. Z[0] = 0
    BY <1>5 DEF IsSizes
  <2>4. Starts(1)
    BY DEF Starts
  <2>5. 0 \in 0 .. Len(name)
    BY <1>3
  <2>6. Written(Z, 0)
    BY DEF Written
  <2> QED BY <1>1, <2>1, <2>2, <2>3, <2>4, <2>5, <2>6
<1>9. Decoding(Z) /\ Failing(Z)
  BY <1>2 DEF Decoding, Failing
<1> QED BY <1>5, <1>6, <1>7, <1>8, <1>9 DEF Converts, ConvertsSoFar

LEMMA ConvertsExactly == ConvertsSoFar => ConversionExact
<1> SUFFICES ASSUME ConvertsSoFar PROVE ConversionExact
  OBVIOUS
<1> PICK Z : Converts(Z)
  BY DEF ConvertsSoFar
<1>1. /\ name \in Seq(Unit) /\ IsSizes(Z) /\ TypeOK /\ Decoding(Z) /\ Failing(Z)
  BY DEF Converts, Sizes
<1>2. RoundTrip
  <2> SUFFICES ASSUME name # <<>>
               PROVE  phase # "refused" /\ (phase = "done" => utf16 = name)
    BY DEF RoundTrip
  <2>1. phase # "refused"
    BY <1>1 DEF Decoding
  <2>2. ASSUME phase = "done" PROVE utf16 = name
    <3> PICK p \in 0 .. Len(name) : Decoded(Z, p)
      BY <1>1, <2>2 DEF Decoding
    <3>1. /\ p = Len(name) /\ Len(utf16) = p /\ \A k \in 1 .. p : utf16[k] = name[k]
      BY <2>2 DEF Decoded
    <3>2. utf16 \in Seq(CodeUnit)
      BY <1>1 DEF TypeOK
    <3> QED BY <1>1, <3>1, <3>2, SeqEqual
  <2> QED BY <2>1, <2>2
<1>3. FailsOnlyIfItMust
  <2>1. Z[Len(name)] = StandardSize
    BY <1>1, SizesAre, SizesUnique DEF StandardSize
  <2> QED BY <1>1, <2>1 DEF Failing, FailsOnlyIfItMust
<1> QED BY <1>1, <1>2, <1>3 DEF ConversionExact

\* A name that is converted and converted back is the same name, for every
\* name: no character is lost, and none fails that could be converted.
THEOREM ConversionIsExact == Spec => []ConversionExact
BY InitConverts, StepConverts, ConvertsExactly, PTL DEF Spec
=============================================================================
