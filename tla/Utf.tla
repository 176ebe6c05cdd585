-------------------------------- MODULE Utf --------------------------------
(***************************************************************************)
(* The conversions of libexfat/utf.c between the UTF-16 names of the medium*)
(* and UTF-8.  exfat_get_name converts every name bbcp lists, and takes a  *)
(* conversion that fails for a bug of its own: it calls exfat_bug.         *)
(*                                                                         *)
(* A behaviour converts a name to UTF-8 and the result back, as a name that*)
(* is listed and then looked up; or it looks up any string of bytes.       *)
(***************************************************************************)
EXTENDS Integers, Sequences

CONSTANTS
    Names,              \* sequences of UTF-16 code units, up to the NUL
    Strings,            \* sequences of bytes, up to the NUL
    OutSizes,           \* what callers of exfat_get_name pass as its size
    EXFAT_NAME_MAX

CodeUnit == 0 .. 2^16 - 1
Byte == 0 .. 2^8 - 1

ASSUME NamesAssumption ==
    /\ EXFAT_NAME_MAX \in Nat \ {0}
    /\ \A s \in Names : s \in Seq(CodeUnit \ {0}) /\ Len(s) <= EXFAT_NAME_MAX
    /\ \A s \in Strings : s \in Seq(Byte \ {0})
    /\ OutSizes \subseteq Nat

VARIABLES
    phase,      \* "encode", "decode", "done"; "EILSEQ", "ENAMETOOLONG" from
                \* utf16_to_utf8, "refused" from utf8_to_utf16
    name,       \* the input of utf16_to_utf8
    outsize,
    inp,        \* how much of the input has been taken
    utf8,       \* the output of utf16_to_utf8, the input of utf8_to_utf16
    utf16       \* the output of utf8_to_utf16

vars == <<phase, name, outsize, inp, utf8, utf16>>

UTF8_BYTES_BMP(c) == c * 2                                      \* mutant

UTF8_BYTES(c) == c * 6

Init ==
    /\ outsize \in OutSizes
    /\ inp = 0 /\ utf16 = <<>>
    /\ \/ phase = "encode" /\ name \in Names /\ utf8 = <<>>
       \/ phase = "decode" /\ name = <<>> /\ utf8 \in Strings

-----------------------------------------------------------------------------
(* utf16_to_utf8                                                           *)

IsHigh(u) == u \div 2^10 = 54       \* (u & 0xfc00) == 0xd800
IsLow(u) == u \div 2^10 = 55        \* (u & 0xfc00) == 0xdc00

\* Whether utf16_to_wchar takes two units at i, whether it fails there, and
\* the character it makes of them.
Paired(i) == IsHigh(name[i]) /\ i < Len(name) /\ IsLow(name[i + 1])
Unpaired(i) == IsHigh(name[i]) /\ ~Paired(i)

WideCharNoOffset(i) ==                                          \* mutant
    IF Paired(i) THEN (name[i] % 2^10) * 2^10 + (name[i + 1] % 2^10)
    ELSE name[i]

WideChar(i) ==
    IF Paired(i) THEN (name[i] % 2^10) * 2^10 + (name[i + 1] % 2^10) + 2^16
    ELSE name[i]

\* wchar_to_utf8: the bytes for wc, six bits to each byte after the first.
Width(wc) ==
    IF wc < 2^7 THEN 1
    ELSE IF wc < 2^11 THEN 2
    ELSE IF wc < 2^16 THEN 3
    ELSE IF wc < 2^21 THEN 4
    ELSE IF wc < 2^26 THEN 5 ELSE 6

Mark(n) == IF n = 1 THEN 0 ELSE 2^8 - 2^(8 - n)

Utf8(wc) ==
    LET n == Width(wc)
    IN  [i \in 1 .. n |-> IF i = 1 THEN Mark(n) + wc \div 64^(n - 1)
                          ELSE 2^7 + ((wc \div 64^(n - i)) % 64)]

EncodeUnchecked ==                                              \* mutant
    /\ phase = "encode" /\ inp < Len(name) /\ ~Unpaired(inp + 1)
    /\ Len(utf8) < outsize
    /\ utf8' = utf8 \o Utf8(WideChar(inp + 1))
    /\ inp' = inp + (IF Paired(inp + 1) THEN 2 ELSE 1)
    /\ UNCHANGED <<phase, name, outsize, utf16>>

Encode ==
    /\ phase = "encode" /\ inp < Len(name) /\ ~Unpaired(inp + 1)
    /\ LET bytes == Utf8(WideChar(inp + 1))
       IN  /\ Len(bytes) <= outsize - Len(utf8)
           /\ utf8' = utf8 \o bytes
    /\ inp' = inp + (IF Paired(inp + 1) THEN 2 ELSE 1)
    /\ UNCHANGED <<phase, name, outsize, utf16>>

EncodeIllegal ==
    /\ phase = "encode" /\ inp < Len(name) /\ Unpaired(inp + 1)
    /\ phase' = "EILSEQ"
    /\ UNCHANGED <<name, outsize, inp, utf8, utf16>>

EncodeTooLong ==
    /\ phase = "encode" /\ inp < Len(name) /\ ~Unpaired(inp + 1)
    /\ Width(WideChar(inp + 1)) > outsize - Len(utf8)
    /\ phase' = "ENAMETOOLONG"
    /\ UNCHANGED <<name, outsize, inp, utf8, utf16>>

EncodeDone ==
    /\ phase = "encode" /\ inp = Len(name)
    /\ phase' = "decode" /\ inp' = 0
    /\ UNCHANGED <<name, outsize, utf8, utf16>>

-----------------------------------------------------------------------------
(* utf8_to_utf16, with EXFAT_NAME_MAX as its outsize                       *)

\* How many bytes a lead byte asks for; 0 if it is none.
Needed(b) ==
    IF b < 2^7 THEN 1
    ELSE IF \E n \in 2 .. 6 : b \div 2^(7 - n) = 2^(n + 1) - 2
      THEN CHOOSE n \in 2 .. 6 : b \div 2^(7 - n) = 2^(n + 1) - 2
      ELSE 0

\* utf8_to_wchar for n bytes from i on; it does not look at the marks of the
\* bytes after the first.
CharOf(i, n) ==
    LET wc[k \in 1 .. n] ==
            IF k > 1 THEN wc[k - 1] * 64 + (utf8[i + k - 1] % 64)
            ELSE IF n = 1 THEN utf8[i] ELSE utf8[i] % 2^(7 - n)
    IN  wc[n]

\* wchar_to_utf16.
Utf16(wc) ==
    IF wc < 2^16 THEN <<wc>>
    ELSE LET rest == wc - 2^16
         IN  <<54 * 2^10 + ((rest \div 2^10) % 2^10), 55 * 2^10 + (rest % 2^10)>>

N == Needed(utf8[inp + 1])
CanTake == N # 0 /\ N <= Len(utf8) - inp

Decode ==
    /\ phase = "decode" /\ inp < Len(utf8) /\ CanTake
    /\ LET units == Utf16(CharOf(inp + 1, N))
       IN  /\ Len(units) <= EXFAT_NAME_MAX - Len(utf16)
           /\ utf16' = utf16 \o units
    /\ inp' = inp + N
    /\ UNCHANGED <<phase, name, outsize, utf8>>

DecodeIllegal ==
    /\ phase = "decode" /\ inp < Len(utf8) /\ ~CanTake
    /\ phase' = "refused"
    /\ UNCHANGED <<name, outsize, inp, utf8, utf16>>

DecodeTooLong ==
    /\ phase = "decode" /\ inp < Len(utf8) /\ CanTake
    /\ Len(Utf16(CharOf(inp + 1, N))) > EXFAT_NAME_MAX - Len(utf16)
    /\ phase' = "refused"
    /\ UNCHANGED <<name, outsize, inp, utf8, utf16>>

DecodeDone ==
    /\ phase = "decode" /\ inp = Len(utf8)
    /\ phase' = "done"
    /\ UNCHANGED <<name, outsize, inp, utf8, utf16>>

Next ==
    \/ Encode \/ EncodeIllegal \/ EncodeTooLong \/ EncodeDone
    \/ Decode \/ DecodeIllegal \/ DecodeTooLong \/ DecodeDone

Spec == Init /\ [][Next]_vars

-----------------------------------------------------------------------------
(* Properties                                                              *)

\* Each variable has its type; a conversion writes bytes and code units.
TypeOK ==
    /\ phase \in {"encode", "decode", "done", "EILSEQ", "ENAMETOOLONG", "refused"}
    /\ inp \in Nat
    /\ utf8 \in Seq(Byte)
    /\ utf16 \in Seq(CodeUnit)

\* Neither conversion writes past what it was given for its output.
NoOverrun ==
    /\ name # <<>> => Len(utf8) <= outsize
    /\ Len(utf16) <= EXFAT_NAME_MAX

\* A name that is converted and converted back is the same name, and no name
\* that converts fails on the way back.
RoundTrip ==
    name # <<>> =>
        /\ phase # "refused"
        /\ phase = "done" => utf16 = name

\* The bytes the name takes, by the standard: one to three for a unit of its
\* own, four for a pair.
UnitSize(i) ==
    IF Paired(i) THEN 4
    ELSE IF i > 1 /\ Paired(i - 1) THEN 0
    ELSE IF name[i] < 128 THEN 1
    ELSE IF name[i] < 2048 THEN 2 ELSE 3

SizeUpto[k \in 0 .. Len(name)] ==
    IF k = 0 THEN 0 ELSE SizeUpto[k - 1] + UnitSize(k)

StandardSize == SizeUpto[Len(name)]

\* A conversion for exfat_get_name fails only where it has to: on a high
\* surrogate that is not one of a pair, or on a name that does not fit.
FailsOnlyIfItMust ==
    /\ phase = "EILSEQ" => \E i \in DOMAIN name : Unpaired(i)
    /\ phase = "ENAMETOOLONG" => StandardSize > outsize

\* The buffer libexfat's own callers have, UTF8_BYTES of a name's length, is
\* enough for every name.
LibrarySizeSuffices ==
    outsize >= UTF8_BYTES(EXFAT_NAME_MAX) => phase # "ENAMETOOLONG"

\* exfat.h:52, "UTF-8 character can occupy up to 6 bytes": a well-formed name
\* within EXFAT_NAME_MAX has a UTF-8 form, and exfat_get_name returns it.
NameConverts ==
    (\A i \in DOMAIN name : ~Unpaired(i)) => phase # "ENAMETOOLONG"

\* A conversion gives the name, or has a reason not to.
ConversionExact == TypeOK /\ RoundTrip /\ FailsOnlyIfItMust
=============================================================================
