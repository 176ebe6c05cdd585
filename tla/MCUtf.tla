------------------------------- MODULE MCUtf -------------------------------
(* An instance of Utf: code units and bytes at each side of every boundary. *)
EXTENDS Utf

\* 7, 11 and 16 bits; the least and greatest of the surrogates.
MCUnits == {1, 127, 128, 2047, 2048, 55295, 55296, 56319, 56320, 57343, 65535}

MCNames == UNION {[1 .. n -> MCUnits] : n \in 0 .. 3}

\* Lead bytes of every width, with tails, and bytes that are neither.
MCBytes == {65, 127, 128, 191, 194, 224, 237, 244, 247, 248, 252, 255}

MCStrings ==
    UNION {[1 .. n -> MCBytes] : n \in 1 .. 3}
    \cup {<<65, 66, 67, 68>>, <<240, 144, 128, 128, 240, 144, 128, 128>>,
          <<248, 136, 128, 128, 128>>, <<252, 132, 128, 128, 128, 128>>}

\* As libexfat's own callers size their buffers, and as ExfatNode::getName does.
LibrarySize == {UTF8_BYTES(EXFAT_NAME_MAX)}
GetNameSize == {EXFAT_NAME_MAX}
MCOutSizes == LibrarySize \cup GetNameSize \cup {4, 6}
=============================================================================
