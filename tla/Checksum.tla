-------------------------------- MODULE Checksum --------------------------------
(***************************************************************************)
(* RCRC: a checksum of 32 bits that goes through a buffer byte by byte with*)
(* a table, a buffer at a time.  A number is the set of its bits that are  *)
(* set, of which 1 is the highest.                                         *)
(***************************************************************************)
EXTENDS Naturals, Sequences, SequencesExt

CONSTANTS
    Bytes,      \* bytes of buffers
    Starts,     \* checksums to start with
    MaxBytes    \* bound: bytes in all

Width == 32

\* POLYNOMIAL, 0xd8.
Polynomial == {25, 26, 28, 29}

VARIABLES
    start,      \* the first a_uiStartCRC
    seen,       \* the bytes of the buffers so far
    crc         \* what CRC32() has returned, and is given next

vars == <<start, seen, crc>>

Xor(a, b) == (a \cup b) \ (a \cap b)

ShiftedBy(n, a) == {i - n : i \in a \ (1 .. n)}

Divided(r) == IF 1 \in r THEN Xor(ShiftedBy(1, r), Polynomial) ELSE ShiftedBy(1, r)

\* RCRC::Init(): the entry of a byte.
Table(byte) == FoldLeft(LAMBDA r, i : Divided(r), byte, [i \in 1 .. 8 |-> i])

\* RCRC::CRC32().
CRC32(from, buffer) ==
    FoldLeft(LAMBDA r, byte : Xor(Table(Xor(byte, r \cap 1 .. 8)), ShiftedBy(8, r)), from, buffer)

\* The type invariant.
TypeOK ==
    /\ crc \subseteq 1 .. Width /\ start \in Starts
    /\ Len(seen) <= MaxBytes

Init == start \in Starts /\ seen = <<>> /\ crc = start

Add(buffer) ==
    /\ Len(seen) + Len(buffer) <= MaxBytes
    /\ crc' = CRC32(crc, buffer)
    /\ seen' = seen \o buffer
    /\ start' = start

Buffers == UNION {[1 .. n -> Bytes] : n \in 0 .. MaxBytes}

Next == \E buffer \in Buffers : Add(buffer)

Spec == Init /\ [][Next]_vars

--------------------------------------------------------------------------------
\* The division of the bytes by the polynomial, one bit after another.
Division ==
    LET bits == FlattenSeq([k \in DOMAIN seen |-> [i \in 1 .. 8 |-> {i} \cap seen[k]]])
    IN FoldLeft(LAMBDA r, bit : Divided(Xor(r, IF bit = {} THEN {} ELSE {1})), start, bits)

\* However the bytes are divided into buffers, the checksum is the remainder of all,
\* when they are divided by the code's own POLYNOMIAL, the highest bit of a byte first
\* and nothing inverted.
ChecksumIsTheRemainder == crc = Division

\* zlib's crc32() of the bytes: another polynomial, 0xedb88320, the lowest bit first,
\* and the remainder inverted at the beginning and at the end.
ZlibPolynomial == {1, 2, 3, 5, 6, 8, 9, 11, 12, 13, 17, 23, 24, 27}

RaisedBy(n, a) == {i + n : i \in a \ (Width - n + 1 .. Width)}

ZlibDivided(r) ==
    IF Width \in r THEN Xor(RaisedBy(1, r), ZlibPolynomial) ELSE RaisedBy(1, r)

Zlib(bytes) ==
    LET add(r, byte) ==
            FoldLeft(LAMBDA q, i : ZlibDivided(q), Xor(r, {Width - 8 + i : i \in byte}),
                     [i \in 1 .. 8 |-> i])
    IN (1 .. Width) \ FoldLeft(add, 1 .. Width, bytes)

\* The value is not the one that the comments promise, "the same as that returned by
\* zlib's crc32() function" (StdCRC.cpp:53-54, StdCRC.h:10): no bytes of the instance
\* but none at all give the same.
NeverZlibs == start = {} /\ seen # <<>> => crc # Zlib(seen)
================================================================================
