-------------------------------- MODULE Crc32 --------------------------------
(***************************************************************************)
(* Crc32::calculate (Crc32.cpp), which the logger puts behind each frame    *)
(* and which the scan of the flash and the viewer compare.  A word is the   *)
(* set of its bits that are 1: exclusive or is the symmetric difference.    *)
(*                                                                         *)
(* The frame that is written and the one that is read are run side by side; *)
(* on its way a byte may change.                                           *)
(***************************************************************************)
EXTENDS Integers, Sequences

CONSTANTS
    Bytes,          \* the bytes of the frames, each a subset of 0 .. 7
    MaxLen          \* bound: bytes of a frame

ASSUME CrcAssumption == Bytes \subseteq SUBSET (0 .. 7) /\ MaxLen \in Nat

VARIABLES
    crc,            \* for the frame written
    crc_read,       \* for the frame read
    written, read   \* history: the bytes so far

crc_vars == <<crc, crc_read, written, read>>

Xor(a, b) == (a \ b) \cup (b \ a)

\* 0xFFFFFFFF and 0xEDB88320
Ones == 0 .. 31
Polynomial == {31, 30, 29, 27, 26, 24, 23, 21, 20, 19, 15, 9, 8, 5}

ShiftRight(word) == {b - 1 : b \in word \ {0}}

DropCarry(word) == ShiftRight(word)         \* for a mutant of Step
Step(word) == IF 0 \in word THEN Xor(ShiftRight(word), Polynomial) ELSE ShiftRight(word)

\* The loop over the bits of one byte.
AddByte(word, byte) ==
    LET after[j \in 0 .. 8] == IF j = 0 THEN Xor(word, byte) ELSE Step(after[j - 1])
    IN  after[8]

Result(word) == Ones \ word

NextByte ==
    /\ Len(written) < MaxLen
    /\ \E byte, byte_read \in Bytes :
          /\ crc' = AddByte(crc, byte) /\ crc_read' = AddByte(crc_read, byte_read)
          /\ written' = Append(written, byte) /\ read' = Append(read, byte_read)

CrcInit == crc = Ones /\ crc_read = Ones /\ written = << >> /\ read = << >>

CrcNext == NextByte

CrcSpec == CrcInit /\ [][CrcNext]_crc_vars

-----------------------------------------------------------------------------
(* Properties.                                                             *)

\* The generator x^32 + x^26 + ... + 1 by its exponents, the lowest bit of a word
\* being the highest power.
Generator == {32} \cup {31 - b : b \in Polynomial}

\* The message as a polynomial, the lowest bit of its first byte first.
Message(bytes) ==
    UNION {{8 * (Len(bytes) - i) + 7 - b : b \in bytes[i]} : i \in DOMAIN bytes}

\* What is left of a polynomial after division by the generator.
Remainder(dividend, degree) ==
    LET rest[e \in 31 .. degree] ==     \* no power from e + 1 on is left
            IF e = degree THEN dividend
            ELSE LET above == rest[e + 1]
                 IN  IF e + 1 \in above THEN Xor(above, {e + 1 - 32 + g : g \in Generator})
                     ELSE above
    IN  rest[31]

\* The loop of shifts computes the CRC-32 that binascii.crc32 of the viewer is defined
\* to be: the remainder of the message, its first 32 bits inverted, shifted up by 32,
\* divided by the generator; inverted, lowest power last.
CrcIsRemainder ==
    LET n == Len(written)
        shifted == {e + 32 : e \in Message(written)}
        inverted == Xor(shifted, {e + 8 * n : e \in 0 .. 31})
    IN  Result(crc) = Ones \ {31 - e : e \in Remainder(inverted, 8 * n + 31)}

\* The frames are the same but for four bytes in a row, those behind byte at.
SameBut(at) == \A i \in DOMAIN written : i \notin at + 1 .. at + 4 => written[i] = read[i]

\* Damage to four bytes in a row does not go unnoticed: a frame is then taken for intact
\* only if it is the one written.  The other models take this for granted of all damage.
DamageIsNoticed ==
    \A at \in 0 .. MaxLen :
        SameBut(at) /\ Result(crc) = Result(crc_read) => written = read
=============================================================================
