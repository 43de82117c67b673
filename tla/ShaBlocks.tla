------------------------------ MODULE ShaBlocks ------------------------------
(***************************************************************************)
(* detail::Sha1, Sha256 and Sha512 around their compression functions: the  *)
(* message is padded a byte at a time and read a block at a time, as 16     *)
(* words. What a block does to the chaining value is left out, so that the  *)
(* words taken in so far stand for it.                                      *)
(***************************************************************************)
EXTENDS Integers, SequencesExt

CONSTANT ShaMessages  \* the byte strings that are hashed

ASSUME ShaAssumption == ShaMessages \subseteq Seq(0..255)

VARIABLES
    sha,      \* which of the three functions runs
    message,  \* its argument
    msg,      \* the padded copy
    chunk,    \* where in msg the next block begins
    absorbed, \* the words compressed so far, each as its bytes from the highest
    shaPhase  \* "pad", "compress", "done"

shaVars == <<sha, message, msg, chunk, absorbed, shaPhase>>

ShaBlock(f) == IF f = "Sha512" THEN 128 ELSE 64
WordBytes(f) == IF f = "Sha512" THEN 8 ELSE 4
LengthBytes(f) == 2 * WordBytes(f)

\* bit_len as eight bytes. What does not fit into 64 bits is lost.
LengthField(n) ==
    LET shifted[i \in 0..7] == IF i = 0 THEN 8 * n ELSE shifted[i - 1] \div 256
    IN [j \in 1..8 |-> shifted[8 - j] % 256]

Zeros(n) == [i \in 1..n |-> 0]

ShaStart(f, m) ==
    /\ sha = f /\ message = m
    /\ msg = Append(m, 128) /\ chunk = 0 /\ absorbed = <<>> /\ shaPhase = "pad"

ShaInit == \E f \in {"Sha1", "Sha256", "Sha512"}, m \in ShaMessages : ShaStart(f, m)

\* Mutant: no further zeros when the place of the length is passed already.
BugNeedsZero == Len(msg) % ShaBlock(sha) < ShaBlock(sha) - LengthBytes(sha)

\* The loop's condition: size % 64 != 56, and size % 128 != 112.
NeedsZero == (Len(msg) % ShaBlock(sha)) # ShaBlock(sha) - LengthBytes(sha)

PushZero ==
    /\ shaPhase = "pad" /\ NeedsZero
    /\ msg' = Append(msg, 0)
    /\ UNCHANGED <<sha, message, chunk, absorbed, shaPhase>>

PushLength ==
    /\ shaPhase = "pad" /\ ~NeedsZero
    /\ msg' = msg \o Zeros(LengthBytes(sha) - 8) \o LengthField(Len(message))
    /\ shaPhase' = "compress"
    /\ UNCHANGED <<sha, message, chunk, absorbed>>

\* What lies behind the end of the vector is no byte anybody wrote.
MsgByte(i) == IF i <= Len(msg) THEN msg[i] ELSE -1

Compress ==
    /\ shaPhase = "compress" /\ chunk < Len(msg)
    /\ absorbed' = absorbed \o
           [w \in 1..16 |-> [b \in 1..WordBytes(sha) |-> MsgByte(chunk + (w - 1) * WordBytes(sha) + b)]]
    /\ chunk' = chunk + ShaBlock(sha)
    /\ UNCHANGED <<sha, message, msg, shaPhase>>

Digest ==
    /\ shaPhase = "compress" /\ chunk >= Len(msg)
    /\ shaPhase' = "done"
    /\ UNCHANGED <<sha, message, msg, chunk, absorbed>>

ShaNext == PushZero \/ PushLength \/ Compress \/ Digest

ShaSpec == ShaInit /\ [][ShaNext]_shaVars

-----------------------------------------------------------------------------
\* How many zeros FIPS 180-4 puts between the bit 1 and the length: the fewest
\* that fill a block.
FipsZeros(f, n) == (2 * ShaBlock(f) - LengthBytes(f) - 1 - (n % ShaBlock(f))) % ShaBlock(f)

\* What is compressed is the padded message of FIPS 180-4, whole and in order,
\* byte for byte, however the message's end lies against the end of a block.
\* (For messages whose length in bits fits into 64.)
CompressedIsFips180 ==
    shaPhase = "done" =>
        FlattenSeq(absorbed) =
            message \o <<128>> \o Zeros(FipsZeros(sha, Len(message)) + LengthBytes(sha) - 8)
                    \o LengthField(Len(message))
=============================================================================
