------------------------------ MODULE BitCodec ------------------------------
(***************************************************************************)
(* base32 and base64 of encoding.hpp: one message is written as text, the   *)
(* text is carried to where it is read, and one of its characters may be    *)
(* spoilt on the way. A character is its index in the alphabet. The         *)
(* accumulators are the code's: a value that keeps growing and wraps, and   *)
(* the number of its low bits that still mean something.                    *)
(***************************************************************************)
EXTENDS Integers, Sequences

CONSTANTS
    Messages,  \* the byte strings that may be encoded
    Wrap       \* the range of an int: 2^32 in the code

Byte == 0..255
Pad == 64       \* '=', which closes a base64 text
Unknown == 65   \* any character that is in no alphabet

ASSUME MessagesAssumption == Messages \subseteq Seq(Byte)
\* At most 12 bits of an accumulator are ever read.
ASSUME WrapAssumption == Wrap \in Nat \ {0} /\ Wrap % 4096 = 0

VARIABLES
    codec,    \* "base32" or "base64"
    data,     \* the message
    text,     \* its characters
    spoilt,   \* a character of the text is not the one written
    back,     \* the bytes read from the text (`out` of the decoder)
    next,     \* the byte or character the loop is at
    bits, value,  \* bits and value (buffer) of the loop
    phase     \* "encode", "decode", "done", "failed"

codecVars == <<codec, data, text, spoilt, back, next, bits, value, phase>>

\* The powers of two that shifts multiply and divide by.
Pow2(n) ==
    CASE n = 0 -> 1 [] n = 1 -> 2 [] n = 2 -> 4 [] n = 3 -> 8 [] n = 4 -> 16
      [] n = 5 -> 32 [] n = 6 -> 64 [] n = 7 -> 128 [] n = 8 -> 256
      [] n = 9 -> 512 [] n = 10 -> 1024 [] n = 11 -> 2048 [] OTHER -> 4096

\* Bits of one character.
Width == IF codec = "base32" THEN 5 ELSE 6

CodecStart(c, message) ==
    /\ codec = c /\ data = message
    /\ text = <<>> /\ spoilt = FALSE /\ back = <<>>
    /\ next = 1 /\ bits = 0 /\ value = 0 /\ phase = "encode"

CodecInit == \E c \in {"base32", "base64"}, message \in Messages : CodecStart(c, message)

-----------------------------------------------------------------------------
(* Base32Encode *)

TakeByte ==
    /\ codec = "base32" /\ phase = "encode" /\ bits < 5 /\ next <= Len(data)
    /\ value' = (value * 256 + data[next]) % Wrap
    /\ bits' = bits + 8 /\ next' = next + 1
    /\ UNCHANGED <<codec, data, text, spoilt, back, phase>>

EmitDigit ==
    /\ codec = "base32" /\ phase = "encode" /\ bits >= 5
    /\ text' = Append(text, (value \div Pow2(bits - 5)) % 32)
    /\ bits' = bits - 5
    /\ UNCHANGED <<codec, data, spoilt, back, next, value, phase>>

\* The decoder starts with its own, empty accumulator.
StartReading == next' = 1 /\ bits' = 0 /\ value' = 0 /\ phase' = "decode"

\* Mutant: the rest is written without the filling.
BugEmitRest ==
    /\ codec = "base32" /\ phase = "encode" /\ bits < 5 /\ next > Len(data)
    /\ text' = IF bits > 0 THEN Append(text, value % Pow2(bits)) ELSE text
    /\ StartReading
    /\ UNCHANGED <<codec, data, spoilt, back>>

\* What is left of the last byte, filled up with zeros.
EmitRest ==
    /\ codec = "base32" /\ phase = "encode" /\ bits < 5 /\ next > Len(data)
    /\ text' = IF bits > 0 THEN Append(text, (value * Pow2(5 - bits)) % 32) ELSE text
    /\ StartReading
    /\ UNCHANGED <<codec, data, spoilt, back>>

-----------------------------------------------------------------------------
(* Base64Encode *)

\* The digit of n, three bytes, that starts below `shift` bits.
Sextet(n, shift) == (n \div Pow2(shift)) % 64

EncodeGroup ==
    /\ codec = "base64" /\ phase = "encode" /\ next + 2 <= Len(data)
    /\ LET high == data[next] * 16 + data[next + 1] \div 16  \* n >> 12
           low == (data[next + 1] % 16) * 256 + data[next + 2]  \* n & 0xfff
       IN text' = text \o <<Sextet(high, 6), Sextet(high, 0), Sextet(low, 6), Sextet(low, 0)>>
    /\ next' = next + 3
    /\ UNCHANGED <<codec, data, spoilt, back, bits, value, phase>>

EncodeTail ==
    /\ codec = "base64" /\ phase = "encode" /\ next + 2 > Len(data)
    /\ text' = text \o
        CASE Len(data) - next = 0 ->
                LET high == data[next] * 16
                IN <<Sextet(high, 6), Sextet(high, 0), Pad, Pad>>
          [] Len(data) - next = 1 ->
                LET high == data[next] * 16 + data[next + 1] \div 16
                    low == (data[next + 1] % 16) * 256
                IN <<Sextet(high, 6), Sextet(high, 0), Sextet(low, 6), Pad>>
          [] OTHER -> <<>>
    /\ StartReading
    /\ UNCHANGED <<codec, data, spoilt, back>>

-----------------------------------------------------------------------------
\* The text is carried by somebody else: one character is not what it was.
Spoil(k) ==
    /\ phase = "decode" /\ next = 1 /\ ~spoilt
    /\ text' = [text EXCEPT ![k] = Unknown]
    /\ spoilt' = TRUE
    /\ UNCHANGED <<codec, data, back, next, bits, value, phase>>

(* Base32Decode and Base64Decode: one loop with characters of 5 or 6 bits *)

Reading == phase = "decode" /\ next <= Len(text)
IsDigit(c) == c < Pow2(Width)
Skipped(c) == codec = "base64" /\ c = Pad

\* Mutant: a byte is taken out one character too late.
BugReadDigit ==
    /\ Reading /\ IsDigit(text[next])
    /\ value' = (value * Pow2(Width) + text[next]) % Wrap
    /\ IF bits + Width > 8
       THEN /\ back' = Append(back, (value' \div Pow2(bits + Width - 8)) % 256)
            /\ bits' = bits + Width - 8
       ELSE bits' = bits + Width /\ UNCHANGED back
    /\ next' = next + 1
    /\ UNCHANGED <<codec, data, text, spoilt, phase>>

ReadDigit ==
    /\ Reading /\ IsDigit(text[next])
    /\ value' = (value * Pow2(Width) + text[next]) % Wrap
    /\ IF bits + Width >= 8
       THEN /\ back' = Append(back, (value' \div Pow2(bits + Width - 8)) % 256)
            /\ bits' = bits + Width - 8
       ELSE bits' = bits + Width /\ UNCHANGED back
    /\ next' = next + 1
    /\ UNCHANGED <<codec, data, text, spoilt, phase>>

SkipPad ==
    /\ Reading /\ Skipped(text[next])
    /\ next' = next + 1
    /\ UNCHANGED <<codec, data, text, spoilt, back, bits, value, phase>>

\* RaException::Decode
Reject ==
    /\ Reading /\ ~IsDigit(text[next]) /\ ~Skipped(text[next])
    /\ phase' = "failed"
    /\ UNCHANGED <<codec, data, text, spoilt, back, next, bits, value>>

Finish ==
    /\ phase = "decode" /\ next > Len(text)
    /\ phase' = "done"
    /\ UNCHANGED <<codec, data, text, spoilt, back, next, bits, value>>

CodecNext ==
    \/ TakeByte \/ EmitDigit \/ EmitRest \/ EncodeGroup \/ EncodeTail
    \/ \E k \in 1..Len(text) : Spoil(k)
    \/ ReadDigit \/ SkipPad \/ Reject \/ Finish

CodecSpec == CodecInit /\ [][CodecNext]_codecVars

-----------------------------------------------------------------------------
(* What the text should be: RFC 4648 cuts the bits of the message, zeros    *)
(* after its end, into windows of the character's width.                    *)

ByteAt(m) == IF m \in 1..Len(data) THEN data[m] ELSE 0

\* The window of `w` bits that starts `o` bits into byte m.
Window(m, o, w) ==
    IF o + w <= 8 THEN (ByteAt(m) \div Pow2(8 - o - w)) % Pow2(w)
    ELSE (ByteAt(m) % Pow2(8 - o)) * Pow2(o + w - 8) + ByteAt(m + 1) \div Pow2(16 - o - w)

Digit(k) == Window((Width * (k - 1)) \div 8 + 1, (Width * (k - 1)) % 8, Width)

\* Characters that carry bits: as few as hold the message.
Digits == (8 * Len(data) + Width - 1) \div Width

\* Whatever is read without complaint is the message that was written: no bit
\* is lost where bytes and characters do not meet, none read from the filling.
RoundTrip == phase = "done" => back = data

\* The text is the one RFC 4648 gives, padding included: other ports read it.
Rfc4648 ==
    phase # "encode" =>
        /\ Len(text) = IF codec = "base32" THEN Digits ELSE 4 * ((Len(data) + 2) \div 3)
        /\ \A k \in 1..Len(text) :
              \/ text[k] = IF k <= Digits THEN Digit(k) ELSE Pad
              \/ spoilt /\ text[k] = Unknown

CodecTypeOK ==
    /\ codec \in {"base32", "base64"} /\ data \in Seq(Byte)
    /\ text \in Seq(0..Unknown) /\ spoilt \in BOOLEAN /\ back \in Seq(Byte)
    /\ next \in Nat \ {0} /\ bits \in 0..12 /\ value \in Nat
    /\ phase \in {"encode", "decode", "done", "failed"}

\* While base32 writes: the text holds every bit taken but the last `bits`, and
\* those are the low bits of the accumulator.
Writing32Inv ==
    phase = "encode" /\ codec = "base32" =>
        /\ next <= Len(data) + 1
        /\ 8 * (next - 1) = 5 * Len(text) + bits
        /\ \A k \in 1..Len(text) : text[k] = Digit(k)
        /\ value % Pow2(bits) =
              IF bits <= 8 THEN ByteAt(next - 1) % Pow2(bits)
              ELSE (ByteAt(next - 2) % Pow2(bits - 8)) * 256 + ByteAt(next - 1)

Writing64Inv ==
    phase = "encode" /\ codec = "base64" =>
        /\ bits = 0 /\ next <= Len(data) + 1
        /\ 4 * (next - 1) = 3 * Len(text)
        /\ \A k \in 1..Len(text) : text[k] = Digit(k)

WritingInv == phase = "encode" => back = <<>> /\ ~spoilt

\* Characters that have been read and carry bits.
DigitsRead == IF next - 1 <= Digits THEN next - 1 ELSE Digits

\* While the text is read: the bytes are the first ones of the message, and the
\* low bits of the accumulator are the first bits of the next one.
ReadingInv ==
    phase # "encode" =>
        /\ next <= Len(text) + 1 /\ bits < 8
        /\ 8 * Len(back) + bits = Width * DigitsRead
        /\ \A m \in 1..Len(back) : back[m] = data[m]
        /\ value % Pow2(bits) = ByteAt(Len(back) + 1) \div Pow2(8 - bits)
        /\ phase = "done" => next = Len(text) + 1
        /\ phase # "failed" => \A k \in 1..(next - 1) : text[k] # Unknown

CodecInv == CodecTypeOK /\ Writing32Inv /\ Writing64Inv /\ WritingInv /\ Rfc4648 /\ ReadingInv
=============================================================================
