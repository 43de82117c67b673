--------------------------- MODULE BitCodec_proofs ---------------------------
(***************************************************************************)
(* What a base32 or base64 text is read back as, for every message and every *)
(* range of the accumulator.                                               *)
(***************************************************************************)
EXTENDS BitCodec, TLAPS, SequenceTheorems

-----------------------------------------------------------------------------
(* Arithmetic. Every lemma splits on the number of bits, so that each case   *)
(* divides by literals only.                                               *)

\* A value that wrapped has kept its twelve low bits.
LEMMA Wrapped ==
    ASSUME NEW z \in Nat
    PROVE  (z % Wrap) \in Nat /\ \E q \in Nat : z = (z % Wrap) + 4096 * q
<1>1. Wrap \in Nat \ {0} /\ Wrap % 4096 = 0
  BY WrapAssumption
<1> DEFINE k == Wrap \div 4096
           d == z \div Wrap
<1>2. k \in Nat /\ Wrap = 4096 * k
  BY <1>1
<1>3. d \in Nat /\ z % Wrap \in Nat /\ z = (Wrap * d) + (z % Wrap)
  BY <1>1
<1>4. Wrap * d = 4096 * (k * d) /\ k * d \in Nat
  BY <1>2, <1>3
<1>5. PICK q \in Nat : z = (z % Wrap) + 4096 * q
  <2> HIDE DEF k, d
  <2>1. z = (z % Wrap) + 4096 * (k * d)
    BY <1>3, <1>4
  <2> QED
    BY <2>1, <1>4
<1> QED
  BY <1>3, <1>5

\* A byte shifted in leaves the bits before it where they were.
LEMMA ByteShiftedIn ==
    ASSUME NEW v \in Nat, NEW x \in Byte, NEW b \in 0..4,
           NEW r \in Nat, NEW q \in Nat, v * 256 + x = r + 4096 * q
    PROVE  r % Pow2(b + 8) = (v % Pow2(b)) * 256 + x
<1>1. CASE b = 0
  <2>1. Pow2(b + 8) = 256 /\ Pow2(b) = 1
    BY <1>1 DEF Pow2
  <2>2. r % 256 = (v % 1) * 256 + x
    BY DEF Byte
  <2> QED
    BY <2>1, <2>2
<1>2. CASE b = 1
  <2>1. Pow2(b + 8) = 512 /\ Pow2(b) = 2
    BY <1>2 DEF Pow2
  <2>2. r % 512 = (v % 2) * 256 + x
    BY DEF Byte
  <2> QED
    BY <2>1, <2>2
<1>3. CASE b = 2
  <2>1. Pow2(b + 8) = 1024 /\ Pow2(b) = 4
    BY <1>3 DEF Pow2
  <2>2. r % 1024 = (v % 4) * 256 + x
    BY DEF Byte
  <2> QED
    BY <2>1, <2>2
<1>4. CASE b = 3
  <2>1. Pow2(b + 8) = 2048 /\ Pow2(b) = 8
    BY <1>4 DEF Pow2
  <2>2. r % 2048 = (v % 8) * 256 + x
    BY DEF Byte
  <2> QED
    BY <2>1, <2>2
<1>5. CASE b = 4
  <2>1. Pow2(b + 8) = 4096 /\ Pow2(b) = 16
    BY <1>5 DEF Pow2
  <2>2. r % 4096 = (v % 16) * 256 + x
    BY DEF Byte
  <2> QED
    BY <2>1, <2>2
<1> QED
  BY <1>1, <1>2, <1>3, <1>4, <1>5

\* Five bits from the top of what is left of one byte.
LEMMA DigitOfOneByte ==
    ASSUME NEW v \in Nat, NEW x \in Byte, NEW b \in 5..8
    PROVE  /\ v % Pow2(b) = x % Pow2(b)
           => /\ (v \div Pow2(b - 5)) % 32 = (x \div Pow2(b - 5)) % 32
              /\ v % Pow2(b - 5) = x % Pow2(b - 5)
<1>0. SUFFICES ASSUME v % Pow2(b) = x % Pow2(b)
               PROVE  /\ (v \div Pow2(b - 5)) % 32 = (x \div Pow2(b - 5)) % 32
                      /\ v % Pow2(b - 5) = x % Pow2(b - 5)
  OBVIOUS
<1>1. CASE b = 5
  <2>1. Pow2(b - 5) = 1 /\ Pow2(b) = 32
    BY <1>1 DEF Pow2
  <2>2. (v \div 1) % 32 = (x \div 1) % 32 /\ v % 1 = x % 1
    BY <1>0, <1>1, <2>1 DEF Byte
  <2> QED
    BY <2>1, <2>2
<1>2. CASE b = 6
  <2>1. Pow2(b - 5) = 2 /\ Pow2(b) = 64
    BY <1>2 DEF Pow2
  <2>2. (v \div 2) % 32 = (x \div 2) % 32 /\ v % 2 = x % 2
    BY <1>0, <1>2, <2>1 DEF Byte
  <2> QED
    BY <2>1, <2>2
<1>3. CASE b = 7
  <2>1. Pow2(b - 5) = 4 /\ Pow2(b) = 128
    BY <1>3 DEF Pow2
  <2>2. (v \div 4) % 32 = (x \div 4) % 32 /\ v % 4 = x % 4
    BY <1>0, <1>3, <2>1 DEF Byte
  <2> QED
    BY <2>1, <2>2
<1>4. CASE b = 8
  <2>1. Pow2(b - 5) = 8 /\ Pow2(b) = 256
    BY <1>4 DEF Pow2
  <2>2. (v \div 8) % 32 = (x \div 8) % 32 /\ v % 8 = x % 8
    BY <1>0, <1>4, <2>1 DEF Byte
  <2> QED
    BY <2>1, <2>2
<1> QED
  BY <1>1, <1>2, <1>3, <1>4

\* Five bits that begin in one byte and end in the next.
LEMMA DigitOfTwoBytes ==
    ASSUME NEW v \in Nat, NEW x \in Byte, NEW y \in Byte, NEW b \in 9..12
    PROVE  /\ v % Pow2(b) = (x % Pow2(b - 8)) * 256 + y
           => /\ (v \div Pow2(b - 5)) % 32 = ((x % Pow2(b - 8)) * Pow2(13 - b)) + (y \div Pow2(b - 5))
              /\ v % Pow2(b - 5) = y % Pow2(b - 5)
<1>0. SUFFICES ASSUME v % Pow2(b) = (x % Pow2(b - 8)) * 256 + y
               PROVE  /\ (v \div Pow2(b - 5)) % 32 = ((x % Pow2(b - 8)) * Pow2(13 - b)) + (y \div Pow2(b - 5))
                      /\ v % Pow2(b - 5) = y % Pow2(b - 5)
  OBVIOUS
<1>1. CASE b = 9
  <2>1. Pow2(b - 8) = 2 /\ Pow2(b - 5) = 16 /\ Pow2(13 - b) = 16 /\ Pow2(b) = 512
    BY <1>1 DEF Pow2
  <2>2. (v \div 16) % 32 = ((x % 2) * 16) + (y \div 16) /\ v % 16 = y % 16
    BY <1>0, <1>1, <2>1 DEF Byte
  <2> QED
    BY <2>1, <2>2
<1>2. CASE b = 10
  <2>1. Pow2(b - 8) = 4 /\ Pow2(b - 5) = 32 /\ Pow2(13 - b) = 8 /\ Pow2(b) = 1024
    BY <1>2 DEF Pow2
  <2>2. (v \div 32) % 32 = ((x % 4) * 8) + (y \div 32) /\ v % 32 = y % 32
    BY <1>0, <1>2, <2>1 DEF Byte
  <2> QED
    BY <2>1, <2>2
<1>3. CASE b = 11
  <2>1. Pow2(b - 8) = 8 /\ Pow2(b - 5) = 64 /\ Pow2(13 - b) = 4 /\ Pow2(b) = 2048
    BY <1>3 DEF Pow2
  <2>2. (v \div 64) % 32 = ((x % 8) * 4) + (y \div 64) /\ v % 64 = y % 64
    BY <1>0, <1>3, <2>1 DEF Byte
  <2> QED
    BY <2>1, <2>2
<1>4. CASE b = 12
  <2>1. Pow2(b - 8) = 16 /\ Pow2(b - 5) = 128 /\ Pow2(13 - b) = 2 /\ Pow2(b) = 4096
    BY <1>4 DEF Pow2
  <2>2. (v \div 128) % 32 = ((x % 16) * 2) + (y \div 128) /\ v % 128 = y % 128
    BY <1>0, <1>4, <2>1 DEF Byte
  <2> QED
    BY <2>1, <2>2
<1> QED
  BY <1>1, <1>2, <1>3, <1>4

\* The last digit: what is left, with zeros after it.
LEMMA DigitOfRest ==
    ASSUME NEW v \in Nat, NEW x \in Byte, NEW b \in 1..4
    PROVE  /\ v % Pow2(b) = x % Pow2(b)
           => (v * Pow2(5 - b)) % 32 = (x % Pow2(b)) * Pow2(5 - b)
<1>0. SUFFICES ASSUME v % Pow2(b) = x % Pow2(b)
               PROVE  (v * Pow2(5 - b)) % 32 = (x % Pow2(b)) * Pow2(5 - b)
  OBVIOUS
<1>1. CASE b = 1
  <2>1. Pow2(b) = 2 /\ Pow2(5 - b) = 16
    BY <1>1 DEF Pow2
  <2>2. (v * 16) % 32 = (x % 2) * 16
    BY <1>0, <1>1, <2>1 DEF Byte
  <2> QED
    BY <2>1, <2>2
<1>2. CASE b = 2
  <2>1. Pow2(b) = 4 /\ Pow2(5 - b) = 8
    BY <1>2 DEF Pow2
  <2>2. (v * 8) % 32 = (x % 4) * 8
    BY <1>0, <1>2, <2>1 DEF Byte
  <2> QED
    BY <2>1, <2>2
<1>3. CASE b = 3
  <2>1. Pow2(b) = 8 /\ Pow2(5 - b) = 4
    BY <1>3 DEF Pow2
  <2>2. (v * 4) % 32 = (x % 8) * 4
    BY <1>0, <1>3, <2>1 DEF Byte
  <2> QED
    BY <2>1, <2>2
<1>4. CASE b = 4
  <2>1. Pow2(b) = 16 /\ Pow2(5 - b) = 2
    BY <1>4 DEF Pow2
  <2>2. (v * 2) % 32 = (x % 16) * 2
    BY <1>0, <1>4, <2>1 DEF Byte
  <2> QED
    BY <2>1, <2>2
<1> QED
  BY <1>1, <1>2, <1>3, <1>4

\* Five bits read that do not complete a byte.
LEMMA FiveBitsKept ==
    ASSUME NEW v \in Nat, NEW x \in Byte, NEW b \in 0..2, NEW d \in Nat,
           NEW r \in Nat, NEW q \in Nat
    PROVE  /\ v % Pow2(b) = x \div Pow2(8 - b)
           /\ d = (x \div Pow2(3 - b)) % 32
           /\ v * 32 + d = r + 4096 * q
           => r % Pow2(b + 5) = x \div Pow2(3 - b)
<1>0. SUFFICES ASSUME v % Pow2(b) = x \div Pow2(8 - b),
                       d = (x \div Pow2(3 - b)) % 32,
                       v * 32 + d = r + 4096 * q
               PROVE  r % Pow2(b + 5) = x \div Pow2(3 - b)
  OBVIOUS
<1>1. CASE b = 0
  <2>1. Pow2(b) = 1 /\ Pow2(8 - b) = 256 /\ Pow2(3 - b) = 8 /\ Pow2(b + 5) = 32
    BY <1>1 DEF Pow2
  <2>2. r % 32 = x \div 8
    BY <1>0, <1>1, <2>1 DEF Byte
  <2> QED
    BY <2>1, <2>2
<1>2. CASE b = 1
  <2>1. Pow2(b) = 2 /\ Pow2(8 - b) = 128 /\ Pow2(3 - b) = 4 /\ Pow2(b + 5) = 64
    BY <1>2 DEF Pow2
  <2>2. r % 64 = x \div 4
    BY <1>0, <1>2, <2>1 DEF Byte
  <2> QED
    BY <2>1, <2>2
<1>3. CASE b = 2
  <2>1. Pow2(b) = 4 /\ Pow2(8 - b) = 64 /\ Pow2(3 - b) = 2 /\ Pow2(b + 5) = 128
    BY <1>3 DEF Pow2
  <2>2. r % 128 = x \div 2
    BY <1>0, <1>3, <2>1 DEF Byte
  <2> QED
    BY <2>1, <2>2
<1> QED
  BY <1>1, <1>2, <1>3

\* Five bits read that complete a byte and begin the next.
LEMMA FiveBitsDone ==
    ASSUME NEW v \in Nat, NEW x \in Byte, NEW y \in Byte, NEW b \in 3..7,
           NEW d \in Nat, NEW r \in Nat, NEW q \in Nat
    PROVE  /\ v % Pow2(b) = x \div Pow2(8 - b)
           /\ d = ((x % Pow2(8 - b)) * Pow2(b - 3)) + (y \div Pow2(11 - b))
           /\ v * 32 + d = r + 4096 * q
           => /\ (r \div Pow2(b - 3)) % 256 = x
              /\ r % Pow2(b - 3) = y \div Pow2(11 - b)
<1>0. SUFFICES ASSUME v % Pow2(b) = x \div Pow2(8 - b),
                       d = ((x % Pow2(8 - b)) * Pow2(b - 3)) + (y \div Pow2(11 - b)),
                       v * 32 + d = r + 4096 * q
               PROVE  /\ (r \div Pow2(b - 3)) % 256 = x
                      /\ r % Pow2(b - 3) = y \div Pow2(11 - b)
  OBVIOUS
<1>1. CASE b = 3
  <2>1. Pow2(b) = 8 /\ Pow2(8 - b) = 32 /\ Pow2(b - 3) = 1 /\ Pow2(11 - b) = 256
    BY <1>1 DEF Pow2
  <2>2. (r \div 1) % 256 = x /\ r % 1 = y \div 256
    BY <1>0, <1>1, <2>1 DEF Byte
  <2> QED
    BY <2>1, <2>2
<1>2. CASE b = 4
  <2>1. Pow2(b) = 16 /\ Pow2(8 - b) = 16 /\ Pow2(b - 3) = 2 /\ Pow2(11 - b) = 128
    BY <1>2 DEF Pow2
  <2>2. (r \div 2) % 256 = x /\ r % 2 = y \div 128
    BY <1>0, <1>2, <2>1 DEF Byte
  <2> QED
    BY <2>1, <2>2
<1>3. CASE b = 5
  <2>1. Pow2(b) = 32 /\ Pow2(8 - b) = 8 /\ Pow2(b - 3) = 4 /\ Pow2(11 - b) = 64
    BY <1>3 DEF Pow2
  <2>2. (r \div 4) % 256 = x /\ r % 4 = y \div 64
    BY <1>0, <1>3, <2>1 DEF Byte
  <2> QED
    BY <2>1, <2>2
<1>4. CASE b = 6
  <2>1. Pow2(b) = 64 /\ Pow2(8 - b) = 4 /\ Pow2(b - 3) = 8 /\ Pow2(11 - b) = 32
    BY <1>4 DEF Pow2
  <2>2. (r \div 8) % 256 = x /\ r % 8 = y \div 32
    BY <1>0, <1>4, <2>1 DEF Byte
  <2> QED
    BY <2>1, <2>2
<1>5. CASE b = 7
  <2>1. Pow2(b) = 128 /\ Pow2(8 - b) = 2 /\ Pow2(b - 3) = 16 /\ Pow2(11 - b) = 16
    BY <1>5 DEF Pow2
  <2>2. (r \div 16) % 256 = x /\ r % 16 = y \div 16
    BY <1>0, <1>5, <2>1 DEF Byte
  <2> QED
    BY <2>1, <2>2
<1> QED
  BY <1>1, <1>2, <1>3, <1>4, <1>5

\* Six bits read that do not complete a byte.
LEMMA SixBitsKept ==
    ASSUME NEW v \in Nat, NEW x \in Byte, NEW b \in {0}, NEW d \in Nat,
           NEW r \in Nat, NEW q \in Nat
    PROVE  /\ v % Pow2(b) = x \div Pow2(8 - b)
           /\ d = (x \div Pow2(2 - b)) % 64
           /\ v * 64 + d = r + 4096 * q
           => r % Pow2(b + 6) = x \div Pow2(2 - b)
<1>0. SUFFICES ASSUME v % Pow2(b) = x \div Pow2(8 - b),
                       d = (x \div Pow2(2 - b)) % 64,
                       v * 64 + d = r + 4096 * q
               PROVE  r % Pow2(b + 6) = x \div Pow2(2 - b)
  OBVIOUS
<1>1. CASE b = 0
  <2>1. Pow2(b) = 1 /\ Pow2(8 - b) = 256 /\ Pow2(2 - b) = 4 /\ Pow2(b + 6) = 64
    BY <1>1 DEF Pow2
  <2>2. r % 64 = x \div 4
    BY <1>0, <1>1, <2>1 DEF Byte
  <2> QED
    BY <2>1, <2>2
<1> QED
  BY <1>1

\* Six bits read that complete a byte and begin the next.
LEMMA SixBitsDone ==
    ASSUME NEW v \in Nat, NEW x \in Byte, NEW y \in Byte, NEW b \in {2, 4, 6},
           NEW d \in Nat, NEW r \in Nat, NEW q \in Nat
    PROVE  /\ v % Pow2(b) = x \div Pow2(8 - b)
           /\ d = ((x % Pow2(8 - b)) * Pow2(b - 2)) + (y \div Pow2(10 - b))
           /\ v * 64 + d = r + 4096 * q
           => /\ (r \div Pow2(b - 2)) % 256 = x
              /\ r % Pow2(b - 2) = y \div Pow2(10 - b)
<1>0. SUFFICES ASSUME v % Pow2(b) = x \div Pow2(8 - b),
                       d = ((x % Pow2(8 - b)) * Pow2(b - 2)) + (y \div Pow2(10 - b)),
                       v * 64 + d = r + 4096 * q
               PROVE  /\ (r \div Pow2(b - 2)) % 256 = x
                      /\ r % Pow2(b - 2) = y \div Pow2(10 - b)
  OBVIOUS
<1>1. CASE b = 2
  <2>1. Pow2(b) = 4 /\ Pow2(8 - b) = 64 /\ Pow2(b - 2) = 1 /\ Pow2(10 - b) = 256
    BY <1>1 DEF Pow2
  <2>2. (r \div 1) % 256 = x /\ r % 1 = y \div 256
    BY <1>0, <1>1, <2>1 DEF Byte
  <2> QED
    BY <2>1, <2>2
<1>2. CASE b = 4
  <2>1. Pow2(b) = 16 /\ Pow2(8 - b) = 16 /\ Pow2(b - 2) = 4 /\ Pow2(10 - b) = 64
    BY <1>2 DEF Pow2
  <2>2. (r \div 4) % 256 = x /\ r % 4 = y \div 64
    BY <1>0, <1>2, <2>1 DEF Byte
  <2> QED
    BY <2>1, <2>2
<1>3. CASE b = 6
  <2>1. Pow2(b) = 64 /\ Pow2(8 - b) = 4 /\ Pow2(b - 2) = 16 /\ Pow2(10 - b) = 16
    BY <1>3 DEF Pow2
  <2>2. (r \div 16) % 256 = x /\ r % 16 = y \div 16
    BY <1>0, <1>3, <2>1 DEF Byte
  <2> QED
    BY <2>1, <2>2
<1> QED
  BY <1>1, <1>2, <1>3

-----------------------------------------------------------------------------
(* Windows *)

LEMMA BytesAreNumbers == 0 \in Byte /\ \A x \in Byte : x \in Nat /\ x % 256 = x /\ x % 1 = 0
  BY DEF Byte

LEMMA BytesAreSmall == \A x \in Byte : x \div 256 = 0
  BY DEF Byte

LEMMA TextLength == CodecTypeOK => Len(text) \in Nat /\ Len(data) \in Nat /\ Len(back) \in Nat
  BY DEF CodecTypeOK

LEMMA BytesAreBytes ==
    ASSUME CodecTypeOK
    PROVE  \A m : ByteAt(m) \in Byte
<1>1. 0 \in Byte /\ data \in Seq(Byte)
  BY DEF CodecTypeOK, Byte
<1>2. ASSUME NEW m PROVE ByteAt(m) \in Byte
  <2>1. CASE m \in 1..Len(data)
    BY <1>1, <2>1 DEF ByteAt
  <2>2. CASE m \notin 1..Len(data)
    BY <1>1, <2>2 DEF ByteAt
  <2> QED
    BY <2>1, <2>2
<1> QED
  BY <1>2

\* A window of five bits is a number below 32, one of six below 64.
LEMMA FiveBitWindow ==
    ASSUME CodecTypeOK, NEW m \in Int, NEW o \in 0..7
    PROVE  Window(m, o, 5) \in 0..31
<1> DEFINE x == ByteAt(m)
           y == ByteAt(m + 1)
<1>1. x \in Byte /\ y \in Byte
  BY BytesAreBytes
<1>2. /\ o = 0 => Window(m, o, 5) = (x \div 8) % 32
      /\ o = 1 => Window(m, o, 5) = (x \div 4) % 32
      /\ o = 2 => Window(m, o, 5) = (x \div 2) % 32
      /\ o = 3 => Window(m, o, 5) = (x \div 1) % 32
      /\ o = 4 => Window(m, o, 5) = ((x % 16) * 2) + (y \div 128)
      /\ o = 5 => Window(m, o, 5) = ((x % 8) * 4) + (y \div 64)
      /\ o = 6 => Window(m, o, 5) = ((x % 4) * 8) + (y \div 32)
      /\ o = 7 => Window(m, o, 5) = ((x % 2) * 16) + (y \div 16)
  BY DEF Window, Pow2
<1> HIDE DEF x, y
<1>3. /\ (x \div 8) % 32 \in 0..31
      /\ (x \div 4) % 32 \in 0..31
      /\ (x \div 2) % 32 \in 0..31
      /\ (x \div 1) % 32 \in 0..31
      /\ ((x % 16) * 2) + (y \div 128) \in 0..31
      /\ ((x % 8) * 4) + (y \div 64) \in 0..31
      /\ ((x % 4) * 8) + (y \div 32) \in 0..31
      /\ ((x % 2) * 16) + (y \div 16) \in 0..31
  BY <1>1 DEF Byte
<1> QED
  BY <1>2, <1>3

LEMMA SixBitWindow ==
    ASSUME CodecTypeOK, NEW m \in Int, NEW o \in 0..7
    PROVE  Window(m, o, 6) \in 0..63
<1> DEFINE x == ByteAt(m)
           y == ByteAt(m + 1)
<1>1. x \in Byte /\ y \in Byte
  BY BytesAreBytes
<1>2. /\ o = 0 => Window(m, o, 6) = (x \div 4) % 64
      /\ o = 1 => Window(m, o, 6) = (x \div 2) % 64
      /\ o = 2 => Window(m, o, 6) = (x \div 1) % 64
      /\ o = 3 => Window(m, o, 6) = ((x % 32) * 2) + (y \div 128)
      /\ o = 4 => Window(m, o, 6) = ((x % 16) * 4) + (y \div 64)
      /\ o = 5 => Window(m, o, 6) = ((x % 8) * 8) + (y \div 32)
      /\ o = 6 => Window(m, o, 6) = ((x % 4) * 16) + (y \div 16)
      /\ o = 7 => Window(m, o, 6) = ((x % 2) * 32) + (y \div 8)
  BY DEF Window, Pow2
<1> HIDE DEF x, y
<1>3. /\ (x \div 4) % 64 \in 0..63
      /\ (x \div 2) % 64 \in 0..63
      /\ (x \div 1) % 64 \in 0..63
      /\ ((x % 32) * 2) + (y \div 128) \in 0..63
      /\ ((x % 16) * 4) + (y \div 64) \in 0..63
      /\ ((x % 8) * 8) + (y \div 32) \in 0..63
      /\ ((x % 4) * 16) + (y \div 16) \in 0..63
      /\ ((x % 2) * 32) + (y \div 8) \in 0..63
  BY <1>1 DEF Byte
<1> QED
  BY <1>2, <1>3

\* A digit of the text is a character of the codec's alphabet.
LEMMA DigitsAreDigits ==
    ASSUME CodecTypeOK, NEW k \in Nat \ {0}
    PROVE  /\ Digit(k) \in 0..63
           /\ IsDigit(Digit(k))
<1> DEFINE p == Width * (k - 1)
<1>1. Width \in {5, 6} /\ p \in Nat
  BY DEF Width
<1>2. p \div 8 + 1 \in Int /\ p % 8 \in 0..7
  BY <1>1
<1>3. Digit(k) = Window(p \div 8 + 1, p % 8, Width)
  BY DEF Digit
<1> HIDE DEF p
<1>4. CASE Width = 5
  <2>1. Digit(k) \in 0..31
    BY <1>2, <1>3, <1>4, FiveBitWindow
  <2> QED
    BY <2>1, <1>4 DEF IsDigit, Pow2
<1>5. CASE Width = 6
  <2>1. Digit(k) \in 0..63
    BY <1>2, <1>3, <1>5, SixBitWindow
  <2> QED
    BY <2>1, <1>5 DEF IsDigit, Pow2
<1> QED
  BY <1>1, <1>4, <1>5

\* What the text should be depends on the message and the codec only.
LEMMA SameMessage ==
    ASSUME data' = data, codec' = codec
    PROVE  /\ \A k : Digit(k)' = Digit(k)
           /\ \A m : ByteAt(m)' = ByteAt(m)
           /\ Width' = Width /\ Digits' = Digits
  BY DEF Digit, Window, ByteAt, Width, Digits
-----------------------------------------------------------------------------
(* The steps of Base32Encode *)

LEMMA TakeByteKeeps == CodecInv /\ TakeByte => CodecInv'
<1> SUFFICES ASSUME CodecInv, TakeByte PROVE CodecInv'
  OBVIOUS
<1>0. CodecTypeOK /\ Writing32Inv /\ Writing64Inv /\ WritingInv /\ Rfc4648 /\ ReadingInv
  BY DEF CodecInv
<1>1. /\ codec = "base32" /\ phase = "encode" /\ phase' = "encode"
      /\ codec' = codec /\ data' = data /\ text' = text /\ back' = back /\ spoilt' = spoilt
      /\ bits \in 0..4 /\ bits' = bits + 8
      /\ next \in 1..Len(data) /\ next' = next + 1
      /\ value' = (value * 256 + data[next]) % Wrap
  BY <1>0 DEF CodecTypeOK, TakeByte
<1>2. /\ data \in Seq(Byte) /\ data[next] \in Byte /\ Len(data) \in Nat
      /\ value \in Nat /\ data[next] \in Nat
  <2>1. data \in Seq(Byte) /\ value \in Nat
    BY <1>0 DEF CodecTypeOK
  <2>2. data[next] \in Byte /\ Len(data) \in Nat
    BY <1>1, <2>1
  <2> QED
    BY <2>1, <2>2, BytesAreNumbers
<1>3. /\ 8 * (next - 1) = 5 * Len(text) + bits
      /\ \A k \in 1..Len(text) : text[k] = Digit(k)
      /\ value % Pow2(bits) = ByteAt(next - 1) % Pow2(bits)
  BY <1>0, <1>1 DEF Writing32Inv
<1>4. value' \in Nat /\ value' % Pow2(bits + 8) = ((value % Pow2(bits)) * 256) + data[next]
  <2>1. (value * 256 + data[next]) \in Nat
    BY <1>2
  <2>2. PICK q \in Nat : value * 256 + data[next] = value' + 4096 * q
    BY <1>1, <2>1, Wrapped
  <2>3. value' \in Nat
    BY <1>1, <2>1, Wrapped
  <2> QED
    BY <1>1, <1>2, <2>2, <2>3, ByteShiftedIn
<1>5. \A k : Digit(k)' = Digit(k)
  BY <1>1, SameMessage
<1>6. /\ (ByteAt(next - 1))' = data[next] /\ (ByteAt(next - 2))' = ByteAt(next - 1)
      /\ ByteAt(next - 1) \in Byte
  <2>1. next' - 1 = next /\ next' - 2 = next - 1
    BY <1>1, <1>2
  <2> QED
    BY <1>0, <1>1, <2>1, BytesAreBytes DEF ByteAt
<1>7. value' % Pow2(bits') =
        IF bits' <= 8 THEN (ByteAt(next - 1))' % Pow2(bits')
        ELSE ((ByteAt(next - 2))' % Pow2(bits' - 8)) * 256 + (ByteAt(next - 1))'
  <2>1. CASE bits = 0
    <3>1. Pow2(bits) = 1 /\ Pow2(bits + 8) = 256
      BY <2>1 DEF Pow2
    <3>2. (value % Pow2(bits)) * 256 = 0
      BY <1>3, <1>6, <3>1, BytesAreNumbers
    <3>3. value' % Pow2(bits') = data[next]
      BY <1>1, <1>2, <1>4, <3>2
    <3> QED
      BY <1>1, <1>2, <1>6, <2>1, <3>1, <3>3, BytesAreNumbers
  <2>2. CASE bits > 0
    BY <1>1, <1>3, <1>4, <1>6, <2>2
  <2> QED
    BY <1>1, <2>1, <2>2
<1>8. CodecTypeOK'
  BY <1>0, <1>1, <1>2, <1>4 DEF CodecTypeOK
<1>9. Writing32Inv'
  <2>1. next' <= Len(data) + 1 /\ 8 * (next' - 1) = 5 * Len(text) + bits'
    BY <1>0, <1>1, <1>2, <1>3, TextLength
  <2>2. \A k \in 1..Len(text') : text'[k] = Digit(k)'
    BY <1>1, <1>3, <1>5
  <2> QED
    BY <1>1, <1>7, <2>1, <2>2 DEF Writing32Inv
<1> QED
  BY <1>0, <1>1, <1>8, <1>9 DEF CodecInv, Writing64Inv, WritingInv, Rfc4648, ReadingInv

\* Where the next digit begins: `b` bits of the first n - 1 bytes are left.
LEMMA WindowStart ==
    ASSUME NEW l \in Nat, NEW n \in Nat, NEW b \in 1..12
    PROVE  8 * (n - 1) = 5 * l + b =>
              /\ b <= 8 => (5 * l) \div 8 + 1 = n - 1 /\ (5 * l) % 8 = 8 - b
              /\ b > 8 => (5 * l) \div 8 + 1 = n - 2 /\ (5 * l) % 8 = 16 - b
<1> SUFFICES ASSUME 8 * (n - 1) = 5 * l + b
             PROVE  /\ b <= 8 => (5 * l) \div 8 + 1 = n - 1 /\ (5 * l) % 8 = 8 - b
                    /\ b > 8 => (5 * l) \div 8 + 1 = n - 2 /\ (5 * l) % 8 = 16 - b
  OBVIOUS
<1>1. 5 * l = 8 * (n - 1) - b
  OBVIOUS
<1> QED
  BY <1>1

LEMMA EmitDigitKeeps == CodecInv /\ EmitDigit => CodecInv'
<1> SUFFICES ASSUME CodecInv, EmitDigit PROVE CodecInv'
  OBVIOUS
<1>0. CodecTypeOK /\ Writing32Inv /\ Writing64Inv /\ WritingInv /\ Rfc4648 /\ ReadingInv
  BY DEF CodecInv
<1> DEFINE new == (value \div Pow2(bits - 5)) % 32
<1>1. /\ codec = "base32" /\ phase = "encode" /\ phase' = "encode"
      /\ codec' = codec /\ data' = data /\ back' = back /\ spoilt' = spoilt
      /\ bits \in 5..12 /\ bits' = bits - 5
      /\ next \in Nat \ {0} /\ next' = next /\ value \in Nat /\ value' = value
      /\ text' = Append(text, new) /\ text \in Seq(0..Unknown)
  BY <1>0 DEF CodecTypeOK, EmitDigit
<1>2. Len(text) \in Nat /\ Len(data) \in Nat
  BY <1>0, TextLength
<1>3. /\ next <= Len(data) + 1
      /\ 8 * (next - 1) = 5 * Len(text) + bits
      /\ \A k \in 1..Len(text) : text[k] = Digit(k)
      /\ value % Pow2(bits) =
            IF bits <= 8 THEN ByteAt(next - 1) % Pow2(bits)
            ELSE (ByteAt(next - 2) % Pow2(bits - 8)) * 256 + ByteAt(next - 1)
  BY <1>0, <1>1 DEF Writing32Inv
<1>4. ByteAt(next - 1) \in Byte /\ ByteAt(next - 2) \in Byte
  BY <1>0, BytesAreBytes
<1>9. /\ bits <= 8 => (5 * Len(text)) \div 8 + 1 = next - 1 /\ (5 * Len(text)) % 8 = 8 - bits
      /\ bits > 8 => (5 * Len(text)) \div 8 + 1 = next - 2 /\ (5 * Len(text)) % 8 = 16 - bits
  <2>1. /\ Len(text) \in Nat /\ next \in Nat /\ bits \in 1..12
        /\ 8 * (next - 1) = 5 * Len(text) + bits
    BY <1>1, <1>2, <1>3
  <2> HIDE DEF new
  <2> QED
    BY <2>1, WindowStart
<1>5. /\ new = Digit(Len(text) + 1)
      /\ value % Pow2(bits - 5) = ByteAt(next - 1) % Pow2(bits - 5)
  <2>0. Digit(Len(text) + 1) = Window((5 * Len(text)) \div 8 + 1, (5 * Len(text)) % 8, 5)
    BY <1>1, <1>2 DEF Digit, Width
  <2>1. CASE bits <= 8
    <3>1. bits \in 5..8 /\ value % Pow2(bits) = ByteAt(next - 1) % Pow2(bits)
      BY <1>1, <1>3, <2>1
    <3>2. (5 * Len(text)) \div 8 + 1 = next - 1 /\ (5 * Len(text)) % 8 = 8 - bits
      BY <1>9, <2>1
    <3>3. 8 - (8 - bits) - 5 = bits - 5 /\ (8 - bits) + 5 <= 8 /\ Pow2(5) = 32
      BY <3>1 DEF Pow2
    <3>4. Digit(Len(text) + 1) = (ByteAt(next - 1) \div Pow2(bits - 5)) % 32
      BY <2>0, <3>2, <3>3 DEF Window
    <3> QED
      BY <1>1, <1>4, <3>1, <3>4, DigitOfOneByte
  <2>2. CASE bits > 8
    <3>1. /\ bits \in 9..12
          /\ value % Pow2(bits) = (ByteAt(next - 2) % Pow2(bits - 8)) * 256 + ByteAt(next - 1)
      BY <1>1, <1>3, <2>2
    <3>2. (5 * Len(text)) \div 8 + 1 = next - 2 /\ (5 * Len(text)) % 8 = 16 - bits
      BY <1>9, <2>2
    <3>3. /\ ~((16 - bits) + 5 <= 8) /\ 8 - (16 - bits) = bits - 8
          /\ (16 - bits) + 5 - 8 = 13 - bits /\ 16 - (16 - bits) - 5 = bits - 5
          /\ (next - 2) + 1 = next - 1
      BY <1>1, <3>1
    <3>4. Digit(Len(text) + 1) = (ByteAt(next - 2) % Pow2(bits - 8)) * Pow2(13 - bits)
                                 + ByteAt(next - 1) \div Pow2(bits - 5)
      BY <2>0, <3>2, <3>3 DEF Window
    <3> QED
      BY <1>1, <1>4, <3>1, <3>4, DigitOfTwoBytes
  <2> QED
    BY <1>1, <2>1, <2>2
<1> HIDE DEF new
<1>6. new \in 0..63
  <2>1. Len(text) + 1 \in Nat \ {0}
    BY <1>2
  <2> QED
    BY <1>0, <1>5, <2>1, DigitsAreDigits
<1>7. CodecTypeOK'
  <2>1. text' \in Seq(0..Unknown) /\ bits' \in 0..12
    BY <1>1, <1>6 DEF Unknown
  <2> QED
    BY <1>0, <1>1, <2>1 DEF CodecTypeOK
<1>8. Writing32Inv'
  <2>1. Len(text') = Len(text) + 1
    BY <1>1
  <2>2. next' <= Len(data) + 1 /\ 8 * (next' - 1) = 5 * Len(text') + bits'
    BY <1>1, <1>2, <1>3, <2>1
  <2>3. \A k \in 1..Len(text') : text'[k] = Digit(k)'
    <3>1. \A k \in 1..Len(text') : text'[k] = Digit(k)
      BY <1>1, <1>2, <1>3, <1>5, <2>1
    <3> QED
      BY <1>1, <3>1, SameMessage
  <2>4. bits' <= 8 /\ (ByteAt(next - 1))' = ByteAt(next - 1)
    BY <1>1, SameMessage DEF ByteAt
  <2> QED
    BY <1>1, <1>5, <2>2, <2>3, <2>4 DEF Writing32Inv
<1> QED
  BY <1>0, <1>1, <1>7, <1>8 DEF CodecInv, Writing64Inv, WritingInv, Rfc4648, ReadingInv

\* The decoder starts before the first character with an empty accumulator.
LEMMA StartReadingKeeps ==
    ASSUME CodecTypeOK, StartReading, back = <<>>, back' = back, data' = data, codec' = codec
    PROVE  ReadingInv'
<1>1. /\ next' = 1 /\ bits' = 0 /\ value' = 0 /\ phase' = "decode"
      /\ back' = <<>> /\ Len(back') = 0
  BY DEF StartReading
<1>2. Width \in {5, 6} /\ Len(data) \in Nat /\ Digits \in Nat
  BY TextLength DEF Width, Digits
<1>3. DigitsRead' = 0
  BY <1>1, <1>2, SameMessage DEF DigitsRead
<1>4. ByteAt(Len(back') + 1) \in Byte /\ (ByteAt(Len(back) + 1))' = ByteAt(Len(back') + 1)
  BY BytesAreBytes, SameMessage
<1>5. value' % Pow2(bits') = (ByteAt(Len(back) + 1))' \div Pow2(8 - bits')
  <2>1. Pow2(0) = 1 /\ Pow2(8) = 256
    BY DEF Pow2
  <2>2. ByteAt(Len(back') + 1) \div 256 = 0
    BY <1>4, BytesAreSmall
  <2> QED
    BY <1>1, <1>4, <2>1, <2>2
<1>6. next' <= Len(text') + 1 \/ Len(text') \notin Nat
  BY <1>1
<1>7. 8 * Len(back') + bits' = Width' * DigitsRead'
  BY <1>1, <1>2, <1>3, SameMessage
<1> QED
  BY <1>1, <1>5, <1>6, <1>7 DEF ReadingInv

LEMMA EmitRestKeeps == CodecInv /\ EmitRest => CodecInv'
<1> SUFFICES ASSUME CodecInv, EmitRest PROVE CodecInv'
  OBVIOUS
<1>0. CodecTypeOK /\ Writing32Inv /\ WritingInv
  BY DEF CodecInv
<1> DEFINE rest == (value * Pow2(5 - bits)) % 32
<1>1. /\ codec = "base32" /\ phase = "encode" /\ phase' = "decode"
      /\ codec' = codec /\ data' = data /\ back' = back /\ spoilt' = spoilt
      /\ back = <<>> /\ StartReading
      /\ bits \in 0..4 /\ bits' = 0 /\ next \in Nat \ {0} /\ next' = 1
      /\ value \in Nat /\ value' = 0 /\ next > Len(data)
      /\ text' = (IF bits > 0 THEN Append(text, rest) ELSE text)
      /\ text \in Seq(0..Unknown)
  BY <1>0 DEF CodecTypeOK, EmitRest, StartReading, WritingInv
<1>2. Len(text) \in Nat /\ Len(data) \in Nat
  BY <1>0, TextLength
<1>3. /\ next = Len(data) + 1
      /\ 8 * Len(data) = 5 * Len(text) + bits
      /\ \A k \in 1..Len(text) : text[k] = Digit(k)
      /\ value % Pow2(bits) = ByteAt(next - 1) % Pow2(bits)
  BY <1>0, <1>1, <1>2 DEF Writing32Inv
<1>4. ByteAt(next - 1) \in Byte /\ ByteAt(next) = 0
  BY <1>0, <1>3, <1>2, BytesAreBytes DEF ByteAt
<1>5. CASE bits = 0
  <2>1. text' = text /\ Digits = Len(text) /\ Width = 5
    BY <1>1, <1>2, <1>3, <1>5 DEF Digits, Width
  <2>2. CodecTypeOK'
    BY <1>0, <1>1, <2>1 DEF CodecTypeOK
  <2>3. Rfc4648'
    <3>1. Len(text') = Digits' /\ \A k \in 1..Len(text') : text'[k] = Digit(k)'
      BY <1>1, <1>3, <2>1, SameMessage
    <3> QED
      BY <1>1, <1>2, <2>1, <3>1 DEF Rfc4648
  <2> QED
    BY <1>0, <1>1, <2>2, <2>3, StartReadingKeeps DEF CodecInv, Writing32Inv, Writing64Inv, WritingInv
<1>6. CASE bits > 0
  <2>1. bits \in 1..4 /\ Width = 5
    BY <1>1, <1>6 DEF Width
  <2>2. (5 * Len(text)) \div 8 + 1 = next - 1 /\ (5 * Len(text)) % 8 = 8 - bits
    <3>1. /\ Len(text) \in Nat /\ next \in Nat /\ bits \in 1..12 /\ bits <= 8
          /\ 8 * (next - 1) = 5 * Len(text) + bits
      BY <1>1, <1>2, <1>3, <2>1
    <3> HIDE DEF rest
    <3> QED
      BY <3>1, WindowStart
  <2>3. rest = Digit(Len(text) + 1)
    <3>1. Digit(Len(text) + 1) = Window((5 * Len(text)) \div 8 + 1, (5 * Len(text)) % 8, 5)
      BY <1>2, <2>1 DEF Digit
    <3>2. /\ ~((8 - bits) + 5 <= 8) /\ 8 - (8 - bits) = bits
          /\ (8 - bits) + 5 - 8 = 5 - bits /\ 16 - (8 - bits) - 5 = bits + 3
          /\ (next - 1) + 1 = next
      BY <1>1, <2>1
    <3>3. Digit(Len(text) + 1) = (ByteAt(next - 1) % Pow2(bits)) * Pow2(5 - bits)
                                 + 0 \div Pow2(bits + 3)
      BY <1>4, <2>2, <3>1, <3>2 DEF Window
    <3>4. /\ 0 \div Pow2(bits + 3) = 0
          /\ (ByteAt(next - 1) % Pow2(bits)) * Pow2(5 - bits) \in Int
      <4>1. /\ Pow2(bits + 3) \in {16, 32, 64, 128} /\ Pow2(5 - bits) \in {2, 4, 8, 16}
            /\ Pow2(bits) \in {2, 4, 8, 16}
        BY <2>1 DEF Pow2
      <4>2. ByteAt(next - 1) \in Int
        BY <1>4 DEF Byte
      <4> HIDE DEF rest
      <4> QED
        BY <4>1, <4>2
    <3>5. rest = (ByteAt(next - 1) % Pow2(bits)) * Pow2(5 - bits)
      BY <1>1, <1>3, <1>4, <2>1, DigitOfRest
    <3> QED
      BY <3>3, <3>4, <3>5
  <2> HIDE DEF rest
  <2>4. rest \in 0..63 /\ text' = Append(text, rest)
    <3>1. Len(text) + 1 \in Nat \ {0}
      BY <1>2
    <3> QED
      BY <1>0, <1>1, <1>6, <2>3, <3>1, DigitsAreDigits
  <2>5. Len(text') = Len(text) + 1 /\ Digits = Len(text) + 1
    <3>1. Len(text') = Len(text) + 1
      BY <1>1, <2>4, AppendProperties
    <3>2. (8 * Len(data) + 4) \div 5 = Len(text) + 1
      BY <1>2, <1>3, <2>1
    <3>3. Digits = (8 * Len(data) + 4) \div 5
      <4>1. 8 * Len(data) + 5 - 1 = 8 * Len(data) + 4
        BY <1>2
      <4> QED
        BY <2>1, <4>1 DEF Digits
    <3> QED
      BY <3>1, <3>2, <3>3
  <2>6. \A k \in 1..Len(text') : text'[k] = Digit(k)
    BY <1>1, <1>2, <1>3, <2>3, <2>4, <2>5
  <2>7. CodecTypeOK'
    <3>1. text' \in Seq(0..Unknown)
      <4>1. rest \in 0..Unknown /\ text \in Seq(0..Unknown)
        BY <1>1, <2>4 DEF Unknown
      <4> QED
        BY <2>4, <4>1
    <3> QED
      BY <1>0, <1>1, <3>1 DEF CodecTypeOK
  <2>8. Rfc4648'
    <3>1. Len(text') = Digits' /\ \A k \in 1..Len(text') : text'[k] = Digit(k)'
      BY <1>1, <2>5, <2>6, SameMessage
    <3> QED
      BY <1>1, <1>2, <2>5, <3>1 DEF Rfc4648
  <2> QED
    BY <1>0, <1>1, <2>7, <2>8, StartReadingKeeps DEF CodecInv, Writing32Inv, Writing64Inv, WritingInv
<1> QED
  BY <1>1, <1>5, <1>6
-----------------------------------------------------------------------------
(* The steps of Base64Encode *)

\* The four digits that three bytes are cut into.
LEMMA SextetsOfBytes ==
    ASSUME NEW x \in Byte, NEW y \in Byte, NEW z \in Byte
    PROVE  /\ Sextet(x * 16 + y \div 16, 6) = (x \div 4) % 64
           /\ Sextet(x * 16 + y \div 16, 0) = ((x % 4) * 16) + (y \div 16)
           /\ Sextet((y % 16) * 256 + z, 6) = ((y % 16) * 4) + (z \div 64)
           /\ Sextet((y % 16) * 256 + z, 0) = (z \div 1) % 64
<1>1. Pow2(6) = 64 /\ Pow2(0) = 1
  BY DEF Pow2
<1>2. /\ ((x * 16 + y \div 16) \div 64) % 64 = (x \div 4) % 64
      /\ ((x * 16 + y \div 16) \div 1) % 64 = ((x % 4) * 16) + (y \div 16)
      /\ (((y % 16) * 256 + z) \div 64) % 64 = ((y % 16) * 4) + (z \div 64)
      /\ (((y % 16) * 256 + z) \div 1) % 64 = (z \div 1) % 64
  BY DEF Byte
<1> QED
  BY <1>1, <1>2 DEF Sextet

\* The same four, as windows.
LEMMA FourDigits ==
    ASSUME CodecTypeOK, codec = "base64", NEW l \in Nat, NEW n \in Nat, 4 * (n - 1) = 3 * l
    PROVE  /\ Digit(l + 1) = Sextet(ByteAt(n) * 16 + ByteAt(n + 1) \div 16, 6)
           /\ Digit(l + 2) = Sextet(ByteAt(n) * 16 + ByteAt(n + 1) \div 16, 0)
           /\ Digit(l + 3) = Sextet((ByteAt(n + 1) % 16) * 256 + ByteAt(n + 2), 6)
           /\ Digit(l + 4) = Sextet((ByteAt(n + 1) % 16) * 256 + ByteAt(n + 2), 0)
<1>1. Width = 6
  BY DEF Width
<1>2. /\ (6 * ((l + 1) - 1)) \div 8 + 1 = n /\ (6 * ((l + 1) - 1)) % 8 = 0
      /\ (6 * ((l + 2) - 1)) \div 8 + 1 = n /\ (6 * ((l + 2) - 1)) % 8 = 6
      /\ (6 * ((l + 3) - 1)) \div 8 + 1 = n + 1 /\ (6 * ((l + 3) - 1)) % 8 = 4
      /\ (6 * ((l + 4) - 1)) \div 8 + 1 = n + 2 /\ (6 * ((l + 4) - 1)) % 8 = 2
  <2>1. 6 * l = 8 * (n - 1)
    OBVIOUS
  <2>2. /\ 6 * ((l + 1) - 1) = 8 * (n - 1)
        /\ 6 * ((l + 2) - 1) = 8 * (n - 1) + 6
        /\ 6 * ((l + 3) - 1) = 8 * n + 4
        /\ 6 * ((l + 4) - 1) = 8 * (n + 1) + 2
    BY <2>1
  <2> QED
    BY <2>2
<1>3. /\ Digit(l + 1) = Window(n, 0, 6) /\ Digit(l + 2) = Window(n, 6, 6)
      /\ Digit(l + 3) = Window(n + 1, 4, 6) /\ Digit(l + 4) = Window(n + 2, 2, 6)
  BY <1>1, <1>2 DEF Digit
<1>4. (n + 1) + 1 = n + 2
  OBVIOUS
<1>5. /\ Window(n, 0, 6) = (ByteAt(n) \div 4) % 64
      /\ Window(n, 6, 6) = ((ByteAt(n) % 4) * 16) + (ByteAt(n + 1) \div 16)
      /\ Window(n + 1, 4, 6) = ((ByteAt(n + 1) % 16) * 4) + (ByteAt(n + 2) \div 64)
      /\ Window(n + 2, 2, 6) = (ByteAt(n + 2) \div 1) % 64
  BY <1>4 DEF Window, Pow2
<1>6. ByteAt(n) \in Byte /\ ByteAt(n + 1) \in Byte /\ ByteAt(n + 2) \in Byte
  BY BytesAreBytes
<1> QED
  BY <1>3, <1>5, <1>6, SextetsOfBytes

LEMMA EncodeGroupKeeps == CodecInv /\ EncodeGroup => CodecInv'
<1> SUFFICES ASSUME CodecInv, EncodeGroup PROVE CodecInv'
  OBVIOUS
<1>0. CodecTypeOK /\ Writing64Inv /\ WritingInv
  BY DEF CodecInv
<1> DEFINE high == data[next] * 16 + data[next + 1] \div 16
           low == (data[next + 1] % 16) * 256 + data[next + 2]
           four == <<Sextet(high, 6), Sextet(high, 0), Sextet(low, 6), Sextet(low, 0)>>
<1>1. /\ codec = "base64" /\ phase = "encode" /\ phase' = "encode"
      /\ codec' = codec /\ data' = data /\ back' = back /\ spoilt' = spoilt
      /\ bits' = bits /\ value' = value /\ next \in Nat \ {0} /\ next' = next + 3
      /\ text \in Seq(0..Unknown) /\ next + 2 <= Len(data)
  BY <1>0 DEF CodecTypeOK, EncodeGroup
<1>2. text' = text \o four
  BY DEF EncodeGroup
<1>3. Len(text) \in Nat /\ Len(data) \in Nat
  BY <1>0, TextLength
<1>4. /\ bits = 0 /\ 4 * (next - 1) = 3 * Len(text)
      /\ \A k \in 1..Len(text) : text[k] = Digit(k)
  BY <1>0, <1>1 DEF Writing64Inv
<1>5. /\ ByteAt(next) = data[next] /\ ByteAt(next + 1) = data[next + 1]
      /\ ByteAt(next + 2) = data[next + 2]
  BY <1>1, <1>3 DEF ByteAt
<1>6. four = <<Digit(Len(text) + 1), Digit(Len(text) + 2), Digit(Len(text) + 3), Digit(Len(text) + 4)>>
  <2>1. /\ Digit(Len(text) + 1) = Sextet(high, 6) /\ Digit(Len(text) + 2) = Sextet(high, 0)
        /\ Digit(Len(text) + 3) = Sextet(low, 6) /\ Digit(Len(text) + 4) = Sextet(low, 0)
    BY <1>0, <1>1, <1>3, <1>4, <1>5, FourDigits
  <2> QED
    BY <2>1
<1> HIDE DEF four
<1>7. four \in Seq(0..Unknown) /\ Len(four) = 4
  <2>1. \A i \in 1..4 : Digit(Len(text) + i) \in 0..Unknown
    <3> SUFFICES ASSUME NEW i \in 1..4 PROVE Digit(Len(text) + i) \in 0..Unknown
      OBVIOUS
    <3>1. Len(text) + i \in Nat \ {0}
      BY <1>3
    <3>2. Digit(Len(text) + i) \in 0..63
      BY <1>0, <3>1, DigitsAreDigits
    <3> QED
      BY <3>2 DEF Unknown
  <2> QED
    BY <1>6, <2>1
<1>8. CodecTypeOK'
  <2>1. text' \in Seq(0..Unknown)
    BY <1>1, <1>2, <1>7
  <2> QED
    BY <1>0, <1>1, <2>1 DEF CodecTypeOK
<1>9. Writing64Inv'
  <2>1. Len(text') = Len(text) + 4
    <3>1. text \in Seq(0..Unknown) /\ four \in Seq(0..Unknown)
      BY <1>1, <1>7
    <3>2. Len(text \o four) = Len(text) + Len(four)
      BY <3>1, ConcatProperties
    <3> QED
      BY <1>2, <1>7, <3>2
  <2>2. bits' = 0 /\ next' <= Len(data) + 1 /\ 4 * (next' - 1) = 3 * Len(text')
    BY <1>1, <1>3, <1>4, <2>1
  <2>3. ASSUME NEW k \in 1..Len(text') PROVE text'[k] = Digit(k)
    <3>1. CASE k <= Len(text)
      BY <1>1, <1>2, <1>3, <1>4, <1>7, <2>1, <3>1
    <3>2. CASE k > Len(text)
      <4>1. PICK i \in 1..4 : k = Len(text) + i
        <5>1. k - Len(text) \in 1..4 /\ k = Len(text) + (k - Len(text))
          BY <1>3, <2>1, <3>2
        <5> QED
          BY <5>1
      <4>2. text'[k] = four[i]
        BY <1>1, <1>2, <1>3, <1>7, <2>1, <4>1
      <4> QED
        BY <1>6, <4>1, <4>2
    <3> QED
      BY <1>3, <2>1, <3>1, <3>2
  <2> QED
    BY <1>1, <2>2, <2>3, SameMessage DEF Writing64Inv
<1> QED
  BY <1>0, <1>1, <1>8, <1>9 DEF CodecInv, Writing32Inv, WritingInv, Rfc4648, ReadingInv

\* Where the last group ends.
LEMMA TailLengths ==
    ASSUME NEW l \in Nat, NEW n \in Nat, NEW d \in Nat, 4 * (n - 1) = 3 * l
    PROVE  /\ d = n - 1 => (8 * d + 5) \div 6 = l /\ 4 * ((d + 2) \div 3) = l
           /\ d = n => (8 * d + 5) \div 6 = l + 2 /\ 4 * ((d + 2) \div 3) = l + 4
           /\ d = n + 1 => (8 * d + 5) \div 6 = l + 3 /\ 4 * ((d + 2) \div 3) = l + 4
<1>1. PICK j \in Nat : l = 4 * j /\ n = 3 * j + 1
  <2>1. l \div 4 \in Nat /\ l = 4 * (l \div 4) /\ n = 3 * (l \div 4) + 1
    OBVIOUS
  <2> QED
    BY <2>1
<1>2. CASE d = n - 1
  <2>1. 8 * d + 5 = 6 * (4 * j) + 5 /\ d + 2 = 3 * j + 2
    BY <1>1, <1>2
  <2> QED
    BY <1>1, <1>2, <2>1
<1>3. CASE d = n
  <2>1. 8 * d + 5 = 6 * (4 * j + 2) + 1 /\ d + 2 = 3 * (j + 1)
    BY <1>1, <1>3
  <2> QED
    BY <1>1, <1>3, <2>1
<1>4. CASE d = n + 1
  <2>1. 8 * d + 5 = 6 * (4 * j + 3) + 3 /\ d + 2 = 3 * (j + 1) + 1
    BY <1>1, <1>4
  <2> QED
    BY <1>1, <1>4, <2>1
<1> QED
  BY <1>2, <1>3, <1>4

LEMMA EncodeTailKeeps == CodecInv /\ EncodeTail => CodecInv'
<1> SUFFICES ASSUME CodecInv, EncodeTail PROVE CodecInv'
  OBVIOUS
<1>0. CodecTypeOK /\ Writing64Inv /\ WritingInv
  BY DEF CodecInv
<1> DEFINE one == LET high == data[next] * 16
                  IN <<Sextet(high, 6), Sextet(high, 0), Pad, Pad>>
           two == LET high == data[next] * 16 + data[next + 1] \div 16
                      low == (data[next + 1] % 16) * 256
                  IN <<Sextet(high, 6), Sextet(high, 0), Sextet(low, 6), Pad>>
           tail == CASE Len(data) - next = 0 -> one
                     [] Len(data) - next = 1 -> two
                     [] OTHER -> <<>>
<1>1. /\ codec = "base64" /\ phase = "encode" /\ phase' = "decode"
      /\ codec' = codec /\ data' = data /\ back' = back /\ spoilt' = spoilt
      /\ back = <<>> /\ StartReading
      /\ next \in Nat \ {0} /\ next' = 1 /\ bits' = 0 /\ value' = 0
      /\ text \in Seq(0..Unknown) /\ next + 2 > Len(data)
  BY <1>0 DEF CodecTypeOK, EncodeTail, StartReading, WritingInv
<1>2. text' = text \o tail
  BY DEF EncodeTail
<1>3. Len(text) \in Nat /\ Len(data) \in Nat
  BY <1>0, TextLength
<1>4. /\ next <= Len(data) + 1 /\ 4 * (next - 1) = 3 * Len(text)
      /\ \A k \in 1..Len(text) : text[k] = Digit(k)
  BY <1>0, <1>1 DEF Writing64Inv
<1>5. Digits = (8 * Len(data) + 5) \div 6
  <2>1. Width = 6 /\ 8 * Len(data) + 6 - 1 = 8 * Len(data) + 5
    BY <1>1, <1>3 DEF Width
  <2> QED
    BY <2>1 DEF Digits
<1>6. /\ Len(data) = next - 1 => Digits = Len(text) /\ 4 * ((Len(data) + 2) \div 3) = Len(text)
      /\ Len(data) = next => Digits = Len(text) + 2 /\ 4 * ((Len(data) + 2) \div 3) = Len(text) + 4
      /\ Len(data) = next + 1 => Digits = Len(text) + 3 /\ 4 * ((Len(data) + 2) \div 3) = Len(text) + 4
  <2> HIDE DEF tail
  <2>1. /\ Len(text) \in Nat /\ next \in Nat /\ Len(data) \in Nat
        /\ 4 * (next - 1) = 3 * Len(text)
    BY <1>1, <1>3, <1>4
  <2> QED
    BY <2>1, <1>5, TailLengths
<1>7. \A i \in 1..4 : Digit(Len(text) + i) \in 0..Unknown
  <2> SUFFICES ASSUME NEW i \in 1..4 PROVE Digit(Len(text) + i) \in 0..Unknown
    OBVIOUS
  <2>1. Len(text) + i \in Nat \ {0}
    BY <1>3
  <2>2. Digit(Len(text) + i) \in 0..63
    BY <1>0, <2>1, DigitsAreDigits
  <2> QED
    BY <2>2 DEF Unknown
<1>8. /\ tail \in Seq(0..Unknown)
      /\ Len(text) + Len(tail) = 4 * ((Len(data) + 2) \div 3)
      /\ \A i \in 1..Len(tail) :
            tail[i] = IF Len(text) + i <= Digits THEN Digit(Len(text) + i) ELSE Pad
      /\ Digits >= Len(text)
  <2>1. CASE Len(data) = next - 1
    <3>1. tail = <<>>
      BY <1>1, <1>3, <2>1
    <3> HIDE DEF tail
    <3> QED
      BY <1>3, <1>6, <2>1, <3>1
  <2>2. CASE Len(data) = next
    <3>1. tail = one
      BY <1>1, <1>3, <2>2
    <3>2. data[next] \in Byte /\ ByteAt(next) = data[next] /\ ByteAt(next + 1) = 0
      <4>1. next \in 1..Len(data) /\ next + 1 \notin 1..Len(data) /\ data \in Seq(Byte)
        BY <1>0, <1>1, <1>3, <2>2 DEF CodecTypeOK
      <4> QED
        BY <4>1 DEF ByteAt
    <3>3. data[next] * 16 + 0 \div 16 = data[next] * 16
      BY <3>2 DEF Byte
    <3>4. one = <<Digit(Len(text) + 1), Digit(Len(text) + 2), Pad, Pad>>
      <4>1. /\ Digit(Len(text) + 1) = Sextet(data[next] * 16, 6)
            /\ Digit(Len(text) + 2) = Sextet(data[next] * 16, 0)
        BY <1>0, <1>1, <1>3, <1>4, <3>2, <3>3, FourDigits
      <4> QED
        BY <4>1
    <3> HIDE DEF tail, one
    <3>5. Pad \in 0..Unknown
      BY DEF Pad, Unknown
    <3>6. tail \in Seq(0..Unknown) /\ Len(tail) = 4
      BY <1>7, <3>1, <3>4, <3>5
    <3>7. ASSUME NEW i \in 1..4
          PROVE  tail[i] = IF Len(text) + i <= Digits THEN Digit(Len(text) + i) ELSE Pad
      BY <1>3, <1>6, <2>2, <3>1, <3>4
    <3> QED
      BY <1>3, <1>6, <2>2, <3>6, <3>7
  <2>3. CASE Len(data) = next + 1
    <3>1. tail = two
      BY <1>1, <1>3, <2>3
    <3>2. /\ data[next] \in Byte /\ data[next + 1] \in Byte
          /\ ByteAt(next) = data[next] /\ ByteAt(next + 1) = data[next + 1] /\ ByteAt(next + 2) = 0
      <4>1. /\ next \in 1..Len(data) /\ next + 1 \in 1..Len(data)
            /\ next + 2 \notin 1..Len(data) /\ data \in Seq(Byte)
        BY <1>0, <1>1, <1>3, <2>3 DEF CodecTypeOK
      <4> QED
        BY <4>1 DEF ByteAt
    <3>3. (data[next + 1] % 16) * 256 + 0 = (data[next + 1] % 16) * 256
      BY <3>2 DEF Byte
    <3>4. two = <<Digit(Len(text) + 1), Digit(Len(text) + 2), Digit(Len(text) + 3), Pad>>
      <4>1. /\ Digit(Len(text) + 1) = Sextet(data[next] * 16 + data[next + 1] \div 16, 6)
            /\ Digit(Len(text) + 2) = Sextet(data[next] * 16 + data[next + 1] \div 16, 0)
            /\ Digit(Len(text) + 3) = Sextet((data[next + 1] % 16) * 256, 6)
        BY <1>0, <1>1, <1>3, <1>4, <3>2, <3>3, FourDigits
      <4> QED
        BY <4>1
    <3> HIDE DEF tail, two
    <3>5. Pad \in 0..Unknown
      BY DEF Pad, Unknown
    <3>6. tail \in Seq(0..Unknown) /\ Len(tail) = 4
      BY <1>7, <3>1, <3>4, <3>5
    <3>7. ASSUME NEW i \in 1..4
          PROVE  tail[i] = IF Len(text) + i <= Digits THEN Digit(Len(text) + i) ELSE Pad
      BY <1>3, <1>6, <2>3, <3>1, <3>4
    <3> QED
      BY <1>3, <1>6, <2>3, <3>6, <3>7
  <2>4. Len(data) = next - 1 \/ Len(data) = next \/ Len(data) = next + 1
    BY <1>1, <1>3, <1>4
  <2> HIDE DEF tail
  <2> QED
    BY <2>1, <2>2, <2>3, <2>4
<1> HIDE DEF tail
<1>9. /\ text' \in Seq(0..Unknown) /\ Len(text') = Len(text) + Len(tail)
      /\ \A k \in 1..Len(text') : text'[k] = IF k <= Digits THEN Digit(k) ELSE Pad
  <2>1. text \in Seq(0..Unknown) /\ tail \in Seq(0..Unknown) /\ Len(tail) \in Nat
    BY <1>1, <1>8
  <2>2. /\ text' \in Seq(0..Unknown) /\ Len(text') = Len(text) + Len(tail)
        /\ \A k \in 1..(Len(text) + Len(tail)) :
              text'[k] = IF k <= Len(text) THEN text[k] ELSE tail[k - Len(text)]
    BY <1>2, <2>1, ConcatProperties
  <2>3. ASSUME NEW k \in 1..Len(text')
        PROVE  text'[k] = IF k <= Digits THEN Digit(k) ELSE Pad
    <3>1. Digits \in Int
      BY <1>3, <1>5
    <3>2. CASE k <= Len(text)
      <4>1. k \in 1..Len(text) /\ k <= Digits
        BY <1>3, <1>8, <3>1, <3>2
      <4> QED
        BY <1>4, <2>1, <2>2, <3>2, <4>1
    <3>3. CASE k > Len(text)
      <4>1. k - Len(text) \in 1..Len(tail) /\ Len(text) + (k - Len(text)) = k
        BY <1>3, <2>1, <2>2, <3>3
      <4>2. text'[k] = tail[k - Len(text)]
        BY <1>3, <2>1, <2>2, <3>3
      <4> QED
        BY <1>8, <4>1, <4>2
    <3> QED
      BY <1>3, <2>1, <2>2, <3>2, <3>3
  <2> QED
    BY <2>2, <2>3
<1>10. CodecTypeOK'
  BY <1>0, <1>1, <1>9 DEF CodecTypeOK
<1>11. Rfc4648'
  <2>1. \A k \in 1..Len(text') : text'[k] = IF k <= Digits' THEN Digit(k)' ELSE Pad
    BY <1>1, <1>9, SameMessage
  <2>2. Len(text') = 4 * ((Len(data') + 2) \div 3)
    BY <1>1, <1>8, <1>9
  <2> QED
    BY <1>1, <2>1, <2>2 DEF Rfc4648
<1> QED
  BY <1>0, <1>1, <1>10, <1>11, StartReadingKeeps
     DEF CodecInv, Writing32Inv, Writing64Inv, WritingInv
-----------------------------------------------------------------------------
(* The steps of the decoders *)

LEMMA SpoilKeeps == ASSUME CodecInv, NEW k \in 1..Len(text), Spoil(k) PROVE CodecInv'
<1>0. CodecTypeOK /\ Rfc4648 /\ ReadingInv
  BY DEF CodecInv
<1>1. /\ phase = "decode" /\ phase' = "decode" /\ next = 1 /\ ~spoilt /\ spoilt' = TRUE
      /\ codec' = codec /\ data' = data /\ back' = back /\ next' = next
      /\ bits' = bits /\ value' = value /\ text' = [text EXCEPT ![k] = Unknown]
      /\ text \in Seq(0..Unknown) /\ Unknown \in 0..Unknown
  BY <1>0 DEF Spoil, CodecTypeOK, Unknown
<1>2. /\ text' \in Seq(0..Unknown) /\ Len(text') = Len(text)
      /\ \A j \in 1..Len(text) : text'[j] = IF j = k THEN Unknown ELSE text[j]
  BY <1>1
<1>3. CodecTypeOK'
  BY <1>0, <1>1, <1>2 DEF CodecTypeOK
<1>4. Rfc4648'
  <2>1. /\ Len(text) = IF codec = "base32" THEN Digits ELSE 4 * ((Len(data) + 2) \div 3)
        /\ \A j \in 1..Len(text) : text[j] = IF j <= Digits THEN Digit(j) ELSE Pad
    BY <1>0, <1>1 DEF Rfc4648
  <2>2. \A j \in 1..Len(text') :
           \/ text'[j] = IF j <= Digits' THEN Digit(j)' ELSE Pad
           \/ spoilt' /\ text'[j] = Unknown
    BY <1>1, <1>2, <2>1, SameMessage
  <2> QED
    BY <1>1, <1>2, <2>1, <2>2, SameMessage DEF Rfc4648
<1>5. ReadingInv'
  <2>1. DigitsRead' = DigitsRead /\ Width' = Width /\ (ByteAt(Len(back) + 1))' = ByteAt(Len(back) + 1)
    BY <1>1, SameMessage DEF DigitsRead
  <2> QED
    BY <1>0, <1>1, <1>2, <2>1 DEF ReadingInv
<1> QED
  BY <1>0, <1>1, <1>3, <1>4, <1>5 DEF CodecInv, Writing32Inv, Writing64Inv, WritingInv

\* A character of the alphabet is a digit of the message, in its place.
LEMMA DigitRead ==
    ASSUME CodecInv, Reading, IsDigit(text[next])
    PROVE  /\ next \in 1..Digits /\ text[next] = Digit(next)
           /\ DigitsRead = next - 1
<1>0. CodecTypeOK /\ Rfc4648 /\ ReadingInv
  BY DEF CodecInv
<1>1. /\ phase = "decode" /\ next \in 1..Len(text) /\ Len(text) \in Nat
  BY <1>0, TextLength DEF Reading, CodecTypeOK
<1>2. text[next] # Pad /\ text[next] # Unknown
  <2>1. Pow2(Width) \in {32, 64}
    BY DEF Pow2, Width
  <2> QED
    BY <2>1 DEF IsDigit, Pad, Unknown
<1>3. text[next] = IF next <= Digits THEN Digit(next) ELSE Pad
  BY <1>0, <1>1, <1>2 DEF Rfc4648
<1>4. Digits \in Nat
  BY <1>0, TextLength DEF Digits, Width
<1> QED
  BY <1>1, <1>2, <1>3, <1>4 DEF DigitsRead

\* A character of five bits read: the accumulator goes on to hold what it should.
LEMMA ReadFive ==
    ASSUME CodecInv, ReadDigit, codec = "base32"
    PROVE  /\ value' \in Nat
           /\ value' % Pow2(bits') = ByteAt(Len(back') + 1) \div Pow2(8 - bits')
           /\ \/ bits < 3 /\ bits' = bits + 5 /\ back' = back
              \/ /\ bits >= 3 /\ bits' = bits - 3
                 /\ back' = Append(back, ByteAt(Len(back) + 1))
<1>0. CodecTypeOK /\ ReadingInv
  BY DEF CodecInv
<1> DEFINE x == ByteAt(Len(back) + 1)
           y == ByteAt(Len(back) + 2)
           d == text[next]
<1>1. /\ phase = "decode" /\ Width = 5 /\ Pow2(Width) = 32
      /\ bits \in Nat /\ value \in Nat /\ back \in Seq(Byte) /\ Len(back) \in Nat
      /\ next \in Nat \ {0}
  <2>1. Width = 5
    BY DEF Width
  <2>2. Pow2(Width) = 32
    BY <2>1 DEF Pow2
  <2>3. phase = "decode"
    BY DEF ReadDigit, Reading
  <2> QED
    BY <1>0, <2>1, <2>2, <2>3, TextLength DEF CodecTypeOK
<1>2. /\ d = Digit(next) /\ DigitsRead = next - 1
  BY DigitRead DEF ReadDigit
<1>3. /\ bits \in 0..7 /\ 8 * Len(back) + bits = 5 * (next - 1)
      /\ value % Pow2(bits) = x \div Pow2(8 - bits)
  BY <1>0, <1>1, <1>2 DEF ReadingInv
<1>4. d = Window(Len(back) + 1, bits, 5) /\ d \in Nat
  <2>1. (5 * (next - 1)) \div 8 + 1 = Len(back) + 1 /\ (5 * (next - 1)) % 8 = bits
    BY <1>1, <1>3
  <2>2. Digit(next) \in 0..63
    BY <1>0, <1>1, DigitsAreDigits
  <2>3. Digit(next) = Window(Len(back) + 1, bits, 5)
    BY <1>1, <2>1 DEF Digit
  <2> HIDE DEF d
  <2>4. d = Window(Len(back) + 1, bits, 5)
    BY <1>2, <2>3, Zenon
  <2>5. d \in Nat
    BY <1>2, <2>2
  <2> QED
    BY <2>4, <2>5, Zenon
<1>5. x \in Byte /\ y \in Byte
  BY <1>0, BytesAreBytes
<1>6. /\ value' = (value * 32 + d) % Wrap
      /\ bits < 3 => bits' = bits + 5 /\ back' = back
      /\ bits >= 3 => /\ bits' = bits - 3
                      /\ back' = Append(back, (value' \div Pow2(bits - 3)) % 256)
  <2>1. bits + 5 >= 8 <=> bits >= 3
    BY <1>1
  <2>2. bits + 5 - 8 = bits - 3
    BY <1>1
  <2>3. /\ value' = (value * Pow2(Width) + d) % Wrap
        /\ IF bits + Width >= 8
           THEN /\ back' = Append(back, (value' \div Pow2(bits + Width - 8)) % 256)
                /\ bits' = bits + Width - 8
           ELSE bits' = bits + Width /\ back' = back
    BY DEF ReadDigit
  <2> QED
    BY <1>1, <2>1, <2>2, <2>3
<1> HIDE DEF x, y, d
<1>7. PICK q \in Nat : value' \in Nat /\ value * 32 + d = value' + 4096 * q
  <2>1. (value * 32 + d) \in Nat
    BY <1>1, <1>4
  <2> QED
    BY <1>6, <2>1, Wrapped
<1>8. CASE bits < 3
  <2>1. bits \in 0..2
    BY <1>1, <1>3, <1>8
  <2>2. d = (x \div Pow2(3 - bits)) % 32
    <3>1. /\ bits + 5 <= 8 /\ 8 - bits - 5 = 3 - bits /\ Pow2(5) = 32
      BY <2>1 DEF Pow2
    <3> QED
      BY <1>4, <3>1 DEF Window, x
  <2>3. value' % Pow2(bits + 5) = x \div Pow2(3 - bits)
    <3>1. /\ value \in Nat /\ x \in Byte /\ d \in Nat /\ value' \in Nat
          /\ value % Pow2(bits) = x \div Pow2(8 - bits)
          /\ value * 32 + d = value' + 4096 * q
      BY <1>1, <1>3, <1>4, <1>5, <1>7
    <3> QED
      BY <2>1, <2>2, <3>1, FiveBitsKept
  <2>4. 8 - (bits + 5) = 3 - bits
    BY <2>1
  <2> QED
    BY <1>6, <1>7, <1>8, <2>3, <2>4 DEF x
<1>9. CASE bits >= 3
  <2>1. bits \in 3..7
    BY <1>1, <1>3, <1>9
  <2>2. d = ((x % Pow2(8 - bits)) * Pow2(bits - 3)) + (y \div Pow2(11 - bits))
    <3>1. CASE bits = 3
      <4>1. /\ bits + 5 <= 8 /\ 8 - bits - 5 = 0 /\ Pow2(5) = 32
        BY <3>1 DEF Pow2
      <4>2. d = (x \div Pow2(0)) % 32
        BY <1>4, <4>1 DEF Window, x
      <4>3. Pow2(0) = 1 /\ Pow2(8 - bits) = 32 /\ Pow2(bits - 3) = 1 /\ Pow2(11 - bits) = 256
        BY <3>1 DEF Pow2
      <4>4. (x \div 1) % 32 = ((x % 32) * 1) + (y \div 256)
        BY <1>5 DEF Byte
      <4> QED
        BY <4>2, <4>3, <4>4
    <3>2. CASE bits # 3
      <4>1. /\ ~(bits + 5 <= 8) /\ bits + 5 - 8 = bits - 3 /\ 16 - bits - 5 = 11 - bits
            /\ (Len(back) + 1) + 1 = Len(back) + 2
        BY <1>1, <2>1, <3>2
      <4> QED
        BY <1>4, <4>1 DEF Window, x, y
    <3> QED
      BY <3>1, <3>2
  <2>3. (value' \div Pow2(bits - 3)) % 256 = x /\ value' % Pow2(bits - 3) = y \div Pow2(11 - bits)
    <3>1. /\ value \in Nat /\ x \in Byte /\ y \in Byte /\ d \in Nat /\ value' \in Nat
          /\ value % Pow2(bits) = x \div Pow2(8 - bits)
          /\ value * 32 + d = value' + 4096 * q
      BY <1>1, <1>3, <1>4, <1>5, <1>7
    <3> QED
      BY <2>1, <2>2, <3>1, FiveBitsDone, SMTT(60)
  <2>4. 8 - (bits - 3) = 11 - bits
    BY <2>1
  <2>5. Len(back') + 1 = Len(back) + 2
    <3>1. Len(back') = Len(back) + 1
      BY <1>1, <1>5, <1>6, <1>9, <2>3, AppendProperties
    <3> QED
      BY <1>1, <3>1
  <2> QED
    BY <1>6, <1>7, <1>9, <2>3, <2>4, <2>5 DEF x, y
<1> QED
  BY <1>1, <1>8, <1>9

\* A character of six bits read: the accumulator goes on to hold what it should.
LEMMA ReadSix ==
    ASSUME CodecInv, ReadDigit, codec = "base64"
    PROVE  /\ value' \in Nat
           /\ value' % Pow2(bits') = ByteAt(Len(back') + 1) \div Pow2(8 - bits')
           /\ \/ bits < 2 /\ bits' = bits + 6 /\ back' = back
              \/ /\ bits >= 2 /\ bits' = bits - 2
                 /\ back' = Append(back, ByteAt(Len(back) + 1))
<1>0. CodecTypeOK /\ ReadingInv
  BY DEF CodecInv
<1> DEFINE x == ByteAt(Len(back) + 1)
           y == ByteAt(Len(back) + 2)
           d == text[next]
<1>1. /\ phase = "decode" /\ Width = 6 /\ Pow2(Width) = 64
      /\ bits \in Nat /\ value \in Nat /\ back \in Seq(Byte) /\ Len(back) \in Nat
      /\ next \in Nat \ {0}
  <2>1. Width = 6
    BY DEF Width
  <2>2. Pow2(Width) = 64
    BY <2>1 DEF Pow2
  <2>3. phase = "decode"
    BY DEF ReadDigit, Reading
  <2> QED
    BY <1>0, <2>1, <2>2, <2>3, TextLength DEF CodecTypeOK
<1>2. /\ d = Digit(next) /\ DigitsRead = next - 1
  BY DigitRead DEF ReadDigit
<1>3. /\ bits \in 0..7 /\ 8 * Len(back) + bits = 6 * (next - 1)
      /\ value % Pow2(bits) = x \div Pow2(8 - bits)
  BY <1>0, <1>1, <1>2 DEF ReadingInv
<1>4. d = Window(Len(back) + 1, bits, 6) /\ d \in Nat
  <2>1. (6 * (next - 1)) \div 8 + 1 = Len(back) + 1 /\ (6 * (next - 1)) % 8 = bits
    BY <1>1, <1>3
  <2>2. Digit(next) \in 0..63
    BY <1>0, <1>1, DigitsAreDigits
  <2>3. Digit(next) = Window(Len(back) + 1, bits, 6)
    BY <1>1, <2>1 DEF Digit
  <2> HIDE DEF d
  <2>4. d = Window(Len(back) + 1, bits, 6)
    BY <1>2, <2>3, Zenon
  <2>5. d \in Nat
    BY <1>2, <2>2
  <2> QED
    BY <2>4, <2>5, Zenon
<1>5. x \in Byte /\ y \in Byte
  BY <1>0, BytesAreBytes
<1>6. /\ value' = (value * 64 + d) % Wrap
      /\ bits < 2 => bits' = bits + 6 /\ back' = back
      /\ bits >= 2 => /\ bits' = bits - 2
                      /\ back' = Append(back, (value' \div Pow2(bits - 2)) % 256)
  <2>1. bits + 6 >= 8 <=> bits >= 2
    BY <1>1
  <2>2. bits + 6 - 8 = bits - 2
    BY <1>1
  <2>3. /\ value' = (value * Pow2(Width) + d) % Wrap
        /\ IF bits + Width >= 8
           THEN /\ back' = Append(back, (value' \div Pow2(bits + Width - 8)) % 256)
                /\ bits' = bits + Width - 8
           ELSE bits' = bits + Width /\ back' = back
    BY DEF ReadDigit
  <2> QED
    BY <1>1, <2>1, <2>2, <2>3
<1> HIDE DEF x, y, d
<1>7. PICK q \in Nat : value' \in Nat /\ value * 64 + d = value' + 4096 * q
  <2>1. (value * 64 + d) \in Nat
    BY <1>1, <1>4
  <2> QED
    BY <1>6, <2>1, Wrapped
<1>8. CASE bits < 2
  <2>1. bits \in {0}
    BY <1>1, <1>3, <1>8
  <2>2. d = (x \div Pow2(2 - bits)) % 64
    <3>1. /\ bits + 6 <= 8 /\ 8 - bits - 6 = 2 - bits /\ Pow2(6) = 64
      BY <2>1 DEF Pow2
    <3> QED
      BY <1>4, <3>1 DEF Window, x
  <2>3. value' % Pow2(bits + 6) = x \div Pow2(2 - bits)
    <3>1. /\ value \in Nat /\ x \in Byte /\ d \in Nat /\ value' \in Nat
          /\ value % Pow2(bits) = x \div Pow2(8 - bits)
          /\ value * 64 + d = value' + 4096 * q
      BY <1>1, <1>3, <1>4, <1>5, <1>7
    <3> QED
      BY <2>1, <2>2, <3>1, SixBitsKept
  <2>4. 8 - (bits + 6) = 2 - bits
    BY <2>1
  <2> QED
    BY <1>6, <1>7, <1>8, <2>3, <2>4 DEF x
<1>9. CASE bits >= 2
  <2>1. bits \in {2, 4, 6}
    BY <1>1, <1>3, <1>9
  <2>2. d = ((x % Pow2(8 - bits)) * Pow2(bits - 2)) + (y \div Pow2(10 - bits))
    <3>1. CASE bits = 2
      <4>1. /\ bits + 6 <= 8 /\ 8 - bits - 6 = 0 /\ Pow2(6) = 64
        BY <3>1 DEF Pow2
      <4>2. d = (x \div Pow2(0)) % 64
        BY <1>4, <4>1 DEF Window, x
      <4>3. Pow2(0) = 1 /\ Pow2(8 - bits) = 64 /\ Pow2(bits - 2) = 1 /\ Pow2(10 - bits) = 256
        BY <3>1 DEF Pow2
      <4>4. (x \div 1) % 64 = ((x % 64) * 1) + (y \div 256)
        BY <1>5 DEF Byte
      <4> QED
        BY <4>2, <4>3, <4>4
    <3>2. CASE bits # 2
      <4>1. /\ ~(bits + 6 <= 8) /\ bits + 6 - 8 = bits - 2 /\ 16 - bits - 6 = 10 - bits
            /\ (Len(back) + 1) + 1 = Len(back) + 2
        BY <1>1, <2>1, <3>2
      <4> QED
        BY <1>4, <4>1 DEF Window, x, y
    <3> QED
      BY <3>1, <3>2
  <2>3. (value' \div Pow2(bits - 2)) % 256 = x /\ value' % Pow2(bits - 2) = y \div Pow2(10 - bits)
    <3>1. /\ value \in Nat /\ x \in Byte /\ y \in Byte /\ d \in Nat /\ value' \in Nat
          /\ value % Pow2(bits) = x \div Pow2(8 - bits)
          /\ value * 64 + d = value' + 4096 * q
      BY <1>1, <1>3, <1>4, <1>5, <1>7
    <3> QED
      BY <2>1, <2>2, <3>1, SixBitsDone, SMTT(60)
  <2>4. 8 - (bits - 2) = 10 - bits
    BY <2>1
  <2>5. Len(back') + 1 = Len(back) + 2
    <3>1. Len(back') = Len(back) + 1
      BY <1>1, <1>5, <1>6, <1>9, <2>3, AppendProperties
    <3> QED
      BY <1>1, <3>1
  <2> QED
    BY <1>6, <1>7, <1>9, <2>3, <2>4, <2>5 DEF x, y
<1> QED
  BY <1>1, <1>8, <1>9

LEMMA ReadDigitKeeps == ASSUME CodecInv, ReadDigit PROVE CodecInv'
<1>0. CodecTypeOK /\ Rfc4648 /\ ReadingInv
  BY DEF CodecInv
<1>1. /\ phase = "decode" /\ phase' = "decode" /\ codec' = codec /\ data' = data
      /\ text' = text /\ spoilt' = spoilt /\ next' = next + 1
      /\ next \in Nat \ {0} /\ next <= Len(text) /\ Len(text) \in Nat /\ Len(data) \in Nat
      /\ Len(back) \in Nat /\ bits \in Nat /\ bits < 8 /\ back \in Seq(Byte)
  BY <1>0, TextLength DEF ReadDigit, Reading, CodecTypeOK, ReadingInv
<1>2. next \in 1..Digits /\ DigitsRead = next - 1 /\ text[next] # Unknown
  <2>1. next \in 1..Digits /\ DigitsRead = next - 1
    BY DigitRead DEF ReadDigit
  <2>2. IsDigit(text[next])
    BY DEF ReadDigit
  <2>3. Pow2(Width) \in {32, 64}
    BY DEF Pow2, Width
  <2> QED
    BY <2>1, <2>2, <2>3 DEF IsDigit, Unknown
<1>3. Width \in {5, 6} /\ Digits = (8 * Len(data) + Width - 1) \div Width
  BY DEF Digits, Width
<1>4. 8 * Len(back) + bits = Width * (next - 1) /\ \A m \in 1..Len(back) : back[m] = data[m]
  BY <1>0, <1>1, <1>2 DEF ReadingInv
<1>5. /\ value' \in Nat
      /\ value' % Pow2(bits') = ByteAt(Len(back') + 1) \div Pow2(8 - bits')
      /\ \/ bits + Width < 8 /\ bits' = bits + Width /\ back' = back
         \/ /\ bits + Width >= 8 /\ bits' = bits + Width - 8
            /\ back' = Append(back, ByteAt(Len(back) + 1))
  <2>1. CASE codec = "base32"
    <3>1. Width = 5
      BY <2>1 DEF Width
    <3> QED
      BY <1>1, <2>1, <3>1, ReadFive
  <2>2. CASE codec = "base64"
    <3>1. Width = 6
      BY <2>2 DEF Width
    <3> QED
      BY <1>1, <2>2, <3>1, ReadSix
  <2> QED
    BY <1>0, <2>1, <2>2 DEF CodecTypeOK
<1>6. /\ back' \in Seq(Byte) /\ bits' \in 0..7
      /\ 8 * Len(back') + bits' = Width * next
      /\ \A m \in 1..Len(back') : back'[m] = data[m]
  <2>0. Width * next = Width * (next - 1) + Width
    <3>1. CASE Width = 5
      BY <1>1, <3>1
    <3>2. CASE Width = 6
      BY <1>1, <3>2
    <3> QED
      BY <1>3, <3>1, <3>2
  <2>1. CASE bits + Width < 8
    <3>1. back' = back /\ bits' = bits + Width
      BY <1>1, <1>3, <1>5, <2>1
    <3>2. bits' \in 0..7 /\ 8 * Len(back) + bits' = Width * next
      <4>1. bits' \in 0..7
        BY <1>1, <1>3, <2>1, <3>1
      <4>2. CASE Width = 5
        BY <1>1, <1>4, <3>1, <4>1, <4>2
      <4>3. CASE Width = 6
        BY <1>1, <1>4, <3>1, <4>1, <4>3
      <4> QED
        BY <1>3, <4>2, <4>3
    <3> QED
      BY <1>1, <1>4, <3>1, <3>2
  <2>2. CASE bits + Width >= 8
    <3>1. bits' = bits + Width - 8 /\ back' = Append(back, ByteAt(Len(back) + 1))
      BY <1>1, <1>3, <1>5, <2>2
    <3>2. ByteAt(Len(back) + 1) \in Byte
      BY <1>0, BytesAreBytes
    <3>3. /\ back' \in Seq(Byte) /\ Len(back') = Len(back) + 1
          /\ \A m \in 1..Len(back) : back'[m] = back[m]
          /\ back'[Len(back) + 1] = ByteAt(Len(back) + 1)
      BY <1>1, <3>1, <3>2, AppendProperties
    <3>4. Len(back) + 1 \in 1..Len(data)
      <4>1. 8 * (Len(back) + 1) <= Width * next
        BY <1>1, <1>3, <1>4, <2>2
      <4>2. CASE Width = 5
        <5>1. next <= (8 * Len(data) + 4) \div 5 /\ 8 * (Len(back) + 1) <= 5 * next
          BY <1>1, <1>2, <1>3, <4>1, <4>2
        <5> QED
          BY <1>1, <5>1
      <4>3. CASE Width = 6
        <5>1. next <= (8 * Len(data) + 5) \div 6 /\ 8 * (Len(back) + 1) <= 6 * next
          BY <1>1, <1>2, <1>3, <4>1, <4>3
        <5> QED
          BY <1>1, <5>1
      <4> QED
        BY <1>3, <4>2, <4>3
    <3>5. ByteAt(Len(back) + 1) = data[Len(back) + 1]
      BY <3>4 DEF ByteAt
    <3>6. \A m \in 1..Len(back') : back'[m] = data[m]
      BY <1>1, <1>4, <3>3, <3>5
    <3>7. bits' \in 0..7 /\ 8 * (Len(back) + 1) + bits' = Width * next
      BY <1>1, <1>3, <1>4, <2>2, <3>1
    <3> QED
      BY <3>3, <3>6, <3>7
  <2>3. (bits + Width < 8) \/ (bits + Width >= 8)
    BY <1>1, <1>3
  <2> QED
    BY <2>1, <2>2, <2>3
<1>7. CodecTypeOK'
  BY <1>0, <1>1, <1>5, <1>6 DEF CodecTypeOK
<1>8. Rfc4648'
  BY <1>0, <1>1, SameMessage DEF Rfc4648
<1>9. ReadingInv'
  <2>1. Digits' = Digits /\ Width' = Width /\ (ByteAt(Len(back) + 1))' = ByteAt(Len(back') + 1)
    BY <1>1, SameMessage
  <2>2. DigitsRead' = next
    BY <1>1, <1>2, <2>1 DEF DigitsRead
  <2>3. \A k \in 1..next : text[k] # Unknown
    BY <1>0, <1>1, <1>2 DEF ReadingInv
  <2>4. next' - 1 = next /\ next' <= Len(text') + 1 /\ bits' < 8
    BY <1>1, <1>6
  <2> QED
    BY <1>1, <1>5, <1>6, <2>1, <2>2, <2>3, <2>4 DEF ReadingInv
<1> QED
  BY <1>1, <1>7, <1>8, <1>9 DEF CodecInv, Writing32Inv, Writing64Inv, WritingInv

LEMMA SkipPadKeeps == ASSUME CodecInv, SkipPad PROVE CodecInv'
<1>0. CodecTypeOK /\ Rfc4648 /\ ReadingInv
  BY DEF CodecInv
<1>1. /\ phase = "decode" /\ phase' = "decode" /\ codec = "base64"
      /\ codec' = codec /\ data' = data /\ text' = text /\ spoilt' = spoilt /\ back' = back
      /\ bits' = bits /\ value' = value /\ next' = next + 1
      /\ next \in Nat \ {0} /\ next <= Len(text) /\ Len(text) \in Nat /\ text[next] = Pad
  BY <1>0, TextLength DEF SkipPad, Reading, Skipped, CodecTypeOK
<1>2. next > Digits
  <2>1. text[next] = (IF next <= Digits THEN Digit(next) ELSE Pad)
    BY <1>0, <1>1 DEF Rfc4648, Pad, Unknown
  <2>2. Digit(next) \in 0..63
    BY <1>0, <1>1, DigitsAreDigits
  <2>3. Digits \in Nat
    BY <1>0, TextLength DEF Digits, Width
  <2>4. Digit(next) # Pad
    BY <2>2 DEF Pad
  <2> QED
    BY <1>1, <2>1, <2>3, <2>4
<1>3. DigitsRead' = DigitsRead /\ Width' = Width
  <2>1. Digits \in Nat /\ Digits' = Digits /\ Width' = Width
    BY <1>0, <1>1, SameMessage, TextLength DEF Digits, Width
  <2> QED
    BY <1>1, <1>2, <2>1 DEF DigitsRead
<1>4. CodecTypeOK'
  BY <1>0, <1>1 DEF CodecTypeOK
<1>5. Rfc4648'
  BY <1>0, <1>1, SameMessage DEF Rfc4648
<1>6. ReadingInv'
  <2>1. /\ bits < 8 /\ 8 * Len(back) + bits = Width * DigitsRead
        /\ \A m \in 1..Len(back) : back[m] = data[m]
        /\ value % Pow2(bits) = ByteAt(Len(back) + 1) \div Pow2(8 - bits)
        /\ \A k \in 1..(next - 1) : text[k] # Unknown
    BY <1>0, <1>1 DEF ReadingInv
  <2>2. \A k \in 1..(next' - 1) : text[k] # Unknown
    BY <1>1, <2>1 DEF Pad, Unknown
  <2>3. (ByteAt(Len(back) + 1))' = ByteAt(Len(back) + 1)
    BY <1>1, SameMessage
  <2>4. next' <= Len(text') + 1
    BY <1>1
  <2> QED
    BY <1>1, <1>3, <2>1, <2>2, <2>3, <2>4 DEF ReadingInv
<1> QED
  BY <1>1, <1>4, <1>5, <1>6 DEF CodecInv, Writing32Inv, Writing64Inv, WritingInv

\* A step that leaves everything but the phase, once the text is being read.
LEMMA PhaseChangeKeeps ==
    ASSUME CodecInv, phase = "decode",
           UNCHANGED <<codec, data, text, spoilt, back, next, bits, value>>,
           phase' = "failed" \/ (phase' = "done" /\ next = Len(text) + 1)
    PROVE  CodecInv'
<1>0. CodecTypeOK /\ Rfc4648 /\ ReadingInv
  BY DEF CodecInv
<1>1. CodecTypeOK'
  BY <1>0 DEF CodecTypeOK
<1>2. Rfc4648'
  BY <1>0, SameMessage DEF Rfc4648
<1>3. ReadingInv'
  <2>1. DigitsRead' = DigitsRead /\ Width' = Width /\ (ByteAt(Len(back) + 1))' = ByteAt(Len(back) + 1)
    BY SameMessage DEF DigitsRead
  <2> QED
    BY <1>0, <2>1 DEF ReadingInv
<1> QED
  BY <1>1, <1>2, <1>3 DEF CodecInv, Writing32Inv, Writing64Inv, WritingInv

LEMMA StutterKeeps == ASSUME CodecInv, UNCHANGED codecVars PROVE CodecInv'
<1>1. /\ codec' = codec /\ data' = data /\ text' = text /\ spoilt' = spoilt /\ back' = back
      /\ next' = next /\ bits' = bits /\ value' = value /\ phase' = phase
  BY DEF codecVars
<1>2. /\ \A k : Digit(k)' = Digit(k)
      /\ Width' = Width /\ Digits' = Digits /\ DigitsRead' = DigitsRead
      /\ (ByteAt(next - 1))' = ByteAt(next - 1) /\ (ByteAt(next - 2))' = ByteAt(next - 2)
      /\ (ByteAt(Len(back) + 1))' = ByteAt(Len(back) + 1)
  BY <1>1, SameMessage DEF DigitsRead
<1>3. CodecTypeOK'
  BY <1>1 DEF CodecInv, CodecTypeOK
<1>4. Writing32Inv'
  BY <1>1, <1>2 DEF CodecInv, Writing32Inv
<1>5. Writing64Inv' /\ WritingInv'
  BY <1>1, <1>2 DEF CodecInv, Writing64Inv, WritingInv
<1>6. Rfc4648'
  BY <1>1, <1>2 DEF CodecInv, Rfc4648
<1>7. ReadingInv'
  BY <1>1, <1>2 DEF CodecInv, ReadingInv
<1> QED
  BY <1>3, <1>4, <1>5, <1>6, <1>7 DEF CodecInv

LEMMA InitCodecInv == CodecInit => CodecInv
<1> SUFFICES ASSUME NEW c \in {"base32", "base64"}, NEW message \in Messages,
                    CodecStart(c, message)
             PROVE  CodecInv
  BY DEF CodecInit
<1>1. /\ codec \in {"base32", "base64"} /\ data \in Seq(Byte) /\ text = <<>> /\ Len(text) = 0
      /\ spoilt = FALSE /\ back = <<>> /\ next = 1 /\ bits = 0 /\ value = 0 /\ phase = "encode"
  BY MessagesAssumption DEF CodecStart
<1>2. CodecTypeOK
  <2>1. /\ text \in Seq(0..Unknown) /\ back \in Seq(Byte)
        /\ next \in Nat \ {0} /\ bits \in 0..12 /\ value \in Nat
    BY <1>1
  <2> QED
    BY <1>1, <2>1 DEF CodecTypeOK
<1>3. Len(data) \in Nat /\ ByteAt(next - 1) \in Byte
  BY <1>2, TextLength, BytesAreBytes
<1>4. Writing32Inv
  <2>1. Pow2(0) = 1
    BY DEF Pow2
  <2>2. value % Pow2(bits) = ByteAt(next - 1) % Pow2(bits)
    BY <1>1, <1>3, <2>1, BytesAreNumbers
  <2> QED
    BY <1>1, <1>3, <2>2 DEF Writing32Inv
<1>5. Writing64Inv
  BY <1>1, <1>3 DEF Writing64Inv
<1> QED
  BY <1>1, <1>2, <1>4, <1>5 DEF CodecInv, WritingInv, Rfc4648, ReadingInv

-----------------------------------------------------------------------------
(* Theorems *)

\* CodecInv, which describes the text and both accumulators at every step, is
\* an invariant of the specification: of Base32Encode, Base64Encode and of the
\* two decoders, whatever the message and whatever the range of the integers.
THEOREM CodecInvariant == CodecSpec => []CodecInv
<1>1. CodecInit => CodecInv
  BY InitCodecInv
<1>2. CodecInv /\ [CodecNext]_codecVars => CodecInv'
  <2> SUFFICES ASSUME CodecInv, [CodecNext]_codecVars PROVE CodecInv'
    OBVIOUS
  <2>1. CASE TakeByte
    BY <2>1, TakeByteKeeps
  <2>2. CASE EmitDigit
    BY <2>2, EmitDigitKeeps
  <2>3. CASE EmitRest
    BY <2>3, EmitRestKeeps
  <2>4. CASE EncodeGroup
    BY <2>4, EncodeGroupKeeps
  <2>5. CASE EncodeTail
    BY <2>5, EncodeTailKeeps
  <2>6. CASE \E k \in 1..Len(text) : Spoil(k)
    BY <2>6, SpoilKeeps
  <2>7. CASE ReadDigit
    BY <2>7, ReadDigitKeeps
  <2>8. CASE SkipPad
    BY <2>8, SkipPadKeeps
  <2>9. CASE Reject
    BY <2>9, PhaseChangeKeeps DEF Reject, Reading
  <2>10. CASE Finish
    <3>1. next = Len(text) + 1 /\ phase = "decode"
      <4>1. phase = "decode" /\ next > Len(text) /\ next \in Nat /\ Len(text) \in Nat
        BY <2>10, TextLength DEF Finish, CodecInv, CodecTypeOK
      <4>2. next <= Len(text) + 1
        BY <4>1 DEF CodecInv, ReadingInv
      <4> QED
        BY <4>1, <4>2
    <3> QED
      BY <2>10, <3>1, PhaseChangeKeeps DEF Finish
  <2>11. CASE UNCHANGED codecVars
    BY <2>11, StutterKeeps
  <2> QED
    BY <2>1, <2>2, <2>3, <2>4, <2>5, <2>6, <2>7, <2>8, <2>9, <2>10, <2>11 DEF CodecNext
<1> QED
  BY <1>1, <1>2, PTL DEF CodecSpec

\* The variables keep their types; a byte is never more than 255.
THEOREM CodecTypes == CodecSpec => []CodecTypeOK
<1>1. CodecInv => CodecTypeOK
  BY DEF CodecInv
<1> QED
  BY <1>1, CodecInvariant, PTL

\* The text of a message is the one RFC 4648 gives, for every message.
THEOREM TextIsRfc4648 == CodecSpec => []Rfc4648
<1>1. CodecInv => Rfc4648
  BY DEF CodecInv
<1> QED
  BY <1>1, CodecInvariant, PTL

\* A text that is read to its end without an exception gives the message that
\* was written, for every message: nothing is lost or added where characters
\* and bytes do not meet, and a spoilt character never goes unnoticed.
THEOREM DecodeInvertsEncode == CodecSpec => []RoundTrip
<1>1. CodecInv => RoundTrip
  <2> SUFFICES ASSUME CodecInv, phase = "done" PROVE back = data
    BY DEF RoundTrip
  <2>0. CodecTypeOK /\ Rfc4648 /\ ReadingInv
    BY DEF CodecInv
  <2>1. Len(text) \in Nat /\ Len(data) \in Nat /\ Len(back) \in Nat /\ bits \in Nat
    BY <2>0, TextLength DEF CodecTypeOK
  <2>2. /\ next - 1 = Len(text) /\ bits < 8
        /\ 8 * Len(back) + bits = Width * DigitsRead
        /\ \A m \in 1..Len(back) : back[m] = data[m]
    BY <2>0, <2>1 DEF ReadingInv
  <2>3. Len(back) = Len(data)
    <3>1. CASE codec = "base32"
      <4>1. Width = 5 /\ Digits = (8 * Len(data) + 4) \div 5
        <5>1. Width = 5 /\ 8 * Len(data) + 5 - 1 = 8 * Len(data) + 4
          BY <2>1, <3>1 DEF Width
        <5> QED
          BY <5>1 DEF Digits
      <4>2. Len(text) = Digits
        BY <2>0, <3>1 DEF Rfc4648
      <4>3. DigitsRead = Digits
        BY <2>1, <2>2, <4>2 DEF DigitsRead
      <4> QED
        BY <2>1, <2>2, <4>1, <4>3
    <3>2. CASE codec = "base64"
      <4>1. Width = 6 /\ Digits = (8 * Len(data) + 5) \div 6
        <5>1. Width = 6 /\ 8 * Len(data) + 6 - 1 = 8 * Len(data) + 5
          BY <2>1, <3>2 DEF Width
        <5> QED
          BY <5>1 DEF Digits
      <4>2. Len(text) = 4 * ((Len(data) + 2) \div 3)
        BY <2>0, <3>2 DEF Rfc4648
      <4>3. Digits <= Len(text) /\ Digits \in Nat
        BY <2>1, <4>1, <4>2
      <4>4. DigitsRead = Digits
        BY <2>1, <2>2, <4>3 DEF DigitsRead
      <4> QED
        BY <2>1, <2>2, <4>1, <4>4
    <3> QED
      BY <2>0, <3>1, <3>2 DEF CodecTypeOK
  <2> QED
    BY <2>0, <2>1, <2>2, <2>3 DEF CodecTypeOK
<1> QED
  BY <1>1, CodecInvariant, PTL
=============================================================================
