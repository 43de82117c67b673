------------------------------- MODULE Hashes -------------------------------
(***************************************************************************)
(* crypto::Multihash and base58: a tagged digest, or plain bytes in base58, *)
(* is written in one of its forms, the text reaches its reader whole or     *)
(* not, and is read. A character is its index in the form's alphabet.       *)
(***************************************************************************)
EXTENDS Integers, SequencesExt

CONSTANTS
    Plain,    \* byte strings that are written in base58 as they are
    Digests,  \* the digests that multihashes are made of
    NoHash,   \* an exception instead of a value
    Unread    \* nothing has been read yet

ASSUME HashAssumption == Plain \subseteq Seq(0..255) /\ Digests \subseteq Seq(0..255)

Kinds == {"Sha1", "Sha2_256", "Sha2_512", "Sha3", "Blake2b", "Blake2s"}
Forms == {"bytes", "hex", "base58", "json", "plain58"}

\* Characters that no digit of hex or base58 is written with.
Space == 252          \* white space
Plus  == 253
Minus == 254
NotInAlphabet == 255  \* any other
Stray == {Space, Plus, Minus, NotInAlphabet}

VARIABLES
    form,     \* how the value is written
    original, \* the Multihash, or the plain bytes
    carried,  \* what is written: bytes, digits, or the JSON object
    damage,   \* "unwritten", "none", and then "cut", "resized", "longer", "spoilt"
    reread    \* what the reader makes of it, or Unread

hashVars == <<form, original, carried, damage, reread>>

-----------------------------------------------------------------------------
(* Base58Encode and Base58Decode. Both keep a little-endian number and, for *)
(* each digit that comes in, multiply and add from the low end upwards.     *)

\* What carry is left over is written in new places, lowest first.
Spread(carry, base) ==
    IF carry = 0 THEN <<>> ELSE IF carry < base THEN <<carry>> ELSE <<carry % base, carry \div base>>

\* One digit of base `from` is taken into a number of base `to`.
TakeIn(number, digit, from, to) ==
    LET up[i \in 0..Len(number)] ==   \* the carry out of place i
            IF i = 0 THEN digit ELSE (number[i] * from + up[i - 1]) \div to
    IN [i \in DOMAIN number |-> (number[i] * from + up[i - 1]) % to] \o Spread(up[Len(number)], to)

\* The number that a big-endian text of digits of base `from` stands for.
Taken(s, from, to) == FoldLeft(LAMBDA n, d : TakeIn(n, d, from, to), <<>>, s)

\* How many of the leading digits are 0: they do not show in a number.
LeadingZeros(s) == CHOOSE n \in 0..Len(s) : (\A i \in 1..n : s[i] = 0) /\ (n = Len(s) \/ s[n + 1] # 0)

\* Mutant: zeros in front are not written.
BugConverted(s, from, to) == Reverse(Taken(s, from, to))

Converted(s, from, to) == [i \in 1..LeadingZeros(s) |-> 0] \o Reverse(Taken(s, from, to))

Base58Encode(bytes) == Converted(bytes, 256, 58)
NotBase58(text) == \E i \in DOMAIN text : text[i] >= 58
Base58Decode(text) == IF NotBase58(text) THEN NoHash ELSE Converted(text, 58, 256)

-----------------------------------------------------------------------------
(* Multihash *)

MultihashCode(kind) ==
    CASE kind = "Sha1" -> 17 [] kind = "Sha2_256" -> 18 [] kind = "Sha2_512" -> 19
      [] kind = "Sha3" -> 20 [] kind = "Blake2b" -> 64 [] kind = "Blake2s" -> 65

MultihashLength(kind) ==
    CASE kind = "Sha1" -> 20 [] kind \in {"Sha2_256", "Blake2s"} -> 32
      [] kind \in {"Sha2_512", "Sha3", "Blake2b"} -> 64

\* The constructor.
Multihash(kind, digest) ==
    IF Len(digest) > 127 \/ Len(digest) # MultihashLength(kind) THEN NoHash
    ELSE [kind |-> kind, digest |-> digest]

ToBytes(m) == <<MultihashCode(m.kind), Len(m.digest)>> \o m.digest

FromBytes(bytes) ==
    IF Len(bytes) < 2 THEN NoHash
    ELSE IF \A k \in Kinds : MultihashCode(k) # bytes[1] THEN NoHash
    ELSE IF Len(bytes) < 2 + bytes[2] THEN NoHash
    ELSE Multihash(CHOOSE k \in Kinds : MultihashCode(k) = bytes[1], SubSeq(bytes, 3, 2 + bytes[2]))

ToHexString(m) ==
    LET bytes == ToBytes(m)
    IN [i \in 1..(2 * Len(bytes)) |->
           IF i % 2 = 1 THEN bytes[(i + 1) \div 2] \div 16 ELSE bytes[i \div 2] % 16]

\* std::stoi of a pair, base 16: white space or a sign may come first, then it takes
\* the digits there are. Without any it throws.
NoDigits(first, second) == first >= 16 /\ (first = NotInAlphabet \/ second >= 16)

Stoi(first, second) ==
    IF first >= 16 THEN IF first = Minus THEN -second ELSE second
    ELSE IF second >= 16 THEN first ELSE first * 16 + second

\* The number is cast to a byte. A last character without a partner is not looked at.
FromHexString(text) ==
    LET pairs == Len(text) \div 2
    IN IF \E i \in 1..pairs : NoDigits(text[2 * i - 1], text[2 * i]) THEN NoHash
       ELSE FromBytes([i \in 1..pairs |-> Stoi(text[2 * i - 1], text[2 * i]) % 256])

FromBase58(text) == IF NotBase58(text) THEN NoHash ELSE FromBytes(Base58Decode(text))

\* ToJson and FromJson: the bytes travel as an array of numbers.
HashToJson(m) == [type |-> m.kind, hash |-> m.digest]
HashFromJson(json) == Multihash(json.type, json.hash)

-----------------------------------------------------------------------------
HashStart(f, value) ==
    /\ form = f /\ original = value
    /\ carried = <<>> /\ damage = "unwritten" /\ reread = Unread

Multihashes == {Multihash(k, d) : k \in Kinds, d \in Digests} \ {NoHash}

HashInit ==
    \/ \E bytes \in Plain : HashStart("plain58", bytes)
    \/ \E f \in Forms \ {"plain58"}, m \in Multihashes : HashStart(f, m)

Write ==
    /\ damage = "unwritten"
    /\ carried' = CASE form = "bytes" -> ToBytes(original) [] form = "hex" -> ToHexString(original)
                    [] form = "base58" -> Base58Encode(ToBytes(original))
                    [] form = "json" -> HashToJson(original) [] form = "plain58" -> Base58Encode(original)
    /\ damage' = "none"
    /\ UNCHANGED <<form, original, reread>>

\* The end is missing, something follows it, the array of the JSON object has
\* another length, or a character is another.
Damage ==
    /\ damage = "none" /\ reread = Unread
    /\ \/ /\ form # "json" /\ carried # <<>>
          /\ carried' = Front(carried) /\ damage' = "cut"
       \/ /\ form = "json"
          /\ LET n == Len(carried.hash)
             IN \E m \in {0, n - 1, n + 1, 2 * n} :
                   carried' = [carried EXCEPT !.hash = SubSeq(@ \o @, 1, m)]
          /\ damage' = "resized"
       \/ /\ form \in {"bytes", "hex"}
          /\ carried' = Append(carried, 1) /\ damage' = "longer"
       \/ /\ form \in {"hex", "base58", "plain58"}
          /\ \E i \in DOMAIN carried, c \in Stray : carried' = [carried EXCEPT ![i] = c]
          /\ damage' = "spoilt"
    /\ UNCHANGED <<form, original, reread>>

Read ==
    /\ damage # "unwritten" /\ reread = Unread
    /\ reread' = CASE form = "bytes" -> FromBytes(carried) [] form = "hex" -> FromHexString(carried)
                   [] form = "base58" -> FromBase58(carried) [] form = "json" -> HashFromJson(carried)
                   [] form = "plain58" -> Base58Decode(carried)
    /\ UNCHANGED <<form, original, carried, damage>>

HashNext == Write \/ Damage \/ Read

HashSpec == HashInit /\ [][HashNext]_hashVars

-----------------------------------------------------------------------------
\* What is written in any form is read back as it was, zeros at its front
\* included; what follows the end is ignored; a value that has lost its end is
\* never taken for a multihash; and a character that is no digit is noticed,
\* except in hex where std::stoi passes over it: as the second of a pair, or as
\* a blank or a sign before a digit. Such a text passes for
\* another hash, but one of the same kind and length that differs in no byte but
\* the one the pair stands for: in its code or its length every stray is noticed.
HashSurvives ==
    reread # Unread =>
        /\ damage \in {"none", "longer"} => reread = original
        /\ damage \in {"cut", "resized"} /\ form # "plain58" => reread = NoHash
        /\ damage = "spoilt" /\ reread # NoHash =>
              /\ form = "hex"
              /\ \E n \in DOMAIN original.digest :
                    /\ carried[2 * n + 4] \in Stray \/ carried[2 * n + 3] \in {Space, Plus, Minus}
                    /\ \E byte \in 0..255 :
                          reread = [original EXCEPT !.digest[n] = byte]
=============================================================================
