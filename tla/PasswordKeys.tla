---------------------------- MODULE PasswordKeys ----------------------------
(***************************************************************************)
(* detail::HmacSha1 and detail::Pbkdf2HmacSha1. A byte is the set of the    *)
(* unknowns it is the exclusive or of, {} the byte 0, so that equal         *)
(* unknowns cancel as they do in the code; a byte of a SHA-1 is an unknown  *)
(* of its own for every text and place.                                     *)
(***************************************************************************)
EXTENDS Integers, SequencesExt

CONSTANTS
    Passwords, Salts, \* sequences of bytes
    Iterations,       \* the counts asked for; nothing keeps them from being 0
    KeyLengths,       \* key_len
    Sha1BlockSize,    \* kSha1BlockSize: 64 in the code
    Sha1DigestSize    \* kSha1DigestSize: 20 in the code

ASSUME KeyAssumption ==
    /\ Sha1BlockSize \in Nat /\ Sha1DigestSize \in 1..Sha1BlockSize
    /\ Iterations \subseteq Int /\ KeyLengths \subseteq Nat
    /\ \A p \in Passwords : p \in Seq(Range(p))

VARIABLES
    asked,       \* the arguments of Pbkdf2HmacSha1
    block_index, \* the block under way
    u, t,        \* the last HMAC, and the exclusive or of those so far
    round,       \* i of the inner loop
    out,         \* the key so far
    keyPhase     \* "blocks", "rounds", "done"

keyVars == <<asked, block_index, u, t, round, out, keyPhase>>

-----------------------------------------------------------------------------
(* HmacSha1 *)

Xor(a, b) == (a \ b) \cup (b \ a)
Fresh(kind, i, s) == {<<kind, i, s>>}
IPad == Fresh("ipad", 0, <<>>)
OPad == Fresh("opad", 0, <<>>)

Sha1(s) == [i \in 1..Sha1DigestSize |-> Fresh("sha1", i, s)]

\* std::vector::resize with zeros.
Resized(s, n) == [i \in 1..n |-> IF i <= Len(s) THEN s[i] ELSE {}]

\* Mutant: a key of exactly one block is hashed too.
BugBlockKey(key) == Resized(IF Len(key) >= Sha1BlockSize THEN Sha1(key) ELSE key, Sha1BlockSize)

BlockKey(key) == Resized(IF Len(key) > Sha1BlockSize THEN Sha1(key) ELSE key, Sha1BlockSize)

HmacSha1(key, data) ==
    LET padded(pad) == [i \in 1..Sha1BlockSize |-> Xor(BlockKey(key)[i], pad)]
    IN Sha1(padded(OPad) \o Sha1(padded(IPad) \o data))

-----------------------------------------------------------------------------
(* Pbkdf2HmacSha1 *)

\* block_index, highest byte first.
IndexBytes(n) == <<{}, {}, {}, IF n = 0 THEN {} ELSE Fresh("index", n, <<>>)>>

KeyStart(arguments) ==
    /\ asked = arguments
    /\ block_index = 1 /\ u = <<>> /\ t = <<>> /\ round = 0 /\ out = <<>> /\ keyPhase = "blocks"

KeyInit ==
    \E arguments \in [password : Passwords, salt : Salts, iterations : Iterations, length : KeyLengths] :
        KeyStart(arguments)

FirstRound ==
    /\ keyPhase = "blocks" /\ Len(out) < asked.length
    /\ u' = HmacSha1(asked.password, asked.salt \o IndexBytes(block_index))
    /\ t' = u' /\ round' = 1 /\ keyPhase' = "rounds"
    /\ UNCHANGED <<asked, block_index, out>>

NextRound ==
    /\ keyPhase = "rounds" /\ round < asked.iterations
    /\ u' = HmacSha1(asked.password, u)
    /\ t' = [j \in DOMAIN t |-> Xor(t[j], u'[j])]
    /\ round' = round + 1
    /\ UNCHANGED <<asked, block_index, out, keyPhase>>

EndBlock ==
    /\ keyPhase = "rounds" /\ round >= asked.iterations
    /\ out' = out \o t /\ block_index' = block_index + 1 /\ keyPhase' = "blocks"
    /\ UNCHANGED <<asked, u, t, round>>

KeyDone ==
    /\ keyPhase = "blocks" /\ Len(out) >= asked.length
    /\ out' = Resized(out, asked.length) /\ keyPhase' = "done"
    /\ UNCHANGED <<asked, block_index, u, t, round>>

KeyNext == FirstRound \/ NextRound \/ EndBlock \/ KeyDone

KeySpec == KeyInit /\ [][KeyNext]_keyVars

-----------------------------------------------------------------------------
\* PRF of RFC 8018, which is the HMAC of RFC 2104: a key of at most a block is
\* used as it is, a longer one hashed, and the rest of the block is 0.
Prf(key, data) ==
    LET short == Len(key) \in 0..Sha1BlockSize
        k0 == IF short THEN key ELSE Sha1(key)
        filled == k0 \o [i \in 1..(Sha1BlockSize - Len(k0)) |-> {}]
        mask(pad) == [i \in DOMAIN filled |-> Xor(pad, filled[i])]
    IN Sha1(mask(OPad) \o Sha1(mask(IPad) \o data))

\* U_1 to U_c for block l, and byte j of their exclusive or: the unknowns that
\* stand in an odd number of them.
ChainOf(q, l) ==
    LET c == IF q.iterations < 1 THEN 1 ELSE q.iterations
        chain[k \in 1..c] ==
            Prf(q.password, IF k = 1 THEN q.salt \o IndexBytes(l) ELSE chain[k - 1])
    IN chain

OddOnes(chain, j) ==
    {a \in UNION {chain[k][j] : k \in DOMAIN chain} :
        (Cardinality({k \in DOMAIN chain : a \in chain[k][j]}) % 2) = 1}

\* The key has the length asked for, and byte p is the one RFC 8018 gives:
\* blocks are numbered from 1, the last one may be cut, every iteration goes
\* into the exclusive or once, and passwords around the length of a block are
\* taken as HMAC takes them. A count below 1 counts as 1.
KeyIsRfc8018 ==
    keyPhase = "done" =>
        /\ Len(out) = asked.length
        /\ \A p \in 1..asked.length :
               out[p] = OddOnes(ChainOf(asked, (p - 1) \div Sha1DigestSize + 1),
                                ((p - 1) % Sha1DigestSize) + 1)
=============================================================================
