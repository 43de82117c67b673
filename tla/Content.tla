------------------------------ MODULE Content ------------------------------
(***************************************************************************)
(* ra::common::Content over a sequence of calls: a body, what is told of it *)
(* (size, version, hash, fingerprint) and the algorithms, which a holder    *)
(* may change at any time. SetBody() describes the new body first and takes *)
(* it last, and may throw in between. A content travels as JSON; the model  *)
(* follows one copy, and the others are behaviours of their own.            *)
(***************************************************************************)
EXTENDS Integers, Sequences

CONSTANTS
    Bodies,           \* byte strings; a body is known by its number of bytes
    Algorithms,       \* HashAlgorithm
    None,             \* std::nullopt
    MaxVersion, MaxSalts   \* bounds: SetBody() calls done, hashes generated

Pbkdf2 == "Pbkdf2HmacSha1"

ASSUME AlgorithmsAssumption == {"Sha1", "Sha256", Pbkdf2} \subseteq Algorithms
ASSUME BodiesAssumption == Bodies \subseteq Nat /\ None \notin Bodies
ASSUME BoundsAssumption == MaxVersion \in Nat /\ MaxSalts \in Nat

Size(b) == b

-----------------------------------------------------------------------------
(* hash_util. A digest and a derived key are taken to be injective. A hash   *)
(* string is the sequence of the parts that '_' separates: no part contains  *)
(* one, and none is empty.                                                   *)

Digest(of, a) == [by |-> a, of |-> of]

GenerateHash(b, a, salt) ==
    IF a = Pbkdf2 THEN <<"1000", salt, Digest(<<salt, b>>, a)>>
                  ELSE <<Digest(<<salt, b>>, a), salt>>

\* A password hash that is not one does not verify; any other malformed hash throws.
VerifyHash(b, parts, a) ==
    IF a = Pbkdf2 THEN IF Len(parts) = 3 /\ parts[3] = Digest(<<parts[2], b>>, a)
                       THEN "yes" ELSE "no"
    ELSE IF Len(parts) # 2 THEN "throws"
    ELSE IF parts[1] = Digest(<<parts[2], b>>, a) THEN "yes" ELSE "no"

-----------------------------------------------------------------------------
\* crypto::Hash: a string with the algorithm it was made by.
Hash(value, a) == [hash |-> value, algorithm |-> a]

\* (A hash is not the absence of one.)
ASSUME NoneAssumption ==
    \A b \in Bodies, a, f \in Algorithms, s \in 1..MaxSalts :
        /\ Hash(GenerateHash(b, a, s), a) # None
        /\ Hash(Digest(GenerateHash(b, a, s), f), f) # None

\* A content that was only constructed: no body, default algorithms.
Blank == [body |-> None, size |-> 0, version |-> 0, hash |-> None, fingerprint |-> None,
          hash_algorithm |-> "Sha256", fingerprint_algorithm |-> "Sha1"]

\* Mutant: the size is only told with the hash.
BugSizedLate(c, b, gen_hash) == IF gen_hash THEN [c EXCEPT !.size = Size(b)] ELSE c

Sized(c, b, gen_hash) == [c EXCEPT !.size = Size(b)]

\* Mutant: the hash is made with the algorithm of the hash that was there.
BugHashedKeepsAlgorithm(c, b, gen_hash, salt) ==
    IF ~gen_hash THEN c
    ELSE [c EXCEPT !.hash =
             Hash(GenerateHash(b, c.hash_algorithm, salt),
                  IF c.hash = None THEN c.hash_algorithm ELSE c.hash.algorithm)]

Hashed(c, b, gen_hash, salt) ==
    IF gen_hash THEN [c EXCEPT !.hash = Hash(GenerateHash(b, c.hash_algorithm, salt),
                                             c.hash_algorithm)]
                ELSE c

\* Mutant: a fingerprint that is there is kept.
BugPrintedOnce(c, gen_print) ==
    IF gen_print /\ c.hash # None /\ c.fingerprint = None
    THEN [c EXCEPT !.fingerprint = Hash(Digest(c.hash.hash, c.fingerprint_algorithm),
                                        c.fingerprint_algorithm)]
    ELSE c

\* The fingerprint is of the hash string; asked for without a hash there is none.
Printed(c, gen_print) ==
    IF gen_print /\ c.hash # None
    THEN [c EXCEPT !.fingerprint = Hash(Digest(c.hash.hash, c.fingerprint_algorithm),
                                        c.fingerprint_algorithm)]
    ELSE c

\* GenerateFingerprint() throws on an algorithm that is no plain digest.
Throws(c, gen_print) == gen_print /\ c.hash # None /\ c.fingerprint_algorithm = Pbkdf2

Taken(c, b) == [[c EXCEPT !.body = b] EXCEPT !.version = @ + 1]

\* ToJson(): a body is written in base64, what is not set has no key.
ToJson(c) ==
    [k \in {"version", "size", "hash_algorithm", "fingerprint_algorithm"}
             \cup {o \in {"body", "hash", "fingerprint"} : c[o] # None} |->
        IF k = "body" THEN [base64 |-> c.body] ELSE c[k]]

\* Mutant: the content's algorithm is taken for the hash's.
BugFromJsonAlgorithm(d) ==
    [body        |-> IF "body" \in DOMAIN d THEN d["body"].base64 ELSE None,
     size        |-> d["size"], version |-> d["version"],
     hash        |-> IF "hash" \in DOMAIN d THEN Hash(d["hash"].hash, d["hash_algorithm"]) ELSE None,
     fingerprint |-> IF "fingerprint" \in DOMAIN d THEN d["fingerprint"] ELSE None,
     hash_algorithm |-> d["hash_algorithm"],
     fingerprint_algorithm |-> d["fingerprint_algorithm"]]

FromJson(d) ==
    [body        |-> IF "body" \in DOMAIN d THEN d["body"].base64 ELSE None,
     size        |-> d["size"], version |-> d["version"],
     hash        |-> IF "hash" \in DOMAIN d THEN d["hash"] ELSE None,
     fingerprint |-> IF "fingerprint" \in DOMAIN d THEN d["fingerprint"] ELSE None,
     hash_algorithm |-> d["hash_algorithm"],
     fingerprint_algorithm |-> d["fingerprint_algorithm"]]

-----------------------------------------------------------------------------
VARIABLES
    content,   \* the copy that is followed, or None before it is made
    last,      \* history: what its last SetBody() was asked, and whether it threw
    salts      \* the salts drawn so far, no two alike

contentVars == <<content, last, salts>>

BodyCall(gen_hash, gen_print, threw) == [hash |-> gen_hash, print |-> gen_print, threw |-> threw]

ContentInit ==
    /\ content = None
    /\ last = BodyCall(FALSE, FALSE, FALSE)
    /\ salts = 0

\* Content(kind, content_type).
Create ==
    /\ content = None
    /\ content' = Blank
    /\ last' = BodyCall(FALSE, FALSE, FALSE)
    /\ UNCHANGED salts

SetHashAlgorithm(a) ==
    /\ content # None
    /\ content' = [content EXCEPT !.hash_algorithm = a]
    /\ UNCHANGED <<last, salts>>

SetFingerprintAlgorithm(a) ==
    /\ content # None
    /\ content' = [content EXCEPT !.fingerprint_algorithm = a]
    /\ UNCHANGED <<last, salts>>

Draw(gen_hash) ==
    /\ gen_hash => salts < MaxSalts
    /\ salts' = IF gen_hash THEN salts + 1 ELSE salts

\* What the content c is when the fingerprint's turn comes.
Described(c, b, gen_hash) == Hashed(Sized(c, b, gen_hash), b, gen_hash, salts + 1)

\* SetBody() to its end, on c.
BodySet(c, b, gen_hash, gen_print) ==
    /\ ~Throws(Described(c, b, gen_hash), gen_print)
    /\ content' = Taken(Printed(Described(c, b, gen_hash), gen_print), b)
    /\ last' = BodyCall(gen_hash, gen_print, FALSE)
    /\ Draw(gen_hash)

\* Content::Build() of a content type it knows.
Build(b, gen_hash, gen_print) ==
    content = None /\ BodySet(Blank, b, gen_hash, gen_print)

\* SetBody() returns ...
SetBody(b, gen_hash, gen_print) ==
    /\ content # None /\ content.version < MaxVersion
    /\ BodySet(content, b, gen_hash, gen_print)

\* Mutant: the body is taken before it is described.
BugSetBodyThrows(b, gen_hash) ==
    /\ content # None
    /\ Throws(Described(content, b, gen_hash), TRUE)
    /\ content' = [Described(content, b, gen_hash) EXCEPT !.body = b]
    /\ last' = BodyCall(gen_hash, TRUE, TRUE)
    /\ Draw(gen_hash)

\* ... or throws: size and hash are of the new body, the body is not.
SetBodyThrows(b, gen_hash) ==
    /\ content # None
    /\ Throws(Described(content, b, gen_hash), TRUE)
    /\ content' = Described(content, b, gen_hash)
    /\ last' = BodyCall(gen_hash, TRUE, TRUE)
    /\ Draw(gen_hash)

\* The copy is written, and read somewhere else, where it is followed from now on.
Hop ==
    /\ content # None
    /\ content' = FromJson(ToJson(content))
    /\ UNCHANGED <<last, salts>>

ContentNext ==
    \/ Create \/ Hop
    \/ \E a \in Algorithms : SetHashAlgorithm(a) \/ SetFingerprintAlgorithm(a)
    \/ \E b \in Bodies, gen_hash \in BOOLEAN :
          \/ SetBodyThrows(b, gen_hash)
          \/ \E gen_print \in BOOLEAN : Build(b, gen_hash, gen_print) \/ SetBody(b, gen_hash, gen_print)

ContentSpec == ContentInit /\ [][ContentNext]_contentVars

-----------------------------------------------------------------------------
\* What a holder who checks the body against the hash it came with is told.
Verified(c) == VerifyHash(c.body, c.hash.hash, c.hash.algorithm)

\* A hash was made by the algorithm it is kept with, of some body; a fingerprint by
\* a plain one, of the string of such a hash.
Hashes(n) == {Hash(GenerateHash(b, a, s), a) : b \in Bodies, a \in Algorithms, s \in 1..n}

Prints(n) == {Hash(Digest(x.hash, f), f) : x \in Hashes(n), f \in Algorithms \ {Pbkdf2}}

\* The contents there can be once n salts are drawn.
Contents(n) ==
    [body : Bodies \cup {None}, size : Nat, version : Nat,
     hash : Hashes(n) \cup {None}, fingerprint : Prints(n) \cup {None},
     hash_algorithm : Algorithms, fingerprint_algorithm : Algorithms]

ContentTypeOK ==
    /\ content # None => content \in Contents(salts)
    /\ last \in [hash : BOOLEAN, print : BOOLEAN, threw : BOOLEAN]
    /\ salts \in 0..MaxSalts

\* Unless the last SetBody() threw, the size is of the body, hops included.
SizeIsOfBody ==
    content # None /\ ~last.threw =>
        content.size = IF content.body = None THEN 0 ELSE Size(content.body)

\* When the last SetBody() was asked for a hash and did not throw, the body verifies
\* against it, whichever algorithms were chosen since and however far it travelled.
HashIsOfBody ==
    content # None /\ last.hash /\ ~last.threw =>
        content.hash # None /\ Verified(content) = "yes"

\* The hash a content comes with can always be checked: it may be of another body,
\* but the check never throws, not even after a SetBody() that did.
HashIsReadable ==
    content # None =>
        (content.hash # None /\ content.body # None => Verified(content) # "throws")

\* When the last SetBody() was asked for a fingerprint and did not throw, it is of
\* the hash that is there.
FingerprintIsOfHash ==
    content # None /\ last.print /\ ~last.threw => (content.hash # None =>
        /\ content.fingerprint # None
        /\ content.fingerprint.hash = Digest(content.hash.hash, content.fingerprint.algorithm))

\* No version stands for two bodies and each stands for one: a SetBody() that
\* throws, a change of algorithms or a hop touches neither.
VersionTellsBody ==
    [][content # None =>
           \/ content'.version = content.version /\ content'.body = content.body
           \/ content'.version = content.version + 1 /\ content'.body # None]_contentVars

ContentInv ==
    ContentTypeOK /\ SizeIsOfBody /\ HashIsOfBody /\ HashIsReadable /\ FingerprintIsOfHash
=============================================================================
