--------------------------- MODULE Content_proofs ---------------------------
(***************************************************************************)
(* Proofs about Content, for any bodies and algorithms: JSON loses nothing, *)
(* and what a content says of its body is true unless a SetBody() threw.    *)
(***************************************************************************)
EXTENDS Content, TLAPS

-----------------------------------------------------------------------------
\* Hash strings: what GenerateHash() returns, VerifyHash() takes apart.

LEMMA OwnHashVerifies ==
    ASSUME NEW b \in Bodies, NEW a \in Algorithms, NEW s
    PROVE  VerifyHash(b, GenerateHash(b, a, s), a) = "yes"
<1>1. CASE a = Pbkdf2
  BY <1>1 DEF VerifyHash, GenerateHash
<1>2. CASE a # Pbkdf2
  BY <1>2 DEF VerifyHash, GenerateHash
<1>3. QED
  BY <1>1, <1>2

LEMMA HashNeverMalformed ==
    ASSUME NEW b \in Bodies, NEW o \in Bodies, NEW a \in Algorithms, NEW s
    PROVE  VerifyHash(b, GenerateHash(o, a, s), a) # "throws"
<1>1. CASE a = Pbkdf2
  BY <1>1 DEF VerifyHash, GenerateHash
<1>2. CASE a # Pbkdf2
  BY <1>2 DEF VerifyHash, GenerateHash
<1>3. QED
  BY <1>1, <1>2

-----------------------------------------------------------------------------
\* The steps of SetBody(), each on a content there can be.

LEMMA ContentsGrow ==
    ASSUME NEW m \in Nat, NEW n \in Nat, m <= n
    PROVE  Contents(m) \subseteq Contents(n)
<1>1. Hashes(m) \subseteq Hashes(n)
  BY DEF Hashes
<1>2. Prints(m) \subseteq Prints(n)
  BY <1>1 DEF Prints
<1>3. QED
  BY <1>1, <1>2 DEF Contents

LEMMA FieldsOf ==
    ASSUME NEW n \in Nat, NEW c \in Contents(n)
    PROVE  /\ c = [body |-> c.body, size |-> c.size, version |-> c.version, hash |-> c.hash,
                   fingerprint |-> c.fingerprint, hash_algorithm |-> c.hash_algorithm,
                   fingerprint_algorithm |-> c.fingerprint_algorithm]
           /\ c.body \in Bodies \cup {None} /\ c.size \in Nat /\ c.version \in Nat
           /\ c.hash \in Hashes(n) \cup {None} /\ c.fingerprint \in Prints(n) \cup {None}
           /\ c.hash_algorithm \in Algorithms /\ c.fingerprint_algorithm \in Algorithms
BY DEF Contents

\* The number of salts drawn after a call.
Drawn(n, gen_hash) == IF gen_hash THEN n + 1 ELSE n

LEMMA SizedIs ==
    ASSUME NEW n \in Nat, NEW c \in Contents(n), NEW b \in Bodies, NEW g \in BOOLEAN
    PROVE  /\ Sized(c, b, g) \in Contents(n) /\ Sized(c, b, g).size = b
           /\ Sized(c, b, g).body = c.body /\ Sized(c, b, g).version = c.version
           /\ Sized(c, b, g).hash = c.hash /\ Sized(c, b, g).fingerprint = c.fingerprint
           /\ Sized(c, b, g).hash_algorithm = c.hash_algorithm
           /\ Sized(c, b, g).fingerprint_algorithm = c.fingerprint_algorithm
BY BodiesAssumption DEF Sized, Size, Contents

LEMMA HashedIs ==
    ASSUME NEW n \in Nat, NEW c \in Contents(n), NEW b \in Bodies, NEW g \in BOOLEAN
    PROVE  LET d == Hashed(c, b, g, n + 1) IN
           /\ d \in Contents(Drawn(n, g)) /\ d.size = c.size
           /\ d.body = c.body /\ d.version = c.version /\ d.fingerprint = c.fingerprint
           /\ d.hash_algorithm = c.hash_algorithm
           /\ d.fingerprint_algorithm = c.fingerprint_algorithm
           /\ d.hash = IF g THEN Hash(GenerateHash(b, c.hash_algorithm, n + 1), c.hash_algorithm)
                            ELSE c.hash
<1>1. CASE ~g
  BY <1>1 DEF Hashed, Drawn
<1>2. CASE g
  <2> DEFINE x == Hash(GenerateHash(b, c.hash_algorithm, n + 1), c.hash_algorithm)
  <2>1. c \in Contents(n + 1)
    BY ContentsGrow
  <2>2. x \in Hashes(n + 1)
    <3>1. c.hash_algorithm \in Algorithms /\ n + 1 \in 1..(n + 1)
      BY FieldsOf
    <3>2. QED
      BY <3>1 DEF Hashes
  <2>3. Hashed(c, b, g, n + 1) = [c EXCEPT !.hash = x]
    BY <1>2 DEF Hashed
  <2> HIDE DEF x
  <2>4. [c EXCEPT !.hash = x] \in Contents(n + 1)
    BY <2>1, <2>2 DEF Contents
  <2>5. /\ [c EXCEPT !.hash = x].size = c.size /\ [c EXCEPT !.hash = x].body = c.body
        /\ [c EXCEPT !.hash = x].version = c.version
        /\ [c EXCEPT !.hash = x].fingerprint = c.fingerprint
        /\ [c EXCEPT !.hash = x].hash_algorithm = c.hash_algorithm
        /\ [c EXCEPT !.hash = x].fingerprint_algorithm = c.fingerprint_algorithm
        /\ [c EXCEPT !.hash = x].hash = x
    BY <2>1 DEF Contents
  <2>6. QED
    BY <1>2, <2>3, <2>4, <2>5 DEF Drawn, x
<1>3. QED
  BY <1>1, <1>2

LEMMA DescribedIs ==
    ASSUME salts \in Nat, NEW c \in Contents(salts), NEW b \in Bodies, NEW g \in BOOLEAN
    PROVE  LET d == Described(c, b, g) IN
           /\ d \in Contents(Drawn(salts, g)) /\ d.size = b
           /\ d.body = c.body /\ d.version = c.version
           /\ d.hash_algorithm = c.hash_algorithm
           /\ d.hash = IF g THEN Hash(GenerateHash(b, c.hash_algorithm, salts + 1), c.hash_algorithm)
                            ELSE c.hash
<1> DEFINE s == Sized(c, b, g)
<1>1. /\ s \in Contents(salts) /\ s.size = b /\ s.body = c.body /\ s.version = c.version
      /\ s.hash = c.hash /\ s.hash_algorithm = c.hash_algorithm
  BY SizedIs
<1>2. Described(c, b, g) = Hashed(s, b, g, salts + 1)
  BY DEF Described
<1> HIDE DEF s
<1>3. LET d == Hashed(s, b, g, salts + 1) IN
        /\ d \in Contents(Drawn(salts, g)) /\ d.size = s.size
        /\ d.body = s.body /\ d.version = s.version
        /\ d.hash_algorithm = s.hash_algorithm
        /\ d.hash = IF g THEN Hash(GenerateHash(b, s.hash_algorithm, salts + 1), s.hash_algorithm)
                         ELSE s.hash
  BY <1>1, HashedIs
<1>4. QED
  BY <1>1, <1>2, <1>3

LEMMA HashIsNotNone ==
    ASSUME NEW n \in 0..MaxSalts, NEW x \in Hashes(n), NEW f \in Algorithms
    PROVE  x # None /\ Hash(Digest(x.hash, f), f) # None
<1>1. PICK b \in Bodies, a \in Algorithms, s \in 1..n : x = Hash(GenerateHash(b, a, s), a)
  BY DEF Hashes
<1>2. s \in 1..MaxSalts
  BY BoundsAssumption
<1>3. x.hash = GenerateHash(b, a, s)
  BY <1>1 DEF Hash
<1>4. QED
  BY <1>1, <1>2, <1>3, NoneAssumption

LEMMA PrintedIs ==
    ASSUME NEW n \in 0..MaxSalts, NEW c \in Contents(n), NEW p \in BOOLEAN, ~Throws(c, p)
    PROVE  LET d == Printed(c, p) IN
           /\ d \in Contents(n) /\ d.size = c.size /\ d.body = c.body
           /\ d.version = c.version /\ d.hash = c.hash
           /\ p /\ d.hash # None =>
                /\ d.fingerprint # None
                /\ d.fingerprint.hash = Digest(d.hash.hash, d.fingerprint.algorithm)
<1> DEFINE f == c.fingerprint_algorithm
           x == Hash(Digest(c.hash.hash, f), f)
<1>1. CASE ~(p /\ c.hash # None)
  BY <1>1 DEF Printed
<1>2. CASE p /\ c.hash # None
  <2>1. c.hash \in Hashes(n) /\ f \in Algorithms \ {Pbkdf2}
    BY <1>2, BoundsAssumption, FieldsOf DEF Throws
  <2>2. x \in Prints(n) /\ x # None
    BY <2>1, HashIsNotNone DEF Prints
  <2>3. x.hash = Digest(c.hash.hash, x.algorithm)
    BY DEF Hash
  <2>4. Printed(c, p) = [c EXCEPT !.fingerprint = x]
    BY <1>2 DEF Printed
  <2> HIDE DEF x
  <2>5. /\ [c EXCEPT !.fingerprint = x] \in Contents(n)
        /\ [c EXCEPT !.fingerprint = x].size = c.size
        /\ [c EXCEPT !.fingerprint = x].body = c.body
        /\ [c EXCEPT !.fingerprint = x].version = c.version
        /\ [c EXCEPT !.fingerprint = x].hash = c.hash
        /\ [c EXCEPT !.fingerprint = x].fingerprint = x
    BY <2>2 DEF Contents
  <2>6. QED
    BY <2>2, <2>3, <2>4, <2>5
<1>3. QED
  BY <1>1, <1>2

LEMMA TakenIs ==
    ASSUME NEW n \in Nat, NEW c \in Contents(n), NEW b \in Bodies
    PROVE  LET d == Taken(c, b) IN
           /\ d \in Contents(n) /\ d.size = c.size /\ d.body = b
           /\ d.version = c.version + 1 /\ d.hash = c.hash /\ d.fingerprint = c.fingerprint
<1> DEFINE e == [c EXCEPT !.body = b]
<1>1. /\ e \in Contents(n) /\ e.body = b /\ e.size = c.size /\ e.version = c.version
      /\ e.hash = c.hash /\ e.fingerprint = c.fingerprint
  BY DEF Contents
<1>2. Taken(c, b) = [e EXCEPT !.version = @ + 1]
  BY DEF Taken
<1> HIDE DEF e
<1>3. /\ [e EXCEPT !.version = @ + 1] \in Contents(n)
      /\ [e EXCEPT !.version = @ + 1].size = e.size /\ [e EXCEPT !.version = @ + 1].body = e.body
      /\ [e EXCEPT !.version = @ + 1].version = e.version + 1
      /\ [e EXCEPT !.version = @ + 1].hash = e.hash
      /\ [e EXCEPT !.version = @ + 1].fingerprint = e.fingerprint
  BY <1>1 DEF Contents
<1>4. QED
  BY <1>1, <1>2, <1>3

\* JSON: what is written is what was there, and what is absent is read as absent.
THEOREM JsonLosesNothing ==
    ASSUME NEW n \in Nat, NEW c \in Contents(n)
    PROVE  FromJson(ToJson(c)) = c
<1> DEFINE d == ToJson(c)
<1>1. /\ "version" \in DOMAIN d /\ d["version"] = c.version
      /\ "size" \in DOMAIN d /\ d["size"] = c.size
      /\ "hash_algorithm" \in DOMAIN d /\ d["hash_algorithm"] = c.hash_algorithm
      /\ "fingerprint_algorithm" \in DOMAIN d
      /\ d["fingerprint_algorithm"] = c.fingerprint_algorithm
  BY DEF ToJson
<1>2. /\ "body" \in DOMAIN d <=> c.body # None
      /\ "hash" \in DOMAIN d <=> c.hash # None
      /\ "fingerprint" \in DOMAIN d <=> c.fingerprint # None
  BY DEF ToJson
<1>3. c.body # None => d["body"].base64 = c.body
  BY DEF ToJson
<1>4. c.hash # None => d["hash"] = c.hash
  BY DEF ToJson
<1>5. c.fingerprint # None => d["fingerprint"] = c.fingerprint
  BY DEF ToJson
<1> HIDE DEF d
<1>6. FromJson(d) = [body |-> c.body, size |-> c.size, version |-> c.version, hash |-> c.hash,
                     fingerprint |-> c.fingerprint, hash_algorithm |-> c.hash_algorithm,
                     fingerprint_algorithm |-> c.fingerprint_algorithm]
  BY <1>1, <1>2, <1>3, <1>4, <1>5 DEF FromJson
<1>7. QED
  BY <1>6, FieldsOf DEF d

-----------------------------------------------------------------------------
\* The invariant.

\* A hash of the right form can be checked against any body.
LEMMA HashesAreReadable ==
    ASSUME NEW n \in Nat, NEW c \in Contents(n), c.hash # None, c.body # None
    PROVE  Verified(c) # "throws"
<1>1. PICK o \in Bodies, a \in Algorithms, s \in 1..n : c.hash = Hash(GenerateHash(o, a, s), a)
  BY FieldsOf DEF Hashes
<1>2. c.body \in Bodies
  BY FieldsOf
<1>3. c.hash.hash = GenerateHash(o, a, s) /\ c.hash.algorithm = a
  BY <1>1 DEF Hash
<1>4. QED
  BY <1>2, <1>3, HashNeverMalformed DEF Verified

\* SetBody() and Build(), from where they start to their end.
LEMMA BodySetKeeps ==
    ASSUME salts \in 0..MaxSalts, NEW c \in Contents(salts), NEW b \in Bodies,
           NEW g \in BOOLEAN, NEW p \in BOOLEAN, BodySet(c, b, g, p)
    PROVE  ContentInv' /\ content'.version = c.version + 1 /\ content'.body = b
<1> DEFINE d == Described(c, b, g)
           e == Printed(d, p)
<1>0. salts \in Nat /\ MaxSalts \in Nat
  BY BoundsAssumption
<1>1. /\ ~Throws(d, p) /\ content' = Taken(e, b) /\ last' = BodyCall(g, p, FALSE)
      /\ salts' = Drawn(salts, g) /\ salts' \in 0..MaxSalts /\ salts' \in Nat
  BY <1>0 DEF BodySet, Draw, Drawn
<1>2. /\ d \in Contents(salts') /\ d.size = b /\ d.version = c.version
      /\ g => d.hash = Hash(GenerateHash(b, c.hash_algorithm, salts + 1), c.hash_algorithm)
  BY <1>0, <1>1, DescribedIs
<1> HIDE DEF d
<1>3. /\ e \in Contents(salts') /\ e.size = b /\ e.version = c.version /\ e.hash = d.hash
      /\ p /\ e.hash # None =>
           /\ e.fingerprint # None
           /\ e.fingerprint.hash = Digest(e.hash.hash, e.fingerprint.algorithm)
  BY <1>1, <1>2, PrintedIs
<1> HIDE DEF e
<1>4. /\ content' \in Contents(salts') /\ content'.size = b /\ content'.body = b
      /\ content'.version = c.version + 1
      /\ content'.hash = d.hash /\ content'.fingerprint = e.fingerprint
  BY <1>1, <1>2, <1>3, TakenIs
<1>5. last'.hash = g /\ last'.print = p /\ last'.threw = FALSE
      /\ last' \in [hash : BOOLEAN, print : BOOLEAN, threw : BOOLEAN]
  BY <1>1 DEF BodyCall
<1>6. ContentTypeOK'
  BY <1>1, <1>4, <1>5 DEF ContentTypeOK
<1>7. SizeIsOfBody'
  BY <1>4, BodiesAssumption DEF SizeIsOfBody, Size
<1>8. HashIsOfBody'
  <2>1. ASSUME g PROVE content'.hash # None /\ Verified(content)' = "yes"
    <3>1. c.hash_algorithm \in Algorithms
      BY <1>0, FieldsOf
    <3>2. content'.hash = Hash(GenerateHash(b, c.hash_algorithm, salts + 1), c.hash_algorithm)
      BY <1>2, <1>4, <2>1
    <3>3. salts + 1 \in 1..MaxSalts
      BY <1>0, <1>1, <2>1 DEF Drawn
    <3>4. content'.hash # None
      BY <3>1, <3>2, <3>3, NoneAssumption
    <3>5. /\ content'.hash.hash = GenerateHash(b, c.hash_algorithm, salts + 1)
          /\ content'.hash.algorithm = c.hash_algorithm
      BY <3>2 DEF Hash
    <3>6. QED
      BY <1>4, <3>1, <3>4, <3>5, OwnHashVerifies DEF Verified
  <2>2. QED
    BY <1>5, <2>1 DEF HashIsOfBody
<1>9. HashIsReadable'
  <2>1. ASSUME content'.hash # None, content'.body # None PROVE Verified(content') # "throws"
    BY <1>1, <1>4, <2>1, HashesAreReadable
  <2>2. QED
    BY <2>1 DEF HashIsReadable, Verified
<1>10. FingerprintIsOfHash'
  BY <1>3, <1>4, <1>5 DEF FingerprintIsOfHash
<1>11. QED
  BY <1>4, <1>6, <1>7, <1>8, <1>9, <1>10 DEF ContentInv

\* A step that leaves alone what the properties speak of.
LEMMA SameClaims ==
    ASSUME ContentInv, content # None, content' \in Contents(salts), UNCHANGED <<last, salts>>,
           content'.body = content.body, content'.size = content.size,
           content'.hash = content.hash, content'.fingerprint = content.fingerprint
    PROVE  ContentInv'
<1>1. ContentTypeOK'
  BY DEF ContentInv, ContentTypeOK
<1>2. SizeIsOfBody'
  BY DEF ContentInv, SizeIsOfBody
<1>3. HashIsOfBody'
  BY DEF ContentInv, HashIsOfBody, Verified
<1>4. HashIsReadable'
  BY DEF ContentInv, HashIsReadable, Verified
<1>5. FingerprintIsOfHash'
  BY DEF ContentInv, FingerprintIsOfHash
<1>6. QED
  BY <1>1, <1>2, <1>3, <1>4, <1>5 DEF ContentInv

LEMMA BlankIsContent == Blank \in Contents(0)
BY AlgorithmsAssumption DEF Blank, Contents

LEMMA BlankAlways == ASSUME NEW n \in Nat PROVE Blank \in Contents(n)
BY BlankIsContent, ContentsGrow

\* Each step keeps the invariant, and keeps a version to its body.
Kept == content # None =>
            \/ content'.version = content.version /\ content'.body = content.body
            \/ content'.version = content.version + 1 /\ content'.body # None

LEMMA StepKeeps ==
    ASSUME ContentInv, [ContentNext]_contentVars
    PROVE  ContentInv' /\ Kept
<1>0. /\ salts \in Nat /\ salts \in 0..MaxSalts /\ MaxSalts \in Nat
      /\ content # None => content \in Contents(salts)
      /\ last \in [hash : BOOLEAN, print : BOOLEAN, threw : BOOLEAN]
  BY BoundsAssumption DEF ContentInv, ContentTypeOK
<1>1. CASE UNCHANGED contentVars
  BY <1>1 DEF contentVars, Kept, ContentInv, ContentTypeOK, SizeIsOfBody, HashIsOfBody, HashIsReadable,
              FingerprintIsOfHash, Verified
<1>2. CASE Create
  <2>1. content' = Blank /\ last' = BodyCall(FALSE, FALSE, FALSE) /\ salts' = salts /\ content = None
    BY <1>2 DEF Create
  <2>2. ContentTypeOK'
    BY <1>0, <2>1, BlankAlways DEF ContentTypeOK, BodyCall
  <2>3. content'.body = None /\ content'.hash = None /\ content'.size = 0
    BY <2>1 DEF Blank
  <2>4. SizeIsOfBody' /\ HashIsReadable' /\ FingerprintIsOfHash'
    BY <2>3 DEF SizeIsOfBody, HashIsReadable, FingerprintIsOfHash
  <2>5. HashIsOfBody'
    BY <2>1 DEF HashIsOfBody, BodyCall
  <2>6. QED
    BY <2>1, <2>2, <2>4, <2>5 DEF ContentInv, Kept
<1>3. CASE Hop
  <2>1. content # None /\ content' = FromJson(ToJson(content)) /\ UNCHANGED <<last, salts>>
    BY <1>3 DEF Hop
  <2>2. content' = content
    BY <1>0, <2>1, JsonLosesNothing
  <2>3. QED
    BY <1>0, <2>1, <2>2, SameClaims DEF Kept
<1>4. ASSUME NEW a \in Algorithms, SetHashAlgorithm(a) PROVE ContentInv' /\ Kept
  <2>1. content # None /\ content' = [content EXCEPT !.hash_algorithm = a] /\ UNCHANGED <<last, salts>>
    BY <1>4 DEF SetHashAlgorithm
  <2>2. /\ content' \in Contents(salts) /\ content'.body = content.body
        /\ content'.size = content.size /\ content'.version = content.version
        /\ content'.hash = content.hash /\ content'.fingerprint = content.fingerprint
    BY <1>0, <2>1 DEF Contents
  <2>3. QED
    BY <2>1, <2>2, SameClaims DEF Kept
<1>5. ASSUME NEW a \in Algorithms, SetFingerprintAlgorithm(a) PROVE ContentInv' /\ Kept
  <2>1. content # None /\ content' = [content EXCEPT !.fingerprint_algorithm = a] /\ UNCHANGED <<last, salts>>
    BY <1>5 DEF SetFingerprintAlgorithm
  <2>2. /\ content' \in Contents(salts) /\ content'.body = content.body
        /\ content'.size = content.size /\ content'.version = content.version
        /\ content'.hash = content.hash /\ content'.fingerprint = content.fingerprint
    BY <1>0, <2>1 DEF Contents
  <2>3. QED
    BY <2>1, <2>2, SameClaims DEF Kept
<1>6. ASSUME NEW b \in Bodies, NEW g \in BOOLEAN, SetBodyThrows(b, g) PROVE ContentInv' /\ Kept
  <2>1. /\ content # None /\ content' = Described(content, b, g)
        /\ last' = BodyCall(g, TRUE, TRUE) /\ Draw(g)
    BY <1>6 DEF SetBodyThrows
  <2>2. salts' = Drawn(salts, g) /\ salts' \in 0..MaxSalts /\ salts' \in Nat
    BY <1>0, <2>1 DEF Draw, Drawn
  <2>3. /\ content' \in Contents(salts')
        /\ content'.body = content.body /\ content'.version = content.version
    BY <1>0, <2>1, <2>2, DescribedIs
  <2>4. last'.threw = TRUE /\ last' \in [hash : BOOLEAN, print : BOOLEAN, threw : BOOLEAN]
    BY <2>1 DEF BodyCall
  <2>5. ContentTypeOK'
    BY <2>2, <2>3, <2>4 DEF ContentTypeOK
  <2>6. SizeIsOfBody' /\ HashIsOfBody' /\ FingerprintIsOfHash'
    BY <2>4 DEF SizeIsOfBody, HashIsOfBody, FingerprintIsOfHash
  <2>7. HashIsReadable'
    <3>1. ASSUME content'.hash # None, content'.body # None PROVE Verified(content') # "throws"
      BY <2>2, <2>3, <3>1, HashesAreReadable
    <3>2. QED
      BY <3>1 DEF HashIsReadable, Verified
  <2>8. QED
    BY <2>3, <2>5, <2>6, <2>7 DEF ContentInv, Kept
<1>7. ASSUME NEW b \in Bodies, NEW g \in BOOLEAN, NEW p \in BOOLEAN, Build(b, g, p)
      PROVE ContentInv' /\ Kept
  <2>1. content = None /\ BodySet(Blank, b, g, p)
    BY <1>7 DEF Build
  <2>2. QED
    BY <1>0, <2>1, BlankAlways, BodySetKeeps DEF Kept
<1>8. ASSUME NEW b \in Bodies, NEW g \in BOOLEAN, NEW p \in BOOLEAN, SetBody(b, g, p)
      PROVE ContentInv' /\ Kept
  <2>1. content # None /\ BodySet(content, b, g, p)
    BY <1>8 DEF SetBody
  <2>2. ContentInv' /\ content'.version = content.version + 1 /\ content'.body = b
    BY <1>0, <2>1, BodySetKeeps
  <2>3. QED
    BY <2>2, BodiesAssumption DEF Kept
<1>9. QED
  BY <1>1, <1>2, <1>3, <1>4, <1>5, <1>6, <1>7, <1>8 DEF ContentNext

\* What a content says of its body is true, in the sense of the conjuncts of
\* ContentInv, after any calls of SetBody(), algorithms and hops.
THEOREM ContentInvariant == ContentSpec => []ContentInv
<1>1. ContentInit => ContentInv
  BY BoundsAssumption DEF ContentInit, BodyCall, ContentInv, ContentTypeOK, SizeIsOfBody, HashIsOfBody,
     HashIsReadable, FingerprintIsOfHash
<1>2. ContentInv /\ [ContentNext]_contentVars => ContentInv'
  BY StepKeeps
<1>3. QED
  BY <1>1, <1>2, PTL DEF ContentSpec

\* The size is of the body that is there, unless a SetBody() threw.
THEOREM SizeTold == ContentSpec => []SizeIsOfBody
<1>1. ContentInv => SizeIsOfBody
  BY DEF ContentInv
<1>2. QED
  BY <1>1, ContentInvariant, PTL

\* A hash that was asked for with the body verifies it.
THEOREM HashVerifies == ContentSpec => []HashIsOfBody
<1>1. ContentInv => HashIsOfBody
  BY DEF ContentInv
<1>2. QED
  BY <1>1, ContentInvariant, PTL

\* Checking the body against the hash that came with it never throws.
THEOREM HashReadable == ContentSpec => []HashIsReadable
<1>1. ContentInv => HashIsReadable
  BY DEF ContentInv
<1>2. QED
  BY <1>1, ContentInvariant, PTL

\* A fingerprint that was asked for is of the hash that is there.
THEOREM FingerprintTold == ContentSpec => []FingerprintIsOfHash
<1>1. ContentInv => FingerprintIsOfHash
  BY DEF ContentInv
<1>2. QED
  BY <1>1, ContentInvariant, PTL

\* A version stands for one body.
THEOREM VersionsTellBodies == ContentSpec => VersionTellsBody
<1>1. ContentInv /\ [ContentNext]_contentVars => [Kept]_contentVars
  BY StepKeeps
<1>2. QED
  BY <1>1, ContentInvariant, PTL DEF ContentSpec, VersionTellsBody, Kept
=============================================================================
