--------------------------- MODULE Library_proofs ---------------------------
(***************************************************************************)
(* What is proved of the parts of Library that have no proofs in a module   *)
(* of their own, part by part.                                              *)
(***************************************************************************)
EXTENDS Library, EnvelopeWire_proofs, FiniteSetTheorems, SequenceTheorems, TLAPS

-----------------------------------------------------------------------------
(* Stamps. The value of a hashcash stamp is always earned, and its text      *)
(* carries it whole: for every resource, date, claim and number of bits.     *)

TokenFields == {"version", "claimed", "fields", "date", "resource", "ext", "counter"}

TokenOK ==
    /\ DOMAIN token = TokenFields
    /\ token = [k \in TokenFields |-> token[k]]
    /\ token.version \in Int /\ token.claimed \in Int

\* What MintWith made of the request, as long as nobody touches the text.
Faithful ==
    /\ \E n \in Nat : token = StampText(wanted, n)
    /\ zeros >= wanted.bits
    /\ minted = Stamp(IF wanted.version = 0 THEN zeros ELSE wanted.bits, wanted.resource,
                      wanted.year, wanted.version, wanted.ext, zeros)

\* The inductive invariant. While the text is on its way it is still known what
\* stands in it; that MintWith refused what cannot be written is remembered.
StampInv ==
    /\ wanted \in Requests /\ tries \in Nat /\ zeros \in Int
    /\ stampPhase \in {"asked", "generate", "carried", "parsed", "refused", "rejected"}
    /\ stampPhase \in {"asked", "generate"} => ~altered
    /\ stampPhase \in {"generate", "carried", "parsed", "rejected"} => ~Unwritable(wanted.ext)
    /\ stampPhase = "carried" => TokenOK
    /\ stampPhase \in {"carried", "parsed", "rejected"} /\ ~altered => Faithful
    /\ ValueIsEarned

-----------------------------------------------------------------------------
LEMMA RequestsAreTyped ==
    ASSUME NEW w \in Requests
    PROVE  w.bits \in Int /\ w.year \in Int /\ w.version \in Int /\ w.ext \in Extensions
<1>1. w.bits \in Asked /\ w.year \in Years /\ w.version \in {-1, 0, 1, 2} /\ w.ext \in Extensions
  BY DEF Requests
<1>2. w.version \in Int
  BY <1>1
<1> QED
  BY <1>1, <1>2, StampsAssumption

LEMMA SmallerIsSmaller ==
    ASSUME NEW a \in Int, NEW b \in Int
    PROVE  Smaller(a, b) \in Int /\ Smaller(a, b) <= a /\ (a >= b => Smaller(a, b) = b)
BY DEF Smaller

LEMMA InitStampInv == StampInit => StampInv
BY DEF StampInit, StampStart, StampInv, ValueIsEarned

LEMMA CheckKeepsInv == StampInv /\ CheckRequest => StampInv'
BY DEF StampInv, CheckRequest, Refused, TokenOK, Faithful, ValueIsEarned

LEMMA TryKeepsInv ==
    ASSUME StampInv, NEW z \in 0..HashBits, TryCandidate(z)
    PROVE  StampInv'
<1>1. /\ z \in Int /\ tries + 1 \in Nat /\ wanted.bits \in Int /\ wanted.version \in Int
      /\ wanted' = wanted /\ altered' = altered /\ received' = received /\ tries' = tries + 1
      /\ stampPhase = "generate" /\ ~altered /\ ~Unwritable(wanted.ext)
  BY RequestsAreTyped, StampsAssumption DEF StampInv, TryCandidate
<1>2. CASE z >= wanted.bits
  <2>1. /\ token' = StampText(wanted, tries + 1) /\ zeros' = z /\ stampPhase' = "carried"
        /\ minted' = Stamp(IF wanted.version = 0 THEN z ELSE wanted.bits, wanted.resource,
                           wanted.year, wanted.version, wanted.ext, z)
    BY <1>2 DEF TryCandidate, Accept
  <2>2. TokenOK'
    BY <1>1, <2>1 DEF TokenOK, TokenFields, StampText
  <2>3. Faithful'
    BY <1>1, <1>2, <2>1 DEF Faithful
  <2>4. ValueIsEarned'
    BY <1>1, <1>2, <2>1 DEF ValueIsEarned, IsValidFor, Stamp, StampInv
  <2> QED
    BY <1>1, <2>1, <2>2, <2>3, <2>4 DEF StampInv
<1>3. CASE ~(z >= wanted.bits)
  BY <1>1, <1>3 DEF TryCandidate, StampInv, ValueIsEarned
<1> QED
  BY <1>2, <1>3

LEMMA ReplaceKeepsInv ==
    ASSUME StampInv, NEW z \in 0..HashBits, NEW other, Replace(other, z),
           DOMAIN other = TokenFields, other = [k \in TokenFields |-> other[k]],
           other.version \in Int, other.claimed \in Int
    PROVE  StampInv'
BY StampsAssumption DEF StampInv, Replace, TokenOK, ValueIsEarned

LEMMA AlterKeepsInv ==
    ASSUME StampInv, NEW z \in 0..HashBits, Alter(z)
    PROVE  StampInv'
<1>1. TokenOK
  BY DEF StampInv, Alter
<1>2. CASE \E v \in {0, 1, 2} : Replace([token EXCEPT !.version = v], z)
  BY <1>1, <1>2, ReplaceKeepsInv DEF TokenOK, TokenFields
<1>3. CASE \E b \in Asked : Replace([token EXCEPT !.claimed = b], z)
  BY <1>1, <1>3, ReplaceKeepsInv, StampsAssumption DEF TokenOK, TokenFields
<1>4. CASE \E f \in {0, 6, 7} : Replace([token EXCEPT !.fields = f], z)
  BY <1>1, <1>4, ReplaceKeepsInv DEF TokenOK, TokenFields
<1>5. CASE \E y \in Years : Replace([token EXCEPT !.date = FmtYy(y)], z)
  BY <1>1, <1>5, ReplaceKeepsInv DEF TokenOK, TokenFields
<1>6. CASE Replace([token EXCEPT !.date = NotADate], z)
  BY <1>1, <1>6, ReplaceKeepsInv DEF TokenOK, TokenFields
<1>7. CASE \E r \in Resources : Replace([token EXCEPT !.resource = r], z)
  BY <1>1, <1>7, ReplaceKeepsInv DEF TokenOK, TokenFields
<1>8. CASE Replace([token EXCEPT !.ext = Append(@, Semicolon)], z)
  BY <1>1, <1>8, ReplaceKeepsInv DEF TokenOK, TokenFields
<1> QED
  BY <1>2, <1>3, <1>4, <1>5, <1>6, <1>7, <1>8 DEF Alter

LEMMA ParseKeepsInv == StampInv /\ Parse => StampInv'
<1> SUFFICES ASSUME StampInv, Parse PROVE StampInv'
  OBVIOUS
<1>1. /\ zeros \in Int /\ token.version \in Int /\ token.claimed \in Int
      /\ UNCHANGED <<wanted, tries, token, zeros, altered, minted>>
      /\ stampPhase = "carried" /\ stampPhase' \in {"parsed", "rejected"}
  BY DEF StampInv, TokenOK, Parse
<1>2. ValueIsEarned'
  <2>1. CASE Malformed
    BY <1>1, <2>1 DEF Parse, StampInv, ValueIsEarned
  <2>2. CASE ~Malformed
    <3>1. ParsedValue \in Int /\ ParsedValue <= zeros
      <4>1. /\ Smaller(zeros, token.claimed) \in Int
            /\ Smaller(zeros, token.claimed) <= zeros
        BY <1>1, SmallerIsSmaller
      <4>2. ParsedValue = zeros \/ ParsedValue = Smaller(zeros, token.claimed)
        BY DEF ParsedValue
      <4> QED
        BY <1>1, <4>1, <4>2
    <3>2. received' = Stamp(ParsedValue, token.resource, ParseYy(token.date), token.version,
                            DeserializeExtensions(token.ext), zeros)
      BY <2>2 DEF Parse
    <3>3. received'.computed = zeros /\ received'.value = ParsedValue
      BY <3>2 DEF Stamp
    <3> QED
      BY <1>1, <3>1, <3>3 DEF ValueIsEarned, IsValidFor, StampInv
  <2> QED
    BY <2>1, <2>2
<1>3. ~altered' => Faithful'
  BY <1>1 DEF StampInv, Faithful
<1> QED
  BY <1>1, <1>2, <1>3 DEF StampInv

-----------------------------------------------------------------------------
\* StampInv holds in every state: what MintWith, whoever carries the text, and
\* Parse do keeps it.
THEOREM StampInvariant == StampSpec => []StampInv
<1>1. StampInit => StampInv
  BY InitStampInv
<1>2. StampInv /\ [StampNext]_stampVars => StampInv'
  <2> SUFFICES ASSUME StampInv, [StampNext]_stampVars PROVE StampInv'
    OBVIOUS
  <2>1. CASE CheckRequest
    BY <2>1, CheckKeepsInv
  <2>2. CASE Parse
    BY <2>2, ParseKeepsInv
  <2>3. CASE \E z \in 0..HashBits : TryCandidate(z) \/ Alter(z)
    BY <2>3, TryKeepsInv, AlterKeepsInv
  <2>4. CASE UNCHANGED stampVars
    BY <2>4 DEF stampVars, StampInv, TokenOK, Faithful, ValueIsEarned
  <2> QED
    BY <2>1, <2>2, <2>3, <2>4 DEF StampNext
<1> QED
  BY <1>1, <1>2, PTL DEF StampSpec

\* Nobody gets a stamp whose value() its own text has not earned: not by
\* claiming more bits in the text than were worked for (Parse, MintWith).
THEOREM ValueEarned == StampSpec => []ValueIsEarned
<1>1. StampInv => ValueIsEarned
  BY DEF StampInv
<1> QED
  BY <1>1, StampInvariant, PTL

-----------------------------------------------------------------------------
(* AppDirs. Callers that create application directories at the same time do  *)
(* not get into each other's way, however many they are and whatever they    *)
(* ask for.                                                                  *)

AppTypeOK ==
    /\ appEnv \in AppEnvs /\ appCall \in [AppCallers -> AppCalls]
    /\ dirs \subseteq Seq(Name) /\ files \subseteq Seq(Name) /\ startDirs \subseteq dirs
    /\ appAt \in [AppCallers -> {"called", "group", "app", "returned", "failed"}]

Rooted == \A path \in dirs \cup files : Len(path) > 1 => Front(path) \in dirs

\* Whoever got past the first mkdir has a base and sees its group's directory.
Underway ==
    \A p \in AppCallers :
        /\ appAt[p] \in {"group", "app"} => Base(p) # NoVar /\ appCall[p].create
        /\ appAt[p] = "app" => GroupDir(p) \in dirs \cup files

AppInv == AppTypeOK /\ Rooted /\ Underway /\ AppDirCalls

-----------------------------------------------------------------------------
LEMMA ShortPaths ==
    ASSUME NEW S, NEW a \in S, NEW b \in S
    PROVE  <<a>> \in Seq(S) /\ <<a, b>> \in Seq(S)
OBVIOUS

LEMMA FrontOfAppend ==
    ASSUME NEW S, NEW s \in Seq(S), NEW x \in S
    PROVE  /\ Append(s, x) \in Seq(S) /\ Front(Append(s, x)) = s
           /\ Len(Append(s, x)) = Len(s) + 1 /\ Len(s) \in Nat
<1> DEFINE longer == Append(s, x)
<1>1. /\ longer \in Seq(S) /\ Len(longer) = Len(s) + 1 /\ Len(s) \in Nat
      /\ \A i \in 1..Len(s) : longer[i] = s[i]
  <2>1. Len(s) \in Nat
    BY LenProperties
  <2>2. longer \in Seq(S) /\ Len(longer) = Len(s) + 1 /\ \A i \in 1..Len(s) : longer[i] = s[i]
    BY AppendProperties
  <2> QED
    BY <2>1, <2>2
<1>2. SubSeq(longer, 1, Len(s)) = s
  <2>1. /\ SubSeq(longer, 1, Len(s)) \in Seq(S) /\ Len(SubSeq(longer, 1, Len(s))) = Len(s)
        /\ \A i \in 1..Len(s) : SubSeq(longer, 1, Len(s))[i] = longer[i]
    BY <1>1, SubSeqProperties
  <2> QED
    BY <1>1, <2>1, SeqEqual
<1>3. Len(longer) - 1 = Len(s)
  BY <1>1
<1> QED
  BY <1>1, <1>2, <1>3 DEF Front

LEMMA PathsAreTyped ==
    ASSUME AppTypeOK, NEW p \in AppCallers
    PROVE  /\ appCall[p].group \in Name /\ appCall[p].app \in Name
           /\ Base(p) \in PathOrNone
           /\ Base(p) # NoVar =>
                 /\ Base(p) \in Seq(Name) /\ GroupDir(p) \in Seq(Name) /\ AppDir(p) \in Seq(Name)
                 /\ Front(GroupDir(p)) = Base(p) /\ Front(AppDir(p)) = GroupDir(p)
                 /\ Len(AppDir(p)) > 1
<1>1. /\ appCall[p].kind \in AppKinds /\ appCall[p].group \in Name /\ appCall[p].app \in Name
      /\ appEnv.home \in PathOrNone /\ appEnv.xdg[appCall[p].kind] \in PathOrNone
  BY AppDirsAssumption DEF AppTypeOK
<1>2. Suffix(appCall[p].kind) \in Seq(Name)
  <2>1. ".local" \in Name /\ "share" \in Name /\ ".config" \in Name /\ ".cache" \in Name
    BY AppDirsAssumption
  <2>2. /\ <<".local", "share">> \in Seq(Name)
        /\ <<".config">> \in Seq(Name) /\ <<".cache">> \in Seq(Name)
    BY <2>1, ShortPaths
  <2> QED
    BY <1>1, <2>2 DEF Suffix, AppKinds
<1>3. Base(p) \in PathOrNone
  <2>1. appEnv.home # NoVar => appEnv.home \o Suffix(appCall[p].kind) \in Seq(Name)
    BY <1>1, <1>2, ConcatProperties DEF PathOrNone
  <2> QED
    BY <1>1, <2>1 DEF Base, XdgDir, PathOrNone
<1>4. ASSUME Base(p) # NoVar
      PROVE  /\ Base(p) \in Seq(Name) /\ GroupDir(p) \in Seq(Name) /\ AppDir(p) \in Seq(Name)
             /\ Front(GroupDir(p)) = Base(p) /\ Front(AppDir(p)) = GroupDir(p)
             /\ Len(AppDir(p)) > 1
  <2>1. Base(p) \in Seq(Name)
    BY <1>3, <1>4 DEF PathOrNone
  <2>2. /\ GroupDir(p) \in Seq(Name) /\ Front(GroupDir(p)) = Base(p)
        /\ Len(GroupDir(p)) = Len(Base(p)) + 1 /\ Len(Base(p)) \in Nat
    BY <1>1, <2>1, FrontOfAppend DEF GroupDir
  <2>3. /\ AppDir(p) \in Seq(Name) /\ Front(AppDir(p)) = GroupDir(p)
        /\ Len(AppDir(p)) = Len(GroupDir(p)) + 1
    BY <1>1, <2>2, FrontOfAppend DEF AppDir
  <2> QED
    BY <2>1, <2>2, <2>3
<1> QED
  BY <1>1, <1>3, <1>4

\* The prefixes of a base stand one in the other.
LEMMA BasesAreRooted ==
    ASSUME AppTypeOK, NEW p \in AppCallers, Base(p) # NoVar, NEW path \in ToBase(p)
    PROVE  path \in Seq(Name) /\ (Len(path) > 1 => Front(path) \in ToBase(p))
<1>1. Base(p) \in Seq(Name) /\ Len(Base(p)) \in Nat
  BY PathsAreTyped, LenProperties
<1>2. PICK n \in 1..Len(Base(p)) : path = SubSeq(Base(p), 1, n)
  BY DEF ToBase
<1>3. /\ path \in Seq(Name) /\ Len(path) = n /\ n \in Nat
      /\ \A i \in 1..n : path[i] = Base(p)[i]
  BY <1>1, <1>2, SubSeqProperties
<1>4. ASSUME n > 1 PROVE Front(path) \in ToBase(p)
  <2>1. Front(path) = SubSeq(path, 1, n - 1)
    BY <1>3 DEF Front
  <2>2. /\ SubSeq(path, 1, n - 1) \in Seq(Name) /\ Len(SubSeq(path, 1, n - 1)) = n - 1
        /\ \A i \in 1..(n - 1) : SubSeq(path, 1, n - 1)[i] = path[i]
    BY <1>3, <1>4, SubSeqProperties
  <2>3. /\ SubSeq(Base(p), 1, n - 1) \in Seq(Name) /\ Len(SubSeq(Base(p), 1, n - 1)) = n - 1
        /\ \A i \in 1..(n - 1) : SubSeq(Base(p), 1, n - 1)[i] = Base(p)[i]
    BY <1>1, <1>2, <1>4, SubSeqProperties
  <2>4. SubSeq(path, 1, n - 1) = SubSeq(Base(p), 1, n - 1)
    BY <1>3, <2>2, <2>3, SeqEqual
  <2>5. n - 1 \in 1..Len(Base(p))
    BY <1>1, <1>2, <1>4
  <2> QED
    BY <2>1, <2>4, <2>5 DEF ToBase
<1> QED
  BY <1>3, <1>4

-----------------------------------------------------------------------------
LEMMA InitAppInv == AppInit => AppInv
<1> SUFFICES ASSUME AppInit PROVE AppInv
  OBVIOUS
<1>1. AppTypeOK
  BY AppDirsAssumption DEF AppInit, AppStart, AppTypeOK
<1>2. Rooted
  BY DEF AppInit, AppStart, Tree, Rooted
<1>3. \A p \in AppCallers : appAt[p] = "called"
  BY DEF AppInit, AppStart
<1>4. dirs = startDirs
  BY DEF AppInit, AppStart
<1> QED
  BY <1>1, <1>2, <1>3, <1>4 DEF AppInv, Underway, AppDirCalls

\* What never changes keeps the names that are computed from it.
LEMMA NamesStay ==
    ASSUME UNCHANGED <<appEnv, appCall>>, NEW p
    PROVE  /\ Base(p)' = Base(p) /\ GroupDir(p)' = GroupDir(p) /\ AppDir(p)' = AppDir(p)
           /\ ToBase(p)' = ToBase(p)
BY DEF Base, XdgDir, GroupDir, AppDir, ToBase

\* A caller's state is known from its own step and from directories that stay.
LEMMA CallKeepsInv ==
    ASSUME AppInv, NEW p \in AppCallers, UserAppDir(p)
    PROVE  AppInv'
<1>1. /\ AppTypeOK /\ Rooted /\ Underway /\ AppDirCalls
      /\ UNCHANGED <<appEnv, appCall>> /\ UNCHANGED <<dirs, files, startDirs>>
      /\ appAt \in [AppCallers -> {"called", "group", "app", "returned", "failed"}]
      /\ appAt' = [appAt EXCEPT ![p] =
             IF Base(p) = NoVar THEN "failed" ELSE IF appCall[p].create THEN "group" ELSE "returned"]
  BY DEF AppInv, AppTypeOK, UserAppDir
<1>2. AppTypeOK' /\ Rooted'
  BY <1>1 DEF AppTypeOK, Rooted
<1>3. Underway'
  BY <1>1, NamesStay DEF Underway
<1>4. AppDirCalls'
  BY <1>1, NamesStay DEF AppDirCalls, FailsAlone
<1> QED
  BY <1>2, <1>3, <1>4 DEF AppInv

\* One mkdir of a caller that is under way.
LEMMA MkdirKeepsInv ==
    ASSUME AppInv, NEW p \in AppCallers, NEW path, NEW then \in {"app", "returned"},
           \/ appAt[p] = "group" /\ path = GroupDir(p) /\ then = "app"
           \/ appAt[p] = "app" /\ path = AppDir(p) /\ then = "returned",
           Mkdir(p, path, then), UNCHANGED <<appEnv, appCall, files, startDirs>>
    PROVE  AppInv'
<1>1. /\ AppTypeOK /\ Rooted /\ Underway /\ AppDirCalls
      /\ UNCHANGED <<appEnv, appCall>> /\ UNCHANGED <<files, startDirs>>
      /\ appAt \in [AppCallers -> {"called", "group", "app", "returned", "failed"}]
      /\ Base(p) # NoVar /\ appCall[p].create /\ startDirs \subseteq dirs
  BY DEF AppInv, AppTypeOK, Underway
<1>2. /\ path \in Seq(Name) /\ path \in {GroupDir(p), AppDir(p)}
      /\ Front(GroupDir(p)) = Base(p) /\ Front(AppDir(p)) = GroupDir(p) /\ Len(AppDir(p)) > 1
  BY <1>1, PathsAreTyped
<1>3. /\ dirs' = dirs \/ (dirs' = dirs \cup {path} /\ Front(path) \in dirs)
      /\ dirs \subseteq dirs'
      /\ \/ appAt' = [appAt EXCEPT ![p] = then] /\ path \in dirs' \cup files
         \/ /\ appAt' = [appAt EXCEPT ![p] = "failed"] /\ path \notin dirs \cup files
            /\ Front(path) \notin dirs \ Locked
  BY DEF Mkdir
<1>4. AppTypeOK'
  BY <1>1, <1>2, <1>3 DEF AppTypeOK
<1>5. Rooted'
  BY <1>1, <1>3 DEF Rooted
<1>6. Underway'
  BY <1>1, <1>3, NamesStay DEF Underway
<1>7. AppDirCalls'
  <2>1. ASSUME NEW q \in AppCallers
        PROVE  /\ appAt'[q] = "returned" /\ appCall[q].create =>
                     AppDir(q) \in dirs' \cup files /\ GroupDir(q) \in dirs'
               /\ appAt'[q] = "failed" => FailsAlone(q)
    <3>1. CASE q # p
      BY <1>1, <1>3, <3>1 DEF AppDirCalls
    <3>2. CASE q = p /\ appAt'[p] = "failed"
      <4>1. \/ path = GroupDir(p)
            \/ path = AppDir(p) /\ GroupDir(p) \in dirs \cup files
        BY <1>1 DEF Underway
      <4>2. path \notin dirs \cup files /\ Front(path) \notin dirs \ Locked
        BY <1>1, <1>3, <3>2
      <4> QED
        BY <1>1, <1>2, <3>2, <4>1, <4>2 DEF FailsAlone
    <3>3. CASE q = p /\ appAt'[p] = "returned"
      <4>1. path = AppDir(p) /\ path \in dirs' \cup files
        BY <1>1, <1>3, <3>3
      <4>2. GroupDir(p) \in dirs'
        BY <1>1, <1>2, <4>1, <1>5 DEF Rooted
      <4> QED
        BY <3>3, <4>1, <4>2
    <3> QED
      BY <3>1, <3>2, <3>3
  <2>2. ASSUME NEW made \in dirs' \ startDirs
        PROVE  \E q \in AppCallers :
                  /\ Base(q) # NoVar
                  /\ \/ made \in ToBase(q)
                     \/ appCall[q].create /\ made \in {GroupDir(q), AppDir(q)}
    <3>1. CASE made \in dirs
      BY <1>1, <3>1, <2>2 DEF AppDirCalls
    <3>2. CASE made = path
      BY <1>1, <1>2, <3>2
    <3> QED
      BY <1>3, <3>1, <3>2
  <2> QED
    BY <1>1, <2>1, <2>2, NamesStay DEF AppDirCalls, FailsAlone
<1> QED
  BY <1>4, <1>5, <1>6, <1>7 DEF AppInv

LEMMA CreateBaseKeepsInv ==
    ASSUME AppInv, NEW p \in AppCallers, CreateBase(p)
    PROVE  AppInv'
<1>1. /\ AppTypeOK /\ Rooted /\ Underway /\ AppDirCalls
      /\ UNCHANGED <<appEnv, appCall>> /\ UNCHANGED <<files, startDirs, appAt>>
      /\ Base(p) # NoVar /\ dirs' = dirs \cup ToBase(p)
  BY DEF AppInv, CreateBase
<1>2. \A path \in ToBase(p) : path \in Seq(Name) /\ (Len(path) > 1 => Front(path) \in ToBase(p))
  BY <1>1, BasesAreRooted
<1>3. AppTypeOK'
  BY <1>1, <1>2 DEF AppTypeOK
<1>4. Rooted'
  BY <1>1, <1>2 DEF Rooted
<1>5. Underway'
  BY <1>1, NamesStay DEF Underway
<1>6. AppDirCalls'
  BY <1>1, NamesStay DEF AppDirCalls, FailsAlone
<1> QED
  BY <1>3, <1>4, <1>5, <1>6 DEF AppInv

-----------------------------------------------------------------------------
\* AppInv holds in every state, for any number of callers.
THEOREM AppInvariant == AppSpec => []AppInv
<1>1. AppInit => AppInv
  BY InitAppInv
<1>2. AppInv /\ [AppNext]_appVars => AppInv'
  <2> SUFFICES ASSUME AppInv, [AppNext]_appVars PROVE AppInv'
    OBVIOUS
  <2>1. ASSUME NEW p \in AppCallers, UserAppDir(p) PROVE AppInv'
    BY <2>1, CallKeepsInv
  <2>2. ASSUME NEW p \in AppCallers, MakeGroup(p) PROVE AppInv'
    BY <2>2, MkdirKeepsInv DEF MakeGroup
  <2>3. ASSUME NEW p \in AppCallers, MakeApp(p) PROVE AppInv'
    BY <2>3, MkdirKeepsInv DEF MakeApp
  <2>4. ASSUME NEW p \in AppCallers, CreateBase(p) PROVE AppInv'
    BY <2>4, CreateBaseKeepsInv
  <2>5. CASE UNCHANGED appVars
    <3>1. /\ UNCHANGED <<appEnv, appCall>> /\ UNCHANGED <<dirs, files, startDirs, appAt>>
      BY <2>5 DEF appVars
    <3> QED
      BY <3>1, NamesStay DEF AppInv, AppTypeOK, Rooted, Underway, AppDirCalls, FailsAlone
  <2> QED
    BY <2>1, <2>2, <2>3, <2>4, <2>5 DEF AppNext
<1> QED
  BY <1>1, <1>2, PTL DEF AppSpec

\* Who asks for a directory finds its path, fails only if the call would have
\* failed alone, and creates nothing else (AppDir and the three UserApp functions),
\* however the mkdirs of all callers interleave. (That what is found is a directory,
\* and that a missing base is created, does not hold: AppDirs.)
THEOREM CallersDoNotDisturb == AppSpec => []AppDirCalls
<1>1. AppInv => AppDirCalls
  BY DEF AppInv
<1> QED
  BY <1>1, AppInvariant, PTL

-----------------------------------------------------------------------------
(* ShaBlocks. What the compression functions get is the padded message of    *)
(* FIPS 180-4: for every message and each of the three functions.            *)

\* A sequence cut into words of equal length, put together again.
LEMMA FlattenedWords ==
    ASSUME NEW S, NEW whole \in Seq(S), NEW W \in {4, 8}, NEW words,
           NEW n \in Nat \ {0}, words \in Seq(Seq(S)), Len(words) = n, n * W = Len(whole),
           \A w \in 1..n : words[w] = SubSeq(whole, (w - 1) * W + 1, w * W)
    PROVE  FlattenSeq(words) = whole
<1> DEFINE Glued(f) == [i \in 1..n |-> IF i = 1 THEN words[i] ELSE f[i - 1] \o words[i]]
<1> DEFINE first == [i \in 1..n |-> SubSeq(whole, 1, i * W)]
<1> DEFINE flatten == CHOOSE f : f = Glued(f)
<1>1. words[1] = SubSeq(whole, 1, W)
  BY 1 \in 1..n, (1 - 1) * W + 1 = 1, 1 * W = W
<1>2. ASSUME NEW i \in 1..n, i # 1
      PROVE  SubSeq(whole, 1, (i - 1) * W) \o words[i] = SubSeq(whole, 1, i * W)
  <2>1. (i - 1) * W \in 0..Len(whole) /\ i * W \in ((i - 1) * W)..Len(whole)
    <3>1. CASE W = 4
      BY <3>1
    <3>2. CASE W = 8
      BY <3>2
    <3> QED
      BY <3>1, <3>2
  <2>2. 1 \in 1..(Len(whole) + 1)
    BY <2>1
  <2> DEFINE cut == (i - 1) * W
  <2> DEFINE end == i * W
  <2> HIDE DEF cut, end
  <2>3. cut \in (1 - 1)..Len(whole) /\ end \in cut..Len(whole)
    BY <2>1 DEF cut, end
  <2>4. SubSeq(whole, 1, cut) \o SubSeq(whole, cut + 1, end) = SubSeq(whole, 1, end)
    BY <2>2, <2>3, ConcatAdjacentSubSeq
  <2> QED
    BY <2>4 DEF cut, end
<1>3. first = Glued(first)
  <2>1. \A i \in 1..n : first[i] = IF i = 1 THEN words[i] ELSE first[i - 1] \o words[i]
    <3> TAKE i \in 1..n
    <3>1. CASE i = 1
      BY <1>1, <3>1
    <3>2. CASE i # 1
      <4>1. i - 1 \in 1..n
        BY <3>2
      <4> QED
        BY <1>2, <3>2, <4>1
    <3> QED
      BY <3>1, <3>2
  <2>2. first = [i \in 1..n |-> first[i]]
    OBVIOUS
  <2> HIDE DEF first
  <2> QED
    BY <2>1, <2>2
<1>4. flatten = Glued(flatten)
  <2> HIDE DEF first, Glued
  <2> QED
    BY <1>3
<1>5. \A k \in 1..n : flatten[k] = first[k]
  <2> DEFINE T == {k \in Nat : k + 1 <= n => flatten[k + 1] = first[k + 1]}
  <2>1. \A i \in 1..n : flatten[i] = IF i = 1 THEN words[i] ELSE flatten[i - 1] \o words[i]
    <3> DEFINE g == flatten
    <3> HIDE DEF g
    <3>1. g = Glued(g)
      BY <1>4 DEF g
    <3>2. \A i \in 1..n : g[i] = Glued(g)[i]
      BY <3>1
    <3>3. \A i \in 1..n : g[i] = IF i = 1 THEN words[i] ELSE g[i - 1] \o words[i]
      BY <3>2
    <3> QED
      BY <3>3 DEF g
  <2>2. \A i \in 1..n : first[i] = IF i = 1 THEN words[i] ELSE first[i - 1] \o words[i]
    <3> DEFINE g == first
    <3> HIDE DEF g
    <3>1. \A i \in 1..n : g[i] = Glued(g)[i]
      BY <1>3 DEF g
    <3>2. \A i \in 1..n : g[i] = IF i = 1 THEN words[i] ELSE g[i - 1] \o words[i]
      BY <3>1
    <3> QED
      BY <3>2 DEF g
  <2> HIDE DEF flatten, first
  <2>3. 0 \in T
    BY <2>1, <2>2
  <2>4. ASSUME NEW k \in Nat, k \in T PROVE k + 1 \in T
    <3> SUFFICES ASSUME k + 2 <= n PROVE flatten[k + 2] = first[k + 2]
      OBVIOUS
    <3>1. k + 2 \in 1..n /\ k + 2 # 1 /\ (k + 2) - 1 = k + 1 /\ flatten[k + 1] = first[k + 1]
      BY <2>4
    <3> QED
      BY <2>1, <2>2, <3>1
  <2>5. Nat \subseteq T
    <3> HIDE DEF T
    <3> QED
      BY <2>3, <2>4, Induction
  <2> TAKE k \in 1..n
  <2>6. k - 1 \in Nat /\ (k - 1) + 1 = k /\ k <= n
    OBVIOUS
  <2>7. k - 1 \in T
    <3> HIDE DEF T
    <3> QED
      BY <2>5, <2>6
  <2> QED
    BY <2>6, <2>7
<1>6. FlattenSeq(words) = flatten[n]
  BY DEF FlattenSeq
<1>7. first[n] = whole
  <2>1. first[n] = SubSeq(whole, 1, Len(whole))
    BY n \in 1..n
  <2> QED
    BY <2>1, SubSeqFull
<1> QED
  BY <1>5, <1>6, <1>7, n \in 1..n

Functions3 == {"Sha1", "Sha256", "Sha512"}

\* Bytes, and whatever stands in the length field.
Symbols(n) == (0..255) \cup {LengthField(n)[j] : j \in 1..8}

\* The message, the bit 1, and z zeros; and the whole of what FIPS 180-4 pads it to.
Begun(m, z) == m \o <<128>> \o Zeros(z)

Whole(f, m) == Begun(m, FipsZeros(f, Len(m)) + LengthBytes(f) - 8) \o LengthField(Len(m))

LEMMA ShaSizes ==
    ASSUME NEW f \in Functions3
    PROVE  \/ ShaBlock(f) = 128 /\ WordBytes(f) = 8 /\ LengthBytes(f) = 16
           \/ ShaBlock(f) = 64 /\ WordBytes(f) = 4 /\ LengthBytes(f) = 8
BY DEF Functions3, ShaBlock, WordBytes, LengthBytes

LEMMA FipsZerosFill ==
    ASSUME NEW f \in Functions3, NEW n \in Nat
    PROVE  /\ FipsZeros(f, n) \in 0..(ShaBlock(f) - 1)
           /\ (n + 1 + FipsZeros(f, n)) % ShaBlock(f) = ShaBlock(f) - LengthBytes(f)
           /\ \A z \in 0..FipsZeros(f, n) :
                 (n + 1 + z) % ShaBlock(f) = ShaBlock(f) - LengthBytes(f) => z = FipsZeros(f, n)
<1>1. CASE ShaBlock(f) = 128 /\ LengthBytes(f) = 16
  BY <1>1 DEF FipsZeros
<1>2. CASE ShaBlock(f) = 64 /\ LengthBytes(f) = 8
  BY <1>2 DEF FipsZeros
<1> QED
  BY <1>1, <1>2, ShaSizes

LEMMA ZerosAre ==
    ASSUME NEW n, NEW z \in Nat
    PROVE  Zeros(z) \in Seq(Symbols(n)) /\ Len(Zeros(z)) = z
<1>1. 0 \in Symbols(n)
  BY DEF Symbols
<1> QED
  BY <1>1 DEF Zeros

LEMMA ZerosJoin ==
    ASSUME NEW y \in Nat, NEW z \in Nat
    PROVE  Zeros(y) \o Zeros(z) = Zeros(y + z)
<1>1. /\ Zeros(y) \in Seq({0}) /\ Len(Zeros(y)) = y /\ Zeros(z) \in Seq({0}) /\ Len(Zeros(z)) = z
      /\ Zeros(y + z) \in Seq({0}) /\ Len(Zeros(y + z)) = y + z
  BY DEF Zeros
<1>2. Zeros(y) \o Zeros(z) \in Seq({0}) /\ Len(Zeros(y) \o Zeros(z)) = y + z
  BY <1>1, ConcatProperties
<1>3. \A s \in Seq({0}) : \A i \in 1..Len(s) : s[i] = 0
  OBVIOUS
<1>4. \A i \in 1..(y + z) : (Zeros(y) \o Zeros(z))[i] = 0 /\ Zeros(y + z)[i] = 0
  BY <1>1, <1>2, <1>3
<1> QED
  BY <1>1, <1>2, <1>4, SeqEqual

LEMMA BegunIs ==
    ASSUME NEW m \in Seq(0..255), NEW z \in Nat
    PROVE  /\ m \o <<128>> \in Seq(Symbols(Len(m)))
           /\ Begun(m, z) \in Seq(Symbols(Len(m))) /\ Len(Begun(m, z)) = Len(m) + 1 + z
           /\ Len(m) \in Nat
<1>1. m \in Seq(Symbols(Len(m)))
  <2>1. 0..255 \subseteq Symbols(Len(m))
    BY DEF Symbols
  <2> QED
    BY <2>1, SeqMonotonic
<1>2. <<128>> \in Seq(Symbols(Len(m))) /\ Len(<<128>>) = 1
  BY DEF Symbols
<1>3. m \o <<128>> \in Seq(Symbols(Len(m))) /\ Len(m \o <<128>>) = Len(m) + 1
  BY <1>1, <1>2, ConcatProperties
<1>4. Len(m) \in Nat
  OBVIOUS
<1> DEFINE p == m \o <<128>>
<1> DEFINE S == Symbols(Len(m))
<1> HIDE DEF p, S
<1>5. p \in Seq(S) /\ Zeros(z) \in Seq(S) /\ Len(Zeros(z)) = z /\ Len(p) = Len(m) + 1
  BY <1>3, ZerosAre DEF p, S
<1>6. p \o Zeros(z) \in Seq(S) /\ Len(p \o Zeros(z)) = Len(m) + 1 + z
  <2>1. p \o Zeros(z) \in Seq(S) /\ Len(p \o Zeros(z)) = Len(p) + Len(Zeros(z))
    BY <1>5, ConcatProperties
  <2> QED
    BY <1>4, <1>5, <2>1
<1> QED
  BY <1>3, <1>4, <1>6 DEF Begun, p, S

LEMMA WholeIs ==
    ASSUME NEW f \in Functions3, NEW m \in Seq(0..255)
    PROVE  /\ Whole(f, m) \in Seq(Symbols(Len(m)))
           /\ Len(Whole(f, m)) % ShaBlock(f) = 0 /\ Len(Whole(f, m)) > 0
<1> DEFINE n == Len(m)
<1> DEFINE z == FipsZeros(f, n) + LengthBytes(f) - 8
<1>1. n \in Nat
  OBVIOUS
<1>2. z \in Nat /\ FipsZeros(f, n) \in Nat
  <2> HIDE DEF n
  <2>1. FipsZeros(f, n) \in 0..(ShaBlock(f) - 1)
    BY <1>1, FipsZerosFill
  <2> QED
    BY <2>1, ShaSizes
<1>3. LengthField(n) \in Seq(Symbols(n)) /\ Len(LengthField(n)) = 8
  <2>1. LengthField(n) = [j \in 1..8 |-> LengthField(n)[j]]
    BY DEF LengthField
  <2>2. \A j \in 1..8 : LengthField(n)[j] \in Symbols(n)
    BY DEF Symbols
  <2> DEFINE field == LengthField(n)
  <2> HIDE DEF field, n
  <2>3. field \in [1..8 -> Symbols(n)]
    BY <2>1, <2>2 DEF field
  <2>4. field \in Seq(Symbols(n)) /\ Len(field) = 8
    <3> DEFINE S == Symbols(n)
    <3> HIDE DEF S
    <3>1. field \in [1..8 -> S]
      BY <2>3 DEF S
    <3>2. field \in Seq(S)
      <4>1. \E k \in Nat : field \in [1..k -> S]
        BY <3>1, 8 \in Nat
      <4>2. field \in UNION {[1..k -> S] : k \in Nat}
        BY <4>1, Zenon
      <4>3. Seq(S) = UNION {[1..k -> S] : k \in Nat}
        BY SeqDef
      <4> QED
        BY <4>2, <4>3, Zenon
    <3>3. Len(field) = 8
      BY <3>1, <3>2
    <3> QED
      BY <3>2, <3>3 DEF S
  <2> QED
    BY <2>4 DEF field
<1>4. Whole(f, m) \in Seq(Symbols(n)) /\ Len(Whole(f, m)) = n + 1 + z + 8
  <2> HIDE DEF z
  <2>1. Begun(m, z) \in Seq(Symbols(n)) /\ Len(Begun(m, z)) = n + 1 + z
    BY <1>2, BegunIs
  <2>2. Whole(f, m) = Begun(m, z) \o LengthField(n)
    BY DEF Whole, z
  <2> DEFINE S == Symbols(n)
  <2> DEFINE field == LengthField(n)
  <2> DEFINE begun == Begun(m, z)
  <2> HIDE DEF n, S, field, begun
  <2>3. begun \in Seq(S) /\ field \in Seq(S) /\ Len(begun) = n + 1 + z /\ Len(field) = 8
    BY <1>3, <2>1 DEF S, field, begun
  <2>4. begun \o field \in Seq(S) /\ Len(begun \o field) = n + 1 + z + 8
    <3>1. begun \o field \in Seq(S) /\ Len(begun \o field) = Len(begun) + Len(field)
      BY <2>3, ConcatProperties
    <3> QED
      BY <1>1, <1>2, <2>3, <3>1
  <2> QED
    BY <2>2, <2>4 DEF S, field, begun
<1>5. (n + 1 + z + 8) % ShaBlock(f) = 0
  <2> HIDE DEF n
  <2>1. (n + 1 + FipsZeros(f, n)) % ShaBlock(f) = ShaBlock(f) - LengthBytes(f)
    BY <1>1, FipsZerosFill
  <2> DEFINE F == FipsZeros(f, n)
  <2> HIDE DEF F
  <2>2. F \in Nat /\ z = F + LengthBytes(f) - 8 /\ (n + 1 + F) % ShaBlock(f) = ShaBlock(f) - LengthBytes(f)
    BY <1>2, <2>1 DEF F
  <2> HIDE DEF z
  <2>3. CASE ShaBlock(f) = 128 /\ LengthBytes(f) = 16
    BY <1>1, <2>2, <2>3
  <2>4. CASE ShaBlock(f) = 64 /\ LengthBytes(f) = 8
    BY <1>1, <2>2, <2>4
  <2> QED
    BY <2>3, <2>4, ShaSizes
<1> QED
  BY <1>1, <1>2, <1>4, <1>5

-----------------------------------------------------------------------------
(* The invariant: how far the padding has come, and what has been taken in.  *)
ShaInv ==
    /\ sha \in Functions3 /\ message \in Seq(0..255) /\ shaPhase \in {"pad", "compress", "done"}
    /\ shaPhase = "pad" =>
          /\ \E z \in 0..FipsZeros(sha, Len(message)) : msg = Begun(message, z)
          /\ chunk = 0 /\ absorbed = <<>>
    /\ shaPhase # "pad" =>
          /\ msg = Whole(sha, message)
          /\ chunk \in 0..Len(msg) /\ chunk % ShaBlock(sha) = 0
          /\ absorbed \in Seq(Seq(Symbols(Len(message))))
          /\ Len(absorbed) * WordBytes(sha) = chunk
          /\ \A w \in 1..Len(absorbed) :
                absorbed[w] = SubSeq(msg, (w - 1) * WordBytes(sha) + 1, w * WordBytes(sha))
    /\ shaPhase = "done" => chunk = Len(msg)

LEMMA ShaInitInv ==
    ASSUME ShaInit
    PROVE  ShaInv
<1>1. PICK f \in Functions3, m \in ShaMessages : ShaStart(f, m)
  BY DEF ShaInit, Functions3
<1>2. m \in Seq(0..255)
  BY ShaAssumption
<1>3. sha = f /\ message = m /\ msg = Append(m, 128) /\ chunk = 0 /\ absorbed = <<>> /\ shaPhase = "pad"
  BY <1>1 DEF ShaStart
<1>4. Append(m, 128) = Begun(m, 0)
  <2>1. Append(m, 128) = m \o <<128>>
    BY <1>2, AppendIsConcat
  <2>2. Zeros(0) = <<>>
    BY DEF Zeros
  <2>3. (m \o <<128>>) \o <<>> = m \o <<128>>
    BY <1>2, BegunIs, ConcatEmptySeq
  <2> QED
    BY <2>1, <2>2, <2>3 DEF Begun
<1>5. 0 \in 0..FipsZeros(f, Len(m))
  BY <1>2, FipsZerosFill
<1> QED
  BY <1>2, <1>3, <1>4, <1>5 DEF ShaInv

LEMMA PushZeroStep ==
    ASSUME ShaInv, PushZero
    PROVE  ShaInv'
<1> DEFINE n == Len(message)
<1> DEFINE F == FipsZeros(sha, n)
<1>1. /\ sha \in Functions3 /\ message \in Seq(0..255) /\ shaPhase = "pad" /\ chunk = 0 /\ absorbed = <<>>
      /\ NeedsZero /\ msg' = Append(msg, 0)
      /\ UNCHANGED <<sha, message, chunk, absorbed, shaPhase>>
  BY DEF ShaInv, PushZero
<1>2. PICK z \in 0..F : msg = Begun(message, z)
  BY <1>1 DEF ShaInv
<1>3. n \in Nat /\ F \in Nat /\ z \in Nat
  BY <1>1, <1>2, FipsZerosFill, ShaSizes
<1>4. z # F
  <2>1. Len(msg) = n + 1 + z
    BY <1>1, <1>2, <1>3, BegunIs
  <2>2. (n + 1 + F) % ShaBlock(sha) = ShaBlock(sha) - LengthBytes(sha)
    BY <1>1, <1>3, FipsZerosFill
  <2> QED
    BY <1>1, <2>1, <2>2 DEF NeedsZero
<1>5. Append(msg, 0) = Begun(message, z + 1)
  <2> DEFINE S == Symbols(n)
  <2> DEFINE p == message \o <<128>>
  <2>1. p \in Seq(S) /\ Begun(message, z) \in Seq(S) /\ Zeros(z) \in Seq(S) /\ 0 \in S /\ <<0>> \in Seq(S)
    <3>1. 0 \in S
      BY DEF Symbols
    <3> QED
      BY <1>1, <1>3, <3>1, BegunIs, ZerosAre
  <2>2. Append(Begun(message, z), 0) = Begun(message, z) \o <<0>>
    BY <2>1, AppendIsConcat
  <2>3. (p \o Zeros(z)) \o <<0>> = p \o (Zeros(z) \o <<0>>)
    <3> HIDE DEF p, S
    <3> QED
      BY <2>1, ConcatAssociative
  <2>4. <<0>> = Zeros(1)
    BY DEF Zeros
  <2>5. Zeros(z) \o Zeros(1) = Zeros(z + 1)
    BY <1>3, ZerosJoin
  <2> QED
    BY <1>2, <2>2, <2>3, <2>4, <2>5 DEF Begun
<1>6. z + 1 \in 0..F
  BY <1>3, <1>4
<1> QED
  BY <1>1, <1>5, <1>6 DEF ShaInv

LEMMA PushLengthStep ==
    ASSUME ShaInv, PushLength
    PROVE  ShaInv'
<1> DEFINE n == Len(message)
<1> DEFINE F == FipsZeros(sha, n)
<1> DEFINE L == LengthBytes(sha)
<1>1. /\ sha \in Functions3 /\ message \in Seq(0..255) /\ shaPhase = "pad" /\ chunk = 0 /\ absorbed = <<>>
      /\ ~NeedsZero /\ msg' = msg \o Zeros(L - 8) \o LengthField(n) /\ shaPhase' = "compress"
      /\ UNCHANGED <<sha, message, chunk, absorbed>>
  BY DEF ShaInv, PushLength
<1>2. PICK z \in 0..F : msg = Begun(message, z)
  BY <1>1 DEF ShaInv
<1>3. n \in Nat /\ F \in Nat /\ z \in Nat /\ L - 8 \in Nat
  <2>1. n \in Nat
    BY <1>1
  <2>2. F \in 0..(ShaBlock(sha) - 1)
    BY <1>1, <2>1, FipsZerosFill
  <2> HIDE DEF F
  <2> QED
    BY <1>1, <1>2, <2>1, <2>2, ShaSizes
<1>4. z = F
  <2>1. Len(msg) = n + 1 + z
    BY <1>1, <1>2, <1>3, BegunIs
  <2>2. (n + 1 + z) % ShaBlock(sha) = ShaBlock(sha) - L
    BY <1>1, <2>1 DEF NeedsZero
  <2> QED
    BY <1>1, <1>2, <1>3, <2>2, FipsZerosFill
<1>5. msg \o Zeros(L - 8) = Begun(message, F + L - 8)
  <2> DEFINE S == Symbols(n)
  <2> DEFINE p == message \o <<128>>
  <2>1. p \in Seq(S) /\ Zeros(F) \in Seq(S) /\ Zeros(L - 8) \in Seq(S)
    BY <1>1, <1>3, BegunIs, ZerosAre
  <2>2. (p \o Zeros(F)) \o Zeros(L - 8) = p \o (Zeros(F) \o Zeros(L - 8))
    <3> HIDE DEF p, S, F, L
    <3> QED
      BY <2>1, ConcatAssociative
  <2>3. Zeros(F) \o Zeros(L - 8) = Zeros(F + (L - 8))
    BY <1>3, ZerosJoin
  <2>4. F + (L - 8) = F + L - 8
    <3>1. L \in Int
      BY <1>1, ShaSizes
    <3> HIDE DEF F, L
    <3> QED
      BY <1>3, <3>1
  <2> QED
    BY <1>2, <1>4, <2>2, <2>3, <2>4 DEF Begun
<1>6. msg' = Whole(sha, message)
  BY <1>1, <1>5 DEF Whole
<1>7. Len(msg') \in Nat
  <2>1. Whole(sha, message) \in Seq(Symbols(n))
    BY <1>1, WholeIs
  <2> HIDE DEF n
  <2> QED
    BY <1>6, <2>1
<1>8. 0 % ShaBlock(sha) = 0 /\ Len(<<>>) * WordBytes(sha) = 0
  BY <1>1, ShaSizes
<1> QED
  BY <1>1, <1>6, <1>7, <1>8 DEF ShaInv

\* The sixteen words of a block that lies in the padded message.
BlockAt(whole, k, W) ==
    [w \in 1..16 |-> [b \in 1..W |->
        IF k * W + (w - 1) * W + b <= Len(whole) THEN whole[k * W + (w - 1) * W + b] ELSE -1]]

LEMMA BlockWords ==
    ASSUME NEW S, NEW whole \in Seq(S), NEW W \in {4, 8}, NEW k \in Nat, k * W + 16 * W <= Len(whole)
    PROVE  /\ BlockAt(whole, k, W) \in Seq(Seq(S)) /\ Len(BlockAt(whole, k, W)) = 16
           /\ \A w \in 1..16 :
                 BlockAt(whole, k, W)[w] = SubSeq(whole, (k + w - 1) * W + 1, (k + w) * W)
<1> DEFINE block == BlockAt(whole, k, W)
<1>1. ASSUME NEW w \in 1..16
      PROVE  /\ [b \in 1..W |-> whole[k * W + (w - 1) * W + b]] \in Seq(S)
             /\ SubSeq(whole, (k + w - 1) * W + 1, (k + w) * W)
                   = [b \in 1..W |-> whole[k * W + (w - 1) * W + b]]
             /\ \A b \in 1..W : k * W + (w - 1) * W + b \in 1..Len(whole)
  <2>1. /\ (k + w - 1) * W + 1 = k * W + (w - 1) * W + 1 /\ (k + w) * W = k * W + (w - 1) * W + W
        /\ k * W + (w - 1) * W \in Nat /\ k * W + (w - 1) * W + W <= Len(whole)
    <3>1. CASE W = 4
      BY <3>1
    <3>2. CASE W = 8
      BY <3>2
    <3> QED
      BY <3>1, <3>2
  <2> DEFINE at == k * W + (w - 1) * W
  <2> DEFINE word == [b \in 1..W |-> whole[at + b]]
  <2> DEFINE sub == SubSeq(whole, at + 1, at + W)
  <2> HIDE DEF at
  <2>2. at \in Nat /\ at + W <= Len(whole) /\ W \in Nat /\ Len(whole) \in Nat
    BY <2>1 DEF at
  <2>3. \A b \in 1..W : at + b \in 1..Len(whole) /\ whole[at + b] \in S
    <3> TAKE b \in 1..W
    <3>1. at + b \in 1..Len(whole)
      BY <2>2
    <3> QED
      BY <3>1, ElementOfSeq
  <2>4. word \in Seq(S) /\ Len(word) = W
    <3>1. word \in [1..W -> S]
      BY <2>3
    <3>2. \E j \in Nat : word \in [1..j -> S]
      BY <2>2, <3>1, Zenon
    <3>3. word \in UNION {[1..j -> S] : j \in Nat}
      BY <3>2, Zenon
    <3>4. Seq(S) = UNION {[1..j -> S] : j \in Nat}
      BY SeqDef
    <3>5. word \in Seq(S)
      BY <3>3, <3>4, Zenon
    <3> QED
      BY <2>2, <3>1, <3>5
  <2>5. sub \in Seq(S) /\ Len(sub) = W /\ \A b \in 1..W : sub[b] = whole[at + b]
    <3>1. \A i \in (at + 1)..(at + W) : whole[i] \in S
      <4> TAKE i \in (at + 1)..(at + W)
      <4>1. i - at \in 1..W /\ at + (i - at) = i
        BY <2>2
      <4> QED
        BY <2>3, <4>1
    <3>2. at + 1 \in Int /\ at + W \in Int /\ at + 1 <= at + W /\ (at + W) - (at + 1) + 1 = W
      BY <2>2
    <3>3. /\ sub \in Seq(S) /\ Len(sub) = W
          /\ \A b \in 1..((at + W) - (at + 1) + 1) : sub[b] = whole[(at + 1) + b - 1]
      <4> DEFINE lo == at + 1
      <4> DEFINE hi == at + W
      <4> HIDE DEF lo, hi
      <4>1. lo \in Int /\ hi \in Int /\ \A i \in lo..hi : whole[i] \in S
        BY <3>1, <3>2 DEF lo, hi
      <4>2. /\ SubSeq(whole, lo, hi) \in Seq(S)
            /\ Len(SubSeq(whole, lo, hi)) = IF lo <= hi THEN hi - lo + 1 ELSE 0
            /\ \A b \in 1..(hi - lo + 1) : SubSeq(whole, lo, hi)[b] = whole[lo + b - 1]
        BY <4>1, SubSeqProperties
      <4>3. lo <= hi /\ hi - lo + 1 = W
        BY <3>2 DEF lo, hi
      <4> QED
        BY <4>2, <4>3 DEF lo, hi
    <3>4. \A b \in 1..W : (at + 1) + b - 1 = at + b
      BY <2>2
    <3> QED
      BY <3>2, <3>3, <3>4
  <2>6. sub = word
    <3>1. \A b \in 1..W : word[b] = whole[at + b]
      OBVIOUS
    <3> HIDE DEF sub, word
    <3> QED
      BY <2>4, <2>5, <3>1, SeqEqual
  <2> QED
    BY <2>1, <2>3, <2>4, <2>6 DEF at
<1>2. \A w \in 1..16 : block[w] = [b \in 1..W |-> whole[k * W + (w - 1) * W + b]]
  <2> TAKE w \in 1..16
  <2>1. \A b \in 1..W : k * W + (w - 1) * W + b <= Len(whole)
    <3> TAKE b \in 1..W
    <3> DEFINE place == k * W + (w - 1) * W + b
    <3>1. place \in 1..Len(whole)
      BY <1>1
    <3> HIDE DEF place
    <3> QED
      BY <3>1 DEF place
  <2>2. block[w] = [b \in 1..W |->
            IF k * W + (w - 1) * W + b <= Len(whole) THEN whole[k * W + (w - 1) * W + b] ELSE -1]
    BY DEF BlockAt
  <2> QED
    BY <2>1, <2>2
<1>3. \A w \in 1..16 : block[w] \in Seq(S)
  BY <1>1, <1>2
<1>4. block \in [1..16 -> Seq(S)]
  <2>1. block = [w \in 1..16 |-> block[w]]
    BY DEF BlockAt
  <2> QED
    BY <1>3, <2>1
<1>5. block \in Seq(Seq(S)) /\ Len(block) = 16
  <2>1. \E j \in Nat : block \in [1..j -> Seq(S)]
    BY <1>4, 16 \in Nat, Zenon
  <2>2. block \in UNION {[1..j -> Seq(S)] : j \in Nat}
    BY <2>1, Zenon
  <2>3. Seq(Seq(S)) = UNION {[1..j -> Seq(S)] : j \in Nat}
    BY SeqDef
  <2>4. block \in Seq(Seq(S))
    BY <2>2, <2>3, Zenon
  <2> QED
    BY <1>4, <2>4
<1> QED
  BY <1>1, <1>2, <1>5

LEMMA CompressStep ==
    ASSUME ShaInv, Compress
    PROVE  ShaInv'
<1> DEFINE S == Symbols(Len(message))
<1> DEFINE W == WordBytes(sha)
<1> DEFINE k == Len(absorbed)
<1> DEFINE block == [w \in 1..16 |-> [b \in 1..W |-> MsgByte(chunk + (w - 1) * W + b)]]
<1>1. /\ sha \in Functions3 /\ message \in Seq(0..255) /\ shaPhase = "compress"
      /\ chunk < Len(msg) /\ absorbed' = absorbed \o block /\ chunk' = chunk + ShaBlock(sha)
      /\ UNCHANGED <<sha, message, msg, shaPhase>> /\ msg = Whole(sha, message)
      /\ chunk \in 0..Len(msg) /\ chunk % ShaBlock(sha) = 0
      /\ absorbed \in Seq(Seq(S)) /\ k * W = chunk
      /\ \A w \in 1..k : absorbed[w] = SubSeq(msg, (w - 1) * W + 1, w * W)
  BY DEF ShaInv, Compress
<1>2. msg \in Seq(S) /\ Len(msg) % ShaBlock(sha) = 0 /\ Len(msg) \in Nat
  <2>1. msg \in Seq(S) /\ Len(msg) % ShaBlock(sha) = 0
    BY <1>1, WholeIs
  <2> HIDE DEF S
  <2> QED
    BY <2>1
<1>3. W \in {4, 8} /\ ShaBlock(sha) = 16 * W
  BY <1>1, ShaSizes
<1>4. chunk \in Nat /\ chunk + ShaBlock(sha) <= Len(msg) /\ (chunk + ShaBlock(sha)) % ShaBlock(sha) = 0
  <2> HIDE DEF W, k, S
  <2> DEFINE size == Len(msg)
  <2> DEFINE B == ShaBlock(sha)
  <2> HIDE DEF size, B
  <2>1. size \in Nat /\ chunk \in Nat /\ chunk < size /\ size % B = 0 /\ chunk % B = 0 /\ B \in {64, 128}
    BY <1>1, <1>2, ShaSizes DEF size, B
  <2>2. CASE B = 128
    BY <2>1, <2>2 DEF size, B
  <2>3. CASE B = 64
    BY <2>1, <2>3 DEF size, B
  <2> QED
    BY <2>1, <2>2, <2>3
<1>5. k \in Nat /\ k * W + 16 * W <= Len(msg)
  <2>1. k \in Nat
    <3> HIDE DEF S
    <3> QED
      BY <1>1
  <2> QED
    BY <1>1, <1>3, <1>4, <2>1
<1>6. /\ block \in Seq(Seq(S)) /\ Len(block) = 16
      /\ \A w \in 1..16 : block[w] = SubSeq(msg, (k + w - 1) * W + 1, (k + w) * W)
  <2>1. block = BlockAt(msg, k, W)
    BY <1>1 DEF MsgByte, BlockAt
  <2> HIDE DEF block, W, k, S
  <2>2. /\ BlockAt(msg, k, W) \in Seq(Seq(S)) /\ Len(BlockAt(msg, k, W)) = 16
        /\ \A w \in 1..16 :
              BlockAt(msg, k, W)[w] = SubSeq(msg, (k + w - 1) * W + 1, (k + w) * W)
    <3>1. msg \in Seq(S) /\ k \in Nat /\ W \in {4, 8} /\ k * W + 16 * W <= Len(msg)
      BY <1>2, <1>3, <1>5
    <3> QED
      BY ONLY <3>1, BlockWords
  <2> QED
    BY <2>1, <2>2, Zenon
<1> DEFINE longer == absorbed \o block
<1>7. /\ longer \in Seq(Seq(S)) /\ Len(longer) = k + 16
      /\ \A w \in 1..(k + 16) : longer[w] = IF w <= k THEN absorbed[w] ELSE block[w - k]
  <2> DEFINE T == Seq(S)
  <2> HIDE DEF T, block
  <2>1. absorbed \in Seq(T) /\ block \in Seq(T) /\ Len(block) = 16
    BY <1>1, <1>6 DEF T
  <2>2. /\ longer \in Seq(T) /\ Len(longer) = Len(absorbed) + Len(block)
        /\ \A w \in 1..(Len(absorbed) + Len(block)) :
              longer[w] = IF w <= Len(absorbed) THEN absorbed[w] ELSE block[w - Len(absorbed)]
    BY <2>1, ConcatProperties
  <2> QED
    BY <2>1, <2>2 DEF T
<1>8. \A w \in 1..(k + 16) : longer[w] = SubSeq(msg, (w - 1) * W + 1, w * W)
  <2> HIDE DEF block, longer, W, k, S
  <2> TAKE w \in 1..(k + 16)
  <2>1. CASE w <= k
    <3>1. w \in 1..k
      BY <1>5, <2>1
    <3>2. longer[w] = absorbed[w]
      BY <1>7, <2>1
    <3> QED
      BY <1>1, <3>1, <3>2
  <2>2. CASE w > k
    <3> DEFINE v == w - k
    <3>1. v \in 1..16 /\ k + v = w /\ k + v - 1 = w - 1
      BY <1>5, <2>2
    <3>2. longer[w] = block[v]
      BY <1>5, <1>7, <2>2
    <3> HIDE DEF v
    <3>3. block[v] = SubSeq(msg, (k + v - 1) * W + 1, (k + v) * W)
      BY <1>6, <3>1
    <3> QED
      BY <3>1, <3>2, <3>3
  <2> QED
    BY <1>5, <2>1, <2>2
<1>9. (k + 16) * W = chunk + ShaBlock(sha) /\ chunk + ShaBlock(sha) \in 0..Len(msg)
  <2> HIDE DEF W, k, S
  <2>1. ShaBlock(sha) \in Nat
    BY <1>3
  <2> QED
    BY <1>1, <1>2, <1>3, <1>4, <1>5, <2>1
<1>10. absorbed' = longer /\ chunk' = chunk + ShaBlock(sha) /\ UNCHANGED <<sha, message, msg, shaPhase>>
  BY <1>1
<1> HIDE DEF longer, block
<1> QED
  BY <1>1, <1>4, <1>7, <1>8, <1>9, <1>10 DEF ShaInv

LEMMA ShaStep ==
    ASSUME ShaInv, [ShaNext]_shaVars
    PROVE  ShaInv'
<1>1. CASE Digest
  <2>1. UNCHANGED <<sha, message, msg, chunk, absorbed>> /\ shaPhase = "compress" /\ shaPhase' = "done"
        /\ chunk >= Len(msg)
    BY <1>1 DEF Digest
  <2>2. chunk = Len(msg)
    <3>1. chunk \in 0..Len(msg)
      BY <2>1 DEF ShaInv
    <3>2. Len(msg) \in Nat
      <4>1. msg \in Seq(Symbols(Len(message)))
        BY <2>1, WholeIs DEF ShaInv
      <4> QED
        BY <4>1
    <3> QED
      BY <2>1, <3>1, <3>2
  <2> QED
    BY <2>1, <2>2 DEF ShaInv
<1>2. CASE UNCHANGED shaVars
  BY <1>2 DEF ShaInv, shaVars
<1> QED
  BY <1>1, <1>2, PushZeroStep, PushLengthStep, CompressStep DEF ShaNext

LEMMA ShaDone ==
    ASSUME ShaInv
    PROVE  CompressedIsFips180
<1> SUFFICES ASSUME shaPhase = "done" PROVE FlattenSeq(absorbed) = msg /\ msg = Whole(sha, message)
  <2>1. sha \in Functions3 /\ message \in Seq(0..255)
    BY DEF ShaInv
  <2> QED
    BY DEF CompressedIsFips180, Whole, Begun
<1> DEFINE S == Symbols(Len(message))
<1> DEFINE W == WordBytes(sha)
<1> DEFINE k == Len(absorbed)
<1>1. /\ sha \in Functions3 /\ message \in Seq(0..255) /\ msg = Whole(sha, message)
      /\ chunk = Len(msg) /\ absorbed \in Seq(Seq(S)) /\ k * W = Len(msg)
      /\ \A w \in 1..k : absorbed[w] = SubSeq(msg, (w - 1) * W + 1, w * W)
  BY DEF ShaInv
<1>2. msg \in Seq(S) /\ Len(msg) > 0
  BY <1>1, WholeIs
<1>3. W \in {4, 8}
  BY <1>1, ShaSizes
<1>4. k \in Nat \ {0}
  <2> HIDE DEF S
  <2>1. k \in Nat
    BY <1>1
  <2> QED
    BY <1>1, <1>2, <1>3, <2>1
<1>5. FlattenSeq(absorbed) = msg
  <2> HIDE DEF S, W, k
  <2>1. Len(absorbed) = k
    BY DEF k
  <2> QED
    BY <1>1, <1>2, <1>3, <1>4, <2>1, FlattenedWords
<1> QED
  BY <1>1, <1>5

\* detail::Sha1, Sha256 and Sha512: what they compress is the message as FIPS 180-4
\* pads it, whole and in order, whatever its length.
THEOREM PaddingIsFips180 == ShaSpec => []CompressedIsFips180
<1>1. ShaInit => ShaInv
  BY ShaInitInv
<1>2. ShaInv /\ [ShaNext]_shaVars => ShaInv'
  BY ShaStep
<1>3. ShaInv => CompressedIsFips180
  BY ShaDone
<1> QED
  BY <1>1, <1>2, <1>3, PTL DEF ShaSpec

-----------------------------------------------------------------------------
(* PasswordKeys. A derived key is the one of RFC 8018: for every password,   *)
(* salt, count and length, and every size of block and digest.               *)

IsSequence(s) == \E S : s \in Seq(S)

LEMMA FunctionIsSequence ==
    ASSUME NEW n \in Nat, NEW f, f = [i \in 1..n |-> f[i]]
    PROVE  f \in Seq({f[i] : i \in 1..n}) /\ IsSequence(f) /\ Len(f) = n
<1> DEFINE S == {f[i] : i \in 1..n}
<1>1. f \in [1..n -> S]
  OBVIOUS
<1> HIDE DEF S
<1>2. \E j \in Nat : f \in [1..j -> S]
  BY <1>1
<1>3. f \in UNION {[1..j -> S] : j \in Nat}
  BY <1>2, Zenon
<1>4. Seq(S) = UNION {[1..j -> S] : j \in Nat}
  BY SeqDef
<1>5. f \in Seq(S)
  BY <1>3, <1>4, Zenon
<1>6. Len(f) = n
  BY <1>1, <1>5
<1> QED
  BY <1>5, <1>6 DEF IsSequence, S

LEMMA JoinedSequences ==
    ASSUME NEW f, NEW g, IsSequence(f), IsSequence(g)
    PROVE  /\ IsSequence(f \o g) /\ Len(f) \in Nat /\ Len(g) \in Nat
           /\ Len(f \o g) = Len(f) + Len(g)
           /\ f \o g = [i \in 1..(Len(f) + Len(g)) |-> IF i <= Len(f) THEN f[i] ELSE g[i - Len(f)]]
<1>1. PICK S : f \in Seq(S)
  BY DEF IsSequence
<1>2. PICK T : g \in Seq(T)
  BY DEF IsSequence
<1> DEFINE U == S \cup T
<1>3. f \in Seq(U)
  <2>1. \A i \in 1..Len(f) : f[i] \in U
    BY <1>1
  <2> QED
    BY <1>1, <2>1
<1>4. g \in Seq(U)
  <2>1. \A i \in 1..Len(g) : g[i] \in U
    BY <1>2
  <2> QED
    BY <1>2, <2>1
<1> HIDE DEF U
<1>5. /\ f \o g \in Seq(U) /\ Len(f \o g) = Len(f) + Len(g)
      /\ \A i \in 1..(Len(f) + Len(g)) : (f \o g)[i] = IF i <= Len(f) THEN f[i] ELSE g[i - Len(f)]
  BY <1>3, <1>4, ConcatProperties
<1>6. f \o g = [i \in 1..(Len(f) + Len(g)) |-> (f \o g)[i]]
  <2> DEFINE h == f \o g
  <2>1. h \in Seq(U) /\ Len(h) = Len(f) + Len(g)
    BY <1>5
  <2> HIDE DEF h
  <2>2. h = [i \in 1..Len(h) |-> h[i]]
    BY <2>1
  <2> QED
    BY <2>1, <2>2 DEF h
<1>7. f \o g = [i \in 1..(Len(f) + Len(g)) |-> IF i <= Len(f) THEN f[i] ELSE g[i - Len(f)]]
  <2> DEFINE h == f \o g
  <2> HIDE DEF h
  <2>1. h = [i \in 1..(Len(f) + Len(g)) |-> h[i]]
    BY <1>6 DEF h
  <2>2. \A i \in 1..(Len(f) + Len(g)) : h[i] = IF i <= Len(f) THEN f[i] ELSE g[i - Len(f)]
    BY <1>5 DEF h
  <2>3. h = [i \in 1..(Len(f) + Len(g)) |-> IF i <= Len(f) THEN f[i] ELSE g[i - Len(f)]]
    BY <2>1, <2>2
  <2> QED
    BY <2>3 DEF h
<1> QED
  BY <1>3, <1>4, <1>5, <1>7 DEF IsSequence

LEMMA DigestIsSequence ==
    ASSUME NEW s
    PROVE  /\ IsSequence(Sha1(s)) /\ Len(Sha1(s)) = Sha1DigestSize
           /\ Sha1(s) = [i \in 1..Sha1DigestSize |-> Sha1(s)[i]]
<1>1. Sha1(s) = [i \in 1..Sha1DigestSize |-> Sha1(s)[i]]
  BY DEF Sha1
<1>2. Sha1DigestSize \in Nat
  BY KeyAssumption
<1> QED
  BY <1>1, <1>2, FunctionIsSequence

\* The code fills the key's block by resizing it, the RFC by appending zeros.
LEMMA HmacIsPrf ==
    ASSUME NEW key \in Passwords, NEW given
    PROVE  HmacSha1(key, given) = Prf(key, given)
<1> DEFINE k0 == IF Len(key) > Sha1BlockSize THEN Sha1(key) ELSE key
<1> DEFINE zerosOf(n) == [i \in 1..n |-> {}]
<1> DEFINE filled == k0 \o zerosOf(Sha1BlockSize - Len(k0))
<1>1. /\ Sha1BlockSize \in Nat /\ Sha1DigestSize \in 1..Sha1BlockSize
      /\ key \in Seq(Range(key))
  BY KeyAssumption
<1>2. IsSequence(key) /\ Len(key) \in Nat
  <2> DEFINE S == Range(key)
  <2> HIDE DEF S
  <2>1. key \in Seq(S)
    BY <1>1 DEF S
  <2> QED
    BY <2>1 DEF IsSequence
<1>3. IsSequence(k0) /\ Len(k0) \in 0..Sha1BlockSize
  BY <1>1, <1>2, DigestIsSequence
<1>4. IsSequence(zerosOf(Sha1BlockSize - Len(k0))) /\ Len(zerosOf(Sha1BlockSize - Len(k0))) = Sha1BlockSize - Len(k0)
  <2> DEFINE n == Sha1BlockSize - Len(k0)
  <2> DEFINE f == zerosOf(n)
  <2>1. n \in Nat
    BY <1>1, <1>3
  <2>2. f = [i \in 1..n |-> f[i]]
    OBVIOUS
  <2> HIDE DEF f, n
  <2>3. IsSequence(f) /\ Len(f) = n
    BY <2>1, <2>2, FunctionIsSequence
  <2> QED
    BY <2>3 DEF f, n
<1>5. filled = BlockKey(key)
  <2> DEFINE g == zerosOf(Sha1BlockSize - Len(k0))
  <2>1. \A i \in 1..(Sha1BlockSize - Len(k0)) : g[i] = {}
    OBVIOUS
  <2>2. BlockKey(key) = [i \in 1..Sha1BlockSize |-> IF i <= Len(k0) THEN k0[i] ELSE {}]
    BY DEF BlockKey, Resized
  <2>3. filled = k0 \o g /\ IsSequence(g) /\ Len(g) = Sha1BlockSize - Len(k0)
    BY <1>4
  <2> HIDE DEF k0, g, filled
  <2>4. filled = [i \in 1..(Len(k0) + Len(g)) |-> IF i <= Len(k0) THEN k0[i] ELSE g[i - Len(k0)]]
    BY <1>3, <2>3, JoinedSequences
  <2>5. Len(k0) + Len(g) = Sha1BlockSize
    BY <1>1, <1>3, <2>3
  <2>6. \A i \in 1..Sha1BlockSize :
            (IF i <= Len(k0) THEN k0[i] ELSE g[i - Len(k0)]) = IF i <= Len(k0) THEN k0[i] ELSE {}
    <3> TAKE i \in 1..Sha1BlockSize
    <3>1. CASE i <= Len(k0)
      BY <3>1
    <3>2. CASE ~(i <= Len(k0))
      <4>1. i - Len(k0) \in 1..(Sha1BlockSize - Len(k0))
        BY <1>1, <1>3, <3>2
      <4> QED
        BY <2>1, <3>2, <4>1
    <3> QED
      BY <3>1, <3>2
  <2> QED
    BY <2>2, <2>4, <2>5, <2>6
<1>6. \A a, b : Xor(a, b) = Xor(b, a)
  BY DEF Xor
<1> DEFINE padded(pad) == [i \in 1..Sha1BlockSize |-> Xor(BlockKey(key)[i], pad)]
<1> DEFINE mask(pad) == [i \in DOMAIN filled |-> Xor(pad, filled[i])]
<1>7. \A pad : mask(pad) = padded(pad)
  <2> HIDE DEF filled
  <2>1. DOMAIN filled = 1..Sha1BlockSize
    BY <1>5 DEF BlockKey, Resized
  <2> QED
    BY <1>5, <1>6, <2>1
<1>8. HmacSha1(key, given) = Sha1(padded(OPad) \o Sha1(padded(IPad) \o given))
  BY DEF HmacSha1
<1>9. Prf(key, given) = Sha1(mask(OPad) \o Sha1(mask(IPad) \o given))
  <2>1. k0 = IF Len(key) \in 0..Sha1BlockSize THEN key ELSE Sha1(key)
    BY <1>1, <1>2
  <2> DEFINE short == Len(key) \in 0..Sha1BlockSize
  <2> DEFINE k1 == IF short THEN key ELSE Sha1(key)
  <2>2. Prf(key, given) =
            LET f == k1 \o [i \in 1..(Sha1BlockSize - Len(k1)) |-> {}]
                m(pad) == [i \in DOMAIN f |-> Xor(pad, f[i])]
            IN Sha1(m(OPad) \o Sha1(m(IPad) \o given))
    BY DEF Prf
  <2>3. k1 = k0
    BY <2>1
  <2> HIDE DEF k1, k0
  <2> QED
    BY <2>2, <2>3
<1> HIDE DEF mask, padded
<1> QED
  BY <1>7, <1>8, <1>9

\* The chain U_1, U_2, ... as far as n: the choice that a recursive function is
\* has something to choose.
Rounds(q) == IF q.iterations < 1 THEN 1 ELSE q.iterations

Link(q, l, chain, k) == Prf(q.password, IF k = 1 THEN q.salt \o IndexBytes(l) ELSE chain[k - 1])

Chained(chain, q, l, n) == chain = [k \in 1..n |-> Link(q, l, chain, k)]

LEMMA ChainExists ==
    ASSUME NEW q, NEW l, NEW n \in Nat
    PROVE  \E f : Chained(f, q, l, n)
<1> DEFINE T == {m \in Nat : \E f : Chained(f, q, l, m)}
<1>1. 0 \in T
  <2> DEFINE f == [k \in 1..0 |-> 0]
  <2>1. f = [k \in 1..0 |-> Link(q, l, f, k)]
    <3>1. \A k \in 1..0 : FALSE
      OBVIOUS
    <3> QED
      BY <3>1
  <2>2. Chained(f, q, l, 0)
    BY <2>1 DEF Chained
  <2> HIDE DEF f
  <2> QED
    BY <2>2
<1>2. ASSUME NEW m \in Nat, m \in T PROVE m + 1 \in T
  <2>1. PICK f : Chained(f, q, l, m)
    BY <1>2
  <2> DEFINE last == Link(q, l, f, m + 1)
  <2> DEFINE g == [k \in 1..(m + 1) |-> IF k = m + 1 THEN last ELSE f[k]]
  <2>2. \A k \in 1..m : f[k] = Link(q, l, f, k)
    <3> DEFINE h == [k \in 1..m |-> Link(q, l, f, k)]
    <3>1. f = h
      BY <2>1 DEF Chained
    <3>2. \A k \in 1..m : h[k] = Link(q, l, f, k)
      OBVIOUS
    <3> HIDE DEF h
    <3> QED
      BY <3>1, <3>2
  <2>3. \A k \in 1..(m + 1) : g[k] = Link(q, l, g, k)
    <3> TAKE k \in 1..(m + 1)
    <3>1. k # 1 => g[k - 1] = f[k - 1]
      <4> SUFFICES ASSUME k # 1 PROVE k - 1 \in 1..(m + 1) /\ k - 1 # m + 1
        OBVIOUS
      <4> QED
        OBVIOUS
    <3>2. Link(q, l, g, k) = Link(q, l, f, k)
      <4> HIDE DEF g
      <4> QED
        BY <3>1 DEF Link
    <3>3. CASE k = m + 1
      BY <3>2, <3>3
    <3>4. CASE k \in 1..m
      <4>1. g[k] = f[k]
        BY <3>4
      <4> HIDE DEF g
      <4> QED
        BY <2>2, <3>2, <3>4, <4>1
    <3> QED
      BY <3>3, <3>4
  <2>4. g = [k \in 1..(m + 1) |-> g[k]]
    OBVIOUS
  <2> HIDE DEF g
  <2>5. g = [k \in 1..(m + 1) |-> Link(q, l, g, k)]
    BY <2>3, <2>4
  <2> QED
    BY <2>5 DEF Chained
<1> HIDE DEF T
<1>3. Nat \subseteq T
  BY <1>1, <1>2, Induction
<1> QED
  BY <1>3 DEF T

LEMMA ChainIs ==
    ASSUME NEW q, NEW l, q.iterations \in Int
    PROVE  /\ Rounds(q) \in Nat \ {0} /\ DOMAIN ChainOf(q, l) = 1..Rounds(q)
           /\ \A k \in 1..Rounds(q) : ChainOf(q, l)[k] = Link(q, l, ChainOf(q, l), k)
<1>1. Rounds(q) \in Nat \ {0}
  BY DEF Rounds
<1>2. \E f : Chained(f, q, l, Rounds(q))
  BY <1>1, ChainExists
<1>3. ChainOf(q, l) = CHOOSE f : Chained(f, q, l, Rounds(q))
  BY DEF ChainOf, Chained, Link, Rounds
<1>4. Chained(ChainOf(q, l), q, l, Rounds(q))
  BY <1>2, <1>3
<1> DEFINE chain == ChainOf(q, l)
<1> HIDE DEF chain
<1>5. chain = [k \in 1..Rounds(q) |-> Link(q, l, chain, k)]
  BY <1>4 DEF Chained, chain
<1>6. DOMAIN chain = 1..Rounds(q)
  BY <1>5
<1>7. \A k \in 1..Rounds(q) : chain[k] = Link(q, l, chain, k)
  <2> DEFINE h == [k \in 1..Rounds(q) |-> Link(q, l, chain, k)]
  <2>1. \A k \in 1..Rounds(q) : h[k] = Link(q, l, chain, k)
    OBVIOUS
  <2>2. chain = h
    BY <1>5
  <2> HIDE DEF h
  <2> QED
    BY <2>1, <2>2
<1> QED
  BY <1>1, <1>6, <1>7 DEF chain

LEMMA LinksAreDigests ==
    ASSUME NEW q, NEW l, NEW chain, NEW k
    PROVE  Link(q, l, chain, k) = [j \in 1..Sha1DigestSize |-> Link(q, l, chain, k)[j]]
<1>1. \E s : Link(q, l, chain, k) = Sha1(s)
  BY DEF Link, Prf
<1> QED
  BY <1>1, DigestIsSequence

\* The exclusive or, a link at a time.
Among(chain, n, a, j) == {k \in 1..n : a \in chain[k][j]}

OddUpTo(chain, n, j) ==
    {a \in UNION {chain[k][j] : k \in 1..n} : (Cardinality(Among(chain, n, a, j)) % 2) = 1}

LEMMA OddMember ==
    ASSUME NEW chain, NEW n \in Nat, NEW j, NEW a
    PROVE  /\ IsFiniteSet(Among(chain, n, a, j)) /\ Cardinality(Among(chain, n, a, j)) \in Nat
           /\ (a \in OddUpTo(chain, n, j)) <=> (Cardinality(Among(chain, n, a, j)) % 2) = 1
<1> DEFINE K == Among(chain, n, a, j)
<1>1. IsFiniteSet(1..n) /\ K \in SUBSET (1..n)
  BY FS_Interval DEF Among
<1>2. IsFiniteSet(K)
  BY <1>1, FS_Subset
<1>3. Cardinality(K) \in Nat
  BY <1>2, FS_CardinalityType
<1>4. ASSUME (Cardinality(K) % 2) = 1
      PROVE  a \in UNION {chain[k][j] : k \in 1..n}
  <2>1. K # {}
    <3> SUFFICES ASSUME K = {} PROVE FALSE
      OBVIOUS
    <3>1. Cardinality(K) = 0
      BY FS_EmptySet
    <3> HIDE DEF K
    <3> QED
      BY <1>4, <3>1
  <2> QED
    BY <2>1 DEF Among
<1>5. a \in OddUpTo(chain, n, j) <=> a \in UNION {chain[k][j] : k \in 1..n} /\ (Cardinality(K) % 2) = 1
  BY DEF OddUpTo
<1> HIDE DEF K
<1>6. (a \in OddUpTo(chain, n, j)) <=> (Cardinality(K) % 2) = 1
  BY <1>4, <1>5
<1> QED
  BY <1>2, <1>3, <1>6 DEF K

LEMMA OneMoreLink ==
    ASSUME NEW chain, NEW n \in Nat, NEW j
    PROVE  OddUpTo(chain, n + 1, j) = Xor(OddUpTo(chain, n, j), chain[n + 1][j])
<1>1. ASSUME NEW a
      PROVE  a \in OddUpTo(chain, n + 1, j) <=> a \in Xor(OddUpTo(chain, n, j), chain[n + 1][j])
  <2> DEFINE K == Among(chain, n, a, j)
  <2> DEFINE L == Among(chain, n + 1, a, j)
  <2>1. /\ IsFiniteSet(K) /\ Cardinality(K) \in Nat
        /\ a \in OddUpTo(chain, n, j) <=> (Cardinality(K) % 2) = 1
    BY OddMember
  <2>2. n + 1 \in Nat
    OBVIOUS
  <2>3. a \in OddUpTo(chain, n + 1, j) <=> (Cardinality(L) % 2) = 1
    BY <2>2, OddMember
  <2>4. CASE a \in chain[n + 1][j]
    <3>1. L = K \cup {n + 1} /\ n + 1 \notin K
      <4>1. \A k \in 1..(n + 1) : k \in 1..n \/ k = n + 1
        OBVIOUS
      <4>2. 1..n \subseteq 1..(n + 1) /\ n + 1 \in 1..(n + 1) /\ n + 1 \notin 1..n
        OBVIOUS
      <4> QED
        BY <2>4, <4>1, <4>2 DEF Among
    <3> HIDE DEF K, L
    <3>2. Cardinality(L) = Cardinality(K) + 1
      BY <2>1, <3>1, FS_AddElement
    <3>3. (Cardinality(L) % 2) = 1 <=> ~((Cardinality(K) % 2) = 1)
      BY <2>1, <3>2
    <3> QED
      BY <2>1, <2>3, <2>4, <3>3 DEF Xor
  <2>5. CASE a \notin chain[n + 1][j]
    <3>1. L = K
      <4>1. \A k \in 1..(n + 1) : k \in 1..n \/ k = n + 1
        OBVIOUS
      <4>2. 1..n \subseteq 1..(n + 1)
        OBVIOUS
      <4> QED
        BY <2>5, <4>1, <4>2 DEF Among
    <3> HIDE DEF K, L
    <3> QED
      BY <2>1, <2>3, <2>5, <3>1 DEF Xor
  <2> QED
    BY <2>4, <2>5
<1> QED
  BY <1>1

LEMMA OneLink ==
    ASSUME NEW chain, NEW j
    PROVE  OddUpTo(chain, 1, j) = chain[1][j]
<1>1. OddUpTo(chain, 0, j) = {}
  <2>1. 1..0 = {}
    OBVIOUS
  <2> QED
    BY <2>1 DEF OddUpTo
<1>2. 0 \in Nat /\ 0 + 1 = 1
  OBVIOUS
<1>3. OddUpTo(chain, 0 + 1, j) = Xor(OddUpTo(chain, 0, j), chain[0 + 1][j])
  BY <1>2, OneMoreLink
<1> QED
  BY <1>1, <1>2, <1>3 DEF Xor

LEMMA AllLinks ==
    ASSUME NEW chain, NEW n \in Nat, DOMAIN chain = 1..n, NEW j
    PROVE  OddOnes(chain, j) = OddUpTo(chain, n, j)
BY DEF OddOnes, OddUpTo, Among

\* Byte p of a key stands in block (p - 1) \div size, from 0.
LEMMA PlaceInBlocks ==
    ASSUME NEW size \in Nat \ {0}, NEW m \in Nat, NEW i \in 1..size
    PROVE  ((m * size + i) - 1) \div size = m /\ ((m * size + i) - 1) % size = i - 1
<1>1. m * size \in Nat
  OBVIOUS
<1> QED
  BY <1>1

Requested == [password : Passwords, salt : Salts, iterations : Iterations, length : KeyLengths]

KeyByte(q, p) == OddOnes(ChainOf(q, (p - 1) \div Sha1DigestSize + 1), ((p - 1) % Sha1DigestSize) + 1)

\* The whole blocks so far are right.
BlocksRight ==
    /\ IsSequence(out) /\ Len(out) = (block_index - 1) * Sha1DigestSize
    /\ \A p \in 1..Len(out) : out[p] = KeyByte(asked, p)

\* The rounds of the block under way are.
RoundsRight ==
    /\ round \in 1..Rounds(asked)
    /\ u = ChainOf(asked, block_index)[round]
    /\ t = [j \in 1..Sha1DigestSize |-> OddUpTo(ChainOf(asked, block_index), round, j)]

\* The inductive invariant.
KeyInv ==
    /\ asked \in Requested /\ block_index \in Nat \ {0} /\ keyPhase \in {"blocks", "rounds", "done"}
    /\ keyPhase \in {"blocks", "rounds"} => BlocksRight
    /\ keyPhase = "rounds" => RoundsRight
    /\ KeyIsRfc8018

LEMMA AskedIsTyped ==
    ASSUME asked \in Requested
    PROVE  /\ asked.password \in Passwords /\ asked.iterations \in Int /\ asked.length \in Nat
           /\ Sha1DigestSize \in Nat \ {0}
<1>1. asked.password \in Passwords /\ asked.iterations \in Iterations /\ asked.length \in KeyLengths
  BY DEF Requested
<1>2. Iterations \subseteq Int /\ KeyLengths \subseteq Nat /\ Sha1DigestSize \in 1..Sha1BlockSize /\ Sha1BlockSize \in Nat
  BY KeyAssumption
<1>3. Sha1DigestSize \in Nat \ {0}
  BY <1>2
<1> QED
  BY <1>1, <1>2, <1>3

LEMMA KeyInitInv == KeyInit => KeyInv
<1> SUFFICES ASSUME KeyInit PROVE KeyInv
  OBVIOUS
<1>1. PICK q \in Requested : KeyStart(q)
  BY DEF KeyInit, Requested
<1>2. /\ asked \in Requested /\ block_index = 1 /\ out = <<>> /\ keyPhase = "blocks"
  BY <1>1 DEF KeyStart
<1>3. IsSequence(<<>>) /\ Len(<<>>) = 0
  <2>1. <<>> \in Seq({})
    OBVIOUS
  <2> QED
    BY <2>1 DEF IsSequence
<1>4. BlocksRight
  <2>1. (1 - 1) * Sha1DigestSize = 0 /\ \A p \in 1..0 : FALSE
    BY KeyAssumption
  <2> QED
    BY <1>2, <1>3, <2>1 DEF BlocksRight
<1> QED
  BY <1>2, <1>4 DEF KeyInv, KeyIsRfc8018

LEMMA FirstRoundStep ==
    ASSUME KeyInv, FirstRound
    PROVE  KeyInv'
<1> DEFINE chain == ChainOf(asked, block_index)
<1>1. /\ asked \in Requested /\ block_index \in Nat \ {0} /\ BlocksRight /\ keyPhase' = "rounds"
      /\ UNCHANGED <<asked, block_index, out>> /\ round' = 1 /\ t' = u'
      /\ u' = HmacSha1(asked.password, asked.salt \o IndexBytes(block_index))
  BY DEF KeyInv, FirstRound
<1>2. /\ asked.password \in Passwords /\ asked.iterations \in Int
  BY <1>1, AskedIsTyped
<1>3. /\ 1 \in 1..Rounds(asked) /\ chain[1] = Link(asked, block_index, chain, 1)
      /\ chain[1] = [j \in 1..Sha1DigestSize |-> chain[1][j]]
  <2>1. Rounds(asked) \in Nat \ {0}
    BY <1>2, ChainIs
  <2>2. 1 \in 1..Rounds(asked)
    BY <2>1
  <2>3. chain[1] = Link(asked, block_index, chain, 1)
    BY <1>2, <2>2, ChainIs
  <2> QED
    BY <2>2, <2>3, LinksAreDigests
<1> HIDE DEF chain
<1>4. u' = chain[1]
  <2>1. Link(asked, block_index, chain, 1) = Prf(asked.password, asked.salt \o IndexBytes(block_index))
    BY DEF Link
  <2> QED
    BY <1>1, <1>2, <1>3, <2>1, HmacIsPrf
<1>5. t' = [j \in 1..Sha1DigestSize |-> OddUpTo(chain, 1, j)]
  BY <1>1, <1>3, <1>4, OneLink
<1>6. RoundsRight'
  BY <1>1, <1>3, <1>4, <1>5 DEF RoundsRight, Rounds, chain
<1>7. BlocksRight'
  BY <1>1 DEF BlocksRight
<1> QED
  BY <1>1, <1>6, <1>7 DEF KeyInv, KeyIsRfc8018

LEMMA NextRoundStep ==
    ASSUME KeyInv, NextRound
    PROVE  KeyInv'
<1> DEFINE chain == ChainOf(asked, block_index)
<1>1. /\ asked \in Requested /\ block_index \in Nat \ {0} /\ BlocksRight /\ RoundsRight
      /\ keyPhase = "rounds" /\ UNCHANGED <<asked, block_index, out, keyPhase>>
      /\ round < asked.iterations /\ round' = round + 1
      /\ u' = HmacSha1(asked.password, u) /\ t' = [j \in DOMAIN t |-> Xor(t[j], u'[j])]
  BY DEF KeyInv, NextRound
<1>2. /\ asked.password \in Passwords /\ asked.iterations \in Int
  BY <1>1, AskedIsTyped
<1>3. /\ round \in 1..Rounds(asked) /\ u = chain[round]
      /\ t = [j \in 1..Sha1DigestSize |-> OddUpTo(chain, round, j)]
  BY <1>1 DEF RoundsRight
<1>4. round + 1 \in 1..Rounds(asked) /\ round + 1 # 1 /\ (round + 1) - 1 = round /\ round \in Nat
  BY <1>1, <1>2, <1>3 DEF Rounds
<1>5. chain[round + 1] = Link(asked, block_index, chain, round + 1)
  <2>1. \A k \in 1..Rounds(asked) : chain[k] = Link(asked, block_index, chain, k)
    BY <1>2, ChainIs
  <2> HIDE DEF chain
  <2> QED
    BY <1>4, <2>1
<1> HIDE DEF chain
<1>6. u' = chain[round + 1]
  <2>1. Link(asked, block_index, chain, round + 1) = Prf(asked.password, chain[round])
    BY <1>4 DEF Link
  <2> QED
    BY <1>1, <1>2, <1>3, <1>5, <2>1, HmacIsPrf
<1>7. t' = [j \in 1..Sha1DigestSize |-> OddUpTo(chain, round + 1, j)]
  <2>1. \A j \in 1..Sha1DigestSize : Xor(t[j], u'[j]) = OddUpTo(chain, round + 1, j)
    BY <1>3, <1>4, <1>6, OneMoreLink
  <2>2. DOMAIN t = 1..Sha1DigestSize
    BY <1>3
  <2> QED
    BY <1>1, <2>1, <2>2
<1>8. RoundsRight'
  BY <1>1, <1>4, <1>6, <1>7 DEF RoundsRight, Rounds, chain
<1>9. BlocksRight'
  BY <1>1 DEF BlocksRight
<1> QED
  BY <1>1, <1>8, <1>9 DEF KeyInv, KeyIsRfc8018

LEMMA EndBlockStep ==
    ASSUME KeyInv, EndBlock
    PROVE  KeyInv'
<1> DEFINE chain == ChainOf(asked, block_index)
<1> DEFINE D == Sha1DigestSize
<1> DEFINE n == Len(out)
<1>1. /\ asked \in Requested /\ block_index \in Nat \ {0} /\ BlocksRight /\ RoundsRight
      /\ UNCHANGED asked /\ keyPhase' = "blocks" /\ block_index' = block_index + 1
      /\ round >= asked.iterations /\ out' = out \o t
  BY DEF KeyInv, EndBlock
<1>2. asked.iterations \in Int /\ D \in Nat \ {0}
  BY <1>1, AskedIsTyped
<1>3. /\ round \in 1..Rounds(asked) /\ t = [j \in 1..D |-> OddUpTo(chain, round, j)]
      /\ IsSequence(out) /\ n = (block_index - 1) * D /\ \A p \in 1..n : out[p] = KeyByte(asked, p)
  BY <1>1 DEF RoundsRight, BlocksRight
<1>4. round = Rounds(asked)
  BY <1>1, <1>2, <1>3 DEF Rounds
<1>5. Rounds(asked) \in Nat /\ DOMAIN chain = 1..Rounds(asked)
  BY <1>2, ChainIs
<1>6. \A j \in 1..D : t[j] = OddOnes(chain, j)
  <2> HIDE DEF chain
  <2> QED
    BY <1>3, <1>4, <1>5, AllLinks
<1>7. IsSequence(t) /\ Len(t) = D
  <2>1. t = [j \in 1..D |-> t[j]]
    BY <1>3
  <2> QED
    BY <1>2, <2>1, FunctionIsSequence
<1>8. /\ IsSequence(out') /\ n \in Nat /\ Len(out') = n + D
      /\ out' = [i \in 1..(n + D) |-> IF i <= n THEN out[i] ELSE t[i - n]]
  <2>1. /\ IsSequence(out \o t) /\ Len(out) \in Nat /\ Len(out \o t) = Len(out) + Len(t)
        /\ out \o t = [i \in 1..(Len(out) + Len(t)) |-> IF i <= Len(out) THEN out[i] ELSE t[i - Len(out)]]
    <3>1. IsSequence(out) /\ IsSequence(t)
      BY <1>3, <1>7
    <3> QED
      BY ONLY <3>1, JoinedSequences
  <2> QED
    BY <1>1, <1>7, <2>1
<1>9. ASSUME NEW p \in 1..(n + D) PROVE out'[p] = KeyByte(asked, p)
  <2>1. CASE p <= n
    <3>1. p \in 1..n /\ out'[p] = out[p]
      BY <1>8, <2>1
    <3> QED
      BY <1>3, <3>1
  <2>2. CASE p > n
    <3> DEFINE i == p - n
    <3>1. i \in 1..D /\ out'[p] = t[i] /\ p = n + i
      BY <1>2, <1>8, <2>2
    <3> HIDE DEF i, n, D
    <3>2. block_index - 1 \in Nat /\ (block_index - 1) + 1 = block_index
      BY <1>1
    <3>3. (p - 1) \div D = block_index - 1 /\ (p - 1) % D = i - 1
      BY <1>2, <1>3, <3>1, <3>2, PlaceInBlocks
    <3>4. (p - 1) \div D + 1 = block_index /\ ((p - 1) % D) + 1 = i
      BY <1>2, <3>1, <3>2, <3>3
    <3>5. KeyByte(asked, p) = OddOnes(chain, i)
      BY <3>4 DEF KeyByte, D
    <3> QED
      BY <1>6, <3>1, <3>5
  <2> QED
    BY <1>8, <2>1, <2>2
<1>10. BlocksRight'
  <2>1. n + D = ((block_index + 1) - 1) * D
    <3> HIDE DEF n, D
    <3> QED
      BY <1>1, <1>2, <1>3
  <2> QED
    BY <1>1, <1>8, <1>9, <2>1 DEF BlocksRight
<1> QED
  BY <1>1, <1>10 DEF KeyInv, KeyIsRfc8018

LEMMA KeyDoneStep ==
    ASSUME KeyInv, KeyDone
    PROVE  KeyInv'
<1>1. /\ asked \in Requested /\ block_index \in Nat \ {0} /\ BlocksRight
      /\ UNCHANGED <<asked, block_index>> /\ keyPhase' = "done"
      /\ Len(out) >= asked.length /\ out' = Resized(out, asked.length)
  BY DEF KeyInv, KeyDone
<1>2. asked.length \in Nat /\ Len(out) \in Nat
  <2>1. IsSequence(out)
    BY <1>1 DEF BlocksRight
  <2> QED
    BY <1>1, <2>1, AskedIsTyped, JoinedSequences
<1>3. out' = [i \in 1..asked.length |-> IF i <= Len(out) THEN out[i] ELSE {}]
  BY <1>1 DEF Resized
<1>4. Len(out') = asked.length
  <2> DEFINE f == out'
  <2>1. f = [i \in 1..asked.length |-> f[i]]
    BY <1>3
  <2> HIDE DEF f
  <2>2. Len(f) = asked.length
    BY <1>2, <2>1, FunctionIsSequence
  <2> QED
    BY <2>2 DEF f
<1>5. \A p \in 1..asked.length : out'[p] = KeyByte(asked, p)
  <2> TAKE p \in 1..asked.length
  <2>1. p \in 1..Len(out) /\ p <= Len(out)
    BY <1>1, <1>2
  <2>2. out'[p] = out[p]
    BY <1>3, <2>1
  <2> QED
    BY <1>1, <2>1, <2>2 DEF BlocksRight
<1>6. KeyIsRfc8018'
  BY <1>1, <1>4, <1>5 DEF KeyIsRfc8018, KeyByte
<1> QED
  BY <1>1, <1>6 DEF KeyInv

LEMMA KeyStep ==
    ASSUME KeyInv, [KeyNext]_keyVars
    PROVE  KeyInv'
<1>1. CASE UNCHANGED keyVars
  BY <1>1 DEF KeyInv, BlocksRight, RoundsRight, KeyIsRfc8018, keyVars
<1> QED
  BY <1>1, FirstRoundStep, NextRoundStep, EndBlockStep, KeyDoneStep DEF KeyNext

\* detail::Pbkdf2HmacSha1 with its HmacSha1: the key has the length asked for, and
\* each of its bytes is the one of RFC 8018, whatever the sizes of password and salt.
THEOREM KeysAreRfc8018 == KeySpec => []KeyIsRfc8018
<1>1. KeyInit => KeyInv
  BY KeyInitInv
<1>2. KeyInv /\ [KeyNext]_keyVars => KeyInv'
  BY KeyStep
<1>3. KeyInv => KeyIsRfc8018
  BY DEF KeyInv
<1> QED
  BY <1>1, <1>2, <1>3, PTL DEF KeySpec

-----------------------------------------------------------------------------
(* What a fold over a sequence computes, step by step. FoldLeft goes through *)
(* the subsets of the sequence's places, the highest place last.             *)

LEMMA HasMax ==
    ASSUME NEW n \in Nat, NEW s \in SUBSET (1..n), s # {}
    PROVE  Max(s) \in s /\ \A y \in s : Max(s) >= y
<1> DEFINE T == {k \in Nat : \A y \in s : y <= k}
<1>1. n \in T /\ T \in SUBSET Nat
  OBVIOUS
<1>2. PICK m \in T : \A k \in T : m <= k
  <2> HIDE DEF T
  <2> QED
    BY <1>1, LeastElement
<1>3. m \in s
  <2> SUFFICES ASSUME m \notin s PROVE FALSE
    OBVIOUS
  <2>1. \A y \in s : y \in Int /\ y <= m /\ y # m /\ y >= 1
    BY <1>2
  <2>2. m >= 1
    <3>1. PICK y \in s : TRUE
      OBVIOUS
    <3> QED
      BY <2>1, <3>1
  <2>3. m - 1 \in T
    BY <2>1, <2>2
  <2> QED
    BY <1>2, <2>3
<1>4. \A y \in s : m >= y
  BY <1>2
<1> QED
  BY <1>3, <1>4 DEF Max

LEMMA MaxOfPrefix ==
    ASSUME NEW i \in Nat \ {0}
    PROVE  Max(1..i) = i /\ 1..i # {} /\ (1..i) \ {i} = 1..(i - 1)
<1>1. i \in 1..i /\ 1..i \in SUBSET (1..i)
  OBVIOUS
<1>2. Max(1..i) \in 1..i /\ \A y \in 1..i : Max(1..i) >= y
  BY <1>1, HasMax
<1>3. Max(1..i) = i
  BY <1>1, <1>2
<1> QED
  BY <1>1, <1>3

Folding(iter, n, base, step) ==
    \A s \in SUBSET (1..n) : iter[s] = IF s = {} THEN base ELSE step[Max(s)][iter[s \ {Max(s)}]]

CanFold(n, S, base, step) == \E f \in [SUBSET (1..n) -> S] : Folding(f, n, base, step)

LEMMA FoldExists ==
    ASSUME NEW n \in Nat, NEW S, NEW base \in S, NEW step \in Steps(n, S)
    PROVE  CanFold(n, S, base, step)
<1> DEFINE T == {m \in Nat : m <= n => CanFold(m, S, base, step)}
<1>1. 0 \in T
  <2> DEFINE f == [s \in SUBSET (1..0) |-> base]
  <2>1. \A s \in SUBSET (1..0) : s = {}
    OBVIOUS
  <2>2. f \in [SUBSET (1..0) -> S] /\ Folding(f, 0, base, step)
    BY <2>1 DEF Folding
  <2> HIDE DEF f
  <2>3. CanFold(0, S, base, step)
    BY <2>2 DEF CanFold
  <2> QED
    BY <2>3
<1>2. ASSUME NEW m \in Nat, m \in T PROVE m + 1 \in T
  <2> SUFFICES ASSUME m + 1 <= n
               PROVE  CanFold(m + 1, S, base, step)
    OBVIOUS
  <2>0. CanFold(m, S, base, step)
    BY <1>2
  <2>1. PICK f \in [SUBSET (1..m) -> S] : Folding(f, m, base, step)
    BY <2>0 DEF CanFold
  <2> DEFINE g == [s \in SUBSET (1..(m + 1)) |-> IF m + 1 \in s THEN step[m + 1][f[s \ {m + 1}]] ELSE f[s]]
  <2>2. ASSUME NEW s \in SUBSET (1..(m + 1))
        PROVE  s \ {m + 1} \in SUBSET (1..m)
    <3>1. \A k \in 1..(m + 1) : k # m + 1 => k \in 1..m
      OBVIOUS
    <3> QED
      BY <3>1
  <2>3. g \in [SUBSET (1..(m + 1)) -> S]
    <3>1. ASSUME NEW s \in SUBSET (1..(m + 1))
          PROVE  (IF m + 1 \in s THEN step[m + 1][f[s \ {m + 1}]] ELSE f[s]) \in S
      <4>1. CASE m + 1 \in s
        <5>1. f[s \ {m + 1}] \in S
          BY <2>2
        <5>2. step[m + 1] \in [S -> S]
          BY DEF Steps
        <5> QED
          BY <4>1, <5>1, <5>2
      <4>2. CASE m + 1 \notin s
        <5>1. s \in SUBSET (1..m)
          BY <2>2, <4>2
        <5> QED
          BY <4>2, <5>1
      <4> QED
        BY <4>1, <4>2
    <3> QED
      BY <3>1
  <2>4. ASSUME NEW s \in SUBSET (1..(m + 1))
        PROVE  g[s] = IF s = {} THEN base ELSE step[Max(s)][g[s \ {Max(s)}]]
    <3>1. CASE m + 1 \in s
      <4>1. Max(s) \in s /\ Max(s) >= m + 1
        BY <3>1, m + 1 \in Nat, HasMax
      <4>2. Max(s) = m + 1
        <5>1. Max(s) \in 1..(m + 1)
          BY <4>1
        <5> QED
          BY <4>1, <5>1
      <4>3. s \ {m + 1} \in SUBSET (1..(m + 1)) /\ m + 1 \notin s \ {m + 1}
        OBVIOUS
      <4>4. g[s \ {m + 1}] = f[s \ {m + 1}] /\ g[s] = step[m + 1][f[s \ {m + 1}]]
        BY <3>1, <4>3
      <4> HIDE DEF g
      <4> QED
        BY <3>1, <4>2, <4>4
    <3>2. CASE m + 1 \notin s
      <4>1. s \in SUBSET (1..m) /\ s \ {Max(s)} \in SUBSET (1..m)
        BY <2>2, <3>2
      <4>2. f[s] = IF s = {} THEN base ELSE step[Max(s)][f[s \ {Max(s)}]]
        BY <2>1, <4>1 DEF Folding
      <4>3. g[s] = f[s]
        BY <3>2
      <4>4. g[s \ {Max(s)}] = f[s \ {Max(s)}]
        <5> DEFINE r == s \ {Max(s)}
        <5>1. r \in SUBSET (1..(m + 1)) /\ m + 1 \notin r
          BY <3>2
        <5> HIDE DEF r
        <5>2. g[r] = f[r]
          BY <5>1
        <5> QED
          BY <5>2 DEF r
      <4> HIDE DEF g
      <4> QED
        BY <4>2, <4>3, <4>4
    <3> QED
      BY <3>1, <3>2
  <2> HIDE DEF g
  <2>5. Folding(g, m + 1, base, step)
    BY <2>4 DEF Folding
  <2> QED
    BY <2>3, <2>5 DEF CanFold
<1> HIDE DEF T
<1>3. n \in T
  BY <1>1, <1>2, Induction
<1> QED
  BY <1>3 DEF T

-----------------------------------------------------------------------------
(* Settings. What LoadAll returns is what its sources say, the last one of   *)
(* the highest authority: for every environment, file and command line.      *)

\* map is what f[1], ..., f[n] say when each is laid over those before it.
SumsUp(map, f, n) ==
    /\ DOMAIN map = UNION {DOMAIN f[j] : j \in 1..n}
    /\ \A k \in DOMAIN map : \E j \in 1..n :
          /\ k \in DOMAIN f[j] /\ map[k] = f[j][k]
          /\ \A i \in 1..n : k \in DOMAIN f[i] => i <= j

LEMMA OverIs ==
    ASSUME NEW later, NEW earlier
    PROVE  /\ DOMAIN Over(later, earlier) = DOMAIN later \cup DOMAIN earlier
           /\ \A k \in DOMAIN later : Over(later, earlier)[k] = later[k]
           /\ \A k \in DOMAIN earlier \ DOMAIN later : Over(later, earlier)[k] = earlier[k]
BY DEF Over

LEMMA SumsUpJoined ==
    ASSUME NEW n \in Nat, NEW m \in Nat, NEW a, NEW b, NEW f, NEW g, NEW h,
           SumsUp(a, f, n), SumsUp(b, g, m),
           \A j \in 1..n : h[j] = f[j], \A j \in 1..m : h[n + j] = g[j]
    PROVE  SumsUp(Over(b, a), h, n + m)
<1> DEFINE both == Over(b, a)
<1>1. /\ DOMAIN both = DOMAIN b \cup DOMAIN a
      /\ \A k \in DOMAIN b : both[k] = b[k]
      /\ \A k \in DOMAIN a \ DOMAIN b : both[k] = a[k]
  <2>1. DOMAIN both = DOMAIN b \cup DOMAIN a
    BY OverIs
  <2>2. \A k \in DOMAIN b : both[k] = b[k]
    BY OverIs
  <2>3. \A k \in DOMAIN a \ DOMAIN b : both[k] = a[k]
    BY OverIs
  <2> QED
    BY <2>1, <2>2, <2>3
<1> HIDE DEF both
<1>2. ASSUME NEW i \in 1..(n + m), i \notin 1..n
      PROVE  i - n \in 1..m /\ n + (i - n) = i /\ h[i] = g[i - n]
  <2>1. i - n \in 1..m /\ n + (i - n) = i
    BY <1>2
  <2> QED
    BY <2>1
<1>3. DOMAIN a = UNION {DOMAIN f[j] : j \in 1..n} /\ DOMAIN b = UNION {DOMAIN g[j] : j \in 1..m}
  BY DEF SumsUp
<1>4. \A j \in 1..n : j \in 1..(n + m)
  OBVIOUS
<1>5. \A j \in 1..m : n + j \in 1..(n + m)
  OBVIOUS
<1>6. DOMAIN both = UNION {DOMAIN h[j] : j \in 1..(n + m)}
  <2>1. ASSUME NEW k \in DOMAIN both PROVE \E j \in 1..(n + m) : k \in DOMAIN h[j]
    <3>1. CASE k \in DOMAIN a
      BY <1>3, <1>4, <3>1
    <3>2. CASE k \in DOMAIN b
      BY <1>3, <1>5, <3>2
    <3> QED
      BY <1>1, <3>1, <3>2
  <2>2. ASSUME NEW j \in 1..(n + m), NEW k \in DOMAIN h[j] PROVE k \in DOMAIN both
    <3>1. CASE j \in 1..n
      BY <1>1, <1>3, <3>1
    <3>2. CASE j \notin 1..n
      BY <1>1, <1>2, <1>3, <3>2
    <3> QED
      BY <3>1, <3>2
  <2> QED
    BY <2>1, <2>2
<1>7. ASSUME NEW k \in DOMAIN both
      PROVE  \E j \in 1..(n + m) :
                /\ k \in DOMAIN h[j] /\ both[k] = h[j][k]
                /\ \A i \in 1..(n + m) : k \in DOMAIN h[i] => i <= j
  <2>1. CASE k \in DOMAIN b
    <3>1. PICK j \in 1..m : /\ k \in DOMAIN g[j] /\ b[k] = g[j][k]
                            /\ \A i \in 1..m : k \in DOMAIN g[i] => i <= j
      BY <2>1 DEF SumsUp
    <3>2. n + j \in 1..(n + m) /\ k \in DOMAIN h[n + j] /\ both[k] = h[n + j][k]
      BY <1>1, <1>5, <2>1, <3>1
    <3>3. ASSUME NEW i \in 1..(n + m), k \in DOMAIN h[i] PROVE i <= n + j
      <4>1. CASE i \in 1..n
        BY <4>1
      <4>2. CASE i \notin 1..n
        <5>1. i - n <= j
          BY <1>2, <3>1, <3>3, <4>2
        <5> QED
          BY <5>1
      <4> QED
        BY <4>1, <4>2
    <3> QED
      BY <3>2, <3>3
  <2>2. CASE k \notin DOMAIN b
    <3>1. k \in DOMAIN a
      BY <1>1, <2>2
    <3>2. PICK j \in 1..n : /\ k \in DOMAIN f[j] /\ a[k] = f[j][k]
                            /\ \A i \in 1..n : k \in DOMAIN f[i] => i <= j
      BY <3>1 DEF SumsUp
    <3>3. j \in 1..(n + m) /\ k \in DOMAIN h[j] /\ both[k] = h[j][k]
      <4>1. h[j] = f[j] /\ j \in 1..(n + m)
        BY <1>4
      <4>2. both[k] = a[k]
        BY <1>1, <2>2, <3>1
      <4> QED
        BY <3>2, <4>1, <4>2
    <3>4. ASSUME NEW i \in 1..(n + m), k \in DOMAIN h[i] PROVE i <= j
      <4>1. CASE i \in 1..n
        BY <3>2, <3>4, <4>1
      <4>2. CASE i \notin 1..n
        BY <1>2, <1>3, <2>2, <3>4, <4>2
      <4> QED
        BY <4>1, <4>2
    <3> QED
      BY <3>3, <3>4
  <2> QED
    BY <2>1, <2>2
<1> QED
  BY <1>6, <1>7 DEF SumsUp, both

\* The fold of Overlaid, step by step.
LEMMA OverlaidSteps ==
    ASSUME NEW n \in Nat, NEW f, DOMAIN f = 1..n
    PROVE  \E acc : /\ acc[0] = <<>> /\ \A i \in 1..n : acc[i] = Over(f[i], acc[i - 1])
                    /\ Overlaid(f) = acc[n]
<1> DEFINE Folded(iter) ==
        [s \in SUBSET (1..n) |-> IF s = {} THEN <<>> ELSE Over(f[Max(s)], iter[s \ {Max(s)}])]
<1> DEFINE c == CHOOSE iter : iter = Folded(iter)
<1>1. Overlaid(f) = c[1..n]
  BY DEF Overlaid, FoldLeft, MapThenFoldSet
<1> DEFINE Keys1 == UNION {DOMAIN f[i] : i \in 1..n}
<1> DEFINE Vals == UNION {{f[i][k] : k \in DOMAIN f[i]} : i \in 1..n}
<1> DEFINE S == UNION {[K -> Vals] : K \in SUBSET Keys1}
<1>2. ASSUME NEW i \in 1..n, NEW x \in S PROVE Over(f[i], x) \in S
  <2>1. PICK K \in SUBSET Keys1 : x \in [K -> Vals]
    OBVIOUS
  <2>2. DOMAIN f[i] \cup K \in SUBSET Keys1
    OBVIOUS
  <2>3. Over(f[i], x) \in [DOMAIN f[i] \cup K -> Vals]
    <3>1. \A k \in DOMAIN f[i] : f[i][k] \in Vals
      OBVIOUS
    <3> HIDE DEF Vals, Keys1
    <3>2. DOMAIN x = K /\ \A k \in K : x[k] \in Vals
      BY <2>1
    <3> QED
      BY <3>1, <3>2 DEF Over
  <2> QED
    BY <2>2, <2>3
<1>3. <<>> \in S
  <2>1. <<>> \in [{} -> Vals]
    <3> HIDE DEF Vals
    <3> QED
      OBVIOUS
  <2>2. {} \in SUBSET Keys1
    OBVIOUS
  <2> HIDE DEF Vals, Keys1
  <2> QED
    BY <2>1, <2>2
<1> HIDE DEF S
<1> DEFINE step == [i \in 1..n |-> [x \in S |-> Over(f[i], x)]]
<1>4. step \in Steps(n, S)
  BY <1>2 DEF Steps
<1>5. CanFold(n, S, <<>>, step)
  <2> HIDE DEF step
  <2> QED
    BY <1>3, <1>4, FoldExists
<1>6. PICK h \in [SUBSET (1..n) -> S] : Folding(h, n, <<>>, step)
  BY <1>5 DEF CanFold
<1>7. h = Folded(h)
  <2>1. ASSUME NEW s \in SUBSET (1..n) PROVE h[s] = Folded(h)[s]
    <3>1. CASE s = {}
      BY <1>6, <3>1 DEF Folding
    <3>2. CASE s # {}
      <4>1. Max(s) \in 1..n
        BY <3>2, HasMax
      <4>2. h[s \ {Max(s)}] \in S
        OBVIOUS
      <4>3. h[s] = step[Max(s)][h[s \ {Max(s)}]]
        BY <1>6, <3>2 DEF Folding
      <4>4. step[Max(s)][h[s \ {Max(s)}]] = Over(f[Max(s)], h[s \ {Max(s)}])
        BY <4>1, <4>2
      <4> QED
        BY <3>2, <4>3, <4>4
    <3> QED
      BY <3>1, <3>2
  <2>2. h = [s \in SUBSET (1..n) |-> h[s]]
    OBVIOUS
  <2> QED
    BY <2>1, <2>2
<1>8. c = Folded(c)
  <2> HIDE DEF Folded
  <2> QED
    BY <1>7
<1>9. \A s \in SUBSET (1..n) : c[s] = IF s = {} THEN <<>> ELSE Over(f[Max(s)], c[s \ {Max(s)}])
  <2> HIDE DEF c
  <2>1. \A s \in SUBSET (1..n) : c[s] = Folded(c)[s]
    BY <1>8
  <2> QED
    BY <2>1
<1> HIDE DEF c
<1> DEFINE acc == [i \in 0..n |-> c[1..i]]
<1>10. acc[0] = <<>> /\ acc[n] = c[1..n]
  <2>1. 1..0 = {} /\ 0 \in 0..n /\ n \in 0..n
    OBVIOUS
  <2> QED
    BY <1>9, <2>1
<1>11. ASSUME NEW i \in 1..n PROVE acc[i] = Over(f[i], acc[i - 1])
  <2>1. Max(1..i) = i /\ 1..i # {} /\ (1..i) \ {i} = 1..(i - 1)
    BY i \in Nat \ {0}, MaxOfPrefix
  <2>2. i \in 0..n /\ i - 1 \in 0..n /\ 1..i \in SUBSET (1..n)
    OBVIOUS
  <2> QED
    BY <1>9, <2>1, <2>2
<1> HIDE DEF acc
<1> QED
  BY <1>1, <1>10, <1>11

LEMMA OverlaidSumsUp ==
    ASSUME NEW n \in Nat, NEW f, DOMAIN f = 1..n
    PROVE  SumsUp(Overlaid(f), f, n)
<1>1. PICK acc : /\ acc[0] = <<>> /\ \A i \in 1..n : acc[i] = Over(f[i], acc[i - 1])
                 /\ Overlaid(f) = acc[n]
  BY OverlaidSteps
<1> DEFINE T == {i \in Nat : i <= n => SumsUp(acc[i], f, i)}
<1>2. 0 \in T
  <2>1. 1..0 = {}
    OBVIOUS
  <2>2. SumsUp(<<>>, f, 0)
    BY <2>1 DEF SumsUp
  <2> QED
    BY <1>1, <2>2
<1>3. ASSUME NEW i \in Nat, i \in T PROVE i + 1 \in T
  <2> SUFFICES ASSUME i + 1 <= n PROVE SumsUp(acc[i + 1], f, i + 1)
    OBVIOUS
  <2>1. i + 1 \in 1..n /\ (i + 1) - 1 = i /\ SumsUp(acc[i], f, i)
    BY <1>3
  <2>2. acc[i + 1] = Over(f[i + 1], acc[i])
    BY <1>1, <2>1
  <2> DEFINE g == [j \in 1..1 |-> f[i + 1]]
  <2>3. SumsUp(f[i + 1], g, 1)
    <3>1. 1..1 = {1}
      OBVIOUS
    <3> QED
      BY <3>1 DEF SumsUp
  <2>4. \A j \in 1..1 : f[i + j] = g[j]
    OBVIOUS
  <2> HIDE DEF g
  <2> QED
    BY <2>1, <2>2, <2>3, <2>4, SumsUpJoined
<1> HIDE DEF T
<1>4. n \in T
  BY <1>2, <1>3, Induction
<1> QED
  BY <1>1, <1>4 DEF T

LEMMA FindIs ==
    ASSUME NEW s, NEW m \in Nat, DOMAIN s = 1..m, NEW sep
    PROVE  /\ Find(s, sep) = 0 => \A i \in 1..m : s[i] # sep
           /\ Find(s, sep) # 0 => /\ Find(s, sep) \in 1..m /\ s[Find(s, sep)] = sep
                                  /\ \A j \in 1..(Find(s, sep) - 1) : s[j] # sep
           /\ \A i \in 1..m : s[i] = sep /\ s[i] \notin {s[j] : j \in 1..(i - 1)} => i = Find(s, sep)
<1>1. CASE \A i \in 1..m : s[i] # sep
  BY <1>1 DEF Find
<1>2. CASE \E i \in 1..m : s[i] = sep
  <2> DEFINE places == {i \in 1..m : s[i] = sep}
  <2>1. places # {} /\ places \in SUBSET Nat
    BY <1>2
  <2>2. PICK first \in places : \A i \in places : first <= i
    <3> HIDE DEF places
    <3> QED
      BY <2>1, LeastElement
  <2>3. first \in DOMAIN s /\ s[first] = sep /\ \A j \in 1..(first - 1) : s[j] # sep
    <3>1. first \in 1..m /\ s[first] = sep
      OBVIOUS
    <3>2. ASSUME NEW j \in 1..(first - 1) PROVE s[j] # sep
      <4>1. j \in 1..m /\ ~(first <= j)
        BY <3>1
      <4> QED
        BY <2>2, <4>1
    <3> QED
      BY <3>1, <3>2
  <2> DEFINE found == CHOOSE i \in DOMAIN s : s[i] = sep /\ \A j \in 1..(i - 1) : s[j] # sep
  <2>4. found \in DOMAIN s /\ s[found] = sep /\ \A j \in 1..(found - 1) : s[j] # sep
    BY <2>3
  <2>5. Find(s, sep) = found
    BY <1>2 DEF Find
  <2> HIDE DEF found
  <2>6. found \in 1..m /\ found # 0
    BY <2>4
  <2>7. ASSUME NEW i \in 1..m, s[i] = sep, s[i] \notin {s[j] : j \in 1..(i - 1)}
        PROVE  i = found
    <3>1. ~(i < found)
      <4> SUFFICES ASSUME i < found PROVE FALSE
        OBVIOUS
      <4>1. i \in 1..(found - 1)
        BY <2>6
      <4> QED
        BY <2>4, <2>7, <4>1
    <3>2. ~(found < i)
      <4> SUFFICES ASSUME found < i PROVE FALSE
        OBVIOUS
      <4>1. found \in 1..(i - 1)
        BY <2>6
      <4> QED
        BY <2>4, <2>7, <4>1
    <3> QED
      BY <2>6, <3>1, <3>2
  <2> QED
    BY <2>4, <2>5, <2>6, <2>7
<1> QED
  BY <1>1, <1>2

LEMMA TrimIsSequence ==
    ASSUME NEW s, IsSequence(s)
    PROVE  IsSequence(Trim(s))
<1>1. PICK S : s \in Seq(S)
  BY DEF IsSequence
<1> DEFINE words == {i \in DOMAIN s : s[i] # " "}
<1> DEFINE lo == CHOOSE i \in words : \A j \in words : i <= j
<1> DEFINE hi == CHOOSE i \in words : \A j \in words : i >= j
<1>2. DOMAIN s = 1..Len(s) /\ Len(s) \in Nat
  BY <1>1
<1>3. CASE words = {}
  <2>1. Trim(s) = <<>>
    BY <1>3, Zenon DEF Trim
  <2>2. <<>> \in Seq({})
    OBVIOUS
  <2> QED
    BY <2>1, <2>2, Zenon DEF IsSequence
<1>4. CASE words # {}
  <2>1. words \in SUBSET (1..Len(s)) /\ words \in SUBSET Nat
    <3>1. words \subseteq DOMAIN s
      OBVIOUS
    <3> HIDE DEF words
    <3> QED
      BY <1>2, <3>1
  <2> HIDE DEF words
  <2>2. lo \in words
    <3>1. \E i \in words : \A j \in words : i <= j
      BY <1>4, <2>1, LeastElement
    <3> QED
      BY <3>1
  <2>3. hi \in words
    <3>1. Max(words) \in words
      BY <1>2, <1>4, <2>1, HasMax
    <3> QED
      BY <3>1 DEF Max
  <2>4. Trim(s) = SubSeq(s, lo, hi)
    BY <1>4 DEF Trim, words
  <2> HIDE DEF lo, hi
  <2>5. lo \in 1..Len(s) /\ hi \in 1..Len(s)
    BY <2>1, <2>2, <2>3
  <2>6. lo \in Int /\ hi \in Int /\ \A i \in lo..hi : s[i] \in S
    BY <1>1, <1>2, <2>5
  <2>7. SubSeq(s, lo, hi) \in Seq(S)
    BY <2>6, SubSeqProperties
  <2> QED
    BY <2>4, <2>7 DEF IsSequence
<1> QED
  BY <1>3, <1>4

\* map is what the text n states.
TextSays(map, n) ==
    /\ DOMAIN map = {KeyAt(n, i) : i \in {i \in DOMAIN Stated[n].text : SetsAt(n, i)}}
    /\ \A i \in DOMAIN Stated[n].text : SetsAt(n, i) => map[KeyAt(n, i)] = ValueAt(n, i)

LEMMA SaysOne ==
    ASSUME NEW n, NEW at \in DOMAIN Stated[n].text, SetsAt(n, at),
           \A i \in DOMAIN Stated[n].text : SetsAt(n, i) => i = at
    PROVE  TextSays(Setting(KeyAt(n, at), ValueAt(n, at)), n)
BY DEF TextSays, Setting

LEMMA SaysNothing ==
    ASSUME NEW n, \A i \in DOMAIN Stated[n].text : ~SetsAt(n, i)
    PROVE  TextSays(<<>>, n)
BY DEF TextSays

LEMMA EnvSays ==
    ASSUME NEW n, NEW s, IsSequence(s), Stated[n].from = "env", Stated[n].text = s
    PROVE  TextSays(SplitAt(s, Find(s, "=")), n)
<1> DEFINE at == Find(s, "=")
<1> DEFINE m == Len(s)
<1>1. m \in Nat /\ DOMAIN s = 1..m
  BY DEF IsSequence
<1>2. /\ at = 0 => \A i \in 1..m : s[i] # "="
      /\ at # 0 => at \in 1..m /\ s[at] = "=" /\ \A j \in 1..(at - 1) : s[j] # "="
      /\ \A i \in 1..m : s[i] = "=" /\ s[i] \notin {s[j] : j \in 1..(i - 1)} => i = at
  BY <1>1, FindIs
<1> HIDE DEF at, m
<1>3. \A i \in DOMAIN s : SetsAt(n, i) <=> s[i] \notin {s[j] : j \in 1..(i - 1)} /\ s[i] = "="
  BY DEF SetsAt
<1>4. CASE at = 0
  <2>1. \A i \in DOMAIN Stated[n].text : ~SetsAt(n, i)
    BY <1>1, <1>2, <1>3, <1>4
  <2> QED
    BY <1>4, <2>1, SaysNothing DEF SplitAt, at
<1>5. CASE at # 0
  <2>1. at \in DOMAIN s /\ SetsAt(n, at)
    BY <1>1, <1>2, <1>3, <1>5
  <2>2. \A i \in DOMAIN s : SetsAt(n, i) => i = at
    BY <1>1, <1>2, <1>3
  <2>3. SplitAt(s, at) = Setting(KeyAt(n, at), ValueAt(n, at))
    BY <1>5 DEF SplitAt, KeyAt, ValueAt, Word
  <2>4. TextSays(Setting(KeyAt(n, at), ValueAt(n, at)), n)
    BY <2>1, <2>2, SaysOne
  <2> QED
    BY <2>3, <2>4 DEF at
<1> QED
  BY <1>4, <1>5

LEMMA ArgSays ==
    ASSUME NEW n, NEW s, IsSequence(s), Stated[n].from = "args", Stated[n].text = s
    PROVE  TextSays(IF Find(s, "=") > 1 THEN SplitAt(s, Find(s, "=")) ELSE <<>>, n)
<1> DEFINE at == Find(s, "=")
<1> DEFINE m == Len(s)
<1>1. m \in Nat /\ DOMAIN s = 1..m
  BY DEF IsSequence
<1>2. /\ at = 0 => \A i \in 1..m : s[i] # "="
      /\ at # 0 => at \in 1..m /\ s[at] = "=" /\ \A j \in 1..(at - 1) : s[j] # "="
      /\ \A i \in 1..m : s[i] = "=" /\ s[i] \notin {s[j] : j \in 1..(i - 1)} => i = at
  BY <1>1, FindIs
<1> HIDE DEF at, m
<1>3. \A i \in DOMAIN s : SetsAt(n, i) <=> s[i] \notin {s[j] : j \in 1..(i - 1)} /\ s[i] = "=" /\ i > 1
  BY DEF SetsAt
<1>4. CASE ~(at > 1)
  <2>1. \A i \in DOMAIN Stated[n].text : ~SetsAt(n, i)
    BY <1>1, <1>2, <1>3, <1>4
  <2> QED
    BY <1>4, <2>1, SaysNothing DEF at
<1>5. CASE at > 1
  <2>1. at # 0 /\ at \in DOMAIN s /\ SetsAt(n, at)
    BY <1>1, <1>2, <1>3, <1>5
  <2>2. \A i \in DOMAIN s : SetsAt(n, i) => i = at
    BY <1>1, <1>2, <1>3
  <2>3. SplitAt(s, at) = Setting(KeyAt(n, at), ValueAt(n, at))
    BY <2>1 DEF SplitAt, KeyAt, ValueAt, Word
  <2>4. TextSays(Setting(KeyAt(n, at), ValueAt(n, at)), n)
    BY <2>1, <2>2, SaysOne
  <2> QED
    BY <1>5, <2>3, <2>4 DEF at
<1> QED
  BY <1>4, <1>5

LEMMA LineSays ==
    ASSUME NEW n, NEW raw, IsSequence(raw), Stated[n].from = "file", Stated[n].text = Trim(raw)
    PROVE  TextSays(LineSetting(raw), n)
<1> DEFINE s == Trim(raw)
<1> DEFINE equals == Find(s, "=")
<1> DEFINE colon == Find(s, ":")
<1> DEFINE at == IF equals # 0 THEN equals ELSE colon
<1> DEFINE m == Len(s)
<1>0. IsSequence(s)
  BY TrimIsSequence
<1>1. m \in Nat /\ DOMAIN s = 1..m /\ (s = <<>> => m = 0)
  <2> HIDE DEF s
  <2> QED
    BY <1>0 DEF IsSequence
<1>2. /\ equals = 0 => \A i \in 1..m : s[i] # "="
      /\ equals # 0 => equals \in 1..m /\ s[equals] = "=" /\ \A j \in 1..(equals - 1) : s[j] # "="
      /\ \A i \in 1..m : s[i] = "=" /\ s[i] \notin {s[j] : j \in 1..(i - 1)} => i = equals
  <2> HIDE DEF s, m
  <2> QED
    BY <1>1, FindIs
<1>3. /\ colon = 0 => \A i \in 1..m : s[i] # ":"
      /\ colon # 0 => colon \in 1..m /\ s[colon] = ":" /\ \A j \in 1..(colon - 1) : s[j] # ":"
      /\ \A i \in 1..m : s[i] = ":" /\ s[i] \notin {s[j] : j \in 1..(i - 1)} => i = colon
  <2> HIDE DEF s, m
  <2> QED
    BY <1>1, FindIs
<1>4. LineSetting(raw) = IF s = <<>> \/ s[1] \in {"#", "!"} THEN <<>> ELSE TrimmedAt(s, at)
  BY DEF LineSetting
<1>5. Stated[n].text = s
  OBVIOUS
<1> HIDE DEF s, equals, colon, m
<1>6. \A i \in DOMAIN s : SetsAt(n, i) <=>
          /\ s[i] \notin {s[j] : j \in 1..(i - 1)}
          /\ s[i] = "=" \/ (s[i] = ":" /\ \A j \in DOMAIN s : s[j] # "=")
          /\ s[1] \notin {"#", "!"}
  BY <1>5 DEF SetsAt
<1>7. CASE s = <<>> \/ s[1] \in {"#", "!"}
  <2>1. \A i \in DOMAIN Stated[n].text : ~SetsAt(n, i)
    <3>1. CASE s = <<>>
      BY <1>1, <1>5, <3>1
    <3>2. CASE s[1] \in {"#", "!"}
      BY <1>5, <1>6, <3>2
    <3> QED
      BY <1>7, <3>1, <3>2
  <2> QED
    BY <1>4, <1>7, <2>1, SaysNothing
<1>8. CASE ~(s = <<>> \/ s[1] \in {"#", "!"})
  <2>1. LineSetting(raw) = TrimmedAt(s, at)
    BY <1>4, <1>8
  <2>2. CASE at = 0
    <3>1. equals = 0 /\ colon = 0
      BY <2>2
    <3>2. \A i \in DOMAIN Stated[n].text : ~SetsAt(n, i)
      BY <1>1, <1>2, <1>3, <1>5, <1>6, <3>1
    <3> QED
      BY <2>1, <2>2, <3>2, SaysNothing DEF TrimmedAt
  <2>3. CASE at # 0
    <3>1. at \in DOMAIN s /\ SetsAt(n, at) /\ \A i \in DOMAIN s : SetsAt(n, i) => i = at
      <4>1. CASE equals # 0
        <5>1. at = equals /\ at \in 1..m /\ s[at] = "=" /\ \A j \in 1..(at - 1) : s[j] # "="
          BY <1>2, <4>1
        <5>2. SetsAt(n, at)
          BY <1>1, <1>6, <1>8, <5>1
        <5>3. \A i \in DOMAIN s : SetsAt(n, i) => i = at
          BY <1>1, <1>2, <1>6, <5>1
        <5> QED
          BY <1>1, <5>1, <5>2, <5>3
      <4>2. CASE equals = 0
        <5>1. /\ at = colon /\ at \in 1..m /\ s[at] = ":" /\ \A j \in 1..(at - 1) : s[j] # ":"
              /\ \A i \in 1..m : s[i] # "="
          BY <1>2, <1>3, <2>3, <4>2
        <5>2. SetsAt(n, at)
          BY <1>1, <1>6, <1>8, <5>1
        <5>3. \A i \in DOMAIN s : SetsAt(n, i) => i = at
          BY <1>1, <1>3, <1>6, <5>1
        <5> QED
          BY <1>1, <5>1, <5>2, <5>3
      <4> QED
        BY <4>1, <4>2
    <3> HIDE DEF at
    <3>2. TrimmedAt(s, at) = Setting(KeyAt(n, at), ValueAt(n, at))
      BY <1>5, <2>3 DEF TrimmedAt, KeyAt, ValueAt, Word
    <3>3. TextSays(Setting(KeyAt(n, at), ValueAt(n, at)), n)
      BY <1>5, <3>1, SaysOne
    <3> QED
      BY <2>1, <3>2, <3>3
  <2> QED
    BY <2>2, <2>3
<1> QED
  BY <1>7, <1>8

SettingsTyped == environ \in Environments /\ args \in Arguments /\ file \in Files \cup {Missing}

\* The inductive invariant: what LoadAll returned is what its sources make.
SettingInv ==
    /\ SettingsTyped
    /\ loading \in {"due", "returned", "thrown"}
    /\ loading = "thrown" => named /\ file = Missing
    /\ loading = "returned" => ~(named /\ file = Missing) /\ config = Loaded

LEMMA SourcesAreTexts ==
    ASSUME NEW source \in Environments \cup Files \cup Arguments
    PROVE  /\ IsSequence(source) /\ Len(source) \in Nat /\ DOMAIN source = 1..Len(source)
           /\ \A i \in 1..Len(source) : IsSequence(source[i])
<1>1. source \in Seq(Range(source)) /\ \A s \in Range(source) : s \in Seq(Range(s))
  BY SettingsAssumption
<1> DEFINE S == Range(source)
<1>2. \A s \in S : IsSequence(s)
  <2> TAKE s \in S
  <2> DEFINE R == Range(s)
  <2>1. s \in Seq(R)
    BY <1>1
  <2> HIDE DEF R
  <2> QED
    BY <2>1 DEF IsSequence
<1>3. source \in Seq(S)
  BY <1>1
<1> HIDE DEF S
<1> QED
  BY <1>2, <1>3 DEF IsSequence

EnvCount == Len(environ)
FileCount == IF named THEN Len(file) ELSE 0
ArgCount == Len(args)

LEMMA StatedIs ==
    ASSUME SettingsTyped, ~(named /\ file = Missing)
    PROVE  /\ EnvCount \in Nat /\ FileCount \in Nat /\ ArgCount \in Nat
           /\ DOMAIN Stated = 1..(EnvCount + FileCount + ArgCount)
           /\ \A i \in 1..EnvCount : Stated[i].from = "env" /\ Stated[i].text = environ[i]
           /\ \A i \in 1..FileCount :
                 Stated[EnvCount + i].from = "file" /\ Stated[EnvCount + i].text = Trim(file[i])
           /\ \A i \in 1..ArgCount :
                 /\ Stated[EnvCount + FileCount + i].from = "args"
                 /\ Stated[EnvCount + FileCount + i].text = args[i]
<1> DEFINE From(source, texts) == [i \in DOMAIN texts |-> [from |-> source, text |-> texts[i]]]
<1> DEFINE trimmed == IF named THEN [i \in DOMAIN file |-> Trim(file[i])] ELSE <<>>
<1> DEFINE a == From("env", environ)
<1> DEFINE b == From("file", trimmed)
<1> DEFINE c == From("args", args)
<1>1. Stated = (a \o b) \o c
  BY DEF Stated
<1>2. /\ EnvCount \in Nat /\ DOMAIN environ = 1..EnvCount
      /\ ArgCount \in Nat /\ DOMAIN args = 1..ArgCount
  BY SourcesAreTexts DEF SettingsTyped, EnvCount, ArgCount
<1>3. FileCount \in Nat /\ DOMAIN trimmed = 1..FileCount
  <2>1. CASE named
    <3>1. file \in Files
      BY <2>1 DEF SettingsTyped
    <3> QED
      BY <2>1, <3>1, SourcesAreTexts DEF FileCount
  <2>2. CASE ~named
    BY <2>2 DEF FileCount
  <2> QED
    BY <2>1, <2>2
<1>4. \A i \in 1..FileCount : trimmed[i] = Trim(file[i])
  <2>1. CASE named
    BY <1>3, <2>1
  <2>2. CASE ~named
    <3>1. FileCount = 0
      BY <2>2 DEF FileCount
    <3> QED
      BY <3>1
  <2> QED
    BY <2>1, <2>2
<1> HIDE DEF trimmed
<1>5. /\ IsSequence(a) /\ Len(a) = EnvCount
      /\ \A i \in 1..EnvCount : a[i].from = "env" /\ a[i].text = environ[i]
  <2>1. a = [i \in 1..EnvCount |-> a[i]]
    BY <1>2
  <2>2. \A i \in 1..EnvCount : a[i].from = "env" /\ a[i].text = environ[i]
    BY <1>2
  <2> HIDE DEF a
  <2> QED
    BY <1>2, <2>1, <2>2, FunctionIsSequence
<1>6. /\ IsSequence(b) /\ Len(b) = FileCount
      /\ \A i \in 1..FileCount : b[i].from = "file" /\ b[i].text = Trim(file[i])
  <2>1. b = [i \in 1..FileCount |-> b[i]]
    BY <1>3
  <2>2. \A i \in 1..FileCount : b[i].from = "file" /\ b[i].text = Trim(file[i])
    BY <1>3, <1>4
  <2> HIDE DEF b
  <2> QED
    BY <1>3, <2>1, <2>2, FunctionIsSequence
<1>7. /\ IsSequence(c) /\ Len(c) = ArgCount
      /\ \A i \in 1..ArgCount : c[i].from = "args" /\ c[i].text = args[i]
  <2>1. c = [i \in 1..ArgCount |-> c[i]]
    BY <1>2
  <2>2. \A i \in 1..ArgCount : c[i].from = "args" /\ c[i].text = args[i]
    BY <1>2
  <2> HIDE DEF c
  <2> QED
    BY <1>2, <2>1, <2>2, FunctionIsSequence
<1> HIDE DEF a, b, c
<1> DEFINE ab == a \o b
<1>8. /\ IsSequence(ab) /\ Len(ab) = EnvCount + FileCount
      /\ ab = [i \in 1..(EnvCount + FileCount) |-> IF i <= EnvCount THEN a[i] ELSE b[i - EnvCount]]
  BY <1>5, <1>6, JoinedSequences
<1>9. /\ \A i \in 1..EnvCount : ab[i] = a[i]
      /\ \A i \in 1..FileCount : ab[EnvCount + i] = b[i]
  <2>1. \A i \in 1..EnvCount : i \in 1..(EnvCount + FileCount) /\ i <= EnvCount
    BY <1>2, <1>3
  <2>2. \A i \in 1..FileCount : /\ EnvCount + i \in 1..(EnvCount + FileCount) /\ ~(EnvCount + i <= EnvCount)
                                /\ (EnvCount + i) - EnvCount = i
    BY <1>2, <1>3
  <2> QED
    BY <1>8, <2>1, <2>2
<1> HIDE DEF ab
<1> DEFINE total == EnvCount + FileCount
<1>10. total \in Nat /\ Len(ab) = total
  BY <1>2, <1>3, <1>8
<1> HIDE DEF total
<1>11. /\ Stated = [i \in 1..(total + ArgCount) |-> IF i <= total THEN ab[i] ELSE c[i - total]]
  <2>1. Stated = ab \o c
    BY <1>1 DEF ab
  <2>2. IsSequence(ab) /\ IsSequence(c)
    BY <1>7, <1>8
  <2>3. ab \o c = [i \in 1..(Len(ab) + Len(c)) |-> IF i <= Len(ab) THEN ab[i] ELSE c[i - Len(ab)]]
    BY ONLY <2>2, JoinedSequences
  <2>4. Len(ab) = total /\ Len(c) = ArgCount
    BY <1>7, <1>10
  <2>5. ab \o c = [i \in 1..(total + ArgCount) |-> IF i <= total THEN ab[i] ELSE c[i - total]]
    BY <2>3, <2>4
  <2> QED
    BY <2>1, <2>5
<1>12. /\ \A i \in 1..total : Stated[i] = ab[i]
       /\ \A i \in 1..ArgCount : Stated[total + i] = c[i]
  <2>1. \A i \in 1..total : i \in 1..(total + ArgCount) /\ i <= total
    BY <1>2, <1>10
  <2>2. \A i \in 1..ArgCount : total + i \in 1..(total + ArgCount) /\ ~(total + i <= total) /\ (total + i) - total = i
    BY <1>2, <1>10
  <2> QED
    BY <1>11, <2>1, <2>2
<1>13. /\ \A i \in 1..EnvCount : i \in 1..total
       /\ \A i \in 1..FileCount : EnvCount + i \in 1..total
  BY <1>2, <1>3 DEF total
<1>14. DOMAIN Stated = 1..(total + ArgCount)
  BY <1>11
<1>15. \A i \in 1..EnvCount : Stated[i].from = "env" /\ Stated[i].text = environ[i]
  BY <1>5, <1>9, <1>12, <1>13
<1>16. \A i \in 1..FileCount :
          Stated[EnvCount + i].from = "file" /\ Stated[EnvCount + i].text = Trim(file[i])
  BY <1>6, <1>9, <1>12, <1>13
<1>17. \A i \in 1..ArgCount : Stated[total + i].from = "args" /\ Stated[total + i].text = args[i]
  BY <1>7, <1>12
<1> QED
  BY <1>2, <1>3, <1>14, <1>15, <1>16, <1>17 DEF total

\* The map that each text makes, in the order of Stated.
MapOf(n) ==
    IF n <= EnvCount THEN SplitAt(environ[n], Find(environ[n], "="))
    ELSE IF n <= EnvCount + FileCount THEN LineSetting(file[n - EnvCount])
    ELSE LET s == args[n - EnvCount - FileCount]
         IN IF Find(s, "=") > 1 THEN SplitAt(s, Find(s, "=")) ELSE <<>>

LEMMA MapsSay ==
    ASSUME SettingsTyped, ~(named /\ file = Missing), NEW n \in DOMAIN Stated
    PROVE  TextSays(MapOf(n), n)
<1>1. /\ EnvCount \in Nat /\ FileCount \in Nat /\ ArgCount \in Nat
      /\ n \in 1..(EnvCount + FileCount + ArgCount)
  BY StatedIs
<1>2. CASE n <= EnvCount
  <2>1. n \in 1..EnvCount
    BY <1>1, <1>2
  <2>2. Stated[n].from = "env" /\ Stated[n].text = environ[n] /\ IsSequence(environ[n])
    <3>1. IsSequence(environ[n])
      BY <2>1, SourcesAreTexts DEF SettingsTyped, EnvCount
    <3> QED
      BY <2>1, <3>1, StatedIs
  <2>3. MapOf(n) = SplitAt(environ[n], Find(environ[n], "="))
    BY <1>2 DEF MapOf
  <2> QED
    BY <2>2, <2>3, EnvSays
<1>3. CASE ~(n <= EnvCount) /\ n <= EnvCount + FileCount
  <2> DEFINE i == n - EnvCount
  <2>1. i \in 1..FileCount /\ EnvCount + i = n
    BY <1>1, <1>3
  <2>2. MapOf(n) = LineSetting(file[i])
    BY <1>3 DEF MapOf
  <2> HIDE DEF i
  <2>3. named
    BY <2>1 DEF FileCount
  <2>4. IsSequence(file[i])
    BY <2>1, <2>3, SourcesAreTexts DEF SettingsTyped, FileCount
  <2>5. Stated[n].from = "file" /\ Stated[n].text = Trim(file[i])
    BY <2>1, StatedIs
  <2> QED
    BY <2>2, <2>4, <2>5, LineSays
<1>4. CASE ~(n <= EnvCount) /\ ~(n <= EnvCount + FileCount)
  <2> DEFINE i == n - EnvCount - FileCount
  <2>1. i \in 1..ArgCount /\ EnvCount + FileCount + i = n
    BY <1>1, <1>4
  <2>2. MapOf(n) = IF Find(args[i], "=") > 1 THEN SplitAt(args[i], Find(args[i], "=")) ELSE <<>>
    BY <1>4 DEF MapOf
  <2> HIDE DEF i
  <2>3. IsSequence(args[i])
    BY <2>1, SourcesAreTexts DEF SettingsTyped, ArgCount
  <2>4. Stated[n].from = "args" /\ Stated[n].text = args[i]
    BY <2>1, StatedIs
  <2> QED
    BY <2>2, <2>3, <2>4, ArgSays
<1> QED
  BY <1>2, <1>3, <1>4

LEMMA SumsUpSame ==
    ASSUME NEW n \in Nat, NEW map, NEW f, NEW h, SumsUp(map, f, n), \A j \in 1..n : h[j] = f[j]
    PROVE  SumsUp(map, h, n)
BY DEF SumsUp

LEMMA LoadedSumsUp ==
    ASSUME SettingsTyped, ~(named /\ file = Missing)
    PROVE  SumsUp(Loaded, [n \in DOMAIN Stated |-> MapOf(n)], EnvCount + FileCount + ArgCount)
<1> DEFINE h == [n \in DOMAIN Stated |-> MapOf(n)]
<1> DEFINE e == [i \in DOMAIN environ |-> SplitAt(environ[i], Find(environ[i], "="))]
<1> DEFINE f == [i \in DOMAIN file |-> LineSetting(file[i])]
<1> DEFINE a == [i \in DOMAIN args |->
                    IF Find(args[i], "=") > 1 THEN SplitAt(args[i], Find(args[i], "=")) ELSE <<>>]
<1> DEFINE total == EnvCount + FileCount
<1>1. /\ EnvCount \in Nat /\ FileCount \in Nat /\ ArgCount \in Nat /\ total \in Nat
      /\ DOMAIN Stated = 1..(total + ArgCount)
  BY StatedIs
<1>2. DOMAIN environ = 1..EnvCount /\ DOMAIN args = 1..ArgCount
  BY SourcesAreTexts DEF SettingsTyped, EnvCount, ArgCount
<1>3. SumsUp(LoadFromEnv, e, EnvCount)
  <2>1. DOMAIN e = 1..EnvCount
    BY <1>2
  <2>2. LoadFromEnv = Overlaid(e)
    BY DEF LoadFromEnv
  <2> HIDE DEF e
  <2> QED
    BY <1>1, <2>1, <2>2, OverlaidSumsUp
<1>4. SumsUp(LoadFromArgs, a, ArgCount)
  <2>1. DOMAIN a = 1..ArgCount
    BY <1>2
  <2>2. LoadFromArgs = Overlaid(a)
    BY DEF LoadFromArgs
  <2> HIDE DEF a
  <2> QED
    BY <1>1, <2>1, <2>2, OverlaidSumsUp
<1>5. \A j \in 1..EnvCount : h[j] = e[j]
  BY <1>1, <1>2 DEF MapOf
<1>6. \A j \in 1..ArgCount : h[total + j] = a[j]
  <2> TAKE j \in 1..ArgCount
  <2>1. /\ total + j \in 1..(total + ArgCount) /\ ~(total + j <= EnvCount) /\ ~(total + j <= EnvCount + FileCount)
        /\ (total + j) - EnvCount - FileCount = j
    BY <1>1
  <2> HIDE DEF total
  <2>2. MapOf(total + j) = IF Find(args[j], "=") > 1 THEN SplitAt(args[j], Find(args[j], "=")) ELSE <<>>
    BY <2>1 DEF MapOf
  <2> QED
    BY <1>1, <1>2, <2>1, <2>2
<1> DEFINE middle == IF named THEN Over(ParseProperties(file), LoadFromEnv) ELSE LoadFromEnv
<1>7. SumsUp(middle, h, total)
  <2>1. CASE named
    <3>1. DOMAIN file = 1..FileCount
      BY <2>1, SourcesAreTexts DEF SettingsTyped, FileCount
    <3>2. SumsUp(ParseProperties(file), f, FileCount)
      <4>1. DOMAIN f = 1..FileCount
        BY <3>1
      <4>2. ParseProperties(file) = Overlaid(f)
        BY DEF ParseProperties
      <4> HIDE DEF f
      <4> QED
        BY <1>1, <4>1, <4>2, OverlaidSumsUp
    <3>3. \A j \in 1..FileCount : h[EnvCount + j] = f[j]
      <4> TAKE j \in 1..FileCount
      <4>1. /\ EnvCount + j \in 1..(total + ArgCount) /\ ~(EnvCount + j <= EnvCount)
            /\ EnvCount + j <= EnvCount + FileCount /\ (EnvCount + j) - EnvCount = j
        BY <1>1
      <4> HIDE DEF total
      <4>2. MapOf(EnvCount + j) = LineSetting(file[j])
        BY <4>1 DEF MapOf
      <4> QED
        BY <1>1, <3>1, <4>1, <4>2
    <3> HIDE DEF e, f, h
    <3> QED
      BY <1>1, <1>3, <1>5, <2>1, <3>2, <3>3, SumsUpJoined
  <2>2. CASE ~named
    <3>1. total = EnvCount /\ middle = LoadFromEnv
      BY <1>1, <2>2 DEF FileCount
    <3> HIDE DEF e, h, middle
    <3> QED
      BY <1>1, <1>3, <1>5, <3>1, SumsUpSame
  <2> QED
    BY <2>1, <2>2
<1> HIDE DEF a, h, middle, total
<1>8. SumsUp(Over(LoadFromArgs, middle), h, total + ArgCount)
  BY <1>1, <1>4, <1>6, <1>7, SumsUpJoined
<1> QED
  BY <1>8 DEF Loaded, middle, h, total

LEMMA SettingsEffective ==
    ASSUME SettingInv
    PROVE  EffectiveSetting
<1>1. loading # "due" => (loading = "thrown" <=> named /\ file = Missing)
  BY DEF SettingInv
<1> SUFFICES ASSUME loading = "returned"
             PROVE  LET texts == UNION {{n} \X (DOMAIN Stated[n].text) : n \in DOMAIN Stated}
                        Places == {p \in texts : SetsAt(p[1], p[2])}
                    IN /\ DOMAIN config = {KeyAt(p[1], p[2]) : p \in Places}
                       /\ \A key \in DOMAIN config :
                             \E p \in Places :
                                /\ KeyAt(p[1], p[2]) = key /\ ValueAt(p[1], p[2]) = config[key]
                                /\ \A q \in Places : KeyAt(q[1], q[2]) = key => q[1] <= p[1]
  BY <1>1, Zenon DEF EffectiveSetting
<1> DEFINE texts == UNION {{n} \X (DOMAIN Stated[n].text) : n \in DOMAIN Stated}
<1> DEFINE Places == {p \in texts : SetsAt(p[1], p[2])}
<1> DEFINE N == EnvCount + FileCount + ArgCount
<1> DEFINE h == [n \in DOMAIN Stated |-> MapOf(n)]
<1>2. SettingsTyped /\ ~(named /\ file = Missing) /\ config = Loaded
  BY DEF SettingInv
<1>3. DOMAIN Stated = 1..N
  BY <1>2, StatedIs
<1>4. SumsUp(config, h, N)
  BY <1>2, LoadedSumsUp
<1>5. \A n \in 1..N : TextSays(h[n], n)
  BY <1>2, <1>3, MapsSay
<1> HIDE DEF h, N
<1>6. \A n, i : n \in 1..N /\ i \in DOMAIN Stated[n].text /\ SetsAt(n, i) => <<n, i>> \in Places
  BY <1>3
<1>7. \A p \in Places : /\ p[1] \in 1..N /\ p[2] \in DOMAIN Stated[p[1]].text /\ SetsAt(p[1], p[2])
  BY <1>3
<1>8. \A p : p \in Places => /\ KeyAt(p[1], p[2]) \in DOMAIN h[p[1]]
                             /\ h[p[1]][KeyAt(p[1], p[2])] = ValueAt(p[1], p[2])
  BY <1>5, <1>7 DEF TextSays
<1>9. ASSUME NEW n \in 1..N, NEW key \in DOMAIN h[n]
      PROVE  \E p \in Places : p[1] = n /\ KeyAt(p[1], p[2]) = key /\ ValueAt(p[1], p[2]) = h[n][key]
  <2>1. PICK i \in DOMAIN Stated[n].text : SetsAt(n, i) /\ KeyAt(n, i) = key /\ ValueAt(n, i) = h[n][key]
    BY <1>5 DEF TextSays
  <2>2. <<n, i>> \in Places
    BY <1>6, <2>1
  <2> HIDE DEF Places
  <2> QED
    BY <2>1, <2>2
<1> HIDE DEF Places
<1>10. DOMAIN config = {KeyAt(p[1], p[2]) : p \in Places}
  <2>1. ASSUME NEW key \in DOMAIN config PROVE \E p \in Places : KeyAt(p[1], p[2]) = key
    BY <1>4, <1>9 DEF SumsUp
  <2>2. ASSUME NEW p \in Places PROVE KeyAt(p[1], p[2]) \in DOMAIN config
    BY <1>4, <1>7, <1>8 DEF SumsUp
  <2> QED
    BY <2>1, <2>2
<1>11. ASSUME NEW key \in DOMAIN config
       PROVE  \E p \in Places :
                 /\ KeyAt(p[1], p[2]) = key /\ ValueAt(p[1], p[2]) = config[key]
                 /\ \A q \in Places : KeyAt(q[1], q[2]) = key => q[1] <= p[1]
  <2>1. PICK n \in 1..N : /\ key \in DOMAIN h[n] /\ config[key] = h[n][key]
                          /\ \A i \in 1..N : key \in DOMAIN h[i] => i <= n
    BY <1>4 DEF SumsUp
  <2>2. PICK p \in Places : p[1] = n /\ KeyAt(p[1], p[2]) = key /\ ValueAt(p[1], p[2]) = h[n][key]
    BY <1>9, <2>1
  <2>3. ASSUME NEW q \in Places, KeyAt(q[1], q[2]) = key PROVE q[1] <= p[1]
    BY <1>7, <1>8, <2>1, <2>2, <2>3
  <2> QED
    BY <2>1, <2>2, <2>3
<1> QED
  BY <1>10, <1>11 DEF Places

\* LoadAll: each setting is what the command line says of it last, or else the last
\* line of the file, or else the environment, and nothing else is set.
THEOREM SettingsAreEffective == SettingSpec => []EffectiveSetting
<1>1. SettingInit => SettingInv
  BY DEF SettingInit, SettingStart, SettingInv, SettingsTyped
<1>2. SettingInv /\ [SettingNext]_settingVars => SettingInv'
  <2> SUFFICES ASSUME SettingInv, [SettingNext]_settingVars PROVE SettingInv'
    OBVIOUS
  <2>1. CASE LoadAll
    <3>1. UNCHANGED <<environ, file, args, named>> /\ SettingsTyped
      BY <2>1 DEF LoadAll, SettingInv
    <3>2. Loaded' = Loaded
      BY <3>1 DEF Loaded, LoadFromArgs, LoadFromEnv
    <3>3. SettingsTyped'
      BY <3>1 DEF SettingsTyped
    <3> QED
      BY <2>1, <3>1, <3>2, <3>3 DEF LoadAll, SettingInv
  <2>2. CASE UNCHANGED settingVars
    <3>1. UNCHANGED <<environ, file, args, named, loading, config>> /\ SettingsTyped
      BY <2>2 DEF settingVars, SettingInv
    <3>2. Loaded' = Loaded
      BY <3>1 DEF Loaded, LoadFromArgs, LoadFromEnv
    <3>3. SettingsTyped'
      BY <3>1 DEF SettingsTyped
    <3> QED
      BY <3>1, <3>2, <3>3 DEF SettingInv
  <2> QED
    BY <2>1, <2>2 DEF SettingNext
<1>3. SettingInv => EffectiveSetting
  BY SettingsEffective
<1> QED
  BY <1>1, <1>2, <1>3, PTL DEF SettingSpec


-----------------------------------------------------------------------------
(* Multihash and base58. A number in digits, lowest first, has a value: V[i] *)
(* is the value of its digits from the i-th on.                              *)

BytesAndDigits(from, to) == (from = 256 /\ to = 58) \/ (from = 58 /\ to = 256)

Traces(s) == [1..(Len(s) + 1) -> Nat]

DigitValues(s, base, V) == V[Len(s) + 1] = 0 /\ \A i \in 1..Len(s) : V[i] = s[i] + base * V[i + 1]

HasValue(s, base, v) == \E V \in Traces(s) : DigitValues(s, base, V) /\ V[1] = v

\* No digit is written for what would be a zero at the top.
IsNumber(s, base) == s \in Seq(0..(base - 1)) /\ (s # <<>> => s[Len(s)] # 0)

\* The division that both loops do.
LEMMA Divided ==
    ASSUME NEW to, to \in {58, 256}, NEW a \in Nat
    PROVE  /\ a \div to \in Nat /\ a % to \in 0..(to - 1) /\ a = (a % to) + to * (a \div to)
           /\ a < to <=> a \div to = 0
<1>1. CASE to = 58
  BY <1>1
<1>2. CASE to = 256
  BY <1>2
<1> QED
  BY <1>1, <1>2

LEMMA Elements ==
    ASSUME NEW S, NEW s \in Seq(S)
    PROVE  Len(s) \in Nat /\ DOMAIN s = 1..Len(s) /\ \A i \in 1..Len(s) : s[i] \in S
OBVIOUS

LEMMA TypedSequence ==
    ASSUME NEW S, NEW s, IsSequence(s), \A i \in 1..Len(s) : s[i] \in S
    PROVE  s \in Seq(S)
<1>1. PICK T : s \in Seq(T)
  BY DEF IsSequence
<1>2. Len(s) \in Nat /\ DOMAIN s = 1..Len(s)
  BY <1>1
<1> QED
  BY <1>1, <1>2

\* What goes from place to place when a digit is taken in.
Carries2(up, number, digit, from, to) ==
    /\ up[0] = digit
    /\ \A i \in 1..Len(number) : up[i] = (number[i] * from + up[i - 1]) \div to

LEMMA CarryExists ==
    ASSUME NEW from, NEW to, BytesAndDigits(from, to),
           NEW number \in Seq(0..(to - 1)), NEW digit \in 0..(from - 1)
    PROVE  \E up \in [0..Len(number) -> 0..(from - 1)] :
              /\ Carries2(up, number, digit, from, to)
              /\ TakeIn(number, digit, from, to) =
                    [i \in 1..Len(number) |-> (number[i] * from + up[i - 1]) % to]
                    \o Spread(up[Len(number)], to)
<1> DEFINE n == Len(number)
<1> DEFINE S == 0..(from - 1)
<1> DEFINE step == [i \in 1..n |-> [x \in S |-> (number[i] * from + x) \div to]]
<1>1. n \in Nat /\ DOMAIN number = 1..n /\ \A i \in 1..n : number[i] \in 0..(to - 1)
  BY Elements
<1>2. ASSUME NEW a \in 0..(to - 1), NEW x \in S PROVE (a * from + x) \div to \in S
  <2>1. CASE from = 256 /\ to = 58
    BY <2>1
  <2>2. CASE from = 58 /\ to = 256
    BY <2>2
  <2> QED
    BY <2>1, <2>2 DEF BytesAndDigits
<1>3. step \in Steps(n, S)
  BY <1>1, <1>2 DEF Steps
<1> DEFINE Rec(up) == [i \in 0..n |-> IF i = 0 THEN digit ELSE (number[i] * from + up[i - 1]) \div to]
<1>4. PICK f \in [0..n -> S] : Follows(f, n, digit, step)
  <2> HIDE DEF step, S, n
  <2>1. digit \in S
    BY DEF S
  <2> QED
    BY <1>1, <1>3, <2>1, PrimitiveRecursion
<1>5. f = Rec(f)
  <2>1. \A i \in 1..n : f[i - 1] \in S
    BY <1>1
  <2>2. \A i \in 1..n : step[i][f[i - 1]] = (number[i] * from + f[i - 1]) \div to
    BY <2>1
  <2> HIDE DEF step
  <2>3. f = [i \in 0..n |-> IF i = 0 THEN digit ELSE step[i][f[i - 1]]]
    BY <1>4 DEF Follows
  <2>4. \A i \in 0..n : i # 0 => i \in 1..n
    BY <1>1
  <2> QED
    BY <2>2, <2>3, <2>4
<1> DEFINE up == CHOOSE g : g = Rec(g)
<1>6. up = Rec(up)
  <2> HIDE DEF Rec
  <2> QED
    BY <1>5
<1> HIDE DEF up, step
<1>7. up[0] = digit /\ \A i \in 1..n : up[i] = (number[i] * from + up[i - 1]) \div to
  <2>1. \A i \in 1..n : i \in 0..n /\ i # 0
    BY <1>1
  <2> QED
    BY <1>1, <1>6, <2>1
<1>8. \A i \in 0..n : up[i] = f[i]
  <2> DEFINE T == {k \in Nat : k <= n => up[k] = f[k]}
  <2>1. 0 \in T
    BY <1>1, <1>5, <1>7
  <2>2. ASSUME NEW k \in Nat, k \in T PROVE k + 1 \in T
    <3> SUFFICES ASSUME k + 1 <= n PROVE up[k + 1] = f[k + 1]
      OBVIOUS
    <3>1. k + 1 \in 1..n /\ (k + 1) - 1 = k /\ up[k] = f[k]
      BY <1>1, <2>2
    <3>2. f[k + 1] = (number[k + 1] * from + f[k]) \div to
      BY <1>1, <1>5, <3>1
    <3> QED
      BY <1>7, <3>1, <3>2
  <2> HIDE DEF T
  <2>3. Nat \subseteq T
    BY <2>1, <2>2, Induction
  <2> QED
    BY <1>1, <2>3 DEF T
<1>9. up \in [0..n -> S]
  <2>1. up = [i \in 0..n |-> up[i]]
    BY <1>6
  <2>2. \A i \in 0..n : up[i] \in S
    BY <1>8
  <2> HIDE DEF S, n
  <2> QED
    BY <2>1, <2>2
<1>10. TakeIn(number, digit, from, to) =
          [i \in 1..n |-> (number[i] * from + up[i - 1]) % to] \o Spread(up[n], to)
  BY <1>1 DEF TakeIn, up
<1> QED
  BY <1>7, <1>9, <1>10 DEF Carries2

\* One digit taken in: the value is multiplied and the digit added.
LEMMA DigitTakenIn ==
    ASSUME NEW from, NEW to, BytesAndDigits(from, to),
           NEW number, IsNumber(number, to), NEW digit \in 0..(from - 1),
           NEW v, HasValue(number, to, v)
    PROVE  /\ IsNumber(TakeIn(number, digit, from, to), to)
           /\ HasValue(TakeIn(number, digit, from, to), to, v * from + digit)
<1> DEFINE n == Len(number)
<1> DEFINE r == TakeIn(number, digit, from, to)
<1>1. /\ number \in Seq(0..(to - 1)) /\ n \in Nat
      /\ \A i \in 1..n : number[i] \in 0..(to - 1)
      /\ n > 0 => number[n] # 0
  <2>1. number \in Seq(0..(to - 1)) /\ (number # <<>> => number[n] # 0)
    BY DEF IsNumber
  <2>2. n \in Nat /\ \A i \in 1..n : number[i] \in 0..(to - 1)
    BY <2>1, Elements
  <2>3. n > 0 => number # <<>>
    OBVIOUS
  <2> QED
    BY <2>1, <2>2, <2>3
<1>2. PICK up \in [0..n -> 0..(from - 1)] :
        /\ Carries2(up, number, digit, from, to)
        /\ r = [i \in 1..n |-> (number[i] * from + up[i - 1]) % to] \o Spread(up[n], to)
  BY <1>1, CarryExists
<1>3. PICK V \in Traces(number) : DigitValues(number, to, V) /\ V[1] = v
  BY DEF HasValue
<1> DEFINE low == [i \in 1..n |-> (number[i] * from + up[i - 1]) % to]
<1> DEFINE top == Spread(up[n], to)
<1> DEFINE c == up[n]
<1>4. /\ from \in Nat /\ to \in {58, 256} /\ c \in Nat /\ c < from
      /\ c \div to \in 0..(to - 1) /\ c % to \in 0..(to - 1) /\ c = (c % to) + to * (c \div to)
      /\ c < to <=> c \div to = 0
  <2>1. c \in 0..(from - 1)
    BY <1>1
  <2> HIDE DEF c
  <2>2. from \in Nat /\ to \in {58, 256} /\ c \in Nat /\ c < from
    BY <2>1 DEF BytesAndDigits
  <2>3. /\ c \div to \in Nat /\ c % to \in 0..(to - 1) /\ c = (c % to) + to * (c \div to)
        /\ c < to <=> c \div to = 0
    BY ONLY <2>2, Divided
  <2>4. c \div to < to
    <3> DEFINE q == c \div to
    <3> DEFINE e == c % to
    <3> HIDE DEF q, e, c
    <3>1. q \in Nat /\ e \in 0..(to - 1) /\ c = e + to * q /\ c < from
      BY <2>2, <2>3 DEF q, e
    <3>2. CASE from = 256 /\ to = 58
      BY <3>1, <3>2
    <3>3. CASE from = 58 /\ to = 256
      BY <3>1, <3>3
    <3> QED
      BY <3>2, <3>3 DEF BytesAndDigits, q
  <2> QED
    BY <2>2, <2>3, <2>4
<1>5. ASSUME NEW i \in 1..n
      PROVE  /\ low[i] \in 0..(to - 1)
             /\ number[i] * from + up[i - 1] = low[i] + to * up[i]
             /\ number[i] # 0 /\ up[i] = 0 => low[i] # 0
  <2>1. number[i] \in 0..(to - 1) /\ up[i - 1] \in 0..(from - 1)
    BY <1>1
  <2> DEFINE x == number[i]
  <2> DEFINE y == up[i - 1]
  <2>2. up[i] = (number[i] * from + up[i - 1]) \div to
    BY <1>2 DEF Carries2
  <2>3. low[i] = (number[i] * from + up[i - 1]) % to
    OBVIOUS
  <2> DEFINE a == x * from + y
  <2>4. a \in Nat /\ (x # 0 => a # 0)
    <3>1. x \in 0..(to - 1) /\ y \in 0..(from - 1)
      BY <2>1
    <3> HIDE DEF x, y
    <3>2. CASE from = 256 /\ to = 58
      BY ONLY <3>1, <3>2
    <3>3. CASE from = 58 /\ to = 256
      BY ONLY <3>1, <3>3
    <3> QED
      BY <3>2, <3>3 DEF BytesAndDigits
  <2>5. to \in {58, 256}
    BY DEF BytesAndDigits
  <2> HIDE DEF a, low, x, y
  <2>6. a \div to \in Nat /\ a % to \in 0..(to - 1) /\ a = (a % to) + to * (a \div to)
    BY ONLY <2>4, <2>5, Divided
  <2>7. a # 0 /\ a \div to = 0 => a % to # 0
    BY ONLY <2>4, <2>5, <2>6
  <2> QED
    BY <2>2, <2>3, <2>4, <2>6, <2>7 DEF a, x, y
<1>6. IsSequence(low) /\ Len(low) = n
  BY <1>1, FunctionIsSequence
<1>7. IsSequence(top) /\ Len(top) = IF c = 0 THEN 0 ELSE IF c < to THEN 1 ELSE 2
  BY <1>4 DEF Spread, IsSequence
<1> DEFINE m == Len(top)
<1>8. /\ m = 1 => top[1] = c
      /\ m = 2 => top[1] = c % to /\ top[2] = c \div to
  BY <1>4, <1>7 DEF Spread
<1>9. /\ m \in 0..2
      /\ m = 0 => c = 0
      /\ m = 1 => c # 0 /\ c < to /\ c \div to = 0
      /\ m = 2 => ~(c < to) /\ c \div to # 0
  <2> HIDE DEF top, c
  <2>1. CASE c = 0
    BY <1>4, <1>7, <2>1
  <2>2. CASE c # 0 /\ c < to
    BY <1>4, <1>7, <2>2
  <2>3. CASE c # 0 /\ ~(c < to)
    BY <1>4, <1>7, <2>3
  <2> QED
    BY <2>1, <2>2, <2>3
<1> HIDE DEF low, top, r, c, n
<1>10. r = low \o top
  BY <1>2 DEF low, top, n, r, c
<1>11. /\ IsSequence(r) /\ Len(r) = n + m
       /\ \A i \in 1..n : r[i] = low[i]
       /\ m >= 1 => r[n + 1] = top[1]
       /\ m = 2 => r[n + 2] = top[2]
  <2>1. /\ IsSequence(low \o top) /\ Len(low \o top) = Len(low) + Len(top)
        /\ low \o top = [i \in 1..(Len(low) + Len(top)) |->
                            IF i <= Len(low) THEN low[i] ELSE top[i - Len(low)]]
    BY ONLY <1>6, <1>7, JoinedSequences
  <2> HIDE DEF m
  <2>2. /\ IsSequence(r) /\ Len(r) = n + m
        /\ r = [i \in 1..(n + m) |-> IF i <= n THEN low[i] ELSE top[i - n]]
    BY <1>6, <1>10, <2>1 DEF m
  <2> QED
    BY <1>1, <1>9, <2>2 DEF n
<1>12. IsNumber(r, to)
  <2>1. ASSUME NEW i \in 1..Len(r) PROVE r[i] \in 0..(to - 1)
    <3>1. CASE i \in 1..n
      BY <1>5, <1>11, <3>1
    <3>2. CASE i = n + 1 /\ m = 1
      <4>1. r[i] = c /\ c < to /\ c \in Nat
        BY <1>4, <1>8, <1>9, <1>11, <3>2
      <4> QED
        BY <1>4, <4>1
    <3>3. CASE m = 2 /\ i \in {n + 1, n + 2}
      BY <1>4, <1>8, <1>11, <3>3
    <3> HIDE DEF m
    <3> QED
      BY <1>1, <1>9, <1>11, <3>1, <3>2, <3>3 DEF n
  <2>2. ASSUME r # <<>> PROVE r[Len(r)] # 0
    <3>1. CASE m = 0
      <4>1. n >= 1 /\ Len(r) = n /\ number[n] # 0 /\ up[n] = 0
        <5>1. c = 0
          BY <1>9, <3>1
        <5>2. n >= 1 /\ Len(r) = n
          <6> HIDE DEF m
          <6>1. n \in Nat /\ Len(r) = n
            BY <1>1, <1>11, <3>1 DEF n
          <6>2. n # 0
            BY <1>11, <2>2, <6>1 DEF IsSequence
          <6> QED
            BY <6>1, <6>2
        <5> QED
          BY <1>1, <5>1, <5>2 DEF c, n
      <4> QED
        BY <1>5, <1>11, <4>1
    <3>2. CASE m = 1
      <4>1. c # 0
        BY <1>9, <3>2
      <4> QED
        BY <1>8, <1>11, <3>2, <4>1
    <3>3. CASE m = 2
      <4>1. c \div to # 0
        BY <1>9, <3>3
      <4> QED
        BY <1>8, <1>11, <3>3, <4>1
    <3> QED
      BY <1>9, <3>1, <3>2, <3>3
  <2>3. r \in Seq(0..(to - 1))
    BY <1>11, <2>1, TypedSequence
  <2> QED
    BY <2>2, <2>3 DEF IsNumber
<1> DEFINE W == [i \in 1..(n + m + 1) |->
                    IF i <= n + 1 THEN from * V[i] + up[i - 1]
                    ELSE IF i = n + 2 THEN c \div to ELSE 0]
<1>13. \A i \in 1..(n + 1) : V[i] \in Nat /\ up[i - 1] \in 0..(from - 1)
  <2>1. V \in [1..(n + 1) -> Nat]
    BY DEF Traces, n
  <2>2. \A i \in 1..(n + 1) : i - 1 \in 0..n
    BY <1>1 DEF n
  <2> QED
    BY <2>1, <2>2 DEF n
<1>14. V[n + 1] = 0 /\ \A i \in 1..n : V[i] = number[i] + to * V[i + 1]
  BY <1>3 DEF DigitValues, n
<1>15. W \in Traces(r)
  <2>1. \A i \in 1..(n + 1) : from * V[i] + up[i - 1] \in Nat
    <3> TAKE i \in 1..(n + 1)
    <3> DEFINE x == V[i]
    <3> DEFINE y == up[i - 1]
    <3>1. x \in Nat /\ y \in 0..(from - 1)
      BY <1>13
    <3> HIDE DEF x, y
    <3>2. from * x + y \in Nat
      <4>1. CASE from = 256
        BY ONLY <3>1, <4>1
      <4>2. CASE from = 58
        BY ONLY <3>1, <4>2
      <4> QED
        BY <4>1, <4>2 DEF BytesAndDigits
    <3> QED
      BY <3>2 DEF x, y
  <2>2. c \div to \in Nat
    BY <1>4
  <2>3. Len(r) + 1 = n + m + 1 /\ n \in Nat
    BY <1>1, <1>11 DEF n
  <2> HIDE DEF m
  <2>4. \A i \in 1..(n + m + 1) : i <= n + 1 => i \in 1..(n + 1)
    BY <1>9, <2>3
  <2>5. W \in [1..(n + m + 1) -> Nat]
    BY <2>1, <2>2, <2>4
  <2> QED
    BY <2>3, <2>5 DEF Traces
<1>16. \A i \in 1..n : W[i] = r[i] + to * W[i + 1]
  <2> TAKE i \in 1..n
  <2>1. W[i] = from * V[i] + up[i - 1] /\ W[i + 1] = from * V[i + 1] + up[i]
    <3> HIDE DEF m
    <3>1. /\ i \in 1..(n + m + 1) /\ i <= n + 1
          /\ i + 1 \in 1..(n + m + 1) /\ i + 1 <= n + 1 /\ (i + 1) - 1 = i
      BY <1>1, <1>9 DEF n
    <3> QED
      BY <3>1
  <2>2. V[i] = number[i] + to * V[i + 1] /\ r[i] = low[i]
    BY <1>11, <1>14
  <2>3. number[i] * from + up[i - 1] = low[i] + to * up[i]
    BY <1>5
  <2>4. /\ V[i] \in Nat /\ V[i + 1] \in Nat /\ number[i] \in Nat
        /\ up[i - 1] \in Nat /\ up[i] \in Nat /\ low[i] \in Nat
    <3>1. number[i] \in 0..(to - 1) /\ low[i] \in 0..(to - 1)
      BY <1>1, <1>5 DEF n
    <3>2. i \in 1..(n + 1) /\ i + 1 \in 1..(n + 1) /\ (i + 1) - 1 = i
      BY <1>1 DEF n
    <3> QED
      BY <1>13, <3>1, <3>2
  <2> DEFINE x == V[i]
  <2> DEFINE y == V[i + 1]
  <2> DEFINE d == number[i]
  <2> DEFINE p == up[i - 1]
  <2> DEFINE q == up[i]
  <2> DEFINE l == low[i]
  <2>5. /\ x \in Nat /\ y \in Nat /\ d \in Nat /\ p \in Nat /\ q \in Nat /\ l \in Nat
        /\ x = d + to * y /\ d * from + p = l + to * q
    BY <2>2, <2>3, <2>4
  <2>6. W[i] = from * x + p /\ W[i + 1] = from * y + q /\ r[i] = l
    BY <2>1, <2>2
  <2> HIDE DEF x, y, d, p, q, l, W
  <2>7. CASE from = 256 /\ to = 58
    BY ONLY <2>5, <2>6, <2>7
  <2>8. CASE from = 58 /\ to = 256
    BY ONLY <2>5, <2>6, <2>8
  <2> QED
    BY <2>7, <2>8 DEF BytesAndDigits
<1>17. W[n + 1] = c
  <2>1. n + 1 \in 1..(n + m + 1)
    BY <1>1, <1>9 DEF n
  <2>2. W[n + 1] = from * V[n + 1] + up[n]
    BY <1>1, <2>1 DEF n
  <2> QED
    BY <1>4, <1>14, <2>2 DEF c
<1>18. /\ m = 1 => W[n + 2] = 0 /\ c < to
       /\ m = 2 => W[n + 2] = c \div to /\ W[n + 3] = 0
  <2>1. m = 1 => n + 2 \in 1..(n + m + 1) /\ ~(n + 2 <= n + 1) /\ c < to /\ c \div to = 0
    BY <1>1, <1>9 DEF n
  <2>2. m = 2 => /\ n + 2 \in 1..(n + m + 1) /\ ~(n + 2 <= n + 1)
                 /\ n + 3 \in 1..(n + m + 1) /\ ~(n + 3 <= n + 1) /\ n + 3 # n + 2
    BY <1>1 DEF n
  <2> HIDE DEF m
  <2> QED
    BY <2>1, <2>2
<1> HIDE DEF W, m
<1>19. DigitValues(r, to, W)
  <2>1. W[Len(r) + 1] = 0
    <3>1. CASE m = 0
      <4>1. c = 0
        BY <1>9, <3>1
      <4> QED
        BY <1>1, <1>11, <1>17, <3>1, <4>1 DEF n
    <3>2. CASE m = 1
      BY <1>1, <1>11, <1>18, <3>2 DEF n
    <3>3. CASE m = 2
      BY <1>1, <1>11, <1>18, <3>3 DEF n
    <3> QED
      BY <1>9, <3>1, <3>2, <3>3
  <2>2. ASSUME NEW i \in 1..Len(r), i \notin 1..n PROVE W[i] = r[i] + to * W[i + 1]
    <3>1. CASE m = 0
      BY <1>1, <1>11, <2>2, <3>1 DEF n
    <3>2. CASE m = 1
      <4>1. i = n + 1 /\ i + 1 = n + 2
        BY <1>1, <1>11, <2>2, <3>2 DEF n
      <4> QED
        BY <1>4, <1>8, <1>11, <1>17, <1>18, <3>2, <4>1
    <3>3. CASE m = 2
      <4>1. (i = n + 1 /\ i + 1 = n + 2) \/ (i = n + 2 /\ i + 1 = n + 3)
        BY <1>1, <1>11, <2>2, <3>3 DEF n
      <4>2. r[n + 1] = c % to /\ r[n + 2] = c \div to
        BY <1>8, <1>11, <3>3
      <4>3. W[n + 1] = c /\ W[n + 2] = c \div to /\ W[n + 3] = 0
        BY <1>17, <1>18, <3>3
      <4>4. CASE i = n + 1 /\ i + 1 = n + 2
        BY <1>4, <4>2, <4>3, <4>4
      <4>5. CASE i = n + 2 /\ i + 1 = n + 3
        <5>1. c \div to = (c \div to) + to * 0
          BY <1>4
        <5> QED
          BY <4>2, <4>3, <4>5, <5>1
      <4> QED
        BY <4>1, <4>4, <4>5
    <3> QED
      BY <1>9, <3>1, <3>2, <3>3
  <2> QED
    BY <1>16, <2>1, <2>2 DEF DigitValues
<1>20. W[1] = v * from + digit
  <2>1. W[1] = from * V[1] + up[0]
    <3>1. 1 \in 1..(n + m + 1) /\ 1 <= n + 1
      BY <1>1, <1>9 DEF n
    <3> QED
      BY <3>1 DEF W
  <2>2. V[1] = v /\ up[0] = digit
    BY <1>2, <1>3 DEF Carries2
  <2>3. v \in Nat /\ digit \in Nat /\ from \in {58, 256}
    <3>1. 1 \in 1..(n + 1)
      BY <1>1 DEF n
    <3> QED
      BY <1>13, <2>2, <3>1 DEF BytesAndDigits
  <2> QED
    BY <2>1, <2>2, <2>3
<1> QED
  BY <1>12, <1>15, <1>19, <1>20 DEF HasValue, r

Numbers(to) == {x \in Seq(0..(to - 1)) : IsNumber(x, to) /\ \E v \in Nat : HasValue(x, to, v)}

\* The fold of Taken, step by step.
LEMMA TakenSteps ==
    ASSUME NEW from, NEW to, BytesAndDigits(from, to), NEW s \in Seq(0..(from - 1))
    PROVE  \E acc : /\ acc[0] = <<>>
                    /\ \A i \in 1..Len(s) : acc[i] = TakeIn(acc[i - 1], s[i], from, to)
                    /\ Taken(s, from, to) = acc[Len(s)]
<1> DEFINE n == Len(s)
<1>1. n \in Nat /\ DOMAIN s = 1..n /\ \A i \in 1..n : s[i] \in 0..(from - 1)
  BY Elements
<1> DEFINE Folded(iter) ==
        [r \in SUBSET (1..n) |->
            IF r = {} THEN <<>> ELSE TakeIn(iter[r \ {Max(r)}], s[Max(r)], from, to)]
<1> DEFINE c == CHOOSE iter : iter = Folded(iter)
<1>2. Taken(s, from, to) = c[1..n]
  BY <1>1 DEF Taken, FoldLeft, MapThenFoldSet
<1> DEFINE S == Numbers(to)
<1>3. ASSUME NEW d \in 0..(from - 1), NEW x \in S PROVE TakeIn(x, d, from, to) \in S
  <2>1. PICK v \in Nat : IsNumber(x, to) /\ HasValue(x, to, v)
    BY DEF Numbers
  <2>2. /\ IsNumber(TakeIn(x, d, from, to), to)
        /\ HasValue(TakeIn(x, d, from, to), to, v * from + d)
    BY <2>1, DigitTakenIn
  <2>3. v * from + d \in Nat
    <3>1. CASE from = 256
      BY <3>1
    <3>2. CASE from = 58
      BY <3>2
    <3> QED
      BY <3>1, <3>2 DEF BytesAndDigits
  <2> QED
    BY <2>2, <2>3 DEF Numbers, IsNumber
<1>4. <<>> \in S
  <2> DEFINE V == [i \in 1..1 |-> 0]
  <2>1. V \in Traces(<<>>) /\ DigitValues(<<>>, to, V) /\ V[1] = 0
    BY DEF Traces, DigitValues
  <2>2. HasValue(<<>>, to, 0)
    <3> HIDE DEF V
    <3> QED
      BY <2>1 DEF HasValue
  <2> QED
    BY <2>2 DEF Numbers, IsNumber
<1> HIDE DEF S, n
<1> DEFINE step == [i \in 1..n |-> [x \in S |-> TakeIn(x, s[i], from, to)]]
<1>5. step \in Steps(n, S)
  BY <1>1, <1>3 DEF Steps
<1>6. CanFold(n, S, <<>>, step)
  <2> HIDE DEF step
  <2> QED
    BY <1>1, <1>4, <1>5, FoldExists
<1>7. PICK h \in [SUBSET (1..n) -> S] : Folding(h, n, <<>>, step)
  BY <1>6 DEF CanFold
<1>8. h = Folded(h)
  <2>1. ASSUME NEW r \in SUBSET (1..n) PROVE h[r] = Folded(h)[r]
    <3>1. CASE r = {}
      BY <1>7, <3>1 DEF Folding
    <3>2. CASE r # {}
      <4>1. Max(r) \in 1..n
        BY <1>1, <3>2, HasMax
      <4>2. h[r \ {Max(r)}] \in S
        OBVIOUS
      <4>3. h[r] = step[Max(r)][h[r \ {Max(r)}]]
        BY <1>7, <3>2 DEF Folding
      <4>4. step[Max(r)][h[r \ {Max(r)}]] = TakeIn(h[r \ {Max(r)}], s[Max(r)], from, to)
        BY <4>1, <4>2
      <4> QED
        BY <3>2, <4>3, <4>4
    <3> QED
      BY <3>1, <3>2
  <2>2. h = [r \in SUBSET (1..n) |-> h[r]]
    OBVIOUS
  <2> QED
    BY <2>1, <2>2
<1>9. c = Folded(c)
  <2> HIDE DEF Folded
  <2> QED
    BY <1>8
<1>10. \A r \in SUBSET (1..n) :
          c[r] = IF r = {} THEN <<>> ELSE TakeIn(c[r \ {Max(r)}], s[Max(r)], from, to)
  <2> HIDE DEF c
  <2>1. \A r \in SUBSET (1..n) : c[r] = Folded(c)[r]
    BY <1>9
  <2> QED
    BY <2>1
<1> HIDE DEF c
<1> DEFINE acc == [i \in 0..n |-> c[1..i]]
<1>11. acc[0] = <<>> /\ acc[n] = c[1..n]
  <2>1. 1..0 = {} /\ 0 \in 0..n /\ n \in 0..n
    BY <1>1
  <2> QED
    BY <1>10, <2>1
<1>12. ASSUME NEW i \in 1..n PROVE acc[i] = TakeIn(acc[i - 1], s[i], from, to)
  <2>1. Max(1..i) = i /\ 1..i # {} /\ (1..i) \ {i} = 1..(i - 1)
    BY i \in Nat \ {0}, MaxOfPrefix
  <2>2. i \in 0..n /\ i - 1 \in 0..n /\ 1..i \in SUBSET (1..n)
    BY <1>1
  <2> QED
    BY <1>10, <2>1, <2>2
<1> HIDE DEF acc
<1> QED
  BY <1>2, <1>11, <1>12 DEF n

\* H[i] is the value of the first i digits, highest first.
Horner(s, from, H) ==
    /\ H[0] = 0 /\ \A i \in 0..Len(s) : H[i] \in Nat
    /\ \A i \in 1..Len(s) : H[i] = H[i - 1] * from + s[i]

LEMMA TakenValue ==
    ASSUME NEW from, NEW to, BytesAndDigits(from, to), NEW s \in Seq(0..(from - 1)),
           NEW H, Horner(s, from, H)
    PROVE  IsNumber(Taken(s, from, to), to) /\ HasValue(Taken(s, from, to), to, H[Len(s)])
<1>1. PICK acc : /\ acc[0] = <<>>
                 /\ \A i \in 1..Len(s) : acc[i] = TakeIn(acc[i - 1], s[i], from, to)
                 /\ Taken(s, from, to) = acc[Len(s)]
  BY TakenSteps
<1> DEFINE Right(i) == IsNumber(acc[i], to) /\ HasValue(acc[i], to, H[i])
<1> DEFINE T == {i \in Nat : i <= Len(s) => Right(i)}
<1>2. Len(s) \in Nat /\ \A i \in 1..Len(s) : s[i] \in 0..(from - 1)
  BY Elements
<1>3. 0 \in T
  <2>1. IsNumber(<<>>, to)
    BY DEF IsNumber
  <2> DEFINE V == [i \in 1..1 |-> 0]
  <2>2. V \in Traces(<<>>) /\ DigitValues(<<>>, to, V) /\ V[1] = 0
    BY DEF Traces, DigitValues
  <2>3. HasValue(<<>>, to, 0)
    <3> HIDE DEF V
    <3> QED
      BY <2>2 DEF HasValue
  <2> QED
    BY <1>1, <2>1, <2>3 DEF Horner
<1>4. ASSUME NEW i \in Nat, i \in T PROVE i + 1 \in T
  <2> SUFFICES ASSUME i + 1 <= Len(s) PROVE Right(i + 1)
    OBVIOUS
  <2>1. i + 1 \in 1..Len(s) /\ (i + 1) - 1 = i /\ i \in 0..Len(s) /\ Right(i)
    BY <1>2, <1>4
  <2>2. acc[i + 1] = TakeIn(acc[i], s[i + 1], from, to) /\ s[i + 1] \in 0..(from - 1)
    BY <1>1, <1>2, <2>1
  <2>3. H[i + 1] = H[i] * from + s[i + 1]
    BY <2>1 DEF Horner
  <2>4. /\ IsNumber(TakeIn(acc[i], s[i + 1], from, to), to)
        /\ HasValue(TakeIn(acc[i], s[i + 1], from, to), to, H[i] * from + s[i + 1])
    BY <2>1, <2>2, DigitTakenIn
  <2> QED
    BY <2>2, <2>3, <2>4
<1>5. Len(s) \in T
  <2> HIDE DEF T
  <2> QED
    BY <1>2, <1>3, <1>4, Induction
<1> QED
  BY <1>1, <1>2, <1>5

HasHorner(s, from) == \E H : Horner(s, from, H)

LEMMA HornerExists ==
    ASSUME NEW from, from \in {58, 256}, NEW s \in Seq(0..(from - 1))
    PROVE  HasHorner(s, from)
<1> DEFINE n == Len(s)
<1> DEFINE step == [i \in 1..n |-> [x \in Nat |-> x * from + s[i]]]
<1>1. n \in Nat /\ \A i \in 1..n : s[i] \in 0..(from - 1)
  BY Elements
<1>2. ASSUME NEW d \in 0..(from - 1), NEW x \in Nat PROVE x * from + d \in Nat
  <2>1. CASE from = 58
    BY <2>1
  <2>2. CASE from = 256
    BY <2>2
  <2> QED
    BY <2>1, <2>2
<1>3. step \in Steps(n, Nat)
  <2> HIDE DEF n
  <2> QED
    BY <1>1, <1>2 DEF Steps
<1> HIDE DEF n
<1>4. PICK H \in [0..n -> Nat] : Follows(H, n, 0, step)
  <2> HIDE DEF step
  <2> QED
    BY <1>1, <1>3, 0 \in Nat, PrimitiveRecursion
<1>5. H[0] = 0 /\ \A i \in 0..n : H[i] \in Nat
  <2> HIDE DEF step
  <2>1. 0 \in 0..n
    BY <1>1
  <2>2. H[0] = 0
    BY <1>4, <2>1 DEF Follows
  <2> QED
    BY <2>2
<1>6. ASSUME NEW i \in 1..n PROVE H[i] = H[i - 1] * from + s[i]
  <2>1. i \in 0..n /\ i - 1 \in 0..n
    BY <1>1
  <2>2. H[i] = step[i][H[i - 1]]
    <3> HIDE DEF step
    <3> QED
      BY <1>4, <2>1 DEF Follows
  <2>3. H[i - 1] \in Nat
    BY <2>1
  <2> QED
    BY <2>2, <2>3
<1> QED
  BY <1>5, <1>6 DEF Horner, HasHorner, n

\* The digits of a number are told by its value.
LEMMA DigitOf ==
    ASSUME NEW base, base \in {58, 256}, NEW d \in 0..(base - 1), NEW x \in Nat
    PROVE  (d + base * x) \div base = x /\ (d + base * x) % base = d
<1>1. CASE base = 58
  BY <1>1
<1>2. CASE base = 256
  BY <1>2
<1> QED
  BY <1>1, <1>2

TellsDigits(s, base, V) ==
    /\ Len(s) \in Nat /\ V[Len(s) + 1] = 0 /\ \A i \in 1..(Len(s) + 1) : V[i] \in Nat
    /\ \A i \in 1..Len(s) : /\ V[i] # 0 /\ V[i + 1] = V[i] \div base
                            /\ s[i] = V[i] % base /\ V[i] >= V[i + 1]

LEMMA ValuesTell ==
    ASSUME NEW base, base \in {58, 256}, NEW s, IsNumber(s, base),
           NEW V \in Traces(s), DigitValues(s, base, V)
    PROVE  TellsDigits(s, base, V)
<1> DEFINE n == Len(s)
<1>1. n \in Nat /\ \A i \in 1..n : s[i] \in 0..(base - 1)
  <2>1. s \in Seq(0..(base - 1))
    BY DEF IsNumber
  <2> QED
    BY <2>1, Elements
<1>2. V[n + 1] = 0 /\ \A i \in 1..(n + 1) : V[i] \in Nat
  BY DEF Traces, DigitValues
<1>3. n > 0 => s[n] # 0
  BY DEF IsNumber
<1> HIDE DEF n
<1>4. ASSUME NEW i \in 1..n
      PROVE  /\ V[i] = s[i] + base * V[i + 1] /\ V[i + 1] = V[i] \div base
             /\ s[i] = V[i] % base /\ V[i] >= V[i + 1]
  <2>1. V[i] = s[i] + base * V[i + 1]
    BY DEF DigitValues, n
  <2>2. s[i] \in 0..(base - 1) /\ V[i + 1] \in Nat
    BY <1>1, <1>2
  <2>3. /\ (s[i] + base * V[i + 1]) \div base = V[i + 1]
        /\ (s[i] + base * V[i + 1]) % base = s[i]
    BY <2>2, DigitOf
  <2>4. s[i] + base * V[i + 1] >= V[i + 1]
    <3>1. CASE base = 58
      BY <2>2, <3>1
    <3>2. CASE base = 256
      BY <2>2, <3>2
    <3> QED
      BY <3>1, <3>2
  <2> QED
    BY <2>1, <2>3, <2>4
<1> DEFINE T == {k \in Nat : k < n => V[n - k] # 0}
<1>5. 0 \in T
  <2> SUFFICES ASSUME 0 < n PROVE V[n - 0] # 0
    OBVIOUS
  <2>1. n \in 1..n /\ n - 0 = n
    BY <1>1
  <2>2. V[n] = s[n] + base * 0
    BY <1>2, <1>4, <2>1
  <2>3. s[n] \in Nat /\ s[n] # 0
    BY <1>1, <1>3, <2>1
  <2> QED
    BY <2>1, <2>2, <2>3
<1>6. ASSUME NEW k \in Nat, k \in T PROVE k + 1 \in T
  <2> SUFFICES ASSUME k + 1 < n PROVE V[n - (k + 1)] # 0
    OBVIOUS
  <2>1. n - (k + 1) \in 1..n /\ (n - (k + 1)) + 1 = n - k /\ V[n - k] # 0
    BY <1>1, <1>6
  <2>2. V[n - (k + 1)] >= V[n - k] /\ V[n - k] \in Nat /\ V[n - (k + 1)] \in Nat
    <3>1. n - k \in 1..(n + 1) /\ n - (k + 1) \in 1..(n + 1)
      BY <1>1, <2>1
    <3> QED
      BY <1>2, <1>4, <2>1, <3>1
  <2> QED
    BY <2>1, <2>2
<1>7. ASSUME NEW i \in 1..n PROVE V[i] # 0
  <2>1. n - i \in Nat /\ n - i < n /\ n - (n - i) = i
    BY <1>1
  <2>2. n - i \in T
    <3> HIDE DEF T
    <3> QED
      BY <1>5, <1>6, <2>1, Induction
  <2> QED
    BY <2>1, <2>2
<1> QED
  BY <1>1, <1>2, <1>4, <1>7 DEF n, TellsDigits

\* Two ways to write the same value without a zero at the top are one.
LEMMA SameNumber ==
    ASSUME NEW base, base \in {58, 256}, NEW f, NEW g, IsNumber(f, base), IsNumber(g, base),
           NEW v, HasValue(f, base, v), HasValue(g, base, v)
    PROVE  f = g
<1>1. PICK V \in Traces(f) : DigitValues(f, base, V) /\ V[1] = v
  BY DEF HasValue
<1>2. PICK W \in Traces(g) : DigitValues(g, base, W) /\ W[1] = v
  BY DEF HasValue
<1>3. /\ Len(f) \in Nat /\ V[Len(f) + 1] = 0
      /\ \A i \in 1..Len(f) : V[i] # 0 /\ V[i + 1] = V[i] \div base /\ f[i] = V[i] % base
  <2>1. TellsDigits(f, base, V)
    BY <1>1, ValuesTell
  <2> QED
    BY <2>1 DEF TellsDigits
<1>4. /\ Len(g) \in Nat /\ W[Len(g) + 1] = 0
      /\ \A i \in 1..Len(g) : W[i] # 0 /\ W[i + 1] = W[i] \div base /\ g[i] = W[i] % base
  <2>1. TellsDigits(g, base, W)
    BY <1>2, ValuesTell
  <2> QED
    BY <2>1 DEF TellsDigits
<1> DEFINE T == {k \in Nat : k <= Len(f) /\ k <= Len(g) => V[k + 1] = W[k + 1]}
<1>5. 0 \in T
  BY <1>1, <1>2
<1>6. ASSUME NEW k \in Nat, k \in T PROVE k + 1 \in T
  <2> SUFFICES ASSUME k + 1 <= Len(f), k + 1 <= Len(g) PROVE V[(k + 1) + 1] = W[(k + 1) + 1]
    OBVIOUS
  <2>1. V[k + 1] = W[k + 1] /\ k + 1 \in 1..Len(f) /\ k + 1 \in 1..Len(g)
    BY <1>3, <1>4, <1>6
  <2> QED
    BY <1>3, <1>4, <2>1
<1>7. Nat \subseteq T
  <2> HIDE DEF T
  <2> QED
    BY <1>5, <1>6, Induction
<1> HIDE DEF T
<1>8. ~(Len(f) < Len(g))
  <2> SUFFICES ASSUME Len(f) < Len(g) PROVE FALSE
    OBVIOUS
  <2>1. V[Len(f) + 1] = W[Len(f) + 1] /\ Len(f) + 1 \in 1..Len(g)
    BY <1>3, <1>4, <1>7 DEF T
  <2> QED
    BY <1>3, <1>4, <2>1
<1>9. ~(Len(g) < Len(f))
  <2> SUFFICES ASSUME Len(g) < Len(f) PROVE FALSE
    OBVIOUS
  <2>1. V[Len(g) + 1] = W[Len(g) + 1] /\ Len(g) + 1 \in 1..Len(f)
    BY <1>3, <1>4, <1>7 DEF T
  <2> QED
    BY <1>3, <1>4, <2>1
<1>10. Len(f) = Len(g)
  BY <1>3, <1>4, <1>8, <1>9
<1>11. ASSUME NEW i \in 1..Len(f) PROVE f[i] = g[i]
  <2>1. i - 1 \in Nat /\ (i - 1) + 1 = i /\ i - 1 <= Len(f)
    BY <1>3
  <2>2. i - 1 \in T
    BY <1>7, <2>1
  <2>3. V[i] = W[i]
    BY <1>10, <2>1, <2>2 DEF T
  <2> QED
    BY <1>3, <1>4, <1>10, <2>3
<1>12. f \in Seq(0..(base - 1)) /\ g \in Seq(0..(base - 1))
  BY DEF IsNumber
<1> QED
  BY <1>10, <1>11, <1>12

LEMMA HasLeadingZeros ==
    ASSUME NEW s, Len(s) \in Nat
    PROVE  /\ LeadingZeros(s) \in 0..Len(s) /\ \A i \in 1..LeadingZeros(s) : s[i] = 0
           /\ LeadingZeros(s) = Len(s) \/ s[LeadingZeros(s) + 1] # 0
<1> DEFINE T == {k \in Nat : k = Len(s) \/ (k < Len(s) /\ s[k + 1] # 0)}
<1>1. Len(s) \in T /\ T \in SUBSET Nat
  OBVIOUS
<1>2. PICK m \in T : \A k \in T : m <= k
  <2> HIDE DEF T
  <2> QED
    BY <1>1, LeastElement
<1>3. m \in 0..Len(s) /\ (m = Len(s) \/ s[m + 1] # 0)
  BY <1>1, <1>2
<1>4. ASSUME NEW i \in 1..m PROVE s[i] = 0
  <2>1. i - 1 \in Nat /\ i - 1 < m /\ (i - 1) + 1 = i /\ i - 1 < Len(s)
    BY <1>3
  <2>2. i - 1 \notin T
    <3> HIDE DEF T
    <3> QED
      BY <1>1, <1>2, <2>1
  <2> QED
    BY <2>1, <2>2
<1> QED
  BY <1>3, <1>4 DEF LeadingZeros

LEMMA LeadingZerosAre ==
    ASSUME NEW s, Len(s) \in Nat, NEW k \in 0..Len(s), \A i \in 1..k : s[i] = 0,
           k = Len(s) \/ s[k + 1] # 0
    PROVE  LeadingZeros(s) = k
<1> DEFINE z == LeadingZeros(s)
<1>1. z \in 0..Len(s) /\ (\A i \in 1..z : s[i] = 0) /\ (z = Len(s) \/ s[z + 1] # 0)
  BY HasLeadingZeros
<1> HIDE DEF z
<1>2. ~(z < k)
  <2> SUFFICES ASSUME z < k PROVE FALSE
    OBVIOUS
  <2>1. z + 1 \in 1..k /\ z # Len(s)
    BY <1>1
  <2> QED
    BY <1>1, <2>1
<1>3. ~(k < z)
  <2> SUFFICES ASSUME k < z PROVE FALSE
    OBVIOUS
  <2>1. k + 1 \in 1..z /\ k # Len(s)
    BY <1>1
  <2> QED
    BY <1>1, <2>1
<1> QED
  BY <1>1, <1>2, <1>3 DEF z

\* k zeros and then the digits of a number, highest first.
Padded(k, number) == [i \in 1..k |-> 0] \o Reverse(number)

LEMMA PaddedIs ==
    ASSUME NEW k \in Nat, NEW number, IsSequence(number), Len(number) \in Nat
    PROVE  /\ IsSequence(Padded(k, number)) /\ Len(Padded(k, number)) = k + Len(number)
           /\ \A i \in 1..k : Padded(k, number)[i] = 0
           /\ \A j \in 1..Len(number) : Padded(k, number)[k + j] = number[Len(number) + 1 - j]
<1> DEFINE n == Len(number)
<1> DEFINE z == [i \in 1..k |-> 0]
<1> DEFINE b == [i \in 1..n |-> number[(n - i) + 1]]
<1>1. IsSequence(z) /\ Len(z) = k /\ \A i \in 1..k : z[i] = 0
  BY FunctionIsSequence
<1>2. IsSequence(b) /\ Len(b) = n /\ \A i \in 1..n : b[i] = number[(n - i) + 1]
  BY FunctionIsSequence
<1>3. Padded(k, number) = z \o b
  BY DEF Padded, Reverse
<1> HIDE DEF z, b, n
<1>4. /\ IsSequence(z \o b) /\ Len(z \o b) = Len(z) + Len(b)
      /\ z \o b = [i \in 1..(Len(z) + Len(b)) |-> IF i <= Len(z) THEN z[i] ELSE b[i - Len(z)]]
  BY ONLY <1>1, <1>2, JoinedSequences
<1>5. /\ IsSequence(z \o b) /\ Len(z \o b) = k + n
      /\ z \o b = [i \in 1..(k + n) |-> IF i <= k THEN z[i] ELSE b[i - k]]
  BY <1>1, <1>2, <1>4
<1>6. n \in Nat
  BY DEF n
<1>7. \A i \in 1..k : (z \o b)[i] = 0
  BY <1>1, <1>5, <1>6
<1>8. \A j \in 1..n : (z \o b)[k + j] = number[n + 1 - j]
  <2> TAKE j \in 1..n
  <2>1. k + j \in 1..(k + n) /\ ~(k + j <= k) /\ (k + j) - k = j /\ (n - j) + 1 = n + 1 - j
    BY <1>6
  <2>2. (z \o b)[k + j] = b[(k + j) - k]
    BY <1>5, <2>1
  <2> QED
    BY <1>2, <2>1, <2>2
<1> QED
  BY <1>3, <1>5, <1>7, <1>8 DEF n

\* The digits of s from the lowest up to the highest that is not 0.
Stripped(s) == [i \in 1..(Len(s) - LeadingZeros(s)) |-> s[Len(s) + 1 - i]]

LEMMA StrippedValue ==
    ASSUME NEW base, base \in {58, 256}, NEW s \in Seq(0..(base - 1)), NEW H, Horner(s, base, H)
    PROVE  IsNumber(Stripped(s), base) /\ HasValue(Stripped(s), base, H[Len(s)])
<1> DEFINE n == Len(s)
<1> DEFINE k == LeadingZeros(s)
<1> DEFINE m == n - k
<1>1. n \in Nat /\ \A i \in 1..n : s[i] \in 0..(base - 1)
  BY Elements
<1>2. k \in 0..n /\ (\A i \in 1..k : s[i] = 0) /\ (k = n \/ s[k + 1] # 0)
  BY <1>1, HasLeadingZeros
<1> HIDE DEF n, k
<1>3. m \in Nat
  BY <1>1, <1>2
<1>4. Stripped(s) = [i \in 1..m |-> s[n + 1 - i]]
  BY DEF Stripped, n, k
<1>5. /\ IsSequence(Stripped(s)) /\ Len(Stripped(s)) = m
      /\ \A i \in 1..m : Stripped(s)[i] = s[n + 1 - i]
  <2> DEFINE b == [i \in 1..m |-> s[n + 1 - i]]
  <2>1. b = [i \in 1..m |-> b[i]] /\ \A i \in 1..m : b[i] = s[n + 1 - i]
    OBVIOUS
  <2>2. Stripped(s) = b
    BY <1>4
  <2> HIDE DEF b, m
  <2> QED
    BY <1>3, <2>1, <2>2, FunctionIsSequence
<1>6. IsNumber(Stripped(s), base)
  <2>1. ASSUME NEW i \in 1..m PROVE Stripped(s)[i] \in 0..(base - 1)
    <3>1. n + 1 - i \in 1..n
      BY <1>1, <1>2
    <3>2. s[n + 1 - i] \in 0..(base - 1)
      BY <1>1, <3>1 DEF n
    <3> QED
      BY <1>5, <3>2
  <2>2. Stripped(s) \in Seq(0..(base - 1))
    BY <1>5, <2>1, TypedSequence
  <2>3. ASSUME Stripped(s) # <<>> PROVE Stripped(s)[m] # 0
    <3>1. m # 0
      BY <1>5, <2>2, <2>3
    <3>2. m \in 1..m /\ n + 1 - m = k + 1 /\ k # n
      BY <1>1, <1>2, <1>3, <3>1
    <3> QED
      BY <1>2, <1>5, <3>2
  <2> QED
    BY <1>5, <2>2, <2>3 DEF IsNumber
<1> DEFINE V == [i \in 1..(m + 1) |-> H[n + 1 - i]]
<1>7. /\ H[0] = 0 /\ \A i \in 0..n : H[i] \in Nat
      /\ \A i \in 1..n : H[i] = H[i - 1] * base + s[i]
  BY DEF Horner, n
<1>8. H[k] = 0
  <2> DEFINE T == {i \in Nat : i <= k => H[i] = 0}
  <2>1. 0 \in T
    BY <1>7
  <2>2. ASSUME NEW i \in Nat, i \in T PROVE i + 1 \in T
    <3> SUFFICES ASSUME i + 1 <= k PROVE H[i + 1] = 0
      OBVIOUS
    <3>1. i + 1 \in 1..n /\ i + 1 \in 1..k /\ (i + 1) - 1 = i /\ H[i] = 0
      BY <1>1, <1>2, <2>2
    <3>2. H[i + 1] = 0 * base + 0
      BY <1>2, <1>7, <3>1
    <3> QED
      BY <3>2
  <2>3. k \in T
    <3> HIDE DEF T
    <3>1. k \in Nat
      BY <1>1, <1>2
    <3> QED
      BY <2>1, <2>2, <3>1, Induction
  <2> QED
    BY <1>1, <1>2, <2>3
<1>9. ASSUME NEW i \in 1..(m + 1) PROVE n + 1 - i \in 0..n /\ n + 1 - i >= k
  BY <1>1, <1>2
<1>10. V \in Traces(Stripped(s))
  <2>1. V \in [1..(m + 1) -> Nat]
    BY <1>7, <1>9
  <2> QED
    BY <1>5, <2>1 DEF Traces
<1>11. DigitValues(Stripped(s), base, V)
  <2>1. V[m + 1] = 0
    <3>1. m + 1 \in 1..(m + 1) /\ n + 1 - (m + 1) = k
      BY <1>1, <1>2, <1>3
    <3> QED
      BY <1>8, <3>1
  <2>2. ASSUME NEW i \in 1..m PROVE V[i] = Stripped(s)[i] + base * V[i + 1]
    <3>1. /\ i \in 1..(m + 1) /\ i + 1 \in 1..(m + 1)
          /\ n + 1 - i \in 1..n /\ n + 1 - (i + 1) = (n + 1 - i) - 1
      BY <1>1, <1>2, <1>3
    <3>2. V[i] = H[n + 1 - i] /\ V[i + 1] = H[(n + 1 - i) - 1]
      BY <3>1
    <3>3. H[n + 1 - i] = H[(n + 1 - i) - 1] * base + s[n + 1 - i]
      BY <1>7, <3>1
    <3> DEFINE a == H[(n + 1 - i) - 1]
    <3> DEFINE d == s[n + 1 - i]
    <3>4. a \in Nat /\ d \in Nat
      <4>1. n + 1 - i \in 1..n /\ (n + 1 - i) - 1 \in 0..n
        BY <1>1, <3>1
      <4> QED
        BY <1>1, <1>7, <4>1
    <3>5. V[i] = a * base + d /\ V[i + 1] = a /\ Stripped(s)[i] = d
      BY <1>5, <3>2, <3>3
    <3> HIDE DEF a, d, V
    <3>6. a * base + d = d + base * a
      <4>1. CASE base = 58
        BY <3>4, <4>1
      <4>2. CASE base = 256
        BY <3>4, <4>2
      <4> QED
        BY <4>1, <4>2
    <3> QED
      BY <3>5, <3>6
  <2> HIDE DEF V
  <2> QED
    BY <1>5, <2>1, <2>2 DEF DigitValues
<1>12. V[1] = H[n]
  <2>1. 1 \in 1..(m + 1) /\ n + 1 - 1 = n
    BY <1>1, <1>3
  <2> QED
    BY <2>1
<1> HIDE DEF V
<1> QED
  BY <1>6, <1>10, <1>11, <1>12 DEF HasValue, n

\* The values on the way from the top of a padded number to its bottom.
Descends(k, number, base, V) ==
    \E G : /\ Horner(Padded(k, number), base, G)
           /\ \A j \in 0..Len(number) : G[k + j] = V[Len(number) + 1 - j]

LEMMA PaddedHorner ==
    ASSUME NEW base, base \in {58, 256}, NEW number, IsNumber(number, base), NEW k \in Nat,
           NEW V \in Traces(number), DigitValues(number, base, V)
    PROVE  Descends(k, number, base, V)
<1> DEFINE n == Len(number)
<1>1. n \in Nat /\ IsSequence(number) /\ \A i \in 1..n : number[i] \in 0..(base - 1)
  <2>1. number \in Seq(0..(base - 1))
    BY DEF IsNumber
  <2>2. n \in Nat /\ \A i \in 1..n : number[i] \in 0..(base - 1)
    BY <2>1, Elements
  <2> QED
    BY <2>1, <2>2 DEF IsSequence
<1> DEFINE spelt == Padded(k, number)
<1>2. /\ Len(spelt) = k + n /\ \A i \in 1..k : spelt[i] = 0
      /\ \A j \in 1..n : spelt[k + j] = number[n + 1 - j]
  BY ONLY k \in Nat, <1>1, PaddedIs
<1>3. V[n + 1] = 0 /\ \A i \in 1..(n + 1) : V[i] \in Nat
  BY DEF Traces, DigitValues
<1>4. \A i \in 1..n : V[i] = number[i] + base * V[i + 1]
  BY DEF DigitValues
<1> HIDE DEF n, spelt
<1> DEFINE G == [i \in 0..(k + n) |-> IF i <= k THEN 0 ELSE V[n + 1 - (i - k)]]
<1>5. \A j \in 0..n : G[k + j] = V[n + 1 - j]
  <2> TAKE j \in 0..n
  <2>1. k + j \in 0..(k + n)
    BY <1>1
  <2>2. CASE j = 0
    <3>1. k + j <= k /\ n + 1 - j = n + 1
      BY <1>1, <2>2
    <3> QED
      BY <1>3, <2>1, <3>1
  <2>3. CASE j # 0
    <3>1. ~(k + j <= k) /\ (k + j) - k = j
      BY <1>1, <2>3
    <3> QED
      BY <2>1, <3>1
  <2> QED
    BY <2>2, <2>3
<1>6. \A i \in 0..k : G[i] = 0
  <2>1. \A i \in 0..k : i \in 0..(k + n) /\ i <= k
    BY <1>1
  <2> QED
    BY <2>1
<1> HIDE DEF G
<1>7. ASSUME NEW i \in 0..(k + n), ~(i \in 0..k)
      PROVE  \E j \in 1..n : i = k + j /\ i - 1 = k + (j - 1) /\ j - 1 \in 0..n /\ j \in 0..n
  <2>1. i - k \in 1..n /\ i = k + (i - k) /\ i - 1 = k + ((i - k) - 1)
    BY <1>1, <1>7
  <2>2. (i - k) - 1 \in 0..n /\ i - k \in 0..n
    BY <1>1, <2>1
  <2> QED
    BY <2>1, <2>2
<1>8. \A i \in 0..(k + n) : G[i] \in Nat
  <2> TAKE i \in 0..(k + n)
  <2>1. CASE i \in 0..k
    BY <1>6, <2>1
  <2>2. CASE ~(i \in 0..k)
    <3>1. PICK j \in 1..n : i = k + j /\ j \in 0..n
      BY <1>7, <2>2
    <3>2. n + 1 - j \in 1..(n + 1)
      BY <1>1
    <3> QED
      BY <1>3, <1>5, <3>1, <3>2
  <2> QED
    BY <2>1, <2>2
<1>9. \A i \in 1..(k + n) : G[i] = G[i - 1] * base + spelt[i]
  <2> TAKE i \in 1..(k + n)
  <2>1. CASE i \in 0..k
    <3>1. i - 1 \in 0..k /\ i \in 1..k
      BY <2>1
    <3>2. G[i] = 0 /\ G[i - 1] = 0 /\ spelt[i] = 0
      BY <1>2, <1>6, <2>1, <3>1
    <3> QED
      BY <3>2
  <2>2. CASE ~(i \in 0..k)
    <3>1. i \in 0..(k + n)
      OBVIOUS
    <3>2. PICK j \in 1..n : i = k + j /\ i - 1 = k + (j - 1) /\ j - 1 \in 0..n /\ j \in 0..n
      BY <1>7, <2>2, <3>1
    <3> DEFINE a == V[n + 1 - j]
    <3> DEFINE b == V[n + 1 - (j - 1)]
    <3> DEFINE d == number[n + 1 - j]
    <3>3. G[i] = a /\ G[i - 1] = b /\ spelt[i] = d
      BY <1>2, <1>5, <3>2
    <3>4. n + 1 - j \in 1..n /\ n + 1 - (j - 1) = (n + 1 - j) + 1 /\ n + 1 - (j - 1) \in 1..(n + 1)
      BY <1>1
    <3>5. a = d + base * b /\ b \in Nat /\ d \in Nat
      BY <1>1, <1>3, <1>4, <3>4
    <3> HIDE DEF a, b, d
    <3>6. a = b * base + d
      <4>1. CASE base = 58
        BY <3>5, <4>1
      <4>2. CASE base = 256
        BY <3>5, <4>2
      <4> QED
        BY <4>1, <4>2
    <3> QED
      BY <3>3, <3>6
  <2> QED
    BY <2>1, <2>2
<1>10. G[0] = 0
  BY <1>6
<1>11. Horner(spelt, base, G)
  BY <1>2, <1>8, <1>9, <1>10 DEF Horner
<1> QED
  BY <1>5, <1>11 DEF Descends, n, spelt

LEMMA PaddedZeros ==
    ASSUME NEW base, NEW number, IsNumber(number, base), NEW k \in Nat
    PROVE  LeadingZeros(Padded(k, number)) = k
<1> DEFINE n == Len(number)
<1> DEFINE spelt == Padded(k, number)
<1>1. number \in Seq(0..(base - 1)) /\ (number # <<>> => number[n] # 0)
  BY DEF IsNumber
<1>2. IsSequence(number) /\ n \in Nat /\ (n # 0 => number[n] # 0)
  BY <1>1 DEF IsSequence
<1>3. /\ Len(spelt) = k + n /\ \A i \in 1..k : spelt[i] = 0
      /\ \A j \in 1..n : spelt[k + j] = number[n + 1 - j]
  BY <1>2, PaddedIs
<1> HIDE DEF n, spelt
<1>4. k = Len(spelt) \/ spelt[k + 1] # 0
  <2>1. CASE n = 0
    BY <1>2, <1>3, <2>1
  <2>2. CASE n # 0
    <3>1. 1 \in 1..n /\ n + 1 - 1 = n
      BY <1>2, <2>2
    <3> QED
      BY <1>2, <1>3, <2>2, <3>1
  <2> QED
    BY <2>1, <2>2
<1>5. Len(spelt) \in Nat /\ k \in 0..Len(spelt)
  BY <1>2, <1>3
<1>6. LeadingZeros(spelt) = k
  BY <1>3, <1>4, <1>5, LeadingZerosAre
<1> QED
  BY <1>6 DEF spelt

\* Base58Encode() and Base58Decode() are each other's inverse.
LEMMA ConvertedBack ==
    ASSUME NEW from, NEW to, BytesAndDigits(from, to), NEW s \in Seq(0..(from - 1))
    PROVE  /\ Converted(s, from, to) \in Seq(0..(to - 1))
           /\ Converted(Converted(s, from, to), to, from) = s
<1> DEFINE n == Len(s)
<1> DEFINE k == LeadingZeros(s)
<1> DEFINE number == Taken(s, from, to)
<1> DEFINE l == Len(number)
<1> DEFINE spelt == Padded(k, number)
<1>1. from \in {58, 256} /\ to \in {58, 256} /\ BytesAndDigits(to, from)
  BY DEF BytesAndDigits
<1>2. n \in Nat /\ DOMAIN s = 1..n
  BY Elements
<1>3. k \in 0..n /\ \A i \in 1..k : s[i] = 0
  BY <1>2, HasLeadingZeros
<1>4. PICK H : Horner(s, from, H)
  <2>1. HasHorner(s, from)
    BY <1>1, HornerExists
  <2> QED
    BY <2>1 DEF HasHorner
<1>5. IsNumber(number, to) /\ HasValue(number, to, H[n])
  BY <1>4, TakenValue
<1>6. Converted(s, from, to) = spelt
  BY DEF Converted, Padded
<1> HIDE DEF number
<1>7. number \in Seq(0..(to - 1)) /\ IsSequence(number) /\ l \in Nat
  <2>1. number \in Seq(0..(to - 1))
    BY <1>5 DEF IsNumber
  <2> QED
    BY <2>1 DEF IsSequence
<1>8. \A i \in 1..l : number[i] \in 0..(to - 1)
  BY <1>7, Elements
<1> HIDE DEF n, k, l
<1>9. /\ IsSequence(spelt) /\ Len(spelt) = k + l
      /\ \A i \in 1..k : spelt[i] = 0
      /\ \A j \in 1..l : spelt[k + j] = number[l + 1 - j]
  <2>1. k \in Nat /\ Len(number) \in Nat
    BY <1>2, <1>3, <1>7 DEF l
  <2>2. /\ IsSequence(spelt) /\ Len(spelt) = k + Len(number)
        /\ \A i \in 1..k : spelt[i] = 0
        /\ \A j \in 1..Len(number) : spelt[k + j] = number[Len(number) + 1 - j]
    BY ONLY <1>7, <2>1, PaddedIs
  <2> HIDE DEF spelt
  <2> QED
    BY <2>2 DEF l
<1>10. spelt \in Seq(0..(to - 1))
  <2>1. ASSUME NEW i \in 1..(k + l) PROVE spelt[i] \in 0..(to - 1)
    <3>1. CASE i \in 1..k
      BY <1>1, <1>9, <3>1
    <3>2. CASE i \notin 1..k
      <4>1. i - k \in 1..l /\ k + (i - k) = i
        BY <1>2, <1>3, <1>7, <3>2
      <4>2. spelt[i] = number[l + 1 - (i - k)]
        BY <1>9, <4>1
      <4>3. l + 1 - (i - k) \in 1..l
        BY <1>7, <4>1
      <4> QED
        BY <1>8, <4>2, <4>3
    <3> QED
      BY <3>1, <3>2
  <2> HIDE DEF spelt
  <2> QED
    BY <1>9, <2>1, TypedSequence
<1>11. LeadingZeros(spelt) = k
  BY <1>2, <1>3, <1>5, PaddedZeros
<1>12. PICK V \in Traces(number) : DigitValues(number, to, V) /\ V[1] = H[n]
  BY <1>5 DEF HasValue
<1>13. PICK G : Horner(spelt, to, G) /\ \A j \in 0..l : G[k + j] = V[l + 1 - j]
  <2>1. k \in Nat
    BY <1>2, <1>3
  <2>2. Descends(k, number, to, V)
    BY <1>1, <1>5, <1>12, <2>1, PaddedHorner
  <2> QED
    BY <2>2 DEF Descends, l
<1>14. G[Len(spelt)] = H[n]
  <2>1. l \in 0..l /\ l + 1 - l = 1
    BY <1>7
  <2> QED
    BY <1>9, <1>12, <1>13, <2>1
<1> HIDE DEF spelt
<1>15. IsNumber(Taken(spelt, to, from), from) /\ HasValue(Taken(spelt, to, from), from, H[n])
  <2>1. IsNumber(Taken(spelt, to, from), from) /\ HasValue(Taken(spelt, to, from), from, G[Len(spelt)])
    BY ONLY <1>1, <1>10, <1>13, TakenValue
  <2> QED
    BY <1>14, <2>1
<1>16. IsNumber(Stripped(s), from) /\ HasValue(Stripped(s), from, H[n])
  <2>1. IsNumber(Stripped(s), from) /\ HasValue(Stripped(s), from, H[Len(s)])
    BY ONLY s \in Seq(0..(from - 1)), <1>1, <1>4, StrippedValue
  <2> QED
    BY <2>1 DEF n
<1>17. Taken(spelt, to, from) = Stripped(s)
  BY <1>1, <1>15, <1>16, SameNumber
<1>18. Converted(spelt, to, from) = Padded(k, Stripped(s))
  BY <1>11, <1>17 DEF Converted, Padded
<1> DEFINE m == n - k
<1> DEFINE b == [i \in 1..m |-> s[n + 1 - i]]
<1>19. m \in Nat /\ n = k + m
  BY <1>2, <1>3
<1>20. Stripped(s) = b
  BY DEF Stripped, n, k
<1>21. b = [i \in 1..m |-> b[i]] /\ \A i \in 1..m : b[i] = s[n + 1 - i]
  OBVIOUS
<1> HIDE DEF b, m
<1>22. IsSequence(b) /\ Len(b) = m
  BY <1>19, <1>21, FunctionIsSequence
<1> DEFINE again == Padded(k, b)
<1>23. /\ IsSequence(again) /\ Len(again) = k + m
       /\ \A i \in 1..k : again[i] = 0
       /\ \A j \in 1..m : again[k + j] = b[m + 1 - j]
  <2>1. k \in Nat
    BY <1>2, <1>3
  <2> QED
    BY <1>19, <1>22, <2>1, PaddedIs
<1> HIDE DEF again
<1>24. ASSUME NEW i \in 1..n PROVE again[i] = s[i]
  <2>1. CASE i \in 1..k
    BY <1>3, <1>23, <2>1 DEF k
  <2>2. CASE i \notin 1..k
    <3>1. i - k \in 1..m /\ k + (i - k) = i
      BY <1>2, <1>3, <1>19, <2>2
    <3>2. again[i] = b[m + 1 - (i - k)]
      BY <1>23, <3>1
    <3>3. m + 1 - (i - k) \in 1..m /\ n + 1 - (m + 1 - (i - k)) = i
      BY <1>2, <1>3, <1>19, <3>1
    <3> QED
      BY <1>21, <3>2, <3>3
  <2> QED
    BY <2>1, <2>2
<1>25. again = s
  <2>1. again \in Seq({again[i] : i \in 1..n} \cup (0..(from - 1)))
    <3> DEFINE S == {again[i] : i \in 1..n} \cup (0..(from - 1))
    <3>1. \A i \in 1..Len(again) : again[i] \in S
      BY <1>19, <1>23
    <3> HIDE DEF S
    <3>2. again \in Seq(S)
      BY <1>23, <3>1, TypedSequence
    <3> QED
      BY <3>2 DEF S
  <2>2. DOMAIN again = 1..n /\ again = [i \in 1..n |-> again[i]]
    BY <1>19, <1>23, <2>1
  <2>3. s = [i \in 1..n |-> s[i]]
    BY <1>2 DEF n
  <2> QED
    BY <1>24, <2>2, <2>3
<1> QED
  BY <1>6, <1>10, <1>18, <1>20, <1>25 DEF again

-----------------------------------------------------------------------------
\* A multihash and its forms.
MultihashOK(m) ==
    \E k \in Kinds, d \in Seq(0..255) : Len(d) = MultihashLength(k) /\ m = [kind |-> k, digest |-> d]

LEMMA MultihashesAreOK == \A m \in Multihashes : MultihashOK(m)
<1> SUFFICES ASSUME NEW k \in Kinds, NEW d \in Digests, Multihash(k, d) # NoHash
             PROVE  MultihashOK(Multihash(k, d))
  BY DEF Multihashes
<1>1. Multihash(k, d) = [kind |-> k, digest |-> d] /\ Len(d) = MultihashLength(k)
  BY DEF Multihash
<1>2. d \in Seq(0..255)
  BY HashAssumption DEF HashAssumption
<1> QED
  BY <1>1, <1>2 DEF MultihashOK

LEMMA CodesAndLengths ==
    /\ \A k \in Kinds : /\ MultihashCode(k) \in {17, 18, 19, 20, 64, 65}
                        /\ MultihashLength(k) \in {20, 32, 64}
                        /\ (MultihashLength(k) + 256 * MultihashCode(k)) \div 58
                              \in {75, 80, 84, 89, 283, 287}
    /\ \A k, l \in Kinds : MultihashCode(k) = MultihashCode(l) => k = l
<1>1. \A k \in Kinds : /\ MultihashCode(k) \in {17, 18, 19, 20, 64, 65}
                        /\ MultihashLength(k) \in {20, 32, 64}
                        /\ (MultihashLength(k) + 256 * MultihashCode(k)) \div 58
                              \in {75, 80, 84, 89, 283, 287}
  BY DEF Kinds, MultihashCode, MultihashLength
<1>2. /\ MultihashCode("Sha1") = 17 /\ MultihashCode("Sha2_256") = 18
      /\ MultihashCode("Sha2_512") = 19 /\ MultihashCode("Sha3") = 20
      /\ MultihashCode("Blake2b") = 64 /\ MultihashCode("Blake2s") = 65
  BY DEF MultihashCode
<1>3. ASSUME NEW k \in Kinds, NEW l \in Kinds, MultihashCode(k) = MultihashCode(l) PROVE k = l
  <2>1. ASSUME NEW j \in Kinds
        PROVE  /\ MultihashCode(j) = 17 => j = "Sha1"
               /\ MultihashCode(j) = 18 => j = "Sha2_256"
               /\ MultihashCode(j) = 19 => j = "Sha2_512"
               /\ MultihashCode(j) = 20 => j = "Sha3"
               /\ MultihashCode(j) = 64 => j = "Blake2b"
               /\ MultihashCode(j) = 65 => j = "Blake2s"
    BY <1>2 DEF Kinds
  <2> QED
    BY <1>1, <1>3, <2>1
<1> QED
  BY <1>1, <1>3

\* The bytes of a multihash: its code, its length, its digest.
LEMMA BytesAre ==
    ASSUME NEW k \in Kinds, NEW d \in Seq(0..255), Len(d) = MultihashLength(k)
    PROVE  LET b == ToBytes([kind |-> k, digest |-> d])
           IN /\ b \in Seq(0..255) /\ Len(b) = 2 + Len(d)
              /\ b[1] = MultihashCode(k) /\ b[2] = Len(d)
              /\ \A i \in 1..Len(d) : b[2 + i] = d[i]
<1> DEFINE n == Len(d)
<1> DEFINE c == MultihashCode(k)
<1> DEFINE h == <<c, n>>
<1>1. n \in {20, 32, 64} /\ c \in {17, 18, 19, 20, 64, 65}
  BY CodesAndLengths
<1>2. ToBytes([kind |-> k, digest |-> d]) = h \o d
  BY DEF ToBytes
<1> HIDE DEF n, c
<1>3. h \in Seq(0..255) /\ Len(h) = 2 /\ h[1] = c /\ h[2] = n
  BY <1>1
<1> HIDE DEF h
<1>4. h \o d \in Seq(0..255) /\ Len(h \o d) = 2 + n
  <2>1. d \in Seq(0..255)
    OBVIOUS
  <2>2. h \o d \in Seq(0..255) /\ Len(h \o d) = Len(h) + Len(d)
    BY ONLY <1>3, <2>1, ConcatProperties
  <2> QED
    BY <1>3, <2>2 DEF n
<1>5. (h \o d)[1] = c /\ (h \o d)[2] = n /\ \A i \in 1..n : (h \o d)[2 + i] = d[i]
  <2>0. IsSequence(h) /\ IsSequence(d)
    BY <1>3 DEF IsSequence
  <2>1. h \o d = [i \in 1..(Len(h) + Len(d)) |-> IF i <= Len(h) THEN h[i] ELSE d[i - Len(h)]]
    BY ONLY <2>0, JoinedSequences
  <2>2. 1 \in 1..(2 + n) /\ 2 \in 1..(2 + n)
    BY <1>1
  <2>3. \A i \in 1..n : 2 + i \in 1..(2 + n) /\ ~(2 + i <= 2) /\ (2 + i) - 2 = i
    BY <1>1
  <2>4. h \o d = [i \in 1..(2 + n) |-> IF i <= 2 THEN h[i] ELSE d[i - 2]]
    BY <1>3, <2>1 DEF n
  <2> QED
    BY <1>3, <2>2, <2>3, <2>4
<1> QED
  BY <1>2, <1>4, <1>5 DEF n, c

\* What begins with the bytes of a multihash is read as it.
LEMMA BytesRead ==
    ASSUME NEW m, MultihashOK(m), NEW b \in Seq(0..255), Len(b) >= Len(ToBytes(m)),
           \A i \in 1..Len(ToBytes(m)) : b[i] = ToBytes(m)[i]
    PROVE  FromBytes(b) = m
<1>1. PICK k \in Kinds, d \in Seq(0..255) :
        Len(d) = MultihashLength(k) /\ m = [kind |-> k, digest |-> d]
  BY DEF MultihashOK
<1> DEFINE w == ToBytes(m)
<1> DEFINE n == Len(d)
<1>2. /\ w \in Seq(0..255) /\ Len(w) = 2 + n /\ w[1] = MultihashCode(k) /\ w[2] = n
      /\ \A i \in 1..n : w[2 + i] = d[i]
  BY <1>1, BytesAre
<1>3. n \in {20, 32, 64} /\ n = MultihashLength(k)
  BY <1>1, CodesAndLengths
<1> HIDE DEF w
<1>4. Len(b) >= 2 + n /\ b[1] = MultihashCode(k) /\ b[2] = n
  <2>1. Len(b) >= 2 + n /\ \A i \in 1..(2 + n) : b[i] = w[i]
    BY <1>2 DEF w
  <2> QED
    BY <1>2, <1>3, <2>1
<1>5. \A i \in 1..n : b[2 + i] = d[i]
  <2>1. \A i \in 1..(2 + n) : b[i] = w[i]
    BY <1>2 DEF w
  <2>2. \A i \in 1..n : 2 + i \in 1..(2 + n)
    BY <1>3
  <2> QED
    BY <1>2, <2>1, <2>2
<1> DEFINE s == SubSeq(b, 3, 2 + n)
<1>6. s = d
  <2> DEFINE e == 2 + n
  <2>5. e \in Int /\ 3 \in Int /\ 3 <= e /\ e - 3 + 1 = n
    BY <1>3
  <2>6. \A i \in 3..e : b[i] \in 0..255
    <3>1. \A i \in 3..e : i \in 1..Len(b)
      BY <1>3, <1>4
    <3> QED
      BY <3>1, Elements
  <2> HIDE DEF e, n
  <2>7. /\ SubSeq(b, 3, e) \in Seq(0..255)
        /\ Len(SubSeq(b, 3, e)) = IF 3 <= e THEN e - 3 + 1 ELSE 0
        /\ \A i \in 1..(e - 3 + 1) : SubSeq(b, 3, e)[i] = b[3 + i - 1]
    BY ONLY <2>5, <2>6, SubSeqProperties
  <2>1. s \in Seq(0..255) /\ Len(s) = n /\ \A i \in 1..n : s[i] = b[3 + i - 1]
    BY <2>5, <2>7 DEF e
  <2>2. \A i \in 1..n : 3 + i - 1 = 2 + i
    BY <1>3
  <2>3. \A i \in 1..n : s[i] = d[i]
    BY <1>5, <2>1, <2>2
  <2> HIDE DEF s
  <2>4. s = [i \in 1..n |-> s[i]] /\ d = [i \in 1..n |-> d[i]]
    BY <2>1 DEF n
  <2> QED
    BY <2>3, <2>4
<1>7. (CHOOSE l \in Kinds : MultihashCode(l) = b[1]) = k
  BY <1>4, CodesAndLengths
<1>8. FromBytes(b) = Multihash(k, d)
  <2>1. ~(Len(b) < 2) /\ ~(Len(b) < 2 + b[2]) /\ ~(\A l \in Kinds : MultihashCode(l) # b[1])
    BY <1>3, <1>4
  <2>2. FromBytes(b) = Multihash(CHOOSE l \in Kinds : MultihashCode(l) = b[1], SubSeq(b, 3, 2 + b[2]))
    BY <2>1 DEF FromBytes
  <2> QED
    BY <1>4, <1>6, <1>7, <2>2
<1> QED
  BY <1>1, <1>3, <1>8 DEF Multihash

\* What has lost its end is not.
LEMMA BytesCut ==
    ASSUME NEW m, MultihashOK(m), NEW b, Len(b) = Len(ToBytes(m)) - 1,
           \A i \in 1..Len(b) : b[i] = ToBytes(m)[i]
    PROVE  FromBytes(b) = NoHash
<1>1. PICK k \in Kinds, d \in Seq(0..255) :
        Len(d) = MultihashLength(k) /\ m = [kind |-> k, digest |-> d]
  BY DEF MultihashOK
<1>2. Len(ToBytes(m)) = 2 + Len(d) /\ ToBytes(m)[2] = Len(d)
  BY <1>1, BytesAre
<1>3. Len(d) \in {20, 32, 64}
  BY <1>1, CodesAndLengths
<1>4. Len(b) = 1 + Len(d) /\ b[2] = Len(d)
  <2>1. Len(b) = 1 + Len(d)
    BY <1>2, <1>3
  <2>2. 2 \in 1..(1 + Len(d))
    <3> DEFINE n == Len(d)
    <3>1. n \in {20, 32, 64}
      BY <1>3
    <3> HIDE DEF n
    <3>2. 2 \in 1..(1 + n)
      BY <3>1
    <3> QED
      BY <3>2 DEF n
  <2> QED
    BY <1>2, <2>1, <2>2
<1>5. Len(b) < 2 + b[2]
  BY <1>3, <1>4
<1> QED
  BY <1>5 DEF FromBytes

LEMMA NoCode ==
    ASSUME NEW b, \A k \in Kinds : MultihashCode(k) # b[1]
    PROVE  FromBytes(b) = NoHash
BY DEF FromBytes

\* The hex digits of bytes, two for each.
HexOf(b) == [i \in 1..(2 * Len(b)) |-> IF i % 2 = 1 THEN b[(i + 1) \div 2] \div 16 ELSE b[i \div 2] % 16]

LEMMA HexDigits ==
    ASSUME NEW b \in Seq(0..255)
    PROVE  /\ Len(b) \in Nat /\ IsSequence(HexOf(b)) /\ Len(HexOf(b)) = 2 * Len(b)
           /\ \A i \in 1..Len(b) : /\ HexOf(b)[2 * i - 1] \in 0..15 /\ HexOf(b)[2 * i] \in 0..15
                                   /\ HexOf(b)[2 * i - 1] * 16 + HexOf(b)[2 * i] = b[i]
<1> DEFINE n == Len(b)
<1> DEFINE f == [i \in 1..(2 * n) |-> IF i % 2 = 1 THEN b[(i + 1) \div 2] \div 16 ELSE b[i \div 2] % 16]
<1>1. n \in Nat /\ \A i \in 1..n : b[i] \in 0..255
  BY Elements
<1>2. HexOf(b) = f
  BY DEF HexOf
<1>3. IsSequence(f) /\ Len(f) = 2 * n
  <2>1. 2 * n \in Nat /\ f = [i \in 1..(2 * n) |-> f[i]]
    BY <1>1
  <2> HIDE DEF f, n
  <2> QED
    BY <2>1, FunctionIsSequence
<1>4. ASSUME NEW i \in 1..n PROVE f[2 * i - 1] = b[i] \div 16 /\ f[2 * i] = b[i] % 16
  <2>1. /\ 2 * i - 1 \in 1..(2 * n) /\ (2 * i - 1) % 2 = 1 /\ ((2 * i - 1) + 1) \div 2 = i
        /\ 2 * i \in 1..(2 * n) /\ (2 * i) % 2 # 1 /\ (2 * i) \div 2 = i
    BY <1>1
  <2> QED
    BY <2>1
<1> HIDE DEF f, n
<1>5. ASSUME NEW i \in 1..n
      PROVE  f[2 * i - 1] \in 0..15 /\ f[2 * i] \in 0..15 /\ f[2 * i - 1] * 16 + f[2 * i] = b[i]
  <2> DEFINE x == b[i]
  <2>1. x \in 0..255
    BY <1>1
  <2> HIDE DEF x
  <2>2. x \div 16 \in 0..15 /\ x % 16 \in 0..15 /\ (x \div 16) * 16 + (x % 16) = x
    BY <2>1
  <2> QED
    BY <1>4, <2>2 DEF x
<1> QED
  BY <1>1, <1>2, <1>3, <1>5 DEF n

\* A pair of digits, and a pair with a stray in it.
LEMMA HexPair ==
    ASSUME NEW x \in 0..15, NEW y \in 0..15
    PROVE  ~NoDigits(x, y) /\ Stoi(x, y) % 256 = x * 16 + y
BY DEF NoDigits, Stoi

LEMMA StrayPair ==
    ASSUME NEW x \in 0..15, NEW c \in Stray
    PROVE  /\ ~NoDigits(x, c) /\ Stoi(x, c) % 256 \in 0..15
           /\ NoDigits(c, x) <=> c = NotInAlphabet
           /\ Stoi(c, x) % 256 \in (0..15) \cup (241..255)
<1>1. c \in 252..255 /\ (c = Minus <=> c = 254) /\ (c = NotInAlphabet <=> c = 255)
  BY DEF Stray, Space, Plus, Minus, NotInAlphabet
<1>2. x % 256 \in 0..15 /\ (-x) % 256 \in (0..15) \cup (241..255)
  OBVIOUS
<1>3. Stoi(x, c) = x /\ Stoi(c, x) \in {x, -x}
  BY <1>1 DEF Stoi
<1> QED
  BY <1>1, <1>2, <1>3 DEF NoDigits

\* What std::stoi makes of the first p pairs.
PairsAre(s, p, b) ==
    \A i \in 1..p : ~NoDigits(s[2 * i - 1], s[2 * i]) /\ Stoi(s[2 * i - 1], s[2 * i]) % 256 = b[i]

\* What std::stoi makes of every pair is what FromBytes gets.
LEMMA PairsRead ==
    ASSUME NEW s, Len(s) \in Nat, NEW p, p = Len(s) \div 2, NEW b, PairsAre(s, p, b)
    PROVE  FromHexString(s) = FromBytes([i \in 1..p |-> b[i]])
<1> DEFINE r == [i \in 1..p |-> Stoi(s[2 * i - 1], s[2 * i]) % 256]
<1>1. r = [i \in 1..p |-> b[i]]
  BY DEF PairsAre
<1>2. FromHexString(s) = FromBytes(r)
  BY DEF FromHexString, PairsAre
<1> QED
  BY <1>1, <1>2

LEMMA HexRead ==
    ASSUME NEW b \in Seq(0..255), NEW p \in 0..Len(b), NEW s, Len(s) \in Nat, Len(s) \div 2 = p,
           \A i \in 1..(2 * p) : s[i] = HexOf(b)[i]
    PROVE  FromHexString(s) = FromBytes([i \in 1..p |-> b[i]])
<1>1. Len(b) \in Nat
  OBVIOUS
<1>2. ASSUME NEW i \in 1..p
      PROVE  s[2 * i - 1] \in 0..15 /\ s[2 * i] \in 0..15 /\ s[2 * i - 1] * 16 + s[2 * i] = b[i]
  <2>1. i \in 1..Len(b) /\ 2 * i - 1 \in 1..(2 * p) /\ 2 * i \in 1..(2 * p)
    BY <1>1
  <2>2. /\ HexOf(b)[2 * i - 1] \in 0..15 /\ HexOf(b)[2 * i] \in 0..15
        /\ HexOf(b)[2 * i - 1] * 16 + HexOf(b)[2 * i] = b[i]
    BY <2>1, HexDigits
  <2> QED
    BY <2>1, <2>2
<1>3. ASSUME NEW i \in 1..p
      PROVE  ~NoDigits(s[2 * i - 1], s[2 * i]) /\ Stoi(s[2 * i - 1], s[2 * i]) % 256 = b[i]
  BY <1>2, HexPair
<1>4. PairsAre(s, p, b)
  BY <1>3 DEF PairsAre
<1> QED
  BY <1>4, PairsRead

\* What Front() leaves.
LEMMA FrontIs ==
    ASSUME NEW S, NEW s \in Seq(S), s # <<>>
    PROVE  /\ Len(s) - 1 \in Nat /\ Front(s) \in Seq(S) /\ Len(Front(s)) = Len(s) - 1
           /\ \A i \in 1..(Len(s) - 1) : Front(s)[i] = s[i]
<1> DEFINE e == Len(s) - 1
<1>1. e \in Nat /\ 1 \in Int /\ e \in Int /\ e - 1 + 1 = e
  OBVIOUS
<1>2. \A i \in 1..e : s[i] \in S
  OBVIOUS
<1>3. Front(s) = SubSeq(s, 1, e)
  BY DEF Front
<1> HIDE DEF e
<1>4. /\ SubSeq(s, 1, e) \in Seq(S)
      /\ Len(SubSeq(s, 1, e)) = IF 1 <= e THEN e - 1 + 1 ELSE 0
      /\ \A i \in 1..(e - 1 + 1) : SubSeq(s, 1, e)[i] = s[1 + i - 1]
  BY ONLY <1>1, <1>2, SubSeqProperties
<1>5. \A i \in 1..e : 1 + i - 1 = i
  BY <1>1
<1>6. Len(Front(s)) = e
  BY <1>1, <1>3, <1>4
<1>7. \A i \in 1..e : Front(s)[i] = s[i]
  BY <1>1, <1>3, <1>4, <1>5
<1> QED
  BY <1>1, <1>3, <1>4, <1>6, <1>7 DEF e

LEMMA DividedTwice ==
    ASSUME NEW x \in Nat
    PROVE  /\ (x \div 58) \div 256 = (x \div 256) \div 58 /\ x \div 58 \in Nat
           /\ x >= 58 => x \div 58 # 0
OBVIOUS

\* What is left at the top of a multihash's bytes when their number is divided
\* by 58: W[i] stays U[i] \div 58 down to the length, and above it is no code.
LEMMA TopOfCut ==
    ASSUME NEW f, NEW U, TellsDigits(f, 256, U), NEW n, n = Len(f), n >= 2,
           U[n - 1] \div 58 \in {75, 80, 84, 89, 283, 287},
           NEW g, NEW W, TellsDigits(g, 256, W), W[1] = U[1] \div 58
    PROVE  g[Len(g)] \in {1, 75, 80, 84, 89} /\ Len(g) > 0
<1> DEFINE l == Len(g)
<1>1. /\ n \in Nat /\ U[n + 1] = 0 /\ \A i \in 1..(n + 1) : U[i] \in Nat
      /\ \A i \in 1..n : U[i + 1] = U[i] \div 256 /\ U[i] >= U[i + 1]
  BY DEF TellsDigits
<1>2. /\ l \in Nat /\ W[l + 1] = 0 /\ \A i \in 1..(l + 1) : W[i] \in Nat
      /\ \A i \in 1..l : W[i] # 0 /\ W[i + 1] = W[i] \div 256 /\ g[i] = W[i] % 256
  BY DEF TellsDigits
<1> HIDE DEF l
<1>3. n - 1 \in 1..n /\ U[n - 1] \in Nat /\ U[n - 1] >= 58
  <2> DEFINE x == U[n - 1]
  <2>1. n - 1 \in 1..n /\ n - 1 \in 1..(n + 1)
    BY <1>1
  <2>2. x \in Nat /\ x \div 58 \in {75, 80, 84, 89, 283, 287}
    BY <1>1, <2>1
  <2> HIDE DEF x
  <2>3. x >= 58
    BY <2>2
  <2> QED
    BY <2>1, <2>2, <2>3 DEF x
<1> DEFINE D == {j \in Nat : j < n - 1 => U[n - 1 - j] >= 58}
<1>4. 0 \in D
  BY <1>1, <1>3
<1>5. ASSUME NEW j \in Nat, j \in D PROVE j + 1 \in D
  <2> SUFFICES ASSUME j + 1 < n - 1 PROVE U[n - 1 - (j + 1)] >= 58
    OBVIOUS
  <2>1. /\ n - 1 - (j + 1) \in 1..n /\ (n - 1 - (j + 1)) + 1 = n - 1 - j
        /\ n - 1 - (j + 1) \in 1..(n + 1) /\ n - 1 - j \in 1..(n + 1)
        /\ U[n - 1 - j] >= 58
    BY <1>1, <1>5
  <2>2. /\ U[n - 1 - (j + 1)] \in Nat /\ U[n - 1 - j] \in Nat
        /\ U[n - 1 - (j + 1)] >= U[n - 1 - j]
    BY <1>1, <2>1
  <2> QED
    BY <2>1, <2>2
<1>6. ASSUME NEW i \in 1..(n - 1) PROVE U[i] >= 58 /\ U[i] \in Nat
  <2>1. /\ n - 1 - i \in Nat /\ n - 1 - i < n - 1 /\ n - 1 - (n - 1 - i) = i
        /\ i \in 1..(n + 1)
    BY <1>1
  <2>2. n - 1 - i \in D
    <3> HIDE DEF D
    <3> QED
      BY <1>4, <1>5, <2>1, Induction
  <2> QED
    BY <1>1, <2>1, <2>2
<1> DEFINE T == {i \in Nat : i + 1 <= n - 1 => i + 1 <= l + 1 /\ W[i + 1] = U[i + 1] \div 58}
<1>7. 0 \in T
  BY <1>2
<1>8. ASSUME NEW i \in Nat, i + 1 <= n - 1, i + 1 <= l + 1, W[i + 1] = U[i + 1] \div 58
      PROVE  i + 1 \in 1..l /\ W[i + 2] = U[i + 2] \div 58
  <2> DEFINE x == U[i + 1]
  <2>1. i + 1 \in 1..(n - 1) /\ i + 1 \in 1..n /\ (i + 1) + 1 = i + 2
    BY <1>1, <1>8
  <2>2. x \in Nat /\ x >= 58 /\ U[i + 2] = x \div 256
    BY <1>1, <1>6, <2>1
  <2> HIDE DEF x
  <2>3. x \div 58 # 0 /\ (x \div 58) \div 256 = (x \div 256) \div 58
    BY <2>2, DividedTwice
  <2>4. i + 1 # l + 1
    BY <1>2, <1>8, <2>3 DEF x
  <2>5. i + 1 \in 1..l
    BY <1>2, <1>8, <2>4
  <2>6. W[i + 2] = W[i + 1] \div 256
    BY <1>2, <2>1, <2>5
  <2> QED
    BY <1>8, <2>2, <2>3, <2>5, <2>6 DEF x
<1>9. ASSUME NEW i \in Nat, i \in T PROVE i + 1 \in T
  <2> SUFFICES ASSUME (i + 1) + 1 <= n - 1
               PROVE  (i + 1) + 1 <= l + 1 /\ W[(i + 1) + 1] = U[(i + 1) + 1] \div 58
    OBVIOUS
  <2>1. i + 1 <= n - 1 /\ i + 1 <= l + 1 /\ W[i + 1] = U[i + 1] \div 58 /\ (i + 1) + 1 = i + 2
    BY <1>1, <1>9
  <2>2. i + 1 \in 1..l /\ W[i + 2] = U[i + 2] \div 58
    BY <1>8, <2>1
  <2> QED
    BY <1>2, <2>1, <2>2
<1>10. n - 1 <= l + 1 /\ W[n - 1] = U[n - 1] \div 58
  <2>1. n - 2 \in Nat /\ (n - 2) + 1 = n - 1
    BY <1>1
  <2>2. n - 2 \in T
    <3> HIDE DEF T
    <3> QED
      BY <1>7, <1>9, <2>1, Induction
  <2> QED
    BY <2>1, <2>2
<1> HIDE DEF T, D
<1> DEFINE q == W[n - 1]
<1>11. q \in {75, 80, 84, 89, 283, 287}
  BY <1>10
<1>12. n - 1 \in 1..l
  <2>1. n - 1 # l + 1
    BY <1>2, <1>11
  <2> QED
    BY <1>1, <1>2, <1>10, <2>1
<1>13. W[n] = q \div 256 /\ g[n - 1] = q % 256
  <2>1. (n - 1) + 1 = n
    BY <1>1
  <2> QED
    BY <1>2, <1>12, <2>1
<1> HIDE DEF q
<1>14. CASE q < 256
  <2>1. q \div 256 = 0 /\ q % 256 = q /\ q \in {75, 80, 84, 89}
    BY <1>11, <1>14
  <2>2. n \notin 1..l
    BY <1>2, <1>13, <2>1
  <2>3. l = n - 1
    BY <1>1, <1>2, <1>12, <2>2
  <2> QED
    BY <1>12, <1>13, <2>1, <2>3 DEF l
<1>15. CASE ~(q < 256)
  <2>1. q \div 256 = 1
    BY <1>11, <1>15
  <2>2. n # l + 1
    BY <1>2, <1>13, <2>1
  <2>3. n \in 1..l
    BY <1>1, <1>2, <1>12, <2>2
  <2>4. W[n + 1] = 0 /\ g[n] = 1
    BY <1>2, <1>13, <2>1, <2>3
  <2>5. n + 1 \notin 1..l
    BY <1>2, <2>4
  <2>6. l = n
    BY <1>1, <1>2, <2>3, <2>5
  <2> QED
    BY <2>3, <2>4, <2>6 DEF l
<1> QED
  BY <1>11, <1>14, <1>15

\* The number in a base58 text that has lost its end is its number divided by 58.
LEMMA CutNumber ==
    ASSUME NEW b \in Seq(0..255), b # <<>>, b[1] # 0, NEW v, v # 0,
           HasValue(Taken(b, 256, 58), 58, v), IsNumber(Taken(b, 256, 58), 58)
    PROVE  LET cut == Front(Base58Encode(b))
           IN /\ cut \in Seq(0..57) /\ LeadingZeros(cut) = 0
              /\ IsNumber(Taken(cut, 58, 256), 256)
              /\ HasValue(Taken(cut, 58, 256), 256, v \div 58)
<1> DEFINE number == Taken(b, 256, 58)
<1> DEFINE l == Len(number)
<1> DEFINE spelt == Padded(0, number)
<1> DEFINE cut == Front(spelt)
<1>1. LeadingZeros(b) = 0
  <2>1. Len(b) \in Nat
    OBVIOUS
  <2>2. 0 \in 0..Len(b) /\ (\A i \in 1..0 : b[i] = 0) /\ b[0 + 1] # 0
    BY <2>1
  <2> QED
    BY <2>1, <2>2, LeadingZerosAre
<1>2. Base58Encode(b) = spelt
  BY <1>1 DEF Base58Encode, Converted, Padded
<1>3. Base58Encode(b) \in Seq(0..57)
  <2>1. BytesAndDigits(256, 58) /\ b \in Seq(0..(256 - 1)) /\ 58 - 1 = 57
    BY DEF BytesAndDigits
  <2>2. Converted(b, 256, 58) \in Seq(0..(58 - 1))
    BY ONLY <2>1, ConvertedBack
  <2> QED
    BY <2>1, <2>2 DEF Base58Encode
<1> HIDE DEF number
<1>4. IsNumber(number, 58) /\ HasValue(number, 58, v)
  BY DEF number
<1>5. PICK V \in Traces(number) : DigitValues(number, 58, V) /\ V[1] = v
  BY <1>4 DEF HasValue
<1>6. /\ l \in Nat /\ V[l + 1] = 0 /\ \A i \in 1..(l + 1) : V[i] \in Nat
      /\ \A i \in 1..l : V[i + 1] = V[i] \div 58
  <2>1. TellsDigits(number, 58, V)
    BY <1>4, <1>5, ValuesTell
  <2> QED
    BY <2>1 DEF TellsDigits
<1>7. l > 0
  BY <1>5, <1>6
<1>8. V[2] = v \div 58
  BY <1>5, <1>6, <1>7
<1>9. IsSequence(number)
  <2>1. number \in Seq(0..(58 - 1))
    BY <1>4 DEF IsNumber
  <2> QED
    BY <2>1 DEF IsSequence
<1> HIDE DEF l
<1>10. Len(spelt) = l
  <2>1. 0 \in Nat /\ IsSequence(number) /\ Len(number) \in Nat
    BY <1>6, <1>9 DEF l
  <2>2. Len(spelt) = 0 + Len(number)
    BY ONLY <2>1, PaddedIs
  <2> QED
    BY <1>6, <2>2 DEF l
<1>11. PICK G : Horner(spelt, 58, G) /\ \A j \in 0..l : G[0 + j] = V[l + 1 - j]
  <2>1. Descends(0, number, 58, V)
    BY <1>4, <1>5, PaddedHorner
  <2> QED
    BY <2>1 DEF Descends, l
<1>12. G[l - 1] = v \div 58
  <2>1. l - 1 \in 0..l /\ 0 + (l - 1) = l - 1 /\ l + 1 - (l - 1) = 2
    BY <1>6, <1>7
  <2> QED
    BY <1>8, <1>11, <2>1
<1> HIDE DEF spelt
<1>13. /\ cut \in Seq(0..57) /\ Len(cut) = l - 1 /\ l - 1 \in Nat
       /\ \A i \in 1..(l - 1) : cut[i] = spelt[i]
  <2>1. spelt \in Seq(0..57) /\ spelt # <<>>
    BY <1>2, <1>3, <1>7, <1>10
  <2> QED
    BY <1>10, <2>1, FrontIs
<1> HIDE DEF cut
<1>14. Horner(cut, 58, G)
  <2>1. /\ G[0] = 0 /\ \A i \in 0..l : G[i] \in Nat
        /\ \A i \in 1..l : G[i] = G[i - 1] * 58 + spelt[i]
    BY <1>10, <1>11 DEF Horner
  <2>2. (\A i \in 0..(l - 1) : i \in 0..l) /\ (\A i \in 1..(l - 1) : i \in 1..l)
    BY <1>6
  <2> QED
    BY <1>13, <2>1, <2>2 DEF Horner
<1>15. LeadingZeros(cut) = 0
  <2>1. LeadingZeros(spelt) = 0
    BY <1>4, 0 \in Nat, PaddedZeros DEF spelt
  <2>2. spelt[0 + 1] # 0
    <3>1. Len(spelt) \in Nat /\ Len(spelt) # 0
      BY <1>6, <1>7, <1>10
    <3> QED
      BY <2>1, <3>1, HasLeadingZeros
  <2>3. 0 = Len(cut) \/ cut[0 + 1] # 0
    BY <1>6, <1>7, <1>13, <2>2
  <2>4. Len(cut) \in Nat /\ 0 \in 0..Len(cut) /\ \A i \in 1..0 : cut[i] = 0
    BY <1>13
  <2> QED
    BY <2>3, <2>4, LeadingZerosAre
<1>16. /\ IsNumber(Taken(cut, 58, 256), 256)
       /\ HasValue(Taken(cut, 58, 256), 256, v \div 58)
  <2>1. BytesAndDigits(58, 256) /\ cut \in Seq(0..(58 - 1)) /\ Horner(cut, 58, G)
    BY <1>13, <1>14 DEF BytesAndDigits
  <2>2. /\ IsNumber(Taken(cut, 58, 256), 256)
        /\ HasValue(Taken(cut, 58, 256), 256, G[Len(cut)])
    BY ONLY <2>1, TakenValue
  <2> QED
    BY <1>12, <1>13, <2>2
<1> QED
  BY <1>2, <1>13, <1>15, <1>16 DEF cut

\* A multihash's base58 text without its end is no multihash's.
LEMMA CutBase58 ==
    ASSUME NEW m, MultihashOK(m)
    PROVE  FromBase58(Front(Base58Encode(ToBytes(m)))) = NoHash
<1>1. PICK k \in Kinds, d \in Seq(0..255) :
        Len(d) = MultihashLength(k) /\ m = [kind |-> k, digest |-> d]
  BY DEF MultihashOK
<1> DEFINE b == ToBytes(m)
<1> DEFINE n == Len(b)
<1> DEFINE cut == Front(Base58Encode(b))
<1> DEFINE w == Taken(cut, 58, 256)
<1>2. /\ b \in Seq(0..255) /\ n = 2 + Len(d) /\ b[1] = MultihashCode(k) /\ b[2] = Len(d)
  BY <1>1, BytesAre
<1>3. /\ Len(d) \in {20, 32, 64} /\ Len(d) = MultihashLength(k)
      /\ MultihashCode(k) \in {17, 18, 19, 20, 64, 65}
      /\ (MultihashLength(k) + 256 * MultihashCode(k)) \div 58 \in {75, 80, 84, 89, 283, 287}
  BY <1>1, CodesAndLengths
<1>4. n \in Nat /\ n >= 2 /\ n # 0
  BY <1>2, <1>3
<1> HIDE DEF b
<1>5. PICK H : Horner(b, 256, H)
  <2>1. b \in Seq(0..(256 - 1))
    BY <1>2
  <2>2. HasHorner(b, 256)
    BY <2>1, HornerExists
  <2> QED
    BY <2>2 DEF HasHorner
<1> DEFINE v == H[n]
<1> DEFINE f == Stripped(b)
<1>6. /\ IsNumber(Taken(b, 256, 58), 58) /\ HasValue(Taken(b, 256, 58), 58, v)
      /\ IsNumber(f, 256) /\ HasValue(f, 256, v)
  <2>1. b \in Seq(0..(256 - 1)) /\ BytesAndDigits(256, 58)
    BY <1>2 DEF BytesAndDigits
  <2>2. IsNumber(Taken(b, 256, 58), 58) /\ HasValue(Taken(b, 256, 58), 58, H[Len(b)])
    BY ONLY <1>5, <2>1, TakenValue
  <2>3. IsNumber(Stripped(b), 256) /\ HasValue(Stripped(b), 256, H[Len(b)])
    BY <1>5, <2>1, StrippedValue
  <2> QED
    BY <2>2, <2>3
<1>7. LeadingZeros(b) = 0
  <2>1. 0 \in 0..n /\ (\A i \in 1..0 : b[i] = 0) /\ b[0 + 1] # 0
    BY <1>2, <1>3, <1>4
  <2> QED
    BY <1>4, <2>1, LeadingZerosAre
<1>8. Len(f) = n /\ \A i \in 1..n : f[i] = b[n + 1 - i]
  <2> DEFINE g == [i \in 1..n |-> b[n + 1 - i]]
  <2>1. f = g
    BY <1>4, <1>7 DEF Stripped
  <2>2. g = [i \in 1..n |-> g[i]] /\ \A i \in 1..n : g[i] = b[n + 1 - i]
    OBVIOUS
  <2> HIDE DEF g, f, n
  <2>3. Len(g) = n
    BY <1>4, <2>2, FunctionIsSequence
  <2> QED
    BY <2>1, <2>2, <2>3
<1> HIDE DEF v, f, n
<1>9. PICK U \in Traces(f) : DigitValues(f, 256, U) /\ U[1] = v
  BY <1>6 DEF HasValue
<1>10. TellsDigits(f, 256, U)
  BY <1>6, <1>9, ValuesTell
<1>11. U[n - 1] \div 58 \in {75, 80, 84, 89, 283, 287}
  <2>1. U[n + 1] = 0 /\ \A i \in 1..n : U[i] = f[i] + 256 * U[i + 1]
    BY <1>8, <1>9 DEF DigitValues
  <2>2. n \in 1..n /\ n - 1 \in 1..n /\ n + 1 - n = 1 /\ n + 1 - (n - 1) = 2 /\ (n - 1) + 1 = n
    BY <1>4
  <2>3. U[n] = MultihashCode(k) + 256 * 0
    BY <1>2, <1>8, <2>1, <2>2
  <2>4. U[n] = MultihashCode(k)
    BY <1>3, <2>3
  <2>5. U[n - 1] = MultihashLength(k) + 256 * MultihashCode(k)
    <3>1. U[n - 1] = f[n - 1] + 256 * U[n]
      BY <2>1, <2>2
    <3>2. f[n - 1] = b[2]
      BY <1>8, <2>2
    <3> QED
      BY <1>2, <1>3, <2>4, <3>1, <3>2
  <2> QED
    BY <1>3, <2>5
<1>12. v # 0
  <2>1. 1 \in 1..Len(f)
    BY <1>4, <1>8
  <2> QED
    BY <1>9, <1>10, <2>1 DEF TellsDigits
<1>13. /\ cut \in Seq(0..57) /\ LeadingZeros(cut) = 0
       /\ IsNumber(w, 256) /\ HasValue(w, 256, v \div 58)
  <2>1. b # <<>> /\ b[1] # 0
    BY <1>2, <1>3, <1>4 DEF n
  <2> QED
    BY <1>2, <1>6, <1>12, <2>1, CutNumber
<1> HIDE DEF cut, w
<1>14. PICK W \in Traces(w) : DigitValues(w, 256, W) /\ W[1] = v \div 58
  BY <1>13 DEF HasValue
<1>15. TellsDigits(w, 256, W)
  BY <1>13, <1>14, ValuesTell
<1>16. w[Len(w)] \in {1, 75, 80, 84, 89} /\ Len(w) > 0
  <2>1. /\ TellsDigits(f, 256, U) /\ n = Len(f) /\ n >= 2
        /\ U[n - 1] \div 58 \in {75, 80, 84, 89, 283, 287}
        /\ TellsDigits(w, 256, W) /\ W[1] = U[1] \div 58
    BY <1>4, <1>8, <1>9, <1>10, <1>11, <1>14, <1>15
  <2> QED
    BY ONLY <2>1, TopOfCut
<1>17. FromBase58(cut) = FromBytes(Padded(0, w))
  <2>1. ~NotBase58(cut)
    <3>1. \A i \in DOMAIN cut : cut[i] \in 0..57
      BY <1>13, Elements
    <3>2. ASSUME NEW i \in DOMAIN cut PROVE ~(cut[i] >= 58)
      <4> DEFINE x == cut[i]
      <4>1. x \in 0..57
        BY <3>1
      <4> HIDE DEF x
      <4>2. ~(x >= 58)
        BY <4>1
      <4> QED
        BY <4>2 DEF x
    <3> QED
      BY <3>2 DEF NotBase58
  <2>2. Converted(cut, 58, 256) = Padded(0, w)
    BY <1>13 DEF Converted, Padded, w
  <2> QED
    BY <2>1, <2>2 DEF FromBase58, Base58Decode
<1>18. Padded(0, w)[1] = w[Len(w)]
  <2>1. w \in Seq(0..(256 - 1))
    BY <1>13 DEF IsNumber
  <2>2. 0 \in Nat /\ IsSequence(w) /\ Len(w) \in Nat
    BY <2>1 DEF IsSequence
  <2>3. \A j \in 1..Len(w) : Padded(0, w)[0 + j] = w[Len(w) + 1 - j]
    BY ONLY <2>2, PaddedIs
  <2>4. 1 \in 1..Len(w) /\ 0 + 1 = 1 /\ Len(w) + 1 - 1 = Len(w)
    BY <1>16, <2>2
  <2> QED
    BY <2>3, <2>4
<1>19. \A c \in Kinds : MultihashCode(c) # Padded(0, w)[1]
  BY <1>16, <1>18, CodesAndLengths
<1> QED
  BY <1>17, <1>19, NoCode DEF cut, b

\* Each form read back whole, with something after it, and without its end.
LEMMA BytesForm ==
    ASSUME NEW m, MultihashOK(m)
    PROVE  /\ FromBytes(ToBytes(m)) = m /\ FromBytes(Append(ToBytes(m), 1)) = m
           /\ FromBytes(Front(ToBytes(m))) = NoHash
<1> DEFINE b == ToBytes(m)
<1> DEFINE n == Len(b)
<1>1. b \in Seq(0..255) /\ n \in Nat /\ n # 0
  <2>1. PICK k \in Kinds, d \in Seq(0..255) :
          Len(d) = MultihashLength(k) /\ m = [kind |-> k, digest |-> d]
    BY DEF MultihashOK
  <2>2. b \in Seq(0..255) /\ n = 2 + Len(d)
    BY <2>1, BytesAre
  <2>3. Len(d) \in Nat
    BY <2>1
  <2> QED
    BY <2>2, <2>3
<1> HIDE DEF b
<1>2. FromBytes(b) = m
  <2>1. Len(b) >= Len(ToBytes(m)) /\ \A i \in 1..Len(ToBytes(m)) : b[i] = ToBytes(m)[i]
    BY <1>1 DEF b
  <2> QED
    BY <1>1, <2>1, BytesRead
<1>3. FromBytes(Append(b, 1)) = m
  <2> DEFINE a == Append(b, 1)
  <2>1. a \in Seq(0..255) /\ Len(a) = n + 1 /\ \A i \in 1..n : a[i] = b[i]
    BY <1>1
  <2> HIDE DEF a, n
  <2>2. Len(a) >= n
    BY <1>1, <2>1
  <2>3. Len(a) >= Len(ToBytes(m)) /\ \A i \in 1..Len(ToBytes(m)) : a[i] = ToBytes(m)[i]
    BY <2>1, <2>2 DEF b, n
  <2>4. FromBytes(a) = m
    BY <2>1, <2>3, BytesRead
  <2> QED
    BY <2>4 DEF a
<1>4. FromBytes(Front(b)) = NoHash
  <2> DEFINE a == Front(b)
  <2>1. b # <<>>
    BY <1>1
  <2>2. Len(a) = n - 1 /\ \A i \in 1..(n - 1) : a[i] = b[i]
    BY <1>1, <2>1, FrontIs
  <2> HIDE DEF a
  <2>3. Len(a) = Len(ToBytes(m)) - 1 /\ \A i \in 1..Len(a) : a[i] = ToBytes(m)[i]
    BY <2>2 DEF b
  <2>4. FromBytes(a) = NoHash
    BY <2>3, BytesCut
  <2> QED
    BY <2>4 DEF a
<1> QED
  BY <1>2, <1>3, <1>4 DEF b

LEMMA HexForm ==
    ASSUME NEW m, MultihashOK(m)
    PROVE  /\ FromHexString(ToHexString(m)) = m /\ FromHexString(Append(ToHexString(m), 1)) = m
           /\ FromHexString(Front(ToHexString(m))) = NoHash
<1> DEFINE b == ToBytes(m)
<1> DEFINE n == Len(b)
<1> DEFINE s == ToHexString(m)
<1>1. b \in Seq(0..255) /\ n \in Nat /\ n # 0
  <2>1. PICK k \in Kinds, d \in Seq(0..255) :
          Len(d) = MultihashLength(k) /\ m = [kind |-> k, digest |-> d]
    BY DEF MultihashOK
  <2>2. b \in Seq(0..255) /\ n = 2 + Len(d)
    BY <2>1, BytesAre
  <2>3. Len(d) \in Nat
    BY <2>1
  <2> QED
    BY <2>2, <2>3
<1>2. s = HexOf(b)
  BY DEF ToHexString, HexOf
<1> HIDE DEF b, s
<1>3. IsSequence(s) /\ Len(s) = 2 * n
  BY <1>1, <1>2, HexDigits
<1> HIDE DEF n
<1>4. PICK S : s \in Seq(S) /\ 1 \in S
  <2>1. PICK T : s \in Seq(T)
    BY <1>3 DEF IsSequence
  <2>2. s \in Seq(T \cup {1})
    BY <2>1
  <2> QED
    BY <2>2
<1>5. ASSUME NEW r, NEW p \in {n - 1, n}, Len(r) \in Nat, Len(r) \div 2 = p,
             \A i \in 1..(2 * p) : r[i] = s[i]
      PROVE  FromHexString(r) = FromBytes([i \in 1..p |-> b[i]])
  <2>1. p \in 0..Len(b)
    BY <1>1 DEF n
  <2> QED
    BY <1>1, <1>2, <1>5, <2>1, HexRead
<1>6. b = [i \in 1..n |-> b[i]]
  BY <1>1 DEF n
<1>7. FromBytes(b) = m /\ FromBytes(Front(b)) = NoHash
  BY BytesForm DEF b
<1>8. FromHexString(s) = m
  <2>1. n \in {n - 1, n} /\ Len(s) \in Nat /\ Len(s) \div 2 = n /\ \A i \in 1..(2 * n) : s[i] = s[i]
    BY <1>1, <1>3
  <2>2. FromHexString(s) = FromBytes([i \in 1..n |-> b[i]])
    BY <1>5, <2>1
  <2> QED
    BY <1>6, <1>7, <2>2
<1>9. FromHexString(Append(s, 1)) = m
  <2> DEFINE r == Append(s, 1)
  <2>1. Len(r) = 2 * n + 1 /\ \A i \in 1..(2 * n) : r[i] = s[i]
    BY <1>1, <1>3, <1>4
  <2> HIDE DEF r
  <2>2. n \in {n - 1, n} /\ Len(r) \in Nat /\ Len(r) \div 2 = n
    BY <1>1, <2>1
  <2>3. FromHexString(r) = FromBytes([i \in 1..n |-> b[i]])
    BY <1>5, <2>1, <2>2
  <2> QED
    BY <1>6, <1>7, <2>3 DEF r
<1>10. FromHexString(Front(s)) = NoHash
  <2> DEFINE r == Front(s)
  <2> DEFINE c == [i \in 1..(n - 1) |-> b[i]]
  <2>0. s # <<>>
    BY <1>1, <1>3
  <2>1. Len(r) = 2 * n - 1 /\ \A i \in 1..(2 * n - 1) : r[i] = s[i]
    <3>1. Len(r) = Len(s) - 1 /\ \A i \in 1..(Len(s) - 1) : r[i] = s[i]
      BY <1>4, <2>0, FrontIs
    <3> HIDE DEF r
    <3> QED
      BY <1>3, <3>1
  <2> HIDE DEF r
  <2>2. n - 1 \in {n - 1, n} /\ Len(r) \in Nat /\ Len(r) \div 2 = n - 1
    BY <1>1, <2>1
  <2>3. \A i \in 1..(2 * (n - 1)) : r[i] = s[i]
    <3>1. \A i \in 1..(2 * (n - 1)) : i \in 1..(2 * n - 1)
      BY <1>1
    <3> QED
      BY <2>1, <3>1
  <2>4. FromHexString(r) = FromBytes(c)
    BY <1>5, <2>2, <2>3
  <2>5. n - 1 \in Nat /\ c = [i \in 1..(n - 1) |-> c[i]] /\ \A i \in 1..(n - 1) : c[i] = b[i]
    BY <1>1
  <2> HIDE DEF c
  <2>6. Len(c) = n - 1
    BY <2>5, FunctionIsSequence
  <2>7. Len(c) = Len(ToBytes(m)) - 1 /\ \A i \in 1..Len(c) : c[i] = ToBytes(m)[i]
    BY <2>5, <2>6 DEF b, n
  <2>8. FromBytes(c) = NoHash
    BY <2>7, BytesCut
  <2> QED
    BY <2>4, <2>8 DEF r
<1> QED
  BY <1>8, <1>9, <1>10 DEF s

\* The byte of its digest that stands at place j is y instead.
Misread(m, j, y, h) == \E n \in DOMAIN m.digest : j = n + 2 /\ h = [m EXCEPT !.digest[n] = y]

\* A multihash one of whose bytes is less than 16 or more than 240 now: if that is
\* its code or its length it is none any more.
LEMMA ByteMisread ==
    ASSUME NEW m, MultihashOK(m), NEW j \in 1..Len(ToBytes(m)), NEW y \in (0..15) \cup (241..255),
           NEW b, b = [i \in 1..Len(ToBytes(m)) |-> IF i = j THEN y ELSE ToBytes(m)[i]]
    PROVE  FromBytes(b) = NoHash \/ Misread(m, j, y, FromBytes(b))
<1>1. PICK k \in Kinds, d \in Seq(0..255) :
        Len(d) = MultihashLength(k) /\ m = [kind |-> k, digest |-> d]
  BY DEF MultihashOK
<1> DEFINE w == ToBytes(m)
           N == Len(d)
<1>2. /\ w \in Seq(0..255) /\ Len(w) = 2 + N /\ w[1] = MultihashCode(k) /\ w[2] = N
      /\ \A i \in 1..N : w[2 + i] = d[i]
  BY <1>1, BytesAre
<1>3. N \in {20, 32, 64} /\ MultihashCode(k) \in {17, 18, 19, 20, 64, 65}
  BY <1>1, CodesAndLengths
<1> HIDE DEF w, N
<1>4. b = [i \in 1..(2 + N) |-> IF i = j THEN y ELSE w[i]] /\ j \in 1..(2 + N)
  BY <1>2 DEF w
<1>5. b \in Seq(0..255) /\ Len(b) = 2 + N
  <2>1. 2 + N \in Nat /\ y \in 0..255
    BY <1>3
  <2>2. \A i \in 1..Len(w) : w[i] \in 0..255
    BY <1>2, Elements
  <2>3. \A i \in 1..(2 + N) : w[i] \in 0..255
    BY <1>2, <2>2
  <2>4. b \in [1..(2 + N) -> 0..255]
    BY <1>4, <2>1, <2>3
  <2>5. \E n \in Nat : b \in [1..n -> 0..255]
    BY <2>1, <2>4
  <2>6. b \in UNION {[1..n -> 0..255] : n \in Nat}
    BY <2>5, Zenon
  <2>7. Seq(0..255) = UNION {[1..n -> 0..255] : n \in Nat}
    BY SeqDef
  <2>8. b \in Seq(0..255)
    BY <2>6, <2>7, Zenon
  <2> QED
    BY <2>1, <2>4, <2>8
<1>6. CASE j = 1
  <2>1. b[1] = y
    BY <1>3, <1>4, <1>6
  <2>2. \A l \in Kinds : MultihashCode(l) \in {17, 18, 19, 20, 64, 65}
    BY CodesAndLengths
  <2>3. \A l \in Kinds : MultihashCode(l) # b[1]
    BY <2>1, <2>2
  <2> QED
    BY <2>3, NoCode
<1>7. CASE j = 2
  <2>1. b[1] = MultihashCode(k) /\ b[2] = y
    BY <1>2, <1>3, <1>4, <1>7
  <2> DEFINE l == CHOOSE x \in Kinds : MultihashCode(x) = b[1]
  <2>2. l \in Kinds
    BY <2>1
  <2>3. MultihashLength(l) \in {20, 32, 64}
    BY <2>2, CodesAndLengths
  <2>4. CASE y > N
    <3>1. Len(b) < 2 + b[2]
      BY <1>3, <1>5, <2>1, <2>4
    <3> QED
      BY <3>1 DEF FromBytes
  <2>5. CASE y <= N
    <3>1. y \in 0..15
      BY <1>3, <2>5
    <3>2. Len(SubSeq(b, 3, 2 + y)) = y
      BY <1>3, <1>5, <3>1
    <3>3. FromBytes(b) = NoHash \/ FromBytes(b) = Multihash(l, SubSeq(b, 3, 2 + y))
      BY <2>1 DEF FromBytes
    <3> HIDE DEF l
    <3>4. Multihash(l, SubSeq(b, 3, 2 + y)) = NoHash
      BY <2>3, <3>1, <3>2 DEF Multihash
    <3> QED
      BY <3>3, <3>4
  <2>6. y \in Int /\ N \in Int
    BY <1>3
  <2>7. y > N \/ y <= N
    BY <2>6
  <2> QED
    BY <2>4, <2>5, <2>7
<1>8. CASE j \in 3..(2 + N)
  <2> DEFINE n == j - 2
             e == [d EXCEPT ![n] = y]
             h == [kind |-> k, digest |-> e]
  <2>1. n \in 1..N /\ n \in DOMAIN d /\ j = n + 2
    BY <1>3, <1>8 DEF N
  <2>2. e \in Seq(0..255) /\ Len(e) = N /\ \A i \in 1..N : e[i] = IF i = n THEN y ELSE d[i]
    BY <1>1, <2>1 DEF N
  <2> HIDE DEF n, e
  <2>3. MultihashOK(h)
    BY <1>1, <2>2 DEF MultihashOK, N
  <2> DEFINE v == ToBytes(h)
  <2>4. /\ v \in Seq(0..255) /\ Len(v) = 2 + N /\ v[1] = MultihashCode(k) /\ v[2] = N
        /\ \A i \in 1..N : v[2 + i] = e[i]
    BY <1>1, <2>2, BytesAre DEF N
  <2> HIDE DEF v
  <2>5. ASSUME NEW i \in 1..(2 + N) PROVE b[i] = v[i]
    <3>1. CASE i \in {1, 2}
      BY <1>2, <1>4, <1>8, <2>4, <3>1
    <3>2. CASE i \in 3..(2 + N)
      <4>1. i - 2 \in 1..N /\ 2 + (i - 2) = i
        BY <1>3, <3>2
      <4>2. w[i] = d[i - 2] /\ v[i] = e[i - 2]
        BY <1>2, <2>4, <4>1
      <4> QED
        BY <1>4, <2>1, <2>2, <4>1, <4>2
    <3> QED
      BY <1>3, <3>1, <3>2
  <2>6. FromBytes(b) = h
    <3>1. Len(b) >= Len(v)
      BY <1>3, <1>5, <2>4
    <3>2. \A i \in 1..Len(v) : b[i] = v[i]
      BY <2>4, <2>5
    <3> HIDE DEF h
    <3> QED
      BY <1>5, <2>3, <3>1, <3>2, BytesRead DEF v
  <2>7. h = [m EXCEPT !.digest[n] = y]
    BY <1>1 DEF e
  <2>8. m.digest = d
    BY <1>1
  <2> HIDE DEF h
  <2> QED
    BY <2>1, <2>6, <2>7, <2>8 DEF Misread
<1>9. j = 1 \/ j = 2 \/ j \in 3..(2 + N)
  BY <1>3, <1>4
<1> QED
  BY <1>6, <1>7, <1>8, <1>9

\* How a hash that is not the one written may come of a text with a stray in it.
Slips(m, s, h) ==
    \E n \in DOMAIN m.digest :
        /\ s[2 * n + 4] \in Stray \/ s[2 * n + 3] \in {Space, Plus, Minus}
        /\ \E byte \in 0..255 : h = [m EXCEPT !.digest[n] = byte]

LEMMA HexSpoilt ==
    ASSUME NEW m, MultihashOK(m), NEW i \in DOMAIN ToHexString(m), NEW c \in Stray,
           NEW r, r = [ToHexString(m) EXCEPT ![i] = c]
    PROVE  FromHexString(r) = NoHash \/ Slips(m, r, FromHexString(r))
<1> DEFINE b == ToBytes(m)
<1> DEFINE n == Len(b)
<1> DEFINE s == ToHexString(m)
<1>1. b \in Seq(0..255) /\ n \in Nat
  <2>1. PICK k \in Kinds, d \in Seq(0..255) :
          Len(d) = MultihashLength(k) /\ m = [kind |-> k, digest |-> d]
    BY DEF MultihashOK
  <2>2. b \in Seq(0..255) /\ n = 2 + Len(d)
    BY <2>1, BytesAre
  <2>3. Len(d) \in Nat
    BY <2>1
  <2> QED
    BY <2>2, <2>3
<1>2. s = HexOf(b)
  BY DEF ToHexString, HexOf
<1>3. i \in DOMAIN s /\ r = [s EXCEPT ![i] = c]
  OBVIOUS
<1> HIDE DEF b, s
<1>4. /\ IsSequence(s) /\ Len(s) = 2 * n
      /\ \A k \in 1..n : /\ s[2 * k - 1] \in 0..15 /\ s[2 * k] \in 0..15
                         /\ s[2 * k - 1] * 16 + s[2 * k] = b[k]
  BY <1>1, <1>2, HexDigits DEF n
<1> HIDE DEF n
<1>5. DOMAIN s = 1..(2 * n) /\ Len(r) = 2 * n /\ \A k \in 1..(2 * n) : r[k] = IF k = i THEN c ELSE s[k]
  <2>1. PICK S : s \in Seq(S)
    BY <1>4 DEF IsSequence
  <2>2. DOMAIN s = 1..(2 * n)
    BY <1>4, <2>1
  <2>3. r = [k \in 1..(2 * n) |-> r[k]] /\ \A k \in 1..(2 * n) : r[k] = IF k = i THEN c ELSE s[k]
    BY <1>3, <2>2
  <2>4. 2 * n \in Nat
    BY <1>1
  <2>5. Len(r) = 2 * n
    BY <2>3, <2>4, FunctionIsSequence
  <2> QED
    BY <2>2, <2>3, <2>5
<1>6. PICK j \in 1..n : i \in {2 * j - 1, 2 * j}
  <2>1. i \in 1..(2 * n)
    BY <1>3, <1>5
  <2>2. (i + 1) \div 2 \in 1..n /\ i \in {2 * ((i + 1) \div 2) - 1, 2 * ((i + 1) \div 2)}
    BY <1>1, <2>1
  <2> QED
    BY <2>2
<1>7. ASSUME NEW k \in 1..n, k # j
      PROVE  ~NoDigits(r[2 * k - 1], r[2 * k]) /\ Stoi(r[2 * k - 1], r[2 * k]) % 256 = b[k]
  <2>1. 2 * k - 1 \in 1..(2 * n) /\ 2 * k \in 1..(2 * n) /\ 2 * k - 1 # i /\ 2 * k # i
    BY <1>1, <1>6, <1>7
  <2>2. r[2 * k - 1] = s[2 * k - 1] /\ r[2 * k] = s[2 * k]
    BY <1>5, <2>1
  <2> DEFINE x == s[2 * k - 1]
             z == s[2 * k]
  <2>3. x \in 0..15 /\ z \in 0..15 /\ x * 16 + z = b[k]
    BY <1>4
  <2> HIDE DEF x, z
  <2>4. ~NoDigits(x, z) /\ Stoi(x, z) % 256 = b[k]
    BY <2>3, HexPair
  <2> QED
    BY <2>2, <2>4 DEF x, z
<1> DEFINE y == Stoi(r[2 * j - 1], r[2 * j]) % 256
<1>8. /\ NoDigits(r[2 * j - 1], r[2 * j]) \/ y \in (0..15) \cup (241..255)
      /\ \/ NoDigits(r[2 * j - 1], r[2 * j]) 
         \/ r[2 * j] \in Stray \/ r[2 * j - 1] \in {Space, Plus, Minus}
  <2>1. 2 * j - 1 \in 1..(2 * n) /\ 2 * j \in 1..(2 * n) /\ 2 * j - 1 # 2 * j
    BY <1>1, <1>6
  <2>2. CASE i = 2 * j - 1
    <3>1. r[2 * j - 1] = c /\ r[2 * j] \in 0..15
      BY <1>4, <1>5, <2>1, <2>2
    <3> QED
      BY <3>1, StrayPair DEF Stray
  <2>3. CASE i = 2 * j
    <3>1. r[2 * j - 1] \in 0..15 /\ r[2 * j] = c
      BY <1>4, <1>5, <2>1, <2>3
    <3> QED
      BY <3>1, StrayPair
  <2> QED
    BY <1>6, <2>2, <2>3
<1>9. 2 * n \in Nat /\ (2 * n) \div 2 = n
  BY <1>1
<1>10. CASE NoDigits(r[2 * j - 1], r[2 * j])
  <2>1. j \in 1..(Len(r) \div 2)
    BY <1>5, <1>9
  <2> QED
    BY <1>10, <2>1 DEF FromHexString
<1>11. CASE ~NoDigits(r[2 * j - 1], r[2 * j])
  <2> DEFINE a == [k \in 1..n |-> IF k = j THEN y ELSE b[k]]
  <2>1. ASSUME NEW k \in 1..n
        PROVE  ~NoDigits(r[2 * k - 1], r[2 * k]) /\ Stoi(r[2 * k - 1], r[2 * k]) % 256 = a[k]
    <3>1. CASE k = j
      BY <1>11, <3>1
    <3>2. CASE k # j
      BY <1>7, <3>2
    <3> QED
      BY <3>1, <3>2
  <2>2. a = [k \in 1..n |-> a[k]]
    OBVIOUS
  <2> HIDE DEF y
  <2>3. y \in (0..15) \cup (241..255)
    BY <1>8, <1>11
  <2>4. a = [k \in 1..Len(ToBytes(m)) |-> IF k = j THEN y ELSE ToBytes(m)[k]] /\ j \in 1..Len(ToBytes(m))
    BY DEF b, n
  <2> HIDE DEF a
  <2>5. FromHexString(r) = FromBytes([k \in 1..n |-> a[k]])
    <3>1. Len(r) \in Nat /\ n = Len(r) \div 2
      BY <1>5, <1>9
    <3>2. PairsAre(r, n, a)
      BY <2>1 DEF PairsAre
    <3> QED
      BY <3>1, <3>2, PairsRead
  <2>6. FromHexString(r) = FromBytes(a)
    BY <2>2, <2>5
  <2>7. FromBytes(a) = NoHash \/ Misread(m, j, y, FromBytes(a))
    BY <2>3, <2>4, ByteMisread
  <2>8. ASSUME NEW k \in DOMAIN m.digest, j = k + 2, FromBytes(a) = [m EXCEPT !.digest[k] = y]
        PROVE  Slips(m, r, FromBytes(a))
    <3>1. k \in Int
      <4>1. PICK d \in Seq(0..255) : m.digest = d
        BY DEF MultihashOK
      <4> QED
        BY <4>1
    <3>2. 2 * k + 4 = 2 * j /\ 2 * k + 3 = 2 * j - 1
      BY <2>8, <3>1
    <3>3. r[2 * k + 4] \in Stray \/ r[2 * k + 3] \in {Space, Plus, Minus}
      BY <1>8, <1>11, <3>2
    <3>4. y \in 0..255
      BY <2>3
    <3> QED
      BY <2>8, <3>3, <3>4 DEF Slips
  <2> QED
    BY <2>6, <2>7, <2>8 DEF Misread
<1> QED
  BY <1>10, <1>11

LEMMA AllDigits ==
    ASSUME NEW s \in Seq(0..57)
    PROVE  ~NotBase58(s) /\ \A i \in DOMAIN s, c \in Stray : NotBase58([s EXCEPT ![i] = c])
<1>1. ASSUME NEW i \in DOMAIN s PROVE ~(s[i] >= 58)
  <2> DEFINE x == s[i]
  <2>1. x \in 0..57
    BY Elements
  <2> HIDE DEF x
  <2>2. ~(x >= 58)
    BY <2>1
  <2> QED
    BY <2>2 DEF x
<1>2. ASSUME NEW i \in DOMAIN s, NEW c \in Stray PROVE NotBase58([s EXCEPT ![i] = c])
  <2> DEFINE r == [s EXCEPT ![i] = c]
  <2>1. i \in DOMAIN r /\ r[i] \in 252..255
    BY DEF Stray, Space, Plus, Minus, NotInAlphabet
  <2> HIDE DEF r
  <2>2. r[i] >= 58
    BY <2>1
  <2>3. NotBase58(r)
    BY <2>1, <2>2 DEF NotBase58
  <2> QED
    BY <2>3 DEF r
<1> QED
  BY <1>1, <1>2 DEF NotBase58

Back(s, from, to) == Converted(Converted(s, from, to), to, from) = s

LEMMA Base58Form ==
    ASSUME NEW b \in Seq(0..255)
    PROVE  Base58Encode(b) \in Seq(0..57) /\ Base58Decode(Base58Encode(b)) = b
<1>1. BytesAndDigits(256, 58) /\ b \in Seq(0..(256 - 1)) /\ 58 - 1 = 57
  BY DEF BytesAndDigits
<1>2. Converted(b, 256, 58) \in Seq(0..(58 - 1))
  BY ONLY <1>1, ConvertedBack
<1>5. Converted(Converted(b, 256, 58), 58, 256) = b
  <2>1. ASSUME NEW from, NEW to, BytesAndDigits(from, to), b \in Seq(0..(from - 1))
        PROVE  Back(b, from, to)
    BY <2>1, ConvertedBack DEF Back
  <2>2. Back(b, 256, 58)
    BY ONLY <1>1, <2>1
  <2> QED
    BY <2>2 DEF Back
<1>3. Base58Encode(b) \in Seq(0..57)
  <2>1. 58 - 1 = 57
    OBVIOUS
  <2> QED
    BY <1>2, <2>1 DEF Base58Encode
<1>4. ~NotBase58(Base58Encode(b))
  BY <1>3, AllDigits
<1> QED
  BY <1>3, <1>4, <1>5 DEF Base58Encode, Base58Decode

\* ToJson()'s array with another length is refused.
LEMMA JsonForm ==
    ASSUME NEW m, MultihashOK(m)
    PROVE  /\ HashFromJson(HashToJson(m)) = m
           /\ LET n == Len(HashToJson(m).hash)
              IN \A k \in {0, n - 1, n + 1, 2 * n} :
                    HashFromJson([HashToJson(m) EXCEPT !.hash = SubSeq(@ \o @, 1, k)]) = NoHash
<1>1. PICK kind \in Kinds, d \in Seq(0..255) :
        Len(d) = MultihashLength(kind) /\ m = [kind |-> kind, digest |-> d]
  BY DEF MultihashOK
<1> DEFINE n == Len(d)
<1>2. n \in {20, 32, 64} /\ n = MultihashLength(kind)
  BY <1>1, CodesAndLengths
<1>3. HashToJson(m) = [type |-> kind, hash |-> d]
  BY <1>1 DEF HashToJson
<1>4. HashFromJson(HashToJson(m)) = m
  BY <1>1, <1>2, <1>3 DEF HashFromJson, Multihash
<1>5. ASSUME NEW k \in {0, n - 1, n + 1, 2 * n}
      PROVE  HashFromJson([HashToJson(m) EXCEPT !.hash = SubSeq(@ \o @, 1, k)]) = NoHash
  <2> DEFINE dd == d \o d
  <2> DEFINE s == SubSeq(dd, 1, k)
  <2>1. dd \in Seq(0..255) /\ Len(dd) = 2 * n
    <3>1. d \in Seq(0..255)
      OBVIOUS
    <3>2. dd \in Seq(0..255) /\ Len(dd) = Len(d) + Len(d)
      BY ONLY <3>1, ConcatProperties
    <3> QED
      BY <1>2, <3>2
  <2>2. [HashToJson(m) EXCEPT !.hash = SubSeq(@ \o @, 1, k)] = [type |-> kind, hash |-> s]
    <3> DEFINE j == [type |-> kind, hash |-> d]
    <3>1. [j EXCEPT !.hash = s] = [type |-> kind, hash |-> s]
      <4> HIDE DEF s
      <4> QED
        OBVIOUS
    <3>2. j.hash = d
      OBVIOUS
    <3>3. HashToJson(m) = j
      BY <1>3
    <3> HIDE DEF j
    <3>4. [j EXCEPT !.hash = SubSeq(j.hash \o j.hash, 1, k)] = [j EXCEPT !.hash = s]
      BY <3>2
    <3> QED
      BY <3>1, <3>3, <3>4
  <2> HIDE DEF dd, n
  <2>3. k \in Int /\ 1 \in Int /\ k # n /\ k \in 0..(2 * n) /\ 2 * n \in Nat
    BY <1>2
  <2>4. \A i \in 1..k : dd[i] \in 0..255
    <3>1. \A i \in 1..k : i \in 1..Len(dd)
      BY <2>1, <2>3
    <3> QED
      BY <2>1, <3>1, Elements
  <2>5. Len(s) = IF 1 <= k THEN k - 1 + 1 ELSE 0
    BY ONLY <2>3, <2>4, SubSeqProperties
  <2>6. Len(s) = k
    BY <2>3, <2>5
  <2> HIDE DEF s
  <2>7. Multihash(kind, s) = NoHash
    BY <1>2, <2>3, <2>6 DEF Multihash
  <2> QED
    BY <2>2, <2>7 DEF HashFromJson
<1> QED
  BY <1>3, <1>4, <1>5

-----------------------------------------------------------------------------
\* What Write() writes in a form, and what Read() makes of a text in it.
Written(f, v) ==
    CASE f = "bytes" -> ToBytes(v) [] f = "hex" -> ToHexString(v)
      [] f = "base58" -> Base58Encode(ToBytes(v)) [] f = "json" -> HashToJson(v)
      [] f = "plain58" -> Base58Encode(v)

Understood(f, s) ==
    CASE f = "bytes" -> FromBytes(s) [] f = "hex" -> FromHexString(s)
      [] f = "base58" -> FromBase58(s) [] f = "json" -> HashFromJson(s)
      [] f = "plain58" -> Base58Decode(s)

\* How what arrives is related to what was written, for each kind of damage.
Arrives(f, v, s, kind) ==
    LET w == Written(f, v)
    IN CASE kind = "none" -> s = w
         [] kind = "cut" -> f # "json" /\ s = Front(w)
         [] kind = "resized" -> f = "json" /\ HashFromJson(s) = NoHash
         [] kind = "longer" -> f \in {"bytes", "hex"} /\ s = Append(w, 1)
         [] kind = "spoilt" -> /\ f \in {"hex", "base58", "plain58"}
                               /\ \E i \in DOMAIN w, c \in Stray : s = [w EXCEPT ![i] = c]

IsValue(f, v) == IF f = "plain58" THEN v \in Seq(0..255) ELSE MultihashOK(v)

HashInv ==
    /\ form \in Forms /\ IsValue(form, original)
    /\ damage \in {"unwritten", "none", "cut", "resized", "longer", "spoilt"}
    /\ damage # "unwritten" => Arrives(form, original, carried, damage)
    /\ reread # Unread => damage # "unwritten" /\ reread = Understood(form, carried)

\* What each form makes of what arrives.
LEMMA FormSurvives ==
    ASSUME NEW f \in Forms, NEW v, IsValue(f, v), NEW s,
           NEW kind \in {"none", "cut", "resized", "longer", "spoilt"}, Arrives(f, v, s, kind)
    PROVE  /\ kind \in {"none", "longer"} => Understood(f, s) = v
           /\ kind \in {"cut", "resized"} /\ f # "plain58" => Understood(f, s) = NoHash
           /\ kind = "spoilt" /\ Understood(f, s) # NoHash =>
                 f = "hex" /\ Slips(v, s, Understood(f, s))
<1>1. CASE f = "bytes"
  <2>1. Written(f, v) = ToBytes(v) /\ Understood(f, s) = FromBytes(s) /\ MultihashOK(v)
    BY <1>1 DEF Written, Understood, IsValue
  <2>2. /\ FromBytes(ToBytes(v)) = v /\ FromBytes(Append(ToBytes(v), 1)) = v
        /\ FromBytes(Front(ToBytes(v))) = NoHash
    BY <2>1, BytesForm
  <2> QED
    BY <1>1, <2>1, <2>2 DEF Arrives
<1>2. CASE f = "hex"
  <2> DEFINE w == ToHexString(v)
  <2>1. Written(f, v) = w /\ Understood(f, s) = FromHexString(s) /\ MultihashOK(v)
    BY <1>2 DEF Written, Understood, IsValue
  <2>2. /\ FromHexString(w) = v /\ FromHexString(Append(w, 1)) = v
        /\ FromHexString(Front(w)) = NoHash
    BY <2>1, HexForm
  <2>4. ASSUME NEW i \in DOMAIN w, NEW c \in Stray, s = [w EXCEPT ![i] = c]
        PROVE  FromHexString(s) = NoHash \/ Slips(v, s, FromHexString(s))
    BY <2>1, <2>4, HexSpoilt
  <2> HIDE DEF w
  <2>3. CASE kind # "spoilt"
    BY <1>2, <2>1, <2>2, <2>3 DEF Arrives
  <2>5. CASE kind = "spoilt"
    <3>1. PICK i \in DOMAIN w, c \in Stray : s = [w EXCEPT ![i] = c]
      BY <1>2, <2>1, <2>5 DEF Arrives
    <3> QED
      BY <1>2, <2>1, <2>4, <2>5, <3>1
  <2> QED
    BY <2>3, <2>5
<1>3. CASE f = "base58"
  <2> DEFINE w == Base58Encode(ToBytes(v))
  <2>1. Written(f, v) = w /\ Understood(f, s) = FromBase58(s) /\ MultihashOK(v)
    BY <1>3 DEF Written, Understood, IsValue
  <2>2. ToBytes(v) \in Seq(0..255)
    <3>1. PICK k \in Kinds, d \in Seq(0..255) :
            Len(d) = MultihashLength(k) /\ v = [kind |-> k, digest |-> d]
      BY <2>1 DEF MultihashOK
    <3> QED
      BY <3>1, BytesAre
  <2>3. w \in Seq(0..57) /\ Base58Decode(w) = ToBytes(v)
    BY <2>2, Base58Form
  <2>4. FromBase58(Front(w)) = NoHash
    BY <2>1, CutBase58
  <2> HIDE DEF w
  <2>5. FromBase58(w) = v
    <3>1. ~NotBase58(w)
      BY <2>3, AllDigits
    <3>2. FromBytes(ToBytes(v)) = v
      BY <2>1, BytesForm
    <3> QED
      BY <2>3, <3>1, <3>2 DEF FromBase58
  <2>6. \A i \in DOMAIN w, c \in Stray : FromBase58([w EXCEPT ![i] = c]) = NoHash
    BY <2>3, AllDigits DEF FromBase58
  <2>7. CASE kind # "spoilt"
    BY <1>3, <2>1, <2>4, <2>5, <2>7 DEF Arrives
  <2>8. CASE kind = "spoilt"
    <3>1. PICK i \in DOMAIN w, c \in Stray : s = [w EXCEPT ![i] = c]
      BY <1>3, <2>1, <2>8 DEF Arrives
    <3> QED
      BY <2>1, <2>6, <2>8, <3>1
  <2> QED
    BY <2>7, <2>8
<1>4. CASE f = "json"
  <2>1. Written(f, v) = HashToJson(v) /\ Understood(f, s) = HashFromJson(s) /\ MultihashOK(v)
    BY <1>4 DEF Written, Understood, IsValue
  <2>2. HashFromJson(HashToJson(v)) = v
    BY <2>1, JsonForm
  <2> QED
    BY <1>4, <2>1, <2>2 DEF Arrives
<1>5. CASE f = "plain58"
  <2> DEFINE w == Base58Encode(v)
  <2>1. Written(f, v) = w /\ Understood(f, s) = Base58Decode(s) /\ v \in Seq(0..255)
    BY <1>5 DEF Written, Understood, IsValue
  <2>2. w \in Seq(0..57) /\ Base58Decode(w) = v
    BY <2>1, Base58Form
  <2> HIDE DEF w
  <2>3. \A i \in DOMAIN w, c \in Stray : Base58Decode([w EXCEPT ![i] = c]) = NoHash
    BY <2>2, AllDigits DEF Base58Decode
  <2>4. CASE kind # "spoilt"
    BY <1>5, <2>1, <2>2, <2>4 DEF Arrives
  <2>5. CASE kind = "spoilt"
    <3>1. PICK i \in DOMAIN w, c \in Stray : s = [w EXCEPT ![i] = c]
      BY <1>5, <2>1, <2>5 DEF Arrives
    <3> QED
      BY <2>1, <2>3, <2>5, <3>1
  <2> QED
    BY <2>4, <2>5
<1> QED
  BY <1>1, <1>2, <1>3, <1>4, <1>5 DEF Forms

LEMMA HashInvFirst == HashInit => HashInv
<1> SUFFICES ASSUME HashInit PROVE HashInv
  OBVIOUS
<1>1. CASE \E bytes \in Plain : HashStart("plain58", bytes)
  <2>1. PICK bytes \in Plain : HashStart("plain58", bytes)
    BY <1>1
  <2>2. bytes \in Seq(0..255)
    BY HashAssumption DEF HashAssumption
  <2> QED
    BY <2>1, <2>2 DEF HashStart, HashInv, IsValue, Forms
<1>2. CASE \E f \in Forms \ {"plain58"}, m \in Multihashes : HashStart(f, m)
  <2>1. PICK f \in Forms \ {"plain58"}, m \in Multihashes : HashStart(f, m)
    BY <1>2
  <2>2. MultihashOK(m)
    BY MultihashesAreOK
  <2> QED
    BY <2>1, <2>2 DEF HashStart, HashInv, IsValue
<1> QED
  BY <1>1, <1>2 DEF HashInit

LEMMA HashInvNext == HashInv /\ [HashNext]_hashVars => HashInv'
<1> SUFFICES ASSUME HashInv, [HashNext]_hashVars PROVE HashInv'
  OBVIOUS
<1>1. CASE Write
  <2>1. carried' = Written(form, original) /\ damage' = "none" /\ reread = Unread
    BY <1>1 DEF Write, Written, HashInv
  <2>2. Arrives(form, original, carried', "none")
    BY <2>1 DEF Arrives
  <2> QED
    BY <1>1, <2>1, <2>2 DEF Write, HashInv
<1>2. CASE Damage
  <2>1. /\ damage = "none" /\ reread = Unread /\ carried = Written(form, original)
        /\ UNCHANGED <<form, original, reread>>
    BY <1>2 DEF Damage, HashInv, Arrives
  <2>2. /\ damage' \in {"cut", "resized", "longer", "spoilt"}
        /\ Arrives(form, original, carried', damage')
    <3>1. CASE /\ form # "json" /\ carried # <<>>
               /\ carried' = Front(carried) /\ damage' = "cut"
      BY <2>1, <3>1 DEF Arrives
    <3>2. CASE /\ form = "json"
               /\ LET n == Len(carried.hash)
                  IN \E m \in {0, n - 1, n + 1, 2 * n} :
                        carried' = [carried EXCEPT !.hash = SubSeq(@ \o @, 1, m)]
               /\ damage' = "resized"
      <4>1. carried = HashToJson(original) /\ MultihashOK(original)
        BY <2>1, <3>2 DEF Written, HashInv, IsValue
      <4> DEFINE j == HashToJson(original)
      <4> DEFINE n == Len(j.hash)
      <4>2. PICK m \in {0, n - 1, n + 1, 2 * n} :
              carried' = [j EXCEPT !.hash = SubSeq(@ \o @, 1, m)]
        BY <3>2, <4>1
      <4>3. \A a \in {0, n - 1, n + 1, 2 * n} :
              HashFromJson([j EXCEPT !.hash = SubSeq(@ \o @, 1, a)]) = NoHash
        BY <4>1, JsonForm
      <4> HIDE DEF j, n
      <4>4. HashFromJson(carried') = NoHash
        BY <4>2, <4>3
      <4> QED
        BY <3>2, <4>4 DEF Arrives
    <3>3. CASE /\ form \in {"bytes", "hex"}
               /\ carried' = Append(carried, 1) /\ damage' = "longer"
      BY <2>1, <3>3 DEF Arrives
    <3>4. CASE /\ form \in {"hex", "base58", "plain58"}
               /\ \E i \in DOMAIN carried, c \in Stray : carried' = [carried EXCEPT ![i] = c]
               /\ damage' = "spoilt"
      BY <2>1, <3>4 DEF Arrives
    <3> QED
      BY <1>2, <3>1, <3>2, <3>3, <3>4 DEF Damage
  <2> QED
    BY <2>1, <2>2 DEF HashInv
<1>3. CASE Read
  <2>1. reread' = Understood(form, carried) /\ damage # "unwritten"
    BY <1>3 DEF Read, Understood
  <2> QED
    BY <1>3, <2>1 DEF Read, HashInv
<1>4. CASE UNCHANGED hashVars
  BY <1>4 DEF hashVars, HashInv
<1> QED
  BY <1>1, <1>2, <1>3, <1>4 DEF HashNext

LEMMA HashInvMeans == HashInv => HashSurvives
<1> SUFFICES ASSUME HashInv, reread # Unread
             PROVE  /\ damage \in {"none", "longer"} => reread = original
                    /\ damage \in {"cut", "resized"} /\ form # "plain58" => reread = NoHash
                    /\ damage = "spoilt" /\ reread # NoHash =>
                          form = "hex" /\ Slips(original, carried, reread)
  BY DEF HashSurvives, Slips
<1>1. /\ form \in Forms /\ IsValue(form, original)
      /\ damage \in {"none", "cut", "resized", "longer", "spoilt"}
      /\ Arrives(form, original, carried, damage) /\ reread = Understood(form, carried)
  BY DEF HashInv
<1> QED
  BY <1>1, FormSurvives

\* Whatever multihash or plain bytes are written, in whatever form, they are
\* read back as they were, or the damage is noticed, but for a character of the
\* digest in hex that std::stoi (multihash.hpp:123) passes over: that costs one
\* byte of the digest and no more.
THEOREM HashesSurvive == HashSpec => []HashSurvives
<1>1. HashSpec => []HashInv
  BY HashInvFirst, HashInvNext, PTL DEF HashSpec
<1> QED
  BY <1>1, HashInvMeans, PTL


-----------------------------------------------------------------------------
(* Versions. The loop passes the parts of both texts in step. What a part is *)
(* worth is a matter of ParseLong; that it meets every part once, in order,  *)
(* is not.                                                                   *)

LEMMA NextSeparatorIs ==
    ASSUME NEW s, Len(s) \in Nat, NEW start \in 1..(Len(s) + 1)
    PROVE  /\ NextSeparator(s, start) \in start..(Len(s) + 1)
           /\ NextSeparator(s, start) = Len(s) + 1 \/ s[NextSeparator(s, start)] = Separator
           /\ \A j \in start..(NextSeparator(s, start) - 1) : s[j] # Separator
<1> DEFINE n == Len(s)
<1> DEFINE T == {i \in Nat : i \in start..(n + 1) /\ (i = n + 1 \/ s[i] = Separator)}
<1>1. n + 1 \in T
  OBVIOUS
<1>2. PICK m \in T : \A i \in T : m <= i
  <2> HIDE DEF T
  <2>1. T \in SUBSET Nat
    BY DEF T
  <2> QED
    BY <1>1, <2>1, LeastElement
<1>3. m \in start..(n + 1) /\ (m = n + 1 \/ s[m] = Separator)
  BY <1>2
<1>4. ASSUME NEW j \in start..(m - 1) PROVE s[j] # Separator
  <2>1. j \in Nat /\ j \in start..(n + 1) /\ j < m
    BY <1>3
  <2>2. j \notin T
    <3> HIDE DEF T
    <3> QED
      BY <1>2, <1>3, <2>1
  <2> QED
    BY <2>1, <2>2
<1> QED
  BY <1>3, <1>4 DEF NextSeparator

\* The remainder of a division, where the divisor is no number in particular.
LEMMA RemainderIs ==
    ASSUME NEW m \in Nat, m > 0
    PROVE  /\ \A x \in Int : x % m \in Int
           /\ \A x \in 0..(m - 1) : x % m = x
OBVIOUS

LEMMA AsLongIs ==
    ASSUME NEW x \in Int
    PROVE  AsLong(x) \in Int /\ (x \in 0..LongMax => AsLong(x) = x)
<1> DEFINE m == 2 * (LongMax + 1)
<1>1. LongMax \in Nat /\ m \in Nat /\ m > 0
  BY VersionsAssumption DEF VersionsAssumption
<1>2. AsLong(x) = ((x + LongMax + 1) % m) - (LongMax + 1)
  BY DEF AsLong
<1>3. x + LongMax + 1 \in Int /\ (x \in 0..LongMax => x + LongMax + 1 \in 0..(m - 1))
  BY <1>1
<1> HIDE DEF m
<1>4. (x + LongMax + 1) % m \in Int
  BY <1>1, <1>3, RemainderIs
<1>5. x \in 0..LongMax => (x + LongMax + 1) % m = x + LongMax + 1
  BY <1>1, <1>3, RemainderIs
<1> QED
  BY <1>1, <1>2, <1>4, <1>5

Held == [rv : Int, any : BOOLEAN]

\* What ParseLong's loop holds after every character.
Reads(read, s, start, n, kept) ==
    /\ read[0] = [rv |-> 0, any |-> FALSE]
    /\ \A k \in 0..n : read[k] \in Held
    /\ \A k \in 1..n : read[k] = AddDigit(read[k - 1], s[start + k - 1], kept)

HasReads(s, start, n, kept) ==
    \E read : Reads(read, s, start, n, kept) /\ LongRead(s, start, start + n, kept) = read[n]

LEMMA ReadsExist ==
    ASSUME NEW kept \in BOOLEAN, NEW s, NEW start \in Int, NEW n \in Nat,
           \A k \in 1..n : s[start + k - 1] \in 0..11
    PROVE  HasReads(s, start, n, kept)
<1> DEFINE first == [rv |-> 0, any |-> FALSE]
<1> DEFINE step == [k \in 1..n |-> [x \in Held |-> AddDigit(x, s[start + k - 1], kept)]]
<1>1. ASSUME NEW x \in Held, NEW c \in 0..11 PROVE AddDigit(x, c, kept) \in Held
  <2>1. x.rv * 10 + c \in Int
    BY DEF Held
  <2>2. AsLong(x.rv * 10 + c) \in Int
    BY <2>1, AsLongIs
  <2> HIDE DEF Held
  <2>3. [rv |-> AsLong(x.rv * 10 + c), any |-> TRUE] \in Held
    BY <2>2 DEF Held
  <2> QED
    BY <2>3 DEF AddDigit
<1>2. step \in Steps(n, Held) /\ first \in Held
  <2>1. step \in Steps(n, Held)
    <3> HIDE DEF Held
    <3> QED
      BY <1>1 DEF Steps
  <2> QED
    BY <2>1 DEF Held
<1>3. PICK f \in [0..n -> Held] : Follows(f, n, first, step)
  <2> HIDE DEF step, first
  <2> QED
    BY <1>2, PrimitiveRecursion
<1> HIDE DEF first
<1> DEFINE Rec(g) == [k \in 0..n |-> IF k = 0 THEN first ELSE AddDigit(g[k - 1], s[start + k - 1], kept)]
<1>4. f = Rec(f)
  <2>1. \A k \in 1..n : f[k - 1] \in Held
    OBVIOUS
  <2> HIDE DEF Held
  <2>2. \A k \in 1..n : step[k][f[k - 1]] = AddDigit(f[k - 1], s[start + k - 1], kept)
    BY <2>1
  <2> HIDE DEF step
  <2>3. f = [k \in 0..n |-> IF k = 0 THEN first ELSE step[k][f[k - 1]]]
    BY <1>3 DEF Follows
  <2>4. \A k \in 0..n : k # 0 => k \in 1..n
    OBVIOUS
  <2> QED
    BY <2>2, <2>3, <2>4
<1> DEFINE read == CHOOSE g : g = Rec(g)
<1>5. read = Rec(read)
  <2> HIDE DEF Rec
  <2> QED
    BY <1>4
<1>6. LongRead(s, start, start + n, kept) = read[n]
  <2>1. (start + n) - start = n
    OBVIOUS
  <2> QED
    BY <2>1 DEF LongRead, first
<1> HIDE DEF read, step
<1>7. read[0] = first /\ \A k \in 1..n : read[k] = AddDigit(read[k - 1], s[start + k - 1], kept)
  <2>1. 0 \in 0..n /\ \A k \in 1..n : k \in 0..n /\ k # 0
    OBVIOUS
  <2> QED
    BY <1>5, <2>1
<1>8. \A k \in 0..n : read[k] \in Held
  <2> DEFINE T == {k \in Nat : k <= n => read[k] \in Held}
  <2>1. 0 \in T
    BY <1>2, <1>7
  <2>2. ASSUME NEW k \in Nat, k \in T PROVE k + 1 \in T
    <3> SUFFICES ASSUME k + 1 <= n PROVE read[k + 1] \in Held
      OBVIOUS
    <3>1. k + 1 \in 1..n /\ (k + 1) - 1 = k /\ read[k] \in Held
      BY <2>2
    <3>2. s[start + (k + 1) - 1] \in 0..11
      BY <3>1
    <3> HIDE DEF Held
    <3> QED
      BY <1>1, <1>7, <3>1, <3>2
  <2> HIDE DEF T
  <2>3. Nat \subseteq T
    BY <2>1, <2>2, Induction
  <2> QED
    BY <2>3 DEF T
<1> QED
  BY <1>6, <1>7, <1>8 DEF HasReads, Reads, first

\* The decimal number in the first characters.
Decimals(number, s, start, n) ==
    /\ number[0] = 0
    /\ \A k \in 0..n : number[k] \in Nat
    /\ \A k \in 1..n : number[k] = IF s[start + k - 1] <= 9 THEN number[k - 1] * 10 + s[start + k - 1]
                                   ELSE number[k - 1]

HasDecimals(s, start, n) ==
    \E number : Decimals(number, s, start, n) /\ Decimal(s, start, start + n) = number[n]

LEMMA DecimalsExist ==
    ASSUME NEW s, NEW start \in Int, NEW n \in Nat, \A k \in 1..n : s[start + k - 1] \in 0..11
    PROVE  HasDecimals(s, start, n)
<1> DEFINE add(x, c) == IF c <= 9 THEN x * 10 + c ELSE x
<1> DEFINE step == [k \in 1..n |-> [x \in Nat |-> add(x, s[start + k - 1])]]
<1>1. ASSUME NEW x \in Nat, NEW c \in 0..11 PROVE add(x, c) \in Nat
  OBVIOUS
<1> HIDE DEF add
<1>2. step \in Steps(n, Nat) /\ 0 \in Nat
  BY <1>1 DEF Steps
<1>3. PICK f \in [0..n -> Nat] : Follows(f, n, 0, step)
  <2> HIDE DEF step
  <2> QED
    BY <1>2, PrimitiveRecursion
<1> DEFINE Rec(g) == [k \in 0..n |-> IF k = 0 THEN 0 ELSE add(g[k - 1], s[start + k - 1])]
<1>4. f = Rec(f)
  <2>1. \A k \in 1..n : f[k - 1] \in Nat
    OBVIOUS
  <2>2. \A k \in 1..n : step[k][f[k - 1]] = add(f[k - 1], s[start + k - 1])
    BY <2>1
  <2> HIDE DEF step
  <2>3. f = [k \in 0..n |-> IF k = 0 THEN 0 ELSE step[k][f[k - 1]]]
    BY <1>3 DEF Follows
  <2>4. \A k \in 0..n : k # 0 => k \in 1..n
    OBVIOUS
  <2> QED
    BY <2>2, <2>3, <2>4
<1> DEFINE number == CHOOSE g : g = Rec(g)
<1>5. number = Rec(number)
  <2> HIDE DEF Rec
  <2> QED
    BY <1>4
<1>6. Decimal(s, start, start + n) = number[n]
  <2>1. (start + n) - start = n
    OBVIOUS
  <2> QED
    BY <2>1 DEF Decimal, add
<1> HIDE DEF number, step
<1>7. number[0] = 0 /\ \A k \in 1..n : number[k] = add(number[k - 1], s[start + k - 1])
  <2>1. 0 \in 0..n /\ \A k \in 1..n : k \in 0..n /\ k # 0
    OBVIOUS
  <2> QED
    BY <1>5, <2>1
<1>8. \A k \in 0..n : number[k] \in Nat
  <2> DEFINE T == {k \in Nat : k <= n => number[k] \in Nat}
  <2>1. 0 \in T
    BY <1>7
  <2>2. ASSUME NEW k \in Nat, k \in T PROVE k + 1 \in T
    <3> SUFFICES ASSUME k + 1 <= n PROVE number[k + 1] \in Nat
      OBVIOUS
    <3>1. k + 1 \in 1..n /\ (k + 1) - 1 = k /\ number[k] \in Nat
      BY <2>2
    <3>2. s[start + (k + 1) - 1] \in 0..11
      BY <3>1
    <3> QED
      BY <1>1, <1>7, <3>1, <3>2
  <2> HIDE DEF T
  <2>3. Nat \subseteq T
    BY <2>1, <2>2, Induction
  <2> QED
    BY <2>3 DEF T
<1> QED
  BY <1>6, <1>7, <1>8 DEF HasDecimals, Decimals, add

\* A number grows with its characters.
LEMMA DecimalsGrow ==
    ASSUME NEW s, NEW start \in Int, NEW n \in Nat, \A k \in 1..n : s[start + k - 1] \in 0..11,
           NEW number, Decimals(number, s, start, n)
    PROVE  \A k \in 0..n : number[k] <= number[n]
<1> DEFINE T == {j \in Nat : j <= n => number[n - j] <= number[n]}
<1>1. \A k \in 0..n : number[k] \in Nat
  BY DEF Decimals
<1>2. 0 \in T
  BY <1>1
<1>3. ASSUME NEW j \in Nat, j \in T PROVE j + 1 \in T
  <2> SUFFICES ASSUME j + 1 <= n PROVE number[n - (j + 1)] <= number[n]
    OBVIOUS
  <2>1. /\ n - j \in 1..n /\ n - j \in 0..n /\ n - (j + 1) \in 0..n /\ (n - j) - 1 = n - (j + 1)
        /\ n \in 0..n /\ number[n - j] <= number[n]
    BY <1>3
  <2> DEFINE c == s[start + (n - j) - 1]
  <2>2. c \in 0..11 /\ number[n - j] = IF c <= 9 THEN number[n - (j + 1)] * 10 + c ELSE number[n - (j + 1)]
    BY <2>1 DEF Decimals
  <2> HIDE DEF c
  <2>3. number[n - j] \in Nat /\ number[n - (j + 1)] \in Nat /\ number[n] \in Nat
    BY <1>1, <2>1
  <2>4. number[n - (j + 1)] <= number[n - j]
    BY <2>2, <2>3
  <2> QED
    BY <2>1, <2>3, <2>4
<1>4. ASSUME NEW k \in 0..n PROVE number[k] <= number[n]
  <2>1. n - k \in Nat /\ n - k <= n /\ n - (n - k) = k
    OBVIOUS
  <2>2. n - k \in T
    <3> HIDE DEF T
    <3> QED
      BY <1>2, <1>3, <2>1, Induction
  <2> QED
    BY <2>1, <2>2
<1> QED
  BY <1>4

\* ParseLong() gives an integer, and the number in the text if that fits.
LEMMA ParseLongIs ==
    ASSUME NEW kept \in BOOLEAN, NEW s, NEW start \in Int, NEW end \in Int, start <= end,
           \A i \in start..(end - 1) : s[i] \in 0..11
    PROVE  /\ ParseLong(s, start, end, kept) \in Int
           /\ Decimal(s, start, end) \in Nat
           /\ (\A i \in start..(end - 1) : ~(s[i] <= 9)) => ParseLong(s, start, end, kept) = -1
           /\ (\E i \in start..(end - 1) : s[i] <= 9) /\ Decimal(s, start, end) <= LongMax
                 => ParseLong(s, start, end, kept) = Decimal(s, start, end)
<1> DEFINE n == end - start
<1>1. n \in Nat /\ start + n = end
  OBVIOUS
<1>2. ASSUME NEW k \in 1..n PROVE start + k - 1 \in start..(end - 1) /\ s[start + k - 1] \in 0..11
  <2>1. start + k - 1 \in start..(end - 1)
    BY <1>1
  <2> QED
    BY <2>1
<1> HIDE DEF n
<1>3. PICK read : Reads(read, s, start, n, kept) /\ LongRead(s, start, end, kept) = read[n]
  <2>1. HasReads(s, start, n, kept)
    BY <1>1, <1>2, ReadsExist
  <2> QED
    BY <1>1, <2>1 DEF HasReads
<1>4. PICK number : Decimals(number, s, start, n) /\ Decimal(s, start, end) = number[n]
  <2>1. HasDecimals(s, start, n)
    BY <1>1, <1>2, DecimalsExist
  <2> QED
    BY <1>1, <2>1 DEF HasDecimals
<1>5. /\ read[0] = [rv |-> 0, any |-> FALSE]
      /\ \A k \in 0..n : read[k].rv \in Int /\ read[k].any \in BOOLEAN
  BY <1>3 DEF Reads, Held
<1>6. ASSUME NEW k \in 1..n
      PROVE  LET c == s[start + k - 1]
             IN read[k] = IF c > 9 \/ (kept /\ read[k - 1].rv < 0) THEN read[k - 1]
                          ELSE [rv |-> AsLong(read[k - 1].rv * 10 + c), any |-> TRUE]
  BY <1>3 DEF Reads, AddDigit
<1> DEFINE SeenDigit(k) == \E i \in start..(start + k - 1) : s[i] <= 9
<1> DEFINE T == {k \in Nat : k <= n => /\ read[k].any <=> SeenDigit(k)
                                       /\ ~read[k].any => read[k].rv = 0}
<1>7. 0 \in T
  BY <1>5
<1>8. ASSUME NEW k \in Nat, k \in T PROVE k + 1 \in T
  <2> SUFFICES ASSUME k + 1 <= n
               PROVE  (read[k + 1].any <=> SeenDigit(k + 1)) /\ (~read[k + 1].any => read[k + 1].rv = 0)
    OBVIOUS
  <2>1. /\ k + 1 \in 1..n /\ k \in 0..n /\ (k + 1) - 1 = k /\ start + (k + 1) - 1 = start + k
        /\ (read[k].any <=> SeenDigit(k)) /\ (~read[k].any => read[k].rv = 0)
    BY <1>1, <1>8
  <2> DEFINE c == s[start + k]
  <2>2. c \in 0..11
    BY <1>2, <2>1
  <2>3. SeenDigit(k + 1) <=> SeenDigit(k) \/ c <= 9
    <3>1. start..(start + (k + 1) - 1) = (start..(start + k - 1)) \cup {start + k}
      BY <2>1
    <3> QED
      BY <3>1
  <2>4. read[k + 1] = IF c > 9 \/ (kept /\ read[k].rv < 0) THEN read[k]
                      ELSE [rv |-> AsLong(read[k].rv * 10 + c), any |-> TRUE]
    BY <1>6, <2>1
  <2> HIDE DEF c, SeenDigit
  <2>5. CASE c > 9
    BY <2>1, <2>2, <2>3, <2>4, <2>5
  <2>6. CASE c <= 9
    <3>1. CASE kept /\ read[k].rv < 0
      <4>1. read[k].any /\ read[k + 1] = read[k]
        BY <2>1, <2>4, <3>1
      <4> QED
        BY <2>1, <2>3, <4>1
    <3>2. CASE ~(kept /\ read[k].rv < 0)
      <4>1. ~(c > 9)
        BY <2>2, <2>6
      <4>2. read[k + 1] = [rv |-> AsLong(read[k].rv * 10 + c), any |-> TRUE]
        BY <2>4, <3>2, <4>1
      <4>3. read[k + 1].any
        BY <4>2
      <4> QED
        BY <2>3, <2>6, <4>3
    <3> QED
      BY <3>1, <3>2
  <2> QED
    BY <2>2, <2>5, <2>6
<1>9. read[n].any <=> \E i \in start..(end - 1) : s[i] <= 9
  <2>1. n \in T
    <3> HIDE DEF T
    <3> QED
      BY <1>1, <1>7, <1>8, Induction
  <2> QED
    BY <1>1, <2>1
<1> HIDE DEF T, SeenDigit
<1>10. \A k \in 0..n : number[k] \in Nat
  BY <1>4 DEF Decimals
<1>11. ASSUME number[n] <= LongMax PROVE read[n].rv = number[n]
  <2> DEFINE E == {k \in Nat : k <= n => read[k].rv = number[k]}
  <2>1. 0 \in E
    BY <1>4, <1>5 DEF Decimals
  <2>2. ASSUME NEW k \in Nat, k \in E PROVE k + 1 \in E
    <3> SUFFICES ASSUME k + 1 <= n PROVE read[k + 1].rv = number[k + 1]
      OBVIOUS
    <3>1. /\ k + 1 \in 1..n /\ k \in 0..n /\ k + 1 \in 0..n /\ n \in 0..n /\ (k + 1) - 1 = k
          /\ start + (k + 1) - 1 = start + k /\ read[k].rv = number[k]
      BY <1>1, <2>2
    <3> DEFINE c == s[start + k]
    <3>2. c \in 0..11
      BY <1>2, <3>1
    <3>3. number[k + 1] = IF c <= 9 THEN number[k] * 10 + c ELSE number[k]
      BY <1>4, <3>1 DEF Decimals
    <3>4. read[k + 1] = IF c > 9 \/ (kept /\ read[k].rv < 0) THEN read[k]
                        ELSE [rv |-> AsLong(read[k].rv * 10 + c), any |-> TRUE]
      BY <1>6, <3>1
    <3>5. number[k + 1] \in 0..LongMax /\ number[k] \in Nat
      <4>1. number[k + 1] <= number[n]
        BY <1>1, <1>2, <1>4, <3>1, DecimalsGrow
      <4>2. number[k + 1] \in Nat /\ number[k] \in Nat /\ number[n] \in Nat /\ LongMax \in Nat
        BY <1>10, <3>1, VersionsAssumption DEF VersionsAssumption
      <4> QED
        BY <1>11, <4>1, <4>2
    <3> HIDE DEF c
    <3>6. CASE c > 9
      BY <3>1, <3>2, <3>3, <3>4, <3>6
    <3>7. CASE c <= 9
      <4>1. ~(c > 9 \/ (kept /\ read[k].rv < 0)) /\ number[k + 1] = number[k] * 10 + c
        BY <3>1, <3>2, <3>3, <3>5, <3>7
      <4>2. AsLong(number[k] * 10 + c) = number[k + 1]
        BY <3>5, <4>1, AsLongIs
      <4> QED
        BY <3>1, <3>4, <4>1, <4>2
    <3> QED
      BY <3>2, <3>6, <3>7
  <2>3. n \in E
    <3> HIDE DEF E
    <3> QED
      BY <1>1, <2>1, <2>2, Induction
  <2> QED
    BY <1>1, <2>3
<1>12. ParseLong(s, start, end, kept) = IF read[n].any THEN read[n].rv ELSE -1
  BY <1>3 DEF ParseLong
<1>13. n \in 0..n
  BY <1>1
<1>14. number[n] \in Nat /\ read[n].rv \in Int
  BY <1>5, <1>10, <1>13
<1> QED
  BY <1>4, <1>9, <1>11, <1>12, <1>14

-----------------------------------------------------------------------------
\* How many of the places in B lie before b.
Rank(B, b) == Cardinality({x \in B : x < b})

LEMMA RankIs ==
    ASSUME NEW n \in Nat, NEW B \in SUBSET (1..n), NEW b
    PROVE  /\ IsFiniteSet(B) /\ Cardinality(B) \in Nat /\ IsFiniteSet({x \in B : x < b})
           /\ Rank(B, b) \in 0..Cardinality(B)
           /\ (\A x \in B : x < b) => Rank(B, b) = Cardinality(B)
<1>1. IsFiniteSet(1..n)
  BY FS_Interval
<1>2. IsFiniteSet(B)
  BY <1>1, FS_Subset
<1> DEFINE C == {x \in B : x < b}
<1>3. C \in SUBSET B
  OBVIOUS
<1>4. IsFiniteSet(C) /\ Cardinality(C) <= Cardinality(B)
  BY <1>2, <1>3, FS_Subset
<1>5. Cardinality(C) \in Nat /\ Cardinality(B) \in Nat
  BY <1>2, <1>4, FS_CardinalityType
<1>6. (\A x \in B : x < b) => C = B
  OBVIOUS
<1> HIDE DEF C
<1> QED
  BY <1>2, <1>4, <1>5, <1>6 DEF Rank, C

\* From place a on, i is the next one, and `at` lies behind it and before the next but one.
LEMMA NextRank ==
    ASSUME NEW n \in Nat, NEW B \in SUBSET (1..n), NEW a \in Int, NEW i \in B, a <= i,
           \A x \in B : ~(a <= x /\ x < i), NEW c \in Int, i < c, \A x \in B : ~(i < x /\ x < c)
    PROVE  Rank(B, i) = Rank(B, a) /\ Rank(B, c) = Rank(B, a) + 1 /\ Rank(B, c) <= Cardinality(B)
<1>1. B \subseteq Int
  OBVIOUS
<1>2. {x \in B : x < i} = {x \in B : x < a}
  <2>1. ASSUME NEW x \in B PROVE x < i <=> x < a
    <3>1. x \in Int /\ i \in Int /\ ~(a <= x /\ x < i)
      BY <1>1
    <3> QED
      BY <3>1
  <2> QED
    BY <2>1
<1>3. {x \in B : x < c} = {x \in B : x < a} \cup {i}
  <2>1. ASSUME NEW x \in B PROVE x < c <=> (x < a \/ x = i)
    <3>1. x \in Int /\ i \in Int /\ ~(a <= x /\ x < i) /\ ~(i < x /\ x < c)
      BY <1>1
    <3> QED
      BY <3>1
  <2> QED
    BY <2>1
<1>4. i \notin {x \in B : x < a}
  BY <1>1
<1>5. IsFiniteSet({x \in B : x < a})
  BY RankIs
<1>6. Cardinality({x \in B : x < a} \cup {i}) = Cardinality({x \in B : x < a}) + 1
  BY <1>4, <1>5, FS_AddElement
<1>7. Rank(B, c) <= Cardinality(B)
  <2>1. Rank(B, c) \in 0..Cardinality(B) /\ Cardinality(B) \in Nat
    BY RankIs
  <2> QED
    BY <2>1
<1> QED
  BY <1>2, <1>3, <1>6, <1>7 DEF Rank

\* Every place has a rank of its own.
LEMMA RanksDiffer ==
    ASSUME NEW n \in Nat, NEW B \in SUBSET (1..n), NEW i \in B
    PROVE  /\ Rank(B, i) \in 0..(Cardinality(B) - 1) /\ Cardinality(B) \in Nat
           /\ \A j \in B : Rank(B, j) = Rank(B, i) => j = i
<1>1. ASSUME NEW p \in B, NEW q \in B, p < q PROVE Rank(B, p) < Rank(B, q)
  <2> DEFINE C == {x \in B : x < p}
  <2> DEFINE D == {x \in B : x < q}
  <2>1. B \subseteq Int
    OBVIOUS
  <2>2. C \cup {p} \in SUBSET D /\ p \notin C
    <3>1. ASSUME NEW x \in B, x < p PROVE x < q
      <4>1. x \in Int /\ p \in Int /\ q \in Int
        BY <2>1
      <4> QED
        BY <1>1, <3>1, <4>1
    <3>2. ~(p < p)
      BY <2>1
    <3> QED
      BY <1>1, <3>1, <3>2
  <2>3. IsFiniteSet(C) /\ IsFiniteSet(D)
    BY RankIs
  <2> HIDE DEF C, D
  <2>4. Cardinality(C \cup {p}) = Cardinality(C) + 1
    BY <2>2, <2>3, FS_AddElement
  <2>5. Cardinality(C \cup {p}) <= Cardinality(D)
    BY <2>2, <2>3, FS_Subset
  <2>6. Cardinality(C) \in Nat /\ Cardinality(D) \in Nat
    BY <2>3, FS_CardinalityType
  <2>7. Cardinality(C) < Cardinality(D)
    BY <2>4, <2>5, <2>6
  <2> QED
    BY <2>7 DEF Rank, C, D
<1>2. \A b \in B : Rank(B, b) \in 0..Cardinality(B)
  BY RankIs
<1>3. ASSUME NEW j \in B, Rank(B, j) = Rank(B, i) PROVE j = i
  <2>1. Rank(B, j) \in Int /\ Rank(B, i) \in Int
    BY <1>2
  <2>2. ~(j < i) /\ ~(i < j)
    BY <1>1, <1>3, <2>1
  <2>3. i \in Int /\ j \in Int
    OBVIOUS
  <2> QED
    BY <2>2, <2>3
<1>4. Rank(B, i) < Cardinality(B) /\ Cardinality(B) \in Nat
  <2> DEFINE C == {x \in B : x < i}
  <2>1. B \subseteq Int
    OBVIOUS
  <2>2. C \cup {i} \in SUBSET B /\ i \notin C
    BY <2>1
  <2>3. IsFiniteSet(C) /\ IsFiniteSet(B)
    BY RankIs
  <2> HIDE DEF C
  <2>4. Cardinality(C \cup {i}) = Cardinality(C) + 1
    BY <2>2, <2>3, FS_AddElement
  <2>5. Cardinality(C \cup {i}) <= Cardinality(B)
    BY <2>2, <2>3, FS_Subset
  <2>6. Cardinality(C) \in Nat /\ Cardinality(B) \in Nat
    BY <2>3, FS_CardinalityType
  <2>7. Cardinality(C) < Cardinality(B)
    BY <2>4, <2>5, <2>6
  <2> QED
    BY <2>6, <2>7 DEF Rank, C
<1> QED
  BY <1>2, <1>3, <1>4

LEMMA InOrderIs ==
    ASSUME NEW n \in Nat, NEW f, DOMAIN f \in SUBSET (1..n)
    PROVE  /\ Len(InOrder(f)) = Cardinality(DOMAIN f) /\ Cardinality(DOMAIN f) \in Nat
           /\ \A i \in DOMAIN f : InOrder(f)[Rank(DOMAIN f, i) + 1] = f[i]
<1> DEFINE B == DOMAIN f
<1> DEFINE m == Cardinality(B)
<1> DEFINE place(k) == CHOOSE b \in B : Rank(B, b) = k - 1
<1> DEFINE s == [k \in 1..m |-> f[place(k)]]
<1>1. InOrder(f) = s
  BY DEF InOrder, Rank
<1>2. m \in Nat
  BY RankIs
<1>3. ASSUME NEW i \in B PROVE s[Rank(B, i) + 1] = f[i]
  <2>1. Rank(B, i) \in 0..(m - 1) /\ \A j \in B : Rank(B, j) = Rank(B, i) => j = i
    BY RanksDiffer
  <2>2. Rank(B, i) + 1 \in 1..m /\ (Rank(B, i) + 1) - 1 = Rank(B, i)
    BY <1>2, <2>1
  <2>3. place(Rank(B, i) + 1) = i
    BY <2>1, <2>2
  <2> HIDE DEF place, m
  <2> QED
    BY <2>2, <2>3
<1>4. s = [k \in 1..m |-> s[k]]
  OBVIOUS
<1> HIDE DEF s, m
<1>5. Len(s) = m
  BY <1>2, <1>4, FunctionIsSequence
<1> QED
  BY <1>1, <1>2, <1>3, <1>5 DEF m

-----------------------------------------------------------------------------
\* The first k places of two lists agree.
Agree(p, q, k) == \A i \in 1..k : p[i] = q[i]

Ints(p) == Len(p) \in Nat /\ \A i \in 1..Len(p) : p[i] \in Int

LEMMA FirstDifference ==
    ASSUME NEW p, NEW q, Ints(p), Ints(q), NEW k \in Nat, k + 1 <= Len(p), k + 1 <= Len(q),
           Agree(p, q, k), p[k + 1] # q[k + 1]
    PROVE  OrderOf(p, q) = IF p[k + 1] < q[k + 1] THEN -1 ELSE 1
<1> DEFINE differs == {i \in 1..Len(p) : i <= Len(q) /\ p[i] # q[i]}
<1>1. k + 1 \in differs
  BY DEF Ints
<1>2. ASSUME NEW i \in differs PROVE k + 1 <= i
  <2>1. i \notin 1..k
    BY DEF Agree
  <2> QED
    BY <2>1 DEF Ints
<1>3. differs \subseteq Int
  BY DEF Ints
<1> HIDE DEF differs
<1>4. (CHOOSE i \in differs : \A j \in differs : i <= j) = k + 1
  <2>1. PICK i \in differs : \A j \in differs : i <= j
    BY <1>1, <1>2
  <2>2. \A i2 \in differs : (\A j \in differs : i2 <= j) => i2 = k + 1
    <3> TAKE i2 \in differs
    <3>1. i2 \in Int /\ k + 1 <= i2 /\ k + 1 \in Int
      BY <1>2, <1>3
    <3>2. (\A j \in differs : i2 <= j) => i2 <= k + 1
      BY <1>1
    <3> QED
      BY <3>1, <3>2
  <2> QED
    BY <1>1, <1>2, <2>2
<1>5. differs # {}
  BY <1>1
<1> QED
  BY <1>4, <1>5 DEF OrderOf, differs

LEMMA NoDifference ==
    ASSUME NEW p, NEW q, Ints(p), Ints(q), NEW k \in Nat, Agree(p, q, k),
           k <= Len(p), k <= Len(q), k = Len(p) \/ k = Len(q)
    PROVE  OrderOf(p, q) = IF Len(p) < Len(q) THEN -1 ELSE IF Len(p) > Len(q) THEN 1 ELSE 0
<1>1. {i \in 1..Len(p) : i <= Len(q) /\ p[i] # q[i]} = {}
  <2> SUFFICES ASSUME NEW i \in 1..Len(p), i <= Len(q), p[i] # q[i] PROVE FALSE
    OBVIOUS
  <2>1. i \in 1..k
    BY DEF Ints
  <2> QED
    BY <2>1 DEF Agree
<1> QED
  BY <1>1 DEF OrderOf

\* The opposite order is the order of the opposite.
LEMMA OrderTurns ==
    ASSUME NEW p, NEW q, Ints(p), Ints(q)
    PROVE  /\ OrderOf(p, q) = -OrderOf(q, p) /\ OrderOf(p, q) \in {-1, 0, 1}
<1> DEFINE T == {i \in Nat : i \in 1..Len(p) /\ i <= Len(q) /\ p[i] # q[i]}
<1>1. CASE T = {}
  <2> DEFINE k == IF Len(p) <= Len(q) THEN Len(p) ELSE Len(q)
  <2>1. k \in Nat /\ k <= Len(p) /\ k <= Len(q) /\ (k = Len(p) \/ k = Len(q))
    BY DEF Ints
  <2>2. Agree(p, q, k)
    <3> SUFFICES ASSUME NEW i \in 1..k, p[i] # q[i] PROVE FALSE
      BY DEF Agree
    <3>1. i \in T
      BY <2>1 DEF Ints
    <3> QED
      BY <1>1, <3>1
  <2>3. Agree(q, p, k)
    BY <2>2 DEF Agree
  <2> HIDE DEF k
  <2>4. OrderOf(p, q) = IF Len(p) < Len(q) THEN -1 ELSE IF Len(p) > Len(q) THEN 1 ELSE 0
    BY <2>1, <2>2, NoDifference
  <2>5. OrderOf(q, p) = IF Len(q) < Len(p) THEN -1 ELSE IF Len(q) > Len(p) THEN 1 ELSE 0
    BY <2>1, <2>3, NoDifference
  <2> QED
    BY <2>4, <2>5 DEF Ints
<1>2. CASE T # {}
  <2>1. T \in SUBSET Nat
    OBVIOUS
  <2>2. PICK m \in T : \A i \in T : m <= i
    <3> HIDE DEF T
    <3> QED
      BY <1>2, <2>1, LeastElement
  <2> DEFINE k == m - 1
  <2>3. k \in Nat /\ k + 1 = m /\ k + 1 <= Len(p) /\ k + 1 <= Len(q) /\ p[k + 1] # q[k + 1]
    BY <2>2
  <2>4. Agree(p, q, k)
    <3> SUFFICES ASSUME NEW i \in 1..k, p[i] # q[i] PROVE FALSE
      BY DEF Agree
    <3>1. i \in T /\ ~(m <= i)
      BY <2>3 DEF Ints
    <3> QED
      BY <2>2, <3>1
  <2>5. Agree(q, p, k)
    BY <2>4 DEF Agree
  <2>6. p[k + 1] \in Int /\ q[k + 1] \in Int
    BY <2>3 DEF Ints
  <2> HIDE DEF k, T
  <2>7. OrderOf(p, q) = IF p[k + 1] < q[k + 1] THEN -1 ELSE 1
    BY <2>3, <2>4, FirstDifference
  <2>8. OrderOf(q, p) = IF q[k + 1] < p[k + 1] THEN -1 ELSE 1
    BY <2>3, <2>5, FirstDifference
  <2> QED
    BY <2>3, <2>6, <2>7, <2>8
<1> QED
  BY <1>1, <1>2

\* Every number below the count is a rank.
LEMMA RanksFill ==
    ASSUME NEW n \in Nat, NEW B \in SUBSET (1..n), NEW k \in 0..(Cardinality(B) - 1)
    PROVE  \E b \in B : Rank(B, b) = k
<1> DEFINE m == Cardinality(B)
<1> DEFINE R == 0..(m - 1)
<1> DEFINE f == [b \in B |-> Rank(B, b)]
<1>1. m \in Nat /\ IsFiniteSet(B)
  BY RankIs
<1>2. f \in [B -> R]
  BY RanksDiffer
<1>3. \A i, j \in B : f[i] = f[j] => i = j
  BY RanksDiffer
<1>4. k \in R /\ IsFiniteSet(R) /\ Cardinality(R) = m
  <2>1. 0 \in Int /\ m - 1 \in Int /\ (0 > m - 1 <=> m = 0) /\ (m - 1) - 0 + 1 = m
    BY <1>1
  <2> HIDE DEF m
  <2>2. IsFiniteSet(R) /\ Cardinality(R) = IF 0 > m - 1 THEN 0 ELSE (m - 1) - 0 + 1
    BY ONLY <2>1, FS_Interval
  <2> QED
    BY <2>1, <2>2 DEF m
<1>5. \A b \in B : f[b] = Rank(B, b)
  OBVIOUS
<1> HIDE DEF f, R
<1>6. f \in Injection(B, R)
  BY <1>2, <1>3 DEF Injection, IsInjective
<1>7. f \in Surjection(B, R)
  BY <1>1, <1>4, <1>6, FS_Injection
<1>8. \E b \in B : f[b] = k
  BY <1>4, <1>7 DEF Surjection
<1> QED
  BY <1>5, <1>8

-----------------------------------------------------------------------------
\* What ParseLong makes of the part at b, and the parts that the loop stops at.
PartRead(s, kept, b) == ParseLong(s, b, NextSeparator(s, b), kept)

Marks(s, kept) == {b \in Begins(s) : PartRead(s, kept, b) # -1 \/ NextSeparator(s, b) >= Len(s)}

Listed(s, kept) == InOrder([b \in Marks(s, kept) |-> PartRead(s, kept, b)])

IsText(s) == s \in Seq(0..11)

LEMMA TextParts ==
    ASSUME NEW s, IsText(s), NEW kept \in BOOLEAN
    PROVE  /\ Len(s) \in Nat /\ Marks(s, kept) \in SUBSET (1..Len(s)) /\ Marks(s, kept) \subseteq Begins(s)
           /\ \A b \in Begins(s) : /\ b \in 1..Len(s) /\ NextSeparator(s, b) \in b..(Len(s) + 1)
                                   /\ PartRead(s, kept, b) \in Int
<1>1. Len(s) \in Nat /\ \A i \in 1..Len(s) : s[i] \in 0..11
  BY Elements DEF IsText
<1>2. Marks(s, kept) \in SUBSET (1..Len(s)) /\ Marks(s, kept) \subseteq Begins(s)
  BY DEF Marks, Begins
<1>3. ASSUME NEW b \in Begins(s)
      PROVE  b \in 1..Len(s) /\ NextSeparator(s, b) \in b..(Len(s) + 1) /\ PartRead(s, kept, b) \in Int
  <2>1. b \in 1..Len(s) /\ b \in 1..(Len(s) + 1)
    BY <1>1 DEF Begins
  <2>2. NextSeparator(s, b) \in b..(Len(s) + 1)
    BY <1>1, <2>1, NextSeparatorIs
  <2> DEFINE e == NextSeparator(s, b)
  <2>3. b \in Int /\ e \in Int /\ b <= e /\ \A i \in b..(e - 1) : i \in 1..Len(s)
    BY <1>1, <2>1, <2>2
  <2>4. \A i \in b..(e - 1) : s[i] \in 0..11
    BY <1>1, <2>3
  <2> HIDE DEF e
  <2>5. ParseLong(s, b, e, kept) \in Int
    BY <2>3, <2>4, ParseLongIs
  <2> QED
    BY <2>1, <2>2, <2>5 DEF PartRead, e
<1> QED
  BY <1>1, <1>2, <1>3

LEMMA ListedIs ==
    ASSUME NEW s, IsText(s), NEW kept \in BOOLEAN
    PROVE  /\ Ints(Listed(s, kept)) /\ Len(Listed(s, kept)) = Cardinality(Marks(s, kept))
           /\ \A b \in Marks(s, kept) :
                 Listed(s, kept)[Rank(Marks(s, kept), b) + 1] = PartRead(s, kept, b)
<1> DEFINE B == Marks(s, kept)
<1> DEFINE f == [b \in B |-> PartRead(s, kept, b)]
<1> DEFINE p == Listed(s, kept)
<1>1. Len(s) \in Nat /\ B \in SUBSET (1..Len(s)) /\ \A b \in B : PartRead(s, kept, b) \in Int
  BY TextParts
<1>2. p = InOrder(f)
  BY DEF Listed
<1>3. DOMAIN f = B /\ \A b \in B : f[b] = PartRead(s, kept, b)
  OBVIOUS
<1> HIDE DEF B, f, p
<1>4. /\ Len(p) = Cardinality(B) /\ Cardinality(B) \in Nat
      /\ \A b \in B : p[Rank(B, b) + 1] = PartRead(s, kept, b)
  <2>1. DOMAIN f \in SUBSET (1..Len(s))
    BY <1>1, <1>3
  <2>2. /\ Len(InOrder(f)) = Cardinality(DOMAIN f) /\ Cardinality(DOMAIN f) \in Nat
        /\ \A i \in DOMAIN f : InOrder(f)[Rank(DOMAIN f, i) + 1] = f[i]
    BY <1>1, <2>1, InOrderIs
  <2> QED
    BY <1>2, <1>3, <2>2
<1>5. ASSUME NEW i \in 1..Len(p) PROVE p[i] \in Int
  <2>1. i - 1 \in 0..(Cardinality(B) - 1) /\ (i - 1) + 1 = i
    BY <1>4
  <2>2. PICK b \in B : Rank(B, b) = i - 1
    BY <1>1, <2>1, RanksFill
  <2> QED
    BY <1>1, <1>4, <2>1, <2>2
<1> QED
  BY <1>4, <1>5 DEF Ints, B, p

\* The inner loop: from the beginning of a part on, it stops at the next of Marks.
NextMark(s, kept, i, b) ==
    /\ b \in Marks(s, kept) /\ i <= b /\ \A x \in Marks(s, kept) : ~(i <= x /\ x < b)
    /\ NextPart(s, i, kept) = [is |-> PartRead(s, kept, b), at |-> NextSeparator(s, b) + 1]
    /\ NextSeparator(s, b) + 1 \in Int /\ b < NextSeparator(s, b) + 1
    /\ \A x \in Marks(s, kept) : ~(b < x /\ x < NextSeparator(s, b) + 1)
    /\ NextSeparator(s, b) + 1 > Len(s) \/ NextSeparator(s, b) + 1 \in Begins(s)

LEMMA NextMarkExists ==
    ASSUME NEW s, IsText(s), NEW kept \in BOOLEAN, NEW i \in Begins(s)
    PROVE  \E b \in Marks(s, kept) : NextMark(s, kept, i, b)
<1> DEFINE n == Len(s)
<1> DEFINE B == Marks(s, kept)
<1> DEFINE from == {x \in Begins(s) : x >= i}
<1>1. /\ n \in Nat /\ B \in SUBSET (1..n) /\ B \subseteq Begins(s) /\ i \in 1..n
      /\ \A b \in Begins(s) : b \in 1..n /\ NextSeparator(s, b) \in b..(n + 1)
  BY TextParts
<1>2. PICK z \in from : \A x \in from : z >= x
  <2>1. from \in SUBSET (1..n) /\ from # {}
    <3>1. i >= i
      BY <1>1
    <3>2. i \in from
      BY <3>1
    <3>3. \A x \in from : x \in 1..n
      BY <1>1
    <3> HIDE DEF from
    <3> QED
      BY <3>2, <3>3
  <2> HIDE DEF from, n
  <2> QED
    BY <1>1, <2>1, HasMax
<1>3. NextSeparator(s, z) >= n
  <2> SUFFICES ASSUME NextSeparator(s, z) < n PROVE FALSE
    BY <1>1, <1>2
  <2> DEFINE e == NextSeparator(s, z)
  <2>1. z \in 1..n /\ z \in 1..(n + 1) /\ e \in z..(n + 1) /\ e < n
    BY <1>1, <1>2
  <2>2. s[e] = Separator
    <3>1. e = n + 1 \/ s[e] = Separator
      BY <1>1, <2>1, NextSeparatorIs
    <3> QED
      BY <1>1, <2>1, <3>1
  <2> HIDE DEF e
  <2>3. e + 1 \in 1..n /\ (e + 1) - 1 = e /\ e + 1 >= i /\ ~(z >= e + 1)
    BY <1>1, <1>2, <2>1
  <2>4. e + 1 \in from
    BY <2>2, <2>3 DEF Begins
  <2> QED
    BY <1>2, <2>3, <2>4
<1>4. z \in B /\ z >= i
  BY <1>2, <1>3 DEF Marks
<1> DEFINE stops == {j \in i..n : /\ j = i \/ s[j - 1] = Separator
                                  /\ PartRead(s, kept, j) # -1 \/ NextSeparator(s, j) >= n}
<1>5. stops = {j \in B : j >= i}
  <2>1. ASSUME NEW j \in i..n PROVE (j = i \/ s[j - 1] = Separator) <=> j \in Begins(s)
    <3>1. j \in 1..n
      BY <1>1
    <3>2. j = 1 => j = i
      BY <1>1
    <3> QED
      BY <3>1, <3>2 DEF Begins
  <2>2. ASSUME NEW j \in Begins(s), j >= i PROVE j \in i..n
    BY <1>1, <2>2
  <2>3. \A j \in i..n : j >= i
    BY <1>1
  <2> QED
    BY <1>1, <2>1, <2>2, <2>3 DEF Marks
<1>6. PICK b \in stops : \A j \in stops : b <= j
  <2>1. stops \in SUBSET Nat /\ stops # {}
    BY <1>1, <1>4, <1>5
  <2> HIDE DEF stops
  <2> QED
    BY <2>1, LeastElement
<1>7. (CHOOSE j \in stops : \A x \in stops : j <= x) = b
  <2>1. \A j \in stops : j \in Int
    BY <1>1, <1>5
  <2> HIDE DEF stops
  <2>2. \A j \in stops : (\A x \in stops : j <= x) => j = b
    <3> TAKE j \in stops
    <3>1. j \in Int /\ b \in Int /\ b <= j
      BY <1>6, <2>1
    <3>2. (\A x \in stops : j <= x) => j <= b
      BY <1>6
    <3> QED
      BY <3>1, <3>2
  <2> QED
    BY <1>6, <2>2
<1>8. NextPart(s, i, kept) = [is |-> PartRead(s, kept, b), at |-> NextSeparator(s, b) + 1]
  BY <1>7 DEF NextPart, PartRead
<1>9. b \in B /\ i <= b /\ b \in 1..n
  BY <1>1, <1>5, <1>6
<1>10. ASSUME NEW x \in B, i <= x, x < b PROVE FALSE
  <2>1. x \in Int /\ b \in Int /\ i \in Int
    BY <1>1, <1>9
  <2>2. x \in stops
    BY <1>5, <1>10, <2>1
  <2> HIDE DEF stops
  <2> QED
    BY <1>6, <1>10, <2>1, <2>2
<1> DEFINE e == NextSeparator(s, b)
<1>11. /\ e \in b..(n + 1) /\ (e = n + 1 \/ s[e] = Separator)
       /\ \A j \in b..(e - 1) : s[j] # Separator
  <2>1. b \in 1..(n + 1)
    BY <1>1, <1>9
  <2> QED
    BY <1>1, <2>1, NextSeparatorIs
<1> HIDE DEF stops, e, from
<1>12. e + 1 \in Int /\ b < e + 1
  BY <1>1, <1>9, <1>11
<1>13. ASSUME NEW x \in B, b < x, x < e + 1 PROVE FALSE
  <2>1. x \in 1..n /\ x \in Begins(s)
    BY <1>1
  <2>2. x - 1 \in b..(e - 1) /\ x # 1
    BY <1>1, <1>9, <1>11, <1>13, <2>1
  <2>3. s[x - 1] = Separator
    BY <2>1, <2>2 DEF Begins
  <2> QED
    BY <1>11, <2>2, <2>3
<1>14. e + 1 > n \/ e + 1 \in Begins(s)
  <2> SUFFICES ASSUME ~(e + 1 > n) PROVE e + 1 \in Begins(s)
    OBVIOUS
  <2>1. e + 1 \in 1..n /\ (e + 1) - 1 = e /\ e # n + 1
    BY <1>1, <1>9, <1>11
  <2> QED
    BY <1>11, <2>1 DEF Begins
<1> QED
  BY <1>8, <1>9, <1>10, <1>12, <1>13, <1>14 DEF NextMark, e, B, n

-----------------------------------------------------------------------------
\* The loop is at i in a text, and k of its parts are behind it.
Position(s, kept, i, k) ==
    /\ i \in Int /\ k \in Nat
    /\ i > Len(s) \/ i \in Begins(s)
    /\ Rank(Marks(s, kept), i) = k

LEMMA FirstPosition ==
    ASSUME NEW s, IsText(s), NEW kept \in BOOLEAN
    PROVE  Position(s, kept, 1, 0)
<1>1. Len(s) \in Nat /\ Marks(s, kept) \in SUBSET (1..Len(s))
  BY TextParts
<1>2. {x \in Marks(s, kept) : x < 1} = {}
  BY <1>1
<1>3. Rank(Marks(s, kept), 1) = 0
  BY <1>2, FS_EmptySet DEF Rank
<1>4. 1 > Len(s) \/ 1 \in Begins(s)
  BY <1>1 DEF Begins
<1> QED
  BY <1>3, <1>4 DEF Position

LEMMA LastPosition ==
    ASSUME NEW s, IsText(s), NEW kept \in BOOLEAN, NEW i, NEW k, Position(s, kept, i, k), i > Len(s)
    PROVE  k = Len(Listed(s, kept)) /\ k \in Nat
<1> DEFINE B == Marks(s, kept)
<1>1. Len(s) \in Nat /\ B \in SUBSET (1..Len(s)) /\ i \in Int
  BY TextParts DEF Position
<1>2. \A x \in B : x < i
  BY <1>1
<1> HIDE DEF B
<1>3. Rank(B, i) = Cardinality(B)
  BY <1>1, <1>2, RankIs
<1> QED
  BY <1>3, ListedIs DEF Position, B

LEMMA NextPosition ==
    ASSUME NEW s, IsText(s), NEW kept \in BOOLEAN, NEW i, NEW k, Position(s, kept, i, k), ~(i > Len(s))
    PROVE  /\ k \in Nat /\ k + 1 <= Len(Listed(s, kept))
           /\ NextPart(s, i, kept).is = Listed(s, kept)[k + 1]
           /\ Position(s, kept, NextPart(s, i, kept).at, k + 1)
<1> DEFINE B == Marks(s, kept)
<1>1. Len(s) \in Nat /\ B \in SUBSET (1..Len(s)) /\ i \in Int /\ k \in Nat /\ Rank(B, i) = k
  BY TextParts DEF Position
<1>2. i \in Begins(s)
  BY DEF Position
<1>3. PICK b \in B : NextMark(s, kept, i, b)
  BY <1>2, NextMarkExists
<1> DEFINE c == NextSeparator(s, b) + 1
<1>4. /\ i <= b /\ \A x \in B : ~(i <= x /\ x < b)
      /\ NextPart(s, i, kept) = [is |-> PartRead(s, kept, b), at |-> c]
      /\ c \in Int /\ b < c /\ \A x \in B : ~(b < x /\ x < c)
      /\ c > Len(s) \/ c \in Begins(s)
  BY <1>3 DEF NextMark
<1> HIDE DEF B, c
<1>5. Rank(B, b) = k /\ Rank(B, c) = k + 1 /\ k + 1 <= Cardinality(B)
  <2>1. Rank(B, b) = Rank(B, i) /\ Rank(B, c) = Rank(B, i) + 1 /\ Rank(B, c) <= Cardinality(B)
    BY <1>1, <1>4, NextRank
  <2> QED
    BY <1>1, <2>1
<1>6. Listed(s, kept)[k + 1] = PartRead(s, kept, b) /\ Len(Listed(s, kept)) = Cardinality(B)
  BY <1>5, ListedIs DEF B
<1> QED
  BY <1>1, <1>4, <1>5, <1>6 DEF Position, B

\* Where the numbers fit, what ParseLong reads is what is there.
LEMMA FittingParts ==
    ASSUME NEW s, IsText(s), NEW kept \in BOOLEAN, Fits(s)
    PROVE  Listed(s, kept) = Parts(s)
<1>1. ASSUME NEW b \in Begins(s) PROVE PartRead(s, kept, b) = NumberAt(s, b)
  <2> DEFINE e == NextSeparator(s, b)
  <2>1. Len(s) \in Nat /\ b \in 1..Len(s) /\ e \in b..(Len(s) + 1)
    BY TextParts
  <2>2. b \in Int /\ e \in Int /\ b <= e /\ \A i \in b..(e - 1) : i \in 1..Len(s)
    BY <2>1
  <2>3. \A i \in b..(e - 1) : s[i] \in 0..11
    BY <2>2, Elements DEF IsText
  <2>4. NumberAt(s, b) = IF \E i \in b..(e - 1) : s[i] <= 9 THEN Decimal(s, b, e) ELSE -1
    BY DEF NumberAt
  <2>5. NumberAt(s, b) <= LongMax
    BY DEF Fits
  <2> HIDE DEF e
  <2>6. /\ (\A i \in b..(e - 1) : ~(s[i] <= 9)) => ParseLong(s, b, e, kept) = -1
        /\ (\E i \in b..(e - 1) : s[i] <= 9) /\ Decimal(s, b, e) <= LongMax
              => ParseLong(s, b, e, kept) = Decimal(s, b, e)
    BY <2>2, <2>3, ParseLongIs
  <2>7. ParseLong(s, b, e, kept) = NumberAt(s, b)
    BY <2>4, <2>5, <2>6
  <2> QED
    BY <2>7 DEF PartRead, e
<1> DEFINE C == {b \in Begins(s) : NumberAt(s, b) # -1 \/ NextSeparator(s, b) >= Len(s)}
<1>2. Marks(s, kept) = C
  BY <1>1 DEF Marks
<1>3. [b \in Marks(s, kept) |-> PartRead(s, kept, b)] = [b \in C |-> NumberAt(s, b)]
  BY <1>1, <1>2
<1> QED
  BY <1>3 DEF Listed, Parts

-----------------------------------------------------------------------------
InStep(l, r, kept, i, j) ==
    \E k \in Nat : /\ Position(l, kept, i, k) /\ Position(r, kept, j, k)
                   /\ Agree(Listed(l, kept), Listed(r, kept), k)

VersionInv ==
    /\ IsText(left) /\ IsText(right) /\ keepsCheck \in BOOLEAN
    /\ outcome = Undecided => InStep(left, right, keepsCheck, il, ir)
    /\ outcome # Undecided => outcome = OrderOf(Listed(left, keepsCheck), Listed(right, keepsCheck))
    /\ mirrored # Undecided => mirrored = OrderOf(Listed(right, keepsCheck), Listed(left, keepsCheck))

LEMMA StartsInStep ==
    ASSUME NEW l, IsText(l), NEW r, IsText(r), NEW kept \in BOOLEAN
    PROVE  InStep(l, r, kept, 1, 1)
<1>1. Position(l, kept, 1, 0) /\ Position(r, kept, 1, 0)
  BY FirstPosition
<1>2. Agree(Listed(l, kept), Listed(r, kept), 0)
  BY DEF Agree
<1> QED
  BY <1>1, <1>2 DEF InStep

LEMMA InitVersionInv == VersionInit => VersionInv
<1> SUFFICES ASSUME VersionInit PROVE VersionInv
  OBVIOUS
<1>1. PICK l \in VersionTexts, r \in VersionTexts, kept \in BOOLEAN : VersionStart(l, r, kept)
  BY DEF VersionInit
<1>2. IsText(l) /\ IsText(r)
  BY VersionsAssumption DEF VersionsAssumption, IsText, Letter
<1>3. InStep(l, r, kept, 1, 1)
  BY <1>2, StartsInStep
<1> QED
  BY <1>1, <1>2, <1>3 DEF VersionStart, VersionInv

LEMMA SameTextStep == VersionInv /\ SameText => VersionInv'
<1> SUFFICES ASSUME VersionInv, SameText PROVE VersionInv'
  OBVIOUS
<1> DEFINE p == Listed(left, keepsCheck)
<1>1. IsText(left) /\ keepsCheck \in BOOLEAN /\ left = right
  BY DEF VersionInv, SameText
<1>2. Ints(p)
  BY <1>1, ListedIs
<1> HIDE DEF p
<1>3. Agree(p, p, Len(p)) /\ Len(p) \in Nat /\ Len(p) <= Len(p)
  BY <1>2 DEF Agree, Ints
<1>4. OrderOf(p, p) = 0
  BY <1>2, <1>3, NoDifference
<1> QED
  BY <1>1, <1>4 DEF p, SameText, VersionInv, Undecided

LEMMA ShorterStep == VersionInv /\ Shorter => VersionInv'
<1> SUFFICES ASSUME VersionInv, Shorter PROVE VersionInv'
  OBVIOUS
<1> DEFINE p == Listed(left, keepsCheck)
<1> DEFINE q == Listed(right, keepsCheck)
<1>1. /\ IsText(left) /\ IsText(right) /\ keepsCheck \in BOOLEAN
      /\ InStep(left, right, keepsCheck, il, ir)
      /\ il > Len(left) \/ ir > Len(right)
      /\ outcome' = IF il <= Len(left) THEN 1 ELSE IF ir <= Len(right) THEN -1 ELSE 0
  BY DEF VersionInv, Shorter
<1>2. PICK k \in Nat : Position(left, keepsCheck, il, k) /\ Position(right, keepsCheck, ir, k) /\ Agree(p, q, k)
  BY <1>1 DEF InStep
<1>3. Ints(p) /\ Ints(q)
  BY <1>1, ListedIs
<1>4. il \in Int /\ ir \in Int /\ Len(left) \in Nat /\ Len(right) \in Nat
  BY <1>1, <1>2, TextParts DEF Position
<1>5. /\ il > Len(left) => k = Len(p)
      /\ ~(il > Len(left)) => k + 1 <= Len(p)
      /\ ir > Len(right) => k = Len(q)
      /\ ~(ir > Len(right)) => k + 1 <= Len(q)
  BY <1>1, <1>2, LastPosition, NextPosition
<1> HIDE DEF p, q
<1>6. Len(p) \in Nat /\ Len(q) \in Nat
  BY <1>3 DEF Ints
<1>7. k <= Len(p) /\ k <= Len(q) /\ (k = Len(p) \/ k = Len(q))
  BY <1>1, <1>5, <1>6
<1>8. OrderOf(p, q) = IF Len(p) < Len(q) THEN -1 ELSE IF Len(p) > Len(q) THEN 1 ELSE 0
  BY <1>2, <1>3, <1>7, NoDifference
<1>9. outcome' = OrderOf(p, q)
  BY <1>1, <1>4, <1>5, <1>6, <1>8
<1>10. outcome' # Undecided
  BY <1>1 DEF Undecided
<1> QED
  BY <1>1, <1>9, <1>10 DEF p, q, Shorter, VersionInv

LEMMA ComparePartsStep == VersionInv /\ CompareParts => VersionInv'
<1> SUFFICES ASSUME VersionInv, CompareParts PROVE VersionInv'
  OBVIOUS
<1> DEFINE p == Listed(left, keepsCheck)
<1> DEFINE q == Listed(right, keepsCheck)
<1> DEFINE l == NextPart(left, il, keepsCheck)
<1> DEFINE r == NextPart(right, ir, keepsCheck)
<1>1. /\ IsText(left) /\ IsText(right) /\ keepsCheck \in BOOLEAN
      /\ InStep(left, right, keepsCheck, il, ir)
      /\ il <= Len(left) /\ ir <= Len(right)
      /\ outcome' = IF l.is < r.is THEN -1 ELSE IF l.is > r.is THEN 1 ELSE Undecided
      /\ il' = l.at /\ ir' = r.at /\ UNCHANGED <<left, right, mirrored, keepsCheck>>
  BY DEF VersionInv, CompareParts
<1>2. PICK k \in Nat : Position(left, keepsCheck, il, k) /\ Position(right, keepsCheck, ir, k) /\ Agree(p, q, k)
  BY <1>1 DEF InStep
<1>3. Ints(p) /\ Ints(q)
  BY <1>1, ListedIs
<1>4. ~(il > Len(left)) /\ ~(ir > Len(right))
  <2>1. il \in Int /\ ir \in Int /\ Len(left) \in Nat /\ Len(right) \in Nat
    BY <1>1, <1>2, TextParts DEF Position
  <2> QED
    BY <1>1, <2>1
<1>5. /\ k + 1 <= Len(p) /\ l.is = p[k + 1] /\ Position(left, keepsCheck, l.at, k + 1)
      /\ k + 1 <= Len(q) /\ r.is = q[k + 1] /\ Position(right, keepsCheck, r.at, k + 1)
  BY <1>1, <1>2, <1>4, NextPosition
<1> HIDE DEF p, q, l, r
<1>6. p[k + 1] \in Int /\ q[k + 1] \in Int
  BY <1>3, <1>5 DEF Ints
<1>7. CASE p[k + 1] # q[k + 1]
  <2>1. OrderOf(p, q) = IF p[k + 1] < q[k + 1] THEN -1 ELSE 1
    BY <1>2, <1>3, <1>5, <1>7, FirstDifference
  <2>2. outcome' = OrderOf(p, q)
    <3> DEFINE a == p[k + 1]
    <3> DEFINE b == q[k + 1]
    <3>1. outcome' = IF a < b THEN -1 ELSE IF a > b THEN 1 ELSE Undecided
      BY <1>1, <1>5
    <3>2. a \in Int /\ b \in Int /\ a # b /\ OrderOf(p, q) = IF a < b THEN -1 ELSE 1
      BY <1>6, <1>7, <2>1
    <3> HIDE DEF a, b, p, q
    <3>3. CASE a < b
      BY <3>1, <3>2, <3>3
    <3>4. CASE ~(a < b)
      <4>1. a > b
        BY <3>2, <3>4
      <4> QED
        BY <3>1, <3>2, <3>4, <4>1
    <3> QED
      BY <3>3, <3>4
  <2>3. outcome' # Undecided
    BY <2>1, <2>2 DEF Undecided
  <2> QED
    BY <1>1, <2>2, <2>3 DEF p, q, VersionInv
<1>8. CASE p[k + 1] = q[k + 1]
  <2>1. outcome' = Undecided
    BY <1>1, <1>5, <1>6, <1>8
  <2>2. Agree(p, q, k + 1)
    <3> SUFFICES ASSUME NEW i \in 1..(k + 1) PROVE p[i] = q[i]
      BY DEF Agree
    <3>1. CASE i = k + 1
      BY <1>8, <3>1
    <3>2. CASE i # k + 1
      <4>1. i \in 1..k
        BY <3>2
      <4> QED
        BY <1>2, <4>1 DEF Agree
    <3> QED
      BY <3>1, <3>2
  <2>3. k + 1 \in Nat
    OBVIOUS
  <2>4. InStep(left, right, keepsCheck, il', ir')
    BY <1>1, <1>5, <2>2, <2>3 DEF InStep, p, q
  <2> QED
    BY <1>1, <2>1, <2>4 DEF VersionInv
<1> QED
  BY <1>7, <1>8

LEMMA MirrorStep == VersionInv /\ Mirror => VersionInv'
<1> SUFFICES ASSUME VersionInv, Mirror PROVE VersionInv'
  OBVIOUS
<1>1. /\ IsText(left) /\ IsText(right) /\ keepsCheck \in BOOLEAN
      /\ outcome = OrderOf(Listed(left, keepsCheck), Listed(right, keepsCheck))
  BY DEF VersionInv, Mirror
<1>2. InStep(right, left, keepsCheck, 1, 1)
  BY <1>1, StartsInStep
<1> QED
  BY <1>1, <1>2 DEF Mirror, VersionInv

LEMMA VersionInvMeans == VersionInv => VersionOrder
<1> SUFFICES ASSUME VersionInv, outcome # Undecided
             PROVE  /\ mirrored # Undecided => outcome = -mirrored
                    /\ Fits(left) /\ Fits(right) => outcome = OrderOf(Parts(left), Parts(right))
  BY DEF VersionOrder
<1> DEFINE p == Listed(left, keepsCheck)
<1> DEFINE q == Listed(right, keepsCheck)
<1>1. /\ IsText(left) /\ IsText(right) /\ keepsCheck \in BOOLEAN /\ outcome = OrderOf(p, q)
      /\ mirrored # Undecided => mirrored = OrderOf(q, p)
  BY DEF VersionInv
<1>2. Ints(p) /\ Ints(q)
  BY <1>1, ListedIs
<1>3. Fits(left) /\ Fits(right) => p = Parts(left) /\ q = Parts(right)
  BY <1>1, FittingParts
<1> HIDE DEF p, q
<1>4. OrderOf(p, q) = -OrderOf(q, p)
  BY <1>2, OrderTurns
<1> QED
  BY <1>1, <1>3, <1>4

\* Versions are ordered: swapped texts give the opposite answer, however large
\* their numbers and whatever the build makes of the overflow; and numbers that
\* fit in a long are compared as numbers.
THEOREM VersionsAreOrdered == VersionSpec => []VersionOrder
<1>1. VersionInv /\ UNCHANGED versionVars => VersionInv'
  BY DEF VersionInv, versionVars
<1>2. VersionInv /\ [VersionNext]_versionVars => VersionInv'
  BY <1>1, SameTextStep, ShorterStep, ComparePartsStep, MirrorStep DEF VersionNext
<1>3. VersionSpec => []VersionInv
  BY <1>2, InitVersionInv, PTL DEF VersionSpec
<1> QED
  BY <1>3, VersionInvMeans, PTL

-----------------------------------------------------------------------------
(* Stamps. What is written as text and split again is what was written. The  *)
(* folds over texts, step by step.                                           *)

\* One character read by SplitOn.
Taken1(parts, c, delim) ==
    IF c = delim THEN Append(parts, <<>>) ELSE [parts EXCEPT ![Len(parts)] = Append(@, c)]

Lists(C) == Seq(Seq(C)) \ {<<>>}

LEMMA EmptyIn == ASSUME NEW S PROVE <<>> \in Seq(S) /\ Len(<<>>) = 0
OBVIOUS

LEMMA TakenIsList ==
    ASSUME NEW C, NEW parts \in Lists(C), NEW c \in C, NEW delim
    PROVE  Taken1(parts, c, delim) \in Lists(C)
<1>1. parts \in Seq(Seq(C)) /\ Len(parts) \in Nat /\ Len(parts) >= 1
  BY DEF Lists
<1>2. CASE c = delim
  <2>1. Append(parts, <<>>) \in Seq(Seq(C)) /\ Len(Append(parts, <<>>)) # 0
    BY <1>1, EmptyIn
  <2> QED
    BY <1>2, <2>1 DEF Taken1, Lists
<1>3. CASE c # delim
  <2>1. parts[Len(parts)] \in Seq(C)
    BY <1>1
  <2>2. Append(parts[Len(parts)], c) \in Seq(C)
    BY <2>1
  <2> DEFINE new == [parts EXCEPT ![Len(parts)] = Append(@, c)]
  <2>3. new \in Seq(Seq(C)) /\ Len(new) = Len(parts)
    BY <1>1, <2>2
  <2> QED
    BY <1>1, <1>3, <2>3 DEF Taken1, Lists
<1> QED
  BY <1>2, <1>3

\* What SplitOn has after each character.
Splitting(acc, s, delim) ==
    /\ acc[0] = << <<>> >>
    /\ \A i \in 1..Len(s) : acc[i] = Taken1(acc[i - 1], s[i], delim)

LEMMA SplitSteps ==
    ASSUME NEW C, NEW s \in Seq(C), NEW delim
    PROVE  \E acc : /\ Splitting(acc, s, delim) /\ SplitOn(s, delim) = acc[Len(s)]
                    /\ \A i \in 0..Len(s) : acc[i] \in Lists(C)
<1> DEFINE n == Len(s)
<1> DEFINE Folded(iter) ==
        [w \in SUBSET (1..n) |-> IF w = {} THEN << <<>> >>
                                 ELSE Taken1(iter[w \ {Max(w)}], s[Max(w)], delim)]
<1> DEFINE c == CHOOSE iter : iter = Folded(iter)
<1>0. n \in Nat /\ DOMAIN s = 1..n
  OBVIOUS
<1>1. SplitOn(s, delim) = c[1..n]
  BY <1>0 DEF SplitOn, FoldLeft, MapThenFoldSet, Taken1
<1> DEFINE S == Lists(C)
<1>2. ASSUME NEW i \in 1..n, NEW x \in S PROVE Taken1(x, s[i], delim) \in S
  BY TakenIsList
<1>3. << <<>> >> \in S
  <2>1. << <<>> >> \in Seq(Seq(C)) /\ Len(<< <<>> >>) = 1
    BY EmptyIn
  <2> QED
    BY <2>1 DEF Lists
<1> HIDE DEF S
<1> HIDE DEF n
<1> DEFINE step == [i \in 1..n |-> [x \in S |-> Taken1(x, s[i], delim)]]
<1>4. step \in Steps(n, S)
  BY <1>2 DEF Steps
<1>5. CanFold(n, S, << <<>> >>, step)
  <2> HIDE DEF step
  <2> QED
    BY <1>0, <1>3, <1>4, FoldExists
<1>6. PICK h \in [SUBSET (1..n) -> S] : Folding(h, n, << <<>> >>, step)
  BY <1>5 DEF CanFold
<1>7. h = Folded(h)
  <2>1. ASSUME NEW w \in SUBSET (1..n) PROVE h[w] = Folded(h)[w]
    <3>1. CASE w = {}
      BY <1>6, <3>1 DEF Folding
    <3>2. CASE w # {}
      <4>1. Max(w) \in 1..n
        BY <1>0, <3>2, HasMax
      <4>2. h[w \ {Max(w)}] \in S
        OBVIOUS
      <4>3. h[w] = step[Max(w)][h[w \ {Max(w)}]]
        BY <1>6, <3>2 DEF Folding
      <4>4. step[Max(w)][h[w \ {Max(w)}]] = Taken1(h[w \ {Max(w)}], s[Max(w)], delim)
        BY <4>1, <4>2
      <4> QED
        BY <3>2, <4>3, <4>4
    <3> QED
      BY <3>1, <3>2
  <2>2. h = [w \in SUBSET (1..n) |-> h[w]]
    OBVIOUS
  <2> QED
    BY <2>1, <2>2
<1>8. c = Folded(c)
  <2> HIDE DEF Folded
  <2> QED
    BY <1>7
<1>9. \A w \in SUBSET (1..n) : c[w] = IF w = {} THEN << <<>> >>
                                      ELSE Taken1(c[w \ {Max(w)}], s[Max(w)], delim)
  <2> HIDE DEF c
  <2>1. \A w \in SUBSET (1..n) : c[w] = Folded(c)[w]
    BY <1>8
  <2> QED
    BY <2>1
<1> HIDE DEF c
<1> DEFINE acc == [i \in 0..n |-> c[1..i]]
<1>10. acc[0] = << <<>> >> /\ acc[n] = c[1..n]
  <2>1. 1..0 = {} /\ 0 \in 0..n /\ n \in 0..n
    BY <1>0
  <2> QED
    BY <1>9, <2>1
<1>11. ASSUME NEW i \in 1..n PROVE acc[i] = Taken1(acc[i - 1], s[i], delim)
  <2>1. Max(1..i) = i /\ 1..i # {} /\ (1..i) \ {i} = 1..(i - 1)
    BY i \in Nat \ {0}, MaxOfPrefix
  <2>2. i \in 0..n /\ i - 1 \in 0..n /\ 1..i \in SUBSET (1..n)
    BY <1>0
  <2> QED
    BY <1>9, <2>1, <2>2
<1> HIDE DEF acc
<1> DEFINE T == {i \in Nat : i <= n => acc[i] \in S}
<1>12. 0 \in T
  BY <1>3, <1>10
<1>13. ASSUME NEW i \in Nat, i \in T PROVE i + 1 \in T
  <2> SUFFICES ASSUME i + 1 <= n PROVE acc[i + 1] \in S
    OBVIOUS
  <2>1. i + 1 \in 1..n /\ (i + 1) - 1 = i /\ acc[i] \in S
    BY <1>0, <1>13
  <2> QED
    BY <1>2, <1>11, <2>1
<1>14. ASSUME NEW i \in 0..n PROVE acc[i] \in S
  <2> HIDE DEF T
  <2>1. i \in Nat
    BY <1>0
  <2>2. i \in T
    BY <1>12, <1>13, <2>1, Induction
  <2> QED
    BY <2>2, <1>0 DEF T
<1> QED
  BY <1>1, <1>10, <1>11, <1>14 DEF Splitting, n, S

\* SplitOn reads its text to the end: one more character is one more step.
LEMMA SplitAppended ==
    ASSUME NEW C, NEW s \in Seq(C), NEW e \in C, NEW delim
    PROVE  /\ SplitOn(Append(s, e), delim) = Taken1(SplitOn(s, delim), e, delim)
           /\ SplitOn(s, delim) \in Lists(C)
<1> DEFINE w == Append(s, e)
<1>0. w \in Seq(C) /\ Len(w) = Len(s) + 1 /\ Len(s) \in Nat /\ w[Len(s) + 1] = e
      /\ \A i \in 1..Len(s) : w[i] = s[i]
  OBVIOUS
<1> HIDE DEF w
<1>1. PICK a : /\ Splitting(a, s, delim) /\ SplitOn(s, delim) = a[Len(s)]
               /\ \A i \in 0..Len(s) : a[i] \in Lists(C)
  BY SplitSteps
<1>2. PICK b : Splitting(b, w, delim) /\ SplitOn(w, delim) = b[Len(w)]
  BY <1>0, SplitSteps
<1> DEFINE T == {i \in Nat : i <= Len(s) => b[i] = a[i]}
<1>3. 0 \in T
  BY <1>1, <1>2 DEF Splitting
<1>4. ASSUME NEW i \in Nat, i \in T PROVE i + 1 \in T
  <2> SUFFICES ASSUME i + 1 <= Len(s) PROVE b[i + 1] = a[i + 1]
    OBVIOUS
  <2>1. i + 1 \in 1..Len(s) /\ i + 1 \in 1..Len(w) /\ (i + 1) - 1 = i /\ b[i] = a[i]
    BY <1>0, <1>4
  <2>2. b[i + 1] = Taken1(b[i], w[i + 1], delim) /\ a[i + 1] = Taken1(a[i], s[i + 1], delim)
    BY <1>1, <1>2, <2>1 DEF Splitting
  <2> QED
    BY <1>0, <2>1, <2>2
<1>5. b[Len(s)] = a[Len(s)]
  <2> HIDE DEF T
  <2>1. Len(s) \in T
    BY <1>0, <1>3, <1>4, Induction
  <2> QED
    BY <1>0, <2>1 DEF T
<1>6. b[Len(s) + 1] = Taken1(b[Len(s)], e, delim)
  <2>1. Len(s) + 1 \in 1..Len(w) /\ (Len(s) + 1) - 1 = Len(s)
    BY <1>0
  <2> QED
    BY <1>0, <1>2, <2>1 DEF Splitting
<1>7. SplitOn(w, delim) = Taken1(SplitOn(s, delim), e, delim)
  BY <1>0, <1>1, <1>2, <1>5, <1>6
<1>8. SplitOn(s, delim) \in Lists(C)
  BY <1>0, <1>1
<1> QED
  BY <1>7, <1>8 DEF w

LEMMA SplitOfNothing == ASSUME NEW delim PROVE SplitOn(<<>>, delim) = << <<>> >>
<1>1. <<>> \in Seq({}) /\ Len(<<>>) = 0
  OBVIOUS
<1>2. PICK acc : Splitting(acc, <<>>, delim) /\ SplitOn(<<>>, delim) = acc[Len(<<>>)]
  BY <1>1, SplitSteps
<1> QED
  BY <1>1, <1>2 DEF Splitting

LEMMA AppendedLast ==
    ASSUME NEW C, NEW s \in Seq(C), NEW head \in Seq(C), NEW e \in C
    PROVE  s \o Append(head, e) = Append(s \o head, e)
<1> DEFINE l == s \o Append(head, e)
<1> DEFINE r == Append(s \o head, e)
<1>1. /\ l \in Seq(C) /\ Len(l) = Len(s) + Len(head) + 1
      /\ r \in Seq(C) /\ Len(r) = Len(s) + Len(head) + 1
  OBVIOUS
<1>2. ASSUME NEW i \in 1..(Len(s) + Len(head) + 1) PROVE l[i] = r[i]
  <2>1. CASE i <= Len(s)
    BY <2>1
  <2>2. CASE i > Len(s) /\ i <= Len(s) + Len(head)
    BY <2>2
  <2>3. CASE i = Len(s) + Len(head) + 1
    BY <2>3
  <2> QED
    BY <2>1, <2>2, <2>3
<1> HIDE DEF l, r
<1>3. l = r
  BY <1>1, <1>2
<1> QED
  BY <1>3 DEF l, r

\* The last part is longer by w.
Extended(parts, w) == [parts EXCEPT ![Len(parts)] = @ \o w]

LEMMA LastExtended ==
    ASSUME NEW C, NEW P \in Seq(Seq(C)), NEW p \in Seq(C)
    PROVE  Extended(Append(P, <<>>), p) = Append(P, p)
<1> DEFINE Q == Append(P, <<>>)
<1> DEFINE R == Append(P, p)
<1> DEFINE k == Len(P) + 1
<1>1. /\ k \in Nat /\ Q \in Seq(Seq(C)) /\ Len(Q) = k /\ Q[k] = <<>>
      /\ R \in Seq(Seq(C)) /\ Len(R) = k /\ R[k] = p
      /\ \A i \in 1..k : i # k => R[i] = Q[i]
  <2>1. <<>> \in Seq(C)
    BY EmptyIn
  <2>2. Q \in Seq(Seq(C)) /\ Len(Q) = k /\ Q[k] = <<>>
    BY <2>1
  <2>3. ASSUME NEW i \in 1..k, i # k PROVE R[i] = Q[i]
    <3>1. i \in 1..Len(P)
      BY <2>3
    <3> QED
      BY <3>1
  <2> QED
    BY <2>2, <2>3
<1> HIDE DEF Q, R, k
<1> DEFINE l == [Q EXCEPT ![k] = p]
<1>2. /\ DOMAIN l = 1..k /\ l = [i \in 1..k |-> l[i]]
      /\ DOMAIN R = 1..k /\ R = [i \in 1..k |-> R[i]]
  <2>1. Q \in [1..k -> Seq(C)] /\ R \in [1..k -> Seq(C)]
    BY <1>1
  <2> QED
    BY <2>1
<1>3. ASSUME NEW i \in 1..k PROVE l[i] = R[i]
  BY <1>1
<1> HIDE DEF l
<1>4. l = R
  BY <1>2, <1>3
<1>5. <<>> \o p = p
  OBVIOUS
<1>6. Extended(Q, p) = l
  BY <1>1, <1>5 DEF Extended, l
<1> QED
  BY <1>4, <1>6 DEF Q, R

\* A text without separators goes to the last part.
LEMMA SplitLast ==
    ASSUME NEW C, NEW s \in Seq(C), NEW w \in Seq(C), NEW delim, ~HasAny(w, {delim})
    PROVE  SplitOn(s \o w, delim) = Extended(SplitOn(s, delim), w)
<1> DEFINE P == SplitOn(s, delim)
<1> DEFINE Up(i) == SubSeq(w, 1, i)
<1> DEFINE T == {i \in Nat : i <= Len(w) =>
                    SplitOn(s \o Up(i), delim) = [P EXCEPT ![Len(P)] = P[Len(P)] \o Up(i)]}
<1>0. /\ P \in Seq(Seq(C)) /\ Len(P) \in Nat /\ Len(P) >= 1 /\ P[Len(P)] \in Seq(C)
      /\ Len(w) \in Nat /\ \A i \in 1..Len(w) : w[i] \in C /\ w[i] # delim
  <2>1. P \in Lists(C)
    <3>1. PICK acc : SplitOn(s, delim) = acc[Len(s)] /\ \A i \in 0..Len(s) : acc[i] \in Lists(C)
      BY SplitSteps
    <3>2. Len(s) \in 0..Len(s)
      OBVIOUS
    <3> QED
      BY <3>1, <3>2
  <2> HIDE DEF P
  <2>2. P \in Seq(Seq(C)) /\ Len(P) \in Nat /\ Len(P) >= 1
    BY <2>1 DEF Lists
  <2>3. \A i \in 1..Len(w) : w[i] \in C /\ w[i] # delim
    BY DEF HasAny
  <2> QED
    BY <2>2, <2>3
<1> HIDE DEF P
<1>1. ASSUME NEW i \in 0..Len(w) PROVE Up(i) \in Seq(C) /\ s \o Up(i) \in Seq(C)
  BY <1>0
<1>2. 0 \in T
  <2>1. Up(0) = <<>>
    BY <1>0
  <2>2. s \o <<>> = s /\ P[Len(P)] \o <<>> = P[Len(P)]
    BY <1>0
  <2>3. [P EXCEPT ![Len(P)] = P[Len(P)]] = P
    BY <1>0
  <2> QED
    BY <2>1, <2>2, <2>3 DEF P
<1>3. ASSUME NEW i \in Nat, i \in T PROVE i + 1 \in T
  <2> SUFFICES ASSUME i + 1 <= Len(w)
               PROVE  SplitOn(s \o Up(i + 1), delim) = [P EXCEPT ![Len(P)] = P[Len(P)] \o Up(i + 1)]
    OBVIOUS
  <2> DEFINE e == w[i + 1]
  <2>1. i \in 0..Len(w) /\ e \in C /\ e # delim
    BY <1>0
  <2>2. Up(i + 1) = Append(Up(i), e)
    BY <1>0, <2>1
  <2>3. Up(i) \in Seq(C) /\ s \o Up(i) \in Seq(C)
    BY <1>1, <2>1
  <2> HIDE DEF e
  <2>4. SplitOn(s \o Up(i), delim) = [P EXCEPT ![Len(P)] = P[Len(P)] \o Up(i)]
    BY <1>3
  <2> HIDE DEF T
  <2> DEFINE head == Up(i)
  <2> HIDE DEF head
  <2>5. s \o Append(head, e) = Append(s \o head, e) /\ P[Len(P)] \o Append(head, e) = Append(P[Len(P)] \o head, e)
    <3>1. head \in Seq(C)
      BY <2>3 DEF head
    <3>2. s \o Append(head, e) = Append(s \o head, e)
      BY <2>1, <3>1, AppendedLast
    <3>3. P[Len(P)] \o Append(head, e) = Append(P[Len(P)] \o head, e)
      <4> DEFINE z == P[Len(P)]
      <4>1. z \in Seq(C)
        BY <1>0
      <4> HIDE DEF z
      <4>2. z \o Append(head, e) = Append(z \o head, e)
        BY <2>1, <3>1, <4>1, AppendedLast
      <4> QED
        BY <4>2 DEF z
    <3> QED
      BY <3>2, <3>3
  <2>6. SplitOn(Append(s \o head, e), delim) = Taken1(SplitOn(s \o head, delim), e, delim)
    <3>1. s \o head \in Seq(C)
      BY <2>3 DEF head
    <3> QED
      BY <2>1, <3>1, SplitAppended
  <2>7. SplitOn(s \o head, delim) = [P EXCEPT ![Len(P)] = P[Len(P)] \o head]
    BY <2>4 DEF head
  <2> DEFINE x == P[Len(P)] \o head
  <2> HIDE DEF x
  <2>8. Taken1([P EXCEPT ![Len(P)] = x], e, delim) = [P EXCEPT ![Len(P)] = Append(x, e)]
    <3> DEFINE Q == [P EXCEPT ![Len(P)] = x]
    <3>1. x \in Seq(C)
      BY <1>0, <2>3 DEF x, head
    <3>2. Len(Q) = Len(P) /\ Q[Len(P)] = x
      BY <1>0, <3>1
    <3>3. Taken1(Q, e, delim) = [Q EXCEPT ![Len(P)] = Append(x, e)]
      <4> HIDE DEF Q
      <4> QED
        BY <2>1, <3>2 DEF Taken1
    <3>4. [Q EXCEPT ![Len(P)] = Append(x, e)] = [P EXCEPT ![Len(P)] = Append(x, e)]
      BY <1>0
    <3> QED
      BY <3>3, <3>4
  <2>9. Up(i + 1) = Append(head, e)
    BY <2>2 DEF head
  <2> HIDE DEF Up
  <2> QED
    BY <2>5, <2>6, <2>7, <2>8, <2>9 DEF x
<1>4. Len(w) \in T
  <2> HIDE DEF T
  <2> QED
    BY <1>0, <1>2, <1>3, Induction
<1>5. Up(Len(w)) = w
  BY <1>0
<1>6. SplitOn(s \o Up(Len(w)), delim) = [P EXCEPT ![Len(P)] = P[Len(P)] \o Up(Len(w))]
  <2> HIDE DEF Up
  <2> QED
    BY <1>0, <1>4
<1> QED
  BY <1>5, <1>6 DEF P, Extended

LEMMA JoinedHasNone ==
    ASSUME NEW C, NEW s \in Seq(C), NEW w \in Seq(C), NEW D, ~HasAny(s, D), ~HasAny(w, D)
    PROVE  s \o w \in Seq(C) /\ ~HasAny(s \o w, D)
<1>1. s \o w \in Seq(C) /\ Len(s \o w) = Len(s) + Len(w)
  OBVIOUS
<1>2. ASSUME NEW i \in 1..(Len(s) + Len(w)) PROVE (s \o w)[i] \notin D
  <2>1. CASE i <= Len(s)
    BY <2>1 DEF HasAny
  <2>2. CASE i > Len(s)
    <3>1. i - Len(s) \in 1..Len(w) /\ (s \o w)[i] = w[i - Len(s)]
      BY <2>2
    <3> QED
      BY <3>1 DEF HasAny
  <2> QED
    BY <2>1, <2>2
<1> QED
  BY <1>1, <1>2 DEF HasAny

\* What Joined has after each part.
Joining(acc, parts, delim) ==
    /\ acc[0] = <<>>
    /\ \A i \in 1..Len(parts) :
          acc[i] = acc[i - 1] \o (IF i = 1 THEN <<>> ELSE <<delim>>) \o parts[i]

LEMMA JoinSteps ==
    ASSUME NEW C, NEW parts \in Seq(Seq(C)), NEW delim \in C
    PROVE  \E acc : /\ Joining(acc, parts, delim) /\ Joined(parts, delim) = acc[Len(parts)]
                    /\ \A i \in 0..Len(parts) : acc[i] \in Seq(C)
<1> DEFINE n == Len(parts)
<1> DEFINE places == [i \in DOMAIN parts |-> i]
<1> DEFINE Put1(x, i) == x \o (IF i = 1 THEN <<>> ELSE <<delim>>) \o parts[i]
<1> DEFINE Folded(iter) ==
        [w \in SUBSET (1..n) |-> IF w = {} THEN <<>>
                                 ELSE Put1(iter[w \ {Max(w)}], places[Max(w)])]
<1> DEFINE c == CHOOSE iter : iter = Folded(iter)
<1>0. n \in Nat /\ DOMAIN parts = 1..n /\ DOMAIN places = 1..n
  OBVIOUS
<1>1. Joined(parts, delim) = c[1..n]
  BY <1>0 DEF Joined, FoldLeft, MapThenFoldSet
<1>p. \A i \in 1..n : places[i] = i
  BY <1>0
<1> HIDE DEF places
<1> DEFINE S == Seq(C)
<1>2. ASSUME NEW i \in 1..n, NEW x \in S PROVE Put1(x, i) \in S
  <2>1. parts[i] \in Seq(C) /\ <<delim>> \in Seq(C) /\ <<>> \in Seq(C)
    OBVIOUS
  <2> QED
    BY <2>1
<1>3. <<>> \in S
  OBVIOUS
<1> HIDE DEF S, n, Put1
<1> DEFINE step == [i \in 1..n |-> [x \in S |-> Put1(x, i)]]
<1>4. step \in Steps(n, S)
  BY <1>2 DEF Steps
<1>5. CanFold(n, S, <<>>, step)
  <2> HIDE DEF step
  <2> QED
    BY <1>0, <1>3, <1>4, FoldExists
<1>6. PICK h \in [SUBSET (1..n) -> S] : Folding(h, n, <<>>, step)
  BY <1>5 DEF CanFold
<1>7. h = Folded(h)
  <2>1. ASSUME NEW w \in SUBSET (1..n) PROVE h[w] = Folded(h)[w]
    <3>1. CASE w = {}
      BY <1>6, <3>1 DEF Folding
    <3>2. CASE w # {}
      <4>1. Max(w) \in 1..n
        BY <1>0, <3>2, HasMax
      <4>2. h[w \ {Max(w)}] \in S
        OBVIOUS
      <4>3. h[w] = step[Max(w)][h[w \ {Max(w)}]]
        BY <1>6, <3>2 DEF Folding
      <4>4. step[Max(w)][h[w \ {Max(w)}]] = Put1(h[w \ {Max(w)}], places[Max(w)])
        BY <1>p, <4>1, <4>2
      <4> QED
        BY <3>2, <4>3, <4>4
    <3> QED
      BY <3>1, <3>2
  <2>2. h = [w \in SUBSET (1..n) |-> h[w]]
    OBVIOUS
  <2> QED
    BY <2>1, <2>2
<1>8. c = Folded(c)
  <2> HIDE DEF Folded
  <2> QED
    BY <1>7
<1>9. \A w \in SUBSET (1..n) : c[w] = IF w = {} THEN <<>>
                                      ELSE Put1(c[w \ {Max(w)}], places[Max(w)])
  <2> HIDE DEF c
  <2>1. \A w \in SUBSET (1..n) : c[w] = Folded(c)[w]
    BY <1>8
  <2> QED
    BY <2>1
<1> HIDE DEF c
<1> DEFINE acc == [i \in 0..n |-> c[1..i]]
<1>10. acc[0] = <<>> /\ acc[n] = c[1..n]
  <2>1. 1..0 = {} /\ 0 \in 0..n /\ n \in 0..n
    BY <1>0
  <2> QED
    BY <1>9, <2>1
<1>11. ASSUME NEW i \in 1..n PROVE acc[i] = Put1(acc[i - 1], i)
  <2>1. Max(1..i) = i /\ 1..i # {} /\ (1..i) \ {i} = 1..(i - 1)
    BY i \in Nat \ {0}, MaxOfPrefix
  <2>2. i \in 0..n /\ i - 1 \in 0..n /\ 1..i \in SUBSET (1..n)
    BY <1>0
  <2> QED
    BY <1>p, <1>9, <2>1, <2>2
<1> HIDE DEF acc
<1> DEFINE T == {i \in Nat : i <= n => acc[i] \in S}
<1>12. 0 \in T
  BY <1>3, <1>10
<1>13. ASSUME NEW i \in Nat, i \in T PROVE i + 1 \in T
  <2> SUFFICES ASSUME i + 1 <= n PROVE acc[i + 1] \in S
    OBVIOUS
  <2>1. i + 1 \in 1..n /\ (i + 1) - 1 = i /\ acc[i] \in S
    BY <1>0, <1>13
  <2> QED
    BY <1>2, <1>11, <2>1
<1>14. ASSUME NEW i \in 0..n PROVE acc[i] \in S
  <2> HIDE DEF T
  <2>1. i \in Nat
    BY <1>0
  <2>2. i \in T
    BY <1>12, <1>13, <2>1, Induction
  <2> QED
    BY <2>2, <1>0 DEF T
<1> QED
  BY <1>1, <1>10, <1>11, <1>14 DEF Joining, Put1, n, S

\* Parts that do not hold the separator are found again.
LEMMA SplitJoined ==
    ASSUME NEW C, NEW parts \in Seq(Seq(C)), parts # <<>>, NEW delim \in C,
           \A i \in 1..Len(parts) : ~HasAny(parts[i], {delim})
    PROVE  SplitOn(Joined(parts, delim), delim) = parts /\ Joined(parts, delim) \in Seq(C)
<1>0. Len(parts) \in Nat /\ Len(parts) >= 1 /\ \A i \in 1..Len(parts) : parts[i] \in Seq(C)
  OBVIOUS
<1>1. PICK acc : /\ Joining(acc, parts, delim) /\ Joined(parts, delim) = acc[Len(parts)]
                 /\ \A i \in 0..Len(parts) : acc[i] \in Seq(C)
  BY JoinSteps
<1> DEFINE T == {i \in Nat : i + 1 <= Len(parts) =>
                                SplitOn(acc[i + 1], delim) = SubSeq(parts, 1, i + 1)}
<1>2. 0 \in T
  <2>1. acc[1] = parts[1]
    <3>1. 1 \in 1..Len(parts) /\ 1 - 1 = 0
      BY <1>0
    <3>2. acc[1] = <<>> \o <<>> \o parts[1]
      BY <1>1, <3>1 DEF Joining
    <3> QED
      BY <1>0, <3>1, <3>2
  <2>2. SplitOn(<<>> \o parts[1], delim) = Extended(<< <<>> >>, parts[1])
    <3>1. <<>> \in Seq(C) /\ 1 \in 1..Len(parts)
      BY <1>0, EmptyIn
    <3>2. parts[1] \in Seq(C) /\ ~HasAny(parts[1], {delim})
      BY <1>0, <3>1
    <3> DEFINE q == parts[1]
    <3> HIDE DEF q
    <3>3. q \in Seq(C) /\ ~HasAny(q, {delim}) /\ <<>> \in Seq(C)
      BY <3>1, <3>2 DEF q
    <3>4. SplitOn(<<>> \o q, delim) = Extended(SplitOn(<<>>, delim), q)
      BY <3>3, SplitLast
    <3> QED
      BY <3>4, SplitOfNothing DEF q
  <2>3. <<>> \o parts[1] = parts[1]
    BY <1>0
  <2>4. SubSeq(parts, 1, 1) = <<parts[1]>>
    <3> DEFINE head == SubSeq(parts, 1, 1)
    <3>1. head \in Seq(Seq(C)) /\ Len(head) = 1 /\ head[1] = parts[1]
      BY <1>0
    <3> HIDE DEF head
    <3>2. head = <<parts[1]>>
      BY <3>1
    <3> QED
      BY <3>2 DEF head
  <2>5. Extended(<< <<>> >>, parts[1]) = <<parts[1]>>
    BY <2>3 DEF Extended
  <2> QED
    BY <2>1, <2>2, <2>3, <2>4, <2>5
<1>3. ASSUME NEW i \in Nat, i \in T PROVE i + 1 \in T
  <2> SUFFICES ASSUME i + 2 <= Len(parts)
               PROVE  SplitOn(acc[i + 2], delim) = SubSeq(parts, 1, i + 2)
    OBVIOUS
  <2> DEFINE a == acc[i + 1]
  <2> DEFINE p == parts[i + 2]
  <2> DEFINE P == SubSeq(parts, 1, i + 1)
  <2>1. /\ i + 2 \in 1..Len(parts) /\ (i + 2) - 1 = i + 1 /\ i + 1 \in 0..Len(parts) /\ i + 2 # 1
        /\ SplitOn(a, delim) = P
    BY <1>0, <1>3
  <2>2. a \in Seq(C) /\ p \in Seq(C) /\ ~HasAny(p, {delim})
    BY <1>0, <1>1, <2>1
  <2>3. P \in Seq(Seq(C)) /\ Len(P) = i + 1
    BY <1>0, <2>1
  <2>4. acc[i + 2] = a \o <<delim>> \o p
    BY <1>1, <2>1 DEF Joining
  <2>5. SubSeq(parts, 1, i + 2) = Append(P, p)
    BY <1>0, <2>1
  <2> HIDE DEF a, p, P, T
  <2>6. a \o <<delim>> = Append(a, delim) /\ Append(a, delim) \in Seq(C)
    BY <2>2
  <2>7. SplitOn(Append(a, delim), delim) = Append(P, <<>>)
    BY <2>1, <2>2, SplitAppended DEF Taken1
  <2>8. SplitOn(Append(a, delim) \o p, delim) = Extended(Append(P, <<>>), p)
    <3> DEFINE A == Append(a, delim)
    <3>1. A \in Seq(C)
      BY <2>6
    <3> HIDE DEF A
    <3>2. SplitOn(A \o p, delim) = Extended(SplitOn(A, delim), p)
      BY <2>2, <3>1, SplitLast
    <3> QED
      BY <2>7, <3>2 DEF A
  <2>9. Extended(Append(P, <<>>), p) = Append(P, p)
    BY <2>2, <2>3, LastExtended
  <2> QED
    BY <2>4, <2>5, <2>6, <2>8, <2>9
<1>4. Len(parts) - 1 \in T
  <2>1. Len(parts) - 1 \in Nat
    BY <1>0
  <2> HIDE DEF T
  <2> QED
    BY <1>2, <1>3, <2>1, Induction
<1>5. SplitOn(acc[Len(parts)], delim) = SubSeq(parts, 1, Len(parts))
  <2>1. (Len(parts) - 1) + 1 = Len(parts)
    BY <1>0
  <2> QED
    BY <1>0, <1>4, <2>1
<1>6. SubSeq(parts, 1, Len(parts)) = parts
  BY <1>0
<1>7. acc[Len(parts)] \in Seq(C)
  BY <1>0, <1>1
<1> QED
  BY <1>1, <1>5, <1>6, <1>7

\* Joined adds nothing but separators.
LEMMA JoinedHas ==
    ASSUME NEW C, NEW parts \in Seq(Seq(C)), NEW delim \in C, NEW D, delim \notin D,
           \A i \in 1..Len(parts) : ~HasAny(parts[i], D)
    PROVE  ~HasAny(Joined(parts, delim), D) /\ Joined(parts, delim) \in Seq(C)
<1>0. Len(parts) \in Nat /\ \A i \in 1..Len(parts) : parts[i] \in Seq(C)
  OBVIOUS
<1>1. PICK acc : /\ Joining(acc, parts, delim) /\ Joined(parts, delim) = acc[Len(parts)]
                 /\ \A i \in 0..Len(parts) : acc[i] \in Seq(C)
  BY JoinSteps
<1> DEFINE T == {i \in Nat : i <= Len(parts) => ~HasAny(acc[i], D)}
<1>2. 0 \in T
  BY <1>1 DEF Joining, HasAny
<1>3. ASSUME NEW i \in Nat, i \in T PROVE i + 1 \in T
  <2> SUFFICES ASSUME i + 1 <= Len(parts) PROVE ~HasAny(acc[i + 1], D)
    OBVIOUS
  <2>1. /\ i + 1 \in 1..Len(parts) /\ (i + 1) - 1 = i /\ i \in 0..Len(parts) /\ ~HasAny(acc[i], D)
        /\ acc[i] \in Seq(C) /\ parts[i + 1] \in Seq(C) /\ ~HasAny(parts[i + 1], D)
    BY <1>0, <1>1, <1>3
  <2> DEFINE b == IF i + 1 = 1 THEN <<>> ELSE <<delim>>
  <2>2. acc[i + 1] = acc[i] \o b \o parts[i + 1]
    BY <1>1, <2>1 DEF Joining
  <2>3. b \in Seq(C) /\ ~HasAny(b, D)
    BY DEF HasAny
  <2> HIDE DEF b
  <2>4. acc[i] \o b \in Seq(C) /\ ~HasAny(acc[i] \o b, D)
    BY <2>1, <2>3, JoinedHasNone
  <2> QED
    BY <2>1, <2>2, <2>4, JoinedHasNone
<1>4. Len(parts) \in T
  <2> HIDE DEF T
  <2> QED
    BY <1>0, <1>2, <1>3, Induction
<1> QED
  BY <1>0, <1>1, <1>4

-----------------------------------------------------------------------------
(* The items of the extensions *)

\* A key is read and maybe kept.
Gathered1(keys, k, ext) == IF k \in DOMAIN ext THEN Append(keys, k) ELSE keys

Gathering(acc, ext) ==
    /\ acc[0] = <<>>
    /\ \A i \in 1..Len(ExtensionKeys) : acc[i] = Gathered1(acc[i - 1], ExtensionKeys[i], ext)

LEMMA GatherSteps ==
    ASSUME NEW C, NEW ext, ExtensionKeys \in Seq(C)
    PROVE  \E acc : /\ Gathering(acc, ext) /\ KeysOf(ext) = acc[Len(ExtensionKeys)]
                    /\ \A i \in 0..Len(ExtensionKeys) : acc[i] \in Seq(C)
<1> DEFINE n == Len(ExtensionKeys)
<1> DEFINE Folded(iter) ==
        [w \in SUBSET (1..n) |-> IF w = {} THEN <<>>
                                 ELSE Gathered1(iter[w \ {Max(w)}], ExtensionKeys[Max(w)], ext)]
<1> DEFINE c == CHOOSE iter : iter = Folded(iter)
<1>0. n \in Nat /\ DOMAIN ExtensionKeys = 1..n /\ \A i \in 1..n : ExtensionKeys[i] \in C
  OBVIOUS
<1>1. KeysOf(ext) = c[1..n]
  BY <1>0 DEF KeysOf, FoldLeft, MapThenFoldSet, Gathered1
<1> DEFINE S == Seq(C)
<1>2. ASSUME NEW i \in 1..n, NEW x \in S PROVE Gathered1(x, ExtensionKeys[i], ext) \in S
  BY <1>0 DEF Gathered1
<1>3. <<>> \in S
  OBVIOUS
<1> HIDE DEF S, n
<1> DEFINE step == [i \in 1..n |-> [x \in S |-> Gathered1(x, ExtensionKeys[i], ext)]]
<1>4. step \in Steps(n, S)
  BY <1>2 DEF Steps
<1>5. CanFold(n, S, <<>>, step)
  <2> HIDE DEF step
  <2> QED
    BY <1>0, <1>3, <1>4, FoldExists
<1>6. PICK h \in [SUBSET (1..n) -> S] : Folding(h, n, <<>>, step)
  BY <1>5 DEF CanFold
<1>7. h = Folded(h)
  <2>1. ASSUME NEW w \in SUBSET (1..n) PROVE h[w] = Folded(h)[w]
    <3>1. CASE w = {}
      BY <1>6, <3>1 DEF Folding
    <3>2. CASE w # {}
      <4>1. Max(w) \in 1..n
        BY <1>0, <3>2, HasMax
      <4>2. h[w \ {Max(w)}] \in S
        OBVIOUS
      <4>3. h[w] = step[Max(w)][h[w \ {Max(w)}]]
        BY <1>6, <3>2 DEF Folding
      <4>4. step[Max(w)][h[w \ {Max(w)}]] = Gathered1(h[w \ {Max(w)}], ExtensionKeys[Max(w)], ext)
        BY <4>1, <4>2
      <4> QED
        BY <3>2, <4>3, <4>4
    <3> QED
      BY <3>1, <3>2
  <2>2. h = [w \in SUBSET (1..n) |-> h[w]]
    OBVIOUS
  <2> QED
    BY <2>1, <2>2
<1>8. c = Folded(c)
  <2> HIDE DEF Folded
  <2> QED
    BY <1>7
<1>9. \A w \in SUBSET (1..n) : c[w] = IF w = {} THEN <<>>
                                      ELSE Gathered1(c[w \ {Max(w)}], ExtensionKeys[Max(w)], ext)
  <2> HIDE DEF c
  <2>1. \A w \in SUBSET (1..n) : c[w] = Folded(c)[w]
    BY <1>8
  <2> QED
    BY <2>1
<1> HIDE DEF c
<1> DEFINE acc == [i \in 0..n |-> c[1..i]]
<1>10. acc[0] = <<>> /\ acc[n] = c[1..n]
  <2>1. 1..0 = {} /\ 0 \in 0..n /\ n \in 0..n
    BY <1>0
  <2> QED
    BY <1>9, <2>1
<1>11. ASSUME NEW i \in 1..n PROVE acc[i] = Gathered1(acc[i - 1], ExtensionKeys[i], ext)
  <2>1. Max(1..i) = i /\ 1..i # {} /\ (1..i) \ {i} = 1..(i - 1)
    BY i \in Nat \ {0}, MaxOfPrefix
  <2>2. i \in 0..n /\ i - 1 \in 0..n /\ 1..i \in SUBSET (1..n)
    BY <1>0
  <2> QED
    BY <1>9, <2>1, <2>2
<1> HIDE DEF acc
<1> DEFINE T == {i \in Nat : i <= n => acc[i] \in S}
<1>12. 0 \in T
  BY <1>3, <1>10
<1>13. ASSUME NEW i \in Nat, i \in T PROVE i + 1 \in T
  <2> SUFFICES ASSUME i + 1 <= n PROVE acc[i + 1] \in S
    OBVIOUS
  <2>1. i + 1 \in 1..n /\ (i + 1) - 1 = i /\ acc[i] \in S
    BY <1>0, <1>13
  <2> QED
    BY <1>2, <1>11, <2>1
<1>14. ASSUME NEW i \in 0..n PROVE acc[i] \in S
  <2>1. i \in Nat
    BY <1>0
  <2> HIDE DEF T
  <2>2. i \in T
    BY <1>12, <1>13, <2>1, Induction
  <2> QED
    BY <1>0, <2>2 DEF T
<1>15. Gathering(acc, ext)
  BY <1>10, <1>11 DEF Gathering, n
<1>16. KeysOf(ext) = acc[Len(ExtensionKeys)]
  BY <1>1, <1>10 DEF n
<1>17. \A i \in 0..Len(ExtensionKeys) : acc[i] \in Seq(C)
  BY <1>14 DEF n, S
<1> QED
  BY <1>15, <1>16, <1>17

\* The keys that are written are those of the map.
LEMMA KeysAre ==
    ASSUME NEW ext \in Extensions
    PROVE  /\ KeysOf(ext) \in Seq(Seq(Characters))
           /\ DOMAIN ext = {KeysOf(ext)[i] : i \in 1..Len(KeysOf(ext))}
<1> DEFINE n == Len(ExtensionKeys)
<1> DEFINE W == Seq(Characters)
<1>0. /\ n \in Nat /\ ExtensionKeys \in Seq(W) /\ DOMAIN ExtensionKeys = 1..n
      /\ DOMAIN ext \subseteq {ExtensionKeys[i] : i \in 1..n}
  <2>1. n \in Nat /\ ExtensionKeys \in Seq(W) /\ DOMAIN ExtensionKeys = 1..n
    BY ExtensionsAssumption
  <2>2. DOMAIN ext \subseteq {ExtensionKeys[i] : i \in DOMAIN ExtensionKeys}
    BY ExtensionsAssumption
  <2> QED
    BY <2>1, <2>2
<1> HIDE DEF n, W
<1>1. PICK acc : Gathering(acc, ext) /\ KeysOf(ext) = acc[n] /\ \A i \in 0..n : acc[i] \in Seq(W)
  <2>1. ExtensionKeys \in Seq(W)
    BY <1>0
  <2> QED
    BY <2>1, GatherSteps DEF n
<1> DEFINE Says(i) == {acc[i][j] : j \in 1..Len(acc[i])} = DOMAIN ext \cap {ExtensionKeys[j] : j \in 1..i}
<1> DEFINE T == {i \in Nat : i <= n => Says(i)}
<1>2. 0 \in T
  <2>1. {acc[0][j] : j \in 1..Len(acc[0])} = {}
    BY <1>1 DEF Gathering
  <2>2. {ExtensionKeys[j] : j \in 1..0} = {}
    OBVIOUS
  <2> QED
    BY <2>1, <2>2
<1>3. ASSUME NEW i \in Nat, i \in T PROVE i + 1 \in T
  <2> SUFFICES ASSUME i + 1 <= n PROVE Says(i + 1)
    <3> HIDE DEF Says
    <3> QED
      OBVIOUS
  <2> DEFINE k == ExtensionKeys[i + 1]
  <2>1. i + 1 \in 1..n /\ (i + 1) - 1 = i /\ i \in 0..n /\ Says(i)
    <3> HIDE DEF Says
    <3> QED
      BY <1>0, <1>3
  <2>2. acc[i + 1] = Gathered1(acc[i], k, ext) /\ acc[i] \in Seq(W) /\ k \in W
    <3>1. ExtensionKeys[i + 1] \in W
      BY <1>0, <2>1
    <3> QED
      BY <1>1, <2>1, <3>1 DEF Gathering, n
  <2>3. {ExtensionKeys[j] : j \in 1..(i + 1)} = {ExtensionKeys[j] : j \in 1..i} \cup {k}
    <3>1. \A j \in 1..(i + 1) : j \in 1..i \/ j = i + 1
      OBVIOUS
    <3>2. i + 1 \in 1..(i + 1) /\ \A j \in 1..i : j \in 1..(i + 1)
      OBVIOUS
    <3> QED
      BY <3>1, <3>2
  <2> HIDE DEF k
  <2>4. CASE k \in DOMAIN ext
    <3>1. acc[i + 1] = Append(acc[i], k)
      BY <2>2, <2>4 DEF Gathered1
    <3>2. {Append(acc[i], k)[j] : j \in 1..Len(Append(acc[i], k))} = {acc[i][j] : j \in 1..Len(acc[i])} \cup {k}
      <4> DEFINE a == acc[i]
      <4> DEFINE b == Append(a, k)
      <4>1. /\ Len(a) \in Nat /\ Len(b) = Len(a) + 1 /\ b[Len(a) + 1] = k
            /\ \A j \in 1..Len(a) : b[j] = a[j]
        BY <2>2
      <4> HIDE DEF a, b
      <4>2. \A j \in 1..(Len(a) + 1) : j \in 1..Len(a) \/ j = Len(a) + 1
        BY <4>1
      <4>3. Len(a) + 1 \in 1..(Len(a) + 1) /\ \A j \in 1..Len(a) : j \in 1..(Len(a) + 1)
        BY <4>1
      <4>4. {b[j] : j \in 1..Len(b)} = {a[j] : j \in 1..Len(a)} \cup {k}
        BY <4>1, <4>2, <4>3
      <4> QED
        BY <4>4 DEF a, b
    <3> QED
      BY <2>1, <2>3, <2>4, <3>1, <3>2
  <2>5. CASE k \notin DOMAIN ext
    <3>1. acc[i + 1] = acc[i]
      BY <2>2, <2>5 DEF Gathered1
    <3> QED
      BY <2>1, <2>3, <2>5, <3>1
  <2> QED
    BY <2>4, <2>5
<1>4. n \in T
  <2> HIDE DEF T
  <2> QED
    BY <1>0, <1>2, <1>3, Induction
<1>5. Says(n) /\ acc[n] \in Seq(W)
  <2>1. n <= n /\ n \in 0..n
    BY <1>0
  <2> HIDE DEF Says
  <2> QED
    BY <1>1, <1>4, <2>1
<1> QED
  BY <1>0, <1>1, <1>5 DEF W

LEMMA Separators == Comma # Semicolon /\ "=" # Semicolon
BY Zenon DEF Semicolon, Comma

\* An item is read as the key and the values it was written from.
LEMMA ItemRead ==
    ASSUME NEW map, NEW key \in Seq(Characters), NEW values \in Seq(Seq(Characters)),
           ~HasAny(key, {":", Semicolon, "="}),
           \A i \in 1..Len(values) : ~HasAny(values[i], {":", Semicolon, Comma})
    PROVE  /\ PutItem(map, ItemText(key, values)) = PutAt(map, key, values)
           /\ ItemText(key, values) \in Seq(Characters)
           /\ ~HasAny(ItemText(key, values), {Semicolon})
           /\ ItemText(key, values) = <<>> => key = <<>> /\ values = <<>>
<1> DEFINE item == ItemText(key, values)
<1>0. ~HasAny(key, {"="}) /\ ~HasAny(key, {Semicolon})
  BY DEF HasAny
<1>1. CASE values = <<>>
  BY <1>0, <1>1 DEF ItemText, PutItem
<1>2. CASE values # <<>>
  <2> DEFINE rest == Joined(values, Comma)
  <2>1. ~HasAny(rest, {Semicolon}) /\ rest \in Seq(Characters)
    <3>1. \A i \in 1..Len(values) : ~HasAny(values[i], {Semicolon})
      BY DEF HasAny
    <3>2. Comma \in Characters /\ Comma \notin {Semicolon}
      BY ExtensionsAssumption, Separators
    <3> QED
      BY <3>1, <3>2, JoinedHas
  <2>2. SplitOn(rest, Comma) = values
    <3>1. \A i \in 1..Len(values) : ~HasAny(values[i], {Comma})
      BY DEF HasAny
    <3>2. Comma \in Characters
      BY ExtensionsAssumption
    <3> QED
      BY <1>2, <3>1, <3>2, SplitJoined
  <2> HIDE DEF rest
  <2>3. item = key \o <<"=">> \o rest
    BY <1>2 DEF ItemText, rest
  <2> DEFINE n == Len(key)
  <2> DEFINE whole == key \o <<"=">> \o rest
  <2>4. /\ n \in Nat /\ whole \in Seq(Characters) /\ Len(whole) = n + 1 + Len(rest) /\ Len(rest) \in Nat
        /\ whole[n + 1] = "=" /\ \A i \in 1..n : whole[i] = key[i]
        /\ \A i \in 1..Len(rest) : whole[n + 1 + i] = rest[i]
    <3>1. <<"=">> \in Seq(Characters)
      BY ExtensionsAssumption
    <3> QED
      BY <2>1, <3>1
  <2>5. \A i \in 1..n : whole[i] # "=" /\ whole[i] # Semicolon
    BY <1>0, <2>4, Separators DEF HasAny
  <2> HIDE DEF whole, n
  <2>6. SubSeq(whole, 1, n) = key
    <3> DEFINE l == SubSeq(whole, 1, n)
    <3>1. l \in Seq(Characters) /\ Len(l) = n /\ \A i \in 1..n : l[i] = whole[i]
      BY <2>4
    <3>2. key \in Seq(Characters) /\ Len(key) = n /\ \A i \in 1..n : whole[i] = key[i]
      BY <2>4 DEF n
    <3> HIDE DEF l
    <3>3. l = key
      BY <3>1, <3>2
    <3> QED
      BY <3>3 DEF l
  <2>7. SubSeq(whole, n + 2, Len(whole)) = rest
    <3> DEFINE l == SubSeq(whole, n + 2, Len(whole))
    <3>1. l \in Seq(Characters) /\ Len(l) = Len(rest) /\ \A i \in 1..Len(rest) : l[i] = whole[n + 1 + i]
      BY <2>4
    <3> HIDE DEF l
    <3>2. \A i \in 1..Len(rest) : l[i] = rest[i]
      BY <2>4, <3>1
    <3>3. l = rest
      BY <2>1, <3>1, <3>2
    <3> QED
      BY <3>3 DEF l
  <2>8. HasAny(whole, {"="}) /\ whole # <<>> /\ n + 1 \in DOMAIN whole /\ DOMAIN whole = 1..Len(whole)
    <3>1. n + 1 \in DOMAIN whole /\ DOMAIN whole = 1..Len(whole)
      BY <2>4
    <3>2. HasAny(whole, {"="})
      BY <2>4, <3>1 DEF HasAny
    <3>3. whole # <<>>
      BY <2>4
    <3> QED
      BY <3>1, <3>2, <3>3
  <2>9. ~HasAny(whole, {Semicolon})
    <3>1. ASSUME NEW i \in 1..Len(whole) PROVE whole[i] # Semicolon
      <4>1. CASE i <= n
        BY <2>4, <2>5, <4>1
      <4>2. CASE i = n + 1
        BY <2>4, <4>2, Separators
      <4>3. CASE i > n + 1
        <5>1. i - (n + 1) \in 1..Len(rest) /\ i = n + 1 + (i - (n + 1))
          BY <2>4, <4>3
        <5>2. whole[i] = rest[i - (n + 1)]
          BY <2>4, <5>1
        <5>3. DOMAIN rest = 1..Len(rest)
          BY <2>1
        <5> QED
          BY <2>1, <5>1, <5>2, <5>3 DEF HasAny
      <4> QED
        BY <2>4, <4>1, <4>2, <4>3
    <3> QED
      BY <2>8, <3>1 DEF HasAny
  <2> DEFINE eq == CHOOSE i \in DOMAIN whole : whole[i] = "=" /\ \A j \in 1..(i - 1) : whole[j] # "="
  <2>10. eq = n + 1
    <3>1. n + 1 \in DOMAIN whole /\ whole[n + 1] = "=" /\ \A j \in 1..((n + 1) - 1) : whole[j] # "="
      BY <2>4, <2>5, <2>8
    <3>2. eq \in DOMAIN whole /\ whole[eq] = "=" /\ \A j \in 1..(eq - 1) : whole[j] # "="
      BY <3>1
    <3> HIDE DEF eq
    <3>3. eq \in Int /\ eq >= 1
      BY <2>8, <3>2
    <3>4. ~(eq < n + 1)
      BY <2>4, <2>5, <3>2, <3>3
    <3>5. ~(n + 1 < eq)
      BY <2>4, <3>2, <3>3
    <3> QED
      BY <2>4, <3>3, <3>4, <3>5
  <2>11. PutItem(map, whole) = PutAt(map, SubSeq(whole, 1, eq - 1), SplitOn(SubSeq(whole, eq + 1, Len(whole)), Comma))
    BY <2>8 DEF PutItem
  <2> HIDE DEF eq
  <2>12. eq - 1 = n /\ eq + 1 = n + 2
    BY <2>4, <2>10
  <2>13. PutItem(map, whole) = PutAt(map, key, values)
    BY <2>2, <2>6, <2>7, <2>11, <2>12
  <2>14. item = whole
    BY <2>3 DEF whole
  <2> HIDE DEF item
  <2> QED
    BY <2>4, <2>8, <2>9, <2>13, <2>14 DEF item
<1> QED
  BY <1>1, <1>2

\* What is read item by item: PutAt after PutAt.
Putting(acc, n, k, v) ==
    acc[0] = <<>> /\ \A i \in 1..n : acc[i] = PutAt(acc[i - 1], k[i], v[i])

\* Whatever was read before, the i-th item puts v[i] at k[i].
ReadAs(items, n, k, v) == \A i \in 1..n : \A m : PutItem(m, items[i]) = PutAt(m, k[i], v[i])

LEMMA PutSteps ==
    ASSUME NEW n \in Nat, NEW items, NEW k, NEW v, NEW s,
           DOMAIN items = 1..n, s # <<>>, SplitOn(s, Semicolon) = items,
           ReadAs(items, n, k, v)
    PROVE  \E acc : Putting(acc, n, k, v) /\ DeserializeExtensions(s) = acc[n]
<1> DEFINE Folded(iter) ==
        [r \in SUBSET (1..n) |-> IF r = {} THEN <<>> ELSE PutItem(iter[r \ {Max(r)}], items[Max(r)])]
<1> DEFINE c == CHOOSE iter : iter = Folded(iter)
<1>1. DeserializeExtensions(s) = c[1..n]
  BY DEF DeserializeExtensions, FoldLeft, MapThenFoldSet
<1> DEFINE Keys1 == {k[i] : i \in 1..n}
<1> DEFINE Vals == {v[i] : i \in 1..n}
<1> DEFINE S == UNION {[K -> Vals] : K \in SUBSET Keys1}
<1>2. ASSUME NEW i \in 1..n, NEW x \in S PROVE PutItem(x, items[i]) \in S
  <2>1. PICK K \in SUBSET Keys1 : x \in [K -> Vals]
    OBVIOUS
  <2>2. K \cup {k[i]} \in SUBSET Keys1
    OBVIOUS
  <2>3. PutAt(x, k[i], v[i]) \in [K \cup {k[i]} -> Vals]
    <3>1. v[i] \in Vals
      OBVIOUS
    <3> HIDE DEF Vals, Keys1
    <3>2. DOMAIN x = K /\ \A y \in K : x[y] \in Vals
      BY <2>1
    <3> QED
      BY <3>1, <3>2 DEF PutAt
  <2>4. PutAt(x, k[i], v[i]) \in S
    BY <2>2, <2>3
  <2> QED
    BY <2>4 DEF ReadAs
<1>3. <<>> \in S
  <2>1. <<>> \in [{} -> Vals]
    <3> HIDE DEF Vals
    <3> QED
      OBVIOUS
  <2>2. {} \in SUBSET Keys1
    OBVIOUS
  <2> HIDE DEF Vals, Keys1
  <2> QED
    BY <2>1, <2>2
<1> HIDE DEF S
<1> DEFINE step == [i \in 1..n |-> [x \in S |-> PutItem(x, items[i])]]
<1>4. step \in Steps(n, S)
  BY <1>2 DEF Steps
<1>5. CanFold(n, S, <<>>, step)
  <2> HIDE DEF step
  <2> QED
    BY <1>3, <1>4, FoldExists
<1>6. PICK h \in [SUBSET (1..n) -> S] : Folding(h, n, <<>>, step)
  BY <1>5 DEF CanFold
<1>7. h = Folded(h)
  <2>1. ASSUME NEW r \in SUBSET (1..n) PROVE h[r] = Folded(h)[r]
    <3>1. CASE r = {}
      BY <1>6, <3>1 DEF Folding
    <3>2. CASE r # {}
      <4>1. Max(r) \in 1..n
        BY <3>2, HasMax
      <4>2. h[r \ {Max(r)}] \in S
        OBVIOUS
      <4>3. h[r] = step[Max(r)][h[r \ {Max(r)}]]
        BY <1>6, <3>2 DEF Folding
      <4>4. step[Max(r)][h[r \ {Max(r)}]] = PutItem(h[r \ {Max(r)}], items[Max(r)])
        BY <4>1, <4>2
      <4> QED
        BY <3>2, <4>3, <4>4
    <3> QED
      BY <3>1, <3>2
  <2>2. h = [r \in SUBSET (1..n) |-> h[r]]
    OBVIOUS
  <2> QED
    BY <2>1, <2>2
<1>8. c = Folded(c)
  <2> HIDE DEF Folded
  <2> QED
    BY <1>7
<1>9. \A r \in SUBSET (1..n) : c[r] = IF r = {} THEN <<>> ELSE PutItem(c[r \ {Max(r)}], items[Max(r)])
  <2> HIDE DEF c
  <2>1. \A r \in SUBSET (1..n) : c[r] = Folded(c)[r]
    BY <1>8
  <2> QED
    BY <2>1
<1> HIDE DEF c
<1> DEFINE acc == [i \in 0..n |-> c[1..i]]
<1>10. acc[0] = <<>> /\ acc[n] = c[1..n]
  <2>1. 1..0 = {} /\ 0 \in 0..n /\ n \in 0..n
    OBVIOUS
  <2> QED
    BY <1>9, <2>1
<1>11. ASSUME NEW i \in 1..n PROVE acc[i] = PutAt(acc[i - 1], k[i], v[i])
  <2>1. Max(1..i) = i /\ 1..i # {} /\ (1..i) \ {i} = 1..(i - 1)
    BY i \in Nat \ {0}, MaxOfPrefix
  <2>2. i \in 0..n /\ i - 1 \in 0..n /\ 1..i \in SUBSET (1..n)
    OBVIOUS
  <2>3. acc[i] = PutItem(acc[i - 1], items[i])
    BY <1>9, <2>1, <2>2
  <2> QED
    BY <2>3 DEF ReadAs
<1> HIDE DEF acc
<1>12. Putting(acc, n, k, v)
  BY <1>10, <1>11 DEF Putting
<1> QED
  BY <1>1, <1>10, <1>12

\* A map but the blank one that can be written is read back, whatever its keys
\* and values.
LEMMA ExtensionsInvert ==
    ASSUME NEW ext \in Extensions, ext # Blank, ~Unwritable(ext)
    PROVE  DeserializeExtensions(SerializeExtensions(ext)) = ext
<1> DEFINE ks == KeysOf(ext)
<1> DEFINE n == Len(ks)
<1> DEFINE items == [i \in 1..n |-> ItemText(ks[i], ext[ks[i]])]
<1> DEFINE s == Joined(items, Semicolon)
<1>0. /\ ks \in Seq(Seq(Characters)) /\ n \in Nat /\ DOMAIN ks = 1..n
      /\ DOMAIN ext = {ks[i] : i \in 1..n}
  <2>1. ks \in Seq(Seq(Characters))
    BY KeysAre
  <2>2. DOMAIN ext = {ks[i] : i \in 1..n}
    BY KeysAre
  <2> HIDE DEF ks
  <2>3. n \in Nat /\ DOMAIN ks = 1..n
    BY <2>1
  <2> QED
    BY <2>1, <2>2, <2>3
<1>1. SerializeExtensions(ext) = s
  BY <1>0 DEF SerializeExtensions
<1> HIDE DEF ks, n
<1>2. ext \in [DOMAIN ext -> Seq(Seq(Characters))]
  BY ExtensionsAssumption
<1>3. ASSUME NEW i \in 1..n
      PROVE  /\ ks[i] \in Seq(Characters) /\ ks[i] \in DOMAIN ext /\ ext[ks[i]] \in Seq(Seq(Characters))
             /\ ~HasAny(ks[i], {":", Semicolon, "="})
             /\ \A j \in 1..Len(ext[ks[i]]) : ~HasAny(ext[ks[i]][j], {":", Semicolon, Comma})
  <2>1. ks[i] \in Seq(Characters) /\ ks[i] \in DOMAIN ext
    BY <1>0
  <2>2. ext[ks[i]] \in Seq(Seq(Characters))
    BY <1>2, <2>1
  <2>3. DOMAIN ext[ks[i]] = 1..Len(ext[ks[i]])
    BY <2>2
  <2> QED
    BY <2>1, <2>2, <2>3 DEF Unwritable
<1>4. ASSUME NEW i \in 1..n
      PROVE  /\ \A m : PutItem(m, ItemText(ks[i], ext[ks[i]])) = PutAt(m, ks[i], ext[ks[i]])
             /\ ItemText(ks[i], ext[ks[i]]) \in Seq(Characters)
             /\ ~HasAny(ItemText(ks[i], ext[ks[i]]), {Semicolon})
             /\ ItemText(ks[i], ext[ks[i]]) = <<>> => ks[i] = <<>> /\ ext[ks[i]] = <<>>
  <2> DEFINE key == ks[i]
  <2> DEFINE vals == ext[ks[i]]
  <2>1. /\ key \in Seq(Characters) /\ vals \in Seq(Seq(Characters))
        /\ ~HasAny(key, {":", Semicolon, "="})
        /\ \A j \in 1..Len(vals) : ~HasAny(vals[j], {":", Semicolon, Comma})
    BY <1>3
  <2> HIDE DEF key, vals
  <2>2. /\ \A m : PutItem(m, ItemText(key, vals)) = PutAt(m, key, vals)
        /\ ItemText(key, vals) \in Seq(Characters)
        /\ ~HasAny(ItemText(key, vals), {Semicolon})
        /\ ItemText(key, vals) = <<>> => key = <<>> /\ vals = <<>>
    BY <2>1, ItemRead
  <2> QED
    BY <2>2 DEF key, vals
<1>5. /\ items \in Seq(Seq(Characters)) /\ Len(items) = n /\ DOMAIN items = 1..n
      /\ \A i \in 1..n : items[i] = ItemText(ks[i], ext[ks[i]])
  <2>1. \A i \in 1..n : ItemText(ks[i], ext[ks[i]]) \in Seq(Characters)
    BY <1>4
  <2>2. \A i \in 1..n : items[i] = ItemText(ks[i], ext[ks[i]])
    OBVIOUS
  <2>3. items \in [1..n -> Seq(Characters)]
    BY <2>1
  <2> HIDE DEF items
  <2>4. items \in Seq(Seq(Characters)) /\ Len(items) = n /\ DOMAIN items = 1..n
    BY <1>0, <2>3
  <2> QED
    BY <2>2, <2>4
<1> HIDE DEF items
<1>6. Semicolon \in Characters
  BY ExtensionsAssumption
<1>7. CASE n = 0
  <2>1. DOMAIN ext = {}
    BY <1>0, <1>7
  <2>2. ext = <<>>
    BY <1>2, <2>1
  <2>3. s = <<>>
    <3>1. PICK acc : Joining(acc, items, Semicolon) /\ Joined(items, Semicolon) = acc[Len(items)]
      BY <1>5, <1>6, JoinSteps
    <3> QED
      BY <1>5, <1>7, <3>1 DEF Joining
  <2> QED
    BY <1>1, <2>2, <2>3 DEF DeserializeExtensions
<1>8. CASE n # 0
  <2>1. items # <<>>
    BY <1>5, <1>8
  <2>2. SplitOn(s, Semicolon) = items
    <3>1. \A i \in 1..Len(items) : ~HasAny(items[i], {Semicolon})
      BY <1>4, <1>5
    <3> QED
      BY <1>5, <1>6, <2>1, <3>1, SplitJoined
  <2>3. s # <<>>
    <3> SUFFICES ASSUME s = <<>> PROVE FALSE
      OBVIOUS
    <3>1. items = << <<>> >>
      BY <2>2, SplitOfNothing
    <3>2. n = 1 /\ items[1] = <<>>
      BY <1>5, <3>1
    <3>3. 1 \in 1..n
      BY <3>2
    <3>4. ks[1] = <<>> /\ ext[ks[1]] = <<>>
      BY <1>4, <1>5, <3>2, <3>3
    <3>5. DOMAIN ext = { <<>> }
      <4>1. \A i \in 1..n : i = 1
        BY <3>2
      <4> QED
        BY <1>0, <3>3, <3>4, <4>1
    <3>6. ext = [k \in { <<>> } |-> <<>>]
      <4>1. ext = [k \in DOMAIN ext |-> ext[k]]
        BY <1>2
      <4>2. \A k \in { <<>> } : ext[k] = <<>>
        BY <3>4
      <4> QED
        BY <3>5, <4>1, <4>2
    <3> QED
      BY <3>6 DEF Blank
  <2> DEFINE v == [i \in 1..n |-> ext[ks[i]]]
  <2>4. ReadAs(items, n, ks, v)
    BY <1>4, <1>5 DEF ReadAs
  <2>5. \A i \in 1..n : v[i] = ext[ks[i]]
    OBVIOUS
  <2> HIDE DEF v, s
  <2>6. PICK acc : Putting(acc, n, ks, v) /\ DeserializeExtensions(s) = acc[n]
    <3>1. n \in Nat /\ DOMAIN items = 1..n
      BY <1>0, <1>5
    <3>2. s # <<>> /\ SplitOn(s, Semicolon) = items
      BY <2>2, <2>3
    <3>3. \E acc : Putting(acc, n, ks, v) /\ DeserializeExtensions(s) = acc[n]
      BY <2>4, <3>1, <3>2, PutSteps
    <3> QED
      BY <3>3
  <2> DEFINE Right(i) == /\ DOMAIN acc[i] = {ks[j] : j \in 1..i}
                         /\ \A k \in DOMAIN acc[i] : acc[i][k] = ext[k]
                         /\ acc[i] = [k \in DOMAIN acc[i] |-> acc[i][k]]
  <2> DEFINE T == {i \in Nat : i <= n => Right(i)}
  <2>7. 0 \in T
    <3>1. acc[0] = <<>> /\ DOMAIN <<>> = {} /\ 1..0 = {}
      BY <2>6 DEF Putting
    <3>2. <<>> = [k \in DOMAIN <<>> |-> <<>>[k]]
      OBVIOUS
    <3> QED
      BY <3>1, <3>2
  <2>8. ASSUME NEW i \in Nat, i \in T PROVE i + 1 \in T
    <3> SUFFICES ASSUME i + 1 <= n PROVE Right(i + 1)
      <4> HIDE DEF Right
      <4> QED
        OBVIOUS
    <3>1. i + 1 \in 1..n /\ (i + 1) - 1 = i /\ Right(i)
      <4> HIDE DEF Right
      <4> QED
        BY <1>0, <2>8
    <3>2. acc[i + 1] = PutAt(acc[i], ks[i + 1], ext[ks[i + 1]])
      BY <2>5, <2>6, <3>1 DEF Putting
    <3>3. {ks[j] : j \in 1..(i + 1)} = {ks[j] : j \in 1..i} \cup {ks[i + 1]}
      <4>1. \A j \in 1..(i + 1) : j \in 1..i \/ j = i + 1
        OBVIOUS
      <4>2. i + 1 \in 1..(i + 1) /\ \A j \in 1..i : j \in 1..(i + 1)
        OBVIOUS
      <4> QED
        BY <4>1, <4>2
    <3> DEFINE a == acc[i]
    <3> DEFINE key == ks[i + 1]
    <3>4. DOMAIN a = {ks[j] : j \in 1..i} /\ \A k \in DOMAIN a : a[k] = ext[k]
      BY <3>1
    <3> DEFINE b == PutAt(a, key, ext[key])
    <3> HIDE DEF a, key
    <3>5. /\ DOMAIN b = DOMAIN a \cup {key} /\ b = [k \in DOMAIN b |-> b[k]]
          /\ \A k \in DOMAIN b : b[k] = ext[k]
      BY <3>4 DEF PutAt
    <3>6. acc[i + 1] = b
      BY <3>2 DEF a, key
    <3>7. DOMAIN b = {ks[j] : j \in 1..(i + 1)}
      BY <3>3, <3>4, <3>5 DEF key
    <3> HIDE DEF b
    <3> QED
      BY <3>5, <3>6, <3>7
  <2>9. Right(n)
    <3> HIDE DEF T
    <3>1. n \in T
      BY <1>0, <2>7, <2>8, Induction
    <3> HIDE DEF Right
    <3> QED
      BY <1>0, <3>1 DEF T
  <2>10. acc[n] = ext
    <3>1. DOMAIN acc[n] = DOMAIN ext
      BY <1>0, <2>9
    <3>2. ext = [k \in DOMAIN ext |-> ext[k]]
      BY <1>2
    <3> QED
      BY <2>9, <3>1, <3>2
  <2> QED
    BY <1>1, <2>6, <2>10
<1> QED
  BY <1>7, <1>8

-----------------------------------------------------------------------------
(* The text of a stamp *)

\* Two digits are enough for the years of one century.
LEMMA YearSurvives ==
    ASSUME NEW y \in 2000..2099
    PROVE  ParseYy(FmtYy(y)) = y /\ FmtYy(y) # NotADate
<1>1. (y % 100) = y - 2000
  BY SMT
<1> QED
  BY <1>1 DEF ParseYy, FmtYy, NotADate

LEMMA ParsedAsMinted ==
    ASSUME StampInv, Parse, ~altered,
           wanted.version \in {0, 1}, wanted.year \in 2000..2099, wanted.ext # Blank
    PROVE  stampPhase' = "parsed" /\ received' = minted
<1>1. /\ wanted \in Requests /\ wanted.bits \in Int /\ wanted.ext \in Extensions /\ zeros \in Int
      /\ ~Unwritable(wanted.ext) /\ Faithful
  BY RequestsAreTyped DEF StampInv, Parse
<1>2. PICK n \in Nat : token = StampText(wanted, n)
  BY <1>1 DEF Faithful
<1>3. /\ token.version = wanted.version /\ token.fields = Fields(wanted.version)
      /\ token.claimed = (IF wanted.version = 0 THEN 0 ELSE wanted.bits)
      /\ token.date = FmtYy(wanted.year) /\ token.resource = wanted.resource
      /\ token.ext = SerializeExtensions(wanted.ext)
  BY <1>2 DEF StampText, Fields
<1>4. ~Malformed
  BY <1>3, YearSurvives DEF Malformed
<1>5. ParsedValue = IF wanted.version = 0 THEN zeros ELSE wanted.bits
  <2>1. wanted.version # 0 => Smaller(zeros, token.claimed) = wanted.bits
    <3>1. zeros >= wanted.bits
      BY <1>1 DEF Faithful
    <3>2. Smaller(zeros, wanted.bits) = wanted.bits
      BY <1>1, <3>1, SmallerIsSmaller
    <3> QED
      BY <1>3, <3>2
  <2> QED
    BY <1>3, <2>1 DEF ParsedValue
<1>6. ParseYy(token.date) = wanted.year
  BY <1>3, YearSurvives
<1>7. DeserializeExtensions(token.ext) = wanted.ext
  BY <1>1, <1>3, ExtensionsInvert
<1>8. stampPhase' = "parsed" /\ received' =
          Stamp(ParsedValue, token.resource, ParseYy(token.date), token.version,
                DeserializeExtensions(token.ext), zeros)
  BY <1>4 DEF Parse
<1> QED
  BY <1>1, <1>3, <1>5, <1>6, <1>7, <1>8 DEF Faithful

\* A stamp whose text nobody touches is the same stamp after Parse: its value,
\* resource, date, version and all its extensions.
THEOREM TokensSurvive == StampSpec => []TokenSurvives
<1>1. StampInit => TokenSurvives
  BY DEF StampInit, StampStart, TokenSurvives
<1>2. StampInv /\ TokenSurvives /\ [StampNext]_stampVars => TokenSurvives'
  <2> SUFFICES ASSUME StampInv, TokenSurvives, [StampNext]_stampVars
               PROVE  TokenSurvives'
    OBVIOUS
  <2>1. CASE CheckRequest
    BY <2>1 DEF CheckRequest, TokenSurvives
  <2>2. CASE Parse
    <3>1. wanted' = wanted /\ altered' = altered /\ minted' = minted
      BY <2>2 DEF Parse
    <3> QED
      BY <2>2, <3>1, ParsedAsMinted DEF TokenSurvives
  <2>3. CASE \E z \in 0..HashBits : TryCandidate(z) \/ Alter(z)
    <3>1. stampPhase' \notin {"parsed", "rejected"}
      BY <2>3 DEF TryCandidate, Accept, Alter, Replace
    <3> QED
      BY <3>1 DEF TokenSurvives
  <2>4. CASE UNCHANGED stampVars
    BY <2>4 DEF stampVars, TokenSurvives
  <2> QED
    BY <2>1, <2>2, <2>3, <2>4 DEF StampNext
<1> QED
  BY <1>1, <1>2, StampInvariant, PTL DEF StampSpec
=============================================================================
