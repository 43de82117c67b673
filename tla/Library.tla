------------------------------ MODULE Library ------------------------------
(***************************************************************************)
(* What the library offers besides its threads, services and sets: an       *)
(* envelope's JSON, encodings, stamps, hashes, versions, settings,          *)
(* directories, digests and derived keys. They share no state and do not    *)
(* call each other in the parts modelled here, so that a behaviour follows  *)
(* one of them, `subject`, while the others stand still.                    *)
(***************************************************************************)
EXTENDS EnvelopeWire, BitCodec, Stamps, Versions, Hashes, Settings, MCAppDirs, ShaBlocks, PasswordKeys

VARIABLE subject

Subjects == {"envelope", "codec", "stamp", "version", "hash", "setting", "directories", "padding", "key"}

libraryVars ==
    <<subject, vars, codecVars, stampVars, versionVars, hashVars, settingVars, appVars,
      shaVars, keyVars>>

-----------------------------------------------------------------------------
\* What the run gives the constants.
MCMessages == UNION {[1..n -> {0, 255, 165}] : n \in 0..5}
MCResources == {<<"r">>, <<"s", "/", "1">>, <<"r", ":">>}
MCAsked == {-1, 0, 2}
MCExtensionKeys == << <<>>, <<"k">>, <<"m">>, <<"k", "=">> >>
MCExtensions ==
    {<<>>, <<>> :> <<>>} \cup
    {<<"k">> :> vs : vs \in {<<>>, << <<>> >>, << <<"v">>, <<>> >>, << <<"a", "=">>, <<"v">>, <<"v">> >>,
                             << <<"v", ",">> >>}} \cup
    {(<<>> :> << <<>> >>) @@ (<<"m">> :> <<>>), (<<>> :> <<>>) @@ (<<"m">> :> << <<"v">> >>),
     <<"k", "=">> :> <<>>}
MCDigits == {0, 1, 9, Separator, Letter}
MCVersionTexts ==
    UNION {[1..n -> MCDigits] : n \in 0..2} \cup
    {<<1, Separator, c>> : c \in MCDigits} \cup {<<c, Letter, 1>> : c \in MCDigits} \cup
    {<<1, 2, 7>>, <<1, 2, 8>>, <<2, 5, 5>>, <<2, 5, 6>>, <<2, 5, 7>>, <<9, 9, 9, 9>>,
     <<1, Separator, 9, 9, 9>>, <<2, 5, 5, Separator, 1>>, <<1, Separator, Separator, 1>>,
     <<1, Letter, Separator, Separator>>, <<Separator, 1, Separator>>}
MCPlain == UNION {[1..n -> {0, 1, 58, 255}] : n \in 0..3}
MCDigests ==
    UNION {{[i \in 1..n |-> 0], [i \in 1..n |-> (i * 7) % 256], [i \in 1..n |-> 255]} : n \in {20, 32, 64}}
MCEnvironments == {<<>>, << <<"a", "=", "0">>, <<"b", "=", "=", "0">> >>, << <<"=", "c">>, <<"a">>, <<"b", "=">> >>}
MCLines ==
    {<<>>, <<" ">>, <<"#", "a", "=", "1">>, <<" ", "a", " ", "=", " ", "1">>, <<"a", ":", "2">>,
     <<"b", ":", "3", "=", "4">>, <<"=", "5">>, <<"b">>}
MCFiles == UNION {[1..n -> MCLines] : n \in 0..3}
MCArguments == {<<>>, << <<"a", "=", "6">> >>, << <<"a", "=", "7">>, <<"=", "b">>, <<"a", "=">> >>,
                << <<"b", ":", "8">>, <<"b", ":", "3", "=", "9">> >>}
\* Lengths around the place of the length field and around the end of a block,
\* of 64 and of 128 bytes; the bytes look like what the padding writes.
MCShaMessages ==
    {[i \in 1..n |-> IF i = n THEN 128 ELSE 0] :
        n \in {0, 1, 31, 32, 55, 56, 57, 63, 64, 65, 111, 112, 113, 119, 120, 127, 128, 129, 184}}
\* Passwords below, at and above a block, which is three bytes in the run; {} is
\* the byte 0, and one password is another's SHA-1.
MCByte(name) == Fresh(name, 0, <<>>)
MCLong == <<MCByte("a"), MCByte("b"), MCByte("a"), {}>>
MCPasswords ==
    {<<>>, <<MCByte("a")>>, <<MCByte("a"), {}>>, <<MCByte("a"), MCByte("b"), MCByte("b")>>,
     <<{}, {}, {}>>, MCLong, Sha1(MCLong)}
MCSalts == {<<>>, <<MCByte("a")>>, <<{}, MCByte("c"), {}, {}>>}
MCIterations == {-1, 0, 1, 2, 3}

-----------------------------------------------------------------------------
\* One state for whoever is not the subject.
NoRequest == [resource |-> <<>>, ext |-> <<>>, year |-> 2000, bits |-> 0, version |-> 1]
NoEnv == [home |-> NoVar, xdg |-> [kind \in AppKinds |-> NoVar]]
NoCall == [kind |-> "data", group |-> "g", app |-> "a", create |-> FALSE]
NoPassword == [password |-> <<>>, salt |-> <<>>, iterations |-> 1, length |-> 0]

LibraryInit ==
    /\ subject \in Subjects
    /\ IF subject = "envelope" THEN Init ELSE Start(None)
    /\ IF subject = "codec" THEN CodecInit ELSE CodecStart("base32", <<>>)
    /\ IF subject = "stamp" THEN StampInit ELSE StampStart(NoRequest)
    /\ IF subject = "version" THEN VersionInit ELSE VersionStart(<<>>, <<>>, TRUE)
    /\ IF subject = "hash" THEN HashInit ELSE HashStart("plain58", <<>>)
    /\ IF subject = "setting" THEN SettingInit ELSE SettingStart(<<>>, <<>>, <<>>, FALSE)
    /\ IF subject = "directories" THEN AppInit
       ELSE AppStart(NoEnv, [p \in AppCallers |-> NoCall], {}, {})
    /\ IF subject = "padding" THEN ShaInit ELSE ShaStart("Sha1", <<>>)
    /\ IF subject = "key" THEN KeyInit ELSE KeyStart(NoPassword)

LibraryNext ==
    \/ /\ subject = "envelope" /\ Next
       /\ UNCHANGED <<codecVars, stampVars, versionVars, hashVars, settingVars, appVars, shaVars, keyVars, subject>>
    \/ /\ subject = "codec" /\ CodecNext
       /\ UNCHANGED <<vars, stampVars, versionVars, hashVars, settingVars, appVars, shaVars, keyVars, subject>>
    \/ /\ subject = "stamp" /\ StampNext
       /\ UNCHANGED <<vars, codecVars, versionVars, hashVars, settingVars, appVars, shaVars, keyVars, subject>>
    \/ /\ subject = "version" /\ VersionNext
       /\ UNCHANGED <<vars, codecVars, stampVars, hashVars, settingVars, appVars, shaVars, keyVars, subject>>
    \/ /\ subject = "hash" /\ HashNext
       /\ UNCHANGED <<vars, codecVars, stampVars, versionVars, settingVars, appVars, shaVars, keyVars, subject>>
    \/ /\ subject = "setting" /\ SettingNext
       /\ UNCHANGED <<vars, codecVars, stampVars, versionVars, hashVars, appVars, shaVars, keyVars, subject>>
    \/ /\ subject = "directories" /\ AppNext
       /\ UNCHANGED <<vars, codecVars, stampVars, versionVars, hashVars, settingVars, shaVars, keyVars, subject>>
    \/ /\ subject = "padding" /\ ShaNext
       /\ UNCHANGED <<vars, codecVars, stampVars, versionVars, hashVars, settingVars, appVars, keyVars, subject>>
    \/ /\ subject = "key" /\ KeyNext
       /\ UNCHANGED <<vars, codecVars, stampVars, versionVars, hashVars, settingVars, appVars, shaVars, subject>>

LibrarySpec == LibraryInit /\ [][LibraryNext]_libraryVars
=============================================================================
