------------------------------- MODULE Stamps -------------------------------
(***************************************************************************)
(* crypto::HashCash: a stamp is minted for a resource, its text is carried  *)
(* to somebody else, who may be given another text, and parsed there. The   *)
(* text of a stamp is the record of its fields, a date is its year, and a   *)
(* name is a sequence of words and separators. What SHA-1 makes of a text   *)
(* is a number of leading zero bits nobody can foresee, the same at every   *)
(* look.                                                                    *)
(***************************************************************************)
EXTENDS Integers, SequencesExt

CONSTANTS
    Resources,     \* names that stamps are asked for
    Characters,    \* what the texts of extensions are made of
    ExtensionKeys, \* the names of extensions, in the order of a std::map
    Extensions,    \* the maps asked for: functions from keys to sequences of values
    Years,         \* the years of the dates
    Asked,         \* the bits asked for; nothing keeps them from being negative
    HashBits,      \* kHashBits: 160 in the code
    MaxTries,      \* bound: candidates tried
    NoStamp        \* no HashCash object

\* Two of the separators
Semicolon == ";"
Comma == ","

ASSUME ExtensionsAssumption ==
    /\ {":", Semicolon, "=", Comma} \subseteq Characters
    /\ ExtensionKeys \in Seq(Seq(Characters))
    /\ \A ext \in Extensions :
          /\ DOMAIN ext \subseteq {ExtensionKeys[i] : i \in DOMAIN ExtensionKeys}
          /\ ext \in [DOMAIN ext -> Seq(Seq(Characters))]

ASSUME StampsAssumption ==
    Years \subseteq Int /\ Asked \subseteq Int /\ HashBits \in Nat /\ MaxTries \in Nat

VARIABLES
    wanted,     \* the arguments of MintWith
    tries,      \* candidates hashed so far
    token,      \* the text that is carried
    zeros,      \* leading zero bits of its SHA-1
    altered,    \* the text is not the one that was minted
    minted,     \* the HashCash that MintWith returned
    received,   \* the HashCash that Parse returned
    stampPhase  \* "asked", "generate", "carried", "parsed", "refused", "rejected"

stampVars == <<wanted, tries, token, zeros, altered, minted, received, stampPhase>>

Requests == [resource : Resources, ext : Extensions, year : Years, bits : Asked,
             version : {-1, 0, 1, 2}]

-----------------------------------------------------------------------------
(* The extensions as text: "key;key=value,value" *)

SplitOn(s, delim) ==
    FoldLeft(LAMBDA parts, c : IF c = delim THEN Append(parts, <<>>)
                               ELSE [parts EXCEPT ![Len(parts)] = Append(@, c)],
             << <<>> >>, s)

Joined(parts, delim) ==
    FoldLeft(LAMBDA s, i : s \o (IF i = 1 THEN <<>> ELSE <<delim>>) \o parts[i],
             <<>>, [i \in DOMAIN parts |-> i])

HasAny(s, chars) == \E i \in DOMAIN s : s[i] \in chars

Unwritable(ext) ==
    \E key \in DOMAIN ext :
        \/ HasAny(key, {":", Semicolon, "="})
        \/ \E i \in DOMAIN ext[key] : HasAny(ext[key][i], {":", Semicolon, Comma})

\* The keys of a std::map, in its order.
KeysOf(ext) ==
    FoldLeft(LAMBDA keys, k : IF k \in DOMAIN ext THEN Append(keys, k) ELSE keys,
             <<>>, ExtensionKeys)

\* Mutant: a key without values is written as one with an empty value.
BugItemText(key, values) == key \o <<"=">> \o Joined(values, Comma)

ItemText(key, values) ==
    IF values = <<>> THEN key ELSE key \o <<"=">> \o Joined(values, Comma)

SerializeExtensions(ext) ==
    LET keys == KeysOf(ext)
    IN Joined([i \in DOMAIN keys |-> ItemText(keys[i], ext[keys[i]])], Semicolon)

\* out[key] = values, and that for the key and the values of an item
PutAt(out, key, values) ==
    [k \in DOMAIN out \cup {key} |-> IF k = key THEN values ELSE out[k]]

PutItem(out, item) ==
    IF ~HasAny(item, {"="}) THEN PutAt(out, item, <<>>)
    ELSE LET eq == CHOOSE i \in DOMAIN item : item[i] = "=" /\ \A j \in 1..(i - 1) : item[j] # "="
         IN PutAt(out, SubSeq(item, 1, eq - 1), SplitOn(SubSeq(item, eq + 1, Len(item)), Comma))

DeserializeExtensions(text) ==
    IF text = <<>> THEN <<>>
    ELSE FoldLeft(LAMBDA out, item : PutItem(out, item), <<>>, SplitOn(text, Semicolon))

\* FmtYyMmDd and ParseYyMmDd keep two digits of the year. NotADate stands for
\* any text that is not six digits, or no date of the calendar.
NotADate == -1
FmtYy(year) == year % 100
ParseYy(yy) == 2000 + yy

\* The text of a stamp. Version 0 has no field for the bits. `fields` is how
\* many there are, and 0 when a number is not one.
StampText(w, n) ==
    [version |-> IF w.version = 0 THEN 0 ELSE 1,
     claimed |-> IF w.version = 0 THEN 0 ELSE w.bits,
     fields |-> IF w.version = 0 THEN 6 ELSE 7,
     date |-> FmtYy(w.year), resource |-> w.resource, ext |-> SerializeExtensions(w.ext),
     counter |-> n]

\* A HashCash; `computed` is what its ComputedBits() returns.
Stamp(value, resource, year, version, ext, computed) ==
    [value |-> value, resource |-> resource, year |-> year, version |-> version, ext |-> ext,
     computed |-> computed]

IsValidFor(s, resource, minBits) == s.resource = resource /\ s.computed >= minBits

-----------------------------------------------------------------------------
(* MintWith *)

NoToken == "no token"

StampStart(request) ==
    /\ wanted = request
    /\ tries = 0 /\ token = NoToken /\ zeros = 0 /\ altered = FALSE
    /\ minted = NoStamp /\ received = NoStamp /\ stampPhase = "asked"

StampInit == \E request \in Requests : StampStart(request)

Refused ==
    \/ wanted.version > 1 \/ wanted.bits > HashBits
    \/ HasAny(wanted.resource, {":"}) \/ Unwritable(wanted.ext)

CheckRequest ==
    /\ stampPhase = "asked"
    /\ stampPhase' = IF Refused THEN "refused" ELSE "generate"
    /\ UNCHANGED <<wanted, tries, token, zeros, altered, minted, received>>

\* The stamp of a candidate with z zero bits, and the return of MintWith.
Accept(z) ==
    /\ token' = StampText(wanted, tries + 1) /\ zeros' = z
    /\ minted' = Stamp(IF wanted.version = 0 THEN z ELSE wanted.bits, wanted.resource,
                       wanted.year, wanted.version, wanted.ext, z)
    /\ stampPhase' = "carried"

\* One turn of Generate's loop: a candidate whose hash begins with z zeros.
TryCandidate(z) ==
    /\ stampPhase = "generate" /\ tries < MaxTries
    /\ tries' = tries + 1
    /\ IF z >= wanted.bits THEN Accept(z) ELSE UNCHANGED <<token, zeros, minted, stampPhase>>
    /\ UNCHANGED <<wanted, altered, received>>

-----------------------------------------------------------------------------
\* Another text, one field of it changed, reaches the reader; it has a hash of
\* its own.
Replace(other, z) ==
    /\ stampPhase = "carried" /\ ~altered /\ other # token
    /\ token' = other /\ altered' = TRUE /\ zeros' = z
    /\ UNCHANGED <<wanted, tries, minted, received, stampPhase>>

Alter(z) ==
    /\ stampPhase = "carried"
    /\ \/ \E v \in {0, 1, 2} : Replace([token EXCEPT !.version = v], z)
       \/ token.version = 1 /\ \E b \in Asked : Replace([token EXCEPT !.claimed = b], z)
       \/ \E f \in {0, 6, 7} : Replace([token EXCEPT !.fields = f], z)
       \/ \E y \in Years : Replace([token EXCEPT !.date = FmtYy(y)], z)
       \/ Replace([token EXCEPT !.date = NotADate], z)
       \/ \E r \in Resources : ~HasAny(r, {":"}) /\ Replace([token EXCEPT !.resource = r], z)
       \/ Replace([token EXCEPT !.ext = Append(@, Semicolon)], z)

(* Parse *)

Fields(version) == IF version = 0 THEN 6 ELSE 7

Malformed ==
    \/ token.version \notin {0, 1}
    \/ token.fields # Fields(token.version)
    \/ token.date = NotADate

Smaller(a, b) == IF a < b THEN a ELSE b

\* Mutant: the claim is believed.
BugParsedValue == IF token.version = 0 THEN zeros ELSE token.claimed

\* The value a parsed stamp is given: the claim counts only as far as it is earned.
ParsedValue == IF token.version = 0 THEN zeros ELSE Smaller(zeros, token.claimed)

Parse ==
    /\ stampPhase = "carried"
    /\ IF Malformed
       THEN stampPhase' = "rejected" /\ UNCHANGED received
       ELSE /\ received' = Stamp(ParsedValue, token.resource, ParseYy(token.date), token.version,
                                 DeserializeExtensions(token.ext), zeros)
            /\ stampPhase' = "parsed"
    /\ UNCHANGED <<wanted, tries, token, zeros, altered, minted>>

StampNext ==
    \/ CheckRequest \/ Parse
    \/ \E z \in 0..HashBits : TryCandidate(z) \/ Alter(z)

StampSpec == StampInit /\ [][StampNext]_stampVars

-----------------------------------------------------------------------------
\* Whoever trusts value() is right to: a stamp that exists, minted here or
\* parsed from a text anybody may have changed, is valid for its own resource
\* at its own value, and a minted one at the bits that were asked for.
ValueIsEarned ==
    /\ received # NoStamp => IsValidFor(received, received.resource, received.value)
    /\ minted # NoStamp => /\ IsValidFor(minted, wanted.resource, minted.value)
                           /\ IsValidFor(minted, wanted.resource, wanted.bits)

\* The one map that is written as nothing.
Blank == [k \in { <<>> } |-> <<>>]

\* A stamp whose text arrives as it was minted is the same stamp at the other
\* end: value, resource, date, version and extensions. What the text cannot
\* say is excepted: a version below 0, a year of another century, and the one
\* extension that is written as nothing.
TokenSurvives ==
    ~altered /\ stampPhase \in {"parsed", "rejected"}
             /\ wanted.version \in {0, 1} /\ wanted.year \in 2000..2099 /\ wanted.ext # Blank
        => stampPhase = "parsed" /\ received = minted
=============================================================================
