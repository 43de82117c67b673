------------------------------ MODULE Settings ------------------------------
(***************************************************************************)
(* config.hpp: settings are collected from the environment, a properties    *)
(* file and the command line. A text is a sequence of words, of the two     *)
(* separators "=" and ":", and of white space, " ".                         *)
(***************************************************************************)
EXTENDS Integers, SequencesExt

CONSTANTS
    Environments, \* what environ may hold: sequences of texts
    Files,        \* what the file may hold: sequences of lines
    Arguments,    \* what the program may be called with: sequences of texts
    Missing       \* a file that cannot be opened

ASSUME SettingsAssumption ==
    \A source \in Environments \cup Files \cup Arguments :
        source \in Seq(Range(source)) /\ \A s \in Range(source) : s \in Seq(Range(s))

VARIABLES
    environ, file, args, \* the three sources
    named,           \* LoadAll is given the path of the file
    loading,         \* whether LoadAll is "due", has "returned" or has "thrown"
    config           \* what it returned

settingVars == <<environ, file, args, named, loading, config>>

SettingStart(e, f, a, n) ==
    environ = e /\ file = f /\ args = a /\ named = n /\ loading = "due" /\ config = <<>>

SettingInit ==
    \E e \in Environments, f \in Files \cup {Missing}, a \in Arguments, n \in BOOLEAN :
        SettingStart(e, f, a, n)

-----------------------------------------------------------------------------
\* std::string::find: the first place of a separator, 0 when there is none.
Find(s, sep) ==
    IF \E i \in DOMAIN s : s[i] = sep
    THEN CHOOSE i \in DOMAIN s : s[i] = sep /\ \A j \in 1..(i - 1) : s[j] # sep
    ELSE 0

Trim(s) ==
    LET words == {i \in DOMAIN s : s[i] # " "}
    IN IF words = {} THEN <<>>
       ELSE SubSeq(s, CHOOSE i \in words : \A j \in words : i <= j,
                      CHOOSE i \in words : \A j \in words : i >= j)

\* A setting, as a map of one key; no separator, no setting. Keys may be empty.
Setting(key, said) == [k \in {key} |-> said]
SplitAt(s, i) ==
    IF i = 0 THEN <<>> ELSE Setting(SubSeq(s, 1, i - 1), SubSeq(s, i + 1, Len(s)))
TrimmedAt(s, i) ==
    IF i = 0 THEN <<>> ELSE Setting(Trim(SubSeq(s, 1, i - 1)), Trim(SubSeq(s, i + 1, Len(s))))

\* A line of a properties file. '=' is looked for first, wherever a ':' stands.
LineSetting(raw) ==
    LET line == Trim(raw)
    IN IF line = <<>> \/ line[1] \in {"#", "!"} THEN <<>>
       ELSE TrimmedAt(line, IF Find(line, "=") # 0 THEN Find(line, "=") ELSE Find(line, ":"))

\* Later settings replace earlier ones of the same key.
Over(later, earlier) ==
    [k \in DOMAIN later \cup DOMAIN earlier |-> IF k \in DOMAIN later THEN later[k] ELSE earlier[k]]

Overlaid(settings) == FoldLeft(LAMBDA all, s : Over(s, all), <<>>, settings)

ParseProperties(lines) == Overlaid([i \in DOMAIN lines |-> LineSetting(lines[i])])

LoadFromEnv == Overlaid([i \in DOMAIN environ |-> SplitAt(environ[i], Find(environ[i], "="))])

\* An argument that begins with its delimiter is no setting.
LoadFromArgs ==
    Overlaid([i \in DOMAIN args |->
        IF Find(args[i], "=") > 1 THEN SplitAt(args[i], Find(args[i], "=")) ELSE <<>>])

\* Mutant: the file is laid over the command line.
BugLoaded ==
    LET others == Over(LoadFromArgs, LoadFromEnv)
    IN IF named THEN Over(ParseProperties(file), others) ELSE others

Loaded ==
    Over(LoadFromArgs, IF named THEN Over(ParseProperties(file), LoadFromEnv) ELSE LoadFromEnv)

LoadAll ==
    /\ loading = "due"
    /\ IF named /\ file = Missing
       THEN loading' = "thrown" /\ UNCHANGED config
       ELSE loading' = "returned" /\ config' = Loaded
    /\ UNCHANGED <<environ, file, args, named>>

SettingNext == LoadAll

SettingSpec == SettingInit /\ [][SettingNext]_settingVars

-----------------------------------------------------------------------------
\* Every text that may hold a setting, in the order of growing authority.
Stated ==
    LET From(source, texts) == [i \in DOMAIN texts |-> [from |-> source, text |-> texts[i]]]
        trimmed == IF named THEN [i \in DOMAIN file |-> Trim(file[i])] ELSE <<>>
    IN From("env", environ) \o From("file", trimmed) \o From("args", args)

\* The text n is the setting of the key that ends before its i-th place.
SetsAt(n, i) ==
    LET s == Stated[n].text
    IN /\ i \in DOMAIN s
       /\ s[i] \notin {s[j] : j \in 1..(i - 1)}
       /\ \/ s[i] = "="
          \/ s[i] = ":" /\ Stated[n].from = "file" /\ \A j \in DOMAIN s : s[j] # "="
       /\ Stated[n].from = "file" => s[1] \notin {"#", "!"}
       /\ Stated[n].from = "args" => i > 1

Word(n, s) == IF Stated[n].from = "file" THEN Trim(s) ELSE s
KeyAt(n, i) == Word(n, SubSeq(Stated[n].text, 1, i - 1))
ValueAt(n, i) == Word(n, SubSeq(Stated[n].text, i + 1, Len(Stated[n].text)))

\* A setting is what the command line says of it last, or else the last line
\* of the file, or else the environment; nothing that one of them says is
\* lost, nothing comes from anywhere else, and a file that is named must open.
EffectiveSetting ==
    /\ loading # "due" => (loading = "thrown" <=> named /\ file = Missing)
    /\ loading = "returned" =>
        LET texts == UNION {{n} \X (DOMAIN Stated[n].text) : n \in DOMAIN Stated}
            Places == {p \in texts : SetsAt(p[1], p[2])}
        IN /\ DOMAIN config = {KeyAt(p[1], p[2]) : p \in Places}
           /\ \A key \in DOMAIN config :
                 \E p \in Places :
                    /\ KeyAt(p[1], p[2]) = key /\ ValueAt(p[1], p[2]) = config[key]
                    /\ \A q \in Places : KeyAt(q[1], q[2]) = key => q[1] <= p[1]
=============================================================================
