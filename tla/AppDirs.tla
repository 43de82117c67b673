------------------------------ MODULE AppDirs ------------------------------
(***************************************************************************)
(* system_settings of config.hpp: several callers, threads or processes of  *)
(* one user, ask for the directories of their applications and create them  *)
(* where they are not there. A path is the sequence of its names.           *)
(***************************************************************************)
EXTENDS Integers, SequencesExt

CONSTANTS
    Name,         \* names of files and directories
    AppCallers,   \* who calls
    AppCalls,     \* the calls: [kind, group, app, create]
    AppEnvs,      \* environments: [home, xdg], xdg a function of the kind
    NoVar,        \* a variable that is not set
    StartDirs,    \* sets of paths that may be directories at the start
    StartFiles,   \* sets of paths where there may be a file
    Locked        \* the directories in which mkdir is refused

AppKinds == {"data", "config", "cache"}
PathOrNone == {NoVar} \cup Seq(Name)

ASSUME AppDirsAssumption ==
    /\ {".local", "share", ".config", ".cache"} \subseteq Name
    /\ NoVar \notin Seq(Name)
    /\ AppCalls \subseteq [kind : AppKinds, group : Name, app : Name, create : BOOLEAN]
    /\ AppEnvs \subseteq [home : PathOrNone, xdg : [AppKinds -> PathOrNone]]
    /\ \A d \in StartDirs : d \subseteq Seq(Name)
    /\ \A f \in StartFiles : f \subseteq Seq(Name)

VARIABLES
    appEnv,        \* the environment, the same for all callers
    appCall,       \* the call each caller makes
    dirs, files,   \* what the file system holds
    startDirs,     \* the directories at the start
    appAt          \* where each caller is: "called", "group", "app", "returned", "failed"

appVars == <<appEnv, appCall, dirs, files, startDirs, appAt>>

AppStart(e, calls, d, f) ==
    /\ appEnv = e /\ appCall = calls /\ dirs = d /\ files = f /\ startDirs = d
    /\ appAt = [p \in AppCallers |-> "called"]

\* What is not at the root stands in a directory.
Tree(d, f) == d \cap f = {} /\ \A path \in d \cup f : Len(path) > 1 => Front(path) \in d

AppInit ==
    \E e \in AppEnvs, calls \in [AppCallers -> AppCalls], d \in StartDirs, f \in StartFiles :
        Tree(d, f) /\ AppStart(e, calls, d, f)

-----------------------------------------------------------------------------
Suffix(kind) ==
    CASE kind = "data" -> <<".local", "share">>
      [] kind = "config" -> <<".config">> [] kind = "cache" -> <<".cache">>

\* XdgDir: a variable that is set and empty counts as one that is not set.
XdgDir(kind) ==
    IF appEnv.xdg[kind] \notin {NoVar, <<>>} THEN appEnv.xdg[kind]
    ELSE IF appEnv.home # NoVar THEN appEnv.home \o Suffix(kind) ELSE NoVar

Base(p) == XdgDir(appCall[p].kind)
GroupDir(p) == Append(Base(p), appCall[p].group)
AppDir(p) == Append(GroupDir(p), appCall[p].app)

\* UserAppDataDir, UserAppConfigDir, UserAppCacheDir, up to the first mkdir.
UserAppDir(p) ==
    /\ appAt[p] = "called"
    /\ appAt' = [appAt EXCEPT ![p] =
           IF Base(p) = NoVar THEN "failed" ELSE IF appCall[p].create THEN "group" ELSE "returned"]
    /\ UNCHANGED <<appEnv, appCall, dirs, files, startDirs>>

\* Mutant: EEXIST is an error.
BugMkdir(p, path, then) ==
    IF Front(path) \in dirs \ Locked /\ path \notin dirs \cup files
    THEN appAt' = [appAt EXCEPT ![p] = then] /\ dirs' = dirs \cup {path}
    ELSE appAt' = [appAt EXCEPT ![p] = "failed"] /\ UNCHANGED dirs

\* mkdir(path), and where the caller goes when it throws and when it does not.
\* EEXIST, whatever it is that stands there, is no error.
Mkdir(p, path, then) ==
    IF path \in dirs \cup files
    THEN appAt' = [appAt EXCEPT ![p] = then] /\ UNCHANGED dirs
    ELSE IF Front(path) \in dirs \ Locked
    THEN appAt' = [appAt EXCEPT ![p] = then] /\ dirs' = dirs \cup {path}
    ELSE appAt' = [appAt EXCEPT ![p] = "failed"] /\ UNCHANGED dirs

MakeGroup(p) ==
    /\ appAt[p] = "group" /\ Mkdir(p, GroupDir(p), "app")
    /\ UNCHANGED <<appEnv, appCall, files, startDirs>>

MakeApp(p) ==
    /\ appAt[p] = "app" /\ Mkdir(p, AppDir(p), "returned")
    /\ UNCHANGED <<appEnv, appCall, files, startDirs>>

\* Somebody else creates a base directory; the code never does.
ToBase(p) == {SubSeq(Base(p), 1, n) : n \in 1..Len(Base(p))}

CreateBase(p) ==
    /\ Base(p) # NoVar /\ ToBase(p) \cap files = {}
    /\ dirs' = dirs \cup ToBase(p)
    /\ UNCHANGED <<appEnv, appCall, files, startDirs, appAt>>

AppNext == \E p \in AppCallers : UserAppDir(p) \/ MakeGroup(p) \/ MakeApp(p) \/ CreateBase(p)

AppSpec == AppInit /\ [][AppNext]_appVars

-----------------------------------------------------------------------------
\* Alone on the file system it started with, the call would fail: no base in the
\* environment, or a mkdir that has nothing to make its directory in.
FailsAlone(p) ==
    \/ Base(p) = NoVar
    \/ /\ appCall[p].create
       /\ \/ GroupDir(p) \notin startDirs \cup files /\ Base(p) \notin startDirs \ Locked
          \/ AppDir(p) \notin startDirs \cup files /\ GroupDir(p) \in files \cup Locked

\* Callers do not get into each other's way: what one asked to be created stands
\* there when its call returns, even if others create it or its parent at the same
\* time; a call fails only if it would have failed without the others too; and what
\* appears is a base, or what a caller asked for. That what stands there is a
\* directory and not a file, and that a missing base is no reason to fail, the
\* comment of the code promises as well: the two properties below, which the code
\* breaks whether others call or not.
AppDirCalls ==
    /\ \A p \in AppCallers :
          /\ appAt[p] = "returned" /\ appCall[p].create =>
                AppDir(p) \in dirs \cup files /\ GroupDir(p) \in dirs
          /\ appAt[p] = "failed" => FailsAlone(p)
    /\ \A path \in dirs \ startDirs :
          \E p \in AppCallers :
             /\ Base(p) # NoVar
             /\ \/ path \in ToBase(p)
                \/ appCall[p].create /\ path \in {GroupDir(p), AppDir(p)}

\* AppDir's comment, "mkdir -p equivalent without shelling out: create each path
\* segment": a call that knows its path fails only where mkdir -p would, at a file
\* or in a directory nothing can be made in. The code begins below the base and
\* throws when that is missing.
EachSegmentCreated ==
    \A p \in AppCallers : appAt[p] = "failed" /\ Base(p) # NoVar =>
        \E n \in DOMAIN AppDir(p) : SubSeq(AppDir(p), 1, n) \in files \cup Locked

\* The same comment: a call that created its directories without complaint has
\* them. The code takes every EEXIST for success, also that of a file.
CreatedIsDirectory ==
    \A p \in AppCallers : appAt[p] = "returned" /\ appCall[p].create =>
        {GroupDir(p), AppDir(p)} \subseteq dirs
=============================================================================
