------------------------------ MODULE MCAppDirs ------------------------------
(***************************************************************************)
(* What the runs give the constants of AppDirs.                             *)
(***************************************************************************)
EXTENDS AppDirs

MCHome == <<"h">>
MCXdg == <<"x">>
MCAppEnvs ==
    LET with(home, x) == [home |-> home, xdg |-> [kind \in AppKinds |->
            IF kind = "data" THEN x ELSE IF kind = "config" THEN <<>> ELSE NoVar]]
    IN {with(home, x) : home \in {NoVar, <<>>, MCHome}, x \in {NoVar, MCXdg}}
MCAppCalls == [kind : {"data", "config"}, group : {"g"}, app : {"a", "b"}, create : BOOLEAN]
                  \cup {[kind |-> "cache", group |-> "g", app |-> "a", create |-> TRUE]}
MCConfigDir == Append(MCHome, ".config")
MCCacheDir == Append(MCHome, ".cache")
MCGroupDir == Append(MCConfigDir, "g")
MCStartDirs ==
    {{}, {MCXdg, MCHome, MCConfigDir}, {MCXdg, MCHome, MCConfigDir, MCGroupDir, <<"x", "g">>},
     {MCXdg, MCHome, MCCacheDir, MCConfigDir, MCGroupDir, Append(MCGroupDir, "a")}}
MCStartFiles == {{}, {<<"x", "g">>}, {<<"x", "g", "a">>}, {MCConfigDir}, {MCHome}}
MCLocked == {MCCacheDir}

\* A new account: its home, nothing in it, and no variable but HOME.
MCNewEnvs == {[home |-> MCHome, xdg |-> [kind \in AppKinds |-> NoVar]]}
MCNewHome == {{MCHome}}
MCNoFiles == {{}}
=============================================================================
