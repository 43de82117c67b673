----------------------------- MODULE JsonForms -----------------------------
(***************************************************************************)
(* What the ToJson() and FromJson() of the library's classes have in common.*)
(* An object is a record of its members, under their JSON names. A member   *)
(* is either always written or left out when it is unset; FromJson() gives  *)
(* a key that is absent a value of its own. That the two agree is nowhere   *)
(* enforced: each class says both.                                          *)
(***************************************************************************)

CONSTANT None   \* std::nullopt, a null pointer, the JSON null

\* ToJson(): the keys of o, "always" are the members written whatever they are,
\* "unset" the values for which the others are left out.
Keys(o, always, unset) == {m \in DOMAIN o : m \in always \/ o[m] # unset[m]}

\* FromJson(): o with the members of values as they are there; a key that o has no
\* member for is not looked at.
With(o, values) == [m \in DOMAIN o |-> IF m \in DOMAIN values THEN values[m] ELSE o[m]]

-----------------------------------------------------------------------------
\* Enumerations are written by name: "written" are the names ToString() has,
\* "compared" those that FromString() knows; it takes every other string for "other".
FromString(enum, s) == IF s \in enum.compared THEN s ELSE enum.other

EnvelopeAction == [written  |-> {"Post", "Put", "Delete", "Get"},
                   compared |-> {"Put", "Delete", "Get"}, other |-> "Post"]
ServiceLevel   == [written  |-> {"AtMostOnce", "AtLeastOnce", "ExactlyOnce"},
                   compared |-> {"AtMostOnce", "ExactlyOnce"}, other |-> "AtLeastOnce"]
DidStatus      == [written  |-> {"Inactive", "Active", "Suspended", "Private"},
                   compared |-> {"Active", "Suspended", "Private"}, other |-> "Inactive"]
DidType        == [written  |-> {"Contact", "Identity", "Node"},
                   compared |-> {"Contact", "Node"}, other |-> "Identity"]
Network        == [written  |-> {"Card", "Nfc", "Http", "Tor", "I2p", "WiFi", "Bluetooth",
                                 "Satellite", "FsRadio", "LiFi"},
                   compared |-> {"Card", "Nfc", "Tor", "I2p", "WiFi", "Bluetooth",
                                 "Satellite", "FsRadio", "LiFi"}, other |-> "Http"]

CommandNames == {"Start", "Shutdown", "GracefullyShutdown", "Restart", "Pause", "Unpause",
                 "NetState", "Report", "RegisterStateChangeListener",
                 "UnregisterStateChangeListener"}

\* Mutant: a command is added to ToString() only.
BugCommand == [written |-> CommandNames, other |-> "Start",
               compared |-> CommandNames \ {"Start", "UnregisterStateChangeListener"}]

Command == [written |-> CommandNames, other |-> "Start", compared |-> CommandNames \ {"Start"}]
=============================================================================
