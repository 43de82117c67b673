------------------------------- MODULE Objects -------------------------------
(***************************************************************************)
(* The objects of the library that keep a state of their own and belong to  *)
(* one thread: the memory of ids, a service and a content. None calls       *)
(* another, so that a behaviour follows one of them, `object`, while the    *)
(* others stand still.                                                      *)
(***************************************************************************)
EXTENDS Nonce, ServiceCore, Content

VARIABLE object

objectVars == <<object, nonceVars, serviceVars, contentVars>>

ObjectInit ==
    object \in {"nonce", "service", "content"} /\ NonceInit /\ ServiceInit /\ ContentInit

ObjectNext ==
    \/ object = "nonce" /\ NonceNext /\ UNCHANGED <<serviceVars, contentVars, object>>
    \/ object = "service" /\ ServiceNext /\ UNCHANGED <<nonceVars, contentVars, object>>
    \/ object = "content" /\ ContentNext /\ UNCHANGED <<nonceVars, serviceVars, object>>

ObjectSpec == ObjectInit /\ [][ObjectNext]_objectVars
=============================================================================
