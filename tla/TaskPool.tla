------------------------------ MODULE TaskPool ------------------------------
(***************************************************************************)
(* What a TaskRunner promises a caller that does not race its Shutdown():   *)
(* a task is given to at most one worker, once; no worker starts while the  *)
(* pool is closed; and the pool closes only when no worker is at work, with *)
(* the tasks nobody took discarded.                                        *)
(***************************************************************************)
CONSTANT Entries

VARIABLES open, life

Lives == {"absent", "queued", "active", "finished", "discarded"}

Init == open = FALSE /\ life = [e \in Entries |-> "absent"]

Add(e) ==
    /\ life[e] = "absent"
    /\ life' = [life EXCEPT ![e] = "queued"]
    /\ UNCHANGED open

Open == open' = TRUE /\ UNCHANGED life

Launch(e) ==
    /\ open /\ life[e] = "queued"
    /\ life' = [life EXCEPT ![e] = "active"]
    /\ UNCHANGED open

Finish(e) ==
    /\ life[e] = "active"
    /\ life' = [life EXCEPT ![e] = "finished"]
    /\ UNCHANGED open

Close ==
    /\ \A e \in Entries : life[e] # "active"
    /\ open' = FALSE
    /\ life' = [e \in Entries |-> IF life[e] = "queued" THEN "discarded" ELSE life[e]]

Next ==
    \/ Open \/ Close
    \/ \E e \in Entries : Add(e) \/ Launch(e) \/ Finish(e)

Spec == Init /\ [][Next]_<<open, life>>
=============================================================================
