-------------------------- MODULE EnvelopeRouting --------------------------
(***************************************************************************)
(* The routing of ra::common::Envelope over its DynamicRoutingSlip. The     *)
(* slip owns the routes that remain and the current one; the envelope keeps *)
(* a clone of the current one, which is what GetRoute() shows a host. The   *)
(* slip is public: a host may drive it past the envelope, and set the       *)
(* routed mark of the slip's own routes as well as that of the clone. An    *)
(* envelope travels as JSON: the sender still has its own and may send it   *)
(* again, so that several copies go their ways.                             *)
(***************************************************************************)
EXTENDS Integers, Sequences

CONSTANTS
    Holders,   \* the places that may hold a copy of the envelope
    Routes,    \* the routes AddRoute may create, each once
    None       \* null

VARIABLES
    env,       \* the copy each holder has, or None
    apart,     \* history: the copies whose slip was driven past the envelope's clone
    path,      \* history: the routes each copy's slip has made current, in order
    lineage,   \* history: the routes added to each copy or to what it was copied from
    marked,    \* history: the routes GetRoute() ought to show as marked
    born,      \* history: when each route was added, 0 before
    clock      \* history: how many were added

vars == <<env, apart, path, lineage, marked, born, clock>>

\* The slip's routes_ and current_, and which of these, its own, are marked; the
\* envelope's route and the mark of that.
Envelopes == [routes : Seq(Routes), current : Routes \cup {None}, own : SUBSET Routes,
              route : Routes \cup {None}, routed : BOOLEAN]

ASSUME NoneAssumption == None \notin Routes /\ None \notin Envelopes

Fresh == [routes |-> <<>>, current |-> None, own |-> {}, route |-> None, routed |-> FALSE]

\* The routes that belong to the slip.
Held(e) == {e.routes[i] : i \in DOMAIN e.routes} \cup ({e.current} \ {None})

-----------------------------------------------------------------------------
\* DynamicRoutingSlip: what NextRoute() returns, and what it does.
Following(e) == IF e.routes = <<>> THEN None ELSE Head(e.routes)

\* Mutant: the route stays on the stack.
BugNextRouteKeepsFront(e) == [e EXCEPT !.current = Following(e)]

\* What was current is destroyed, and its mark with it.
NextRoute(e) ==
    [e EXCEPT !.current = Following(e), !.own = @ \ {e.current},
              !.routes = IF e.routes = <<>> THEN <<>> ELSE Tail(e.routes)]

CurrentRoute(e) == IF e.current = None THEN NextRoute(e) ELSE e

\* The clone takes over the mark that the slip's route has at that moment.
Clone(e) == [e EXCEPT !.route = e.current, !.routed = e.current \in e.own]

\* Mutant: no cache, a new clone each time.
BugGetRouteClones(e) == Clone(CurrentRoute(e))

\* Envelope::GetRoute(): the clone is made on first access and kept.
GetRoute(e) == IF e.route # None THEN e ELSE Clone(CurrentRoute(e))

Ratchet(e) == Clone(NextRoute(e))

\* Mutant: the queue's order.
BugAddRouteLast(e, r) == [e EXCEPT !.routes = Append(@, r)]

AddRoute(e, r) == [e EXCEPT !.routes = <<r>> \o @]

\* One of the slip's routes, written.
RouteJson(e, r) == [id |-> r, routed |-> r \in e.own]

\* ToJson(): null routes have no key.
ToJson(e) ==
    [k \in {"routes"} \cup {c \in {"current_route"} : e.current # None}
                      \cup {c \in {"route"} : e.route # None} |->
        CASE k = "routes" -> [i \in DOMAIN e.routes |-> RouteJson(e, e.routes[i])]
          [] k = "current_route" -> RouteJson(e, e.current)
          [] k = "route" -> [id |-> e.route, routed |-> e.routed]]

\* The slip's routes in a JSON object, wherever they stand in it.
WrittenIn(d) ==
    {d["routes"][i] : i \in DOMAIN d["routes"]}
        \cup {d[k] : k \in {"current_route"} \cap DOMAIN d}

\* What is read of d when the slip gets these routes.
ReadWith(d, routes, current) ==
    [routes  |-> routes, current |-> current,
     own     |-> {w.id : w \in {x \in WrittenIn(d) : x.routed}},
     route   |-> IF "route" \in DOMAIN d THEN d["route"].id ELSE None,
     routed  |-> IF "route" \in DOMAIN d THEN d["route"].routed ELSE FALSE]

RoutesOf(d) == [i \in DOMAIN d["routes"] |-> d["routes"][i].id]
CurrentOf(d) == IF "current_route" \in DOMAIN d THEN d["current_route"].id ELSE None

\* Mutant: rebuilds the stack through AddRoute.
BugFromJsonReversed(d) ==
    ReadWith(d, [i \in DOMAIN d["routes"] |-> RoutesOf(d)[Len(d["routes"]) + 1 - i]], CurrentOf(d))

\* Mutant: forgets the slip's current route.
BugFromJsonNoCurrent(d) == ReadWith(d, RoutesOf(d), None)

FromJson(d) == ReadWith(d, RoutesOf(d), CurrentOf(d))

-----------------------------------------------------------------------------
Init ==
    /\ env = [h \in Holders |-> None] /\ apart = {}
    /\ path = [h \in Holders |-> <<>>]
    /\ lineage = [h \in Holders |-> {}] /\ marked = [h \in Holders |-> {}]
    /\ born = [r \in Routes |-> 0] /\ clock = 0

\* h's copy becomes e; another current route than before is one more on its path.
Becomes(h, e) ==
    /\ env' = [env EXCEPT ![h] = e]
    /\ path' = [path EXCEPT ![h] =
                   IF e.current # None /\ e.current # env[h].current THEN Append(@, e.current) ELSE @]

\* Envelope::Document() and the other factories.
Create(h) ==
    /\ env[h] = None
    /\ env' = [env EXCEPT ![h] = Fresh]
    /\ UNCHANGED <<apart, path, lineage, marked, born, clock>>

\* Envelope::AddRoute, AddExternalRoute.
Add(h, r) ==
    /\ env[h] # None /\ born[r] = 0
    /\ Becomes(h, AddRoute(env[h], r))
    /\ lineage' = [lineage EXCEPT ![h] = @ \cup {r}]
    /\ clock' = clock + 1 /\ born' = [born EXCEPT ![r] = clock + 1]
    /\ UNCHANGED <<apart, marked>>

\* A host asks for the current route ...
Resolve(h) ==
    /\ env[h] # None
    /\ Becomes(h, GetRoute(env[h]))
    /\ apart' = IF env[h].route = None THEN apart \ {h} ELSE apart
    /\ UNCHANGED <<lineage, marked, born, clock>>

Set(routes, r, v) == IF v THEN routes \cup {r} ELSE routes \ {r}

\* ... sets its mark (set_routed on what GetRoute() returned) ...
Mark(h, v) ==
    /\ env[h] # None /\ env[h].route # None
    /\ env' = [env EXCEPT ![h].routed = v]
    /\ marked' = [marked EXCEPT ![h] = Set(@, env[h].route, v)]
    /\ UNCHANGED <<apart, path, lineage, born, clock>>

\* ... or that of a route the slip holds, through the pointer that its NextRoute(),
\* CurrentRoute() or PeekAtNextRoute() returned and that is good as long as the slip
\* holds the route. It shows when that route is cloned later. A clone that has been
\* made is an object of its own and never hears of it.
MarkOwn(h, r, v) ==
    /\ env[h] # None /\ r \in Held(env[h])
    /\ env' = [env EXCEPT ![h].own = Set(@, r, v)]
    /\ marked' = IF r = env[h].route THEN marked ELSE [marked EXCEPT ![h] = Set(@, r, v)]
    /\ UNCHANGED <<apart, path, lineage, born, clock>>

\* ... and goes on to the next.
Advance(h) ==
    /\ env[h] # None
    /\ Becomes(h, Ratchet(env[h]))
    /\ apart' = apart \ {h}
    /\ UNCHANGED <<lineage, marked, born, clock>>

\* A host calls NextRoute() of the public dynamic_routing_slip ...
Steer(h) ==
    /\ env[h] # None
    /\ Becomes(h, NextRoute(env[h]))
    /\ apart' = apart \cup {h}
    /\ UNCHANGED <<lineage, marked, born, clock>>

\* ... or its CurrentRoute(), which pops when nothing is current.
Consult(h) ==
    /\ env[h] # None /\ env[h].current = None
    /\ Becomes(h, CurrentRoute(env[h]))
    /\ apart' = apart \cup {h}
    /\ UNCHANGED <<lineage, marked, born, clock>>

\* g reads what h has written; h keeps its own, to drop it or to send it again.
Hop(h, g) ==
    /\ env[h] # None /\ env[g] = None
    /\ env' = [env EXCEPT ![g] = FromJson(ToJson(env[h]))]
    /\ apart' = IF h \in apart THEN apart \cup {g} ELSE apart
    /\ path' = [path EXCEPT ![g] = path[h]]
    /\ lineage' = [lineage EXCEPT ![g] = lineage[h]]
    /\ marked' = [marked EXCEPT ![g] = marked[h]]
    /\ UNCHANGED <<born, clock>>

Drop(h) ==
    /\ env[h] # None
    /\ env' = [env EXCEPT ![h] = None] /\ apart' = apart \ {h}
    /\ path' = [path EXCEPT ![h] = <<>>]
    /\ lineage' = [lineage EXCEPT ![h] = {}] /\ marked' = [marked EXCEPT ![h] = {}]
    /\ UNCHANGED <<born, clock>>

Next ==
    \E h \in Holders :
        \/ Create(h) \/ Resolve(h) \/ Advance(h) \/ Steer(h) \/ Consult(h) \/ Drop(h)
        \/ \E r \in Routes : Add(h, r)
        \/ \E v \in BOOLEAN : Mark(h, v) \/ \E r \in Routes : MarkOwn(h, r, v)
        \/ \E g \in Holders : Hop(h, g)

Spec == Init /\ [][Next]_vars

-----------------------------------------------------------------------------
Pending(h) == IF env[h] = None THEN <<>> ELSE env[h].routes

TypeOK ==
    /\ env \in [Holders -> Envelopes \cup {None}]
    /\ apart \subseteq Holders
    /\ path \in [Holders -> Seq(Routes)]
    /\ lineage \in [Holders -> SUBSET Routes] /\ marked \in [Holders -> SUBSET Routes]
    /\ born \in [Routes -> Nat] /\ clock \in Nat

\* The envelope's clone and the slip's current route are the same route or both
\* null, through any mix of GetRoute, Ratchet and hops. When a host drove the slip
\* itself they agree again at the next Ratchet() or the next clone that is made,
\* and until then the clone is a route left behind, never one to come.
CloneIsCurrent ==
    \A h \in Holders : env[h] # None =>
        /\ h \notin apart => env[h].route = env[h].current
        /\ env[h].route # None => \E i \in DOMAIN path[h] : path[h][i] = env[h].route

\* No copy makes a route current twice or while it still remains, and no route is
\* lost: what was added has been current or remains, whoever pops.
VisitedOnce ==
    \A h \in Holders :
        /\ \A i, j \in DOMAIN path[h] : path[h][i] = path[h][j] => i = j
        /\ \A i, j \in DOMAIN Pending(h) : Pending(h)[i] = Pending(h)[j] => i = j
        /\ \A i \in DOMAIN path[h], j \in DOMAIN Pending(h) : path[h][i] # Pending(h)[j]
        /\ lineage[h] = {path[h][i] : i \in DOMAIN path[h]}
                          \cup {Pending(h)[i] : i \in DOMAIN Pending(h)}

\* The next route is always the newest of those that remain, on whatever node and
\* whenever they were added.
NewestFirst ==
    \A h \in Holders : \A i, j \in DOMAIN Pending(h) :
        i < j => born[Pending(h)[j]] < born[Pending(h)[i]]

\* What GetRoute() shows is marked exactly when a host set the mark last, and did
\* not take it off: on the clone, or on the slip's own route before the clone was
\* made of it, in whatever order routes are added, popped, cloned and sent. (A mark
\* that is set on the slip's current route when the envelope has its clone is the
\* one that is never shown.)
MarkKept ==
    \A h \in Holders : env[h] # None /\ GetRoute(env[h]).route # None =>
        (GetRoute(env[h]).routed <=> GetRoute(env[h]).route \in marked[h])

\* Each copy keeps the promise of Itinerary.
Promise == INSTANCE Itinerary
    WITH live <- {h \in Holders : env[h] # None}, todo <- [h \in Holders |-> Pending(h)],
         visited <- path

ImplementsItinerary == Promise!Spec

\* The inductive invariant: only routes that were added are held, those added to a
\* copy were added no later than now, and marks are on routes of the copy. The clone
\* has the mark it ought to have, and so has every route the slip holds, but for the
\* one the clone was made of.
Histories ==
    \A h \in Holders :
        /\ \A r \in lineage[h] : born[r] \in 1..clock
        /\ marked[h] \subseteq lineage[h]
        /\ env[h] = None => path[h] = <<>> /\ lineage[h] = {} /\ marked[h] = {}
        /\ env[h] # None =>
             /\ env[h].own \subseteq Held(env[h])
             /\ env[h].route = None => ~env[h].routed
             /\ env[h].route # None => (env[h].routed <=> env[h].route \in marked[h])
             /\ \A r \in Held(env[h]) \ {env[h].route} : r \in env[h].own <=> r \in marked[h]
             /\ env[h].current # None => path[h] # <<>> /\ env[h].current = path[h][Len(path[h])]

RoutingInv == TypeOK /\ CloneIsCurrent /\ VisitedOnce /\ NewestFirst /\ Histories
=============================================================================
