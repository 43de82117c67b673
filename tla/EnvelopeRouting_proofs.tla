----------------------- MODULE EnvelopeRouting_proofs -----------------------
(***************************************************************************)
(* Proofs about EnvelopeRouting, for any holders and routes: a hop loses    *)
(* nothing, every copy shows its routes last-in first-out and once each,    *)
(* and so implements Itinerary.                                             *)
(***************************************************************************)
EXTENDS EnvelopeRouting, TLAPS

-----------------------------------------------------------------------------
\* What the operations do to a copy.

Sound(e) ==
    /\ e \in Envelopes /\ e.own \subseteq Held(e)
    /\ e.route = None => ~e.routed

\* A copy from its parts.
Copy(q, c, o, r, b) == [routes |-> q, current |-> c, own |-> o, route |-> r, routed |-> b]

\* The assignments that NextRoute, and then Clone, make.
LEMMA Reslip ==
    ASSUME NEW e \in Envelopes, NEW c, NEW o, NEW q
    PROVE  [e EXCEPT !.current = c, !.own = o, !.routes = q] = Copy(q, c, o, e.route, e.routed)
<1> DEFINE f == [e EXCEPT !.current = c]
           g == [f EXCEPT !.own = o]
<1>1. [e EXCEPT !.current = c, !.own = o, !.routes = q] = [g EXCEPT !.routes = q]
  BY Zenon
<1>2. f = Copy(e.routes, c, e.own, e.route, e.routed)
  BY DEF Envelopes, Copy
<1> HIDE DEF f
<1>3. g = Copy(e.routes, c, o, e.route, e.routed)
  BY <1>2 DEF Copy
<1> HIDE DEF g
<1>4. [g EXCEPT !.routes = q] = Copy(q, c, o, e.route, e.routed)
  BY <1>3 DEF Copy
<1>5. QED
  BY <1>1, <1>4 DEF f, g

LEMMA Reshow ==
    ASSUME NEW e \in Envelopes, NEW r, NEW b
    PROVE  [e EXCEPT !.route = r, !.routed = b] = Copy(e.routes, e.current, e.own, r, b)
<1> DEFINE f == [e EXCEPT !.route = r]
<1>1. [e EXCEPT !.route = r, !.routed = b] = [f EXCEPT !.routed = b]
  BY Zenon
<1>2. f = Copy(e.routes, e.current, e.own, r, e.routed)
  BY DEF Envelopes, Copy
<1> HIDE DEF f
<1>3. [f EXCEPT !.routed = b] = Copy(e.routes, e.current, e.own, r, b)
  BY <1>2 DEF Copy
<1>4. QED
  BY <1>1, <1>3 DEF f

LEMMA FieldsOf ==
    ASSUME NEW e \in Envelopes
    PROVE  e = Copy(e.routes, e.current, e.own, e.route, e.routed)
BY DEF Envelopes, Copy

LEMMA CopyIs ==
    ASSUME NEW q \in Seq(Routes), NEW c \in Routes \cup {None}, NEW o \in SUBSET Routes,
           NEW r \in Routes \cup {None}, NEW b \in BOOLEAN, NEW f, f = Copy(q, c, o, r, b)
    PROVE  /\ f \in Envelopes /\ f # None /\ f.routes = q /\ f.current = c
           /\ f.own = o /\ f.route = r /\ f.routed = b
<1>1. f \in Envelopes
  BY DEF Envelopes, Copy
<1>2. QED
  BY <1>1, NoneAssumption DEF Copy

LEMMA NextRouteIs ==
    ASSUME NEW e \in Envelopes
    PROVE  /\ NextRoute(e) \in Envelopes
           /\ NextRoute(e).route = e.route /\ NextRoute(e).routed = e.routed
           /\ NextRoute(e).current = Following(e) /\ NextRoute(e).own = e.own \ {e.current}
           /\ e.routes = <<>> => Following(e) = None /\ NextRoute(e).routes = <<>>
           /\ e.routes # <<>> => /\ Following(e) = Head(e.routes)
                                 /\ NextRoute(e).routes = Tail(e.routes)
<1> DEFINE q == IF e.routes = <<>> THEN <<>> ELSE Tail(e.routes)
           o == e.own \ {e.current}
<1>1. /\ e.routes \in Seq(Routes) /\ e.route \in Routes \cup {None} /\ e.routed \in BOOLEAN
      /\ e.own \in SUBSET Routes
  BY DEF Envelopes
<1>2. q \in Seq(Routes)
  BY <1>1
<1>3. Following(e) \in Routes \cup {None}
  BY <1>1 DEF Following
<1>4. o \in SUBSET Routes
  BY <1>1
<1> HIDE DEF q, o
<1>5. NextRoute(e) = Copy(q, Following(e), o, e.route, e.routed)
  BY Reslip DEF NextRoute, q, o
<1>6. /\ NextRoute(e) \in Envelopes /\ NextRoute(e).routes = q /\ NextRoute(e).current = Following(e)
      /\ NextRoute(e).own = o /\ NextRoute(e).route = e.route /\ NextRoute(e).routed = e.routed
  BY <1>1, <1>2, <1>3, <1>4, <1>5 DEF Envelopes, Copy
<1>7. QED
  BY <1>6 DEF Following, q, o

LEMMA CloneIs ==
    ASSUME NEW e \in Envelopes
    PROVE  /\ Clone(e) \in Envelopes
           /\ Clone(e).routes = e.routes /\ Clone(e).current = e.current /\ Clone(e).own = e.own
           /\ Clone(e).route = e.current /\ Clone(e).routed = (e.current \in e.own)
<1> DEFINE b == e.current \in e.own
<1>1. b \in BOOLEAN
  OBVIOUS
<1> HIDE DEF b
<1>2. Clone(e) = Copy(e.routes, e.current, e.own, e.current, b)
  BY Reshow DEF Clone, b
<1>3. /\ e.routes \in Seq(Routes) /\ e.current \in Routes \cup {None} /\ e.own \in SUBSET Routes
  BY DEF Envelopes
<1>4. /\ Clone(e) \in Envelopes
      /\ Clone(e).routes = e.routes /\ Clone(e).current = e.current /\ Clone(e).own = e.own
      /\ Clone(e).route = e.current /\ Clone(e).routed = b
  BY <1>1, <1>2, <1>3, CopyIs
<1>5. QED
  BY <1>4 DEF b

\* What is written is what is read: the routes in their order, and the marks of the
\* slip's own with them.
LEMMA RoundTrip ==
    ASSUME NEW e, Sound(e)
    PROVE  FromJson(ToJson(e)) = e
<1> DEFINE d == ToJson(e)
           w == [i \in DOMAIN e.routes |-> RouteJson(e, e.routes[i])]
<1>0. e \in Envelopes /\ e.routes \in Seq(Routes) /\ e.own \subseteq Held(e) /\ e.routed \in BOOLEAN
  BY DEF Sound, Envelopes
<1>1. /\ "current_route" \in DOMAIN d <=> e.current # None
      /\ "route" \in DOMAIN d <=> e.route # None
      /\ "routes" \in DOMAIN d
  BY DEF ToJson
<1>2. d["routes"] = w
  BY DEF ToJson
<1>3. e.current # None => d["current_route"] = RouteJson(e, e.current)
  BY DEF ToJson
<1>4. e.route # None => d["route"] = [id |-> e.route, routed |-> e.routed]
  BY DEF ToJson
<1>5. \A r : RouteJson(e, r).id = r /\ (RouteJson(e, r).routed <=> r \in e.own)
  BY DEF RouteJson
<1> HIDE DEF d
<1>6. RoutesOf(d) = e.routes
  <2>1. DOMAIN w = DOMAIN e.routes /\ \A i \in DOMAIN e.routes : w[i].id = e.routes[i]
    BY <1>5
  <2> HIDE DEF w
  <2>2. RoutesOf(d) = [i \in DOMAIN e.routes |-> e.routes[i]]
    BY <1>2, <2>1 DEF RoutesOf
  <2>3. QED
    BY <1>0, <2>2
<1>7. CurrentOf(d) = e.current
  BY <1>1, <1>3, <1>5, Zenon DEF CurrentOf
<1>8. WrittenIn(d) = {RouteJson(e, r) : r \in Held(e)}
  <2>1. {d["routes"][i] : i \in DOMAIN d["routes"]} = {RouteJson(e, e.routes[i]) : i \in DOMAIN e.routes}
    <3>1. DOMAIN w = DOMAIN e.routes /\ \A i \in DOMAIN e.routes : w[i] = RouteJson(e, e.routes[i])
      OBVIOUS
    <3> HIDE DEF w
    <3>2. QED
      BY <1>2, <3>1
  <2>2. {d[k] : k \in {"current_route"} \cap DOMAIN d} = {RouteJson(e, r) : r \in {e.current} \ {None}}
    <3>1. CASE e.current = None
      BY <1>1, <3>1
    <3>2. CASE e.current # None
      <4>1. {"current_route"} \cap DOMAIN d = {"current_route"}
        BY <1>1, <3>2
      <4>2. QED
        BY <1>3, <3>2, <4>1
    <3>3. QED
      BY <3>1, <3>2
  <2>3. QED
    BY <2>1, <2>2 DEF WrittenIn, Held
<1>9. {x.id : x \in {y \in WrittenIn(d) : y.routed}} = e.own
  <2> DEFINE o == {x.id : x \in {y \in WrittenIn(d) : y.routed}}
  <2>1. ASSUME NEW r \in o PROVE r \in e.own
    <3>1. PICK x \in WrittenIn(d) : x.routed /\ r = x.id
      OBVIOUS
    <3>2. PICK k \in Held(e) : x = RouteJson(e, k)
      BY <1>8, <3>1
    <3>3. QED
      BY <1>5, <3>1, <3>2
  <2>2. ASSUME NEW r \in e.own PROVE r \in o
    <3>1. RouteJson(e, r) \in WrittenIn(d)
      BY <1>0, <1>8
    <3>2. RouteJson(e, r).routed /\ RouteJson(e, r).id = r
      BY <1>5
    <3>3. QED
      BY <3>1, <3>2
  <2>3. QED
    BY <2>1, <2>2
<1>10. (IF "route" \in DOMAIN d THEN d["route"].id ELSE None) = e.route
  BY <1>1, <1>4
<1>11. (IF "route" \in DOMAIN d THEN d["route"].routed ELSE FALSE) = e.routed
  <2>1. CASE "route" \in DOMAIN d
    <3>1. d["route"].routed = e.routed
      BY <1>1, <1>4, <2>1
    <3>2. QED
      BY <2>1, <3>1, Zenon
  <2>2. CASE "route" \notin DOMAIN d
    <3>1. e.routed = FALSE
      BY <1>1, <2>2 DEF Sound, Envelopes
    <3>2. QED
      BY <2>2, <3>1, Zenon
  <2>3. QED
    BY <2>1, <2>2
<1>12. FromJson(d) = Copy(e.routes, e.current, e.own, e.route, e.routed)
  BY <1>6, <1>7, <1>9, <1>10, <1>11, Zenon DEF FromJson, ReadWith, Copy
<1>13. QED
  BY <1>0, <1>12, FieldsOf DEF d

-----------------------------------------------------------------------------
\* The invariant, copy by copy: e the copy, p its path, l its lineage, m its marks,
\* b and c the history of the additions.

Rem(e) == IF e = None THEN <<>> ELSE e.routes

Once(p, q, l) ==
    /\ \A i, j \in DOMAIN p : p[i] = p[j] => i = j
    /\ \A i, j \in DOMAIN q : q[i] = q[j] => i = j
    /\ \A i \in DOMAIN p, j \in DOMAIN q : p[i] # q[j]
    /\ l = {p[i] : i \in DOMAIN p} \cup {q[i] : i \in DOMAIN q}

Newest(q, b) == \A i, j \in DOMAIN q : i < j => b[q[j]] < b[q[i]]

\* The marks: those of the clone, and of the slip's own routes but the cloned one.
Shown(e, m) ==
    /\ e.route # None => (e.routed <=> e.route \in m)
    /\ \A r \in Held(e) \ {e.route} : r \in e.own <=> r \in m

Placed(e, p) ==
    /\ e.current # None => p # <<>> /\ e.current = p[Len(p)]
    /\ e.route # None => \E i \in DOMAIN p : p[i] = e.route

Good(e, p, l, m, b, c) ==
    /\ e = None => p = <<>> /\ l = {} /\ m = {}
    /\ e # None => Sound(e) /\ Placed(e, p) /\ Shown(e, m)
    /\ Once(p, Rem(e), l)
    /\ Newest(Rem(e), b)
    /\ \A r \in l : b[r] \in 1..c
    /\ m \subseteq l

GoodAt(h) ==
    /\ Good(env[h], path[h], lineage[h], marked[h], born, clock)
    /\ env[h] # None /\ h \notin apart => env[h].route = env[h].current

AllGood == TypeOK /\ \A h \in Holders : GoodAt(h)

LEMMA CopyByCopy == RoutingInv <=> AllGood
<1> USE DEF GoodAt, AllGood
<1>1. ASSUME RoutingInv, NEW h \in Holders PROVE GoodAt(h)
  <2>1. env[h] # None => Sound(env[h]) /\ Placed(env[h], path[h])
    BY <1>1 DEF RoutingInv, TypeOK, CloneIsCurrent, Histories, Sound, Placed
  <2>6. env[h] # None => Shown(env[h], marked[h])
    BY <1>1 DEF RoutingInv, Histories, Shown
  <2>2. Once(path[h], Rem(env[h]), lineage[h])
    BY <1>1 DEF RoutingInv, VisitedOnce, Pending, Once, Rem
  <2>3. Newest(Rem(env[h]), born)
    BY <1>1 DEF RoutingInv, NewestFirst, Pending, Newest, Rem
  <2>4. env[h] # None /\ h \notin apart => env[h].route = env[h].current
    BY <1>1 DEF RoutingInv, CloneIsCurrent
  <2>5. QED
    BY <1>1, <2>1, <2>2, <2>3, <2>4, <2>6 DEF RoutingInv, Histories, Good
<1>2. ASSUME TypeOK, \A h \in Holders : GoodAt(h) PROVE RoutingInv
  <2>1. CloneIsCurrent
    BY <1>2 DEF Good, Placed, CloneIsCurrent
  <2>2. VisitedOnce
    BY <1>2 DEF Good, Once, Rem, Pending, VisitedOnce
  <2>3. NewestFirst
    BY <1>2 DEF Good, Newest, Rem, Pending, NewestFirst
  <2>4. Histories
    BY <1>2 DEF Good, Sound, Placed, Shown, Histories
  <2>5. QED
    BY <1>2, <2>1, <2>2, <2>3, <2>4 DEF RoutingInv
<1>3. RoutingInv => TypeOK
  BY DEF RoutingInv
<1>4. QED
  BY <1>1, <1>2, <1>3

\* How Becomes extends a path, and what that is for the itinerary.
PathTo(e, f, p) ==
    IF f.current # None /\ f.current # e.current THEN Append(p, f.current) ELSE p

Moves(e, f, p) ==
    \/ f.routes = e.routes /\ PathTo(e, f, p) = p
    \/ /\ e.routes # <<>> /\ f.routes = Tail(e.routes)
       /\ PathTo(e, f, p) = Append(p, Head(e.routes))

\* The slip no longer holds the route of the old clone, if there is one, so that
\* every route it holds has the mark it ought to have.
Clonable(e) == e.route \notin Held(e)

\* NextRoute() with routes left.
LEMMA PopIsGood ==
    ASSUME NEW e \in Envelopes, NEW p \in Seq(Routes), NEW l, NEW m, NEW b, NEW c,
           Good(e, p, l, m, b, c), e.routes # <<>>
    PROVE  /\ Append(p, Head(e.routes)) \in Seq(Routes)
           /\ PathTo(e, NextRoute(e), p) = Append(p, Head(e.routes))
           /\ Clonable(NextRoute(e))
           /\ Good(NextRoute(e), Append(p, Head(e.routes)), l, m, b, c)
<1> DEFINE q == e.routes
           r == Head(q)
           t == Tail(q)
           s == Append(p, r)
<1>1. /\ e # None /\ Rem(e) = q /\ q \in Seq(Routes) /\ r \in Routes /\ t \in Seq(Routes)
      /\ s \in Seq(Routes)
  BY NoneAssumption DEF Envelopes, Rem
<1> DEFINE f == NextRoute(e)
<1>2. /\ f \in Envelopes /\ f # None /\ Rem(f) = t
      /\ f.current = r /\ f.route = e.route /\ f.routed = e.routed
      /\ f.routes = t /\ f.own = e.own \ {e.current}
  <2>1. /\ f \in Envelopes /\ f.routes = t /\ f.current = r /\ f.route = e.route
        /\ f.routed = e.routed /\ f.own = e.own \ {e.current}
    BY NextRouteIs
  <2>2. f # None
    BY <2>1, NoneAssumption
  <2>3. QED
    BY <2>1, <2>2 DEF Rem
<1> HIDE DEF f
<1>3. /\ Len(t) = Len(q) - 1 /\ DOMAIN t = 1..(Len(q) - 1) /\ DOMAIN q = 1..Len(q)
      /\ Len(q) \in Nat /\ Len(q) >= 1
      /\ \A i \in 1..(Len(q) - 1) : t[i] = q[i + 1]
      /\ r = q[1]
      /\ \A i \in DOMAIN t : i \in Int /\ i + 1 \in DOMAIN q /\ q[i + 1] = t[i]
  BY <1>1
<1>4. /\ Len(s) = Len(p) + 1 /\ DOMAIN s = 1..(Len(p) + 1) /\ DOMAIN p = 1..Len(p)
      /\ Len(p) \in Nat
      /\ \A i \in 1..Len(p) : s[i] = p[i]
      /\ s[Len(p) + 1] = r
  BY <1>1
<1>5. Once(p, q, l) /\ Newest(q, b) /\ Placed(e, p) /\ Shown(e, m) /\ Sound(e)
  BY <1>1 DEF Good
<1>6. \A i \in 1..Len(p) : p[i] # r
  BY <1>3, <1>4, <1>5 DEF Once
<1>7. Once(s, t, l)
  <2>1. \A i, j \in DOMAIN s : s[i] = s[j] => i = j
    BY <1>4, <1>5, <1>6 DEF Once
  <2>2. ASSUME NEW i \in DOMAIN t, NEW j \in DOMAIN t, t[i] = t[j] PROVE i = j
    <3>1. i + 1 = j + 1
      BY <2>2, <1>3, <1>5 DEF Once
    <3>2. QED
      BY <3>1, <1>3
  <2>3. \A i \in DOMAIN s, j \in DOMAIN t : s[i] # t[j]
    <3>1. \A j \in DOMAIN t : r # t[j]
      BY <1>3, <1>5 DEF Once
    <3>2. \A i \in 1..Len(p), j \in DOMAIN t : p[i] # t[j]
      BY <1>3, <1>4, <1>5 DEF Once
    <3>3. QED
      BY <1>4, <3>1, <3>2
  <2>4. l = {s[i] : i \in DOMAIN s} \cup {t[i] : i \in DOMAIN t}
    <3>1. {s[i] : i \in DOMAIN s} = {p[i] : i \in DOMAIN p} \cup {r}
      BY <1>4
    <3>2. {q[i] : i \in DOMAIN q} = {r} \cup {t[i] : i \in DOMAIN t}
      <4>1. \A i \in DOMAIN q : i = 1 \/ (i - 1 \in DOMAIN t /\ t[i - 1] = q[i])
        BY <1>3
      <4>2. \A x \in {q[i] : i \in DOMAIN q} : x = r \/ x \in {t[i] : i \in DOMAIN t}
        BY <4>1, <1>3
      <4>3. \A x \in {t[i] : i \in DOMAIN t} : x \in {q[i] : i \in DOMAIN q}
        BY <1>3
      <4>4. 1 \in DOMAIN q /\ q[1] = r
        BY <1>3
      <4>5. QED
        BY <4>2, <4>3, <4>4
    <3>3. QED
      BY <1>5, <3>1, <3>2 DEF Once
  <2>5. QED
    BY <2>1, <2>2, <2>3, <2>4 DEF Once
<1>8. Newest(t, b)
  <2>1. SUFFICES ASSUME NEW i \in DOMAIN t, NEW j \in DOMAIN t, i < j
                 PROVE  b[t[j]] < b[t[i]]
    BY DEF Newest
  <2>2. i + 1 < j + 1
    BY <2>1, <1>3
  <2>3. QED
    BY <2>2, <1>3, <1>5 DEF Newest
<1>9. m \subseteq l
  BY DEF Good
<1>10. {e.current, e.route} \cap ({r} \cup {t[i] : i \in DOMAIN t}) = {}
  <2>1. \A i \in DOMAIN t : t[i] \in Routes /\ \A j \in 1..Len(p) : p[j] # t[i]
    BY <1>1, <1>3, <1>4, <1>5 DEF Once
  <2>2. \A x \in {e.current, e.route} : x = None \/ \E j \in 1..Len(p) : p[j] = x
    BY <1>4, <1>5 DEF Placed
  <2>3. None \notin {r} \cup {t[i] : i \in DOMAIN t}
    BY <1>1, <2>1, NoneAssumption
  <2>4. QED
    BY <1>6, <2>1, <2>2, <2>3
<1>11. Sound(f) /\ Placed(f, s) /\ Shown(f, m)
  <2>1. Held(f) = {r} \cup {t[i] : i \in DOMAIN t} /\ Held(e) = Held(f) \cup ({e.current} \ {None})
    <3>1. {q[i] : i \in DOMAIN q} = {r} \cup {t[i] : i \in DOMAIN t}
      <4>1. \A i \in DOMAIN q : i = 1 \/ (i - 1 \in DOMAIN t /\ t[i - 1] = q[i])
        BY <1>3
      <4>2. \A x \in {q[i] : i \in DOMAIN q} : x = r \/ x \in {t[i] : i \in DOMAIN t}
        BY <4>1, <1>3
      <4>3. \A x \in {t[i] : i \in DOMAIN t} : x \in {q[i] : i \in DOMAIN q}
        BY <1>3
      <4>4. 1 \in DOMAIN q /\ q[1] = r
        BY <1>3
      <4>5. QED
        BY <4>2, <4>3, <4>4
    <3>2. Held(f) = {t[i] : i \in DOMAIN t} \cup {r}
      BY <1>1, <1>2, NoneAssumption DEF Held
    <3>3. QED
      BY <3>1, <3>2 DEF Held
  <2>2. Sound(f)
    <3>1. f.own \subseteq Held(f)
      BY <1>2, <1>5, <2>1 DEF Sound
    <3>2. QED
      BY <1>2, <1>5, <3>1 DEF Sound
  <2>3. Placed(f, s)
    <3>1. s # <<>> /\ s[Len(s)] = r
      BY <1>4
    <3>2. ASSUME e.route # None PROVE \E i \in DOMAIN s : s[i] = e.route
      <4>1. PICK i \in DOMAIN p : p[i] = e.route
        BY <1>5, <3>2 DEF Placed
      <4>2. i \in DOMAIN s /\ s[i] = e.route
        BY <1>4, <4>1
      <4>3. QED
        BY <4>2
    <3>3. QED
      BY <1>2, <3>1, <3>2 DEF Placed
  <2>4. Shown(f, m)
    <3>1. f.route # None => (f.routed <=> f.route \in m)
      BY <1>2, <1>5 DEF Shown
    <3>2. ASSUME NEW x \in Held(f) \ {f.route} PROVE x \in f.own <=> x \in m
      <4>1. x \in Held(e) \ {e.route} /\ x # e.current
        BY <1>2, <1>10, <2>1
      <4>2. QED
        BY <1>2, <1>5, <4>1 DEF Shown
    <3>3. QED
      BY <3>1, <3>2 DEF Shown
  <2>5. QED
    BY <2>2, <2>3, <2>4
<1>16. Clonable(f)
  <2>1. Held(f) = {r} \cup {t[i] : i \in DOMAIN t}
    BY <1>1, <1>2, NoneAssumption DEF Held
  <2>2. QED
    BY <1>2, <1>10, <2>1 DEF Clonable
<1>12. r # e.current /\ r # None
  BY <1>1, <1>10, NoneAssumption
<1>13. PathTo(e, f, p) = s
  BY <1>2, <1>12 DEF PathTo
<1>14. Good(f, s, l, m, b, c)
  <2>1. \A x \in l : b[x] \in 1..c
    BY DEF Good
  <2>2. QED
    BY <1>2, <1>7, <1>8, <1>9, <1>11, <2>1 DEF Good
<1>15. QED
  BY <1>1, <1>2, <1>13, <1>14, <1>16 DEF f

\* NextRoute() on an exhausted slip.
LEMMA ExhaustIsGood ==
    ASSUME NEW e \in Envelopes, NEW p \in Seq(Routes), NEW l, NEW m, NEW b, NEW c,
           Good(e, p, l, m, b, c), e.routes = <<>>
    PROVE  /\ PathTo(e, NextRoute(e), p) = p
           /\ Clonable(NextRoute(e))
           /\ Good(NextRoute(e), p, l, m, b, c)
<1> DEFINE f == NextRoute(e)
<1>1. /\ f \in Envelopes /\ f.routes = <<>> /\ f.current = None
      /\ f.route = e.route /\ f.routed = e.routed /\ f.own = e.own \ {e.current}
  BY NextRouteIs
<1> HIDE DEF f
<1>2. f # None /\ e # None /\ Rem(f) = Rem(e)
  BY <1>1, NoneAssumption DEF Rem
<1>3. Sound(e) /\ Placed(e, p) /\ Shown(e, m)
  BY <1>2 DEF Good
<1>4. Held(f) = {} /\ Held(e) = {e.current} \ {None}
  BY <1>1 DEF Held
<1>5. Sound(f) /\ Placed(f, p) /\ Shown(f, m)
  BY <1>1, <1>3, <1>4 DEF Sound, Placed, Shown
<1>6. Good(f, p, l, m, b, c)
  BY <1>2, <1>5 DEF Good
<1>7. PathTo(e, f, p) = p
  BY <1>1 DEF PathTo
<1>8. QED
  BY <1>1, <1>4, <1>6, <1>7 DEF f, Clonable

\* NextRoute(), whatever is left.
LEMMA NextIsGood ==
    ASSUME NEW e \in Envelopes, NEW p \in Seq(Routes), NEW l, NEW m, NEW b, NEW c,
           Good(e, p, l, m, b, c)
    PROVE  /\ NextRoute(e) \in Envelopes /\ Clonable(NextRoute(e))
           /\ PathTo(e, NextRoute(e), p) \in Seq(Routes)
           /\ Good(NextRoute(e), PathTo(e, NextRoute(e), p), l, m, b, c)
           /\ Moves(e, NextRoute(e), p)
<1>1. NextRoute(e) \in Envelopes
  BY NextRouteIs
<1>2. CASE e.routes = <<>>
  <2>1. NextRoute(e).routes = e.routes
    BY <1>2, NextRouteIs
  <2>2. QED
    BY <1>1, <1>2, <2>1, ExhaustIsGood DEF Moves
<1>3. CASE e.routes # <<>>
  <2> DEFINE f == NextRoute(e)
             s == Append(p, Head(e.routes))
  <2>1. f.routes = Tail(e.routes)
    BY <1>3, NextRouteIs
  <2>2. s \in Seq(Routes) /\ PathTo(e, f, p) = s /\ Clonable(f) /\ Good(f, s, l, m, b, c)
    BY <1>3, PopIsGood
  <2> HIDE DEF f
  <2>3. Moves(e, f, p)
    BY <1>3, <2>1, <2>2 DEF Moves
  <2> HIDE DEF s
  <2>4. QED
    BY <1>1, <2>2, <2>3 DEF f
<1>4. QED
  BY <1>2, <1>3

\* A clone takes over the mark there ought to be.
LEMMA CloneIsGood ==
    ASSUME NEW e \in Envelopes, NEW p \in Seq(Routes), NEW l, NEW m, NEW b, NEW c,
           Good(e, p, l, m, b, c), Clonable(e)
    PROVE  Good(Clone(e), p, l, m, b, c)
<1> DEFINE f == Clone(e)
<1>1. /\ f \in Envelopes /\ f.routes = e.routes /\ f.current = e.current /\ f.own = e.own
      /\ f.route = e.current /\ f.routed = (e.current \in e.own)
  BY CloneIs
<1> HIDE DEF f
<1>2. f # None /\ e # None /\ Rem(f) = Rem(e)
  BY <1>1, NoneAssumption DEF Rem
<1>3. Placed(e, p) /\ Shown(e, m) /\ Sound(e)
  BY <1>2 DEF Good
<1>4. ASSUME e.current # None PROVE \E i \in DOMAIN p : p[i] = e.current
  <2>1. p # <<>> /\ e.current = p[Len(p)]
    BY <1>3, <1>4 DEF Placed
  <2>2. Len(p) \in DOMAIN p
    BY <2>1
  <2>3. QED
    BY <2>1, <2>2
<1>5. Held(f) = Held(e) /\ None \notin Held(e) /\ (e.current # None => e.current \in Held(e))
  <2>1. e.routes \in Seq(Routes)
    BY DEF Envelopes
  <2>2. \A i \in DOMAIN e.routes : e.routes[i] \in Routes
    BY <2>1
  <2>3. QED
    BY <1>1, <2>2, NoneAssumption DEF Held
<1>6. Sound(f)
  <2>1. e.current = None => e.current \notin e.own
    BY <1>3, <1>5 DEF Sound
  <2>2. QED
    BY <1>1, <1>3, <1>5, <2>1 DEF Sound
<1>7. Placed(f, p)
  BY <1>1, <1>3, <1>4 DEF Placed
<1>8. Shown(f, m)
  <2>1. ASSUME f.route # None PROVE f.routed <=> f.route \in m
    <3>1. e.current \in Held(e) \ {e.route}
      BY <1>1, <1>5, <2>1 DEF Clonable
    <3>2. QED
      BY <1>1, <1>3, <3>1 DEF Shown
  <2>2. ASSUME NEW x \in Held(f) \ {f.route} PROVE x \in f.own <=> x \in m
    <3>1. x \in Held(e) \ {e.route}
      BY <1>1, <1>5, <2>2 DEF Clonable
    <3>2. QED
      BY <1>1, <1>3, <3>1 DEF Shown
  <2>3. QED
    BY <2>1, <2>2 DEF Shown
<1>9. Good(f, p, l, m, b, c)
  BY <1>2, <1>6, <1>7, <1>8 DEF Good
<1>10. QED
  BY <1>9 DEF f

\* The four ways to move on.
LEMMA RatchetIsGood ==
    ASSUME NEW e \in Envelopes, NEW p \in Seq(Routes), NEW l, NEW m, NEW b, NEW c,
           Good(e, p, l, m, b, c)
    PROVE  /\ Ratchet(e) \in Envelopes /\ Ratchet(e).route = Ratchet(e).current
           /\ PathTo(e, Ratchet(e), p) \in Seq(Routes)
           /\ Good(Ratchet(e), PathTo(e, Ratchet(e), p), l, m, b, c)
           /\ Moves(e, Ratchet(e), p)
<1> DEFINE n == NextRoute(e)
           f == Clone(n)
           s == PathTo(e, n, p)
<1>1. /\ n \in Envelopes /\ Clonable(n) /\ s \in Seq(Routes)
      /\ Good(n, s, l, m, b, c) /\ Moves(e, n, p)
  BY NextIsGood
<1> HIDE DEF n
<1>2. f \in Envelopes /\ f.routes = n.routes /\ f.current = n.current /\ f.route = n.current
  BY <1>1, CloneIs
<1>3. Good(f, s, l, m, b, c)
  <2> HIDE DEF f, s
  <2>1. Good(Clone(n), s, l, m, b, c)
    BY <1>1, CloneIsGood
  <2>2. QED
    BY <2>1 DEF f
<1> HIDE DEF f
<1>4. PathTo(e, f, p) = s
  BY <1>2 DEF PathTo
<1>5. Moves(e, f, p)
  BY <1>1, <1>2, <1>4 DEF Moves
<1>6. Ratchet(e) = f
  BY DEF Ratchet, f, n
<1>7. QED
  BY <1>1, <1>2, <1>3, <1>4, <1>5, <1>6

LEMMA CurrentIsGood ==
    ASSUME NEW e \in Envelopes, NEW p \in Seq(Routes), NEW l, NEW m, NEW b, NEW c,
           Good(e, p, l, m, b, c)
    PROVE  /\ CurrentRoute(e) \in Envelopes
           /\ e.route = None => Clonable(CurrentRoute(e))
           /\ PathTo(e, CurrentRoute(e), p) \in Seq(Routes)
           /\ Good(CurrentRoute(e), PathTo(e, CurrentRoute(e), p), l, m, b, c)
           /\ Moves(e, CurrentRoute(e), p)
<1>1. CASE e.current = None
  <2>1. CurrentRoute(e) = NextRoute(e)
    BY <1>1 DEF CurrentRoute
  <2>2. QED
    BY <2>1, NextIsGood
<1>2. CASE e.current # None
  <2>1. CurrentRoute(e) = e /\ PathTo(e, e, p) = p
    BY <1>2 DEF CurrentRoute, PathTo
  <2>2. None \notin Held(e)
    <3>1. e.routes \in Seq(Routes)
      BY DEF Envelopes
    <3>2. \A i \in DOMAIN e.routes : e.routes[i] \in Routes
      BY <3>1
    <3>3. QED
      BY <3>2, NoneAssumption DEF Held
  <2>3. QED
    BY <2>1, <2>2 DEF Moves, Clonable
<1>3. QED
  BY <1>1, <1>2

LEMMA GetRouteIsGood ==
    ASSUME NEW e \in Envelopes, NEW p \in Seq(Routes), NEW l, NEW m, NEW b, NEW c,
           Good(e, p, l, m, b, c)
    PROVE  /\ GetRoute(e) \in Envelopes
           /\ e.route # None => GetRoute(e) = e
           /\ e.route = None => GetRoute(e).route = GetRoute(e).current
           /\ PathTo(e, GetRoute(e), p) \in Seq(Routes)
           /\ Good(GetRoute(e), PathTo(e, GetRoute(e), p), l, m, b, c)
           /\ Moves(e, GetRoute(e), p)
<1>1. CASE e.route # None
  <2>1. GetRoute(e) = e /\ PathTo(e, e, p) = p
    BY <1>1 DEF GetRoute, PathTo
  <2>2. QED
    BY <1>1, <2>1 DEF Moves
<1>2. CASE e.route = None
  <2> DEFINE n == CurrentRoute(e)
             f == Clone(n)
             s == PathTo(e, n, p)
  <2>1. /\ n \in Envelopes /\ Clonable(n) /\ s \in Seq(Routes)
        /\ Good(n, s, l, m, b, c) /\ Moves(e, n, p)
    BY <1>2, CurrentIsGood
  <2> HIDE DEF n
  <2>2. f \in Envelopes /\ f.routes = n.routes /\ f.current = n.current /\ f.route = n.current
    BY <2>1, CloneIs
  <2>3. Good(f, s, l, m, b, c)
    <3> HIDE DEF f, s
    <3>1. Good(Clone(n), s, l, m, b, c)
      BY <2>1, CloneIsGood
    <3>2. QED
      BY <3>1 DEF f
  <2> HIDE DEF f
  <2>4. PathTo(e, f, p) = s
    BY <2>2 DEF PathTo
  <2>5. Moves(e, f, p)
    BY <2>1, <2>2, <2>4 DEF Moves
  <2>6. GetRoute(e) = f
    BY <1>2 DEF GetRoute, f, n
  <2>7. QED
    BY <1>2, <2>1, <2>2, <2>3, <2>4, <2>5, <2>6
<1>3. QED
  BY <1>1, <1>2

\* A later addition to another copy.
LEMMA LaterIsGood ==
    ASSUME NEW e, NEW p, NEW l \in SUBSET Routes, NEW m, NEW b \in [Routes -> Nat], NEW c \in Nat,
           NEW r \in Routes, b[r] = 0, Good(e, p, l, m, b, c)
    PROVE  /\ r \notin l
           /\ Good(e, p, l, m, [b EXCEPT ![r] = c + 1], c + 1)
<1> DEFINE d == [b EXCEPT ![r] = c + 1]
<1>1. \A x \in l : b[x] \in 1..c
  BY DEF Good
<1>2. r \notin l
  BY <1>1
<1>3. \A x \in l : d[x] = b[x] /\ d[x] \in 1..(c + 1)
  BY <1>1, <1>2
<1>4. \A i \in DOMAIN Rem(e) : Rem(e)[i] \in l
  BY DEF Good, Once
<1>5. Newest(Rem(e), d)
  BY <1>3, <1>4 DEF Good, Newest
<1>6. QED
  BY <1>2, <1>3, <1>5 DEF Good

\* AddRoute().
LEMMA AddRouteIs ==
    ASSUME NEW e \in Envelopes, NEW r \in Routes
    PROVE  /\ AddRoute(e, r) \in Envelopes /\ AddRoute(e, r).routes = <<r>> \o e.routes
           /\ AddRoute(e, r).route = e.route /\ AddRoute(e, r).current = e.current
           /\ AddRoute(e, r).routed = e.routed /\ AddRoute(e, r).own = e.own
<1> DEFINE a == <<r>> \o e.routes
<1>1. a \in Seq(Routes)
  BY DEF Envelopes
<1>2. ASSUME NEW x
      PROVE  [e EXCEPT !.routes = x] = Copy(x, e.current, e.own, e.route, e.routed)
  BY DEF Envelopes, Copy
<1>3. AddRoute(e, r) = Copy(a, e.current, e.own, e.route, e.routed)
  BY <1>2 DEF AddRoute
<1>4. /\ e.current \in Routes \cup {None} /\ e.own \in SUBSET Routes
      /\ e.route \in Routes \cup {None} /\ e.routed \in BOOLEAN
  BY DEF Envelopes
<1> HIDE DEF a
<1>5. /\ AddRoute(e, r) \in Envelopes /\ AddRoute(e, r).routes = a
      /\ AddRoute(e, r).route = e.route /\ AddRoute(e, r).current = e.current
      /\ AddRoute(e, r).routed = e.routed /\ AddRoute(e, r).own = e.own
  BY <1>1, <1>3, <1>4 DEF Envelopes, Copy
<1>6. QED
  BY <1>5 DEF a

LEMMA AddIsGood ==
    ASSUME NEW e \in Envelopes, NEW p \in Seq(Routes), NEW l \in SUBSET Routes, NEW m,
           NEW b \in [Routes -> Nat], NEW c \in Nat,
           NEW r \in Routes, b[r] = 0, Good(e, p, l, m, b, c),
           NEW d, d = [b EXCEPT ![r] = c + 1]
    PROVE  Good(AddRoute(e, r), p, l \cup {r}, m, d, c + 1)
<1> DEFINE q == e.routes
           a == <<r>> \o q
<1>0. e # None /\ Rem(e) = q /\ q \in Seq(Routes)
  BY NoneAssumption DEF Envelopes, Rem
<1>1. a \in Seq(Routes)
  BY <1>0
<1>2. /\ AddRoute(e, r) \in Envelopes /\ AddRoute(e, r).routes = a
      /\ AddRoute(e, r).route = e.route /\ AddRoute(e, r).current = e.current
      /\ AddRoute(e, r).routed = e.routed /\ AddRoute(e, r).own = e.own
  BY AddRouteIs
<1> HIDE DEF a
<1>4. AddRoute(e, r) # None /\ Rem(AddRoute(e, r)) = a
  BY <1>2, NoneAssumption DEF Rem
<1>5. /\ DOMAIN a = 1..(Len(q) + 1) /\ DOMAIN q = 1..Len(q) /\ Len(q) \in Nat
      /\ a[1] = r
      /\ \A i \in 2..(Len(q) + 1) : i - 1 \in DOMAIN q /\ a[i] = q[i - 1]
      /\ \A i \in DOMAIN q : i + 1 \in DOMAIN a /\ a[i + 1] = q[i]
  <2>1. Len(a) = Len(q) + 1 /\ a[1] = r
    BY <1>0 DEF a
  <2>2. \A i \in 2..(Len(q) + 1) : a[i] = q[i - 1]
    BY <1>0 DEF a
  <2>3. DOMAIN a = 1..Len(a) /\ DOMAIN q = 1..Len(q) /\ Len(q) \in Nat
    BY <1>0, <1>1
  <2>4. QED
    BY <2>1, <2>2, <2>3
<1>6. r \notin l /\ Good(e, p, l, m, d, c + 1)
  BY LaterIsGood
<1>7. /\ Once(p, q, l) /\ Newest(q, d) /\ Placed(e, p) /\ Shown(e, m) /\ Sound(e)
      /\ \A x \in l : d[x] \in 1..c
  <2>1. \A x \in l : d[x] \in 1..c
    BY <1>6 DEF Good
  <2>2. QED
    BY <1>0, <1>6, <2>1 DEF Good
<1>8. d[r] = c + 1
  OBVIOUS
<1>9. Once(p, a, l \cup {r})
  <2>1. ASSUME NEW i \in DOMAIN a, NEW j \in DOMAIN a, a[i] = a[j] PROVE i = j
    <3>1. \A k \in DOMAIN q : q[k] # r
      BY <1>6, <1>7 DEF Once
    <3>2. CASE i = 1 \/ j = 1
      <4>1. \A k \in DOMAIN a : k = 1 \/ (k - 1 \in DOMAIN q /\ a[k] = q[k - 1])
        BY <1>5
      <4>2. \A k \in DOMAIN a : k = 1 \/ a[k] # r
        BY <3>1, <4>1
      <4>3. QED
        BY <2>1, <3>2, <4>2, <1>5
    <3>3. CASE i # 1 /\ j # 1
      <4>1. i - 1 \in DOMAIN q /\ j - 1 \in DOMAIN q /\ q[i - 1] = q[j - 1]
        BY <2>1, <3>3, <1>5
      <4>2. i - 1 = j - 1
        BY <4>1, <1>7 DEF Once
      <4>3. QED
        BY <4>2, <1>5
    <3>4. QED
      BY <3>2, <3>3
  <2>2. \A i \in DOMAIN p, j \in DOMAIN a : p[i] # a[j]
    <3>1. \A i \in DOMAIN p : p[i] \in l
      BY <1>7 DEF Once
    <3>2. \A i \in DOMAIN p, j \in DOMAIN q : p[i] # q[j]
      BY <1>7 DEF Once
    <3>3. \A j \in DOMAIN a : a[j] = r \/ (j - 1 \in DOMAIN q /\ a[j] = q[j - 1])
      BY <1>5
    <3>4. QED
      BY <1>6, <3>1, <3>2, <3>3
  <2>3. {a[i] : i \in DOMAIN a} = {r} \cup {q[i] : i \in DOMAIN q}
    <3>1. \A i \in DOMAIN a : a[i] = r \/ (i - 1 \in DOMAIN q /\ a[i] = q[i - 1])
      BY <1>5
    <3>2. \A x \in {a[i] : i \in DOMAIN a} : x = r \/ x \in {q[i] : i \in DOMAIN q}
      BY <3>1
    <3>3. 1 \in DOMAIN a /\ a[1] = r
      BY <1>5
    <3>4. \A x \in {q[i] : i \in DOMAIN q} : x \in {a[i] : i \in DOMAIN a}
      BY <1>5
    <3>5. QED
      BY <3>2, <3>3, <3>4
  <2>4. QED
    BY <1>7, <2>1, <2>2, <2>3 DEF Once
<1>10. Newest(a, d)
  <2>1. SUFFICES ASSUME NEW i \in DOMAIN a, NEW j \in DOMAIN a, i < j
                 PROVE  d[a[j]] < d[a[i]]
    BY DEF Newest
  <2>2. j - 1 \in DOMAIN q /\ a[j] = q[j - 1]
    BY <2>1, <1>5
  <2>3. CASE i = 1
    <3>1. a[j] \in l
      BY <2>2, <1>7 DEF Once
    <3>2. QED
      BY <2>3, <3>1, <1>5, <1>7, <1>8
  <2>4. CASE i # 1
    <3>1. i - 1 \in DOMAIN q /\ a[i] = q[i - 1] /\ i - 1 < j - 1
      BY <2>1, <2>4, <1>5
    <3>2. QED
      BY <2>2, <3>1, <1>7 DEF Newest
  <2>5. QED
    BY <2>3, <2>4
<1>11. Sound(AddRoute(e, r)) /\ Placed(AddRoute(e, r), p) /\ Shown(AddRoute(e, r), m)
  <2>1. Held(AddRoute(e, r)) = Held(e) \cup {r}
    <3>1. \A i \in DOMAIN a : a[i] = r \/ (i - 1 \in DOMAIN q /\ a[i] = q[i - 1])
      BY <1>5
    <3>2. \A x \in {a[i] : i \in DOMAIN a} : x = r \/ x \in {q[i] : i \in DOMAIN q}
      BY <3>1
    <3>3. 1 \in DOMAIN a /\ a[1] = r
      BY <1>5
    <3>4. \A x \in {q[i] : i \in DOMAIN q} : x \in {a[i] : i \in DOMAIN a}
      BY <1>5
    <3>5. {a[i] : i \in DOMAIN a} = {r} \cup {q[i] : i \in DOMAIN q}
      BY <3>2, <3>3, <3>4
    <3>6. ASSUME NEW f, f.routes = a, f.current = e.current PROVE Held(f) = Held(e) \cup {r}
      BY <3>5, <3>6 DEF Held
    <3>7. QED
      BY <1>2, <3>6
  <2>2. Held(e) \subseteq l
    <3>1. ASSUME e.current # None PROVE e.current \in l
      <4>1. p # <<>> /\ e.current = p[Len(p)] /\ Len(p) \in DOMAIN p
        BY <1>7, <3>1 DEF Placed
      <4>2. QED
        BY <1>7, <4>1 DEF Once
    <3>2. {q[i] : i \in DOMAIN q} \subseteq l
      BY <1>7 DEF Once
    <3>3. QED
      BY <3>1, <3>2 DEF Held
  <2>3. r \notin e.own /\ r \notin m
    BY <1>6, <1>7, <2>2 DEF Sound, Good
  <2>4. QED
    BY <1>2, <1>7, <2>1, <2>3 DEF Sound, Placed, Shown
<1>12. \A x \in l \cup {r} : d[x] \in 1..(c + 1)
  BY <1>7, <1>8
<1>13. m \subseteq l \cup {r}
  BY DEF Good
<1>14. QED
  BY <1>4, <1>9, <1>10, <1>11, <1>12, <1>13 DEF Good

-----------------------------------------------------------------------------
\* A host sets the mark of the route it was shown, or takes it off.
LEMMA MarkIsGood ==
    ASSUME NEW e \in Envelopes, NEW p \in Seq(Routes), NEW l, NEW m, NEW b, NEW c,
           Good(e, p, l, m, b, c), e.route # None, NEW v \in BOOLEAN
    PROVE  /\ [e EXCEPT !.routed = v] \in Envelopes
           /\ [e EXCEPT !.routed = v].routes = e.routes
           /\ [e EXCEPT !.routed = v].route = e.route
           /\ [e EXCEPT !.routed = v].current = e.current
           /\ Good([e EXCEPT !.routed = v], p, l, Set(m, e.route, v), b, c)
<1> DEFINE f == [e EXCEPT !.routed = v]
<1>1. f = Copy(e.routes, e.current, e.own, e.route, v)
  <2>1. ASSUME NEW x
        PROVE  [e EXCEPT !.routed = x] = Copy(e.routes, e.current, e.own, e.route, x)
    BY DEF Envelopes, Copy
  <2>2. QED
    BY <2>1
<1> HIDE DEF f
<1>2. /\ e.routes \in Seq(Routes) /\ e.current \in Routes \cup {None} /\ e.own \in SUBSET Routes
      /\ e.route \in Routes \cup {None}
  BY DEF Envelopes
<1>3. /\ f \in Envelopes /\ f # None /\ f.routes = e.routes /\ f.current = e.current
      /\ f.own = e.own /\ f.route = e.route /\ f.routed = v
  BY <1>1, <1>2, NoneAssumption DEF Envelopes, Copy
<1>4. e # None /\ Rem(f) = Rem(e)
  BY <1>3, NoneAssumption DEF Rem
<1>5. Sound(e) /\ Placed(e, p) /\ Shown(e, m) /\ Held(f) = Held(e)
  BY <1>3, <1>4 DEF Good, Held
<1>6. e.route \in l
  BY <1>4, <1>5 DEF Placed, Good, Once
<1>7. /\ e.route \in Set(m, e.route, v) <=> v
      /\ \A r : r # e.route => (r \in Set(m, e.route, v) <=> r \in m)
  BY DEF Set
<1>8. Sound(f) /\ Placed(f, p)
  BY <1>3, <1>5 DEF Sound, Placed
<1>9. Shown(f, Set(m, e.route, v))
  BY <1>3, <1>5, <1>7 DEF Shown
<1>10. Set(m, e.route, v) \subseteq l
  BY <1>6 DEF Set, Good
<1>11. Good(f, p, l, Set(m, e.route, v), b, c)
  BY <1>3, <1>4, <1>8, <1>9, <1>10 DEF Good
<1>12. QED
  BY <1>3, <1>11 DEF f

\* A host sets the mark of one of the slip's own routes, or takes it off.
LEMMA MarkOwnIsGood ==
    ASSUME NEW e \in Envelopes, NEW p \in Seq(Routes), NEW l, NEW m, NEW b, NEW c,
           Good(e, p, l, m, b, c), NEW r \in Routes, r \in Held(e), NEW v \in BOOLEAN
    PROVE  /\ [e EXCEPT !.own = Set(@, r, v)] \in Envelopes
           /\ [e EXCEPT !.own = Set(@, r, v)].routes = e.routes
           /\ [e EXCEPT !.own = Set(@, r, v)].route = e.route
           /\ [e EXCEPT !.own = Set(@, r, v)].current = e.current
           /\ Good([e EXCEPT !.own = Set(@, r, v)], p, l,
                   IF r = e.route THEN m ELSE Set(m, r, v), b, c)
<1> DEFINE o == Set(e.own, r, v)
           n == IF r = e.route THEN m ELSE Set(m, r, v)
           f == [e EXCEPT !.own = Set(@, r, v)]
<1>1. f = Copy(e.routes, e.current, o, e.route, e.routed)
  <2>1. ASSUME NEW x
        PROVE  [e EXCEPT !.own = x] = Copy(e.routes, e.current, x, e.route, e.routed)
    BY DEF Envelopes, Copy
  <2>2. f = [e EXCEPT !.own = o]
    BY DEF Envelopes
  <2>3. QED
    BY <2>1, <2>2
<1> HIDE DEF f
<1>2. /\ e.routes \in Seq(Routes) /\ e.current \in Routes \cup {None} /\ o \in SUBSET Routes
      /\ e.route \in Routes \cup {None} /\ e.routed \in BOOLEAN
  BY DEF Envelopes, Set
<1>3. \A x : x \in o <=> IF x = r THEN v ELSE x \in e.own
  BY DEF Set
<1>4. \A x : x # e.route => (x \in n <=> IF x = r THEN v ELSE x \in m)
  BY DEF Set
<1>5. e.route \in n <=> e.route \in m
  BY DEF Set
<1> HIDE DEF o
<1>6. /\ f \in Envelopes /\ f # None /\ f.routes = e.routes /\ f.current = e.current
      /\ f.own = o /\ f.route = e.route /\ f.routed = e.routed
  BY <1>1, <1>2, CopyIs
<1>7. e # None /\ Rem(f) = Rem(e)
  BY <1>6, NoneAssumption DEF Rem
<1>8. Sound(e) /\ Placed(e, p) /\ Shown(e, m) /\ Held(f) = Held(e)
  BY <1>6, <1>7 DEF Good, Held
<1>9. Held(e) \subseteq l
  <2>1. ASSUME e.current # None PROVE e.current \in l
    <3>1. p # <<>> /\ e.current = p[Len(p)] /\ Len(p) \in DOMAIN p
      BY <1>8, <2>1 DEF Placed
    <3>2. QED
      BY <3>1 DEF Good, Once
  <2>2. {e.routes[i] : i \in DOMAIN e.routes} \subseteq l
    BY <1>7 DEF Good, Once, Rem
  <2>3. QED
    BY <2>1, <2>2 DEF Held
<1>10. n \subseteq l
  BY <1>9 DEF Set, Good
<1> HIDE DEF n
<1>11. o \subseteq Held(f)
  BY <1>3, <1>8 DEF Sound
<1>12. Sound(f) /\ Placed(f, p)
  BY <1>6, <1>8, <1>11 DEF Sound, Placed
<1>13. Shown(f, n)
  <2>1. f.route # None => (f.routed <=> f.route \in n)
    BY <1>5, <1>6, <1>8 DEF Shown
  <2>2. ASSUME NEW x \in Held(f) \ {f.route} PROVE x \in f.own <=> x \in n
    <3>1. x \in e.own <=> x \in m
      BY <1>6, <1>8, <2>2 DEF Shown
    <3>2. QED
      BY <1>3, <1>4, <1>6, <2>2, <3>1
  <2>3. QED
    BY <2>1, <2>2 DEF Shown
<1>14. Good(f, p, l, n, b, c)
  BY <1>6, <1>7, <1>10, <1>12, <1>13 DEF Good
<1>15. QED
  BY <1>6, <1>14 DEF f, n

-----------------------------------------------------------------------------
LEMMA RoutingInit == Init => RoutingInv
<1> SUFFICES ASSUME Init PROVE AllGood
  BY CopyByCopy
<1>1. TypeOK
  BY DEF Init, TypeOK
<1>2. ASSUME NEW h \in Holders PROVE GoodAt(h)
  <2>1. env[h] = None /\ path[h] = <<>> /\ lineage[h] = {} /\ marked[h] = {}
    BY <1>2 DEF Init
  <2>2. QED
    BY <2>1 DEF GoodAt, Good, Once, Newest, Rem
<1>3. QED
  BY <1>1, <1>2 DEF AllGood

LEMMA RoutingStep ==
    ASSUME RoutingInv, [Next]_vars
    PROVE  RoutingInv'
<1>0. TypeOK /\ \A h \in Holders : GoodAt(h)
  BY CopyByCopy DEF AllGood
<1>a. RoutingInv' <=> AllGood'
  BY CopyByCopy, PTL
<1>b. ASSUME NEW h \in Holders, NEW f, env[h] # None, Becomes(h, f),
             UNCHANGED <<lineage, marked, born, clock>>,
             f \in Envelopes, PathTo(env[h], f, path[h]) \in Seq(Routes),
             Good(f, PathTo(env[h], f, path[h]), lineage[h], marked[h], born, clock),
             h \notin apart' => f.route = f.current,
             apart' \subseteq Holders,
             \A g \in Holders : g # h => (g \in apart' <=> g \in apart)
      PROVE  AllGood'
  <2> DEFINE s == PathTo(env[h], f, path[h])
  <2>1. env' = [env EXCEPT ![h] = f] /\ path' = [path EXCEPT ![h] = s]
    BY <1>b DEF Becomes, PathTo
  <2>2. s \in Seq(Routes) /\ Good(f, s, lineage[h], marked[h], born, clock)
    BY <1>b
  <2> HIDE DEF s
  <2>3. TypeOK'
    BY <1>0, <1>b, <2>1, <2>2 DEF TypeOK
  <2>4. GoodAt(h)'
    <3>1. env'[h] = f /\ path'[h] = s
      BY <1>0, <2>1 DEF TypeOK
    <3>2. QED
      BY <1>b, <2>2, <3>1 DEF GoodAt
  <2>5. \A g \in Holders : g # h => GoodAt(g)'
    BY <1>0, <1>b, <2>1 DEF TypeOK, GoodAt
  <2>6. QED
    BY <2>3, <2>4, <2>5 DEF AllGood
<1>c. ASSUME NEW h \in Holders, env[h] # None
      PROVE  /\ env[h] \in Envelopes /\ path[h] \in Seq(Routes)
             /\ Good(env[h], path[h], lineage[h], marked[h], born, clock)
             /\ h \notin apart => env[h].route = env[h].current
             /\ apart \subseteq Holders
  BY <1>0, <1>c DEF TypeOK, GoodAt
<1>1. CASE UNCHANGED vars
  BY <1>0, <1>1, <1>a DEF vars, TypeOK, GoodAt, AllGood
<1>2. ASSUME NEW h \in Holders, Create(h) PROVE AllGood'
  <2>1. /\ env[h] = None /\ env' = [env EXCEPT ![h] = Fresh]
        /\ UNCHANGED <<apart, path, lineage, marked, born, clock>>
    BY <1>2 DEF Create
  <2>2. Fresh \in Envelopes /\ Fresh.route = Fresh.current
    BY DEF Fresh, Envelopes
  <2>3. TypeOK'
    BY <1>0, <2>1, <2>2 DEF TypeOK
  <2>4. GoodAt(h)'
    <3>1. path[h] = <<>> /\ lineage[h] = {} /\ marked[h] = {}
      BY <1>0, <2>1 DEF GoodAt, Good
    <3>2. Fresh # None
      BY <2>2, NoneAssumption
    <3>3. Sound(Fresh) /\ Placed(Fresh, <<>>) /\ Shown(Fresh, {}) /\ Rem(Fresh) = <<>>
      BY <2>2, <3>2 DEF Sound, Placed, Shown, Rem, Held, Fresh
    <3>4. Good(Fresh, <<>>, {}, {}, born, clock)
      BY <3>2, <3>3 DEF Good, Once, Newest
    <3>5. env'[h] = Fresh
      BY <1>0, <2>1 DEF TypeOK
    <3>6. QED
      BY <2>1, <2>2, <3>1, <3>4, <3>5 DEF GoodAt
  <2>5. \A g \in Holders : g # h => GoodAt(g)'
    BY <1>0, <2>1 DEF TypeOK, GoodAt
  <2>6. QED
    BY <2>3, <2>4, <2>5 DEF AllGood
<1>3. ASSUME NEW h \in Holders, NEW r \in Routes, Add(h, r) PROVE AllGood'
  <2> DEFINE e == env[h]
             d == [born EXCEPT ![r] = clock + 1]
  <2>1. e # None /\ born[r] = 0 /\ UNCHANGED <<apart, marked>>
        /\ lineage' = [lineage EXCEPT ![h] = lineage[h] \cup {r}]
        /\ clock' = clock + 1 /\ born' = d
    BY <1>3 DEF Add
  <2>2. /\ e \in Envelopes /\ path[h] \in Seq(Routes) /\ lineage[h] \in SUBSET Routes
        /\ born \in [Routes -> Nat] /\ clock \in Nat /\ GoodAt(h)
    BY <1>0, <2>1 DEF TypeOK
  <2>3. /\ AddRoute(e, r) \in Envelopes
        /\ AddRoute(e, r).route = e.route /\ AddRoute(e, r).current = e.current
        /\ Good(AddRoute(e, r), path[h], lineage[h] \cup {r}, marked[h], d, clock + 1)
    <3>1. Good(e, path[h], lineage[h], marked[h], born, clock)
      BY <2>2 DEF GoodAt
    <3> HIDE DEF d
    <3>2. Good(AddRoute(e, r), path[h], lineage[h] \cup {r}, marked[h], d, clock + 1)
      BY <2>1, <2>2, <3>1, AddIsGood DEF d
    <3>3. QED
      BY <2>2, <3>2, AddRouteIs
  <2>4. env' = [env EXCEPT ![h] = AddRoute(e, r)] /\ path' = path
    BY <1>0, <1>3, <2>3 DEF Add, Becomes, TypeOK
  <2>5. TypeOK'
    BY <1>0, <2>1, <2>2, <2>3, <2>4 DEF TypeOK
  <2>6. GoodAt(h)'
    <3>1. env'[h] = AddRoute(e, r) /\ lineage'[h] = lineage[h] \cup {r}
      BY <1>0, <2>1, <2>4 DEF TypeOK
    <3>2. h \notin apart => e.route = e.current
      BY <1>0, <2>1 DEF GoodAt
    <3>3. QED
      BY <2>1, <2>3, <2>4, <3>1, <3>2 DEF GoodAt
  <2>7. ASSUME NEW g \in Holders, g # h PROVE GoodAt(g)'
    <3>1. env'[g] = env[g] /\ lineage'[g] = lineage[g]
      BY <1>0, <2>1, <2>4, <2>7 DEF TypeOK
    <3>2. lineage[g] \in SUBSET Routes
      BY <1>0 DEF TypeOK
    <3>3. Good(env[g], path[g], lineage[g], marked[g], d, clock + 1)
      BY <1>0, <2>1, <2>2, <3>2, LaterIsGood DEF GoodAt
    <3>4. QED
      BY <1>0, <2>1, <2>4, <3>1, <3>3 DEF GoodAt
  <2>8. QED
    BY <2>5, <2>6, <2>7 DEF AllGood
<1>4. ASSUME NEW h \in Holders, Resolve(h) PROVE AllGood'
  <2> DEFINE f == GetRoute(env[h])
  <2>1. /\ env[h] # None /\ UNCHANGED <<lineage, marked, born, clock>> /\ Becomes(h, f)
        /\ apart' = (IF env[h].route = None THEN apart \ {h} ELSE apart)
    BY <1>4 DEF Resolve
  <2>2. /\ f \in Envelopes /\ PathTo(env[h], f, path[h]) \in Seq(Routes)
        /\ Good(f, PathTo(env[h], f, path[h]), lineage[h], marked[h], born, clock)
        /\ env[h].route # None => f = env[h]
        /\ env[h].route = None => f.route = f.current
    BY <1>c, <2>1, GetRouteIsGood
  <2> HIDE DEF f
  <2>3. /\ h \notin apart' => f.route = f.current
        /\ apart' \subseteq Holders
        /\ \A g \in Holders : g # h => (g \in apart' <=> g \in apart)
    BY <1>c, <2>1, <2>2
  <2>4. QED
    BY <1>b, <2>1, <2>2, <2>3
<1>d. ASSUME NEW h \in Holders, NEW f \in Envelopes, NEW m, env[h] # None,
             env' = [env EXCEPT ![h] = f], marked' = [marked EXCEPT ![h] = m],
             UNCHANGED <<apart, path, lineage, born, clock>>,
             f.route = env[h].route, f.current = env[h].current,
             Good(f, path[h], lineage[h], m, born, clock)
      PROVE  AllGood'
  <2>1. f # None /\ m \subseteq lineage[h] /\ lineage[h] \in SUBSET Routes
    BY <1>0, <1>d, NoneAssumption DEF Good, TypeOK
  <2>2. TypeOK'
    BY <1>0, <1>d, <2>1 DEF TypeOK
  <2>3. GoodAt(h)'
    <3>1. env'[h] = f /\ marked'[h] = m
      BY <1>0, <1>d DEF TypeOK
    <3>2. h \notin apart => f.route = f.current
      BY <1>c, <1>d
    <3>3. QED
      BY <1>d, <3>1, <3>2 DEF GoodAt
  <2>4. \A g \in Holders : g # h => GoodAt(g)'
    BY <1>0, <1>d DEF TypeOK, GoodAt
  <2>5. QED
    BY <2>2, <2>3, <2>4 DEF AllGood
<1>5. ASSUME NEW h \in Holders, NEW v \in BOOLEAN, Mark(h, v) PROVE AllGood'
  <2> DEFINE f == [env[h] EXCEPT !.routed = v]
             m == Set(marked[h], env[h].route, v)
  <2>1. /\ env[h] # None /\ env[h].route # None /\ env' = [env EXCEPT ![h] = f]
        /\ marked' = [marked EXCEPT ![h] = m]
        /\ UNCHANGED <<apart, path, lineage, born, clock>>
    BY <1>5 DEF Mark
  <2>2. /\ f \in Envelopes /\ f.route = env[h].route /\ f.current = env[h].current
        /\ Good(f, path[h], lineage[h], m, born, clock)
    BY <1>c, <2>1, MarkIsGood
  <2> HIDE DEF f, m
  <2>3. QED
    BY <1>d, <2>1, <2>2
<1>12. ASSUME NEW h \in Holders, NEW r \in Routes, NEW v \in BOOLEAN, MarkOwn(h, r, v)
       PROVE  AllGood'
  <2> DEFINE f == [env[h] EXCEPT !.own = Set(@, r, v)]
             m == IF r = env[h].route THEN marked[h] ELSE Set(marked[h], r, v)
  <2>1. /\ env[h] # None /\ r \in Held(env[h]) /\ env' = [env EXCEPT ![h] = f]
        /\ UNCHANGED <<apart, path, lineage, born, clock>>
    BY <1>12 DEF MarkOwn
  <2>2. marked' = [marked EXCEPT ![h] = m]
    <3>1. marked = [marked EXCEPT ![h] = marked[h]]
      BY <1>0 DEF TypeOK
    <3>2. QED
      BY <1>12, <3>1 DEF MarkOwn
  <2>3. /\ f \in Envelopes /\ f.route = env[h].route /\ f.current = env[h].current
        /\ Good(f, path[h], lineage[h], m, born, clock)
    BY <1>c, <2>1, MarkOwnIsGood
  <2> HIDE DEF f, m
  <2>4. QED
    BY <1>d, <2>1, <2>2, <2>3
<1>6. ASSUME NEW h \in Holders, Advance(h) PROVE AllGood'
  <2> DEFINE f == Ratchet(env[h])
  <2>1. /\ env[h] # None /\ UNCHANGED <<lineage, marked, born, clock>> /\ Becomes(h, f)
        /\ apart' = apart \ {h}
    BY <1>6 DEF Advance
  <2>2. /\ f \in Envelopes /\ PathTo(env[h], f, path[h]) \in Seq(Routes)
        /\ Good(f, PathTo(env[h], f, path[h]), lineage[h], marked[h], born, clock)
        /\ f.route = f.current
    BY <1>c, <2>1, RatchetIsGood
  <2> HIDE DEF f
  <2>3. /\ h \notin apart' => f.route = f.current
        /\ apart' \subseteq Holders
        /\ \A g \in Holders : g # h => (g \in apart' <=> g \in apart)
    BY <1>c, <2>1, <2>2
  <2>4. QED
    BY <1>b, <2>1, <2>2, <2>3
<1>7. ASSUME NEW h \in Holders, Steer(h) PROVE AllGood'
  <2> DEFINE f == NextRoute(env[h])
  <2>1. /\ env[h] # None /\ UNCHANGED <<lineage, marked, born, clock>> /\ Becomes(h, f)
        /\ apart' = apart \cup {h}
    BY <1>7 DEF Steer
  <2>2. /\ f \in Envelopes /\ PathTo(env[h], f, path[h]) \in Seq(Routes)
        /\ Good(f, PathTo(env[h], f, path[h]), lineage[h], marked[h], born, clock)
    BY <1>c, <2>1, NextIsGood
  <2> HIDE DEF f
  <2>3. /\ h \notin apart' => f.route = f.current
        /\ apart' \subseteq Holders
        /\ \A g \in Holders : g # h => (g \in apart' <=> g \in apart)
    BY <1>c, <2>1, <2>2
  <2>4. QED
    BY <1>b, <2>1, <2>2, <2>3
<1>8. ASSUME NEW h \in Holders, Consult(h) PROVE AllGood'
  <2> DEFINE f == CurrentRoute(env[h])
  <2>1. /\ env[h] # None /\ UNCHANGED <<lineage, marked, born, clock>> /\ Becomes(h, f)
        /\ apart' = apart \cup {h}
    BY <1>8 DEF Consult
  <2>2. /\ f \in Envelopes /\ PathTo(env[h], f, path[h]) \in Seq(Routes)
        /\ Good(f, PathTo(env[h], f, path[h]), lineage[h], marked[h], born, clock)
    BY <1>c, <2>1, CurrentIsGood
  <2> HIDE DEF f
  <2>3. /\ h \notin apart' => f.route = f.current
        /\ apart' \subseteq Holders
        /\ \A g \in Holders : g # h => (g \in apart' <=> g \in apart)
    BY <1>c, <2>1, <2>2
  <2>4. QED
    BY <1>b, <2>1, <2>2, <2>3
<1>9. ASSUME NEW h \in Holders, NEW g \in Holders, Hop(h, g) PROVE AllGood'
  <2>1. /\ env[h] # None /\ env[g] = None
        /\ env' = [env EXCEPT ![g] = FromJson(ToJson(env[h]))]
        /\ apart' = (IF h \in apart THEN apart \cup {g} ELSE apart)
        /\ path' = [path EXCEPT ![g] = path[h]]
        /\ lineage' = [lineage EXCEPT ![g] = lineage[h]]
        /\ marked' = [marked EXCEPT ![g] = marked[h]]
        /\ UNCHANGED <<born, clock>>
    BY <1>9 DEF Hop
  <2>2. env[h] \in Envelopes /\ Sound(env[h]) /\ GoodAt(h)
    BY <1>0, <2>1 DEF TypeOK, GoodAt, Good
  <2>3. env' = [env EXCEPT ![g] = env[h]]
    BY <2>1, <2>2, RoundTrip
  <2>4. TypeOK'
    BY <1>0, <2>1, <2>2, <2>3 DEF TypeOK
  <2>5. GoodAt(g)'
    BY <1>0, <2>1, <2>2, <2>3 DEF TypeOK, GoodAt
  <2>6. \A k \in Holders : k # g => GoodAt(k)'
    BY <1>0, <2>1, <2>3 DEF TypeOK, GoodAt
  <2>7. QED
    BY <2>4, <2>5, <2>6 DEF AllGood
<1>10. ASSUME NEW h \in Holders, Drop(h) PROVE AllGood'
  <2>1. TypeOK'
    BY <1>0, <1>10 DEF TypeOK, Drop
  <2>2. GoodAt(h)'
    <3>1. /\ env'[h] = None /\ path'[h] = <<>> /\ lineage'[h] = {} /\ marked'[h] = {}
          /\ UNCHANGED <<born, clock>>
      BY <1>0, <1>10 DEF TypeOK, Drop
    <3>2. QED
      BY <3>1 DEF GoodAt, Good, Once, Newest, Rem
  <2>3. \A g \in Holders : g # h => GoodAt(g)'
    BY <1>0, <1>10 DEF TypeOK, GoodAt, Drop
  <2>4. QED
    BY <2>1, <2>2, <2>3 DEF AllGood
<1>11. QED
  BY <1>1, <1>2, <1>3, <1>4, <1>5, <1>6, <1>7, <1>8, <1>9, <1>10, <1>12, <1>a DEF Next

-----------------------------------------------------------------------------
\* The inductive invariant holds in every reachable state: the copies are
\* well-formed, the envelope's clone (envelope.hpp:149-160) follows the slip's
\* current route unless a host drives the slip past it, every route is current
\* once, newest first.
THEOREM RoutingInvariant == Spec => []RoutingInv
<1>1. RoutingInv /\ [Next]_vars => RoutingInv'
  BY RoutingStep
<1>2. QED
  BY RoutingInit, <1>1, PTL DEF Spec

\* GetRoute(), Ratchet() and hops in any mix leave the envelope's clone and the
\* slip's current route on the same route, or both null; a host that drives the
\* public slip itself (envelope.hpp:88) only leaves the clone behind.
THEOREM CloneStaysCurrent == Spec => []CloneIsCurrent
<1>1. RoutingInv => CloneIsCurrent
  BY DEF RoutingInv
<1>2. QED
  BY <1>1, RoutingInvariant, PTL

\* No copy of an envelope makes a route current twice or loses one, whichever call
\* pops it, of the envelope or of its slip, and however often the envelope is sent.
THEOREM RoutesVisitedOnce == Spec => []VisitedOnce
<1>1. RoutingInv => VisitedOnce
  BY DEF RoutingInv
<1>2. QED
  BY <1>1, RoutingInvariant, PTL

\* The slip is a stack on every node it reaches: of the routes that remain the
\* newest is the next.
THEOREM NewestRouteNext == Spec => []NewestFirst
<1>1. RoutingInv => NewestFirst
  BY DEF RoutingInv
<1>2. QED
  BY <1>1, RoutingInvariant, PTL

\* What GetRoute() shows is marked exactly when a host set the mark (route.hpp:39)
\* last and did not take it off, on the clone, or on the slip's own route, which
\* dynamic_routing_slip.hpp:42-57 hands out, before the clone was made of it.
THEOREM MarksSurvive == Spec => []MarkKept
<1>1. ASSUME RoutingInv PROVE MarkKept
  <2>1. SUFFICES ASSUME NEW h \in Holders, env[h] # None, GetRoute(env[h]).route # None
                 PROVE  GetRoute(env[h]).routed <=> GetRoute(env[h]).route \in marked[h]
    BY DEF MarkKept
  <2> DEFINE e == env[h]
             g == GetRoute(e)
  <2>2. /\ e \in Envelopes /\ path[h] \in Seq(Routes)
        /\ Good(e, path[h], lineage[h], marked[h], born, clock)
    BY <1>1, <2>1, CopyByCopy DEF AllGood, GoodAt, TypeOK
  <2>3. /\ g \in Envelopes
        /\ Good(g, PathTo(e, g, path[h]), lineage[h], marked[h], born, clock)
    BY <2>2, GetRouteIsGood
  <2> HIDE DEF g
  <2>4. g # None
    BY <2>3, NoneAssumption
  <2>5. Shown(g, marked[h])
    BY <2>3, <2>4 DEF Good
  <2>6. QED
    BY <2>1, <2>5 DEF Shown, g
<1>2. QED
  BY <1>1, RoutingInvariant, PTL

-----------------------------------------------------------------------------
\* Itinerary's state, as the copies show it.
Live == {h \in Holders : env[h] # None}
Todo == [h \in Holders |-> Pending(h)]

LEMMA SeenAs ==
    ASSUME env \in [Holders -> Envelopes \cup {None}], NEW h \in Holders, NEW e,
           env' = [env EXCEPT ![h] = e]
    PROVE  /\ e # None => Live' = Live \cup {h}
           /\ e = None => Live' = Live \ {h}
           /\ Todo' = [Todo EXCEPT ![h] = Rem(e)]
           /\ Todo[h] = Rem(env[h])
<1>1. \A g \in Holders : env'[g] = IF g = h THEN e ELSE env[g]
  OBVIOUS
<1>2. \A g \in Holders : Pending(g)' = IF g = h THEN Rem(e) ELSE Pending(g)
  BY <1>1 DEF Pending, Rem
<1>3. Todo' = [Todo EXCEPT ![h] = Rem(e)] /\ Todo[h] = Rem(env[h])
  BY <1>2 DEF Todo, Pending, Rem
<1>4. QED
  BY <1>1, <1>3 DEF Live

\* Every step of a copy is a step of the itinerary or leaves it as it is.
LEMMA PromiseStep ==
    ASSUME RoutingInv, [Next]_vars
    PROVE  [Promise!Next]_(Promise!vars)
<1>0. TypeOK /\ \A h \in Holders : GoodAt(h)
  BY CopyByCopy DEF AllGood
<1>b. env \in [Holders -> Envelopes \cup {None}]
  BY <1>0 DEF TypeOK
<1>1. CASE UNCHANGED vars
  BY <1>1 DEF vars, Promise!vars, Pending
<1>a. ASSUME NEW h \in Holders, NEW f \in Envelopes, env[h] # None, Becomes(h, f),
             Moves(env[h], f, path[h])
      PROVE  [Promise!Next]_(Promise!vars)
  <2> DEFINE s == PathTo(env[h], f, path[h])
  <2>1. env' = [env EXCEPT ![h] = f] /\ path' = [path EXCEPT ![h] = s]
    BY <1>a DEF Becomes, PathTo
  <2>2. f # None /\ Rem(f) = f.routes /\ Rem(env[h]) = env[h].routes /\ h \in Live
    BY <1>a, NoneAssumption DEF Rem, Live
  <2>3. Live' = Live /\ Todo' = [Todo EXCEPT ![h] = f.routes] /\ Todo[h] = env[h].routes
    <3>1. /\ Live' = Live \cup {h} /\ Todo' = [Todo EXCEPT ![h] = Rem(f)]
          /\ Todo[h] = Rem(env[h])
      BY <1>b, <2>1, <2>2, SeenAs, Zenon
    <3>2. QED
      BY <2>2, <3>1
  <2>4. CASE f.routes = env[h].routes /\ s = path[h]
    <3>1. Todo' = Todo
      BY <2>3, <2>4 DEF Todo
    <3>2. path' = path
      BY <1>0, <2>1, <2>4 DEF TypeOK
    <3>3. QED
      BY <2>3, <3>1, <3>2 DEF Promise!vars, Live, Todo
  <2>5. CASE /\ env[h].routes # <<>> /\ f.routes = Tail(env[h].routes)
             /\ s = Append(path[h], Head(env[h].routes))
    <3> HIDE DEF s
    <3>1. Promise!Visit(h)
      BY <2>1, <2>2, <2>3, <2>5 DEF Promise!Visit, Live, Todo
    <3>2. QED
      BY <3>1 DEF Promise!Next
  <2>6. QED
    BY <1>a, <2>4, <2>5 DEF Moves
<1>c. ASSUME NEW h \in Holders, env[h] # None
      PROVE  /\ env[h] \in Envelopes /\ path[h] \in Seq(Routes)
             /\ Good(env[h], path[h], lineage[h], marked[h], born, clock)
  BY <1>0, <1>c DEF TypeOK, GoodAt
<1>2. ASSUME NEW h \in Holders, Create(h) PROVE Promise!Next
  <2>1. Fresh \in Envelopes /\ Fresh.routes = <<>>
    BY DEF Fresh, Envelopes
  <2>2. Rem(Fresh) = <<>> /\ Fresh # None
    BY <2>1, NoneAssumption DEF Rem
  <2>3. Live' = Live \cup {h} /\ h \notin Live /\ Todo' = [Todo EXCEPT ![h] = <<>>]
        /\ Todo[h] = <<>> /\ path' = path
    <3>1. env[h] = None /\ env' = [env EXCEPT ![h] = Fresh] /\ path' = path
      BY <1>2 DEF Create
    <3>2. h \notin Live /\ Rem(env[h]) = <<>>
      BY <3>1 DEF Live, Rem
    <3>3. QED
      BY <1>b, <2>2, <3>1, <3>2, SeenAs, Zenon
  <2>4. Todo' = Todo
    BY <2>3 DEF Todo
  <2>5. Promise!New(h)
    BY <2>3, <2>4 DEF Promise!New, Promise!Ends, Live, Todo
  <2>6. QED
    BY <2>5 DEF Promise!Next
<1>3. ASSUME NEW h \in Holders, NEW r \in Routes, Add(h, r) PROVE Promise!Next
  <2> DEFINE e == env[h]
             a == AddRoute(e, r)
  <2>1. /\ e \in Envelopes /\ e # None /\ path[h] \in Seq(Routes) /\ lineage[h] \in SUBSET Routes
        /\ born \in [Routes -> Nat] /\ clock \in Nat /\ born[r] = 0
        /\ Becomes(h, a)
    BY <1>0, <1>3 DEF TypeOK, Add
  <2>2. Good(e, path[h], lineage[h], marked[h], born, clock)
    BY <1>0 DEF GoodAt
  <2> HIDE DEF e
  <2>3. a \in Envelopes /\ a # None /\ a.current = e.current /\ a.routes = <<r>> \o e.routes
    BY <2>1, AddRouteIs, NoneAssumption
  <2>4. r \notin lineage[h]
    BY <2>1, <2>2, LaterIsGood
  <2> HIDE DEF a
  <2>5. Rem(a) = <<r>> \o e.routes /\ Rem(e) = e.routes /\ Once(path[h], e.routes, lineage[h])
    BY <2>1, <2>2, <2>3 DEF Rem, Good
  <2>6. env' = [env EXCEPT ![h] = a] /\ path' = path
    BY <1>0, <2>1, <2>3 DEF Becomes, TypeOK, e
  <2>7. Live' = Live /\ h \in Live /\ Todo' = [Todo EXCEPT ![h] = <<r>> \o Todo[h]]
        /\ Todo[h] = e.routes
    <3>1. h \in Live
      BY <2>1 DEF Live, e
    <3>2. Live' = Live \cup {h} /\ Todo' = [Todo EXCEPT ![h] = Rem(a)] /\ Todo[h] = Rem(e)
      BY <1>0, <2>3, <2>6, SeenAs DEF TypeOK, e
    <3>3. QED
      BY <2>5, <3>1, <3>2
  <2>8. /\ \A i \in DOMAIN e.routes : e.routes[i] # r
        /\ \A i \in DOMAIN path[h] : path[h][i] # r
    BY <2>4, <2>5 DEF Once
  <2>9. Promise!Add(h, r)
    BY <2>6, <2>7, <2>8 DEF Promise!Add, Live, Todo
  <2>10. QED
    BY <2>9 DEF Promise!Next
<1>4. ASSUME NEW h \in Holders, Resolve(h) PROVE [Promise!Next]_(Promise!vars)
  <2>1. env[h] # None /\ Becomes(h, GetRoute(env[h]))
    BY <1>4 DEF Resolve
  <2>2. GetRoute(env[h]) \in Envelopes /\ Moves(env[h], GetRoute(env[h]), path[h])
    BY <1>c, <2>1, GetRouteIsGood
  <2>3. QED
    BY <1>a, <2>1, <2>2
<1>d. ASSUME NEW h \in Holders, NEW f \in Envelopes, env[h] # None, f.routes = env[h].routes,
             env' = [env EXCEPT ![h] = f], path' = path
      PROVE  UNCHANGED Promise!vars
  <2>1. f # None /\ env[h] \in Envelopes /\ Rem(f) = Rem(env[h])
    BY <1>d, <1>c, NoneAssumption DEF Rem
  <2>2. Live' = Live /\ Todo' = Todo
    <3>1. h \in Live
      BY <1>d DEF Live
    <3>2. Live' = Live \cup {h} /\ Todo' = [Todo EXCEPT ![h] = Todo[h]]
      BY <1>b, <1>d, <2>1, SeenAs
    <3>3. QED
      BY <3>1, <3>2 DEF Todo
  <2>3. QED
    BY <1>d, <2>2 DEF Promise!vars, Live, Todo
<1>5. ASSUME NEW h \in Holders, NEW v \in BOOLEAN, Mark(h, v) PROVE UNCHANGED Promise!vars
  <2> DEFINE f == [env[h] EXCEPT !.routed = v]
  <2>1. env[h] # None /\ env[h].route # None /\ env' = [env EXCEPT ![h] = f] /\ path' = path
    BY <1>5 DEF Mark
  <2>2. f \in Envelopes /\ f.routes = env[h].routes
    BY <1>c, <2>1, MarkIsGood
  <2> HIDE DEF f
  <2>3. QED
    BY <1>d, <2>1, <2>2
<1>12. ASSUME NEW h \in Holders, NEW r \in Routes, NEW v \in BOOLEAN, MarkOwn(h, r, v)
       PROVE  UNCHANGED Promise!vars
  <2> DEFINE f == [env[h] EXCEPT !.own = Set(@, r, v)]
  <2>1. env[h] # None /\ r \in Held(env[h]) /\ env' = [env EXCEPT ![h] = f] /\ path' = path
    BY <1>12 DEF MarkOwn
  <2>2. f \in Envelopes /\ f.routes = env[h].routes
    BY <1>c, <2>1, MarkOwnIsGood
  <2> HIDE DEF f
  <2>3. QED
    BY <1>d, <2>1, <2>2
<1>6. ASSUME NEW h \in Holders, Advance(h) PROVE [Promise!Next]_(Promise!vars)
  <2>1. env[h] # None /\ Becomes(h, Ratchet(env[h]))
    BY <1>6 DEF Advance
  <2>2. Ratchet(env[h]) \in Envelopes /\ Moves(env[h], Ratchet(env[h]), path[h])
    BY <1>c, <2>1, RatchetIsGood
  <2>3. QED
    BY <1>a, <2>1, <2>2
<1>7. ASSUME NEW h \in Holders, Steer(h) PROVE [Promise!Next]_(Promise!vars)
  <2>1. env[h] # None /\ Becomes(h, NextRoute(env[h]))
    BY <1>7 DEF Steer
  <2>2. NextRoute(env[h]) \in Envelopes /\ Moves(env[h], NextRoute(env[h]), path[h])
    BY <1>c, <2>1, NextIsGood
  <2>3. QED
    BY <1>a, <2>1, <2>2
<1>8. ASSUME NEW h \in Holders, Consult(h) PROVE [Promise!Next]_(Promise!vars)
  <2>1. env[h] # None /\ Becomes(h, CurrentRoute(env[h]))
    BY <1>8 DEF Consult
  <2>2. CurrentRoute(env[h]) \in Envelopes /\ Moves(env[h], CurrentRoute(env[h]), path[h])
    BY <1>c, <2>1, CurrentIsGood
  <2>3. QED
    BY <1>a, <2>1, <2>2
<1>9. ASSUME NEW h \in Holders, NEW g \in Holders, Hop(h, g) PROVE Promise!Next
  <2>1. /\ env[h] # None /\ env[g] = None /\ Sound(env[h])
        /\ env' = [env EXCEPT ![g] = env[h]] /\ path' = [path EXCEPT ![g] = path[h]]
    BY <1>0, <1>9, RoundTrip DEF Hop, GoodAt, Good
  <2>2. Live' = Live \cup {g} /\ Todo' = [Todo EXCEPT ![g] = Todo[h]]
    <3>1. Todo[h] = Rem(env[h])
      BY DEF Todo, Pending, Rem
    <3>2. Live' = Live \cup {g} /\ Todo' = [Todo EXCEPT ![g] = Rem(env[h])]
      BY <1>b, <2>1, SeenAs, Zenon
    <3>3. QED
      BY <3>1, <3>2
  <2>3. Promise!CopyTo(h, g)
    BY <2>1, <2>2 DEF Promise!CopyTo, Live, Todo
  <2>4. QED
    BY <2>3 DEF Promise!Next
<1>10. ASSUME NEW h \in Holders, Drop(h) PROVE Promise!Next
  <2>1. /\ env[h] # None /\ env' = [env EXCEPT ![h] = None] /\ path' = [path EXCEPT ![h] = <<>>]
    BY <1>10 DEF Drop
  <2>2. Live' = Live \ {h} /\ Todo' = [Todo EXCEPT ![h] = <<>>]
    <3>1. Rem(None) = <<>>
      BY DEF Rem
    <3>2. QED
      BY <1>0, <2>1, <3>1, SeenAs DEF TypeOK
  <2>3. Promise!Discard(h)
    BY <2>1, <2>2 DEF Promise!Discard, Live, Todo
  <2>4. QED
    BY <2>3 DEF Promise!Next
<1>11. QED
  BY <1>1, <1>2, <1>3, <1>4, <1>5, <1>6, <1>7, <1>8, <1>9, <1>10, <1>12 DEF Next

\* The two classes with their lazily made clone, their popping getter and their
\* JSON keep the simple promise of Itinerary: a stack of routes per copy, each
\* visited once, on whichever holder the copy is.
THEOREM RoutingImplementsItinerary == Spec => ImplementsItinerary
<1>1. Init => Promise!Init
  BY DEF Init, Promise!Init, Pending
<1>2. RoutingInv /\ [Next]_vars => [Promise!Next]_(Promise!vars)
  BY PromiseStep
<1>3. QED
  BY <1>1, <1>2, RoutingInvariant, PTL DEF Spec, ImplementsItinerary, Promise!Spec
=============================================================================
