------------------------ MODULE EnvelopeWire_proofs ------------------------
(***************************************************************************)
(* What an envelope carries survives its JSON form, class by class, and so  *)
(* do the promises about exceptions, cleared members and removed            *)
(* signatures: for every number of calls and hops.                          *)
(***************************************************************************)
EXTENDS EnvelopeWire, WellFoundedInduction, TLAPS

-----------------------------------------------------------------------------
(* Induction over the natural numbers, for sets instead of predicates: the  *)
(* library's theorems for predicates cannot be instantiated here.           *)

LEMMA LeastElement ==
    ASSUME NEW S \in SUBSET Nat, S # {}
    PROVE  \E m \in S : \A n \in S : m <= n
<1> DEFINE Less == {p \in Nat \X Nat : p[1] < p[2]}
<1>1. IsWellFoundedOn(Less, Nat)
  <2>1. OpToRel(<, Nat) = Less
    BY Zenon DEF OpToRel
  <2>2. QED
    BY <2>1, NatLessThanWellFounded
<1>2. PICK x \in S : \A y \in S : <<y, x>> \notin Less
  <2> HIDE DEF Less
  <2> QED
    BY <1>1, WFMin
<1>3. \A y \in S : ~(y < x)
  BY <1>2
<1> QED
  BY <1>3

LEMMA Induction ==
    ASSUME NEW S, 0 \in S, \A n \in Nat : n \in S => n + 1 \in S
    PROVE  Nat \subseteq S
<1> SUFFICES ASSUME Nat \ S # {} PROVE FALSE
  OBVIOUS
<1>1. PICK m \in Nat \ S : \A n \in Nat \ S : m <= n
  <2>1. Nat \ S \in SUBSET Nat
    OBVIOUS
  <2> QED
    BY <2>1, LeastElement
<1>2. m - 1 \in Nat /\ m - 1 \notin Nat \ S
  BY <1>1
<1> QED
  BY <1>1, <1>2

\* A function on 0..n is given by its first value and each next one.
Steps(n, S) == [1..n -> [S -> S]]

Follows(f, n, base, step) == f = [i \in 0..n |-> IF i = 0 THEN base ELSE step[i][f[i - 1]]]

LEMMA PrimitiveRecursion ==
    ASSUME NEW n \in Nat, NEW S, NEW base \in S, NEW step \in Steps(n, S)
    PROVE  \E f \in [0..n -> S] : Follows(f, n, base, step)
<1> DEFINE Good(k, f) == f[0] = base /\ \A i \in 1..k : f[i] = step[i][f[i - 1]]
<1> DEFINE T == {k \in Nat : k <= n => \E f \in [0..k -> S] : Good(k, f)}
<1>1. 0 \in T
  <2> DEFINE f == [i \in 0..0 |-> base]
  <2>1. f \in [0..0 -> S] /\ Good(0, f)
    OBVIOUS
  <2> QED
    BY <2>1
<1>2. ASSUME NEW k \in Nat, k \in T PROVE k + 1 \in T
  <2> SUFFICES ASSUME k + 1 <= n PROVE \E g \in [0..(k + 1) -> S] : Good(k + 1, g)
    OBVIOUS
  <2>1. PICK f \in [0..k -> S] : Good(k, f)
    BY <1>2
  <2> DEFINE next == step[k + 1][f[k]]
  <2> DEFINE g == [i \in 0..(k + 1) |-> IF i = k + 1 THEN next ELSE f[i]]
  <2>2. next \in S
    <3>1. step[k + 1] \in [S -> S] /\ f[k] \in S
      BY DEF Steps
    <3> QED
      BY <3>1
  <2>3. g \in [0..(k + 1) -> S]
    <3> HIDE DEF next
    <3> QED
      BY <2>2
  <2>4. g[0] = base
    BY <2>1
  <2>5. \A i \in 1..(k + 1) : g[i] = step[i][g[i - 1]]
    <3> TAKE i \in 1..(k + 1)
    <3>1. CASE i = k + 1
      <4>1. g[i] = next /\ g[i - 1] = f[k]
        BY <3>1
      <4> QED
        BY <3>1, <4>1
    <3>2. CASE i \in 1..k
      <4>1. g[i] = f[i] /\ g[i - 1] = f[i - 1]
        BY <3>2
      <4> QED
        BY <2>1, <3>2, <4>1
    <3> QED
      BY <3>1, <3>2
  <2> QED
    BY <2>3, <2>4, <2>5
<1>3. n \in T
  <2> HIDE DEF T
  <2> QED
    BY <1>1, <1>2, Induction
<1>4. PICK f \in [0..n -> S] : Good(n, f)
  BY <1>3
<1> DEFINE h == [i \in 0..n |-> IF i = 0 THEN base ELSE step[i][f[i - 1]]]
<1>5. \A i \in 0..n : f[i] = h[i]
  <2> TAKE i \in 0..n
  <2>1. CASE i = 0
    BY <1>4, <2>1
  <2>2. CASE i \in 1..n
    BY <1>4, <2>2
  <2> QED
    BY <2>1, <2>2
<1>6. f = h
  <2> HIDE DEF h
  <2>1. f = [i \in 0..n |-> f[i]]
    OBVIOUS
  <2>2. h = [i \in 0..n |-> h[i]]
    BY DEF h
  <2> QED
    BY <1>5, <2>1, <2>2
<1> QED
  BY <1>6 DEF Follows

-----------------------------------------------------------------------------
(* What every class's pair of ToJson() and FromJson() has to fit together.   *)

\* o has the members of a new object, and only these.
HasMembersOf(o, new) == o = [m \in DOMAIN new |-> o[m]]

LEMMA ReadBack ==
    ASSUME NEW o, NEW new, NEW r, HasMembersOf(o, new),
           DOMAIN r \subseteq DOMAIN new, \A k \in DOMAIN r : r[k] = o[k],
           \A k \in DOMAIN new \ DOMAIN r : o[k] = new[k]
    PROVE  With(new, r) = o
BY DEF With, HasMembersOf

\* The usual case: what is left out is what a new object holds.
LEMMA ReadBackKeys ==
    ASSUME NEW o, NEW new, NEW r, NEW always, HasMembersOf(o, new),
           DOMAIN r = Keys(o, always, new), \A k \in DOMAIN r : r[k] = o[k]
    PROVE  With(new, r) = o
<1>1. DOMAIN o = DOMAIN new
  BY DEF HasMembersOf
<1>2. DOMAIN r \subseteq DOMAIN new /\ \A k \in DOMAIN new \ DOMAIN r : o[k] = new[k]
  BY <1>1 DEF Keys
<1> QED
  BY <1>2, ReadBack

LEMMA SameMembers ==
    ASSUME NEW o, NEW new, HasMembersOf(o, new)
    PROVE  /\ DOMAIN o = DOMAIN new
           /\ \A values : HasMembersOf(With(o, values), new)
           /\ \A k, v : HasMembersOf([o EXCEPT ![k] = v], new)
BY DEF HasMembersOf, With

\* Every name that an enumeration writes is one that it reads.
LEMMA NamesSurvive ==
    /\ \A s \in EnvelopeAction.written : FromString(EnvelopeAction, s) = s
    /\ \A s \in ServiceLevel.written : FromString(ServiceLevel, s) = s
    /\ \A s \in DidStatus.written : FromString(DidStatus, s) = s
    /\ \A s \in DidType.written : FromString(DidType, s) = s
    /\ \A s \in Network.written : FromString(Network, s) = s
    /\ \A s \in Command.written : FromString(Command, s) = s
<1>1. /\ \A s \in EnvelopeAction.written : FromString(EnvelopeAction, s) = s
      /\ \A s \in ServiceLevel.written : FromString(ServiceLevel, s) = s
      /\ \A s \in DidStatus.written : FromString(DidStatus, s) = s
      /\ \A s \in DidType.written : FromString(DidType, s) = s
  BY DEF FromString, EnvelopeAction, ServiceLevel, DidStatus, DidType
<1>2. \A s \in Network.written : FromString(Network, s) = s
  BY DEF FromString, Network
<1>3. \A s \in Command.written : FromString(Command, s) = s
  BY DEF FromString, Command, CommandNames
<1> QED
  BY <1>1, <1>2, <1>3

-----------------------------------------------------------------------------
(* The classes, from the inside out.                                         *)

\* Members that were never set, or were set to one of the two strings.
SomeSignatures == [DOMAIN NoSignature -> {None, X, Y}]

KeyOK(key) ==
    /\ HasMembersOf(key, NoKey)
    /\ key.signed_attributes \in [DOMAIN key.signed_attributes -> Seq(SomeSignatures)]
    /\ HasMembersOf(key.attributes, key.attributes)

DidOK(did) ==
    /\ HasMembersOf(did, NewDid)
    /\ did.status \in DidStatus.written /\ did.did_type \in DidType.written
    /\ KeyOK(did.public_key)

PeerOK(p) == HasMembersOf(p, NewPeer) /\ p.network \in Network.written /\ DidOK(p.did)

LEMMA SignatureSurvives ==
    ASSUME NEW s \in SomeSignatures
    PROVE  ReadSignature(WriteSignature(s)) = s
<1>1. HasMembersOf(s, NoSignature)
  BY DEF SomeSignatures, HasMembersOf
<1>2. /\ DOMAIN WriteSignature(s) = Keys(s, {}, NoSignature)
      /\ \A k \in DOMAIN WriteSignature(s) : WriteSignature(s)[k] = s[k]
  BY DEF WriteSignature
<1> QED
  BY <1>1, <1>2, ReadBackKeys DEF ReadSignature

LEMMA KeySurvives ==
    ASSUME NEW key, KeyOK(key)
    PROVE  ReadKey(WriteKey(key)) = key
<1> DEFINE w == WriteKey(key)
<1> DEFINE r == [k \in DOMAIN w |-> ParseKey(k, w[k])]
<1>1. /\ DOMAIN w = Keys(key, {}, NoKey)
      /\ \A k \in DOMAIN w : w[k] = FormatKey(k, key[k])
  BY DEF WriteKey
<1>2. ASSUME NEW k \in DOMAIN w PROVE ParseKey(k, FormatKey(k, key[k])) = key[k]
  <2>1. CASE k # "signed_attributes"
    BY <2>1 DEF ParseKey, FormatKey
  <2>2. CASE k = "signed_attributes"
    <3> DEFINE v == key.signed_attributes
    <3> DEFINE u == [n \in DOMAIN v |-> Each(v[n], WriteSignature)]
    <3>1. ASSUME NEW n \in DOMAIN v PROVE Each(u[n], ReadSignature) = v[n]
      <4>1. v[n] \in Seq(SomeSignatures)
        BY DEF KeyOK
      <4>2. v[n] = [i \in DOMAIN v[n] |-> v[n][i]] /\ \A i \in DOMAIN v[n] : v[n][i] \in SomeSignatures
        BY <4>1
      <4>3. u[n] = [i \in DOMAIN v[n] |-> WriteSignature(v[n][i])]
        BY DEF Each
      <4>4. Each(u[n], ReadSignature) = [i \in DOMAIN v[n] |-> ReadSignature(WriteSignature(v[n][i]))]
        BY <4>3 DEF Each
      <4> QED
        BY <4>2, <4>4, SignatureSurvives
    <3>2. ParseKey(k, FormatKey(k, key[k])) = [n \in DOMAIN v |-> Each(u[n], ReadSignature)]
      BY <2>2 DEF ParseKey, FormatKey
    <3>3. v = [n \in DOMAIN v |-> v[n]]
      BY DEF KeyOK
    <3> QED
      BY <2>2, <3>1, <3>2, <3>3
  <2> QED
    BY <2>1, <2>2
<1>3. DOMAIN r = Keys(key, {}, NoKey) /\ \A k \in DOMAIN r : r[k] = key[k]
  BY <1>1, <1>2
<1>4. HasMembersOf(key, NoKey)
  BY DEF KeyOK
<1>5. With(NoKey, r) = key
  <2> HIDE DEF r
  <2> QED
    BY <1>3, <1>4, ReadBackKeys
<1> QED
  BY <1>5 DEF ReadKey

LEMMA DidSurvives ==
    ASSUME NEW did, DidOK(did)
    PROVE  ReadDid(WriteDid(did)) = did
<1> DEFINE always == DOMAIN did \ {"passphrase", "passphrase2", "passphrase_hash"}
<1> DEFINE w == WriteDid(did)
<1> DEFINE r == [k \in DOMAIN w |-> ParseDid(k, w[k])]
<1>1. /\ DOMAIN w = Keys(did, always, NewDid)
      /\ \A k \in DOMAIN w : w[k] = FormatDid(k, did[k])
  BY DEF WriteDid
<1>2. ASSUME NEW k \in DOMAIN w PROVE ParseDid(k, FormatDid(k, did[k])) = did[k]
  <2>1. CASE k = "public_key"
    BY <2>1, KeySurvives DEF ParseDid, FormatDid, DidOK
  <2>2. CASE k = "status"
    BY <2>2, NamesSurvive DEF ParseDid, FormatDid, DidOK
  <2>3. CASE k = "did_type"
    BY <2>3, NamesSurvive DEF ParseDid, FormatDid, DidOK
  <2>4. CASE k \notin {"public_key", "status", "did_type"}
    BY <2>4 DEF ParseDid, FormatDid
  <2> QED
    BY <2>1, <2>2, <2>3, <2>4
<1>3. DOMAIN r = Keys(did, always, NewDid) /\ \A k \in DOMAIN r : r[k] = did[k]
  BY <1>1, <1>2
<1>4. HasMembersOf(did, NewDid)
  BY DEF DidOK
<1>5. With(NewDid, r) = did
  <2> HIDE DEF r
  <2> QED
    BY <1>3, <1>4, ReadBackKeys
<1> QED
  BY <1>5 DEF ReadDid

LEMMA PeerSurvives ==
    ASSUME NEW p, PeerOK(p)
    PROVE  ReadPeer(WritePeer(p)) = p
<1> DEFINE w == WritePeer(p)
<1> DEFINE r == [k \in DOMAIN w |-> ParsePeer(k, w[k])]
<1>1. /\ DOMAIN w = Keys(p, {"network", "did"}, NewPeer)
      /\ \A k \in DOMAIN w : w[k] = IF k = "did" THEN WriteDid(p[k]) ELSE p[k]
  BY DEF WritePeer
<1>2. ASSUME NEW k \in DOMAIN w PROVE r[k] = p[k]
  <2>1. CASE k = "did"
    BY <1>1, <2>1, DidSurvives DEF ParsePeer, PeerOK
  <2>2. CASE k = "network"
    BY <1>1, <2>2, NamesSurvive DEF ParsePeer, PeerOK
  <2>3. CASE k \notin {"did", "network"}
    BY <1>1, <2>3 DEF ParsePeer
  <2> QED
    BY <2>1, <2>2, <2>3
<1>3. DOMAIN r = Keys(p, {"network", "did"}, NewPeer) /\ \A k \in DOMAIN r : r[k] = p[k]
  BY <1>1, <1>2
<1>4. HasMembersOf(p, NewPeer)
  BY DEF PeerOK
<1>5. With(NewPeer, r) = p
  <2> HIDE DEF r
  <2> QED
    BY <1>3, <1>4, ReadBackKeys
<1> QED
  BY <1>5 DEF ReadPeer

\* The routes: nothing, or one of the three kinds.
ExternalOK(r) ==
    /\ HasMembersOf(r, NewExternal) /\ HasMembersOf(r.meta, NewMeta)
    /\ r.origination = None \/ PeerOK(r.origination)
    /\ r.destination = None \/ PeerOK(r.destination)

RelayedOK(r) ==
    /\ HasMembersOf(r, NewRelayed) /\ ExternalOK(r.base)
    /\ r.from_peer = None \/ PeerOK(r.from_peer)
    /\ r.to_peer = None \/ PeerOK(r.to_peer)

RouteOK(r) ==
    \/ r.type = "simple" /\ HasMembersOf(r, NewSimple) /\ HasMembersOf(r.meta, NewMeta)
    \/ r.type = "simple_external" /\ ExternalOK(r)
    \/ r.type = "relayed_external" /\ RelayedOK(r)

LEMMA MetaSurvives ==
    ASSUME NEW m, HasMembersOf(m, NewMeta)
    PROVE  ReadMeta(WriteMeta(m)) = m
<1> DEFINE w == WriteMeta(m)
<1> DEFINE absent == [NewMeta EXCEPT !.route_id = 0]
<1>1. DOMAIN absent = DOMAIN NewMeta /\ \A k \in DOMAIN NewMeta \ {"route_id"} : absent[k] = NewMeta[k]
  BY DEF NewMeta
<1>2. /\ DOMAIN w = Keys(m, {"routed", "route_id"}, NewMeta)
      /\ \A k \in DOMAIN w : w[k] = m[k]
  BY DEF WriteMeta
<1>3. DOMAIN m = DOMAIN NewMeta /\ HasMembersOf(m, absent)
  BY <1>1 DEF HasMembersOf
<1>4. DOMAIN w \subseteq DOMAIN absent /\ \A k \in DOMAIN absent \ DOMAIN w : m[k] = absent[k]
  BY <1>1, <1>2, <1>3 DEF Keys
<1>5. With(absent, w) = m
  <2> HIDE DEF w, absent
  <2> QED
    BY <1>2, <1>3, <1>4, ReadBack
<1> QED
  BY <1>5 DEF ReadMeta

LEMMA ExternalSurvives ==
    ASSUME NEW r, ExternalOK(r)
    PROVE  ReadExternal(WriteExternal(r)) = r
<1> DEFINE always == DOMAIN r \ {"origination", "destination"}
<1> DEFINE w == WriteExternal(r)
<1> DEFINE q == [k \in DOMAIN w |-> ParseExternal(k, w[k])]
<1>1. /\ DOMAIN w = Keys(r, always, NewExternal)
      /\ \A k \in DOMAIN w : w[k] = FormatExternal(k, r[k])
  BY DEF WriteExternal
<1>2. ASSUME NEW k \in DOMAIN w PROVE ParseExternal(k, FormatExternal(k, r[k])) = r[k]
  <2>1. CASE k = "meta"
    BY <2>1, MetaSurvives DEF ParseExternal, FormatExternal, ExternalOK
  <2>2. CASE k \in {"origination", "destination"}
    <3>1. r[k] # None
      BY <1>1, <2>2 DEF Keys, NewExternal
    <3>2. PeerOK(r[k])
      BY <2>2, <3>1 DEF ExternalOK
    <3> QED
      BY <2>2, <3>2, PeerSurvives DEF ParseExternal, FormatExternal
  <2>3. CASE k \notin {"meta", "origination", "destination"}
    BY <2>3 DEF ParseExternal, FormatExternal
  <2> QED
    BY <2>1, <2>2, <2>3
<1>3. DOMAIN q = Keys(r, always, NewExternal) /\ \A k \in DOMAIN q : q[k] = r[k]
  BY <1>1, <1>2
<1>4. HasMembersOf(r, NewExternal)
  BY DEF ExternalOK
<1>5. With(NewExternal, q) = r
  <2> HIDE DEF q
  <2> QED
    BY <1>3, <1>4, ReadBackKeys
<1> QED
  BY <1>5 DEF ReadExternal

LEMMA RelayedSurvives ==
    ASSUME NEW r, RelayedOK(r), r.type = "relayed_external"
    PROVE  RouteFromJson(WriteRoute(r)) = r
<1> DEFINE always == DOMAIN r \ {"from_peer", "to_peer"}
<1> DEFINE w == [k \in Keys(r, always, NewRelayed) |-> FormatRelayed(k, r[k])]
<1> DEFINE q == [k \in DOMAIN w |-> ParseRelayed(k, w[k])]
<1>1. ASSUME NEW k \in DOMAIN w PROVE ParseRelayed(k, FormatRelayed(k, r[k])) = r[k]
  <2>1. CASE k = "base"
    BY <2>1, ExternalSurvives DEF ParseRelayed, FormatRelayed, RelayedOK
  <2>2. CASE k \in {"from_peer", "to_peer"}
    <3>1. r[k] # None
      BY <2>2 DEF Keys, NewRelayed
    <3>2. PeerOK(r[k])
      BY <2>2, <3>1 DEF RelayedOK
    <3> QED
      BY <2>2, <3>2, PeerSurvives DEF ParseRelayed, FormatRelayed
  <2>3. CASE k \notin {"base", "from_peer", "to_peer"}
    BY <2>3 DEF ParseRelayed, FormatRelayed
  <2> QED
    BY <2>1, <2>2, <2>3
<1>2. DOMAIN q = Keys(r, always, NewRelayed) /\ \A k \in DOMAIN q : q[k] = r[k]
  BY <1>1
<1>3. HasMembersOf(r, NewRelayed)
  BY DEF RelayedOK
<1>4. With(NewRelayed, q) = r
  <2> HIDE DEF q
  <2> QED
    BY <1>2, <1>3, ReadBackKeys
<1>5. "type" \in DOMAIN w /\ w["type"] = "relayed_external"
  BY <1>3 DEF HasMembersOf, Keys, NewRelayed, FormatRelayed
<1>6. WriteRoute(r) = w
  BY DEF WriteRoute
<1>7. RouteFromJson(w) = With(NewRelayed, q)
  <2> HIDE DEF w
  <2> QED
    BY <1>5 DEF RouteFromJson
<1> QED
  BY <1>4, <1>6, <1>7

LEMMA RouteSurvives ==
    ASSUME NEW r, RouteOK(r)
    PROVE  RouteFromJson(WriteRoute(r)) = r
<1>1. CASE r.type = "simple" /\ HasMembersOf(r, NewSimple) /\ HasMembersOf(r.meta, NewMeta)
  <2> DEFINE w == [k \in DOMAIN r |-> FormatExternal(k, r[k])]
  <2> DEFINE q == [k \in DOMAIN w |-> ParseExternal(k, w[k])]
  <2>1. DOMAIN r = {"type", "meta"}
    BY <1>1 DEF HasMembersOf, NewSimple
  <2>2. w["type"] = "simple" /\ w["meta"] = WriteMeta(r.meta)
    BY <1>1, <2>1 DEF FormatExternal
  <2>3. q["type"] = r.type /\ q["meta"] = ReadMeta(WriteMeta(r.meta))
    BY <1>1, <2>1, <2>2 DEF ParseExternal
  <2>4. \A k \in DOMAIN q : q[k] = r[k]
    BY <1>1, <2>1, <2>3, MetaSurvives
  <2>5. With(NewSimple, q) = r
    <3>1. DOMAIN q = DOMAIN NewSimple
      BY <2>1 DEF NewSimple
    <3> HIDE DEF q
    <3> QED
      BY <1>1, <2>4, <3>1, ReadBack
  <2>6. WriteRoute(r) = w
    BY <1>1 DEF WriteRoute
  <2>7. RouteFromJson(w) = With(NewSimple, q)
    <3> HIDE DEF w
    <3> QED
      BY <2>2 DEF RouteFromJson
  <2> QED
    BY <2>5, <2>6, <2>7
<1>2. CASE r.type = "simple_external" /\ ExternalOK(r)
  <2>1. WriteRoute(r) = WriteExternal(r)
    BY <1>2 DEF WriteRoute
  <2>2. WriteExternal(r)["type"] = "simple_external"
    BY <1>2 DEF WriteExternal, FormatExternal, ExternalOK, HasMembersOf, Keys, NewExternal
  <2>3. RouteFromJson(WriteExternal(r)) = ReadExternal(WriteExternal(r))
    BY <2>2 DEF RouteFromJson
  <2> QED
    BY <1>2, <2>1, <2>3, ExternalSurvives
<1>3. CASE r.type = "relayed_external" /\ RelayedOK(r)
  BY <1>3, RelayedSurvives
<1> QED
  BY <1>1, <1>2, <1>3 DEF RouteOK

-----------------------------------------------------------------------------
\* The other things an envelope carries.
MultipartOK(m) == HasMembersOf(m, NewMultipart(None))

LEMMA MultipartLosesItsParts ==
    ASSUME NEW m, MultipartOK(m)
    PROVE  ReadMultipart(WriteMultipart(m)) = [m EXCEPT !.body = <<>>]
<1>1. m = [boundary |-> m.boundary, charset |-> m.charset, body |-> m.body]
  BY DEF MultipartOK, HasMembersOf, NewMultipart
<1>2. ReadMultipart(WriteMultipart(m)) = [boundary |-> m.boundary, charset |-> m.charset, body |-> <<>>]
  BY DEF ReadMultipart, WriteMultipart
<1>3. [m EXCEPT !.body = <<>>] = [boundary |-> m.boundary, charset |-> m.charset, body |-> <<>>]
  BY <1>1
<1> QED
  BY <1>2, <1>3

MessageKinds == {"document", "command", "event", "text"}

MessageOK(m) ==
    /\ m.kind \in MessageKinds /\ HasMembersOf(m, Unset(m.kind))
    /\ m.kind = "document" => m \in Documents
    /\ m.kind = "command" => m.command = None \/ m.command \in Command.written
    /\ m.kind = "text" => \A f \in {"to", "from"} : m[f] = None \/ DidOK(m[f])

LEMMA MessageSurvives ==
    ASSUME NEW m, MessageOK(m)
    PROVE  MessageFromJson(WriteMessage(m)) = m
<1> DEFINE w == WriteMessage(m)
<1> DEFINE q == [k \in DOMAIN w |-> ParseMessage(k, w[k])]
<1>1. /\ DOMAIN w = Keys(m, Always(m.kind), Unset(m.kind))
      /\ \A k \in DOMAIN w : w[k] = IF k \in {"to", "from"} THEN WriteDid(m[k]) ELSE m[k]
  BY DEF WriteMessage
<1>2. DOMAIN m = DOMAIN Unset(m.kind) /\ "kind" \in Always(m.kind) /\ "kind" \in DOMAIN m
  BY DEF MessageOK, HasMembersOf, MessageKinds, Always, Unset, NewDocument, NewCommand, NewText, NewEvent
<1>3. w["kind"] = m.kind
  BY <1>1, <1>2 DEF Keys
<1>4. ASSUME NEW k \in DOMAIN w PROVE q[k] = m[k]
  <2>1. k \in DOMAIN Unset(m.kind)
    BY <1>1, <1>2 DEF Keys
  <2>2. CASE k \in {"to", "from"}
    <3>1. m.kind = "text"
      BY <2>1, <2>2 DEF MessageOK, MessageKinds, Unset, NewDocument, NewCommand, NewEvent
    <3>2. m[k] # None
      BY <1>1, <2>2, <3>1 DEF Keys, Always, Unset, NewText
    <3>3. DidOK(m[k])
      BY <2>2, <3>1, <3>2 DEF MessageOK
    <3>4. q[k] = ReadDid(WriteDid(m[k]))
      BY <1>1, <2>2 DEF ParseMessage
    <3> QED
      BY <3>3, <3>4, DidSurvives
  <2>3. CASE k = "command"
    <3>1. m.kind = "command"
      BY <2>1, <2>3 DEF MessageOK, MessageKinds, Unset, NewDocument, NewText, NewEvent
    <3>2. m.command # None
      BY <1>1, <2>3, <3>1 DEF Keys, Always, Unset, NewCommand
    <3>3. m.command \in Command.written
      BY <3>1, <3>2 DEF MessageOK
    <3>4. q[k] = FromString(Command, m.command)
      BY <1>1, <2>3 DEF ParseMessage
    <3> QED
      BY <2>3, <3>3, <3>4, NamesSurvive
  <2>4. CASE k \notin {"to", "from", "command"}
    BY <1>1, <2>4 DEF ParseMessage
  <2> QED
    BY <2>2, <2>3, <2>4
<1>5. DOMAIN q = Keys(m, Always(m.kind), Unset(m.kind)) /\ \A k \in DOMAIN q : q[k] = m[k]
  BY <1>1, <1>4
<1>6. HasMembersOf(m, Unset(m.kind))
  BY DEF MessageOK
<1>7. With(Unset(m.kind), q) = m
  <2> HIDE DEF q
  <2> QED
    BY <1>5, <1>6, ReadBackKeys
<1> QED
  BY <1>3, <1>7 DEF MessageFromJson

\* remove_if leaves no signature of the signer, wherever and however often it signed.
LEMMA WithoutLeavesNone ==
    ASSUME NEW S, NEW list \in Seq(S), NEW address
    PROVE  /\ Without(list, address) \in Seq(S)
           /\ \A i \in DOMAIN Without(list, address) :
                 Without(list, address)[i].signed_by_address # address
<1> DEFINE n == Len(list)
<1> DEFINE Left == {s \in Seq(S) : \A i \in DOMAIN s : s[i].signed_by_address # address}
<1> DEFINE Goes(i) == list[i].signed_by_address = address
<1> DEFINE Computed(f) == [i \in 0..n |->
              IF i = 0 THEN <<>> ELSE IF Goes(i) THEN f[i - 1] ELSE Append(f[i - 1], list[i])]
<1> DEFINE kept == CHOOSE f : f = Computed(f)
<1> DEFINE step == [i \in 1..n |-> [s \in Left |-> IF Goes(i) THEN s ELSE Append(s, list[i])]]
<1>1. n \in Nat /\ \A i \in 1..n : list[i] \in S
  OBVIOUS
<1>2. \A i \in 1..n, s \in Left : (IF Goes(i) THEN s ELSE Append(s, list[i])) \in Left
  <2> SUFFICES ASSUME NEW i \in 1..n, NEW s \in Left, ~Goes(i) PROVE Append(s, list[i]) \in Left
    OBVIOUS
  <2>1. list[i] \in S
    BY <1>1
  <2>2. Append(s, list[i]) \in Seq(S)
    BY <2>1
  <2>3. \A j \in DOMAIN Append(s, list[i]) : Append(s, list[i])[j].signed_by_address # address
    <3> TAKE j \in DOMAIN Append(s, list[i])
    <3> DEFINE last == list[i]
    <3> HIDE DEF last
    <3>1. s \in Seq(S) /\ last \in S
      BY <2>1 DEF last
    <3>2. j \in 1..(Len(s) + 1) /\ Len(s) \in Nat /\ DOMAIN s = 1..Len(s)
      BY <3>1 DEF last
    <3>3. CASE j = Len(s) + 1
      BY <3>1, <3>3 DEF last
    <3>4. CASE j \in 1..Len(s)
      <4>1. Append(s, last)[j] = s[j]
        BY <3>1, <3>4
      <4> QED
        BY <3>2, <3>4, <4>1 DEF last
    <3> QED
      BY <3>2, <3>3, <3>4
  <2> QED
    BY <2>2, <2>3
<1>3. step \in Steps(n, Left)
  BY <1>2 DEF Steps
<1>4. <<>> \in Left
  OBVIOUS
<1>5. \E f : f = Computed(f)
  <2>1. PICK f \in [0..n -> Left] : Follows(f, n, <<>>, step)
    <3> HIDE DEF step, Left, n
    <3> QED
      BY <1>1, <1>3, <1>4, PrimitiveRecursion
  <2>2. \A i \in 1..n : step[i][f[i - 1]] = IF Goes(i) THEN f[i - 1] ELSE Append(f[i - 1], list[i])
    <3> TAKE i \in 1..n
    <3>1. f[i - 1] \in Left
      <4> HIDE DEF Left, n, step, Goes
      <4> QED
        BY <1>1
    <3> QED
      BY <3>1
  <2>3. f = Computed(f)
    <3> HIDE DEF step, n, Goes, Left
    <3>1. f = [i \in 0..n |-> IF i = 0 THEN <<>> ELSE step[i][f[i - 1]]]
      BY <2>1 DEF Follows
    <3>2. \A i \in 0..n : i # 0 => i \in 1..n
      BY <1>1
    <3> QED
      BY <2>2, <3>1, <3>2
  <2> HIDE DEF Computed
  <2> QED
    BY <2>3
<1>6. kept = Computed(kept)
  <2> HIDE DEF Computed
  <2> QED
    BY <1>5
<1>7. kept[0] = <<>> /\ \A i \in 1..n : kept[i] = IF Goes(i) THEN kept[i - 1] ELSE Append(kept[i - 1], list[i])
  <2> DEFINE g == kept
  <2> HIDE DEF g
  <2>1. g = Computed(g)
    BY <1>6 DEF g
  <2>2. \A i \in 0..n : g[i] = Computed(g)[i]
    BY <2>1
  <2>3. g[0] = <<>> /\ \A i \in 1..n : g[i] = IF Goes(i) THEN g[i - 1] ELSE Append(g[i - 1], list[i])
    <3> HIDE DEF Goes, n
    <3>1. 0 \in 0..n /\ \A i \in 1..n : i \in 0..n /\ i # 0
      BY <1>1
    <3> QED
      BY <2>2, <3>1
  <2> QED
    BY <2>3 DEF g
<1>8. kept[n] \in Left
  <2> DEFINE T == {k \in Nat : k <= n => kept[k] \in Left}
  <2> HIDE DEF kept, Left
  <2>1. 0 \in T
    BY <1>4, <1>7
  <2>2. \A k \in Nat : k \in T => k + 1 \in T
    <3> SUFFICES ASSUME NEW k \in Nat, k \in T, k + 1 <= n PROVE kept[k + 1] \in Left
      OBVIOUS
    <3>1. k + 1 \in 1..n /\ kept[k] \in Left /\ (k + 1) - 1 = k
      BY <1>1
    <3> QED
      BY <1>2, <1>7, <3>1
  <2>3. n \in T
    <3> HIDE DEF T
    <3> QED
      BY <1>1, <2>1, <2>2, Induction
  <2> QED
    BY <2>3
<1>9. Without(list, address) = kept[n]
  BY DEF Without
<1> QED
  BY <1>8, <1>9

-----------------------------------------------------------------------------
\* The envelope: what a host can make of it, and no hop unmakes.
MemberOK(k, v) ==
    /\ k = "did" => DidOK(v)
    /\ k = "route" => v = None \/ RouteOK(v)
    /\ k = "multipart" => v = None \/ MultipartOK(v)
    /\ k = "message" => v = None \/ MessageOK(v)
    /\ k = "action" => v = None \/ v \in EnvelopeAction.written
    /\ k = "service_level" => v \in ServiceLevel.written

EnvelopeOK(e) ==
    /\ HasMembersOf(e, NewEnvelope(None))
    /\ \A k \in DOMAIN e : MemberOK(k, e[k])

LEMMA EnvelopeMembers ==
    DOMAIN NewEnvelope(None) =
        {"route", "markers", "did", "client", "reply_to_client", "client_reply_action", "url",
         "multipart", "action", "command_path", "headers", "message", "sensitivity", "delayed",
         "min_delay", "max_delay", "copy", "max_copies", "min_copies", "service_level"}
BY DEF NewEnvelope

LEMMA OneMemberChanges ==
    ASSUME NEW e, EnvelopeOK(e), NEW k \in DOMAIN e, NEW v, MemberOK(k, v)
    PROVE  /\ EnvelopeOK([e EXCEPT ![k] = v]) /\ [e EXCEPT ![k] = v][k] = v
           /\ \A j \in DOMAIN e \ {k} : [e EXCEPT ![k] = v][j] = e[j]
BY SameMembers DEF EnvelopeOK

\* A member that is written is read as it was, but for a multipart's parts.
LEMMA MemberSurvives ==
    ASSUME NEW k, NEW v, MemberOK(k, v), v # None
    PROVE  ParseEnvelope(k, FormatEnvelope(k, v)) = IF k = "multipart" THEN [v EXCEPT !.body = <<>>] ELSE v
<1>1. CASE k = "did"
  BY <1>1, DidSurvives DEF MemberOK, ParseEnvelope, FormatEnvelope
<1>2. CASE k = "route"
  BY <1>2, RouteSurvives DEF MemberOK, ParseEnvelope, FormatEnvelope
<1>3. CASE k = "multipart"
  BY <1>3, MultipartLosesItsParts DEF MemberOK, ParseEnvelope, FormatEnvelope
<1>4. CASE k = "message"
  BY <1>4, MessageSurvives DEF MemberOK, ParseEnvelope, FormatEnvelope
<1>5. CASE k \in {"action", "service_level"}
  BY <1>5, NamesSurvive DEF MemberOK, ParseEnvelope, FormatEnvelope
<1>6. CASE k \notin {"did", "route", "multipart", "message", "action", "service_level"}
  BY <1>6 DEF ParseEnvelope, FormatEnvelope
<1> QED
  BY <1>1, <1>2, <1>3, <1>4, <1>5, <1>6

LEMMA EnvelopeSurvives ==
    ASSUME NEW e, EnvelopeOK(e)
    PROVE  FromJson(ToJson(e)) = IF e.multipart = None THEN e ELSE [e EXCEPT !.multipart.body = <<>>]
<1> DEFINE always == DOMAIN e \ Optional
<1> DEFINE w == ToJson(e)
<1> DEFINE r == [k \in DOMAIN w |-> ParseEnvelope(k, w[k])]
<1> DEFINE sent == IF e.multipart = None THEN e ELSE [e EXCEPT !.multipart.body = <<>>]
<1>1. /\ DOMAIN w = Keys(e, always, NewEnvelope(None))
      /\ \A k \in DOMAIN w : w[k] = FormatEnvelope(k, e[k])
  BY DEF ToJson
<1>2. DOMAIN e = DOMAIN NewEnvelope(None)
  BY DEF EnvelopeOK, HasMembersOf
<1>3. /\ HasMembersOf(sent, NewEnvelope(None))
      /\ \A k \in DOMAIN e : sent[k] = IF k = "multipart" /\ e[k] # None
                                       THEN [e[k] EXCEPT !.body = <<>>] ELSE e[k]
  <2>1. HasMembersOf(e, NewEnvelope(None))
    BY DEF EnvelopeOK
  <2> QED
    BY <1>2, <2>1 DEF HasMembersOf
<1>4. ASSUME NEW k \in DOMAIN w PROVE r[k] = sent[k]
  <2>1. k \in DOMAIN e /\ MemberOK(k, e[k])
    BY <1>1 DEF Keys, EnvelopeOK
  <2>2. CASE e[k] # None
    <3>1. r[k] = IF k = "multipart" THEN [e[k] EXCEPT !.body = <<>>] ELSE e[k]
      <4>1. r[k] = ParseEnvelope(k, FormatEnvelope(k, e[k]))
        BY <1>1
      <4>2. ParseEnvelope(k, FormatEnvelope(k, e[k]))
                = IF k = "multipart" THEN [e[k] EXCEPT !.body = <<>>] ELSE e[k]
        BY <2>1, <2>2, MemberSurvives
      <4> QED
        BY <4>1, <4>2
    <3> HIDE DEF sent
    <3> QED
      BY <1>3, <2>1, <2>2, <3>1
  <2>3. CASE e[k] = None
    <3>1. k \in always
      <4>1. k \in Optional => NewEnvelope(None)[k] = None
        BY DEF Optional, NewEnvelope
      <4> QED
        BY <1>1, <2>1, <2>3, <4>1 DEF Keys
    <3>2. k \notin Optional
      BY <3>1
    <3>3. r[k] = e[k]
      <4>1. CASE k = "did"
        BY <1>1, <2>1, <4>1, DidSurvives DEF MemberOK, ParseEnvelope, FormatEnvelope
      <4>2. CASE k = "service_level"
        BY <1>1, <2>1, <4>2, NamesSurvive DEF MemberOK, ParseEnvelope, FormatEnvelope
      <4>3. CASE k \notin {"did", "service_level"}
        BY <1>1, <3>2, <4>3 DEF ParseEnvelope, FormatEnvelope, Optional
      <4> QED
        BY <4>1, <4>2, <4>3
    <3>4. sent[k] = e[k]
      <4> HIDE DEF sent
      <4> QED
        BY <1>3, <2>1, <2>3
    <3> QED
      BY <3>3, <3>4
  <2> QED
    BY <2>2, <2>3
<1>5. \A k \in DOMAIN NewEnvelope(None) \ DOMAIN w : sent[k] = NewEnvelope(None)[k]
  <2> HIDE DEF sent, w
  <2> TAKE k \in DOMAIN NewEnvelope(None) \ DOMAIN w
  <2>1. k \in DOMAIN e /\ e[k] = NewEnvelope(None)[k] /\ k \in Optional
    BY <1>1, <1>2 DEF Keys
  <2>2. e[k] = None
    BY <2>1 DEF Optional, NewEnvelope
  <2> QED
    BY <1>3, <2>1, <2>2
<1>6. DOMAIN r \subseteq DOMAIN NewEnvelope(None)
  BY <1>1, <1>2 DEF Keys
<1>7. With(NewEnvelope(None), r) = sent
  <2>1. DOMAIN r = DOMAIN w /\ \A k \in DOMAIN r : r[k] = sent[k]
    BY <1>4
  <2> HIDE DEF r, sent, w
  <2> QED
    BY <1>3, <1>5, <1>6, <2>1, ReadBack
<1> QED
  BY <1>7 DEF FromJson

-----------------------------------------------------------------------------
\* What is there from the start is in order.
LEMMA NewOnesAreOK ==
    /\ KeyOK(NoKey) /\ DidOK(NewDid)
    /\ \A did : DidOK(did) => PeerOK([NewPeer EXCEPT !.did = did])
    /\ PeerOK(NewPeer) /\ ExternalOK(NewExternal) /\ RelayedOK(NewRelayed)
    /\ \A m \in {NewDocument, NewCommand, NewText, NewEvent(Id, X)} : MessageOK(m)
<1>1. KeyOK(NoKey)
  BY DEF KeyOK, NoKey, HasMembersOf
<1>2. DidOK(NewDid)
  BY <1>1 DEF DidOK, NewDid, HasMembersOf, DidStatus, DidType
<1>3. ASSUME NEW did, DidOK(did) PROVE PeerOK([NewPeer EXCEPT !.did = did])
  BY <1>3 DEF PeerOK, NewPeer, HasMembersOf, Network
<1>4. PeerOK(NewPeer)
  BY <1>2 DEF PeerOK, NewPeer, HasMembersOf, Network
<1>5. ExternalOK(NewExternal)
  BY DEF ExternalOK, NewExternal, NewMeta, HasMembersOf
<1>6. RelayedOK(NewRelayed)
  BY <1>5 DEF RelayedOK, NewRelayed, HasMembersOf
<1>7. MessageOK(NewDocument)
  <2>1. <<>> \in Buckets
    <3>1. <<>> \in [{} -> [is : {"scalar", "array", "null"}, of : Seq({X, Y})]]
      OBVIOUS
    <3> QED
      BY <3>1 DEF Buckets
  <2>2. NewDocument \in Documents
    BY <2>1 DEF NewDocument, Documents
  <2> QED
    BY <2>2 DEF MessageOK, NewDocument, HasMembersOf, MessageKinds, Unset
<1>8. MessageOK(NewCommand) /\ MessageOK(NewText) /\ MessageOK(NewEvent(Id, X))
  BY DEF MessageOK, NewCommand, NewText, NewEvent, HasMembersOf, MessageKinds, Unset
<1> QED
  BY <1>1, <1>2, <1>3, <1>4, <1>5, <1>6, <1>7, <1>8

-----------------------------------------------------------------------------
(* The invariant: the envelope is in order, and the three promises hold.     *)
WireInv ==
    /\ EnvelopeOK(env) /\ cleared \subseteq DOMAIN Cleared
    /\ revoked \subseteq {"email", "phone"} \X {X, Y}
    /\ ExceptionsKept /\ ClearedStaysCleared /\ RevokedStaysRevoked

LEMMA WireInit == Init => WireInv
<1> SUFFICES ASSUME NEW m, m = None \/ MessageOK(m), Start(m),
                    m # None /\ m.kind = "document" => m = NewDocument
             PROVE  WireInv
  <2>1. \A m \in {NewCommand, NewText, NewEvent(Id, X)} : m.kind # "document"
    BY DEF NewCommand, NewText, NewEvent
  <2> QED
    BY <2>1, NewOnesAreOK DEF Init
<1>1. env = NewEnvelope(m) /\ thrown = <<>> /\ cleared = {} /\ revoked = {}
  BY DEF Start
<1>2. HasMembersOf(env, NewEnvelope(None))
  BY <1>1 DEF NewEnvelope, HasMembersOf
<1>3. /\ env.did = NewDid /\ env.message = m /\ env.route = None /\ env.multipart = None
      /\ env.action = None /\ env.service_level = "AtLeastOnce"
  BY <1>1 DEF NewEnvelope
<1>4. EnvelopeOK(env)
  BY <1>2, <1>3, NewOnesAreOK DEF EnvelopeOK, MemberOK, ServiceLevel
<1>5. ExceptionsKept
  <2>1. Exceptions(NewDocument) = <<>>
    BY DEF Exceptions, Get, Primary, NewDocument, Null
  <2> QED
    BY <1>1, <1>3, <2>1 DEF ExceptionsKept, Carries
<1> QED
  BY <1>1, <1>4, <1>5 DEF WireInv, ClearedStaysCleared, RevokedStaysRevoked

\* Three kinds of steps: one changes neither the Did nor the message, one the
\* message only, one the Did only.
LEMMA NeitherChanges ==
    ASSUME WireInv, EnvelopeOK(env'), env'.did = env.did, env'.message = env.message,
           UNCHANGED <<thrown, cleared, revoked>>
    PROVE  WireInv'
BY DEF WireInv, ExceptionsKept, Carries, ClearedStaysCleared, RevokedStaysRevoked

LEMMA MessageChanges ==
    ASSUME WireInv, NEW m, MessageOK(m), env' = [env EXCEPT !.message = m],
           UNCHANGED <<cleared, revoked>>,
           thrown' = IF m # None /\ m.kind = "document" THEN Exceptions(m) ELSE <<>>
    PROVE  WireInv'
<1>1. "message" \in DOMAIN env /\ "did" \in DOMAIN env
  BY EnvelopeMembers DEF WireInv, EnvelopeOK, HasMembersOf
<1>2. EnvelopeOK(env') /\ env'.message = m /\ env'.did = env.did
  BY <1>1, OneMemberChanges DEF WireInv, MemberOK
<1>3. ExceptionsKept'
  BY <1>2 DEF ExceptionsKept, Carries
<1> QED
  BY <1>2, <1>3 DEF WireInv, ClearedStaysCleared, RevokedStaysRevoked

LEMMA DidChanges ==
    ASSUME WireInv, NEW did, DidOK(did), env' = [env EXCEPT !.did = did],
           UNCHANGED thrown, cleared' \subseteq DOMAIN Cleared,
           \A m \in cleared' : did[m] = Cleared[m], revoked' \subseteq {"email", "phone"} \X {X, Y},
           \A r \in revoked' : \A i \in DOMAIN Signatures(did.public_key, r[1]) :
               Signatures(did.public_key, r[1])[i].signed_by_address # r[2]
    PROVE  WireInv'
<1>1. "message" \in DOMAIN env /\ "did" \in DOMAIN env
  BY EnvelopeMembers DEF WireInv, EnvelopeOK, HasMembersOf
<1>2. EnvelopeOK(env') /\ env'.message = env.message /\ env'.did = did
  BY <1>1, OneMemberChanges DEF WireInv, MemberOK
<1>3. ExceptionsKept'
  BY <1>2 DEF WireInv, ExceptionsKept, Carries
<1> QED
  BY <1>2, <1>3 DEF WireInv, ClearedStaysCleared, RevokedStaysRevoked

\* Steps that change neither.
LEMMA OtherMemberChanges ==
    ASSUME WireInv, NEW k \in DOMAIN env, k \notin {"did", "message"}, NEW v, MemberOK(k, v),
           env' = [env EXCEPT ![k] = v], UNCHANGED <<thrown, cleared, revoked>>
    PROVE  WireInv'
<1>1. "message" \in DOMAIN env /\ "did" \in DOMAIN env /\ EnvelopeOK(env)
  BY EnvelopeMembers DEF WireInv, EnvelopeOK, HasMembersOf
<1>2. EnvelopeOK(env') /\ env'.did = env.did /\ env'.message = env.message
  BY <1>1, OneMemberChanges
<1> QED
  BY <1>2, NeitherChanges

LEMMA OtherSteps ==
    ASSUME WireInv, SetMember \/ SetHeader \/ RemoveHeader \/ Mark \/ SetMultipart \/ AddPart
    PROVE  WireInv'
<1>1. EnvelopeOK(env) /\ HasMembersOf(env, NewEnvelope(None)) /\ DOMAIN env = DOMAIN NewEnvelope(None)
  BY DEF WireInv, EnvelopeOK, HasMembersOf
<1>2. {"action", "service_level", "headers", "markers", "multipart", "did", "message"} \subseteq DOMAIN env
  BY <1>1, EnvelopeMembers
<1>3. ASSUME SetMember PROVE WireInv'
  <2>1. UNCHANGED <<thrown, cleared, revoked>>
    BY <1>3 DEF SetMember
  <2>2. CASE Does(With(env, EnvelopeFilled))
    <3>1. env' = With(env, EnvelopeFilled)
      BY <2>2 DEF Does
    <3>2. HasMembersOf(env', NewEnvelope(None)) /\ DOMAIN env' = DOMAIN env
      BY <1>1, <3>1, SameMembers DEF With
    <3>3. \A k \in {"did", "message", "route", "multipart", "action", "service_level"} \cap DOMAIN env :
              env'[k] = env[k]
      BY <3>1 DEF With, EnvelopeFilled
    <3>4. \A k \in DOMAIN env : MemberOK(k, env[k]) => MemberOK(k, env'[k])
      BY <3>3 DEF MemberOK
    <3>5. EnvelopeOK(env')
      BY <1>1, <3>2, <3>4 DEF EnvelopeOK
    <3> QED
      BY <1>2, <2>1, <3>3, <3>5, NeitherChanges
  <2>3. ASSUME NEW a \in EnvelopeAction.written, Does([env EXCEPT !.action = a]) PROVE WireInv'
    BY <1>2, <2>1, <2>3, OtherMemberChanges DEF Does, MemberOK
  <2>4. ASSUME NEW l \in ServiceLevel.written, Does([env EXCEPT !.service_level = l]) PROVE WireInv'
    BY <1>2, <2>1, <2>4, OtherMemberChanges DEF Does, MemberOK
  <2> QED
    BY <1>3, <2>2, <2>3, <2>4 DEF SetMember
<1>4. ASSUME NEW h, NEW k \in {"headers", "markers"}, env' = [env EXCEPT ![k] = h],
             UNCHANGED <<thrown, cleared, revoked>>
      PROVE  WireInv'
  BY <1>2, <1>4, OtherMemberChanges DEF MemberOK
<1>5. ASSUME SetHeader PROVE WireInv'
  <2>1. PICK n : Does([env EXCEPT !.headers = Bound(@, n, Scalar(X))])
    BY <1>5 DEF SetHeader
  <2>2. env' = [env EXCEPT !.headers = Bound(env.headers, n, Scalar(X))]
    BY <2>1 DEF Does
  <2> QED
    BY <1>4, <1>5, <2>2 DEF SetHeader
<1>6. ASSUME RemoveHeader PROVE WireInv'
  <2>1. PICK n : Does([env EXCEPT !.headers = [m \in DOMAIN @ \ {n} |-> @[m]]])
    BY <1>6 DEF RemoveHeader
  <2>2. env' = [env EXCEPT !.headers = [m \in DOMAIN env.headers \ {n} |-> env.headers[m]]]
    BY <2>1 DEF Does
  <2> QED
    BY <1>4, <1>6, <2>2 DEF RemoveHeader
<1>7. ASSUME Mark PROVE WireInv'
  <2>1. PICK m : Does([env EXCEPT !.markers = Append(@, m)])
    BY <1>7 DEF Mark
  <2>2. env' = [env EXCEPT !.markers = Append(env.markers, m)]
    BY <2>1 DEF Does
  <2> QED
    BY <1>4, <1>7, <2>2 DEF Mark
<1>8. ASSUME SetMultipart PROVE WireInv'
  <2>1. MultipartOK(NewMultipart(Id))
    BY DEF MultipartOK, NewMultipart, HasMembersOf
  <2>2. MemberOK("multipart", NewMultipart(Id))
    BY <2>1 DEF MemberOK
  <2> QED
    BY <1>2, <1>8, <2>2, OtherMemberChanges DEF SetMultipart, Does
<1>9. ASSUME AddPart PROVE WireInv'
  <2> DEFINE v == [env.multipart EXCEPT !.body = Append(@, X)]
  <2>1. env' = [env EXCEPT !.multipart = v]
    BY <1>9 DEF AddPart, Does
  <2>2. MultipartOK(env.multipart)
    BY <1>1, <1>2, <1>9 DEF AddPart, EnvelopeOK, MemberOK
  <2>3. MemberOK("multipart", v)
    BY <2>2, SameMembers DEF MemberOK, MultipartOK
  <2> QED
    BY <1>2, <1>9, <2>1, <2>3, OtherMemberChanges DEF AddPart
<1> QED
  BY <1>3, <1>5, <1>6, <1>7, <1>8, <1>9

LEMMA SetRouteStep ==
    ASSUME WireInv, SetRoute
    PROVE  WireInv'
<1>1. "route" \in DOMAIN env /\ "did" \in DOMAIN env /\ UNCHANGED <<thrown, cleared, revoked>>
  BY EnvelopeMembers DEF WireInv, EnvelopeOK, HasMembersOf, SetRoute
<1>2. DidOK(env.did)
  BY <1>1 DEF WireInv, EnvelopeOK, MemberOK
<1>3. ASSUME NEW r, RouteOK(r), env' = [env EXCEPT !.route = r] PROVE WireInv'
  BY <1>1, <1>3, OtherMemberChanges DEF MemberOK
<1>4. ASSUME NEW m \in {[NewMeta EXCEPT !.service = X],
                        [NewMeta EXCEPT !.operation = X, !.routed = TRUE]}
      PROVE  RouteOK([NewSimple EXCEPT !.meta = m])
  BY DEF RouteOK, NewSimple, NewMeta, HasMembersOf
<1>5. RouteOK([NewExternal EXCEPT !.origination = NewPeer,
                  !.destination = [NewPeer EXCEPT !.did = env.did], !.send_content_only = TRUE])
  <2> DEFINE here == [NewPeer EXCEPT !.did = env.did]
  <2> HIDE DEF here
  <2>1. PeerOK(here) /\ PeerOK(NewPeer)
    BY <1>2, NewOnesAreOK DEF here
  <2>2. RouteOK([NewExternal EXCEPT !.origination = NewPeer, !.destination = here,
                    !.send_content_only = TRUE])
    BY <2>1 DEF RouteOK, ExternalOK, NewExternal, NewMeta, HasMembersOf
  <2> QED
    BY <2>2 DEF here
<1>6. ASSUME NEW n \in Network.written
      PROVE  LET peer == [NewPeer EXCEPT !.id = X, !.port = 1, !.network = n, !.services = <<X>>]
             IN  RouteOK([NewRelayed EXCEPT !.base.destination = peer, !.to_peer = peer,
                            !.delayed = TRUE])
  <2> DEFINE peer == [NewPeer EXCEPT !.id = X, !.port = 1, !.network = n, !.services = <<X>>]
  <2>1. PeerOK(peer)
    BY NewOnesAreOK DEF PeerOK, NewPeer, HasMembersOf
  <2> HIDE DEF peer
  <2>2. ExternalOK([NewExternal EXCEPT !.destination = peer])
    BY <2>1, NewOnesAreOK DEF ExternalOK, NewExternal, HasMembersOf
  <2>3. RouteOK([NewRelayed EXCEPT !.base.destination = peer, !.to_peer = peer, !.delayed = TRUE])
    <3> DEFINE base == [NewExternal EXCEPT !.destination = peer]
    <3> DEFINE r == [NewRelayed EXCEPT !.base = base, !.to_peer = peer, !.delayed = TRUE]
    <3>1. r = [NewRelayed EXCEPT !.base.destination = peer, !.to_peer = peer, !.delayed = TRUE]
      BY DEF NewRelayed
    <3>2. HasMembersOf(r, NewRelayed) /\ r.from_peer = None /\ r.to_peer = peer
          /\ r.type = "relayed_external" /\ r.base = base
      BY DEF NewRelayed, HasMembersOf
    <3> HIDE DEF r, base
    <3>3. RelayedOK(r)
      BY <2>1, <2>2, <3>2 DEF RelayedOK, base
    <3> QED
      BY <3>1, <3>2, <3>3 DEF RouteOK
  <2> QED
    BY <2>3 DEF peer
<1> QED
  BY <1>3, <1>4, <1>5, <1>6 DEF SetRoute, Does

LEMMA HopStep ==
    ASSUME WireInv, Hop
    PROVE  WireInv'
<1>1. env' = IF env.multipart = None THEN env ELSE [env EXCEPT !.multipart.body = <<>>]
  BY EnvelopeSurvives DEF WireInv, Hop
<1>2. CASE env.multipart = None
  BY <1>1, <1>2, NeitherChanges DEF WireInv, Hop
<1>3. CASE env.multipart # None
  <2> DEFINE v == [env.multipart EXCEPT !.body = <<>>]
  <2>1. env' = [env EXCEPT !.multipart = v] /\ "multipart" \in DOMAIN env
    BY <1>1, <1>3, EnvelopeMembers DEF WireInv, EnvelopeOK, HasMembersOf
  <2>2. MultipartOK(env.multipart)
    BY <1>3, <2>1 DEF WireInv, EnvelopeOK, MemberOK
  <2>3. MemberOK("multipart", v)
    BY <2>2, SameMembers DEF MemberOK, MultipartOK
  <2> QED
    BY <2>1, <2>3, OtherMemberChanges DEF Hop
<1> QED
  BY <1>2, <1>3

-----------------------------------------------------------------------------
\* Steps on the message. What Put() puts is what Get() finds.
Scalars == {"scalar", "array", "null"}
Values == [is : Scalars, of : Seq({X, Y})]

LEMMA DocumentPut ==
    ASSUME NEW m \in Documents, NEW n \in BucketNames, NEW v \in Values
    PROVE  Put(m, n, v) \in Documents /\ Get(Put(m, n, v), n) = v
           /\ \A j : j # n => Get(Put(m, n, v), j) = Get(m, j)
<1> DEFINE bucket == Bound(Primary(m), n, v)
<1>1. m.data \in Seq(Buckets) /\ m = [kind |-> "document", data |-> m.data, error_messages |-> m.error_messages]
      /\ m.error_messages \in Seq({X, Y})
  BY DEF Documents
<1>2. Primary(m) \in Buckets
  <2>1. <<>> \in Buckets
    <3>1. <<>> \in [{} -> [is : {"scalar", "array", "null"}, of : Seq({X, Y})]]
      OBVIOUS
    <3> QED
      BY <3>1 DEF Buckets
  <2>2. m.data # <<>> => m.data[1] \in Buckets
    BY <1>1
  <2> QED
    BY <2>1, <2>2 DEF Primary
<1>3. bucket \in Buckets
  <2>1. PICK names \in SUBSET BucketNames : Primary(m) \in [names -> Values]
    BY <1>2 DEF Buckets, Values, Scalars
  <2>2. bucket \in [names \cup {n} -> Values]
    BY <2>1 DEF Bound
  <2> QED
    BY <2>2 DEF Buckets, Values, Scalars
<1> DEFINE data == IF m.data = <<>> THEN <<bucket>> ELSE [m.data EXCEPT ![1] = bucket]
<1>4. data \in Seq(Buckets) /\ data # <<>> /\ data[1] = bucket
  <2> HIDE DEF bucket
  <2>1. CASE m.data = <<>>
    BY <1>3, <2>1
  <2>2. CASE m.data # <<>>
    BY <1>1, <1>3, <2>2
  <2> QED
    BY <2>1, <2>2
<1>5. Put(m, n, v) = [kind |-> "document", data |-> data, error_messages |-> m.error_messages]
  <2> HIDE DEF bucket
  <2>1. Put(m, n, v) = [m EXCEPT !.data = data]
    BY DEF Put, WithPrimary, bucket
  <2> HIDE DEF data
  <2> QED
    BY <1>1, <2>1
<1>6. Put(m, n, v) \in Documents /\ Primary(Put(m, n, v)) = bucket
  <2> HIDE DEF bucket, data
  <2> QED
    BY <1>1, <1>4, <1>5 DEF Documents, Primary
<1>7. n \in DOMAIN bucket /\ bucket[n] = v
      /\ \A j : j # n => (j \in DOMAIN bucket <=> j \in DOMAIN Primary(m))
                         /\ (j \in DOMAIN bucket => bucket[j] = Primary(m)[j])
  BY DEF Bound
<1> QED
  <2> HIDE DEF bucket
  <2> QED
    BY <1>6, <1>7 DEF Get

LEMMA DocumentSteps ==
    ASSUME WireInv, AddNvp \/ AddExceptionTo \/ ClearData
    PROVE  WireInv'
<1> DEFINE m == env.message
<1>1. m \in Documents /\ UNCHANGED <<cleared, revoked>> /\ thrown = Exceptions(m)
  <2>1. Carries("document") /\ UNCHANGED <<cleared, revoked>>
    BY DEF AddNvp, AddExceptionTo, ClearData
  <2>2. "message" \in DOMAIN env
    BY EnvelopeMembers DEF WireInv, EnvelopeOK, HasMembersOf
  <2>3. MessageOK(m)
    BY <2>1, <2>2 DEF WireInv, EnvelopeOK, MemberOK, Carries
  <2> QED
    BY <2>1, <2>3 DEF WireInv, ExceptionsKept, Carries, MessageOK
<1>2. ASSUME NEW d \in Documents, env' = [env EXCEPT !.message = d], thrown' = Exceptions(d)
      PROVE  WireInv'
  <2>1. d.kind = "document" /\ d # None /\ MessageOK(d)
    BY DocumentAssumption DEF Documents, MessageOK, MessageKinds, HasMembersOf, Unset, NewDocument
  <2> QED
    BY <1>1, <1>2, <2>1, MessageChanges
<1>3. X \in {X, Y} /\ Y \in {X, Y} /\ \A q \in Seq({X, Y}) : Array(q) \in Values
  BY DEF Array, Values, Scalars
<1>4. ASSUME AddNvp PROVE WireInv'
  <2>1. PICK n \in BucketNames, v \in {Scalar(X), Array(<<Y>>), Null} :
            /\ Does([env EXCEPT !.message = Put(@, n, v)])
            /\ thrown' = IF n # "EXCEPTIONS" THEN thrown ELSE IF v.is = "array" THEN v.of ELSE <<>>
    BY <1>4 DEF AddNvp
  <2>2. v \in Values
    <3>1. <<X>> \in Seq({X, Y}) /\ <<Y>> \in Seq({X, Y}) /\ <<>> \in Seq({X, Y})
      OBVIOUS
    <3>2. Scalar(X) \in Values /\ Array(<<Y>>) \in Values /\ Null \in Values
      BY <3>1 DEF Scalar, Array, Null, Values, Scalars
    <3> QED
      BY <3>2
  <2>3. env' = [env EXCEPT !.message = Put(m, n, v)]
    BY <2>1 DEF Does
  <2>4. /\ Put(m, n, v) \in Documents /\ Get(Put(m, n, v), n) = v
        /\ n # "EXCEPTIONS" => Get(Put(m, n, v), "EXCEPTIONS") = Get(m, "EXCEPTIONS")
    <3> HIDE DEF m
    <3> QED
      BY <1>1, <2>2, DocumentPut
  <2>5. thrown' = Exceptions(Put(m, n, v))
    <3> HIDE DEF m
    <3> QED
      BY <1>1, <2>1, <2>4 DEF Exceptions
  <2> QED
    BY <1>2, <2>3, <2>4, <2>5
<1>5. ASSUME AddExceptionTo PROVE WireInv'
  <2>1. PICK x \in {X, Y} : Does([env EXCEPT !.message = AddException(@, x)]) /\ thrown' = Append(thrown, x)
    BY <1>5 DEF AddExceptionTo
  <2> DEFINE list == IF Get(m, "EXCEPTIONS").is = "array"
                     THEN Array(Append(Get(m, "EXCEPTIONS").of, x)) ELSE Array(<<x>>)
  <2>2. Exceptions(m) \in Seq({X, Y})
    <3>1. PICK names : Primary(m) \in [names -> Values]
      <4>1. m.data \in Seq(Buckets)
        BY <1>1 DEF Documents
      <4>2. m.data # <<>> => m.data[1] \in Buckets
        BY <4>1
      <4>3. m.data = <<>> => Primary(m) \in [{} -> Values]
        BY DEF Primary
      <4>4. \A b \in Buckets : \E names : b \in [names -> Values]
        BY DEF Buckets, Values, Scalars
      <4> QED
        BY <4>2, <4>3, <4>4 DEF Primary
    <3>2. Get(m, "EXCEPTIONS") \in Values
      BY <3>1 DEF Get, Null, Values, Scalars
    <3> QED
      BY <3>2 DEF Exceptions, Values
  <2>3. list = Array(Append(Exceptions(m), x))
    <3>1. Append(<<>>, x) = <<x>>
      OBVIOUS
    <3> HIDE DEF m
    <3> QED
      BY <3>1 DEF Exceptions
  <2>4. list \in Values
    <3> HIDE DEF list, m
    <3>1. Append(Exceptions(m), x) \in Seq({X, Y})
      BY <2>2
    <3> QED
      BY <1>3, <2>3, <3>1
  <2>5. env' = [env EXCEPT !.message = Put(m, "EXCEPTIONS", list)]
    BY <2>1 DEF Does, AddException
  <2>6. Put(m, "EXCEPTIONS", list) \in Documents /\ Get(Put(m, "EXCEPTIONS", list), "EXCEPTIONS") = list
    <3> HIDE DEF m, list
    <3> QED
      BY <1>1, <2>4, DocumentPut DEF BucketNames
  <2>7. thrown' = Exceptions(Put(m, "EXCEPTIONS", list))
    <3>1. list.is = "array" /\ list.of = Append(Exceptions(m), x)
      <4> HIDE DEF list, m
      <4> QED
        BY <2>3 DEF Array
    <3>2. Exceptions(Put(m, "EXCEPTIONS", list)) = Append(Exceptions(m), x)
      <4> HIDE DEF list, m
      <4> QED
        BY <2>6, <3>1 DEF Exceptions
    <3> HIDE DEF m, list
    <3> QED
      BY <1>1, <2>1, <3>2
  <2> HIDE DEF list
  <2> QED
    BY <1>2, <2>5, <2>6, <2>7
<1>6. ASSUME ClearData PROVE WireInv'
  <2> DEFINE d == [m EXCEPT !.data = <<>>]
  <2>1. env' = [env EXCEPT !.message = d] /\ thrown' = <<>>
    BY <1>6 DEF ClearData, Does
  <2>2. d \in Documents /\ d.data = <<>>
    <3> HIDE DEF m
    <3>1. <<>> \in Seq(Buckets)
      OBVIOUS
    <3> QED
      BY <1>1, <3>1 DEF Documents
  <2>3. Exceptions(d) = <<>>
    BY <2>2 DEF Exceptions, Get, Primary, Null
  <2> HIDE DEF d
  <2> QED
    BY <1>2, <2>1, <2>2, <2>3
<1> QED
  BY <1>4, <1>5, <1>6

LEMMA OtherMessageSteps ==
    ASSUME WireInv, AddErrorMessage \/ SetCommand \/ SetText \/ SetEvent
    PROVE  WireInv'
<1> DEFINE m == env.message
<1>1. MessageOK(m) /\ DidOK(env.did) /\ m # None /\ UNCHANGED <<thrown, cleared, revoked>>
  <2>1. m # None /\ UNCHANGED <<thrown, cleared, revoked>>
    BY DEF AddErrorMessage, SetCommand, SetText, SetEvent, Carries
  <2>2. "message" \in DOMAIN env /\ "did" \in DOMAIN env
    BY EnvelopeMembers DEF WireInv, EnvelopeOK, HasMembersOf
  <2> QED
    BY <2>1, <2>2 DEF WireInv, EnvelopeOK, MemberOK
<1>2. /\ "kind" \in DOMAIN m /\ m.kind \in MessageKinds
      /\ HasMembersOf(m, Unset(m.kind)) /\ DOMAIN m = DOMAIN Unset(m.kind)
  BY <1>1 DEF MessageOK, HasMembersOf, MessageKinds, Unset, NewDocument, NewCommand, NewText, NewEvent
<1>3. ASSUME NEW f \in DOMAIN m, f # "kind", NEW v, MessageOK([m EXCEPT ![f] = v]),
             env' = [env EXCEPT !.message = [m EXCEPT ![f] = v]],
             m.kind = "document" => f = "error_messages"
      PROVE  WireInv'
  <2> DEFINE d == [m EXCEPT ![f] = v]
  <2>1. d.kind = m.kind /\ (m.kind = "document" => d.data = m.data)
    BY <1>2, <1>3
  <2>2. m.kind = "document" => d # None /\ Exceptions(d) = Exceptions(m)
    BY <1>3, <2>1, DocumentAssumption DEF MessageOK, Exceptions, Get, Primary
  <2>3. thrown' = IF d # None /\ d.kind = "document" THEN Exceptions(d) ELSE <<>>
    <3> HIDE DEF d
    <3> QED
      BY <1>1, <2>1, <2>2 DEF WireInv, ExceptionsKept, Carries
  <2> HIDE DEF d
  <2> QED
    BY <1>1, <1>3, <2>3, MessageChanges DEF d
<1>4. ASSUME NEW f \in DOMAIN m, NEW v PROVE HasMembersOf([m EXCEPT ![f] = v], Unset(m.kind))
  BY <1>2, SameMembers
<1>5. ASSUME AddErrorMessage PROVE WireInv'
  <2>1. PICK x \in {X, Y} : Does([env EXCEPT !.message.error_messages = Append(@, x)])
    BY <1>5 DEF AddErrorMessage
  <2> DEFINE v == Append(m.error_messages, x)
  <2>2. env' = [env EXCEPT !.message = [m EXCEPT !.error_messages = v]]
    BY <2>1 DEF Does
  <2>3. "error_messages" \in DOMAIN m
    BY <1>2 DEF MessageKinds, Unset, NewDocument, NewCommand, NewText, NewEvent
  <2> DEFINE d == [m EXCEPT !.error_messages = v]
  <2>4. \A k \in DOMAIN m \ {"error_messages"} : d[k] = m[k]
    OBVIOUS
  <2>5. m.kind = "document" => d \in Documents
    <3>1. m.kind = "document" => m \in Documents
      BY <1>1 DEF MessageOK
    <3>2. m \in Documents => v \in Seq({X, Y})
      BY DEF Documents
    <3> HIDE DEF v, m
    <3> QED
      BY <3>1, <3>2 DEF Documents
  <2>6. MessageOK(d)
    <3>1. d.kind = m.kind
      BY <1>2, <2>4
    <3>2. m.kind = "command" => d.command = m.command
      BY <1>2, <2>4 DEF Unset, NewCommand
    <3>3. m.kind = "text" => d.to = m.to /\ d.from = m.from
      BY <1>2, <2>4 DEF Unset, NewText
    <3>4. HasMembersOf(d, Unset(m.kind))
      BY <1>4, <2>3
    <3> HIDE DEF d
    <3> QED
      BY <1>1, <2>5, <3>1, <3>2, <3>3, <3>4 DEF MessageOK
  <2> QED
    BY <1>3, <2>2, <2>3, <2>6
<1>6. ASSUME SetCommand PROVE WireInv'
  <2>1. PICK c \in Command.written : Does([env EXCEPT !.message.command = c])
    BY <1>6 DEF SetCommand
  <2>2. env' = [env EXCEPT !.message = [m EXCEPT !.command = c]] /\ m.kind = "command"
    BY <1>6, <2>1 DEF Does, SetCommand, Carries
  <2>3. "command" \in DOMAIN m
    BY <1>2, <2>2 DEF Unset, NewCommand
  <2>4. MessageOK([m EXCEPT !.command = c])
    <3> DEFINE d == [m EXCEPT !.command = c]
    <3>1. d.kind = "command" /\ d.command = c /\ HasMembersOf(d, Unset(m.kind))
      BY <1>2, <1>4, <2>2, <2>3
    <3> HIDE DEF d
    <3>2. MessageOK(d)
      BY <2>2, <3>1 DEF MessageOK, MessageKinds
    <3> QED
      BY <3>2 DEF d
  <2> QED
    BY <1>3, <2>2, <2>3, <2>4
<1>7. ASSUME SetText PROVE WireInv'
  <2>1. m.kind = "text"
    BY <1>7 DEF SetText, Carries
  <2>2. {"to", "from", "text"} \subseteq DOMAIN m
    BY <1>2, <2>1 DEF Unset, NewText
  <2>3. ASSUME NEW f \in {"to", "from", "text"}, NEW v, f # "text" => DidOK(v),
               env' = [env EXCEPT !.message = [m EXCEPT ![f] = v]]
        PROVE  WireInv'
    <3> DEFINE d == [m EXCEPT ![f] = v]
    <3>1. /\ d.kind = "text" /\ HasMembersOf(d, Unset(m.kind))
          /\ \A g \in {"to", "from"} : d[g] = IF g = f THEN v ELSE m[g]
      BY <1>2, <1>4, <2>1, <2>2
    <3>2. MessageOK(d)
      <4> HIDE DEF d
      <4> QED
        BY <1>1, <2>1, <2>3, <3>1 DEF MessageOK, MessageKinds
    <3> QED
      BY <1>3, <2>1, <2>2, <2>3, <3>2
  <2>4. CASE \E f \in {"to", "from"} : Does([env EXCEPT !.message[f] = env.did])
    <3>1. PICK f \in {"to", "from"} : env' = [env EXCEPT !.message = [m EXCEPT ![f] = env.did]]
      BY <2>4 DEF Does
    <3> QED
      BY <1>1, <2>3, <3>1
  <2>5. CASE Does([env EXCEPT !.message.text = X])
    <3>1. env' = [env EXCEPT !.message = [m EXCEPT !["text"] = X]]
      BY <2>5 DEF Does
    <3> QED
      BY <2>3, <3>1
  <2> QED
    BY <1>7, <2>4, <2>5 DEF SetText
<1>8. ASSUME SetEvent PROVE WireInv'
  <2>1. m.kind = "event"
    BY <1>8 DEF SetEvent, Carries
  <2>2. PICK f \in {"name", "message"} : env' = [env EXCEPT !.message = [m EXCEPT ![f] = Y]]
    BY <1>8 DEF SetEvent, Does
  <2>3. f \in DOMAIN m
    BY <1>2, <2>1 DEF Unset, NewEvent
  <2> DEFINE d == [m EXCEPT ![f] = Y]
  <2>4. d.kind = "event" /\ HasMembersOf(d, Unset(m.kind))
    BY <1>2, <1>4, <2>1, <2>3
  <2>5. MessageOK(d)
    <3> HIDE DEF d
    <3> QED
      BY <2>1, <2>4 DEF MessageOK, MessageKinds
  <2> QED
    BY <1>3, <2>1, <2>2, <2>3, <2>5
<1> QED
  BY <1>5, <1>6, <1>7, <1>8

-----------------------------------------------------------------------------
\* Steps on the Did.
LEMMA DidIsOK ==
    ASSUME WireInv
    PROVE  /\ DidOK(env.did) /\ KeyOK(env.did.public_key) /\ DOMAIN env.did = DOMAIN NewDid
           /\ \A m \in cleared : m \in DOMAIN Cleared /\ env.did[m] = Cleared[m]
           /\ \A r \in revoked : \A i \in DOMAIN Signatures(env.did.public_key, r[1]) :
                 Signatures(env.did.public_key, r[1])[i].signed_by_address # r[2]
           /\ revoked \subseteq {"email", "phone"} \X {X, Y}
<1>1. "did" \in DOMAIN env
  BY EnvelopeMembers DEF WireInv, EnvelopeOK, HasMembersOf
<1>2. DidOK(env.did)
  BY <1>1 DEF WireInv, EnvelopeOK, MemberOK
<1> QED
  BY <1>2 DEF DidOK, HasMembersOf, WireInv, ClearedStaysCleared, RevokedStaysRevoked

LEMMA DidSteps ==
    ASSUME WireInv, SetDid \/ ClearDid
    PROVE  WireInv'
<1> DEFINE did == env.did
<1>1. /\ DidOK(did) /\ HasMembersOf(did, NewDid) /\ DOMAIN did = DOMAIN NewDid
      /\ UNCHANGED <<thrown, revoked>> /\ did.did_type \in DidType.written
      /\ did.status \in DidStatus.written /\ KeyOK(did.public_key)
  BY DidIsOK DEF DidOK, SetDid, ClearDid
<1>2. {"status", "did_type", "public_key"} \subseteq DOMAIN did
  BY <1>1 DEF NewDid
<1>3. ASSUME NEW d, DidOK(d), env' = [env EXCEPT !.did = d], d.public_key = did.public_key,
             cleared' \subseteq DOMAIN Cleared, \A m \in cleared' : d[m] = Cleared[m]
      PROVE  WireInv'
  <2>1. UNCHANGED <<thrown, revoked>>
    BY <1>1
  <2>2. \A r \in revoked' : \A i \in DOMAIN Signatures(d.public_key, r[1]) :
            Signatures(d.public_key, r[1])[i].signed_by_address # r[2]
    BY <1>3, <2>1, DidIsOK
  <2> HIDE DEF did
  <2> QED
    BY <1>3, <2>1, <2>2, DidChanges, DidIsOK
<1>4. CASE Does([env EXCEPT !.did = With(@, DidFilled)]) /\ cleared' = {}
  <2> DEFINE d == With(did, DidFilled)
  <2>1. env' = [env EXCEPT !.did = d]
    BY <1>4 DEF Does
  <2>2. d.public_key = did.public_key /\ d.did_type = did.did_type /\ d.status = "Active"
    BY <1>2 DEF With, DidFilled
  <2>3. DidOK(d)
    BY <1>1, <2>2, SameMembers DEF DidOK, DidStatus
  <2> HIDE DEF d
  <2> QED
    BY <1>3, <1>4, <2>1, <2>2, <2>3
<1>5. CASE \E s \in DidStatus.written :
              Does([env EXCEPT !.did.status = s]) /\ cleared' = cleared \ {"status"}
  <2>1. PICK s \in DidStatus.written :
            Does([env EXCEPT !.did.status = s]) /\ cleared' = cleared \ {"status"}
    BY <1>5
  <2> DEFINE d == [did EXCEPT !.status = s]
  <2>2. env' = [env EXCEPT !.did = d]
    BY <2>1 DEF Does
  <2>3. d.status = s /\ \A m \in DOMAIN did \ {"status"} : d[m] = did[m]
    BY <1>2
  <2>4. HasMembersOf(d, NewDid)
    BY <1>1, SameMembers
  <2> HIDE DEF d
  <2>5. DidOK(d) /\ d.public_key = did.public_key
    BY <1>1, <1>2, <2>3, <2>4 DEF DidOK
  <2>6. cleared' \subseteq DOMAIN Cleared /\ \A m \in cleared' : d[m] = Cleared[m]
    BY <1>1, <2>1, <2>3, DidIsOK DEF Cleared, NewDid
  <2> QED
    BY <1>3, <2>2, <2>5, <2>6
<1>6. CASE \E y \in DidType.written : Does([env EXCEPT !.did.did_type = y]) /\ UNCHANGED cleared
  <2>1. PICK y \in DidType.written : Does([env EXCEPT !.did.did_type = y]) /\ UNCHANGED cleared
    BY <1>6
  <2> DEFINE d == [did EXCEPT !.did_type = y]
  <2>2. env' = [env EXCEPT !.did = d]
    BY <2>1 DEF Does
  <2>3. d.did_type = y /\ \A m \in DOMAIN did \ {"did_type"} : d[m] = did[m]
    BY <1>2
  <2>4. HasMembersOf(d, NewDid)
    BY <1>1, SameMembers
  <2> HIDE DEF d
  <2>5. DidOK(d) /\ d.public_key = did.public_key
    BY <1>1, <1>2, <2>3, <2>4 DEF DidOK
  <2>6. cleared' \subseteq DOMAIN Cleared /\ \A m \in cleared' : d[m] = Cleared[m]
    BY <1>1, <2>1, <2>3, DidIsOK DEF Cleared, NewDid
  <2> QED
    BY <1>3, <2>2, <2>5, <2>6
<1>7. CASE ClearDid
  <2> DEFINE d == With(did, Cleared)
  <2>1. env' = [env EXCEPT !.did = d] /\ cleared' = DOMAIN Cleared
    BY <1>7 DEF ClearDid, ClearSensitive, Does
  <2>2. d.public_key = did.public_key /\ d.did_type = did.did_type /\ d.status = "Private"
    BY <1>2 DEF With, Cleared
  <2>3. DidOK(d)
    BY <1>1, <2>2, SameMembers DEF DidOK, DidStatus
  <2>4. \A m \in DOMAIN Cleared : m \in DOMAIN did /\ d[m] = Cleared[m]
    BY <1>1 DEF With, Cleared, NewDid
  <2> HIDE DEF d
  <2> QED
    BY <1>3, <2>1, <2>2, <2>3, <2>4
<1> QED
  BY <1>4, <1>5, <1>6, <1>7 DEF SetDid

LEMMA KeySteps ==
    ASSUME WireInv, SetKey \/ Sign \/ Unsign
    PROVE  WireInv'
<1> DEFINE did == env.did
<1> DEFINE key == did.public_key
<1>1. /\ DidOK(did) /\ HasMembersOf(did, NewDid) /\ DOMAIN did = DOMAIN NewDid
      /\ UNCHANGED <<thrown, cleared>> /\ KeyOK(key)
  BY DidIsOK DEF DidOK, SetKey, Sign, Unsign
<1>2. {"status", "did_type", "public_key"} \subseteq DOMAIN did
  BY <1>1 DEF NewDid
<1>3. DOMAIN key = DOMAIN NoKey /\ HasMembersOf(key, NoKey)
      /\ key.signed_attributes \in [DOMAIN key.signed_attributes -> Seq(SomeSignatures)]
      /\ HasMembersOf(key.attributes, key.attributes)
  BY <1>1 DEF KeyOK, HasMembersOf
<1>4. {"signed_attributes", "attributes"} \subseteq DOMAIN key
  BY <1>3 DEF NoKey
<1>5. ASSUME NEW k, KeyOK(k), env' = [env EXCEPT !.did = [did EXCEPT !.public_key = k]],
             revoked' \subseteq {"email", "phone"} \X {X, Y},
             \A r \in revoked' : \A i \in DOMAIN Signatures(k, r[1]) :
                 Signatures(k, r[1])[i].signed_by_address # r[2]
      PROVE  WireInv'
  <2> DEFINE d == [did EXCEPT !.public_key = k]
  <2>1. d.public_key = k /\ \A m \in DOMAIN did \ {"public_key"} : d[m] = did[m]
    BY <1>2
  <2>2. HasMembersOf(d, NewDid)
    BY <1>1, SameMembers
  <2>3. env' = [env EXCEPT !.did = d]
    BY <1>5
  <2> HIDE DEF d
  <2>4. DidOK(d)
    BY <1>1, <1>2, <1>5, <2>1, <2>2 DEF DidOK
  <2>5. cleared' \subseteq DOMAIN Cleared /\ \A m \in cleared' : d[m] = Cleared[m]
    <3>1. "public_key" \notin DOMAIN Cleared /\ DOMAIN Cleared \subseteq DOMAIN did
      BY <1>1 DEF Cleared, NewDid
    <3> QED
      BY <1>1, <2>1, <3>1, DidIsOK
  <2> QED
    BY <1>1, <1>5, <2>1, <2>3, <2>4, <2>5, DidChanges
<1>6. ASSUME SetKey PROVE WireInv'
  <2>1. UNCHANGED revoked
    BY <1>6 DEF SetKey
  <2>2. ASSUME NEW k, KeyOK(k), k.signed_attributes = key.signed_attributes,
               env' = [env EXCEPT !.did = [did EXCEPT !.public_key = k]]
        PROVE  WireInv'
    <3>1. \A n : Signatures(k, n) = Signatures(key, n)
      BY <2>2 DEF Signatures
    <3> HIDE DEF key, did
    <3>2. \A r \in revoked' : \A i \in DOMAIN Signatures(k, r[1]) :
              Signatures(k, r[1])[i].signed_by_address # r[2]
      BY <2>1, <3>1, DidIsOK DEF key, did
    <3> QED
      BY <1>5, <2>1, <2>2, <3>2, DidIsOK
  <2>3. CASE Does([env EXCEPT !.did.public_key = With(@, KeyFilled)])
    <3> DEFINE k == With(key, KeyFilled)
    <3>1. env' = [env EXCEPT !.did = [did EXCEPT !.public_key = k]]
      BY <2>3 DEF Does
    <3>2. k.signed_attributes = key.signed_attributes /\ k.attributes = key.attributes
      BY <1>4 DEF With, KeyFilled
    <3>3. HasMembersOf(k, NoKey)
      BY <1>3, SameMembers
    <3> HIDE DEF k
    <3>4. KeyOK(k)
      BY <1>3, <3>2, <3>3 DEF KeyOK
    <3> QED
      BY <2>2, <3>1, <3>2, <3>4
  <2>4. CASE Does([env EXCEPT !.did.public_key = AddAttribute(@, "email", Scalar(X))])
    <3> DEFINE a == Bound(key.attributes, "email", Scalar(X))
    <3> DEFINE k == [key EXCEPT !.attributes = a]
    <3>1. env' = [env EXCEPT !.did = [did EXCEPT !.public_key = k]]
      BY <2>4 DEF Does, AddAttribute
    <3>2. k.signed_attributes = key.signed_attributes /\ k.attributes = a
      BY <1>4
    <3>3. HasMembersOf(k, NoKey)
      BY <1>3, SameMembers
    <3>4. HasMembersOf(a, a)
      BY DEF HasMembersOf, Bound
    <3> HIDE DEF k, a
    <3>5. KeyOK(k)
      BY <1>3, <3>2, <3>3, <3>4 DEF KeyOK
    <3> QED
      BY <2>2, <3>1, <3>2, <3>5
  <2> QED
    BY <1>6, <2>3, <2>4 DEF SetKey
<1>7. ASSUME Sign PROVE WireInv'
  <2> DEFINE sig(by) == [NoSignature EXCEPT !.value_signed = X, !.signed_by_address = by]
  <2>1. PICK n \in {"email", "phone"}, by \in {None, X, Y} :
            /\ Does([env EXCEPT !.did.public_key = AddSignedAttribute(@, n, sig(by))])
            /\ revoked' = revoked \ {<<n, by>>}
    BY <1>7 DEF Sign
  <2>2. sig(by) \in SomeSignatures /\ sig(by).signed_by_address = by
    <3>1. /\ "value_signed" \in DOMAIN NoSignature /\ "signed_by_address" \in DOMAIN NoSignature
          /\ NoSignature = [m \in DOMAIN NoSignature |-> None]
      BY DEF NoSignature
    <3> QED
      BY <3>1 DEF SomeSignatures
  <2> DEFINE s == sig(by)
  <2> DEFINE list == Append(Signatures(key, n), s)
  <2> DEFINE signed == Bound(key.signed_attributes, n, list)
  <2> DEFINE k == [key EXCEPT !.signed_attributes = signed]
  <2>3. env' = [env EXCEPT !.did = [did EXCEPT !.public_key = k]]
    BY <2>1 DEF Does, AddSignedAttribute
  <2> HIDE DEF sig
  <2>4. k.signed_attributes = signed /\ k.attributes = key.attributes
    BY <1>4
  <2>5. HasMembersOf(k, NoKey)
    BY <1>3, SameMembers
  <2>6. Signatures(key, n) \in Seq(SomeSignatures)
    BY <1>3 DEF Signatures
  <2>7. list \in Seq(SomeSignatures)
    BY <2>2, <2>6
  <2>8. \A m : Signatures(k, m) = IF m = n THEN list ELSE Signatures(key, m)
    <3> HIDE DEF k, list
    <3> QED
      BY <2>4 DEF Signatures, Bound
  <2>9. KeyOK(k)
    <3>1. signed \in [DOMAIN signed -> Seq(SomeSignatures)]
      <4> HIDE DEF list
      <4> QED
        BY <1>3, <2>7 DEF Bound
    <3> HIDE DEF k, signed
    <3> QED
      BY <1>3, <2>4, <2>5, <3>1 DEF KeyOK
  <2>10. \A r \in revoked' : \A i \in DOMAIN Signatures(k, r[1]) :
             Signatures(k, r[1])[i].signed_by_address # r[2]
    <3> TAKE r \in revoked'
    <3> TAKE i \in DOMAIN Signatures(k, r[1])
    <3>1. \A j \in DOMAIN Signatures(key, r[1]) : Signatures(key, r[1])[j].signed_by_address # r[2]
      BY <2>1, DidIsOK
    <3>2. CASE r[1] # n
      <4> HIDE DEF k, list
      <4> QED
        BY <2>8, <3>1, <3>2
    <3>3. CASE r[1] = n
      <4>1. Signatures(k, r[1]) = list
        BY <2>8, <3>3
      <4>2. \/ i = Len(Signatures(key, n)) + 1 /\ list[i] = s
            \/ i \in DOMAIN Signatures(key, n) /\ list[i] = Signatures(key, n)[i]
        <5> DEFINE old == Signatures(key, n)
        <5> HIDE DEF old, s
        <5>1. old \in Seq(SomeSignatures) /\ i \in DOMAIN Append(old, s) /\ s \in SomeSignatures
          BY <2>2, <2>6, <4>1 DEF old, s
        <5>2. i \in 1..(Len(old) + 1) /\ Len(old) \in Nat /\ DOMAIN old = 1..Len(old)
          BY <5>1
        <5>3. CASE i = Len(old) + 1
          <6>1. Append(old, s)[i] = s
            BY <5>1, <5>3
          <6>2. list = Append(old, s)
            BY DEF old
          <6> HIDE DEF list
          <6>3. list[i] = s
            BY <6>1, <6>2
          <6> QED
            BY <5>3, <6>3 DEF old
        <5>4. CASE i \in 1..Len(old)
          <6>1. Append(old, s)[i] = old[i]
            BY <5>1, <5>4
          <6> QED
            BY <5>2, <5>4, <6>1 DEF old
        <5> QED
          BY <5>2, <5>3, <5>4
      <4>3. CASE list[i] = s
        <5>1. r[2] # by
          <6>1. r # <<n, by>> /\ r \in revoked
            BY <2>1
          <6>2. r = <<r[1], r[2]>>
            BY <6>1, DidIsOK
          <6> QED
            BY <3>3, <6>1, <6>2
        <5> QED
          BY <2>2, <4>1, <4>3, <5>1
      <4>4. CASE i \in DOMAIN Signatures(key, n) /\ list[i] = Signatures(key, n)[i]
        <5> HIDE DEF list, k
        <5> QED
          BY <3>1, <3>3, <4>1, <4>4
      <4> QED
        BY <4>2, <4>3, <4>4
    <3> QED
      BY <3>2, <3>3
  <2> HIDE DEF k
  <2> QED
    BY <1>5, <2>1, <2>3, <2>9, <2>10, DidIsOK
<1>8. ASSUME Unsign PROVE WireInv'
  <2>1. PICK n \in {"email", "phone"}, by \in {X, Y} :
            /\ Does([env EXCEPT !.did.public_key = RemoveSignature(@, n, by)])
            /\ revoked' = revoked \cup {<<n, by>>}
    BY <1>8 DEF Unsign
  <2> DEFINE k == RemoveSignature(key, n, by)
  <2>2. env' = [env EXCEPT !.did = [did EXCEPT !.public_key = k]]
    BY <2>1 DEF Does
  <2>3. KeyOK(k) /\ \A m : Signatures(k, m) = IF m = n THEN Without(Signatures(key, m), by)
                                                       ELSE Signatures(key, m)
    <3>1. CASE n \notin DOMAIN key.signed_attributes
      <4>1. k = key /\ Signatures(key, n) = <<>>
        BY <3>1 DEF RemoveSignature, Signatures
      <4>2. Without(<<>>, by) = <<>>
        <5>1. <<>> \in Seq({})
          OBVIOUS
        <5>2. Without(<<>>, by) \in Seq({})
          BY <5>1, WithoutLeavesNone
        <5> QED
          BY <5>2
      <4> HIDE DEF k, key
      <4> QED
        BY <1>1, <4>1, <4>2
    <3>2. CASE n \in DOMAIN key.signed_attributes
      <4> DEFINE left == Without(key.signed_attributes[n], by)
      <4> DEFINE signed == [key.signed_attributes EXCEPT ![n] = left]
      <4>1. k = [key EXCEPT !.signed_attributes = signed]
        BY <3>2 DEF RemoveSignature
      <4>2. left \in Seq(SomeSignatures)
        <5>1. key.signed_attributes[n] \in Seq(SomeSignatures)
          BY <1>3, <3>2
        <5> QED
          BY <5>1, WithoutLeavesNone
      <4>3. signed \in [DOMAIN signed -> Seq(SomeSignatures)] /\ DOMAIN signed = DOMAIN key.signed_attributes
        <5> HIDE DEF left
        <5> QED
          BY <1>3, <4>2
      <4>4. signed[n] = left /\ \A m \in DOMAIN signed \ {n} : signed[m] = key.signed_attributes[m]
        BY <3>2
      <4>5. k.signed_attributes = signed /\ k.attributes = key.attributes
        <5> HIDE DEF k, signed
        <5> QED
          BY <1>4, <4>1
      <4>6. HasMembersOf(k, NoKey)
        <5> HIDE DEF k, signed, key
        <5> QED
          BY <1>3, <4>1, SameMembers
      <4>7. KeyOK(k)
        <5> HIDE DEF k, signed, key
        <5> QED
          BY <1>3, <4>3, <4>5, <4>6 DEF KeyOK
      <4>8. ASSUME NEW m
            PROVE  Signatures(k, m) = IF m = n THEN Without(Signatures(key, m), by) ELSE Signatures(key, m)
        <5>1. Signatures(k, m) = IF m \in DOMAIN signed THEN signed[m] ELSE <<>>
          <6> HIDE DEF k, signed
          <6> QED
            BY <4>5 DEF Signatures
        <5> HIDE DEF k, signed
        <5> QED
          BY <3>2, <4>3, <4>4, <5>1 DEF Signatures
      <4> QED
        BY <4>7, <4>8
    <3> QED
      BY <3>1, <3>2
  <2>4. \A r \in revoked' : \A i \in DOMAIN Signatures(k, r[1]) :
            Signatures(k, r[1])[i].signed_by_address # r[2]
    <3> TAKE r \in revoked'
    <3>1. Signatures(key, r[1]) \in Seq(SomeSignatures)
      BY <1>3 DEF Signatures
    <3>2. CASE r \in revoked
      <4>1. \A j \in DOMAIN Signatures(key, r[1]) : Signatures(key, r[1])[j].signed_by_address # r[2]
        BY <3>2, DidIsOK
      <4> DEFINE others == {s \in SomeSignatures : s.signed_by_address # r[2]}
      <4> DEFINE before == Signatures(key, r[1])
      <4> HIDE DEF key
      <4>2. before \in Seq(others)
        BY <3>1, <4>1
      <4>3. Without(before, by) \in Seq(others)
        <5> HIDE DEF before, others
        <5> QED
          BY <4>2, WithoutLeavesNone
      <4>4. Signatures(k, r[1]) \in Seq(others)
        <5> HIDE DEF k, others
        <5> QED
          BY <2>3, <4>2, <4>3
      <4> HIDE DEF k
      <4> QED
        BY <4>4
    <3>3. CASE r = <<n, by>>
      <4>1. r[1] = n /\ r[2] = by
        BY <3>3
      <4>2. Signatures(k, r[1]) = Without(Signatures(key, r[1]), by)
        BY <2>3, <4>1
      <4> HIDE DEF k, key
      <4> QED
        BY <3>1, <4>1, <4>2, WithoutLeavesNone
    <3> QED
      BY <2>1, <3>2, <3>3
  <2>5. revoked' \subseteq {"email", "phone"} \X {X, Y}
    BY <2>1, DidIsOK
  <2> HIDE DEF k
  <2> QED
    BY <1>5, <2>2, <2>3, <2>4, <2>5
<1> QED
  BY <1>6, <1>7, <1>8

-----------------------------------------------------------------------------
LEMMA WireStep ==
    ASSUME WireInv, [Next]_vars
    PROVE  WireInv'
<1>1. CASE Next
  BY <1>1, OtherSteps, SetRouteStep, HopStep, DocumentSteps, OtherMessageSteps, DidSteps, KeySteps
     DEF Next
<1>2. CASE UNCHANGED vars
  BY <1>2, DidIsOK DEF vars, WireInv, ExceptionsKept, Carries, ClearedStaysCleared, RevokedStaysRevoked
<1> QED
  BY <1>1, <1>2

THEOREM WireStays == Spec => []WireInv
<1>1. Init => WireInv
  BY WireInit
<1>2. WireInv /\ [Next]_vars => WireInv'
  BY WireStep
<1> QED
  BY <1>1, <1>2, PTL DEF Spec

\* Envelope::ToJson() and FromJson(): whatever hosts did to an envelope, and however
\* often it was sent before, one more hop changes nothing but a multipart's parts.
THEOREM HopsKeepAllButParts == Spec => []HopKeepsAllButParts
<1>1. WireInv => HopKeepsAllButParts
  BY EnvelopeSurvives DEF WireInv, HopKeepsAllButParts
<1> QED
  BY <1>1, WireStays, PTL

\* DocumentMessage::AddException(): the exceptions added since the list was last
\* replaced are in it, all of them and in order, after any number of hops.
THEOREM ExceptionsStay == Spec => []ExceptionsKept
<1>1. WireInv => ExceptionsKept
  BY DEF WireInv
<1> QED
  BY <1>1, WireStays, PTL

\* Did::ClearSensitive(): no hop brings back what was cleared.
THEOREM ClearedStay == Spec => []ClearedStaysCleared
<1>1. WireInv => ClearedStaysCleared
  BY DEF WireInv
<1> QED
  BY <1>1, WireStays, PTL

\* PublicKey::RemoveSignature(): a signer's signatures stay removed until it signs again.
THEOREM RevokedStay == Spec => []RevokedStaysRevoked
<1>1. WireInv => RevokedStaysRevoked
  BY DEF WireInv
<1> QED
  BY <1>1, WireStays, PTL
=============================================================================
