---------------------------- MODULE EnvelopeWire ----------------------------
(***************************************************************************)
(* Everything an Envelope carries besides its slip (see EnvelopeRouting):   *)
(* headers, markers, a message, a Did, a multipart body, the current        *)
(* route's peers. A host works on it, sends it on as JSON, and works on     *)
(* what it became. One copy is followed; copies share nothing.              *)
(***************************************************************************)
EXTENDS Messages, Integers

CONSTANTS
    Id,        \* the identifiers the library draws
    X, Y,      \* two strings, different and not empty
    MaxOps     \* bound: what hosts do, hops not counted

\* The documents that hosts make of the two strings: the null pointer is none of them.
BucketNames == {"CONTENT", "ENTITY", "EXCEPTIONS"}
Buckets ==
    UNION {[names -> [is : {"scalar", "array", "null"}, of : Seq({X, Y})]] :
              names \in SUBSET BucketNames}
Documents == [kind : {"document"}, data : Seq(Buckets), error_messages : Seq({X, Y})]

ASSUME DocumentAssumption == None \notin Documents

-----------------------------------------------------------------------------
\* The current route: what a RouteMeta and the three kinds of routes hold.
NewMeta == [service |-> None, operation |-> None, routed |-> FALSE, route_id |-> Id]

WriteMeta(m) == [k \in Keys(m, {"routed", "route_id"}, NewMeta) |-> m[k]]
ReadMeta(d)  == With([NewMeta EXCEPT !.route_id = 0], d)

NewSimple == [type |-> "simple", meta |-> NewMeta]

NewExternal == [type |-> "simple_external", meta |-> NewMeta, origination |-> None,
                destination |-> None, send_content_only |-> FALSE, status_code |-> 0]

NewRelayed == [type |-> "relayed_external", base |-> NewExternal, from_peer |-> None,
               to_peer |-> None, delayed |-> FALSE, min_delay |-> 0, max_delay |-> 0,
               copy |-> FALSE, min_copies |-> 0, max_copies |-> 0, sensitivity |-> 0]

FormatExternal(k, v) ==
    CASE k = "meta" -> WriteMeta(v)
      [] k \in {"origination", "destination"} -> WritePeer(v)
      [] OTHER -> v
ParseExternal(k, v) ==
    CASE k = "meta" -> ReadMeta(v)
      [] k \in {"origination", "destination"} -> ReadPeer(v)
      [] OTHER -> v

WriteExternal(r) ==
    [k \in Keys(r, DOMAIN r \ {"origination", "destination"}, NewExternal) |-> FormatExternal(k, r[k])]
ReadExternal(d) == With(NewExternal, [k \in DOMAIN d |-> ParseExternal(k, d[k])])

FormatRelayed(k, v) ==
    CASE k = "base" -> WriteExternal(v) [] k \in {"from_peer", "to_peer"} -> WritePeer(v) [] OTHER -> v
ParseRelayed(k, v) ==
    CASE k = "base" -> ReadExternal(v) [] k \in {"from_peer", "to_peer"} -> ReadPeer(v) [] OTHER -> v

\* Route::ToJson() and RouteFromJson(), by type.
WriteRoute(r) ==
    CASE r.type = "simple" -> [k \in DOMAIN r |-> FormatExternal(k, r[k])]
      [] r.type = "simple_external" -> WriteExternal(r)
      [] r.type = "relayed_external" ->
            [k \in Keys(r, DOMAIN r \ {"from_peer", "to_peer"}, NewRelayed) |-> FormatRelayed(k, r[k])]
RouteFromJson(d) ==
    CASE d["type"] = "simple" -> With(NewSimple, [k \in DOMAIN d |-> ParseExternal(k, d[k])])
      [] d["type"] = "simple_external" -> ReadExternal(d)
      [] d["type"] = "relayed_external" -> With(NewRelayed, [k \in DOMAIN d |-> ParseRelayed(k, d[k])])

-----------------------------------------------------------------------------
\* Multipart: what was put into it so far is its body.
NewMultipart(boundary) == [boundary |-> boundary, charset |-> None, body |-> <<>>]

WriteMultipart(m) ==
    [k \in {"boundary"} \cup (IF m.charset = None THEN {} ELSE {"charset"}) |-> m[k]]

ReadMultipart(d) ==
    [boundary |-> d["boundary"], charset |-> IF "charset" \in DOMAIN d THEN d["charset"] ELSE None,
     body |-> <<>>]

-----------------------------------------------------------------------------
\* Envelope: a new one, which is also what absent keys are read as.
NewEnvelope(m) ==
    [route |-> None, markers |-> <<>>, did |-> NewDid, client |-> None, reply_to_client |-> FALSE,
     client_reply_action |-> None, url |-> None, multipart |-> None, action |-> None,
     command_path |-> None, headers |-> <<>>, message |-> m, sensitivity |-> 1,
     delayed |-> FALSE, min_delay |-> 0, max_delay |-> 0, copy |-> FALSE, max_copies |-> 0,
     min_copies |-> 0, service_level |-> "AtLeastOnce"]

Optional == {"route", "client", "client_reply_action", "url", "multipart", "action",
             "command_path", "message"}

FormatEnvelope(k, v) ==
    CASE k = "did" -> WriteDid(v)
      [] k = "route" -> WriteRoute(v)
      [] k = "multipart" -> WriteMultipart(v)
      [] k = "message" -> WriteMessage(v)
      [] OTHER -> v

ParseEnvelope(k, v) ==
    CASE k = "did" -> ReadDid(v)
      [] k = "route" -> RouteFromJson(v)
      [] k = "multipart" -> ReadMultipart(v)
      [] k = "message" -> MessageFromJson(v)
      [] k = "action" -> FromString(EnvelopeAction, v)
      [] k = "service_level" -> FromString(ServiceLevel, v)
      [] OTHER -> v

ToJson(e)   == [k \in Keys(e, DOMAIN e \ Optional, NewEnvelope(None)) |-> FormatEnvelope(k, e[k])]
FromJson(d) == With(NewEnvelope(None), [k \in DOMAIN d |-> ParseEnvelope(k, d[k])])

-----------------------------------------------------------------------------
\* What hosts fill in: the plain members, with values a new object does not have.
EnvelopeFilled ==
    [client |-> X, reply_to_client |-> TRUE, client_reply_action |-> X, url |-> X,
     command_path |-> X, sensitivity |-> 0, delayed |-> TRUE, min_delay |-> 1, max_delay |-> 1,
     copy |-> TRUE, max_copies |-> 1, min_copies |-> 1]

DidFilled ==
    [username |-> X, passphrase |-> X, passphrase2 |-> X, passphrase_hash |-> X,
     passphrase_hash_algorithm |-> "Sha256", description |-> X, status |-> "Active",
     verified |-> TRUE, authenticated |-> TRUE]

KeyFilled ==
    [alias |-> X, fingerprint |-> X, address |-> X, type |-> X, is_identity_key |-> TRUE,
     is_encryption_key |-> TRUE, is_base64_encoded |-> TRUE, is_base58_encoded |-> TRUE,
     is_pem |-> TRUE, is_hex |-> TRUE]

VARIABLES
    env,       \* the envelope
    thrown,    \* history: the exceptions added since the list was last replaced
    cleared,   \* history: the members of the Did cleared and not set again
    revoked,   \* history: the attributes and signers whose signatures were removed
    ops        \* history: how much hosts have done

vars == <<env, thrown, cleared, revoked, ops>>

Start(message) ==
    env = NewEnvelope(message) /\ thrown = <<>> /\ cleared = {} /\ revoked = {} /\ ops = 0

Init ==
    \/ Start(None) \/ Start(NewDocument) \/ Start(NewCommand) \/ Start(NewText)
    \/ Start(NewEvent(Id, X))

\* A host makes e of the envelope.
Does(e) == ops < MaxOps /\ ops' = ops + 1 /\ env' = e

Carries(kind) == env.message # None /\ env.message.kind = kind

SetMember ==
    /\ \/ Does(With(env, EnvelopeFilled))
       \/ \E a \in EnvelopeAction.written : Does([env EXCEPT !.action = a])
       \/ \E l \in ServiceLevel.written : Does([env EXCEPT !.service_level = l])
    /\ UNCHANGED <<thrown, cleared, revoked>>

SetHeader ==
    /\ \E n \in {"Content-Type", "User-Agent"} : Does([env EXCEPT !.headers = Bound(@, n, Scalar(X))])
    /\ UNCHANGED <<thrown, cleared, revoked>>

RemoveHeader ==
    /\ \E n \in DOMAIN env.headers :
          Does([env EXCEPT !.headers = [m \in DOMAIN @ \ {n} |-> @[m]]])
    /\ UNCHANGED <<thrown, cleared, revoked>>

Mark ==
    /\ \E m \in {X, Y} : Does([env EXCEPT !.markers = Append(@, m)])
    /\ UNCHANGED <<thrown, cleared, revoked>>

\* A host gives the envelope a multipart body, and puts parts into it.
SetMultipart ==
    /\ Does([env EXCEPT !.multipart = NewMultipart(Id)])
    /\ UNCHANGED <<thrown, cleared, revoked>>

AddPart ==
    /\ env.multipart # None
    /\ Does([env EXCEPT !.multipart.body = Append(@, X)])
    /\ UNCHANGED <<thrown, cleared, revoked>>

\* AddContent, AddEntity, AddNvp: in a document, and refused in anything else.
AddNvp ==
    /\ Carries("document")
    /\ \E n \in BucketNames, v \in {Scalar(X), Array(<<Y>>), Null} :
          /\ Does([env EXCEPT !.message = Put(@, n, v)])
          /\ thrown' = IF n # "EXCEPTIONS" THEN thrown ELSE IF v.is = "array" THEN v.of ELSE <<>>
    /\ UNCHANGED <<cleared, revoked>>

AddExceptionTo ==
    /\ Carries("document")
    /\ \E x \in {X, Y} :
          /\ Does([env EXCEPT !.message = AddException(@, x)])
          /\ thrown' = Append(thrown, x)
    /\ UNCHANGED <<cleared, revoked>>

\* A host empties the document's buckets through data().
ClearData ==
    /\ Carries("document")
    /\ Does([env EXCEPT !.message.data = <<>>]) /\ thrown' = <<>>
    /\ UNCHANGED <<cleared, revoked>>

AddErrorMessage ==
    /\ env.message # None
    /\ \E x \in {X, Y} : Does([env EXCEPT !.message.error_messages = Append(@, x)])
    /\ UNCHANGED <<thrown, cleared, revoked>>

SetCommand ==
    /\ Carries("command")
    /\ \E c \in Command.written : Does([env EXCEPT !.message.command = c])
    /\ UNCHANGED <<thrown, cleared, revoked>>

SetText ==
    /\ Carries("text")
    /\ \/ \E f \in {"to", "from"} : Does([env EXCEPT !.message[f] = env.did])
       \/ Does([env EXCEPT !.message.text = X])
    /\ UNCHANGED <<thrown, cleared, revoked>>

SetEvent ==
    /\ Carries("event")
    /\ \E f \in {"name", "message"} : Does([env EXCEPT !.message[f] = Y])
    /\ UNCHANGED <<thrown, cleared, revoked>>

SetDid ==
    /\ \/ Does([env EXCEPT !.did = With(@, DidFilled)]) /\ cleared' = {}
       \/ \E s \in DidStatus.written :
             Does([env EXCEPT !.did.status = s]) /\ cleared' = cleared \ {"status"}
       \/ \E y \in DidType.written : Does([env EXCEPT !.did.did_type = y]) /\ UNCHANGED cleared
    /\ UNCHANGED <<thrown, revoked>>

ClearDid ==
    /\ Does([env EXCEPT !.did = ClearSensitive(@)]) /\ cleared' = DOMAIN Cleared
    /\ UNCHANGED <<thrown, revoked>>

SetKey ==
    /\ \/ Does([env EXCEPT !.did.public_key = With(@, KeyFilled)])
       \/ Does([env EXCEPT !.did.public_key = AddAttribute(@, "email", Scalar(X))])
    /\ UNCHANGED <<thrown, cleared, revoked>>

Sign ==
    /\ \E n \in {"email", "phone"}, by \in {None, X, Y} :
          /\ Does([env EXCEPT !.did.public_key = AddSignedAttribute(@, n,
                      [NoSignature EXCEPT !.value_signed = X, !.signed_by_address = by])])
          /\ revoked' = revoked \ {<<n, by>>}
    /\ UNCHANGED <<thrown, cleared>>

Unsign ==
    /\ \E n \in {"email", "phone"}, by \in {X, Y} :
          /\ Does([env EXCEPT !.did.public_key = RemoveSignature(@, n, by)])
          /\ revoked' = revoked \cup {<<n, by>>}
    /\ UNCHANGED <<thrown, cleared>>

\* GetRoute() and the members of the route it returns: where it leads and by which
\* peers, as far as the host knows them.
SetRoute ==
    /\ \/ \E m \in {[NewMeta EXCEPT !.service = X],
                    [NewMeta EXCEPT !.operation = X, !.routed = TRUE]} :
             Does([env EXCEPT !.route = [NewSimple EXCEPT !.meta = m]])
       \/ LET here == [NewPeer EXCEPT !.did = env.did]
          IN  Does([env EXCEPT !.route = [NewExternal EXCEPT !.origination = NewPeer,
                        !.destination = here, !.send_content_only = TRUE]])
       \/ \E n \in Network.written :
             LET peer == [NewPeer EXCEPT !.id = X, !.port = 1, !.network = n, !.services = <<X>>]
             IN  Does([env EXCEPT !.route = [NewRelayed EXCEPT !.base.destination = peer,
                           !.to_peer = peer, !.delayed = TRUE]])
    /\ UNCHANGED <<thrown, cleared, revoked>>

Hop == env' = FromJson(ToJson(env)) /\ UNCHANGED <<thrown, cleared, revoked, ops>>

Next ==
    \/ SetMember \/ SetHeader \/ RemoveHeader \/ Mark \/ SetMultipart \/ AddPart
    \/ AddNvp \/ AddExceptionTo \/ ClearData \/ AddErrorMessage
    \/ SetCommand \/ SetText \/ SetEvent
    \/ SetDid \/ ClearDid \/ SetKey \/ Sign \/ Unsign \/ SetRoute
    \/ Hop

Spec == Init /\ [][Next]_vars

-----------------------------------------------------------------------------
\* What arrives is what was sent, member by member and name by name, but for the
\* parts of a multipart body.
HopKeepsAllButParts ==
    FromJson(ToJson(env)) = IF env.multipart = None THEN env ELSE [env EXCEPT !.multipart.body = <<>>]

\* Every exception added to a document is in its list, in order and across hops,
\* whatever else is put under the name of the list.
ExceptionsKept ==
    thrown = IF Carries("document") THEN Exceptions(env.message) ELSE <<>>

\* What ClearSensitive() has cleared never comes back by itself, for instance as
\* the value an absent key is read as.
ClearedStaysCleared == \A m \in cleared : env.did[m] = Cleared[m]

\* No signature of a signer is left after RemoveSignature(), however often it had
\* signed and whatever hops lie in between, until it signs again.
RevokedStaysRevoked ==
    \A r \in revoked :
        \A i \in DOMAIN Signatures(env.did.public_key, r[1]) :
            Signatures(env.did.public_key, r[1])[i].signed_by_address # r[2]
=============================================================================
