------------------------------ MODULE Identity ------------------------------
(***************************************************************************)
(* ra::common::identity and NetworkPeer: signatures on the attributes of a  *)
(* public key, the Did that owns the key, the peer that owns the Did, and   *)
(* what ClearSensitive() leaves.                                            *)
(***************************************************************************)
EXTENDS JsonForms, Naturals, Sequences

\* Signature: every member is optional.
NoSignature == [value_signed |-> None, algorithm |-> None, signed_date |-> None,
                signed_by_username |-> None, signed_by_fingerprint |-> None,
                signed_by_address |-> None]

WriteSignature(s) == [k \in Keys(s, {}, NoSignature) |-> s[k]]
ReadSignature(d)  == With(NoSignature, d)

-----------------------------------------------------------------------------
\* PublicKey. Attributes and signature lists are kept by name.
NoKey == [alias |-> None, fingerprint |-> None, address |-> None, type |-> None,
          is_identity_key |-> FALSE, is_encryption_key |-> FALSE, is_base64_encoded |-> FALSE,
          is_base58_encoded |-> FALSE, is_pem |-> FALSE, is_hex |-> FALSE,
          attributes |-> <<>>, signed_attributes |-> <<>>]

\* m with name bound to v.
Bound(m, name, v) == [n \in DOMAIN m \cup {name} |-> IF n = name THEN v ELSE m[n]]

AddAttribute(key, name, v) == [key EXCEPT !.attributes = Bound(@, name, v)]

Signatures(key, name) ==
    IF name \in DOMAIN key.signed_attributes THEN key.signed_attributes[name] ELSE <<>>

AddSignedAttribute(key, name, s) ==
    [key EXCEPT !.signed_attributes = Bound(@, name, Append(Signatures(key, name), s))]

\* Mutant: takes the first signature it finds.
BugRemoveSignature(key, name, address) ==
    IF name \notin DOMAIN key.signed_attributes THEN key
    ELSE LET list == key.signed_attributes[name]
             by   == {i \in DOMAIN list : list[i].signed_by_address = address}
             gone == CHOOSE i \in by : \A j \in by : i <= j
         IN  IF by = {} THEN key
             ELSE [key EXCEPT !.signed_attributes[name] =
                      SubSeq(list, 1, gone - 1) \o SubSeq(list, gone + 1, Len(list))]

\* remove_if: what is left of a list.
Without(list, address) ==
    LET kept[i \in 0..Len(list)] ==
            IF i = 0 THEN <<>>
            ELSE IF list[i].signed_by_address = address THEN kept[i - 1]
            ELSE Append(kept[i - 1], list[i])
    IN  kept[Len(list)]

\* A list stays, emptied, when its last signature goes.
RemoveSignature(key, name, address) ==
    IF name \notin DOMAIN key.signed_attributes THEN key
    ELSE [key EXCEPT !.signed_attributes[name] = Without(@, address)]

Each(list, Op(_)) == [i \in DOMAIN list |-> Op(list[i])]

FormatKey(k, v) ==
    IF k = "signed_attributes" THEN [n \in DOMAIN v |-> Each(v[n], WriteSignature)] ELSE v
ParseKey(k, v) ==
    IF k = "signed_attributes" THEN [n \in DOMAIN v |-> Each(v[n], ReadSignature)] ELSE v

WriteKey(key) == [k \in Keys(key, {}, NoKey) |-> FormatKey(k, key[k])]
ReadKey(d)    == With(NoKey, [k \in DOMAIN d |-> ParseKey(k, d[k])])

-----------------------------------------------------------------------------
\* Did: what a new one holds, which is also what an absent key is read as.
NewDid == [username |-> "Anon", passphrase |-> None, passphrase2 |-> None,
           passphrase_hash |-> None, passphrase_hash_algorithm |-> "Pbkdf2HmacSha1",
           description |-> "", status |-> "Inactive", did_type |-> "Identity",
           verified |-> FALSE, authenticated |-> FALSE, public_key |-> NoKey]

FormatDid(k, v) == IF k = "public_key" THEN WriteKey(v) ELSE v

\* Mutant: an empty name is not worth writing.
BugWriteDid(did) ==
    [k \in Keys(did, DOMAIN did \ {"username", "passphrase", "passphrase2", "passphrase_hash"},
                [NewDid EXCEPT !.username = ""]) |-> FormatDid(k, did[k])]

WriteDid(did) ==
    [k \in Keys(did, DOMAIN did \ {"passphrase", "passphrase2", "passphrase_hash"}, NewDid)
        |-> FormatDid(k, did[k])]

ParseDid(k, v) ==
    CASE k = "status" -> FromString(DidStatus, v)
      [] k = "did_type" -> FromString(DidType, v)
      [] k = "public_key" -> ReadKey(v)
      [] OTHER -> v

ReadDid(d) == With(NewDid, [k \in DOMAIN d |-> ParseDid(k, d[k])])

\* ClearSensitive(): these members, and no others, are overwritten.
Cleared == [username |-> "", passphrase |-> None, passphrase2 |-> None, description |-> "",
            status |-> "Private", verified |-> FALSE, authenticated |-> FALSE]

ClearSensitive(did) == With(did, Cleared)

-----------------------------------------------------------------------------
\* NetworkPeer.
NewPeer == [id |-> None, port |-> None, network |-> "Http", did |-> NewDid, services |-> <<>>]

WritePeer(p) ==
    [k \in Keys(p, {"network", "did"}, NewPeer) |-> IF k = "did" THEN WriteDid(p[k]) ELSE p[k]]

ParsePeer(k, v) ==
    CASE k = "network" -> FromString(Network, v)
      [] k = "did" -> ReadDid(v)
      [] OTHER -> v

ReadPeer(d) == With(NewPeer, [k \in DOMAIN d |-> ParsePeer(k, d[k])])
=============================================================================
