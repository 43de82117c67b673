------------------------------ MODULE Messages ------------------------------
(***************************************************************************)
(* ra::common::messaging: what an envelope carries. A message is told apart *)
(* by its kind, keeps a list of error messages, and, when it is a document, *)
(* buckets of named JSON values.                                            *)
(***************************************************************************)
EXTENDS Identity

\* JSON values in a bucket, as far as the accessors tell them apart.
Scalar(v) == [is |-> "scalar", of |-> <<v>>]
Array(q)  == [is |-> "array", of |-> q]
Null      == [is |-> "null", of |-> <<>>]

NewDocument == [kind |-> "document", data |-> << <<>> >>, error_messages |-> <<>>]
NewCommand  == [kind |-> "command", command |-> None, error_messages |-> <<>>]
NewText     == [kind |-> "text", to |-> None, from |-> None, text |-> None,
                error_messages |-> <<>>]
NewEvent(id, type) == [kind |-> "event", id |-> id, event_type |-> type, name |-> None,
                       message |-> None, error_messages |-> <<>>]

-----------------------------------------------------------------------------
\* DocumentMessage: the first bucket, made when there is none.
Primary(m) == IF m.data = <<>> THEN <<>> ELSE m.data[1]

WithPrimary(m, bucket) ==
    [m EXCEPT !.data = IF @ = <<>> THEN <<bucket>> ELSE [@ EXCEPT ![1] = bucket]]

Put(m, name, v) == WithPrimary(m, Bound(Primary(m), name, v))

Get(m, name) == IF name \in DOMAIN Primary(m) THEN Primary(m)[name] ELSE Null

\* Mutant: the list is started again each time.
BugAddException(m, x) == Put(m, "EXCEPTIONS", Array(<<x>>))

\* What is under the name and no list makes way for one.
AddException(m, x) ==
    Put(m, "EXCEPTIONS", IF Get(m, "EXCEPTIONS").is = "array"
                         THEN Array(Append(Get(m, "EXCEPTIONS").of, x)) ELSE Array(<<x>>))

Exceptions(m) == IF Get(m, "EXCEPTIONS").is = "array" THEN Get(m, "EXCEPTIONS").of ELSE <<>>

-----------------------------------------------------------------------------
\* The members each kind always writes, and all of them when unset.
Always(kind) ==
    CASE kind = "document" -> {"kind", "data"}
      [] kind = "command"  -> {"kind"}
      [] kind = "event"    -> {"kind", "id", "event_type"}
      [] kind = "text"     -> {"kind"}

Unset(kind) ==
    CASE kind = "document" -> NewDocument
      [] kind = "command"  -> NewCommand
      [] kind = "event"    -> NewEvent(None, None)
      [] kind = "text"     -> NewText

WriteMessage(m) ==
    [k \in Keys(m, Always(m.kind), Unset(m.kind)) |->
        IF k \in {"to", "from"} THEN WriteDid(m[k]) ELSE m[k]]

ParseMessage(k, v) ==
    CASE k \in {"to", "from"} -> ReadDid(v)
      [] k = "command" -> FromString(Command, v)
      [] OTHER -> v

\* MessageFromJson(): every kind of message has its own FromJson().
MessageFromJson(d) == With(Unset(d["kind"]), [k \in DOMAIN d |-> ParseMessage(k, d[k])])
=============================================================================
