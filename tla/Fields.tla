------------------------------- MODULE Fields -------------------------------
(***************************************************************************)
(* The fields of a message.  A message is a record; its Encode and its     *)
(* Decode implementations are each the list of the fields they write or    *)
(* read.  Whether a field is there may depend on one before it.            *)
(***************************************************************************)
EXTENDS Coding

Enum(r, values, error) ==
    Then(r, LAMBDA x, at : IF x \in values THEN Ok(x, at) ELSE Failed(error))

\* GroupOrder.
PublisherOrder == 0
EncodeGroupOrder(x) == EncodeU8(x)
DecodeGroupOrder(b, at) == Enum(DecodeU8(b, at), 0..2, "InvalidGroupOrder")

\* GroupOrder where only Ascending and Descending are allowed.
EncodeOrderOnly(x) == IF x = PublisherOrder THEN Failed("InvalidValue") ELSE EncodeGroupOrder(x)
DecodeOrderOnly(b, at) == Enum(DecodeGroupOrder(b, at), 1..2, "InvalidGroupOrder")

\* FilterType.
AbsoluteStart == 3
AbsoluteRange == 4
EncodeFilterType(x) == EncodeVarInt(x)
DecodeFilterType(b, at) == Enum(DecodeVarInt(b, at), 1..4, "InvalidFilterType")

\* FetchType.
Standalone == 1
Relative == 2
Absolute == 3
EncodeFetchType(x) == EncodeU8(x)
DecodeFetchType(b, at) == Enum(DecodeU8(b, at), 1..3, "InvalidFetchType")

\* ObjectStatus.
EncodeObjectStatus(x) == EncodeVarInt(x)
DecodeObjectStatus(b, at) == Enum(DecodeVarInt(b, at), {0, 1, 3, 4}, "InvalidObjectStatus")

\* ExtensionHeaders: pairs with the length of their encoding before them, decoded
\* from a copy of that many bytes.
EncodeExtensionHeaders(kvps) ==
    LET pairs == EncodeEach(kvps, EncodeKeyValuePair)
    IN  IF pairs.res = "ok" THEN Both(EncodeVarInt(Len(pairs.bytes)), pairs) ELSE pairs
DecodeExtensionHeaders(b, at) ==
    Then(DecodeVarInt(b, at), LAMBDA length, start :
    Then(DecodeRemaining(b, start, length), LAMBDA copy, end :
    Then(DecodeEach("pair", copy, 0, length, length), LAMBDA kvps, last : Ok(kvps, end))))

-----------------------------------------------------------------------------
EncodeField(kind, v) ==
    CASE kind = "u64" -> EncodeVarInt(v)
      [] kind = "u8" -> EncodeU8(v)
      [] kind = "bool" -> EncodeBool(v)
      [] kind = "string" -> EncodeString(v)
      [] kind = "reason" -> EncodeReasonPhrase(v)
      [] kind = "uri" -> EncodeSessionUri(v)
      [] kind = "namespace" -> EncodeTrackNamespace(v)
      [] kind = "location" -> EncodeLocation(v)
      [] kind = "params" -> EncodeKeyValuePairs(v)
      [] kind = "extensions" -> EncodeExtensionHeaders(v)
      [] kind = "order" -> EncodeGroupOrder(v)
      [] kind = "order_only" -> EncodeOrderOnly(v)
      [] kind = "filter" -> EncodeFilterType(v)
      [] kind = "fetch" -> EncodeFetchType(v)
      [] kind = "status" -> EncodeObjectStatus(v)

DecodeField(kind, b, at) ==
    CASE kind = "u64" -> DecodeVarInt(b, at)
      [] kind = "u8" -> DecodeU8(b, at)
      [] kind = "bool" -> DecodeBool(b, at)
      [] kind = "string" -> DecodeString(b, at)
      [] kind = "reason" -> DecodeReasonPhrase(b, at)
      [] kind = "uri" -> DecodeSessionUri(b, at)
      [] kind = "namespace" -> DecodeTrackNamespace(b, at)
      [] kind = "location" -> DecodeLocation(b, at)
      [] kind = "params" -> DecodeKeyValuePairs(b, at)
      [] kind = "extensions" -> DecodeExtensionHeaders(b, at)
      [] kind = "order" -> DecodeGroupOrder(b, at)
      [] kind = "order_only" -> DecodeOrderOnly(b, at)
      [] kind = "filter" -> DecodeFilterType(b, at)
      [] kind = "fetch" -> DecodeFetchType(b, at)
      [] kind = "status" -> DecodeObjectStatus(b, at)

\* A field: its name, its kind, and the field it depends on, if any, with the values
\* of that one for which it is there.
Always == "always"
Field(name, kind) == [name |-> name, kind |-> kind, on |-> Always, among |-> {}]
When(on, among, field) == [name |-> field.name, kind |-> field.kind, on |-> on, among |-> among]
Present(m, field) == field.on = Always \/ (field.on \in DOMAIN m /\ m[field.on] \in field.among)

\* The types of the source.
Ascii == 0..127
IsSequence(q) == Len(q) \in Nat /\ q = [i \in 1..Len(q) |-> q[i]]
IsKeyValuePair(kvp) ==
    /\ kvp = Pair(kvp.key, [kind |-> kvp.value.kind, value |-> kvp.value.value])
    /\ kvp.key \in Nat
    /\ \/ kvp.value.kind = "int" /\ kvp.value.value \in Nat
       \/ kvp.value.kind = "bytes" /\ kvp.value.value \in Bytes
HasType(kind, v) ==
    CASE kind = "u64" -> v \in Nat
      [] kind = "u8" -> v \in U8
      [] kind = "bool" -> v \in BOOLEAN
      [] kind \in {"string", "reason", "uri"} -> v \in Seq(Ascii)
      [] kind = "namespace" -> v \in Seq(Bytes)
      [] kind = "location" -> v \in [group_id : Nat, object_id : Nat]
      [] kind \in {"params", "extensions"} -> IsSequence(v) /\ \A i \in DOMAIN v : IsKeyValuePair(v[i])
      [] kind \in {"order", "order_only"} -> v \in 0..2
      [] kind = "filter" -> v \in 1..4
      [] kind = "fetch" -> v \in 1..3
      [] kind = "status" -> v \in {0, 1, 3, 4}
IsRecord(m, before, fields) ==
    LET present == {i \in DOMAIN fields : Present(m, fields[i])}
    IN  /\ m = [name \in before \cup {fields[i].name : i \in present} |-> m[name]]
        /\ \A i \in present : HasType(fields[i].kind, m[fields[i].name])
\* A pair encodes bytes of any length and decodes those of a u16.
Carried(kvps) ==
    \A i \in DOMAIN kvps : kvps[i].value.kind = "bytes" => Len(kvps[i].value.value) <= U16Max

\* The fields of m that are there, one after the other.
EncodeFields(m, fields) ==
    EncodeEach(fields, LAMBDA field :
        IF ~Present(m, field) THEN Encoded(<<>>)
        ELSE IF field.name \in DOMAIN m THEN EncodeField(field.kind, m[field.name])
        ELSE Failed("MissingField"))

\* What was decoded before, with the fields that follow.
With(m, name, v) == [f \in DOMAIN m \cup {name} |-> IF f = name THEN v ELSE m[f]]
DecodeFields(before, b, at, fields) ==
    LET decoded[n \in 0..Len(fields)] ==
            IF n = 0 THEN Ok(before, at)
            ELSE Then(decoded[n - 1], LAMBDA m, next :
                    IF ~Present(m, fields[n]) THEN Ok(m, next)
                    ELSE Map(DecodeField(fields[n].kind, b, next),
                             LAMBDA v : With(m, fields[n].name, v)))
    IN  decoded[Len(fields)]
=============================================================================
