----------------------------- MODULE DataPlane ------------------------------
(***************************************************************************)
(* What goes outside the control stream (moq-transport/src/data): the      *)
(* header and the objects of a unidirectional stream, and datagrams.       *)
(***************************************************************************)
EXTENDS Fields

FetchStream == 5
SubgroupStreams == 16..21 \cup 24..29
StreamHeaderTypes == SubgroupStreams \cup {FetchStream}
HasSubgroupId(type) == type \in {20, 21, 28, 29}
HasExtensionHeaders(type) == type \in {17, 19, 21, 25, 27, 29, FetchStream}

TrackAlias == Field("track_alias", "u64")
GroupId == Field("group_id", "u64")
PublisherPriority == Field("publisher_priority", "u8")
ObjectIdDelta == Field("object_id_delta", "u64")
ExtensionHeaders == Field("extension_headers", "extensions")
PayloadLength == Field("payload_length", "u64")
ObjectStatus == Field("status", "status")

\* What follows the type of a stream.
IfSubgroup(field) == When("header_type", SubgroupStreams, field)
SubgroupHeaderFields ==
    <<IfSubgroup(TrackAlias), IfSubgroup(GroupId),
      When("header_type", {t \in SubgroupStreams : HasSubgroupId(t)}, Field("subgroup_id", "u64")),
      IfSubgroup(PublisherPriority)>>
FetchHeaderFields == <<When("header_type", {FetchStream}, Field("request_id", "u64"))>>
StreamHeaderFields == SubgroupHeaderFields \o FetchHeaderFields

EncodeStreamHeader(m) == Both(EncodeVarInt(m.header_type), EncodeFields(m, StreamHeaderFields))
DecodeStreamHeader(b, at) ==
    Then(Enum(DecodeVarInt(b, at), StreamHeaderTypes, "InvalidHeaderType"),
         LAMBDA type, next : DecodeFields([header_type |-> type], b, next, StreamHeaderFields))

\* An object without a payload has a status instead; its payload follows the object.
EmptyStatus == When("payload_length", {0}, ObjectStatus)
SubgroupObject == <<ObjectIdDelta, PayloadLength, EmptyStatus>>
SubgroupObjectExt == <<ObjectIdDelta, ExtensionHeaders, PayloadLength, EmptyStatus>>

EncodeSubgroupObjectExt(m) == EncodeFields(m, SubgroupObjectExt)
DecodeSubgroupObject(b, at, type) ==
    DecodeFields([payload |-> <<>>], b, at,
                 IF HasExtensionHeaders(type) THEN SubgroupObjectExt ELSE SubgroupObject)

\* What follows the type of a datagram; the payload is all that is left of it.
DatagramTypes == 0..7 \cup {32, 33}
IfDatagram(types, field) == When("datagram_type", types, field)
DatagramFields ==
    <<TrackAlias, GroupId, IfDatagram(0..3 \cup {32, 33}, Field("object_id", "u64")),
      PublisherPriority, IfDatagram({1, 3, 5, 7, 33}, ExtensionHeaders),
      IfDatagram({32, 33}, ObjectStatus)>>
HasPayload(type) == type \in 0..7

EncodeDatagram(m) ==
    Both(EncodeVarInt(m.datagram_type),
    Both(EncodeFields(m, DatagramFields),
         IF ~HasPayload(m.datagram_type) THEN Encoded(<<>>)
         ELSE IF "payload" \in DOMAIN m THEN Encoded(m.payload) ELSE Failed("MissingField")))
DecodeDatagram(b) ==
    Then(Enum(DecodeVarInt(b, 0), DatagramTypes, "InvalidDatagramType"), LAMBDA type, next :
    Then(DecodeFields([datagram_type |-> type], b, next, DatagramFields), LAMBDA m, rest :
        IF HasPayload(type) THEN Ok(With(m, "payload", SubSeq(b, rest + 1, Len(b))), Len(b))
        ELSE Ok(m, rest)))
=============================================================================
