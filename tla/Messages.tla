------------------------------ MODULE Messages ------------------------------
(***************************************************************************)
(* The control messages of moq-transport (moq-transport/src/message): for  *)
(* each, the fields its Encode writes and the fields its Decode reads, and *)
(* the frame around them.                                                  *)
(***************************************************************************)
EXTENDS Fields

Id == Field("id", "u64")
Namespace == Field("track_namespace", "namespace")
Prefix == Field("track_namespace_prefix", "namespace")
Name == Field("track_name", "string")
Alias == Field("track_alias", "u64")
Expires == Field("expires", "u64")
Priority == Field("subscriber_priority", "u8")
Order == Field("group_order", "order")
OrderOnly == Field("group_order", "order_only")
Forward == Field("forward", "bool")
Filter == Field("filter_type", "filter")
Start == Field("start_location", "location")
End == Field("end_group_id", "u64")
ContentExists == Field("content_exists", "bool")
Largest == Field("largest_location", "location")
ErrorCode == Field("error_code", "u64")
Reason == Field("reason_phrase", "reason")
Params == Field("params", "params")

\* The fields that some filters, and content that exists, add.
FilterStart == When("filter_type", {AbsoluteStart, AbsoluteRange}, Start)
FilterEnd == When("filter_type", {AbsoluteRange}, End)
LargestIfAny == When("content_exists", {TRUE}, Largest)

-----------------------------------------------------------------------------
(* The SUBSCRIBE family. *)

SubscribeRead ==
    <<Id, Namespace, Name, Priority, Order, Forward, Filter, FilterStart, FilterEnd, Params>>
SubscribeWritten ==
    <<Id, Namespace, Name, Priority, Order, Forward, Filter, FilterStart, FilterEnd, Params>>

SubscribeOkRead ==
    <<Id, Alias, Expires, Order, ContentExists, LargestIfAny, Params>>
SubscribeOkWritten ==
    <<Id, Alias, Expires, Order, ContentExists, LargestIfAny, Params>>
SubscribeErrorRead == <<Id, ErrorCode, Reason>>
SubscribeErrorWritten == <<Id, ErrorCode, Reason>>
SubscribeUpdateRead ==
    <<Id, Field("subscription_request_id", "u64"), Start, End, Priority, Forward, Params>>
SubscribeUpdateWritten ==
    <<Id, Field("subscription_request_id", "u64"), Start, End, Priority, Forward, Params>>
UnsubscribeRead == <<Id>>
UnsubscribeWritten == <<Id>>

-----------------------------------------------------------------------------
(* The ANNOUNCE family. *)

PublishNamespaceRead == <<Id, Namespace, Params>>
PublishNamespaceWritten == <<Id, Namespace, Params>>
PublishNamespaceDoneRead == <<Namespace>>
PublishNamespaceDoneWritten == <<Namespace>>
PublishNamespaceOkRead == <<Id>>
PublishNamespaceOkWritten == <<Id>>
PublishNamespaceErrorRead == <<Id, ErrorCode, Reason>>
PublishNamespaceErrorWritten == <<Id, ErrorCode, Reason>>
PublishNamespaceCancelRead == <<Namespace, ErrorCode, Reason>>
PublishNamespaceCancelWritten == <<Namespace, ErrorCode, Reason>>

-----------------------------------------------------------------------------
(* The TRACK_STATUS family. *)

TrackStatusRead ==
    <<Id, Namespace, Name, Priority, Order, Forward, Filter, FilterStart, FilterEnd, Params>>
TrackStatusWritten ==
    <<Id, Namespace, Name, Priority, Order, Forward, Filter, FilterStart, FilterEnd, Params>>
TrackStatusOkRead ==
    <<Id, Alias, Expires, Order, ContentExists, LargestIfAny, Params>>
TrackStatusOkWritten ==
    <<Id, Alias, Expires, Order, ContentExists, LargestIfAny, Params>>
TrackStatusErrorRead == <<Id, ErrorCode, Reason>>
TrackStatusErrorWritten == <<Id, ErrorCode, Reason>>

-----------------------------------------------------------------------------
(* The NAMESPACE family. *)

SubscribeNamespaceRead == <<Id, Prefix, Params>>
SubscribeNamespaceWritten == <<Id, Prefix, Params>>
SubscribeNamespaceOkRead == <<Id>>
SubscribeNamespaceOkWritten == <<Id>>
SubscribeNamespaceErrorRead == <<Id, ErrorCode, Reason>>
SubscribeNamespaceErrorWritten == <<Id, ErrorCode, Reason>>
UnsubscribeNamespaceRead == <<Prefix>>
UnsubscribeNamespaceWritten == <<Prefix>>

-----------------------------------------------------------------------------
(* The FETCH family. *)

IfStandalone(field) == When("fetch_type", {Standalone}, field)
IfJoining(field) == When("fetch_type", {Relative, Absolute}, field)
StandaloneFetch ==
    <<IfStandalone(Namespace), IfStandalone(Name), IfStandalone(Start),
      IfStandalone(Field("end_location", "location"))>>
JoiningFetch ==
    <<IfJoining(Field("joining_request_id", "u64")), IfJoining(Field("joining_start", "u64"))>>
FetchRead ==
    <<Id, Priority, Order, Field("fetch_type", "fetch")>> \o StandaloneFetch \o JoiningFetch
        \o <<Params>>
FetchWritten ==
    <<Id, Priority, Order, Field("fetch_type", "fetch")>> \o StandaloneFetch \o JoiningFetch
        \o <<Params>>
FetchCancelRead == <<Id>>
FetchCancelWritten == <<Id>>
FetchOkRead ==
    <<Id, OrderOnly, Field("end_of_track", "bool"), Field("end_location", "location"), Params>>
FetchOkWritten ==
    <<Id, OrderOnly, Field("end_of_track", "bool"), Field("end_location", "location"), Params>>
FetchErrorRead == <<Id, ErrorCode, Reason>>
FetchErrorWritten == <<Id, ErrorCode, Reason>>

-----------------------------------------------------------------------------
(* The PUBLISH family. *)

PublishRead ==
    <<Id, Namespace, Name, Alias, OrderOnly, ContentExists, LargestIfAny,
      Forward, Params>>
PublishWritten ==
    <<Id, Namespace, Name, Alias, OrderOnly, ContentExists, LargestIfAny,
      Forward, Params>>
PublishOkRead ==
    <<Id, Forward, Priority, Order, Filter, FilterStart, FilterEnd, Params>>
PublishOkWritten ==
    <<Id, Forward, Priority, Order, Filter, FilterStart, FilterEnd, Params>>
PublishErrorRead == <<Id, ErrorCode, Reason>>
PublishErrorWritten == <<Id, ErrorCode, Reason>>
PublishDoneRead ==
    <<Id, Field("status_code", "u64"), Field("stream_count", "u64"), Reason>>
PublishDoneWritten ==
    <<Id, Field("status_code", "u64"), Field("stream_count", "u64"), Reason>>

-----------------------------------------------------------------------------
(* The messages of neither role. *)

GoAwayRead == <<Field("uri", "uri")>>
GoAwayWritten == <<Field("uri", "uri")>>
MaxRequestIdRead == <<Field("request_id", "u64")>>
MaxRequestIdWritten == <<Field("request_id", "u64")>>
RequestsBlockedRead == <<Field("max_request_id", "u64")>>
RequestsBlockedWritten == <<Field("max_request_id", "u64")>>

-----------------------------------------------------------------------------
(* The frame: the type, the length of the body in two bytes, the body. *)

MessageId ==
    [GoAway |-> 16, MaxRequestId |-> 21, RequestsBlocked |-> 26, SubscribeUpdate |-> 2,
     Subscribe |-> 3, Unsubscribe |-> 10, SubscribeOk |-> 4, SubscribeError |-> 5,
     PublishNamespace |-> 6, PublishNamespaceDone |-> 9, PublishNamespaceOk |-> 7, PublishNamespaceError |-> 8,
     PublishNamespaceCancel |-> 12, TrackStatus |-> 13, TrackStatusOk |-> 14, TrackStatusError |-> 15,
     SubscribeNamespace |-> 17, UnsubscribeNamespace |-> 20, SubscribeNamespaceOk |-> 18, SubscribeNamespaceError |-> 19,
     Fetch |-> 22, FetchCancel |-> 23, FetchOk |-> 24, FetchError |-> 25,
     Publish |-> 29, PublishDone |-> 11, PublishOk |-> 30, PublishError |-> 31]

FieldsRead ==
    [GoAway |-> GoAwayRead, MaxRequestId |-> MaxRequestIdRead,
     RequestsBlocked |-> RequestsBlockedRead, SubscribeUpdate |-> SubscribeUpdateRead,
     Subscribe |-> SubscribeRead, Unsubscribe |-> UnsubscribeRead,
     SubscribeOk |-> SubscribeOkRead, SubscribeError |-> SubscribeErrorRead,
     PublishNamespace |-> PublishNamespaceRead,
     PublishNamespaceDone |-> PublishNamespaceDoneRead,
     PublishNamespaceOk |-> PublishNamespaceOkRead,
     PublishNamespaceError |-> PublishNamespaceErrorRead,
     PublishNamespaceCancel |-> PublishNamespaceCancelRead, TrackStatus |-> TrackStatusRead,
     TrackStatusOk |-> TrackStatusOkRead, TrackStatusError |-> TrackStatusErrorRead,
     SubscribeNamespace |-> SubscribeNamespaceRead,
     UnsubscribeNamespace |-> UnsubscribeNamespaceRead,
     SubscribeNamespaceOk |-> SubscribeNamespaceOkRead,
     SubscribeNamespaceError |-> SubscribeNamespaceErrorRead, Fetch |-> FetchRead,
     FetchCancel |-> FetchCancelRead, FetchOk |-> FetchOkRead, FetchError |-> FetchErrorRead,
     Publish |-> PublishRead, PublishDone |-> PublishDoneRead, PublishOk |-> PublishOkRead,
     PublishError |-> PublishErrorRead]

FieldsWritten ==
    [GoAway |-> GoAwayWritten, MaxRequestId |-> MaxRequestIdWritten,
     RequestsBlocked |-> RequestsBlockedWritten, SubscribeUpdate |-> SubscribeUpdateWritten,
     Subscribe |-> SubscribeWritten, Unsubscribe |-> UnsubscribeWritten,
     SubscribeOk |-> SubscribeOkWritten, SubscribeError |-> SubscribeErrorWritten,
     PublishNamespace |-> PublishNamespaceWritten,
     PublishNamespaceDone |-> PublishNamespaceDoneWritten,
     PublishNamespaceOk |-> PublishNamespaceOkWritten,
     PublishNamespaceError |-> PublishNamespaceErrorWritten,
     PublishNamespaceCancel |-> PublishNamespaceCancelWritten,
     TrackStatus |-> TrackStatusWritten, TrackStatusOk |-> TrackStatusOkWritten,
     TrackStatusError |-> TrackStatusErrorWritten,
     SubscribeNamespace |-> SubscribeNamespaceWritten,
     UnsubscribeNamespace |-> UnsubscribeNamespaceWritten,
     SubscribeNamespaceOk |-> SubscribeNamespaceOkWritten,
     SubscribeNamespaceError |-> SubscribeNamespaceErrorWritten, Fetch |-> FetchWritten,
     FetchCancel |-> FetchCancelWritten, FetchOk |-> FetchOkWritten,
     FetchError |-> FetchErrorWritten, Publish |-> PublishWritten,
     PublishDone |-> PublishDoneWritten, PublishOk |-> PublishOkWritten,
     PublishError |-> PublishErrorWritten]

\* The body is encoded first, and its errors are unwrapped.
Frame(type, body) ==
    IF body.res # "ok" THEN Failed("panic")
    ELSE IF Len(body.bytes) > U16Max THEN Failed("MsgBoundsExceeded")
    ELSE Both(EncodeVarInt(type), Both(EncodeU16(Len(body.bytes)), body))
EncodeMessage(m) == Frame(MessageId[m.type], EncodeFields(m, FieldsWritten[m.type]))

\* The length is read, not checked.
DecodeMessage(b, at) ==
    Then(DecodeVarInt(b, at), LAMBDA id, next :
    Then(DecodeU16(b, next), LAMBDA length, body :
        IF \A t \in DOMAIN MessageId : MessageId[t] # id THEN Failed("InvalidMessage")
        ELSE LET type == CHOOSE t \in DOMAIN MessageId : MessageId[t] = id
             IN  DecodeFields([type |-> type], b, body, FieldsRead[type])))

-----------------------------------------------------------------------------
(* Who handles what: the subscriber half what a publisher sends, the       *)
(* publisher half what a subscriber sends.                                 *)

PublisherMessages ==
    {"PublishNamespace", "PublishNamespaceDone", "Publish", "PublishDone", "SubscribeOk",
     "SubscribeError", "TrackStatusOk", "TrackStatusError", "FetchOk", "FetchError",
     "SubscribeNamespaceOk", "SubscribeNamespaceError"}
SubscriberMessages ==
    {"SubscribeUpdate", "Subscribe", "Unsubscribe", "PublishNamespaceOk",
     "PublishNamespaceError", "PublishNamespaceCancel", "TrackStatus",
     "SubscribeNamespace", "UnsubscribeNamespace", "Fetch", "FetchCancel", "PublishOk",
     "PublishError"}
=============================================================================
