----------------------------- MODULE MCSession ------------------------------
(***************************************************************************)
(* Every kind of message once, with the variants of its fields, at small   *)
(* limits; a few of them one after the other; streams and datagrams.       *)
(***************************************************************************)
EXTENDS Session

a == 97
b == 98
Loc(g, o) == [group_id |-> g, object_id |-> o]
Ext == <<Pair(2, IntValue(64)), Pair(11, BytesValue(<<a, b>>))>>

\* A value for every field of every message, and where a field may be several
\* things, the variants; integers at the limits of the lengths of a varint.
Values ==
    [id |-> 63, track_namespace |-> <<<<a>>, <<>>, <<b, 200>>>>, track_namespace_prefix |-> <<>>,
     track_name |-> <<a, b>>, track_alias |-> 64, expires |-> 16383, subscriber_priority |-> 255,
     group_order |-> 1, forward |-> TRUE, filter_type |-> 1, start_location |-> Loc(0, 16384),
     end_group_id |-> 2^30 - 1, content_exists |-> FALSE, largest_location |-> Loc(2^30, 1),
     error_code |-> 404, reason_phrase |-> <<a, a, b, b>>, params |-> Ext,
     subscription_request_id |-> 2, fetch_type |-> 1, end_location |-> Loc(5, 0),
     joining_request_id |-> 1, joining_start |-> 65, end_of_track |-> FALSE, uri |-> <<a>>,
     status_code |-> 3, stream_count |-> 0, request_id |-> VarIntMax, max_request_id |-> 7]
Variants ==
    [filter_type |-> 2..4, content_exists |-> {TRUE}, fetch_type |-> {2}]

MessageOf(type, values) ==
    LET all == [type |-> type] @@ values
        fields == {f.name : f \in {f \in Range(FieldsWritten[type]) : Present(all, f)}} \cup {"type"}
    IN  [f \in fields |-> all[f]]
Catalogue ==
    UNION {{MessageOf(t, Values)} \cup
           UNION {{MessageOf(t, (v :> x) @@ Values) : x \in Variants[v]} : v \in DOMAIN Variants}
           : t \in DOMAIN MessageId}

\* Messages over a limit: one of their fields, the whole of it.
TooLong == MessageOf("SubscribeError", [reason_phrase |-> [i \in 1..5 |-> a]] @@ Values)
TooLongAltogether ==
    MessageOf("Publish", [track_name |-> [i \in 1..40 |-> b], track_namespace |-> <<>>] @@ Values)

Header(type) ==
    [header_type |-> type, track_alias |-> 1, group_id |-> 300, subgroup_id |-> 0,
     publisher_priority |-> 127]
Object(payload, extensions) ==
    [object_id_delta |-> 0, extension_headers |-> extensions, payload_length |-> Len(payload),
     payload |-> payload] @@ IF payload = <<>> THEN [status |-> 3] ELSE <<>>
SubgroupOf == <<Header(21), Object(<<1, 2, 3>>, Ext), Object(<<>>, <<>>), Object(<<21>>, <<>>)>>
\* An object and a datagram that cannot be encoded: an odd key with an integer.
BadExt == <<Pair(3, IntValue(1))>>
BadSubgroup == <<Header(21), Object(<<1>>, BadExt), Object(<<2>>, <<>>)>>
FetchOf == <<[header_type |-> FetchStream, request_id |-> 4], Object(<<9>>, <<>>)>>

DatagramOf(type, extensions) ==
    LET all == [datagram_type |-> type, track_alias |-> 1, group_id |-> 70, object_id |-> type,
                publisher_priority |-> 0, extension_headers |-> extensions, payload |-> <<8, 9>>]
        fields == {f.name : f \in {f \in Range(DatagramFields) : Present(all, f)}}
    IN  [f \in fields \cup {"datagram_type", "payload"} |-> all[f]]

Quiet ==
    [url |-> <<Slash, a>>, transport |-> "WebTransport", versions |-> <<Draft14>>,
     up |-> <<>>, down |-> <<>>, data |-> <<>>, datagrams |-> <<>>]

Urls == {<<>>, <<Slash>>, <<Slash, Slash>>, <<Slash, a, Slash>>, <<Slash, a, Slash, b>>,
         <<Slash, Slash, a>>, <<Slash, Dot, Dot>>, <<Slash, Percent>>, [i \in 1..9 |-> Slash]}
SetupScenarios ==
    {[Quiet EXCEPT !.url = u, !.transport = t] : u \in Urls, t \in {"WebTransport", "RawQuic"}}
    \cup {[Quiet EXCEPT !.versions = vs] : vs \in {<<Draft14 - 1>>, <<Draft14 - 1, Draft14>>}}
ControlScenarios ==
    {[Quiet EXCEPT !.up = <<m>>] : m \in Catalogue \cup {TooLong, TooLongAltogether}}
    \cup {[Quiet EXCEPT
             !.up = <<MessageOf("PublishNamespaceOk", Values), MessageOf("Unsubscribe", Values)>>,
             !.down = <<MessageOf("FetchCancel", Values)>>]}
DataScenarios ==
    {[Quiet EXCEPT !.data = items] : items \in {SubgroupOf, BadSubgroup, FetchOf}}
    \cup {[Quiet EXCEPT !.datagrams = items] :
             items \in {<<DatagramOf(0, <<>>), DatagramOf(1, Ext)>>, <<DatagramOf(1, BadExt)>>}}

MCScenarios == SetupScenarios \cup ControlScenarios \cup DataScenarios
=============================================================================
