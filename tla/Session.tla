------------------------------ MODULE Session -------------------------------
(***************************************************************************)
(* Two ends of a session, down to the bytes: setup, the control messages   *)
(* of both directions, one unidirectional stream and the datagrams of the  *)
(* server to the client (moq-transport/src/session/mod.rs, reader.rs,      *)
(* writer.rs).  What the halves do with a message is the subject of        *)
(* Announce and Subscription: here it is delivered.                        *)
(***************************************************************************)
EXTENDS Setup, DataPlane

CONSTANTS
    Scenarios,  \* what an application asks for: see Scenario in Init
    ReadSizes   \* bound: how many bytes one read of a stream may return

\* What an application can ask for: the types of the source, and what serve_subgroup
\* does (the payload has the length announced, the type of the stream has extension
\* headers, and the status is that of an empty object).  The values of the extension
\* headers are as long as a receiver takes them: they come from one, or from an
\* application that keeps to the draft.
IsMessage(m) == m.type \in DOMAIN MessageId /\ IsRecord(m, {"type"}, FieldsWritten[m.type])
IsStreamHeader(m) ==
    /\ IsRecord(m, {"header_type"}, StreamHeaderFields)
    /\ m.header_type \in StreamHeaderTypes /\ HasExtensionHeaders(m.header_type)
IsObject(m) ==
    /\ IsRecord(m, {"payload"}, SubgroupObjectExt)
    /\ m.payload \in Bytes /\ m.payload_length = Len(m.payload)
    /\ Carried(m.extension_headers)
IsDatagram(m) ==
    /\ m.datagram_type \in DatagramTypes
    /\ IsRecord(m, {"datagram_type"} \cup IF HasPayload(m.datagram_type) THEN {"payload"} ELSE {},
                DatagramFields)
    /\ HasPayload(m.datagram_type) => m.payload \in Bytes
    /\ "extension_headers" \in DOMAIN m => Carried(m.extension_headers)
IsScenario(c) ==
    /\ c.url \in Bytes /\ c.versions \in Seq(Nat) /\ c.transport \in {"WebTransport", "RawQuic"}
    /\ \A q \in {c.up, c.down} : IsSequence(q) /\ \A i \in DOMAIN q : IsMessage(q[i])
    /\ IsSequence(c.data)
    /\ \A i \in DOMAIN c.data : IF i = 1 THEN IsStreamHeader(c.data[i]) ELSE IsObject(c.data[i])
    /\ IsSequence(c.datagrams) /\ \A i \in DOMAIN c.datagrams : IsDatagram(c.datagrams[i])
ScenarioAssumption == \A c \in Scenarios : IsScenario(c)
ReadSizesAssumption == ReadSizes \subseteq Nat \ {0}
ASSUME ScenarioAssumption
ASSUME ReadSizesAssumption

VARIABLES
    scenario,   \* the path, the transport, the versions, and the items of each stream
    status,     \* of each end: "new", "setup", "running", or why it ended
    path,       \* of each end: connection_path
    version,    \* of each end: the version of SERVER_SETUP, 0 before
    todo,       \* of each stream: the items its sender has yet to encode
    sent,       \* of each stream: the items it has encoded
    wire,       \* of each stream: the bytes its receiver has yet to read
    fin,        \* of each stream: no byte will follow
    buffer,     \* of each stream: Reader.buffer
    want,       \* of each stream: the length of buffer at which decoding goes on
    left,       \* of each stream: what is left of the payload of the last object
    got,        \* of each stream: the items its receiver has decoded
    flying      \* the datagrams on their way

streams == <<todo, sent, wire, fin, buffer, want, left, got>>
ends == <<status, path, version>>
vars == <<scenario, ends, streams, flying>>

Sides == {"client", "server"}
Streams == {"up", "down", "data", "datagrams"}
Control == {"up", "down"}
Sender == [up |-> "client", down |-> "server", data |-> "server", datagrams |-> "server"]
Peer(e) == IF e = "client" THEN "server" ELSE "client"
Receiver(s) == Peer(Sender[s])
Alive(e) == status[e] \in {"new", "setup", "running"}

Items == [s \in Streams |-> scenario[s]]

Init ==
    /\ scenario \in Scenarios
    /\ status = [client |-> "new", server |-> "setup"]
    /\ path = [e \in Sides |-> NoPath]
    /\ version = [e \in Sides |-> 0]
    /\ todo = Items
    /\ sent = [s \in Streams |-> <<>>]
    /\ wire = [s \in Streams |-> <<>>]
    /\ fin = [s \in Streams |-> FALSE]
    /\ buffer = [s \in Streams |-> <<>>]
    /\ want = [s \in Streams |-> 0]
    /\ left = [s \in Streams |-> 0]
    /\ got = [s \in Streams |-> <<>>]
    /\ flying = {}

Ends(e, why) == status' = [status EXCEPT ![e] = why]

-----------------------------------------------------------------------------
(* Writing: Writer::encode, Writer::write. *)

EncodeItem(s, item) ==
    IF s \in Control
    THEN CASE item.type = "Client" -> EncodeClient(item)
           [] item.type = "Server" -> EncodeServer(item)
           [] OTHER -> EncodeMessage(item)
    ELSE IF s = "datagrams" THEN EncodeDatagram(item)
    ELSE IF "header_type" \in DOMAIN item THEN EncodeStreamHeader(item)
    ELSE Both(EncodeSubgroupObjectExt(item), Encoded(item.payload))

\* The bytes of an item, all of them or, of a stream that ends, the first ones.
Put(s, item, bytes) ==
    /\ sent' = [sent EXCEPT ![s] = Append(@, item)]
    /\ wire' = [wire EXCEPT ![s] = @ \o bytes]

\* Session::connect, up to CLIENT_SETUP.
ClientSetup(normalized) ==
    LET limit == Pair(MaxRequestIdKey, IntValue(100))
        name == Pair(PathKey, BytesValue(normalized))
    IN  [type |-> "Client", versions |-> scenario.versions,
         params |-> IF normalized # NoPath /\ scenario.transport = "RawQuic"
                    THEN Set(<<limit>>, name) ELSE <<limit>>]

Connect ==
    LET normalized == NormalizeConnectionPath(scenario.url)
        client == ClientSetup(normalized)
        encoded == EncodeClient(client)
    IN  /\ status["client"] = "new"
        /\ IF normalized = InvalidPath
           THEN Ends("client", "InvalidPath") /\ UNCHANGED <<path, sent, wire>>
           ELSE IF encoded.res # "ok"
           THEN Ends("client", encoded.res) /\ UNCHANGED <<path, sent, wire>>
           ELSE /\ Ends("client", "setup")
                /\ path' = [path EXCEPT !["client"] = normalized]
                /\ Put("up", client, encoded.bytes)
        /\ UNCHANGED <<scenario, version, todo, fin, buffer, want, left, got, flying>>

\* run_send: an error of encode ends the session.
\* Variant for mutation: it runs before the setup is done.
CanSendInSetup(s) ==
    s \in Control /\ todo[s] # <<>> /\ status[Sender[s]] \in {"setup", "running"}
CanSend(s) == s \in Control /\ todo[s] # <<>> /\ status[Sender[s]] = "running"
SendMessage(s) ==
    /\ CanSend(s)
    /\ todo' = [todo EXCEPT ![s] = Tail(@)]
    /\ \E encoded \in {EncodeItem(s, Head(todo[s]))} :
        IF encoded.res = "ok"
        THEN Put(s, Head(todo[s]), encoded.bytes) /\ UNCHANGED status
        ELSE Ends(Sender[s], encoded.res) /\ UNCHANGED <<sent, wire>>
    /\ UNCHANGED <<scenario, path, version, fin, buffer, want, left, got, flying>>

\* serve_subgroup: the header, then each object and its payload, until the subgroup
\* ends or fails, within the payload of an object perhaps, or before what cannot be
\* encoded; dropping the stream finishes it.
CanServe(s) == todo[s] # <<>> /\ ~fin[s] /\ status["server"] = "running"
ServeObject(kept) ==
    /\ CanServe("data")
    /\ todo' = [todo EXCEPT !["data"] = Tail(@)]
    /\ LET item == Head(todo["data"])
           encoded == EncodeItem("data", item)
       IN  IF encoded.res = "ok"
           THEN /\ Put("data", item, SubSeq(encoded.bytes, 1, Len(encoded.bytes) - kept))
                /\ fin' = [fin EXCEPT !["data"] = kept > 0]
           ELSE fin' = [fin EXCEPT !["data"] = TRUE] /\ UNCHANGED <<sent, wire>>
    /\ UNCHANGED <<scenario, ends, buffer, want, left, got, flying>>
ServeWhole == ServeObject(0)
ServeCut ==
    /\ todo["data"] # <<>>
    /\ "payload" \in DOMAIN Head(todo["data"])
    /\ \E kept \in 1..Len(Head(todo["data"]).payload) : ServeObject(kept)
ServeDone ==
    /\ todo["data"] = <<>> /\ sent["data"] # <<>> /\ ~fin["data"] /\ status["server"] = "running"
    /\ fin' = [fin EXCEPT !["data"] = TRUE]
    /\ UNCHANGED <<scenario, ends, todo, sent, wire, buffer, want, left, got, flying>>

\* serve_datagrams, up to one that cannot be encoded.
SendDatagram ==
    /\ CanServe("datagrams")
    /\ todo' = [todo EXCEPT !["datagrams"] = Tail(@)]
    /\ LET item == Head(todo["datagrams"])
           encoded == EncodeDatagram(item)
       IN  IF encoded.res = "ok"
           THEN /\ sent' = [sent EXCEPT !["datagrams"] = Append(@, item)]
                /\ flying' = flying \cup {encoded.bytes}
                /\ fin' = fin
           ELSE fin' = [fin EXCEPT !["datagrams"] = TRUE] /\ UNCHANGED <<sent, flying>>
    /\ UNCHANGED <<scenario, ends, wire, buffer, want, left, got>>

-----------------------------------------------------------------------------
(* Reading: Reader::decode, Reader::read_chunk, Reader::done.              *)

\* A data stream whose receiver gave up wants nothing any more.
GivenUp == -1
\* The task that reads the stream is there: for the control stream from the setup on.
Reads(s) ==
    /\ want[s] # GivenUp
    /\ status[Receiver(s)] \in IF s \in Control THEN {"setup", "running"} ELSE {"running"}
Waiting(s) == Reads(s) /\ left[s] = 0 /\ Len(buffer[s]) < want[s]

ReadBuf(s, n) ==
    /\ Waiting(s) /\ wire[s] # <<>>
    /\ LET k == IF n < Len(wire[s]) THEN n ELSE Len(wire[s])
       IN  /\ buffer' = [buffer EXCEPT ![s] = @ \o SubSeq(wire[s], 1, k)]
           /\ wire' = [wire EXCEPT ![s] = SubSeq(@, k + 1, Len(@))]
    /\ UNCHANGED <<scenario, ends, todo, sent, fin, want, left, got, flying>>

\* The first items of a stream say what the later ones are.
DecodeNext(s, before, b) ==
    CASE s = "up" /\ before = <<>> -> DecodeClient(b, 0)
      [] s = "down" /\ before = <<>> -> DecodeServer(b, 0)
      [] s \in Control /\ before # <<>> -> DecodeMessage(b, 0)
      [] s = "data" /\ before = <<>> -> DecodeStreamHeader(b, 0)
      [] s = "data" /\ before # <<>> -> DecodeSubgroupObject(b, 0, before[1].header_type)

\* Session::accept, from CLIENT_SETUP on.  The path of the URL of a WebTransport
\* session comes before the one of the parameter.
\* Variant for mutation: only the parameter counts.
AcceptedPathParam(client) == DecodeClientSetupPath(client.params)
AcceptedPath(client) ==
    LET url == NormalizeConnectionPath(
                   IF scenario.transport = "WebTransport" THEN scenario.url ELSE NoPath)
    IN  IF url = NoPath THEN DecodeClientSetupPath(client.params) ELSE url
ServerSetup(client) ==
    [type |-> "Server", version |-> LargestCommon(<<Draft14>>, client.versions),
     params |-> <<Pair(MaxRequestIdKey, IntValue(100))>>]

Accept(client) ==
    LET server == ServerSetup(client)
        encoded == EncodeServer(server)
    IN  IF AcceptedPath(client) = InvalidPath
        THEN Ends("server", "InvalidPath") /\ UNCHANGED <<path, version, sent, wire>>
        ELSE IF server.version = 0
        THEN Ends("server", "version") /\ UNCHANGED <<path, version, sent, wire>>
        ELSE IF encoded.res # "ok"
        THEN Ends("server", encoded.res) /\ UNCHANGED <<path, version, sent, wire>>
        ELSE /\ Ends("server", "running")
             /\ path' = [path EXCEPT !["server"] = AcceptedPath(client)]
             /\ version' = [version EXCEPT !["server"] = server.version]
             /\ Put("down", server, encoded.bytes)

\* Session::connect, from SERVER_SETUP on.
Connected(server) ==
    /\ Ends("client", "running")
    /\ version' = [version EXCEPT !["client"] = server.version]
    /\ UNCHANGED <<path, sent, wire>>

\* The length of the buffer from which the item after one is decoded: what is there
\* may be enough.
\* Variant for mutation: it reads first.
NextWantRead(rest) == Len(rest) + 1
NextWant(rest) == 0

\* run_recv: the publisher half logs its errors; those of the subscriber half, a
\* duplicate announce or a message it does not know, end the session, and so does
\* a message of neither half.
Unimplemented ==
    {"Publish", "TrackStatusError", "FetchOk", "FetchError", "SubscribeNamespaceOk",
     "SubscribeNamespaceError", "GoAway", "MaxRequestId", "RequestsBlocked"}
RecvMessage(e, m) ==
    /\ \/ m.type \notin Unimplemented /\ UNCHANGED status
       \/ m.type \in Unimplemented /\ Ends(e, "unimplemented")
       \/ m.type = "PublishNamespace" /\ Ends(e, "duplicate")
    /\ UNCHANGED <<path, version, sent, wire>>

\* recv_stream: only streams of subgroups, of an alias that is known in time.
\* recv_subgroup: after each object its payload, unless its writer refuses the object.
RecvStream(s, item) ==
    /\ \/ want' = [want EXCEPT ![s] = GivenUp]
       \/ (got[s] = <<>> => item.header_type # FetchStream) /\ want' = [want EXCEPT ![s] = 0]
    /\ left' = IF got[s] = <<>> THEN left ELSE [left EXCEPT ![s] = item.payload_length]
    /\ UNCHANGED <<ends, sent, wire>>

Decoded(s, item, rest) ==
    /\ buffer' = [buffer EXCEPT ![s] = rest]
    /\ got' = [got EXCEPT ![s] = Append(@, item)]
    /\ IF s = "data" THEN RecvStream(s, item)
       ELSE /\ want' = [want EXCEPT ![s] = NextWant(rest)]
            /\ left' = left
            /\ CASE item.type = "Client" -> Accept(item)
                 [] item.type = "Server" -> Connected(item)
                 [] OTHER -> RecvMessage(Receiver(s), item)
\* An error ends the session, or the handling of the unidirectional stream.
Undecoded(s, why) ==
    /\ IF s = "data" THEN want' = [want EXCEPT ![s] = GivenUp] /\ UNCHANGED status
       ELSE want' = want /\ Ends(Receiver(s), why)
    /\ UNCHANGED <<path, version, sent, wire, buffer, left, got>>

\* Reader::decode, one attempt.
CanDecode(s) == Reads(s) /\ left[s] = 0 /\ Len(buffer[s]) >= want[s]
Decode(s) ==
    /\ CanDecode(s)
    /\ \E r \in {DecodeNext(s, got[s], buffer[s])} :
        CASE r.res = "more" ->
                /\ want' = [want EXCEPT ![s] = Len(buffer[s]) + r.need]
                /\ UNCHANGED <<ends, sent, wire, buffer, left, got>>
          [] r.res = "ok" -> Decoded(s, r.value, SubSeq(buffer[s], r.at + 1, Len(buffer[s])))
          [] OTHER -> Undecoded(s, r.res)
    /\ UNCHANGED <<scenario, todo, fin, flying>>

\* read_chunk: what is in the buffer, else of the stream.  Its writer may refuse it.
ReadChunk(s, n) ==
    LET source == IF buffer[s] # <<>> THEN buffer[s] ELSE wire[s]
        size == Min({left[s], Len(source)} \cup IF buffer[s] = <<>> THEN {n} ELSE {})
        rest == SubSeq(source, size + 1, Len(source))
    IN  /\ Reads(s) /\ left[s] > 0 /\ source # <<>>
        /\ IF buffer[s] # <<>>
           THEN buffer' = [buffer EXCEPT ![s] = rest] /\ wire' = wire
           ELSE wire' = [wire EXCEPT ![s] = rest] /\ buffer' = buffer
        /\ got' = [got EXCEPT ![s][Len(got[s])].payload = @ \o SubSeq(source, 1, size)]
        /\ left' = [left EXCEPT ![s] = @ - size]
        /\ want' = want \/ want' = [want EXCEPT ![s] = GivenUp]
        /\ UNCHANGED <<scenario, ends, todo, sent, fin, flying>>

\* The stream of a sender that finished it has ended: between two objects that is
\* the end of the subgroup, elsewhere an error, of this stream alone.
EndOfStream ==
    /\ fin["data"] /\ wire["data"] = <<>> /\ Reads("data")
    /\ Waiting("data") \/ (left["data"] > 0 /\ buffer["data"] = <<>>)
    /\ want' = [want EXCEPT !["data"] = GivenUp]
    /\ UNCHANGED <<scenario, ends, todo, sent, wire, fin, buffer, left, got, flying>>

\* run_datagrams: an error of decode, or of the subscription it is for, ends the
\* session.
RecvDatagram(d) ==
    LET r == DecodeDatagram(d)
    IN  /\ d \in flying /\ status["client"] = "running"
        /\ flying' = flying \ {d}
        /\ IF r.res = "ok"
           THEN /\ got' = [got EXCEPT !["datagrams"] = Append(@, r.value)]
                /\ UNCHANGED status \/ Ends("client", "datagram")
           ELSE Ends("client", r.res) /\ got' = got
        /\ UNCHANGED <<scenario, path, version, todo, sent, wire, fin, buffer, want, left>>
LoseDatagram(d) ==
    /\ d \in flying
    /\ flying' = flying \ {d}
    /\ UNCHANGED <<scenario, ends, streams>>

-----------------------------------------------------------------------------
\* The application drops the session; an end whose peer is gone gets an error from
\* its connection, with bytes perhaps still unread.
Drop(e) ==
    /\ status[e] = "running" /\ Ends(e, "dropped")
    /\ UNCHANGED <<scenario, path, version, streams, flying>>
PeerGone(e) ==
    /\ Alive(e) /\ status[e] # "new" /\ ~Alive(Peer(e)) /\ Ends(e, "transport")
    /\ UNCHANGED <<scenario, path, version, streams, flying>>

Next ==
    \/ Connect
    \/ \E s \in Control : SendMessage(s)
    \/ ServeWhole \/ ServeCut \/ ServeDone \/ SendDatagram
    \/ \E s \in Control \cup {"data"} : Decode(s) \/ \E n \in ReadSizes : ReadBuf(s, n)
    \/ \E n \in ReadSizes : ReadChunk("data", n)
    \/ EndOfStream
    \/ \E d \in flying : RecvDatagram(d) \/ LoseDatagram(d)
    \/ \E e \in Sides : Drop(e) \/ PeerGone(e)

\* The tasks of a session are polled and its connection delivers.  Nothing obliges
\* an application to drop it, or a subgroup to fail.  Two weak fairness conditions are
\* spelled out, with the guards that enable the actions: TLC decodes nothing for them.
Fairness ==
    /\ ([]<>(status["client"] # "new") \/ []<><<Connect>>_vars)
    /\ ([]<>~CanServe("data") \/ []<><<ServeWhole>>_vars)
    /\ ([]<>~CanServe("datagrams") \/ []<><<SendDatagram>>_vars)
    /\ WF_vars(ServeDone)
    /\ \A s \in Control : ([]<>~CanSend(s) \/ []<><<SendMessage(s)>>_vars)
    /\ \A s \in Control \cup {"data"} :
        ([]<>~CanDecode(s) \/ []<><<Decode(s)>>_vars) /\ WF_vars(\E n \in ReadSizes : ReadBuf(s, n))
    /\ WF_vars(\E n \in ReadSizes : ReadChunk("data", n)) /\ WF_vars(EndOfStream)
    /\ \A e \in Sides : WF_vars(PeerGone(e))

Spec == Init /\ [][Next]_vars
FairSpec == Spec /\ Fairness

-----------------------------------------------------------------------------
\* However its bytes were cut into reads, a receiver has decoded the items that were
\* sent on the stream, each as it was sent, in their order; the last one perhaps with
\* the first part of its payload only.  A datagram may be lost or overtaken.
SameItem(mine, theirs) ==
    \/ mine = theirs
    \/ /\ "payload" \in DOMAIN mine /\ IsPrefix(mine.payload, theirs.payload)
       /\ [mine EXCEPT !.payload = theirs.payload] = theirs
DeliveredAsSent ==
    /\ \A s \in Streams \ {"datagrams"} :
        /\ Len(got[s]) <= Len(sent[s])
        /\ \A i \in DOMAIN got[s] :
                IF i < Len(got[s]) THEN got[s][i] = sent[s][i]
                ELSE SameItem(got[s][i], sent[s][i])
    /\ Range(got["datagrams"]) \subseteq Range(sent["datagrams"])

\* A session is the delivery of items that Delivery specifies: what the encoders, the
\* readers with their buffers and the setup do with bytes is either nothing to those who
\* use the session, or one of its steps.
Promised == INSTANCE Delivery
IsDelivery == Promised!Spec

\* While it waits for more of an item, a receiver asks for no byte behind the item:
\* the sender may send nothing more until it has the answer.
NeverWaitsPastTheItem ==
    \A s \in Streams : Waiting(s) /\ Len(got[s]) < Len(sent[s]) =>
        LET item == sent[s][Len(got[s]) + 1]
            payload == IF "payload" \in DOMAIN item THEN Len(item.payload) ELSE 0
        IN  want[s] <= Len(EncodeItem(s, item).bytes) - payload

\* Once connect has returned, both ends have the version that the server chose, one
\* that the client offered, and the same path, whatever carried it.
SetupAgrees ==
    status["client"] = "running" =>
        /\ version["client"] = version["server"]
        /\ version["client"] \in Range(scenario.versions)
        /\ path["client"] = path["server"]

\* An end that encodes and an end that decodes never disagree: no session ends for a
\* message that the peer encoded and this end cannot decode.
EndsWithCause ==
    \A e \in Sides : Alive(e) \/ status[e] \in
        {"dropped", "transport", "InvalidPath", "version", "unimplemented", "duplicate",
         "datagram", "panic", "MsgBoundsExceeded"}

\* What was sent on a control stream is handled, and a unidirectional stream comes to
\* its end, unless one of the ends is gone.
EventuallyHandled ==
    LET gone == \E e \in Sides : ~Alive(e)
    IN  /\ \A s \in Control : Len(got[s]) < Len(sent[s]) ~> gone \/ Len(got[s]) = Len(sent[s])
        /\ sent["data"] # <<>> ~> gone \/ want["data"] = GivenUp
=============================================================================
