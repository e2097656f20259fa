# TLA+ verification of moq-rs

This directory holds TLA+ models of the core of moq-rs (Media over QUIC: the
transport library `moq-transport` and the relay `moq-relay-ietf`), the
configurations with which TLC checks them on small instances, and theorems about
them that TLAPS proves for every value of the constants. Every definition is
translated from the source; `PROJECT.json` maps each one to the lines it stands
for, and lists the hazards of the code at the line where they bite.

Paths below are relative to `src/`.

## 1. The system

A *publisher* announces namespaces over a session and answers subscriptions to
their tracks; a *subscriber* asks for tracks and reads them. A *relay* is both: it
accepts announcements from its clients (a `Consumer` for each session), routes
subscriptions to them (a `Producer` for each session), and fetches what other
relays have (`RemoteManager`), finding them through a `Coordinator`. Inside one
process the parts share tracks through the *serve* objects, all of which are built
on one watched cell (`watch::State`) and one queue on top of it (`watch::Queue`).

| Component | State it keeps | Operations | Status |
|---|---|---|---|
| Watched state and queue (`moq-transport/src/watch`) | the value, its epoch, the registered wakers, the drop flag of each side; the deque with an optional oneshot sender for each entry | `split`, `lock_mut`, `into_mut`, `modified`, poll and drop of its future, drop of a handle; `push`, `push_and_wait_until_popped`, `pop`, `close` | modelled |
| Tracks of a broadcast (`serve/tracks.rs`, `serve/track.rs`) | the cache by full track name; the request queue; for each track its mode, whether it is closed, whether its writer is left | `subscribe`, `forward_upstream`, `next`, `create`, `remove`, the modes of `TrackWriter`, `close`, all the drops | partly |
| Announcements of a session (`session/announce.rs`, `announced.rs`, parts of `publisher.rs`, `subscriber.rs`) | at each end a map from namespaces to the shared state of a handle; `ok` and `closed` in that state | `announce`; PUBLISH_NAMESPACE and its OK, ERROR, DONE, CANCEL; the drops of `Announce` and `Announced` | partly |
| Subscriptions of a session (`session/subscribe.rs`, `subscribed.rs`, the rest of `publisher.rs`, `subscriber.rs`) | the map of subscriptions by id, the map of aliases, `ok`, `closed` at each end; a task for each data stream | `subscribe`, `subscribe_open`; SUBSCRIBE and its OK, ERROR, UNSUBSCRIBE, PUBLISH_DONE; `serve_subgroups`; `recv_stream`; the drops | partly |
| Session setup and tasks (`session/mod.rs`, `reader.rs`, `writer.rs`) | connection path and version; the tasks of `run`; the buffer of each reader | negotiation of version and path; `run_send`, `run_recv`, `run_streams`, `run_datagrams`; decoding from reads of any size | partly |
| Serve objects (`serve/subgroup.rs`, `stream.rs`, `datagram.rs`) | the latest subgroup, group or datagram with its epoch; objects and their chunks; sizes and ids | create, append, write, close, next, read, all the drops | partly: without extension headers of objects, and without `object.rs`, which no mode uses |
| Relay routing (`moq-relay-ietf/src/local.rs`, `consumer.rs`, `producer.rs`, `session.rs`, `relay.rs`) | the registry of namespaces by scope; how far each `serve` is | register, unregister on drop, `retrieve` by longest prefix, `serve`, `serve_subscribe`, rejection without the permission | partly |
| Remote connections (`remote.rs`) | a slot for each connection, a slot for each upstream track, each with a lock held over awaits | get or connect, subscribe, clean up, shut down | modelled |
| Coordinators (`file_coordinator.rs`, `api_coordinator.rs`, `moq-api/src`) | namespaces to origins, in a locked file or in Redis with an expiry | register, refresh, expire, look up, unregister | partly |
| Wire encoding (`coding`, `message`, `data`, `setup`) | none | encode, decode, negotiate | partly |
| Event log, unused utilities, QUIC and TLS endpoints, applications | | | out of scope: see section 8 |

How they interact:

* **Shared state.** Both ends of a handle (`Announce`/`AnnounceRecv`,
  `Subscribe`/`SubscribeRecv`, ...) are the two sides of a split `State`: a change
  of one side wakes the futures of the other, and the drop of the last handle of a
  side closes it for the other.
* **Queues.** `TracksRequest` pops what `TracksReader::subscribe` pushes; an
  `Announce` pops the subscriptions that the `Publisher` routes to it; the
  `Subscriber` pops announcements; `run_send` pops the control messages of both
  halves, and a caller may wait until its message is popped.
* **Messages.** One control stream, in order; data streams and datagrams, in any
  order with it and with each other.
* **Drops.** Most of the protocol's endings are `Drop` implementations: dropping an
  `Announce` sends PUBLISH_NAMESPACE_DONE, dropping an `Announced` sends
  PUBLISH_NAMESPACE_ERROR or CANCEL, dropping a `Subscribe` sends UNSUBSCRIBE, and dropping a
  `Subscribed` sends SUBSCRIBE_ERROR or PUBLISH_DONE. A drop takes its locks one
  after the other, and is not atomic.
* **Bytes.** A reader decodes an item from its buffer, and reads more only when
  decoding says how many bytes are missing; the peer may send no more until it is
  answered.
* **Relays.** A `Consumer` registers the tracks of an announcement locally, then with
  the coordinator, then answers; a `Producer` resolves a subscription in the same
  order. Relays share a file or a server, and nothing else.
* **Lock order**, as read from the code: `announces` before `subscribeds`;
  `subscribes` before the alias map; the state of `Tracks` before that of a track or
  of the queue; a remote slot before the map of slots.

What is hard, and what makes each component correct:

* *Queue.* `pop` looks at the deque in one critical section, makes its future in a
  second one and registers its waker in a third. No notification may be lost, a
  closed queue must wake its sleepers, and a waiter must learn the truth about
  its own entry.
* *Tracks.* Subscribers look up, push and cache in three steps while the publisher
  pops, serves, rejects, abandons and leaves. Two live requests for one name must
  not exist; nothing alive may be evicted; and nobody may wait for
  a request that no one will pop.
* *Announcements.* Endings cross on the wire, and DONE and CANCEL name a namespace
  rather than an announcement. An answer must reach its own announcement, an entry
  must not outlive it, and neither end may wait for ever.
* *Subscriptions.* Data may overtake the answer that explains it; the entry is made
  after its request was sent; an UNSUBSCRIBE arrives at any stage of a
  subscription. The map of aliases must follow the map of subscriptions, a stream
  must find its alias, and every ending must be heard.
* *Remote connections.* Locks are held over awaits, and their holders may be dropped
  there; slots are removed from a map while others wait for them; a connection may be
  lost, or shut down by somebody else, at any moment. There must be one connection and
  one subscription of a track, nobody may lose sight of a live connection, and whoever
  waits or reads must learn of its end.
* *Session and wire.* Two encoders of one format, at both ends of a connection, must
  agree in every field; a decoder must not wait for bytes behind its item; whatever
  ends a session must have a cause, and a message must be handled.
* *Serve objects.* A writer of the track, one for each subgroup, and readers that join
  late, skip, lag and leave, with an end that may come at any of four levels: nothing
  may be skipped within a subgroup, cut short without an error, or overtaken by the
  end of its track.
* *Relay and coordinators.* Registrations that come while an older one is being
  dropped, in two registries; requests that are lost after they took effect; refreshes
  after the expiry; relays that die. Who is named for a namespace must provide it, and
  what nobody provides must become free.

## 2. Modules

| Module | Models | Kind |
|---|---|---|
| `Watch` | the cell of `watch/state.rs`: epoch, wakers, closing of a side | operators over the instantiating module's variables |
| `ClosableFifo` | what a queue promises | abstract specification |
| `Queue` | `watch/queue.rs` at the grain of its critical sections | component; `INSTANCE`s `Watch`; refines `ClosableFifo` |
| `Tracks` | `serve/tracks.rs` with the life of a track from `serve/track.rs` | component |
| `Announce` | both ends of announcing, over two FIFOs | component |
| `Subscription` | both ends of subscribing, over two FIFOs and data streams | component |
| `Remote` | `remote.rs`: connections to another relay and subscriptions over them | component |
| `Serve` | `serve/subgroup.rs`, `stream.rs`, `datagram.rs`: writers, readers and their tasks | component |
| `Coordinator` | the registrations of `FileCoordinator`, of `ApiCoordinator` and of the server behind it | component, used by `Routing` |
| `Routing` | `Consumer`, `Locals`, `Producer` of several relays over a coordinator | composition; extends `Coordinator` |
| `Coding` | `coding/`: varints, strings, tuples, locations, key-value pairs | pure operators |
| `Fields` | the kinds of fields, and encoding and decoding of a list of them | pure operators; extends `Coding` |
| `Messages` | `message/`: the fields of every control message, the frame | pure operators; extends `Fields` |
| `Setup` | `setup/`, and the paths and versions of `session/mod.rs` | pure operators; extends `Messages` |
| `DataPlane` | `data/`: stream headers, subgroup objects, datagrams | pure operators; extends `Fields` |
| `Delivery` | what a session promises: items come out as they went in, and nobody sends before it may | abstract specification |
| `Session` | both ends of a connection, byte for byte | composition; extends `Setup` and `DataPlane`; refines `Delivery` |
| `MC*` | the instances for TLC | model checking |
| `*Proofs` | theorems and their proofs | proofs |

The state of each module is that of the code, under the code's names where TLA+
allows: `announces`, `announced`, `subscribes`, `subscribed` are the maps of
`Publisher` and `Subscriber`; `ok`, `closed` the fields of the shared states;
`cache` is `TracksState.tracks`; `deque`, `epoch`, `wakers`, `dropped` the fields of
`StateInner` and `StateDrop`. A *location* variable (`pc`, `sub`, `home`,
`announce`, `handle`, `subscribe`, `stream`) says where a task or a handle is between
two critical sections. A *history* variable (`accepted` and `fate` in `Queue`,
`displaced` in `Tracks`, `early` in `Subscription`) is read by properties and by
nothing in the guards but a bound.

The grain is one critical section of a mutex, one poll of a future, one drop of a
handle, or one message taken from a FIFO; what the code does under one lock, or
between two awaits without touching shared state, is one step.

### Queue

`Push`, `PushAndWait`, `WaitReturns`, `CancelWait` are the pushing side. A pop is
`StartPop`, then `TakeFront` or `TakeNothing` (first lock), `AwaitChange` (second
lock), `Poll` (third); `CancelPop` is a `select!` that drops it. `CloseDrain` and
`CloseRelease` are the two halves of `close`, between which entries may still be
accepted; `DropHandle` is the drop of a handle, and the last one of a side closes
the queue. `Layouts` covers both uses of the type: a queue that was split (pushers
on one side, poppers on the other) and one whose clones are all on one side.

### Tracks

`ShareCached`, `Evict`, `PushRequest`, `InsertTrack` are the branches of
`TracksReader::subscribe` under the lock of the broadcast (`holder`); `ModeReturns` is
the wait of a reader for the mode of its track; `DropReaderState` and
`DropReaderQueue` are the fields of a dropped reader, in order. The publisher's `next` is
the pop of `Queue`, with what of it matters here (`popping`): `NextRequest` takes the first
request, `FindNone` finds none and releases the lock, `AwaitRequest` takes it again and goes
to sleep, whatever was pushed meanwhile; a push or a side that goes wakes it, and
`CancelNext` drops it in a `select!`. `ServeTrack`, `RejectTrack`, `AbandonTrack`, `EndMode`
are what the publisher does with a request; `CloseQueue`,
`ReleaseQueue`, `ClosePending`, `FinishDrop` the four steps of the drop of
`TracksRequest`; `CreateTrack`, `RemoveTrack`, `DropWriter` the `TracksWriter`. A mode
here is *unset*, *open* or *closed*: what it holds is in `Serve`.

### Announce

`StartAnnounce` inserts the entry and queues the message; `AnnounceReturns`,
`DropAnnounce`, `ForgetAnnounce`, `SendDone` are the end of `announce` and the critical
sections of `Announce::drop`. `RecvPublish` and `RecvDone` are the subscriber's
handlers, `RecvOk`, `RecvError`, `RecvCancel` the publisher's; `Accept`, `Reject`,
`Cancel`, `SendCancel` are the methods of `Announced` and its drop. A message
carries the announcement it is about, so that properties can name it; the handlers
of DONE and CANCEL read no more of it than its namespace, as the code does.

### Subscription

`Subscribe`, `InsertSubscribe`, `SubscribeOpens`, `Unsubscribe`, `ForgetSubscribe` are a
call of `subscribe_open` or `subscribe` and the drop of the `Subscribe`: the request is
queued before its entry exists, as in the code. `RecvSubscribeOk` and `RecvEnd` are
the subscriber's handlers, `RecvSubscribe` and `RecvUnsubscribe` the publisher's.
`Serve`, `Acknowledged`, `ModeReturns`, `OpenStream`, `FinishSending`, `EndServing`,
`ServeReturns`, `DropSubscribed` are `Subscribed::serve` with `serve_subgroups` and the
drop, which a cancelled task may reach from any of them. A track with datagrams is served
(*datagrams*) until the track or the task ends, since `serve_datagrams` does not look at
`closed`; its datagrams are in `Session` and `Serve`. The mode of a deprecated stream
panics, which drops the `Subscribed` with its task. `FindAlias`,
`AliasTimeout`, `CreateWriter`, `RefuseWriter`, `FinishStream`, `BreakStream`, `FailStream`
are `recv_stream`: its wait for the alias, its second lookup after an error, and the
end of the subscription that may follow.

### Remote

`Start`, `GetSlot`, `LockSlot`, `Examine`, `Connect`, `ConnectFails`, `Forget` are
`subscribe` and `get_or_connect`; `Cut` and `Clear` the two halves of
`Remote::shutdown`, wherever it is called; `CheckConnected`, `GetEntry`, `LockEntry`,
`ShareReader`, `AskUpstream`, `Opened`, `OpenFails`, `ForgetTrack` are
`Remote::subscribe`; `FindRemote` and `TakeRemote` are `remove_if_same_remote`, which
follows every error of it. `Cancel` is the drop of a call at an await. `SessionEnds`,
`ClearRemote`, `ForgetRemote` are the task of a connection, `ClearTrack` and
`EndCleanup` the task of a subscription, `Stop` and `ShutDown` the end of the relay.
`Answer` and `End` are what is heard here of a subscription: how the answer or the end of
it arrives, or is lost on its way, is in `Subscription`. Where a task is (`pc`) says which lock it holds: `HoldsSlot` and
`HoldsEntry`, so that a dropped call releases what it held.

A thing the model makes plain and no property forbids: any error of `Remote::subscribe`,
a refused track among them, has the whole connection shut down
(`remote.rs:86-88`), and with it the subscriptions of everybody else.

### Serve

An `entry` is what became the latest of the track: a subgroup, a group of a stream, or
a datagram; readers that did not see it in time never do. `CreateSubgroup`,
`CreateStreamGroup`, `WriteDatagram`, the two appends and the three ends of a mode are
the writer of the track; `CreateObject`, `WriteSubgroupChunk`, `EndSubgroupObject`,
`EndSubgroup` and their counterparts for streams the writer of an entry, which
writes one object at a time. `Join`, `TakeLatest`, `HearEnd`, `Leave` are a reader of
the mode; `NextObject`, `NextStreamObject`, `ReadChunk`, `HearObjectEnd`,
`HearSubgroupEnd`, `Abandon` its task on an entry, as `serve_subgroups` spawns one for
each. Which handles are left (`TrackRead`, `SubgroupRead`) decides, as in the code,
whether a writer can still write. Chunks are counted, their bytes are not.

`NextStreamObject` is as the code is, with the index advanced before it is used:
the reader of a group of a stream skips its first object, and panics at its end, with
the lock held (see *Known disagreements* below).

### Coordinator and Routing

A registration is a call (`Register`), the writes it makes (`WriteFile`; `GetOrigin` and
`SetOrigin` of the server, two requests to Redis), its return or its loss
(`RegisterReturns`, `RegisterFails`, `LoseCall`), a handle, and its release
(`DropHandle`; `DeleteOrigin` of the task that the drop spawns). The caller may go while
the call is under way (`AbandonRegister`), and the call is done all the same.
`PatchGet`, `PatchExpire`, `PatchFails` are a refresh, `Tick` and `Expire` the time to
live in Redis. A write of the file may break off after the file was truncated
(`WriteBreaks`).

`ServeAnnounce`, `AcceptAnnounce`, `RegistrationFails`, `EndAnnounce`,
`ReleaseRegistration`, `Unlist`, `FinishAnnounce` are `Consumer::serve` with the drops of
its locals in reverse order; `RejectAnnounce` is a session without the permission.
`Ask`, `Retrieve`, `SubscribeLocal`, `AskRemote`, `NotFound`, `SubscribeFails`, `Leave` are
`Producer::serve_subscribe`, first at the relay that was asked and then at each relay it
is passed to; `path` is the entries of `RemoteManager`s that it holds locked meanwhile.
`Crash` ends a relay with everything in its memory; what it had registered stays, a request
it has sent to the server may still be answered, and a relay that was asking it for a track
hears of that or asks on.
Scopes are part of a namespace here: each key of a registry is a scope and a namespace.

### Coding, Fields, Messages, Setup, DataPlane

Bytes are numbers below 256. An encoder gives bytes or an error; a decoder at a
position of a buffer gives a value and the position behind it, an error, or `More(n)`, the
code's `DecodeError::More(n)`. A message is a record. What its `Encode` writes and what
its `Decode` reads are two separate lists of fields, each from its own function of the
code, so that a disagreement of the two shows: `FieldsWritten` and `FieldsRead` in
`Messages`. A field that is there only for some values of another one (a filter, a fetch
type, content that exists, the type of a datagram) says so: `When`. Everything that
repeats is a recursive function over the number of elements, which a proof can unfold
one element at a time, and a varint is made of words of 16 bits. `HasType` and `IsRecord` are
the types of the source, which the scenarios are assumed to have (`IsScenario`).
`NormalizeConnectionPath` and `LargestCommon` are the negotiation of `session/mod.rs`.

One thing of the code that the types do not say: `KeyValuePair` encodes a value of bytes of
any length (`coding/kvp.rs`), but decodes no length above `u16::MAX`. In a control message
the limit on the frame excludes longer ones, which is a lemma (`PairsCarried` and what
follows it in `SessionProofs`); for the extension headers of objects and datagrams
nothing does, and `Carried` is part of `IsScenario`.

### Session

The control streams of both directions, one data stream and the datagrams of the server,
as bytes. `Connect`, `Accept` and `Connected` (in `Decode`) are the setup; `SendMessage`,
`ServeObject`, `ServeDone`, `SendDatagram` the writers; `ReadBuf` one read of any size
allowed by `ReadSizes`, `Decode` one attempt to decode what is in the buffer, `ReadChunk`
one chunk of a payload; `RecvMessage`, `RecvStream`, `RecvDatagram` what is done with an
item, up to its handler, which is in `Announce` and `Subscription`. `status` says why a
session ended; what cannot be encoded ends a setup, or the stream it was meant for. `Drop`
and `PeerGone` end it from outside.

`Delivery` is what remains of that for those who use a session: on each stream items go in
(`Send`) and come out in order (`TakeNext`, and `TakeMore` of the payload of an object); a
datagram that comes out went in (`TakeAny`). It has no bytes and no ends, but it says when
an end may send: the client one item, and more when it has the first one of the server; the
server when it has the first one of the client.

### How the parts fit together

`Subscription` takes its data streams as units: `Session` has their bytes, `Serve` their
objects. `Routing` takes an announcement and a subscription as served or not: `Announce`
and `Subscription` have their messages, `Tracks` the requests, and `Remote` the locks
and connections of one relay's way to another. Each of these seams is a call of the
code (`serve_subgroups`, `Tracks::subscribe`, `RemoteManager::subscribe`), and a model on one
side allows whatever order of outcomes the model of the other side produces.

## 3. What is checked

`NAME (T)` is an action property or a liveness property.

| Run | Properties | What it shows |
|---|---|---|
| `queue` | `NoMissedWakeup`, `AckMeansPopped`, `IsClosableFifo` (T), `ClosedPopReturns` (T) | `StateChanged` loses no notification; a waiter is told what happened to its own entry; the queue implements a closable FIFO; closing it ends every pop |
| `tracks` | `NoDuplicateRequest`, `OnlyStaleIsEvicted` (T), `RequestIsAnswered` (T) | requests are deduplicated, live tracks stay, a queued request is popped or answered when the publisher goes, unless the pop overlooked it (see *Known disagreements*) |
| `tracks_orphan` | `DropLeavesNoRequest`, violated | see finding 1 |
| `announce` | `AnswerIsOwn`, `OnlyRejectedLinger`, `DuplicateHasACause` (T), `AnnounceIsAnswered` (T), `UnannounceIsHeard` (T) | answers are not confused over three announcements of one namespace, and the map of the subscriber keeps nothing but rejected ones; every way a session can end as a duplicate is named; no end waits for an announcement for ever, unless a message or the `Announced` stays in its queue |
| `subscription` | `AliasesAreLive`, `RejectedServesNothing`, `AnswerPrecedesStreams`, `EndIsHeard` (T), `UnsubscribeEndsServing` (T) | aliases follow subscriptions, a rejection means no data, a stream can find its alias; an ending that arrives reaches whoever waits for it, at any stage; an unsubscribe ends what is served, but for the waits and the datagrams that the property names |
| `subscription_early_ok` | `AcknowledgedOpens` (T), violated | see finding 2 |
| `remote` | `OneConnection`, `OneSubscription`, `ShutdownLeavesNone`, `CallReturns` (T), `ShutdownIsHeard` (T) | competing calls make one connection, and over it one subscription of a track; none is left behind when the relay stops; a call returns, unless the upstream's answer is never heard, which holds it and those for the same track; a connection that is shut down ends its subscriptions |
| `session` | `DeliveredAsSent`, `NeverWaitsPastTheItem`, `SetupAgrees`, `EndsWithCause`, `IsDelivery` (T), `EventuallyHandled` (T) | every kind of message, with the variants of its fields, is decoded as it was encoded, wherever its bytes are cut; no decoder asks for a byte behind its item; both ends agree on version and path; a session ends for a cause that is listed; to those who use it, it implements `Delivery` |
| `serve` | `NoGaps`, `CompleteOrError`, `EndComesLast`, `ForwardOnly` (T), `EndIsHeard` (T) | what a reader takes has no gaps, is complete or an error, goes forward only, and comes to an end |
| `routing` | `EntryIsServed`, `OkMeansRouted`, `NoTakeover` (T), `OrphansExpire` (T), `AnnounceAnswered` (T) | who a coordinator names for a namespace provides it; a publisher with its OK is who local subscribers are routed to; no relay takes a namespace over in the api; what is orphaned there expires; announcements are answered |
| `resolve` | `NotFoundIsHonest` | a subscriber is told *not found* only if no publisher of its relay covered the namespace all the while |
| `routing_held` | `RegisteredWhileHeld`, violated | see finding 3 |

Every property of a passing run has a mutant in `PROJECT.json`: a plausible bug, put into
one definition of the model, under which TLC finds the property violated. The
definitions marked *Variant for mutation* are these bugs; nothing else uses them.

### Findings

1. **A request may outlive the publisher.** `TracksRequest::drop`
   (`serve/tracks.rs:139`) closes the tracks it drained, but a subscriber may push
   between the drain and the release of its handle; that `TrackWriter` stays in the
   queue, and its readers wait until every `TracksReader` has gone.
2. **An answer may come before its entry.** `Subscribe::new` queues SUBSCRIBE before
   `subscribe_open` inserts the entry (`session/subscriber.rs:136`); a SUBSCRIBE_OK that
   arrives in between is dropped, and the call waits until the subscription ends, with the
   lock of the track's entry held in a relay (*A call to an upstream may hang*, below).
3. **A handle may be held without its registration.** `FileCoordinator` lets a second relay
   overwrite the entry of the first (`file_coordinator.rs:169-173`), and the second, when it
   goes, removes the entry (`file_coordinator.rs:74-75`): the first still holds its handle,
   and `coordinator.rs:454` says that the namespace remains registered as long as it is
   held. The property leaves out writes of the file that failed, which lose entries too.

### Known disagreements that no run states

The models contain these as the code has them; no property forbids them.

* *A pop may sleep beside a queued item.* `Queue::pop` releases its lock between finding
  the deque empty and making its future (`watch/queue.rs:26-45`). An item pushed in between
  is older than the epoch the future compares with, so the pop sleeps until the next
  change of the queue; `ClosedPopReturns` says that closing ends it. The pop of `Tracks` does
  the same, and `RequestIsAnswered` names the exception (`Overlooked`); so may the pops of
  `run_send` and of the application, for which `Announce`, `Subscription` and `Remote` assume
  no fairness.
* *An UNSUBSCRIBE does not end datagrams.* `serve_datagrams` never looks at `closed`
  (`session/subscribed.rs:125` says so in a TODO): one of the exceptions in
  `UnsubscribeEndsServing`.
* *A cancel may close a later announcement.* PUBLISH_NAMESPACE_CANCEL carries the
  namespace only, so one that crosses an unannounce and a new announcement closes the new
  one (`session/publisher.rs:311`), which had not been accepted.
* *A call to an upstream may hang.* `subscribe_open` returns when the answer is heard, the
  subscription ends or the connection is cancelled. The answer is not heard if it came before
  its entry (finding 2), if it or the request stays beside a sleeping pop of `run_send`, or if
  the session ended by itself (`remote.rs:303`), which ends no subscription. The call then
  keeps the lock of the entry (`remote.rs:400`), and the calls for the same track wait with
  it: `Hung`, the exception in `CallReturns`.
* *The reader of a stream's group panics.* `StreamGroupReader::next` advances its index
  before it uses it (`serve/stream.rs:331`), so the first object is skipped and the end of
  the group is an index out of bounds; and every object of a group has id 0
  (`stream.rs:268`). Only a publishing application can choose that mode: what comes over
  a session is subgroups or datagrams.
* *A subgroup that was cut off looks complete.* The writer that is dropped leaves no
  error (`serve/subgroup.rs:424`), and the receiver of a data stream drops it when the stream
  breaks, although the header of the file (line 12) says that a stream whose writers are dropped is
  closed with `ServeError::Closed`. `CompleteOrError` speaks of objects, which do carry an error, and of what was written.
* *A lookup in the file may match a longer name.* The comparison zips the two names
  (`file_coordinator.rs:251`), so that a registered namespace below the one asked for is
  found, although the comment at 245 says "longest matching prefix". `Found` in `Coordinator` has both cases.
* *A subscription may wait for itself.* Nothing keeps a lookup from naming the relay that
  asks, or one that is already asking it; the subscription comes back to the entry of
  `RemoteManager` that it holds locked (`remote.rs:92`): `AskRemote` reaches *stuck*, from
  which only a lost connection frees it.
* *An expired registration is not made again.* Its refresh fails with *not found* for
  ever (`api_coordinator.rs:192`), while the relay believes that it is registered.
* *One datagram ends a session.* A datagram that its subscription refuses, or that does not
  parse, ends `run_datagrams`, and with it the session (`session/mod.rs:891`): one of the
  causes in `EndsWithCause`.

## 4. Bounds, and why they are enough

| Run | Instance | Reason |
|---|---|---|
| `queue` | 2 pushers, 2 poppers, 3 items, split and unsplit | two poppers compete for one item and one notification, two pushers interleave in a drain; three items tell order from any two-item coincidence |
| `tracks` | 1 name, 2 subscribers, 2 tracks | two subscribers race for one name, the second track replaces one that ended; names share nothing but the queue, and with one name every pair of tracks competes |
| `tracks_orphan` | as above, 3 tracks | the shortest behaviour that reaches it |
| `announce` | 1 namespace, 3 announcements | an ending of the first that meets the second, and a third that meets what is left of that; namespaces do not interact; the safety properties are proved for any number |
| `subscription` | 1 subscription, 2 streams | two streams of one subscription race with its end; that two subscriptions are not confused is proved for any number of them |
| `subscription_early_ok` | 1 subscription, 1 stream | the shortest behaviour that reaches it |
| `remote` | 2 calls, 1 track, 2 connections and subscriptions, 4 slots and entries | one call holds what the other waits for while a task takes it out of the map; slots and entries are enough for every retry, so no bound stops a call; the safety properties are proved for any number of calls and tracks |
| `session` | one scenario at a time: each kind of message with each variant of its fields; messages over a limit; two messages after each other in one direction and one in the other; a subgroup of 3 objects; a FETCH stream; 2 datagrams; 9 paths over both transports; 3 offers of versions | `VarIntMax` is 2^31-1, since TLC's integers end there (larger varints of 8 bytes are not tried); `MaxFields` 3, `MaxValueSize`, `MaxReason`, `MaxUri` 4, `MaxPath` 8 and `U16Max` 48 stand for limits of the code that a message of the run exceeds; values sit on both sides of each length of a varint; reads return 1 or 100 bytes, so that an item is cut at every place, or comes whole with what follows it |
| `serve` | 1 reader, 2 positions out of order, objects of size 1 in chunks of 1, 2 entries, 2 objects, all three modes | the second entry precedes, repeats or follows the first, while a reader still reads it; an object ends with and without its byte; readers share only what the writers write, and the handles they hold, and the safety properties are proved for any number |
| `routing` | 2 relays, 2 announcements, 3 placements (one namespace at one relay, at two, two nested at one), both coordinators | the second registration meets every stage of the first; time to live is 2 halves of the 600 s, the interval of the refresh |
| `resolve` | as `routing`, 1 subscription, which asks for the longer of two nested namespaces | the announcements come and go between each of its steps; without liveness, since it has a million states |
| `routing_held` | as `routing`, with the file only | the shortest behaviour that reaches it |

`MaxItems`, `MaxTracks`, `MaxAnnounces`, `MaxSubscribes`, `MaxStreams`, `MaxConns`,
`MaxSlots`, `MaxEntries`, `MaxSubs`, `MaxObjects` bound what is made in a behaviour, and
`MaxFieldsRead` the fields of a message; nothing else is bounded. With everything made
and ended, no step is left, so deadlock is not checked: that nobody is left *waiting* is
what the liveness properties say.

## 5. Fairness, and why the code justifies it

* `Queue`: the executor polls a task that is not asleep (its pop steps, its closing,
  its return from a oneshot that has resolved). Nobody has to call `pop` or `push`.
* `Tracks`: a critical section and a drop run to their end; the publisher is in `next` until it
  goes, and its pop is polled when it is not asleep, as in `Queue`; a reader whose wait is over is polled. Nobody has to
  subscribe, to serve what was popped, or to leave.
* `Announce`: calls and drops run to their end, and the application drops what it learns has
  ended, as `Consumer::serve` of the relay does. No message has to go out or arrive and no
  `Announced` to be popped, since a pop may sleep beside it (see *Known disagreements*):
  the two liveness properties have a disjunct for each. Nobody has to announce or
  unannounce. An announcement has a bounded number of steps, so one weak fairness
  condition over all of them is the same as one for each.
* `Subscription`: a call or task that can go on does. No message has to go out or arrive, no
  `Subscribed` to be popped (`session/publisher.rs:341`), no track to get a mode or to end, no
  subgroup to be finished: `EndIsHeard` and `UnsubscribeEndsServing` have a disjunct for
  each wait that may then last for ever.

* `Remote`: a task that can go on does, and a session that is cancelled ends. Nobody has to
  call, to be dropped, to lose a connection, or to answer or end a subscription. tokio's mutex is fair, and all these
  steps are bounded in number, so one weak fairness condition over them is enough.

* `Session`: the tasks of a session are polled, its connection delivers what is on the
  control and data streams, and an end whose peer is gone learns of it. Datagrams may be
  lost. What `EventuallyHandled` speaks of is encoded already, so no pop of `run_send` stands
  between. Two conditions are written out as `[]<>~enabled \/ []<><<A>>_vars`, with the guards
  that enable the action, which is what weak fairness means and saves TLC from decoding
  to find out.
* `Serve`: a reader, and its task on each entry, that has something to take or to hear is
  polled. Nobody has to join, to leave, to write or to let go of a writer: `EndIsHeard`
  speaks of what happens once a writer is gone.
* `Routing`: a `Consumer` whose announcement was queued goes on, and so does what it started
  with the coordinator: a request is answered or lost, a refresh and a delete are
  tried, time passes and Redis expires keys. That an `Announced` in the queue is popped is
  assumed of every `Consumer` here: one beside which the pop sleeps is popped with the next.
  Nobody has to announce, to end an
  announcement or to ask; no relay has to die.

In `Queue`, `Tracks`, `Announce` and `Subscription` losing the connection needs no action: a behaviour of `Spec` may stop delivering at
any point, and the safety properties hold at each of its states.

## 6. What is proved

All of it for any sets of tasks, names and namespaces, and any bounds. The
assumptions on constants are the named `ASSUME`s of the component modules: `NoWaiter`
and `NoOne` are not tasks, `Relay` is not a call, `NoTrack` is not a track, layouts give
each task a side, `NoRelay` and `NoAnn` are no relay and no announcement, every announcement has a home, every subscription asks a relay, the modes
are among the three, sizes are naturals, chunks are not empty, bounds are naturals. Of the
session: `CodingAssumption` and `SetupAssumption` (the limits of the code are naturals, a
u16 has 16 bits, a varint at most 62), `ScenarioAssumption` (what an application
asks for has the types of the source, see *Coding* above) and `ReadSizesAssumption` (a read
returns at least a byte). The actual limits satisfy them, as do the small ones of the run.

| Module | Theorems | Argument |
|---|---|---|
| `QueueProofs` | `TypeCorrect`, `NoNotificationIsMissed`, `AcknowledgementIsTrue`, `QueueImplementsFifo` | see below |
| `TracksProofs` | `TypeCorrect`, `RequestsAreDeduplicated`, `SubscribersEvictStaleOnly` | see below |
| `AnnounceProofs` | `TypeCorrect`, `AnswersAreOwn`, `CancelsStayInNamespace`, `RejectedAloneLinger`, `DuplicatesHaveACause` | see below |
| `SubscriptionProofs` | `TypeCorrect`, `AliasesLive`, `RejectedServeNothing`, `AnswersPrecedeStreams` | see below |
| `RemoteProofs` | `TypeCorrect`, `OneConnectionAtATime`, `OneSubscriptionOfATrack`, `NoneIsLost` | see below |
| `ServeProofs` | `TypeCorrect`, `ObjectsHaveNoGaps`, `ReadingIsComplete`, `EndsComeLast`, `ReadersGoForward` | see below |
| `RoutingProofs` | `TypeCorrect`, `EntriesAreServed`, `AcceptedAreRouted`, `NotFoundHolds`, `NothingIsTakenOver` | see below |
| `SessionProofs` | `MessageAgrees`, `ClientAgrees`, `ServerAgrees`, `HeaderAgrees`, `ObjectAgrees`, `DatagramAgrees`; `SpecIInv`, `SpecDeliveredAsSent`, `SpecNeverWaitsPastTheItem`, `SpecSetupAgrees`, `SpecEndsWithCause`, `SessionImplementsDelivery` | see below |

With this, every invariant, every action property and both refinements that a run checks are
theorems. Each module has an inductive invariant `IInv`, a lemma that `Init` implies it, a lemma
for each action (or group of actions of one shape) that preserves it, and
`InvariantHolds` (`SpecIInv` in `SessionProofs`), from which the theorems follow.

* **Queue.** `Owned` (a task inside an operation owns a handle); `InOrder` (the deque
  holds the last entries accepted, in order); `FateAgrees` (an entry is in the deque
  exactly when its fate is *queued*); `AckAgrees` (what a oneshot says agrees with the
  fate of the entry waited for, and a pending one has its sender in the deque);
  `SeenIsPast` (a future is no newer than the cell, and older than the notification
  that closed it). `NoMissedWakeup` alone is not inductive: it needs `SeenIsPast` when a
  task registers. The refinement shows every step of `Queue` to be a step or a
  stutter of `ClosableFifo`, with `closed <- dropped`.
* **Tracks.** `LockHeld` (who is between the push and the insertion holds the lock, and
  nothing is cached under the name it requests), `NamesAgree`, `ModesAgree`, and
  `LiveIsCached`: a live track that was not displaced is the cached one of its name, or
  is about to be, or the broadcast is freed. From this two live tracks of a name are
  equal. Because `subscribe` pushes before it caches, the lock is part of the
  invariant.
* **Announce.** `MadeOnly`, `EntryIsLatest` and `EntryIsOffered` tie the maps to the
  handles; `SubMessages` and `PubMessages` say of each message what its sender did before;
  `PublishInFlight` and `DoneInFlight` say what is still on its way.
  `DuplicateHasACause` follows: an announcement that was unannounced and not
  overtaken has its DONE in front of any later announcement of the namespace.
* **Subscription.** `EntriesHaveCalls`, `MadeOnly`, `StreamsAreServed` (a stream belongs to
  a subscription that was served), `RejectedIsGone` (an error on its way is from a
  dropped `Subscribed` that opened no stream), `AnswerIsSeen` (the answer of an accepted
  subscription is on its way, was recorded, or came early; it holds also before the
  entry is inserted, which is what makes it inductive).

* **Remote.** `SlotsHeld` and `EntriesHeld`: who holds a slot or an entry holds the one
  in the map (an entry, while its connection lives), and one call holds it.
  `LiveIsCached`: a live connection is in the slot of the map, or condemned, or in the
  slot that the stopping relay drained. `LiveIsListed`: a live subscription over a live
  connection is of the entry in the map, and read there or asked for by the call that
  holds it. `Asking` says that this entry is empty, which is why the two cases exclude
  each other; `CutIsDead` and `ConnsLive` that a connection never lives again. Removing
  an entry preserves all this because it is removed only when nobody holds or reads it
  (`Unused`), or with a dead connection (`TracksKept`).
* **Serve.** `Sorted` (entries became the latest in the order of their positions) gives
  `ForwardOnly`. `Numbered` says that an object is numbered by its place, and that the
  counter may run ahead of the objects only in a subgroup that nobody reads: since nobody
  starts to read an entry that is not read (`SubgroupRead` never comes back), `NoGaps` holds
  although the writer counts before it looks. `TaskOK` has, for a task, the sum of the
  chunks it read; the sum is a function `f` with `f[k] = f[k-1] + chunks[k]`, of which
  `PrefixSums` is the set, so that no induction over the chunks is needed: a writer that
  appends a chunk extends the function by one value. What a writer does only makes
  entries and objects grow (`EntryGrows`, `ObjectGrows`), and growth preserves what is
  known of every task.
* **Routing.** The invariant has a part for each layer. `CInv`, of the coordinator: every
  entry is of a registration whose request was done and which was not removed
  (`EntriesHaveOwners`). `AInv`, of the Consumers: how far `serve` is tells what it
  has registered (`ServeAgrees`), and from its first registration to its last drop the slot
  of its namespace is its own (`SlotsAreHeld`), which is why the drop by namespace takes
  nobody else's. `SInv`, of the Producers: who covered a subscription when it asked, and has
  not ended, is found by `retrieve`. `NotFoundHolds` assumes that namespaces have a field
  (`NamesHaveFields`): `Locals::retrieve` finds no prefix without one. `NothingIsTakenOver`
  needs `CInv`, since `SetOrigin` refuses by what it reads of the store.
* **Session.** The proof has two halves. The first is about the codecs, and has no state.
  `Agrees(r, b, at, e, v)` is what a decoder's result `r` owes to the encoding `e` of `v` in a
  buffer `b` whose bytes from `at` on, as far as it has them, are those of `e`: if all of `e` is
  there, the value `v` and the position behind it; if not, `More(k)` with `k` no more than what
  is missing of `e`. That is decoding what was encoded and waiting for no byte
  behind it, in one statement, and it composes: `Sequenced` for one decoder after another,
  `Mapped` for a conversion, `EachAgrees` for a sequence with its count, and then the
  fields of a record in order, each of which may depend on the ones before it
  (`Typed`, `WellFormed`). It holds of varints of every length, of strings, tuples,
  namespaces, locations and key-value pairs, and so of each of the 28 kinds of control message,
  of both setup messages, and of headers, objects and datagrams. Where a decoder
  checks what its encoder does not (an order of 0, a length, the payload of a frame), the
  lemma says why an encoding that succeeded passes the check. Sequences are inducted over
  by their length, with `UpTo`, an instance of well-founded induction over a *set* of
  naturals (the induction theorems with an operator as parameter cannot be used).

  The second half is about the streams. `Carries` says of a stream that the bytes buffered
  and on the wire are, from where its receiver is, the next ones of the concatenated
  encodings of the items sent (`Flows`, by their offsets); that the items decoded are the
  first of those sent, the last one perhaps without `left` bytes of its payload; and that the
  length waited for (`want`) does not pass the head of the next item (`Wanted`). `Carries` is
  what `DeliveredAsSent` needs to be inductive: the property speaks of items only, and what will be
  decoded depends on the bytes in between. `ToSend` adds the types of what is yet to be
  sent, and the place of an object in its stream; `Datagrams` that each datagram is one
  of those sent; `Setups` how the first items, `status`, `path` and `version` of the two ends
  depend on each other. A step of a reader is split into what its buffer may hold: a part of
  the next head, in which case `Agrees` gives the wait; the head, in which case it
  gives the item; and for an object its payload, of which a chunk is taken. `EndsWithCause`
  is a conjunct of `IInv`: only there is it known that a decoder is given encodings.
  TLC checked `IInv` on the instance of the run `session` before it was proved.

  The refinement (`SessionImplementsDelivery`) maps `sent`, `got` and `left` to themselves and
  forgets the rest: the bytes, the buffers, what an end waits for, `status`, versions and
  paths. An attempt to decode that succeeds is `TakeNext` of its stream, since by `Carries`
  after the step the last item is the next one sent, less what `left` says; of CLIENT_SETUP it
  is also `Send` of the answer, and then `Next` takes two streams at once. A chunk is `TakeMore`,
  with at least one byte less to come, and a datagram `TakeAny`. That an end sends only when it
  may is where `Setups` is used: who is *running* has the first item of the other end.

## 7. What is only model-checked

* Liveness (`ClosedPopReturns`, `RequestIsAnswered`, `AnnounceIsAnswered`,
  `UnannounceIsHeard`, `EndIsHeard` of both modules, `UnsubscribeEndsServing`,
  `CallReturns`, `ShutdownIsHeard`, `EventuallyHandled`, `OrphansExpire`,
  `AnnounceAnswered`): TLAPS has no rules for `ENABLED` and fairness that its backends here
  can use. Of `EventuallyHandled` the half that is about bytes is proved: what is missing to
  an item is never behind it.
* The properties that the code violates, in the three runs that expect it.

## 8. What is not modelled

* Event log (`mlog`): nothing reads it back. Unused utilities (`util`,
  `serve/broadcast.rs`): not compiled, or without a caller.
* QUIC and TLS endpoints, metrics, the web server, `main.rs`: configuration and I/O
  around libraries. A connection is taken to deliver one ordered control stream and
  independent data streams, until it ends.
* Of the served stream, the clones of its `StreamWriter`, which the code says is "meant to be
  sequential" (`serve/stream.rs:62`): `Serve` has one. Of the setup, the refusal of a version
  above a u32 (`setup/version.rs:48`), which no encoder can send and no value of the run reaches.
* The applications (`moq-pub`, `moq-sub`, `moq-clock-ietf`, `moq-test-client`,
  `moq-catalog`): the models allow the public operations in every order.
* In the modelled components: track status requests beyond their messages,
  `largest_location`, the value of an alias that the peer chooses (in `Subscription` an alias is
  the id, as this publisher makes it), `serve/object.rs`, which no mode of a track uses,
  the extension headers of served objects, `FetchObject` and `SubgroupObject::encode`,
  which no session uses, and the display of names as paths.
* Of the relay: `serve_track_status`, which only reads, the accept loop, the announcements
  that a relay makes upstream, and `resolve_scope` beyond the permissions it gives. Sessions
  between relays are taken to have all permissions; subscribers are taken to ask for
  distinct tracks in `Routing`, since `Remote` has what happens when they share one.
* Of the coordinators: the namespace and track subscriptions of the trait, which no relay
  calls, `MockCoordinator`, and what a partly written file does to the calls that then fail
  to parse it beyond failing.

## 9. What is left

1. **Refinements**: `Remote` as a cache of one value for each key, and the registry of a
   coordinator as a set of leases.
2. **Track status**: the requests of `track_status_requested.rs` through `Announce` and the
   relay; they change no state but their own.
3. **Larger instances**: two readers in `serve` and two subscriptions in `resolve` are beyond
   a run of minutes without an abstraction of the writers.
4. **Relays in rings**: a property of `Routing` that follows from an assumption on the
   topology, in place of *stuck*, once the code states one.
