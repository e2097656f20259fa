------------------------------- MODULE Tracks -------------------------------
(***************************************************************************)
(* The broadcast of moq-transport/src/serve/tracks.rs and the tracks in it *)
(* (track.rs): subscribers look a track up by name and request it from the *)
(* publisher when it is not cached or not alive any more; the publisher    *)
(* pops requests and serves, rejects or abandons them, inserts and removes *)
(* tracks of its own, and may go at any time.                              *)
(*                                                                         *)
(* Each step is one critical section: of the mutex of TracksState (held by *)
(* a subscriber across its whole subscribe), of the request queue, of one  *)
(* track's state.  Tracks are numbered as they are produced; that happens, *)
(* like the push of the request, under the first of these locks, so the    *)
(* request queue holds its tracks in the order of their numbers.  That a   *)
(* reader waiting for a change of a watch::State is woken by it, and that  *)
(* the queue is a FIFO until it closes, is what Queue.tla shows; that a    *)
(* pop may go to sleep beside an entry is what it shows too, and is kept   *)
(* here.                                                                   *)
(***************************************************************************)
EXTENDS Naturals, Sequences, SequencesExt, FiniteSets

CONSTANTS Names,       \* full track names
          Subs,        \* subscribers, each with a TracksReader of its own
          NoOne,       \* the holder of a free lock
          MaxTracks    \* bound: tracks produced in a behaviour

ASSUME TracksAssumption == NoOne \notin Subs /\ MaxTracks \in Nat

Ids == 1..MaxTracks
NoTrack == 0

VARIABLES
    holder,     \* the subscriber inside the critical section of subscribe, or NoOne
    cache,      \* TracksState.tracks: the track cached under each name, or NoTrack
    request,    \* TracksRequest: alive, or how far its drop is
    popping,    \* its next(): about to look, nothing found and unlocked, or asleep
    writer,     \* TRUE while there is a TracksWriter
    reader,     \* each subscriber's TracksReader: alive, without state handle, gone
    sub,        \* where each subscriber is
    track,      \* the track it is requesting or reading, or NoTrack
    name,       \* the names of the tracks produced so far, by track
    home,       \* where the TrackWriter of each track is
    mode,       \* TrackState.reader_mode: unset, or its writer open or closed
    closed,     \* TRUE when TrackState.closed is an error
    displaced   \* history: tracks the TracksWriter has overwritten or removed

subVars == <<reader, sub, track>>
trackVars == <<name, home, mode, closed>>
vars == <<holder, cache, request, popping, writer, subVars, trackVars, displaced>>

\* With nobody yet; with the subscriber that makes it, in the queue, drained from it
\* by the drop of the TracksRequest, with a task of the publisher; consumed or dropped.
Homes == {"none", "made", "queued", "drained", "held", "gone"}

Made == 1..Len(name)
NextId == Len(name) + 1

Init ==
    /\ holder = NoOne
    /\ cache = [n \in Names |-> NoTrack]
    /\ request = "live"
    /\ popping = "try"
    /\ writer = TRUE
    /\ reader = [s \in Subs |-> "live"]
    /\ sub = [s \in Subs |-> "idle"]
    /\ track = [s \in Subs |-> NoTrack]
    /\ name = <<>>
    /\ home = [t \in Ids |-> "none"]
    /\ mode = [t \in Ids |-> "unset"]
    /\ closed = [t \in Ids |-> FALSE]
    /\ displaced = {}

-----------------------------------------------------------------------------
(* Who is left: State::dropped of the broadcast, of the queue and of a track. *)

TracksOpen == (writer \/ request # "gone") /\ \E s \in Subs : reader[s] = "live"
QueueOpen == request \in {"live", "drained"} /\ \E s \in Subs : reader[s] # "gone"

WriterAlive(t) == home[t] \notin {"none", "gone"}

\* The tracks in a place, and the first of them.
At(place) == {t \in Ids : home[t] = place}
Oldest(t, place) == t \in At(place) /\ \A u \in At(place) : t <= u
Moved(t, place) == [home EXCEPT ![t] = place]

\* A pop that sleeps is woken when the queue is modified or loses a side.
Woken == IF popping = "asleep" THEN "try" ELSE popping

\* A TrackReader is in the cache or with a subscriber.
Readable(t) == (\E n \in Names : cache[n] = t) \/ (\E s \in Subs : track[s] = t)

\* Variant for mutation: a track whose mode is set counts as closed, its TrackWriter
\* having been consumed.
IsClosedByWriter(t) == closed[t] \/ ~WriterAlive(t)

\* is_closed: once the mode is set, the mode's writer decides.
IsClosed(t) ==
    \/ closed[t]
    \/ mode[t] = "closed"
    \/ mode[t] = "unset" /\ ~WriterAlive(t)

Alive(n) == cache[n] # NoTrack /\ ~IsClosed(cache[n])

-----------------------------------------------------------------------------
(* Subscribers. *)

Goto(s, place, t) ==
    sub' = [sub EXCEPT ![s] = place] /\ track' = [track EXCEPT ![s] = t]

CanCall(s) == sub[s] = "idle" /\ reader[s] = "live" /\ holder = NoOne

\* subscribe, and get_track_reader, with a cached track that is alive.  Without one
\* get_track_reader returns None and nothing changes, nor does it when subscribe
\* finds the publisher gone.
ShareCached(s, n) ==
    /\ CanCall(s)
    /\ Alive(n)
    /\ Goto(s, "await", cache[n])
    /\ UNCHANGED <<holder, cache, request, popping, writer, reader, trackVars, displaced>>

\* Variant for mutation: the lock is released before the request is pushed.
EvictUnlocking(s, n) ==
    /\ CanCall(s)
    /\ ~Alive(n)
    /\ TracksOpen
    /\ NextId \in Ids
    /\ cache' = [cache EXCEPT ![n] = NoTrack]
    /\ name' = Append(name, n)
    /\ Goto(s, "push", NextId)
    /\ home' = Moved(NextId, "made")
    /\ UNCHANGED <<holder, request, popping, writer, reader, mode, closed, displaced>>

\* subscribe otherwise: the stale track is evicted, a new one is produced, and the
\* lock is kept.
Evict(s, n) ==
    /\ CanCall(s)
    /\ ~Alive(n)
    /\ TracksOpen
    /\ NextId \in Ids
    /\ cache' = [cache EXCEPT ![n] = NoTrack]
    /\ name' = Append(name, n)
    /\ holder' = s
    /\ Goto(s, "push", NextId)
    /\ home' = Moved(NextId, "made")
    /\ UNCHANGED <<request, popping, writer, reader, mode, closed, displaced>>

\* The request is pushed, or both halves of the new track are dropped.
PushRequest(s) ==
    /\ sub[s] = "push"
    /\ IF QueueOpen
       THEN /\ home' = Moved(track[s], "queued")
            /\ Goto(s, "insert", track[s])
            /\ popping' = Woken
            /\ UNCHANGED holder
       ELSE /\ home' = Moved(track[s], "gone")
            /\ Goto(s, "idle", NoTrack)
            /\ holder' = NoOne
            /\ UNCHANGED popping
    /\ UNCHANGED <<cache, request, writer, reader, name, mode, closed, displaced>>

\* The reader is cached, whatever has become of the request meanwhile.
InsertTrack(s) ==
    /\ sub[s] = "insert"
    /\ cache' = [cache EXCEPT ![name[track[s]]] = track[s]]
    /\ holder' = NoOne
    /\ Goto(s, "await", track[s])
    /\ UNCHANGED <<request, popping, writer, reader, trackVars, displaced>>

\* mode: the mode of the track; or its error, or Done if its writer was abandoned,
\* and the caller drops its TrackReader.
ModeReturns(s) ==
    /\ sub[s] = "await"
    /\ LET t == track[s] IN
          \/ mode[t] # "unset" /\ Goto(s, "reading", t)
          \/ /\ mode[t] = "unset"
             /\ closed[t] \/ ~WriterAlive(t)
             /\ Goto(s, "idle", NoTrack)
    /\ UNCHANGED <<holder, cache, request, popping, writer, reader, trackVars, displaced>>

\* The subscriber drops its TrackReader, before or after it learnt the mode.
Leave(s) ==
    /\ sub[s] \in {"await", "reading"}
    /\ Goto(s, "idle", NoTrack)
    /\ UNCHANGED <<holder, cache, request, popping, writer, reader, trackVars, displaced>>

-----------------------------------------------------------------------------
(* The two State<_> that both sides share are freed with their last handle. *)

\* The cache after a handle of the broadcast went, with these left.
CacheLeft(writerLeft, requestLeft, readersLeft) ==
    IF writerLeft \/ requestLeft # "gone" \/ "live" \in readersLeft
    THEN cache ELSE [n \in Names |-> NoTrack]

\* The TrackWriters after a handle of the queue went; those freed with it are dropped.
HomesLeft(requestLeft, readersLeft) ==
    IF requestLeft \in {"live", "drained"} \/ readersLeft # {"gone"}
    THEN home ELSE [t \in Ids |-> IF home[t] = "queued" THEN "gone" ELSE home[t]]

\* A TracksReader drops its handles in the order of its fields.
DropReaderState(s) ==
    /\ reader[s] = "live" /\ sub[s] \notin {"push", "insert"}
    /\ holder = NoOne
    /\ reader' = [reader EXCEPT ![s] = "half"]
    /\ cache' = CacheLeft(writer, request, {reader'[u] : u \in Subs})
    /\ UNCHANGED <<holder, request, popping, writer, sub, track, trackVars, displaced>>

DropReaderQueue(s) ==
    /\ reader[s] = "half"
    /\ reader' = [reader EXCEPT ![s] = "gone"]
    /\ home' = HomesLeft(request, {reader'[u] : u \in Subs})
    /\ popping' = IF \A u \in Subs : reader'[u] = "gone" THEN Woken ELSE popping
    /\ UNCHANGED <<holder, cache, request, writer, sub, track, name, mode, closed, displaced>>

-----------------------------------------------------------------------------
(* The publisher. *)

\* next: the oldest request is popped, and its TrackWriter is the publisher's.
NextRequest(t) ==
    /\ request = "live" /\ popping = "try"
    /\ QueueOpen
    /\ Oldest(t, "queued")
    /\ home' = Moved(t, "held")
    /\ UNCHANGED <<holder, cache, request, popping, writer, subVars, name, mode, closed, displaced>>

\* Nothing is there, and the lock of the queue is released.
FindNone ==
    /\ request = "live" /\ popping = "try"
    /\ QueueOpen
    /\ At("queued") = {}
    /\ popping' = "empty"
    /\ UNCHANGED <<holder, cache, request, writer, subVars, trackVars, displaced>>

\* It is taken again, without another look at the queue, to await its next
\* modification; a closed queue has none, and next returns None.
AwaitRequest ==
    /\ request = "live" /\ popping = "empty"
    /\ popping' = IF QueueOpen THEN "asleep" ELSE "try"
    /\ UNCHANGED <<holder, cache, request, writer, subVars, trackVars, displaced>>

\* The caller's select! drops the pop that sleeps, and calls next again.
CancelNext ==
    /\ request = "live" /\ popping = "asleep"
    /\ popping' = "try"
    /\ UNCHANGED <<holder, cache, request, writer, subVars, trackVars, displaced>>

\* Variant for mutation: what is left in the queue is not drained.
CloseQueueKeeping ==
    /\ request = "live"
    /\ request' = "drained" /\ popping' = "try"
    /\ UNCHANGED <<holder, cache, writer, subVars, trackVars, displaced>>

\* TracksRequest::drop, first critical section of close(): an open queue is drained.
\* The pop borrowed the TracksRequest, so it is no more.
CloseQueue ==
    /\ request = "live"
    /\ request' = "drained" /\ popping' = "try"
    /\ home' = [t \in Ids |->
                  IF home[t] = "queued" /\ QueueOpen THEN "drained" ELSE home[t]]
    /\ UNCHANGED <<holder, cache, writer, subVars, name, mode, closed, displaced>>

\* The end of close(): the handle of the queue goes, and with it its side.
ReleaseQueue ==
    /\ request = "drained"
    /\ request' = "released"
    /\ home' = HomesLeft("released", {reader[u] : u \in Subs})
    /\ UNCHANGED <<holder, cache, popping, writer, subVars, name, mode, closed, displaced>>

\* Each drained track is closed with NotFound, unless nobody can read it.
ClosePending(t) ==
    /\ request = "released"
    /\ Oldest(t, "drained")
    /\ home' = Moved(t, "gone")
    /\ closed' = [closed EXCEPT ![t] = @ \/ Readable(t)]
    /\ UNCHANGED <<holder, cache, request, popping, writer, subVars, name, mode, displaced>>

\* After the body of drop its handle of the broadcast goes.
FinishDrop ==
    /\ request = "released"
    /\ At("drained") = {}
    /\ holder = NoOne
    /\ request' = "gone"
    /\ cache' = CacheLeft(writer, "gone", {reader[u] : u \in Subs})
    /\ UNCHANGED <<holder, popping, writer, subVars, trackVars, displaced>>

\* stream, subgroups or datagrams: the mode is set, unless nobody can read the track
\* (Cancel); the TrackWriter is consumed either way.
ServeTrack(t) ==
    /\ home[t] = "held"
    /\ home' = Moved(t, "gone")
    /\ mode' = [mode EXCEPT ![t] = IF Readable(t) THEN "open" ELSE @]
    /\ UNCHANGED <<holder, cache, request, popping, writer, subVars, name, closed, displaced>>

\* TrackWriter::close consumes it too.
RejectTrack(t) ==
    /\ home[t] = "held"
    /\ home' = Moved(t, "gone")
    /\ closed' = [closed EXCEPT ![t] = @ \/ Readable(t)]
    /\ UNCHANGED <<holder, cache, request, popping, writer, subVars, name, mode, displaced>>

AbandonTrack(t) ==
    /\ home[t] = "held"
    /\ home' = Moved(t, "gone")
    /\ UNCHANGED <<holder, cache, request, popping, writer, subVars, name, mode, closed, displaced>>

\* The writer of the mode closes it or is dropped.
EndMode(t) ==
    /\ mode[t] = "open"
    /\ mode' = [mode EXCEPT ![t] = "closed"]
    /\ UNCHANGED <<holder, cache, request, popping, writer, subVars, name, home, closed, displaced>>

\* TracksWriter::create overwrites what is cached.
CreateTrack(n) ==
    /\ writer /\ TracksOpen /\ holder = NoOne
    /\ NextId \in Ids
    /\ name' = Append(name, n)
    /\ home' = Moved(NextId, "held")
    /\ cache' = [cache EXCEPT ![n] = NextId]
    /\ displaced' = displaced \cup {cache[n]}
    /\ UNCHANGED <<holder, request, popping, writer, subVars, mode, closed>>

RemoveTrack(n) ==
    /\ writer /\ TracksOpen /\ holder = NoOne
    /\ cache[n] # NoTrack
    /\ cache' = [cache EXCEPT ![n] = NoTrack]
    /\ displaced' = displaced \cup {cache[n]}
    /\ UNCHANGED <<holder, request, popping, writer, subVars, trackVars>>

DropWriter ==
    /\ writer /\ holder = NoOne
    /\ writer' = FALSE
    /\ cache' = CacheLeft(FALSE, request, {reader[u] : u \in Subs})
    /\ UNCHANGED <<holder, request, popping, subVars, trackVars, displaced>>

-----------------------------------------------------------------------------
Subscribing(s) ==
    \/ \E n \in Names : ShareCached(s, n) \/ Evict(s, n)
    \/ PushRequest(s) \/ InsertTrack(s) \/ ModeReturns(s) \/ Leave(s)
    \/ DropReaderState(s) \/ DropReaderQueue(s)

DropSteps == ReleaseQueue \/ (\E t \in Ids : ClosePending(t)) \/ FinishDrop

Popping == (\E t \in Ids : NextRequest(t)) \/ FindNone \/ AwaitRequest

Handling(t) == ServeTrack(t) \/ RejectTrack(t) \/ AbandonTrack(t) \/ EndMode(t)

Writing == (\E n \in Names : CreateTrack(n) \/ RemoveTrack(n)) \/ DropWriter

Next ==
    \/ \E s \in Subs : Subscribing(s)
    \/ CloseQueue \/ DropSteps
    \/ Popping \/ CancelNext
    \/ \E t \in Ids : Handling(t)
    \/ Writing

Spec == Init /\ [][Next]_vars

\* A critical section and a drop run to their end, the publisher is in next() until it
\* goes, and a reader that can learn its mode is polled.  A pop that sleeps takes no
\* step until the queue wakes it: nobody has to subscribe, to give up a pop, to serve
\* what was popped, or to go.
FairSpec ==
    /\ Spec
    /\ \A s \in Subs : WF_vars(PushRequest(s) \/ InsertTrack(s)) /\ WF_vars(ModeReturns(s))
    /\ WF_vars(Popping)
    /\ WF_vars(DropSteps)
-----------------------------------------------------------------------------
TypeOK ==
    /\ holder \in Subs \cup {NoOne}
    /\ cache \in [Names -> Ids \cup {NoTrack}]
    /\ request \in {"live", "drained", "released", "gone"}
    /\ popping \in {"try", "empty", "asleep"}
    /\ writer \in BOOLEAN
    /\ reader \in [Subs -> {"live", "half", "gone"}]
    /\ sub \in [Subs -> {"idle", "push", "insert", "await", "reading"}]
    /\ track \in [Subs -> Ids \cup {NoTrack}]
    /\ name \in Seq(Names)
    /\ home \in [Ids -> Homes]
    /\ mode \in [Ids -> {"unset", "open", "closed"}]
    /\ closed \in [Ids -> BOOLEAN]
    /\ displaced \subseteq Ids \cup {NoTrack}

\* Requests are deduplicated (tracks.rs:252): of all the tracks ever produced under
\* one name, at most one is alive, those aside that the TracksWriter has displaced;
\* a request on its way to the queue or to the cache counts.
NoDuplicateRequest ==
    \A t, u \in Made \ displaced :
        name[t] = name[u] /\ ~IsClosed(t) /\ ~IsClosed(u) => t = u

\* A live track leaves the cache by a call of the TracksWriter only, or with the
\* whole broadcast: no subscriber evicts a track that is still served.
OnlyStaleIsEvicted ==
    [][\A n \in Names :
          cache'[n] # cache[n] /\ cache[n] # NoTrack /\ sub' # sub
              => closed[cache[n]] \/ mode[cache[n]] = "closed"
                 \/ (mode[cache[n]] = "unset" /\ ~WriterAlive(cache[n]))]_vars

\* A request beside which the publisher's pop sleeps: pushed after the pop found the
\* queue empty and before it took the lock again to wait (queue.rs:28 and 45).
Overlooked(s) == popping = "asleep" /\ sub[s] = "await" /\ home[track[s]] = "queued"

Answered(s) ==
    \/ sub[s] # "await"
    \/ home[track[s]] = "held"
    \/ \A u \in Subs : reader[u] = "gone"

\* A subscriber that waits for a request in the queue of a live TracksRequest has it
\* popped, or is told: the drop of the TracksRequest (tracks.rs:139) leaves none of
\* them waiting, as long as there is a TracksReader (its clones keep the queue open),
\* and no request waits beside a pop that goes on, only beside one that overlooked it
\* and that nothing wakes.
RequestIsAnswered ==
    \A s \in Subs :
        (sub[s] = "await" /\ request = "live" /\ home[track[s]] = "queued")
            ~> (Answered(s) \/ []Overlooked(s))

\* tracks.rs:141, "Close any tracks still in the Queue": once the TracksRequest is
\* gone, no TrackWriter is left in the queue.
DropLeavesNoRequest == request = "gone" => At("queued") = {}
=============================================================================
