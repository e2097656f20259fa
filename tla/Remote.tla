-------------------------------- MODULE Remote --------------------------------
(***************************************************************************)
(* moq-relay-ietf/src/remote.rs: the relay's connections to other relays,  *)
(* and its subscriptions over them.  RemoteManager keeps a slot for each   *)
(* upstream relay and Remote, a connection, an entry for each track; both  *)
(* are locks held over awaits, found in a map that has a lock of its own.  *)
(* Calls of subscribe, the task of each connection and the task of each    *)
(* subscription share them, and a call is dropped at any await when the    *)
(* session it serves goes.                                                 *)
(*                                                                         *)
(* The module is about one upstream relay: the others have connections,    *)
(* slots and a key of their own.  A critical section of a map is a step;   *)
(* where the lock of a slot or entry is taken only to look at its map, or  *)
(* without an await inside, taking it is part of the step.  How an answer  *)
(* or the end of a subscription gets here, or is lost on the way, is what  *)
(* Subscription.tla details.                                               *)
(***************************************************************************)
EXTENDS Naturals, Sequences

CONSTANTS Calls,         \* calls of RemoteManager::subscribe
          Relay,         \* the task that shuts the manager down
          Tracks,        \* full track names
          NoTrack,       \* the track of a task that asks for none
          MaxConns,      \* bound: connections made in a behaviour,
          MaxSlots,      \* slots made for them,
          MaxEntries,    \* entries made for tracks,
          MaxSubs        \* subscriptions made

ASSUME RemoteAssumption ==
    /\ Relay \notin Calls
    /\ NoTrack \notin Tracks
    /\ MaxConns \in Nat /\ MaxSlots \in Nat /\ MaxEntries \in Nat /\ MaxSubs \in Nat

Tasks == Calls \cup {Relay}
Conns == 1..MaxConns
Slots == 1..MaxSlots
Entries == 1..MaxEntries
Subs == 1..MaxSubs
None == 0

VARIABLES
    current,    \* RemoteManager.remotes: the slot of the upstream relay, or None
    slots,      \* how many slots were made
    cached,     \* the connection in each slot, or None
    home,       \* the slot that each connection was made for
    connected,  \* Remote.connected
    cancelled,  \* Remote.cancel
    session,    \* the task of each connection: its session, or how far it cleaned up
    tracks,     \* Remote.tracks: the entry of each track, or None
    entries,    \* how many entries were made
    reader,     \* the subscription whose TrackReader is in each entry, or None
    info,       \* the connection, track and entry of each subscription
    upstream,   \* each subscription: asked for, open, or how it ended, as heard here
    cleanup,    \* the task of each subscription
    pc,         \* where each task is
    at,         \* and with what
    stopped     \* TRUE once the relay has stopped

managerVars == <<current, slots, cached>>
connVars == <<home, connected, cancelled, session>>
trackVars == <<tracks, entries, reader>>
subVars == <<info, upstream, cleanup>>
taskVars == <<pc, at>>
vars == <<managerVars, connVars, trackVars, subVars, taskVars, stopped>>

MadeConns == 1..Len(home)
MadeSubs == 1..Len(info)
Nowhere == [slot |-> None, conn |-> None, track |-> NoTrack, entry |-> None, sub |-> None]

Init ==
    /\ current = None /\ slots = 0
    /\ cached = [s \in Slots |-> None]
    /\ home = <<>>
    /\ connected = [c \in Conns |-> FALSE]
    /\ cancelled = [c \in Conns |-> FALSE]
    /\ session = [c \in Conns |-> "none"]
    /\ tracks = [c \in Conns |-> [t \in Tracks |-> None]]
    /\ entries = 0
    /\ reader = [e \in Entries |-> None]
    /\ info = <<>>
    /\ upstream = [s \in Subs |-> "none"]
    /\ cleanup = [s \in Subs |-> "none"]
    /\ pc = [p \in Tasks |-> "new"]
    /\ at = [p \in Tasks |-> Nowhere]
    /\ stopped = FALSE

Goto(p, place) == pc' = [pc EXCEPT ![p] = place]
Go(p, from, to) == pc[p] = from /\ Goto(p, to)

\* A call returns, and what it held is dropped.
Return(p) == Goto(p, "returned") /\ at' = [at EXCEPT ![p] = Nowhere]

\* Variant for mutation: the lock of the slot is released to connect.
HoldsSlotShortly(p) ==
    \/ pc[p] \in {"examine", "cut dead", "clear dead"}
    \/ p = Relay /\ pc[p] \in {"cut", "clear"}

\* Who holds a slot or an entry is where it can be only with it.
HoldsSlot(p) ==
    \/ pc[p] \in {"examine", "cut dead", "clear dead", "connect"}
    \/ p = Relay /\ pc[p] \in {"cut", "clear"}

\* Variant for mutation: it is held until the call returns.
HoldsEntryOn(p) == pc[p] \in {"examine track", "asking", "forget track"}

\* Variant for mutation: it is released while upstream is asked.
HoldsEntryShortly(p) == pc[p] = "examine track"

HoldsEntry(p) == pc[p] \in {"examine track", "asking"}

SlotFree(s) == \A p \in Tasks : HoldsSlot(p) => at[p].slot # s
EntryFree(e) == \A p \in Tasks : HoldsEntry(p) => at[p].entry # e

\* A TrackReader whose TrackWriter went with the subscription.
IsClosed(s) == upstream[s] \in {"refused", "ended", "dropped"}

DropSub(s) == upstream' = [upstream EXCEPT ![s] = "dropped"]

-----------------------------------------------------------------------------
(* get_or_connect. *)

\* subscribe is called, and the coordinator knows the namespace: get_or_connect.
Start(p, t) ==
    /\ ~stopped
    /\ Go(p, "new", "get")
    /\ at' = [at EXCEPT ![p].track = t]
    /\ UNCHANGED <<managerVars, connVars, trackVars, subVars, stopped>>

NextSlot == slots + 1

\* The slot in the map, or a new one.
GetSlot(p) ==
    /\ Go(p, "get", "lock")
    /\ IF current # None
       THEN UNCHANGED <<current, slots>>
       ELSE slots < MaxSlots /\ slots' = slots + 1 /\ current' = NextSlot
    /\ at' = [at EXCEPT ![p].slot = current']
    /\ UNCHANGED <<cached, connVars, trackVars, subVars, stopped>>

\* The slot's lock is had, and kept only if the slot is still the one in the map.
LockSlot(p) ==
    /\ SlotFree(at[p].slot)
    /\ Go(p, "lock", IF current = at[p].slot THEN "examine" ELSE "get")
    /\ UNCHANGED <<managerVars, connVars, trackVars, subVars, at, stopped>>

\* A live connection is used; a dead one is taken from the slot and shut down.
Examine(p) ==
    LET slot == at[p].slot
        found == cached[slot]
    IN  /\ pc[p] = "examine"
        /\ IF found # None /\ connected[found]
           THEN Goto(p, "subscribe") /\ UNCHANGED cached
           ELSE /\ Goto(p, IF found = None THEN "connect" ELSE "cut dead")
                /\ cached' = [cached EXCEPT ![slot] = None]
        /\ at' = [at EXCEPT ![p].conn = found]
        /\ UNCHANGED <<current, slots, connVars, trackVars, subVars, stopped>>

\* A new connection, with its task, goes into the slot.
Connect(p) ==
    LET c == Len(home) + 1 IN
    /\ Go(p, "connect", "subscribe")
    /\ c \in Conns
    /\ home' = Append(home, at[p].slot)
    /\ connected' = [connected EXCEPT ![c] = TRUE]
    /\ session' = [session EXCEPT ![c] = "run"]
    /\ cached' = [cached EXCEPT ![at[p].slot] = c]
    /\ at' = [at EXCEPT ![p].conn = c]
    /\ UNCHANGED <<current, slots, cancelled, trackVars, subVars, stopped>>

ConnectFails(p) ==
    /\ Go(p, "connect", "forget")
    /\ UNCHANGED <<managerVars, connVars, trackVars, subVars, at, stopped>>

\* remove_empty_remote_slot: what is left in the map.
ForgetSlot(s) == IF cached[s] = None /\ current = s THEN None ELSE current

\* The call ends with the slot removed, unless somebody used it meanwhile.
Forget(p) ==
    /\ pc[p] = "forget"
    /\ SlotFree(at[p].slot)
    /\ current' = ForgetSlot(at[p].slot)
    /\ Return(p)
    /\ UNCHANGED <<slots, cached, connVars, trackVars, subVars, stopped>>

-----------------------------------------------------------------------------
(* Remote::shutdown, of a dead connection in get_or_connect, of a live one after a *)
(* failed subscribe, and of the last one when the relay stops.                     *)

\* The token is cancelled and the flag cleared, in this order and at once.
Cut(p) ==
    /\ pc[p] \in {"cut", "cut dead"}
    /\ Goto(p, IF pc[p] = "cut" THEN "clear" ELSE "clear dead")
    /\ cancelled' = [cancelled EXCEPT ![at[p].conn] = TRUE]
    /\ connected' = [connected EXCEPT ![at[p].conn] = FALSE]
    /\ UNCHANGED <<managerVars, home, session, trackVars, subVars, at, stopped>>

\* The map of tracks is cleared under its lock.
Clear(p) ==
    /\ pc[p] \in {"clear", "clear dead"}
    /\ Goto(p, IF pc[p] = "clear dead" THEN "connect"
               ELSE IF p = Relay THEN "returned" ELSE "forget")
    /\ tracks' = [tracks EXCEPT ![at[p].conn] = [t \in Tracks |-> None]]
    /\ UNCHANGED <<managerVars, connVars, entries, reader, subVars, at, stopped>>

-----------------------------------------------------------------------------
(* Remote::subscribe. *)

\* Its loop, while the connection lives.
CheckConnected(p) ==
    /\ Go(p, "subscribe", IF connected[at[p].conn] THEN "get track" ELSE "failed")
    /\ UNCHANGED <<managerVars, connVars, trackVars, subVars, at, stopped>>

\* The entry in the map, or a new one.
GetEntry(p) ==
    LET c == at[p].conn
        t == at[p].track
    IN  /\ Go(p, "get track", "lock track")
        /\ IF tracks[c][t] # None
           THEN UNCHANGED <<tracks, entries>>
           ELSE /\ entries < MaxEntries
                /\ entries' = entries + 1
                /\ tracks' = [tracks EXCEPT ![c][t] = entries + 1]
        /\ at' = [at EXCEPT ![p].entry = tracks'[c][t]]
        /\ UNCHANGED <<managerVars, connVars, reader, subVars, stopped>>

LockEntry(p) ==
    /\ EntryFree(at[p].entry)
    /\ Go(p, "lock track",
          IF tracks[at[p].conn][at[p].track] = at[p].entry THEN "examine track" ELSE "subscribe")
    /\ UNCHANGED <<managerVars, connVars, trackVars, subVars, at, stopped>>

\* A live TrackReader is shared.
ShareReader(p) ==
    /\ pc[p] = "examine track"
    /\ reader[at[p].entry] # None /\ ~IsClosed(reader[at[p].entry])
    /\ Return(p)
    /\ UNCHANGED <<managerVars, connVars, trackVars, subVars, stopped>>

\* Otherwise a subscription is made, and subscribe_open waits for its answer.
AskUpstream(p) ==
    LET s == Len(info) + 1
        e == at[p].entry
    IN  /\ Go(p, "examine track", "asking")
        /\ reader[e] # None => IsClosed(reader[e])
        /\ s \in Subs
        /\ reader' = [reader EXCEPT ![e] = None]
        /\ info' = Append(info, [conn |-> at[p].conn, track |-> at[p].track, entry |-> e])
        /\ upstream' = [upstream EXCEPT ![s] = "asked"]
        /\ at' = [at EXCEPT ![p].sub = s]
        /\ UNCHANGED <<managerVars, connVars, tracks, entries, cleanup, stopped>>

\* subscribe_open returns: with a connection that still lives the TrackReader goes
\* into the entry and a task looks after the subscription.
Opened(p) ==
    LET s == at[p].sub IN
    /\ pc[p] = "asking"
    /\ upstream[s] \in {"open", "ended"}
    /\ connected[at[p].conn]
    /\ reader' = [reader EXCEPT ![at[p].entry] = s]
    /\ cleanup' = [cleanup EXCEPT ![s] = "wait"]
    /\ Return(p)
    /\ UNCHANGED <<managerVars, connVars, tracks, entries, info, upstream, stopped>>

\* subscribe_open fails, the connection is cancelled under it, or it went while the
\* answer was on its way.
OpenFails(p) ==
    LET s == at[p].sub IN
    /\ Go(p, "asking", "forget track")
    /\ \/ upstream[s] \in {"refused", "ended"}
       \/ cancelled[at[p].conn]
       \/ upstream[s] = "open" /\ ~connected[at[p].conn]
    /\ DropSub(s)
    /\ UNCHANGED <<managerVars, connVars, trackVars, info, cleanup, at, stopped>>

\* remove_empty_track_slot: what is left in the map.
ForgetEntry(c, t, e) ==
    IF reader[e] = None /\ tracks[c][t] = e
    THEN [tracks EXCEPT ![c][t] = None] ELSE tracks

ForgetTrack(p) ==
    /\ EntryFree(at[p].entry)
    /\ Go(p, "forget track", "failed")
    /\ tracks' = ForgetEntry(at[p].conn, at[p].track, at[p].entry)
    /\ UNCHANGED <<managerVars, connVars, entries, reader, subVars, at, stopped>>

\* remove_if_same_remote, after any error of Remote::subscribe: the slot in the map,
FindRemote(p) ==
    /\ pc[p] = "failed"
    /\ IF current = None
       THEN Return(p)
       ELSE Goto(p, "take") /\ at' = [at EXCEPT ![p].slot = current]
    /\ UNCHANGED <<managerVars, connVars, trackVars, subVars, stopped>>

\* The connection to take out of the slot: the one that failed, if it is still there.
Taken(p) == IF cached[at[p].slot] = at[p].conn THEN at[p].conn ELSE None

\* Variant for mutation: it is only forgotten.
TakeRemoteQuietly(p) ==
    /\ pc[p] = "take"
    /\ SlotFree(at[p].slot)
    /\ IF Taken(p) = None
       THEN Return(p) /\ UNCHANGED cached
       ELSE /\ Goto(p, "forget")
            /\ cached' = [cached EXCEPT ![at[p].slot] = None]
            /\ UNCHANGED at
    /\ UNCHANGED <<current, slots, connVars, trackVars, subVars, stopped>>

\* and then its connection, to shut it down.
TakeRemote(p) ==
    /\ pc[p] = "take"
    /\ SlotFree(at[p].slot)
    /\ IF Taken(p) = None
       THEN Return(p) /\ UNCHANGED cached
       ELSE /\ Goto(p, "cut")
            /\ cached' = [cached EXCEPT ![at[p].slot] = None]
            /\ UNCHANGED at
    /\ UNCHANGED <<current, slots, connVars, trackVars, subVars, stopped>>

\* A call is dropped at one of its awaits; the two steps in which a connection is cut
\* follow the one before without an await.
Cancellable(p) == pc[p] \notin {"new", "cut", "cut dead", "returned"}

Cancel(p) ==
    /\ Cancellable(p)
    /\ IF pc[p] = "asking" THEN DropSub(at[p].sub) ELSE UNCHANGED upstream
    /\ Return(p)
    /\ UNCHANGED <<managerVars, connVars, trackVars, info, cleanup, stopped>>

-----------------------------------------------------------------------------
(* The upstream relay, while the session runs. *)

\* Its answer finds the entry of the subscription.  It never does when the request or
\* the answer stays beside a sleeping pop of run_send, or comes before the entry.
Answer(s) ==
    /\ s \in MadeSubs /\ session[info[s].conn] = "run"
    /\ upstream[s] = "asked"
    /\ \E answer \in {"open", "refused"} : upstream' = [upstream EXCEPT ![s] = answer]
    /\ UNCHANGED <<managerVars, connVars, trackVars, info, cleanup, taskVars, stopped>>

End(s) ==
    /\ s \in MadeSubs /\ session[info[s].conn] = "run"
    /\ upstream[s] = "open"
    /\ upstream' = [upstream EXCEPT ![s] = "ended"]
    /\ UNCHANGED <<managerVars, connVars, trackVars, info, cleanup, taskVars, stopped>>

-----------------------------------------------------------------------------
(* The task of a connection. *)

\* The session ends, lost or cancelled.  The subscriptions stay: each Subscribe holds
\* the map that keeps its other half.
SessionEnds(c) ==
    /\ session[c] = "run"
    /\ session' = [session EXCEPT ![c] = "clear"]
    /\ connected' = [connected EXCEPT ![c] = FALSE]
    /\ UNCHANGED <<managerVars, home, cancelled, trackVars, subVars, taskVars, stopped>>

\* The connection is taken out of its slot, if it is still there,
ClearRemote(c) ==
    /\ session[c] = "clear"
    /\ SlotFree(home[c])
    /\ IF cached[home[c]] = c
       THEN /\ cached' = [cached EXCEPT ![home[c]] = None]
            /\ session' = [session EXCEPT ![c] = "forget"]
       ELSE /\ session' = [session EXCEPT ![c] = "over"]
            /\ UNCHANGED cached
    /\ UNCHANGED <<current, slots, home, connected, cancelled, trackVars, subVars, taskVars, stopped>>

\* and the slot out of the map.
ForgetRemote(c) ==
    /\ session[c] = "forget"
    /\ SlotFree(home[c])
    /\ session' = [session EXCEPT ![c] = "over"]
    /\ current' = ForgetSlot(home[c])
    /\ UNCHANGED <<slots, cached, home, connected, cancelled, trackVars, subVars, taskVars, stopped>>

-----------------------------------------------------------------------------
(* The task of a subscription. *)

\* Variant for mutation: it waits for the end of the subscription alone.
ClearEndedTrack(s) ==
    /\ cleanup[s] = "wait"
    /\ IsClosed(s)
    /\ EntryFree(info[s].entry)
    /\ reader' = [reader EXCEPT ![info[s].entry] = IF @ = s THEN None ELSE @]
    /\ cleanup' = [cleanup EXCEPT ![s] = "forget"]
    /\ UNCHANGED <<managerVars, connVars, tracks, entries, info, upstream, taskVars, stopped>>

\* It has ended, or the connection was cancelled: its TrackReader is taken out of its
\* entry, if it is still there,
ClearTrack(s) ==
    /\ cleanup[s] = "wait"
    /\ IsClosed(s) \/ cancelled[info[s].conn]
    /\ EntryFree(info[s].entry)
    /\ reader' = [reader EXCEPT ![info[s].entry] = IF @ = s THEN None ELSE @]
    /\ cleanup' = [cleanup EXCEPT ![s] = "forget"]
    /\ UNCHANGED <<managerVars, connVars, tracks, entries, info, upstream, taskVars, stopped>>

\* and the entry out of the map; the Subscribe goes with the task.
EndCleanup(s) ==
    /\ cleanup[s] = "forget"
    /\ EntryFree(info[s].entry)
    /\ cleanup' = [cleanup EXCEPT ![s] = "over"]
    /\ tracks' = ForgetEntry(info[s].conn, info[s].track, info[s].entry)
    /\ DropSub(s)
    /\ UNCHANGED <<managerVars, connVars, entries, reader, info, taskVars, stopped>>

-----------------------------------------------------------------------------
(* The relay stops: its calls are dropped with their sessions, the map is drained, and *)
(* what was in it is shut down.                                                        *)

Stop ==
    /\ ~stopped
    /\ \A p \in Calls : pc[p] \notin {"cut", "cut dead"}
    /\ stopped' = TRUE
    /\ current' = None
    /\ pc' = [p \in Tasks |-> IF p = Relay /\ current # None THEN "drained" ELSE "returned"]
    /\ at' = [p \in Tasks |-> IF p = Relay THEN [Nowhere EXCEPT !.slot = current] ELSE Nowhere]
    /\ upstream' = [s \in Subs |->
          IF \E p \in Calls : pc[p] = "asking" /\ at[p].sub = s THEN "dropped" ELSE upstream[s]]
    /\ UNCHANGED <<slots, cached, connVars, trackVars, info, cleanup>>

ShutDown ==
    LET slot == at[Relay].slot IN
    /\ pc[Relay] = "drained"
    /\ Goto(Relay, IF cached[slot] = None THEN "returned" ELSE "cut")
    /\ at' = [at EXCEPT ![Relay].conn = cached[slot]]
    /\ cached' = [cached EXCEPT ![slot] = None]
    /\ UNCHANGED <<current, slots, connVars, trackVars, subVars, stopped>>

-----------------------------------------------------------------------------
Connecting(p) ==
    GetSlot(p) \/ LockSlot(p) \/ Examine(p) \/ Connect(p) \/ ConnectFails(p) \/ Forget(p)

ShuttingDown(p) == Cut(p) \/ Clear(p)

Subscribing(p) ==
    \/ CheckConnected(p) \/ GetEntry(p) \/ LockEntry(p) \/ ShareReader(p) \/ AskUpstream(p)
    \/ Opened(p) \/ OpenFails(p) \/ ForgetTrack(p) \/ FindRemote(p) \/ TakeRemote(p)

Running(p) == Connecting(p) \/ Subscribing(p)

ConnTask(c) == ClearRemote(c) \/ ForgetRemote(c)
SubTask(s) == ClearTrack(s) \/ EndCleanup(s)

Next ==
    \/ \E p \in Calls : (\E t \in Tracks : Start(p, t)) \/ Running(p) \/ Cancel(p)
    \/ \E p \in Tasks : ShuttingDown(p)
    \/ \E s \in Subs : Answer(s) \/ End(s) \/ SubTask(s)
    \/ \E c \in Conns : SessionEnds(c) \/ ConnTask(c)
    \/ Stop \/ ShutDown

Spec == Init /\ [][Next]_vars

\* Every task that can go on does, and a session that is cancelled ends.  Nobody has to
\* call, to be dropped, to lose a connection, or to answer or end a subscription.  All
\* of these steps are bounded in number, so one fairness condition does for all; the
\* lock of a slot is fair in itself.
Progress ==
    \/ \E p \in Calls : Running(p)
    \/ \E p \in Tasks : ShuttingDown(p)
    \/ \E s \in Subs : SubTask(s)
    \/ \E c \in Conns : (cancelled[c] /\ SessionEnds(c)) \/ ConnTask(c)
    \/ ShutDown

FairSpec == Spec /\ WF_vars(Progress)
-----------------------------------------------------------------------------
Places == {"new", "get", "lock", "examine", "connect", "forget", "cut", "clear", "cut dead",
           "clear dead", "subscribe", "get track", "lock track", "examine track", "asking",
           "forget track", "failed", "take", "drained", "returned"}

TypeOK ==
    /\ current \in Slots \cup {None} /\ slots \in 0..MaxSlots
    /\ cached \in [Slots -> Conns \cup {None}]
    /\ home \in Seq(Slots) /\ Len(home) <= MaxConns
    /\ connected \in [Conns -> BOOLEAN] /\ cancelled \in [Conns -> BOOLEAN]
    /\ session \in [Conns -> {"none", "run", "clear", "forget", "over"}]
    /\ tracks \in [Conns -> [Tracks -> Entries \cup {None}]] /\ entries \in 0..MaxEntries
    /\ reader \in [Entries -> Subs \cup {None}]
    /\ info \in Seq([conn : Conns, track : Tracks, entry : Entries]) /\ Len(info) <= MaxSubs
    /\ upstream \in [Subs -> {"none", "asked", "open", "refused", "ended", "dropped"}]
    /\ cleanup \in [Subs -> {"none", "wait", "forget", "over"}]
    /\ pc \in [Tasks -> Places]
    /\ at \in [Tasks -> [slot : Slots \cup {None}, conn : Conns \cup {None},
                         track : Tracks \cup {NoTrack}, entry : Entries \cup {None},
                         sub : Subs \cup {None}]]
    /\ stopped \in BOOLEAN

\* A connection that somebody is about to shut down.
Condemned(c) == \E p \in Tasks : pc[p] = "cut" /\ at[p].conn = c

\* There is one connection to the upstream relay at a time: whoever finds none in the
\* slot, waits for the slot of somebody who removes it (remote.rs:126), or replaces one
\* that failed, connects once.
OneConnection ==
    \A c, d \in MadeConns :
        connected[c] /\ connected[d] /\ ~Condemned(c) /\ ~Condemned(d) => c = d

\* A connection that lives has one subscription of a track at a time, whoever else asks
\* for the track, ends, or is dropped while asking (remote.rs:377).
OneSubscription ==
    \A s, u \in MadeSubs :
        /\ info[s].conn = info[u].conn /\ info[s].track = info[u].track
        /\ connected[info[s].conn]
        /\ {upstream[s], upstream[u]} \subseteq {"asked", "open"}
        => s = u

\* A connection is not lost sight of: when the relay has shut its manager down
\* (remote.rs:189), none lives that was in no slot any more.
ShutdownLeavesNone ==
    pc[Relay] = "returned" => \A c \in MadeConns : ~connected[c]

\* A call asks with no answer heard, over a connection that nobody has cancelled; p is
\* that call, or waits for the lock of the entry, which that call holds (remote.rs:400).
Hung(p) ==
    /\ pc[p] \in {"asking", "lock track", "forget track"}
    /\ \E q \in Calls :
          /\ pc[q] = "asking" /\ at[q].entry = at[p].entry
          /\ upstream[at[q].sub] = "asked"
          /\ ~cancelled[at[q].conn]

\* A call returns: none waits for a slot or an entry that nobody will release, or runs
\* round the loops of get_or_connect and subscribe for ever.  Only a call that is never
\* answered does not, lost connection or not, and with it those for the same track.
CallReturns ==
    \A p \in Calls : (pc[p] # "new") ~> (pc[p] = "returned" \/ []Hung(p))

\* A connection that is shut down takes its subscriptions with it: whoever reads a track
\* of it is told.
ShutdownIsHeard ==
    \A s \in Subs :
        (s \in MadeSubs /\ cancelled[info[s].conn]) ~> IsClosed(s)

=============================================================================
