----------------------------- MODULE RemoteProofs -----------------------------
(***************************************************************************)
(* Proofs about Remote.tla for any calls, tracks and bounds: its type      *)
(* invariant, that there is one live connection, and over it one           *)
(* subscription of each track, and that none is lost sight of.             *)
(*                                                                         *)
(* A live connection is in the slot of the map, unless somebody is about   *)
(* to cut it; a live subscription over it is in the entry of the map, or   *)
(* asked for by the call that holds that entry.                            *)
(***************************************************************************)
EXTENDS Remote, TLAPS

SlotPlaces == {"lock", "examine", "connect", "forget", "cut", "clear", "cut dead", "clear dead",
               "take", "drained"}
ConnPlaces == {"cut", "clear", "cut dead", "clear dead", "subscribe", "get track", "lock track",
               "examine track", "asking", "forget track", "failed", "take"}
EntryPlaces == {"lock track", "examine track", "asking", "forget track"}

\* A task has what it needs where it is.
LocatedAt(p) ==
    /\ pc[p] \in SlotPlaces => at[p].slot \in Slots
    /\ pc[p] \in ConnPlaces => at[p].conn \in MadeConns
    /\ pc[p] \in EntryPlaces => at[p].entry \in Entries
    /\ p \in Calls /\ pc[p] \notin {"new", "returned"} => at[p].track \in Tracks

Located == \A p \in Tasks : LocatedAt(p)

\* A call that asks has its subscription, and the entry is empty.
AskingOf(p) ==
    /\ at[p].sub \in MadeSubs
    /\ info[at[p].sub] = [conn |-> at[p].conn, track |-> at[p].track, entry |-> at[p].entry]
    /\ reader[at[p].entry] = None

Asking == \A p \in Tasks : pc[p] = "asking" => AskingOf(p)

\* The relay stops once, and then no call is left and no slot in the map.
RelayAlone ==
    /\ pc[Relay] \in {"new", "drained", "cut", "clear", "returned"}
    /\ stopped <=> pc[Relay] # "new"
    /\ stopped => current = None /\ \A p \in Calls : pc[p] = "returned"

\* The slot that a call holds is the one in the map, and it is held by one.
SlotsHeld ==
    /\ \A p \in Calls : HoldsSlot(p) => at[p].slot = current
    /\ \A p, q \in Calls : HoldsSlot(p) /\ HoldsSlot(q) => p = q
    /\ \A p \in Calls :
          pc[p] \in {"connect", "cut dead", "clear dead"} => cached[at[p].slot] = None

\* What was made has a task; a connection that lives has a session and its token.
ConnsLive ==
    /\ \A c \in Conns : session[c] = "none" <=> c \notin MadeConns
    /\ \A c \in Conns : connected[c] => session[c] = "run" /\ ~cancelled[c]
    /\ \A c \in Conns : c \notin MadeConns => ~cancelled[c]
    /\ \A s \in Slots : cached[s] # None => cached[s] \in MadeConns

\* Where a live connection is found.
LiveIsCached ==
    \A c \in MadeConns : connected[c] =>
        \/ Condemned(c)
        \/ current # None /\ cached[current] = c
        \/ pc[Relay] = "drained" /\ cached[at[Relay].slot] = c

\* The entry that a call holds is the one in the map, while the connection lives.
EntriesHeld ==
    /\ \A p \in Tasks :
          HoldsEntry(p) /\ connected[at[p].conn] => tracks[at[p].conn][at[p].track] = at[p].entry
    /\ \A p, q \in Tasks :
          HoldsEntry(p) /\ HoldsEntry(q) /\ at[p].entry = at[q].entry => p = q

\* What has a task was asked for, over a connection that was made.
SubsMade ==
    /\ \A s \in Subs : cleanup[s] # "none" => s \in MadeSubs
    /\ \A s \in MadeSubs : info[s].conn \in MadeConns

\* A call asks for the subscription.
AskedFor(s) == \E p \in Tasks : pc[p] = "asking" /\ at[p].sub = s

\* Where a live subscription over a live connection is found.
LiveIsListed ==
    \A s \in MadeSubs :
        connected[info[s].conn] /\ upstream[s] \in {"asked", "open"} =>
            /\ tracks[info[s].conn][info[s].track] = info[s].entry
            /\ reader[info[s].entry] = s \/ AskedFor(s)

\* What is cleared, or was found dead, does not live again.
CutIsDead ==
    \A p \in Tasks :
        pc[p] \in {"clear", "clear dead", "cut dead"} => ~connected[at[p].conn]

Spots == [slot : Slots \cup {None}, conn : Conns \cup {None}, track : Tracks \cup {NoTrack},
          entry : Entries \cup {None}, sub : Subs \cup {None}]

IInv ==
    /\ TypeOK
    /\ Located
    /\ Asking
    /\ RelayAlone
    /\ SlotsHeld
    /\ ConnsLive
    /\ LiveIsCached
    /\ EntriesHeld
    /\ SubsMade
    /\ LiveIsListed
    /\ CutIsDead

-----------------------------------------------------------------------------
(* Tasks, and what one of them knows. *)

LEMMA Roles == Calls \subseteq Tasks /\ Relay \in Tasks /\ Relay \notin Calls
  BY RemoteAssumption DEF Tasks, RemoteAssumption

LEMMA Element == ASSUME NEW S, NEW q \in Seq(S), NEW k \in 1..Len(q) PROVE q[k] \in S
  OBVIOUS

LEMMA Appended ==
    ASSUME NEW S, NEW q \in Seq(S), NEW x \in S
    PROVE  /\ Append(q, x) \in Seq(S) /\ Len(q) \in Nat /\ Len(Append(q, x)) = Len(q) + 1
           /\ \A k \in 1..Len(q) : Append(q, x)[k] = q[k]
           /\ Append(q, x)[Len(q) + 1] = x
  OBVIOUS

LEMMA Typed ==
    ASSUME TypeOK
    PROVE  /\ pc \in [Tasks -> Places] /\ at \in [Tasks -> Spots]
           /\ current \in Slots \cup {None}
  BY DEF TypeOK, Spots

LEMMA MadeAreConns ==
    ASSUME IInv PROVE MadeConns \subseteq Conns /\ MadeSubs \subseteq Subs
  BY RemoteAssumption DEF IInv, TypeOK, MadeConns, MadeSubs, Conns, Subs, RemoteAssumption

\* The others stay where they are.
Others(p) == \A q \in Tasks : q # p => pc'[q] = pc[q] /\ at'[q] = at[q]

LEMMA Moved ==
    ASSUME TypeOK, NEW p \in Tasks, NEW to \in Places, Goto(p, to), UNCHANGED at
    PROVE  pc' \in [Tasks -> Places] /\ pc'[p] = to /\ Others(p)
  BY DEF TypeOK, Goto, Others

\* What is known of a subscription.
Infos == [conn : Conns, track : Tracks, entry : Entries]

LEMMA NowhereIsSpot == Nowhere \in Spots
  BY DEF Nowhere, Spots

LEMMA Returned ==
    ASSUME TypeOK, NEW p \in Tasks, Return(p)
    PROVE  /\ pc' \in [Tasks -> Places] /\ pc'[p] = "returned" /\ at' \in [Tasks -> Spots] /\ Others(p)
           /\ ~HoldsSlot(p)' /\ ~HoldsEntry(p)' /\ LocatedAt(p)'
<1>1. pc' \in [Tasks -> Places] /\ pc'[p] = "returned" /\ \A q \in Tasks : q # p => pc'[q] = pc[q]
  BY DEF TypeOK, Return, Goto, Places
<1>2. at' \in [Tasks -> Spots] /\ \A q \in Tasks : q # p => at'[q] = at[q]
  BY Typed, NowhereIsSpot DEF Return
<1>3. ~HoldsSlot(p)' /\ ~HoldsEntry(p)' /\ LocatedAt(p)'
  BY <1>1 DEF HoldsSlot, HoldsEntry, LocatedAt, SlotPlaces, ConnPlaces, EntryPlaces
<1>4. QED
  BY <1>1, <1>2, <1>3 DEF Others

LEMMA NoneIsNone == None \notin Slots /\ None \notin Conns /\ None \notin Entries /\ None \notin Subs
  BY DEF None, Slots, Conns, Entries, Subs

\* Who holds a slot has the one in the map.
LEMMA HolderHasSlot ==
    ASSUME IInv, NEW q \in Calls, HoldsSlot(q)
    PROVE  at[q].slot \in Slots /\ at[q].slot = current /\ current # None
<1>1. pc[q] \in SlotPlaces /\ q \in Tasks
  BY Roles DEF HoldsSlot, SlotPlaces
<1>2. QED
  BY <1>1, NoneIsNone DEF IInv, Located, LocatedAt, SlotsHeld

\* Who holds an entry has one, for a track of a connection.
LEMMA HolderHasEntry ==
    ASSUME IInv, NEW q \in Tasks, HoldsEntry(q)
    PROVE  q \in Calls /\ at[q].entry \in Entries /\ at[q].conn \in MadeConns /\ at[q].track \in Tracks
<1>1. pc[q] \in EntryPlaces /\ pc[q] \in ConnPlaces /\ q \in Calls /\ pc[q] \notin {"new", "returned"}
  BY Roles DEF HoldsEntry, EntryPlaces, ConnPlaces, IInv, RelayAlone, Tasks
<1>2. QED
  BY <1>1, Roles DEF IInv, Located, LocatedAt

LEMMA SpotSlot ==
    ASSUME TypeOK, NEW p \in Tasks, NEW to \in Places, Goto(p, to),
           NEW x \in Slots \cup {None}, at' = [at EXCEPT ![p].slot = x]
    PROVE  /\ pc' \in [Tasks -> Places] /\ pc'[p] = to /\ at' \in [Tasks -> Spots] /\ Others(p)
           /\ at'[p].slot = x /\ at'[p].conn = at[p].conn
           /\ at'[p].track = at[p].track /\ at'[p].entry = at[p].entry /\ at'[p].sub = at[p].sub
<1>1. at \in [Tasks -> Spots]
  BY Typed
<1>2. pc' \in [Tasks -> Places] /\ pc'[p] = to /\ \A q \in Tasks : q # p => pc'[q] = pc[q]
  BY DEF TypeOK, Goto
<1>3. QED
  BY <1>1, <1>2 DEF Spots, Others

LEMMA SpotConn ==
    ASSUME TypeOK, NEW p \in Tasks, NEW to \in Places, Goto(p, to),
           NEW x \in Conns \cup {None}, at' = [at EXCEPT ![p].conn = x]
    PROVE  /\ pc' \in [Tasks -> Places] /\ pc'[p] = to /\ at' \in [Tasks -> Spots] /\ Others(p)
           /\ at'[p].conn = x /\ at'[p].slot = at[p].slot
           /\ at'[p].track = at[p].track /\ at'[p].entry = at[p].entry /\ at'[p].sub = at[p].sub
<1>1. at \in [Tasks -> Spots]
  BY Typed
<1>2. pc' \in [Tasks -> Places] /\ pc'[p] = to /\ \A q \in Tasks : q # p => pc'[q] = pc[q]
  BY DEF TypeOK, Goto
<1>3. QED
  BY <1>1, <1>2 DEF Spots, Others

LEMMA SpotTrack ==
    ASSUME TypeOK, NEW p \in Tasks, NEW to \in Places, Goto(p, to),
           NEW x \in Tracks \cup {NoTrack}, at' = [at EXCEPT ![p].track = x]
    PROVE  /\ pc' \in [Tasks -> Places] /\ pc'[p] = to /\ at' \in [Tasks -> Spots] /\ Others(p)
           /\ at'[p].track = x /\ at'[p].slot = at[p].slot
           /\ at'[p].conn = at[p].conn /\ at'[p].entry = at[p].entry /\ at'[p].sub = at[p].sub
<1>1. at \in [Tasks -> Spots]
  BY Typed
<1>2. pc' \in [Tasks -> Places] /\ pc'[p] = to /\ \A q \in Tasks : q # p => pc'[q] = pc[q]
  BY DEF TypeOK, Goto
<1>3. QED
  BY <1>1, <1>2 DEF Spots, Others

LEMMA SpotEntry ==
    ASSUME TypeOK, NEW p \in Tasks, NEW to \in Places, Goto(p, to),
           NEW x \in Entries \cup {None}, at' = [at EXCEPT ![p].entry = x]
    PROVE  /\ pc' \in [Tasks -> Places] /\ pc'[p] = to /\ at' \in [Tasks -> Spots] /\ Others(p)
           /\ at'[p].entry = x /\ at'[p].slot = at[p].slot
           /\ at'[p].conn = at[p].conn /\ at'[p].track = at[p].track /\ at'[p].sub = at[p].sub
<1>1. at \in [Tasks -> Spots]
  BY Typed
<1>2. pc' \in [Tasks -> Places] /\ pc'[p] = to /\ \A q \in Tasks : q # p => pc'[q] = pc[q]
  BY DEF TypeOK, Goto
<1>3. QED
  BY <1>1, <1>2 DEF Spots, Others

LEMMA SpotSub ==
    ASSUME TypeOK, NEW p \in Tasks, NEW to \in Places, Goto(p, to),
           NEW x \in Subs \cup {None}, at' = [at EXCEPT ![p].sub = x]
    PROVE  /\ pc' \in [Tasks -> Places] /\ pc'[p] = to /\ at' \in [Tasks -> Spots] /\ Others(p)
           /\ at'[p].sub = x /\ at'[p].slot = at[p].slot
           /\ at'[p].conn = at[p].conn /\ at'[p].track = at[p].track /\ at'[p].entry = at[p].entry
<1>1. at \in [Tasks -> Spots]
  BY Typed
<1>2. pc' \in [Tasks -> Places] /\ pc'[p] = to /\ \A q \in Tasks : q # p => pc'[q] = pc[q]
  BY DEF TypeOK, Goto
<1>3. QED
  BY <1>1, <1>2 DEF Spots, Others

-----------------------------------------------------------------------------
(* What a step of one task leaves, for each part of the invariant. *)

\* Connections do not come to life again.
NoneRevives == \A c \in MadeConns : connected'[c] => connected[c]

\* An entry that nobody holds or reads; no other goes from the map of a live connection.
Unused(e) == e = None \/ (reader[e] = None /\ EntryFree(e))

TracksKept ==
    \A c \in MadeConns, t \in Tracks :
        connected'[c] => tracks'[c][t] = tracks[c][t] \/ Unused(tracks[c][t])

LEMMA UnchangedTracks == ASSUME tracks' = tracks PROVE TracksKept
  BY DEF TracksKept

LEMMA LocatedKept ==
    ASSUME IInv, NEW p \in Tasks, Others(p), MadeConns \subseteq MadeConns', LocatedAt(p)'
    PROVE  Located'
  BY DEF IInv, Others, Located, LocatedAt

LEMMA RelayKept ==
    ASSUME IInv, NEW p \in Calls, Others(p), stopped' = stopped, pc[p] # "returned"
    PROVE  RelayAlone'
<1>1. ~stopped /\ pc'[Relay] = pc[Relay] /\ p # Relay
  BY Roles DEF IInv, RelayAlone, Others
<1>2. QED
  BY <1>1 DEF IInv, RelayAlone

LEMMA AskingKept ==
    ASSUME IInv, NEW p \in Tasks, Others(p), UNCHANGED <<info, reader>>, pc'[p] # "asking"
    PROVE  Asking'
<1>1. \A q \in Tasks : pc'[q] = "asking" => pc[q] = "asking" /\ at'[q] = at[q]
  BY DEF Others
<1>2. ASSUME NEW q \in Tasks, at'[q] = at[q], AskingOf(q) PROVE AskingOf(q)'
  BY <1>2 DEF AskingOf, MadeSubs
<1>3. QED
  BY <1>1, <1>2 DEF IInv, Asking

LEMMA SlotsKept ==
    ASSUME IInv, NEW p \in Tasks, Others(p), current' = current,
           \A s \in Slots : cached[s] = None => cached'[s] = None,
           HoldsSlot(p)' => HoldsSlot(p) /\ at'[p].slot = at[p].slot,
           pc'[p] \in {"connect", "cut dead", "clear dead"} => cached'[at'[p].slot] = None
    PROVE  SlotsHeld'
<1>1. \A q \in Calls : HoldsSlot(q)' => HoldsSlot(q) /\ at'[q].slot = at[q].slot
  BY Roles DEF Others, HoldsSlot
<1>2. ASSUME NEW q \in Calls, pc'[q] \in {"connect", "cut dead", "clear dead"}
      PROVE  cached'[at'[q].slot] = None
  <2>1. CASE q = p
    BY <1>2, <2>1
  <2>2. CASE q # p
    <3>1. pc[q] \in {"connect", "cut dead", "clear dead"} /\ at'[q] = at[q] /\ HoldsSlot(q)
      BY <1>2, <2>2, Roles DEF Others, HoldsSlot
    <3>2. QED
      BY <3>1, HolderHasSlot DEF IInv, SlotsHeld
  <2>3. QED
    BY <2>1, <2>2
<1>3. QED
  BY <1>1, <1>2 DEF IInv, SlotsHeld

LEMMA LiveIsCachedKept ==
    ASSUME IInv, NEW p \in Tasks, Others(p), p = Relay => pc[p] # "drained",
           UNCHANGED <<home, current>>, NoneRevives,
           \A s \in Slots : cached'[s] = cached[s] \/ cached[s] = None \/ ~connected'[cached[s]],
           pc[p] = "cut" => ~connected'[at[p].conn]
    PROVE  LiveIsCached'
<1> SUFFICES ASSUME NEW c \in MadeConns, connected'[c]
             PROVE  \/ Condemned(c)'
                    \/ current # None /\ cached'[current] = c
                    \/ pc'[Relay] = "drained" /\ cached'[at'[Relay].slot] = c
  BY DEF LiveIsCached, MadeConns
<1>1. c \in Conns /\ connected[c] /\ c # None
  BY NoneIsNone, MadeAreConns DEF NoneRevives
<1>2. ASSUME Condemned(c) PROVE Condemned(c)'
  BY <1>2 DEF Condemned, Others
<1>3. ASSUME current # None, cached[current] = c PROVE cached'[current] = c
  BY <1>1, <1>3, Typed DEF IInv
<1>4. ASSUME pc[Relay] = "drained", cached[at[Relay].slot] = c
      PROVE  pc'[Relay] = "drained" /\ cached'[at'[Relay].slot] = c
  <2>1. at[Relay].slot \in Slots
    BY <1>4, Roles DEF IInv, Located, LocatedAt, SlotPlaces
  <2>2. QED
    BY <1>1, <1>4, <2>1, Roles DEF Others
<1>5. QED
  BY <1>1, <1>2, <1>3, <1>4 DEF IInv, LiveIsCached

LEMMA EntriesKept ==
    ASSUME IInv, NEW p \in Tasks, Others(p), TracksKept, NoneRevives,
           HoldsEntry(p)' => HoldsEntry(p) /\ at'[p] = at[p]
    PROVE  EntriesHeld'
<1>1. \A q \in Tasks : HoldsEntry(q)' => HoldsEntry(q) /\ at'[q] = at[q]
  BY DEF Others, HoldsEntry
<1>2. ASSUME NEW q \in Tasks, HoldsEntry(q), connected'[at[q].conn]
      PROVE  tracks'[at[q].conn][at[q].track] = at[q].entry
  <2>1. at[q].conn \in MadeConns /\ at[q].track \in Tracks /\ at[q].entry # None
    BY <1>2, HolderHasEntry, NoneIsNone
  <2>2. tracks[at[q].conn][at[q].track] = at[q].entry
    BY <1>2, <2>1 DEF IInv, EntriesHeld, NoneRevives
  <2>3. ~Unused(at[q].entry)
    BY <1>2, <2>1 DEF Unused, EntryFree
  <2>4. QED
    BY <1>2, <2>1, <2>2, <2>3 DEF TracksKept
<1>3. QED
  BY <1>1, <1>2 DEF IInv, EntriesHeld

\* A subscription that lives is asked for, or open.
Live(s) == upstream[s] \in {"asked", "open"}

\* Its entry is read, or the call that asks for it holds it.
LEMMA LiveIsUsed ==
    ASSUME IInv, NEW s \in MadeSubs, connected[info[s].conn], Live(s)
    PROVE  /\ ~Unused(info[s].entry)
           /\ info[s].conn \in MadeConns /\ info[s].track \in Tracks /\ info[s].entry \in Entries
<1>1. s \in Subs /\ s # None
  BY MadeAreConns, NoneIsNone
<1>2. info[s].conn \in MadeConns /\ info[s].track \in Tracks /\ info[s].entry \in Entries
  <2>1. info \in Seq([conn : Conns, track : Tracks, entry : Entries])
    BY DEF IInv, TypeOK
  <2>2. info[s] \in [conn : Conns, track : Tracks, entry : Entries]
    BY <2>1, Element DEF MadeSubs
  <2>3. QED
    BY <2>2 DEF IInv, SubsMade
<1>3. CASE reader[info[s].entry] = s
  BY <1>1, <1>2, <1>3, NoneIsNone DEF Unused
<1>4. CASE AskedFor(s)
  <2>1. PICK q \in Tasks : pc[q] = "asking" /\ at[q].sub = s
    BY <1>4 DEF AskedFor
  <2>2. AskingOf(q) /\ HoldsEntry(q)
    BY <2>1 DEF IInv, Asking, HoldsEntry
  <2>3. at[q].entry = info[s].entry
    BY <2>1, <2>2 DEF AskingOf
  <2>4. QED
    BY <1>2, <2>2, <2>3, NoneIsNone DEF Unused, EntryFree
<1>5. QED
  BY <1>2, <1>3, <1>4 DEF IInv, LiveIsListed, Live

LEMMA ListedKept ==
    ASSUME IInv, NEW p \in Tasks, Others(p), UNCHANGED <<info, reader>>, TracksKept, NoneRevives,
           \A s \in Subs : Live(s)' => Live(s),
           pc[p] = "asking" => upstream'[at[p].sub] \notin {"asked", "open"}
    PROVE  LiveIsListed'
<1> SUFFICES ASSUME NEW s \in MadeSubs, connected'[info[s].conn], Live(s)'
             PROVE  /\ tracks'[info[s].conn][info[s].track] = info[s].entry
                    /\ reader[info[s].entry] = s \/ AskedFor(s)'
  BY DEF LiveIsListed, MadeSubs, Live
<1>1. connected[info[s].conn] /\ Live(s)
  BY MadeAreConns DEF IInv, SubsMade, NoneRevives
<1>2. AskedFor(s) => AskedFor(s)'
  <2>1. \A q \in Tasks : pc[q] = "asking" /\ at[q].sub = s => q # p
    BY DEF Live
  <2>2. QED
    BY <2>1 DEF AskedFor, Others
<1>3. tracks[info[s].conn][info[s].track] = info[s].entry
      /\ (reader[info[s].entry] = s \/ AskedFor(s))
  BY <1>1 DEF IInv, LiveIsListed, Live
<1>4. QED
  BY <1>1, <1>2, <1>3, LiveIsUsed DEF TracksKept

LEMMA CutKept ==
    ASSUME IInv, NEW p \in Tasks, Others(p), NoneRevives,
           pc'[p] \in {"clear", "clear dead", "cut dead"} => ~connected'[at'[p].conn]
    PROVE  CutIsDead'
<1> SUFFICES ASSUME NEW q \in Tasks, q # p, pc'[q] \in {"clear", "clear dead", "cut dead"}
             PROVE  ~connected'[at'[q].conn]
  BY DEF CutIsDead
<1>1. pc[q] = pc'[q] /\ at'[q] = at[q] /\ at[q].conn \in MadeConns
  BY DEF Others, IInv, Located, LocatedAt, ConnPlaces
<1>2. QED
  BY <1>1 DEF IInv, CutIsDead, NoneRevives

-----------------------------------------------------------------------------
(* get_or_connect. *)

LEMMA StartKeeps ==
    ASSUME IInv, NEW p \in Calls, NEW t \in Tracks, Start(p, t) PROVE IInv'
<1>0. /\ t \in Tracks \cup {NoTrack} /\ p \in Tasks /\ at' = [at EXCEPT ![p].track = t]
  BY Roles DEF Start
<1>1. /\ p \in Tasks /\ pc[p] = "new" /\ p # Relay /\ Others(p)
      /\ pc' \in [Tasks -> Places] /\ pc'[p] = "get"
      /\ at' \in [Tasks -> Spots] /\ at'[p].track = t /\ at'[p].slot = at[p].slot
      /\ at'[p].conn = at[p].conn /\ at'[p].entry = at[p].entry /\ at'[p].sub = at[p].sub
      /\ UNCHANGED <<current, slots, cached, home, connected, cancelled, session, tracks,
                  entries, reader, info, upstream, cleanup, stopped>>
  <2>1. /\ pc' \in [Tasks -> Places] /\ pc'[p] = "get" /\ at' \in [Tasks -> Spots] /\ Others(p)
        /\ at'[p].track = t /\ at'[p].slot = at[p].slot
        /\ at'[p].conn = at[p].conn /\ at'[p].entry = at[p].entry /\ at'[p].sub = at[p].sub
    BY <1>0, SpotTrack DEF IInv, Go, Places, Start
  <2>2. QED
    BY <1>0, <2>1, Roles DEF Go, managerVars, connVars, trackVars, subVars, taskVars, Start,
       Places
<1>2. /\ ~HoldsSlot(p)' /\ ~HoldsEntry(p)' /\ NoneRevives /\ LocatedAt(p)'
  BY <1>0, <1>1, Roles DEF HoldsSlot, HoldsEntry, LocatedAt, SlotPlaces, ConnPlaces,
     EntryPlaces, NoneRevives, IInv, Located, MadeConns
<1>3. TypeOK'
  BY <1>1, <1>2, Roles DEF IInv, TypeOK, Spots
<1>4. Located'
  BY <1>1, <1>2, LocatedKept DEF MadeConns
<1>5. Asking'
  BY <1>1, <1>2, AskingKept
<1>6. RelayAlone'
  BY <1>1, <1>2, RelayKept
<1>7. SlotsHeld'
  BY <1>1, <1>2, SlotsKept
<1>8. LiveIsCached'
  BY <1>1, <1>2, LiveIsCachedKept
<1>9. EntriesHeld'
  BY <1>1, <1>2, EntriesKept, UnchangedTracks
<1>10. LiveIsListed'
  BY <1>1, <1>2, ListedKept, UnchangedTracks DEF Live
<1>11. CutIsDead'
  BY <1>1, <1>2, CutKept
<1>12. ConnsLive' /\ SubsMade'
  BY <1>1 DEF IInv, ConnsLive, MadeConns, SubsMade, MadeSubs
<1>13. QED
  BY <1>3, <1>4, <1>5, <1>6, <1>7, <1>8, <1>9, <1>10, <1>11, <1>12 DEF IInv

LEMMA GetSlotKeeps ==
    ASSUME IInv, NEW p \in Calls, GetSlot(p) PROVE IInv'
<1>0. /\ current' \in Slots /\ slots' \in 0..MaxSlots /\ p \in Tasks
      /\ at' = [at EXCEPT ![p].slot = current']
  <2>1. slots \in Nat /\ MaxSlots \in Nat /\ slots <= MaxSlots /\ current \in Slots \cup {None}
    BY RemoteAssumption DEF IInv, TypeOK, RemoteAssumption
  <2>2. QED
    BY <2>1, Roles DEF GetSlot, NextSlot, Slots, None, managerVars
<1>1. /\ p \in Tasks /\ pc[p] = "get" /\ p # Relay /\ Others(p)
      /\ pc' \in [Tasks -> Places] /\ pc'[p] = "lock"
      /\ at' \in [Tasks -> Spots] /\ at'[p].slot = current' /\ at'[p].conn = at[p].conn
      /\ at'[p].track = at[p].track /\ at'[p].entry = at[p].entry /\ at'[p].sub = at[p].sub
      /\ current' \in Slots /\ slots' \in 0..MaxSlots
      /\ current # None => current' = current
      /\ UNCHANGED <<cached, home, connected, cancelled, session, tracks, entries, reader, info,
                  upstream, cleanup, stopped>>
  <2>1. /\ pc' \in [Tasks -> Places] /\ pc'[p] = "lock" /\ at' \in [Tasks -> Spots] /\ Others(p)
        /\ at'[p].slot = current' /\ at'[p].conn = at[p].conn
        /\ at'[p].track = at[p].track /\ at'[p].entry = at[p].entry /\ at'[p].sub = at[p].sub
    BY <1>0, SpotSlot DEF IInv, GetSlot, Go, Places
  <2>2. QED
    BY <1>0, <2>1, Roles DEF GetSlot, Go, managerVars, connVars, trackVars, subVars,
       taskVars, Places
<1>2. /\ ~HoldsSlot(p)' /\ ~HoldsEntry(p)' /\ NoneRevives /\ LocatedAt(p)'
  BY <1>0, <1>1, Roles DEF HoldsSlot, HoldsEntry, LocatedAt, SlotPlaces, ConnPlaces,
     EntryPlaces, NoneRevives, IInv, Located, MadeConns
<1>3. TypeOK'
  BY <1>1, <1>2, Roles DEF IInv, TypeOK, Spots
<1>4. Located'
  BY <1>1, <1>2, LocatedKept DEF MadeConns
<1>5. Asking'
  BY <1>1, <1>2, AskingKept
<1>6. RelayAlone'
  BY <1>1, <1>2, RelayKept
<1>7. SlotsHeld'
  <2>1. \A q \in Calls : HoldsSlot(q)' => /\ HoldsSlot(q) /\ current' = current
                                         /\ at'[q] = at[q] /\ pc'[q] = pc[q]
    BY <1>1, <1>2, Roles, HolderHasSlot DEF Others, HoldsSlot
  <2>2. \A q \in Calls : pc'[q] \in {"connect", "cut dead", "clear dead"} => HoldsSlot(q)'
    BY DEF HoldsSlot
  <2>3. QED
    BY <1>1, <2>1, <2>2 DEF IInv, SlotsHeld
<1>8. LiveIsCached'
  BY <1>1, <1>2, Roles DEF IInv, LiveIsCached, Condemned, Others, MadeConns
<1>9. EntriesHeld'
  BY <1>1, <1>2, EntriesKept, UnchangedTracks
<1>10. LiveIsListed'
  BY <1>1, <1>2, ListedKept, UnchangedTracks DEF Live
<1>11. CutIsDead'
  BY <1>1, <1>2, CutKept
<1>12. ConnsLive' /\ SubsMade'
  BY <1>1 DEF IInv, ConnsLive, MadeConns, SubsMade, MadeSubs
<1>13. QED
  BY <1>3, <1>4, <1>5, <1>6, <1>7, <1>8, <1>9, <1>10, <1>11, <1>12 DEF IInv

LEMMA LockSlotKeeps ==
    ASSUME IInv, NEW p \in Calls, LockSlot(p) PROVE IInv'
<1>1. /\ p \in Tasks /\ pc[p] = "lock" /\ p # Relay /\ Others(p)
      /\ pc' \in [Tasks -> Places] /\ pc'[p] \in {"examine", "get"}
      /\ pc'[p] = "examine" => current = at[p].slot
      /\ SlotFree(at[p].slot)
      /\ UNCHANGED <<current, slots, cached, home, connected, cancelled, session, tracks,
                  entries, reader, info, upstream, cleanup, at, stopped>>
  BY Roles, Moved DEF IInv, LockSlot, Go, Places, managerVars, connVars, trackVars,
     subVars, taskVars
<1>2. /\ ~HoldsEntry(p)' /\ NoneRevives /\ LocatedAt(p)'
  BY <1>1, Roles DEF HoldsSlot, HoldsEntry, LocatedAt, SlotPlaces, ConnPlaces, EntryPlaces,
     NoneRevives, IInv, Located, MadeConns
<1>3. pc'[p] = "examine" => \A q \in Calls : ~HoldsSlot(q)
  BY <1>1, Roles DEF IInv, SlotsHeld, SlotFree
<1>4. TypeOK'
  BY <1>1, <1>2, Roles DEF IInv, TypeOK, Spots
<1>5. Located'
  BY <1>1, <1>2, LocatedKept DEF MadeConns
<1>6. Asking'
  BY <1>1, <1>2, AskingKept
<1>7. RelayAlone'
  BY <1>1, <1>2, RelayKept
<1>8. SlotsHeld'
  <2>1. \A q \in Calls : q # p => HoldsSlot(q)' = HoldsSlot(q) /\ pc'[q] = pc[q]
    BY <1>1, Roles DEF Others, HoldsSlot
  <2>2. HoldsSlot(p)' => pc'[p] = "examine"
    BY <1>1 DEF HoldsSlot
  <2>3. QED
    BY <1>1, <1>3, <2>1, <2>2 DEF IInv, SlotsHeld
<1>9. LiveIsCached'
  BY <1>1, <1>2, LiveIsCachedKept
<1>10. EntriesHeld'
  BY <1>1, <1>2, EntriesKept, UnchangedTracks
<1>11. LiveIsListed'
  BY <1>1, <1>2, ListedKept, UnchangedTracks DEF Live
<1>12. CutIsDead'
  BY <1>1, <1>2, CutKept
<1>13. ConnsLive' /\ SubsMade'
  BY <1>1 DEF IInv, ConnsLive, MadeConns, SubsMade, MadeSubs
<1>14. QED
  BY <1>4, <1>5, <1>6, <1>7, <1>8, <1>9, <1>10, <1>11, <1>12, <1>13 DEF IInv

LEMMA ExamineKeeps ==
    ASSUME IInv, NEW p \in Calls, Examine(p) PROVE IInv'
<1>a. PICK found \in Conns \cup {None} : found = cached[at[p].slot]
  BY Roles, HolderHasSlot DEF IInv, TypeOK, Examine, HoldsSlot
<1>b. PICK to \in {"subscribe", "connect", "cut dead"} : Goto(p, to)
  BY <1>a DEF Examine
<1>0. /\ p \in Tasks /\ at[p].slot \in Slots /\ pc[p] = "examine"
      /\ found \in Conns \cup {None} /\ found = cached[at[p].slot]
      /\ to \in {"subscribe", "connect", "cut dead"} /\ to \in Places
      /\ Goto(p, to) /\ TypeOK
      /\ at' = [at EXCEPT ![p].conn = found]
      /\ \/ /\ found # None /\ connected[found]
            /\ to = "subscribe" /\ cached' = cached
         \/ /\ cached' = [cached EXCEPT ![at[p].slot] = None]
            /\ \/ found = None /\ to = "connect"
               \/ /\ found # None /\ ~connected[found]
                  /\ to = "cut dead"
      /\ UNCHANGED <<current, slots, connVars, trackVars, subVars, stopped>>
  <2>1. to \in Places /\ at[p].slot \in Slots /\ TypeOK /\ pc \in [Tasks -> Places]
    BY <1>b, Roles, Typed, HolderHasSlot DEF IInv, Examine, HoldsSlot, Places
  <2>2. pc'[p] = to
    BY <1>b, <2>1, Roles DEF Goto
  <2>3. QED
    BY <1>a, <1>b, <2>1, <2>2, Roles DEF Examine, Goto
<1>1. /\ p \in Tasks /\ pc[p] = "examine" /\ p # Relay /\ Others(p)
      /\ pc' \in [Tasks -> Places] /\ pc'[p] = to
      /\ at' \in [Tasks -> Spots] /\ at'[p].conn = found /\ at'[p].slot = at[p].slot
      /\ at'[p].track = at[p].track /\ at'[p].entry = at[p].entry /\ at'[p].sub = at[p].sub
      /\ to # "asking" /\ to # "cut" /\ to \in {"subscribe", "connect", "cut dead"}
      /\ UNCHANGED <<current, slots, home, connected, cancelled, session, tracks, entries,
                  reader, info, upstream, cleanup, stopped>>
  <2>1. /\ pc' \in [Tasks -> Places] /\ pc'[p] = to /\ at' \in [Tasks -> Spots] /\ Others(p)
        /\ at'[p].conn = found /\ at'[p].slot = at[p].slot
        /\ at'[p].track = at[p].track /\ at'[p].entry = at[p].entry /\ at'[p].sub = at[p].sub
    BY <1>0, SpotConn
  <2>2. QED
    BY <1>0, <2>1, Roles DEF Examine, Go, managerVars, connVars, trackVars, subVars, taskVars
<1>2. /\ ~HoldsEntry(p)' /\ NoneRevives /\ HoldsSlot(p)
      /\ cached' \in [Slots -> Conns \cup {None}] /\ at[p].slot \in Slots
      /\ \A s \in Slots : cached'[s] = cached[s] \/ (cached'[s] = None /\ ~connected[cached[s]]) \/ cached[s] = None
      /\ to # "subscribe" => cached'[at[p].slot] = None
      /\ pc'[p] \in {"connect", "cut dead", "clear dead"} => cached'[at'[p].slot] = None
      /\ \A s \in Slots : cached'[s] = cached[s] \/ cached'[s] = None
      /\ to = "cut dead" => ~connected[found]
      /\ LocatedAt(p)'
  <2>1. ~HoldsEntry(p)' /\ NoneRevives /\ HoldsSlot(p)
    BY <1>0, <1>1, Roles DEF HoldsEntry, HoldsSlot, NoneRevives
  <2>2. cached' \in [Slots -> Conns \cup {None}] /\ at[p].slot \in Slots
    BY <1>0, <1>1, Roles DEF TypeOK
  <2>3. \A s \in Slots : cached'[s] = cached[s] \/ (cached'[s] = None /\ ~connected[cached[s]]) \/ cached[s] = None
    BY <1>0, <1>1, Roles DEF TypeOK
  <2>4. to # "subscribe" => cached'[at[p].slot] = None
    BY <1>0, <1>1, Roles DEF TypeOK
  <2>5. pc'[p] \in {"connect", "cut dead", "clear dead"} => cached'[at'[p].slot] = None
    BY <1>0, <1>1, Roles, <2>4
  <2>6. \A s \in Slots : cached'[s] = cached[s] \/ cached'[s] = None
    BY <1>0, <1>1, Roles DEF TypeOK
  <2>7. to = "cut dead" => ~connected[found]
    BY <1>0, <1>1, Roles
  <2>8. LocatedAt(p)'
    BY <1>0, <1>1, Roles DEF IInv, Located, ConnsLive, LocatedAt, SlotPlaces, ConnPlaces,
       EntryPlaces, MadeConns
  <2>9. QED
    BY <2>1, <2>2, <2>3, <2>4, <2>5, <2>6, <2>7, <2>8
<1>3. TypeOK'
  BY <1>1, <1>2, Roles DEF IInv, TypeOK, Spots
<1>4. Located'
  BY <1>1, <1>2, LocatedKept DEF MadeConns
<1>5. Asking'
  BY <1>1, <1>2, AskingKept
<1>6. RelayAlone'
  BY <1>1, <1>2, RelayKept
<1>7. SlotsHeld'
  BY <1>1, <1>2, SlotsKept
<1>8. ConnsLive'
  BY <1>1, <1>2, Roles DEF IInv, ConnsLive, MadeConns
<1>9. LiveIsCached'
  BY <1>1, <1>2, LiveIsCachedKept
<1>10. EntriesHeld'
  BY <1>1, <1>2, EntriesKept, UnchangedTracks
<1>11. LiveIsListed'
  BY <1>1, <1>2, ListedKept, UnchangedTracks DEF Live
<1>12. CutIsDead'
  BY <1>1, <1>2, CutKept
<1>13. SubsMade'
  BY <1>1 DEF IInv, SubsMade, MadeSubs, MadeConns
<1>14. QED
  BY <1>3, <1>4, <1>5, <1>6, <1>7, <1>8, <1>9, <1>10, <1>11, <1>12, <1>13 DEF IInv

LEMMA ConnectFailsKeeps ==
    ASSUME IInv, NEW p \in Calls, ConnectFails(p) PROVE IInv'
<1>1. /\ p \in Tasks /\ pc[p] = "connect" /\ p # Relay /\ Others(p)
      /\ pc' \in [Tasks -> Places] /\ pc'[p] = "forget"
      /\ UNCHANGED <<current, slots, cached, home, connected, cancelled, session, tracks,
                  entries, reader, info, upstream, cleanup, at, stopped>>
  BY Roles, Moved DEF IInv, ConnectFails, Go, Places, managerVars, connVars, trackVars,
     subVars, taskVars
<1>2. /\ ~HoldsSlot(p)' /\ ~HoldsEntry(p)' /\ NoneRevives /\ LocatedAt(p)'
  BY <1>1, Roles DEF HoldsSlot, HoldsEntry, LocatedAt, SlotPlaces, ConnPlaces, EntryPlaces,
     NoneRevives, IInv, Located, MadeConns
<1>3. TypeOK'
  BY <1>1, <1>2, Roles DEF IInv, TypeOK, Spots
<1>4. Located'
  BY <1>1, <1>2, LocatedKept DEF MadeConns
<1>5. Asking'
  BY <1>1, <1>2, AskingKept
<1>6. RelayAlone'
  BY <1>1, <1>2, RelayKept
<1>7. SlotsHeld'
  BY <1>1, <1>2, SlotsKept
<1>8. LiveIsCached'
  BY <1>1, <1>2, LiveIsCachedKept
<1>9. EntriesHeld'
  BY <1>1, <1>2, EntriesKept, UnchangedTracks
<1>10. LiveIsListed'
  BY <1>1, <1>2, ListedKept, UnchangedTracks DEF Live
<1>11. CutIsDead'
  BY <1>1, <1>2, CutKept
<1>12. ConnsLive' /\ SubsMade'
  BY <1>1 DEF IInv, ConnsLive, MadeConns, SubsMade, MadeSubs
<1>13. QED
  BY <1>3, <1>4, <1>5, <1>6, <1>7, <1>8, <1>9, <1>10, <1>11, <1>12 DEF IInv

LEMMA CheckConnectedKeeps ==
    ASSUME IInv, NEW p \in Calls, CheckConnected(p) PROVE IInv'
<1>1. /\ p \in Tasks /\ pc[p] = "subscribe" /\ p # Relay /\ Others(p)
      /\ pc' \in [Tasks -> Places] /\ pc'[p] \in {"get track", "failed"}
      /\ UNCHANGED <<current, slots, cached, home, connected, cancelled, session, tracks,
                  entries, reader, info, upstream, cleanup, at, stopped>>
  BY Roles, Moved DEF IInv, CheckConnected, Go, Places, managerVars, connVars, trackVars,
     subVars, taskVars
<1>2. /\ ~HoldsSlot(p)' /\ ~HoldsEntry(p)' /\ NoneRevives /\ LocatedAt(p)'
  BY <1>1, Roles DEF HoldsSlot, HoldsEntry, LocatedAt, SlotPlaces, ConnPlaces, EntryPlaces,
     NoneRevives, IInv, Located, MadeConns
<1>3. TypeOK'
  BY <1>1, <1>2, Roles DEF IInv, TypeOK, Spots
<1>4. Located'
  BY <1>1, <1>2, LocatedKept DEF MadeConns
<1>5. Asking'
  BY <1>1, <1>2, AskingKept
<1>6. RelayAlone'
  BY <1>1, <1>2, RelayKept
<1>7. SlotsHeld'
  BY <1>1, <1>2, SlotsKept
<1>8. LiveIsCached'
  BY <1>1, <1>2, LiveIsCachedKept
<1>9. EntriesHeld'
  BY <1>1, <1>2, EntriesKept, UnchangedTracks
<1>10. LiveIsListed'
  BY <1>1, <1>2, ListedKept, UnchangedTracks DEF Live
<1>11. CutIsDead'
  BY <1>1, <1>2, CutKept
<1>12. ConnsLive' /\ SubsMade'
  BY <1>1 DEF IInv, ConnsLive, MadeConns, SubsMade, MadeSubs
<1>13. QED
  BY <1>3, <1>4, <1>5, <1>6, <1>7, <1>8, <1>9, <1>10, <1>11, <1>12 DEF IInv

LEMMA LockEntryKeeps ==
    ASSUME IInv, NEW p \in Calls, LockEntry(p) PROVE IInv'
<1>1. /\ p \in Tasks /\ pc[p] = "lock track" /\ p # Relay /\ Others(p)
      /\ pc' \in [Tasks -> Places] /\ pc'[p] \in {"examine track", "subscribe"}
      /\ pc'[p] = "examine track" => tracks[at[p].conn][at[p].track] = at[p].entry
      /\ EntryFree(at[p].entry)
      /\ UNCHANGED <<current, slots, cached, home, connected, cancelled, session, tracks,
                  entries, reader, info, upstream, cleanup, at, stopped>>
  BY Roles, Moved DEF IInv, LockEntry, Go, Places, managerVars, connVars, trackVars,
     subVars, taskVars
<1>2. /\ ~HoldsSlot(p)' /\ NoneRevives /\ LocatedAt(p)'
  BY <1>1, Roles DEF HoldsSlot, HoldsEntry, LocatedAt, SlotPlaces, ConnPlaces, EntryPlaces,
     NoneRevives, IInv, Located, MadeConns
<1>3. \A q \in Tasks : HoldsEntry(q) => at[q].entry # at[p].entry
  BY <1>1 DEF EntryFree
<1>4. TypeOK'
  BY <1>1, <1>2, Roles DEF IInv, TypeOK, Spots
<1>5. Located'
  BY <1>1, <1>2, LocatedKept DEF MadeConns
<1>6. Asking'
  BY <1>1, <1>2, AskingKept
<1>7. RelayAlone'
  BY <1>1, <1>2, RelayKept
<1>8. SlotsHeld'
  BY <1>1, <1>2, SlotsKept
<1>9. LiveIsCached'
  BY <1>1, <1>2, LiveIsCachedKept
<1>10. EntriesHeld'
  <2>1. \A q \in Tasks : q # p => HoldsEntry(q)' = HoldsEntry(q) /\ pc'[q] = pc[q]
    BY <1>1, Roles DEF Others, HoldsEntry
  <2>2. HoldsEntry(p)' => pc'[p] = "examine track"
    BY <1>1 DEF HoldsEntry
  <2>3. QED
    BY <1>1, <1>3, <2>1, <2>2 DEF IInv, EntriesHeld
<1>11. LiveIsListed'
  BY <1>1, <1>2, ListedKept, UnchangedTracks DEF Live
<1>12. CutIsDead'
  BY <1>1, <1>2, CutKept
<1>13. ConnsLive' /\ SubsMade'
  BY <1>1 DEF IInv, ConnsLive, MadeConns, SubsMade, MadeSubs
<1>14. QED
  BY <1>4, <1>5, <1>6, <1>7, <1>8, <1>9, <1>10, <1>11, <1>12, <1>13 DEF IInv

LEMMA ConnectKeeps ==
    ASSUME IInv, NEW p \in Calls, Connect(p) PROVE IInv'
<1>a. PICK c \in Conns : c = Len(home) + 1
  BY DEF Connect
<1>b. /\ c \notin MadeConns /\ MadeConns' = MadeConns \cup {c} /\ Len(home') <= MaxConns
      /\ home' \in Seq(Slots) /\ c # None
  <2>1. home \in Seq(Slots) /\ at[p].slot \in Slots /\ home' = Append(home, at[p].slot)
    BY HolderHasSlot DEF IInv, TypeOK, Connect, Go, HoldsSlot
  <2>2. /\ home' \in Seq(Slots) /\ Len(home) \in Nat /\ Len(home') = Len(home) + 1
    BY <2>1, Appended
  <2>3. QED
    BY <1>a, <2>2, NoneIsNone, RemoteAssumption DEF MadeConns, Conns, RemoteAssumption
<1>0. /\ TypeOK /\ p \in Tasks /\ p # Relay /\ pc[p] = "connect" /\ Goto(p, "subscribe") /\ "subscribe" \in Places
      /\ at' = [at EXCEPT ![p].conn = c]
      /\ c \in Conns \cup {None}
  BY <1>a, Roles DEF IInv, Connect, Go, Places
<1>1. /\ pc' \in [Tasks -> Places] /\ pc'[p] = "subscribe" /\ at' \in [Tasks -> Spots] /\ Others(p)
      /\ at'[p].conn = c /\ at'[p].slot = at[p].slot
      /\ at'[p].track = at[p].track /\ at'[p].entry = at[p].entry /\ at'[p].sub = at[p].sub
  BY <1>0, SpotConn
<1>2. /\ at[p].slot \in Slots /\ at[p].slot = current /\ current # None
      /\ cached[current] = None /\ ~stopped
  <2>1. HoldsSlot(p)
    BY <1>0 DEF HoldsSlot
  <2>2. at[p].slot \in Slots /\ at[p].slot = current /\ current # None
    BY <2>1, HolderHasSlot
  <2>3. QED
    BY <1>0, <2>2 DEF IInv, SlotsHeld, RelayAlone
<1>3. /\ connected' \in [Conns -> BOOLEAN] /\ connected'[c] = TRUE
      /\ \A d \in Conns : d # c => connected'[d] = connected[d]
      /\ session' \in [Conns -> {"none", "run", "clear", "forget", "over"}] /\ session'[c] = "run"
      /\ \A d \in Conns : d # c => session'[d] = session[d]
  BY <1>a DEF IInv, TypeOK, Connect
<1>4. /\ cached' \in [Slots -> Conns \cup {None}] /\ cached'[current] = c
      /\ \A s \in Slots : s # current => cached'[s] = cached[s]
  BY <1>a, <1>2 DEF IInv, TypeOK, Connect
<1>5. UNCHANGED <<current, slots, cancelled, tracks, entries, reader, info, upstream, cleanup, stopped>>
  BY DEF Connect, trackVars, subVars
<1>6. NoneRevives /\ TracksKept /\ ~HoldsEntry(p)' /\ LocatedAt(p)'
  <2>1. NoneRevives
    BY <1>b, <1>3, MadeAreConns DEF NoneRevives
  <2>2. at[p].track \in Tracks
    BY <1>0 DEF IInv, Located, LocatedAt
  <2>3. c \in MadeConns'
    BY <1>b
  <2>4. LocatedAt(p)'
    BY <1>0, <1>1, <2>2, <2>3 DEF LocatedAt, SlotPlaces, EntryPlaces
  <2>5. QED
    BY <1>1, <1>5, <2>1, <2>4, UnchangedTracks DEF HoldsEntry
<1>7. TypeOK'
  BY <1>1, <1>3, <1>4, <1>5, <1>b DEF IInv, TypeOK, Spots
<1>8. Located'
  BY <1>0, <1>1, <1>6, <1>b, LocatedKept
<1>9. Asking'
  BY <1>0, <1>1, <1>5, AskingKept
<1>10. RelayAlone'
  BY <1>0, <1>1, <1>5, RelayKept
<1>11. SlotsHeld'
  <2>1. \A q \in Calls : ~HoldsSlot(q)'
    <3>1. \A q \in Calls : q # p => ~HoldsSlot(q)
      BY <1>0 DEF IInv, SlotsHeld, HoldsSlot
    <3>2. QED
      BY <1>0, <1>1, <3>1, Roles DEF Others, HoldsSlot
  <2>2. \A q \in Calls : pc'[q] \in {"connect", "cut dead", "clear dead"} => HoldsSlot(q)'
    BY DEF HoldsSlot
  <2>3. QED
    BY <2>1, <2>2 DEF SlotsHeld
<1>12. ConnsLive'
  <2>1. \A d \in Conns : session'[d] = "none" <=> d \notin MadeConns'
    BY <1>b, <1>3 DEF IInv, ConnsLive
  <2>2. \A d \in Conns : connected'[d] => session'[d] = "run" /\ ~cancelled[d]
    BY <1>b, <1>3 DEF IInv, ConnsLive
  <2>3. \A s \in Slots : cached'[s] # None => cached'[s] \in MadeConns'
    BY <1>b, <1>4 DEF IInv, ConnsLive
  <2>4. QED
    BY <1>b, <1>5, <2>1, <2>2, <2>3 DEF IInv, ConnsLive
<1>13. LiveIsCached'
  <2> SUFFICES ASSUME NEW d \in MadeConns', connected'[d]
               PROVE  Condemned(d)' \/ (current' # None /\ cached'[current'] = d)
    BY DEF LiveIsCached
  <2>1. CASE d = c
    BY <1>2, <1>4, <1>5, <2>1
  <2>2. CASE d # c
    <3>1. d \in MadeConns /\ d \in Conns /\ connected[d] /\ d # None
      BY <1>b, <1>3, <2>2, MadeAreConns, NoneIsNone
    <3>2. pc[Relay] # "drained"
      BY <1>2 DEF IInv, RelayAlone
    <3>3. Condemned(d)
      BY <1>2, <3>1, <3>2 DEF IInv, LiveIsCached
    <3>4. QED
      BY <1>0, <1>1, <3>3 DEF Condemned, Others
  <2>3. QED
    BY <2>1, <2>2
<1>14. EntriesHeld'
  BY <1>0, <1>1, <1>6, EntriesKept
<1>15. SubsMade'
  BY <1>5, <1>b DEF IInv, SubsMade, MadeSubs
<1>16. LiveIsListed'
  BY <1>0, <1>1, <1>5, <1>6, ListedKept DEF Live
<1>17. CutIsDead'
  BY <1>0, <1>1, <1>6, CutKept
<1>18. QED
  BY <1>7, <1>8, <1>9, <1>10, <1>11, <1>12, <1>13, <1>14, <1>15, <1>16, <1>17 DEF IInv

LEMMA ForgetsSlot ==
    ASSUME IInv, NEW s \in Slots, SlotFree(s), current' = ForgetSlot(s)
    PROVE  /\ current' \in Slots \cup {None}
           /\ current' = current \/ (cached[current] = None /\ \A q \in Calls : ~HoldsSlot(q))
  <1>1. current = s => \A q \in Calls : ~HoldsSlot(q)
    BY HolderHasSlot, Roles DEF SlotFree
  <1>2. QED
    BY <1>1 DEF ForgetSlot, IInv, TypeOK

\* The slot in the map may go when nobody holds it and nothing is in it.
LEMMA ForgetKept ==
    ASSUME IInv, NEW s \in Slots, SlotFree(s), current' = ForgetSlot(s), UNCHANGED <<cached, home, connected>>,
           NEW p \in Tasks, Others(p), ~HoldsSlot(p)', p = Relay => pc[p] # "drained",
           pc[p] # "cut"
    PROVE  /\ current' \in Slots \cup {None}
           /\ SlotsHeld' /\ LiveIsCached'
<1>1. current' \in Slots \cup {None}
  BY ForgetsSlot
<1>2. \A q \in Calls : HoldsSlot(q)' => HoldsSlot(q) /\ current' = current /\ at'[q] = at[q] /\ pc'[q] = pc[q]
  BY ForgetsSlot, Roles DEF Others, HoldsSlot
<1>3. \A q \in Calls : pc'[q] \in {"connect", "cut dead", "clear dead"} => HoldsSlot(q)'
  BY DEF HoldsSlot
<1>4. SlotsHeld'
  BY <1>2, <1>3 DEF IInv, SlotsHeld
<1>5. LiveIsCached'
  <2> SUFFICES ASSUME NEW c \in MadeConns, connected[c]
               PROVE  \/ Condemned(c)' \/ (current' # None /\ cached[current'] = c)
                      \/ (pc'[Relay] = "drained" /\ cached[at'[Relay].slot] = c)
    BY DEF LiveIsCached, MadeConns
  <2>1. c # None
    BY MadeAreConns, NoneIsNone
  <2>2. CASE Condemned(c)
    BY <2>2 DEF Condemned, Others
  <2>3. CASE current # None /\ cached[current] = c
    BY <2>1, <2>3, ForgetsSlot
  <2>4. CASE pc[Relay] = "drained" /\ cached[at[Relay].slot] = c
    BY <2>4, Roles DEF Others
  <2>5. QED
    BY <2>2, <2>3, <2>4 DEF IInv, LiveIsCached
<1>6. QED
  BY <1>1, <1>4, <1>5

LEMMA ForgetKeeps ==
    ASSUME IInv, NEW p \in Calls, Forget(p) PROVE IInv'
<1>1. /\ TypeOK /\ p \in Tasks /\ p # Relay /\ pc[p] = "forget" /\ Return(p)
      /\ at[p].slot \in Slots /\ SlotFree(at[p].slot) /\ current' = ForgetSlot(at[p].slot)
      /\ UNCHANGED <<slots, cached, home, connected, cancelled, session, tracks, entries,
                  reader, info, upstream, cleanup, stopped>>
  BY Roles DEF IInv, Forget, Located, LocatedAt, SlotPlaces, connVars, trackVars, subVars
<1>2. /\ pc' \in [Tasks -> Places] /\ pc'[p] = "returned" /\ at' \in [Tasks -> Spots] /\ Others(p)
      /\ ~HoldsSlot(p)' /\ ~HoldsEntry(p)' /\ LocatedAt(p)'
  BY <1>1, Returned
<1>3. NoneRevives /\ current' \in Slots \cup {None} /\ SlotsHeld' /\ LiveIsCached'
  <2>1. NoneRevives
    BY <1>1 DEF NoneRevives
  <2>2. QED
    BY <1>1, <1>2, <2>1, ForgetKept
<1>4. TypeOK'
  BY <1>1, <1>2, <1>3 DEF IInv, TypeOK, Spots
<1>5. Located'
  BY <1>1, <1>2, <1>3, LocatedKept DEF MadeConns
<1>6. Asking'
  BY <1>1, <1>2, <1>3, AskingKept
<1>7. RelayAlone'
  BY <1>1, <1>2, <1>3, RelayKept
<1>8. SlotsHeld'
  BY <1>3
<1>9. LiveIsCached'
  BY <1>3
<1>10. EntriesHeld'
  BY <1>1, <1>2, <1>3, EntriesKept, UnchangedTracks
<1>11. LiveIsListed'
  BY <1>1, <1>2, <1>3, ListedKept, UnchangedTracks DEF Live
<1>12. CutIsDead'
  BY <1>1, <1>2, <1>3, CutKept
<1>13. ConnsLive' /\ SubsMade'
  BY <1>1, <1>2, <1>3 DEF IInv, ConnsLive, MadeConns, SubsMade, MadeSubs
<1>14. QED
  BY <1>4, <1>5, <1>6, <1>7, <1>8, <1>9, <1>10, <1>11, <1>12, <1>13 DEF IInv

-----------------------------------------------------------------------------
(* Remote::shutdown. *)

LEMMA CutKeeps ==
    ASSUME IInv, NEW p \in Tasks, Cut(p) PROVE IInv'
<1>a. PICK to \in {"clear", "clear dead"} :
        /\ Goto(p, to)
        /\ \/ pc[p] = "cut" /\ to = "clear"
           \/ pc[p] = "cut dead" /\ to = "clear dead"
  BY DEF Cut
<1>b. PICK c \in MadeConns : c = at[p].conn
  BY <1>a DEF IInv, Located, LocatedAt, ConnPlaces
<1>1. /\ TypeOK /\ to \in Places /\ to \in {"clear", "clear dead"} /\ c \in MadeConns /\ c \in Conns
      /\ c = at[p].conn /\ Goto(p, to)
      /\ \/ pc[p] = "cut" /\ to = "clear"
         \/ pc[p] = "cut dead" /\ to = "clear dead"
      /\ cancelled' = [cancelled EXCEPT ![c] = TRUE] /\ connected' = [connected EXCEPT ![c] = FALSE]
      /\ UNCHANGED <<current, slots, cached, home, session, tracks, entries, reader, info,
                  upstream, cleanup, at, stopped>>
  BY <1>a, <1>b, MadeAreConns DEF IInv, Cut, Places, managerVars, trackVars, subVars
<1>2. pc' \in [Tasks -> Places] /\ pc'[p] = to /\ Others(p)
  BY <1>1, Moved
<1>3. /\ connected' \in [Conns -> BOOLEAN] /\ connected'[c] = FALSE
      /\ cancelled' \in [Conns -> BOOLEAN]
      /\ \A d \in Conns : d # c => connected'[d] = connected[d] /\ cancelled'[d] = cancelled[d]
  BY <1>1 DEF TypeOK
<1>4. ~HoldsEntry(p)' /\ (HoldsSlot(p)' => HoldsSlot(p)) /\ NoneRevives /\ LocatedAt(p)'
  <2>1. ~HoldsEntry(p)' /\ (HoldsSlot(p)' => HoldsSlot(p))
    BY <1>1, <1>2 DEF HoldsEntry, HoldsSlot
  <2>2. NoneRevives
    BY <1>3, MadeAreConns DEF NoneRevives
  <2>3. LocatedAt(p)'
    BY <1>1, <1>2 DEF IInv, Located, LocatedAt, SlotPlaces, ConnPlaces, EntryPlaces, MadeConns
  <2>4. QED
    BY <2>1, <2>2, <2>3
<1>5. TypeOK'
  BY <1>1, <1>2, <1>3 DEF TypeOK
<1>6. Located'
  BY <1>1, <1>2, <1>4, LocatedKept DEF MadeConns
<1>7. Asking'
  BY <1>1, <1>2, AskingKept
<1>8. RelayAlone'
  <2>1. CASE p = Relay
    BY <1>1, <1>2, <2>1, Roles DEF IInv, RelayAlone, Others
  <2>2. CASE p \in Calls
    BY <1>1, <1>2, <2>2, RelayKept
  <2>3. QED
    BY <2>1, <2>2 DEF Tasks
<1>9. SlotsHeld'
  <2>1. pc'[p] \in {"connect", "cut dead", "clear dead"} => cached'[at'[p].slot] = None
    <3>1. CASE p \in Calls
      BY <1>1, <1>2, <3>1 DEF IInv, SlotsHeld
    <3>2. CASE p = Relay
      BY <1>1, <1>2, <3>2 DEF IInv, RelayAlone
    <3>3. QED
      BY <3>1, <3>2 DEF Tasks
  <2>2. QED
    BY <1>1, <1>2, <1>4, <2>1, SlotsKept
<1>10. ConnsLive'
  BY <1>1, <1>3 DEF IInv, ConnsLive, MadeConns
<1>11. LiveIsCached'
  BY <1>1, <1>2, <1>3, <1>4, LiveIsCachedKept
<1>12. EntriesHeld'
  BY <1>1, <1>2, <1>4, EntriesKept, UnchangedTracks
<1>13. LiveIsListed'
  BY <1>1, <1>2, <1>4, ListedKept, UnchangedTracks DEF Live
<1>14. CutIsDead'
  BY <1>1, <1>2, <1>3, <1>4, CutKept
<1>15. SubsMade'
  BY <1>1, <1>2, <1>3, <1>4 DEF IInv, SubsMade, MadeSubs, MadeConns
<1>16. QED
  BY <1>5, <1>6, <1>7, <1>8, <1>9, <1>10, <1>11, <1>12, <1>13, <1>14, <1>15 DEF IInv

LEMMA ClearKeeps ==
    ASSUME IInv, NEW p \in Tasks, Clear(p) PROVE IInv'
<1>a. PICK to \in {"connect", "returned", "forget"} :
        /\ Goto(p, to)
        /\ \/ pc[p] = "clear dead" /\ to = "connect"
           \/ pc[p] = "clear" /\ to = "returned" /\ p = Relay
           \/ pc[p] = "clear" /\ to = "forget" /\ p # Relay
  BY DEF Clear
<1>b. PICK c \in MadeConns : c = at[p].conn
  BY <1>a DEF IInv, Located, LocatedAt, ConnPlaces
<1>1. /\ TypeOK /\ to \in Places /\ to \in {"connect", "returned", "forget"}
      /\ c \in MadeConns /\ c \in Conns /\ c = at[p].conn /\ Goto(p, to) /\ ~connected[c]
      /\ \/ pc[p] = "clear dead" /\ to = "connect"
         \/ pc[p] = "clear" /\ to = "returned" /\ p = Relay
         \/ pc[p] = "clear" /\ to = "forget" /\ p # Relay
      /\ tracks' = [tracks EXCEPT ![c] = [t \in Tracks |-> None]]
      /\ UNCHANGED <<current, slots, cached, home, connected, cancelled, session, entries,
                  reader, info, upstream, cleanup, at, stopped>>
  BY <1>a, <1>b, MadeAreConns DEF IInv, Clear, Places, CutIsDead, managerVars, connVars, subVars
<1>2. pc' \in [Tasks -> Places] /\ pc'[p] = to /\ Others(p)
  BY <1>1, Moved
<1>3. /\ tracks' \in [Conns -> [Tracks -> Entries \cup {None}]]
      /\ \A d \in Conns : d # c => tracks'[d] = tracks[d]
  BY <1>1 DEF TypeOK
<1>4. ~HoldsEntry(p)' /\ (HoldsSlot(p)' => HoldsSlot(p)) /\ NoneRevives /\ TracksKept /\ LocatedAt(p)'
  <2>1. ~HoldsEntry(p)' /\ (HoldsSlot(p)' => HoldsSlot(p))
    BY <1>1, <1>2 DEF HoldsEntry, HoldsSlot
  <2>2. NoneRevives /\ TracksKept
    BY <1>1, <1>3, MadeAreConns DEF NoneRevives, TracksKept
  <2>3. LocatedAt(p)'
    BY <1>1, <1>2 DEF IInv, Located, LocatedAt, SlotPlaces, ConnPlaces, EntryPlaces, MadeConns
  <2>4. QED
    BY <2>1, <2>2, <2>3
<1>5. TypeOK'
  BY <1>1, <1>2, <1>3 DEF TypeOK
<1>6. Located'
  BY <1>1, <1>2, <1>4, LocatedKept DEF MadeConns
<1>7. Asking'
  BY <1>1, <1>2, AskingKept
<1>8. RelayAlone'
  <2>1. CASE p = Relay
    BY <1>1, <1>2, <2>1, Roles DEF IInv, RelayAlone, Others
  <2>2. CASE p \in Calls
    BY <1>1, <1>2, <2>2, RelayKept
  <2>3. QED
    BY <2>1, <2>2 DEF Tasks
<1>9. SlotsHeld'
  <2>1. pc'[p] \in {"connect", "cut dead", "clear dead"} => cached'[at'[p].slot] = None
    <3>1. CASE p \in Calls
      BY <1>1, <1>2, <3>1 DEF IInv, SlotsHeld
    <3>2. CASE p = Relay
      BY <1>1, <1>2, <3>2 DEF IInv, RelayAlone
    <3>3. QED
      BY <3>1, <3>2 DEF Tasks
  <2>2. QED
    BY <1>1, <1>2, <1>4, <2>1, SlotsKept
<1>10. LiveIsCached'
  BY <1>1, <1>2, <1>4, LiveIsCachedKept
<1>11. EntriesHeld'
  BY <1>1, <1>2, <1>4, EntriesKept
<1>12. LiveIsListed'
  BY <1>1, <1>2, <1>4, ListedKept DEF Live
<1>13. CutIsDead'
  BY <1>1, <1>2, <1>4, CutKept
<1>14. ConnsLive' /\ SubsMade'
  BY <1>1, <1>2, <1>3, <1>4 DEF IInv, ConnsLive, MadeConns, SubsMade, MadeSubs
<1>15. QED
  BY <1>5, <1>6, <1>7, <1>8, <1>9, <1>10, <1>11, <1>12, <1>13, <1>14 DEF IInv

-----------------------------------------------------------------------------
(* Remote::subscribe. *)

LEMMA GetEntryKeeps ==
    ASSUME IInv, NEW p \in Calls, GetEntry(p) PROVE IInv'
<1>a. PICK c \in MadeConns, t \in Tracks : c = at[p].conn /\ t = at[p].track
  BY Roles DEF IInv, GetEntry, Go, Located, LocatedAt, ConnPlaces
<1>b. PICK e \in Entries : e = tracks'[c][t]
  <2>1. /\ tracks \in [Conns -> [Tracks -> Entries \cup {None}]] /\ entries \in Nat
        /\ MaxEntries \in Nat /\ c \in Conns
    BY MadeAreConns, RemoteAssumption DEF IInv, TypeOK, RemoteAssumption
  <2>2. CASE tracks[c][t] # None
    BY <1>a, <2>1, <2>2 DEF GetEntry
  <2>3. CASE tracks[c][t] = None
    <3>0. entries < MaxEntries
      BY <1>a, <2>3 DEF GetEntry
    <3>1. entries + 1 \in Entries
      BY <2>1, <3>0 DEF Entries
    <3>2. tracks' = [tracks EXCEPT ![c][t] = entries + 1]
      BY <1>a, <2>3 DEF GetEntry
    <3>3. QED
      BY <2>1, <3>1, <3>2
  <2>4. QED
    BY <2>2, <2>3
<1>1. /\ TypeOK /\ p \in Tasks /\ p # Relay /\ pc[p] = "get track"
      /\ "lock track" \in Places /\ Goto(p, "lock track")
      /\ c \in MadeConns /\ c \in Conns /\ t \in Tracks /\ c = at[p].conn /\ t = at[p].track
      /\ e \in Entries \cup {None} /\ e \in Entries /\ at' = [at EXCEPT ![p].entry = e]
      /\ \/ tracks' = tracks
         \/ tracks' = [tracks EXCEPT ![c][t] = entries + 1] /\ tracks[c][t] = None
      /\ UNCHANGED <<current, slots, cached, home, connected, cancelled, session, reader, info,
                  upstream, cleanup, stopped>>
  BY <1>a, <1>b, Roles, MadeAreConns DEF IInv, GetEntry, Go, Places, managerVars, connVars, subVars
<1>2. /\ pc' \in [Tasks -> Places] /\ pc'[p] = "lock track" /\ at' \in [Tasks -> Spots] /\ Others(p)
      /\ at'[p].entry = e /\ at'[p].slot = at[p].slot
      /\ at'[p].conn = at[p].conn /\ at'[p].track = at[p].track /\ at'[p].sub = at[p].sub
  BY <1>1, SpotEntry
<1>3. tracks' \in [Conns -> [Tracks -> Entries \cup {None}]] /\ entries' \in 0..MaxEntries
  <2>1. /\ tracks \in [Conns -> [Tracks -> Entries \cup {None}]] /\ entries \in 0..MaxEntries
        /\ MaxEntries \in Nat
    BY <1>1, RemoteAssumption DEF TypeOK, RemoteAssumption
  <2>2. CASE tracks[c][t] # None
    BY <1>1, <2>1, <2>2 DEF GetEntry
  <2>3. CASE tracks[c][t] = None
    <3>1. entries < MaxEntries /\ entries' = entries + 1 /\ tracks' = [tracks EXCEPT ![c][t] = entries + 1]
      BY <1>1, <2>3 DEF GetEntry
    <3>2. entries + 1 \in Entries /\ entries + 1 \in 0..MaxEntries
      BY <2>1, <3>1 DEF Entries
    <3>3. QED
      BY <2>1, <3>1, <3>2
  <2>4. QED
    BY <2>2, <2>3
<1>4. ~HoldsEntry(p)' /\ ~HoldsSlot(p)' /\ NoneRevives /\ TracksKept /\ LocatedAt(p)'
  <2>1. ~HoldsEntry(p)' /\ ~HoldsSlot(p)' /\ NoneRevives
    BY <1>1, <1>2 DEF HoldsEntry, HoldsSlot, NoneRevives
  <2>2. TracksKept
    <3>1. CASE tracks' = tracks
      BY <3>1, UnchangedTracks
    <3>2. CASE tracks' = [tracks EXCEPT ![c][t] = entries + 1] /\ tracks[c][t] = None
      <4>1. tracks \in [Conns -> [Tracks -> Entries \cup {None}]]
        BY <1>1 DEF TypeOK
      <4>2. \A d \in Conns, u \in Tracks : tracks'[d][u] = tracks[d][u] \/ tracks[d][u] = None
        BY <1>1, <3>2, <4>1
      <4>3. QED
        BY <4>2, MadeAreConns DEF TracksKept, Unused
    <3>3. QED
      BY <1>1, <3>1, <3>2
  <2>3. LocatedAt(p)'
    BY <1>1, <1>2 DEF LocatedAt, SlotPlaces, ConnPlaces, EntryPlaces, MadeConns
  <2>4. QED
    BY <2>1, <2>2, <2>3
<1>5. TypeOK'
  BY <1>1, <1>2, <1>3 DEF TypeOK, Spots
<1>6. Located'
  BY <1>1, <1>2, <1>4, LocatedKept DEF MadeConns
<1>7. Asking'
  BY <1>1, <1>2, <1>4, AskingKept
<1>8. RelayAlone'
  BY <1>1, <1>2, <1>4, RelayKept
<1>9. SlotsHeld'
  BY <1>1, <1>2, <1>4, SlotsKept
<1>10. LiveIsCached'
  BY <1>1, <1>2, <1>4, LiveIsCachedKept
<1>11. EntriesHeld'
  BY <1>1, <1>2, <1>4, EntriesKept
<1>12. LiveIsListed'
  BY <1>1, <1>2, <1>4, ListedKept DEF Live
<1>13. CutIsDead'
  BY <1>1, <1>2, <1>4, CutKept
<1>14. ConnsLive' /\ SubsMade'
  BY <1>1, <1>2, <1>4 DEF IInv, ConnsLive, MadeConns, SubsMade, MadeSubs
<1>15. QED
  BY <1>5, <1>6, <1>7, <1>8, <1>9, <1>10, <1>11, <1>12, <1>13, <1>14 DEF IInv

LEMMA ShareReaderKeeps ==
    ASSUME IInv, NEW p \in Calls, ShareReader(p) PROVE IInv'
<1>1. /\ TypeOK /\ p \in Tasks /\ p # Relay /\ pc[p] = "examine track" /\ Return(p)
      /\ UNCHANGED <<current, slots, cached, home, connected, cancelled, session, tracks,
                  entries, reader, info, upstream, cleanup, stopped>>
  BY Roles DEF IInv, ShareReader, managerVars, connVars, trackVars, subVars
<1>2. /\ pc' \in [Tasks -> Places] /\ pc'[p] = "returned" /\ at' \in [Tasks -> Spots] /\ Others(p)
      /\ ~HoldsSlot(p)' /\ ~HoldsEntry(p)' /\ LocatedAt(p)'
  BY <1>1, Returned
<1>3. NoneRevives
  BY <1>1 DEF NoneRevives
<1>4. TypeOK'
  BY <1>1, <1>2, <1>3 DEF IInv, TypeOK, Spots
<1>5. Located'
  BY <1>1, <1>2, <1>3, LocatedKept DEF MadeConns
<1>6. Asking'
  BY <1>1, <1>2, <1>3, AskingKept
<1>7. RelayAlone'
  BY <1>1, <1>2, <1>3, RelayKept
<1>8. SlotsHeld'
  BY <1>1, <1>2, <1>3, SlotsKept
<1>9. LiveIsCached'
  BY <1>1, <1>2, <1>3, LiveIsCachedKept
<1>10. EntriesHeld'
  BY <1>1, <1>2, <1>3, EntriesKept, UnchangedTracks
<1>11. LiveIsListed'
  BY <1>1, <1>2, <1>3, ListedKept, UnchangedTracks DEF Live
<1>12. CutIsDead'
  BY <1>1, <1>2, <1>3, CutKept
<1>13. ConnsLive' /\ SubsMade'
  BY <1>1, <1>2, <1>3 DEF IInv, ConnsLive, MadeConns, SubsMade, MadeSubs
<1>14. QED
  BY <1>4, <1>5, <1>6, <1>7, <1>8, <1>9, <1>10, <1>11, <1>12, <1>13 DEF IInv

LEMMA FindRemoteKeeps ==
    ASSUME IInv, NEW p \in Calls, FindRemote(p) PROVE IInv'
<1>1. /\ TypeOK /\ p \in Tasks /\ p # Relay /\ pc[p] = "failed"
      /\ current \in Slots \cup {None} /\ "take" \in Places
      /\ \/ Return(p)
         \/ current # None /\ Goto(p, "take") /\ at' = [at EXCEPT ![p].slot = current]
      /\ UNCHANGED <<current, slots, cached, home, connected, cancelled, session, tracks,
                  entries, reader, info, upstream, cleanup, stopped>>
  BY Roles, Typed DEF IInv, FindRemote, Places, managerVars, connVars, trackVars, subVars
<1>2. /\ pc' \in [Tasks -> Places] /\ pc'[p] \in {"returned", "take"} /\ at' \in [Tasks -> Spots]
      /\ Others(p) /\ ~HoldsSlot(p)' /\ ~HoldsEntry(p)' /\ LocatedAt(p)'
  <2>1. CASE Return(p)
    BY <1>1, <2>1, Returned
  <2>2. CASE current # None /\ Goto(p, "take") /\ at' = [at EXCEPT ![p].slot = current]
    <3>1. /\ pc' \in [Tasks -> Places] /\ pc'[p] = "take" /\ at' \in [Tasks -> Spots] /\ Others(p)
          /\ at'[p].slot = current /\ at'[p].conn = at[p].conn /\ at'[p].track = at[p].track
      BY <1>1, <2>2, SpotSlot
    <3>2. at[p].conn \in MadeConns /\ at[p].track \in Tracks
      BY <1>1 DEF IInv, Located, LocatedAt, ConnPlaces
    <3>3. QED
      BY <1>1, <2>2, <3>1, <3>2 DEF HoldsSlot, HoldsEntry, LocatedAt, SlotPlaces, EntryPlaces, MadeConns
  <2>3. QED
    BY <1>1, <2>1, <2>2
<1>3. NoneRevives
  BY <1>1 DEF NoneRevives
<1>4. TypeOK'
  BY <1>1, <1>2, <1>3 DEF IInv, TypeOK, Spots
<1>5. Located'
  BY <1>1, <1>2, <1>3, LocatedKept DEF MadeConns
<1>6. Asking'
  BY <1>1, <1>2, <1>3, AskingKept
<1>7. RelayAlone'
  BY <1>1, <1>2, <1>3, RelayKept
<1>8. SlotsHeld'
  BY <1>1, <1>2, <1>3, SlotsKept
<1>9. LiveIsCached'
  BY <1>1, <1>2, <1>3, LiveIsCachedKept
<1>10. EntriesHeld'
  BY <1>1, <1>2, <1>3, EntriesKept, UnchangedTracks
<1>11. LiveIsListed'
  BY <1>1, <1>2, <1>3, ListedKept, UnchangedTracks DEF Live
<1>12. CutIsDead'
  BY <1>1, <1>2, <1>3, CutKept
<1>13. ConnsLive' /\ SubsMade'
  BY <1>1, <1>2, <1>3 DEF IInv, ConnsLive, MadeConns, SubsMade, MadeSubs
<1>14. QED
  BY <1>4, <1>5, <1>6, <1>7, <1>8, <1>9, <1>10, <1>11, <1>12, <1>13 DEF IInv

LEMMA AskUpstreamKeeps ==
    ASSUME IInv, NEW p \in Calls, AskUpstream(p) PROVE IInv'
<1>a. PICK s \in Subs, e \in Entries, c \in MadeConns, t \in Tracks :
        s = Len(info) + 1 /\ e = at[p].entry /\ c = at[p].conn /\ t = at[p].track
  <2>1. pc[p] = "examine track" /\ p \in Tasks
    BY Roles DEF AskUpstream, Go
  <2>2. at[p].entry \in Entries /\ at[p].conn \in MadeConns /\ at[p].track \in Tracks
    BY <2>1 DEF IInv, Located, LocatedAt, ConnPlaces, EntryPlaces
  <2>3. QED
    BY <2>2 DEF AskUpstream
<1>b. PICK r \in Infos :
        r = [conn |-> c, track |-> t, entry |-> e] /\ r.conn = c /\ r.track = t /\ r.entry = e
  <2>1. c \in Conns
    BY MadeAreConns
  <2>2. [conn |-> c, track |-> t, entry |-> e] \in Infos
    BY <2>1 DEF Infos
  <2>3. QED
    BY <2>2
<1>1. /\ TypeOK /\ p \in Tasks /\ p # Relay /\ pc[p] = "examine track"
      /\ "asking" \in Places /\ Goto(p, "asking") /\ HoldsEntry(p)
      /\ s \in Subs \cup {None} /\ s \in Subs /\ s # None /\ s = Len(info) + 1
      /\ e \in Entries /\ e = at[p].entry /\ c \in MadeConns /\ c \in Conns /\ c = at[p].conn
      /\ t \in Tracks /\ t = at[p].track
      /\ (reader[e] # None => IsClosed(reader[e]))
      /\ reader' = [reader EXCEPT ![e] = None]
      /\ info' = Append(info, r) /\ r.conn = c /\ r.track = t /\ r.entry = e
      /\ r = [conn |-> c, track |-> t, entry |-> e]
      /\ upstream' = [upstream EXCEPT ![s] = "asked"] /\ at' = [at EXCEPT ![p].sub = s]
      /\ UNCHANGED <<current, slots, cached, home, connected, cancelled, session, tracks,
                  entries, cleanup, stopped>>
  BY <1>a, <1>b, Roles, MadeAreConns, NoneIsNone
     DEF IInv, AskUpstream, Go, Places, HoldsEntry, managerVars, connVars
<1>2. /\ pc' \in [Tasks -> Places] /\ pc'[p] = "asking" /\ at' \in [Tasks -> Spots] /\ Others(p)
      /\ at'[p].sub = s /\ at'[p].slot = at[p].slot
      /\ at'[p].conn = at[p].conn /\ at'[p].track = at[p].track /\ at'[p].entry = at[p].entry
  BY <1>1, SpotSub
<1>3. /\ info' \in Seq(Infos) /\ Len(info') <= MaxSubs
      /\ s \notin MadeSubs /\ MadeSubs' = MadeSubs \cup {s}
      /\ info'[s] = r
      /\ \A u \in MadeSubs : info'[u] = info[u]
  <2>1. info \in Seq(Infos)
    BY <1>1 DEF TypeOK, Infos
  <2>2. /\ info' \in Seq(Infos) /\ Len(info) \in Nat
        /\ Len(info') = Len(info) + 1
        /\ \A k \in 1..Len(info) : info'[k] = info[k]
        /\ info'[Len(info) + 1] = r
    <3>1. /\ Append(info, r) \in Seq(Infos) /\ Len(info) \in Nat
          /\ Len(Append(info, r)) = Len(info) + 1
          /\ \A k \in 1..Len(info) : Append(info, r)[k] = info[k]
          /\ Append(info, r)[Len(info) + 1] = r
      BY <1>b, <2>1, Appended
    <3>2. info' = Append(info, r)
      BY <1>1
    <3>3. QED
      BY <3>1, <3>2
  <2>3. QED
    <3>0. Len(info) \in Nat /\ s \in Subs /\ s = Len(info) + 1
      BY <1>1, <2>2
    <3>1. Len(info) + 1 <= MaxSubs /\ MaxSubs \in Nat
      BY <3>0, RemoteAssumption DEF Subs, RemoteAssumption
    <3>2. MadeSubs' = 1..(Len(info) + 1) /\ MadeSubs = 1..Len(info)
      BY <2>2 DEF MadeSubs
    <3>3. s \notin MadeSubs /\ MadeSubs' = MadeSubs \cup {s}
      BY <3>0, <3>2
    <3>4. info'[s] = r /\ \A u \in MadeSubs : info'[u] = info[u]
      BY <2>2, <3>0, <3>2
    <3>5. QED
      BY <2>2, <3>0, <3>1, <3>3, <3>4
<1>4. /\ reader' \in [Entries -> Subs \cup {None}] /\ reader'[e] = None
      /\ \A f \in Entries : f # e => reader'[f] = reader[f]
      /\ upstream' \in [Subs -> {"none", "asked", "open", "refused", "ended", "dropped"}]
      /\ \A u \in Subs : u # s => upstream'[u] = upstream[u]
  BY <1>1 DEF TypeOK
<1>5. /\ ~HoldsSlot(p)' /\ HoldsEntry(p)' /\ NoneRevives /\ TracksKept /\ LocatedAt(p)'
      /\ \A q \in Tasks : HoldsEntry(q)' => HoldsEntry(q) /\ at'[q].entry = at[q].entry
      /\ \A q \in Tasks : HoldsEntry(q) /\ q # p => at[q].entry # e
  <2>1. ~HoldsSlot(p)' /\ HoldsEntry(p)' /\ NoneRevives /\ TracksKept
    BY <1>1, <1>2, UnchangedTracks DEF HoldsSlot, HoldsEntry, NoneRevives
  <2>2. LocatedAt(p)'
    BY <1>1, <1>2 DEF LocatedAt, SlotPlaces, ConnPlaces, EntryPlaces, MadeConns
  <2>3. \A q \in Tasks : HoldsEntry(q)' => HoldsEntry(q) /\ at'[q].entry = at[q].entry
    BY <1>1, <1>2 DEF Others, HoldsEntry
  <2>4. \A q \in Tasks : HoldsEntry(q) /\ q # p => at[q].entry # e
    BY <1>1 DEF IInv, EntriesHeld
  <2>5. QED
    BY <2>1, <2>2, <2>3, <2>4
<1>6. TypeOK'
  BY <1>1, <1>2, <1>3, <1>4 DEF TypeOK, Spots, Infos
<1>7. Located'
  BY <1>1, <1>2, <1>5, LocatedKept DEF MadeConns
<1>8. Asking'
  <2> SUFFICES ASSUME NEW q \in Tasks, pc'[q] = "asking" PROVE AskingOf(q)'
    BY DEF Asking
  <2>1. CASE q = p
    <3>1. at'[p].sub = s /\ at'[p].conn = c /\ at'[p].track = t /\ at'[p].entry = e
      BY <1>1, <1>2
    <3>2. s \in MadeSubs' /\ info'[s] = [conn |-> c, track |-> t, entry |-> e] /\ reader'[e] = None
      BY <1>1, <1>3, <1>4
    <3>3. QED
      BY <2>1, <3>1, <3>2 DEF AskingOf
  <2>2. CASE q # p
    <3>1. pc[q] = "asking" /\ at'[q] = at[q] /\ AskingOf(q)
      BY <1>2, <2>2 DEF Others, IInv, Asking
    <3>2. at[q].entry # e /\ at[q].entry \in Entries /\ at[q].sub \in MadeSubs
      BY <1>5, <2>2, <3>1, HolderHasEntry DEF HoldsEntry, AskingOf
    <3>3. QED
      BY <1>3, <1>4, <3>1, <3>2 DEF AskingOf
  <2>3. QED
    BY <2>1, <2>2
<1>9. RelayAlone'
  BY <1>1, <1>2, <1>5, RelayKept
<1>10. SlotsHeld'
  BY <1>1, <1>2, <1>5, SlotsKept
<1>11. LiveIsCached'
  BY <1>1, <1>2, <1>5, LiveIsCachedKept
<1>12. EntriesHeld'
  <2>1. \A q \in Tasks : at'[q].conn = at[q].conn /\ at'[q].track = at[q].track
    BY <1>2 DEF Others
  <2>2. QED
    BY <1>1, <1>5, <2>1 DEF IInv, EntriesHeld
<1>13. SubsMade'
  <2>1. \A u \in MadeSubs' : info'[u].conn \in MadeConns
    BY <1>1, <1>3 DEF IInv, SubsMade
  <2>2. QED
    BY <1>1, <1>3, <2>1 DEF IInv, SubsMade, MadeConns
<1>14. LiveIsListed'
  <2> SUFFICES ASSUME NEW u \in MadeSubs', connected[info'[u].conn], Live(u)'
               PROVE  /\ tracks[info'[u].conn][info'[u].track] = info'[u].entry
                      /\ reader'[info'[u].entry] = u \/ AskedFor(u)'
    BY <1>1 DEF LiveIsListed, Live
  <2>1. CASE u = s
    <3>0. connected[c]
      BY <1>1, <1>3, <2>1
    <3>1. tracks[c][t] = e
      BY <1>1, <3>0 DEF IInv, EntriesHeld
    <3>2. AskedFor(u)'
      BY <1>1, <1>2, <2>1 DEF AskedFor
    <3>3. QED
      <4>1. info'[u].conn = c /\ info'[u].track = t /\ info'[u].entry = e
        BY <1>1, <1>3, <2>1
      <4>2. QED
        BY <3>1, <3>2, <4>1
  <2>2. CASE u # s
    <3>1. u \in MadeSubs /\ u \in Subs /\ info'[u] = info[u] /\ Live(u)
      BY <1>3, <1>4, <2>2, MadeAreConns DEF Live
    <3>2. /\ tracks[info[u].conn][info[u].track] = info[u].entry /\ info[u].entry \in Entries
          /\ reader[info[u].entry] = u \/ AskedFor(u)
      BY <3>1, LiveIsUsed DEF IInv, LiveIsListed, Live
    <3>3. reader[info[u].entry] = u => reader'[info[u].entry] = u
      <4>1. u # None
        BY <3>1, NoneIsNone
      <4>2. info[u].entry = e => reader[e] # u
        BY <1>1, <3>1, <4>1 DEF Live, IsClosed
      <4>3. QED
        BY <1>1, <1>4, <3>2, <4>1, <4>2
    <3>4. AskedFor(u) => AskedFor(u)'
      BY <1>1, <1>2 DEF AskedFor, Others
    <3>5. QED
      BY <3>1, <3>2, <3>3, <3>4
  <2>3. QED
    BY <2>1, <2>2
<1>15. CutIsDead'
  BY <1>1, <1>2, <1>5, CutKept
<1>16. ConnsLive'
  BY <1>1, <1>2, <1>5 DEF IInv, ConnsLive, MadeConns
<1>17. QED
  BY <1>6, <1>7, <1>8, <1>9, <1>10, <1>11, <1>12, <1>13, <1>14, <1>15, <1>16 DEF IInv

LEMMA OpenedKeeps ==
    ASSUME IInv, NEW p \in Calls, Opened(p) PROVE IInv'
<1>a. PICK s \in MadeSubs, e \in Entries : s = at[p].sub /\ e = at[p].entry
  BY Roles DEF IInv, Opened, Asking, AskingOf, Located, LocatedAt, EntryPlaces
<1>1. /\ TypeOK /\ p \in Tasks /\ p # Relay /\ pc[p] = "asking" /\ Return(p) /\ HoldsEntry(p) /\ AskingOf(p)
      /\ s \in MadeSubs /\ s \in Subs /\ s = at[p].sub /\ e \in Entries /\ e = at[p].entry
      /\ reader[e] = None /\ info[s].entry = e
      /\ reader' = [reader EXCEPT ![e] = s] /\ cleanup' = [cleanup EXCEPT ![s] = "wait"]
      /\ UNCHANGED <<current, slots, cached, home, connected, cancelled, session, tracks,
                  entries, info, upstream, stopped>>
  <2>1. AskingOf(p)
    BY Roles DEF IInv, Asking, Opened
  <2>2. reader[e] = None /\ info[s].entry = e
    BY <1>a, <2>1 DEF AskingOf
  <2>3. QED
    BY <1>a, <2>1, <2>2, Roles, MadeAreConns DEF IInv, Opened, HoldsEntry, managerVars, connVars
<1>2. /\ pc' \in [Tasks -> Places] /\ pc'[p] = "returned" /\ at' \in [Tasks -> Spots] /\ Others(p)
      /\ ~HoldsSlot(p)' /\ ~HoldsEntry(p)' /\ LocatedAt(p)'
  BY <1>1, Returned
<1>3. /\ reader' \in [Entries -> Subs \cup {None}] /\ reader'[e] = s
      /\ \A f \in Entries : f # e => reader'[f] = reader[f]
      /\ cleanup' \in [Subs -> {"none", "wait", "forget", "over"}]
      /\ \A u \in Subs : cleanup'[u] # "none" => cleanup[u] # "none" \/ u = s
  BY <1>1 DEF TypeOK
<1>4. NoneRevives
  BY <1>1 DEF NoneRevives
<1>5. TypeOK'
  BY <1>1, <1>2, <1>3 DEF TypeOK, Spots
<1>6. Located'
  BY <1>1, <1>2, <1>4, LocatedKept DEF MadeConns
<1>7. Asking'
  <2> SUFFICES ASSUME NEW q \in Tasks, pc'[q] = "asking" PROVE AskingOf(q)'
    BY DEF Asking
  <2>1. pc[q] = "asking" /\ at'[q] = at[q] /\ AskingOf(q) /\ q # p
    BY <1>2 DEF Others, IInv, Asking
  <2>2. at[q].entry # e /\ at[q].entry \in Entries
    BY <1>1, <2>1, HolderHasEntry DEF HoldsEntry, IInv, EntriesHeld
  <2>3. QED
    BY <1>1, <1>3, <2>1, <2>2 DEF AskingOf, MadeSubs
<1>8. RelayAlone'
  BY <1>1, <1>2, <1>4, RelayKept
<1>9. SlotsHeld'
  BY <1>1, <1>2, <1>4, SlotsKept
<1>10. LiveIsCached'
  BY <1>1, <1>2, <1>4, LiveIsCachedKept
<1>11. EntriesHeld'
  BY <1>1, <1>2, <1>4, EntriesKept, UnchangedTracks
<1>12. SubsMade'
  BY <1>1, <1>3 DEF IInv, SubsMade, MadeConns, MadeSubs
<1>13. LiveIsListed'
  <2> SUFFICES ASSUME NEW u \in MadeSubs, connected[info[u].conn], Live(u)
               PROVE  /\ tracks[info[u].conn][info[u].track] = info[u].entry
                      /\ reader'[info[u].entry] = u \/ AskedFor(u)'
    BY <1>1 DEF LiveIsListed, Live, MadeSubs
  <2>1. /\ tracks[info[u].conn][info[u].track] = info[u].entry /\ info[u].entry \in Entries
        /\ reader[info[u].entry] = u \/ AskedFor(u)
    BY LiveIsUsed DEF IInv, LiveIsListed, Live
  <2>2. CASE u = s
    BY <1>1, <1>3, <2>1, <2>2
  <2>3. CASE u # s
    <3>1. u # None
      BY MadeAreConns, NoneIsNone
    <3>2. AskedFor(u) => AskedFor(u)'
      BY <1>1, <1>2, <2>3 DEF AskedFor, Others
    <3>3. QED
      BY <1>1, <1>3, <2>1, <3>1, <3>2
  <2>4. QED
    BY <2>2, <2>3
<1>14. CutIsDead'
  BY <1>1, <1>2, <1>4, CutKept
<1>15. ConnsLive'
  BY <1>1, <1>2, <1>4 DEF IInv, ConnsLive, MadeConns
<1>16. QED
  BY <1>5, <1>6, <1>7, <1>8, <1>9, <1>10, <1>11, <1>12, <1>13, <1>14, <1>15 DEF IInv

LEMMA OpenFailsKeeps ==
    ASSUME IInv, NEW p \in Calls, OpenFails(p) PROVE IInv'
<1>a. PICK s \in MadeSubs : s = at[p].sub
  BY Roles DEF IInv, OpenFails, Go, Asking, AskingOf
<1>1. /\ TypeOK /\ p \in Tasks /\ p # Relay /\ pc[p] = "asking"
      /\ "forget track" \in Places /\ Goto(p, "forget track")
      /\ s \in Subs /\ s = at[p].sub /\ upstream' = [upstream EXCEPT ![s] = "dropped"]
      /\ UNCHANGED <<current, slots, cached, home, connected, cancelled, session, tracks,
                  entries, reader, info, cleanup, at, stopped>>
  BY <1>a, Roles, MadeAreConns
     DEF IInv, OpenFails, DropSub, Go, Places, managerVars, connVars, trackVars
<1>2. pc' \in [Tasks -> Places] /\ pc'[p] = "forget track" /\ Others(p)
  BY <1>1, Moved
<1>3. /\ upstream' \in [Subs -> {"none", "asked", "open", "refused", "ended", "dropped"}]
      /\ upstream'[s] = "dropped" /\ \A u \in Subs : u # s => upstream'[u] = upstream[u]
  BY <1>1 DEF TypeOK
<1>4. /\ ~HoldsSlot(p)' /\ ~HoldsEntry(p)' /\ NoneRevives /\ LocatedAt(p)'
      /\ upstream'[at[p].sub] \notin {"asked", "open"} /\ \A u \in Subs : Live(u)' => Live(u)
  <2>1. ~HoldsSlot(p)' /\ ~HoldsEntry(p)' /\ NoneRevives
    BY <1>1, <1>2 DEF HoldsSlot, HoldsEntry, NoneRevives
  <2>2. upstream'[at[p].sub] \notin {"asked", "open"} /\ \A u \in Subs : Live(u)' => Live(u)
    BY <1>1, <1>3 DEF Live
  <2>3. LocatedAt(p)'
    BY <1>1, <1>2 DEF IInv, Located, LocatedAt, SlotPlaces, ConnPlaces, EntryPlaces, MadeConns
  <2>4. QED
    BY <2>1, <2>2, <2>3
<1>5. TypeOK'
  BY <1>1, <1>2, <1>3 DEF TypeOK
<1>6. Located'
  BY <1>1, <1>2, <1>4, LocatedKept DEF MadeConns
<1>7. Asking'
  BY <1>1, <1>2, <1>4, AskingKept
<1>8. RelayAlone'
  BY <1>1, <1>2, <1>4, RelayKept
<1>9. SlotsHeld'
  BY <1>1, <1>2, <1>4, SlotsKept
<1>10. LiveIsCached'
  BY <1>1, <1>2, <1>4, LiveIsCachedKept
<1>11. EntriesHeld'
  BY <1>1, <1>2, <1>4, EntriesKept, UnchangedTracks
<1>12. LiveIsListed'
  BY <1>1, <1>2, <1>4, ListedKept, UnchangedTracks DEF Live
<1>13. CutIsDead'
  BY <1>1, <1>2, <1>4, CutKept
<1>14. ConnsLive' /\ SubsMade'
  BY <1>1, <1>2, <1>4 DEF IInv, ConnsLive, MadeConns, SubsMade, MadeSubs
<1>15. QED
  BY <1>5, <1>6, <1>7, <1>8, <1>9, <1>10, <1>11, <1>12, <1>13, <1>14 DEF IInv

\* An entry that is out of the map is nobody's.
LEMMA ForgetEntryKept ==
    ASSUME IInv, NEW c \in MadeConns, NEW t \in Tracks, NEW e \in Entries, EntryFree(e),
           tracks' = ForgetEntry(c, t, e)
    PROVE  tracks' \in [Conns -> [Tracks -> Entries \cup {None}]] /\ TracksKept
<1>1. tracks \in [Conns -> [Tracks -> Entries \cup {None}]] /\ c \in Conns
  BY MadeAreConns DEF IInv, TypeOK
<1>2. CASE tracks' = tracks
  BY <1>1, <1>2, UnchangedTracks
<1>3. CASE reader[e] = None /\ tracks[c][t] = e /\ tracks' = [tracks EXCEPT ![c][t] = None]
  <2>1. \A d \in Conns, u \in Tracks : tracks'[d][u] = tracks[d][u] \/ tracks[d][u] = e
    BY <1>1, <1>3
  <2>2. Unused(e)
    BY <1>3 DEF Unused
  <2>3. TracksKept
    BY <2>1, <2>2, MadeAreConns DEF TracksKept
  <2>4. QED
    BY <1>1, <1>3, <2>3
<1>4. QED
  BY <1>2, <1>3 DEF ForgetEntry

LEMMA ForgetTrackKeeps ==
    ASSUME IInv, NEW p \in Calls, ForgetTrack(p) PROVE IInv'
<1>1. /\ TypeOK /\ p \in Tasks /\ p # Relay /\ pc[p] = "forget track"
      /\ "failed" \in Places /\ Goto(p, "failed")
      /\ at[p].conn \in MadeConns /\ at[p].track \in Tracks /\ at[p].entry \in Entries
      /\ EntryFree(at[p].entry) /\ tracks' = ForgetEntry(at[p].conn, at[p].track, at[p].entry)
      /\ UNCHANGED <<current, slots, cached, home, connected, cancelled, session, entries,
                  reader, info, upstream, cleanup, at, stopped>>
  BY Roles DEF IInv, ForgetTrack, Go, Places, Located, LocatedAt, ConnPlaces, EntryPlaces,
     managerVars, connVars, subVars
<1>2. pc' \in [Tasks -> Places] /\ pc'[p] = "failed" /\ Others(p)
  BY <1>1, Moved
<1>3. tracks' \in [Conns -> [Tracks -> Entries \cup {None}]] /\ TracksKept
  BY <1>1, ForgetEntryKept
<1>4. ~HoldsSlot(p)' /\ ~HoldsEntry(p)' /\ NoneRevives /\ LocatedAt(p)'
  <2>1. ~HoldsSlot(p)' /\ ~HoldsEntry(p)' /\ NoneRevives
    BY <1>1, <1>2 DEF HoldsSlot, HoldsEntry, NoneRevives
  <2>2. LocatedAt(p)'
    BY <1>1, <1>2 DEF LocatedAt, SlotPlaces, ConnPlaces, EntryPlaces, MadeConns
  <2>3. QED
    BY <2>1, <2>2
<1>5. TypeOK'
  BY <1>1, <1>2, <1>3 DEF TypeOK
<1>6. Located'
  BY <1>1, <1>2, <1>3, <1>4, LocatedKept DEF MadeConns
<1>7. Asking'
  BY <1>1, <1>2, <1>3, <1>4, AskingKept
<1>8. RelayAlone'
  BY <1>1, <1>2, <1>3, <1>4, RelayKept
<1>9. SlotsHeld'
  BY <1>1, <1>2, <1>3, <1>4, SlotsKept
<1>10. LiveIsCached'
  BY <1>1, <1>2, <1>3, <1>4, LiveIsCachedKept
<1>11. EntriesHeld'
  BY <1>1, <1>2, <1>3, <1>4, EntriesKept
<1>12. LiveIsListed'
  BY <1>1, <1>2, <1>3, <1>4, ListedKept DEF Live
<1>13. CutIsDead'
  BY <1>1, <1>2, <1>3, <1>4, CutKept
<1>14. ConnsLive' /\ SubsMade'
  BY <1>1, <1>2, <1>3, <1>4 DEF IInv, ConnsLive, MadeConns, SubsMade, MadeSubs
<1>15. QED
  BY <1>5, <1>6, <1>7, <1>8, <1>9, <1>10, <1>11, <1>12, <1>13, <1>14 DEF IInv

LEMMA TakeRemoteKeeps ==
    ASSUME IInv, NEW p \in Calls, TakeRemote(p) PROVE IInv'
<1>a. PICK s \in Slots, c \in MadeConns : s = at[p].slot /\ c = at[p].conn
  BY Roles DEF IInv, TakeRemote, Located, LocatedAt, SlotPlaces, ConnPlaces
<1>1. /\ TypeOK /\ p \in Tasks /\ p # Relay /\ pc[p] = "take" /\ "cut" \in Places
      /\ s \in Slots /\ s = at[p].slot /\ c \in MadeConns /\ c \in Conns /\ c = at[p].conn
      /\ \/ Return(p) /\ cached' = cached
         \/ /\ cached[s] = c /\ Goto(p, "cut") /\ at' = at
            /\ cached' = [cached EXCEPT ![s] = None]
      /\ UNCHANGED <<current, slots, home, connected, cancelled, session, tracks, entries,
                  reader, info, upstream, cleanup, stopped>>
  <2>1. c # None
    BY <1>a, NoneIsNone, MadeAreConns
  <2>2. \/ Return(p) /\ cached' = cached
        \/ /\ cached[s] = c /\ Goto(p, "cut") /\ at' = at
           /\ cached' = [cached EXCEPT ![s] = None]
    BY <1>a, <2>1 DEF TakeRemote, Taken
  <2>3. QED
    BY <1>a, <2>2, Roles, MadeAreConns DEF IInv, TakeRemote, Places, connVars, trackVars, subVars
<1>2. /\ pc' \in [Tasks -> Places] /\ pc'[p] \in {"returned", "cut"} /\ at' \in [Tasks -> Spots]
      /\ Others(p) /\ ~HoldsSlot(p)' /\ ~HoldsEntry(p)' /\ LocatedAt(p)'
  <2>1. CASE Return(p)
    BY <1>1, <2>1, Returned
  <2>2. CASE Goto(p, "cut") /\ at' = at
    <3>1. pc' \in [Tasks -> Places] /\ pc'[p] = "cut" /\ Others(p)
      BY <1>1, <2>2, Moved
    <3>2. LocatedAt(p)'
      BY <1>1, <2>2, <3>1 DEF IInv, Located, LocatedAt, SlotPlaces, ConnPlaces, EntryPlaces, MadeConns
    <3>3. QED
      BY <1>1, <2>2, <3>1, <3>2, Typed DEF HoldsSlot, HoldsEntry
  <2>3. QED
    BY <1>1, <2>1, <2>2
<1>3. /\ cached' \in [Slots -> Conns \cup {None}]
      /\ \A r \in Slots : cached'[r] = cached[r] \/ cached'[r] = None
      /\ \A r \in Slots : cached[r] = None => cached'[r] = None
  BY <1>1 DEF TypeOK
<1>4. NoneRevives
  BY <1>1 DEF NoneRevives
<1>5. TypeOK'
  BY <1>1, <1>2, <1>3, <1>4 DEF IInv, TypeOK, Spots
<1>6. Located'
  BY <1>1, <1>2, <1>3, <1>4, LocatedKept DEF MadeConns
<1>7. Asking'
  BY <1>1, <1>2, <1>3, <1>4, AskingKept
<1>8. RelayAlone'
  BY <1>1, <1>2, <1>3, <1>4, RelayKept
<1>9. SlotsHeld'
  BY <1>1, <1>2, <1>3, <1>4, SlotsKept
<1>10. ConnsLive'
  BY <1>1, <1>2, <1>3, <1>4 DEF IInv, ConnsLive, MadeConns
<1>11. LiveIsCached'
  <2>1. CASE cached' = cached
    BY <1>1, <1>2, <1>4, <2>1, LiveIsCachedKept
  <2>2. CASE /\ cached[s] = c /\ Goto(p, "cut") /\ at' = at
             /\ cached' = [cached EXCEPT ![s] = None]
    <3> SUFFICES ASSUME NEW d \in MadeConns, connected[d]
                 PROVE  \/ Condemned(d)'
                        \/ current # None /\ cached'[current] = d
                        \/ pc'[Relay] = "drained" /\ cached'[at'[Relay].slot] = d
      BY <1>1 DEF LiveIsCached, MadeConns
    <3>1. pc'[p] = "cut"
      BY <1>1, <2>2 DEF TypeOK, Goto
    <3>2. CASE d = c
      BY <1>1, <2>2, <3>1, <3>2 DEF Condemned
    <3>3. CASE d # c
      <4>1. Condemned(d) => Condemned(d)'
        BY <1>1, <1>2 DEF Condemned, Others
      <4>2. \A r \in Slots : cached[r] = d => cached'[r] = d
        BY <1>1, <2>2, <3>3 DEF TypeOK
      <4>3. pc[Relay] = "drained" => /\ pc'[Relay] = "drained" /\ at'[Relay] = at[Relay]
                                     /\ at[Relay].slot \in Slots
        BY <1>1, <1>2, Roles DEF Others, IInv, Located, LocatedAt, SlotPlaces
      <4>4. QED
        BY <4>1, <4>2, <4>3, Typed DEF IInv, LiveIsCached
    <3>4. QED
      BY <3>2, <3>3
  <2>3. QED
    BY <1>1, <2>1, <2>2
<1>12. EntriesHeld'
  BY <1>1, <1>2, <1>3, <1>4, EntriesKept, UnchangedTracks
<1>13. LiveIsListed'
  BY <1>1, <1>2, <1>3, <1>4, ListedKept, UnchangedTracks DEF Live
<1>14. CutIsDead'
  BY <1>1, <1>2, <1>3, <1>4, CutKept
<1>15. SubsMade'
  BY <1>1, <1>2, <1>3, <1>4 DEF IInv, SubsMade, MadeSubs, MadeConns
<1>16. QED
  BY <1>5, <1>6, <1>7, <1>8, <1>9, <1>10, <1>11, <1>12, <1>13, <1>14, <1>15 DEF IInv

LEMMA CancelKeeps ==
    ASSUME IInv, NEW p \in Calls, Cancel(p) PROVE IInv'
<1>1. /\ TypeOK /\ p \in Tasks /\ p # Relay /\ Return(p)
      /\ pc[p] # "cut" /\ pc[p] # "cut dead" /\ pc[p] # "returned"
      /\ \/ /\ pc[p] = "asking" /\ at[p].sub \in Subs
            /\ upstream' = [upstream EXCEPT ![at[p].sub] = "dropped"]
         \/ pc[p] # "asking" /\ upstream' = upstream
      /\ UNCHANGED <<current, slots, cached, home, connected, cancelled, session, tracks,
                  entries, reader, info, cleanup, stopped>>
  <2>1. pc[p] = "asking" => at[p].sub \in Subs
    BY Roles, MadeAreConns DEF IInv, Asking, AskingOf
  <2>2. QED
    BY <2>1, Roles DEF IInv, Cancel, Cancellable, DropSub, managerVars, connVars, trackVars
<1>2. /\ pc' \in [Tasks -> Places] /\ pc'[p] = "returned" /\ at' \in [Tasks -> Spots] /\ Others(p)
      /\ ~HoldsSlot(p)' /\ ~HoldsEntry(p)' /\ LocatedAt(p)'
  BY <1>1, Returned
<1>3. /\ upstream' \in [Subs -> {"none", "asked", "open", "refused", "ended", "dropped"}]
      /\ (pc[p] = "asking" => upstream'[at[p].sub] \notin {"asked", "open"})
      /\ \A u \in Subs : Live(u)' => Live(u)
  BY <1>1 DEF TypeOK, Live
<1>4. NoneRevives
  BY <1>1 DEF NoneRevives
<1>5. TypeOK'
  BY <1>1, <1>2, <1>3, <1>4 DEF IInv, TypeOK, Spots
<1>6. Located'
  BY <1>1, <1>2, <1>3, <1>4, LocatedKept DEF MadeConns
<1>7. Asking'
  BY <1>1, <1>2, <1>3, <1>4, AskingKept
<1>8. RelayAlone'
  BY <1>1, <1>2, <1>3, <1>4, RelayKept
<1>9. SlotsHeld'
  BY <1>1, <1>2, <1>3, <1>4, SlotsKept
<1>10. LiveIsCached'
  BY <1>1, <1>2, <1>3, <1>4, LiveIsCachedKept
<1>11. EntriesHeld'
  BY <1>1, <1>2, <1>3, <1>4, EntriesKept, UnchangedTracks
<1>12. LiveIsListed'
  BY <1>1, <1>2, <1>3, <1>4, ListedKept, UnchangedTracks DEF Live
<1>13. CutIsDead'
  BY <1>1, <1>2, <1>3, <1>4, CutKept
<1>14. ConnsLive' /\ SubsMade'
  BY <1>1, <1>2, <1>3, <1>4 DEF IInv, ConnsLive, MadeConns, SubsMade, MadeSubs
<1>15. QED
  BY <1>5, <1>6, <1>7, <1>8, <1>9, <1>10, <1>11, <1>12, <1>13, <1>14 DEF IInv

-----------------------------------------------------------------------------
(* The upstream relay, and the tasks of connections and subscriptions: no task of a *)
(* call moves.                                                                      *)

\* The relay is not where it would ask or subscribe.
LEMMA RelayIsAside ==
    ASSUME IInv, UNCHANGED taskVars
    PROVE  /\ TypeOK /\ Relay \in Tasks /\ Others(Relay) /\ pc'[Relay] = pc[Relay]
           /\ pc[Relay] # "asking" /\ ~HoldsEntry(Relay) /\ ~HoldsEntry(Relay)'
           /\ pc' = pc /\ at' = at /\ (HoldsSlot(Relay)' => HoldsSlot(Relay))
           /\ pc[Relay] \notin {"connect", "cut dead", "clear dead"}
<1>1. pc' = pc /\ at' = at
  BY DEF taskVars
<1>2. pc[Relay] \in {"new", "drained", "cut", "clear", "returned"}
  BY DEF IInv, RelayAlone
<1>3. QED
  BY <1>1, <1>2, Roles DEF IInv, Others, HoldsEntry, HoldsSlot

LEMMA LiveIsCachedStill ==
    ASSUME IInv, UNCHANGED <<home, current, pc, at>>, NoneRevives,
           \A s \in Slots : cached'[s] = cached[s] \/ cached[s] = None \/ ~connected'[cached[s]]
    PROVE  LiveIsCached'
<1> SUFFICES ASSUME NEW c \in MadeConns, connected'[c]
             PROVE  \/ Condemned(c)
                    \/ current # None /\ cached'[current] = c
                    \/ pc[Relay] = "drained" /\ cached'[at[Relay].slot] = c
  BY DEF LiveIsCached, MadeConns, Condemned
<1>1. c \in Conns /\ connected[c] /\ c # None
  BY NoneIsNone, MadeAreConns DEF NoneRevives
<1>2. \A s \in Slots : cached[s] = c => cached'[s] = c
  BY <1>1
<1>3. pc[Relay] = "drained" => at[Relay].slot \in Slots
  BY Roles DEF IInv, Located, LocatedAt, SlotPlaces
<1>4. QED
  BY <1>1, <1>2, <1>3, Typed DEF IInv, LiveIsCached

LEMMA AnswerKeeps ==
    ASSUME IInv, NEW s \in Subs, Answer(s) PROVE IInv'
<1>1. UNCHANGED <<current, slots, cached, home, connected, cancelled, session, tracks,
                  entries, reader, info, cleanup, pc, at, stopped>>
  BY DEF Answer, managerVars, connVars, trackVars, taskVars
<1>2. /\ TypeOK /\ upstream' \in [Subs -> {"none", "asked", "open", "refused", "ended", "dropped"}]
      /\ NoneRevives /\ TracksKept /\ \A u \in Subs : Live(u)' => Live(u)
  BY <1>1, UnchangedTracks DEF IInv, TypeOK, NoneRevives, Answer, Live
<1>3. pc[Relay] # "asking" /\ Relay \in Tasks /\ Others(Relay)
  BY <1>1, RelayIsAside DEF taskVars
<1>4. TypeOK'
  BY <1>1, <1>2, <1>3 DEF IInv, TypeOK, Spots
<1>5. LiveIsListed'
  BY <1>1, <1>2, <1>3, ListedKept, UnchangedTracks DEF Live
<1>6. Located' /\ Asking' /\ RelayAlone' /\ SlotsHeld'
  BY <1>1 DEF IInv, Located, LocatedAt, SlotPlaces, ConnPlaces, EntryPlaces, MadeConns,
     Asking, AskingOf, MadeSubs, RelayAlone, SlotsHeld, HoldsSlot
<1>7. ConnsLive' /\ LiveIsCached' /\ EntriesHeld' /\ SubsMade'
  BY <1>1 DEF IInv, ConnsLive, MadeConns, LiveIsCached, Condemned, EntriesHeld, HoldsEntry,
     SubsMade, MadeSubs
<1>8. CutIsDead'
  BY <1>1 DEF IInv, CutIsDead
<1>9. QED
  BY <1>4, <1>5, <1>6, <1>7, <1>8 DEF IInv

LEMMA EndKeeps ==
    ASSUME IInv, NEW s \in Subs, End(s) PROVE IInv'
<1>1. UNCHANGED <<current, slots, cached, home, connected, cancelled, session, tracks,
                  entries, reader, info, cleanup, pc, at, stopped>>
  BY DEF End, managerVars, connVars, trackVars, taskVars
<1>2. /\ TypeOK /\ upstream' \in [Subs -> {"none", "asked", "open", "refused", "ended", "dropped"}]
      /\ NoneRevives /\ TracksKept /\ \A u \in Subs : Live(u)' => Live(u)
  BY <1>1, UnchangedTracks DEF IInv, TypeOK, NoneRevives, End, Live
<1>3. pc[Relay] # "asking" /\ Relay \in Tasks /\ Others(Relay)
  BY <1>1, RelayIsAside DEF taskVars
<1>4. TypeOK'
  BY <1>1, <1>2, <1>3 DEF IInv, TypeOK, Spots
<1>5. LiveIsListed'
  BY <1>1, <1>2, <1>3, ListedKept, UnchangedTracks DEF Live
<1>6. Located' /\ Asking' /\ RelayAlone' /\ SlotsHeld'
  BY <1>1 DEF IInv, Located, LocatedAt, SlotPlaces, ConnPlaces, EntryPlaces, MadeConns,
     Asking, AskingOf, MadeSubs, RelayAlone, SlotsHeld, HoldsSlot
<1>7. ConnsLive' /\ LiveIsCached' /\ EntriesHeld' /\ SubsMade'
  BY <1>1 DEF IInv, ConnsLive, MadeConns, LiveIsCached, Condemned, EntriesHeld, HoldsEntry,
     SubsMade, MadeSubs
<1>8. CutIsDead'
  BY <1>1 DEF IInv, CutIsDead
<1>9. QED
  BY <1>4, <1>5, <1>6, <1>7, <1>8 DEF IInv

LEMMA SessionEndsKeeps ==
    ASSUME IInv, NEW c \in Conns, SessionEnds(c) PROVE IInv'
<1>1. /\ session[c] = "run" /\ session' = [session EXCEPT ![c] = "clear"]
      /\ connected' = [connected EXCEPT ![c] = FALSE]
      /\ UNCHANGED <<current, slots, cached, home, cancelled, tracks, entries, reader, info,
                  upstream, cleanup, pc, at, stopped>>
  BY DEF SessionEnds, managerVars, trackVars, subVars, taskVars
<1>2. /\ TypeOK /\ session' \in [Conns -> {"none", "run", "clear", "forget", "over"}]
      /\ session'[c] = "clear" /\ (\A d \in Conns : d # c => session'[d] = session[d])
      /\ connected' \in [Conns -> BOOLEAN] /\ \A d \in Conns : connected'[d] => connected[d] /\ d # c
  BY <1>1 DEF IInv, TypeOK
<1>3. NoneRevives /\ TracksKept /\ \A u \in Subs : Live(u)' => Live(u)
  BY <1>1, <1>2, MadeAreConns, UnchangedTracks DEF NoneRevives, Live
<1>4. /\ pc[Relay] # "asking" /\ Relay \in Tasks /\ Others(Relay) /\ ~HoldsEntry(Relay)'
  BY <1>1, RelayIsAside DEF taskVars
<1>5. TypeOK'
  BY <1>1, <1>2, <1>3, <1>4 DEF IInv, TypeOK, Spots
<1>6. ConnsLive'
  BY <1>1, <1>2 DEF IInv, ConnsLive, MadeConns
<1>7. LiveIsCached'
  BY <1>1, <1>2, <1>3, LiveIsCachedStill
<1>8. EntriesHeld'
  BY <1>1, <1>2, <1>3, <1>4, EntriesKept, UnchangedTracks
<1>9. LiveIsListed'
  BY <1>1, <1>2, <1>3, <1>4, ListedKept, UnchangedTracks DEF Live
<1>10. CutIsDead'
  <2>1. \A p \in Tasks : pc[p] \in {"clear", "clear dead", "cut dead"} => at[p].conn \in MadeConns
    BY DEF IInv, Located, LocatedAt, ConnPlaces
  <2>2. QED
    BY <1>1, <1>3, <2>1 DEF IInv, CutIsDead, NoneRevives
<1>11. Located' /\ Asking' /\ RelayAlone' /\ SlotsHeld'
  BY <1>1 DEF IInv, Located, LocatedAt, SlotPlaces, ConnPlaces, EntryPlaces, MadeConns,
     Asking, AskingOf, MadeSubs, RelayAlone, SlotsHeld, HoldsSlot
<1>12. SubsMade'
  BY <1>1 DEF IInv, SubsMade, MadeSubs, MadeConns
<1>13. QED
  BY <1>5, <1>6, <1>7, <1>8, <1>9, <1>10, <1>11, <1>12 DEF IInv

\* A connection with a session was made for a slot.
LEMMA SessionIsMade ==
    ASSUME IInv, NEW c \in Conns, session[c] # "none"
    PROVE  c \in MadeConns /\ home[c] \in Slots
<1>1. c \in MadeConns
  BY DEF IInv, ConnsLive
<1>2. home \in Seq(Slots)
  BY DEF IInv, TypeOK
<1>3. QED
  BY <1>1, <1>2, Element DEF MadeConns

LEMMA ClearRemoteKeeps ==
    ASSUME IInv, NEW c \in Conns, ClearRemote(c) PROVE IInv'
<1>a. PICK s \in Slots : s = home[c]
  BY SessionIsMade DEF ClearRemote
<1>b. PICK to \in {"forget", "over"} : session' = [session EXCEPT ![c] = to]
  BY DEF ClearRemote
<1>1. /\ session[c] = "clear" /\ to \in {"forget", "over"} /\ session' = [session EXCEPT ![c] = to]
      /\ (cached' = cached \/ (cached[s] = c /\ cached' = [cached EXCEPT ![s] = None]))
      /\ UNCHANGED <<current, slots, home, connected, cancelled, tracks, entries, reader, info,
                  upstream, cleanup, pc, at, stopped>>
  BY <1>a, <1>b DEF ClearRemote, trackVars, subVars, taskVars
<1>2. /\ TypeOK /\ session' \in [Conns -> {"none", "run", "clear", "forget", "over"}]
      /\ session'[c] = to /\ (\A d \in Conns : d # c => session'[d] = session[d])
      /\ cached' \in [Slots -> Conns \cup {None}] /\ ~connected[c]
      /\ (\A r \in Slots : cached'[r] = cached[r] \/ (cached[r] = c /\ cached'[r] = None))
      /\ \A r \in Slots : cached[r] = None => cached'[r] = None
  <2>1. ~connected[c]
    BY <1>1 DEF IInv, ConnsLive
  <2>2. QED
    BY <1>1, <2>1 DEF IInv, TypeOK
<1>3. NoneRevives
  BY <1>1 DEF NoneRevives
<1>4. /\ Relay \in Tasks /\ Others(Relay) /\ (HoldsSlot(Relay)' => HoldsSlot(Relay))
      /\ pc'[Relay] \notin {"connect", "cut dead", "clear dead"}
  BY <1>1, RelayIsAside DEF taskVars
<1>5. TypeOK'
  BY <1>1, <1>2, <1>3, <1>4 DEF IInv, TypeOK, Spots
<1>6. SlotsHeld'
  BY <1>1, <1>2, <1>3, <1>4, SlotsKept
<1>7. ConnsLive'
  BY <1>1, <1>2 DEF IInv, ConnsLive, MadeConns
<1>8. LiveIsCached'
  BY <1>1, <1>2, <1>3, LiveIsCachedStill
<1>9. Located' /\ Asking' /\ RelayAlone' /\ EntriesHeld'
  BY <1>1 DEF IInv, Located, LocatedAt, SlotPlaces, ConnPlaces, EntryPlaces, MadeConns,
     Asking, AskingOf, MadeSubs, RelayAlone, EntriesHeld, HoldsEntry
<1>10. SubsMade' /\ CutIsDead'
  BY <1>1 DEF IInv, SubsMade, MadeSubs, MadeConns, CutIsDead
<1>11. LiveIsListed'
  BY <1>1 DEF IInv, LiveIsListed, MadeSubs, AskedFor
<1>12. QED
  BY <1>5, <1>6, <1>7, <1>8, <1>9, <1>10, <1>11 DEF IInv

LEMMA ForgetRemoteKeeps ==
    ASSUME IInv, NEW c \in Conns, ForgetRemote(c) PROVE IInv'
<1>a. PICK s \in Slots : s = home[c]
  BY SessionIsMade DEF ForgetRemote
<1>1. /\ session[c] = "forget" /\ session' = [session EXCEPT ![c] = "over"]
      /\ SlotFree(s) /\ current' = ForgetSlot(s)
      /\ UNCHANGED <<slots, cached, home, connected, cancelled, tracks, entries, reader, info,
                  upstream, cleanup, pc, at, stopped>>
  BY <1>a DEF ForgetRemote, connVars, trackVars, subVars, taskVars
<1>2. /\ TypeOK /\ session' \in [Conns -> {"none", "run", "clear", "forget", "over"}]
      /\ session'[c] = "over" /\ ~connected[c] /\ \A d \in Conns : d # c => session'[d] = session[d]
  <2>1. ~connected[c]
    BY <1>1 DEF IInv, ConnsLive
  <2>2. QED
    BY <1>1, <2>1 DEF IInv, TypeOK
<1>3. /\ current' \in Slots \cup {None} /\ (current' = current \/ current' = None)
      /\ current' = current \/ (cached[current] = None /\ \A q \in Calls : ~HoldsSlot(q))
  BY <1>1, ForgetsSlot DEF ForgetSlot
<1>4. TypeOK'
  BY <1>1, <1>2, <1>3 DEF IInv, TypeOK, Spots
<1>5. RelayAlone'
  BY <1>1, <1>3 DEF IInv, RelayAlone
<1>6. SlotsHeld'
  <2>1. \A q \in Calls : HoldsSlot(q)' => HoldsSlot(q) /\ current' = current
    BY <1>1, <1>3 DEF HoldsSlot
  <2>2. \A q \in Calls : pc[q] \in {"connect", "cut dead", "clear dead"} => HoldsSlot(q)
    BY DEF HoldsSlot
  <2>3. QED
    BY <1>1, <2>1, <2>2 DEF IInv, SlotsHeld
<1>7. ConnsLive'
  BY <1>1, <1>2 DEF IInv, ConnsLive, MadeConns
<1>8. LiveIsCached'
  <2> SUFFICES ASSUME NEW d \in MadeConns, connected[d]
               PROVE  \/ Condemned(d) \/ (current' # None /\ cached[current'] = d)
                      \/ (pc[Relay] = "drained" /\ cached[at[Relay].slot] = d)
    BY <1>1 DEF LiveIsCached, MadeConns, Condemned
  <2>1. d # None
    BY MadeAreConns, NoneIsNone
  <2>2. QED
    BY <1>3, <2>1 DEF IInv, LiveIsCached
<1>9. Located' /\ Asking' /\ EntriesHeld' /\ SubsMade'
  BY <1>1 DEF IInv, Located, LocatedAt, SlotPlaces, ConnPlaces, EntryPlaces, MadeConns,
     Asking, AskingOf, MadeSubs, EntriesHeld, HoldsEntry, SubsMade
<1>10. CutIsDead'
  BY <1>1 DEF IInv, CutIsDead
<1>11. LiveIsListed'
  BY <1>1 DEF IInv, LiveIsListed, MadeSubs, AskedFor
<1>12. QED
  BY <1>4, <1>5, <1>6, <1>7, <1>8, <1>9, <1>10, <1>11 DEF IInv

\* What has a task has an entry.
LEMMA CleanedIsMade ==
    ASSUME IInv, NEW s \in Subs, cleanup[s] # "none"
    PROVE  /\ s \in MadeSubs /\ info[s].conn \in MadeConns
           /\ info[s].track \in Tracks /\ info[s].entry \in Entries
<1>1. s \in MadeSubs /\ info[s].conn \in MadeConns
  BY DEF IInv, SubsMade
<1>2. info \in Seq(Infos)
  BY DEF IInv, TypeOK, Infos
<1>3. info[s] \in Infos
  BY <1>1, <1>2, Element DEF MadeSubs
<1>4. QED
  BY <1>1, <1>3 DEF Infos

LEMMA ClearTrackKeeps ==
    ASSUME IInv, NEW s \in Subs, ClearTrack(s) PROVE IInv'
<1>a. PICK e \in Entries : e = info[s].entry
  BY CleanedIsMade DEF ClearTrack
<1>1. /\ cleanup[s] = "wait" /\ cleanup' = [cleanup EXCEPT ![s] = "forget"]
      /\ reader' = [reader EXCEPT ![e] = IF reader[e] = s THEN None ELSE reader[e]]
      /\ (IsClosed(s) \/ cancelled[info[s].conn])
      /\ s \in MadeSubs /\ info[s].conn \in Conns
      /\ UNCHANGED <<current, slots, cached, home, connected, cancelled, session, tracks,
                  entries, info, upstream, pc, at, stopped>>
  BY <1>a, CleanedIsMade, MadeAreConns DEF ClearTrack, managerVars, connVars, taskVars
<1>2. /\ TypeOK /\ reader' \in [Entries -> Subs \cup {None}]
      /\ cleanup' \in [Subs -> {"none", "wait", "forget", "over"}]
      /\ (\A u \in Subs : cleanup'[u] # "none" => cleanup[u] # "none")
      /\ \A f \in Entries : reader'[f] = reader[f] \/ (reader[f] = s /\ reader'[f] = None)
  BY <1>1 DEF IInv, TypeOK
<1>3. ~(connected[info[s].conn] /\ Live(s))
  BY <1>1 DEF IInv, ConnsLive, IsClosed, Live
<1>4. TypeOK'
  BY <1>1, <1>2, <1>3 DEF IInv, TypeOK, Spots
<1>5. Asking'
  <2> SUFFICES ASSUME NEW q \in Tasks, pc[q] = "asking" PROVE AskingOf(q)'
    BY <1>1 DEF Asking
  <2>1. AskingOf(q) /\ HoldsEntry(q)
    BY DEF IInv, Asking, HoldsEntry
  <2>2. at[q].entry \in Entries
    BY <2>1, HolderHasEntry
  <2>3. reader'[at[q].entry] = None
    BY <1>2, <2>1, <2>2 DEF AskingOf
  <2>4. QED
    BY <1>1, <2>1, <2>3 DEF AskingOf, MadeSubs
<1>6. SubsMade'
  BY <1>1, <1>2 DEF IInv, SubsMade, MadeConns, MadeSubs
<1>7. LiveIsListed'
  <2> SUFFICES ASSUME NEW u \in MadeSubs, connected[info[u].conn], Live(u)
               PROVE  /\ tracks[info[u].conn][info[u].track] = info[u].entry
                      /\ reader'[info[u].entry] = u \/ AskedFor(u)
    BY <1>1 DEF LiveIsListed, Live, MadeSubs, AskedFor
  <2>1. /\ tracks[info[u].conn][info[u].track] = info[u].entry /\ info[u].entry \in Entries
        /\ reader[info[u].entry] = u \/ AskedFor(u)
    BY LiveIsUsed DEF IInv, LiveIsListed, Live
  <2>2. u # s
    BY <1>3
  <2>3. QED
    BY <1>2, <2>1, <2>2
<1>8. Located' /\ RelayAlone' /\ SlotsHeld' /\ ConnsLive'
  BY <1>1 DEF IInv, Located, LocatedAt, SlotPlaces, ConnPlaces, EntryPlaces, MadeConns,
     RelayAlone, SlotsHeld, HoldsSlot, ConnsLive
<1>9. LiveIsCached' /\ EntriesHeld' /\ CutIsDead'
  BY <1>1 DEF IInv, LiveIsCached, MadeConns, Condemned, EntriesHeld, HoldsEntry, CutIsDead
<1>10. QED
  BY <1>4, <1>5, <1>6, <1>7, <1>8, <1>9 DEF IInv

LEMMA EndCleanupKeeps ==
    ASSUME IInv, NEW s \in Subs, EndCleanup(s) PROVE IInv'
<1>a. PICK c \in MadeConns, t \in Tracks, e \in Entries :
        c = info[s].conn /\ t = info[s].track /\ e = info[s].entry
  BY CleanedIsMade DEF EndCleanup
<1>1. /\ cleanup[s] = "forget" /\ cleanup' = [cleanup EXCEPT ![s] = "over"]
      /\ EntryFree(e) /\ tracks' = ForgetEntry(c, t, e)
      /\ upstream' = [upstream EXCEPT ![s] = "dropped"]
      /\ UNCHANGED <<current, slots, cached, home, connected, cancelled, session, entries,
                  reader, info, pc, at, stopped>>
  BY <1>a DEF EndCleanup, DropSub, managerVars, connVars, taskVars
<1>2. /\ TypeOK /\ cleanup' \in [Subs -> {"none", "wait", "forget", "over"}]
      /\ upstream' \in [Subs -> {"none", "asked", "open", "refused", "ended", "dropped"}]
      /\ (\A u \in Subs : cleanup'[u] # "none" => cleanup[u] # "none")
      /\ \A u \in Subs : Live(u)' => Live(u)
  BY <1>1 DEF IInv, TypeOK, Live
<1>3. tracks' \in [Conns -> [Tracks -> Entries \cup {None}]] /\ TracksKept
  BY <1>1, ForgetEntryKept
<1>4. NoneRevives
  BY <1>1 DEF NoneRevives
<1>5. /\ Relay \in Tasks /\ Others(Relay) /\ ~HoldsEntry(Relay)' /\ pc[Relay] # "asking"
  BY <1>1, RelayIsAside DEF taskVars
<1>6. TypeOK'
  BY <1>1, <1>2, <1>3 DEF TypeOK
<1>7. EntriesHeld'
  BY <1>1, <1>2, <1>3, <1>4, <1>5, EntriesKept
<1>8. SubsMade'
  BY <1>1, <1>2 DEF IInv, SubsMade, MadeConns, MadeSubs
<1>9. LiveIsListed'
  BY <1>1, <1>2, <1>3, <1>4, <1>5, ListedKept DEF Live
<1>10. Located' /\ Asking' /\ RelayAlone' /\ SlotsHeld'
  BY <1>1 DEF IInv, Located, LocatedAt, SlotPlaces, ConnPlaces, EntryPlaces, MadeConns,
     Asking, AskingOf, MadeSubs, RelayAlone, SlotsHeld, HoldsSlot
<1>11. ConnsLive' /\ LiveIsCached' /\ CutIsDead'
  BY <1>1 DEF IInv, ConnsLive, MadeConns, LiveIsCached, Condemned, CutIsDead
<1>12. QED
  BY <1>6, <1>7, <1>8, <1>9, <1>10, <1>11 DEF IInv

-----------------------------------------------------------------------------
(* The relay stops. *)

LEMMA StopKeeps ==
    ASSUME IInv, Stop PROVE IInv'
<1>1. /\ ~stopped /\ stopped' = TRUE /\ current' = None
      /\ \A p \in Calls : pc[p] \notin {"cut", "cut dead"}
      /\ pc' = [p \in Tasks |-> IF p = Relay /\ current # None THEN "drained" ELSE "returned"]
      /\ at' = [p \in Tasks |-> IF p = Relay THEN [Nowhere EXCEPT !.slot = current] ELSE Nowhere]
      /\ upstream' = [s \in Subs |->
            IF \E p \in Calls : pc[p] = "asking" /\ at[p].sub = s THEN "dropped" ELSE upstream[s]]
      /\ UNCHANGED <<slots, cached, home, connected, cancelled, session, tracks, entries,
                  reader, info, cleanup>>
  BY DEF Stop, connVars, trackVars
<1>2. TypeOK /\ Relay \in Tasks /\ pc[Relay] = "new" /\ current \in Slots \cup {None}
  BY <1>1, Roles, Typed DEF IInv, RelayAlone
<1>3. /\ pc' \in [Tasks -> {"drained", "returned"}] /\ pc' \in [Tasks -> Places]
      /\ \A p \in Calls : pc'[p] = "returned"
      /\ pc'[Relay] = "drained" <=> current # None
  BY <1>1, Roles DEF Places
<1>4. at' \in [Tasks -> Spots] /\ at'[Relay].slot = current
  <2>1. [Nowhere EXCEPT !.slot = current] \in Spots /\ [Nowhere EXCEPT !.slot = current].slot = current
    BY <1>2 DEF Spots, Nowhere
  <2>2. QED
    BY <1>1, <2>1, Roles, NowhereIsSpot
<1>5. /\ upstream' \in [Subs -> {"none", "asked", "open", "refused", "ended", "dropped"}]
      /\ \A u \in Subs : Live(u)' => Live(u) /\ ~AskedFor(u)
  <2>1. upstream' \in [Subs -> {"none", "asked", "open", "refused", "ended", "dropped"}]
    BY <1>1, <1>2 DEF TypeOK
  <2>2. \A p \in Tasks : pc[p] = "asking" => p \in Calls
    BY <1>2 DEF Tasks
  <2>3. QED
    BY <1>1, <2>1, <2>2 DEF Live, AskedFor
<1>6. \A p \in Tasks : ~HoldsSlot(p)' /\ ~HoldsEntry(p)'
  BY <1>3 DEF HoldsSlot, HoldsEntry
<1>7. TypeOK'
  BY <1>1, <1>2, <1>3, <1>4, <1>5 DEF TypeOK, Spots, None
<1>8. Located'
  <2>1. \A p \in Tasks : pc'[p] = "drained" => at'[p].slot \in Slots
    <3>1. \A p \in Tasks : p = Relay \/ p \in Calls
      BY DEF Tasks
    <3>2. QED
      BY <1>2, <1>3, <1>4, <3>1
  <2>2. \A p \in Tasks : pc'[p] \in {"drained", "returned"} /\ (p \in Calls => pc'[p] = "returned")
    BY <1>3
  <2>3. ASSUME NEW p \in Tasks PROVE LocatedAt(p)'
    BY <2>1, <2>2 DEF LocatedAt, SlotPlaces, ConnPlaces, EntryPlaces
  <2>4. QED
    BY <2>3 DEF Located
<1>9. Asking'
  BY <1>3 DEF Asking
<1>10. RelayAlone'
  BY <1>1, <1>2, <1>3 DEF RelayAlone
<1>11. SlotsHeld'
  BY <1>3, <1>6, Roles DEF SlotsHeld
<1>12. LiveIsCached'
  <2> SUFFICES ASSUME NEW c \in MadeConns, connected[c]
               PROVE  pc'[Relay] = "drained" /\ cached[at'[Relay].slot] = c
    BY <1>1 DEF LiveIsCached, MadeConns
  <2>1. ~Condemned(c)
    BY <1>1, <1>2 DEF Condemned, Tasks
  <2>2. current # None /\ cached[current] = c
    BY <1>2, <2>1 DEF IInv, LiveIsCached
  <2>3. QED
    BY <1>3, <1>4, <2>2
<1>13. EntriesHeld'
  BY <1>6 DEF EntriesHeld
<1>14. LiveIsListed'
  <2> SUFFICES ASSUME NEW s \in MadeSubs, connected[info[s].conn], Live(s)'
               PROVE  /\ tracks[info[s].conn][info[s].track] = info[s].entry
                      /\ reader[info[s].entry] = s
    BY <1>1 DEF LiveIsListed, MadeSubs, Live
  <2>1. Live(s) /\ ~AskedFor(s)
    BY <1>5, MadeAreConns
  <2>2. QED
    BY <2>1 DEF IInv, LiveIsListed, Live
<1>15. CutIsDead'
  BY <1>3 DEF CutIsDead
<1>16. ConnsLive' /\ SubsMade'
  BY <1>1, <1>2, <1>3, <1>4, <1>5 DEF IInv, ConnsLive, MadeConns, SubsMade, MadeSubs
<1>17. QED
  BY <1>7, <1>8, <1>9, <1>10, <1>11, <1>12, <1>13, <1>14, <1>15, <1>16 DEF IInv

LEMMA ShutDownKeeps ==
    ASSUME IInv, ShutDown PROVE IInv'
<1>a. PICK s \in Slots, c \in Conns \cup {None} : s = at[Relay].slot /\ c = cached[s]
  <2>1. at[Relay].slot \in Slots
    BY Roles DEF IInv, ShutDown, Located, LocatedAt, SlotPlaces
  <2>2. QED
    BY <2>1 DEF IInv, TypeOK
<1>b. PICK to \in {"returned", "cut"} : Goto(Relay, to) /\ (to = "cut" <=> c # None)
  BY <1>a DEF ShutDown
<1>1. /\ TypeOK /\ Relay \in Tasks /\ pc[Relay] = "drained" /\ s \in Slots /\ s = at[Relay].slot
      /\ c \in Conns \cup {None} /\ c = cached[s]
      /\ to \in Places /\ to \in {"returned", "cut"} /\ Goto(Relay, to) /\ (to = "cut" <=> c # None)
      /\ at' = [at EXCEPT ![Relay].conn = c] /\ cached' = [cached EXCEPT ![s] = None]
      /\ UNCHANGED <<current, slots, home, connected, cancelled, session, tracks, entries,
                  reader, info, upstream, cleanup, stopped>>
  BY <1>a, <1>b, Roles DEF IInv, ShutDown, Places, connVars, trackVars, subVars
<1>2. /\ pc' \in [Tasks -> Places] /\ pc'[Relay] = to /\ at' \in [Tasks -> Spots] /\ Others(Relay)
      /\ at'[Relay].conn = c /\ at'[Relay].slot = s
  BY <1>1, SpotConn
<1>3. /\ cached' \in [Slots -> Conns \cup {None}]
      /\ \A r \in Slots : cached'[r] = cached[r] \/ cached'[r] = None
      /\ \A r \in Slots : cached[r] = None => cached'[r] = None
  BY <1>1 DEF TypeOK
<1>4. c # None => c \in MadeConns
  BY <1>1 DEF IInv, ConnsLive
<1>5. /\ current = None /\ stopped /\ \A p \in Calls : pc[p] = "returned" /\ pc'[p] = "returned"
  BY <1>1, <1>2, Roles DEF IInv, RelayAlone, Others
<1>6. \A p \in Calls : ~HoldsSlot(p)'
  BY <1>5, Roles DEF HoldsSlot
<1>7. NoneRevives /\ LocatedAt(Relay)' /\ ~HoldsEntry(Relay)'
  <2>1. NoneRevives
    BY <1>1 DEF NoneRevives
  <2>2. LocatedAt(Relay)'
    BY <1>1, <1>2, <1>4, Roles DEF LocatedAt, SlotPlaces, ConnPlaces, EntryPlaces, MadeConns
  <2>3. QED
    BY <1>1, <1>2, <2>1, <2>2 DEF HoldsEntry
<1>8. TypeOK'
  BY <1>1, <1>2, <1>3, <1>4, <1>5, <1>7 DEF IInv, TypeOK, Spots
<1>9. Located'
  BY <1>1, <1>2, <1>3, <1>4, <1>5, <1>7, LocatedKept DEF MadeConns
<1>10. Asking'
  BY <1>1, <1>2, <1>3, <1>4, <1>5, <1>7, AskingKept
<1>11. RelayAlone'
  BY <1>1, <1>2, <1>5 DEF RelayAlone
<1>12. SlotsHeld'
  BY <1>5, <1>6 DEF SlotsHeld
<1>13. ConnsLive'
  BY <1>1, <1>2, <1>3, <1>4, <1>5, <1>7 DEF IInv, ConnsLive, MadeConns
<1>14. LiveIsCached'
  <2> SUFFICES ASSUME NEW d \in MadeConns, connected[d] PROVE Condemned(d)'
    BY <1>1 DEF LiveIsCached, MadeConns
  <2>1. ~Condemned(d)
    BY <1>1, <1>5 DEF Condemned, Tasks
  <2>2. c = d /\ d # None
    BY <1>1, <1>5, <2>1, MadeAreConns, NoneIsNone DEF IInv, LiveIsCached
  <2>3. QED
    BY <1>1, <1>2, <2>2 DEF Condemned
<1>15. EntriesHeld'
  BY <1>1, <1>2, <1>3, <1>4, <1>5, <1>7, EntriesKept, UnchangedTracks
<1>16. LiveIsListed'
  BY <1>1, <1>2, <1>3, <1>4, <1>5, <1>7, ListedKept, UnchangedTracks DEF Live
<1>17. CutIsDead'
  BY <1>1, <1>2, <1>3, <1>4, <1>5, <1>7, CutKept
<1>18. SubsMade'
  BY <1>1, <1>2, <1>3, <1>4, <1>5, <1>7 DEF IInv, SubsMade, MadeSubs, MadeConns
<1>19. QED
  BY <1>8, <1>9, <1>10, <1>11, <1>12, <1>13, <1>14, <1>15, <1>16, <1>17, <1>18 DEF IInv

-----------------------------------------------------------------------------
(* The invariant, and what follows from it. *)

LEMMA InitIInv == Init => IInv
<1> SUFFICES ASSUME Init PROVE IInv
  OBVIOUS
<1>1. MadeConns = {} /\ MadeSubs = {}
  BY DEF Init, MadeConns, MadeSubs
<1>2. Relay \in Tasks /\ Calls \subseteq Tasks /\ pc = [p \in Tasks |-> "new"]
  BY Roles DEF Init
<1>3. pc[Relay] = "new" /\ \A p \in Tasks : pc[p] = "new"
  BY <1>2
<1>4. TypeOK
  <2>1. /\ MaxConns \in Nat /\ MaxSlots \in Nat /\ MaxEntries \in Nat /\ MaxSubs \in Nat
    BY RemoteAssumption DEF RemoteAssumption
  <2>2. at \in [Tasks -> Spots]
    BY NowhereIsSpot DEF Init
  <2>3. home \in Seq(Slots) /\ info \in Seq([conn : Conns, track : Tracks, entry : Entries])
    BY DEF Init
  <2>4. pc \in [Tasks -> Places]
    BY <1>2 DEF Places
  <2>5. /\ tracks \in [Conns -> [Tracks -> Entries \cup {None}]] /\ entries \in 0..MaxEntries
        /\ reader \in [Entries -> Subs \cup {None}]
        /\ upstream \in [Subs -> {"none", "asked", "open", "refused", "ended", "dropped"}]
        /\ cleanup \in [Subs -> {"none", "wait", "forget", "over"}]
    BY <2>1 DEF Init
  <2>6. /\ current \in Slots \cup {None} /\ slots \in 0..MaxSlots
        /\ cached \in [Slots -> Conns \cup {None}]
        /\ connected \in [Conns -> BOOLEAN] /\ cancelled \in [Conns -> BOOLEAN]
        /\ session \in [Conns -> {"none", "run", "clear", "forget", "over"}]
        /\ stopped \in BOOLEAN
    <3>1. 0 \in 0..MaxSlots
      BY <2>1
    <3>2. QED
      BY <3>1 DEF Init
  <2>7. Len(home) <= MaxConns /\ Len(info) <= MaxSubs
    BY <2>1 DEF Init
  <2>8. QED
    BY <2>2, <2>3, <2>4, <2>5, <2>6, <2>7 DEF TypeOK, Spots
<1>5. Located /\ Asking
  BY <1>3 DEF Located, LocatedAt, SlotPlaces, ConnPlaces, EntryPlaces, Asking
<1>6. RelayAlone /\ SlotsHeld /\ EntriesHeld /\ CutIsDead
  BY <1>2, <1>3 DEF Init, RelayAlone, SlotsHeld, HoldsSlot, EntriesHeld, HoldsEntry, CutIsDead
<1>7. ConnsLive /\ LiveIsCached /\ SubsMade /\ LiveIsListed
  BY <1>1 DEF Init, ConnsLive, LiveIsCached, SubsMade, LiveIsListed
<1>8. QED
  BY <1>4, <1>5, <1>6, <1>7 DEF IInv

LEMMA RunningKeeps == ASSUME IInv, NEW p \in Calls, Running(p) PROVE IInv'
<1>1. CASE Connecting(p)
  BY <1>1, GetSlotKeeps, LockSlotKeeps, ExamineKeeps, ConnectKeeps, ConnectFailsKeeps, ForgetKeeps
     DEF Connecting
<1>2. CASE Subscribing(p)
  BY <1>2, CheckConnectedKeeps, GetEntryKeeps, LockEntryKeeps, ShareReaderKeeps,
     AskUpstreamKeeps, OpenedKeeps, OpenFailsKeeps, ForgetTrackKeeps, FindRemoteKeeps,
     TakeRemoteKeeps DEF Subscribing
<1>3. QED
  BY <1>1, <1>2 DEF Running

LEMMA NextKeeps == ASSUME IInv, [Next]_vars PROVE IInv'
<1>1. ASSUME NEW p \in Calls, (\E t \in Tracks : Start(p, t)) \/ Running(p) \/ Cancel(p)
      PROVE  IInv'
  BY <1>1, StartKeeps, RunningKeeps, CancelKeeps
<1>2. ASSUME NEW p \in Tasks, ShuttingDown(p) PROVE IInv'
  BY <1>2, CutKeeps, ClearKeeps DEF ShuttingDown
<1>3. ASSUME NEW s \in Subs, Answer(s) \/ End(s) \/ SubTask(s) PROVE IInv'
  BY <1>3, AnswerKeeps, EndKeeps, ClearTrackKeeps, EndCleanupKeeps DEF SubTask
<1>4. ASSUME NEW c \in Conns, SessionEnds(c) \/ ConnTask(c) PROVE IInv'
  BY <1>4, SessionEndsKeeps, ClearRemoteKeeps, ForgetRemoteKeeps DEF ConnTask
<1>5. CASE Stop \/ ShutDown
  BY <1>5, StopKeeps, ShutDownKeeps
<1>6. CASE UNCHANGED vars
  <2>1. UNCHANGED <<current, slots, cached, home, connected, cancelled, session, tracks,
                  entries, reader, info, upstream, cleanup, pc, at, stopped>>
    BY <1>6 DEF vars, managerVars, connVars, trackVars, subVars, taskVars
  <2>2. TypeOK' /\ Located' /\ Asking' /\ RelayAlone'
    BY <2>1 DEF IInv, TypeOK, Located, LocatedAt, MadeConns, Asking, AskingOf, MadeSubs, RelayAlone
  <2>3. SlotsHeld' /\ ConnsLive' /\ SubsMade' /\ CutIsDead'
    BY <2>1 DEF IInv, SlotsHeld, HoldsSlot, ConnsLive, MadeConns, SubsMade, MadeSubs, CutIsDead
  <2>4. LiveIsCached' /\ EntriesHeld'
    BY <2>1 DEF IInv, LiveIsCached, MadeConns, Condemned, EntriesHeld, HoldsEntry
  <2>5. LiveIsListed'
    BY <2>1 DEF IInv, LiveIsListed, MadeSubs, AskedFor
  <2>6. QED
    BY <2>2, <2>3, <2>4, <2>5 DEF IInv
<1>7. QED
  BY <1>1, <1>2, <1>3, <1>4, <1>5, <1>6 DEF Next

\* The invariant that the others rest on.
THEOREM InvariantHolds == Spec => []IInv
<1>1. QED
  BY InitIInv, NextKeeps, PTL DEF Spec

\* Every variable keeps its type: whatever is made stays within its bound, and what is
\* held is something that was made.
THEOREM TypeCorrect == Spec => []TypeOK
<1>1. IInv => TypeOK
  BY DEF IInv
<1>2. QED
  BY <1>1, InvariantHolds, PTL

\* However calls, tasks and the end of the relay interleave in get_or_connect, there is
\* one live connection to the upstream relay that nobody is about to shut down
\* (remote.rs:96-164).
THEOREM OneConnectionAtATime == Spec => []OneConnection
<1>1. IInv => OneConnection
  <2> SUFFICES ASSUME IInv, NEW c \in MadeConns, NEW d \in MadeConns,
                      connected[c], connected[d], ~Condemned(c), ~Condemned(d)
               PROVE  c = d
    BY DEF OneConnection
  <2>1. CASE pc[Relay] = "drained"
    BY <2>1 DEF IInv, LiveIsCached, RelayAlone
  <2>2. CASE pc[Relay] # "drained"
    BY <2>2 DEF IInv, LiveIsCached
  <2>3. QED
    BY <2>1, <2>2
<1>2. QED
  BY <1>1, InvariantHolds, PTL

\* Over a live connection a track is subscribed once at a time, whatever other calls,
\* the tasks of subscriptions and dropped calls do (remote.rs:350-458).
THEOREM OneSubscriptionOfATrack == Spec => []OneSubscription
<1>1. IInv => OneSubscription
  <2> SUFFICES ASSUME IInv, NEW s \in MadeSubs, NEW u \in MadeSubs,
                      info[s].conn = info[u].conn, info[s].track = info[u].track,
                      connected[info[s].conn], Live(s), Live(u)
               PROVE  s = u
    BY DEF OneSubscription, Live
  <2>1. info[s].entry = info[u].entry
    BY DEF IInv, LiveIsListed, Live
  <2>2. /\ reader[info[s].entry] = s \/ AskedFor(s)
        /\ reader[info[u].entry] = u \/ AskedFor(u)
    BY DEF IInv, LiveIsListed, Live
  <2>3. s # None /\ u # None
    BY MadeAreConns, NoneIsNone
  <2>4. ASSUME NEW v \in MadeSubs, AskedFor(v)
        PROVE  /\ reader[info[v].entry] = None
               /\ \E p \in Tasks : HoldsEntry(p) /\ at[p].entry = info[v].entry /\ at[p].sub = v
    <3>1. PICK p \in Tasks : pc[p] = "asking" /\ at[p].sub = v
      BY <2>4 DEF AskedFor
    <3>2. AskingOf(p) /\ HoldsEntry(p)
      BY <3>1 DEF IInv, Asking, HoldsEntry
    <3>3. QED
      BY <3>1, <3>2 DEF AskingOf
  <2>5. CASE AskedFor(s) /\ AskedFor(u)
    BY <2>1, <2>4, <2>5 DEF IInv, EntriesHeld
  <2>6. CASE ~AskedFor(s) \/ ~AskedFor(u)
    BY <2>1, <2>2, <2>3, <2>4, <2>6
  <2>7. QED
    BY <2>5, <2>6
<1>2. QED
  BY <1>1, InvariantHolds, PTL

\* When the relay has shut its manager down, every connection that was made is dead: none
\* is left behind by a slot that was removed, replaced or drained (remote.rs:189-202).
THEOREM NoneIsLost == Spec => []ShutdownLeavesNone
<1>1. IInv => ShutdownLeavesNone
  <2> SUFFICES ASSUME IInv, pc[Relay] = "returned", NEW c \in MadeConns, connected[c] PROVE FALSE
    BY DEF ShutdownLeavesNone
  <2>1. current = None /\ \A p \in Calls : pc[p] = "returned"
    BY DEF IInv, RelayAlone
  <2>2. ~Condemned(c)
    BY <2>1 DEF Condemned, Tasks
  <2>3. QED
    BY <2>1, <2>2 DEF IInv, LiveIsCached
<1>2. QED
  BY <1>1, InvariantHolds, PTL
=============================================================================
