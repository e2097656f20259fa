---------------------------- MODULE TracksProofs ----------------------------
(***************************************************************************)
(* Proofs about Tracks.tla for every set of names, of subscribers and any  *)
(* number of tracks: its type invariant, and the deduplication of requests.*)
(*                                                                         *)
(* A track that is alive and was not displaced is the cached one of its    *)
(* name, or on its way there under the lock, while the broadcast has a     *)
(* handle left; and once it has none no track can be produced any more.    *)
(***************************************************************************)
EXTENDS Tracks, TLAPS

\* The lock is held across a request, by a subscriber with a live TracksReader.
LockHeld ==
    /\ \A s \in Subs : sub[s] \in {"push", "insert"} <=> holder = s
    /\ holder \in Subs =>
          /\ reader[holder] = "live"
          /\ track[holder] \in Made
          /\ cache[name[track[holder]]] = NoTrack
          /\ sub[holder] = "push" => home[track[holder]] = "made"

\* Tracks have a name once they are produced, and cached tracks are of their name.
NamesAgree ==
    /\ Len(name) <= MaxTracks
    /\ \A t \in Ids : t \notin Made => home[t] = "none" /\ mode[t] = "unset"
    /\ \A n \in Names : cache[n] # NoTrack => cache[n] \in Made /\ name[cache[n]] = n

\* A track gets its mode from its TrackWriter, which is consumed.
ModesAgree == \A t \in Ids : mode[t] # "unset" => ~WriterAlive(t)

Freed == ~writer /\ request = "gone" /\ \A s \in Subs : reader[s] # "live"

\* Where a live track that was not displaced is found.
LiveIsCached ==
    \A t \in Made \ displaced :
        \/ IsClosed(t)
        \/ Freed
        \/ cache[name[t]] = t
        \/ holder \in Subs /\ track[holder] = t

IInv ==
    /\ TypeOK
    /\ LockHeld
    /\ NamesAgree
    /\ ModesAgree
    /\ LiveIsCached
    /\ NoDuplicateRequest

-----------------------------------------------------------------------------
LEMMA InitIInv == ASSUME TracksAssumption, Init PROVE IInv
<1>1. Made = {} /\ Len(name) = 0 /\ name \in Seq(Names)
  BY DEF Init, Made
<1>2. TypeOK
  <2>1. /\ holder \in Subs \cup {NoOne} /\ cache \in [Names -> Ids \cup {NoTrack}]
        /\ request \in {"live", "drained", "released", "gone"} /\ writer \in BOOLEAN
        /\ popping \in {"try", "empty", "asleep"}
        /\ displaced \subseteq Ids \cup {NoTrack}
    BY DEF Init
  <2>2. /\ reader \in [Subs -> {"live", "half", "gone"}]
        /\ sub \in [Subs -> {"idle", "push", "insert", "await", "reading"}]
        /\ track \in [Subs -> Ids \cup {NoTrack}]
    BY DEF Init
  <2>3. /\ home \in [Ids -> Homes] /\ mode \in [Ids -> {"unset", "open", "closed"}]
        /\ closed \in [Ids -> BOOLEAN]
    BY DEF Init, Homes
  <2>4. QED
    BY <1>1, <2>1, <2>2, <2>3 DEF TypeOK
<1>3. LockHeld
  BY TracksAssumption DEF Init, LockHeld, TracksAssumption
<1>4. NamesAgree
  BY <1>1, TracksAssumption DEF Init, NamesAgree, TracksAssumption
<1>5. ModesAgree /\ LiveIsCached /\ NoDuplicateRequest
  BY <1>1 DEF Init, ModesAgree, LiveIsCached, NoDuplicateRequest
<1>6. QED
  BY <1>2, <1>3, <1>4, <1>5 DEF IInv

\* A track that has ended does not come back: what no step does to it.
LEMMA EndedForGood ==
    ASSUME ModesAgree, NEW t \in Ids, IsClosed(t),
           closed[t] => closed'[t],
           mode'[t] = mode[t] \/ mode'[t] = "closed" \/ home[t] = "held",
           ~WriterAlive(t) => ~WriterAlive(t)'
    PROVE  IsClosed(t)'
<1>1. CASE closed[t]
  BY <1>1 DEF IsClosed
<1>2. CASE ~closed[t]
  <2>1. mode[t] = "closed" \/ (mode[t] = "unset" /\ ~WriterAlive(t))
    BY <1>2 DEF IsClosed
  <2>2. ~WriterAlive(t) /\ home[t] # "held"
    BY <2>1 DEF ModesAgree, WriterAlive
  <2>3. QED
    BY <2>1, <2>2 DEF IsClosed
<1>3. QED
  BY <1>1, <1>2

\* Deduplication survives any step that neither produces nor displaces a track, and
\* revives none.
LEMMA NoNewDuplicate ==
    ASSUME NoDuplicateRequest, name' = name, displaced \subseteq displaced',
           \A t \in Made : IsClosed(t) => IsClosed(t)'
    PROVE  NoDuplicateRequest'
<1>1. Made' = Made
  BY DEF Made
<1>2. QED
  BY <1>1 DEF NoDuplicateRequest

\* A subscriber that does not hold the lock gets a cached track, learns a mode or
\* drops its TrackReader.
LEMMA ReaderStep ==
    ASSUME TracksAssumption, IInv, NEW s \in Subs, NEW t \in Ids \cup {NoTrack},
           NEW place \in {"idle", "await", "reading"},
           sub[s] \notin {"push", "insert"}, Goto(s, place, t),
           UNCHANGED <<holder, cache, request, popping, writer, reader, trackVars, displaced>>
    PROVE  IInv'
<1>1. /\ sub' = [sub EXCEPT ![s] = place] /\ track' = [track EXCEPT ![s] = t]
      /\ UNCHANGED <<holder, cache, request, popping, writer, reader, name, home, mode,
                     closed, displaced>>
  BY DEF Goto, trackVars
<1>2. TypeOK'
  BY <1>1 DEF IInv, TypeOK
<1>3. holder # s
  BY DEF IInv, LockHeld
<1>4. LockHeld'
  <2>1. \A u \in Subs : u # s => sub'[u] = sub[u] /\ track'[u] = track[u]
    BY <1>1 DEF IInv, TypeOK
  <2>2. \A u \in Subs : sub'[u] \in {"push", "insert"} <=> holder' = u
    BY <1>1, <1>3, <2>1 DEF IInv, TypeOK, LockHeld
  <2>3. holder' \in Subs => sub'[holder'] = sub[holder] /\ track'[holder'] = track[holder]
    BY <1>1, <1>3, <2>1
  <2>4. Made' = Made
    BY <1>1 DEF Made
  <2>5. QED
    BY <1>1, <2>2, <2>3, <2>4 DEF IInv, LockHeld
<1>5. NamesAgree' /\ ModesAgree'
  BY <1>1 DEF IInv, NamesAgree, ModesAgree, Made, WriterAlive
<1>6. \A u \in Made : IsClosed(u) => IsClosed(u)'
  BY <1>1 DEF IsClosed, WriterAlive
<1>7. LiveIsCached'
  <2>1. holder \in Subs => track'[holder] = track[holder]
    BY <1>1, <1>3 DEF IInv, TypeOK
  <2>2. QED
    BY <1>1, <1>6, <2>1 DEF IInv, LiveIsCached, Made, Freed
<1>8. NoDuplicateRequest'
  BY <1>1, <1>6, NoNewDuplicate DEF IInv
<1>9. QED
  BY <1>2, <1>4, <1>5, <1>7, <1>8 DEF IInv

\* Steps of the publisher and of the request queue: TrackWriters move, and tracks may
\* get their mode, its end or an error.
LEMMA WritersMove ==
    ASSUME TracksAssumption, IInv,
           UNCHANGED <<holder, cache, writer, sub, track, name, displaced>>,
           request' = request \/ (request # "gone" /\ request' \in {"drained", "released"}),
           reader' \in [Subs -> {"live", "half", "gone"}],
           \A s \in Subs : reader'[s] = "live" <=> reader[s] = "live",
           popping' \in {"try", "empty", "asleep"},
           home' \in [Ids -> Homes], mode' \in [Ids -> {"unset", "open", "closed"}],
           closed' \in [Ids -> BOOLEAN],
           \A t \in Ids :
               /\ home[t] \in {"none", "made"} => home'[t] = home[t]
               /\ home[t] = "gone" => home'[t] = "gone"
               /\ mode'[t] = mode[t] \/ (mode'[t] = "closed" /\ mode[t] = "open")
                  \/ (home[t] = "held" /\ home'[t] = "gone")
               /\ closed[t] => closed'[t]
    PROVE  IInv'
<1>1. request' \in {"live", "drained", "released", "gone"}
  BY DEF IInv, TypeOK
<1>2. TypeOK'
  BY <1>1 DEF IInv, TypeOK
<1>3. Made' = Made /\ Made \subseteq Ids
  BY TracksAssumption DEF Made, Ids, IInv, TypeOK, NamesAgree, TracksAssumption
<1>4. LockHeld'
  <2>1. \A s \in Subs : sub'[s] \in {"push", "insert"} <=> holder' = s
    BY DEF IInv, LockHeld
  <2>2. ASSUME holder \in Subs
        PROVE  /\ reader'[holder'] = "live" /\ track'[holder'] \in Made'
               /\ cache'[name'[track'[holder']]] = NoTrack
               /\ sub'[holder'] = "push" => home'[track'[holder']] = "made"
    <3>1. /\ reader[holder] = "live" /\ track[holder] \in Made
          /\ cache[name[track[holder]]] = NoTrack
          /\ sub[holder] = "push" => home[track[holder]] = "made"
      BY <2>2 DEF IInv, LockHeld
    <3>2. QED
      BY <1>3, <2>2, <3>1
  <2>3. QED
    BY <2>1, <2>2 DEF LockHeld
<1>5. NamesAgree'
  BY <1>3 DEF IInv, NamesAgree
<1>6. \A t \in Ids : ~WriterAlive(t) => ~WriterAlive(t)'
  BY DEF WriterAlive
<1>7. ModesAgree'
  <2>1. ASSUME NEW t \in Ids, mode'[t] # "unset" PROVE ~WriterAlive(t)'
    <3>1. CASE home'[t] = "gone"
      BY <3>1 DEF WriterAlive
    <3>2. CASE mode[t] # "unset"
      BY <1>6, <3>2 DEF IInv, ModesAgree
    <3>3. QED
      BY <2>1, <3>1, <3>2
  <2>2. QED
    BY <2>1 DEF ModesAgree
<1>8. \A t \in Made : IsClosed(t) => IsClosed(t)'
  BY <1>3, <1>6, EndedForGood DEF IInv
<1>9. LiveIsCached'
  <2>1. Freed => Freed'
    BY DEF Freed
  <2>2. ASSUME NEW t \in Made \ displaced
        PROVE  IsClosed(t)' \/ Freed' \/ cache'[name'[t]] = t \/ (holder' \in Subs /\ track'[holder'] = t)
    BY <1>8, <2>1 DEF IInv, LiveIsCached
  <2>3. QED
    BY <1>3, <2>2 DEF LiveIsCached
<1>10. NoDuplicateRequest'
  BY <1>8, NoNewDuplicate DEF IInv
<1>11. QED
  BY <1>2, <1>4, <1>5, <1>7, <1>9, <1>10 DEF IInv

\* A handle of the broadcast is dropped, and the cache is freed with the last one.
LEMMA HandleGoes ==
    ASSUME TracksAssumption, IInv, holder = NoOne,
           UNCHANGED <<holder, popping, sub, track, name, home, mode, closed, displaced>>,
           request' \in {"live", "drained", "released", "gone"}, writer' \in BOOLEAN,
           reader' \in [Subs -> {"live", "half", "gone"}],
           Freed => Freed',
           cache' = cache \/ (Freed' /\ cache' = [n \in Names |-> NoTrack])
    PROVE  IInv'
<1>1. cache' \in [Names -> Ids \cup {NoTrack}]
  BY DEF IInv, TypeOK
<1>2. TypeOK'
  BY <1>1 DEF IInv, TypeOK
<1>3. Made' = Made
  BY DEF Made
<1>4. LockHeld'
  BY TracksAssumption DEF IInv, LockHeld, TracksAssumption
<1>5. NamesAgree' /\ ModesAgree'
  BY <1>3 DEF IInv, NamesAgree, ModesAgree, WriterAlive
<1>6. \A t \in Made : IsClosed(t) => IsClosed(t)'
  BY DEF IsClosed, WriterAlive
<1>7. LiveIsCached'
  <2>1. ASSUME NEW t \in Made \ displaced
        PROVE  IsClosed(t)' \/ Freed' \/ cache'[name'[t]] = t
    BY <1>6, TracksAssumption DEF IInv, LiveIsCached, TracksAssumption
  <2>2. QED
    BY <1>3, <2>1 DEF LiveIsCached
<1>8. NoDuplicateRequest'
  BY <1>6, NoNewDuplicate DEF IInv
<1>9. QED
  BY <1>2, <1>4, <1>5, <1>7, <1>8 DEF IInv

\* A new track takes the next number.
LEMMA NewTrack ==
    ASSUME TracksAssumption, IInv, NextId \in Ids, NEW n \in Names, name' = Append(name, n)
    PROVE  /\ name' \in Seq(Names) /\ Len(name') = NextId /\ Len(name') <= MaxTracks
           /\ Made' = Made \cup {NextId} /\ NextId \notin Made /\ Made \subseteq Ids
           /\ name'[NextId] = n
           /\ \A t \in Made : name'[t] = name[t]
<1>1. name \in Seq(Names) /\ Len(name) \in Nat /\ MaxTracks \in Nat
  BY TracksAssumption DEF IInv, TypeOK, TracksAssumption
<1>2. /\ name' \in Seq(Names) /\ Len(name') = Len(name) + 1
      /\ name'[Len(name) + 1] = n
      /\ \A t \in 1..Len(name) : name'[t] = name[t]
  BY <1>1
<1>3. Len(name) + 1 <= MaxTracks
  BY <1>1 DEF NextId, Ids
<1>4. QED
  BY <1>1, <1>2, <1>3 DEF Made, NextId, Ids

LEMMA EvictStep ==
    ASSUME TracksAssumption, IInv, NEW s \in Subs, NEW n \in Names, Evict(s, n)
    PROVE  IInv'
<1>1. /\ sub[s] = "idle" /\ reader[s] = "live" /\ holder = NoOne
      /\ ~Alive(n) /\ TracksOpen /\ NextId \in Ids
      /\ cache' = [cache EXCEPT ![n] = NoTrack]
      /\ name' = Append(name, n) /\ holder' = s
      /\ sub' = [sub EXCEPT ![s] = "push"] /\ track' = [track EXCEPT ![s] = NextId]
      /\ home' = [home EXCEPT ![NextId] = "made"]
      /\ UNCHANGED <<request, popping, writer, reader, mode, closed, displaced>>
  BY DEF Evict, CanCall, Goto, Moved
<1>2. /\ name' \in Seq(Names) /\ Len(name') = NextId /\ Len(name') <= MaxTracks
      /\ Made' = Made \cup {NextId} /\ NextId \notin Made /\ Made \subseteq Ids
      /\ name'[NextId] = n /\ \A t \in Made : name'[t] = name[t]
  BY <1>1, NewTrack
<1>3. TypeOK'
  BY <1>1, <1>2 DEF IInv, TypeOK, Homes
<1>4. /\ cache'[n] = NoTrack /\ \A m \in Names : m # n => cache'[m] = cache[m]
      /\ home'[NextId] = "made" /\ \A t \in Ids : t # NextId => home'[t] = home[t]
      /\ sub'[s] = "push" /\ track'[s] = NextId
      /\ \A u \in Subs : u # s => sub'[u] = sub[u] /\ track'[u] = track[u]
  BY <1>1 DEF IInv, TypeOK
<1>5. LockHeld'
  <2>1. \A u \in Subs : sub'[u] \in {"push", "insert"} <=> holder' = u
    BY <1>1, <1>4, TracksAssumption DEF IInv, LockHeld, TracksAssumption
  <2>2. QED
    BY <1>1, <1>2, <1>4, <2>1 DEF LockHeld
<1>6. NamesAgree'
  <2>1. \A t \in Ids : t \notin Made' => home'[t] = "none" /\ mode'[t] = "unset"
    BY <1>1, <1>2, <1>4 DEF IInv, NamesAgree
  <2>2. \A m \in Names : cache'[m] # NoTrack => cache'[m] \in Made' /\ name'[cache'[m]] = m
    BY <1>2, <1>4 DEF IInv, NamesAgree
  <2>3. QED
    BY <1>2, <2>1, <2>2 DEF NamesAgree
<1>7. ModesAgree'
  <2>1. home[NextId] = "none" /\ mode'[NextId] = mode[NextId]
    BY <1>1, <1>2 DEF IInv, NamesAgree
  <2>2. mode[NextId] = "unset"
    BY <1>1, <1>2 DEF IInv, NamesAgree
  <2>3. QED
    BY <1>1, <1>4, <2>1, <2>2 DEF IInv, ModesAgree, WriterAlive
<1>8. \A t \in Made : IsClosed(t) <=> IsClosed(t)'
  BY <1>1, <1>2, <1>4 DEF IsClosed, WriterAlive
<1>9. ~Freed /\ ~Freed'
  BY <1>1 DEF Freed
<1>10. LiveIsCached'
  <2>1. ASSUME NEW t \in Made \ displaced, ~IsClosed(t)
        PROVE  cache'[name'[t]] = t
    <3>1. cache[name[t]] = t
      BY <1>1, <1>9, <2>1, TracksAssumption DEF IInv, LiveIsCached, TracksAssumption
    <3>2. name[t] # n
      BY <1>1, <2>1, <3>1 DEF Alive, NoTrack, Made
    <3>3. name[t] \in Names
      BY <2>1 DEF IInv, TypeOK, Made
    <3>4. QED
      BY <1>2, <1>4, <2>1, <3>1, <3>2, <3>3
  <2>2. QED
    BY <1>1, <1>2, <1>4, <1>8, <2>1 DEF LiveIsCached
<1>11. NoDuplicateRequest'
  <2>1. ASSUME NEW t \in Made \ displaced, name[t] = n PROVE IsClosed(t)
    <3>1. IsClosed(t) \/ cache[n] = t
      BY <1>1, <1>9, <2>1, TracksAssumption DEF IInv, LiveIsCached, TracksAssumption
    <3>2. t # NoTrack
      BY DEF NoTrack, Made
    <3>3. QED
      BY <1>1, <3>1, <3>2 DEF Alive
  <2>2. ASSUME NEW t \in Made' \ displaced', NEW u \in Made' \ displaced',
               name'[t] = name'[u], ~IsClosed(t)', ~IsClosed(u)'
        PROVE  t = u
    <3>1. CASE t \in Made /\ u \in Made
      BY <1>1, <1>2, <1>8, <2>2, <3>1 DEF IInv, NoDuplicateRequest
    <3>2. CASE t = NextId /\ u \in Made
      BY <1>1, <1>2, <1>8, <2>1, <2>2, <3>2
    <3>3. CASE t \in Made /\ u = NextId
      BY <1>1, <1>2, <1>8, <2>1, <2>2, <3>3
    <3>4. QED
      BY <1>2, <3>1, <3>2, <3>3
  <2>3. QED
    BY <2>2 DEF NoDuplicateRequest
<1>12. QED
  BY <1>3, <1>5, <1>6, <1>7, <1>10, <1>11 DEF IInv

LEMMA PushRequestStep ==
    ASSUME TracksAssumption, IInv, NEW s \in Subs, PushRequest(s)
    PROVE  IInv'
<1> DEFINE t == track[s]
<1>1. /\ sub[s] = "push" /\ holder = s
      /\ UNCHANGED <<cache, request, writer, reader, name, mode, closed, displaced>>
      /\ popping' = Woken \/ popping' = popping
      /\ \/ /\ home' = [home EXCEPT ![t] = "queued"] /\ holder' = holder
            /\ sub' = [sub EXCEPT ![s] = "insert"] /\ track' = [track EXCEPT ![s] = t]
         \/ /\ home' = [home EXCEPT ![t] = "gone"] /\ holder' = NoOne
            /\ sub' = [sub EXCEPT ![s] = "idle"] /\ track' = [track EXCEPT ![s] = NoTrack]
  BY DEF PushRequest, Goto, Moved, IInv, LockHeld
<1>2. /\ reader[s] = "live" /\ t \in Made /\ cache[name[t]] = NoTrack /\ home[t] = "made"
      /\ Made' = Made /\ Made \subseteq Ids
  BY <1>1, TracksAssumption DEF IInv, LockHeld, Made, Ids, NamesAgree, TypeOK, TracksAssumption
<1>3. TypeOK'
  <2>1. home' \in [Ids -> Homes]
    BY <1>1, <1>2 DEF IInv, TypeOK, Homes
  <2>2. /\ sub' \in [Subs -> {"idle", "push", "insert", "await", "reading"}]
        /\ track' \in [Subs -> Ids \cup {NoTrack}] /\ holder' \in Subs \cup {NoOne}
    BY <1>1, <1>2 DEF IInv, TypeOK
  <2>3. popping' \in {"try", "empty", "asleep"}
    BY <1>1 DEF Woken, IInv, TypeOK
  <2>4. QED
    BY <1>1, <2>1, <2>2, <2>3 DEF IInv, TypeOK
<1>4. /\ \A u \in Subs : u # s => sub'[u] = sub[u] /\ track'[u] = track[u]
      /\ \A u \in Ids : u # t => home'[u] = home[u]
      /\ \/ home'[t] = "queued" /\ holder' = s /\ sub'[s] = "insert" /\ track'[s] = t
         \/ home'[t] = "gone" /\ holder' = NoOne /\ sub'[s] = "idle"
  BY <1>1, <1>2 DEF IInv, TypeOK
<1>5. LockHeld'
  <2>1. \A u \in Subs : sub'[u] \in {"push", "insert"} <=> holder' = u
    BY <1>1, <1>4, TracksAssumption DEF IInv, LockHeld, TracksAssumption
  <2>2. QED
    BY <1>1, <1>2, <1>4, <2>1, TracksAssumption DEF LockHeld, TracksAssumption
<1>6. NamesAgree'
  BY <1>1, <1>2, <1>4 DEF IInv, NamesAgree
<1>7. mode[t] = "unset"
  BY <1>2 DEF IInv, ModesAgree, WriterAlive
<1>8. ModesAgree'
  BY <1>1, <1>2, <1>4, <1>7 DEF IInv, ModesAgree, WriterAlive
<1>9. \A u \in Made : IsClosed(u) => IsClosed(u)'
  BY <1>1, <1>2, <1>4 DEF IsClosed, WriterAlive
<1>10. LiveIsCached'
  <2>1. ASSUME NEW u \in Made \ displaced
        PROVE  \/ IsClosed(u)' \/ Freed' \/ cache'[name'[u]] = u
               \/ (holder' \in Subs /\ track'[holder'] = u)
    <3>1. CASE u = t
      BY <1>1, <1>2, <1>4, <1>7, <3>1 DEF IsClosed, WriterAlive
    <3>2. CASE u # t
      <4>1. IsClosed(u) \/ Freed \/ cache[name[u]] = u
        BY <1>1, <3>2 DEF IInv, LiveIsCached
      <4>2. QED
        BY <1>1, <1>9, <4>1 DEF Freed
    <3>3. QED
      BY <3>1, <3>2
  <2>2. QED
    BY <1>1, <1>2, <2>1 DEF LiveIsCached
<1>11. NoDuplicateRequest'
  BY <1>1, <1>9, NoNewDuplicate DEF IInv
<1>12. QED
  BY <1>3, <1>5, <1>6, <1>8, <1>10, <1>11 DEF IInv

LEMMA InsertTrackStep ==
    ASSUME TracksAssumption, IInv, NEW s \in Subs, InsertTrack(s)
    PROVE  IInv'
<1> DEFINE t == track[s]
<1>1. /\ sub[s] = "insert" /\ holder = s /\ holder' = NoOne
      /\ cache' = [cache EXCEPT ![name[t]] = t]
      /\ sub' = [sub EXCEPT ![s] = "await"] /\ track' = [track EXCEPT ![s] = t]
      /\ UNCHANGED <<request, popping, writer, reader, name, home, mode, closed, displaced>>
  BY DEF InsertTrack, Goto, IInv, LockHeld, trackVars
<1>2. /\ reader[s] = "live" /\ t \in Made /\ cache[name[t]] = NoTrack /\ name[t] \in Names
      /\ Made' = Made /\ Made \subseteq Ids
  BY <1>1, TracksAssumption DEF IInv, LockHeld, Made, Ids, NamesAgree, TypeOK, TracksAssumption
<1>3. TypeOK'
  BY <1>1, <1>2 DEF IInv, TypeOK
<1>4. /\ \A u \in Subs : u # s => sub'[u] = sub[u]
      /\ sub'[s] = "await"
      /\ cache'[name[t]] = t /\ \A n \in Names : n # name[t] => cache'[n] = cache[n]
  BY <1>1, <1>2 DEF IInv, TypeOK
<1>5. LockHeld'
  BY <1>1, <1>4, TracksAssumption DEF IInv, LockHeld, TracksAssumption
<1>6. NamesAgree'
  BY <1>1, <1>2, <1>4 DEF IInv, NamesAgree
<1>7. ModesAgree'
  BY <1>1 DEF IInv, ModesAgree, WriterAlive
<1>8. \A u \in Made : IsClosed(u) => IsClosed(u)'
  BY <1>1 DEF IsClosed, WriterAlive
<1>9. LiveIsCached'
  <2>1. ASSUME NEW u \in Made \ displaced, ~IsClosed(u)
        PROVE  cache'[name[u]] = u
    <3>1. cache[name[u]] = u \/ u = t
      BY <1>1, <1>2, <2>1 DEF IInv, LiveIsCached, Freed
    <3>2. name[u] \in Names /\ u # NoTrack
      BY <2>1 DEF IInv, TypeOK, Made, NoTrack
    <3>3. QED
      BY <1>2, <1>4, <3>1, <3>2
  <2>2. QED
    BY <1>1, <1>2, <1>8, <2>1 DEF LiveIsCached
<1>10. NoDuplicateRequest'
  BY <1>1, <1>8, NoNewDuplicate DEF IInv
<1>11. QED
  BY <1>3, <1>5, <1>6, <1>7, <1>9, <1>10 DEF IInv

LEMMA CreateTrackStep ==
    ASSUME TracksAssumption, IInv, NEW n \in Names, CreateTrack(n)
    PROVE  IInv'
<1>1. /\ writer /\ TracksOpen /\ holder = NoOne /\ NextId \in Ids
      /\ cache' = [cache EXCEPT ![n] = NextId]
      /\ name' = Append(name, n)
      /\ home' = [home EXCEPT ![NextId] = "held"]
      /\ displaced' = displaced \cup {cache[n]}
      /\ UNCHANGED <<holder, request, popping, writer, reader, sub, track, mode, closed>>
  BY DEF CreateTrack, Moved, subVars
<1>2. /\ name' \in Seq(Names) /\ Len(name') = NextId /\ Len(name') <= MaxTracks
      /\ Made' = Made \cup {NextId} /\ NextId \notin Made /\ Made \subseteq Ids
      /\ name'[NextId] = n /\ \A t \in Made : name'[t] = name[t]
  BY <1>1, NewTrack
<1>3. TypeOK'
  <2>1. cache[n] \in Ids \cup {NoTrack}
    BY DEF IInv, TypeOK
  <2>2. home' \in [Ids -> Homes]
    BY <1>1 DEF IInv, TypeOK, Homes
  <2>3. cache' \in [Names -> Ids \cup {NoTrack}] /\ displaced' \subseteq Ids \cup {NoTrack}
    BY <1>1, <2>1 DEF IInv, TypeOK
  <2>4. QED
    BY <1>1, <1>2, <2>2, <2>3 DEF IInv, TypeOK
<1>4. /\ cache'[n] = NextId /\ \A m \in Names : m # n => cache'[m] = cache[m]
      /\ home'[NextId] = "held" /\ \A t \in Ids : t # NextId => home'[t] = home[t]
  BY <1>1 DEF IInv, TypeOK
<1>5. LockHeld'
  BY <1>1, TracksAssumption DEF IInv, LockHeld, TracksAssumption
<1>6. NamesAgree'
  <2>1. \A t \in Ids : t \notin Made' => home'[t] = "none" /\ mode'[t] = "unset"
    BY <1>1, <1>2, <1>4 DEF IInv, NamesAgree
  <2>2. \A m \in Names : cache'[m] # NoTrack => cache'[m] \in Made' /\ name'[cache'[m]] = m
    BY <1>2, <1>4 DEF IInv, NamesAgree
  <2>3. QED
    BY <1>2, <2>1, <2>2 DEF NamesAgree
<1>7. ModesAgree'
  <2>1. mode'[NextId] = "unset"
    BY <1>1, <1>2 DEF IInv, NamesAgree
  <2>2. QED
    BY <1>1, <1>4, <2>1 DEF IInv, ModesAgree, WriterAlive
<1>8. \A t \in Made : IsClosed(t) <=> IsClosed(t)'
  BY <1>1, <1>2, <1>4 DEF IsClosed, WriterAlive
<1>9. ~Freed
  BY <1>1 DEF Freed
<1>10. ASSUME NEW t \in Made \ displaced', ~IsClosed(t)
       PROVE  cache[name[t]] = t /\ name[t] # n
  <2>1. t \notin displaced /\ t # cache[n]
    BY <1>1, <1>10
  <2>2. cache[name[t]] = t
    BY <1>1, <1>9, <1>10, <2>1, TracksAssumption DEF IInv, LiveIsCached, TracksAssumption
  <2>3. QED
    BY <2>1, <2>2
<1>11. LiveIsCached'
  <2>1. ASSUME NEW t \in Made \ displaced', ~IsClosed(t)
        PROVE  cache'[name'[t]] = t
    <3>1. name[t] \in Names
      BY <2>1 DEF IInv, TypeOK, Made
    <3>2. QED
      BY <1>2, <1>4, <1>10, <2>1, <3>1
  <2>2. QED
    BY <1>1, <1>2, <1>4, <1>8, <2>1 DEF LiveIsCached
<1>12. NoDuplicateRequest'
  <2>1. ASSUME NEW t \in Made' \ displaced', NEW u \in Made' \ displaced',
               name'[t] = name'[u], ~IsClosed(t)', ~IsClosed(u)'
        PROVE  t = u
    <3>1. CASE t \in Made /\ u \in Made
      BY <1>1, <1>2, <1>8, <2>1, <3>1 DEF IInv, NoDuplicateRequest
    <3>2. CASE t = NextId /\ u \in Made
      BY <1>2, <1>8, <1>10, <2>1, <3>2
    <3>3. CASE t \in Made /\ u = NextId
      BY <1>2, <1>8, <1>10, <2>1, <3>3
    <3>4. QED
      BY <1>2, <3>1, <3>2, <3>3
  <2>2. QED
    BY <2>1 DEF NoDuplicateRequest
<1>13. QED
  BY <1>3, <1>5, <1>6, <1>7, <1>11, <1>12 DEF IInv

LEMMA RemoveTrackStep ==
    ASSUME TracksAssumption, IInv, NEW n \in Names, RemoveTrack(n)
    PROVE  IInv'
<1>1. /\ TracksOpen /\ holder = NoOne
      /\ cache' = [cache EXCEPT ![n] = NoTrack]
      /\ displaced' = displaced \cup {cache[n]}
      /\ UNCHANGED <<holder, request, popping, writer, reader, sub, track, name, home, mode,
                     closed>>
  BY DEF RemoveTrack, subVars, trackVars
<1>2. Made' = Made
  BY <1>1 DEF Made
<1>3. TypeOK'
  <2>1. cache[n] \in Ids \cup {NoTrack}
    BY DEF IInv, TypeOK
  <2>2. cache' \in [Names -> Ids \cup {NoTrack}] /\ displaced' \subseteq Ids \cup {NoTrack}
    BY <1>1, <2>1 DEF IInv, TypeOK
  <2>3. QED
    BY <1>1, <2>2 DEF IInv, TypeOK
<1>4. cache'[n] = NoTrack /\ \A m \in Names : m # n => cache'[m] = cache[m]
  BY <1>1 DEF IInv, TypeOK
<1>5. LockHeld'
  BY <1>1, TracksAssumption DEF IInv, LockHeld, TracksAssumption
<1>6. NamesAgree' /\ ModesAgree'
  BY <1>1, <1>2, <1>4 DEF IInv, NamesAgree, ModesAgree, WriterAlive
<1>7. \A t \in Made : IsClosed(t) => IsClosed(t)'
  BY <1>1 DEF IsClosed, WriterAlive
<1>8. LiveIsCached'
  <2>1. ASSUME NEW t \in Made \ displaced', ~IsClosed(t), ~Freed
        PROVE  cache'[name[t]] = t
    <3>1. t \notin displaced /\ t # cache[n] /\ name[t] \in Names
      BY <1>1, <2>1 DEF IInv, TypeOK, Made
    <3>2. cache[name[t]] = t
      BY <1>1, <2>1, <3>1, TracksAssumption DEF IInv, LiveIsCached, TracksAssumption
    <3>3. QED
      BY <1>4, <3>1, <3>2
  <2>2. Freed => Freed'
    BY <1>1 DEF Freed
  <2>3. QED
    BY <1>1, <1>2, <1>7, <2>1, <2>2 DEF LiveIsCached
<1>9. NoDuplicateRequest'
  BY <1>1, <1>7, NoNewDuplicate DEF IInv
<1>10. QED
  BY <1>3, <1>5, <1>6, <1>8, <1>9 DEF IInv

LEMMA SubscribingStep ==
    ASSUME TracksAssumption, IInv, NEW s \in Subs, Subscribing(s)
    PROVE  IInv'
<1>1. ASSUME NEW n \in Names, ShareCached(s, n) PROVE IInv'
  <2>1. cache[n] \in Ids \cup {NoTrack} /\ sub[s] \notin {"push", "insert"}
    BY <1>1 DEF ShareCached, CanCall, IInv, TypeOK
  <2>2. QED
    BY <1>1, <2>1, ReaderStep DEF ShareCached
<1>2. ASSUME ModeReturns(s) PROVE IInv'
  <2>1. track[s] \in Ids \cup {NoTrack} /\ sub[s] \notin {"push", "insert"}
    BY <1>2 DEF ModeReturns, IInv, TypeOK
  <2>2. Goto(s, "reading", track[s]) \/ Goto(s, "idle", NoTrack)
    BY <1>2 DEF ModeReturns
  <2>3. QED
    BY <1>2, <2>1, <2>2, ReaderStep DEF ModeReturns
<1>3. ASSUME Leave(s) PROVE IInv'
  BY <1>3, ReaderStep DEF Leave
<1>4. ASSUME DropReaderState(s) PROVE IInv'
  <2>1. /\ reader[s] = "live" /\ holder = NoOne
        /\ reader' = [reader EXCEPT ![s] = "half"]
        /\ cache' = CacheLeft(writer, request, {reader'[u] : u \in Subs})
        /\ UNCHANGED <<holder, request, popping, writer, sub, track, name, home, mode, closed,
                       displaced>>
    BY <1>4 DEF DropReaderState, trackVars
  <2>2. /\ reader' \in [Subs -> {"live", "half", "gone"}]
        /\ Freed => Freed'
    BY <2>1 DEF IInv, TypeOK, Freed
  <2>3. cache' = cache \/ (Freed' /\ cache' = [n \in Names |-> NoTrack])
    BY <2>1 DEF CacheLeft, Freed
  <2>4. request' \in {"live", "drained", "released", "gone"} /\ writer' \in BOOLEAN
    BY <2>1 DEF IInv, TypeOK
  <2>5. QED
    BY <2>1, <2>2, <2>3, <2>4, HandleGoes
<1>5. ASSUME DropReaderQueue(s) PROVE IInv'
  <2>1. /\ reader[s] = "half"
        /\ reader' = [reader EXCEPT ![s] = "gone"]
        /\ home' = HomesLeft(request, {reader'[u] : u \in Subs})
        /\ UNCHANGED <<holder, cache, request, writer, sub, track, name, mode, closed, displaced>>
    BY <1>5 DEF DropReaderQueue
  <2>2. /\ reader' \in [Subs -> {"live", "half", "gone"}]
        /\ \A u \in Subs : reader'[u] = "live" <=> reader[u] = "live"
    BY <2>1 DEF IInv, TypeOK
  <2>3. home' \in [Ids -> Homes] /\ \A t \in Ids : home'[t] = home[t]
                                      \/ (home[t] = "queued" /\ home'[t] = "gone")
    BY <2>1 DEF HomesLeft, IInv, TypeOK, Homes
  <2>4. mode' \in [Ids -> {"unset", "open", "closed"}] /\ closed' \in [Ids -> BOOLEAN]
    BY <2>1 DEF IInv, TypeOK
  <2>5. popping' \in {"try", "empty", "asleep"}
    BY <1>5 DEF DropReaderQueue, Woken, IInv, TypeOK
  <2>6. QED
    BY <2>1, <2>2, <2>3, <2>4, <2>5, WritersMove
<1>6. QED
  BY <1>1, <1>2, <1>3, <1>4, <1>5, EvictStep, PushRequestStep, InsertTrackStep
     DEF Subscribing

LEMMA RequestStep ==
    ASSUME TracksAssumption, IInv,
           CloseQueue \/ DropSteps \/ DropWriter \/ Popping \/ CancelNext
    PROVE  IInv'
<1>1. /\ home \in [Ids -> Homes] /\ mode \in [Ids -> {"unset", "open", "closed"}]
      /\ closed \in [Ids -> BOOLEAN] /\ reader \in [Subs -> {"live", "half", "gone"}]
      /\ writer \in BOOLEAN /\ request \in {"live", "drained", "released", "gone"}
      /\ popping \in {"try", "empty", "asleep"}
  BY DEF IInv, TypeOK
<1>2. ASSUME CloseQueue PROVE IInv'
  <2>1. home' \in [Ids -> Homes] /\ \A t \in Ids : home'[t] = home[t]
                                      \/ (home[t] = "queued" /\ home'[t] = "drained")
    BY <1>1, <1>2 DEF CloseQueue, Homes
  <2>2. QED
    BY <1>1, <1>2, <2>1, WritersMove DEF CloseQueue, subVars
<1>3. ASSUME ReleaseQueue PROVE IInv'
  <2>1. home' \in [Ids -> Homes] /\ \A t \in Ids : home'[t] = home[t]
                                      \/ (home[t] = "queued" /\ home'[t] = "gone")
    BY <1>1, <1>3 DEF ReleaseQueue, HomesLeft, Homes
  <2>2. QED
    BY <1>1, <1>3, <2>1, WritersMove DEF ReleaseQueue, subVars
<1>4. ASSUME NEW t \in Ids, NextRequest(t) PROVE IInv'
  <2>1. /\ home[t] = "queued" /\ home' = [home EXCEPT ![t] = "held"]
        /\ UNCHANGED <<holder, cache, request, popping, writer, reader, sub, track, name,
                       mode, closed, displaced>>
    BY <1>4 DEF NextRequest, Oldest, At, Moved, subVars
  <2>2. home' \in [Ids -> Homes]
    BY <1>1, <2>1 DEF Homes
  <2>3. QED
    BY <1>1, <2>1, <2>2, WritersMove
<1>5. ASSUME NEW t \in Ids, ClosePending(t) PROVE IInv'
  <2>1. /\ home[t] = "drained" /\ home' = [home EXCEPT ![t] = "gone"]
        /\ closed' = [closed EXCEPT ![t] = closed[t] \/ Readable(t)]
        /\ UNCHANGED <<holder, cache, request, popping, writer, reader, sub, track, name,
                       mode, displaced>>
    BY <1>5 DEF ClosePending, Oldest, At, Moved, subVars
  <2>2. home' \in [Ids -> Homes]
    BY <1>1, <2>1 DEF Homes
  <2>3. closed' \in [Ids -> BOOLEAN] /\ \A u \in Ids : closed[u] => closed'[u]
    <3>1. (closed[t] \/ Readable(t)) \in BOOLEAN
      BY DEF Readable
    <3>2. QED
      BY <1>1, <2>1, <3>1
  <2>4. QED
    BY <1>1, <2>1, <2>2, <2>3, WritersMove
<1>6. ASSUME FinishDrop PROVE IInv'
  <2>1. /\ holder = NoOne /\ request' = "gone"
        /\ cache' = CacheLeft(writer, "gone", {reader[u] : u \in Subs})
        /\ UNCHANGED <<holder, popping, writer, reader, sub, track, name, home, mode, closed,
                       displaced>>
    BY <1>6 DEF FinishDrop, subVars, trackVars
  <2>2. cache' = cache \/ (Freed' /\ cache' = [n \in Names |-> NoTrack])
    BY <2>1 DEF CacheLeft, Freed
  <2>3. Freed => Freed'
    BY <2>1 DEF Freed
  <2>4. QED
    BY <1>1, <2>1, <2>2, <2>3, HandleGoes
<1>7. ASSUME DropWriter PROVE IInv'
  <2>1. /\ holder = NoOne /\ writer' = FALSE
        /\ cache' = CacheLeft(FALSE, request, {reader[u] : u \in Subs})
        /\ UNCHANGED <<holder, request, popping, reader, sub, track, name, home, mode, closed,
                       displaced>>
    BY <1>7 DEF DropWriter, subVars, trackVars
  <2>2. cache' = cache \/ (Freed' /\ cache' = [n \in Names |-> NoTrack])
    BY <2>1 DEF CacheLeft, Freed
  <2>3. Freed => Freed'
    BY <2>1 DEF Freed
  <2>4. QED
    BY <1>1, <2>1, <2>2, <2>3, HandleGoes
<1>8. ASSUME FindNone \/ AwaitRequest \/ CancelNext PROVE IInv'
  <2>1. /\ UNCHANGED <<holder, cache, request, writer, reader, sub, track, name, home, mode,
                       closed, displaced>>
        /\ popping' \in {"try", "empty", "asleep"}
    BY <1>8 DEF FindNone, AwaitRequest, CancelNext, subVars, trackVars
  <2>2. QED
    BY <1>1, <2>1, WritersMove
<1>9. QED
  BY <1>2, <1>3, <1>4, <1>5, <1>6, <1>7, <1>8 DEF DropSteps, Popping

LEMMA HandlingStep ==
    ASSUME TracksAssumption, IInv, NEW t \in Ids, Handling(t)
    PROVE  IInv'
<1>1. /\ home \in [Ids -> Homes] /\ mode \in [Ids -> {"unset", "open", "closed"}]
      /\ closed \in [Ids -> BOOLEAN] /\ reader \in [Subs -> {"live", "half", "gone"}]
  BY DEF IInv, TypeOK
<1>2. /\ UNCHANGED <<holder, cache, request, popping, writer, reader, sub, track, name,
                     displaced>>
      /\ popping \in {"try", "empty", "asleep"}
  BY DEF Handling, ServeTrack, RejectTrack, AbandonTrack, EndMode, subVars, IInv, TypeOK
<1>3. ASSUME home[t] = "held", home' = Moved(t, "gone")
      PROVE  home' \in [Ids -> Homes] /\ home'[t] = "gone"
             /\ \A u \in Ids : u # t => home'[u] = home[u]
  BY <1>1, <1>3 DEF Moved, Homes
<1>4. ASSUME ServeTrack(t) PROVE IInv'
  <2>1. /\ mode' \in [Ids -> {"unset", "open", "closed"}] /\ closed' = closed
        /\ \A u \in Ids : u # t => mode'[u] = mode[u]
    BY <1>1, <1>4 DEF ServeTrack
  <2>2. home[t] = "held" /\ home' = Moved(t, "gone")
    BY <1>4 DEF ServeTrack
  <2>3. QED
    BY <1>1, <1>2, <1>3, <2>1, <2>2, WritersMove
<1>5. ASSUME RejectTrack(t) PROVE IInv'
  <2>1. closed' \in [Ids -> BOOLEAN] /\ mode' = mode /\ \A u \in Ids : closed[u] => closed'[u]
    <3>1. (closed[t] \/ Readable(t)) \in BOOLEAN
      BY DEF Readable
    <3>2. closed' = [closed EXCEPT ![t] = closed[t] \/ Readable(t)] /\ mode' = mode
      BY <1>5 DEF RejectTrack
    <3>3. QED
      BY <1>1, <3>1, <3>2
  <2>2. home[t] = "held" /\ home' = Moved(t, "gone")
    BY <1>5 DEF RejectTrack
  <2>3. QED
    BY <1>1, <1>2, <1>3, <2>1, <2>2, WritersMove
<1>6. ASSUME AbandonTrack(t) PROVE IInv'
  <2>1. home[t] = "held" /\ home' = Moved(t, "gone") /\ mode' = mode /\ closed' = closed
    BY <1>6 DEF AbandonTrack
  <2>2. QED
    BY <1>1, <1>2, <1>3, <2>1, WritersMove
<1>7. ASSUME EndMode(t) PROVE IInv'
  <2>1. /\ home' = home /\ closed' = closed /\ mode[t] = "open"
        /\ mode' = [mode EXCEPT ![t] = "closed"]
    BY <1>7 DEF EndMode
  <2>2. QED
    BY <1>1, <1>2, <2>1, WritersMove
<1>8. QED
  BY <1>4, <1>5, <1>6, <1>7 DEF Handling

LEMMA StepIInv ==
    ASSUME TracksAssumption, IInv, [Next]_vars
    PROVE  IInv'
<1>1. CASE Next
  <2>1. ASSUME NEW n \in Names, CreateTrack(n) \/ RemoveTrack(n) PROVE IInv'
    BY <2>1, CreateTrackStep, RemoveTrackStep
  <2>2. QED
    BY <1>1, <2>1, SubscribingStep, RequestStep, HandlingStep DEF Next, Writing
<1>2. CASE UNCHANGED vars
  <2>1. UNCHANGED <<holder, cache, request, popping, writer, reader, sub, track, name, home,
                    mode, closed, displaced>>
    BY <1>2 DEF vars, subVars, trackVars
  <2>2. QED
    BY <2>1 DEF IInv, TypeOK, LockHeld, NamesAgree, ModesAgree, LiveIsCached,
                NoDuplicateRequest, Made, IsClosed, WriterAlive, Freed
<1>3. QED
  BY <1>1, <1>2

\* The invariant of the broadcast, from the assumption on the constants alone.
THEOREM InvariantHolds == Spec => []IInv
<1>1. Init => IInv
  BY InitIInv, TracksAssumption
<1>2. IInv /\ [Next]_vars => IInv'
  BY StepIInv, TracksAssumption
<1>3. QED
  BY <1>1, <1>2, PTL DEF Spec

\* Every variable of the broadcast keeps its type.
THEOREM TypeCorrect == Spec => []TypeOK
<1>1. IInv => TypeOK
  BY DEF IInv
<1>2. QED
  BY <1>1, InvariantHolds, PTL

\* Requests are deduplicated by full name, whatever the subscribers and the publisher do.
THEOREM RequestsAreDeduplicated == Spec => []NoDuplicateRequest
<1>1. IInv => NoDuplicateRequest
  BY DEF IInv
<1>2. QED
  BY <1>1, InvariantHolds, PTL

\* Only a track that has ended is evicted from the cache by a subscriber.
THEOREM SubscribersEvictStaleOnly == Spec => OnlyStaleIsEvicted
<1>1. ASSUME IInv, [Next]_vars, NEW n \in Names,
             cache'[n] # cache[n], cache[n] # NoTrack, sub' # sub
      PROVE  IsClosed(cache[n])
  <2>1. PICK s \in Subs : \/ \E m \in Names : Evict(s, m)
                          \/ InsertTrack(s)
    <3>1. CASE UNCHANGED vars
      BY <1>1, <3>1 DEF vars, subVars
    <3>2. CASE CloseQueue \/ DropSteps \/ Writing
      BY <1>1, <3>2 DEF CloseQueue, DropSteps, ReleaseQueue, ClosePending, FinishDrop,
                        Writing, CreateTrack, RemoveTrack, DropWriter, subVars
    <3>3. CASE Popping \/ CancelNext \/ \E t \in Ids : Handling(t)
      BY <1>1, <3>3 DEF Popping, NextRequest, FindNone, AwaitRequest, CancelNext, Handling,
                        ServeTrack, RejectTrack, AbandonTrack, EndMode, subVars
    <3>4. CASE \E s \in Subs : Subscribing(s)
      BY <1>1, <3>4 DEF Subscribing, ShareCached, PushRequest, ModeReturns, Leave,
                        DropReaderState, DropReaderQueue
    <3>5. QED
      BY <1>1, <3>1, <3>2, <3>3, <3>4 DEF Next
  <2>2. CASE InsertTrack(s)
    <3>1. sub[s] = "insert" /\ holder = s /\ cache' = [cache EXCEPT ![name[track[s]]] = track[s]]
      BY <1>1, <2>2 DEF InsertTrack, IInv, LockHeld
    <3>2. n = name[track[s]]
      BY <1>1, <3>1 DEF IInv, TypeOK
    <3>3. cache[n] = NoTrack
      BY <1>1, <3>1, <3>2 DEF IInv, LockHeld
    <3>4. QED
      BY <1>1, <3>3
  <2>3. ASSUME NEW m \in Names, Evict(s, m) PROVE IsClosed(cache[n])
    <3>1. ~Alive(m) /\ cache' = [cache EXCEPT ![m] = NoTrack]
      BY <2>3 DEF Evict
    <3>2. n = m
      BY <1>1, <3>1 DEF IInv, TypeOK
    <3>3. QED
      BY <1>1, <3>1, <3>2 DEF Alive
  <2>4. QED
    BY <2>1, <2>2, <2>3
<1>2. ASSUME IInv, [Next]_vars
      PROVE  [\A n \in Names :
                 cache'[n] # cache[n] /\ cache[n] # NoTrack /\ sub' # sub
                    => closed[cache[n]] \/ mode[cache[n]] = "closed"
                       \/ (mode[cache[n]] = "unset" /\ ~WriterAlive(cache[n]))]_vars
  BY <1>1, <1>2 DEF IsClosed
<1>3. QED
  BY <1>2, InvariantHolds, PTL DEF Spec, OnlyStaleIsEvicted
=============================================================================
