------------------------------- MODULE Serve -------------------------------
(***************************************************************************)
(* The data of a served track: the three modes a TrackWriter can take      *)
(* (serve/subgroup.rs, serve/stream.rs, serve/datagram.rs).  A track is a  *)
(* cell with its latest subgroup, group or datagram; a subgroup or group   *)
(* is a cell with the objects so far; an object is a cell with the chunks  *)
(* so far.  One task writes the track, one each of its subgroups (a data   *)
(* stream of the upstream session); any number of readers take copies of   *)
(* what they find, each at its own pace, and read every subgroup they took *)
(* in a task of its own (session/subscribed.rs).                           *)
(*                                                                         *)
(* Every step is one critical section of one watch::State.  That a reader  *)
(* which waits for a change of a cell is woken by it is what Queue.tla     *)
(* shows of watch::State.  Chunks are counted, not their bytes spelt out.  *)
(***************************************************************************)
EXTENDS Naturals, Sequences, SequencesExt

CONSTANTS Readers,      \* TrackReaders, the clones of the cached one
          Modes,        \* modes the track may be served in
          Positions,    \* the group and subgroup ids that arrive
          Sizes,        \* announced sizes of objects
          ChunkSizes,   \* sizes of the chunks they are written in
          MaxEntries,   \* bound: entries that become the latest of the track
          MaxObjects    \* bound: objects that are created in a behaviour

ASSUME ServeAssumption ==
    /\ Modes \subseteq {"subgroups", "stream", "datagrams"}
    /\ Positions \subseteq Nat \X Nat
    /\ Sizes \subseteq Nat /\ ChunkSizes \subseteq Nat \ {0}
    /\ MaxEntries \in Nat /\ MaxObjects \in Nat

VARIABLES
    mode,      \* how the track is served
    entry,     \* the entries that were the latest of the track, in that order: the
               \*   number of the last is the epoch of the track's cell
    writer,    \* TRUE while the writer of the mode is alive
    closed,    \* TRUE when it closed the track with an error
    cached,    \* TRUE while the reader of the mode is in the TrackState
    reader,    \* each reader of the mode: not made yet, live or gone
    seen,      \* its epoch: the last entry it took, or 0
    heard,     \* "none", or how the track ended for it: "end" or "error"
    task       \* its task on each entry

trackVars == <<entry, writer, closed>>
vars == <<mode, trackVars, cached, reader, seen, heard, task>>

Numbers == 1..MaxEntries
Latest == Len(entry)

\* Nothing taken yet; otherwise the objects taken, and of the current one the chunks
\* read and their size.
NoTask == [state |-> "none", index |-> 0, chunk |-> 0, size |-> 0]

Init ==
    /\ mode \in Modes
    /\ entry = <<>>
    /\ writer = TRUE
    /\ closed = FALSE
    /\ cached = TRUE
    /\ reader = [r \in Readers |-> "unborn"]
    /\ seen = [r \in Readers |-> 0]
    /\ heard = [r \in Readers |-> "none"]
    /\ task = [r \in Readers |-> [i \in Numbers |-> NoTask]]

\* A subgroup without objects, and its writer.
NewSubgroup(at) ==
    [at |-> at, writer |-> TRUE, closed |-> FALSE, poisoned |-> FALSE,
     nextId |-> 0, objects |-> <<>>]

\* An object without chunks, and its writer.
NewObject(id, size) ==
    [id |-> id, size |-> size, remain |-> size, chunks |-> <<>>,
     writer |-> TRUE, closed |-> FALSE]

-----------------------------------------------------------------------------
(* Who is left: State::dropped of the track's cell and of a subgroup's. *)

TrackRead == cached \/ \E r \in Readers : reader[r] = "live"

Reading(r, i) == task[r][i].state \in {"group", "object"}

\* Variant for mutation: the reader in the track's cell does not count.
SubgroupReadByTasks(i) == \E r \in Readers : Reading(r, i)

\* The track's cell holds a reader of the latest entry, as long as it has a handle.
SubgroupRead(i) ==
    \/ i = Latest /\ (writer \/ TrackRead)
    \/ \E r \in Readers : Reading(r, i)

-----------------------------------------------------------------------------
(* The writer of the track. *)

Precedes(a, b) == a[1] < b[1] \/ (a[1] = b[1] /\ a[2] < b[2])

\* Variant for mutation: the groups are not compared.
IsNewerBySubgroup(at) == Latest > 0 => entry[Latest].at # at

\* A subgroup that precedes the latest gets a writer that nobody can read from; the
\* latest again is a Duplicate.
IsNewer(at) == Latest > 0 => Precedes(entry[Latest].at, at)

CanPublish == writer /\ TrackRead /\ Latest < MaxEntries

Publish(e) ==
    /\ entry' = Append(entry, e)
    /\ UNCHANGED <<mode, writer, closed, cached, reader, seen, heard, task>>

\* SubgroupsWriter::create, where it changes the track.
CreateSubgroup(at) ==
    /\ mode = "subgroups"
    /\ CanPublish
    /\ IsNewer(at)
    /\ Publish(NewSubgroup(at))

NextGroup == <<IF Latest = 0 THEN 0 ELSE entry[Latest].at[1] + 1, 0>>

\* append: a new group, with one subgroup.
AppendSubgroup ==
    /\ NextGroup \in Positions
    /\ CreateSubgroup(NextGroup)

\* StreamWriter::create: the latest group may be replaced by one with its id.  A
\* StreamWriter is Clone, "meant to be sequential" (stream.rs:62): there is one here.
CreateStreamGroup(at) ==
    /\ mode = "stream"
    /\ CanPublish
    /\ Latest > 0 => entry[Latest].at[1] <= at[1]
    /\ Publish(NewSubgroup(<<at[1], 0>>))

AppendStreamGroup ==
    /\ NextGroup \in Positions
    /\ CreateStreamGroup(NextGroup)

\* Datagrams are taken as they come.
WriteDatagram(at) ==
    /\ mode = "datagrams"
    /\ CanPublish
    /\ Publish([NewSubgroup(at) EXCEPT !.writer = FALSE])

\* The writer is dropped, or closes the track with an error unless nobody reads it.
EndTrack(err) ==
    /\ writer
    /\ writer' = FALSE
    /\ closed' = (err /\ TrackRead)
    /\ UNCHANGED <<mode, entry, cached, reader, seen, heard, task>>

EndSubgroups(err) == mode = "subgroups" /\ EndTrack(err)
EndStream(err) == mode = "stream" /\ EndTrack(err)
EndDatagrams(err) == mode = "datagrams" /\ EndTrack(err)

\* The TrackReader leaves the cache of the broadcast.
Evict ==
    /\ cached
    /\ cached' = FALSE
    /\ UNCHANGED <<mode, trackVars, reader, seen, heard, task>>

-----------------------------------------------------------------------------
(* The writer of a subgroup or group, which writes one object at a time. *)

Current(i) == entry[i].objects[Len(entry[i].objects)]

Writing(i) ==
    /\ i \in 1..Latest
    /\ Len(entry[i].objects) > 0
    /\ Current(i).writer

\* How many objects were created, or asked for.
Created == FoldLeft(LAMBDA n, e : n + (IF mode = "stream" THEN Len(e.objects) ELSE e.nextId), 0, entry)

BetweenObjects(i) ==
    /\ i \in 1..Latest
    /\ entry[i].writer /\ ~entry[i].poisoned
    /\ ~Writing(i)

SetEntry(i, e) ==
    /\ entry' = [entry EXCEPT ![i] = e]
    /\ UNCHANGED <<mode, writer, closed, cached, reader, seen, heard, task>>

\* SubgroupWriter::create counts the object before it finds out that nobody reads it.
CreateObject(i, size) ==
    /\ mode = "subgroups"
    /\ BetweenObjects(i)
    /\ Created < MaxObjects
    /\ SetEntry(i, [entry[i] EXCEPT
          !.nextId = @ + 1,
          !.objects = IF SubgroupRead(i)
                      THEN Append(@, NewObject(entry[i].nextId, size)) ELSE @])

\* StreamGroupWriter::create does not count.
CreateStreamObject(i, size) ==
    /\ mode = "stream"
    /\ BetweenObjects(i)
    /\ SubgroupRead(i)
    /\ Created < MaxObjects
    /\ SetEntry(i, [entry[i] EXCEPT
          !.objects = Append(@, NewObject(entry[i].nextId, size))])

SetCurrent(i, o) ==
    SetEntry(i, [entry[i] EXCEPT !.objects = [@ EXCEPT ![Len(@)] = o]])

\* SubgroupObjectWriter::write; a chunk larger than what remains is refused (Size).
\* The object has a reader in the cell of its subgroup, whose writer is alive.
WriteChunk(i, size) ==
    /\ Writing(i)
    /\ size <= Current(i).remain
    /\ SetCurrent(i, [Current(i) EXCEPT !.remain = @ - size, !.chunks = Append(@, size)])

WriteStreamChunk(i, size) == mode = "stream" /\ WriteChunk(i, size)
WriteSubgroupChunk(i, size) == mode = "subgroups" /\ WriteChunk(i, size)

\* Variant for mutation: an object that is dropped unfinished is not closed.
EndObjectSilently(i, err) ==
    Writing(i) /\ SetCurrent(i, [Current(i) EXCEPT !.writer = FALSE, !.closed = err])

\* The writer of the object is dropped: what remains makes it an error.
EndObject(i, err) ==
    /\ Writing(i)
    /\ SetCurrent(i, [Current(i) EXCEPT !.writer = FALSE, !.closed = err \/ Current(i).remain # 0])

\* close is refused with Size while bytes remain, and then the drop closes the object.
EndSubgroupObject(i, err) == mode = "subgroups" /\ EndObject(i, err)

\* close closes a StreamObject whatever remains.
EndStreamObject(i, err) == mode = "stream" /\ EndObject(i, err)

\* The writer of the subgroup is dropped, or closes it with an error.
EndEntry(i, err) ==
    /\ BetweenObjects(i)
    /\ SetEntry(i, [entry[i] EXCEPT !.writer = FALSE, !.closed = err /\ SubgroupRead(i)])

EndSubgroup(i, err) == mode = "subgroups" /\ EndEntry(i, err)
EndStreamGroup(i, err) == mode = "stream" /\ EndEntry(i, err)

-----------------------------------------------------------------------------
(* The readers. *)

\* TrackReader::mode clones the cached reader, which has taken nothing.
Join(r) ==
    /\ cached
    /\ reader[r] = "unborn"
    /\ reader' = [reader EXCEPT ![r] = "live"]
    /\ UNCHANGED <<mode, trackVars, cached, seen, heard, task>>

\* The subscription ends: the reader and its tasks are dropped.
Leave(r) ==
    /\ reader[r] = "live"
    /\ reader' = [reader EXCEPT ![r] = "gone"]
    /\ task' = [task EXCEPT ![r] =
                  [i \in Numbers |-> IF Reading(r, i) THEN [@[i] EXCEPT !.state = "gone"] ELSE @[i]]]
    /\ UNCHANGED <<mode, trackVars, cached, seen, heard>>

CanNext(r) == reader[r] = "live" /\ heard[r] = "none"

\* The entry that is the latest by now is taken, the ones before it are skipped.
TakeLatest(r) ==
    /\ CanNext(r)
    /\ seen[r] # Latest
    /\ seen' = [seen EXCEPT ![r] = Latest]
    /\ task' = IF mode = "datagrams" THEN task
               ELSE [task EXCEPT ![r][Latest].state = "group"]
    /\ UNCHANGED <<mode, trackVars, cached, reader, heard>>

\* Variant for mutation: the end is looked at before the epoch.
HearEndFirst(r) ==
    /\ CanNext(r)
    /\ closed \/ ~writer
    /\ heard' = [heard EXCEPT ![r] = IF closed THEN "error" ELSE "end"]
    /\ UNCHANGED <<mode, trackVars, cached, reader, seen, task>>

\* With nothing left to take, the track is closed or its writer gone.
HearEnd(r) ==
    /\ CanNext(r)
    /\ seen[r] = Latest
    /\ closed \/ ~writer
    /\ heard' = [heard EXCEPT ![r] = IF closed THEN "error" ELSE "end"]
    /\ UNCHANGED <<mode, trackVars, cached, reader, seen, task>>

NextSubgroup(r) == mode = "subgroups" /\ (TakeLatest(r) \/ HearEnd(r))
NextStreamGroup(r) == mode = "stream" /\ (TakeLatest(r) \/ HearEnd(r))
ReadDatagram(r) == mode = "datagrams" /\ (TakeLatest(r) \/ HearEnd(r))

Goto(r, i, t) ==
    /\ task' = [task EXCEPT ![r][i] = t]
    /\ UNCHANGED <<mode, trackVars, cached, reader, seen, heard>>

Take(r, i, index) ==
    Goto(r, i, [state |-> "object", index |-> index, chunk |-> 0, size |-> 0])

\* SubgroupReader::next: the next object.
NextObject(r, i) ==
    /\ mode = "subgroups"
    /\ task[r][i].state = "group"
    /\ task[r][i].index < Len(entry[i].objects)
    /\ Take(r, i, task[r][i].index + 1)

\* StreamGroupReader::next advances its index before it uses it, as an index from 0:
\* it gets the object after the next one, or panics with the lock of the group held,
\* and then whoever locks the group panics.
NextStreamObject(r, i) ==
    /\ mode = "stream"
    /\ task[r][i].state = "group"
    /\ LET next == task[r][i].index + 1 IN
          \/ /\ ~entry[i].poisoned
             /\ next < Len(entry[i].objects)
             /\ Take(r, i, next)
          \/ /\ entry[i].poisoned \/ next = Len(entry[i].objects)
             /\ task' = [task EXCEPT ![r][i].state = "panic"]
             /\ entry' = [entry EXCEPT ![i].poisoned = TRUE]
             /\ UNCHANGED <<mode, writer, closed, cached, reader, seen, heard>>

\* The object the task reads.
Taken(r, i) == entry[i].objects[IF mode = "stream" THEN task[r][i].index + 1 ELSE task[r][i].index]

\* Variant for mutation: only an error ends a subgroup.
HearSubgroupError(r, i) ==
    /\ task[r][i].state = "group"
    /\ task[r][i].index = Len(entry[i].objects)
    /\ ~entry[i].poisoned
    /\ entry[i].closed
    /\ Goto(r, i, [task[r][i] EXCEPT !.state = "error"])

\* With no object left to take, the subgroup is closed or its writer gone.
HearSubgroupEnd(r, i) ==
    /\ task[r][i].state = "group"
    /\ task[r][i].index = Len(entry[i].objects)
    /\ ~entry[i].poisoned
    /\ entry[i].closed \/ ~entry[i].writer
    /\ Goto(r, i, [task[r][i] EXCEPT !.state = IF entry[i].closed THEN "error" ELSE "end"])

\* SubgroupObjectReader::read: the next chunk.
ReadChunk(r, i) ==
    /\ task[r][i].state = "object"
    /\ task[r][i].chunk < Len(Taken(r, i).chunks)
    /\ LET c == task[r][i].chunk + 1 IN
          Goto(r, i, [task[r][i] EXCEPT !.chunk = c, !.size = @ + Taken(r, i).chunks[c]])

\* With no chunk left, the object is closed, and its error ends the task; or its
\* writer is gone, and the task goes on with the next object.
HearObjectEnd(r, i) ==
    /\ task[r][i].state = "object"
    /\ task[r][i].chunk = Len(Taken(r, i).chunks)
    /\ Taken(r, i).closed \/ ~Taken(r, i).writer
    /\ Goto(r, i, [task[r][i] EXCEPT !.state = IF Taken(r, i).closed THEN "error" ELSE "group"])

ReadStreamObject(r, i) == mode = "stream" /\ (ReadChunk(r, i) \/ HearObjectEnd(r, i))
ReadSubgroupObject(r, i) == mode = "subgroups" /\ (ReadChunk(r, i) \/ HearObjectEnd(r, i))

\* The data stream of the task fails.
Abandon(r, i) ==
    /\ Reading(r, i)
    /\ Goto(r, i, [task[r][i] EXCEPT !.state = "gone"])

-----------------------------------------------------------------------------
WriteTrack ==
    \/ \E at \in Positions :
          CreateSubgroup(at) \/ CreateStreamGroup(at) \/ WriteDatagram(at)
    \/ AppendSubgroup \/ AppendStreamGroup
    \/ \E err \in BOOLEAN : EndSubgroups(err) \/ EndStream(err) \/ EndDatagrams(err)
    \/ Evict

WriteEntry(i) ==
    \/ \E size \in Sizes : CreateObject(i, size) \/ CreateStreamObject(i, size)
    \/ \E size \in ChunkSizes : WriteSubgroupChunk(i, size) \/ WriteStreamChunk(i, size)
    \/ \E err \in BOOLEAN :
          \/ EndSubgroupObject(i, err) \/ EndStreamObject(i, err)
          \/ EndSubgroup(i, err) \/ EndStreamGroup(i, err)

ReadTrack(r) == NextSubgroup(r) \/ NextStreamGroup(r) \/ ReadDatagram(r)

ReadEntry(r, i) ==
    \/ NextObject(r, i) \/ NextStreamObject(r, i) \/ HearSubgroupEnd(r, i)
    \/ ReadSubgroupObject(r, i) \/ ReadStreamObject(r, i)

Next ==
    \/ WriteTrack
    \/ \E i \in Numbers : WriteEntry(i)
    \/ \E r \in Readers :
          \/ Join(r) \/ Leave(r) \/ ReadTrack(r)
          \/ \E i \in Numbers : ReadEntry(r, i) \/ Abandon(r, i)

Spec == Init /\ [][Next]_vars

\* The tasks of a reader that has something to take or to hear are polled.  Nobody
\* has to join or to leave, to write, or to let go of a writer.
FairSpec ==
    /\ Spec
    /\ \A r \in Readers :
          /\ WF_vars(ReadTrack(r))
          /\ \A i \in Numbers : WF_vars(ReadEntry(r, i))
-----------------------------------------------------------------------------
TypeOK ==
    /\ mode \in Modes
    /\ entry \in Seq([at : Nat \X Nat, writer : BOOLEAN, closed : BOOLEAN,
                      poisoned : BOOLEAN, nextId : Nat,
                      objects : Seq([id : Nat, size : Nat, remain : Nat, chunks : Seq(Nat),
                                     writer : BOOLEAN, closed : BOOLEAN])])
    /\ Latest <= MaxEntries
    /\ writer \in BOOLEAN /\ closed \in BOOLEAN /\ cached \in BOOLEAN
    /\ reader \in [Readers -> {"unborn", "live", "gone"}]
    /\ seen \in [Readers -> 0..MaxEntries]
    /\ heard \in [Readers -> {"none", "end", "error"}]
    /\ task \in [Readers -> [Numbers ->
          [state : {"none", "group", "object", "end", "error", "gone", "panic"},
           index : Nat, chunk : Nat, size : Nat]]]

\* The objects that a task takes of a subgroup are numbered 0, 1, 2, ... without a
\* gap, although the writer counts an object before it learns that nobody reads
\* (subgroup.rs:336): nobody starts to read a subgroup that was cancelled once.
NoGaps ==
    mode = "subgroups" =>
        \A r \in Readers, i \in 1..Latest : \A k \in 1..task[r][i].index :
            entry[i].objects[k].id = k - 1

\* A task that goes on after an object has all the bytes announced for it, however
\* the chunks came and whenever the writer went; and a task that reads a subgroup to
\* its end has taken every object ever written to it.
CompleteOrError ==
    \A r \in Readers, i \in 1..Latest :
        LET t == task[r][i] IN
        /\ t.state \in {"group", "end"} /\ t.index > 0 => t.size = Taken(r, i).size
        /\ mode = "subgroups" /\ t.state = "end" =>
              ~entry[i].writer /\ t.index = Len(entry[i].objects)

\* The end of a track does not overtake its last entry: whoever hears of it, as an
\* end or as an error, has taken the entry that will stay the latest.
EndComesLast ==
    \A r \in Readers :
        heard[r] # "none" => ~writer /\ seen[r] = Latest

\* Subgroups arrive in any order; a reader takes them in the order of their ids, no
\* group or subgroup after a later one (the groups of a stream may repeat an id).
ForwardOnly ==
    [][\A r \in Readers :
          seen'[r] # seen[r] /\ seen[r] # 0 /\ mode # "datagrams" =>
              LET old == entry[seen[r]].at
                  new == entry[seen'[r]].at
              IN  Precedes(old, new) \/ (mode = "stream" /\ old = new)]_vars

\* A subgroup that nobody abandons is read to an end or an error once its writer is
\* gone, and the end of a track is heard by every reader that stays.
EndIsHeard ==
    \A r \in Readers :
        /\ reader[r] = "live" /\ ~writer ~> heard[r] # "none" \/ reader[r] = "gone"
        /\ \A i \in Numbers :
              Reading(r, i) /\ ~entry[i].writer ~> ~Reading(r, i)

=============================================================================
