---------------------------- MODULE ServeProofs ----------------------------
(***************************************************************************)
(* Proofs about Serve.tla for every set of readers, of positions and of    *)
(* sizes, and any number of entries and objects: what a reader takes is in *)
(* order, without a gap, complete, and before the end.                     *)
(*                                                                         *)
(* Entries and objects only grow, and not at all once their writer is      *)
(* gone: that is what lets a task keep what it knows of them.  The bytes   *)
(* that a task has read are a sum of chunks; the sums of a sequence of     *)
(* chunks are a function here, as nothing can be proved of a fold.         *)
(***************************************************************************)
EXTENDS Serve, TLAPS

Objects == [id : Nat, size : Nat, remain : Nat, chunks : Seq(Nat),
            writer : BOOLEAN, closed : BOOLEAN]

Entries == [at : Nat \X Nat, writer : BOOLEAN, closed : BOOLEAN,
            poisoned : BOOLEAN, nextId : Nat, objects : Seq(Objects)]

Tasks == [state : {"none", "group", "object", "end", "error", "gone", "panic"},
          index : Nat, chunk : Nat, size : Nat]

\* The sums of the first chunks of an object; what remains makes up its size.
PrefixSums(o) ==
    {f \in [0..Len(o.chunks) -> Nat] :
        /\ f[0] = 0
        /\ \A k \in 1..Len(o.chunks) : f[k] = f[k - 1] + o.chunks[k]
        /\ f[Len(o.chunks)] + o.remain = o.size}

ObjectOK(o) ==
    /\ PrefixSums(o) # {}
    /\ ~o.writer /\ ~o.closed => o.remain = 0

ObjectsOK(e) == \A k \in 1..Len(e.objects) : ObjectOK(e.objects[k])

\* Objects of a subgroup are numbered by their place; an object that was counted and not
\* made had no reader, and no later one has.
Numbered(i) ==
    mode = "subgroups" =>
        /\ \A k \in 1..Len(entry[i].objects) : entry[i].objects[k].id = k - 1
        /\ entry[i].nextId = Len(entry[i].objects) \/ ~SubgroupRead(i)

\* Entries become the latest in the order that readers may see.
InOrder(a, b) ==
    /\ mode = "subgroups" => Precedes(a, b)
    /\ mode = "stream" => a[1] <= b[1] /\ a[2] = 0 /\ b[2] = 0

Sorted == \A i, j \in 1..Latest : i < j => InOrder(entry[i].at, entry[j].at)

StreamsAtZero == mode = "stream" => \A i \in 1..Latest : entry[i].at[2] = 0

TakenIndex(r, i) == IF mode = "stream" THEN task[r][i].index + 1 ELSE task[r][i].index

TaskOK(r, i) ==
    LET t == task[r][i] IN
    /\ i > seen[r] => t = NoTask
    /\ t.state = "object" => t.index > 0
    /\ t.index > 0 =>
          /\ TakenIndex(r, i) \in 1..Len(entry[i].objects)
          /\ t.chunk \in 0..Len(Taken(r, i).chunks)
          /\ \E f \in PrefixSums(Taken(r, i)) : f[t.chunk] = t.size
    /\ t.state \in {"group", "end"} /\ t.index > 0 =>
          ~Taken(r, i).writer /\ t.size = Taken(r, i).size
    /\ mode = "subgroups" /\ t.state = "end" =>
          ~entry[i].writer /\ t.index = Len(entry[i].objects)

EndsAgree ==
    /\ closed => ~writer
    /\ \A r \in Readers : seen[r] <= Latest

Served == \A i \in 1..Latest : ObjectsOK(entry[i]) /\ Numbered(i)

Tasked == \A r \in Readers, i \in Numbers : TaskOK(r, i)

IInv ==
    /\ TypeOK
    /\ EndsAgree /\ EndComesLast
    /\ Sorted /\ StreamsAtZero
    /\ Served
    /\ Tasked

-----------------------------------------------------------------------------
(* What a writer may do to an object and to an entry. *)

ObjectGrows(o, p) ==
    /\ p.id = o.id /\ p.size = o.size
    /\ Len(o.chunks) <= Len(p.chunks)
    /\ \A f \in PrefixSums(o) : \E g \in PrefixSums(p) :
          \A k \in 0..Len(o.chunks) : g[k] = f[k]
    /\ ~o.writer => ~p.writer

EntryGrows(d, e) ==
    /\ e.at = d.at
    /\ Len(d.objects) <= Len(e.objects)
    /\ \A k \in 1..Len(d.objects) : ObjectGrows(d.objects[k], e.objects[k])
    /\ ~d.writer => ~e.writer /\ Len(e.objects) = Len(d.objects)

LEMMA SameObjectGrows == ASSUME NEW o \in Objects PROVE ObjectGrows(o, o)
BY DEF ObjectGrows, Objects

\* A chunk that fits: the sums go on.
LEMMA ChunkGrows ==
    ASSUME NEW o \in Objects, NEW size \in Nat, size <= o.remain, o.writer, ObjectOK(o),
           NEW p, p = [o EXCEPT !.remain = @ - size, !.chunks = Append(@, size)]
    PROVE  p \in Objects /\ ObjectOK(p) /\ ObjectGrows(o, p)
<1> DEFINE n == Len(o.chunks)
<1>1. /\ p \in Objects /\ n \in Nat /\ Len(p.chunks) = n + 1 /\ p.remain = o.remain - size
      /\ p.size = o.size /\ p.id = o.id /\ p.writer
      /\ \A k \in 1..n : p.chunks[k] = o.chunks[k]
      /\ p.chunks[n + 1] = size
  <2>1. o.chunks \in Seq(Nat) /\ o.remain \in Nat /\ n \in Nat
    BY DEF Objects
  <2>2. /\ p.chunks = Append(o.chunks, size) /\ p.remain = o.remain - size
        /\ p.size = o.size /\ p.id = o.id /\ p.writer = o.writer /\ p.closed = o.closed
    BY DEF Objects
  <2>3. p.remain \in Nat /\ p.chunks \in Seq(Nat) /\ Len(p.chunks) = n + 1
    BY <2>1, <2>2
  <2>4. p \in Objects
    BY <2>3 DEF Objects
  <2>5. (\A k \in 1..n : p.chunks[k] = o.chunks[k]) /\ p.chunks[n + 1] = size
    BY <2>1, <2>2
  <2>6. QED
    BY <2>1, <2>2, <2>3, <2>4, <2>5
<1>2. ASSUME NEW f \in PrefixSums(o)
      PROVE  \E g \in PrefixSums(p) : \A k \in 0..n : g[k] = f[k]
  <2> DEFINE g == [k \in 0..(n + 1) |-> IF k = n + 1 THEN f[n] + size ELSE f[k]]
  <2>1. /\ f \in [0..n -> Nat] /\ f[0] = 0 /\ f[n] + o.remain = o.size
        /\ \A k \in 1..n : f[k] = f[k - 1] + o.chunks[k]
    BY DEF PrefixSums
  <2>2. g \in [0..(n + 1) -> Nat] /\ g[0] = 0 /\ g[n + 1] = f[n] + size
    BY <1>1, <2>1
  <2>3. \A k \in 0..n : g[k] = f[k]
    BY <1>1
  <2>4. ASSUME NEW k \in 1..(n + 1) PROVE g[k] = g[k - 1] + p.chunks[k]
    <3>1. k - 1 \in 0..n /\ n \in Nat
      BY <1>1
    <3>2. g[k - 1] = f[k - 1]
      BY <2>3, <3>1
    <3>3. CASE k = n + 1
      BY <1>1, <2>2, <3>1, <3>2, <3>3
    <3>4. CASE k \in 1..n
      <4>1. g[k] = f[k]
        BY <2>3, <3>4
      <4>2. QED
        BY <1>1, <2>1, <3>2, <3>4, <4>1
    <3>5. QED
      BY <3>1, <3>3, <3>4
  <2>5. g[n + 1] + p.remain = p.size
    <3>1. f[n] \in Nat /\ o.remain \in Nat /\ o.size \in Nat
      BY <1>1, <2>1 DEF Objects
    <3>2. QED
      BY <1>1, <2>1, <2>2, <3>1
  <2> HIDE DEF g
  <2>6. g \in PrefixSums(p)
    BY <1>1, <2>2, <2>4, <2>5 DEF PrefixSums
  <2>7. QED
    BY <2>3, <2>6
<1>3. ObjectOK(p)
  BY <1>1, <1>2 DEF ObjectOK
<1>4. QED
  BY <1>1, <1>2, <1>3 DEF ObjectGrows

\* An object whose writer goes.
LEMMA EndGrows ==
    ASSUME NEW o \in Objects, ObjectOK(o), NEW err \in BOOLEAN,
           NEW p, p = [o EXCEPT !.writer = FALSE, !.closed = err \/ o.remain # 0]
    PROVE  p \in Objects /\ ObjectOK(p) /\ ObjectGrows(o, p)
<1>1. /\ p \in Objects /\ p.chunks = o.chunks /\ p.remain = o.remain /\ p.size = o.size
      /\ p.id = o.id /\ ~p.writer /\ (~p.closed => p.remain = 0)
  BY DEF Objects
<1>2. PrefixSums(p) = PrefixSums(o)
  BY <1>1 DEF PrefixSums
<1>3. Len(o.chunks) <= Len(p.chunks)
  BY <1>1 DEF Objects
<1>4. QED
  BY <1>1, <1>2, <1>3 DEF ObjectOK, ObjectGrows

LEMMA NewObjectOK ==
    ASSUME NEW id \in Nat, NEW size \in Nat
    PROVE  NewObject(id, size) \in Objects /\ ObjectOK(NewObject(id, size))
<1> DEFINE o == NewObject(id, size)
<1>1. o \in Objects /\ o.chunks = <<>> /\ o.remain = size /\ o.size = size /\ o.writer
  BY DEF NewObject, Objects
<1>2. [k \in 0..0 |-> 0] \in PrefixSums(o)
  BY <1>1 DEF PrefixSums
<1>3. QED
  BY <1>1, <1>2 DEF ObjectOK

-----------------------------------------------------------------------------
(* The entries *)

LEMMA EntryTyped ==
    ASSUME TypeOK, NEW i \in 1..Latest
    PROVE  /\ entry \in Seq(Entries) /\ entry[i] \in Entries /\ entry[i].objects \in Seq(Objects)
           /\ Latest \in Nat /\ i \in Numbers
<1>1. entry \in Seq(Entries) /\ Latest <= MaxEntries
  BY DEF TypeOK, Entries, Objects
<1>2. Latest \in Nat /\ MaxEntries \in Nat
  BY <1>1, ServeAssumption DEF Latest, ServeAssumption
<1>3. entry[i] \in Entries /\ i \in Numbers
  BY <1>1, <1>2 DEF Latest, Numbers
<1>4. QED
  BY <1>1, <1>2, <1>3 DEF Entries

LEMMA StateTyped ==
    ASSUME TypeOK
    PROVE  /\ entry \in Seq(Entries) /\ Latest \in Nat /\ MaxEntries \in Nat
           /\ seen \in [Readers -> Nat] /\ task \in [Readers -> [Numbers -> Tasks]]
<1>1. entry \in Seq(Entries) /\ MaxEntries \in Nat
  BY ServeAssumption DEF TypeOK, Entries, Objects, ServeAssumption
<1>2. Latest \in Nat
  BY <1>1 DEF Latest
<1>3. seen \in [Readers -> Nat]
  BY <1>1 DEF TypeOK
<1>4. task \in [Readers -> [Numbers -> Tasks]]
  BY DEF TypeOK, Tasks
<1>5. QED
  BY <1>1, <1>2, <1>3, <1>4

LEMMA SetOne ==
    ASSUME NEW S, NEW s \in Seq(S), NEW i \in 1..Len(s), NEW e \in S
    PROVE  /\ [s EXCEPT ![i] = e] \in Seq(S) /\ Len([s EXCEPT ![i] = e]) = Len(s)
           /\ [s EXCEPT ![i] = e][i] = e
           /\ \A j \in 1..Len(s) : j # i => [s EXCEPT ![i] = e][j] = s[j]
OBVIOUS

LEMMA SameEntryGrows == ASSUME NEW e \in Entries PROVE EntryGrows(e, e)
<1>1. \A k \in 1..Len(e.objects) : e.objects[k] \in Objects
  BY DEF Entries
<1>2. Len(e.objects) <= Len(e.objects)
  BY DEF Entries
<1>3. QED
  BY <1>1, <1>2, SameObjectGrows DEF EntryGrows

\* The object that is written is the last one.
LEMMA CurrentGrows ==
    ASSUME NEW d \in Entries, Len(d.objects) > 0, NEW p \in Objects, ObjectOK(p),
           ObjectGrows(d.objects[Len(d.objects)], p), ObjectsOK(d),
           NEW e, e = [d EXCEPT !.objects = [@ EXCEPT ![Len(@)] = p]]
    PROVE  /\ e \in Entries /\ ObjectsOK(e) /\ EntryGrows(d, e)
           /\ e.nextId = d.nextId /\ Len(e.objects) = Len(d.objects)
           /\ \A k \in 1..Len(d.objects) : e.objects[k].id = d.objects[k].id
<1> DEFINE n == Len(d.objects)
<1>1. d.objects \in Seq(Objects) /\ n \in Nat
  BY DEF Entries
<1>2. /\ e.at = d.at /\ e.writer = d.writer /\ e.closed = d.closed /\ e.poisoned = d.poisoned
      /\ e.nextId = d.nextId /\ e.objects = [d.objects EXCEPT ![n] = p]
  BY DEF Entries
<1>3. /\ e.objects \in Seq(Objects) /\ Len(e.objects) = n /\ e.objects[n] = p
      /\ \A k \in 1..n : k # n => e.objects[k] = d.objects[k]
  BY <1>1, <1>2
<1>4. e \in Entries
  BY <1>2, <1>3 DEF Entries
<1>5. \A k \in 1..n : ObjectGrows(d.objects[k], e.objects[k])
  BY <1>1, <1>3, SameObjectGrows
<1>6. ObjectsOK(e)
  BY <1>1, <1>3 DEF ObjectsOK
<1>7. EntryGrows(d, e)
  BY <1>1, <1>2, <1>3, <1>5 DEF EntryGrows
<1>8. QED
  BY <1>2, <1>3, <1>4, <1>5, <1>6, <1>7 DEF ObjectGrows

\* An object is added.
LEMMA AddGrows ==
    ASSUME NEW d \in Entries, d.writer, NEW p \in Objects, ObjectOK(p), ObjectsOK(d),
           NEW e \in Entries, e.at = d.at, e.objects = Append(d.objects, p)
    PROVE  /\ ObjectsOK(e) /\ EntryGrows(d, e)
           /\ Len(e.objects) = Len(d.objects) + 1
           /\ e.objects[Len(d.objects) + 1] = p
           /\ \A k \in 1..Len(d.objects) : e.objects[k] = d.objects[k]
<1> DEFINE n == Len(d.objects)
<1>1. d.objects \in Seq(Objects) /\ n \in Nat
  BY DEF Entries
<1>2. /\ e.objects \in Seq(Objects) /\ Len(e.objects) = n + 1 /\ e.objects[n + 1] = p
      /\ \A k \in 1..n : e.objects[k] = d.objects[k]
  BY <1>1
<1>3. \A k \in 1..n : ObjectGrows(d.objects[k], e.objects[k])
  BY <1>1, <1>2, SameObjectGrows
<1>4. ObjectsOK(e)
  BY <1>1, <1>2 DEF ObjectsOK
<1>5. EntryGrows(d, e)
  BY <1>1, <1>2, <1>3 DEF EntryGrows
<1>6. QED
  BY <1>2, <1>4, <1>5

\* Nothing of the objects changes.
LEMMA RestGrows ==
    ASSUME NEW d \in Entries, ObjectsOK(d), NEW e \in Entries, e.at = d.at,
           e.writer => d.writer, e.objects = d.objects
    PROVE  ObjectsOK(e) /\ EntryGrows(d, e)
<1>1. ObjectsOK(e)
  BY DEF ObjectsOK
<1>2. EntryGrows(d, e)
  BY SameEntryGrows DEF EntryGrows
<1>3. QED
  BY <1>1, <1>2

-----------------------------------------------------------------------------
(* What stays of the invariant *)

\* A task that does not move keeps what it knows.
LEMMA TaskStays ==
    ASSUME TypeOK, EndsAgree, NEW r \in Readers, NEW i \in Numbers, TaskOK(r, i),
           mode' = mode, task'[r][i] = task[r][i], seen[r] <= seen'[r], seen'[r] \in Nat,
           i \in 1..Latest => entry'[i] \in Entries /\ EntryGrows(entry[i], entry'[i])
    PROVE  TaskOK(r, i)'
<1> DEFINE t == task[r][i]
<1>1. seen[r] \in Nat /\ Latest \in Nat /\ seen[r] <= Latest /\ i \in Nat /\ i > 0 /\ t \in Tasks
  BY StateTyped DEF EndsAgree, Numbers
<1>2. i > seen'[r] => t = NoTask
  BY <1>1 DEF TaskOK
<1>3. t.state = "object" => t.index > 0
  BY DEF TaskOK
<1>4. ASSUME t # NoTask PROVE i \in 1..Latest
  BY <1>1, <1>4 DEF TaskOK
<1>5. t.index > 0 \/ t.state = "end" => t # NoTask
  BY DEF NoTask
<1>6. ASSUME t.index > 0
      PROVE  /\ TakenIndex(r, i)' \in 1..Len(entry'[i].objects)
             /\ t.chunk \in 0..Len(Taken(r, i)'.chunks)
             /\ \E g \in PrefixSums(Taken(r, i)') : g[t.chunk] = t.size
             /\ t.state \in {"group", "end"} => ~Taken(r, i)'.writer /\ t.size = Taken(r, i)'.size
  <2> DEFINE k == TakenIndex(r, i)
  <2>1. i \in 1..Latest /\ entry'[i] \in Entries /\ EntryGrows(entry[i], entry'[i])
    BY <1>4, <1>5, <1>6
  <2>2. /\ k \in 1..Len(entry[i].objects) /\ TakenIndex(r, i)' = k
        /\ Taken(r, i) = entry[i].objects[k] /\ Taken(r, i)' = entry'[i].objects[k]
    BY <1>6 DEF TaskOK, TakenIndex, Taken
  <2>3. ObjectGrows(Taken(r, i), Taken(r, i)')
    BY <2>1, <2>2 DEF EntryGrows
  <2>4. entry[i].objects \in Seq(Objects) /\ entry'[i].objects \in Seq(Objects)
    BY <2>1, EntryTyped DEF Entries
  <2>5. TakenIndex(r, i)' \in 1..Len(entry'[i].objects)
    BY <2>1, <2>2, <2>4 DEF EntryGrows
  <2>6. Taken(r, i) \in Objects /\ Taken(r, i)' \in Objects
    BY <2>2, <2>4, <2>5
  <2>7. Len(Taken(r, i).chunks) \in Nat /\ Len(Taken(r, i)'.chunks) \in Nat
    BY <2>6 DEF Objects
  <2>8. t.chunk \in 0..Len(Taken(r, i).chunks) /\ \E f \in PrefixSums(Taken(r, i)) : f[t.chunk] = t.size
    BY <1>6 DEF TaskOK
  <2>9. t.chunk \in 0..Len(Taken(r, i)'.chunks)
    BY <2>3, <2>7, <2>8 DEF ObjectGrows
  <2>10. \E g \in PrefixSums(Taken(r, i)') : g[t.chunk] = t.size
    BY <2>3, <2>8 DEF ObjectGrows
  <2>11. t.state \in {"group", "end"} => ~Taken(r, i).writer /\ t.size = Taken(r, i).size
    BY <1>6 DEF TaskOK
  <2>12. t.state \in {"group", "end"} => ~Taken(r, i)'.writer /\ t.size = Taken(r, i)'.size
    BY <2>3, <2>11 DEF ObjectGrows
  <2>13. QED
    BY <2>5, <2>9, <2>10, <2>12
<1>7. ASSUME mode = "subgroups", t.state = "end"
      PROVE  ~entry'[i].writer /\ t.index = Len(entry'[i].objects)
  <2>1. EntryGrows(entry[i], entry'[i])
    BY <1>4, <1>5, <1>7
  <2>2. QED
    BY <1>7, <2>1 DEF TaskOK, EntryGrows
<1>8. QED
  BY <1>2, <1>3, <1>6, <1>7 DEF TaskOK

\* An entry that does not change keeps its numbers, as nobody starts to read it.
LEMMA NumbersStay ==
    ASSUME NEW i, Numbered(i), mode' = mode, SubgroupRead(i)' => SubgroupRead(i),
           Len(entry'[i].objects) = Len(entry[i].objects), entry'[i].nextId = entry[i].nextId,
           \A k \in 1..Len(entry[i].objects) : entry'[i].objects[k].id = entry[i].objects[k].id
    PROVE  Numbered(i)'
BY DEF Numbered

\* No entry changes, and nobody starts to read one.
LEMMA ServedStays ==
    ASSUME Served, mode' = mode, entry' = entry,
           \A i \in 1..Latest : SubgroupRead(i)' => SubgroupRead(i)
    PROVE  Served'
<1>1. Latest' = Latest
  BY DEF Latest
<1>2. ASSUME NEW i \in 1..Latest PROVE Numbered(i)'
  BY <1>2, NumbersStay DEF Served
<1>3. QED
  BY <1>1, <1>2 DEF Served

LEMMA OrderStays ==
    ASSUME Sorted, StreamsAtZero, mode' = mode, Latest' = Latest,
           \A i \in 1..Latest : entry'[i].at = entry[i].at
    PROVE  Sorted' /\ StreamsAtZero'
BY DEF Sorted, StreamsAtZero, InOrder

-----------------------------------------------------------------------------
(* The writers of subgroups, groups and objects. *)

LEMMA SetEntryKeeps ==
    ASSUME IInv, NEW i \in 1..Latest, NEW e \in Entries, SetEntry(i, e),
           ObjectsOK(e), EntryGrows(entry[i], e), Numbered(i)'
    PROVE  IInv'
<1>1. /\ entry' = [entry EXCEPT ![i] = e]
      /\ UNCHANGED <<mode, writer, closed, cached, reader, seen, heard, task>>
  BY DEF SetEntry
<1>2. entry \in Seq(Entries) /\ Latest \in Nat
  BY StateTyped DEF IInv
<1>3. /\ entry' \in Seq(Entries) /\ Latest' = Latest /\ entry'[i] = e
      /\ \A j \in 1..Latest : j # i => entry'[j] = entry[j]
  BY <1>1, <1>2 DEF Latest
<1>4. TypeOK'
  BY <1>1, <1>3 DEF IInv, TypeOK, Entries, Objects
<1>5. EndsAgree' /\ EndComesLast'
  BY <1>1, <1>3 DEF IInv, EndsAgree, EndComesLast
<1>6. \A j \in 1..Latest : entry'[j] \in Entries /\ EntryGrows(entry[j], entry'[j])
  BY <1>2, <1>3, SameEntryGrows DEF Latest
<1>7. Sorted' /\ StreamsAtZero'
  BY <1>1, <1>3, <1>6, OrderStays DEF IInv, EntryGrows
<1>8. \A j \in 1..Latest : SubgroupRead(j)' <=> SubgroupRead(j)
  BY <1>1, <1>3 DEF SubgroupRead, TrackRead, Reading
<1>9. Served'
  <2>1. ASSUME NEW j \in 1..Latest PROVE ObjectsOK(entry'[j]) /\ Numbered(j)'
    <3>1. CASE j = i
      BY <1>3, <3>1
    <3>2. CASE j # i
      BY <1>1, <1>3, <1>8, <3>2, NumbersStay DEF IInv, Served
    <3>3. QED
      BY <3>1, <3>2
  <2>2. QED
    BY <1>3, <2>1 DEF Served
<1>10. Tasked'
  <2>1. ASSUME NEW r \in Readers, NEW j \in Numbers PROVE TaskOK(r, j)'
    <3>1. TaskOK(r, j) /\ seen[r] \in Nat /\ seen[r] <= seen'[r]
      BY <1>1, StateTyped DEF IInv, Tasked
    <3>2. QED
      BY <1>1, <1>6, <3>1, TaskStays DEF IInv
  <2>2. QED
    BY <2>1 DEF Tasked
<1>11. QED
  BY <1>4, <1>5, <1>7, <1>9, <1>10 DEF IInv

\* What SetEntry does to the entry it sets, and to nobody who reads it.
LEMMA EntrySet ==
    ASSUME IInv, NEW i \in 1..Latest, NEW e, SetEntry(i, e)
    PROVE  entry'[i] = e /\ mode' = mode /\ (SubgroupRead(i)' <=> SubgroupRead(i))
<1>1. entry \in Seq(Entries)
  BY StateTyped DEF IInv
<1>2. entry'[i] = e /\ Latest' = Latest
  BY <1>1 DEF SetEntry, Latest
<1>3. QED
  BY <1>2 DEF SetEntry, SubgroupRead, TrackRead, Reading

\* An entry that counts an object, and takes these.
Counted(d, objects) == [d EXCEPT !.nextId = @ + 1, !.objects = objects]

LEMMA CountedEntry ==
    ASSUME NEW d \in Entries, NEW objects
    PROVE  /\ Counted(d, objects).nextId = d.nextId + 1 /\ Counted(d, objects).at = d.at
           /\ Counted(d, objects).writer = d.writer /\ Counted(d, objects).objects = objects
           /\ objects \in Seq(Objects) => Counted(d, objects) \in Entries
<1>1. d.nextId + 1 \in Nat
  BY DEF Entries
<1>2. QED
  BY <1>1 DEF Entries, Counted

LEMMA CreateObjectKeeps ==
    ASSUME IInv, NEW i \in Numbers, NEW size \in Nat, CreateObject(i, size)
    PROVE  IInv'
<1> DEFINE d == entry[i]
<1> DEFINE n == Len(d.objects)
<1> DEFINE p == NewObject(d.nextId, size)
<1>1. i \in 1..Latest /\ d.writer /\ mode = "subgroups"
  BY DEF CreateObject, BetweenObjects
<1>2. d \in Entries /\ d.nextId \in Nat /\ n \in Nat /\ ObjectsOK(d) /\ Numbered(i)
  <2>1. d \in Entries /\ d.objects \in Seq(Objects)
    BY <1>1, EntryTyped DEF IInv
  <2>2. QED
    BY <1>1, <2>1 DEF Entries, IInv, Served
<1>3. p \in Objects /\ ObjectOK(p) /\ p.id = d.nextId
  BY <1>2, NewObjectOK DEF NewObject
<1> HIDE DEF p
<1>4. CASE SubgroupRead(i)
  <2> DEFINE e == Counted(d, Append(d.objects, p))
  <2>1. SetEntry(i, e)
    BY <1>4 DEF CreateObject, Counted, p
  <2>2. /\ e.nextId = d.nextId + 1 /\ e.at = d.at /\ e.writer = d.writer
        /\ e.objects = Append(d.objects, p) /\ e \in Entries
    <3>1. Append(d.objects, p) \in Seq(Objects)
      BY <1>2, <1>3 DEF Entries
    <3>2. QED
      BY <1>2, <3>1, CountedEntry
  <2> HIDE DEF e
  <2>3. /\ e \in Entries /\ ObjectsOK(e) /\ EntryGrows(d, e)
        /\ Len(e.objects) = n + 1 /\ e.objects[n + 1] = p
        /\ \A k \in 1..n : e.objects[k] = d.objects[k]
    BY <1>1, <1>2, <1>3, <2>2, AddGrows
  <2>4. entry'[i] = e /\ mode' = mode
    BY <1>1, <2>1, EntrySet
  <2>5. d.nextId = n /\ \A k \in 1..n : d.objects[k].id = k - 1
    BY <1>1, <1>2, <1>4 DEF Numbered
  <2>6. ASSUME NEW k \in 1..Len(e.objects) PROVE e.objects[k].id = k - 1
    <3>1. k \in 1..n \/ k = n + 1
      BY <1>2, <2>3
    <3>2. CASE k \in 1..n
      BY <2>3, <2>5, <3>2
    <3>3. CASE k = n + 1
      BY <1>2, <1>3, <2>3, <2>5, <3>3
    <3>4. QED
      BY <3>1, <3>2, <3>3
  <2>7. Numbered(i)'
    BY <2>2, <2>3, <2>4, <2>5, <2>6 DEF Numbered
  <2>8. QED
    BY <1>1, <2>1, <2>3, <2>7, SetEntryKeeps
<1>5. CASE ~SubgroupRead(i)
  <2> DEFINE e == Counted(d, d.objects)
  <2>1. SetEntry(i, e)
    BY <1>5 DEF CreateObject, Counted
  <2>2. e.objects = d.objects /\ e.at = d.at /\ e.writer = d.writer /\ e \in Entries
    <3>1. d.objects \in Seq(Objects)
      BY <1>2 DEF Entries
    <3>2. QED
      BY <1>2, <3>1, CountedEntry
  <2> HIDE DEF e
  <2>3. e \in Entries /\ ObjectsOK(e) /\ EntryGrows(d, e)
    BY <1>2, <2>2, RestGrows
  <2>4. entry'[i] = e /\ mode' = mode /\ ~SubgroupRead(i)'
    BY <1>1, <1>5, <2>1, EntrySet
  <2>5. Numbered(i)'
    BY <1>2, <2>2, <2>4 DEF Numbered
  <2>6. QED
    BY <1>1, <2>1, <2>2, <2>3, <2>5, SetEntryKeeps
<1>6. QED
  BY <1>4, <1>5

LEMMA CreateStreamObjectKeeps ==
    ASSUME IInv, NEW i \in Numbers, NEW size \in Nat, CreateStreamObject(i, size)
    PROVE  IInv'
<1> DEFINE d == entry[i]
<1> DEFINE p == NewObject(d.nextId, size)
<1> DEFINE e == [d EXCEPT !.objects = Append(@, p)]
<1>1. i \in 1..Latest /\ d.writer /\ mode = "stream" /\ SetEntry(i, e)
  BY DEF CreateStreamObject, BetweenObjects
<1>2. d \in Entries /\ d.nextId \in Nat /\ ObjectsOK(d)
  <2>1. d \in Entries
    BY <1>1, EntryTyped DEF IInv
  <2>2. QED
    BY <1>1, <2>1 DEF Entries, IInv, Served
<1>3. p \in Objects /\ ObjectOK(p)
  BY <1>2, NewObjectOK
<1>4. e.at = d.at /\ e.objects = Append(d.objects, p) /\ e \in Entries
  <2>1. Append(d.objects, p) \in Seq(Objects)
    BY <1>2, <1>3 DEF Entries
  <2> HIDE DEF p
  <2>2. QED
    BY <1>2, <2>1 DEF Entries
<1> HIDE DEF e, p
<1>5. e \in Entries /\ ObjectsOK(e) /\ EntryGrows(d, e)
  BY <1>1, <1>2, <1>3, <1>4, AddGrows
<1>6. Numbered(i)'
  BY <1>1, EntrySet DEF Numbered
<1>7. QED
  BY <1>1, <1>5, <1>6, SetEntryKeeps

\* What is done to the current object.
LEMMA SetCurrentKeeps ==
    ASSUME IInv, NEW i \in 1..Latest, Len(entry[i].objects) > 0, NEW p \in Objects, ObjectOK(p),
           ObjectGrows(Current(i), p), SetCurrent(i, p)
    PROVE  IInv'
<1> DEFINE d == entry[i]
<1> DEFINE e == [d EXCEPT !.objects = [@ EXCEPT ![Len(@)] = p]]
<1>1. SetEntry(i, e)
  BY DEF SetCurrent
<1>2. d \in Entries /\ ObjectsOK(d) /\ Numbered(i)
  BY EntryTyped DEF IInv, Served
<1> HIDE DEF e
<1>3. /\ e \in Entries /\ ObjectsOK(e) /\ EntryGrows(d, e)
      /\ e.nextId = d.nextId /\ Len(e.objects) = Len(d.objects)
      /\ \A k \in 1..Len(d.objects) : e.objects[k].id = d.objects[k].id
  BY <1>2, CurrentGrows DEF Current, e
<1>4. Numbered(i)'
  BY <1>1, <1>2, <1>3, EntrySet, NumbersStay
<1>5. QED
  BY <1>1, <1>3, <1>4, SetEntryKeeps

LEMMA CurrentTyped ==
    ASSUME IInv, NEW i, Writing(i)
    PROVE  i \in 1..Latest /\ Len(entry[i].objects) > 0 /\ Current(i) \in Objects
           /\ ObjectOK(Current(i)) /\ Current(i).writer
<1>1. i \in 1..Latest /\ Len(entry[i].objects) > 0 /\ Current(i).writer
  BY DEF Writing
<1>2. entry[i].objects \in Seq(Objects) /\ ObjectsOK(entry[i])
  BY <1>1, EntryTyped DEF IInv, Served
<1>3. Len(entry[i].objects) \in 1..Len(entry[i].objects)
  BY <1>1, <1>2
<1>4. QED
  BY <1>1, <1>2, <1>3 DEF Current, ObjectsOK

LEMMA WriteChunkKeeps ==
    ASSUME IInv, NEW i, NEW size \in Nat, WriteChunk(i, size)
    PROVE  IInv'
<1> DEFINE p == [Current(i) EXCEPT !.remain = @ - size, !.chunks = Append(@, size)]
<1>1. Writing(i) /\ size <= Current(i).remain /\ SetCurrent(i, p)
  BY DEF WriteChunk
<1> HIDE DEF p
<1>2. p \in Objects /\ ObjectOK(p) /\ ObjectGrows(Current(i), p)
  BY <1>1, CurrentTyped, ChunkGrows DEF p
<1>3. QED
  BY <1>1, <1>2, CurrentTyped, SetCurrentKeeps

LEMMA EndObjectKeeps ==
    ASSUME IInv, NEW i, NEW err \in BOOLEAN, EndObject(i, err)
    PROVE  IInv'
<1> DEFINE p == [Current(i) EXCEPT !.writer = FALSE, !.closed = err \/ Current(i).remain # 0]
<1>1. Writing(i) /\ SetCurrent(i, p)
  BY DEF EndObject
<1> HIDE DEF p
<1>2. p \in Objects /\ ObjectOK(p) /\ ObjectGrows(Current(i), p)
  BY <1>1, CurrentTyped, EndGrows DEF p
<1>3. QED
  BY <1>1, <1>2, CurrentTyped, SetCurrentKeeps

LEMMA EndEntryKeeps ==
    ASSUME IInv, NEW i, NEW err \in BOOLEAN, EndEntry(i, err)
    PROVE  IInv'
<1> DEFINE d == entry[i]
<1> DEFINE e == [d EXCEPT !.writer = FALSE, !.closed = err /\ SubgroupRead(i)]
<1>1. i \in 1..Latest /\ SetEntry(i, e)
  BY DEF EndEntry, BetweenObjects
<1>2. d \in Entries /\ ObjectsOK(d) /\ Numbered(i)
  BY <1>1, EntryTyped DEF IInv, Served
<1>3. SubgroupRead(i) \in BOOLEAN
  BY DEF SubgroupRead
<1>4. /\ e \in Entries /\ e.objects = d.objects /\ e.at = d.at /\ ~e.writer
      /\ e.nextId = d.nextId
  BY <1>2, <1>3 DEF Entries
<1> HIDE DEF e
<1>5. ObjectsOK(e) /\ EntryGrows(d, e)
  BY <1>2, <1>4, RestGrows
<1>6. Numbered(i)'
  BY <1>1, <1>2, <1>4, EntrySet, NumbersStay
<1>7. QED
  BY <1>1, <1>4, <1>5, <1>6, SetEntryKeeps

LEMMA WriteEntryKeeps ==
    ASSUME IInv, NEW i \in Numbers, WriteEntry(i)
    PROVE  IInv'
<1>1. Sizes \subseteq Nat /\ ChunkSizes \subseteq Nat
  BY ServeAssumption DEF ServeAssumption
<1>2. QED
  BY <1>1, CreateObjectKeeps, CreateStreamObjectKeeps, WriteChunkKeeps, EndObjectKeeps,
     EndEntryKeeps
  DEF WriteEntry, WriteSubgroupChunk, WriteStreamChunk, EndSubgroupObject, EndStreamObject,
      EndSubgroup, EndStreamGroup

-----------------------------------------------------------------------------
(* The writer of the track. *)

LEMMA InOrderIsTransitive ==
    ASSUME NEW a \in Nat \X Nat, NEW b \in Nat \X Nat, NEW c \in Nat \X Nat,
           InOrder(a, b), InOrder(b, c)
    PROVE  InOrder(a, c)
<1>1. ASSUME Precedes(a, b), Precedes(b, c) PROVE Precedes(a, c)
  BY <1>1 DEF Precedes
<1>2. a[1] <= b[1] /\ b[1] <= c[1] => a[1] <= c[1]
  OBVIOUS
<1>3. QED
  BY <1>1, <1>2 DEF InOrder

\* A new latest entry, newer than the one before it.
LEMMA PublishKeeps ==
    ASSUME IInv, CanPublish, NEW e \in Entries, Publish(e), e.objects = <<>>, e.nextId = 0,
           Latest > 0 => InOrder(entry[Latest].at, e.at),
           mode = "stream" => e.at[2] = 0
    PROVE  IInv'
<1>1. /\ entry' = Append(entry, e) /\ writer /\ Latest < MaxEntries
      /\ UNCHANGED <<mode, writer, closed, cached, reader, seen, heard, task>>
  BY DEF Publish, CanPublish
<1>2. /\ entry \in Seq(Entries) /\ Latest \in Nat /\ MaxEntries \in Nat
      /\ seen \in [Readers -> Nat] /\ task \in [Readers -> [Numbers -> Tasks]]
  BY StateTyped DEF IInv
<1>3. /\ entry' \in Seq(Entries) /\ Latest' = Latest + 1 /\ entry'[Latest + 1] = e
      /\ \A j \in 1..Latest : entry'[j] = entry[j]
  BY <1>1, <1>2 DEF Latest
<1>4. TypeOK'
  <2>1. Latest' <= MaxEntries
    BY <1>1, <1>2, <1>3
  <2>2. QED
    BY <1>1, <1>3, <2>1 DEF IInv, TypeOK, Entries, Objects
<1>5. EndsAgree'
  BY <1>1, <1>2, <1>3 DEF IInv, EndsAgree
<1>6. EndComesLast'
  BY <1>1 DEF IInv, EndComesLast
<1>7. Sorted'
  <2>1. ASSUME NEW i \in 1..(Latest + 1), NEW j \in 1..(Latest + 1), i < j
        PROVE  InOrder(entry'[i].at, entry'[j].at)
    <3>1. i \in 1..Latest /\ entry'[i] = entry[i]
      BY <1>2, <1>3, <2>1
    <3>2. CASE j \in 1..Latest
      BY <1>3, <2>1, <3>1, <3>2 DEF IInv, Sorted
    <3>3. CASE j = Latest + 1
      <4>1. Latest \in 1..Latest /\ Latest > 0
        BY <1>2, <3>1
      <4>2. InOrder(entry[Latest].at, e.at)
        BY <4>1
      <4>3. i = Latest \/ InOrder(entry[i].at, entry[Latest].at)
        BY <1>2, <3>1, <4>1 DEF IInv, Sorted
      <4>4. /\ entry[i].at \in Nat \X Nat /\ entry[Latest].at \in Nat \X Nat
            /\ e.at \in Nat \X Nat
        BY <3>1, <4>1, EntryTyped DEF IInv, Entries
      <4>5. InOrder(entry[i].at, e.at)
        BY <4>2, <4>3, <4>4, InOrderIsTransitive
      <4>6. QED
        BY <1>3, <3>1, <3>3, <4>5
    <3>4. QED
      BY <1>2, <3>2, <3>3
  <2>2. ASSUME NEW i \in 1..(Latest + 1), NEW j \in 1..(Latest + 1), i < j
        PROVE  InOrder(entry[i].at, entry[j].at)'
    BY <1>1, <2>1, <2>2 DEF InOrder
  <2>3. QED
    BY <1>3, <2>2 DEF Sorted
<1>8. StreamsAtZero'
  <2>1. ASSUME mode = "stream", NEW i \in 1..(Latest + 1) PROVE entry'[i].at[2] = 0
    <3>1. i \in 1..Latest \/ i = Latest + 1
      BY <1>2
    <3>2. QED
      BY <1>3, <2>1, <3>1 DEF IInv, StreamsAtZero
  <2>2. QED
    BY <1>1, <1>3, <2>1 DEF StreamsAtZero
<1>9. Served'
  <2>1. ASSUME NEW i \in 1..(Latest + 1) PROVE ObjectsOK(entry'[i]) /\ Numbered(i)'
    <3>1. CASE i = Latest + 1
      <4>1. Len(entry'[i].objects) = 0 /\ entry'[i].nextId = 0
        BY <1>3, <3>1
      <4>2. QED
        BY <4>1 DEF ObjectsOK, Numbered
    <3>2. CASE i \in 1..Latest
      <4>1. i # Latest'
        BY <1>2, <1>3, <3>2
      <4>2. SubgroupRead(i)' => SubgroupRead(i)
        BY <1>1, <4>1 DEF SubgroupRead, Reading
      <4>3. QED
        BY <1>1, <1>3, <3>2, <4>2, NumbersStay DEF IInv, Served
    <3>3. QED
      BY <1>2, <3>1, <3>2
  <2>2. QED
    BY <1>3, <2>1 DEF Served
<1>10. Tasked'
  <2>1. ASSUME NEW r \in Readers, NEW i \in Numbers PROVE TaskOK(r, i)'
    <3>1. TaskOK(r, i) /\ seen[r] \in Nat /\ seen[r] <= seen'[r] /\ seen'[r] \in Nat
      BY <1>1, <1>2 DEF IInv, Tasked
    <3>2. i \in 1..Latest => entry'[i] \in Entries /\ EntryGrows(entry[i], entry'[i])
      BY <1>3, SameEntryGrows, EntryTyped DEF IInv
    <3>3. QED
      BY <1>1, <3>1, <3>2, TaskStays DEF IInv
  <2>2. QED
    BY <2>1 DEF Tasked
<1>11. QED
  BY <1>4, <1>5, <1>6, <1>7, <1>8, <1>9, <1>10 DEF IInv

LEMMA NewSubgroupTyped ==
    ASSUME NEW at \in Nat \X Nat
    PROVE  /\ NewSubgroup(at) \in Entries /\ NewSubgroup(at).at = at
           /\ NewSubgroup(at).objects = <<>> /\ NewSubgroup(at).nextId = 0
BY DEF NewSubgroup, Entries

LEMMA CreateSubgroupKeeps ==
    ASSUME IInv, NEW at \in Nat \X Nat, CreateSubgroup(at) PROVE IInv'
<1>1. /\ CanPublish /\ mode = "subgroups" /\ Publish(NewSubgroup(at))
      /\ Latest > 0 => Precedes(entry[Latest].at, at)
  BY DEF CreateSubgroup, IsNewer
<1>2. QED
  BY <1>1, NewSubgroupTyped, PublishKeeps DEF InOrder

LEMMA CreateStreamGroupKeeps ==
    ASSUME IInv, NEW at \in Nat \X Nat, CreateStreamGroup(at) PROVE IInv'
<1>1. /\ CanPublish /\ mode = "stream" /\ Publish(NewSubgroup(<<at[1], 0>>))
      /\ Latest > 0 => entry[Latest].at[1] <= at[1]
  BY DEF CreateStreamGroup
<1>2. <<at[1], 0>> \in Nat \X Nat
  OBVIOUS
<1>3. Latest > 0 => entry[Latest].at[2] = 0
  <2>1. Latest > 0 => Latest \in 1..Latest
    BY StateTyped DEF IInv
  <2>2. QED
    BY <1>1, <2>1 DEF IInv, StreamsAtZero
<1>4. QED
  BY <1>1, <1>2, <1>3, NewSubgroupTyped, PublishKeeps DEF InOrder

LEMMA WriteDatagramKeeps ==
    ASSUME IInv, NEW at \in Nat \X Nat, WriteDatagram(at) PROVE IInv'
<1> DEFINE e == [NewSubgroup(at) EXCEPT !.writer = FALSE]
<1>1. CanPublish /\ mode = "datagrams" /\ Publish(e)
  BY DEF WriteDatagram
<1>2. e \in Entries /\ e.objects = <<>> /\ e.nextId = 0
  BY NewSubgroupTyped DEF Entries
<1> HIDE DEF e
<1>3. QED
  BY <1>1, <1>2, PublishKeeps DEF InOrder

\* Nothing changes but who is left: nobody comes to read an entry, no task moves.
LEMMA LeavingKeeps ==
    ASSUME IInv, UNCHANGED <<mode, entry, seen>>, TypeOK', EndsAgree', EndComesLast',
           writer' => writer, TrackRead' => TrackRead,
           \A r \in Readers, i \in Numbers :
               \/ task'[r][i] = task[r][i]
               \/ Reading(r, i) /\ task'[r][i] = [task[r][i] EXCEPT !.state = "gone"]
    PROVE  IInv'
<1>1. Latest' = Latest /\ Latest \in Nat /\ seen \in [Readers -> Nat]
      /\ task \in [Readers -> [Numbers -> Tasks]]
  BY StateTyped DEF IInv, Latest
<1>2. ASSUME NEW r \in Readers, NEW i \in Numbers
      PROVE  (Reading(r, i)' => Reading(r, i)) /\ TaskOK(r, i)'
  <2>1. TaskOK(r, i) /\ task[r][i] \in Tasks
    BY <1>1 DEF IInv, Tasked
  <2>2. CASE task'[r][i] = task[r][i]
    <3>1. i \in 1..Latest => entry'[i] \in Entries /\ EntryGrows(entry[i], entry'[i])
      BY EntryTyped, SameEntryGrows DEF IInv
    <3>2. TaskOK(r, i)'
      BY <1>1, <2>1, <2>2, <3>1, TaskStays DEF IInv
    <3>3. QED
      BY <2>2, <3>2 DEF Reading
  <2>3. CASE Reading(r, i) /\ task'[r][i] = [task[r][i] EXCEPT !.state = "gone"]
    <3>1. /\ task'[r][i].state = "gone" /\ task'[r][i].index = task[r][i].index
          /\ task'[r][i].chunk = task[r][i].chunk /\ task'[r][i].size = task[r][i].size
      BY <2>1, <2>3 DEF Tasks
    <3>2. Taken(r, i)' = Taken(r, i) /\ TakenIndex(r, i)' = TakenIndex(r, i)
      BY <3>1 DEF Taken, TakenIndex
    <3>3. ~(i > seen[r])
      BY <2>1, <2>3 DEF TaskOK, Reading, NoTask
    <3>4. QED
      BY <2>1, <2>3, <3>1, <3>2, <3>3 DEF TaskOK, Reading
  <2>4. QED
    BY <2>2, <2>3
<1>3. \A i \in 1..Latest : SubgroupRead(i)' => SubgroupRead(i)
  <2>1. 1..Latest \subseteq Numbers
    BY EntryTyped DEF IInv
  <2>2. QED
    BY <1>1, <1>2, <2>1 DEF SubgroupRead
<1>4. Served'
  BY <1>3, ServedStays DEF IInv
<1>5. Sorted' /\ StreamsAtZero'
  BY <1>1, OrderStays DEF IInv
<1>6. QED
  BY <1>2, <1>4, <1>5 DEF IInv, Tasked

LEMMA EndTrackKeeps ==
    ASSUME IInv, NEW err \in BOOLEAN, EndTrack(err) PROVE IInv'
<1>1. /\ writer /\ ~writer' /\ UNCHANGED <<mode, entry, cached, reader, seen, heard, task>>
      /\ closed' = (err /\ TrackRead)
  BY DEF EndTrack
<1>2. TypeOK'
  <2>1. closed' \in BOOLEAN /\ writer' \in BOOLEAN
    BY DEF EndTrack, TrackRead
  <2>2. QED
    BY <1>1, <2>1 DEF IInv, TypeOK, Latest
<1>3. EndsAgree' /\ EndComesLast'
  BY <1>1 DEF IInv, EndsAgree, EndComesLast, Latest
<1>4. TrackRead' => TrackRead
  BY <1>1 DEF TrackRead
<1>5. QED
  BY <1>1, <1>2, <1>3, <1>4, LeavingKeeps

LEMMA EvictKeeps == ASSUME IInv, Evict PROVE IInv'
<1>1. TypeOK'
  BY DEF Evict, trackVars, IInv, TypeOK, Latest
<1>2. EndsAgree' /\ EndComesLast'
  BY DEF Evict, trackVars, IInv, EndsAgree, EndComesLast, Latest
<1>3. TrackRead' => TrackRead
  BY DEF Evict, TrackRead
<1>4. QED
  BY <1>1, <1>2, <1>3, LeavingKeeps DEF Evict, trackVars

LEMMA WriteTrackKeeps == ASSUME IInv, WriteTrack PROVE IInv'
<1>1. Positions \subseteq Nat \X Nat
  BY ServeAssumption DEF ServeAssumption
<1>2. QED
  BY <1>1, CreateSubgroupKeeps, CreateStreamGroupKeeps, WriteDatagramKeeps, EndTrackKeeps,
     EvictKeeps
  DEF WriteTrack, AppendSubgroup, AppendStreamGroup, EndSubgroups, EndStream, EndDatagrams

-----------------------------------------------------------------------------
(* The readers. *)

LEMMA JoinKeeps == ASSUME IInv, NEW r \in Readers, Join(r) PROVE IInv'
<1>1. /\ cached /\ UNCHANGED <<mode, entry, writer, closed, cached, seen, heard, task>>
      /\ reader' = [reader EXCEPT ![r] = "live"]
  BY DEF Join, trackVars
<1>2. TypeOK'
  BY <1>1 DEF IInv, TypeOK, Latest
<1>3. EndsAgree' /\ EndComesLast'
  BY <1>1 DEF IInv, EndsAgree, EndComesLast, Latest
<1>4. TrackRead
  BY <1>1 DEF TrackRead
<1>5. QED
  BY <1>1, <1>2, <1>3, <1>4, LeavingKeeps

LEMMA LeaveKeeps == ASSUME IInv, NEW r \in Readers, Leave(r) PROVE IInv'
<1>1. /\ UNCHANGED <<mode, entry, writer, closed, cached, seen, heard>>
      /\ reader' = [reader EXCEPT ![r] = "gone"]
      /\ task' = [task EXCEPT ![r] =
                     [i \in Numbers |-> IF Reading(r, i) THEN [task[r][i] EXCEPT !.state = "gone"]
                                       ELSE task[r][i]]]
  BY DEF Leave, trackVars
<1>2. task \in [Readers -> [Numbers -> Tasks]]
  BY StateTyped DEF IInv
<1>3. ASSUME NEW q \in Readers, NEW i \in Numbers
      PROVE  \/ task'[q][i] = task[q][i]
             \/ Reading(q, i) /\ task'[q][i] = [task[q][i] EXCEPT !.state = "gone"]
  BY <1>1, <1>2
<1>4. task' \in [Readers -> [Numbers -> Tasks]]
  <2>1. \A i \in Numbers : [task[r][i] EXCEPT !.state = "gone"] \in Tasks
    BY <1>2 DEF Tasks
  <2>2. QED
    BY <1>1, <1>2, <2>1
<1>5. TypeOK'
  BY <1>1, <1>4 DEF IInv, TypeOK, Latest, Tasks
<1>6. EndsAgree' /\ EndComesLast'
  BY <1>1 DEF IInv, EndsAgree, EndComesLast, Latest
<1>7. TrackRead' => TrackRead
  BY <1>1 DEF TrackRead, IInv, TypeOK
<1>8. QED
  BY <1>1, <1>3, <1>5, <1>6, <1>7, LeavingKeeps

LEMMA HearEndKeeps == ASSUME IInv, NEW r \in Readers, HearEnd(r) PROVE IInv'
<1>1. /\ UNCHANGED <<mode, entry, writer, closed, cached, reader, seen, task>>
      /\ seen[r] = Latest /\ (closed \/ ~writer)
      /\ heard' = [heard EXCEPT ![r] = IF closed THEN "error" ELSE "end"]
  BY DEF HearEnd, trackVars
<1>2. TypeOK'
  BY <1>1 DEF IInv, TypeOK, Latest
<1>3. EndsAgree'
  BY <1>1 DEF IInv, EndsAgree, Latest
<1>4. EndComesLast'
  <2>1. ~writer
    BY <1>1 DEF IInv, EndsAgree
  <2>2. ASSUME NEW q \in Readers, heard'[q] # "none" PROVE seen[q] = Latest
    BY <1>1, <2>2 DEF IInv, TypeOK, EndComesLast
  <2>3. QED
    BY <1>1, <2>1, <2>2 DEF EndComesLast, Latest
<1>5. TrackRead' => TrackRead
  BY <1>1 DEF TrackRead
<1>6. QED
  BY <1>1, <1>2, <1>3, <1>4, <1>5, LeavingKeeps

\* The latest is taken by a reader that has no task on it yet.
LEMMA TakeLatestKeeps == ASSUME IInv, NEW r \in Readers, TakeLatest(r) PROVE IInv'
<1>1. /\ UNCHANGED <<mode, entry, writer, closed, cached, reader, heard>>
      /\ reader[r] = "live" /\ heard[r] = "none" /\ seen[r] # Latest
      /\ seen' = [seen EXCEPT ![r] = Latest]
      /\ task' = task \/ task' = [task EXCEPT ![r][Latest].state = "group"]
  BY DEF TakeLatest, CanNext, trackVars
<1>2. /\ entry \in Seq(Entries) /\ Latest \in Nat /\ MaxEntries \in Nat /\ Latest <= MaxEntries
      /\ seen \in [Readers -> Nat] /\ task \in [Readers -> [Numbers -> Tasks]]
      /\ seen[r] <= Latest
  BY StateTyped DEF IInv, TypeOK, EndsAgree
<1>3. Latest \in Numbers /\ Latest > seen[r] /\ Latest' = Latest
  BY <1>1, <1>2 DEF Numbers, Latest
<1>4. task[r][Latest] = NoTask
  BY <1>3 DEF IInv, Tasked, TaskOK
<1>5. /\ task' \in [Readers -> [Numbers -> Tasks]]
      /\ \A q \in Readers, i \in Numbers : q # r \/ i # Latest => task'[q][i] = task[q][i]
      /\ task'[r][Latest] = NoTask \/ task'[r][Latest] = [NoTask EXCEPT !.state = "group"]
  <2>1. CASE task' = task
    BY <1>2, <1>4, <2>1
  <2>2. CASE task' = [task EXCEPT ![r][Latest].state = "group"]
    <3>1. task' = [task EXCEPT ![r] = [task[r] EXCEPT ![Latest] = [NoTask EXCEPT !.state = "group"]]]
      BY <1>2, <1>3, <1>4, <2>2
    <3>2. [NoTask EXCEPT !.state = "group"] \in Tasks
      BY DEF NoTask, Tasks
    <3>3. QED
      BY <1>2, <1>3, <3>1, <3>2
  <2>3. QED
    BY <1>1, <2>1, <2>2
<1>6. TypeOK'
  BY <1>1, <1>2, <1>3, <1>5 DEF IInv, TypeOK, Tasks
<1>7. EndsAgree' /\ EndComesLast'
  BY <1>1, <1>2, <1>3 DEF IInv, EndsAgree, EndComesLast
<1>8. Tasked'
  <2>1. ASSUME NEW q \in Readers, NEW i \in Numbers PROVE TaskOK(q, i)'
    <3>1. CASE q = r /\ i = Latest
      <4>1. /\ task'[r][Latest].index = 0 /\ task'[r][Latest].state \in {"none", "group"}
            /\ ~(Latest > seen'[r])
        BY <1>1, <1>2, <1>5 DEF NoTask
      <4>2. QED
        BY <3>1, <4>1 DEF TaskOK
    <3>2. CASE q # r \/ i # Latest
      <4>1. task'[q][i] = task[q][i] /\ seen[q] <= seen'[q] /\ seen'[q] \in Nat /\ TaskOK(q, i)
        BY <1>1, <1>2, <1>5, <3>2 DEF IInv, Tasked
      <4>2. i \in 1..Latest => entry'[i] \in Entries /\ EntryGrows(entry[i], entry'[i])
        BY <1>1, EntryTyped, SameEntryGrows DEF IInv
      <4>3. QED
        BY <1>1, <4>1, <4>2, TaskStays DEF IInv
    <3>3. QED
      BY <3>1, <3>2
  <2>2. QED
    BY <2>1 DEF Tasked
<1>9. Served'
  <2>1. TrackRead
    BY <1>1 DEF TrackRead
  <2>2. ASSUME NEW i \in 1..Latest, SubgroupRead(i)' PROVE SubgroupRead(i)
    <3>1. CASE i = Latest
      BY <2>1, <3>1 DEF SubgroupRead
    <3>2. CASE i # Latest
      <4>1. i \in Numbers
        BY EntryTyped DEF IInv
      <4>2. PICK q \in Readers : Reading(q, i)'
        BY <1>3, <2>2, <3>2 DEF SubgroupRead
      <4>3. Reading(q, i)
        BY <1>5, <3>2, <4>1, <4>2 DEF Reading
      <4>4. QED
        BY <4>3 DEF SubgroupRead
    <3>3. QED
      BY <3>1, <3>2
  <2>3. QED
    BY <1>1, <2>2, ServedStays DEF IInv
<1>10. Sorted' /\ StreamsAtZero'
  BY <1>1, <1>3, OrderStays DEF IInv
<1>11. QED
  BY <1>6, <1>7, <1>8, <1>9, <1>10 DEF IInv

-----------------------------------------------------------------------------
(* The tasks of the readers. *)

\* One task goes on, which was reading.
LEMMA GotoKeeps ==
    ASSUME IInv, NEW r \in Readers, NEW i \in Numbers, Reading(r, i), NEW t \in Tasks,
           Goto(r, i, t), TaskOK(r, i)'
    PROVE  IInv'
<1>1. /\ UNCHANGED <<mode, entry, writer, closed, cached, reader, seen, heard>>
      /\ task' = [task EXCEPT ![r][i] = t]
  BY DEF Goto, trackVars
<1>2. /\ entry \in Seq(Entries) /\ Latest \in Nat /\ seen \in [Readers -> Nat]
      /\ task \in [Readers -> [Numbers -> Tasks]]
  BY StateTyped DEF IInv
<1>3. /\ task' \in [Readers -> [Numbers -> Tasks]] /\ Latest' = Latest
      /\ \A q \in Readers, j \in Numbers : q # r \/ j # i => task'[q][j] = task[q][j]
  BY <1>1, <1>2 DEF Latest
<1>4. TypeOK'
  BY <1>1, <1>3 DEF IInv, TypeOK, Tasks
<1>5. EndsAgree' /\ EndComesLast'
  BY <1>1, <1>3 DEF IInv, EndsAgree, EndComesLast
<1>6. Tasked'
  <2>1. ASSUME NEW q \in Readers, NEW j \in Numbers, q # r \/ j # i PROVE TaskOK(q, j)'
    <3>1. /\ task'[q][j] = task[q][j] /\ seen[q] <= seen'[q] /\ seen'[q] \in Nat /\ TaskOK(q, j)
      BY <1>1, <1>2, <1>3, <2>1 DEF IInv, Tasked
    <3>2. j \in 1..Latest => entry'[j] \in Entries /\ EntryGrows(entry[j], entry'[j])
      BY <1>1, EntryTyped, SameEntryGrows DEF IInv
    <3>3. QED
      BY <1>1, <3>1, <3>2, TaskStays DEF IInv
  <2>2. QED
    BY <2>1 DEF Tasked
<1>7. \A j \in 1..Latest : SubgroupRead(j)' => SubgroupRead(j)
  <2>1. 1..Latest \subseteq Numbers
    BY EntryTyped DEF IInv
  <2>2. \A q \in Readers, j \in Numbers : Reading(q, j)' => Reading(q, j)
    BY <1>3 DEF Reading
  <2>3. QED
    BY <1>1, <1>3, <2>1, <2>2 DEF SubgroupRead, TrackRead
<1>8. Served'
  BY <1>1, <1>7, ServedStays DEF IInv
<1>9. Sorted' /\ StreamsAtZero'
  BY <1>1, <1>3, OrderStays DEF IInv
<1>10. QED
  BY <1>4, <1>5, <1>6, <1>8, <1>9 DEF IInv

LEMMA ReadingTyped ==
    ASSUME IInv, NEW r \in Readers, NEW i \in Numbers, Reading(r, i)
    PROVE  /\ i \in 1..Latest /\ ~(i > seen[r]) /\ task[r][i] \in Tasks /\ TaskOK(r, i)
           /\ entry[i].objects \in Seq(Objects) /\ ObjectsOK(entry[i])
<1>1. task[r][i] \in Tasks /\ TaskOK(r, i) /\ Latest \in Nat /\ seen[r] \in Nat /\ seen[r] <= Latest
  BY StateTyped DEF IInv, Tasked, EndsAgree
<1>2. task[r][i] # NoTask
  BY DEF Reading, NoTask
<1>3. ~(i > seen[r])
  BY <1>1, <1>2 DEF TaskOK
<1>4. i \in 1..Latest
  BY <1>1, <1>3 DEF Numbers
<1>5. QED
  BY <1>1, <1>3, <1>4, EntryTyped DEF IInv, Served

LEMMA GotoSets ==
    ASSUME IInv, NEW r \in Readers, NEW i \in Numbers, NEW t, Goto(r, i, t)
    PROVE  task'[r][i] = t /\ mode' = mode /\ entry' = entry /\ seen' = seen
BY StateTyped DEF IInv, Goto, trackVars

\* An object is taken, of which nothing has been read.
LEMMA TakeKeeps ==
    ASSUME IInv, NEW r \in Readers, NEW i \in Numbers, Reading(r, i), NEW n \in Nat, n > 0,
           Take(r, i, n), (IF mode = "stream" THEN n + 1 ELSE n) \in 1..Len(entry[i].objects)
    PROVE  IInv'
<1> DEFINE t == [state |-> "object", index |-> n, chunk |-> 0, size |-> 0]
<1>1. t \in Tasks /\ Goto(r, i, t)
  BY DEF Take, Tasks
<1>2. task'[r][i] = t /\ mode' = mode /\ entry' = entry /\ seen' = seen
  BY <1>1, GotoSets
<1> DEFINE k == IF mode = "stream" THEN n + 1 ELSE n
<1>3. TakenIndex(r, i)' = k /\ Taken(r, i)' = entry[i].objects[k]
  BY <1>2 DEF TakenIndex, Taken
<1>4. entry[i].objects[k] \in Objects /\ ObjectOK(entry[i].objects[k])
  BY ReadingTyped DEF ObjectsOK
<1> HIDE DEF k
<1>5. Len(entry[i].objects[k].chunks) \in Nat
  BY <1>4 DEF Objects
<1>6. \E f \in PrefixSums(entry[i].objects[k]) : f[0] = 0
  BY <1>4 DEF ObjectOK, PrefixSums
<1>7. TaskOK(r, i)'
  BY <1>2, <1>3, <1>5, <1>6, ReadingTyped DEF TaskOK, k
<1>8. QED
  BY <1>1, <1>7, GotoKeeps

LEMMA NextObjectKeeps ==
    ASSUME IInv, NEW r \in Readers, NEW i \in Numbers, NextObject(r, i) PROVE IInv'
<1>1. /\ mode = "subgroups" /\ Reading(r, i) /\ task[r][i].index < Len(entry[i].objects)
      /\ Take(r, i, task[r][i].index + 1)
  BY DEF NextObject, Reading
<1>2. task[r][i].index \in Nat /\ Len(entry[i].objects) \in Nat
  BY <1>1, ReadingTyped DEF Tasks
<1>3. QED
  BY <1>1, <1>2, TakeKeeps

\* The lock of the group is poisoned: no other field of it changes.
LEMMA PanicKeeps ==
    ASSUME IInv, NEW r \in Readers, NEW i \in Numbers, mode = "stream", task[r][i].state = "group",
           task' = [task EXCEPT ![r][i].state = "panic"],
           entry' = [entry EXCEPT ![i].poisoned = TRUE],
           UNCHANGED <<mode, writer, closed, cached, reader, seen, heard>>
    PROVE  IInv'
<1>1. Reading(r, i)
  BY DEF Reading
<1>2. /\ entry \in Seq(Entries) /\ Latest \in Nat /\ seen \in [Readers -> Nat]
      /\ task \in [Readers -> [Numbers -> Tasks]] /\ entry[i] \in Entries /\ i \in 1..Latest
      /\ TaskOK(r, i)
  BY <1>1, StateTyped, ReadingTyped, EntryTyped DEF IInv
<1> DEFINE e == [entry[i] EXCEPT !.poisoned = TRUE]
<1>3. e \in Entries /\ e.at = entry[i].at /\ e.objects = entry[i].objects /\ (e.writer => entry[i].writer)
  BY <1>2 DEF Entries
<1>4. entry' = [entry EXCEPT ![i] = e]
  BY <1>2
<1> HIDE DEF e
<1>5. /\ entry' \in Seq(Entries) /\ Latest' = Latest /\ entry'[i] = e
      /\ \A j \in 1..Latest : j # i => entry'[j] = entry[j]
  <2>1. entry \in Seq(Entries) /\ i \in 1..Len(entry) /\ e \in Entries
    BY <1>2, <1>3 DEF Latest
  <2>2. /\ [entry EXCEPT ![i] = e] \in Seq(Entries)
        /\ Len([entry EXCEPT ![i] = e]) = Len(entry)
        /\ [entry EXCEPT ![i] = e][i] = e
        /\ \A j \in 1..Len(entry) : j # i => [entry EXCEPT ![i] = e][j] = entry[j]
    BY ONLY <2>1, SetOne
  <2>3. QED
    BY ONLY <1>4, <2>2 DEF Latest
<1>6. ASSUME NEW j \in 1..Latest
      PROVE  entry'[j] \in Entries /\ EntryGrows(entry[j], entry'[j]) /\ ObjectsOK(entry'[j])
  <2>1. entry[j] \in Entries /\ ObjectsOK(entry[j])
    BY EntryTyped DEF IInv, Served
  <2>2. QED
    BY <1>2, <1>3, <1>5, <2>1, RestGrows, SameEntryGrows
<1>7. /\ task' \in [Readers -> [Numbers -> Tasks]]
      /\ \A q \in Readers, j \in Numbers : q # r \/ j # i => task'[q][j] = task[q][j]
      /\ task'[r][i] = [task[r][i] EXCEPT !.state = "panic"]
  <2>1. [task[r][i] EXCEPT !.state = "panic"] \in Tasks
    <3>1. task[r][i] \in Tasks
      BY <1>2
    <3>2. QED
      BY <3>1 DEF Tasks
  <2>2. task' = [task EXCEPT ![r] = [task[r] EXCEPT ![i] = [task[r][i] EXCEPT !.state = "panic"]]]
    BY <1>2
  <2>3. QED
    BY <1>2, <2>1, <2>2
<1>8. TypeOK'
  BY <1>5, <1>7 DEF IInv, TypeOK, Entries, Objects, Tasks
<1>9. EndsAgree' /\ EndComesLast'
  BY <1>5 DEF IInv, EndsAgree, EndComesLast
<1>10. Sorted' /\ StreamsAtZero'
  BY <1>5, <1>6, OrderStays DEF IInv, EntryGrows
<1>11. Served'
  BY <1>5, <1>6 DEF Served, Numbered
<1>12. Tasked'
  <2>1. ASSUME NEW q \in Readers, NEW j \in Numbers, q # r \/ j # i PROVE TaskOK(q, j)'
    <3>1. /\ task'[q][j] = task[q][j] /\ seen[q] <= seen'[q] /\ seen'[q] \in Nat /\ TaskOK(q, j)
      BY <1>2, <1>7, <2>1 DEF IInv, Tasked
    <3>2. QED
      BY <1>6, <3>1, TaskStays DEF IInv
  <2>2. TaskOK(r, i)'
    <3>1. /\ task'[r][i].state = "panic" /\ task'[r][i].index = task[r][i].index
          /\ task'[r][i].chunk = task[r][i].chunk /\ task'[r][i].size = task[r][i].size
      BY <1>2, <1>7 DEF Tasks
    <3>2. /\ Taken(r, i)' = Taken(r, i) /\ TakenIndex(r, i)' = TakenIndex(r, i)
          /\ entry'[i].objects = entry[i].objects
      BY <1>3, <1>5, <3>1 DEF Taken, TakenIndex
    <3>3. ~(i > seen[r])
      BY <1>1, ReadingTyped
    <3>4. QED
      BY <1>2, <3>1, <3>2, <3>3 DEF TaskOK
  <2>3. QED
    BY <2>1, <2>2 DEF Tasked
<1>13. QED
  BY <1>8, <1>9, <1>10, <1>11, <1>12 DEF IInv

LEMMA NextStreamObjectKeeps ==
    ASSUME IInv, NEW r \in Readers, NEW i \in Numbers, NextStreamObject(r, i) PROVE IInv'
<1> DEFINE next == task[r][i].index + 1
<1>1. mode = "stream" /\ Reading(r, i) /\ task[r][i].state = "group"
  BY DEF NextStreamObject, Reading
<1>2. task[r][i].index \in Nat /\ Len(entry[i].objects) \in Nat
  BY <1>1, ReadingTyped DEF Tasks
<1>3. CASE next < Len(entry[i].objects) /\ Take(r, i, next)
  BY <1>1, <1>2, <1>3, TakeKeeps
<1>4. CASE /\ task' = [task EXCEPT ![r][i].state = "panic"]
           /\ entry' = [entry EXCEPT ![i].poisoned = TRUE]
           /\ UNCHANGED <<mode, writer, closed, cached, reader, seen, heard>>
  BY <1>1, <1>4, PanicKeeps
<1>5. QED
  BY <1>3, <1>4 DEF NextStreamObject

\* A task that goes to a state in which it knows as much as before.
LEMMA StateKeeps ==
    ASSUME IInv, NEW r \in Readers, NEW i \in Numbers, Reading(r, i),
           NEW s \in {"group", "end", "error", "gone"},
           Goto(r, i, [task[r][i] EXCEPT !.state = s]),
           s \in {"group", "end"} /\ task[r][i].index > 0 =>
              ~Taken(r, i).writer /\ task[r][i].size = Taken(r, i).size,
           mode = "subgroups" /\ s = "end" =>
              ~entry[i].writer /\ task[r][i].index = Len(entry[i].objects)
    PROVE  IInv'
<1> DEFINE t == [task[r][i] EXCEPT !.state = s]
<1>1. task[r][i] \in Tasks /\ ~(i > seen[r]) /\ TaskOK(r, i)
  BY ReadingTyped
<1>2. /\ t \in Tasks /\ t.state = s /\ t.index = task[r][i].index
      /\ t.chunk = task[r][i].chunk /\ t.size = task[r][i].size
  BY <1>1 DEF Tasks
<1>3. task'[r][i] = t /\ mode' = mode /\ entry' = entry /\ seen' = seen
  BY GotoSets
<1> HIDE DEF t
<1>4. Taken(r, i)' = Taken(r, i) /\ TakenIndex(r, i)' = TakenIndex(r, i)
  BY <1>2, <1>3 DEF Taken, TakenIndex
<1>5. TaskOK(r, i)'
  BY <1>1, <1>2, <1>3, <1>4 DEF TaskOK
<1>6. QED
  BY <1>2, <1>5, GotoKeeps DEF t

LEMMA HearSubgroupEndKeeps ==
    ASSUME IInv, NEW r \in Readers, NEW i \in Numbers, HearSubgroupEnd(r, i) PROVE IInv'
<1> DEFINE s == IF entry[i].closed THEN "error" ELSE "end"
<1>1. /\ Reading(r, i) /\ task[r][i].state = "group" /\ task[r][i].index = Len(entry[i].objects)
      /\ Goto(r, i, [task[r][i] EXCEPT !.state = s]) /\ (entry[i].closed \/ ~entry[i].writer)
  BY DEF HearSubgroupEnd, Reading
<1>2. TaskOK(r, i)
  BY <1>1, ReadingTyped
<1>3. task[r][i].index > 0 => ~Taken(r, i).writer /\ task[r][i].size = Taken(r, i).size
  BY <1>1, <1>2 DEF TaskOK
<1>4. s \in {"end", "error"} /\ (s = "end" => ~entry[i].writer)
  BY <1>1
<1> HIDE DEF s
<1>5. QED
  BY <1>1, <1>3, <1>4, StateKeeps

\* The object that a task reads, and the sums of its chunks.
LEMMA TakenTyped ==
    ASSUME IInv, NEW r \in Readers, NEW i \in Numbers, task[r][i].state = "object"
    PROVE  /\ Reading(r, i) /\ task[r][i].index > 0
           /\ Taken(r, i) \in Objects /\ ObjectOK(Taken(r, i))
           /\ TakenIndex(r, i) \in 1..Len(entry[i].objects)
           /\ task[r][i].chunk \in 0..Len(Taken(r, i).chunks)
           /\ \E f \in PrefixSums(Taken(r, i)) : f[task[r][i].chunk] = task[r][i].size
<1>1. Reading(r, i)
  BY DEF Reading
<1>2. TaskOK(r, i) /\ entry[i].objects \in Seq(Objects) /\ ObjectsOK(entry[i])
  BY <1>1, ReadingTyped
<1>3. /\ task[r][i].index > 0 /\ TakenIndex(r, i) \in 1..Len(entry[i].objects)
      /\ task[r][i].chunk \in 0..Len(Taken(r, i).chunks)
      /\ \E f \in PrefixSums(Taken(r, i)) : f[task[r][i].chunk] = task[r][i].size
  BY <1>2 DEF TaskOK
<1>4. Taken(r, i) = entry[i].objects[TakenIndex(r, i)]
  BY DEF Taken, TakenIndex
<1>5. QED
  BY <1>1, <1>2, <1>3, <1>4 DEF ObjectsOK

LEMMA ReadChunkKeeps ==
    ASSUME IInv, NEW r \in Readers, NEW i \in Numbers, ReadChunk(r, i) PROVE IInv'
<1> DEFINE o == Taken(r, i)
<1> DEFINE c == task[r][i].chunk + 1
<1> DEFINE t == [task[r][i] EXCEPT !.chunk = c, !.size = @ + o.chunks[c]]
<1>1. task[r][i].state = "object" /\ task[r][i].chunk < Len(o.chunks) /\ Goto(r, i, t)
  BY DEF ReadChunk
<1>2. /\ Reading(r, i) /\ task[r][i].index > 0 /\ o \in Objects
      /\ TakenIndex(r, i) \in 1..Len(entry[i].objects)
      /\ task[r][i].chunk \in 0..Len(o.chunks)
  BY <1>1, TakenTyped
<1>3. PICK f \in PrefixSums(o) : f[task[r][i].chunk] = task[r][i].size
  BY <1>1, TakenTyped
<1>4. task[r][i] \in Tasks /\ ~(i > seen[r])
  BY <1>2, ReadingTyped
<1>5. c \in 1..Len(o.chunks) /\ c \in Nat /\ o.chunks[c] \in Nat /\ c - 1 = task[r][i].chunk
      /\ c \in 0..Len(o.chunks)
  <2>1. o.chunks \in Seq(Nat) /\ Len(o.chunks) \in Nat
    BY <1>2 DEF Objects
  <2>2. task[r][i].chunk \in Nat
    BY <1>4 DEF Tasks
  <2>3. task[r][i].chunk < Len(o.chunks)
    BY <1>1
  <2> HIDE DEF o, t
  <2>4. \A k, n \in Nat : k < n => k + 1 \in 1..n /\ k + 1 \in 0..n /\ (k + 1) - 1 = k
    OBVIOUS
  <2>5. c \in 1..Len(o.chunks) /\ c \in 0..Len(o.chunks) /\ c - 1 = task[r][i].chunk
    BY ONLY <2>1, <2>2, <2>3, <2>4
  <2> HIDE DEF c
  <2>6. c \in Nat
    BY ONLY <2>1, <2>5
  <2>7. o.chunks[c] \in Nat
    BY ONLY <2>1, <2>5
  <2>8. QED
    BY <2>5, <2>6, <2>7
<1>6. f[c] = task[r][i].size + o.chunks[c]
  BY <1>3, <1>5 DEF PrefixSums
<1>7. /\ t \in Tasks /\ t.state = "object" /\ t.index = task[r][i].index /\ t.chunk = c
      /\ t.size = task[r][i].size + o.chunks[c]
  <2>1. task[r][i].size + o.chunks[c] \in Nat
    BY <1>4, <1>5 DEF Tasks
  <2> HIDE DEF o, c
  <2>2. QED
    BY <1>1, <1>4, <1>5, <2>1 DEF Tasks
<1>8. task'[r][i] = t /\ mode' = mode /\ entry' = entry /\ seen' = seen
  BY <1>1, GotoSets
<1> HIDE DEF t, c
<1>9. Taken(r, i)' = o /\ TakenIndex(r, i)' = TakenIndex(r, i)
  BY <1>7, <1>8 DEF Taken, TakenIndex
<1>10. TaskOK(r, i)'
  BY <1>2, <1>3, <1>4, <1>5, <1>6, <1>7, <1>8, <1>9 DEF TaskOK
<1>11. QED
  BY <1>1, <1>2, <1>7, <1>10, GotoKeeps

LEMMA HearObjectEndKeeps ==
    ASSUME IInv, NEW r \in Readers, NEW i \in Numbers, HearObjectEnd(r, i) PROVE IInv'
<1> DEFINE o == Taken(r, i)
<1> DEFINE s == IF o.closed THEN "error" ELSE "group"
<1>1. /\ task[r][i].state = "object" /\ task[r][i].chunk = Len(o.chunks)
      /\ (o.closed \/ ~o.writer) /\ Goto(r, i, [task[r][i] EXCEPT !.state = s])
  BY DEF HearObjectEnd
<1>2. Reading(r, i) /\ o \in Objects /\ ObjectOK(o)
  BY <1>1, TakenTyped
<1>3. PICK f \in PrefixSums(o) : f[task[r][i].chunk] = task[r][i].size
  BY <1>1, TakenTyped
<1>4. ASSUME ~o.closed PROVE ~o.writer /\ task[r][i].size = o.size
  <2>1. ~o.writer /\ o.remain = 0
    BY <1>1, <1>2, <1>4 DEF ObjectOK
  <2>2. f[Len(o.chunks)] + o.remain = o.size /\ f[Len(o.chunks)] \in Nat
    BY <1>2, <1>3 DEF PrefixSums, Objects
  <2>3. QED
    BY <1>1, <1>3, <2>1, <2>2
<1>5. s \in {"group", "error"} /\ (s = "group" => ~o.closed)
  OBVIOUS
<1> HIDE DEF s
<1>6. QED
  BY <1>1, <1>2, <1>4, <1>5, StateKeeps

LEMMA ReadEntryKeeps ==
    ASSUME IInv, NEW r \in Readers, NEW i \in Numbers, ReadEntry(r, i) PROVE IInv'
BY NextObjectKeeps, NextStreamObjectKeeps, HearSubgroupEndKeeps, ReadChunkKeeps,
   HearObjectEndKeeps
DEF ReadEntry, ReadSubgroupObject, ReadStreamObject

LEMMA AbandonKeeps ==
    ASSUME IInv, NEW r \in Readers, NEW i \in Numbers, Abandon(r, i) PROVE IInv'
<1>1. Reading(r, i) /\ Goto(r, i, [task[r][i] EXCEPT !.state = "gone"])
  BY DEF Abandon
<1>2. QED
  BY <1>1, StateKeeps

-----------------------------------------------------------------------------
LEMMA InitIInv == ASSUME Init PROVE IInv
<1>1. Latest = 0 /\ entry = <<>> /\ NoTask.index = 0 /\ NoTask.state = "none" /\ NoTask \in Tasks
  BY DEF Init, Latest, NoTask, Tasks
<1>2. TypeOK
  <2>1. entry \in Seq(Entries) /\ Latest <= MaxEntries
    BY <1>1, ServeAssumption DEF ServeAssumption
  <2>2. seen \in [Readers -> 0..MaxEntries]
    BY ServeAssumption DEF Init, ServeAssumption
  <2>3. task \in [Readers -> [Numbers -> Tasks]]
    BY <1>1 DEF Init
  <2>4. /\ mode \in Modes /\ writer \in BOOLEAN /\ closed \in BOOLEAN /\ cached \in BOOLEAN
        /\ reader \in [Readers -> {"unborn", "live", "gone"}]
        /\ heard \in [Readers -> {"none", "end", "error"}]
    BY DEF Init
  <2>5. QED
    BY <2>1, <2>2, <2>3, <2>4 DEF TypeOK, Entries, Objects, Tasks
<1>3. EndsAgree /\ EndComesLast
  BY <1>1 DEF Init, EndsAgree, EndComesLast
<1>4. Sorted /\ StreamsAtZero /\ Served
  BY <1>1 DEF Sorted, StreamsAtZero, Served
<1>5. Tasked
  BY <1>1 DEF Init, Tasked, TaskOK
<1>6. QED
  BY <1>2, <1>3, <1>4, <1>5 DEF IInv

LEMMA NextIInv == ASSUME IInv, [Next]_vars PROVE IInv'
<1>1. CASE UNCHANGED vars
  <2>1. UNCHANGED <<mode, entry, writer, closed, cached, reader, seen, heard, task>>
    BY <1>1 DEF vars, trackVars
  <2>2. TypeOK'
    BY <2>1 DEF IInv, TypeOK, Latest
  <2>3. EndsAgree' /\ EndComesLast'
    BY <2>1 DEF IInv, EndsAgree, EndComesLast, Latest
  <2>4. TrackRead' => TrackRead
    BY <2>1 DEF TrackRead
  <2>5. QED
    BY <2>1, <2>2, <2>3, <2>4, LeavingKeeps
<1>2. ASSUME NEW r \in Readers, ReadTrack(r) PROVE IInv'
  BY <1>2, TakeLatestKeeps, HearEndKeeps DEF ReadTrack, NextSubgroup, NextStreamGroup, ReadDatagram
<1>3. QED
  BY <1>1, <1>2, WriteTrackKeeps, WriteEntryKeeps, JoinKeeps, LeaveKeeps, ReadEntryKeeps,
     AbandonKeeps
  DEF Next

LEMMA InvariantHolds == Spec => []IInv
BY InitIInv, NextIInv, PTL DEF Spec

\* Every variable of a served track has its type.
THEOREM TypeCorrect == Spec => []TypeOK
<1>1. IInv => TypeOK
  BY DEF IInv
<1>2. QED
  BY <1>1, InvariantHolds, PTL

\* The objects that a task takes of a subgroup are numbered without a gap: an object that
\* was counted and not made had no reader, and its subgroup never has one again.
THEOREM ObjectsHaveNoGaps == Spec => []NoGaps
<1>1. ASSUME IInv, mode = "subgroups", NEW r \in Readers, NEW i \in 1..Latest,
             NEW k \in 1..task[r][i].index
      PROVE  entry[i].objects[k].id = k - 1
  <2>1. i \in Numbers /\ entry[i].objects \in Seq(Objects)
    BY <1>1, EntryTyped DEF IInv
  <2>2. task[r][i].index \in Nat /\ TaskOK(r, i)
    BY <1>1, <2>1, StateTyped DEF IInv, Tasked, Tasks
  <2>3. task[r][i].index > 0
    BY <2>2
  <2>4. task[r][i].index <= Len(entry[i].objects)
    BY <1>1, <2>2, <2>3 DEF TaskOK, TakenIndex
  <2>5. k \in 1..Len(entry[i].objects)
    BY <2>1, <2>2, <2>4
  <2>6. QED
    BY <1>1, <2>5 DEF IInv, Served, Numbered
<1>2. IInv => NoGaps
  BY <1>1 DEF NoGaps
<1>3. QED
  BY <1>2, InvariantHolds, PTL

\* A task that goes on after an object has all its bytes, and one that reads a subgroup to
\* its end all its objects.
THEOREM ReadingIsComplete == Spec => []CompleteOrError
<1>1. ASSUME IInv, NEW r \in Readers, NEW i \in 1..Latest PROVE TaskOK(r, i)
  BY <1>1, EntryTyped DEF IInv, Tasked
<1>2. IInv => CompleteOrError
  BY <1>1 DEF TaskOK, CompleteOrError
<1>3. QED
  BY <1>2, InvariantHolds, PTL

\* The end of a track does not overtake its last entry.
THEOREM EndsComeLast == Spec => []EndComesLast
<1>1. IInv => EndComesLast
  BY DEF IInv
<1>2. QED
  BY <1>1, InvariantHolds, PTL

\* A reader takes subgroups in the order of their ids, whatever order they arrive in.
THEOREM ReadersGoForward == Spec => ForwardOnly
<1>1. ASSUME IInv, IInv', [Next]_vars, NEW r \in Readers, seen'[r] # seen[r], seen[r] # 0,
             mode # "datagrams"
      PROVE  \/ Precedes(entry[seen[r]].at, entry[seen'[r]].at)
             \/ mode = "stream" /\ entry[seen[r]].at = entry[seen'[r]].at
  <2>1. PICK q \in Readers : TakeLatest(q)
    <3>1. UNCHANGED vars => seen' = seen
      BY DEF vars
    <3>2. WriteTrack => seen' = seen
      BY DEF WriteTrack, CreateSubgroup, AppendSubgroup, CreateStreamGroup, AppendStreamGroup,
             WriteDatagram, Publish, EndSubgroups, EndStream, EndDatagrams, EndTrack, Evict
    <3>3. ASSUME NEW i \in Numbers, WriteEntry(i) PROVE seen' = seen
      BY <3>3 DEF WriteEntry, CreateObject, CreateStreamObject, WriteSubgroupChunk,
                  WriteStreamChunk, WriteChunk, EndSubgroupObject, EndStreamObject, EndObject,
                  EndSubgroup, EndStreamGroup, EndEntry, SetCurrent, SetEntry
    <3>4. ASSUME NEW q \in Readers, NEW i \in Numbers, ReadEntry(q, i) \/ Abandon(q, i)
          PROVE  seen' = seen
      BY <3>4 DEF ReadEntry, NextObject, NextStreamObject, HearSubgroupEnd, ReadSubgroupObject,
                  ReadStreamObject, ReadChunk, HearObjectEnd, Abandon, Take, Goto
    <3>5. ASSUME NEW q \in Readers, Join(q) \/ Leave(q) \/ HearEnd(q) PROVE seen' = seen
      BY <3>5 DEF Join, Leave, HearEnd
    <3>6. ASSUME NEW q \in Readers, ReadTrack(q) PROVE TakeLatest(q) \/ HearEnd(q)
      BY <3>6 DEF ReadTrack, NextSubgroup, NextStreamGroup, ReadDatagram
    <3>7. QED
      BY <1>1, <3>1, <3>2, <3>3, <3>4, <3>5, <3>6 DEF Next
  <2>2. seen' = [seen EXCEPT ![q] = Latest] /\ entry' = entry
    BY <2>1 DEF TakeLatest, trackVars
  <2>3. seen \in [Readers -> Nat] /\ Latest \in Nat /\ seen[r] <= Latest
    BY <1>1, StateTyped DEF IInv, EndsAgree
  <2>4. seen'[r] = Latest
    BY <1>1, <2>2, <2>3
  <2>5. seen[r] \in 1..Latest /\ Latest \in 1..Latest /\ seen[r] < Latest
    BY <1>1, <2>3, <2>4
  <2>6. InOrder(entry[seen[r]].at, entry[Latest].at)
    BY <1>1, <2>5 DEF IInv, Sorted
  <2>7. /\ entry[seen[r]].at \in Nat \X Nat /\ entry[Latest].at \in Nat \X Nat
        /\ mode \in {"subgroups", "stream", "datagrams"}
    BY <1>1, <2>5, EntryTyped, ServeAssumption DEF IInv, Entries, TypeOK, ServeAssumption
  <2>8. CASE mode = "subgroups"
    BY <2>4, <2>6, <2>8 DEF InOrder
  <2>9. CASE mode = "stream"
    BY <2>4, <2>6, <2>7, <2>9 DEF InOrder, Precedes
  <2>10. QED
    BY <1>1, <2>7, <2>8, <2>9
<1>2. ASSUME IInv, IInv', [Next]_vars
      PROVE  [\A r \in Readers :
                 seen'[r] # seen[r] /\ seen[r] # 0 /\ mode # "datagrams" =>
                     LET old == entry[seen[r]].at
                         new == entry[seen'[r]].at
                     IN  Precedes(old, new) \/ (mode = "stream" /\ old = new)]_vars
  BY <1>1, <1>2
<1>3. QED
  BY <1>2, InvariantHolds, PTL DEF Spec, ForwardOnly
=============================================================================
