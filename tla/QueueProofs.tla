----------------------------- MODULE QueueProofs -----------------------------
(***************************************************************************)
(* Proofs about Queue.tla for every set of tasks, every layout of handles  *)
(* over sides and every number of entries: its type invariant, the absence *)
(* of missed notifications, the truth of acknowledgements, and that it     *)
(* implements ClosableFifo.                                                *)
(***************************************************************************)
EXTENDS Queue, TLAPS

\* A task inside an operation of the queue owns the handle it called it on.
Owned == \A t \in Tasks : pc[t] # "idle" => t \in handles

\* The entries of the deque are the last ones accepted, in order.
InOrder ==
    /\ Len(deque) <= accepted
    /\ \A k \in 1..Len(deque) : deque[k].item = accepted - Len(deque) + k

\* The history agrees with the deque.
FateAgrees ==
    \A i \in Numbers :
        /\ fate[i] = "new" <=> accepted < i
        /\ fate[i] = "queued" <=> (accepted - Len(deque) < i /\ i <= accepted)

\* Whoever waits for an acknowledgement has its entry in the deque, or was told
\* what became of it.
AckOf(p) ==
    /\ ack[p] # "none" <=> pc[p] = "ack"
    /\ ack[p] # "none" => waitsFor[p] \in Numbers
    /\ ack[p] = "pending" =>
          \E k \in 1..Len(deque) : deque[k] = [item |-> waitsFor[p], waiter |-> p]
    /\ ack[p] = "ok" => fate[waitsFor[p]] = "popped"
    /\ ack[p] = "canceled" => fate[waitsFor[p]] = "returned"

AckAgrees == \A p \in Pushers : AckOf(p)

\* Every StateChanged future was made at an epoch of the cell, and at an earlier
\* one than the notification that closed it.
SeenIsPast ==
    \A t \in Tasks :
        /\ seen[t] <= epoch
        /\ dropped /\ pc[t] \in {"poll", "asleep"} => seen[t] < epoch

IInv ==
    /\ TypeOK
    /\ Owned
    /\ InOrder
    /\ FateAgrees
    /\ AckAgrees
    /\ SeenIsPast
    /\ NoMissedWakeup

-----------------------------------------------------------------------------
LEMMA InitIInv == ASSUME QueueAssumption, Init PROVE IInv
<1>1. TypeOK
  <2>1. /\ side \in Layouts /\ handles \subseteq Tasks
        /\ epoch \in Nat /\ dropped \in BOOLEAN /\ wakers \subseteq Poppers
    BY DEF Init
  <2>4. pc \in [Tasks -> PcStates] /\ seen \in [Tasks -> Nat]
    BY DEF Init, PcStates
  <2>5. waitsFor \in [Pushers -> 0..MaxItems] /\ ack \in [Pushers -> AckStates]
    <3>1. 0 \in 0..MaxItems
      BY QueueAssumption DEF QueueAssumption
    <3>2. "none" \in AckStates
      BY DEF AckStates
    <3>3. QED
      BY <3>1, <3>2 DEF Init
  <2>2. deque \in Seq(Entry) /\ accepted \in 0..MaxItems /\ fate \in [Numbers -> Fates]
    BY QueueAssumption DEF Init, QueueAssumption, Fates
  <2>3. QED
    BY <2>1, <2>2, <2>4, <2>5 DEF TypeOK
<1>2. Owned /\ InOrder /\ FateAgrees /\ NoMissedWakeup
  BY QueueAssumption
     DEF Init, QueueAssumption, Owned, InOrder, FateAgrees, NoMissedWakeup, Numbers
<1>3. AckAgrees /\ SeenIsPast
  BY DEF Init, AckAgrees, AckOf, SeenIsPast, Tasks
<1>4. QED
  BY <1>1, <1>2, <1>3 DEF IInv

\* An entry is appended, by push or by push_and_wait_until_popped: it takes the next
\* number, so the deque stays consecutive and the history agrees with it.
LEMMA EnqueueKeepsOrder ==
    ASSUME QueueAssumption, IInv, NEW w \in Pushers \cup {NoWaiter}, Enqueue(w)
    PROVE  /\ accepted' \in 0..MaxItems /\ accepted + 1 \in Numbers
           /\ deque' \in Seq(Entry) /\ epoch' \in Nat
           /\ fate' \in [Numbers -> Fates]
           /\ deque' = Append(deque, [item |-> accepted + 1, waiter |-> w])
           /\ Len(deque') = Len(deque) + 1
           /\ InOrder' /\ FateAgrees'
<1> DEFINE e == [item |-> accepted + 1, waiter |-> w]
<1>1. /\ accepted + 1 \in Numbers /\ accepted \in Nat /\ accepted' = accepted + 1
      /\ accepted' \in 0..MaxItems
  BY DEF Enqueue, IInv, TypeOK, Numbers, QueueAssumption
<1>2. e \in Entry
  BY <1>1 DEF Entry
<1>3. deque' = Append(deque, e) /\ deque \in Seq(Entry) /\ epoch' \in Nat
  BY DEF Enqueue, Update, Notify, IInv, TypeOK
<1>4. deque' \in Seq(Entry)
  BY <1>2, <1>3
<1>5. fate' = [fate EXCEPT ![accepted + 1] = "queued"] /\ fate \in [Numbers -> Fates]
  BY DEF Enqueue, IInv, TypeOK
<1>6. fate' \in [Numbers -> Fates]
  BY <1>5 DEF Fates
<1>7. /\ Len(deque') = Len(deque) + 1 /\ Len(deque) \in Nat
      /\ \A k \in 1..Len(deque) : deque'[k] = deque[k]
      /\ deque'[Len(deque) + 1] = e
  BY <1>2, <1>3
<1>8. InOrder'
  <2>1. Len(deque') <= accepted'
    BY <1>1, <1>7 DEF IInv, InOrder
  <2>2. ASSUME NEW k \in 1..Len(deque')
        PROVE  deque'[k].item = accepted' - Len(deque') + k
    <3>1. CASE k = Len(deque) + 1
      <4>1. deque'[k].item = accepted + 1
        BY <1>7, <3>1
      <4>2. QED
        BY <1>1, <1>7, <3>1, <4>1
    <3>2. CASE k \in 1..Len(deque)
      <4>1. deque'[k].item = accepted - Len(deque) + k
        BY <1>7, <3>2 DEF IInv, InOrder
      <4>2. QED
        BY <1>1, <1>7, <3>2, <4>1
    <3>3. QED
      BY <1>7, <2>2, <3>1, <3>2
  <2>3. QED
    BY <2>1, <2>2 DEF InOrder
<1>9. FateAgrees'
  <2>1. Len(deque) <= accepted
    BY DEF IInv, InOrder
  <2>2. QED
    BY <1>1, <1>5, <1>7, <2>1 DEF IInv, FateAgrees, Numbers
<1>10. QED
  BY <1>1, <1>3, <1>4, <1>6, <1>7, <1>8, <1>9

\* A waiter the step does not touch stays right, if its entry stays in the deque and
\* no fate that was final changes.
LEMMA AckFrame ==
    ASSUME IInv, NEW p \in Pushers,
           pc'[p] = "ack" <=> pc[p] = "ack",
           waitsFor'[p] = waitsFor[p], ack'[p] = ack[p],
           ack[p] = "pending" => \A k \in 1..Len(deque) :
               deque[k].waiter = p => \E j \in 1..Len(deque') : deque'[j] = deque[k],
           \A i \in Numbers : fate[i] \in {"popped", "returned"} => fate'[i] = fate[i]
    PROVE  AckOf(p)'
<1>1. AckOf(p)
  BY DEF IInv, AckAgrees
<1>2. ASSUME ack[p] = "pending"
      PROVE  \E j \in 1..Len(deque') : deque'[j] = [item |-> waitsFor[p], waiter |-> p]
  <2>1. PICK k \in 1..Len(deque) : deque[k] = [item |-> waitsFor[p], waiter |-> p]
    BY <1>1, <1>2 DEF AckOf
  <2>2. deque[k].waiter = p
    BY <2>1
  <2>3. QED
    BY <1>2, <2>1, <2>2
<1>3. QED
  BY <1>1, <1>2 DEF AckOf

LEMMA EnqueueKeepsAcks ==
    ASSUME QueueAssumption, IInv, NEW w \in Pushers \cup {NoWaiter}, Enqueue(w),
           NEW p \in Pushers, pc'[p] = "ack" <=> pc[p] = "ack",
           waitsFor'[p] = waitsFor[p], ack'[p] = ack[p]
    PROVE  AckOf(p)'
<1>1. /\ deque' = Append(deque, [item |-> accepted + 1, waiter |-> w])
      /\ Len(deque') = Len(deque) + 1 /\ deque \in Seq(Entry) /\ deque' \in Seq(Entry)
  BY EnqueueKeepsOrder DEF IInv, TypeOK
<1>2. \A k \in 1..Len(deque) : k \in 1..Len(deque') /\ deque'[k] = deque[k]
  BY <1>1
<1>3. ASSUME NEW i \in Numbers, fate[i] \in {"popped", "returned"}
      PROVE  fate'[i] = fate[i]
  <2>1. fate' = [fate EXCEPT ![accepted + 1] = "queued"] /\ fate \in [Numbers -> Fates]
    BY DEF Enqueue, IInv, TypeOK
  <2>2. accepted \in Nat /\ accepted + 1 \in Numbers
    BY DEF IInv, TypeOK, QueueAssumption, Enqueue, Numbers
  <2>5. fate[accepted + 1] = "new"
    BY <2>2 DEF IInv, FateAgrees
  <2>3. i # accepted + 1
    BY <1>3, <2>5
  <2>4. QED
    BY <2>1, <2>3
<1>4. QED
  BY <1>2, <1>3, AckFrame

LEMMA PushStep ==
    ASSUME QueueAssumption, IInv, NEW p \in Pushers, Push(p)
    PROVE  IInv'
<1>1. /\ Enqueue(NoWaiter) /\ NoWaiter \in Pushers \cup {NoWaiter}
      /\ epoch' = epoch + 1 /\ wakers' = {} /\ dropped' = dropped
      /\ UNCHANGED <<side, handles, pc, seen, waitsFor, ack>>
  BY DEF Push, Enqueue, Update, Notify
<1>2. /\ accepted' \in 0..MaxItems /\ accepted + 1 \in Numbers
      /\ deque' \in Seq(Entry) /\ epoch' \in Nat
      /\ fate' \in [Numbers -> Fates]
      /\ deque' = Append(deque, [item |-> accepted + 1, waiter |-> NoWaiter])
      /\ Len(deque') = Len(deque) + 1
      /\ InOrder' /\ FateAgrees'
  BY <1>1, EnqueueKeepsOrder
<1>3. TypeOK'
  BY <1>1, <1>2 DEF IInv, TypeOK
<1>4. Owned' /\ SeenIsPast' /\ NoMissedWakeup'
  BY <1>1 DEF IInv, TypeOK, Owned, SeenIsPast, NoMissedWakeup
<1>5. AckAgrees'
  BY <1>1, EnqueueKeepsAcks DEF AckAgrees
<1>6. QED
  BY <1>2, <1>3, <1>4, <1>5 DEF IInv

LEMMA PushAndWaitStep ==
    ASSUME QueueAssumption, IInv, NEW p \in Pushers, PushAndWait(p)
    PROVE  IInv'
<1>1. /\ Enqueue(p) /\ p \in Pushers \cup {NoWaiter} /\ p \in Tasks
      /\ epoch' = epoch + 1 /\ wakers' = {} /\ dropped' = dropped
      /\ pc[p] = "idle" /\ p \in handles
      /\ waitsFor' = [waitsFor EXCEPT ![p] = accepted + 1]
      /\ ack' = [ack EXCEPT ![p] = "pending"]
      /\ pc' = [pc EXCEPT ![p] = "ack"]
      /\ UNCHANGED <<side, handles, seen>>
  BY DEF PushAndWait, Idle, Enqueue, Update, Notify, Tasks
<1>2. /\ accepted' \in 0..MaxItems /\ accepted + 1 \in Numbers
      /\ deque' \in Seq(Entry) /\ epoch' \in Nat
      /\ fate' \in [Numbers -> Fates]
      /\ deque' = Append(deque, [item |-> accepted + 1, waiter |-> p])
      /\ Len(deque') = Len(deque) + 1
      /\ InOrder' /\ FateAgrees'
  BY <1>1, EnqueueKeepsOrder
<1>3. TypeOK'
  BY <1>1, <1>2 DEF IInv, TypeOK, PcStates, AckStates, Numbers
<1>4. Owned' /\ SeenIsPast' /\ NoMissedWakeup'
  BY <1>1 DEF IInv, TypeOK, Owned, SeenIsPast, NoMissedWakeup
<1>5. AckAgrees'
  <2>1. ASSUME NEW q \in Pushers, q # p PROVE AckOf(q)'
    <3>1. pc'[q] = pc[q] /\ waitsFor'[q] = waitsFor[q] /\ ack'[q] = ack[q]
      BY <1>1, <2>1 DEF IInv, TypeOK
    <3>2. QED
      BY <1>1, <3>1, EnqueueKeepsAcks
  <2>2. AckOf(p)'
    <3>1. pc'[p] = "ack" /\ waitsFor'[p] = accepted + 1 /\ ack'[p] = "pending"
      BY <1>1 DEF IInv, TypeOK
    <3>2. /\ Len(deque) + 1 \in 1..Len(deque')
          /\ deque'[Len(deque) + 1] = [item |-> accepted + 1, waiter |-> p]
      BY <1>2 DEF IInv, TypeOK
    <3>3. QED
      BY <1>2, <3>1, <3>2 DEF AckOf
  <2>3. QED
    BY <2>1, <2>2 DEF AckAgrees
<1>6. QED
  BY <1>2, <1>3, <1>4, <1>5 DEF IInv

\* The steps of a pop that leave the entries, their waiters and the history alone.
LEMMA AcksUntouched ==
    ASSUME IInv, UNCHANGED <<deque, waitsFor, ack, fate>>,
           \A p \in Pushers : pc'[p] = "ack" <=> pc[p] = "ack"
    PROVE  AckAgrees'
<1>1. ASSUME NEW p \in Pushers PROVE AckOf(p)'
  BY AckFrame
<1>2. QED
  BY <1>1 DEF AckAgrees

LEMMA LeaveWaitStep ==
    ASSUME QueueAssumption, IInv, NEW p \in Pushers, LeaveWait(p)
    PROVE  IInv'
<1>1. /\ p \in Tasks /\ pc[p] = "ack"
      /\ waitsFor' = [waitsFor EXCEPT ![p] = 0]
      /\ ack' = [ack EXCEPT ![p] = "none"]
      /\ pc' = [pc EXCEPT ![p] = "idle"]
      /\ UNCHANGED <<side, handles, deque, epoch, dropped, wakers, seen, accepted, fate>>
  BY DEF LeaveWait, cellVars, Tasks
<1>2. TypeOK'
  BY <1>1 DEF IInv, TypeOK, PcStates, AckStates, QueueAssumption
<1>3. Owned' /\ SeenIsPast' /\ NoMissedWakeup'
  BY <1>1 DEF IInv, TypeOK, Owned, SeenIsPast, NoMissedWakeup
<1>4. InOrder' /\ FateAgrees'
  BY <1>1 DEF IInv, InOrder, FateAgrees
<1>5. AckAgrees'
  <2>1. ASSUME NEW q \in Pushers, q # p PROVE AckOf(q)'
    <3>1. pc'[q] = pc[q] /\ waitsFor'[q] = waitsFor[q] /\ ack'[q] = ack[q]
      BY <1>1, <2>1 DEF IInv, TypeOK
    <3>2. QED
      BY <1>1, <3>1, AckFrame
  <2>2. AckOf(p)'
    <3>1. pc'[p] = "idle" /\ ack'[p] = "none"
      BY <1>1 DEF IInv, TypeOK
    <3>2. QED
      BY <3>1 DEF AckOf
  <2>3. QED
    BY <2>1, <2>2 DEF AckAgrees
<1>6. QED
  BY <1>2, <1>3, <1>4, <1>5 DEF IInv

\* pop starts, finds nothing, or is cancelled.
LEMMA PopMovesStep ==
    ASSUME QueueAssumption, IInv, NEW t \in Poppers,
           StartPop(t) \/ TakeNothing(t) \/ CancelPop(t)
    PROVE  IInv'
<1>1. /\ t \in Tasks /\ pc[t] \in {"idle", "try", "asleep"} /\ (pc[t] = "idle" => t \in handles)
      /\ \E s \in {"idle", "try", "check"} : pc' = [pc EXCEPT ![t] = s]
      /\ seen' = seen \/ seen' = [seen EXCEPT ![t] = 0]
      /\ UNCHANGED <<side, handles, deque, epoch, dropped, wakers, waitsFor, ack, accepted, fate>>
  BY DEF StartPop, TakeNothing, CancelPop, Idle, cellVars, Tasks
<1>2. PICK s \in {"idle", "try", "check"} : pc' = [pc EXCEPT ![t] = s]
  BY <1>1
<1>3. TypeOK'
  BY <1>1, <1>2 DEF IInv, TypeOK, PcStates
<1>4. /\ pc'[t] = s /\ seen' \in [Tasks -> Nat] /\ seen'[t] \in {seen[t], 0}
      /\ \A u \in Tasks : u # t => pc'[u] = pc[u] /\ seen'[u] = seen[u]
  BY <1>1, <1>2 DEF IInv, TypeOK
<1>5. Owned'
  BY <1>1, <1>4 DEF IInv, Owned
<1>6. SeenIsPast'
  <2>1. ASSUME NEW u \in Tasks
        PROVE  /\ seen'[u] <= epoch'
               /\ dropped' /\ pc'[u] \in {"poll", "asleep"} => seen'[u] < epoch'
    <3>1. CASE u = t
      BY <1>1, <1>2, <1>4, <3>1 DEF IInv, TypeOK, SeenIsPast
    <3>2. CASE u # t
      BY <1>1, <1>4, <3>2 DEF IInv, SeenIsPast
    <3>3. QED
      BY <3>1, <3>2
  <2>2. QED
    BY <2>1 DEF SeenIsPast
<1>7. NoMissedWakeup'
  BY <1>1, <1>4 DEF IInv, TypeOK, NoMissedWakeup, Tasks
<1>8. InOrder' /\ FateAgrees'
  BY <1>1 DEF IInv, InOrder, FateAgrees
<1>9. AckAgrees'
  <2>1. \A p \in Pushers : pc'[p] = "ack" <=> pc[p] = "ack"
    BY <1>1, <1>4 DEF Tasks
  <2>2. QED
    BY <1>1, <2>1, AcksUntouched
<1>10. QED
  BY <1>3, <1>5, <1>6, <1>7, <1>8, <1>9 DEF IInv

LEMMA AwaitChangeStep ==
    ASSUME QueueAssumption, IInv, NEW t \in Poppers, AwaitChange(t)
    PROVE  IInv'
<1>1. /\ t \in Tasks /\ pc[t] = "check"
      /\ UNCHANGED <<side, handles, deque, epoch, dropped, wakers, waitsFor, ack, accepted, fate>>
  BY DEF AwaitChange, cellVars, Tasks
<1>2. \/ dropped /\ pc' = [pc EXCEPT ![t] = "idle"] /\ seen' = seen
      \/ ~dropped /\ pc' = [pc EXCEPT ![t] = "poll"] /\ seen' = [seen EXCEPT ![t] = epoch]
  BY DEF AwaitChange
<1>3. TypeOK'
  BY <1>1, <1>2 DEF IInv, TypeOK, PcStates
<1>4. Owned' /\ NoMissedWakeup'
  BY <1>1, <1>2 DEF IInv, TypeOK, Owned, NoMissedWakeup, Tasks
<1>5. SeenIsPast'
  <2>1. epoch \in Nat /\ pc \in [Tasks -> PcStates] /\ seen \in [Tasks -> Nat]
    BY DEF IInv, TypeOK
  <2>2. QED
    BY <1>1, <1>2, <2>1 DEF IInv, SeenIsPast
<1>6. InOrder' /\ FateAgrees'
  BY <1>1 DEF IInv, InOrder, FateAgrees
<1>7. AckAgrees'
  <2>1. \A p \in Pushers : pc'[p] = "ack" <=> pc[p] = "ack"
    BY <1>1, <1>2 DEF IInv, TypeOK, Tasks
  <2>2. QED
    BY <1>1, <2>1, AcksUntouched
<1>8. QED
  BY <1>3, <1>4, <1>5, <1>6, <1>7 DEF IInv

\* A poll that registers its waker has seen the last epoch of an open cell: the one
\* place where the two critical sections of an await meet.
LEMMA PollStep ==
    ASSUME QueueAssumption, IInv, NEW t \in Poppers, Poll(t)
    PROVE  IInv'
<1>1. /\ t \in Tasks /\ pc[t] \in {"poll", "asleep"}
      /\ UNCHANGED <<side, handles, deque, epoch, dropped, waitsFor, ack, accepted, fate>>
  BY DEF Poll, Runnable, Register, cellVars, Tasks
<1>2. epoch \in Nat /\ pc \in [Tasks -> PcStates] /\ seen \in [Tasks -> Nat]
  BY DEF IInv, TypeOK
<1>3. \/ /\ pc' = [pc EXCEPT ![t] = "try"] /\ seen' = [seen EXCEPT ![t] = 0]
         /\ wakers' = wakers
      \/ /\ ~(epoch > seen[t])
         /\ pc' = [pc EXCEPT ![t] = "asleep"] /\ seen' = seen
         /\ wakers' = wakers \cup {t}
  BY DEF Poll, Changed, Register, cellVars
<1>4. TypeOK'
  <2>1. pc' \in [Tasks -> PcStates] /\ seen' \in [Tasks -> Nat]
    BY <1>1, <1>2, <1>3 DEF PcStates
  <2>2. wakers' \subseteq Poppers
    BY <1>3 DEF IInv, TypeOK
  <2>3. QED
    BY <1>1, <2>1, <2>2 DEF IInv, TypeOK
<1>5. Owned'
  BY <1>1, <1>2, <1>3 DEF IInv, Owned
<1>6. SeenIsPast'
  <2>1. CASE pc' = [pc EXCEPT ![t] = "try"] /\ seen' = [seen EXCEPT ![t] = 0]
    BY <1>1, <1>2, <2>1 DEF IInv, SeenIsPast
  <2>2. CASE ~(epoch > seen[t]) /\ pc' = [pc EXCEPT ![t] = "asleep"] /\ seen' = seen
    BY <1>1, <1>2, <2>2 DEF IInv, SeenIsPast
  <2>3. QED
    BY <1>3, <2>1, <2>2
<1>7. NoMissedWakeup'
  <2>1. CASE pc' = [pc EXCEPT ![t] = "try"] /\ seen' = [seen EXCEPT ![t] = 0] /\ wakers' = wakers
    BY <1>1, <1>2, <2>1 DEF IInv, TypeOK, NoMissedWakeup, Tasks
  <2>2. CASE /\ ~(epoch > seen[t])
             /\ pc' = [pc EXCEPT ![t] = "asleep"] /\ seen' = seen
             /\ wakers' = wakers \cup {t}
    <3>1. ~dropped /\ seen[t] = epoch
      BY <1>1, <1>2, <2>2 DEF IInv, SeenIsPast
    <3>2. \A u \in wakers : pc[u] = "asleep" => ~dropped /\ seen[u] = epoch
      BY DEF IInv, NoMissedWakeup
    <3>3. ASSUME NEW u \in wakers', pc'[u] = "asleep" PROVE ~dropped' /\ seen'[u] = epoch'
      BY <1>1, <1>2, <2>2, <3>1, <3>2, <3>3
    <3>4. QED
      BY <3>3 DEF NoMissedWakeup
  <2>3. QED
    BY <1>3, <2>1, <2>2
<1>8. InOrder' /\ FateAgrees'
  BY <1>1 DEF IInv, InOrder, FateAgrees
<1>9. AckAgrees'
  <2>1. \A p \in Pushers : pc'[p] = "ack" <=> pc[p] = "ack"
    BY <1>1, <1>2, <1>3 DEF Tasks
  <2>2. QED
    BY <1>1, <2>1, AcksUntouched
<1>10. QED
  BY <1>4, <1>5, <1>6, <1>7, <1>8, <1>9 DEF IInv

LEMMA TakeFrontStep ==
    ASSUME QueueAssumption, IInv, NEW t \in Poppers, TakeFront(t)
    PROVE  IInv'
<1> DEFINE front == Head(deque)
<1>1. /\ t \in Tasks /\ pc[t] = "try" /\ deque # <<>>
      /\ epoch' = epoch + 1 /\ wakers' = {} /\ dropped' = dropped
      /\ deque' = Tail(deque)
      /\ fate' = [fate EXCEPT ![front.item] = "popped"]
      /\ ack' = Resolve({front}, "ok")
      /\ pc' = [pc EXCEPT ![t] = "idle"]
      /\ UNCHANGED <<side, handles, seen, waitsFor, accepted>>
  BY DEF TakeFront, Update, Notify, Tasks
<1>2. /\ deque \in Seq(Entry) /\ accepted \in Nat /\ epoch \in Nat
      /\ pc \in [Tasks -> PcStates] /\ seen \in [Tasks -> Nat]
      /\ fate \in [Numbers -> Fates] /\ ack \in [Pushers -> AckStates]
  BY DEF IInv, TypeOK, QueueAssumption
<1>3. /\ Len(deque) \in Nat /\ Len(deque) > 0 /\ front = deque[1] /\ front \in Entry
      /\ deque' \in Seq(Entry) /\ Len(deque') = Len(deque) - 1
      /\ \A k \in 1..Len(deque') : k + 1 \in 1..Len(deque) /\ deque'[k] = deque[k + 1]
  BY <1>1, <1>2
<1>4. front.item \in Numbers /\ front.item = accepted - Len(deque) + 1
  <2>1. front.item \in Numbers
    BY <1>3 DEF Entry
  <2>2. 1 \in 1..Len(deque)
    BY <1>3
  <2>3. QED
    BY <1>3, <2>1, <2>2 DEF IInv, InOrder
<1>5. TypeOK'
  <2>1. pc' \in [Tasks -> PcStates]
    BY <1>1, <1>2 DEF PcStates
  <2>2. fate' \in [Numbers -> Fates]
    BY <1>1, <1>2 DEF Fates
  <2>3. ack' \in [Pushers -> AckStates]
    BY <1>1, <1>2 DEF Resolve, AckStates
  <2>4. epoch' \in Nat /\ wakers' \subseteq Poppers /\ deque' \in Seq(Entry)
    BY <1>1, <1>2, <1>3
  <2>5. /\ side' \in Layouts /\ handles' \subseteq Tasks /\ dropped' \in BOOLEAN
        /\ seen' \in [Tasks -> Nat] /\ waitsFor' \in [Pushers -> 0..MaxItems]
        /\ accepted' \in 0..MaxItems
    BY <1>1 DEF IInv, TypeOK
  <2>6. QED
    BY <2>1, <2>2, <2>3, <2>4, <2>5 DEF TypeOK
<1>6. Owned' /\ SeenIsPast' /\ NoMissedWakeup'
  <2>1. Owned'
    BY <1>1, <1>2 DEF IInv, Owned
  <2>2. SeenIsPast'
    BY <1>1, <1>2 DEF IInv, SeenIsPast
  <2>3. NoMissedWakeup'
    BY <1>1 DEF NoMissedWakeup
  <2>4. QED
    BY <2>1, <2>2, <2>3
<1>7. InOrder'
  <2>1. Len(deque) <= accepted
    BY DEF IInv, InOrder
  <2>2. ASSUME NEW k \in 1..Len(deque')
        PROVE  deque'[k].item = accepted' - Len(deque') + k
    <3>1. deque[k + 1].item = accepted - Len(deque) + (k + 1)
      BY <1>3 DEF IInv, InOrder
    <3>2. k \in Nat
      BY <1>3
    <3>3. deque'[k].item = accepted - Len(deque) + (k + 1)
      BY <1>3, <3>1
    <3>4. accepted - Len(deque) + (k + 1) = accepted' - Len(deque') + k
      BY <1>1, <1>2, <1>3, <3>2
    <3>5. QED
      BY <3>3, <3>4
  <2>3. QED
    BY <1>1, <1>2, <1>3, <2>1, <2>2 DEF InOrder
<1>8. FateAgrees'
  <2>1. Len(deque) <= accepted
    BY DEF IInv, InOrder
  <2>2. ASSUME NEW i \in Numbers
        PROVE  /\ fate'[i] = "new" <=> accepted' < i
               /\ fate'[i] = "queued" <=> accepted' - Len(deque') < i /\ i <= accepted'
    <3>1. /\ fate[i] = "new" <=> accepted < i
          /\ fate[i] = "queued" <=> accepted - Len(deque) < i /\ i <= accepted
      BY DEF IInv, FateAgrees
    <3>2. i \in Nat
      BY DEF Numbers
    <3>3. CASE i = front.item
      <4>1. fate'[i] = "popped" /\ i = accepted - Len(deque) + 1
        BY <1>1, <1>2, <1>4, <3>3
      <4>2. ~(accepted' < i) /\ ~(accepted' - Len(deque') < i)
        BY <1>1, <1>2, <1>3, <2>1, <4>1
      <4>3. QED
        BY <4>1, <4>2
    <3>4. CASE i # front.item
      <4>1. fate'[i] = fate[i]
        BY <1>1, <1>2, <3>4
      <4>2. (accepted - Len(deque) < i) <=> (accepted' - Len(deque') < i)
        <5>1. accepted' = accepted /\ Len(deque') = Len(deque) - 1 /\ Len(deque) \in Nat
          BY <1>1, <1>3
        <5>2. i # accepted - Len(deque) + 1
          BY <1>4, <3>4
        <5>3. QED
          BY <1>2, <3>2, <5>1, <5>2
      <4>3. accepted' = accepted
        BY <1>1
      <4>4. QED
        BY <3>1, <4>1, <4>2, <4>3
    <3>5. QED
      BY <3>3, <3>4
  <2>3. QED
    BY <2>2 DEF FateAgrees
<1>9. ASSUME NEW p \in Pushers PROVE AckOf(p)'
  <2>1. AckOf(p) /\ (pc'[p] = "ack" <=> pc[p] = "ack") /\ waitsFor'[p] = waitsFor[p]
    BY <1>1, <1>2 DEF IInv, AckAgrees, Tasks
  <2>2. CASE ack[p] = "pending" /\ front = [item |-> waitsFor[p], waiter |-> p]
    <3>1. ack'[p] = "ok" /\ front.item = waitsFor[p]
      BY <1>1, <2>2 DEF Resolve
    <3>2. fate'[waitsFor[p]] = "popped"
      BY <1>1, <1>2, <1>4, <3>1
    <3>3. QED
      BY <2>1, <2>2, <3>1, <3>2 DEF AckOf
  <2>3. CASE ~(ack[p] = "pending" /\ front = [item |-> waitsFor[p], waiter |-> p])
    <3>1. ack'[p] = ack[p]
      BY <1>1, <2>3 DEF Resolve
    <3>2. ASSUME ack[p] = "pending"
          PROVE  \E j \in 1..Len(deque') : deque'[j] = [item |-> waitsFor[p], waiter |-> p]
      <4>1. PICK k \in 1..Len(deque) : deque[k] = [item |-> waitsFor[p], waiter |-> p]
        BY <2>1, <3>2 DEF AckOf
      <4>2. k # 1
        BY <1>3, <2>3, <3>2, <4>1
      <4>3. k - 1 \in 1..Len(deque') /\ (k - 1) + 1 = k
        BY <1>3, <4>2
      <4>4. deque'[k - 1] = deque[k]
        BY <1>3, <4>3
      <4>5. QED
        BY <4>1, <4>3, <4>4
    <3>3. fate[front.item] = "queued"
      BY <1>2, <1>3, <1>4 DEF IInv, FateAgrees, InOrder
    <3>4. \A i \in Numbers : fate[i] \in {"popped", "returned"} => fate'[i] = fate[i]
      BY <1>1, <1>2, <3>3
    <3>5. QED
      BY <2>1, <3>1, <3>2, <3>4 DEF AckOf
  <2>4. QED
    BY <2>2, <2>3
<1>10. QED
  BY <1>5, <1>6, <1>7, <1>8, <1>9 DEF IInv, AckAgrees

\* The deque is emptied and every queued entry meets the fate f.
LEMMA EmptiedKeepsOrder ==
    ASSUME QueueAssumption, IInv, NEW f \in {"returned", "freed"},
           deque' = <<>>, accepted' = accepted, fate' = AllQueuedTo(f)
    PROVE  InOrder' /\ FateAgrees' /\ fate' \in [Numbers -> Fates] /\ deque' \in Seq(Entry)
<1>1. accepted \in Nat /\ fate \in [Numbers -> Fates] /\ deque \in Seq(Entry)
  BY DEF IInv, TypeOK, QueueAssumption
<1>2. Len(deque') = 0 /\ deque' \in Seq(Entry)
  OBVIOUS
<1>3. InOrder'
  BY <1>1, <1>2 DEF InOrder
<1>4. fate' \in [Numbers -> Fates]
  BY <1>1 DEF AllQueuedTo, Fates
<1>5. ASSUME NEW i \in Numbers
      PROVE  (fate'[i] = "new" <=> accepted < i) /\ fate'[i] # "queued"
  BY DEF IInv, FateAgrees, AllQueuedTo
<1>6. FateAgrees'
  BY <1>1, <1>2, <1>5 DEF FateAgrees, Numbers
<1>7. QED
  BY <1>2, <1>3, <1>4, <1>6

LEMMA CloseDrainStep ==
    ASSUME QueueAssumption, IInv, NEW t \in Poppers, CloseDrain(t)
    PROVE  IInv'
<1>1. /\ t \in Tasks /\ t \in handles /\ pc[t] = "idle"
      /\ pc' = [pc EXCEPT ![t] = "closing"]
      /\ UNCHANGED <<side, handles, seen, waitsFor, accepted>>
  BY DEF CloseDrain, Idle, Tasks
<1>2. \/ /\ deque' = <<>> /\ epoch' = epoch + 1 /\ wakers' = {} /\ dropped' = dropped
         /\ fate' = AllQueuedTo("returned")
         /\ ack' = Resolve(ToSet(deque), "canceled")
      \/ UNCHANGED <<deque, epoch, dropped, wakers, fate, ack>>
  BY DEF CloseDrain, Update, Notify, cellVars
<1>3. pc \in [Tasks -> PcStates] /\ epoch \in Nat /\ ack \in [Pushers -> AckStates]
  BY DEF IInv, TypeOK
<1>4. pc' \in [Tasks -> PcStates] /\ \A p \in Pushers : pc'[p] = "ack" <=> pc[p] = "ack"
  BY <1>1, <1>3 DEF PcStates, Tasks
<1>5. Owned'
  BY <1>1, <1>3 DEF IInv, Owned
<1>6. CASE UNCHANGED <<deque, epoch, dropped, wakers, fate, ack>>
  <2>1. TypeOK' /\ InOrder' /\ FateAgrees'
    BY <1>1, <1>4, <1>6 DEF IInv, TypeOK, InOrder, FateAgrees
  <2>2. SeenIsPast' /\ NoMissedWakeup'
    BY <1>1, <1>3, <1>6 DEF IInv, TypeOK, SeenIsPast, NoMissedWakeup, Tasks
  <2>3. AckAgrees'
    BY <1>1, <1>4, <1>6, AcksUntouched
  <2>4. QED
    BY <1>5, <2>1, <2>2, <2>3 DEF IInv
<1>7. CASE /\ deque' = <<>> /\ epoch' = epoch + 1 /\ wakers' = {} /\ dropped' = dropped
           /\ fate' = AllQueuedTo("returned")
           /\ ack' = Resolve(ToSet(deque), "canceled")
  <2>1. InOrder' /\ FateAgrees' /\ fate' \in [Numbers -> Fates] /\ deque' \in Seq(Entry)
    BY <1>1, <1>7, EmptiedKeepsOrder
  <2>2. ack' \in [Pushers -> AckStates]
    BY <1>3, <1>7 DEF Resolve, AckStates
  <2>3. TypeOK'
    <3>1. epoch' \in Nat /\ wakers' \subseteq Poppers
      BY <1>3, <1>7
    <3>2. /\ side' \in Layouts /\ handles' \subseteq Tasks /\ dropped' \in BOOLEAN
          /\ seen' \in [Tasks -> Nat] /\ waitsFor' \in [Pushers -> 0..MaxItems]
          /\ accepted' \in 0..MaxItems
      BY <1>1, <1>7 DEF IInv, TypeOK
    <3>3. QED
      BY <1>4, <2>1, <2>2, <3>1, <3>2 DEF TypeOK
  <2>4. SeenIsPast' /\ NoMissedWakeup'
    BY <1>1, <1>3, <1>7 DEF IInv, TypeOK, SeenIsPast, NoMissedWakeup
  <2>5. ASSUME NEW p \in Pushers PROVE AckOf(p)'
    <3>1. AckOf(p) /\ (pc'[p] = "ack" <=> pc[p] = "ack") /\ waitsFor'[p] = waitsFor[p]
      BY <1>1, <1>4 DEF IInv, AckAgrees
    <3>2. CASE ack[p] = "pending"
      <4>1. PICK k \in 1..Len(deque) : deque[k] = [item |-> waitsFor[p], waiter |-> p]
        BY <3>1, <3>2 DEF AckOf
      <4>2. [item |-> waitsFor[p], waiter |-> p] \in ToSet(deque)
        BY <4>1 DEF ToSet, IInv, TypeOK
      <4>3. ack'[p] = "canceled"
        BY <1>7, <3>2, <4>2 DEF Resolve
      <4>4. waitsFor[p] \in Numbers /\ waitsFor[p] = accepted - Len(deque) + k
        BY <3>1, <3>2, <4>1 DEF AckOf, IInv, InOrder
      <4>5. fate[waitsFor[p]] = "queued"
        <5>1. accepted \in Nat /\ Len(deque) \in Nat /\ Len(deque) <= accepted
          BY DEF IInv, TypeOK, InOrder, QueueAssumption
        <5>2. accepted - Len(deque) < waitsFor[p] /\ waitsFor[p] <= accepted
          BY <4>1, <4>4, <5>1
        <5>3. QED
          BY <4>4, <5>2 DEF IInv, FateAgrees
      <4>6. fate'[waitsFor'[p]] = "returned"
        BY <1>7, <3>1, <4>4, <4>5 DEF AllQueuedTo
      <4>7. QED
        BY <3>1, <3>2, <4>3, <4>6 DEF AckOf
    <3>3. CASE ack[p] # "pending"
      <4>1. ack'[p] = ack[p]
        BY <1>7, <3>3 DEF Resolve
      <4>2. \A i \in Numbers : fate[i] \in {"popped", "returned"} => fate'[i] = fate[i]
        BY <1>7 DEF AllQueuedTo
      <4>3. QED
        BY <3>1, <3>3, <4>1, <4>2 DEF AckOf
    <3>4. QED
      BY <3>2, <3>3
  <2>6. QED
    BY <1>5, <2>1, <2>3, <2>4, <2>5 DEF IInv, AckAgrees
<1>8. QED
  BY <1>2, <1>6, <1>7

\* What a released handle does to the cell: its side may close, and with the last
\* handle of all the cell is freed.
LEMMA ReleaseEffect ==
    ASSUME NEW t \in Tasks, Release(t)
    PROVE  /\ handles' = handles \ {t}
           /\ \/ dropped' = TRUE /\ epoch' = epoch + 1 /\ wakers' = {}
              \/ handles' # {} /\ UNCHANGED <<epoch, dropped, wakers>>
           /\ \/ handles' = {} /\ deque' = <<>> /\ fate' = AllQueuedTo("freed")
              \/ UNCHANGED <<deque, fate>>
BY DEF Release, CloseSide, Notify

\* A handle goes while its owner is outside every operation of the queue; a waiter
\* that is still pending keeps the queue from being freed with its own handle.
LEMMA ReleaseStep ==
    ASSUME QueueAssumption, IInv, NEW t \in Tasks, Release(t),
           pc[t] \in {"idle", "closing"}, pc' = [pc EXCEPT ![t] = "idle"],
           UNCHANGED <<side, seen, waitsFor, ack, accepted>>
    PROVE  IInv'
<1>1. /\ pc \in [Tasks -> PcStates] /\ epoch \in Nat /\ seen \in [Tasks -> Nat]
      /\ handles \subseteq Tasks
  BY DEF IInv, TypeOK
<1>2. /\ pc' \in [Tasks -> PcStates] /\ pc'[t] = "idle"
      /\ \A u \in Tasks : u # t => pc'[u] = pc[u]
      /\ \A p \in Pushers : pc'[p] = "ack" <=> pc[p] = "ack"
  BY <1>1 DEF PcStates, Tasks
<1>3. Owned'
  BY <1>2, ReleaseEffect DEF IInv, Owned
<1>4. InOrder' /\ FateAgrees' /\ fate' \in [Numbers -> Fates] /\ deque' \in Seq(Entry)
  <2>1. CASE deque' = <<>> /\ fate' = AllQueuedTo("freed")
    BY <2>1, EmptiedKeepsOrder
  <2>2. CASE UNCHANGED <<deque, fate>>
    BY <2>2 DEF IInv, TypeOK, InOrder, FateAgrees
  <2>3. QED
    BY <2>1, <2>2, ReleaseEffect
<1>5. TypeOK'
  <2>1. epoch' \in Nat /\ wakers' \subseteq Poppers /\ dropped' \in BOOLEAN
    <3>1. CASE dropped' = TRUE /\ epoch' = epoch + 1 /\ wakers' = {}
      BY <1>1, <3>1
    <3>2. CASE UNCHANGED <<epoch, dropped, wakers>>
      BY <3>2 DEF IInv, TypeOK
    <3>3. QED
      BY <3>1, <3>2, ReleaseEffect
  <2>2. handles' \subseteq Tasks
    BY <1>1, ReleaseEffect
  <2>3. /\ side' \in Layouts /\ seen' \in [Tasks -> Nat]
        /\ waitsFor' \in [Pushers -> 0..MaxItems] /\ ack' \in [Pushers -> AckStates]
        /\ accepted' \in 0..MaxItems
    BY DEF IInv, TypeOK
  <2>4. QED
    BY <1>2, <1>4, <2>1, <2>2, <2>3 DEF TypeOK
<1>6. SeenIsPast' /\ NoMissedWakeup'
  <2>1. CASE dropped' = TRUE /\ epoch' = epoch + 1 /\ wakers' = {}
    BY <1>1, <2>1 DEF IInv, SeenIsPast, NoMissedWakeup
  <2>2. CASE UNCHANGED <<epoch, dropped, wakers>>
    <3>1. SeenIsPast'
      BY <1>1, <1>2, <2>2 DEF IInv, SeenIsPast
    <3>2. NoMissedWakeup'
      BY <1>2, <2>2 DEF IInv, TypeOK, NoMissedWakeup, Tasks
    <3>3. QED
      BY <3>1, <3>2
  <2>3. QED
    BY <2>1, <2>2, ReleaseEffect
<1>7. ASSUME NEW p \in Pushers PROVE AckOf(p)'
  <2>1. AckOf(p) /\ (pc'[p] = "ack" <=> pc[p] = "ack") /\ waitsFor'[p] = waitsFor[p]
        /\ ack'[p] = ack[p]
    BY <1>2 DEF IInv, AckAgrees
  <2>2. CASE handles' = {}
    <3>1. pc'[p] = "idle"
      BY <1>3, <1>2, <2>2 DEF Owned, Tasks
    <3>2. QED
      BY <2>1, <3>1 DEF AckOf
  <2>3. CASE UNCHANGED <<deque, fate>>
    BY <2>1, <2>3 DEF AckOf
  <2>4. QED
    BY <2>2, <2>3, ReleaseEffect
<1>8. QED
  BY <1>3, <1>4, <1>5, <1>6, <1>7 DEF IInv, AckAgrees

-----------------------------------------------------------------------------
LEMMA StepIInv ==
    ASSUME QueueAssumption, IInv, [Next]_vars
    PROVE  IInv'
<1>1. ASSUME NEW p \in Pushers, Push(p) \/ PushAndWait(p) \/ WaitReturns(p) \/ CancelWait(p)
      PROVE  IInv'
  BY <1>1, PushStep, PushAndWaitStep, LeaveWaitStep DEF WaitReturns, CancelWait
<1>2. ASSUME NEW t \in Poppers, StartPop(t) \/ PopStep(t) \/ CancelPop(t)
      PROVE  IInv'
  BY <1>2, PopMovesStep, TakeFrontStep, AwaitChangeStep, PollStep DEF PopStep
<1>3. ASSUME NEW t \in Poppers, CloseDrain(t)
      PROVE  IInv'
  BY <1>3, CloseDrainStep
<1>4. ASSUME NEW t \in Poppers, CloseRelease(t)
      PROVE  IInv'
  BY <1>4, ReleaseStep DEF CloseRelease, Tasks
<1>5. ASSUME NEW t \in Tasks, DropHandle(t)
      PROVE  IInv'
  <2>1. pc[t] = "idle" /\ pc' = pc /\ pc \in [Tasks -> PcStates]
    BY <1>5 DEF DropHandle, Idle, IInv, TypeOK
  <2>2. pc' = [pc EXCEPT ![t] = "idle"]
    BY <2>1
  <2>3. QED
    BY <1>5, <2>1, <2>2, ReleaseStep DEF DropHandle
<1>6. CASE UNCHANGED vars
  BY <1>6 DEF vars, cellVars, IInv, TypeOK, Owned, InOrder, FateAgrees, AckAgrees,
              AckOf, SeenIsPast, NoMissedWakeup
<1>7. QED
  BY <1>1, <1>2, <1>3, <1>4, <1>5, <1>6 DEF Next

\* The invariant of the queue, from the assumption on the constants alone.
THEOREM InvariantHolds == Spec => []IInv
<1>1. Init => IInv
  BY InitIInv, QueueAssumption
<1>2. IInv /\ [Next]_vars => IInv'
  BY StepIInv, QueueAssumption
<1>3. QED
  BY <1>1, <1>2, PTL DEF Spec

\* Every variable of the queue keeps its type.
THEOREM TypeCorrect == Spec => []TypeOK
<1>1. IInv => TypeOK
  BY DEF IInv
<1>2. QED
  BY <1>1, InvariantHolds, PTL

\* No future built on State sleeps through a change: a registered waker belongs to a
\* task that has seen the last epoch of an open cell.
THEOREM NoNotificationIsMissed == Spec => []NoMissedWakeup
<1>1. IInv => NoMissedWakeup
  BY DEF IInv
<1>2. QED
  BY <1>1, InvariantHolds, PTL

\* push_and_wait_until_popped returns Ok only for an entry that was popped, Err only
\* for one that close handed back, and neither while the entry is queued.
THEOREM AcknowledgementIsTrue == Spec => []AckMeansPopped
<1>1. ASSUME IInv PROVE AckMeansPopped
  <2>1. ASSUME NEW p \in Pushers, ack[p] = "pending" PROVE fate[waitsFor[p]] = "queued"
    <3>1. AckOf(p)
      BY <1>1 DEF IInv, AckAgrees
    <3>2. PICK k \in 1..Len(deque) : deque[k] = [item |-> waitsFor[p], waiter |-> p]
      BY <2>1, <3>1 DEF AckOf
    <3>3. waitsFor[p] \in Numbers /\ waitsFor[p] = accepted - Len(deque) + k
      BY <1>1, <2>1, <3>1, <3>2 DEF AckOf, IInv, InOrder
    <3>4. accepted \in Nat /\ Len(deque) \in Nat /\ Len(deque) <= accepted
      BY <1>1, QueueAssumption DEF IInv, TypeOK, InOrder, QueueAssumption
    <3>5. accepted - Len(deque) < waitsFor[p] /\ waitsFor[p] <= accepted
      BY <3>2, <3>3, <3>4
    <3>6. QED
      BY <1>1, <3>3, <3>5 DEF IInv, FateAgrees
  <2>2. ASSUME NEW p \in Pushers
        PROVE  /\ ack[p] = "ok" => fate[waitsFor[p]] = "popped"
               /\ ack[p] = "canceled" => fate[waitsFor[p]] = "returned"
    BY <1>1 DEF IInv, AckAgrees, AckOf
  <2>3. QED
    BY <2>1, <2>2 DEF AckMeansPopped
<1>2. QED
  BY <1>1, InvariantHolds, PTL

-----------------------------------------------------------------------------
\* A pop takes the oldest of the entries that are queued.
LEMMA TakeFrontPopsOldest ==
    ASSUME QueueAssumption, IInv, NEW t \in Poppers, TakeFront(t)
    PROVE  Fifo!PopOldest
<1> DEFINE front == Head(deque)
<1>1. /\ deque # <<>> /\ ~dropped /\ fate' = [fate EXCEPT ![front.item] = "popped"]
      /\ UNCHANGED <<accepted, dropped>>
  BY DEF TakeFront, Update, Writable
<1>2. /\ accepted \in Nat /\ Len(deque) \in Nat /\ Len(deque) > 0 /\ Len(deque) <= accepted
      /\ front = deque[1] /\ front \in Entry /\ 1 \in 1..Len(deque)
  BY <1>1 DEF IInv, TypeOK, InOrder, QueueAssumption
<1>3. front.item \in Numbers /\ front.item = accepted - Len(deque) + 1
  <2>1. front.item \in Numbers
    BY <1>2 DEF Entry
  <2>2. QED
    BY <1>2, <2>1 DEF IInv, InOrder
<1>4. fate[front.item] = "queued"
  BY <1>2, <1>3 DEF IInv, FateAgrees
<1>5. ASSUME NEW j \in Numbers, fate[j] = "queued" PROVE front.item <= j
  <2>1. accepted - Len(deque) < j /\ j \in Nat
    BY <1>5 DEF IInv, FateAgrees, Numbers
  <2>2. QED
    BY <1>2, <1>3, <2>1
<1>6. QED
  BY <1>1, <1>3, <1>4, <1>5 DEF Fifo!PopOldest, Fifo!Queued, Fifo!Numbers, Numbers

LEMMA StepIsFifoStep ==
    ASSUME QueueAssumption, IInv, [Next]_vars
    PROVE  [Fifo!Next]_(Fifo!vars)
<1> USE DEF Fifo!Next, Fifo!vars
<1>1. ASSUME NEW w \in Pushers \cup {NoWaiter}, Enqueue(w)
      PROVE  Fifo!Accept
  BY <1>1 DEF Enqueue, Update, Writable, Fifo!Accept
<1>2. ASSUME NEW p \in Pushers, Push(p) \/ PushAndWait(p)
      PROVE  Fifo!Accept
  BY <1>1, <1>2 DEF Push, PushAndWait
<1>3. ASSUME NEW p \in Pushers, LeaveWait(p)
      PROVE  UNCHANGED Fifo!vars
  BY <1>3 DEF LeaveWait, cellVars
<1>4. ASSUME NEW t \in Poppers,
             StartPop(t) \/ TakeNothing(t) \/ AwaitChange(t) \/ Poll(t) \/ CancelPop(t)
      PROVE  UNCHANGED Fifo!vars
  BY <1>4 DEF StartPop, TakeNothing, AwaitChange, Poll, CancelPop, Register, cellVars
<1>5. ASSUME NEW t \in Poppers, CloseDrain(t)
      PROVE  Fifo!HandBack \/ UNCHANGED Fifo!vars
  BY <1>5 DEF CloseDrain, Update, Writable, cellVars, AllQueuedTo, Numbers,
              Fifo!HandBack, Fifo!AllQueuedTo, Fifo!Numbers
<1>6. ASSUME NEW t \in Tasks, Release(t), accepted' = accepted
      PROVE  Fifo!Shut \/ UNCHANGED Fifo!vars
  <2>1. CASE dropped' = TRUE
    BY <1>6, <2>1, ReleaseEffect
       DEF AllQueuedTo, Numbers, Fifo!Shut, Fifo!AllQueuedTo, Fifo!Numbers
  <2>2. CASE handles' # {} /\ UNCHANGED dropped
    BY <1>6, <2>2, ReleaseEffect
  <2>3. QED
    BY <1>6, <2>1, <2>2, ReleaseEffect
<1>7. ASSUME NEW t \in Tasks, DropHandle(t) \/ CloseRelease(t)
      PROVE  Fifo!Shut \/ UNCHANGED Fifo!vars
  BY <1>6, <1>7 DEF DropHandle, CloseRelease
<1>8. CASE UNCHANGED vars
  BY <1>8 DEF vars, cellVars
<1>9. CASE Next
  <2>1. ASSUME NEW p \in Pushers,
               Push(p) \/ PushAndWait(p) \/ WaitReturns(p) \/ CancelWait(p)
        PROVE  [Fifo!Next]_(Fifo!vars)
    BY <1>2, <1>3, <2>1 DEF WaitReturns, CancelWait
  <2>2. ASSUME NEW t \in Poppers, StartPop(t) \/ PopStep(t) \/ CancelPop(t)
        PROVE  [Fifo!Next]_(Fifo!vars)
    BY <1>4, <2>2, TakeFrontPopsOldest DEF PopStep
  <2>3. ASSUME NEW t \in Poppers, CloseDrain(t) \/ CloseRelease(t)
        PROVE  [Fifo!Next]_(Fifo!vars)
    BY <1>5, <1>7, <2>3 DEF Tasks
  <2>4. ASSUME NEW t \in Tasks, DropHandle(t)
        PROVE  [Fifo!Next]_(Fifo!vars)
    BY <1>7, <2>4
  <2>5. QED
    BY <1>9, <2>1, <2>2, <2>3, <2>4 DEF Next
<1>10. QED
  BY <1>8, <1>9

\* The queue is a closable FIFO: whatever its tasks do, its entries leave once,
\* oldest first, and none after it has been closed.
THEOREM QueueImplementsFifo == Spec => IsClosableFifo
<1>1. Init => Fifo!Init
  BY DEF Init, Fifo!Init, Numbers, Fifo!Numbers
<1>2. IInv /\ [Next]_vars => [Fifo!Next]_(Fifo!vars)
  BY StepIsFifoStep, QueueAssumption
<1>3. QED
  BY <1>1, <1>2, InvariantHolds, PTL DEF Spec, IsClosableFifo, Fifo!Spec
=============================================================================
