-------------------------------- MODULE Queue --------------------------------
(***************************************************************************)
(* moq-transport/src/watch/queue.rs: the asynchronous queue by which       *)
(* readers request tracks, the session sends control messages, and the     *)
(* publisher and subscriber halves of a session receive subscriptions and  *)
(* announcements.  Tasks on several threads share one queue, each through  *)
(* a handle of its own; every step below is one critical section of the    *)
(* queue's mutex, one poll of a future or one drop of a handle.            *)
(***************************************************************************)
EXTENDS Naturals, Sequences, SequencesExt

CONSTANTS Pushers,     \* tasks that push
          Poppers,     \* tasks that pop, and may close the queue
          Layouts,     \* the ways handles are given to sides: [Tasks -> side]
          NoWaiter,    \* the notifier of an entry nobody waits for
          MaxItems     \* bound: entries accepted in a behaviour

Tasks == Pushers \cup Poppers
Numbers == 1..MaxItems

ASSUME QueueAssumption ==
    /\ NoWaiter \notin Tasks
    /\ MaxItems \in Nat
    /\ \A layout \in Layouts : DOMAIN layout = Tasks

VARIABLES
    side,       \* which side of the split each task's handle is on (fixed)
    handles,    \* tasks that still own a handle
    deque,      \* the State<VecDeque<(T, Option<Sender>)>>: its value, ...
    epoch,      \* ... its epoch,
    dropped,    \* ... whether a side of it is gone,
    wakers,     \* ... and the tasks registered for its next notification
    pc,         \* where each task is in the queue's code
    seen,       \* the epoch each task's StateChanged future was made at, else 0
    waitsFor,   \* the entry a push_and_wait_until_popped is about, 0 for none
    ack,        \* what the task's oneshot receiver sees
    accepted,   \* history: entries accepted so far, which also numbers them
    fate        \* history: where each entry is, or where it went

cellVars == <<deque, epoch, dropped, wakers>>
vars == <<side, handles, cellVars, pc, seen, waitsFor, ack, accepted, fate>>

INSTANCE Watch WITH value <- deque

Fates == {"new", "queued", "popped", "returned", "freed"}
Entry == [item : Numbers, waiter : Pushers \cup {NoWaiter}]
PcStates == {"idle", "try", "check", "poll", "asleep", "ack", "closing"}
AckStates == {"none", "pending", "ok", "canceled"}

Init ==
    /\ side \in Layouts
    /\ handles = Tasks
    /\ deque = <<>> /\ epoch = 0 /\ dropped = FALSE /\ wakers = {}
    /\ pc = [t \in Tasks |-> "idle"]
    /\ seen = [t \in Tasks |-> 0]
    /\ waitsFor = [p \in Pushers |-> 0]
    /\ ack = [p \in Pushers |-> "none"]
    /\ accepted = 0
    /\ fate = [i \in Numbers |-> "new"]

Idle(t) == t \in handles /\ pc[t] = "idle"

\* The fates after every entry still in the queue has met the fate f.
AllQueuedTo(f) ==
    [i \in Numbers |-> IF fate[i] = "queued" THEN f ELSE fate[i]]

\* An entry at the back, with the waiter its oneshot sender belongs to.
Enqueue(waiter) ==
    /\ Writable
    /\ accepted < MaxItems
    /\ accepted' = accepted + 1
    /\ fate' = [fate EXCEPT ![accepted + 1] = "queued"]
    /\ Update(Append(deque, [item |-> accepted + 1, waiter |-> waiter]))

\* push: on a closed queue the item goes back to the caller and nothing changes.
Push(p) ==
    /\ Idle(p)
    /\ Enqueue(NoWaiter)
    /\ UNCHANGED <<side, handles, pc, seen, waitsFor, ack>>

\* push_and_wait_until_popped, up to its await.
PushAndWait(p) ==
    /\ Idle(p)
    /\ Enqueue(p)
    /\ waitsFor' = [waitsFor EXCEPT ![p] = accepted + 1]
    /\ ack' = [ack EXCEPT ![p] = "pending"]
    /\ pc' = [pc EXCEPT ![p] = "ack"]
    /\ UNCHANGED <<side, handles, seen>>

\* The await of the oneshot returns, or its future is dropped before it does.
LeaveWait(p) ==
    /\ pc[p] = "ack"
    /\ waitsFor' = [waitsFor EXCEPT ![p] = 0]
    /\ ack' = [ack EXCEPT ![p] = "none"]
    /\ pc' = [pc EXCEPT ![p] = "idle"]
    /\ UNCHANGED <<side, handles, cellVars, seen, accepted, fate>>

WaitReturns(p) == ack[p] # "pending" /\ LeaveWait(p)
CancelWait(p) == ack[p] = "pending" /\ LeaveWait(p)

\* pop is called, or its loop turns.
StartPop(t) ==
    /\ Idle(t)
    /\ pc' = [pc EXCEPT ![t] = "try"]
    /\ UNCHANGED <<side, handles, cellVars, seen, waitsFor, ack, accepted, fate>>

\* What a oneshot sender that is used, or dropped unused, does to its receiver.
Resolve(entries, outcome) ==
    [p \in Pushers |->
        IF ack[p] = "pending" /\ [item |-> waitsFor[p], waiter |-> p] \in entries
        THEN outcome ELSE ack[p]]

\* Variant for mutation: the newest entry is popped.
TakeBack(t) ==
    /\ pc[t] = "try"
    /\ Writable
    /\ deque # <<>>
    /\ LET back == Last(deque) IN
          /\ fate' = [fate EXCEPT ![back.item] = "popped"]
          /\ ack' = Resolve({back}, "ok")
    /\ Update(Front(deque))
    /\ pc' = [pc EXCEPT ![t] = "idle"]
    /\ UNCHANGED <<side, handles, seen, waitsFor, accepted>>

\* Scope 1 of pop with an entry at the front of an open queue.
TakeFront(t) ==
    /\ pc[t] = "try"
    /\ Writable
    /\ deque # <<>>
    /\ LET front == Head(deque) IN
          /\ fate' = [fate EXCEPT ![front.item] = "popped"]
          /\ ack' = Resolve({front}, "ok")
    /\ Update(Tail(deque))
    /\ pc' = [pc EXCEPT ![t] = "idle"]
    /\ UNCHANGED <<side, handles, seen, waitsFor, accepted>>

\* Scope 1 of pop otherwise: into_mut() fails on a closed queue and pop returns
\* None, whatever is left in it; an empty queue sends pop to scope 2, unlocked.
TakeNothing(t) ==
    /\ pc[t] = "try"
    /\ pc' = [pc EXCEPT ![t] = IF deque = <<>> THEN "check" ELSE "idle"]
    /\ deque # <<>> => ~Writable
    /\ UNCHANGED <<side, handles, cellVars, seen, waitsFor, ack, accepted, fate>>

\* Scope 2 of pop: modified() fails on a closed queue and pop returns None.
AwaitChange(t) ==
    /\ pc[t] = "check"
    /\ IF dropped
       THEN /\ pc' = [pc EXCEPT ![t] = "idle"]
            /\ UNCHANGED seen
       ELSE /\ pc' = [pc EXCEPT ![t] = "poll"]
            /\ seen' = [seen EXCEPT ![t] = epoch]
    /\ UNCHANGED <<side, handles, cellVars, waitsFor, ack, accepted, fate>>

\* A task polls when it reaches its await and again after it has been woken.
Runnable(t) == pc[t] = "poll" \/ (pc[t] = "asleep" /\ t \notin wakers)

Poll(t) ==
    /\ Runnable(t)
    /\ IF Changed(seen[t])
       THEN /\ pc' = [pc EXCEPT ![t] = "try"]
            /\ seen' = [seen EXCEPT ![t] = 0]
            /\ UNCHANGED cellVars
       ELSE /\ pc' = [pc EXCEPT ![t] = "asleep"]
            /\ Register(t)
            /\ UNCHANGED seen
    /\ UNCHANGED <<side, handles, waitsFor, ack, accepted, fate>>

\* A select! drops the pop it has polled; the waker stays registered.
CancelPop(t) ==
    /\ pc[t] = "asleep"
    /\ pc' = [pc EXCEPT ![t] = "idle"]
    /\ seen' = [seen EXCEPT ![t] = 0]
    /\ UNCHANGED <<side, handles, cellVars, waitsFor, ack, accepted, fate>>

\* A handle goes.  The last one of its side closes the queue, the last one of
\* all frees it and what it still holds.
Release(t) ==
    LET left == handles \ {t} IN
    /\ handles' = left
    /\ IF \A u \in left : side[u] # side[t]
       THEN CloseSide
       ELSE UNCHANGED <<epoch, dropped, wakers>>
    /\ IF left = {}
       THEN deque' = <<>> /\ fate' = AllQueuedTo("freed")
       ELSE UNCHANGED <<deque, fate>>

DropHandle(t) ==
    /\ Idle(t)
    /\ Release(t)
    /\ UNCHANGED <<side, pc, seen, waitsFor, ack, accepted>>

\* Variant for mutation: the drained entries are acknowledged as popped.
CloseDrainAcknowledging(t) ==
    /\ Idle(t)
    /\ pc' = [pc EXCEPT ![t] = "closing"]
    /\ IF Writable
       THEN /\ Update(<<>>)
            /\ fate' = AllQueuedTo("returned")
            /\ ack' = Resolve(ToSet(deque), "ok")
       ELSE UNCHANGED <<cellVars, fate, ack>>
    /\ UNCHANGED <<side, handles, seen, waitsFor, accepted>>

\* close, first critical section: an open queue is drained, and the senders of
\* the entries are dropped with the pairs they were stored in.
CloseDrain(t) ==
    /\ Idle(t)
    /\ pc' = [pc EXCEPT ![t] = "closing"]
    /\ IF Writable
       THEN /\ Update(<<>>)
            /\ fate' = AllQueuedTo("returned")
            /\ ack' = Resolve(ToSet(deque), "canceled")
       ELSE UNCHANGED <<cellVars, fate, ack>>
    /\ UNCHANGED <<side, handles, seen, waitsFor, accepted>>

\* close, after the lock was released: its handle is dropped.
CloseRelease(t) ==
    /\ pc[t] = "closing"
    /\ Release(t)
    /\ pc' = [pc EXCEPT ![t] = "idle"]
    /\ UNCHANGED <<side, seen, waitsFor, ack, accepted>>

PopStep(t) ==
    TakeFront(t) \/ TakeNothing(t) \/ AwaitChange(t) \/ Poll(t)

Next ==
    \/ \E p \in Pushers : Push(p) \/ PushAndWait(p) \/ WaitReturns(p) \/ CancelWait(p)
    \/ \E t \in Poppers : StartPop(t) \/ PopStep(t) \/ CancelPop(t)
    \/ \E t \in Poppers : CloseDrain(t) \/ CloseRelease(t)
    \/ \E t \in Tasks : DropHandle(t)

Spec == Init /\ [][Next]_vars

\* The executor polls every task that is not asleep: nothing else is assumed, not
\* even that pop is called.
FairSpec ==
    /\ Spec
    /\ \A t \in Poppers : WF_vars(PopStep(t)) /\ WF_vars(CloseRelease(t))
    /\ \A p \in Pushers : WF_vars(WaitReturns(p))
-----------------------------------------------------------------------------
TypeOK ==
    /\ side \in Layouts
    /\ handles \subseteq Tasks
    /\ deque \in Seq(Entry) /\ epoch \in Nat /\ dropped \in BOOLEAN
    /\ wakers \subseteq Poppers
    /\ pc \in [Tasks -> PcStates]
    /\ seen \in [Tasks -> Nat]
    /\ waitsFor \in [Pushers -> 0..MaxItems]
    /\ ack \in [Pushers -> AckStates]
    /\ accepted \in 0..MaxItems
    /\ fate \in [Numbers -> Fates]

\* No lost notification: a task that sleeps with its waker registered has seen the
\* last change of the cell, and no task sleeps on a closed queue.  This is what
\* StateChanged::poll (state.rs:211) owes to every future built on State; the epoch
\* is captured in one critical section and the waker registered in a later one.
NoMissedWakeup ==
    \A t \in wakers :
        pc[t] = "asleep" => ~dropped /\ seen[t] = epoch

\* push_and_wait_until_popped (queue.rs:64) tells the truth: Ok only when its own
\* entry was popped, Err only when close handed that entry back, and while it waits
\* its entry has met neither fate.
AckMeansPopped ==
    \A p \in Pushers :
        /\ ack[p] = "ok" => fate[waitsFor[p]] = "popped"
        /\ ack[p] = "canceled" => fate[waitsFor[p]] = "returned"
        /\ ack[p] = "pending" => fate[waitsFor[p]] = "queued"

Fifo == INSTANCE ClosableFifo WITH closed <- dropped

\* The queue is a closable FIFO: exactly-once, oldest-first delivery, whatever the
\* interleaving of pushes, pops, closes and drops, and none after it is closed.
IsClosableFifo == Fifo!Spec

\* A pop that is under way when the queue closes returns: neither the notification
\* of StateDrop::drop (state.rs:253) nor the check in modified() leaves it asleep.
ClosedPopReturns ==
    \A t \in Poppers : dropped ~> (pc[t] \in {"idle", "closing"})

=============================================================================
