---------------------------- MODULE ClosableFifo ----------------------------
(***************************************************************************)
(* What watch::Queue promises to the tasks that share one: every entry     *)
(* that was accepted leaves the queue exactly once, oldest first, either   *)
(* to a pop, or handed back to the task that closes the queue, or freed    *)
(* with the queue; and from the moment the queue is closed nothing enters  *)
(* it and nothing is popped from it.  No task, handle, wake-up or lock     *)
(* appears here: Queue.tla has those, and implements this specification.   *)
(*                                                                         *)
(* Entries are numbered in the order they are accepted.                    *)
(***************************************************************************)
EXTENDS Naturals

CONSTANT MaxItems          \* bound: entries accepted in a behaviour

VARIABLES accepted,        \* how many entries have been accepted
          fate,            \* where each entry is, or where it went
          closed

vars == <<accepted, fate, closed>>

Fates == {"new", "queued", "popped", "returned", "freed"}
Numbers == 1..MaxItems
Queued == {i \in Numbers : fate[i] = "queued"}

\* The fates after every queued entry has met the fate f.
AllQueuedTo(f) ==
    [i \in Numbers |-> IF fate[i] = "queued" THEN f ELSE fate[i]]

Init ==
    /\ accepted = 0
    /\ fate = [i \in Numbers |-> "new"]
    /\ closed = FALSE

Accept ==
    /\ ~closed
    /\ accepted < MaxItems
    /\ accepted' = accepted + 1
    /\ fate' = [fate EXCEPT ![accepted + 1] = "queued"]
    /\ UNCHANGED closed

PopOldest ==
    /\ ~closed
    /\ \E i \in Queued :
          /\ \A j \in Queued : i <= j
          /\ fate' = [fate EXCEPT ![i] = "popped"]
    /\ UNCHANGED <<accepted, closed>>

HandBack ==
    /\ ~closed
    /\ fate' = AllQueuedTo("returned")
    /\ UNCHANGED <<accepted, closed>>

\* The queue closes; if nobody is left to reach it, it is freed with its entries.
Shut ==
    /\ closed' = TRUE
    /\ fate' \in {fate, AllQueuedTo("freed")}
    /\ UNCHANGED accepted

Next == Accept \/ PopOldest \/ HandBack \/ Shut

Spec == Init /\ [][Next]_vars
=============================================================================
