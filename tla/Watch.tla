------------------------------- MODULE Watch -------------------------------
(***************************************************************************)
(* The shared cell State<T> of moq-transport/src/watch/state.rs.  The      *)
(* mutex of the cell makes each action one atomic step; what a caller does *)
(* between two of them is not atomic.                                      *)
(***************************************************************************)
EXTENDS Naturals

VARIABLES value,      \* what the cell holds
          epoch,      \* how many notifications there have been
          dropped,    \* TRUE once every handle of one side of the cell is gone
                      \*   (the code's Option<()>, inverted)
          wakers      \* the tasks to wake at the next notification

\* lock_mut() and into_mut() give a mutable reference only while neither side is gone.
Writable == ~dropped

\* Variant for mutation: the notification forgets to wake the registered tasks.
NotifyNobody == epoch' = epoch + 1 /\ UNCHANGED wakers

\* The epoch advances and every registered task is woken.
Notify == epoch' = epoch + 1 /\ wakers' = {}

\* A mutable reference is used and dropped.
Update(v) == value' = v /\ Notify /\ UNCHANGED dropped

\* Variant for mutation: the last handle goes without a notification.
CloseSideSilently == dropped' = TRUE /\ UNCHANGED <<epoch, wakers>>

\* The last handle of a side is dropped; what becomes of the value is the caller's.
CloseSide == dropped' = TRUE /\ Notify

\* A StateChanged future made at epoch e is ready once the epoch has moved on;
\* until then a poll registers the task's waker.
Changed(e) == epoch > e
Register(task) == wakers' = wakers \cup {task} /\ UNCHANGED <<value, epoch, dropped>>
=============================================================================
