------------------------------ MODULE MCQueue ------------------------------
(***************************************************************************)
(* Queue.tla with two tasks that push and one or two that pop, and both    *)
(* ways the code hands out handles: a split queue, whose readers push from *)
(* one side to the single popper on the other (Tracks, the session's       *)
(* outgoing messages), and an unsplit one, whose clones are all on one     *)
(* side (unknown subscriptions, announcements).                            *)
(***************************************************************************)
EXTENDS Queue

MCLayouts ==
    { [t \in Tasks |-> IF t \in Poppers THEN "pop" ELSE "push"],
      [t \in Tasks |-> "one"] }
=============================================================================
