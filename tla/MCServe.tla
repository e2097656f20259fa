------------------------------ MODULE MCServe ------------------------------
(* The three modes of a track: a second subgroup, and the next group. *)
EXTENDS Serve

Arrivals == {<<0, 1>>, <<1, 0>>}
=============================================================================
