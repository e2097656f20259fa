------------------------------ MODULE MCTracks ------------------------------
(***************************************************************************)
(* Tracks.tla with one full track name, which is all that deduplication is *)
(* about, two subscribers and two tracks: one stale or served, one on      *)
(* its way.                                                                *)
(***************************************************************************)
EXTENDS Tracks
=============================================================================
