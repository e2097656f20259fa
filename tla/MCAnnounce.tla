----------------------------- MODULE MCAnnounce -----------------------------
(***************************************************************************)
(* Announce.tla with one namespace, which is what announcements are keyed  *)
(* by on both ends, announced three times: a cancel or a drop that is for  *)
(* the first may meet the second, which is then a cause for the third.     *)
(***************************************************************************)
EXTENDS Announce
=============================================================================
