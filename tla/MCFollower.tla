----------------------------- MODULE MCFollower -----------------------------
(***************************************************************************)
(* Follower.tla for TLC.                                                   *)
(***************************************************************************)
EXTENDS Follower

CONSTANTS f, g

=============================================================================
