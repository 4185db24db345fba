----------------------------- MODULE MCVenuePass ----------------------------
(***************************************************************************)
(* VenuePass.tla for TLC.                                                  *)
(***************************************************************************)
EXTENDS VenuePass

=============================================================================
