---------------------------- MODULE MCWriterLock ----------------------------
(* Instances of WriterLock for TLC. *)
EXTENDS WriterLock, TLC

CONSTANTS p1, p2, p3
=============================================================================
