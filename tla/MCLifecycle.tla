---------------------------- MODULE MCLifecycle ----------------------------
(* One market that ships with the deployment and is steered, one that is   *)
(* registered at run time and retired, with room for a window to fill.     *)
EXTENDS Lifecycle

MCMaxTicks == [a \in Assets |-> IF a \in Catalogue THEN 1 ELSE 2]
=============================================================================
