-------------------------- MODULE MCStateDirectory --------------------------
(* Instances of StateDirectory for TLC. *)
EXTENDS StateDirectory, TLC

CONSTANTS p1, p2

MCWorlds   == {{}, {"contended"}, {"power"}, {"restore"}}
MCRestored == {{"restore"}}
MCPowered  == {{"power"}}

Symmetry == Permutations({p1, p2})
=============================================================================
