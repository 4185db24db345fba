----------------------------- MODULE MCFailover -----------------------------
\* Failover with two nodes.  The code's catch-up bound and lease term are equal,
\* fifteen seconds; here both are two or three units of time.  The checkpoint
\* interval is two, so that the record runs ahead of the checkpoint.
EXTENDS Failover, TLC

CONSTANTS a, b

NodeSymmetry == Permutations({a, b})
=============================================================================
