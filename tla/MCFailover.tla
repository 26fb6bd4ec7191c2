----------------------------- MODULE MCFailover -----------------------------
(***************************************************************************)
(* Failover for TLC: the two data nodes may be swapped.                    *)
(***************************************************************************)
EXTENDS Failover, TLC

Interchangeable == Permutations(Nodes)
=============================================================================
