--------------------------- MODULE MCCompactModel ---------------------------
(***************************************************************************)
(* CompactModel for TLC.  The two data nodes play the same part, so states *)
(* that differ by swapping them are checked once where no liveness is      *)
(* asked for.                                                              *)
(***************************************************************************)
EXTENDS CompactModel, TLC

Interchangeable == Permutations(Nodes)
=============================================================================
