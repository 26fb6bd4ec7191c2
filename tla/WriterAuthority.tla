--------------------------- MODULE WriterAuthority ---------------------------
(***************************************************************************)
(* What quorumarc promises about the right to produce external effects     *)
(* (README.md "Non-negotiable invariants"): at any instant at most one     *)
(* node has it, it is released before another node gets it, and every time *)
(* it is given it carries a term above every term given before.            *)
(***************************************************************************)
EXTENDS Naturals

CONSTANT Nodes

VARIABLES term,      \* the highest term under which authority was ever given
          writers    \* the <<node, term>> pairs that may write now

vars == <<term, writers>>

Init == term = 0 /\ writers = {}

Acquire(n) ==
    /\ writers = {}
    /\ term' \in Nat
    /\ term' > term
    /\ writers' = {<<n, term'>>}

Release ==
    /\ writers # {}
    /\ writers' = {}
    /\ UNCHANGED term

Next == (\E n \in Nodes : Acquire(n)) \/ Release

Spec == Init /\ [][Next]_vars
=============================================================================
