----------------------------- MODULE MCExplore -----------------------------
(***************************************************************************)
(* Explore for TLC: every model on three states with one promotion and one *)
(* other action, in which an action changes the state it applies to and    *)
(* the start has no writer.                                                *)
(***************************************************************************)
EXTENDS Explore

AllActions == <<"advance-time", "promote-a">>

Outcomes(s, a) ==
    {Applied(t) : t \in States \ {s}} \cup
        {Rejected(r) : r \in IF a \in Promotions THEN Rejection ELSE {"NoStateChange"}}

AllSystems ==
    [apply : {f \in [States \X Action -> Outcome] :
                 \A s \in States, a \in Action : f[s, a] \in Outcomes(s, a)},
     active_writers : {w \in [States -> {0, 2}] : w[Start] = 0}]
=============================================================================
