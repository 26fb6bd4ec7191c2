------------------------------ MODULE Refusals ------------------------------
(***************************************************************************)
(* quorumarc-core validates by a list of early returns: each condition is  *)
(* tested in order and the first one that fails decides the typed error.   *)
(* Here such a list is a sequence of <<error, condition>> rows; a row      *)
(* passes when its condition holds.                                        *)
(***************************************************************************)
EXTENDS Naturals, Sequences

Ok == "Ok"

(* What a list of checks is: no row that fails carries the success value. *)
CheckList(checks) ==
    /\ DOMAIN checks = 1..Len(checks)
    /\ Len(checks) \in Nat
    /\ \A i \in DOMAIN checks : checks[i][2] \/ checks[i][1] # Ok

Failed(checks) == {i \in DOMAIN checks : ~checks[i][2]}

AllHold(checks) == \A i \in DOMAIN checks : checks[i][2]

(* The typed result: the error of the first failing row, or Ok. *)
Verdict(checks) ==
    IF AllHold(checks) THEN Ok
    ELSE checks[CHOOSE i \in Failed(checks) :
                    \A j \in Failed(checks) : i <= j][1]
=============================================================================
