---------------------------- MODULE MCSimulator ----------------------------
(***************************************************************************)
(* Simulator for TLC: all command lines of up to four words, and all of    *)
(* five that start with --depth, on a model that is safe, one that is      *)
(* unsafe after two steps, and one that is unsafe after one.  A depth      *)
(* beyond the number of states is never used up; 99 stands for any such    *)
(* depth.                                                                  *)
(***************************************************************************)
EXTENDS Simulator

AllActions == <<"advance-time", "promote-a">>

Values == [w \in {"0", "1", "2", "99"} |->
              CASE w = "0" -> 0 [] w = "1" -> 1 [] w = "2" -> 2 [] OTHER -> 99]

Words == {"--depth", "--require-safe", "--help", "-h", "-x"} \cup DOMAIN Values

Lines == UNION {[1..n -> Words] : n \in 0..4}
            \cup {<<"--depth">> \o rest : rest \in [1..4 -> Words]}

(* From state 0 promote-a leads to 1; time leads from 1 to 2. *)
Chain ==
    [p \in States \X Action |->
        CASE p = <<0, "promote-a">>    -> Applied(1)
          [] p = <<1, "advance-time">> -> Applied(2)
          [] p = <<1, "promote-a">>    -> Rejected("OldGateEffective")
          [] OTHER                     -> Rejected("NoStateChange")]

Writers(unsafe) == [s \in States |-> IF s \in unsafe THEN 2 ELSE 0]

ThreeSystems == [apply : {Chain}, active_writers : {Writers({}), Writers({1}), Writers({2})}]
=============================================================================
