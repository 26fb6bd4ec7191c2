------------------------------ MODULE Explore ------------------------------
(***************************************************************************)
(* The explorer of quorumarc-sim (crates/quorumarc-sim/src/lib.rs,         *)
(* explore): a breadth-first search over the actions of a model, up to a   *)
(* depth.  The model it explores is abstract: any `apply` on any states,   *)
(* numbered in the order ModelState derives, so that the search is also    *)
(* run on models that do break the single-writer invariant.  CompactModel  *)
(* is the model the code explores.                                         *)
(***************************************************************************)
EXTENDS Naturals, Sequences, FiniteSets

CONSTANTS States, Start,   \* ModelState and its default
          Actions,         \* Action::ALL, in its order
          Promotions,      \* the actions with a candidate
          Systems,         \* the models explored
          Depths

Action == {Actions[i] : i \in DOMAIN Actions}

(* Outcome.  The reasons promote gives for safety look alike to the explorer:   *)
(* OldGateEffective stands for all of them.                                    *)
Applied(next)    == [tag |-> "Applied", next |-> next]
Rejected(reason) == [tag |-> "Rejected", reason |-> reason]

Rejection == {"OldGateEffective", "NoStateChange"}

Outcome == {Applied(s) : s \in States} \cup {Rejected(r) : r \in Rejection}

ASSUME ExploreAssumption ==
    /\ States \subseteq Nat
    /\ Start \in States
    /\ Actions \in Seq(Action) /\ Actions # <<>>
    /\ \A i, j \in DOMAIN Actions : Actions[i] = Actions[j] => i = j
    /\ Promotions \subseteq Action
    /\ Systems \subseteq [apply : [States \X Action -> Outcome], active_writers : [States -> Nat]]
    /\ \A sys \in Systems : sys.active_writers[Start] = 0
    /\ Depths \subseteq Nat

VARIABLES system,         \* the model: apply and active_writers
          depth,          \* the depth asked for
          round,          \* rounds of the outer loop completed
          frontier,       \* states of this round still to visit
          at,             \* the action tried next on the least of them
          next_frontier,
          seen,           \* each state reached, with the trace that reached it first
          transitions_explored, rejected_promotions, violations,
          done            \* the report is returned

search == <<frontier, at, next_frontier, seen>>
counts == <<transitions_explored, rejected_promotions, violations>>
vars == <<system, depth, round, search, counts, done>>

ExploreFrom(d) ==
    /\ depth = d
    /\ round = 0
    /\ frontier = {Start}
    /\ at = 1
    /\ next_frontier = {}
    /\ seen = [s \in {Start} |-> <<>>]
    /\ transitions_explored = 0
    /\ rejected_promotions = 0
    /\ violations = <<>>
    /\ done = FALSE

Init == system \in Systems /\ \E d \in Depths : ExploreFrom(d)

-----------------------------------------------------------------------------
Unsafe(s) == system.active_writers[s] > 1

(* Plausible slip: an unsafe state is reported and not followed. *)
FreshIfSafe(s) == s \notin DOMAIN seen /\ ~Unsafe(s)

Fresh(s) == s \notin DOMAIN seen

(* BTreeMap yields its keys in order. *)
Visited == CHOOSE s \in frontier : \A t \in frontier : s <= t

(* Plausible slip: one action too many. *)
AdvanceInclusive ==
    IF at <= Len(Actions)
    THEN at' = at + 1 /\ UNCHANGED frontier
    ELSE at' = 1 /\ frontier' = frontier \ {Visited}

(* The inner loop moves to the next action, the outer one to the next state.   *)
Advance ==
    IF at < Len(Actions)
    THEN at' = at + 1 /\ UNCHANGED frontier
    ELSE at' = 1 /\ frontier' = frontier \ {Visited}

(* Plausible slip: the loop runs for 0..=depth. *)
RoundsLeftInclusive == round <= depth

RoundsLeft == round < depth

Visiting == ~done /\ RoundsLeft /\ frontier # {}

(* Plausible slip: the violation is reported before the action is pushed. *)
TraceBefore(trace, action) == trace

NextTrace(trace, action) == Append(trace, action)

(* apply succeeds: every such result is tested, also one already seen.         *)
VisitApplied ==
    /\ Visiting
    /\ LET outcome == system.apply[<<Visited, Actions[at]>>]
           trace   == NextTrace(seen[Visited], Actions[at])
       IN /\ outcome.tag = "Applied"
          /\ transitions_explored' = transitions_explored + 1
          /\ violations' =
                IF Unsafe(outcome.next)
                THEN Append(violations,
                            [trace |-> trace,
                             active_writers |-> system.active_writers[outcome.next]])
                ELSE violations
          /\ IF Fresh(outcome.next)
             THEN /\ seen' = [s \in DOMAIN seen \cup {outcome.next} |->
                               IF s = outcome.next THEN trace ELSE seen[s]]
                  /\ next_frontier' = next_frontier \cup {outcome.next}
             ELSE UNCHANGED <<seen, next_frontier>>
    /\ Advance
    /\ UNCHANGED <<system, depth, round, rejected_promotions, done>>

RefusedForSafety(action, reason) == action \in Promotions /\ reason # "NoStateChange"

VisitRejected ==
    /\ Visiting
    /\ LET outcome == system.apply[<<Visited, Actions[at]>>]
       IN /\ outcome.tag = "Rejected"
          /\ rejected_promotions' = rejected_promotions
                + IF RefusedForSafety(Actions[at], outcome.reason) THEN 1 ELSE 0
    /\ Advance
    /\ UNCHANGED <<system, depth, round, next_frontier, seen, transitions_explored,
                   violations, done>>

(* Plausible slip: the break is missing; rounds go on with nothing to visit. *)
NeverExhausted == FALSE

Exhausted == frontier = {} /\ next_frontier = {}

NextRound ==
    /\ ~done /\ RoundsLeft /\ frontier = {} /\ ~Exhausted
    /\ round' = round + 1
    /\ frontier' = next_frontier
    /\ next_frontier' = {}
    /\ UNCHANGED <<system, depth, at, seen, counts, done>>

Return ==
    /\ ~done
    /\ ~RoundsLeft \/ Exhausted
    /\ done' = TRUE
    /\ UNCHANGED <<system, depth, round, search, counts>>

(* SimulationReport *)
Report ==
    [depth |-> depth, states_explored |-> Cardinality(DOMAIN seen),
     transitions_explored |-> transitions_explored,
     rejected_promotions |-> rejected_promotions, violations |-> violations]

IsSafe == Report.violations = <<>>

Next == VisitApplied \/ VisitRejected \/ NextRound \/ Return

Spec == Init /\ [][Next]_vars

-----------------------------------------------------------------------------
Traces == Seq(Action)

TypeOK ==
    /\ system \in Systems /\ depth \in Nat /\ round \in Nat
    /\ frontier \subseteq DOMAIN seen /\ next_frontier \subseteq DOMAIN seen
    /\ DOMAIN seen \subseteq States
    /\ at \in DOMAIN Actions
    /\ \A s \in DOMAIN seen : seen[s] \in Traces
    /\ transitions_explored \in Nat /\ rejected_promotions \in Nat
    /\ violations \in Seq([trace : Traces, active_writers : Nat])
    /\ done \in BOOLEAN

(* What an action leads to, for the reference definitions. *)
LeadsTo(s, a, t) == system.apply[<<s, a>>] = Applied(t)

OneStepFrom(S) == S \cup {t \in States : \E s \in S, a \in Action : LeadsTo(s, a, t)}

Within(d) ==
    LET upTo[k \in 0..d] == IF k = 0 THEN {Start} ELSE OneStepFrom(upTo[k - 1])
    IN upTo[d]

(* The pairs a run to depth d tries. *)
Tried(d) == IF d = 0 THEN {} ELSE Within(d - 1) \X Action

(* README.md:80 "explores the deterministic model to depth 10: 60,631 unique    *)
(* states, 330,074 applied transitions, and zero single-writer violations": the *)
(* numbers of a report are those of the states and transitions within its depth, *)
(* each counted once, however many paths lead to a state, and a report without  *)
(* violations means that no state within the depth is unsafe.                  *)
ReportIsExact ==
    done =>
        /\ Report.states_explored = Cardinality(Within(depth))
        /\ Report.transitions_explored =
              Cardinality({p \in Tried(depth) : system.apply[p].tag = "Applied"})
        /\ Report.rejected_promotions =
              Cardinality({p \in Tried(depth) :
                              /\ p[2] \in Promotions
                              /\ system.apply[p] = Rejected("OldGateEffective")})
        /\ IsSafe <=> \A s \in Within(depth) : ~Unsafe(s)

(* Does a trace, replayed from the default state, end in s?                    *)
EndsIn(trace, s) ==
    \E path \in [0..Len(trace) -> States] :
        /\ path[0] = Start /\ path[Len(trace)] = s
        /\ \A i \in DOMAIN trace : LeadsTo(path[i - 1], trace[i], path[i])

(* Violation::trace is a "Reproducible action sequence" (lib.rs:548): replayed,  *)
(* it ends in a state with the writers it reports; and what main prints as the  *)
(* first violating trace is a shortest one there is.                           *)
ViolationsReplay ==
    /\ \A i \in DOMAIN violations : \E s \in States :
          /\ EndsIn(violations[i].trace, s)
          /\ Unsafe(s)
          /\ violations[i].active_writers = system.active_writers[s]
    /\ violations # <<>> =>
          \A s \in Within(Len(violations[1].trace) - 1) : ~Unsafe(s)

(* Every round but the last finds a new state, so the search ends after at most *)
(* as many rounds as there are states, however large the depth asked for is.    *)
RoundsAreProductive == round < Cardinality(DOMAIN seen)

(* What is reachable at all: in every set that holds the start and is closed     *)
(* under apply.                                                                *)
Closed(C) == Start \in C /\ \A s \in C, t \in States, a \in Action : LeadsTo(s, a, t) => t \in C

Reachable == {s \in States : \A C \in SUBSET States : Closed(C) => s \in C}

(* A search that stopped before its depth was used up has seen all there is: its *)
(* answer holds for runs of any length.                                        *)
ExhaustedIsComplete ==
    Exhausted => /\ DOMAIN seen = Reachable
                 /\ IsSafe <=> \A s \in Reachable : ~Unsafe(s)
=============================================================================
