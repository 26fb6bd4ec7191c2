--------------------------- MODULE ExploreProofs ---------------------------
(***************************************************************************)
(* Theorems about the explorer and the command that runs it, for any set   *)
(* of states, any actions, any model, depth and command line.              *)
(*                                                                         *)
(* 1. The search: the invariant says what has been done on the way.  Every *)
(*    state seen that no longer waits in a frontier was tried with every   *)
(*    action, and the one being visited with the actions before the        *)
(*    present one.  So a search that ran out of states has seen them all.  *)
(* 2. Its rounds: there are more states seen than rounds completed.        *)
(* 3. What lies within so many steps: the equations of Within.             *)
(* 4. The report: what was seen before a round is what lies within its     *)
(*    number of steps, each pair of state and action is counted once, and  *)
(*    every trace replays.  Each step adds to what is counted, so the      *)
(*    search of a finite model ends; what it reports no invariant of the   *)
(*    model excludes.                                                      *)
(* 5. The command: what its words have come to, and the exit code.         *)
(***************************************************************************)
EXTENDS Simulator, RefusalsProofs, SequenceTheorems

USE ExploreAssumption, SimulatorAssumption

(* The action was tried on the state, and its result kept and tested. *)
Tested(s, a) ==
    \A t \in States : LeadsTo(s, a, t) =>
        /\ t \in DOMAIN seen
        /\ Unsafe(t) => violations # <<>>

Waiting == frontier \cup next_frontier

AllTested ==
    /\ \A s \in DOMAIN seen \ Waiting : \A a \in Action : Tested(s, a)
    /\ frontier # {} => \A i \in 1..(at - 1) : Tested(Visited, Actions[i])
    /\ frontier = {} => at = 1

OnlyReachable ==
    /\ \A C \in SUBSET States : Closed(C) => DOMAIN seen \subseteq C
    /\ \A s \in DOMAIN seen : Unsafe(s) => violations # <<>>
    /\ violations # <<>> => \E s \in Reachable : Unsafe(s)

IInv == TypeOK /\ Start \in DOMAIN seen /\ AllTested /\ OnlyReachable

(* A set of numbers has a least one. *)
LEMMA LeastNatural ==
    ASSUME NEW F, F \subseteq Nat, F # {}
    PROVE  \E n \in F : \A m \in F : n <= m
<1>1. PICK k \in F : TRUE
  OBVIOUS
<1> DEFINE G == {i \in 1..(k + 1) : i - 1 \in F}
<1>2. k \in Nat /\ k + 1 \in Nat /\ k + 1 \in G /\ G \subseteq 1..(k + 1)
  <2>1. k \in Nat /\ k + 1 \in Nat /\ k + 1 \in 1..(k + 1) /\ (k + 1) - 1 = k
    BY <1>1
  <2> QED
    BY <2>1
<1>3. PICK i \in G : \A j \in G : i <= j
  <2> HIDE DEF G
  <2> QED
    BY <1>2, FirstExists
<1>4. i \in 1..(k + 1) /\ i - 1 \in F
  OBVIOUS
<1>5. \A m \in F : i - 1 <= m
  <2> SUFFICES ASSUME NEW m \in F PROVE i - 1 <= m
    OBVIOUS
  <2>1. m \in Nat /\ k \in Nat
    BY <1>2
  <2>2. CASE m <= k
    <3>1. m + 1 \in 1..(k + 1) /\ (m + 1) - 1 = m
      BY <2>1, <2>2
    <3>2. i <= m + 1
      BY <1>3, <3>1
    <3> QED
      BY <1>4, <2>1, <3>2
  <2>3. CASE ~(m <= k)
    BY <1>4, <2>1, <2>3
  <2> QED
    BY <2>2, <2>3
<1> QED
  BY <1>4, <1>5

(* Induction over a set of numbers. *)
LEMMA NaturalsByStep ==
    ASSUME NEW S, 0 \in S, \A n \in Nat : n \in S => n + 1 \in S
    PROVE  Nat \subseteq S
<1> SUFFICES ASSUME Nat \ S # {} PROVE FALSE
  OBVIOUS
<1>1. PICK n \in Nat \ S : \A m \in Nat \ S : n <= m
  BY LeastNatural
<1>2. n - 1 \in Nat /\ n = (n - 1) + 1 /\ ~(n <= n - 1)
  BY <1>1
<1>3. n - 1 \in S
  BY <1>1, <1>2
<1> QED
  BY <1>1, <1>2, <1>3

(* The keys of a BTreeMap have a first one. *)
LEMMA VisitedIsWaiting ==
    ASSUME TypeOK, frontier # {}
    PROVE  Visited \in frontier
<1>1. frontier \subseteq Nat
  BY DEF TypeOK
<1>2. \E s \in frontier : \A t \in frontier : s <= t
  BY <1>1, LeastNatural
<1> QED
  BY <1>2 DEF Visited

LEMMA ActionIndexed ==
    /\ DOMAIN Actions = 1..Len(Actions) /\ Len(Actions) \in Nat /\ Len(Actions) >= 1
    /\ \A a \in Action : \E i \in 1..Len(Actions) : a = Actions[i]
    /\ \A i \in 1..Len(Actions) : Actions[i] \in Action
<1>1. DOMAIN Actions = 1..Len(Actions) /\ Len(Actions) \in Nat
  BY DEF ExploreAssumption
<1>2. Len(Actions) # 0
  BY <1>1
<1> QED
  BY <1>1, <1>2 DEF Action

(* What the tests say does not get lost. *)
LEMMA TestedStays ==
    ASSUME NEW s, NEW a, Tested(s, a), UNCHANGED system,
           DOMAIN seen \subseteq DOMAIN seen', violations # <<>> => violations' # <<>>
    PROVE  Tested(s, a)'
BY DEF Tested, LeadsTo, Unsafe

(* The search starts right, on whatever model and to whatever depth. *)
LEMMA InitFrom ==
    ASSUME NEW d \in Nat, system \in Systems, ExploreFrom(d)
    PROVE  IInv
<1> USE DEF ExploreFrom
<1>1. TypeOK
  <2>1. at \in DOMAIN Actions
    BY ActionIndexed
  <2>2. seen[Start] = <<>> /\ DOMAIN seen = {Start} /\ <<>> \in Traces
    BY DEF Traces
  <2>3. violations \in Seq([trace : Traces, active_writers : Nat])
    OBVIOUS
  <2>4. /\ depth \in Nat /\ round \in Nat /\ system \in Systems
        /\ transitions_explored \in Nat /\ rejected_promotions \in Nat
    OBVIOUS
  <2>7. done \in BOOLEAN
    BY Zenon
  <2>5. frontier = {Start} /\ next_frontier = {} /\ Start \in States
    OBVIOUS
  <2>6. /\ frontier \subseteq DOMAIN seen /\ next_frontier \subseteq DOMAIN seen
        /\ DOMAIN seen \subseteq States
        /\ \A s \in DOMAIN seen : seen[s] \in Traces
    BY <2>2, <2>5
  <2> HIDE DEF ExploreFrom
  <2> QED
    BY <2>1, <2>3, <2>4, <2>6, <2>7 DEF TypeOK
<1>2. AllTested
  BY DEF AllTested, Waiting
<1>3. ~Unsafe(Start)
  BY DEF Unsafe
<1>4. OnlyReachable
  BY <1>3 DEF OnlyReachable, Closed
<1> QED
  BY <1>1, <1>2, <1>4 DEF IInv

LEMMA InitHolds == Init => IInv
<1> SUFFICES ASSUME Init PROVE IInv
  OBVIOUS
<1>1. PICK d \in Depths : ExploreFrom(d)
  BY DEF Init
<1>2. d \in Nat
  BY DEF ExploreAssumption
<1> QED
  BY <1>1, <1>2, InitFrom DEF Init

LEMMA NextRoundStep == IInv /\ NextRound => IInv'
<1> SUFFICES ASSUME IInv, NextRound PROVE IInv'
  OBVIOUS
<1>1. /\ round' = round + 1 /\ frontier' = next_frontier /\ next_frontier' = {}
      /\ UNCHANGED <<system, depth, at, seen, counts, done>>
      /\ frontier = {} /\ next_frontier # {} /\ at = 1
  BY DEF NextRound, Exhausted, IInv, AllTested
<1>2. TypeOK'
  BY <1>1 DEF IInv, TypeOK, counts
<1>3. \A s, a : Tested(s, a) => Tested(s, a)'
  BY <1>1, TestedStays DEF counts
<1>4. AllTested'
  BY <1>1, <1>3 DEF IInv, AllTested, Waiting
<1>5. OnlyReachable'
  BY <1>1 DEF IInv, OnlyReachable, Closed, LeadsTo, Reachable, Unsafe, counts
<1> QED
  BY <1>1, <1>2, <1>4, <1>5 DEF IInv

(* One more action tried on the state visited; when it was the last, the state   *)
(* has been tried with them all and may leave the frontier.                    *)
LEMMA VisitTests ==
    ASSUME IInv, Visiting, Advance, UNCHANGED system,
           DOMAIN seen \subseteq DOMAIN seen', next_frontier \subseteq next_frontier',
           DOMAIN seen' \subseteq DOMAIN seen \cup next_frontier',
           violations # <<>> => violations' # <<>>,
           \A s, a : s = Visited /\ a = Actions[at] => Tested(s, a)'
    PROVE  AllTested'
<1>0. PICK v : v = Visited
  OBVIOUS
<1>1. frontier # {} /\ v \in frontier
  BY <1>0, VisitedIsWaiting DEF Visiting, IInv
<1>2. at \in 1..Len(Actions) /\ Len(Actions) \in Nat
  BY ActionIndexed DEF IInv, TypeOK
<1>3. \A s, a : Tested(s, a) => Tested(s, a)'
  BY TestedStays
<1>4. \A s \in DOMAIN seen \ Waiting : \A a \in Action : Tested(s, a)'
  <2> SUFFICES ASSUME NEW s \in DOMAIN seen \ Waiting, NEW a \in Action
               PROVE  Tested(s, a)'
    OBVIOUS
  <2>1. Tested(s, a)
    BY DEF IInv, AllTested
  <2> QED
    BY <1>3, <2>1
<1>5. \A i \in 1..at : Tested(v, Actions[i])'
  <2> SUFFICES ASSUME NEW i \in 1..at PROVE Tested(v, Actions[i])'
    OBVIOUS
  <2>1. CASE i = at
    BY <1>0, <2>1
  <2>2. CASE i # at
    <3>1. i \in 1..(at - 1)
      BY <1>2, <2>2
    <3>2. Tested(v, Actions[i])
      BY <1>0, <1>1, <3>1 DEF IInv, AllTested
    <3> QED
      BY <1>3, <3>2
  <2> QED
    BY <2>1, <2>2
<1>7. CASE at < Len(Actions)
  <2>1. at' = at + 1 /\ frontier' = frontier
    BY <1>7 DEF Advance
  <2>2. DOMAIN seen' \ Waiting' \subseteq DOMAIN seen \ Waiting
    BY <2>1 DEF Waiting
  <2>3. Visited' = v
    BY <1>0, <2>1 DEF Visited
  <2>4. 1..(at' - 1) = 1..at
    BY <1>2, <2>1
  <2>5. \A s \in DOMAIN seen' \ Waiting' : \A a \in Action : Tested(s, a)'
    BY <1>4, <2>2
  <2>6. (\A i \in 1..(at - 1) : Tested(Visited, Actions[i]))'
    BY <1>5, <2>3, <2>4
  <2> QED
    BY <1>1, <2>1, <2>5, <2>6 DEF AllTested
<1>8. CASE ~(at < Len(Actions))
  <2>1. at = Len(Actions) /\ at' = 1 /\ frontier' = frontier \ {v}
    BY <1>0, <1>2, <1>8 DEF Advance
  <2>2. \A a \in Action : Tested(v, a)'
    <3> SUFFICES ASSUME NEW a \in Action PROVE Tested(v, a)'
      OBVIOUS
    <3>1. PICK i \in 1..at : a = Actions[i]
      BY <2>1, ActionIndexed
    <3>2. Tested(v, Actions[i])'
      BY <1>5
    <3> QED
      BY <3>1, <3>2
  <2>3. DOMAIN seen' \ Waiting' \subseteq (DOMAIN seen \ Waiting) \cup {v}
    BY <2>1 DEF Waiting
  <2>4. \A s \in DOMAIN seen' \ Waiting' : \A a \in Action : Tested(s, a)'
    <3> SUFFICES ASSUME NEW s \in DOMAIN seen' \ Waiting', NEW a \in Action
                 PROVE  Tested(s, a)'
      OBVIOUS
    <3>1. CASE s = v
      BY <2>2, <3>1
    <3>2. CASE s # v
      <4>1. s \in DOMAIN seen \ Waiting
        BY <2>3, <3>2
      <4> QED
        BY <1>4, <4>1
    <3> QED
      BY <3>1, <3>2
  <2>5. 1..(at' - 1) = {}
    BY <2>1
  <2>6. (\A i \in 1..(at - 1) : Tested(Visited, Actions[i]))'
    BY <2>5
  <2> QED
    BY <2>1, <2>4, <2>6 DEF AllTested
<1> QED
  BY <1>7, <1>8

(* What apply answers about the pair being visited, and what follows of it.     *)
LEMMA Answered ==
    ASSUME IInv, Visiting
    PROVE  /\ Visited \in frontier /\ Visited \in DOMAIN seen /\ Visited \in States
           /\ at \in 1..Len(Actions) /\ Actions[at] \in Action
           /\ system.apply[<<Visited, Actions[at]>>] \in Outcome
           /\ Append(seen[Visited], Actions[at]) \in Traces
<1>1. Visited \in frontier /\ Visited \in DOMAIN seen /\ Visited \in States
  BY VisitedIsWaiting DEF Visiting, IInv, TypeOK
<1>2. at \in 1..Len(Actions) /\ Actions[at] \in Action
  BY ActionIndexed DEF IInv, TypeOK
<1>3. system.apply \in [States \X Action -> Outcome]
  BY DEF IInv, TypeOK, ExploreAssumption
<1>4. system.apply[<<Visited, Actions[at]>>] \in Outcome
  BY <1>1, <1>2, <1>3
<1>5. seen[Visited] \in Seq(Action)
  BY <1>1 DEF IInv, TypeOK, Traces
<1>6. Append(seen[Visited], Actions[at]) \in Traces
  BY <1>2, <1>5 DEF Traces
<1> QED
  BY <1>1, <1>2, <1>4, <1>6

LEMMA OutcomeShape ==
    ASSUME NEW o \in Outcome
    PROVE  \/ o.tag = "Applied" /\ o.next \in States /\ o = Applied(o.next)
           \/ /\ o.tag = "Rejected" /\ o.reason \in Rejection
              /\ \A t \in States : o # Applied(t)
BY DEF Outcome, Applied, Rejected

LEMMA AdvanceTyped ==
    ASSUME IInv, Visiting, Advance
    PROVE  at' \in DOMAIN Actions /\ frontier' \subseteq frontier
<1>1. at \in 1..Len(Actions) /\ DOMAIN Actions = 1..Len(Actions)
      /\ Len(Actions) \in Nat /\ Len(Actions) >= 1
  BY ActionIndexed, Answered
<1> QED
  BY <1>1 DEF Advance

LEMMA VisitRejectedStep == IInv /\ VisitRejected => IInv'
<1> SUFFICES ASSUME IInv, VisitRejected PROVE IInv'
  OBVIOUS
<1>1. /\ Visiting /\ Advance
      /\ UNCHANGED <<system, depth, round, next_frontier, seen, transitions_explored,
                     violations, done>>
      /\ rejected_promotions' \in {rejected_promotions, rejected_promotions + 1}
  <2>1. rejected_promotions \in Nat
    BY DEF IInv, TypeOK
  <2> QED
    BY <2>1 DEF VisitRejected
<1>2. at' \in DOMAIN Actions /\ frontier' \subseteq frontier
  BY <1>1, AdvanceTyped
<1>3. TypeOK'
  BY <1>1, <1>2 DEF IInv, TypeOK
<1>4. \A s, a : s = Visited /\ a = Actions[at] => Tested(s, a)'
  <2> DEFINE o == system.apply[<<Visited, Actions[at]>>]
  <2>1. o \in Outcome /\ o.tag = "Rejected"
    BY <1>1, Answered DEF VisitRejected
  <2>2. \A t \in States : o # Applied(t)
    <3> HIDE DEF o
    <3> QED
      BY <2>1, OutcomeShape
  <2> QED
    BY <1>1, <2>2 DEF Tested, LeadsTo
<1>5. AllTested'
  BY <1>1, <1>4, VisitTests
<1>6. OnlyReachable'
  BY <1>1 DEF IInv, OnlyReachable, Closed, LeadsTo, Reachable, Unsafe
<1> QED
  BY <1>1, <1>3, <1>5, <1>6 DEF IInv

LEMMA AppendTyped ==
    ASSUME NEW T, NEW q \in Seq(T), NEW e \in T
    PROVE  Append(q, e) \in Seq(T) /\ Append(q, e) # <<>>
<1>1. Len(Append(q, e)) = Len(q) + 1 /\ Len(q) \in Nat
  OBVIOUS
<1>2. Append(q, e) # <<>>
  BY <1>1
<1> QED
  BY <1>2

LEMMA VisitAppliedStep == IInv /\ VisitApplied => IInv'
<1> SUFFICES ASSUME IInv, VisitApplied PROVE IInv'
  OBVIOUS
<1> DEFINE o == system.apply[<<Visited, Actions[at]>>]
           trace == Append(seen[Visited], Actions[at])
           found == [trace |-> trace, active_writers |-> system.active_writers[o.next]]
<1>1. /\ Visiting /\ Advance /\ o.tag = "Applied"
      /\ UNCHANGED <<system, depth, round, rejected_promotions, done>>
      /\ transitions_explored' = transitions_explored + 1
      /\ violations' = IF Unsafe(o.next) THEN Append(violations, found) ELSE violations
      /\ IF Fresh(o.next)
         THEN /\ seen' = [s \in DOMAIN seen \cup {o.next} |->
                           IF s = o.next THEN trace ELSE seen[s]]
              /\ next_frontier' = next_frontier \cup {o.next}
         ELSE UNCHANGED <<seen, next_frontier>>
  BY DEF VisitApplied, NextTrace
<1>2. PICK n : n = o.next
  OBVIOUS
<1>3. /\ Visited \in DOMAIN seen /\ Visited \in States /\ Actions[at] \in Action
      /\ trace \in Traces /\ n \in States /\ o = Applied(n)
  <2>1. o \in Outcome
    BY <1>1, Answered
  <2>2. o.next \in States /\ o = Applied(o.next)
    <3> HIDE DEF o
    <3> QED
      BY <1>1, <2>1, OutcomeShape
  <2> QED
    BY <1>1, <1>2, <2>2, Answered
<1>4. at' \in DOMAIN Actions /\ frontier' \subseteq frontier
  BY <1>1, AdvanceTyped
<1>5. found \in [trace : Traces, active_writers : Nat]
  <2>1. system.active_writers \in [States -> Nat]
    BY DEF IInv, TypeOK, ExploreAssumption
  <2>2. system.active_writers[o.next] \in Nat
    BY <1>2, <1>3, <2>1
  <2> QED
    BY <1>3, <2>2
<1>6. /\ violations' \in Seq([trace : Traces, active_writers : Nat])
      /\ violations # <<>> => violations' # <<>>
      /\ Unsafe(n) => violations' # <<>>
      /\ violations' # <<>> => violations # <<>> \/ Unsafe(n)
  <2> HIDE DEF found, o
  <2>1. violations \in Seq([trace : Traces, active_writers : Nat])
    BY DEF IInv, TypeOK
  <2>2. /\ Append(violations, found) \in Seq([trace : Traces, active_writers : Nat])
        /\ Append(violations, found) # <<>>
    BY <1>5, <2>1, AppendTyped
  <2> QED
    BY <1>1, <1>2, <2>1, <2>2
<1>7. /\ DOMAIN seen' = DOMAIN seen \cup {n}
      /\ next_frontier \subseteq next_frontier'
      /\ next_frontier' \subseteq next_frontier \cup {n}
      /\ DOMAIN seen' \subseteq DOMAIN seen \cup next_frontier'
      /\ \A s \in DOMAIN seen' : seen'[s] = trace \/ (s \in DOMAIN seen /\ seen'[s] = seen[s])
  <2> HIDE DEF o, trace
  <2>1. CASE Fresh(n)
    <3>1. /\ seen' = [s \in DOMAIN seen \cup {n} |-> IF s = n THEN trace ELSE seen[s]]
          /\ next_frontier' = next_frontier \cup {n}
      BY <1>1, <1>2, <2>1
    <3>2. DOMAIN seen' = DOMAIN seen \cup {n}
      BY <3>1
    <3>3. \A s \in DOMAIN seen \cup {n} : seen'[s] = IF s = n THEN trace ELSE seen[s]
      BY <3>1
    <3> QED
      BY <3>1, <3>2, <3>3
  <2>2. CASE ~Fresh(n)
    BY <1>1, <1>2, <2>2 DEF Fresh
  <2> QED
    BY <2>1, <2>2
<1>8. TypeOK'
  <2> HIDE DEF o, trace, found
  <2>1. \A s \in DOMAIN seen' : seen'[s] \in Traces
    BY <1>3, <1>7 DEF IInv, TypeOK
  <2>2. frontier' \subseteq DOMAIN seen' /\ next_frontier' \subseteq DOMAIN seen'
        /\ DOMAIN seen' \subseteq States
    BY <1>3, <1>4, <1>7 DEF IInv, TypeOK
  <2>3. transitions_explored' \in Nat
    BY <1>1 DEF IInv, TypeOK
  <2> QED
    BY <1>1, <1>4, <1>6, <2>1, <2>2, <2>3 DEF IInv, TypeOK
<1>9. \A s, a : s = Visited /\ a = Actions[at] => Tested(s, a)'
  <2> SUFFICES ASSUME NEW t \in States, system.apply[<<Visited, Actions[at]>>] = Applied(t)
               PROVE  t \in DOMAIN seen' /\ (Unsafe(t) => violations' # <<>>)
    BY <1>1 DEF Tested, LeadsTo, Unsafe
  <2>1. t = n
    BY <1>3 DEF Applied
  <2> QED
    BY <1>6, <1>7, <2>1
<1>10. AllTested'
  BY <1>1, <1>6, <1>7, <1>9, VisitTests
<1>11. LeadsTo(Visited, Actions[at], n)
  BY <1>3 DEF LeadsTo
<1>12. \A C \in SUBSET States : Closed(C) => DOMAIN seen' \subseteq C
  <2> SUFFICES ASSUME NEW C \in SUBSET States, Closed(C) PROVE DOMAIN seen' \subseteq C
    OBVIOUS
  <2>1. DOMAIN seen \subseteq C
    BY DEF IInv, OnlyReachable
  <2>2. n \in C
    BY <1>3, <1>11, <2>1 DEF Closed
  <2> QED
    BY <1>7, <2>1, <2>2
<1>13. OnlyReachable'
  <2>1. \A C : Closed(C)' <=> Closed(C)
    BY <1>1 DEF Closed, LeadsTo
  <2>2. Reachable' = Reachable
    BY <2>1 DEF Reachable
  <2>3. \A s : Unsafe(s)' <=> Unsafe(s)
    BY <1>1 DEF Unsafe
  <2>4. \A s \in DOMAIN seen' : Unsafe(s) => violations' # <<>>
    BY <1>6, <1>7 DEF IInv, OnlyReachable
  <2>5. n \in Reachable
    BY <1>3, <1>7, <1>12 DEF Reachable
  <2>6. violations' # <<>> => \E s \in Reachable : Unsafe(s)
    BY <1>6, <2>5 DEF IInv, OnlyReachable
  <2> QED
    BY <1>12, <2>1, <2>2, <2>3, <2>4, <2>6 DEF OnlyReachable
<1> QED
  BY <1>7, <1>8, <1>10, <1>13 DEF IInv

LEMMA ReturnStep == IInv /\ (Return \/ UNCHANGED vars) => IInv'
<1> SUFFICES ASSUME IInv, Return \/ UNCHANGED vars PROVE IInv'
  OBVIOUS
<1>1. UNCHANGED <<system, depth, round, search, counts>>
  BY DEF Return, vars
<1>2. done' \in BOOLEAN
  BY DEF Return, vars, IInv, TypeOK
<1>3. TypeOK'
  BY <1>1, <1>2 DEF IInv, TypeOK, search, counts
<1>4. AllTested'
  BY <1>1 DEF IInv, AllTested, Waiting, Tested, Visited, LeadsTo, Unsafe, search, counts
<1>5. OnlyReachable'
  BY <1>1 DEF IInv, OnlyReachable, Closed, LeadsTo, Reachable, Unsafe, search, counts
<1> QED
  BY <1>1, <1>3, <1>4, <1>5 DEF IInv, search, counts

(* The search keeps its invariant. *)
THEOREM Invariance == Spec => []IInv
<1>1. IInv /\ [Next]_vars => IInv'
  BY VisitAppliedStep, VisitRejectedStep, NextRoundStep, ReturnStep DEF Next
<1> QED
  BY InitHolds, <1>1, PTL DEF Spec

(* What is waiting was seen, what was seen is a state, and its trace is one of  *)
(* actions: explore never looks a state up that it has not kept.               *)
THEOREM TypeCorrect == Spec => []TypeOK
<1>1. IInv => TypeOK
  BY DEF IInv
<1> QED
  BY <1>1, Invariance, PTL

(* With nothing waiting, what was seen is closed under apply: it is everything  *)
(* reachable, and each unsafe state of it was reported.                        *)
LEMMA NothingMissed == IInv => ExhaustedIsComplete
<1> SUFFICES ASSUME IInv, Exhausted
             PROVE  /\ DOMAIN seen = Reachable
                    /\ IsSafe <=> \A s \in Reachable : ~Unsafe(s)
  BY DEF ExhaustedIsComplete
<1>1. \A s \in DOMAIN seen, a \in Action : Tested(s, a)
  BY DEF IInv, AllTested, Waiting, Exhausted
<1>2. Start \in DOMAIN seen /\ DOMAIN seen \in SUBSET States
  BY DEF IInv, TypeOK
<1>3. Closed(DOMAIN seen)
  BY <1>1, <1>2 DEF Closed, Tested
<1>4. DOMAIN seen = Reachable
  BY <1>2, <1>3 DEF Reachable, IInv, OnlyReachable
<1>5. violations = <<>> <=> \A s \in Reachable : ~Unsafe(s)
  BY <1>4 DEF IInv, OnlyReachable
<1>6. IsSafe <=> violations = <<>>
  BY DEF IsSafe, Report
<1> QED
  BY <1>4, <1>5, <1>6

(* A search that ran out of states before its depth has seen exactly the        *)
(* reachable ones, and reports a violation exactly if one of them is unsafe.    *)
THEOREM ExhaustiveSearch == Spec => []ExhaustedIsComplete
BY Invariance, NothingMissed, PTL

-----------------------------------------------------------------------------
(* A round that leaves something to visit has found a state: there are more      *)
(* states than rounds completed, one more again once the present round found.  *)
Progress ==
    /\ IsFiniteSet(DOMAIN seen)
    /\ round \in Nat
    /\ round < Cardinality(DOMAIN seen)
    /\ next_frontier # {} => round + 1 < Cardinality(DOMAIN seen)

LEMMA ProgressInit == Init => Progress
<1> SUFFICES ASSUME Init PROVE Progress
  OBVIOUS
<1>1. DOMAIN seen = {Start} /\ round = 0 /\ next_frontier = {}
  BY DEF Init, ExploreFrom
<1>2. IsFiniteSet({Start}) /\ Cardinality({Start}) = 1
  BY FS_Singleton
<1> QED
  BY <1>1, <1>2 DEF Progress

LEMMA ProgressStep == Progress /\ [Next]_vars => Progress'
<1> SUFFICES ASSUME Progress, [Next]_vars PROVE Progress'
  OBVIOUS
<1>1. Cardinality(DOMAIN seen) \in Nat
  BY FS_CardinalityType DEF Progress
<1>2. CASE UNCHANGED <<round, seen, next_frontier>>
  BY <1>2 DEF Progress
<1>3. CASE NextRound
  <2>1. round' = round + 1 /\ next_frontier # {} /\ next_frontier' = {} /\ seen' = seen
    BY <1>3 DEF NextRound, Exhausted
  <2> QED
    BY <1>1, <2>1 DEF Progress
<1>4. CASE VisitApplied
  <2> DEFINE n == system.apply[<<Visited, Actions[at]>>].next
  <2>1. CASE Fresh(n)
    <3>1. round' = round /\ DOMAIN seen' = DOMAIN seen \cup {n}
      BY <1>4, <2>1 DEF VisitApplied
    <3>2. n \notin DOMAIN seen
      BY <2>1 DEF Fresh
    <3>3. /\ IsFiniteSet(DOMAIN seen \cup {n})
          /\ Cardinality(DOMAIN seen \cup {n}) = Cardinality(DOMAIN seen) + 1
      <4> HIDE DEF n
      <4> QED
        BY <3>2, FS_AddElement DEF Progress
    <3> HIDE DEF n
    <3> QED
      BY <1>1, <3>1, <3>3 DEF Progress
  <2>2. CASE ~Fresh(n)
    <3>1. UNCHANGED <<round, seen, next_frontier>>
      BY <1>4, <2>2 DEF VisitApplied
    <3> QED
      BY <1>2, <3>1
  <2> QED
    BY <2>1, <2>2
<1>5. CASE VisitRejected \/ Return \/ UNCHANGED vars
  <2>1. UNCHANGED <<round, seen, next_frontier>>
    BY <1>5 DEF VisitRejected, Return, search, vars
  <2> QED
    BY <1>2, <2>1
<1> QED
  BY <1>3, <1>4, <1>5 DEF Next

(* However large the depth asked for, no more rounds are completed than there    *)
(* are states: the break of explore ends the search of a finite model.         *)
THEOREM SearchIsBounded == Spec => []RoundsAreProductive
<1>1. Progress => RoundsAreProductive
  BY DEF Progress, RoundsAreProductive
<1> QED
  BY ProgressInit, ProgressStep, <1>1, PTL DEF Spec

-----------------------------------------------------------------------------
(* The states within each number of steps up to d, as the recursive function of *)
(* Within builds them.                                                         *)
AreLayers(f, d) == f = [k \in 0..d |-> IF k = 0 THEN {Start} ELSE OneStepFrom(f[k - 1])]

LEMMA LayersAgree ==
    ASSUME NEW d \in Nat, NEW e \in Nat, NEW f, NEW g, AreLayers(f, d), AreLayers(g, e)
    PROVE  \A k \in Nat : k <= d /\ k <= e => f[k] = g[k]
<1> DEFINE S == {k \in Nat : k <= d /\ k <= e => f[k] = g[k]}
<1>1. /\ \A k \in 0..d : f[k] = IF k = 0 THEN {Start} ELSE OneStepFrom(f[k - 1])
      /\ \A k \in 0..e : g[k] = IF k = 0 THEN {Start} ELSE OneStepFrom(g[k - 1])
  BY DEF AreLayers
<1>2. 0 \in S
  <2>1. 0 \in 0..d /\ 0 \in 0..e
    OBVIOUS
  <2>2. f[0] = {Start} /\ g[0] = {Start}
    BY <1>1, <2>1
  <2> QED
    BY <2>2
<1>3. ASSUME NEW n \in Nat, n \in S PROVE n + 1 \in S
  <2> SUFFICES ASSUME n + 1 <= d, n + 1 <= e PROVE f[n + 1] = g[n + 1]
    OBVIOUS
  <2>1. /\ n + 1 \in 0..d /\ n + 1 \in 0..e /\ n + 1 # 0 /\ (n + 1) - 1 = n
        /\ n <= d /\ n <= e
    OBVIOUS
  <2>2. f[n] = g[n]
    BY <1>3, <2>1
  <2>3. f[n + 1] = OneStepFrom(f[n]) /\ g[n + 1] = OneStepFrom(g[n])
    BY <1>1, <2>1
  <2> QED
    BY <2>2, <2>3
<1>4. Nat \subseteq S
  <2> HIDE DEF S
  <2> QED
    BY <1>2, <1>3, NaturalsByStep
<1> QED
  BY <1>4

LEMMA LayersExtend ==
    ASSUME NEW d \in Nat, NEW f, AreLayers(f, d)
    PROVE  \E g : AreLayers(g, d + 1)
<1> DEFINE g == [k \in 0..(d + 1) |-> IF k = d + 1 THEN OneStepFrom(f[d]) ELSE f[k]]
<1>1. \A k \in 0..d : f[k] = IF k = 0 THEN {Start} ELSE OneStepFrom(f[k - 1])
  BY DEF AreLayers
<1>2. \A k \in 0..(d + 1) : g[k] = IF k = d + 1 THEN OneStepFrom(f[d]) ELSE f[k]
  OBVIOUS
<1>3. ASSUME NEW k \in 0..(d + 1)
      PROVE  g[k] = IF k = 0 THEN {Start} ELSE OneStepFrom(g[k - 1])
  <2>1. CASE k = d + 1
    <3>1. k # 0 /\ k - 1 = d /\ d \in 0..(d + 1) /\ d # d + 1
      BY <2>1
    <3>2. g[d] = f[d] /\ g[k] = OneStepFrom(f[d])
      BY <1>2, <2>1, <3>1
    <3> HIDE DEF g
    <3> QED
      BY <3>1, <3>2
  <2>2. CASE k # d + 1 /\ k # 0
    <3>1. k \in 0..d /\ k - 1 \in 0..(d + 1) /\ k - 1 # d + 1
      BY <2>2
    <3>2. g[k] = f[k] /\ g[k - 1] = f[k - 1]
      BY <1>2, <2>2, <3>1
    <3> HIDE DEF g
    <3> QED
      BY <1>1, <2>2, <3>1, <3>2
  <2>3. CASE k = 0
    <3>1. 0 \in 0..d /\ 0 # d + 1
      OBVIOUS
    <3>2. g[0] = f[0]
      BY <1>2, <2>3, <3>1
    <3> HIDE DEF g
    <3> QED
      BY <1>1, <2>3, <3>1, <3>2
  <2> QED
    BY <2>1, <2>2, <2>3
<1>4. g = [k \in 0..(d + 1) |-> IF k = 0 THEN {Start} ELSE OneStepFrom(g[k - 1])]
  <2>1. g = [k \in 0..(d + 1) |-> g[k]]
    OBVIOUS
  <2> HIDE DEF g
  <2> QED
    BY <1>3, <2>1
<1> QED
  BY <1>4 DEF AreLayers

LEMMA LayersExist == \A d \in Nat : \E f : AreLayers(f, d)
<1> DEFINE S == {d \in Nat : \E f : AreLayers(f, d)}
<1>1. 0 \in S
  <2> DEFINE f == [k \in 0..0 |-> {Start}]
  <2>1. f = [k \in 0..0 |-> IF k = 0 THEN {Start} ELSE OneStepFrom(f[k - 1])]
    <3>1. \A k \in 0..0 : k = 0
      OBVIOUS
    <3> QED
      BY <3>1
  <2> QED
    BY <2>1 DEF AreLayers
<1>2. ASSUME NEW n \in Nat, n \in S PROVE n + 1 \in S
  BY <1>2, LayersExtend
<1>3. Nat \subseteq S
  <2> HIDE DEF S
  <2> QED
    BY <1>1, <1>2, NaturalsByStep
<1> QED
  BY <1>3

LEMMA WithinLayer ==
    ASSUME NEW d \in Nat
    PROVE  \E f : AreLayers(f, d) /\ Within(d) = f[d]
<1> DEFINE f == CHOOSE f : AreLayers(f, d)
<1>1. AreLayers(f, d)
  BY LayersExist
<1>2. Within(d) = f[d]
  BY DEF Within, AreLayers
<1> QED
  BY <1>1, <1>2

(* The recursion of Within. *)
LEMMA WithinZero == Within(0) = {Start}
<1>1. PICK f : AreLayers(f, 0) /\ Within(0) = f[0]
  BY WithinLayer
<1> QED
  BY <1>1 DEF AreLayers

LEMMA WithinStep == ASSUME NEW d \in Nat PROVE Within(d + 1) = OneStepFrom(Within(d))
<1>1. d + 1 \in Nat /\ d + 1 # 0 /\ (d + 1) - 1 = d /\ d + 1 \in 0..(d + 1) /\ d <= d + 1
  OBVIOUS
<1>2. PICK f : AreLayers(f, d) /\ Within(d) = f[d]
  BY WithinLayer
<1>3. PICK g : AreLayers(g, d + 1) /\ Within(d + 1) = g[d + 1]
  BY <1>1, WithinLayer
<1>4. g[d + 1] = OneStepFrom(g[d])
  BY <1>1, <1>3 DEF AreLayers
<1>5. f[d] = g[d]
  BY <1>1, <1>2, <1>3, LayersAgree
<1> QED
  BY <1>2, <1>3, <1>4, <1>5

(* A layer that adds nothing is the last. *)
LEMMA WithinFixed ==
    ASSUME NEW d \in Nat, OneStepFrom(Within(d)) = Within(d)
    PROVE  \A e \in Nat : d <= e => Within(e) = Within(d)
<1> DEFINE S == {e \in Nat : d <= e => Within(e) = Within(d)}
<1>1. 0 \in S
  <2>1. d <= 0 => d = 0
    OBVIOUS
  <2> QED
    BY <2>1
<1>2. ASSUME NEW n \in Nat, n \in S PROVE n + 1 \in S
  <2>1. n + 1 \in Nat /\ (d <= n + 1 => d <= n \/ d = n + 1)
    OBVIOUS
  <2>2. d <= n => Within(n + 1) = Within(d)
    BY <1>2, WithinStep
  <2> QED
    BY <2>1, <2>2
<1>3. Nat \subseteq S
  <2> HIDE DEF S
  <2> QED
    BY <1>1, <1>2, NaturalsByStep
<1> QED
  BY <1>3

LEMMA WithinStays ==
    ASSUME UNCHANGED system, NEW d
    PROVE  Within(d)' = Within(d)
BY DEF Within, OneStepFrom, LeadsTo

-----------------------------------------------------------------------------
(* The breadth-first order: what was seen before this round is what lies within *)
(* `round` steps, what this round found lies one step further, and a trace is   *)
(* as long as the round that found its state.                                  *)
PairsTried ==
    (DOMAIN seen \ Waiting) \X Action \cup {<<Visited, Actions[i]>> : i \in 1..(at - 1)}

Layered ==
    /\ round <= depth
    /\ DOMAIN seen \ next_frontier = Within(round)
    /\ frontier \subseteq Within(round)
    /\ next_frontier \subseteq Within(round + 1)
    /\ round = depth => next_frontier = {} /\ at = 1 /\ PairsTried = Tried(round)
    /\ done => round = depth \/ Exhausted
    /\ \A s \in frontier : Len(seen[s]) = round
    /\ \A s \in next_frontier : Len(seen[s]) = round + 1

AppliedOf(P) == {p \in P : system.apply[p].tag = "Applied"}

RefusedOf(P) ==
    {p \in P : p[2] \in Promotions /\ system.apply[p] = Rejected("OldGateEffective")}

(* Each pair tried was counted once. *)
Counted ==
    /\ IsFiniteSet(PairsTried)
    /\ transitions_explored = Cardinality(AppliedOf(PairsTried))
    /\ rejected_promotions = Cardinality(RefusedOf(PairsTried))

(* What is reported replays. *)
Genuine(v) ==
    \E s \in States :
        EndsIn(v.trace, s) /\ Unsafe(s) /\ v.active_writers = system.active_writers[s]

Replayed ==
    /\ \A s \in DOMAIN seen : EndsIn(seen[s], s)
    /\ \A i \in DOMAIN violations : Genuine(violations[i])
    /\ violations # <<>> => \E s \in DOMAIN seen : Unsafe(s)
    /\ violations # <<>> => \A s \in Within(Len(violations[1].trace) - 1) : ~Unsafe(s)

SearchInv == IInv /\ Layered /\ Counted /\ Replayed

(* What one visit does to the states seen, whatever apply answers. *)
LEMMA VisitEffect ==
    ASSUME IInv, VisitApplied \/ VisitRejected
    PROVE  /\ Visiting /\ Advance /\ UNCHANGED <<system, depth, round, done>>
           /\ next_frontier \subseteq next_frontier'
           /\ DOMAIN seen' \ next_frontier' = DOMAIN seen \ next_frontier
           /\ DOMAIN seen' = DOMAIN seen \cup next_frontier'
           /\ \A s \in DOMAIN seen : seen'[s] = seen[s]
           /\ \A s \in next_frontier' \ next_frontier :
                 /\ LeadsTo(Visited, Actions[at], s) /\ s \in States
                 /\ seen'[s] = Append(seen[Visited], Actions[at])
<1>1. CASE VisitRejected
  <2>1. /\ Visiting /\ Advance /\ UNCHANGED <<system, depth, round, done>>
        /\ UNCHANGED <<next_frontier, seen>>
    BY <1>1 DEF VisitRejected
  <2> QED
    BY <2>1 DEF IInv, TypeOK
<1>2. CASE VisitApplied
  <2> DEFINE o == system.apply[<<Visited, Actions[at]>>]
             trace == Append(seen[Visited], Actions[at])
  <2>1. /\ Visiting /\ Advance /\ o.tag = "Applied"
        /\ UNCHANGED <<system, depth, round, done>>
        /\ IF Fresh(o.next)
           THEN /\ seen' = [s \in DOMAIN seen \cup {o.next} |->
                             IF s = o.next THEN trace ELSE seen[s]]
                /\ next_frontier' = next_frontier \cup {o.next}
           ELSE UNCHANGED <<seen, next_frontier>>
    BY <1>2 DEF VisitApplied, NextTrace
  <2>2. o \in Outcome
    BY <2>1, Answered
  <2>3. o.next \in States /\ o = Applied(o.next)
    <3> HIDE DEF o
    <3> QED
      BY <2>1, <2>2, OutcomeShape
  <2>4. LeadsTo(Visited, Actions[at], o.next)
    BY <2>3 DEF LeadsTo
  <2> HIDE DEF o, trace
  <2>5. CASE ~Fresh(o.next)
    <3>1. UNCHANGED <<seen, next_frontier>>
      BY <2>1, <2>5
    <3>2. next_frontier \subseteq DOMAIN seen
      BY DEF IInv, TypeOK
    <3>3. /\ next_frontier' \ next_frontier = {}
          /\ DOMAIN seen' = DOMAIN seen /\ DOMAIN seen = DOMAIN seen \cup next_frontier'
          /\ DOMAIN seen' \ next_frontier' = DOMAIN seen \ next_frontier
      BY <3>1, <3>2
    <3> QED
      BY <2>1, <3>1, <3>3
  <2>6. CASE Fresh(o.next)
    <3>1. PICK n : n = o.next
      OBVIOUS
    <3>2. /\ seen' = [s \in DOMAIN seen \cup {n} |-> IF s = n THEN trace ELSE seen[s]]
          /\ next_frontier' = next_frontier \cup {n}
          /\ n \notin DOMAIN seen /\ next_frontier \subseteq DOMAIN seen
      BY <2>1, <2>6, <3>1 DEF Fresh, IInv, TypeOK
    <3>3. DOMAIN seen' = DOMAIN seen \cup {n} /\ seen'[n] = trace
          /\ \A s \in DOMAIN seen : seen'[s] = seen[s]
      BY <3>2
    <3>4. DOMAIN seen' \ next_frontier' = DOMAIN seen \ next_frontier
      BY <3>2, <3>3
    <3>5. LeadsTo(Visited, Actions[at], n) /\ n \in States
      BY <2>3, <2>4, <3>1
    <3> QED
      BY <2>1, <3>2, <3>3, <3>4, <3>5 DEF trace
  <2> QED
    BY <2>5, <2>6
<1> QED
  BY <1>1, <1>2

(* A visit tries one pair more, one not tried before. *)
LEMMA VisitPair ==
    ASSUME IInv, Layered, VisitApplied \/ VisitRejected
    PROVE  /\ PairsTried' = PairsTried \cup {<<Visited, Actions[at]>>}
           /\ <<Visited, Actions[at]>> \notin PairsTried
<1> DEFINE D == DOMAIN seen \ next_frontier
<1>0. PICK v : v = Visited
  OBVIOUS
<1>1. Visiting /\ Advance /\ DOMAIN seen' \ next_frontier' = D
  BY VisitEffect
<1>2. v \in frontier /\ frontier \subseteq D
  BY <1>0, <1>1, Answered DEF Layered
<1>3. /\ at \in 1..Len(Actions) /\ Len(Actions) \in Nat /\ DOMAIN Actions = 1..Len(Actions)
      /\ \A a \in Action : \E i \in 1..Len(Actions) : a = Actions[i]
      /\ \A i \in 1..Len(Actions) : Actions[i] \in Action
  BY <1>1, Answered, ActionIndexed
<1>4. PairsTried = (D \ frontier) \X Action \cup {<<v, Actions[i]>> : i \in 1..(at - 1)}
  <2>1. DOMAIN seen \ Waiting = D \ frontier
    BY DEF Waiting
  <2> QED
    BY <1>0, <2>1 DEF PairsTried
<1>5. DOMAIN seen' \ Waiting' = D \ frontier'
  BY <1>1 DEF Waiting
<1> HIDE DEF D
<1>6. <<v, Actions[at]>> \notin PairsTried
  <2>1. <<v, Actions[at]>> \notin (D \ frontier) \X Action
    BY <1>2
  <2>2. ASSUME NEW i \in 1..(at - 1) PROVE Actions[i] # Actions[at]
    <3>1. i \in DOMAIN Actions /\ at \in DOMAIN Actions /\ i # at
      BY <1>3
    <3> QED
      BY <3>1 DEF ExploreAssumption
  <2> QED
    BY <1>4, <2>1, <2>2
<1>7. CASE at < Len(Actions)
  <2>1. at' = at + 1 /\ frontier' = frontier
    BY <1>7 DEF Advance, VisitApplied, VisitRejected
  <2>2. Visited' = v
    BY <1>0, <2>1 DEF Visited
  <2>3. 1..(at' - 1) = 1..(at - 1) \cup {at}
    BY <1>3, <2>1
  <2>4. PairsTried' = (D \ frontier) \X Action \cup {<<v, Actions[i]>> : i \in 1..(at' - 1)}
    BY <1>5, <2>1, <2>2 DEF PairsTried
  <2>5. PairsTried' = PairsTried \cup {<<v, Actions[at]>>}
    BY <1>4, <2>3, <2>4
  <2> QED
    BY <1>0, <1>6, <2>5
<1>8. CASE ~(at < Len(Actions))
  <2>1. at = Len(Actions) /\ at' = 1 /\ frontier' = frontier \ {v}
    BY <1>0, <1>3, <1>8 DEF Advance, VisitApplied, VisitRejected
  <2>2. D \ frontier' = (D \ frontier) \cup {v} /\ 1..(at' - 1) = {}
    BY <1>2, <2>1
  <2>3. PairsTried' = ((D \ frontier) \cup {v}) \X Action
    BY <1>5, <2>2 DEF PairsTried
  <2>4. 1..Len(Actions) = 1..(at - 1) \cup {at}
    BY <1>3, <2>1
  <2>5. {v} \X Action = {<<v, Actions[i]>> : i \in 1..(at - 1)} \cup {<<v, Actions[at]>>}
    BY <1>3, <2>4
  <2>6. PairsTried' = PairsTried \cup {<<v, Actions[at]>>}
    BY <1>4, <2>3, <2>5
  <2> QED
    BY <1>0, <1>6, <2>6
<1> QED
  BY <1>7, <1>8

(* One pair more in a set counts as one more, or as none. *)
LEMMA OnePairMore ==
    ASSUME NEW P, IsFiniteSet(P), NEW p, p \notin P
    PROVE  /\ IsFiniteSet(P \cup {p})
           /\ Cardinality(AppliedOf(P)) \in Nat /\ Cardinality(RefusedOf(P)) \in Nat
           /\ system.apply[p].tag = "Applied" =>
                 Cardinality(AppliedOf(P \cup {p})) = Cardinality(AppliedOf(P)) + 1
           /\ system.apply[p].tag # "Applied" =>
                 Cardinality(AppliedOf(P \cup {p})) = Cardinality(AppliedOf(P))
           /\ p[2] \in Promotions /\ system.apply[p] = Rejected("OldGateEffective") =>
                 Cardinality(RefusedOf(P \cup {p})) = Cardinality(RefusedOf(P)) + 1
           /\ ~(p[2] \in Promotions /\ system.apply[p] = Rejected("OldGateEffective")) =>
                 Cardinality(RefusedOf(P \cup {p})) = Cardinality(RefusedOf(P))
<1>1. /\ AppliedOf(P) \subseteq P /\ p \notin AppliedOf(P)
      /\ RefusedOf(P) \subseteq P /\ p \notin RefusedOf(P)
  BY DEF AppliedOf, RefusedOf
<1>2. IsFiniteSet(AppliedOf(P)) /\ IsFiniteSet(RefusedOf(P))
  BY <1>1, FS_Subset
<1>3. /\ Cardinality(AppliedOf(P)) \in Nat /\ Cardinality(RefusedOf(P)) \in Nat
      /\ Cardinality(AppliedOf(P) \cup {p}) = Cardinality(AppliedOf(P)) + 1
      /\ Cardinality(RefusedOf(P) \cup {p}) = Cardinality(RefusedOf(P)) + 1
  BY <1>1, <1>2, FS_AddElement, FS_CardinalityType
<1>4. /\ system.apply[p].tag = "Applied" => AppliedOf(P \cup {p}) = AppliedOf(P) \cup {p}
      /\ system.apply[p].tag # "Applied" => AppliedOf(P \cup {p}) = AppliedOf(P)
  BY DEF AppliedOf
<1>5. /\ p[2] \in Promotions /\ system.apply[p] = Rejected("OldGateEffective")
            => RefusedOf(P \cup {p}) = RefusedOf(P) \cup {p}
      /\ ~(p[2] \in Promotions /\ system.apply[p] = Rejected("OldGateEffective"))
            => RefusedOf(P \cup {p}) = RefusedOf(P)
  BY DEF RefusedOf
<1>6. IsFiniteSet(P \cup {p})
  BY FS_AddElement
<1> QED
  BY <1>3, <1>4, <1>5, <1>6

LEMMA CountedVisit ==
    ASSUME IInv, Layered, Counted, VisitApplied \/ VisitRejected
    PROVE  Counted'
<1> DEFINE p == <<Visited, Actions[at]>>
           Q == PairsTried'
<1>1. Q = PairsTried \cup {p} /\ p \notin PairsTried
  BY VisitPair
<1>2. UNCHANGED system
  BY VisitEffect
<1>3. /\ AppliedOf(PairsTried)' = AppliedOf(Q)
      /\ RefusedOf(PairsTried)' = RefusedOf(Q)
  BY <1>2 DEF AppliedOf, RefusedOf
<1>4. p[2] = Actions[at]
  OBVIOUS
<1> HIDE DEF p, Q
<1>5. /\ IsFiniteSet(Q)
      /\ Cardinality(AppliedOf(PairsTried)) \in Nat
      /\ Cardinality(RefusedOf(PairsTried)) \in Nat
      /\ system.apply[p].tag = "Applied" =>
            Cardinality(AppliedOf(Q)) = Cardinality(AppliedOf(PairsTried)) + 1
      /\ system.apply[p].tag # "Applied" =>
            Cardinality(AppliedOf(Q)) = Cardinality(AppliedOf(PairsTried))
      /\ p[2] \in Promotions /\ system.apply[p] = Rejected("OldGateEffective") =>
            Cardinality(RefusedOf(Q)) = Cardinality(RefusedOf(PairsTried)) + 1
      /\ ~(p[2] \in Promotions /\ system.apply[p] = Rejected("OldGateEffective")) =>
            Cardinality(RefusedOf(Q)) = Cardinality(RefusedOf(PairsTried))
  BY <1>1, OnePairMore DEF Counted
<1>6. IsFiniteSet(PairsTried)'
  BY <1>5 DEF Q
<1>7. CASE VisitApplied
  <2>1. /\ system.apply[p].tag = "Applied"
        /\ transitions_explored' = transitions_explored + 1
        /\ rejected_promotions' = rejected_promotions
    BY <1>7 DEF VisitApplied, p
  <2>2. system.apply[p] # Rejected("OldGateEffective")
    BY <2>1 DEF Rejected
  <2> QED
    BY <1>3, <1>5, <1>6, <2>1, <2>2 DEF Counted
<1>8. CASE VisitRejected
  <2>1. /\ system.apply[p].tag = "Rejected"
        /\ transitions_explored' = transitions_explored
        /\ rejected_promotions' = rejected_promotions
              + IF RefusedForSafety(Actions[at], system.apply[p].reason) THEN 1 ELSE 0
    BY <1>8 DEF VisitRejected, p
  <2>2. system.apply[p].tag # "Applied"
    BY <2>1
  <2>3. /\ system.apply[p] \in Outcome
        /\ rejected_promotions \in Nat
    BY <1>8, Answered DEF VisitRejected, IInv, TypeOK, p
  <2>4. PICK r \in Rejection : system.apply[p] = Rejected(r)
    BY <2>1, <2>3 DEF Outcome, Applied
  <2>5. system.apply[p].reason = r
    BY <2>4 DEF Rejected
  <2>6. system.apply[p] = Rejected("OldGateEffective") <=> r = "OldGateEffective"
    BY <2>4 DEF Rejected
  <2>7. r # "NoStateChange" <=> r = "OldGateEffective"
    BY DEF Rejection
  <2>8. RefusedForSafety(Actions[at], system.apply[p].reason) <=>
           p[2] \in Promotions /\ system.apply[p] = Rejected("OldGateEffective")
    BY <1>4, <2>5, <2>6, <2>7 DEF RefusedForSafety
  <2>9. rejected_promotions' = Cardinality(RefusedOf(Q))
    BY <1>5, <2>1, <2>3, <2>8 DEF Counted
  <2>10. transitions_explored' = Cardinality(AppliedOf(Q))
    BY <1>5, <2>1, <2>2 DEF Counted
  <2> QED
    BY <1>3, <1>6, <2>9, <2>10 DEF Counted
<1> QED
  BY <1>7, <1>8

(* A new round begins with the same pairs tried. *)
LEMMA PairsNextRound ==
    ASSUME IInv, Layered, NextRound
    PROVE  /\ PairsTried = Within(round) \X Action
           /\ PairsTried' = PairsTried
<1>1. /\ frontier = {} /\ at = 1 /\ at' = at /\ seen' = seen
      /\ frontier' = next_frontier /\ next_frontier' = {}
  BY DEF NextRound, IInv, AllTested
<1>2. 1..(at - 1) = {} /\ 1..(at' - 1) = {}
  BY <1>1
<1>3. DOMAIN seen \ Waiting = Within(round) /\ DOMAIN seen' \ Waiting' = Within(round)
  BY <1>1 DEF Waiting, Layered
<1> QED
  BY <1>2, <1>3 DEF PairsTried

LEMMA CountedStep == IInv /\ Layered /\ Counted /\ [Next]_vars => Counted'
<1> SUFFICES ASSUME IInv, Layered, Counted, [Next]_vars PROVE Counted'
  OBVIOUS
<1>1. CASE VisitApplied \/ VisitRejected
  BY <1>1, CountedVisit
<1>2. CASE NextRound
  <2>1. UNCHANGED <<system, transitions_explored, rejected_promotions>>
    BY <1>2 DEF NextRound, counts
  <2>2. PairsTried' = PairsTried
    BY <1>2, PairsNextRound
  <2> QED
    BY <2>1, <2>2 DEF Counted, AppliedOf, RefusedOf
<1>3. CASE Return \/ UNCHANGED vars
  <2>1. UNCHANGED <<system, search, counts>>
    BY <1>3 DEF Return, vars
  <2>2. PairsTried' = PairsTried
    BY <2>1 DEF PairsTried, Waiting, Visited, search
  <2> QED
    BY <2>1, <2>2 DEF Counted, AppliedOf, RefusedOf, counts
<1> QED
  BY <1>1, <1>2, <1>3 DEF Next

-----------------------------------------------------------------------------
(* The search starts in what the report rests on. *)
LEMMA LayeredStart ==
    ASSUME NEW d \in Nat, ExploreFrom(d)
    PROVE  Layered
<1>1. /\ round = 0 /\ depth = d /\ frontier = {Start} /\ at = 1 /\ next_frontier = {}
      /\ seen = [s \in {Start} |-> <<>>] /\ done = FALSE
  BY DEF ExploreFrom
<1>2. DOMAIN seen = {Start} /\ seen[Start] = <<>> /\ Within(0) = {Start}
  BY <1>1, WithinZero
<1>3. PairsTried = {}
  <2>1. 1..(at - 1) = {} /\ DOMAIN seen \ Waiting = {}
    BY <1>1, <1>2 DEF Waiting
  <2> QED
    BY <2>1 DEF PairsTried
<1>4. Len(<<>>) = 0 /\ 0 <= d
  OBVIOUS
<1> QED
  BY <1>1, <1>2, <1>3, <1>4 DEF Layered, Tried

LEMMA CountedStart ==
    ASSUME NEW d \in Nat, ExploreFrom(d)
    PROVE  Counted
<1>1. /\ frontier = {Start} /\ at = 1 /\ DOMAIN seen = {Start}
      /\ transitions_explored = 0 /\ rejected_promotions = 0
  BY DEF ExploreFrom
<1>2. PairsTried = {}
  <2>1. 1..(at - 1) = {} /\ DOMAIN seen \ Waiting = {}
    BY <1>1 DEF Waiting
  <2> QED
    BY <2>1 DEF PairsTried
<1>3. AppliedOf(PairsTried) = {} /\ RefusedOf(PairsTried) = {}
  BY <1>2 DEF AppliedOf, RefusedOf
<1> QED
  BY <1>1, <1>2, <1>3, FS_EmptySet DEF Counted

LEMMA ReplayedStart ==
    ASSUME NEW d \in Nat, ExploreFrom(d)
    PROVE  Replayed
<1>1. seen = [s \in {Start} |-> <<>>] /\ violations = <<>>
  BY DEF ExploreFrom
<1>2. DOMAIN seen = {Start} /\ seen[Start] = <<>> /\ DOMAIN violations = {}
  BY <1>1
<1>3. EndsIn(<<>>, Start)
  <2> DEFINE path == [i \in 0..0 |-> Start]
  <2>1. Len(<<>>) = 0 /\ DOMAIN <<>> = {}
    OBVIOUS
  <2>2. path \in [0..Len(<<>>) -> States] /\ path[0] = Start /\ path[Len(<<>>)] = Start
    BY <2>1 DEF ExploreAssumption
  <2> HIDE DEF path
  <2> QED
    BY <2>1, <2>2 DEF EndsIn
<1> QED
  BY <1>1, <1>2, <1>3 DEF Replayed

-----------------------------------------------------------------------------
LEMMA LayeredVisit ==
    ASSUME IInv, Layered, VisitApplied \/ VisitRejected
    PROVE  Layered'
<1>1. /\ Visiting /\ Advance /\ UNCHANGED <<system, depth, round, done>>
      /\ next_frontier \subseteq next_frontier'
      /\ DOMAIN seen' \ next_frontier' = DOMAIN seen \ next_frontier
      /\ \A s \in DOMAIN seen : seen'[s] = seen[s]
      /\ \A s \in next_frontier' \ next_frontier :
            /\ LeadsTo(Visited, Actions[at], s) /\ s \in States
            /\ seen'[s] = Append(seen[Visited], Actions[at])
  BY VisitEffect
<1>2. /\ Within(round)' = Within(round) /\ Within(round + 1)' = Within(round + 1)
      /\ Within(round + 1) = OneStepFrom(Within(round))
  BY <1>1, WithinStays, WithinStep DEF IInv, TypeOK
<1>3. /\ Visited \in frontier /\ Visited \in DOMAIN seen /\ Actions[at] \in Action
      /\ frontier' \subseteq frontier
      /\ frontier \subseteq DOMAIN seen /\ next_frontier \subseteq DOMAIN seen
  BY <1>1, Answered, AdvanceTyped DEF IInv, TypeOK
<1>4. next_frontier' \subseteq Within(round + 1)
  <2> SUFFICES ASSUME NEW s \in next_frontier', s \notin next_frontier
               PROVE  s \in Within(round + 1)
    BY DEF Layered
  <2>1. LeadsTo(Visited, Actions[at], s) /\ s \in States /\ Visited \in Within(round)
    BY <1>1, <1>3 DEF Layered
  <2> QED
    BY <1>2, <1>3, <2>1 DEF OneStepFrom
<1>5. round # depth /\ ~done
  BY <1>1 DEF Visiting, RoundsLeft, IInv, TypeOK
<1>6. \A s \in frontier' : Len(seen'[s]) = round
  BY <1>1, <1>3 DEF Layered
<1>7. ASSUME NEW s \in next_frontier' PROVE Len(seen'[s]) = round + 1
  <2>1. CASE s \in next_frontier
    BY <1>1, <1>3, <2>1 DEF Layered
  <2>2. CASE s \notin next_frontier
    <3>1. seen'[s] = Append(seen[Visited], Actions[at])
      BY <1>1, <2>2
    <3>2. seen[Visited] \in Seq(Action) /\ Len(seen[Visited]) = round
      BY <1>3 DEF IInv, TypeOK, Traces, Layered
    <3>3. Len(Append(seen[Visited], Actions[at])) = Len(seen[Visited]) + 1
      BY <1>3, <3>2
    <3> QED
      BY <3>1, <3>2, <3>3
  <2> QED
    BY <2>1, <2>2
<1>8. frontier' \subseteq Within(round)
  BY <1>3 DEF Layered
<1> QED
  BY <1>1, <1>2, <1>4, <1>5, <1>6, <1>7, <1>8 DEF Layered

LEMMA LayeredNextRound ==
    ASSUME IInv, Layered, NextRound
    PROVE  Layered'
<1>1. /\ round' = round + 1 /\ round < depth /\ ~done /\ at = 1
      /\ frontier' = next_frontier /\ next_frontier' = {} /\ frontier = {}
      /\ UNCHANGED <<system, depth, at, seen, done>>
  BY DEF NextRound, RoundsLeft, IInv, AllTested
<1>2. round \in Nat /\ depth \in Nat /\ next_frontier \subseteq DOMAIN seen
      /\ DOMAIN seen \subseteq States
  BY DEF IInv, TypeOK
<1>3. Within(round)' = Within(round + 1) /\ Within(round + 1) = OneStepFrom(Within(round))
  BY <1>1, <1>2, WithinStays, WithinStep
<1>4. Within(round) \cup next_frontier = DOMAIN seen
  BY <1>2 DEF Layered
<1>5. DOMAIN seen = Within(round + 1)
  <2>1. DOMAIN seen \subseteq Within(round + 1)
    BY <1>3, <1>4 DEF Layered, OneStepFrom
  <2>2. ASSUME NEW s \in Within(round), NEW a \in Action, NEW t \in States, LeadsTo(s, a, t)
        PROVE  t \in DOMAIN seen
    <3>1. s \in DOMAIN seen \ Waiting
      BY <1>1 DEF Layered, Waiting
    <3>2. Tested(s, a)
      BY <3>1 DEF IInv, AllTested
    <3> QED
      BY <2>2, <3>2 DEF Tested
  <2>3. Within(round + 1) \subseteq DOMAIN seen
    BY <1>3, <1>4, <2>2 DEF OneStepFrom
  <2> QED
    BY <2>1, <2>3
<1>6. PairsTried' = Within(round) \X Action
  BY PairsNextRound
<1>7. Tried(round)' = Within(round) \X Action
  <2>1. round + 1 # 0 /\ (round + 1) - 1 = round
    BY <1>2
  <2>2. Tried(round + 1) = Within(round) \X Action
    BY <2>1 DEF Tried
  <2> QED
    BY <1>1, <2>2, WithinStays DEF Tried
<1>8. round' <= depth'
  BY <1>1, <1>2
<1>9. \A s \in frontier' : Len(seen'[s]) = round'
  BY <1>1 DEF Layered
<1> QED
  BY <1>1, <1>3, <1>5, <1>6, <1>7, <1>8, <1>9 DEF Layered

LEMMA LayeredStep == IInv /\ Layered /\ [Next]_vars => Layered'
<1> SUFFICES ASSUME IInv, Layered, [Next]_vars PROVE Layered'
  OBVIOUS
<1>1. CASE VisitApplied \/ VisitRejected
  BY <1>1, LayeredVisit
<1>2. CASE NextRound
  BY <1>2, LayeredNextRound
<1>3. CASE Return \/ UNCHANGED vars
  <2>1. UNCHANGED <<system, depth, round, frontier, at, next_frontier, seen>>
    BY <1>3 DEF Return, vars, search
  <2>2. /\ Within(round)' = Within(round) /\ Within(round + 1)' = Within(round + 1)
        /\ Tried(round)' = Tried(round)
    BY <2>1, WithinStays DEF Tried
  <2>3. PairsTried' = PairsTried /\ Exhausted' = Exhausted
    BY <2>1 DEF PairsTried, Waiting, Visited, Exhausted
  <2>4. done' => round = depth \/ Exhausted
    <3>1. round <= depth /\ round \in Nat /\ depth \in Nat
      BY DEF Layered, IInv, TypeOK
    <3>2. done => round = depth \/ Exhausted
      BY DEF Layered
    <3>3. CASE Return
      BY <3>1, <3>3 DEF Return, RoundsLeft
    <3>4. CASE UNCHANGED vars
      BY <3>2, <3>4 DEF vars
    <3> QED
      BY <1>3, <3>3, <3>4
  <2> QED
    BY <2>1, <2>2, <2>3, <2>4 DEF Layered
<1> QED
  BY <1>1, <1>2, <1>3 DEF Next

LEMMA GenuineStays ==
    ASSUME UNCHANGED system, NEW v, Genuine(v)
    PROVE  Genuine(v)'
BY DEF Genuine, EndsIn, LeadsTo, Unsafe

LEMMA EndsInStays ==
    ASSUME UNCHANGED system, NEW trace, NEW s, EndsIn(trace, s)
    PROVE  EndsIn(trace, s)'
BY DEF EndsIn, LeadsTo

(* One action more, one state further. *)
LEMMA EndsInNext ==
    ASSUME NEW trace \in Seq(Action), NEW s, NEW a \in Action, NEW t \in States,
           EndsIn(trace, s), LeadsTo(s, a, t)
    PROVE  EndsIn(Append(trace, a), t)
<1>1. PICK path \in [0..Len(trace) -> States] :
         /\ path[0] = Start /\ path[Len(trace)] = s
         /\ \A i \in DOMAIN trace : LeadsTo(path[i - 1], trace[i], path[i])
  BY DEF EndsIn
<1> DEFINE n == Len(trace)
           longer == [i \in 0..(n + 1) |-> IF i = n + 1 THEN t ELSE path[i]]
<1>2. /\ n \in Nat /\ Len(Append(trace, a)) = n + 1 /\ DOMAIN trace = 1..n
      /\ DOMAIN Append(trace, a) = 1..(n + 1)
      /\ Append(trace, a)[n + 1] = a
      /\ \A i \in 1..n : Append(trace, a)[i] = trace[i]
  OBVIOUS
<1> HIDE DEF n
<1>3. /\ longer[n + 1] = t
      /\ \A i \in 0..n : longer[i] = path[i]
  <2>1. n + 1 \in 0..(n + 1) /\ \A i \in 0..n : i \in 0..(n + 1) /\ i # n + 1
    BY <1>2
  <2> QED
    BY <2>1
<1>4. longer \in [0..(n + 1) -> States]
  <2>1. \A i \in 0..(n + 1) : i = n + 1 \/ i \in 0..n
    BY <1>2
  <2>2. \A i \in 0..n : path[i] \in States
    BY <1>1 DEF n
  <2> QED
    BY <2>1, <2>2
<1> HIDE DEF longer
<1>5. longer[0] = Start
  <2>1. 0 \in 0..n
    BY <1>2
  <2> QED
    BY <1>1, <1>3, <2>1
<1>6. ASSUME NEW i \in 1..(n + 1)
      PROVE  LeadsTo(longer[i - 1], Append(trace, a)[i], longer[i])
  <2>1. CASE i = n + 1
    <3>1. i - 1 = n /\ n \in 0..n
      <4>1. n \in Nat
        BY <1>2
      <4> QED
        BY <2>1, <4>1
    <3>2. longer[i - 1] = s
      BY <1>1, <1>3, <3>1 DEF n
    <3> QED
      BY <1>2, <1>3, <2>1, <3>2
  <2>2. CASE i # n + 1
    <3>1. i \in 1..n /\ i - 1 \in 0..n /\ i \in 0..n
      BY <1>2, <2>2
    <3>2. LeadsTo(path[i - 1], trace[i], path[i])
      BY <1>1, <1>2, <3>1
    <3> QED
      BY <1>2, <1>3, <3>1, <3>2
  <2> QED
    BY <2>1, <2>2
<1> QED
  BY <1>2, <1>3, <1>4, <1>5, <1>6 DEF EndsIn

LEMMA ReplayedVisit ==
    ASSUME IInv, Layered, Replayed, VisitApplied \/ VisitRejected
    PROVE  Replayed'
<1>1. /\ Visiting /\ UNCHANGED <<system, round>>
      /\ DOMAIN seen' = DOMAIN seen \cup next_frontier'
      /\ \A s \in DOMAIN seen : seen'[s] = seen[s]
      /\ \A s \in next_frontier' \ next_frontier :
            /\ LeadsTo(Visited, Actions[at], s) /\ s \in States
            /\ seen'[s] = Append(seen[Visited], Actions[at])
  BY VisitEffect
<1>2. /\ Visited \in frontier /\ Visited \in DOMAIN seen /\ Actions[at] \in Action
      /\ next_frontier \subseteq DOMAIN seen /\ seen[Visited] \in Seq(Action)
  BY <1>1, Answered DEF IInv, TypeOK, Traces
<1>3. \A s \in DOMAIN seen' : EndsIn(seen'[s], s)
  <2> SUFFICES ASSUME NEW s \in DOMAIN seen' PROVE EndsIn(seen'[s], s)
    OBVIOUS
  <2>1. CASE s \in DOMAIN seen
    BY <1>1, <2>1 DEF Replayed
  <2>2. CASE s \notin DOMAIN seen
    <3>1. s \in next_frontier' \ next_frontier
      BY <1>1, <1>2, <2>2
    <3>2. /\ LeadsTo(Visited, Actions[at], s) /\ s \in States
          /\ seen'[s] = Append(seen[Visited], Actions[at])
      BY <1>1, <3>1
    <3>3. EndsIn(seen[Visited], Visited)
      BY <1>2 DEF Replayed
    <3> QED
      BY <1>2, <3>2, <3>3, EndsInNext
  <2> QED
    BY <2>1, <2>2
<1>4. (\A s \in DOMAIN seen : EndsIn(seen[s], s))'
  <2> SUFFICES ASSUME NEW s \in DOMAIN seen' PROVE EndsIn(seen[s], s)'
    OBVIOUS
  <2>1. PICK trace : trace = seen'[s]
    OBVIOUS
  <2>2. EndsIn(trace, s)
    BY <1>3, <2>1
  <2>3. EndsIn(trace, s)'
    BY <1>1, <2>2, EndsInStays
  <2> QED
    BY <2>1, <2>3
<1>5. CASE violations' = violations
  <2>1. \A s : Unsafe(s)' <=> Unsafe(s)
    BY <1>1 DEF Unsafe
  <2>2. ASSUME NEW i \in DOMAIN violations PROVE Genuine(violations[i])'
    <3>1. PICK v : v = violations[i]
      OBVIOUS
    <3>2. Genuine(v)'
      BY <1>1, <3>1, GenuineStays DEF Replayed
    <3> QED
      BY <1>5, <3>1, <3>2
  <2>3. violations' # <<>> => (\E s \in DOMAIN seen : Unsafe(s))'
    BY <1>1, <1>5, <2>1 DEF Replayed
  <2>4. Within(Len(violations[1].trace) - 1)' = Within(Len(violations[1].trace) - 1)
    BY <1>1, <1>5, WithinStays
  <2> QED
    BY <1>4, <1>5, <2>1, <2>2, <2>3, <2>4 DEF Replayed
<1>6. CASE violations' # violations
  <2> DEFINE o == system.apply[<<Visited, Actions[at]>>]
             trace == Append(seen[Visited], Actions[at])
             found == [trace |-> trace, active_writers |-> system.active_writers[o.next]]
  <2>1. /\ o.tag = "Applied" /\ Unsafe(o.next)
        /\ violations' = Append(violations, found)
        /\ o.next \in DOMAIN seen'
    <3>1. VisitApplied
      BY <1>6 DEF VisitRejected
    <3>2. /\ o.tag = "Applied" /\ Unsafe(o.next)
          /\ violations' = Append(violations, found)
          /\ IF Fresh(o.next)
             THEN seen' = [s \in DOMAIN seen \cup {o.next} |->
                               IF s = o.next THEN trace ELSE seen[s]]
             ELSE seen' = seen
      BY <1>6, <3>1 DEF VisitApplied, NextTrace
    <3> HIDE DEF o, trace, found
    <3>3. DOMAIN seen' = DOMAIN seen \cup {o.next} \/ (DOMAIN seen' = DOMAIN seen /\ o.next \in DOMAIN seen)
      BY <3>2 DEF Fresh
    <3> QED
      BY <3>2, <3>3
  <2>2. PICK n \in States : n = o.next /\ o = Applied(n)
    <3>1. o \in Outcome
      BY <1>1, Answered
    <3> HIDE DEF o
    <3> QED
      BY <2>1, <3>1, OutcomeShape
  <2>3. found.trace = trace /\ found.active_writers = system.active_writers[n]
    BY <2>2
  <2>4. EndsIn(trace, n)
    <3>1. LeadsTo(Visited, Actions[at], n) /\ EndsIn(seen[Visited], Visited)
      BY <1>2, <2>2 DEF LeadsTo, Replayed
    <3> QED
      BY <1>2, <3>1, EndsInNext
  <2>5. found \in [trace : Traces, active_writers : Nat]
    <3>1. system.active_writers \in [States -> Nat]
      BY DEF IInv, TypeOK, ExploreAssumption
    <3>2. trace \in Traces
      BY <1>2, AppendTyped DEF Traces
    <3> QED
      BY <2>2, <3>1, <3>2
  <2>6. Len(trace) - 1 = round
    <3>1. Len(trace) = Len(seen[Visited]) + 1 /\ Len(seen[Visited]) = round /\ round \in Nat
      BY <1>2 DEF Layered, IInv, TypeOK
    <3> QED
      BY <3>1
  <2> HIDE DEF o, trace, found
  <2>7. Genuine(found)
    BY <2>1, <2>2, <2>3, <2>4 DEF Genuine
  <2>8. violations \in Seq([trace : Traces, active_writers : Nat])
    BY DEF IInv, TypeOK
  <2>9. /\ DOMAIN violations' = 1..(Len(violations) + 1) /\ Len(violations) \in Nat
        /\ DOMAIN violations = 1..Len(violations)
        /\ violations'[Len(violations) + 1] = found
        /\ \A i \in DOMAIN violations : violations'[i] = violations[i]
        /\ violations # <<>> => violations'[1] = violations[1]
        /\ violations = <<>> => violations'[1] = found
    BY <2>1, <2>5, <2>8
  <2>10. \A i \in DOMAIN violations' : Genuine(violations'[i])
    <3> SUFFICES ASSUME NEW i \in DOMAIN violations' PROVE Genuine(violations'[i])
      OBVIOUS
    <3>1. i \in DOMAIN violations \/ i = Len(violations) + 1
      BY <2>9
    <3> QED
      BY <2>7, <2>9, <3>1 DEF Replayed
  <2>11. (\A i \in DOMAIN violations : Genuine(violations[i]))'
    <3> SUFFICES ASSUME NEW i \in DOMAIN violations' PROVE Genuine(violations[i])'
      OBVIOUS
    <3>1. PICK v : v = violations'[i]
      OBVIOUS
    <3>2. Genuine(v)
      BY <2>10, <3>1
    <3>3. Genuine(v)'
      BY <1>1, <3>2, GenuineStays
    <3> QED
      BY <3>1, <3>3
  <2>12. \A s : Unsafe(s)' <=> Unsafe(s)
    BY <1>1 DEF Unsafe
  <2>13. \A s \in Within(Len(violations'[1].trace) - 1) : ~Unsafe(s)
    <3>1. CASE violations # <<>>
      BY <2>9, <3>1 DEF Replayed
    <3>2. CASE violations = <<>>
      <4>1. \A s \in DOMAIN seen : ~Unsafe(s)
        BY <3>2 DEF IInv, OnlyReachable
      <4>2. Within(round) \subseteq DOMAIN seen
        BY DEF Layered
      <4>3. violations'[1].trace = trace
        BY <2>3, <2>9, <3>2
      <4> QED
        BY <2>6, <4>1, <4>2, <4>3
    <3> QED
      BY <3>1, <3>2
  <2>14. PICK m : m = Len(violations'[1].trace) - 1
    OBVIOUS
  <2>15. Within(m)' = Within(m)
    BY <1>1, WithinStays
  <2>16. (\A s \in Within(Len(violations[1].trace) - 1) : ~Unsafe(s))'
    BY <2>12, <2>13, <2>14, <2>15
  <2>17. (\E s \in DOMAIN seen : Unsafe(s))'
    BY <2>1, <2>12
  <2> QED
    BY <1>4, <2>11, <2>16, <2>17 DEF Replayed
<1> QED
  BY <1>5, <1>6

LEMMA ReplayedStep == IInv /\ Layered /\ Replayed /\ [Next]_vars => Replayed'
<1> SUFFICES ASSUME IInv, Layered, Replayed, [Next]_vars PROVE Replayed'
  OBVIOUS
<1>1. CASE VisitApplied \/ VisitRejected
  BY <1>1, ReplayedVisit
<1>2. CASE NextRound \/ Return \/ UNCHANGED vars
  <2>1. UNCHANGED <<system, seen, violations>>
    BY <1>2 DEF NextRound, Return, vars, search, counts
  <2>2. \A s \in DOMAIN seen : EndsIn(seen[s], s)'
    BY <2>1, EndsInStays DEF Replayed
  <2>3. \A i \in DOMAIN violations : Genuine(violations[i])'
    BY <2>1, GenuineStays DEF Replayed
  <2>4. \A s : Unsafe(s)' <=> Unsafe(s)
    BY <2>1 DEF Unsafe
  <2>5. Within(Len(violations[1].trace) - 1)' = Within(Len(violations[1].trace) - 1)
    BY <2>1, WithinStays
  <2> QED
    BY <2>1, <2>2, <2>3, <2>4, <2>5 DEF Replayed
<1> QED
  BY <1>1, <1>2 DEF Next

LEMMA SearchInvStep == SearchInv /\ [Next]_vars => SearchInv'
<1>1. IInv /\ [Next]_vars => IInv'
  BY VisitAppliedStep, VisitRejectedStep, NextRoundStep, ReturnStep DEF Next
<1> QED
  BY <1>1, LayeredStep, CountedStep, ReplayedStep DEF SearchInv

LEMMA SearchInvStart ==
    ASSUME Init
    PROVE  SearchInv
<1>1. PICK d \in Depths : ExploreFrom(d)
  BY DEF Init
<1>2. d \in Nat
  BY DEF ExploreAssumption
<1> QED
  BY <1>1, <1>2, InitHolds, LayeredStart, CountedStart, ReplayedStart DEF SearchInv

(* The search keeps what the report rests on. *)
THEOREM SearchInvariance == Spec => []SearchInv
BY SearchInvStart, SearchInvStep, PTL DEF Spec

(* When the report is returned, the states seen are those within the depth, and *)
(* the pairs tried are those of the states one step before it.                 *)
LEMMA DoneIsComplete ==
    ASSUME SearchInv, done
    PROVE  DOMAIN seen = Within(depth) /\ PairsTried = Tried(depth)
<1>1. round \in Nat /\ depth \in Nat /\ round <= depth
  BY DEF SearchInv, Layered, IInv, TypeOK
<1>2. CASE round = depth
  BY <1>2 DEF SearchInv, Layered
<1>3. CASE round # depth
  <2>1. frontier = {} /\ next_frontier = {} /\ at = 1
    BY <1>3 DEF SearchInv, Layered, Exhausted, IInv, AllTested
  <2>2. DOMAIN seen = Within(round) /\ DOMAIN seen \ Waiting = DOMAIN seen
    BY <2>1 DEF SearchInv, Layered, Waiting
  <2>3. ASSUME NEW s \in Within(round), NEW a \in Action, NEW t \in States, LeadsTo(s, a, t)
        PROVE  t \in Within(round)
    <3>1. Tested(s, a)
      BY <2>2 DEF SearchInv, IInv, AllTested
    <3> QED
      BY <2>2, <2>3, <3>1 DEF Tested
  <2>4. OneStepFrom(Within(round)) = Within(round)
    BY <2>3 DEF OneStepFrom
  <2>5. depth - 1 \in Nat /\ round <= depth - 1 /\ depth # 0
    BY <1>1, <1>3
  <2>6. Within(depth) = Within(round) /\ Within(depth - 1) = Within(round)
    BY <1>1, <2>4, <2>5, WithinFixed
  <2>7. Tried(depth) = Within(round) \X Action
    BY <2>5, <2>6 DEF Tried
  <2>8. PairsTried = Within(round) \X Action
    <3>1. 1..(at - 1) = {}
      BY <2>1
    <3> QED
      BY <2>2, <3>1 DEF PairsTried
  <2> QED
    BY <2>2, <2>6, <2>7, <2>8
<1> QED
  BY <1>2, <1>3

LEMMA ReportFollows == SearchInv => ReportIsExact
<1> SUFFICES ASSUME SearchInv, done
             PROVE  /\ Report.states_explored = Cardinality(Within(depth))
                    /\ Report.transitions_explored = Cardinality(AppliedOf(Tried(depth)))
                    /\ Report.rejected_promotions = Cardinality(RefusedOf(Tried(depth)))
                    /\ IsSafe <=> \A s \in Within(depth) : ~Unsafe(s)
  BY DEF ReportIsExact, AppliedOf, RefusedOf
<1>1. DOMAIN seen = Within(depth) /\ PairsTried = Tried(depth)
  BY DoneIsComplete
<1>2. /\ Report.states_explored = Cardinality(DOMAIN seen)
      /\ Report.transitions_explored = transitions_explored
      /\ Report.rejected_promotions = rejected_promotions
      /\ IsSafe <=> violations = <<>>
  BY DEF Report, IsSafe
<1>3. violations = <<>> <=> \A s \in DOMAIN seen : ~Unsafe(s)
  BY DEF SearchInv, IInv, OnlyReachable, Replayed
<1> QED
  BY <1>1, <1>2, <1>3 DEF SearchInv, Counted

LEMMA ViolationsFollow == SearchInv => ViolationsReplay
BY DEF SearchInv, Replayed, Genuine, ViolationsReplay

(* What the README reads off a report is what the definition of a state within   *)
(* so many steps says: its numbers count each state and each pair of state and  *)
(* action once, and no unsafe state within the depth is passed over.           *)
THEOREM ReportExact == Spec => []ReportIsExact
BY SearchInvariance, ReportFollows, PTL

(* A violating trace, replayed, ends in a state with the writers reported, and  *)
(* no state reached in fewer actions than the first one's is unsafe.           *)
THEOREM ViolationsReplayed == Spec => []ViolationsReplay
BY SearchInvariance, ViolationsFollow, PTL

-----------------------------------------------------------------------------
(* No false alarm: where an invariant of the model excludes unsafe states, none  *)
(* is reported.                                                                *)
NoFalseAlarm ==
    \A C \in SUBSET States : Closed(C) /\ (\A s \in C : ~Unsafe(s)) => IsSafe

(* The steps the search has made. *)
StepsTaken == Cardinality(PairsTried) + round + IF done THEN 1 ELSE 0

StepsAreBounded ==
    IsFiniteSet(States) =>
        StepsTaken <= Cardinality(States) * Len(Actions) + Cardinality(States)

LEMMA NoFalseAlarmFollows == IInv => NoFalseAlarm
<1> SUFFICES ASSUME IInv, NEW C \in SUBSET States, Closed(C), \A s \in C : ~Unsafe(s)
             PROVE  violations = <<>>
  BY DEF NoFalseAlarm, IsSafe, Report
<1>1. Reachable \subseteq C
  BY DEF Reachable
<1> QED
  BY <1>1 DEF IInv, OnlyReachable

LEMMA ActionCount == IsFiniteSet(Action) /\ Cardinality(Action) = Len(Actions)
<1>1. DOMAIN Actions = 1..Len(Actions) /\ Len(Actions) \in Nat
  BY ActionIndexed
<1>2. IsFiniteSet(1..Len(Actions)) /\ Cardinality(1..Len(Actions)) = Len(Actions)
  <2>1. ASSUME NEW n \in Nat PROVE IsFiniteSet(1..n) /\ Cardinality(1..n) = n
    <3>1. 1 \in Int /\ n \in Int /\ (IF 1 > n THEN 0 ELSE n - 1 + 1) = n
      OBVIOUS
    <3>2. IsFiniteSet(1..n) /\ Cardinality(1..n) = IF 1 > n THEN 0 ELSE n - 1 + 1
      BY <3>1, FS_Interval, Zenon
    <3> QED
      BY <3>1, <3>2
  <2> QED
    BY <1>1, <2>1
<1> DEFINE f == [i \in 1..Len(Actions) |-> Actions[i]]
<1>3. f \in Bijection(1..Len(Actions), Action)
  <2>1. \A i, j \in 1..Len(Actions) : Actions[i] = Actions[j] => i = j
    BY <1>1 DEF ExploreAssumption
  <2>2. Action = {Actions[i] : i \in 1..Len(Actions)}
    BY <1>1 DEF Action
  <2> QED
    BY <2>1, <2>2, Zenon DEF Bijection, Injection, Surjection, IsInjective
<1> HIDE DEF f
<1>4. ExistsBijection(1..Len(Actions), Action)
  BY <1>3 DEF ExistsBijection
<1> QED
  BY <1>2, <1>4, FS_Bijection

LEMMA StepsBound == SearchInv /\ Progress => StepsAreBounded
<1> SUFFICES ASSUME SearchInv, Progress, IsFiniteSet(States)
             PROVE  StepsTaken <= Cardinality(States) * Len(Actions) + Cardinality(States)
  BY DEF StepsAreBounded
<1>1. /\ IsFiniteSet(States \X Action)
      /\ Cardinality(States \X Action) = Cardinality(States) * Len(Actions)
  BY ActionCount, FS_Product
<1>2. PairsTried \subseteq States \X Action
  <2>1. (DOMAIN seen \ Waiting) \X Action \subseteq States \X Action
    BY DEF SearchInv, IInv, TypeOK
  <2>2. ASSUME NEW i \in 1..(at - 1) PROVE Visited \in States /\ Actions[i] \in Action
    <3>1. at \in 1..Len(Actions) /\ Len(Actions) \in Nat
      BY ActionIndexed DEF SearchInv, IInv, TypeOK
    <3>2. frontier # {} /\ i \in 1..Len(Actions)
      BY <3>1 DEF SearchInv, IInv, AllTested
    <3>3. Visited \in frontier
      BY <3>2, VisitedIsWaiting DEF SearchInv, IInv
    <3> QED
      BY <3>2, <3>3, ActionIndexed DEF SearchInv, IInv, TypeOK
  <2> QED
    BY <2>1, <2>2 DEF PairsTried
<1>3. /\ Cardinality(PairsTried) <= Cardinality(States) * Len(Actions)
      /\ Cardinality(PairsTried) \in Nat /\ Cardinality(States) * Len(Actions) \in Nat
  BY <1>1, <1>2, FS_Subset, FS_CardinalityType
<1>4. round + 1 <= Cardinality(States) /\ round \in Nat /\ Cardinality(States) \in Nat
  <2>1. DOMAIN seen \subseteq States
    BY DEF SearchInv, IInv, TypeOK
  <2>2. /\ Cardinality(DOMAIN seen) <= Cardinality(States)
        /\ Cardinality(DOMAIN seen) \in Nat /\ Cardinality(States) \in Nat
    BY <2>1, FS_Subset, FS_CardinalityType
  <2> QED
    BY <2>2 DEF Progress
<1>5. (IF done THEN 1 ELSE 0) \in {0, 1}
  OBVIOUS
<1>6. PICK n \in Nat : n = Cardinality(States) * Len(Actions)
  BY <1>3
<1> QED
  BY <1>3, <1>4, <1>5, <1>6 DEF StepsTaken

LEMMA StepsCount == SearchInv /\ [Next]_vars => [StepsTaken' = StepsTaken + 1]_vars
<1> SUFFICES ASSUME SearchInv, Next PROVE StepsTaken' = StepsTaken + 1
  OBVIOUS
<1>1. IsFiniteSet(PairsTried) /\ Cardinality(PairsTried) \in Nat /\ round \in Nat
  BY FS_CardinalityType DEF SearchInv, Counted, IInv, TypeOK
<1>2. CASE VisitApplied \/ VisitRejected
  <2> DEFINE p == <<Visited, Actions[at]>>
  <2>1. PairsTried' = PairsTried \cup {p} /\ p \notin PairsTried
    BY <1>2, VisitPair DEF SearchInv
  <2>2. round' = round /\ done' = done
    BY <1>2, VisitEffect DEF SearchInv
  <2> HIDE DEF p
  <2>3. Cardinality(PairsTried \cup {p}) = Cardinality(PairsTried) + 1
    BY <1>1, <2>1, FS_AddElement
  <2>4. PICK k \in {0, 1} : k = IF done THEN 1 ELSE 0
    OBVIOUS
  <2>5. StepsTaken = Cardinality(PairsTried) + round + k
    BY <2>4 DEF StepsTaken
  <2>6. StepsTaken' = Cardinality(PairsTried') + round + k
    BY <2>2, <2>4 DEF StepsTaken
  <2> QED
    BY <1>1, <2>1, <2>3, <2>5, <2>6
<1>3. CASE NextRound
  <2>1. PairsTried' = PairsTried
    BY <1>3, PairsNextRound DEF SearchInv
  <2>2. round' = round + 1 /\ ~done /\ done' = done
    BY <1>3 DEF NextRound
  <2> QED
    BY <1>1, <2>1, <2>2 DEF StepsTaken
<1>4. CASE Return
  <2>1. ~done /\ done' /\ UNCHANGED <<round, frontier, at, next_frontier, seen>>
    BY <1>4 DEF Return, search
  <2>2. PairsTried' = PairsTried
    BY <2>1 DEF PairsTried, Waiting, Visited
  <2> QED
    BY <1>1, <2>1, <2>2 DEF StepsTaken
<1> QED
  BY <1>2, <1>3, <1>4 DEF Next

(* However deep, the search of a finite model ends: each step is one more of at   *)
(* most as many as there are pairs of state and action, and states.            *)
THEOREM SearchEnds == Spec => [](StepsAreBounded) /\ [][StepsTaken' = StepsTaken + 1]_vars
<1>1. Spec => []Progress
  <2> QED
    BY ProgressInit, ProgressStep, PTL DEF Spec
<1> QED
  BY <1>1, SearchInvariance, StepsBound, StepsCount, PTL DEF Spec

(* No false alarm: explore reports nothing on a model that has an invariant, kept *)
(* by every applied action, without an unsafe state.                            *)
THEOREM AlarmsAreReal == Spec => []NoFalseAlarm
BY Invariance, NoFalseAlarmFollows, PTL

-----------------------------------------------------------------------------
(* The command: how many words it has taken, and what they have come to.        *)
Taken == Len(given) - Len(arguments)

Flags == {"--depth", "--require-safe"}

WordsTaken ==
    /\ Taken \in 0..Len(given)
    /\ arguments = SubSeq(given, Taken + 1, Len(given))
    /\ \A i \in 1..Taken : given[i] \in DOMAIN Usize \cup Flags
    /\ Taken > 0 => given[Taken] # "--depth"
    /\ require_safe <=> \E i \in 1..Taken : given[i] = "--require-safe"

(* The depth is the value after the last --depth taken. *)
DepthTaken ==
    \/ /\ depth = DefaultDepth
       /\ \A i \in 2..Taken : given[i - 1] # "--depth"
    \/ \E i \in 2..Taken :
          /\ given[i - 1] = "--depth"
          /\ depth = Usize[given[i]]
          /\ \A j \in 2..Taken : given[j - 1] = "--depth" => j <= i

ExitJustified ==
    exit_code \in {SUCCESS, FAILURE} =>
        Asked("--help") \/ Asked("-h") \/ (running /\ done /\ exit_code = Answer)

SimInv ==
    /\ given \in Seq(STRING) /\ require_safe \in BOOLEAN /\ running \in BOOLEAN
    /\ exit_code \in {None, SUCCESS, FAILURE, USAGE}
    /\ WordsTaken /\ DepthTaken
    /\ ~running => system \in Systems /\ depth \in Nat /\ ExploreFrom(depth)
    /\ running => arguments = <<>> /\ SearchInv
    /\ ExitJustified

LEMMA SimInvSearch == SimInv => SearchInv
BY InitFrom, LayeredStart, CountedStart, ReplayedStart DEF SimInv, SearchInv

(* The word after a flag. *)
LEMMA SecondWord ==
    ASSUME NEW s \in Seq(STRING), Len(s) >= 2
    PROVE  Tail(s) # <<>> /\ Head(Tail(s)) = s[2]
<1>1. s # <<>> /\ Len(s) \in Nat
  OBVIOUS
<1>2. /\ Tail(s) \in Seq(STRING) /\ Len(Tail(s)) = Len(s) - 1
      /\ \A i \in 1..Len(Tail(s)) : Tail(s)[i] = s[i + 1]
  BY <1>1, HeadTailProperties
<1>3. 1 \in 1..(Len(s) - 1) /\ Len(s) - 1 # 0
  <2>1. ASSUME NEW n \in Nat, n >= 2 PROVE 1 \in 1..(n - 1) /\ n - 1 # 0
    BY <2>1
  <2> QED
    BY <1>1, <2>1
<1>4. Tail(s)[1] = s[2]
  <2>1. Tail(s)[1] = s[1 + 1]
    BY <1>2, <1>3
  <2> QED
    BY <2>1
<1>5. ASSUME NEW t \in Seq(STRING), Len(t) # 0 PROVE t # <<>> /\ Head(t) = t[1]
  BY <1>5
<1>6. Tail(s) # <<>> /\ Head(Tail(s)) = Tail(s)[1]
  <2>1. Len(Tail(s)) # 0
    BY <1>2, <1>3
  <2> QED
    BY <1>2, <1>5, <2>1
<1> QED
  BY <1>4, <1>6

(* What is left of a list after its first c words. *)
LEMMA LeftOver ==
    ASSUME NEW g \in Seq(STRING), NEW c \in 0..Len(g)
    PROVE  LET s == SubSeq(g, c + 1, Len(g))
           IN /\ s \in Seq(STRING) /\ Len(s) = Len(g) - c
              /\ \A i \in 1..Len(s) : s[i] = g[c + i]
<1> DEFINE s == SubSeq(g, c + 1, Len(g))
<1>0. Len(g) \in Nat /\ c \in Nat /\ c <= Len(g)
  OBVIOUS
<1>1. s = [i \in 1..(Len(g) - c) |-> g[c + i]]
  <2>1. IF c + 1 <= Len(g) THEN Len(g) - (c + 1) + 1 = Len(g) - c ELSE Len(g) - c = 0
    BY <1>0
  <2> QED
    BY <1>0, <2>1
<1>2. \A i \in 1..(Len(g) - c) : c + i \in 1..Len(g)
  BY <1>0
<1> QED
  BY <1>0, <1>1, <1>2

(* One word less is left. *)
LEMMA OneWordLess ==
    ASSUME NEW g \in Seq(STRING), NEW c \in 0..Len(g), NEW s,
           s = SubSeq(g, c + 1, Len(g)), s # <<>>
    PROVE  /\ c + 1 \in 0..Len(g) /\ c + 1 \in 1..Len(g) /\ Head(s) = g[c + 1]
           /\ Tail(s) = SubSeq(g, (c + 1) + 1, Len(g))
           /\ Len(g) - Len(Tail(s)) = c + 1
<1>1. /\ s \in Seq(STRING) /\ Len(s) = Len(g) - c
      /\ \A i \in 1..Len(s) : s[i] = g[c + i]
  BY LeftOver
<1>2. Len(g) \in Nat /\ c \in Nat /\ Len(s) >= 1 /\ c + 1 \in 0..Len(g) /\ c + 1 \in 1..Len(g)
  BY <1>1
<1>3. Head(s) = g[c + 1]
  BY <1>1, <1>2
<1>4. Tail(s) \in Seq(STRING) /\ Len(Tail(s)) = Len(g) - (c + 1)
  BY <1>1, <1>2
<1>5. \A i \in 1..Len(Tail(s)) : Tail(s)[i] = g[(c + 1) + i]
  BY <1>1, <1>2, <1>4
<1>6. PICK d \in 0..Len(g) : d = c + 1
  BY <1>2
<1>7. /\ SubSeq(g, d + 1, Len(g)) \in Seq(STRING)
      /\ Len(SubSeq(g, d + 1, Len(g))) = Len(g) - d
      /\ \A i \in 1..Len(SubSeq(g, d + 1, Len(g))) : SubSeq(g, d + 1, Len(g))[i] = g[d + i]
  BY LeftOver
<1>8. Tail(s) = SubSeq(g, d + 1, Len(g))
  <2>1. PICK t \in Seq(STRING) : t = SubSeq(g, d + 1, Len(g))
    BY <1>7
  <2>2. PICK u \in Seq(STRING) : u = Tail(s)
    BY <1>4
  <2>3. Len(u) = Len(t) /\ \A i \in 1..Len(u) : u[i] = t[i]
    BY <1>4, <1>5, <1>6, <1>7, <2>1, <2>2
  <2>4. u = t
    BY <2>3, SeqEqual
  <2> QED
    BY <2>1, <2>2, <2>4
<1> QED
  BY <1>2, <1>3, <1>4, <1>6, <1>8

LEMMA SimInvInit == SimInit => SimInv
<1> SUFFICES ASSUME SimInit PROVE SimInv
  OBVIOUS
<1>1. /\ system \in Systems /\ ExploreFrom(DefaultDepth) /\ given \in Seq(STRING)
      /\ arguments = given /\ require_safe = FALSE /\ running = FALSE /\ exit_code = None
  BY DEF SimInit, SimulatorAssumption
<1>2. depth = DefaultDepth /\ depth \in Nat /\ ExploreFrom(depth)
  BY <1>1 DEF ExploreFrom, DefaultDepth
<1>3. Taken = 0 /\ 0 \in 0..Len(given) /\ given = SubSeq(given, 0 + 1, Len(given))
  BY <1>1 DEF Taken
<1>4. WordsTaken
  BY <1>1, <1>3 DEF WordsTaken
<1>5. DepthTaken
  BY <1>2, <1>3 DEF DepthTaken
<1>6. ExitJustified
  BY <1>1 DEF ExitJustified, SUCCESS, FAILURE, SimulatorAssumption
<1> QED
  BY <1>1, <1>2, <1>4, <1>5, <1>6, Zenon DEF SimInv

(* The words taken stay the same when nothing is taken. *)
LEMMA NothingTaken ==
    ASSUME SimInv, UNCHANGED <<given, arguments, require_safe>>
    PROVE  WordsTaken' /\ (depth' = depth => DepthTaken')
BY DEF SimInv, WordsTaken, DepthTaken, Taken

LEMMA ExitStep ==
    ASSUME SimInv, NEW code \in {SUCCESS, FAILURE, USAGE}, Exit(code),
           \/ code = USAGE \/ Asked("--help") \/ Asked("-h")
           \/ running /\ done /\ code = Answer
    PROVE  SimInv'
<1>1. /\ UNCHANGED <<given, arguments, require_safe, running>> /\ UNCHANGED vars
      /\ exit_code' = code
  BY DEF Exit
<1>2. SearchInv /\ SearchInv'
  BY <1>1, SimInvSearch, SearchInvStep
<1>3. UNCHANGED <<system, depth, round, frontier, at, next_frontier, seen,
                  transitions_explored, rejected_promotions, violations, done>>
  BY <1>1 DEF vars, search, counts
<1>4. (~running => system \in Systems /\ depth \in Nat /\ ExploreFrom(depth))'
  BY <1>1, <1>3 DEF SimInv, ExploreFrom
<1>5. ExitJustified'
  BY <1>1, <1>3 DEF ExitJustified, Asked, Answer, IsSafe, Report, USAGE, SUCCESS, FAILURE
<1>6. WordsTaken' /\ DepthTaken'
  BY <1>1, <1>3, NothingTaken
<1> QED
  BY <1>1, <1>2, <1>4, <1>5, <1>6 DEF SimInv

(* What it means that a word is read. *)
LEMMA WordRead ==
    ASSUME SimInv, NEW w, Reading(w)
    PROVE  /\ Taken \in 0..Len(given) /\ Taken + 1 \in 1..Len(given)
           /\ given[Taken + 1] = w /\ Asked(w)
           /\ Tail(arguments) = SubSeq(given, (Taken + 1) + 1, Len(given))
           /\ Len(given) - Len(Tail(arguments)) = Taken + 1
           /\ ~running /\ exit_code = None
<1>1. /\ given \in Seq(STRING) /\ Taken \in 0..Len(given)
      /\ arguments = SubSeq(given, Taken + 1, Len(given))
      /\ arguments # <<>> /\ Head(arguments) = w /\ ~running /\ exit_code = None
  BY DEF SimInv, WordsTaken, Reading
<1>2. /\ Taken + 1 \in 1..Len(given) /\ Head(arguments) = given[Taken + 1]
      /\ Tail(arguments) = SubSeq(given, (Taken + 1) + 1, Len(given))
      /\ Len(given) - Len(Tail(arguments)) = Taken + 1
  BY <1>1, OneWordLess
<1>3. Asked(w)
  BY <1>1, <1>2 DEF Asked, Range
<1> QED
  BY <1>1, <1>2, <1>3

LEMMA TakeRequireSafeStep == SimInv /\ TakeRequireSafe => SimInv'
<1> SUFFICES ASSUME SimInv, TakeRequireSafe PROVE SimInv'
  OBVIOUS
<1>1. /\ Reading("--require-safe") /\ require_safe' = TRUE /\ arguments' = Tail(arguments)
      /\ UNCHANGED <<given, running, exit_code>> /\ UNCHANGED vars
  BY DEF TakeRequireSafe, AfterFlag
<1>2. UNCHANGED <<system, depth, round, frontier, at, next_frontier, seen,
                  transitions_explored, rejected_promotions, violations, done>>
  BY <1>1 DEF vars, search, counts
<1>3. PICK c \in 0..Len(given) : c = Taken
  BY <1>1, WordRead
<1>4. /\ c + 1 \in 1..Len(given) /\ given[c + 1] = "--require-safe" /\ Taken' = c + 1
      /\ arguments' = SubSeq(given, (c + 1) + 1, Len(given))
      /\ ~running /\ exit_code = None
  BY <1>1, <1>3, WordRead DEF Taken
<1>5. given \in Seq(STRING) /\ Len(given) \in Nat /\ c \in Nat
  BY DEF SimInv
<1>6. 1..(c + 1) = 1..c \cup {c + 1} /\ c + 1 > 0 /\ c + 1 \in 0..Len(given)
  BY <1>4, <1>5
<1>7. WordsTaken'
  <2>1. \A i \in 1..(c + 1) : given[i] \in DOMAIN Usize \cup Flags
    BY <1>3, <1>4, <1>6 DEF SimInv, WordsTaken, Flags
  <2>2. given[c + 1] # "--depth"
    BY <1>4
  <2>3. \E i \in 1..(c + 1) : given[i] = "--require-safe"
    BY <1>4, <1>6
  <2> QED
    BY <1>1, <1>4, <1>6, <2>1, <2>2, <2>3 DEF WordsTaken
<1>8. DepthTaken'
  <2>1. ASSUME NEW j \in 2..(c + 1), given[j - 1] = "--depth" PROVE j \in 2..c
    <3>1. CASE j = c + 1
      <4>1. j - 1 = c /\ c > 0
        BY <1>5, <3>1
      <4> QED
        BY <1>3, <2>1, <4>1 DEF SimInv, WordsTaken
    <3>2. CASE j # c + 1
      BY <1>5, <3>2
    <3> QED
      BY <3>1, <3>2
  <2>2. \A i \in 2..c : i \in 2..(c + 1)
    BY <1>5
  <2>3. CASE depth = DefaultDepth /\ \A i \in 2..Taken : given[i - 1] # "--depth"
    BY <1>1, <1>2, <1>3, <1>4, <2>1, <2>3 DEF DepthTaken
  <2>4. CASE \E i \in 2..Taken :
                 /\ given[i - 1] = "--depth"
                 /\ depth = Usize[given[i]]
                 /\ \A j \in 2..Taken : given[j - 1] = "--depth" => j <= i
    <3>1. PICK i \in 2..c :
             /\ given[i - 1] = "--depth"
             /\ depth = Usize[given[i]]
             /\ \A j \in 2..c : given[j - 1] = "--depth" => j <= i
      BY <1>3, <2>4
    <3>2. \A j \in 2..(c + 1) : given[j - 1] = "--depth" => j <= i
      BY <2>1, <3>1
    <3> QED
      BY <1>1, <1>2, <1>4, <2>2, <3>1, <3>2 DEF DepthTaken
  <2> QED
    BY <2>3, <2>4 DEF SimInv, DepthTaken
<1>9. (~running => system \in Systems /\ depth \in Nat /\ ExploreFrom(depth))'
  BY <1>1, <1>2 DEF SimInv, ExploreFrom
<1>10. ExitJustified'
  BY <1>1, <1>4 DEF ExitJustified, SUCCESS, FAILURE, SimulatorAssumption
<1> QED
  BY <1>1, <1>4, <1>7, <1>8, <1>9, <1>10 DEF SimInv

LEMMA TakeDepthStep == SimInv /\ TakeDepth => SimInv'
<1> SUFFICES ASSUME SimInv, TakeDepth PROVE SimInv'
  OBVIOUS
<1>1. /\ Reading("--depth") /\ HasValue /\ depth' = Usize[arguments[2]]
      /\ arguments' = Tail(Tail(arguments))
      /\ UNCHANGED <<given, require_safe, running, exit_code>>
      /\ UNCHANGED <<system, round, frontier, at, next_frontier, seen,
                     transitions_explored, rejected_promotions, violations, done>>
  BY DEF TakeDepth, NewDepth, search, counts
<1>2. PICK c \in 0..Len(given) : c = Taken
  BY <1>1, WordRead
<1>3. /\ c + 1 \in 1..Len(given) /\ given[c + 1] = "--depth"
      /\ Tail(arguments) = SubSeq(given, (c + 1) + 1, Len(given))
      /\ ~running /\ exit_code = None
  BY <1>1, <1>2, WordRead
<1>4. given \in Seq(STRING) /\ Len(given) \in Nat /\ c \in Nat /\ c + 1 \in 0..Len(given)
  BY <1>3 DEF SimInv
<1>5. PICK t : t = Tail(arguments)
  OBVIOUS
<1>6. /\ t # <<>> /\ Head(t) = arguments[2]
  <2>1. arguments \in Seq(STRING)
    <3>1. arguments = SubSeq(given, c + 1, Len(given))
      BY <1>2 DEF SimInv, WordsTaken
    <3> QED
      BY <1>4, <3>1, LeftOver
  <2>2. Len(arguments) >= 2
    BY <1>1 DEF HasValue
  <2> QED
    BY <1>5, <2>1, <2>2, SecondWord
<1>7. PICK e \in 0..Len(given) : e = c + 1
  BY <1>4
<1>8. /\ e + 1 \in 1..Len(given) /\ e + 1 \in 0..Len(given)
      /\ given[e + 1] = arguments[2] /\ Taken' = e + 1
      /\ arguments' = SubSeq(given, (e + 1) + 1, Len(given))
  <2>1. t = SubSeq(given, e + 1, Len(given))
    BY <1>3, <1>5, <1>7
  <2>2. /\ e + 1 \in 1..Len(given) /\ e + 1 \in 0..Len(given) /\ Head(t) = given[e + 1]
        /\ Tail(t) = SubSeq(given, (e + 1) + 1, Len(given))
        /\ Len(given) - Len(Tail(t)) = e + 1
    BY <1>4, <1>6, <2>1, OneWordLess
  <2> QED
    BY <1>1, <1>5, <1>6, <2>2 DEF Taken
<1>9. given[e] = "--depth" /\ given[e + 1] \in DOMAIN Usize /\ depth' = Usize[given[e + 1]]
  BY <1>1, <1>3, <1>7, <1>8 DEF HasValue
<1>10. given[e + 1] # "--depth" /\ given[e + 1] # "--require-safe"
  BY <1>9 DEF SimulatorAssumption
<1>11. e \in Nat /\ 1..(e + 1) = 1..c \cup {e, e + 1} /\ e + 1 > 0 /\ e \in 1..(e + 1)
  BY <1>4, <1>7
<1>12. WordsTaken'
  <2>1. \A i \in 1..(e + 1) : given[i] \in DOMAIN Usize \cup Flags
    BY <1>2, <1>9, <1>11 DEF SimInv, WordsTaken, Flags
  <2>2. require_safe <=> \E i \in 1..(e + 1) : given[i] = "--require-safe"
    BY <1>2, <1>9, <1>10, <1>11 DEF SimInv, WordsTaken
  <2> QED
    BY <1>1, <1>8, <1>10, <2>1, <2>2 DEF WordsTaken
<1>13. DepthTaken'
  <2>1. e + 1 \in 2..(e + 1) /\ (e + 1) - 1 = e
    BY <1>4, <1>7
  <2>2. \A j \in 2..(e + 1) : j <= e + 1
    BY <1>11
  <2> QED
    BY <1>1, <1>8, <1>9, <2>1, <2>2 DEF DepthTaken
<1>14. (~running => system \in Systems /\ depth \in Nat /\ ExploreFrom(depth))'
  <2>1. depth' \in Nat
    BY <1>9 DEF SimulatorAssumption
  <2> QED
    BY <1>1, <1>3, <2>1 DEF SimInv, ExploreFrom
<1>15. ExitJustified'
  BY <1>1, <1>3 DEF ExitJustified, SUCCESS, FAILURE, SimulatorAssumption
<1> QED
  BY <1>1, <1>3, <1>12, <1>13, <1>14, <1>15 DEF SimInv

LEMMA CallExploreStep == SimInv /\ CallExplore => SimInv'
<1> SUFFICES ASSUME SimInv, CallExplore PROVE SimInv'
  OBVIOUS
<1>1. /\ exit_code = None /\ arguments = <<>> /\ running' = TRUE
      /\ UNCHANGED <<given, arguments, require_safe, exit_code>> /\ UNCHANGED vars
  BY DEF CallExplore
<1>2. SearchInv'
  BY <1>1, SimInvSearch, SearchInvStep
<1>3. WordsTaken' /\ DepthTaken'
  BY <1>1, NothingTaken DEF vars
<1>4. ExitJustified'
  BY <1>1 DEF ExitJustified, SUCCESS, FAILURE, SimulatorAssumption
<1> QED
  BY <1>1, <1>2, <1>3, <1>4, Zenon DEF SimInv

LEMMA ExploringStep == SimInv /\ Exploring => SimInv'
<1> SUFFICES ASSUME SimInv, Exploring PROVE SimInv'
  OBVIOUS
<1>1. running /\ Next /\ UNCHANGED <<given, arguments, require_safe, running, exit_code>>
  BY DEF Exploring, command
<1>2. SearchInv'
  BY <1>1, SearchInvStep DEF SimInv
<1>3. depth' = depth /\ ~done
  BY <1>1 DEF Next, VisitApplied, VisitRejected, NextRound, Return, Visiting
<1>4. WordsTaken' /\ DepthTaken'
  BY <1>1, <1>3, NothingTaken
<1>5. ExitJustified'
  BY <1>1, <1>3 DEF ExitJustified, SimInv, Asked
<1> QED
  BY <1>1, <1>2, <1>4, <1>5 DEF SimInv

LEMMA ExitsStep == SimInv /\ (RefuseDepth \/ Help \/ RefuseUnknown \/ Finish) => SimInv'
<1> SUFFICES ASSUME SimInv, RefuseDepth \/ Help \/ RefuseUnknown \/ Finish PROVE SimInv'
  OBVIOUS
<1>1. CASE RefuseDepth \/ RefuseUnknown
  BY <1>1, ExitStep DEF RefuseDepth, RefuseUnknown
<1>2. CASE Help
  <2>1. PICK w \in {"--help", "-h"} : Reading(w) /\ Exit(SUCCESS)
    BY <1>2 DEF Help
  <2>2. Asked("--help") \/ Asked("-h")
    BY <2>1, WordRead
  <2> QED
    BY <2>1, <2>2, ExitStep
<1>3. CASE Finish
  <2>1. done /\ Exit(Answer)
    BY <1>3 DEF Finish
  <2>2. running
    BY <2>1 DEF SimInv, ExploreFrom
  <2>3. Answer \in {SUCCESS, FAILURE, USAGE}
    BY DEF Answer
  <2> QED
    BY <2>1, <2>2, <2>3, ExitStep
<1> QED
  BY <1>1, <1>2, <1>3

LEMMA SimStutter == SimInv /\ UNCHANGED <<vars, command>> => SimInv'
<1> SUFFICES ASSUME SimInv, UNCHANGED <<vars, command>> PROVE SimInv'
  OBVIOUS
<1>1. /\ UNCHANGED <<given, arguments, require_safe, running, exit_code>> /\ UNCHANGED vars
  BY DEF command
<1>2. SearchInv'
  BY <1>1, SimInvSearch, SearchInvStep
<1>3. UNCHANGED <<system, depth, round, frontier, at, next_frontier, seen,
                  transitions_explored, rejected_promotions, violations, done>>
  BY <1>1 DEF vars, search, counts
<1>4. WordsTaken' /\ DepthTaken'
  BY <1>1, <1>3, NothingTaken
<1>5. ExitJustified'
  BY <1>1, <1>3 DEF ExitJustified, SimInv, Asked, Answer, IsSafe, Report
<1>6. (~running => system \in Systems /\ depth \in Nat /\ ExploreFrom(depth))'
  BY <1>1, <1>3 DEF SimInv, ExploreFrom
<1> QED
  BY <1>1, <1>2, <1>4, <1>5, <1>6 DEF SimInv

(* The command keeps what its exit code rests on. *)
THEOREM SimInvariance == SimSpec => []SimInv
<1>1. SimInv /\ [SimNext]_<<vars, command>> => SimInv'
  BY TakeDepthStep, TakeRequireSafeStep, CallExploreStep, ExploringStep, ExitsStep,
     SimStutter DEF SimNext
<1> QED
  BY SimInvInit, <1>1, PTL DEF SimSpec

(* The words left are the end of those given, and the search the command runs    *)
(* keeps its types whatever depth was read.                                    *)
THEOREM SimTypeCorrect == SimSpec => []SimTypeOK
<1>1. SimInv => SimTypeOK
  <2> SUFFICES ASSUME SimInv PROVE SimTypeOK
    OBVIOUS
  <2>1. TypeOK
    BY SimInvSearch DEF SearchInv, IInv
  <2>2. /\ given \in Seq(STRING) /\ Taken \in 0..Len(given)
        /\ arguments = SubSeq(given, Taken + 1, Len(given))
    BY DEF SimInv, WordsTaken
  <2>3. Len(arguments) = Len(given) - Taken /\ Len(arguments) <= Len(given)
    BY <2>2, LeftOver
  <2> QED
    BY <2>1, <2>2, <2>3 DEF SimTypeOK, SimInv, Taken
<1> QED
  BY <1>1, SimInvariance, PTL

(* With no word left, the depth taken is the depth asked for. *)
LEMMA DepthIsAsked ==
    ASSUME SimInv, running
    PROVE  depth = DepthAsked /\ Taken = Len(given)
<1>1. Len(given) \in Nat /\ Taken = Len(given)
  BY DEF SimInv, Taken
<1> DEFINE at_depth == {i \in 2..Len(given) : given[i - 1] = "--depth"}
<1>2. CASE depth = DefaultDepth /\ \A i \in 2..Taken : given[i - 1] # "--depth"
  <2>1. at_depth = {}
    BY <1>1, <1>2
  <2> QED
    BY <1>1, <1>2, <2>1 DEF DepthAsked
<1>3. CASE \E i \in 2..Taken :
               /\ given[i - 1] = "--depth"
               /\ depth = Usize[given[i]]
               /\ \A j \in 2..Taken : given[j - 1] = "--depth" => j <= i
  <2>1. PICK last \in at_depth : depth = Usize[given[last]] /\ \A j \in at_depth : j <= last
    BY <1>1, <1>3
  <2>2. \A i \in at_depth : (\A j \in at_depth : j <= i) => i = last
    <3> SUFFICES ASSUME NEW i \in at_depth, \A j \in at_depth : j <= i PROVE i = last
      OBVIOUS
    <3>1. i \in Nat /\ last \in Nat /\ i <= last /\ last <= i
      BY <1>1, <2>1
    <3> QED
      BY <3>1
  <2> DEFINE chosen == CHOOSE i \in at_depth : \A j \in at_depth : j <= i
  <2>3. DepthAsked = IF at_depth = {} THEN DefaultDepth ELSE Usize[given[chosen]]
    BY DEF DepthAsked
  <2>4. chosen = last
    <3> HIDE DEF at_depth
    <3> QED
      BY <2>1, <2>2
  <2>5. at_depth # {}
    BY <2>1
  <2> HIDE DEF at_depth, chosen
  <2> QED
    BY <1>1, <2>1, <2>3, <2>4, <2>5
<1> QED
  BY <1>2, <1>3 DEF SimInv, DepthTaken

LEMMA AnswerFollows == SimInv => ExitCodeTellsSafety
<1> SUFFICES ASSUME SimInv, exit_code \in {SUCCESS, FAILURE}, ~Asked("--help"), ~Asked("-h")
             PROVE  /\ Range(given) \subseteq DOMAIN Usize \cup {"--depth", "--require-safe"}
                    /\ Asked("--require-safe") =>
                          (exit_code = SUCCESS <=> \A s \in Within(DepthAsked) : ~Unsafe(s))
                    /\ ~Asked("--require-safe") => exit_code = SUCCESS
  BY DEF ExitCodeTellsSafety
<1>1. running /\ done /\ exit_code = Answer
  BY DEF SimInv, ExitJustified
<1>2. depth = DepthAsked /\ Taken = Len(given) /\ given \in Seq(STRING)
  BY <1>1, DepthIsAsked DEF SimInv
<1>3. DOMAIN given = 1..Taken
  BY <1>2
<1>4. Range(given) \subseteq DOMAIN Usize \cup {"--depth", "--require-safe"}
  BY <1>3 DEF Range, SimInv, WordsTaken, Flags
<1>5. Asked("--require-safe") <=> require_safe
  BY <1>3 DEF Asked, Range, SimInv, WordsTaken
<1>6. IsSafe <=> \A s \in Within(DepthAsked) : ~Unsafe(s)
  <2>1. IsSafe <=> \A s \in Within(depth) : ~Unsafe(s)
    BY <1>1, SimInvSearch, ReportFollows DEF ReportIsExact
  <2> QED
    BY <1>2, <2>1
<1>7. Answer = IF require_safe /\ ~IsSafe THEN FAILURE ELSE SUCCESS
  BY DEF Answer
<1>8. SUCCESS # FAILURE
  BY DEF SUCCESS, FAILURE
<1> QED
  BY <1>1, <1>4, <1>5, <1>6, <1>7, <1>8

(* The pipeline may rely on the exit code: with --require-safe, success means    *)
(* that no state within the depth of the last --depth has two writers, failure  *)
(* that one has, on any model and for any command line without a help request. *)
THEOREM ExitCodeIsTheVerdict == SimSpec => []ExitCodeTellsSafety
BY SimInvariance, AnswerFollows, PTL
=============================================================================
