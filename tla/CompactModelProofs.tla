------------------------- MODULE CompactModelProofs -------------------------
(***************************************************************************)
(* Theorems about the compact model, for any set of nodes and any bounds.  *)
(*                                                                         *)
(* Single writer is not inductive: it says nothing of a gate whose lease   *)
(* is over, nor of one kept closed by a fence.  The invariant adds where   *)
(* every gate stands against the metadata: the holder's gate is the one    *)
(* metadata knows, any other is of an earlier epoch and already expired,   *)
(* and a fenced node has none.                                             *)
(***************************************************************************)
EXTENDS CompactModel, PromotionProofProofs, EffectGateProofs

(* A fence takes the gate away, and nothing gives a fenced node a new one. *)
FencedHasNoGate == \A n \in Nodes : node[n].fenced => node[n].gate = None

(* A gate is the committed one, or of an earlier epoch and over. *)
GatesAreKnown ==
    \A n \in Nodes : node[n].gate # None =>
        \/ /\ metadata_holder = n
           /\ node[n].gate.epoch = epoch
           /\ node[n].gate.expires_at_tick = metadata_lease_expires_at_tick
        \/ /\ node[n].gate.epoch < epoch
           /\ node[n].gate.expires_at_tick <= now_tick

IInv == TypeOK /\ FencedHasNoGate /\ GatesAreKnown /\ EpochNamesOneWriter

USE CompactAssumption

(* The checks of promote before it calls the core, and the core's verdict. *)
LEMMA PromoteChecksHold ==
    ASSUME NEW n \in Nodes, PromoteOutcome(n, now_tick) = Ok
    PROVE  /\ node[n].powered /\ ~node[n].fenced
           /\ epoch < MaxEpoch /\ LeaseFits(now_tick)
           /\ CoreVerdict(n, now_tick) = Ok
<1> DEFINE checks == PromoteChecks(n, now_tick)
<1>1. CheckList(checks)
  <2>1. \A verdict : CoreRefusal(verdict) # Ok
    BY DEF CoreRefusal, Ok
  <2>2. DOMAIN checks = 1..Len(checks) /\ Len(checks) = 7
    BY DEF PromoteChecks
  <2>3. \A i \in 1..7 : checks[i][1] # Ok
    BY <2>1 DEF PromoteChecks, Ok
  <2> QED
    BY <2>2, <2>3 DEF CheckList
<1>2. AllHold(checks)
  BY <1>1, OkMeansAllHold DEF PromoteOutcome
<1>3. DOMAIN checks = 1..7
  BY DEF PromoteChecks
<1>4. \A i \in 1..7 : checks[i][2]
  BY <1>2, <1>3 DEF AllHold
<1>5. /\ checks[1][2]
      /\ checks[4][2]
      /\ checks[6][2]
  BY <1>4
<1> QED
  BY <1>5 DEF PromoteChecks

(* What a promotion may rely on: its candidate is not the recorded holder, and  *)
(* that holder, if any, is fenced or its lease and a guard tick are over.      *)
LEMMA PriorExcluded ==
    ASSUME TypeOK, NEW n \in Nodes, PromoteOutcome(n, now_tick) = Ok
    PROVE  /\ metadata_holder # n
           /\ metadata_holder = None => epoch = 0
           /\ metadata_holder # None =>
                 \/ node[metadata_holder].fenced
                 \/ /\ metadata_lease_expires_at_tick \in Nat
                    /\ now_tick > metadata_lease_expires_at_tick
<1> DEFINE p == Proof(n, now_tick)
<1>1. Accepts(p, CurrentAuthority, Policy, Ms(now_tick))
  BY PromoteChecksHold DEF CoreVerdict, Accepts
<1>2. /\ Verdict(SubjectChecks(p, CurrentAuthority, Policy)) = Ok
      /\ Verdict(FenceChecks(p, CurrentAuthority, Policy, Ms(now_tick))) = Ok
  BY <1>1, AcceptsSections
<1>3. /\ p.candidate = n
      /\ p.fence.mechanism = ChosenMechanism
      /\ CurrentAuthority.holder = metadata_holder
      /\ CurrentAuthority.epoch = epoch
      /\ Policy.lease_guard_ms = 100
  BY DEF Proof, CurrentAuthority, Policy
<1>4. metadata_holder # n
  BY <1>2, <1>3, SubjectOk
<1>5. metadata_holder = None => epoch = 0
  BY <1>2, <1>3, FenceOk
<1>6. ASSUME metadata_holder # None, ~node[metadata_holder].fenced
      PROVE  /\ metadata_lease_expires_at_tick \in Nat
             /\ now_tick > metadata_lease_expires_at_tick
  <2>1. ChosenMechanism = "EffectGateExpired"
    BY <1>6 DEF ChosenMechanism, KnownFenced
  <2>2. GuardElapsed(CurrentAuthority, Policy, Ms(now_tick))
    BY <1>2, <1>3, <1>6, <2>1, FenceOk
  <2>3. /\ CurrentAuthority.lease_expires_at_ms # None
        /\ Ms(now_tick) >= CurrentAuthority.lease_expires_at_ms + 100
    BY <1>3, <2>2 DEF GuardElapsed, SafeTime
  <2>4. /\ metadata_lease_expires_at_tick # None
        /\ CurrentAuthority.lease_expires_at_ms = metadata_lease_expires_at_tick * 100
    BY <2>3 DEF CurrentAuthority, Ms
  <2>5. metadata_lease_expires_at_tick \in Nat /\ now_tick \in Nat
    BY <2>4 DEF TypeOK
  <2> QED
    BY <2>3, <2>4, <2>5 DEF Ms
<1> QED
  BY <1>4, <1>5, <1>6

-----------------------------------------------------------------------------
LEMMA InitIInv == Init => IInv
<1> SUFFICES ASSUME Init PROVE IInv
  OBVIOUS
<1>1. InitialNode \in NodeStates /\ InitialNode.gate = None /\ InitialNode.accepted_epoch = 0
  BY DEF InitialNode, NodeStates
<1>2. \A n \in Nodes : node[n] = InitialNode
  BY DEF Init
<1>3. TypeOK
  BY <1>1 DEF Init, TypeOK
<1> QED
  BY <1>1, <1>2, <1>3
  DEF Init, IInv, FencedHasNoGate, GatesAreKnown, EpochNamesOneWriter

(* A step that leaves the metadata alone, turns no clock back, and keeps or     *)
(* drops each gate with the epoch its node accepted, keeps the invariant.      *)
LEMMA QuietStep ==
    ASSUME IInv, TypeOK', UNCHANGED metadata, now_tick' >= now_tick,
           \A n \in Nodes :
               /\ node'[n].accepted_epoch = node[n].accepted_epoch
               /\ \/ node'[n].gate = None
                  \/ node'[n].gate = node[n].gate /\ node'[n].fenced = node[n].fenced
    PROVE  IInv'
<1>1. /\ epoch' = epoch
      /\ metadata_holder' = metadata_holder
      /\ metadata_lease_expires_at_tick' = metadata_lease_expires_at_tick
  BY DEF metadata
<1>2. FencedHasNoGate'
  BY DEF IInv, FencedHasNoGate
<1>3. GatesAreKnown'
  <2> SUFFICES ASSUME NEW n \in Nodes, node'[n].gate # None
               PROVE  \/ /\ metadata_holder = n
                         /\ node[n].gate.epoch = epoch
                         /\ node[n].gate.expires_at_tick = metadata_lease_expires_at_tick
                      \/ /\ node[n].gate.epoch < epoch
                         /\ node[n].gate.expires_at_tick <= now_tick'
    BY <1>1 DEF GatesAreKnown
  <2>1. node'[n].gate = node[n].gate /\ node[n].gate \in Gates
    BY DEF IInv, TypeOK, NodeStates
  <2>2. node[n].gate.expires_at_tick \in Nat /\ now_tick \in Nat /\ now_tick' \in Nat
    BY <2>1 DEF IInv, TypeOK, Gates
  <2> QED
    BY <2>1, <2>2 DEF IInv, GatesAreKnown
<1>4. EpochNamesOneWriter'
  BY <1>1 DEF IInv, EpochNamesOneWriter
<1> QED
  BY <1>2, <1>3, <1>4 DEF IInv

(* A promotion makes its candidate's gate the committed one; the gate that was *)
(* is gone with a fence or over.                                               *)
LEMMA PromoteStep ==
    ASSUME IInv, NEW n \in Nodes, Promote(n)
    PROVE  IInv'
<1> DEFINE g == [epoch |-> epoch + 1, incarnation |-> node[n].incarnation,
                 expires_at_tick |-> now_tick + LeaseTicks]
<1>0. /\ TypeOK
      /\ epoch \in Nat /\ now_tick \in Nat
      /\ node \in [Nodes -> NodeStates]
  BY DEF IInv, TypeOK
<1>1. PromoteOutcome(n, now_tick) = Ok
  BY DEF Promote
<1>2. epoch + 1 <= MaxEpoch /\ now_tick + LeaseTicks <= MaxTick
  BY <1>0, <1>1, PromoteChecksHold DEF LeaseFits
<1>3. ~node[n].fenced
  BY <1>1, PromoteChecksHold
<1>4. g \in Gates /\ g # None
  BY <1>0, NoGateIsNone DEF Gates, NodeStates, LeaseTicks
<1>5. /\ node' = [node EXCEPT ![n].accepted_epoch = epoch + 1, ![n].gate = g]
      /\ epoch' = epoch + 1 /\ metadata_holder' = n /\ now_tick' = now_tick
      /\ metadata_lease_expires_at_tick' = now_tick + LeaseTicks
      /\ UNCHANGED witness_up
  BY DEF Promote, CommittedEpoch
<1> HIDE DEF g
<1>6. /\ node' \in [Nodes -> NodeStates]
      /\ node'[n].gate = g /\ node'[n].accepted_epoch = epoch + 1
      /\ node'[n].fenced = node[n].fenced
      /\ \A m \in Nodes \ {n} : node'[m] = node[m]
  <2> DEFINE s == [node[n] EXCEPT !.accepted_epoch = epoch + 1, !.gate = g]
  <2>1. /\ s \in NodeStates /\ s.gate = g /\ s.accepted_epoch = epoch + 1
        /\ s.fenced = node[n].fenced
    <3>1. /\ node[n] \in NodeStates
          /\ epoch + 1 \in Nat
          /\ g \in Gates \cup {None}
      BY <1>0, <1>4
    <3> QED
      BY <3>1 DEF NodeStates
  <2>2. node' = [node EXCEPT ![n] = s]
    BY <1>0, <1>5
  <2> HIDE DEF s
  <2> QED
    BY <1>0, <2>1, <2>2
<1>7. TypeOK'
  BY <1>0, <1>2, <1>5, <1>6 DEF TypeOK, LeaseTicks
<1>8. FencedHasNoGate'
  BY <1>3, <1>6 DEF IInv, FencedHasNoGate
<1>9. EpochNamesOneWriter'
  <2>1. \A m \in Nodes : node[m].accepted_epoch \in Nat /\ node[m].accepted_epoch <= epoch
    BY <1>0 DEF IInv, EpochNamesOneWriter, NodeStates
  <2> QED
    BY <1>0, <1>5, <1>6, <2>1 DEF IInv, EpochNamesOneWriter
<1>10. GatesAreKnown'
  <2> SUFFICES ASSUME NEW m \in Nodes, node'[m].gate # None
               PROVE  \/ /\ n = m
                         /\ node'[m].gate.epoch = epoch + 1
                         /\ node'[m].gate.expires_at_tick = now_tick + LeaseTicks
                      \/ /\ node'[m].gate.epoch < epoch + 1
                         /\ node'[m].gate.expires_at_tick <= now_tick
    BY <1>5 DEF GatesAreKnown
  <2>1. CASE m = n
    BY <1>6, <2>1 DEF g
  <2>2. CASE m # n
    <3>1. node'[m].gate = node[m].gate /\ node[m].gate \in Gates
      BY <1>0, <1>6, <2>2 DEF NodeStates
    <3>2. node[m].gate.epoch \in Nat /\ node[m].gate.expires_at_tick \in Nat
      BY <3>1 DEF Gates
    <3>3. CASE /\ node[m].gate.epoch < epoch
               /\ node[m].gate.expires_at_tick <= now_tick
      BY <1>0, <3>1, <3>2, <3>3
    <3>4. CASE /\ metadata_holder = m
               /\ node[m].gate.epoch = epoch
               /\ node[m].gate.expires_at_tick = metadata_lease_expires_at_tick
      <4>1. ~node[m].fenced
        BY <3>1 DEF IInv, FencedHasNoGate
      <4>2. metadata_holder # None
        BY <3>4
      <4>3. now_tick > metadata_lease_expires_at_tick
        BY <1>0, <1>1, <3>4, <4>1, <4>2, PriorExcluded
      <4> QED
        BY <1>0, <3>1, <3>2, <3>4, <4>3
    <3> QED
      BY <3>1, <3>3, <3>4 DEF IInv, GatesAreKnown
  <2> QED
    BY <2>1, <2>2
<1> QED
  BY <1>7, <1>8, <1>9, <1>10 DEF IInv

LEMMA StepIInv == IInv /\ [Next]_vars => IInv'
<1> SUFFICES ASSUME IInv, [Next]_vars PROVE IInv'
  OBVIOUS
<1>0. TypeOK /\ now_tick \in Nat /\ node \in [Nodes -> NodeStates]
  BY DEF IInv, TypeOK
<1>1. ASSUME NEW n \in Nodes, NEW connected \in BOOLEAN, SetConnection(n, connected)
      PROVE  IInv'
  <2>1. TypeOK'
    BY <1>0, <1>1 DEF SetConnection, metadata, TypeOK, NodeStates
  <2> QED
    BY <1>0, <1>1, <2>1, QuietStep DEF SetConnection, NodeStates
<1>2. ASSUME NEW n \in Nodes, NEW value \in BOOLEAN, SetCaughtUp(n, value)
      PROVE  IInv'
  <2>1. TypeOK'
    BY <1>0, <1>2 DEF SetCaughtUp, metadata, TypeOK, NodeStates
  <2> QED
    BY <1>0, <1>2, <2>1, QuietStep DEF SetCaughtUp, NodeStates
<1>3. ASSUME NEW n \in Nodes, Crash(n)
      PROVE  IInv'
  <2>1. TypeOK'
    BY <1>0, <1>3 DEF Crash, metadata, TypeOK, NodeStates
  <2> QED
    BY <1>0, <1>3, <2>1, QuietStep DEF Crash, NodeStates
<1>4. ASSUME NEW n \in Nodes, Restart(n)
      PROVE  IInv'
  <2>1. TypeOK'
    BY <1>0, <1>4 DEF Restart, metadata, TypeOK, NodeStates
  <2> QED
    BY <1>0, <1>4, <2>1, QuietStep DEF Restart, NodeStates
<1>5. ASSUME NEW n \in Nodes, Fence(n)
      PROVE  IInv'
  <2> DEFINE s == [node[n] EXCEPT !.fenced = TRUE, !.powered = FALSE, !.gate = None]
  <2>1. s \in NodeStates /\ s.gate = None /\ s.accepted_epoch = node[n].accepted_epoch
    BY <1>0 DEF NodeStates
  <2>2. node' = [node EXCEPT ![n] = s] /\ UNCHANGED <<now_tick, metadata, witness_up>>
    BY <1>0, <1>5 DEF Fence
  <2> HIDE DEF s
  <2>3. TypeOK'
    BY <1>0, <2>1, <2>2 DEF metadata, TypeOK
  <2> QED
    BY <1>0, <2>1, <2>2, <2>3, QuietStep
<1>6. ASSUME NEW n \in Nodes, Promote(n)
      PROVE  IInv'
  BY <1>6, PromoteStep
<1>7. ASSUME NEW running \in BOOLEAN, SetWitness(running)
      PROVE  IInv'
  <2>1. TypeOK'
    BY <1>0, <1>7 DEF SetWitness, metadata, TypeOK
  <2> QED
    BY <1>0, <1>7, <2>1, QuietStep DEF SetWitness
<1>8. CASE AdvanceTime
  <2>1. TypeOK'
    BY <1>0, <1>8 DEF AdvanceTime, metadata, TypeOK
  <2> QED
    BY <1>0, <1>8, <2>1, QuietStep DEF AdvanceTime
<1>9. CASE UNCHANGED vars
  <2>1. TypeOK'
    BY <1>0, <1>9 DEF vars, TypeOK
  <2> QED
    BY <1>0, <1>9, <2>1, QuietStep DEF vars, metadata
<1> QED
  BY <1>1, <1>2, <1>3, <1>4, <1>5, <1>6, <1>7, <1>8, <1>9 DEF Next, NodeAction

LEMMA Invariance == Spec => []IInv
BY InitIInv, StepIInv, PTL DEF Spec

(* The compact model's variables keep their ranges; no counter that the code   *)
(* increments with checked_add passes its largest value.                       *)
THEOREM TypeCorrect == Spec => []TypeOK
<1>1. IInv => TypeOK
  BY DEF IInv
<1> QED
  BY <1>1, Invariance, PTL

LEMMA InvEffective == IInv => EffectiveIsCurrent
<1> SUFFICES ASSUME IInv, NEW n \in ActiveWriters
             PROVE  /\ metadata_holder = n
                    /\ node[n].gate.epoch = epoch
                    /\ node[n].gate.expires_at_tick = metadata_lease_expires_at_tick
  BY DEF EffectiveIsCurrent
<1>1. /\ n \in Nodes
      /\ node[n].gate # None
      /\ now_tick < node[n].gate.expires_at_tick
  BY DEF ActiveWriters, GateIsEffective, Covers
<1>2. node[n].gate \in Gates /\ now_tick \in Nat
  BY <1>1 DEF IInv, TypeOK, NodeStates
<1>3. node[n].gate.expires_at_tick \in Nat
  BY <1>2 DEF Gates
<1> QED
  BY <1>1, <1>2, <1>3 DEF IInv, GatesAreKnown

(* An effective gate is always the one the committed metadata speaks of. *)
THEOREM EffectiveGateIsCurrent == Spec => []EffectiveIsCurrent
BY InvEffective, Invariance, PTL

(* SAFETY.md S1 of the compact model: at no tick, after no faults, are two nodes *)
(* effective.                                                                   *)
THEOREM OneWriter == Spec => []SingleWriter
<1>1. EffectiveIsCurrent => SingleWriter
  BY DEF EffectiveIsCurrent, SingleWriter
<1> QED
  BY <1>1, InvEffective, Invariance, PTL

(* No two nodes ever accept the same epoch. *)
THEOREM OneWriterPerEpoch == Spec => []EpochNamesOneWriter
<1>1. IInv => EpochNamesOneWriter
  BY DEF IInv
<1> QED
  BY <1>1, Invariance, PTL

-----------------------------------------------------------------------------
(* Only a promotion changes who holds authority on record. *)
LEMMA HolderMovesByPromotion ==
    ASSUME [Next]_vars, metadata_holder' # metadata_holder
    PROVE  \E n \in Nodes : Promote(n)
BY DEF Next, NodeAction, SetConnection, SetCaughtUp, Crash, Restart, Fence, SetWitness,
       AdvanceTime, metadata, vars

(* Authority never leaves a holder that is neither fenced nor, by a guard tick,  *)
(* past its lease; crashed and unreachable are not enough.                      *)
THEOREM SuccessionIsFenced == Spec => SuccessionExcludesPriorHolder
<1> DEFINE Excluded == \/ node[metadata_holder].fenced
                       \/ now_tick > metadata_lease_expires_at_tick
           Moves == metadata_holder' # metadata_holder /\ metadata_holder # None
<1>1. ASSUME IInv, [Next]_vars, Moves PROVE Excluded
  <2>1. PICK n \in Nodes : Promote(n)
    BY <1>1, HolderMovesByPromotion
  <2>2. PromoteOutcome(n, now_tick) = Ok
    BY <2>1 DEF Promote
  <2> QED
    BY <1>1, <2>2, PriorExcluded DEF IInv
<1>2. IInv /\ [Next]_vars => [Moves => Excluded]_vars
  BY <1>1
<1> QED
  BY <1>2, Invariance, PTL DEF Spec, SuccessionExcludesPriorHolder

-----------------------------------------------------------------------------
(* The refinement: what the compact model shows of authority. *)
Pairs == {<<n, node[n].gate.epoch>> : n \in ActiveWriters}

(* No gate becomes effective in a step that leaves the gates as they are or   *)
(* drops them: a writer stays as it is or is released.                        *)
LEMMA QuietPairs ==
    ASSUME IInv, UNCHANGED epoch,
           \A n \in Nodes :
               GateIsEffective(node'[n], now_tick')
                   => GateIsEffective(node[n], now_tick) /\ node'[n].gate = node[n].gate
    PROVE  [Authority!Next]_<<epoch, Pairs>>
<1>1. ActiveWriters' \subseteq ActiveWriters
  BY DEF ActiveWriters
<1>2. \A n \in ActiveWriters' : node'[n].gate = node[n].gate
  BY DEF ActiveWriters
<1>3. \A n, m \in ActiveWriters : n = m
  BY InvEffective DEF EffectiveIsCurrent
<1>4. CASE ActiveWriters' = ActiveWriters
  BY <1>2, <1>4 DEF Pairs
<1>5. CASE ActiveWriters' # ActiveWriters
  <2>1. ActiveWriters' = {} /\ ActiveWriters # {}
    BY <1>1, <1>3, <1>5
  <2>2. Pairs' = {} /\ Pairs # {}
    BY <2>1 DEF Pairs
  <2> QED
    BY <2>2 DEF Authority!Next, Authority!Release, Pairs
<1> QED
  BY <1>4, <1>5

(* A promotion takes authority when nobody has it, under the next term. *)
LEMMA PromotePairs ==
    ASSUME IInv, NEW n \in Nodes, Promote(n)
    PROVE  Authority!Acquire(n)
<1>0. TypeOK /\ epoch \in Nat /\ now_tick \in Nat /\ node \in [Nodes -> NodeStates]
  BY DEF IInv, TypeOK
<1>1. PromoteOutcome(n, now_tick) = Ok
  BY DEF Promote
<1>2. ActiveWriters = {}
  <2> SUFFICES ASSUME NEW m \in ActiveWriters PROVE FALSE
    OBVIOUS
  <2>1. /\ metadata_holder = m
        /\ node[m].gate.expires_at_tick = metadata_lease_expires_at_tick
    BY InvEffective DEF EffectiveIsCurrent
  <2>2. /\ m \in Nodes
        /\ ~node[m].fenced
        /\ node[m].gate # None
        /\ now_tick < node[m].gate.expires_at_tick
    BY DEF ActiveWriters, GateIsEffective, Covers
  <2>3. now_tick > metadata_lease_expires_at_tick /\ metadata_lease_expires_at_tick \in Nat
    BY <1>0, <1>1, <2>1, <2>2, PriorExcluded
  <2> QED
    BY <1>0, <2>1, <2>2, <2>3
<1> DEFINE g == [epoch |-> epoch + 1, incarnation |-> node[n].incarnation,
                 expires_at_tick |-> now_tick + LeaseTicks]
           s == [node[n] EXCEPT !.accepted_epoch = epoch + 1, !.gate = g]
<1>3. node' = [node EXCEPT ![n] = s] /\ epoch' = epoch + 1 /\ now_tick' = now_tick
  BY <1>0 DEF Promote, CommittedEpoch
<1>4. g \in Gates /\ g # None
  BY <1>0, NoGateIsNone DEF Gates, NodeStates, LeaseTicks
<1>5. GateIsEffective(s, now_tick) /\ s.gate.epoch = epoch + 1
  <2>1. node[n] \in NodeStates /\ node[n].powered /\ ~node[n].fenced
    BY <1>0, <1>1, PromoteChecksHold
  <2>2. /\ g.epoch = epoch + 1 /\ g.incarnation = node[n].incarnation
        /\ g.expires_at_tick = now_tick + LeaseTicks
    OBVIOUS
  <2> HIDE DEF g
  <2>3. /\ s.powered = node[n].powered /\ s.fenced = node[n].fenced /\ s.gate = g
        /\ s.incarnation = node[n].incarnation
    BY <2>1 DEF NodeStates
  <2> QED
    BY <1>0, <1>4, <2>1, <2>2, <2>3 DEF GateIsEffective, Covers, LeaseTicks
<1> HIDE DEF s
<1>6. node'[n] = s /\ \A m \in Nodes \ {n} : node'[m] = node[m]
  BY <1>0, <1>3
<1>7. ActiveWriters' = {n}
  BY <1>2, <1>3, <1>5, <1>6 DEF ActiveWriters
<1>8. Pairs = {} /\ Pairs' = {<<n, epoch'>>}
  BY <1>2, <1>3, <1>5, <1>6, <1>7 DEF Pairs
<1> QED
  BY <1>0, <1>3, <1>8 DEF Authority!Acquire, Pairs

LEMMA StepRefines == IInv /\ [Next]_vars => [Authority!Next]_<<epoch, Pairs>>
<1> SUFFICES ASSUME IInv, [Next]_vars PROVE [Authority!Next]_<<epoch, Pairs>>
  OBVIOUS
<1>0. TypeOK /\ now_tick \in Nat /\ node \in [Nodes -> NodeStates]
  BY DEF IInv, TypeOK
<1>1. ASSUME NEW n \in Nodes, NEW connected \in BOOLEAN, SetConnection(n, connected)
      PROVE  [Authority!Next]_<<epoch, Pairs>>
  BY <1>0, <1>1, QuietPairs DEF SetConnection, metadata, GateIsEffective, NodeStates
<1>2. ASSUME NEW n \in Nodes, NEW value \in BOOLEAN, SetCaughtUp(n, value)
      PROVE  [Authority!Next]_<<epoch, Pairs>>
  BY <1>0, <1>2, QuietPairs DEF SetCaughtUp, metadata, GateIsEffective, NodeStates
<1>3. ASSUME NEW n \in Nodes, Crash(n)
      PROVE  [Authority!Next]_<<epoch, Pairs>>
  BY <1>0, <1>3, QuietPairs DEF Crash, metadata, GateIsEffective, NodeStates
<1>4. ASSUME NEW n \in Nodes, Restart(n)
      PROVE  [Authority!Next]_<<epoch, Pairs>>
  BY <1>0, <1>4, QuietPairs DEF Restart, metadata, GateIsEffective, NodeStates
<1>5. ASSUME NEW n \in Nodes, Fence(n)
      PROVE  [Authority!Next]_<<epoch, Pairs>>
  BY <1>0, <1>5, QuietPairs DEF Fence, metadata, GateIsEffective, NodeStates
<1>6. ASSUME NEW n \in Nodes, Promote(n)
      PROVE  [Authority!Next]_<<epoch, Pairs>>
  BY <1>6, PromotePairs DEF Authority!Next
<1>7. ASSUME NEW running \in BOOLEAN, SetWitness(running)
      PROVE  [Authority!Next]_<<epoch, Pairs>>
  BY <1>7, QuietPairs DEF SetWitness, metadata
<1>8. CASE AdvanceTime
  <2>1. \A n \in Nodes : GateIsEffective(node[n], now_tick + 1)
                             => GateIsEffective(node[n], now_tick)
    <3> SUFFICES ASSUME NEW n \in Nodes, GateIsEffective(node[n], now_tick + 1)
                 PROVE  now_tick < node[n].gate.expires_at_tick
      BY DEF GateIsEffective, Covers
    <3>1. node[n].gate \in Gates
      BY <1>0 DEF GateIsEffective, NodeStates
    <3>2. node[n].gate.expires_at_tick \in Nat
      BY <3>1 DEF Gates
    <3> QED
      BY <1>0, <3>2 DEF GateIsEffective, Covers
  <2> QED
    BY <1>8, <2>1, QuietPairs DEF AdvanceTime, metadata
<1>9. CASE UNCHANGED vars
  BY <1>9, QuietPairs DEF vars
<1> QED
  BY <1>1, <1>2, <1>3, <1>4, <1>5, <1>6, <1>7, <1>8, <1>9 DEF Next, NodeAction

(* The compact model keeps the abstract promise: authority is given to one node *)
(* at a time, under rising terms, and released before it is given again.        *)
THEOREM Implementation == Spec => ImplementsWriterAuthority
<1>1. Init => Authority!Init
  BY DEF Init, InitialNode, Authority!Init, ActiveWriters, GateIsEffective
<1>2. IInv /\ [Next]_vars => [Authority!Next]_Authority!vars
  BY StepRefines DEF Authority!vars, Pairs
<1> QED
  BY <1>1, <1>2, Invariance, PTL DEF Spec, ImplementsWriterAuthority, Authority!Spec

-----------------------------------------------------------------------------
(* No dead end.  The code has two data nodes and a witness, and its largest     *)
(* tick is far below the largest u64 of milliseconds: a u8 of 100 ms.           *)
CodeSized ==
    /\ IsFiniteSet(Nodes) /\ Cardinality(Nodes) <= 2
    /\ Ms(MaxTick) + 100 <= MaxU64
    /\ None \notin Nat

(* Metadata without a holder was never granted to anyone; one with a holder     *)
(* knows when its lease ends, and that is no more than a lease away.            *)
LeaseOnRecord ==
    /\ metadata_holder = None => epoch = 0 /\ metadata_lease_expires_at_tick = None
    /\ metadata_holder # None =>
          /\ metadata_lease_expires_at_tick # None
          /\ metadata_lease_expires_at_tick <= now_tick + LeaseTicks

LEMMA InitRecord == Init => LeaseOnRecord
BY DEF Init, LeaseOnRecord

LEMMA StepRecord ==
    None \notin Nat /\ IInv /\ LeaseOnRecord /\ [Next]_vars => LeaseOnRecord'
<1> SUFFICES ASSUME None \notin Nat, IInv, LeaseOnRecord, [Next]_vars PROVE LeaseOnRecord'
  OBVIOUS
<1>0. /\ now_tick \in Nat
      /\ metadata_lease_expires_at_tick \in Nat \cup {None}
  BY DEF IInv, TypeOK
<1>1. ASSUME NEW n \in Nodes, Promote(n) PROVE LeaseOnRecord'
  <2>1. /\ metadata_holder' = n /\ now_tick' = now_tick
        /\ metadata_lease_expires_at_tick' = now_tick + LeaseTicks
    BY <1>1 DEF Promote
  <2>2. n # None /\ now_tick + LeaseTicks \in Nat
    BY <1>0 DEF LeaseTicks
  <2> QED
    BY <2>1, <2>2 DEF LeaseOnRecord
<1>2. ASSUME UNCHANGED metadata, now_tick' \in {now_tick, now_tick + 1}
      PROVE  LeaseOnRecord'
  <2>1. /\ epoch' = epoch /\ metadata_holder' = metadata_holder
        /\ metadata_lease_expires_at_tick' = metadata_lease_expires_at_tick
    BY <1>2 DEF metadata
  <2>2. metadata_holder' # None =>
           metadata_lease_expires_at_tick' <= now_tick' + LeaseTicks
    <3> SUFFICES ASSUME metadata_holder' # None
                 PROVE  metadata_lease_expires_at_tick' <= now_tick' + LeaseTicks
      BY <2>1
    <3>1. metadata_lease_expires_at_tick \in Nat
      BY <1>0, <2>1 DEF LeaseOnRecord
    <3>2. metadata_lease_expires_at_tick <= now_tick + LeaseTicks
      BY <2>1 DEF LeaseOnRecord
    <3>3. now_tick \in Nat /\ now_tick' \in Nat /\ now_tick <= now_tick'
      BY <1>0, <1>2
    <3>4. ASSUME NEW a \in Nat, NEW b \in Nat, NEW c \in Nat,
                 a <= b + LeaseTicks, b <= c
          PROVE  a <= c + LeaseTicks
      BY <3>4 DEF LeaseTicks
    <3>5. metadata_lease_expires_at_tick <= now_tick' + LeaseTicks
      BY <3>1, <3>2, <3>3, <3>4
    <3> QED
      BY <2>1, <3>5
  <2> QED
    BY <2>1, <2>2 DEF LeaseOnRecord
<1>3. CASE \A n \in Nodes : ~Promote(n)
  <2>1. UNCHANGED metadata /\ now_tick' \in {now_tick, now_tick + 1}
    BY <1>3 DEF Next, NodeAction, SetConnection, SetCaughtUp, Crash, Restart, Fence,
                SetWitness, AdvanceTime, metadata, vars
  <2> QED
    BY <1>2, <2>1
<1> QED
  BY <1>1, <1>3

(* The policy of the model is one the constructor lets through. *)
LEMMA PolicyConstructed ==
    ASSUME CodeSized, NEW n \in Nodes
    PROVE  ConstructedPolicy(Policy)
<1>1. /\ IsFiniteSet(Policy.voters)
      /\ Cardinality(Policy.voters) \in {2, 3}
  <2>1. /\ IsFiniteSet(Nodes \cup {Witness})
        /\ Cardinality(Nodes \cup {Witness}) = Cardinality(Nodes) + 1
    BY FS_AddElement DEF CodeSized
  <2>2. Cardinality(Nodes) \in Nat /\ Cardinality(Nodes) # 0
    BY FS_CardinalityType, FS_EmptySet DEF CodeSized
  <2>3. Cardinality(Nodes) \in {1, 2}
    BY <2>2 DEF CodeSized
  <2> QED
    BY <2>1, <2>3 DEF Policy
<1>2. /\ Policy.candidates = Nodes /\ Policy.voters = Nodes \cup {Witness}
      /\ Policy.quorum_size = 2 /\ Policy.required_witness = Witness
      /\ Policy.min_health_checks = 3 /\ Policy.max_evidence_age_ms = 500
      /\ Policy.max_lease_duration_ms = 300
  BY DEF Policy
<1> HIDE DEF Policy
<1>3. Intersecting(Policy)
  BY <1>1, <1>2 DEF Intersecting
<1> QED
  BY <1>1, <1>2, <1>3, PolicyPasses

(* A tick at which a standby's promotion would be accepted: the record is       *)
(* empty, its holder is fenced, or the lease and the guard tick are over.       *)
Excluded(t) ==
    \/ metadata_holder = None
    \/ node[metadata_holder].fenced
    \/ t > metadata_lease_expires_at_tick

(* The subject and quorum sections of a standby's proof. *)
LEMMA StandbySubject ==
    ASSUME IInv, NEW n \in Nodes, NEW t \in Nat, metadata_holder # n
    PROVE  /\ Verdict(SubjectChecks(Proof(n, t), CurrentAuthority, Policy)) = Ok
           /\ Verdict(QuorumChecks(Proof(n, t), Policy)) = Ok
<1> DEFINE p == Proof(n, t)
<1>1. Verdict(SubjectChecks(p, CurrentAuthority, Policy)) = Ok
  <2>1. /\ p.workload = Policy.workload /\ p.policy_hash = Policy.policy_hash
        /\ p.candidate \in Policy.candidates /\ CurrentAuthority.holder # p.candidate
    BY DEF Proof, Policy, CurrentAuthority
  <2>2. LaterEpoch(p, CurrentAuthority)
    BY DEF LaterEpoch, Proof, CurrentAuthority, IInv, TypeOK
  <2>3. ComponentEpochs(p) = {p.epoch}
    BY DEF ComponentEpochs, Proof
  <2>4. QuorumBinds(p)
    BY DEF QuorumBinds, Proof
  <2> QED
    BY <2>1, <2>2, <2>3, <2>4, SubjectPasses
<1>2. Verdict(QuorumChecks(p, Policy)) = Ok
  <2>1. Votes(p) = <<n, Witness>> /\ p.candidate = n
    BY DEF Votes, Proof
  <2>2. /\ Policy.voters = Nodes \cup {Witness} /\ Policy.quorum_size = 2
        /\ Policy.required_witness = Witness
    BY DEF Policy
  <2> HIDE DEF p
  <2>3. DOMAIN Votes(p) = {1, 2} /\ Votes(p)[1] = n /\ Votes(p)[2] = Witness
    BY <2>1
  <2>4. VoterSet(p) = {n, Witness} /\ n # Witness
    BY <2>3 DEF VoterSet
  <2>5. RepeatedAt(p) = {}
    <3>1. ASSUME NEW i \in {1, 2}, NEW j \in 1..(i - 1), Votes(p)[j] = Votes(p)[i]
          PROVE  FALSE
      <4>1. i = 2 /\ j = 1
        BY <3>1
      <4> QED
        BY <2>3, <2>4, <3>1, <4>1
    <3> QED
      BY <2>3, <3>1 DEF RepeatedAt
  <2>6. VotersKnown(p, Policy)
    BY <2>2, <2>3 DEF VotersKnown, UnknownAt
  <2>7. Cardinality(VoterSet(p)) = 2
    <3>1. IsFiniteSet({n}) /\ Cardinality({n}) = 1 /\ Witness \notin {n}
      BY <2>4, FS_Singleton
    <3>2. Cardinality({n} \cup {Witness}) = Cardinality({n}) + 1
      BY <3>1, FS_AddElement
    <3>3. VoterSet(p) = {n} \cup {Witness}
      BY <2>4
    <3> QED
      BY <3>1, <3>2, <3>3
  <2>8. QuorumReached(p, Policy)
    BY <2>2, <2>7 DEF QuorumReached
  <2> QED
    BY <2>1, <2>2, <2>4, <2>5, <2>6, <2>8, QuorumPasses
<1> QED
  BY <1>1, <1>2

(* Its fence and lease sections: the mechanism promote picks fits the record,   *)
(* and the lease starts at once, which is not before the safe time.             *)
LEMMA StandbyFence ==
    ASSUME CodeSized, IInv, LeaseOnRecord, NEW n \in Nodes, NEW t \in Nat,
           metadata_holder # n, t <= MaxTick, Excluded(t)
    PROVE  /\ Verdict(FenceChecks(Proof(n, t), CurrentAuthority, Policy, Ms(t))) = Ok
           /\ Verdict(LeaseChecks(Proof(n, t), CurrentAuthority, Policy, Ms(t))) = Ok
<1> DEFINE p == Proof(n, t)
           cur == CurrentAuthority
           now == Ms(t)
           byExpiry == p.fence.mechanism = "EffectGateExpired"
<1>1. /\ p.candidate = n /\ p.workload = Workload
      /\ p.candidate_incarnation = node[n].incarnation
      /\ p.fence.verifier = Witness /\ p.fence.observed_at_ms = now
      /\ p.fence.mechanism = ChosenMechanism /\ p.fence.target = metadata_holder
      /\ p.lease.workload = Workload /\ p.lease.holder = n
      /\ p.lease.incarnation = node[n].incarnation
      /\ p.lease.not_before_ms = now /\ p.lease.expires_at_ms = Ms(t + LeaseTicks)
      /\ Votes(p) = <<n, Witness>>
  BY DEF Proof, Votes
<1>2. /\ cur.holder = metadata_holder /\ cur.epoch = epoch
      /\ cur.lease_expires_at_ms =
            IF metadata_lease_expires_at_tick = None THEN None
            ELSE Ms(metadata_lease_expires_at_tick)
  BY DEF CurrentAuthority
<1>3. /\ Policy.voters = Nodes \cup {Witness} /\ Policy.required_witness = Witness
      /\ Policy.max_evidence_age_ms = 500 /\ Policy.max_lease_duration_ms = 300
      /\ Policy.lease_guard_ms = 100 /\ Policy.allow_gate_expiry_fence = TRUE
  BY DEF Policy
<1> HIDE DEF p, cur
<1>4. /\ now \in Nat /\ now = t * 100 /\ now <= MaxTick * 100
      /\ Ms(t + LeaseTicks) = now + 300
  BY DEF Ms, LeaseTicks
<1>5. VerifierTrusted(p, Policy)
  <2>1. Witness \in VoterSet(p)
    BY <1>1 DEF VoterSet
  <2> QED
    BY <1>1, <1>3, <2>1 DEF VerifierTrusted
<1>6. NotFromFuture(p.fence, now) /\ NotTooOld(p.fence, Policy, now)
  BY <1>1, <1>3, <1>4 DEF NotFromFuture, NotTooOld
<1>7. metadata_holder = None => p.fence.mechanism = "Bootstrap" /\ epoch = 0
  BY <1>1 DEF ChosenMechanism, LeaseOnRecord
<1>8. metadata_holder # None => p.fence.mechanism \in {"HardwarePower", "EffectGateExpired"}
  BY <1>1 DEF ChosenMechanism
<1>9. ASSUME byExpiry
      PROVE  /\ metadata_holder # None
             /\ GuardElapsed(cur, Policy, now)
             /\ SafeTime(cur, Policy) \in Nat /\ SafeTime(cur, Policy) <= now
  <2>1. metadata_holder # None /\ ~node[metadata_holder].fenced
    BY <1>1, <1>9 DEF ChosenMechanism, KnownFenced
  <2>2. t > metadata_lease_expires_at_tick
    BY <2>1 DEF Excluded
  <2>3. /\ metadata_lease_expires_at_tick # None
        /\ metadata_lease_expires_at_tick \in 0..MaxTick
    BY <2>1 DEF LeaseOnRecord, IInv, TypeOK
  <2>4. /\ cur.lease_expires_at_ms = metadata_lease_expires_at_tick * 100
        /\ cur.lease_expires_at_ms \in Nat
    BY <1>2, <2>3 DEF Ms
  <2>5. SafeTime(cur, Policy) = metadata_lease_expires_at_tick * 100 + 100
    BY <1>3, <2>4 DEF SafeTime
  <2>6. SafeTime(cur, Policy) <= now
    BY <1>4, <2>2, <2>3, <2>5
  <2>7. SafeTime(cur, Policy) <= MaxU64
    BY <2>3, <2>5, MaxU64Assumption DEF CodeSized, Ms
  <2>8. cur.lease_expires_at_ms # None
    BY <2>4 DEF CodeSized
  <2> QED
    BY <2>1, <2>3, <2>5, <2>6, <2>7, <2>8 DEF GuardElapsed
<1>10. Verdict(FenceChecks(p, cur, Policy, now)) = Ok
  BY <1>1, <1>2, <1>3, <1>5, <1>6, <1>7, <1>8, <1>9, FencePasses
<1>11. StartsAfterFence(p, SafeNotBefore(p, cur, Policy))
  BY <1>1, <1>4, <1>9 DEF StartsAfterFence, SafeNotBefore
<1>12. Verdict(LeaseChecks(p, cur, Policy, now)) = Ok
  <2>1. /\ p.lease.expires_at_ms > p.lease.not_before_ms
        /\ p.lease.expires_at_ms - p.lease.not_before_ms <= Policy.max_lease_duration_ms
        /\ p.lease.not_before_ms <= now /\ now < p.lease.expires_at_ms
    BY <1>1, <1>3, <1>4
  <2> QED
    BY <1>1, <1>11, <2>1, LeasePasses
<1> QED
  BY <1>10, <1>12 DEF p, cur

(* Its state and health sections, for a node that is powered and caught up. *)
LEMMA StandbyState ==
    ASSUME NEW n \in Nodes, NEW t \in Nat, node[n].powered, node[n].caught_up
    PROVE  /\ Verdict(StateChecks(Proof(n, t), Policy, Ms(t))) = Ok
           /\ Verdict(HealthChecks(Proof(n, t), Policy, Ms(t))) = Ok
<1> DEFINE p == Proof(n, t)
<1>1. /\ p.state.observed_at_ms = Ms(t) /\ p.health.observed_at_ms = Ms(t)
      /\ p.state.durable_commit = 10 /\ p.state.required_commit = 10
      /\ p.state.state_root = 1 /\ p.health.passed_checks = 3
      /\ p.health.healthy = node[n].powered
      /\ p.health.workload = p.workload /\ p.health.node = p.candidate
      /\ p.health.incarnation = p.candidate_incarnation
  BY DEF Proof
<1>2. Policy.max_evidence_age_ms = 500 /\ Policy.min_health_checks = 3
  BY DEF Policy
<1> HIDE DEF p
<1>3. Ms(t) \in Nat
  BY DEF Ms
<1>4. /\ NotFromFuture(p.state, Ms(t)) /\ NotTooOld(p.state, Policy, Ms(t))
      /\ NotFromFuture(p.health, Ms(t)) /\ NotTooOld(p.health, Policy, Ms(t))
  BY <1>1, <1>2, <1>3 DEF NotFromFuture, NotTooOld
<1>5. Verdict(StateChecks(p, Policy, Ms(t))) = Ok
  <2>1. p.state.durable_commit >= p.state.required_commit /\ p.state.state_root # ZeroRoot
    BY <1>1 DEF ZeroRoot
  <2> QED
    BY <1>4, <2>1, StatePasses
<1>6. Verdict(HealthChecks(p, Policy, Ms(t))) = Ok
  <2>1. p.health.passed_checks >= Policy.min_health_checks
    BY <1>1, <1>2
  <2> QED
    BY <1>1, <1>4, <2>1, HealthPasses
<1> QED
  BY <1>5, <1>6 DEF p

(* And the gate opens: the node's recovered gate knows only older epochs. *)
LEMMA StandbyGate ==
    ASSUME IInv, NEW n \in Nodes, NEW t \in Nat
    PROVE  GateOpens(n, t)
<1> DEFINE now == Ms(t)
           auth == ValidatedPromotion(Proof(n, t))
           g0 == Recover(n, Workload, ModelPolicyHash,
                         [accepted_epoch |-> node[n].accepted_epoch,
                          incarnation |-> node[n].incarnation, last_observed_ms |-> now])
           g1 == StageGate(g0, auth, now)
           rec == StageRecord(g0, auth, now)
           g2 == ConfirmGate(g1, rec)
           g3 == ActivateGate(g2, now)
<1>1. /\ auth.workload = Workload /\ auth.policy_hash = ModelPolicyHash
      /\ auth.candidate = n /\ auth.candidate_incarnation = node[n].incarnation
      /\ auth.epoch = epoch + 1 /\ auth.not_before_ms = now
      /\ auth.expires_at_ms = Ms(t + LeaseTicks)
  BY DEF ValidatedPromotion, Proof
<1>2. /\ g0.node = n /\ g0.workload = Workload /\ g0.policy_hash = ModelPolicyHash
      /\ g0.incarnation = node[n].incarnation /\ g0.last_observed_ms = now
      /\ g0.state = Closed(node[n].accepted_epoch)
      /\ \A st : [g0 EXCEPT !.state = st] =
            [node |-> n, workload |-> Workload, policy_hash |-> ModelPolicyHash,
             incarnation |-> node[n].incarnation, last_observed_ms |-> now, state |-> st]
      /\ [g0 EXCEPT !.last_observed_ms = now] = g0
  BY DEF Recover
<1>3. /\ now \in Nat /\ now = t * 100 /\ Ms(t + LeaseTicks) = now + 300
  BY DEF Ms, LeaseTicks
<1>4. epoch \in Nat /\ node[n].accepted_epoch \in Nat /\ node[n].accepted_epoch <= epoch
  BY DEF IInv, TypeOK, NodeStates, EpochNamesOneWriter
<1> DEFINE Gate(st) == [node |-> n, workload |-> Workload, policy_hash |-> ModelPolicyHash,
                        incarnation |-> node[n].incarnation, last_observed_ms |-> now,
                        state |-> st]
<1>5. \A st : /\ Gate(st).last_observed_ms = now /\ Gate(st).state = st
              /\ [Gate(st) EXCEPT !.last_observed_ms = now] = Gate(st)
              /\ \A st2 : [Gate(st) EXCEPT !.state = st2] = Gate(st2)
              /\ Gate(st).node = n /\ Gate(st).workload = Workload
              /\ Gate(st).policy_hash = ModelPolicyHash
              /\ Gate(st).incarnation = node[n].incarnation
  OBVIOUS
<1>6. g0 = Gate(Closed(node[n].accepted_epoch))
  BY DEF Recover
<1> HIDE DEF auth, g0, now, Gate
<1>7. ~(now < now)
  BY <1>3
<1>8. \A st : ~RolledBack(Gate(st), now) /\ Observe(Gate(st), now) = Gate(st)
  BY <1>5, <1>7 DEF RolledBack, Observe
<1>9. StageVerdict(g0, auth, now) = Ok
  <2>1. NewerEpoch(g0, auth)
    BY <1>1, <1>4, <1>5, <1>6 DEF NewerEpoch, LastEpoch, Closed
  <2>2. g0.state.tag # "Open"
    BY <1>5, <1>6 DEF Closed
  <2>3. ForThisNode(g0, auth) /\ SameIncarnation(g0, auth)
    BY <1>1, <1>5, <1>6 DEF ForThisNode, SameIncarnation
  <2>4. /\ ~RolledBack(g0, now)
        /\ auth.workload = g0.workload /\ auth.policy_hash = g0.policy_hash
    BY <1>1, <1>5, <1>6, <1>8
  <2> QED
    BY <2>1, <2>2, <2>3, <2>4, StageLetThrough
<1>10. g1 = Gate(Staged(auth))
  <2>1. ~AlreadyStaged(g0, auth)
    BY <1>5, <1>6 DEF AlreadyStaged, Closed
  <2> QED
    BY <1>5, <1>6, <1>8, <1>9, <2>1 DEF StageGate
<1>11. rec = PersistenceRecord(Gate(Closed(node[n].accepted_epoch)), auth)
  BY <1>6, <1>8 DEF StageRecord
<1> HIDE DEF g1, rec
<1>12. ConfirmVerdict(g1, rec) = Ok
  <2>1. g1.state.tag = "Staged" /\ g1.state.authorization = auth
    BY <1>5, <1>10 DEF Staged
  <2>2. RecordMatches(g1, rec)
    BY <1>5, <1>10, <1>11, <2>1 DEF RecordMatches, PersistenceRecord
  <2> QED
    BY <2>1, <2>2, ConfirmLetThrough
<1>13. g2 = Gate(Prepared(auth))
  <2>1. g1.state.authorization = auth
    BY <1>5, <1>10 DEF Staged
  <2> QED
    BY <1>5, <1>10, <1>12, <2>1 DEF ConfirmGate
<1> HIDE DEF g2
<1>14. ActivateVerdict(g2, now) = Ok
  <2>1. g2.state.tag = "Prepared" /\ g2.state.authorization = auth
    BY <1>5, <1>13 DEF Prepared
  <2>2. auth.not_before_ms <= now /\ now < auth.expires_at_ms
    BY <1>1, <1>3
  <2>3. ~RolledBack(g2, now)
    BY <1>8, <1>13
  <2> QED
    BY <2>1, <2>2, <2>3, ActivateLetThrough
<1>15. g3 = Gate(OpenFor(auth))
  <2>1. g2.state.authorization = auth
    BY <1>5, <1>13 DEF Prepared
  <2>2. g3 = [Observe(g2, now) EXCEPT !.state = OpenFor(g2.state.authorization)]
    BY <1>14 DEF ActivateGate, Ok
  <2> QED
    BY <1>5, <1>8, <1>13, <2>1, <2>2
<1> HIDE DEF g3
<1>16. CheckEffectVerdict(g3, n, epoch + 1, now) = Ok
  <2>1. /\ g3.state.tag = "Open" /\ g3.state.holder = n /\ g3.state.epoch = epoch + 1
        /\ g3.state.expires_at_ms = now + 300
    BY <1>1, <1>3, <1>5, <1>15 DEF OpenFor, Open
  <2>2. ~Expired(g3, now)
    BY <1>3, <2>1 DEF Expired
  <2>3. ~RolledBack(g3, now)
    BY <1>8, <1>15
  <2> QED
    BY <2>1, <2>2, <2>3, EffectLetThrough
<1> QED
  BY <1>9, <1>12, <1>14, <1>16 DEF GateOpens, auth, g0, g1, rec, g2, g3, now

(* All seven checks of promote, for a ready standby at such a tick. *)
LEMMA StandbyPromoted ==
    ASSUME CodeSized, IInv, LeaseOnRecord, NEW n \in Nodes, NEW t \in Nat,
           Ready(n), metadata_holder # n, epoch < MaxEpoch,
           now_tick <= t, t + LeaseTicks <= MaxTick, Excluded(t)
    PROVE  PromoteOutcome(n, t) = Ok
<1> DEFINE p == Proof(n, t)
           checks == PromoteChecks(n, t)
<1>1. CoreVerdict(n, t) = Ok
  <2>1. t <= MaxTick
    BY DEF LeaseTicks
  <2>2. /\ Verdict(SubjectChecks(p, CurrentAuthority, Policy)) = Ok
        /\ Verdict(QuorumChecks(p, Policy)) = Ok
    BY StandbySubject
  <2>3. /\ Verdict(FenceChecks(p, CurrentAuthority, Policy, Ms(t))) = Ok
        /\ Verdict(LeaseChecks(p, CurrentAuthority, Policy, Ms(t))) = Ok
    BY <2>1, StandbyFence
  <2>4. /\ Verdict(StateChecks(p, Policy, Ms(t))) = Ok
        /\ Verdict(HealthChecks(p, Policy, Ms(t))) = Ok
    BY StandbyState DEF Ready
  <2> HIDE DEF p
  <2>5. Accepts(p, CurrentAuthority, Policy, Ms(t))
    BY <2>2, <2>3, <2>4, SectionsAccept
  <2> QED
    BY <2>5 DEF CoreVerdict, Accepts, p
<1>2. ~GateIsEffective(node[n], t)
  <2> SUFFICES ASSUME GateIsEffective(node[n], t) PROVE FALSE
    OBVIOUS
  <2>1. node[n].gate # None /\ t < node[n].gate.expires_at_tick
    BY DEF GateIsEffective, Covers
  <2>2. node[n].gate.expires_at_tick <= now_tick
    BY <2>1 DEF IInv, GatesAreKnown
  <2>3. node[n].gate.expires_at_tick \in Nat /\ now_tick \in Nat
    BY <2>1 DEF IInv, TypeOK, NodeStates, Gates
  <2> QED
    BY <2>1, <2>2, <2>3
<1>3. ConstructedPolicy(Policy) /\ GateOpens(n, t)
  BY PolicyConstructed, StandbyGate
<1>4. DOMAIN checks = 1..7
  BY DEF PromoteChecks
<1>5. epoch < MaxEpoch /\ LeaseFits(t)
  BY DEF LeaseFits
<1>6. /\ checks[1][2]
      /\ checks[2][2]
      /\ checks[3][2]
      /\ checks[4][2]
      /\ checks[5][2]
      /\ checks[6][2]
      /\ checks[7][2]
  BY <1>1, <1>2, <1>3, <1>5 DEF PromoteChecks, Ready
<1>7. AllHold(checks)
  <2>1. \A i \in 1..7 : checks[i][2]
    BY <1>6
  <2> QED
    BY <1>4, <2>1 DEF AllHold
<1> QED
  BY <1>7 DEF PromoteOutcome, Verdict

LEMMA InvPossible == CodeSized /\ IInv /\ LeaseOnRecord => FailoverStaysPossible
<1> SUFFICES ASSUME CodeSized, IInv, LeaseOnRecord, NEW n \in Nodes,
                    Ready(n), metadata_holder # n, epoch < MaxEpoch,
                    now_tick + 2 * LeaseTicks + 1 <= MaxTick
             PROVE  \E t \in now_tick..(now_tick + LeaseTicks + 1) :
                       PromoteOutcome(n, t) = Ok
  BY DEF FailoverStaysPossible
<1>1. now_tick \in Nat /\ MaxTick \in Nat
  BY DEF IInv, TypeOK
<1>2. CASE Excluded(now_tick)
  <2>1. now_tick + LeaseTicks <= MaxTick
    BY <1>1 DEF LeaseTicks
  <2>2. PromoteOutcome(n, now_tick) = Ok
    BY <1>1, <1>2, <2>1, StandbyPromoted
  <2>3. now_tick \in now_tick..(now_tick + LeaseTicks + 1)
    BY <1>1 DEF LeaseTicks
  <2> QED
    BY <2>2, <2>3
<1>3. CASE ~Excluded(now_tick)
  <2> DEFINE t == now_tick + LeaseTicks + 1
  <2>1. metadata_holder # None
    BY <1>3 DEF Excluded
  <2>2. /\ metadata_lease_expires_at_tick \in Nat
        /\ metadata_lease_expires_at_tick <= now_tick + LeaseTicks
    BY <2>1 DEF LeaseOnRecord, IInv, TypeOK
  <2>3. /\ t \in Nat /\ now_tick <= t /\ t + LeaseTicks <= MaxTick
        /\ t > metadata_lease_expires_at_tick
        /\ t \in now_tick..(now_tick + LeaseTicks + 1)
    BY <1>1, <2>2 DEF LeaseTicks
  <2>4. Excluded(t)
    BY <2>3 DEF Excluded
  <2> HIDE DEF t
  <2>5. PromoteOutcome(n, t) = Ok
    BY <2>3, <2>4, StandbyPromoted
  <2> QED
    BY <2>3, <2>5
<1> QED
  BY <1>2, <1>3

(* There is no dead end: after any faults, a ready node that is not the holder  *)
(* of record would be promoted within a lease and its guard tick, through every *)
(* check of the validator and the gate, while the counters have room.           *)
THEOREM NoDeadEnd ==
    ASSUME CodeSized
    PROVE  Spec => []FailoverStaysPossible
<1>1. IInv /\ LeaseOnRecord /\ [Next]_vars => LeaseOnRecord'
  BY StepRecord DEF CodeSized
<1>2. IInv /\ LeaseOnRecord => FailoverStaysPossible
  BY InvPossible
<1> QED
  BY <1>1, <1>2, InitRecord, Invariance, PTL DEF Spec

-----------------------------------------------------------------------------
-----------------------------------------------------------------------------
(* The ticks an effective gate has left. *)
Writes(n) == n \in ActiveWriters

TicksLeft(n, k) == Writes(n) /\ node[n].gate.expires_at_tick = now_tick + k

LeaseInv == IInv /\ LeaseOnRecord

(* An effective gate has one, two or three ticks left, and time is not over. *)
LEMMA LeaseIsShort ==
    ASSUME None \notin Nat, LeaseInv, NEW n \in Nodes, Writes(n)
    PROVE  /\ TicksLeft(n, 1) \/ TicksLeft(n, 2) \/ TicksLeft(n, 3)
           /\ now_tick < MaxTick
<1> DEFINE end == node[n].gate.expires_at_tick
<1>1. /\ metadata_holder = n /\ end = metadata_lease_expires_at_tick
      /\ now_tick < end /\ node[n].gate # None
  BY InvEffective DEF LeaseInv, EffectiveIsCurrent, Writes, ActiveWriters, GateIsEffective, Covers
<1>2. now_tick \in Nat /\ MaxTick \in Nat
  BY DEF LeaseInv, IInv, TypeOK
<1>3. end \in Nat
  BY <1>1 DEF LeaseInv, IInv, TypeOK, NodeStates, Gates
<1>4. end <= MaxTick /\ end <= now_tick + 3
  <2>1. metadata_lease_expires_at_tick \in 0..MaxTick
    BY <1>1, <1>3 DEF LeaseInv, IInv, TypeOK
  <2>2. metadata_holder # None
    BY <1>1, <1>3 DEF LeaseInv, LeaseOnRecord
  <2> QED
    BY <1>1, <2>1, <2>2 DEF LeaseInv, LeaseOnRecord, LeaseTicks
<1> HIDE DEF end
<1>5. end = now_tick + 1 \/ end = now_tick + 2 \/ end = now_tick + 3
  BY <1>1, <1>2, <1>3, <1>4
<1>6. now_tick < MaxTick
  BY <1>1, <1>2, <1>3, <1>4
<1> QED
  BY <1>5, <1>6 DEF TicksLeft, end

(* A gate is never given more time: what is effective before and after a step     *)
(* ends when it did.                                                            *)
LEMMA NeverRenewed ==
    ASSUME LeaseInv, [Next]_vars, NEW n \in Nodes, Writes(n), Writes(n)'
    PROVE  /\ node'[n].gate.expires_at_tick = node[n].gate.expires_at_tick
           /\ now_tick' = now_tick \/ AdvanceTime
<1>1. node[n].gate # None /\ node'[n].gate # None /\ metadata_holder = n
  BY InvEffective
  DEF LeaseInv, EffectiveIsCurrent, Writes, ActiveWriters, GateIsEffective
<1>2. node \in [Nodes -> NodeStates]
  BY DEF LeaseInv, IInv, TypeOK
<1>3. ASSUME NEW m \in Nodes, Promote(m)
      PROVE  now_tick' = now_tick /\ node'[n] = node[n]
  <2>1. m # n
    BY <1>1, <1>3, PriorExcluded DEF Promote, LeaseInv, IInv
  <2> QED
    BY <1>2, <1>3, <2>1 DEF Promote
<1>4. ASSUME NEW m \in Nodes, Crash(m) \/ Restart(m) \/ Fence(m)
      PROVE  now_tick' = now_tick /\ node'[n] = node[n]
  <2>1. node'[m].gate = None /\ now_tick' = now_tick
    BY <1>2, <1>4 DEF Crash, Restart, Fence, NodeStates
  <2>2. m # n
    BY <1>1, <2>1
  <2> QED
    BY <1>2, <1>4, <2>1, <2>2 DEF Crash, Restart, Fence
<1>5. ASSUME NEW m \in Nodes, NEW b \in BOOLEAN, SetConnection(m, b) \/ SetCaughtUp(m, b)
      PROVE  now_tick' = now_tick /\ node'[n].gate = node[n].gate
  BY <1>2, <1>5 DEF SetConnection, SetCaughtUp, NodeStates
<1>6. ASSUME NEW b \in BOOLEAN, SetWitness(b)
      PROVE  now_tick' = now_tick /\ node'[n] = node[n]
  BY <1>6 DEF SetWitness
<1>7. CASE AdvanceTime
  BY <1>7 DEF AdvanceTime
<1>8. CASE UNCHANGED vars
  BY <1>8 DEF vars
<1> QED
  BY <1>3, <1>4, <1>5, <1>6, <1>7, <1>8 DEF Next, NodeAction

(* So time only shortens what is left, and a tick does. *)
LEMMA TicksOnlyFall ==
    ASSUME None \notin Nat, LeaseInv, LeaseInv', [Next]_vars, NEW n \in Nodes
    PROVE  /\ TicksLeft(n, 3) => TicksLeft(n, 3)' \/ TicksLeft(n, 2)' \/ ~Writes(n)'
           /\ TicksLeft(n, 2) => TicksLeft(n, 2)' \/ TicksLeft(n, 1)' \/ ~Writes(n)'
           /\ TicksLeft(n, 1) => TicksLeft(n, 1)' \/ ~Writes(n)'
           /\ AdvanceTime =>
                 /\ TicksLeft(n, 3) => TicksLeft(n, 2)' \/ ~Writes(n)'
                 /\ TicksLeft(n, 2) => TicksLeft(n, 1)' \/ ~Writes(n)'
                 /\ TicksLeft(n, 1) => ~Writes(n)'
<1> SUFFICES ASSUME Writes(n), Writes(n)'
             PROVE  /\ TicksLeft(n, 3) => TicksLeft(n, 3)' \/ TicksLeft(n, 2)'
                    /\ TicksLeft(n, 2) => TicksLeft(n, 2)' \/ TicksLeft(n, 1)'
                    /\ TicksLeft(n, 1) => TicksLeft(n, 1)'
                    /\ AdvanceTime =>
                          /\ TicksLeft(n, 3) => TicksLeft(n, 2)'
                          /\ TicksLeft(n, 2) => TicksLeft(n, 1)'
                          /\ ~TicksLeft(n, 1)
  BY DEF TicksLeft
<1>1. PICK end : end = node[n].gate.expires_at_tick
  OBVIOUS
<1>2. node'[n].gate.expires_at_tick = end /\ (now_tick' = now_tick \/ AdvanceTime)
  BY <1>1, NeverRenewed
<1>3. now_tick \in Nat /\ (AdvanceTime => now_tick' = now_tick + 1)
  BY DEF LeaseInv, IInv, TypeOK, AdvanceTime
<1>4. now_tick' < end
  BY <1>2 DEF Writes, ActiveWriters, GateIsEffective, Covers
<1>5. \A k \in {1, 2, 3} : /\ TicksLeft(n, k) <=> end = now_tick + k
                           /\ TicksLeft(n, k)' <=> end = now_tick' + k
  BY <1>1, <1>2 DEF TicksLeft
<1> QED
  BY <1>2, <1>3, <1>4, <1>5

LEMMA LeaseInvariance ==
    ASSUME None \notin Nat
    PROVE  Spec => []LeaseInv
<1>1. IInv /\ LeaseOnRecord /\ [Next]_vars => LeaseOnRecord'
  BY StepRecord
<1>2. IInv /\ LeaseOnRecord => LeaseInv
  BY DEF LeaseInv
<1> QED
  BY <1>1, <1>2, InitRecord, Invariance, PTL DEF Spec

(* What WF_vars(AdvanceTime) says, with the guard of AdvanceTime for ENABLED.    *)
TimeFlows == []([](now_tick < MaxTick) => <><<AdvanceTime>>_vars)

LEMMA WriterStops ==
    ASSUME None \notin Nat, NEW n \in Nodes
    PROVE  Spec /\ TimeFlows => ((n \in ActiveWriters) ~> (n \notin ActiveWriters))
<1>1. LeaseInv /\ Writes(n) =>
           (TicksLeft(n, 1) \/ TicksLeft(n, 2) \/ TicksLeft(n, 3)) /\ now_tick < MaxTick
  BY LeaseIsShort
<1>2. LeaseInv /\ LeaseInv' /\ [Next]_vars =>
           /\ TicksLeft(n, 3) => TicksLeft(n, 3)' \/ TicksLeft(n, 2)' \/ ~Writes(n)'
           /\ TicksLeft(n, 2) => TicksLeft(n, 2)' \/ TicksLeft(n, 1)' \/ ~Writes(n)'
           /\ TicksLeft(n, 1) => TicksLeft(n, 1)' \/ ~Writes(n)'
  BY TicksOnlyFall
<1>3. LeaseInv /\ LeaseInv' /\ [Next]_vars /\ <<AdvanceTime>>_vars =>
           /\ TicksLeft(n, 3) => TicksLeft(n, 2)' \/ ~Writes(n)'
           /\ TicksLeft(n, 2) => TicksLeft(n, 1)' \/ ~Writes(n)'
           /\ TicksLeft(n, 1) => ~Writes(n)'
  BY TicksOnlyFall
<1>4. Spec => []LeaseInv
  BY LeaseInvariance
<1>5. (n \in ActiveWriters => Writes(n)) /\ (~Writes(n) => n \notin ActiveWriters)
  BY DEF Writes
<1> QED
  BY <1>1, <1>2, <1>3, <1>4, <1>5, PTL DEF Spec, TimeFlows

(* No authority lasts: while time flows, an effective gate closes by itself, with *)
(* no node and no witness having to do anything.                               *)
THEOREM AuthorityEnds ==
    ASSUME None \notin Nat
    PROVE  Spec /\ TimeFlows => AuthorityRunsOut
<1>1. ASSUME NEW n \in Nodes
      PROVE  Spec /\ TimeFlows => ((n \in ActiveWriters) ~> (n \notin ActiveWriters))
  BY WriterStops
<1>2. \A n \in Nodes :
          Spec /\ TimeFlows => ((n \in ActiveWriters) ~> (n \notin ActiveWriters))
  BY <1>1
<1> QED
  BY <1>2 DEF AuthorityRunsOut
=============================================================================
