--------------------------- MODULE GateLifeProofs ---------------------------
(***************************************************************************)
(* Theorems about one effect gate over all its process lives, for every    *)
(* set of capabilities, every clock and every bound of GateLife.           *)
(*                                                                         *)
(* The inductive invariant is TypeOK with three facts about epochs: what   *)
(* the adapter reported is stored, what is prepared or open is stored, and *)
(* what was ever opened is stored and behind the gate.  The clock plays no *)
(* part in them, so they hold for a clock that lies.  The second half adds *)
(* what an open gate knows of its lease and of time, for the effects.      *)
(***************************************************************************)
EXTENDS GateLife, EffectGateProofs

USE CapabilityAssumption

(* The gate an observation leaves is of the same binding and life; its state   *)
(* is the old one or a self-fence at the same epoch.                           *)
LEMMA ObserveTyped ==
    ASSUME NEW g \in Gates, NEW now \in Nat
    PROVE  /\ Observe(g, now) \in Gates
           /\ LastEpoch(Observe(g, now).state) = LastEpoch(g.state)
           /\ LastEpoch(g.state) \in Nat
           /\ \/ Observe(g, now).state = g.state
              \/ Observe(g, now).state.tag = "SelfFenced"
           /\ ~RolledBack(g, now) => Observe(g, now).state = g.state
<1>1. LastEpoch(g.state) \in Nat
  BY DEF Gates, GateStates, Own, LastEpoch
<1>2. CASE RolledBack(g, now)
  <2>1. Observe(g, now) = [g EXCEPT !.state = SelfFenced(LastEpoch(g.state), "SafetyFault")]
    BY <1>2 DEF Observe, SelfFence
  <2>2. SelfFenced(LastEpoch(g.state), "SafetyFault") \in GateStates
    BY <1>1 DEF SelfFenced, GateStates, SelfFenceReason
  <2>3. /\ Observe(g, now) \in Gates
        /\ Observe(g, now).state = SelfFenced(LastEpoch(g.state), "SafetyFault")
    BY <2>1, <2>2 DEF Gates
  <2>4. /\ LastEpoch(SelfFenced(LastEpoch(g.state), "SafetyFault")) = LastEpoch(g.state)
        /\ SelfFenced(LastEpoch(g.state), "SafetyFault").tag = "SelfFenced"
    BY DEF SelfFenced, LastEpoch
  <2> QED
    BY <1>1, <1>2, <2>3, <2>4
<1>3. CASE ~RolledBack(g, now)
  <2>1. Observe(g, now) = [g EXCEPT !.last_observed_ms = now]
    BY <1>3 DEF Observe
  <2> QED
    BY <1>1, <2>1 DEF Gates
<1> QED
  BY <1>2, <1>3

(* So does a self-fence for whatever reason. *)
LEMMA SelfFenceTyped ==
    ASSUME NEW g \in Gates, NEW reason \in SelfFenceReason
    PROVE  /\ SelfFence(g, reason) \in Gates
           /\ LastEpoch(SelfFence(g, reason).state) = LastEpoch(g.state)
           /\ SelfFence(g, reason).state.tag = "SelfFenced"
<1>1. LastEpoch(g.state) \in Nat
  BY DEF Gates, GateStates, Own, LastEpoch
<1>2. SelfFenced(LastEpoch(g.state), reason) \in GateStates
  BY <1>1 DEF SelfFenced, GateStates
<1> QED
  BY <1>1, <1>2 DEF SelfFence, SelfFenced, Gates, LastEpoch

(* A tick or an effect check never changes the epoch the gate knows, and ends  *)
(* in the state before it or in a self-fence.                                  *)
LEMMA TickTyped ==
    ASSUME NEW g \in Gates, NEW now \in Nat
    PROVE  /\ TickGate(g, now) \in Gates
           /\ LastEpoch(TickGate(g, now).state) = LastEpoch(g.state)
           /\ \/ TickGate(g, now).state = g.state
              \/ TickGate(g, now).state.tag = "SelfFenced"
<1>1. "LeaseExpired" \in SelfFenceReason
  BY DEF SelfFenceReason
<1> QED
  BY <1>1, ObserveTyped, SelfFenceTyped DEF TickGate

(* A stage keeps the gate, fences it, or stages an own capability of this life *)
(* above the epoch the gate knew.                                              *)
LEMMA StageTyped ==
    ASSUME NEW g \in Gates, NEW auth \in Capabilities, NEW now \in Nat
    PROVE  /\ StageGate(g, auth, now) \in Gates
           /\ \/ /\ StageGate(g, auth, now).state = Staged(auth)
                 /\ auth.epoch > LastEpoch(g.state)
              \/ /\ LastEpoch(StageGate(g, auth, now).state) = LastEpoch(g.state)
                 /\ \/ StageGate(g, auth, now).state = g.state
                    \/ StageGate(g, auth, now).state.tag = "SelfFenced"
<1>1. CASE StageVerdict(g, auth, now) = Ok /\ ~AlreadyStaged(g, auth)
  <2>1. /\ auth \in Own
        /\ auth.epoch > LastEpoch(g.state)
    BY <1>1, StageOk DEF Gates, Own, NewerEpoch
  <2>2. Staged(auth) \in GateStates
    BY <2>1 DEF Staged, GateStates
  <2>3. StageGate(g, auth, now) = [Observe(g, now) EXCEPT !.state = Staged(auth)]
    BY <1>1 DEF StageGate
  <2> QED
    BY <2>1, <2>2, <2>3, ObserveTyped DEF Gates
<1>2. CASE ~(StageVerdict(g, auth, now) = Ok /\ ~AlreadyStaged(g, auth))
  BY <1>2, ObserveTyped DEF StageGate
<1> QED
  BY <1>1, <1>2

(* A confirmation keeps the gate or prepares the authorization it staged, and  *)
(* then the record names that authorization's epoch.                           *)
LEMMA ConfirmTyped ==
    ASSUME NEW g \in Gates, NEW record
    PROVE  /\ ConfirmGate(g, record) \in Gates
           /\ LastEpoch(ConfirmGate(g, record).state) = LastEpoch(g.state)
           /\ \/ ConfirmGate(g, record) = g
              \/ /\ g.state.tag = "Staged"
                 /\ ConfirmGate(g, record).state.tag = "Prepared"
                 /\ record.accepted_epoch = LastEpoch(g.state)
<1>1. CASE ConfirmVerdict(g, record) = Ok
  <2>1. /\ g.state.tag = "Staged"
        /\ PersistenceRecord(g, g.state.authorization) = record
    BY <1>1, ConfirmOk
  <2>2. /\ g.state.authorization \in Own
        /\ LastEpoch(g.state) = g.state.authorization.epoch
    BY <2>1 DEF Gates, GateStates, LastEpoch
  <2>3. Prepared(g.state.authorization) \in GateStates
    BY <2>2 DEF Prepared, GateStates
  <2>4. ConfirmGate(g, record) = [g EXCEPT !.state = Prepared(g.state.authorization)]
    BY <1>1 DEF ConfirmGate
  <2>5. record.accepted_epoch = g.state.authorization.epoch
    BY <2>1 DEF PersistenceRecord
  <2>6. /\ LastEpoch(Prepared(g.state.authorization)) = g.state.authorization.epoch
        /\ Prepared(g.state.authorization).tag = "Prepared"
    BY DEF Prepared, LastEpoch
  <2>7. /\ ConfirmGate(g, record) \in Gates
        /\ ConfirmGate(g, record).state = Prepared(g.state.authorization)
    BY <2>3, <2>4 DEF Gates
  <2> QED
    BY <2>1, <2>2, <2>5, <2>6, <2>7
<1>2. CASE ConfirmVerdict(g, record) # Ok
  BY <1>2 DEF ConfirmGate
<1> QED
  BY <1>1, <1>2

(* An activation opens the prepared own capability, or leaves a gate that is   *)
(* as it was or self-fenced; the epoch the gate knows stays.                   *)
LEMMA ActivateTyped ==
    ASSUME NEW g \in Gates, NEW now \in Nat
    PROVE  /\ ActivateGate(g, now) \in Gates
           /\ LastEpoch(ActivateGate(g, now).state) = LastEpoch(g.state)
           /\ \/ /\ ActivateVerdict(g, now) = Ok
                 /\ g.state.tag = "Prepared"
                 /\ g.state.authorization \in Own
                 /\ LastEpoch(g.state) = g.state.authorization.epoch
                 /\ ActivateGate(g, now).state = OpenFor(g.state.authorization)
              \/ /\ ActivateVerdict(g, now) # Ok
                 /\ \/ ActivateGate(g, now).state = g.state
                    \/ ActivateGate(g, now).state.tag = "SelfFenced"
<1>1. CASE ActivateVerdict(g, now) = Ok
  <2>1. g.state.tag = "Prepared"
    BY <1>1, ActivateOk
  <2>2. /\ g.state.authorization \in Own
        /\ LastEpoch(g.state) = g.state.authorization.epoch
    BY <2>1 DEF Gates, GateStates, LastEpoch
  <2>3. OpenFor(g.state.authorization) \in GateStates
    BY <2>2 DEF OpenFor, Open, GateStates, Own
  <2>4. LastEpoch(OpenFor(g.state.authorization)) = g.state.authorization.epoch
    BY DEF OpenFor, Open, LastEpoch
  <2>5. ActivateGate(g, now) = [Observe(g, now) EXCEPT !.state = OpenFor(g.state.authorization)]
    BY <1>1 DEF ActivateGate, Ok
  <2>6. /\ ActivateGate(g, now) \in Gates
        /\ ActivateGate(g, now).state = OpenFor(g.state.authorization)
    BY <2>3, <2>5, ObserveTyped DEF Gates
  <2> QED
    BY <1>1, <2>1, <2>2, <2>4, <2>6
<1>2. CASE ActivateVerdict(g, now) = "LeaseExpired"
  <2>1. "LeaseExpired" \in SelfFenceReason /\ "LeaseExpired" # Ok
    BY DEF SelfFenceReason, Ok
  <2>2. ActivateGate(g, now) = SelfFence(Observe(g, now), "LeaseExpired")
    BY <1>2, <2>1 DEF ActivateGate
  <2>3. /\ Observe(g, now) \in Gates
        /\ LastEpoch(Observe(g, now).state) = LastEpoch(g.state)
    BY ObserveTyped
  <2>4. /\ ActivateGate(g, now) \in Gates
        /\ LastEpoch(ActivateGate(g, now).state) = LastEpoch(g.state)
        /\ ActivateGate(g, now).state.tag = "SelfFenced"
    BY <2>1, <2>2, <2>3, SelfFenceTyped
  <2> QED
    BY <1>2, <2>1, <2>4
<1>3. CASE ActivateVerdict(g, now) \notin {Ok, "LeaseExpired"}
  <2>1. ActivateGate(g, now) = Observe(g, now)
    BY <1>3 DEF ActivateGate
  <2> QED
    BY <1>3, <2>1, ObserveTyped
<1> QED
  BY <1>1, <1>2, <1>3

-----------------------------------------------------------------------------
EpochMemory == AckedIsDurable /\ DurableBeforePrepared /\ OpenedIsBehind

IInv == TypeOK /\ EpochMemory

USE DEF EpochMemory, IInv

LEMMA InitIInv == Init => IInv
<1> SUFFICES ASSUME Init PROVE IInv
  OBVIOUS
<1>1. gate \in Gates /\ gate.state.tag = "Closed"
  BY DEF Init, Recover, Closed, Gates, GateStates
<1>2. TypeOK
  BY <1>1 DEF Init, TypeOK
<1> QED
  BY <1>1, <1>2 DEF Init, AckedIsDurable, DurableBeforePrepared, OpenedIsBehind

(* A method that leaves the gate's epoch alone, and opens and prepares nothing, *)
(* keeps the epoch memory.                                                      *)
LEMMA QuietStep ==
    ASSUME IInv, UNCHANGED <<store, acked, openedBy>>,
           LastEpoch(gate'.state) = LastEpoch(gate.state),
           gate'.state = gate.state \/ gate'.state.tag = "SelfFenced"
    PROVE  EpochMemory'
BY DEF AckedIsDurable, DurableBeforePrepared, OpenedIsBehind

LEMMA StepIInv == IInv /\ [Next]_vars => IInv'
<1> SUFFICES ASSUME IInv, [Next]_vars PROVE IInv'
  OBVIOUS
<1> USE DEF environment, history
<1>1. ASSUME NEW auth \in Capabilities, Stage(auth) PROVE IInv'
  <2>1. gate \in Gates /\ clock \in Nat /\ gate' = StageGate(gate, auth, clock)
    BY <1>1 DEF Stage, TypeOK
  <2>2. gate' \in Gates
    BY <2>1, StageTyped
  <2>3. StageRecord(gate, auth, clock) \in Records
    BY <2>1, ObserveTyped DEF StageRecord, PersistenceRecord, Records, Gates
  <2>4. TypeOK'
    BY <1>1, <2>2, <2>3 DEF Stage, TypeOK
  <2>5. CASE /\ gate'.state = Staged(auth)
             /\ auth.epoch > LastEpoch(gate.state)
    <3>1. LastEpoch(gate'.state) = auth.epoch /\ gate'.state.tag = "Staged"
      BY <2>5 DEF Staged, LastEpoch
    <3>2. LastEpoch(gate.state) \in Nat
      BY <2>1, ObserveTyped
    <3>3. openedBy # None => openedBy.epoch \in Nat
      BY DEF TypeOK, Own
    <3> QED
      BY <1>1, <2>4, <2>5, <3>1, <3>2, <3>3
      DEF Stage, AckedIsDurable, DurableBeforePrepared, OpenedIsBehind
  <2>6. CASE /\ LastEpoch(gate'.state) = LastEpoch(gate.state)
             /\ gate'.state = gate.state \/ gate'.state.tag = "SelfFenced"
    <3>1. UNCHANGED <<store, acked, openedBy>>
      BY <1>1 DEF Stage
    <3> QED
      BY <2>4, <2>6, <3>1, QuietStep
  <2> QED
    BY <2>1, <2>5, <2>6, StageTyped
<1>2. CASE Confirm
  <2>1. gate \in Gates /\ gate' = ConfirmGate(gate, acked)
    BY <1>2 DEF Confirm, TypeOK
  <2>2. TypeOK'
    BY <1>2, <2>1, ConfirmTyped DEF Confirm, TypeOK
  <2>3. UNCHANGED <<store, acked, openedBy>>
    BY <1>2 DEF Confirm
  <2>4. CASE gate' = gate
    BY <2>2, <2>3, <2>4, QuietStep
  <2>5. CASE /\ gate.state.tag = "Staged"
             /\ gate'.state.tag = "Prepared"
             /\ acked.accepted_epoch = LastEpoch(gate.state)
    <3>1. LastEpoch(gate'.state) = LastEpoch(gate.state)
      BY <2>1, ConfirmTyped
    <3> QED
      BY <1>2, <2>2, <2>3, <2>5, <3>1
      DEF Confirm, AckedIsDurable, DurableBeforePrepared, OpenedIsBehind
  <2> QED
    BY <2>1, <2>4, <2>5, ConfirmTyped
<1>3. CASE Activate
  <2>1. gate \in Gates /\ clock \in Nat /\ gate' = ActivateGate(gate, clock)
    BY <1>3 DEF Activate, TypeOK
  <2>2. CASE ActivateVerdict(gate, clock) = Ok
    <3>1. /\ gate' \in Gates
          /\ gate.state.tag = "Prepared"
          /\ gate.state.authorization \in Own
          /\ LastEpoch(gate.state) = gate.state.authorization.epoch
          /\ LastEpoch(gate'.state) = LastEpoch(gate.state)
          /\ gate'.state = OpenFor(gate.state.authorization)
      BY <2>1, <2>2, ActivateTyped
    <3>2. openedBy' = gate.state.authorization
      BY <1>3, <2>2 DEF Activate
    <3>3. TypeOK'
      BY <1>3, <3>1, <3>2 DEF Activate, TypeOK
    <3>4. gate'.state.tag = "Open"
      BY <3>1 DEF OpenFor, Open
    <3>5. gate.state.authorization.epoch \in Nat
      BY <3>1 DEF Own
    <3> QED
      BY <1>3, <3>1, <3>2, <3>3, <3>4, <3>5
      DEF Activate, AckedIsDurable, DurableBeforePrepared, OpenedIsBehind
  <2>3. CASE ActivateVerdict(gate, clock) # Ok
    <3>1. /\ gate' \in Gates
          /\ LastEpoch(gate'.state) = LastEpoch(gate.state)
          /\ gate'.state = gate.state \/ gate'.state.tag = "SelfFenced"
      BY <2>1, <2>3, ActivateTyped
    <3>2. UNCHANGED <<store, acked, openedBy>>
      BY <1>3, <2>3 DEF Activate
    <3>3. TypeOK'
      BY <1>3, <2>3, <3>1 DEF Activate, TypeOK
    <3> QED
      BY <3>1, <3>2, <3>3, QuietStep
  <2> QED
    BY <2>2, <2>3
<1>4. ASSUME NEW holder \in Holders, NEW e \in Epochs, CheckEffect(holder, e) PROVE IInv'
  <2>1. gate \in Gates /\ clock \in Nat /\ gate' = TickGate(gate, clock)
    BY <1>4 DEF CheckEffect, CheckEffectGate, TypeOK
  <2>2. /\ gate' \in Gates
        /\ LastEpoch(gate'.state) = LastEpoch(gate.state)
        /\ gate'.state = gate.state \/ gate'.state.tag = "SelfFenced"
    BY <2>1, TickTyped
  <2>3. UNCHANGED <<store, acked, openedBy>>
    BY <1>4 DEF CheckEffect
  <2>4. e \in Nat /\ gate.incarnation \in Nat
    BY <2>1 DEF Epochs, Gates
  <2>5. TypeOK'
    BY <1>4, <2>1, <2>2, <2>4 DEF CheckEffect, TypeOK
  <2> QED
    BY <2>2, <2>3, <2>5, QuietStep
<1>5. CASE Tick
  <2>1. gate \in Gates /\ clock \in Nat /\ gate' = TickGate(gate, clock)
    BY <1>5 DEF Tick, TypeOK
  <2>2. UNCHANGED <<store, acked, openedBy>>
    BY <1>5 DEF Tick
  <2>3. TypeOK'
    BY <1>5, <2>1, TickTyped DEF Tick, TypeOK
  <2> QED
    BY <2>1, <2>2, <2>3, TickTyped, QuietStep
<1>6. ASSUME Close \/ SafetyFault PROVE IInv'
  <2>1. PICK reason \in SelfFenceReason : gate' = SelfFence(gate, reason)
    BY <1>6 DEF Close, SafetyFault, CloseGate, SafetyFaultGate, SelfFenceReason
  <2>2. gate \in Gates /\ UNCHANGED <<environment, history>>
    BY <1>6 DEF Close, SafetyFault, TypeOK
  <2>3. TypeOK'
    BY <2>1, <2>2, SelfFenceTyped DEF TypeOK
  <2> QED
    BY <2>1, <2>2, <2>3, SelfFenceTyped, QuietStep
<1>7. ASSUME NEW record \in inFlight, Persist(record) PROVE IInv'
  <2>1. record \in Records
    BY DEF TypeOK
  <2>2. /\ store'.accepted_epoch \in Nat
        /\ store'.accepted_epoch >= store.accepted_epoch
        /\ store'.accepted_epoch >= record.accepted_epoch
    BY <1>7, <2>1 DEF Persist, TypeOK, Records, Larger
  <2>3. TypeOK'
    BY <1>7, <2>1 DEF Persist, TypeOK, Records, Larger
  <2>4. /\ LastEpoch(gate.state) \in Nat
        /\ openedBy # None => openedBy.epoch \in Nat
        /\ acked # None => acked.accepted_epoch \in Nat
        /\ store.accepted_epoch \in Nat
    BY ObserveTyped DEF TypeOK, Own, Records
  <2> QED
    BY <1>7, <2>2, <2>3, <2>4
    DEF Persist, AckedIsDurable, DurableBeforePrepared, OpenedIsBehind
<1>8. ASSUME NEW t \in 0..MaxTime, SetClock(t) PROVE IInv'
  BY <1>8 DEF SetClock, TypeOK, AckedIsDurable, DurableBeforePrepared, OpenedIsBehind
<1>9. CASE Crash
  BY <1>9 DEF Crash, TypeOK, AckedIsDurable, DurableBeforePrepared, OpenedIsBehind
<1>10. CASE Restart
  <2>1. store' = [store EXCEPT !.incarnation = @ + 1]
    BY <1>10 DEF Restart
  <2>2. /\ gate'.state = Closed(store.accepted_epoch)
        /\ gate' \in Gates
    BY <1>10, <2>1 DEF Restart, Recover, Closed, Gates, GateStates, TypeOK
  <2>3. LastEpoch(gate'.state) = store.accepted_epoch /\ gate'.state.tag = "Closed"
    BY <2>2 DEF Closed, LastEpoch
  <2>4. TypeOK'
    BY <1>10, <2>1, <2>2 DEF Restart, TypeOK
  <2> QED
    BY <1>10, <2>1, <2>3, <2>4
    DEF Restart, AckedIsDurable, DurableBeforePrepared, OpenedIsBehind, TypeOK
<1>11. CASE UNCHANGED vars
  BY <1>11 DEF vars, TypeOK, AckedIsDurable, DurableBeforePrepared, OpenedIsBehind
<1> QED
  BY <1>1, <1>2, <1>3, <1>4, <1>5, <1>6, <1>7, <1>8, <1>9, <1>10, <1>11 DEF Next

LEMMA Invariance == Spec => []IInv
BY InitIInv, StepIInv, PTL DEF Spec

(* A gate only ever holds what was issued for it: GateLife's type invariant. *)
THEOREM TypeCorrect == Spec => []TypeOK
BY Invariance, PTL

(* Whatever is lost, late or reordered between stage and confirm_persisted, a   *)
(* gate that is prepared or open runs under an epoch the store remembers.      *)
THEOREM PreparedIsDurable == Spec => []DurableBeforePrepared
BY Invariance, PTL

(* What was ever opened is durable and behind the gate; what is staged or        *)
(* prepared lies above it: no restart forgets an epoch that ran.               *)
THEOREM OpenedStaysBehind == Spec => []OpenedIsBehind
<1>1. IInv => OpenedIsBehind
  OBVIOUS
<1> QED
  BY <1>1, Invariance, PTL

(* Only activate opens a gate that is not open, and it opens what is prepared. *)
LEMMA OpensByActivate ==
    ASSUME TypeOK, [Next]_vars, Opens
    PROVE  /\ gate.state.tag = "Prepared"
           /\ gate'.state = OpenFor(gate.state.authorization)
           /\ LastEpoch(gate.state) = gate.state.authorization.epoch
<1> USE DEF environment, history, Opens
<1>0. gate \in Gates /\ clock \in Nat
  BY DEF TypeOK
<1>1. ASSUME NEW auth \in Capabilities, Stage(auth) PROVE FALSE
  <2>1. Staged(auth).tag = "Staged"
    BY DEF Staged
  <2> QED
    BY <1>0, <1>1, <2>1, StageTyped DEF Stage
<1>2. CASE Confirm
  BY <1>0, <1>2, ConfirmTyped DEF Confirm
<1>3. CASE Activate
  BY <1>0, <1>3, ActivateTyped DEF Activate
<1>4. ASSUME NEW holder \in Holders, NEW e \in Epochs, CheckEffect(holder, e) PROVE FALSE
  BY <1>0, <1>4, TickTyped DEF CheckEffect, CheckEffectGate
<1>5. CASE Tick
  BY <1>0, <1>5, TickTyped DEF Tick
<1>6. CASE Close \/ SafetyFault
  <2>1. PICK reason \in SelfFenceReason : gate' = SelfFence(gate, reason)
    BY <1>6 DEF Close, SafetyFault, CloseGate, SafetyFaultGate, SelfFenceReason
  <2> QED
    BY <1>0, <2>1, SelfFenceTyped
<1>7. CASE \E record \in inFlight : Persist(record)
  BY <1>7 DEF Persist
<1>8. CASE \E t \in 0..MaxTime : SetClock(t)
  BY <1>8 DEF SetClock
<1>9. CASE Crash
  BY <1>9 DEF Crash
<1>10. CASE Restart
  BY <1>10 DEF Restart, Recover, Closed
<1>11. CASE UNCHANGED vars
  BY <1>11 DEF vars
<1> QED
  BY <1>1, <1>2, <1>3, <1>4, <1>5, <1>6, <1>7, <1>8, <1>9, <1>10, <1>11 DEF Next

(* No activation replays an epoch, in this process life or a later one: the     *)
(* prepared authorization lies above every epoch opened before.                *)
THEOREM OpensUpwards == Spec => EpochsOpenUpwards
<1>1. ASSUME IInv, [Next]_vars, Opens, openedBy # None
      PROVE  gate'.state.epoch > openedBy.epoch
  <2>1. LastEpoch(gate.state) > openedBy.epoch
    BY <1>1, OpensByActivate DEF OpenedIsBehind
  <2>2. gate'.state.epoch = LastEpoch(gate.state)
    BY <1>1, OpensByActivate DEF OpenFor, Open
  <2> QED
    BY <2>1, <2>2
<1>2. IInv /\ [Next]_vars => [Opens /\ openedBy # None => gate'.state.epoch > openedBy.epoch]_vars
  BY <1>1
<1> QED
  BY <1>2, Invariance, PTL DEF Spec, EpochsOpenUpwards

-----------------------------------------------------------------------------
(* The effects one gate lets through.  The invariant so far knows epochs only; *)
(* effects need what the gate remembers of its lease and of the time: an open  *)
(* gate carries the epoch and the end of the capability that opened it, was    *)
(* opened not before that capability's start, and has seen no time behind its  *)
(* last effect.                                                                *)

(* A gate belongs to the life the store counts, and so does what it may open. *)
GateOfThisLife ==
    /\ gate.incarnation = store.incarnation
    /\ gate.state.tag \in {"Staged", "Prepared"}
          => gate.state.authorization.candidate_incarnation = gate.incarnation

(* An open gate is the one the latest activation opened, for its lease. *)
OpenAsGranted ==
    gate.state.tag = "Open" =>
        /\ openedBy # None
        /\ openedBy.candidate_incarnation = gate.incarnation
        /\ gate.state.epoch = openedBy.epoch
        /\ gate.state.expires_at_ms = openedBy.expires_at_ms
        /\ openedBy.not_before_ms <= gate.last_observed_ms

(* The latest effect was of an epoch opened by then, and an open gate of that  *)
(* epoch has seen its time.                                                    *)
EffectIsBehind ==
    effect # None =>
        /\ openedBy # None
        /\ effect.epoch <= openedBy.epoch
        /\ gate.state.tag = "Open" /\ gate.state.epoch = effect.epoch
              => effect.at <= gate.last_observed_ms

LifeInv == GateOfThisLife /\ OpenAsGranted /\ EffectIsBehind /\ EffectInsideLease

EInv == IInv /\ LifeInv

USE DEF LifeInv, EInv

-----------------------------------------------------------------------------
(* No method changes the life a gate belongs to or turns back the time it saw. *)
LEMMA ObserveSameLife ==
    ASSUME NEW g \in Gates, NEW now \in Nat
    PROVE  /\ Observe(g, now).incarnation = g.incarnation
           /\ Observe(g, now).last_observed_ms >= g.last_observed_ms
           /\ ~RolledBack(g, now) => /\ Observe(g, now).last_observed_ms = now
                                     /\ g.last_observed_ms <= now
<1>1. g.last_observed_ms \in Nat
  BY DEF Gates
<1> QED
  BY <1>1 DEF Observe, RolledBack, SelfFence, Gates

LEMMA SelfFenceSameLife ==
    ASSUME NEW g \in Gates, NEW reason \in SelfFenceReason
    PROVE  /\ SelfFence(g, reason).incarnation = g.incarnation
           /\ SelfFence(g, reason).last_observed_ms = g.last_observed_ms
BY DEF SelfFence, Gates

LEMMA TickSameLife ==
    ASSUME NEW g \in Gates, NEW now \in Nat
    PROVE  /\ TickGate(g, now).incarnation = g.incarnation
           /\ TickGate(g, now).last_observed_ms >= g.last_observed_ms
           /\ ~RolledBack(g, now) => /\ TickGate(g, now).last_observed_ms = now
                                     /\ g.last_observed_ms <= now
<1>1. "LeaseExpired" \in SelfFenceReason
  BY DEF SelfFenceReason
<1> QED
  BY <1>1, ObserveTyped, ObserveSameLife, SelfFenceSameLife DEF TickGate

LEMMA StageSameLife ==
    ASSUME NEW g \in Gates, NEW auth \in Capabilities, NEW now \in Nat
    PROVE  /\ StageGate(g, auth, now).incarnation = g.incarnation
           /\ StageGate(g, auth, now).last_observed_ms >= g.last_observed_ms
           /\ \/ /\ StageGate(g, auth, now).state = Staged(auth)
                 /\ auth.candidate_incarnation = g.incarnation
              \/ StageGate(g, auth, now).state = g.state
              \/ StageGate(g, auth, now).state.tag = "SelfFenced"
<1>1. Observe(g, now) \in Gates
  BY ObserveTyped
<1>2. CASE StageVerdict(g, auth, now) = Ok /\ ~AlreadyStaged(g, auth)
  <2>1. StageGate(g, auth, now) = [Observe(g, now) EXCEPT !.state = Staged(auth)]
    BY <1>2 DEF StageGate
  <2>2. auth.candidate_incarnation = g.incarnation
    BY <1>2, StageOk
  <2> QED
    BY <1>1, <2>1, <2>2, ObserveSameLife DEF Gates
<1>3. CASE ~(StageVerdict(g, auth, now) = Ok /\ ~AlreadyStaged(g, auth))
  BY <1>3, ObserveTyped, ObserveSameLife DEF StageGate
<1> QED
  BY <1>2, <1>3

LEMMA ConfirmSameLife ==
    ASSUME NEW g \in Gates, NEW record
    PROVE  /\ ConfirmGate(g, record).incarnation = g.incarnation
           /\ ConfirmGate(g, record).last_observed_ms = g.last_observed_ms
           /\ \/ ConfirmGate(g, record) = g
              \/ /\ g.state.tag = "Staged"
                 /\ ConfirmGate(g, record).state = Prepared(g.state.authorization)
<1>1. CASE ConfirmVerdict(g, record) = Ok
  BY <1>1, ConfirmOk DEF ConfirmGate, Gates
<1>2. CASE ConfirmVerdict(g, record) # Ok
  BY <1>2 DEF ConfirmGate
<1> QED
  BY <1>1, <1>2

(* An activation happens inside the lease, at the time the gate then remembers. *)
LEMMA ActivateSameLife ==
    ASSUME NEW g \in Gates, NEW now \in Nat
    PROVE  /\ ActivateGate(g, now).incarnation = g.incarnation
           /\ ActivateGate(g, now).last_observed_ms >= g.last_observed_ms
           /\ ActivateVerdict(g, now) = Ok =>
                 /\ ActivateGate(g, now).last_observed_ms = now
                 /\ g.state.authorization.not_before_ms <= now
<1>1. CASE ActivateVerdict(g, now) = Ok
  <2>1. ActivateGate(g, now) = [Observe(g, now) EXCEPT !.state = OpenFor(g.state.authorization)]
    BY <1>1 DEF ActivateGate, Ok
  <2> QED
    BY <1>1, <2>1, ActivateOk, ObserveTyped, ObserveSameLife DEF Gates
<1>2. CASE ActivateVerdict(g, now) = "LeaseExpired"
  <2>1. "LeaseExpired" \in SelfFenceReason /\ "LeaseExpired" # Ok
    BY DEF SelfFenceReason, Ok
  <2>2. ActivateGate(g, now) = SelfFence(Observe(g, now), "LeaseExpired")
    BY <1>2, <2>1 DEF ActivateGate
  <2> QED
    BY <1>2, <2>1, <2>2, ObserveTyped, ObserveSameLife, SelfFenceSameLife
<1>3. CASE ActivateVerdict(g, now) \notin {Ok, "LeaseExpired"}
  <2>1. ActivateGate(g, now) = Observe(g, now)
    BY <1>3 DEF ActivateGate
  <2> QED
    BY <1>3, <2>1, ObserveSameLife
<1> QED
  BY <1>1, <1>2, <1>3

-----------------------------------------------------------------------------
LEMMA InitLifeInv == Init => LifeInv
<1> SUFFICES ASSUME Init PROVE LifeInv
  OBVIOUS
<1>1. gate.state.tag = "Closed" /\ gate.incarnation = store.incarnation
  BY DEF Init, Recover, Closed
<1> QED
  BY <1>1 DEF Init, GateOfThisLife, OpenAsGranted, EffectIsBehind, EffectInsideLease

(* A method that opens nothing and lets nothing through keeps the invariant. *)
LEMMA QuietLife ==
    ASSUME EInv, TypeOK', UNCHANGED <<openedBy, effect>>,
           store'.incarnation = store.incarnation,
           gate'.incarnation = gate.incarnation,
           gate'.last_observed_ms >= gate.last_observed_ms,
           \/ gate'.state = gate.state
           \/ gate'.state.tag \notin {"Staged", "Prepared", "Open"}
           \/ /\ gate'.state.tag \in {"Staged", "Prepared"}
              /\ gate'.state.authorization.candidate_incarnation = gate.incarnation
    PROVE  LifeInv'
<1>1. gate.last_observed_ms \in Nat /\ gate'.last_observed_ms \in Nat
  BY DEF IInv, TypeOK, Gates
<1>2. GateOfThisLife'
  BY DEF GateOfThisLife
<1>3. OpenAsGranted'
  <2>1. openedBy # None => openedBy.not_before_ms \in Nat
    BY DEF IInv, TypeOK, Own
  <2> QED
    BY <1>1, <2>1 DEF OpenAsGranted
<1>4. EffectIsBehind'
  <2>1. effect # None => effect.at \in Nat
    BY DEF IInv, TypeOK
  <2> QED
    BY <1>1, <2>1 DEF EffectIsBehind
<1>5. EffectInsideLease'
  BY DEF EffectInsideLease
<1> QED
  BY <1>2, <1>3, <1>4, <1>5

(* The capability that activates lies above every effect of the past. *)
LEMMA ActivateLife ==
    ASSUME EInv, TypeOK', Activate
    PROVE  LifeInv'
<1>1. gate \in Gates /\ clock \in Nat /\ gate' = ActivateGate(gate, clock)
  BY DEF Activate, IInv, TypeOK
<1>2. UNCHANGED <<store, effect>>
  BY DEF Activate, environment
<1>3. CASE ActivateVerdict(gate, clock) = Ok
  <2> DEFINE auth == gate.state.authorization
  <2>1. /\ gate.state.tag = "Prepared"
        /\ auth \in Own
        /\ LastEpoch(gate.state) = auth.epoch
        /\ gate'.state = OpenFor(auth)
    BY <1>1, <1>3, ActivateTyped
  <2>2. /\ gate'.incarnation = gate.incarnation
        /\ gate'.last_observed_ms = clock
        /\ auth.not_before_ms <= clock
    BY <1>1, <1>3, ActivateSameLife
  <2>3. openedBy' = auth /\ auth # None
    BY <1>3, <2>1 DEF Activate, Own
  <2>4. /\ gate'.state.tag = "Open"
        /\ gate'.state.epoch = auth.epoch
        /\ gate'.state.expires_at_ms = auth.expires_at_ms
    BY <2>1 DEF OpenFor, Open
  <2>5. auth.candidate_incarnation = gate.incarnation
    BY <2>1 DEF GateOfThisLife
  <2>6. GateOfThisLife'
    BY <1>2, <2>2, <2>4 DEF GateOfThisLife
  <2>7. OpenAsGranted'
    BY <2>2, <2>3, <2>4, <2>5 DEF OpenAsGranted
  <2>8. EffectIsBehind'
    <3>1. openedBy # None => auth.epoch > openedBy.epoch
      BY <2>1 DEF IInv, OpenedIsBehind
    <3>2. /\ auth.epoch \in Nat
          /\ openedBy # None => openedBy.epoch \in Nat
          /\ effect # None => effect.epoch \in Nat
      BY <2>1 DEF IInv, TypeOK, Own
    <3>3. effect # None => openedBy # None /\ effect.epoch <= openedBy.epoch
      BY DEF EffectIsBehind
    <3>4. effect # None => effect.epoch < auth.epoch
      BY <3>1, <3>2, <3>3
    <3> QED
      BY <1>2, <2>3, <2>4, <3>2, <3>4 DEF EffectIsBehind
  <2>9. EffectInsideLease'
    BY <1>2 DEF EffectInsideLease
  <2> QED
    BY <2>6, <2>7, <2>8, <2>9
<1>4. CASE ActivateVerdict(gate, clock) # Ok
  <2>1. gate'.state = gate.state \/ gate'.state.tag = "SelfFenced"
    BY <1>1, <1>4, ActivateTyped
  <2>2. openedBy' = openedBy
    BY <1>4 DEF Activate
  <2> QED
    BY <1>1, <1>2, <2>1, <2>2, ActivateSameLife, QuietLife
<1> QED
  BY <1>3, <1>4

(* An effect is let through by an open gate at a time it has not seen yet.     *)
LEMMA EffectOfOpenGate ==
    ASSUME EInv, NEW holder, NEW e, CheckEffectVerdict(gate, holder, e, clock) = Ok
    PROVE  /\ gate.state.tag = "Open"
           /\ openedBy # None
           /\ e = openedBy.epoch
           /\ gate.state.epoch = e
           /\ gate.incarnation = openedBy.candidate_incarnation
           /\ openedBy.not_before_ms <= clock
           /\ clock < openedBy.expires_at_ms
           /\ gate.last_observed_ms <= clock
           /\ ~RolledBack(gate, clock)
<1>1. /\ ~RolledBack(gate, clock)
      /\ gate.state.tag = "Open"
      /\ ~Expired(gate, clock)
      /\ gate.state.epoch = e
  BY CheckEffectOk
<1>2. gate \in Gates /\ clock \in Nat /\ gate.last_observed_ms \in Nat
  BY DEF IInv, TypeOK, Gates
<1>3. /\ openedBy # None
      /\ openedBy.candidate_incarnation = gate.incarnation
      /\ gate.state.epoch = openedBy.epoch
      /\ gate.state.expires_at_ms = openedBy.expires_at_ms
      /\ openedBy.not_before_ms <= gate.last_observed_ms
  BY <1>1 DEF OpenAsGranted
<1>4. openedBy.not_before_ms \in Nat /\ openedBy.expires_at_ms \in Nat
  BY <1>3 DEF IInv, TypeOK, Own
<1>5. gate.last_observed_ms <= clock
  BY <1>1, <1>2 DEF RolledBack
<1>6. clock < openedBy.expires_at_ms
  BY <1>1, <1>2, <1>3, <1>4 DEF Expired
<1> QED
  BY <1>1, <1>2, <1>3, <1>4, <1>5, <1>6

LEMMA CheckEffectLife ==
    ASSUME EInv, TypeOK', NEW holder, NEW e, CheckEffect(holder, e)
    PROVE  LifeInv'
<1>1. gate \in Gates /\ clock \in Nat /\ gate' = TickGate(gate, clock)
  BY DEF CheckEffect, CheckEffectGate, IInv, TypeOK
<1>2. UNCHANGED <<store, openedBy>>
  BY DEF CheckEffect, environment
<1>3. gate'.state = gate.state \/ gate'.state.tag = "SelfFenced"
  BY <1>1, TickTyped
<1>4. /\ gate'.incarnation = gate.incarnation
      /\ gate'.last_observed_ms >= gate.last_observed_ms
      /\ ~RolledBack(gate, clock) => gate'.last_observed_ms = clock
  BY <1>1, TickSameLife
<1>5. CASE CheckEffectVerdict(gate, holder, e, clock) = Ok
  <2>1. effect' = [epoch |-> e, at |-> clock, incarnation |-> gate.incarnation,
                   under |-> openedBy]
    BY <1>5 DEF CheckEffect
  <2>2. /\ effect'.epoch = e /\ effect'.at = clock
        /\ effect'.incarnation = gate.incarnation /\ effect'.under = openedBy
    BY <2>1
  <2>3. EffectInsideLease'
    BY <1>5, <2>2, EffectOfOpenGate DEF EffectInsideLease
  <2>4. EffectIsBehind'
    <3>1. openedBy # None /\ e = openedBy.epoch /\ gate'.last_observed_ms = clock
      BY <1>4, <1>5, EffectOfOpenGate
    <3>2. openedBy.epoch \in Nat
      BY <3>1 DEF IInv, TypeOK, Own
    <3> QED
      BY <1>1, <1>2, <2>2, <3>1, <3>2 DEF EffectIsBehind
  <2>5. GateOfThisLife'
    BY <1>2, <1>3, <1>4 DEF GateOfThisLife
  <2>6. OpenAsGranted'
    <3>1. openedBy # None /\ openedBy.not_before_ms <= clock /\ gate'.last_observed_ms = clock
      BY <1>4, <1>5, EffectOfOpenGate
    <3> QED
      BY <1>2, <1>3, <1>4, <3>1 DEF OpenAsGranted
  <2> QED
    BY <2>3, <2>4, <2>5, <2>6
<1>6. CASE CheckEffectVerdict(gate, holder, e, clock) # Ok
  <2>1. effect' = effect
    BY <1>6 DEF CheckEffect
  <2> QED
    BY <1>2, <1>3, <1>4, <2>1, QuietLife
<1> QED
  BY <1>5, <1>6

LEMMA StepLifeInv == EInv /\ [Next]_vars => LifeInv'
<1> SUFFICES ASSUME EInv, [Next]_vars PROVE LifeInv'
  OBVIOUS
<1> USE DEF environment, history
<1>0. /\ TypeOK /\ TypeOK'
      /\ gate \in Gates /\ clock \in Nat /\ gate.last_observed_ms \in Nat
  BY StepIInv DEF IInv, TypeOK, Gates
<1>1. ASSUME NEW auth \in Capabilities, Stage(auth) PROVE LifeInv'
  <2>1. gate' = StageGate(gate, auth, clock) /\ UNCHANGED <<store, openedBy, effect>>
    BY <1>1 DEF Stage
  <2>2. /\ Staged(auth).tag = "Staged"
        /\ Staged(auth).authorization = auth
    BY DEF Staged
  <2> QED
    BY <1>0, <2>1, <2>2, StageSameLife, QuietLife
<1>2. CASE Confirm
  <2>1. gate' = ConfirmGate(gate, acked) /\ UNCHANGED <<store, openedBy, effect>>
    BY <1>2 DEF Confirm
  <2>2. /\ Prepared(gate.state.authorization).tag = "Prepared"
        /\ Prepared(gate.state.authorization).authorization = gate.state.authorization
    BY DEF Prepared
  <2>3. gate.state.tag = "Staged"
          => gate.state.authorization.candidate_incarnation = gate.incarnation
    BY DEF GateOfThisLife
  <2> QED
    BY <1>0, <2>1, <2>2, <2>3, ConfirmSameLife, QuietLife
<1>3. CASE Activate
  BY <1>0, <1>3, ActivateLife
<1>4. ASSUME NEW holder \in Holders, NEW e \in Epochs, CheckEffect(holder, e) PROVE LifeInv'
  BY <1>0, <1>4, CheckEffectLife
<1>5. CASE Tick
  <2>1. gate' = TickGate(gate, clock) /\ UNCHANGED <<store, openedBy, effect>>
    BY <1>5 DEF Tick
  <2> QED
    BY <1>0, <2>1, TickTyped, TickSameLife, QuietLife
<1>6. ASSUME Close \/ SafetyFault PROVE LifeInv'
  <2>1. PICK reason \in SelfFenceReason : gate' = SelfFence(gate, reason)
    BY <1>6 DEF Close, SafetyFault, CloseGate, SafetyFaultGate, SelfFenceReason
  <2>2. UNCHANGED <<store, openedBy, effect>>
    BY <1>6 DEF Close, SafetyFault
  <2> QED
    BY <1>0, <2>1, <2>2, SelfFenceTyped, SelfFenceSameLife, QuietLife
<1>7. ASSUME NEW record \in inFlight, Persist(record) PROVE LifeInv'
  <2>1. gate' = gate /\ UNCHANGED <<openedBy, effect>>
    BY <1>7 DEF Persist
  <2>2. store'.incarnation = store.incarnation
    BY <1>0, <1>7 DEF Persist, TypeOK
  <2> QED
    BY <1>0, <2>1, <2>2, QuietLife
<1>8. ASSUME NEW t \in 0..MaxTime, SetClock(t) PROVE LifeInv'
  BY <1>0, <1>8, QuietLife DEF SetClock
<1>9. CASE Crash
  BY <1>0, <1>9, QuietLife DEF Crash
<1>10. CASE Restart
  <2>1. gate' = Recover(Node, Workload, Policy, store') /\ UNCHANGED <<openedBy, effect>>
    BY <1>10 DEF Restart
  <2>2. gate'.state.tag = "Closed" /\ gate'.incarnation = store'.incarnation
    BY <2>1 DEF Recover, Closed
  <2> QED
    BY <2>1, <2>2 DEF GateOfThisLife, OpenAsGranted, EffectIsBehind, EffectInsideLease
<1>11. CASE UNCHANGED vars
  BY <1>0, <1>11, QuietLife DEF vars
<1> QED
  BY <1>1, <1>2, <1>3, <1>4, <1>5, <1>6, <1>7, <1>8, <1>9, <1>10, <1>11 DEF Next

LEMMA LifeInvariance == Spec => []EInv
BY InitIInv, StepIInv, InitLifeInv, StepLifeInv, PTL DEF Spec

(* An effect is let through only inside the lease that opened the gate and in    *)
(* the life that lease was granted to, however the clock jumps.                  *)
THEOREM EffectsInsideLease == Spec => []EffectInsideLease
BY LifeInvariance, PTL

(* Effects never fall back to an earlier epoch, nor to an earlier time of their *)
(* own epoch.                                                                   *)
THEOREM EffectsForward == Spec => EffectsMoveForward
<1> DEFINE Forward == \/ effect'.epoch > effect.epoch
                      \/ effect'.epoch = effect.epoch /\ effect'.at >= effect.at
<1>1. ASSUME EInv, [Next]_vars, effect # None PROVE Forward
  <2>1. effect.epoch \in Nat /\ effect.at \in Nat /\ clock \in Nat
    BY <1>1 DEF IInv, TypeOK
  <2>2. CASE effect' = effect
    BY <2>1, <2>2
  <2>3. ASSUME NEW holder \in Holders, NEW e \in Epochs, CheckEffect(holder, e),
               effect' # effect
        PROVE  Forward
    <3>1. CheckEffectVerdict(gate, holder, e, clock) = Ok
      BY <2>3 DEF CheckEffect
    <3>2. effect'.epoch = e /\ effect'.at = clock
      BY <2>3, <3>1 DEF CheckEffect
    <3>3. /\ gate.state.tag = "Open" /\ gate.state.epoch = e
          /\ openedBy # None /\ e = openedBy.epoch
          /\ gate.last_observed_ms <= clock
      BY <1>1, <3>1, EffectOfOpenGate
    <3>4. openedBy.epoch \in Nat /\ gate.last_observed_ms \in Nat
      BY <1>1, <3>3 DEF IInv, TypeOK, Own, Gates
    <3>5. effect.epoch <= e /\ (effect.epoch = e => effect.at <= gate.last_observed_ms)
      BY <1>1, <3>3 DEF EffectIsBehind
    <3> QED
      BY <2>1, <3>2, <3>3, <3>4, <3>5
  <2>4. effect' = effect \/ \E holder \in Holders, e \in Epochs : CheckEffect(holder, e)
    BY <1>1 DEF Next, Stage, Confirm, Activate, Tick, Close, SafetyFault, Persist, SetClock,
                Crash, Restart, vars, history
  <2> QED
    BY <2>2, <2>3, <2>4
<1>2. EInv /\ [Next]_vars => [effect # None => Forward]_vars
  BY <1>1
<1> QED
  BY <1>2, LifeInvariance, PTL DEF Spec, EffectsMoveForward

(* Out of a self-fence leads only a newly staged, higher epoch or a new life.    *)
THEOREM FenceHolds == Spec => FencedUntilNewEpoch
<1> DEFINE Held == \/ gate'.state.tag = "SelfFenced"
                   \/ /\ gate'.state.tag = "Staged"
                      /\ LastEpoch(gate'.state) > LastEpoch(gate.state)
                   \/ gate'.incarnation > gate.incarnation
<1>1. ASSUME EInv, [Next]_vars, gate.state.tag = "SelfFenced" PROVE Held
  <2>0. gate \in Gates /\ clock \in Nat
    BY <1>1 DEF IInv, TypeOK
  <2>1. ASSUME NEW auth \in Capabilities, Stage(auth) PROVE Held
    <3>1. gate' = StageGate(gate, auth, clock)
      BY <2>1 DEF Stage
    <3>2. Staged(auth).tag = "Staged" /\ LastEpoch(Staged(auth)) = auth.epoch
      BY DEF Staged, LastEpoch
    <3> QED
      BY <1>1, <2>0, <3>1, <3>2, StageTyped
  <2>2. CASE Confirm
    BY <1>1, <2>0, <2>2, ConfirmTyped DEF Confirm
  <2>3. CASE Activate
    BY <1>1, <2>0, <2>3, ActivateTyped DEF Activate
  <2>4. ASSUME NEW holder \in Holders, NEW e \in Epochs, CheckEffect(holder, e) PROVE Held
    BY <1>1, <2>0, <2>4, TickTyped DEF CheckEffect, CheckEffectGate
  <2>5. CASE Tick
    BY <1>1, <2>0, <2>5, TickTyped DEF Tick
  <2>6. CASE Close \/ SafetyFault
    <3>1. PICK reason \in SelfFenceReason : gate' = SelfFence(gate, reason)
      BY <2>6 DEF Close, SafetyFault, CloseGate, SafetyFaultGate, SelfFenceReason
    <3> QED
      BY <2>0, <3>1, SelfFenceTyped
  <2>7. CASE Restart
    <3>1. gate'.incarnation = store'.incarnation /\ store'.incarnation = store.incarnation + 1
      BY <1>1, <2>7 DEF Restart, Recover, IInv, TypeOK
    <3>2. gate.incarnation = store.incarnation /\ store.incarnation \in Nat
      BY <1>1 DEF GateOfThisLife, IInv, TypeOK
    <3> QED
      BY <3>1, <3>2
  <2>8. CASE gate' = gate
    BY <1>1, <2>8
  <2> QED
    BY <1>1, <2>1, <2>2, <2>3, <2>4, <2>5, <2>6, <2>7, <2>8
    DEF Next, Persist, SetClock, Crash, vars
<1>2. EInv /\ [Next]_vars => [gate.state.tag = "SelfFenced" => Held]_vars
  BY <1>1
<1> QED
  BY <1>2, LifeInvariance, PTL DEF Spec, FencedUntilNewEpoch
=============================================================================
