------------------------------ MODULE GateLife ------------------------------
(***************************************************************************)
(* One EffectGate over several process lives.                              *)
(*                                                                         *)
(* The gate's methods are called by a driver in any order, with any        *)
(* validated capability, as often as it likes; the clock the gate reads    *)
(* may jump both ways between calls; the process may crash between any two *)
(* calls.  What the code takes as given stays given: the persistence       *)
(* adapter does not roll back (gate.rs:102), every process life gets a     *)
(* fresh durable incarnation (gate.rs:122), and the driver confirms only   *)
(* records the adapter reported durable (gate.rs:135).  Writes may still   *)
(* be lost, delayed past a restart, or land out of order.                  *)
(***************************************************************************)
EXTENDS EffectGate, Naturals, FiniteSets

CONSTANTS Node, Workload, Policy,  \* what this gate is bound to
          Capabilities,            \* the validated promotions that may be presented
          Holders,                 \* the holders an effect may name
          None,                    \* no record, no effect
          MaxTime,                 \* bound on the clock readings
          MaxIncarnation,          \* bound on the process lives
          MaxInFlight              \* bound on the writes under way

ASSUME CapabilityAssumption ==
    /\ None \notin Capabilities
    /\ \A c \in Capabilities :
          /\ c.epoch \in Nat \ {0}
          /\ c.candidate_incarnation \in Nat
          /\ c.not_before_ms \in Nat
          /\ c.expires_at_ms \in Nat

VARIABLES gate,        \* the gate of the current process life
          up,          \* is there a live process
          clock,       \* what TrustedClock::now_ms answers now
          store,       \* the durable GateRecoveryState
          inFlight,    \* records handed to the adapter and not yet durable
          acked,       \* the record the adapter last reported durable to this life
          requested,   \* history: the record the latest accepted stage returned
          openedBy,    \* history: the capability of the latest activation
          effect       \* history: the latest effect check_effect let through

vars == <<gate, up, clock, store, inFlight, acked, requested, openedBy, effect>>
environment == <<up, clock, store, inFlight, acked>>
history == <<requested, openedBy, effect>>

Larger(a, b) == IF a >= b THEN a ELSE b

Epochs == {c.epoch : c \in Capabilities}

-----------------------------------------------------------------------------
(* The first life: nothing accepted yet, incarnation 1. *)
Init ==
    /\ store = [accepted_epoch |-> 0, incarnation |-> 1, last_observed_ms |-> 0]
    /\ gate = Recover(Node, Workload, Policy, store)
    /\ up = TRUE
    /\ clock = 0
    /\ inFlight = {}
    /\ acked = None
    /\ requested = None
    /\ openedBy = None
    /\ effect = None

(* stage; on success its record goes to the adapter, older writes may get lost. *)
Stage(auth) ==
    /\ up
    /\ gate' = StageGate(gate, auth, clock)
    /\ \/ /\ StageVerdict(gate, auth, clock) = Ok
          /\ \E kept \in SUBSET inFlight :
                /\ Cardinality(kept) < MaxInFlight
                /\ inFlight' = kept \cup {StageRecord(gate, auth, clock)}
          /\ requested' = StageRecord(gate, auth, clock)
       \/ /\ StageVerdict(gate, auth, clock) # Ok
          /\ UNCHANGED <<inFlight, requested>>
    /\ UNCHANGED <<up, clock, store, acked, openedBy, effect>>

(* The driver confirms what was last acknowledged, whatever was staged since. *)
Confirm ==
    /\ up
    /\ acked # None
    /\ gate' = ConfirmGate(gate, acked)
    /\ UNCHANGED <<environment, history>>

Activate ==
    /\ up
    /\ gate' = ActivateGate(gate, clock)
    /\ openedBy' = IF ActivateVerdict(gate, clock) = Ok
                   THEN gate.state.authorization ELSE openedBy
    /\ UNCHANGED <<environment, requested, effect>>

CheckEffect(holder, epoch) ==
    /\ up
    /\ gate' = CheckEffectGate(gate, clock)
    /\ effect' = IF CheckEffectVerdict(gate, holder, epoch, clock) = Ok
                 THEN [epoch |-> epoch, at |-> clock,
                       incarnation |-> gate.incarnation, under |-> openedBy]
                 ELSE effect
    /\ UNCHANGED <<environment, requested, openedBy>>

Tick ==
    /\ up
    /\ gate' = TickGate(gate, clock)
    /\ UNCHANGED <<environment, history>>

Close ==
    /\ up
    /\ gate' = CloseGate(gate)
    /\ UNCHANGED <<environment, history>>

SafetyFault ==
    /\ up
    /\ gate' = SafetyFaultGate(gate)
    /\ UNCHANGED <<environment, history>>

-----------------------------------------------------------------------------
(* The environment. *)

(* The adapter commits a record, of this life or a delayed one of an earlier  *)
(* life; being rollback-resistant it never lowers what is stored.             *)
Persist(record) ==
    /\ record \in inFlight
    /\ store' = [store EXCEPT
                    !.accepted_epoch   = Larger(@, record.accepted_epoch),
                    !.last_observed_ms = Larger(@, record.last_observed_ms)]
    /\ inFlight' = inFlight \ {record}
    /\ acked' = IF up THEN record ELSE acked
    /\ UNCHANGED <<gate, up, clock, history>>

SetClock(t) ==
    /\ clock' = t
    /\ UNCHANGED <<gate, up, store, inFlight, acked, history>>

Crash ==
    /\ up
    /\ up' = FALSE
    /\ acked' = None
    /\ UNCHANGED <<gate, clock, store, inFlight, history>>

(* A new life: its incarnation is allocated durably, its gate starts closed. *)
Restart ==
    /\ ~up
    /\ store.incarnation < MaxIncarnation
    /\ store' = [store EXCEPT !.incarnation = @ + 1]
    /\ gate' = Recover(Node, Workload, Policy, store')
    /\ up' = TRUE
    /\ UNCHANGED <<clock, inFlight, acked, history>>

Next ==
    \/ \E auth \in Capabilities : Stage(auth)
    \/ Confirm
    \/ Activate
    \/ \E holder \in Holders, epoch \in Epochs : CheckEffect(holder, epoch)
    \/ Tick
    \/ Close
    \/ SafetyFault
    \/ \E record \in inFlight : Persist(record)
    \/ \E t \in 0..MaxTime : SetClock(t)
    \/ Crash
    \/ Restart

Spec == Init /\ [][Next]_vars

-----------------------------------------------------------------------------
(* The capabilities this gate may take. *)
Own == {c \in Capabilities : /\ c.candidate = Node
                             /\ c.workload = Workload
                             /\ c.policy_hash = Policy}

GateStates ==
    [tag : {"Closed"}, last_epoch : Nat]
        \cup [tag : {"Staged", "Prepared"}, authorization : Own]
        \cup [tag : {"Open"}, holder : {Node}, epoch : Nat, expires_at_ms : Nat]
        \cup [tag : {"SelfFenced"}, last_epoch : Nat, reason : SelfFenceReason]

Gates == [node : {Node}, workload : {Workload}, policy_hash : {Policy},
          incarnation : Nat, last_observed_ms : Nat, state : GateStates]

Records == [node : {Node}, workload : {Workload}, policy_hash : {Policy},
            accepted_epoch : Nat, incarnation : Nat, last_observed_ms : Nat]

(* Every variable has the shape of its Rust counterpart; in particular a gate  *)
(* only ever holds a capability issued for its node, workload and policy.      *)
TypeOK ==
    /\ gate \in Gates
    /\ up \in BOOLEAN
    /\ clock \in Nat
    /\ store \in [accepted_epoch : Nat, incarnation : Nat, last_observed_ms : Nat]
    /\ inFlight \subseteq Records
    /\ {acked, requested} \subseteq Records \cup {None}
    /\ openedBy \in Own \cup {None}
    /\ effect \in [epoch : Nat, at : Nat, incarnation : Nat,
                   under : Own \cup {None}] \cup {None}

(* What the adapter reported is in the store, which never falls.               *)
AckedIsDurable == acked # None => store.accepted_epoch >= acked.accepted_epoch

(* SAFETY.md:23 "will not activate until a trusted adapter confirms that exact *)
(* record": once a gate is prepared or open, the epoch it runs under is in the *)
(* durable store, whatever was staged, persisted, delayed or lost before.      *)
DurableBeforePrepared ==
    gate.state.tag \in {"Prepared", "Open"}
        => store.accepted_epoch >= LastEpoch(gate.state)

(* Every epoch ever opened is durable and behind the gate; what is staged or    *)
(* prepared lies strictly above it.                                            *)
OpenedIsBehind ==
    openedBy # None =>
        /\ store.accepted_epoch >= openedBy.epoch
        /\ LastEpoch(gate.state) >= openedBy.epoch
        /\ gate.state.tag \in {"Staged", "Prepared"}
              => LastEpoch(gate.state) > openedBy.epoch

Opens == gate.state.tag # "Open" /\ gate'.state.tag = "Open"

(* Anti-replay over all lives: an activation is always for an epoch above      *)
(* every epoch activated before, also after a crash and a recovery.            *)
EpochsOpenUpwards ==
    [][Opens /\ openedBy # None => gate'.state.epoch > openedBy.epoch]_vars

(* An effect is let through only inside the lease of the capability that       *)
(* opened the gate and in the life it was issued to.  not_before is tested     *)
(* only at activation, so this rests on the clock never being read backwards.  *)
EffectInsideLease ==
    effect # None =>
        /\ effect.under # None
        /\ effect.epoch = effect.under.epoch
        /\ effect.incarnation = effect.under.candidate_incarnation
        /\ effect.under.not_before_ms <= effect.at
        /\ effect.at < effect.under.expires_at_ms

(* README.md:40 "lower-epoch commands and side effects must be rejected":      *)
(* the effects of one node carry epochs that never fall, over all lives, and   *)
(* within one epoch times that never fall.                                     *)
EffectsMoveForward ==
    [][effect # None =>
          \/ effect'.epoch > effect.epoch
          \/ effect'.epoch = effect.epoch /\ effect'.at >= effect.at]_vars

(* A self-fenced gate leaves that state only for a newly staged, higher epoch  *)
(* or by a new process life; no refused call reopens or resets it.             *)
FencedUntilNewEpoch ==
    [][gate.state.tag = "SelfFenced" =>
          \/ gate'.state.tag = "SelfFenced"
          \/ gate'.state.tag = "Staged"
                /\ LastEpoch(gate'.state) > LastEpoch(gate.state)
          \/ gate'.incarnation > gate.incarnation]_vars

-----------------------------------------------------------------------------
(* gate.rs:433 documents AlreadyOpen as "Gate is already externally active":   *)
(* whenever stage answers it, the open lease still covers the present time.    *)
AlreadyOpenMeansActive ==
    \A auth \in Capabilities :
        up /\ StageVerdict(gate, auth, clock) = "AlreadyOpen"
            => clock < gate.state.expires_at_ms

(* gate.rs:270 "Confirms that the exact staged anti-replay record is durably   *)
(* committed": the record the latest accepted stage returned, once durable, is *)
(* accepted by confirm_persisted while its capability is still staged.         *)
StagedRecordConfirms ==
    /\ up
    /\ gate.state.tag = "Staged"
    /\ requested.incarnation = gate.incarnation
    /\ acked = requested
    => ConfirmVerdict(gate, acked) = Ok
=============================================================================
