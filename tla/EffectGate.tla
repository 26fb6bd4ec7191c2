----------------------------- MODULE EffectGate -----------------------------
(***************************************************************************)
(* The node-local effect gate of quorumarc-core                            *)
(* (crates/quorumarc-core/src/gate.rs) as pure operators on a gate value.  *)
(* Each method with a Result is a pair: XVerdict is what it returns and    *)
(* XGate the gate it leaves behind, on the refusing paths too, because     *)
(* several refusals also change the gate.  `now` is what the gate's        *)
(* TrustedClock answers to the one reading the method makes.               *)
(***************************************************************************)
EXTENDS Refusals

(* GateState *)
Closed(epoch)             == [tag |-> "Closed", last_epoch |-> epoch]
Staged(auth)              == [tag |-> "Staged", authorization |-> auth]
Prepared(auth)            == [tag |-> "Prepared", authorization |-> auth]
Open(holder, epoch, expires) ==
    [tag |-> "Open", holder |-> holder, epoch |-> epoch, expires_at_ms |-> expires]
SelfFenced(epoch, reason) ==
    [tag |-> "SelfFenced", last_epoch |-> epoch, reason |-> reason]

GateTag == {"Closed", "Staged", "Prepared", "Open", "SelfFenced"}

SelfFenceReason == {"LeaseExpired", "ExplicitClose", "SafetyFault"}

(* GateState::last_epoch *)
LastEpoch(state) ==
    CASE state.tag \in {"Closed", "SelfFenced"} -> state.last_epoch
      [] state.tag \in {"Staged", "Prepared"}   -> state.authorization.epoch
      [] state.tag = "Open"                     -> state.epoch

-----------------------------------------------------------------------------
(* Plausible slip: a recovered gate forgets which epochs it accepted. *)
RecoverAmnesiac(node, workload, policy, recovery) ==
    [node |-> node, workload |-> workload, policy_hash |-> policy,
     incarnation      |-> recovery.incarnation,
     last_observed_ms |-> recovery.last_observed_ms,
     state            |-> Closed(0)]

(* EffectGate::recover *)
Recover(node, workload, policy, recovery) ==
    [node |-> node, workload |-> workload, policy_hash |-> policy,
     incarnation      |-> recovery.incarnation,
     last_observed_ms |-> recovery.last_observed_ms,
     state            |-> Closed(recovery.accepted_epoch)]

(* persistence_record: what must be durable before confirm_persisted. *)
PersistenceRecord(g, auth) ==
    [node |-> g.node, workload |-> g.workload, policy_hash |-> g.policy_hash,
     accepted_epoch   |-> auth.epoch,
     incarnation      |-> g.incarnation,
     last_observed_ms |-> g.last_observed_ms]

SelfFence(g, reason) == [g EXCEPT !.state = SelfFenced(LastEpoch(g.state), reason)]

-----------------------------------------------------------------------------
(* observe_time: every method below but confirm_persisted, close and          *)
(* safety_fault reads the clock first; a reading behind the last one fences.  *)
RolledBack(g, now) == now < g.last_observed_ms

(* Plausible slip: accept whatever the clock says. *)
ObserveUnguarded(g, now) == [g EXCEPT !.last_observed_ms = now]

Observe(g, now) ==
    IF RolledBack(g, now) THEN SelfFence(g, "SafetyFault")
    ELSE [g EXCEPT !.last_observed_ms = now]

-----------------------------------------------------------------------------
(* EffectGate::stage *)
AlreadyStaged(g, auth) ==
    /\ g.state.tag \in {"Staged", "Prepared"}
    /\ g.state.authorization = auth

(* Plausible slip: the epoch last accepted may be staged once more. *)
NotOlder(g, auth) == auth.epoch >= LastEpoch(g.state)

NewerEpoch(g, auth) == auth.epoch > LastEpoch(g.state)

(* Plausible slip: a capability issued to a peer is taken. *)
ForAnyone(g, auth) == TRUE

ForThisNode(g, auth) == auth.candidate = g.node

(* Plausible slip: the capability of an earlier process life is taken. *)
AnyIncarnation(g, auth) == TRUE

SameIncarnation(g, auth) == auth.candidate_incarnation = g.incarnation

StageChecks(g, auth, now) ==
    << <<"ClockRollback",       ~RolledBack(g, now)>>,
       <<"GateBindingMismatch", /\ auth.workload = g.workload
                                /\ auth.policy_hash = g.policy_hash>>,
       <<"WrongCandidate",      ForThisNode(g, auth)>>,
       <<"IncarnationMismatch", SameIncarnation(g, auth)>>,
       <<"AlreadyOpen",         g.state.tag # "Open">>,
       <<"StaleAuthorization",
           AlreadyStaged(g, auth) \/ NewerEpoch(g, auth)>> >>

StageVerdict(g, auth, now) == Verdict(StageChecks(g, auth, now))

StageGate(g, auth, now) ==
    IF StageVerdict(g, auth, now) = Ok /\ ~AlreadyStaged(g, auth)
    THEN [Observe(g, now) EXCEPT !.state = Staged(auth)]
    ELSE Observe(g, now)

(* The record a successful stage returns, for a first and for a repeated call. *)
StageRecord(g, auth, now) == PersistenceRecord(Observe(g, now), auth)

-----------------------------------------------------------------------------
(* EffectGate::confirm_persisted *)
(* Plausible slip: any durable record of this gate confirms. *)
AnyRecord(g, record) == TRUE

RecordMatches(g, record) == PersistenceRecord(g, g.state.authorization) = record

ConfirmChecks(g, record) ==
    << <<"NotStaged",           g.state.tag = "Staged">>,
       <<"PersistenceMismatch",
           g.state.tag = "Staged" => RecordMatches(g, record)>> >>

ConfirmVerdict(g, record) == Verdict(ConfirmChecks(g, record))

(* Plausible slip: the placeholder of mem::replace stays on the refusing path. *)
ConfirmGateNotRestored(g, record) ==
    IF ConfirmVerdict(g, record) = Ok
    THEN [g EXCEPT !.state = Prepared(g.state.authorization)]
    ELSE [g EXCEPT !.state = Closed(LastEpoch(g.state))]

ConfirmGate(g, record) ==
    IF ConfirmVerdict(g, record) = Ok
    THEN [g EXCEPT !.state = Prepared(g.state.authorization)]
    ELSE g

-----------------------------------------------------------------------------
(* EffectGate::activate *)
ActivateChecks(g, now) ==
    << <<"ClockRollback",   ~RolledBack(g, now)>>,
       <<"NotPrepared",     g.state.tag = "Prepared">>,
       <<"LeaseNotStarted", g.state.tag = "Prepared"
                              => g.state.authorization.not_before_ms <= now>>,
       <<"LeaseExpired",    g.state.tag = "Prepared"
                              => now < g.state.authorization.expires_at_ms>> >>

ActivateVerdict(g, now) == Verdict(ActivateChecks(g, now))

OpenFor(auth) == Open(auth.candidate, auth.epoch, auth.expires_at_ms)

ActivateGate(g, now) ==
    CASE ActivateVerdict(g, now) = Ok ->
           [Observe(g, now) EXCEPT !.state = OpenFor(g.state.authorization)]
      [] ActivateVerdict(g, now) = "LeaseExpired" ->
           SelfFence(Observe(g, now), "LeaseExpired")
      [] OTHER -> Observe(g, now)

-----------------------------------------------------------------------------
(* EffectGate::check_effect and tick *)
(* Plausible slip: the expiry is taken as inclusive. *)
ExpiredInclusive(g, now) == g.state.tag = "Open" /\ now > g.state.expires_at_ms

Expired(g, now) == g.state.tag = "Open" /\ now >= g.state.expires_at_ms

CheckEffectChecks(g, holder, epoch, now) ==
    << <<"ClockRollback",      ~RolledBack(g, now)>>,
       <<"GateClosed",         g.state.tag = "Open">>,
       <<"LeaseExpired",       ~Expired(g, now)>>,
       <<"WrongCandidate",     g.state.tag = "Open" => g.state.holder = holder>>,
       <<"StaleAuthorization", g.state.tag = "Open" => g.state.epoch = epoch>> >>

CheckEffectVerdict(g, holder, epoch, now) == Verdict(CheckEffectChecks(g, holder, epoch, now))

(* check_effect and tick leave the same gate: an expired open gate self-fences. *)
TickGate(g, now) ==
    IF ~RolledBack(g, now) /\ Expired(g, now)
    THEN SelfFence(Observe(g, now), "LeaseExpired")
    ELSE Observe(g, now)

CheckEffectGate(g, now) == TickGate(g, now)

(* EffectGate::close and safety_fault read no clock. *)
CloseGate(g) == SelfFence(g, "ExplicitClose")

SafetyFaultGate(g) == SelfFence(g, "SafetyFault")
=============================================================================
