---------------------------- MODULE CompactModel ----------------------------
(***************************************************************************)
(* The deterministic compact model of quorumarc-sim (crates/quorumarc-sim/ *)
(* src/lib.rs): its ModelState and its nineteen Actions, with promote run  *)
(* through the real validator (PromotionProof) and gate (EffectGate), as   *)
(* the simulator runs the core crate.  The code has the nodes A and B; the *)
(* module has any set of them.  The three Max bounds stand where the code  *)
(* calls checked_add: u8 ticks, u64 epochs and u64 incarnations.           *)
(***************************************************************************)
EXTENDS PromotionProof, EffectGate

CONSTANTS Nodes, Witness,
          MaxTick,          \* largest tick (u8::MAX in the code)
          MaxEpoch,         \* largest epoch
          MaxIncarnation    \* largest incarnation

ASSUME CompactAssumption ==
    /\ Witness \notin Nodes
    /\ None \notin Nodes \cup {Witness}
    /\ {MaxTick, MaxEpoch, MaxIncarnation} \subseteq Nat

VARIABLES now_tick, epoch, metadata_holder, metadata_lease_expires_at_tick,
          witness_up,
          node              \* the NodeState of each node

vars == <<now_tick, epoch, metadata_holder, metadata_lease_expires_at_tick,
          witness_up, node>>
metadata == <<epoch, metadata_holder, metadata_lease_expires_at_tick>>

-----------------------------------------------------------------------------
(* One tick is 100 ms; a promotion is granted for three ticks. *)
Ms(tick) == tick * 100

LeaseTicks == 3

Workload == "model-workload"

ModelPolicyHash == 5

Policy ==
    [workload |-> Workload, policy_hash |-> ModelPolicyHash,
     candidates |-> Nodes, voters |-> Nodes \cup {Witness},
     quorum_size |-> 2, required_witness |-> Witness,
     min_health_checks |-> 3, max_evidence_age_ms |-> 500,
     max_lease_duration_ms |-> 300, lease_guard_ms |-> 100,
     allow_gate_expiry_fence |-> TRUE]

InitialNode ==
    [powered |-> TRUE, connected_to_witness |-> TRUE, fenced |-> FALSE,
     caught_up |-> TRUE, accepted_epoch |-> 0, incarnation |-> 1, gate |-> None]

(* Plausible slip: the expiry tick itself still counts as covered. *)
CoversInclusive(lease, tick) == tick <= lease.expires_at_tick

Covers(lease, tick) == tick < lease.expires_at_tick

(* NodeState::gate_is_effective *)
GateIsEffective(s, tick) ==
    /\ s.powered
    /\ ~s.fenced
    /\ s.gate # None
    /\ s.gate.epoch > 0
    /\ s.gate.incarnation = s.incarnation
    /\ Covers(s.gate, tick)

ActiveWriters == {n \in Nodes : GateIsEffective(node[n], now_tick)}

Init ==
    /\ now_tick = 0
    /\ epoch = 0
    /\ metadata_holder = None
    /\ metadata_lease_expires_at_tick = None
    /\ witness_up = TRUE
    /\ node = [n \in Nodes |-> InitialNode]

-----------------------------------------------------------------------------
(* promote: the evidence it puts together at a tick. *)
CurrentAuthority ==
    [epoch |-> epoch, holder |-> metadata_holder,
     lease_expires_at_ms |->
        IF metadata_lease_expires_at_tick = None THEN None
        ELSE Ms(metadata_lease_expires_at_tick)]

(* Plausible slips: a holder that lost power, or the witness, counts as fenced. *)
CrashedIsFenced(holder) == node[holder].fenced \/ ~node[holder].powered

SilentIsFenced(holder) == node[holder].fenced \/ ~node[holder].connected_to_witness

KnownFenced(holder) == node[holder].fenced

ChosenMechanism ==
    IF metadata_holder = None THEN "Bootstrap"
    ELSE IF KnownFenced(metadata_holder) THEN "HardwarePower"
    ELSE "EffectGateExpired"

Proof(n, tick) ==
    LET inc  == node[n].incarnation
        next == epoch + 1
    IN [workload |-> Workload, candidate |-> n, candidate_incarnation |-> inc,
        epoch |-> next, policy_hash |-> ModelPolicyHash,
        quorum |-> [epoch |-> next, workload |-> Workload, candidate |-> n,
                    candidate_incarnation |-> inc, policy_hash |-> ModelPolicyHash,
                    required_commit |-> 10, state_root |-> 1,
                    lease_not_before_ms |-> Ms(tick),
                    lease_expires_at_ms |-> Ms(tick + LeaseTicks),
                    voters |-> <<n, Witness>>],
        fence  |-> [epoch |-> next, target |-> metadata_holder, verifier |-> Witness,
                    mechanism |-> ChosenMechanism, observed_at_ms |-> Ms(tick)],
        state  |-> [required_commit |-> 10,
                    durable_commit |-> IF node[n].caught_up THEN 10 ELSE 9,
                    state_root |-> 1, observed_at_ms |-> Ms(tick)],
        health |-> [workload |-> Workload, node |-> n, incarnation |-> inc,
                    epoch |-> next, healthy |-> node[n].powered,
                    passed_checks |-> 3, observed_at_ms |-> Ms(tick)],
        lease  |-> [workload |-> Workload, holder |-> n, incarnation |-> inc,
                    epoch |-> next, not_before_ms |-> Ms(tick),
                    expires_at_ms |-> Ms(tick + LeaseTicks)]]

(* The refusal of promote for a refusal of validate_promotion. *)
CoreRefusal(verdict) ==
    CASE verdict = "CandidateStateBehind"           -> "CandidateBehind"
      [] verdict = "FenceGuardNotElapsed"           -> "OldGateEffective"
      [] verdict = "CandidateAlreadyHoldsAuthority" -> "AlreadyEffective"
      [] OTHER                                      -> "CoreRefused"

(* A gate recovered from the accepted epoch stages, confirms, activates and *)
(* admits a first effect, all at the same clock reading.                    *)
GateOpens(n, tick) ==
    LET now  == Ms(tick)
        auth == ValidatedPromotion(Proof(n, tick))
        g0   == Recover(n, Workload, ModelPolicyHash,
                        [accepted_epoch |-> node[n].accepted_epoch,
                         incarnation |-> node[n].incarnation, last_observed_ms |-> now])
        g1   == StageGate(g0, auth, now)
        rec  == StageRecord(g0, auth, now)
        g2   == ConfirmGate(g1, rec)
        g3   == ActivateGate(g2, now)
    IN /\ StageVerdict(g0, auth, now) = Ok
       /\ ConfirmVerdict(g1, rec) = Ok
       /\ ActivateVerdict(g2, now) = Ok
       /\ CheckEffectVerdict(g3, n, epoch + 1, now) = Ok

(* Plausible slip: the tick of expiry is not checked against its largest value. *)
LeaseFitsAnyTick(tick) == tick <= MaxTick

LeaseFits(tick) == tick + LeaseTicks <= MaxTick

(* What promote would answer for candidate n at a tick of this state. *)
CoreVerdict(n, tick) == ProofVerdict(Proof(n, tick), CurrentAuthority, Policy, Ms(tick))

PromoteChecks(n, tick) ==
    << <<"CandidateUnavailable", node[n].powered /\ ~node[n].fenced>>,
       <<"NoQuorum",             node[n].connected_to_witness /\ witness_up>>,
       <<"AlreadyEffective",     ~GateIsEffective(node[n], tick)>>,
       <<"NoStateChange",        epoch < MaxEpoch /\ LeaseFits(tick)>>,
       <<"CoreRefused",          ConstructedPolicy(Policy)>>,
       <<CoreRefusal(CoreVerdict(n, tick)), CoreVerdict(n, tick) = Ok>>,
       <<"CoreRefused",          GateOpens(n, tick)>> >>

PromoteOutcome(n, tick) == Verdict(PromoteChecks(n, tick))

(* Plausible slip: the new epoch is accepted by the node and never committed. *)
UncommittedEpoch == epoch

CommittedEpoch == epoch + 1

Promote(n) ==
    /\ PromoteOutcome(n, now_tick) = Ok
    /\ epoch' = CommittedEpoch
    /\ metadata_holder' = n
    /\ metadata_lease_expires_at_tick' = now_tick + LeaseTicks
    /\ node' = [node EXCEPT
          ![n].accepted_epoch = epoch + 1,
          ![n].gate = [epoch |-> epoch + 1, incarnation |-> node[n].incarnation,
                       expires_at_tick |-> now_tick + LeaseTicks]]
    /\ UNCHANGED <<now_tick, witness_up>>

-----------------------------------------------------------------------------
(* The other actions; one that would change nothing is rejected. *)
AdvanceTime ==
    /\ now_tick < MaxTick
    /\ now_tick' = now_tick + 1
    /\ UNCHANGED <<metadata, witness_up, node>>

SetWitness(running) ==
    /\ witness_up # running
    /\ witness_up' = running
    /\ UNCHANGED <<now_tick, metadata, node>>

SetConnection(n, connected) ==
    /\ node[n].connected_to_witness # connected
    /\ node' = [node EXCEPT ![n].connected_to_witness = connected]
    /\ UNCHANGED <<now_tick, metadata, witness_up>>

SetCaughtUp(n, value) ==
    /\ node[n].caught_up # value
    /\ node' = [node EXCEPT ![n].caught_up = value]
    /\ UNCHANGED <<now_tick, metadata, witness_up>>

Crash(n) ==
    /\ node[n].powered
    /\ node' = [node EXCEPT ![n].powered = FALSE, ![n].gate = None]
    /\ UNCHANGED <<now_tick, metadata, witness_up>>

(* A restart reconnects the node and closes its gate for a new incarnation. *)
Restart(n) ==
    /\ ~node[n].powered
    /\ ~node[n].fenced
    /\ node[n].incarnation < MaxIncarnation
    /\ node' = [node EXCEPT ![n].powered = TRUE, ![n].connected_to_witness = TRUE,
                            ![n].incarnation = @ + 1, ![n].gate = None]
    /\ UNCHANGED <<now_tick, metadata, witness_up>>

Fence(n) ==
    /\ ~(node[n].fenced /\ ~node[n].powered /\ node[n].gate = None)
    /\ node' = [node EXCEPT ![n].fenced = TRUE, ![n].powered = FALSE, ![n].gate = None]
    /\ UNCHANGED <<now_tick, metadata, witness_up>>

NodeAction(n) ==
    \/ \E connected \in BOOLEAN : SetConnection(n, connected)
    \/ \E value \in BOOLEAN : SetCaughtUp(n, value)
    \/ Crash(n)
    \/ Restart(n)
    \/ Fence(n)
    \/ Promote(n)

Next ==
    \/ \E n \in Nodes : NodeAction(n)
    \/ \E running \in BOOLEAN : SetWitness(running)
    \/ AdvanceTime

Spec == Init /\ [][Next]_vars

(* Time does not stop; nothing else is scheduled. *)
FairSpec == Spec /\ WF_vars(AdvanceTime)

-----------------------------------------------------------------------------
Gates == [epoch : Nat, incarnation : Nat, expires_at_tick : Nat]

ASSUME NoGateIsNone == None \notin Gates

NodeStates ==
    [powered : BOOLEAN, connected_to_witness : BOOLEAN, fenced : BOOLEAN,
     caught_up : BOOLEAN, accepted_epoch : Nat, incarnation : Nat,
     gate : Gates \cup {None}]

(* Every counter stays in the range its checked_add leaves it, also the expiry  *)
(* computed three ticks ahead.                                                 *)
TypeOK ==
    /\ now_tick \in 0..MaxTick
    /\ epoch \in 0..MaxEpoch
    /\ metadata_holder \in Nodes \cup {None}
    /\ metadata_lease_expires_at_tick \in (0..MaxTick) \cup {None}
    /\ witness_up \in BOOLEAN
    /\ node \in [Nodes -> NodeStates]

(* SAFETY.md S1, the invariant explore() looks for: never two effective gates. *)
SingleWriter == \A n, m \in ActiveWriters : n = m

(* An effective gate is the one the metadata speaks of: no epoch was committed *)
(* after it, and metadata knows when it ends.  What makes S1 hold.             *)
EffectiveIsCurrent ==
    \A n \in ActiveWriters :
        /\ metadata_holder = n
        /\ node[n].gate.epoch = epoch
        /\ node[n].gate.expires_at_tick = metadata_lease_expires_at_tick

(* SAFETY.md S4 "promotion cannot precede fencing", and Action::CrashA "a crash *)
(* stops local effects but is not a fence receipt": authority leaves a holder   *)
(* only if it was fenced or its lease and the guard tick are over.             *)
SuccessionExcludesPriorHolder ==
    [][metadata_holder' # metadata_holder /\ metadata_holder # None =>
          \/ node[metadata_holder].fenced
          \/ now_tick > metadata_lease_expires_at_tick]_vars

(* SAFETY.md S3: two nodes never hold gates accepted for the same epoch, and    *)
(* none is ahead of the committed one; so an epoch names one writer for ever.  *)
EpochNamesOneWriter ==
    \A n \in Nodes :
        /\ node[n].accepted_epoch <= epoch
        /\ \A m \in Nodes \ {n} :
              node[n].accepted_epoch = node[m].accepted_epoch => node[n].accepted_epoch = 0

(* The abstract promise: authority is given to one node at a time, under rising *)
(* terms, and is taken back before it is given again.                           *)
Authority == INSTANCE WriterAuthority WITH
                term    <- epoch,
                writers <- {<<n, node[n].gate.epoch>> : n \in ActiveWriters}

ImplementsWriterAuthority == Authority!Spec

Ready(n) ==
    /\ node[n].powered /\ ~node[n].fenced
    /\ node[n].connected_to_witness /\ witness_up
    /\ node[n].caught_up

(* No dead end for a standby: whatever happened before, a ready node that is   *)
(* not the holder of record would be promoted within a lease and its guard, if *)
(* nothing but time passed, as long as the counters have room.                 *)
FailoverStaysPossible ==
    \A n \in Nodes :
        (/\ Ready(n)
         /\ metadata_holder # n
         /\ epoch < MaxEpoch
         /\ now_tick + 2 * LeaseTicks + 1 <= MaxTick)
        => \E t \in now_tick..(now_tick + LeaseTicks + 1) : PromoteOutcome(n, t) = Ok

(* No authority lasts: an effective gate closes, also at the last tick there is, *)
(* because a promotion whose lease would pass that tick is refused.             *)
AuthorityRunsOut ==
    \A n \in Nodes : (n \in ActiveWriters) ~> (n \notin ActiveWriters)

(* proof.rs:411 "Candidate already holds the current promotion authority", with  *)
(* proof.rs:143 "Exclusive upper bound for authority": a node refused for that   *)
(* reason still has time on its lease.                                          *)
AlreadyHoldsMeansHolds ==
    \A n \in Nodes :
        CoreVerdict(n, now_tick) = "CandidateAlreadyHoldsAuthority"
            => now_tick < metadata_lease_expires_at_tick
=============================================================================
