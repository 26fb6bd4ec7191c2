--------------------------- MODULE PromotionProof ---------------------------
(***************************************************************************)
(* The proof validator of quorumarc-core (crates/quorumarc-core/src/       *)
(* proof.rs) as pure operators: SafetyPolicy::new and validate_promotion   *)
(* with its helpers.  Records carry the field names of the Rust structs.   *)
(* Every list of checks keeps the order of the early returns, because the  *)
(* first failing check is the refusal the caller sees.                     *)
(***************************************************************************)
EXTENDS Refusals, Integers, FiniteSets

CONSTANTS MaxU64,   \* largest u64; checked_add refuses beyond it
          None      \* Option::None for holder, target, witness and expiry

ASSUME MaxU64Assumption == MaxU64 \in Nat

-----------------------------------------------------------------------------
(* types.rs: the all-zero StateRoot is the sentinel "no state". *)
ZeroRoot == 0

(* AuthorityState::initial *)
InitialAuthority == [epoch |-> 0, holder |-> None, lease_expires_at_ms |-> None]

FenceMechanism == {"Bootstrap", "HardwarePower", "StorageReservation",
                   "EffectGateExpired", "GracefulShutdown"}

-----------------------------------------------------------------------------
(* SafetyPolicy::new: what a policy must satisfy to exist. *)

(* Plausible slip: accept exactly half of the voters. *)
IntersectingAtHalf(pol) == pol.quorum_size >= Cardinality(pol.voters) \div 2

Intersecting(pol) == pol.quorum_size > Cardinality(pol.voters) \div 2

PolicyChecks(pol) ==
    << <<"NoCandidates",          pol.candidates # {}>>,
       <<"NoVoters",              pol.voters # {}>>,
       <<"CandidateNotVoter",     pol.candidates \subseteq pol.voters>>,
       <<"InvalidQuorumSize",     pol.quorum_size \in 1..Cardinality(pol.voters)>>,
       <<"NonIntersectingQuorum", Intersecting(pol)>>,
       <<"WitnessNotConfigured",
           pol.required_witness # None => pol.required_witness \in pol.voters>>,
       <<"WitnessIsCandidate",    pol.required_witness \notin pol.candidates>>,
       <<"ZeroHealthChecks",      pol.min_health_checks # 0>>,
       <<"ZeroTimeBound",
           pol.max_evidence_age_ms # 0 /\ pol.max_lease_duration_ms # 0>> >>

(* A policy value the program can hold is one that the constructor let through. *)
ConstructedPolicy(pol) == Verdict(PolicyChecks(pol)) = Ok

-----------------------------------------------------------------------------
(* validate_fresh, used for fence, state and health evidence. *)
NotFromFuture(evidence, now) == evidence.observed_at_ms <= now

NotTooOld(evidence, pol, now) == now - evidence.observed_at_ms <= pol.max_evidence_age_ms

(* validate_promotion up to the quorum: who, for what, under which epoch. *)
(* Plausible slip: a fence receipt of an earlier epoch still counts. *)
UnfencedEpochs(p) == {p.quorum.epoch, p.health.epoch, p.lease.epoch}

ComponentEpochs(p) == {p.quorum.epoch, p.fence.epoch, p.health.epoch, p.lease.epoch}

(* Plausible slip: the certificate does not pin the lease interval. *)
QuorumBindsAllButLease(p) ==
    /\ p.quorum.workload              = p.workload
    /\ p.quorum.candidate             = p.candidate
    /\ p.quorum.candidate_incarnation = p.candidate_incarnation
    /\ p.quorum.policy_hash           = p.policy_hash
    /\ p.quorum.required_commit       = p.state.required_commit
    /\ p.quorum.state_root            = p.state.state_root

QuorumBinds(p) ==
    /\ p.quorum.workload              = p.workload
    /\ p.quorum.candidate             = p.candidate
    /\ p.quorum.candidate_incarnation = p.candidate_incarnation
    /\ p.quorum.policy_hash           = p.policy_hash
    /\ p.quorum.required_commit       = p.state.required_commit
    /\ p.quorum.state_root            = p.state.state_root
    /\ p.quorum.lease_not_before_ms   = p.lease.not_before_ms
    /\ p.quorum.lease_expires_at_ms   = p.lease.expires_at_ms

(* Plausible slip: a second proof for the epoch already granted. *)
SameEpochOrLater(p, cur) == p.epoch >= cur.epoch

LaterEpoch(p, cur) == p.epoch > cur.epoch

SubjectChecks(p, cur, pol) ==
    << <<"WorkloadMismatch",       p.workload = pol.workload>>,
       <<"PolicyHashMismatch",     p.policy_hash = pol.policy_hash>>,
       <<"StaleEpoch",             LaterEpoch(p, cur)>>,
       <<"CandidateNotConfigured", p.candidate \in pol.candidates>>,
       <<"CandidateAlreadyHoldsAuthority", cur.holder # p.candidate>>,
       <<"EpochMismatch",          ComponentEpochs(p) = {p.epoch}>>,
       <<"QuorumBindingMismatch",  QuorumBinds(p)>> >>

(* validate_quorum walks the vote list: an unknown voter is reported unless *)
(* a repeated one stands before it.                                         *)
Votes(p) == p.quorum.voters

VoterSet(p) == {Votes(p)[i] : i \in DOMAIN Votes(p)}

UnknownAt(p, pol) == {i \in DOMAIN Votes(p) : Votes(p)[i] \notin pol.voters}

RepeatedAt(p) == {i \in DOMAIN Votes(p) : \E j \in 1..(i - 1) : Votes(p)[j] = Votes(p)[i]}

VotersKnown(p, pol) == \A i \in UnknownAt(p, pol) : \E j \in RepeatedAt(p) : j < i

QuorumReached(p, pol) == Cardinality(VoterSet(p)) >= pol.quorum_size

QuorumChecks(p, pol) ==
    << <<"UnknownVoter",        VotersKnown(p, pol)>>,
       <<"DuplicateVoter",      RepeatedAt(p) = {}>>,
       <<"InsufficientQuorum",  QuorumReached(p, pol)>>,
       <<"CandidateDidNotVote", p.candidate \in VoterSet(p)>>,
       <<"MissingWitness",
           pol.required_witness # None => pol.required_witness \in VoterSet(p)>> >>

-----------------------------------------------------------------------------
(* validate_fence: the prior authority is excluded. *)

(* Plausible slip: the guard interval is not added. *)
SafeTimeWithoutGuard(cur, pol) == cur.lease_expires_at_ms

(* Plausible slip: the sum wraps instead of being refused. *)
SafeTimeWrapping(cur, pol) == (cur.lease_expires_at_ms + pol.lease_guard_ms) % (MaxU64 + 1)

(* checked_add(lease_expires_at_ms, lease_guard_ms); its overflow is GuardElapsed's. *)
SafeTime(cur, pol) == cur.lease_expires_at_ms + pol.lease_guard_ms

GuardElapsed(cur, pol, now) ==
    /\ cur.lease_expires_at_ms # None
    /\ SafeTime(cur, pol) <= MaxU64
    /\ now >= SafeTime(cur, pol)

VerifierTrusted(p, pol) ==
    /\ p.fence.verifier \in pol.voters
    /\ p.fence.verifier \in VoterSet(p)
    /\ pol.required_witness \in {None, p.fence.verifier}

(* Plausible slip: any fence receipt will do, whomever it fenced. *)
AnyTarget(p, cur) == TRUE

TargetIsPriorHolder(p, cur) == p.fence.target = cur.holder

FenceChecks(p, cur, pol, now) ==
    LET succession == cur.holder # None
        byExpiry   == succession /\ p.fence.mechanism = "EffectGateExpired"
    IN << <<"InvalidFenceVerifier", VerifierTrusted(p, pol)>>,
          <<"EvidenceFromFuture",   NotFromFuture(p.fence, now)>>,
          <<"EvidenceTooOld",       NotTooOld(p.fence, pol, now)>>,
          <<"InvalidBootstrap",
              ~succession => /\ p.fence.mechanism = "Bootstrap"
                             /\ cur.epoch = 0
                             /\ p.fence.target = None>>,
          <<"BootstrapNotAllowed",  succession => p.fence.mechanism # "Bootstrap">>,
          <<"WrongFenceTarget",     succession => TargetIsPriorHolder(p, cur)>>,
          <<"GateExpiryFenceDisabled", byExpiry => pol.allow_gate_expiry_fence>>,
          <<"FenceGuardNotElapsed", byExpiry => GuardElapsed(cur, pol, now)>>,
          <<"WeakFence",
              succession => p.fence.mechanism # "GracefulShutdown">> >>

(* The second result of validate_fence: the earliest safe lease start.  It is *)
(* meaningful only when the fence checks passed, so a safe time exists.       *)
SafeNotBefore(p, cur, pol) ==
    IF p.fence.mechanism = "EffectGateExpired" /\ cur.lease_expires_at_ms # None
    THEN SafeTime(cur, pol)
    ELSE p.fence.observed_at_ms

(* Plausible slip: the class is the mechanism under its own name. *)
MechanismAsClass(p) == p.fence.mechanism

FenceClass(p) ==
    IF p.fence.mechanism = "EffectGateExpired" THEN "EffectGateExpiry"
    ELSE p.fence.mechanism

-----------------------------------------------------------------------------
(* The state block of validate_promotion. *)
StateChecks(p, pol, now) ==
    << <<"EvidenceFromFuture",   NotFromFuture(p.state, now)>>,
       <<"EvidenceTooOld",       NotTooOld(p.state, pol, now)>>,
       <<"CandidateStateBehind", p.state.durable_commit >= p.state.required_commit>>,
       <<"EmptyStateRoot",       p.state.state_root # ZeroRoot>> >>

(* validate_health *)
HealthChecks(p, pol, now) ==
    << <<"HealthSubjectMismatch",
           /\ p.health.workload    = p.workload
           /\ p.health.node        = p.candidate
           /\ p.health.incarnation = p.candidate_incarnation>>,
       <<"EvidenceFromFuture",       NotFromFuture(p.health, now)>>,
       <<"EvidenceTooOld",           NotTooOld(p.health, pol, now)>>,
       <<"CandidateUnhealthy",       p.health.healthy>>,
       <<"InsufficientHealthChecks",
           p.health.passed_checks >= pol.min_health_checks>> >>

(* validate_lease *)
(* Plausible slip: a lease may not start at the safe time itself. *)
StartsStrictlyAfter(p, safeNotBefore) == p.lease.not_before_ms > safeNotBefore

StartsAfterFence(p, safeNotBefore) == p.lease.not_before_ms >= safeNotBefore

LeaseChecks(p, cur, pol, now) ==
    << <<"LeaseSubjectMismatch",
           /\ p.lease.workload    = p.workload
           /\ p.lease.holder      = p.candidate
           /\ p.lease.incarnation = p.candidate_incarnation>>,
       <<"InvalidLeaseInterval", p.lease.expires_at_ms > p.lease.not_before_ms>>,
       <<"LeaseTooLong",
           p.lease.expires_at_ms - p.lease.not_before_ms <= pol.max_lease_duration_ms>>,
       <<"LeaseStartsBeforeFence", StartsAfterFence(p, SafeNotBefore(p, cur, pol))>>,
       <<"LeaseNotActive",
           p.lease.not_before_ms <= now /\ now < p.lease.expires_at_ms>> >>

-----------------------------------------------------------------------------
(* validate_promotion: the sections in order; a refused one refuses the proof. *)
Section(verdict) == <<verdict, verdict = Ok>>

Sections(p, cur, pol, now) ==
    << Section(Verdict(SubjectChecks(p, cur, pol))),
       Section(Verdict(QuorumChecks(p, pol))),
       Section(Verdict(FenceChecks(p, cur, pol, now))),
       Section(Verdict(StateChecks(p, pol, now))),
       Section(Verdict(HealthChecks(p, pol, now))),
       Section(Verdict(LeaseChecks(p, cur, pol, now))) >>

ProofVerdict(p, cur, pol, now) == Verdict(Sections(p, cur, pol, now))

Accepts(p, cur, pol, now) == ProofVerdict(p, cur, pol, now) = Ok

(* The non-cloneable capability an accepted proof yields. *)
ValidatedPromotion(p) ==
    [workload              |-> p.workload,
     candidate             |-> p.candidate,
     candidate_incarnation |-> p.candidate_incarnation,
     epoch                 |-> p.epoch,
     policy_hash           |-> p.policy_hash,
     not_before_ms         |-> p.lease.not_before_ms,
     expires_at_ms         |-> p.lease.expires_at_ms,
     durable_commit        |-> p.state.durable_commit,
     state_root            |-> p.state.state_root,
     fence_class           |-> FenceClass(p)]
=============================================================================
