------------------------ MODULE PromotionProofProofs ------------------------
(***************************************************************************)
(* What an accepted promotion proof establishes, for every proof, current  *)
(* authority, policy and time.                                             *)
(***************************************************************************)
EXTENDS PromotionProof, RefusalsProofs

(* The validator accepts only when each of its six sections passes. *)
LEMMA AcceptsSections ==
    ASSUME NEW p, NEW cur, NEW pol, NEW now, Accepts(p, cur, pol, now)
    PROVE  /\ Verdict(SubjectChecks(p, cur, pol)) = Ok
           /\ Verdict(QuorumChecks(p, pol)) = Ok
           /\ Verdict(FenceChecks(p, cur, pol, now)) = Ok
           /\ Verdict(StateChecks(p, pol, now)) = Ok
           /\ Verdict(HealthChecks(p, pol, now)) = Ok
           /\ Verdict(LeaseChecks(p, cur, pol, now)) = Ok
<1> DEFINE checks == Sections(p, cur, pol, now)
<1>1. CheckList(checks)
  <2>1. ASSUME NEW v PROVE Section(v)[2] \/ Section(v)[1] # Ok
    BY DEF Section
  <2>2. DOMAIN checks = 1..Len(checks) /\ Len(checks) = 6
    BY DEF Sections
  <2>3. ASSUME NEW i \in 1..6 PROVE \E v : checks[i] = Section(v)
    BY DEF Sections
  <2> QED
    BY <2>1, <2>2, <2>3 DEF CheckList
<1>2. AllHold(checks)
  BY <1>1, OkMeansAllHold DEF Accepts, ProofVerdict
<1>3. DOMAIN checks = 1..6
  BY DEF Sections
<1>4. \A i \in 1..6 : checks[i][2]
  BY <1>2, <1>3 DEF AllHold
<1>5. /\ checks[1][2]
      /\ checks[2][2]
      /\ checks[3][2]
      /\ checks[4][2]
      /\ checks[5][2]
      /\ checks[6][2]
  BY <1>4
<1> QED
  BY <1>5 DEF Sections, Section

(* The subject section: a later epoch, one epoch throughout, a candidate that  *)
(* is configured and not the recorded holder, and votes for this very proof.   *)
LEMMA SubjectOk ==
    ASSUME NEW p, NEW cur, NEW pol, Verdict(SubjectChecks(p, cur, pol)) = Ok
    PROVE  /\ p.workload = pol.workload
           /\ p.policy_hash = pol.policy_hash
           /\ p.epoch > cur.epoch
           /\ p.candidate \in pol.candidates
           /\ cur.holder # p.candidate
           /\ ComponentEpochs(p) = {p.epoch}
           /\ QuorumBinds(p)
<1> DEFINE checks == SubjectChecks(p, cur, pol)
<1>1. CheckList(checks)
  BY DEF CheckList, SubjectChecks, Ok
<1>2. AllHold(checks)
  BY <1>1, OkMeansAllHold
<1>3. DOMAIN checks = 1..7
  BY DEF SubjectChecks
<1>4. \A i \in 1..7 : checks[i][2]
  BY <1>2, <1>3 DEF AllHold
<1>5. /\ checks[1][2]
      /\ checks[2][2]
      /\ checks[3][2]
      /\ checks[4][2]
      /\ checks[5][2]
      /\ checks[6][2]
      /\ checks[7][2]
  BY <1>4
<1> QED
  BY <1>5 DEF SubjectChecks, LaterEpoch

(* The quorum section: enough configured voters, each counted once. *)
LEMMA QuorumOk ==
    ASSUME NEW p, NEW pol, Verdict(QuorumChecks(p, pol)) = Ok
    PROVE  /\ RepeatedAt(p) = {}
           /\ VoterSet(p) \subseteq pol.voters
           /\ Cardinality(VoterSet(p)) >= pol.quorum_size
           /\ p.candidate \in VoterSet(p)
           /\ pol.required_witness # None => pol.required_witness \in VoterSet(p)
<1> DEFINE checks == QuorumChecks(p, pol)
<1>1. CheckList(checks)
  BY DEF CheckList, QuorumChecks, Ok
<1>2. AllHold(checks)
  BY <1>1, OkMeansAllHold
<1>3. DOMAIN checks = 1..5
  BY DEF QuorumChecks
<1>4. \A i \in 1..5 : checks[i][2]
  BY <1>2, <1>3 DEF AllHold
<1>5. /\ checks[1][2]
      /\ checks[2][2]
      /\ checks[3][2]
      /\ checks[4][2]
      /\ checks[5][2]
  BY <1>4
<1>6. /\ VotersKnown(p, pol)
      /\ RepeatedAt(p) = {}
      /\ QuorumReached(p, pol)
      /\ p.candidate \in VoterSet(p)
      /\ pol.required_witness # None => pol.required_witness \in VoterSet(p)
  BY <1>5 DEF QuorumChecks
<1>7. UnknownAt(p, pol) = {}
  BY <1>6 DEF VotersKnown
<1> QED
  BY <1>6, <1>7 DEF UnknownAt, VoterSet, QuorumReached

(* The fence section: a first promotion is a bootstrap of an untouched record; *)
(* any other fences the recorded holder, by force or by the end of its lease   *)
(* and the guard.                                                              *)
LEMMA FenceOk ==
    ASSUME NEW p, NEW cur, NEW pol, NEW now,
           Verdict(FenceChecks(p, cur, pol, now)) = Ok
    PROVE  /\ VerifierTrusted(p, pol)
           /\ p.fence.observed_at_ms <= now
           /\ cur.holder = None =>
                 p.fence.mechanism = "Bootstrap" /\ cur.epoch = 0 /\ p.fence.target = None
           /\ cur.holder # None =>
                 /\ p.fence.mechanism \notin {"Bootstrap", "GracefulShutdown"}
                 /\ p.fence.target = cur.holder
                 /\ p.fence.mechanism = "EffectGateExpired" => GuardElapsed(cur, pol, now)
<1> DEFINE checks == FenceChecks(p, cur, pol, now)
<1>1. CheckList(checks)
  BY DEF CheckList, FenceChecks, Ok
<1>2. AllHold(checks)
  BY <1>1, OkMeansAllHold
<1>3. DOMAIN checks = 1..9
  BY DEF FenceChecks
<1>4. \A i \in 1..9 : checks[i][2]
  BY <1>2, <1>3 DEF AllHold
<1>5. /\ checks[1][2]
      /\ checks[2][2]
      /\ checks[4][2]
      /\ checks[5][2]
      /\ checks[6][2]
      /\ checks[8][2]
      /\ checks[9][2]
  BY <1>4
<1> QED
  BY <1>5 DEF FenceChecks, TargetIsPriorHolder, NotFromFuture

(* The lease section: a lease that covers now and starts after the fence. *)
LEMMA LeaseOk ==
    ASSUME NEW p, NEW cur, NEW pol, NEW now,
           Verdict(LeaseChecks(p, cur, pol, now)) = Ok
    PROVE  /\ p.lease.holder = p.candidate
           /\ p.lease.incarnation = p.candidate_incarnation
           /\ p.lease.not_before_ms >= SafeNotBefore(p, cur, pol)
           /\ p.lease.not_before_ms <= now
           /\ now < p.lease.expires_at_ms
<1> DEFINE checks == LeaseChecks(p, cur, pol, now)
<1>1. CheckList(checks)
  BY DEF CheckList, LeaseChecks, Ok
<1>2. AllHold(checks)
  BY <1>1, OkMeansAllHold
<1>3. DOMAIN checks = 1..5
  BY DEF LeaseChecks
<1>4. \A i \in 1..5 : checks[i][2]
  BY <1>2, <1>3 DEF AllHold
<1>5. /\ checks[1][2]
      /\ checks[4][2]
      /\ checks[5][2]
  BY <1>4
<1> QED
  BY <1>5 DEF LeaseChecks, StartsAfterFence

(* The state section: the candidate has at least what the votes require. *)
LEMMA StateOk ==
    ASSUME NEW p, NEW pol, NEW now, Verdict(StateChecks(p, pol, now)) = Ok
    PROVE  /\ p.state.durable_commit >= p.state.required_commit
           /\ p.state.state_root # ZeroRoot
<1> DEFINE checks == StateChecks(p, pol, now)
<1>1. CheckList(checks)
  BY DEF CheckList, StateChecks, Ok
<1>2. AllHold(checks)
  BY <1>1, OkMeansAllHold
<1>3. DOMAIN checks = 1..4
  BY DEF StateChecks
<1>4. \A i \in 1..4 : checks[i][2]
  BY <1>2, <1>3 DEF AllHold
<1>5. checks[3][2] /\ checks[4][2]
  BY <1>4
<1> QED
  BY <1>5 DEF StateChecks

(* The converses: a list passes where each of its conditions holds.  The        *)
(* assumptions of each lemma are the rows of its list.                         *)
LEMMA PolicyPasses ==
    ASSUME NEW pol,
           pol.candidates # {},
           pol.voters # {},
           pol.candidates \subseteq pol.voters,
           pol.quorum_size \in 1..Cardinality(pol.voters),
           Intersecting(pol),
           pol.required_witness # None => pol.required_witness \in pol.voters,
           pol.required_witness \notin pol.candidates,
           pol.min_health_checks # 0,
           pol.max_evidence_age_ms # 0,
           pol.max_lease_duration_ms # 0
    PROVE  ConstructedPolicy(pol)
<1> DEFINE checks == PolicyChecks(pol)
<1>1. DOMAIN checks = 1..9
  BY DEF PolicyChecks
<1>2. /\ checks[1][2]
      /\ checks[2][2]
      /\ checks[3][2]
      /\ checks[4][2]
      /\ checks[5][2]
      /\ checks[6][2]
      /\ checks[7][2]
      /\ checks[8][2]
      /\ checks[9][2]
  BY DEF PolicyChecks
<1>3. AllHold(checks)
  <2>1. \A i \in 1..9 : checks[i][2]
    BY <1>2
  <2> QED
    BY <1>1, <2>1 DEF AllHold
<1> QED
  BY <1>3 DEF ConstructedPolicy, Verdict

LEMMA SubjectPasses ==
    ASSUME NEW p, NEW cur, NEW pol,
           p.workload = pol.workload,
           p.policy_hash = pol.policy_hash,
           LaterEpoch(p, cur),
           p.candidate \in pol.candidates,
           cur.holder # p.candidate,
           ComponentEpochs(p) = {p.epoch},
           QuorumBinds(p)
    PROVE  Verdict(SubjectChecks(p, cur, pol)) = Ok
<1> DEFINE checks == SubjectChecks(p, cur, pol)
<1>1. DOMAIN checks = 1..7
  BY DEF SubjectChecks
<1>2. /\ checks[1][2]
      /\ checks[2][2]
      /\ checks[3][2]
      /\ checks[4][2]
      /\ checks[5][2]
      /\ checks[6][2]
      /\ checks[7][2]
  BY DEF SubjectChecks
<1>3. AllHold(checks)
  <2>1. \A i \in 1..7 : checks[i][2]
    BY <1>2
  <2> QED
    BY <1>1, <2>1 DEF AllHold
<1> QED
  BY <1>3 DEF Verdict

LEMMA QuorumPasses ==
    ASSUME NEW p, NEW pol,
           VotersKnown(p, pol),
           RepeatedAt(p) = {},
           QuorumReached(p, pol),
           p.candidate \in VoterSet(p),
           pol.required_witness # None => pol.required_witness \in VoterSet(p)
    PROVE  Verdict(QuorumChecks(p, pol)) = Ok
<1> DEFINE checks == QuorumChecks(p, pol)
<1>1. DOMAIN checks = 1..5
  BY DEF QuorumChecks
<1>2. /\ checks[1][2]
      /\ checks[2][2]
      /\ checks[3][2]
      /\ checks[4][2]
      /\ checks[5][2]
  BY DEF QuorumChecks
<1>3. AllHold(checks)
  <2>1. \A i \in 1..5 : checks[i][2]
    BY <1>2
  <2> QED
    BY <1>1, <2>1 DEF AllHold
<1> QED
  BY <1>3 DEF Verdict

LEMMA FencePasses ==
    ASSUME NEW p, NEW cur, NEW pol, NEW now,
           VerifierTrusted(p, pol),
           NotFromFuture(p.fence, now),
           NotTooOld(p.fence, pol, now),
           cur.holder = None => p.fence.mechanism = "Bootstrap",
           cur.holder = None => cur.epoch = 0,
           p.fence.target = cur.holder,
           cur.holder # None => p.fence.mechanism \notin {"Bootstrap", "GracefulShutdown"},
           p.fence.mechanism = "EffectGateExpired" => pol.allow_gate_expiry_fence,
           p.fence.mechanism = "EffectGateExpired" => GuardElapsed(cur, pol, now)
    PROVE  Verdict(FenceChecks(p, cur, pol, now)) = Ok
<1> DEFINE checks == FenceChecks(p, cur, pol, now)
<1>1. DOMAIN checks = 1..9
  BY DEF FenceChecks
<1>2. /\ checks[1][2]
      /\ checks[2][2]
      /\ checks[3][2]
      /\ checks[4][2]
      /\ checks[5][2]
      /\ checks[6][2]
      /\ checks[7][2]
      /\ checks[8][2]
      /\ checks[9][2]
  BY DEF FenceChecks, TargetIsPriorHolder
<1>3. AllHold(checks)
  <2>1. \A i \in 1..9 : checks[i][2]
    BY <1>2
  <2> QED
    BY <1>1, <2>1 DEF AllHold
<1> QED
  BY <1>3 DEF Verdict

LEMMA StatePasses ==
    ASSUME NEW p, NEW pol, NEW now,
           NotFromFuture(p.state, now),
           NotTooOld(p.state, pol, now),
           p.state.durable_commit >= p.state.required_commit,
           p.state.state_root # ZeroRoot
    PROVE  Verdict(StateChecks(p, pol, now)) = Ok
<1> DEFINE checks == StateChecks(p, pol, now)
<1>1. DOMAIN checks = 1..4
  BY DEF StateChecks
<1>2. /\ checks[1][2]
      /\ checks[2][2]
      /\ checks[3][2]
      /\ checks[4][2]
  BY DEF StateChecks
<1>3. AllHold(checks)
  <2>1. \A i \in 1..4 : checks[i][2]
    BY <1>2
  <2> QED
    BY <1>1, <2>1 DEF AllHold
<1> QED
  BY <1>3 DEF Verdict

LEMMA HealthPasses ==
    ASSUME NEW p, NEW pol, NEW now,
           p.health.workload = p.workload,
           p.health.node = p.candidate,
           p.health.incarnation = p.candidate_incarnation,
           NotFromFuture(p.health, now),
           NotTooOld(p.health, pol, now),
           p.health.healthy,
           p.health.passed_checks >= pol.min_health_checks
    PROVE  Verdict(HealthChecks(p, pol, now)) = Ok
<1> DEFINE checks == HealthChecks(p, pol, now)
<1>1. DOMAIN checks = 1..5
  BY DEF HealthChecks
<1>2. /\ checks[1][2]
      /\ checks[2][2]
      /\ checks[3][2]
      /\ checks[4][2]
      /\ checks[5][2]
  BY DEF HealthChecks
<1>3. AllHold(checks)
  <2>1. \A i \in 1..5 : checks[i][2]
    BY <1>2
  <2> QED
    BY <1>1, <2>1 DEF AllHold
<1> QED
  BY <1>3 DEF Verdict

LEMMA LeasePasses ==
    ASSUME NEW p, NEW cur, NEW pol, NEW now,
           p.lease.workload = p.workload,
           p.lease.holder = p.candidate,
           p.lease.incarnation = p.candidate_incarnation,
           p.lease.expires_at_ms > p.lease.not_before_ms,
           p.lease.expires_at_ms - p.lease.not_before_ms <= pol.max_lease_duration_ms,
           StartsAfterFence(p, SafeNotBefore(p, cur, pol)),
           p.lease.not_before_ms <= now,
           now < p.lease.expires_at_ms
    PROVE  Verdict(LeaseChecks(p, cur, pol, now)) = Ok
<1> DEFINE checks == LeaseChecks(p, cur, pol, now)
<1>1. DOMAIN checks = 1..5
  BY DEF LeaseChecks
<1>2. /\ checks[1][2]
      /\ checks[2][2]
      /\ checks[3][2]
      /\ checks[4][2]
      /\ checks[5][2]
  BY DEF LeaseChecks
<1>3. AllHold(checks)
  <2>1. \A i \in 1..5 : checks[i][2]
    BY <1>2
  <2> QED
    BY <1>1, <2>1 DEF AllHold
<1> QED
  BY <1>3 DEF Verdict

(* And a proof whose six sections pass is accepted. *)
LEMMA SectionsAccept ==
    ASSUME NEW p, NEW cur, NEW pol, NEW now,
           Verdict(SubjectChecks(p, cur, pol)) = Ok,
           Verdict(QuorumChecks(p, pol)) = Ok,
           Verdict(FenceChecks(p, cur, pol, now)) = Ok,
           Verdict(StateChecks(p, pol, now)) = Ok,
           Verdict(HealthChecks(p, pol, now)) = Ok,
           Verdict(LeaseChecks(p, cur, pol, now)) = Ok
    PROVE  Accepts(p, cur, pol, now)
<1> DEFINE checks == Sections(p, cur, pol, now)
<1>1. DOMAIN checks = 1..6
  BY DEF Sections
<1>2. \A i \in 1..6 : checks[i] = Section(Ok)
  BY DEF Sections
<1>3. Section(Ok)[2]
  BY DEF Section
<1>4. AllHold(checks)
  <2>1. \A i \in 1..6 : checks[i][2]
    BY <1>2, <1>3
  <2> QED
    BY <1>1, <2>1 DEF AllHold
<1> QED
  BY <1>4 DEF Accepts, ProofVerdict, Verdict

(* Two certificates that pass under one policy have a configured voter in       *)
(* common: a quorum is more than half of the voters.                           *)
THEOREM QuorumsIntersect ==
    ASSUME NEW pol, IsFiniteSet(pol.voters), pol.quorum_size \in Nat, Intersecting(pol),
           NEW Q1, NEW Q2, Q1 \subseteq pol.voters, Q2 \subseteq pol.voters,
           Cardinality(Q1) >= pol.quorum_size, Cardinality(Q2) >= pol.quorum_size
    PROVE  Q1 \cap Q2 # {}
<1>1. SUFFICES ASSUME Q1 \cap Q2 = {} PROVE FALSE
  OBVIOUS
<1>2. IsFiniteSet(Q1) /\ IsFiniteSet(Q2)
  BY FS_Subset
<1>3. Cardinality(Q1 \cup Q2) = Cardinality(Q1) + Cardinality(Q2)
  <2>1. Cardinality(Q1 \cup Q2)
          = Cardinality(Q1) + Cardinality(Q2) - Cardinality(Q1 \cap Q2)
    BY <1>2, FS_Union
  <2>2. Cardinality(Q1 \cap Q2) = 0
    BY <1>1, FS_EmptySet
  <2> QED
    BY <1>2, <2>1, <2>2, FS_CardinalityType
<1>4. Cardinality(Q1 \cup Q2) <= Cardinality(pol.voters)
  BY FS_Subset
<1>5. /\ Cardinality(Q1) \in Nat /\ Cardinality(Q2) \in Nat
      /\ Cardinality(pol.voters) \in Nat
  BY <1>2, FS_CardinalityType
<1> QED
  BY <1>3, <1>4, <1>5 DEF Intersecting

(* Every policy the constructor accepts asks for such a quorum. *)
LEMMA ConstructedIntersects ==
    ASSUME NEW pol, ConstructedPolicy(pol)
    PROVE  Intersecting(pol)
<1> DEFINE checks == PolicyChecks(pol)
<1>1. CheckList(checks)
  BY DEF CheckList, PolicyChecks, Ok
<1>2. AllHold(checks)
  BY <1>1, OkMeansAllHold DEF ConstructedPolicy
<1>3. DOMAIN checks = 1..9
  BY DEF PolicyChecks
<1>4. checks[5][2]
  BY <1>2, <1>3 DEF AllHold
<1> QED
  BY <1>4 DEF PolicyChecks
=============================================================================
