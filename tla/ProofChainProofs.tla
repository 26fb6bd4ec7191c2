-------------------------- MODULE ProofChainProofs --------------------------
(***************************************************************************)
(* Theorems about chains of accepted promotions, for every set of policies *)
(* the constructor may be tried with, all votes and all alterations.       *)
(*                                                                         *)
(* The invariant says what survives on the way from certification to the   *)
(* validator: the certificate itself; and what is known of the last grant: *)
(* its voters were a quorum of the policy.                                 *)
(***************************************************************************)
EXTENDS ProofChain, PromotionProofProofs

PolicyHolds == policy \in RawPolicies /\ ConstructedPolicy(policy)

(* What was certified says of itself what the certificate says of it, and the  *)
(* bundle on its way still has that certificate.                               *)
Carried ==
    proof # None =>
        /\ {"quorum", "fence"} \subseteq DOMAIN proof
        /\ "mechanism" \in DOMAIN proof.fence
        /\ proof.fence.mechanism \in FenceMechanism
        /\ proof.quorum = voted.quorum
        /\ QuorumBinds(voted)
        /\ voted.quorum.epoch = voted.epoch

AcceptedByQuorum ==
    accepted # {} => /\ accepted \subseteq policy.voters
                     /\ Cardinality(accepted) >= policy.quorum_size

IInv == PolicyHolds /\ Carried /\ AcceptedByQuorum

(* Whatever is altered, the certificate is not, and a mechanism stays one. *)
LEMMA AlteredKeepsQuorum ==
    ASSUME NEW p, {"quorum", "fence"} \subseteq DOMAIN p, "mechanism" \in DOMAIN p.fence,
           p.fence.mechanism \in FenceMechanism, NEW q \in Altered(p)
    PROVE  /\ {"quorum", "fence"} \subseteq DOMAIN q
           /\ "mechanism" \in DOMAIN q.fence
           /\ q.fence.mechanism \in FenceMechanism
           /\ q.quorum = p.quorum
BY DEF Altered

LEMMA BundleBound ==
    ASSUME NEW c, NEW e, NEW mechanism \in FenceMechanism, NEW votes
    PROVE  /\ {"quorum", "fence"} \subseteq DOMAIN Bundle(c, e, mechanism, votes)
           /\ "mechanism" \in DOMAIN Bundle(c, e, mechanism, votes).fence
           /\ Bundle(c, e, mechanism, votes).fence.mechanism \in FenceMechanism
           /\ QuorumBinds(Bundle(c, e, mechanism, votes))
           /\ Bundle(c, e, mechanism, votes).quorum.epoch = Bundle(c, e, mechanism, votes).epoch
BY DEF Bundle, QuorumBinds

LEMMA InitIInv == Init => IInv
BY DEF Init, IInv, PolicyHolds, Carried, AcceptedByQuorum

LEMMA StepIInv == IInv /\ [Next]_vars => IInv'
<1> SUFFICES ASSUME IInv, [Next]_vars PROVE IInv'
  OBVIOUS
<1> USE DEF IInv, PolicyHolds
<1>1. ASSUME NEW c \in policy.candidates, NEW e \in 1..MaxEpoch, NEW votes \in VoteLists,
             NEW mechanism \in {"Bootstrap", "EffectGateExpired", "HardwarePower"},
             Certify(c, e, mechanism, votes)
      PROVE  IInv'
  <2>1. proof' = voted' /\ voted' = Bundle(c, e, mechanism, votes)
    BY <1>1 DEF Certify
  <2>2. mechanism \in FenceMechanism
    BY DEF FenceMechanism
  <2>3. Carried'
    BY <2>1, <2>2, BundleBound DEF Carried, QuorumBinds
  <2> QED
    BY <1>1, <2>3 DEF Certify, AcceptedByQuorum
<1>2. CASE Discard
  BY <1>2 DEF Discard, Carried, AcceptedByQuorum
<1>3. CASE Alter
  <2>1. proof # None /\ proof' \in Altered(proof) /\ voted' = voted
    BY <1>3 DEF Alter
  <2>2. Carried'
    BY <2>1, AlteredKeepsQuorum DEF Carried, QuorumBinds
  <2> QED
    BY <1>3, <2>2 DEF Alter, AcceptedByQuorum
<1>4. CASE Present
  <2>1. Verdict(QuorumChecks(proof, policy)) = Ok
    BY <1>4, AcceptsSections DEF Present
  <2>2. accepted' = VoterSet(proof) /\ UNCHANGED <<policy, proof, voted>>
    BY <1>4 DEF Present
  <2>3. AcceptedByQuorum'
    BY <2>1, <2>2, QuorumOk DEF AcceptedByQuorum
  <2> QED
    BY <2>2, <2>3 DEF Carried
<1>5. CASE Wait
  BY <1>5 DEF Wait, Carried, AcceptedByQuorum
<1>6. CASE UNCHANGED vars
  BY <1>6 DEF vars, Carried, AcceptedByQuorum
<1> QED
  BY <1>1, <1>2, <1>3, <1>4, <1>5, <1>6 DEF Next

LEMMA Invariance == Spec => []IInv
BY InitIInv, StepIInv, PTL DEF Spec

(* Only the validator's acceptance moves the authority record. *)
LEMMA GrantsAccept ==
    ASSUME [Next]_vars, Grants
    PROVE  /\ proof # None
           /\ Accepts(proof, current, policy, now)
           /\ UNCHANGED <<policy, now, voted, proof>>
           /\ current' = [epoch |-> proof.epoch, holder |-> proof.candidate,
                          lease_expires_at_ms |-> proof.lease.expires_at_ms]
BY DEF Grants, Next, Certify, Discard, Alter, Present, Wait, vars, ValidatedPromotion

(* Two grants in a row were each voted for by a configured voter of both, under *)
(* every policy the constructor lets through.                                  *)
THEOREM QuorumsOfSuccessionIntersect == Spec => SuccessiveQuorumsIntersect
<1> DEFINE Shared == accepted \cap VoterSet(proof) \cap policy.voters # {}
<1>1. ASSUME IInv, [Next]_vars, Grants, accepted # {} PROVE Shared
  <2>1. Verdict(QuorumChecks(proof, policy)) = Ok
    BY <1>1, GrantsAccept, AcceptsSections
  <2>2. VoterSet(proof) \subseteq policy.voters /\ Cardinality(VoterSet(proof)) >= policy.quorum_size
    BY <2>1, QuorumOk
  <2>3. accepted \subseteq policy.voters /\ Cardinality(accepted) >= policy.quorum_size
    BY <1>1 DEF IInv, AcceptedByQuorum
  <2>4. /\ IsFiniteSet(policy.voters) /\ policy.quorum_size \in Nat
        /\ Intersecting(policy)
    BY <1>1, PolicyAssumption, ConstructedIntersects DEF IInv, PolicyHolds
  <2>5. accepted \cap VoterSet(proof) # {}
    BY <2>2, <2>3, <2>4, QuorumsIntersect
  <2> QED
    BY <2>3, <2>5
<1>2. IInv /\ [Next]_vars => [Grants /\ accepted # {} => Shared]_vars
  BY <1>1
<1> QED
  BY <1>2, Invariance, PTL DEF Spec, SuccessiveQuorumsIntersect

(* What an accepted bundle and the one that was voted for agree on. *)
LEMMA AcceptedAsVoted ==
    ASSUME IInv, [Next]_vars, Grants
    PROVE  /\ ValidatedPromotion(proof).workload = ValidatedPromotion(voted).workload
           /\ proof.candidate = voted.candidate
           /\ proof.candidate_incarnation = voted.candidate_incarnation
           /\ proof.epoch = voted.epoch
           /\ proof.policy_hash = voted.policy_hash
           /\ proof.lease.not_before_ms = voted.lease.not_before_ms
           /\ proof.lease.expires_at_ms = voted.lease.expires_at_ms
           /\ proof.state.required_commit = voted.state.required_commit
           /\ proof.state.state_root = voted.state.state_root
<1>1. Verdict(SubjectChecks(proof, current, policy)) = Ok
  BY GrantsAccept, AcceptsSections
<1>2. QuorumBinds(proof) /\ proof.quorum.epoch = proof.epoch
  BY <1>1, SubjectOk DEF ComponentEpochs
<1>3. /\ QuorumBinds(voted) /\ voted.quorum.epoch = voted.epoch
      /\ proof.quorum = voted.quorum
  BY GrantsAccept DEF IInv, Carried
<1> QED
  BY <1>2, <1>3 DEF QuorumBinds, ValidatedPromotion

(* A grant is for a later epoch than the one before, and for the epoch voted. *)
THEOREM GrantsRise == Spec => EpochsRise
<1>1. ASSUME IInv, [Next]_vars, Grants
      PROVE  current'.epoch > current.epoch /\ current'.epoch = voted.epoch
  <2>1. Verdict(SubjectChecks(proof, current, policy)) = Ok
    BY <1>1, GrantsAccept, AcceptsSections
  <2> QED
    BY <1>1, <2>1, GrantsAccept, AcceptedAsVoted, SubjectOk
<1>2. IInv /\ [Next]_vars
        => [Grants => current'.epoch > current.epoch /\ current'.epoch = voted.epoch]_vars
  BY <1>1
<1> QED
  BY <1>2, Invariance, PTL DEF Spec, EpochsRise

(* Nothing altered after the votes changes what is granted, nor lowers the      *)
(* durable state it is granted on.                                             *)
THEOREM GrantsAsVoted == Spec => VotesPinTheGrant
<1> DEFINE Pinned == /\ Promise(proof) = Promise(voted)
                     /\ ValidatedPromotion(proof).durable_commit >= voted.state.required_commit
<1>1. ASSUME IInv, [Next]_vars, Grants PROVE Pinned
  <2>1. Verdict(StateChecks(proof, policy, now)) = Ok
    BY <1>1, GrantsAccept, AcceptsSections
  <2>2. proof.state.durable_commit >= voted.state.required_commit
    BY <1>1, <2>1, StateOk, AcceptedAsVoted
  <2>3. Promise(proof) = Promise(voted)
    BY <1>1, AcceptedAsVoted DEF Promise, ValidatedPromotion
  <2> QED
    BY <2>2, <2>3 DEF ValidatedPromotion
<1>2. IInv /\ [Next]_vars => [Grants => Pinned]_vars
  BY <1>1
<1> QED
  BY <1>2, Invariance, PTL DEF Spec, VotesPinTheGrant

(* Authority passes from a holder only on a receipt about it and this epoch: a  *)
(* power or storage fence, or the end of its lease and the guard, before which  *)
(* the new lease does not start.                                               *)
THEOREM PriorHolderExcluded == Spec => PriorHolderIsExcluded
<1> DEFINE Excluded ==
               /\ current'.holder # current.holder
               /\ proof.fence.target = current.holder
               /\ proof.fence.epoch = current'.epoch
               /\ \/ /\ proof.fence.mechanism = "EffectGateExpired"
                     /\ now >= current.lease_expires_at_ms + policy.lease_guard_ms
                     /\ proof.lease.not_before_ms
                            >= current.lease_expires_at_ms + policy.lease_guard_ms
                  \/ /\ proof.fence.mechanism \in {"HardwarePower", "StorageReservation"}
                     /\ proof.fence.observed_at_ms <= now
                     /\ proof.lease.not_before_ms >= proof.fence.observed_at_ms
<1>1. ASSUME IInv, [Next]_vars, Grants, current.holder # None PROVE Excluded
  <2>1. /\ Verdict(SubjectChecks(proof, current, policy)) = Ok
        /\ Verdict(FenceChecks(proof, current, policy, now)) = Ok
        /\ Verdict(LeaseChecks(proof, current, policy, now)) = Ok
    BY <1>1, GrantsAccept, AcceptsSections
  <2>2. current'.holder # current.holder /\ proof.fence.epoch = current'.epoch
    BY <1>1, <2>1, GrantsAccept, SubjectOk DEF ComponentEpochs
  <2>3. /\ proof.fence.target = current.holder
        /\ proof.fence.mechanism \notin {"Bootstrap", "GracefulShutdown"}
        /\ proof.fence.observed_at_ms <= now
        /\ proof.fence.mechanism = "EffectGateExpired" => GuardElapsed(current, policy, now)
    BY <1>1, <2>1, FenceOk
  <2>4. proof.lease.not_before_ms >= SafeNotBefore(proof, current, policy)
    BY <2>1, LeaseOk
  <2>5. proof.fence.mechanism
           \in {"EffectGateExpired", "HardwarePower", "StorageReservation"}
    BY <1>1, <2>3, GrantsAccept DEF IInv, Carried, FenceMechanism
  <2>6. CASE proof.fence.mechanism = "EffectGateExpired"
    BY <2>2, <2>3, <2>4, <2>6 DEF SafeNotBefore, GuardElapsed, SafeTime
  <2>7. CASE proof.fence.mechanism # "EffectGateExpired"
    BY <2>2, <2>3, <2>4, <2>5, <2>7 DEF SafeNotBefore
  <2> QED
    BY <2>6, <2>7
<1>2. IInv /\ [Next]_vars => [Grants /\ current.holder # None => Excluded]_vars
  BY <1>1
<1> QED
  BY <1>2, Invariance, PTL DEF Spec, PriorHolderIsExcluded
=============================================================================
