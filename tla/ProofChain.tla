----------------------------- MODULE ProofChain -----------------------------
(***************************************************************************)
(* A chain of authority kept by validate_promotion alone: bundles are      *)
(* certified, altered on their way, presented as often as anyone likes,    *)
(* and every accepted one becomes the AuthorityState the next is judged    *)
(* against.  This is what the validator promises to whoever commits its    *)
(* results, for every policy SafetyPolicy::new lets through.               *)
(***************************************************************************)
EXTENDS PromotionProof

CONSTANTS RawPolicies,     \* the arguments tried with SafetyPolicy::new
          Strangers,       \* nodes that are in no policy
          VoteLists,       \* the votes a certificate may carry
          LeaseLength,     \* length of the leases asked for
          MaxTime,         \* bound on the evaluation time
          MaxEpoch,        \* bound on the epochs
          MaxAlterations   \* bound on the alterations of one bundle

ASSUME ChainAssumption == MaxTime + LeaseLength <= MaxU64

(* Voters are a BTreeSet and the quorum size a usize. *)
ASSUME PolicyAssumption ==
    \A pol \in RawPolicies : IsFiniteSet(pol.voters) /\ pol.quorum_size \in Nat

VARIABLES policy,       \* the pinned SafetyPolicy
          now,          \* now_ms of the next evaluation
          current,      \* the AuthorityState
          voted,        \* the bundle the voters certified
          proof,        \* the bundle as it will be presented
          alterations,  \* how often it was altered
          accepted      \* history: who voted for the last bundle accepted

vars == <<policy, now, current, voted, proof, alterations, accepted>>

-----------------------------------------------------------------------------
(* A bundle that says of a candidate what a policy wants to hear. *)
Bundle(c, e, mechanism, votes) ==
    [workload |-> policy.workload, candidate |-> c, candidate_incarnation |-> 1,
     epoch |-> e, policy_hash |-> policy.policy_hash,
     quorum |-> [epoch |-> e, workload |-> policy.workload, candidate |-> c,
                 candidate_incarnation |-> 1, policy_hash |-> policy.policy_hash,
                 required_commit |-> 1, state_root |-> 1,
                 lease_not_before_ms |-> now, lease_expires_at_ms |-> now + LeaseLength,
                 voters |-> votes],
     fence  |-> [epoch |-> e, target |-> current.holder, verifier |-> votes[Len(votes)],
                 mechanism |-> mechanism, observed_at_ms |-> now],
     state  |-> [required_commit |-> 1, durable_commit |-> 1, state_root |-> 1,
                 observed_at_ms |-> now],
     health |-> [workload |-> policy.workload, node |-> c, incarnation |-> 1, epoch |-> e,
                 healthy |-> TRUE, passed_checks |-> policy.min_health_checks,
                 observed_at_ms |-> now],
     lease  |-> [workload |-> policy.workload, holder |-> c, incarnation |-> 1, epoch |-> e,
                 not_before_ms |-> now, expires_at_ms |-> now + LeaseLength]]

(* One field changed after the votes were cast. *)
Altered(p) ==
    LET nodes == policy.voters \cup Strangers
        times == 0..(MaxTime + LeaseLength)
    IN {[p EXCEPT !.candidate = n] : n \in nodes}
         \cup {[p EXCEPT !.candidate_incarnation = 2], [p EXCEPT !.epoch = @ + 1]}
         \cup {[p EXCEPT !.fence.epoch = e] : e \in 0..MaxEpoch}
         \cup {[p EXCEPT !.fence.target = n] : n \in nodes \cup {None}}
         \cup {[p EXCEPT !.fence.verifier = n] : n \in nodes}
         \cup {[p EXCEPT !.fence.mechanism = m] : m \in FenceMechanism}
         \cup {[p EXCEPT !.fence.observed_at_ms = t] : t \in times}
         \cup {[p EXCEPT !.state.required_commit = 0], [p EXCEPT !.state.durable_commit = 0],
               [p EXCEPT !.state.durable_commit = 2], [p EXCEPT !.state.state_root = ZeroRoot],
               [p EXCEPT !.state.state_root = 2]}
         \cup {[p EXCEPT !.state.observed_at_ms = t] : t \in times}
         \cup {[p EXCEPT !.health.node = n] : n \in nodes}
         \cup {[p EXCEPT !.health.incarnation = 2], [p EXCEPT !.health.healthy = FALSE],
               [p EXCEPT !.health.passed_checks = 0]}
         \cup {[p EXCEPT !.health.observed_at_ms = t] : t \in times}
         \cup {[p EXCEPT !.lease.holder = n] : n \in nodes}
         \cup {[p EXCEPT !.lease.not_before_ms = t] : t \in times}
         \cup {[p EXCEPT !.lease.expires_at_ms = t] : t \in times}

Init ==
    /\ policy \in {pol \in RawPolicies : ConstructedPolicy(pol)}
    /\ now = 0
    /\ current = InitialAuthority
    /\ voted = None
    /\ proof = None
    /\ alterations = 0
    /\ accepted = {}

(* A certificate is issued for any candidate and epoch, the present holder's and  *)
(* spent ones included, on any claim of exclusion.                                *)
Certify(c, e, mechanism, votes) ==
    /\ proof = None
    /\ mechanism = "Bootstrap" <=> current.holder = None
    /\ voted' = Bundle(c, e, mechanism, votes)
    /\ proof' = voted'
    /\ alterations' = 0
    /\ UNCHANGED <<policy, now, current, accepted>>

(* A bundle is given up for the next one. *)
Discard ==
    /\ proof # None
    /\ voted' = None
    /\ proof' = None
    /\ alterations' = 0
    /\ UNCHANGED <<policy, now, current, accepted>>

Alter ==
    /\ proof # None
    /\ alterations < MaxAlterations
    /\ proof' \in Altered(proof)
    /\ alterations' = alterations + 1
    /\ UNCHANGED <<policy, now, current, voted, accepted>>

(* An accepted bundle is committed at once; a refused one changes nothing. *)
Present ==
    /\ proof # None
    /\ Accepts(proof, current, policy, now)
    /\ current' = LET granted == ValidatedPromotion(proof)
                  IN [epoch |-> granted.epoch, holder |-> granted.candidate,
                      lease_expires_at_ms |-> granted.expires_at_ms]
    /\ accepted' = VoterSet(proof)
    /\ UNCHANGED <<policy, now, voted, proof, alterations>>

Wait ==
    /\ now < MaxTime
    /\ now' = now + 1
    /\ UNCHANGED <<policy, current, voted, proof, alterations, accepted>>

Next ==
    \/ \E c \in policy.candidates, e \in 1..MaxEpoch, votes \in VoteLists,
          mechanism \in {"Bootstrap", "EffectGateExpired", "HardwarePower"} :
           Certify(c, e, mechanism, votes)
    \/ Discard
    \/ Alter
    \/ Present
    \/ Wait

Spec == Init /\ [][Next]_vars

-----------------------------------------------------------------------------
Grants == current' # current

(* What a capability lets its holder do, beside how it was fenced for. *)
Promise(p) ==
    LET granted == ValidatedPromotion(p)
    IN [f \in DOMAIN granted \ {"durable_commit", "fence_class"} |-> granted[f]]

(* ARCHITECTURE.md:47 "A candidate cannot lower the required commit or lengthen a *)
(* lease after votes were issued": whatever was altered outside the certificate, *)
(* an accepted bundle grants what was voted for, to whom it was voted, and never *)
(* on less durable state than the votes asked for.                               *)
VotesPinTheGrant ==
    [][Grants => /\ Promise(proof) = Promise(voted)
                 /\ ValidatedPromotion(proof).durable_commit >= voted.state.required_commit]_vars

(* SAFETY.md S4: authority passes from a holder only on a receipt about that     *)
(* holder and this epoch with a fence stronger than a shutdown, or past its      *)
(* lease and the guard (a sum no u64 overflow may shorten); and the new lease    *)
(* starts no sooner than that.                                                   *)
PriorHolderIsExcluded ==
    [][Grants /\ current.holder # None =>
          /\ current'.holder # current.holder
          /\ proof.fence.target = current.holder
          /\ proof.fence.epoch = current'.epoch
          /\ \/ /\ proof.fence.mechanism = "EffectGateExpired"
                /\ now >= current.lease_expires_at_ms + policy.lease_guard_ms
                /\ proof.lease.not_before_ms
                       >= current.lease_expires_at_ms + policy.lease_guard_ms
             \/ /\ proof.fence.mechanism \in {"HardwarePower", "StorageReservation"}
                /\ proof.fence.observed_at_ms <= now
                /\ proof.lease.not_before_ms >= proof.fence.observed_at_ms]_vars

(* promotion-proof-v0.1.md:38 "intersecting configured quorum": the certificates *)
(* of two successive grants have a configured voter in common, under every      *)
(* policy that can be constructed.                                             *)
SuccessiveQuorumsIntersect ==
    [][Grants /\ accepted # {} =>
          accepted \cap VoterSet(proof) \cap policy.voters # {}]_vars

(* An accepted bundle is spent: presented again, altered or not, it grants       *)
(* nothing unless its votes were for a later epoch, so epochs rise strictly.     *)
EpochsRise == [][Grants => current'.epoch > current.epoch /\ current'.epoch = voted.epoch]_vars
=============================================================================
