------------------------------ MODULE Failover ------------------------------
(***************************************************************************)
(* The failover transaction of docs/ARCHITECTURE.md run by several nodes   *)
(* at once on top of quorumarc-core: evidence is assembled, validated,     *)
(* committed, staged, persisted, confirmed and activated in separate       *)
(* steps, with crashes, power fencing, clock skew and delayed or replayed  *)
(* evidence between any two of them.                                       *)
(*                                                                         *)
(* What the core calls (validate_promotion and the gate methods) is the    *)
(* code's; who calls it is not written yet and is modelled from how the    *)
(* code expects to be called: one serial authority record that a commit    *)
(* compares and swaps (proof.rs:506 takes it as `current`), a durable      *)
(* store per node that does not roll back and a fresh incarnation per      *)
(* process life (gate.rs:102, gate.rs:122), clocks that never run          *)
(* backwards and differ by at most Skew (proof.rs:12).  Votes are given to *)
(* whoever asks: two candidates may hold certificates for one epoch.       *)
(***************************************************************************)
EXTENDS PromotionProof, EffectGate
LOCAL INSTANCE SequencesExt
LOCAL INSTANCE Functions

CONSTANTS Nodes, Witness,
          Guard,            \* lease_guard_ms of the policy
          Lease,            \* length of every lease asked for
          MaxAge,           \* max_evidence_age_ms of the policy
          Skew,             \* bound on the difference of two clocks
          MaxTime,          \* bound on the clocks
          MaxEpoch,         \* bound on the epochs
          MaxRestarts,      \* bound on the restarts of all nodes together
          MaxEvidence       \* bound on the evidence kept, old or new

ASSUME FailoverAssumption ==
    /\ Witness \notin Nodes
    /\ None \notin Nodes \cup {Witness}
    /\ {Guard, Lease, MaxAge, Skew, MaxTime, MaxEpoch, MaxRestarts,
        MaxEvidence} \subseteq Nat
    /\ Skew <= Guard

VARIABLES clock,      \* what each node's TrustedClock answers
          meta,       \* the committed AuthorityState
          gate,       \* the gate of each live process, None while it is down
          store,      \* the durable GateRecoveryState of each node
          evidence,   \* the promotion evidence assembled so far, for whichever node
          cap,        \* the validated capability each process holds
          receipt,    \* the latest verified power fence
          activated,  \* history: the epoch of the latest activation
          effect      \* history: node and epoch of the latest effect let through

vars == <<clock, meta, gate, store, evidence, cap, receipt, activated, effect>>

-----------------------------------------------------------------------------
Workload == "workload"

ThePolicyHash == 5

Voters == Nodes \cup {Witness}

Policy ==
    [workload |-> Workload, policy_hash |-> ThePolicyHash,
     candidates |-> Nodes, voters |-> Voters,
     quorum_size |-> Cardinality(Voters) \div 2 + 1,
     required_witness |-> Witness, min_health_checks |-> 1,
     max_evidence_age_ms |-> MaxAge, max_lease_duration_ms |-> Lease,
     lease_guard_ms |-> Guard, allow_gate_expiry_fence |-> TRUE]

Up(n) == gate[n] # None

Init ==
    /\ clock = [n \in Nodes |-> 0]
    /\ meta = InitialAuthority
    /\ store = [n \in Nodes |->
                  [accepted_epoch |-> 0, incarnation |-> 1, last_observed_ms |-> 0]]
    /\ gate = [n \in Nodes |-> Recover(n, Workload, ThePolicyHash, store[n])]
    /\ evidence = {}
    /\ cap = [n \in Nodes |-> None]
    /\ receipt = None
    /\ activated = 0
    /\ effect = None

-----------------------------------------------------------------------------
(* Evidence is kept as what distinguishes one bundle from another; the proof it *)
(* stands for is complete and bound to its subject.                            *)
FullProof(ev) ==
    [workload |-> Workload, candidate |-> ev.candidate,
     candidate_incarnation |-> ev.incarnation, epoch |-> ev.epoch, policy_hash |-> ThePolicyHash,
     quorum |-> [epoch |-> ev.epoch, workload |-> Workload,
                 candidate |-> ev.candidate, candidate_incarnation |-> ev.incarnation,
                 policy_hash |-> ThePolicyHash, required_commit |-> 1, state_root |-> 1,
                 lease_not_before_ms |-> ev.at, lease_expires_at_ms |-> ev.at + Lease,
                 voters |-> SetToSeq(Voters)],
     fence  |-> [epoch |-> ev.fence.epoch, target |-> ev.fence.target, verifier |-> Witness,
                 mechanism |-> ev.fence.mechanism, observed_at_ms |-> ev.fence.at],
     state  |-> [required_commit |-> 1, durable_commit |-> 1, state_root |-> 1,
                 observed_at_ms |-> ev.at],
     health |-> [workload |-> Workload, node |-> ev.candidate,
                 incarnation |-> ev.incarnation, epoch |-> ev.epoch,
                 healthy |-> TRUE, passed_checks |-> 1,
                 observed_at_ms |-> ev.at],
     lease  |-> [workload |-> Workload, holder |-> ev.candidate,
                 incarnation |-> ev.incarnation, epoch |-> ev.epoch, not_before_ms |-> ev.at,
                 expires_at_ms |-> ev.at + Lease]]

(* What can be claimed without a receipt: that this is the first promotion, or *)
(* that the prior holder's lease ran out, whether it did or not.               *)
Claim(n) ==
    [epoch |-> meta.epoch + 1, target |-> meta.holder, at |-> clock[n],
     mechanism |-> IF meta.holder = None THEN "Bootstrap" ELSE "EffectGateExpired"]

(* Evidence for the next epoch and the present process life, with a claim or   *)
(* the latest verified power fence, whomever it fenced and however old; some of *)
(* the earlier evidence may get lost.                                          *)
Assemble(n) ==
    /\ Up(n)
    /\ meta.epoch < MaxEpoch
    /\ \E fence \in {Claim(n), receipt} \ {None}, kept \in SUBSET evidence :
          /\ Cardinality(kept) < MaxEvidence
          /\ evidence' = kept \cup
                {[candidate |-> n, incarnation |-> gate[n].incarnation,
                  epoch |-> meta.epoch + 1, at |-> clock[n], fence |-> fence]}
    /\ UNCHANGED <<clock, meta, gate, store, cap, receipt, activated, effect>>

(* validate_promotion against the authority record as it is now; evidence stays *)
(* and may be presented again, also by a later process life.                   *)
Validate(n) ==
    /\ Up(n)
    /\ \E ev \in evidence :
       LET proof == FullProof(ev)
       IN /\ ev.candidate = n
          /\ Accepts(proof, meta, Policy, clock[n])
          /\ cap' = [cap EXCEPT ![n] = [authorization |-> ValidatedPromotion(proof),
                                        base |-> meta.epoch, committed |-> FALSE]]
    /\ UNCHANGED <<clock, meta, gate, store, evidence, receipt, activated, effect>>

(* Plausible slip: a commit does not compare what it swaps. *)
BlindCommit(base) == TRUE

AuthorityUnchanged(base) == meta.epoch = base

(* The metadata commit, possible while the record is the one validated against. *)
Commit(n) ==
    /\ Up(n)
    /\ cap[n] # None
    /\ ~cap[n].committed
    /\ IF AuthorityUnchanged(cap[n].base)
       THEN /\ meta' = [epoch |-> cap[n].authorization.epoch, holder |-> n,
                        lease_expires_at_ms |-> cap[n].authorization.expires_at_ms]
            /\ cap' = [cap EXCEPT ![n].committed = TRUE]
       ELSE cap' = [cap EXCEPT ![n] = None] /\ UNCHANGED meta
    /\ UNCHANGED <<clock, gate, store, evidence, receipt, activated, effect>>

-----------------------------------------------------------------------------
(* stage takes the capability by value: it is gone whatever the answer is. *)
Stage(n) ==
    /\ Up(n)
    /\ cap[n] # None
    /\ cap[n].committed
    /\ gate' = [gate EXCEPT ![n] = StageGate(@, cap[n].authorization, clock[n])]
    /\ cap' = [cap EXCEPT ![n] = None]
    /\ UNCHANGED <<clock, meta, store, evidence, receipt, activated, effect>>

(* The adapter makes the record of the staged authorization durable. *)
Persist(n) ==
    /\ Up(n)
    /\ gate[n].state.tag = "Staged"
    /\ store' = [store EXCEPT
          ![n].accepted_epoch = gate[n].state.authorization.epoch,
          ![n].last_observed_ms = gate[n].last_observed_ms]
    /\ UNCHANGED <<clock, meta, gate, evidence, cap, receipt, activated, effect>>

(* confirm_persisted with the record that is durable now. *)
Confirm(n) ==
    /\ Up(n)
    /\ gate[n].state.tag = "Staged"
    /\ LET record == [node |-> n, workload |-> Workload, policy_hash |-> ThePolicyHash,
                      accepted_epoch |-> store[n].accepted_epoch,
                      incarnation |-> store[n].incarnation,
                      last_observed_ms |-> store[n].last_observed_ms]
       IN gate' = [gate EXCEPT ![n] = ConfirmGate(@, record)]
    /\ UNCHANGED <<clock, meta, store, evidence, cap, receipt, activated, effect>>

Activate(n) ==
    /\ Up(n)
    /\ gate[n].state.tag = "Prepared"
    /\ gate' = [gate EXCEPT ![n] = ActivateGate(@, clock[n])]
    /\ activated' = IF ActivateVerdict(gate[n], clock[n]) = Ok
                    THEN gate[n].state.authorization.epoch ELSE activated
    /\ UNCHANGED <<clock, meta, store, evidence, cap, receipt, effect>>

(* The driver asks only an open gate; tick leaves it as a refused effect does. *)
CheckEffect(n, e) ==
    /\ Up(n)
    /\ gate[n].state.tag = "Open"
    /\ gate' = [gate EXCEPT ![n] = CheckEffectGate(@, clock[n])]
    /\ effect' = IF CheckEffectVerdict(gate[n], n, e, clock[n]) = Ok
                 THEN [node |-> n, epoch |-> e] ELSE effect
    /\ UNCHANGED <<clock, meta, store, evidence, cap, receipt, activated>>

-----------------------------------------------------------------------------
AdvanceClock(n) ==
    /\ clock[n] < MaxTime
    /\ \A m \in Nodes : clock[n] + 1 <= clock[m] + Skew
    /\ clock' = [clock EXCEPT ![n] = @ + 1]
    /\ UNCHANGED <<meta, gate, store, evidence, cap, receipt, activated, effect>>

(* A process and the capability it holds are lost; evidence is not. *)
Down(n) ==
    /\ gate' = [gate EXCEPT ![n] = None]
    /\ cap' = [cap EXCEPT ![n] = None]

Crash(n) ==
    /\ Up(n)
    /\ Down(n)
    /\ UNCHANGED <<clock, meta, store, evidence, receipt, activated, effect>>

Restarts == FoldFunction(+, 0, [n \in Nodes |-> store[n].incarnation - 1])

Restart(n) ==
    /\ ~Up(n)
    /\ Restarts < MaxRestarts
    /\ store' = [store EXCEPT ![n].incarnation = @ + 1]
    /\ gate' = [gate EXCEPT ![n] = Recover(n, Workload, ThePolicyHash, store'[n])]
    /\ UNCHANGED <<clock, meta, evidence, cap, receipt, activated, effect>>

(* The witness cuts the power of n, sees it off, and attests that for the epoch *)
(* after the one it finds committed.  Power may come back at once.             *)
FencePower(n) ==
    /\ Down(n)
    /\ receipt' = [epoch |-> meta.epoch + 1, target |-> n, at |-> clock[n],
                   mechanism |-> "HardwarePower"]
    /\ UNCHANGED <<clock, meta, store, evidence, activated, effect>>

NodeAction(n) ==
    \/ Assemble(n) \/ Validate(n) \/ Commit(n)
    \/ Stage(n) \/ Persist(n) \/ Confirm(n) \/ Activate(n)
    \/ \E e \in 1..MaxEpoch : CheckEffect(n, e)
    \/ AdvanceClock(n) \/ Crash(n) \/ Restart(n) \/ FencePower(n)

Next == \E n \in Nodes : NodeAction(n)

Spec == Init /\ [][Next]_vars

-----------------------------------------------------------------------------
(* The nodes whose next effect would be let through. *)
Writers ==
    {n \in Nodes : /\ Up(n)
                   /\ gate[n].state.tag = "Open"
                   /\ CheckEffectVerdict(gate[n], n, gate[n].state.epoch, clock[n]) = Ok}

Authorizations ==
    [workload : {Workload}, candidate : Nodes, candidate_incarnation : Nat, epoch : Nat,
     policy_hash : {ThePolicyHash}, not_before_ms : Nat, expires_at_ms : Nat,
     durable_commit : {1}, state_root : {1},
     fence_class : {"Bootstrap", "HardwarePower", "EffectGateExpiry"}]

GateStates ==
    [tag : {"Closed"}, last_epoch : Nat]
        \cup [tag : {"Staged", "Prepared"}, authorization : Authorizations]
        \cup [tag : {"Open"}, holder : Nodes, epoch : Nat, expires_at_ms : Nat]
        \cup [tag : {"SelfFenced"}, last_epoch : Nat, reason : SelfFenceReason]

Gates(n) == [node : {n}, workload : {Workload}, policy_hash : {ThePolicyHash},
             incarnation : Nat, last_observed_ms : Nat, state : GateStates]

ASSUME NoGateIsNone == \A n \in Nodes : None \notin Gates(n)

Fences == [epoch : Nat, target : Nodes \cup {None}, at : Nat,
           mechanism : {"Bootstrap", "HardwarePower", "EffectGateExpired"}]

Bundles == [candidate : Nodes, incarnation : Nat, epoch : Nat, at : Nat, fence : Fences]

Capabilities == [authorization : Authorizations, base : Nat, committed : BOOLEAN]

Records == [accepted_epoch : Nat, incarnation : Nat, last_observed_ms : Nat]

(* Shapes; no two clocks are further apart than the skew, and a holder has a    *)
(* lease.                                                                      *)
TypeOK ==
    /\ clock \in [Nodes -> 0..MaxTime]
    /\ \A n, m \in Nodes : clock[n] <= clock[m] + Skew
    /\ meta \in [epoch : Nat, holder : Nodes \cup {None},
                 lease_expires_at_ms : Nat \cup {None}]
    /\ meta.holder # None => meta.lease_expires_at_ms \in Nat
    /\ store \in [Nodes -> Records]
    /\ \A n \in Nodes : gate[n] \in Gates(n) \cup {None}
    /\ DOMAIN gate = Nodes
    /\ evidence \subseteq Bundles
    /\ cap \in [Nodes -> Capabilities \cup {None}]
    /\ receipt \in Fences \cup {None}
    /\ activated \in Nat
    /\ effect \in [node : Nodes, epoch : Nat] \cup {None}

(* What S1 rests on: a gate that still lets effects through is the one the      *)
(* authority record names, with that epoch; a newer commit, by another node's   *)
(* clock, finds it expired or its node powered off.                             *)
EffectiveIsCurrent ==
    \A n \in Writers : meta.holder = n /\ meta.epoch = gate[n].state.epoch

(* README.md:38 "At most one node may hold externally effective authority",     *)
(* across clocks that differ, crashes, fences and stale or replayed evidence.  *)
SingleWriter == \A n, m \in Writers : n = m

(* README.md:40 "Lower-epoch commands and side effects must be rejected at every *)
(* boundary": effects come under epochs that never fall, whichever nodes produce *)
(* them, and all those of one epoch from one node.                              *)
EffectsNeverRegress ==
    [][effect # None => \/ effect'.epoch > effect.epoch
                        \/ effect' = effect]_vars

(* The race of ARCHITECTURE.md:60, "time can pass after it returns": an effect   *)
(* that check_effect let through may reach its target at any later time.  Even   *)
(* then it is told apart by its epoch: once authority has moved to another node  *)
(* the committed epoch is above it, so a target that compares epochs can refuse. *)
LateEffectIsStale ==
    effect # None =>
        \/ effect.epoch < meta.epoch
        \/ effect.epoch = meta.epoch /\ effect.node = meta.holder

(* The composition keeps the abstract promise: it opens one gate at a time,     *)
(* under rising epochs, and that gate stops letting effects through before the  *)
(* next one opens.                                                              *)
Authority == INSTANCE WriterAuthority WITH
                term    <- activated,
                writers <- {<<n, gate[n].state.epoch>> : n \in Writers}

ImplementsWriterAuthority == Authority!Spec
=============================================================================
