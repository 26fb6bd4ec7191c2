--------------------------- MODULE FailoverProofs ---------------------------
(***************************************************************************)
(* Theorems about the failover transaction, for any number of nodes, any   *)
(* lease and guard, any bounds, and clocks apart by no more than the       *)
(* guard.                                                                  *)
(*                                                                         *)
(* Single writer is not inductive.  The invariant follows every authority  *)
(* from the metadata commit on, as a capability, in a staged or prepared   *)
(* gate, and in an open one: it is the one of record, or of an earlier     *)
(* epoch and over by its node's own clock.  What makes a commit preserve   *)
(* that is what the validator tested earlier, and that it still holds: the *)
(* holder of record keeps no authority, or its lease is over by all        *)
(* clocks.                                                                 *)
(***************************************************************************)
EXTENDS Failover, PromotionProofProofs, EffectGateProofs

(* The authority a capability or a gate stands for. *)
Grant(auth, open) ==
    [holder |-> auth.candidate, epoch |-> auth.epoch,
     expires_at_ms |-> auth.expires_at_ms, open |-> open]

Pending(c) == IF c # None /\ c.committed THEN {Grant(c.authorization, FALSE)} ELSE {}

Carried(g) ==
    IF g = None THEN {}
    ELSE CASE g.state.tag \in {"Staged", "Prepared"} -> {Grant(g.state.authorization, FALSE)}
           [] g.state.tag = "Open" ->
                {[holder |-> g.state.holder, epoch |-> g.state.epoch,
                  expires_at_ms |-> g.state.expires_at_ms, open |-> TRUE]}
           [] OTHER -> {}

Held(n) == Pending(cap[n]) \cup Carried(gate[n])

-----------------------------------------------------------------------------
(* No gate and no store has seen a time its clock has not reached. *)
ClocksSeen ==
    \A n \in Nodes : /\ store[n].last_observed_ms <= clock[n]
                     /\ gate[n] # None => gate[n].last_observed_ms <= clock[n]

(* Every authority is the one of record, or of an earlier epoch and over. *)
HeldStands ==
    \A n \in Nodes : \A a \in Held(n) :
        /\ a.holder = n
        /\ \/ /\ meta.holder = n
              /\ a.epoch = meta.epoch
              /\ a.expires_at_ms = meta.lease_expires_at_ms
           \/ a.epoch < meta.epoch /\ a.expires_at_ms <= clock[n]

(* The authority of record opens one gate, once. *)
OpenedOnce ==
    /\ activated <= meta.epoch
    /\ \A n \in Nodes :
          /\ \A a \in Held(n) : ~a.open /\ a.epoch = meta.epoch => activated < meta.epoch
          /\ \A a \in Pending(cap[n]), b \in Carried(gate[n]) : b.epoch < a.epoch

(* The prior holder cannot write any more, by any clock. *)
HolderIsExcluded ==
    \A h \in Nodes : meta.holder = h =>
        \/ Held(h) = {}
        \/ \A n \in Nodes : meta.lease_expires_at_ms <= clock[n]

(* A capability that may still be committed was validated against the record   *)
(* as it is, and what the validator saw of the prior holder still holds.       *)
CapExcludes(n, c) ==
    c # None =>
        /\ c.authorization.candidate = n
        /\ c.base < c.authorization.epoch
        /\ c.base <= meta.epoch
        /\ ~c.committed /\ c.base = meta.epoch
              => meta.holder # n /\ HolderIsExcluded

CapsExclude == \A n \in Nodes : CapExcludes(n, cap[n])

(* A power fence for the next epoch left its target without authority. *)
FenceExcludes(f) ==
    /\ f.epoch <= meta.epoch + 1
    /\ f.mechanism = "HardwarePower" /\ f.epoch = meta.epoch + 1
          => \A h \in Nodes : f.target = h /\ meta.holder = h => Held(h) = {}

FencesExclude ==
    /\ receipt # None => FenceExcludes(receipt)
    /\ \A ev \in evidence : ev.epoch <= meta.epoch + 1 /\ FenceExcludes(ev.fence)

IInv ==
    /\ TypeOK /\ ClocksSeen /\ HeldStands /\ OpenedOnce
    /\ CapsExclude /\ FencesExclude /\ LateEffectIsStale

USE FailoverAssumption, MaxU64Assumption

-----------------------------------------------------------------------------
(* What a gate carries depends on its state alone. *)
LEMMA CarriedCases ==
    ASSUME NEW n \in Nodes, NEW g \in Gates(n)
    PROVE  /\ g.state.tag \in {"Staged", "Prepared"}
                  => Carried(g) = {Grant(g.state.authorization, FALSE)}
           /\ g.state.tag = "Open"
                  => Carried(g) = {[holder |-> g.state.holder, epoch |-> g.state.epoch,
                                    expires_at_ms |-> g.state.expires_at_ms, open |-> TRUE]}
           /\ g.state.tag \in {"Closed", "SelfFenced"} => Carried(g) = {}
           /\ \A h \in Gates(n) : h.state = g.state => Carried(h) = Carried(g)
<1>1. g # None
  BY NoGateIsNone
<1>2. ASSUME NEW h \in Gates(n), h.state = g.state PROVE Carried(h) = Carried(g)
  <2>1. h # None
    BY NoGateIsNone
  <2> QED
    BY <1>1, <1>2, <2>1 DEF Carried
<1> QED
  BY <1>1, <1>2 DEF Carried

(* The gate's methods neither forge an authority nor look past the clock. *)
Keeps(n, g, h, now) ==
    /\ h \in Gates(n)
    /\ Carried(h) \subseteq Carried(g)
    /\ g.last_observed_ms <= now => h.last_observed_ms <= now

LEMMA SelfFenceKeeps ==
    ASSUME NEW n \in Nodes, NEW g \in Gates(n), NEW now \in Nat, NEW reason \in SelfFenceReason
    PROVE  Keeps(n, g, SelfFence(g, reason), now)
<1>1. LastEpoch(g.state) \in Nat
  BY DEF Gates, GateStates, Authorizations, LastEpoch
<1>2. SelfFenced(LastEpoch(g.state), reason) \in GateStates
  BY <1>1 DEF SelfFenced, GateStates
<1>3. SelfFence(g, reason) \in Gates(n)
  BY <1>2 DEF SelfFence, Gates
<1>4. SelfFence(g, reason).state.tag = "SelfFenced"
  BY DEF SelfFence, SelfFenced, Gates
<1>5. SelfFence(g, reason).last_observed_ms = g.last_observed_ms
  BY DEF SelfFence, Gates
<1> QED
  BY <1>3, <1>4, <1>5, CarriedCases DEF Keeps

LEMMA ObserveKeeps ==
    ASSUME NEW n \in Nodes, NEW g \in Gates(n), NEW now \in Nat
    PROVE  /\ Keeps(n, g, Observe(g, now), now)
           /\ ~RolledBack(g, now) => Observe(g, now) = [g EXCEPT !.last_observed_ms = now]
<1>1. CASE RolledBack(g, now)
  <2>1. "SafetyFault" \in SelfFenceReason
    BY DEF SelfFenceReason
  <2> QED
    BY <1>1, <2>1, SelfFenceKeeps DEF Observe
<1>2. CASE ~RolledBack(g, now)
  <2>1. Observe(g, now) = [g EXCEPT !.last_observed_ms = now]
    BY <1>2 DEF Observe
  <2>2. /\ Observe(g, now) \in Gates(n)
        /\ Observe(g, now).state = g.state
        /\ Observe(g, now).last_observed_ms = now
    BY <2>1 DEF Gates
  <2>3. Carried(Observe(g, now)) = Carried(g)
    BY <2>2, CarriedCases
  <2> QED
    BY <1>2, <2>1, <2>2, <2>3 DEF Keeps
<1> QED
  BY <1>1, <1>2

LEMMA TickKeeps ==
    ASSUME NEW n \in Nodes, NEW g \in Gates(n), NEW now \in Nat
    PROVE  Keeps(n, g, TickGate(g, now), now)
<1> DEFINE seen == Observe(g, now)
<1>1. Keeps(n, g, seen, now) /\ seen \in Gates(n)
  BY ObserveKeeps DEF Keeps
<1>2. "LeaseExpired" \in SelfFenceReason
  BY DEF SelfFenceReason
<1>3. Keeps(n, seen, SelfFence(seen, "LeaseExpired"), now)
  BY <1>1, <1>2, SelfFenceKeeps
<1>4. Keeps(n, g, SelfFence(seen, "LeaseExpired"), now)
  BY <1>1, <1>3 DEF Keeps
<1> QED
  BY <1>1, <1>4 DEF TickGate

(* stage takes over the authority of the capability, or keeps what there was. *)
LEMMA StageKeeps ==
    ASSUME NEW n \in Nodes, NEW g \in Gates(n), NEW auth \in Authorizations, NEW now \in Nat
    PROVE  /\ StageGate(g, auth, now) \in Gates(n)
           /\ Carried(StageGate(g, auth, now)) \subseteq Carried(g) \cup {Grant(auth, FALSE)}
           /\ g.last_observed_ms <= now => StageGate(g, auth, now).last_observed_ms <= now
<1> DEFINE h == StageGate(g, auth, now)
<1>1. CASE h = Observe(g, now)
  <2>1. Keeps(n, g, h, now)
    BY <1>1, ObserveKeeps
  <2> QED
    BY <2>1 DEF Keeps
<1>2. CASE h = [Observe(g, now) EXCEPT !.state = Staged(auth)]
  <2>1. Observe(g, now) \in Gates(n)
        /\ (g.last_observed_ms <= now => Observe(g, now).last_observed_ms <= now)
    BY ObserveKeeps DEF Keeps
  <2>2. Staged(auth) \in GateStates
    BY DEF Staged, GateStates
  <2>3. h \in Gates(n) /\ h.state = Staged(auth)
        /\ h.last_observed_ms = Observe(g, now).last_observed_ms
    BY <1>2, <2>1, <2>2 DEF Gates
  <2>4. h.state.tag = "Staged" /\ h.state.authorization = auth
    BY <2>3 DEF Staged
  <2>5. Carried(h) = {Grant(auth, FALSE)}
    BY <2>3, <2>4, CarriedCases
  <2> QED
    BY <2>1, <2>3, <2>5
<1> QED
  BY <1>1, <1>2 DEF StageGate

LEMMA ConfirmKeeps ==
    ASSUME NEW n \in Nodes, NEW g \in Gates(n), NEW record, NEW now \in Nat
    PROVE  Keeps(n, g, ConfirmGate(g, record), now)
<1> DEFINE h == ConfirmGate(g, record)
<1>1. CASE ConfirmVerdict(g, record) # Ok
  BY <1>1 DEF ConfirmGate, Keeps
<1>2. CASE ConfirmVerdict(g, record) = Ok
  <2>1. g.state.tag = "Staged"
    BY <1>2, ConfirmOk
  <2>2. g.state.authorization \in Authorizations
    BY <2>1 DEF Gates, GateStates
  <2>3. Prepared(g.state.authorization) \in GateStates
    BY <2>2 DEF Prepared, GateStates
  <2>4. /\ h \in Gates(n)
        /\ h.state = Prepared(g.state.authorization)
        /\ h.last_observed_ms = g.last_observed_ms
    BY <1>2, <2>3 DEF ConfirmGate, Gates
  <2>5. h.state.tag = "Prepared" /\ h.state.authorization = g.state.authorization
    BY <2>4 DEF Prepared
  <2>6. Carried(h) = Carried(g)
    BY <2>1, <2>4, <2>5, CarriedCases
  <2> QED
    BY <2>4, <2>6 DEF Keeps
<1> QED
  BY <1>1, <1>2

(* An activation that succeeds opens the gate for an authority it carries, at  *)
(* a time its lease covers; one that does not keeps what there was.            *)
LEMMA ActivateKeeps ==
    ASSUME NEW n \in Nodes, NEW g \in Gates(n), NEW now \in Nat
    PROVE  /\ ActivateVerdict(g, now) # Ok => Keeps(n, g, ActivateGate(g, now), now)
           /\ ActivateVerdict(g, now) = Ok =>
                 /\ ActivateGate(g, now) \in Gates(n)
                 /\ ActivateGate(g, now).last_observed_ms = now
                 /\ g.state.authorization \in Authorizations
                 /\ Carried(g) = {Grant(g.state.authorization, FALSE)}
                 /\ Carried(ActivateGate(g, now)) = {Grant(g.state.authorization, TRUE)}
                 /\ now < g.state.authorization.expires_at_ms
<1> DEFINE h == ActivateGate(g, now)
           seen == Observe(g, now)
<1>1. Keeps(n, g, seen, now) /\ seen \in Gates(n)
  BY ObserveKeeps DEF Keeps
<1>2. ASSUME ActivateVerdict(g, now) # Ok PROVE Keeps(n, g, h, now)
  <2>1. "LeaseExpired" \in SelfFenceReason
    BY DEF SelfFenceReason
  <2>2. Keeps(n, g, SelfFence(seen, "LeaseExpired"), now)
    BY <1>1, <2>1, SelfFenceKeeps DEF Keeps
  <2>3. h = seen \/ h = SelfFence(seen, "LeaseExpired")
    BY <1>2 DEF ActivateGate
  <2> QED
    BY <1>1, <2>2, <2>3
<1>3. ASSUME ActivateVerdict(g, now) = Ok
      PROVE  /\ h \in Gates(n)
             /\ h.last_observed_ms = now
             /\ g.state.authorization \in Authorizations
             /\ Carried(g) = {Grant(g.state.authorization, FALSE)}
             /\ Carried(h) = {Grant(g.state.authorization, TRUE)}
             /\ now < g.state.authorization.expires_at_ms
  <2> DEFINE auth == g.state.authorization
  <2>1. /\ ~RolledBack(g, now)
        /\ g.state.tag = "Prepared"
        /\ now < auth.expires_at_ms
    BY <1>3, ActivateOk
  <2>2. auth \in Authorizations
    BY <2>1 DEF Gates, GateStates
  <2>3. OpenFor(auth) \in GateStates
    BY <2>2 DEF OpenFor, Open, GateStates, Authorizations
  <2>4. h = [[g EXCEPT !.last_observed_ms = now] EXCEPT !.state = OpenFor(auth)]
    <3>1. Observe(g, now) = [g EXCEPT !.last_observed_ms = now]
      BY <2>1, ObserveKeeps
    <3>2. h = [Observe(g, now) EXCEPT !.state = OpenFor(auth)]
      BY <1>3 DEF ActivateGate, Ok
    <3> QED
      BY <3>1, <3>2
  <2>5. h \in Gates(n) /\ h.state = OpenFor(auth) /\ h.last_observed_ms = now
    BY <2>3, <2>4 DEF Gates
  <2>6. /\ h.state.tag = "Open" /\ h.state.holder = auth.candidate
        /\ h.state.epoch = auth.epoch /\ h.state.expires_at_ms = auth.expires_at_ms
    BY <2>5 DEF OpenFor, Open
  <2>7. Carried(g) = {Grant(auth, FALSE)}
    BY <2>1, CarriedCases
  <2>8. Carried(h) = {Grant(auth, TRUE)}
    BY <2>5, <2>6, CarriedCases DEF Grant
  <2> QED
    BY <2>1, <2>2, <2>5, <2>7, <2>8
<1> QED
  BY <1>2, <1>3

(* A recovered gate carries nothing. *)
LEMMA RecoverCarriesNothing ==
    ASSUME NEW n \in Nodes,
           NEW s \in Records
    PROVE  /\ Recover(n, Workload, ThePolicyHash, s) \in Gates(n)
           /\ Carried(Recover(n, Workload, ThePolicyHash, s)) = {}
           /\ Recover(n, Workload, ThePolicyHash, s).last_observed_ms = s.last_observed_ms
<1>1. Closed(s.accepted_epoch) \in GateStates
  BY DEF Closed, GateStates, Records
<1> DEFINE g == Recover(n, Workload, ThePolicyHash, s)
<1>2. g \in Gates(n) /\ g.state.tag = "Closed" /\ g.last_observed_ms = s.last_observed_ms
  BY <1>1 DEF Recover, Gates, Closed, Records
<1> QED
  BY <1>2, CarriedCases

-----------------------------------------------------------------------------
Grants == [holder : Nodes, epoch : Nat, expires_at_ms : Nat, open : BOOLEAN]

LEMMA CarriedTypes ==
    ASSUME NEW n \in Nodes, NEW g \in Gates(n)
    PROVE  Carried(g) \subseteq Grants
<1>1. g.state \in GateStates
  BY DEF Gates
<1>2. CASE g.state.tag \in {"Staged", "Prepared"}
  <2>1. g.state.authorization \in Authorizations
    BY <1>1, <1>2 DEF GateStates
  <2>2. Grant(g.state.authorization, FALSE) \in Grants
    BY <2>1 DEF Grant, Grants, Authorizations
  <2>3. Carried(g) = {Grant(g.state.authorization, FALSE)}
    BY <1>2, CarriedCases
  <2> QED
    BY <2>2, <2>3
<1>3. CASE g.state.tag = "Open"
  <2> DEFINE a == [holder |-> g.state.holder, epoch |-> g.state.epoch,
                   expires_at_ms |-> g.state.expires_at_ms, open |-> TRUE]
  <2>1. g.state.holder \in Nodes /\ g.state.epoch \in Nat /\ g.state.expires_at_ms \in Nat
    BY <1>1, <1>3 DEF GateStates
  <2>2. a \in Grants
    BY <2>1 DEF Grants
  <2>3. Carried(g) = {a}
    BY <1>3, CarriedCases
  <2> QED
    BY <2>2, <2>3
<1>4. CASE g.state.tag \in {"Closed", "SelfFenced"}
  <2>1. Carried(g) = {}
    BY <1>4, CarriedCases
  <2> QED
    BY <2>1
<1>5. g.state.tag \in {"Closed", "Staged", "Prepared", "Open", "SelfFenced"}
  BY <1>1 DEF GateStates
<1> QED
  BY <1>2, <1>3, <1>4, <1>5

LEMMA HeldTypes == TypeOK => \A n \in Nodes : Held(n) \subseteq Grants
<1> SUFFICES ASSUME TypeOK, NEW n \in Nodes PROVE Held(n) \subseteq Grants
  OBVIOUS
<1>1. Pending(cap[n]) \subseteq Grants
  <2> DEFINE c == cap[n]
  <2>1. c # None => c.authorization \in Authorizations
    BY DEF TypeOK, Capabilities
  <2>2. ASSUME c # None PROVE Grant(c.authorization, FALSE) \in Grants
    BY <2>1, <2>2 DEF Grant, Grants, Authorizations
  <2> QED
    BY <2>2 DEF Pending
<1>2. Carried(gate[n]) \subseteq Grants
  <2>1. CASE gate[n] = None
    BY <2>1 DEF Carried
  <2>2. CASE gate[n] # None
    BY <2>2, CarriedTypes DEF TypeOK
  <2> QED
    BY <2>1, <2>2
<1> QED
  BY <1>1, <1>2 DEF Held

(* Authority of a node moves from its capability to its gate, or is lost. *)
Quiet(n) ==
    \/ /\ Pending(cap'[n]) \subseteq Pending(cap[n])
       /\ Carried(gate'[n]) \subseteq Carried(gate[n])
    \/ /\ Pending(cap'[n]) = {}
       /\ Carried(gate'[n]) \subseteq Carried(gate[n]) \cup Pending(cap[n])

(* A step that opens no gate and turns back no clock. *)
Calm ==
    /\ activated' = activated
    /\ \A n \in Nodes : /\ clock[n] <= clock'[n]
                        /\ \A a \in Held(n)' : a.open => a \in Held(n)

(* Steps that change neither the record nor what is open: time, crashes and     *)
(* fences, evidence, and the gate up to its activation.                        *)
LEMMA QuietStep ==
    ASSUME IInv, TypeOK', ClocksSeen', LateEffectIsStale',
           UNCHANGED <<meta, activated>>,
           \A n \in Nodes : clock[n] <= clock'[n] /\ Quiet(n) /\ CapExcludes(n, cap'[n]),
           receipt' = receipt \/ FenceExcludes(receipt)',
           \A ev \in evidence' :
               \/ ev \in evidence
               \/ /\ ev.epoch <= meta.epoch + 1
                  /\ (receipt # None /\ ev.fence = receipt) \/ FenceExcludes(ev.fence)'
    PROVE  IInv' /\ Calm
<1>0. \A n \in Nodes : Held(n) \subseteq Grants /\ clock[n] \in Nat /\ clock'[n] \in Nat
  BY HeldTypes DEF IInv, TypeOK
<1>1. \A n \in Nodes : Held(n)' \subseteq Held(n)
  BY DEF Quiet, Held
<1>2. HeldStands'
  <2> SUFFICES ASSUME NEW n \in Nodes, NEW a \in Held(n)'
               PROVE  /\ a.holder = n
                      /\ \/ /\ meta.holder = n
                            /\ a.epoch = meta.epoch
                            /\ a.expires_at_ms = meta.lease_expires_at_ms
                         \/ a.epoch < meta.epoch /\ a.expires_at_ms <= clock'[n]
    BY DEF HeldStands
  <2>1. a \in Held(n) /\ a.expires_at_ms \in Nat
    BY <1>0, <1>1 DEF Grants
  <2> QED
    BY <2>1, <1>0 DEF IInv, HeldStands
<1>3. OpenedOnce'
  <2>1. ASSUME NEW n \in Nodes, NEW a \in Held(n)', ~a.open, a.epoch = meta.epoch
        PROVE  activated < meta.epoch
    BY <1>1, <2>1 DEF IInv, OpenedOnce
  <2>2. ASSUME NEW n \in Nodes, NEW a \in Pending(cap'[n]), NEW b \in Carried(gate'[n])
        PROVE  b.epoch < a.epoch
    BY DEF IInv, OpenedOnce, Quiet
  <2> QED
    BY <2>1, <2>2 DEF IInv, OpenedOnce
<1>4. HolderIsExcluded => HolderIsExcluded'
  <2> SUFFICES ASSUME HolderIsExcluded, NEW h \in Nodes, meta.holder = h
               PROVE  Held(h)' = {} \/ \A n \in Nodes : meta.lease_expires_at_ms <= clock'[n]
    BY DEF HolderIsExcluded
  <2>1. meta.lease_expires_at_ms \in Nat
    BY DEF IInv, TypeOK
  <2> QED
    BY <1>0, <1>1, <2>1 DEF HolderIsExcluded
<1>5. CapsExclude'
  <2> SUFFICES ASSUME NEW n \in Nodes PROVE CapExcludes(n, cap[n])'
    BY DEF CapsExclude
  <2> QED
    BY <1>4 DEF CapExcludes
<1>6. ASSUME NEW f, FenceExcludes(f) PROVE FenceExcludes(f)'
  BY <1>1, <1>6 DEF FenceExcludes
<1>7. FencesExclude'
  BY <1>6 DEF IInv, FencesExclude
<1>8. Calm
  BY <1>1 DEF Calm
<1> QED
  BY <1>2, <1>3, <1>5, <1>7, <1>8 DEF IInv

(* The same for a step of one node at one time. *)
LEMMA NodeStep ==
    ASSUME IInv, NEW n \in Nodes, UNCHANGED <<clock, meta, activated>>,
           gate'[n] \in Gates(n) \cup {None}, DOMAIN gate' = Nodes,
           cap' \in [Nodes -> Capabilities \cup {None}],
           \A m \in Nodes : m # n => gate'[m] = gate[m] /\ cap'[m] = cap[m],
           gate'[n] # None => gate'[n].last_observed_ms <= clock[n],
           Quiet(n), CapExcludes(n, cap'[n]),
           store' \in [Nodes -> Records],
           \A m \in Nodes : store'[m].last_observed_ms <= clock[m],
           effect' \in [node : Nodes, epoch : Nat] \cup {None}, LateEffectIsStale',
           receipt' \in Fences \cup {None}, receipt' = receipt \/ FenceExcludes(receipt)',
           evidence' \subseteq Bundles,
           \A ev \in evidence' :
               \/ ev \in evidence
               \/ /\ ev.epoch <= meta.epoch + 1
                  /\ (receipt # None /\ ev.fence = receipt) \/ FenceExcludes(ev.fence)'
    PROVE  IInv' /\ Calm
<1>1. TypeOK'
  BY DEF IInv, TypeOK
<1>2. ClocksSeen'
  BY DEF IInv, ClocksSeen
<1>3. \A m \in Nodes : clock[m] <= clock'[m]
  BY DEF IInv, TypeOK
<1>4. \A m \in Nodes : Quiet(m) /\ CapExcludes(m, cap'[m])
  <2> SUFFICES ASSUME NEW m \in Nodes, m # n PROVE Quiet(m) /\ CapExcludes(m, cap'[m])
    OBVIOUS
  <2>1. gate'[m] = gate[m] /\ cap'[m] = cap[m]
    OBVIOUS
  <2>2. CapExcludes(m, cap[m])
    BY DEF IInv, CapsExclude
  <2> QED
    BY <2>1, <2>2 DEF Quiet
<1> QED
  BY <1>1, <1>2, <1>3, <1>4, QuietStep

(* What the validator saw of the prior holder. *)
LEMMA AcceptedExcludes ==
    ASSUME IInv, NEW n \in Nodes, NEW ev \in evidence, ev.candidate = n,
           Accepts(FullProof(ev), meta, Policy, clock[n])
    PROVE  /\ ValidatedPromotion(FullProof(ev)) \in Authorizations
           /\ ValidatedPromotion(FullProof(ev)).candidate = n
           /\ meta.epoch < ValidatedPromotion(FullProof(ev)).epoch
           /\ meta.holder # n
           /\ HolderIsExcluded
<1> DEFINE p == FullProof(ev)
           now == clock[n]
<1>0. ev \in Bundles /\ ev.fence \in Fences
  BY DEF IInv, TypeOK, Bundles
<1>1. p.epoch = ev.epoch /\ p.candidate = n /\ p.quorum.epoch = ev.epoch
      /\ p.fence.epoch = ev.fence.epoch /\ p.fence.target = ev.fence.target
      /\ p.fence.mechanism = ev.fence.mechanism
  BY DEF FullProof
<1>2. /\ p.epoch > meta.epoch
      /\ meta.holder # n
      /\ ComponentEpochs(p) = {p.epoch}
  BY <1>1, AcceptsSections, SubjectOk
<1>3. ev.fence.epoch = ev.epoch
  BY <1>1, <1>2 DEF ComponentEpochs
<1>4. /\ p.lease.not_before_ms = ev.at /\ p.lease.expires_at_ms = ev.at + Lease
      /\ p.workload = Workload /\ p.policy_hash = ThePolicyHash
      /\ p.candidate_incarnation = ev.incarnation
      /\ p.state.durable_commit = 1 /\ p.state.state_root = 1
  BY DEF FullProof
<1>5. FenceClass(p) \in {"Bootstrap", "HardwarePower", "EffectGateExpiry"}
  BY <1>0, <1>1 DEF FenceClass, Fences
<1>6. ValidatedPromotion(p) \in Authorizations
  BY <1>0, <1>1, <1>4, <1>5 DEF ValidatedPromotion, Authorizations, Bundles
<1>7. HolderIsExcluded
  <2> SUFFICES ASSUME NEW h \in Nodes, meta.holder = h, Held(h) # {}
               PROVE  \A m \in Nodes : meta.lease_expires_at_ms <= clock[m]
    BY DEF HolderIsExcluded
  <2>1. /\ meta.lease_expires_at_ms \in Nat
        /\ meta.epoch \in Nat
        /\ \A m \in Nodes : clock[m] \in Nat /\ now <= clock[m] + Skew
    BY DEF IInv, TypeOK
  <2>2. meta.holder # None
    OBVIOUS
  <2>3. /\ p.fence.mechanism # "Bootstrap"
        /\ p.fence.target = h
        /\ p.fence.mechanism = "EffectGateExpired" => GuardElapsed(meta, Policy, now)
    BY <2>2, AcceptsSections, FenceOk
  <2>4. ev.epoch <= meta.epoch + 1 /\ FenceExcludes(ev.fence)
    BY DEF IInv, FencesExclude
  <2>5. ev.epoch = meta.epoch + 1
    BY <1>0, <1>1, <1>2, <2>1, <2>4 DEF Bundles
  <2>6. ev.fence.mechanism # "HardwarePower"
    BY <1>1, <1>3, <2>3, <2>4, <2>5 DEF FenceExcludes
  <2>7. GuardElapsed(meta, Policy, now)
    BY <1>0, <1>1, <2>3, <2>6 DEF Fences
  <2>8. now >= meta.lease_expires_at_ms + Guard
    BY <2>7 DEF GuardElapsed, SafeTime, Policy
  <2> QED
    BY <2>1, <2>8
<1>8. ValidatedPromotion(p).candidate = n /\ ValidatedPromotion(p).epoch = p.epoch
  BY <1>1 DEF ValidatedPromotion
<1> QED
  BY <1>2, <1>6, <1>7, <1>8

-----------------------------------------------------------------------------
(* Initially there is no authority; then one lemma per action.                 *)
LEMMA InitHolds == Init => IInv
<1> SUFFICES ASSUME Init PROVE IInv
  OBVIOUS
<1> DEFINE s == [accepted_epoch |-> 0, incarnation |-> 1, last_observed_ms |-> 0]
<1>1. s \in Records
  BY DEF Records
<1>2. \A n \in Nodes : gate[n] = Recover(n, Workload, ThePolicyHash, s) /\ cap[n] = None
  BY DEF Init
<1>3. \A n \in Nodes : /\ gate[n] \in Gates(n)
                        /\ Carried(gate[n]) = {}
                        /\ gate[n].last_observed_ms = 0
  BY <1>1, <1>2, RecoverCarriesNothing
<1>4. \A n \in Nodes : Pending(cap[n]) = {} /\ Held(n) = {}
  BY <1>2, <1>3 DEF Pending, Held
<1>5. TypeOK
  BY <1>1, <1>3 DEF Init, TypeOK, InitialAuthority
<1>6. ClocksSeen
  BY <1>3 DEF ClocksSeen, Init
<1>7. HeldStands /\ OpenedOnce
  BY <1>4 DEF HeldStands, OpenedOnce, Init, InitialAuthority
<1>8. CapsExclude /\ FencesExclude /\ LateEffectIsStale
  BY <1>2 DEF CapsExclude, CapExcludes, FencesExclude, LateEffectIsStale, Init
<1> QED
  BY <1>5, <1>6, <1>7, <1>8 DEF IInv

LEMMA AssembleStep ==
    ASSUME IInv, NEW n \in Nodes, Assemble(n) PROVE IInv' /\ Calm
<1>1. gate[n] \in Gates(n) /\ gate[n].incarnation \in Nat /\ clock[n] \in Nat
  BY DEF Assemble, Up, IInv, TypeOK, Gates
<1>2. meta.epoch \in Nat /\ meta.holder \in Nodes \cup {None}
  BY DEF IInv, TypeOK
<1>3. PICK fence \in {Claim(n), receipt} \ {None}, kept \in SUBSET evidence :
          evidence' = kept \cup
                {[candidate |-> n, incarnation |-> gate[n].incarnation,
                  epoch |-> meta.epoch + 1, at |-> clock[n], fence |-> fence]}
  BY DEF Assemble
<1>4. Claim(n) \in Fences /\ Claim(n).epoch = meta.epoch + 1
      /\ Claim(n).mechanism # "HardwarePower"
  BY <1>1, <1>2 DEF Claim, Fences
<1>5. fence \in Fences
  BY <1>4 DEF IInv, TypeOK
<1>6. evidence' \subseteq Bundles
  BY <1>1, <1>2, <1>3, <1>5 DEF Bundles, IInv, TypeOK
<1>7. \A ev \in evidence' :
          \/ ev \in evidence
          \/ /\ ev.epoch <= meta.epoch + 1
             /\ (receipt # None /\ ev.fence = receipt) \/ FenceExcludes(ev.fence)'
  <2>1. (receipt # None /\ fence = receipt) \/ FenceExcludes(fence)'
    BY <1>2, <1>4 DEF FenceExcludes, Assemble
  <2> SUFFICES ASSUME NEW ev \in evidence', ev \notin evidence
               PROVE  ev.epoch = meta.epoch + 1 /\ ev.fence = fence
    BY <1>2, <2>1
  <2> QED
    BY <1>3
<1>8. /\ UNCHANGED <<clock, meta, gate, store, cap, receipt, activated, effect>>
      /\ Quiet(n) /\ CapExcludes(n, cap'[n])
  BY DEF Assemble, Quiet, IInv, CapsExclude
<1> QED
  BY <1>1, <1>6, <1>7, <1>8, NodeStep DEF IInv, TypeOK, ClocksSeen, LateEffectIsStale

LEMMA ValidateStep ==
    ASSUME IInv, NEW n \in Nodes, Validate(n) PROVE IInv' /\ Calm
<1>1. PICK ev \in evidence :
          /\ ev.candidate = n
          /\ Accepts(FullProof(ev), meta, Policy, clock[n])
          /\ cap' = [cap EXCEPT ![n] =
                        [authorization |-> ValidatedPromotion(FullProof(ev)),
                         base |-> meta.epoch, committed |-> FALSE]]
  BY DEF Validate
<1> DEFINE auth == ValidatedPromotion(FullProof(ev))
<1>2. /\ auth \in Authorizations /\ auth.candidate = n /\ meta.epoch < auth.epoch
      /\ meta.holder # n /\ HolderIsExcluded
  BY <1>1, AcceptedExcludes
<1>3. /\ cap'[n] = [authorization |-> auth, base |-> meta.epoch, committed |-> FALSE]
      /\ cap' \in [Nodes -> Capabilities \cup {None}]
      /\ \A m \in Nodes : m # n => cap'[m] = cap[m]
  BY <1>1, <1>2 DEF IInv, TypeOK, Capabilities
<1>4. Pending(cap'[n]) = {}
  BY <1>3 DEF Pending
<1>5. meta.epoch \in Nat
  BY DEF IInv, TypeOK
<1>6. CapExcludes(n, cap'[n])
  BY <1>2, <1>3, <1>5 DEF CapExcludes
<1>7. /\ UNCHANGED <<clock, meta, gate, store, evidence, receipt, activated, effect>>
      /\ Quiet(n)
  BY <1>4 DEF Validate, Quiet
<1> QED
  BY <1>3, <1>6, <1>7, NodeStep DEF IInv, TypeOK, ClocksSeen, LateEffectIsStale

(* A commit ends every earlier authority: by the record, and by all clocks.     *)
LEMMA CommitStep ==
    ASSUME IInv, NEW n \in Nodes, Commit(n) PROVE IInv' /\ Calm
<1> DEFINE c == cap[n]
           auth == c.authorization
<1>0. /\ c \in Capabilities /\ c # None /\ ~c.committed
      /\ UNCHANGED <<clock, gate, store, evidence, receipt, activated, effect>>
  BY DEF Commit, IInv, TypeOK
<1>1. auth \in Authorizations /\ c.base \in Nat /\ auth.epoch \in Nat
      /\ auth.expires_at_ms \in Nat
  BY <1>0 DEF Capabilities, Authorizations
<1>2. CASE ~AuthorityUnchanged(c.base)
  <2>1. cap' = [cap EXCEPT ![n] = None] /\ meta' = meta
    BY <1>2 DEF Commit
  <2>2. /\ cap' \in [Nodes -> Capabilities \cup {None}] /\ cap'[n] = None
        /\ \A m \in Nodes : m # n => cap'[m] = cap[m]
    BY <2>1 DEF IInv, TypeOK
  <2>3. Quiet(n) /\ CapExcludes(n, cap'[n])
    BY <1>0, <2>2 DEF Quiet, Pending, CapExcludes
  <2> QED
    BY <1>0, <2>1, <2>2, <2>3, NodeStep DEF IInv, TypeOK, ClocksSeen, LateEffectIsStale
<1>3. CASE AuthorityUnchanged(c.base)
  <2>1. /\ meta' = [epoch |-> auth.epoch, holder |-> n,
                    lease_expires_at_ms |-> auth.expires_at_ms]
        /\ cap' = [cap EXCEPT ![n].committed = TRUE]
        /\ meta.epoch = c.base
    BY <1>3 DEF Commit, AuthorityUnchanged
  <2>2. /\ cap' \in [Nodes -> Capabilities \cup {None}]
        /\ cap'[n] = [c EXCEPT !.committed = TRUE]
        /\ \A m \in Nodes : m # n => cap'[m] = cap[m]
    BY <1>0, <2>1 DEF IInv, TypeOK, Capabilities
  <2>3. /\ cap'[n].authorization = auth /\ cap'[n].base = c.base /\ cap'[n].committed
    BY <1>0, <2>2 DEF Capabilities
  <2>4. /\ auth.candidate = n /\ meta.epoch < auth.epoch /\ meta.epoch \in Nat
        /\ meta.holder # n /\ HolderIsExcluded
    BY <1>0, <2>1 DEF IInv, TypeOK, CapsExclude, CapExcludes
  <2>5. TypeOK'
    BY <1>0, <1>1, <2>1, <2>2 DEF IInv, TypeOK
  <2>6. ClocksSeen'
    BY <1>0 DEF IInv, ClocksSeen
  <2>7. \A m \in Nodes : \A a \in Held(m) :
            a.holder = m /\ a.epoch <= meta.epoch /\ a.expires_at_ms <= clock[m]
    <3> SUFFICES ASSUME NEW m \in Nodes, NEW a \in Held(m)
                 PROVE  a.holder = m /\ a.epoch <= meta.epoch /\ a.expires_at_ms <= clock[m]
      OBVIOUS
    <3>1. a.epoch \in Nat
      BY HeldTypes DEF IInv, Grants
    <3>2. \/ /\ meta.holder = m /\ a.epoch = meta.epoch
             /\ a.expires_at_ms = meta.lease_expires_at_ms
          \/ a.epoch < meta.epoch /\ a.expires_at_ms <= clock[m]
      BY DEF IInv, HeldStands
    <3>3. a.holder = m
      BY DEF IInv, HeldStands
    <3> QED
      BY <2>4, <3>1, <3>2, <3>3 DEF HolderIsExcluded
  <2>8. ASSUME NEW m \in Nodes, NEW a \in Held(m)'
        PROVE  a \in Held(m) \/ (m = n /\ a = Grant(auth, FALSE))
    <3>1. CASE m # n
      BY <1>0, <2>2, <3>1 DEF Held
    <3>2. CASE m = n
      BY <1>0, <2>3, <3>2 DEF Held, Pending
    <3> QED
      BY <3>1, <3>2
  <2>9. HeldStands'
    <3> SUFFICES ASSUME NEW m \in Nodes, NEW a \in Held(m)'
                 PROVE  /\ a.holder = m
                        /\ \/ /\ meta'.holder = m
                              /\ a.epoch = meta'.epoch
                              /\ a.expires_at_ms = meta'.lease_expires_at_ms
                           \/ a.epoch < meta'.epoch /\ a.expires_at_ms <= clock'[m]
      BY DEF HeldStands
    <3>1. CASE a \in Held(m)
      <4>1. a.epoch \in Nat
        BY <3>1, HeldTypes DEF IInv, Grants
      <4> QED
        BY <1>0, <1>1, <2>1, <2>4, <2>7, <3>1, <4>1
    <3>2. CASE m = n /\ a = Grant(auth, FALSE)
      BY <2>1, <2>4, <3>2 DEF Grant
    <3> QED
      BY <2>8, <3>1, <3>2
  <2>10. OpenedOnce'
    <3>1. activated <= meta.epoch /\ activated \in Nat
      BY DEF IInv, OpenedOnce, TypeOK
    <3>2. activated' <= meta'.epoch /\ activated' < meta'.epoch
      BY <1>0, <1>1, <2>1, <2>4, <3>1
    <3>3. ASSUME NEW m \in Nodes, NEW a \in Pending(cap'[m]), NEW b \in Carried(gate'[m])
          PROVE  b.epoch < a.epoch
      <4>1. CASE m # n
        BY <1>0, <2>2, <4>1 DEF IInv, OpenedOnce
      <4>2. CASE m = n
        <5>1. a.epoch = auth.epoch
          <6>1. a = Grant(auth, FALSE)
            BY <2>3, <4>2 DEF Pending
          <6> QED
            BY <6>1 DEF Grant
        <5>2. b \in Held(n)
          BY <1>0, <4>2 DEF Held
        <5>3. b.epoch \in Nat /\ b.epoch <= meta.epoch
          BY <2>7, <5>2, HeldTypes DEF IInv, Grants
        <5> QED
          BY <1>1, <2>4, <5>1, <5>3
      <4> QED
        BY <4>1, <4>2
    <3> QED
      BY <3>2, <3>3 DEF OpenedOnce
  <2>11. CapsExclude'
    <3> SUFFICES ASSUME NEW m \in Nodes PROVE CapExcludes(m, cap[m])'
      BY DEF CapsExclude
    <3>1. CASE m = n
      BY <1>1, <2>1, <2>3, <2>4, <3>1 DEF CapExcludes
    <3>2. CASE m # n
      <4> SUFFICES ASSUME cap[m] # None PROVE CapExcludes(m, cap[m])'
        BY <2>2, <3>2 DEF CapExcludes
      <4>1. cap[m].base \in Nat /\ cap[m].base <= meta.epoch
            /\ cap[m].authorization.candidate = m
            /\ cap[m].base < cap[m].authorization.epoch
        BY DEF IInv, TypeOK, Capabilities, CapsExclude, CapExcludes
      <4>2. cap'[m] = cap[m] /\ cap[m].base < meta'.epoch
        BY <1>1, <2>1, <2>2, <2>4, <3>2, <4>1
      <4> QED
        BY <1>1, <2>1, <4>1, <4>2 DEF CapExcludes
    <3> QED
      BY <3>1, <3>2
  <2>12. FencesExclude'
    <3>1. ASSUME NEW f \in Fences, FenceExcludes(f) PROVE FenceExcludes(f)'
      <4>1. f.epoch \in Nat /\ f.epoch <= meta.epoch + 1
        BY <3>1 DEF Fences, FenceExcludes
      <4>2. f.epoch <= meta'.epoch
        BY <1>1, <2>1, <2>4, <4>1
      <4> QED
        BY <1>1, <2>1, <4>1, <4>2 DEF FenceExcludes
    <3>2. receipt' # None => FenceExcludes(receipt)'
      BY <1>0, <3>1 DEF IInv, FencesExclude, TypeOK
    <3>3. ASSUME NEW ev \in evidence'
          PROVE  ev.epoch <= meta'.epoch + 1 /\ FenceExcludes(ev.fence)'
      <4>1. ev \in evidence /\ ev.fence \in Fences /\ ev.epoch \in Nat
        BY <1>0 DEF IInv, TypeOK, Bundles
      <4>2. ev.epoch <= meta.epoch + 1 /\ FenceExcludes(ev.fence)
        BY <4>1 DEF IInv, FencesExclude
      <4> QED
        BY <1>1, <2>1, <2>4, <3>1, <4>1, <4>2
    <3> QED
      BY <3>2, <3>3 DEF FencesExclude
  <2>13. LateEffectIsStale'
    <3> SUFFICES ASSUME effect # None PROVE effect.epoch < meta'.epoch
      BY <1>0 DEF LateEffectIsStale
    <3>1. effect.epoch \in Nat /\ effect.epoch <= meta.epoch
      BY DEF IInv, TypeOK, LateEffectIsStale
    <3> QED
      BY <1>1, <2>1, <2>4, <3>1
  <2>14. Calm
    <3>1. \A m \in Nodes : clock[m] <= clock'[m]
      BY <1>0 DEF IInv, TypeOK
    <3>2. Grant(auth, FALSE).open = FALSE
      BY DEF Grant
    <3> QED
      BY <1>0, <2>8, <3>1, <3>2 DEF Calm
  <2> QED
    BY <2>5, <2>6, <2>9, <2>10, <2>11, <2>12, <2>13, <2>14 DEF IInv
<1> QED
  BY <1>2, <1>3

(* A step that touches at most the gate of n, which carries no more after it.  *)
LEMMA GateStep ==
    ASSUME IInv, NEW n \in Nodes, gate[n] # None, NEW h, Keeps(n, gate[n], h, clock[n]),
           gate' = [gate EXCEPT ![n] = h],
           UNCHANGED <<clock, meta, store, evidence, cap, receipt, activated>>,
           effect' \in [node : Nodes, epoch : Nat] \cup {None}, LateEffectIsStale'
    PROVE  IInv' /\ Calm
<1>1. /\ gate'[n] = h /\ DOMAIN gate' = Nodes
      /\ \A m \in Nodes : m # n => gate'[m] = gate[m]
  BY DEF IInv, TypeOK
<1>2. h \in Gates(n) /\ Carried(h) \subseteq Carried(gate[n])
      /\ h.last_observed_ms <= clock[n]
  BY DEF Keeps, IInv, ClocksSeen
<1>3. Quiet(n) /\ CapExcludes(n, cap'[n])
  BY <1>1, <1>2 DEF Quiet, IInv, CapsExclude
<1> QED
  BY <1>1, <1>2, <1>3, NodeStep DEF IInv, TypeOK, ClocksSeen

LEMMA StageStep ==
    ASSUME IInv, NEW n \in Nodes, Stage(n) PROVE IInv' /\ Calm
<1> DEFINE auth == cap[n].authorization
           h == StageGate(gate[n], auth, clock[n])
<1>1. /\ gate[n] \in Gates(n) /\ auth \in Authorizations /\ clock[n] \in Nat
      /\ gate[n].last_observed_ms <= clock[n]
      /\ Pending(cap[n]) = {Grant(auth, FALSE)}
  BY DEF Stage, Up, IInv, TypeOK, ClocksSeen, Capabilities, Pending
<1>2. /\ gate' = [gate EXCEPT ![n] = h]
      /\ cap' = [cap EXCEPT ![n] = None]
      /\ UNCHANGED <<clock, meta, store, evidence, receipt, activated, effect>>
  BY DEF Stage
<1>3. /\ gate'[n] = h /\ DOMAIN gate' = Nodes /\ cap'[n] = None
      /\ cap' \in [Nodes -> Capabilities \cup {None}]
      /\ \A m \in Nodes : m # n => gate'[m] = gate[m] /\ cap'[m] = cap[m]
  BY <1>2 DEF IInv, TypeOK
<1>4. /\ h \in Gates(n) /\ h.last_observed_ms <= clock[n]
      /\ Carried(h) \subseteq Carried(gate[n]) \cup Pending(cap[n])
  BY <1>1, StageKeeps
<1>5. Quiet(n) /\ CapExcludes(n, cap'[n])
  BY <1>3, <1>4 DEF Quiet, Pending, CapExcludes
<1> QED
  BY <1>2, <1>3, <1>4, <1>5, NodeStep DEF IInv, TypeOK, ClocksSeen, LateEffectIsStale

LEMMA PersistStep ==
    ASSUME IInv, NEW n \in Nodes, Persist(n) PROVE IInv' /\ Calm
<1>1. gate[n] \in Gates(n) /\ gate[n].state.tag = "Staged"
      /\ gate[n].last_observed_ms <= clock[n]
  BY DEF Persist, Up, IInv, TypeOK, ClocksSeen
<1>2. gate[n].state.authorization.epoch \in Nat /\ gate[n].last_observed_ms \in Nat
  BY <1>1 DEF Gates, GateStates, Authorizations
<1>3. store' \in [Nodes -> Records]
      /\ \A m \in Nodes : store'[m].last_observed_ms <= clock[m]
  <2>1. /\ store' = [store EXCEPT ![n].accepted_epoch = gate[n].state.authorization.epoch,
                                  ![n].last_observed_ms = gate[n].last_observed_ms]
        /\ store \in [Nodes -> Records]
    BY DEF Persist, IInv, TypeOK
  <2>2. /\ store'[n] = [accepted_epoch |-> gate[n].state.authorization.epoch,
                        incarnation |-> store[n].incarnation,
                        last_observed_ms |-> gate[n].last_observed_ms]
        /\ \A m \in Nodes : m # n => store'[m] = store[m]
    BY <2>1 DEF Records
  <2>3. store'[n] \in Records
    BY <1>2, <2>1, <2>2 DEF Records
  <2> QED
    BY <1>1, <2>1, <2>2, <2>3 DEF IInv, ClocksSeen
<1>4. UNCHANGED <<clock, meta, gate, evidence, cap, receipt, activated, effect>>
  BY DEF Persist
<1>5. Quiet(n) /\ CapExcludes(n, cap'[n])
  BY <1>4 DEF Quiet, IInv, CapsExclude
<1> QED
  BY <1>1, <1>3, <1>4, <1>5, NodeStep DEF IInv, TypeOK, ClocksSeen, LateEffectIsStale

LEMMA ConfirmStep ==
    ASSUME IInv, NEW n \in Nodes, Confirm(n) PROVE IInv' /\ Calm
<1>1. gate[n] \in Gates(n) /\ clock[n] \in Nat
  BY DEF Confirm, Up, IInv, TypeOK
<1>2. PICK record : gate' = [gate EXCEPT ![n] = ConfirmGate(gate[n], record)]
  BY DEF Confirm, IInv, TypeOK
<1>3. Keeps(n, gate[n], ConfirmGate(gate[n], record), clock[n])
  BY <1>1, ConfirmKeeps
<1>4. /\ UNCHANGED <<clock, meta, store, evidence, cap, receipt, activated, effect>>
      /\ gate[n] # None
  BY DEF Confirm, Up
<1>5. effect' \in [node : Nodes, epoch : Nat] \cup {None} /\ LateEffectIsStale'
  BY <1>4 DEF IInv, TypeOK, LateEffectIsStale
<1> QED
  BY <1>2, <1>3, <1>4, <1>5, GateStep

LEMMA AdvanceClockStep ==
    ASSUME IInv, NEW n \in Nodes, AdvanceClock(n) PROVE IInv' /\ Calm
<1>1. /\ clock' = [clock EXCEPT ![n] = clock[n] + 1] /\ clock[n] < MaxTime
      /\ \A m \in Nodes : clock[n] + 1 <= clock[m] + Skew
      /\ UNCHANGED <<meta, gate, store, evidence, cap, receipt, activated, effect>>
  BY DEF AdvanceClock
<1>2. \A m \in Nodes : clock[m] \in Nat /\ clock'[m] \in Nat /\ clock[m] <= clock'[m]
  BY <1>1 DEF IInv, TypeOK
<1>3. clock' \in [Nodes -> 0..MaxTime]
  BY <1>1 DEF IInv, TypeOK
<1>4. \A k, m \in Nodes : clock'[k] <= clock'[m] + Skew
  BY <1>1, <1>2 DEF IInv, TypeOK
<1>5. TypeOK'
  BY <1>1, <1>3, <1>4 DEF IInv, TypeOK
<1>6. ClocksSeen'
  <2>1. \A m \in Nodes : /\ store[m].last_observed_ms \in Nat
                         /\ gate[m] # None => gate[m].last_observed_ms \in Nat
    BY DEF IInv, TypeOK, Records, Gates
  <2> QED
    BY <1>1, <1>2, <2>1 DEF IInv, ClocksSeen
<1>7. \A m \in Nodes : Quiet(m) /\ CapExcludes(m, cap'[m])
  BY <1>1 DEF Quiet, IInv, CapsExclude
<1> QED
  BY <1>1, <1>2, <1>5, <1>6, <1>7, QuietStep DEF IInv, LateEffectIsStale

LEMMA DownStep ==
    ASSUME IInv, NEW n \in Nodes, Down(n),
           UNCHANGED <<clock, meta, store, evidence, activated, effect>>,
           receipt' \in Fences \cup {None}, receipt' = receipt \/ FenceExcludes(receipt)'
    PROVE  IInv' /\ Calm
<1>1. /\ gate'[n] = None /\ DOMAIN gate' = Nodes /\ cap'[n] = None
      /\ cap' \in [Nodes -> Capabilities \cup {None}]
      /\ \A m \in Nodes : m # n => gate'[m] = gate[m] /\ cap'[m] = cap[m]
  BY DEF Down, IInv, TypeOK
<1>2. Quiet(n) /\ CapExcludes(n, cap'[n])
  BY <1>1 DEF Quiet, CapExcludes, Pending, Carried
<1> QED
  BY <1>1, <1>2, NodeStep DEF IInv, TypeOK, ClocksSeen, LateEffectIsStale

LEMMA CrashStep ==
    ASSUME IInv, NEW n \in Nodes, Crash(n) PROVE IInv' /\ Calm
  BY DownStep DEF Crash, IInv, TypeOK

LEMMA FencePowerStep ==
    ASSUME IInv, NEW n \in Nodes, FencePower(n) PROVE IInv' /\ Calm
<1>1. /\ receipt' = [epoch |-> meta.epoch + 1, target |-> n, at |-> clock[n],
                     mechanism |-> "HardwarePower"]
      /\ Down(n) /\ UNCHANGED <<clock, meta, store, evidence, activated, effect>>
  BY DEF FencePower
<1>2. receipt' \in Fences
  BY <1>1 DEF IInv, TypeOK, Fences
<1>3. Held(n)' = {}
  <2>1. gate'[n] = None /\ cap'[n] = None
    BY <1>1 DEF Down, IInv, TypeOK
  <2> QED
    BY <2>1 DEF Held, Pending, Carried
<1>4. FenceExcludes(receipt)'
  BY <1>1, <1>3 DEF FenceExcludes, IInv, TypeOK
<1> QED
  BY <1>1, <1>2, <1>4, DownStep

LEMMA RestartStep ==
    ASSUME IInv, NEW n \in Nodes, Restart(n) PROVE IInv' /\ Calm
<1>1. /\ gate[n] = None
      /\ store' = [store EXCEPT ![n].incarnation = store[n].incarnation + 1]
      /\ gate' = [gate EXCEPT ![n] = Recover(n, Workload, ThePolicyHash, store'[n])]
      /\ UNCHANGED <<clock, meta, evidence, cap, receipt, activated, effect>>
  BY DEF Restart, Up
<1>2. store' \in [Nodes -> Records]
      /\ \A m \in Nodes : store'[m].last_observed_ms = store[m].last_observed_ms
  BY <1>1 DEF IInv, TypeOK, Records
<1>3. /\ gate'[n] = Recover(n, Workload, ThePolicyHash, store'[n]) /\ DOMAIN gate' = Nodes
      /\ \A m \in Nodes : m # n => gate'[m] = gate[m]
  BY <1>1 DEF IInv, TypeOK
<1>4. /\ gate'[n] \in Gates(n) /\ Carried(gate'[n]) = {}
      /\ gate'[n].last_observed_ms = store'[n].last_observed_ms
  BY <1>2, <1>3, RecoverCarriesNothing
<1>5. Quiet(n) /\ CapExcludes(n, cap'[n])
  BY <1>1, <1>4 DEF Quiet, IInv, CapsExclude
<1> QED
  BY <1>1, <1>2, <1>3, <1>4, <1>5, NodeStep DEF IInv, TypeOK, ClocksSeen, LateEffectIsStale

(* An activation that succeeds opens the gate of the authority of record, which *)
(* was not open before.                                                        *)
LEMMA OpeningStep ==
    ASSUME IInv, NEW n \in Nodes, Activate(n), ActivateVerdict(gate[n], clock[n]) = Ok
    PROVE  /\ IInv'
           /\ meta.holder = n
           /\ activated < meta.epoch
           /\ activated' = meta.epoch
           /\ Carried(gate'[n]) = {[holder |-> n, epoch |-> meta.epoch,
                                    expires_at_ms |-> meta.lease_expires_at_ms, open |-> TRUE]}
<1> DEFINE auth == gate[n].state.authorization
           h == ActivateGate(gate[n], clock[n])
           opened == Grant(auth, TRUE)
<1>1. gate[n] \in Gates(n) /\ clock[n] \in Nat
  BY DEF Activate, Up, IInv, TypeOK
<1>2. /\ h \in Gates(n) /\ h.last_observed_ms = clock[n]
      /\ auth \in Authorizations
      /\ Carried(gate[n]) = {Grant(auth, FALSE)}
      /\ Carried(h) = {opened}
      /\ clock[n] < auth.expires_at_ms
  BY <1>1, ActivateKeeps
<1>3. /\ auth.epoch \in Nat /\ auth.expires_at_ms \in Nat
      /\ meta.epoch \in Nat /\ activated \in Nat
  BY <1>2 DEF Authorizations, IInv, TypeOK
<1>4. /\ Grant(auth, FALSE) \in Held(n) /\ Grant(auth, FALSE) \in Carried(gate[n])
      /\ Grant(auth, FALSE).holder = auth.candidate
      /\ Grant(auth, FALSE).epoch = auth.epoch
      /\ Grant(auth, FALSE).expires_at_ms = auth.expires_at_ms
      /\ Grant(auth, FALSE).open = FALSE
  BY <1>2 DEF Held, Grant
<1>5. /\ auth.candidate = n /\ meta.holder = n /\ auth.epoch = meta.epoch
      /\ auth.expires_at_ms = meta.lease_expires_at_ms
  <2>1. auth.candidate = n
    BY <1>4 DEF IInv, HeldStands
  <2>2. ~(auth.expires_at_ms <= clock[n])
    BY <1>1, <1>2, <1>3
  <2> QED
    BY <1>4, <2>1, <2>2 DEF IInv, HeldStands
<1>6. activated < meta.epoch
  BY <1>4, <1>5 DEF IInv, OpenedOnce
<1>7. opened = [holder |-> n, epoch |-> meta.epoch,
                expires_at_ms |-> meta.lease_expires_at_ms, open |-> TRUE]
  BY <1>5 DEF Grant
<1>7a. /\ opened.holder = n /\ opened.epoch = meta.epoch
      /\ opened.expires_at_ms = meta.lease_expires_at_ms /\ opened.open = TRUE
  BY <1>5 DEF Grant
<1>8. /\ gate' = [gate EXCEPT ![n] = h]
      /\ activated' = meta.epoch
      /\ UNCHANGED <<clock, meta, store, evidence, cap, receipt, effect>>
  BY <1>5 DEF Activate
<1>9. /\ gate'[n] = h /\ DOMAIN gate' = Nodes
      /\ \A m \in Nodes : m # n => gate'[m] = gate[m]
  BY <1>8 DEF IInv, TypeOK
<1>10. TypeOK' /\ ClocksSeen' /\ LateEffectIsStale'
  BY <1>1, <1>2, <1>3, <1>8, <1>9 DEF IInv, TypeOK, ClocksSeen, LateEffectIsStale
<1>11. ASSUME NEW m \in Nodes, NEW a \in Held(m)'
       PROVE  a \in Held(m) \/ (m = n /\ a = opened)
  BY <1>2, <1>8, <1>9 DEF Held
<1>12. HeldStands'
  <2> SUFFICES ASSUME NEW m \in Nodes, NEW a \in Held(m)'
               PROVE  /\ a.holder = m
                      /\ \/ /\ meta.holder = m
                            /\ a.epoch = meta.epoch
                            /\ a.expires_at_ms = meta.lease_expires_at_ms
                         \/ a.epoch < meta.epoch /\ a.expires_at_ms <= clock[m]
    BY <1>8 DEF HeldStands
  <2>1. CASE a \in Held(m)
    BY <2>1 DEF IInv, HeldStands
  <2>2. CASE m = n /\ a = opened
    BY <1>5, <1>7a, <2>2
  <2> QED
    BY <1>11, <2>1, <2>2
<1>13. OpenedOnce'
  <2>1. activated' <= meta'.epoch
    BY <1>3, <1>8
  <2>2. ASSUME NEW m \in Nodes, NEW a \in Pending(cap'[m]), NEW b \in Carried(gate'[m])
        PROVE  b.epoch < a.epoch
    <3>1. a \in Pending(cap[m])
      BY <1>8
    <3>2. CASE m # n
      BY <1>9, <3>1, <3>2 DEF IInv, OpenedOnce
    <3>3. CASE m = n
      <4>1. b.epoch = meta.epoch
        BY <1>2, <1>7a, <1>9, <3>3
      <4>2. auth.epoch < a.epoch
        BY <1>4, <3>1, <3>3 DEF IInv, OpenedOnce
      <4> QED
        BY <1>5, <4>1, <4>2
    <3> QED
      BY <3>2, <3>3
  <2>3. ASSUME NEW m \in Nodes, NEW a \in Held(m)', ~a.open, a.epoch = meta.epoch
        PROVE  FALSE
    <3>1. a \in Held(m)
      BY <1>7a, <1>11, <2>3
    <3>2. meta.holder = m
      BY <1>3, <2>3, <3>1 DEF IInv, HeldStands
    <3>3. a \in Pending(cap'[n]) \cup Carried(gate'[n])
      BY <1>5, <2>3, <3>2 DEF Held
    <3>4. a \notin Carried(gate'[n])
      BY <1>2, <1>7a, <1>9, <2>3
    <3>5. auth.epoch < a.epoch
      BY <1>4, <1>8, <3>3, <3>4 DEF IInv, OpenedOnce
    <3> QED
      BY <1>3, <1>5, <2>3, <3>5
  <2> QED
    BY <1>8, <2>1, <2>2, <2>3 DEF OpenedOnce
<1>14. ~HolderIsExcluded
  <2>1. Held(n) # {}
    BY <1>4
  <2>2. ~(auth.expires_at_ms <= clock[n])
    BY <1>1, <1>2, <1>3
  <2> QED
    BY <1>5, <2>1, <2>2 DEF HolderIsExcluded
<1>15. CapsExclude'
  BY <1>8, <1>14 DEF IInv, CapsExclude, CapExcludes
<1>16. ASSUME NEW f, FenceExcludes(f) PROVE FenceExcludes(f)'
  <2>1. Held(n) # {}
    BY <1>4
  <2> QED
    BY <1>5, <1>8, <1>16, <2>1 DEF FenceExcludes
<1>17. FencesExclude'
  BY <1>8, <1>16 DEF IInv, FencesExclude
<1> QED
  BY <1>2, <1>5, <1>6, <1>7, <1>8, <1>9, <1>10, <1>12, <1>13, <1>15, <1>17 DEF IInv

LEMMA ActivateStep ==
    ASSUME IInv, NEW n \in Nodes, Activate(n)
    PROVE  IInv' /\ (ActivateVerdict(gate[n], clock[n]) = Ok \/ Calm)
<1>1. CASE ActivateVerdict(gate[n], clock[n]) = Ok
  BY <1>1, OpeningStep
<1>2. CASE ActivateVerdict(gate[n], clock[n]) # Ok
  <2>1. gate[n] \in Gates(n) /\ clock[n] \in Nat /\ gate[n] # None
    BY DEF Activate, Up, IInv, TypeOK
  <2>2. Keeps(n, gate[n], ActivateGate(gate[n], clock[n]), clock[n])
    BY <1>2, <2>1, ActivateKeeps
  <2>3. /\ gate' = [gate EXCEPT ![n] = ActivateGate(gate[n], clock[n])]
        /\ UNCHANGED <<clock, meta, store, evidence, cap, receipt, activated, effect>>
    BY <1>2 DEF Activate
  <2>4. effect' \in [node : Nodes, epoch : Nat] \cup {None} /\ LateEffectIsStale'
    BY <2>3 DEF IInv, TypeOK, LateEffectIsStale
  <2> QED
    BY <2>1, <2>2, <2>3, <2>4, GateStep
<1> QED
  BY <1>1, <1>2

(* A gate that lets an effect through stands for the authority of record.      *)
LEMMA EffectiveIsOfRecord ==
    ASSUME IInv, NEW n \in Nodes, Up(n), NEW who, NEW e,
           CheckEffectVerdict(gate[n], who, e, clock[n]) = Ok
    PROVE  /\ who = n /\ meta.holder = n /\ e = meta.epoch
           /\ gate[n].state.tag = "Open" /\ gate[n].state.epoch = e
<1> DEFINE g == gate[n]
           a == [holder |-> g.state.holder, epoch |-> g.state.epoch,
                 expires_at_ms |-> g.state.expires_at_ms, open |-> TRUE]
<1>1. /\ g.state.tag = "Open" /\ ~Expired(g, clock[n])
      /\ g.state.holder = who /\ g.state.epoch = e
  BY CheckEffectOk
<1>2. g \in Gates(n) /\ clock[n] \in Nat
  BY DEF Up, IInv, TypeOK
<1>3. g.state.expires_at_ms \in Nat
  BY <1>1, <1>2 DEF Gates, GateStates
<1>4. ~(a.expires_at_ms <= clock[n])
  BY <1>1, <1>2, <1>3 DEF Expired
<1>5. a \in Held(n)
  BY <1>1, <1>2, CarriedCases DEF Held
<1>6. a.holder = n /\ meta.holder = n /\ a.epoch = meta.epoch
  BY <1>4, <1>5 DEF IInv, HeldStands
<1> QED
  BY <1>1, <1>6

LEMMA CheckEffectStep ==
    ASSUME IInv, NEW n \in Nodes, NEW e \in 1..MaxEpoch, CheckEffect(n, e)
    PROVE  IInv' /\ Calm
<1>1. gate[n] \in Gates(n) /\ clock[n] \in Nat /\ gate[n] # None
  BY DEF CheckEffect, Up, IInv, TypeOK
<1>2. Keeps(n, gate[n], TickGate(gate[n], clock[n]), clock[n])
  BY <1>1, TickKeeps
<1>3. /\ gate' = [gate EXCEPT ![n] = TickGate(gate[n], clock[n])]
      /\ UNCHANGED <<clock, meta, store, evidence, cap, receipt, activated>>
  BY DEF CheckEffect, CheckEffectGate
<1>4. effect' \in [node : Nodes, epoch : Nat] \cup {None} /\ LateEffectIsStale'
  <2>1. CASE CheckEffectVerdict(gate[n], n, e, clock[n]) = Ok
    <3>1. effect' = [node |-> n, epoch |-> e]
      BY <2>1 DEF CheckEffect
    <3>2. meta.holder = n /\ e = meta.epoch
      BY <1>1, <2>1, EffectiveIsOfRecord DEF Up
    <3> QED
      BY <1>3, <3>1, <3>2 DEF LateEffectIsStale
  <2>2. CASE CheckEffectVerdict(gate[n], n, e, clock[n]) # Ok
    BY <1>3, <2>2 DEF CheckEffect, IInv, TypeOK, LateEffectIsStale
  <2> QED
    BY <2>1, <2>2
<1> QED
  BY <1>1, <1>2, <1>3, <1>4, GateStep

-----------------------------------------------------------------------------
LEMMA Step == IInv /\ [Next]_vars => IInv'
<1> SUFFICES ASSUME IInv, [Next]_vars PROVE IInv'
  OBVIOUS
<1>1. ASSUME NEW n \in Nodes, NodeAction(n) PROVE IInv'
  BY <1>1, AssembleStep, ValidateStep, CommitStep, StageStep, PersistStep, ConfirmStep,
     ActivateStep, CheckEffectStep, AdvanceClockStep, CrashStep, RestartStep,
     FencePowerStep DEF NodeAction
<1>2. CASE UNCHANGED vars
  BY <1>2 DEF vars, IInv, TypeOK, ClocksSeen, HeldStands, OpenedOnce, Held, CapsExclude,
              CapExcludes, HolderIsExcluded, FencesExclude, FenceExcludes, LateEffectIsStale
<1> QED
  BY <1>1, <1>2 DEF Next

THEOREM Invariance == Spec => []IInv
  BY InitHolds, Step, PTL DEF Spec

(* The shapes of the variables, and clocks within the skew (proof.rs:12).       *)
THEOREM TypeCorrect == Spec => []TypeOK
<1>1. IInv => TypeOK
  BY DEF IInv
<1> QED
  BY <1>1, Invariance, PTL

(* However many nodes there are, a gate that lets effects through (gate.rs:329) *)
(* is the one the authority record names.                                      *)
THEOREM EffectiveGateIsOfRecord == Spec => []EffectiveIsCurrent
<1>1. IInv => EffectiveIsCurrent
  BY EffectiveIsOfRecord DEF EffectiveIsCurrent, Writers
<1> QED
  BY <1>1, Invariance, PTL

(* No two of them do at once: single writer, S1 of the README.                 *)
THEOREM OneWriter == Spec => []SingleWriter
<1>1. EffectiveIsCurrent => SingleWriter
  BY DEF EffectiveIsCurrent, SingleWriter
<1> QED
  BY <1>1, EffectiveGateIsOfRecord, PTL

(* An effect still on its way when authority has moved carries an epoch below   *)
(* the committed one (ARCHITECTURE.md:60).                                     *)
THEOREM LateEffectsAreStale == Spec => []LateEffectIsStale
<1>1. IInv => LateEffectIsStale
  BY DEF IInv
<1> QED
  BY <1>1, Invariance, PTL

(* Effects come under rising epochs, all those of one epoch from one node.      *)
THEOREM EffectsMoveForward == Spec => EffectsNeverRegress
<1>1. IInv /\ IInv' /\ [Next]_vars
          => [effect # None => \/ effect'.epoch > effect.epoch
                               \/ effect' = effect]_vars
  <2> SUFFICES ASSUME IInv, [Next]_vars, effect # None, effect' # effect
               PROVE  effect'.epoch > effect.epoch
    BY DEF vars
  <2>1. PICK n \in Nodes, e \in 1..MaxEpoch :
            CheckEffect(n, e) /\ effect' = [node |-> n, epoch |-> e]
    BY DEF Next, NodeAction, vars, Assemble, Validate, Commit, Stage, Persist, Confirm,
           Activate, CheckEffect, AdvanceClock, Crash, Restart, FencePower
  <2>2. CheckEffectVerdict(gate[n], n, e, clock[n]) = Ok
    BY <2>1 DEF CheckEffect
  <2>3. meta.holder = n /\ e = meta.epoch
    BY <2>1, <2>2, EffectiveIsOfRecord DEF CheckEffect
  <2>4. effect \in [node : Nodes, epoch : Nat]
    BY DEF IInv, TypeOK
  <2>5. effect.epoch # meta.epoch
    <3> SUFFICES ASSUME effect.epoch = meta.epoch PROVE FALSE
      OBVIOUS
    <3>1. effect.node = n
      BY <2>3, <2>4 DEF IInv, LateEffectIsStale
    <3> QED
      BY <2>1, <2>3, <2>4, <3>1
  <2> QED
    BY <2>1, <2>3, <2>4, <2>5 DEF IInv, LateEffectIsStale
<1> QED
  BY <1>1, Invariance, PTL DEF Spec, EffectsNeverRegress

-----------------------------------------------------------------------------
(* The abstract writers are the nodes whose gate lets effects through. *)
Pairs == {<<n, gate[n].state.epoch>> : n \in Writers}

(* Between two openings writers only get fewer. *)
LEMMA CalmWriters ==
    ASSUME IInv, IInv', Calm, NEW n \in Writers'
    PROVE  n \in Writers /\ gate'[n].state.epoch = gate[n].state.epoch
<1> DEFINE g == gate'[n]
           a == [holder |-> g.state.holder, epoch |-> g.state.epoch,
                 expires_at_ms |-> g.state.expires_at_ms, open |-> TRUE]
<1>1. /\ n \in Nodes /\ g # None
      /\ CheckEffectVerdict(g, n, g.state.epoch, clock'[n]) = Ok
  BY DEF Writers, Up
<1>2. /\ g.state.tag = "Open" /\ ~Expired(g, clock'[n]) /\ g.state.holder = n
  BY <1>1, CheckEffectOk
<1>3. g \in Gates(n) /\ clock[n] \in Nat /\ clock'[n] \in Nat /\ clock[n] <= clock'[n]
  BY <1>1 DEF IInv, TypeOK, Calm
<1>4. g.state.expires_at_ms \in Nat
  BY <1>2, <1>3 DEF Gates, GateStates
<1>5. a \in Carried(g) /\ a.open = TRUE
  BY <1>1, <1>2, <1>3, CarriedCases
<1>6. a \in Held(n)
  BY <1>1, <1>5 DEF Calm, Held
<1>7. a \in Carried(gate[n])
  <2>1. ASSUME NEW c, a \in Pending(c) PROVE FALSE
    <3>1. a = Grant(c.authorization, FALSE)
      BY <2>1 DEF Pending
    <3> QED
      BY <1>5, <3>1 DEF Grant
  <2> QED
    BY <1>6, <2>1 DEF Held
<1>8. gate[n] # None /\ gate[n] \in Gates(n)
  BY <1>1, <1>7 DEF Carried, IInv, TypeOK
<1>9. /\ gate[n].state.tag = "Open" /\ gate[n].state.holder = n
      /\ gate[n].state.epoch = g.state.epoch
      /\ gate[n].state.expires_at_ms = g.state.expires_at_ms
  <2>1. gate[n].state.tag = "Open"
    <3>1. gate[n].state.tag \in {"Closed", "Staged", "Prepared", "Open", "SelfFenced"}
      BY <1>8 DEF Gates, GateStates
    <3>2. gate[n].state.tag \notin {"Closed", "SelfFenced"}
      BY <1>1, <1>7, <1>8, CarriedCases
    <3>3. ASSUME gate[n].state.tag \in {"Staged", "Prepared"} PROVE FALSE
      <4>1. a = Grant(gate[n].state.authorization, FALSE)
        BY <1>1, <1>7, <1>8, <3>3, CarriedCases
      <4> QED
        BY <1>5, <4>1 DEF Grant
    <3> QED
      BY <3>1, <3>2, <3>3
  <2>2. a = [holder |-> gate[n].state.holder, epoch |-> gate[n].state.epoch,
             expires_at_ms |-> gate[n].state.expires_at_ms, open |-> TRUE]
    BY <1>1, <1>7, <1>8, <2>1, CarriedCases
  <2> QED
    BY <1>2, <2>1, <2>2
<1>10. ~RolledBack(gate[n], clock[n]) /\ ~Expired(gate[n], clock[n])
  <2>1. gate[n].last_observed_ms <= clock[n] /\ gate[n].last_observed_ms \in Nat
    BY <1>1, <1>8 DEF IInv, ClocksSeen, Gates
  <2> QED
    BY <1>2, <1>3, <1>4, <1>9, <2>1 DEF RolledBack, Expired
<1>11. CheckEffectVerdict(gate[n], n, gate[n].state.epoch, clock[n]) = Ok
  BY <1>9, <1>10, EffectLetThrough
<1> QED
  BY <1>1, <1>8, <1>9, <1>11 DEF Writers, Up

(* A step without an opening releases the writer, or changes nothing. *)
LEMMA CalmRefines ==
    ASSUME IInv, IInv', Calm PROVE [Authority!Next]_<<activated, Pairs>>
<1>1. Pairs' \subseteq Pairs
  BY CalmWriters DEF Pairs
<1>2. \A p, q \in Pairs : p = q
  <2>1. \A n, m \in Writers : n = m
    BY EffectiveIsOfRecord DEF Writers
  <2> QED
    BY <2>1 DEF Pairs
<1>3. Pairs' = Pairs \/ (Pairs # {} /\ Pairs' = {})
  BY <1>1, <1>2
<1> QED
  BY <1>3 DEF Calm, Authority!Next, Authority!Release, Pairs

LEMMA OpeningRefines ==
    ASSUME IInv, IInv', NEW n \in Nodes, Activate(n),
           ActivateVerdict(gate[n], clock[n]) = Ok
    PROVE  Authority!Acquire(n)
<1> DEFINE g == gate'[n]
           a == [holder |-> n, epoch |-> meta.epoch,
                 expires_at_ms |-> meta.lease_expires_at_ms, open |-> TRUE]
<1>1. /\ meta.holder = n /\ activated < meta.epoch /\ activated' = meta.epoch
      /\ meta.epoch \in Nat /\ activated \in Nat
  BY OpeningStep DEF IInv, TypeOK
<1>2. Writers = {}
  <2> SUFFICES ASSUME NEW m \in Writers PROVE FALSE
    OBVIOUS
  <2>1. meta.holder = m /\ gate[m].state.tag = "Open"
    BY EffectiveIsOfRecord DEF Writers
  <2>2. gate[n].state.tag = "Prepared"
    BY ActivateOk
  <2> QED
    BY <1>1, <2>1, <2>2
<1>3. /\ g = ActivateGate(gate[n], clock[n]) /\ clock' = clock
      /\ gate[n] \in Gates(n) /\ clock[n] \in Nat
  BY DEF Activate, Up, IInv, TypeOK
<1>4. /\ g \in Gates(n) /\ g.last_observed_ms = clock[n]
      /\ Carried(g) = {Grant(gate[n].state.authorization, TRUE)}
      /\ clock[n] < gate[n].state.authorization.expires_at_ms
  <2> DEFINE h == ActivateGate(gate[n], clock[n])
  <2>1. /\ h \in Gates(n) /\ h.last_observed_ms = clock[n]
        /\ Carried(h) = {Grant(gate[n].state.authorization, TRUE)}
        /\ clock[n] < gate[n].state.authorization.expires_at_ms
    <3>1. gate[n] \in Gates(n) /\ clock[n] \in Nat
      BY <1>3
    <3> QED
      BY <3>1, ActivateKeeps
  <2> QED
    BY <1>3, <2>1
<1>5. Carried(g) = {a}
  BY OpeningStep
<1>6. /\ g.state.tag = "Open" /\ g.state.holder = n /\ g.state.epoch = meta.epoch
      /\ g.state.expires_at_ms = gate[n].state.authorization.expires_at_ms
  <2>1. g = [Observe(gate[n], clock[n]) EXCEPT !.state = OpenFor(gate[n].state.authorization)]
    BY <1>3 DEF ActivateGate, Ok
  <2>2. Observe(gate[n], clock[n]) \in Gates(n)
    BY <1>3, ObserveKeeps DEF Keeps
  <2>3. g.state = OpenFor(gate[n].state.authorization)
    BY <2>1, <2>2 DEF Gates
  <2>4. g.state.tag = "Open"
        /\ g.state.expires_at_ms = gate[n].state.authorization.expires_at_ms
    BY <2>3 DEF OpenFor, Open
  <2>5. a = [holder |-> g.state.holder, epoch |-> g.state.epoch,
             expires_at_ms |-> g.state.expires_at_ms, open |-> TRUE]
    BY <1>4, <1>5, <2>4, CarriedCases
  <2> QED
    BY <2>4, <2>5
<1>7. CheckEffectVerdict(g, n, g.state.epoch, clock'[n]) = Ok
  <2>1. ~RolledBack(g, clock'[n]) /\ ~Expired(g, clock'[n])
    <3>1. gate[n].state.authorization.expires_at_ms \in Nat
      BY <1>3, ActivateKeeps DEF Authorizations
    <3> QED
      BY <1>3, <1>4, <1>6, <3>1 DEF RolledBack, Expired
  <2> QED
    BY <1>6, <2>1, EffectLetThrough
<1>8. n \in Writers'
  <2>1. g # None
    BY <1>4, NoGateIsNone
  <2> QED
    BY <1>6, <1>7, <2>1 DEF Writers, Up
<1>9. Writers' = {n}
  <2>1. ASSUME NEW m \in Nodes, m # n, m \in Writers' PROVE FALSE
    <3>1. gate'[m] = gate[m]
      BY <2>1 DEF Activate, IInv, TypeOK
    <3>2. m \in Writers
      BY <1>3, <2>1, <3>1 DEF Writers, Up
    <3> QED
      BY <1>2, <3>2
  <2> QED
    BY <1>8, <2>1 DEF Writers
<1>10. Pairs = {} /\ Pairs' = {<<n, meta.epoch>>}
  BY <1>2, <1>6, <1>9 DEF Pairs
<1> QED
  BY <1>1, <1>10 DEF Authority!Acquire, Pairs

LEMMA StepRefines == IInv /\ IInv' /\ [Next]_vars => [Authority!Next]_<<activated, Pairs>>
<1> SUFFICES ASSUME IInv, IInv', [Next]_vars
             PROVE  [Authority!Next]_<<activated, Pairs>>
  OBVIOUS
<1>1. ASSUME NEW n \in Nodes, NodeAction(n)
      PROVE  Calm \/ (Activate(n) /\ ActivateVerdict(gate[n], clock[n]) = Ok)
  BY <1>1, AssembleStep, ValidateStep, CommitStep, StageStep, PersistStep, ConfirmStep,
     ActivateStep, CheckEffectStep, AdvanceClockStep, CrashStep, RestartStep,
     FencePowerStep DEF NodeAction
<1>2. CASE UNCHANGED vars
  BY <1>2 DEF vars, Pairs, Writers, Up
<1>3. ASSUME NEW n \in Nodes, NodeAction(n)
      PROVE  [Authority!Next]_<<activated, Pairs>>
  BY <1>1, <1>3, CalmRefines, OpeningRefines DEF Authority!Next
<1> QED
  BY <1>2, <1>3 DEF Next

(* The whole transaction, with its crashes, fences, skewed clocks and replayed  *)
(* evidence, keeps the abstract promise of WriterAuthority.                    *)
THEOREM Implementation == Spec => ImplementsWriterAuthority
<1>1. Init => Authority!Init
  <2> SUFFICES ASSUME Init PROVE Authority!Init
    OBVIOUS
  <2>1. \A n \in Nodes : gate[n].state.tag = "Closed"
    BY DEF Init, Recover, Closed
  <2>2. Writers = {}
    BY <2>1 DEF Writers
  <2> QED
    BY <2>2 DEF Init, Authority!Init
<1>2. IInv /\ IInv' /\ [Next]_vars => [Authority!Next]_Authority!vars
  BY StepRefines DEF Authority!vars, Pairs
<1> QED
  BY <1>1, <1>2, Invariance, PTL DEF Spec, ImplementsWriterAuthority, Authority!Spec
=============================================================================
