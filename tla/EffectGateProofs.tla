-------------------------- MODULE EffectGateProofs --------------------------
(***************************************************************************)
(* What a success of each gate method implies, whatever the gate holds.    *)
(***************************************************************************)
EXTENDS EffectGate, RefusalsProofs

(* A stage that succeeds was given a capability for this gate and this life,   *)
(* above the epoch the gate knows or the very one it holds already.            *)
LEMMA StageOk ==
    ASSUME NEW g, NEW auth, NEW now, StageVerdict(g, auth, now) = Ok
    PROVE  /\ ~RolledBack(g, now)
           /\ auth.workload = g.workload
           /\ auth.policy_hash = g.policy_hash
           /\ auth.candidate = g.node
           /\ auth.candidate_incarnation = g.incarnation
           /\ g.state.tag # "Open"
           /\ AlreadyStaged(g, auth) \/ NewerEpoch(g, auth)
<1>1. CheckList(StageChecks(g, auth, now))
  BY DEF CheckList, StageChecks, Ok
<1>2. AllHold(StageChecks(g, auth, now))
  BY <1>1, OkMeansAllHold DEF StageVerdict
<1>3. DOMAIN StageChecks(g, auth, now) = 1..6
  BY DEF StageChecks
<1>4. \A i \in 1..6 : StageChecks(g, auth, now)[i][2]
  BY <1>2, <1>3 DEF AllHold
<1>5. /\ StageChecks(g, auth, now)[1][2]
      /\ StageChecks(g, auth, now)[2][2]
      /\ StageChecks(g, auth, now)[3][2]
      /\ StageChecks(g, auth, now)[4][2]
      /\ StageChecks(g, auth, now)[5][2]
      /\ StageChecks(g, auth, now)[6][2]
  BY <1>4
<1> QED
  BY <1>5 DEF StageChecks, ForThisNode, SameIncarnation

(* A record that confirms is the one the staged gate would ask for now. *)
LEMMA ConfirmOk ==
    ASSUME NEW g, NEW record, ConfirmVerdict(g, record) = Ok
    PROVE  /\ g.state.tag = "Staged"
           /\ PersistenceRecord(g, g.state.authorization) = record
<1>1. CheckList(ConfirmChecks(g, record))
  BY DEF CheckList, ConfirmChecks, Ok
<1>2. AllHold(ConfirmChecks(g, record))
  BY <1>1, OkMeansAllHold DEF ConfirmVerdict
<1>3. DOMAIN ConfirmChecks(g, record) = 1..2
  BY DEF ConfirmChecks
<1>4. \A i \in 1..2 : ConfirmChecks(g, record)[i][2]
  BY <1>2, <1>3 DEF AllHold
<1>5. /\ ConfirmChecks(g, record)[1][2]
      /\ ConfirmChecks(g, record)[2][2]
  BY <1>4
<1> QED
  BY <1>5 DEF ConfirmChecks, RecordMatches

(* An activation happens for a prepared capability whose lease covers now. *)
LEMMA ActivateOk ==
    ASSUME NEW g, NEW now, ActivateVerdict(g, now) = Ok
    PROVE  /\ ~RolledBack(g, now)
           /\ g.state.tag = "Prepared"
           /\ g.state.authorization.not_before_ms <= now
           /\ now < g.state.authorization.expires_at_ms
<1>1. CheckList(ActivateChecks(g, now))
  BY DEF CheckList, ActivateChecks, Ok
<1>2. AllHold(ActivateChecks(g, now))
  BY <1>1, OkMeansAllHold DEF ActivateVerdict
<1>3. DOMAIN ActivateChecks(g, now) = 1..4
  BY DEF ActivateChecks
<1>4. \A i \in 1..4 : ActivateChecks(g, now)[i][2]
  BY <1>2, <1>3 DEF AllHold
<1>5. /\ ActivateChecks(g, now)[1][2]
      /\ ActivateChecks(g, now)[2][2]
      /\ ActivateChecks(g, now)[3][2]
      /\ ActivateChecks(g, now)[4][2]
  BY <1>4
<1> QED
  BY <1>5 DEF ActivateChecks

(* An effect is let through by an open gate, for its holder and epoch, before  *)
(* its expiry.                                                                 *)
LEMMA CheckEffectOk ==
    ASSUME NEW g, NEW holder, NEW epoch, NEW now,
           CheckEffectVerdict(g, holder, epoch, now) = Ok
    PROVE  /\ ~RolledBack(g, now)
           /\ g.state.tag = "Open"
           /\ ~Expired(g, now)
           /\ g.state.holder = holder
           /\ g.state.epoch = epoch
<1>1. CheckList(CheckEffectChecks(g, holder, epoch, now))
  BY DEF CheckList, CheckEffectChecks, Ok
<1>2. AllHold(CheckEffectChecks(g, holder, epoch, now))
  BY <1>1, OkMeansAllHold DEF CheckEffectVerdict
<1>3. DOMAIN CheckEffectChecks(g, holder, epoch, now) = 1..5
  BY DEF CheckEffectChecks
<1>4. \A i \in 1..5 : CheckEffectChecks(g, holder, epoch, now)[i][2]
  BY <1>2, <1>3 DEF AllHold
<1>5. /\ CheckEffectChecks(g, holder, epoch, now)[1][2]
      /\ CheckEffectChecks(g, holder, epoch, now)[2][2]
      /\ CheckEffectChecks(g, holder, epoch, now)[3][2]
      /\ CheckEffectChecks(g, holder, epoch, now)[4][2]
      /\ CheckEffectChecks(g, holder, epoch, now)[5][2]
  BY <1>4
<1> QED
  BY <1>5 DEF CheckEffectChecks

(* The converses, each from the conditions its method tests: a stage ... *)
LEMMA StageLetThrough ==
    ASSUME NEW g, NEW auth, NEW now,
           ~RolledBack(g, now),
           auth.workload = g.workload,
           auth.policy_hash = g.policy_hash,
           ForThisNode(g, auth),
           SameIncarnation(g, auth),
           g.state.tag # "Open",
           NewerEpoch(g, auth)
    PROVE  StageVerdict(g, auth, now) = Ok
<1> DEFINE checks == StageChecks(g, auth, now)
<1>1. DOMAIN checks = 1..6
  BY DEF StageChecks
<1>2. /\ checks[1][2]
      /\ checks[2][2]
      /\ checks[3][2]
      /\ checks[4][2]
      /\ checks[5][2]
      /\ checks[6][2]
  BY DEF StageChecks
<1>3. AllHold(checks)
  <2>1. \A i \in 1..6 : checks[i][2]
    BY <1>2
  <2> QED
    BY <1>1, <2>1 DEF AllHold
<1> QED
  BY <1>3 DEF StageVerdict, Verdict

(* ... a confirmation ... *)
LEMMA ConfirmLetThrough ==
    ASSUME NEW g, NEW record,
           g.state.tag = "Staged",
           RecordMatches(g, record)
    PROVE  ConfirmVerdict(g, record) = Ok
<1> DEFINE checks == ConfirmChecks(g, record)
<1>1. DOMAIN checks = 1..2
  BY DEF ConfirmChecks
<1>2. /\ checks[1][2]
      /\ checks[2][2]
  BY DEF ConfirmChecks
<1>3. AllHold(checks)
  <2>1. \A i \in 1..2 : checks[i][2]
    BY <1>2
  <2> QED
    BY <1>1, <2>1 DEF AllHold
<1> QED
  BY <1>3 DEF ConfirmVerdict, Verdict

(* ... an activation ... *)
LEMMA ActivateLetThrough ==
    ASSUME NEW g, NEW now,
           ~RolledBack(g, now),
           g.state.tag = "Prepared",
           g.state.authorization.not_before_ms <= now,
           now < g.state.authorization.expires_at_ms
    PROVE  ActivateVerdict(g, now) = Ok
<1> DEFINE checks == ActivateChecks(g, now)
<1>1. DOMAIN checks = 1..4
  BY DEF ActivateChecks
<1>2. /\ checks[1][2]
      /\ checks[2][2]
      /\ checks[3][2]
      /\ checks[4][2]
  BY DEF ActivateChecks
<1>3. AllHold(checks)
  <2>1. \A i \in 1..4 : checks[i][2]
    BY <1>2
  <2> QED
    BY <1>1, <2>1 DEF AllHold
<1> QED
  BY <1>3 DEF ActivateVerdict, Verdict

(* ... and an effect. *)
LEMMA EffectLetThrough ==
    ASSUME NEW g, NEW holder, NEW epoch, NEW now,
           ~RolledBack(g, now), g.state.tag = "Open", ~Expired(g, now),
           g.state.holder = holder, g.state.epoch = epoch
    PROVE  CheckEffectVerdict(g, holder, epoch, now) = Ok
<1>1. CheckList(CheckEffectChecks(g, holder, epoch, now))
  BY DEF CheckList, CheckEffectChecks, Ok
<1>2. DOMAIN CheckEffectChecks(g, holder, epoch, now) = 1..5
  BY DEF CheckEffectChecks
<1>3. /\ CheckEffectChecks(g, holder, epoch, now)[1][2]
      /\ CheckEffectChecks(g, holder, epoch, now)[2][2]
      /\ CheckEffectChecks(g, holder, epoch, now)[3][2]
      /\ CheckEffectChecks(g, holder, epoch, now)[4][2]
      /\ CheckEffectChecks(g, holder, epoch, now)[5][2]
  BY DEF CheckEffectChecks
<1>4. AllHold(CheckEffectChecks(g, holder, epoch, now))
  <2>1. \A i \in 1..5 : CheckEffectChecks(g, holder, epoch, now)[i][2]
    BY <1>3
  <2> QED
    BY <1>2, <2>1 DEF AllHold
<1> QED
  BY <1>1, <1>4, OkMeansAllHold DEF CheckEffectVerdict
=============================================================================
