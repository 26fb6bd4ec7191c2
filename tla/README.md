# A TLA+ verification of quorumarc

quorumarc decides when one of two data nodes may become the writer of a
workload, and closes the old writer's path to the outside before the new one
opens. This directory models its Rust code in TLA+, checks the models with TLC
on small instances and proves the main results with TLAPS for every value of the
constants.

## 1. The system

| Component | State it keeps | Operations |
|---|---|---|
| Domain types, `crates/quorumarc-core/src/types.rs` | none | validated identifiers; epochs, incarnations, commits, hashes |
| Proof validator, `crates/quorumarc-core/src/proof.rs` | none (pure); a pinned `SafetyPolicy` | `SafetyPolicy::new`, `validate_promotion` |
| Effect gate, `crates/quorumarc-core/src/gate.rs` | binding, boot incarnation, last observed time, `GateState` | `recover`, `stage`, `confirm_persisted`, `activate`, `check_effect`, `tick`, `close`, `safety_fault` |
| Compact model, `crates/quorumarc-sim/src/lib.rs` | `ModelState`: tick, epoch, holder and expiry in metadata, witness, two `NodeState`s | the nineteen `Action`s of `apply` |
| Explorer, same file | frontier, visited set with traces, counters | `explore` |
| Simulator command line, `crates/quorumarc-sim/src/main.rs` | depth and flag while it reads its arguments | explore, print the report, answer with an exit code |
| Node agent, witness | none | refuse every command that would act |

How they meet. A caller hands `validate_promotion` a `PromotionProof`, the
`AuthorityState` it believes current and a time. Success yields a
`ValidatedPromotion`, a capability that cannot be cloned and that `stage` takes by
value. `stage` returns a `GatePersistenceRecord`; an adapter outside the
repository must make it durable; `confirm_persisted` compares; `activate` opens
the gate inside the lease; `check_effect` answers for each effect. The gate reads
a `TrustedClock` through a trait. The simulator calls the validator and a fresh
gate inside one atomic `promote`. The agent and the witness do not call the core
yet, so **the driver of the failover transaction does not exist in code**;
`Failover` models it from how the core expects to be called and marks it external.

What is hard here. The gate is a small state machine called in any order by a
driver that may crash, with a clock read anew on every call and a store that
answers late. The validator judges a snapshot of the authority record that may be
stale when its answer is used. Exclusion by lease expiry compares one node's clock
with the end of another node's lease. Refusals are side effects (several close the
gate). Boundaries are exclusive on one side and inclusive on the other. An effect
may reach its target long after the gate let it through. And the simulator's verdict
is worth what its search visits: a state not followed is a state declared safe.
`PROJECT.json` lists every hazard at its line with the properties that cover it.

What makes each component correct:

- validator: what is granted is what was voted for; authority leaves a holder only
  after it is excluded; successive quorums intersect; epochs rise;
- gate: no epoch runs that is not durable, none is opened twice over all process
  lives, effects stay inside the lease and the life they were granted to, and a
  fenced gate stays fenced until something newer is staged;
- compact model: one effective writer, the one metadata speaks of; epochs name one
  writer; authority passes on only after fencing; a standby never runs into a dead
  end; authority runs out by itself;
- explorer and command: a clean report, and a successful exit code, mean that no state
  within the depth asked for is unsafe; a violating trace can be replayed; the search
  ends;
- composition: the same single writer when the transaction is split into steps and
  nodes, clocks, crashes, fences and old evidence interleave; and an effect that
  comes late is told apart by its epoch.

## 2. Modules

| Module | Models |
|---|---|
| `Refusals` | lists of early returns: the first failing check is the typed error |
| `PromotionProof` | `SafetyPolicy::new` and `validate_promotion`, as operators on records |
| `EffectGate` | the gate's methods, as operators: `XVerdict` is what a method returns, `XGate` what it leaves behind, also when it refuses |
| `GateLife` | one gate over several process lives, one action per method, and its environment |
| `WriterAuthority` | abstract specification: authority is given to one node at a time, under rising terms, and taken back before it is given again |
| `CompactModel` | the simulator's state and its nineteen actions |
| `ProofChain` | chains of promotions judged by the validator alone |
| `Failover` | several nodes running the failover transaction on validator and gate |
| `Explore` | `explore`: breadth-first search over any model, one pair of state and action at a time |
| `Simulator` | the command: argument loop, call of `explore`, exit code; extends `Explore` |
| `MC*` | values for TLC |
| `*Proofs` | theorems (section 5) |

`CompactModel` and `Failover` extend `PromotionProof` and `EffectGate`, as the
simulator and a future driver call the core crate; both are checked against
`WriterAuthority` by `INSTANCE ... WITH`.

Correspondence. Records carry the Rust field names, a field `f: Option<T>` is a `T`
or `None`, an `enum` value is a record with a `tag`. Identifiers, hashes and roots
are model values or small numbers: only equality (and "all zero" for a state root)
matters to the code. Every list of checks has the order of the early returns, since
the first failure is what the caller sees. `validate_quorum`'s loop over the votes
is a condition on positions: an unknown voter is reported unless a repeated one
stands before it. `checked_add` on `u64` keeps a largest value: `MaxU64`. The Continuity
Receipt that `activate` returns is a projection of the capability and the clock
reading, so it has no variable. `confirm_persisted` reads no clock, nor do `close` and
`safety_fault`; all other methods take the clock reading they make as `now`. An
operator marked "Plausible slip" is what the definition after it would be with a
likely bug; the runs are tried with each of them in its place to see the property fail.

`GateLife` — `Stage`, `Confirm`, `Activate`, `CheckEffect`, `Tick`, `Close` and
`SafetyFault` are the methods; `Restart` is `recover` from the durable record with
a fresh incarnation; `Persist`, `SetClock` and `Crash` are the environment. The
history variables `requested`, `openedBy` and `effect` record what a caller saw.

`CompactModel` — one action per `Action` variant (node and direction are
parameters). `PromoteOutcome` is the chain of refusals of `promote`; `GateOpens` is
the gate it recovers, stages, confirms, activates and probes at a single clock
reading. The `Max` constants stand where the code calls `checked_add`. As a check of
fidelity: with the tick, epoch and incarnation bounds out of reach and the search
stopped at depth 10, TLC finds exactly 60,631 distinct states and 330,074
transitions, the figures of `README.md:81` for the Rust explorer.

`ProofChain` — `Certify` issues a bundle with votes for any candidate and epoch,
`Alter` changes one field outside the certificate, `Present` calls the validator and
commits what it grants. Everything but `Present` is the caller.

`Failover` — `Assemble`, `Validate`, `Commit`, `Stage`, `Persist`, `Confirm`,
`Activate`, `CheckEffect` are separate steps of each node; `Commit` is a compare and
swap on the authority record the proof was validated against. Votes are given to
whoever asks, so two candidates may hold capabilities for one epoch. Assembled
evidence, up to `MaxEvidence` bundles of it, stays around: it may get lost, overtake
other evidence, and be presented again after a restart. A witness that votes once per
epoch would do less than one that votes for anybody, so it has no model of its own.

`Explore` — the model searched is a constant table `apply` with the number of active
writers of each state, so that the search is also run on models that do break the
invariant; `CompactModel` is the one the code explores. `VisitApplied` and
`VisitRejected` are the two arms of the `match`, `Advance` the two inner loops,
`NextRound` the end of a round, `Return` the `break` or the end of the outer `for`.
`frontier` holds the states a `BTreeMap` yields in order; the trace a frontier entry
carries is the one `seen` has for the state. Of the reasons for a refusal the code
looks at one, `NoStateChange`; the others are one value here.

`Simulator` — one action per arm of the argument loop; `Usize` are the words that parse,
with their values; exploring is a step of `Explore`. What is printed is left out,
`exit_code` is what remains.

## 3. Runs

| Run | Question | Bounds |
|---|---|---|
| `gate_life` | Is a gate safe under any calls, clock, crashes and slow storage? | times 0..3, 2 process lives, 2 writes under way, 6 capabilities in 2 epochs (of another node, another policy and an earlier life among them) |
| `gate_already_open` | Is `AlreadyOpen` only answered by a gate that is active? (no) | as above, 1 write |
| `gate_exact_record` | Does the record that `stage` returned confirm? (no) | as above, 1 write |
| `compact` | Is the compact model safe, free of dead ends for a standby, and an implementation of `WriterAuthority`? | 11 ticks, 4 epochs, 2 lives per node, nodes interchangeable |
| `compact_time` | Does authority run out when nothing but time passes? | 7 ticks, 2 epochs, 2 lives |
| `compact_holder_stuck` | Is a node refused as present holder really holding? (no) | as `compact` |
| `failover` | Does the step-by-step transaction keep one writer, and can a late effect be told apart? | 2 nodes, times 0..3, skew 1, guard 1, lease 2, evidence age 2, 2 epochs, 1 restart, 1 bundle |
| `failover_refines` | Does it implement `WriterAuthority`? | as above with times 0..2, lease 1, evidence age 1 |
| `failover_evidence` | Do bundles overtaking each other, or a receipt of the failover before, let two write? | 2 bundles, 3 epochs, 1 restart, times 0..1: succession by fences |
| `explore` | Is the report exact, are its traces reproducible, does the search see everything? | every model with 3 states and 2 actions (one a promotion), 0 or 2 writers in a state, depths 0..3 |
| `simulator` | What does the exit code tell the pipeline, and does it always come? | all command lines of up to 4 words and those of 5 that start with `--depth`; a safe model and two unsafe ones |
| `proof_chain` | What does a chain of accepted proofs guarantee? | 3 voters, every quorum size, with and without a required witness and the expiry fence, 2 epochs, times 0..3, 1 alteration |

Why the bounds are enough. A violation of single writer needs a first grant, its end
(by lease or fence) and a second grant: two epochs, one lease, one guard interval. Four
epochs and eleven ticks let the compact model pass authority back and forth through
expiry twice, and through fences more often. Two process lives show every replay across a
restart. In `gate_life` the lease of the first capability starts after time 0 and
ends before `MaxTime`, so early, in-time and late calls all happen. In `proof_chain`
the largest lease expiry is `MaxU64`, so the guard sum overflows. Three states are
enough for a state reached by two paths in one round, in two rounds, by a step back,
and by no path within the depth, and a depth of 3 is beyond all of them, so that a
search also runs out of states. In `simulator` the depth 99 stands for one that is
never used up. The bounds of `failover`, `explore` and `simulator` matter little for the
properties section 5 proves without them.

What the runs show beside their properties:

- `Skew <= Guard` is needed: with a skew of 2 and a guard of 1, `failover` breaks
  `EffectiveIsCurrent` and two nodes write at once. The guard interval of the policy
  has to cover the difference of the clocks; nothing in the code ties the two.
- A compare-and-swap commit is needed: the validator cannot know that `current` is
  stale, and two capabilities for one epoch can be valid at the same time.
- An unsafe state may be reported more than once: the count of violations the command
  prints is of transitions into unsafe states, as `ViolationsReplay` reads each of them.
- A request for help succeeds whatever else is asked for: `--require-safe --help` ends
  with success and explores nothing. `ExitCodeTellsSafety` names it as the exception.
- `CHECK_DEADLOCK FALSE`: in `proof_chain` the chain may stop when the clock and the epochs
  have reached their bounds; `explore` and `simulator` end when they have answered. The
  other systems always have a step.

The three runs that expect a violation record where the code and its comments part;
each is a finding in `PROJECT.json`: `stage` answers `AlreadyOpen` for a gate whose
lease is over but that nobody polled (and the capability is consumed);
`confirm_persisted` compares with a record rebuilt from the present clock reading
rather than the staged one; the recorded holder is refused as holder for ever, also
after its lease ended. None of them lets two nodes write: the code fails closed.

## 4. Fairness

Two runs assume any. In `simulator` it is `WF(SimNext)`: the command is one thread that
waits for nothing, so while it has a step it takes one; `Answers` then says that the
argument loop and the search end, at any depth. In `compact_time` it is
`WF_vars(AdvanceTime)`. Ticks are the model's own
clock and `AdvanceTime` is enabled in every state below the last tick; a node is not
assumed to act, nor the witness to be up. `AuthorityRunsOut` therefore says that no
cooperation is needed for authority to end. It holds at the last tick because a
promotion whose lease would pass it is refused. Section 5 proves it too.

## 5. Proofs

These results hold for every value of the constants that meets the assumptions below.

| Module | Theorems | Argument |
|---|---|---|
| `RefusalsProofs` | `OkMeansAllHold` | a list of early returns answers `Ok` exactly when every condition holds: if one fails, there is a first one, and its error is not `Ok` |
| `EffectGateProofs` | lemmas | what an `Ok` of `stage`, `confirm_persisted`, `activate` and `check_effect` implies, from `OkMeansAllHold`, and the converse: the conditions under which each answers `Ok` |
| `PromotionProofProofs` | `QuorumsIntersect` | what an accepted proof implies, section by section, and what suffices for a section, a proof and a policy to pass; two quorums of a strict majority cannot be disjoint, by counting their union |
| `GateLifeProofs` | `TypeCorrect`, `PreparedIsDurable`, `OpenedStaysBehind`, `OpensUpwards` | inductive invariant over the epochs |
| | `EffectsInsideLease`, `EffectsForward`, `FenceHolds` | the same with what the gate knows of its lease and of time |
| `CompactModelProofs` | `TypeCorrect`, `OneWriter`, `EffectiveGateIsCurrent`, `OneWriterPerEpoch`, `SuccessionIsFenced`, `NoDeadEnd`, `AuthorityEnds`, `Implementation` | inductive invariant on gates against metadata; a tick at which every check holds; at most three ticks until a gate closes; step simulation |
| `ProofChainProofs` | `QuorumsOfSuccessionIntersect`, `GrantsRise`, `GrantsAsVoted`, `PriorHolderExcluded` | the certificate survives every alteration |
| `FailoverProofs` | `TypeCorrect`, `EffectiveGateIsOfRecord`, `OneWriter`, `LateEffectsAreStale`, `EffectsMoveForward`, `Implementation` | every authority followed from commit to gate; step simulation |
| `ExploreProofs` | `TypeCorrect`, `ExhaustiveSearch`, `AlarmsAreReal` | what is no longer waiting was tried with every action; a closed set holds everything reachable |
| | `ReportExact`, `ViolationsReplayed` | breadth-first layers; each pair counted once; traces that replay |
| | `SearchIsBounded`, `SearchEnds` | counting rounds and steps |
| | `SimTypeCorrect`, `ExitCodeIsTheVerdict` | what the words taken have come to, and the report. The command extends the explorer, and so its theorems stand here |

*Gate, epochs.* `DurableBeforePrepared` is not inductive: from a staged gate nothing
says that the acknowledged record is in the store, and after a crash nothing says that
what recovery reads covers what was opened before. The invariant adds `AckedIsDurable`
(what the adapter reported is stored, and the store never falls) and `OpenedIsBehind`
(whatever was opened is durable and not above the gate's last epoch; what is staged or
prepared is strictly above it). The clock plays no part, so these results hold for any
clock. `EpochsOpenUpwards` follows from `OpenedIsBehind` in the state before `activate`.

*Gate, effects.* `EffectInsideLease` needs the time the gate has seen: an open gate was
opened at or after the start of its lease (`OpenAsGranted`), it has seen the time of its
last effect (`EffectIsBehind`), and it belongs to the life the store counts
(`GateOfThisLife`). A later `check_effect` is refused when the clock is behind that time,
so `not_before` need not be tested again: this is the reason why `activate` alone tests it.

*Compact model.* `SingleWriter` says nothing of gates that are not effective. The
invariant says of every gate that it is either the committed one (`GatesAreKnown`: the
holder's, with the epoch and expiry of metadata) or of an earlier epoch with its lease
over, or its node is fenced and then has no gate at all (`FencedHasNoGate`). The second
half is what a promotion preserves: by the validator it happens only after the former
holder is fenced or its lease and the guard are over (`PriorExcluded`). `Implementation`
maps `epoch` and the effective gates to the abstract `term` and `writers`: a promotion is
`Acquire`, anything else that closes the effective gate `Release`, the rest stutters.
`NoDeadEnd` names the tick at which a ready standby is let in: this one if nobody is on
record or the holder is fenced, otherwise the one after a whole lease. By then the lease on
record and its guard are over, since it was granted for three ticks and time never fell
(`LeaseOnRecord`). At that tick each row of every list of checks is shown to hold (the
policy's, the six sections', the gate's from `stage` to the first effect) and so the
promotion is accepted: it is the one theorem that needs the converse lemmas. It assumes
`CodeSized`: at most two data nodes, for with more of them a quorum of two is no majority
and the constructor refuses the policy; the largest tick and a guard fit a `u64` of
milliseconds; and `None` is no number. The code's own sizes meet all three.
`AuthorityEnds` is liveness. The lease on record is never longer than three ticks from now
and never passes the last tick; no gate is ever given more time (`NeverRenewed`: what is
effective before and after a step ends when it did), so an effective gate with three ticks
left has two after a tick, then one, then none, whatever else happens between
(`TicksOnlyFall`). Temporal logic puts these leads-to steps together. The fairness is
`TimeFlows`: whenever the last tick stays ahead for good, time advances again. This is
`WF_vars(AdvanceTime)` with the guard of `AdvanceTime` where the definition of `WF` has
`ENABLED`, about which the prover does not reason; `compact_time` checks under `WF` itself.

*Chain.* Alterations never touch the certificate, so what is accepted still binds to what
was voted (`Carried`), and the voters of the last grant are a quorum of a policy the
constructor accepted (`AcceptedByQuorum`).

*Failover.* `SingleWriter` speaks of gates that let effects through at this instant; what
breaks it is done earlier. The invariant follows an authority from the metadata commit on:
as a capability, in a staged or prepared gate, in an open one. Each is the one of record, or
of an earlier epoch and over by its own node's clock (`HeldStands`); the one of record opens
one gate, once (`OpenedOnce`). A commit makes the authority of record an earlier one, so
what the validator saw of the prior holder must still be true by then. `CapsExclude` says so:
while the record is the one validated against, its holder keeps no authority or its lease is
over by *all* clocks. The second comes from the guard, `lease + guard <= clock` of the
candidate, and the first from a fence of the next epoch, which the invariant also follows
while it is a receipt and in old evidence (`FencesExclude`). Both last: time only grows and a
fenced node gets new authority only by a commit, which changes the record. That is
where `Skew <= Guard` and the compare-and-swap are needed. `LateEffectIsStale` is part of
the invariant, and `EffectsNeverRegress` follows from it. For `Implementation` an activation
is `Acquire`: no other gate was effective, since its authority would be that of record too.

*Explorer.* `ExhaustedIsComplete` is about the end; on the way every state seen that waits in
no frontier was tried with every action, and the one being visited with the actions before
the present one (`AllTested`). When nothing waits, the states seen are closed under `apply`
and hold everything reachable; that they hold nothing else is kept along (`OnlyReachable`).
That a frontier has a least state is a fact about naturals the proof takes from
well-founded induction. `AlarmsAreReal` follows: what is reported is reachable, and a set
that holds the start and is closed under `apply` holds whatever is reachable. For the compact
model, its states numbered, the states that satisfy the invariant of `CompactModelProofs` are such
a set, and a search of it reports no violation at any depth; this last link is an argument on
paper, for the two modules are not composed.

*Report.* `ReportIsExact` compares with `Within(n)`, the states at most `n` steps away, which is
defined without any search. The search is breadth first (`Layered`): what was seen before
a round is `Within(round)`, what it adds lies within one step more, a state waits with a trace
as long as its layer, and the last round leaves nothing behind. A search that stopped early
stopped because a layer was empty, and then no later layer differs (`WithinStays`). The pairs tried
are those of states that no longer wait, and of the one being visited the actions passed
(`PairsTried`); no pair is tried twice, so the counters are cardinalities (`Counted`). For
that, an action must stand only once in `Action::ALL`. Every trace kept leads to its state
(`Replayed`); the first violation is found in the first layer that has one. The same pairs
measure the search: each step tries one more, completes a round or returns, so a finite
model is searched in at most `|States| * |Actions| + |States|` steps at any depth (`SearchEnds`).

*Command.* Halfway through its arguments the command knows the depth and the flag of the words
it has taken: each is a flag or a number, the last of them is never a `--depth` without its
value (`WordsTaken`), and the depth is the value after the last `--depth` taken, or 8
(`DepthTaken`). Until `explore` is called the search is at its beginning for that depth, for the
depth is read before any state is visited; then all words are taken, so the depth is the
one asked for, and `SearchInv` of the explorer goes on. An exit with 0 or 1 is a
request for help or the verdict on a finished report (`ExitJustified`).

Only model-checked: the three refutations, which are counterexamples; that `TimeFlows` is what `WF`
says, as above; and `Answers`, the liveness of the command: the steps to its answer are bounded
by `SearchEnds`, but their number depends on the model, and a leads-to over so many steps
needs an induction over temporal formulas the prover does not do.

The library's induction theorems take a predicate as parameter and cannot be used here. Where the
proofs need induction over numbers, as for `Within`, it is derived for a *set* of numbers: a
set of naturals has a least element (`LeastNatural`), so one that has 0 and with each number
the next has all (`NaturalsByStep`). No module has a RECURSIVE operator.

Assumptions the proofs use are the named `ASSUME`s of the modules, which TLC evaluates in the
runs: capabilities carry natural-number epochs and times (`CapabilityAssumption`), the witness
is no data node, the bounds are numbers (`CompactAssumption`, `FailoverAssumption`, which also
has the skew covered by the guard), `None` is no gate (`NoGateIsNone`), a model to explore is
a table from states and actions, starts without a writer and lists each action once
(`ExploreAssumption`), the words of a command line are strings and those that parse as a
number are not flags (`SimulatorAssumption`), a policy is tried with finitely many voters
(`PolicyAssumption`), times stay below `MaxU64` where nothing tests them (`ChainAssumption`,
`MaxU64Assumption`). `AuthorityEnds` assumes beside them that `None` is no number.

## 6. Not modelled

- The agent and the witness: one `match` on the first argument, no state, and nothing they
  do reaches another part. The driver they will become is `Failover`'s, marked external.
- The characters and length of identifiers (`validate_identifier`): no other code depends on
  more than equality. The wording of errors and of the report.
- Votes, signatures and receipts as messages: the core takes evidence as authentic.
- The target of an effect: that it compares epochs, as `LateEffectIsStale` makes possible, is
  left to an adapter that does not exist (`docs/ARCHITECTURE.md:59`).
- A store that rolls back, a reused incarnation, a falsely confirmed record: the code
  excludes them by contract (`docs/SAFETY.md:25`).

## 7. Plan

Order of work, most important behaviour first; all of it is done.

1. `Refusals`, `PromotionProof`, `EffectGate`: the core crate as operators.
2. `GateLife` with its runs, and its inductive invariant proved.
3. `WriterAuthority`, `CompactModel`: the simulator, refinement, liveness.
4. `Failover`, `ProofChain`: the core crate under concurrency, and by itself.
5. `Explore`, `Simulator`: what the simulator's verdict is worth.
6. Proofs: all of section 5.

What could follow: a driver module translated from the agent once it calls the core, in place of the external one.
