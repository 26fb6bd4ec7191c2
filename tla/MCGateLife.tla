----------------------------- MODULE MCGateLife -----------------------------
(***************************************************************************)
(* GateLife for TLC: two epochs, capabilities for two process lives, one   *)
(* for another node and one under another policy; the first epoch's lease  *)
(* starts after time 0 so that an early activation is refused.             *)
(***************************************************************************)
EXTENDS GateLife

CONSTANTS Other, OtherPolicy

Capability(candidate, incarnation, epoch, policy) ==
    [workload |-> Workload, candidate |-> candidate,
     candidate_incarnation |-> incarnation, epoch |-> epoch, policy_hash |-> policy,
     not_before_ms |-> 1, expires_at_ms |-> 1 + epoch,
     durable_commit |-> 1, state_root |-> 1, fence_class |-> "HardwarePower"]

MCCapabilities ==
    {Capability(Node, i, e, Policy) : i \in 1..MaxIncarnation, e \in 1..2}
        \cup {Capability(Other, 1, 2, Policy), Capability(Node, 1, 2, OtherPolicy)}

MCHolders == {Node, Other}
=============================================================================
