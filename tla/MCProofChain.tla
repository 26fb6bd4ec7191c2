---------------------------- MODULE MCProofChain ----------------------------
(***************************************************************************)
(* ProofChain for TLC: two candidates and a witness, every quorum size,    *)
(* with and without a required witness and the gate-expiry fence.          *)
(***************************************************************************)
EXTENDS ProofChain, TLC

CONSTANTS A, B, W, X

RawPolicy(q, witness, allowed) ==
    [workload |-> "w", policy_hash |-> 5, candidates |-> {A, B}, voters |-> {A, B, W},
     quorum_size |-> q, required_witness |-> witness, min_health_checks |-> 1,
     max_evidence_age_ms |-> 1, max_lease_duration_ms |-> 2, lease_guard_ms |-> 1,
     allow_gate_expiry_fence |-> allowed]

MCRawPolicies ==
    {RawPolicy(q, witness, TRUE) : q \in 0..3, witness \in {None, W}}
        \cup {RawPolicy(2, None, FALSE)}

MCVoteLists == UNION {{<<n>>, <<n, W>>, <<n, n>>, <<X, n>>} : n \in {A, B}}
                 \cup {<<A, B, W>>, <<B, A, W>>}

Interchangeable == Permutations({A, B})

MCStrangers == {X}
=============================================================================
