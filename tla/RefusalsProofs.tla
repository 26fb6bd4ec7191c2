--------------------------- MODULE RefusalsProofs ---------------------------
(***************************************************************************)
(* What the verdict of a list of checks says about the checks.             *)
(***************************************************************************)
EXTENDS Refusals, FiniteSetTheorems, WellFoundedInduction, TLAPS

(* A non-empty set of positions has a first one. *)
LEMMA FirstExists ==
    ASSUME NEW n \in Nat, NEW F, F \subseteq 1..n, F # {}
    PROVE  \E i \in F : \A j \in F : i <= j
<1> DEFINE upTo(i) == {j \in F : j <= i}
           T == {upTo(i) : i \in F}
<1>1. T \subseteq FiniteSubsetsOf(1..n)
  <2>1. IsFiniteSet(1..n)
    BY FS_Interval
  <2>2. FiniteSubsetsOf(1..n) = SUBSET (1..n)
    BY <2>1, FS_FiniteSubsetsOfFinite
  <2> QED
    BY <2>2
<1>2. T # {}
  OBVIOUS
<1>3. PICK U \in T : \A V \in T : <<V, U>> \notin StrictSubsetOrdering(1..n)
  <2>1. IsWellFoundedOn(StrictSubsetOrdering(1..n), FiniteSubsetsOf(1..n))
    BY FS_StrictSubsetOrderingWellFounded
  <2> HIDE DEF T
  <2> QED
    BY <2>1, <1>1, <1>2, WFMin
<1>4. PICK i \in F : U = upTo(i)
  OBVIOUS
<1>5. ASSUME NEW j \in F, ~(i <= j) PROVE FALSE
  <2>1. i \in 1..n /\ j \in 1..n /\ j < i
    BY <1>5, SMT
  <2>2. upTo(j) \subseteq upTo(i) /\ i \in upTo(i) /\ i \notin upTo(j)
    <3>1. \A k \in F : k \in Int
      BY SMT
    <3>2. ASSUME NEW k \in F, k <= j PROVE k <= i
      BY <2>1, <3>1, <3>2, SMT
    <3>3. i <= i /\ ~(i <= j)
      BY <2>1, SMT
    <3> QED
      BY <3>2, <3>3
  <2>3. <<upTo(j), upTo(i)>> \in (SUBSET (1..n)) \X (SUBSET (1..n))
    OBVIOUS
  <2>4. <<upTo(j), upTo(i)>> \in StrictSubsetOrdering(1..n)
    BY <2>2, <2>3 DEF StrictSubsetOrdering
  <2> QED
    BY <2>4, <1>3, <1>4
<1> QED
  BY <1>5

(* A list answers Ok exactly when every one of its conditions holds: an early  *)
(* return is never skipped and never hides behind another one's success.       *)
THEOREM OkMeansAllHold ==
    ASSUME NEW checks, CheckList(checks)
    PROVE  (Verdict(checks) = Ok) <=> AllHold(checks)
<1>1. AllHold(checks) => Verdict(checks) = Ok
  BY DEF Verdict
<1>2. ASSUME ~AllHold(checks) PROVE Verdict(checks) # Ok
  <2> DEFINE first == CHOOSE i \in Failed(checks) : \A j \in Failed(checks) : i <= j
  <2>1. Failed(checks) # {} /\ Failed(checks) \subseteq 1..Len(checks)
    BY <1>2 DEF AllHold, Failed, CheckList
  <2>2. \E i \in Failed(checks) : \A j \in Failed(checks) : i <= j
    BY <2>1, FirstExists DEF CheckList
  <2>3. first \in Failed(checks)
    BY <2>2
  <2>4. checks[first][1] # Ok
    BY <2>3 DEF Failed, CheckList
  <2> QED
    BY <1>2, <2>4 DEF Verdict
<1> QED
  BY <1>1, <1>2
=============================================================================
