------------------------- MODULE JobAttempts_proofs -------------------------
(***************************************************************************)
(* What the abstract promise about a job's work amounts to.                *)
(* JobQueue_proofs shows that the job framework keeps it.                  *)
(***************************************************************************)
EXTENDS JobAttempts, TLAPS

\* Every reachable state is well typed.
THEOREM TypeCorrect == Spec => []TypeOK
<1>1. Init => TypeOK
  BY DEF Init, TypeOK, Stage
<1>2. TypeOK /\ [Next]_vars => TypeOK'
  <2> SUFFICES ASSUME TypeOK, [Next]_vars
               PROVE  TypeOK'
    OBVIOUS
  <2> USE DEF TypeOK, Stage, Go
  <2>1. ASSUME NEW j \in Jobs, Submit(j) PROVE TypeOK'
    BY <2>1 DEF Submit
  <2>2. ASSUME NEW j \in Jobs, Begin(j) PROVE TypeOK'
    BY <2>2 DEF Begin
  <2>3. ASSUME NEW j \in Jobs, Again(j) PROVE TypeOK'
    BY <2>3 DEF Again
  <2>4. ASSUME NEW S \in SUBSET Jobs, Finish(S) PROVE TypeOK'
    BY <2>4 DEF Finish
  <2>5. CASE UNCHANGED vars
    BY <2>5 DEF vars
  <2> QED
    BY <2>1, <2>2, <2>3, <2>4, <2>5 DEF Next
<1> QED
  BY <1>1, <1>2, PTL DEF Spec

\* A job's handler runs at most once more than its policy has retries.
THEOREM RunsBoundedCorrect ==
  ASSUME MaxRetries \in [Jobs -> Nat]
  PROVE  Spec => []RunsBounded
<1>1. Init => RunsBounded
  <2> SUFFICES ASSUME Init, NEW j \in Jobs
               PROVE  runs[j] <= MaxRetries[j] +
                          (IF stage[j] \in {"new", "waiting"} THEN 0 ELSE 1)
    BY DEF RunsBounded
  <2>1. MaxRetries[j] \in Nat
    OBVIOUS
  <2>2. runs[j] = 0 /\ stage[j] = "new"
    BY DEF Init
  <2> QED
    BY <2>1, <2>2
<1>2. TypeOK /\ RunsBounded /\ [Next]_vars => RunsBounded'
  <2> SUFFICES ASSUME TypeOK, RunsBounded, [Next]_vars
               PROVE  RunsBounded'
    OBVIOUS
  <2> USE DEF TypeOK, RunsBounded, Stage, Go
  <2> MaxRetries \in [Jobs -> Nat]
    OBVIOUS
  <2>1. ASSUME NEW j \in Jobs, Submit(j) PROVE RunsBounded'
    BY <2>1 DEF Submit
  <2>2. ASSUME NEW j \in Jobs, Begin(j) PROVE RunsBounded'
    BY <2>2 DEF Begin
  <2>3. ASSUME NEW j \in Jobs, Again(j) PROVE RunsBounded'
    BY <2>3 DEF Again
  <2>4. ASSUME NEW S \in SUBSET Jobs, Finish(S) PROVE RunsBounded'
    BY <2>4 DEF Finish
  <2>5. CASE UNCHANGED vars
    BY <2>5 DEF vars
  <2> QED
    BY <2>1, <2>2, <2>3, <2>4, <2>5 DEF Next
<1> QED
  BY <1>1, <1>2, TypeCorrect, PTL DEF Spec

\* What is over is never run again.
THEOREM OverIsFinalCorrect == Spec => OverIsFinal
<1> DEFINE Final == \A j \in Jobs : stage[j] = "over"
                                    => UNCHANGED <<stage[j], runs[j]>>
<1>1. TypeOK /\ [Next]_vars => [Final]_vars
  <2> SUFFICES ASSUME TypeOK, [Next]_vars, NEW j \in Jobs, stage[j] = "over"
               PROVE  UNCHANGED <<stage[j], runs[j]>>
    OBVIOUS
  <2> USE DEF TypeOK, Stage, Go
  <2>1. ASSUME NEW i \in Jobs, Submit(i) \/ Begin(i) \/ Again(i)
        PROVE  UNCHANGED <<stage[j], runs[j]>>
    BY <2>1 DEF Submit, Begin, Again
  <2>2. ASSUME NEW S \in SUBSET Jobs, Finish(S)
        PROVE  UNCHANGED <<stage[j], runs[j]>>
    BY <2>2 DEF Finish
  <2>3. CASE UNCHANGED vars
    BY <2>3 DEF vars
  <2> QED
    BY <2>1, <2>2, <2>3 DEF Next
<1> QED
  BY <1>1, TypeCorrect, PTL DEF Spec, OverIsFinal
=============================================================================
