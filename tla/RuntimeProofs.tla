---------------------------- MODULE RuntimeProofs ----------------------------
(***************************************************************************)
(* Proofs about PreemptionRuntime for every value of its constants.        *)
(***************************************************************************)
EXTENDS PreemptionRuntime, TLAPS

\* The type invariant and the broker's accounting are proved together: that a
\* sum of units stays within MaxUnits follows from what the contract granted.
TypeInv == TypeOK /\ AccountingCloses

\* Each saturating or wrapping successor of a generation is a generation.
LEMMA GenerationSuccessors ==
  ASSUME NEW g \in Generations
  PROVE  next(g) \in Generations /\ Generation_advance(g) \in Generations
BY BrokerAssumption DEF next, Generation_advance, Generations

\* The larger of two positions is a position.
LEMMA MaxPosition ==
  ASSUME NEW a \in Positions, NEW b \in Positions
  PROVE  /\ max(a, b) \in Positions
         /\ max(a, b) >= a /\ max(a, b) >= b
BY RuntimeAssumption DEF Positions, max

\* The runtime starts well typed, with nothing granted.
LEMMA TypeInit == Init => TypeInv
<1> SUFFICES ASSUME Init PROVE TypeInv
  OBVIOUS
<1> USE BrokerAssumption, RuntimeAssumption DEF Init
<1>1. BrokerTypeOK /\ AccountingCloses
  BY DEF BrokerInit, BrokerTypeOK, AccountingCloses, Scopes, Generations, Units
<1>2. authority \in Authorities
  BY DEF Authorities, Scopes, Generations, AllBoots
<1>3. /\ attempt_generation \in Generations /\ progress_generation \in Generations
      /\ durable_progress_generation \in Generations
      /\ checkpoint_generation \in Generations /\ resume_generation \in Generations
      /\ current_checkpoint_gen \in Generations /\ fenced_generation \in Generations
      /\ checkpoint_ref \in 0 .. MaxCaptures /\ capture_count \in 0 .. MaxCaptures
      /\ current_position \in Positions /\ durable_position \in Positions
  BY DEF Generations, Positions
<1>4. safe_points \in [SafePointIds -> {"Undeclared", "Declared", "Valid"}]
  OBVIOUS
<1>5. captures \in SUBSET CaptureResults /\ proved \in SUBSET Evidence
  OBVIOUS
<1> QED
  BY <1>1, <1>2, <1>3, <1>4, <1>5 DEF TypeInv, TypeOK, LifecycleStates, Scopes, AllBoots

USE DEF scopeVars, safePointVars, progressVars, flagVars, checkpointVars,
        captureVars, historyVars, brokerVars, transition, transition2,
        progress_accepted, request_accepted, commit_accepted

\* Every method and every step of a sibling fabric keeps the types and the
\* accounting.
LEMMA TypeStep == TypeInv /\ [Next]_vars => TypeInv'
<1> SUFFICES ASSUME TypeInv, [Next]_vars PROVE TypeInv'
  OBVIOUS
<1> USE BrokerAssumption, RuntimeAssumption DEF TypeInv
<1>1. ASSUME NEW e \in Executions, NEW g \in Generations \ {0}, NEW boot \in Boots,
             start_execution(e, g, boot)
      PROVE  TypeInv'
  <2>1. authority' \in Authorities
    BY <1>1 DEF start_execution, Authorities, Scopes, AllBoots
  <2>2. proved' \in SUBSET Evidence /\ fenced_generation' \in Generations
    BY <1>1 DEF start_execution, Generations
  <2> QED
    BY <1>1, <2>1, <2>2 DEF start_execution, TypeOK, BrokerTypeOK, AccountingCloses,
       LifecycleStates, Scopes, AllBoots
<1>2. ASSUME NEW boot \in Boots, set_worker_incarnation(boot)
      PROVE  TypeInv'
  BY <1>2 DEF set_worker_incarnation, TypeOK, BrokerTypeOK, AccountingCloses, AllBoots
<1>3. ASSUME NEW id \in SafePointIds, declare_safe_point(id)
      PROVE  TypeInv'
  BY <1>3 DEF declare_safe_point, TypeOK, BrokerTypeOK, AccountingCloses
<1>4. ASSUME NEW id \in SafePointIds, NEW pos \in Positions, NEW c \in BOOLEAN,
             reach_safe_point(id, pos, c)
      PROVE  TypeInv'
  BY <1>4, MaxPosition DEF reach_safe_point, TypeOK, BrokerTypeOK, AccountingCloses,
     LifecycleStates, SafePointCopies
<1>5. ASSUME NEW pos \in Positions, NEW durable \in BOOLEAN, publish_progress(pos, durable)
      PROVE  TypeInv'
  BY <1>5, MaxPosition, GenerationSuccessors
     DEF publish_progress, TypeOK, BrokerTypeOK, AccountingCloses
<1>6. ASSUME NEW req \in Requests, request_preemption(req)
      PROVE  TypeInv'
  BY <1>6 DEF request_preemption, TypeOK, BrokerTypeOK, AccountingCloses, LifecycleStates,
     Requests, RequestKeys
<1>7. ASSUME begin_quiesce PROVE TypeInv'
  BY <1>7 DEF begin_quiesce, TypeOK, BrokerTypeOK, AccountingCloses, LifecycleStates
<1>8. ASSUME NEW boot \in Boots, NEW q \in BOOLEAN, report_quiesced(boot, q)
      PROVE  TypeInv'
  <2>1. capture_owed' \in BOOLEAN
    BY <1>8, Zenon DEF report_quiesced, capture_required, AtValidSafePoint
  <2> QED
    BY <1>8, <2>1 DEF report_quiesced, TypeOK, BrokerTypeOK, AccountingCloses,
       LifecycleStates, Evidence, AllBoots
<1>9. ASSUME NEW ok \in BOOLEAN, request_state_capture(ok)
      PROVE  TypeInv'
  <2>1. capture_count' \in 0 .. MaxCaptures /\ captures' \in SUBSET CaptureResults
    <3>1. CASE capture_required
      BY <1>9, <3>1, GenerationSuccessors
         DEF request_state_capture, request_capture, TypeOK, CaptureResults
    <3>2. CASE ~capture_required
      BY <1>9, <3>2 DEF request_state_capture, TypeOK
    <3> QED BY <3>1, <3>2
  <2>2. proved' \in SUBSET Evidence /\ state_durable' \in BOOLEAN
    BY <1>9 DEF request_state_capture, TypeOK, Evidence
  <2>3. lifecycle' \in LifecycleStates /\ current_checkpoint_gen' \in Generations
    BY <1>9 DEF request_state_capture, request_capture, TypeOK, LifecycleStates
  <2> QED
    BY <1>9, <2>1, <2>2, <2>3 DEF request_state_capture, TypeOK, BrokerTypeOK,
       AccountingCloses
<1>10. ASSUME NEW result \in captures, NEW intact \in BOOLEAN,
              report_state_captured(result, intact)
       PROVE  TypeInv'
  <2>1. checkpoint_ref' \in 0 .. MaxCaptures /\ checkpoint_generation' \in Generations
    <3>1. result.ref \in 1 .. MaxCaptures /\ result.generation \in Generations
      BY DEF TypeOK, CaptureResults
    <3> QED BY <1>10, <3>1 DEF report_state_captured, TypeOK
  <2>2. proved' \in SUBSET Evidence /\ state_durable' \in BOOLEAN
    BY <1>10 DEF report_state_captured, TypeOK, Evidence
  <2>3. lifecycle' \in LifecycleStates
    BY <1>10 DEF report_state_captured, LifecycleStates, OffPath
  <2> QED
    BY <1>10, <2>1, <2>2, <2>3 DEF report_state_captured, TypeOK, BrokerTypeOK,
       AccountingCloses
<1>11. ASSUME request_release PROVE TypeInv'
  BY <1>11 DEF request_release, release_all_leases, TypeOK, BrokerTypeOK, AccountingCloses,
     LifecycleStates, Units
<1>12. ASSUME report_released PROVE TypeInv'
  BY <1>12 DEF report_released, TypeOK, BrokerTypeOK, AccountingCloses, LifecycleStates,
     Evidence
<1>13. ASSUME commit_preempted PROVE TypeInv'
  BY <1>13 DEF commit_preempted, fence_attempt, TypeOK, BrokerTypeOK, AccountingCloses,
     LifecycleStates, Evidence, Authorities
<1>14. ASSUME request_resume PROVE TypeInv'
  BY <1>14, GenerationSuccessors DEF request_resume, resumeFrame, TypeOK, BrokerTypeOK,
     AccountingCloses, LifecycleStates
<1>15. ASSUME NEW intact \in BOOLEAN, NEW dep \in DependencyStatus, revalidate(intact, dep)
       PROVE  TypeInv'
  BY <1>15 DEF revalidate, resumeFrame, TypeOK, BrokerTypeOK, AccountingCloses,
     LifecycleStates, OffPath
<1>16. ASSUME NEW intact \in BOOLEAN, restore(intact) PROVE TypeInv'
  BY <1>16 DEF restore, resumeFrame, TypeOK, BrokerTypeOK, AccountingCloses,
     LifecycleStates, OffPath
<1>17. ASSUME confirm_resumed PROVE TypeInv'
  BY <1>17, GenerationSuccessors DEF confirm_resumed, grant_fresh_attempt_authority,
     resumeFrame, TypeOK, BrokerTypeOK, AccountingCloses, LifecycleStates, Authorities
<1>18. ASSUME cancel \/ complete PROVE TypeInv'
  BY <1>18 DEF cancel, complete, resumeFrame, TypeOK, BrokerTypeOK, AccountingCloses,
     LifecycleStates, OffPath
<1>19. ASSUME revoke_authority PROVE TypeInv'
  BY <1>19 DEF revoke_authority, fabricFrame, TypeOK, BrokerTypeOK, AccountingCloses,
     Authorities
<1>20. ASSUME NEW g \in Generations, set_current_checkpoint_generation(g) PROVE TypeInv'
  BY <1>20 DEF set_current_checkpoint_generation, fabricFrame, TypeOK, BrokerTypeOK,
     AccountingCloses
<1>21. ASSUME BrokerActs PROVE TypeInv'
  <2>1. BrokerTypeOK' /\ AccountingCloses'
    <3>1. ASSUME NEW e \in Executions, NEW g \in Generations,
                 NEW leases \in [Resources -> Units], set_contract(e, g, leases)
          PROVE  BrokerTypeOK' /\ AccountingCloses'
      BY <3>1 DEF set_contract, BrokerTypeOK, AccountingCloses, Scopes, Units
    <3>2. ASSUME advance_contract PROVE BrokerTypeOK' /\ AccountingCloses'
      BY <3>2, GenerationSuccessors DEF advance_contract, TypeOK, BrokerTypeOK,
         AccountingCloses
    <3>3. ASSUME NEW e \in Executions, NEW rc \in Resources, NEW units \in Units,
                 NEW g \in Generations, broker_release(e, rc, units, g)
          PROVE  BrokerTypeOK' /\ AccountingCloses'
      BY <3>3 DEF broker_release, TypeOK, BrokerTypeOK, AccountingCloses, Units
    <3>4. ASSUME NEW e \in Executions, NEW rc \in Resources, NEW units \in Units,
                 NEW g \in Generations, reacquire(e, rc, units, g)
          PROVE  BrokerTypeOK' /\ AccountingCloses'
      BY <3>4, GenerationSuccessors DEF reacquire, TypeOK, BrokerTypeOK,
         AccountingCloses, Units
    <3> QED
      BY <1>21, <3>1, <3>2, <3>3, <3>4 DEF BrokerActs, BrokerNext
  <2> QED
    BY <1>21, <2>1 DEF BrokerActs, fabricFrame, TypeOK
<1>22. ASSUME UNCHANGED vars PROVE TypeInv'
  BY <1>22 DEF vars, TypeOK, BrokerTypeOK, AccountingCloses
<1> QED
  BY <1>1, <1>2, <1>3, <1>4, <1>5, <1>6, <1>7, <1>8, <1>9, <1>10, <1>11, <1>12, <1>13,
     <1>14, <1>15, <1>16, <1>17, <1>18, <1>19, <1>20, <1>21, <1>22
     DEF Next, RegistrationActs, ExecutionActs, PreemptionActs, ResumeActs, EndActs, FabricActs

\* The runtime and the fabrics keep the type of every field.
THEOREM TypeHolds == Spec => []TypeOK
<1>1. TypeInv => TypeOK
  BY DEF TypeInv
<1> QED
  BY <1>1, TypeInit, TypeStep, PTL DEF Spec

\* request_release and reacquire neither lose nor invent a unit: reserved and
\* released always add up to what the contract granted.
THEOREM AccountingHolds == Spec => []AccountingCloses
<1>1. TypeInv => AccountingCloses
  BY DEF TypeInv
<1> QED
  BY <1>1, TypeInit, TypeStep, PTL DEF Spec

------------------------------------------------------------------------------
(* Evidence, fencing and fresh authority *)

ControlInv == BoundariesSinceRequest /\ FencedWhilePreempted /\ FreshResumeAuthority

\* A fresh runtime has proved nothing and is in no stage that needs a proof.
LEMMA ControlInit == Init => ControlInv
BY DEF Init, ControlInv, BoundariesSinceRequest, FencedWhilePreempted,
       FreshResumeAuthority, Fenced, is_preempted_durable, QuiescedStages, DurableStages

\* Every step keeps the evidence behind the stage the lifecycle is in, the fence
\* behind a committed preemption and the generation it was fenced at.
LEMMA ControlStep == TypeOK /\ ControlInv /\ [Next]_vars => ControlInv'
<1> SUFFICES ASSUME TypeOK, ControlInv, [Next]_vars PROVE ControlInv'
  OBVIOUS
<1> USE DEF ControlInv, BoundariesSinceRequest, FencedWhilePreempted,
            FreshResumeAuthority, Fenced, is_preempted_durable, QuiescedStages,
            DurableStages
<1>1. ASSUME NEW e \in Executions, NEW g \in Generations \ {0}, NEW boot \in Boots,
             start_execution(e, g, boot)
      PROVE  ControlInv'
  BY <1>1 DEF start_execution
<1>2. ASSUME UNCHANGED <<lifecycle, authority, proved, fenced_generation>>
      PROVE  ControlInv'
  BY <1>2
<1>3. ASSUME NEW id \in SafePointIds, NEW pos \in Positions, NEW c \in BOOLEAN,
             reach_safe_point(id, pos, c)
      PROVE  ControlInv'
  BY <1>3 DEF reach_safe_point
<1>4. ASSUME NEW req \in Requests, request_preemption(req)
      PROVE  ControlInv'
  BY <1>4 DEF request_preemption
<1>5. ASSUME begin_quiesce PROVE ControlInv'
  BY <1>5 DEF begin_quiesce
<1>6. ASSUME NEW boot \in Boots, NEW q \in BOOLEAN, report_quiesced(boot, q)
      PROVE  ControlInv'
  BY <1>6 DEF report_quiesced
<1>7. ASSUME NEW ok \in BOOLEAN, request_state_capture(ok)
      PROVE  ControlInv'
  BY <1>7 DEF request_state_capture
<1>8. ASSUME NEW result \in captures, NEW intact \in BOOLEAN,
             report_state_captured(result, intact)
      PROVE  ControlInv'
  BY <1>8 DEF report_state_captured
<1>9. ASSUME request_release PROVE ControlInv'
  BY <1>9 DEF request_release
<1>10. ASSUME report_released PROVE ControlInv'
  BY <1>10 DEF report_released
<1>11. ASSUME commit_preempted PROVE ControlInv'
  <2>1. lifecycle' = "Preempted"
    BY <1>11 DEF commit_preempted
  <2>2. proved' = Evidence
    BY <1>11 DEF commit_preempted, TypeOK, Evidence
  <2>3. /\ ~authority'.authoritative
        /\ authority'.generation = fenced_generation'
    BY <1>11 DEF commit_preempted, fence_attempt, TypeOK, Authorities
  <2> QED BY <2>1, <2>2, <2>3
<1>12. ASSUME request_resume PROVE ControlInv'
  BY <1>12 DEF request_resume, resumeFrame
<1>13. ASSUME NEW intact \in BOOLEAN, NEW dep \in DependencyStatus, revalidate(intact, dep)
       PROVE  ControlInv'
  BY <1>13 DEF revalidate, resumeFrame
<1>14. ASSUME NEW intact \in BOOLEAN, restore(intact) PROVE ControlInv'
  BY <1>14 DEF restore, resumeFrame
<1>15. ASSUME confirm_resumed PROVE ControlInv'
  <2>1. lifecycle' = "Resumed" /\ UNCHANGED <<proved, fenced_generation>>
    BY <1>15 DEF confirm_resumed, resumeFrame
  <2>2. authority.generation = fenced_generation /\ proved = Evidence
    BY <1>15 DEF confirm_resumed
  <2>3. authority'.generation = next(authority.generation)
    BY <1>15 DEF confirm_resumed, grant_fresh_attempt_authority
  <2>4. authority'.generation > fenced_generation' \/ fenced_generation' = MaxGen
    BY <2>1, <2>2, <2>3 DEF next, TypeOK, Generations
  <2> QED BY <2>1, <2>2, <2>4
<1>16. ASSUME cancel \/ complete PROVE ControlInv'
  BY <1>16 DEF cancel, complete, resumeFrame
<1>17. ASSUME revoke_authority PROVE ControlInv'
  <2>1. /\ ~authority'.authoritative
        /\ authority'.generation = authority.generation
    BY <1>17 DEF revoke_authority, TypeOK, Authorities
  <2> QED BY <1>17, <2>1 DEF revoke_authority, fabricFrame
<1>18. ASSUME \/ \E boot \in Boots : set_worker_incarnation(boot)
              \/ \E id \in SafePointIds : declare_safe_point(id)
              \/ \E pos \in Positions, durable \in BOOLEAN : publish_progress(pos, durable)
              \/ \E g \in Generations : set_current_checkpoint_generation(g)
              \/ BrokerActs
              \/ UNCHANGED vars
       PROVE  UNCHANGED <<lifecycle, authority, proved, fenced_generation>>
  BY <1>18 DEF set_worker_incarnation, declare_safe_point, publish_progress,
     set_current_checkpoint_generation, BrokerActs, fabricFrame, vars
<1> QED
  BY <1>1, <1>2, <1>3, <1>4, <1>5, <1>6, <1>7, <1>8, <1>9, <1>10, <1>11, <1>12, <1>13,
     <1>14, <1>15, <1>16, <1>17, <1>18
     DEF Next, RegistrationActs, ExecutionActs, PreemptionActs, ResumeActs, EndActs, FabricActs

\* Every boundary that a stage presumes was accepted since the active request was
\* admitted, although the flags that commit_preempted reads are never cleared.
THEOREM SinceRequestHolds == Spec => []BoundariesSinceRequest
<1>1. TypeInv /\ ControlInv => BoundariesSinceRequest
  BY DEF ControlInv
<1>2. TypeInv => TypeOK
  BY DEF TypeInv
<1> QED
  BY <1>1, <1>2, TypeInit, TypeStep, ControlInit, ControlStep, PTL DEF Spec

\* Between commit_preempted and confirm_resumed nobody is authoritative.
THEOREM FencingHolds == Spec => []FencedWhilePreempted
<1>1. ControlInv => FencedWhilePreempted
  BY DEF ControlInv
<1>2. TypeInv => TypeOK
  BY DEF TypeInv
<1> QED
  BY <1>1, <1>2, TypeInit, TypeStep, ControlInit, ControlStep, PTL DEF Spec

\* Asked with the runtime's own answers, priority_inversion_assessment never
\* recommends preempting what is preempted already.
THEOREM RecommendationHolds == Spec => []PreemptedNeverRecommended
<1>1. FencedWhilePreempted => PreemptedNeverRecommended
  <2> SUFFICES ASSUME FencedWhilePreempted, Fenced(lifecycle),
                      NEW input \in InversionInputs,
                      input.holder_authoritative = current_attempt_authority
               PROVE  ~positive_recommendation(priority_inversion_assessment(input))
    BY Zenon DEF PreemptedNeverRecommended
  <2>1. ~input.holder_authoritative
    BY DEF FencedWhilePreempted, current_attempt_authority
  <2>2. inversion_resolution(input) = "DoesNotResolve"
    BY <2>1, Zenon DEF inversion_resolution
  <2> QED
    BY <2>2 DEF positive_recommendation, priority_inversion_assessment
<1> QED
  BY <1>1, FencingHolds, PTL

\* A resumed execution runs under a newer attempt generation than the fenced one.
THEOREM FreshAuthorityHolds == Spec => []FreshResumeAuthority
<1>1. ControlInv => FreshResumeAuthority
  BY DEF ControlInv
<1>2. TypeInv => TypeOK
  BY DEF TypeInv
<1> QED
  BY <1>1, <1>2, TypeInit, TypeStep, ControlInit, ControlStep, PTL DEF Spec

------------------------------------------------------------------------------
(* Checkpoint and progress *)

\* What is on record is real, what is durable has been reached, a reached safe point
\* is still there when quiescence begins, and what is preempted was released.
RecordInv ==
  /\ CheckpointIsReal
  /\ DurableWithinCurrent
  /\ lifecycle = "SafePointReached" => AtValidSafePoint
  /\ lifecycle = "ResourcesReleased" \/ is_preempted_durable(lifecycle) =>
       resources_released

\* A fresh runtime has neither a checkpoint nor progress.
LEMMA RecordInit == Init => RecordInv
BY DEF Init, RecordInv, CheckpointIsReal, DurableWithinCurrent, is_preempted_durable

\* Only report_state_captured records a checkpoint, and only a successful one of
\* the fabric; only publish_progress moves the durable boundary.
LEMMA RecordStep == TypeOK /\ RecordInv /\ [Next]_vars => RecordInv'
<1> SUFFICES ASSUME TypeOK, RecordInv, [Next]_vars PROVE RecordInv'
  OBVIOUS
<1> USE DEF RecordInv
<1>1. CheckpointIsReal'
  <2>1. ASSUME captures \subseteq captures', UNCHANGED checkpointVars
        PROVE  CheckpointIsReal'
    BY <2>1 DEF CheckpointIsReal
  <2>2. ASSUME NEW result \in captures, NEW intact \in BOOLEAN,
               report_state_captured(result, intact)
        PROVE  CheckpointIsReal'
    <3>1. CASE capture_usable(result, intact)
      <4>1. result \in CaptureResults /\ result.success = TRUE
        BY <3>1 DEF capture_usable, TypeOK, CaptureResults
      <4>2. result = [ref |-> result.ref, generation |-> result.generation,
                      success |-> TRUE]
        BY <4>1 DEF CaptureResults
      <4> QED
        BY <2>2, <3>1, <4>2 DEF report_state_captured, CheckpointIsReal
    <3>2. CASE ~capture_usable(result, intact)
      BY <2>1, <2>2, <3>2 DEF report_state_captured
    <3> QED BY <3>1, <3>2
  <2>3. ASSUME NEW ok \in BOOLEAN, request_state_capture(ok)
        PROVE  CheckpointIsReal'
    BY <2>1, <2>3 DEF request_state_capture, request_capture
  <2> QED
    BY <2>1, <2>2, <2>3
       DEF Next, RegistrationActs, ExecutionActs, PreemptionActs, ResumeActs, EndActs, FabricActs, vars,
           start_execution, set_worker_incarnation, declare_safe_point, reach_safe_point,
           publish_progress, request_preemption, begin_quiesce, report_quiesced,
           request_release, report_released, commit_preempted, request_resume, revalidate,
           restore, confirm_resumed, cancel, complete, resumeFrame, revoke_authority,
           set_current_checkpoint_generation, BrokerActs, fabricFrame
<1>2. DurableWithinCurrent'
  <2>1. ASSUME UNCHANGED progressVars PROVE DurableWithinCurrent'
    BY <2>1 DEF DurableWithinCurrent
  <2>2. ASSUME NEW id \in SafePointIds, NEW pos \in Positions, NEW c \in BOOLEAN,
               reach_safe_point(id, pos, c)
        PROVE  DurableWithinCurrent'
    BY <2>2 DEF reach_safe_point, DurableWithinCurrent, TypeOK, Positions, max
  <2>3. ASSUME NEW pos \in Positions, NEW durable \in BOOLEAN,
               publish_progress(pos, durable)
        PROVE  DurableWithinCurrent'
    BY <2>3, BrokerAssumption DEF publish_progress, DurableWithinCurrent, TypeOK,
       Positions, Generations, max, next
  <2> QED
    BY <2>1, <2>2, <2>3
       DEF Next, RegistrationActs, ExecutionActs, PreemptionActs, ResumeActs, EndActs, FabricActs, vars,
           start_execution, set_worker_incarnation, declare_safe_point,
           request_preemption, begin_quiesce, report_quiesced, request_state_capture,
           report_state_captured, request_release, report_released, commit_preempted,
           request_resume, revalidate, restore, confirm_resumed, cancel, complete,
           resumeFrame, revoke_authority, set_current_checkpoint_generation, BrokerActs,
           fabricFrame
<1>3. lifecycle' = "SafePointReached" => AtValidSafePoint'
  <2>1. ASSUME NEW id \in SafePointIds, NEW pos \in Positions, NEW c \in BOOLEAN,
               reach_safe_point(id, pos, c)
        PROVE  AtValidSafePoint'
    BY <2>1, RuntimeAssumption DEF reach_safe_point, AtValidSafePoint, SafePointCopies
  <2>2. ASSUME UNCHANGED current_safe_point,
               lifecycle' = lifecycle \/ lifecycle' # "SafePointReached"
        PROVE  lifecycle' = "SafePointReached" => AtValidSafePoint'
    BY <2>2 DEF AtValidSafePoint
  <2> QED
    BY <2>1, <2>2
       DEF Next, RegistrationActs, ExecutionActs, PreemptionActs, ResumeActs, EndActs, FabricActs, vars,
           start_execution, set_worker_incarnation, declare_safe_point, publish_progress,
           request_preemption, begin_quiesce, report_quiesced, request_state_capture,
           report_state_captured, request_release, report_released, commit_preempted,
           request_resume, revalidate, restore, confirm_resumed, cancel, complete,
           resumeFrame, revoke_authority, set_current_checkpoint_generation, BrokerActs,
           fabricFrame
<1>4. (lifecycle = "ResourcesReleased" \/ is_preempted_durable(lifecycle) =>
         resources_released)'
  <2> USE DEF is_preempted_durable
  <2>1. ASSUME UNCHANGED resources_released,
               \/ lifecycle' = lifecycle
               \/ lifecycle' # "ResourcesReleased" /\ ~is_preempted_durable(lifecycle')
               \/ lifecycle = "ResourcesReleased" \/ is_preempted_durable(lifecycle)
        PROVE  (lifecycle = "ResourcesReleased" \/ is_preempted_durable(lifecycle) =>
                  resources_released)'
    BY <2>1
  <2>2. CASE report_released
    BY <2>2 DEF report_released
  <2> QED
    BY <2>1, <2>2
       DEF Next, RegistrationActs, ExecutionActs, PreemptionActs, ResumeActs, EndActs, FabricActs, vars,
           start_execution, set_worker_incarnation, declare_safe_point, reach_safe_point,
           publish_progress, request_preemption, begin_quiesce, report_quiesced,
           request_state_capture, report_state_captured, request_release, commit_preempted,
           request_resume, revalidate, restore, confirm_resumed, cancel, complete,
           resumeFrame, revoke_authority, set_current_checkpoint_generation, BrokerActs,
           fabricFrame
<1> QED BY <1>1, <1>2, <1>3, <1>4

\* The checkpoint on record was captured successfully under the generation on
\* record, whatever results were reported late, twice or out of order.
THEOREM CheckpointHolds == Spec => []CheckpointIsReal
<1>1. /\ TypeInv => TypeOK
      /\ RecordInv => CheckpointIsReal
  BY DEF TypeInv, RecordInv
<1> QED
  BY <1>1, TypeInit, TypeStep, RecordInit, RecordStep, PTL DEF Spec

\* evaluate_migration_destination accepts a destination only for an execution whose
\* resume nothing blocks but perhaps a superseded checkpoint, although it never
\* reads resources_released_.
THEOREM MigrationHolds == Spec => []MigrationAgreesWithResume
<1>1. RecordInv => MigrationAgreesWithResume
  <2> SUFFICES ASSUME RecordInv, NEW current \in BOOLEAN, NEW compatible \in BOOLEAN,
                      NEW intact \in BOOLEAN, NEW dep \in DependencyStatus,
                      evaluate_migration_destination(current, compatible, dep) = "Compatible"
               PROVE  explain_resume_blockers(intact, dep) \subseteq {"state_stale"}
    BY DEF MigrationAgreesWithResume
  <2>1. /\ is_preempted_durable(lifecycle) /\ state_durable /\ checkpoint_ref # 0
        /\ dep \notin {"Stale", "Missing"}
    BY DEF evaluate_migration_destination
  <2>2. resources_released
    BY <2>1 DEF RecordInv
  <2> QED BY <2>1, <2>2 DEF explain_resume_blockers
<1>2. TypeInv => TypeOK
  BY DEF TypeInv
<1> QED
  BY <1>1, <1>2, TypeInit, TypeStep, RecordInit, RecordStep, PTL DEF Spec

\* The rollback that assess() plans is never negative.
THEOREM ProgressHolds == Spec => []DurableWithinCurrent
<1>1. /\ TypeInv => TypeOK
      /\ RecordInv => DurableWithinCurrent
  BY DEF TypeInv, RecordInv
<1> QED
  BY <1>1, TypeInit, TypeStep, RecordInit, RecordStep, PTL DEF Spec

------------------------------------------------------------------------------
(* What a step may never do *)

\* publish_progress is the only action that touches the durable boundary.
LEMMA OnlyPublishMovesDurable ==
  ASSUME [Next]_vars
  PROVE  \/ UNCHANGED <<durable_position, durable_progress_generation>>
         \/ \E pos \in Positions, durable \in BOOLEAN : publish_progress(pos, durable)
BY DEF Next, RegistrationActs, ExecutionActs, PreemptionActs, ResumeActs, EndActs, FabricActs, vars,
       start_execution, set_worker_incarnation, declare_safe_point, reach_safe_point,
       request_preemption, begin_quiesce, report_quiesced, request_state_capture,
       report_state_captured, request_release, report_released, commit_preempted,
       request_resume, revalidate, restore, confirm_resumed, cancel, complete,
       resumeFrame, revoke_authority, set_current_checkpoint_generation, BrokerActs,
       fabricFrame

\* No late publication moves the durable boundary of a preempted execution.
THEOREM FrozenHolds == Spec => DurableFrozenWhilePreempted
<1>1. ControlInv /\ [Next]_vars =>
        [Fenced(lifecycle) =>
           UNCHANGED <<durable_position, durable_progress_generation>>]_vars
  BY OnlyPublishMovesDurable
     DEF ControlInv, FencedWhilePreempted, publish_progress, current_attempt_authority
<1>2. TypeInv => TypeOK
  BY DEF TypeInv
<1> QED
  BY <1>1, <1>2, TypeInit, TypeStep, ControlInit, ControlStep, PTL
     DEF Spec, DurableFrozenWhilePreempted

\* Durable progress and its generation never move backward.
THEOREM MonotonicHolds == Spec => DurableProgressMonotonic
<1>1. TypeOK /\ RecordInv /\ [Next]_vars =>
        [/\ durable_position' >= durable_position
         /\ durable_progress_generation' >= durable_progress_generation]_vars
  <2> SUFFICES ASSUME TypeOK, RecordInv, [Next]_vars
               PROVE  /\ durable_position' >= durable_position
                      /\ durable_progress_generation' >= durable_progress_generation
    OBVIOUS
  <2>1. CASE UNCHANGED <<durable_position, durable_progress_generation>>
    BY <2>1 DEF TypeOK, Positions, Generations
  <2>2. ASSUME NEW pos \in Positions, NEW durable \in BOOLEAN,
               publish_progress(pos, durable)
        PROVE  /\ durable_position' >= durable_position
               /\ durable_progress_generation' >= durable_progress_generation
    BY <2>2, BrokerAssumption DEF publish_progress, not_backward, RecordInv,
       DurableWithinCurrent, TypeOK, Positions, Generations, next
  <2> QED BY <2>1, <2>2, OnlyPublishMovesDurable
<1>2. TypeInv => TypeOK
  BY DEF TypeInv
<1> QED
  BY <1>1, <1>2, TypeInit, TypeStep, RecordInit, RecordStep, PTL
     DEF Spec, DurableProgressMonotonic

\* The runtime quiesces only work that assess() calls preemptible on the spot.
THEOREM QuiesceHolds == Spec => QuiesceOnlyIfPreemptible
<1>1. RecordInv /\ [Next]_vars =>
        [lifecycle' = "Quiescing" /\ lifecycle # "Quiescing" =>
           assess \in {"PreemptibleNow", "PreemptibleAfterStateCapture"}]_vars
  <2> SUFFICES ASSUME RecordInv, [Next]_vars,
                      lifecycle' = "Quiescing", lifecycle # "Quiescing"
               PROVE  assess \in {"PreemptibleNow", "PreemptibleAfterStateCapture"}
    OBVIOUS
  <2>1. begin_quiesce
    BY DEF Next, RegistrationActs, ExecutionActs, PreemptionActs, ResumeActs, EndActs, FabricActs, vars,
       start_execution, set_worker_incarnation, declare_safe_point, reach_safe_point,
       publish_progress, request_preemption, report_quiesced, request_state_capture,
       report_state_captured, request_release, report_released, commit_preempted,
       request_resume, revalidate, restore, confirm_resumed, cancel, complete,
       resumeFrame, revoke_authority, set_current_checkpoint_generation, BrokerActs,
       fabricFrame
  <2>2. AtValidSafePoint
    BY <2>1 DEF begin_quiesce, RecordInv
  <2> QED BY <2>2 DEF assess
<1>2. TypeInv => TypeOK
  BY DEF TypeInv
<1> QED
  BY <1>1, <1>2, TypeInit, TypeStep, RecordInit, RecordStep, PTL
     DEF Spec, QuiesceOnlyIfPreemptible

\* While a request is active the lifecycle only moves forward, and a terminal
\* state is final.
THEOREM AdvancesHolds == Spec => LifecycleOnlyAdvances
<1>1. TypeOK /\ [Next]_vars =>
        [active_request # NoRequest /\ active_request' # NoRequest =>
           lifecycle' = lifecycle \/ rank(lifecycle') > rank(lifecycle)]_vars
  <2> SUFFICES ASSUME TypeOK, [Next]_vars,
                      active_request # NoRequest, active_request' # NoRequest,
                      lifecycle' # lifecycle
               PROVE  rank(lifecycle') > rank(lifecycle)
    OBVIOUS
  <2>1. ASSUME \E id \in SafePointIds, pos \in Positions, c \in BOOLEAN :
                 reach_safe_point(id, pos, c)
        PROVE  rank(lifecycle') > rank(lifecycle)
    BY <2>1 DEF reach_safe_point, rank
  <2>2. ASSUME begin_quiesce PROVE rank(lifecycle') > rank(lifecycle)
    BY <2>2 DEF begin_quiesce, rank
  <2>3. ASSUME \/ \E boot \in Boots, q \in BOOLEAN : report_quiesced(boot, q)
               \/ \E ok \in BOOLEAN : request_state_capture(ok)
               \/ \E result \in captures, intact \in BOOLEAN :
                    report_state_captured(result, intact)
        PROVE  rank(lifecycle') > rank(lifecycle)
    BY <2>3 DEF report_quiesced, request_state_capture, report_state_captured, rank
  <2>4. ASSUME request_release \/ report_released \/ commit_preempted
        PROVE  rank(lifecycle') > rank(lifecycle)
    BY <2>4 DEF request_release, report_released, commit_preempted, rank
  <2>5. ASSUME ResumeActs PROVE rank(lifecycle') > rank(lifecycle)
    BY <2>5 DEF ResumeActs, request_resume, revalidate, restore, confirm_resumed, rank
  <2>6. ASSUME EndActs PROVE rank(lifecycle') > rank(lifecycle)
    BY <2>6 DEF EndActs, cancel, complete, is_terminal, OffPath, TypeOK, LifecycleStates,
       rank
  <2> QED
    BY <2>1, <2>2, <2>3, <2>4, <2>5, <2>6
       DEF Next, RegistrationActs, ExecutionActs, PreemptionActs, FabricActs, vars, start_execution,
           set_worker_incarnation, declare_safe_point, publish_progress,
           request_preemption, revoke_authority, set_current_checkpoint_generation,
           BrokerActs, fabricFrame
<1>2. TypeInv => TypeOK
  BY DEF TypeInv
<1> QED
  BY <1>1, <1>2, TypeInit, TypeStep, PTL DEF Spec, LifecycleOnlyAdvances

------------------------------------------------------------------------------
(* Resources of a preempted execution *)

\* The states from which request_release is behind and confirm_resumed ahead.
Surrendered(s) == s = "ResourcesReleased" \/ Fenced(s)

\* The broker acts on its own only while no preemption is under way.
QuietBroker == BrokerActs => lifecycle = "Invalid"

QuietSpec == Init /\ [][Next /\ QuietBroker]_vars

\* report_released is the only way into those states, and it looks at the broker.
LEMMA SurrenderStep ==
  ASSUME [Next /\ QuietBroker]_vars, Surrendered(lifecycle')
  PROVE  \/ report_released
         \/ Surrendered(lifecycle) /\ UNCHANGED reserved
<1> USE DEF Surrendered, Fenced, is_preempted_durable
<1>1. CASE RegistrationActs \/ ExecutionActs
  BY <1>1 DEF RegistrationActs, ExecutionActs, start_execution, set_worker_incarnation,
     declare_safe_point, reach_safe_point, publish_progress
<1>2. CASE PreemptionActs
  BY <1>2 DEF PreemptionActs, request_preemption, begin_quiesce, report_quiesced,
     request_state_capture, report_state_captured, request_release, commit_preempted
<1>3. CASE ResumeActs
  BY <1>3 DEF ResumeActs, request_resume, revalidate, restore, confirm_resumed, resumeFrame
<1>4. CASE EndActs
  BY <1>4 DEF EndActs, cancel, complete, resumeFrame
<1>5. CASE FabricActs /\ QuietBroker
  <2>1. CASE revoke_authority \/ \E g \in Generations : set_current_checkpoint_generation(g)
    BY <2>1 DEF revoke_authority, set_current_checkpoint_generation, fabricFrame
  <2>2. CASE BrokerActs
    BY <1>5, <2>2 DEF QuietBroker, BrokerActs, fabricFrame
  <2> QED BY <1>5, <2>1, <2>2 DEF FabricActs
<1>6. CASE UNCHANGED vars
  BY <1>6 DEF vars
<1> QED BY <1>1, <1>2, <1>3, <1>4, <1>5, <1>6, Zenon DEF Next

\* request_release leaves nothing reserved: an execution that is preempted,
\* or about to be, holds no unit of any resource until it has resumed.
THEOREM NothingHeldHolds == QuietSpec => []NothingHeldOncePreempted
<1>1. Init => NothingHeldOncePreempted
  BY DEF Init, NothingHeldOncePreempted, Fenced, is_preempted_durable
<1>2. NothingHeldOncePreempted /\ [Next /\ QuietBroker]_vars => NothingHeldOncePreempted'
  <2> SUFFICES ASSUME NothingHeldOncePreempted, [Next /\ QuietBroker]_vars,
                      Surrendered(lifecycle'), NEW r \in Resources
               PROVE  reserved'[r] = 0
    BY DEF NothingHeldOncePreempted, Surrendered
  <2>1. CASE report_released
    BY <2>1 DEF report_released, release_obligations_met
  <2>2. CASE Surrendered(lifecycle) /\ UNCHANGED reserved
    BY <2>2 DEF Surrendered, NothingHeldOncePreempted
  <2> QED BY <2>1, <2>2, SurrenderStep
<1> QED
  BY <1>1, <1>2, PTL DEF QuietSpec
==============================================================================
