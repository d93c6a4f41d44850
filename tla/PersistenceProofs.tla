-------------------------- MODULE PersistenceProofs --------------------------
(***************************************************************************)
(* What a restart keeps, for every value of the constants and with the     *)
(* sibling fabrics unrestricted.                                           *)
(***************************************************************************)
EXTENDS Persistence, RuntimeProofs

USE DEF persistVars, scopeVars, safePointVars, progressVars, flagVars, checkpointVars,
        captureVars, historyVars, brokerVars, transition, transition2,
        progress_accepted, request_accepted, commit_accepted

\* A step of the whole is a step of the runtime, a save or a restart.
LEMMA PersistStepCases ==
  ASSUME [PersistNext]_allVars
  PROVE  \/ [Next]_vars /\ UNCHANGED image
         \/ save
         \/ restart
         \/ crash_in_save
BY DEF PersistNext, PersistActs, allVars, Next, vars

------------------------------------------------------------------------------
(* Types *)

\* A blank image is an image.
LEMMA BlankIsImage == BlankImage \in Images
<1> USE BrokerAssumption, RuntimeAssumption
<1>1. /\ 0 \in Generations /\ 0 \in Positions /\ 0 \in 0 .. MaxCaptures
      /\ NoExecution \in Scopes /\ NoBoot \in AllBoots
      /\ "Invalid" \in LifecycleStates
      /\ [id \in SafePointIds |-> "Undeclared"]
           \in [SafePointIds -> {"Undeclared", "Declared", "Valid"}]
  BY DEF Generations, Positions, Scopes, AllBoots, LifecycleStates
<1> QED BY <1>1 DEF BlankImage, Images

\* The snapshot of a well typed runtime is an image.
LEMMA SnapshotIsImage == TypeOK => snapshot \in Images
BY DEF TypeOK, snapshot, Images, is_preempted_durable

\* Whatever is restored, the types and the accounting hold in the new process.
LEMMA RestoreTyped ==
  ASSUME NEW s \in Images, NEW accepted \in BOOLEAN,
         restore_state(s, accepted), fresh_adapters
  PROVE  TypeInv'
<1> USE BrokerAssumption, RuntimeAssumption
<1>1. BrokerTypeOK' /\ AccountingCloses'
  BY DEF fresh_adapters, BrokerTypeOK, AccountingCloses, Generations, Scopes, Units
<1>2. authority' \in Authorities
  <2>1. /\ s.execution \in Scopes /\ s.attempt_generation \in Generations
        /\ s.worker_boot \in AllBoots
    BY DEF Images
  <2> QED BY <2>1 DEF restore_state, Authorities
<1>3. /\ capture_count' \in 0 .. MaxCaptures /\ captures' \in SUBSET CaptureResults
      /\ current_checkpoint_gen' \in Generations
  BY DEF fresh_adapters, Generations
<1>4. progress_generation' \in Generations /\ quiesced_by' \in AllBoots
  BY DEF restore_state, Generations, AllBoots
<1>5. current_safe_point' \in SafePointCopies \cup {NoSafePoint}
  BY Zenon DEF restore_state
<1> QED
  BY <1>1, <1>2, <1>3, <1>4, <1>5 DEF restore_state, restored_request, restored_progress,
     Images, TypeInv, TypeOK

\* load restores either an image that was accepted or a blank one.
LEMMA LoadCases ==
  ASSUME NEW file, load(file)
  PROVE  /\ fresh_adapters
         /\ \/ file # NoImage /\ validate_state(file) /\ restore_state(file, TRUE)
            \/ restore_state(BlankImage, FALSE)
BY DEF load, decode

PersistTypeInv == TypeInv /\ image \in Images \cup {NoImage} /\ live \in BOOLEAN

\* Types, accounting and the shape of the image survive every step.
LEMMA PersistTypeStep == PersistTypeInv /\ [PersistNext]_allVars => PersistTypeInv'
<1> SUFFICES ASSUME PersistTypeInv, [PersistNext]_allVars PROVE PersistTypeInv'
  OBVIOUS
<1> USE DEF PersistTypeInv
<1>0. live' \in BOOLEAN
  BY DEF PersistNext, PersistActs, allVars, save, restart, crash_in_save, load
<1>1. CASE [Next]_vars /\ UNCHANGED image
  BY <1>0, <1>1, TypeStep
<1>2. CASE save
  <2>1. [Next]_vars
    BY <1>2 DEF save
  <2> QED BY <1>0, <1>2, <2>1, TypeStep, SnapshotIsImage DEF save, TypeInv
<1>3. ASSUME NEW file \in Images \cup {NoImage}, load(file) PROVE TypeInv'
  BY <1>3, LoadCases, RestoreTyped, BlankIsImage
<1>4. CASE restart
  BY <1>0, <1>3, <1>4 DEF restart
<1>5. CASE crash_in_save
  BY <1>0, <1>3, <1>5 DEF crash_in_save
<1> QED BY <1>1, <1>2, <1>4, <1>5, PersistStepCases

\* The runtime starts typed and without an image.
LEMMA PersistTypeInit == PersistInit => PersistTypeInv
BY TypeInit DEF PersistInit, PersistTypeInv

\* Every field of the runtime, of the fabrics and of the saved image keeps its
\* type across saves, crashes and restarts.
THEOREM PersistTypeHolds == PersistSpec => []PersistTypeOK
<1>1. PersistTypeInv => PersistTypeOK
  BY DEF PersistTypeInv, TypeInv, PersistTypeOK
<1> QED
  BY <1>1, PersistTypeInit, PersistTypeStep, PTL DEF PersistSpec

------------------------------------------------------------------------------
(* Requests *)

\* The flags behind a stage, and the request behind a preemption, of the runtime
\* or of an image.
Backed(stage, q, d, r, request) ==
  /\ stage \in QuiescedStages \/ is_preempted_durable(stage) => q
  /\ stage \in DurableStages \/ is_preempted_durable(stage) => d
  /\ stage = "ResourcesReleased" \/ is_preempted_durable(stage) => r
  /\ is_on_main_path(stage) => request # NoRequest

RuntimeBacked ==
  Backed(lifecycle, quiesced, state_durable, resources_released, active_request)
ImageBacked ==
  image # NoImage =>
    Backed(image.lifecycle, image.quiesced, image.state_durable,
           image.resources_released, image.request)

\* Every method of the runtime sets a flag before it enters the stage the flag
\* stands for, and no flag is ever cleared.
LEMMA BackedStep ==
  ASSUME TypeOK, RuntimeBacked, [Next]_vars
  PROVE  RuntimeBacked'
<1> USE DEF RuntimeBacked, Backed, QuiescedStages, DurableStages, is_preempted_durable,
            is_on_main_path, LifecycleStates, OffPath
<1>1. ASSUME RegistrationActs PROVE RuntimeBacked'
  BY <1>1 DEF RegistrationActs, start_execution, set_worker_incarnation
<1>2. ASSUME ExecutionActs PROVE RuntimeBacked'
  BY <1>2 DEF ExecutionActs, declare_safe_point, reach_safe_point, publish_progress
<1>3. ASSUME NEW req \in Requests, request_preemption(req) PROVE RuntimeBacked'
  BY <1>3, RuntimeAssumption DEF request_preemption, Requests, RequestKeys
<1>4. ASSUME begin_quiesce PROVE RuntimeBacked'
  BY <1>4 DEF begin_quiesce
<1>5. ASSUME NEW boot \in Boots, NEW q \in BOOLEAN, report_quiesced(boot, q)
      PROVE  RuntimeBacked'
  BY <1>5 DEF report_quiesced
<1>6. ASSUME NEW ok \in BOOLEAN, request_state_capture(ok) PROVE RuntimeBacked'
  BY <1>6 DEF request_state_capture
<1>7. ASSUME NEW result \in captures, NEW intact \in BOOLEAN,
             report_state_captured(result, intact)
      PROVE  RuntimeBacked'
  BY <1>7 DEF report_state_captured
<1>8. ASSUME request_release \/ report_released \/ commit_preempted
      PROVE  RuntimeBacked'
  BY <1>8 DEF request_release, report_released, commit_preempted
<1>9. ASSUME ResumeActs PROVE RuntimeBacked'
  BY <1>9 DEF ResumeActs, request_resume, revalidate, restore, confirm_resumed, resumeFrame
<1>10. ASSUME EndActs PROVE RuntimeBacked'
  BY <1>10 DEF EndActs, cancel, complete, resumeFrame
<1>11. ASSUME FabricActs \/ UNCHANGED vars PROVE RuntimeBacked'
  BY <1>11 DEF FabricActs, revoke_authority, set_current_checkpoint_generation,
     BrokerActs, fabricFrame, vars
<1> QED
  BY <1>1, <1>2, <1>3, <1>4, <1>5, <1>6, <1>7, <1>8, <1>9, <1>10, <1>11
     DEF Next, PreemptionActs

BackedInv == RuntimeBacked /\ ImageBacked

\* A fresh process needs no backing.
LEMMA BackedInit == PersistInit => BackedInv
BY DEF PersistInit, Init, BackedInv, RuntimeBacked, ImageBacked, Backed, QuiescedStages,
       DurableStages, is_preempted_durable, is_on_main_path, OffPath

\* A saved image is as well backed as the runtime it was taken from, and so is
\* the runtime restored from it.
LEMMA BackedInvStep ==
  PersistTypeInv /\ BackedInv /\ [PersistNext]_allVars => BackedInv'
<1> SUFFICES ASSUME PersistTypeInv, BackedInv, [PersistNext]_allVars PROVE BackedInv'
  OBVIOUS
<1> USE DEF BackedInv
<1>1. CASE [Next]_vars /\ UNCHANGED image
  BY <1>1, BackedStep DEF PersistTypeInv, TypeInv, ImageBacked
<1>2. CASE save
  <2>1. RuntimeBacked'
    BY <1>2 DEF save, vars, RuntimeBacked
  <2>2. ImageBacked'
    BY <1>2 DEF save, snapshot, ImageBacked, RuntimeBacked
  <2> QED BY <2>1, <2>2
<1>3. ASSUME NEW file, load(file), file = image \/ file = NoImage PROVE RuntimeBacked'
  <2>1. CASE file # NoImage /\ restore_state(file, TRUE)
    BY <1>3, <2>1 DEF restore_state, restored_request, RuntimeBacked, ImageBacked
  <2>2. CASE restore_state(BlankImage, FALSE)
    BY <2>2 DEF restore_state, BlankImage, RuntimeBacked, Backed, QuiescedStages,
       DurableStages, is_preempted_durable, is_on_main_path, OffPath
  <2> QED BY <1>3, <2>1, <2>2, LoadCases
<1>4. CASE restart
  BY <1>3, <1>4 DEF restart, ImageBacked
<1>5. CASE crash_in_save
  BY <1>3, <1>5 DEF crash_in_save, ImageBacked
<1> QED BY <1>1, <1>2, <1>4, <1>5, PersistStepCases

\* Across saves, crashes and restarts a preemption under way keeps its request.
THEOREM RequestHolds == PersistSpec => []RequestSurvives
<1>1. BackedInv => RequestSurvives
  BY DEF BackedInv, RuntimeBacked, Backed, RequestSurvives
<1> QED
  BY <1>1, PersistTypeInit, PersistTypeStep, BackedInit, BackedInvStep, PTL DEF PersistSpec

------------------------------------------------------------------------------
(* Progress *)

\* A restart falls back to the saved durable progress and never below it.
THEOREM SavedProgressHolds == PersistSpec => []SavedProgressKept
<1>1. PersistInit => SavedProgressKept
  BY DEF PersistInit, SavedProgressKept, decode
<1>2. PersistTypeInv /\ SavedProgressKept /\ [PersistNext]_allVars => SavedProgressKept'
  <2> SUFFICES ASSUME PersistTypeInv, SavedProgressKept, [PersistNext]_allVars
               PROVE  SavedProgressKept'
    OBVIOUS
  <2> USE DEF PersistTypeInv, TypeInv, SavedProgressKept, decode
  <2>1. durable_position \in Nat /\ (image # NoImage => image.durable_progress \in Nat)
    BY RuntimeAssumption DEF TypeOK, Positions, Images
  <2>2. CASE [Next]_vars /\ UNCHANGED image
    <3>1. durable_position' \in Nat /\ durable_position' >= durable_position
      BY <2>1, <2>2, OnlyPublishMovesDurable
         DEF publish_progress, not_backward, Positions
    <3> QED BY <2>1, <2>2, <3>1 DEF validate_state
  <2>3. CASE save
    BY <2>1, <2>3 DEF save, vars, snapshot
  <2>4. CASE restart
    BY <2>1, <2>4, PersistenceAssumption
       DEF restart, load, restore_state, restored_progress, validate_state
  <2>5. CASE crash_in_save
    BY <2>5 DEF crash_in_save
  <2> QED BY <2>2, <2>3, <2>4, <2>5, PersistStepCases
<1> QED
  BY <1>1, <1>2, PersistTypeInit, PersistTypeStep, PTL DEF PersistSpec

------------------------------------------------------------------------------
(* The durable boundary of a committed preemption *)

\* The authority that restore hands back is of use to no worker that has registered.
ForeignInv ==
  live /\ Fenced(lifecycle) /\ authority.authoritative =>
    authority.worker_boot # worker_boot

\* Whatever leads to or stays in a committed preemption, registrations and restarts
\* aside, takes the authority away or leaves it as it is.
LEMMA FencedAuthority ==
  ASSUME TypeOK, Fenced(lifecycle'),
         \/ ExecutionActs \/ PreemptionActs \/ ResumeActs \/ EndActs \/ FabricActs
  PROVE  \/ ~authority'.authoritative
         \/ Fenced(lifecycle) /\ UNCHANGED <<authority, worker_boot>>
<1> USE DEF Fenced, is_preempted_durable
<1>1. CASE ExecutionActs
  BY <1>1 DEF ExecutionActs, declare_safe_point, reach_safe_point, publish_progress
<1>2. CASE PreemptionActs
  <2>1. CASE commit_preempted
    <3>1. authority' = [authority EXCEPT !.authoritative = FALSE]
      BY <2>1 DEF commit_preempted, fence_attempt
    <3> QED BY <3>1 DEF TypeOK, Authorities
  <2>2. CASE ~commit_preempted
    BY <1>2, <2>2 DEF PreemptionActs, request_preemption, begin_quiesce, report_quiesced,
       request_state_capture, report_state_captured, request_release, report_released
  <2> QED BY <2>1, <2>2
<1>3. CASE ResumeActs
  BY <1>3 DEF ResumeActs, request_resume, revalidate, restore, confirm_resumed, resumeFrame
<1>4. CASE EndActs
  BY <1>4 DEF EndActs, cancel, complete, resumeFrame
<1>5. CASE FabricActs
  <2>1. CASE revoke_authority
    BY <2>1 DEF revoke_authority, TypeOK, Authorities
  <2>2. CASE ~revoke_authority
    BY <1>5, <2>2 DEF FabricActs, set_current_checkpoint_generation, BrokerActs, fabricFrame
  <2> QED BY <2>1, <2>2
<1> QED BY <1>1, <1>2, <1>3, <1>4, <1>5

\* A registration with a fresh boot id keeps the restored authority foreign.
LEMMA ForeignStep ==
  ASSUME TypeOK, ForeignInv, [PersistNext]_allVars,
         [live' /\ (~live \/ worker_boot' # worker_boot) =>
            worker_boot' # authority.worker_boot]_allVars
  PROVE  ForeignInv'
<1>1. CASE RegistrationActs /\ live' = TRUE
  <2>1. CASE \E e \in Executions, g \in Generations \ {0}, b \in Boots : start_execution(e, g, b)
    BY <2>1 DEF start_execution, ForeignInv, Fenced, is_preempted_durable
  <2>2. CASE \E b \in Boots : set_worker_incarnation(b)
    <3>1. UNCHANGED <<lifecycle, authority>>
      BY <2>2 DEF set_worker_incarnation
    <3>2. CASE live /\ worker_boot' = worker_boot
      BY <3>1, <3>2 DEF ForeignInv
    <3>3. CASE ~live \/ worker_boot' # worker_boot
      <4>1. worker_boot' # authority.worker_boot
        BY <1>1, <3>3 DEF allVars, vars
      <4> QED BY <3>1, <4>1 DEF ForeignInv
    <3> QED BY <3>2, <3>3
  <2> QED BY <1>1, <2>1, <2>2 DEF RegistrationActs
<1>2. CASE /\ ExecutionActs \/ PreemptionActs \/ ResumeActs \/ EndActs \/ FabricActs
           /\ UNCHANGED persistVars
  BY <1>2, FencedAuthority DEF ForeignInv
<1>3. CASE save \/ UNCHANGED allVars
  BY <1>3 DEF save, allVars, vars, ForeignInv
<1>4. CASE restart \/ crash_in_save
  BY <1>4 DEF restart, crash_in_save, load, ForeignInv
<1> QED BY <1>1, <1>2, <1>3, <1>4 DEF PersistNext, PersistActs

\* As long as every worker registers with a boot id of its own, no worker moves the
\* durable boundary of a committed preemption, however often the coordinator
\* restarts and hands the authority back.
THEOREM FrozenAcrossRestartsHolds ==
  PersistSpec /\ FreshIncarnations => DurableFrozenAcrossRestarts
<1>1. PersistInit => ForeignInv
  BY DEF PersistInit, ForeignInv
<1>2. ForeignInv /\ [PersistNext]_allVars =>
        [Fenced(lifecycle) /\ live /\ live' =>
           UNCHANGED <<durable_position, durable_progress_generation>>]_allVars
  <2> SUFFICES ASSUME ForeignInv, [PersistNext]_allVars, Fenced(lifecycle), live, live'
               PROVE  UNCHANGED <<durable_position, durable_progress_generation>>
    OBVIOUS
  <2>1. CASE [Next]_vars
    BY <2>1, OnlyPublishMovesDurable
       DEF publish_progress, current_attempt_authority, ForeignInv
  <2>2. CASE save
    BY <2>2 DEF save, vars
  <2>3. ~restart /\ ~crash_in_save
    BY DEF restart, crash_in_save, load
  <2> QED BY <2>1, <2>2, <2>3, PersistStepCases
<1>3. PersistTypeInv => TypeOK
  BY DEF PersistTypeInv, TypeInv
<1> QED
  BY <1>1, <1>2, <1>3, PersistTypeInit, PersistTypeStep, ForeignStep, PTL
     DEF PersistSpec, FreshIncarnations, DurableFrozenAcrossRestarts
==============================================================================
