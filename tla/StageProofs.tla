----------------------------- MODULE StageProofs -----------------------------
(*****************************************************************************)
(* Where the drive is and where the runtime: what a preemption has behind it *)
(* at every call of the coordinator, and what of it is saved.                *)
(*****************************************************************************)
EXTENDS CoordinatorProofs

USE DEF persistVars, processVars, goto, call, scopeVars, safePointVars, progressVars,
        flagVars, checkpointVars, captureVars, historyVars, brokerVars, transition,
        transition2, progress_accepted, request_accepted, commit_accepted

\* Only the coordinator's own execution is ever preempted, and its safe point is
\* declared before anything is asked of it.
ScopeInv ==
  /\ active_request # NoRequest => execution = exec_id
  /\ execution = exec_id /\ pc # "declare" => safe_points[safe_point] # "Undeclared"

\* A drive always captures, and state is only durable with a checkpoint behind it.
CaptureInv ==
  /\ pc \in {"quiesce_again", "ask", "await", "capture"} => capture_required
  /\ state_durable => checkpoint_ref # 0 /\ checkpoint_generation # 0
  /\ \A c \in captures : c.generation # 0

\* What the next call of the drive needs is there.
ReadyInv ==
  /\ pc = "captured" /\ lifecycle = "CapturingState" => captures # {}
  /\ pc = "released" /\ lifecycle = "Releasing" => release_obligations_met
  /\ pc = "save" => lifecycle = "Preempted"

\* From its acknowledgement to the commit a preemption belongs to one worker.
AckInv ==
  /\ pc \in {"capture", "captured", "release", "released", "commit", "save"} =>
       acked_by = conn
  /\ lifecycle \in QuiescedStages => quiesced_by = boot
  /\ outcome = "safe" => acked_by # NoWorker
  /\ pc = "save" => quiesced_by = boot /\ fenced_worker_boot = boot

\* Only committed preemptions are saved.
ImageInv ==
  image # NoImage =>
    /\ validate_state(image) /\ image.lifecycle = "Preempted"
    /\ image.execution = exec_id /\ image.safe_points[safe_point] # "Undeclared"

DriveInv == InStage /\ ScopeInv /\ CaptureInv /\ ReadyInv /\ AckInv /\ ImageInv

\* The inductive invariant behind InStage, SafeOnlyIfAcknowledged and
\* SavedImageLoads; BackedInv is that of PersistenceProofs.
StageInv == DriveInv /\ BackedInv

\* At a place where the drive is not, the stages are those between commands.
AtEase == pc \in {"contract", "accept_first", "loop", "declare", "segment", "publish",
                  "quiesce", "revalidate", "restore", "confirm", "accept",
                  "replay_release", "exited"}

\* There they are those of CASE's last arm.
LEMMA StagesAtEase == AtEase => stages_at(pc) = {"Assessing", "Quiescing"}
BY DEF AtEase, stages_at

\* The stage at every place of the drive.
LEMMA StagesOfDrive ==
  /\ stages_at("reach") = {"WaitingForSafePoint", "Quiescing"}
  /\ stages_at("quiesce_again") = {"SafePointReached", "Quiescing"}
  /\ stages_at("ask") = {"Quiescing"} /\ stages_at("await") = {"Quiescing"}
  /\ stages_at("capture") = {"Quiesced"} /\ stages_at("captured") = {"CapturingState"}
  /\ stages_at("release") = {"StateDurable"} /\ stages_at("released") = {"Releasing"}
  /\ stages_at("commit") = {"ResourcesReleased"} /\ stages_at("save") = {}
BY DEF stages_at

\* A stage under way is one of these, a request is on record for it, and no stage
\* of a resume is.
LEMMA UnderWayStages ==
  ASSUME TypeOK
  PROVE  /\ UnderWay(lifecycle) <=>
              lifecycle \in {"Requested", "ValidatingAuthority", "Assessing", "Deferred",
                             "WaitingForSafePoint", "SafePointReached", "Quiescing"}
                              \cup QuiescedStages
BY DEF TypeOK, UnderWay, is_on_main_path, is_preempted_durable, LifecycleStates, OffPath,
       QuiescedStages

\* Nothing is under way at first.
LEMMA StageInit == CoordInit => StageInv
<1> SUFFICES ASSUME CoordInit PROVE StageInv
  OBVIOUS
<1>1. PersistInit /\ Init
  BY DEF CoordInit, PersistInit
<1>2. BackedInv /\ ~UnderWay(lifecycle)
  BY <1>1, BackedInit DEF Init, UnderWay, is_on_main_path, OffPath
<1>3. ScopeInv
  BY <1>1, BrokerAssumption, CoordinatorAssumption DEF Init, ScopeInv
<1>4. CaptureInv /\ ReadyInv /\ AckInv /\ ImageInv
  BY <1>1, Zenon DEF CoordInit, PersistInit, Init, CaptureInv, ReadyInv, AckInv, ImageInv,
     QuiescedStages
<1> QED BY <1>2, <1>3, <1>4 DEF StageInv, DriveInv, InStage

\* Steps that leave the runtime and the file alone.
LEMMA IdleStage ==
  ASSUME StageInv, UNCHANGED <<vars, image, boot, conn, acked_by>>,
         outcome' \in {outcome, "lost"},
         \/ pc' = pc
         \/ pc' = "await" /\ pc = "ask"
         \/ AtEase' /\ pc' # "declare" /\ pc \in {"ask", "await"}
         \/ AtEase' /\ pc' # "declare" /\ AtEase /\ pc # "declare"
  PROVE  DriveInv'
<1> USE DEF DriveInv
<1>1. InStage'
  <2>1. UNCHANGED lifecycle
    BY DEF vars
  <2>2. CASE pc' = pc
    BY <2>1, <2>2 DEF StageInv, InStage
  <2>3. CASE pc' # pc
    <3>1. lifecycle \in stages_at(pc) => lifecycle \in stages_at(pc')
      BY <2>3, StagesAtEase, StagesOfDrive DEF stages_at, AtEase
    <3> QED BY <2>1, <3>1 DEF StageInv, InStage
  <2> QED BY <2>2, <2>3
<1>2. ScopeInv' /\ CaptureInv'
  BY Zenon DEF StageInv, ScopeInv, CaptureInv, vars, AtEase, capture_required, AtValidSafePoint
<1>3. ReadyInv' /\ AckInv'
  BY Zenon DEF StageInv, ReadyInv, AckInv, vars, AtEase, release_obligations_met
<1>4. ImageInv'
  BY DEF StageInv, ImageInv
<1> QED BY <1>1, <1>2, <1>3, <1>4

\* drive_preemption up to the acknowledgement: a request that is admitted waits for
\* the safe point, which the drive itself reports, and is then QUIESCING.
LEMMA QuiesceStage ==
  ASSUME CoordTypeInv, StageInv,
         \/ drive_quiesce
         \/ drive_reach /\ goto("quiesce_again")
         \/ drive_quiesce_again
         \/ drive_await /\ ~drive_lost
  PROVE  DriveInv'
<1>0. TypeOK /\ LinkInv /\ DriveInv /\ BackedInv
  BY DEF CoordTypeInv, CoordTypeOK, PersistTypeOK, StageInv
<1> USE <1>0
<1>1. CASE drive_quiesce
  <2>1. /\ pc = "quiesce" /\ pc' = "reach" /\ UNCHANGED <<image, boot, conn, acked_by, outcome>>
        /\ \/ quiesce_accepted /\ begin_quiesce
           \/ ~quiesce_accepted /\ UNCHANGED vars
    BY <1>1 DEF drive_quiesce
  <2>2. /\ UNCHANGED <<execution, active_request, safe_points, current_safe_point, captures,
                       state_durable, checkpoint_ref, checkpoint_generation, reserved,
                       quiesced_by, fenced_worker_boot>>
        /\ lifecycle' \in {lifecycle, "Quiescing", "WaitingForSafePoint"}
        /\ lifecycle = "Assessing" => lifecycle' # "Assessing"
    BY <2>1, Zenon DEF begin_quiesce, vars, quiesce_accepted
  <2>3. InStage'
    <3>1. UnderWay(lifecycle) => lifecycle \in {"Assessing", "Quiescing"}
      BY <2>1, StagesAtEase DEF DriveInv, InStage, AtEase
    <3> QED BY <2>1, <2>2, <3>1, StagesOfDrive DEF InStage
  <2>4. ScopeInv' /\ CaptureInv' /\ ReadyInv'
    BY <2>1, <2>2, Zenon DEF DriveInv, ScopeInv, CaptureInv, ReadyInv
  <2>5. AckInv' /\ ImageInv'
    BY <2>1, <2>2, Zenon DEF DriveInv, AckInv, ImageInv, QuiescedStages
  <2> QED BY <2>3, <2>4, <2>5 DEF DriveInv
<1>2. CASE drive_reach /\ goto("quiesce_again")
  <2>1. /\ pc = "reach" /\ pc' = "quiesce_again"
        /\ reach_safe_point(safe_point, last_progress, TRUE)
        /\ UNCHANGED <<image, boot, conn, acked_by, outcome>>
    BY <1>2, Zenon DEF drive_reach, reach_or_exit, drive_capture_required, exit
  <2>2. /\ UNCHANGED <<execution, active_request, captures, state_durable, checkpoint_ref,
                       checkpoint_generation, reserved, quiesced_by, fenced_worker_boot>>
        /\ safe_points' = [safe_points EXCEPT ![safe_point] = "Valid"]
        /\ current_safe_point' = [id |-> safe_point, state_capture_required |-> TRUE]
        /\ lifecycle' = IF lifecycle = "WaitingForSafePoint" THEN "SafePointReached"
                                                             ELSE lifecycle
    BY <2>1, Zenon DEF reach_safe_point
  <2>3. InStage'
    <3>1. UnderWay(lifecycle) => lifecycle \in {"WaitingForSafePoint", "Quiescing"}
      BY <2>1, StagesOfDrive DEF DriveInv, InStage
    <3> QED BY <2>1, <2>2, <3>1, StagesOfDrive, Zenon DEF InStage
  <2>4. ScopeInv' /\ ReadyInv'
    BY <2>1, <2>2, CoordinatorAssumption, Zenon DEF DriveInv, ScopeInv, ReadyInv, TypeOK
  <2>5. CaptureInv'
    <3>1. capture_required'
      <4>1. current_safe_point' \in SafePointCopies
        BY <2>2, CoordinatorAssumption DEF SafePointCopies
      <4>2. current_safe_point'.state_capture_required = TRUE
        BY <2>2
      <4> QED BY <4>1, <4>2, RuntimeAssumption DEF capture_required, AtValidSafePoint
    <3> QED BY <2>2, <3>1 DEF DriveInv, CaptureInv
  <2>6. AckInv' /\ ImageInv'
    BY <2>1, <2>2, Zenon DEF DriveInv, AckInv, ImageInv, QuiescedStages
  <2> QED BY <2>3, <2>4, <2>5, <2>6 DEF DriveInv
<1>3. CASE drive_quiesce_again
  <2>1. /\ pc = "quiesce_again" /\ pc' = "ask"
        /\ UNCHANGED <<image, boot, conn, acked_by, outcome>>
        /\ \/ quiesce_accepted /\ begin_quiesce
           \/ ~quiesce_accepted /\ UNCHANGED vars
    BY <1>3 DEF drive_quiesce_again
  <2>2. /\ UNCHANGED <<execution, active_request, safe_points, current_safe_point, captures,
                       state_durable, checkpoint_ref, checkpoint_generation, reserved,
                       quiesced_by, fenced_worker_boot>>
        /\ lifecycle' \in {lifecycle, "Quiescing", "WaitingForSafePoint"}
        /\ lifecycle = "SafePointReached" => lifecycle' = "Quiescing"
        /\ lifecycle \notin {"Assessing", "Deferred"} =>
             lifecycle' \in {lifecycle, "Quiescing"}
    BY <2>1, Zenon DEF begin_quiesce, vars, quiesce_accepted
  <2>3. InStage'
    <3>1. UnderWay(lifecycle) => lifecycle \in {"SafePointReached", "Quiescing"}
      BY <2>1, StagesOfDrive DEF DriveInv, InStage
    <3>2. lifecycle \notin {"Assessing", "Deferred"}
      BY <3>1, UnderWayStages
    <3> QED BY <2>1, <2>2, <3>1, <3>2, StagesOfDrive DEF InStage
  <2>4. ScopeInv' /\ CaptureInv' /\ ReadyInv'
    BY <2>1, <2>2, Zenon DEF DriveInv, ScopeInv, CaptureInv, ReadyInv, capture_required,
       AtValidSafePoint
  <2>5. AckInv' /\ ImageInv'
    BY <2>1, <2>2, Zenon DEF DriveInv, AckInv, ImageInv, QuiescedStages
  <2> QED BY <2>3, <2>4, <2>5 DEF DriveInv
<1>4. CASE drive_await /\ ~drive_lost
  <2>1. /\ pc = "await" /\ pc' = "capture" /\ acked_by' = conn
        /\ UNCHANGED <<image, boot, conn, outcome>>
        /\ \/ acknowledgement_accepted /\ report_quiesced(boot, TRUE)
           \/ ~acknowledgement_accepted /\ UNCHANGED vars
    BY <1>4, Zenon DEF drive_await
  <2>2. conn \in Workers /\ worker_boot = boot
    BY <2>1 DEF LinkInv, Linked
  <2>3. /\ UNCHANGED <<execution, active_request, safe_points, current_safe_point, captures,
                       state_durable, checkpoint_ref, checkpoint_generation, reserved,
                       fenced_worker_boot>>
        /\ \/ lifecycle = "Quiescing" /\ lifecycle' = "Quiesced" /\ quiesced_by' = boot
           \/ lifecycle # "Quiescing" /\ UNCHANGED <<lifecycle, quiesced_by>>
    BY <2>1, <2>2, Zenon DEF report_quiesced, vars, acknowledgement_accepted
  <2>4. InStage'
    <3>1. UnderWay(lifecycle) => lifecycle = "Quiescing"
      BY <2>1, StagesOfDrive DEF DriveInv, InStage
    <3> QED BY <2>1, <2>3, <3>1, StagesOfDrive, Zenon DEF InStage
  <2>5. ScopeInv' /\ CaptureInv' /\ ReadyInv'
    BY <2>1, <2>3, Zenon DEF DriveInv, ScopeInv, CaptureInv, ReadyInv, capture_required,
       AtValidSafePoint
  <2>6. AckInv' /\ ImageInv'
    BY <2>1, <2>2, <2>3, CoordinatorAssumption, Zenon DEF DriveInv, AckInv, ImageInv, QuiescedStages
  <2> QED BY <2>4, <2>5, <2>6 DEF DriveInv
<1> QED BY <1>1, <1>2, <1>3, <1>4

\* From the acknowledgement to the commit every call of the drive finds the stage
\* that it needs, or the preemption has failed.
LEMMA CommitStage ==
  ASSUME CoordTypeInv, StageInv,
         \/ drive_capture \/ drive_captured \/ drive_release \/ drive_released
         \/ drive_commit \/ drive_save
  PROVE  DriveInv'
<1>0. TypeOK /\ LinkInv /\ DriveInv /\ BackedInv
  BY DEF CoordTypeInv, CoordTypeOK, PersistTypeOK, StageInv
<1> USE <1>0
<1>1. CASE drive_capture
  <2>1. /\ pc = "capture" /\ pc' = "captured"
        /\ UNCHANGED <<image, boot, conn, acked_by, outcome>>
        /\ \/ lifecycle = "Quiesced" /\ request_state_capture(TRUE)
           \/ lifecycle # "Quiesced" /\ UNCHANGED vars
    BY <1>1, Zenon DEF drive_capture
  <2>2. capture_required
    BY <2>1 DEF DriveInv, CaptureInv
  <2>3. /\ UNCHANGED <<execution, active_request, safe_points, current_safe_point,
                       state_durable, checkpoint_ref, checkpoint_generation, reserved,
                       quiesced_by, fenced_worker_boot>>
        /\ \/ /\ lifecycle = "Quiesced" /\ lifecycle' = "CapturingState"
              /\ captures' = captures \cup
                   {[ref |-> capture_count + 1, generation |-> next(checkpoint_generation),
                     success |-> TRUE]}
           \/ lifecycle # "Quiesced" /\ UNCHANGED <<lifecycle, captures>>
    BY <2>1, <2>2, Zenon DEF request_state_capture, request_capture, vars
  <2>4. InStage'
    <3>1. UnderWay(lifecycle) => lifecycle = "Quiesced"
      BY <2>1, StagesOfDrive DEF DriveInv, InStage
    <3>2. CASE lifecycle = "Quiesced"
      <4>1. lifecycle' = "CapturingState"
        BY <2>3, <3>2
      <4> QED BY <2>1, <4>1, StagesOfDrive DEF InStage
    <3>3. CASE lifecycle # "Quiesced"
      <4>1. lifecycle' = lifecycle /\ ~UnderWay(lifecycle)
        BY <2>3, <3>1, <3>3
      <4> QED BY <4>1, Zenon DEF InStage
    <3> QED BY <3>2, <3>3
  <2>5. \A c \in captures' : c.generation # 0
    <3>1. next(checkpoint_generation) # 0
      BY BrokerAssumption DEF TypeOK, Generations, next
    <3> SUFFICES ASSUME NEW c \in captures' PROVE c.generation # 0
      OBVIOUS
    <3>2. CASE c \in captures
      BY <3>2, Zenon DEF DriveInv, CaptureInv
    <3>3. CASE c.generation = next(checkpoint_generation)
      BY <3>1, <3>3, Zenon
    <3>4. c \in captures \/ c.generation = next(checkpoint_generation)
      BY <2>3
    <3> QED BY <3>2, <3>3, <3>4, Zenon
  <2>6. pc' = "captured" /\ lifecycle' = "CapturingState" => captures' # {}
    <3>1. CASE lifecycle = "Quiesced"
      BY <2>3, <3>1, Zenon
    <3>2. CASE lifecycle # "Quiesced"
      <4>1. lifecycle # "CapturingState"
        BY <2>1, StagesOfDrive, UnderWayStages DEF DriveInv, InStage, QuiescedStages
      <4> QED BY <2>3, <3>2, <4>1
    <3> QED BY <3>1, <3>2
  <2>7. ScopeInv' /\ CaptureInv' /\ ReadyInv'
    BY <2>1, <2>3, <2>5, <2>6, Zenon DEF DriveInv, ScopeInv, CaptureInv, ReadyInv
  <2>8. AckInv' /\ ImageInv'
    BY <2>1, <2>3, Zenon DEF DriveInv, AckInv, ImageInv, QuiescedStages
  <2> QED BY <2>4, <2>7, <2>8 DEF DriveInv
<1>2. CASE drive_captured
  <2>1. /\ pc = "captured" /\ pc' = "release"
        /\ UNCHANGED <<image, boot, conn, acked_by, outcome>>
        /\ \/ /\ lifecycle = "CapturingState"
              /\ \E c \in captures : report_state_captured(c, TRUE)
           \/ lifecycle # "CapturingState" /\ UNCHANGED vars
           \/ captures = {} /\ UNCHANGED vars
    BY <1>2, Zenon DEF drive_captured, allVars
  <2>2. lifecycle = "CapturingState" => captures # {}
    BY <2>1 DEF DriveInv, ReadyInv
  <2>3. /\ UNCHANGED <<execution, active_request, safe_points, captures, reserved,
                       quiesced_by, fenced_worker_boot>>
        /\ \/ /\ lifecycle = "CapturingState" /\ lifecycle' = "StateDurable"
              /\ \E c \in captures :
                   checkpoint_ref' = c.ref /\ checkpoint_generation' = c.generation
           \/ /\ lifecycle = "CapturingState" /\ lifecycle' = "Failed"
              /\ UNCHANGED <<state_durable, checkpoint_ref, checkpoint_generation>>
           \/ /\ lifecycle # "CapturingState"
              /\ UNCHANGED <<lifecycle, state_durable, checkpoint_ref, checkpoint_generation>>
    BY <2>1, <2>2, Zenon DEF report_state_captured, vars
  <2>4. InStage'
    <3>1. UnderWay(lifecycle) => lifecycle = "CapturingState"
      BY <2>1, StagesOfDrive DEF DriveInv, InStage
    <3>2. ~UnderWay("Failed")
      BY DEF UnderWay, is_on_main_path, OffPath
    <3> QED BY <2>1, <2>3, <3>1, <3>2, StagesOfDrive DEF InStage
  <2>5. CaptureInv'
    <3>1. \A c \in captures : c.ref # 0 /\ c.generation # 0
      BY DEF TypeOK, CaptureResults, DriveInv, CaptureInv
    <3>2. state_durable' => checkpoint_ref' # 0 /\ checkpoint_generation' # 0
      BY <2>3, <3>1, Zenon DEF DriveInv, CaptureInv
    <3> QED BY <2>1, <2>3, <3>1, <3>2 DEF CaptureInv
  <2>6. ScopeInv' /\ ReadyInv'
    BY <2>1, <2>3, Zenon DEF DriveInv, ScopeInv, ReadyInv
  <2>7. AckInv' /\ ImageInv'
    BY <2>1, <2>3, Zenon DEF DriveInv, AckInv, ImageInv, QuiescedStages
  <2> QED BY <2>4, <2>5, <2>6, <2>7 DEF DriveInv
<1>3. CASE drive_release
  <2>1. /\ pc = "release" /\ pc' = "released"
        /\ UNCHANGED <<image, boot, conn, acked_by, outcome>>
        /\ \/ release_accepted /\ request_release
           \/ ~release_accepted /\ UNCHANGED vars
    BY <1>3 DEF drive_release
  <2>2. UnderWay(lifecycle) => lifecycle = "StateDurable"
    BY <2>1, StagesOfDrive DEF DriveInv, InStage
  <2>3. lifecycle # "ReleasePending" /\ lifecycle # "Releasing"
    BY <2>2, UnderWayStages DEF QuiescedStages
  <2>4. lifecycle = "StateDurable" => /\ state_durable
                                      /\ execution = exec_id /\ contract_execution = exec_id
    BY <2>1, UnderWayStages
       DEF BackedInv, RuntimeBacked, Backed, DurableStages, QuiescedStages, UnderWay,
           DriveInv, ScopeInv, LinkInv
  <2>5. /\ UNCHANGED <<execution, active_request, safe_points, captures, state_durable,
                       checkpoint_ref, checkpoint_generation, quiesced_by,
                       fenced_worker_boot>>
        /\ \/ /\ lifecycle = "StateDurable" /\ lifecycle' = "Releasing"
              /\ reserved' = [r \in Resources |-> 0]
           \/ lifecycle # "StateDurable" /\ UNCHANGED lifecycle
    BY <2>1, <2>3, <2>4, Zenon DEF request_release, release_all_leases, vars, release_accepted
  <2>6. InStage'
    BY <2>1, <2>2, <2>5, StagesOfDrive DEF InStage
  <2>7. ScopeInv' /\ CaptureInv'
    BY <2>1, <2>5 DEF DriveInv, ScopeInv, CaptureInv
  <2>8. ReadyInv'
    BY <2>1, <2>3, <2>5 DEF ReadyInv, release_obligations_met
  <2>9. AckInv' /\ ImageInv'
    BY <2>1, <2>5, Zenon DEF DriveInv, AckInv, ImageInv, QuiescedStages
  <2> QED BY <2>6, <2>7, <2>8, <2>9 DEF DriveInv
<1>4. CASE drive_released
  <2>1. /\ pc = "released" /\ pc' = "commit"
        /\ UNCHANGED <<image, boot, conn, acked_by, outcome>>
        /\ \/ lifecycle = "Releasing" /\ report_released
           \/ ~(lifecycle = "Releasing" /\ release_obligations_met) /\ UNCHANGED vars
    BY <1>4 DEF drive_released
  <2>2. lifecycle = "Releasing" => release_obligations_met
    BY <2>1 DEF DriveInv, ReadyInv
  <2>3. /\ UNCHANGED <<execution, active_request, safe_points, captures, state_durable,
                       checkpoint_ref, checkpoint_generation, quiesced_by,
                       fenced_worker_boot>>
        /\ \/ lifecycle = "Releasing" /\ lifecycle' = "ResourcesReleased"
           \/ lifecycle # "Releasing" /\ UNCHANGED lifecycle
    BY <2>1, <2>2, Zenon DEF report_released, vars
  <2>4. InStage'
    <3>1. UnderWay(lifecycle) => lifecycle = "Releasing"
      BY <2>1, StagesOfDrive DEF DriveInv, InStage
    <3> QED BY <2>1, <2>3, <3>1, StagesOfDrive DEF InStage
  <2>5. ScopeInv' /\ CaptureInv' /\ ReadyInv'
    BY <2>1, <2>3 DEF DriveInv, ScopeInv, CaptureInv, ReadyInv
  <2>6. AckInv' /\ ImageInv'
    BY <2>1, <2>3, Zenon DEF DriveInv, AckInv, ImageInv, QuiescedStages
  <2> QED BY <2>4, <2>5, <2>6 DEF DriveInv
<1>5. CASE drive_commit
  <2>1. /\ pc = "commit" /\ UNCHANGED <<image, boot, conn, acked_by>>
        /\ \/ commit_preempted /\ pc' = "save" /\ outcome' = "safe"
           \/ /\ ~(lifecycle = "ResourcesReleased" /\ quiesced /\ state_durable
                     /\ resources_released)
              /\ UNCHANGED vars /\ pc' = "loop" /\ outcome' = "failed"
    BY <1>5 DEF drive_commit
  <2>2. conn \in Workers /\ worker_boot = boot /\ acked_by = conn
    BY <2>1 DEF LinkInv, Linked, DriveInv, AckInv
  <2>3. UnderWay(lifecycle) => lifecycle = "ResourcesReleased"
    BY <2>1, StagesOfDrive DEF DriveInv, InStage
  <2>4. lifecycle = "ResourcesReleased" =>
          quiesced /\ state_durable /\ resources_released /\ quiesced_by = boot
    BY DEF BackedInv, RuntimeBacked, Backed, DurableStages, QuiescedStages, DriveInv, AckInv
  <2>5. /\ UNCHANGED <<execution, active_request, safe_points, captures, state_durable,
                       checkpoint_ref, checkpoint_generation, quiesced_by>>
        /\ \/ /\ lifecycle = "ResourcesReleased" /\ lifecycle' = "Preempted"
              /\ pc' = "save" /\ fenced_worker_boot' = boot
           \/ /\ lifecycle # "ResourcesReleased" /\ UNCHANGED lifecycle
              /\ pc' = "loop" /\ outcome' = "failed"
    BY <2>1, <2>2, <2>4, Zenon DEF commit_preempted, vars
  <2>6. InStage'
    <3>1. ~UnderWay("Preempted")
      BY DEF UnderWay, is_preempted_durable
    <3> QED BY <2>3, <2>5, <3>1 DEF InStage
  <2>7. ScopeInv' /\ CaptureInv' /\ ReadyInv'
    BY <2>1, <2>5, Zenon DEF DriveInv, ScopeInv, CaptureInv, ReadyInv
  <2>8. AckInv' /\ ImageInv'
    BY <2>1, <2>2, <2>4, <2>5, CoordinatorAssumption, Zenon
       DEF DriveInv, AckInv, ImageInv, QuiescedStages
  <2> QED BY <2>6, <2>7, <2>8 DEF DriveInv
<1>6. CASE drive_save
  <2>1. /\ pc = "save" /\ pc' = "loop" /\ image' = snapshot
        /\ UNCHANGED <<vars, boot, conn, acked_by, outcome>>
    BY <1>6 DEF drive_save, save
  <2>2. lifecycle = "Preempted"
    BY <2>1 DEF DriveInv, ReadyInv
  <2>3. InStage'
    BY <2>1, <2>2 DEF InStage, UnderWay, is_preempted_durable, vars
  <2>4. ScopeInv' /\ CaptureInv' /\ ReadyInv'
    BY <2>1, Zenon DEF DriveInv, ScopeInv, CaptureInv, ReadyInv, vars
  <2>5. AckInv'
    BY <2>1, Zenon DEF DriveInv, AckInv, vars
  <2>6. ImageInv'
    <3>1. /\ quiesced /\ state_durable /\ resources_released
          /\ checkpoint_ref # 0 /\ checkpoint_generation # 0
          /\ execution = exec_id /\ safe_points[safe_point] # "Undeclared"
      BY <2>1, <2>2 DEF BackedInv, RuntimeBacked, Backed, is_preempted_durable,
         is_on_main_path, LifecycleStates, OffPath, DriveInv, CaptureInv, ScopeInv
    <3>2. validate_state(snapshot)
      BY <2>2, <3>1, Zenon DEF validate_state, snapshot, is_release_reached, is_resume_reached,
         is_preempted_durable
    <3>3. snapshot.lifecycle = "Preempted" /\ snapshot.execution = exec_id
          /\ snapshot.safe_points[safe_point] # "Undeclared"
      BY <2>2, <3>1, Zenon DEF snapshot
    <3> QED BY <2>1, <3>2, <3>3, Zenon DEF ImageInv
  <2> QED BY <2>3, <2>4, <2>5, <2>6 DEF DriveInv
<1> QED BY <1>1, <1>2, <1>3, <1>4, <1>5, <1>6

\* Between drives only the stage, the scope and the last outcome matter.
LEMMA EaseStage ==
  ASSUME StageInv, TypeOK', AtEase', InStage', ScopeInv',
         UNCHANGED <<image, captures, state_durable, checkpoint_ref, checkpoint_generation>>,
         outcome' = "safe" => acked_by' # NoWorker
  PROVE  DriveInv'
<1>1. CaptureInv' /\ ReadyInv' /\ ImageInv'
  BY Zenon DEF StageInv, DriveInv, CaptureInv, ReadyInv, ImageInv, AtEase
<1>2. AckInv'
  <2>1. (lifecycle \notin QuiescedStages)'
    <3>1. (UnderWay(lifecycle) => lifecycle \in {"Assessing", "Quiescing"})'
      BY DEF InStage, stages_at, AtEase
    <3>2. (lifecycle \in QuiescedStages => UnderWay(lifecycle))'
      BY Zenon DEF TypeOK, UnderWay, is_on_main_path, is_preempted_durable, LifecycleStates,
         OffPath, QuiescedStages
    <3> QED BY <3>1, <3>2 DEF QuiescedStages
  <2> QED BY <2>1 DEF AckInv, AtEase
<1> QED BY <1>1, <1>2 DEF DriveInv

\* The calls that are not the drive's, and the one that starts it.
OtherCalls ==
  \/ set_up \/ drive_request \/ drive_resume \/ resume_command \/ begin_execution
  \/ (\E req \in Requests : replay_command(req)) \/ replay_released

\* The commands besides the drive, and the start of one, leave no stage that they
\* do not find or enter ASSESSING or leave the path of a preemption.
LEMMA CommandStage ==
  ASSUME CoordTypeInv, TypeOK', StageInv,
         \/ OtherCalls
         \/ (segment_reached /\ ~exit) \/ segment_published \/ begin_declared
  PROVE  DriveInv'
<1>0. TypeOK /\ LinkInv /\ DriveInv /\ BackedInv
  BY DEF CoordTypeInv, CoordTypeOK, PersistTypeOK, StageInv
<1>a. AtEase => (UnderWay(lifecycle) => lifecycle \in {"Assessing", "Quiescing"})
  BY <1>0, StagesAtEase DEF DriveInv, InStage
<1>b. AtEase' /\ (UnderWay(lifecycle') => lifecycle' \in {"Assessing", "Quiescing"})
        => InStage'
  BY DEF InStage, AtEase, stages_at
<1>c. outcome = "safe" => acked_by # NoWorker
  BY <1>0 DEF DriveInv, AckInv
<1>d. ScopeInv
  BY <1>0 DEF DriveInv
<1>1. CASE set_up
  <2>1. /\ AtEase /\ AtEase' /\ pc # "declare"
        /\ UNCHANGED <<image, outcome, acked_by, lifecycle, execution, active_request,
                       safe_points, captures, state_durable, checkpoint_ref,
                       checkpoint_generation>>
    BY <1>1, Zenon DEF set_up, set_contract, fabricFrame, AtEase
  <2> QED BY <1>a, <1>b, <1>c, <1>d, <2>1, EaseStage DEF ScopeInv
<1>2. CASE segment_reached /\ ~exit
  <2>1. PICK pos : reach_safe_point(safe_point, pos, FALSE) /\ UNCHANGED persistVars
    BY <1>2, Zenon DEF segment_reached, reach_or_exit
  <2>2. pc = "segment" /\ pc' = "publish" /\ UNCHANGED <<outcome, acked_by>>
    BY <1>2, Zenon DEF segment_reached, reach_or_exit
  <2>3. AtEase /\ AtEase' /\ lifecycle # "WaitingForSafePoint"
    BY <1>0, <1>a, <2>2, UnderWayStages DEF AtEase
  <2>4. /\ UNCHANGED <<image, lifecycle, execution, active_request, captures,
                       state_durable, checkpoint_ref, checkpoint_generation>>
        /\ safe_points' = [safe_points EXCEPT ![safe_point] = "Valid"]
    BY <2>1, <2>3, Zenon DEF reach_safe_point
  <2>5. ScopeInv'
    BY <1>0, <1>d, <2>4, CoordinatorAssumption, Zenon DEF ScopeInv, TypeOK
  <2> QED BY <1>a, <1>b, <1>c, <2>2, <2>3, <2>4, <2>5, EaseStage
<1>3. CASE segment_published
  <2>1. /\ AtEase /\ AtEase' /\ pc # "declare"
        /\ UNCHANGED <<image, outcome, acked_by>>
        /\ publish_progress(position, TRUE) \/ UNCHANGED vars
    BY <1>3, Zenon DEF segment_published, AtEase
  <2>2. UNCHANGED <<lifecycle, execution, active_request, safe_points, captures,
                    state_durable, checkpoint_ref, checkpoint_generation>>
    BY <2>1, Zenon DEF publish_progress, vars
  <2> QED BY <1>a, <1>b, <1>c, <1>d, <2>1, <2>2, EaseStage DEF ScopeInv
<1>4. ASSUME NEW req \in Requests, req.execution = exec_id, AtEase, AtEase',
             pc # "declare",
             call(request_accepted(req), request_preemption(req)),
             outcome' = "safe" => acked_by' # NoWorker
      PROVE  DriveInv'
  <2>1. /\ UNCHANGED <<image, execution, safe_points, captures,
                       state_durable, checkpoint_ref, checkpoint_generation>>
        /\ \/ lifecycle' = "Assessing" /\ execution = exec_id
           \/ UNCHANGED <<lifecycle, active_request>>
    BY <1>4, Zenon DEF request_preemption, validate_authority, vars
  <2>2. ScopeInv'
    BY <1>4, <1>d, <2>1 DEF ScopeInv
  <2>3. UnderWay(lifecycle') => lifecycle' \in {"Assessing", "Quiescing"}
    BY <1>4, <1>a, <2>1
  <2> QED BY <1>4, <1>b, <2>1, <2>2, <2>3, EaseStage
<1>5. CASE drive_request
  <2>1. the_request \in Requests /\ the_request.execution = exec_id
    BY TheRequest DEF CoordTypeInv, CoordTypeOK, the_request
  <2>2. /\ AtEase /\ AtEase' /\ pc # "declare" /\ outcome' # "safe"
        /\ call(request_accepted(the_request), request_preemption(the_request))
    BY <1>5 DEF drive_request, AtEase
  <2> QED BY <1>4, <2>1, <2>2
<1>6. ASSUME NEW req \in Requests, replay_command(req) PROVE DriveInv'
  <2>1. /\ req.execution = exec_id /\ AtEase /\ AtEase' /\ pc # "declare"
        /\ UNCHANGED <<outcome, acked_by>>
        /\ call(request_accepted(req), request_preemption(req))
    BY <1>6 DEF replay_command, AtEase
  <2> QED BY <1>4, <1>c, <2>1
<1>7. CASE drive_resume \/ resume_command
  <2>1. /\ AtEase /\ AtEase' /\ pc # "declare" /\ UNCHANGED <<image, outcome, acked_by>>
        /\ \/ revalidate(TRUE, "Current") \/ restore(TRUE) \/ confirm_resumed
           \/ request_resume \/ UNCHANGED vars
    BY <1>7, Zenon DEF drive_resume, resume_command, AtEase
  <2>2. /\ UNCHANGED <<execution, active_request, safe_points, captures, state_durable,
                       checkpoint_ref, checkpoint_generation>>
        /\ lifecycle' \in {lifecycle, "Failed", "Revalidating", "Restoring", "ResumeReady",
                           "Resumed", "ResumePending"}
    BY <2>1, Zenon DEF revalidate, restore, confirm_resumed, request_resume, resumeFrame, vars
  <2>3. UnderWay(lifecycle') => lifecycle' \in {"Assessing", "Quiescing"}
    BY <1>a, <2>1, <2>2 DEF UnderWay, is_on_main_path, is_preempted_durable, OffPath
  <2> QED BY <1>b, <1>c, <1>d, <2>1, <2>2, <2>3, EaseStage DEF ScopeInv
<1>8. CASE begin_execution
  <2>1. /\ AtEase' /\ pc' = "declare" /\ UNCHANGED <<image, outcome, acked_by>>
        /\ execution' = exec_id /\ active_request' = NoRequest /\ lifecycle' = "Invalid"
        /\ UNCHANGED <<captures, state_durable, checkpoint_ref, checkpoint_generation>>
    BY <1>8, Zenon DEF begin_execution, start_execution, AtEase
  <2>2. ScopeInv' /\ ~UnderWay(lifecycle')
    BY <2>1 DEF ScopeInv, UnderWay, is_on_main_path
  <2> QED BY <1>b, <1>c, <2>1, <2>2, EaseStage
<1>9. CASE begin_declared
  <2>1. /\ AtEase /\ AtEase' /\ UNCHANGED <<image, outcome, acked_by>>
        /\ UNCHANGED <<lifecycle, execution, active_request, captures, state_durable,
                       checkpoint_ref, checkpoint_generation>>
        /\ safe_points' = [safe_points EXCEPT ![safe_point] = "Declared"]
    BY <1>9, Zenon DEF begin_declared, declare_safe_point, AtEase
  <2>2. ScopeInv'
    BY <1>0, <1>d, <2>1, CoordinatorAssumption, Zenon DEF ScopeInv, TypeOK
  <2> QED BY <1>a, <1>b, <1>c, <2>1, <2>2, EaseStage
<1>10. CASE replay_released
  <2>1. /\ AtEase /\ AtEase' /\ pc # "declare" /\ UNCHANGED <<image, outcome, acked_by>>
        /\ \/ lifecycle \in {"StateDurable", "ReleasePending"} \/ UNCHANGED vars
    BY <1>10 DEF replay_released, release_accepted, AtEase
  <2>2. UNCHANGED <<lifecycle, execution, active_request, safe_points, captures,
                    state_durable, checkpoint_ref, checkpoint_generation>>
    BY <1>0, <1>a, <2>1, UnderWayStages, Zenon DEF vars, QuiescedStages
  <2> QED BY <1>a, <1>b, <1>c, <1>d, <2>1, <2>2, EaseStage DEF ScopeInv
<1> QED BY <1>1, <1>2, <1>3, <1>5, <1>6, <1>7, <1>8, <1>9, <1>10 DEF OtherCalls

\* A worker that registers finds no preemption that another one acknowledged, and
\* a coordinator that exits for want of a safe point leaves none half way.
LEMMA AcceptStage ==
  ASSUME CoordTypeInv, TypeOK', StageInv,
         \/ \E w, b : registered(w, b) /\ pc \in {"accept_first", "accept"}
         \/ drive_reach /\ exit
  PROVE  DriveInv'
<1>0. TypeOK /\ DriveInv /\ BackedInv
  BY DEF CoordTypeInv, CoordTypeOK, PersistTypeOK, StageInv
<1>1. outcome = "safe" => acked_by # NoWorker
  BY <1>0 DEF DriveInv, AckInv
<1>2. ASSUME NEW w, NEW b, registered(w, b), pc \in {"accept_first", "accept"}
      PROVE  DriveInv'
  <2>1. /\ pc' = "loop" /\ UNCHANGED <<image, outcome, acked_by>>
        /\ set_worker_incarnation(b)
    BY <1>2, Zenon DEF registered
  <2>2. UNCHANGED <<lifecycle, execution, active_request, safe_points, captures,
                    state_durable, checkpoint_ref, checkpoint_generation>>
    BY <2>1 DEF set_worker_incarnation
  <2>3. AtEase /\ AtEase'
    BY <1>2, <2>1 DEF AtEase
  <2>4. InStage'
    BY <1>0, <2>1, <2>2, <2>3, StagesAtEase DEF DriveInv, InStage, stages_at
  <2>5. ScopeInv'
    BY <1>0, <1>2, <2>2 DEF DriveInv, ScopeInv
  <2> QED BY <1>1, <2>1, <2>2, <2>3, <2>4, <2>5, EaseStage
<1>3. CASE drive_reach /\ exit
  <2>1. /\ pc = "reach" /\ pc' = "exited" /\ UNCHANGED <<outcome, acked_by>>
    BY <1>3, Zenon DEF drive_reach, exit
  <2>2. safe_points[safe_point] = "Undeclared" /\ UNCHANGED allVars
    BY <1>3, <2>1 DEF drive_reach, reach_or_exit
  <2>3. ~UnderWay(lifecycle)
    BY <1>0, <2>1, <2>2 DEF UnderWay, BackedInv, RuntimeBacked, Backed, DriveInv, ScopeInv
  <2>4. UNCHANGED <<image, lifecycle, execution, active_request, safe_points, captures,
                    state_durable, checkpoint_ref, checkpoint_generation>>
    BY <2>2 DEF allVars, vars
  <2>5. AtEase' /\ InStage' /\ ScopeInv'
    BY <1>0, <2>1, <2>3, <2>4 DEF AtEase, InStage, DriveInv, ScopeInv
  <2> QED BY <1>1, <2>1, <2>4, <2>5, EaseStage
<1> QED BY <1>2, <1>3

\* A restart recovers a committed preemption or nothing.
LEMMA CrashStage ==
  ASSUME CoordTypeInv, StageInv, Crash
  PROVE  DriveInv'
<1>0. ImageInv
  BY DEF StageInv, DriveInv
<1>1. /\ pc' = "contract" /\ acked_by' = NoWorker /\ outcome' = "none"
      /\ (load(image) /\ image' = image) \/ (load(NoImage) /\ image' = NoImage)
  BY Zenon DEF Crash, new_process, recover, restart, crash_in_save
<1>2. PICK file \in {image, NoImage} : load(file) /\ image' = file
  BY <1>1
<1>3. fresh_adapters
  BY <1>2, LoadCases, Zenon
<1>4. ImageInv'
  BY <1>0, <1>2, Zenon DEF ImageInv
<1>5. /\ lifecycle' \in {"Preempted", "Invalid"}
      /\ ScopeInv'
      /\ state_durable' => checkpoint_ref' # 0 /\ checkpoint_generation' # 0
  <2>1. CASE file # NoImage /\ validate_state(file) /\ restore_state(file, TRUE)
    <3>1. /\ file.lifecycle = "Preempted" /\ file.execution = exec_id
          /\ file.safe_points[safe_point] # "Undeclared"
      BY <1>0, <1>2, <2>1, Zenon DEF ImageInv
    <3>2. file.state_durable => file.checkpoint_ref # 0 /\ file.checkpoint_generation # 0
      BY <2>1 DEF validate_state
    <3>3. /\ lifecycle' = file.lifecycle /\ execution' = file.execution
          /\ safe_points' = file.safe_points /\ state_durable' = file.state_durable
          /\ checkpoint_ref' = file.checkpoint_ref
          /\ checkpoint_generation' = file.checkpoint_generation
      BY <2>1, Zenon DEF restore_state
    <3> QED BY <3>1, <3>2, <3>3, Zenon DEF ScopeInv
  <2>2. CASE restore_state(BlankImage, FALSE)
    <3>1. /\ lifecycle' = "Invalid" /\ execution' = NoExecution
          /\ active_request' = NoRequest /\ state_durable' = FALSE
      BY <2>2, Zenon DEF restore_state, restored_request, BlankImage
    <3> QED BY <3>1, BrokerAssumption, CoordinatorAssumption DEF ScopeInv
  <2> QED BY <1>2, <2>1, <2>2, LoadCases, Zenon
<1>6. InStage'
  BY <1>5 DEF InStage, UnderWay, is_on_main_path, is_preempted_durable
<1>7. CaptureInv' /\ ReadyInv' /\ AckInv'
  BY <1>1, <1>3, <1>5 DEF CaptureInv, ReadyInv, AckInv, fresh_adapters, QuiescedStages
<1> QED BY <1>4, <1>5, <1>6, <1>7 DEF DriveInv

\* Whoever acts, drive and runtime stay at the same stage.
LEMMA StageStep ==
  ASSUME CoordTypeInv, StageInv, CoordNext
  PROVE  StageInv'
<1>0. TypeOK' /\ LinkInv
  BY CoordTypeStep, Zenon DEF CoordTypeInv, CoordTypeOK, PersistTypeOK
<1>1. BackedInv'
  BY ImplementsStep, RuntimeTyped, BackedInvStep DEF StageInv
<1> SUFFICES DriveInv'
  BY <1>1 DEF StageInv
<1>2. CASE Moves
  <2>1. CASE \/ drive_quiesce \/ (drive_reach /\ goto("quiesce_again"))
             \/ drive_quiesce_again
    BY <2>1, QuiesceStage
  <2>2. CASE \/ drive_capture \/ drive_captured \/ drive_release
             \/ drive_released \/ drive_commit \/ drive_save
    BY <2>2, CommitStage
  <2>3. CASE OtherCalls
    BY <1>0, <2>3, CommandStage
  <2>4. CASE register_command
    <3>1. /\ AtEase /\ AtEase' /\ pc # "declare" /\ pc' # "declare"
          /\ UNCHANGED <<vars, image, boot, conn, acked_by, outcome>>
      BY <2>4 DEF register_command, AtEase, allVars
    <3> QED BY <3>1, IdleStage
  <2>5. CASE (drive_ask /\ drive_lost) \/ (drive_await /\ drive_lost)
    <3>1. /\ pc \in {"ask", "await"} /\ AtEase' /\ pc' # "declare" /\ outcome' = "lost"
          /\ UNCHANGED <<vars, image, boot, conn, acked_by>>
      BY <2>5, Zenon DEF drive_ask, drive_await, drive_lost, AtEase, allVars
    <3> QED BY <3>1, IdleStage
  <2> QED BY <1>2, <2>1, <2>2, <2>3, <2>4, <2>5, Zenon DEF Moves, OtherCalls
<1>3. ASSUME exit, UNCHANGED allVars, pc \in {"loop", "accept_first", "segment"}
      PROVE  DriveInv'
  <2>1. /\ AtEase /\ AtEase' /\ pc # "declare" /\ pc' # "declare"
        /\ UNCHANGED <<vars, image, boot, conn, acked_by, outcome>>
    BY <1>3, Zenon DEF exit, AtEase, allVars
  <2> QED BY <2>1, IdleStage
<1>4. CASE accept_first
  <2>1. \/ registered(Head(backlog), LabelBoot[Head(backlog)])
        \/ exit /\ UNCHANGED allVars
    BY <1>4, Zenon DEF accept_first
  <2>2. pc = "accept_first"
    BY <1>4, Zenon DEF accept_first
  <2> QED BY <1>0, <1>3, <2>1, <2>2, AcceptStage, Zenon
<1>5. CASE accept_next
  <2>1. \/ registered(Head(backlog), CounterBoot[boot_counter + 1])
        \/ pc' = "loop" /\ UNCHANGED <<allVars, boot, conn, acked_by, outcome>>
    BY <1>5, Zenon DEF accept_next
  <2>2. pc = "accept"
    BY <1>5, Zenon DEF accept_next
  <2>3. CASE pc' = "loop" /\ UNCHANGED <<allVars, boot, conn, acked_by, outcome>>
    BY <2>2, <2>3, IdleStage DEF AtEase, allVars
  <2> QED BY <1>0, <2>1, <2>2, <2>3, AcceptStage, Zenon
<1>6. CASE segment_lost \/ \E pos \in Positions : run_segment(pos)
  <2>1. /\ AtEase /\ AtEase' /\ pc # "declare" /\ pc' # "declare"
        /\ UNCHANGED <<vars, image, boot, conn, acked_by, outcome>>
    BY <1>6, Zenon DEF segment_lost, run_segment, AtEase, allVars
  <2> QED BY <2>1, IdleStage
<1>7. CASE segment_reached
  <2>1. CASE exit
    <3>1. pc = "segment" /\ pc' = "exited"
      BY <1>7, <2>1, Zenon DEF segment_reached, exit
    <3>2. UNCHANGED allVars
      BY <1>7, <3>1, Zenon DEF segment_reached, reach_or_exit
    <3> QED BY <1>3, <2>1, <3>1, <3>2
  <2>2. CASE ~exit
    BY <1>0, <1>7, <2>2, CommandStage
  <2> QED BY <2>1, <2>2
<1>8. CASE segment_published \/ begin_declared
  BY <1>0, <1>8, CommandStage
<1>9. CASE drive_reach /\ exit
  BY <1>0, <1>9, AcceptStage
<1>10. CASE drive_ask /\ ~drive_lost
  <2>1. /\ pc = "ask" /\ pc' = "await"
        /\ UNCHANGED <<vars, image, boot, conn, acked_by, outcome>>
    BY <1>10 DEF drive_ask, allVars
  <2> QED BY <2>1, IdleStage
<1>11. CASE drive_await /\ ~drive_lost
  BY <1>11, QuiesceStage
<1>12. CASE shutdown
  BY <1>3, <1>12 DEF shutdown
<1>13. CASE Crash
  BY <1>13, CrashStage
<1>14. ASSUME NEW w \in Workers, worker_receives(w) \/ worker_connects(w) \/ worker_dies(w)
       PROVE  DriveInv'
  <2>1. UNCHANGED <<pc, vars, image, boot, conn, acked_by, outcome>>
    BY <1>14, Zenon DEF worker_receives, worker_connects, worker_dies, allVars
  <2> QED BY <2>1, IdleStage
<1> QED
  BY <1>2, <1>4, <1>5, <1>6, <1>7, <1>8, <1>9, <1>10, <1>11, <1>12, <1>13, <1>14,
     CoordStepCases, Zenon

\* The inductive invariant as a whole.
StageInvariant == CoordTypeInv /\ StageInv

\* Every step keeps it.
LEMMA StageInvariantStep == StageInvariant /\ [CoordNext]_coordVars => StageInvariant'
<1> SUFFICES ASSUME StageInvariant, [CoordNext]_coordVars PROVE StageInvariant'
  OBVIOUS
<1>1. CoordTypeInv'
  BY CoordTypeStep DEF StageInvariant
<1>2. CASE CoordNext
  BY <1>1, <1>2, StageStep DEF StageInvariant
<1>3. CASE UNCHANGED coordVars
  <2>1. UNCHANGED <<pc, vars, image, boot, conn, acked_by, outcome>>
    BY <1>3 DEF coordVars, allVars
  <2>2. DriveInv'
    BY <2>1, IdleStage DEF StageInvariant
  <2>3. BackedInv'
    BY ImplementsStep, RuntimeTyped, BackedInvStep DEF StageInvariant, StageInv
  <2> QED BY <1>1, <2>2, <2>3 DEF StageInvariant, StageInv
<1> QED BY <1>2, <1>3

\* The processes start with it.
LEMMA StageInvariantInit == CoordInit => StageInvariant
BY CoordTypeInit, StageInit DEF StageInvariant

\* drive_preemption and the runtime stay at the same stage although the drive
\* ignores what its calls answer: no worker that is lost, no other command and no
\* restart leaves a preemption between the acknowledgement and the commit.
THEOREM InStageHolds == CoordSpec => []InStage
<1>1. StageInvariant => InStage
  BY DEF StageInvariant, StageInv, DriveInv
<1> QED
  BY <1>1, StageInvariantInit, StageInvariantStep, PTL DEF CoordSpec

\* drive_preemption reports a safe preemption only when the worker it fences has
\* acknowledged it in that very drive, whatever died and was replaced before.
THEOREM SafeHolds == CoordSpec => []SafeOnlyIfAcknowledged
<1>1. StageInvariant => SafeOnlyIfAcknowledged
  BY DEF StageInvariant, StageInv, DriveInv, AckInv, SafeOnlyIfAcknowledged
<1> QED
  BY <1>1, StageInvariantInit, StageInvariantStep, PTL DEF CoordSpec

\* What the coordinator has saved it can load, in any number of restarts and of
\* executions: validate_state never refuses an image of its own.
THEOREM SavedImageHolds == CoordSpec => []SavedImageLoads
<1>1. StageInvariant => SavedImageLoads
  BY Zenon DEF StageInvariant, StageInv, DriveInv, ImageInv, SavedImageLoads, decode
<1> QED
  BY <1>1, StageInvariantInit, StageInvariantStep, PTL DEF CoordSpec

==============================================================================
