---------------------------- MODULE ReportProofs ----------------------------
(*************************************************************************)
(* What the coordinator has reported as a safe preemption is on file, for *)
(* every number of workers, registrations and restarts.                   *)
(*************************************************************************)
EXTENDS StageProofs

USE DEF persistVars, processVars, goto, call, scopeVars, safePointVars, progressVars,
        flagVars, checkpointVars, captureVars, historyVars, brokerVars, transition,
        transition2, progress_accepted, request_accepted, commit_accepted

\* The file holds the preemption that the runtime has committed.
OnFile ==
  /\ decode(image) /\ image.lifecycle = "Preempted"
  /\ image.request = active_request
  /\ image.durable_progress = durable_position
  /\ image.checkpoint_ref = checkpoint_ref

\* The inductive invariant behind ReportedIsSaved: from the end of the capture on
\* the checkpoint is the last one, and nobody has authority over a preemption
\* that was reported, so that nothing moves behind the file.
ReportInv ==
  /\ lifecycle \in DurableStages => checkpoint_ref = capture_count
  /\ outcome = "safe" /\ Fenced(lifecycle) =>
       /\ ~authority.authoritative /\ checkpoint_ref = capture_count
       /\ pc # "save" => OnFile

\* What a step must leave alone for a report to stay true.
KeepsReport ==
  /\ lifecycle' \in DurableStages =>
       lifecycle \in DurableStages /\ UNCHANGED <<checkpoint_ref, capture_count>>
  /\ Fenced(lifecycle') =>
       /\ Fenced(lifecycle)
       /\ ~authority.authoritative =>
            /\ ~authority'.authoritative
            /\ UNCHANGED <<checkpoint_ref, capture_count, durable_position, active_request>>

\* A step that does keeps the invariant.
LEMMA ReportKept ==
  ASSUME ReportInv, KeepsReport, UNCHANGED image, pc # "save" \/ pc' = pc,
         outcome' = "safe" => outcome = "safe"
  PROVE  ReportInv'
<1>1. (lifecycle \in DurableStages => checkpoint_ref = capture_count)'
  BY DEF ReportInv, KeepsReport
<1>2. ASSUME outcome' = "safe", Fenced(lifecycle')
      PROVE  /\ ~authority'.authoritative /\ checkpoint_ref' = capture_count'
             /\ pc' # "save" => OnFile'
  <2>1. /\ ~authority.authoritative /\ checkpoint_ref = capture_count
        /\ pc # "save" => OnFile
    BY <1>2 DEF ReportInv, KeepsReport
  <2>2. /\ ~authority'.authoritative
        /\ UNCHANGED <<checkpoint_ref, capture_count, durable_position, active_request>>
    BY <1>2, <2>1 DEF KeepsReport
  <2>3. OnFile => OnFile'
    BY <2>2 DEF OnFile
  <2> QED BY <2>1, <2>2, <2>3
<1> QED BY <1>1, <1>2 DEF ReportInv, Fenced

\* The calls of the coordinator other than the capture and the commit.
Calls ==
  \/ UNCHANGED vars
  \/ \E b \in Boots : set_worker_incarnation(b)
  \/ \E pos \in Positions, c \in BOOLEAN : reach_safe_point(safe_point, pos, c)
  \/ \E pos \in Positions : publish_progress(pos, TRUE)
  \/ \E req \in Requests : request_preemption(req)
  \/ begin_quiesce \/ report_quiesced(boot, TRUE) \/ request_release \/ report_released
  \/ request_resume \/ revalidate(TRUE, "Current") \/ restore(TRUE) \/ confirm_resumed
  \/ start_execution(exec_id, 1, boot) \/ declare_safe_point(safe_point)

\* None of them disturbs a report: a published progress needs authority.
LEMMA CallsKeep == Calls => KeepsReport
<1> USE DEF KeepsReport, Fenced, is_preempted_durable, DurableStages
<1>1. CASE UNCHANGED vars
  BY <1>1, Zenon DEF vars
<1>2. CASE \E b \in Boots : set_worker_incarnation(b)
  BY <1>2, Zenon DEF set_worker_incarnation
<1>3. CASE \E pos \in Positions, c \in BOOLEAN : reach_safe_point(safe_point, pos, c)
  BY <1>3 DEF reach_safe_point
<1>4. CASE \E pos \in Positions : publish_progress(pos, TRUE)
  BY <1>4 DEF publish_progress, current_attempt_authority
<1>5. CASE \E req \in Requests : request_preemption(req)
  BY <1>5 DEF request_preemption
<1>6. CASE begin_quiesce \/ report_quiesced(boot, TRUE)
  BY <1>6 DEF begin_quiesce, report_quiesced
<1>7. CASE request_release \/ report_released
  BY <1>7 DEF request_release, report_released
<1>8. CASE request_resume \/ revalidate(TRUE, "Current") \/ restore(TRUE) \/ confirm_resumed
  BY <1>8 DEF request_resume, revalidate, restore, confirm_resumed, resumeFrame
<1>9. CASE start_execution(exec_id, 1, boot)
  BY <1>9 DEF start_execution
<1>10. CASE declare_safe_point(safe_point)
  BY <1>10, Zenon DEF declare_safe_point
<1> QED
  BY <1>1, <1>2, <1>3, <1>4, <1>5, <1>6, <1>7, <1>8, <1>9, <1>10 DEF Calls

\* The contract concerns the broker alone.
LEMMA SetUpKeeps == set_up => KeepsReport
BY Zenon DEF set_up, set_contract, fabricFrame, KeepsReport, Fenced

\* The steps of the coordinator that are such calls.
LEMMA StepCalls ==
  ASSUME CoordTypeInv, CoordNext, ~drive_capture, ~drive_captured, ~drive_commit,
         ~drive_save, ~Crash
  PROVE  /\ Calls \/ set_up
         /\ UNCHANGED image
         /\ pc # "save" \/ pc' = pc
         /\ outcome' = "safe" => outcome = "safe"
<1> DEFINE Goal == /\ Calls \/ set_up
                   /\ UNCHANGED image
                   /\ pc # "save" \/ pc' = pc
                   /\ outcome' = "safe" => outcome = "safe"
<1>0. ASSUME UNCHANGED allVars, pc # "save" \/ pc' = pc, outcome' \in {outcome, "lost"}
      PROVE  Goal
  BY <1>0 DEF allVars, Calls
<1>1. ASSUME NEW w, NEW b \in Boots, registered(w, b), pc # "save"
      PROVE  Goal
  BY <1>1, Zenon DEF registered, Calls
<1>2. CASE accept_first
  <2>1. CASE exit /\ UNCHANGED allVars
    BY <1>0, <1>2, <2>1 DEF accept_first, exit
  <2>2. CASE registered(Head(backlog), LabelBoot[Head(backlog)])
    <3>1. LabelBoot[Head(backlog)] \in Boots
      BY <1>2, BacklogHead, CoordinatorAssumption DEF accept_first
    <3> QED BY <1>1, <1>2, <2>2, <3>1 DEF accept_first
  <2> QED BY <1>2, <2>1, <2>2, Zenon DEF accept_first
<1>3. CASE accept_next
  <2>1. CASE UNCHANGED allVars /\ UNCHANGED outcome
    BY <1>0, <1>3, <2>1 DEF accept_next
  <2>2. CASE registered(Head(backlog), CounterBoot[boot_counter + 1])
    <3>1. CounterBoot[boot_counter + 1] \in Boots
      BY <1>3, CoordinatorAssumption DEF accept_next, CoordTypeInv, CoordTypeOK, LinkInv
    <3> QED BY <1>1, <1>3, <2>2, <3>1 DEF accept_next
  <2> QED BY <1>3, <2>1, <2>2, Zenon DEF accept_next
<1>4. CASE segment_reached
  <2>1. conn \in Workers /\ worker[conn].outbox \in Seq(Messages) /\ pc # "save"
    BY <1>4 DEF segment_reached, CoordTypeInv, CoordTypeOK, LinkInv, Linked, Processes
  <2>2. segment_replies \in 1 .. Len(worker[conn].outbox)
    BY <1>4, <2>1 DEF segment_reached, received, segment_replies
  <2>3. worker[conn].outbox[segment_replies].position \in Positions
    BY <2>1, <2>2, ReplyPosition
  <2>4. \/ UNCHANGED allVars /\ UNCHANGED outcome
        \/ /\ reach_safe_point(safe_point, worker[conn].outbox[segment_replies].position, FALSE)
           /\ UNCHANGED <<image, outcome>>
    BY <1>4, Zenon DEF segment_reached, reach_or_exit, exit
  <2> QED BY <1>0, <2>1, <2>3, <2>4 DEF Calls
<1>5. CASE segment_published
  <2>1. position \in Positions
    BY DEF CoordTypeInv, CoordTypeOK
  <2> QED BY <1>5, <2>1, Zenon DEF segment_published, Calls
<1>6. CASE drive_reach
  <2>1. last_progress \in Positions /\ pc # "save"
    BY <1>6 DEF CoordTypeInv, CoordTypeOK, drive_reach
  <2>2. \/ UNCHANGED allVars /\ UNCHANGED outcome
        \/ /\ reach_safe_point(safe_point, last_progress, TRUE)
           /\ UNCHANGED <<image, outcome>>
    BY <1>6, Zenon DEF drive_reach, reach_or_exit, exit, drive_capture_required
  <2> QED BY <1>0, <2>1, <2>2 DEF Calls
<1>7. CASE drive_request
  BY <1>7, TheRequest, Zenon DEF drive_request, CoordTypeInv, CoordTypeOK, Calls
<1>8. CASE \E req \in Requests : replay_command(req)
  BY <1>8, Zenon DEF replay_command, Calls
<1>9. CASE drive_quiesce \/ drive_quiesce_again
  BY <1>9, Zenon DEF drive_quiesce, drive_quiesce_again, Calls
<1>10. CASE drive_await
  BY <1>0, <1>10, Zenon DEF drive_await, drive_lost, Calls
<1>11. CASE drive_release \/ drive_released \/ replay_released
  BY <1>11, Zenon DEF drive_release, drive_released, replay_released, Calls
<1>12. CASE drive_resume \/ resume_command
  BY <1>12, Zenon DEF drive_resume, resume_command, Calls
<1>13. CASE begin_execution \/ begin_declared
  BY <1>13, Zenon DEF begin_execution, begin_declared, Calls
<1>14. CASE set_up
  BY <1>14, Zenon DEF set_up
<1>15. CASE \/ \E pos \in Positions : run_segment(pos)
            \/ segment_lost \/ drive_ask \/ register_command \/ shutdown
            \/ \E w \in Workers : worker_receives(w)
            \/ Environment
  <2>1. /\ UNCHANGED allVars /\ outcome' \in {outcome, "lost"}
        /\ pc # "save" \/ pc' = pc
    BY <1>15, Zenon DEF run_segment, segment_lost, drive_ask, drive_lost, register_command,
       shutdown, exit, worker_receives, Environment, worker_connects, worker_dies
  <2> QED BY <1>0, <2>1
<1> QED
  BY <1>2, <1>3, <1>4, <1>5, <1>6, <1>7, <1>8, <1>9, <1>10, <1>11, <1>12, <1>13, <1>14,
     <1>15, Zenon DEF CoordNext, Commands, Coordinate, drive_preemption

\* The capture: the drive reports the latest one.
LEMMA CaptureReport ==
  ASSUME StageInv, ReportInv, drive_capture \/ drive_captured
  PROVE  ReportInv'
<1>1. /\ UNCHANGED <<image, outcome>> /\ pc # "save"
  BY Zenon DEF drive_capture, drive_captured, allVars
<1>2. CASE UNCHANGED vars
  BY <1>1, <1>2, CallsKeep, ReportKept DEF Calls
<1>3. CASE drive_capture /\ request_state_capture(TRUE)
  <2>1. capture_required
    BY <1>3 DEF drive_capture, StageInv, DriveInv, CaptureInv
  <2>2. lifecycle' = "CapturingState"
    BY <1>3, <2>1 DEF request_state_capture
  <2> QED BY <2>2 DEF ReportInv, DurableStages, Fenced, is_preempted_durable
<1>4. CASE \E c \in captures : c.ref = capture_count /\ report_state_captured(c, TRUE)
  <2>1. \/ lifecycle' = "StateDurable" /\ checkpoint_ref' = capture_count
                                       /\ capture_count' = capture_count
        \/ lifecycle' = "Failed"
    BY <1>4, Zenon DEF report_state_captured
  <2> QED BY <2>1 DEF ReportInv, DurableStages, Fenced, is_preempted_durable
<1> QED BY <1>2, <1>3, <1>4, Zenon DEF drive_capture, drive_captured, allVars

\* The commit takes the authority away, the save puts the preemption on file.
LEMMA CommitReport ==
  ASSUME CoordTypeInv, StageInv, StageInv', ReportInv, drive_commit \/ drive_save
  PROVE  ReportInv'
<1>1. CASE drive_commit
  <2>1. CASE commit_preempted /\ pc' = "save"
    <3>1. /\ lifecycle = "ResourcesReleased" /\ lifecycle' = "Preempted"
          /\ authority' = [authority EXCEPT !.authoritative = FALSE]
          /\ UNCHANGED <<checkpoint_ref, capture_count>>
      BY <2>1, Zenon DEF commit_preempted, fence_attempt
    <3>2. ~authority'.authoritative
      BY <3>1 DEF CoordTypeInv, CoordTypeOK, PersistTypeOK, TypeOK, Authorities
    <3>3. checkpoint_ref = capture_count
      BY <3>1 DEF ReportInv, DurableStages
    <3> QED BY <2>1, <3>1, <3>2, <3>3 DEF ReportInv, DurableStages
  <2>2. CASE UNCHANGED vars /\ outcome' = "failed"
    <3>1. pc # "save" /\ UNCHANGED image
      BY <1>1 DEF drive_commit
    <3> QED BY <2>2, <3>1, CallsKeep, ReportKept DEF Calls
  <2> QED BY <1>1, <2>1, <2>2 DEF drive_commit
<1>2. CASE drive_save
  <2>1. /\ pc = "save" /\ image' = snapshot /\ UNCHANGED <<vars, outcome>>
    BY <1>2 DEF drive_save, save
  <2>2. lifecycle = "Preempted"
    BY <2>1 DEF StageInv, DriveInv, ReadyInv
  <2>3. UNCHANGED <<lifecycle, authority, active_request, durable_position, checkpoint_ref,
                    capture_count>>
    BY <2>1, Zenon DEF vars
  <2>4. image'.lifecycle = lifecycle /\ image'.request = active_request
        /\ image'.durable_progress = durable_position
        /\ image'.checkpoint_ref = checkpoint_ref
    BY <2>1 DEF snapshot
  <2>5. image' # NoImage
    <3>1. snapshot \in Images
      BY SnapshotIsImage DEF CoordTypeInv, CoordTypeOK, PersistTypeOK
    <3> QED BY <2>1, <3>1, PersistenceAssumption
  <2>6. OnFile'
    BY <2>2, <2>3, <2>4, <2>5 DEF OnFile, decode, StageInv, DriveInv, ImageInv
  <2> QED BY <2>1, <2>3, <2>6 DEF ReportInv
<1> QED BY <1>1, <1>2

\* Whoever acts, what was reported stays on file.
LEMMA ReportStep ==
  ASSUME StageInvariant, StageInvariant', ReportInv, CoordNext
  PROVE  ReportInv'
<1> USE DEF StageInvariant
<1>1. CASE drive_capture \/ drive_captured
  BY <1>1, CaptureReport
<1>2. CASE drive_commit \/ drive_save
  BY <1>2, CommitReport
<1>3. CASE Crash
  <2>1. pc' = "contract" /\ outcome' = "none"
    BY <1>3 DEF Crash, new_process
  <2>2. (UnderWay(lifecycle) => lifecycle \in {"Assessing", "Quiescing"})'
    BY <2>1 DEF StageInv, DriveInv, InStage, stages_at
  <2>3. (lifecycle \in DurableStages => UnderWay(lifecycle))'
    BY Zenon DEF UnderWay, is_on_main_path, is_preempted_durable, LifecycleStates, OffPath,
       DurableStages
  <2> QED BY <2>1, <2>2, <2>3 DEF ReportInv, DurableStages
<1>4. CASE ~drive_capture /\ ~drive_captured /\ ~drive_commit /\ ~drive_save /\ ~Crash
  <2>1. /\ Calls \/ set_up
        /\ UNCHANGED image
        /\ pc # "save" \/ pc' = pc
        /\ outcome' = "safe" => outcome = "safe"
    BY <1>4, StepCalls
  <2> QED BY <2>1, CallsKeep, SetUpKeeps, ReportKept
<1> QED BY <1>1, <1>2, <1>3, <1>4

\* A preemption that drive_preemption has reported as safe is the one on file, with
\* the request, the durable progress and the checkpoint of the last capture, until
\* it is resumed: no command, no worker and no replay moves the runtime away from
\* the file behind the report.
THEOREM ReportedHolds == CoordSpec => []ReportedIsSaved
<1>1. CoordInit => ReportInv
  BY Zenon DEF CoordInit, PersistInit, Init, ReportInv, DurableStages
<1>2. StageInvariant /\ StageInvariant' /\ ReportInv /\ [CoordNext]_coordVars => ReportInv'
  <2> SUFFICES ASSUME StageInvariant, StageInvariant', ReportInv, [CoordNext]_coordVars
               PROVE  ReportInv'
    OBVIOUS
  <2>1. CASE CoordNext
    BY <2>1, ReportStep
  <2>2. CASE UNCHANGED coordVars
    <3>1. UNCHANGED vars /\ UNCHANGED <<image, pc, outcome>>
      BY <2>2 DEF coordVars, allVars
    <3> QED BY <3>1, CallsKeep, ReportKept DEF Calls
  <2> QED BY <2>1, <2>2
<1>3. ReportInv => ReportedIsSaved
  BY DEF ReportInv, OnFile, ReportedIsSaved
<1> QED
  BY <1>1, <1>2, <1>3, StageInvariantInit, StageInvariantStep, PTL DEF CoordSpec

=============================================================================
