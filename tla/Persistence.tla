----------------------------- MODULE Persistence -----------------------------
(***************************************************************************)
(* The saved image of a PreemptionRuntime (runtime.cpp snapshot, restore,  *)
(* save, load; src/persistence/store.cpp) and the restart of a coordinator *)
(* that recovers from it (coordinator.cpp, --save and --recover).          *)
(*                                                                         *)
(* decode(encode(s)) gives back s whenever validate_state accepts s, and a *)
(* file that is missing, truncated or corrupt is refused: the bytes are    *)
(* abstracted to an image or NoImage.  A restart loses the process, the    *)
(* in-process reference adapters and the connections of the workers, which *)
(* exit when the coordinator is gone.                                      *)
(***************************************************************************)
EXTENDS PreemptionRuntime

CONSTANT NoImage   \* no file, or one that decode refuses as damaged

VARIABLES
  image,   \* what the file holds
  live     \* history: the worker of worker_boot is connected to this process

persistVars == <<image, live>>
allVars == <<vars, persistVars>>

Images ==
  [lifecycle : LifecycleStates, execution : Scopes, attempt_generation : Generations,
   worker_boot : AllBoots, fenced_worker_boot : AllBoots,
   request : RequestKeys \cup {NoRequest},
   quiesced : BOOLEAN, state_durable : BOOLEAN, resources_released : BOOLEAN,
   checkpoint_ref : 0 .. MaxCaptures, checkpoint_generation : Generations,
   preempted : BOOLEAN, resume_generation : Generations,
   durable_progress : Positions, progress_generation : Generations,
   safe_points : [SafePointIds -> {"Undeclared", "Declared", "Valid"}],
   \* history
   proved : SUBSET Evidence, capture_owed : BOOLEAN, fenced_generation : Generations]

ASSUME PersistenceAssumption == NoImage \notin Images

PersistTypeOK ==
  /\ TypeOK
  /\ image \in Images \cup {NoImage}
  /\ live \in BOOLEAN

PersistInit == Init /\ image = NoImage /\ live = FALSE

------------------------------------------------------------------------------
(* The image *)

\* Neither current_safe_point_ nor current_position_ nor progress_generation_ is
\* part of it.
snapshot ==
  [lifecycle |-> lifecycle, execution |-> execution,
   attempt_generation |-> attempt_generation, worker_boot |-> worker_boot,
   fenced_worker_boot |-> fenced_worker_boot, request |-> active_request,
   quiesced |-> quiesced, state_durable |-> state_durable,
   resources_released |-> resources_released, checkpoint_ref |-> checkpoint_ref,
   checkpoint_generation |-> checkpoint_generation,
   preempted |-> is_preempted_durable(lifecycle),
   resume_generation |-> resume_generation, durable_progress |-> durable_position,
   progress_generation |-> durable_progress_generation, safe_points |-> safe_points,
   proved |-> proved, capture_owed |-> capture_owed,
   fenced_generation |-> fenced_generation]

is_on_main_path(s) == s \in LifecycleStates \ (OffPath \cup {"Invalid"})

is_resume_reached(s) ==
  s \in {"ResumePending", "Revalidating", "Restoring", "ResumeReady", "Resuming",
         "Resumed"}

is_release_reached(s) ==
  s \in {"ReleasePending", "Releasing", "ResourcesReleased", "Preempted"}
  \/ is_resume_reached(s)

validate_state(s) ==
  /\ is_on_main_path(s.lifecycle) =>
       /\ is_release_reached(s.lifecycle) =>
            s.quiesced /\ s.state_durable /\ s.resources_released
       /\ is_resume_reached(s.lifecycle) => s.preempted
  /\ s.preempted => s.state_durable
  /\ s.state_durable => s.checkpoint_ref # 0 /\ s.checkpoint_generation # 0

\* Whether decode returns a state: a missing or damaged file fails its checks of
\* magic, version, length and checksum, an intact one is left to validate_state.
decode(file) == file # NoImage /\ validate_state(file)

------------------------------------------------------------------------------
(* Restart *)

\* A process that has just started, seen as an image.
BlankImage ==
  [lifecycle |-> "Invalid", execution |-> NoExecution, attempt_generation |-> 0,
   worker_boot |-> NoBoot, fenced_worker_boot |-> NoBoot, request |-> NoRequest,
   quiesced |-> FALSE, state_durable |-> FALSE, resources_released |-> FALSE,
   checkpoint_ref |-> 0, checkpoint_generation |-> 0, preempted |-> FALSE,
   resume_generation |-> 0, durable_progress |-> 0, progress_generation |-> 0,
   safe_points |-> [id \in SafePointIds |-> "Undeclared"],
   proved |-> {}, capture_owed |-> FALSE, fenced_generation |-> 0]

request_forgotten(s) == NoRequest
restored_request(s) == s.request

progress_restarted(s) == 0
restored_progress(s) == s.durable_progress

\* PreemptionRuntime::restore(PersistentState) in a fresh process, whether the
\* image was accepted or the process starts blank.  No process that still runs has
\* reported the quiescence that is restored: quiesced_by is nobody.
restore_state(s, accepted) ==
  /\ lifecycle' = s.lifecycle
  /\ execution' = s.execution /\ attempt_generation' = s.attempt_generation
  /\ worker_boot' = s.worker_boot /\ fenced_worker_boot' = s.fenced_worker_boot
  /\ active_request' = restored_request(s)
  /\ safe_points' = s.safe_points /\ current_safe_point' = NoSafePoint
  /\ durable_position' = restored_progress(s)
  /\ current_position' = s.durable_progress
  /\ durable_progress_generation' = s.progress_generation /\ progress_generation' = 0
  /\ quiesced' = s.quiesced /\ state_durable' = s.state_durable
  /\ resources_released' = s.resources_released
  /\ checkpoint_ref' = s.checkpoint_ref
  /\ checkpoint_generation' = s.checkpoint_generation
  /\ resume_generation' = s.resume_generation
  /\ authority' = [authoritative |-> accepted, execution |-> s.execution,
                   generation |-> s.attempt_generation, worker_boot |-> s.worker_boot]
  /\ proved' = s.proved /\ capture_owed' = s.capture_owed
  /\ fenced_generation' = s.fenced_generation /\ quiesced_by' = NoBoot

\* The adapters of the new process.
fresh_adapters ==
  /\ capture_count' = 0 /\ captures' = {} /\ current_checkpoint_gen' = 1
  /\ contract_gen' = 0 /\ contract_execution' = NoExecution
  /\ reserved' = [r \in Resources |-> 0] /\ released' = [r \in Resources |-> 0]
  /\ granted' = [r \in Resources |-> 0]

load(file) ==
  /\ IF decode(file)
       THEN restore_state(file, TRUE) ELSE restore_state(BlankImage, FALSE)
  /\ fresh_adapters
  /\ live' = FALSE

save == image' = snapshot /\ UNCHANGED <<vars, live>>

restart == load(image) /\ UNCHANGED image

\* save truncates the file before it writes: a crash in between leaves nothing
\* that can be loaded.
crash_in_save == load(NoImage) /\ image' = NoImage

PersistActs == save \/ restart \/ crash_in_save

PersistNext ==
  \/ RegistrationActs /\ live' = TRUE /\ UNCHANGED image
  \/ /\ ExecutionActs \/ PreemptionActs \/ ResumeActs \/ EndActs \/ FabricActs
     /\ UNCHANGED persistVars
  \/ PersistActs

PersistSpec == PersistInit /\ [][PersistNext]_allVars

------------------------------------------------------------------------------
(* What recovery keeps *)

\* A restart never falls behind the durable progress of an image that can be
\* loaded, and work after the restart never undercuts it.
SavedProgressKept ==
  decode(image) => durable_position >= image.durable_progress

\* A preemption under way has its request on record, across restarts too: a
\* replayed request is a duplicate and cannot start the preemption over.
RequestSurvives == is_on_main_path(lifecycle) => active_request # NoRequest

\* "Stale WorkerBootIds remain fenced": no worker that has registered moves the
\* durable boundary of a committed preemption, after a restart too.  restore hands
\* the authority that commit_preempted took away back to the attempt, so all rests
\* on publish_progress comparing boot ids.
DurableFrozenAcrossRestarts ==
  [][Fenced(lifecycle) /\ live /\ live' =>
       UNCHANGED <<durable_position, durable_progress_generation>>]_allVars

\* What DurableFrozenAcrossRestarts needs of the workers: whoever registers, with a
\* new process or in the place of another worker, carries a boot id other than the
\* one that the authority of the attempt is bound to.
FreshIncarnations ==
  [][live' /\ (~live \/ worker_boot' # worker_boot) =>
       worker_boot' # authority.worker_boot]_allVars

------------------------------------------------------------------------------
(* What the documentation promises and the code does not keep *)

\* "Round-trippable persistence": what save writes, load accepts.
SnapshotDecodes == validate_state(snapshot)

\* "No capture needed: already durable or recomputable": where the worker quiesced
\* at a safe point that requires a capture, request_state_capture does not go on to
\* the release without one.
OwedCaptureNotSkipped == lifecycle = "ReleasePending" => ~capture_owed

\* "After restart, quiescence tied to a dead process is fenced": with a worker that
\* has registered since, no stage counts on anybody else's quiescence.
QuiescenceFencedAfterRestart ==
  live /\ lifecycle \in QuiescedStages => quiesced_by = worker_boot
==============================================================================
