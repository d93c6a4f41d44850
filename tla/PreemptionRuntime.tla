-------------------------- MODULE PreemptionRuntime --------------------------
(***************************************************************************)
(* PreemptionRuntime (src/runtime.cpp) over the reference adapters.  Every *)
(* public method holds the runtime's one mutex for its whole body, so a    *)
(* method is one action and threads interleave between methods.  A call    *)
(* that is refused returns an outcome and changes nothing: it is a         *)
(* stuttering step, and an action's guard is what gets past the refusals.  *)
(*                                                                         *)
(* What the sibling fabrics answer (are all categories quiesced, did the   *)
(* capture succeed, is the checkpoint intact, are the dependencies         *)
(* current) may change between any two calls, so an answer is a parameter  *)
(* of the action that asks.  Results of captures are kept in a set and may *)
(* be reported late, repeatedly and in any order.                          *)
(*                                                                         *)
(* Fields that no guard of the runtime reads (workload and policy ids, the *)
(* generations of quiescence and of the capture, release_generation_,      *)
(* resumed_, positions stored in safe points, the history_ of cancelled    *)
(* requests) are left out.                                                 *)
(***************************************************************************)
EXTENDS Lifecycle, ResourceBroker

CONSTANTS
  Boots,          \* worker incarnations (WorkerBootId)
  NoBoot,         \* the default, invalid boot id
  RequestIds,     \* valid preemption request ids
  NoRequest,      \* no active request
  SafePointIds,
  NoSafePoint,    \* no current safe point
  Epochs,         \* coordinator epochs a request may carry
  Epoch,          \* the epoch of this runtime
  MaxPos,         \* bound: the largest progress position published
  MaxCaptures     \* bound: captures the checkpoint fabric performs

RequestKeys == [id : RequestIds, generation : Generations]
SafePointCopies == [id : SafePointIds, state_capture_required : BOOLEAN]

ASSUME RuntimeAssumption ==
  /\ NoBoot \notin Boots
  /\ NoRequest \notin RequestKeys
  /\ NoSafePoint \notin SafePointCopies
  /\ Epoch \in Epochs
  /\ MaxPos \in Nat
  /\ MaxCaptures \in Nat

AllBoots == Boots \cup {NoBoot}
Positions == 0 .. MaxPos
DependencyStatus == {"Current", "Stale", "Missing", "Unknown"}

Requests ==
  [id : RequestIds, generation : Generations, execution : Scopes,
   attempt_generation : Generations, epoch : Epochs, worker_boot : AllBoots]

CaptureResults ==
  [ref : 1 .. MaxCaptures, generation : Generations, success : BOOLEAN]

Authorities ==
  [authoritative : BOOLEAN, execution : Scopes, generation : Generations,
   worker_boot : AllBoots]

VARIABLES
  lifecycle,            \* machine_.state()
  execution,            \* execution_id_ with attempt_id_
  attempt_generation,   \* attempt_generation_ with execution_generation_
  worker_boot,          \* worker_boot_
  fenced_worker_boot,   \* fenced_worker_boot_
  active_request,       \* id and generation of active_request_
  safe_points,          \* state of every entry of safe_points_
  current_safe_point,   \* the copy in current_safe_point_
  current_position, durable_position,
  progress_generation, durable_progress_generation,
  quiesced, state_durable, resources_released,
  checkpoint_ref, checkpoint_generation,
  resume_generation,
  \* ReferenceAdapters
  authority,            \* the attempt_* fields of the execution fabric
  capture_count, captures, current_checkpoint_gen,
  \* history, read by no guard:
  proved,               \* boundaries accepted since active_request was admitted
  quiesced_by,          \* incarnation whose report of quiescence was accepted
  capture_owed,         \* it quiesced where a capture is required, none followed yet
  fenced_generation     \* attempt generation that the commit fenced

scopeVars == <<execution, attempt_generation, worker_boot, fenced_worker_boot>>
safePointVars == <<safe_points, current_safe_point>>
progressVars == <<current_position, durable_position, progress_generation,
                  durable_progress_generation>>
flagVars == <<quiesced, state_durable, resources_released>>
checkpointVars == <<checkpoint_ref, checkpoint_generation>>
captureVars == <<capture_count, captures, current_checkpoint_gen>>
historyVars == <<proved, quiesced_by, capture_owed, fenced_generation>>

vars == <<lifecycle, scopeVars, active_request, safePointVars, progressVars,
          flagVars, checkpointVars, resume_generation, authority, captureVars,
          historyVars, brokerVars>>

Evidence == {"quiesced", "durable", "released", "preempted"}

TypeOK ==
  /\ BrokerTypeOK
  /\ lifecycle \in LifecycleStates
  /\ execution \in Scopes
  /\ attempt_generation \in Generations
  /\ worker_boot \in AllBoots
  /\ fenced_worker_boot \in AllBoots
  /\ active_request \in RequestKeys \cup {NoRequest}
  /\ safe_points \in [SafePointIds -> {"Undeclared", "Declared", "Valid"}]
  /\ current_safe_point \in SafePointCopies \cup {NoSafePoint}
  /\ current_position \in Positions /\ durable_position \in Positions
  /\ progress_generation \in Generations
  /\ durable_progress_generation \in Generations
  /\ quiesced \in BOOLEAN /\ state_durable \in BOOLEAN
  /\ resources_released \in BOOLEAN
  /\ checkpoint_ref \in 0 .. MaxCaptures
  /\ checkpoint_generation \in Generations
  /\ resume_generation \in Generations
  /\ authority \in Authorities
  /\ capture_count \in 0 .. MaxCaptures
  /\ captures \in SUBSET CaptureResults
  /\ current_checkpoint_gen \in Generations
  /\ proved \in SUBSET Evidence
  /\ quiesced_by \in AllBoots
  /\ capture_owed \in BOOLEAN
  /\ fenced_generation \in Generations

Init ==
  /\ BrokerInit
  /\ lifecycle = "Invalid"
  /\ execution = NoExecution
  /\ attempt_generation = 0
  /\ worker_boot = NoBoot /\ fenced_worker_boot = NoBoot
  /\ active_request = NoRequest
  /\ safe_points = [id \in SafePointIds |-> "Undeclared"]
  /\ current_safe_point = NoSafePoint
  /\ current_position = 0 /\ durable_position = 0
  /\ progress_generation = 0 /\ durable_progress_generation = 0
  /\ quiesced = FALSE /\ state_durable = FALSE /\ resources_released = FALSE
  /\ checkpoint_ref = 0 /\ checkpoint_generation = 0
  /\ resume_generation = 0
  /\ authority = [authoritative |-> FALSE, execution |-> NoExecution,
                  generation |-> 0, worker_boot |-> NoBoot]
  /\ capture_count = 0 /\ captures = {}
  /\ current_checkpoint_gen = 1
  /\ proved = {} /\ quiesced_by = NoBoot
  /\ capture_owed = FALSE /\ fenced_generation = 0

------------------------------------------------------------------------------
(* Helpers *)

next_unsaturated(g) == g + 1
next_stuck(g) == g
next_wraps(g) == IF g = MaxGen THEN 0 ELSE g + 1
\* Generation::next saturates.
next(g) == IF g = MaxGen THEN g ELSE g + 1

max_latest(a, b) == b
max(a, b) == IF a >= b THEN a ELSE b

transition(to) == is_allowed(lifecycle, to) /\ lifecycle' = to

\* Two transitions inside one method.
transition2(mid, to) ==
  is_allowed(lifecycle, mid) /\ is_allowed(mid, to) /\ lifecycle' = to

authority_by_scope_only == execution = authority.execution
current_attempt_authority ==
  authority.authoritative /\ execution = authority.execution

\* intact is the fabric's checkpoint_valid_.
validate_checkpoint(ref, g, intact) ==
  intact /\ ref # 0 /\ g = current_checkpoint_gen

validate_authority(req) ==
  /\ req.epoch = Epoch
  /\ req.execution = execution
  /\ req.attempt_generation = attempt_generation
  /\ req.worker_boot = NoBoot \/ req.worker_boot = worker_boot

\* current_safe_point_ is only ever assigned a copy in state VALID.
AtValidSafePoint == current_safe_point # NoSafePoint

capture_required ==
  AtValidSafePoint /\ current_safe_point.state_capture_required

------------------------------------------------------------------------------
(* Execution, safe points, progress *)

\* Only the scope, the lifecycle, the request and the authority are reset: the
\* three flags, the safe points, the positions and the checkpoint of an earlier
\* execution stay.
start_execution(e, g, boot) ==
  /\ execution' = e /\ attempt_generation' = g /\ worker_boot' = boot
  /\ lifecycle' = "Invalid"
  /\ active_request' = NoRequest
  /\ authority' = [authoritative |-> TRUE, execution |-> e, generation |-> g,
                   worker_boot |-> boot]
  /\ proved' = {} /\ quiesced_by' = NoBoot
  /\ capture_owed' = FALSE /\ fenced_generation' = 0
  /\ UNCHANGED <<fenced_worker_boot, safe_points, current_safe_point, progressVars,
                 flagVars, checkpointVars, resume_generation, captureVars, brokerVars>>

set_worker_incarnation(boot) ==
  /\ worker_boot' = boot
  /\ fenced_worker_boot' = NoBoot
  /\ UNCHANGED <<lifecycle, execution, attempt_generation, active_request,
                 safePointVars, progressVars, flagVars, checkpointVars,
                 resume_generation, authority, captureVars, historyVars, brokerVars>>

declare_safe_point(id) ==
  /\ safe_points' = [safe_points EXCEPT ![id] = "Declared"]
  /\ UNCHANGED <<lifecycle, scopeVars, active_request, current_safe_point,
                 progressVars, flagVars, checkpointVars, resume_generation, authority,
                 captureVars, historyVars, brokerVars>>

\* An id that was never declared throws before anything changes.
reach_safe_point(id, position, captureRequired) ==
  /\ safe_points[id] # "Undeclared"
  /\ safe_points' = [safe_points EXCEPT ![id] = "Valid"]
  /\ current_safe_point' = [id |-> id, state_capture_required |-> captureRequired]
  /\ current_position' = max(current_position, position)
  /\ IF lifecycle = "WaitingForSafePoint"
       THEN transition("SafePointReached")
       ELSE UNCHANGED lifecycle
  /\ UNCHANGED <<scopeVars, active_request, durable_position, progress_generation,
                 durable_progress_generation, flagVars, checkpointVars,
                 resume_generation, authority, captureVars, historyVars, brokerVars>>

not_backward(position) == position >= durable_position

progress_accepted_of_any_boot(position) ==
  current_attempt_authority /\ not_backward(position)
progress_accepted(position) ==
  /\ current_attempt_authority /\ authority.worker_boot = worker_boot
  /\ not_backward(position)

publish_progress(position, durable) ==
  /\ progress_accepted(position)
  /\ current_position' = max(current_position, position)
  /\ progress_generation' = next(progress_generation)
  /\ IF durable /\ not_backward(position)
       THEN /\ durable_position' = position
            /\ durable_progress_generation' = progress_generation'
       ELSE UNCHANGED <<durable_position, durable_progress_generation>>
  /\ UNCHANGED <<lifecycle, scopeVars, active_request, safePointVars, flagVars,
                 checkpointVars, resume_generation, authority, captureVars,
                 historyVars, brokerVars>>

------------------------------------------------------------------------------
(* Preemption *)

\* A request with an invalid generation or stale authority is rejected; while a
\* request is active every further one is an idempotent or a conflicting
\* duplicate.  active_request_ is only ever cleared by start_execution.
request_accepted(req) ==
  /\ req.generation # 0
  /\ validate_authority(req)
  /\ active_request = NoRequest

request_preemption(req) ==
  /\ request_accepted(req)
  /\ active_request' = [id |-> req.id, generation |-> req.generation]
  /\ is_allowed("Requested", "ValidatingAuthority")
  /\ is_allowed("ValidatingAuthority", "Assessing")
  /\ lifecycle' = "Assessing"
  /\ proved' = {} /\ capture_owed' = FALSE
  /\ UNCHANGED <<scopeVars, safePointVars, progressVars, flagVars, checkpointVars,
                 resume_generation, authority, captureVars, quiesced_by,
                 fenced_generation, brokerVars>>

begin_quiesce_at_declared ==
  /\ lifecycle = "Assessing"
  /\ IF \E id \in SafePointIds : safe_points[id] # "Undeclared"
       THEN transition("Quiescing") ELSE transition("WaitingForSafePoint")
  /\ UNCHANGED <<scopeVars, active_request, safePointVars, progressVars, flagVars,
                 checkpointVars, resume_generation, authority, captureVars,
                 historyVars, brokerVars>>

begin_quiesce ==
  /\ \/ lifecycle = "SafePointReached" /\ transition("Quiescing")
     \/ /\ lifecycle \in {"Assessing", "Deferred"}
        /\ IF AtValidSafePoint THEN transition("Quiescing")
                               ELSE transition("WaitingForSafePoint")
  /\ UNCHANGED <<scopeVars, active_request, safePointVars, progressVars, flagVars,
                 checkpointVars, resume_generation, authority, captureVars,
                 historyVars, brokerVars>>

\* allQuiesced: the report says fully quiesced and so does every category.
report_quiesced(boot, allQuiesced) ==
  /\ boot = worker_boot
  /\ lifecycle = "Quiescing"
  /\ allQuiesced
  /\ transition("Quiesced")
  /\ quiesced' = TRUE
  /\ proved' = proved \cup {"quiesced"}
  /\ quiesced_by' = boot
  /\ capture_owed' = capture_required
  /\ UNCHANGED <<scopeVars, active_request, safePointVars, progressVars,
                 state_durable, resources_released, checkpointVars,
                 resume_generation, authority, captureVars, fenced_generation,
                 brokerVars>>

\* The checkpoint fabric performs a capture and keeps its result.
request_capture(expected, ok) ==
  /\ capture_count < MaxCaptures
  /\ capture_count' = capture_count + 1
  /\ captures' = captures \cup
       {[ref |-> capture_count + 1, generation |-> expected, success |-> ok]}
  /\ UNCHANGED current_checkpoint_gen

\* ok: what the fabric's capture will come to.
request_state_capture(ok) ==
  /\ lifecycle = "Quiesced"
  /\ IF capture_required
       THEN /\ transition2("CaptureRequired", "CapturingState")
            /\ request_capture(next(checkpoint_generation), ok)
            /\ UNCHANGED <<state_durable, proved>>
       ELSE /\ transition("ReleasePending")
            /\ state_durable' = TRUE
            /\ proved' = proved \cup {"durable"}
            /\ UNCHANGED captureVars
  /\ UNCHANGED <<scopeVars, active_request, safePointVars, progressVars, quiesced,
                 resources_released, checkpointVars, resume_generation, authority,
                 quiesced_by, capture_owed, fenced_generation, brokerVars>>

capture_usable_if_current(result, intact) ==
  validate_checkpoint(result.ref, result.generation, intact)
capture_usable(result, intact) ==
  result.success /\ validate_checkpoint(result.ref, result.generation, intact)

\* The result is whatever the caller hands over; here one of those that the fabric
\* has given out, of this preemption or of an earlier one.
report_state_captured(result, intact) ==
  /\ lifecycle = "CapturingState"
  /\ IF capture_usable(result, intact)
       THEN /\ transition("StateDurable")
            /\ state_durable' = TRUE
            /\ checkpoint_ref' = result.ref
            /\ checkpoint_generation' = result.generation
            /\ proved' = proved \cup {"durable"} /\ capture_owed' = FALSE
       ELSE /\ transition("Failed")
            /\ UNCHANGED <<state_durable, checkpointVars, proved, capture_owed>>
  /\ UNCHANGED <<scopeVars, active_request, safePointVars, progressVars, quiesced,
                 resources_released, resume_generation, authority, captureVars,
                 quiesced_by, fenced_generation, brokerVars>>

request_release_by_flag ==
  /\ state_durable
  /\ lifecycle \in {"Quiesced", "StateDurable", "ReleasePending"}
  /\ lifecycle' = "Releasing"
  /\ release_all_leases(execution)
  /\ UNCHANGED <<scopeVars, active_request, safePointVars, progressVars, flagVars,
                 checkpointVars, resume_generation, authority, captureVars,
                 historyVars>>

request_release ==
  /\ state_durable
  /\ \/ lifecycle = "StateDurable" /\ transition2("ReleasePending", "Releasing")
     \/ lifecycle = "ReleasePending" /\ transition("Releasing")
  /\ release_all_leases(execution)
  /\ UNCHANGED <<scopeVars, active_request, safePointVars, progressVars, flagVars,
                 checkpointVars, resume_generation, authority, captureVars,
                 historyVars>>

release_obligations_assumed == TRUE
release_obligations_met == \A r \in Resources : reserved[r] = 0

\* With units still reserved the report fails and the lifecycle stays RELEASING.
report_released ==
  /\ lifecycle = "Releasing"
  /\ release_obligations_met
  /\ transition("ResourcesReleased")
  /\ resources_released' = TRUE
  /\ proved' = proved \cup {"released"}
  /\ UNCHANGED <<scopeVars, active_request, safePointVars, progressVars, quiesced,
                 state_durable, checkpointVars, resume_generation, authority,
                 captureVars, quiesced_by, capture_owed, fenced_generation,
                 brokerVars>>

fence_attempt_lost == authority
fence_attempt == [authority EXCEPT !.authoritative = FALSE]

commit_accepted ==
  /\ lifecycle = "ResourcesReleased"
  /\ quiesced /\ state_durable /\ resources_released

commit_preempted ==
  /\ commit_accepted
  /\ transition("Preempted")
  /\ fenced_worker_boot' = worker_boot
  /\ authority' = fence_attempt
  /\ proved' = proved \cup {"preempted"}
  /\ fenced_generation' = authority.generation
  /\ UNCHANGED <<execution, attempt_generation, worker_boot, active_request,
                 safePointVars, progressVars, flagVars, checkpointVars,
                 resume_generation, captureVars, quiesced_by, capture_owed, brokerVars>>

------------------------------------------------------------------------------
(* Resume *)

\* What the resume methods leave alone.
resumeFrame ==
  UNCHANGED <<scopeVars, active_request, safePointVars, progressVars, flagVars,
              checkpointVars, captureVars, historyVars, brokerVars>>

request_resume ==
  /\ lifecycle = "Preempted"
  /\ transition("ResumePending")
  /\ resume_generation' = next(resume_generation)
  /\ UNCHANGED authority
  /\ resumeFrame

\* A stale checkpoint fails the resume; a stale or missing dependency blocks it
\* in REVALIDATING, from where it can be tried again.
revalidate(intact, dep) ==
  /\ lifecycle \in {"ResumePending", "Revalidating"}
  /\ lifecycle = "Revalidating" \/ is_allowed("ResumePending", "Revalidating")
  /\ lifecycle' =
       IF /\ checkpoint_ref # 0
          /\ ~validate_checkpoint(checkpoint_ref, checkpoint_generation, intact)
         THEN "Failed"
       ELSE IF dep \in {"Stale", "Missing"}
         THEN "Revalidating"
         ELSE "Restoring"
  /\ lifecycle' = "Revalidating" \/ is_allowed("Revalidating", lifecycle')
  /\ UNCHANGED <<resume_generation, authority>>
  /\ resumeFrame

restore(intact) ==
  /\ lifecycle = "Restoring"
  /\ IF /\ checkpoint_ref # 0
        /\ ~validate_checkpoint(checkpoint_ref, checkpoint_generation, intact)
       THEN transition("Failed")
       ELSE transition("ResumeReady")
  /\ UNCHANGED <<resume_generation, authority>>
  /\ resumeFrame

grant_fresh_attempt_authority ==
  authority' = [authoritative |-> TRUE, execution |-> execution,
                generation |-> next(authority.generation),
                worker_boot |-> worker_boot]

\* The runtime's own attempt_generation_ is not brought up to the fresh one.
confirm_resumed ==
  /\ lifecycle \in {"ResumeReady", "Resuming"}
  /\ lifecycle = "Resuming" \/ is_allowed("ResumeReady", "Resuming")
  /\ is_allowed("Resuming", "Resumed")
  /\ lifecycle' = "Resumed"
  /\ grant_fresh_attempt_authority
  /\ UNCHANGED resume_generation
  /\ resumeFrame

------------------------------------------------------------------------------
(* Cancellation and completion: reset, not transition *)

\* A second cancel() changes nothing.
cancel ==
  /\ lifecycle # "Resumed"
  /\ ~is_terminal(lifecycle)
  /\ lifecycle' = "Cancelled"
  /\ UNCHANGED <<resume_generation, authority>>
  /\ resumeFrame

complete ==
  /\ lifecycle \notin {"Resumed", "Cancelled", "ResumePending", "Revalidating",
                       "Restoring", "ResumeReady", "Resuming"}
  /\ ~is_terminal(lifecycle)
  /\ lifecycle' = "Aborted"
  /\ UNCHANGED <<resume_generation, authority>>
  /\ resumeFrame

------------------------------------------------------------------------------
(* Queries *)

\* assess().preemptibility
assess ==
  IF AtValidSafePoint
    THEN IF current_safe_point.state_capture_required
           THEN "PreemptibleAfterStateCapture" ELSE "PreemptibleNow"
  ELSE IF \E id \in SafePointIds : safe_points[id] # "Undeclared"
    THEN "PreemptibleAtSafePoint"
  ELSE IF lifecycle \in {"Quiesced", "StateDurable", "ReleasePending"}
    THEN "PreemptibleNow"
    ELSE "Unknown"

\* The reasons explain_resume_blockers lists; none means "resume is eligible".
explain_resume_blockers(intact, dep) ==
  IF ~is_preempted_durable(lifecycle) THEN {"resume_not_allowed"}
  ELSE {b \in {"state", "resource", "state_missing", "state_stale", "dependency"} :
          \/ b = "state" /\ ~state_durable
          \/ b = "resource" /\ ~resources_released
          \/ b = "state_missing" /\ checkpoint_ref = 0
          \/ /\ b = "state_stale"
             /\ checkpoint_ref # 0
             /\ ~validate_checkpoint(checkpoint_ref, checkpoint_generation, intact)
          \/ b = "dependency" /\ dep \in {"Stale", "Missing"}}

evaluate_without_checkpoint(current, compatible, dep) ==
  IF ~is_preempted_durable(lifecycle) \/ ~state_durable THEN "StateNotDurable"
  ELSE IF ~current THEN "StaleCapabilityGeneration"
  ELSE IF ~compatible THEN "IncompatibleCapability"
  ELSE IF dep \in {"Stale", "Missing"} THEN "BlockedDependency"
  ELSE IF contract_gen = 0 THEN "BlockedResource"
  ELSE "Compatible"

\* current and compatible: what the compatibility evaluator says of the
\* destination's capability generation and of its capability.
evaluate_migration_destination(current, compatible, dep) ==
  IF ~is_preempted_durable(lifecycle) \/ ~state_durable THEN "StateNotDurable"
  ELSE IF checkpoint_ref = 0 \/ checkpoint_generation = 0 THEN "IncompatibleCapability"
  ELSE IF ~current THEN "StaleCapabilityGeneration"
  ELSE IF ~compatible THEN "IncompatibleCapability"
  ELSE IF dep \in {"Stale", "Missing"} THEN "BlockedDependency"
  ELSE IF contract_gen = 0 THEN "BlockedResource"
  ELSE "Compatible"

ConcretelyPreemptible ==
  {"PreemptibleNow", "PreemptibleAtSafePoint", "PreemptibleAfterStateCapture",
   "PreemptibleAfterCommitBoundary", "RecomputableFromDurableProgress"}
UnknownPreemptibility == {"Invalid", "Unknown"}
PreemptibilityClasses ==
  ConcretelyPreemptible \cup UnknownPreemptibility
    \cup {"TemporarilyUnsafe", "NonPreemptible", "Unsupported"}

\* The facts a caller supplies about an inversion; the first three say whether the
\* fields are valid and the two generations current.
InversionInputs ==
  [valid : BOOLEAN, policy_current : BOOLEAN, priority_current : BOOLEAN,
   holder_authoritative : BOOLEAN, holder_preemptibility : PreemptibilityClasses,
   provenance_known : BOOLEAN]

resolution_without_authority(input) ==
  IF input.holder_preemptibility \in UnknownPreemptibility THEN "Unknown"
  ELSE IF input.holder_preemptibility \in ConcretelyPreemptible THEN "Resolves"
  ELSE "DoesNotResolve"
inversion_resolution(input) ==
  IF ~input.holder_authoritative THEN "DoesNotResolve"
  ELSE IF input.holder_preemptibility \in UnknownPreemptibility THEN "Unknown"
  ELSE IF input.holder_preemptibility \in ConcretelyPreemptible THEN "Resolves"
  ELSE "DoesNotResolve"

\* Invalid facts and stale generations leave the resolution at its default.
priority_inversion_assessment(input) ==
  LET ok == input.valid /\ input.policy_current /\ input.priority_current
  IN [ok |-> ok,
      resolution |-> IF ok THEN inversion_resolution(input) ELSE "Unknown",
      provenance_known |-> input.provenance_known]

positive_recommendation(evidence) ==
  evidence.ok /\ evidence.resolution = "Resolves" /\ evidence.provenance_known

------------------------------------------------------------------------------
(* The sibling fabrics, acting on their own *)

\* What a step of a sibling fabric leaves alone.
fabricFrame ==
  UNCHANGED <<lifecycle, scopeVars, active_request, safePointVars, progressVars,
              flagVars, checkpointVars, resume_generation, historyVars>>

revoke_authority ==
  /\ authority' = [authority EXCEPT !.authoritative = FALSE]
  /\ fabricFrame /\ UNCHANGED <<captureVars, brokerVars>>

set_current_checkpoint_generation(g) ==
  /\ current_checkpoint_gen' = g
  /\ fabricFrame /\ UNCHANGED <<capture_count, captures, authority, brokerVars>>

BrokerActs ==
  BrokerNext /\ fabricFrame /\ UNCHANGED <<captureVars, authority>>

------------------------------------------------------------------------------
RegistrationActs ==
  \/ \E e \in Executions, g \in Generations \ {0}, boot \in Boots :
       start_execution(e, g, boot)
  \/ \E boot \in Boots : set_worker_incarnation(boot)

ExecutionActs ==
  \/ \E id \in SafePointIds :
       \/ declare_safe_point(id)
       \/ \E pos \in Positions, c \in BOOLEAN : reach_safe_point(id, pos, c)
  \/ \E pos \in Positions, durable \in BOOLEAN : publish_progress(pos, durable)

PreemptionActs ==
  \/ \E req \in Requests : request_preemption(req)
  \/ begin_quiesce
  \/ \E boot \in Boots, q \in BOOLEAN : report_quiesced(boot, q)
  \/ \E ok \in BOOLEAN : request_state_capture(ok)
  \/ \E result \in captures, intact \in BOOLEAN : report_state_captured(result, intact)
  \/ request_release
  \/ report_released
  \/ commit_preempted

ResumeActs ==
  \/ request_resume
  \/ \E intact \in BOOLEAN, dep \in DependencyStatus : revalidate(intact, dep)
  \/ \E intact \in BOOLEAN : restore(intact)
  \/ confirm_resumed

EndActs == cancel \/ complete

FabricActs ==
  \/ revoke_authority
  \/ \E g \in Generations : set_current_checkpoint_generation(g)
  \/ BrokerActs

Next == RegistrationActs \/ ExecutionActs \/ PreemptionActs \/ ResumeActs \/ EndActs
          \/ FabricActs

Spec == Init /\ [][Next]_vars

------------------------------------------------------------------------------
(* What the runtime promises *)

QuiescedStages ==
  {"Quiesced", "CaptureRequired", "CapturingState", "StateDurable",
   "ReleasePending", "Releasing", "ResourcesReleased"}
DurableStages ==
  {"StateDurable", "ReleasePending", "Releasing", "ResourcesReleased"}

\* Committed and not yet resumed.
Fenced(s) == is_preempted_durable(s) /\ s # "Resumed"

\* Every boundary that a stage of the lifecycle presumes was reported to the runtime
\* and accepted after the request that is active now was admitted.  The flags
\* quiesced_, state_durable_ and resources_released_ are never cleared, so from
\* the second preemption on they prove nothing; what protects commit_preempted
\* then is the order of the methods alone.  Whose evidence was accepted is another
\* question: report_state_captured takes a late result of a cancelled preemption
\* or of an earlier execution, and an incarnation that registers meanwhile is
\* taken to have quiesced with its predecessor.
BoundariesSinceRequest ==
  /\ lifecycle \in QuiescedStages => "quiesced" \in proved
  /\ lifecycle \in DurableStages => {"quiesced", "durable"} \subseteq proved
  /\ lifecycle = "ResourcesReleased" => {"quiesced", "durable", "released"} \subseteq proved
  /\ is_preempted_durable(lifecycle) => proved = Evidence

\* From commit_preempted until confirm_resumed nobody holds the authority of the
\* attempt: no other method of the runtime hands it out, whatever workers register
\* and whatever is revoked, released or superseded meanwhile.  (The adapters'
\* set_authoritative is the runtime's and the coordinator's to call.)
FencedWhilePreempted == Fenced(lifecycle) => ~authority.authoritative

\* No publication, however late, moves the durable boundary that a committed
\* preemption preserved.
DurableFrozenWhilePreempted ==
  [][Fenced(lifecycle) => UNCHANGED <<durable_position, durable_progress_generation>>]_vars

\* No attempt generation is handed out between commit_preempted and
\* confirm_resumed, and RESUMED runs under a newer one than the one fenced.
\* Generation::next saturates: the very last generation is the one exception.
FreshResumeAuthority ==
  /\ Fenced(lifecycle) => authority.generation = fenced_generation
  /\ lifecycle = "Resumed" =>
       authority.generation > fenced_generation \/ fenced_generation = MaxGen

\* The place of a state in the lifecycle; all terminal states share the last.
rank(s) ==
  CASE s = "Invalid" -> 0           [] s = "Requested" -> 1
    [] s = "ValidatingAuthority" -> 2 [] s = "Assessing" -> 3
    [] s = "Deferred" -> 4          [] s = "WaitingForSafePoint" -> 5
    [] s = "SafePointReached" -> 6  [] s = "Quiescing" -> 7
    [] s = "Quiesced" -> 8          [] s = "CaptureRequired" -> 9
    [] s = "CapturingState" -> 10   [] s = "StateDurable" -> 11
    [] s = "ReleasePending" -> 12   [] s = "Releasing" -> 13
    [] s = "ResourcesReleased" -> 14 [] s = "Preempted" -> 15
    [] s = "ResumePending" -> 16    [] s = "Revalidating" -> 17
    [] s = "Restoring" -> 18        [] s = "ResumeReady" -> 19
    [] s = "Resuming" -> 20         [] OTHER -> 21

\* While a request is active its lifecycle only moves forward and a terminal
\* state is final: no duplicate or replayed request, late report, cancellation
\* or completion restarts a preemption or gives it a second outcome.
LifecycleOnlyAdvances ==
  [][active_request # NoRequest /\ active_request' # NoRequest =>
       lifecycle' = lifecycle \/ rank(lifecycle') > rank(lifecycle)]_vars

\* Durable progress and its generation never move backward, across executions
\* and incarnations too.
DurableProgressMonotonic ==
  [][/\ durable_position' >= durable_position
     /\ durable_progress_generation' >= durable_progress_generation]_vars

\* What is durable has been reached: the rollback that assess() plans,
\* current_position_ - durable_position_, is never negative.
DurableWithinCurrent ==
  /\ durable_position <= current_position
  /\ durable_progress_generation <= progress_generation

\* A checkpoint on record is one that the checkpoint fabric captured
\* successfully, under the generation on record, even when results arrive late,
\* twice or after the preemption they belonged to was cancelled.  It need not be
\* of the preemption or the execution that it is recorded for.
CheckpointIsReal ==
  checkpoint_ref # 0 =>
    [ref |-> checkpoint_ref, generation |-> checkpoint_generation, success |-> TRUE]
      \in captures

\* The two ways to ask whether a preempted execution can go on agree: a destination
\* is called compatible only for an execution whose resume nothing blocks, the
\* flags of earlier preemptions notwithstanding.  evaluate_migration_destination
\* never reads resources_released_, which is up to the order of the methods, and
\* does not ask the fabric whether the checkpoint is still the current one, so a
\* superseded checkpoint is the one blocker that it may overlook.
MigrationAgreesWithResume ==
  \A current, compatible, intact \in BOOLEAN, dep \in DependencyStatus :
    evaluate_migration_destination(current, compatible, dep) = "Compatible" =>
      explain_resume_blockers(intact, dep) \subseteq {"state_stale"}

\* The runtime starts to quiesce only work that assess() calls preemptible on
\* the spot: begin_quiesce and assess() read the same boundary.
QuiesceOnlyIfPreemptible ==
  [][lifecycle' = "Quiescing" /\ lifecycle # "Quiescing" =>
       assess \in {"PreemptibleNow", "PreemptibleAfterStateCapture"}]_vars

\* Nothing is reserved for an execution from RESOURCES_RELEASED until it has
\* resumed, as long as nobody but the runtime touches the contract.
NothingHeldOncePreempted ==
  lifecycle = "ResourcesReleased" \/ Fenced(lifecycle) =>
    \A r \in Resources : reserved[r] = 0

\* A caller that asks about an inversion with the runtime's own answers is never
\* told to preempt an execution that is preempted already.  assess() goes on
\* calling it preemptible, so all rests on the authority the commit took away.
PreemptedNeverRecommended ==
  Fenced(lifecycle) =>
    \A input \in InversionInputs :
      /\ input.holder_authoritative = current_attempt_authority
      /\ input.holder_preemptibility = assess
      => ~positive_recommendation(priority_inversion_assessment(input))

\* The runtime is a SafePreemption: see there.
phase ==
  CASE lifecycle = "Invalid" -> "running"
    [] Fenced(lifecycle) -> "preempted"
    [] lifecycle = "Resumed" -> "resumed"
    [] lifecycle \in OffPath -> "ended"
    [] OTHER -> "preempting"

Safe ==
  INSTANCE SafePreemption WITH
    MaxGeneration <- MaxGen,
    requested <- active_request # NoRequest,
    boundaries <- proved \ {"preempted"},
    authoritative <- authority.authoritative,
    generation <- authority.generation,
    durable <- durable_position

ImplementsSafePreemption == Safe!SafeSpec

------------------------------------------------------------------------------
(* What the documentation promises and the code does not keep *)

\* complete(): "if already PREEMPTED (or beyond) completion is rejected".
CompletionRejectedOncePreempted == lifecycle = "Aborted" => "preempted" \notin proved
==============================================================================
