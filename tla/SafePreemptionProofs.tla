------------------------ MODULE SafePreemptionProofs ------------------------
(***************************************************************************)
(* PreemptionRuntime implements SafePreemption, for every value of its     *)
(* constants.  Every method maps to one step of SafePreemption or to none. *)
(***************************************************************************)
EXTENDS RuntimeProofs

USE DEF scopeVars, safePointVars, progressVars, flagVars, checkpointVars,
        captureVars, historyVars, brokerVars, transition, transition2,
        progress_accepted, request_accepted, commit_accepted

\* A preemption under way, and a committed one, has its request on record.
RequestInv ==
  lifecycle \notin {"Invalid"} \cup OffPath => active_request # NoRequest

\* An admitted request stays on record until the next execution starts.
LEMMA RequestStep == TypeOK /\ RequestInv /\ [Next]_vars => RequestInv'
<1> SUFFICES ASSUME TypeOK, RequestInv, [Next]_vars PROVE RequestInv'
  OBVIOUS
<1> USE DEF RequestInv, OffPath
<1>1. ASSUME NEW req \in Requests, request_preemption(req) PROVE RequestInv'
  BY <1>1, RuntimeAssumption DEF request_preemption, Requests, RequestKeys
<1>2. ASSUME UNCHANGED active_request,
             \/ lifecycle \notin {"Invalid"} \cup OffPath
             \/ lifecycle' \in {"Invalid"} \cup OffPath
      PROVE  RequestInv'
  BY <1>2
<1>3. ASSUME \E e \in Executions, g \in Generations \ {0}, boot \in Boots :
               start_execution(e, g, boot)
      PROVE  RequestInv'
  BY <1>3 DEF start_execution
<1>4. ASSUME UNCHANGED <<active_request, lifecycle>> PROVE RequestInv'
  BY <1>4
<1> QED
  BY <1>1, <1>2, <1>3, <1>4
     DEF Next, RegistrationActs, ExecutionActs, PreemptionActs, ResumeActs, EndActs,
         FabricActs, vars, set_worker_incarnation, declare_safe_point, reach_safe_point,
         publish_progress, begin_quiesce, report_quiesced, request_state_capture,
         report_state_captured, request_release, report_released, commit_preempted,
         request_resume, revalidate, restore, confirm_resumed, cancel, complete,
         resumeFrame, revoke_authority, set_current_checkpoint_generation, BrokerActs,
         fabricFrame

\* The refinement of a step that leaves alone what SafePreemption sees.
LEMMA Stutter ==
  ASSUME UNCHANGED <<active_request, proved, authority, durable_position>>,
         phase' = phase
  PROVE  UNCHANGED Safe!safeVars
BY DEF Safe!safeVars

\* Every step of the runtime is a step of SafePreemption, or none.
LEMMA SafeStep ==
  TypeOK /\ ControlInv /\ RequestInv /\ [Next]_vars => [Safe!SafeNext]_(Safe!safeVars)
<1> SUFFICES ASSUME TypeOK, ControlInv, RequestInv, [Next]_vars
             PROVE  [Safe!SafeNext]_(Safe!safeVars)
  OBVIOUS
<1> USE DEF Fenced, is_preempted_durable, OffPath
<1>a. /\ authority.authoritative \in BOOLEAN /\ authority.generation \in Nat
      /\ MaxGen \in Nat /\ durable_position \in Nat
  BY BrokerAssumption, RuntimeAssumption DEF TypeOK, Authorities, Generations, Positions
<1>1. ASSUME NEW e \in Executions, NEW g \in Generations \ {0}, NEW boot \in Boots,
             start_execution(e, g, boot)
      PROVE  Safe!Start
  BY <1>1, BrokerAssumption DEF start_execution, Safe!Start, phase, Generations
<1>2. ASSUME NEW req \in Requests, request_preemption(req)
      PROVE  Safe!Request
  <2>1. phase \in {"running", "ended"}
    BY <1>2 DEF request_preemption, RequestInv, phase
  <2>2. phase' = "preempting"
    BY <1>2 DEF request_preemption, phase
  <2>3. active_request = NoRequest /\ active_request' # NoRequest
    BY <1>2, RuntimeAssumption DEF request_preemption, Requests, RequestKeys
  <2>4. proved' = {} /\ UNCHANGED <<authority, durable_position>>
    BY <1>2 DEF request_preemption
  <2> QED BY <2>1, <2>2, <2>3, <2>4 DEF Safe!Request
<1>3. ASSUME NEW boot \in Boots, NEW q \in BOOLEAN, report_quiesced(boot, q)
      PROVE  Safe!Cross("quiesced")
  BY <1>3 DEF report_quiesced, Safe!Cross, Safe!before, phase
<1>4. ASSUME NEW b \in {"durable", "released"},
             lifecycle \notin {"Invalid", "Resumed"} \cup OffPath, ~Fenced(lifecycle),
             lifecycle' \notin {"Invalid", "Resumed"} \cup OffPath, ~Fenced(lifecycle'),
             proved' = proved \cup {b}, Safe!before(b) \subseteq proved,
             UNCHANGED <<active_request, authority, durable_position>>
      PROVE  Safe!Cross(b)
  <2>1. phase = "preempting" /\ phase' = "preempting"
    BY <1>4 DEF phase
  <2>2. Safe!before(b) \subseteq proved \ {"preempted"}
    BY <1>4 DEF Safe!before
  <2> QED BY <1>4, <2>1, <2>2 DEF Safe!Cross
<1>5. ASSUME NEW ok \in BOOLEAN, request_state_capture(ok)
      PROVE  Safe!Cross("durable") \/ UNCHANGED Safe!safeVars
  <2>1. "quiesced" \in proved
    BY <1>5 DEF request_state_capture, ControlInv, BoundariesSinceRequest, QuiescedStages
  <2>2. CASE capture_required
    <3>1. UNCHANGED <<active_request, proved, authority, durable_position>>
      BY <1>5, <2>2 DEF request_state_capture
    <3>2. phase' = phase
      BY <1>5, <2>2 DEF request_state_capture, phase
    <3> QED BY <3>1, <3>2, Stutter
  <2>3. CASE ~capture_required
    BY <1>4, <1>5, <2>1, <2>3 DEF request_state_capture, Safe!before
  <2> QED BY <2>2, <2>3
<1>6. ASSUME NEW result \in captures, NEW intact \in BOOLEAN,
             report_state_captured(result, intact)
      PROVE  Safe!Cross("durable") \/ Safe!End
  <2>1. "quiesced" \in proved
    BY <1>6 DEF report_state_captured, ControlInv, BoundariesSinceRequest, QuiescedStages
  <2>2. CASE capture_usable(result, intact)
    BY <1>4, <1>6, <2>1, <2>2 DEF report_state_captured, Safe!before
  <2>3. CASE ~capture_usable(result, intact)
    BY <1>6, <2>3 DEF report_state_captured, Safe!End, phase
  <2> QED BY <2>2, <2>3
<1>7. ASSUME report_released PROVE Safe!Cross("released")
  <2>1. {"quiesced", "durable"} \subseteq proved
    BY <1>7 DEF report_released, ControlInv, BoundariesSinceRequest, DurableStages
  <2> QED BY <1>4, <1>7, <2>1 DEF report_released, Safe!before
<1>8. ASSUME commit_preempted PROVE Safe!Commit
  <2>1. phase = "preempting" /\ phase' = "preempted"
    BY <1>8 DEF commit_preempted, phase
  <2>2. proved \ {"preempted"} = Safe!Boundaries /\ proved' \ {"preempted"} = Safe!Boundaries
    BY <1>8 DEF commit_preempted, ControlInv, BoundariesSinceRequest, TypeOK, Evidence,
       Safe!Boundaries
  <2>3. authority'.authoritative = FALSE /\ authority'.generation = authority.generation
    BY <1>8 DEF commit_preempted, fence_attempt, TypeOK, Authorities
  <2>4. UNCHANGED <<active_request, durable_position>>
    BY <1>8 DEF commit_preempted
  <2> QED BY <2>1, <2>2, <2>3, <2>4 DEF Safe!Commit
<1>9. ASSUME confirm_resumed PROVE Safe!Resume
  <2>1. phase = "preempted" /\ phase' = "resumed"
    BY <1>9 DEF confirm_resumed, phase
  <2>2. /\ authority'.authoritative = TRUE
        /\ authority'.generation = next(authority.generation)
    BY <1>9 DEF confirm_resumed, grant_fresh_attempt_authority
  <2>3. /\ authority'.generation \in Nat
        /\ authority'.generation > authority.generation \/ authority.generation = MaxGen
    BY <1>a, <2>2 DEF next
  <2>4. UNCHANGED <<active_request, proved, durable_position>>
    BY <1>9 DEF confirm_resumed, resumeFrame
  <2> QED BY <2>1, <2>2, <2>3, <2>4 DEF Safe!Resume
<1>10. ASSUME cancel \/ complete PROVE Safe!End
  <2>1. phase \notin {"resumed", "ended"}
    BY <1>10 DEF cancel, complete, is_terminal, phase
  <2>2. phase' = "ended" /\ UNCHANGED <<active_request, proved, authority, durable_position>>
    BY <1>10 DEF cancel, complete, resumeFrame, phase
  <2> QED BY <2>1, <2>2 DEF Safe!End
<1>11. ASSUME \/ request_resume
              \/ \E intact \in BOOLEAN, dep \in DependencyStatus : revalidate(intact, dep)
              \/ \E intact \in BOOLEAN : restore(intact)
       PROVE  Safe!End \/ UNCHANGED Safe!safeVars
  <2>1. UNCHANGED <<active_request, proved, authority, durable_position>>
    BY <1>11 DEF request_resume, revalidate, restore, resumeFrame
  <2>2. phase = "preempted" /\ phase' \in {"preempted", "ended"}
    BY <1>11 DEF request_resume, revalidate, restore, phase
  <2> QED BY <2>1, <2>2, Stutter DEF Safe!End
<1>12. ASSUME NEW pos \in Positions, NEW durable \in BOOLEAN, publish_progress(pos, durable)
       PROVE  Safe!Publish
  <2>1. phase' = phase /\ UNCHANGED <<active_request, proved, authority>>
    BY <1>12 DEF publish_progress, phase
  <2>2. durable_position' \in Nat /\ durable_position' >= durable_position
    BY <1>12, <1>a DEF publish_progress, not_backward, Positions
  <2>3. authority.authoritative
    BY <1>12 DEF publish_progress, current_attempt_authority
  <2> QED BY <2>1, <2>2, <2>3 DEF Safe!Publish
<1>13. ASSUME revoke_authority PROVE Safe!Revoke
  <2>1. authority'.authoritative = FALSE /\ authority'.generation = authority.generation
    BY <1>13 DEF revoke_authority, TypeOK, Authorities
  <2>2. phase' = phase /\ UNCHANGED <<active_request, proved, durable_position>>
    BY <1>13 DEF revoke_authority, fabricFrame, phase
  <2> QED BY <2>1, <2>2 DEF Safe!Revoke
<1>14. ASSUME \/ \E boot \in Boots : set_worker_incarnation(boot)
              \/ \E id \in SafePointIds : declare_safe_point(id)
              \/ \E id \in SafePointIds, pos \in Positions, c \in BOOLEAN :
                   reach_safe_point(id, pos, c)
              \/ begin_quiesce \/ request_release
              \/ \E g \in Generations : set_current_checkpoint_generation(g)
              \/ BrokerActs \/ UNCHANGED vars
       PROVE  UNCHANGED Safe!safeVars
  <2>1. UNCHANGED <<active_request, proved, authority, durable_position>>
    BY <1>14 DEF set_worker_incarnation, declare_safe_point, reach_safe_point, begin_quiesce,
       request_release, set_current_checkpoint_generation, BrokerActs, fabricFrame, vars
  <2>2. phase' = phase
    BY <1>14 DEF set_worker_incarnation, declare_safe_point, reach_safe_point, begin_quiesce,
       request_release, set_current_checkpoint_generation, BrokerActs, fabricFrame, vars,
       phase
  <2> QED BY <2>1, <2>2, Stutter
<1> QED
  BY <1>1, <1>2, <1>3, <1>5, <1>6, <1>7, <1>8, <1>9, <1>10, <1>11, <1>12, <1>13, <1>14
     DEF Next, RegistrationActs, ExecutionActs, PreemptionActs, ResumeActs, EndActs,
         FabricActs, Safe!SafeNext, Safe!Boundaries

\* The runtime implements SafePreemption: one admitted preemption at a time, the
\* three boundaries crossed in order, nobody acting for a preempted execution, a
\* newer generation on resume, and durable progress that only its holder moves.
THEOREM RefinementHolds == Spec => ImplementsSafePreemption
<1>1. Init => RequestInv /\ Safe!SafeInit
  <2> SUFFICES ASSUME Init PROVE RequestInv /\ Safe!SafeInit
    OBVIOUS
  <2>1. phase = "running" /\ RequestInv
    BY DEF Init, RequestInv, phase, Fenced, is_preempted_durable, OffPath
  <2>2. /\ (active_request # NoRequest) = FALSE
        /\ proved \ {"preempted"} = {} /\ durable_position = 0
    BY DEF Init
  <2>3. authority.authoritative = FALSE /\ authority.generation = 0
    BY DEF Init
  <2> QED BY <2>1, <2>2, <2>3 DEF Safe!SafeInit
<1>2. TypeInv => TypeOK
  BY DEF TypeInv
<1> QED
  BY <1>1, <1>2, TypeInit, TypeStep, ControlInit, ControlStep, RequestStep, SafeStep, PTL
     DEF Spec, ImplementsSafePreemption, Safe!SafeSpec
==============================================================================
