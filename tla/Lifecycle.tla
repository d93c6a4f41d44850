------------------------------ MODULE Lifecycle ------------------------------
(***************************************************************************)
(* The guarded preemption lifecycle: the states of LifecycleState and the  *)
(* edges that LifecycleStateMachine::transition accepts.  The module has   *)
(* no variables; PreemptionRuntime owns the current state.                 *)
(***************************************************************************)

OffPath == {"Cancelled", "Aborted", "Failed", "Superseded"}

LifecycleStates ==
  {"Invalid", "Requested", "ValidatingAuthority", "Assessing", "Deferred",
   "WaitingForSafePoint", "SafePointReached", "Quiescing", "Quiesced",
   "CaptureRequired", "CapturingState", "StateDurable", "ReleasePending",
   "Releasing", "ResourcesReleased", "Preempted", "ResumePending",
   "Revalidating", "Restoring", "ResumeReady", "Resuming", "Resumed"}
  \cup OffPath

\* The states reachable over one edge.  Superseded is a target of every state
\* that has edges at all.
frontier(s) ==
  CASE s = "Requested"           -> {"ValidatingAuthority", "Cancelled", "Superseded"}
    [] s = "ValidatingAuthority" -> {"Assessing", "Cancelled", "Superseded", "Failed"}
    [] s = "Assessing"           -> {"Deferred", "WaitingForSafePoint", "Quiescing",
                                     "CaptureRequired", "Cancelled", "Superseded", "Failed"}
    [] s = "Deferred"            -> {"WaitingForSafePoint", "Cancelled", "Superseded"}
    [] s = "WaitingForSafePoint" -> {"SafePointReached", "Cancelled", "Superseded", "Failed"}
    [] s = "SafePointReached"    -> {"Quiescing", "Cancelled", "Superseded"}
    [] s = "Quiescing"           -> {"Quiesced", "Cancelled", "Failed", "Superseded"}
    [] s = "Quiesced"            -> {"CaptureRequired", "ReleasePending", "Failed", "Superseded"}
    [] s = "CaptureRequired"     -> {"CapturingState", "Failed", "Superseded"}
    [] s = "CapturingState"      -> {"StateDurable", "Failed", "Superseded", "Cancelled"}
    [] s = "StateDurable"        -> {"ReleasePending", "Failed", "Superseded"}
    [] s = "ReleasePending"      -> {"Releasing", "Failed", "Superseded"}
    [] s = "Releasing"           -> {"ResourcesReleased", "Failed", "Superseded"}
    [] s = "ResourcesReleased"   -> {"Preempted", "Superseded"}
    [] s = "Preempted"           -> {"ResumePending", "Superseded"}
    [] s = "ResumePending"       -> {"Revalidating", "Cancelled", "Superseded"}
    [] s = "Revalidating"        -> {"Restoring", "ResumeReady", "Cancelled", "Superseded", "Failed"}
    [] s = "Restoring"           -> {"ResumeReady", "Failed", "Cancelled", "Superseded"}
    [] s = "ResumeReady"         -> {"Resuming", "Cancelled", "Superseded"}
    [] s = "Resuming"            -> {"Resumed", "Failed", "Cancelled", "Superseded"}
    [] OTHER                     -> {}

is_allowed(from, to) == to \in frontier(from)

is_terminal_unless_failed(s) == s \in {"Cancelled", "Aborted", "Superseded", "Resumed"}
is_terminal(s) == s \in OffPath \cup {"Resumed"}

is_preempted_durable(s) ==
  s \in {"Preempted", "ResumePending", "Revalidating", "Restoring", "ResumeReady",
         "Resuming", "Resumed"}
==============================================================================
