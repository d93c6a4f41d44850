--------------------------- MODULE SafePreemption ---------------------------
(***************************************************************************)
(* What PreemptionRuntime promises to whoever owns an execution, without   *)
(* the stages, adapters and reports it takes: at most one preemption is    *)
(* admitted per execution; it is committed only with its three boundaries  *)
(* crossed in order; from then on nobody acts for the execution, and it    *)
(* comes back, once, under a newer generation of its authority.  Durable   *)
(* progress only grows, and only by the hand of whoever is authoritative.  *)
(***************************************************************************)
EXTENDS Naturals

CONSTANT MaxGeneration   \* the generation that Generation::next does not leave

VARIABLES
  phase,          \* "running", "preempting", "preempted", "resumed" or "ended"
  requested,      \* a preemption of this execution has been admitted
  boundaries,     \* the boundaries this preemption has crossed
  authoritative,  \* somebody may act for the execution
  generation,     \* the generation of that authority
  durable         \* the durable progress

safeVars == <<phase, requested, boundaries, authoritative, generation, durable>>

Boundaries == {"quiesced", "durable", "released"}

\* Nothing is released before the state is durable, and no state is durable
\* before the work has quiesced.
before(b) ==
  CASE b = "quiesced" -> {}
    [] b = "durable" -> {"quiesced"}
    [] b = "released" -> {"quiesced", "durable"}

SafeInit ==
  /\ phase = "running" /\ requested = FALSE /\ boundaries = {}
  /\ authoritative = FALSE /\ generation = 0 /\ durable = 0

\* A new execution, at any time.
Start ==
  /\ phase' = "running" /\ requested' = FALSE /\ boundaries' = {}
  /\ authoritative' = TRUE /\ generation' \in Nat
  /\ UNCHANGED durable

\* Completion before any request does not keep a later one out.
Request ==
  /\ ~requested /\ phase \in {"running", "ended"}
  /\ phase' = "preempting" /\ requested' = TRUE /\ boundaries' = {}
  /\ UNCHANGED <<authoritative, generation, durable>>

Cross(b) ==
  /\ phase = "preempting" /\ before(b) \subseteq boundaries
  /\ boundaries' = boundaries \cup {b}
  /\ UNCHANGED <<phase, requested, authoritative, generation, durable>>

Commit ==
  /\ phase = "preempting" /\ boundaries = Boundaries
  /\ phase' = "preempted" /\ authoritative' = FALSE
  /\ UNCHANGED <<requested, boundaries, generation, durable>>

Resume ==
  /\ phase = "preempted"
  /\ phase' = "resumed" /\ authoritative' = TRUE
  /\ generation' \in Nat
  /\ generation' > generation \/ generation = MaxGeneration
  /\ UNCHANGED <<requested, boundaries, durable>>

\* Cancellation, completion and failure.
End ==
  /\ phase \notin {"resumed", "ended"}
  /\ phase' = "ended"
  /\ UNCHANGED <<requested, boundaries, authoritative, generation, durable>>

Publish ==
  /\ authoritative
  /\ durable' \in Nat /\ durable' >= durable
  /\ UNCHANGED <<phase, requested, boundaries, authoritative, generation>>

Revoke ==
  /\ authoritative' = FALSE
  /\ UNCHANGED <<phase, requested, boundaries, generation, durable>>

SafeNext ==
  \/ Start \/ Request \/ (\E b \in Boundaries : Cross(b)) \/ Commit \/ Resume \/ End
  \/ Publish \/ Revoke

SafeSpec == SafeInit /\ [][SafeNext]_safeVars
==============================================================================
