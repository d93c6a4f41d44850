------------------------------ MODULE MCRuntime ------------------------------
(***************************************************************************)
(* Instances of PreemptionRuntime for TLC.  The full specification is      *)
(* checked on the smallest sets; the two others take larger sets of        *)
(* executions, incarnations, generations and positions and leave out the   *)
(* part of the environment their properties do not depend on.              *)
(***************************************************************************)
EXTENDS PreemptionRuntime, TLC

\* Nothing distinguishes one execution or one incarnation from another.
Symmetry == Permutations(Executions) \cup Permutations(Boots)

\* Executions of generation 1, with workers that come and go, and each safe
\* point declared once.
Workers(Pos) ==
  \/ \E e \in Executions, boot \in Boots : start_execution(e, 1, boot)
  \/ \E boot \in Boots : set_worker_incarnation(boot)
  \/ \E id \in SafePointIds :
       \/ safe_points[id] = "Undeclared" /\ declare_safe_point(id)
       \/ \E pos \in Pos, c \in BOOLEAN : reach_safe_point(id, pos, c)

\* The contract is set up once, before any preemption, for some execution;
\* afterwards only the runtime touches it.
SetUpContract ==
  /\ contract_gen = 0
  /\ lifecycle = "Invalid"
  /\ \E e \in Executions, leases \in [Resources -> Units] : set_contract(e, 1, leases)
  /\ fabricFrame /\ UNCHANGED <<captureVars, authority>>

\* Control: everything but progress and a broker with a life of its own.
ControlNext ==
  \/ SetUpContract
  \/ Workers({0})
  \/ PreemptionActs
  \/ ResumeActs
  \/ EndActs
  \/ \E g \in Generations \ {0} : set_current_checkpoint_generation(g)

ControlSpec == Init /\ [][ControlNext]_vars

\* Progress: every position, speculative and durable, with quiet fabrics.
ProgressNext ==
  \/ Workers(Positions)
  \/ \E pos \in Positions, durable \in BOOLEAN : publish_progress(pos, durable)
  \/ PreemptionActs
  \/ ResumeActs
  \/ EndActs

ProgressSpec == Init /\ [][ProgressNext]_vars
==============================================================================
