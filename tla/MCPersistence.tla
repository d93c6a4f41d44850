---------------------------- MODULE MCPersistence ----------------------------
(***************************************************************************)
(* An instance of Persistence for TLC: one execution that is started once, *)
(* a fresh incarnation that registers after each restart, durable          *)
(* progress, quiet fabrics, and a save or a crash at any point.  A worker  *)
(* that has been told to quiesce reaches no further safe point.            *)
(***************************************************************************)
EXTENDS Persistence, TLC

Symmetry == Permutations(Boots)

Register ==
  /\ \/ /\ execution = NoExecution
        /\ \E e \in Executions, boot \in Boots : start_execution(e, 1, boot)
     \/ ~live /\ \E boot \in Boots \ {worker_boot} : set_worker_incarnation(boot)
  /\ live' = TRUE /\ UNCHANGED image

Work ==
  /\ live
  /\ \/ \E id \in SafePointIds :
          \/ safe_points[id] = "Undeclared" /\ declare_safe_point(id)
          \/ /\ lifecycle \in {"Invalid", "Assessing", "WaitingForSafePoint"}
             /\ \E c \in BOOLEAN : reach_safe_point(id, durable_position, c)
     \/ \E pos \in Positions : publish_progress(pos, TRUE)
  /\ UNCHANGED persistVars

Drive == (PreemptionActs \/ ResumeActs) /\ UNCHANGED persistVars

MCNext == Register \/ Work \/ Drive \/ PersistActs

MCSpec == PersistInit /\ [][MCNext]_allVars
==============================================================================
