---------------------------- MODULE MCCoordinator ----------------------------
(***************************************************************************)
(* An instance of Coordinator for TLC.                                     *)
(***************************************************************************)
EXTENDS Coordinator, TLC

CONSTANTS LabelBootId, CounterBootId

\* All workers are launched with the same label.
MCLabelBoot == [w \in Workers |-> LabelBootId]
MCCounterBoot == [k \in 1 .. MaxRegistrations |-> CounterBootId]

\* Segments of one length, and replayed requests of the only generation there is.
MCCommands ==
  \/ run_segment(MaxPos)
  \/ drive_request
  \/ resume_command
  \/ begin_execution
  \/ register_command
  \/ \E req \in {r \in Requests : r.generation = 1 /\ r.attempt_generation = 1} :
       replay_command(req)
  \/ shutdown

MCNext ==
  \/ MCCommands
  \/ Coordinate
  \/ Crash
  \/ \E w \in Workers : worker_receives(w)
  \/ Environment

MCSpec == CoordInit /\ [][MCNext]_coordVars /\ CoordFairness
==============================================================================
