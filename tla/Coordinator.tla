----------------------------- MODULE Coordinator -----------------------------
(***************************************************************************)
(* The coordinator process (src/coordinator/coordinator.cpp) that drives a *)
(* PreemptionRuntime, the worker processes (src/coordinator/worker.cpp)    *)
(* and the connections between them.  A controller sends the coordinator   *)
(* one command after the other.                                            *)
(*                                                                         *)
(* The coordinator has one thread and ignores most of what the runtime     *)
(* answers: every call to the runtime is a step of its own, a call that is *)
(* refused changes nothing and the next one is made all the same.  Between *)
(* two steps a worker may act, connect or die, and the coordinator itself  *)
(* may crash.  It saves to and recovers from one file.                     *)
(*                                                                         *)
(* A connection is a MessageChannel, in both directions, that loses what   *)
(* is under way when its peer dies.  Messages keep what somebody reads.    *)
(***************************************************************************)
EXTENDS Persistence, Sequences

CONSTANTS
  exec_id, safe_point,       \* the one execution and safe point of the coordinator
  request_id, stale_id,      \* the requests of drive_preemption and REPLAY_STALE
  Workers,                   \* worker processes; each is launched once
  NoWorker,
  LabelBoot,                 \* 1000 + hash(label) % 9000, for the label of a worker
  CounterBoot,               \* 8000 + k
  MaxRegistrations,          \* bound: REGISTER commands handled by one process
  MaxStarts,                 \* bound: restarts of the coordinator
  MaxUnread                  \* bound: messages a worker has yet to read

ASSUME CoordinatorAssumption ==
  /\ exec_id \in Executions /\ safe_point \in SafePointIds
  /\ request_id \in RequestIds /\ stale_id \in RequestIds
  /\ NoWorker \notin Workers
  /\ LabelBoot \in [Workers -> Boots]
  /\ MaxRegistrations \in Nat /\ MaxStarts \in Nat /\ MaxUnread \in Nat
  /\ CounterBoot \in [1 .. MaxRegistrations -> Boots]

VARIABLES
  pc,              \* where the coordinator is; "loop" waits for the controller
  boot,            \* boot
  conn,            \* the peer of worker
  backlog,         \* connections the listener has not accepted
  position,        \* what a segment is asked to reach, then what it reports; else 0
  last_progress,   \* last_progress
  boot_counter,    \* boot_counter
  worker,          \* the worker processes and their ends of the connections
  starts,          \* bound: restarts so far
  \* history: the worker whose acknowledgement the current drive received, and
  \* what the last drive reported
  acked_by, outcome

processVars == <<boot, conn, backlog, position, last_progress, boot_counter, starts>>
coordVars == <<allVars, pc, processVars, worker, acked_by, outcome>>

MessageTypes ==
  {"Hello", "Register", "BeginExecution", "PublishProgress", "ReachSafePoint",
   "Quiesced"}
Messages == [type : MessageTypes, position : Positions, boot : AllBoots]
message(type, pos, b) == [type |-> type, position |-> pos, boot |-> b]

Processes ==
  [state : {"idle", "joining", "ready", "gone"}, boot : AllBoots,
   inbox : Seq(Messages), outbox : Seq(Messages)]

PCs ==
  {"contract", "accept_first", "loop", "declare", "segment", "publish", "quiesce",
   "reach", "quiesce_again", "ask", "await", "capture", "captured", "release",
   "released", "commit", "save", "revalidate", "restore", "confirm", "accept",
   "replay_release", "exited"}

CoordTypeOK ==
  /\ PersistTypeOK
  /\ pc \in PCs
  /\ boot \in AllBoots
  /\ conn \in Workers \cup {NoWorker}
  /\ backlog \in Seq(Workers)
  /\ position \in Positions /\ last_progress \in Positions
  /\ boot_counter \in 0 .. MaxRegistrations
  /\ worker \in [Workers -> Processes]
  /\ starts \in 0 .. MaxStarts
  /\ acked_by \in Workers \cup {NoWorker}
  /\ outcome \in {"none", "driving", "lost", "safe", "failed"}

CoordInit ==
  /\ PersistInit
  /\ pc = "contract"
  /\ boot = NoBoot /\ conn = NoWorker /\ backlog = <<>>
  /\ position = 0 /\ last_progress = 0 /\ boot_counter = 0 /\ starts = 0
  /\ worker = [w \in Workers |->
                 [state |-> "idle", boot |-> NoBoot, inbox |-> <<>>, outbox |-> <<>>]]
  /\ acked_by = NoWorker /\ outcome = "none"

------------------------------------------------------------------------------
(* Calls and connections *)

\* A call to the runtime whose answer is ignored: what the method does, or
\* nothing when one of its early returns refuses the call.
call(accepted, A) ==
  /\ \/ accepted /\ A
     \/ ~accepted /\ UNCHANGED vars
  /\ UNCHANGED persistVars

Gone(w) == worker[w].state = "gone"

\* A process that loses its connection exits; nobody sees what else it does.
gone(p) ==
  [p EXCEPT !.state = "gone", !.boot = NoBoot, !.inbox = <<>>, !.outbox = <<>>]

\* send to a peer that is gone may go unnoticed.
sent_to(w, m) ==
  IF Gone(w) THEN worker ELSE [worker EXCEPT ![w].inbox = Append(@, m)]

\* The next n messages of the worker's connection are there, or never will be.
received(n) == Len(worker[conn].outbox) >= n
connection_lost(n) == Gone(conn) /\ Len(worker[conn].outbox) < n

consumed(n) == [worker EXCEPT ![conn].outbox = SubSeq(@, n + 1, Len(@))]

\* The process ends, and with it every connection.
exit ==
  /\ pc' = "exited"
  /\ worker' = [w \in Workers |->
                  IF worker[w].state = "idle" THEN worker[w] ELSE gone(worker[w])]
  /\ backlog' = <<>>
  /\ UNCHANGED <<boot, conn, position, last_progress, boot_counter, starts, acked_by,
                 outcome>>

\* Go on at l, with nothing of the coordinator's own changed.
goto(l) == pc' = l /\ UNCHANGED <<processVars, worker, acked_by, outcome>>

------------------------------------------------------------------------------
(* Start *)

\* The contract is set before the file is loaded; neither touches the other.
set_up ==
  /\ pc = "contract"
  /\ set_contract(exec_id, 1, [r \in Resources |-> MaxUnits])
  /\ fabricFrame /\ UNCHANGED <<captureVars, authority, persistVars>>
  /\ goto("accept_first")

\* A worker that is accepted and has sent HELLO and REGISTER takes the place of
\* the one before it, whose connection is closed.
registered(w, b) ==
  /\ set_worker_incarnation(b) /\ live' = TRUE /\ UNCHANGED image
  /\ boot' = b /\ conn' = w /\ backlog' = Tail(backlog)
  /\ worker' = [v \in Workers |->
       IF v = w
         THEN [sent_to(v, message("Register", 0, b))[v] EXCEPT
                 !.outbox = SubSeq(@, 3, Len(@))]
       ELSE IF v = conn THEN gone(worker[v]) ELSE worker[v]]
  /\ pc' = "loop"
  /\ UNCHANGED <<position, last_progress, starts, acked_by, outcome>>

accept_first ==
  /\ pc = "accept_first" /\ backlog # <<>>
  /\ LET w == Head(backlog)
     IN IF Len(worker[w].outbox) >= 2
          THEN registered(w, LabelBoot[w]) /\ UNCHANGED boot_counter
          ELSE exit /\ UNCHANGED allVars

------------------------------------------------------------------------------
(* run_segment *)

\* A send that fails ends the command at once: nothing changes.
run_segment(pos) ==
  /\ pc = "loop"
  /\ position' = pos
  /\ worker' = sent_to(conn, message("PublishProgress", pos, boot))
  /\ pc' = "segment"
  /\ UNCHANGED <<allVars, boot, conn, backlog, last_progress, boot_counter, starts,
                 acked_by, outcome>>

segment_replies_one == 1
segment_replies == 2

segment_lost ==
  /\ pc = "segment" /\ connection_lost(segment_replies)
  /\ pc' = "loop" /\ position' = 0
  /\ worker' = [worker EXCEPT ![conn].outbox = <<>>]
  /\ UNCHANGED <<allVars, boot, conn, backlog, last_progress, boot_counter, starts,
                 acked_by, outcome>>

\* A safe point that was never declared makes reach_safe_point throw, which
\* nobody catches.
reach_or_exit(pos, captureRequired, A) ==
  \/ reach_safe_point(safe_point, pos, captureRequired) /\ UNCHANGED persistVars /\ A
  \/ safe_points[safe_point] = "Undeclared" /\ UNCHANGED allVars /\ exit

\* The types of the replies are not looked at.
segment_reached ==
  /\ pc = "segment" /\ received(segment_replies)
  /\ LET prog == worker[conn].outbox[1]
         reach == worker[conn].outbox[segment_replies]
     IN reach_or_exit(reach.position, FALSE,
          /\ pc' = "publish"
          /\ position' = prog.position
          /\ worker' = consumed(segment_replies)
          /\ UNCHANGED <<boot, conn, backlog, last_progress, boot_counter, starts,
                         acked_by, outcome>>)

segment_published ==
  /\ pc = "publish"
  /\ call(progress_accepted(position), publish_progress(position, TRUE))
  /\ last_progress' = position
  /\ pc' = "loop" /\ position' = 0
  /\ UNCHANGED <<boot, conn, backlog, boot_counter, starts, worker,
                 acked_by, outcome>>

------------------------------------------------------------------------------
(* drive_preemption *)

the_request ==
  [id |-> request_id, generation |-> 1, execution |-> exec_id,
   attempt_generation |-> 1, epoch |-> Epoch, worker_boot |-> boot]

drive_request ==
  /\ pc = "loop"
  /\ call(request_accepted(the_request), request_preemption(the_request))
  /\ pc' = "quiesce"
  /\ acked_by' = NoWorker /\ outcome' = "driving"
  /\ UNCHANGED <<processVars, worker>>

quiesce_accepted == lifecycle \in {"SafePointReached", "Assessing", "Deferred"}

drive_quiesce ==
  pc = "quiesce" /\ call(quiesce_accepted, begin_quiesce) /\ goto("reach")

drive_capture_optional == FALSE
drive_capture_required == TRUE

drive_reach ==
  /\ pc = "reach"
  /\ reach_or_exit(last_progress, drive_capture_required, goto("quiesce_again"))

drive_no_second_quiesce ==
  pc = "quiesce_again" /\ UNCHANGED allVars /\ goto("ask")
drive_quiesce_again ==
  pc = "quiesce_again" /\ call(quiesce_accepted, begin_quiesce) /\ goto("ask")

drive_lost ==
  /\ pc' = "loop"
  /\ outcome' = "lost"
  /\ UNCHANGED <<allVars, processVars, worker, acked_by>>

drive_ask ==
  /\ pc = "ask"
  /\ \/ Gone(conn) /\ drive_lost
     \/ /\ worker' = sent_to(conn, message("Quiesced", 0, boot))
        /\ pc' = "await"
        /\ UNCHANGED <<allVars, processVars, acked_by, outcome>>

acknowledgement_accepted == boot = worker_boot /\ lifecycle = "Quiescing"

drive_await_whatever_comes ==
  /\ pc = "await"
  /\ received(1) \/ connection_lost(1)
  /\ call(acknowledgement_accepted, report_quiesced(boot, TRUE))
  /\ acked_by' = IF received(1) THEN conn ELSE NoWorker
  /\ worker' = consumed(1)
  /\ pc' = "capture"
  /\ UNCHANGED <<processVars, outcome>>

drive_await ==
  /\ pc = "await"
  /\ \/ connection_lost(1) /\ drive_lost
     \/ /\ received(1)
        /\ call(acknowledgement_accepted, report_quiesced(boot, TRUE))
        /\ acked_by' = conn
        /\ worker' = consumed(1)
        /\ pc' = "capture"
        /\ UNCHANGED <<processVars, outcome>>

drive_capture ==
  /\ pc = "capture"
  /\ call(lifecycle = "Quiesced", request_state_capture(TRUE))
  /\ goto("captured")

\* last_capture(), when there is one: the reference fabric keeps the latest.
drive_captured ==
  /\ pc = "captured"
  /\ \/ \E c \in captures :
          /\ c.ref = capture_count
          /\ call(lifecycle = "CapturingState", report_state_captured(c, TRUE))
     \/ captures = {} /\ UNCHANGED allVars
  /\ goto("release")

release_accepted == state_durable /\ lifecycle \in {"StateDurable", "ReleasePending"}

drive_release ==
  pc = "release" /\ call(release_accepted, request_release) /\ goto("released")

drive_released ==
  /\ pc = "released"
  /\ call(lifecycle = "Releasing" /\ release_obligations_met, report_released)
  /\ goto("commit")

drive_commit_after_save ==
  /\ pc = "commit"
  /\ \/ commit_preempted /\ image' = snapshot /\ pc' = "loop" /\ outcome' = "safe"
     \/ ~commit_accepted /\ UNCHANGED <<vars, image>> /\ pc' = "loop" /\ outcome' = "failed"
  /\ UNCHANGED <<live, processVars, worker, acked_by>>
drive_commit ==
  /\ pc = "commit"
  /\ \/ commit_preempted /\ pc' = "save" /\ outcome' = "safe"
     \/ ~commit_accepted /\ UNCHANGED vars /\ pc' = "loop" /\ outcome' = "failed"
  /\ UNCHANGED <<persistVars, processVars, worker, acked_by>>

drive_save == pc = "save" /\ save /\ goto("loop")

drive_preemption ==
  \/ drive_quiesce \/ drive_reach \/ drive_quiesce_again \/ drive_ask \/ drive_await
  \/ drive_capture \/ drive_captured \/ drive_release \/ drive_released
  \/ drive_commit \/ drive_save

------------------------------------------------------------------------------
(* The other commands *)

\* drive_resume makes its four calls whatever they answer.
drive_resume ==
  \/ /\ pc = "revalidate"
     /\ call(lifecycle \in {"ResumePending", "Revalidating"}, revalidate(TRUE, "Current"))
     /\ goto("restore")
  \/ pc = "restore" /\ call(lifecycle = "Restoring", restore(TRUE)) /\ goto("confirm")
  \/ /\ pc = "confirm"
     /\ call(lifecycle \in {"ResumeReady", "Resuming"}, confirm_resumed)
     /\ goto("loop")

resume_command ==
  pc = "loop" /\ call(lifecycle = "Preempted", request_resume) /\ goto("revalidate")

\* BEGIN_EXECUTION, which no worker answers.  Bounded by the captures the fabric
\* can still perform, of which an execution needs one at most, and by what the
\* worker has not read.
begin_execution ==
  /\ pc = "loop"
  /\ capture_count < MaxCaptures /\ Len(worker[conn].inbox) < MaxUnread
  /\ start_execution(exec_id, 1, boot) /\ live' = TRUE /\ UNCHANGED image
  /\ goto("declare")

begin_declared ==
  /\ pc = "declare"
  /\ declare_safe_point(safe_point) /\ UNCHANGED persistVars
  /\ worker' = sent_to(conn, message("BeginExecution", 0, boot))
  /\ pc' = "loop"
  /\ UNCHANGED <<processVars, acked_by, outcome>>

\* REGISTER waits in accept for the next worker.
register_command ==
  pc = "loop" /\ boot_counter < MaxRegistrations /\ UNCHANGED allVars /\ goto("accept")

accept_next ==
  /\ pc = "accept" /\ backlog # <<>>
  /\ LET w == Head(backlog)
     IN IF Len(worker[w].outbox) >= 2
          THEN /\ boot_counter' = boot_counter + 1
               /\ registered(w, CounterBoot[boot_counter + 1])
          ELSE /\ pc' = "loop" /\ backlog' = Tail(backlog)
               /\ UNCHANGED <<allVars, boot, conn, position, last_progress,
                              boot_counter, starts, worker, acked_by, outcome>>

\* REPLAY_STALE: a request with the generations, epoch and boot id of the
\* command, followed by a release.
replay_command(req) ==
  /\ pc = "loop"
  /\ req.id = stale_id /\ req.execution = exec_id
  /\ call(request_accepted(req), request_preemption(req))
  /\ goto("replay_release")

replay_released ==
  pc = "replay_release" /\ call(release_accepted, request_release) /\ goto("loop")

\* SHUTDOWN, or the controller is gone.
shutdown == pc = "loop" /\ UNCHANGED allVars /\ exit

Commands ==
  \/ \E pos \in Positions : run_segment(pos)
  \/ drive_request
  \/ resume_command
  \/ begin_execution
  \/ register_command
  \/ \E req \in Requests : replay_command(req)
  \/ shutdown

Coordinate ==
  \/ set_up \/ accept_first \/ accept_next
  \/ segment_lost \/ segment_reached \/ segment_published
  \/ drive_preemption \/ drive_resume
  \/ begin_declared \/ replay_released

\* A process that has crashed or exited is started again and recovers: all that
\* main declares is new.
new_process ==
  /\ starts < MaxStarts /\ starts' = starts + 1
  /\ pc' = "contract"
  /\ boot' = NoBoot /\ conn' = NoWorker /\ backlog' = <<>>
  /\ position' = 0 /\ last_progress' = 0 /\ boot_counter' = 0
  /\ worker' = [w \in Workers |->
                  IF worker[w].state = "idle" THEN worker[w] ELSE gone(worker[w])]
  /\ acked_by' = NoWorker /\ outcome' = "none"

recover == restart

Crash ==
  /\ new_process
  /\ \/ recover
     \/ pc = "save" /\ crash_in_save

------------------------------------------------------------------------------
(* Workers *)

worker_connects(w) ==
  /\ worker[w].state = "idle" /\ pc # "exited"
  /\ worker' = [worker EXCEPT
       ![w].state = "joining",
       ![w].outbox = <<message("Hello", 0, NoBoot), message("Register", 0, NoBoot)>>]
  /\ backlog' = Append(backlog, w)
  /\ UNCHANGED <<allVars, pc, boot, conn, position, last_progress, boot_counter,
                 starts, acked_by, outcome>>

replies_without_boundary(cmd, b) ==
  CASE cmd.type = "PublishProgress" -> <<message("PublishProgress", cmd.position, b)>>
    [] cmd.type = "Quiesced" -> <<message("Quiesced", 0, b)>>
    [] OTHER -> <<>>
\* What a worker answers to a command.
replies(cmd, b) ==
  CASE cmd.type = "PublishProgress" ->
         <<message("PublishProgress", cmd.position, b),
           message("ReachSafePoint", cmd.position, b)>>
    [] cmd.type = "Quiesced" -> <<message("Quiesced", 0, b)>>
    [] OTHER -> <<>>

\* The acknowledgement of REGISTER brings the boot id, every other message is a
\* command.
worker_receives(w) ==
  /\ worker[w].inbox # <<>>
  /\ LET p == worker[w]
         m == Head(p.inbox)
     IN worker' = [worker EXCEPT ![w] =
          IF p.state = "joining"
            THEN [p EXCEPT !.state = "ready", !.boot = m.boot, !.inbox = Tail(p.inbox)]
            ELSE [p EXCEPT !.inbox = Tail(p.inbox),
                           !.outbox = p.outbox \o replies(m, p.boot)]]
  /\ UNCHANGED <<allVars, pc, processVars, acked_by, outcome>>

\* What has left the worker may still arrive, up to a point.
worker_dies(w) ==
  /\ worker[w].state \in {"joining", "ready"}
  /\ \E k \in 0 .. Len(worker[w].outbox) :
       worker' = [worker EXCEPT
         ![w] = [gone(@) EXCEPT !.outbox = SubSeq(worker[w].outbox, 1, k)]]
  /\ UNCHANGED <<allVars, pc, processVars, acked_by, outcome>>

Environment ==
  \E w \in Workers : worker_connects(w) \/ worker_dies(w)

CoordNext ==
  \/ Commands
  \/ Coordinate
  \/ Crash
  \/ \E w \in Workers : worker_receives(w)
  \/ Environment

\* The operating system schedules both processes.  Nobody is obliged to send a
\* command, to launch a worker or to crash.
CoordFairness ==
  /\ WF_coordVars(Coordinate)
  /\ \A w \in Workers : WF_coordVars(worker_receives(w))

CoordSpec == CoordInit /\ [][CoordNext]_coordVars /\ CoordFairness

------------------------------------------------------------------------------
(* What the processes promise *)

\* Coordinator and worker stay in step: the coordinator never looks at the type
\* or the boot id of a reply, so a reply left unread would be taken for the
\* answer to a later command.  Whatever dies, reconnects and is replaced, what is
\* on the connection are replies of this incarnation to the command under way.
InStep ==
  LET answers(type) ==
        LET all == replies(message(type, position, boot), boot)
            out == worker[conn].outbox
        IN out = SubSeq(all, 1, Len(out))
  IN /\ pc = "loop" => worker[conn].outbox = <<>>
     /\ pc = "segment" => answers("PublishProgress")
     /\ pc = "await" => answers("Quiesced")

\* "Forced worker loss must not be reported as safe preemption": a preemption that
\* is reported, and about to be saved, was acknowledged in this very drive by the
\* incarnation that it fences.
SafeOnlyIfAcknowledged ==
  /\ outcome = "safe" => acked_by # NoWorker
  /\ pc = "save" => acked_by = conn /\ quiesced_by = boot /\ fenced_worker_boot = boot

\* Whatever the coordinator saves it can recover: it only ever saves a committed
\* preemption with a capture behind it.  (The runtime's own save makes no such
\* promise, see SnapshotDecodes.)
SavedImageLoads == image # NoImage => decode(image)

\* The stages at which the coordinator may find a preemption under way when it is
\* at l.  Between commands a request is either untouched or was left while
\* QUIESCING, when the worker was lost.
stages_at(l) ==
  CASE l = "reach" -> {"WaitingForSafePoint", "Quiescing"}
    [] l = "quiesce_again" -> {"SafePointReached", "Quiescing"}
    [] l \in {"ask", "await"} -> {"Quiescing"}
    [] l = "capture" -> {"Quiesced"}
    [] l = "captured" -> {"CapturingState"}
    [] l = "release" -> {"StateDurable"}
    [] l = "released" -> {"Releasing"}
    [] l = "commit" -> {"ResourcesReleased"}
    [] l = "save" -> {}
    [] OTHER -> {"Assessing", "Quiescing"}

UnderWay(s) == is_on_main_path(s) /\ ~is_preempted_durable(s)

\* The drive and the runtime stay at the same stage, although the drive ignores
\* what all its calls before the commit answer, is cut short by every lost worker
\* and although another drive or a replay finds what it left.  In particular no
\* command leaves a preemption between the acknowledgement of the worker and the
\* commit, with the work stopped and the resources half released.
InStage == UnderWay(lifecycle) => lifecycle \in stages_at(pc)

\* A preemption that was reported as safe is the one on file: as long as it has not
\* been resumed, a crash finds a file that loads, is at PREEMPTED and names the same
\* request and durable progress and the checkpoint of the last capture of this
\* process, whatever segments, registrations, replays and drives were tried since.
ReportedIsSaved ==
  outcome = "safe" /\ Fenced(lifecycle) /\ pc # "save" =>
    /\ decode(image) /\ image.lifecycle = "Preempted"
    /\ image.request = active_request
    /\ image.durable_progress = durable_position
    /\ image.checkpoint_ref = checkpoint_ref /\ checkpoint_ref = capture_count

AtRest ==
  \/ pc \in {"loop", "exited"}
  \/ pc \in {"accept_first", "accept"} /\ backlog = <<>>

\* Every command comes to an end, whether its worker answers or dies.  Only
\* REGISTER waits, as long as no worker connects.
CommandCompletes == ~AtRest ~> AtRest

\* An admitted request is driven to PREEMPTED, unless the worker or the
\* coordinator dies: from between safe points as well as from one, and also when
\* an earlier drive lost its worker half way.  A checkpoint already on record
\* spoils it: the next capture is numbered 2 and the fabric stays at 1.
DrivePreempts ==
  (/\ pc = "quiesce" /\ checkpoint_generation = 0
   /\ lifecycle \in {"Assessing", "WaitingForSafePoint", "SafePointReached", "Quiescing"})
    ~> (lifecycle = "Preempted" \/ pc \in {"contract", "exited"} \/ outcome = "lost")

------------------------------------------------------------------------------
(* What the documentation promises and the code does not keep *)

\* "an old attempt that cannot publish authoritative progress after preemption":
\* while the execution is preempted its durable progress is what was saved.
BoundaryPreserved ==
  decode(image) /\ Fenced(lifecycle) /\ pc # "save" =>
    durable_position = image.durable_progress
==============================================================================
