-------------------------- MODULE CoordinatorProofs --------------------------
(***************************************************************************)
(* What the coordinator and its workers promise, for every number of       *)
(* workers, registrations and restarts and with any commands.              *)
(***************************************************************************)
EXTENDS Coordinator, PersistenceProofs

USE DEF persistVars, processVars, goto, call

\* A worker is registered with the process.
Linked == pc \notin {"contract", "accept_first", "exited"}

\* A process sets its contract before it accepts anybody, and once it has a worker
\* the runtime knows the boot id of that worker.
LinkInv ==
  /\ pc # "contract" => contract_execution = exec_id
  /\ pc \in {"contract", "accept_first"} => conn = NoWorker
  /\ Linked => conn \in Workers /\ boot \in Boots /\ worker_boot = boot
  /\ pc = "accept" => boot_counter < MaxRegistrations

CoordTypeInv == CoordTypeOK /\ AccountingCloses /\ LinkInv

\* The coordinator's types contain those of the runtime and of the image.
LEMMA RuntimeTyped == CoordTypeInv => PersistTypeInv
BY DEF CoordTypeInv, CoordTypeOK, PersistTypeOK, PersistTypeInv, TypeInv

------------------------------------------------------------------------------
(* Every step is a step of Persistence *)

\* What drive_preemption asks for is a request the runtime can be given.
LEMMA TheRequest == boot \in AllBoots => the_request \in Requests
BY CoordinatorAssumption, BrokerAssumption, RuntimeAssumption
   DEF the_request, Requests, Generations, Scopes

\* A reply that has arrived carries a position.
LEMMA ReplyPosition ==
  ASSUME CoordTypeInv, conn \in Workers, NEW n \in 1 .. Len(worker[conn].outbox)
  PROVE  worker[conn].outbox[n].position \in Positions
<1>1. worker[conn].outbox \in Seq(Messages)
  BY DEF CoordTypeInv, CoordTypeOK, Processes
<1>2. worker[conn].outbox[n] \in Messages
  BY <1>1
<1> QED BY <1>2 DEF Messages

\* A worker in the backlog is a worker.
LEMMA BacklogHead ==
  ASSUME CoordTypeInv, backlog # <<>>
  PROVE  Head(backlog) \in Workers /\ Tail(backlog) \in Seq(Workers)
BY DEF CoordTypeInv, CoordTypeOK

\* Whatever the coordinator, a worker or the controller does is to the runtime
\* one call, a save, a restart or nothing.
LEMMA ImplementsStep ==
  ASSUME CoordTypeInv, [CoordNext]_coordVars
  PROVE  [PersistNext]_allVars
<1> USE CoordinatorAssumption, BrokerAssumption, RuntimeAssumption DEF PersistNext
<1>0. ASSUME UNCHANGED allVars PROVE [PersistNext]_allVars
  BY <1>0
<1>1. CASE set_up
  <2>1. 1 \in Generations /\ [r \in Resources |-> MaxUnits] \in [Resources -> Units]
    BY DEF Generations, Units
  <2>2. BrokerNext
    BY <1>1, <2>1 DEF set_up, BrokerNext
  <2> QED BY <1>1, <2>2, Zenon DEF set_up, BrokerActs, FabricActs
<1>2. ASSUME NEW w \in Workers, NEW b \in Boots, registered(w, b)
      PROVE  PersistNext
  BY <1>2, Zenon DEF registered, RegistrationActs
<1>3. CASE accept_first
  <2>1. CASE UNCHANGED allVars
    BY <1>0, <2>1
  <2>2. CASE registered(Head(backlog), LabelBoot[Head(backlog)])
    BY <1>2, <1>3, <2>2, BacklogHead, Zenon DEF accept_first
  <2> QED BY <1>3, <2>1, <2>2, Zenon DEF accept_first
<1>4. CASE accept_next
  <2>1. CASE UNCHANGED allVars
    BY <1>0, <2>1
  <2>2. CASE registered(Head(backlog), CounterBoot[boot_counter + 1])
    <3>1. boot_counter + 1 \in 1 .. MaxRegistrations
      BY <1>4 DEF accept_next, CoordTypeInv, CoordTypeOK, LinkInv
    <3>2. CounterBoot[boot_counter + 1] \in Boots
      BY <3>1
    <3> QED BY <1>2, <1>4, <2>2, <3>2, BacklogHead, Zenon DEF accept_next
  <2> QED BY <1>4, <2>1, <2>2, Zenon DEF accept_next
<1>5. ASSUME NEW pos \in Positions, NEW c \in BOOLEAN,
             \/ UNCHANGED allVars
             \/ reach_safe_point(safe_point, pos, c) /\ UNCHANGED persistVars
      PROVE  [PersistNext]_allVars
  BY <1>0, <1>5 DEF ExecutionActs
<1>6. CASE segment_reached
  <2>1. conn \in Workers /\ worker[conn].outbox \in Seq(Messages)
    BY <1>6 DEF segment_reached, CoordTypeInv, CoordTypeOK, LinkInv, Linked, Processes
  <2>2. segment_replies \in 1 .. Len(worker[conn].outbox)
    BY <1>6, <2>1 DEF segment_reached, received, segment_replies
  <2>3. worker[conn].outbox[segment_replies].position \in Positions
    BY <2>1, <2>2, ReplyPosition
  <2> QED BY <1>5, <1>6, <2>3, Zenon DEF segment_reached, reach_or_exit
<1>7. CASE segment_published
  BY <1>0, <1>7, Zenon DEF segment_published, allVars, CoordTypeInv, CoordTypeOK, ExecutionActs
<1>8. CASE drive_reach
  BY <1>5, <1>8, Zenon DEF drive_reach, reach_or_exit, drive_capture_required, CoordTypeInv,
     CoordTypeOK
<1>9. ASSUME NEW req \in Requests, call(request_accepted(req), request_preemption(req))
      PROVE  [PersistNext]_allVars
  BY <1>0, <1>9 DEF allVars, PreemptionActs
<1>10. CASE drive_request
  BY <1>9, <1>10, TheRequest, Zenon DEF drive_request, CoordTypeInv, CoordTypeOK
<1>11. CASE drive_quiesce \/ drive_quiesce_again
  BY <1>11 DEF drive_quiesce, drive_quiesce_again, allVars, PreemptionActs
<1>12. CASE drive_await
  <2>1. boot \in Boots
    BY <1>12 DEF drive_await, CoordTypeInv, LinkInv, Linked
  <2> QED BY <1>12, <2>1, Zenon DEF drive_await, drive_lost, allVars, PreemptionActs
<1>13. CASE drive_capture
  BY <1>13, Zenon DEF drive_capture, allVars, PreemptionActs
<1>14. CASE drive_captured
  BY <1>14, Zenon DEF drive_captured, allVars, PreemptionActs
<1>15. CASE drive_release \/ drive_released \/ drive_commit
  BY <1>15 DEF drive_release, drive_released, drive_commit, allVars, PreemptionActs
<1>16. CASE drive_save \/ Crash
  BY <1>16 DEF drive_save, Crash, recover, PersistActs
<1>17. CASE drive_resume \/ resume_command
  BY <1>17, Zenon DEF drive_resume, resume_command, allVars, ResumeActs, DependencyStatus
<1>18. CASE begin_execution
  <2>1. boot \in Boots /\ 1 \in Generations \ {0}
    BY <1>18 DEF begin_execution, CoordTypeInv, LinkInv, Linked, Generations
  <2> QED BY <1>18, <2>1, Zenon DEF begin_execution, RegistrationActs
<1>19. CASE begin_declared
  BY <1>19 DEF begin_declared, ExecutionActs
<1>20. CASE replay_released
  BY <1>20 DEF replay_released, allVars, PreemptionActs
<1>21. CASE \E req \in Requests : replay_command(req)
  BY <1>9, <1>21, Zenon DEF replay_command
<1>22. CASE \/ \E pos \in Positions : run_segment(pos)
            \/ segment_lost \/ drive_ask \/ register_command \/ shutdown
            \/ \E w \in Workers : worker_receives(w)
            \/ Environment
            \/ UNCHANGED coordVars
  BY <1>0, <1>22, Zenon DEF run_segment, segment_lost, drive_ask, drive_lost, register_command,
     shutdown, worker_receives, Environment, worker_connects, worker_dies, coordVars
<1> QED
  BY <1>1, <1>3, <1>4, <1>6, <1>7, <1>8, <1>10, <1>11, <1>12, <1>13, <1>14, <1>15, <1>16,
     <1>17, <1>18, <1>19, <1>20, <1>21, <1>22, Zenon
     DEF CoordNext, Commands, Coordinate, drive_preemption

------------------------------------------------------------------------------
(* Types *)

\* A message of the coordinator is a message.
LEMMA MessageTyped ==
  ASSUME NEW type \in MessageTypes, NEW pos \in Positions, NEW b \in AllBoots
  PROVE  message(type, pos, b) \in Messages
BY DEF message, Messages

\* What a process does to its own record keeps it a process.
LEMMA ProcessTyped ==
  ASSUME NEW p \in Processes
  PROVE  /\ gone(p) \in Processes
         /\ \A out \in Seq(Messages) : [p EXCEPT !.outbox = out] \in Processes
         /\ \A in \in Seq(Messages) : [p EXCEPT !.inbox = in] \in Processes
         /\ \A in, out \in Seq(Messages) :
              [p EXCEPT !.inbox = in, !.outbox = out] \in Processes
         /\ \A in \in Seq(Messages), b \in AllBoots :
              [p EXCEPT !.state = "ready", !.boot = b, !.inbox = in] \in Processes
         /\ \A out \in Seq(Messages) :
              [p EXCEPT !.state = "joining", !.outbox = out] \in Processes
         /\ \A out \in Seq(Messages) : [gone(p) EXCEPT !.outbox = out] \in Processes
<1>1. <<>> \in Seq(Messages) /\ NoBoot \in AllBoots
  BY DEF AllBoots
<1> QED BY <1>1, Zenon DEF Processes, gone

\* send, to whoever.
LEMMA SentTyped ==
  ASSUME worker \in [Workers -> Processes], NEW w \in Workers, NEW m \in Messages
  PROVE  sent_to(w, m) \in [Workers -> Processes]
<1>1. worker[w].inbox \in Seq(Messages)
  BY DEF Processes
<1>2. Append(worker[w].inbox, m) \in Seq(Messages)
  BY <1>1
<1>3. [worker[w] EXCEPT !.inbox = Append(worker[w].inbox, m)] \in Processes
  BY <1>2, ProcessTyped, Zenon
<1> QED BY <1>3, Zenon DEF sent_to

\* Part of a queue is a queue.
LEMMA SubSeqTyped ==
  ASSUME NEW q \in Seq(Messages), NEW m \in Nat \ {0}
  PROVE  SubSeq(q, m, Len(q)) \in Seq(Messages)
OBVIOUS

\* The coordinator's own part of CoordTypeOK.
OwnTypes ==
  /\ pc \in PCs
  /\ boot \in AllBoots
  /\ conn \in Workers \cup {NoWorker}
  /\ backlog \in Seq(Workers)
  /\ position \in Positions /\ last_progress \in Positions
  /\ boot_counter \in 0 .. MaxRegistrations
  /\ worker \in [Workers -> Processes]
  /\ starts \in 0 .. MaxStarts
  /\ acked_by \in Workers \cup {NoWorker}
  /\ outcome \in {"none", "driving", "lost", "safe", "failed"}

\* The steps of a drive and of most commands only move on.
Moves ==
  \/ set_up \/ drive_quiesce \/ (drive_reach /\ goto("quiesce_again"))
  \/ drive_quiesce_again \/ drive_capture \/ drive_captured \/ drive_release
  \/ drive_released \/ drive_save \/ drive_resume \/ resume_command \/ begin_execution
  \/ register_command \/ (\E req \in Requests : replay_command(req)) \/ replay_released
  \/ drive_request \/ drive_commit \/ (drive_ask /\ drive_lost)
  \/ (drive_await /\ drive_lost)

\* They leave alone all that connects the coordinator with its workers.
LEMMA MovesFrame ==
  ASSUME Moves
  PROVE  /\ UNCHANGED <<processVars, worker>>
         /\ pc' \in PCs
         /\ acked_by' \in {acked_by, NoWorker}
         /\ outcome' \in {outcome, "driving", "lost", "safe", "failed"}
<1>1. CASE \/ set_up \/ drive_quiesce \/ (drive_reach /\ goto("quiesce_again"))
           \/ drive_quiesce_again \/ drive_capture \/ drive_captured \/ drive_release
           \/ drive_released \/ drive_save
  BY <1>1, Zenon DEF set_up, drive_quiesce, drive_quiesce_again, drive_capture, drive_captured,
     drive_release, drive_released, drive_save, PCs
<1>2. CASE \/ drive_resume \/ resume_command \/ begin_execution
           \/ register_command \/ (\E req \in Requests : replay_command(req))
           \/ replay_released
  BY <1>2, Zenon DEF drive_resume, resume_command, begin_execution, register_command,
     replay_command, replay_released, PCs
<1>3. CASE drive_request \/ drive_commit \/ (drive_ask /\ drive_lost)
           \/ (drive_await /\ drive_lost)
  BY <1>3 DEF drive_request, drive_commit, drive_lost, PCs
<1> QED BY <1>1, <1>2, <1>3, Zenon DEF Moves

\* The steps of the whole, those that only move on taken together.
LEMMA CoordStepCases ==
  ASSUME CoordNext
  PROVE  \/ Moves
         \/ accept_first \/ accept_next
         \/ \E pos \in Positions : run_segment(pos)
         \/ segment_lost \/ segment_reached \/ segment_published
         \/ drive_reach /\ exit
         \/ drive_ask /\ ~drive_lost
         \/ drive_await /\ ~drive_lost
         \/ begin_declared
         \/ shutdown
         \/ Crash
         \/ \E w \in Workers : worker_receives(w)
         \/ \E w \in Workers : worker_connects(w)
         \/ \E w \in Workers : worker_dies(w)
<1>1. CASE Commands
  BY <1>1, Zenon DEF Commands, Moves
<1>2. drive_reach => exit \/ goto("quiesce_again")
  BY DEF drive_reach, reach_or_exit
<1>3. CASE Coordinate
  BY <1>2, <1>3, Zenon DEF Coordinate, drive_preemption, Moves
<1> QED BY <1>1, <1>3, Zenon DEF CoordNext, Environment

\* When the process ends its workers are still processes.
LEMMA EndTyped ==
  ASSUME worker \in [Workers -> Processes]
  PROVE  [w \in Workers |->
            IF worker[w].state = "idle" THEN worker[w] ELSE gone(worker[w])]
           \in [Workers -> Processes]
BY ProcessTyped, Zenon

\* A worker that takes the place of another one is a process, and so are all.
LEMMA RegisteredTyped ==
  ASSUME worker \in [Workers -> Processes], NEW w \in Workers, NEW b \in Boots,
         registered(w, b)
  PROVE  worker' \in [Workers -> Processes]
<1>1. message("Register", 0, b) \in Messages
  BY MessageTyped, RuntimeAssumption DEF MessageTypes, Positions, AllBoots
<1>2. sent_to(w, message("Register", 0, b)) \in [Workers -> Processes]
  BY <1>1, SentTyped
<1> DEFINE p == sent_to(w, message("Register", 0, b))[w]
<1>3. p \in Processes /\ p.outbox \in Seq(Messages)
  BY <1>2 DEF Processes
<1>4. SubSeq(p.outbox, 3, Len(p.outbox)) \in Seq(Messages)
  BY <1>3, SubSeqTyped
<1>5. [p EXCEPT !.outbox = SubSeq(p.outbox, 3, Len(p.outbox))] \in Processes
  BY <1>3, <1>4, ProcessTyped, Zenon
<1>6. \A v \in Workers : worker[v] \in Processes /\ gone(worker[v]) \in Processes
  BY ProcessTyped, Zenon
<1> QED BY <1>5, <1>6, Zenon DEF registered

\* What a worker sends back are messages.
LEMMA RepliesTyped ==
  ASSUME NEW cmd \in Messages, NEW b \in AllBoots
  PROVE  replies(cmd, b) \in Seq(Messages)
<1>1. cmd.position \in Positions /\ 0 \in Positions
  BY RuntimeAssumption DEF Messages, Positions
<1>2. /\ message("PublishProgress", cmd.position, b) \in Messages
      /\ message("ReachSafePoint", cmd.position, b) \in Messages
      /\ message("Quiesced", 0, b) \in Messages
  BY <1>1, MessageTyped DEF MessageTypes
<1> QED BY <1>2 DEF replies

\* Every step keeps the types of the coordinator and of its workers.
LEMMA OwnTypesStep ==
  ASSUME CoordTypeInv, CoordNext
  PROVE  OwnTypes'
<1>0. OwnTypes /\ LinkInv
  BY DEF CoordTypeInv, CoordTypeOK, OwnTypes
<1>a. worker \in [Workers -> Processes]
  BY <1>0 DEF OwnTypes
<1>b. \A w \in Workers :
        /\ worker[w] \in Processes
        /\ worker[w].inbox \in Seq(Messages) /\ worker[w].outbox \in Seq(Messages)
        /\ worker[w].boot \in AllBoots
  BY <1>a DEF Processes
<1>c. 0 \in Positions /\ NoBoot \in AllBoots
  BY RuntimeAssumption DEF Positions, AllBoots
<1>d. pc \in PCs
  BY <1>0 DEF OwnTypes
<1>1. CASE Moves
  BY <1>0, <1>1, MovesFrame DEF OwnTypes
<1>2. ASSUME exit PROVE OwnTypes'
  <2>1. worker' \in [Workers -> Processes]
    BY <1>2, <1>a, EndTyped DEF exit
  <2> QED BY <1>0, <1>2, <2>1 DEF exit, OwnTypes, PCs
<1>3. ASSUME NEW w \in Workers, NEW b \in Boots, registered(w, b), backlog # <<>>,
             boot_counter' \in 0 .. MaxRegistrations
      PROVE  OwnTypes'
  <2>1. worker' \in [Workers -> Processes]
    BY <1>3, <1>a, RegisteredTyped
  <2>2. UNCHANGED <<position, last_progress, starts, acked_by, outcome>>
        /\ boot' = b /\ conn' = w /\ backlog' = Tail(backlog) /\ pc' = "loop"
    BY <1>3, Zenon DEF registered
  <2> QED BY <1>0, <1>3, <2>1, <2>2, BacklogHead DEF OwnTypes, PCs, AllBoots
<1>4. CASE accept_first
  <2>1. CASE registered(Head(backlog), LabelBoot[Head(backlog)]) /\ UNCHANGED boot_counter
    BY <1>0, <1>3, <1>4, <2>1, BacklogHead, CoordinatorAssumption DEF accept_first, OwnTypes
  <2> QED BY <1>2, <1>4, <2>1, Zenon DEF accept_first
<1>5. CASE accept_next
  <2>1. CASE /\ boot_counter' = boot_counter + 1
             /\ registered(Head(backlog), CounterBoot[boot_counter + 1])
    <3>1. boot_counter + 1 \in 1 .. MaxRegistrations
      BY <1>0, <1>5, CoordinatorAssumption DEF accept_next, OwnTypes, LinkInv
    <3>2. CounterBoot[boot_counter + 1] \in Boots
      BY <3>1, CoordinatorAssumption
    <3>3. boot_counter' \in 0 .. MaxRegistrations
      BY <2>1, <3>1
    <3> QED BY <1>3, <1>5, <2>1, <3>2, <3>3, BacklogHead DEF accept_next
  <2>2. CASE /\ pc' = "loop" /\ backlog' = Tail(backlog)
             /\ UNCHANGED <<allVars, boot, conn, position, last_progress,
                            boot_counter, starts, worker, acked_by, outcome>>
    BY <1>0, <1>5, <2>2, BacklogHead DEF accept_next, OwnTypes, PCs
  <2> QED BY <1>5, <2>1, <2>2, Zenon DEF accept_next
<1>6. ASSUME Linked, NEW type \in MessageTypes, NEW pos \in Positions,
             worker' = sent_to(conn, message(type, pos, boot))
      PROVE  worker' \in [Workers -> Processes]
  <2>1. message(type, pos, boot) \in Messages
    BY <1>0, <1>6, MessageTyped DEF OwnTypes
  <2> QED BY <1>0, <1>6, <1>a, <2>1, SentTyped DEF LinkInv
<1>7. ASSUME NEW pos \in Positions, run_segment(pos) PROVE OwnTypes'
  <2>1. worker' \in [Workers -> Processes]
    BY <1>6, <1>7 DEF run_segment, Linked, MessageTypes
  <2> QED BY <1>0, <1>7, <2>1 DEF run_segment, OwnTypes, PCs
<1>8. CASE segment_lost
  <2>1. worker' \in [Workers -> Processes]
    <3>1. conn \in Workers
      BY <1>0, <1>8 DEF segment_lost, LinkInv, Linked
    <3>0. <<>> \in Seq(Messages)
      OBVIOUS
    <3>2. [worker[conn] EXCEPT !.outbox = <<>>] \in Processes
      BY <1>b, <3>0, <3>1, ProcessTyped, Zenon
    <3>3. worker' = [worker EXCEPT ![conn].outbox = <<>>]
      BY <1>8, Zenon DEF segment_lost
    <3> QED BY <1>a, <3>2, <3>3, Zenon
  <2>2. /\ pc' = "loop" /\ position' = 0
        /\ UNCHANGED <<boot, conn, backlog, last_progress, boot_counter, starts,
                       acked_by, outcome>>
    BY <1>8, Zenon DEF segment_lost
  <2> QED BY <1>0, <1>c, <2>1, <2>2 DEF OwnTypes, PCs
<1>9. ASSUME Linked, NEW n \in Nat, worker' = consumed(n)
      PROVE  worker' \in [Workers -> Processes]
  <2>1. conn \in Workers
    BY <1>0, <1>9 DEF LinkInv
  <2>2. SubSeq(worker[conn].outbox, n + 1, Len(worker[conn].outbox)) \in Seq(Messages)
    BY <1>b, <2>1, SubSeqTyped
  <2>3. [worker[conn] EXCEPT !.outbox =
           SubSeq(worker[conn].outbox, n + 1, Len(worker[conn].outbox))] \in Processes
    BY <1>b, <2>1, <2>2, ProcessTyped, Zenon
  <2> QED BY <1>9, <1>a, <2>3, Zenon DEF consumed
<1>10. CASE segment_reached
  <2>1. CASE exit
    BY <1>2, <2>1
  <2>2. CASE /\ pc' = "publish"
             /\ position' = worker[conn].outbox[1].position
             /\ worker' = consumed(segment_replies)
             /\ UNCHANGED <<boot, conn, backlog, last_progress, boot_counter, starts,
                            acked_by, outcome>>
    <3>1. Linked /\ segment_replies \in Nat
      BY <1>10 DEF segment_reached, Linked, segment_replies
    <3>2. worker' \in [Workers -> Processes]
      BY <1>9, <2>2, <3>1
    <3>3. conn \in Workers /\ 1 \in 1 .. Len(worker[conn].outbox)
      BY <1>0, <1>10, <1>b, <3>1 DEF segment_reached, received, segment_replies, LinkInv
    <3>4. position' \in Positions
      BY <2>2, <3>3, ReplyPosition, Zenon
    <3> QED BY <1>0, <2>2, <3>2, <3>4 DEF OwnTypes, PCs
  <2> QED BY <1>10, <2>1, <2>2, Zenon DEF segment_reached, reach_or_exit
<1>11. CASE segment_published
  BY <1>0, <1>11, <1>c DEF segment_published, OwnTypes, PCs
<1>12. CASE drive_ask /\ ~drive_lost
  <2>1. worker' \in [Workers -> Processes]
    BY <1>6, <1>12, <1>c DEF drive_ask, Linked, MessageTypes
  <2> QED BY <1>0, <1>12, <2>1 DEF drive_ask, OwnTypes, PCs
<1>13. CASE drive_await /\ ~drive_lost
  <2>1. pc = "await" /\ worker' = consumed(1) /\ acked_by' = conn /\ pc' = "capture"
        /\ UNCHANGED <<processVars, outcome>>
    BY <1>13, Zenon DEF drive_await
  <2>2. Linked /\ conn \in Workers
    BY <1>0, <2>1 DEF LinkInv, Linked
  <2>3. worker' \in [Workers -> Processes]
    BY <1>9, <2>1, <2>2
  <2> QED BY <1>0, <2>1, <2>2, <2>3 DEF OwnTypes, PCs
<1>14. CASE begin_declared
  <2>1. worker' \in [Workers -> Processes]
    BY <1>6, <1>14, <1>c DEF begin_declared, Linked, MessageTypes
  <2> QED BY <1>0, <1>14, <2>1 DEF begin_declared, OwnTypes, PCs
<1>15. CASE Crash
  <2>1. worker' \in [Workers -> Processes]
    BY <1>15, <1>a, EndTyped DEF Crash, new_process
  <2> QED BY <1>0, <1>15, <1>c, <2>1, CoordinatorAssumption DEF Crash, new_process,
             OwnTypes, PCs
<1>16. ASSUME NEW w \in Workers, worker_receives(w) PROVE OwnTypes'
  <2> DEFINE p == worker[w]
             m == Head(p.inbox)
  <2>1. m \in Messages /\ Tail(p.inbox) \in Seq(Messages)
    BY <1>16, <1>b DEF worker_receives
  <2>2. m.boot \in AllBoots
    BY <2>1 DEF Messages
  <2>3. p.outbox \o replies(m, p.boot) \in Seq(Messages)
    BY <1>b, <2>1, RepliesTyped
  <2>4. /\ [p EXCEPT !.state = "ready", !.boot = m.boot, !.inbox = Tail(p.inbox)]
             \in Processes
        /\ [p EXCEPT !.inbox = Tail(p.inbox), !.outbox = p.outbox \o replies(m, p.boot)]
             \in Processes
    BY <1>b, <2>1, <2>2, <2>3, ProcessTyped, Zenon
  <2>5. worker' \in [Workers -> Processes]
    BY <1>16, <1>a, <2>4, Zenon DEF worker_receives
  <2> QED BY <1>0, <1>16, <2>5 DEF worker_receives, OwnTypes
<1>17. ASSUME NEW w \in Workers, worker_connects(w) PROVE OwnTypes'
  <2>1. <<message("Hello", 0, NoBoot), message("Register", 0, NoBoot)>> \in Seq(Messages)
    <3>1. /\ message("Hello", 0, NoBoot) \in Messages
          /\ message("Register", 0, NoBoot) \in Messages
      BY <1>c, MessageTyped DEF MessageTypes
    <3> QED BY <3>1
  <2>2. [worker[w] EXCEPT !.state = "joining",
           !.outbox = <<message("Hello", 0, NoBoot), message("Register", 0, NoBoot)>>]
          \in Processes
    BY <1>b, <2>1, ProcessTyped, Zenon
  <2>3. worker' \in [Workers -> Processes]
    BY <1>17, <1>a, <2>2, Zenon DEF worker_connects
  <2>4. Append(backlog, w) \in Seq(Workers)
    BY <1>0 DEF OwnTypes
  <2>5. /\ backlog' = Append(backlog, w)
        /\ UNCHANGED <<pc, boot, conn, position, last_progress, boot_counter, starts,
                       acked_by, outcome>>
    BY <1>17, Zenon DEF worker_connects
  <2> QED BY <1>0, <2>3, <2>4, <2>5 DEF OwnTypes
<1>18. ASSUME NEW w \in Workers, worker_dies(w) PROVE OwnTypes'
  <2>1. PICK k \in 0 .. Len(worker[w].outbox) :
          worker' = [worker EXCEPT
            ![w] = [gone(worker[w]) EXCEPT !.outbox = SubSeq(worker[w].outbox, 1, k)]]
    BY <1>18, Zenon DEF worker_dies
  <2>2. SubSeq(worker[w].outbox, 1, k) \in Seq(Messages)
    BY <1>b
  <2>3. [gone(worker[w]) EXCEPT !.outbox = SubSeq(worker[w].outbox, 1, k)] \in Processes
    BY <1>b, <2>2, ProcessTyped, Zenon
  <2>4. worker' \in [Workers -> Processes]
    BY <1>a, <2>1, <2>3, Zenon
  <2>5. UNCHANGED <<pc, processVars, acked_by, outcome>>
    BY <1>18, Zenon DEF worker_dies
  <2> QED BY <1>0, <2>4, <2>5 DEF OwnTypes
<1>19. CASE (drive_reach /\ exit) \/ shutdown
  BY <1>2, <1>19 DEF shutdown
<1> QED
  BY <1>1, <1>4, <1>5, <1>7, <1>8, <1>10, <1>11, <1>12, <1>13, <1>14, <1>15, <1>16,
     <1>17, <1>18, <1>19, CoordStepCases, Zenon

------------------------------------------------------------------------------
(* The link to the worker *)

USE DEF scopeVars, safePointVars, progressVars, flagVars, checkpointVars, captureVars,
        historyVars, brokerVars, transition, transition2, progress_accepted,
        request_accepted, commit_accepted

\* Only a registration and the start of an execution assign worker_boot, and only
\* set_up and a restart the contract.
LEMMA ScopeFrame ==
  ASSUME CoordNext, ~set_up, ~accept_first, ~accept_next, ~begin_execution, ~Crash
  PROVE  UNCHANGED <<worker_boot, contract_execution>>
<1> USE DEF vars
<1>1. CASE \/ drive_quiesce \/ drive_quiesce_again \/ drive_await \/ drive_request
           \/ \E req \in Requests : replay_command(req)
  BY <1>1, Zenon DEF drive_quiesce, drive_quiesce_again, drive_await, drive_lost, allVars,
     drive_request, replay_command, begin_quiesce, report_quiesced, request_preemption
<1>2. CASE drive_capture \/ drive_captured
  BY <1>2, Zenon DEF drive_capture, drive_captured, allVars, request_state_capture,
     report_state_captured
<1>3. CASE drive_release \/ replay_released \/ drive_released \/ drive_commit
  BY <1>3, Zenon DEF drive_release, replay_released, drive_released, drive_commit,
     request_release, release_all_leases, report_released, commit_preempted
<1>4. CASE drive_resume \/ resume_command
  BY <1>4, Zenon DEF drive_resume, resume_command, request_resume, revalidate, restore,
     confirm_resumed, resumeFrame
<1>5. CASE drive_reach \/ segment_reached
  BY <1>5, Zenon DEF drive_reach, segment_reached, reach_or_exit, reach_safe_point, allVars
<1>6. CASE segment_published \/ begin_declared \/ drive_save
  BY <1>6, Zenon DEF segment_published, publish_progress, begin_declared, declare_safe_point,
     drive_save, save
<1>7. CASE \/ \E pos \in Positions : run_segment(pos)
           \/ segment_lost \/ drive_ask \/ register_command \/ shutdown
           \/ \E w \in Workers : worker_receives(w)
           \/ Environment
  <2>1. UNCHANGED allVars
    BY <1>7, Zenon DEF run_segment, segment_lost, drive_ask, drive_lost, register_command,
       shutdown, worker_receives, Environment, worker_connects, worker_dies
  <2> QED BY <2>1 DEF allVars
<1> QED
  BY <1>1, <1>2, <1>3, <1>4, <1>5, <1>6, <1>7, Zenon
     DEF CoordNext, Commands, Coordinate, drive_preemption

\* Which steps the coordinator may take from where, as far as its link goes.
LEMMA LinkFrame ==
  ASSUME CoordNext, ~accept_first, ~accept_next, ~set_up, ~Crash
  PROVE  /\ UNCHANGED <<boot, conn, boot_counter>>
         /\ \/ pc' = pc
            \/ Linked /\ pc' = "exited"
            \/ Linked /\ Linked' /\ (pc' = "accept" => boot_counter < MaxRegistrations)
<1> USE DEF Linked, exit
<1>1. CASE Moves
  <2>1. UNCHANGED <<boot, conn, boot_counter>>
    BY <1>1, MovesFrame
  <2>2. /\ pc \notin {"contract", "accept_first", "exited"}
        /\ pc' \notin {"contract", "accept_first", "exited"}
        /\ pc' = "accept" => boot_counter < MaxRegistrations
    BY <1>1, Zenon DEF Moves, drive_quiesce, drive_quiesce_again, drive_reach, drive_capture,
       drive_captured, drive_release, drive_released, drive_save, drive_resume,
       resume_command, begin_execution, register_command, replay_command,
       replay_released, drive_request, drive_commit, drive_ask, drive_await, drive_lost
  <2> QED BY <2>1, <2>2
<1>2. CASE (drive_reach /\ exit) \/ shutdown
  BY <1>2 DEF drive_reach, shutdown
<1>3. CASE segment_reached
  BY <1>3, Zenon DEF segment_reached, reach_or_exit
<1>4. CASE \/ \E pos \in Positions : run_segment(pos)
           \/ segment_lost \/ segment_published \/ begin_declared
           \/ (drive_ask /\ ~drive_lost) \/ (drive_await /\ ~drive_lost)
  BY <1>4, Zenon DEF run_segment, segment_lost, segment_published, begin_declared, drive_ask,
     drive_await
<1>5. CASE \/ \E w \in Workers : worker_receives(w)
           \/ \E w \in Workers : worker_connects(w)
           \/ \E w \in Workers : worker_dies(w)
  BY <1>5, Zenon DEF worker_receives, worker_connects, worker_dies
<1> QED BY <1>1, <1>2, <1>3, <1>4, <1>5, CoordStepCases, Zenon

\* A worker is linked by its registration alone and stays the one the runtime
\* knows until the next registration or the end of the process.
LEMMA LinkStep ==
  ASSUME CoordTypeInv, CoordNext
  PROVE  LinkInv'
<1>0. LinkInv
  BY DEF CoordTypeInv
<1>1. CASE set_up
  BY <1>0, <1>1 DEF set_up, set_contract, LinkInv, Linked
<1>2. CASE Crash
  BY <1>2 DEF Crash, new_process, LinkInv, Linked
<1>3. ASSUME NEW w \in Workers, NEW b \in Boots, registered(w, b), pc # "contract"
      PROVE  LinkInv'
  <2>1. /\ pc' = "loop" /\ conn' = w /\ boot' = b /\ worker_boot' = b
        /\ UNCHANGED contract_execution
    BY <1>3, Zenon DEF registered, set_worker_incarnation
  <2> QED BY <1>0, <1>3, <2>1 DEF LinkInv, Linked
<1>4. ASSUME exit, UNCHANGED allVars, pc # "contract" PROVE LinkInv'
  BY <1>0, <1>4 DEF exit, allVars, vars, LinkInv, Linked
<1>5. CASE accept_first
  BY <1>3, <1>4, <1>5, BacklogHead, CoordinatorAssumption DEF accept_first
<1>6. CASE accept_next
  <2>1. CASE registered(Head(backlog), CounterBoot[boot_counter + 1])
    <3>1. boot_counter + 1 \in 1 .. MaxRegistrations
      BY <1>0, <1>6, CoordinatorAssumption
         DEF accept_next, CoordTypeInv, CoordTypeOK, LinkInv
    <3>2. CounterBoot[boot_counter + 1] \in Boots
      BY <3>1, CoordinatorAssumption
    <3> QED BY <1>3, <1>6, <2>1, <3>2, BacklogHead DEF accept_next
  <2>2. CASE pc' = "loop" /\ UNCHANGED <<allVars, boot, conn, boot_counter>>
    BY <1>0, <1>6, <2>2 DEF accept_next, allVars, vars, LinkInv, Linked
  <2> QED BY <1>6, <2>1, <2>2, Zenon DEF accept_next
<1>7. CASE begin_execution
  BY <1>0, <1>7 DEF begin_execution, start_execution, LinkInv, Linked
<1>8. CASE ~set_up /\ ~accept_first /\ ~accept_next /\ ~begin_execution /\ ~Crash
  BY <1>0, <1>8, ScopeFrame, LinkFrame DEF LinkInv, Linked
<1> QED BY <1>1, <1>2, <1>5, <1>6, <1>7, <1>8

\* The processes start typed, with no worker.
LEMMA CoordTypeInit == CoordInit => CoordTypeInv
<1> SUFFICES ASSUME CoordInit PROVE CoordTypeInv
  OBVIOUS
<1>1. PersistTypeInv
  BY PersistTypeInit DEF CoordInit
<1>2. worker \in [Workers -> Processes]
  BY DEF CoordInit, Processes, AllBoots
<1>3. OwnTypes /\ LinkInv
  BY <1>2, CoordinatorAssumption, RuntimeAssumption
     DEF CoordInit, OwnTypes, LinkInv, Linked, PCs, AllBoots, Positions
<1> QED
  BY <1>1, <1>3 DEF PersistTypeInv, TypeInv, PersistTypeOK, OwnTypes, CoordTypeInv,
     CoordTypeOK

\* Every step of the processes keeps the types, the accounting and the link.
LEMMA CoordTypeStep == CoordTypeInv /\ [CoordNext]_coordVars => CoordTypeInv'
<1> SUFFICES ASSUME CoordTypeInv, [CoordNext]_coordVars PROVE CoordTypeInv'
  OBVIOUS
<1>1. PersistTypeInv'
  BY ImplementsStep, RuntimeTyped, PersistTypeStep
<1>2. OwnTypes' /\ LinkInv'
  <2>1. CASE CoordNext
    BY <2>1, OwnTypesStep, LinkStep
  <2>2. CASE UNCHANGED coordVars
    BY <2>2, Zenon DEF coordVars, allVars, vars, CoordTypeInv, CoordTypeOK, OwnTypes, LinkInv, Linked
  <2> QED BY <2>1, <2>2
<1> QED
  BY <1>1, <1>2 DEF PersistTypeInv, TypeInv, PersistTypeOK, OwnTypes, CoordTypeInv,
     CoordTypeOK

\* Every variable of the coordinator, of its workers and connections and of the
\* runtime keeps its type, whoever dies and restarts.
THEOREM CoordTypeHolds == CoordSpec => []CoordTypeOK
<1>1. CoordTypeInv => CoordTypeOK
  BY DEF CoordTypeInv
<1> QED
  BY <1>1, CoordTypeInit, CoordTypeStep, PTL DEF CoordSpec

\* What is proved of PersistSpec holds of the runtime inside the coordinator.
LEMMA PersistenceUsed == CoordSpec => PersistSpec
<1>1. CoordInit => PersistInit
  BY DEF CoordInit
<1>2. CoordTypeInv /\ [CoordNext]_coordVars => [PersistNext]_allVars
  BY ImplementsStep
<1> QED
  BY <1>1, <1>2, CoordTypeInit, CoordTypeStep, PTL DEF CoordSpec, PersistSpec

\* However workers, coordinator and commands interleave, every restart of the
\* coordinator finds a request on record for the preemption it finds under way, and
\* durable progress no further back than what it had saved.
THEOREM RecoveryHolds == CoordSpec => [](RequestSurvives /\ SavedProgressKept)
BY PersistenceUsed, RequestHolds, SavedProgressHolds, PTL

==============================================================================
