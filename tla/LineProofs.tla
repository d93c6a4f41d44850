----------------------------- MODULE LineProofs ------------------------------
(*****************************************************************************)
(* What is on the connections between the coordinator and its workers, and   *)
(* that every reply is the answer to the command under way.                  *)
(*****************************************************************************)
EXTENDS CoordinatorProofs

USE DEF persistVars, processVars, goto, call, scopeVars, safePointVars, progressVars,
        flagVars, checkpointVars, captureVars, historyVars, brokerVars, transition,
        transition2, progress_accepted, request_accepted, commit_accepted

\* Messages that a worker reads and does not answer.
Quiet(m) == m.type \in {"Register", "BeginExecution"}

AllQuiet(q) == \A i \in 1 .. Len(q) : Quiet(q[i])

\* The command cmd is the last message to be read and the only one to be answered.
Asked(q, cmd) ==
  /\ q # <<>> /\ q[Len(q)] = cmd
  /\ \A i \in 1 .. (Len(q) - 1) : Quiet(q[i])

Begins(out, all) == Len(out) <= Len(all) /\ out = SubSeq(all, 1, Len(out))

\* Process p is, or was, the one registered under b.
Bound(p, b) ==
  /\ p.state # "idle"
  /\ p.state = "gone" => p.inbox = <<>>
  /\ p.state = "joining" => p.inbox # <<>> /\ p.inbox[1] = message("Register", 0, b)
  /\ p.state = "ready" => p.boot = b

\* Nothing is asked of p and p has nothing to say.
Silent(p) == AllQuiet(p.inbox) /\ p.outbox = <<>>

\* p has yet to read cmd, or has answered it, or died over it.
Owing(p, cmd, b) ==
  \/ Asked(p.inbox, cmd) /\ p.outbox = <<>>
  \/ AllQuiet(p.inbox) /\ p.outbox = replies(cmd, b)
  \/ p.state = "gone" /\ Begins(p.outbox, replies(cmd, b))

\* p is not registered with this process, or no longer.
Waiting(p) == p.inbox = <<>> /\ p.state # "ready" /\ Len(p.outbox) <= 2

\* A queue is its own beginning, the empty queue begins every one, and the
\* beginning of a beginning is one.
LEMMA BeginsFacts ==
  ASSUME NEW all \in Seq(Messages)
  PROVE  /\ Begins(all, all)
         /\ Begins(<<>>, all)
         /\ \A out \in Seq(Messages) : \A k \in 0 .. Len(out) :
              Begins(out, all) => Begins(SubSeq(out, 1, k), all)
<1>1. Begins(all, all)
  BY DEF Begins
<1>2. Begins(<<>>, all)
  BY DEF Begins
<1>3. ASSUME NEW out \in Seq(Messages), NEW k \in 0 .. Len(out), Begins(out, all)
      PROVE  Begins(SubSeq(out, 1, k), all)
  <2>1. Len(SubSeq(out, 1, k)) = k /\ SubSeq(out, 1, k) \in Seq(Messages)
    OBVIOUS
  <2>2. k <= Len(all) /\ SubSeq(all, 1, k) \in Seq(Messages) /\ Len(SubSeq(all, 1, k)) = k
    BY <1>3 DEF Begins
  <2>3. \A i \in 1 .. k : SubSeq(out, 1, k)[i] = out[i] /\ SubSeq(all, 1, k)[i] = all[i]
    BY <2>2
  <2>4. \A i \in 1 .. k : out[i] = all[i]
    BY <1>3, <2>2 DEF Begins
  <2> QED BY <2>1, <2>2, <2>3, <2>4 DEF Begins
<1> QED BY <1>1, <1>2, <1>3

\* The queue of length 0 is the empty one, whatever is queued.
LEMMA EmptyQueue == \A S : \A q \in Seq(S) : Len(q) \in Nat /\ (q = <<>> <=> Len(q) = 0)
OBVIOUS

\* A queue to which nothing is added stays.
LEMMA ConcatEmpty == \A S : \A q \in Seq(S) : q \o <<>> = q /\ <<>> \o q = q
OBVIOUS

\* A queue that grows is still a queue of the same kind.
LEMMA AppendTyped == \A S : \A q \in Seq(S) : \A m \in S : Append(q, m) \in Seq(S)
OBVIOUS

\* The length of the empty queue.
LEMMA EmptyLen == Len(<<>>) = 0 /\ Len(<<>>) <= 2 /\ 1 .. Len(<<>>) = {}
OBVIOUS

\* One less than more than one is something.
LEMMA OneLess == \A n \in Nat \ {0} : n > 1 => n - 1 # 0
OBVIOUS

\* A queue that is not empty has a first message.
LEMMA NonEmpty ==
  ASSUME NEW q \in Seq(Messages), q # <<>>
  PROVE  Len(q) \in Nat \ {0}
BY EmptyQueue, Zenon

\* A message is added at the end, and nothing else moves.
LEMMA AppendFacts ==
  ASSUME NEW q \in Seq(Messages), NEW m \in Messages, AllQuiet(q)
  PROVE  /\ Append(q, m) # <<>>
         /\ q = <<>> => Append(q, m)[1] = m
         /\ q # <<>> => Append(q, m)[1] = q[1]
         /\ Quiet(m) => AllQuiet(Append(q, m))
         /\ Asked(Append(q, m), m)
<1> DEFINE r == Append(q, m)
<1>1. /\ Len(q) \in Nat /\ r \in Seq(Messages) /\ Len(r) = Len(q) + 1
      /\ r[Len(q) + 1] = m /\ \A i \in 1 .. Len(q) : r[i] = q[i]
  OBVIOUS
<1> HIDE DEF r
<1>2. r # <<>>
  <2>1. Len(r) # 0
    BY <1>1
  <2> QED BY <1>1, <2>1, EmptyQueue, Zenon
<1>3. ASSUME q = <<>> PROVE r[1] = m
  <2>1. Len(q) = 0
    BY <1>3, EmptyLen, Zenon
  <2> QED BY <1>1, <2>1
<1>4. ASSUME q # <<>> PROVE r[1] = q[1]
  <2>1. 1 \in 1 .. Len(q)
    <3>1. Len(q) \in Nat \ {0}
      BY <1>4, NonEmpty, Zenon
    <3>2. \A k \in Nat \ {0} : 1 \in 1 .. k
      OBVIOUS
    <3> QED BY <3>1, <3>2, Zenon
  <2> QED BY <1>1, <2>1, Zenon
<1>5. Quiet(m) => AllQuiet(r)
  BY <1>1 DEF AllQuiet
<1>6. Asked(r, m)
  <2>1. r[Len(r)] = m
    BY <1>1
  <2>2. \A i \in 1 .. (Len(r) - 1) : Quiet(r[i])
    BY <1>1 DEF AllQuiet
  <2> QED BY <1>2, <2>1, <2>2, Zenon DEF Asked
<1> QED BY <1>2, <1>3, <1>4, <1>5, <1>6, Zenon DEF r

\* Reading the next message of a queue.
LEMMA TailFacts ==
  ASSUME NEW q \in Seq(Messages), q # <<>>
  PROVE  /\ Head(q) = q[1]
         /\ AllQuiet(q) => Quiet(Head(q)) /\ AllQuiet(Tail(q))
         /\ \A cmd \in Messages : Asked(q, cmd) =>
              \/ Head(q) = cmd /\ AllQuiet(Tail(q))
              \/ Quiet(Head(q)) /\ Asked(Tail(q), cmd)
<1>1. Head(q) = q[1] /\ Tail(q) \in Seq(Messages) /\ Len(Tail(q)) = Len(q) - 1
  OBVIOUS
<1>2. \A i \in 1 .. (Len(q) - 1) : Tail(q)[i] = q[i + 1]
  OBVIOUS
<1>3. AllQuiet(q) => Quiet(Head(q)) /\ AllQuiet(Tail(q))
  BY <1>1, <1>2 DEF AllQuiet
<1>4. ASSUME NEW cmd \in Messages, Asked(q, cmd)
      PROVE  \/ Head(q) = cmd /\ AllQuiet(Tail(q))
             \/ Quiet(Head(q)) /\ Asked(Tail(q), cmd)
  <2>1. CASE Len(q) = 1
    <3>1. q[Len(q)] = cmd
      BY <1>4 DEF Asked
    <3>2. Head(q) = cmd
      BY <1>1, <2>1, <3>1
    <3>3. AllQuiet(Tail(q))
      BY <1>1, <2>1 DEF AllQuiet
    <3> QED BY <3>2, <3>3
  <2>2. CASE Len(q) > 1
    <3>0. q[Len(q)] = cmd
      BY <1>4 DEF Asked
    <3>1. Quiet(Head(q))
      BY <1>1, <1>4, <2>2 DEF Asked
    <3>2. Tail(q) # <<>>
      <4>1. Len(Tail(q)) # 0
        BY <1>1, <2>2, NonEmpty, OneLess, Zenon
      <4> QED BY <1>1, <4>1, EmptyQueue, Zenon
    <3>4. Len(q) - 1 \in 1 .. (Len(q) - 1) /\ (Len(q) - 1) + 1 = Len(q)
      BY <2>2
    <3>5. Tail(q)[Len(q) - 1] = q[(Len(q) - 1) + 1]
      BY <1>2, <3>4, Zenon
    <3>6. Tail(q)[Len(Tail(q))] = cmd
      BY <1>1, <3>0, <3>4, <3>5, Zenon
    <3>3. \A i \in 1 .. (Len(Tail(q)) - 1) : Quiet(Tail(q)[i])
      BY <1>1, <1>2, <1>4, <2>2 DEF Asked
    <3> QED BY <3>1, <3>2, <3>3, <3>6 DEF Asked
  <2>3. Len(q) = 1 \/ Len(q) > 1
    <3>1. Len(q) \in Nat \ {0}
      BY NonEmpty, Zenon
    <3>2. \A n \in Nat \ {0} : n = 1 \/ n > 1
      OBVIOUS
    <3> QED BY <3>1, <3>2, Zenon
  <2> QED BY <2>1, <2>2, <2>3
<1> QED BY <1>1, <1>3, <1>4

\* A worker that sees a message it need not answer answers nothing.
LEMMA QuietReplies ==
  ASSUME NEW m \in Messages, NEW b, Quiet(m)
  PROVE  replies(m, b) = <<>>
BY DEF Quiet, replies

\* Sending to a worker that is silent.
LEMMA SendLine ==
  ASSUME NEW p \in Processes, NEW b \in AllBoots, Bound(p, b), Silent(p),
         p.state # "gone", NEW m \in Messages
  PROVE  LET n == [p EXCEPT !.inbox = Append(p.inbox, m)]
         IN Bound(n, b) /\ (Quiet(m) => Silent(n)) /\ Owing(n, m, b)
<1> DEFINE n == [p EXCEPT !.inbox = Append(p.inbox, m)]
<1>1. p.inbox \in Seq(Messages) /\ AllQuiet(p.inbox)
  BY DEF Processes, Silent
<1>2. /\ n.inbox = Append(p.inbox, m) /\ n.outbox = p.outbox /\ n.state = p.state
      /\ n.boot = p.boot
  BY DEF Processes
<1>3. Bound(n, b)
  BY <1>1, <1>2, AppendFacts, Zenon DEF Bound
<1>4. Quiet(m) => Silent(n)
  BY <1>1, <1>2, AppendFacts, Zenon DEF Silent
<1>5. Owing(n, m, b)
  BY <1>1, <1>2, AppendFacts, Zenon DEF Owing, Silent
<1> QED BY <1>3, <1>4, <1>5, Zenon

\* A silent worker that is gone owes whatever it is sent.
LEMMA SendGone ==
  ASSUME NEW p \in Processes, NEW b \in AllBoots, Silent(p), p.state = "gone",
         NEW cmd \in Messages
  PROVE  Owing(p, cmd, b)
BY RepliesTyped, BeginsFacts, Zenon DEF Silent, Owing

\* A worker reads its next message.
LEMMA ReceiveLine ==
  ASSUME NEW p \in Processes, NEW b \in AllBoots, Bound(p, b), p.inbox # <<>>
  PROVE  LET m == Head(p.inbox)
             n == IF p.state = "joining"
                    THEN [p EXCEPT !.state = "ready", !.boot = m.boot,
                                   !.inbox = Tail(p.inbox)]
                    ELSE [p EXCEPT !.inbox = Tail(p.inbox),
                                   !.outbox = p.outbox \o replies(m, p.boot)]
         IN /\ Bound(n, b)
            /\ Silent(p) => Silent(n)
            /\ \A cmd \in Messages : ~Quiet(cmd) /\ Owing(p, cmd, b) => Owing(n, cmd, b)
<1> DEFINE m == Head(p.inbox)
           n == IF p.state = "joining"
                  THEN [p EXCEPT !.state = "ready", !.boot = m.boot,
                                 !.inbox = Tail(p.inbox)]
                  ELSE [p EXCEPT !.inbox = Tail(p.inbox),
                                 !.outbox = p.outbox \o replies(m, p.boot)]
<1>1. /\ p.inbox \in Seq(Messages) /\ p.outbox \in Seq(Messages) /\ p.boot \in AllBoots
      /\ p.state \in {"idle", "joining", "ready", "gone"}
  BY DEF Processes
<1>2. p.state \in {"joining", "ready"}
  BY <1>1, Zenon DEF Bound
<1>3. m = p.inbox[1] /\ m \in Messages
  BY <1>1, TailFacts
<1>4. n.inbox = Tail(p.inbox) /\ n.state = "ready"
  BY <1>2 DEF Processes
<1>5. p.state = "joining" => m = message("Register", 0, b) /\ n.boot = m.boot
                               /\ n.outbox = p.outbox
  BY <1>3 DEF Bound, Processes
<1>6. p.state = "ready" => p.boot = b /\ n.boot = b
                             /\ n.outbox = p.outbox \o replies(m, b)
  BY DEF Bound, Processes
<1>7. Quiet(m) => n.outbox = p.outbox
  <2>1. p.outbox \o <<>> = p.outbox
    BY <1>1, ConcatEmpty, Zenon
  <2> QED BY <1>2, <1>3, <1>5, <1>6, <2>1, QuietReplies, Zenon
<1>8. p.state = "joining" => Quiet(m) /\ m.boot = b
  BY <1>5 DEF Quiet, message
<1>9. Bound(n, b)
  BY <1>2, <1>4, <1>5, <1>6, <1>8, Zenon DEF Bound
<1>10. Silent(p) => Silent(n)
  BY <1>1, <1>4, <1>7, TailFacts, Zenon DEF Silent
<1>11. ASSUME NEW cmd \in Messages, ~Quiet(cmd), Owing(p, cmd, b) PROVE Owing(n, cmd, b)
  <2>1. CASE Asked(p.inbox, cmd) /\ p.outbox = <<>>
    <3>1. CASE m = cmd /\ AllQuiet(Tail(p.inbox))
      <4>1. p.state = "ready"
        BY <1>2, <1>8, <1>11, <3>1, Zenon
      <4>2. <<>> \o replies(cmd, b) = replies(cmd, b)
        BY RepliesTyped, ConcatEmpty, Zenon
      <4> QED BY <1>4, <1>6, <2>1, <3>1, <4>1, <4>2, Zenon DEF Owing
    <3>2. CASE Quiet(m) /\ Asked(Tail(p.inbox), cmd)
      BY <1>4, <1>7, <2>1, <3>2, Zenon DEF Owing
    <3> QED BY <1>1, <2>1, <3>1, <3>2, TailFacts, Zenon
  <2>2. CASE AllQuiet(p.inbox) /\ p.outbox = replies(cmd, b)
    BY <1>1, <1>4, <1>7, <2>2, TailFacts, Zenon DEF Owing
  <2>3. CASE p.state = "gone"
    BY <1>2, <2>3, Zenon
  <2> QED BY <1>11, <2>1, <2>2, <2>3, Zenon DEF Owing
<1> QED BY <1>9, <1>10, <1>11, Zenon

\* A worker dies, and part of what it has sent is lost.
LEMMA DieLine ==
  ASSUME NEW p \in Processes, NEW b \in AllBoots, p.state \in {"joining", "ready"},
         NEW k \in 0 .. Len(p.outbox)
  PROVE  LET n == [gone(p) EXCEPT !.outbox = SubSeq(p.outbox, 1, k)]
         IN /\ Bound(n, b)
            /\ Silent(p) => Silent(n)
            /\ \A cmd \in Messages : Owing(p, cmd, b) => Owing(n, cmd, b)
<1> DEFINE n == [gone(p) EXCEPT !.outbox = SubSeq(p.outbox, 1, k)]
<1>1. n.state = "gone" /\ n.inbox = <<>> /\ n.outbox = SubSeq(p.outbox, 1, k)
  BY DEF gone, Processes
<1>2. AllQuiet(<<>>)
  BY DEF AllQuiet
<1>3. p.outbox \in Seq(Messages)
  BY DEF Processes
<1>4. p.outbox = <<>> => SubSeq(p.outbox, 1, k) = <<>>
  OBVIOUS
<1>5. Bound(n, b)
  BY <1>1 DEF Bound
<1>6. Silent(p) => Silent(n)
  BY <1>1, <1>2, <1>4, Zenon DEF Silent
<1>7. ASSUME NEW cmd \in Messages, Owing(p, cmd, b) PROVE Owing(n, cmd, b)
  <2>1. Begins(p.outbox, replies(cmd, b))
    BY <1>7, RepliesTyped, BeginsFacts, Zenon DEF Owing
  <2>2. Begins(SubSeq(p.outbox, 1, k), replies(cmd, b))
    BY <1>3, <2>1, RepliesTyped, BeginsFacts, Zenon
  <2> QED BY <1>1, <2>2, Zenon DEF Owing
<1> QED BY <1>5, <1>6, <1>7, Zenon

\* The coordinator waits for the answer to a command, and to which.
Expecting == pc \in {"segment", "await"}
command ==
  IF pc = "segment" THEN message("PublishProgress", position, boot)
                    ELSE message("Quiesced", 0, boot)

\* The linked worker owes the answer to the command under way and nothing else.
LineInv ==
  Linked =>
    /\ Bound(worker[conn], boot)
    /\ IF Expecting THEN Owing(worker[conn], command, boot) ELSE Silent(worker[conn])

\* All other workers wait, at most once each, for their turn.
BacklogInv ==
  /\ \A w \in Workers : w # conn => Waiting(worker[w])
  /\ \A w \in Workers :
       worker[w].state = "idle" => worker[w].inbox = <<>> /\ worker[w].outbox = <<>>
  /\ \A i \in 1 .. Len(backlog) : backlog[i] # conn /\ worker[backlog[i]].state # "idle"
  /\ \A i, j \in 1 .. Len(backlog) : backlog[i] = backlog[j] => i = j

\* A step of the linked worker, or with it, does not concern the others.
LEMMA BacklogFrame ==
  ASSUME BacklogInv, UNCHANGED <<conn, backlog>>, backlog \in Seq(Workers),
         \A w \in Workers : w # conn => worker'[w] = worker[w],
         conn \in Workers => worker'[conn].state # "idle"
  PROVE  BacklogInv'
<1>1. \A i \in 1 .. Len(backlog) : backlog[i] \in Workers
  OBVIOUS
<1> QED BY <1>1, Zenon DEF BacklogInv

\* The first of the backlog is taken off.
LEMMA BacklogTail ==
  ASSUME backlog \in Seq(Workers), backlog # <<>>, BacklogInv
  PROVE  /\ Head(backlog) \in Workers /\ Head(backlog) # conn
         /\ worker[Head(backlog)].state # "idle"
         /\ \A i \in 1 .. Len(Tail(backlog)) :
              /\ Tail(backlog)[i] \in Workers
              /\ Tail(backlog)[i] # conn /\ Tail(backlog)[i] # Head(backlog)
              /\ worker[Tail(backlog)[i]].state # "idle"
         /\ \A i, j \in 1 .. Len(Tail(backlog)) :
              Tail(backlog)[i] = Tail(backlog)[j] => i = j
<1>1. Len(backlog) \in Nat \ {0}
  BY EmptyQueue, Zenon
<1>2. Head(backlog) = backlog[1] /\ Len(Tail(backlog)) = Len(backlog) - 1
  BY <1>1
<1>3. \A i \in 1 .. (Len(backlog) - 1) : Tail(backlog)[i] = backlog[i + 1]
  BY <1>1
<1>4. 1 \in 1 .. Len(backlog) /\ \A i \in 1 .. (Len(backlog) - 1) : i + 1 \in 2 .. Len(backlog)
  BY <1>1
<1>5. \A i \in 1 .. Len(backlog) : backlog[i] \in Workers
  OBVIOUS
<1> QED BY <1>1, <1>2, <1>3, <1>4, <1>5 DEF BacklogInv

\* Sending concerns the receiver alone.
LEMMA SentAt ==
  ASSUME worker \in [Workers -> Processes], NEW w \in Workers, NEW m
  PROVE  /\ \A v \in Workers : v # w => sent_to(w, m)[v] = worker[v]
         /\ worker[w].state = "gone" => sent_to(w, m)[w] = worker[w]
         /\ worker[w].state # "gone" =>
              sent_to(w, m)[w] = [worker[w] EXCEPT !.inbox = Append(worker[w].inbox, m)]
BY Zenon DEF sent_to, Gone

\* A command that is to be answered is a message.
LEMMA CommandTyped ==
  OwnTypes => command \in Messages /\ ~Quiet(command)
<1> SUFFICES ASSUME OwnTypes PROVE command \in Messages /\ ~Quiet(command)
  OBVIOUS
<1>1. 0 \in Positions
  BY RuntimeAssumption DEF Positions
<1>2. command \in Messages
  BY <1>1, MessageTyped DEF OwnTypes, command, MessageTypes
<1>3. command.type \in {"PublishProgress", "Quiesced"}
  BY DEF command, message
<1> QED BY <1>2, <1>3 DEF Quiet

\* The steps that only move on start and end with nothing asked, but for the one
\* that gives up an acknowledgement.
LEMMA MovesLine ==
  ASSUME Moves
  PROVE  /\ ~Expecting'
         /\ Linked' => Linked
         /\ ~Expecting \/ (pc = "await" /\ connection_lost(1))
<1> USE DEF Expecting, Linked
<1>1. CASE drive_await /\ drive_lost
  BY <1>1 DEF drive_await, drive_lost, received, connection_lost
<1>2. CASE ~(drive_await /\ drive_lost)
  BY <1>2, Zenon DEF Moves, set_up, drive_quiesce, drive_quiesce_again, drive_reach,
     drive_capture, drive_captured, drive_release, drive_released, drive_save,
     drive_resume, resume_command, begin_execution, register_command, replay_command,
     replay_released, drive_request, drive_commit, drive_ask, drive_lost
<1> QED BY <1>1, <1>2

\* The process ends: nobody is linked and nobody waits any more.
LEMMA EndLine ==
  ASSUME BacklogInv, ~Linked', backlog' = <<>>,
         worker' = [w \in Workers |->
                      IF worker[w].state = "idle" THEN worker[w] ELSE gone(worker[w])],
         worker \in [Workers -> Processes]
  PROVE  LineInv' /\ BacklogInv'
<1>1. \A w \in Workers :
        worker[w].state # "idle" =>
          /\ worker'[w].inbox = <<>> /\ worker'[w].outbox = <<>>
          /\ worker'[w].state = "gone"
  BY Zenon DEF gone, Processes
<1>2. \A w \in Workers : worker[w].state = "idle" =>
        worker'[w] = worker[w] /\ worker[w].inbox = <<>> /\ worker[w].outbox = <<>>
  BY Zenon DEF BacklogInv
<1>3. \A w \in Workers : worker'[w].inbox = <<>> /\ worker'[w].outbox = <<>>
                           /\ worker'[w].state \in {"idle", "gone"}
  BY <1>1, <1>2, Zenon
<1>4. \A w \in Workers : Waiting(worker'[w])
  BY <1>3, EmptyLen, Zenon DEF Waiting
<1>5. 1 .. Len(backlog') = {}
  BY EmptyLen, Zenon
<1>6. BacklogInv'
  BY <1>3, <1>4, <1>5, Zenon DEF BacklogInv
<1> QED BY <1>6, Zenon DEF LineInv

\* A worker takes its place: it has said all it had to say and hears REGISTER.
LEMMA RegisteredLine ==
  ASSUME CoordTypeInv, BacklogInv, backlog # <<>>, Len(worker[Head(backlog)].outbox) >= 2,
         NEW b \in Boots, registered(Head(backlog), b)
  PROVE  LineInv' /\ BacklogInv'
<1> DEFINE w == Head(backlog)
           m == message("Register", 0, b)
           p == sent_to(w, m)[w]
           n == [p EXCEPT !.outbox = SubSeq(p.outbox, 3, Len(p.outbox))]
<1>1. /\ worker \in [Workers -> Processes] /\ backlog \in Seq(Workers)
  BY DEF CoordTypeInv, CoordTypeOK
<1>2. /\ w \in Workers /\ w # conn /\ worker[w].state # "idle"
      /\ \A i \in 1 .. Len(Tail(backlog)) :
           /\ Tail(backlog)[i] \in Workers
           /\ Tail(backlog)[i] # conn /\ Tail(backlog)[i] # w
           /\ worker[Tail(backlog)[i]].state # "idle"
      /\ \A i, j \in 1 .. Len(Tail(backlog)) :
           Tail(backlog)[i] = Tail(backlog)[j] => i = j
  BY <1>1, BacklogTail, Zenon
<1>3. /\ pc' = "loop" /\ conn' = w /\ boot' = b /\ backlog' = Tail(backlog)
      /\ worker' = [v \in Workers |->
           IF v = w THEN n ELSE IF v = conn THEN gone(worker[v]) ELSE worker[v]]
  BY Zenon DEF registered
<1>4. Waiting(worker[w]) /\ worker[w] \in Processes
  BY <1>1, <1>2 DEF BacklogInv
<1>5. m \in Messages /\ Quiet(m)
  <2>1. m \in Messages
    BY MessageTyped, RuntimeAssumption DEF MessageTypes, Positions, AllBoots
  <2> QED BY <2>1 DEF Quiet, message
<1>6. /\ worker[w].outbox \in Seq(Messages) /\ Len(worker[w].outbox) = 2
      /\ worker[w].inbox = <<>> /\ worker[w].state \in {"joining", "gone"}
  <2>1. worker[w].outbox \in Seq(Messages)
    BY <1>4 DEF Processes
  <2>2. worker[w].state \in {"joining", "gone"} /\ worker[w].inbox = <<>>
    BY <1>2, <1>4 DEF Waiting, Processes
  <2>3. Len(worker[w].outbox) \in Nat
    BY <2>1
  <2>4. Len(worker[w].outbox) <= 2 /\ Len(worker[w].outbox) >= 2
    BY <1>4, Zenon DEF Waiting
  <2>5. \A k \in Nat : k <= 2 /\ k >= 2 => k = 2
    OBVIOUS
  <2> QED BY <2>1, <2>2, <2>3, <2>4, <2>5, Zenon
<1>7. /\ p.outbox = worker[w].outbox /\ p.state = worker[w].state /\ p \in Processes
      /\ p.state = "gone" => p.inbox = <<>>
      /\ p.state = "joining" => p.inbox = Append(<<>>, m)
  <2>1. CASE worker[w].state = "gone"
    BY <1>1, <1>2, <1>4, <1>6, <2>1, SentAt, Zenon
  <2>2. CASE worker[w].state = "joining"
    <3>1. p = [worker[w] EXCEPT !.inbox = Append(worker[w].inbox, m)]
      BY <1>1, <1>2, <2>2, SentAt, Zenon
    <3>2. p \in Processes
      <4>1. worker[w].inbox \in Seq(Messages)
        BY <1>4 DEF Processes
      <4>2. Append(worker[w].inbox, m) \in Seq(Messages)
        BY <1>5, <4>1, AppendTyped, Zenon
      <4>3. [worker[w] EXCEPT !.inbox = Append(worker[w].inbox, m)] \in Processes
        BY <1>4, <4>2, ProcessTyped, Zenon
      <4> QED BY <3>1, <4>3, Zenon
    <3>3. /\ p.outbox = worker[w].outbox /\ p.state = worker[w].state
          /\ p.inbox = Append(worker[w].inbox, m)
      BY <1>4, <3>1 DEF Processes
    <3> QED BY <1>6, <2>2, <3>2, <3>3, Zenon
  <2> QED BY <1>6, <2>1, <2>2, Zenon
<1>8. n.outbox = <<>> /\ n.state = p.state /\ n.inbox = p.inbox
  <2>1. SubSeq(p.outbox, 3, Len(p.outbox)) = <<>>
    <3>1. \A q \in Seq(Messages) : Len(q) = 2 => SubSeq(q, 3, Len(q)) = <<>>
      OBVIOUS
    <3> QED BY <1>6, <1>7, <3>1, Zenon
  <2> QED BY <1>7, <2>1 DEF Processes
<1>9. Silent(n) /\ Bound(n, b)
  <2>1. /\ AllQuiet(<<>>) /\ AllQuiet(Append(<<>>, m))
        /\ Append(<<>>, m) # <<>> /\ Append(<<>>, m)[1] = m
    <3>1. <<>> \in Seq(Messages) /\ AllQuiet(<<>>)
      BY DEF AllQuiet
    <3> QED BY <1>5, <3>1, AppendFacts, Zenon
  <2> QED BY <1>6, <1>7, <1>8, <2>1, Zenon DEF Silent, Bound
<1>10. worker'[w] = n
  BY <1>2, <1>3, Zenon
<1>11. LineInv'
  BY <1>3, <1>9, <1>10, Zenon DEF LineInv, Expecting
<1>12. ASSUME NEW v \in Workers, v # w
       PROVE  /\ Waiting(worker'[v])
              /\ worker'[v].state = "idle" =>
                   worker'[v].inbox = <<>> /\ worker'[v].outbox = <<>>
              /\ v # conn => worker'[v].state = worker[v].state
  <2>1. CASE v = conn
    <3>1. worker'[v] = gone(worker[v])
      BY <1>3, <1>12, <2>1, Zenon
    <3>2. worker'[v].inbox = <<>> /\ worker'[v].outbox = <<>> /\ worker'[v].state = "gone"
      BY <1>1, <3>1 DEF gone, Processes
    <3> QED BY <2>1, <3>2 DEF Waiting
  <2>2. CASE v # conn
    <3>1. worker'[v] = worker[v]
      BY <1>3, <1>12, <2>2, Zenon
    <3> QED BY <2>2, <3>1, Zenon DEF BacklogInv
  <2> QED BY <2>1, <2>2
<1>13. worker'[w].state # "idle"
  BY <1>2, <1>7, <1>8, <1>10, Zenon
<1>14. BacklogInv'
  BY <1>2, <1>3, <1>12, <1>13, Zenon DEF BacklogInv
<1> QED BY <1>11, <1>14

\* The coordinator sends to its worker, of which nothing is asked.
LEMMA SendStep ==
  ASSUME CoordTypeInv, LineInv, BacklogInv, Linked, ~Expecting, NEW m \in Messages,
         worker' = sent_to(conn, m), UNCHANGED <<boot, conn, backlog>>
  PROVE  /\ Bound(worker'[conn], boot) /\ Owing(worker'[conn], m, boot)
         /\ Quiet(m) => Silent(worker'[conn])
         /\ BacklogInv'
<1>1. /\ worker \in [Workers -> Processes] /\ backlog \in Seq(Workers)
      /\ boot \in AllBoots /\ conn \in Workers
  BY DEF CoordTypeInv, CoordTypeOK, LinkInv
<1>2. worker[conn] \in Processes /\ Bound(worker[conn], boot) /\ Silent(worker[conn])
  BY <1>1 DEF LineInv
<1>3. /\ Bound(worker'[conn], boot) /\ Owing(worker'[conn], m, boot)
      /\ Quiet(m) => Silent(worker'[conn])
  <2>1. CASE worker[conn].state = "gone"
    <3>1. worker'[conn] = worker[conn]
      BY <1>1, <2>1, SentAt, Zenon
    <3>2. Owing(worker[conn], m, boot)
      BY <1>1, <1>2, <2>1, SendGone, Zenon
    <3> QED BY <1>2, <3>1, <3>2, Zenon
  <2>2. CASE worker[conn].state # "gone"
    <3>1. worker'[conn] = [worker[conn] EXCEPT !.inbox = Append(worker[conn].inbox, m)]
      BY <1>1, <2>2, SentAt, Zenon
    <3> DEFINE n == [worker[conn] EXCEPT !.inbox = Append(worker[conn].inbox, m)]
    <3>2. Bound(n, boot) /\ (Quiet(m) => Silent(n)) /\ Owing(n, m, boot)
      BY <1>1, <1>2, <2>2, SendLine, Zenon
    <3>3. worker'[conn] = n
      BY <3>1
    <3> HIDE DEF n
    <3> QED BY <3>2, <3>3, Zenon
  <2> QED BY <2>1, <2>2, Zenon
<1>4. \A w \in Workers : w # conn => worker'[w] = worker[w]
  <2>1. \A w \in Workers : w # conn => sent_to(conn, m)[w] = worker[w]
    BY <1>1, SentAt, Zenon
  <2> QED BY <2>1, Zenon
<1>5. BacklogInv'
  BY <1>1, <1>3, <1>4, BacklogFrame, Zenon DEF Bound
<1> QED BY <1>3, <1>5

\* The coordinator takes all that its worker had to answer.
LEMMA TakeStep ==
  ASSUME CoordTypeInv, LineInv, BacklogInv, Linked, NEW cmd \in Messages,
         Owing(worker[conn], cmd, boot), NEW n \in Nat \ {0},
         Len(replies(cmd, boot)) = n, received(n), worker' = consumed(n),
         UNCHANGED <<boot, conn, backlog>>
  PROVE  Bound(worker'[conn], boot) /\ Silent(worker'[conn]) /\ BacklogInv'
<1> DEFINE p == worker[conn]
           q == [p EXCEPT !.outbox = SubSeq(p.outbox, n + 1, Len(p.outbox))]
<1>1. /\ worker \in [Workers -> Processes] /\ backlog \in Seq(Workers)
      /\ boot \in AllBoots /\ conn \in Workers
  BY DEF CoordTypeInv, CoordTypeOK, LinkInv
<1>2. p \in Processes /\ Bound(p, boot)
  BY <1>1, Zenon DEF LineInv
<1>3. worker'[conn] = q /\ \A w \in Workers : w # conn => worker'[w] = worker[w]
  BY <1>1, Zenon DEF consumed
<1>4. p.outbox \in Seq(Messages) /\ Len(p.outbox) \in Nat /\ Len(p.outbox) >= n
  <2>1. p.outbox \in Seq(Messages)
    BY <1>2 DEF Processes
  <2>2. Len(p.outbox) >= n
    BY Zenon DEF received
  <2> QED BY <2>1, <2>2
<1>5. AllQuiet(p.inbox) /\ Len(p.outbox) = n
  <2>1. CASE p.outbox = <<>>
    <3>1. Len(p.outbox) = 0
      BY <2>1, EmptyLen, Zenon
    <3> QED BY <1>4, <3>1
  <2>2. CASE AllQuiet(p.inbox) /\ p.outbox = replies(cmd, boot)
    BY <2>2
  <2>3. CASE p.state = "gone" /\ Begins(p.outbox, replies(cmd, boot))
    <3>1. p.inbox = <<>>
      BY <1>2, <2>3, Zenon DEF Bound
    <3>2. AllQuiet(<<>>)
      BY DEF AllQuiet
    <3>3. Len(p.outbox) <= n
      BY <2>3, Zenon DEF Begins
    <3>4. Len(p.outbox) = n
      BY <1>4, <3>3
    <3> QED BY <3>1, <3>2, <3>4, Zenon
  <2> QED BY <2>1, <2>2, <2>3, Zenon DEF Owing
<1>6. SubSeq(p.outbox, n + 1, Len(p.outbox)) = <<>>
  <2>1. \A s \in Seq(Messages) : Len(s) = n => SubSeq(s, n + 1, Len(s)) = <<>>
    OBVIOUS
  <2> QED BY <1>4, <1>5, <2>1, Zenon
<1>7. q.outbox = <<>> /\ q.inbox = p.inbox /\ q.state = p.state /\ q.boot = p.boot
  BY <1>2, <1>6 DEF Processes
<1>8. Bound(q, boot) /\ Silent(q)
  BY <1>2, <1>5, <1>7, Zenon DEF Bound, Silent
<1>9. BacklogInv'
  BY <1>1, <1>3, <1>8, BacklogFrame, Zenon DEF Bound
<1> QED BY <1>3, <1>8, <1>9, Zenon

\* A command that is under way when its worker is lost leaves nothing behind.
LEMMA LostSegmentStep ==
  ASSUME CoordTypeInv, LineInv, BacklogInv, segment_lost
  PROVE  LineInv' /\ BacklogInv'
<1> DEFINE p == worker[conn]
           q == [p EXCEPT !.outbox = <<>>]
<1>1. /\ worker \in [Workers -> Processes] /\ backlog \in Seq(Workers)
      /\ conn \in Workers
  BY DEF CoordTypeInv, CoordTypeOK, LinkInv, Linked, segment_lost
<1>2. p \in Processes /\ Bound(p, boot) /\ p.state = "gone"
  BY <1>1 DEF LineInv, Linked, segment_lost, connection_lost, Gone
<1>3. /\ worker' = [worker EXCEPT ![conn].outbox = <<>>]
      /\ pc' = "loop" /\ UNCHANGED <<boot, conn, backlog>>
  BY Zenon DEF segment_lost
<1>4. worker'[conn] = q /\ \A w \in Workers : w # conn => worker'[w] = worker[w]
  BY <1>1, <1>3, Zenon
<1>5. q.outbox = <<>> /\ q.inbox = <<>> /\ q.state = "gone"
  BY <1>2 DEF Processes, Bound
<1>6. Bound(q, boot) /\ Silent(q)
  <2>1. AllQuiet(<<>>)
    BY DEF AllQuiet
  <2> QED BY <1>5, <2>1 DEF Bound, Silent
<1>7. BacklogInv'
  BY <1>1, <1>3, <1>4, <1>6, BacklogFrame, Zenon DEF Bound
<1>8. LineInv'
  BY <1>3, <1>4, <1>6 DEF LineInv, Expecting
<1> QED BY <1>7, <1>8

\* A worker reads its next message; only the linked one has any.
LEMMA ReceiveStep ==
  ASSUME CoordTypeInv, LineInv, BacklogInv, NEW w \in Workers, worker_receives(w)
  PROVE  LineInv' /\ BacklogInv'
<1> DEFINE p == worker[w]
           m == Head(p.inbox)
           n == IF p.state = "joining"
                  THEN [p EXCEPT !.state = "ready", !.boot = m.boot, !.inbox = Tail(p.inbox)]
                  ELSE [p EXCEPT !.inbox = Tail(p.inbox),
                                 !.outbox = p.outbox \o replies(m, p.boot)]
<1>1. /\ worker \in [Workers -> Processes] /\ backlog \in Seq(Workers)
      /\ boot \in AllBoots /\ OwnTypes
  BY DEF CoordTypeInv, CoordTypeOK, OwnTypes
<1>2. /\ p.inbox # <<>> /\ worker' = [worker EXCEPT ![w] = n]
      /\ UNCHANGED <<pc, boot, conn, backlog, position>>
  BY Zenon DEF worker_receives
<1>3. w = conn /\ p \in Processes /\ p.state # "idle"
  BY <1>1, <1>2 DEF BacklogInv, Waiting
<1>4. worker'[conn] = n /\ \A v \in Workers : v # conn => worker'[v] = worker[v]
  BY <1>1, <1>2, <1>3, Zenon
<1>5. n.state # "idle"
  BY <1>3 DEF Processes
<1>6. BacklogInv'
  BY <1>1, <1>2, <1>4, <1>5, BacklogFrame, Zenon
<1>7. ASSUME Linked PROVE LineInv'
  <2>1. Bound(p, boot)
    BY <1>3, <1>7, Zenon DEF LineInv
  <2>2. /\ Bound(n, boot)
        /\ Silent(p) => Silent(n)
        /\ \A cmd \in Messages : ~Quiet(cmd) /\ Owing(p, cmd, boot) => Owing(n, cmd, boot)
    BY <1>1, <1>2, <1>3, <2>1, ReceiveLine, Zenon
  <2>3. command \in Messages /\ ~Quiet(command)
    BY <1>1, CommandTyped
  <2>4. Linked' /\ Expecting' = Expecting /\ command' = command
    BY <1>2, <1>7 DEF Linked, Expecting, command
  <2>5. IF Expecting THEN Owing(p, command, boot) ELSE Silent(p)
    BY <1>3, <1>7, Zenon DEF LineInv
  <2>6. worker'[conn'] = n /\ boot' = boot
    BY <1>2, <1>4
  <2> HIDE DEF n
  <2> QED BY <2>2, <2>3, <2>4, <2>5, <2>6, Zenon DEF LineInv
<1>8. CASE ~Linked
  BY <1>2, <1>6, <1>8 DEF LineInv, Linked
<1> QED BY <1>6, <1>7, <1>8

\* A worker dies: part of what it has said is still there.
LEMMA DieStep ==
  ASSUME CoordTypeInv, LineInv, BacklogInv, NEW w \in Workers, worker_dies(w)
  PROVE  LineInv' /\ BacklogInv'
<1>1. /\ worker \in [Workers -> Processes] /\ backlog \in Seq(Workers)
      /\ boot \in AllBoots /\ OwnTypes
  BY DEF CoordTypeInv, CoordTypeOK, OwnTypes
<1>2. PICK k \in 0 .. Len(worker[w].outbox) :
        worker' = [worker EXCEPT
          ![w] = [gone(worker[w]) EXCEPT !.outbox = SubSeq(worker[w].outbox, 1, k)]]
  BY Zenon DEF worker_dies
<1> DEFINE p == worker[w]
           n == [gone(p) EXCEPT !.outbox = SubSeq(p.outbox, 1, k)]
<1>3. p.state \in {"joining", "ready"} /\ UNCHANGED <<pc, boot, conn, backlog, position>>
  BY Zenon DEF worker_dies
<1>4. p \in Processes /\ p.outbox \in Seq(Messages)
  BY <1>1, Zenon DEF Processes
<1>5. worker'[w] = n /\ \A v \in Workers : v # w => worker'[v] = worker[v]
  BY <1>1, <1>2, Zenon
<1>6. /\ n.state = "gone" /\ n.inbox = <<>> /\ n.outbox = SubSeq(p.outbox, 1, k)
  BY <1>4 DEF gone, Processes
<1>7. /\ Bound(n, boot)
      /\ Silent(p) => Silent(n)
      /\ \A cmd \in Messages : Owing(p, cmd, boot) => Owing(n, cmd, boot)
  BY <1>1, <1>3, <1>4, DieLine, Zenon
<1>8. Waiting(p) => Waiting(n)
  <2>1. Len(SubSeq(p.outbox, 1, k)) = k
    BY <1>4
  <2>2. Len(p.outbox) \in Nat /\ (Len(p.outbox) <= 2 => k <= 2)
    BY <1>4
  <2> QED BY <1>6, <2>1, <2>2 DEF Waiting
<1> HIDE DEF n
<1>9. BacklogInv'
  <2>1. \A i \in 1 .. Len(backlog) : backlog[i] \in Workers
    BY <1>1
  <2>2. \A v \in Workers : v # conn' => Waiting(worker'[v])
    BY <1>3, <1>5, <1>8, Zenon DEF BacklogInv
  <2>3. \A v \in Workers : worker'[v].state = "idle" =>
          v # w /\ worker'[v].inbox = <<>> /\ worker'[v].outbox = <<>>
    BY <1>5, <1>6, Zenon DEF BacklogInv
  <2>4. \A i \in 1 .. Len(backlog) : worker'[backlog[i]].state # "idle"
    BY <1>5, <1>6, <2>1, Zenon DEF BacklogInv
  <2> QED BY <1>3, <2>2, <2>3, <2>4, Zenon DEF BacklogInv
<1>10. LineInv'
  <2>1. CASE w = conn /\ Linked
    <3>1. command \in Messages
      BY <1>1, CommandTyped
    <3>2. Linked' /\ Expecting' = Expecting /\ command' = command
      BY <1>3, <2>1, Zenon DEF Linked, Expecting, command
    <3>3. IF Expecting THEN Owing(p, command, boot) ELSE Silent(p)
      BY <2>1 DEF LineInv
    <3>4. worker'[conn'] = n /\ boot' = boot
      BY <1>3, <1>5, <2>1, Zenon
    <3> QED BY <1>7, <3>1, <3>2, <3>3, <3>4, Zenon DEF LineInv
  <2>2. CASE w # conn /\ Linked
    <3>1. conn \in Workers
      BY <2>2 DEF CoordTypeInv, LinkInv
    <3>2. worker'[conn'] = worker[conn] /\ boot' = boot
      BY <1>3, <1>5, <2>2, <3>1
    <3>3. Linked' /\ Expecting' = Expecting /\ command' = command
      BY <1>3, <2>2 DEF Linked, Expecting, command
    <3> QED BY <2>2, <3>2, <3>3, Zenon DEF LineInv
  <2>3. CASE ~Linked
    BY <1>3, <2>3, Zenon DEF LineInv, Linked
  <2> QED BY <2>1, <2>2, <2>3
<1> QED BY <1>9, <1>10

\* A worker connects for the only time: it is not yet linked nor in the backlog.
LEMMA ConnectStep ==
  ASSUME CoordTypeInv, LineInv, BacklogInv, NEW w \in Workers, worker_connects(w)
  PROVE  LineInv' /\ BacklogInv'
<1> DEFINE p == worker[w]
           out == <<message("Hello", 0, NoBoot), message("Register", 0, NoBoot)>>
           n == [p EXCEPT !.state = "joining", !.outbox = out]
<1>1. /\ worker \in [Workers -> Processes] /\ backlog \in Seq(Workers)
      /\ conn \in Workers \cup {NoWorker} /\ LinkInv /\ p \in Processes
  BY DEF CoordTypeInv, CoordTypeOK
<1>2. /\ p.state = "idle" /\ pc # "exited"
      /\ worker' = [worker EXCEPT ![w].state = "joining", ![w].outbox = out]
      /\ backlog' = Append(backlog, w)
      /\ UNCHANGED <<pc, boot, conn, position>>
  BY Zenon DEF worker_connects
<1>3. worker'[w] = n /\ \A v \in Workers : v # w => worker'[v] = worker[v]
  BY <1>1, <1>2, Zenon
<1>4. w # conn
  <2>1. CASE Linked
    BY <1>1, <1>2, <2>1 DEF LineInv, Bound
  <2>2. CASE ~Linked
    BY <1>1, <1>2, <2>2, CoordinatorAssumption DEF LinkInv, Linked
  <2> QED BY <2>1, <2>2
<1>5. n.state = "joining" /\ n.inbox = p.inbox /\ n.outbox = out
  BY <1>1 DEF Processes
<1>6. Waiting(n)
  <2>1. p.inbox = <<>>
    BY <1>2 DEF BacklogInv
  <2>2. Len(out) = 2
    OBVIOUS
  <2> QED BY <1>5, <2>1, <2>2 DEF Waiting
<1> HIDE DEF n
<1>7. LineInv'
  <2>1. CASE Linked
    <3>1. worker'[conn'] = worker[conn] /\ boot' = boot
      BY <1>1, <1>2, <1>3, <1>4, <2>1 DEF LinkInv
    <3>2. Linked' /\ Expecting' = Expecting /\ command' = command
      BY <1>2, <2>1 DEF Linked, Expecting, command
    <3> QED BY <2>1, <3>1, <3>2, Zenon DEF LineInv
  <2>2. CASE ~Linked
    BY <1>2, <2>2 DEF LineInv, Linked
  <2> QED BY <2>1, <2>2
<1>8. BacklogInv'
  <2>1. \A i \in 1 .. Len(backlog) :
          backlog[i] \in Workers /\ backlog[i] # conn /\ backlog[i] # w
    BY <1>1, <1>2 DEF BacklogInv
  <2>2. /\ Len(backlog') = Len(backlog) + 1 /\ backlog'[Len(backlog) + 1] = w
        /\ \A i \in 1 .. Len(backlog) : backlog'[i] = backlog[i]
        /\ Len(backlog) \in Nat
    BY <1>1, <1>2
  <2>3. \A i \in 1 .. Len(backlog') : i \in 1 .. Len(backlog) \/ i = Len(backlog) + 1
    BY <2>2
  <2>4. \A v \in Workers : v # conn' => Waiting(worker'[v])
    BY <1>2, <1>3, <1>6, Zenon DEF BacklogInv
  <2>5. \A v \in Workers : worker'[v].state = "idle" =>
          worker'[v].inbox = <<>> /\ worker'[v].outbox = <<>>
    BY <1>3, <1>5, Zenon DEF BacklogInv
  <2>6. \A i \in 1 .. Len(backlog') :
          backlog'[i] # conn' /\ worker'[backlog'[i]].state # "idle"
    <3> SUFFICES ASSUME NEW i \in 1 .. Len(backlog')
                 PROVE  backlog'[i] # conn' /\ worker'[backlog'[i]].state # "idle"
      BY Zenon
    <3>1. CASE i = Len(backlog) + 1
      BY <1>2, <1>3, <1>4, <1>5, <2>2, <3>1, Zenon
    <3>2. CASE i \in 1 .. Len(backlog)
      <4>1. backlog'[i] = backlog[i] /\ worker'[backlog[i]] = worker[backlog[i]]
        BY <1>3, <2>1, <2>2, <3>2, Zenon
      <4> QED BY <1>2, <2>1, <3>2, <4>1 DEF BacklogInv
    <3> QED BY <2>3, <3>1, <3>2
  <2>7. \A i, j \in 1 .. Len(backlog') : backlog'[i] = backlog'[j] => i = j
    <3>1. \A i, j \in 1 .. Len(backlog) : backlog[i] = backlog[j] => i = j
      BY Zenon DEF BacklogInv
    <3> QED BY <2>1, <2>2, <2>3, <3>1, Zenon
  <2> QED BY <2>4, <2>5, <2>6, <2>7, Zenon DEF BacklogInv
<1> QED BY <1>7, <1>8

\* Whoever acts, the linked worker owes the answer to the command under way and
\* nothing else, and the others wait.
LEMMA LineStep ==
  ASSUME CoordTypeInv, LineInv, BacklogInv, CoordNext
  PROVE  LineInv' /\ BacklogInv'
<1>0. /\ OwnTypes /\ LinkInv
      /\ worker \in [Workers -> Processes] /\ backlog \in Seq(Workers)
      /\ boot \in AllBoots /\ position \in Positions
  BY DEF CoordTypeInv, CoordTypeOK, OwnTypes
<1>c. 0 \in Positions
  BY RuntimeAssumption DEF Positions
<1>1. CASE Moves
  <2>1. /\ UNCHANGED <<boot, conn, backlog, worker>>
        /\ ~Expecting' /\ (Linked' => Linked)
        /\ ~Expecting \/ (pc = "await" /\ connection_lost(1))
    BY <1>1, MovesFrame, MovesLine
  <2>2. BacklogInv'
    BY <2>1, Zenon DEF BacklogInv
  <2>3. ASSUME pc = "await", connection_lost(1) PROVE Silent(worker[conn])
    <3>0. Linked /\ conn \in Workers
      BY <1>0, <2>3 DEF LinkInv, Linked
    <3>1. /\ Bound(worker[conn], boot) /\ worker[conn] \in Processes
          /\ worker[conn].state = "gone" /\ Len(worker[conn].outbox) < 1
      BY <1>0, <2>3, <3>0, Zenon DEF LineInv, connection_lost, Gone
    <3>2. worker[conn].outbox \in Seq(Messages) /\ Len(worker[conn].outbox) = 0
      BY <3>1 DEF Processes
    <3>3. worker[conn].outbox = <<>> /\ worker[conn].inbox = <<>>
      BY <3>1, <3>2, EmptyQueue, Zenon DEF Bound
    <3>4. AllQuiet(<<>>)
      BY DEF AllQuiet
    <3> QED BY <3>3, <3>4, Zenon DEF Silent
  <2>4. LineInv'
    BY <2>1, <2>3 DEF LineInv
  <2> QED BY <2>2, <2>4
<1>2. ASSUME exit PROVE LineInv' /\ BacklogInv'
  BY <1>0, <1>2, EndLine DEF exit, Linked
<1>3. CASE Crash
  BY <1>0, <1>3, EndLine DEF Crash, new_process, Linked
<1>4. CASE accept_first
  <2>1. CASE Len(worker[Head(backlog)].outbox) >= 2
    <3>1. backlog # <<>> /\ registered(Head(backlog), LabelBoot[Head(backlog)])
      BY <1>4, <2>1, Zenon DEF accept_first
    <3>2. LabelBoot[Head(backlog)] \in Boots
      BY <1>0, <3>1, BacklogHead, CoordinatorAssumption
    <3> QED BY <2>1, <3>1, <3>2, RegisteredLine, Zenon
  <2> QED BY <1>2, <1>4, <2>1, Zenon DEF accept_first
<1>5. CASE accept_next
  <2>0. backlog # <<>> /\ pc = "accept"
    BY <1>5, Zenon DEF accept_next
  <2>1. CASE Len(worker[Head(backlog)].outbox) >= 2
    <3>1. registered(Head(backlog), CounterBoot[boot_counter + 1])
      BY <1>5, <2>1, Zenon DEF accept_next
    <3>2. boot_counter + 1 \in 1 .. MaxRegistrations
      BY <1>0, <2>0, CoordinatorAssumption DEF OwnTypes, LinkInv
    <3>3. CounterBoot[boot_counter + 1] \in Boots
      BY <3>2, CoordinatorAssumption
    <3> QED BY <2>0, <2>1, <3>1, <3>3, RegisteredLine, Zenon
  <2>2. CASE ~(Len(worker[Head(backlog)].outbox) >= 2)
    <3>1. /\ pc' = "loop" /\ backlog' = Tail(backlog)
          /\ UNCHANGED <<boot, conn, worker>>
      BY <1>5, <2>2, Zenon DEF accept_next
    <3>2. LineInv'
      BY <2>0, <3>1 DEF LineInv, Linked, Expecting
    <3>3. BacklogInv'
      BY <1>0, <2>0, <3>1, BacklogTail, Zenon DEF BacklogInv
    <3> QED BY <3>2, <3>3
  <2> QED BY <2>1, <2>2
<1>6. ASSUME NEW pos \in Positions, run_segment(pos) PROVE LineInv' /\ BacklogInv'
  <2> DEFINE m == message("PublishProgress", pos, boot)
  <2>1. /\ pc = "loop" /\ pc' = "segment" /\ position' = pos /\ worker' = sent_to(conn, m)
        /\ UNCHANGED <<boot, conn, backlog>>
    BY <1>6 DEF run_segment
  <2>2. m \in Messages /\ Linked /\ ~Expecting
    BY <1>0, <2>1, MessageTyped DEF MessageTypes, Linked, Expecting
  <2>3. Bound(worker'[conn], boot) /\ Owing(worker'[conn], m, boot) /\ BacklogInv'
    BY <2>1, <2>2, SendStep
  <2>4. command' = m /\ Expecting'
    BY <2>1 DEF command, Expecting
  <2> QED BY <2>1, <2>3, <2>4, Zenon DEF LineInv
<1>7. CASE segment_lost
  BY <1>7, LostSegmentStep
<1>8. ASSUME pc \in {"segment", "await"}
      PROVE  /\ Linked /\ command \in Messages /\ Owing(worker[conn], command, boot)
             /\ Len(replies(command, boot)) = IF pc = "segment" THEN 2 ELSE 1
  <2>1. Linked /\ command \in Messages /\ Owing(worker[conn], command, boot)
    BY <1>0, <1>8, CommandTyped DEF Linked, LineInv, Expecting
  <2>2. /\ pc = "segment" => command.type = "PublishProgress"
        /\ pc = "await" => command.type = "Quiesced"
    BY DEF command, message
  <2>3. /\ pc = "segment" => replies(command, boot) =
             <<message("PublishProgress", command.position, boot),
               message("ReachSafePoint", command.position, boot)>>
        /\ pc = "await" => replies(command, boot) = <<message("Quiesced", 0, boot)>>
    BY <2>2 DEF replies
  <2>4. \A x, y : Len(<<x, y>>) = 2 /\ Len(<<x>>) = 1
    OBVIOUS
  <2> QED BY <1>8, <2>1, <2>3, <2>4
<1>9. CASE segment_reached
  <2>1. CASE exit
    BY <1>2, <2>1
  <2>2. CASE /\ pc' = "publish" /\ worker' = consumed(segment_replies)
             /\ UNCHANGED <<boot, conn, backlog>>
    <3>1. pc = "segment" /\ received(2) /\ worker' = consumed(2)
      BY <1>9, <2>2, Zenon DEF segment_reached, segment_replies
    <3>2. /\ Linked /\ command \in Messages /\ Owing(worker[conn], command, boot)
          /\ Len(replies(command, boot)) = 2 /\ 2 \in Nat \ {0}
          /\ UNCHANGED <<boot, conn, backlog>>
      BY <1>8, <2>2, <3>1
    <3>3. Bound(worker'[conn], boot) /\ Silent(worker'[conn]) /\ BacklogInv'
      BY <3>1, <3>2, TakeStep, Zenon
    <3> QED BY <2>2, <3>3, Zenon DEF LineInv, Expecting
  <2> QED BY <1>9, <2>1, <2>2, Zenon DEF segment_reached, reach_or_exit
<1>10. CASE segment_published
  <2>1. /\ pc = "publish" /\ pc' = "loop" /\ UNCHANGED <<boot, conn, backlog, worker>>
    BY <1>10, Zenon DEF segment_published
  <2>2. BacklogInv'
    BY <2>1, Zenon DEF BacklogInv
  <2> QED BY <2>1, <2>2 DEF LineInv, Linked, Expecting
<1>11. CASE drive_ask /\ ~drive_lost
  <2> DEFINE m == message("Quiesced", 0, boot)
  <2>1. /\ pc = "ask" /\ pc' = "await" /\ worker' = sent_to(conn, m)
        /\ UNCHANGED <<boot, conn, backlog>>
    BY <1>11 DEF drive_ask
  <2>2. m \in Messages /\ Linked /\ ~Expecting
    BY <1>0, <1>c, <2>1, MessageTyped DEF MessageTypes, Linked, Expecting
  <2>3. Bound(worker'[conn], boot) /\ Owing(worker'[conn], m, boot) /\ BacklogInv'
    BY <2>1, <2>2, SendStep
  <2>4. command' = m /\ Expecting'
    BY <2>1 DEF command, Expecting
  <2> QED BY <2>1, <2>3, <2>4, Zenon DEF LineInv
<1>12. CASE drive_await /\ ~drive_lost
  <2>1. /\ pc = "await" /\ received(1) /\ worker' = consumed(1) /\ pc' = "capture"
        /\ UNCHANGED <<boot, conn, backlog>>
    BY <1>12, Zenon DEF drive_await
  <2>2. /\ Linked /\ command \in Messages /\ Owing(worker[conn], command, boot)
        /\ Len(replies(command, boot)) = 1 /\ 1 \in Nat \ {0}
    BY <1>8, <2>1
  <2>3. Bound(worker'[conn], boot) /\ Silent(worker'[conn]) /\ BacklogInv'
    BY <2>1, <2>2, TakeStep, Zenon
  <2> QED BY <2>1, <2>3, Zenon DEF LineInv, Expecting
<1>13. CASE begin_declared
  <2> DEFINE m == message("BeginExecution", 0, boot)
  <2>1. /\ pc = "declare" /\ pc' = "loop" /\ worker' = sent_to(conn, m)
        /\ UNCHANGED <<boot, conn, backlog>>
    BY <1>13 DEF begin_declared
  <2>2. m \in Messages /\ Linked /\ ~Expecting /\ Quiet(m)
    <3>1. m \in Messages /\ m.type = "BeginExecution"
      BY <1>0, <1>c, MessageTyped DEF MessageTypes, message
    <3> QED BY <2>1, <3>1 DEF Linked, Expecting, Quiet
  <2>3. Bound(worker'[conn], boot) /\ Silent(worker'[conn]) /\ BacklogInv'
    BY <2>1, <2>2, SendStep
  <2> QED BY <2>1, <2>3, Zenon DEF LineInv, Expecting
<1>14. CASE (drive_reach /\ exit) \/ shutdown
  BY <1>2, <1>14 DEF shutdown
<1>15. ASSUME NEW w \in Workers, worker_receives(w) \/ worker_dies(w) \/ worker_connects(w)
       PROVE  LineInv' /\ BacklogInv'
  BY <1>15, ReceiveStep, DieStep, ConnectStep, Zenon
<1> QED
  BY <1>1, <1>3, <1>4, <1>5, <1>6, <1>7, <1>9, <1>10, <1>11, <1>12, <1>13, <1>14, <1>15,
     CoordStepCases, Zenon

\* The worker that owes no more than the answer to the command under way is in step.
LEMMA LineInStep == CoordTypeInv /\ LineInv => InStep
<1> SUFFICES ASSUME CoordTypeInv, LineInv PROVE InStep
  OBVIOUS
<1>1. pc = "loop" => worker[conn].outbox = <<>>
  BY DEF LineInv, Linked, Expecting, Silent
<1>2. ASSUME Expecting
      PROVE  worker[conn].outbox = SubSeq(replies(command, boot), 1, Len(worker[conn].outbox))
  <2>1. OwnTypes /\ boot \in AllBoots
    BY DEF CoordTypeInv, CoordTypeOK, OwnTypes
  <2>2. Owing(worker[conn], command, boot)
    BY <1>2 DEF LineInv, Linked, Expecting
  <2>3. command \in Messages
    BY <2>1, CommandTyped
  <2>4. Begins(worker[conn].outbox, replies(command, boot))
    BY <2>1, <2>2, <2>3, RepliesTyped, BeginsFacts, Zenon DEF Owing
  <2> QED BY <2>4 DEF Begins
<1>3. pc = "segment" => command = message("PublishProgress", position, boot)
  BY DEF command
<1>4. pc = "await" =>
        replies(command, boot) = replies(message("Quiesced", position, boot), boot)
  BY DEF command, replies, message
<1> QED BY <1>1, <1>2, <1>3, <1>4, Zenon DEF InStep, Expecting

\* Nobody is linked at first, and nobody waits.
LEMMA LineInit == CoordInit => LineInv /\ BacklogInv
<1> SUFFICES ASSUME CoordInit PROVE LineInv /\ BacklogInv
  OBVIOUS
<1>1. /\ ~Linked /\ backlog = <<>>
      /\ \A w \in Workers : /\ worker[w].state = "idle"
                            /\ worker[w].inbox = <<>> /\ worker[w].outbox = <<>>
  BY DEF CoordInit, Linked
<1>2. 1 .. Len(backlog) = {} /\ \A w \in Workers : Waiting(worker[w])
  BY <1>1, EmptyLen, Zenon DEF Waiting
<1> QED BY <1>1, <1>2, Zenon DEF LineInv, BacklogInv

\* The inductive invariant behind InStep.
LineInvariant == CoordTypeInv /\ LineInv /\ BacklogInv

\* Every step keeps it.
LEMMA LineInvariantStep == LineInvariant /\ [CoordNext]_coordVars => LineInvariant'
<1> SUFFICES ASSUME LineInvariant, [CoordNext]_coordVars PROVE LineInvariant'
  OBVIOUS
<1>1. CoordTypeInv'
  BY CoordTypeStep DEF LineInvariant
<1>2. CASE CoordNext
  BY <1>1, <1>2, LineStep DEF LineInvariant
<1>3. CASE UNCHANGED coordVars
  <2>1. UNCHANGED <<pc, boot, conn, backlog, position, worker>>
    BY <1>3 DEF coordVars
  <2>2. LineInv'
    BY <2>1 DEF LineInvariant, LineInv, Linked, Expecting, command
  <2>3. BacklogInv'
    BY <2>1, Zenon DEF LineInvariant, BacklogInv
  <2> QED BY <1>1, <2>2, <2>3 DEF LineInvariant
<1> QED BY <1>2, <1>3

\* Whatever dies, reconnects and is replaced, no reply is ever taken for the answer
\* to another command: for any number of workers, registrations and restarts, and
\* although the coordinator never looks at the type or the boot id of a reply.
THEOREM InStepHolds == CoordSpec => []InStep
<1>1. CoordInit => LineInvariant
  BY CoordTypeInit, LineInit DEF LineInvariant
<1>2. LineInvariant => InStep
  BY LineInStep DEF LineInvariant
<1> QED
  BY <1>1, <1>2, LineInvariantStep, PTL DEF CoordSpec

==============================================================================
