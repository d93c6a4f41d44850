# Preemption Fabric: a TLA+ verification project

Preemption Fabric is a C++20 library that takes running work from live execution
to a proven resumable boundary: quiesce at a safe point, make state durable,
release resources, fence the old attempt, resume under fresh authority. This
project models the code, model-checks it with TLC on small instances, and proves
its main properties with TLAPS for every value of the constants.

## The system

| part | source | module |
|---|---|---|
| lifecycle state machine | `lifecycle/lifecycle.hpp`, `core/enums.hpp` | `Lifecycle` |
| `PreemptionRuntime` | `src/runtime.cpp`, `runtime.hpp` | `PreemptionRuntime` |
| execution and checkpoint fabrics | `adapters/reference.hpp` | `PreemptionRuntime` (`authority`, `captures`, ...) |
| resource broker | `adapters/reference.hpp` | `ResourceBroker` |
| dependency and quiescence fabrics | `adapters/reference.hpp` | parameters of `revalidate`, `report_quiesced` |
| snapshot, store, recovery | `src/runtime.cpp`, `src/persistence/store.cpp` | `Persistence` |
| wire protocol and TCP connection | `src/protocol/framing.cpp`, `src/protocol/connection.cpp` | `TcpConnection` |
| coordinator and worker processes | `src/coordinator/*.cpp` | `Coordinator` |
| migration evaluation, priority-inversion evidence | `src/runtime.cpp` 596-689 | `PreemptionRuntime` (operators) |

Two modules are abstract: `SafePreemption` is what the runtime promises to the
owner of an execution, `MessageChannel` what a connection promises to its ends.
`Coordinator` composes the runtime, the file, the processes and the connections
between them.

The runtime owns one execution at a time. Workers declare and reach safe points
and publish progress; a coordinator drives the preemption method by method; the
runtime asks the sibling fabrics, which the in-process `ReferenceAdapters` stand
for. The runtime can be saved to a file and a new process can recover from it.

## How the modules correspond to the code

**Lifecycle** has no variables: the 26 states, the edges of `frontier`, the
terminal and the durable classes.

**ResourceBroker** is the accounting of one contract: `contract_gen_`,
`contract_execution_`, `reserved_`, `released_`. `release_all_leases` is the loop
in `PreemptionRuntime::request_release`, which ignores the broker's answers.
`Generation_advance` wraps as the code's does.

**PreemptionRuntime** has a variable for each field that some guard reads. Every
public method holds the one mutex for its whole body, so a method is one action,
and threads interleave between methods. A refused call changes nothing and is a
stuttering step. What a fabric answers is a parameter of the action that asks, so
it may change between any two calls. Results of captures stay in `captures` and
may be reported late, twice or in any order. `Generation::next` saturates at
`MaxGen`. An `ExecutionId` and its `AttemptId`, and the two generations that
`start_execution` sets together, are one value each: every comparison in the
runtime compares both. Left out are the fields no guard reads (workload and policy ids,
`resumed_`, `history_`, ...), text and evidence records.

History variables record what the code does not: `proved` (boundaries reported since
the request was admitted), `quiesced_by` (the incarnation whose quiescence is on
record), `capture_owed` (it quiesced at a safe point that requires a capture, and
none has been accepted since), `fenced_generation`, `granted`, `live` (a worker is
connected to this process), and in `Coordinator` `acked_by` and `outcome`.
`report_state_captured` takes whatever result its caller hands over; the model lets
the caller hand over any result that the fabric has given out, and no others.

**Persistence** adds the file. `decode(encode(s))` returns `s` when
`validate_state` accepts it, and a damaged file is refused; so the bytes are an
image or `NoImage`. A restart starts fresh adapters, loads the image if it is
valid, and loses the workers, which exit when the connection closes.
`crash_in_save` is a crash between the truncation and the write. The broker of
the new process starts empty; the coordinator's own contract is a `set_contract`
after it.

**SafePreemption** knows five phases, the three boundaries of a preemption, who
holds authority and the durable progress. `PreemptionRuntime` maps to it
(`Safe`): the 26 states fall into the phases, the evidence in `proved` are the
boundaries. Every method is one step of `SafePreemption` or none. Two of its steps
are weaker than one would write from the documentation, because the code is:
`End` is possible while preempted (`complete()`, see the findings) and an
execution that ended before any request may still be asked to preempt.

**TcpConnection** is one direction of a connection. The stream consists of cells,
bytes known by their frame and their place in it; what the fields say is the first
check of the decoder that fails. `write_all` and `recv` move pieces of any size,
the sockets hold a bounded number of cells, the writer may close or die between
two pieces. `pop` has the checks in the code's order: `header_ok`, `incomplete`,
`checksum_ok`, `decode_body`. It does not compare the type in the header with that
of the body, as the one-shot `decode_frame` does; the fault `type` stands for such
a frame, and it is delivered. `MessageChannel` is what remains for the two ends.

**Coordinator** has one step per call that the coordinator makes, because it
ignores most answers and other processes act between two calls. `call(accepted, A)`
is such a call: it does `A` when the early returns of the method let it pass, and
otherwise changes nothing. `pc` names the place
in `main`, `run_segment`, `drive_preemption` or `drive_resume`. Connections are
message queues, which `TcpConnection` justifies; a process that dies loses a suffix
of what it has sent. `worker_receives` is one round of the worker's loop. The
controller may send any command at any time, or go away. `reach_safe_point`
throws for an undeclared safe point, which nobody catches: `reach_or_exit`. A crash
of the coordinator ends its workers and is possible at every step, in `save` with
the file truncated. A worker's boot id is a hash of its label at the first
registration and a counter later, and the counter starts over with the process.
On one listener the first connection is taken to be a worker's and the second the
controller's, as the tests launch them.

## Runs

Six runs pass.

| run | states | question |
|---|---|---|
| `runtime_full` | 285 thousand | everything at once, all fabrics active: fencing, accounting, inversion advice, a lifecycle that only advances |
| `runtime_control` | 639 thousand | two executions and incarnations, repeated preemptions: boundaries reported since the request, fresh authority, real checkpoints, migration that agrees with resume, nothing held |
| `runtime_progress` | 387 thousand | all publications against preemption: monotonic, reached, frozen while preempted; the runtime implements `SafePreemption` |
| `persistence` | 709 thousand | save, restart and crash anywhere: progress and request are kept, and the authority that recovery hands back moves no committed boundary |
| `connection` | 313 thousand | every cut of the stream, every fault: only intact frames come out, the buffer is bounded, the connection is a `MessageChannel`, intact messages arrive |
| `coordinator` | 154 thousand | lost, replaced and late workers, crashes and recovery: replies stay in step, drive and runtime stay at the same stage, a lost worker is no safe preemption, what was reported as safe is on file and can be loaded, commands end, drives preempt |

`runtime_control` and `runtime_progress` use sub-relations of `Next` (`MCRuntime`)
that leave out a part of the environment and take larger sets for the rest.
`NothingHeldOncePreempted` needs that restriction: it holds while only the runtime
touches the contract. A broker that calls `set_contract` or `reacquire` on its own
may reserve units for a preempted execution, which is its right. `MCPersistence`
starts its one execution once, registers a fresh incarnation after each restart, and
lets a worker that has been told to quiesce reach no further safe point.

`connection` sends frames with at most one fault. `coordinator` asks for segments
of one length and replays requests of one generation.

Six runs are expected to end in a counterexample. Each states one sentence of the
documentation, a comment or a test that the code does not keep:

| run | the code |
|---|---|
| `completion_of_preempted` | `complete()` turns PREEMPTED into ABORTED |
| `snapshot_round_trip` | some snapshots are refused by the library's own decoder |
| `restart_capture` | a recovered preemption goes on to the release without the capture that its safe point required |
| `restart_quiescence` | a recovered preemption goes on with the quiescence of a dead worker |
| `receive_blocks` | the `receive` that meets a violation waits for more data before it reports it |
| `restart_boundary` | after recovery a worker moves the durable progress of a preempted execution |

The quotations, with their lines, are in `PROJECT.json` under `findings`.

### Observations that are not runs

Reading and modelling the code showed more, of the same origin as the findings.

- `explain_resume_blockers` and `revalidate` block on STALE and MISSING dependencies
  only, so UNKNOWN counts as eligible, where `src/README.md` (line 60) says
  "`UNKNOWN` never becomes `RESUME_ELIGIBLE`".
- A capture result of an earlier, cancelled preemption, or of an earlier execution,
  with the expected generation makes the current one STATE_DURABLE.
  `CheckpointIsReal` still holds: it says that the checkpoint exists, not whose it
  is. The coordinator reports only the capture of its own drive
  (`ReportedIsSaved`).
- The migration evaluation may call a destination compatible for a checkpoint that
  the fabric has superseded. `MigrationAgreesWithResume` allows for it.
- `current_safe_point_` survives `start_execution`, so the last execution's boundary
  authorizes quiescence of the next.
- An incarnation registered between QUIESCED and the commit inherits its
  predecessor's quiescence, without a restart as with one (`restart_quiescence`).
  The coordinator does neither: see `SafeOnlyIfAcknowledged` and `InStage`.
- `BoundariesSinceRequest` says when a boundary was reported, not by whom: the two
  items above are compatible with it.
- A crash inside `save` loses the file, and with it every preemption reported
  before: `ReportedIsSaved` speaks of what is on file while the process runs.
- `confirm_resumed` leaves `attempt_generation_` as it was, so recovering a RESUMED
  execution authorizes the generation that its preemption fenced:
  `FreshResumeAuthority` is a property of one process.
- The second capture of a runtime expects checkpoint generation 2, the reference
  fabric stays at 1, and the coordinator never advances it: an execution that
  resumed cannot be preempted again by it. `DrivePreempts` says so in its premise.
- After a segment the first `begin_quiesce` of a drive does not defer, as its
  comment says, but quiesces; the drive succeeds all the same.

### Bounds

`MaxGen` 1 or 2 reaches saturation and wrap-around as well as an increment. Two
executions are enough for state left by a former one, two incarnations for a
replaced worker, two captures for a stale result next to a current one, positions
up to 2 for a speculative position strictly between two durable ones. Requests of
a foreign epoch occur in `runtime_full`; they are refused, and the other runs leave
them out. In `persistence` the generation is bounded by 1: its properties compare
no generations. Executions and incarnations are interchangeable, so the symmetry is
sound; no liveness is checked with it, only action properties `[][A]_vars` and a
refinement without fairness, whose violations are single steps and whose mapping
names no execution and no incarnation. Deadlock checking is on
for the runtime and its persistence: some method or registration is always
possible. A connection may be closed and drained, and the coordinator may have
exited or wait for a worker that nobody launches: there it is off, and liveness
says what must not stop.

`connection` has a header of two cells, a trailer of one and bodies of up to one
more than allowed, so every field can be split between reads and a read can hold
more than a frame; three frames are a delivered one, a broken one and one behind
it. In `coordinator` two workers, one repeated registration and one restart are a
lost worker with its successor, before and after recovery; `MaxUnread` bounds the
`BEGIN_EXECUTION` commands, which no worker answers, and the captures that are left
bound them too: both are guards of `begin_execution` that the code does not have. One capture is all that the
coordinator can use (above); with two, 728 thousand states, the same properties
hold, but the run takes eight minutes.

### Fairness and liveness

The library starts no threads: nothing in it makes a caller continue, and no
fairness is assumed for `PreemptionRuntime` and `Persistence`.

- `TcpFairness` is weak fairness of `write_all` and of the reader: both are loops
  over blocking calls, which return when there is room or data. It obliges nobody
  to send or to close. The reader's part assumes a process that calls `receive`
  again, as the worker's loop does. `EventuallyDelivered` and `ViolationReported`
  are stated under it.
- `CoordFairness` is weak fairness of the coordinator's steps inside a command and
  of each worker's loop: the operating system schedules them. Commands, launches,
  deaths and crashes are free. `CommandCompletes` and `DrivePreempts` are stated
  under it.

## Proofs

Eight modules prove, from the named assumptions on the constants alone (distinct
null values, a positive `MaxGen`, positive sizes, natural bounds), every safety
property of the passing runs.

**RuntimeProofs**, about `Spec`:

- `TypeInv` is the type invariant with the accounting equation. The two need each
  other: `released + reserved` stays within `Units` only because it equals
  `granted`.
- `ControlInv` carries the boundaries, the fencing and the fresh authority. The
  boundaries of a stage are inductive only together with those of all earlier stages,
  and freshness only with "no generation is granted while fenced".
  `RecommendationHolds` follows from the fencing.
- `RecordInv` carries the checkpoint and the progress, and that SAFE_POINT_REACHED
  implies a current safe point, from which `QuiesceHolds` follows.
- `MigrationHolds` needs of `RecordInv` that the resources of a preempted execution
  were released: the evaluation does not look at it, the resume does.
- The action properties `FrozenHolds`, `MonotonicHolds`, `QuiesceHolds` and
  `AdvancesHolds` follow from these invariants, action by action.
- `NothingHeldHolds` is about `QuietSpec`, in which the broker acts on its own only
  while no preemption is under way. Without that it is false.

**SafePreemptionProofs**: `RefinementHolds`, every step of the runtime is a step of
`SafePreemption` or none. It rests on `TypeInv`, `ControlInv` and `RequestInv`: a
preemption under way has its request on record.

**PersistenceProofs**, about `PersistSpec`: `PersistTypeInv` types the image as
well. `BackedInv` says of the running runtime and of the image that each stage has
its flags and its request: only with the second half does a restart preserve the
first. `FrozenAcrossRestartsHolds` assumes `FreshIncarnations`, that whoever registers
has a boot id other than the one the authority is bound to, and carries
`ForeignInv`: a restored authority over a committed preemption belongs to nobody who
has registered. Without the assumption it is false: the coordinator derives boot ids
from labels and a counter that starts over, which is what `restart_boundary` shows.
The `restart_*` runs show what does not survive a restart.

**ConnectionProofs**, about `TcpSpec`, for all sizes and any number of frames:
`TcpInv` says that, before a violation, buffer, sockets and unwritten rest are
together the frames sent and not received, one behind the other without a gap
(`StreamInv`, by a function from frames to their ends), that the frames received
are the first ones sent, in order, and that the buffer holds less than a frame
when `recv` is called. The frame at the front of the buffer then always starts at
its first cell, which is what makes `pop` right. `IntactHolds`, `BufferHolds` and
`ChannelHolds` (the refinement) follow.

**CoordinatorProofs**, **LineProofs**, **StageProofs** and **ReportProofs**, about `CoordSpec`, for any
number of workers, registrations, commands and restarts. Each has an invariant:

- `CoordTypeInv` types the processes and their queues. It needs `LinkInv` (a process
  has its contract before it accepts anybody, and the runtime knows the boot id of
  the worker it is linked to): it makes the boot id in every call one that the
  runtime's methods accept as an input. With it every step of the coordinator is a
  step of `Persistence` or none, so what `PersistenceProofs` says of request and
  saved progress holds for the composed system (`RecoveryHolds`).
- `LineInvariant`, for `InStepHolds`. A reply in step is not inductive: the next
  command could meet an old answer. `LineInv` says that the linked worker has yet to
  read the command under way, or has answered it and said nothing else, or died
  with a beginning of that answer; and that between commands it has nothing to say.
  `BacklogInv` says that every other worker waits for its turn at most once.
- `StageInvariant`, for `InStageHolds`, `SafeHolds` and `SavedImageHolds`, which need
  each other. The drive ignores what its calls answer, so that a call was accepted
  must follow from where the drive is (`InStage`, `ReadyInv`). The safe point is
  declared before anything is asked (`ScopeInv`), so the exception in
  `reach_safe_point` leaves no preemption half done. A capture is always required
  (`CaptureInv`), so no drive gets to STATE_DURABLE without a checkpoint. From the
  acknowledgement to the commit one worker is linked (`AckInv`). Only committed
  preemptions are saved (`ImageInv`), so a restart recovers PREEMPTED or nothing
  under way; `BackedInv` gives the recovered state its request.

- `ReportInv`, for `ReportedHolds`, on top of `StageInvariant`. That the file agrees
  with the runtime is not inductive: between commands workers publish, register and
  are asked for segments. `ReportInv` adds that nobody has authority over a
  preemption that was reported, so no publication passes, and that from
  STATE_DURABLE on the checkpoint is the last capture.

TLC confirms `LineInvariant` and `StageInvariant` on the instance of `coordinator`.

Only model-checked is liveness (`EventuallyDelivered`, `CommandCompletes`,
`DrivePreempts`), which is out of the prover's reach, and the counterexamples.

## Not modelled

- The bytes: `encode_body`, the image's layout, CRC-32, the byte readers. They are
  sequential, tested over their inputs, and the models keep what the rest can tell
  apart. `decode_frame`, `FrameDecoder::reset` and `read_exact` are used by no
  process.
- A TCP reset that discards bytes already received, below the messages lost in
  `worker_dies`; `SIGPIPE`, which ends a process as a crash does.
- RESUMED and SHUTDOWN of the worker's protocol, which the coordinator never sends.
- The workload and failure fabrics, which are sinks; the inspection tool, examples,
  benchmarks and the CUDA proof, which are clients.
- Errors of the disk: the coordinator ignores what `save` answers. A save is written
  as a whole or, after a crash, not at all.
- A fabric that calls `set_authoritative` on its own. `FencedWhilePreempted` is about
  the runtime's own calls and a fabric that may revoke; `begin_execution` of the
  coordinator repeats that call with the values that `start_execution` has set.
- Reads without the mutex (`is_attempt_authoritative`, the adapters' setters): a
  method is one step.
