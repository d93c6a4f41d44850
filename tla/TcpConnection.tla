---------------------------- MODULE TcpConnection ----------------------------
(***************************************************************************)
(* One direction of a TcpConnection (src/protocol/connection.cpp) with the *)
(* FrameDecoder of its receiving end (src/protocol/framing.cpp).  The      *)
(* stream is a sequence of cells; a cell is a byte known by the frame it   *)
(* was sent in and its place there.  What the fields of a frame say is     *)
(* abstracted to what the decoder can tell apart: the length declared in   *)
(* the header and the first check that fails.  A frame may come from a     *)
(* peer that does not speak the protocol, so any of the checks may fail.   *)
(*                                                                         *)
(* write_all and recv move the cells in pieces of any size, the writer may *)
(* stop between two pieces and the socket buffers hold SocketBuffer cells. *)
(* The whole of receive but its recv runs without waiting: receive is one  *)
(* step up to the next recv.                                               *)
(***************************************************************************)
EXTENDS Naturals, Sequences

CONSTANTS
  HeaderSize,     \* kFrameHeaderSize
  TrailerSize,    \* the CRC-32 after the body
  MaxFrameBody,   \* kMaxFrameBody
  RecvSize,       \* the size of the buffer receive hands to recv
  SocketBuffer,   \* bound: cells the sockets hold between the two ends
  MaxFrames       \* bound: frames sent

ASSUME ConnectionAssumption ==
  /\ HeaderSize \in Nat \ {0} /\ TrailerSize \in Nat \ {0}
  /\ MaxFrameBody \in Nat
  /\ RecvSize \in Nat \ {0} /\ SocketBuffer \in Nat \ {0}
  /\ MaxFrames \in Nat

\* What the decoder finds wrong with a frame.  "type" is a header that names
\* another message type than the body.
Faults == {"none", "header", "crc", "body", "type"}

\* body_len is what the header declares, body what follows it.
Frames == [fault : Faults, body_len : 0 .. MaxFrameBody + 1, body : 0 .. MaxFrameBody + 1]

VARIABLES
  sent,       \* the frames the writer has begun to send
  pending,    \* cells of the last one that write_all has not handed to the socket
  wire,       \* cells in the sockets
  closed,     \* the writer has closed, or died
  buffer,     \* buffer_ of the FrameDecoder
  fatal,      \* fatal_
  at,         \* where the reader is: "idle", or inside receive at "loop" or "recv"
  received    \* history: the frames popped, by their place in sent

connVars == <<sent, pending, wire, closed, buffer, fatal, at, received>>
writerVars == <<sent, pending, closed>>

Cells == (1 .. MaxFrames) \X Nat

TcpTypeOK ==
  /\ sent \in Seq(Frames)
  /\ pending \in Seq(Cells) /\ wire \in Seq(Cells) /\ buffer \in Seq(Cells)
  /\ closed \in BOOLEAN /\ fatal \in BOOLEAN
  /\ at \in {"idle", "loop", "recv"}
  /\ received \in Seq(1 .. MaxFrames)
  /\ Len(received) <= Len(sent) /\ Len(sent) <= MaxFrames
  /\ Len(wire) <= SocketBuffer

TcpInit ==
  /\ sent = <<>> /\ pending = <<>> /\ wire = <<>> /\ closed = FALSE
  /\ buffer = <<>> /\ fatal = FALSE
  /\ at = "idle" /\ received = <<>>

------------------------------------------------------------------------------
(* The writing end *)

\* encode_frame lays out header, body and trailer; it lets a body through that
\* is longer than MaxFrameBody.
encode_frame(n, f) ==
  [k \in 1 .. HeaderSize + f.body + TrailerSize |-> <<n, k>>]

send(f) ==
  /\ ~closed /\ pending = <<>> /\ Len(sent) < MaxFrames
  /\ sent' = Append(sent, f)
  /\ pending' = encode_frame(Len(sent) + 1, f)
  /\ UNCHANGED <<wire, closed, buffer, fatal, at, received>>

write_all ==
  /\ ~closed
  /\ \E k \in 1 .. Len(pending) :
       /\ Len(wire) + k <= SocketBuffer
       /\ wire' = wire \o SubSeq(pending, 1, k)
       /\ pending' = SubSeq(pending, k + 1, Len(pending))
  /\ UNCHANGED <<sent, closed, buffer, fatal, at, received>>

close ==
  /\ ~closed
  /\ closed' = TRUE
  /\ UNCHANGED <<sent, pending, wire, buffer, fatal, at, received>>

------------------------------------------------------------------------------
(* The reading end *)

\* The frame whose header is at the front of the buffer.
front == Head(buffer)[1]

total(f) == HeaderSize + f.body_len + TrailerSize

header_ok_any_length(f) == f.fault # "header"
\* Magic and version, and a declared length within bounds.
header_ok(f) == f.fault # "header" /\ f.body_len <= MaxFrameBody

incomplete_unless_longer(f) == Len(buffer) <= total(f)
incomplete(f) == Len(buffer) < total(f)

checksum_unchecked(f) == TRUE
\* The CRC over header and declared body agrees with the four bytes behind them.
checksum_ok(f) == f.body = f.body_len /\ f.fault # "crc"

\* Every field is there and in range, and nothing follows the last.
decode_body(f) == f.fault # "body"

body_ok(f) == checksum_ok(f) /\ decode_body(f)

resynchronise == buffer' = <<>> /\ UNCHANGED fatal
set_fatal == fatal' = TRUE /\ buffer' = <<>>

erase_nothing(f) == UNCHANGED buffer
erase(f) == buffer' = SubSeq(buffer, total(f) + 1, Len(buffer))

\* FrameDecoder::pop.  Without a whole frame, and after a frame that fails a
\* check, receive goes on to its recv.  The type in the header is not looked at.
pop ==
  LET f == sent[front]
      nullopt == at' = "recv" /\ UNCHANGED received
  IN IF Len(buffer) < HeaderSize + TrailerSize
       THEN nullopt /\ UNCHANGED <<buffer, fatal>>
     ELSE IF ~header_ok(f)
       THEN nullopt /\ set_fatal
     ELSE IF incomplete(f)
       THEN nullopt /\ UNCHANGED <<buffer, fatal>>
     ELSE IF ~body_ok(f)
       THEN nullopt /\ set_fatal
     ELSE /\ at' = "idle"
          /\ received' = Append(received, front)
          /\ erase(f)
          /\ UNCHANGED fatal

receive ==
  /\ at = "idle"
  /\ at' = "loop"
  /\ UNCHANGED <<writerVars, wire, buffer, fatal, received>>

\* One round of the loop in receive, up to its recv.
receive_round ==
  /\ at = "loop"
  /\ IF fatal THEN at' = "idle" /\ UNCHANGED <<buffer, fatal, received>>
              ELSE pop
  /\ UNCHANGED <<writerVars, wire>>

feed(cells) == buffer' = buffer \o cells

fits(k) == k <= RecvSize

recv ==
  /\ at = "recv"
  /\ \E k \in 1 .. Len(wire) :
       /\ fits(k)
       /\ feed(SubSeq(wire, 1, k))
       /\ wire' = SubSeq(wire, k + 1, Len(wire))
  /\ at' = "loop"
  /\ UNCHANGED <<writerVars, fatal, received>>

recv_closed ==
  /\ at = "recv" /\ closed /\ wire = <<>>
  /\ at' = "idle"
  /\ UNCHANGED <<writerVars, wire, buffer, fatal, received>>

------------------------------------------------------------------------------
Writer == write_all \/ close \/ \E f \in Frames : send(f)
Reader == receive \/ receive_round \/ recv \/ recv_closed

TcpNext == Writer \/ Reader

\* write_all and receive loop until they are done: neither end stops inside one.
\* Nothing obliges the writer to send, or to close.
TcpFairness == WF_connVars(write_all) /\ WF_connVars(Reader)

TcpSpec == TcpInit /\ [][TcpNext]_connVars /\ TcpFairness

------------------------------------------------------------------------------
(* What a connection promises *)

\* A frame that passes every check of pop.
intact(f) ==
  f.fault \in {"none", "type"} /\ f.body_len <= MaxFrameBody /\ f.body = f.body_len

\* However the stream is cut into pieces, only intact frames come out, and the
\* decoder gives up only at a frame that is not.
OnlyIntactDelivered ==
  /\ \A i \in 1 .. Len(received) : intact(sent[received[i]])
  /\ fatal => ~intact(sent[Len(received) + 1])

\* "Bounded internal buffering": whatever lengths the peer declares, the buffer
\* never outgrows the longest frame by more than one recv.
BufferBounded ==
  Len(buffer) < HeaderSize + MaxFrameBody + TrailerSize + RecvSize

\* The connection is a MessageChannel of frames: framing, partial writes and
\* partial reads are not observable.
Channel ==
  INSTANCE MessageChannel WITH
    Messages <- Frames,
    queue <- SubSeq(sent, Len(received) + 1, Len(sent)),
    last <- IF received = <<>> THEN <<>> ELSE <<sent[received[Len(received)]]>>,
    broken <- fatal

ImplementsChannel == Channel!ChannelSpec

\* A message is not lost while the connection lives: if everything up to it is
\* intact and the reader keeps calling receive, it arrives, unless the writer
\* dies first.
EventuallyDelivered ==
  \A n \in 1 .. MaxFrames :
    (n <= Len(sent) /\ \A i \in 1 .. n : i \in DOMAIN sent => intact(sent[i]))
      ~> (n <= Len(received) \/ closed)

------------------------------------------------------------------------------
(* What the documentation promises and the code does not keep *)

\* receive "Returns false only on connection close or a protocol violation.": a
\* violation is one of the two cases in which the call returns false, so once the
\* decoder has seen one, the call that saw it returns.
ViolationReported == fatal ~> at = "idle"
==============================================================================
