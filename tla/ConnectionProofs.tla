-------------------------- MODULE ConnectionProofs --------------------------
(***************************************************************************)
(* Proofs about TcpConnection for every frame size, every way of cutting   *)
(* the stream into pieces and any number of frames.                        *)
(***************************************************************************)
EXTENDS TcpConnection, SequenceTheorems, TLAPS

\* The frames r + 1 .. N, of z[n] cells each, follow each other in the L cells of s
\* without a gap, each from its first cell to its last; frame n ends at e[n].
Layout(s, L, z, r, N, e) ==
  /\ e[r] = 0 /\ e[N] = L
  /\ \A n \in r .. N : e[n] \in 0 .. L
  /\ \A m, n \in r .. N : m <= n => e[m] <= e[n]
  /\ \A n \in r + 1 .. N :
       /\ e[n] = e[n - 1] + z[n]
       /\ \A k \in 1 .. z[n] : s[e[n - 1] + k] = <<n, k>>

sizes == [n \in 1 .. Len(sent) |-> HeaderSize + sent[n].body + TrailerSize]
stream == buffer \o (wire \o pending)

\* Before a violation, what is under way is what has been sent and not received.
StreamInv ==
  ~fatal => \E e : Layout(stream, Len(stream), sizes, Len(received), Len(sent), e)

\* What has been received are the first frames sent; a violation concerns the
\* next.
OrderInv ==
  /\ \A i \in 1 .. Len(received) : received[i] = i
  /\ fatal => Len(received) < Len(sent)

\* In recv the buffer holds less than one frame.
BufferInv ==
  /\ BufferBounded
  /\ at = "recv" => Len(buffer) < HeaderSize + MaxFrameBody + TrailerSize

TcpInv == TcpTypeOK /\ StreamInv /\ OrderInv /\ OnlyIntactDelivered /\ BufferInv

\* p and q are the first k cells of b and the others; put behind a one after the
\* other they are b again.
Split(a, b, c, k, p, q) ==
  /\ p \in Seq(Cells) /\ q \in Seq(Cells)
  /\ Len(p) = k /\ Len(q) = Len(b) - k
  /\ (a \o p) \o q = a \o b
  /\ (a \o p) \o (q \o c) = a \o (b \o c)

\* Concatenation of cells is associative.
LEMMA CellsAssociative ==
  \A x, y, z \in Seq(Cells) : (x \o y) \o z = x \o (y \o z)
<1> SUFFICES ASSUME NEW x \in Seq(Cells), NEW y \in Seq(Cells), NEW z \in Seq(Cells)
             PROVE  (x \o y) \o z = x \o (y \o z)
  OBVIOUS
<1> QED BY SMTT(30)

\* Cells that move from the front of one sequence to the end of another leave the
\* whole as it is.
LEMMA MoveCells ==
  ASSUME NEW a \in Seq(Cells), NEW b \in Seq(Cells), NEW c \in Seq(Cells),
         NEW k \in 1 .. Len(b)
  PROVE  Split(a, b, c, k, SubSeq(b, 1, k), SubSeq(b, k + 1, Len(b)))
<1> DEFINE p == SubSeq(b, 1, k)
           q == SubSeq(b, k + 1, Len(b))
<1>1. /\ p \in Seq(Cells) /\ q \in Seq(Cells)
      /\ Len(p) = k /\ Len(q) = Len(b) - k
  <2>1. /\ \A i \in 1 .. k : b[i] \in Cells
        /\ \A i \in k + 1 .. Len(b) : b[i] \in Cells
    OBVIOUS
  <2> QED BY <2>1, SubSeqProperties
<1>2. p \o q = b
  BY ConcatAdjacentSubSeq, SubSeqFull
<1> HIDE DEF p, q
<1>4. q \o c \in Seq(Cells)
  BY <1>1
<1>5. (a \o p) \o q = a \o (p \o q)
  BY <1>1, CellsAssociative, ZenonT(40)
<1>6. (a \o p) \o (q \o c) = a \o (p \o (q \o c))
  BY <1>1, <1>4, CellsAssociative, ZenonT(40)
<1>7. (p \o q) \o c = p \o (q \o c)
  BY <1>1, CellsAssociative, ZenonT(40)
<1>8. (a \o p) \o q = a \o b /\ (a \o p) \o (q \o c) = a \o (b \o c)
  BY <1>2, <1>5, <1>6, <1>7, Zenon
<1> QED BY <1>1, <1>8, Zenon DEF p, q, Split

\* A function on 1 .. n is a sequence.
LEMMA ListedSeq ==
  ASSUME NEW n \in Nat, NEW s \in [1 .. n -> Cells]
  PROVE  s \in Seq(Cells) /\ Len(s) = n
OBVIOUS

\* A connection starts with nothing under way.
LEMMA TcpInvInit == TcpInit => TcpInv
<1> SUFFICES ASSUME TcpInit PROVE TcpInv
  OBVIOUS
<1> USE ConnectionAssumption DEF TcpInit
<1>1. TcpTypeOK
  <2>1. /\ sent \in Seq(Frames) /\ received \in Seq(1 .. MaxFrames)
        /\ pending \in Seq(Cells) /\ wire \in Seq(Cells) /\ buffer \in Seq(Cells)
        /\ Len(sent) = 0 /\ Len(received) = 0 /\ Len(wire) = 0
    BY SMT
  <2>2. closed \in BOOLEAN /\ fatal \in BOOLEAN /\ at \in {"idle", "loop", "recv"}
    BY Zenon
  <2>3. /\ Len(received) <= Len(sent) /\ Len(sent) <= MaxFrames
        /\ Len(wire) <= SocketBuffer
    BY <2>1
  <2> QED BY <2>1, <2>2, <2>3, Zenon DEF TcpTypeOK
<1>2. StreamInv
  <2>1. Layout(stream, Len(stream), sizes, 0, 0, [n \in {0} |-> 0])
    BY DEF Layout, stream
  <2>2. Len(received) = 0 /\ Len(sent) = 0
    OBVIOUS
  <2> QED BY <2>1, <2>2, Zenon DEF StreamInv
<1>3. OrderInv /\ OnlyIntactDelivered /\ BufferInv
  BY DEF OrderInv, OnlyIntactDelivered, BufferInv, BufferBounded
<1> QED BY <1>1, <1>2, <1>3, Zenon DEF TcpInv

\* s2 is s with frame N + 1, of len cells, put behind its L cells.
Appended(s, L, z, r, N, len, s2, z2) ==
  /\ r \in Nat /\ N \in Nat /\ r <= N /\ L \in Nat /\ len \in Nat
  /\ \A n \in 1 .. N : z[n] \in Nat /\ z2[n] = z[n]
  /\ z2[N + 1] = len
  /\ \A i \in 1 .. L : s2[i] = s[i]
  /\ \A k \in 1 .. len : s2[L + k] = <<N + 1, k>>

\* A frame put behind the others leaves their layout as it is.
LEMMA LayoutAppend ==
  ASSUME NEW s, NEW L, NEW z, NEW r, NEW N, NEW e, NEW len, NEW s2, NEW z2,
         Layout(s, L, z, r, N, e), Appended(s, L, z, r, N, len, s2, z2)
  PROVE  \E e2 : Layout(s2, L + len, z2, r, N + 1, e2)
<1> USE DEF Appended
<1> DEFINE e2 == [n \in r .. N + 1 |-> IF n <= N THEN e[n] ELSE L + len]
<1>1. \A n \in r .. N : e2[n] = e[n] /\ e[n] \in 0 .. L
  BY DEF Layout
<1>2. e2[N + 1] = L + len
  OBVIOUS
<1> HIDE DEF e2
<1>3. e2[r] = 0 /\ \A n \in r .. N + 1 : e2[n] \in 0 .. L + len
  <2>1. r \in r .. N /\ e[r] = 0
    BY DEF Layout
  <2>2. \A n \in r .. N + 1 : e2[n] \in 0 .. L + len
    BY <1>1, <1>2
  <2> QED BY <1>1, <2>1, <2>2, Zenon
<1>4. ASSUME NEW m \in r .. N + 1, NEW n \in r .. N + 1, m <= n
      PROVE  e2[m] <= e2[n]
  <2>1. CASE n = N + 1
    BY <1>2, <1>3, <2>1
  <2>2. CASE n \in r .. N /\ m \in r .. N
    BY <1>1, <1>4, <2>2 DEF Layout
  <2> QED BY <1>4, <2>1, <2>2
<1>5. ASSUME NEW n \in r + 1 .. N + 1
      PROVE  e2[n] = e2[n - 1] + z2[n] /\ \A k \in 1 .. z2[n] : s2[e2[n - 1] + k] = <<n, k>>
  <2>1. CASE n = N + 1
    <3>1. e2[n - 1] = L
      BY <1>1, <2>1 DEF Layout
    <3> QED BY <1>2, <2>1, <3>1
  <2>2. CASE n \in r + 1 .. N
    <3>1. e2[n] = e[n] /\ e2[n - 1] = e[n - 1] /\ e[n] \in 0 .. L /\ e[n - 1] \in 0 .. L
      BY <1>1, <2>2
    <3>2. e[n] = e[n - 1] + z[n] /\ \A k \in 1 .. z[n] : s[e[n - 1] + k] = <<n, k>>
      BY <2>2 DEF Layout
    <3>3. z[n] \in Nat /\ z2[n] = z[n]
      BY <2>2
    <3>4. ASSUME NEW k \in 1 .. z2[n] PROVE s2[e2[n - 1] + k] = <<n, k>>
      <4>1. e[n - 1] + k \in 1 .. L
        BY <3>1, <3>2, <3>3
      <4>2. s2[e[n - 1] + k] = s[e[n - 1] + k]
        BY <4>1, Zenon
      <4> QED BY <3>1, <3>2, <3>3, <4>2, Zenon
    <3> QED BY <3>1, <3>2, <3>3, <3>4, Zenon
  <2> QED BY <2>1, <2>2
<1>6. Layout(s2, L + len, z2, r, N + 1, e2)
  BY <1>2, <1>3, <1>4, <1>5, Zenon DEF Layout
<1> QED BY <1>6, Zenon

\* s2 is s without the cells of its first frame.
Dropped(s, L, z, r, N, s2) ==
  /\ r \in Nat /\ N \in Nat /\ r < N /\ L \in Nat
  /\ \A n \in r + 1 .. N : z[n] \in Nat
  /\ \A i \in 1 .. L - z[r + 1] : s2[i] = s[z[r + 1] + i]

\* The first frame taken away leaves the layout of the others.
LEMMA LayoutDrop ==
  ASSUME NEW s, NEW L, NEW z, NEW r, NEW N, NEW e, NEW s2,
         Layout(s, L, z, r, N, e), Dropped(s, L, z, r, N, s2)
  PROVE  \E e2 : Layout(s2, L - z[r + 1], z, r + 1, N, e2)
<1> USE DEF Dropped
<1> DEFINE d == z[r + 1]
           e2 == [n \in r + 1 .. N |-> e[n] - d]
<1>1. e[r] = 0 /\ e[r + 1] = d /\ e[N] = L
  BY DEF Layout
<1>2. \A n \in r + 1 .. N : e[n] \in d .. L
  BY <1>1 DEF Layout
<1>3. \A n \in r + 1 .. N : e2[n] = e[n] - d
  OBVIOUS
<1> HIDE DEF e2
<1>4. e2[r + 1] = 0 /\ e2[N] = L - d /\ \A n \in r + 1 .. N : e2[n] \in 0 .. L - d
  BY <1>1, <1>2, <1>3
<1>5. \A m, n \in r + 1 .. N : m <= n => e2[m] <= e2[n]
  BY <1>2, <1>3 DEF Layout
<1>6. ASSUME NEW n \in (r + 1) + 1 .. N
      PROVE  e2[n] = e2[n - 1] + z[n] /\ \A k \in 1 .. z[n] : s2[e2[n - 1] + k] = <<n, k>>
  <2>0. n \in r + 1 .. N /\ n - 1 \in r + 1 .. N
    OBVIOUS
  <2>1. e[n] = e[n - 1] + z[n] /\ \A k \in 1 .. z[n] : s[e[n - 1] + k] = <<n, k>>
    BY <2>0, Zenon DEF Layout
  <2>2. e2[n] = e[n] - d /\ e2[n - 1] = e[n - 1] - d /\ e[n] \in d .. L /\ e[n - 1] \in d .. L
    BY <1>2, <1>3
  <2>3. ASSUME NEW k \in 1 .. z[n] PROVE s2[e2[n - 1] + k] = <<n, k>>
    <3>1. e2[n - 1] + k \in 1 .. L - d /\ d + (e2[n - 1] + k) = e[n - 1] + k
      BY <2>1, <2>2
    <3> QED BY <2>1, <3>1
  <2> QED BY <2>1, <2>2, <2>3
<1>7. \E e3 : Layout(s2, L - d, z, r + 1, N, e3)
  BY <1>4, <1>5, <1>6 DEF Layout
<1> QED BY <1>7

\* Moving cells along does not change the layout.
LEMMA StreamKept ==
  ASSUME StreamInv, UNCHANGED <<sent, received, fatal>>, stream' = stream
  PROVE  StreamInv'
<1>1. sent' = sent /\ received' = received /\ fatal' = fatal
  OBVIOUS
<1>2. sizes' = sizes
  BY <1>1, Zenon DEF sizes
<1> SUFFICES ASSUME ~fatal
             PROVE  \E e : Layout(stream', Len(stream'), sizes', Len(received'), Len(sent'), e)
  BY <1>1 DEF StreamInv
<1> PICK e : Layout(stream, Len(stream), sizes, Len(received), Len(sent), e)
  BY Zenon DEF StreamInv
<1>3. Layout(stream', Len(stream'), sizes', Len(received'), Len(sent'), e)
  BY <1>1, <1>2, Zenon
<1> QED BY <1>3, Zenon

\* The number of cells of each frame sent.
LEMMA SizesOfFrames ==
  ASSUME TcpTypeOK
  PROVE  \A n \in 1 .. Len(sent) :
           /\ sent[n] \in Frames /\ sizes[n] \in Nat \ {0}
           /\ sizes[n] = HeaderSize + sent[n].body + TrailerSize
<1> TAKE n \in 1 .. Len(sent)
<1>1. sent[n] \in Frames
  BY DEF TcpTypeOK
<1>2. sent[n].body \in Nat
  BY <1>1, ConnectionAssumption DEF Frames
<1>3. sizes[n] = HeaderSize + sent[n].body + TrailerSize
  BY Zenon DEF sizes
<1>4. sizes[n] \in Nat \ {0}
  BY <1>2, <1>3, ConnectionAssumption
<1> QED BY <1>1, <1>3, <1>4, Zenon

\* A frame that send begins goes to the end of the stream.
LEMMA SendKeeps ==
  ASSUME TcpInv, NEW f \in Frames, send(f)
  PROVE  TcpInv'
<1> USE ConnectionAssumption
<1> PICK len : len = HeaderSize + f.body + TrailerSize
  OBVIOUS
<1>0. TcpTypeOK
  BY Zenon DEF TcpInv
<1>1. /\ len \in Nat /\ Len(sent) + 1 \in 1 .. MaxFrames /\ Len(sent) \in Nat
      /\ Len(received) \in Nat /\ Len(received) <= Len(sent)
  BY <1>0, SMTT(30) DEF send, Frames, TcpTypeOK
<1>2. /\ sent' \in Seq(Frames) /\ Len(sent') = Len(sent) + 1
      /\ \A n \in 1 .. Len(sent) : sent'[n] = sent[n]
      /\ sent'[Len(sent) + 1] = f
  BY <1>0 DEF send, TcpTypeOK
<1>3. /\ pending' \in Seq(Cells) /\ Len(pending') = len
      /\ \A k \in 1 .. len : pending'[k] = <<Len(sent) + 1, k>>
  <2>1. pending' = [k \in 1 .. len |-> <<Len(sent) + 1, k>>]
    BY DEF send, encode_frame
  <2>2. \A k \in 1 .. len : <<Len(sent) + 1, k>> \in Cells
    BY <1>1 DEF Cells
  <2>3. pending' \in [1 .. len -> Cells]
    BY <2>1, <2>2, Zenon
  <2> QED BY <1>1, <2>1, <2>3, ListedSeq, Zenon
<1>4. UNCHANGED <<wire, closed, buffer, fatal, at, received>>
  BY DEF send
<1>5. TcpTypeOK'
  BY <1>0, <1>1, <1>2, <1>3, <1>4 DEF TcpTypeOK
<1>6. StreamInv'
  <2> SUFFICES ASSUME ~fatal
               PROVE  \E e : Layout(stream', Len(stream'), sizes', Len(received)', Len(sent)', e)
    BY <1>4 DEF StreamInv
  <2> PICK e : Layout(stream, Len(stream), sizes, Len(received), Len(sent), e)
    BY Zenon DEF StreamInv, TcpInv
  <2>1. buffer \in Seq(Cells) /\ wire \in Seq(Cells)
    BY <1>0 DEF TcpTypeOK
  <2>2. stream = buffer \o wire /\ stream' = buffer \o (wire \o pending')
    <3>1. wire \o pending = wire
      BY <2>1 DEF send
    <3> QED BY <1>4, <3>1, Zenon DEF stream
  <2>3. /\ stream \in Seq(Cells) /\ Len(stream') = Len(stream) + Len(pending')
        /\ \A i \in 1 .. Len(stream) : stream'[i] = stream[i]
        /\ \A k \in 1 .. Len(pending') : stream'[Len(stream) + k] = pending'[k]
    <3>1. pending' \in Seq(Cells)
      BY <1>3, Zenon
    <3>2. /\ Len(buffer) \in Nat /\ Len(wire) \in Nat /\ Len(pending') \in Nat
          /\ stream \in Seq(Cells) /\ wire \o pending' \in Seq(Cells)
          /\ Len(wire \o pending') = Len(wire) + Len(pending')
          /\ Len(stream) = Len(buffer) + Len(wire)
          /\ Len(stream') = Len(buffer) + Len(wire \o pending')
      BY <2>1, <2>2, <3>1, SMT
    <3>3. \A i \in 1 .. Len(stream) : stream'[i] = stream[i]
      BY <2>1, <2>2, <3>1, <3>2, SMTT(30)
    <3>4. \A k \in 1 .. Len(pending') : stream'[Len(stream) + k] = pending'[k]
      BY <2>1, <2>2, <3>1, <3>2, SMTT(30)
    <3>5. Len(stream') = Len(stream) + Len(pending')
      BY <3>2
    <3> QED BY <3>2, <3>3, <3>4, <3>5, Zenon
  <2>4. Len(stream) \in Nat /\ Len(stream') = Len(stream) + len
    BY <1>3, <2>3
  <2>5. \A k \in 1 .. len : stream'[Len(stream) + k] = <<Len(sent) + 1, k>>
    BY <1>3, <2>3, Zenon
  <2>6. /\ \A n \in 1 .. Len(sent) : sizes[n] \in Nat /\ sizes'[n] = sizes[n]
        /\ sizes'[Len(sent) + 1] = len
    <3>1. ASSUME NEW n \in 1 .. Len(sent) PROVE sizes[n] \in Nat /\ sizes'[n] = sizes[n]
      <4>1. n \in 1 .. Len(sent') /\ sent'[n] = sent[n]
        BY <1>1, <1>2
      <4> QED BY <1>0, <4>1, SizesOfFrames DEF sizes
    <3>2. Len(sent) + 1 \in 1 .. Len(sent')
      BY <1>1, <1>2
    <3>3. sizes'[Len(sent) + 1] = len
      BY <1>2, <3>2, Zenon DEF sizes
    <3> QED BY <3>1, <3>3, Zenon
  <2>7. \E e2 : Layout(stream', Len(stream) + len, sizes', Len(received), Len(sent) + 1, e2)
    <3>1. Appended(stream, Len(stream), sizes, Len(received), Len(sent), len, stream', sizes')
      BY <1>1, <2>3, <2>4, <2>5, <2>6, Zenon DEF Appended
    <3> QED BY <3>1, LayoutAppend, Zenon
  <2>8. Len(received)' = Len(received) /\ Len(sent)' = Len(sent) + 1
    BY <1>2, <1>4, Zenon
  <2> QED BY <2>4, <2>7, <2>8, Zenon
<1>7. OrderInv' /\ BufferInv'
  BY <1>1, <1>2, <1>4, SMTT(30) DEF TcpInv, OrderInv, BufferInv, BufferBounded
<1>8. OnlyIntactDelivered'
  <2>1. \A i \in 1 .. Len(received) : received[i] = i /\ i \in 1 .. Len(sent)
    BY <1>1 DEF TcpInv, OrderInv
  <2>2. fatal => Len(received) + 1 \in 1 .. Len(sent)
    BY <1>1 DEF TcpInv, OrderInv
  <2> QED BY <1>2, <1>4, <2>1, <2>2, Zenon DEF TcpInv, OnlyIntactDelivered
<1> QED BY <1>5, <1>6, <1>7, <1>8, Zenon DEF TcpInv

\* write_all moves cells of the last frame to the socket, recv moves cells from
\* the socket to the buffer; neither changes the stream.
LEMMA WriteKeeps ==
  ASSUME TcpInv, write_all
  PROVE  TcpInv'
<1> USE ConnectionAssumption
<1>0. /\ pending \in Seq(Cells) /\ wire \in Seq(Cells) /\ buffer \in Seq(Cells)
      /\ Len(wire) \in Nat
  BY DEF TcpInv, TcpTypeOK
<1> PICK k \in 1 .. Len(pending) :
         /\ Len(wire) + k <= SocketBuffer
         /\ wire' = wire \o SubSeq(pending, 1, k)
         /\ pending' = SubSeq(pending, k + 1, Len(pending))
  BY Zenon DEF write_all
<1>1. UNCHANGED <<sent, closed, buffer, fatal, at, received>>
  BY DEF write_all
<1>2. <<>> \in Seq(Cells)
  OBVIOUS
<1>3. /\ SubSeq(pending, 1, k) \in Seq(Cells) /\ Len(SubSeq(pending, 1, k)) = k
      /\ pending' \in Seq(Cells)
      /\ wire' \o pending' = wire \o pending
  <2>1. Split(wire, pending, <<>>, k, SubSeq(pending, 1, k), pending')
    BY <1>0, <1>2, MoveCells, Zenon
  <2>2. wire' = wire \o SubSeq(pending, 1, k)
    OBVIOUS
  <2> QED BY <2>1, <2>2, Zenon DEF Split
<1>4. wire' \in Seq(Cells) /\ Len(wire') = Len(wire) + k
  BY <1>0, <1>3
<1>5. TcpTypeOK'
  BY <1>1, <1>3, <1>4 DEF TcpInv, TcpTypeOK
<1>6. StreamInv'
  <2>1. stream' = stream
    BY <1>1, <1>3, Zenon DEF stream
  <2> QED BY <1>1, <2>1, StreamKept, Zenon DEF TcpInv
<1>7. OrderInv' /\ OnlyIntactDelivered' /\ BufferInv'
  BY <1>1, Zenon DEF TcpInv, OrderInv, OnlyIntactDelivered, BufferInv, BufferBounded, intact
<1> QED BY <1>5, <1>6, <1>7, Zenon DEF TcpInv

LEMMA RecvKeeps ==
  ASSUME TcpInv, recv
  PROVE  TcpInv'
<1> USE ConnectionAssumption
<1>0. /\ pending \in Seq(Cells) /\ wire \in Seq(Cells) /\ buffer \in Seq(Cells)
      /\ Len(wire) \in Nat /\ Len(buffer) \in Nat /\ Len(wire) <= SocketBuffer
  BY DEF TcpInv, TcpTypeOK
<1> PICK k \in 1 .. Len(wire) :
         /\ k <= RecvSize
         /\ buffer' = buffer \o SubSeq(wire, 1, k)
         /\ wire' = SubSeq(wire, k + 1, Len(wire))
  BY Zenon DEF recv, feed, fits
<1>1. UNCHANGED <<sent, pending, closed, fatal, received>> /\ at = "recv" /\ at' = "loop"
  BY DEF recv, writerVars
<1>2. /\ SubSeq(wire, 1, k) \in Seq(Cells) /\ Len(SubSeq(wire, 1, k)) = k
      /\ wire' \in Seq(Cells) /\ Len(wire') = Len(wire) - k
      /\ buffer' \o (wire' \o pending) = buffer \o (wire \o pending)
  <2>1. Split(buffer, wire, pending, k, SubSeq(wire, 1, k), wire')
    BY <1>0, MoveCells, Zenon
  <2>2. buffer' = buffer \o SubSeq(wire, 1, k)
    OBVIOUS
  <2> QED BY <2>1, <2>2, Zenon DEF Split
<1>3. buffer' \in Seq(Cells) /\ Len(buffer') = Len(buffer) + k
  BY <1>0, <1>2
<1>4. TcpTypeOK'
  <2>1. Len(wire') <= SocketBuffer
    BY <1>0, <1>2
  <2> QED BY <1>1, <1>2, <1>3, <2>1 DEF TcpInv, TcpTypeOK
<1>5. StreamInv'
  <2>1. stream' = stream
    BY <1>1, <1>2, Zenon DEF stream
  <2> QED BY <1>1, <2>1, StreamKept, Zenon DEF TcpInv
<1>6. OrderInv' /\ OnlyIntactDelivered'
  BY <1>1, Zenon DEF TcpInv, OrderInv, OnlyIntactDelivered, intact
<1>7. BufferInv'
  <2>1. Len(buffer) < HeaderSize + MaxFrameBody + TrailerSize
    BY <1>1 DEF TcpInv, BufferInv
  <2> QED BY <1>0, <1>1, <1>3, <2>1 DEF BufferInv, BufferBounded
<1> QED BY <1>4, <1>5, <1>6, <1>7, Zenon DEF TcpInv

\* Steps that touch neither the cells nor what has been delivered, and do not
\* enter recv.
LEMMA ControlKeeps ==
  ASSUME TcpInv,
         UNCHANGED <<sent, pending, wire, buffer, fatal, received>>,
         closed' \in BOOLEAN, at' \in {"idle", "loop"} \/ at' = at
  PROVE  TcpInv'
<1>1. /\ sent' = sent /\ pending' = pending /\ wire' = wire
      /\ buffer' = buffer /\ fatal' = fatal /\ received' = received
  OBVIOUS
<1>2. TcpTypeOK'
  BY <1>1 DEF TcpInv, TcpTypeOK
<1>3. StreamInv'
  BY <1>1, StreamKept, Zenon DEF TcpInv, stream
<1>4. OrderInv' /\ OnlyIntactDelivered'
  BY <1>1 DEF TcpInv, OrderInv, OnlyIntactDelivered, intact
<1>5. BufferInv'
  BY <1>1 DEF TcpInv, BufferInv, BufferBounded
<1> QED BY <1>2, <1>3, <1>4, <1>5, Zenon DEF TcpInv

\* As long as nothing is wrong the cell at the front of the buffer is the first one
\* of the next frame.
LEMMA FrontFrame ==
  ASSUME TcpInv, ~fatal, Len(buffer) > 0
  PROVE  Len(received) < Len(sent) /\ front = Len(received) + 1
<1> USE ConnectionAssumption
<1>0. /\ pending \in Seq(Cells) /\ wire \in Seq(Cells) /\ buffer \in Seq(Cells)
      /\ Len(received) \in Nat /\ Len(sent) \in Nat /\ Len(received) <= Len(sent)
  BY DEF TcpInv, TcpTypeOK
<1>1. Len(stream) \in Nat /\ Len(stream) > 0 /\ stream[1] = Head(buffer)
  <2>1. wire \o pending \in Seq(Cells)
    BY <1>0
  <2> QED BY <1>0, <2>1, SMT DEF stream
<1> PICK e : Layout(stream, Len(stream), sizes, Len(received), Len(sent), e)
  BY Zenon DEF StreamInv, TcpInv
<1> PICK r : r = Len(received)
  OBVIOUS
<1>2. e[r] = 0 /\ e[Len(sent)] = Len(stream)
  BY Zenon DEF Layout
<1>3. r \in Nat /\ r < Len(sent)
  BY <1>0, <1>1, <1>2
<1>4. r + 1 \in r + 1 .. Len(sent) /\ r + 1 \in 1 .. Len(sent) /\ (r + 1) - 1 = r
  BY <1>0, <1>3
<1>5. sizes[r + 1] \in Nat \ {0}
  BY <1>4, SizesOfFrames, Zenon DEF TcpInv
<1>6. \A k \in 1 .. sizes[r + 1] : stream[e[r] + k] = <<r + 1, k>>
  <2>1. \A k \in 1 .. sizes[r + 1] : stream[e[(r + 1) - 1] + k] = <<r + 1, k>>
    BY <1>4, Zenon DEF Layout
  <2> QED BY <1>4, <2>1, Zenon
<1>7. stream[1] = <<r + 1, 1>>
  BY <1>2, <1>5, <1>6
<1> QED BY <1>1, <1>3, <1>7 DEF front

\* The front of the buffer is a frame sent, with sizes the decoder can add up.
LEMMA FrontFacts ==
  ASSUME TcpInv, ~fatal, Len(buffer) >= HeaderSize + TrailerSize, NEW f, f = sent[front]
  PROVE  /\ Len(received) < Len(sent) /\ front = Len(received) + 1
         /\ front \in 1 .. Len(sent) /\ front \in 1 .. MaxFrames
         /\ f \in Frames /\ total(f) \in Nat
         /\ sizes[front] = HeaderSize + f.body + TrailerSize
         /\ Len(received) \in Nat /\ Len(sent) \in Nat
<1> USE ConnectionAssumption
<1>0. /\ buffer \in Seq(Cells) /\ Len(buffer) \in Nat
      /\ Len(received) \in Nat /\ Len(sent) \in Nat /\ Len(sent) <= MaxFrames
  BY DEF TcpInv, TcpTypeOK
<1>1. Len(buffer) > 0
  BY <1>0
<1>2. Len(received) < Len(sent) /\ front = Len(received) + 1
  BY <1>1, FrontFrame
<1>3. front \in 1 .. Len(sent) /\ front \in 1 .. MaxFrames
  BY <1>0, <1>2
<1>4. f \in Frames /\ sizes[front] = HeaderSize + f.body + TrailerSize
  BY <1>3, SizesOfFrames, Zenon DEF TcpInv
<1>5. total(f) \in Nat
  BY <1>4 DEF Frames, total
<1> QED BY <1>0, <1>2, <1>3, <1>4, <1>5, Zenon

\* A frame that fails a check leaves an empty buffer and the frames before it.
LEMMA FatalKeeps ==
  ASSUME TcpInv, ~fatal, Len(buffer) >= HeaderSize + TrailerSize,
         ~header_ok(sent[front]) \/ ~body_ok(sent[front]),
         set_fatal, at' = "recv", UNCHANGED <<received, wire, sent, pending, closed>>
  PROVE  TcpInv'
<1> USE ConnectionAssumption
<1> PICK f : f = sent[front]
  OBVIOUS
<1>1. /\ Len(received) < Len(sent) /\ front = Len(received) + 1 /\ f \in Frames
  BY FrontFacts, Zenon
<1>2. ~intact(f)
  BY DEF header_ok, body_ok, checksum_ok, decode_body, intact
<1>3. fatal' = TRUE /\ buffer' = <<>> /\ received' = received /\ sent' = sent
  BY DEF set_fatal
<1>4. TcpTypeOK'
  BY <1>3 DEF TcpInv, TcpTypeOK
<1>5. StreamInv'
  BY <1>3 DEF StreamInv
<1>6. OrderInv'
  BY <1>1, <1>3 DEF TcpInv, OrderInv
<1>7. OnlyIntactDelivered'
  <2>1. ~intact(sent[Len(received) + 1])
    BY <1>1, <1>2, Zenon
  <2> QED BY <1>3, <2>1 DEF TcpInv, OnlyIntactDelivered, intact
<1>8. BufferInv'
  BY <1>3 DEF BufferInv, BufferBounded
<1> QED BY <1>4, <1>5, <1>6, <1>7, <1>8, Zenon DEF TcpInv

\* Waiting for the rest of a frame, the buffer holds less than the longest one.
LEMMA WaitKeeps ==
  ASSUME TcpInv, ~fatal, at' = "recv",
         UNCHANGED <<buffer, fatal, received, wire, sent, pending, closed>>,
         \/ Len(buffer) < HeaderSize + TrailerSize
         \/ /\ Len(buffer) >= HeaderSize + TrailerSize
            /\ header_ok(sent[front]) /\ incomplete(sent[front])
  PROVE  TcpInv'
<1> USE ConnectionAssumption
<1>0. Len(buffer) \in Nat
  BY DEF TcpInv, TcpTypeOK
<1>1. Len(buffer) < HeaderSize + MaxFrameBody + TrailerSize
  <2>1. CASE Len(buffer) < HeaderSize + TrailerSize
    BY <1>0, <2>1
  <2>2. CASE /\ Len(buffer) >= HeaderSize + TrailerSize
             /\ header_ok(sent[front]) /\ incomplete(sent[front])
    <3> PICK f : f = sent[front]
      OBVIOUS
    <3>1. f \in Frames
      BY <2>2, FrontFacts, Zenon
    <3>2. f.body_len \in Nat /\ f.body_len <= MaxFrameBody
      BY <2>2, <3>1 DEF Frames, header_ok
    <3>3. Len(buffer) < HeaderSize + f.body_len + TrailerSize
      BY <2>2, Zenon DEF incomplete, total
    <3> QED BY <1>0, <3>2, <3>3
  <2> QED BY <2>1, <2>2
<1>2. /\ sent' = sent /\ pending' = pending /\ wire' = wire
      /\ buffer' = buffer /\ fatal' = fatal /\ received' = received /\ closed' = closed
  OBVIOUS
<1>3. TcpTypeOK'
  BY <1>2 DEF TcpInv, TcpTypeOK
<1>4. StreamInv'
  BY <1>2, StreamKept, Zenon DEF TcpInv, stream
<1>5. OrderInv' /\ OnlyIntactDelivered'
  BY <1>2 DEF TcpInv, OrderInv, OnlyIntactDelivered, intact
<1>6. BufferInv'
  BY <1>1, <1>2 DEF TcpInv, BufferInv, BufferBounded
<1> QED BY <1>3, <1>4, <1>5, <1>6, Zenon DEF TcpInv

\* pop hands out the next frame and takes exactly its cells from the buffer.
PopFrame ==
  /\ ~fatal /\ Len(buffer) >= HeaderSize + TrailerSize
  /\ header_ok(sent[front]) /\ ~incomplete(sent[front]) /\ body_ok(sent[front])
  /\ at' = "idle"
  /\ received' = Append(received, front)
  /\ erase(sent[front])
  /\ UNCHANGED <<fatal, wire, sent, pending, closed>>

LEMMA PopKeeps ==
  ASSUME TcpInv, PopFrame
  PROVE  TcpInv'
<1> USE ConnectionAssumption
<1>0. /\ TcpTypeOK /\ buffer \in Seq(Cells) /\ wire \in Seq(Cells) /\ pending \in Seq(Cells)
      /\ received \in Seq(1 .. MaxFrames) /\ Len(buffer) \in Nat
  BY DEF TcpInv, TcpTypeOK
<1>f. PICK f : f = sent[front]
  OBVIOUS
<1>d. PICK d : d = total(f)
  OBVIOUS
<1>r. PICK r : r = Len(received)
  OBVIOUS
<1>1. /\ r < Len(sent) /\ front = r + 1
      /\ front \in 1 .. Len(sent) /\ front \in 1 .. MaxFrames
      /\ f \in Frames /\ d \in Nat /\ sizes[front] = HeaderSize + f.body + TrailerSize
      /\ r \in Nat /\ Len(sent) \in Nat
  BY <1>f, <1>d, <1>r, FrontFacts, Zenon DEF PopFrame
<1>2. /\ intact(f) /\ sizes[r + 1] = d /\ d <= Len(buffer)
  <2>1. header_ok(f) /\ body_ok(f) /\ ~(Len(buffer) < d)
    BY <1>f, <1>d, Zenon DEF PopFrame, incomplete
  <2>2. f.body = f.body_len
    BY <2>1 DEF body_ok, checksum_ok
  <2>3. sizes[r + 1] = d
    BY <1>d, <1>1, <2>2, Zenon DEF total
  <2>4. f.fault \in Faults
    BY <1>1 DEF Frames
  <2>5. intact(f)
    BY <2>1, <2>4 DEF header_ok, body_ok, checksum_ok,
       decode_body, intact, Faults
  <2> QED BY <1>0, <1>1, <2>1, <2>3, <2>5
<1>3. buffer' = SubSeq(buffer, d + 1, Len(buffer))
  BY <1>f, <1>d, Zenon DEF PopFrame, erase
<1>4. /\ received' = Append(received, r + 1) /\ at' = "idle"
      /\ UNCHANGED <<fatal, wire, sent, pending, closed>> /\ ~fatal
  BY <1>1, Zenon DEF PopFrame
<1>5. /\ received' \in Seq(1 .. MaxFrames) /\ Len(received') = r + 1
      /\ \A i \in 1 .. r : received'[i] = received[i]
      /\ received'[r + 1] = r + 1
  BY <1>r, <1>0, <1>1, <1>4
<1>p. PICK p : p = SubSeq(buffer, 1, d)
  OBVIOUS
<1>rest. PICK rest : rest = wire \o pending
  OBVIOUS
<1>6. /\ buffer' \in Seq(Cells) /\ Len(buffer') = Len(buffer) - d
      /\ p \in Seq(Cells) /\ Len(p) = d /\ rest \in Seq(Cells)
      /\ buffer \o rest = p \o (buffer' \o rest)
  <2>1. d \in 1 .. Len(buffer) /\ rest \in Seq(Cells) /\ <<>> \in Seq(Cells)
    <3>1. d \in Nat \ {0}
      BY <1>0, <1>1, <1>2, SizesOfFrames, Zenon
    <3> QED BY <1>rest, <1>0, <1>1, <1>2, <3>1
  <2>2. Split(<<>>, buffer, rest, d, p, buffer')
    BY <1>p, <1>0, <1>3, <2>1, MoveCells, Zenon
  <2>3. /\ buffer' \in Seq(Cells) /\ Len(buffer') = Len(buffer) - d
        /\ p \in Seq(Cells) /\ Len(p) = d
        /\ (<<>> \o p) \o (buffer' \o rest) = <<>> \o (buffer \o rest)
    BY <2>2, Zenon DEF Split
  <2>4. ASSUME NEW x \in Seq(Cells) PROVE <<>> \o x = x
    OBVIOUS
  <2>5. buffer \o rest \in Seq(Cells)
    BY <1>0, <2>1
  <2> QED BY <2>1, <2>3, <2>4, <2>5, Zenon
<1>7. TcpTypeOK'
  BY <1>r, <1>0, <1>1, <1>4, <1>5, <1>6 DEF TcpTypeOK
<1>8. StreamInv'
  <2>e. PICK e : Layout(stream, Len(stream), sizes, r, Len(sent), e)
    BY <1>r, <1>4, Zenon DEF StreamInv, TcpInv
  <2>1. stream = buffer \o rest /\ stream' = buffer' \o rest
    BY <1>rest, <1>4, Zenon DEF stream
  <2>2. stream = p \o stream'
    BY <1>6, <2>1, Zenon
  <2>3. stream' \in Seq(Cells)
    BY <1>6, <2>1, SMT
  <2>4. Len(stream) \in Nat /\ Len(stream') = Len(stream) - d
    <3>0. PICK st, st2 : st = stream /\ st2 = stream'
      OBVIOUS
    <3>1. st = p \o st2 /\ st2 \in Seq(Cells)
      BY <2>2, <2>3, <3>0, Zenon
    <3>2. Len(st) \in Nat /\ Len(st2) = Len(st) - d
      BY <1>6, <3>1, SMT
    <3> QED BY <3>0, <3>2, Zenon
  <2>5. \A i \in 1 .. Len(stream) - d : stream'[i] = stream[d + i]
    <3>0. PICK st, st2 : st = stream /\ st2 = stream'
      OBVIOUS
    <3>1. st = p \o st2 /\ st2 \in Seq(Cells)
      BY <2>2, <2>3, <3>0, Zenon
    <3>2. \A i \in 1 .. Len(st) - d : st2[i] = st[d + i]
      BY <1>6, <3>1, SMTT(30)
    <3> QED BY <3>0, <3>2, Zenon
  <2>6. \A n \in r + 1 .. Len(sent) : sizes[n] \in Nat
    BY <1>0, <1>1, SizesOfFrames
  <2>7. Dropped(stream, Len(stream), sizes, r, Len(sent), stream')
    BY <1>1, <1>2, <2>4, <2>5, <2>6, Zenon DEF Dropped
  <2>8. \E e2 : Layout(stream', Len(stream) - sizes[r + 1], sizes, r + 1, Len(sent), e2)
    BY <2>e, <2>7, LayoutDrop, Zenon
  <2>9. sizes' = sizes /\ Len(received') = r + 1 /\ Len(sent') = Len(sent)
        /\ Len(stream') = Len(stream) - sizes[r + 1]
    BY <1>2, <1>4, <1>5, <2>4, Zenon DEF sizes
  <2> QED BY <2>8, <2>9, Zenon DEF StreamInv
<1>9. OrderInv'
  BY <1>r, <1>1, <1>4, <1>5 DEF TcpInv, OrderInv
<1>10. OnlyIntactDelivered'
  <2>1. ASSUME NEW i \in 1 .. Len(received') PROVE intact(sent'[received'[i]])
    <3>1. CASE i = r + 1
      BY <1>f, <1>1, <1>2, <1>4, <1>5, <3>1, Zenon
    <3>2. CASE i \in 1 .. r
      BY <1>r, <1>4, <1>5, <3>2, Zenon DEF TcpInv, OnlyIntactDelivered
    <3> QED BY <1>1, <1>5, <3>1, <3>2
  <2> QED BY <1>4, <2>1, Zenon DEF OnlyIntactDelivered
<1>11. BufferInv'
  <2>1. Len(buffer) < HeaderSize + MaxFrameBody + TrailerSize + RecvSize
    BY DEF TcpInv, BufferInv, BufferBounded
  <2>2. Len(buffer') < HeaderSize + MaxFrameBody + TrailerSize + RecvSize
    BY <1>0, <1>1, <1>6, <2>1
  <2> QED BY <1>4, <2>2 DEF BufferInv, BufferBounded
<1> QED BY <1>7, <1>8, <1>9, <1>10, <1>11, Zenon DEF TcpInv

\* A round of receive gives up, waits for more cells, meets a violation or hands out
\* a frame.
Waits ==
  /\ ~fatal /\ at' = "recv"
  /\ UNCHANGED <<buffer, fatal, received, wire, sent, pending, closed>>
  /\ \/ Len(buffer) < HeaderSize + TrailerSize
     \/ /\ Len(buffer) >= HeaderSize + TrailerSize
        /\ header_ok(sent[front]) /\ incomplete(sent[front])

Violates ==
  /\ ~fatal /\ Len(buffer) >= HeaderSize + TrailerSize
  /\ ~header_ok(sent[front]) \/ ~body_ok(sent[front])
  /\ set_fatal /\ at' = "recv" /\ UNCHANGED <<received, wire, sent, pending, closed>>

LEMMA RoundCases ==
  ASSUME TcpInv, receive_round
  PROVE  \/ fatal /\ at' = "idle" /\ UNCHANGED <<buffer, fatal, received, wire, sent, pending, closed>>
         \/ Waits \/ Violates \/ PopFrame
<1>0. Len(buffer) \in Nat
  BY DEF TcpInv, TcpTypeOK
<1>1. Len(buffer) < HeaderSize + TrailerSize \/ Len(buffer) >= HeaderSize + TrailerSize
  BY <1>0, ConnectionAssumption
<1>2. UNCHANGED <<wire, sent, pending, closed>>
  BY DEF receive_round, writerVars
<1>3. CASE fatal
  BY <1>2, <1>3 DEF receive_round
<1>4. CASE ~fatal
  <2>1. pop
    BY <1>4 DEF receive_round
  <2>2. CASE Len(buffer) < HeaderSize + TrailerSize
    BY <1>2, <1>4, <2>1, <2>2, Zenon DEF pop, Waits
  <2> SUFFICES ASSUME ~(Len(buffer) < HeaderSize + TrailerSize),
                      Len(buffer) >= HeaderSize + TrailerSize
               PROVE  Waits \/ Violates \/ PopFrame
    BY <1>1, <2>2, Zenon
  <2>3. CASE ~header_ok(sent[front])
    BY <1>2, <1>4, <2>1, <2>3, Zenon DEF pop, Violates
  <2>4. CASE header_ok(sent[front]) /\ incomplete(sent[front])
    BY <1>2, <1>4, <2>1, <2>4, Zenon DEF pop, Waits
  <2>5. CASE /\ header_ok(sent[front]) /\ ~incomplete(sent[front])
             /\ ~body_ok(sent[front])
    BY <1>2, <1>4, <2>1, <2>5, Zenon DEF pop, Violates
  <2>6. CASE /\ header_ok(sent[front]) /\ ~incomplete(sent[front])
             /\ body_ok(sent[front])
    BY <1>2, <1>4, <2>1, <2>6, Zenon DEF pop, PopFrame
  <2> QED BY <2>3, <2>4, <2>5, <2>6, Zenon
<1> QED BY <1>3, <1>4

\* Every step of either end keeps the invariant.
LEMMA TcpInvStep == TcpInv /\ [TcpNext]_connVars => TcpInv'
<1> SUFFICES ASSUME TcpInv, [TcpNext]_connVars PROVE TcpInv'
  OBVIOUS
<1>0. closed \in BOOLEAN
  BY DEF TcpInv, TcpTypeOK
<1>1. CASE write_all
  BY <1>1, WriteKeeps
<1>2. CASE close
  BY <1>2, ControlKeeps DEF close
<1>3. ASSUME NEW f \in Frames, send(f) PROVE TcpInv'
  BY <1>3, SendKeeps
<1>4. CASE receive
  BY <1>0, <1>4, ControlKeeps DEF receive, writerVars
<1>5. CASE receive_round
  <2>1. CASE /\ fatal /\ at' = "idle"
             /\ UNCHANGED <<buffer, fatal, received, wire, sent, pending, closed>>
    BY <1>0, <2>1, ControlKeeps
  <2>2. CASE Waits
    BY <2>2, WaitKeeps, Zenon DEF Waits
  <2>3. CASE Violates
    BY <2>3, FatalKeeps, Zenon DEF Violates
  <2>4. CASE PopFrame
    BY <2>4, PopKeeps
  <2> QED BY <1>5, <2>1, <2>2, <2>3, <2>4, RoundCases, Zenon
<1>6. CASE recv
  BY <1>6, RecvKeeps
<1>7. CASE recv_closed
  BY <1>0, <1>7, ControlKeeps DEF recv_closed, writerVars
<1>8. CASE UNCHANGED connVars
  BY <1>0, <1>8, ControlKeeps DEF connVars
<1> QED BY <1>1, <1>2, <1>3, <1>4, <1>5, <1>6, <1>7, <1>8, Zenon DEF TcpNext, Writer, Reader

\* The invariant holds in every state of a connection.
LEMMA TcpInvHolds == TcpSpec => []TcpInv
<1>1. TcpInit => TcpInv
  BY TcpInvInit
<1>2. TcpInv /\ [TcpNext]_connVars => TcpInv'
  BY TcpInvStep
<1> QED BY <1>1, <1>2, PTL DEF TcpSpec

\* However write_all and recv cut the stream, what FrameDecoder holds and hands out
\* keeps its type.
THEOREM TcpTypeHolds == TcpSpec => []TcpTypeOK
<1>1. TcpInv => TcpTypeOK
  BY DEF TcpInv
<1> QED BY <1>1, TcpInvHolds, PTL

\* pop hands out only frames that pass every check, in the order they were sent, and
\* sets fatal_ only at a frame that fails one: no cut of the stream makes it read a
\* header from the middle of a frame.
THEOREM IntactHolds == TcpSpec => []OnlyIntactDelivered
<1>1. TcpInv => OnlyIntactDelivered
  BY DEF TcpInv
<1> QED BY <1>1, TcpInvHolds, PTL

\* FrameDecoder keeps its "bounded internal buffering" for every length the header
\* of a frame may declare.
THEOREM BufferHolds == TcpSpec => []BufferBounded
<1>1. TcpInv => BufferBounded
  BY DEF TcpInv, BufferInv
<1> QED BY <1>1, TcpInvHolds, PTL

\* What is sent and not yet received grows at its end and shrinks at its front.
LEMMA QueueFacts ==
  ASSUME NEW s \in Seq(Frames), NEW r \in Nat, r <= Len(s)
  PROVE  /\ \A f \in Frames :
              SubSeq(Append(s, f), r + 1, Len(s) + 1)
                = Append(SubSeq(s, r + 1, Len(s)), f)
         /\ r < Len(s) =>
              /\ SubSeq(s, r + 1, Len(s)) # <<>>
              /\ Head(SubSeq(s, r + 1, Len(s))) = s[r + 1]
              /\ Tail(SubSeq(s, r + 1, Len(s))) = SubSeq(s, (r + 1) + 1, Len(s))
<1> DEFINE q == SubSeq(s, r + 1, Len(s))
<1>1. q \in Seq(Frames) /\ Len(q) = Len(s) - r /\ \A i \in 1 .. Len(s) - r : q[i] = s[r + i]
  OBVIOUS
<1>2. ASSUME NEW f \in Frames PROVE SubSeq(Append(s, f), r + 1, Len(s) + 1) = Append(q, f)
  <2>1. Append(s, f) \in Seq(Frames) /\ Len(Append(s, f)) = Len(s) + 1
    OBVIOUS
  <2>2. /\ SubSeq(Append(s, f), r + 1, Len(s) + 1) \in Seq(Frames)
        /\ Len(SubSeq(Append(s, f), r + 1, Len(s) + 1)) = Len(q) + 1
    BY <1>1, <2>1
  <2>3. \A i \in 1 .. Len(q) + 1 :
          SubSeq(Append(s, f), r + 1, Len(s) + 1)[i] = Append(q, f)[i]
    BY <1>1, <2>1
  <2>4. Append(q, f) \in Seq(Frames) /\ Len(Append(q, f)) = Len(q) + 1
    BY <1>1
  <2>5. ASSUME NEW x \in Seq(Frames), NEW y \in Seq(Frames), Len(x) = Len(y),
               \A i \in 1 .. Len(x) : x[i] = y[i]
        PROVE  x = y
    BY <2>5, SeqEqual, Zenon
  <2> QED BY <2>2, <2>3, <2>4, <2>5, Zenon
<1>3. ASSUME r < Len(s)
      PROVE  q # <<>> /\ Head(q) = s[r + 1] /\ Tail(q) = SubSeq(s, (r + 1) + 1, Len(s))
  <2>1. q # <<>> /\ Head(q) = s[r + 1]
    <3> HIDE DEF q
    <3>1. Len(q) > 0 /\ q[1] = s[r + 1]
      BY <1>1, <1>3
    <3> QED BY <1>1, <3>1
  <2>2. Tail(q) = SubSeq(s, (r + 1) + 1, Len(s))
    BY <1>1, <1>3, SMTT(30)
  <2> QED BY <2>1, <2>2
<1> QED BY <1>2, <1>3, Zenon

\* A step of the connection is a step of the channel: the frame that begins to be sent
\* enters the queue, the frame pop hands out leaves it, a violation breaks it, and
\* nothing else can be seen.
LEMMA ChannelStep ==
  ASSUME TcpInv, [TcpNext]_connVars
  PROVE  [Channel!ChannelNext]_(Channel!channelVars)
<1>0. /\ sent \in Seq(Frames) /\ Len(sent) \in Nat /\ received \in Seq(1 .. MaxFrames)
      /\ Len(received) \in Nat /\ Len(received) <= Len(sent)
      /\ \A i \in 1 .. Len(received) : received[i] = i
  BY DEF TcpInv, TcpTypeOK, OrderInv
<1> PICK r : r = Len(received)
  OBVIOUS
<1>1. ASSUME UNCHANGED <<sent, received, fatal>>
      PROVE  UNCHANGED Channel!channelVars
  <2>1. sent' = sent /\ received' = received /\ fatal' = fatal
    BY <1>1
  <2> QED BY <2>1, Zenon DEF Channel!channelVars
<1>2. ASSUME NEW f \in Frames, send(f) PROVE Channel!Send(f)
  <2>1. sent' = Append(sent, f) /\ received' = received /\ fatal' = fatal
    BY <1>2 DEF send
  <2>2. Len(sent') = Len(sent) + 1 /\ \A n \in 1 .. Len(sent) : sent'[n] = sent[n]
    BY <1>0, <2>1
  <2>3. SubSeq(sent', Len(received') + 1, Len(sent'))
          = Append(SubSeq(sent, Len(received) + 1, Len(sent)), f)
    BY <1>0, <2>1, <2>2, QueueFacts, ZenonT(40)
  <2>4. received # <<>> => sent'[received[Len(received)]] = sent[received[Len(received)]]
    <3>1. received # <<>> => Len(received) \in 1 .. Len(received) /\ Len(received) \in 1 .. Len(sent)
      BY <1>0
    <3> QED BY <1>0, <2>2, <3>1, Zenon
  <2> QED BY <2>1, <2>3, <2>4, Zenon DEF Channel!Send
<1>3. CASE Violates
  <2>1. sent' = sent /\ received' = received /\ fatal' = TRUE
    BY <1>3 DEF Violates, set_fatal
  <2> QED BY <2>1, Zenon DEF Channel!Break, Channel!ChannelNext
<1>4. CASE PopFrame
  <2>0. /\ ~fatal /\ Len(buffer) >= HeaderSize + TrailerSize
        /\ sent' = sent /\ fatal' = fatal /\ received' = Append(received, front)
    BY <1>4, Zenon DEF PopFrame
  <2>1. r < Len(sent) /\ front = r + 1
    BY <2>0, FrontFacts, Zenon
  <2>2. Len(received') = r + 1 /\ received'[r + 1] = r + 1 /\ received' # <<>>
    <3>1. front \in 1 .. MaxFrames
      BY <2>0, FrontFacts, Zenon
    <3> QED BY <1>0, <2>0, <2>1, <3>1
  <2>3. /\ SubSeq(sent, r + 1, Len(sent)) # <<>>
        /\ Head(SubSeq(sent, r + 1, Len(sent))) = sent[r + 1]
        /\ Tail(SubSeq(sent, r + 1, Len(sent))) = SubSeq(sent, (r + 1) + 1, Len(sent))
    BY <1>0, <2>1, QueueFacts, Zenon
  <2>4. Channel!Deliver
    BY <2>0, <2>2, <2>3, Zenon DEF Channel!Deliver
  <2> QED BY <2>4, Zenon DEF Channel!ChannelNext
<1>5. CASE write_all \/ close \/ receive \/ recv \/ recv_closed \/ UNCHANGED connVars
  <2>1. UNCHANGED <<sent, received, fatal>>
    BY <1>5 DEF write_all, close, receive, recv, recv_closed, connVars, writerVars
  <2> QED BY <1>1, <2>1, Zenon
<1>6. CASE receive_round
  <2>1. CASE fatal /\ UNCHANGED <<buffer, fatal, received, wire, sent, pending, closed>>
    BY <1>1, <2>1
  <2>2. CASE Waits
    BY <1>1, <2>2 DEF Waits
  <2> QED BY <1>3, <1>4, <1>6, <2>1, <2>2, RoundCases, Zenon
<1> QED BY <1>2, <1>5, <1>6, Zenon DEF TcpNext, Writer, Reader, Channel!ChannelNext

\* Framing, partial writes and partial reads cannot be observed: a TcpConnection is a
\* channel that delivers the frames sent, in order and each once, until it breaks.
THEOREM ChannelHolds == TcpSpec => ImplementsChannel
<1>1. TcpInit => Channel!ChannelInit
  BY DEF TcpInit, Channel!ChannelInit
<1>2. TcpInv /\ [TcpNext]_connVars => [Channel!ChannelNext]_(Channel!channelVars)
  BY ChannelStep
<1> QED BY <1>1, <1>2, TcpInvHolds, PTL DEF TcpSpec, ImplementsChannel, Channel!ChannelSpec
==============================================================================
