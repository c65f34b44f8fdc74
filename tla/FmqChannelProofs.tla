-------------------------- MODULE FmqChannelProofs --------------------------
(***************************************************************************)
(* The channel, for any sizes of the queue, the ring buffer and the        *)
(* packets.  The ring buffer is a bounded queue: what it holds is a        *)
(* sequence, a write appends what fits to it, a read takes from its front. *)
(* No step of the sender or of the receiver takes the message queue over   *)
(* its size, or pulls the four numbers of the ring buffer apart; and what  *)
(* the receiver hands to a client is the payload of packets that were      *)
(* sent, each once and in the order of sending.                            *)
(***************************************************************************)
EXTENDS FmqChannel, TLAPS, SequenceTheorems

-----------------------------------------------------------------------------
(* The ring buffer.                                                        *)

LEMMA SizeFacts == Size \in Nat /\ Size > 0
BY SizeAssumption

\* The ranges of a buffer's fields, one by one.
LEMMA BufferFields ==
    ASSUME NEW C, NEW rb \in Buffers(C)
    PROVE  /\ rb.buffer \in [Positions -> C \cup {Free}]
           /\ rb.read_pos \in 0..Size /\ rb.write_pos \in 0..Size
           /\ rb.read_avail \in 0..Size /\ rb.write_avail \in 0..Size
BY DEF Buffers

\* A new buffer holds nothing, and its numbers belong together.
THEOREM CreatedEmpty ==
    ASSUME NEW C
    PROVE  Created \in Buffers(C) /\ Consistent(Created) /\ Contents(Created) = <<>>
<1>1. Created \in Buffers(C) /\ Consistent(Created)
  BY SizeFacts DEF Created, Buffers, Consistent, Positions, At
<1>2. Contents(Created) = <<>>
  BY DEF Created, Contents
<1> QED BY <1>1, <1>2

\* What fits, and the fields of the buffer after a write.
LEMMA WriteFields ==
    ASSUME NEW rb, NEW src
    PROVE  /\ Write(rb, src).read_pos = rb.read_pos
           /\ Write(rb, src).write_pos = Advanced(rb.write_pos, Fit(rb, src))
           /\ Write(rb, src).read_avail = rb.read_avail + Fit(rb, src)
           /\ Write(rb, src).write_avail = rb.write_avail - Fit(rb, src)
           /\ Write(rb, src).buffer =
                [i \in Positions |-> IF Fills(rb.write_pos, Fit(rb, src), i)
                                     THEN src[Index(rb.write_pos, i)] ELSE rb.buffer[i]]
BY DEF Write

LEMMA FitFacts ==
    ASSUME NEW C, NEW rb \in Buffers(C), NEW src \in Seq(C)
    PROVE  /\ Fit(rb, src) \in 0..Size
           /\ Fit(rb, src) <= rb.write_avail
           /\ Fit(rb, src) <= Len(src)
<1>1. Len(src) \in Nat
  OBVIOUS
<1> QED BY <1>1, BufferFields, SizeFacts DEF Fit, Least

\* Positions stay positions, and a copy reads the source where it has cells.
LEMMA AdvancedInRange ==
    ASSUME NEW p \in 0..Size, NEW n \in 0..Size
    PROVE  /\ Advanced(p, n) \in 0..Size
           /\ At(Advanced(p, n), 0) = IF p + n < Size THEN p + n
                                      ELSE IF p + n = 2 * Size THEN 0 ELSE p + n - Size
BY SizeFacts DEF Advanced, At

LEMMA IndexInRange ==
    ASSUME NEW p \in 0..Size, NEW n \in 0..Size, NEW i \in Positions, Fills(p, n, i)
    PROVE  Index(p, i) \in 1..n
BY SizeFacts DEF Fills, Index, Positions

\* The numbers alone: r and w are the positions, a and v what may be read and written.
LEMMA NumbersWrite ==
    ASSUME NEW r \in 0..Size, NEW w \in 0..Size, NEW a \in 0..Size, NEW v \in 0..Size,
           a + v = Size, At(At(r, 0), a) = At(w, 0),
           NEW n \in 0..Size, n <= v
    PROVE  /\ a + n \in 0..Size /\ v - n \in 0..Size /\ a + n + (v - n) = Size
           /\ At(At(r, 0), a + n) = At(Advanced(w, n), 0)
BY SizeFacts DEF At, Advanced

LEMMA NumbersRead ==
    ASSUME NEW r \in 0..Size, NEW w \in 0..Size, NEW a \in 0..Size, NEW v \in 0..Size,
           a + v = Size, At(At(r, 0), a) = At(w, 0),
           NEW n \in 0..Size, n <= a
    PROVE  /\ a - n \in 0..Size /\ v + n \in 0..Size /\ (a - n) + (v + n) = Size
           /\ At(At(Advanced(r, n), 0), a - n) = At(w, 0)
BY SizeFacts DEF At, Advanced

\* The cell that is read as number i is an old one, or the one number i - a of the source.
LEMMA NumbersKept ==
    ASSUME NEW r \in 0..Size, NEW w \in 0..Size, NEW a \in 0..Size, NEW v \in 0..Size,
           a + v = Size, At(At(r, 0), a) = At(w, 0),
           NEW n \in 0..Size, n <= v, NEW i \in 1..(a + n)
    PROVE  /\ At(r, i - 1) \in Positions
           /\ i <= a => ~Fills(w, n, At(r, i - 1))
           /\ a < i => Fills(w, n, At(r, i - 1)) /\ Index(w, At(r, i - 1)) = i - a
BY SizeFacts DEF At, Fills, Index, Positions

\* A write keeps a buffer a buffer, whatever the positions (ringbuffer.c:153-184).
THEOREM WriteConsistent ==
    ASSUME NEW C, NEW rb \in Buffers(C), Consistent(rb), NEW src \in Seq(C)
    PROVE  Write(rb, src) \in Buffers(C) /\ Consistent(Write(rb, src))
<1> DEFINE n == Fit(rb, src)
<1>1. /\ rb.buffer \in [Positions -> C \cup {Free}]
      /\ rb.read_pos \in 0..Size /\ rb.write_pos \in 0..Size
      /\ rb.read_avail \in 0..Size /\ rb.write_avail \in 0..Size
      /\ rb.read_avail + rb.write_avail = Size
      /\ At(At(rb.read_pos, 0), rb.read_avail) = At(rb.write_pos, 0)
  BY BufferFields DEF Consistent
<1>2. n \in 0..Size /\ n <= rb.write_avail /\ n <= Len(src) /\ Len(src) \in Nat
  BY FitFacts
<1> HIDE DEF n
<1>3. ASSUME NEW i \in Positions, Fills(rb.write_pos, n, i)
      PROVE  src[Index(rb.write_pos, i)] \in C
  <2>1. Index(rb.write_pos, i) \in 1..n
    BY <1>1, <1>2, <1>3, IndexInRange
  <2>2. Index(rb.write_pos, i) \in 1..Len(src)
    BY <2>1, <1>2
  <2> QED BY <2>2
<1>4. Write(rb, src).buffer \in [Positions -> C \cup {Free}]
  BY <1>1, <1>3 DEF n, Write
<1>5. /\ Advanced(rb.write_pos, n) \in 0..Size
      /\ rb.read_avail + n \in 0..Size /\ rb.write_avail - n \in 0..Size
  <2>1. Advanced(rb.write_pos, n) \in 0..Size
    BY <1>1, <1>2, AdvancedInRange
  <2>2. rb.read_avail + n \in 0..Size /\ rb.write_avail - n \in 0..Size
    BY <1>1, <1>2, SizeFacts
  <2> QED BY <2>1, <2>2
<1>6. Write(rb, src) \in Buffers(C)
  BY <1>1, <1>4, <1>5, WriteFields DEF Buffers, n, Write
<1>7. /\ rb.read_avail + n + (rb.write_avail - n) = Size
      /\ At(At(rb.read_pos, 0), rb.read_avail + n) = At(Advanced(rb.write_pos, n), 0)
  BY <1>1, <1>2, NumbersWrite
<1>9. Consistent(Write(rb, src))
  BY <1>7 DEF Write, Consistent, n
<1> QED BY <1>6, <1>9

LEMMA ReadFields ==
    ASSUME NEW rb, NEW n
    PROVE  /\ Read(rb, n).write_pos = rb.write_pos
           /\ Read(rb, n).read_pos = Advanced(rb.read_pos, Least(n, rb.read_avail))
           /\ Read(rb, n).read_avail = rb.read_avail - Least(n, rb.read_avail)
           /\ Read(rb, n).write_avail = rb.write_avail + Least(n, rb.read_avail)
           /\ Read(rb, n).buffer =
                [i \in Positions |-> IF Fills(rb.read_pos, Least(n, rb.read_avail), i)
                                     THEN Free ELSE rb.buffer[i]]
BY DEF Read

\* So does a read (ringbuffer.c:86-120).
THEOREM ReadConsistent ==
    ASSUME NEW C, NEW rb \in Buffers(C), Consistent(rb), NEW m \in Nat
    PROVE  Read(rb, m) \in Buffers(C) /\ Consistent(Read(rb, m))
<1> DEFINE n == Least(m, rb.read_avail)
<1>1. /\ rb.buffer \in [Positions -> C \cup {Free}]
      /\ rb.read_pos \in 0..Size /\ rb.write_pos \in 0..Size
      /\ rb.read_avail \in 0..Size /\ rb.write_avail \in 0..Size
      /\ rb.read_avail + rb.write_avail = Size
      /\ At(At(rb.read_pos, 0), rb.read_avail) = At(rb.write_pos, 0)
  BY BufferFields DEF Consistent
<1>2. n \in 0..Size /\ n <= rb.read_avail
  BY <1>1, SizeFacts DEF Least
<1> HIDE DEF n
<1>4. Read(rb, m).buffer \in [Positions -> C \cup {Free}]
  BY <1>1 DEF n, Read
<1>5. /\ Advanced(rb.read_pos, n) \in 0..Size
      /\ rb.read_avail - n \in 0..Size /\ rb.write_avail + n \in 0..Size
  <2>1. Advanced(rb.read_pos, n) \in 0..Size
    BY <1>1, <1>2, AdvancedInRange
  <2>2. rb.read_avail - n \in 0..Size /\ rb.write_avail + n \in 0..Size
    BY <1>1, <1>2, SizeFacts
  <2> QED BY <2>1, <2>2
<1>6. Read(rb, m) \in Buffers(C)
  BY <1>1, <1>4, <1>5, ReadFields DEF Buffers, n, Read
<1>7. /\ (rb.read_avail - n) + (rb.write_avail + n) = Size
      /\ At(At(Advanced(rb.read_pos, n), 0), rb.read_avail - n) = At(rb.write_pos, 0)
  BY <1>1, <1>2, NumbersRead
<1>9. Consistent(Read(rb, m))
  BY <1>7 DEF Read, Consistent, n
<1> QED BY <1>6, <1>9

\* A write appends what fits, and changes nothing of what was there
\* (ringbuffer.c:153-184).
THEOREM WriteAppends ==
    ASSUME NEW C, NEW rb \in Buffers(C), Consistent(rb), NEW src \in Seq(C)
    PROVE  Contents(Write(rb, src)) = Contents(rb) \o SubSeq(src, 1, Fit(rb, src))
<1> DEFINE n == Fit(rb, src)
           old == rb.read_avail
<1>1. /\ rb.buffer \in [Positions -> C \cup {Free}]
      /\ rb.read_pos \in 0..Size /\ rb.write_pos \in 0..Size
      /\ old \in 0..Size /\ rb.write_avail \in 0..Size
      /\ old + rb.write_avail = Size
      /\ At(At(rb.read_pos, 0), old) = At(rb.write_pos, 0)
  BY BufferFields DEF Consistent
<1>2. n \in 0..Size /\ n <= rb.write_avail /\ n <= Len(src) /\ Len(src) \in Nat
  BY FitFacts
<1> HIDE DEF n, old
<1>3. Contents(Write(rb, src)) =
        [i \in 1..(old + n) |-> Write(rb, src).buffer[At(rb.read_pos, i - 1)]]
  BY DEF Write, Contents, n, old
<1>4. Contents(rb) = [i \in 1..old |-> rb.buffer[At(rb.read_pos, i - 1)]]
  BY DEF Contents, old
<1>5. \A i \in 1..(old + n) :
        /\ At(rb.read_pos, i - 1) \in Positions
        /\ i <= old => ~Fills(rb.write_pos, n, At(rb.read_pos, i - 1))
        /\ old < i => /\ Fills(rb.write_pos, n, At(rb.read_pos, i - 1))
                      /\ Index(rb.write_pos, At(rb.read_pos, i - 1)) = i - old
  <2> DEFINE v == rb.write_avail
  <2>1. v \in 0..Size /\ old + v = Size /\ n <= v
    BY <1>1, <1>2
  <2> HIDE DEF v
  <2> TAKE i \in 1..(old + n)
  <2> QED BY <1>1, <1>2, <2>1, NumbersKept
<1>8. ASSUME NEW i \in 1..(old + n)
      PROVE  Write(rb, src).buffer[At(rb.read_pos, i - 1)] =
               IF i <= old THEN rb.buffer[At(rb.read_pos, i - 1)] ELSE src[i - old]
  <2> DEFINE at == At(rb.read_pos, i - 1)
  <2>1. Write(rb, src).buffer[at] = IF Fills(rb.write_pos, n, at)
                                    THEN src[Index(rb.write_pos, at)] ELSE rb.buffer[at]
    BY <1>5, <1>8 DEF n, Write
  <2>2. i <= old \/ old < i
    BY <1>1, <1>2
  <2> QED BY <1>1, <1>2, <1>5, <1>8, <2>1, <2>2
<1>9. SubSeq(src, 1, n) \in Seq(C) /\ Len(SubSeq(src, 1, n)) = n
      /\ \A j \in 1..n : SubSeq(src, 1, n)[j] = src[j]
  BY <1>2
<1> DEFINE whole == Contents(Write(rb, src))
           front == Contents(rb)
           back == SubSeq(src, 1, n)
<1>10. /\ Len(front) = old /\ DOMAIN front = 1..old
       /\ front \in Seq(C \cup {Free})
  <2>1. ASSUME NEW i \in 1..old PROVE rb.buffer[At(rb.read_pos, i - 1)] \in C \cup {Free}
    <3>1. i \in 1..(old + n)
      BY <1>1, <1>2, SizeFacts
    <3>2. At(rb.read_pos, i - 1) \in Positions
      BY <3>1, <1>5
    <3> QED BY <3>2, <1>1
  <2>2. old \in Nat
    BY <1>1, SizeFacts
  <2>3. [i \in 1..old |-> rb.buffer[At(rb.read_pos, i - 1)]] \in [1..old -> C \cup {Free}]
    BY <2>1
  <2>4. front \in [1..old -> C \cup {Free}]
    BY <1>4, <2>3
  <2> HIDE DEF front
  <2> QED BY <2>2, <2>4
<1>11. /\ front \o back \in Seq(C \cup {Free}) /\ Len(front \o back) = old + n
       /\ \A i \in 1..(old + n) :
            (front \o back)[i] = IF i <= old THEN front[i] ELSE back[i - old]
  <2> HIDE DEF front, back
  <2>1. front \in Seq(C \cup {Free}) /\ back \in Seq(C \cup {Free})
    <3>1. back \in Seq(C) /\ Len(back) = n
      BY <1>9 DEF back
    <3> QED BY <3>1, <1>10
  <2>2. Len(front) = old /\ Len(back) = n
    BY <1>9, <1>10 DEF back
  <2> QED BY <2>1, <2>2, ConcatProperties
<1>12. \A i \in 1..(old + n) : whole[i] = IF i <= old THEN front[i] ELSE back[i - old]
  BY <1>1, <1>2, <1>3, <1>4, <1>8, <1>9
<1>13. whole \in Seq(C \cup {Free}) /\ Len(whole) = old + n
  <2>1. old + n \in Nat
    BY <1>1, <1>2, SizeFacts
  <2>2. \A i \in 1..(old + n) : whole[i] \in C \cup {Free}
    <3> HIDE DEF front, back, whole
    <3>1. ASSUME NEW i \in 1..(old + n) PROVE (front \o back)[i] \in C \cup {Free}
      BY <1>11
    <3> QED BY <3>1, <1>11, <1>12
  <2>3. whole = [i \in 1..(old + n) |-> Write(rb, src).buffer[At(rb.read_pos, i - 1)]]
    BY <1>3
  <2> HIDE DEF whole
  <2>4. whole \in [1..(old + n) -> C \cup {Free}]
    BY <2>2, <2>3
  <2> QED BY <2>1, <2>4
<1> HIDE DEF whole, front, back
<1>14. whole = front \o back
  BY <1>11, <1>12, <1>13, SeqEqual
<1> QED BY <1>14 DEF whole, front, back, n

LEMMA NumbersLeft ==
    ASSUME NEW r \in 0..Size, NEW a \in 0..Size, NEW n \in 0..Size, n <= a,
           NEW i \in 1..(a - n)
    PROVE  /\ At(Advanced(r, n), i - 1) = At(r, n + i - 1)
           /\ At(r, n + i - 1) \in Positions
           /\ ~Fills(r, n, At(r, n + i - 1))
BY SizeFacts DEF At, Advanced, Fills, Positions

\* A read takes from the front, and leaves the rest in its order
\* (ringbuffer.c:86-120).
THEOREM ReadTakes ==
    ASSUME NEW C, NEW rb \in Buffers(C), Consistent(rb), NEW m \in Nat
    PROVE  /\ Len(Contents(Read(rb, m))) = rb.read_avail - Least(m, rb.read_avail)
           /\ \A i \in 1..(rb.read_avail - Least(m, rb.read_avail)) :
                Contents(Read(rb, m))[i] = Contents(rb)[Least(m, rb.read_avail) + i]
<1> DEFINE n == Least(m, rb.read_avail)
           a == rb.read_avail
<1>1. rb.read_pos \in 0..Size /\ a \in 0..Size
  BY BufferFields
<1>2. n \in 0..Size /\ n <= a
  BY <1>1, SizeFacts DEF Least
<1> HIDE DEF n, a
<1>3. Contents(rb) = [i \in 1..a |-> rb.buffer[At(rb.read_pos, i - 1)]]
  BY DEF Contents, a
<1>4. Contents(Read(rb, m)) =
        [i \in 1..(a - n) |-> Read(rb, m).buffer[At(Advanced(rb.read_pos, n), i - 1)]]
  BY DEF Read, Contents, a, n
<1>5. ASSUME NEW i \in 1..(a - n)
      PROVE  Contents(Read(rb, m))[i] = Contents(rb)[n + i]
  <2> DEFINE at == At(rb.read_pos, n + i - 1)
  <2>1. /\ At(Advanced(rb.read_pos, n), i - 1) = at
        /\ at \in Positions /\ ~Fills(rb.read_pos, n, at)
    BY <1>1, <1>2, <1>5, NumbersLeft
  <2>2. Read(rb, m).buffer[at] = rb.buffer[at]
    BY <2>1 DEF Read, n
  <2>3. n + i \in 1..a /\ At(rb.read_pos, (n + i) - 1) = at
    BY <1>1, <1>2, <1>5
  <2>4. Contents(rb)[n + i] = rb.buffer[at]
    BY <1>3, <2>3
  <2>5. Contents(Read(rb, m))[i] = Read(rb, m).buffer[at]
    BY <1>4, <2>1
  <2> QED BY <2>2, <2>4, <2>5
<1>6. Len(Contents(Read(rb, m))) = a - n
  <2>1. a - n \in Nat
    BY <1>1, <1>2, SizeFacts
  <2> QED BY <1>4, <2>1
<1> QED BY <1>5, <1>6 DEF a, n

-----------------------------------------------------------------------------
(* Types.                                                                  *)

LEMMA Constants ==
    /\ \A n \in Reports : n \in Nat /\ n > 0
    /\ \A n \in DataSizes : n \in Nat
    /\ CellsPerWord \in Nat /\ CellsPerWord > 0
    /\ QueueSize \in Nat /\ QueueSize > 0
    /\ HeaderSize \in Nat /\ HeaderSize > 0
    /\ Size \in Nat
BY ChannelAssumption, SizeAssumption DEF HeaderSize

\* What the sender makes are sequences of cells.
LEMMA WordIsCells ==
    ASSUME NEW w \in Words, NEW n \in Nat
    PROVE  Word(w, n) \in Seq(Cells) /\ Len(Word(w, n)) = CellsPerWord
<1>1. CellsPerWord \in Nat
  BY Constants
<1>2. \A b \in 1..CellsPerWord : Cell(w, n, b) \in Cells
  BY <1>1 DEF Cell, Cells
<1>3. Word(w, n) \in [1..CellsPerWord -> Cells]
  BY <1>2 DEF Word
<1>4. DOMAIN Word(w, n) = 1..CellsPerWord
  BY <1>3
<1> QED BY <1>1, <1>3, <1>4

LEMMA HeaderIsCells ==
    ASSUME NEW size \in Nat
    PROVE  Header(size) \in Seq(Cells) /\ Len(Header(size)) > 0
<1>1. {"start", "session", "magic", "size", "type"} \subseteq Words
  BY DEF Words
<1> DEFINE a == Word("start", 0)  b == Word("session", 0)  c == Word("magic", 0)
           d == Word("size", size)  e == Word("type", 0)
<1>2. /\ a \in Seq(Cells) /\ b \in Seq(Cells) /\ c \in Seq(Cells)
      /\ d \in Seq(Cells) /\ e \in Seq(Cells)
      /\ Len(a) = CellsPerWord
  BY <1>1, WordIsCells
<1>3. Header(size) = a \o b \o c \o d \o e
  BY DEF Header
<1> HIDE DEF a, b, c, d, e
<1>4. a \o b \in Seq(Cells) /\ Len(a \o b) >= Len(a)
  BY <1>2
<1>5. a \o b \o c \in Seq(Cells) /\ Len(a \o b \o c) >= Len(a)
  BY <1>2, <1>4
<1>6. a \o b \o c \o d \in Seq(Cells) /\ Len(a \o b \o c \o d) >= Len(a)
  BY <1>2, <1>5
<1>7. a \o b \o c \o d \o e \in Seq(Cells) /\ Len(a \o b \o c \o d \o e) >= Len(a)
  BY <1>2, <1>6
<1> QED BY <1>2, <1>3, <1>7, Constants

LEMMA PayloadIsCells ==
    ASSUME NEW p \in Nat, NEW size \in Nat
    PROVE  Payload(p, size) \in Seq(Cells) /\ Len(Payload(p, size)) = size
<1>1. \A b \in 1..size : Cell("payload", p, b) \in Cells
  BY DEF Cell, Cells, Words
<1>2. Payload(p, size) \in [1..size -> Cells]
  BY <1>1 DEF Payload
<1>3. DOMAIN Payload(p, size) = 1..size
  BY <1>2
<1> QED BY <1>2, <1>3

\* What is read from the ring for a payload is a number of cells.
LEMMA DataSizeIsNat == DataSize \in Nat
<1>1. CASE \E n \in Reports \cup DataSizes : Peeked(3) = Word("size", n)
  <2>1. PICK n \in Reports \cup DataSizes : Peeked(3) = Word("size", n)
    BY <1>1
  <2>2. Word("size", n)[1] = Cell("size", n, 1)
    BY Constants DEF Word
  <2>3. Word("size", n)[1].of = n
    BY <2>2 DEF Cell
  <2> QED BY <1>1, <2>1, <2>3, Constants DEF DataSize
<1>2. CASE ~\E n \in Reports \cup DataSizes : Peeked(3) = Word("size", n)
  BY <1>2, Constants DEF DataSize
<1> QED BY <1>1, <1>2

LEMMA InitTypeOK == Init => TypeOK
<1> SUFFICES ASSUME Init PROVE TypeOK
  OBVIOUS
<1>1. ring \in Buffers(Cells) /\ Consistent(ring)
  BY CreatedEmpty DEF Init
<1>2. calls = <<>> /\ queue = <<>> /\ sent = <<>> /\ mClients = <<>>
      /\ wrote = 0 /\ receiver = "poll" /\ damaged = FALSE
  BY DEF Init
<1>3. calls \in Seq(Seq(Cells)) /\ Len(calls) = 0 /\ DOMAIN calls = {}
      /\ queue \in Seq(Cells) /\ Len(queue) = 0
      /\ sent \in Seq(Reports \cup DataSizes) /\ Len(sent) = 0
      /\ mClients \in Seq(Clients)
  BY <1>2
<1>4. MaxPackets \in Nat /\ QueueSize \in Nat
  BY ChannelAssumption
<1>5. /\ \A k \in DOMAIN calls : Len(calls[k]) > 0
      /\ wrote \in Nat /\ IF calls = <<>> THEN wrote = 0 ELSE wrote < Len(calls[1])
  BY <1>2, <1>3
<1>6. Len(sent) <= MaxPackets /\ Len(calls) <= 2 /\ Len(queue) <= QueueSize
  BY <1>3, <1>4
<1> QED BY <1>1, <1>2, <1>3, <1>5, <1>6 DEF TypeOK

LEMMA Facts ==
    ASSUME TypeOK
    PROVE  /\ ring \in Buffers(Cells) /\ Consistent(ring)
           /\ queue \in Seq(Cells) /\ Len(queue) \in Nat /\ Len(queue) <= QueueSize
           /\ calls \in Seq(Seq(Cells)) /\ wrote \in Nat
           /\ sent \in Seq(Reports \cup DataSizes)
BY DEF TypeOK

\* Reading any number of cells.
LEMMA RingAfterRead ==
    ASSUME TypeOK, NEW n \in Nat
    PROVE  Read(ring, n) \in Buffers(Cells) /\ Consistent(Read(ring, n))
BY Facts, ReadConsistent

LEMMA IdleSender == TypeOK /\ calls = <<>> /\ UNCHANGED wrote => wrote' = 0
BY DEF TypeOK

LEMMA NextTypeOK == TypeOK /\ [Next]_vars => TypeOK'
<1> SUFFICES ASSUME TypeOK, [Next]_vars PROVE TypeOK'
  OBVIOUS
<1> USE DEF senderVars, receiverVars
<1>1. ASSUME NEW size \in Reports, SubSource_Report(size) PROVE TypeOK'
  <2> DEFINE packet == Header(size) \o Payload(NextPacket, size)
  <2>1. size \in Nat /\ NextPacket \in Nat
    BY Constants, Facts DEF NextPacket
  <2>2. packet \in Seq(Cells) /\ Len(packet) > 0
    <3>1. /\ Header(size) \in Seq(Cells) /\ Len(Header(size)) > 0
          /\ Payload(NextPacket, size) \in Seq(Cells)
      BY <2>1, HeaderIsCells, PayloadIsCells
    <3> QED BY <3>1
  <2>3. calls' = <<packet>> /\ sent' = Append(sent, size) /\ Len(sent) < MaxPackets
        /\ calls = <<>>
    BY <1>1 DEF SubSource_Report, Sends
  <2> HIDE DEF packet
  <2>4. /\ calls' \in Seq(Seq(Cells)) /\ Len(calls') = 1
        /\ \A k \in DOMAIN calls' : Len(calls'[k]) > 0
        /\ calls'[1] = packet
    BY <2>2, <2>3
  <2>5. sent' \in Seq(Reports \cup DataSizes) /\ Len(sent') <= MaxPackets
    BY <2>3, Facts, ChannelAssumption
  <2>6. wrote' = 0 /\ UNCHANGED <<queue, ring, receiver, mClients, damaged>>
    BY <1>1, <2>3, IdleSender DEF SubSource_Report
  <2> QED BY <2>2, <2>4, <2>5, <2>6 DEF TypeOK
<1>2. ASSUME NEW size \in DataSizes, SubSource_SendData(size) PROVE TypeOK'
  <2> DEFINE head == Header(size)
             data == Payload(NextPacket, size)
  <2>1. size \in Nat /\ NextPacket \in Nat
    BY Constants, Facts DEF NextPacket
  <2>2. /\ head \in Seq(Cells) /\ Len(head) > 0
        /\ data \in Seq(Cells) /\ Len(data) = size
    BY <2>1, HeaderIsCells, PayloadIsCells
  <2>3. calls' = (IF size = 0 THEN <<head>> ELSE <<head, data>>)
        /\ sent' = Append(sent, size) /\ Len(sent) < MaxPackets /\ calls = <<>>
    BY <1>2 DEF SubSource_SendData, Sends
  <2> HIDE DEF head, data
  <2>4. /\ calls' \in Seq(Seq(Cells)) /\ Len(calls') <= 2
        /\ \A k \in DOMAIN calls' : Len(calls'[k]) > 0
        /\ calls'[1] = head
    <3>1. CASE size = 0
      BY <2>2, <2>3, <3>1
    <3>2. CASE size # 0
      BY <2>1, <2>2, <2>3, <3>2
    <3> QED BY <3>1, <3>2
  <2>5. sent' \in Seq(Reports \cup DataSizes) /\ Len(sent') <= MaxPackets
    BY <2>3, Facts, ChannelAssumption
  <2>6. wrote' = 0 /\ UNCHANGED <<queue, ring, receiver, mClients, damaged>>
    BY <1>2, <2>3, IdleSender DEF SubSource_SendData
  <2> QED BY <2>2, <2>4, <2>5, <2>6 DEF TypeOK
<1>3. ASSUME fmqSendData PROVE TypeOK'
  <2> DEFINE n == Least(Room, Remaining)
  <2>1. /\ calls \in Seq(Seq(Cells)) /\ calls # <<>> /\ Len(calls) <= 2
        /\ \A k \in DOMAIN calls : Len(calls[k]) > 0
        /\ wrote \in Nat /\ wrote < Len(calls[1])
    BY <1>3 DEF TypeOK, fmqSendData
  <2>2. calls[1] \in Seq(Cells) /\ Len(calls[1]) \in Nat
    BY <2>1
  <2>3. Room \in Nat /\ Room > 0 /\ Room = QueueSize - Len(queue)
    BY <1>3, Facts, Constants DEF fmqSendData, Room
  <2>4. Remaining \in Nat /\ Remaining = Len(calls[1]) - wrote
    BY <2>1, <2>2 DEF Remaining
  <2>5. n \in Nat /\ n <= Room /\ n <= Remaining /\ n <= Len(calls[1])
    BY <2>1, <2>2, <2>3, <2>4 DEF Least
  <2>6. Written(n) \in Seq(Cells) /\ Len(Written(n)) = n
    BY <2>2, <2>5 DEF Written
  <2>7. /\ queue' = queue \o Written(n)
        /\ damaged' = (damaged \/ n < Len(calls[1]))
        /\ IF n = Remaining THEN calls' = Tail(calls) /\ wrote' = 0
                            ELSE calls' = calls /\ wrote' = wrote + n
        /\ UNCHANGED <<sent, ring, receiver, mClients>>
    BY <1>3 DEF fmqSendData
  <2> HIDE DEF n
  <2>8. queue' \in Seq(Cells) /\ Len(queue') <= QueueSize
    <3>1. queue \o Written(n) \in Seq(Cells)
          /\ Len(queue \o Written(n)) = Len(queue) + n
      BY <2>6, Facts, ConcatProperties
    <3> QED BY <3>1, <2>3, <2>5, <2>7, Facts, Constants
  <2>9. /\ calls' \in Seq(Seq(Cells)) /\ Len(calls') <= 2
        /\ \A k \in DOMAIN calls' : Len(calls'[k]) > 0
        /\ wrote' \in Nat /\ IF calls' = <<>> THEN wrote' = 0 ELSE wrote' < Len(calls'[1])
    <3>1. CASE n = Remaining
      <4>1. /\ Tail(calls) \in Seq(Seq(Cells)) /\ Len(Tail(calls)) <= 2
            /\ \A k \in DOMAIN Tail(calls) : Tail(calls)[k] = calls[k + 1]
                                           /\ k + 1 \in DOMAIN calls
        BY <2>1
      <4>2. calls' = Tail(calls) /\ wrote' = 0
        BY <2>7, <3>1
      <4>3. Tail(calls) # <<>> => 1 \in DOMAIN Tail(calls)
        BY <4>1
      <4> QED BY <2>1, <4>1, <4>2, <4>3
    <3>2. CASE n # Remaining
      BY <2>1, <2>2, <2>4, <2>5, <2>7, <3>2
    <3> QED BY <3>1, <3>2
  <2>10. damaged' \in BOOLEAN
    BY <2>7
  <2> QED BY <2>7, <2>8, <2>9, <2>10 DEF TypeOK
<1>4. ASSUME readQueue PROVE TypeOK'
  <2>1. ring' \in Buffers(Cells) /\ Consistent(ring')
    BY <1>4, Facts, WriteConsistent DEF readQueue
  <2>2. damaged' \in BOOLEAN
    BY <1>4 DEF readQueue
  <2>3. queue' \in Seq(Cells) /\ Len(queue') = 0 /\ receiver' = "consume"
    BY <1>4 DEF readQueue
  <2> QED BY <1>4, <2>1, <2>2, <2>3, Constants DEF TypeOK, readQueue
<1>5. ASSUME resync PROVE TypeOK'
  <2>1. ring' \in Buffers(Cells) /\ Consistent(ring')
    BY <1>5, RingAfterRead, Constants DEF resync
  <2> QED BY <1>5, <2>1 DEF TypeOK, resync
<1>6. ASSUME waitForMore PROVE TypeOK'
  BY <1>6 DEF TypeOK, waitForMore
<1>7. ASSUME handOver PROVE TypeOK'
  <2>1. HeaderSize + DataSize \in Nat
    BY DataSizeIsNat, Constants
  <2>2. ring' \in Buffers(Cells) /\ Consistent(ring')
    BY <1>7, <2>1, RingAfterRead DEF handOver
  <2> QED BY <1>7, <2>2 DEF TypeOK, handOver
<1>8. ASSUME noMemory PROVE TypeOK'
  <2>1. ring' \in Buffers(Cells) /\ Consistent(ring')
    BY <1>8, RingAfterRead, Constants DEF noMemory
  <2> QED BY <1>8, <2>1 DEF TypeOK, noMemory
<1>9. ASSUME NEW c \in Clients, registClient(c) PROVE TypeOK'
  <2>1. mClients' \in Seq(Clients)
    BY <1>9 DEF TypeOK, registClient
  <2> QED BY <1>9, <2>1 DEF TypeOK, registClient
<1>10. ASSUME NEW c \in Clients, unregisterClient(c) PROVE TypeOK'
  <2>0. mClients \in Seq(Clients)
    BY DEF TypeOK
  <2>1. PICK i \in 1..Len(mClients) :
          mClients' = SubSeq(mClients, 1, i - 1) \o SubSeq(mClients, i + 1, Len(mClients))
    BY <1>10 DEF unregisterClient
  <2>2. /\ SubSeq(mClients, 1, i - 1) \in Seq(Clients)
        /\ SubSeq(mClients, i + 1, Len(mClients)) \in Seq(Clients)
    BY <2>0
  <2>3. mClients' \in Seq(Clients)
    BY <2>1, <2>2
  <2> QED BY <1>10, <2>3 DEF TypeOK, unregisterClient
<1>11. CASE UNCHANGED vars
  BY <1>11 DEF TypeOK, vars
<1> QED BY <1>1, <1>2, <1>3, <1>4, <1>5, <1>6, <1>7, <1>8, <1>9, <1>10, <1>11
        DEF Next, ReadLoop

\* The queue never holds more than it has room for and the numbers of the ring buffer
\* always belong together, for all sizes and any number of packets
\* (FmqReceiver.cpp:68-164, SubtitleReportAPI.cpp:137-160, ringbuffer.c:86-184).
THEOREM TypeCorrect == Spec => []TypeOK
BY InitTypeOK, NextTypeOK, PTL DEF Spec
-----------------------------------------------------------------------------
(* What is on its way from the sender to the receiver, as long as nothing  *)
(* was cut: whole packets, the next one to be handed over first.           *)

Any == Cells \cup {Free}

\* The cells of packet p.
Packet(p, size) == Header(size) \o Payload(p, size)

\* ends[i] is where packet i ends in s, which holds the packets after number k.
Cuts(ends, s, k, sizes) ==
    /\ ends \in [k..Len(sizes) -> Nat]
    /\ ends[k] = 0 /\ ends[Len(sizes)] = Len(s)
    /\ \A i, j \in k..Len(sizes) : i <= j => ends[i] <= ends[j]
    /\ \A i \in (k + 1)..Len(sizes) :
          /\ ends[i] = ends[i - 1] + HeaderSize + sizes[i]
          /\ \A b \in 1..(HeaderSize + sizes[i]) :
                s[ends[i - 1] + b] = Packet(i, sizes[i])[b]
Packed(s, k, sizes) == \E ends : Cuts(ends, s, k, sizes)

LEMMA Joined ==
    ASSUME NEW S, NEW s \in Seq(S), NEW t \in Seq(S)
    PROVE  /\ s \o t \in Seq(S) /\ Len(s \o t) = Len(s) + Len(t)
           /\ \A i \in 1..Len(s) : (s \o t)[i] = s[i]
           /\ \A i \in 1..Len(t) : (s \o t)[Len(s) + i] = t[i]
OBVIOUS

LEMMA HeaderCells ==
    ASSUME NEW size \in Nat
    PROVE  /\ Len(Header(size)) = HeaderSize
           /\ \A b \in 1..CellsPerWord :
                /\ Header(size)[b] = Cell("start", 0, b)
                /\ Header(size)[3 * CellsPerWord + b] = Cell("size", size, b)
<1>1. {"start", "session", "magic", "size", "type"} \subseteq Words
  BY DEF Words
<1> DEFINE w == CellsPerWord
           a == Word("start", 0)  b == Word("session", 0)  c == Word("magic", 0)
           d == Word("size", size)  e == Word("type", 0)
<1>2. /\ a \in Seq(Cells) /\ b \in Seq(Cells) /\ c \in Seq(Cells)
      /\ d \in Seq(Cells) /\ e \in Seq(Cells)
      /\ Len(a) = w /\ Len(b) = w /\ Len(c) = w /\ Len(d) = w /\ Len(e) = w
  BY <1>1, WordIsCells
<1>3. Header(size) = a \o b \o c \o d \o e
  BY DEF Header
<1>4. \A i \in 1..w : a[i] = Cell("start", 0, i) /\ d[i] = Cell("size", size, i)
  BY DEF Word
<1>5. w \in Nat /\ w > 0 /\ HeaderSize = 5 * w
  BY Constants DEF HeaderSize
<1> HIDE DEF a, b, c, d, e, w
<1> DEFINE ab == a \o b  abc == ab \o c  abcd == abc \o d  all == abcd \o e
<1>6. ab \in Seq(Cells) /\ Len(ab) = w + w /\ \A i \in 1..w : ab[i] = a[i]
  <2>1. /\ ab \in Seq(Cells) /\ Len(ab) = Len(a) + Len(b)
        /\ \A i \in 1..Len(a) : ab[i] = a[i]
    BY <1>2, Joined
  <2> HIDE DEF ab
  <2> QED BY <1>2, <2>1
<1> HIDE DEF ab
<1>7. /\ abc \in Seq(Cells) /\ Len(abc) = w + w + w /\ \A i \in 1..w : abc[i] = a[i]
  <2>1. /\ abc \in Seq(Cells) /\ Len(abc) = Len(ab) + Len(c)
        /\ \A i \in 1..Len(ab) : abc[i] = ab[i]
    BY <1>2, <1>6, Joined
  <2> HIDE DEF abc
  <2> QED BY <1>2, <1>5, <1>6, <2>1
<1> HIDE DEF abc
<1>8. /\ abcd \in Seq(Cells) /\ Len(abcd) = w + w + w + w
      /\ \A i \in 1..w : abcd[i] = a[i] /\ abcd[w + w + w + i] = d[i]
  <2>1. /\ abcd \in Seq(Cells) /\ Len(abcd) = Len(abc) + Len(d)
        /\ \A i \in 1..Len(abc) : abcd[i] = abc[i]
        /\ \A i \in 1..Len(d) : abcd[Len(abc) + i] = d[i]
    <3>1. abc \in Seq(Cells) /\ d \in Seq(Cells)
      BY <1>2, <1>7
    <3> QED BY <3>1
  <2> HIDE DEF abcd
  <2> QED BY <1>2, <1>5, <1>7, <2>1
<1> HIDE DEF abcd
<1>9. /\ Len(all) = w + w + w + w + w
      /\ \A i \in 1..w : all[i] = a[i] /\ all[w + w + w + i] = d[i]
  <2>1. /\ Len(all) = Len(abcd) + Len(e)
        /\ \A i \in 1..Len(abcd) : all[i] = abcd[i]
    BY <1>2, <1>8, Joined
  <2>2. \A i \in 1..w : /\ i \in 1..(w + w + w + w)
                        /\ w + w + w + i \in 1..(w + w + w + w)
    BY <1>5
  <2> HIDE DEF all
  <2> QED BY <1>2, <1>8, <2>1, <2>2
<1> HIDE DEF all
<1>10. Header(size) = all
  BY <1>3 DEF all, abcd, abc, ab
<1>11. 5 * w = w + w + w + w + w /\ 3 * w = w + w + w
  BY <1>5
<1>12. CellsPerWord = w
  BY DEF w
<1> QED BY <1>4, <1>5, <1>9, <1>10, <1>11, <1>12

LEMMA PacketCells ==
    ASSUME NEW p \in Nat, NEW size \in Nat
    PROVE  /\ Packet(p, size) \in Seq(Cells) /\ Packet(p, size) \in Seq(Any)
           /\ Len(Packet(p, size)) = HeaderSize + size
           /\ \A b \in 1..CellsPerWord :
                /\ Packet(p, size)[b] = Cell("start", 0, b)
                /\ Packet(p, size)[3 * CellsPerWord + b] = Cell("size", size, b)
           /\ \A b \in 1..size : Packet(p, size)[HeaderSize + b] = Payload(p, size)[b]
<1> DEFINE h == Header(size)  d == Payload(p, size)
<1>1. /\ h \in Seq(Cells) /\ d \in Seq(Cells) /\ Len(h) = HeaderSize /\ Len(d) = size
      /\ \A b \in 1..CellsPerWord :
           /\ h[b] = Cell("start", 0, b) /\ h[3 * CellsPerWord + b] = Cell("size", size, b)
  BY HeaderIsCells, HeaderCells, PayloadIsCells
<1> HIDE DEF h, d
<1>2. /\ h \o d \in Seq(Cells) /\ Len(h \o d) = HeaderSize + size
      /\ \A i \in 1..HeaderSize + size :
            (h \o d)[i] = IF i <= HeaderSize THEN h[i] ELSE d[i - HeaderSize]
  BY <1>1, ConcatProperties
<1>3. CellsPerWord \in Nat /\ HeaderSize \in Nat /\ HeaderSize = 5 * CellsPerWord
  BY Constants DEF HeaderSize
<1>4. \A b \in 1..CellsPerWord :
        /\ b \in 1..HeaderSize + size /\ b <= HeaderSize
        /\ 3 * CellsPerWord + b \in 1..HeaderSize + size
        /\ 3 * CellsPerWord + b <= HeaderSize
  BY <1>3
<1>5. \A b \in 1..size : /\ HeaderSize + b \in 1..HeaderSize + size
                         /\ ~(HeaderSize + b <= HeaderSize)
                         /\ (HeaderSize + b) - HeaderSize = b
  BY <1>3
<1> DEFINE all == h \o d
<1> HIDE DEF all
<1>6. /\ all \in Seq(Cells) /\ Len(all) = HeaderSize + size
      /\ \A b \in 1..CellsPerWord :
           /\ all[b] = Cell("start", 0, b)
           /\ all[3 * CellsPerWord + b] = Cell("size", size, b)
      /\ \A b \in 1..size : all[HeaderSize + b] = d[b]
  <2>1. /\ all \in Seq(Cells) /\ Len(all) = HeaderSize + size
        /\ \A i \in 1..HeaderSize + size :
              all[i] = IF i <= HeaderSize THEN h[i] ELSE d[i - HeaderSize]
    BY <1>2 DEF all
  <2>2. ASSUME NEW b \in 1..CellsPerWord
        PROVE  all[b] = h[b] /\ all[3 * CellsPerWord + b] = h[3 * CellsPerWord + b]
    BY <1>4, <2>1, Zenon
  <2>3. ASSUME NEW b \in 1..size PROVE all[HeaderSize + b] = d[b]
    <3> DEFINE i == HeaderSize + b
    <3>1. i \in 1..HeaderSize + size /\ ~(i <= HeaderSize) /\ i - HeaderSize = b
      BY <1>5
    <3> HIDE DEF i
    <3>2. all[i] = d[i - HeaderSize]
      BY <2>1, <3>1, Zenon
    <3> QED BY <3>1, <3>2, Zenon DEF i
  <2> QED BY <1>1, <2>1, <2>2, <2>3, Zenon
<1>7. all \in Seq(Any)
  BY <1>6 DEF Any
<1>8. Packet(p, size) = all
  BY DEF Packet, all, h, d
<1> QED BY <1>6, <1>7, <1>8 DEF d

LEMMA WithinRest ==
    ASSUME NEW lo \in Nat, NEW size \in Nat, NEW first \in Nat, NEW all \in Nat,
           lo >= first, lo + size <= all, NEW b \in 1..size
    PROVE  (lo - first) + b \in 1..(all - first) /\ first + ((lo - first) + b) = lo + b
OBVIOUS

LEMMA Between ==
    ASSUME NEW lo \in Nat, NEW size \in Nat, NEW all \in Nat, lo + size <= all,
           NEW b \in 1..size
    PROVE  lo + b \in 1..all
OBVIOUS

\* One packet more, behind the others.
LEMMA PackedAppend ==
    ASSUME NEW s \in Seq(Any), NEW sizes \in Seq(Nat), NEW k \in 0..Len(sizes),
           Packed(s, k, sizes), NEW n \in Nat
    PROVE  Packed(s \o Packet(Len(sizes) + 1, n), k, Append(sizes, n))
<1> DEFINE m == Len(sizes)  h == HeaderSize  q == Packet(m + 1, n)  t == s \o q
           more == Append(sizes, n)
<1>1. PICK ends : Cuts(ends, s, k, sizes)
  BY DEF Packed
<1>2. m \in Nat /\ h \in Nat /\ Len(s) \in Nat
  BY Constants
<1>3. q \in Seq(Any) /\ Len(q) = h + n
  <2>1. m + 1 \in Nat
    BY <1>2
  <2> QED BY <2>1, PacketCells
<1>4. /\ Len(more) = m + 1 /\ more[m + 1] = n
      /\ \A i \in 1..m : more[i] = sizes[i] /\ sizes[i] \in Nat
  BY <1>2
<1> HIDE DEF q, more
<1>5. /\ Len(t) = Len(s) + h + n
      /\ \A i \in 1..Len(s) : t[i] = s[i]
      /\ \A b \in 1..(h + n) : t[Len(s) + b] = q[b]
  <2>1. /\ Len(t) = Len(s) + Len(q)
        /\ \A i \in 1..Len(s) : t[i] = s[i]
        /\ \A b \in 1..Len(q) : t[Len(s) + b] = q[b]
    BY <1>3
  <2> HIDE DEF t
  <2> QED BY <1>2, <1>3, <2>1
<1> DEFINE new == [i \in k..(m + 1) |-> IF i <= m THEN ends[i] ELSE Len(s) + h + n]
<1>6. /\ ends \in [k..m -> Nat] /\ ends[k] = 0 /\ ends[m] = Len(s)
      /\ \A i, j \in k..m : i <= j => ends[i] <= ends[j]
      /\ \A i \in (k + 1)..m :
            /\ ends[i] = ends[i - 1] + h + sizes[i]
            /\ \A b \in 1..(h + sizes[i]) : s[ends[i - 1] + b] = Packet(i, sizes[i])[b]
  BY <1>1 DEF Cuts
<1>7. /\ new[m + 1] = Len(s) + h + n
      /\ \A i \in k..m : new[i] = ends[i] /\ ends[i] \in Nat /\ ends[i] <= Len(s)
  <2>1. m + 1 \in k..(m + 1) /\ ~(m + 1 <= m)
    BY <1>2
  <2>2. ASSUME NEW i \in k..m
        PROVE  new[i] = ends[i] /\ ends[i] \in Nat /\ ends[i] <= Len(s)
    <3>1. i \in k..(m + 1) /\ i <= m /\ m \in k..m
      BY <1>2
    <3> QED BY <1>6, <3>1
  <2> QED BY <2>1, <2>2
<1>8. new \in [k..(m + 1) -> Nat] /\ new[k] = 0 /\ new[m + 1] = Len(t)
  BY <1>2, <1>5, <1>6, <1>7
<1> HIDE DEF t, new
<1>9. ASSUME NEW i \in k..(m + 1), NEW j \in k..(m + 1), i <= j
      PROVE  new[i] <= new[j]
  <2>1. CASE j <= m
    <3>1. i \in k..m /\ j \in k..m
      BY <1>2, <1>9, <2>1
    <3> QED BY <1>6, <1>7, <1>9, <3>1
  <2>2. CASE j = m + 1 /\ i <= m
    <3>1. new[i] <= Len(s) /\ new[i] \in Nat
      BY <1>2, <1>7, <2>2
    <3> QED BY <1>2, <1>7, <2>2, <3>1
  <2>3. CASE j = m + 1 /\ i = m + 1
    BY <1>2, <1>7, <2>3
  <2> QED BY <1>2, <1>9, <2>1, <2>2, <2>3
<1>10. ASSUME NEW i \in (k + 1)..(m + 1)
       PROVE  /\ new[i] = new[i - 1] + h + more[i]
              /\ \A b \in 1..(h + more[i]) : t[new[i - 1] + b] = Packet(i, more[i])[b]
  <2>1. CASE i <= m
    <3>1. /\ i - 1 \in k..m /\ i \in k..m /\ i \in 1..m /\ i \in (k + 1)..m
      BY <1>2, <2>1
    <3>2. /\ new[i] = ends[i] /\ new[i - 1] = ends[i - 1] /\ more[i] = sizes[i]
          /\ ends[i] = ends[i - 1] + h + sizes[i]
          /\ ends[i] \in Nat /\ ends[i - 1] \in Nat /\ ends[i] <= Len(s) /\ sizes[i] \in Nat
      BY <1>4, <1>6, <1>7, <3>1
    <3>3. ASSUME NEW b \in 1..(h + sizes[i])
          PROVE  t[ends[i - 1] + b] = Packet(i, sizes[i])[b]
      <4>1. ends[i - 1] + b \in 1..Len(s)
        <5>1. h + sizes[i] \in Nat /\ ends[i - 1] + (h + sizes[i]) <= Len(s)
          <6> DEFINE lo == ends[i - 1]  size == sizes[i]
          <6>1. lo \in Nat /\ size \in Nat /\ lo + h + size <= Len(s)
            BY <3>2
          <6> HIDE DEF lo, size
          <6>2. h + size \in Nat /\ lo + (h + size) <= Len(s)
            BY <1>2, <6>1
          <6> QED BY <6>2 DEF lo, size
        <5> QED BY <1>2, <3>2, <5>1, Between
      <4>2. s[ends[i - 1] + b] = Packet(i, sizes[i])[b]
        BY <1>6, <3>1
      <4> QED BY <1>5, <4>1, <4>2
    <3> QED BY <3>2, <3>3
  <2>2. CASE i = m + 1
    <3>1. m \in k..m /\ i - 1 = m
      BY <1>2, <2>2
    <3>2. new[i - 1] = Len(s) /\ new[i] = Len(s) + h + n /\ more[i] = n
      BY <1>4, <1>6, <1>7, <2>2, <3>1
    <3> QED BY <1>5, <2>2, <3>2 DEF q
  <2> QED BY <1>2, <2>1, <2>2
<1>11. Cuts(new, t, k, more)
  BY <1>4, <1>8, <1>9, <1>10 DEF Cuts
<1> QED BY <1>11 DEF Packed, t, q, more

\* The first packet gone: the rest is packed as before.
LEMMA PackedTake ==
    ASSUME NEW s \in Seq(Any), NEW sizes \in Seq(Nat), NEW k \in 0..Len(sizes),
           Packed(s, k, sizes), k < Len(sizes),
           NEW t, Len(t) = Len(s) - (HeaderSize + sizes[k + 1]),
           \A b \in 1..Len(t) : t[b] = s[(HeaderSize + sizes[k + 1]) + b]
    PROVE  Packed(t, k + 1, sizes)
<1> DEFINE m == Len(sizes)  h == HeaderSize  first == h + sizes[k + 1]
<1>1. PICK ends : Cuts(ends, s, k, sizes)
  BY DEF Packed
<1>2. m \in Nat /\ h \in Nat /\ Len(s) \in Nat /\ first \in Nat
  BY Constants
<1>3. /\ ends \in [k..m -> Nat] /\ ends[k] = 0 /\ ends[m] = Len(s)
      /\ \A i, j \in k..m : i <= j => ends[i] <= ends[j]
      /\ \A i \in (k + 1)..m :
            /\ ends[i] = ends[i - 1] + h + sizes[i]
            /\ \A b \in 1..(h + sizes[i]) : s[ends[i - 1] + b] = Packet(i, sizes[i])[b]
  BY <1>1 DEF Cuts
<1>4. k + 1 \in (k + 1)..m /\ (k + 1) - 1 = k /\ k + 1 \in k..m
  BY <1>2
<1>5. ends[k + 1] = first
  BY <1>2, <1>3, <1>4
<1>6. /\ Len(t) = Len(s) - first
      /\ \A b \in 1..Len(t) : t[b] = s[first + b]
  OBVIOUS
<1> HIDE DEF first
<1> DEFINE new == [i \in (k + 1)..m |-> ends[i] - first]
<1>7. \A i \in (k + 1)..m : /\ new[i] = ends[i] - first
                            /\ ends[i] \in Nat /\ ends[i] >= first /\ ends[i] <= Len(s)
  <2>1. ASSUME NEW i \in (k + 1)..m
        PROVE  ends[i] \in Nat /\ ends[i] >= first /\ ends[i] <= Len(s)
    <3>1. i \in k..m /\ m \in k..m /\ k + 1 <= i /\ i <= m
      BY <1>2, <2>1
    <3>2. ends[k + 1] <= ends[i] /\ ends[i] <= ends[m]
      BY <1>3, <1>4, <3>1
    <3>3. ends[i] \in Nat /\ ends[m] = Len(s)
      BY <1>3, <3>1
    <3> QED BY <1>5, <3>2, <3>3
  <2> QED BY <2>1
<1>8. new \in [(k + 1)..m -> Nat] /\ new[k + 1] = 0 /\ new[m] = Len(t)
  <2>1. m \in (k + 1)..m
    BY <1>2
  <2>2. \A e \in Nat : e >= first => e - first \in Nat
    BY <1>2
  <2>3. \A i \in (k + 1)..m : ends[i] - first \in Nat
    BY <1>7, <2>2
  <2>4. new \in [(k + 1)..m -> Nat]
    BY <2>3
  <2>5. new[k + 1] = ends[k + 1] - first /\ new[m] = ends[m] - first
    BY <1>4, <1>7, <2>1
  <2>6. new[k + 1] = 0
    BY <1>2, <1>5, <2>5
  <2>7. new[m] = Len(t)
    BY <1>3, <1>6, <2>5
  <2> QED BY <2>4, <2>6, <2>7
<1> HIDE DEF new
<1>9. ASSUME NEW i \in (k + 1)..m, NEW j \in (k + 1)..m, i <= j
      PROVE  new[i] <= new[j]
  <2>1. i \in k..m /\ j \in k..m
    BY <1>2
  <2>2. ends[i] <= ends[j]
    BY <1>3, <1>9, <2>1
  <2>3. /\ new[i] = ends[i] - first /\ ends[i] \in Nat
        /\ new[j] = ends[j] - first /\ ends[j] \in Nat
    BY <1>7
  <2>4. \A x, y \in Nat : x <= y => x - first <= y - first
    BY <1>2
  <2> QED BY <2>2, <2>3, <2>4
<1>10. ASSUME NEW i \in (k + 2)..m
       PROVE  /\ new[i] = new[i - 1] + h + sizes[i]
              /\ \A b \in 1..(h + sizes[i]) : t[new[i - 1] + b] = Packet(i, sizes[i])[b]
  <2>1. /\ i \in (k + 1)..m /\ i - 1 \in (k + 1)..m /\ i \in 1..m
    <3>1. k \in Nat /\ m \in Nat
      BY <1>2
    <3>2. i \in Int /\ k + 2 <= i /\ i <= m
      BY <1>10, <3>1
    <3> HIDE DEF m
    <3> QED BY <3>1, <3>2
  <2>2. /\ ends[i] = ends[i - 1] + h + sizes[i] /\ sizes[i] \in Nat
        /\ new[i] = ends[i] - first /\ new[i - 1] = ends[i - 1] - first
        /\ ends[i - 1] \in Nat /\ ends[i - 1] >= first /\ ends[i] <= Len(s)
    <3>1. ends[i] = ends[i - 1] + h + sizes[i]
      BY <1>3, <2>1
    <3>2. sizes[i] \in Nat
      BY <2>1
    <3>3. /\ new[i] = ends[i] - first /\ new[i - 1] = ends[i - 1] - first
          /\ ends[i - 1] \in Nat /\ ends[i - 1] >= first /\ ends[i] <= Len(s)
      BY <1>7, <2>1
    <3> QED BY <3>1, <3>2, <3>3
  <2>3. ASSUME NEW b \in 1..(h + sizes[i])
        PROVE  t[new[i - 1] + b] = Packet(i, sizes[i])[b]
    <3> DEFINE hi == ends[i]  lo == ends[i - 1]  size == sizes[i]
    <3>0. /\ hi = lo + h + size /\ lo \in Nat /\ size \in Nat /\ lo >= first /\ hi <= Len(s)
          /\ new[i - 1] = lo - first
      BY <2>2
    <3>00. Len(t) = Len(s) - first
      BY <1>6
    <3> DEFINE n == h + size  all == Len(s)
    <3>1. lo \in Nat /\ n \in Nat /\ first \in Nat /\ all \in Nat /\ lo >= first /\ b \in 1..n
      <4>1. size \in Nat /\ lo \in Nat /\ lo >= first
        BY <3>0
      <4>2. h \in Nat /\ all \in Nat /\ first \in Nat
        BY <1>2
      <4>3. b \in 1..n
        BY DEF size
      <4> HIDE DEF hi, lo, size, all, h
      <4>4. n \in Nat
        BY <4>1, <4>2
      <4> HIDE DEF n
      <4> QED BY <4>1, <4>2, <4>3, <4>4
    <3>2. lo + n <= all
      <4>1. hi = lo + h + size /\ hi <= all /\ size \in Nat /\ lo \in Nat /\ h \in Nat
        BY <1>2, <3>0
      <4> HIDE DEF hi, lo, size, all, h
      <4> QED BY <4>1
    <3> HIDE DEF hi, lo, size, n, all
    <3>3. new[i - 1] + b \in 1..Len(t) /\ first + (new[i - 1] + b) = ends[i - 1] + b
      <4>1. (lo - first) + b \in 1..(all - first) /\ first + ((lo - first) + b) = lo + b
        BY <3>1, <3>2, WithinRest
      <4>2. new[i - 1] = lo - first /\ Len(t) = all - first
        BY <3>0, <3>00, Zenon DEF all
      <4> QED BY <4>1, <4>2, Zenon DEF lo
    <3>4. t[new[i - 1] + b] = s[ends[i - 1] + b]
      BY <1>6, <3>3
    <3>5. s[ends[i - 1] + b] = Packet(i, sizes[i])[b]
      BY <1>3, <2>1, Zenon
    <3> QED BY <3>4, <3>5, Zenon
  <2>4. new[i] = new[i - 1] + h + sizes[i]
    <3> DEFINE hi == ends[i]  lo == ends[i - 1]  size == sizes[i]
    <3>1. /\ hi = lo + h + size /\ lo \in Nat /\ size \in Nat
          /\ new[i] = hi - first /\ new[i - 1] = lo - first
      BY <2>2
    <3>2. h \in Nat /\ first \in Nat
      BY <1>2
    <3> HIDE DEF hi, lo, size, h
    <3>3. (lo + h + size) - first = (lo - first) + h + size
      BY <3>1, <3>2
    <3> QED BY <3>1, <3>3 DEF size
  <2> QED BY <2>3, <2>4
<1>11. (k + 1) + 1 = k + 2
  BY <1>2
<1>12. Cuts(new, t, k + 1, sizes)
  BY <1>8, <1>9, <1>10, <1>11 DEF Cuts
<1> QED BY <1>12 DEF Packed

\* The first packet is whole, and its cells are the first of all.
LEMMA PackedFirst ==
    ASSUME NEW s \in Seq(Any), NEW sizes \in Seq(Nat), NEW k \in 0..Len(sizes),
           Packed(s, k, sizes), Len(s) > 0
    PROVE  /\ k < Len(sizes) /\ sizes[k + 1] \in Nat
           /\ HeaderSize + sizes[k + 1] <= Len(s)
           /\ \A b \in 1..(HeaderSize + sizes[k + 1]) :
                s[b] = Packet(k + 1, sizes[k + 1])[b]
<1> DEFINE m == Len(sizes)  h == HeaderSize
<1>1. PICK ends : Cuts(ends, s, k, sizes)
  BY DEF Packed
<1>2. m \in Nat /\ h \in Nat /\ Len(s) \in Nat
  BY Constants
<1>3. /\ ends \in [k..m -> Nat] /\ ends[k] = 0 /\ ends[m] = Len(s)
      /\ \A i, j \in k..m : i <= j => ends[i] <= ends[j]
      /\ \A i \in (k + 1)..m :
            /\ ends[i] = ends[i - 1] + h + sizes[i]
            /\ \A b \in 1..(h + sizes[i]) : s[ends[i - 1] + b] = Packet(i, sizes[i])[b]
  BY <1>1 DEF Cuts
<1>4. k < m
  BY <1>2, <1>3
<1>5. k + 1 \in (k + 1)..m /\ (k + 1) - 1 = k /\ k + 1 \in k..m /\ k + 1 \in 1..m
      /\ m \in k..m /\ k + 1 <= m
  BY <1>2, <1>4
<1>6. sizes[k + 1] \in Nat
  BY <1>5
<1>7. ends[k + 1] = h + sizes[k + 1] /\ ends[k + 1] <= Len(s)
  <2>1. ends[k + 1] = ends[(k + 1) - 1] + h + sizes[k + 1]
    BY <1>3, <1>5, Zenon
  <2>2. ends[(k + 1) - 1] = 0
    BY <1>3, <1>5, Zenon
  <2>3. ends[k + 1] <= ends[m]
    BY <1>3, <1>5, Zenon
  <2> DEFINE x == sizes[k + 1]
  <2> HIDE DEF x
  <2>4. h \in Nat /\ x \in Nat /\ ends[k + 1] = 0 + h + x
    BY <1>2, <1>6, <2>1, <2>2 DEF x
  <2> HIDE DEF h
  <2>5. ends[k + 1] = h + x
    BY <2>4
  <2> QED BY <1>3, <2>3, <2>5 DEF x
<1>8. ASSUME NEW b \in 1..(h + sizes[k + 1])
      PROVE  s[b] = Packet(k + 1, sizes[k + 1])[b]
  <2>1. s[ends[(k + 1) - 1] + b] = Packet(k + 1, sizes[k + 1])[b]
    BY <1>3, <1>5
  <2>2. ends[(k + 1) - 1] + b = b
    BY <1>2, <1>3, <1>5, <1>6
  <2> QED BY <2>1, <2>2
<1> QED BY <1>4, <1>6, <1>7, <1>8
\* What a buffer holds is a sequence, and a look at it gives its first cells.
LEMMA ContentsIsSeq ==
    ASSUME NEW C, NEW rb \in Buffers(C), Consistent(rb)
    PROVE  /\ rb.read_avail \in Nat /\ rb.read_avail <= Size
           /\ Contents(rb) \in Seq(C \cup {Free}) /\ Len(Contents(rb)) = rb.read_avail
<1> DEFINE a == rb.read_avail
<1>1. /\ rb.buffer \in [Positions -> C \cup {Free}]
      /\ rb.read_pos \in 0..Size /\ a \in 0..Size
  BY BufferFields
<1>2. a \in Nat /\ a <= Size
  BY <1>1, SizeFacts
<1>3. ASSUME NEW i \in 1..a PROVE rb.buffer[At(rb.read_pos, i - 1)] \in C \cup {Free}
  <2>1. At(rb.read_pos, i - 1) \in Positions
    BY <1>1, SizeFacts DEF At, Positions
  <2> QED BY <1>1, <2>1
<1>4. Contents(rb) = [i \in 1..a |-> rb.buffer[At(rb.read_pos, i - 1)]]
  BY DEF Contents
<1> HIDE DEF a
<1>5. Contents(rb) \in [1..a -> C \cup {Free}] /\ DOMAIN Contents(rb) = 1..a
  BY <1>3, <1>4
<1> DEFINE whole == Contents(rb)
<1>6. whole \in [1..a -> C \cup {Free}] /\ DOMAIN whole = 1..a
  BY <1>5
<1> HIDE DEF whole
<1>7. whole \in Seq(C \cup {Free}) /\ Len(whole) = a
  BY <1>2, <1>6
<1> QED BY <1>2, <1>7 DEF a, whole

LEMMA PeekShows ==
    ASSUME NEW rb, rb.read_avail \in Nat, NEW n \in Nat, n <= rb.read_avail
    PROVE  Peek(rb, n) = [i \in 1..n |-> Contents(rb)[i]]
<1>1. Least(n, rb.read_avail) = n
  BY DEF Least
<1>2. ASSUME NEW i \in 1..n
      PROVE  Contents(rb)[i] = rb.buffer[At(rb.read_pos, i - 1)]
  <2>1. i \in 1..rb.read_avail
    OBVIOUS
  <2> QED BY <2>1 DEF Contents
<1> QED BY <1>1, <1>2 DEF Peek

\* What the sender still has to write, and all that was sent and not handed over.
Unwritten == IF calls = <<>> THEN <<>>
             ELSE IF Len(calls) = 1 THEN calls[1] ELSE calls[1] \o calls[2]
OnTheWay == Contents(ring) \o (queue \o Unwritten)

Handed == [to : Clients \cup {NoClient}, data : Seq(Cells)]

\* As long as nothing was cut: what was handed over is what was sent first, and the rest
\* is on its way, packet after packet.
Conveys ==
    Unharmed =>
        /\ wrote = 0
        /\ handled \in Seq(Handed) /\ Len(handled) <= Len(sent)
        /\ \A i \in 1..Len(handled) : handled[i].data = Payload(i, sent[i])
        /\ Packed(OnTheWay, Len(handled), sent)

\* One or two calls of a packet.
LEMMA OneOrTwo ==
    ASSUME NEW S, NEW s \in Seq(S), Len(s) <= 2, s # <<>>
    PROVE  \/ Len(s) = 1 /\ DOMAIN s = 1..1 /\ Tail(s) = <<>>
           \/ /\ Len(s) = 2 /\ DOMAIN s = 1..2 /\ s[2] \in S
              /\ Tail(s) # <<>> /\ Len(Tail(s)) = 1 /\ Tail(s)[1] = s[2]
<1>1. Len(s) \in Nat /\ Len(s) # 0 /\ DOMAIN s = 1..Len(s)
  BY EmptySeq
<1>2. CASE Len(s) = 1
  <2>1. Tail(s) \in Seq(S) /\ Len(Tail(s)) = 0
    BY <1>2, HeadTailProperties
  <2> QED BY <1>1, <1>2, <2>1, EmptySeq
<1>3. CASE Len(s) = 2
  <2>1. Tail(s) \in Seq(S) /\ Len(Tail(s)) = 1 /\ \A i \in 1..1 : Tail(s)[i] = s[i + 1]
    BY <1>3, HeadTailProperties
  <2>2. Tail(s) # <<>> /\ Tail(s)[1] = s[2]
    <3>1. Tail(s) # <<>>
      <4>1. Len(<<>>) = 0 /\ 0 # 1
        OBVIOUS
      <4> DEFINE left == Tail(s)
      <4>2. Len(left) = 1
        BY <2>1
      <4> HIDE DEF left
      <4>3. left # <<>>
        BY <4>1, <4>2
      <4> QED BY <4>3 DEF left
    <3>2. 1 \in 1..1 /\ 1 + 1 = 2
      OBVIOUS
    <3>3. Tail(s)[1] = s[1 + 1]
      BY <2>1, <3>2
    <3> QED BY <3>1, <3>2, <3>3
  <2>3. s[2] \in S
    <3>1. s \in [1..2 -> S] /\ 2 \in 1..2
      BY <1>1, <1>3, LenProperties
    <3> QED BY <3>1
  <2> QED BY <1>1, <1>3, <2>1, <2>2, <2>3
<1> QED BY <1>1, <1>2, <1>3

\* Joining three sequences, as one fact that is cited without its reasons.
Joins(a, b, c) == (a \o b) \o c = a \o (b \o c)

LEMMA JoinsAnyhow ==
  ASSUME NEW S, NEW a \in Seq(S), NEW b \in Seq(S), NEW c \in Seq(S)
  PROVE  Joins(a, b, c)
BY ConcatAssociative DEF Joins

LEMMA WayFacts ==
    ASSUME TypeOK
    PROVE  /\ sent \in Seq(Nat) /\ Len(sent) \in Nat
           /\ Contents(ring) \in Seq(Any) /\ Len(Contents(ring)) = ring.read_avail
           /\ ring.read_avail \in Nat /\ ring.read_avail <= Size
           /\ queue \in Seq(Any) /\ Unwritten \in Seq(Any)
           /\ OnTheWay \in Seq(Any)
           /\ \A k \in DOMAIN calls : calls[k] \in Seq(Any)
<1>1. sent \in Seq(Nat) /\ Len(sent) \in Nat
  <2>1. Reports \cup DataSizes \subseteq Nat
    BY Constants
  <2> QED BY Facts, <2>1
<1>2. /\ Contents(ring) \in Seq(Any) /\ Len(Contents(ring)) = ring.read_avail
      /\ ring.read_avail \in Nat /\ ring.read_avail <= Size
  BY Facts, ContentsIsSeq DEF Any
<1>3. \A s \in Seq(Cells) : s \in Seq(Any)
  BY DEF Any
<1>4. /\ queue \in Seq(Cells) /\ calls \in Seq(Seq(Cells)) /\ Len(calls) <= 2
  BY DEF TypeOK
<1>5. queue \in Seq(Any) /\ \A k \in DOMAIN calls : calls[k] \in Seq(Any)
  BY <1>3, <1>4
<1>6. Unwritten \in Seq(Any)
  <2>1. CASE calls = <<>>
    BY <2>1 DEF Unwritten
  <2>2. CASE calls # <<>> /\ Len(calls) = 1
    <3>1. 1 \in DOMAIN calls
      BY <1>4, <2>2
    <3> QED BY <1>5, <2>2, <3>1 DEF Unwritten
  <2>3. CASE calls # <<>> /\ Len(calls) # 1
    <3>1. 1 \in DOMAIN calls /\ 2 \in DOMAIN calls
      <4>1. DOMAIN calls = 1..2
        BY <1>4, <2>3, OneOrTwo
      <4> QED BY <4>1
    <3>2. calls[1] \in Seq(Any) /\ calls[2] \in Seq(Any)
      BY <1>5, <3>1
    <3>3. calls[1] \o calls[2] \in Seq(Any)
      BY <3>2
    <3> QED BY <2>3, <3>3 DEF Unwritten
  <2> QED BY <2>1, <2>2, <2>3
<1>7. OnTheWay \in Seq(Any)
  BY <1>2, <1>5, <1>6 DEF OnTheWay
<1> QED BY <1>1, <1>2, <1>5, <1>6, <1>7

LEMMA InitConveys == Init => Conveys
<1> SUFFICES ASSUME Init PROVE Conveys
  OBVIOUS
<1>1. /\ sent = <<>> /\ calls = <<>> /\ wrote = 0 /\ queue = <<>> /\ handled = <<>>
      /\ ring = Created
  BY DEF Init
<1>2. Contents(ring) = <<>>
  BY <1>1, CreatedEmpty
<1>3. OnTheWay = <<>>
  BY <1>1, <1>2 DEF OnTheWay, Unwritten
<1> DEFINE ends == [i \in 0..0 |-> 0]
<1>4. Cuts(ends, <<>>, 0, <<>>)
  BY DEF Cuts
<1>5. Packed(OnTheWay, Len(handled), sent)
  BY <1>1, <1>3, <1>4 DEF Packed
<1>6. handled \in Seq(Handed) /\ Len(handled) = 0 /\ Len(sent) = 0
  BY <1>1
<1> QED BY <1>1, <1>5, <1>6 DEF Conveys

\* The receiver finds the next packet where it looks for it.
LEMMA NextInRing ==
    ASSUME TypeOK, Conveys, Unharmed, HasHeader
    PROVE  LET p == Len(handled) + 1 IN
           /\ p \in 1..Len(sent) /\ sent[p] \in Nat
           /\ InSync /\ DataSize = sent[p]
           /\ Enough => Peek(Read(ring, HeaderSize), DataSize) = Payload(p, sent[p])
<1> DEFINE k == Len(handled)  p == k + 1  n == sent[p]  w == CellsPerWord
           held == Contents(ring)
<1>1. /\ sent \in Seq(Nat) /\ Len(sent) \in Nat /\ k \in Nat /\ k <= Len(sent)
      /\ Packed(OnTheWay, k, sent)
  BY WayFacts DEF Conveys
<1>2. /\ held \in Seq(Any) /\ Len(held) = ring.read_avail
      /\ ring.read_avail \in Nat /\ ring.read_avail > HeaderSize
      /\ OnTheWay \in Seq(Any)
  BY WayFacts DEF HasHeader, Available
<1>3. Len(OnTheWay) >= Len(held) /\ \A i \in 1..Len(held) : OnTheWay[i] = held[i]
  <2>1. queue \o Unwritten \in Seq(Any)
    BY WayFacts
  <2> DEFINE rest == queue \o Unwritten
  <2> HIDE DEF rest, held
  <2>2. rest \in Seq(Any)
    BY <2>1 DEF rest
  <2>3. /\ Len(held \o rest) >= Len(held)
        /\ \A i \in 1..Len(held) : (held \o rest)[i] = held[i]
    BY <1>2, <2>2
  <2> QED BY <2>3 DEF OnTheWay, rest, held
<1>4. w \in Nat /\ w > 0 /\ HeaderSize \in Nat /\ HeaderSize = 5 * w /\ HeaderSize > 0
  BY Constants DEF HeaderSize
<1>5. /\ k < Len(sent) /\ n \in Nat
      /\ \A b \in 1..(HeaderSize + n) : OnTheWay[b] = Packet(p, n)[b]
  <2>1. k \in 0..Len(sent) /\ Len(OnTheWay) > 0
    BY <1>1, <1>2, <1>3, <1>4
  <2> QED BY <1>1, <1>2, <2>1, PackedFirst
<1>6. p \in 1..Len(sent)
  BY <1>1, <1>5
<1>7. /\ \A b \in 1..w : /\ Packet(p, n)[b] = Cell("start", 0, b)
                         /\ Packet(p, n)[3 * w + b] = Cell("size", n, b)
      /\ \A b \in 1..n : Packet(p, n)[HeaderSize + b] = Payload(p, n)[b]
  <2>1. p \in Nat /\ n \in Nat
    BY <1>1, <1>5
  <2> HIDE DEF p, n
  <2> QED BY <2>1, PacketCells
<1>8. Peek(ring, HeaderSize) = [i \in 1..HeaderSize |-> held[i]]
  <2>1. HeaderSize <= ring.read_avail
    BY <1>2, <1>4
  <2> QED BY <1>2, <1>4, <2>1, PeekShows
<1> HIDE DEF k, p, n, w, held
<1>9. ASSUME NEW b \in 1..w
      PROVE  /\ Peek(ring, HeaderSize)[b] = Cell("start", 0, b)
             /\ Peek(ring, HeaderSize)[3 * w + b] = Cell("size", n, b)
  <2>1. /\ b \in 1..HeaderSize /\ b \in 1..Len(held) /\ b \in 1..(HeaderSize + n)
        /\ 3 * w + b \in 1..HeaderSize /\ 3 * w + b \in 1..Len(held)
        /\ 3 * w + b \in 1..(HeaderSize + n)
    BY <1>2, <1>4, <1>5
  <2> QED BY <1>3, <1>5, <1>7, <1>8, <2>1
<1>10. Peeked(0) = [b \in 1..w |-> Cell("start", 0, b)]
  <2>1. Peeked(0) = SubSeq(Peek(ring, HeaderSize), 1, w)
    BY <1>4 DEF Peeked, w
  <2>2. SubSeq(Peek(ring, HeaderSize), 1, w) = [b \in 1..w |-> Peek(ring, HeaderSize)[b]]
    BY <1>4, <1>8
  <2> QED BY <1>9, <2>1, <2>2
<1>11. Peeked(3) = [b \in 1..w |-> Cell("size", n, b)]
  <2> DEFINE look == Peek(ring, HeaderSize)
  <2>1. Peeked(3) = SubSeq(look, 3 * w + 1, 4 * w)
    BY <1>4 DEF Peeked, w
  <2> HIDE DEF look
  <2>2. SubSeq(look, 3 * w + 1, 4 * w) = [b \in 1..w |-> look[3 * w + b]]
    <3>1. 4 * w - (3 * w + 1) + 1 = w
      BY <1>4
    <3>2. \A b \in 1..w : (3 * w + 1) + b - 1 = 3 * w + b
      BY <1>4
    <3>3. SubSeq(look, 3 * w + 1, 4 * w)
            = [b \in 1..(4 * w - (3 * w + 1) + 1) |-> look[(3 * w + 1) + b - 1]]
      BY <1>4
    <3> QED BY <3>1, <3>2, <3>3
  <2> QED BY <1>9, <2>1, <2>2 DEF look
<1>12. InSync
  BY <1>10 DEF InSync, Word, w
<1>13. DataSize = n
  <2>1. Peeked(3) = Word("size", n)
    BY <1>11 DEF Word, w
  <2>2. n \in Reports \cup DataSizes
    BY <1>6, Facts DEF n
  <2>3. Peeked(3)[1] = Cell("size", n, 1)
    BY <1>4, <1>11
  <2> QED BY <2>1, <2>2, <2>3 DEF DataSize, Cell
<1>14. ASSUME Enough PROVE Peek(Read(ring, HeaderSize), n) = Payload(p, n)
  <2> DEFINE rest == Read(ring, HeaderSize)
  <2>1. /\ rest \in Buffers(Cells) /\ Consistent(rest)
    BY <1>4, RingAfterRead
  <2>2. Least(HeaderSize, ring.read_avail) = HeaderSize
    BY <1>2, <1>4 DEF Least
  <2>3. /\ Len(Contents(rest)) = ring.read_avail - HeaderSize
        /\ \A i \in 1..(ring.read_avail - HeaderSize) :
              Contents(rest)[i] = held[HeaderSize + i]
    <3>1. LET count == Least(HeaderSize, ring.read_avail) IN
          /\ Len(Contents(rest)) = ring.read_avail - count
          /\ \A i \in 1..(ring.read_avail - count) :
                Contents(rest)[i] = Contents(ring)[count + i]
      BY <1>4, Facts, ReadTakes
    <3> QED BY <2>2, <3>1 DEF held
  <2>4. rest.read_avail \in Nat /\ Len(Contents(rest)) = rest.read_avail
    BY <2>1, ContentsIsSeq
  <2> HIDE DEF rest
  <2>5. n <= rest.read_avail
    BY <1>2, <1>4, <1>5, <1>13, <1>14, <2>3, <2>4 DEF Enough, Available
  <2>6. Peek(rest, n) = [i \in 1..n |-> Contents(rest)[i]]
    BY <1>5, <2>4, <2>5, PeekShows
  <2>7. ASSUME NEW i \in 1..n PROVE Contents(rest)[i] = Payload(p, n)[i]
    <3>1. /\ i \in 1..(ring.read_avail - HeaderSize)
          /\ HeaderSize + i \in 1..Len(held)
          /\ HeaderSize + i \in 1..(HeaderSize + n)
      BY <1>2, <1>4, <1>5, <2>3, <2>4, <2>5
    <3>2. Contents(rest)[i] = held[HeaderSize + i]
      BY <2>3, <3>1
    <3>3. held[HeaderSize + i] = Packet(p, n)[HeaderSize + i]
      BY <1>3, <1>5, <3>1
    <3> QED BY <1>7, <3>2, <3>3
  <2>8. Payload(p, n) = [i \in 1..n |-> Payload(p, n)[i]]
    BY DEF Payload
  <2> QED BY <2>6, <2>7, <2>8 DEF rest
<1> QED BY <1>5, <1>6, <1>12, <1>13, <1>14 DEF p, n, k
\* A packet is about to be written: all of it is on its way now.
LEMMA SendConveys ==
    ASSUME TypeOK, Conveys, calls = <<>>, NEW size \in Nat,
           sent' = Append(sent, size), Unwritten' = Packet(NextPacket, size),
           UNCHANGED <<wrote, queue, ring, handled, damaged>>
    PROVE  Conveys'
<1> SUFFICES ASSUME Unharmed PROVE Conveys'
  BY DEF Conveys, Unharmed
<1> DEFINE k == Len(handled)  q == Packet(NextPacket, size)
<1>1. /\ wrote = 0 /\ handled \in Seq(Handed) /\ k <= Len(sent)
      /\ \A i \in 1..k : handled[i].data = Payload(i, sent[i])
      /\ Packed(OnTheWay, k, sent)
  BY DEF Conveys
<1>2. /\ sent \in Seq(Nat) /\ Len(sent) \in Nat /\ k \in Nat /\ k \in 0..Len(sent)
      /\ Contents(ring) \in Seq(Any) /\ queue \in Seq(Any) /\ OnTheWay \in Seq(Any)
  BY <1>1, WayFacts
<1>3. NextPacket = Len(sent) + 1 /\ NextPacket \in Nat
  BY <1>2 DEF NextPacket
<1>4. q \in Seq(Any)
  BY <1>3, PacketCells
<1>5. Unwritten = <<>>
  BY DEF Unwritten
<1>6. OnTheWay' = OnTheWay \o q
  <2> DEFINE held == Contents(ring)
  <2> HIDE DEF held, q
  <2>1. held \in Seq(Any)
    BY <1>2 DEF held
  <2>2. queue \o <<>> = queue
    BY <1>2
  <2>3. OnTheWay = held \o queue
    BY <1>5, <2>2 DEF OnTheWay, held
  <2>4. OnTheWay' = held \o (queue \o q)
    BY DEF OnTheWay, held, q
  <2>5. (held \o queue) \o q = held \o (queue \o q)
    <3>1. queue \in Seq(Any) /\ q \in Seq(Any)
      BY <1>2, <1>4
    <3>2. Joins(held, queue, q)
      BY <2>1, <3>1, JoinsAnyhow
    <3> QED BY <3>2 DEF Joins
  <2> QED BY <2>3, <2>4, <2>5
<1>7. Packed(OnTheWay \o q, k, Append(sent, size))
  BY <1>1, <1>2, <1>3, PackedAppend
<1>8. /\ Len(sent') = Len(sent) + 1
      /\ \A i \in 1..Len(sent) : sent'[i] = sent[i]
  BY <1>2
<1>9. ASSUME NEW i \in 1..k PROVE handled[i].data = Payload(i, sent'[i])
  <2>1. i \in 1..Len(sent)
    BY <1>2
  <2> QED BY <1>1, <1>8, <2>1
<1>10. k <= Len(sent')
  BY <1>1, <1>2, <1>8
<1> QED BY <1>1, <1>6, <1>7, <1>9, <1>10 DEF Conveys

\* Nothing but the places of what is on its way changes.
LEMMA MoveConveys ==
    ASSUME Conveys, Unharmed, wrote' = 0, OnTheWay' = OnTheWay,
           UNCHANGED <<sent, handled>>
    PROVE  Conveys'
BY DEF Conveys

LEMMA NextConveys == TypeOK /\ Conveys /\ [Next]_vars => Conveys'
<1> SUFFICES ASSUME TypeOK, Conveys, [Next]_vars PROVE Conveys'
  OBVIOUS
<1> USE DEF senderVars, receiverVars
<1>1. ASSUME NEW size \in Reports, SubSource_Report(size) PROVE Conveys'
  <2>1. size \in Nat
    BY Constants
  <2>2. /\ calls = <<>> /\ sent' = Append(sent, size)
        /\ calls' = <<Packet(NextPacket, size)>>
        /\ UNCHANGED <<wrote, queue, ring, handled, damaged>>
    BY <1>1 DEF SubSource_Report, Sends, Packet
  <2>3. Unwritten' = Packet(NextPacket, size)
    <3> DEFINE q == Packet(NextPacket, size)
    <3> HIDE DEF q
    <3>1. <<q>> # <<>> /\ Len(<<q>>) = 1 /\ <<q>>[1] = q
      OBVIOUS
    <3>2. calls' = <<q>>
      BY <2>2 DEF q
    <3> QED BY <3>1, <3>2 DEF Unwritten, q
  <2> QED BY <2>1, <2>2, <2>3, SendConveys
<1>2. ASSUME NEW size \in DataSizes, SubSource_SendData(size) PROVE Conveys'
  <2> DEFINE head == Header(size)
             data == Payload(NextPacket, size)
  <2>1. size \in Nat /\ NextPacket \in Nat
    BY Constants, Facts DEF NextPacket
  <2>2. /\ calls = <<>> /\ sent' = Append(sent, size)
        /\ calls' = IF size = 0 THEN <<head>> ELSE <<head, data>>
        /\ UNCHANGED <<wrote, queue, ring, handled, damaged>>
    BY <1>2 DEF SubSource_SendData, Sends
  <2>3. head \in Seq(Cells) /\ (size = 0 => data = <<>>)
    BY <2>1, HeaderIsCells DEF Payload
  <2> HIDE DEF head, data
  <2>4. Unwritten' = head \o data
    <3>1. CASE size = 0
      <4>1. <<head>> # <<>> /\ Len(<<head>>) = 1 /\ <<head>>[1] = head
        OBVIOUS
      <4>2. head \o <<>> = head
        BY <2>3
      <4> QED BY <2>2, <2>3, <3>1, <4>1, <4>2 DEF Unwritten
    <3>2. CASE size # 0
      <4>1. /\ <<head, data>> # <<>> /\ Len(<<head, data>>) = 2
            /\ <<head, data>>[1] = head /\ <<head, data>>[2] = data
        OBVIOUS
      <4> QED BY <2>2, <3>2, <4>1 DEF Unwritten
    <3> QED BY <3>1, <3>2
  <2>5. Unwritten' = Packet(NextPacket, size)
    BY <2>4 DEF Packet, head, data
  <2> QED BY <2>1, <2>2, <2>5, SendConveys
<1>3. ASSUME fmqSendData PROVE Conveys'
  <2> SUFFICES ASSUME ~damaged' PROVE Conveys'
    BY DEF Conveys, Unharmed
  <2> DEFINE n == Least(Room, Remaining)  q == calls[1]
  <2>1. /\ calls \in Seq(Seq(Cells)) /\ calls # <<>> /\ Len(calls) <= 2
        /\ wrote \in Nat /\ wrote < Len(calls[1])
    BY <1>3 DEF TypeOK, fmqSendData
  <2>2. q \in Seq(Cells) /\ Len(q) \in Nat /\ q \in Seq(Any)
    BY <2>1 DEF Any
  <2>3. /\ queue' = queue \o Written(n)
        /\ damaged' = (damaged \/ n < Len(q))
        /\ IF n = Remaining THEN calls' = Tail(calls) /\ wrote' = 0
                            ELSE calls' = calls /\ wrote' = wrote + n
        /\ UNCHANGED <<sent, ring, handled>>
    BY <1>3 DEF fmqSendData
  <2>4. Unharmed /\ ~(n < Len(q))
    BY <2>3 DEF Unharmed
  <2>5. wrote = 0
    BY <2>4 DEF Conveys
  <2>6. n = Remaining /\ n = Len(q)
    <3>1. Room \in Nat /\ Remaining = Len(q)
      BY <2>2, <2>5, Facts, Constants, <1>3 DEF Room, Remaining, fmqSendData
    <3> QED BY <2>2, <2>4, <3>1 DEF Least
  <2>7. Written(n) = q
    BY <2>2, <2>6 DEF Written
  <2>8. wrote' = 0 /\ calls' = Tail(calls) /\ queue' = queue \o q
    BY <2>3, <2>6, <2>7
  <2> HIDE DEF n
  <2>9. Unwritten = q \o Unwritten' /\ Unwritten' \in Seq(Any)
    <3>0. \/ Len(calls) = 1 /\ DOMAIN calls = 1..1 /\ Tail(calls) = <<>>
          \/ /\ Len(calls) = 2 /\ DOMAIN calls = 1..2 /\ calls[2] \in Seq(Cells)
             /\ Tail(calls) # <<>> /\ Len(Tail(calls)) = 1 /\ Tail(calls)[1] = calls[2]
      <4> HIDE DEF q
      <4> DEFINE C == Seq(Cells)
      <4>1. calls \in Seq(C) /\ Len(calls) <= 2 /\ calls # <<>>
        BY <2>1
      <4> HIDE DEF C
      <4>2. \/ Len(calls) = 1 /\ DOMAIN calls = 1..1 /\ Tail(calls) = <<>>
            \/ /\ Len(calls) = 2 /\ DOMAIN calls = 1..2 /\ calls[2] \in C
               /\ Tail(calls) # <<>> /\ Len(Tail(calls)) = 1 /\ Tail(calls)[1] = calls[2]
        BY <4>1, OneOrTwo
      <4> QED BY <4>2 DEF C
    <3>1. CASE Len(calls) = 1
      <4>1. Tail(calls) = <<>>
        BY <3>0, <3>1
      <4>2. q \o <<>> = q
        BY <2>2
      <4>3. Unwritten = q /\ <<>> \in Seq(Any)
        BY <2>1, <3>1 DEF Unwritten
      <4>4. Unwritten' = <<>>
        BY <2>8, <4>1 DEF Unwritten
      <4> QED BY <4>2, <4>3, <4>4
    <3>2. CASE Len(calls) = 2
      <4>1. /\ Tail(calls) # <<>> /\ Len(Tail(calls)) = 1 /\ Tail(calls)[1] = calls[2]
            /\ calls[2] \in Seq(Cells)
        BY <3>0, <3>2
      <4>2. calls[2] \in Seq(Any)
        BY <4>1 DEF Any
      <4>3. Unwritten = q \o calls[2]
        BY <2>1, <3>2 DEF Unwritten
      <4>4. Unwritten' = Tail(calls)[1]
        BY <2>8, <4>1 DEF Unwritten
      <4> QED BY <4>1, <4>2, <4>3, <4>4
    <3>3. Len(calls) = 1 \/ Len(calls) = 2
      BY <3>0
    <3> QED BY <3>1, <3>2, <3>3
  <2>10. OnTheWay' = OnTheWay
    <3> DEFINE u == Unwritten'
    <3> HIDE DEF u, q
    <3>1. queue \in Seq(Any) /\ q \in Seq(Any) /\ u \in Seq(Any)
      BY <2>2, <2>9, WayFacts DEF u, q
    <3>2. (queue \o q) \o u = queue \o (q \o u)
      <4>1. Joins(queue, q, u)
        BY <3>1, JoinsAnyhow
      <4> QED BY <4>1 DEF Joins
    <3>3. OnTheWay = Contents(ring) \o (queue \o (q \o u))
      BY <2>9 DEF OnTheWay, u
    <3>4. OnTheWay' = Contents(ring) \o ((queue \o q) \o u)
      BY <2>3, <2>8 DEF OnTheWay, u
    <3> QED BY <3>2, <3>3, <3>4
  <2> QED BY <2>3, <2>4, <2>8, <2>10, MoveConveys
<1>4. ASSUME readQueue PROVE Conveys'
  <2> SUFFICES ASSUME ~damaged' PROVE Conveys'
    BY DEF Conveys, Unharmed
  <2>1. /\ ring' = Write(ring, queue) /\ queue' = <<>>
        /\ damaged' = (damaged \/ Fit(ring, queue) < Len(queue))
        /\ UNCHANGED <<sent, calls, wrote, handled>>
    BY <1>4 DEF readQueue
  <2>2. Unharmed /\ ~(Fit(ring, queue) < Len(queue))
    BY <2>1 DEF Unharmed
  <2>3. Fit(ring, queue) = Len(queue)
    BY <2>2, Facts, FitFacts, Constants
  <2>4. Contents(ring') = Contents(ring) \o queue
    <3>1. Contents(Write(ring, queue)) = Contents(ring) \o SubSeq(queue, 1, Fit(ring, queue))
      BY Facts, WriteAppends
    <3>2. SubSeq(queue, 1, Len(queue)) = queue
      BY Facts, SubSeqFull
    <3> QED BY <2>1, <2>3, <3>1, <3>2
  <2>5. OnTheWay' = OnTheWay
    <3> DEFINE held == Contents(ring)  u == Unwritten
    <3>1. held \in Seq(Any) /\ queue \in Seq(Any) /\ u \in Seq(Any)
      BY WayFacts
    <3>2. Unwritten' = u
      BY <2>1 DEF Unwritten
    <3>3. Contents(ring)' = held \o queue
      BY <2>4 DEF Contents
    <3> HIDE DEF held, u
    <3>4. <<>> \o u = u
      BY <3>1
    <3>5. OnTheWay' = (held \o queue) \o u
      BY <2>1, <3>2, <3>3, <3>4 DEF OnTheWay
    <3>6. (held \o queue) \o u = held \o (queue \o u)
      <4>1. Joins(held, queue, u)
        BY <3>1, JoinsAnyhow
      <4> QED BY <4>1 DEF Joins
    <3> QED BY <3>5, <3>6 DEF OnTheWay, held, u
  <2>6. wrote' = 0
    BY <2>1, <2>2 DEF Conveys
  <2> QED BY <2>1, <2>2, <2>5, <2>6, MoveConveys
<1>5. ASSUME resync PROVE Conveys'
  <2>1. HasHeader /\ ~InSync /\ damaged' = damaged
    BY <1>5 DEF resync
  <2>2. ~Unharmed
    BY <2>1, NextInRing
  <2> QED BY <2>1, <2>2 DEF Conveys, Unharmed
<1>6. ASSUME waitForMore PROVE Conveys'
  BY <1>6 DEF waitForMore, Conveys, OnTheWay, Unwritten, Unharmed
<1>7. ASSUME handOver PROVE Conveys'
  <2> SUFFICES ASSUME Unharmed PROVE Conveys'
    BY <1>7 DEF handOver, Conveys, Unharmed
  <2> DEFINE k == Len(handled)  p == k + 1  n == sent[p]
             record == [to |-> Receiver, data |-> Payload(p, n)]
             size == HeaderSize + n
  <2>1. /\ p \in 1..Len(sent) /\ n \in Nat /\ DataSize = n
        /\ Peek(Read(ring, HeaderSize), DataSize) = Payload(p, n)
    BY <1>7, NextInRing DEF handOver, Complete
  <2>2. /\ handled' = Append(handled, record)
        /\ ring' = Read(ring, size)
        /\ UNCHANGED <<sent, calls, wrote, queue, damaged>>
    BY <1>7, <2>1 DEF handOver
  <2>3. /\ wrote = 0 /\ handled \in Seq(Handed) /\ k <= Len(sent)
        /\ \A i \in 1..k : handled[i].data = Payload(i, sent[i])
        /\ Packed(OnTheWay, k, sent)
    BY DEF Conveys
  <2>4. /\ sent \in Seq(Nat) /\ Len(sent) \in Nat /\ k \in Nat /\ p \in Nat
        /\ OnTheWay \in Seq(Any) /\ size \in Nat
    <3>1. sent \in Seq(Nat) /\ Len(sent) \in Nat /\ OnTheWay \in Seq(Any)
      BY WayFacts
    <3>2. n \in Nat /\ HeaderSize \in Nat
      BY <2>1, Constants
    <3>3. HeaderSize + n \in Nat
      BY <3>2
    <3>4. Len(handled) \in Nat /\ p \in Nat
      BY <2>1, <2>3, <3>1
    <3> QED BY <3>1, <3>3, <3>4
  <2>5. record \in Handed
    <3>1. Receiver \in Clients \cup {NoClient}
      BY DEF Receiver, TypeOK
    <3>2. Payload(p, n) \in Seq(Cells)
      BY <2>1, <2>4, PayloadIsCells
    <3> QED BY <3>1, <3>2 DEF Handed
  <2>6. record.data = Payload(p, n)
    OBVIOUS
  <2> HIDE DEF record
  <2>7. /\ handled' \in Seq(Handed) /\ Len(handled') = p
        /\ handled'[p] = record
        /\ \A i \in 1..k : handled'[i] = handled[i]
    BY <2>2, <2>3, <2>5
  <2>8. ASSUME NEW i \in 1..p PROVE handled'[i].data = Payload(i, sent[i])
    <3>1. CASE i \in 1..k
      BY <2>3, <2>7, <3>1
    <3>2. CASE i = p
      BY <2>6, <2>7, <3>2
    <3> QED BY <2>4, <3>1, <3>2
  <2>9. Packed(OnTheWay', p, sent)
    <3> DEFINE held == Contents(ring)  left == Contents(ring')
               rest == queue \o Unwritten
    <3>1. /\ held \in Seq(Any) /\ Len(held) = ring.read_avail /\ ring.read_avail \in Nat
          /\ rest \in Seq(Any)
      BY WayFacts
    <3>2. Least(size, ring.read_avail) = size /\ size <= ring.read_avail
      BY <1>7, <2>1, <2>4, <3>1 DEF handOver, Complete, Enough, Available, Least
    <3>3. /\ Len(left) = ring.read_avail - size
          /\ \A i \in 1..(ring.read_avail - size) : left[i] = held[size + i]
      <4>1. LET count == Least(size, ring.read_avail) IN
            /\ Len(Contents(Read(ring, size))) = ring.read_avail - count
            /\ \A i \in 1..(ring.read_avail - count) :
                  Contents(Read(ring, size))[i] = Contents(ring)[count + i]
        BY <2>4, Facts, ReadTakes
      <4> QED BY <2>2, <3>2, <4>1
    <3>4. left \in Seq(Any)
      <4>1. ring' \in Buffers(Cells) /\ Consistent(ring')
        BY <2>2, <2>4, RingAfterRead
      <4> QED BY <4>1, ContentsIsSeq DEF Any
    <3>5. OnTheWay = held \o rest /\ OnTheWay' = left \o rest
      BY <2>2 DEF OnTheWay, Unwritten, Contents
    <3> HIDE DEF held, left, rest
    <3>6. /\ Len(OnTheWay') = Len(OnTheWay) - size
          /\ \A b \in 1..Len(OnTheWay') : OnTheWay'[b] = OnTheWay[size + b]
      <4> DEFINE a == ring.read_avail
      <4>1. /\ Len(left \o rest) = Len(left) + Len(rest)
            /\ Len(held \o rest) = Len(held) + Len(rest)
            /\ Len(rest) \in Nat
        BY <3>1, <3>4
      <4>2. \A b \in 1..(Len(left) + Len(rest)) :
              (left \o rest)[b] = IF b <= Len(left) THEN left[b] ELSE rest[b - Len(left)]
        BY <3>1, <3>4, ConcatProperties
      <4>3. \A b \in 1..(Len(held) + Len(rest)) :
              (held \o rest)[b] = IF b <= Len(held) THEN held[b] ELSE rest[b - Len(held)]
        BY <3>1, ConcatProperties
      <4>4. /\ a \in Nat /\ size \in Nat /\ size <= a /\ Len(left) = a - size /\ Len(held) = a
        BY <2>4, <3>1, <3>2, <3>3
      <4> HIDE DEF a, size
      <4>5. ASSUME NEW b \in 1..(Len(left) + Len(rest))
            PROVE  (left \o rest)[b] = (held \o rest)[size + b]
        <5> DEFINE c == size + b
        <5>1. /\ c \in 1..(Len(held) + Len(rest))
              /\ b <= Len(left) <=> c <= Len(held)
              /\ c - Len(held) = b - Len(left)
          BY <4>1, <4>4
        <5>2. b <= Len(left) => left[b] = held[c]
          BY <3>3, <4>1, <4>4 DEF a
        <5> HIDE DEF c
        <5>3. (held \o rest)[c] = IF c <= Len(held) THEN held[c] ELSE rest[c - Len(held)]
          BY <4>3, <5>1
        <5>4. (left \o rest)[b] = IF b <= Len(left) THEN left[b] ELSE rest[b - Len(left)]
          BY <4>2
        <5> QED BY <5>1, <5>2, <5>3, <5>4 DEF c
      <4>6. Len(left) + Len(rest) = (Len(held) + Len(rest)) - size
        BY <4>1, <4>4
      <4> QED BY <3>5, <4>1, <4>5, <4>6
    <3>7. k \in 0..Len(sent) /\ k < Len(sent) /\ size = HeaderSize + sent[k + 1]
      BY <2>1, <2>4
    <3> QED BY <2>3, <2>4, <3>6, <3>7, PackedTake
  <2>10. p <= Len(sent)
    BY <2>1, <2>4
  <2> QED BY <2>2, <2>3, <2>7, <2>8, <2>9, <2>10 DEF Conveys
<1>8. ASSUME noMemory PROVE Conveys'
  BY <1>8 DEF noMemory, Conveys, Unharmed
<1>9. ASSUME NEW c \in Clients, registClient(c) \/ unregisterClient(c) PROVE Conveys'
  BY <1>9 DEF registClient, unregisterClient, Conveys, OnTheWay, Unwritten, Unharmed
<1>10. CASE UNCHANGED vars
  BY <1>10 DEF vars, Conveys, OnTheWay, Unwritten, Unharmed
<1> QED BY <1>1, <1>2, <1>3, <1>4, <1>5, <1>6, <1>7, <1>8, <1>9, <1>10 DEF Next, ReadLoop

LEMMA ConveysAsSent == TypeOK /\ Conveys => DeliveredAsSent
<1> SUFFICES ASSUME Conveys, Unharmed
             PROVE  /\ Len(handled) <= Len(sent)
                    /\ \A i \in DOMAIN handled : handled[i].data = Payload(i, sent[i])
  BY DEF DeliveredAsSent
<1>1. handled \in Seq(Handed)
  BY DEF Conveys
<1>2. DOMAIN handled = 1..Len(handled)
  BY <1>1
<1> QED BY <1>2 DEF Conveys

\* What leaves the channel is what was sent, in order, each packet whole and once, for
\* all sizes of the words, the packets, the queue and the ring buffer and any number of
\* packets, as long as no write was cut and memory was there
\* (SubtitleReportAPI.cpp:137-160, FmqReceiver.cpp:105-157, ringbuffer.c:86-184).
THEOREM Delivers == Spec => []DeliveredAsSent
<1>1. Init => TypeOK /\ Conveys
  BY InitTypeOK, InitConveys
<1>2. TypeOK /\ Conveys /\ [Next]_vars => TypeOK' /\ Conveys'
  BY NextTypeOK, NextConveys
<1>3. TypeOK /\ Conveys => DeliveredAsSent
  BY ConveysAsSent
<1> QED BY <1>1, <1>2, <1>3, PTL DEF Spec
=============================================================================
