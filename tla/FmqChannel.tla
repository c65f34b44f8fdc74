----------------------------- MODULE FmqChannel -----------------------------
(***************************************************************************)
(* The channel between the player and the server: the report API writes    *)
(* packets to a fast message queue (SubtitleReportAPI.cpp), the receiver   *)
(* thread moves what it finds there to a ring buffer, cuts it into packets *)
(* again and hands them to its front client (FmqReceiver.cpp).             *)
(*                                                                         *)
(* The queue and the ring buffer hold cells.  A word of a header (start    *)
(* flag, session, magic, size, type) is CellsPerWord cells, a payload any  *)
(* number of them: with more than one cell to a word a stream may lose its *)
(* alignment, which the receiver looks for word by word.  A cell says what *)
(* its bytes are, not which packet wrote them, payload excepted; payload   *)
(* never looks like a flag, and anything but a size, read as a size, is    *)
(* more than the ring buffer holds (flags, types and text all are).        *)
(*                                                                         *)
(* The fast message queue is external: writeBlocking and readBlocking of   *)
(* what fits succeed at once, writing nothing included.                    *)
(***************************************************************************)
EXTENDS RingBuffer

CONSTANTS Reports,          \* payload sizes of the reports (a time, a type, a text)
          DataSizes,        \* payload sizes of SubSource_SendData
          CellsPerWord,
          QueueSize,        \* of the message queue: 2 MB (Size, of the ring buffer: 1 MB)
          Clients,          \* data sources that may register
          NoClient,
          MaxPackets        \* bound: packets sent

ASSUME ChannelAssumption ==
    /\ Reports \subseteq Nat \ {0} /\ DataSizes \subseteq Nat
    /\ CellsPerWord \in Nat \ {0} /\ MaxPackets \in Nat
    /\ QueueSize \in Nat \ {0}
    /\ NoClient \notin Clients

VARIABLES sent,             \* history: the payload size of every packet sent, in order
          calls,            \* what fmqSendDataLocked has to write, call by call
          wrote,            \* cells of the first call that were written
          queue,            \* the message queue
          ring,             \* the ring buffer
          receiver,         \* the receiver thread: "poll" or "consume"
          mClients,
          handled,          \* history: packets taken from the ring, and who got them
          damaged           \* history: some write was cut, or a payload found no memory

senderVars == <<sent, calls, wrote>>
receiverVars == <<ring, receiver, handled>>
vars == <<senderVars, queue, receiverVars, mClients, damaged>>

Packets == 1..MaxPackets
Words == {"start", "session", "magic", "size", "type", "payload"}
HeaderSize == 5 * CellsPerWord

\* Cell number b of a word, of a packet or a size n where that matters.
Cell(word, n, b) == [word |-> word, of |-> n, byte |-> b]
Cells == [word : Words, of : Nat, byte : Nat]
Word(word, n) == [b \in 1..CellsPerWord |-> Cell(word, n, b)]
Header(size) == Word("start", 0) \o Word("session", 0) \o Word("magic", 0)
                    \o Word("size", size) \o Word("type", 0)
Payload(p, size) == [b \in 1..size |-> Cell("payload", p, b)]

TypeOK ==
    /\ sent \in Seq(Reports \cup DataSizes) /\ Len(sent) <= MaxPackets
    /\ calls \in Seq(Seq(Cells)) /\ Len(calls) <= 2
    /\ \A k \in DOMAIN calls : Len(calls[k]) > 0
    /\ wrote \in Nat /\ IF calls = <<>> THEN wrote = 0 ELSE wrote < Len(calls[1])
    /\ queue \in Seq(Cells) /\ Len(queue) <= QueueSize
    /\ ring \in Buffers(Cells) /\ Consistent(ring)
    /\ receiver \in {"poll", "consume"}
    /\ mClients \in Seq(Clients)
    /\ damaged \in BOOLEAN

Init == /\ sent = <<>> /\ calls = <<>> /\ wrote = 0
        /\ queue = <<>>
        /\ ring = Created /\ receiver = "poll" /\ handled = <<>>
        /\ mClients = <<>>
        /\ damaged = FALSE

-----------------------------------------------------------------------------
(* The report API, one call at a time under the lock of its context.       *)

Sends(size) == /\ calls = <<>> /\ Len(sent) < MaxPackets
               /\ sent' = Append(sent, size)
NextPacket == Len(sent) + 1

\* A report is written by one call.
SubSource_Report(size) ==
    /\ Sends(size)
    /\ calls' = <<Header(size) \o Payload(NextPacket, size)>>
    /\ UNCHANGED <<wrote, queue, receiverVars, mClients, damaged>>

\* Data is written by two calls, the second one of nothing if there is none.
SubSource_SendData(size) ==
    /\ Sends(size)
    /\ calls' = IF size = 0 THEN <<Header(size)>>
                ELSE <<Header(size), Payload(NextPacket, size)>>
    /\ UNCHANGED <<wrote, queue, receiverVars, mClients, damaged>>

Room == QueueSize - Len(queue)
Remaining == Len(calls[1]) - wrote

\* What one turn of the loop writes: always the beginning of the data.
Written(n) == SubSeq(calls[1], 1, n)

\* One turn of the loop of fmqSendDataLocked.  With no room it writes nothing and
\* turns again.
fmqSendData ==
    /\ calls # <<>> /\ Room > 0
    /\ LET needWrite == Least(Room, Remaining)
       IN  /\ queue' = queue \o Written(needWrite)
           /\ damaged' = (damaged \/ needWrite < Len(calls[1]))
           /\ IF needWrite = Remaining
              THEN calls' = Tail(calls) /\ wrote' = 0
              ELSE calls' = calls /\ wrote' = wrote + needWrite
    /\ UNCHANGED <<sent, receiverVars, mClients>>

-----------------------------------------------------------------------------
(* FmqReceiver::readLoop.                                                  *)

\* "no consumer attached, avoid lost message, wait here"
ReadsWhenDrained == mClients # <<>> /\ ring.read_avail = 0
Reads == mClients # <<>>

\* All that is in the queue goes to the ring buffer.
readQueue ==
    /\ receiver = "poll" /\ Reads /\ queue # <<>>
    /\ ring' = Write(ring, queue)
    /\ damaged' = (damaged \/ Fit(ring, queue) < Len(queue))
    /\ queue' = <<>>
    /\ receiver' = "consume"
    /\ UNCHANGED <<senderVars, handled, mClients>>

Available == ring.read_avail
Peeked(k) == SubSeq(Peek(ring, HeaderSize), k * CellsPerWord + 1, (k + 1) * CellsPerWord)

HasHeaderOnly == Available >= HeaderSize
HasHeader == Available > HeaderSize
InSync == Peeked(0) = Word("start", 0) \/ Peeked(2) = Word("magic", 0)
\* Anything but the size of a header is too large.
DataSize == IF \E n \in Reports \cup DataSizes : Peeked(3) = Word("size", n)
            THEN Peeked(3)[1].of
            ELSE Size
EnoughAndMore == Available > HeaderSize + DataSize
Enough == Available >= HeaderSize + DataSize

\* Neither flag is where it should be: skip one word.
resync ==
    /\ receiver = "consume" /\ HasHeader /\ ~InSync
    /\ ring' = Read(ring, CellsPerWord)
    /\ UNCHANGED <<senderVars, queue, receiver, handled, mClients, damaged>>

\* Nothing that is complete: back to the queue.
waitForMore ==
    /\ receiver = "consume"
    /\ ~(HasHeader /\ (InSync => Enough))
    /\ receiver' = "poll"
    /\ UNCHANGED <<senderVars, queue, ring, handled, mClients, damaged>>

Complete == receiver = "consume" /\ HasHeader /\ InSync /\ Enough

\* Whoever is registered first gets the packet, under mLock.
Receiver == IF mClients = <<>> THEN NoClient ELSE Head(mClients)

handOver ==
    /\ Complete
    /\ handled' = Append(handled,
                         [to |-> Receiver,
                          data |-> Peek(Read(ring, HeaderSize), DataSize)])
    /\ ring' = Read(ring, HeaderSize + DataSize)
    /\ UNCHANGED <<senderVars, queue, receiver, mClients, damaged>>

\* No memory for the payload: the header is gone, the payload comes next.
noMemory ==
    /\ Complete
    /\ ring' = Read(ring, HeaderSize)
    /\ damaged' = TRUE
    /\ UNCHANGED <<senderVars, queue, receiver, handled, mClients>>

registClient(c) ==
    /\ \A i \in DOMAIN mClients : mClients[i] # c
    /\ mClients' = Append(mClients, c)
    /\ UNCHANGED <<senderVars, queue, receiverVars, damaged>>

unregisterClient(c) ==
    /\ \E i \in 1..Len(mClients) :
          /\ mClients[i] = c
          /\ mClients' = SubSeq(mClients, 1, i - 1) \o SubSeq(mClients, i + 1, Len(mClients))
    /\ UNCHANGED <<senderVars, queue, receiverVars, damaged>>

ReadLoop == readQueue \/ resync \/ waitForMore \/ handOver \/ noMemory

Next == \/ \E size \in Reports : SubSource_Report(size)
        \/ \E size \in DataSizes : SubSource_SendData(size)
        \/ fmqSendData
        \/ ReadLoop
        \/ \E c \in Clients : registClient(c) \/ unregisterClient(c)

Spec == Init /\ [][Next]_vars

\* The receiver's loop and a sender in its loop go on; nobody has to send or register.
FairSpec == Spec /\ WF_vars(ReadLoop) /\ WF_vars(fmqSendData)

-----------------------------------------------------------------------------
(* Properties.                                                             *)

Unharmed == ~damaged

\* What leaves the channel is what was sent, in order, each packet whole and once,
\* however packets and reads interleave, as long as no write was cut and memory was
\* there (FmqReceiver.cpp:105-157).
DeliveredAsSent ==
    Unharmed =>
        /\ Len(handled) <= Len(sent)
        /\ \A i \in DOMAIN handled : handled[i].data = Payload(i, sent[i])

\* A packet with a payload reaches a client that stays.
AllHandled ==
    \A p \in Packets :
        (Len(sent) >= p /\ sent[p] > 0)
            ~> (Len(handled) >= p \/ damaged \/ mClients = <<>>)

\* Every report returns while some client is registered, whatever was damaged: a reader
\* that has lost its place still empties the queue.
SendReturns == calls # <<>> ~> (calls = <<>> \/ mClients = <<>>)
=============================================================================
