----------------------------- MODULE RingBuffer -----------------------------
(***************************************************************************)
(* utils/ringbuffer.c: a buffer of Size cells with a reading and a writing *)
(* position and the number of cells that may be read and written.  Each    *)
(* buffer has one user, a call is one step.  A write takes what fits, a    *)
(* read gives what there is.  A position may be Size: the next call begins *)
(* at 0 then.                                                              *)
(*                                                                         *)
(* Cells that were read are Free here; the code leaves them as they were,  *)
(* and never looks at them again.                                          *)
(***************************************************************************)
EXTENDS Naturals, Sequences

CONSTANTS Size,             \* buffer_size
          Free

ASSUME SizeAssumption == Size \in Nat \ {0}

Positions == 0..(Size - 1)

\* A buffer of cells in C, and how its four numbers belong together.
Buffers(C) == [buffer : [Positions -> C \cup {Free}],
               read_pos : 0..Size, write_pos : 0..Size,
               read_avail : 0..Size, write_avail : 0..Size]
At(from, n) == IF from + n < Size THEN from + n ELSE from + n - Size
Consistent(rb) ==
    /\ rb.read_avail + rb.write_avail = Size
    /\ At(At(rb.read_pos, 0), rb.read_avail) = At(rb.write_pos, 0)

\* What it holds, in order.
Contents(rb) == [i \in 1..rb.read_avail |-> rb.buffer[At(rb.read_pos, i - 1)]]

Created == [buffer |-> [i \in Positions |-> Free],
            read_pos |-> 0, write_pos |-> 0, read_avail |-> 0, write_avail |-> Size]

Least(m, n) == IF m < n THEN m ELSE n
\* A position after count more cells.
Advanced(pos, count) == IF pos + count > Size THEN pos + count - Size ELSE pos + count

\* Whether, and with which of count cells, a copy that begins at pos fills position i.
Fills(pos, count, i) == \/ pos <= i /\ i < pos + count
                        \/ i + Size < pos + count
IndexRestarted(pos, i) == IF pos <= i THEN i - pos + 1 ELSE i + 1
Index(pos, i) == IF pos <= i THEN i - pos + 1 ELSE i + Size - pos + 1

Fit(rb, src) == Least(Len(src), rb.write_avail)

Write(rb, src) ==
    LET count == Fit(rb, src)
    IN  [buffer |-> [i \in Positions |->
                        IF Fills(rb.write_pos, count, i)
                        THEN src[Index(rb.write_pos, i)] ELSE rb.buffer[i]],
         read_pos |-> rb.read_pos,
         write_pos |-> Advanced(rb.write_pos, count),
         read_avail |-> rb.read_avail + count,
         write_avail |-> rb.write_avail - count]

Peek(rb, n) == [i \in 1..Least(n, rb.read_avail) |-> rb.buffer[At(rb.read_pos, i - 1)]]

Read(rb, n) ==
    LET count == Least(n, rb.read_avail)
    IN  [buffer |-> [i \in Positions |->
                        IF Fills(rb.read_pos, count, i) THEN Free ELSE rb.buffer[i]],
         read_pos |-> Advanced(rb.read_pos, count),
         write_pos |-> rb.write_pos,
         read_avail |-> rb.read_avail - count,
         write_avail |-> rb.write_avail + count]
=============================================================================
