----------------------------- MODULE SubPicture -----------------------------
(* The subpicture units of DVDs, as VobSubIndex and DvdParser decode them, in  *)
(* the same code written twice: commands, and two fields of rows, odd and      *)
(* even, in run lengths of four to sixteen bits.  A unit is a sequence of      *)
(* bytes, a picture is the number 0..3 of each of its pixels.  It uses         *)
(* RECURSIVE: only the instances that TLC runs extend it.                      *)
EXTENDS Integers, Sequences, FiniteSets, FiniteSetsExt, SequencesExt

\* What lies behind a unit is not modelled: it is read as zero.
Byte(b, i) == IF i \in 0 .. Len(b) - 1 THEN b[i + 1] ELSE 0
Word(b, i) == 256 * Byte(b, i) + Byte(b, i + 1)
Nibble(b, k) == IF k % 2 = 0 THEN Byte(b, k \div 2) \div 16 ELSE Byte(b, k \div 2) % 16

FSTA_DSP == 0
STA_DSP == 1
STP_DSP == 2
SET_COLOR == 3
SET_CONTR == 4
SET_DAREA == 5
SET_DSPXA == 6
CHG_COLCON == 7
CMD_END == 255

---------------------------------------------------------------------------
(* doDCSQC(): the greatest delay of the control sequences from at on, up to   *)
(* one that stops the display.  It takes SET_DSPXA to be as long as SET_DAREA. *)
RECURSIVE SequenceEnd(_, _, _, _)
SequenceEnd(b, at, end, stopped) ==
    LET c == Byte(b, at)
        After(n, stop) == SequenceEnd(b, at + n, end, stop)
    IN  CASE at >= Len(b) -> [at |-> end, stopped |-> stopped]
          [] at < Len(b) /\ c \in {FSTA_DSP, STA_DSP} -> After(1, stopped)
          [] at < Len(b) /\ c = STP_DSP -> After(1, TRUE)
          [] at < Len(b) /\ c \in {SET_COLOR, SET_CONTR} -> After(3, stopped)
          [] at < Len(b) /\ c \in {SET_DAREA, SET_DSPXA} -> After(7, stopped)
          [] at < Len(b) /\ c = CHG_COLCON -> After(2 + Word(b, at), stopped)
          [] at < Len(b) /\ c = CMD_END -> [at |-> at + 1, stopped |-> stopped]
          [] OTHER -> [at |-> end, stopped |-> stopped]

RECURSIVE doDCSQC(_, _, _)
doDCSQC(b, at, end) ==
    LET s == SequenceEnd(b, at + 4, end, FALSE)
        later == IF s.at < end /\ ~s.stopped THEN doDCSQC(b, s.at, end) ELSE 0
    IN  Max({Word(b, at), later})

---------------------------------------------------------------------------
(* The commands of the first control sequence. *)
NoCommands == [done |-> FALSE, pending |-> 0, color |-> 0, alpha |-> 0, x |-> 0, y |-> 0,
               w |-> 0, h |-> 0, top |-> 0, bottom |-> 0, delay |-> 0]

\* SET_DAREA: a start of ten bits and an end of as many bits as the reader takes.
AreaStart(b, at) == 16 * (Byte(b, at) % 64) + Byte(b, at + 1) \div 16
AreaSize(b, at, mask) ==
    (256 * (Byte(b, at + 1) % mask) + Byte(b, at + 2) - AreaStart(b, at) + 1) % 65536

RECURSIVE Commands(_, _, _, _)
Commands(b, at, mask, v) ==
    LET c == Byte(b, at)
        Then(n, w) == Commands(b, at + 1 + n, mask, w)
    IN  IF at >= Len(b) THEN v
        ELSE CASE c \in {FSTA_DSP, STA_DSP, STP_DSP} -> Then(0, [v EXCEPT !.pending = 2 - c])
               [] c = SET_COLOR -> Then(2, [v EXCEPT !.color = Word(b, at + 1)])
               [] c = SET_CONTR -> Then(2, [v EXCEPT !.alpha = Word(b, at + 1)])
               [] c = SET_DAREA ->
                      Then(6, [v EXCEPT !.x = AreaStart(b, at + 1), !.w = AreaSize(b, at + 1, mask),
                                        !.y = AreaStart(b, at + 4), !.h = AreaSize(b, at + 4, mask)])
               [] c = SET_DSPXA -> Then(4, [v EXCEPT !.top = Word(b, at + 1),
                                                     !.bottom = Word(b, at + 3)])
               [] c = CHG_COLCON -> Then(2 + Word(b, at + 1), v)
               [] c = CMD_END ->
                      [v EXCEPT !.done = TRUE,
                                !.delay = IF at + 1 =< Len(b) - 6
                                          THEN doDCSQC(b, at + 1, Len(b) - 6) ELSE 0]
               [] OTHER -> v

---------------------------------------------------------------------------
(* Pixels.  A run takes as many nibbles as its leading zeros tell, and one of *)
(* no pixels goes on to the end of the row.                                   *)
GetWordFromPixBuffer(b, k) ==
    4096 * Nibble(b, k) + 256 * Nibble(b, k + 1) + 16 * Nibble(b, k + 2) + Nibble(b, k + 3)
DecodeRL(data) ==
    LET nibbles == CASE data >= 16384 -> 1 [] data >= 4096 /\ data < 16384 -> 2
                     [] data >= 1024 /\ data < 4096 -> 3 [] OTHER -> 4
        shifted == data \div 16 ^ (4 - nibbles)
    IN  [nibbles |-> nibbles, color |-> shifted % 4, count |-> shifted \div 4]

\* One row from nibble k on, of which n pixels are there.
RECURSIVE Row(_, _, _, _)
Row(b, k, n, width) ==
    LET r == DecodeRL(GetWordFromPixBuffer(b, k))
        count == IF r.count = 0 THEN width - (n % width) ELSE r.count
        rest == Row(b, k + r.nibbles, n + count, width)
    IN  IF n >= width THEN [at |-> k, n |-> n, pixels |-> <<>>]
        ELSE [rest EXCEPT !.pixels = [i \in 1 .. count |-> r.color] \o @]

\* A row starts at a byte ("Rule 6"), and is written from a group of eight pixels on; what
\* a run has more than its row counts for the next one.
Padding(row) == [i \in 1 .. (8 - (Len(row) % 8)) % 8 |-> 0]
RECURSIVE Rows(_, _, _, _, _)
Rows(b, k, n, left, width) ==
    LET row == Row(b, k, n, width)
    IN  IF left = 0 THEN <<>>
        ELSE row.pixels \o Padding(row.pixels)
             \o Rows(b, row.at + (row.at % 2), row.n - width, left - 1, width)

\* Where the background is not transparent it changes places with the first pixel that is.
Contrast(alpha, p) == (alpha \div 16 ^ p) % 16
change_data(alpha) ==
    IF Contrast(alpha, 0) = 0 THEN 0
    ELSE Min({p \in 1 .. 3 : Contrast(alpha, p) = 0} \cup {4})
PixelData(c, p) == IF p = 0 THEN c ELSE IF p = c THEN 0 ELSE p
AlphaAfter(alpha) ==
    LET c == change_data(alpha)
    IN  IF c = 0 THEN alpha ELSE alpha - Contrast(alpha, 0) + 15 * 16 ^ c

\* One field of the picture v tells, in rows of a multiple of eight pixels.
Field(b, addr, v) ==
    LET pixels == Rows(b, 2 * addr, 0, v.h \div 2, v.w)
        c == change_data(v.alpha)
    IN  [i \in DOMAIN pixels |-> PixelData(c, pixels[i])]

\* A plausible bug: rows are taken to be as long as the picture is wide.
StrideUnpadded(w) == w
Stride(w) == 8 * ((w + 7) \div 8)
\* The lines of a picture out of its two fields; what was not written is zero.
Lines(odd, even, v, width) ==
    [i \in 1 .. v.h |->
        LET field == IF i % 2 = 1 THEN odd ELSE even
            from == ((i - 1) \div 2) * Stride(v.w)
        IN  [j \in 1 .. width |-> IF from + j =< Len(field) THEN field[from + j] ELSE 0]]
=============================================================================
