----------------------------- MODULE LineReader -----------------------------
(* ExtSubStreamReader: lines cut from a file that is read a block at a time.  *)
(* A byte is a symbol: "0a", "0d" and "00" are those bytes, any other stands  *)
(* for itself.  In UTF-16 a unit is two bytes, and one whose first symbol is  *)
(* "k" takes three bytes in UTF-8, "l" two, any other one.  A file may begin   *)
(* with the mark of its encoding.                                             *)
EXTENDS Integers, Sequences, FiniteSets, SequencesExt, FiniteSetsExt

CONSTANTS
    Encodings,   \* how the files are written, of {"NONE", "UTF8", "UTF16", "UTF16BE"}
    LINE_LEN,    \* the size of a block (2048)
    Units,       \* the characters of the files, "eol" for the end of a line
    MaxUnits     \* bound: characters in a file

VARIABLES
    mEncoding,
    data,               \* the bytes of the file
    first,              \* where the reader began in it
    fd,                 \* the offset the next read starts at
    mBuffer,            \* the bytes in the buffer; their number is mBufferSize
    mBufferReadOffset,
    mLastLineLen,
    line,               \* what getLine() returned last: <<bytes>>, or <<>> for nullptr
    done                \* history: the lines that have been read and not given back

rdvars == <<mEncoding, data, first, fd, mBuffer, mBufferReadOffset, mLastLineLen, line, done>>

Wide == mEncoding \in {"UTF16", "UTF16BE"}

---------------------------------------------------------------------------
\* How each encoding writes a character, its own mark, and the end of a line.
Bytes(enc, u) == CASE enc = "UTF16" -> <<u, "00">>
                   [] enc = "UTF16BE" -> <<"00", u>>
                   [] OTHER -> <<u>>
Bom(enc) == CASE enc = "UTF16" -> <<"ff", "fe">>
              [] enc = "UTF16BE" -> <<"fe", "ff">>
              [] enc = "UTF8" -> <<"ef", "bb", "bf">>
              [] OTHER -> <<>>
Break(enc) == CASE enc = "UTF16" -> <<"0d", "00", "0a", "00">>
                [] enc = "UTF16BE" -> <<"00", "0d", "00", "0a">>
                [] OTHER -> <<"0a">>
lineBreak == Break(mEncoding)
lineBreakTagLen == Len(lineBreak)

\* The mark is looked for at every byte; the wide one must not be the last of the buffer.
foundEol(buf, offset) ==
    IF Wide THEN /\ offset + lineBreakTagLen < Len(buf)
                 /\ SubSeq(buf, offset + 1, offset + lineBreakTagLen) = lineBreak
    ELSE offset < Len(buf) /\ buf[offset + 1] \in {"0a", "00"}

Ends(buf, from) == {o \in from .. Len(buf) : foundEol(buf, o)}

\* doConvertToUtf8(): the bytes of each unit.  convertToUtf8() copies them over the line,
\* and getLine() cuts it at its old length.
Symbol(bytes, k) == IF mEncoding = "UTF16" THEN bytes[2 * k - 1] ELSE bytes[2 * k]
doConvertToUtf8(bytes) ==
    FlattenSeq([k \in 1 .. Len(bytes) \div 2 |->
        LET u == Symbol(bytes, k)
        IN  CASE u \in {"k", "ff"} -> <<u, u, u>> [] u = "l" -> <<u, u>> [] OTHER -> <<u>>])
\* A carriage return before the mark is not part of the line.
Stripped(bytes) == IF bytes # <<>> /\ bytes[Len(bytes)] = "0d"
                   THEN SubSeq(bytes, 1, Len(bytes) - 1) ELSE bytes
convertToUtf8(bytes) ==
    LET utf8 == IF Wide THEN doConvertToUtf8(bytes) ELSE bytes
    IN  IF Len(utf8) < Len(bytes) THEN utf8 ELSE Stripped(SubSeq(utf8, 1, Len(bytes)))

\* mDataSource->read(): at most a block.
Block(from) == SubSeq(data, from + 1, Min({from + LINE_LEN, Len(data)}))
RestUnmoved(buf, from) == buf   \* a plausible bug: what has been read stays in front
Rest(buf, from) == SubSeq(buf, from + 1, Len(buf))

---------------------------------------------------------------------------
(* The loop of getLine(): a line ends in the buffer, or the rest of the       *)
(* buffer moves to its front and another block is read behind it.             *)
Found(buf, from, pos, last) ==
    LET end == Min(Ends(buf, from))
        bytes == SubSeq(buf, from + 1, end)
    IN  [line |-> <<convertToUtf8(bytes)>>, buf |-> buf,
         offset |-> end + lineBreakTagLen, last |-> Len(bytes) + lineBreakTagLen, fd |-> pos]
freeBuffer(result, pos) == [line |-> result, buf |-> <<>>, offset |-> 0, last |-> 0, fd |-> pos]

RECURSIVE Reading(_, _, _, _)
Reading(buf, from, pos, last) ==
    LET rest == Rest(buf, from)
        more == Block(pos)
    IN  IF Ends(buf, from) # {} THEN Found(buf, from, pos, last)
        ELSE IF Len(rest) >= LINE_LEN THEN freeBuffer(<<>>, pos)
        ELSE IF more # <<>> THEN Reading(rest \o more, 0, pos + Len(more), 0)
        ELSE IF rest # <<>> THEN freeBuffer(<<rest>>, pos)
        ELSE [line |-> <<>>, buf |-> buf, offset |-> from, last |-> last, fd |-> pos]

\* A buffer is made, and filled once, when there is none.
Start == IF mBuffer = <<>>
         THEN [buf |-> Block(fd), offset |-> 0, last |-> 0, fd |-> fd + Len(Block(fd))]
         ELSE [buf |-> mBuffer, offset |-> mBufferReadOffset, last |-> mLastLineLen, fd |-> fd]
GetLine == IF Start.buf = <<>> THEN freeBuffer(<<>>, fd)
           ELSE Reading(Start.buf, Start.offset, Start.fd, Start.last)

---------------------------------------------------------------------------
\* detectEncoding(), from the first three bytes of the file.
detectEncoding(bytes) ==
    LET found == {enc \in {"UTF8", "UTF16", "UTF16BE"} : IsPrefix(Bom(enc), bytes)}
    IN  IF Len(bytes) < 3 \/ found = {} THEN "NONE" ELSE CHOOSE enc \in found : TRUE

\* The reader of detect() begins behind the mark; decodeSubtitles() goes back to the start.
Init ==
    /\ \E enc \in Encodings, n \in 1 .. MaxUnits : \E text \in [1 .. n -> Units] :
         /\ data = Bom(enc) \o FlattenSeq([k \in 1 .. n |->
                       IF text[k] = "eol" THEN Break(enc) ELSE Bytes(enc, text[k])])
         /\ first \in {0, Len(Bom(enc))}
    /\ mEncoding = detectEncoding(data)
    /\ fd = first /\ mBuffer = <<>> /\ mBufferReadOffset = 0 /\ mLastLineLen = 0
    /\ line = <<>> /\ done = <<>>

getLine ==
    /\ Len(done) < MaxUnits
    /\ LET got == GetLine
       IN  /\ mBuffer' = got.buf /\ mBufferReadOffset' = got.offset
           /\ mLastLineLen' = got.last /\ fd' = got.fd /\ line' = got.line
           /\ done' = done \o got.line
    /\ UNCHANGED <<mEncoding, data, first>>

\* SubViewer2 gives back a line that ended in the buffer; a last line without its mark
\* has freed it, and stays read.
backtoLastLine ==
    /\ line # <<>>
    /\ mBufferReadOffset' = IF mBufferReadOffset > mLastLineLen
                            THEN mBufferReadOffset - mLastLineLen ELSE 0
    /\ done' = IF mBuffer = <<>> THEN done ELSE SubSeq(done, 1, Len(done) - 1)
    /\ line' = <<>>
    /\ UNCHANGED <<mEncoding, data, first, fd, mBuffer, mLastLineLen>>

Next == getLine \/ backtoLastLine

---------------------------------------------------------------------------
\* The offsets at which a character of the file begins, and what lies between its marks.
Step == IF Wide THEN 2 ELSE 1
Marks == {o \in first .. Len(data) - 1 : (o - first) % Step = 0 /\ foundEol(data, o)}
RECURSIVE Lines(_)
Lines(from) ==
    LET ends == {o \in Marks : o >= from}
    IN  IF ends = {} THEN <<>>
        ELSE <<SubSeq(data, from + 1, Min(ends))>> \o Lines(Min(ends) + lineBreakTagLen)
\* The characters of a line, each in its UTF-8 bytes.
Converted(bytes) == IF Wide THEN doConvertToUtf8(bytes) ELSE Stripped(bytes)

(* The lines of a file are read as they stand in it, whatever their lengths   *)
(* and wherever the blocks are cut, also when lines are given back: all but   *)
(* what follows the last mark.  (A line with its mark must be shorter than a  *)
(* block, and its UTF-8 form no longer than itself.)                          *)
LinesRead ==
    LET lines == Lines(first)
        fit == \A k \in DOMAIN lines : /\ Len(lines[k]) + lineBreakTagLen < LINE_LEN
                                       /\ Len(Converted(lines[k])) =< Len(lines[k])
        n == Min({Len(done), Len(lines)})
    IN  fit => \A k \in 1 .. n : done[k] = Converted(lines[k])
=============================================================================
