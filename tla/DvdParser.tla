------------------------------ MODULE DvdParser ------------------------------
(* DvdParser: the subpicture units of a DVD as the player hands them over,     *)
(* each behind a header of its own and in one or more pieces.  parse() looks   *)
(* at what its source has every millisecond and takes it to be whole: what a   *)
(* unit lacks then is not waited for.  A byte of a unit's data is its value,   *)
(* and the bytes of the headers are numbers beyond (see Header).  A unit comes *)
(* when the one before has been read, or left as too little to look at; two    *)
(* whole ones that are read at once are not modelled.                          *)
EXTENDS SubPicture

CONSTANTS
    Units,        \* what a player may send: [type, pts, pieces, wanted], in a sequence
    MaxUnits,     \* how many of them it sends
    Cuts          \* where a unit may be cut in two by the time it is read

VARIABLES
    stream,       \* of indices of Units
    sent, cut,    \* units handed over, and bytes of the last one when it came in two parts
    source,       \* the bytes that wait in mDataSource
    mRestLen,
    cutUnits,     \* history: the units that came in parts
    posted        \* the items addDecodedItem() has been given, each with its unit

dvvars == <<stream, sent, cut, source, mRestLen, cutUnits, posted>>

HEADER_SIZE == 20
Least == 30                 \* what getSpu() does not look at

---------------------------------------------------------------------------
(* Byte k of the header of piece c of unit u is 1000 u + 100 c + k.  The first *)
(* one is 20 bytes long, with four more but for type 0x17000, the others 16.   *)
Unit(u) == Units[stream[u]]
Header(u, c, n) == [k \in 1 .. n |-> 1000 * u + 100 * (c - 1) + k - 1]
HeaderLen(u, c) == IF c > 1 THEN 16 ELSE IF Unit(u).type = "17000" THEN HEADER_SIZE ELSE 24
UnitBytes(u) == FlattenSeq([c \in DOMAIN Unit(u).pieces |->
                               Header(u, c, HeaderLen(u, c)) \o Unit(u).pieces[c]])

Sync(buf, i) == Byte(buf, i) >= 1000 /\ Byte(buf, i) % 100 = 0
UnitOf(byte) == byte \div 1000
PieceOf(byte) == (byte % 1000) \div 100 + 1
currentLen(byte) == Len(Unit(UnitOf(byte)).pieces[PieceOf(byte)])
\* A later piece has no room for the time between its header and its data.
currentType(byte) == Unit(UnitOf(byte)).type

---------------------------------------------------------------------------
(* getVobSpu(): the pieces of the unit that starts the buffer, of which cur    *)
(* bytes are its first.  It does not look whether a later piece is there.      *)
RECURSIVE Gather(_, _, _, _)
Gather(buf, rd, cur, unit) ==
    LET length == Word(buf, 0)
        from == IF cur = 0 THEN rd + 16 ELSE rd
        len == IF cur = 0 THEN currentLen(Byte(buf, rd)) ELSE cur
        all == unit \o [k \in 1 .. len |-> Byte(buf, from + k - 1)]
    IN  IF cur = 0 /\ ~Sync(buf, rd) THEN [ready |-> FALSE, unit |-> unit]
        ELSE IF Len(unit) + len > length THEN [ready |-> FALSE, unit |-> unit]
        ELSE IF Len(all) = length THEN [ready |-> TRUE, unit |-> all]
        ELSE Gather(buf, from + len, 0, all)

Extra == <<69, 88, 84, 82, 65>>
IsExtra(buf) == IsPrefix(Extra, buf)
getVobSpu(buf, len) ==
    IF IsExtra(buf) \/ Word(buf, 0) = 0 THEN [ready |-> FALSE, unit |-> <<>>]
    ELSE Gather(buf, 0, len, <<>>)

---------------------------------------------------------------------------
(* The picture of a unit that is ready; whether its commands were understood  *)
(* is not looked at.                                                          *)
MaxWidth == 1920
MaxHeight == 1280
getSpuCmd(unit) ==
    LET v == IF Word(unit, 2) >= Word(unit, 0) THEN NoCommands
             ELSE Commands(unit, Word(unit, 2) + 4, 16, NoCommands)
    IN  [v EXCEPT !.w = Min({@, MaxWidth}), !.h = Min({@, MaxHeight})]

spuFillPixel(unit, v, n) == Field(unit, IF n = 1 THEN v.top ELSE v.bottom, v)
parseInterSpu(unit, v) == Lines(spuFillPixel(unit, v, 1), spuFillPixel(unit, v, 2), v, v.w)

Blank == [lines |-> <<>>, x |-> 0, y |-> 0, alpha |-> 0, end |-> 0]
fillResize(got, pts) ==
    LET v == getSpuCmd(got.unit)
    IN  IF ~got.ready \/ v.w * v.h = 0 THEN Blank
        ELSE [lines |-> parseInterSpu(got.unit, v), x |-> v.x, y |-> v.y,
              alpha |-> AlphaAfter(v.alpha),
              end |-> IF v.delay > 0 THEN pts + 1024 * v.delay ELSE 0]

---------------------------------------------------------------------------
Init ==
    /\ stream \in [1 .. MaxUnits -> DOMAIN Units]
    /\ sent = 0 /\ cut = 0 /\ source = <<>> /\ mRestLen = 0 /\ cutUnits = {} /\ posted = <<>>

\* The player: a unit at once, or its first part and later the rest.
arrive ==
    /\ cut = 0 /\ Len(source) =< Least /\ sent < Len(stream)
    /\ sent' = sent + 1
    /\ LET bytes == UnitBytes(sent')
       IN  \E n \in {k \in Cuts : k < Len(bytes)} \cup {Len(bytes)} :
             /\ source' = source \o SubSeq(bytes, 1, n)
             /\ cut' = IF n = Len(bytes) THEN 0 ELSE n
    /\ cutUnits' = IF cut' = 0 THEN cutUnits ELSE cutUnits \cup {sent'}
    /\ UNCHANGED <<stream, mRestLen, posted>>

arriveRest ==
    /\ cut > 0
    /\ LET bytes == UnitBytes(sent)
       IN  source' = source \o SubSeq(bytes, cut + 1, Len(bytes))
    /\ cut' = 0
    /\ UNCHANGED <<stream, sent, mRestLen, cutUnits, posted>>

(* getSpu(): nothing is done with less than 31 bytes.  What does not begin    *)
(* with a header, and a unit of which not all the first piece is there, is     *)
(* thrown away with all that has come.                                        *)
Looks == Len(source) > Least
Whole == Sync(source, 0) /\ currentLen(Head(source)) =< Len(source) - HEADER_SIZE

throwAway ==
    /\ Looks /\ ~Whole
    /\ source' = <<>> /\ UNCHANGED <<stream, sent, cut, mRestLen, cutUnits, posted>>

otherType ==
    /\ Looks /\ Whole /\ currentType(Head(source)) = "other"
    /\ LET n == HEADER_SIZE + currentLen(Head(source)) + 4
       IN  n =< Len(source) /\ source' = SubSeq(source, n + 1, Len(source))
    /\ mRestLen' = 0
    /\ UNCHANGED <<stream, sent, cut, cutUnits, posted>>

\* What is left behind the unit has no header, and is dropped.
getSpu ==
    /\ Looks /\ Whole /\ currentType(Head(source)) # "other"
    /\ LET u == UnitOf(Head(source))
           buf == SubSeq(source, HeaderLen(u, 1) + 1, Len(source))
       IN  \E got \in {getVobSpu(buf, currentLen(Head(source)))} :
             posted' = Append(posted, [unit |-> u, pts |-> Unit(u).pts,
                                       picture |-> fillResize(got, Unit(u).pts)])
    /\ source' = <<>> /\ mRestLen' = 0
    /\ UNCHANGED <<stream, sent, cut, cutUnits>>

Next == arrive \/ arriveRest \/ throwAway \/ otherType \/ getSpu

---------------------------------------------------------------------------
Pictures(U) == SelectSeq(posted, LAMBDA item : item.unit \in U)
\* The units whose bytes came together, with nothing left of another before them.
Sound == {u \in 1 .. sent : /\ u \notin cutUnits /\ u - 1 \notin cutUnits
                           /\ Unit(u).wanted # <<>> /\ (u = sent => source = <<>>)}

(* Every unit that comes at once is posted, once, in its order and with its    *)
(* time, its pixels and its end, in however many pieces it is.  One that comes *)
(* in parts costs at most itself and the next one, and no unit is posted twice.*)
UnitsPosted ==
    LET pictures == Pictures(Sound)
    IN  /\ Len(pictures) = Cardinality(Sound)
        /\ \A k \in 1 .. Len(posted) - 1 : posted[k].unit < posted[k + 1].unit
        /\ \A k \in DOMAIN pictures :
             LET unit == Unit(pictures[k].unit)
                 got == pictures[k].picture
                 wanted == unit.wanted[1]
                 c == change_data(wanted.alpha)
                 Replaced(row) == [j \in DOMAIN row |-> PixelData(c, row[j])]
             IN  /\ pictures[k].pts = unit.pts
                 /\ got.lines = [i \in DOMAIN wanted.lines |-> Replaced(wanted.lines[i])]
                 /\ got.x = wanted.x /\ got.y = wanted.y
                 /\ got.end = unit.pts + wanted.duration
=============================================================================
