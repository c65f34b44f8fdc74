---------------------------- MODULE PictureFiles ----------------------------
(* What a DVD's subtitles look like: pictures written as subpicture units, and *)
(* the index and the packets of a VobSub pair.  It is the other side of        *)
(* SubPicture, written from the format: the input of its instances.  And what  *)
(* the subtitle messages of a cable stream look like, the input of             *)
(* Scte27Parser.                                                               *)
EXTENDS Integers, Sequences, FiniteSetsExt, SequencesExt

Hi(n) == n \div 256
Lo(n) == n % 256
Two(n) == <<Hi(n), Lo(n)>>

\* A picture is rows of runs <<count, color>>, a count of 0 for the rest of the row.
RunNibbles(run) ==
    LET v == 4 * run[1] + run[2]
    IN  CASE v \in 4 .. 15 -> <<v>>
          [] v \in 16 .. 63 -> <<v \div 16, v % 16>>
          [] v \in 64 .. 255 -> <<0, v \div 16, v % 16>>
          [] OTHER -> <<0, v \div 256, (v \div 16) % 16, v % 16>>
RowBytes(row) ==
    LET n == FlattenSeq([i \in DOMAIN row |-> RunNibbles(row[i])])
        even == IF Len(n) % 2 = 0 THEN n ELSE Append(n, 0)
    IN  [i \in 1 .. Len(even) \div 2 |-> 16 * even[2 * i - 1] + even[2 * i]]
FieldBytes(rows, first) ==
    FlattenSeq([i \in 1 .. Len(rows) \div 2 |-> RowBytes(rows[2 * i - 2 + first])])

Area(from, size) == LET to == from + size - 1
                    IN  <<from \div 16, 16 * (from % 16) + Hi(to), Lo(to)>>

\* Two control sequences: what to show, and after the delay the end of it.
SpuBytes(pic) ==
    LET top == FieldBytes(pic.rows, 1)
        bottom == FieldBytes(pic.rows, 2)
        control == 4 + Len(top) + Len(bottom)
        stop == control + 24
    IN  Two(stop + 6) \o Two(control) \o top \o bottom
        \o <<0, 0>> \o Two(stop) \o <<3>> \o Two(pic.color) \o <<4>> \o Two(pic.alpha)
        \o <<5>> \o Area(pic.x, pic.w) \o Area(pic.y, Len(pic.rows))
        \o <<6>> \o Two(4) \o Two(4 + Len(top)) \o <<1, 255>>
        \o Two(pic.delay) \o Two(stop) \o <<2, 255>>

\* Its pixels, row by row.
RECURSIVE Pixels(_, _)
Pixels(row, left) ==
    IF row = <<>> THEN <<>>
    ELSE LET n == IF row[1][1] = 0 THEN left ELSE row[1][1]
         IN  [i \in 1 .. n |-> row[1][2]] \o Pixels(Tail(row), left - n)

Cut(b, at) == IF at = 0 \/ at >= Len(b) THEN <<b>>
              ELSE <<SubSeq(b, 1, at), SubSeq(b, at + 1, Len(b))>>
---------------------------------------------------------------------------
\* Small pictures: runs of each length, rows that end early, odd widths, and a background
\* that is not transparent.
Pic(x, y, w, rows, alpha, delay) ==
    [x |-> x, y |-> y, w |-> w, rows |-> rows, alpha |-> alpha, color |-> 4660, delay |-> delay]
\* A first sequence is 24 bytes long, so a unit is 34 bytes and its pixels.
Pictures == <<
    Pic(3, 17, 9, << <<<<3, 1>>, <<0, 0>>>>, <<<<9, 2>>>> >>, 65520, 90),
    Pic(300, 0, 70, << <<<<1, 3>>, <<66, 2>>, <<0, 1>>>>, <<<<2, 1>>, <<0, 3>>>>,
                       <<<<20, 2>>, <<0, 0>>>>, <<<<0, 1>>>> >>, 4080, 7),
    Pic(1, 2, 16, << <<<<16, 0>>>>, <<<<4, 3>>, <<12, 1>>>> >>, 4081, 200) >>
---------------------------------------------------------------------------
(* A VobSub pair, from cues [track, pic, cut, between]: the unit of each cue   *)
(* whole or in two packets, with others before it and between.                *)
Packet(kind, sub, data) == [kind |-> kind, sub |-> sub, data |-> data]
Pack == Packet("pack", -1, <<>>)
Between == [none |-> <<>>, skip |-> <<Pack, Packet("skip", -1, <<>>)>>,
            junk |-> <<Packet("junk", -1, <<>>), Packet("bd", -1, <<>>)>>]

CuePackets(cue) ==
    LET pieces == Cut(SpuBytes(Pictures[cue.pic]), cue.cut)
    IN  FlattenSeq([i \in DOMAIN pieces |->
            (IF i = 1 THEN <<Pack>> ELSE Between[cue.between])
            \o <<Packet("bd", cue.track, pieces[i])>>])
Place(cues, k) == 1 + Len(FlattenSeq([i \in 1 .. k - 1 |-> CuePackets(cues[i])]))

Line(kind, n, pos) == [kind |-> kind, n |-> n, pos |-> pos]
OfTrack(cues, t) == SelectSeq([k \in DOMAIN cues |-> k], LAMBDA k : cues[k].track = t)
TrackLines(cues, t) ==
    <<Line("id", t, 0)>> \o [i \in DOMAIN OfTrack(cues, t) |->
        LET k == OfTrack(cues, t)[i] IN Line("timestamp", 100 * k, Place(cues, k))]

Wanted(pic, start) ==
    [start |-> start, x |-> pic.x, y |-> pic.y, alpha |-> pic.alpha,
     duration |-> 1024 * pic.delay,
     lines |-> [i \in DOMAIN pic.rows |-> Pixels(pic.rows[i], pic.w)]]
PairOf(cues, head, first) ==
    [lines |-> head \o TrackLines(cues, first) \o <<Line("other", 0, 0)>>
               \o TrackLines(cues, 1 - first),
     packets |-> FlattenSeq([i \in DOMAIN cues |-> CuePackets(cues[i])])
                 \o <<Packet("end", -1, <<>>)>>,
     first |-> first,
     wanted |-> [t \in {0, 1} |->
        [i \in DOMAIN OfTrack(cues, t) |->
            LET k == OfTrack(cues, t)[i] IN Wanted(Pictures[cues[k].pic], 100 * k)]]]

Cues == {[track |-> 0, pic |-> 1, cut |-> 0, between |-> "none"],
         [track |-> 0, pic |-> 2, cut |-> 40, between |-> "skip"],
         [track |-> 0, pic |-> 3, cut |-> 5, between |-> "junk"],
         [track |-> 1, pic |-> 1, cut |-> 2, between |-> "none"],
         [track |-> 1, pic |-> 3, cut |-> 0, between |-> "none"]}
Heads == {<<>>, <<Line("langidx", 0, 0)>>, <<Line("other", 0, 0), Line("langidx", 1, 0)>>}
AllPairs == {PairOf(cues, head, first) :
               cues \in UNION {[1 .. n -> Cues] : n \in 1 .. 3}, head \in Heads,
               first \in {0, 1}}
---------------------------------------------------------------------------
\* What a player hands over: a unit in one or two pieces, the palette (EXTRA), and a packet
\* of another kind.
DvdUnit(type, pts, pic, cut) ==
    [type |-> type, pts |-> pts, pieces |-> Cut(SpuBytes(Pictures[pic]), cut),
     wanted |-> <<Wanted(Pictures[pic], pts)>>]
NoPicture(type, data) == [type |-> type, pts |-> 0, pieces |-> <<data>>, wanted |-> <<>>]
DvdUnits == <<
    DvdUnit("17000", 10, 1, 0), DvdUnit("1700a", 20, 2, 40), DvdUnit("17000", 30, 3, 7),
    NoPicture("17000", <<69, 88, 84, 82, 65, 1, 2, 3, 4, 5, 6, 7, 8>>),
    NoPicture("other", [k \in 1 .. 20 |-> 5]) >>
---------------------------------------------------------------------------
(* Subtitle messages as a cable stream has them, written from pictures whose   *)
(* rows are runs <<kind, n>> with kind "on" and "off".                         *)

Field(f, v) == [f |-> f, v |-> v]

\* A run of pixels as it is coded: on and off together where they fit, zero for the greatest.
RECURSIVE Codes(_)
Codes(row) ==
    IF row = <<>> THEN <<Field("eol", 0)>>
    ELSE IF Len(row) > 1 /\ row[1][1] = "on" /\ row[1][2] =< 8 /\ row[2][2] =< 32
         THEN <<Field("onoff", <<row[1][2] % 8, row[2][2] % 32>>)>> \o Codes(Tail(Tail(row)))
    ELSE <<IF row[1][1] = "on" THEN Field("on", row[1][2] % 16)
           ELSE Field("off", row[1][2] % 64)>> \o Codes(Tail(row))

On(row, c) == \E i \in DOMAIN row :
    LET before(k) == FoldLeft(LAMBDA n, run : n + run[2], 0, SubSeq(row, 1, k))
    IN  row[i][1] = "on" /\ before(i - 1) < c /\ c =< before(i)

\* What is to be seen at <<r, c>>.
Near(d, t) == d[1] * d[1] + d[2] * d[2] =< t * t
Pixel(p, r, c) ==
    LET ch == {<<i, j>> \in (1 .. Len(p.rows)) \X (1 .. p.width) : On(p.rows[i], j)}
    IN  CASE <<r, c>> \in ch -> "character"
          [] <<r, c>> \notin ch /\ p.style.kind = "outline"
             /\ \E q \in ch : Near(<<q[1] - r, q[2] - c>>, p.style.thickness) -> "outline"
          [] <<r, c>> \notin ch /\ p.style.kind = "shadow"
             /\ <<r - p.style.below, c - p.style.right>> \in ch -> "shadow"
          [] OTHER -> IF p.frame = <<>> THEN "background" ELSE "frame"

\* A message [ext, cut, type, immediate, picture]: its fields in a section, or cut into two or
\* three segments.
Body(m) ==
    LET p == m.picture
        right == p.x + p.width
        bottom == p.y + Len(p.rows)
    IN  <<Field("head", [reveal |-> m.reveal, duration |-> 60, standard |-> 1,
                         immediate |-> m.immediate, type |-> m.type]),
          Field("place", [left |-> p.x, top |-> p.y, right |-> right, bottom |-> bottom])>>
        \o p.frame
        \o (IF p.style.kind = "none" THEN <<>> ELSE <<Field("style", p.style)>>)
        \o <<Field("length", 0)>> \o FlattenSeq([i \in DOMAIN p.rows |-> Codes(p.rows[i])])
Section(overlay, ext, last, curr, data) ==
    [overlay |-> overlay, table_ext |-> ext, last_no |-> last, curr_no |-> curr, data |-> data]
Sections(m) ==
    LET body == Body(m)
        cuts == <<0>> \o m.cuts \o <<Len(body)>>
        last == Len(m.cuts)
    IN  [i \in 1 .. last + 1 |-> Section(last > 0, m.ext, last, i - 1,
                                        SubSeq(body, cuts[i] + 1, cuts[i + 1]))]
Due(m) ==
    LET p == m.picture
    IN  [pts |-> m.reveal, end |-> m.reveal + 60 + 3600, size |-> <<720, 576>>,
         immediate |-> m.immediate,
         picture |-> IF m.type # 1 \/ ~p.holds THEN [x |-> 0, y |-> 0, lines |-> <<>>]
                     ELSE [x |-> p.x, y |-> p.y,
                           lines |-> [r \in 1 .. Len(p.rows) |->
                                        [c \in 1 .. p.width |-> Pixel(p, r, c)]]]]
---------------------------------------------------------------------------
\* Pictures with runs of every kind and of the greatest lengths, rows that end early, and room
\* for their outlines and shadows.
None == [kind |-> "none", thickness |-> 0, right |-> 0, below |-> 0]
Outline(t) == [None EXCEPT !.kind = "outline", !.thickness = t]
Shadow(right, below) == [None EXCEPT !.kind = "shadow", !.right = right, !.below = below]
Frame(left, top, right, bottom) ==
    <<Field("frame", [left |-> left, top |-> top, right |-> right, bottom |-> bottom])>>
Small == << <<>>, <<<<"off", 2>>, <<"on", 1>>, <<"off", 2>>, <<"on", 2>>>>, <<>>,
            <<<<"off", 3>>, <<"on", 1>>>>, <<>> >>
Wide == << <<<<"off", 64>>>>, <<<<"off", 2>>, <<"on", 8>>, <<"off", 32>>, <<"on", 16>>>>,
           <<<<"off", 1>>, <<"on", 9>>, <<"off", 40>>, <<"on", 2>>>>, <<>> >>
Drawn(x, y, width, rows, style, frame, holds) ==
    [x |-> x, y |-> y, width |-> width, rows |-> rows, style |-> style, frame |-> frame,
     holds |-> holds]
Message(ext, reveal, type, immediate, cuts, p) ==
    [ext |-> ext, reveal |-> reveal, type |-> type, immediate |-> immediate, cuts |-> cuts,
     picture |-> p]
Messages == <<
    Message(1, 10, 1, FALSE, <<>>, Drawn(5, 7, 9, Small, None, <<>>, TRUE)),
    Message(2, 20, 1, TRUE, <<3, 5>>, Drawn(40, 3, 64, Wide, Shadow(2, 1), <<>>, TRUE)),
    Message(3, 30, 1, FALSE, <<1, 6>>, Drawn(5, 7, 9, Small, Outline(1),
                                            Frame(5, 6, 20, 12), TRUE)),
    Message(4, 40, 1, FALSE, <<2>>, Drawn(5, 7, 9, Small, Outline(2),
                                         Frame(6, 6, 20, 12), FALSE)),
    Message(5, 50, 2, FALSE, <<>>, Drawn(5, 7, 9, Small, None, <<>>, TRUE)) >>
Sent == {[sections |-> Sections(Messages[i]), wanted |-> Due(Messages[i])] :
            i \in DOMAIN Messages}
Broadcasts == [1 .. 2 -> Sent]
=============================================================================
