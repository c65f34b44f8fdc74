------------------------------- MODULE VobSub -------------------------------
(* VobSubIndex: the pair of an index (.idx), whose lines say at which time the *)
(* picture at which place of the packet file (.sub) is to be shown, for        *)
(* several tracks.  The index is decoded when ExtParser is made, the pictures  *)
(* are read one by one when they are shown (genSubBitmap).                     *)
(*                                                                             *)
(* A line is [kind, n, pos]: "langidx" and "id" with a track, "timestamp" with *)
(* a time in hundredths and a place, "other".  A place is a position in the    *)
(* sequence of packets, which are [kind, sub, data]: kind "bd" with a           *)
(* subpicture track (sub, -1 for another stream) and the data behind its       *)
(* headers, "pack", "skip" (padding, audio, video), "end", "junk" (bytes that  *)
(* do not begin a packet) and "bad" (a header that is refused).                *)
EXTENDS SubPicture

CONSTANTS
    Pairs,        \* the pairs: [lines, packets, wanted]; wanted is what a track should show
    Tracks,       \* the tracks a viewer may ask for, -1 for none in particular
    Fills,        \* what memory that was not written may hold
    MaxSpuItems   \* EXTERNAL_MAX_NUMBER_SPU_ITEM (1500)

VARIABLES
    pair,
    at,               \* the line mReader->getLine() gives next
    mIdxSubTrackId, mVobsubId, mSelectedTrackId,
    subtitles, loaded, mDecodedSpu,
    pos,              \* of mpg->stream
    asked,            \* history: the track that was asked for
    shown             \* history: what genSubBitmap() made of each item

vsvars == <<pair, at, mIdxSubTrackId, mVobsubId, mSelectedTrackId, subtitles, loaded,
            mDecodedSpu, pos, asked, shown>>
---------------------------------------------------------------------------
(* mpeg_run(): the next packet, from place i on.  ret is its result, data the *)
(* payload of a "bd" packet, sub its track.                                   *)
Packets == pair.packets
mpeg_eof(i) == i > Len(Packets)
mpeg_run(i) ==
    LET k == Min({j \in i .. Len(Packets) : Packets[j].kind # "junk"} \cup {Len(Packets) + 1})
        failed == [ret |-> -1, sub |-> -1, data |-> <<>>, next |-> k + 1]
    IN  IF mpeg_eof(k) \/ Packets[k].kind = "bad" THEN failed
        ELSE IF Packets[k].kind = "bd"
             THEN [ret |-> 0, sub |-> Packets[k].sub, data |-> Packets[k].data, next |-> k + 1]
        ELSE [failed EXCEPT !.ret = 0]

\* The first packet with data, if it is one of the track that is selected.
RECURSIVE FirstPiece(_)
FirstPiece(i) ==
    LET r == mpeg_run(i)
    IN  IF mpeg_eof(i) \/ (r.ret < 0 /\ ~mpeg_eof(r.next)) THEN [data |-> <<>>, next |-> i]
        ELSE IF r.data = <<>> THEN FirstPiece(r.next)
        ELSE [data |-> IF r.sub = mSelectedTrackId THEN r.data ELSE <<>>, next |-> r.next]

\* The pieces that follow, up to sublen bytes: another track's ends them.
Cropped(data, sublen) == SubSeq(data, 1, Min({Len(data), sublen}))
RECURSIVE Assembled(_, _, _)
Assembled(data, sublen, i) ==
    LET r == mpeg_run(i)
        stop == [data |-> data, next |-> r.next]
    IN  IF mpeg_eof(i) \/ Len(data) >= sublen THEN [data |-> Cropped(data, sublen), next |-> i]
        ELSE IF r.ret < 0 /\ ~mpeg_eof(r.next) THEN stop
        ELSE IF r.data = <<>> THEN Assembled(data, sublen, r.next)
        ELSE IF r.sub # mSelectedTrackId THEN stop
        ELSE Assembled(data \o r.data, sublen, r.next)

---------------------------------------------------------------------------
(* A unit's picture. *)
do_vob_sub_cmd(raw) == IF Word(raw, 2) >= Word(raw, 0) THEN NoCommands
                       ELSE Commands(raw, Word(raw, 2) + 4, 8, NoCommands)

vob_fill_pixel(raw, v, n) == Field(raw, IF n = 1 THEN v.top ELSE v.bottom, v)

\* The two fields as one picture, its width a multiple of eight.
convert2bto32b(raw, v) ==
    Lines(vob_fill_pixel(raw, v, 1), vob_fill_pixel(raw, v, 2), v, Stride(v.w))

Nothing == [lines |-> <<>>, x |-> 0, y |-> 0, alpha |-> 0, duration |-> 0]
Bitmap(raw) ==
    LET v == do_vob_sub_cmd(raw)
    IN  IF ~v.done THEN Nothing
        ELSE [lines |-> convert2bto32b(raw, v), x |-> v.x, y |-> v.y,
              alpha |-> AlphaAfter(v.alpha), duration |-> 1024 * v.delay]

---------------------------------------------------------------------------
Init ==
    /\ pair \in Pairs /\ asked \in Tracks /\ mIdxSubTrackId = asked
    /\ mSelectedTrackId = asked
    /\ at = 1 /\ mVobsubId = 0 /\ subtitles = <<>> /\ loaded = FALSE /\ mDecodedSpu = <<>>
    /\ pos = 1 /\ shown = <<>>

(* One line of the index, read by decodedItem(): the end of the file ends     *)
(* decodeSubtitles().  (The first call copies mIdxSubTrackId, if one was asked *)
(* for, to mSelectedTrackId.)                                                 *)
Unread == at =< Len(pair.lines)
Read(kind) == ~loaded /\ Unread /\ pair.lines[at].kind = kind /\ at' = at + 1
              /\ UNCHANGED <<pair, loaded, mDecodedSpu, pos, asked, shown>>

langidx ==
    /\ Read("langidx")
    /\ mVobsubId' = pair.lines[at].n
    /\ mSelectedTrackId' = IF mIdxSubTrackId = -1 THEN mVobsubId' ELSE mSelectedTrackId
    /\ UNCHANGED <<mIdxSubTrackId, subtitles>>

id ==
    /\ Read("id")
    /\ mVobsubId' = pair.lines[at].n
    /\ mIdxSubTrackId' = IF mIdxSubTrackId = -1 THEN mVobsubId' ELSE mIdxSubTrackId
    /\ mSelectedTrackId' = IF mIdxSubTrackId = -1 THEN mVobsubId' ELSE mSelectedTrackId
    /\ UNCHANGED subtitles

\* A plausible bug: the track is not looked at.
NoOtherTrack == FALSE
OtherTrack == mVobsubId # mSelectedTrackId
timestamp ==
    /\ Read("timestamp")
    /\ subtitles' = IF OtherTrack THEN subtitles
                    ELSE Append(subtitles, [start |-> pair.lines[at].n, subId |-> mVobsubId,
                                            filePos |-> pair.lines[at].pos])
    /\ UNCHANGED <<mIdxSubTrackId, mVobsubId, mSelectedTrackId>>

other == Read("other") /\ UNCHANGED <<mIdxSubTrackId, mVobsubId, mSelectedTrackId, subtitles>>

endOfIndex ==
    /\ ~loaded /\ ~Unread /\ loaded' = TRUE
    /\ UNCHANGED <<pair, at, mIdxSubTrackId, mVobsubId, mSelectedTrackId, subtitles,
                   mDecodedSpu, pos, asked, shown>>

\* popDecodedItem(), by ExtParser::parse(): the first item of the track selected.
Selected == {i \in DOMAIN subtitles : subtitles[i].subId = mSelectedTrackId}
popDecodedItem ==
    /\ loaded /\ Selected # {} /\ Len(mDecodedSpu) < MaxSpuItems
    /\ mDecodedSpu' = Append(mDecodedSpu, subtitles[Min(Selected)])
    /\ subtitles' = RemoveAt(subtitles, Min(Selected))
    /\ UNCHANGED <<pair, at, mIdxSubTrackId, mVobsubId, mSelectedTrackId, loaded, pos,
                   asked, shown>>

\* genSubBitmap(), called when an item is shown.  What the pieces left of the unit unwritten
\* is anything.
genSubBitmap ==
    /\ mDecodedSpu # <<>>
    /\ LET item == Head(mDecodedSpu)
           piece == FirstPiece(item.filePos)
           sublen == Word(piece.data, 0)
           unit == Assembled(piece.data, sublen, piece.next)
           Filled(f) == unit.data \o [i \in 1 .. sublen - Len(unit.data) |-> f]
       IN  IF piece.data = <<>>
           THEN /\ shown' = Append(shown, [start |-> item.start, picture |-> Nothing])
                /\ pos' = piece.next
           ELSE /\ \E f \in Fills : shown' = Append(shown, [start |-> item.start,
                                                            picture |-> Bitmap(Filled(f))])
                /\ pos' = unit.next
    /\ mDecodedSpu' = Tail(mDecodedSpu)
    /\ UNCHANGED <<pair, at, mIdxSubTrackId, mVobsubId, mSelectedTrackId, subtitles, loaded,
                   asked>>

Next == langidx \/ id \/ timestamp \/ other \/ endOfIndex \/ popDecodedItem \/ genSubBitmap

---------------------------------------------------------------------------
(* Of a pair whose units are whole, what is shown is the pictures of one      *)
(* track, in their order and at their times: the one asked for, or the first  *)
(* of the index.  Each has its own pixels, or with a background that was not  *)
(* transparent the same ones visible, in its place and for its duration, from *)
(* whichever packets its unit is put together and whatever was read before.   *)
Sees(picture, wanted) ==
    /\ picture.x = wanted.x /\ picture.y = wanted.y /\ picture.duration = wanted.duration
    /\ Len(picture.lines) = Len(wanted.lines)
    /\ \A i \in DOMAIN wanted.lines : \A j \in DOMAIN wanted.lines[i] :
         LET p == picture.lines[i][j]
             q == wanted.lines[i][j]
         IN  /\ (Contrast(picture.alpha, p) = 0) <=> (Contrast(wanted.alpha, q) = 0)
             /\ Contrast(wanted.alpha, 0) = 0 => p = q
PicturesShown ==
    LET track == IF asked = -1 THEN pair.first ELSE asked
        wanted == pair.wanted[track]
    IN  /\ Len(shown) =< Len(wanted)
        /\ \A k \in DOMAIN shown : /\ shown[k].start = wanted[k].start
                                   /\ Sees(shown[k].picture, wanted[k])
        /\ loaded => Len(shown) + Len(mDecodedSpu) + Len(subtitles) = Len(wanted)
=============================================================================
