---------------------------- MODULE Scte27Parser ----------------------------
(* Scte27Parser: subtitle messages of a cable stream, each in one section of   *)
(* the demux or, with the segmentation overlay, in several that are put        *)
(* together.  Sections are broadcast: they may be lost and repeated.           *)
(*                                                                             *)
(* A section is [overlay, table_ext, last_no, curr_no, data].  Its data is a   *)
(* sequence of the fields of a message body, [f, v]: f is "head" (what          *)
(* decodeMessageBodySubtitle() reads of the first twelve bytes), "place" and,   *)
(* with a frame, "frame" (corners of the bitmap and of its frame), "style"      *)
(* (an outline or a shadow), "length", and the run lengths of the bitmap,       *)
(* "onoff", "off", "on", "stuff", "eol" and "reserved", with the numbers as     *)
(* they are written: zero stands for the greatest.                             *)
EXTENDS Integers, Sequences, FiniteSets, SequencesExt, Folds

CONSTANTS
    Broadcasts,   \* sequences of messages [sections, wanted], one of which is received
    MaxFaults     \* how many sections are lost or come again

VARIABLES
    broadcast,
    due,          \* the sections that are still to be sent
    faults,
    mContext,     \* [table_ext, curr_no, last_no, has_segment, segment_container]
    heard,        \* history: the sections read
    items         \* what addDecodedItem() has been given: [at, item], at the sections read

scvars == <<broadcast, due, faults, mContext, heard, items>>

FieldSize == [head |-> 12, place |-> 9, frame |-> 8, style |-> 3, length |-> 2, onoff |-> 1,
              off |-> 1, on |-> 1, stuff |-> 1, eol |-> 1, reserved |-> 1]
seg_size(data) == FoldFunction(+, 0, [i \in DOMAIN data |-> FieldSize[data[i].f]])

---------------------------------------------------------------------------
(* decodeBitmap(): the run lengths, up to the last row that is told or the    *)
(* end of the data.  b is the bitmap, row by row, in one sequence.            *)
BG == "background"
CH == "character"
OL == "outline"
DS == "shadow"

OrAll(n, all) == IF n = 0 THEN all ELSE n
Blank(size) == [b |-> [k \in 1 .. size |-> BG], row_start |-> 0, row_length |-> 0,
                row_count |-> 0]

\* n pixels of one kind at the cursor.
Run(s, n, pixel) ==
    LET from == s.row_start + s.row_length
    IN  [s EXCEPT !.b = [k \in DOMAIN @ |-> IF k \in from + 1 .. from + n THEN pixel ELSE @[k]],
                  !.row_length = @ + n]
\* What is left of a row is background.
EndOfRow(s, bitmap_h) ==
    LET filled == Run(s, IF s.row_length < bitmap_h THEN bitmap_h - s.row_length ELSE 0, BG)
    IN  [filled EXCEPT !.row_start = @ + bitmap_h, !.row_length = 0, !.row_count = @ + 1]
Decoded(s, code, bitmap_h, bitmap_v) ==
    CASE s.row_count >= bitmap_v -> s
      [] s.row_count < bitmap_v /\ code.f = "onoff" ->
             Run(Run(s, OrAll(code.v[1], 8), CH), OrAll(code.v[2], 32), BG)
      [] s.row_count < bitmap_v /\ code.f = "off" -> Run(s, OrAll(code.v, 64), BG)
      [] s.row_count < bitmap_v /\ code.f = "on" -> Run(s, OrAll(code.v, 16), CH)
      [] s.row_count < bitmap_v /\ code.f = "eol" -> EndOfRow(s, bitmap_h)
      [] OTHER -> s
Runs(codes, bitmap_h, bitmap_v) ==
    FoldLeft(LAMBDA s, code : Decoded(s, code, bitmap_h, bitmap_v),
             Blank(bitmap_h * bitmap_v), codes).b

\* The background around every pixel of a character; its place is reckoned along the bitmap
\* from the pixel's, without regard to where a row ends, or the bitmap: what lies outside of
\* it is not modelled.
Around(t) == {d \in (-t .. t) \X (-t .. t) : d[1] * d[1] + d[2] * d[2] =< t * t}
Outlined(b, t, bitmap_h) ==
    [k \in DOMAIN b |->
        IF b[k] = BG /\ \E d \in Around(t) : LET from == k - d[1] * bitmap_h - d[2]
                                             IN  from \in DOMAIN b /\ b[from] = CH
        THEN OL ELSE b[k]]
Shadowed(b, right, below, bitmap_h) ==
    [k \in DOMAIN b |->
        IF b[k] = BG /\ k - below * bitmap_h - right \in DOMAIN b
           /\ b[k - below * bitmap_h - right] = CH
        THEN DS ELSE b[k]]

Styled(b, style, bitmap_h) ==
    CASE style = <<>> -> b
      [] style # <<>> /\ style[1].v.kind = "outline" -> Outlined(b, style[1].v.thickness, bitmap_h)
      [] style # <<>> /\ style[1].v.kind = "shadow" ->
             Shadowed(b, style[1].v.right, style[1].v.below, bitmap_h)
      [] OTHER -> b

Of(data, f) == SelectSeq(data, LAMBDA field : field.f = f)
Codes(data) == SelectSeq(data, LAMBDA field :
                            field.f \in {"onoff", "off", "on", "stuff", "eol", "reserved"})
\* A frame has to hold the bitmap.
Holds(frame, place) ==
    /\ frame.left =< place.left /\ frame.top =< place.top
    /\ frame.right >= place.right /\ frame.bottom >= place.bottom
NoPicture == [x |-> 0, y |-> 0, lines |-> <<>>]
decodeBitmap(data) ==
    LET place == Of(data, "place")[1].v
        frame == Of(data, "frame")
        bitmap_h == place.right - place.left
        bitmap_v == place.bottom - place.top
        b == Styled(Runs(Codes(data), bitmap_h, bitmap_v), Of(data, "style"), bitmap_h)
    IN  IF frame # <<>> /\ ~Holds(frame[1].v, place) THEN NoPicture
        ELSE [x |-> place.left, y |-> place.top,
              lines |-> [r \in 1 .. bitmap_v |->
                 [c \in 1 .. bitmap_h |->
                    IF b[(r - 1) * bitmap_h + c] = BG /\ frame # <<>> THEN "frame"
                    ELSE b[(r - 1) * bitmap_h + c]]]]

---------------------------------------------------------------------------
(* decodeMessageBodySubtitle(): an item with the picture, or with none when   *)
(* it is no bitmap.  It takes its time as a number of frames and adds one.    *)
FrameDuration(standard) ==
    CASE standard = 0 -> 3000 [] standard = 1 -> 3600 [] standard \in {2, 3} -> 1500
      [] OTHER -> 3600
Size(standard) ==
    CASE standard = 0 -> <<720, 480>> [] standard = 1 -> <<720, 576>>
      [] standard = 2 -> <<1280, 720>> [] standard = 3 -> <<1920, 1080>>
      [] OTHER -> <<0, 0>>                  \* that of the video
Item(data) ==
    LET h == Head(data).v
    IN  [pts |-> h.reveal, end |-> h.reveal + h.duration + FrameDuration(h.standard),
         size |-> Size(h.standard), immediate |-> h.immediate,
         picture |-> IF h.type = 1 THEN decodeBitmap(data) ELSE NoPicture]

\* Data that does not begin with a head is read as if it did: it is refused, or shows anything.
Garbage == [pts |-> -1, end |-> -1, size |-> <<0, 0>>, immediate |-> FALSE,
            picture |-> NoPicture]
decodeMessageBodySubtitle(data) ==
    IF Head(data).f = "head" THEN {<<Item(data)>>} ELSE {<<>>, <<Garbage>>}

---------------------------------------------------------------------------
NoSegment == [table_ext |-> 0, curr_no |-> 0, last_no |-> 0, has_segment |-> FALSE,
              segment_container |-> <<>>]

Init ==
    /\ broadcast \in Broadcasts
    /\ due = FlattenSeq([m \in DOMAIN broadcast |-> broadcast[m].sections])
    /\ faults = 0 /\ mContext = NoSegment /\ heard = <<>> /\ items = <<>>

\* The broadcast: a section is lost, or is sent once more.
Lost ==
    /\ due # <<>> /\ faults < MaxFaults
    /\ due' = Tail(due) /\ faults' = faults + 1
    /\ UNCHANGED <<broadcast, mContext, heard, items>>
Repeated ==
    /\ due # <<>> /\ faults < MaxFaults
    /\ due' = <<Head(due)>> \o due /\ faults' = faults + 1
    /\ UNCHANGED <<broadcast, mContext, heard, items>>

section == Head(due)
Reads == /\ due # <<>> /\ due' = Tail(due) /\ heard' = Append(heard, section)
         /\ UNCHANGED <<broadcast, faults>>
Posts(data) == \E item \in decodeMessageBodySubtitle(data) :
    items' = items \o [i \in DOMAIN item |-> [at |-> Len(heard'), item |-> item[i]]]

(* decodeSubtitle(), of a section without the overlay: it ends what had been  *)
(* begun, and is refused when it is too short.                                *)
cleanSegment == NoSegment
WholeMessage ==
    /\ Reads /\ ~section.overlay
    /\ mContext' = IF mContext.has_segment THEN cleanSegment ELSE mContext
    /\ IF seg_size(section.data) < 12 THEN UNCHANGED items ELSE Posts(section.data)

(* With the overlay: the first segment begins a message, and another has to    *)
(* be the next one of the same.  But where nothing has been begun any segment  *)
(* begins one.                                                                *)
Begun == IF section.curr_no = 0
         THEN [cleanSegment EXCEPT !.table_ext = section.table_ext, !.last_no = section.last_no,
                                   !.curr_no = -1]
         ELSE mContext
\* A plausible bug: any segment of the message is taken for the next one.
AnyOfIt == ~Begun.has_segment \/ section.table_ext = Begun.table_ext
Fits == ~Begun.has_segment \/ (section.table_ext = Begun.table_ext
                                /\ section.curr_no = Begun.curr_no + 1)
Stored == [Begun EXCEPT !.curr_no = section.curr_no, !.has_segment = TRUE,
                        !.segment_container = @ \o section.data]

SegmentRefused ==
    /\ Reads /\ section.overlay
    /\ section.curr_no > section.last_no \/ ~Fits
    /\ mContext' = IF section.curr_no > section.last_no THEN mContext ELSE cleanSegment
    /\ UNCHANGED items
SegmentStored ==
    /\ Reads /\ section.overlay /\ section.curr_no < section.last_no /\ Fits
    /\ mContext' = Stored
    /\ UNCHANGED items
LastSegment ==
    /\ Reads /\ section.overlay /\ section.curr_no = section.last_no /\ Fits
    /\ IF seg_size(Stored.segment_container) < 12
       THEN mContext' = Stored /\ UNCHANGED items
       ELSE mContext' = cleanSegment /\ Posts(Stored.segment_container)

Next == Lost \/ Repeated \/ WholeMessage \/ SegmentRefused \/ SegmentStored \/ LastSegment

---------------------------------------------------------------------------
(* Whenever the sections of a message have been read one after the other, it  *)
(* is posted, then, once, with its time and its picture, whatever was lost or *)
(* came twice before.  Nothing is posted at any other section but the last    *)
(* of a message, and never a picture that is made of a part of one, or of two. *)
Complete(m, i) == LET n == Len(broadcast[m].sections)
                  IN  n =< i /\ SubSeq(heard, i - n + 1, i) = broadcast[m].sections
MessagesPosted ==
    /\ \A i \in DOMAIN heard : \A m \in DOMAIN broadcast :
         Complete(m, i) => LET posted == SelectSeq(items, LAMBDA item : item.at = i)
                           IN  Len(posted) = 1 /\ posted[1].item = broadcast[m].wanted
    /\ \A j \in DOMAIN items : /\ heard[items[j].at].curr_no = heard[items[j].at].last_no
                               /\ \/ items[j].item = Garbage
                                  \/ \E m \in DOMAIN broadcast : Complete(m, items[j].at)
=============================================================================
