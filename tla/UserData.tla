------------------------------ MODULE UserData ------------------------------
(***************************************************************************)
(* The order of the captions that come with the video, io/Userdata.c.  The *)
(* device thread reads packets of user data in the order the pictures were *)
(* decoded and writes them, for the caption decoder, in the order they are *)
(* shown: what is ahead of its turn waits in cc_list.  MPEG-2 captions are *)
(* counted on by the temporal reference (curr_poc), SCTE-20 ones wait for  *)
(* the next intra picture, H.264 ones for the video clock.                 *)
(***************************************************************************)
EXTENDS Integers, Sequences, SequencesExt, FiniteSets, FiniteSetsExt

CONSTANTS
    Pictures,       \* places (poc) of the pictures of a group in showing order
    Groups,         \* bound: groups of pictures in a stream
    MAX_CC_NUM,     \* captions that wait before the first is written, 64
    Back            \* a picture this far behind the first waiting one flushes, 30

VARIABLES
    ud,         \* AM_UDDrvData: cc_list, cc_num, curr_poc and scte_enable
    out,        \* the packets written, in order
    stream,     \* the video: its format, the group and the pictures of it decoded; and
                \* all captions that were to be shown
    clock,      \* am_get_video_pts()
    crashed     \* a NULL head has been dereferenced
udvars == <<ud, out, stream, clock, crashed>>

\* pts of the picture at a place of a group
Pts(group, poc) == group * (1 + Max(Pictures)) + poc
Packet(kind, intra, group, poc) ==
    [kind |-> kind, intra |-> intra, group |-> group, poc |-> poc,
     pts |-> IF kind = "scte" THEN 0 ELSE Pts(group, poc)]

Init ==
    /\ ud = [list |-> << >>, num |-> 0, poc |-> -1, scte |-> TRUE]
    /\ out = << >>
    /\ stream \in [vfmt : {"mpeg", "h264"}, kind : {"none"}, group : {0}, seen : {{}},
                     read : {{}}]
    /\ clock = 0
    /\ crashed = FALSE

-----------------------------------------------------------------------------
(* The functions, from what there is [u, o] - the state of the driver and  *)
(* what it has written - to what there will be.                            *)

At(u, o) == [u |-> u, o |-> o]
Write(s, packets) == [s EXCEPT !.o = @ \o packets]

aml_flush_cc_data(s) ==
    [Write(s, s.u.list) EXCEPT !.u.list = << >>, !.u.num = 0, !.u.poc = -1]

\* cc_num counts what was added; draining the list does not count it down, so
\* that it may be full with nobody in it.
Full(s) == s.u.num >= MAX_CC_NUM
NullHead(s) == Full(s) /\ s.u.list = << >>
MakeRoom(s) ==
    IF ~Full(s) THEN s
    ELSE [Write(s, <<Head(s.u.list)>>) EXCEPT !.u.list = Tail(@), !.u.num = @ - 1]

FlushIfBack(s, x) ==
    IF s.u.list # << >> /\ x.poc < Head(s.u.list).poc - Back THEN aml_flush_cc_data(s) ELSE s

\* the first waiting packet that x goes before
Goes(x, y) == IF x.pts = y.pts THEN x.poc < y.poc ELSE x.pts < y.pts
Place(list, x) == Min({Len(list) + 1} \cup {i \in DOMAIN list : Goes(x, list[i])})
\* a mistake that is easily made: a packet joins the end of the list
InsertLast(s, x) == [s EXCEPT !.u.list = Append(@, x), !.u.num = @ + 1]
Insert(s, x) == [s EXCEPT !.u.list = InsertAt(@, Place(@, x), x), !.u.num = @ + 1]

aml_add_cc_data(s, x) == Insert(FlushIfBack(MakeRoom(s), x), x)

\* How many of the waiting packets follow on what was written last.
Following(u) == Max({n \in 0 .. Len(u.list) : \A i \in 1 .. n : u.list[i].poc = u.poc + i})
Drain(s) ==
    LET n == Following(s.u)
    IN [Write(s, SubSeq(s.u.list, 1, n))
            EXCEPT !.u.list = SubSeq(@, n + 1, Len(@)), !.u.poc = @ + n]

FlushAtIntra(s, x) == IF x.intra THEN aml_flush_cc_data(s) ELSE s
InTurn(u, x) == x.poc \in {u.poc, u.poc + 1}
aml_mpeg_userdata_package(s, x) ==
    IF InTurn(s.u, x) THEN Drain([Write(s, <<x>>) EXCEPT !.u.poc = x.poc])
    ELSE aml_add_cc_data(s, x)

\* The packets at some places of the list.
Picked(list, places) ==
    LET picked[i \in 0 .. Len(list)] ==
            IF i = 0 THEN << >>
            ELSE IF i \in places THEN Append(picked[i - 1], list[i]) ELSE picked[i - 1]
    IN picked[Len(list)]
Passed(list) == {i \in DOMAIN list : clock > list[i].pts}
\* What the video has passed is written, from the head on.
aml_h264_userdata_package(s, x) ==
    LET a == aml_add_cc_data(s, x)
        due == Picked(a.u.list, Passed(a.u.list))
    IN IF due = << >> THEN a
       ELSE [Write(a, due) EXCEPT !.u.list = Picked(@, DOMAIN @ \ Passed(@)),
                                  !.u.num = @ - Len(due), !.u.poc = Last(due).poc]

-----------------------------------------------------------------------------
(* The thread is given one packet after another.                           *)

\* The video: a group begins with its intra picture, the others of it may
\* come in any order - one too far behind would be of another group - and
\* some without captions.  In H.264 the first with captions need not be poc 0.
\* The captions of a group are of one kind, and a group of MPEG-2 has no more
\* pictures with captions than may wait.
Wanted(kind, group, poc) == IF kind = "scte" /\ ~ud.scte THEN {} ELSE {<<group, poc>>}
Begins(kind, poc) ==
    /\ stream.group < Groups
    /\ stream' = [stream EXCEPT !.kind = kind, !.group = @ + 1, !.seen = {poc},
                                !.read = @ \cup Wanted(kind, stream.group + 1, poc)]
Continues(kind, poc) ==
    /\ stream.kind = kind /\ poc \notin stream.seen
    /\ kind # "h264" => Cardinality(stream.seen) < MAX_CC_NUM
    /\ \A p \in stream.seen : poc >= p - Back
    /\ stream' = [stream EXCEPT !.seen = @ \cup {poc},
                                !.read = @ \cup Wanted(kind, stream.group, poc)]
Decoded(kind, intra, poc) ==
    /\ IF intra THEN Begins(kind, poc) ELSE Continues(kind, poc)
    /\ Pts(stream'.group, poc) >= clock

Becomes(s) == ud' = s.u /\ out' = s.o

aml_process_mpeg_userdata(intra, poc) ==
    /\ stream.vfmt = "mpeg" /\ ~crashed
    /\ Decoded("mpeg", intra, poc)
    /\ LET x == Packet("mpeg", intra, stream'.group, poc)
           s == FlushAtIntra(At([ud EXCEPT !.scte = FALSE], out), x)
       IN IF ~InTurn(s.u, x) /\ NullHead(s)
          THEN crashed' = TRUE /\ UNCHANGED <<ud, out>>
          ELSE Becomes(aml_mpeg_userdata_package(s, x)) /\ UNCHANGED crashed
    /\ UNCHANGED clock

\* Once MPEG-2 captions have been seen the others are no longer wanted.
aml_process_scte_userdata(intra, poc) ==
    /\ stream.vfmt = "mpeg" /\ ~crashed
    /\ Decoded("scte", intra, poc)
    /\ LET x == Packet("scte", intra, stream'.group, poc)
           s == FlushAtIntra(At(ud, out), x)
       IN IF ~ud.scte THEN UNCHANGED <<ud, out, crashed>>
          ELSE IF NullHead(s) THEN crashed' = TRUE /\ UNCHANGED <<ud, out>>
          ELSE Becomes(aml_add_cc_data(s, x)) /\ UNCHANGED crashed
    /\ UNCHANGED clock

\* poc 0 is an IDR picture: it begins a group, and flushes.
aml_process_h264_userdata(intra, poc) ==
    /\ stream.vfmt = "h264" /\ ~crashed
    /\ poc = 0 => intra
    /\ Decoded("h264", intra, poc)
    /\ LET x == Packet("h264", intra, stream'.group, poc)
           s == IF poc = 0 THEN aml_flush_cc_data(At(ud, out)) ELSE At(ud, out)
       IN IF NullHead(s) THEN crashed' = TRUE /\ UNCHANGED <<ud, out>>
          ELSE Becomes(aml_h264_userdata_package(s, x)) /\ UNCHANGED crashed
    /\ UNCHANGED clock

VideoPlays ==
    /\ stream.vfmt = "h264" /\ ~crashed
    /\ clock < Pts(Groups, Max(Pictures))
    /\ clock' = clock + 1
    /\ UNCHANGED <<ud, out, stream, crashed>>

Next ==
    \/ \E intra \in BOOLEAN, poc \in Pictures :
        \/ aml_process_mpeg_userdata(intra, poc)
        \/ aml_process_scte_userdata(intra, poc)
        \/ aml_process_h264_userdata(intra, poc)
    \/ VideoPlays
Spec == Init /\ [][Next]_udvars

-----------------------------------------------------------------------------
(* What the driver promises.                                               *)

Packets == [kind : {"mpeg", "scte", "h264"}, intra : BOOLEAN, group : 1 .. Groups,
            poc : Pictures, pts : Nat]

\* Types; no more packets wait than are counted, and never more than may.
TypeOK ==
    /\ stream.kind \in {"none", "mpeg", "scte", "h264"}
    /\ ud.list \in Seq(Packets) /\ out \in Seq(Packets)
    /\ ud.num \in Len(ud.list) .. MAX_CC_NUM
    /\ ud.poc \in {-1} \cup Nat /\ ud.scte \in BOOLEAN
    /\ clock \in Nat

\* A packet of an H.264 group whose IDR picture, poc 0, came without captions:
\* nothing has flushed the list before it.
Late(x) == x.kind = "h264" /\ <<x.group, 0>> \notin stream.read

\* The captions of the pictures are given on in the order the pictures are
\* shown, whatever the order they were decoded in and whichever are missing -
\* but those of a group that is late: while captions of the group before wait,
\* a picture far behind the first of them flushes the list with all that is in
\* it, also the packets of its own group that are to be shown after it.
InShowingOrder ==
    \A i, j \in DOMAIN out : i < j =>
        \/ out[i].group < out[j].group
        \/ out[i].group = out[j].group /\ (out[i].poc < out[j].poc \/ Late(out[i]))

\* What was read waits or has been written, once - and the counter that the
\* drained packets stay in never leads aml_add_cc_data() to write the head of
\* an empty list.
NothingLost ==
    LET all == ud.list \o out
    IN /\ Len(all) = Cardinality(stream.read)
       /\ {<<all[i].group, all[i].poc>> : i \in DOMAIN all} = stream.read
       /\ ~crashed

\* So the viewer reads every caption once and in its place, although pictures come out
\* of order and the list that sorts them is drained, flushed and made room in while its
\* counter only grows (Userdata.c:445-566).
CaptionsInOrder == InShowingOrder /\ NothingLost
=============================================================================
