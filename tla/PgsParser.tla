------------------------------ MODULE PgsParser ------------------------------
(***************************************************************************)
(* The PGS subtitle parser, parser/PgsParser.cpp.  The thread that reads   *)
(* the stream collects palettes and objects and, at the end of each        *)
(* display set, leaves a copy of what it has in mPgsContextList.  Another  *)
(* thread, woken by the video's clock, decodes the sets that are due; when *)
(* it cannot keep up it drops sets, though never one that clears the       *)
(* screen.                                                                 *)
(***************************************************************************)
EXTENDS Integers, Sequences, SequencesExt, FiniteSets, FiniteSetsExt

CONSTANTS
    ObjectIds,
    Times,              \* times there are, of the sets and of the video
    DECODE_PRE_TIME,    \* sets are decoded this long ahead, 50 ms
    WRONG_PGS_PTS_TIME, \* a set this far ahead is of before a seek, 2 s,
    StartTime,          \* unless it is this close to the first one, 10 s
    MaxSets             \* bound: display sets in the stream

MAX_OBJECT_REFS == 2
Segments == 1 .. MAX_OBJECT_REFS

VARIABLES
    mPgsContext,        \* what the reading thread has collected
    sets,               \* the display sets that ended, as they were copied
    mPgsContextList,    \* those that wait, by number
    mPresentationTime,
    mFirstPts,          \* the least pts seen, 0: none
    mPreviousObjectNum,
    posted,             \* the sets decoded and posted, in that order
    wrong,              \* the sets dropped as of before a seek
    screen              \* the set each segment of the screen shows a picture of, 0: none
reader == <<mPgsContext, sets, mFirstPts>>
decoder == <<mPreviousObjectNum, posted, wrong, screen>>
pgsvars == <<reader, mPgsContextList, mPresentationTime, decoder>>

NoEpoch == [i \in ObjectIds |-> "absent"]
Init ==
    /\ mPgsContext = [pts |-> 0, refs |-> << >>, object |-> NoEpoch, palette |-> FALSE]
    /\ sets = << >> /\ mPgsContextList = << >>
    /\ mPresentationTime = 0 /\ mFirstPts = 0
    /\ mPreviousObjectNum = 0
    /\ posted = << >> /\ wrong = {}
    /\ screen = [i \in Segments |-> 0]

-----------------------------------------------------------------------------
(* The reading thread: the segments of a display set.                      *)

\* fresh: anything but a normal set ends what is known of the epoch.
parsePresentationSegment(pts, fresh, refs) ==
    /\ Len(sets) < MaxSets
    /\ mFirstPts' = IF mFirstPts = 0 \/ mFirstPts > pts THEN pts ELSE mFirstPts
    /\ mPgsContext' =
            [pts |-> pts, refs |-> refs,
             object |-> IF fresh THEN NoEpoch ELSE mPgsContext.object,
             palette |-> ~fresh /\ mPgsContext.palette]
    /\ UNCHANGED <<sets, mPgsContextList, mPresentationTime, decoder>>

parsePaletteSegment ==
    /\ mPgsContext.pts > 0
    /\ mPgsContext' = [mPgsContext EXCEPT !.palette = TRUE]
    /\ UNCHANGED <<sets, mFirstPts, mPgsContextList, mPresentationTime, decoder>>

\* An object comes whole, garbled or in parts.  What is refused - a part that
\* belongs to nothing, a size that cannot be - leaves an empty object if there
\* was none.
Refused(object) == IF object = "absent" THEN "empty" ELSE object
AfterSegment(object, part) ==
    CASE part = "all" -> "whole"
      [] part = "garbled" -> "garbled"
      [] part = "first" -> "partial"
      [] part = "last" -> IF object = "partial" THEN "whole" ELSE Refused(object)
      [] part = "refused" -> Refused(object)
parseObjectSegment(id, part) ==
    /\ mPgsContext.pts > 0
    /\ mPgsContext' = [mPgsContext EXCEPT !.object[id] = AfterSegment(@, part)]
    /\ UNCHANGED <<sets, mFirstPts, mPgsContextList, mPresentationTime, decoder>>

\* What decodeRleAndRenderBitmap() makes of each reference of a set: a
\* picture, an empty one, or nothing.  It ends at an object that is not whole.
decodeRleAndRenderBitmap(c) ==
    LET object(i) == c.object[c.refs[i]]
        cut(i) == \E j \in 1 .. i : object(j) = "partial"
    IN [i \in DOMAIN c.refs |->
            IF ~c.palette \/ cut(i) \/ object(i) \in {"absent", "garbled"} THEN "nothing"
            ELSE IF object(i) = "empty" THEN "empty" ELSE "picture"]

EndDisplaySegment ==
    /\ mPgsContext.pts > 0 /\ Len(sets) < MaxSets
    /\ sets' = Append(sets, [pts |-> mPgsContext.pts,
                             decoded |-> decodeRleAndRenderBitmap(mPgsContext)])
    /\ mPgsContextList' = Append(mPgsContextList, Len(sets'))
    /\ UNCHANGED <<mPgsContext, mFirstPts, mPresentationTime, decoder>>

-----------------------------------------------------------------------------
(* The decoding thread.                                                    *)

Clears(n) == sets[n].decoded = << >>
IsWrongPgs(n) ==
    /\ sets[n].pts - (mPresentationTime + DECODE_PRE_TIME) >= WRONG_PGS_PTS_TIME
    /\ sets[n].pts - mFirstPts > StartTime
IsDue(n) == sets[n].pts <= mPresentationTime + DECODE_PRE_TIME

\* What remove_if() leaves of the list.
Remaining(list) ==
    LET kept[i \in 0 .. Len(list)] ==
            IF i = 0 THEN << >>
            ELSE IF IsWrongPgs(list[i]) THEN kept[i - 1] ELSE Append(kept[i - 1], list[i])
    IN kept[Len(list)]

\* What is posted of a set to the screen.  One with fewer references than the
\* set before it first clears everything.
\* a mistake that is easily made: only an empty set clears
ClearsFirst(s, n) == Clears(n) \/ Len(sets[n].decoded) < s.previous
postDecodedItem(s, n) ==
    [s EXCEPT
        !.screen = [i \in Segments |->
            IF i \in DOMAIN sets[n].decoded /\ sets[n].decoded[i] # "nothing"
            THEN IF sets[n].decoded[i] = "picture" THEN n ELSE 0
            ELSE IF ClearsFirst(s, n) THEN 0 ELSE @[i]],
        !.previous = Len(sets[n].decoded),
        !.posted = Append(@, n),
        !.list = Tail(@)]

\* The sets that are due are the first of the list.  The thread decodes them
\* until one takes too long, busy; a clearing one that another one follows at
\* once is not decoded.
\* a mistake that is easily made: it is passed over, and stays in the list
PassedOver(s, due, i) == s
Superseded(s, due, i) == [s EXCEPT !.list = Tail(@)]
AtOnce(due, i) ==
    i < Len(due) /\ Clears(due[i]) /\ sets[due[i]].pts = sets[due[i + 1]].pts
Decoded(s, due, upto) ==
    LET step[i \in 0 .. upto] ==
            IF i = 0 THEN s
            ELSE IF AtOnce(due, i) THEN Superseded(step[i - 1], due, i)
            ELSE postDecodedItem(step[i - 1], due[i])
    IN step[upto]

\* Up to the next one that clears the screen the rest is dropped when busy.
\* a mistake that is easily made: everything that waits is dropped
DroppedAll(list) == << >>
Dropped(list) ==
    LET n == SelectInSeq(list, Clears)
    IN IF n = 0 THEN << >> ELSE SubSeq(list, n, Len(list))

\* upto: where it gets before it is too busy, all: in time.  It holds
\* mDecodeMutex, that the reading thread needs to add to the list.
handleDisplayEndSegment(upto, busy) ==
    LET kept == Remaining(mPgsContextList)
        later == SelectInSeq(kept, LAMBDA n : ~IsDue(n))
        due == IF later = 0 THEN kept ELSE SubSeq(kept, 1, later - 1)
        s == Decoded([list |-> kept, screen |-> screen, previous |-> mPreviousObjectNum,
                      posted |-> posted], due, upto)
    IN /\ IF busy THEN upto \in DOMAIN due /\ ~AtOnce(due, upto) ELSE upto = Len(due)
       /\ mPgsContextList' = IF busy THEN Dropped(s.list) ELSE s.list
       /\ screen' = s.screen /\ mPreviousObjectNum' = s.previous /\ posted' = s.posted
       /\ wrong' = wrong \cup (Range(mPgsContextList) \ Range(kept))
       /\ UNCHANGED <<reader, mPresentationTime>>

notifyRenderTimeChanged(t) ==
    /\ mPresentationTime' = t
    /\ UNCHANGED <<reader, mPgsContextList, decoder>>

Next ==
    \/ \E pts \in Times, fresh \in BOOLEAN,
         refs \in UNION {[1 .. n -> ObjectIds] : n \in 0 .. MAX_OBJECT_REFS} :
        parsePresentationSegment(pts, fresh, refs)
    \/ parsePaletteSegment
    \/ \E id \in ObjectIds, part \in {"all", "garbled", "first", "last", "refused"} :
        parseObjectSegment(id, part)
    \/ EndDisplaySegment
    \/ \E upto \in 0 .. MaxSets, busy \in BOOLEAN : handleDisplayEndSegment(upto, busy)
    \/ \E t \in Times : notifyRenderTimeChanged(t)
Spec == Init /\ [][Next]_pgsvars

-----------------------------------------------------------------------------
(* What the parser promises.                                               *)

\* Types.
TypeOK ==
    /\ mPgsContext.object \in [ObjectIds -> {"absent", "empty", "partial", "garbled", "whole"}]
    /\ Range(mPgsContextList) \cup Range(posted) \cup wrong \subseteq DOMAIN sets
    /\ screen \in [Segments -> Nat]
    /\ mPreviousObjectNum \in 0 .. MAX_OBJECT_REFS

\* Sets are shown in the order of the stream, none twice, however many are
\* dropped or passed over: what is erased from the list is what was decoded.
InOrderOnce ==
    \A i, j \in DOMAIN posted : i < j => posted[i] < posted[j]

\* A clearing set that has left the list has cleared the screen of all that
\* came before it - unless it is of before a seek, or its place is taken by a
\* later set of the same time with something that cannot be decoded there.
ClearingIsKept ==
    \A n \in DOMAIN sets :
        Clears(n) /\ n \notin Range(mPgsContextList) \cup wrong =>
            \A i \in Segments :
                \/ screen[i] = 0 \/ screen[i] > n
                \/ \E m \in DOMAIN sets :
                     /\ m > n /\ sets[m].pts = sets[n].pts
                     /\ i \in DOMAIN sets[m].decoded
                     /\ sets[m].decoded[i] = "nothing"

\* No segment that the set shown last does not have still shows an older one.
NoLeftovers ==
    posted # << >> =>
        \A i \in Segments \ DOMAIN sets[Last(posted)].decoded : screen[i] = 0

\* So the screen is cleared when the stream says so, whatever a busy decoding thread
\* drops and whichever segments a set leaves out (PgsParser.cpp:886-901, 1050).
ScreenIsCleared == ClearingIsKept /\ NoLeftovers
=============================================================================
