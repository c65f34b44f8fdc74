------------------------ MODULE ExternalPresentation ------------------------
(***************************************************************************)
(* The presentation of an external file: the parser gives its cues one by  *)
(* one, the player reports the video time, and the looper of Presentation  *)
(* (handleExtSub) decides at every report what is on the screen.  Times    *)
(* are milliseconds.  A picture or text on the screen is the sequence of   *)
(* the cues it was made of.  The looper's queue is kept as in Presentation.*)
(***************************************************************************)
EXTENDS Integers, Sequences, SequencesExt, FiniteSetsExt

CONSTANTS Files,        \* files, each a set of cues [pts, end, kind] of one kind
          Times,        \* video times, 0 before it starts
          MaxReports,   \* bound: reports of the time
          MaxResets     \* bound: resets for a seek

VARIABLES
    toDecode,                       \* cues the parser has not yet given
    mDecodedSpu, mEmittedShowingSpu,
    now, reports,                   \* mCurrentPresentRelativeTime
    looper, messages, delayed, resets,
    mLastShowingSpu, screen,
    missed      \* history: reset, or gone back in time, since mLastShowingSpu changed

parser == <<toDecode, mDecodedSpu>>
queue == <<messages, delayed>>
render == <<mEmittedShowingSpu, mLastShowingSpu, screen>>
vars == <<parser, queue, render, now, reports, looper, resets, missed>>

Init ==
    /\ toDecode \in Files /\ mDecodedSpu = <<>> /\ mEmittedShowingSpu = <<>>
    /\ now = 0 /\ reports = 0
    /\ looper = "none" /\ messages = <<>> /\ delayed = FALSE /\ resets = 0
    /\ mLastShowingSpu = <<>> /\ screen = <<>> /\ missed = FALSE

notifyMessage(m) ==
    messages' = IF looper # "idle" \/ (m = "CHECK" /\ Contains(messages, m)) THEN messages
                ELSE Append(messages, m)

-----------------------------------------------------------------------------
(* The threads beside the looper.                                             *)
getSpu ==
    /\ looper \notin {"exiting", "gone"}
    /\ \E c \in toDecode :
          /\ toDecode' = toDecode \ {c}
          /\ mDecodedSpu' = Append(mDecodedSpu, c)
    /\ notifyMessage("CHECK")
    /\ UNCHANGED <<delayed, render, now, reports, looper, resets, missed>>
syncCurrentPresentTime ==
    /\ reports < MaxReports /\ reports' = reports + 1
    /\ now' \in Times
    /\ missed' = (missed \/ now' < now)
    /\ notifyMessage("CHECK")
    /\ UNCHANGED <<parser, delayed, render, looper, resets>>
resetForSeek ==
    /\ looper = "idle" /\ resets < MaxResets /\ resets' = resets + 1
    /\ notifyMessage("RESET")
    /\ UNCHANGED <<parser, delayed, render, now, reports, looper, missed>>

startPresent ==
    /\ looper = "none" /\ looper' = "starting"
    /\ UNCHANGED <<parser, queue, render, now, reports, resets, missed>>
\* join() takes the CHECKs away; a RESET may still be handled.
stopPresent ==
    /\ looper = "idle" /\ looper' = "exiting"
    /\ delayed' = FALSE /\ messages' = SelectSeq(messages, LAMBDA m : m # "CHECK")
    /\ UNCHANGED <<parser, render, now, reports, resets, missed>>
\* The thread is joined, and ~Presentation() resets what is left.
ended ==
    /\ looper = "exiting" /\ looper' = "gone"
    /\ screen' = <<>> /\ messages' = <<>>
    /\ UNCHANGED <<parser, delayed, mEmittedShowingSpu, mLastShowingSpu, now, reports,
                   resets, missed>>

-----------------------------------------------------------------------------
(* The looper.                                                                *)
looperLoop ==
    /\ looper = "starting" /\ looper' = "idle"
    /\ delayed' = TRUE /\ mEmittedShowingSpu' = <<>>
    /\ UNCHANGED <<parser, messages, mLastShowingSpu, screen, now, reports, resets, missed>>
due ==
    /\ looper = "idle" /\ delayed /\ delayed' = FALSE
    /\ notifyMessage("CHECK")
    /\ UNCHANGED <<parser, render, now, reports, looper, resets, missed>>

\* Any message becomes a delayed CHECK before the video has started.
waitForVideo ==
    /\ messages # <<>> /\ now <= 0
    /\ messages' = Tail(messages) /\ delayed' = (looper = "idle")
    /\ UNCHANGED <<parser, render, now, reports, looper, resets, missed>>

ShortEnd == 500             \* a cue that ends earlier than this has no end
NoPtsDelay == 4000          \* ADDJUST_NO_PTS_MS
MinimumRemain == 30         \* MINIMUM_REMAIN_DISPLAY_TIME_MS

fixSpuDelay(c) == IF c.end > c.pts + ShortEnd THEN c ELSE [c EXCEPT !.end = c.pts + NoPtsDelay]
\* Pushed back, then sorted by the time it begins.
Sorted(list, c) ==
    InsertAt(list, 1 + Cardinality({i \in DOMAIN list : list[i].pts <= c.pts}), fixSpuDelay(c))

Covers(c, t) == c.pts <= t /\ t <= c.end
\* The list is searched up to the first cue that ends later than now.
computeShowingSpuList(list) ==
    LET later == {i \in DOMAIN list : list[i].end > now}
        last == IF later = {} THEN Len(list) ELSE Min(later)
    IN  SelectSeq(SubSeq(list, 1, last), LAMBDA c : Covers(c, now))
\* The last picture, or all texts.
getShowingSpuFromList(list) == IF list[1].kind = "bitmap" THEN <<Last(list)>> ELSE list
\* Texts are combined into a new item each time.
IsNew(spu) == Len(spu) > 1 \/ spu # mLastShowingSpu

handleExtSub ==
    /\ looper = "idle" /\ messages # <<>> /\ Head(messages) = "CHECK" /\ now > 0
    /\ messages' = SelectSeq(messages, LAMBDA m : m # "CHECK") /\ delayed' = FALSE
    /\ mDecodedSpu' = <<>>
    /\ mEmittedShowingSpu' = FoldLeft(Sorted, mEmittedShowingSpu, mDecodedSpu)
    /\ LET showing == computeShowingSpuList(mEmittedShowingSpu')
           spu == IF showing = <<>> THEN <<>> ELSE getShowingSpuFromList(showing)
       IN  /\ mLastShowingSpu' = spu
           /\ missed' = (missed /\ spu = mLastShowingSpu)
           /\ screen' = IF spu = <<>> THEN IF mLastShowingSpu = <<>> THEN screen ELSE <<>>
                        ELSE IF IsNew(spu) /\ spu[1].end - now >= MinimumRemain THEN spu
                        ELSE screen
    /\ UNCHANGED <<toDecode, now, reports, looper, resets>>
handleReset ==
    /\ looper \in {"idle", "exiting"} /\ messages # <<>> /\ Head(messages) = "RESET" /\ now > 0
    /\ messages' = Tail(messages)
    /\ screen' = <<>> /\ missed' = TRUE
    /\ UNCHANGED <<parser, delayed, mEmittedShowingSpu, mLastShowingSpu, now, reports, looper,
                   resets>>

Next == \/ getSpu \/ syncCurrentPresentTime \/ resetForSeek
        \/ startPresent \/ stopPresent \/ ended
        \/ looperLoop \/ due \/ waitForVideo \/ handleExtSub \/ handleReset

-----------------------------------------------------------------------------
(* Once the looper has nothing left to do the screen is empty where no cue     *)
(* covers the time, and shows a cue that alone covers it, if it was not        *)
(* shorter than a frame when it came and the screen has not been reset, nor    *)
(* the time set back, while the looper took it for the one that is shown:      *)
(* whatever the order of cues, reports and checks.                             *)
ScreenFollowsTime ==
    LET covering == SelectSeq(mEmittedShowingSpu, LAMBDA c : Covers(c, now))
        settled == looper = "idle" /\ messages = <<>> /\ ~delayed /\ now > 0
    IN  settled =>
          /\ mDecodedSpu = <<>>
          /\ covering = <<>> => screen = <<>>
          /\ Len(covering) = 1 /\ covering[1].end - now >= MinimumRemain /\ ~missed
                => screen = covering
=============================================================================
