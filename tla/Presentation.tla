---------------------------- MODULE Presentation ----------------------------
(***************************************************************************)
(* The presentation of a stream subtitle: Presentation with its looper     *)
(* thread (MessageProcess), the decoded queue of the parser it reads       *)
(* (Parser) and the pictures its remote renderer has on the screen         *)
(* (AndroidHidlRemoteRender).                                              *)
(*                                                                         *)
(* Threads: the parser thread adds decoded items; the threads that report  *)
(* the video time set it; the run thread of Subtitle starts and stops the  *)
(* parser and the looper; the looper handles CHECK and RESET messages.     *)
(* Times are milliseconds: the scheduler compares multiples of one.  The   *)
(* invalid time, -1 ns in the code, is -1.                                 *)
(*                                                                         *)
(* mEmittedShowingSpu is sorted by pts after every insertion, with a sort  *)
(* that keeps items of the same pts in the order they came: it is kept as  *)
(* a set with the order Before.                                            *)
(*                                                                         *)
(* The Android looper is external.  Of its queue the module keeps what is  *)
(* due, in order, and whether a delayed CHECK is waiting, which may come   *)
(* due at any moment.  A CHECK behind another CHECK is never seen: the     *)
(* first one handled removes it, or leaves the same delayed CHECK behind.  *)
(***************************************************************************)
EXTENDS Integers, Sequences, FiniteSets, SequencesExt, FiniteSetsExt

CONSTANTS Templates,        \* the items a parser may decode
          Objects,          \* object ids of a picture (0..n)
          Times,            \* video times the player may report
          StartTimes,       \* values of the start time modifier
          MaxItems,         \* bound: items decoded
          MaxSeeks,         \* bound: reports that move the video time back
          MaxResets,        \* bound: resets of the presentation
          MaxSessions,      \* bound: starts of parser and presentation
          MaxSpuItems,      \* mMaxSpuItems: capacity of the decoded queue
          MaxQueuedMem,     \* MAX_ALLOWED_QUEUED_MEM
          None              \* no picture

Kinds == {"text", "bitmap", "pgs", "cc"}

\* A template has the fields of AML_SPUVAR the scheduler looks at: the time the
\* item is due (pts) and the time it ends (end, the code's m_delay), 0 for none;
\* isImmediatePresent, isKeepShowing; isSimpleText and subtitle_type as one kind;
\* whether there is spu_data; objectSegmentId; buffer_size.
ASSUME TemplatesAssumption ==
    /\ Templates \subseteq [pts : Nat, end : Nat, imm : BOOLEAN, keep : BOOLEAN,
                            kind : Kinds, data : BOOLEAN, obj : Objects, size : Nat]
    /\ Objects \subseteq Nat /\ 0 \in Objects
ASSUME ClockAssumption ==
    /\ Times \subseteq Nat \cup {-1}
    /\ StartTimes \subseteq Nat
ASSUME BoundsAssumption ==
    /\ MaxItems \in Nat /\ MaxSeeks \in Nat /\ MaxResets \in Nat /\ MaxSessions \in Nat
    /\ MaxSpuItems \in Nat \ {0} /\ MaxQueuedMem \in Nat

VARIABLES
    mDecodedSpu,            \* Parser: decoded, not yet consumed
    parsing,                \* Parser: its thread runs and accepts items
    decoded,                \* number of items decoded so far
    looper,                 \* "none", "starting", "idle", "checking"
    exiting,                \* mRequestThreadExit
    session,                \* number of parsers started so far
    messages,               \* due looper messages, "CHECK" and "RESET"
    delayed,                \* a delayed CHECK is waiting
    now,                    \* mCurrentPresentRelativeTime
    startTime,              \* mStartTimeModifier
    mEmittedShowingSpu,     \* consumed, waiting for its time
    mEmittedFaddingSpu,     \* shown, waiting for its end
    screen,                 \* the picture shown for each object
    mCurrentMaxObjectId,    \* AndroidHidlRemoteRender: highest object shown
    shown,                  \* history: items sent to the renderer
    seeks, resets           \* used up of MaxSeeks, MaxResets

parserVars == <<mDecodedSpu, parsing, decoded>>
clockVars == <<now, startTime, seeks>>
listVars == <<mEmittedShowingSpu, mEmittedFaddingSpu>>
renderVars == <<screen, mCurrentMaxObjectId, shown>>
lifeVars == <<looper, exiting, session>>
vars == <<parserVars, clockVars, listVars, renderVars, lifeVars, messages, delayed, resets>>

Item == [pts : Nat, end : Nat, imm : BOOLEAN, keep : BOOLEAN, kind : Kinds,
         data : BOOLEAN, obj : Objects, size : Nat, id : Nat, session : Nat]
ASSUME NoneAssumption == None \notin Item

TypeOK ==
    /\ mDecodedSpu \in Seq(Item) /\ Len(mDecodedSpu) <= MaxSpuItems
    /\ parsing \in BOOLEAN
    /\ decoded \in 0..MaxItems
    /\ looper \in {"none", "starting", "idle", "checking"}
    /\ exiting \in BOOLEAN
    /\ session \in 0..MaxSessions
    /\ messages \in Seq({"CHECK", "RESET"}) /\ delayed \in BOOLEAN
    /\ now \in Times \cup {0} /\ startTime \in StartTimes \cup {0}
    /\ mEmittedShowingSpu \subseteq Item
    /\ mEmittedFaddingSpu \in Seq(Item) /\ Len(mEmittedFaddingSpu) <= 1
    /\ screen \in [Objects -> Item \cup {None}]
    /\ mCurrentMaxObjectId \in Objects
    /\ seeks \in 0..MaxSeeks /\ resets \in 0..MaxResets

Init ==
    /\ mDecodedSpu = <<>> /\ parsing = FALSE /\ decoded = 0
    /\ looper = "none" /\ exiting = FALSE /\ session = 0
    /\ messages = <<>> /\ delayed = FALSE
    /\ now = 0 /\ startTime = 0
    /\ mEmittedShowingSpu = {} /\ mEmittedFaddingSpu = <<>>
    /\ screen = [o \in Objects |-> None] /\ mCurrentMaxObjectId = 0
    /\ shown = {}
    /\ seeks = 0 /\ resets = 0

-----------------------------------------------------------------------------
(* Constants of the code, in milliseconds, and its clock.                  *)

Tolerance == 33             \* a picture may be this early
FarAway == 200000           \* a decoded pts this far off is not believed
TenMinutes == 600000        \* ... and a queued one this far ahead is dropped
TooLong == 100000           \* ahead_delay_tor
DefaultDelay == 2000        \* DEFAULT_DELAY_TIME
NoPtsDelay == 4000          \* ADDJUST_NO_PTS_MS
SmallPtsDelay == 5000       \* ADDJUST_VERY_SMALL_PTS_MS
Wrap32 == 47721859          \* 2^32 ticks of 90 kHz, rounded up

Timestamp == startTime + now
InMs == IF Timestamp < 0 THEN 0 ELSE Timestamp      \* ns2ms(timestamp)
More32(t) == t >= Wrap32
Distance(a, b) == IF a > b THEN a - b ELSE b - a

-----------------------------------------------------------------------------
(* The looper: what is due and what is waiting.                            *)

HasLooper == looper \in {"idle", "checking"}
Queued(m) == IF m = "CHECK" /\ Contains(messages, m) THEN messages ELSE Append(messages, m)
WithoutChecks == IF ~Contains(messages, "CHECK") THEN messages
                 ELSE RemoveAt(messages, CHOOSE k \in 1..Len(messages) : messages[k] = "CHECK")

\* notifyMessage: nothing is sent before looperLoop has created the looper.
notifyMessage(m) == messages' = IF HasLooper THEN Queued(m) ELSE messages

-----------------------------------------------------------------------------
(* The parser thread.                                                      *)

\* addDecodedItem: the oldest items make room.
Room(q) == IF Len(q) < MaxSpuItems THEN q
           ELSE SubSeq(q, Len(q) - MaxSpuItems + 2, Len(q))

NewItem(t) == [pts |-> t.pts, end |-> t.end, imm |-> t.imm, keep |-> t.keep, kind |-> t.kind,
               data |-> t.data, obj |-> t.obj, size |-> t.size,
               id |-> decoded + 1, session |-> session]

addDecodedItem ==
    /\ parsing /\ decoded < MaxItems
    /\ \E t \in Templates : mDecodedSpu' = Append(Room(mDecodedSpu), NewItem(t))
    /\ decoded' = decoded + 1
    /\ notifyMessage("CHECK")
    /\ UNCHANGED <<parsing, clockVars, listVars, renderVars, lifeVars, delayed, resets>>

-----------------------------------------------------------------------------
(* The player's time reports.                                              *)

syncCurrentPresentTime ==
    /\ \E t \in Times \ {now} :
          /\ t >= now \/ seeks < MaxSeeks
          /\ now' = t
          /\ seeks' = IF t >= now THEN seeks ELSE seeks + 1
    /\ UNCHANGED <<startTime, parserVars, listVars, renderVars, lifeVars, messages, delayed,
                   resets>>

notifyStartTimeStamp ==
    /\ \E t \in StartTimes \ {startTime} : startTime' = t
    /\ UNCHANGED <<now, seeks, parserVars, listVars, renderVars, lifeVars, messages, delayed,
                   resets>>

-----------------------------------------------------------------------------
(* The run thread of Subtitle: parser first, then the presentation.        *)

\* A new parser, with an empty queue.
startParser ==
    /\ ~parsing /\ looper = "none" /\ session < MaxSessions
    /\ parsing' = TRUE
    /\ mDecodedSpu' = <<>>
    /\ session' = session + 1
    /\ UNCHANGED <<decoded, looper, exiting, clockVars, listVars, renderVars, messages, delayed,
                   resets>>

startPresent ==
    /\ parsing /\ looper = "none"
    /\ looper' = "starting"
    /\ exiting' = FALSE
    /\ UNCHANGED <<session, parserVars, clockVars, listVars, renderVars, messages, delayed,
                   resets>>

stopParser ==
    /\ parsing /\ looper # "none"
    /\ parsing' = FALSE
    /\ mDecodedSpu' = <<>>
    /\ UNCHANGED <<decoded, clockVars, listVars, renderVars, lifeVars, messages, delayed, resets>>

\* stopPresent asks the looper to exit and joins it (looperExit).
stopPresent ==
    /\ ~parsing /\ looper # "none" /\ ~exiting
    /\ exiting' = TRUE
    /\ messages' = IF HasLooper THEN WithoutChecks ELSE messages
    /\ delayed' = IF HasLooper THEN FALSE ELSE delayed
    /\ UNCHANGED <<looper, session, parserVars, clockVars, listVars, renderVars, resets>>

\* Presentation::resetForSeek: a change of the translation language.  It waits for
\* mMutex while stopPresent joins the looper.
resetForSeek ==
    /\ looper # "none" /\ ~exiting /\ resets < MaxResets
    /\ resets' = resets + 1
    /\ notifyMessage("RESET")
    /\ UNCHANGED <<parserVars, clockVars, listVars, renderVars, lifeVars, delayed>>

-----------------------------------------------------------------------------
(* The looper thread.                                                      *)

\* looperLoop: create the looper, arm it, forget the lists of the last session.
KeepLists(q) == q
ForgetLists(q) == {}
looperLoop ==
    /\ looper = "starting"
    /\ looper' = "idle"
    /\ delayed' = TRUE
    /\ mEmittedShowingSpu' = ForgetLists(mEmittedShowingSpu) /\ mEmittedFaddingSpu' = <<>>
    /\ UNCHANGED <<exiting, session, parserVars, clockVars, renderVars, messages, resets>>

\* The loop ends and stopPresent's join returns; the looper takes its messages along.
looperExit ==
    /\ looper = "idle" /\ exiting
    /\ looper' = "none"
    /\ messages' = <<>> /\ delayed' = FALSE
    /\ UNCHANGED <<exiting, session, parserVars, clockVars, listVars, renderVars, resets>>

NextIs(m) == messages # <<>> /\ Head(messages) = m

\* handleMessage before the video has started: look again in 200 ms, whatever
\* the message was.
waitForVideo ==
    /\ looper = "idle" /\ now <= 0
    /\ \/ messages # <<>> /\ messages' = Tail(messages)
       \/ delayed /\ messages' = messages
    /\ delayed' = TRUE
    /\ UNCHANGED <<parserVars, clockVars, listVars, renderVars, lifeVars, resets>>

\* handleStreamSub on CHECK, up to the test of mRequestThreadExit.
beginCheck ==
    /\ looper = "idle" /\ now > 0
    /\ (delayed \/ NextIs("CHECK"))
    /\ messages' = WithoutChecks /\ delayed' = FALSE
    /\ looper' = IF exiting THEN "idle" ELSE "checking"
    /\ UNCHANGED <<exiting, session, parserVars, clockVars, listVars, renderVars, resets>>

-----------------------------------------------------------------------------
(* The remote renderer.                                                    *)

\* postSubtitleData with nothing to show hides every object up to the highest.
HideBelow(top, scr) == [o \in Objects |-> IF o < top THEN None ELSE scr[o]]
HideUpTo(top, scr) == [o \in Objects |-> IF o <= top THEN None ELSE scr[o]]

\* handleStreamSub on RESET.
handleReset ==
    /\ looper = "idle" /\ now > 0 /\ NextIs("RESET")
    /\ messages' = Tail(messages)
    /\ mEmittedShowingSpu' = {} /\ mEmittedFaddingSpu' = <<>>
    /\ screen' = HideUpTo(mCurrentMaxObjectId, screen)
    /\ mCurrentMaxObjectId' = 0
    /\ UNCHANGED <<shown, parserVars, clockVars, lifeVars, delayed, resets>>

-----------------------------------------------------------------------------
(* handleStreamSub on CHECK: one decoded item is consumed ...              *)

\* The order of the list: the items' ids grow in the order they are consumed.
BeforeByArrival(i, j) == i.id < j.id
Before(i, j) == i.pts < j.pts \/ (i.pts = j.pts /\ i.id < j.id)

Retimed(i, pts, end) == [i EXCEPT !.pts = pts, !.end = end]

\* A pts that is far off is replaced by "in one second".
Believed(i) == IF Distance(i.pts, Timestamp) < FarAway THEN i
               ELSE Retimed(i, Timestamp + 1000, Timestamp + 1000 + DefaultDelay)
Admitted(i) == i.kind = "cc" \/ Timestamp # 0 \/ i.pts = 0

\* At the memory limit the first half of the list is thrown away.
Memory(q) == MapThenSumSet(LAMBDA i : i.size, q)
WithinMemory(q, size) ==
    IF size + Memory(q) < MaxQueuedMem THEN q
    ELSE {i \in q : Cardinality({j \in q : Before(j, i)}) >= Cardinality(q) \div 2}

Collected ==
    IF mDecodedSpu = <<>> THEN mEmittedShowingSpu
    ELSE LET i == Believed(Head(mDecodedSpu))
         IN  WithinMemory(mEmittedShowingSpu \cup (IF Admitted(i) THEN {i} ELSE {}), i.size)

(* ... the front of the list is prepared ...                               *)

IsFront(i, q) == i \in q /\ \A j \in q \ {i} : Before(i, j)

OutOfDate(i) == /\ InMs + TenMinutes <= i.pts
                /\ ~i.imm
                /\ ~(More32(i.pts) /\ ~More32(InMs))
UpToDate(q) == {i \in q : ~OutOfDate(i)}

WithPts(i) == IF i.pts = 0 /\ ~i.imm THEN Retimed(i, InMs, InMs + DefaultDelay) ELSE i
OtherBits(i) == InMs > 0 /\ More32(i.pts) /\ ~More32(InMs)
WithSameBits(i) == IF OtherBits(i) THEN Retimed(i, i.pts % Wrap32, i.end % Wrap32) ELSE i
WithEnd(i) == IF i.end = 0 THEN Retimed(i, i.pts, i.pts + NoPtsDelay) ELSE i
Prepared(i) == WithEnd(WithSameBits(WithPts(i)))

DueSoon(i) == i.imm \/ i.pts <= Timestamp + DefaultDelay
Due(i) == i.imm \/ i.pts <= Timestamp + Tolerance

(* ... shown, if its time has come ...                                     *)

\* What stays in the list: a second text with the same pts joins the first one.
Combined(i, j) == ~i.imm /\ ~j.imm /\ i.kind = "text" /\ j.kind = "text" /\ i.pts = j.pts
Others(i, q) == {j \in q : j.id # i.id}
BehindUnpopped(i, q) == q
Behind(i, q) == {j \in Others(i, q) : ~(Combined(i, j) /\ IsFront(j, Others(i, q)))}

\* A PGS item without data ends the display of its object, unless the next one of
\* that object replaces it at the same pts.
Replaced(i, q) == \E j \in q : IsFront(j, {k \in q : k.obj = i.obj}) /\ j.pts = i.pts
HidesAll(i) == ~i.data /\ i.kind # "pgs"
HidesObject(i, q) == ~i.data /\ i.kind = "pgs" /\ ~Replaced(i, q)

Presented(i, q) == [o \in Objects |->
    IF o = i.obj /\ i.data THEN i
    ELSE IF HidesAll(i) /\ o <= mCurrentMaxObjectId THEN None
    ELSE IF HidesObject(i, q) /\ o = i.obj THEN None ELSE screen[o]]
LatestObject(i) == IF i.data THEN i.obj ELSE mCurrentMaxObjectId
HighestObject(i) == IF HidesAll(i) THEN 0
                    ELSE IF i.data /\ mCurrentMaxObjectId < i.obj THEN i.obj
                    ELSE mCurrentMaxObjectId

WithFadingTime(i) ==
    IF i.imm /\ i.end = i.pts THEN Retimed(i, InMs, InMs + NoPtsDelay)
    ELSE IF i.end < i.pts + 1000 THEN Retimed(i, i.pts, i.pts + SmallPtsDelay) ELSE i

(* ... and the item shown before is hidden, if its end has come.           *)

\* The comparisons are unsigned in the code: an end in the past is too long, too,
\* and no end has come at the invalid time.
OverEarly(i) == 0 < Timestamp /\ i.end <= Timestamp + 1000
Over(i) == \/ 0 < Timestamp /\ i.end <= Timestamp
           \/ Timestamp # 0 /\ i.end - Timestamp > TooLong

Faded(fading) == fading # <<>> /\ ~Head(fading).keep /\ Over(Head(fading))
LooksAgain(fading) == fading # <<>> /\ ~Head(fading).keep

\* The last part of the handler: fading holds what is shown, scr the screen and
\* top the highest object after the showing part, waiting whether it asked for a
\* delayed CHECK.
Fade(fading, scr, top, waiting) ==
    /\ delayed' = (waiting \/ LooksAgain(fading))
    /\ mEmittedFaddingSpu' = IF Faded(fading) THEN Tail(fading) ELSE fading
    /\ screen' = IF Faded(fading) THEN HideUpTo(top, scr) ELSE scr
    /\ mCurrentMaxObjectId' = IF Faded(fading) THEN 0 ELSE top

nothingQueued ==
    /\ Collected = {}
    /\ mEmittedShowingSpu' = {}
    /\ Fade(mEmittedFaddingSpu, screen, mCurrentMaxObjectId, FALSE)
    /\ UNCHANGED shown

\* "all items in emitted spu are out of date": an early return.
allOutOfDate ==
    /\ Collected # {} /\ UpToDate(Collected) = {}
    /\ mEmittedShowingSpu' = {}
    /\ UNCHANGED <<mEmittedFaddingSpu, renderVars, delayed>>

\* The front of the list is prepared in place, if it is still in the list.
notYetDue(front) ==
    LET spu == Prepared(front)
    IN  /\ ~Due(spu)
        /\ mEmittedShowingSpu' = {IF i = front THEN spu ELSE i : i \in UpToDate(Collected)}
        /\ Fade(mEmittedFaddingSpu, screen, mCurrentMaxObjectId, TRUE)
        /\ UNCHANGED shown

show(front) ==
    LET spu == Prepared(front)
        queue == Behind(spu, UpToDate(Collected))
        cached == IF mEmittedFaddingSpu = <<>> THEN <<>> ELSE Tail(mEmittedFaddingSpu)
    IN  /\ Due(spu)
        /\ mEmittedShowingSpu' = queue
        /\ Fade(Append(cached, WithFadingTime(spu)), Presented(spu, queue),
                HighestObject(spu), FALSE)
        /\ shown' = IF spu.data THEN shown \cup {spu.id} ELSE shown

check ==
    /\ looper = "checking"
    /\ looper' = "idle"
    /\ mDecodedSpu' = IF mDecodedSpu = <<>> THEN <<>> ELSE Tail(mDecodedSpu)
    /\ \/ nothingQueued
       \/ allOutOfDate
       \/ UpToDate(Collected) # {} /\ \E front \in Collected :
              IsFront(front, Collected) /\ (notYetDue(front) \/ show(front))
    /\ UNCHANGED <<parsing, decoded, clockVars, exiting, session, messages, resets>>

-----------------------------------------------------------------------------

Looper == looperLoop \/ looperExit \/ waitForVideo \/ beginCheck \/ handleReset \/ check
RunThread == startParser \/ startPresent \/ stopParser \/ stopPresent
Player == syncCurrentPresentTime \/ notifyStartTimeStamp

Next == addDecodedItem \/ Player \/ RunThread \/ resetForSeek \/ Looper

Spec == Init /\ [][Next]_vars

\* The looper thread is always scheduled; nobody else has to do anything.
FairSpec == Spec /\ WF_vars(Looper)

-----------------------------------------------------------------------------
(* Safety.                                                                 *)

Pictures == {screen[o] : o \in Objects} \ {None}
OfThisSession(i) == i.session = session
Waiting == ToSet(mDecodedSpu) \cup mEmittedShowingSpu

\* Whatever a session has put on the screen, an item in the list of shown items
\* will take down: a picture without one stays until the next is shown
\* (Presentation.cpp:899-905 and 928-990).
ScreenHasKeeper ==
    looper = "idle" /\ (\E i \in Pictures : OfThisSession(i)) => mEmittedFaddingSpu # <<>>

\* Hiding "everything", which is hiding the objects 0..mCurrentMaxObjectId, leaves
\* nothing on the screen (AndroidHidlRemoteRender.cpp:66-79 and 111).
HiddenCovers == \A o \in Objects : screen[o] # None => o <= mCurrentMaxObjectId

\* No item is sent to the renderer a second time.
ShownOnce ==
    [][\A o \in Objects : screen'[o] \notin {screen[o], None} => screen'[o].id \notin shown]_vars

\* Nothing that an earlier session decoded is shown, though a session may end with
\* items in both queues and a check under way (Presentation.cpp:1018-1019, Parser.h:133-150).
OnlyThisSession ==
    [][\A i \in Waiting : i.id \in shown' \ shown => OfThisSession(i)]_vars

\* A check that consumes nothing takes a picture of this session off the screen only when
\* the end of what was shown last has come or is out of reach, and a single picture goes
\* at its own end, though the screen and the list of shown items are kept apart
\* (Presentation.cpp:932-976).  Several objects go together, at the end of the last one;
\* and the end of one PGS object may leave another.
HiddenAtItsEnd ==
    [][\A o \in Objects :
          /\ looper = "checking" /\ {i.id : i \in Waiting'} = {i.id : i \in Waiting}
          /\ screen[o] # None /\ screen'[o] = None /\ OfThisSession(screen[o])
          => \E i \in ToSet(mEmittedFaddingSpu) :
                /\ i.kind # "pgs" /\ Pictures = {screen[o]} => i.id = screen[o].id
                /\ i.end <= Timestamp \/ i.end > Timestamp + TooLong]_vars

\* The items the check at hand shows that have a time of their own, one not so far off
\* that it is not believed.
ShownByItsTime == {i \in Waiting : i.id \in shown' \ shown /\ ~i.imm
                                   /\ Distance(i.pts, Timestamp) < FarAway}

\* No such item is shown before its time, whatever was done to the times of the front
\* of the list in earlier checks (Presentation.cpp:807-836).  For the other items, due
\* after 2^32 ticks while the video is before them, see NotBeforeTheWrap.
NotBeforeItsTime ==
    [][\A i \in ShownByItsTime : ~OtherBits(i) => i.pts <= Timestamp + Tolerance]_vars

\* "mediasync support 64 bit pts which don't need change" (Presentation.cpp:338): an item
\* due just after 2^32 ticks waits for them like any other.
NotBeforeTheWrap ==
    [][\A i \in ShownByItsTime : OtherBits(i) => i.pts <= Timestamp + Tolerance]_vars

-----------------------------------------------------------------------------
(* Liveness, under FairSpec: the looper runs, the video may have stopped.  *)

Playing == now > 0 /\ looper # "none" /\ ~exiting

\* Decoded and not yet taken over; due and still in the list, perhaps behind later ones;
\* on the screen though its end has come, perhaps while the video stands still.
Unread(k) == \E i \in ToSet(mDecodedSpu) : i.id = k
Late(k) == \E i \in mEmittedShowingSpu : i.id = k /\ Due(i)
Overdue(k) == /\ \E i \in ToSet(mEmittedFaddingSpu) : i.id = k /\ ~i.keep /\ i.end <= Timestamp
              /\ \E i \in Pictures : i.id = k
Pending(k) == Playing /\ (Unread(k) \/ Late(k) \/ Overdue(k))

\* Every item comes in time and goes in time, though there is one CHECK for each item, a
\* CHECK takes away all others and handles one item only, and what is behind has to wait
\* for the one the handler leaves (Presentation.cpp:687-696 and 978-990): the looper gets
\* to the end of what is pending for an item, whatever it is.
ComesAndGoes == \A k \in 1..MaxItems : Pending(k) ~> ~Pending(k)
=============================================================================
