---------------------------- MODULE DeviceSource ----------------------------
(***************************************************************************)
(* The sources that read a device of the kernel, DeviceSource.cpp and      *)
(* VbiSource.cpp, over the queue of segments of utils/Segment.h: the       *)
(* thread that reads the device, the one that tells the video time, the    *)
(* parser that reads what it wants whatever the segments are, and the      *)
(* thread that starts, stops and destroys all this.  Bytes are numbered as *)
(* the device gives them.                                                  *)
(*                                                                         *)
(* After close() the number of the device's file may be given to another   *)
(* one while the device thread still has it; that is left out.             *)
(***************************************************************************)
EXTENDS Integers, Sequences, SequencesExt, FiniteSetsExt

CONSTANTS
    Sizes,       \* what the device has at once: the size of a line for VBI
    Wants,       \* what the parser asks for
    MaxBytes     \* bound: bytes the device gives

VARIABLES
    kind,                \* "device" or "vbi"
    owner,               \* what the session and its threads do with the source
    mState, mExitRequested, mRdFd, registered,
    mEnabled, mSegments, mAvailableDataSize,    \* the BufferSegment
    driver,              \* loopDriverData(): [at, chunk, left]
    given,               \* bytes the device has given
    render,              \* loopRenderTime()
    reader,              \* read(): [at, want, have]
    mCurrentItem,
    got                  \* history: the bytes read

segment == <<mEnabled, mSegments, mAvailableDataSize>>
threads == <<driver, given, render, reader, mCurrentItem, got>>
state == <<mState, mExitRequested, mRdFd, registered>>
dsvars == <<kind, owner, state, segment, threads>>

NoThread == [at |-> "none", chunk |-> <<>>, left |-> 0]
Init ==
    /\ kind \in {"device", "vbi"}
    /\ owner = "new" /\ mState = "INV" /\ mExitRequested = FALSE /\ mRdFd = "open"
    /\ registered = FALSE
    /\ mEnabled = TRUE /\ mSegments = <<>> /\ mAvailableDataSize = 0
    /\ driver = NoThread /\ given = 0 /\ render = "none"
    /\ reader = [at |-> "idle", want |-> 0, have |-> 0] /\ mCurrentItem = <<>> /\ got = <<>>

-----------------------------------------------------------------------------
(* The session attaches the source.  The time is told only of a device that   *)
(* has subtitles by then, and never of VBI.                                   *)
RenderThread == IF kind = "device" THEN {"none", "lock"} ELSE {"none"}
start ==
    /\ owner = "new"
    /\ owner' = "on" /\ mState' = "STARTED" /\ registered' = TRUE
    /\ driver' = [NoThread EXCEPT !.at = "loop"]
    /\ render' \in RenderThread
    /\ UNCHANGED <<kind, mExitRequested, mRdFd, segment, given, reader, mCurrentItem, got>>

(* loopDriverData(), with readDriverData() of DeviceSource, which may be given *)
(* less than it asks for and is left at a stop with what it has.              *)
polls ==
    /\ driver.at = "loop" /\ ~mExitRequested /\ mRdFd = "open"
    /\ \E size \in Sizes :
          /\ given + size =< MaxBytes
          /\ driver' = [at |-> "read", chunk |-> <<>>, left |-> size]
    /\ UNCHANGED <<kind, owner, state, segment, given, render, reader, mCurrentItem, got>>
Given(n) == [i \in 1 .. n |-> given + i]
readDriverData ==
    /\ driver.at = "read" /\ driver.left > 0 /\ mRdFd = "open"
    /\ kind = "device" => mState = "STARTED"
    /\ \E n \in IF kind = "device" THEN 1 .. driver.left ELSE {driver.left} :
          /\ driver' = [driver EXCEPT !.chunk = @ \o Given(n), !.left = @ - n]
          /\ given' = given + n
    /\ UNCHANGED <<kind, owner, state, segment, render, reader, mCurrentItem, got>>
\* A device that was closed gives an error, and nothing is pushed.
readFails ==
    /\ driver.at = "read" /\ driver.left > 0 /\ mRdFd = "closed"
    /\ kind = "device" => mState = "STARTED"
    /\ driver' = [NoThread EXCEPT !.at = "loop"]
    /\ UNCHANGED <<kind, owner, state, segment, given, render, reader, mCurrentItem, got>>

Wakes == IF reader.at = "wait" THEN [reader EXCEPT !.at = "pop"] ELSE reader
push ==
    /\ driver.at = "read"
    /\ driver.left = 0 \/ (kind = "device" /\ mState # "STARTED")
    /\ driver' = [NoThread EXCEPT !.at = "loop"]
    /\ IF driver.chunk = <<>> THEN UNCHANGED <<mSegments, mAvailableDataSize, reader>>
       ELSE /\ mSegments' = Append(mSegments, driver.chunk)
            /\ mAvailableDataSize' = mAvailableDataSize + Len(driver.chunk)
            /\ reader' = Wakes
    /\ UNCHANGED <<kind, owner, state, mEnabled, given, render, mCurrentItem, got>>
driverEnds ==
    /\ driver.at = "loop" /\ mExitRequested
    /\ driver' = [driver EXCEPT !.at = "ended"]
    /\ UNCHANGED <<kind, owner, state, segment, given, render, reader, mCurrentItem, got>>

-----------------------------------------------------------------------------
(* loopRenderTime() tells the time under the lock of the list of listeners.   *)
Render(from, to) ==
    /\ render = from /\ render' = to
    /\ UNCHANGED <<kind, owner, state, segment, driver, given, reader, mCurrentItem, got>>
tellsTime == registered /\ Render("lock", "calls")
tellsNobody == ~registered /\ Render("lock", "sleep")
told == Render("calls", "sleep")
renderLoops == ~mExitRequested /\ Render("sleep", "lock")
renderEnds == mExitRequested /\ Render("sleep", "ended")
mLockFree == render # "calls"

-----------------------------------------------------------------------------
(* read(), by the parser's thread.                                            *)
Reader(at) == reader' = [reader EXCEPT !.at = at]
readBegins ==
    /\ owner \notin {"new", "gone"} /\ reader.at = "idle"
    /\ \E want \in Wants : reader' = [at |-> "read", want |-> want, have |-> 0]
    /\ UNCHANGED <<kind, owner, state, segment, driver, given, render, mCurrentItem, got>>
MoreToRead == reader.have # reader.want /\ mState = "STARTED"
read_l ==
    /\ reader.at = "read" /\ MoreToRead /\ mCurrentItem # <<>>
    /\ LET n == Min({Len(mCurrentItem), reader.want - reader.have})
       IN  /\ got' = got \o SubSeq(mCurrentItem, 1, n)
           /\ mCurrentItem' = SubSeq(mCurrentItem, n + 1, Len(mCurrentItem))
           /\ reader' = [reader EXCEPT !.have = @ + n]
    /\ UNCHANGED <<kind, owner, state, segment, driver, given, render>>
itemIsEmpty ==
    /\ reader.at = "read" /\ MoreToRead /\ mCurrentItem = <<>> /\ Reader("pop")
    /\ UNCHANGED <<kind, owner, state, segment, driver, given, render, mCurrentItem, got>>
pop ==
    /\ reader.at = "pop" /\ mSegments # <<>>
    /\ mCurrentItem' = Head(mSegments) /\ mSegments' = Tail(mSegments)
    /\ mAvailableDataSize' = mAvailableDataSize - Len(Head(mSegments))
    /\ Reader("read")
    /\ UNCHANGED <<kind, owner, state, mEnabled, driver, given, render, got>>
popWaits ==
    /\ reader.at = "pop" /\ mSegments = <<>>
    /\ Reader(IF mEnabled THEN "wait" ELSE "read")
    /\ UNCHANGED <<kind, owner, state, segment, driver, given, render, mCurrentItem, got>>
readReturns ==
    /\ reader.at = "read" /\ ~MoreToRead /\ Reader("idle")
    /\ UNCHANGED <<kind, owner, state, segment, driver, given, render, mCurrentItem, got>>

-----------------------------------------------------------------------------
(* The end.  dettachDataSource(), stop(), the parser's thread is joined, and   *)
(* the destructor joins the threads of the source, the device closed between. *)
Owner(from, to) == owner = from /\ owner' = to /\ UNCHANGED kind
dettachDataSource ==
    /\ Owner("on", "stop") /\ mLockFree
    /\ registered' = FALSE
    /\ UNCHANGED <<mState, mExitRequested, mRdFd, segment, threads>>
stop ==
    /\ Owner("stop", "notify")
    /\ mState' = "STOPPED"
    /\ UNCHANGED <<mExitRequested, mRdFd, registered, segment, threads>>
notifyExit ==
    /\ Owner("notify", "wake")
    /\ mEnabled' = FALSE
    /\ UNCHANGED <<state, mSegments, mAvailableDataSize, threads>>
notifyWakes ==
    /\ Owner("wake", "joinParser")
    /\ mAvailableDataSize' = 0 /\ reader' = Wakes
    /\ UNCHANGED <<state, mEnabled, mSegments, driver, given, render, mCurrentItem, got>>
stopParser ==
    /\ Owner("joinParser", "joinRender") /\ reader.at = "idle"
    /\ reader' = [reader EXCEPT !.at = "ended"] /\ mExitRequested' = TRUE
    /\ UNCHANGED <<mState, mRdFd, registered, segment, driver, given, render, mCurrentItem, got>>
joinRender ==
    /\ Owner("joinRender", "joinDriver") /\ render \in {"none", "ended"}
    /\ mRdFd' = "closed"
    /\ UNCHANGED <<mState, mExitRequested, registered, segment, threads>>
joinDriver ==
    /\ Owner("joinDriver", "gone") /\ driver.at = "ended"
    /\ UNCHANGED <<state, segment, threads>>

Driver == readDriverData \/ readFails \/ push \/ driverEnds
RenderTime == tellsTime \/ tellsNobody \/ told \/ renderLoops \/ renderEnds
Reads == read_l \/ itemIsEmpty \/ pop \/ popWaits \/ readReturns
Stops == stop \/ notifyExit \/ notifyWakes \/ stopParser \/ joinRender \/ joinDriver
Next == start \/ polls \/ Driver \/ RenderTime \/ readBegins \/ Reads
        \/ dettachDataSource \/ Stops

\* Every thread is scheduled.  The parser is told to end before it is joined, so that it does
\* not begin to read again for ever: it comes to an end once the source has stopped.
Fairness ==
    /\ WF_dsvars(Driver) /\ WF_dsvars(RenderTime) /\ WF_dsvars(Reads)
    /\ WF_dsvars(Stops) /\ SF_dsvars(stopParser)

-----------------------------------------------------------------------------
(* Until it is stopped the source loses no byte of the device, and whatever    *)
(* sizes these come and are read in, the parser has them once, in their order. *)
(* What is said to be available is what waits in the segments.                 *)
BytesInOrder ==
    /\ got = [i \in DOMAIN got |-> i]
    /\ mState = "STARTED" =>
          got \o mCurrentItem \o FlattenSeq(mSegments) \o driver.chunk = [i \in 1 .. given |-> i]
    /\ mEnabled => mAvailableDataSize = Len(FlattenSeq(mSegments))

(* The time is told to nobody who has left, and no thread of the source is     *)
(* there after its end.                                                       *)
ListenerIsThere ==
    /\ render = "calls" => registered
    /\ owner = "gone" => driver.at = "ended" /\ render \in {"none", "ended"}
                         /\ reader.at = "ended"

(* A stop comes to its end, wherever the parser waits and the device reads.    *)
SourceEnds == owner = "stop" ~> owner = "gone"
=============================================================================
