------------------------------ MODULE Subtitle ------------------------------
(***************************************************************************)
(* One subtitle session: Subtitle with its run thread, the parser threads  *)
(* it starts, the source they read from (ExternalDataSource with its       *)
(* BufferSegment) and the two threads that drive it: the receiver of the   *)
(* message queue (FmqReceiver) that brings data and announces types, and   *)
(* the service thread that starts, configures and stops the session.       *)
(*                                                                         *)
(* Four locks are involved.  Subtitle::mMutex is held by a whole tick of   *)
(* run(), a join of the old parser included; FmqReceiver::mLock and        *)
(* DataSource::mLock are held while a message is delivered, mMutex is then *)
(* waited for; BufferSegment::mMutex is never held across a step.  A lock  *)
(* that is held by one thread only across steps is the value of that       *)
(* thread's control variable.                                              *)
(*                                                                         *)
(* A tick of run() that does not join is one step: what it does happens    *)
(* under mMutex, and the threads it starts only begin then.  A chunk is    *)
(* what one message brings; of it only its presence matters.               *)
(***************************************************************************)
EXTENDS Naturals, Sequences, FiniteSets

CONSTANTS Types,            \* subtitle types a parser exists for
          DtvTypes,         \* those setParameter only updates a parser for
          BlockingTypes,    \* those whose parser waits for data in read()
          CC, External,     \* closed caption, external file
          Invalid,          \* TYPE_SUBTITLE_INVALID
          Params,           \* types the service may set
          Announced,        \* types the source may announce
          ExtSub,           \* whether the session may be an external file, or a stream
          DefaultParser,    \* a player id or channel asks for a default parser
          MaxMessages,      \* bound: messages received
          MaxParams,        \* bound: calls of setParameter after the start of a stream
          MaxExtParams      \* and of an external file

ASSUME TypesAssumption ==
    /\ {CC, External} \subseteq Types /\ Invalid \notin Types
    /\ DtvTypes \subseteq Types /\ BlockingTypes \subseteq Types
    /\ CC \notin BlockingTypes
    /\ Params \subseteq Types \cup {Invalid} /\ Announced \subseteq Types \cup {Invalid}
    /\ ExtSub \subseteq BOOLEAN /\ DefaultParser \in BOOLEAN
    /\ MaxMessages \in Nat /\ MaxParams \in Nat /\ MaxExtParams \in Nat

VARIABLES
    run,                    \* the run thread: "none", "waiting", "joining", "ended"
    mExitRequested,
    mPendingAction,         \* "none", "SET_PARAM", "RECEIVED_SUBTYPE"
    subType,                \* mSubPrams->subType
    mCurrentSubtitleType,   \* the last type announced
    parsers,                \* every parser made, the last one is mParser
    presented,              \* the parser that is presented, 0 for none
    receiver,               \* the receiver thread: "idle", "notify", "notifyType", "type"
    announced,              \* the type it announces (mSubtitleType of the source)
    totalKnown,             \* mTotalSubtitle # -1
    mSegments,              \* chunks queued
    mEnabled,               \* of the BufferSegment
    mState,                 \* of the source: "INV", "STARTED", "STOPPED"
    listener,               \* the source has the session as its listener
    client,                 \* the receiver has the source as its client
    service,                \* the service thread
    mIsExtSub,              \* an external file, otherwise a stream
    messages, params        \* used up of MaxMessages, MaxParams

runVars == <<run, mExitRequested, parsers, presented>>
requestVars == <<mPendingAction, subType, mCurrentSubtitleType>>
receiverVars == <<receiver, announced, totalKnown, messages>>
sourceVars == <<mSegments, mEnabled, mState>>
linkVars == <<listener, client>>
sessionVars == <<mIsExtSub, params>>
vars == <<runVars, requestVars, receiverVars, sourceVars, linkVars, service, sessionVars>>

\* A parser thread parses, is inside read(), sleeps in pop(), or has ended; stop is
\* the parser's SUB_STOP with mThreadExitRequested.
Parser == [type : Types, at : {"parsing", "reading", "asleep", "ended"}, stop : BOOLEAN]

ServiceStates == {"closed", "starting", "open", "detach", "unregister", "joinRun", "stopSource",
                  "notifyExit", "stopParser", "joinParser", "gone"}

TypeOK ==
    /\ run \in {"none", "waiting", "joining", "ended"}
    /\ mExitRequested \in BOOLEAN
    /\ mPendingAction \in {"none", "SET_PARAM", "RECEIVED_SUBTYPE"}
    /\ subType \in Types \cup {Invalid} /\ mCurrentSubtitleType \in Types \cup {Invalid}
    /\ parsers \in Seq(Parser)
    /\ presented \in 0..Len(parsers)
    /\ receiver \in {"idle", "notify", "notifyType", "type"} /\ announced \in Types \cup {Invalid}
    /\ totalKnown \in BOOLEAN
    /\ mSegments \in 0..MaxMessages
    /\ mEnabled \in BOOLEAN /\ mState \in {"INV", "STARTED", "STOPPED"}
    /\ listener \in BOOLEAN /\ client \in BOOLEAN
    /\ service \in ServiceStates
    /\ mIsExtSub \in BOOLEAN
    /\ messages \in 0..MaxMessages /\ params \in Nat

Init ==
    /\ run = "none" /\ mExitRequested = FALSE
    /\ mPendingAction = "none" /\ subType = Invalid /\ mCurrentSubtitleType = Invalid
    /\ parsers = <<>> /\ presented = 0
    /\ receiver = "idle" /\ announced = Invalid /\ totalKnown = FALSE
    /\ mSegments = 0 /\ mEnabled = TRUE /\ mState = "INV"
    /\ listener = FALSE /\ client = FALSE
    /\ service = "closed"
    /\ mIsExtSub \in ExtSub
    /\ messages = 0 /\ params = 0

mMutexFree == run # "joining"
sourceLockFree == receiver # "type"
receiverLockIgnored == receiver # "type"
receiverLockFree == receiver = "idle"

-----------------------------------------------------------------------------
(* Subtitle::run                                                           *)

HasParser == parsers # <<>>
mParser == parsers[Len(parsers)]

\* ParserFactory::create and startParser: without a type it is closed captions.
Created(t) == [type |-> IF t = Invalid THEN CC ELSE t, at |-> "parsing", stop |-> FALSE]

\* The parser is made and started, then presented.
StartUnpresented(t) == /\ parsers' = Append(parsers, Created(t))
                       /\ presented' = Len(parsers)
Start(t) == /\ parsers' = Append(parsers, Created(t))
            /\ presented' = Len(parsers) + 1

\* stopParser up to its join.
AskNobody == UNCHANGED parsers
AskToStop == parsers' = [parsers EXCEPT ![Len(parsers)].stop = TRUE]
NotJoined == HasParser => mParser.stop
Joined == HasParser => mParser.at = "ended"

Tick == run = "waiting" /\ ~mExitRequested

runExit ==
    /\ run = "waiting" /\ mExitRequested
    /\ run' = "ended"
    /\ UNCHANGED <<mExitRequested, parsers, presented, requestVars, receiverVars, sourceVars,
                   linkVars, service, sessionVars>>

\* External file: the first tick makes its parser; a closed caption parser that was
\* made meanwhile is replaced.
startExternal ==
    /\ Tick /\ mIsExtSub /\ ~HasParser
    /\ subType' = External
    /\ Start(External)
    /\ mPendingAction' = "none"
    /\ UNCHANGED <<run, mExitRequested, mCurrentSubtitleType, receiverVars, sourceVars, linkVars,
                   service, sessionVars>>

ReplacesDefault == mIsExtSub /\ HasParser /\ mParser.type = CC
RenewsReader == mPendingAction = "RECEIVED_SUBTYPE" /\ mParser.type \in BlockingTypes
Renews == mPendingAction = "RECEIVED_SUBTYPE"

\* The old parser is asked to stop, either for the external one or for the type received.
stopOldParser ==
    /\ Tick /\ HasParser
    /\ ReplacesDefault \/ Renews
    /\ AskToStop
    /\ run' = "joining"
    /\ UNCHANGED <<mExitRequested, presented, requestVars, receiverVars, sourceVars, linkVars,
                   service, sessionVars>>

\* ... joined, no longer presented, and its successor started.
startNewParser ==
    /\ run = "joining" /\ Joined
    /\ run' = "waiting"
    /\ LET t == IF ReplacesDefault THEN External ELSE subType
       IN  Start(t) /\ subType' = t
    /\ mPendingAction' = "none"
    /\ UNCHANGED <<mExitRequested, mCurrentSubtitleType, receiverVars, sourceVars, linkVars,
                   service, sessionVars>>

\* The first parser: for a parameter, for a type, or by default.
startFirstParser ==
    /\ Tick /\ ~mIsExtSub /\ ~HasParser
    /\ mPendingAction # "none" \/ DefaultParser
    /\ Start(subType)
    /\ mPendingAction' = "none"
    /\ UNCHANGED <<run, mExitRequested, subType, mCurrentSubtitleType, receiverVars, sourceVars,
                   linkVars, service, sessionVars>>

\* ACTION_SUBTITLE_SET_PARAM with a parser: it is told the parameter, whatever its type.
updateParameter ==
    /\ Tick /\ HasParser /\ ~ReplacesDefault
    /\ mPendingAction = "SET_PARAM"
    /\ mPendingAction' = "none"
    /\ UNCHANGED <<runVars, subType, mCurrentSubtitleType, receiverVars, sourceVars, linkVars,
                   service, sessionVars>>

RunThread == \/ runExit \/ startExternal \/ stopOldParser \/ startNewParser
             \/ startFirstParser \/ updateParameter

-----------------------------------------------------------------------------
(* The parser threads and what they read.                                  *)

At(k, from, to) == /\ parsers[k].at = from
                   /\ parsers' = [parsers EXCEPT ![k].at = to]
NotWoken == parsers
Woken == [k \in DOMAIN parsers |->
             IF parsers[k].at = "asleep" THEN [parsers[k] EXCEPT !.at = "reading"] ELSE parsers[k]]

\* _parserEntry: parse until asked to stop.
parserEnds(k) ==
    /\ parsers[k].stop /\ At(k, "parsing", "ended")
    /\ UNCHANGED <<run, mExitRequested, presented, requestVars, receiverVars, sourceVars, linkVars,
                   service, sessionVars>>

parse(k) ==
    /\ ~parsers[k].stop /\ parsers[k].type \in BlockingTypes
    /\ At(k, "parsing", "reading")
    /\ UNCHANGED <<run, mExitRequested, presented, requestVars, receiverVars, sourceVars, linkVars,
                   service, sessionVars>>

\* ExternalDataSource::read: chunks are popped until enough is read or the source stops.
readReturns(k) ==
    /\ mState # "STARTED" /\ At(k, "reading", "parsing")
    /\ UNCHANGED <<run, mExitRequested, presented, requestVars, receiverVars, sourceVars, linkVars,
                   service, sessionVars>>

HasData == mSegments > 0
pop(k) ==
    /\ mState = "STARTED" /\ HasData
    /\ At(k, "reading", "reading") \/ At(k, "reading", "parsing")
    /\ mSegments' = mSegments - 1
    /\ UNCHANGED <<run, mExitRequested, presented, requestVars, receiverVars, mEnabled, mState,
                   linkVars, service, sessionVars>>

popWaits(k) ==
    /\ mState = "STARTED" /\ ~HasData /\ mEnabled
    /\ At(k, "reading", "asleep")
    /\ UNCHANGED <<run, mExitRequested, presented, requestVars, receiverVars, sourceVars, linkVars,
                   service, sessionVars>>

ParserThread(k) == parserEnds(k) \/ parse(k) \/ readReturns(k) \/ pop(k) \/ popWaits(k)

-----------------------------------------------------------------------------
(* The receiver thread: one message at a time, under FmqReceiver::mLock.   *)

Receives == client /\ receiver = "idle" /\ messages < MaxMessages /\ ~mIsExtSub

\* Data is queued once a type or a total is known, and wakes the reader.
onData ==
    /\ Receives
    /\ receiver' = "notify" /\ messages' = messages + 1
    /\ IF totalKnown \/ announced # Invalid
       THEN mSegments' = mSegments + 1 /\ parsers' = Woken
       ELSE UNCHANGED <<mSegments, parsers>>
    /\ UNCHANGED <<announced, totalKnown, run, mExitRequested, presented, requestVars, mEnabled,
                   mState, linkVars, service, sessionVars>>

onTotal ==
    /\ Receives
    /\ receiver' = "notify" /\ messages' = messages + 1
    /\ totalKnown' = TRUE
    /\ UNCHANGED <<announced, runVars, requestVars, sourceVars, linkVars, service, sessionVars>>

\* A type is announced ...
onType ==
    /\ Receives
    /\ messages' = messages + 1
    /\ \E t \in Announced : announced' = t
    /\ receiver' = "notifyType"
    /\ UNCHANGED <<totalKnown, runVars, requestVars, sourceVars, linkVars, service, sessionVars>>

\* notifyInfoChange_l: a listener there is is called under DataSource::mLock; a total
\* or a video time does not need mMutex.
notifyInfoChange ==
    /\ receiver \in {"notify", "notifyType"}
    /\ receiver' = IF receiver = "notifyType" /\ listener /\ mState # "STOPPED"
                   THEN "type" ELSE "idle"
    /\ UNCHANGED <<announced, totalKnown, messages, runVars, requestVars, sourceVars, linkVars,
                   service, sessionVars>>

\* Subtitle::onTypeChanged, once mMutex is free.
TypeChanged == announced # mCurrentSubtitleType /\ announced \in Types
onTypeChanged ==
    /\ receiver = "type" /\ mMutexFree
    /\ receiver' = "idle"
    /\ IF TypeChanged
       THEN /\ mCurrentSubtitleType' = announced
            /\ subType' = announced
            /\ mPendingAction' = "RECEIVED_SUBTYPE"
       ELSE UNCHANGED requestVars
    /\ UNCHANGED <<announced, totalKnown, messages, runVars, sourceVars, linkVars, service,
                   sessionVars>>

Delivery == notifyInfoChange \/ onTypeChanged

-----------------------------------------------------------------------------
(* The service thread: SubtitleService::startSubtitle, setParameter,       *)
(* stopSubtitle and the destructor of Subtitle it ends in.                 *)

Serves(from, to) == service = from /\ service' = to

\* The run thread starts (its first tick is 100 ms away), the source is attached and
\* started.
startSubtitle ==
    /\ Serves("closed", "starting")
    /\ run' = "waiting"
    /\ listener' = TRUE /\ mState' = "STARTED"
    /\ UNCHANGED <<mExitRequested, parsers, presented, requestVars, receiverVars, mSegments,
                   mEnabled, client, sessionVars>>

\* Subtitle::setParameter: the last request wins.
Request(p) == IF p \in DtvTypes THEN "SET_PARAM" ELSE "RECEIVED_SUBTYPE"
Requested(p) == /\ mMutexFree
                /\ subType' = p
                /\ mPendingAction' = Request(p)

\* The session starts with a parameter, or without, and then receives messages.
registClient ==
    /\ Serves("starting", "open")
    /\ \/ UNCHANGED <<subType, mPendingAction>>
       \/ ~mIsExtSub /\ \E p \in Params : Requested(p)
    /\ client' = TRUE
    /\ UNCHANGED <<mCurrentSubtitleType, listener, runVars, receiverVars, sourceVars, sessionVars>>

setParameter ==
    /\ service = "open"
    /\ params < IF mIsExtSub THEN MaxExtParams ELSE MaxParams
    /\ \E p \in Params : Requested(p)
    /\ params' = params + 1
    /\ UNCHANGED <<mIsExtSub, mCurrentSubtitleType, service, runVars, receiverVars, sourceVars,
                   linkVars>>

stopSubtitle ==
    /\ Serves("open", "detach")
    /\ UNCHANGED <<runVars, requestVars, receiverVars, sourceVars, linkVars, sessionVars>>

dettachDataSource ==
    /\ sourceLockFree
    /\ Serves("detach", "unregister")
    /\ listener' = FALSE
    /\ UNCHANGED <<client, runVars, requestVars, receiverVars, sourceVars, sessionVars>>

\* The last reference goes: ~Subtitle asks the run thread to exit ...
unregisterClient ==
    /\ receiverLockFree
    /\ Serves("unregister", "joinRun")
    /\ client' = FALSE
    /\ mExitRequested' = TRUE
    /\ UNCHANGED <<run, parsers, presented, listener, requestVars, receiverVars, sourceVars,
                   sessionVars>>

\* ... joins it, stops the source, and only then the parser that may be reading it.
joinRun ==
    /\ run = "ended"
    /\ Serves("joinRun", "stopSource")
    /\ UNCHANGED <<runVars, requestVars, receiverVars, sourceVars, linkVars, sessionVars>>

stopSource ==
    /\ Serves("stopSource", "notifyExit")
    /\ mState' = "STOPPED" /\ mEnabled' = FALSE
    /\ UNCHANGED <<mSegments, runVars, requestVars, receiverVars, linkVars, sessionVars>>

notifyExit ==
    /\ Serves("notifyExit", "stopParser")
    /\ parsers' = Woken
    /\ UNCHANGED <<run, mExitRequested, presented, requestVars, receiverVars, sourceVars, linkVars,
                   sessionVars>>

stopParser ==
    /\ Serves("stopParser", "joinParser")
    /\ IF HasParser THEN AskToStop ELSE UNCHANGED parsers
    /\ UNCHANGED <<run, mExitRequested, presented, requestVars, receiverVars, sourceVars, linkVars,
                   sessionVars>>

stopPresent ==
    /\ Joined
    /\ Serves("joinParser", "gone")
    /\ presented' = 0
    /\ UNCHANGED <<run, mExitRequested, parsers, requestVars, receiverVars, sourceVars, linkVars,
                   sessionVars>>

Starting == startSubtitle \/ registClient
Stopping == \/ dettachDataSource \/ unregisterClient \/ joinRun \/ stopSource \/ notifyExit
            \/ stopParser \/ stopPresent

Next == \/ RunThread
        \/ \E k \in DOMAIN parsers : ParserThread(k)
        \/ onData \/ onTotal \/ onType \/ Delivery
        \/ Starting \/ setParameter \/ stopSubtitle \/ Stopping

Spec == Init /\ [][Next]_vars

\* Every thread runs; nobody has to send a message, set a parameter or stop.  The run
\* thread sleeps up to 100 ms between two ticks, so whoever waits for mMutex gets it.
FairSpec == /\ Spec
            /\ WF_vars(RunThread) /\ WF_vars(\E k \in DOMAIN parsers : ParserThread(k))
            /\ WF_vars(Delivery) /\ WF_vars(Starting) /\ WF_vars(Stopping)

-----------------------------------------------------------------------------
(* Safety.                                                                 *)

Alive(k) == parsers[k].at # "ended"

\* "all the read, is in parser thread" (ExternalDataSource.cpp:172-173), so read()
\* takes no lock: never two parser threads at a time.
OneReader == \A j, k \in DOMAIN parsers : Alive(j) /\ Alive(k) => j = k

\* The presentation never outlives the parser it takes its items from, nor does it
\* miss a new one (Subtitle.cpp:356-367 and 102-110).
PresentsRunning ==
    /\ presented # 0 => presented = Len(parsers)
    /\ run = "waiting" /\ HasParser => presented = Len(parsers)

\* When the session is gone nothing of it runs on: no parser thread, no presentation,
\* no run thread, and no thread that still calls it (Subtitle.cpp:87-113).
NothingLeft ==
    service = "gone" => /\ \A k \in DOMAIN parsers : ~Alive(k)
                        /\ run = "ended" /\ presented = 0
                        /\ receiver = "idle" /\ ~listener

-----------------------------------------------------------------------------
(* Liveness, under FairSpec.                                               *)

Closing == service # "open"

\* The announced type gets its parser ("need handle", Subtitle.cpp:169-171).
Parses(t) == HasParser /\ mParser.type = t
TypeServed == \A t \in Types :
    (service = "open" /\ mCurrentSubtitleType = t)
        ~> (Parses(t) \/ mCurrentSubtitleType # t \/ Closing)

\* An external file gets its parser back from a default one (Subtitle.cpp:285-290).
ExternalServed ==
    (service = "open" /\ mIsExtSub)
        ~> (Parses(External) /\ mPendingAction = "none") \/ Closing

\* Whatever is announced and whatever the viewer sets, the parser that is wanted is
\* there in the end (Subtitle.cpp:285-386).
ParserServed == TypeServed /\ ExternalServed

\* SubtitleServer::close returns: "would crash the process if a timeout expires"
\* (utils/Watchdog.h:34).
CloseReturns == service = "detach" ~> service = "gone"
=============================================================================
