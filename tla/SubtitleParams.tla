--------------------------- MODULE SubtitleParams ---------------------------
(***************************************************************************)
(* What a client asks for and what its session gets.  The parameters of a  *)
(* broadcast subtitle - its type, pid, demux, secure flag, channel - come  *)
(* one call at a time: amlsub_Open() of the native API makes nine calls    *)
(* of SubtitleServerClient, seven of which matter here, an application     *)
(* makes each of its own accord.  SubtitleService keeps them in mSubParam, *)
(* one record for each type, from one session to the next, and hands them  *)
(* to the source that is there and to the session.  The calls of several   *)
(* clients interleave: open(), close() and the connections wait for an     *)
(* open() to end, the others do not.                                       *)
(*                                                                         *)
(* The source is a DemuxSource or one that takes no parameters; its device *)
(* and its restart are in DemuxSource, the session in Subtitle: here a     *)
(* tick of run() is one step, channels ask for no default parser, and data *)
(* is left out.                                                            *)
(***************************************************************************)
EXTENDS Integers, Sequences

CONSTANTS
    Native, Apps,   \* clients of the native API (TYPE_MIDDLEWARE) and of the Java one
    Requests,       \* the AmlSubtitleParam records that native clients open with
    AppCalls,       \* the calls that applications make
    Spoken,         \* the types that a stream may announce
    Rapid,          \* may a middleware player open within 200 ms of another one?
    MaxAsked,       \* bound: operations of clients
    None

Users == Native \cup Apps
Invalid == "INVALID"
\* The types with a record of their own in SubtitleParamType.
Broadcast == {"DVB", "TELETEXT", "TTML", "SCTE27", "ARIB", "SMPTE"}

VARIABLES
    handles,    \* the clients that are connected
    service,    \* is there a service (mServiceClients[0])?
    param,      \* its mSubParam
    started,    \* its mStarted
    source,     \* its mDataSource
    session,    \* its mSubtiles
    opened,     \* mOpenCalled, and whether mLastOpenType is TYPE_MIDDLEWARE
    call,       \* the calls each client has still to make
    asked,      \* the last request of a native client while no other client calls
    count,      \* operations so far
    aborted     \* the process is gone: std::terminate(), or a null pointer
pvars == <<handles, service, param, started, source, session, opened, call, asked, count, aborted>>

NewParam == [dtv |-> -1, sub |-> Invalid, channel |-> 0, mediaId |-> -1,
             of |-> [t \in Broadcast |-> IF t = "TELETEXT"
                                         THEN [demuxId |-> -1, pid |-> -1, flag |-> -1]
                                         ELSE [demuxId |-> 0, pid |-> 0, flag |-> 0]]]
NewSource(io) == [io |-> io, on |-> FALSE, type |-> Invalid,
                  to |-> [demuxId |-> -1, pid |-> -1, flag |-> 0], filter |-> None]
NewSession == [sub |-> Invalid, current |-> Invalid, pending |-> "none", channel |-> 0,
               parser |-> None]

Init ==
    /\ handles = {}
    /\ service = FALSE /\ param = NewParam /\ started = FALSE
    /\ source = None /\ session = None
    /\ opened = [called |-> FALSE, middleware |-> FALSE]
    /\ call = [c \in Users |-> <<>>]
    /\ asked = None
    /\ count = 0
    /\ aborted = FALSE

-----------------------------------------------------------------------------
(* The numbers of the types.  Those of the client library "must keep sync  *)
(* with SubtitleServer" and do so up to DVB.                               *)

ApiType == [CC |-> 2, SCTE27 |-> 3, DVB |-> 4, TELETEXT |-> 5, TTML |-> 6, ARIB |-> 7, SMPTE |-> 8]
mapApiType2SubtitleType(t) == IF t \in DOMAIN ApiType THEN ApiType[t] ELSE -1

DtvSubtitleType == [CC |-> {2}, SCTE27 |-> {3, 7}, DVB |-> {4, 5}, TELETEXT |-> {6},
                    TTML |-> {10, 11}, ARIB |-> {8, 9}, SMPTE |-> {12, 13}]
Named(n) == {t \in DOMAIN DtvSubtitleType : n \in DtvSubtitleType[t]}

\* SubtitleParamType::update(): a number that names no type leaves subType as it is.
update(p) == [p EXCEPT !.sub = IF Named(p.dtv) = {} THEN @ ELSE CHOOSE t \in Named(p.dtv) : TRUE]
isValidDtvParams(p) == p.dtv \in {2, 3, 7}

-----------------------------------------------------------------------------
(* The session: mSubPrams with its type and channel, mCurrentSubtitleType, *)
(* mPendingAction, and the type and channel of mParser.                    *)

onTypeChanged(s, t) ==
    IF t \in {s.current, Invalid} THEN s
    ELSE [s EXCEPT !.current = t, !.sub = t, !.pending = "RECEIVED_SUBTYPE"]

setParameter(s, p) ==
    LET q == update(p) IN
    [s EXCEPT !.sub = q.sub, !.channel = q.channel,
              !.pending = IF q.sub = Invalid THEN "RECEIVED_SUBTYPE" ELSE "SET_PARAM"]

\* ParserFactory::create()
NewParser(s) == [type |-> IF s.sub = Invalid THEN "CC" ELSE s.sub, channel |-> s.channel]

\* A tick of run(): a parameter updates the parser there is, a type replaces it.
tick ==
    /\ session # None /\ session.pending # "none"
    /\ session' = [session EXCEPT
            !.pending = "none",
            !.parser = IF @ = None \/ session.pending = "RECEIVED_SUBTYPE" THEN NewParser(session)
                       ELSE IF @.type = "CC" /\ session.sub = "CC" THEN NewParser(session) ELSE @]
    /\ UNCHANGED <<handles, service, param, started, source, opened, call, asked, count, aborted>>

\* A source that takes no parameters is told the type by the stream.
announce(t) ==
    /\ session # None /\ source # None /\ source.io # "demux"
    /\ session' = onTypeChanged(session, t)
    /\ UNCHANGED <<handles, service, param, started, source, opened, call, asked, count, aborted>>

-----------------------------------------------------------------------------
(* The demux source.                                                       *)

\* Those that DemuxSource::updateParameter() has a branch for.
Taken == Broadcast \ {"SMPTE"}
Informed(s, p) == [s EXCEPT !.type = p.sub, !.to = IF p.sub \in Taken THEN p.of[p.sub] ELSE @]
Filtering(s) == [s EXCEPT !.filter = [type |-> s.type, to |-> s.to]]

\* open_dvb_dmx() refuses a source without a demux, and may fail.
Opens(s) == IF s.to.demuxId = -1 THEN {[s EXCEPT !.filter = None]}
            ELSE {[s EXCEPT !.filter = None], Filtering(s)}

\* updateParameter() of the source that is there, for the types given: one that runs with
\* another pid is opened again, which ends the process (see DemuxSource).
give(p, types) ==
    IF source = None \/ p.sub \notin types THEN UNCHANGED <<source, aborted>>
    ELSE IF source.io # "demux" THEN UNCHANGED <<source, aborted>>
    ELSE IF source.on /\ p.sub \in Taken /\ source.to.pid # p.of[p.sub].pid
         THEN /\ source' \in Opens(Informed(source, p))
              /\ aborted' = (source'.filter # None)
         ELSE source' = Informed(source, p) /\ UNCHANGED aborted

-----------------------------------------------------------------------------
(* The calls.  Each forwarder of the server fetches the service under      *)
(* mLock, does nothing when there is none and goes on without the lock: a  *)
(* setter may come while open() of another client is under way, and finds  *)
(* its source, but not its session, which startSubtitle() stores last.     *)

Op(name, arg) == [op |-> name, arg |-> arg, io |-> "none"]
Open(io, dmx) == [op |-> "open", arg |-> dmx, io |-> io]
Next1(c) == Head(call[c])
Locked == \E d \in Users : call[d] # <<>> /\ Head(call[d]).op = "configure"

mSubtiles == IF Locked THEN None ELSE session
Calls(c, op) == ~aborted /\ call[c] # <<>> /\ Next1(c).op = op

\* After a call of c its claim stays and that of another client goes.
Made(c) == call' = [call EXCEPT ![c] = Tail(@)]
Told(c) == asked' = IF asked # None /\ asked.by # c THEN None ELSE asked
Same == UNCHANGED <<handles, opened, count>>

\* What a setter stores goes into the record of the type that is set.
Stored(p, field, v) ==
    LET ts == Named(p.dtv) \cap Broadcast IN
    [p EXCEPT !.of = [t \in Broadcast |-> IF t \in ts THEN [@[t] EXCEPT ![field] = v] ELSE @[t]]]

setSubType(c) ==
    /\ Calls(c, "setSubType")
    /\ param' = IF service THEN update([param EXCEPT !.dtv = Next1(c).arg]) ELSE param
    /\ Made(c) /\ Told(c) /\ Same
    /\ UNCHANGED <<service, started, source, session, aborted>>

\* The types that setSubPid() gives on to a source that is there, and those that
\* setDemuxId(), setSecureLevel() and startSubtitle() give.
GivenWithPid == Broadcast \ {"SCTE27"}
Given == Broadcast

setSubPid(c) ==
    /\ Calls(c, "setSubPid")
    /\ IF ~service THEN UNCHANGED <<param, source, aborted>>
       ELSE param' = Stored(param, "pid", Next1(c).arg) /\ give(param', GivenWithPid)
    /\ Made(c) /\ Told(c) /\ Same
    /\ UNCHANGED <<service, started, session>>

setSecureLevel(c) ==
    /\ Calls(c, "setSecureLevel")
    /\ IF ~service THEN UNCHANGED <<param, source, aborted>>
       ELSE param' = Stored(param, "flag", Next1(c).arg) /\ give(param', Given)
    /\ Made(c) /\ Told(c) /\ Same
    /\ UNCHANGED <<service, started, session>>

setChannelId(c) ==
    /\ Calls(c, "setChannelId")
    /\ param' = IF service THEN [param EXCEPT !.channel = Next1(c).arg] ELSE param
    /\ Made(c) /\ Told(c) /\ Same
    /\ UNCHANGED <<service, started, source, session, aborted>>

\* setPageId() and setAncPageId(): for DVB all parameters are given to the session.
setSubPageId(c) ==
    /\ Calls(c, "setPageId")
    /\ session' = IF service /\ mSubtiles # None /\ "DVB" \in Named(param.dtv)
                  THEN setParameter(session, param) ELSE session
    /\ Made(c) /\ Told(c) /\ Same
    /\ UNCHANGED <<service, param, started, source, aborted>>

\* setPipId() for the media synchronisation: another one is given on when there is a source,
\* which is there before the session is.
setPipId(c) ==
    /\ Calls(c, "setPipId")
    /\ IF ~service THEN UNCHANGED <<param, session, aborted>>
       ELSE LET given == source # None /\ param.mediaId # Next1(c).arg IN
            /\ param' = [param EXCEPT !.mediaId = Next1(c).arg]
            /\ session' = IF given /\ mSubtiles # None THEN setParameter(session, param') ELSE session
            /\ aborted' = (given /\ mSubtiles = None)
    /\ Made(c) /\ Told(c) /\ Same
    /\ UNCHANGED <<service, started, source>>

\* The type that update() derives from dtvSubType is overwritten, for the session it is
\* derived again.
ttControl(c) ==
    /\ Calls(c, "ttControl")
    /\ IF ~service THEN UNCHANGED <<param, session>>
       ELSE /\ param' = [param EXCEPT !.sub = "TELETEXT"]
            /\ session' = IF mSubtiles = None THEN session ELSE setParameter(session, param')
    /\ Made(c) /\ Told(c) /\ Same
    /\ UNCHANGED <<service, started, source, aborted>>

-----------------------------------------------------------------------------
(* open() and close().                                                     *)

\* stopSubtitle() forgets the type, and neither pid nor demux.
Forgotten(p) == [p EXCEPT !.dtv = -1, !.sub = Invalid]

\* open() of a middleware player shortly after another kind of player's.
TakesOver(c) == started /\ opened.called /\ c \in Native /\ ~opened.middleware /\ Rapid

\* setDemuxId() comes first and reaches a source that is there.
WithDemux(p, arg) == IF arg.io = "demux" THEN Stored(p, "demuxId", arg.arg) ELSE p

\* startSubtitle() up to the start of the source, which announces its type if it opens.
start(c, p, arg) ==
    LET new == NewSource(arg.io)
        told == IF arg.io = "demux" /\ p.sub \in Given THEN Informed(new, p) ELSE new IN
    /\ started' = TRUE
    /\ source' \in {[s EXCEPT !.on = TRUE] : s \in IF arg.io = "demux" THEN Opens(told) ELSE {told}}
    /\ session' = IF source'.filter = None THEN NewSession ELSE onTypeChanged(NewSession, told.type)
    /\ call' = [call EXCEPT ![c] = <<Op("configure", 0)>> \o Tail(@)]
    /\ asked' = IF asked # None /\ asked.by = c THEN [asked EXCEPT !.accepted = TRUE] ELSE None
    /\ UNCHANGED aborted

\* A service that is started refuses, after the demux has been set.
refuse(c, p, arg) ==
    /\ IF arg.io = "demux" THEN give(p, Given) ELSE UNCHANGED <<source, aborted>>
    /\ asked' = None
    /\ Made(c)
    /\ UNCHANGED <<started, session>>

open(c) ==
    /\ Calls(c, "open") /\ ~Locked
    /\ LET arg == Next1(c)
           over == TakesOver(c)
           p == WithDemux(IF over THEN Forgotten(param) ELSE param, arg) IN
       IF ~service
       THEN Made(c) /\ asked' = None /\ UNCHANGED <<param, started, source, session, opened, aborted>>
       ELSE /\ param' = p
            /\ opened' = [called |-> TRUE, middleware |-> c \in Native]
            /\ IF started /\ ~over THEN refuse(c, p, arg) ELSE start(c, p, arg)
    /\ UNCHANGED <<handles, service, count>>

\* The rest of startSubtitle(), while run() may already tick.
configure(c) ==
    /\ Calls(c, "configure")
    /\ session' = IF isValidDtvParams(param) \/ param.dtv <= 0
                  THEN setParameter(session, param) ELSE session
    /\ Made(c) /\ Told(c) /\ Same
    /\ UNCHANGED <<service, param, started, source, aborted>>

close(c) ==
    /\ Calls(c, "close") /\ ~Locked
    /\ IF service /\ started
       THEN /\ started' = FALSE /\ source' = None /\ session' = None
            /\ param' = Forgotten(param)
            /\ asked' = IF asked # None /\ (asked.accepted \/ asked.by # c) THEN None ELSE asked
       ELSE Told(c) /\ UNCHANGED <<started, source, session, param>>
    /\ opened' = IF service THEN [opened EXCEPT !.called = FALSE] ELSE opened
    /\ Made(c)
    /\ UNCHANGED <<handles, service, count, aborted>>

\* closeConnection(): the service goes, with any session of any client.
closeConnection(c) ==
    /\ Calls(c, "closeConnection") /\ ~Locked
    /\ service' = FALSE /\ param' = NewParam /\ started' = FALSE
    /\ source' = None /\ session' = None /\ asked' = None
    /\ handles' = handles \ {c}
    /\ Made(c)
    /\ UNCHANGED <<opened, count, aborted>>

-----------------------------------------------------------------------------
(* The clients.                                                            *)

Idle(c) == ~aborted /\ call[c] = <<>> /\ count < MaxAsked
Asks(c, script) ==
    /\ count' = count + 1
    /\ call' = [call EXCEPT ![c] = script]
    /\ UNCHANGED <<handles, service, param, started, source, session, opened, aborted>>
NewClaim(c, r) == asked' = [by |-> c, request |-> r, accepted |-> FALSE]
Valid(c) == Idle(c) /\ c \in handles

\* amlsub_Create(): openConnection() takes the place of any service there is.
amlsub_Create(c) ==
    /\ Idle(c) /\ c \notin handles /\ ~Locked
    /\ handles' = handles \cup {c}
    /\ service' = TRUE /\ param' = NewParam /\ started' = FALSE
    /\ source' = None /\ session' = None /\ asked' = None
    /\ count' = count + 1
    /\ UNCHANGED <<opened, call, aborted>>

amlsub_Destroy(c) ==
    /\ Valid(c)
    /\ Asks(c, <<Op("close", 0), Op("closeConnection", 0)>>)
    /\ UNCHANGED asked

amlsub_Open(c, r) ==
    /\ Valid(c) /\ c \in Native
    /\ Asks(c, <<Op("setSubType", mapApiType2SubtitleType(r.type)), Op("setSubPid", r.pid),
                 Op("setSecureLevel", r.flag), Op("setChannelId", r.channel),
                 Op("setPageId", 0), Op("setPageId", 0), Open(r.io, r.dmx)>>)
    /\ NewClaim(c, r)

amlsub_Close(c) == Valid(c) /\ c \in Native /\ Asks(c, <<Op("close", 0)>>) /\ UNCHANGED asked

amlsub_SetPip(c) == Valid(c) /\ c \in Native /\ Asks(c, <<Op("setPipId", 1)>>) /\ UNCHANGED asked

amlsub_TeletextControl(c) ==
    Valid(c) /\ c \in Native /\ Asks(c, <<Op("ttControl", 0)>>) /\ UNCHANGED asked

\* "CC do not care io type"
ByChannel(ch) == [type |-> "CC", pid |-> 0, flag |-> 0, channel |-> ch, dmx |-> 0, io |-> "fmq"]
selectCcChannel(c, ch) ==
    /\ Valid(c) /\ c \in Native
    /\ Asks(c, <<Op("close", 0), Op("setChannelId", ch), Op("setSubType", 2),
                 Open("fmq", 0)>>)
    /\ NewClaim(c, ByChannel(ch))

\* The calls of an application, in any order.
appCalls(c) ==
    /\ Valid(c) /\ c \in Apps
    /\ \E x \in AppCalls : Asks(c, <<x>>)
    /\ UNCHANGED asked

Operation(c) ==
    \/ amlsub_Create(c) \/ amlsub_Destroy(c) \/ amlsub_Close(c) \/ amlsub_SetPip(c)
    \/ amlsub_TeletextControl(c) \/ selectCcChannel(c, 1) \/ appCalls(c)
    \/ \E r \in Requests : amlsub_Open(c, r)
Server(c) ==
    \/ setSubType(c) \/ setSubPid(c) \/ setSecureLevel(c) \/ setChannelId(c) \/ setSubPageId(c)
    \/ setPipId(c) \/ ttControl(c) \/ open(c) \/ configure(c) \/ close(c) \/ closeConnection(c)

Next ==
    \/ \E c \in Users : Operation(c) \/ Server(c)
    \/ ~aborted /\ (tick \/ \E t \in Spoken : announce(t))

Spec == Init /\ [][Next]_pvars

-----------------------------------------------------------------------------
(* Properties.                                                             *)

\* The source filters what was asked for, if it could be opened.
SourceAsAsked(r) ==
    r.io = "demux" /\ r.type \in Broadcast =>
        LET to == [demuxId |-> r.dmx, pid |-> r.pid, flag |-> r.flag] IN
        /\ source.type = r.type /\ source.to = to
        /\ source.filter \in {None, [type |-> r.type, to |-> to]}

\* So does the parser, unless the stream has announced something else.
ParserAsAsked(r) ==
    /\ r.io = "demux" \/ session.current = Invalid
    /\ session.pending = "none" /\ session.parser # None
    => /\ session.parser.type = r.type
       /\ r.type = "CC" => session.parser.channel = r.channel

\* A native client whose open() was accepted has what it asked for until it or another
\* client asks for something else: neither what earlier sessions left in mSubParam, nor the
\* order of the calls, nor a teletext command or a change of the media id, nor the
\* tick that run() makes in between gives it the pid, the demux, the type or the channel of
\* another request (SubtitleNativeAPI.cpp:297-321, SubtitleService.cpp:119-154, 529-530).
RequestServed ==
    asked # None /\ asked.accepted /\ ~aborted =>
        SourceAsAsked(asked.request) /\ ParserAsAsked(asked.request)
=============================================================================
