---------------------------- MODULE StreamParser ----------------------------
(***************************************************************************)
(* How a decoder reads its stream: the search for a packet and the reads   *)
(* of hwDemuxParse, softDemuxParse and atvHwDemuxParse, the thread that    *)
(* announces whether there are subtitles (callbackProcess), and their end. *)
(* One module for six decoders: DvbParser, TtmlParser, SmpteTtmlParser,    *)
(* AribB24Parser, PgsParser and TeletextParser read alike and differ in    *)
(* details, which are the cases below.                                     *)
(*                                                                         *)
(* The stream is a sequence of packets and the reader's position in it is  *)
(* counted in bytes: what matters is where a read ends.  The start code of *)
(* a packet occurs nowhere inside another.  Packets come through           *)
(* DemuxSource ("hw", PES packets that may have lost bytes of their        *)
(* payload) or through SocketSource ("soft", and "atv" lines, whole).      *)
(***************************************************************************)
EXTENDS Integers, Sequences, FiniteSetsExt, SequencesExt

CONSTANTS Decoders,        \* the decoders to look at
          Packets,         \* the packets of a stream
          MaxPackets       \* bound: length of a stream

Frames == {"item", "blank", "bad"}     \* what decoding a payload gives

\* A packet is [kind, len, hdr, tag, zero, miss, frame]: kind "hw", "soft" or "atv", len the
\* length field, hdr the length of the optional PES header, tag whether it has a pts, zero
\* whether that is 0, miss how many bytes of the payload of an "hw" packet are lost.

VARIABLES decoder, stream,
          arrived,               \* packets the source has
          sourceOn,              \* the source's mState is E_SOURCE_STARTED
          mState, mThreadExitRequested,
          reader,                \* "begin", "starting", "seek", "parse", "ended"
          pos,                   \* bytes read
          at,                    \* the packet whose start code was seen last
          decoded,               \* history: packets whose items were added
          closer,                \* "run", "joining", "waking", "ended"
          mPendingAction,
          announcer,             \* the timeout thread: "top", "wait", "woken", "ended"
          signal                 \* what it told last: "unspec", "no", "has"

readerVars == <<reader, pos, at, decoded, mState>>
announcerVars == <<announcer, signal>>
closerVars == <<closer, mThreadExitRequested>>
streamVars == <<decoder, stream, arrived, sourceOn, readerVars, announcerVars, closerVars,
                mPendingAction>>

-----------------------------------------------------------------------------
(* What the decoders do in their own way.  Of each way of parsing:         *)
(*   needsPts  a packet without a pts is skipped, one whose pts is 0 is    *)
(*             left, and an empty one;                                     *)
(*   first     bytes of the payload that are read before the others;       *)
(*   adds      the outcomes of the decoding after which an item is added;  *)
(*   wakes     those after which the announcer is woken.                   *)

Way(needsPts, first, adds, wakes) ==
    [needsPts |-> needsPts, first |-> first, adds |-> adds, wakes |-> wakes]

\* TtmlDecodeFrame and SmpteTtmlDecodeFrame add the items themselves.
dvb_hwDemuxParse    == Way(TRUE, 2, {"item", "blank"}, {"item", "blank"})
ttml_hwDemuxParse   == Way(FALSE, 0, {"item"}, {})
smpte_hwDemuxParse  == Way(FALSE, 0, {"item"}, {})
arib_hwDemuxParse   == Way(FALSE, 0, {"item"}, {"item"})
pgs_hwDemuxParser   == Way(TRUE, 0, {"item"}, {})
teletext_hwDemuxParse == Way(FALSE, 0, {"item"}, {})
hwDemuxParse == [dvb |-> dvb_hwDemuxParse, ttml |-> ttml_hwDemuxParse,
                 smpte |-> smpte_hwDemuxParse, arib |-> arib_hwDemuxParse,
                 pgs |-> pgs_hwDemuxParser, teletext |-> teletext_hwDemuxParse]

dvb_softDemuxParse   == Way(FALSE, 0, {"item"}, {"item"})
ttml_softDemuxParse  == Way(FALSE, 0, {"item"}, {"item", "blank"})
smpte_softDemuxParse == Way(FALSE, 0, {"item"}, {"item", "blank"})
arib_softDemuxParse  == Way(FALSE, 0, {"item"}, {"item"})
pgs_softDemuxParser  == Way(TRUE, 0, {"item"}, {})
teletext_softDemuxParse == Way(FALSE, 0, {"item"}, {})
softDemuxParse == [dvb |-> dvb_softDemuxParse, ttml |-> ttml_softDemuxParse,
                   smpte |-> smpte_softDemuxParse, arib |-> arib_softDemuxParse,
                   pgs |-> pgs_softDemuxParser, teletext |-> teletext_softDemuxParse]

\* DVB and PGS have none.
ttml_atvHwDemuxParse     == Way(FALSE, 0, {"item"}, {})
smpte_atvHwDemuxParse    == Way(FALSE, 0, {"item"}, {})
arib_atvHwDemuxParse     == Way(FALSE, 0, {"item"}, {})
teletext_atvHwDemuxParse == Way(FALSE, 0, {"item"}, {})
atvHwDemuxParse == [ttml |-> ttml_atvHwDemuxParse, smpte |-> smpte_atvHwDemuxParse,
                    arib |-> arib_atvHwDemuxParse, teletext |-> teletext_atvHwDemuxParse]

WayOf(p) == CASE p.kind = "hw"   -> hwDemuxParse[decoder]
              [] p.kind = "soft" -> softDemuxParse[decoder]
              [] p.kind = "atv"  -> atvHwDemuxParse[decoder]

\* Whether the search for a packet returns after each, or goes on till a read fails.
getDvbSpu == "one"
readDataSource == "one"
getTTMLSpu == "all"
getSmpteTTMLSpu == "all"
getAribB24Spu == "all"
getDvbTeletextSpu == "all"
Searches == [dvb |-> getDvbSpu, pgs |-> readDataSource, ttml |-> getTTMLSpu,
             smpte |-> getSmpteTTMLSpu, arib |-> getAribB24Spu, teletext |-> getDvbTeletextSpu]
ReturnsEach == Searches[decoder] = "one"

OneSource(s) == \/ \A p \in ToSet(s) : p.kind = "hw"
                \/ \A p \in ToSet(s) : p.kind # "hw"
Reads(d, p) == p.kind = "atv" => d \in DOMAIN atvHwDemuxParse
Announces(d) == d \notin {"pgs", "teletext"}

Init ==
    /\ decoder \in Decoders
    /\ stream \in {s \in UNION {[1..n -> Packets] : n \in 1..MaxPackets} : OneSource(s)}
    /\ \A p \in ToSet(stream) : Reads(decoder, p)
    /\ arrived = 0 /\ sourceOn = TRUE
    /\ mState = "INIT" /\ mThreadExitRequested = FALSE
    /\ reader = "begin" /\ pos = 0 /\ at = 0 /\ decoded = <<>>
    /\ closer = "run" /\ mPendingAction = -1
    /\ announcer = IF Announces(decoder) THEN "top" ELSE "ended"
    /\ signal = "unspec"

-----------------------------------------------------------------------------
(* Bytes.                                                                  *)

SyncBytes(p) == IF p.kind = "hw" THEN 4 ELSE 5
HeaderBytes(p) == CASE p.kind = "hw" -> 2 [] p.kind = "soft" -> 19 [] p.kind = "atv" -> 4
Bytes(p) == SyncBytes(p) + HeaderBytes(p) + p.len - p.miss

Start(i) == FoldLeft(LAMBDA n, p : n + Bytes(p), 0, SubSeq(stream, 1, i - 1))
ArrivedBytes == Start(arrived + 1)
Body(i) == Start(i) + SyncBytes(stream[i]) + HeaderBytes(stream[i])

\* DemuxSource::read ends at a PES start code that begins in the bytes it takes, with
\* at least five of them from there on (Segment.h, read_check); shorter reads do not.
Cuts(from, n) == {Start(i) : i \in {j \in 1..arrived : /\ stream[j].kind = "hw"
                                                        /\ Start(j) \in from..(from + n - 5)}}
ReadEnd(from, n) == IF Cuts(from, n) = {} THEN from + n ELSE Min(Cuts(from, n))
ReadAll(from, n) == ReadEnd(from, n) = from + n

-----------------------------------------------------------------------------
(* hwDemuxParse: which bytes are the payload, and where the reads end.     *)

Malformed(p) == p.len < 3 \/ p.len - 3 < p.hdr
RestWithHeader(p) == p.len - 3
Rest(p) == p.len - 3 - p.hdr
Payload(i) == Body(i) + 3 + stream[i].hdr

\* The cases of a packet, in the order of the code.
Skips(p) == Malformed(p) \/ (WayOf(p).needsPts /\ ~p.tag)
Leaves(p) == (WayOf(p).needsPts /\ p.zero) \/ Rest(p) <= 0
First(p) == WayOf(p).first
\* PGS wants as many bytes waiting behind the packet at hand.
LacksData(i) == /\ decoder = "pgs"
                /\ mState = "STOP" \/ ArrivedBytes - Start(i + 1) < Rest(stream[i])

SkipEnd(i) ==
    IF decoder = "pgs" /\ Malformed(stream[i])
    THEN Body(i) + (IF stream[i].len < 3 THEN 0 ELSE 3)
    ELSE Body(i) + stream[i].len

hwEnd(i) ==
    LET p == stream[i]
    IN  IF Skips(p) THEN SkipEnd(i)
        ELSE IF Leaves(p) \/ LacksData(i) THEN Payload(i)
        ELSE IF Rest(p) < First(p) THEN Payload(i) + First(p)
        ELSE ReadEnd(Payload(i) + First(p), Rest(p) - First(p))
hwDecodes(i) ==
    LET p == stream[i]
    IN  /\ ~Skips(p) /\ ~Leaves(p) /\ ~LacksData(i) /\ Rest(p) >= First(p)
        /\ ReadAll(Payload(i) + First(p), Rest(p) - First(p))

\* softDemuxParse and atvHwDemuxParse decode whatever they have read.
softDecodes(i) == ~(WayOf(stream[i]).needsPts /\ stream[i].zero)
softEnd(i) == IF softDecodes(i) THEN Body(i) + stream[i].len ELSE Body(i)

ParseEnd(i) == IF stream[i].kind = "hw" THEN hwEnd(i) ELSE softEnd(i)
ParseDecodes(i) == IF stream[i].kind = "hw" THEN hwDecodes(i) ELSE softDecodes(i)

\* Teletext takes all between two start codes for the packet: getDvbTeletextSpu.
Gathers(i) == decoder = "teletext" /\ stream[i].kind = "hw"
GatherDecodes(i) == i > 0 /\ ~Malformed(stream[i]) /\ Rest(stream[i]) > 0

\* A payload with bytes of other packets, or zeros, in it may decode to anything.
Outcomes(p) == IF p.miss = 0 THEN {p.frame} ELSE Frames

Decode(i, frame) ==
    /\ decoded' = IF frame \in WayOf(stream[i]).adds /\ mState # "STOP"
                  THEN Append(decoded, i) ELSE decoded
    /\ IF frame \in WayOf(stream[i]).wakes
       THEN /\ mPendingAction' = 1
            /\ announcer' = IF announcer = "wait" THEN "woken" ELSE announcer
       ELSE UNCHANGED <<mPendingAction, announcer>>
DecodeNothing == UNCHANGED <<decoded, mPendingAction, announcer>>

-----------------------------------------------------------------------------
(* The reading thread: Parser::_parserEntry, parse.                        *)

\* getSpu: mState is tested here and written in the next step, without mMutex.
getSpu ==
    /\ reader = "begin"
    /\ reader' = IF mThreadExitRequested THEN "ended"
                 ELSE IF mState = "INIT" \/ decoder = "pgs" THEN "starting"
                 ELSE IF mState = "STOP" THEN "begin" ELSE "seek"
    /\ UNCHANGED <<decoder, stream, arrived, sourceOn, pos, at, decoded, mState, announcerVars,
                   closerVars, mPendingAction>>

setPlaying ==
    /\ reader = "starting"
    /\ mState' = "PLAYING" /\ reader' = "seek"
    /\ UNCHANGED <<decoder, stream, arrived, sourceOn, pos, at, decoded, announcerVars,
                   closerVars, mPendingAction>>

\* A call of the reading function starts with an empty shift register: it stands for
\* the two zeros of a PES start code.  Some are called for each packet.
Spare(i) == IF ReturnsEach /\ stream[i].kind = "hw" THEN 2 ELSE 0
Ahead == {i \in 1..arrived : Start(i) + Spare(i) >= pos}

\* The byte-wise search: a start code is found, ...
findPacket ==
    /\ reader = "seek" /\ sourceOn /\ mState # "STOP" /\ Ahead # {}
    /\ reader' = "parse"
    /\ at' = Min(Ahead) /\ pos' = Start(Min(Ahead)) + SyncBytes(stream[Min(Ahead)])
    /\ UNCHANGED <<decoder, stream, arrived, sourceOn, decoded, mState, announcerVars,
                   closerVars, mPendingAction>>
\* ... or a byte is read and the parser is to stop, or the source has stopped.
stopSearching ==
    /\ reader = "seek"
    /\ \/ ~sourceOn /\ pos' = pos
       \/ mState = "STOP" /\ ArrivedBytes > pos /\ pos' = pos + 1
    /\ reader' = "begin"
    /\ UNCHANGED <<decoder, stream, arrived, sourceOn, at, decoded, mState, announcerVars,
                   closerVars, mPendingAction>>

Returns == reader' = IF ReturnsEach THEN "begin" ELSE "seek"

\* The packet is read and decoded, as soon as the source has what is read.
parsePacket ==
    /\ reader = "parse" /\ sourceOn /\ ~Gathers(at)
    /\ ArrivedBytes >= ParseEnd(at)
    /\ pos' = ParseEnd(at)
    /\ IF ParseDecodes(at) THEN \E f \in Outcomes(stream[at]) : Decode(at, f)
                           ELSE DecodeNothing
    /\ Returns
    /\ UNCHANGED <<decoder, stream, arrived, sourceOn, at, mState, signal, closerVars>>

\* The source stops in the middle: the soft and atv packets are decoded all the same.
parseCutOff ==
    /\ reader = "parse" /\ ~sourceOn /\ ~Gathers(at)
    /\ pos' = pos
    /\ \/ DecodeNothing
       \/ stream[at].kind # "hw" /\ decoder # "pgs" /\ \E f \in Frames : Decode(at, f)
    /\ Returns
    /\ UNCHANGED <<decoder, stream, arrived, sourceOn, at, mState, signal, closerVars>>

\* A teletext packet is decoded when the start code of the next one has come.
parseGathered ==
    /\ reader = "parse" /\ Gathers(at)
    /\ IF GatherDecodes(at - 1) THEN \E f \in Outcomes(stream[at - 1]) : Decode(at - 1, f)
                                ELSE DecodeNothing
    /\ Returns
    /\ UNCHANGED <<decoder, stream, arrived, sourceOn, pos, at, mState, signal, closerVars>>

-----------------------------------------------------------------------------
(* The announcer: callbackProcess.                                         *)

\* The request to exit is tested without the mutex the wake-up is sent under.
waitForSignal ==
    /\ announcer = "top"
    /\ announcer' = IF mThreadExitRequested THEN "ended" ELSE "wait"
    /\ UNCHANGED <<decoder, stream, arrived, sourceOn, readerVars, signal, closerVars,
                   mPendingAction>>

\* wait_for comes back after 60 s, whatever happens.
WaitsForSignal == FALSE
Elapses == TRUE
timeOut ==
    /\ announcer = "wait" /\ Elapses
    /\ announcer' = "woken"
    /\ UNCHANGED <<decoder, stream, arrived, sourceOn, readerVars, signal, closerVars,
                   mPendingAction>>

tell ==
    /\ announcer = "woken"
    /\ announcer' = "top"
    /\ signal' = IF mPendingAction = 1 THEN "has" ELSE "no"
    /\ mPendingAction' = -1
    /\ UNCHANGED <<decoder, stream, arrived, sourceOn, readerVars, closerVars>>

-----------------------------------------------------------------------------
(* The source, and the end.                                                *)

arrive ==
    /\ sourceOn /\ arrived < Len(stream)
    /\ arrived' = arrived + 1
    /\ UNCHANGED <<decoder, stream, sourceOn, readerVars, announcerVars, closerVars,
                   mPendingAction>>

\* ~Subtitle stops the source before the parser; a change of the type does not.
stopSource ==
    /\ sourceOn
    /\ sourceOn' = FALSE
    /\ UNCHANGED <<decoder, stream, arrived, readerVars, announcerVars, closerVars,
                   mPendingAction>>

stopParser ==
    /\ closer = "run"
    /\ closer' = "joining"
    /\ mState' = "STOP" /\ mThreadExitRequested' = TRUE
    /\ UNCHANGED <<decoder, stream, arrived, sourceOn, reader, pos, at, decoded, announcerVars,
                   mPendingAction>>

\* The destructor, once the reader is joined: wakeup! we are exiting...
wakeAnnouncer ==
    /\ closer = "joining" /\ reader = "ended"
    /\ closer' = "waking"
    /\ mPendingAction' = 1
    /\ announcer' = IF announcer = "wait" THEN "woken" ELSE announcer
    /\ UNCHANGED <<decoder, stream, arrived, sourceOn, readerVars, signal, mThreadExitRequested>>

joinAnnouncer ==
    /\ closer = "waking" /\ announcer = "ended"
    /\ closer' = "ended"
    /\ UNCHANGED <<decoder, stream, arrived, sourceOn, readerVars, announcerVars,
                   mThreadExitRequested, mPendingAction>>

Parse == parsePacket \/ parseCutOff \/ parseGathered
Reader == getSpu \/ setPlaying \/ findPacket \/ stopSearching \/ Parse
Announcer == waitForSignal \/ timeOut \/ tell
Closer == wakeAnnouncer \/ joinAnnouncer

Next == Reader \/ Announcer \/ arrive \/ stopSource \/ stopParser \/ Closer

\* The threads run; whether packets come, and when the parser is closed, is open.
Fairness == WF_streamVars(Reader) /\ WF_streamVars(Announcer) /\ WF_streamVars(Closer)

-----------------------------------------------------------------------------
(* Safety.                                                                 *)

\* A packet that is whole and of use to the decoder.
Plain(p) ==
    /\ p.frame = "item" /\ p.miss = 0
    /\ p.kind = "hw" => ~Skips(p) /\ ~Leaves(p) /\ Rest(p) >= First(p)
    /\ decoder = "pgs" => p.kind = "soft" /\ ~p.zero
\* A packet that does not make the reader run over the start code of the next one:
\* the loss is long enough to be seen behind the bytes that are always read, or so
\* short that the shift register makes up for it.
InBounds(p) ==
    \/ p.miss = 0 \/ Gathers(at) \/ Leaves(p)
    \/ p.miss >= 5 /\ Rest(p) - p.miss >= First(p)
    \/ ReturnsEach /\ p.miss <= 2

\* The reader is behind packet i: of teletext it has the packet behind it, too.
Passed(i) == at > i + 1 \/ (reader # "parse" /\ IF Gathers(i) THEN at > i ELSE at >= i)

\* The reader never falls out of step: items are added in the order of their packets,
\* each once, and a packet that is malformed, without a pts, empty or cut short costs
\* at most itself and the next one (TtmlParser.cpp:398-515, DvbParser.cpp:1678-1813).
InStep ==
    /\ \A k \in 2..Len(decoded) : decoded[k - 1] < decoded[k]
    /\ sourceOn /\ closer = "run" =>
          \A i \in DOMAIN stream :
              Passed(i) /\ Plain(stream[i]) /\ (i > 1 => InBounds(stream[i - 1]))
              => i \in ToSet(decoded)

-----------------------------------------------------------------------------
(* Liveness, under Fairness.                                               *)

\* What was decoded is announced, though the wake-up is lost when the announcer is
\* not waiting, and an announcer that has said "no" says "has" again
\* (DvbParser.cpp:1873-1907).
IsAnnounced == mPendingAction = 1 ~> (signal = "has" \/ mThreadExitRequested)

\* Once the source has stopped the parser can be closed, though mState may be set back
\* to playing by a getSpu that is under way and the announcer may miss its wake-up
\* (DvbParser.cpp:1909-1917 and 935-968).
Closed == (closer = "joining" /\ ~sourceOn) ~> closer = "ended"
=============================================================================
