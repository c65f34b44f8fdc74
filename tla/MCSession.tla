----------------------------- MODULE MCSession -----------------------------
(* The session (Subtitle), and below it a decoder that reads its stream       *)
(* (StreamParser): "steps" is the reading alone, on streams of three packets, *)
(* "serve" the decoder with its announcer and its end, on short ones.  A      *)
(* behaviour chooses one part at the start and the others stay as they are.   *)
EXTENDS Subtitle

VARIABLES part,
          decoder, stream, arrived, sourceOn, readState, mThreadExitRequested, reader, pos, at,
          decoded, closer, announcement, announcer, signal

\* The packets of a stream: PES packets, some of them malformed or cut short, and those
\* of the players.
Packet(kind, len, hdr) == [kind |-> kind, len |-> len, hdr |-> hdr, tag |-> hdr > 0,
                           zero |-> FALSE, miss |-> 0, frame |-> "item"]
Good == Packet("hw", 16, 5)
Lost(n) == [Good EXCEPT !.miss = n]
Line == Packet("soft", 8, 0)
Bad(p) == [p EXCEPT !.frame = "bad"]
MCPackets == {Good, Lost(6), Lost(2), Lost(3), [Good EXCEPT !.zero = TRUE],
              Packet("hw", 9, 5), Packet("hw", 6, 9), Packet("hw", 11, 0),
              Line, Bad(Line), Packet("atv", 42, 0)}

Stream == INSTANCE StreamParser WITH
    Decoders <- {"dvb", "ttml", "smpte", "arib", "pgs", "teletext"},
    Packets <- MCPackets, MaxPackets <- 3,
    mState <- readState, mPendingAction <- announcement

strm == <<decoder, stream, arrived, sourceOn, readState, mThreadExitRequested, reader, pos, at,
          decoded, closer, announcement, announcer, signal>>

\* Three packets, the last of which is in order: it shows what the others cost.
Steps == Len(stream) = 3 /\ stream[3] \in {Good, Line}
Short == Len(stream) = 1 \/ stream = <<Good, Good>> \/ stream = <<Line, Line>>

MCInit ==
    /\ part \in {"session", "steps", "serve"}
    /\ Init /\ Stream!Init
    /\ part = "steps" => Steps
    /\ part = "serve" => Short
    /\ part = "session" => decoder = "pgs" /\ stream = <<Line>>

Stepping == part = "steps" /\ (Stream!Reader \/ Stream!arrive)
Serving == part = "serve" /\ Stream!Next

MCNext ==
    /\ UNCHANGED part
    /\ \/ part = "session" /\ Next /\ UNCHANGED strm
       \/ (Stepping \/ Serving) /\ UNCHANGED vars

all == <<part, vars, strm>>
InSession(A) == part = "session" /\ A
InServe(A) == part = "serve" /\ A /\ UNCHANGED <<part, vars>>

\* Subtitle!FairSpec and StreamParser!Fairness, each in its part.
MCSpec ==
    /\ MCInit /\ [][MCNext]_all
    /\ WF_all(InSession(RunThread) /\ UNCHANGED <<part, strm>>)
    /\ WF_all(InSession(\E k \in DOMAIN parsers : ParserThread(k)) /\ UNCHANGED <<part, strm>>)
    /\ WF_all(InSession(Delivery) /\ UNCHANGED <<part, strm>>)
    /\ WF_all(InSession(Starting) /\ UNCHANGED <<part, strm>>)
    /\ WF_all(InSession(Stopping) /\ UNCHANGED <<part, strm>>)
    /\ WF_all(InServe(Stream!Reader)) /\ WF_all(InServe(Stream!Announcer))
    /\ WF_all(InServe(Stream!Closer))

\* StreamParser.InStep: a packet that is not in order costs at most itself and the next.
InStep == Stream!InStep
\* StreamParser.IsAnnounced and Closed: what is decoded is announced, and a parser whose
\* source has stopped can be closed.
StreamServed == part = "serve" => Stream!IsAnnounced /\ Stream!Closed
=============================================================================
