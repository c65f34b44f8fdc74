----------------------------- MODULE MCFormats -----------------------------
(* The session (Subtitle), and the reading of what it may be given: "files"  *)
(* is the decoding of whole text files in each of the formats (TextFormats,   *)
(* on the files of TextFiles), "lines" the cutting of a file into lines        *)
(* (LineReader), "vobsub" a pair of an index and a file of pictures (VobSub)   *)
(* and "dvd" the subpicture units of a stream (DvdParser), both on the         *)
(* pictures of PictureFiles, "scte27" the messages of a cable stream           *)
(* (Scte27Parser, on those of PictureFiles) and "ass" text in packets          *)
(* (AssParser, on those of TextFiles).  A behaviour chooses one part at the    *)
(* start and the others stay as they are.                                     *)
EXTENDS Subtitle, Integers

VARIABLES part,
          file, format, at, kept, mPtsRate, mPosition, subtitles, loaded, mDecodedSpu, shown,
          mEncoding, data, first, fd, mBuffer, mBufferReadOffset, mLastLineLen, line, done,
          pair, mIdxSubTrackId, mVobsubId, mSelectedTrackId, pos, asked,
          stream, sent, cut, source, mRestLen, cutUnits, posted,
          broadcast, due, faults, mContext, heard, items, behind

Layout == INSTANCE TextFiles

\* One item waits at most: the presentation takes it while the parser goes on.
Text == INSTANCE TextFormats WITH
    Files <- Layout!AllFiles(2), MAX_DETECT <- 100, MaxSpuItems <- 1

\* Files of up to four characters in each encoding, and blocks of seven bytes: every
\* character and every mark is cut somewhere.
Reader == INSTANCE LineReader WITH
    Encodings <- {"NONE", "UTF8", "UTF16", "UTF16BE"}, LINE_LEN <- 7,
    Units <- {"c", "l", "0d", "eol"}, MaxUnits <- 4

Discs == INSTANCE PictureFiles
Pairs == Discs!AllPairs
DvdUnits == Discs!DvdUnits

\* One item waits at most here too.
Vob == INSTANCE VobSub WITH Tracks <- {-1, 0, 1}, Fills <- {0, 255}, MaxSpuItems <- 1

\* Units are cut within each header, at the least that is looked at, and within the data of
\* a second piece.
Dvd == INSTANCE DvdParser WITH Units <- DvdUnits, MaxUnits <- 3, Cuts <- {1, 25, 31, 45, 70}

\* Two messages, of which two sections are lost or come again.
Broadcasts == Discs!Broadcasts
Cable == INSTANCE Scte27Parser WITH MaxFaults <- 2

\* Packets are cut before and behind the least that is looked at, and two may wait.
Packets == Layout!Packets
Ass == INSTANCE AssParser WITH MaxPackets <- 3, Cuts <- {10, 23, 24, 26}, MaxWaiting <- 40

txt == <<file, format, at, kept, mPtsRate, mPosition, subtitles, loaded, mDecodedSpu, shown>>
rdr == <<mEncoding, data, first, fd, mBuffer, mBufferReadOffset, mLastLineLen, line, done>>
vob == <<pair, mIdxSubTrackId, mVobsubId, mSelectedTrackId, pos, asked>>
dvd == <<stream, sent, cut, source, mRestLen, cutUnits, posted>>
rest == <<broadcast, due, faults, mContext, heard, items, behind>>

\* The other parts start with nothing to do.
NoFile == at = 1 /\ subtitles = <<>> /\ loaded = FALSE /\ mDecodedSpu = <<>> /\ shown = <<>>
NoText == file = [cues |-> <<>>, lines |-> <<>>, ended |-> TRUE] /\ format = "none"
          /\ kept = 0 /\ mPtsRate = 24 /\ mPosition = 0
NoLines == mEncoding = "NONE" /\ data = <<>> /\ first = 0 /\ fd = 0 /\ mBuffer = <<>>
           /\ mBufferReadOffset = 0 /\ mLastLineLen = 0 /\ line = <<>> /\ done = <<>>
NoPair == pair = <<>> /\ mIdxSubTrackId = -1 /\ mVobsubId = 0 /\ mSelectedTrackId = -1
          /\ pos = 1 /\ asked = -1
NoUnits == stream = <<>> /\ sent = 0 /\ cut = 0 /\ source = <<>> /\ posted = <<>>
NoSpu == mRestLen = 0 /\ cutUnits = {}
NoMessages == broadcast = <<>> /\ due = <<>> /\ faults = 0 /\ mContext = <<>>
              /\ heard = <<>> /\ items = <<>>
NoEvents == behind = {}
Nothing == /\ Init /\ NoFile /\ NoText /\ NoLines /\ NoPair /\ NoUnits /\ NoSpu /\ NoMessages
           /\ NoEvents

MCInit ==
    \/ part = "session" /\ Nothing
    \/ part = "files" /\ Text!Init /\ Init /\ mIsExtSub
       /\ NoLines /\ NoPair /\ NoUnits /\ NoSpu /\ NoMessages /\ NoEvents
    \/ part = "lines" /\ Reader!Init /\ Init /\ mIsExtSub
       /\ NoFile /\ NoText /\ NoPair /\ NoUnits /\ NoSpu /\ NoMessages /\ NoEvents
    \/ part = "vobsub" /\ Vob!Init /\ Init /\ mIsExtSub
       /\ NoText /\ NoLines /\ NoUnits /\ NoSpu /\ NoMessages /\ NoEvents
    \/ part = "dvd" /\ Dvd!Init /\ Init /\ ~mIsExtSub
       /\ NoFile /\ NoText /\ NoLines /\ NoPair /\ NoMessages /\ NoEvents
    \/ part = "scte27" /\ Cable!Init /\ Init /\ ~mIsExtSub
       /\ NoFile /\ NoText /\ NoLines /\ NoPair /\ NoUnits /\ NoSpu /\ NoEvents
    \/ part = "ass" /\ Ass!Init /\ Init /\ ~mIsExtSub
       /\ NoFile /\ NoText /\ NoLines /\ NoPair /\ NoSpu /\ NoMessages

MCNext ==
    \/ part = "session" /\ Next /\ UNCHANGED <<part, txt, rdr, vob, dvd, rest>>
    \/ part = "files" /\ Text!Next /\ UNCHANGED <<part, vars, rdr, vob, dvd, rest>>
    \/ part = "lines" /\ Reader!Next /\ UNCHANGED <<part, vars, txt, vob, dvd, rest>>
    \/ part = "vobsub" /\ Vob!Next
       /\ UNCHANGED <<part, vars, file, format, kept, mPtsRate, mPosition, rdr, dvd, rest>>
    \/ part = "dvd" /\ Dvd!Next /\ UNCHANGED <<part, vars, txt, rdr, vob, rest>>
    \/ part = "scte27" /\ Cable!Next /\ UNCHANGED <<part, vars, txt, rdr, vob, dvd, behind>>
    \/ part = "ass" /\ Ass!Next
       /\ UNCHANGED <<part, vars, txt, rdr, vob, mRestLen, cutUnits, broadcast, due, faults,
                      mContext, heard, items>>

MCSpec == MCInit /\ [][MCNext]_<<part, vars, txt, rdr, vob, dvd, rest>>

\* What a text file says is shown, whole and in order: its lines are read as they stand in it
\* (LineReader.LinesRead), and make its cues (TextFormats.CuesShown).
CuesShown == /\ part = "files" => Text!CuesShown
             /\ part = "lines" => Reader!LinesRead
\* The pictures of a pair of files (VobSub.PicturesShown), of a disc (DvdParser.UnitsPosted)
\* and of a cable stream (Scte27Parser.MessagesPosted) are its pictures, once and in order.
PicturesShown == /\ part = "vobsub" => Vob!PicturesShown
                 /\ part = "dvd" => Dvd!UnitsPosted
                 /\ part = "scte27" => Cable!MessagesPosted
\* AssParser.EventsPosted: the texts of a stream are posted with their words and times.
EventsPosted == part = "ass" => Ass!EventsPosted
=============================================================================
