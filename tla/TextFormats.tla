---------------------------- MODULE TextFormats ----------------------------
(* External subtitle files (ExtSubFactory, TextSubtitle and the formats of    *)
(* parser/ExtParser): the format is told from the first lines, the whole file *)
(* is decoded when ExtParser is made, and the parser thread then hands the    *)
(* items out one by one.  A line is a record of what the scans of the code    *)
(* find in it:                                                                *)
(*   kind "time"   it opens an item: the times at, to (0 if there is none)    *)
(*                 and the text on the same line, split at '|'                *)
(*   kind "stop"   a time alone                                               *)
(*   kind "text", "space" (blanks only), "empty", "hash" (first character #)  *)
(*   kind "para"   a paragraph element of an XML file                         *)
(*   kind "sami"   tokens of markup                                           *)
(* and "scans", the tests of detect() it passes.  Several times may precede a *)
(* lyric, so "at" is a sequence.  How lines are cut from the file is          *)
(* LineReader's.  Only the instance given here runs it: it uses RECURSIVE.    *)
EXTENDS Integers, Sequences, FiniteSets, SequencesExt, FiniteSetsExt

CONSTANTS
    Files,        \* the files: [cues, lines, ended], ended if the last line has its newline
    MAX_DETECT,   \* the lines detect() looks at (100)
    MaxSpuItems   \* EXTERNAL_MAX_NUMBER_SPU_ITEM (1500)

VARIABLES
    file,         \* the file that is open
    format,       \* the decoder that was made, "none" before, "INVALID" if none was
    at,           \* the number of the line mReader->getLine() gives next
    kept,         \* mHasPendingItemForEndTime, mReuseBuffer: which of the times of the line
                  \* read last opens the next item, 0 if a new line is read
    mPtsRate,
    mPosition,
    subtitles,    \* mSubData.subtitles
    loaded,       \* decodeSubtitles() has returned
    mDecodedSpu,  \* the items waiting for the presentation
    shown         \* history: the items it has taken

tfvars == <<file, format, at, kept, mPtsRate, mPosition, subtitles, loaded, mDecodedSpu, shown>>

---------------------------------------------------------------------------
(* detect(): the tests in their order, and what each says. *)
Tests == << <<"{n}{n}", "MICRODVD">>, <<"{n}{}", "MICRODVD">>, <<"WEBVTT", "WEBVTT">>,
            <<"n,n,n", "MPL1">>, <<"[n][n]", "MPL2">>, <<"h:m:s.f,h:m:s.f", "SUBRIP">>,
            <<"h:m:s,f --> h:m:s,f", "SUBVIEWER">>, <<"{T h:m:s:f", "SUBVIEWER2">>,
            <<"n  h:m:s,f  h:m:s,f", "SUBVIEWER3">>, <<"<sami>", "SAMI">>,
            <<"h:m:s.f h:m:s.f", "JACOSUB">>, <<"@n @n", "JACOSUB">>, <<"h:m:s", "VPLAYER">>,
            <<"[m:s.f", "LRC">>, <<"<?xml", "XML">>, <<"<tt", "TTML">>, <<"<", "RT">>,
            <<"Dialogue: ", "SSA">>, <<"n,n,\"", "PJS">>, <<"FORMAT=", "MPSUB">>,
            <<"-->>", "AQTITLE">>, <<"[h:m:s]", "SUBRIP09">>, <<"VobSub index file", "IDXSUB">>,
            <<"{QTtext}", "INVALID">> >>

Passed(line) == {k \in DOMAIN Tests : Tests[k][1] \in line.scans}
Told == {i \in DOMAIN file.lines : i =< MAX_DETECT /\ Passed(file.lines[i]) # {}}

\* detectXml() parses the file again: XML is TTML when its root says so.
detect ==
    IF Told = {} THEN "INVALID"
    ELSE LET line == file.lines[Min(Told)]
             name == Tests[Min(Passed(line))][2]
         IN  IF name = "XML" /\ "tt" \in line.scans THEN "TTML" ELSE name

---------------------------------------------------------------------------
(* The lines the decoder gets.  Jacosub reads its header first, up to the     *)
(* first line without '#', and rewindStream() then takes the offset 0 that    *)
(* lseek returns for a failure: what is buffered stays, and when it has been  *)
(* read the file is read again.  (The instance's files fit the buffer.)       *)
Header == {i \in DOMAIN file.lines : file.lines[i].kind # "hash"}
parseHeaderInfo == IF Header = {} THEN Len(file.lines) ELSE Min(Header)
Lines == IF format = "JACOSUB"
         THEN SubSeq(file.lines, parseHeaderInfo + 1, Len(file.lines)) \o file.lines
         ELSE file.lines

Final == Len(Lines)
Kind(i) == Lines[i].kind
\* The first line from i on for which Is holds, Final + 1 if there is none.
FirstFrom(i, Is(_)) == Min({k \in i .. Final : Is(k)} \cup {Final + 1})
IsTime(i) == Kind(i) = "time"
isEmptyLine(i) == Kind(i) \in {"empty", "space"}
NotEmpty(i) == ~isEmptyLine(i)
HasText(i) == IsTime(i) /\ Lines[i].text # <<>>
TextOf(from, to) == FlattenSeq([k \in 1 .. to - from + 1 |-> Lines[from + k - 1].text])

\* backtoLastLine(): a last line without newline has emptied the buffer, and nothing is
\* left to go back in.
BackNever(i) == i + 1   \* a plausible bug: the line that was looked at is not given back
Back(i) == IF i = Final /\ ~file.ended THEN i + 1 ELSE i

---------------------------------------------------------------------------
(* Hundredths of a second, from what each format writes. *)
Cs(t) == CASE format \in {"SUBVIEWER", "SUBVIEWER2", "WEBVTT", "RT", "XML"} -> t \div 10
           [] format \in {"VPLAYER", "SUBRIP09", "MPSUB"} -> t * 100
           [] format = "MPL2" -> t * 10
           [] format \in {"MICRODVD", "MPL1", "PJS"} -> (t * 100) \div mPtsRate
           [] format = "JACOSUB" -> (t * 100) \div 30
           [] OTHER -> t
DefaultRate(f) == IF f = "MICRODVD" THEN 24 ELSE 15

Item(start, end, text) == <<[start |-> start, end |-> end, lines |-> text]>>
Got(item, next) == [item |-> item, at |-> next, kept |-> 0, rate |-> mPtsRate,
                    position |-> mPosition]
None == Got(<<>>, Final + 1)

\* One line holds times and text.
OneLine(i) ==
    LET l == Lines[i]
    IN  IF i > Final THEN None ELSE Got(Item(Cs(l.at[1]), Cs(l.to), l.text), i + 1)
Mplayer2 == OneLine(FirstFrom(at, HasText))
Pjs == OneLine(FirstFrom(at, HasText))
SubStationAlpha == OneLine(FirstFrom(at, HasText))

\* A line that starts at 1 tells the frame rate.
Rated ==
    LET i == FirstFrom(at, LAMBDA k : HasText(k) /\ Lines[k].at[1] # 1)
        rates == {k \in at .. i - 1 : HasText(k) /\ Lines[k].num > 0}
        rate == IF rates = {} THEN mPtsRate ELSE Lines[Max(rates)].num
        l == Lines[i]
    IN  IF i > Final THEN [None EXCEPT !.rate = rate]
        ELSE [Got(Item((l.at[1] * 100) \div rate, (l.to * 100) \div rate, l.text), i + 1)
                EXCEPT !.rate = rate]
Mircodvd == Rated
Mplayer1 == Rated

RealText ==
    LET i == FirstFrom(at, IsTime)
        l == Lines[i]
    IN  IF i > Final THEN None
        ELSE Got(Item(Cs(l.at[1]), IF l.to = 0 THEN Cs(l.at[1]) + 200 ELSE Cs(l.to), l.text),
                 i + 1)

\* Jacosub: a first word is a directive, and nothing is shown of a line without a second.
Jacosub ==
    OneLine(FirstFrom(at, LAMBDA k : HasText(k) /\ (Lines[k].directive => Len(Lines[k].text) > 1)))
Directed(got) == LET l == Lines[got.at - 1]
                 IN  IF got.item # <<>> /\ l.directive
                     THEN [got EXCEPT !.item[1].lines = Tail(@)] ELSE got

\* A line of times, then text up to a blank line.
SubViewer ==
    LET i == FirstFrom(at, LAMBDA k : IsTime(k) /\ k < Final /\ NotEmpty(k + 1))
        e == FirstFrom(i + 1, isEmptyLine)
    IN  IF i > Final THEN None
        ELSE Got(Item(Cs(Lines[i].at[1]), Cs(Lines[i].to), TextOf(i + 1, e - 1)), e + 1)

\* The first line of text is all that is shown.
SubViewer3 ==
    LET i == FirstFrom(at, LAMBDA k : IsTime(k) /\ k < Final /\ NotEmpty(k + 1))
    IN  IF i > Final THEN None
        ELSE Got(Item(Cs(Lines[i].at[1]), Cs(Lines[i].to), Lines[i + 1].text), i + 2)

\* The line after the times is the text, whatever it is.
Subrip ==
    LET i == FirstFrom(at, IsTime)
    IN  IF i >= Final THEN None
        ELSE Got(Item(Cs(Lines[i].at[1]), Cs(Lines[i].to), Lines[i + 1].text), i + 2)

\* Up to a blank line, the last time is the end and the rest is text.
Subrip09 ==
    LET i == FirstFrom(at, IsTime)
        e == FirstFrom(i + 1, isEmptyLine)
        ends == {k \in i + 1 .. e - 1 : IsTime(k)}
        end == IF ends = {} THEN 0 ELSE Lines[Max(ends)].at[1]
        text == FlattenSeq([k \in 1 .. e - 1 - i |->
                              IF IsTime(i + k) THEN <<>> ELSE Lines[i + k].text])
    IN  IF i > Final THEN None ELSE Got(Item(Cs(Lines[i].at[1]), Cs(end), text), e + 1)

\* Times are relative to the end of the item before.
Mpsub ==
    LET i == FirstFrom(at, IsTime)
        e == FirstFrom(i + 1, isEmptyLine)
        start == mPosition + Cs(Lines[i].at[1])
        end == start + Cs(Lines[i].to)
    IN  IF i > Final THEN None
        ELSE [Got(Item(start, end, TextOf(i + 1, e - 1)), e + 1) EXCEPT !.position = end]

\* Only an empty line ends the text: without one the item is lost with the file's end.
WebVtt ==
    LET i == FirstFrom(at, IsTime)
        e == FirstFrom(i + 1, LAMBDA k : Kind(k) = "empty")
    IN  IF i > Final \/ e > Final THEN None
        ELSE Got(Item(Cs(Lines[i].at[1]), Cs(Lines[i].to), TextOf(i + 1, e - 1)), e + 1)

\* A time, text up to a blank line, the time it ends: anything else starts anew.
RECURSIVE AqtitleFrom(_)
AqtitleFrom(from) ==
    LET i == FirstFrom(from, IsTime)
        t == FirstFrom(i + 1, LAMBDA k : Kind(k) # "empty")
        e == FirstFrom(t + 1, isEmptyLine)
        n == FirstFrom(e + 1, NotEmpty)
    IN  IF i > Final \/ t > Final THEN None
        ELSE IF isEmptyLine(t) THEN AqtitleFrom(t + 1)
        ELSE IF n > Final THEN None
        ELSE IF ~IsTime(n) THEN AqtitleFrom(n + 1)
        ELSE Got(Item(Lines[i].at[1], Lines[n].at[1], TextOf(t, e - 1)), n + 1)

\* The text is on the line of the time or on the next one; the next time, if it comes
\* within two lines, is the end, and is read again.
SubViewer2 ==
    LET i == FirstFrom(at, IsTime)
        l == Lines[i]
        start == Cs(l.at[1])
        t == IF l.text # <<>> THEN i ELSE i + 1
        n == t + 1
        To(k) == Item(start, IF IsTime(k) THEN Cs(Lines[k].at[1]) ELSE start + 200,
                      IF t > Final THEN <<>> ELSE Lines[t].text)
    IN  IF i > Final THEN None
        ELSE IF n > Final \/ (~IsTime(n) /\ n + 1 > Final)
             THEN Got(Item(start, start + 200, IF t > Final THEN <<>> ELSE Lines[t].text), n + 1)
        ELSE IF IsTime(n) THEN Got(To(n), Back(n))
        ELSE Got(To(n + 1), Back(n + 1))

\* The next line tells the end.  A line that opens the next item is kept; any other
\* takes the item with it.
Vplayer ==
    LET i == FirstFrom(IF kept = 0 THEN at ELSE at - 1,
                       LAMBDA k : HasText(k) /\ (k < Final => Kind(k + 1) \in {"time", "stop"}))
        start == Cs(Lines[i].at[1])
        next == IF i = Final THEN "none" ELSE Kind(i + 1)
        end == IF next = "stop" THEN Cs(Lines[i + 1].at[1]) ELSE start + 200
    IN  IF i > Final THEN None
        ELSE [Got(Item(start, end, Lines[i].text), i + (IF i = Final THEN 1 ELSE 2))
                EXCEPT !.kept = IF next = "time" THEN 1 ELSE 0]

\* One item for each time of a line; after the last the next line may tell its end.
Lyrics ==
    LET i == IF kept = 0 THEN FirstFrom(at, HasText) ELSE at - 1
        l == Lines[i]
        k == IF kept = 0 THEN 1 ELSE kept
        next == IF i = Final THEN "none" ELSE Kind(i + 1)
        end == IF k = Len(l.at) /\ next = "stop" THEN Lines[i + 1].at[1] ELSE l.at[k] + 400
    IN  IF i > Final THEN None
        ELSE IF k < Len(l.at)
             THEN [Got(Item(l.at[k], end, l.text), i + 1) EXCEPT !.kept = k + 1]
        ELSE [Got(Item(l.at[k], end, l.text), i + (IF i = Final THEN 1 ELSE 2))
                EXCEPT !.kept = IF next = "time" THEN 1 ELSE 0]

\* The paragraphs were read when the decoder was made.
Paragraph(least) ==
    LET i == FirstFrom(at, LAMBDA k : Kind(k) = "para")
        start == Cs(Lines[i].at[1])
        end == Cs(Lines[i].to)
    IN  IF i > Final THEN None
        ELSE Got(Item(start, IF end =< start THEN start + least ELSE end, Lines[i].text), i + 1)
Ttml == Paragraph(200)
XmlSubtitle == Paragraph(2000)

(* Sami: a scanner over the markup of one line after the other.  Tokens are   *)
(* [tok |-> "sync", t], "P", "tag" (another one), "br", "nbsp" and "word"     *)
(* (with its piece of text); other tags in the text are taken as text.  Blanks  *)
(* around the text are dropped, and no file gives a "Slacktime:".             *)
Toks(i) == IF Kind(i) = "sami" THEN Lines[i].tokens ELSE <<>>
SyncIn(toks) == {k \in DOMAIN toks : toks[k].tok = "sync"}
Trimmed(text) == IF \A k \in DOMAIN text : text[k] = " " THEN <<>>
                 ELSE SelectSeq(text, LAMBDA w : w # " ")

RECURSIVE Scan(_, _, _, _, _)
Scan(state, toks, i, item, text) ==
    LET first == toks[1]
        NextLine(st, it, tx) ==
            IF i + 1 =< Final THEN Scan(st, Toks(i + 1), i + 1, it, tx)
            ELSE IF it.start = 0 THEN None
            ELSE IF it.end > 0 THEN Got(<<it>>, Final + 1)
            ELSE IF Trimmed(tx) = <<>> THEN None
            ELSE Got(<<[it EXCEPT !.end = it.start, !.lines = @ \o Trimmed(tx)]>>, Final + 1)
        pushed == [item EXCEPT !.lines = @ \o Trimmed(text)]
    IN  CASE state = 0 /\ SyncIn(toks) = {} -> NextLine(0, item, text)
          [] state = 0 /\ SyncIn(toks) # {} ->
                 LET k == Min(SyncIn(toks))
                 IN  Scan(1, SubSeq(toks, k + 1, Len(toks)), i,
                          [item EXCEPT !.start = toks[k].t \div 10], text)
          [] state = 1 /\ (toks = <<>> \/ first.tok \in {"tag", "br", "sync"}) ->
                 NextLine(1, item, text)
          [] state = 1 /\ toks # <<>> /\ first.tok = "P" -> Scan(3, Tail(toks), i, item, <<>>)
          [] state = 1 /\ toks # <<>> /\ first.tok \in {"word", "nbsp"} ->
                 Scan(3, toks, i, item, <<>>)
          [] state = 3 /\ toks = <<>> -> NextLine(3, item, text)
          [] state = 3 /\ toks # <<>> /\ first.tok = "br" -> Scan(3, Tail(toks), i, pushed, <<>>)
          [] state = 3 /\ toks # <<>> /\ first.tok \in {"sync", "P"} ->
                 IF SyncIn(toks) = {} THEN Scan(3, Tail(toks), i, item, text)
                 ELSE LET ended == [pushed EXCEPT !.end = toks[Min(SyncIn(toks))].t \div 10 - 1]
                      IN  IF ended.lines # <<>> THEN Got(<<ended>>, i + 1)
                          ELSE Scan(0, toks, i, ended, text)
          [] OTHER -> Scan(3, Tail(toks), i, item,
                           Append(text, CASE first.tok = "nbsp" -> " "
                                          [] first.tok = "word" -> first.word
                                          [] OTHER -> "</>"))

\* The rest of the line that ended an item is not read again.
Sami == IF at > Final THEN None
        ELSE Scan(0, Toks(at), at, [start |-> 0, end |-> 0, lines |-> <<>>], <<>>)

Decoded ==
    CASE format = "MICRODVD" -> Mircodvd
      [] format = "MPL1" -> Mplayer1
      [] format = "MPL2" -> Mplayer2
      [] format = "PJS" -> Pjs
      [] format = "SSA" -> SubStationAlpha
      [] format = "JACOSUB" -> Directed(Jacosub)
      [] format = "RT" -> RealText
      [] format = "SUBVIEWER" -> SubViewer
      [] format = "SUBVIEWER2" -> SubViewer2
      [] format = "SUBVIEWER3" -> SubViewer3
      [] format = "SUBRIP" -> Subrip
      [] format = "SUBRIP09" -> Subrip09
      [] format = "MPSUB" -> Mpsub
      [] format = "WEBVTT" -> WebVtt
      [] format = "AQTITLE" -> AqtitleFrom(at)
      [] format = "VPLAYER" -> Vplayer
      [] format = "LRC" -> Lyrics
      [] format = "TTML" -> Ttml
      [] format = "XML" -> XmlSubtitle
      [] format = "SAMI" -> Sami

---------------------------------------------------------------------------
Init ==
    /\ file \in Files
    /\ format = "none" /\ at = 1 /\ kept = 0 /\ mPtsRate = 24 /\ mPosition = 0
    /\ subtitles = <<>> /\ loaded = FALSE /\ mDecodedSpu = <<>> /\ shown = <<>>

\* ExtSubFactory::create(), called by ExtParser's constructor.
create ==
    /\ format = "none"
    /\ format' = detect
    /\ mPtsRate' = DefaultRate(detect)
    /\ loaded' = (detect = "INVALID")
    /\ UNCHANGED <<file, at, kept, mPosition, subtitles, mDecodedSpu, shown>>

\* One turn of decodeSubtitles(): the first call that finds no item ends it.
decodedItem ==
    /\ format # "none" /\ ~loaded
    /\ LET got == Decoded
       IN  /\ loaded' = (got.item = <<>>)
           /\ subtitles' = subtitles \o got.item
           /\ at' = got.at /\ kept' = got.kept
           /\ mPtsRate' = got.rate /\ mPosition' = got.position
    /\ UNCHANGED <<file, format, mDecodedSpu, shown>>

\* TextSubtitle::popDecodedItem()
popDecodedItem(spu) == subtitles # <<>> /\ spu = Head(subtitles) /\ subtitles' = Tail(subtitles)

\* ExtParser::parse() with getSpu(): an item moves on while the queue has room.
parse ==
    /\ loaded /\ Len(mDecodedSpu) < MaxSpuItems
    /\ \E spu \in Range(subtitles) :
           popDecodedItem(spu) /\ mDecodedSpu' = Append(mDecodedSpu, spu)
    /\ UNCHANGED <<file, format, at, kept, mPtsRate, mPosition, loaded, shown>>

\* The presentation takes the next item (Parser::consumeDecodedItem).
consumeDecodedItem ==
    /\ mDecodedSpu # <<>>
    /\ shown' = Append(shown, Head(mDecodedSpu))
    /\ mDecodedSpu' = Tail(mDecodedSpu)
    /\ UNCHANGED <<file, format, at, kept, mPtsRate, mPosition, subtitles, loaded>>

Next == create \/ decodedItem \/ parse \/ consumeDecodedItem

---------------------------------------------------------------------------
AllItems == shown \o mDecodedSpu \o subtitles

(* A file written in the layout of its format is recognised, and each of its  *)
(* cues becomes one item with its times and its text, in the order of the     *)
(* file and none twice, whatever other lines come between: also when an item  *)
(* ends with the time of the next, when several share a text, and while items *)
(* are handed out.  Jacosub alone may decode a cue twice (see Lines).         *)
CuesShown ==
    /\ format = "JACOSUB" => Range(AllItems) \subseteq Range(file.cues)
    /\ format # "JACOSUB" => IsPrefix(AllItems, file.cues)
    /\ loaded => Range(AllItems) = Range(file.cues)
=============================================================================
