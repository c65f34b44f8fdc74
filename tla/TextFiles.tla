----------------------------- MODULE TextFiles -----------------------------
(* Subtitle files for TextFormats: how each format writes its cues, as the    *)
(* samples in the comments of parser/ExtParser lay them out.  Times of a cue  *)
(* are in hundredths of a second, whole seconds here so that every format     *)
(* can write them; its text is a sequence of pieces, lines or parts of one.   *)
EXTENDS Integers, Sequences, SequencesExt

Line(kind) == [kind |-> kind, scans |-> {}, at |-> <<0>>, to |-> 0, text |-> <<>>, num |-> 0,
               directive |-> FALSE, tokens |-> <<>>]
Time(scans, at, to, text) ==
    [Line("time") EXCEPT !.scans = scans, !.at = <<at>>, !.to = to, !.text = text]
Text(w) == [Line("text") EXCEPT !.text = <<w>>]
Markup(toks) == [Line("sami") EXCEPT !.tokens = toks]
Sync(t) == [tok |-> "sync", t |-> t]
Tok(k) == [tok |-> k]
Word(w) == [tok |-> "word", word |-> w]

Texts(text) == [k \in DOMAIN text |-> Text(text[k])]
\* Blank lines after a cue, and in loose style one with blanks.
Blank(loose) == IF loose THEN <<Line("empty"), Line("space")>> ELSE <<Line("empty")>>
Cue(start, end, text) == [start |-> start, end |-> end, lines |-> text]

\* The lines before the first cue.
Heading(f, loose) ==
    CASE f = "WEBVTT" -> <<[Text("WEBVTT") EXCEPT !.scans = {"WEBVTT"}], Line("empty")>>
      [] f = "SAMI" -> <<[Markup(<<Tok("tag")>>) EXCEPT !.scans = {"<sami>", "<"}],
                         Markup(<<>>)>>
      [] f = "RT" -> <<[Text("<window>") EXCEPT !.scans = {"<"}]>>
      [] f = "XML" -> <<[Text("<?xml") EXCEPT !.scans = {"<?xml", "<"}]>>
      [] f = "TTML" -> <<[Text("<tt") EXCEPT !.scans = IF loose THEN {"<?xml", "tt", "<"}
                                                       ELSE {"<tt", "<"}]>>
      [] f = "MPSUB" -> <<[Text("FORMAT=") EXCEPT !.scans = {"FORMAT="}]>>
      [] f = "JACOSUB" /\ loose -> <<Line("hash")>>
      [] f \in {"MICRODVD", "MPL1"} /\ loose ->
             <<[Time({IF f = "MPL1" THEN "n,n,n" ELSE "{n}{n}"}, 1, 1, <<"25">>) EXCEPT !.num = 25]>>
      [] f = "SUBRIP09" -> <<Text("[TITLE]"), Text("The Island")>>
      [] OTHER -> IF loose THEN <<Text("comment"), Line("empty")>> ELSE <<>>

Rate(f, headed) == IF headed /\ f \in {"MICRODVD", "MPL1"} THEN 25
                   ELSE IF f = "MICRODVD" THEN 24 ELSE 15
Frames(f, headed, cs) == (cs * Rate(f, headed)) \div 100

(* One cue from a to e: its lines, and what they ought to show.  prev is the  *)
(* end of the cue before, next the start of the one after (0: there is none). *)
Written(f, headed, a, e, text, loose, prev, next) ==
    LET one == <<Cue(a, e, text)>>
        W(lines) == [cues |-> one, lines |-> lines]
        noise == IF loose THEN <<Text("comment")>> ELSE <<>>
        HMS == "h:m:s"
    IN  CASE f = "MICRODVD" ->
               W(noise \o <<Time({"{n}{n}"}, Frames(f, headed, a), Frames(f, headed, e), text)>>)
          [] f = "MPL1" ->
               W(noise \o <<Time({"n,n,n"}, Frames(f, headed, a), Frames(f, headed, e), text)>>)
          [] f = "PJS" ->
               W(noise \o <<Time({"n,n,\""}, Frames(f, headed, a), Frames(f, headed, e), text)>>)
          [] f = "MPL2" -> W(noise \o <<Time({"[n][n]"}, a \div 10, e \div 10, text)>>)
          [] f = "SSA" -> W(noise \o <<Time({"Dialogue: "}, a, e, text)>>)
          [] f = "JACOSUB" ->
               W(<<[Time({"h:m:s.f h:m:s.f", HMS}, (a * 30) \div 100, (e * 30) \div 100,
                         IF loose THEN <<"D">> \o text ELSE text) EXCEPT !.directive = loose]>>)
          [] f = "RT" /\ ~loose -> W(<<Time({"<"}, a * 10, e * 10, text)>>)
          [] f = "RT" /\ loose ->
               [cues |-> <<Cue(a, a + 200, text)>>,
                lines |-> noise \o <<Time({"<"}, a * 10, 0, text)>>]
          [] f = "SUBVIEWER" ->
               W(<<Text("1"), Time({"h:m:s,f --> h:m:s,f", HMS}, a * 10, e * 10, <<>>)>>
                 \o Texts(text) \o Blank(loose))
          [] f = "WEBVTT" ->
               W(noise \o <<Time({"h:m:s,f --> h:m:s,f", HMS}, a * 10, e * 10, <<>>)>>
                 \o Texts(text) \o Blank(loose))
          [] f = "SUBVIEWER3" ->
               W(<<Time({"n  h:m:s,f  h:m:s,f"}, a, e, <<>>),
                   [Text("") EXCEPT !.text = text]>> \o Blank(loose))
          [] f = "SUBRIP" ->
               W(<<Time({"h:m:s.f,h:m:s.f", HMS}, a, e, <<>>), [Text("") EXCEPT !.text = text]>>
                 \o Blank(loose))
          [] f = "SUBRIP09" ->
               W(<<Time({"[h:m:s]"}, a \div 100, 0, <<>>)>> \o Texts(text)
                 \o <<Time({"[h:m:s]"}, e \div 100, 0, <<>>)>> \o Blank(loose))
          [] f = "MPSUB" ->
               W(<<Time({}, (a - prev) \div 100, (e - a) \div 100, <<>>)>>
                 \o Texts(text) \o Blank(loose))
          [] f = "AQTITLE" ->
               W(<<Time({"-->>"}, a, 0, <<>>)>> \o Texts(text) \o <<Line("empty")>>
                 \o <<Time({"-->>"}, e, 0, <<>>)>> \o Blank(loose))
          [] f = "SUBVIEWER2" ->
               [cues |-> <<Cue(a, IF next = 0 THEN a + 200 ELSE next, text)>>,
                lines |-> IF loose
                          THEN <<Time({"{T h:m:s:f"}, a * 10, 0, <<>>),
                                 [Text("") EXCEPT !.text = text], Text("}")>>
                          ELSE <<Time({"{T h:m:s:f"}, a * 10, 0, text)>>]
          [] f = "VPLAYER" /\ ~loose ->
               [cues |-> <<Cue(a, a + 200, text)>>,
                lines |-> <<Time({HMS}, a \div 100, 0, text)>>]
          [] f = "VPLAYER" /\ loose ->
               W(<<Time({HMS}, a \div 100, 0, text),
                   [Time({HMS}, e \div 100, 0, <<>>) EXCEPT !.kind = "stop"]>> \o noise)
          [] f = "LRC" /\ ~loose ->
               [cues |-> <<Cue(a, a + 400, text)>>, lines |-> <<Time({"[m:s.f"}, a, 0, text)>>]
          [] f = "LRC" /\ loose ->
               [cues |-> <<Cue(a, a + 400, text), Cue(a + 100, e + 100, text)>>,
                lines |-> <<[Time({"[m:s.f"}, a, 0, text) EXCEPT !.at = <<a, a + 100>>],
                            [Time({"[m:s.f"}, e + 100, 0, <<>>) EXCEPT !.kind = "stop"]>>]
          [] f \in {"XML", "TTML"} ->
               LET unit == IF f = "XML" THEN 10 ELSE 1
               IN  [cues |-> <<Cue(a, IF ~loose THEN e ELSE a + (IF f = "XML" THEN 2000 ELSE 200),
                                   text)>>,
                    lines |-> <<[Time({}, a * unit, IF loose THEN 0 ELSE e * unit, text)
                                   EXCEPT !.kind = "para"]>>]
          [] f = "SAMI" ->
               [cues |-> <<Cue(a, e - 1, text)>>,
                lines |->
                  (IF loose
                   THEN <<Markup(<<Sync(a * 10)>>),
                          Markup(<<Tok("P")>> \o [k \in 1 .. 2 * Len(text) |->
                                     IF k % 2 = 1 THEN Word(text[(k + 1) \div 2]) ELSE Tok("br")])>>
                   ELSE <<Markup(<<Sync(a * 10), Tok("P")>> \o
                                 [k \in DOMAIN text |-> Word(text[k])])>>)
                  \o <<Markup(<<Sync(e * 10), Tok("P"), Tok("nbsp")>>)>>]

Formats == {"MICRODVD", "SUBRIP", "SUBVIEWER", "SAMI", "VPLAYER", "RT", "SSA", "PJS", "MPSUB",
            "AQTITLE", "SUBVIEWER2", "SUBVIEWER3", "SUBRIP09", "JACOSUB", "MPL1", "MPL2", "XML",
            "TTML", "LRC", "WEBVTT"}

\* The files of n cues: the k-th begins at 4k s and lasts a second or two.
FilesOf(f, n) ==
    {LET start(k) == 400 * k
         end(k) == 400 * k + (IF styles[k] THEN 200 ELSE 100)
         parts == [k \in 1 .. n |->
                     Written(f, headed, start(k), end(k), texts[k], styles[k],
                             IF k = 1 THEN 0 ELSE end(k - 1), IF k = n THEN 0 ELSE start(k + 1))]
     IN  [cues |-> FlattenSeq([k \in 1 .. n |-> parts[k].cues]),
          lines |-> Heading(f, headed) \o FlattenSeq([k \in 1 .. n |-> parts[k].lines]),
          ended |-> TRUE]
     : styles \in [1 .. n -> BOOLEAN], texts \in [1 .. n -> {<<"w">>, <<"v", "w">>}],
       headed \in BOOLEAN}

AllFiles(n) == UNION {FilesOf(f, k) : f \in Formats, k \in 1 .. n}

-----------------------------------------------------------------------------
(* Text subtitles as a player hands them over, the input of AssParser.  Each  *)
(* is given with what is to be seen of it.                                     *)

Event(normal, start, end, text) == [normal |-> normal, start |-> start, end |-> end,
                                    text |-> text]
\* A built-in event has eight fields before its text, a Dialogue nine.
BuiltIn(text) == Event(FALSE, -1, -1, <<"36", ",", "0", ",", "Default", ",", ",", "0", ",", "0",
                                        ",", "0", ",", ",">> \o text)
Fields == <<"Dialogue", ",", "from", ",", "to", ",", "Default", ",", ",", "0", ",", "0", ",",
            "0", ",", ",">>
Dialogue(start, end, text) == Event(TRUE, start, end, Fields \o text)

Packet(type, pts, duration, len, event, wanted) ==
    [type |-> type, pts |-> pts, duration |-> duration, len |-> len, event |-> event,
     wanted |-> wanted]
Seen(pts, end, text) == <<[pts |-> pts, end |-> end, text |-> text]>>

\* Commas and breaks in the text, codes before, in and behind it, two languages, a drawing,
\* plain text, and what is of another type.
Packets == <<
    Packet("ASS", 100, 50, 12, BuiltIn(<<"{}", "What", ",", "{}", "no", "brk", "yes", "{}">>),
           Seen(100, 150, <<"What", ",", "no", "nl", "yes">>)),
    Packet("SSA", 200, 0, 3, Dialogue(26, 189, <<"Don't", ",", "move">>),
           Seen(26 * 900, 189 * 900, <<"Don't", ",", "move">>)),
    Packet("ASS", 300, 20, 9, Dialogue(30, -1, <<"Hey", "nl">> \o Fields \o <<"He", ",", "da">>),
           Seen(30 * 900, 320, <<"He", ",", "da", "nl", "Hey">>)),
    Packet("ASS", 400, 20, 5, BuiltIn(<<"{}", "m", "0", "{p0}">>), <<>>),
    Packet("SUBRIP", 500, 20, 1, Event(FALSE, -1, -1, <<"a", ",", "{}", "brk">>),
           Seen(500, 520, <<"a", ",", "{}", "brk">>)),
    Packet("MOV_TEXT", 600, 20, 2, Event(FALSE, -1, -1, <<>>), <<>>),
    Packet("DVB", 700, 20, 4, Event(FALSE, -1, -1, <<>>), <<>>) >>
=============================================================================
