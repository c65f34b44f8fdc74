------------------------------ MODULE AssParser ------------------------------
(* AssParser: text subtitles that a player hands over, each behind a header    *)
(* of its own.  parse() looks at what its source has every three milliseconds  *)
(* and takes one of them at a time.  What is not whole by then is thrown away, *)
(* with all that has come; only the last four bytes of one are waited for.     *)
(*                                                                             *)
(* A packet is [type, pts, duration, len, event, wanted], wanted the items a    *)
(* viewer should see of it.  An event is                                       *)
(* [normal, start, end, text]: normal for a "Dialogue:" line, with its times   *)
(* (-1 where they are not times), text the sequence of its parts: "," and "nl"  *)
(* (a line feed), "{}" (an override code), "{p0}" (the end of a drawing), "{"   *)
(* (a code that is not closed), "brk" (a written line break), and words, of     *)
(* which "Dialogue" begins a line of its own.                                   *)
EXTENDS Integers, Sequences, FiniteSets, FiniteSetsExt, SequencesExt

CONSTANTS
    Packets,      \* the packets a player may send, in a sequence
    MaxPackets,   \* how many it sends
    Cuts,         \* where one may be cut in two
    MaxWaiting    \* bytes that wait at most when another one comes

VARIABLES
    stream,       \* of indices of Packets
    sent, cut,    \* packets handed over, and bytes of the last one when it came in two parts
    source,       \* the bytes that wait in mDataSource
    behind,       \* history: packets that were torn, or came behind the remains of one
    posted        \* the items addDecodedItem() has been given, each with its packet

asvars == <<stream, sent, cut, source, behind, posted>>

HEADER == 20
MIN_HEADER_DATA_SIZE == 24
SSA == {"SSA", "ASS"}
Plain == {"TEXT", "SUBRIP", "WEBVTT"}

Packet(u) == Packets[stream[u]]
\* Byte k of packet u: 24 of header and duration, and its data.
Bytes(u) == [k \in 1 .. MIN_HEADER_DATA_SIZE + Packet(u).len |-> 1000 * u + k - 1]
IsHeader(byte) == byte % 1000 = 0
PacketOf(byte) == byte \div 1000

---------------------------------------------------------------------------
(* __getAssSpu(): the text of an event. *)
Codes == {"{}", "{p0}", "{"}
Commas(text) == {i \in DOMAIN text : text[i] = ","}
\* What follows the nth comma.
AfterComma(text, n) ==
    LET nth == CHOOSE i \in Commas(text) : Cardinality({j \in Commas(text) : j =< i}) = n
    IN  SubSeq(text, nth + 1, Len(text))
FirstLine(text) == LET end == Min({i \in DOMAIN text : text[i] = "nl"} \cup {Len(text) + 1})
                   IN  SubSeq(text, 1, end - 1)
Sections(normal) == IF normal THEN 9 ELSE 8
FirstCode(text) == Min({i \in DOMAIN text : text[i] \in Codes})
HasCode(text) == \E i \in DOMAIN text : text[i] \in Codes

\* With a code in it the text is looked for behind the eighth comma, of a Dialogue too.
Content(e) ==
    IF HasCode(e.text) THEN AfterComma(e.text, 8)
    ELSE FirstLine(AfterComma(e.text, Sections(e.normal)))

\* A code ends at the next brace that closes one; one that does not end is left, with all
\* that follows it.
RECURSIVE Discarded(_)
Discarded(text) ==
    IF ~HasCode(text) THEN text
    ELSE LET from == FirstCode(text)
             closing == {i \in from .. Len(text) : text[i] \in {"{}", "{p0}"}}
         IN  IF closing = {} THEN text
             ELSE Discarded(SubSeq(text, 1, from - 1)
                            \o SubSeq(text, Min(closing) + 1, Len(text)))
Broken(text) == [i \in DOMAIN text |-> IF text[i] = "brk" THEN "nl" ELSE text[i]]

\* The line behind a line feed is that of a second language.
getSecondTextForDoubleLanguage(text) ==
    LET feeds == {i \in DOMAIN text : text[i] = "nl"}
        second == SubSeq(text, Min(feeds) + 1, Len(text))
        n == Sections(second # <<>> /\ Head(second) = "Dialogue")
    IN  CASE feeds = {} -> <<>>
          [] feeds # {} /\ HasCode(second) -> SubSeq(second, FirstCode(second), Len(second))
          [] feeds # {} /\ ~HasCode(second) /\ Cardinality(Commas(second)) >= n ->
                 FirstLine(AfterComma(second, n))
          [] OTHER -> SubSeq(second, Max(Commas(second) \cup {0}) + 1, Len(second))
stringConvert2Stream(s1, s2) == IF s1 = <<>> THEN s2 ELSE s1 \o <<"nl">> \o s2

Refused(e) == Cardinality(Commas(e.text)) < 8 \/ \E i \in DOMAIN e.text : e.text[i] = "{p0}"
Text(e) == stringConvert2Stream(getSecondTextForDoubleLanguage(e.text),
                                Broken(Discarded(Content(e))))
\* The times of a Dialogue, in hundredths, as ticks.
Ticks(hundredths) == hundredths * 900

---------------------------------------------------------------------------
(* The items of a packet: none where it is refused. *)
End(p) == IF p.duration = 0 THEN 0 ELSE p.duration + p.pts
Item(pts, end, text) == <<[pts |-> pts, end |-> end, text |-> text]>>
Items(p) ==
    CASE p.type \in Plain -> Item(p.pts, End(p), p.event.text)
      [] p.type = "MOV_TEXT" /\ p.len > 2 -> Item(p.pts, End(p), p.event.text)
      [] p.type \in SSA /\ ~Refused(p.event) ->
             Item(IF p.event.normal /\ p.event.start >= 0 THEN Ticks(p.event.start) ELSE p.pts,
                     IF p.event.normal /\ p.event.end >= 0 THEN Ticks(p.event.end) ELSE End(p),
                     Text(p.event))
      [] OTHER -> <<>>

---------------------------------------------------------------------------
Init ==
    /\ stream \in [1 .. MaxPackets -> DOMAIN Packets]
    /\ sent = 0 /\ cut = 0 /\ source = <<>> /\ behind = {} /\ posted = <<>>

\* Whether n bytes of a packet are looked at and are not enough of it.
Torn(n, len) == MIN_HEADER_DATA_SIZE =< n /\ n < HEADER + len
\* The player: a packet at once, or its first part and later the rest.
arrive ==
    /\ cut = 0 /\ Len(source) =< MaxWaiting /\ sent < Len(stream)
    /\ sent' = sent + 1
    /\ LET bytes == Bytes(sent')
       IN  \E n \in {k \in Cuts : k < Len(bytes)} \cup {Len(bytes)} :
             /\ source' = source \o SubSeq(bytes, 1, n)
             /\ cut' = IF n = Len(bytes) THEN 0 ELSE n
    /\ behind' = IF Torn(cut', Packet(sent').len) \/ (source # <<>> /\ ~IsHeader(Head(source)))
                 THEN behind \cup {sent'} ELSE behind
    /\ UNCHANGED <<stream, posted>>

arriveRest ==
    /\ cut > 0
    /\ source' = source \o SubSeq(Bytes(sent), cut + 1, Len(Bytes(sent)))
    /\ cut' = 0
    /\ UNCHANGED <<stream, sent, behind, posted>>

(* getSpu() *)
Looks == Len(source) >= MIN_HEADER_DATA_SIZE
currentLen == Packet(PacketOf(Head(source))).len
Whole == IsHeader(Head(source)) /\ currentLen =< Len(source) - HEADER

throwAway ==
    /\ Looks /\ ~Whole
    /\ source' = <<>>
    /\ UNCHANGED <<stream, sent, cut, behind, posted>>

\* A plausible bug: the four bytes of the duration are taken for the last of the data.
TakesData == HEADER + currentLen
Takes == HEADER + currentLen + 4
\* The source's read() returns when it has as many bytes as it was asked for.
getSpu ==
    /\ Looks /\ Whole /\ Takes =< Len(source)
    /\ LET u == PacketOf(Head(source))
           new == Items(Packet(u))
       IN  posted' = posted \o [i \in DOMAIN new |-> [of |-> u, item |-> new[i]]]
    /\ source' = SubSeq(source, Takes + 1, Len(source))
    /\ UNCHANGED <<stream, sent, cut, behind>>

Next == arrive \/ arriveRest \/ throwAway \/ getSpu

---------------------------------------------------------------------------
(* A packet that was not torn, and not behind the remains of one that was, is *)
(* posted, once, in its order, with its times and with its words in their      *)
(* lines; or not at all where it says nothing to show.  No packet is posted    *)
(* twice, or out of order.                                                    *)
Done == {u \in 1 .. sent : u \notin behind /\ \A i \in DOMAIN source : PacketOf(source[i]) # u}
EventsPosted ==
    LET of(u) == SelectSeq(posted, LAMBDA p : p.of = u)
    IN  /\ \A u \in Done : /\ Len(of(u)) = Len(Packet(u).wanted)
                           /\ \A i \in DOMAIN of(u) : of(u)[i].item = Packet(u).wanted[i]
        /\ \A i \in 1 .. Len(posted) - 1 : posted[i].of < posted[i + 1].of
=============================================================================
