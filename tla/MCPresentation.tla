--------------------------- MODULE MCPresentation ---------------------------
(* Instances of Presentation on the same variables: "stream", with the        *)
(* constants of the configuration, "text", texts that overlap, and "clock", a *)
(* clock that jumps; and the presentation of an external file ("file").  A    *)
(* behaviour chooses one of the Parts at the start.                           *)
EXTENDS Presentation

CONSTANT Parts

VARIABLES part,
          toDecode, fileDecoded, fileShowing, fileNow, reports, fileLooper, fileMessages,
          fileDelayed, fileResets, mLastShowingSpu, fileScreen, missed

Decoded(kind, pts, end) == [pts |-> pts, end |-> end, imm |-> FALSE, keep |-> FALSE,
                            kind |-> kind, data |-> TRUE, obj |-> 0, size |-> 1]
Kept(i) == [i EXCEPT !.imm = TRUE, !.keep = TRUE]
Of(i, o) == [i EXCEPT !.obj = o]
End(i) == [i EXCEPT !.data = FALSE]

\* Texts: two of the same pts, a later one, one without an end.
Texts == {Decoded("text", 2000, 4000), Decoded("text", 2000, 0), Decoded("text", 3000, 3100)}
\* Pictures at both sides of 2^32 ticks, and ten minutes ahead.
Clock == {Decoded("bitmap", 2000, 4000), Decoded("bitmap", 47723859, 47725859),
          Decoded("bitmap", 700000, 702000)}
ClockTimes == {-1, 2500, 9000, 700000, 47723860}
\* Around 2^32 ticks, for a video that passes them.
Passing == {Decoded("bitmap", 47720000, 47721000), Decoded("bitmap", 47722000, 47724000)}
\* One of each, PGS with two objects and the end of one: the next session may decode
\* another kind.
Mixed == {Kept(Decoded("bitmap", 2000, 0)), End(Decoded("bitmap", 3000, 5000)),
          Decoded("pgs", 2000, 4000), Of(Decoded("pgs", 2000, 4000), 1),
          Of(End(Decoded("pgs", 2000, 8000)), 1)}

Jumping == INSTANCE Presentation WITH
    Templates <- Clock, Times <- ClockTimes, StartTimes <- {0, 1000},
    MaxSeeks <- 1, MaxResets <- 0, MaxSessions <- 1, MaxQueuedMem <- 100

Overlapping == INSTANCE Presentation WITH
    Templates <- Texts, Times <- {2000, 9000}, StartTimes <- {500},
    MaxSeeks <- 1, MaxSessions <- 1, MaxQueuedMem <- 100

\* Texts after each other, one that overlaps both, one too short to have an end; pictures
\* that overlap.
Cue(kind, pts, end) == [kind |-> kind, pts |-> pts, end |-> end]
File == INSTANCE ExternalPresentation WITH
    Files <- {{Cue("text", 1000, 3000), Cue("text", 3000, 5000), Cue("text", 2900, 4600),
               Cue("text", 9000, 9100)},
              {Cue("bitmap", 1000, 3000), Cue("bitmap", 2000, 7000), Cue("bitmap", 3000, 5000)}},
    Times <- {0, 2000, 2990, 3000, 4500, 7000, 9100, 11000}, MaxReports <- 3, MaxResets <- 1,
    mDecodedSpu <- fileDecoded, mEmittedShowingSpu <- fileShowing, now <- fileNow,
    looper <- fileLooper, messages <- fileMessages, delayed <- fileDelayed,
    resets <- fileResets, screen <- fileScreen

file == <<toDecode, fileDecoded, fileShowing, fileNow, reports, fileLooper, fileMessages,
          fileDelayed, fileResets, mLastShowingSpu, fileScreen, missed>>

MCInit == part \in Parts /\ Init /\ File!Init

MCNext ==
    /\ UNCHANGED part
    /\ \/ part = "stream" /\ Next /\ UNCHANGED file
       \/ part = "clock" /\ Jumping!Next /\ UNCHANGED file
       \/ part = "text" /\ Overlapping!Next /\ UNCHANGED file
       \/ part = "file" /\ File!Next /\ UNCHANGED vars

MCSpec == MCInit /\ [][MCNext]_<<part, vars, file>>

\* The looper thread of the texts is always scheduled (Presentation.FairSpec).
TextLooper == part = "text" /\ Overlapping!Looper /\ UNCHANGED <<part, file>>
FairMCSpec == MCSpec /\ WF_<<part, vars, file>>(TextLooper)

\* Overlapping texts are shown and hidden in time, each of them
\* (Presentation.ComesAndGoes).
TextsComeAndGo == part = "text" => Overlapping!ComesAndGoes

\* What is on the screen follows the video: a picture of a stream goes at its end
\* (Presentation.HiddenAtItsEnd), and what is shown of an external file is what the time
\* asks for (ExternalPresentation.ScreenFollowsTime).
ScreenFollowsVideo == HiddenAtItsEnd /\ []File!ScreenFollowsTime
=============================================================================
