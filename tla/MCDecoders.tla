----------------------------- MODULE MCDecoders -----------------------------
(* Instances of three decoders: teletext as the viewer drives it             *)
(* (TeletextParser), the DVB page (DvbPage) and PGS (PgsParser).  A behaviour *)
(* chooses one of them at the start and the others stay as they are.         *)
EXTENDS TeletextParser

CONSTANTS
    Regions, Objects, Cluts, Sizes, Corners, Places, Codes, MaxLinks, MaxCodes, \* of DvbPage
    ObjectIds, Times, DECODE_PRE_TIME, WRONG_PGS_PTS_TIME, StartTime, MaxSets   \* of PgsParser

VARIABLES part,
          dvbctx, wrote, picture,
          mPgsContext, sets, mPgsContextList, mPresentationTime, mFirstPts,
          mPreviousObjectNum, posted, wrong, segments

\* The numbers that a DVB stream gives are not negative, and every code is of one of the
\* three kinds.
ASSUME PageAssumption ==
    /\ Sizes \subseteq [w : Nat, h : Nat]
    /\ Corners \subseteq [x : Nat, y : Nat] /\ Places \subseteq [x : Nat, y : Nat]
    /\ Codes \subseteq [kind : {"pixels", "transparent", "line"}, n : Nat]
    /\ IsFiniteSet(Regions) /\ MaxLinks \in Nat /\ MaxCodes \in Nat

Dvb == INSTANCE DvbPage WITH ctx <- dvbctx
Pgs == INSTANCE PgsParser WITH screen <- segments

dvb == <<dvbctx, wrote, picture>>
pgs == <<mPgsContext, sets, mPgsContextList, mPresentationTime, mFirstPts,
         mPreviousObjectNum, posted, wrong, segments>>

MCInit == part \in {"teletext", "dvb", "pgs"} /\ Init /\ Dvb!Init /\ Pgs!Init

MCNext ==
    /\ UNCHANGED part
    /\ \/ part = "teletext" /\ Next /\ UNCHANGED <<dvb, pgs>>
       \/ part = "dvb" /\ Dvb!Next /\ UNCHANGED <<ttvars, pgs>>
       \/ part = "pgs" /\ Pgs!Next /\ UNCHANGED <<ttvars, dvb>>

MCSpec == MCInit /\ [][MCNext]_<<part, ttvars, dvb, pgs>>

\* DvbPage.LinksAgree and DvbPage.InsideMemory: no list of links leads to freed memory,
\* regions are copied inside the picture, and objects painted inside their region.
PageSound == part = "dvb" => Dvb!LinksAgree /\ Dvb!InsideMemory

\* PgsParser.InOrderOnce and PgsParser.ScreenIsCleared: each display set is posted once, in
\* its order; a set that clears the screen is never dropped, and no segment keeps a picture
\* of an earlier set.
SetsShown == part = "pgs" => Pgs!InOrderOnce /\ Pgs!ScreenIsCleared

-----------------------------------------------------------------------------
(* The constants of the run.                                                 *)

\* Page 801 is a subtitle with two subpages, page 101 one without.
MCCarousel == {<<100, 0>>, <<101, 0>>, <<801, 1>>, <<801, 2>>}

MCSizes == {[w |-> 2, h |-> 1], [w |-> 1, h |-> 2]}
MCCorners == {[x |-> 0, y |-> 0]}
MCPlaces == {[x |-> 0, y |-> 1], [x |-> 1, y |-> 0]}
MCCodes == {[kind |-> "pixels", n |-> 1], [kind |-> "transparent", n |-> 2],
            [kind |-> "line", n |-> 0]}
=============================================================================
