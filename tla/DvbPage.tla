------------------------------- MODULE DvbPage -------------------------------
(***************************************************************************)
(* The page of a DVB subtitle, parser/DvbParser.cpp.  The segments of a    *)
(* packet build it up: the page names regions and where they are, a region *)
(* links the objects shown in it, an object paints, through each of its    *)
(* links, the buffer of the region.  The end of a display set composes the *)
(* regions to one picture.  All of it is C: lists linked by hand, buffers  *)
(* and offsets into them.                                                  *)
(***************************************************************************)
EXTENDS Integers, Sequences, SequencesExt, FiniteSets, FiniteSetsExt

CONSTANTS
    Regions, Objects, Cluts,    \* ids
    Sizes,          \* [w, h] of the regions a stream defines
    Corners,        \* [x, y] where a stream puts an object in a region
    Places,         \* [x, y] where a stream puts a region on the page
    Codes,          \* [kind, n]: the pixel codes of an object's data
    MaxLinks,       \* bound: links in a region segment
    MaxCodes        \* bound: codes in a field

VARIABLES
    ctx,        \* regionList, objectList, clutList and displayList of DVBSubContext
    wrote,      \* {[size, last]}: the last bytes that the strings of the segment wrote in
                \* a region's buffer
    picture     \* [box, at]: the picture the segment made and the regions put into it
dvbvars == <<ctx, wrote, picture>>

NoPicture == [box |-> << >>, at |-> {}]
Init ==
    /\ ctx = [region |-> << >>, object |-> << >>, clut |-> {}, page |-> << >>]
    /\ wrote = {}
    /\ picture = NoPicture

-----------------------------------------------------------------------------
(* The lists.  ctx.region maps the ids there are to regions, which keep    *)
(* their links (DVBSubObjectDisplay); ctx.object maps the ids there are to *)
(* the objects' own lists of the same links.                               *)

Without(f, id) == [i \in DOMAIN f \ {id} |-> f[i]]
With(f, id, v) == [i \in DOMAIN f \cup {id} |-> IF i = id THEN v ELSE f[i]]

\* An object with no link left is freed.  objects, links -> objects
Unlinked(objects, link) ==
    IF link.object \notin DOMAIN objects THEN objects
    ELSE LET rest == RemoveFirst(objects[link.object], link)
         IN IF rest = << >> THEN Without(objects, link.object)
            ELSE With(objects, link.object, rest)
\* a mistake that is easily made: the links are freed, their objects keep them
LinksFreed(objects, links) == objects
deleteRegionDisplayList(objects, links) ==
    LET left[n \in 0 .. Len(links)] ==
            IF n = 0 THEN objects ELSE Unlinked(left[n - 1], links[n])
    IN left[Len(links)]

\* deleteRegions(), deleteObjects() and deleteCluts()
Emptied(c) == [c EXCEPT !.region = << >>, !.object = << >>, !.clut = {}]

Linked(objects, link) ==
    With(objects, link.object,
         <<link>> \o IF link.object \in DOMAIN objects THEN objects[link.object] ELSE << >>)
AllLinked(objects, links) ==
    LET made[n \in 0 .. Len(links)] ==
            IF n = 0 THEN objects ELSE Linked(made[n - 1], links[n])
    IN made[Len(links)]

-----------------------------------------------------------------------------
(* The picture.                                                            *)

\* A region of the page enlarges the box.  One that is above what there is
\* and reaches into it is moved up until it does not.  [box, page] -> the same
Enlarged(b, y, d, r) ==
    LET x0 == Min({b.x, d.x})
        x1 == Max({b.x + b.w, d.x + r.w})
    IN [x |-> x0, y |-> y, w |-> x1 - x0, h |-> Max({b.y + b.h, d.y + r.h}) - y]
BoxWith(b, d, r) ==
    IF d.y < b.y /\ b.y - d.y < r.h
    THEN [box |-> Enlarged(b, b.y - r.h, [d EXCEPT !.y = b.y - r.h], r), y |-> b.y - r.h]
    ELSE [box |-> Enlarged(b, Min({b.y, d.y}), d, r), y |-> d.y]

\* The box and the regions of the page so far, with one more, d.
Placed(s, d, r) ==
    IF s.box = << >>
    THEN [box |-> [x |-> d.x, y |-> d.y, w |-> r.w, h |-> r.h], page |-> <<d>>]
    ELSE LET b == BoxWith(s.box, d, r)
         IN [box |-> b.box, page |-> Append(s.page, [d EXCEPT !.y = b.y])]
Boxed(c) ==
    LET placed[n \in 0 .. Len(c.page)] ==
            IF n = 0 THEN [box |-> << >>, page |-> << >>]
            ELSE Placed(placed[n - 1], c.page[n], c.region[c.page[n].region])
    IN placed[Len(c.page)]

\* The regions are put into the picture one after another, until one has no
\* colour table.
PutInto(c, box, page) ==
    LET bare == {i \in DOMAIN page : c.region[page[i].region].clut \notin c.clut}
    IN {[x |-> page[i].x - box.x, y |-> page[i].y - box.y,
         w |-> c.region[page[i].region].w, h |-> c.region[page[i].region].h] :
            i \in {j \in DOMAIN page : \A k \in bare : j < k}}

\* Nothing is touched when a region of the page has not been defined, or when
\* the page has none - though the regions before it may have been moved.
Known(c) == SelectInSeq(c.page, LAMBDA d : d.region \notin DOMAIN c.region) = 0
KnownPart(c) ==
    [c EXCEPT !.page = SubSeq(@, 1, SelectInSeq(@, LAMBDA d : d.region \notin DOMAIN c.region) - 1)]
saveResult2Spu(c) ==
    IF ~Known(c)
    THEN LET moved == Boxed(KnownPart(c)).page
         IN /\ ctx' = [c EXCEPT !.page = moved \o SubSeq(@, Len(moved) + 1, Len(@))]
            /\ picture' = NoPicture
    ELSE LET s == Boxed(c)
         IN /\ ctx' = [c EXCEPT !.page = s.page]
            /\ picture' = IF s.box = << >> THEN NoPicture
                          ELSE [box |-> s.box, at |-> PutInto(c, s.box, s.page)]

-----------------------------------------------------------------------------
(* The segments.                                                           *)

\* The page's list is made anew, each region at its head; then the display
\* set is ended as by its own segment.
parsePageSegment(fresh, page) ==
    /\ saveResult2Spu([(IF fresh THEN Emptied(ctx) ELSE ctx) EXCEPT !.page = Reverse(page)])
    /\ wrote' = {}

\* links: [object, x, y], first to last.  The region is unlinked from the
\* objects it had before it is linked to those it has now.
parseRegionSegment(id, size, clut, links) ==
    LET had == IF id \in DOMAIN ctx.region THEN ctx.region[id].links ELSE << >>
        new == [i \in DOMAIN links |-> [region |-> id, object |-> links[i].object,
                                        x |-> links[i].x, y |-> links[i].y]]
    IN /\ ctx' = [ctx EXCEPT
                    !.region = With(@, id, [w |-> size.w, h |-> size.h, clut |-> clut,
                                            links |-> Reverse(new)]),
                    !.object = AllLinked(deleteRegionDisplayList(@, had), new)]
       /\ wrote' = {} /\ picture' = NoPicture

parseClutSegment(id) ==
    /\ ctx' = [ctx EXCEPT !.clut = @ \cup {id}]
    /\ wrote' = {} /\ picture' = NoPicture

\* A code of a field at [x, y, wrote, ok].  A string of pixels ends with its
\* line; one of transparent pixels may lead beyond it, and so do two pixels
\* that are coded together and find room for one.
\* needReads, what is left of the data, is cut down to what is left of the
\* buffer: a place just below the last line is not an error, and not written.
Room(r, c) == r.w * r.h - (c.y * r.w + c.x)
Invalid(r, c, left) == c.x > r.w \/ c.y > r.h \/ Min({left, Room(r, c)}) < 0
\* a mistake that is easily made: what is left of the data is not cut down
Unclamped(r, c, left) == left
needReads(r, c, left) == Min({left, Room(r, c)})
Painted(r, c, n) ==
    [c EXCEPT !.x = @ + n,
              !.wrote = IF n = 0 THEN @
                        ELSE @ \cup {[size |-> r.w * r.h, last |-> c.y * r.w + c.x + n - 1]}]
String(r, c, code) ==
    CASE code.kind = "pixels" -> Painted(r, c, Min({code.n, r.w - c.x}))
      [] code.kind = "transparent" -> [c EXCEPT !.x = @ + code.n]
Read(r, link, c, code, left) ==
    IF ~c.ok THEN c
    ELSE IF Invalid(r, c, left) THEN [c EXCEPT !.ok = FALSE]
    ELSE IF code.kind = "line" THEN [c EXCEPT !.x = link.x, !.y = @ + 2]
    ELSE IF needReads(r, c, left) = 0 \/ c.x = r.w THEN c
    ELSE String(r, c, code)

\* A field of the object through one link: the bottom one a line below.
parsePixelDataBlock(s, link, codes, bottom) ==
    LET r == ctx.region[link.region]
        step[i \in 0 .. Len(codes)] ==
            IF i = 0
            THEN [x |-> link.x, y |-> link.y + bottom, wrote |-> s.wrote, ok |-> s.ok]
            ELSE Read(r, link, step[i - 1], codes[i], Len(codes) - i + 1)
    IN IF ~s.ok \/ link.region \notin DOMAIN ctx.region THEN s
       ELSE [ok |-> step[Len(codes)].ok, wrote |-> step[Len(codes)].wrote]

\* An object that no region has linked is not wanted.  Without a bottom field
\* the top one serves for both; that it is missing is known for the first link
\* only, for the others what follows in memory is taken.  An invalid place
\* ends the packet; nothing but the lists outlives one.
Bottom(top, bottom, after, first) ==
    IF bottom # << >> THEN bottom ELSE IF first THEN top ELSE after
parseObjectSegment(id, top, bottom, after) ==
    LET links == ctx.object[id]
        through[i \in 0 .. Len(links)] ==
            IF i = 0 THEN [ok |-> TRUE, wrote |-> {}]
            ELSE parsePixelDataBlock(parsePixelDataBlock(through[i - 1], links[i], top, 0),
                                     links[i], Bottom(top, bottom, after, i = 1), 1)
    IN /\ id \in DOMAIN ctx.object
       /\ wrote' = through[Len(links)].wrote
       /\ picture' = NoPicture
       /\ UNCHANGED ctx

displayEndSegment ==
    /\ saveResult2Spu(ctx)
    /\ wrote' = {}

UpTo(S, n) == UNION {[1 .. k -> S] : k \in 0 .. n}
Pages == UpTo({[region |-> id, x |-> p.x, y |-> p.y] : id \in Regions, p \in Places},
              Cardinality(Regions))
Links == UpTo({[object |-> o, x |-> c.x, y |-> c.y] : o \in Objects, c \in Corners}, MaxLinks)

Next ==
    \/ \E fresh \in BOOLEAN, page \in Pages :
        /\ \A i, j \in DOMAIN page : i # j => page[i].region # page[j].region
        /\ parsePageSegment(fresh, page)
    \/ \E id \in Regions, size \in Sizes, clut \in Cluts, links \in Links :
        parseRegionSegment(id, size, clut, links)
    \/ \E id \in Cluts : parseClutSegment(id)
    \/ \E id \in Objects, top \in UpTo(Codes, MaxCodes), bottom \in UpTo(Codes, 1),
         after \in UpTo(Codes, 1) :
        /\ bottom = << >> \/ after = << >>
        /\ parseObjectSegment(id, top, bottom, after)
    \/ displayEndSegment
Spec == Init /\ [][Next]_dvbvars

-----------------------------------------------------------------------------
(* What the parser promises.                                               *)

\* Types.
TypeOK ==
    /\ DOMAIN ctx.region \subseteq Regions /\ DOMAIN ctx.object \subseteq Objects
    /\ ctx.clut \subseteq Cluts
    /\ Len(ctx.page) <= Cardinality(Regions)
    /\ wrote \subseteq [size : Nat, last : Nat]

\* How often a link is in a list, and in the lists of its region and of its object.
Occurs(list, l) == Cardinality({i \in 1 .. Len(list) : list[i] = l})
InRegion(regions, l) ==
    IF l.region \in DOMAIN regions THEN Occurs(regions[l.region].links, l) ELSE 0
InObject(objects, l) ==
    IF l.object \in DOMAIN objects THEN Occurs(objects[l.object], l) ELSE 0

\* Every link of a region is one of an object that there is, and every link of
\* an object is one of a region that there is: no list leads to freed memory.
LinksAgree ==
    /\ \A id \in DOMAIN ctx.region : \A l \in Range(ctx.region[id].links) :
            InObject(ctx.object, l) = InRegion(ctx.region, l)
    /\ \A id \in DOMAIN ctx.object : \A l \in Range(ctx.object[id]) :
            InObject(ctx.object, l) = InRegion(ctx.region, l)

\* Nothing is written outside memory: the regions that are put into the picture
\* are inside its box, whatever was moved to keep them apart, and what an
\* object paints stays in its region, wherever the stream puts it and however
\* long its lines are.
InsideMemory ==
    /\ \A r \in picture.at :
            /\ r.x >= 0 /\ r.x + r.w <= picture.box.w
            /\ r.y >= 0 /\ r.y + r.h <= picture.box.h
    /\ \A p \in wrote : p.last < p.size
=============================================================================
