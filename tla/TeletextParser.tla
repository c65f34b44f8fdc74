--------------------------- MODULE TeletextParser ---------------------------
(***************************************************************************)
(* Teletext as the viewer drives it (TeletextParser.cpp): pages arrive in  *)
(* a carousel and are kept by the vbi decoder, and remote-control commands *)
(* choose which of them is displayed.  The decoder (libzvbi, not in the    *)
(* repository) is the set of pages it has received; what the parser keeps  *)
(* is the context record, the two history stacks and the static status     *)
(* that outlives a parser.                                                 *)
(*                                                                         *)
(* Frames and commands are handled by the parser thread, one at a time     *)
(* under mMutex, so each is one step; so is a change of program.           *)
(***************************************************************************)
EXTENDS Integers, Sequences, FiniteSets

CONSTANTS Carousel,       \* the pages broadcast, as <<page, subpage>>
          Subtitles,      \* the pages among them flagged C6_SUBTITLE
          Askable,        \* the page numbers a command may ask for
          Digits,         \* the digits the viewer types
          SubDigits,      \* TELETEXT_SUBPAGE_NUMBER_OF_DIGITS
          SubCount,       \* TELETEXT_SUBPAGE_NUMBER_COUNT
          Section,        \* DOUBLE_HEIGHT_SCROLL_SECTION
          MaxCommands,    \* bound: commands given
          None

MAX_SUBNO == 16254        \* subpages are below AM_TT2_ANY_SUBNO, 0x3F7F

ASSUME TeletextAssumption ==
  /\ Carousel \subseteq Nat \X (0 .. MAX_SUBNO) /\ Subtitles \subseteq Nat
  /\ Askable \subseteq Nat /\ Digits \subseteq Nat /\ None \notin Nat

HOME == 100
MAX_PAGE == 900
ANY_SUBNO == -2           \* AM_TT2_ANY_SUBNO, no subpage of any page

VARIABLES ctx, vbi, mBackPageStk, mForwardPageStk, mGotoPageNum,
          mGotoSubPageNum, status, screen, asked,
          given           \* how many commands were given
ttvars == <<ctx, vbi, mBackPageStk, mForwardPageStk, mGotoPageNum,
            mGotoSubPageNum, status, screen, asked, given>>

InRange(page) == page >= HOME /\ page < MAX_PAGE
Pages == {at[1] : at \in Carousel} \cup Askable \cup {HOME}
         \cup {n \in {a * 100 + b * 10 + c : a, b, c \in Digits} : InRange(n)}
Subs == {at[2] : at \in Carousel} \cup {0} \cup Digits
SubsOf(page) == {at[2] : at \in {v \in vbi : v[1] = page}}
Received(page, sub) == IF sub = ANY_SUBNO THEN SubsOf(page) # {}
                                          ELSE <<page, sub>> \in vbi

(***************************************************************************)
(* The state after a step: the context, the status and the page displayed  *)
(* whole.  While a page is searched or typed the parser sends only header  *)
(* lines, which are not recorded.                                          *)
(***************************************************************************)
View == [c |-> ctx, st |-> status, scr |-> screen]

Becomes(w) == ctx' = w.c /\ status' = w.st /\ screen' = w.scr

\* fetchVbiPageLocked: the page becomes the current one unless the viewer
\* holds the page; a page the decoder does not have changes nothing.
Copied(c, page, sub) == IF c.lockSubpg THEN c.currentPage ELSE <<page, sub>>

fetchVbiPageLocked(w, page, sub) ==
  IF ~Received(page, sub) THEN w
  ELSE LET now == Copied(w.c, page, sub)
       IN [c |-> [w.c EXCEPT !.isSubtitle = page \in Subtitles,
                             !.pageState = "DISPLAY", !.currentPage = now],
           st |-> [w.st EXCEPT !.lastShowingPage =
                     IF w.c.subtitleMode = "GRAPHICS" THEN page ELSE @],
           scr |-> now]

\* getSubPageInfoLocked: first is the first subpage the decoder lists.  A
\* subpage that was typed is kept while its digits are on the screen.
Firsts(page) == IF SubsOf(page) = {} THEN {0} ELSE SubsOf(page)

getSubPageInfoLocked(w, first) ==
  IF w.c.lockSubpg THEN w
  ELSE IF w.c.gotoSubPageDigitFlag >= SubDigits
  THEN [w EXCEPT !.c.acceptSubPage =
                   IF w.c.subPageNum \in SubsOf(w.c.gotoPage) \cup {0}
                   THEN w.c.subPageNum ELSE @,
                 !.c.gotoSubPageDigitFlag = @ - 1,
                 !.c.gotoSubPageModeFlag =
                   @ /\ w.c.gotoSubPageDigitFlag > SubDigits]
  ELSE [w EXCEPT !.c.acceptSubPage = first, !.c.subPageNum = first]

Accepted(w) == IF w.c.lockSubpg THEN w.c.subPageNum ELSE w.c.acceptSubPage

(***************************************************************************)
(* The commands.                                                           *)
(***************************************************************************)
Here(c) == <<c.gotoPage, c.subPageNum>>
Remembered(c) == IF InRange(c.gotoPage) THEN Append(mBackPageStk, Here(c))
                                        ELSE mBackPageStk

\* gotoPageLocked on the view w; a subtitle is not fetched but awaited
Landed(w, page, sub) ==
  LET graphics == w.c.subtitleMode = "GRAPHICS"
      d == [w EXCEPT !.c.lockSubpg = FALSE, !.c.gotoPage = page,
                     !.c.subPageNum = IF graphics THEN sub ELSE ANY_SUBNO,
                     !.c.acceptSubPage = sub,
                     !.c.dispUpdate = @ \/ graphics]
  IN IF graphics THEN fetchVbiPageLocked(d, page, sub) ELSE d

gotoPageLocked(w, page, sub) ==
  /\ mBackPageStk' = Remembered(w.c)
  /\ Becomes(Landed(w, page, sub))
  /\ UNCHANGED mForwardPageStk

\* updateParameter: asking again for the same page leads to the one last
\* shown; otherwise the page asked for is remembered.
Instead(page) == IF page = status.lastPage THEN status.lastShowingPage ELSE page

Restated(page) ==
  IF page # status.lastPage THEN [lastShowingPage |-> page, lastPage |-> page]
  ELSE IF status.lastShowingPage >= 800 THEN [lastShowingPage |-> HOME, lastPage |-> 800]
  ELSE status

GoTo(st, page) ==
  /\ gotoPageLocked([View EXCEPT !.c.gotoSubPageModeFlag = FALSE,
                                 !.c.pageState = "SEARCH",
                                 !.c.subtitleMode = "GRAPHICS", !.st = st], page, 0)
  /\ UNCHANGED <<vbi, mGotoPageNum, mGotoSubPageNum>>

TT_EVENT_GO_TO_PAGE(page) == GoTo(Restated(page), Instead(page))

\* goHomeLocked, which keeps no history
TT_EVENT_INDEXPAGE ==
  \E first \in Firsts(HOME) :
    LET w == getSubPageInfoLocked(
               [View EXCEPT !.c.subtitleMode = "GRAPHICS", !.c.lockSubpg = FALSE,
                            !.c.gotoPage = HOME, !.c.subPageNum = 0], first)
        d == [w EXCEPT !.c.dispUpdate = TRUE, !.c.pageState = "SEARCH"]
    IN /\ Becomes(fetchVbiPageLocked(d, HOME, Accepted(d)))
       /\ UNCHANGED <<vbi, mBackPageStk, mForwardPageStk, mGotoPageNum, mGotoSubPageNum>>

\* the subtitle key: each press shows the next page of the list
NextId(c) == IF c.subtitlePageId + 1 < Len(c.subtitlePages)
             THEN c.subtitlePageId + 1 ELSE 0

GoToSubtitle(page) ==
  /\ gotoPageLocked([View EXCEPT !.c.subtitleMode = "SUBTITLE"], page, 0)
  /\ UNCHANGED <<vbi, mGotoPageNum, mGotoSubPageNum>>

TT_EVENT_GO_TO_SUBTITLE ==
  \/ /\ ctx.subtitlePages = <<>>
     /\ GoToSubtitle(HOME)
  \/ /\ ctx.subtitlePages # <<>>
     /\ gotoPageLocked([View EXCEPT !.c.subtitleMode = "GRAPHICS",
                                    !.c.subtitlePageId = NextId(ctx)],
                       ctx.subtitlePages[ctx.subtitlePageId + 1], 0)
     /\ UNCHANGED <<vbi, mGotoPageNum, mGotoSubPageNum>>

\* nextPageLocked(dir): the decoder names the neighbour.  The subpage is
\* looked up before gotoPage changes.
Neighbours(page) == {at \in vbi : at[1] # page}

FromPage(c) ==
  IF c.subtitleMode = "SUBTITLE" /\ c.subtitlePages # <<>>
  THEN [c EXCEPT !.subtitleMode = "GRAPHICS",
                 !.gotoPage = c.subtitlePages[c.subtitlePageId + 1]]
  ELSE c

Moved(w, page, first) ==
  LET d == getSubPageInfoLocked([w EXCEPT !.c.subPageNum = 0], first)
  IN [d EXCEPT !.c.gotoPage = page, !.c.dispUpdate = TRUE]

\* from context c to the page at, in the given state while it is fetched
Step(c, at, state, first) ==
  Moved(fetchVbiPageLocked([View EXCEPT !.c = [c EXCEPT !.pageState = state]],
                           at[1], at[2]), at[1], first)

nextPageLocked ==
  LET c == [FromPage(ctx) EXCEPT !.lockSubpg = FALSE]
  IN /\ mBackPageStk' = Remembered(c)
     /\ \/ /\ Neighbours(c.gotoPage) = {}
           /\ Becomes([View EXCEPT !.c = c])
        \/ \E at \in Neighbours(c.gotoPage), first \in Firsts(c.gotoPage) :
             Becomes(Step(c, at, "SEARCH", first))
     /\ UNCHANGED <<vbi, mForwardPageStk, mGotoPageNum, mGotoSubPageNum>>

\* the colour keys: by the four links of the page displayed, whose pages
\* may not have come yet, or, where it has none, some pages further
fetchCountPageLocked ==
  LET c == [ctx EXCEPT !.lockSubpg = FALSE]
  IN /\ mBackPageStk' = Remembered(c)
     /\ \/ Becomes([View EXCEPT !.c = c])
        \/ \E at \in Carousel, first \in Firsts(c.gotoPage) :
             Becomes(Step(c, at, c.pageState, first))
        \/ \E at \in Neighbours(c.gotoPage), past \in vbi :
             \E first \in Firsts(past[1]) : Becomes(Step(c, at, "SEARCH", first))
     /\ UNCHANGED <<vbi, mForwardPageStk, mGotoPageNum, mGotoSubPageNum>>

\* nextSubPageLocked(dir) over the subpages received, in order
Above(sub, subs) == {s \in subs : s > sub}
Below(sub, subs) == {s \in subs : s < sub}
Least(set) == CHOOSE s \in set : \A t \in set : s <= t
Greatest(set) == CHOOSE s \in set : \A t \in set : t <= s
Turned(sub, subs, dir) ==
  LET beyond == IF dir > 0 THEN Above(sub, subs) ELSE Below(sub, subs)
      from == IF sub \notin subs \/ beyond = {} THEN subs ELSE beyond
  IN IF dir > 0 THEN Least(from) ELSE Greatest(from)

\* With no subpage received the next one is 0 and the previous one is read
\* before the array.
Turns(dir) == IF SubsOf(ctx.gotoPage) # {}
              THEN {Turned(ctx.subPageNum, SubsOf(ctx.gotoPage), dir)}
              ELSE IF dir > 0 THEN {0} ELSE Subs

nextSubPageLocked(dir) ==
  \E sub \in Turns(dir) :
    LET w == fetchVbiPageLocked([View EXCEPT !.c.lockSubpg = FALSE], ctx.gotoPage, sub)
    IN /\ Becomes([w EXCEPT !.c.subPageNum = sub, !.c.acceptSubPage = sub,
                            !.c.dispUpdate = TRUE])
       /\ UNCHANGED <<vbi, mBackPageStk, mForwardPageStk, mGotoPageNum, mGotoSubPageNum>>

\* gotoBackPageLocked and gotoForwardPageLocked: the page left goes to the
\* other stack.  Back fetches subpage 0 whatever the subpage was.
Top(stack) == stack[Len(stack)]
Popped(stack) == SubSeq(stack, 1, Len(stack) - 1)

Revisited(at, sub) ==
  fetchVbiPageLocked([View EXCEPT !.c.lockSubpg = FALSE, !.c.gotoPage = at[1],
                                  !.c.subPageNum = at[2], !.c.dispUpdate = TRUE],
                     at[1], sub)

\* a mistake that is easily made: the page left is not the one saved
gotoBackPageUnsaved ==
  /\ Len(mBackPageStk) > 1
  /\ mForwardPageStk' = Append(mForwardPageStk, Top(mBackPageStk))
  /\ mBackPageStk' = Popped(mBackPageStk)
  /\ Becomes(Revisited(Top(mBackPageStk), 0))
  /\ UNCHANGED <<vbi, mGotoPageNum, mGotoSubPageNum>>

gotoBackPageLocked ==
  /\ Len(mBackPageStk) > 1
  /\ mForwardPageStk' = Append(mForwardPageStk, Here(ctx))
  /\ mBackPageStk' = Popped(mBackPageStk)
  /\ Becomes(Revisited(Top(mBackPageStk), 0))
  /\ UNCHANGED <<vbi, mGotoPageNum, mGotoSubPageNum>>

gotoForwardPageLocked ==
  /\ mForwardPageStk # <<>>
  /\ mBackPageStk' = Append(mBackPageStk, Here(ctx))
  /\ mForwardPageStk' = Popped(mForwardPageStk)
  /\ Becomes(Revisited(Top(mForwardPageStk), Top(mForwardPageStk)[2]))
  /\ UNCHANGED <<vbi, mGotoPageNum, mGotoSubPageNum>>

\* the switches: hold, double height and its scrolling, subpage entry
Switched(c) ==
  /\ ctx' = c
  /\ UNCHANGED <<vbi, mBackPageStk, mForwardPageStk, mGotoPageNum, status, screen>>

lockSubpgLocked ==
  /\ Switched([ctx EXCEPT !.lockSubpg = ~@, !.dispUpdate = TRUE])
  /\ UNCHANGED mGotoSubPageNum

setDoubleHeightStateLocked ==
  LET next == CASE ctx.doubleHeight = "NORMAL" -> "TOP"
                [] ctx.doubleHeight = "TOP" -> "BOTTOM"
                [] OTHER -> "NORMAL"
  IN /\ Switched([ctx EXCEPT !.doubleHeight = next,
                             !.heightIndex = IF next = "BOTTOM" THEN Section + 1 ELSE 0])
     /\ UNCHANGED mGotoSubPageNum

ScrollsDown(index) == index \in 0 .. Section
ScrollsUp(index) == index \in 1 .. Section + 1

doubleScrollLocked ==
  /\ ctx.doubleHeight # "NORMAL"
  /\ \/ ScrollsUp(ctx.heightIndex) /\ Switched([ctx EXCEPT !.heightIndex = @ - 1])
     \/ ScrollsDown(ctx.heightIndex) /\ Switched([ctx EXCEPT !.heightIndex = @ + 1])
  /\ UNCHANGED mGotoSubPageNum

TT_EVENT_SUBPAGE_MODE ==
  /\ Switched([ctx EXCEPT !.gotoSubPageModeFlag = ~@, !.gotoSubPageDigitFlag = 0])
  /\ mGotoSubPageNum' = 0

\* gotoSubPageLocked: the last digit completes the number
Entered(c, typed) ==
  LET d == [c EXCEPT !.gotoSubPageDigitFlag = @ + 1,
                     !.dispUpdate = @ \/ c.subtitleMode = "GRAPHICS"]
  IN IF d.gotoSubPageDigitFlag < SubDigits THEN d
     ELSE [d EXCEPT !.subPageNum = typed, !.gotoSubPageDigitFlag = SubCount]

TypeSubpage(n) ==
  /\ ctx.gotoSubPageModeFlag
  /\ ctx.gotoSubPageDigitFlag < SubDigits
  /\ mGotoSubPageNum' = mGotoSubPageNum * 10 + n
  /\ Switched(Entered(ctx, mGotoSubPageNum'))

\* Three digits make a page number.  One that is displayed already, and the
\* number 900, are kept, so that the next digit is lost.
TypePage(n) ==
  LET typed == mGotoPageNum * 10 + n
  IN /\ ~ctx.gotoSubPageModeFlag
     /\ UNCHANGED <<vbi, mGotoSubPageNum>>
     /\ \/ /\ typed \in {0, 9} \/ typed > MAX_PAGE
           /\ mGotoPageNum' = 0
           /\ Becomes(View) /\ UNCHANGED <<mBackPageStk, mForwardPageStk>>
        \/ /\ typed \notin {0, 9} /\ typed <= MAX_PAGE
           /\ ~InRange(typed) \/ typed = ctx.gotoPage
           /\ mGotoPageNum' = typed
           /\ Becomes(View) /\ UNCHANGED <<mBackPageStk, mForwardPageStk>>
        \/ /\ InRange(typed) /\ typed # ctx.gotoPage
           /\ mGotoPageNum' = 0
           /\ gotoPageLocked([View EXCEPT !.c.pageState = "INPUT"], typed, 0)

(***************************************************************************)
(* The carousel: handler is called by the decoder for each page received,  *)
(* tt2TimeUpdate for each change of the clock in the header.               *)
(***************************************************************************)
\* A subtitle page enters the list, which is kept in order.
\* a mistake that is easily made: the list is not sorted
InsertLast(list, page) ==
  IF \E i \in 1 .. Len(list) : list[i] = page THEN list ELSE Append(list, page)

Insert(list, page) ==
  IF \E i \in 1 .. Len(list) : list[i] = page THEN list
  ELSE LET before == Cardinality({i \in 1 .. Len(list) : list[i] < page})
       IN SubSeq(list, 1, before) \o <<page>> \o SubSeq(list, before + 1, Len(list))

Listed(c, page) ==
  IF page \in Subtitles /\ (c.dispUpdate \/ c.subtitlePages = <<>>)
  THEN Insert(c.subtitlePages, page) ELSE c.subtitlePages

\* While a page is displayed no other page, and no other subpage, passes.
\* a mistake that is easily made: only the subpage is compared
PassesBySubpage(c, page, sub) ==
  c.pageState = "DISPLAY" => c.subPageNum \in {ANY_SUBNO, sub}

Passes(c, page, sub) ==
  c.pageState = "DISPLAY" => /\ page = c.gotoPage
                             /\ c.subPageNum \in {ANY_SUBNO, sub}

\* what the page that passes does to the context
Seen(c, page, sub) ==
  LET mine == page = c.gotoPage
      subtitle == page \in Subtitles
  IN [c EXCEPT !.isSubtitle = subtitle, !.subtitlePages = Listed(c, page),
               !.acceptSubPage = IF c.pageState = "DISPLAY" THEN sub ELSE @,
               !.dispUpdate = @ /\ ~(mine /\ subtitle),
               !.pageState = IF mine /\ (subtitle \/ (c.dispUpdate /\ @ = "SEARCH"))
                             THEN "DISPLAY" ELSE @]

\* dispUpdate asks for pages that are no subtitles, else only the subtitle
\* asked for is drawn.
Drawn(c, page) == IF c.dispUpdate THEN page \notin Subtitles
                  ELSE page \in Subtitles /\ c.gotoPage \in {0, page}

Exposed(c, page, sub) ==
  LET now == Copied(c, page, sub)
      shows == c.pageState = "DISPLAY"
  IN [c |-> [c EXCEPT !.currentPage = now],
      st |-> [status EXCEPT !.lastShowingPage =
                IF shows /\ c.subtitleMode = "GRAPHICS" THEN page ELSE @],
      scr |-> IF shows THEN now ELSE screen]

\* Other pages than the one asked for are drawn at most every 200 ms.
handler(page, sub) ==
  /\ vbi' = vbi \cup {<<page, sub>>}
  /\ UNCHANGED <<mBackPageStk, mForwardPageStk, mGotoPageNum, mGotoSubPageNum, asked, given>>
  /\ LET seen == Seen(ctx, page, sub)
         listed == [ctx EXCEPT !.subtitlePages = IF ctx.dispUpdate
                                                 THEN Listed(ctx, page) ELSE @]
     IN \/ /\ ~Passes(ctx, page, sub)
           /\ Becomes([View EXCEPT !.c = listed])
        \/ /\ Passes(ctx, page, sub)
           /\ ~Drawn(seen, page) \/ (seen.dispUpdate /\ ctx.gotoPage \notin {0, page})
           /\ Becomes([View EXCEPT !.c = seen])
        \/ /\ Passes(ctx, page, sub)
           /\ Drawn(seen, page)
           /\ Becomes(Exposed(seen, page, sub))

tt2TimeUpdate ==
  /\ ctx.dispUpdate
  /\ \E first \in Firsts(ctx.gotoPage) :
       LET w == getSubPageInfoLocked(View, first)
           d == [w EXCEPT !.c.acceptSubPage = Accepted(w)]
       IN Becomes(fetchVbiPageLocked(d, ctx.gotoPage, d.c.acceptSubPage))
  /\ UNCHANGED <<vbi, mBackPageStk, mForwardPageStk, mGotoPageNum, mGotoSubPageNum, asked, given>>

(***************************************************************************)
(* Another program: the decoder is deleted with what it received.  A page  *)
(* command that brought the change waits in mControlCmds.                  *)
(***************************************************************************)
ProgramChange(page) ==
  /\ asked = None
  /\ given < MaxCommands /\ given' = given + 1
  /\ vbi' = {}
  /\ ctx' = [ctx EXCEPT !.subtitlePages = <<>>, !.subtitlePageId = 0, !.gotoPage = page]
  /\ status' = [lastShowingPage |-> HOME, lastPage |-> IF page = 0 THEN None ELSE page]
  /\ asked' = IF page = 0 THEN None ELSE page
  /\ UNCHANGED <<mBackPageStk, mForwardPageStk, mGotoPageNum, mGotoSubPageNum, screen>>

handleWaiting ==
  asked # None /\ GoTo(status, asked) /\ asked' = None /\ UNCHANGED given

Command ==
  \/ \E page \in Askable : TT_EVENT_GO_TO_PAGE(page) \/ GoToSubtitle(page)
  \/ TT_EVENT_INDEXPAGE
  \/ TT_EVENT_GO_TO_SUBTITLE
  \/ nextPageLocked
  \/ fetchCountPageLocked
  \/ \E dir \in {1, -1} : nextSubPageLocked(dir)
  \/ gotoBackPageLocked
  \/ gotoForwardPageLocked
  \/ lockSubpgLocked
  \/ setDoubleHeightStateLocked
  \/ doubleScrollLocked
  \/ TT_EVENT_SUBPAGE_MODE
  \/ \E n \in Digits : TypePage(n) \/ TypeSubpage(n)

handleControl ==
  /\ asked = None /\ given < MaxCommands
  /\ Command
  /\ given' = given + 1 /\ UNCHANGED asked

\* initContext, then the command that opens teletext on the home page
Init ==
  /\ ctx = [gotoPage |-> HOME, subPageNum |-> 0, acceptSubPage |-> 0,
            pageState |-> "DISPLAY", subtitleMode |-> "SUBTITLE",
            dispUpdate |-> FALSE, lockSubpg |-> FALSE, isSubtitle |-> FALSE,
            subtitlePages |-> <<>>, subtitlePageId |-> 0, currentPage |-> None,
            gotoSubPageModeFlag |-> FALSE, gotoSubPageDigitFlag |-> 0,
            doubleHeight |-> "NORMAL", heightIndex |-> 0]
  /\ vbi = {}
  /\ mBackPageStk = <<>> /\ mForwardPageStk = <<>>
  /\ mGotoPageNum = 0 /\ mGotoSubPageNum = 0
  /\ status = [lastShowingPage |-> HOME, lastPage |-> HOME]
  /\ screen = None
  /\ asked = HOME /\ given = 0

Next ==
  \/ handleControl
  \/ handleWaiting
  \/ \E at \in Carousel : handler(at[1], at[2])
  \/ tt2TimeUpdate
  \/ \E page \in Askable \cup {0} : ProgramChange(page)

Spec == Init /\ [][Next]_ttvars

(***************************************************************************)
(* Properties.                                                             *)
(***************************************************************************)
\* The state keeps its types; the scroll index stays on the picture.
Displayed == (Pages \X (Subs \cup {ANY_SUBNO})) \cup {None}
Visited == (Pages \cup {0}) \X (Subs \cup {ANY_SUBNO})
TypeOK ==
  /\ ctx.gotoPage \in Pages \cup {0}
  /\ ctx.subPageNum \in Subs \cup {ANY_SUBNO}
  /\ ctx.acceptSubPage \in Subs \cup {ANY_SUBNO}
  /\ ctx.pageState \in {"SEARCH", "DISPLAY", "INPUT"}
  /\ ctx.subtitleMode \in {"GRAPHICS", "SUBTITLE"}
  /\ ctx.currentPage \in Displayed /\ screen \in Displayed
  /\ ctx.gotoSubPageDigitFlag \in 0 .. SubCount
  /\ ctx.heightIndex \in 0 .. Section + 1
  /\ \A i \in 1 .. Len(mBackPageStk) : mBackPageStk[i] \in Visited
  /\ \A i \in 1 .. Len(mForwardPageStk) : mForwardPageStk[i] \in Visited
  /\ mGotoPageNum \in 0 .. MAX_PAGE
  /\ asked \in Askable \cup {None}

\* The subtitle key never leaves the list, which has each page once and in
\* order: subtitlePages is read at subtitlePageId and one beyond without a
\* check of the index.
SubtitleKeyInList ==
  LET list == ctx.subtitlePages
  IN /\ \A i, j \in 1 .. Len(list) : i < j => list[i] < list[j]
     /\ ctx.subtitlePageId = 0 \/ ctx.subtitlePageId < Len(list)

\* Whatever rolls through the decoder while a page is searched or typed, a
\* page is displayed whole only if it is the one last asked for; and one that
\* is held stays, neither the carousel nor the clock replaces it.
OnlyAskedPage ==
  [][/\ screen' # screen /\ ~ctx'.lockSubpg => screen'[1] = ctx'.gotoPage
     /\ ctx.lockSubpg /\ ctx'.lockSubpg => ctx'.currentPage = ctx.currentPage]_ttvars

\* Back and forward walk along one line of visited pages: they lose none
\* and bring none twice.
Line == LET n == Len(mForwardPageStk)
        IN mBackPageStk \o <<Here(ctx)>> \o [i \in 1 .. n |-> mForwardPageStk[n + 1 - i]]
HistoryKept ==
  [][gotoBackPageLocked \/ gotoForwardPageLocked => Line' = Line]_ttvars

\* Only the page that was asked for is shown, whatever else the carousel brings, and the way
\* back is not lost.
PagesFollowed == OnlyAskedPage /\ HistoryKept
=============================================================================
