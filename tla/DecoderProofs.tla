---------------------------- MODULE DecoderProofs ----------------------------
(***************************************************************************)
(* Teletext for any carousel, any subtitle pages and any number of         *)
(* commands: the index of the subtitle key stays in its list, a page is    *)
(* shown whole only if it was asked for, and the history of pages is one   *)
(* line that is walked back and forth.  PGS for any number of display      *)
(* sets: each is shown once and in its order, and what clears the screen   *)
(* has cleared it.  DVB for any segments of any page: its lists of links   *)
(* agree, and it writes inside its buffers only.                           *)
(***************************************************************************)
EXTENDS MCDecoders, FiniteSetTheorems, WellFoundedInduction, TLAPS

Fields == {"gotoPage", "subPageNum", "acceptSubPage", "pageState", "subtitleMode",
           "dispUpdate", "lockSubpg", "isSubtitle", "subtitlePages", "subtitlePageId",
           "currentPage", "gotoSubPageModeFlag", "gotoSubPageDigitFlag", "doubleHeight",
           "heightIndex"}

Sorted(list) == \A i, j \in 1 .. Len(list) : i < j => list[i] < list[j]

\* What the context is made of, its list of subtitles in order and its index in the list.
Context(c) ==
  /\ DOMAIN c = Fields
  /\ c.gotoPage \in Int /\ c.subPageNum \in Int /\ c.acceptSubPage \in Int
  /\ c.lockSubpg \in BOOLEAN
  /\ c.subtitlePages \in Seq(Nat) /\ c.subtitlePageId \in Nat
  /\ Sorted(c.subtitlePages)
  /\ c.subtitlePageId = 0 \/ c.subtitlePageId < Len(c.subtitlePages)

Status(s) == DOMAIN s = {"lastShowingPage", "lastPage"} /\ s.lastShowingPage \in Int

Viewed(w) == DOMAIN w = {"c", "st", "scr"} /\ Context(w.c) /\ Status(w.st)

\* The view w may follow: a page that is new on the screen is the one asked for, and one
\* that is held stays.
Follows(w) ==
  /\ Viewed(w)
  /\ w.scr # screen /\ ~w.c.lockSubpg => w.scr[1] = w.c.gotoPage
  /\ ctx.lockSubpg /\ w.c.lockSubpg => w.c.currentPage = ctx.currentPage

PagePlaces == Int \X Int

\* The pages received and visited, and the numbers that are typed.
Visits ==
  /\ vbi \subseteq Int \X (0 .. MAX_SUBNO)
  /\ mBackPageStk \in Seq(PagePlaces) /\ mForwardPageStk \in Seq(PagePlaces)
  /\ mGotoPageNum \in Int /\ mGotoSubPageNum \in Int
  /\ asked \in Int \cup {None}

Typed == Context(ctx) /\ Status(status) /\ Visits

OnlyAsked ==
  /\ screen' # screen /\ ~ctx'.lockSubpg => screen'[1] = ctx'.gotoPage
  /\ ctx.lockSubpg /\ ctx'.lockSubpg => ctx'.currentPage = ctx.currentPage

LEMMA Numbers ==
  /\ Carousel \subseteq Int \X (0 .. MAX_SUBNO) /\ Subtitles \subseteq Nat
  /\ Askable \subseteq Int /\ Digits \subseteq Int /\ HOME \in Int /\ ANY_SUBNO \in Int
  /\ MAX_PAGE \in Int /\ MAX_SUBNO \in Nat
<1>1. HOME \in Int /\ ANY_SUBNO \in Int /\ MAX_PAGE \in Int /\ MAX_SUBNO \in Nat
  BY DEF HOME, ANY_SUBNO, MAX_PAGE, MAX_SUBNO
<1>2. Subtitles \subseteq Nat /\ Askable \subseteq Int /\ Digits \subseteq Int
  BY TeletextAssumption
<1>3. Carousel \subseteq Int \X (0 .. MAX_SUBNO)
  <2> DEFINE R == 0 .. MAX_SUBNO
  <2>1. Carousel \subseteq Nat \X R
    BY TeletextAssumption
  <2> HIDE DEF R
  <2>2. Nat \X R \subseteq Int \X R
    OBVIOUS
  <2>3. Carousel \subseteq Int \X R
    BY <2>1, <2>2
  <2> QED BY <2>3 DEF R
<1> QED BY <1>1, <1>2, <1>3

-----------------------------------------------------------------------------
(* Sets of numbers, and the list.                                          *)

LEMMA LeastThere ==
  ASSUME NEW S \in SUBSET Nat, S # {}
  PROVE  \E x \in S : \A y \in S : x <= y
<1> DEFINE R == {ss \in Nat \X Nat : ss[1] < ss[2]}
<1>1. IsWellFoundedOn(R, Nat)
  BY NatLessThanWellFounded DEF OpToRel
<1> HIDE DEF R
<1>2. PICK x \in S : \A y \in S : ~(<<y, x>> \in R)
  BY <1>1, WFMin
<1>3. ASSUME NEW y \in S PROVE x <= y
  <2>1. x \in Nat /\ y \in Nat
    OBVIOUS
  <2>2. y < x => <<y, x>> \in R
    BY <2>1 DEF R
  <2> QED BY <1>2, <2>1, <2>2
<1> QED BY <1>3

\* Induction over numbers, for a set of them.
LEMMA Induction ==
  ASSUME NEW P \in SUBSET Nat, 0 \in P, \A n \in P : n + 1 \in P
  PROVE  P = Nat
<1> DEFINE Q == Nat \ P
<1>1. SUFFICES ASSUME Q # {} PROVE FALSE
  OBVIOUS
<1>2. PICK x \in Q : \A y \in Q : x <= y
  BY <1>1, LeastThere
<1>3. x \in Nat /\ x # 0 /\ x - 1 \in Nat
  OBVIOUS
<1>4. x - 1 \in P
  BY <1>2, <1>3
<1>5. (x - 1) + 1 \in P
  BY <1>4
<1> QED BY <1>3, <1>5

\* Steps, from base on: what I says after each is kept by the next, F.
Keeps(N, I, base, F) ==
  base \in I[0] /\ \A n \in 1 .. N : \A x \in I[n - 1] : F[<<x, n>>] \in I[n]
Steps(N, I, base, F, g) ==
  /\ DOMAIN g = 0 .. N /\ g = [n \in 0 .. N |-> g[n]]
  /\ g[0] = base
  /\ \A n \in 1 .. N : g[n] = F[<<g[n - 1], n>>]
  /\ \A n \in 0 .. N : g[n] \in I[n]

\* Recursion over numbers: there is such a sequence of steps.
LEMMA Iteration ==
  ASSUME NEW N \in Nat, NEW I, NEW base, NEW F, Keeps(N, I, base, F)
  PROVE  \E g : Steps(N, I, base, F, g)
<1>0. base \in I[0] /\ \A n \in 1 .. N : \A x \in I[n - 1] : F[<<x, n>>] \in I[n]
  BY DEF Keeps
<1> DEFINE Upto(m, g) == /\ DOMAIN g = 0 .. m /\ g = [i \in 0 .. m |-> g[i]]
                         /\ g[0] = base
                         /\ \A n \in 1 .. m : g[n] = F[<<g[n - 1], n>>]
                         /\ \A n \in 0 .. m : g[n] \in I[n]
           P == {m \in Nat : m <= N => \E g : Upto(m, g)}
<1>1. 0 \in P
  <2> DEFINE g0 == [i \in 0 .. 0 |-> base]
  <2>1. DOMAIN g0 = 0 .. 0 /\ g0[0] = base
    OBVIOUS
  <2>2. \A n \in 0 .. 0 : n = 0
    OBVIOUS
  <2>3. ~ \E n : n \in 1 .. 0
    OBVIOUS
  <2>4. Upto(0, g0)
    BY <1>0, <2>1, <2>2, <2>3
  <2> HIDE DEF g0, Upto
  <2> QED BY <2>4
<1>2. ASSUME NEW m \in P PROVE m + 1 \in P
  <2>1. SUFFICES ASSUME m + 1 <= N PROVE \E g : Upto(m + 1, g)
    <3> HIDE DEF Upto
    <3> QED OBVIOUS
  <2>2. m \in Nat /\ m <= N
    BY <2>1
  <2>3. PICK g : Upto(m, g)
    <3> HIDE DEF Upto
    <3> QED BY <2>2
  <2> DEFINE h == [i \in 0 .. m + 1 |-> IF i <= m THEN g[i] ELSE F[<<g[m], m + 1>>]]
  <2>4. g[m] \in I[m] /\ m + 1 \in 1 .. N /\ (m + 1) - 1 = m
    BY <2>1, <2>2, <2>3
  <2>5. F[<<g[m], m + 1>>] \in I[m + 1]
    BY <1>0, <2>4
  <2>6. /\ DOMAIN h = 0 .. m + 1
        /\ \A i \in 0 .. m : h[i] = g[i]
        /\ h[m + 1] = F[<<g[m], m + 1>>]
    BY <2>2
  <2>7. h = [i \in 0 .. m + 1 |-> h[i]]
    OBVIOUS
  <2> HIDE DEF h
  <2>8. h[0] = base
    BY <2>2, <2>3, <2>6
  <2>9. ASSUME NEW n \in 1 .. m + 1 PROVE h[n] = F[<<h[n - 1], n>>]
    <3>1. CASE n <= m
      <4>1. n \in 1 .. m /\ n \in 0 .. m /\ n - 1 \in 0 .. m
        BY <2>2, <3>1
      <4>2. h[n] = g[n] /\ h[n - 1] = g[n - 1]
        BY <2>6, <4>1
      <4> QED BY <2>3, <4>1, <4>2
    <3>2. CASE n = m + 1
      <4>1. m \in 0 .. m /\ n - 1 = m
        BY <2>2, <3>2
      <4>2. h[m] = g[m]
        BY <2>6, <4>1
      <4> QED BY <2>6, <3>2, <4>1, <4>2
    <3> QED BY <2>2, <3>1, <3>2
  <2>10. ASSUME NEW n \in 0 .. m + 1 PROVE h[n] \in I[n]
    <3>1. CASE n \in 0 .. m
      BY <2>3, <2>6, <3>1
    <3>2. CASE n = m + 1
      BY <2>5, <2>6, <3>2
    <3> QED BY <2>2, <3>1, <3>2
  <2>11. Upto(m + 1, h)
    BY <2>6, <2>7, <2>8, <2>9, <2>10
  <2> HIDE DEF Upto
  <2> QED BY <2>11
<1> HIDE DEF P
<1>3. P = Nat
  <2>1. P \in SUBSET Nat
    BY DEF P
  <2> QED BY <1>1, <1>2, <2>1, Induction
<1>4. N \in P
  BY <1>3
<1> QED BY <1>4 DEF P, Steps

LEMMA LeastIn ==
  ASSUME NEW S \in SUBSET Nat, S # {}
  PROVE  Least(S) \in S
BY LeastThere DEF Least

LEMMA GreatestIn ==
  ASSUME NEW N \in Nat, NEW S \in SUBSET (0 .. N), S # {}
  PROVE  Greatest(S) \in S
<1> DEFINE T == {N - s : s \in S}
<1>0. PICK e \in S : TRUE
  OBVIOUS
<1>1. T \in SUBSET Nat /\ T # {}
  <2>1. \A s \in S : N - s \in Nat
    OBVIOUS
  <2>2. N - e \in T
    OBVIOUS
  <2> QED BY <2>1, <2>2
<1>2. PICK x \in T : \A y \in T : x <= y
  BY <1>1, LeastThere
<1>3. PICK s \in S : x = N - s
  OBVIOUS
<1>4. ASSUME NEW t \in S PROVE t <= s
  <2>1. N - t \in T /\ x <= N - t
    BY <1>2
  <2> QED BY <2>1, <1>3
<1> QED BY <1>4 DEF Greatest

LEMMA Joins ==
  ASSUME NEW S, NEW a \in Seq(S), NEW b \in Seq(S)
  PROVE  /\ a \o b \in Seq(S) /\ Len(a \o b) = Len(a) + Len(b)
         /\ \A i \in 1 .. Len(a) : (a \o b)[i] = a[i]
         /\ \A i \in 1 .. Len(b) : (a \o b)[Len(a) + i] = b[i]
OBVIOUS

LEMMA Inserts ==
  ASSUME NEW list \in Seq(Nat), NEW page \in Nat, Sorted(list)
  PROVE  /\ Insert(list, page) \in Seq(Nat) /\ Sorted(Insert(list, page))
         /\ Len(Insert(list, page)) >= Len(list)
<1>1. CASE \E i \in 1 .. Len(list) : list[i] = page
  BY <1>1 DEF Insert
<1>2. CASE ~\E i \in 1 .. Len(list) : list[i] = page
  <2> DEFINE S == {i \in 1 .. Len(list) : list[i] < page}
  <2>1. \E k \in 0 .. Len(list) : S = 1 .. k
    <3> DEFINE T == {i \in 1 .. Len(list) : ~(list[i] < page)}
    <3>1. CASE T = {}
      BY <3>1
    <3>2. CASE T # {}
      <4>1. T \in SUBSET Nat
        OBVIOUS
      <4>2. PICK m \in T : \A y \in T : m <= y
        BY <3>2, <4>1, LeastThere
      <4>3. m \in 1 .. Len(list) /\ list[m] >= page /\ m - 1 \in 0 .. Len(list)
        OBVIOUS
      <4>4. ASSUME NEW i \in 1 .. Len(list) PROVE list[i] < page <=> i < m
        <5>1. list[i] \in Nat /\ list[m] \in Nat
          BY <4>3
        <5>2. i < m => i \notin T
          BY <4>2, <4>3
        <5>3. i > m => list[m] < list[i]
          BY <4>3 DEF Sorted
        <5> QED BY <5>1, <5>2, <5>3, <4>3
      <4>5. S = 1 .. (m - 1)
        BY <4>3, <4>4
      <4> QED BY <4>3, <4>5
    <3> QED BY <3>1, <3>2
  <2>2. PICK k \in 0 .. Len(list) : S = 1 .. k
    BY <2>1
  <2>3. Cardinality(S) = k
    <3>1. k - 1 + 1 = k /\ (1 > k => k = 0)
      OBVIOUS
    <3>2. Cardinality(1 .. k) = IF 1 > k THEN 0 ELSE k - 1 + 1
      BY FS_Interval
    <3> HIDE DEF S
    <3> QED BY <2>2, <3>1, <3>2
  <2>4. \A i \in 1 .. Len(list) : list[i] \in Nat /\ (i <= k => list[i] < page) /\ (i > k => list[i] > page)
    BY <2>2, <1>2
  <2> HIDE DEF S
  <2> DEFINE new == SubSeq(list, 1, k) \o <<page>> \o SubSeq(list, k + 1, Len(list))
  <2>5. Insert(list, page) = new
    BY <1>2, <2>3 DEF Insert, S
  <2> DEFINE low == SubSeq(list, 1, k)
             high == SubSeq(list, k + 1, Len(list))
             front == low \o <<page>>
  <2>6. /\ low \in Seq(Nat) /\ Len(low) = k
        /\ \A i \in 1 .. k : low[i] = list[i]
    OBVIOUS
  <2>7. /\ high \in Seq(Nat) /\ Len(high) = Len(list) - k
        /\ \A i \in 1 .. (Len(list) - k) : high[i] = list[k + i]
    OBVIOUS
  <2>8. new = front \o high
    OBVIOUS
  <2> HIDE DEF low, high, new
  <2>9. /\ front \in Seq(Nat) /\ Len(front) = k + 1
        /\ front[k + 1] = page
        /\ \A i \in 1 .. k : front[i] = list[i]
    BY <2>6
  <2> HIDE DEF front
  <2>a. /\ new \in Seq(Nat) /\ Len(new) = Len(front) + Len(high)
        /\ \A i \in 1 .. Len(high) : new[Len(front) + i] = high[i]
    <3>1. front \in Seq(Nat) /\ high \in Seq(Nat)
      BY <2>7, <2>9
    <3>2. /\ front \o high \in Seq(Nat) /\ Len(front \o high) = Len(front) + Len(high)
          /\ \A i \in 1 .. Len(high) : (front \o high)[Len(front) + i] = high[i]
      BY <3>1, Joins
    <3> QED BY <2>8, <3>2
  <2>10. /\ new \in Seq(Nat) /\ Len(new) = Len(list) + 1
    BY <2>7, <2>9, <2>a
  <2>11. \A i \in 1 .. (k + 1) : new[i] = front[i]
    BY <2>7, <2>8, <2>9
  <2>12. \A i \in 1 .. (Len(list) - k) : new[k + 1 + i] = high[i]
    BY <2>7, <2>9, <2>a
  <2>13. \A i \in 1 .. Len(list) : i <= k => new[i] = list[i]
    BY <2>9, <2>11
  <2>14. new[k + 1] = page
    BY <2>9, <2>11
  <2>15. \A i \in 1 .. Len(list) : i > k => new[i + 1] = list[i]
    <3> TAKE i \in 1 .. Len(list)
    <3> HAVE i > k
    <3>1. i - k \in 1 .. (Len(list) - k) /\ k + 1 + (i - k) = i + 1 /\ k + (i - k) = i
      OBVIOUS
    <3> QED BY <2>7, <2>12, <3>1
  <2>16. Sorted(new)
    <3>1. \A i, j \in 1 .. Len(list) : i < j => list[i] < list[j]
      BY DEF Sorted
    <3> SUFFICES ASSUME NEW i \in 1 .. (Len(list) + 1), NEW j \in 1 .. (Len(list) + 1), i < j
                 PROVE  new[i] < new[j]
      BY <2>10 DEF Sorted
    <3>2. CASE j <= k
      BY <3>1, <3>2, <2>13
    <3>3. CASE j = k + 1
      <4>1. i \in 1 .. Len(list) /\ i <= k
        BY <3>3
      <4> QED BY <3>3, <4>1, <2>4, <2>13, <2>14
    <3>4. CASE j > k + 1
      <4>1. j - 1 \in 1 .. Len(list) /\ j - 1 > k /\ (j - 1) + 1 = j
        BY <3>4
      <4>2. new[j] = list[j - 1] /\ list[j - 1] > page
        BY <4>1, <2>4, <2>15
      <4>3. CASE i <= k
        <5>1. i \in 1 .. Len(list) /\ i < j - 1
          BY <3>4, <4>3
        <5> QED BY <3>1, <4>1, <4>2, <4>3, <5>1, <2>13
      <4>4. CASE i = k + 1
        BY <4>2, <4>4, <2>14
      <4>5. CASE i > k + 1
        <5>1. i - 1 \in 1 .. Len(list) /\ i - 1 > k /\ (i - 1) + 1 = i /\ i - 1 < j - 1
          BY <4>1, <4>5
        <5>2. new[i] = list[i - 1]
          BY <5>1, <2>15
        <5> QED BY <3>1, <4>1, <4>2, <5>1, <5>2
      <4> QED BY <4>3, <4>4, <4>5
    <3> QED BY <3>2, <3>3, <3>4
  <2> QED BY <2>5, <2>10, <2>16
<1> QED BY <1>1, <1>2

-----------------------------------------------------------------------------
(* What the operators do to a view.                                        *)

\* What fetching a page or looking up its subpages leaves alone.
Alike(c, d) ==
  /\ d.gotoPage = c.gotoPage /\ d.lockSubpg = c.lockSubpg
  /\ d.subtitlePages = c.subtitlePages /\ d.subtitlePageId = c.subtitlePageId

LEMMA ViewFollows ==
  ASSUME Typed
  PROVE  Follows(View) /\ View.c = ctx /\ View.st = status /\ View.scr = screen
BY DEF Typed, Follows, Viewed, View

LEMMA Fetches ==
  ASSUME NEW w, Viewed(w), NEW page \in Int, NEW sub \in Int
  PROVE  LET r == fetchVbiPageLocked(w, page, sub)
         IN /\ Viewed(r) /\ Alike(w.c, r.c) /\ r.c.subPageNum = w.c.subPageNum
            /\ r.scr = w.scr \/ r.scr = Copied(w.c, page, sub)
            /\ w.c.lockSubpg => r.c.currentPage = w.c.currentPage
<1> DEFINE now == Copied(w.c, page, sub)
           c == [w.c EXCEPT !.isSubtitle = page \in Subtitles,
                            !.pageState = "DISPLAY", !.currentPage = now]
           st == [w.st EXCEPT !.lastShowingPage =
                     IF w.c.subtitleMode = "GRAPHICS" THEN page ELSE @]
           r == fetchVbiPageLocked(w, page, sub)
<1>1. CASE ~Received(page, sub)
  <2>1. r = w
    BY <1>1 DEF fetchVbiPageLocked
  <2> HIDE DEF r
  <2> QED BY <2>1 DEF Alike, r
<1>2. CASE Received(page, sub)
  <2>1. r = [c |-> c, st |-> st, scr |-> now]
    BY <1>2 DEF fetchVbiPageLocked
  <2>2. /\ Context(c) /\ Alike(w.c, c) /\ c.subPageNum = w.c.subPageNum
        /\ c.currentPage = now
    BY DEF Viewed, Context, Fields, Alike
  <2>3. Status(st)
    BY DEF Viewed, Status
  <2>4. w.c.lockSubpg => now = w.c.currentPage
    BY DEF Copied
  <2> HIDE DEF c, st, now, r
  <2>5. DOMAIN r = {"c", "st", "scr"} /\ r.c = c /\ r.st = st /\ r.scr = now
    BY <2>1
  <2>6. Viewed(r)
    BY <2>2, <2>3, <2>5 DEF Viewed
  <2>7. r.scr = Copied(w.c, page, sub)
    BY <2>5 DEF now
  <2>8. Alike(w.c, r.c) /\ r.c.subPageNum = w.c.subPageNum /\ r.c.currentPage = now
    BY <2>2, <2>5
  <2> QED BY <2>4, <2>6, <2>7, <2>8 DEF r
<1> QED BY <1>1, <1>2

\* A page that is fetched follows if it is the one asked for, or if it is held.
LEMMA FetchFollows ==
  ASSUME NEW w, Follows(w), w.scr = screen, NEW page \in Int, NEW sub \in Int,
         w.c.lockSubpg \/ page = w.c.gotoPage
  PROVE  Follows(fetchVbiPageLocked(w, page, sub))
<1> DEFINE r == fetchVbiPageLocked(w, page, sub)
<1>1. /\ Viewed(r) /\ Alike(w.c, r.c)
      /\ r.scr = w.scr \/ r.scr = Copied(w.c, page, sub)
      /\ w.c.lockSubpg => r.c.currentPage = w.c.currentPage
  BY Fetches DEF Follows
<1> HIDE DEF r
<1>2. ASSUME r.scr # screen, ~r.c.lockSubpg PROVE r.scr[1] = r.c.gotoPage
  <2>1. r.scr = Copied(w.c, page, sub) /\ ~w.c.lockSubpg
    BY <1>1, <1>2 DEF Alike
  <2>2. r.scr = <<page, sub>>
    BY <2>1 DEF Copied
  <2> QED BY <1>1, <2>1, <2>2 DEF Alike
<1>3. ctx.lockSubpg /\ r.c.lockSubpg => r.c.currentPage = ctx.currentPage
  BY <1>1 DEF Alike, Follows
<1> QED BY <1>1, <1>2, <1>3 DEF Follows, r

LEMMA LooksUp ==
  ASSUME NEW w, Viewed(w), NEW first \in Int
  PROVE  LET r == getSubPageInfoLocked(w, first)
         IN /\ Viewed(r) /\ Alike(w.c, r.c) /\ r.c.currentPage = w.c.currentPage
            /\ r.scr = w.scr /\ Accepted(r) \in Int
<1> DEFINE r == getSubPageInfoLocked(w, first)
           typed == [w EXCEPT !.c.acceptSubPage =
                   IF w.c.subPageNum \in SubsOf(w.c.gotoPage) \cup {0}
                   THEN w.c.subPageNum ELSE @,
                 !.c.gotoSubPageDigitFlag = @ - 1,
                 !.c.gotoSubPageModeFlag =
                   @ /\ w.c.gotoSubPageDigitFlag > SubDigits]
           listed == [w EXCEPT !.c.acceptSubPage = first, !.c.subPageNum = first]
<1>1. r \in {w, typed, listed}
  BY DEF getSubPageInfoLocked
<1>2. /\ Viewed(typed) /\ Alike(w.c, typed.c) /\ typed.c.currentPage = w.c.currentPage
      /\ typed.scr = w.scr
  BY DEF Viewed, Context, Fields, Alike
<1>3. /\ Viewed(listed) /\ Alike(w.c, listed.c) /\ listed.c.currentPage = w.c.currentPage
      /\ listed.scr = w.scr
  BY DEF Viewed, Context, Fields, Alike
<1> HIDE DEF r, typed, listed
<1>4. /\ Viewed(r) /\ Alike(w.c, r.c) /\ r.c.currentPage = w.c.currentPage
      /\ r.scr = w.scr
  BY <1>1, <1>2, <1>3 DEF Alike
<1>5. Accepted(r) \in Int
  BY <1>4 DEF Accepted, Viewed, Context
<1> QED BY <1>4, <1>5 DEF r

\* An assignment to the context that concerns neither the list nor what is on the screen.
LEMMA Adjusts ==
  ASSUME NEW w, Follows(w), NEW r, Viewed(r), r.scr = w.scr,
         r.c.gotoPage = w.c.gotoPage, r.c.lockSubpg = w.c.lockSubpg,
         r.c.currentPage = w.c.currentPage
  PROVE  Follows(r)
BY DEF Follows

\* One that lets go of the page that is held.
LEMMA LetsGo ==
  ASSUME NEW r, Viewed(r), r.scr = screen, ~r.c.lockSubpg
  PROVE  Follows(r)
BY DEF Follows

LEMMA TheyArePlaces ==
  ASSUME Typed
  PROVE  vbi \subseteq PagePlaces /\ Carousel \subseteq PagePlaces
<1>1. \A x \in Int \X (0 .. MAX_SUBNO) : x \in Int \X Int
  <2> TAKE x \in Int \X (0 .. MAX_SUBNO)
  <2>1. x = <<x[1], x[2]>> /\ x[1] \in Int /\ x[2] \in 0 .. MAX_SUBNO
    OBVIOUS
  <2>2. x[2] \in Int
    BY <2>1, Numbers
  <2> QED BY <2>1, <2>2
<1>2. vbi \subseteq Int \X (0 .. MAX_SUBNO) /\ Carousel \subseteq Int \X (0 .. MAX_SUBNO)
  BY Numbers DEF Typed, Visits
<1> QED BY <1>1, <1>2 DEF PagePlaces

LEMMA AcceptedNumber ==
  ASSUME NEW w, Viewed(w)
  PROVE  Accepted(w) \in Int
BY DEF Accepted, Viewed, Context

LEMMA FirstNumbers ==
  ASSUME Typed, NEW page, NEW first \in Firsts(page)
  PROVE  first \in Int
BY DEF Typed, Visits, Firsts, SubsOf

LEMMA RemembersPlaces ==
  ASSUME Typed, NEW c, Context(c)
  PROVE  Remembered(c) \in Seq(PagePlaces) /\ Here(c) \in PagePlaces
<1>1. Here(c) \in PagePlaces
  BY DEF Context, Here, PagePlaces
<1> QED BY <1>1 DEF Remembered, Typed, Visits

\* A step to a view that follows.
Moves == \E w : Follows(w) /\ Becomes(w)

LEMMA MovesWell ==
  ASSUME Moves
  PROVE  Context(ctx)' /\ Status(status)' /\ OnlyAsked
<1>1. PICK w : Follows(w) /\ Becomes(w)
  BY DEF Moves
<1>2. ctx' = w.c /\ status' = w.st /\ screen' = w.scr
  BY <1>1 DEF Becomes
<1>3. Context(w.c) /\ Status(w.st)
  BY <1>1 DEF Follows, Viewed
<1>4. Context(ctx)' /\ Status(status)'
  BY <1>2, <1>3 DEF Context, Status, Sorted
<1> QED BY <1>1, <1>2, <1>4 DEF Follows, OnlyAsked

-----------------------------------------------------------------------------
(* The commands.                                                           *)

LEMMA Lands ==
  ASSUME NEW w, Viewed(w), w.scr = screen, NEW page \in Int, NEW sub \in Int
  PROVE  Follows(Landed(w, page, sub))
<1> DEFINE graphics == w.c.subtitleMode = "GRAPHICS"
           number == IF graphics THEN sub ELSE ANY_SUBNO
           update == w.c.dispUpdate \/ graphics
           d == [w EXCEPT !.c.lockSubpg = FALSE, !.c.gotoPage = page,
                     !.c.subPageNum = number, !.c.acceptSubPage = sub,
                     !.c.dispUpdate = update]
<1>0. number \in Int
  BY Numbers
<1>2. Landed(w, page, sub) = IF graphics THEN fetchVbiPageLocked(d, page, sub) ELSE d
  BY DEF Landed
<1> HIDE DEF number, update
<1>1. Viewed(d) /\ d.scr = screen /\ d.c.lockSubpg = FALSE /\ d.c.gotoPage = page
  BY <1>0 DEF Viewed, Context, Fields
<1> HIDE DEF d
<1>3. Follows(d)
  BY <1>1, LetsGo
<1>4. Follows(fetchVbiPageLocked(d, page, sub))
  BY <1>1, <1>3, FetchFollows
<1> QED BY <1>2, <1>3, <1>4

LEMMA GoesToPage ==
  ASSUME Typed, NEW w, Viewed(w), w.scr = screen, NEW page \in Int,
         gotoPageLocked(w, page, 0)
  PROVE  Moves /\ mBackPageStk' \in Seq(PagePlaces) /\ UNCHANGED mForwardPageStk
<1>1. Follows(Landed(w, page, 0)) /\ Becomes(Landed(w, page, 0))
  BY Lands DEF gotoPageLocked
<1>2. mBackPageStk' \in Seq(PagePlaces)
  BY RemembersPlaces DEF gotoPageLocked, Viewed
<1> QED BY <1>1, <1>2 DEF Moves, gotoPageLocked

LEMMA GoesTo ==
  ASSUME Typed, NEW st, Status(st), NEW page \in Int, GoTo(st, page),
         asked' \in Int \cup {None}
  PROVE  Moves /\ Visits'
<1> DEFINE w == [View EXCEPT !.c.gotoSubPageModeFlag = FALSE,
                             !.c.pageState = "SEARCH",
                             !.c.subtitleMode = "GRAPHICS", !.st = st]
<1>1. Viewed(w) /\ w.scr = screen
  BY DEF Typed, Viewed, View, Context, Fields
<1>2. gotoPageLocked(w, page, 0) /\ UNCHANGED <<vbi, mGotoPageNum, mGotoSubPageNum>>
  BY DEF GoTo
<1> HIDE DEF w
<1>3. Moves /\ mBackPageStk' \in Seq(PagePlaces) /\ UNCHANGED mForwardPageStk
  BY <1>1, <1>2, GoesToPage
<1> QED BY <1>2, <1>3 DEF Typed, Visits

LEMMA GoesToSubtitle ==
  ASSUME Typed, NEW page \in Int, GoToSubtitle(page), UNCHANGED asked
  PROVE  Moves /\ Visits'
<1> DEFINE w == [View EXCEPT !.c.subtitleMode = "SUBTITLE"]
<1>1. Viewed(w) /\ w.scr = screen
  BY DEF Typed, Viewed, View, Context, Fields
<1>2. gotoPageLocked(w, page, 0) /\ UNCHANGED <<vbi, mGotoPageNum, mGotoSubPageNum>>
  BY DEF GoToSubtitle
<1> HIDE DEF w
<1>3. Moves /\ mBackPageStk' \in Seq(PagePlaces) /\ UNCHANGED mForwardPageStk
  BY <1>1, <1>2, GoesToPage
<1> QED BY <1>2, <1>3 DEF Typed, Visits
LEMMA Command1 ==
  ASSUME Typed, NEW page \in Askable, TT_EVENT_GO_TO_PAGE(page), UNCHANGED asked
  PROVE  Moves /\ Visits'
<1>1. page \in Int /\ Instead(page) \in Int
  BY Numbers DEF Instead, Typed, Status
<1>2. Status(Restated(page))
  BY <1>1, Numbers DEF Restated, Typed, Status
<1>3. asked' \in Int \cup {None}
  BY DEF Typed, Visits
<1> QED BY <1>1, <1>2, <1>3, GoesTo DEF TT_EVENT_GO_TO_PAGE

LEMMA Command2 ==
  ASSUME Typed, TT_EVENT_INDEXPAGE, UNCHANGED asked
  PROVE  Moves /\ Visits'
<1> DEFINE v == [View EXCEPT !.c.subtitleMode = "GRAPHICS", !.c.lockSubpg = FALSE,
                             !.c.gotoPage = HOME, !.c.subPageNum = 0]
           w(first) == getSubPageInfoLocked(v, first)
           d(first) == [w(first) EXCEPT !.c.dispUpdate = TRUE, !.c.pageState = "SEARCH"]
<1>1. PICK first \in Firsts(HOME) :
        Becomes(fetchVbiPageLocked(d(first), HOME, Accepted(d(first))))
  BY DEF TT_EVENT_INDEXPAGE
<1>2. /\ Viewed(v) /\ v.scr = screen /\ v.c.gotoPage = HOME /\ v.c.lockSubpg = FALSE
  <2>1. HOME \in Int
    BY Numbers
  <2> DEFINE u == [View EXCEPT !.c.subtitleMode = "GRAPHICS", !.c.lockSubpg = FALSE]
  <2>2. v = [u EXCEPT !.c.gotoPage = HOME, !.c.subPageNum = 0]
    OBVIOUS
  <2>3. Viewed(u) /\ u.scr = screen /\ u.c.lockSubpg = FALSE
    BY DEF Typed, Viewed, View, Context, Fields
  <2> HIDE DEF u, v
  <2>4. DOMAIN v = {"c", "st", "scr"} /\ v.scr = screen /\ v.st = u.st
    BY <2>2, <2>3 DEF Viewed
  <2>5. v.c = [u.c EXCEPT !.gotoPage = HOME, !.subPageNum = 0]
    BY <2>2, <2>3 DEF Viewed
  <2>6. Context(v.c) /\ v.c.gotoPage = HOME /\ v.c.lockSubpg = FALSE
    BY <2>1, <2>3, <2>5 DEF Viewed, Context, Fields
  <2> QED BY <2>3, <2>4, <2>6 DEF Viewed
<1>3. first \in Int
  BY FirstNumbers
<1> HIDE DEF v
<1>4. /\ Viewed(w(first)) /\ w(first).scr = screen
      /\ w(first).c.gotoPage = HOME /\ w(first).c.lockSubpg = FALSE
  BY <1>2, <1>3, LooksUp DEF Alike
<1> HIDE DEF w
<1>5. /\ Viewed(d(first)) /\ d(first).scr = screen
      /\ d(first).c.gotoPage = HOME /\ d(first).c.lockSubpg = FALSE
  BY <1>4 DEF Viewed, Context, Fields
<1> HIDE DEF d
<1>6. Follows(d(first)) /\ Accepted(d(first)) \in Int
  BY <1>5, LetsGo, AcceptedNumber
<1>7. Follows(fetchVbiPageLocked(d(first), HOME, Accepted(d(first))))
  BY <1>5, <1>6, FetchFollows, Numbers
<1>8. Moves
  BY <1>1, <1>7 DEF Moves
<1>9. UNCHANGED <<vbi, mBackPageStk, mForwardPageStk, mGotoPageNum, mGotoSubPageNum>>
  BY DEF TT_EVENT_INDEXPAGE
<1> QED BY <1>8, <1>9 DEF Typed, Visits

LEMMA NextInList ==
  ASSUME Typed, ctx.subtitlePages # <<>>
  PROVE  /\ NextId(ctx) \in Nat
         /\ NextId(ctx) = 0 \/ NextId(ctx) < Len(ctx.subtitlePages)
         /\ ctx.subtitlePages[ctx.subtitlePageId + 1] \in Nat
<1>1. /\ ctx.subtitlePages \in Seq(Nat) /\ ctx.subtitlePageId \in Nat
      /\ ctx.subtitlePageId = 0 \/ ctx.subtitlePageId < Len(ctx.subtitlePages)
  BY DEF Typed, Context
<1>2. Len(ctx.subtitlePages) \in Nat /\ Len(ctx.subtitlePages) > 0
  BY <1>1
<1>3. ctx.subtitlePageId + 1 \in 1 .. Len(ctx.subtitlePages)
  BY <1>1, <1>2
<1> QED BY <1>1, <1>2, <1>3 DEF NextId

LEMMA Command3 ==
  ASSUME Typed, TT_EVENT_GO_TO_SUBTITLE, UNCHANGED asked
  PROVE  Moves /\ Visits'
<1>1. CASE ctx.subtitlePages = <<>> /\ GoToSubtitle(HOME)
  BY <1>1, GoesToSubtitle, Numbers
<1>2. CASE ctx.subtitlePages # <<>>
  <2> DEFINE next == NextId(ctx)
             page == ctx.subtitlePages[ctx.subtitlePageId + 1]
             w == [View EXCEPT !.c.subtitleMode = "GRAPHICS", !.c.subtitlePageId = next]
  <2>1. gotoPageLocked(w, page, 0) /\ UNCHANGED <<vbi, mGotoPageNum, mGotoSubPageNum>>
    BY <1>2 DEF TT_EVENT_GO_TO_SUBTITLE
  <2>2. next \in Nat /\ (next = 0 \/ next < Len(ctx.subtitlePages)) /\ page \in Int
    BY <1>2, NextInList
  <2> HIDE DEF next, page
  <2>3. Viewed(w) /\ w.scr = screen
    BY <2>2 DEF Typed, Viewed, View, Context, Fields
  <2> HIDE DEF w
  <2>4. Moves /\ mBackPageStk' \in Seq(PagePlaces) /\ UNCHANGED mForwardPageStk
    BY <2>1, <2>2, <2>3, GoesToPage
  <2> QED BY <2>1, <2>4 DEF Typed, Visits
<1> QED BY <1>1, <1>2 DEF TT_EVENT_GO_TO_SUBTITLE

\* A step to another page: what is fetched is what is asked for afterwards.
LEMMA StepFollows ==
  ASSUME Typed, NEW c, Context(c), c.lockSubpg = FALSE, NEW at \in PagePlaces, NEW state,
         NEW first \in Int
  PROVE  Follows(Step(c, at, state, first))
<1> DEFINE v == [View EXCEPT !.c = [c EXCEPT !.pageState = state]]
           w == fetchVbiPageLocked(v, at[1], at[2])
           x == [w EXCEPT !.c.subPageNum = 0]
           d == getSubPageInfoLocked(x, first)
           r == [d EXCEPT !.c.gotoPage = at[1], !.c.dispUpdate = TRUE]
<1>1. Step(c, at, state, first) = r
  BY DEF Step, Moved
<1>2. Viewed(v) /\ v.scr = screen /\ v.c.lockSubpg = FALSE
  BY DEF Typed, Viewed, View, Context, Fields
<1>3. at[1] \in Int /\ at[2] \in Int
  BY DEF PagePlaces
<1> HIDE DEF v
<1>4. /\ Viewed(w) /\ w.c.lockSubpg = FALSE
      /\ w.scr = screen \/ w.scr = Copied(v.c, at[1], at[2])
  BY <1>2, <1>3, Fetches DEF Alike
<1>5. w.scr = screen \/ w.scr = <<at[1], at[2]>>
  BY <1>2, <1>4 DEF Copied
<1> HIDE DEF w
<1>6. Viewed(x) /\ x.c.lockSubpg = FALSE /\ x.scr = w.scr
  <2>1. DOMAIN w = {"c", "st", "scr"} /\ DOMAIN w.c = Fields /\ Context(w.c)
    BY <1>4 DEF Viewed, Context
  <2>2. x.c = [w.c EXCEPT !.subPageNum = 0] /\ x.st = w.st /\ x.scr = w.scr
        /\ DOMAIN x = {"c", "st", "scr"}
    BY <2>1
  <2> HIDE DEF x
  <2>3. Context(x.c) /\ x.c.lockSubpg = w.c.lockSubpg
    BY <2>1, <2>2 DEF Context, Fields
  <2> QED BY <1>4, <2>2, <2>3 DEF Viewed
<1> HIDE DEF x
<1>7. Viewed(d) /\ d.c.lockSubpg = FALSE /\ d.scr = w.scr
  BY <1>6, LooksUp DEF Alike
<1> HIDE DEF d
<1>8. /\ Viewed(r) /\ r.c.lockSubpg = FALSE /\ r.scr = w.scr /\ r.c.gotoPage = at[1]
  BY <1>3, <1>7 DEF Viewed, Context, Fields
<1> HIDE DEF r
<1>9. r.scr # screen => r.scr[1] = r.c.gotoPage
  BY <1>5, <1>8
<1> QED BY <1>1, <1>8, <1>9 DEF Follows

LEMMA Command4 ==
  ASSUME Typed, nextPageLocked, UNCHANGED asked
  PROVE  Moves /\ Visits'
<1> DEFINE f == FromPage(ctx)
           c == [f EXCEPT !.lockSubpg = FALSE]
           w == [View EXCEPT !.c = c]
<1>1. /\ mBackPageStk' = Remembered(c)
      /\ \/ Becomes(w)
         \/ \E at \in Neighbours(c.gotoPage), first \in Firsts(c.gotoPage) :
              Becomes(Step(c, at, "SEARCH", first))
      /\ UNCHANGED <<vbi, mForwardPageStk, mGotoPageNum, mGotoSubPageNum>>
  BY DEF nextPageLocked
<1>2. Context(f)
  <2>1. CASE ctx.subtitlePages # <<>>
    <3> DEFINE page == ctx.subtitlePages[ctx.subtitlePageId + 1]
               g == [ctx EXCEPT !.subtitleMode = "GRAPHICS", !.gotoPage = page]
    <3>1. f = ctx \/ f = g
      BY DEF FromPage
    <3>2. page \in Int
      BY <2>1, NextInList
    <3> HIDE DEF page, f
    <3>3. Context(g)
      BY <3>2 DEF Typed, Context, Fields
    <3> HIDE DEF g
    <3> QED BY <3>1, <3>3 DEF Typed
  <2>2. CASE ctx.subtitlePages = <<>>
    <3>1. f = ctx
      BY <2>2 DEF FromPage
    <3> QED BY <3>1 DEF Typed
  <2> QED BY <2>1, <2>2
<1> HIDE DEF f
<1>3. Context(c) /\ c.lockSubpg = FALSE
  BY <1>2 DEF Context, Fields
<1> HIDE DEF c
<1>4. Follows(w)
  <2>1. Viewed(w) /\ w.scr = screen /\ w.c.lockSubpg = FALSE
    BY <1>3 DEF Typed, Viewed, View
  <2> QED BY <2>1, LetsGo
<1> HIDE DEF w
<1>5. ASSUME NEW at \in Neighbours(c.gotoPage), NEW first \in Firsts(c.gotoPage)
      PROVE  Follows(Step(c, at, "SEARCH", first))
  <2>1. at \in PagePlaces
    BY TheyArePlaces DEF Neighbours
  <2>2. first \in Int
    BY FirstNumbers
  <2> QED BY <1>3, <2>1, <2>2, StepFollows
<1>6. Moves
  BY <1>1, <1>4, <1>5 DEF Moves
<1>7. mBackPageStk' \in Seq(PagePlaces)
  BY <1>1, <1>3, RemembersPlaces
<1> QED BY <1>1, <1>6, <1>7 DEF Typed, Visits

LEMMA Command5 ==
  ASSUME Typed, fetchCountPageLocked, UNCHANGED asked
  PROVE  Moves /\ Visits'
<1> DEFINE c == [ctx EXCEPT !.lockSubpg = FALSE]
           w == [View EXCEPT !.c = c]
<1>1. /\ mBackPageStk' = Remembered(c)
      /\ \/ Becomes(w)
         \/ \E at \in Carousel, first \in Firsts(c.gotoPage) :
              Becomes(Step(c, at, c.pageState, first))
         \/ \E at \in Neighbours(c.gotoPage), past \in vbi :
              \E first \in Firsts(past[1]) : Becomes(Step(c, at, "SEARCH", first))
      /\ UNCHANGED <<vbi, mForwardPageStk, mGotoPageNum, mGotoSubPageNum>>
  BY DEF fetchCountPageLocked
<1>3. Context(c) /\ c.lockSubpg = FALSE
  BY DEF Typed, Context, Fields
<1> HIDE DEF c
<1>4. Follows(w)
  <2>1. Viewed(w) /\ w.scr = screen /\ w.c.lockSubpg = FALSE
    BY <1>3 DEF Typed, Viewed, View
  <2> QED BY <2>1, LetsGo
<1> HIDE DEF w
<1>5. ASSUME NEW at \in Carousel \cup vbi, NEW page, NEW first \in Firsts(page), NEW state
      PROVE  Follows(Step(c, at, state, first))
  <2>1. at \in PagePlaces
    BY TheyArePlaces
  <2>2. first \in Int
    BY FirstNumbers
  <2> QED BY <1>3, <2>1, <2>2, StepFollows
<1>6. ASSUME Becomes(w) PROVE Moves
  BY <1>4, <1>6 DEF Moves
<1>7. ASSUME NEW at \in Carousel, NEW first \in Firsts(c.gotoPage),
             Becomes(Step(c, at, c.pageState, first))
      PROVE  Moves
  BY <1>5, <1>7 DEF Moves
<1>8. ASSUME NEW at \in Neighbours(c.gotoPage), NEW past \in vbi, NEW first \in Firsts(past[1]),
             Becomes(Step(c, at, "SEARCH", first))
      PROVE  Moves
  <2>1. at \in Carousel \cup vbi
    BY DEF Neighbours
  <2> QED BY <1>5, <1>8, <2>1 DEF Moves
<1>9. Moves
  BY <1>1, <1>6, <1>7, <1>8
<1>10. mBackPageStk' \in Seq(PagePlaces)
  BY <1>1, <1>3, RemembersPlaces
<1>11. UNCHANGED <<vbi, mForwardPageStk, mGotoPageNum, mGotoSubPageNum, asked>>
  BY <1>1
<1>12. Visits'
  BY <1>10, <1>11 DEF Typed, Visits
<1> QED BY <1>9, <1>12

LEMMA TurnsNumbers ==
  ASSUME Typed, NEW dir, NEW sub \in Turns(dir)
  PROVE  sub \in Int
<1> DEFINE subs == SubsOf(ctx.gotoPage)
<1>1. subs \in SUBSET (0 .. MAX_SUBNO) /\ MAX_SUBNO \in Nat
  BY Numbers DEF Typed, Visits, SubsOf
<1>2. Subs \subseteq Int
  <2>1. \A at \in Carousel : at[2] \in Int
    BY Numbers
  <2>2. Digits \subseteq Int /\ 0 \in Int
    BY Numbers
  <2> QED BY <2>1, <2>2 DEF Subs
<1>3. CASE subs # {}
  <2> DEFINE beyond == IF dir > 0 THEN Above(ctx.subPageNum, subs) ELSE Below(ctx.subPageNum, subs)
             from == IF ctx.subPageNum \notin subs \/ beyond = {} THEN subs ELSE beyond
  <2>1. sub = IF dir > 0 THEN Least(from) ELSE Greatest(from)
    BY <1>3 DEF Turns, Turned
  <2>2. beyond \subseteq subs
    BY DEF Above, Below
  <2> HIDE DEF subs, beyond
  <2>3. from \in SUBSET (0 .. MAX_SUBNO) /\ from # {} /\ from \in SUBSET Nat
    BY <1>1, <1>3, <2>2
  <2> HIDE DEF from
  <2>4. Least(from) \in from
    BY <2>3, LeastIn
  <2>5. Greatest(from) \in from
    BY <1>1, <2>3, GreatestIn
  <2>6. \A s \in from : s \in Int
    BY <2>3
  <2> QED BY <2>1, <2>4, <2>5, <2>6
<1>4. CASE subs = {}
  <2>1. Turns(dir) = {0} \/ Turns(dir) = Subs
    BY <1>4 DEF Turns
  <2>2. \A s \in Subs \cup {0} : s \in Int
    BY <1>2
  <2> HIDE DEF subs
  <2>3. sub \in Subs \cup {0}
    BY <2>1
  <2> QED BY <2>2, <2>3
<1> QED BY <1>3, <1>4

LEMMA Command6 ==
  ASSUME Typed, NEW dir \in {1, -1}, nextSubPageLocked(dir), UNCHANGED asked
  PROVE  Moves /\ Visits'
<1> DEFINE v == [View EXCEPT !.c.lockSubpg = FALSE]
           w(sub) == fetchVbiPageLocked(v, ctx.gotoPage, sub)
           r(sub) == [w(sub) EXCEPT !.c.subPageNum = sub, !.c.acceptSubPage = sub,
                                    !.c.dispUpdate = TRUE]
<1>1. PICK sub \in Turns(dir) : Becomes(r(sub))
  BY DEF nextSubPageLocked
<1>2. sub \in Int
  BY TurnsNumbers
<1>3. /\ Viewed(v) /\ v.scr = screen /\ v.c.lockSubpg = FALSE
      /\ v.c.gotoPage = ctx.gotoPage /\ ctx.gotoPage \in Int
  BY DEF Typed, Viewed, View, Context, Fields
<1> HIDE DEF v
<1>4. Follows(v)
  BY <1>3, LetsGo
<1>5. Follows(w(sub))
  BY <1>2, <1>3, <1>4, FetchFollows
<1> HIDE DEF w
<1>6. /\ Viewed(r(sub)) /\ r(sub).scr = w(sub).scr
      /\ r(sub).c.gotoPage = w(sub).c.gotoPage /\ r(sub).c.lockSubpg = w(sub).c.lockSubpg
      /\ r(sub).c.currentPage = w(sub).c.currentPage
  BY <1>2, <1>5 DEF Follows, Viewed, Context, Fields
<1> HIDE DEF r
<1>7. Follows(r(sub))
  BY <1>5, <1>6, Adjusts
<1>8. Moves
  BY <1>1, <1>7 DEF Moves
<1>9. UNCHANGED <<vbi, mBackPageStk, mForwardPageStk, mGotoPageNum, mGotoSubPageNum>>
  BY DEF nextSubPageLocked
<1> QED BY <1>8, <1>9 DEF Typed, Visits

LEMMA RevisitFollows ==
  ASSUME Typed, NEW at \in PagePlaces, NEW sub \in Int
  PROVE  Follows(Revisited(at, sub))
<1> DEFINE w == [View EXCEPT !.c.lockSubpg = FALSE, !.c.gotoPage = at[1],
                             !.c.subPageNum = at[2], !.c.dispUpdate = TRUE]
<1>1. at[1] \in Int /\ at[2] \in Int
  BY DEF PagePlaces
<1>2. Viewed(w) /\ w.scr = screen /\ w.c.lockSubpg = FALSE /\ w.c.gotoPage = at[1]
  BY <1>1 DEF Typed, Viewed, View, Context, Fields
<1>3. Revisited(at, sub) = fetchVbiPageLocked(w, at[1], sub)
  BY DEF Revisited
<1> HIDE DEF w
<1> QED BY <1>1, <1>2, <1>3, LetsGo, FetchFollows

LEMMA Stacks ==
  ASSUME NEW stack \in Seq(PagePlaces), Len(stack) > 0
  PROVE  /\ Top(stack) \in PagePlaces /\ Popped(stack) \in Seq(PagePlaces)
         /\ Len(Popped(stack)) = Len(stack) - 1
         /\ \A i \in 1 .. (Len(stack) - 1) : Popped(stack)[i] = stack[i]
<1>1. Len(stack) \in 1 .. Len(stack) /\ Len(stack) - 1 \in Nat
  OBVIOUS
<1>2. Top(stack) \in PagePlaces
  BY <1>1 DEF Top
<1> DEFINE n == Len(stack) - 1
<1>3. /\ SubSeq(stack, 1, n) \in Seq(PagePlaces) /\ Len(SubSeq(stack, 1, n)) = n
      /\ \A i \in 1 .. n : SubSeq(stack, 1, n)[i] = stack[i]
  <2>1. n \in 0 .. Len(stack)
    BY <1>1
  <2> HIDE DEF n
  <2> QED BY <2>1
<1> QED BY <1>2, <1>3 DEF Popped

LEMMA Command7 ==
  ASSUME Typed, gotoBackPageLocked, UNCHANGED asked
  PROVE  Moves /\ Visits'
<1>1. Top(mBackPageStk) \in PagePlaces /\ Popped(mBackPageStk) \in Seq(PagePlaces)
  BY Stacks DEF Typed, Visits, gotoBackPageLocked
<1>2. Follows(Revisited(Top(mBackPageStk), 0))
  BY <1>1, RevisitFollows
<1>3. Here(ctx) \in PagePlaces
  BY RemembersPlaces DEF Typed
<1>4. mForwardPageStk' \in Seq(PagePlaces)
  BY <1>3 DEF gotoBackPageLocked, Typed, Visits
<1>5. Moves
  BY <1>2 DEF gotoBackPageLocked, Moves
<1>6. mBackPageStk' \in Seq(PagePlaces) /\ UNCHANGED <<vbi, mGotoPageNum, mGotoSubPageNum>>
  BY <1>1 DEF gotoBackPageLocked
<1> QED BY <1>4, <1>5, <1>6 DEF Typed, Visits

LEMMA Command8 ==
  ASSUME Typed, gotoForwardPageLocked, UNCHANGED asked
  PROVE  Moves /\ Visits'
<1>0. mForwardPageStk \in Seq(PagePlaces) /\ Len(mForwardPageStk) > 0
  BY DEF Typed, Visits, gotoForwardPageLocked
<1>1. Top(mForwardPageStk) \in PagePlaces /\ Popped(mForwardPageStk) \in Seq(PagePlaces)
  BY <1>0, Stacks
<1>2. Top(mForwardPageStk)[2] \in Int
  BY <1>1 DEF PagePlaces
<1>3. Follows(Revisited(Top(mForwardPageStk), Top(mForwardPageStk)[2]))
  BY <1>1, <1>2, RevisitFollows
<1>4. Here(ctx) \in PagePlaces
  BY RemembersPlaces DEF Typed
<1>5. mBackPageStk' \in Seq(PagePlaces)
  BY <1>4 DEF gotoForwardPageLocked, Typed, Visits
<1>6. Moves
  BY <1>3 DEF gotoForwardPageLocked, Moves
<1>7. mForwardPageStk' \in Seq(PagePlaces) /\ UNCHANGED <<vbi, mGotoPageNum, mGotoSubPageNum>>
  BY <1>1 DEF gotoForwardPageLocked
<1> QED BY <1>5, <1>6, <1>7 DEF Typed, Visits

\* The switches change nothing of the page that is held, nor of the list.
LEMMA Switches ==
  ASSUME Typed, NEW c, Switched(c), Context(c), c.currentPage = ctx.currentPage,
         mGotoSubPageNum' \in Int, UNCHANGED asked
  PROVE  Moves /\ Visits'
<1> DEFINE w == [c |-> c, st |-> status, scr |-> screen]
<1>1. Viewed(w)
  BY DEF Typed, Viewed
<1>2. Follows(w)
  BY <1>1 DEF Follows
<1>3. Becomes(w)
  BY DEF Switched, Becomes
<1>4. UNCHANGED <<vbi, mBackPageStk, mForwardPageStk, mGotoPageNum>>
  BY DEF Switched
<1> QED BY <1>2, <1>3, <1>4 DEF Typed, Visits, Moves

LEMMA Command9 ==
  ASSUME Typed, UNCHANGED asked,
         \/ lockSubpgLocked \/ setDoubleHeightStateLocked
         \/ doubleScrollLocked \/ TT_EVENT_SUBPAGE_MODE
  PROVE  Moves /\ Visits'
<1>1. mGotoSubPageNum \in Int /\ Context(ctx)
  BY DEF Typed, Visits
<1>2. CASE lockSubpgLocked
  <2> DEFINE c == [ctx EXCEPT !.lockSubpg = ~@, !.dispUpdate = TRUE]
  <2>1. Context(c) /\ c.currentPage = ctx.currentPage
    BY <1>1 DEF Context, Fields
  <2>2. Switched(c) /\ mGotoSubPageNum' = mGotoSubPageNum
    BY <1>2 DEF lockSubpgLocked
  <2> HIDE DEF c
  <2> QED BY <1>1, <2>1, <2>2, Switches
<1>3. CASE setDoubleHeightStateLocked
  <2>1. PICK next, index : /\ Switched([ctx EXCEPT !.doubleHeight = next, !.heightIndex = index])
                           /\ mGotoSubPageNum' = mGotoSubPageNum
    BY <1>3 DEF setDoubleHeightStateLocked
  <2> DEFINE c == [ctx EXCEPT !.doubleHeight = next, !.heightIndex = index]
  <2>2. Context(c) /\ c.currentPage = ctx.currentPage
    BY <1>1 DEF Context, Fields
  <2> HIDE DEF c
  <2> QED BY <1>1, <2>1, <2>2, Switches DEF c
<1>4. CASE doubleScrollLocked
  <2>1. PICK index : /\ Switched([ctx EXCEPT !.heightIndex = index])
                     /\ mGotoSubPageNum' = mGotoSubPageNum
    BY <1>4 DEF doubleScrollLocked
  <2> DEFINE c == [ctx EXCEPT !.heightIndex = index]
  <2>2. Context(c) /\ c.currentPage = ctx.currentPage
    BY <1>1 DEF Context, Fields
  <2> HIDE DEF c
  <2> QED BY <1>1, <2>1, <2>2, Switches DEF c
<1>5. CASE TT_EVENT_SUBPAGE_MODE
  <2> DEFINE c == [ctx EXCEPT !.gotoSubPageModeFlag = ~@, !.gotoSubPageDigitFlag = 0]
  <2>1. Context(c) /\ c.currentPage = ctx.currentPage
    BY <1>1 DEF Context, Fields
  <2>2. Switched(c) /\ mGotoSubPageNum' = 0
    BY <1>5 DEF TT_EVENT_SUBPAGE_MODE
  <2> HIDE DEF c
  <2> QED BY <1>1, <2>1, <2>2, Switches
<1> QED BY <1>2, <1>3, <1>4, <1>5

LEMMA Command10 ==
  ASSUME Typed, UNCHANGED asked, NEW n \in Digits, TypeSubpage(n)
  PROVE  Moves /\ Visits'
<1>1. mGotoSubPageNum' = mGotoSubPageNum * 10 + n /\ mGotoSubPageNum' \in Int
  BY Numbers DEF TypeSubpage, Typed, Visits
<1> DEFINE c == Entered(ctx, mGotoSubPageNum')
           update == ctx.dispUpdate \/ ctx.subtitleMode = "GRAPHICS"
           d == [ctx EXCEPT !.gotoSubPageDigitFlag = @ + 1, !.dispUpdate = update]
           e == [d EXCEPT !.subPageNum = mGotoSubPageNum', !.gotoSubPageDigitFlag = SubCount]
<1>2. Switched(c)
  BY DEF TypeSubpage
<1>3. c = d \/ c = e
  BY DEF Entered
<1> HIDE DEF update, c
<1>4. Context(d) /\ d.currentPage = ctx.currentPage
  BY DEF Typed, Context, Fields
<1> HIDE DEF d
<1>5. Context(e) /\ e.currentPage = d.currentPage
  BY <1>1, <1>4 DEF Context, Fields
<1> HIDE DEF e
<1> QED BY <1>1, <1>2, <1>3, <1>4, <1>5, Switches

LEMMA Command11 ==
  ASSUME Typed, UNCHANGED asked, NEW n \in Digits, TypePage(n)
  PROVE  Moves /\ Visits'
<1> DEFINE typed == mGotoPageNum * 10 + n
           w == [View EXCEPT !.c.pageState = "INPUT"]
<1>1. typed \in Int
  BY Numbers DEF Typed, Visits
<1>2. UNCHANGED <<vbi, mGotoSubPageNum>> /\ mGotoPageNum' \in {0, typed}
  BY DEF TypePage
<1>3. \/ Becomes(View) /\ UNCHANGED <<mBackPageStk, mForwardPageStk>>
      \/ gotoPageLocked(w, typed, 0)
  BY DEF TypePage
<1> HIDE DEF typed
<1>4. Viewed(w) /\ w.scr = screen
  BY DEF Typed, Viewed, View, Context, Fields
<1> HIDE DEF w
<1>5. Moves /\ mBackPageStk' \in Seq(PagePlaces) /\ mForwardPageStk' \in Seq(PagePlaces)
  <2>1. CASE Becomes(View) /\ UNCHANGED <<mBackPageStk, mForwardPageStk>>
    BY <2>1, ViewFollows DEF Moves, Typed, Visits
  <2>2. CASE gotoPageLocked(w, typed, 0)
    <3>1. Moves /\ mBackPageStk' \in Seq(PagePlaces) /\ UNCHANGED mForwardPageStk
      BY <1>1, <1>4, <2>2, GoesToPage
    <3> QED BY <3>1 DEF Typed, Visits
  <2> QED BY <1>3, <2>1, <2>2
<1> QED BY <1>1, <1>2, <1>5 DEF Typed, Visits

-----------------------------------------------------------------------------
(* The carousel and the program.                                           *)

LEMMA Lists ==
  ASSUME Typed, NEW page \in Int
  PROVE  LET list == Listed(ctx, page)
         IN list \in Seq(Nat) /\ Sorted(list) /\ Len(list) >= Len(ctx.subtitlePages)
<1>1. ctx.subtitlePages \in Seq(Nat) /\ Sorted(ctx.subtitlePages)
  BY DEF Typed, Context
<1>2. CASE page \in Subtitles
  <2>1. page \in Nat
    BY <1>2, Numbers
  <2>2. LET list == Insert(ctx.subtitlePages, page)
        IN list \in Seq(Nat) /\ Sorted(list) /\ Len(list) >= Len(ctx.subtitlePages)
    BY <1>1, <2>1, Inserts
  <2>3. \/ Listed(ctx, page) = Insert(ctx.subtitlePages, page)
        \/ Listed(ctx, page) = ctx.subtitlePages
    BY DEF Listed
  <2>4. Len(ctx.subtitlePages) >= Len(ctx.subtitlePages)
    BY <1>1
  <2> QED BY <1>1, <2>2, <2>3, <2>4
<1>3. CASE page \notin Subtitles
  <2>1. Listed(ctx, page) = ctx.subtitlePages
    BY <1>3 DEF Listed
  <2>2. Len(ctx.subtitlePages) >= Len(ctx.subtitlePages)
    BY <1>1
  <2> QED BY <1>1, <2>1, <2>2
<1> QED BY <1>2, <1>3

\* A longer list in order keeps the index where it may be.
LEMMA LongerList ==
  ASSUME Context(ctx), NEW list \in Seq(Nat), Sorted(list), Len(list) >= Len(ctx.subtitlePages),
         NEW c, DOMAIN c = Fields, c.subtitlePages = list,
         c.subtitlePageId = ctx.subtitlePageId, c.gotoPage = ctx.gotoPage,
         c.subPageNum = ctx.subPageNum, c.lockSubpg = ctx.lockSubpg, c.acceptSubPage \in Int
  PROVE  Context(c)
<1>1. ctx.subtitlePageId = 0 \/ ctx.subtitlePageId < Len(list)
  <2>1. /\ ctx.subtitlePageId \in Nat /\ Len(list) \in Nat /\ Len(ctx.subtitlePages) \in Nat
        /\ ctx.subtitlePageId = 0 \/ ctx.subtitlePageId < Len(ctx.subtitlePages)
    BY DEF Context
  <2> QED BY <2>1
<1> QED BY <1>1 DEF Context

LEMMA Handles ==
  ASSUME Typed, NEW at \in Carousel, handler(at[1], at[2])
  PROVE  Moves /\ Visits'
<1> DEFINE page == at[1]
           sub == at[2]
           seen == Seen(ctx, page, sub)
           listed == [ctx EXCEPT !.subtitlePages = IF ctx.dispUpdate
                                                   THEN Listed(ctx, page) ELSE @]
<1>1. at \in Int \X (0 .. MAX_SUBNO) /\ page \in Int /\ sub \in Int /\ at = <<page, sub>>
  <2>1. at \in Int \X (0 .. MAX_SUBNO) /\ MAX_SUBNO \in Nat
    BY Numbers
  <2>2. page \in Int /\ sub \in 0 .. MAX_SUBNO /\ at = <<page, sub>>
    BY <2>1
  <2> QED BY <2>1, <2>2
<1>2. Visits'
  <2>1. vbi' = vbi \cup {at}
    BY <1>1 DEF handler
  <2>2. UNCHANGED <<mBackPageStk, mForwardPageStk, mGotoPageNum, mGotoSubPageNum, asked>>
    BY DEF handler
  <2> QED BY <1>1, <2>1, <2>2 DEF Typed, Visits
<1>3. \/ Becomes([View EXCEPT !.c = listed])
      \/ Becomes([View EXCEPT !.c = seen])
      \/ Passes(ctx, page, sub) /\ Becomes(Exposed(seen, page, sub))
  BY DEF handler
<1> DEFINE list == Listed(ctx, page)
<1>4. list \in Seq(Nat) /\ Sorted(list) /\ Len(list) >= Len(ctx.subtitlePages)
  BY <1>1, Lists
<1>5. Context(ctx) /\ Context(listed) /\ listed.currentPage = ctx.currentPage
      /\ listed.lockSubpg = ctx.lockSubpg
  <2> HIDE DEF list
  <2> DEFINE longer == [ctx EXCEPT !.subtitlePages = list]
             same == [ctx EXCEPT !.subtitlePages = @]
  <2>1. listed = longer \/ listed = same
    BY DEF list
  <2>2. Context(ctx)
    BY DEF Typed
  <2>3. /\ DOMAIN longer = Fields /\ longer.subtitlePages = list
        /\ longer.subtitlePageId = ctx.subtitlePageId /\ longer.gotoPage = ctx.gotoPage
        /\ longer.subPageNum = ctx.subPageNum /\ longer.lockSubpg = ctx.lockSubpg
        /\ longer.acceptSubPage \in Int /\ longer.currentPage = ctx.currentPage
    BY <2>2 DEF Context, Fields
  <2>4. Context(same) /\ same.currentPage = ctx.currentPage /\ same.lockSubpg = ctx.lockSubpg
    BY <2>2 DEF Context, Fields
  <2> HIDE DEF longer, same, listed
  <2>5. Context(longer)
    BY <1>4, <2>2, <2>3, LongerList
  <2> QED BY <2>1, <2>2, <2>3, <2>4, <2>5
<1>6. /\ Context(seen) /\ seen.currentPage = ctx.currentPage
      /\ seen.lockSubpg = ctx.lockSubpg /\ seen.gotoPage = ctx.gotoPage
      /\ Passes(ctx, page, sub) /\ seen.pageState = "DISPLAY" => page = ctx.gotoPage
  <2> DEFINE mine == page = ctx.gotoPage
             subtitle == page \in Subtitles
             accept == IF ctx.pageState = "DISPLAY" THEN sub ELSE ctx.acceptSubPage
             update == ctx.dispUpdate /\ ~(mine /\ subtitle)
             state == IF mine /\ (subtitle \/ (ctx.dispUpdate /\ ctx.pageState = "SEARCH"))
                      THEN "DISPLAY" ELSE ctx.pageState
             c == [ctx EXCEPT !.isSubtitle = subtitle, !.subtitlePages = list,
                              !.acceptSubPage = accept, !.dispUpdate = update,
                              !.pageState = state]
  <2>1. seen = c
    BY <1>5 DEF Seen, Context, Fields
  <2>2. accept \in Int
    BY <1>1, <1>5 DEF Context
  <2>3. Passes(ctx, page, sub) /\ state = "DISPLAY" => mine
    BY DEF Passes
  <2> HIDE DEF seen, list, subtitle, accept, update, state
  <2>4. /\ DOMAIN c = Fields /\ c.subtitlePages = list
        /\ c.subtitlePageId = ctx.subtitlePageId /\ c.gotoPage = ctx.gotoPage
        /\ c.subPageNum = ctx.subPageNum /\ c.lockSubpg = ctx.lockSubpg
        /\ c.acceptSubPage \in Int /\ c.currentPage = ctx.currentPage /\ c.pageState = state
    BY <1>5, <2>2 DEF Context, Fields
  <2> HIDE DEF c
  <2>5. Context(c)
    BY <1>4, <1>5, <2>4, LongerList
  <2> QED BY <2>1, <2>3, <2>4, <2>5
<1> HIDE DEF listed, seen, list
<1>7. Follows([View EXCEPT !.c = listed])
  BY <1>5 DEF Typed, View, Viewed, Follows
<1>8. Follows([View EXCEPT !.c = seen])
  BY <1>6 DEF Typed, View, Viewed, Follows
<1>9. Passes(ctx, page, sub) => Follows(Exposed(seen, page, sub))
  <2> DEFINE now == Copied(seen, page, sub)
             shows == seen.pageState = "DISPLAY"
             c == [seen EXCEPT !.currentPage = now]
             last == IF shows /\ seen.subtitleMode = "GRAPHICS" THEN page ELSE status.lastShowingPage
             st == [status EXCEPT !.lastShowingPage = last]
             scr == IF shows THEN now ELSE screen
             r == [c |-> c, st |-> st, scr |-> scr]
  <2>1. Exposed(seen, page, sub) = r
    BY DEF Exposed, Typed, Status
  <2>2. /\ seen.lockSubpg => now = ctx.currentPage
        /\ ~seen.lockSubpg => now = <<page, sub>>
    BY <1>6 DEF Copied
  <2>3. last \in Int
    BY <1>1 DEF Typed, Status
  <2>4. Passes(ctx, page, sub) /\ scr # screen => page = ctx.gotoPage /\ scr = now
    BY <1>6
  <2> HIDE DEF page, sub, now, last, scr
  <2>5. Context(c) /\ c.lockSubpg = seen.lockSubpg /\ c.gotoPage = ctx.gotoPage
        /\ c.currentPage = now
    BY <1>6 DEF Context, Fields
  <2>6. Status(st)
    BY <2>3 DEF Typed, Status
  <2> HIDE DEF c, st
  <2>7. Viewed(r)
    BY <2>5, <2>6 DEF Viewed
  <2>8. Passes(ctx, page, sub) => Follows(r)
    BY <2>2, <2>4, <2>5, <2>7 DEF Follows
  <2> QED BY <2>1, <2>8
<1>10. Moves
  BY <1>3, <1>7, <1>8, <1>9 DEF Moves
<1> QED BY <1>2, <1>10

LEMMA TimeUpdates ==
  ASSUME Typed, tt2TimeUpdate
  PROVE  Moves /\ Visits'
<1> DEFINE w(first) == getSubPageInfoLocked(View, first)
           d(first) == [w(first) EXCEPT !.c.acceptSubPage = Accepted(w(first))]
<1>1. PICK first \in Firsts(ctx.gotoPage) :
        Becomes(fetchVbiPageLocked(d(first), ctx.gotoPage, d(first).c.acceptSubPage))
  BY DEF tt2TimeUpdate
<1>2. first \in Int
  BY FirstNumbers
<1>3. /\ Viewed(w(first)) /\ Alike(ctx, w(first).c)
      /\ w(first).c.currentPage = ctx.currentPage
      /\ w(first).scr = screen /\ Accepted(w(first)) \in Int
  <2>1. Viewed(View) /\ View.c = ctx /\ View.scr = screen
    BY ViewFollows DEF Follows
  <2> QED BY <1>2, <2>1, LooksUp
<1> HIDE DEF w
<1>4. /\ Viewed(d(first)) /\ d(first).scr = screen
      /\ d(first).c.gotoPage = ctx.gotoPage /\ d(first).c.lockSubpg = ctx.lockSubpg
      /\ d(first).c.currentPage = ctx.currentPage /\ d(first).c.acceptSubPage \in Int
  BY <1>3 DEF Viewed, Context, Fields, Alike
<1> HIDE DEF d
<1>5. Follows(d(first))
  BY <1>4 DEF Follows
<1>6. ctx.gotoPage \in Int
  BY DEF Typed, Context
<1>7. Follows(fetchVbiPageLocked(d(first), ctx.gotoPage, d(first).c.acceptSubPage))
  BY <1>4, <1>5, <1>6, FetchFollows
<1>8. Moves
  BY <1>1, <1>7 DEF Moves
<1>9. UNCHANGED <<vbi, mBackPageStk, mForwardPageStk, mGotoPageNum, mGotoSubPageNum, asked>>
  BY DEF tt2TimeUpdate
<1> QED BY <1>8, <1>9 DEF Typed, Visits

LEMMA ChangesProgram ==
  ASSUME Typed, NEW page \in Askable \cup {0}, ProgramChange(page)
  PROVE  Moves /\ Visits'
<1> DEFINE c == [ctx EXCEPT !.subtitlePages = <<>>, !.subtitlePageId = 0, !.gotoPage = page]
           st == [lastShowingPage |-> HOME, lastPage |-> IF page = 0 THEN None ELSE page]
           w == [c |-> c, st |-> st, scr |-> screen]
<1>1. page \in Int
  BY Numbers
<1>2. Becomes(w)
  BY DEF ProgramChange, Becomes
<1>3. Context(c) /\ c.currentPage = ctx.currentPage
  <2> DEFINE none == <<>>
  <2>1. none \in Seq(Nat) /\ Sorted(none)
    BY DEF Sorted
  <2> DEFINE e == [ctx EXCEPT !.subtitlePages = none, !.subtitlePageId = 0, !.gotoPage = page]
  <2>2. c = e
    OBVIOUS
  <2> HIDE DEF none, c
  <2>3. Context(e) /\ e.currentPage = ctx.currentPage
    BY <1>1, <2>1 DEF Typed, Context, Fields
  <2> QED BY <2>2, <2>3
<1>4. Status(st)
  BY Numbers DEF Status
<1> HIDE DEF c, st
<1>5. Follows(w)
  BY <1>3, <1>4 DEF Viewed, Follows
<1>6. Moves
  BY <1>2, <1>5 DEF Moves
<1>7. /\ vbi' = {} /\ asked' = (IF page = 0 THEN None ELSE page)
      /\ UNCHANGED <<mBackPageStk, mForwardPageStk, mGotoPageNum, mGotoSubPageNum>>
  BY DEF ProgramChange
<1> QED BY <1>1, <1>6, <1>7 DEF Typed, Visits

-----------------------------------------------------------------------------
LEMMA InitTyped == Init => Typed
<1> SUFFICES ASSUME Init PROVE Typed
  OBVIOUS
<1> DEFINE none == <<>>
<1>1. none \in Seq(Nat) /\ Sorted(none) /\ none \in Seq(PagePlaces)
  BY DEF Sorted
<1>2. ctx = [gotoPage |-> HOME, subPageNum |-> 0, acceptSubPage |-> 0,
            pageState |-> "DISPLAY", subtitleMode |-> "SUBTITLE",
            dispUpdate |-> FALSE, lockSubpg |-> FALSE, isSubtitle |-> FALSE,
            subtitlePages |-> none, subtitlePageId |-> 0, currentPage |-> None,
            gotoSubPageModeFlag |-> FALSE, gotoSubPageDigitFlag |-> 0,
            doubleHeight |-> "NORMAL", heightIndex |-> 0]
  BY DEF Init
<1>3. /\ mBackPageStk = none /\ mForwardPageStk = none /\ vbi = {}
      /\ mGotoPageNum = 0 /\ mGotoSubPageNum = 0
      /\ status = [lastShowingPage |-> HOME, lastPage |-> HOME] /\ asked = HOME
  BY DEF Init
<1>4. HOME \in Int
  BY Numbers
<1> HIDE DEF none
<1>5. Context(ctx)
  BY <1>1, <1>2, <1>4 DEF Context, Fields
<1>6. Status(status) /\ Visits
  BY <1>1, <1>3, <1>4 DEF Status, Visits
<1> QED BY <1>5, <1>6 DEF Typed

LEMMA NextTyped == Typed /\ [Next]_ttvars => Typed' /\ (OnlyAsked \/ UNCHANGED ttvars)
<1> SUFFICES ASSUME Typed, [Next]_ttvars PROVE Typed' /\ (OnlyAsked \/ UNCHANGED ttvars)
  OBVIOUS
<1>1. CASE UNCHANGED ttvars
  BY <1>1 DEF ttvars, Typed, Context, Status, Visits, Sorted
<1>2. ASSUME Next PROVE Moves /\ Visits'
  <2>1. CASE handleControl
    <3>1. Command /\ UNCHANGED asked
      BY <2>1 DEF handleControl
    <3> QED BY <3>1, GoesToSubtitle, Numbers, Command1, Command2, Command3, Command4, Command5,
               Command6, Command7, Command8, Command9, Command10, Command11 DEF Command
  <2>2. CASE handleWaiting
    <3>1. asked \in Int /\ GoTo(status, asked) /\ asked' = None /\ Status(status)
      BY <2>2 DEF handleWaiting, Typed, Visits
    <3> QED BY <3>1, GoesTo
  <2>3. ASSUME NEW at \in Carousel, handler(at[1], at[2]) PROVE Moves /\ Visits'
    BY <2>3, Handles
  <2>4. CASE tt2TimeUpdate
    BY <2>4, TimeUpdates
  <2>5. ASSUME NEW page \in Askable \cup {0}, ProgramChange(page) PROVE Moves /\ Visits'
    BY <2>5, ChangesProgram
  <2> QED BY <1>2, <2>1, <2>2, <2>3, <2>4, <2>5 DEF Next
<1>3. CASE Next
  BY <1>2, <1>3, MovesWell DEF Typed
<1> QED BY <1>1, <1>3

\* The subtitle key never reads the list of subtitle pages beyond its end: the list has each
\* page once and in order, it only grows until the program changes, and then the index is
\* taken back with it (TeletextParser.cpp: handler, handleControl and updateParameter).
THEOREM SubtitleKeyInListAlways == Spec => []SubtitleKeyInList
<1>1. Typed => SubtitleKeyInList
  BY DEF Typed, Context, Sorted, SubtitleKeyInList
<1> QED BY <1>1, InitTyped, NextTyped, PTL DEF Spec

\* Whatever the carousel brings while a page is searched or typed, only the page asked for
\* is shown whole, and a page that is held stays (handler and fetchVbiPageLocked, with
\* lockSubpg set).
THEOREM OnlyAskedPageAlways == Spec => OnlyAskedPage
<1>1. Typed /\ [Next]_ttvars => [OnlyAsked]_ttvars
  BY NextTyped
<1>2. Spec => [][OnlyAsked]_ttvars
  BY <1>1, InitTyped, NextTyped, PTL DEF Spec
<1> QED BY <1>2 DEF OnlyAskedPage, OnlyAsked
-----------------------------------------------------------------------------
(* The history: back and forward move along one row of visited pages.      *)
Row(back, here, forward) ==
  LET n == Len(forward)
  IN back \o <<here>> \o [i \in 1 .. n |-> forward[n + 1 - i]]

LEMMA Rows ==
  ASSUME NEW back \in Seq(PagePlaces), NEW here \in PagePlaces, NEW forward \in Seq(PagePlaces)
  PROVE  Row(back, here, forward) =
           [i \in 1 .. (Len(back) + 1 + Len(forward)) |->
              IF i <= Len(back) THEN back[i]
              ELSE IF i = Len(back) + 1 THEN here
              ELSE forward[Len(back) + Len(forward) + 2 - i]]
<1> DEFINE b == Len(back)
           n == Len(forward)
           rest == [i \in 1 .. n |-> forward[n + 1 - i]]
           start == back \o <<here>>
<1>1. b \in Nat /\ n \in Nat /\ <<here>> \in Seq(PagePlaces)
  OBVIOUS
<1>2. rest \in Seq(PagePlaces) /\ Len(rest) = n /\ \A j \in 1 .. n : rest[j] = forward[n + 1 - j]
  OBVIOUS
<1>3. /\ start \in Seq(PagePlaces) /\ Len(start) = b + 1
      /\ \A i \in 1 .. b : start[i] = back[i]
      /\ start[b + 1] = here
  <2>1. /\ start \in Seq(PagePlaces) /\ Len(start) = b + Len(<<here>>)
        /\ \A i \in 1 .. b : start[i] = back[i]
        /\ \A i \in 1 .. Len(<<here>>) : start[b + i] = <<here>>[i]
    BY <1>1, Joins
  <2>2. Len(<<here>>) = 1 /\ <<here>>[1] = here
    OBVIOUS
  <2>3. start[b + 1] = <<here>>[1]
    BY <2>1, <2>2
  <2> QED BY <2>1, <2>2, <2>3
<1> HIDE DEF rest, start
<1>4. /\ start \o rest \in Seq(PagePlaces) /\ Len(start \o rest) = b + 1 + n
      /\ \A i \in 1 .. (b + 1) : (start \o rest)[i] = start[i]
      /\ \A j \in 1 .. n : (start \o rest)[b + 1 + j] = rest[j]
  <2>1. /\ start \o rest \in Seq(PagePlaces) /\ Len(start \o rest) = Len(start) + Len(rest)
        /\ \A i \in 1 .. Len(start) : (start \o rest)[i] = start[i]
        /\ \A j \in 1 .. Len(rest) : (start \o rest)[Len(start) + j] = rest[j]
    <3>1. start \in Seq(PagePlaces) /\ rest \in Seq(PagePlaces)
      BY <1>2, <1>3
    <3> QED BY <3>1, Joins
  <2> QED BY <2>1, <1>2, <1>3
<1>5. Row(back, here, forward) = start \o rest
  BY DEF Row, start, rest
<1> DEFINE row == start \o rest
<1>6. /\ \A i \in 1 .. b : row[i] = back[i]
      /\ row[b + 1] = here
      /\ \A j \in 1 .. n : row[b + 1 + j] = forward[n + 1 - j]
  BY <1>1, <1>2, <1>3, <1>4
<1> HIDE DEF row, b, n
<1>7. ASSUME NEW i \in 1 .. (b + 1 + n)
      PROVE  row[i] = IF i <= b THEN back[i] ELSE IF i = b + 1 THEN here
                      ELSE forward[b + n + 2 - i]
  <2>1. CASE i <= b
    BY <1>6, <2>1
  <2>2. CASE i = b + 1
    BY <1>1, <1>6, <2>2
  <2>3. CASE i > b + 1
    <3>1. PICK j \in 1 .. n : i = b + 1 + j
      <4>1. i - (b + 1) \in 1 .. n /\ i = b + 1 + (i - (b + 1))
        BY <1>1, <2>3
      <4> QED BY <4>1
    <3>2. row[i] = forward[n + 1 - j] /\ n + 1 - j = b + n + 2 - i
      BY <1>1, <1>6, <3>1
    <3> QED BY <1>1, <2>3, <3>2
  <2> QED BY <1>1, <2>1, <2>2, <2>3
<1>8. row = [i \in 1 .. (b + 1 + n) |-> row[i]]
  <2>1. row \in Seq(PagePlaces) /\ Len(row) = b + 1 + n
    BY <1>4 DEF row
  <2> QED BY <2>1
<1> QED BY <1>5, <1>7, <1>8 DEF row, b, n

\* One step back and one step forward leave the row as it is.
LEMMA RowBack ==
  ASSUME NEW back \in Seq(PagePlaces), NEW here \in PagePlaces, NEW forward \in Seq(PagePlaces),
         Len(back) > 0
  PROVE  Row(Popped(back), Top(back), Append(forward, here)) = Row(back, here, forward)
<1>1. /\ Top(back) \in PagePlaces /\ Popped(back) \in Seq(PagePlaces)
      /\ Len(Popped(back)) = Len(back) - 1
      /\ \A i \in 1 .. (Len(back) - 1) : Popped(back)[i] = back[i]
  BY Stacks
<1>2. /\ Append(forward, here) \in Seq(PagePlaces)
      /\ Len(Append(forward, here)) = Len(forward) + 1
      /\ \A i \in 1 .. Len(forward) : Append(forward, here)[i] = forward[i]
      /\ Append(forward, here)[Len(forward) + 1] = here
  OBVIOUS
<1> DEFINE b == Len(back)
           n == Len(forward)
           to == Append(forward, here)
           from == Popped(back)
<1>3. b \in Nat /\ n \in Nat /\ Top(back) = back[b]
  BY DEF Top
<1>4. Row(from, Top(back), to) =
        [i \in 1 .. (Len(from) + 1 + Len(to)) |->
           IF i <= Len(from) THEN from[i]
           ELSE IF i = Len(from) + 1 THEN Top(back)
           ELSE to[Len(from) + Len(to) + 2 - i]]
  BY <1>1, <1>2, Rows
<1>5. Row(back, here, forward) =
        [i \in 1 .. (b + 1 + n) |->
           IF i <= b THEN back[i] ELSE IF i = b + 1 THEN here
           ELSE forward[b + n + 2 - i]]
  BY Rows
<1> HIDE DEF b, n, to, from
<1>6. Len(from) + 1 + Len(to) = b + 1 + n
  BY <1>1, <1>2, <1>3 DEF b, n, to, from
<1>7. ASSUME NEW i \in 1 .. (b + 1 + n)
      PROVE  (IF i <= Len(from) THEN from[i]
              ELSE IF i = Len(from) + 1 THEN Top(back)
              ELSE to[Len(from) + Len(to) + 2 - i])
             = (IF i <= b THEN back[i] ELSE IF i = b + 1 THEN here
                ELSE forward[b + n + 2 - i])
  <2>1. Len(from) = b - 1 /\ Len(to) = n + 1 /\ Len(from) + Len(to) + 2 - i = b + n + 2 - i
    BY <1>1, <1>2, <1>3 DEF b, n, to, from
  <2>2. CASE i <= b - 1
    BY <1>1, <1>3, <2>1, <2>2 DEF b, from
  <2>3. CASE i = b
    BY <1>3, <2>1, <2>3
  <2>4. CASE i = b + 1
    <3>1. b + n + 2 - i = n + 1
      BY <1>3, <2>4
    <3> QED BY <1>2, <1>3, <2>1, <2>4, <3>1 DEF n, to
  <2>5. CASE i > b + 1
    <3>1. b + n + 2 - i \in 1 .. n
      BY <1>3, <2>5
    <3> QED BY <1>2, <1>3, <2>1, <2>5, <3>1 DEF n, to
  <2> QED BY <1>3, <2>2, <2>3, <2>4, <2>5
<1> QED BY <1>4, <1>5, <1>6, <1>7 DEF to, from

LEMMA RowForward ==
  ASSUME NEW back \in Seq(PagePlaces), NEW here \in PagePlaces, NEW forward \in Seq(PagePlaces),
         Len(forward) > 0
  PROVE  Row(Append(back, here), Top(forward), Popped(forward)) = Row(back, here, forward)
<1>1. /\ Top(forward) \in PagePlaces /\ Popped(forward) \in Seq(PagePlaces)
  BY Stacks
<1>2. /\ Append(back, here) \in Seq(PagePlaces) /\ Len(Append(back, here)) > 0
      /\ Top(Append(back, here)) = here /\ Popped(Append(back, here)) = back
  BY DEF Top, Popped
<1>3. Append(Popped(forward), Top(forward)) = forward
  BY DEF Top, Popped
<1> DEFINE to == Append(back, here)
<1>4. Row(Popped(to), Top(to), Append(Popped(forward), Top(forward)))
        = Row(to, Top(forward), Popped(forward))
  <2> HIDE DEF to
  <2> QED BY <1>1, <1>2, RowBack DEF to
<1> QED BY <1>2, <1>3, <1>4

LEMMA RevisitArrives ==
  ASSUME Typed, NEW at \in PagePlaces, NEW sub \in Int
  PROVE  Here(Revisited(at, sub).c) = at
<1> DEFINE w == [View EXCEPT !.c.lockSubpg = FALSE, !.c.gotoPage = at[1],
                             !.c.subPageNum = at[2], !.c.dispUpdate = TRUE]
           r == fetchVbiPageLocked(w, at[1], sub)
<1>1. at[1] \in Int /\ at[2] \in Int /\ at = <<at[1], at[2]>>
  BY DEF PagePlaces
<1>2. Viewed(w) /\ w.c.gotoPage = at[1] /\ w.c.subPageNum = at[2]
  BY <1>1 DEF Typed, Viewed, View, Context, Fields
<1>3. Revisited(at, sub) = r
  BY DEF Revisited
<1> HIDE DEF w
<1>4. Alike(w.c, r.c) /\ r.c.subPageNum = w.c.subPageNum
  BY <1>1, <1>2, Fetches
<1> HIDE DEF r
<1> QED BY <1>1, <1>2, <1>3, <1>4 DEF Alike, Here

LEMMA GoesAlong ==
  ASSUME Typed, gotoBackPageLocked \/ gotoForwardPageLocked
  PROVE  Line' = Line
<1>1. /\ mBackPageStk \in Seq(PagePlaces) /\ mForwardPageStk \in Seq(PagePlaces)
      /\ Here(ctx) \in PagePlaces
  BY RemembersPlaces DEF Typed, Visits
<1>2. /\ Line = Row(mBackPageStk, Here(ctx), mForwardPageStk)
      /\ Line' = Row(mBackPageStk', Here(ctx'), mForwardPageStk')
  BY DEF Line, Row, Here
<1>3. CASE gotoBackPageLocked
  <2>1. /\ Len(mBackPageStk) > 0
        /\ mForwardPageStk' = Append(mForwardPageStk, Here(ctx))
        /\ mBackPageStk' = Popped(mBackPageStk)
        /\ ctx' = Revisited(Top(mBackPageStk), 0).c
    BY <1>1, <1>3 DEF gotoBackPageLocked, Becomes
  <2>2. Here(ctx') = Top(mBackPageStk)
    BY <1>1, <2>1, Stacks, RevisitArrives
  <2> QED BY <1>1, <1>2, <2>1, <2>2, RowBack
<1>4. CASE gotoForwardPageLocked
  <2>1. /\ Len(mForwardPageStk) > 0
        /\ mBackPageStk' = Append(mBackPageStk, Here(ctx))
        /\ mForwardPageStk' = Popped(mForwardPageStk)
        /\ ctx' = Revisited(Top(mForwardPageStk), Top(mForwardPageStk)[2]).c
    BY <1>1, <1>4 DEF gotoForwardPageLocked, Becomes
  <2>2. Top(mForwardPageStk) \in PagePlaces /\ Top(mForwardPageStk)[2] \in Int
    BY <1>1, <2>1, Stacks DEF PagePlaces
  <2>3. Here(ctx') = Top(mForwardPageStk)
    BY <2>1, <2>2, RevisitArrives
  <2> QED BY <1>1, <1>2, <2>1, <2>3, RowForward
<1> QED BY <1>3, <1>4

\* Going back and forward loses no page of the history and brings none twice: the pages
\* behind, the one displayed and the pages ahead stay one row, however the viewer came by
\* them (gotoBackPageLocked, gotoForwardPageLocked).
THEOREM HistoryKeptAlways == Spec => HistoryKept
<1>1. Typed /\ [Next]_ttvars
      => [gotoBackPageLocked \/ gotoForwardPageLocked => Line' = Line]_ttvars
  BY GoesAlong
<1> QED BY <1>1, InitTyped, NextTyped, PTL DEF Spec, HistoryKept

\* Both together: whatever the carousel brings, the viewer sees the pages that were asked
\* for, and finds the way back along the pages visited (TeletextParser.cpp: handler and
\* handleControl).
THEOREM PagesFollowedAlways == Spec => PagesFollowed
BY OnlyAskedPageAlways, HistoryKeptAlways DEF PagesFollowed

-----------------------------------------------------------------------------
(* PGS.  Lists of sets, in ascending order.                                *)

Ascending(list) == \A i, j \in 1 .. Len(list) : i < j => list[i] < list[j]
Member(n, list) == \E j \in 1 .. Len(list) : list[j] = n

LEMMA Appended ==
  ASSUME NEW k \in Seq(Nat), Ascending(k), NEW e \in Nat, \A n : Member(n, k) => n < e
  PROVE  /\ Append(k, e) \in Seq(Nat) /\ Ascending(Append(k, e))
         /\ \A n : Member(n, Append(k, e)) <=> Member(n, k) \/ n = e
<1> DEFINE K == Append(k, e)
           L == Len(k)
<1>1. /\ K \in Seq(Nat) /\ Len(K) = L + 1 /\ L \in Nat
      /\ \A j \in 1 .. L : K[j] = k[j] /\ k[j] \in Nat
      /\ K[L + 1] = e
  OBVIOUS
<1>2. \A j \in 1 .. L : k[j] < e
  BY DEF Member
<1>3. \A i, j \in 1 .. L : i < j => k[i] < k[j]
  BY DEF Ascending
<1> HIDE DEF K, L
<1>4. Ascending(K)
  <2>1. SUFFICES ASSUME NEW i \in 1 .. L + 1, NEW j \in 1 .. L + 1, i < j PROVE K[i] < K[j]
    BY <1>1 DEF Ascending
  <2>2. i \in 1 .. L
    BY <1>1, <2>1
  <2>3. CASE j \in 1 .. L
    BY <1>1, <1>3, <2>1, <2>2, <2>3
  <2>4. CASE j = L + 1
    BY <1>1, <1>2, <2>2, <2>4
  <2> QED BY <1>1, <2>3, <2>4
<1>5. ASSUME NEW n PROVE Member(n, K) <=> Member(n, k) \/ n = e
  <2>1. Member(n, K) <=> \E j \in 1 .. L + 1 : K[j] = n
    BY <1>1 DEF Member
  <2>2. Member(n, k) <=> \E j \in 1 .. L : K[j] = n
    BY <1>1 DEF Member, L
  <2>3. \A j : j \in 1 .. L + 1 <=> j \in 1 .. L \/ j = L + 1
    BY <1>1
  <2> QED BY <1>1, <2>1, <2>2, <2>3
<1> QED BY <1>1, <1>4, <1>5 DEF K

\* remove_if() keeps the sets that are not wrong, in their order.
LEMMA Remains ==
  ASSUME NEW list \in Seq(Nat), Ascending(list)
  PROVE  /\ Pgs!Remaining(list) \in Seq(Nat)
         /\ Ascending(Pgs!Remaining(list))
         /\ \A n : Member(n, Pgs!Remaining(list)) <=> Member(n, list) /\ ~Pgs!IsWrongPgs(n)
<1> DEFINE N == Len(list)
           Next1(k, i) == IF Pgs!IsWrongPgs(list[i]) THEN k ELSE Append(k, list[i])
           F == [x \in Seq(Nat) \X (1 .. N) |-> Next1(x[1], x[2])]
           Upto(m, n) == \E j \in 1 .. m : list[j] = n
           I == [m \in 0 .. N |-> {k \in Seq(Nat) :
                    /\ Ascending(k)
                    /\ \A n : Member(n, k) <=> Upto(m, n) /\ ~Pgs!IsWrongPgs(n)}]
<1>1. N \in Nat
  OBVIOUS
<1> HIDE DEF N
<1>2. << >> \in I[0]
  <2>1. << >> \in Seq(Nat) /\ Ascending(<< >>) /\ ~ \E n : Member(n, << >>)
    BY DEF Ascending, Member
  <2>2. ~ \E n : Upto(0, n)
    OBVIOUS
  <2> HIDE DEF Upto
  <2> QED BY <1>1, <2>1, <2>2
<1>3. ASSUME NEW m \in 1 .. N, NEW k \in I[m - 1]
      PROVE  F[<<k, m>>] = Next1(k, m) /\ F[<<k, m>>] \in I[m]
  <2> DEFINE e == list[m]
  <2>1. m - 1 \in 0 .. N /\ m \in 0 .. N /\ e \in Nat
    BY <1>1 DEF N
  <2>2. /\ k \in Seq(Nat) /\ Ascending(k)
        /\ \A n : Member(n, k) <=> Upto(m - 1, n) /\ ~Pgs!IsWrongPgs(n)
    <3> HIDE DEF Upto
    <3> QED BY <2>1
  <2>3. F[<<k, m>>] = Next1(k, m)
    <3> HIDE DEF Next1
    <3> QED BY <2>2
  <2>4. \A n : Upto(m, n) <=> Upto(m - 1, n) \/ n = e
    BY <1>1
  <2>5. ASSUME NEW n, Upto(m - 1, n) PROVE n \in Nat /\ n < e
    <3>1. PICK j \in 1 .. m - 1 : list[j] = n
      BY <2>5
    <3>2. j \in 1 .. Len(list) /\ m \in 1 .. Len(list) /\ j < m
      BY <1>1 DEF N
    <3> QED BY <3>1, <3>2 DEF Ascending
  <2> HIDE DEF Upto, e
  <2>6. CASE Pgs!IsWrongPgs(e)
    <3>1. Next1(k, m) = k
      BY <2>6 DEF e
    <3> HIDE DEF Next1
    <3>2. \A n : Member(n, k) <=> Upto(m, n) /\ ~Pgs!IsWrongPgs(n)
      BY <2>2, <2>4, <2>6, Zenon
    <3> QED BY <2>1, <2>2, <2>3, <3>1, <3>2
  <2>7. CASE ~Pgs!IsWrongPgs(e)
    <3> DEFINE K == Append(k, e)
    <3>1. Next1(k, m) = K
      BY <2>7 DEF e
    <3> HIDE DEF Next1
    <3>2. \A n : Member(n, k) => n < e
      BY <2>2, <2>5
    <3>3. /\ K \in Seq(Nat) /\ Ascending(K)
          /\ \A n : Member(n, K) <=> Member(n, k) \/ n = e
      BY <2>1, <2>2, <3>2, Appended
    <3> HIDE DEF K
    <3>4. \A n : Member(n, K) <=> Upto(m, n) /\ ~Pgs!IsWrongPgs(n)
      BY <2>2, <2>4, <2>7, <3>3, Zenon
    <3> QED BY <2>1, <2>3, <3>1, <3>3, <3>4
  <2> QED BY <2>3, <2>6, <2>7
<1>4. N \in 0 .. N /\ \A k : k \in I[N] => /\ k \in Seq(Nat) /\ Ascending(k)
                            /\ \A n : Member(n, k) <=> Upto(N, n) /\ ~Pgs!IsWrongPgs(n)
  <2> HIDE DEF Upto
  <2> QED BY <1>1
<1>5. \A n : Upto(N, n) <=> Member(n, list)
  BY DEF N, Member
<1> HIDE DEF F, I, Next1, Upto
<1>0. Keeps(N, I, << >>, F)
  BY <1>2, <1>3 DEF Keeps
<1>00. PICK g : Steps(N, I, << >>, F, g)
  BY <1>0, <1>1, Iteration
<1>6. /\ DOMAIN g = 0 .. N /\ g = [n \in 0 .. N |-> g[n]]
      /\ g[0] = << >>
      /\ \A n \in 1 .. N : g[n] = F[<<g[n - 1], n>>]
      /\ \A n \in 0 .. N : g[n] \in I[n]
  BY <1>00 DEF Steps
<1>7. \A n \in 1 .. N : g[n] = Next1(g[n - 1], n)
  <2>1. ASSUME NEW n \in 1 .. N PROVE g[n] = Next1(g[n - 1], n)
    <3>1. n - 1 \in 0 .. N
      BY <1>1
    <3>2. g[n - 1] \in I[n - 1] /\ g[n] = F[<<g[n - 1], n>>]
      BY <1>6, <3>1
    <3>3. F[<<g[n - 1], n>>] = Next1(g[n - 1], n)
      BY <1>3, <3>2
    <3> QED BY <3>2, <3>3
  <2> QED BY <2>1
<1> DEFINE Made(k) == k = [i \in 0 .. N |-> IF i = 0 THEN << >> ELSE Next1(k[i - 1], i)]
           kept == CHOOSE k : Made(k)
<1>8. Made(g)
  <2>1. ASSUME NEW i \in 0 .. N PROVE g[i] = IF i = 0 THEN << >> ELSE Next1(g[i - 1], i)
    <3>1. i = 0 \/ i \in 1 .. N
      BY <1>1
    <3> QED BY <1>6, <1>7, <3>1
  <2> QED BY <1>6, <2>1
<1>9. Made(kept)
  <2> HIDE DEF Made
  <2> QED BY <1>8, Zenon
<1>10. Pgs!Remaining(list) = kept[N]
  BY Zenon DEF Pgs!Remaining, Next1, N
<1> HIDE DEF kept
<1>11. kept[0] = << >> /\ \A i \in 1 .. N : i - 1 \in 0 .. N /\ kept[i] = Next1(kept[i - 1], i)
  BY <1>1, <1>9
<1> DEFINE Good == {i \in Nat : i \in 0 .. N => kept[i] \in I[i]}
<1>12. Good = Nat
  <2>1. Good \in SUBSET Nat /\ 0 \in Good
    BY <1>2, <1>11
  <2>2. ASSUME NEW i \in Good PROVE i + 1 \in Good
    <3>1. SUFFICES ASSUME i + 1 \in 0 .. N PROVE kept[i + 1] \in I[i + 1]
      OBVIOUS
    <3>2. i \in 0 .. N /\ i + 1 \in 1 .. N /\ (i + 1) - 1 = i
      BY <1>1, <3>1
    <3>3. kept[i] \in I[(i + 1) - 1] /\ kept[i + 1] = Next1(kept[i], i + 1)
      BY <1>11, <3>2
    <3> HIDE DEF Good
    <3>4. F[<<kept[i], i + 1>>] = Next1(kept[i], i + 1) /\ F[<<kept[i], i + 1>>] \in I[i + 1]
      BY <1>3, <3>2, <3>3
    <3> QED BY <3>3, <3>4
  <2> HIDE DEF Good
  <2> QED BY <2>1, <2>2, Induction
<1>13. kept[N] \in I[N]
  BY <1>1, <1>4, <1>12
<1> QED BY <1>4, <1>5, <1>10, <1>13

LEMMA Behead ==
  ASSUME NEW list \in Seq(Nat), list # << >>, Ascending(list)
  PROVE  /\ Tail(list) \in Seq(Nat) /\ Ascending(Tail(list))
         /\ Len(Tail(list)) = Len(list) - 1
         /\ \A j \in 1 .. Len(list) - 1 : Tail(list)[j] = list[j + 1]
         /\ list[1] \in Nat /\ Member(list[1], list)
         /\ \A n : Member(n, list) <=> n = list[1] \/ Member(n, Tail(list))
         /\ \A n : Member(n, Tail(list)) => n \in Nat /\ list[1] < n
<1> DEFINE T == Tail(list)
           L == Len(list)
<1>1. /\ L \in Nat /\ L > 0 /\ T \in Seq(Nat) /\ Len(T) = L - 1
      /\ \A j \in 1 .. L - 1 : T[j] = list[j + 1]
      /\ \A j \in 1 .. L : list[j] \in Nat
  OBVIOUS
<1>2. \A i, j \in 1 .. L : i < j => list[i] < list[j]
  BY DEF Ascending
<1>3. \A n : Member(n, list) <=> \E j \in 1 .. L : list[j] = n
  BY DEF Member
<1> HIDE DEF T, L
<1>4. Ascending(T)
  <2>1. SUFFICES ASSUME NEW i \in 1 .. L - 1, NEW j \in 1 .. L - 1, i < j PROVE T[i] < T[j]
    BY <1>1 DEF Ascending
  <2>2. i + 1 \in 1 .. L /\ j + 1 \in 1 .. L /\ i + 1 < j + 1
    BY <1>1, <2>1
  <2> QED BY <1>1, <1>2, <2>2
<1>5. \A n : Member(n, T) <=> \E j \in 1 .. L - 1 : list[j + 1] = n
  BY <1>1 DEF Member
<1>6. 1 \in 1 .. L /\ \A j \in 1 .. L - 1 : j + 1 \in 1 .. L /\ 1 < j + 1
  BY <1>1
<1>7. ASSUME NEW n, Member(n, T) PROVE n \in Nat /\ list[1] < n /\ Member(n, list)
  <2>1. PICK j \in 1 .. L - 1 : list[j + 1] = n
    BY <1>5, <1>7
  <2> QED BY <1>1, <1>2, <1>3, <1>6, <2>1
<1>8. ASSUME NEW n, Member(n, list) PROVE n = list[1] \/ Member(n, T)
  <2>1. PICK j \in 1 .. L : list[j] = n
    BY <1>3, <1>8
  <2>2. CASE j # 1
    <3>1. j - 1 \in 1 .. L - 1 /\ (j - 1) + 1 = j
      BY <1>1, <2>2
    <3> QED BY <1>5, <2>1, <3>1
  <2> QED BY <2>1, <2>2
<1>9. Member(list[1], list)
  BY <1>3, <1>6
<1> QED BY <1>1, <1>4, <1>6, <1>7, <1>8, <1>9 DEF T, L

LEMMA Suffix ==
  ASSUME NEW list \in Seq(Nat), Ascending(list), NEW m \in 1 .. Len(list)
  PROVE  /\ SubSeq(list, m, Len(list)) \in Seq(Nat)
         /\ Ascending(SubSeq(list, m, Len(list)))
         /\ \A n : Member(n, SubSeq(list, m, Len(list)))
                   <=> \E j \in m .. Len(list) : list[j] = n
<1> DEFINE S == SubSeq(list, m, Len(list))
           L == Len(list)
<1>1. /\ L \in Nat /\ m \in 1 .. L /\ S \in Seq(Nat) /\ Len(S) = L - m + 1
      /\ \A j \in 1 .. L - m + 1 : S[j] = list[j + m - 1]
  OBVIOUS
<1>2. \A i, j \in 1 .. L : i < j => list[i] < list[j]
  BY DEF Ascending
<1> HIDE DEF S, L
<1>3. Ascending(S)
  <2>1. SUFFICES ASSUME NEW i \in 1 .. L - m + 1, NEW j \in 1 .. L - m + 1, i < j
                 PROVE  S[i] < S[j]
    BY <1>1 DEF Ascending
  <2>2. i + m - 1 \in 1 .. L /\ j + m - 1 \in 1 .. L /\ i + m - 1 < j + m - 1
    BY <1>1, <2>1
  <2> QED BY <1>1, <1>2, <2>2
<1>4. ASSUME NEW n PROVE Member(n, S) <=> \E j \in m .. L : list[j] = n
  <2>1. Member(n, S) <=> \E j \in 1 .. L - m + 1 : list[j + m - 1] = n
    BY <1>1 DEF Member
  <2>2. ASSUME NEW j \in 1 .. L - m + 1, list[j + m - 1] = n PROVE \E k \in m .. L : list[k] = n
    <3>1. j + m - 1 \in m .. L
      BY <1>1
    <3> QED BY <2>2, <3>1
  <2>3. ASSUME NEW k \in m .. L, list[k] = n
        PROVE  \E j \in 1 .. L - m + 1 : list[j + m - 1] = n
    <3>1. k - m + 1 \in 1 .. L - m + 1 /\ (k - m + 1) + m - 1 = k
      BY <1>1
    <3> QED BY <2>3, <3>1
  <2> QED BY <2>1, <2>2, <2>3
<1> QED BY <1>1, <1>3, <1>4 DEF S, L

\* What is dropped when busy is in front of what stays, and clears nothing.
LEMMA DropsNoClearing ==
  ASSUME NEW list \in Seq(Nat), Ascending(list)
  PROVE  /\ Pgs!Dropped(list) \in Seq(Nat) /\ Ascending(Pgs!Dropped(list))
         /\ \A n : Member(n, Pgs!Dropped(list)) => Member(n, list)
         /\ \A n : Member(n, list) /\ ~Member(n, Pgs!Dropped(list)) =>
              ~Pgs!Clears(n) /\ \A m : Member(m, Pgs!Dropped(list)) => n < m
<1> DEFINE D == Pgs!Dropped(list)
           C == {i \in 1 .. Len(list) : Pgs!Clears(list[i])}
           first == Pgs!Min(C)
<1>1. D = IF (IF C # {} THEN first ELSE 0) = 0 THEN << >>
          ELSE SubSeq(list, IF C # {} THEN first ELSE 0, Len(list))
  BY DEF Pgs!Dropped, Pgs!SelectInSeq
<1>2. CASE C = {}
  <2>1. D = << >>
    BY <1>1, <1>2
  <2>2. << >> \in Seq(Nat) /\ Ascending(<< >>) /\ \A n : ~Member(n, << >>)
    BY DEF Ascending, Member
  <2>3. \A n : Member(n, list) => ~Pgs!Clears(n)
    BY <1>2 DEF Member
  <2> HIDE DEF D
  <2> QED BY <2>1, <2>2, <2>3 DEF D
<1>3. CASE C # {}
  <2>1. first \in C /\ \A i \in C : first <= i
    <3>1. \E x \in C : \A y \in C : x <= y
      <4>1. C \in SUBSET Nat
        OBVIOUS
      <4> HIDE DEF C
      <4> QED BY <1>3, <4>1, LeastThere
    <3> HIDE DEF C
    <3> QED BY <3>1 DEF Pgs!Min
  <2> HIDE DEF first
  <2>2. first \in 1 .. Len(list) /\ Len(list) \in Nat
    BY <2>1
  <2>3. D = SubSeq(list, first, Len(list))
    BY <1>1, <1>3, <2>2
  <2>4. \A i \in 1 .. Len(list) : i < first => ~Pgs!Clears(list[i])
    BY <2>1, <2>2
  <2> HIDE DEF D, C
  <2>5. /\ D \in Seq(Nat) /\ Ascending(D)
        /\ \A n : Member(n, D) <=> \E j \in first .. Len(list) : list[j] = n
    BY <2>2, <2>3, Suffix
  <2>6. ASSUME NEW n, Member(n, D) PROVE Member(n, list)
    <3>1. PICK j \in first .. Len(list) : list[j] = n
      BY <2>5, <2>6
    <3>2. j \in 1 .. Len(list)
      BY <2>2
    <3> QED BY <3>1, <3>2 DEF Member
  <2>7. ASSUME NEW n, Member(n, list), ~Member(n, D)
        PROVE  ~Pgs!Clears(n) /\ \A m : Member(m, D) => n < m
    <3>1. PICK i \in 1 .. Len(list) : list[i] = n
      BY <2>7 DEF Member
    <3>2. i < first
      BY <2>2, <2>5, <2>7, <3>1
    <3>3. ASSUME NEW m, Member(m, D) PROVE n < m
      <4>1. PICK j \in first .. Len(list) : list[j] = m
        BY <2>5, <3>3
      <4> QED BY <2>2, <3>1, <3>2, <4>1 DEF Ascending
    <3> QED BY <2>4, <3>1, <3>2, <3>3
  <2> QED BY <2>5, <2>6, <2>7 DEF D
<1> QED BY <1>2, <1>3

-----------------------------------------------------------------------------
(* A state of the decoding thread: what waits and what is posted.          *)

Decodings == {d \in Seq({"nothing", "empty", "picture"}) : Len(d) <= 2}
DisplaySets == [pts : Times \cup {0}, decoded : Decodings]
Threads == [list : Seq(Nat), screen : [1 .. 2 -> Nat], previous : Nat, posted : Seq(Nat)]

\* What waits is after all that was posted; a segment that the set posted last does not
\* have is clear.
InTurn(s) ==
  /\ s \in Threads
  /\ Ascending(s.list) /\ Ascending(s.posted)
  /\ \A n : Member(n, s.list) \/ Member(n, s.posted) => n \in 1 .. Len(sets)
  /\ \A n, m : Member(n, s.posted) /\ Member(m, s.list) => n < m
  /\ \A i \in 1 .. 2 : i > s.previous => s.screen[i] = 0
  /\ IF s.posted = << >> THEN s.previous = 0
     ELSE s.previous = Len(sets[s.posted[Len(s.posted)]].decoded)

\* A set is in the list, was dropped as wrong (w), or is before all that waits.
Past(list, w) ==
  \A n \in 1 .. Len(sets) : n \in w \/ Member(n, list) \/ \A m : Member(m, list) => n < m

\* Nothing can be decoded at i of a later set of the same time.
Taken(n, i) ==
  \E m \in 1 .. Len(sets) :
     /\ m > n /\ sets[m].pts = sets[n].pts
     /\ i \in DOMAIN sets[m].decoded /\ sets[m].decoded[i] = "nothing"

\* The clearing sets that have left the list have cleared the screen, but for those in e.
Cleared(s, w, e) ==
  \A n \in 1 .. Len(sets) :
     Pgs!Clears(n) /\ ~Member(n, s.list) /\ n \notin w /\ n \notin e =>
        \A i \in 1 .. 2 : s.screen[i] = 0 \/ s.screen[i] > n \/ Taken(n, i)

\* The sets that wait for set n to clear the screen.
SameTime(n) == {k \in 1 .. Len(sets) : k < n /\ sets[k].pts = sets[n].pts}

LEMMA Posts ==
  ASSUME sets \in Seq(DisplaySets), NEW s, InTurn(s), s.list # << >>,
         NEW w, Past(s.list, w), NEW e, e \subseteq SameTime(s.list[1]), Cleared(s, w, e),
         NEW t, t = Pgs!postDecodedItem(s, s.list[1])
  PROVE  t.list = Tail(s.list) /\ InTurn(t) /\ Past(t.list, w) /\ Cleared(t, w, {})
<1> DEFINE n == s.list[1]
           d == sets[n].decoded
           C == Pgs!ClearsFirst(s, n)
           scr == [i \in Pgs!Segments |->
                     IF i \in DOMAIN d /\ d[i] # "nothing"
                     THEN IF d[i] = "picture" THEN n ELSE 0
                     ELSE IF C THEN 0 ELSE s.screen[i]]
<1>1. /\ s \in Threads /\ Ascending(s.list) /\ Ascending(s.posted)
      /\ \A k : Member(k, s.list) \/ Member(k, s.posted) => k \in 1 .. Len(sets)
      /\ \A k, m : Member(k, s.posted) /\ Member(m, s.list) => k < m
      /\ \A i \in 1 .. 2 : i > s.previous => s.screen[i] = 0
  BY DEF InTurn
<1>2. /\ s.list \in Seq(Nat) /\ s.posted \in Seq(Nat) /\ s.previous \in Nat
      /\ s.screen \in [1 .. 2 -> Nat] /\ \A i \in 1 .. 2 : s.screen[i] \in Nat
  BY <1>1 DEF Threads
<1>3. /\ t.list = Tail(s.list) /\ t.posted = Append(s.posted, n) /\ t.previous = Len(d)
      /\ t.screen = scr /\ t = [list |-> Tail(s.list), screen |-> scr,
                                previous |-> Len(d), posted |-> Append(s.posted, n)]
  <2> HIDE DEF C
  <2>1. t = [s EXCEPT !.screen = scr, !.previous = Len(d),
                      !.posted = Append(s.posted, n), !.list = Tail(s.list)]
    BY DEF Pgs!postDecodedItem, C
  <2> HIDE DEF scr, d, n
  <2> QED BY <1>1, <2>1 DEF Threads
<1>4. /\ Tail(s.list) \in Seq(Nat) /\ Ascending(Tail(s.list))
      /\ n \in Nat /\ Member(n, s.list)
      /\ \A k : Member(k, s.list) <=> k = n \/ Member(k, Tail(s.list))
      /\ \A k : Member(k, Tail(s.list)) => k \in Nat /\ n < k
  BY <1>1, <1>2, Behead
<1>5. n \in 1 .. Len(sets) /\ d \in Decodings
  <2>1. n \in 1 .. Len(sets)
    BY <1>1, <1>4
  <2> HIDE DEF n
  <2>2. sets[n] \in DisplaySets
    BY <2>1
  <2> QED BY <2>1, <2>2 DEF DisplaySets
<1>6. /\ Append(s.posted, n) \in Seq(Nat) /\ Ascending(Append(s.posted, n))
      /\ \A k : Member(k, Append(s.posted, n)) <=> Member(k, s.posted) \/ k = n
  BY <1>1, <1>2, <1>4, Appended
<1>7. d \in Seq({"nothing", "empty", "picture"}) /\ Len(d) \in Nat /\ DOMAIN d = 1 .. Len(d)
  BY <1>5 DEF Decodings
<1>8. C <=> Pgs!Clears(n) \/ Len(d) < s.previous
  BY DEF Pgs!ClearsFirst
<1>9. Pgs!Segments = 1 .. 2
  BY DEF Pgs!Segments, Pgs!MAX_OBJECT_REFS
<1>10. /\ scr \in [1 .. 2 -> Nat]
       /\ \A i \in 1 .. 2 : scr[i] = n \/ scr[i] = 0 \/
            (scr[i] = s.screen[i] /\ ~C /\ (i \in DOMAIN d => d[i] = "nothing"))
  <2> HIDE DEF n, d, C
  <2> QED BY <1>2, <1>4, <1>9
<1>11. \A i \in 1 .. 2 : i > Len(d) => scr[i] = 0
  <2> SUFFICES ASSUME NEW i \in 1 .. 2, i > Len(d) PROVE scr[i] = 0
    OBVIOUS
  <2>1. i \notin DOMAIN d
    BY <1>7
  <2>2. scr[i] = IF C THEN 0 ELSE s.screen[i]
    BY <1>9, <2>1
  <2>3. ~C => i > s.previous
    BY <1>2, <1>7, <1>8
  <2> QED BY <1>1, <2>2, <2>3
<1> HIDE DEF scr, C
<1>12. InTurn(t)
  <2>1. t \in Threads
    BY <1>3, <1>4, <1>6, <1>7, <1>10 DEF Threads
  <2>2. Ascending(t.list) /\ Ascending(t.posted)
    BY <1>3, <1>4, <1>6
  <2>3. \A k : Member(k, t.list) \/ Member(k, t.posted) => k \in 1 .. Len(sets)
    BY <1>1, <1>3, <1>4, <1>6
  <2>4. \A k, m : Member(k, t.posted) /\ Member(m, t.list) => k < m
    BY <1>1, <1>3, <1>4, <1>6
  <2>5. \A i \in 1 .. 2 : i > t.previous => t.screen[i] = 0
    BY <1>3, <1>11
  <2>6. t.posted # << >> /\ t.posted[Len(t.posted)] = n
    <3>1. \A p \in Seq(Nat) : \A x \in Nat :
            Append(p, x) # << >> /\ Append(p, x)[Len(Append(p, x))] = x
      OBVIOUS
    <3> HIDE DEF n
    <3>2. Append(s.posted, n) # << >> /\ Append(s.posted, n)[Len(Append(s.posted, n))] = n
      BY <1>2, <1>4, <3>1
    <3> QED BY <1>3, <3>2
  <2>7. t.previous = Len(sets[t.posted[Len(t.posted)]].decoded)
    BY <1>3, <2>6
  <2> HIDE DEF n, d
  <2> QED BY <2>1, <2>2, <2>3, <2>4, <2>5, <2>6, <2>7 DEF InTurn
<1>13. Past(t.list, w)
  BY <1>3, <1>4 DEF Past
<1>14. Cleared(t, w, {})
  <2> SUFFICES ASSUME NEW k \in 1 .. Len(sets), Pgs!Clears(k), ~Member(k, t.list), k \notin w,
                      NEW i \in 1 .. 2
               PROVE  t.screen[i] = 0 \/ t.screen[i] > k \/ Taken(k, i)
    BY DEF Cleared
  <2>1. t.screen[i] = scr[i]
    BY <1>3
  <2>2. CASE k = n
    <3>1. C
      BY <1>8, <2>2
    <3>2. d = << >>
      BY <2>2 DEF Pgs!Clears
    <3>3. scr[i] = 0
      BY <1>9, <3>1, <3>2 DEF scr
    <3> QED BY <2>1, <3>3
  <2>3. CASE k # n
    <3>1. ~Member(k, s.list)
      BY <1>3, <1>4, <2>3
    <3>2. k < n
      BY <1>4, <3>1 DEF Past
    <3>3. CASE scr[i] = n \/ scr[i] = 0
      BY <1>4, <2>1, <3>2, <3>3
    <3>4. CASE scr[i] = s.screen[i] /\ ~C /\ (i \in DOMAIN d => d[i] = "nothing")
      <4>1. CASE k \in e
        <5>1. sets[k].pts = sets[n].pts
          BY <4>1 DEF SameTime
        <5>2. CASE i \in DOMAIN d
          BY <1>5, <3>2, <3>4, <5>1, <5>2 DEF Taken
        <5>3. CASE i \notin DOMAIN d
          <6>1. i > Len(d)
            BY <1>7, <5>3
          <6> QED BY <1>11, <2>1, <6>1
        <5> QED BY <5>2, <5>3
      <4>2. CASE k \notin e
        <5>1. s.screen[i] = 0 \/ s.screen[i] > k \/ Taken(k, i)
          BY <3>1, <4>2 DEF Cleared
        <5> QED BY <2>1, <3>4, <5>1
      <4> QED BY <4>1, <4>2
    <3> QED BY <1>10, <3>3, <3>4
  <2> QED BY <2>2, <2>3
<1> QED BY <1>3, <1>12, <1>13, <1>14

LEMMA Supersedes ==
  ASSUME sets \in Seq(DisplaySets), NEW s, InTurn(s), Len(s.list) > 1,
         NEW w, Past(s.list, w), NEW e, e \subseteq SameTime(s.list[1]), Cleared(s, w, e),
         sets[s.list[1]].pts = sets[s.list[2]].pts,
         NEW t, t = [s EXCEPT !.list = Tail(@)]
  PROVE  /\ t.list = Tail(s.list) /\ InTurn(t) /\ Past(t.list, w)
         /\ Cleared(t, w, SameTime(s.list[2]))
<1> DEFINE n == s.list[1]
           next == s.list[2]
<1>1. /\ s \in Threads /\ Ascending(s.list) /\ Ascending(s.posted)
      /\ \A k : Member(k, s.list) \/ Member(k, s.posted) => k \in 1 .. Len(sets)
      /\ \A k, m : Member(k, s.posted) /\ Member(m, s.list) => k < m
      /\ \A i \in 1 .. 2 : i > s.previous => s.screen[i] = 0
      /\ IF s.posted = << >> THEN s.previous = 0
         ELSE s.previous = Len(sets[s.posted[Len(s.posted)]].decoded)
  BY DEF InTurn
<1>2. /\ s.list \in Seq(Nat) /\ s.posted \in Seq(Nat) /\ s.previous \in Nat
      /\ s.screen \in [1 .. 2 -> Nat] /\ s.list # << >>
  BY <1>1 DEF Threads
<1>3. /\ t.list = Tail(s.list) /\ t.posted = s.posted /\ t.previous = s.previous
      /\ t.screen = s.screen
      /\ t = [list |-> Tail(s.list), screen |-> s.screen, previous |-> s.previous,
              posted |-> s.posted]
  BY <1>1 DEF Threads
<1>4. /\ Tail(s.list) \in Seq(Nat) /\ Ascending(Tail(s.list))
      /\ n \in Nat /\ Member(n, s.list)
      /\ \A k : Member(k, s.list) <=> k = n \/ Member(k, Tail(s.list))
      /\ \A k : Member(k, Tail(s.list)) => k \in Nat /\ n < k
  BY <1>1, <1>2, Behead
<1>5. n < next /\ next \in Nat
  <2>1. /\ 1 \in 1 .. Len(s.list) /\ 2 \in 1 .. Len(s.list)
        /\ \A j \in 1 .. Len(s.list) : s.list[j] \in Nat
    <3>1. \A q \in Seq(Nat) : Len(q) \in Nat /\ \A j \in 1 .. Len(q) : q[j] \in Nat
      OBVIOUS
    <3>2. Len(s.list) \in Nat /\ \A j \in 1 .. Len(s.list) : s.list[j] \in Nat
      BY <1>2, <3>1
    <3> QED BY <3>2
  <2>2. \A i, j \in 1 .. Len(s.list) : i < j => s.list[i] < s.list[j]
    BY <1>1 DEF Ascending
  <2>3. 1 < 2 => n < next
    BY <2>1, <2>2
  <2> QED BY <2>1, <2>3
<1>6. InTurn(t)
  <2>1. t \in Threads
    BY <1>2, <1>3, <1>4 DEF Threads
  <2>2. \A k : Member(k, t.list) \/ Member(k, t.posted) => k \in 1 .. Len(sets)
    BY <1>1, <1>3, <1>4
  <2>3. \A k, m : Member(k, t.posted) /\ Member(m, t.list) => k < m
    BY <1>1, <1>3, <1>4
  <2> QED BY <1>1, <1>3, <1>4, <2>1, <2>2, <2>3 DEF InTurn
<1>7. Past(t.list, w)
  BY <1>3, <1>4 DEF Past
<1>8. Cleared(t, w, SameTime(next))
  <2> SUFFICES ASSUME NEW k \in 1 .. Len(sets), Pgs!Clears(k), ~Member(k, t.list), k \notin w,
                      k \notin SameTime(next), NEW i \in 1 .. 2
               PROVE  t.screen[i] = 0 \/ t.screen[i] > k \/ Taken(k, i)
    BY DEF Cleared
  <2>1. k # n
    BY <1>5 DEF SameTime
  <2>2. ~Member(k, s.list)
    BY <1>3, <1>4, <2>1
  <2>3. k \notin e
    <3> SUFFICES ASSUME k \in e PROVE FALSE
      OBVIOUS
    <3>1. k < n /\ sets[k].pts = sets[n].pts
      BY DEF SameTime
    <3>2. k \in SameTime(next)
      <4>1. k < next
        <5>1. k \in Int /\ n \in Int /\ next \in Int
          BY <1>4, <1>5
        <5> HIDE DEF n, next
        <5> QED BY <1>5, <3>1, <5>1
      <4>2. sets[k].pts = sets[next].pts
        BY <3>1
      <4> QED BY <4>1, <4>2 DEF SameTime
    <3> QED BY <3>2
  <2> QED BY <1>3, <2>2, <2>3 DEF Cleared
<1> QED BY <1>3, <1>6, <1>7, <1>8

\* The thread decodes the first sets of the list, due, up to one that is not superseded:
\* all that waited for it to clear the screen has seen it cleared.
LEMMA Decodes ==
  ASSUME sets \in Seq(DisplaySets), NEW s, InTurn(s), NEW w, Past(s.list, w), Cleared(s, w, {}),
         NEW due, Len(due) \in Nat, Len(due) <= Len(s.list),
         \A j \in 1 .. Len(due) : due[j] = s.list[j],
         NEW upto \in 0 .. Len(due), upto = 0 \/ ~Pgs!AtOnce(due, upto)
  PROVE  LET t == Pgs!Decoded(s, due, upto)
         IN InTurn(t) /\ Past(t.list, w) /\ Cleared(t, w, {})
<1> DEFINE K == Len(s.list)
           Next1(x, i) == IF Pgs!AtOnce(due, i) THEN Pgs!Superseded(x, due, i)
                          ELSE Pgs!postDecodedItem(x, due[i])
           F == [y \in Threads \X (1 .. upto) |-> Next1(y[1], y[2])]
           Waiting(m) == IF m >= 1 /\ Pgs!AtOnce(due, m) THEN SameTime(due[m + 1]) ELSE {}
           At(m, x) == /\ x \in Threads /\ InTurn(x) /\ Past(x.list, w)
                       /\ Cleared(x, w, Waiting(m))
                       /\ Len(x.list) = K - m
                       /\ \A j \in 1 .. K - m : x.list[j] = s.list[m + j]
           I == [m \in 0 .. upto |-> {x \in Threads : At(m, x)}]
<1>1. upto \in Nat /\ upto <= Len(due)
  OBVIOUS
<1>2. s \in Threads /\ s.list \in Seq(Nat) /\ K \in Nat /\ Len(due) <= K
  <2>1. s \in Threads
    BY DEF InTurn
  <2> QED BY <2>1 DEF Threads
<1>3. s \in I[0]
  <2>1. Waiting(0) = {}
    OBVIOUS
  <2>3. Len(s.list) = K - 0 /\ \A j \in 1 .. K - 0 : s.list[j] = s.list[0 + j]
    BY <1>2
  <2> HIDE DEF Waiting, K
  <2>2. At(0, s)
    BY <1>2, <2>1, <2>3
  <2> HIDE DEF At
  <2> QED BY <1>1, <1>2, <2>2
<1> HIDE DEF K
<1>4. ASSUME NEW m \in 1 .. upto, NEW x \in Threads, At(m - 1, x)
      PROVE  Next1(x, m) \in Threads /\ At(m, Next1(x, m))
  <2> DEFINE t == Next1(x, m)
             n == x.list[1]
  <2>1. m \in Nat /\ m >= 1 /\ m <= Len(due) /\ m <= K /\ m - 1 \in Nat
        /\ m \in 1 .. Len(due)
    BY <1>1, <1>2
  <2>2. /\ InTurn(x) /\ Past(x.list, w) /\ Cleared(x, w, Waiting(m - 1))
        /\ Len(x.list) = K - (m - 1)
        /\ \A j \in 1 .. K - (m - 1) : x.list[j] = s.list[(m - 1) + j]
    <3> HIDE DEF Waiting
    <3> QED BY <1>4
  <2>3. n = due[m] /\ x.list \in Seq(Nat) /\ x.list # << >>
    <3>1. 1 \in 1 .. K - (m - 1) /\ (m - 1) + 1 = m
      BY <1>2, <2>1
    <3>2. x.list \in Seq(Nat)
      BY <1>4 DEF Threads
    <3>3. x.list # << >>
      BY <1>2, <2>1, <2>2
    <3> QED BY <2>1, <2>2, <3>1, <3>2, <3>3
  <2>4. Waiting(m - 1) \subseteq SameTime(n)
    <3>1. (m - 1) + 1 = m
      BY <2>1
    <3> QED BY <2>3, <3>1
  <2>5. ASSUME t.list = Tail(x.list)
        PROVE  /\ Len(t.list) = K - m
               /\ \A j \in 1 .. K - m : t.list[j] = s.list[m + j]
    <3> DEFINE T == Tail(x.list)
    <3>1. /\ Len(T) = Len(x.list) - 1
          /\ \A j \in 1 .. Len(x.list) - 1 : T[j] = x.list[j + 1]
      BY <2>3
    <3>2. Len(x.list) - 1 = K - m
      BY <1>2, <2>1, <2>2
    <3>3. t.list = T
      BY <2>5
    <3> HIDE DEF T, t
    <3>4. ASSUME NEW j \in 1 .. K - m PROVE T[j] = s.list[m + j]
      <4>1. j + 1 \in 1 .. K - (m - 1) /\ (m - 1) + (j + 1) = m + j
        BY <1>2, <2>1
      <4>2. T[j] = x.list[j + 1]
        BY <3>1, <3>2
      <4> QED BY <2>2, <4>1, <4>2
    <3> QED BY <3>1, <3>2, <3>3, <3>4
  <2>6. CASE Pgs!AtOnce(due, m)
    <3>1. m < Len(due) /\ sets[due[m]].pts = sets[due[m + 1]].pts
      BY <2>6 DEF Pgs!AtOnce
    <3>2. x.list[2] = due[m + 1] /\ Len(x.list) > 1
      <4>1. 2 \in 1 .. K - (m - 1) /\ (m - 1) + 2 = m + 1 /\ m + 1 \in 1 .. Len(due)
        BY <1>2, <2>1, <3>1
      <4>2. K - (m - 1) > 1
        BY <1>2, <2>1, <3>1
      <4> QED BY <2>2, <4>1, <4>2
    <3>3. t = [x EXCEPT !.list = Tail(@)]
      BY <2>6 DEF Pgs!Superseded
    <3>4. Waiting(m) = SameTime(x.list[2])
      BY <2>1, <2>6, <3>2
    <3> HIDE DEF t, Waiting, n
    <3>5. sets[x.list[1]].pts = sets[x.list[2]].pts /\ Waiting(m - 1) \subseteq SameTime(x.list[1])
      BY <2>3, <2>4, <3>1, <3>2 DEF n
    <3>6. /\ t.list = Tail(x.list) /\ InTurn(t) /\ Past(t.list, w)
          /\ Cleared(t, w, SameTime(x.list[2]))
      BY <2>2, <3>2, <3>3, <3>5, Supersedes
    <3>7. t \in Threads
      BY <3>6 DEF InTurn
    <3>8. At(m, t)
      BY <2>5, <3>4, <3>6, <3>7
    <3> HIDE DEF At
    <3> QED BY <3>7, <3>8 DEF t
  <2>7. CASE ~Pgs!AtOnce(due, m)
    <3>1. t = Pgs!postDecodedItem(x, x.list[1])
      BY <2>3, <2>7
    <3>2. Waiting(m) = {}
      BY <2>7
    <3> HIDE DEF t, Waiting, n
    <3>3. /\ t.list = Tail(x.list) /\ InTurn(t) /\ Past(t.list, w) /\ Cleared(t, w, {})
      BY <2>2, <2>3, <2>4, <3>1, Posts DEF n
    <3>4. t \in Threads
      BY <3>3 DEF InTurn
    <3>5. At(m, t)
      BY <2>5, <3>2, <3>3, <3>4
    <3> HIDE DEF At
    <3> QED BY <3>4, <3>5 DEF t
  <2> QED BY <2>6, <2>7
<1> HIDE DEF Next1, At
<1>5. ASSUME NEW m \in 1 .. upto, NEW x \in I[m - 1]
      PROVE  F[<<x, m>>] = Next1(x, m) /\ F[<<x, m>>] \in I[m]
  <2>1. m - 1 \in 0 .. upto /\ m \in 0 .. upto
    BY <1>1
  <2>2. x \in Threads /\ At(m - 1, x)
    BY <2>1
  <2>3. F[<<x, m>>] = Next1(x, m)
    BY <2>2
  <2>4. Next1(x, m) \in Threads /\ At(m, Next1(x, m))
    BY <1>4, <2>2
  <2> QED BY <2>1, <2>3, <2>4
<1>6. \A m \in 0 .. upto : \A x : x \in I[m] => At(m, x)
  OBVIOUS
<1> HIDE DEF F, I
<1>7. Keeps(upto, I, s, F)
  BY <1>3, <1>5 DEF Keeps
<1>8. PICK g : Steps(upto, I, s, F, g)
  BY <1>1, <1>7, Iteration
<1>9. /\ DOMAIN g = 0 .. upto /\ g = [n \in 0 .. upto |-> g[n]]
      /\ g[0] = s
      /\ \A n \in 1 .. upto : g[n] = F[<<g[n - 1], n>>]
      /\ \A n \in 0 .. upto : g[n] \in I[n]
  BY <1>8 DEF Steps
<1> DEFINE Made(k) == k = [i \in 0 .. upto |-> IF i = 0 THEN s ELSE Next1(k[i - 1], i)]
           step == CHOOSE k : Made(k)
<1>10. Made(g)
  <2>1. ASSUME NEW n \in 1 .. upto PROVE g[n] = Next1(g[n - 1], n)
    <3>1. n - 1 \in 0 .. upto
      BY <1>1
    <3>2. g[n - 1] \in I[n - 1] /\ g[n] = F[<<g[n - 1], n>>]
      BY <1>9, <3>1
    <3> QED BY <1>5, <3>2
  <2>2. ASSUME NEW i \in 0 .. upto PROVE g[i] = IF i = 0 THEN s ELSE Next1(g[i - 1], i)
    <3>1. i = 0 \/ i \in 1 .. upto
      BY <1>1
    <3> QED BY <1>9, <2>1, <3>1
  <2> QED BY <1>9, <2>2
<1>11. Made(step)
  <2> HIDE DEF Made
  <2> QED BY <1>10, Zenon
<1>12. Pgs!Decoded(s, due, upto) = step[upto]
  BY Zenon DEF Pgs!Decoded, Next1
<1> HIDE DEF step
<1>13. step[0] = s /\ \A i \in 1 .. upto : i - 1 \in 0 .. upto /\ step[i] = Next1(step[i - 1], i)
  BY <1>1, <1>11
<1> DEFINE Good == {i \in Nat : i \in 0 .. upto => step[i] \in I[i]}
<1>14. Good = Nat
  <2>1. Good \in SUBSET Nat /\ 0 \in Good
    BY <1>3, <1>13
  <2>2. ASSUME NEW i \in Good PROVE i + 1 \in Good
    <3>1. SUFFICES ASSUME i + 1 \in 0 .. upto PROVE step[i + 1] \in I[i + 1]
      OBVIOUS
    <3>2. i \in 0 .. upto /\ i + 1 \in 1 .. upto /\ (i + 1) - 1 = i
      BY <1>1, <3>1
    <3>3. step[i] \in I[(i + 1) - 1] /\ step[i + 1] = Next1(step[i], i + 1)
      BY <1>13, <3>2
    <3> HIDE DEF Good
    <3>4. F[<<step[i], i + 1>>] = Next1(step[i], i + 1) /\ F[<<step[i], i + 1>>] \in I[i + 1]
      BY <1>5, <3>2, <3>3
    <3> QED BY <3>3, <3>4
  <2> HIDE DEF Good
  <2> QED BY <2>1, <2>2, Induction
<1>15. At(upto, step[upto])
  <2>1. upto \in 0 .. upto
    BY <1>1
  <2>2. step[upto] \in I[upto]
    BY <1>1, <1>14, <2>1
  <2> QED BY <1>6, <2>1, <2>2
<1>16. Waiting(upto) = {}
  BY <1>1
<1> HIDE DEF Waiting
<1> QED BY <1>12, <1>15, <1>16 DEF At

-----------------------------------------------------------------------------
(* The steps of the two threads of PGS.                                    *)

Thread == [list |-> mPgsContextList, screen |-> segments, previous |-> mPreviousObjectNum,
           posted |-> posted]

\* What the reading thread collects becomes a set.
Collected ==
  /\ DOMAIN mPgsContext = {"pts", "refs", "object", "palette"}
  /\ mPgsContext.pts \in Times \cup {0}
  /\ mPgsContext.refs \in Seq(ObjectIds) /\ Len(mPgsContext.refs) <= 2

OnScreen ==
  /\ sets \in Seq(DisplaySets)
  /\ InTurn(Thread)
  /\ Past(mPgsContextList, wrong)
  /\ Cleared(Thread, wrong, {})

PgsInvariant == Collected /\ OnScreen

LEMMA PgsInit == Pgs!Init => PgsInvariant
<1> SUFFICES ASSUME Pgs!Init PROVE PgsInvariant
  OBVIOUS
<1>1. /\ mPgsContext = [pts |-> 0, refs |-> << >>, object |-> Pgs!NoEpoch, palette |-> FALSE]
      /\ sets = << >> /\ mPgsContextList = << >> /\ posted = << >> /\ wrong = {}
      /\ mPreviousObjectNum = 0 /\ segments = [i \in 1 .. 2 |-> 0]
  BY DEF Pgs!Init, Pgs!Segments, Pgs!MAX_OBJECT_REFS
<1>2. Collected
  BY <1>1 DEF Collected
<1>3. sets \in Seq(DisplaySets) /\ Len(sets) = 0 /\ \A n : n \notin 1 .. Len(sets)
  BY <1>1
<1>4. InTurn(Thread)
  <2>1. << >> \in Seq(Nat) /\ Ascending(<< >>) /\ \A n : ~Member(n, << >>)
    BY DEF Ascending, Member
  <2>2. segments \in [1 .. 2 -> Nat] /\ \A i \in 1 .. 2 : segments[i] = 0
    BY <1>1
  <2> QED BY <1>1, <2>1, <2>2 DEF InTurn, Thread, Threads
<1>5. Past(mPgsContextList, wrong) /\ Cleared(Thread, wrong, {})
  BY <1>3 DEF Past, Cleared
<1> QED BY <1>2, <1>3, <1>4, <1>5 DEF PgsInvariant, OnScreen

LEMMA SameScreen ==
  ASSUME OnScreen, UNCHANGED <<sets, mPgsContextList, segments, mPreviousObjectNum, posted, wrong>>
  PROVE  OnScreen'
BY DEF OnScreen, Thread, InTurn, Past, Cleared, Taken, Pgs!Clears, Ascending, Member

LEMMA SetEnds ==
  ASSUME PgsInvariant, Pgs!EndDisplaySegment
  PROVE  PgsInvariant'
<1> DEFINE N == Len(sets)
           d == Pgs!decodeRleAndRenderBitmap(mPgsContext)
           S == [pts |-> mPgsContext.pts, decoded |-> d]
<1>1. /\ sets' = Append(sets, S) /\ mPgsContextList' = Append(mPgsContextList, Len(sets'))
      /\ UNCHANGED <<mPgsContext, segments, mPreviousObjectNum, posted, wrong>>
  BY DEF Pgs!EndDisplaySegment, Pgs!decoder
<1>2. /\ sets \in Seq(DisplaySets) /\ InTurn(Thread) /\ Past(mPgsContextList, wrong)
      /\ Cleared(Thread, wrong, {}) /\ Collected
  BY DEF PgsInvariant, OnScreen
<1>3. d \in Decodings
  <2> DEFINE L == Len(mPgsContext.refs)
  <2>1. DOMAIN mPgsContext.refs = 1 .. L /\ L \in Nat /\ L <= 2
    BY <1>2 DEF Collected
  <2>2. /\ DOMAIN d = 1 .. L /\ d = [i \in 1 .. L |-> d[i]]
        /\ \A i \in 1 .. L : d[i] \in {"nothing", "empty", "picture"}
    BY <2>1 DEF Pgs!decodeRleAndRenderBitmap
  <2> HIDE DEF d, L
  <2>3. d \in Seq({"nothing", "empty", "picture"}) /\ Len(d) = L
    BY <2>1, <2>2
  <2> QED BY <2>1, <2>3 DEF Decodings
<1> HIDE DEF d
<1>4. S \in DisplaySets
  BY <1>2, <1>3 DEF Collected, DisplaySets
<1> HIDE DEF S
<1>5. /\ N \in Nat /\ sets' \in Seq(DisplaySets) /\ Len(sets') = N + 1
      /\ \A n \in 1 .. N : n \in 1 .. N + 1 /\ sets'[n] = sets[n]
  BY <1>1, <1>2, <1>4
<1> HIDE DEF N
<1>6. /\ mPgsContextList \in Seq(Nat) /\ posted \in Seq(Nat) /\ mPreviousObjectNum \in Nat
      /\ segments \in [1 .. 2 -> Nat]
      /\ Ascending(mPgsContextList) /\ Ascending(posted)
      /\ \A n : Member(n, mPgsContextList) \/ Member(n, posted) => n \in 1 .. N
      /\ \A n, m : Member(n, posted) /\ Member(m, mPgsContextList) => n < m
      /\ \A i \in 1 .. 2 : i > mPreviousObjectNum => segments[i] = 0
      /\ IF posted = << >> THEN mPreviousObjectNum = 0
         ELSE mPreviousObjectNum = Len(sets[posted[Len(posted)]].decoded)
  BY <1>2 DEF InTurn, Thread, Threads, N
<1>7. /\ mPgsContextList' = Append(mPgsContextList, N + 1)
      /\ mPgsContextList' \in Seq(Nat) /\ Ascending(mPgsContextList')
      /\ \A n : Member(n, mPgsContextList') <=> Member(n, mPgsContextList) \/ n = N + 1
  <2>1. mPgsContextList' = Append(mPgsContextList, N + 1)
    BY <1>1, <1>5
  <2>2. N + 1 \in Nat /\ \A n : Member(n, mPgsContextList) => n < N + 1
    BY <1>5, <1>6
  <2> QED BY <1>6, <2>1, <2>2, Appended
<1>8. posted # << >> => posted[Len(posted)] \in 1 .. N
  <2> SUFFICES ASSUME posted # << >> PROVE posted[Len(posted)] \in 1 .. N
    OBVIOUS
  <2>1. Len(posted) \in 1 .. Len(posted)
    BY <1>6
  <2> QED BY <1>6, <2>1 DEF Member
<1>9. InTurn(Thread)'
  <2>1. Thread' \in Threads
    BY <1>1, <1>6, <1>7 DEF Thread, Threads
  <2>2. /\ Thread'.list = mPgsContextList' /\ Thread'.posted = posted
        /\ Thread'.screen = segments /\ Thread'.previous = mPreviousObjectNum
    BY <1>1 DEF Thread
  <2>3. Ascending(Thread'.list) /\ Ascending(Thread'.posted)
    BY <1>6, <1>7, <2>2
  <2>4. \A n : Member(n, Thread'.list) \/ Member(n, Thread'.posted) => n \in 1 .. N + 1
    BY <1>5, <1>6, <1>7, <2>2
  <2>5. \A n, m : Member(n, Thread'.posted) /\ Member(m, Thread'.list) => n < m
    BY <1>5, <1>6, <1>7, <2>2
  <2>6. IF posted = << >> THEN mPreviousObjectNum = 0
        ELSE mPreviousObjectNum = Len(sets'[posted[Len(posted)]].decoded)
    BY <1>5, <1>6, <1>8
  <2> HIDE <1>1, <1>2, <1>7
  <2> QED BY <1>5, <1>6, <2>1, <2>2, <2>3, <2>4, <2>5, <2>6 DEF InTurn, Ascending, Member
<1>10. Past(mPgsContextList, wrong)'
  <2>1. ASSUME NEW n \in 1 .. N + 1
        PROVE  n \in wrong \/ Member(n, mPgsContextList')
               \/ \A m : Member(m, mPgsContextList') => n < m
    <3>1. CASE n = N + 1
      BY <1>7, <3>1
    <3>2. CASE n \in 1 .. N
      <4>1. n \in wrong \/ Member(n, mPgsContextList)
            \/ \A m : Member(m, mPgsContextList) => n < m
        BY <1>2, <3>2 DEF Past, N
      <4> QED BY <1>5, <1>7, <3>2, <4>1
    <3> QED BY <1>5, <3>1, <3>2
  <2> QED BY <1>1, <1>5, <2>1 DEF Past, Member
<1>11. Cleared(Thread, wrong, {})'
  <2>1. ASSUME NEW n \in 1 .. N + 1, sets'[n].decoded = << >>,
               ~Member(n, mPgsContextList'), n \notin wrong, NEW i \in 1 .. 2
        PROVE  \/ segments[i] = 0 \/ segments[i] > n
               \/ \E m \in 1 .. N + 1 :
                    /\ m > n /\ sets'[m].pts = sets'[n].pts
                    /\ i \in DOMAIN sets'[m].decoded /\ sets'[m].decoded[i] = "nothing"
    <3>1. n \in 1 .. N /\ ~Member(n, mPgsContextList)
      BY <1>5, <1>7, <2>1
    <3>2. Pgs!Clears(n)
      BY <1>5, <2>1, <3>1 DEF Pgs!Clears
    <3>3. segments[i] = 0 \/ segments[i] > n \/ Taken(n, i)
      BY <1>2, <2>1, <3>1, <3>2 DEF Cleared, Thread, N
    <3>4. CASE Taken(n, i)
      <4>1. PICK m \in 1 .. N : /\ m > n /\ sets[m].pts = sets[n].pts
                                /\ i \in DOMAIN sets[m].decoded
                                /\ sets[m].decoded[i] = "nothing"
        BY <3>4 DEF Taken, N
      <4>2. m \in 1 .. N + 1 /\ sets'[m] = sets[m] /\ sets'[n] = sets[n]
        BY <1>5, <3>1
      <4> QED BY <4>1, <4>2
    <3> QED BY <3>3, <3>4
  <2>2. /\ Thread'.list = mPgsContextList' /\ Thread'.screen = segments /\ wrong' = wrong
    BY <1>1 DEF Thread
  <2> QED BY <1>5, <2>1, <2>2 DEF Cleared, Taken, Pgs!Clears, Member
<1>12. Collected'
  BY <1>1, <1>2 DEF Collected
<1> QED BY <1>5, <1>9, <1>10, <1>11, <1>12 DEF PgsInvariant, OnScreen

LEMMA Ranges ==
  ASSUME NEW list \in Seq(Nat)
  PROVE  \A n : n \in Pgs!Range(list) <=> Member(n, list)
BY DEF Pgs!Range, Member

\* What is left of the list when what is of before a seek was dropped.
LEMMA DropsWrong ==
  ASSUME OnScreen, NEW kept, kept = Pgs!Remaining(mPgsContextList),
         NEW w, w = wrong \cup (Pgs!Range(mPgsContextList) \ Pgs!Range(kept)),
         NEW s, s = [list |-> kept, screen |-> segments, previous |-> mPreviousObjectNum,
                     posted |-> posted]
  PROVE  InTurn(s) /\ Past(s.list, w) /\ Cleared(s, w, {})
<1>1. /\ InTurn(Thread) /\ Past(mPgsContextList, wrong) /\ Cleared(Thread, wrong, {})
      /\ Thread.list = mPgsContextList /\ Thread.screen = segments /\ Thread.posted = posted
      /\ Thread.previous = mPreviousObjectNum
  BY DEF OnScreen, Thread
<1>2. mPgsContextList \in Seq(Nat) /\ Ascending(mPgsContextList)
  BY <1>1 DEF InTurn, Threads
<1>3. /\ kept \in Seq(Nat) /\ Ascending(kept)
      /\ \A n : Member(n, kept) => Member(n, mPgsContextList)
  BY <1>2, Remains
<1>4. \A n : n \in w <=> n \in wrong \/ (Member(n, mPgsContextList) /\ ~Member(n, kept))
  <2>1. /\ \A n : n \in Pgs!Range(mPgsContextList) <=> Member(n, mPgsContextList)
        /\ \A n : n \in Pgs!Range(kept) <=> Member(n, kept)
    BY <1>2, <1>3, Ranges
  <2> QED BY <2>1
<1>5. s.list = kept /\ s.screen = segments /\ s.posted = posted /\ s.previous = mPreviousObjectNum
  OBVIOUS
<1>6. InTurn(s)
  <2>1. s \in Threads
    BY <1>1, <1>3 DEF InTurn, Thread, Threads
  <2>2. /\ Ascending(posted)
        /\ \A n : Member(n, kept) \/ Member(n, posted) => n \in 1 .. Len(sets)
        /\ \A n, m : Member(n, posted) /\ Member(m, kept) => n < m
        /\ \A i \in 1 .. 2 : i > mPreviousObjectNum => segments[i] = 0
        /\ IF posted = << >> THEN mPreviousObjectNum = 0
           ELSE mPreviousObjectNum = Len(sets[posted[Len(posted)]].decoded)
    BY <1>1, <1>3 DEF InTurn
  <2> QED BY <1>3, <1>5, <2>1, <2>2 DEF InTurn
<1>7. Past(s.list, w)
  BY <1>1, <1>3, <1>4, <1>5 DEF Past
<1>8. Cleared(s, w, {})
  BY <1>1, <1>4, <1>5 DEF Cleared
<1> QED BY <1>6, <1>7, <1>8

\* What is left when a busy thread has dropped the rest.
LEMMA DropsRest ==
  ASSUME NEW t, InTurn(t), NEW w, Past(t.list, w), Cleared(t, w, {}),
         NEW D, D = t.list \/ D = Pgs!Dropped(t.list),
         NEW u, u = [list |-> D, screen |-> t.screen, previous |-> t.previous, posted |-> t.posted]
  PROVE  InTurn(u) /\ Past(u.list, w) /\ Cleared(u, w, {})
<1>1. /\ t \in Threads /\ t.list \in Seq(Nat) /\ Ascending(t.list) /\ Ascending(t.posted)
      /\ \A n : Member(n, t.list) \/ Member(n, t.posted) => n \in 1 .. Len(sets)
      /\ \A n, m : Member(n, t.posted) /\ Member(m, t.list) => n < m
      /\ \A i \in 1 .. 2 : i > t.previous => t.screen[i] = 0
      /\ IF t.posted = << >> THEN t.previous = 0
         ELSE t.previous = Len(sets[t.posted[Len(t.posted)]].decoded)
  BY DEF InTurn, Threads
<1>2. /\ D \in Seq(Nat) /\ Ascending(D)
      /\ \A n : Member(n, D) => Member(n, t.list)
      /\ \A n : Member(n, t.list) /\ ~Member(n, D) =>
            ~Pgs!Clears(n) /\ \A m : Member(m, D) => n < m
  <2>1. CASE D = t.list
    BY <1>1, <2>1
  <2>2. CASE D = Pgs!Dropped(t.list)
    BY <1>1, <2>2, DropsNoClearing
  <2> QED BY <2>1, <2>2
<1>3. u.list = D /\ u.screen = t.screen /\ u.posted = t.posted /\ u.previous = t.previous
  OBVIOUS
<1>4. InTurn(u)
  <2>1. u \in Threads
    BY <1>1, <1>2 DEF Threads
  <2> QED BY <1>1, <1>2, <1>3, <2>1 DEF InTurn
<1>5. Past(u.list, w)
  BY <1>2, <1>3 DEF Past
<1>6. Cleared(u, w, {})
  BY <1>2, <1>3 DEF Cleared
<1> QED BY <1>4, <1>5, <1>6

LEMMA SetsAreDecoded ==
  ASSUME OnScreen, NEW upto, NEW busy \in BOOLEAN, Pgs!handleDisplayEndSegment(upto, busy)
  PROVE  OnScreen'
<1> DEFINE kept == Pgs!Remaining(mPgsContextList)
           I == {i \in 1 .. Len(kept) : ~Pgs!IsDue(kept[i])}
           later == IF I # {} THEN Pgs!Min(I) ELSE 0
           due == IF later = 0 THEN kept ELSE SubSeq(kept, 1, later - 1)
           s == [list |-> kept, screen |-> segments, previous |-> mPreviousObjectNum,
                 posted |-> posted]
           t == Pgs!Decoded(s, due, upto)
           w == wrong \cup (Pgs!Range(mPgsContextList) \ Pgs!Range(kept))
<1>1. /\ IF busy THEN upto \in DOMAIN due /\ ~Pgs!AtOnce(due, upto) ELSE upto = Len(due)
      /\ mPgsContextList' = IF busy THEN Pgs!Dropped(t.list) ELSE t.list
      /\ segments' = t.screen /\ mPreviousObjectNum' = t.previous /\ posted' = t.posted
      /\ wrong' = w /\ sets' = sets
  BY DEF Pgs!handleDisplayEndSegment, Pgs!SelectInSeq, Pgs!reader
<1> HIDE DEF w, t
<1>2. mPgsContextList \in Seq(Nat) /\ Ascending(mPgsContextList) /\ sets \in Seq(DisplaySets)
  BY DEF OnScreen, InTurn, Thread, Threads
<1>3. kept \in Seq(Nat)
  BY <1>2, Remains
<1>4. InTurn(s) /\ Past(s.list, w) /\ Cleared(s, w, {})
  <2> HIDE DEF s, kept
  <2> QED BY DropsWrong DEF s, kept, w
<1> HIDE DEF kept
<1>5. /\ Len(due) \in Nat /\ Len(due) <= Len(kept) /\ DOMAIN due = 1 .. Len(due)
      /\ \A j \in 1 .. Len(due) : due[j] = kept[j]
  <2>1. CASE I = {}
    BY <1>3, <2>1
  <2>2. CASE I # {}
    <3>1. I \in SUBSET Nat /\ \A i \in I : i \in 1 .. Len(kept)
      OBVIOUS
    <3> HIDE DEF I
    <3>2. Pgs!Min(I) \in I
      BY <2>2, <3>1, LeastThere DEF Pgs!Min
    <3>3. later \in 1 .. Len(kept)
      BY <2>2, <3>1, <3>2
    <3> HIDE DEF later
    <3>4. due = SubSeq(kept, 1, later - 1)
      BY <1>3, <3>3
    <3> QED BY <1>3, <3>3, <3>4
  <2> QED BY <2>1, <2>2
<1> HIDE DEF due
<1>6. upto \in 0 .. Len(due) /\ (upto = 0 \/ ~Pgs!AtOnce(due, upto))
  <2>1. CASE busy
    BY <1>1, <1>5, <2>1
  <2>2. CASE ~busy
    BY <1>1, <1>5, <2>2 DEF Pgs!AtOnce
  <2> QED BY <2>1, <2>2
<1>7. s.list = kept
  OBVIOUS
<1> HIDE DEF s
<1>8. InTurn(t) /\ Past(t.list, w) /\ Cleared(t, w, {})
  BY <1>2, <1>4, <1>5, <1>6, <1>7, Decodes DEF t
<1> DEFINE u == [list |-> mPgsContextList', screen |-> t.screen, previous |-> t.previous,
                 posted |-> t.posted]
<1>9. InTurn(u) /\ Past(u.list, w) /\ Cleared(u, w, {})
  <2>1. mPgsContextList' = t.list \/ mPgsContextList' = Pgs!Dropped(t.list)
    BY <1>1
  <2> HIDE DEF u
  <2> QED BY <1>8, <2>1, DropsRest DEF u
<1>10. Thread' = u /\ u.list = mPgsContextList'
  BY <1>1 DEF Thread
<1> HIDE DEF u
<1> HIDE <1>9
<1>11. InTurn(Thread)'
  <2>1. InTurn(Thread')
    BY <1>9, <1>10
  <2> HIDE <1>10
  <2> QED BY <1>1, <2>1 DEF InTurn, Ascending, Member
<1>12. Past(mPgsContextList, wrong)' /\ Cleared(Thread, wrong, {})'
  <2>1. Past(mPgsContextList', wrong') /\ Cleared(Thread', wrong', {})
    BY <1>1, <1>9, <1>10
  <2> HIDE <1>10
  <2> QED BY <1>1, <2>1 DEF Past, Cleared, Taken, Pgs!Clears, Member
<1> QED BY <1>1, <1>2, <1>11, <1>12 DEF OnScreen

LEMMA PgsNext == PgsInvariant /\ Pgs!Next => PgsInvariant'
<1> SUFFICES ASSUME PgsInvariant, Pgs!Next PROVE PgsInvariant'
  OBVIOUS
<1>1. Collected /\ OnScreen
  BY DEF PgsInvariant
<1>2. ASSUME NEW pts \in Times, NEW fresh \in BOOLEAN,
             NEW refs \in UNION {[1 .. n -> ObjectIds] : n \in 0 .. Pgs!MAX_OBJECT_REFS},
             Pgs!parsePresentationSegment(pts, fresh, refs)
      PROVE  PgsInvariant'
  <2>1. /\ mPgsContext'.pts = pts /\ mPgsContext'.refs = refs
        /\ DOMAIN mPgsContext' = {"pts", "refs", "object", "palette"}
        /\ UNCHANGED <<sets, mPgsContextList, segments, mPreviousObjectNum, posted, wrong>>
    BY <1>2 DEF Pgs!parsePresentationSegment, Pgs!decoder
  <2>2. PICK n \in 0 .. 2 : refs \in [1 .. n -> ObjectIds]
    BY DEF Pgs!MAX_OBJECT_REFS
  <2>3. refs \in Seq(ObjectIds) /\ Len(refs) <= 2
    BY <2>2
  <2> QED BY <1>1, <2>1, <2>3, SameScreen DEF PgsInvariant, Collected
<1>3. CASE Pgs!parsePaletteSegment
  <2>1. /\ mPgsContext' = [mPgsContext EXCEPT !.palette = TRUE]
        /\ UNCHANGED <<sets, mPgsContextList, segments, mPreviousObjectNum, posted, wrong>>
    BY <1>3 DEF Pgs!parsePaletteSegment, Pgs!decoder
  <2> QED BY <1>1, <2>1, SameScreen DEF PgsInvariant, Collected
<1>4. ASSUME NEW id \in ObjectIds, NEW how, Pgs!parseObjectSegment(id, how)
      PROVE  PgsInvariant'
  <2>1. /\ mPgsContext'.pts = mPgsContext.pts /\ mPgsContext'.refs = mPgsContext.refs
        /\ DOMAIN mPgsContext' = {"pts", "refs", "object", "palette"}
        /\ UNCHANGED <<sets, mPgsContextList, segments, mPreviousObjectNum, posted, wrong>>
    BY <1>1, <1>4 DEF Pgs!parseObjectSegment, Pgs!decoder, Collected
  <2> QED BY <1>1, <2>1, SameScreen DEF PgsInvariant, Collected
<1>5. CASE Pgs!EndDisplaySegment
  BY <1>5, SetEnds
<1>6. ASSUME NEW upto, NEW busy \in BOOLEAN, Pgs!handleDisplayEndSegment(upto, busy)
      PROVE  PgsInvariant'
  <2>1. OnScreen'
    BY <1>1, <1>6, SetsAreDecoded
  <2>2. mPgsContext' = mPgsContext
    BY <1>6 DEF Pgs!handleDisplayEndSegment, Pgs!reader
  <2> QED BY <1>1, <2>1, <2>2 DEF PgsInvariant, Collected
<1>7. ASSUME NEW time, Pgs!notifyRenderTimeChanged(time)
      PROVE  PgsInvariant'
  <2>1. UNCHANGED <<mPgsContext, sets, mPgsContextList, segments, mPreviousObjectNum,
                    posted, wrong>>
    BY <1>7 DEF Pgs!notifyRenderTimeChanged, Pgs!reader, Pgs!decoder
  <2> QED BY <1>1, <2>1, SameScreen DEF PgsInvariant, Collected
<1> QED BY <1>2, <1>3, <1>4, <1>5, <1>6, <1>7 DEF Pgs!Next

LEMMA PgsSafe == PgsInvariant => SetsShown
<1> SUFFICES ASSUME PgsInvariant PROVE Pgs!InOrderOnce /\ Pgs!ScreenIsCleared
  BY DEF SetsShown
<1>1. /\ sets \in Seq(DisplaySets) /\ InTurn(Thread) /\ Past(mPgsContextList, wrong)
      /\ Cleared(Thread, wrong, {})
  BY DEF PgsInvariant, OnScreen
<1>2. /\ mPgsContextList \in Seq(Nat) /\ posted \in Seq(Nat) /\ Ascending(posted)
      /\ DOMAIN posted = 1 .. Len(posted) /\ Len(posted) \in Nat
      /\ \A n : Member(n, posted) => n \in 1 .. Len(sets)
      /\ \A i \in 1 .. 2 : i > mPreviousObjectNum => segments[i] = 0
      /\ posted # << >> => mPreviousObjectNum = Len(sets[posted[Len(posted)]].decoded)
  BY <1>1 DEF InTurn, Thread, Threads
<1>3. Pgs!InOrderOnce
  BY <1>2 DEF Pgs!InOrderOnce, Ascending
<1>4. Pgs!Segments = 1 .. 2 /\ DOMAIN sets = 1 .. Len(sets)
  BY <1>1 DEF Pgs!Segments, Pgs!MAX_OBJECT_REFS
<1>5. Pgs!NoLeftovers
  <2> SUFFICES ASSUME posted # << >>, NEW i \in 1 .. 2,
                      i \notin DOMAIN sets[posted[Len(posted)]].decoded
               PROVE  segments[i] = 0
    BY <1>4 DEF Pgs!NoLeftovers, Pgs!Last
  <2> DEFINE n == posted[Len(posted)]
  <2>1. Len(posted) \in 1 .. Len(posted)
    BY <1>2
  <2>2. n \in 1 .. Len(sets)
    BY <1>2, <2>1 DEF Member
  <2> HIDE DEF n
  <2>3. sets[n].decoded \in Seq({"nothing", "empty", "picture"})
    <3>1. sets[n] \in DisplaySets
      BY <1>1, <2>2
    <3> QED BY <3>1 DEF DisplaySets, Decodings
  <2>4. i > Len(sets[n].decoded)
    BY <2>3 DEF n
  <2> QED BY <1>2, <2>4 DEF n
<1>6. Pgs!ClearingIsKept
  <2>1. \A n : n \in Pgs!Range(mPgsContextList) <=> Member(n, mPgsContextList)
    BY <1>2, Ranges
  <2> SUFFICES ASSUME NEW n \in 1 .. Len(sets), Pgs!Clears(n), ~Member(n, mPgsContextList),
                      n \notin wrong, NEW i \in 1 .. 2
               PROVE  \/ segments[i] = 0 \/ segments[i] > n
                      \/ Taken(n, i)
    BY <1>4, <2>1 DEF Pgs!ClearingIsKept, Taken
  <2> QED BY <1>1 DEF Cleared, Thread
<1> QED BY <1>3, <1>5, <1>6 DEF Pgs!ScreenIsCleared

\* Whatever the stream's display sets and the clock of the video, and however late the
\* decoding thread is: each set is posted once and in its order, a set that clears the
\* screen is never dropped but has cleared it, and no segment keeps a picture of an earlier
\* set (PgsParser.cpp: handleDisplayEndSegment, postDecodedItem).
THEOREM SetsShownAlways == MCSpec => []SetsShown
<1>1. MCInit => PgsInvariant
  BY PgsInit DEF MCInit
<1>2. PgsInvariant /\ [MCNext]_<<part, ttvars, dvb, pgs>> => PgsInvariant'
  <2> SUFFICES ASSUME PgsInvariant, [MCNext]_<<part, ttvars, dvb, pgs>> PROVE PgsInvariant'
    OBVIOUS
  <2>1. CASE Pgs!Next
    BY <2>1, PgsNext
  <2>2. CASE UNCHANGED pgs
    <3>1. UNCHANGED <<mPgsContext, sets, mPgsContextList, segments, mPreviousObjectNum,
                      posted, wrong>>
      BY <2>2 DEF pgs
    <3> QED BY <3>1, SameScreen DEF PgsInvariant, Collected
  <2> QED BY <2>1, <2>2 DEF MCNext
<1>3. PgsInvariant => SetsShown
  BY PgsSafe
<1> QED BY <1>1, <1>2, <1>3, PTL DEF MCSpec
-----------------------------------------------------------------------------
(* The page of DVB: how often a link is in a list.                         *)

LEMMA SameSize == \A S : Dvb!Cardinality(S) = Cardinality(S)
BY Zenon DEF Dvb!Cardinality, Cardinality

\* ... in the first n places of it.
Count(list, n, l) == Cardinality({i \in 1 .. n : list[i] = l})

LEMMA OccursIsCount ==
  ASSUME NEW list, NEW l
  PROVE  Dvb!Occurs(list, l) = Count(list, Len(list), l)
BY SameSize, Zenon DEF Dvb!Occurs, Count

LEMMA CountNothing ==
  ASSUME NEW list, NEW l
  PROVE  Count(list, 0, l) = 0
<1>1. {i \in 1 .. 0 : list[i] = l} = {}
  OBVIOUS
<1> QED BY <1>1, FS_EmptySet DEF Count

LEMMA CountNext ==
  ASSUME NEW list, NEW l, NEW n \in Nat
  PROVE  /\ Count(list, n, l) \in Nat
         /\ Count(list, n + 1, l) = Count(list, n, l) + IF list[n + 1] = l THEN 1 ELSE 0
<1> DEFINE S == {i \in 1 .. n : list[i] = l}
           T == {i \in 1 .. n + 1 : list[i] = l}
<1>1. IsFiniteSet(S) /\ Cardinality(S) \in Nat
  <2>1. IsFiniteSet(1 .. n) /\ S \in SUBSET (1 .. n)
    BY FS_Interval
  <2> HIDE DEF S
  <2>2. IsFiniteSet(S)
    BY <2>1, FS_Subset
  <2> QED BY <2>2, FS_CardinalityType
<1>2. n + 1 \notin S
  OBVIOUS
<1>3. CASE list[n + 1] = l
  <2>1. T = S \cup {n + 1}
    BY <1>3
  <2> HIDE DEF S, T
  <2>2. Cardinality(T) = Cardinality(S) + 1
    BY <1>1, <1>2, <2>1, FS_AddElement
  <2> QED BY <1>1, <1>3, <2>2 DEF Count, S, T
<1>4. CASE list[n + 1] # l
  <2>1. T = S
    BY <1>4
  <2> HIDE DEF S, T
  <2>2. Cardinality(T) = Cardinality(S) + 0
    BY <1>1, <2>1
  <2> QED BY <1>1, <1>4, <2>2 DEF Count, S, T
<1> QED BY <1>3, <1>4

\* A link is in the list as soon as it is counted.
LEMMA CountedIsThere ==
  ASSUME NEW list, NEW l, NEW n \in Nat
  PROVE  Count(list, n, l) # 0 <=> \E i \in 1 .. n : list[i] = l
<1> DEFINE S == {i \in 1 .. n : list[i] = l}
<1>1. IsFiniteSet(S)
  <2>1. IsFiniteSet(1 .. n) /\ S \in SUBSET (1 .. n)
    BY FS_Interval
  <2> HIDE DEF S
  <2> QED BY <2>1, FS_Subset
<1>2. S # {} <=> \E i \in 1 .. n : list[i] = l
  OBVIOUS
<1> HIDE DEF S
<1>3. Cardinality(S) # 0 <=> S # {}
  BY <1>1, FS_EmptySet
<1> QED BY <1>2, <1>3 DEF Count, S

LEMMA CountAlike ==
  ASSUME NEW s, NEW t, NEW l, NEW n, \A i \in 1 .. n : s[i] = t[i]
  PROVE  Count(s, n, l) = Count(t, n, l)
<1>1. {i \in 1 .. n : s[i] = l} = {i \in 1 .. n : t[i] = l}
  OBVIOUS
<1> QED BY <1>1 DEF Count

LEMMA CountGrows ==
  ASSUME NEW list, NEW l, NEW n \in Nat, NEW m \in Nat, n <= m
  PROVE  Count(list, n, l) <= Count(list, m, l)
<1> DEFINE S == {i \in 1 .. n : list[i] = l}
           T == {i \in 1 .. m : list[i] = l}
<1>1. IsFiniteSet(T)
  <2>1. IsFiniteSet(1 .. m) /\ T \in SUBSET (1 .. m)
    BY FS_Interval
  <2> HIDE DEF T
  <2> QED BY <2>1, FS_Subset
<1>2. S \in SUBSET T
  OBVIOUS
<1> HIDE DEF S, T
<1>3. Cardinality(S) <= Cardinality(T)
  BY <1>1, <1>2, FS_Subset
<1> QED BY <1>3 DEF Count, S, T

\* Two lists one after the other.
Behind(s, t, k, n) == \A i \in 1 .. n : t[k + i] = s[i]

LEMMA CountJoined ==
  ASSUME NEW s, NEW t, NEW l, NEW k \in Nat, NEW n \in Nat, Behind(s, t, k, n)
  PROVE  Count(t, k + n, l) = Count(t, k, l) + Count(s, n, l)
<1> DEFINE P == {j \in Nat : j <= n => Count(t, k + j, l) = Count(t, k, l) + Count(s, j, l)}
<1>0. \A j \in Nat : Count(t, j, l) \in Nat /\ Count(s, j, l) \in Nat
  BY CountNext
<1>1. 0 \in P
  <2>1. Count(s, 0, l) = 0 /\ k + 0 = k
    BY CountNothing
  <2> QED BY <1>0, <2>1
<1>2. ASSUME NEW j \in P PROVE j + 1 \in P
  <2> SUFFICES ASSUME j + 1 <= n
               PROVE  Count(t, k + (j + 1), l) = Count(t, k, l) + Count(s, j + 1, l)
    OBVIOUS
  <2>1. j \in Nat /\ j <= n /\ j + 1 \in 1 .. n /\ k + (j + 1) = (k + j) + 1 /\ k + j \in Nat
    OBVIOUS
  <2>2. Count(t, k + j, l) = Count(t, k, l) + Count(s, j, l)
    BY <2>1
  <2>3. t[(k + j) + 1] = s[j + 1]
    BY <2>1 DEF Behind
  <2> HIDE DEF P
  <2> DEFINE one == IF s[j + 1] = l THEN 1 ELSE 0
  <2>4. Count(s, j + 1, l) = Count(s, j, l) + one
    BY <2>1, CountNext
  <2>5. Count(t, (k + j) + 1, l) = Count(t, k + j, l) + one
    BY <2>1, <2>3, CountNext
  <2>6. one \in Nat
    OBVIOUS
  <2> HIDE DEF one
  <2>7. /\ Count(t, k, l) \in Nat /\ Count(s, j, l) \in Nat
    BY <1>0, <2>1
  <2> QED BY <2>1, <2>2, <2>4, <2>5, <2>6, <2>7
<1> HIDE DEF P
<1>3. P = Nat
  <2>1. P \in SUBSET Nat
    BY DEF P
  <2> QED BY <1>1, <1>2, <2>1, Induction
<1> QED BY <1>3 DEF P

\* A list from its end to its beginning.
Backwards(s, t, m) == \A i \in 1 .. m : t[i] = s[(m - i) + 1]

LEMMA CountReversed ==
  ASSUME NEW s, NEW t, NEW l, NEW m \in Nat, Backwards(s, t, m)
  PROVE  Count(t, m, l) = Count(s, m, l)
<1> DEFINE P == {j \in Nat : j <= m => Count(t, j, l) + Count(s, m - j, l) = Count(s, m, l)}
<1>0. \A j \in Nat : Count(t, j, l) \in Nat /\ Count(s, j, l) \in Nat
  BY CountNext
<1>1. 0 \in P
  <2>1. Count(t, 0, l) = 0 /\ m - 0 = m
    BY CountNothing
  <2> QED BY <1>0, <2>1
<1>2. ASSUME NEW j \in P PROVE j + 1 \in P
  <2> SUFFICES ASSUME j + 1 <= m
               PROVE  Count(t, j + 1, l) + Count(s, m - (j + 1), l) = Count(s, m, l)
    OBVIOUS
  <2> DEFINE r == m - (j + 1)
  <2>1. /\ j \in Nat /\ j <= m /\ j + 1 \in 1 .. m /\ m - j = r + 1 /\ r \in Nat
        /\ (m - (j + 1)) + 1 = r + 1
    OBVIOUS
  <2>2. Count(t, j, l) + Count(s, r + 1, l) = Count(s, m, l)
    BY <2>1
  <2>3. t[j + 1] = s[r + 1]
    BY <2>1 DEF Backwards
  <2> HIDE DEF P, r
  <2> DEFINE one == IF s[r + 1] = l THEN 1 ELSE 0
  <2>4. Count(s, r + 1, l) = Count(s, r, l) + one
    BY <2>1, CountNext
  <2>5. Count(t, j + 1, l) = Count(t, j, l) + one
    BY <2>1, <2>3, CountNext
  <2>6. one \in Nat
    OBVIOUS
  <2> HIDE DEF one
  <2>7. Count(t, j, l) \in Nat /\ Count(s, r, l) \in Nat
    BY <1>0, <2>1
  <2>8. Count(t, j + 1, l) + Count(s, r, l) = Count(s, m, l)
    BY <2>2, <2>4, <2>5, <2>6, <2>7
  <2> QED BY <2>8 DEF r
<1> HIDE DEF P
<1>3. P = Nat
  <2>1. P \in SUBSET Nat
    BY DEF P
  <2> QED BY <1>1, <1>2, <2>1, Induction
<1>4. Count(t, m, l) + Count(s, 0, l) = Count(s, m, l)
  <2>1. m <= m /\ m - m = 0
    OBVIOUS
  <2> QED BY <1>3, <2>1 DEF P
<1> QED BY <1>0, <1>4, CountNothing

\* A list without its place k.
Without1(s, r, m, k) ==
  /\ \A i \in 1 .. k - 1 : r[i] = s[i]
  /\ \A i \in k .. m - 1 : r[i] = s[i + 1]

LEMMA CountRemoved ==
  ASSUME NEW s, NEW r, NEW l, NEW m \in Nat, NEW k \in 1 .. m, Without1(s, r, m, k)
  PROVE  Count(r, m - 1, l) + (IF s[k] = l THEN 1 ELSE 0) = Count(s, m, l)
<1> DEFINE a == k - 1  n == m - k  q == [i \in 1 .. n |-> s[k + i]]
           one == IF s[k] = l THEN 1 ELSE 0
<1>1. a \in Nat /\ n \in Nat /\ k \in Nat /\ a + 1 = k /\ k + n = m /\ a + n = m - 1
  OBVIOUS
<1>2. Behind(q, s, k, n)
  BY DEF Behind
<1>3. Behind(q, r, a, n)
  <2> SUFFICES ASSUME NEW i \in 1 .. n PROVE r[a + i] = q[i]
    BY DEF Behind
  <2>1. a + i \in k .. m - 1 /\ (a + i) + 1 = k + i
    OBVIOUS
  <2>2. r[a + i] = s[k + i]
    BY <2>1 DEF Without1
  <2> QED BY <2>2
<1>4. \A i \in 1 .. a : r[i] = s[i]
  BY DEF Without1
<1>5. one \in Nat
  OBVIOUS
<1> HIDE DEF q, n, a
<1>6. Count(s, k + n, l) = Count(s, k, l) + Count(q, n, l)
  BY <1>1, <1>2, CountJoined
<1>7. Count(r, a + n, l) = Count(r, a, l) + Count(q, n, l)
  BY <1>1, <1>3, CountJoined
<1>8. Count(s, a + 1, l) = Count(s, a, l) + IF s[a + 1] = l THEN 1 ELSE 0
  BY <1>1, CountNext
<1>9. Count(r, a, l) = Count(s, a, l)
  BY <1>4, CountAlike
<1>10. Count(s, k, l) = Count(s, a, l) + one
  BY <1>1, <1>8
<1>11. Count(s, a, l) \in Nat /\ Count(q, n, l) \in Nat
  BY <1>1, CountNext
<1>12. /\ Count(r, m - 1, l) = Count(s, a, l) + Count(q, n, l)
       /\ Count(s, m, l) = (Count(s, a, l) + one) + Count(q, n, l)
  BY <1>1, <1>6, <1>7, <1>9, <1>10
<1>13. Count(r, m - 1, l) + one = Count(s, m, l)
  <2> HIDE DEF one
  <2> QED BY <1>5, <1>11, <1>12
<1> QED BY <1>13

-----------------------------------------------------------------------------
(* The lists of links.                                                     *)

Link == [region : Regions, object : Objects, x : Nat, y : Nat]
AllLists == UNION {[D -> Seq(Link)] : D \in SUBSET Objects}

\* The objects' lists: each of links of that object.
LinkLists(o) ==
  o \in AllLists /\ \A id \in DOMAIN o : \A i \in 1 .. Len(o[id]) : o[id][i].object = id

LEMMA ListFacts ==
  ASSUME NEW o, LinkLists(o)
  PROVE  /\ DOMAIN o \subseteq Objects
         /\ \A id \in DOMAIN o : o[id] \in Seq(Link) /\ Len(o[id]) \in Nat
<1>1. PICK D \in SUBSET Objects : o \in [D -> Seq(Link)]
  BY DEF LinkLists, AllLists
<1>2. DOMAIN o = D /\ \A id \in D : o[id] \in Seq(Link)
  BY <1>1
<1>3. \A s \in Seq(Link) : Len(s) \in Nat
  OBVIOUS
<1> QED BY <1>2, <1>3

\* How a function from ids to lists is put together.
LEMMA MakesLinkLists ==
  ASSUME NEW D \in SUBSET Objects, NEW o, o = [id \in D |-> o[id]],
         \A id \in D : o[id] \in Seq(Link) /\ \A i \in 1 .. Len(o[id]) : o[id][i].object = id
  PROVE  LinkLists(o)
<1>1. DOMAIN o = D
  OBVIOUS
<1>2. o \in [D -> Seq(Link)]
  OBVIOUS
<1>3. o \in AllLists
  BY <1>2 DEF AllLists
<1> QED BY <1>1, <1>3 DEF LinkLists

LEMMA InObjectIsNumber ==
  ASSUME NEW o, LinkLists(o), NEW l
  PROVE  Dvb!InObject(o, l) \in Nat
<1>1. CASE l.object \in DOMAIN o
  <2>1. Len(o[l.object]) \in Nat
    BY <1>1, ListFacts
  <2>2. Dvb!InObject(o, l) = Count(o[l.object], Len(o[l.object]), l)
    BY <1>1, OccursIsCount DEF Dvb!InObject
  <2> QED BY <2>1, <2>2, CountNext
<1>2. CASE l.object \notin DOMAIN o
  BY <1>2 DEF Dvb!InObject
<1> QED BY <1>1, <1>2

\* x is there, r is s, which has m elements, without one x.
There(s, x) == \E i \in 1 .. Len(s) : s[i] = x
WithoutOne(s, m, x, r) ==
  /\ Len(r) = m - 1
  /\ \E k \in 1 .. m : /\ s[k] = x
                       /\ \A i \in 1 .. k - 1 : r[i] = s[i]
                       /\ \A i \in k .. m - 1 : r[i] = s[i + 1]

\* A link that there is is removed once.
LEMMA RemovesFirst ==
  ASSUME NEW S, NEW s \in Seq(S), NEW x, There(s, x)
  PROVE  Dvb!RemoveFirst(s, x) \in Seq(S) /\ WithoutOne(s, Len(s), x, Dvb!RemoveFirst(s, x))
<1>0. \E i \in 1 .. Len(s) : s[i] = x
  BY DEF There
<1> DEFINE I == {i \in 1 .. Len(s) : s[i] = x}
           k == Dvb!Min(I)
<1>1. Dvb!RemoveFirst(s, x) = Dvb!RemoveAt(s, k)
  <2>1. I # {}
    BY <1>0
  <2>2. Dvb!SelectInSeq(s, LAMBDA v : v = x) = k
    BY <2>1 DEF Dvb!SelectInSeq
  <2> HIDE DEF k, I
  <2> QED BY <1>0, <2>2 DEF Dvb!RemoveFirst
<1>2. k \in I
  <2>1. I \in SUBSET Nat /\ I # {}
    BY <1>0
  <2> HIDE DEF I
  <2> QED BY <2>1, LeastThere DEF Dvb!Min
<1> HIDE DEF k
<1>3. k \in 1 .. Len(s) /\ s[k] = x /\ Len(s) \in Nat
  BY <1>2
<1> HIDE DEF I
<1> DEFINE a == SubSeq(s, 1, k - 1)  b == SubSeq(s, k + 1, Len(s))
<1>4. /\ a \in Seq(S) /\ Len(a) = k - 1 /\ \A i \in 1 .. k - 1 : a[i] = s[i]
  BY <1>3
<1>5. /\ b \in Seq(S) /\ Len(b) = Len(s) - k /\ \A i \in 1 .. Len(s) - k : b[i] = s[k + i]
  BY <1>3
<1>6. Dvb!RemoveAt(s, k) = a \o b
  BY Zenon DEF Dvb!RemoveAt
<1> HIDE DEF a, b
<1> DEFINE r == a \o b
<1>7. /\ r \in Seq(S) /\ Len(r) = Len(a) + Len(b)
      /\ \A i \in 1 .. Len(a) + Len(b) : r[i] = IF i <= Len(a) THEN a[i] ELSE b[i - Len(a)]
  <2>1. a \in Seq(S) /\ b \in Seq(S)
    BY <1>4, <1>5
  <2> QED BY <2>1
<1> HIDE DEF r
<1>8. Len(r) = Len(s) - 1
  BY <1>3, <1>4, <1>5, <1>7
<1>9. ASSUME NEW i \in 1 .. k - 1 PROVE r[i] = s[i]
  <2>1. i \in 1 .. Len(a) + Len(b) /\ i <= Len(a)
    BY <1>3, <1>4, <1>5
  <2> QED BY <1>4, <1>7, <2>1
<1>10. ASSUME NEW i \in k .. Len(s) - 1 PROVE r[i] = s[i + 1]
  <2>1. i \in 1 .. Len(a) + Len(b) /\ ~(i <= Len(a)) /\ i - Len(a) = i - (k - 1)
    BY <1>3, <1>4, <1>5
  <2>2. i - (k - 1) \in 1 .. Len(s) - k /\ k + (i - (k - 1)) = i + 1
    BY <1>3
  <2>3. r[i] = b[i - (k - 1)]
    BY <1>7, <2>1
  <2> QED BY <1>5, <2>2, <2>3
<1>11. Dvb!RemoveFirst(s, x) = r
  BY <1>1, <1>6 DEF r
<1>12. WithoutOne(s, Len(s), x, r)
  BY <1>3, <1>8, <1>9, <1>10 DEF WithoutOne
<1> QED BY <1>7, <1>11, <1>12

\* Unlinking one link of an object takes it from its list, once.
LEMMA UnlinksOne ==
  ASSUME NEW o, LinkLists(o), NEW l0 \in Link, Dvb!InObject(o, l0) # 0
  PROVE  /\ LinkLists(Dvb!Unlinked(o, l0))
         /\ \A l \in Link :
               Dvb!InObject(Dvb!Unlinked(o, l0), l) + (IF l = l0 THEN 1 ELSE 0)
                   = Dvb!InObject(o, l)
<1> DEFINE id == l0.object  s == o[id]  m == Len(s)
           r == Dvb!RemoveFirst(s, l0)  u == Dvb!Unlinked(o, l0)
<1>1. id \in DOMAIN o /\ id \in Objects /\ Dvb!InObject(o, l0) = Dvb!Occurs(s, l0)
  BY DEF Dvb!InObject, Link
<1>2. s \in Seq(Link) /\ m \in Nat /\ DOMAIN o \subseteq Objects
  BY <1>1, ListFacts
<1>3. \A i \in 1 .. m : s[i].object = id
  BY <1>1 DEF LinkLists
<1>4. \E i \in 1 .. m : s[i] = l0
  <2>1. Count(s, m, l0) # 0
    BY <1>1, OccursIsCount
  <2> HIDE DEF s, m
  <2> QED BY <1>2, <2>1, CountedIsThere
<1> HIDE DEF s
<1>5. r \in Seq(Link) /\ Len(r) = m - 1 /\ WithoutOne(s, m, l0, r)
  <2>1. There(s, l0)
    BY <1>4 DEF There
  <2> HIDE DEF m, r
  <2>2. Dvb!RemoveFirst(s, l0) \in Seq(Link) /\ WithoutOne(s, Len(s), l0, Dvb!RemoveFirst(s, l0))
    BY <1>2, <2>1, RemovesFirst
  <2>3. r \in Seq(Link) /\ WithoutOne(s, m, l0, r)
    BY <2>2, Zenon DEF r, m
  <2>4. Len(r) = m - 1
    BY <2>3, Zenon DEF WithoutOne
  <2> QED BY <2>3, <2>4, Zenon
<1> HIDE DEF r, m
<1>6. PICK k \in 1 .. m : /\ s[k] = l0
                          /\ \A i \in 1 .. k - 1 : r[i] = s[i]
                          /\ \A i \in k .. m - 1 : r[i] = s[i + 1]
  BY <1>5, Zenon DEF WithoutOne
<1>7. \A i \in 1 .. Len(r) : r[i].object = id
  <2> SUFFICES ASSUME NEW i \in 1 .. Len(r) PROVE r[i].object = id
    OBVIOUS
  <2>1. CASE i \in 1 .. k - 1
    <3>1. i \in 1 .. m
      BY <1>2, <1>6, <2>1
    <3> QED BY <1>3, <1>6, <2>1, <3>1
  <2>2. CASE i \in k .. m - 1
    <3>1. i + 1 \in 1 .. m
      BY <1>2, <1>6, <2>2
    <3> QED BY <1>3, <1>6, <2>2, <3>1
  <2> QED BY <1>2, <1>5, <1>6, <2>1, <2>2
<1>8. \A l : Dvb!Occurs(r, l) + (IF l = l0 THEN 1 ELSE 0) = Dvb!Occurs(s, l)
  <2> SUFFICES ASSUME NEW l
               PROVE  Dvb!Occurs(r, l) + (IF l = l0 THEN 1 ELSE 0) = Dvb!Occurs(s, l)
    OBVIOUS
  <2>1. Count(r, m - 1, l) + (IF s[k] = l THEN 1 ELSE 0) = Count(s, m, l)
    <3>1. Without1(s, r, m, k)
      BY <1>6 DEF Without1
    <3> QED BY <1>2, <3>1, CountRemoved
  <2>2. Dvb!Occurs(r, l) = Count(r, m - 1, l) /\ Dvb!Occurs(s, l) = Count(s, m, l)
    BY <1>5, OccursIsCount DEF m
  <2>3. s[k] = l <=> l = l0
    BY <1>6
  <2> QED BY <2>1, <2>2, <2>3
<1>9. CASE r = << >>
  <2>1. u = [i \in DOMAIN o \ {id} |-> o[i]]
    BY <1>1, <1>9 DEF Dvb!Unlinked, Dvb!Without, r, s
  <2> HIDE DEF u
  <2>2. DOMAIN u = DOMAIN o \ {id} /\ \A i \in DOMAIN u : u[i] = o[i]
    BY <2>1
  <2>3. LinkLists(u)
    <3> DEFINE D == DOMAIN o \ {id}
    <3>1. D \in SUBSET Objects /\ u = [i \in D |-> u[i]]
      BY <1>2, <2>1
    <3>2. \A i \in D : u[i] \in Seq(Link) /\ \A j \in 1 .. Len(u[i]) : u[i][j].object = i
      BY <2>2, ListFacts DEF LinkLists
    <3> HIDE DEF D
    <3> QED BY <3>1, <3>2, MakesLinkLists
  <2>4. ASSUME NEW l \in Link
        PROVE  Dvb!InObject(u, l) + (IF l = l0 THEN 1 ELSE 0) = Dvb!InObject(o, l)
    <3>1. CASE l.object = id
      <4>1. Dvb!InObject(u, l) = 0 /\ Dvb!InObject(o, l) = Dvb!Occurs(s, l)
        BY <1>1, <2>2, <3>1 DEF Dvb!InObject, s
      <4>2. Dvb!Occurs(r, l) = 0
        <5>1. Len(r) = 0
          BY <1>9
        <5>2. Dvb!Occurs(r, l) = Count(r, 0, l)
          BY <5>1, OccursIsCount
        <5> QED BY <5>2, CountNothing
      <4>3. Dvb!Occurs(r, l) + (IF l = l0 THEN 1 ELSE 0) = Dvb!Occurs(s, l)
        BY <1>8
      <4> QED BY <4>1, <4>2, <4>3
    <3>2. CASE l.object # id
      <4>1. l # l0
        BY <3>2
      <4>2. l.object \in DOMAIN u <=> l.object \in DOMAIN o
        BY <2>2, <3>2
      <4>3. Dvb!InObject(u, l) = Dvb!InObject(o, l)
        BY <2>2, <4>2 DEF Dvb!InObject
      <4>4. Dvb!InObject(o, l) \in Nat
        BY InObjectIsNumber
      <4> QED BY <4>1, <4>3, <4>4
    <3> QED BY <3>1, <3>2
  <2> QED BY <2>3, <2>4 DEF u
<1>10. CASE r # << >>
  <2>1. u = [i \in DOMAIN o |-> IF i = id THEN r ELSE o[i]]
    <3>1. DOMAIN o \cup {id} = DOMAIN o
      BY <1>1
    <3> QED BY <1>1, <1>10, <3>1 DEF Dvb!Unlinked, Dvb!With, r, s
  <2> HIDE DEF u
  <2>2. DOMAIN u = DOMAIN o /\ u[id] = r /\ \A i \in DOMAIN u : i # id => u[i] = o[i]
    BY <1>1, <2>1
  <2>3. LinkLists(u)
    <3> DEFINE D == DOMAIN o
    <3>1. D \in SUBSET Objects /\ u = [i \in D |-> u[i]]
      BY <1>2, <2>1
    <3>2. ASSUME NEW i \in D
          PROVE  u[i] \in Seq(Link) /\ \A j \in 1 .. Len(u[i]) : u[i][j].object = i
      <4>1. CASE i = id
        BY <1>5, <1>7, <2>2, <4>1
      <4>2. CASE i # id
        BY <2>2, <4>2, ListFacts DEF LinkLists
      <4> QED BY <4>1, <4>2
    <3> HIDE DEF D
    <3> QED BY <3>1, <3>2, MakesLinkLists
  <2>4. ASSUME NEW l \in Link
        PROVE  Dvb!InObject(u, l) + (IF l = l0 THEN 1 ELSE 0) = Dvb!InObject(o, l)
    <3>1. CASE l.object = id
      <4>1. Dvb!InObject(u, l) = Dvb!Occurs(r, l) /\ Dvb!InObject(o, l) = Dvb!Occurs(s, l)
        BY <1>1, <2>2, <3>1 DEF Dvb!InObject, s
      <4> QED BY <1>8, <4>1
    <3>2. CASE l.object # id
      <4>1. l # l0
        BY <3>2
      <4>2. Dvb!InObject(u, l) = Dvb!InObject(o, l)
        BY <2>2, <3>2 DEF Dvb!InObject
      <4>3. Dvb!InObject(o, l) \in Nat
        BY InObjectIsNumber
      <4> QED BY <4>1, <4>2, <4>3
    <3> QED BY <3>1, <3>2
  <2> QED BY <2>3, <2>4 DEF u
<1> QED BY <1>9, <1>10

\* Linking one more puts it into the list of its object, once.
LEMMA LinksOne ==
  ASSUME NEW o, LinkLists(o), NEW l0 \in Link
  PROVE  /\ LinkLists(Dvb!Linked(o, l0))
         /\ \A l \in Link :
               Dvb!InObject(Dvb!Linked(o, l0), l)
                   = Dvb!InObject(o, l) + IF l = l0 THEN 1 ELSE 0
<1> DEFINE id == l0.object  s == IF id \in DOMAIN o THEN o[id] ELSE << >>
           r == <<l0>> \o s  u == Dvb!Linked(o, l0)
<1>1. id \in Objects /\ DOMAIN o \subseteq Objects
  BY ListFacts DEF Link
<1>2. s \in Seq(Link) /\ Len(s) \in Nat /\ \A i \in 1 .. Len(s) : s[i].object = id
  <2>1. CASE id \in DOMAIN o
    <3>1. s = o[id]
      BY <2>1
    <3>2. o[id] \in Seq(Link) /\ Len(o[id]) \in Nat
      BY <2>1, ListFacts
    <3>3. \A i \in 1 .. Len(o[id]) : o[id][i].object = id
      BY <2>1 DEF LinkLists
    <3> HIDE DEF s, id
    <3> QED BY <3>1, <3>2, <3>3
  <2>2. CASE id \notin DOMAIN o
    <3>1. s = << >>
      BY <2>2
    <3> HIDE DEF s
    <3>2. << >> \in Seq(Link) /\ Len(<< >>) = 0
      OBVIOUS
    <3>3. ~ \E i : i \in 1 .. 0
      OBVIOUS
    <3> QED BY <3>1, <3>2, <3>3
  <2> QED BY <2>1, <2>2
<1>3. u = [i \in DOMAIN o \cup {id} |-> IF i = id THEN r ELSE o[i]]
  BY DEF Dvb!Linked, Dvb!With
<1>4. \A l : Dvb!InObject(o, l) = IF l.object = id THEN Dvb!Occurs(s, l) ELSE Dvb!InObject(o, l)
  <2> SUFFICES ASSUME NEW l, l.object = id PROVE Dvb!InObject(o, l) = Dvb!Occurs(s, l)
    OBVIOUS
  <2>1. CASE id \in DOMAIN o
    BY <2>1 DEF Dvb!InObject
  <2>2. CASE id \notin DOMAIN o
    <3>1. s = << >> /\ Len(s) = 0
      BY <2>2
    <3> HIDE DEF s
    <3>2. Dvb!Occurs(s, l) = Count(s, 0, l)
      BY <3>1, OccursIsCount
    <3>3. Dvb!InObject(o, l) = 0
      BY <2>2 DEF Dvb!InObject
    <3> QED BY <3>2, <3>3, CountNothing
  <2> QED BY <2>1, <2>2
<1> HIDE DEF s
<1>5. /\ r \in Seq(Link) /\ Len(r) = 1 + Len(s) /\ r[1] = l0
      /\ \A i \in 1 .. Len(s) : r[1 + i] = s[i]
  <2>1. <<l0>> \in Seq(Link) /\ Len(<<l0>>) = 1 /\ <<l0>>[1] = l0
    OBVIOUS
  <2> DEFINE a == <<l0>>
  <2> HIDE DEF a
  <2>2. /\ a \o s \in Seq(Link) /\ Len(a \o s) = 1 + Len(s)
        /\ \A i \in 1 .. 1 + Len(s) : (a \o s)[i] = IF i <= 1 THEN a[i] ELSE s[i - 1]
    BY <1>2, <2>1 DEF a
  <2>3. (a \o s)[1] = l0
    BY <1>2, <2>1, <2>2 DEF a
  <2>4. ASSUME NEW i \in 1 .. Len(s) PROVE (a \o s)[1 + i] = s[i]
    <3>1. 1 + i \in 1 .. 1 + Len(s) /\ ~(1 + i <= 1) /\ (1 + i) - 1 = i
      BY <1>2
    <3> QED BY <2>2, <3>1
  <2> QED BY <2>2, <2>3, <2>4 DEF a
<1> HIDE DEF r
<1>6. \A i \in 1 .. Len(r) : r[i].object = id
  <2> SUFFICES ASSUME NEW i \in 1 .. Len(r) PROVE r[i].object = id
    OBVIOUS
  <2>1. CASE i = 1
    BY <1>5, <2>1
  <2>2. CASE i # 1
    <3>1. i - 1 \in 1 .. Len(s) /\ 1 + (i - 1) = i
      BY <1>2, <1>5, <2>2
    <3> QED BY <1>2, <1>5, <3>1
  <2> QED BY <2>1, <2>2
<1>7. \A l : Dvb!Occurs(r, l) = Dvb!Occurs(s, l) + IF l = l0 THEN 1 ELSE 0
  <2> SUFFICES ASSUME NEW l
               PROVE  Dvb!Occurs(r, l) = Dvb!Occurs(s, l) + IF l = l0 THEN 1 ELSE 0
    OBVIOUS
  <2> DEFINE m == Len(s)
  <2>0. m \in Nat
    BY <1>2
  <2>1. Count(r, 1 + m, l) = Count(r, 1, l) + Count(s, m, l)
    <3>1. Behind(s, r, 1, m)
      BY <1>5 DEF Behind
    <3> HIDE DEF m
    <3> QED BY <2>0, <3>1, CountJoined
  <2>2. Count(r, 0 + 1, l) = Count(r, 0, l) + IF r[0 + 1] = l THEN 1 ELSE 0
    BY CountNext
  <2>3. Count(r, 1, l) = IF l = l0 THEN 1 ELSE 0
    <3>1. 0 + 1 = 1 /\ Count(r, 0, l) = 0
      BY CountNothing
    <3>2. Count(r, 1, l) = 0 + IF r[1] = l THEN 1 ELSE 0
      BY <2>2, <3>1
    <3> QED BY <1>5, <3>2
  <2>4. Dvb!Occurs(r, l) = Count(r, 1 + m, l) /\ Dvb!Occurs(s, l) = Count(s, m, l)
    BY <1>5, OccursIsCount
  <2>5. Count(s, m, l) \in Nat
    BY <2>0, CountNext
  <2> QED BY <2>1, <2>3, <2>4, <2>5
<1> HIDE DEF u
<1>8. /\ DOMAIN u = DOMAIN o \cup {id} /\ u[id] = r
      /\ \A i \in DOMAIN o : i # id => u[i] = o[i]
  BY <1>3
<1>9. LinkLists(u)
  <2> DEFINE D == DOMAIN o \cup {id}
  <2>1. D \in SUBSET Objects /\ u = [i \in D |-> u[i]]
    BY <1>1, <1>3
  <2>2. ASSUME NEW i \in D
        PROVE  u[i] \in Seq(Link) /\ \A j \in 1 .. Len(u[i]) : u[i][j].object = i
    <3>1. CASE i = id
      BY <1>5, <1>6, <1>8, <3>1
    <3>2. CASE i # id
      BY <1>8, <3>2, ListFacts DEF LinkLists
    <3> QED BY <3>1, <3>2
  <2> HIDE DEF D
  <2> QED BY <2>1, <2>2, MakesLinkLists
<1>10. ASSUME NEW l \in Link
       PROVE  Dvb!InObject(u, l) = Dvb!InObject(o, l) + IF l = l0 THEN 1 ELSE 0
  <2>1. CASE l.object = id
    <3>1. Dvb!InObject(u, l) = Dvb!Occurs(r, l)
      BY <1>8, <2>1 DEF Dvb!InObject
    <3> QED BY <1>4, <1>7, <2>1, <3>1
  <2>2. CASE l.object # id
    <3>1. l # l0 /\ (l.object \in DOMAIN u <=> l.object \in DOMAIN o)
      BY <1>8, <2>2
    <3>2. Dvb!InObject(u, l) = Dvb!InObject(o, l)
      BY <1>8, <2>2, <3>1 DEF Dvb!InObject
    <3>3. Dvb!InObject(o, l) \in Nat
      BY InObjectIsNumber
    <3> QED BY <3>1, <3>2, <3>3
  <2> QED BY <2>1, <2>2
<1> QED BY <1>9, <1>10 DEF u

\* A recursive function takes those steps, and so it keeps what they keep.
Runs(N, I, base, F, k) ==
  k[0] = base /\ \A n \in 1 .. N : k[n - 1] \in I[n - 1] => k[n] = F[<<k[n - 1], n>>]

LEMMA RunsInside ==
  ASSUME NEW N \in Nat, NEW I, NEW base, NEW F, NEW k,
         Keeps(N, I, base, F), Runs(N, I, base, F, k)
  PROVE  \A n \in 0 .. N : k[n] \in I[n]
<1>0. base \in I[0] /\ \A n \in 1 .. N : \A x \in I[n - 1] : F[<<x, n>>] \in I[n]
  BY DEF Keeps
<1> DEFINE P == {n \in Nat : n <= N => k[n] \in I[n]}
<1>1. 0 \in P
  BY <1>0 DEF Runs
<1>2. ASSUME NEW n \in P PROVE n + 1 \in P
  <2> SUFFICES ASSUME n + 1 <= N PROVE k[n + 1] \in I[n + 1]
    OBVIOUS
  <2>1. n + 1 \in 1 .. N /\ (n + 1) - 1 = n /\ n <= N
    OBVIOUS
  <2>2. k[n] \in I[n]
    BY <2>1
  <2>3. k[n + 1] = F[<<k[n], n + 1>>]
    BY <2>1, <2>2 DEF Runs
  <2>4. F[<<k[n], n + 1>>] \in I[n + 1]
    BY <1>0, <2>1, <2>2
  <2> QED BY <2>3, <2>4
<1> HIDE DEF P
<1>3. P = Nat
  <2>1. P \in SUBSET Nat
    BY DEF P
  <2> QED BY <1>1, <1>2, <2>1, Induction
<1> QED BY <1>3 DEF P

\* The lists without the first n links of had.
Left(o, had, q, n) ==
  LinkLists(q) /\ \A l \in Link : Dvb!InObject(q, l) + Count(had, n, l) = Dvb!InObject(o, l)

LEMMA UnlinksNext ==
  ASSUME NEW o, LinkLists(o), NEW had \in Seq(Link),
         \A l \in Link : Dvb!Occurs(had, l) <= Dvb!InObject(o, l),
         NEW n \in 1 .. Len(had), NEW q, Left(o, had, q, n - 1)
  PROVE  Left(o, had, Dvb!Unlinked(q, had[n]), n)
<1> DEFINE l0 == had[n]  u == Dvb!Unlinked(q, l0)  p == n - 1
<1>1. l0 \in Link /\ Len(had) \in Nat /\ p \in Nat /\ p + 1 = n /\ n \in Nat
  OBVIOUS
<1>2. \A l : Count(had, n, l) = Count(had, p, l) + (IF l = l0 THEN 1 ELSE 0)
  <2>1. \A l : Count(had, p + 1, l) = Count(had, p, l) + IF had[p + 1] = l THEN 1 ELSE 0
    BY <1>1, CountNext
  <2>2. \A l : had[p + 1] = l <=> l = l0
    BY <1>1
  <2> QED BY <1>1, <2>1, <2>2
<1>3. LinkLists(q) /\ \A l \in Link : Dvb!InObject(q, l) + Count(had, p, l) = Dvb!InObject(o, l)
  BY DEF Left
<1> HIDE DEF l0, p
<1>4. \A l : Dvb!InObject(q, l) \in Nat /\ Count(had, p, l) \in Nat /\ Count(had, n, l) \in Nat
  BY <1>1, <1>3, CountNext, InObjectIsNumber
<1>5. Dvb!InObject(q, l0) # 0
  <2>1. Count(had, n, l0) <= Count(had, Len(had), l0)
    BY <1>1, CountGrows
  <2>2. Count(had, Len(had), l0) <= Dvb!InObject(o, l0)
    BY <1>1, OccursIsCount
  <2>3. Count(had, Len(had), l0) \in Nat /\ Dvb!InObject(o, l0) \in Nat
    BY <1>1, CountNext, InObjectIsNumber
  <2>4. Count(had, p, l0) + 1 <= Dvb!InObject(o, l0)
    BY <1>2, <1>4, <2>1, <2>2, <2>3
  <2> QED BY <1>1, <1>3, <1>4, <2>3, <2>4
<1>6. /\ LinkLists(u)
      /\ \A l \in Link : Dvb!InObject(u, l) + (IF l = l0 THEN 1 ELSE 0) = Dvb!InObject(q, l)
  BY <1>1, <1>3, <1>5, UnlinksOne
<1> HIDE DEF u
<1>7. ASSUME NEW l \in Link
      PROVE  Dvb!InObject(u, l) + Count(had, n, l) = Dvb!InObject(o, l)
  <2> DEFINE one == IF l = l0 THEN 1 ELSE 0
  <2>1. /\ Dvb!InObject(u, l) + one = Dvb!InObject(q, l)
        /\ Dvb!InObject(q, l) + Count(had, p, l) = Dvb!InObject(o, l)
        /\ Count(had, n, l) = Count(had, p, l) + one
    BY <1>2, <1>3, <1>6
  <2>2. one \in Nat /\ Dvb!InObject(u, l) \in Nat /\ Count(had, p, l) \in Nat
    BY <1>4, <1>6, InObjectIsNumber
  <2> HIDE DEF one
  <2> QED BY <2>1, <2>2
<1>8. Left(o, had, u, n)
  BY <1>6, <1>7 DEF Left
<1> QED BY <1>8 DEF u, l0

LEMMA DeletesList ==
  ASSUME NEW o, LinkLists(o), NEW had \in Seq(Link),
         \A l \in Link : Dvb!Occurs(had, l) <= Dvb!InObject(o, l)
  PROVE  /\ LinkLists(Dvb!deleteRegionDisplayList(o, had))
         /\ \A l \in Link : Dvb!InObject(Dvb!deleteRegionDisplayList(o, had), l)
                                + Dvb!Occurs(had, l) = Dvb!InObject(o, l)
<1> DEFINE N == Len(had)
           J(n) == {q \in AllLists : Left(o, had, q, n)}
           I == [n \in 0 .. N |-> J(n)]
           F == [p \in AllLists \X (1 .. N) |-> Dvb!Unlinked(p[1], had[p[2]])]
<1>1. N \in Nat
  OBVIOUS
<1> HIDE DEF N
<1>2. o \in AllLists /\ \A q, n : Left(o, had, q, n) => q \in AllLists
  BY DEF LinkLists, Left
<1>3. \A n \in 0 .. N : \A q : q \in I[n] <=> Left(o, had, q, n)
  BY <1>2
<1>4. \A n \in 1 .. N : \A q \in AllLists : F[<<q, n>>] = Dvb!Unlinked(q, had[n])
  OBVIOUS
<1> HIDE DEF I, F
<1>5. ASSUME NEW n \in 1 .. N, NEW q \in I[n - 1]
      PROVE  F[<<q, n>>] = Dvb!Unlinked(q, had[n]) /\ F[<<q, n>>] \in I[n]
  <2>1. n - 1 \in 0 .. N /\ n \in 0 .. N
    BY <1>1
  <2>2. Left(o, had, q, n - 1)
    BY <1>3, <2>1
  <2>3. Left(o, had, Dvb!Unlinked(q, had[n]), n)
    BY <2>2, UnlinksNext DEF N
  <2>4. F[<<q, n>>] = Dvb!Unlinked(q, had[n])
    BY <1>2, <1>4, <2>2
  <2> QED BY <1>3, <2>1, <2>3, <2>4
<1>6. o \in I[0]
  <2>1. \A l \in Link : Dvb!InObject(o, l) + Count(had, 0, l) = Dvb!InObject(o, l)
    BY CountNothing, InObjectIsNumber
  <2>2. Left(o, had, o, 0)
    BY <2>1 DEF Left
  <2> QED BY <1>1, <1>3, <2>2
<1>7. Keeps(N, I, o, F)
  BY <1>5, <1>6 DEF Keeps
<1>8. PICK g : Steps(N, I, o, F, g)
  BY <1>1, <1>7, Iteration
<1>9. /\ g = [n \in 0 .. N |-> g[n]] /\ g[0] = o
      /\ \A n \in 1 .. N : g[n] = F[<<g[n - 1], n>>]
      /\ \A n \in 0 .. N : g[n] \in I[n]
  BY <1>8 DEF Steps
<1> DEFINE Made(k) == k = [n \in 0 .. N |-> IF n = 0 THEN o ELSE Dvb!Unlinked(k[n - 1], had[n])]
           left == CHOOSE k : Made(k)
<1>10. Made(g)
  <2>1. ASSUME NEW n \in 0 .. N
        PROVE  g[n] = IF n = 0 THEN o ELSE Dvb!Unlinked(g[n - 1], had[n])
    <3>1. n = 0 \/ (n \in 1 .. N /\ n - 1 \in 0 .. N)
      BY <1>1
    <3> QED BY <1>5, <1>9, <3>1
  <2> QED BY <1>9, <2>1
<1>11. Made(left)
  <2> HIDE DEF Made
  <2> QED BY <1>10, Zenon
<1>12. Dvb!deleteRegionDisplayList(o, had) = left[N]
  BY Zenon DEF Dvb!deleteRegionDisplayList, N
<1> HIDE DEF left
<1>13. Runs(N, I, o, F, left)
  <2>1. left[0] = o /\ \A n \in 1 .. N : left[n] = Dvb!Unlinked(left[n - 1], had[n])
    BY <1>1, <1>11
  <2> HIDE DEF Made
  <2> QED BY <1>5, <2>1 DEF Runs
<1>14. left[N] \in I[N]
  <2>1. N \in 0 .. N
    BY <1>1
  <2> QED BY <1>1, <1>7, <1>13, <2>1, RunsInside
<1>15. Left(o, had, left[N], N)
  BY <1>1, <1>3, <1>14
<1> QED BY <1>12, <1>15, OccursIsCount DEF Left, N

\* The lists with the first n links of new, too.
More(o, new, q, n) ==
  LinkLists(q) /\ \A l \in Link : Dvb!InObject(q, l) = Dvb!InObject(o, l) + Count(new, n, l)

LEMMA LinksNext ==
  ASSUME NEW o, LinkLists(o), NEW new \in Seq(Link),
         NEW n \in 1 .. Len(new), NEW q, More(o, new, q, n - 1)
  PROVE  More(o, new, Dvb!Linked(q, new[n]), n)
<1> DEFINE l0 == new[n]  u == Dvb!Linked(q, l0)  p == n - 1
<1>1. l0 \in Link /\ Len(new) \in Nat /\ p \in Nat /\ p + 1 = n /\ n \in Nat
  OBVIOUS
<1>2. \A l : Count(new, n, l) = Count(new, p, l) + (IF l = l0 THEN 1 ELSE 0)
  <2>1. \A l : Count(new, p + 1, l) = Count(new, p, l) + IF new[p + 1] = l THEN 1 ELSE 0
    BY <1>1, CountNext
  <2>2. \A l : new[p + 1] = l <=> l = l0
    BY <1>1
  <2> QED BY <1>1, <2>1, <2>2
<1>3. LinkLists(q) /\ \A l \in Link : Dvb!InObject(q, l) = Dvb!InObject(o, l) + Count(new, p, l)
  BY DEF More
<1> HIDE DEF l0, p
<1>4. /\ LinkLists(u)
      /\ \A l \in Link : Dvb!InObject(u, l) = Dvb!InObject(q, l) + IF l = l0 THEN 1 ELSE 0
  BY <1>1, <1>3, LinksOne
<1> HIDE DEF u
<1>5. ASSUME NEW l \in Link
      PROVE  Dvb!InObject(u, l) = Dvb!InObject(o, l) + Count(new, n, l)
  <2> DEFINE one == IF l = l0 THEN 1 ELSE 0
  <2>1. /\ Dvb!InObject(u, l) = Dvb!InObject(q, l) + one
        /\ Dvb!InObject(q, l) = Dvb!InObject(o, l) + Count(new, p, l)
        /\ Count(new, n, l) = Count(new, p, l) + one
    BY <1>2, <1>3, <1>4
  <2>2. one \in Nat /\ Dvb!InObject(o, l) \in Nat /\ Count(new, p, l) \in Nat
    BY <1>1, CountNext, InObjectIsNumber
  <2> HIDE DEF one
  <2> QED BY <2>1, <2>2
<1>6. More(o, new, u, n)
  BY <1>4, <1>5 DEF More
<1> QED BY <1>6 DEF u, l0

LEMMA LinksList ==
  ASSUME NEW o, LinkLists(o), NEW new \in Seq(Link)
  PROVE  /\ LinkLists(Dvb!AllLinked(o, new))
         /\ \A l \in Link : Dvb!InObject(Dvb!AllLinked(o, new), l)
                                = Dvb!InObject(o, l) + Dvb!Occurs(new, l)
<1> DEFINE N == Len(new)
           J(n) == {q \in AllLists : More(o, new, q, n)}
           I == [n \in 0 .. N |-> J(n)]
           F == [p \in AllLists \X (1 .. N) |-> Dvb!Linked(p[1], new[p[2]])]
<1>1. N \in Nat
  OBVIOUS
<1> HIDE DEF N
<1>2. o \in AllLists /\ \A q, n : More(o, new, q, n) => q \in AllLists
  BY DEF LinkLists, More
<1>3. \A n \in 0 .. N : \A q : q \in I[n] <=> More(o, new, q, n)
  BY <1>2
<1>4. \A n \in 1 .. N : \A q \in AllLists : F[<<q, n>>] = Dvb!Linked(q, new[n])
  OBVIOUS
<1> HIDE DEF I, F
<1>5. ASSUME NEW n \in 1 .. N, NEW q \in I[n - 1]
      PROVE  F[<<q, n>>] = Dvb!Linked(q, new[n]) /\ F[<<q, n>>] \in I[n]
  <2>1. n - 1 \in 0 .. N /\ n \in 0 .. N
    BY <1>1
  <2>2. More(o, new, q, n - 1)
    BY <1>3, <2>1
  <2>3. More(o, new, Dvb!Linked(q, new[n]), n)
    BY <2>2, LinksNext DEF N
  <2>4. F[<<q, n>>] = Dvb!Linked(q, new[n])
    BY <1>2, <1>4, <2>2
  <2> QED BY <1>3, <2>1, <2>3, <2>4
<1>6. o \in I[0]
  <2>1. \A l \in Link : Dvb!InObject(o, l) = Dvb!InObject(o, l) + Count(new, 0, l)
    BY CountNothing, InObjectIsNumber
  <2>2. More(o, new, o, 0)
    BY <2>1 DEF More
  <2> QED BY <1>1, <1>3, <2>2
<1>7. Keeps(N, I, o, F)
  BY <1>5, <1>6 DEF Keeps
<1>8. PICK g : Steps(N, I, o, F, g)
  BY <1>1, <1>7, Iteration
<1>9. /\ g = [n \in 0 .. N |-> g[n]] /\ g[0] = o
      /\ \A n \in 1 .. N : g[n] = F[<<g[n - 1], n>>]
      /\ \A n \in 0 .. N : g[n] \in I[n]
  BY <1>8 DEF Steps
<1> DEFINE Made(k) == k = [n \in 0 .. N |-> IF n = 0 THEN o ELSE Dvb!Linked(k[n - 1], new[n])]
           made == CHOOSE k : Made(k)
<1>10. Made(g)
  <2>1. ASSUME NEW n \in 0 .. N
        PROVE  g[n] = IF n = 0 THEN o ELSE Dvb!Linked(g[n - 1], new[n])
    <3>1. n = 0 \/ (n \in 1 .. N /\ n - 1 \in 0 .. N)
      BY <1>1
    <3> QED BY <1>5, <1>9, <3>1
  <2> QED BY <1>9, <2>1
<1>11. Made(made)
  <2> HIDE DEF Made
  <2> QED BY <1>10, Zenon
<1>12. Dvb!AllLinked(o, new) = made[N]
  BY Zenon DEF Dvb!AllLinked, N
<1> HIDE DEF made
<1>13. Runs(N, I, o, F, made)
  <2>1. made[0] = o /\ \A n \in 1 .. N : made[n] = Dvb!Linked(made[n - 1], new[n])
    BY <1>1, <1>11
  <2> HIDE DEF Made
  <2> QED BY <1>5, <2>1 DEF Runs
<1>14. made[N] \in I[N]
  <2>1. N \in 0 .. N
    BY <1>1
  <2> QED BY <1>1, <1>7, <1>13, <2>1, RunsInside
<1>15. More(o, new, made[N], N)
  BY <1>1, <1>3, <1>14
<1> QED BY <1>12, <1>15, OccursIsCount DEF More, N

-----------------------------------------------------------------------------
(* The regions and their links.                                            *)

Region(g, id) ==
  /\ g[id].w \in Nat /\ g[id].h \in Nat
  /\ g[id].links \in Seq(Link)
  /\ \A i \in 1 .. Len(g[id].links) : g[id].links[i].region = id
RegionList(g) == DOMAIN g \subseteq Regions /\ \A id \in DOMAIN g : Region(g, id)

\* Every link is as often in the list of its region as in that of its object.
Linkage(c) ==
  /\ RegionList(c.region) /\ LinkLists(c.object)
  /\ \A l \in Link : Dvb!InObject(c.object, l) = Dvb!InRegion(c.region, l)

LEMMA InRegionIsNumber ==
  ASSUME NEW g, RegionList(g), NEW l
  PROVE  Dvb!InRegion(g, l) \in Nat
<1>1. CASE l.region \in DOMAIN g
  <2>1. Len(g[l.region].links) \in Nat
    BY <1>1 DEF RegionList, Region
  <2>2. Dvb!InRegion(g, l) = Count(g[l.region].links, Len(g[l.region].links), l)
    BY <1>1, OccursIsCount DEF Dvb!InRegion
  <2> QED BY <2>1, <2>2, CountNext
<1>2. CASE l.region \notin DOMAIN g
  BY <1>2 DEF Dvb!InRegion
<1> QED BY <1>1, <1>2

\* A list of links of one region has none of another.
LEMMA OfOneRegion ==
  ASSUME NEW s \in Seq(Link), NEW id, \A i \in 1 .. Len(s) : s[i].region = id,
         NEW l, l.region # id
  PROVE  Dvb!Occurs(s, l) = 0
<1>1. Len(s) \in Nat /\ ~ \E i \in 1 .. Len(s) : s[i] = l
  OBVIOUS
<1>2. Count(s, Len(s), l) = 0
  BY <1>1, CountedIsThere
<1> QED BY <1>2, OccursIsCount

LEMMA UpToIs ==
  ASSUME NEW S, NEW n
  PROVE  Dvb!UpTo(S, n) = UNION {[1 .. k -> S] : k \in 0 .. n}
BY Zenon DEF Dvb!UpTo

LEMMA LinksGiven ==
  ASSUME NEW id \in Regions, NEW links \in Dvb!Links,
         NEW new, new = [i \in DOMAIN links |-> [region |-> id, object |-> links[i].object,
                                                 x |-> links[i].x, y |-> links[i].y]]
  PROVE  new \in Seq(Link) /\ \A i \in 1 .. Len(new) : new[i].region = id
<1> DEFINE S == {[object |-> o, x |-> c.x, y |-> c.y] : o \in Objects, c \in Corners}
<1>0. Dvb!Links = UNION {[1 .. k -> S] : k \in 0 .. MaxLinks}
  <2>1. Dvb!Links = Dvb!UpTo(S, MaxLinks)
    BY DEF Dvb!Links
  <2> HIDE DEF S
  <2> QED BY <2>1, UpToIs
<1>1. PICK k \in 0 .. MaxLinks : links \in [1 .. k -> S]
  <2> HIDE DEF S
  <2> QED BY <1>0
<1>2. k \in Nat
  BY PageAssumption
<1>3. \A s \in S : s.object \in Objects /\ s.x \in Nat /\ s.y \in Nat
  <2> SUFFICES ASSUME NEW o \in Objects, NEW c \in Corners
               PROVE  c.x \in Nat /\ c.y \in Nat
    OBVIOUS
  <2>1. c \in [x : Nat, y : Nat]
    BY PageAssumption
  <2> QED BY <2>1
<1> HIDE DEF S
<1>4. DOMAIN links = 1 .. k /\ \A i \in 1 .. k : links[i] \in S
  BY <1>1
<1>5. \A i \in 1 .. k : [region |-> id, object |-> links[i].object,
                         x |-> links[i].x, y |-> links[i].y] \in Link
  BY <1>3, <1>4 DEF Link
<1>6. new \in [1 .. k -> Link]
  BY <1>4, <1>5
<1>7. new \in Seq(Link) /\ Len(new) = k
  BY <1>2, <1>6
<1>8. \A i \in 1 .. k : new[i].region = id
  BY <1>4
<1> QED BY <1>7, <1>8

LEMMA Reverses ==
  ASSUME NEW S, NEW s \in Seq(S)
  PROVE  /\ Dvb!Reverse(s) \in Seq(S) /\ Len(Dvb!Reverse(s)) = Len(s)
         /\ \A i \in 1 .. Len(s) : (Len(s) - i) + 1 \in 1 .. Len(s)
                                   /\ Dvb!Reverse(s)[i] = s[(Len(s) - i) + 1]
<1> DEFINE m == Len(s)
<1>1. m \in Nat /\ s \in [1 .. m -> S]
  OBVIOUS
<1> HIDE DEF m
<1>2. \A i \in 1 .. m : (m - i) + 1 \in 1 .. m
  BY <1>1
<1> DEFINE r == [i \in 1 .. m |-> s[(m - i) + 1]]
<1>3. r \in [1 .. m -> S]
  BY <1>1, <1>2
<1>4. r \in Seq(S) /\ Len(r) = m
  BY <1>1, <1>3
<1>5. Dvb!Reverse(s) = r
  BY DEF Dvb!Reverse, m
<1> QED BY <1>2, <1>4, <1>5 DEF m

\* A region segment unlinks the region from the objects it had and links it to those it
\* names, so that the lists of both sides stay the same.
LEMMA RegionSegmentLinks ==
  ASSUME Linkage(dvbctx), NEW id \in Regions, NEW size \in Sizes, NEW clut,
         NEW links \in Dvb!Links, Dvb!parseRegionSegment(id, size, clut, links),
         dvbctx = [region |-> dvbctx.region, object |-> dvbctx.object,
                   clut |-> dvbctx.clut, page |-> dvbctx.page]
  PROVE  /\ Linkage(dvbctx')
         /\ dvbctx' = [region |-> dvbctx'.region, object |-> dvbctx'.object,
                       clut |-> dvbctx.clut, page |-> dvbctx.page]
<1> DEFINE g == dvbctx.region  o == dvbctx.object
           had == IF id \in DOMAIN g THEN g[id].links ELSE << >>
           new == [i \in DOMAIN links |-> [region |-> id, object |-> links[i].object,
                                           x |-> links[i].x, y |-> links[i].y]]
           d == Dvb!deleteRegionDisplayList(o, had)
           oo == Dvb!AllLinked(d, new)
           row == [w |-> size.w, h |-> size.h, clut |-> clut, links |-> Dvb!Reverse(new)]
           gg == Dvb!With(g, id, row)
<1>1. /\ dvbctx' = [dvbctx EXCEPT !.region = gg, !.object = oo]
  BY DEF Dvb!parseRegionSegment
<1>2. /\ dvbctx' = [region |-> gg, object |-> oo, clut |-> dvbctx.clut, page |-> dvbctx.page]
      /\ dvbctx'.region = gg /\ dvbctx'.object = oo
  <2> HIDE DEF gg, oo
  <2> DEFINE a == dvbctx.clut  b == dvbctx.page
  <2>1. dvbctx = [region |-> g, object |-> o, clut |-> a, page |-> b]
    OBVIOUS
  <2> HIDE DEF g, o, a, b
  <2>2. dvbctx' = [region |-> gg, object |-> oo, clut |-> a, page |-> b]
    BY <1>1, <2>1
  <2>3. dvbctx'.region = gg /\ dvbctx'.object = oo
    BY <2>2
  <2> QED BY <2>2, <2>3 DEF a, b
<1>3. /\ RegionList(g) /\ LinkLists(o)
      /\ \A l \in Link : Dvb!InObject(o, l) = Dvb!InRegion(g, l)
  BY DEF Linkage
<1>4. /\ had \in Seq(Link) /\ \A i \in 1 .. Len(had) : had[i].region = id
      /\ \A l : l.region = id => Dvb!InRegion(g, l) = Dvb!Occurs(had, l)
  <2>1. CASE id \in DOMAIN g
    BY <1>3, <2>1 DEF RegionList, Region, Dvb!InRegion
  <2>2. CASE id \notin DOMAIN g
    <3>1. had = << >> /\ had \in Seq(Link) /\ Len(had) = 0
      BY <2>2
    <3> HIDE DEF had
    <3>2. \A l : Dvb!Occurs(had, l) = 0
      BY <3>1, OccursIsCount, CountNothing
    <3> QED BY <2>2, <3>1, <3>2 DEF Dvb!InRegion
  <2> QED BY <2>1, <2>2
<1>5. new \in Seq(Link) /\ \A i \in 1 .. Len(new) : new[i].region = id
  BY LinksGiven
<1>6. size.w \in Nat /\ size.h \in Nat
  <2>1. size \in [w : Nat, h : Nat]
    BY PageAssumption
  <2> QED BY <2>1
<1> HIDE DEF had, new, g, o
<1>7. \A l : Dvb!Occurs(had, l) \in Nat /\ Dvb!Occurs(new, l) \in Nat
  <2>1. Len(had) \in Nat /\ Len(new) \in Nat
    BY <1>4, <1>5
  <2> QED BY <2>1, OccursIsCount, CountNext
<1>8. /\ LinkLists(d)
      /\ \A l \in Link : Dvb!InObject(d, l) + Dvb!Occurs(had, l) = Dvb!InObject(o, l)
  <2>1. ASSUME NEW l \in Link PROVE Dvb!Occurs(had, l) <= Dvb!InObject(o, l)
    <3>1. CASE l.region = id
      <4>1. Dvb!Occurs(had, l) = Dvb!InObject(o, l)
        BY <1>3, <1>4, <3>1
      <4> QED BY <1>7, <4>1
    <3>2. CASE l.region # id
      <4>1. Dvb!Occurs(had, l) = 0
        BY <1>4, <3>2, OfOneRegion
      <4>2. Dvb!InObject(o, l) \in Nat
        BY <1>3, InObjectIsNumber
      <4> QED BY <4>1, <4>2
    <3> QED BY <3>1, <3>2
  <2> QED BY <1>3, <1>4, <2>1, DeletesList
<1> HIDE DEF d
<1>9. /\ LinkLists(oo)
      /\ \A l \in Link : Dvb!InObject(oo, l) = Dvb!InObject(d, l) + Dvb!Occurs(new, l)
  BY <1>5, <1>8, LinksList
<1> DEFINE rev == Dvb!Reverse(new)
<1>10. /\ rev \in Seq(Link) /\ Len(rev) = Len(new)
       /\ \A i \in 1 .. Len(new) : (Len(new) - i) + 1 \in 1 .. Len(new)
                                   /\ rev[i] = new[(Len(new) - i) + 1]
  BY <1>5, Reverses
<1>11. \A l : Dvb!Occurs(rev, l) = Dvb!Occurs(new, l)
  <2> SUFFICES ASSUME NEW l PROVE Dvb!Occurs(rev, l) = Dvb!Occurs(new, l)
    OBVIOUS
  <2> DEFINE m == Len(new)
  <2>1. m \in Nat
    BY <1>5
  <2>2. Backwards(new, rev, m)
    BY <1>10 DEF Backwards
  <2>3. Dvb!Occurs(rev, l) = Count(rev, m, l) /\ Dvb!Occurs(new, l) = Count(new, m, l)
    BY <1>10, OccursIsCount
  <2> HIDE DEF m, rev
  <2> QED BY <2>1, <2>2, <2>3, CountReversed
<1> DEFINE D == DOMAIN g \cup {id}
<1>12. gg = [i \in D |-> IF i = id THEN row ELSE g[i]]
  BY DEF Dvb!With
<1>13. row.w \in Nat /\ row.h \in Nat /\ row.links = rev
  BY <1>6
<1> HIDE DEF rev, row, gg
<1>14. /\ DOMAIN gg = D /\ gg[id] = row /\ \A i \in D : i # id => gg[i] = g[i]
  BY <1>12
<1>15. RegionList(gg)
  <2>1. DOMAIN gg \subseteq Regions
    BY <1>3, <1>14 DEF RegionList
  <2>2. Region(gg, id)
    <3>1. \A i \in 1 .. Len(rev) : rev[i].region = id
      BY <1>5, <1>10
    <3> QED BY <1>10, <1>13, <1>14, <3>1 DEF Region
  <2>3. ASSUME NEW i \in D, i # id PROVE Region(gg, i)
    <3>1. i \in DOMAIN g /\ gg[i] = g[i]
      BY <1>14, <2>3
    <3> QED BY <1>3, <3>1 DEF RegionList, Region
  <2> QED BY <1>14, <2>1, <2>2, <2>3 DEF RegionList
<1>16. ASSUME NEW l \in Link PROVE Dvb!InObject(oo, l) = Dvb!InRegion(gg, l)
  <2>0. Dvb!InObject(d, l) \in Nat /\ Dvb!InObject(o, l) \in Nat
    BY <1>3, <1>8, InObjectIsNumber
  <2>1. CASE l.region = id
    <3>1. Dvb!InRegion(gg, l) = Dvb!Occurs(new, l)
      BY <1>11, <1>13, <1>14, <2>1 DEF Dvb!InRegion
    <3>2. Dvb!InObject(o, l) = Dvb!Occurs(had, l)
      BY <1>3, <1>4, <2>1
    <3>3. Dvb!InObject(d, l) = 0
      BY <1>7, <1>8, <2>0, <3>2
    <3> QED BY <1>7, <1>9, <3>1, <3>3
  <2>2. CASE l.region # id
    <3>1. Dvb!Occurs(had, l) = 0 /\ Dvb!Occurs(new, l) = 0
      BY <1>4, <1>5, <2>2, OfOneRegion
    <3>2. Dvb!InObject(oo, l) = Dvb!InObject(o, l)
      BY <1>8, <1>9, <2>0, <3>1
    <3>3. (l.region \in DOMAIN gg <=> l.region \in DOMAIN g)
          /\ (l.region \in DOMAIN g => gg[l.region] = g[l.region])
      BY <1>14, <2>2
    <3>4. Dvb!InRegion(gg, l) = Dvb!InRegion(g, l)
      BY <3>3 DEF Dvb!InRegion
    <3> QED BY <1>3, <3>2, <3>4
  <2> QED BY <2>1, <2>2
<1> HIDE DEF oo
<1>17. Linkage(dvbctx')
  BY <1>2, <1>9, <1>15, <1>16 DEF Linkage
<1> QED BY <1>2, <1>17

\* What both lists say is what the page needs: no link is in one and not in the other.
LEMMA LinkageAgrees ==
  ASSUME Linkage(dvbctx)
  PROVE  Dvb!LinksAgree
<1>1. ASSUME NEW id \in DOMAIN dvbctx.region, NEW l \in Dvb!Range(dvbctx.region[id].links)
      PROVE  l \in Link
  <2>1. dvbctx.region[id].links \in Seq(Link)
    BY DEF Linkage, RegionList, Region
  <2> DEFINE s == dvbctx.region[id].links
  <2> HIDE DEF s
  <2>2. s \in Seq(Link) /\ l \in Dvb!Range(s)
    BY <2>1 DEF s
  <2>3. PICK i \in DOMAIN s : l = s[i]
    BY <2>2 DEF Dvb!Range
  <2> QED BY <2>2, <2>3
<1>2. ASSUME NEW id \in DOMAIN dvbctx.object, NEW l \in Dvb!Range(dvbctx.object[id])
      PROVE  l \in Link
  <2>1. dvbctx.object[id] \in Seq(Link)
    BY ListFacts DEF Linkage
  <2> DEFINE s == dvbctx.object[id]
  <2> HIDE DEF s
  <2>2. s \in Seq(Link) /\ l \in Dvb!Range(s)
    BY <2>1 DEF s
  <2>3. PICK i \in DOMAIN s : l = s[i]
    BY <2>2 DEF Dvb!Range
  <2> QED BY <2>2, <2>3
<1> QED BY <1>1, <1>2 DEF Dvb!LinksAgree, Linkage

-----------------------------------------------------------------------------
(* The picture.                                                            *)

Spot == [region : Regions, x : Int, y : Int]
Box == [x : Int, y : Int, w : Int, h : Int]

\* Something of that size, there, is inside the box.
Inside(x, y, w, h, b) == b.x <= x /\ x + w <= b.x + b.w /\ b.y <= y /\ y + h <= b.y + b.h

LEMMA TwoNumbers ==
  ASSUME NEW a \in Int, NEW b \in Int
  PROVE  /\ Dvb!Min({a, b}) \in Int /\ Dvb!Min({a, b}) <= a /\ Dvb!Min({a, b}) <= b
         /\ Dvb!Min({a, b}) \in {a, b}
         /\ Dvb!Max({a, b}) \in Int /\ a <= Dvb!Max({a, b}) /\ b <= Dvb!Max({a, b})
<1> DEFINE S == {a, b}
<1>1. \E x \in S : \A y \in S : x <= y
  <2>1. CASE a <= b
    BY <2>1
  <2>2. CASE b <= a
    BY <2>2
  <2> QED BY <2>1, <2>2
<1>2. \E x \in S : \A y \in S : x >= y
  <2>1. CASE a <= b
    BY <2>1
  <2>2. CASE b <= a
    BY <2>2
  <2> QED BY <2>1, <2>2
<1>3. a \in S /\ b \in S /\ \A x \in S : x \in Int
  OBVIOUS
<1> HIDE DEF S
<1>4. Dvb!Min(S) \in S /\ \A y \in S : Dvb!Min(S) <= y
  BY <1>1 DEF Dvb!Min
<1>5. Dvb!Max(S) \in S /\ \A y \in S : Dvb!Max(S) >= y
  BY <1>2 DEF Dvb!Max
<1>6. Dvb!Min(S) \in Int /\ Dvb!Max(S) \in Int
  BY <1>3, <1>4, <1>5
<1>7. Dvb!Max(S) >= a /\ Dvb!Max(S) >= b /\ Dvb!Min(S) <= a /\ Dvb!Min(S) <= b
  BY <1>3, <1>4, <1>5
<1>8. a <= Dvb!Max(S) /\ b <= Dvb!Max(S)
  BY <1>6, <1>7
<1> QED BY <1>4, <1>6, <1>7, <1>8 DEF S

\* An enlarged box: the old one and the region are inside it.
LEMMA Enlarges ==
  ASSUME NEW b \in Box, NEW y \in Int, NEW d \in Spot, NEW r, r.w \in Nat, r.h \in Nat,
         y <= b.y, y <= d.y
  PROVE  /\ Dvb!Enlarged(b, y, d, r) \in Box
         /\ Inside(d.x, d.y, r.w, r.h, Dvb!Enlarged(b, y, d, r))
         /\ \A e \in Int, f \in Int, w \in Int, h \in Int :
               Inside(e, f, w, h, b) => Inside(e, f, w, h, Dvb!Enlarged(b, y, d, r))
<1> DEFINE bx == b.x  by == b.y  bw == b.w  bh == b.h  dx == d.x  dy == d.y  rw == r.w  rh == r.h
           x0 == Dvb!Min({bx, dx})  x1 == Dvb!Max({bx + bw, dx + rw})
           y1 == Dvb!Max({by + bh, dy + rh})
           n == Dvb!Enlarged(b, y, d, r)
<1>1. /\ bx \in Int /\ by \in Int /\ bw \in Int /\ bh \in Int
      /\ dx \in Int /\ dy \in Int /\ rw \in Int /\ rh \in Int
      /\ bx + bw \in Int /\ dx + rw \in Int /\ by + bh \in Int /\ dy + rh \in Int
  BY DEF Box, Spot
<1>2. n = [x |-> x0, y |-> y, w |-> x1 - x0, h |-> y1 - y]
  BY DEF Dvb!Enlarged
<1>3. y <= by /\ y <= dy
  OBVIOUS
<1> HIDE DEF n, bx, by, bw, bh, dx, dy, rw, rh
<1>4. /\ x0 \in Int /\ x0 <= bx /\ x0 <= dx
      /\ x1 \in Int /\ bx + bw <= x1 /\ dx + rw <= x1
      /\ y1 \in Int /\ by + bh <= y1 /\ dy + rh <= y1
  BY <1>1, TwoNumbers
<1> HIDE DEF x0, x1, y1
<1>5. n.x = x0 /\ n.y = y /\ n.w = x1 - x0 /\ n.h = y1 - y
  BY <1>2
<1>6. n.x + n.w = x1 /\ n.y + n.h = y1
  BY <1>4, <1>5
<1>7. n \in Box
  <2>1. x1 - x0 \in Int /\ y1 - y \in Int
    BY <1>4
  <2> QED BY <1>2, <1>4, <2>1 DEF Box
<1>8. Inside(dx, dy, rw, rh, n)
  BY <1>3, <1>4, <1>5, <1>6 DEF Inside
<1>9. ASSUME NEW e \in Int, NEW f \in Int, NEW w \in Int, NEW h \in Int, Inside(e, f, w, h, b)
      PROVE  Inside(e, f, w, h, n)
  <2>1. bx <= e /\ e + w <= bx + bw /\ by <= f /\ f + h <= by + bh
    BY <1>9 DEF Inside, bx, by, bw, bh
  <2>2. e + w \in Int /\ f + h \in Int
    OBVIOUS
  <2>3. x0 <= e /\ y <= f
    BY <1>1, <1>3, <1>4, <2>1
  <2>4. e + w <= x1 /\ f + h <= y1
    BY <1>1, <1>4, <2>1, <2>2
  <2> QED BY <1>5, <1>6, <2>3, <2>4 DEF Inside
<1> QED BY <1>7, <1>8, <1>9 DEF n, dx, dy, rw, rh

\* One more region is put where it does not reach into the others from above.
LEMMA BoxesOne ==
  ASSUME NEW b \in Box, NEW d \in Spot, NEW r, r.w \in Nat, r.h \in Nat
  PROVE  /\ Dvb!BoxWith(b, d, r).box \in Box /\ Dvb!BoxWith(b, d, r).y \in Int
         /\ Inside(d.x, Dvb!BoxWith(b, d, r).y, r.w, r.h, Dvb!BoxWith(b, d, r).box)
         /\ \A e \in Int, f \in Int, w \in Int, h \in Int :
               Inside(e, f, w, h, b) => Inside(e, f, w, h, Dvb!BoxWith(b, d, r).box)
<1> DEFINE q == Dvb!BoxWith(b, d, r)  up == b.y - r.h  low == Dvb!Min({b.y, d.y})
           moved == [d EXCEPT !.y = up]
<1>1. b.y \in Int /\ d.y \in Int /\ d.x \in Int /\ up \in Int /\ up <= b.y
  BY DEF Box, Spot
<1>2. moved \in Spot /\ moved.x = d.x /\ moved.y = up
  <2> HIDE DEF up
  <2> QED BY <1>1 DEF Spot
<1>3. low \in Int /\ low <= b.y /\ low <= d.y
  BY <1>1, TwoNumbers
<1>4. up <= moved.y
  BY <1>1, <1>2
<1>5. \/ q = [box |-> Dvb!Enlarged(b, up, moved, r), y |-> up]
      \/ q = [box |-> Dvb!Enlarged(b, low, d, r), y |-> d.y]
  BY Zenon DEF Dvb!BoxWith
<1> HIDE DEF q, up, low, moved
<1>6. CASE q = [box |-> Dvb!Enlarged(b, up, moved, r), y |-> up]
  <2> DEFINE n == Dvb!Enlarged(b, up, moved, r)
  <2>1. /\ n \in Box /\ Inside(moved.x, moved.y, r.w, r.h, n)
        /\ \A e \in Int, f \in Int, w \in Int, h \in Int :
              Inside(e, f, w, h, b) => Inside(e, f, w, h, n)
    BY <1>1, <1>2, <1>4, Enlarges
  <2> HIDE DEF n
  <2>2. q.box = n /\ q.y = up
    BY <1>6 DEF n
  <2> QED BY <1>1, <1>2, <2>1, <2>2 DEF q
<1>7. CASE q = [box |-> Dvb!Enlarged(b, low, d, r), y |-> d.y]
  <2> DEFINE n == Dvb!Enlarged(b, low, d, r)
  <2>1. /\ n \in Box /\ Inside(d.x, d.y, r.w, r.h, n)
        /\ \A e \in Int, f \in Int, w \in Int, h \in Int :
              Inside(e, f, w, h, b) => Inside(e, f, w, h, n)
    BY <1>3, Enlarges
  <2> HIDE DEF n
  <2>2. q.box = n /\ q.y = d.y
    BY <1>7 DEF n
  <2> QED BY <1>1, <2>1, <2>2 DEF q
<1> QED BY <1>5, <1>6, <1>7

\* The first n regions of the page, put into a box.
Boxings == [box : Box \cup {<< >>}, page : Seq(Spot)]
RegionOf(c, d) == c.region[d.region]
Within(c, q, i) ==
  /\ q.page[i].region = c.page[i].region
  /\ Inside(q.page[i].x, q.page[i].y, RegionOf(c, c.page[i]).w, RegionOf(c, c.page[i]).h, q.box)
Covers(c, q, n) ==
  /\ q \in Boxings /\ Len(q.page) = n
  /\ IF n = 0 THEN q.box = << >> ELSE q.box \in Box
  /\ \A i \in 1 .. n : Within(c, q, i)

\* A page of regions that there are.
Shows(c) ==
  /\ c.page \in Seq(Spot)
  /\ RegionList(c.region)
  /\ \A i \in 1 .. Len(c.page) : c.page[i].region \in DOMAIN c.region

LEMMA PlacesNext ==
  ASSUME NEW c, Shows(c), NEW n \in 1 .. Len(c.page), NEW q, Covers(c, q, n - 1)
  PROVE  Covers(c, Dvb!Placed(q, c.page[n], RegionOf(c, c.page[n])), n)
<1> DEFINE d == c.page[n]  r == RegionOf(c, d)  p == n - 1  t == Dvb!Placed(q, d, r)
<1>1. d \in Spot /\ r.w \in Nat /\ r.h \in Nat
  BY DEF Shows, RegionList, Region, RegionOf
<1>2. n \in Nat /\ n # 0 /\ p \in Nat /\ p + 1 = n
  BY DEF Shows
<1> HIDE DEF p
<1>3. /\ q.page \in Seq(Spot) /\ Len(q.page) = p
      /\ IF p = 0 THEN q.box = << >> ELSE q.box \in Box
      /\ \A i \in 1 .. p : Within(c, q, i)
  BY DEF Covers, Boxings, p
<1>4. d.x \in Int /\ d.y \in Int /\ d.region \in Regions
  BY <1>1 DEF Spot
<1>5. CASE p = 0
  <2> DEFINE b == [x |-> d.x, y |-> d.y, w |-> r.w, h |-> r.h]
  <2>1. q.box = << >> /\ n = 1
    BY <1>2, <1>3, <1>5
  <2>2. t = [box |-> b, page |-> <<d>>]
    BY <2>1, Zenon DEF Dvb!Placed
  <2>3. b \in Box
    BY <1>1, <1>4 DEF Box
  <2>4. Inside(d.x, d.y, r.w, r.h, b)
    <3> DEFINE dx == d.x  dy == d.y  rw == r.w  rh == r.h
    <3>1. b.x = dx /\ b.y = dy /\ b.w = rw /\ b.h = rh
      OBVIOUS
    <3>2. dx \in Int /\ dy \in Int /\ rw \in Int /\ rh \in Int
      BY <1>1, <1>4
    <3> HIDE DEF b, dx, dy, rw, rh
    <3>3. dx <= dx /\ dx + rw <= dx + rw /\ dy <= dy /\ dy + rh <= dy + rh
      BY <3>2
    <3>4. Inside(dx, dy, rw, rh, b)
      BY <3>1, <3>3 DEF Inside
    <3> QED BY <3>4 DEF dx, dy, rw, rh
  <2>5. <<d>> \in Seq(Spot) /\ Len(<<d>>) = 1 /\ <<d>>[1] = d
    BY <1>1
  <2> DEFINE s == <<d>>
  <2> HIDE DEF b, t, s
  <2>6. t.box = b /\ t.page = s /\ t \in Boxings
    BY <2>2, <2>3, <2>5 DEF Boxings, s
  <2>7. Within(c, t, 1)
    BY <2>1, <2>4, <2>5, <2>6 DEF Within, s
  <2>8. Len(t.page) = n /\ \A i \in 1 .. n : i = 1
    BY <2>1, <2>5, <2>6 DEF s
  <2>9. Covers(c, t, n)
    BY <1>2, <2>3, <2>6, <2>7, <2>8 DEF Covers
  <2> QED BY <2>9 DEF t
<1>6. CASE p # 0
  <2> DEFINE b == q.box  m == Dvb!BoxWith(b, d, r)  e == [d EXCEPT !.y = m.y]
             s == Append(q.page, e)
  <2>1. b \in Box
    BY <1>3, <1>6
  <2>2. b # << >>
    <3>1. DOMAIN b = {"x", "y", "w", "h"}
      BY <2>1 DEF Box
    <3>2. DOMAIN << >> = {} /\ "x" \in {"x", "y", "w", "h"}
      OBVIOUS
    <3> QED BY <3>1, <3>2
  <2>3. t = [box |-> m.box, page |-> s]
    BY <2>2, Zenon DEF Dvb!Placed
  <2>4. /\ m.box \in Box /\ m.y \in Int
        /\ Inside(d.x, m.y, r.w, r.h, m.box)
        /\ \A f \in Int, g \in Int, w \in Int, h \in Int :
              Inside(f, g, w, h, b) => Inside(f, g, w, h, m.box)
    BY <1>1, <2>1, BoxesOne
  <2> HIDE DEF b, m, t
  <2>5. e \in Spot /\ e.x = d.x /\ e.y = m.y /\ e.region = d.region
    BY <1>1, <1>4, <2>4 DEF Spot
  <2> HIDE DEF e
  <2>6. /\ s \in Seq(Spot) /\ Len(s) = n /\ s[n] = e
        /\ \A i \in 1 .. p : s[i] = q.page[i]
    <3>1. /\ s \in Seq(Spot) /\ Len(s) = p + 1 /\ s[p + 1] = e
          /\ \A i \in 1 .. p : s[i] = q.page[i]
      BY <1>3, <2>5
    <3> QED BY <1>2, <3>1
  <2> HIDE DEF s
  <2>7. t.box = m.box /\ t.page = s /\ t \in Boxings
    BY <2>3, <2>4, <2>6 DEF Boxings
  <2>8. Within(c, t, n)
    BY <2>4, <2>5, <2>6, <2>7 DEF Within
  <2>9. ASSUME NEW i \in 1 .. p PROVE Within(c, t, i)
    <3> DEFINE f == q.page[i].x  g == q.page[i].y
               w == RegionOf(c, c.page[i]).w  h == RegionOf(c, c.page[i]).h
    <3>1. q.page[i] \in Spot /\ i \in 1 .. Len(c.page)
      BY <1>2, <1>3 DEF Shows
    <3>2. f \in Int /\ g \in Int
      BY <3>1 DEF Spot
    <3>3. w \in Int /\ h \in Int
      BY <3>1 DEF Shows, RegionList, Region, RegionOf
    <3>4. q.page[i].region = c.page[i].region /\ Inside(f, g, w, h, b)
      BY <1>3 DEF Within, b
    <3> HIDE DEF f, g, w, h
    <3>5. Inside(f, g, w, h, m.box)
      BY <2>4, <3>2, <3>3, <3>4
    <3>6. t.page[i] = q.page[i]
      BY <2>6, <2>7
    <3> QED BY <2>7, <3>4, <3>5, <3>6 DEF Within, f, g, w, h
  <2>10. \A i \in 1 .. n : i = n \/ i \in 1 .. p
    BY <1>2
  <2>11. Covers(c, t, n)
    BY <1>2, <2>4, <2>6, <2>7, <2>8, <2>9, <2>10 DEF Covers
  <2> QED BY <2>11 DEF t
<1> QED BY <1>5, <1>6

\* The box of a page covers all of its regions.
LEMMA BoxCovers ==
  ASSUME NEW c, Shows(c)
  PROVE  Covers(c, Dvb!Boxed(c), Len(c.page))
<1> DEFINE N == Len(c.page)
           base == [box |-> << >>, page |-> << >>]
           Next1(q, n) == Dvb!Placed(q, c.page[n], RegionOf(c, c.page[n]))
           J(n) == {q \in Boxings : Covers(c, q, n)}
           I == [n \in 0 .. N |-> J(n)]
           F == [p \in Boxings \X (1 .. N) |-> Next1(p[1], p[2])]
<1>1. N \in Nat
  BY DEF Shows
<1> HIDE DEF N
<1>2. \A n \in 0 .. N : \A q : q \in I[n] <=> Covers(c, q, n)
  BY DEF Covers
<1>3. \A n \in 1 .. N : \A q \in Boxings : F[<<q, n>>] = Next1(q, n)
  OBVIOUS
<1> HIDE DEF I, F
<1>4. ASSUME NEW n \in 1 .. N, NEW q \in I[n - 1]
      PROVE  F[<<q, n>>] = Next1(q, n) /\ F[<<q, n>>] \in I[n]
  <2>1. n - 1 \in 0 .. N /\ n \in 0 .. N
    BY <1>1
  <2>2. Covers(c, q, n - 1)
    BY <1>2, <2>1
  <2>3. Covers(c, Next1(q, n), n)
    BY <2>2, PlacesNext DEF N
  <2>4. F[<<q, n>>] = Next1(q, n)
    BY <1>3, <2>2 DEF Covers
  <2> QED BY <1>2, <2>1, <2>3, <2>4
<1>5. base \in I[0]
  <2>1. base \in Boxings /\ Len(base.page) = 0 /\ base.box = << >>
    BY DEF Boxings
  <2> HIDE DEF base
  <2>2. Covers(c, base, 0)
    BY <2>1 DEF Covers
  <2> QED BY <1>1, <1>2, <2>2
<1> HIDE DEF base
<1>6. Keeps(N, I, base, F)
  BY <1>4, <1>5 DEF Keeps
<1>7. PICK g : Steps(N, I, base, F, g)
  BY <1>1, <1>6, Iteration
<1>8. /\ g = [n \in 0 .. N |-> g[n]] /\ g[0] = base
      /\ \A n \in 1 .. N : g[n] = F[<<g[n - 1], n>>]
      /\ \A n \in 0 .. N : g[n] \in I[n]
  BY <1>7 DEF Steps
<1> DEFINE Made(k) == k = [n \in 0 .. N |-> IF n = 0 THEN base ELSE Next1(k[n - 1], n)]
           placed == CHOOSE k : Made(k)
<1>9. Made(g)
  <2>1. ASSUME NEW n \in 0 .. N
        PROVE  g[n] = IF n = 0 THEN base ELSE Next1(g[n - 1], n)
    <3>1. n = 0 \/ (n \in 1 .. N /\ n - 1 \in 0 .. N)
      BY <1>1
    <3> QED BY <1>4, <1>8, <3>1
  <2> QED BY <1>8, <2>1
<1>10. Made(placed)
  <2> HIDE DEF Made
  <2> QED BY <1>9, Zenon
<1>11. Dvb!Boxed(c) = placed[N]
  BY Zenon DEF Dvb!Boxed, N, RegionOf, base
<1> HIDE DEF placed
<1>12. Runs(N, I, base, F, placed)
  <2>1. placed[0] = base /\ \A n \in 1 .. N : placed[n] = Next1(placed[n - 1], n)
    BY <1>1, <1>10
  <2> HIDE DEF Made, Next1
  <2> QED BY <1>4, <2>1 DEF Runs
<1>13. placed[N] \in I[N]
  <2>1. N \in 0 .. N
    BY <1>1
  <2> QED BY <1>1, <1>6, <1>12, <2>1, RunsInside
<1>14. Covers(c, placed[N], N)
  BY <1>1, <1>2, <1>13
<1> QED BY <1>11, <1>14 DEF N

\* What is put into the picture is inside it.
PictureInside(p) ==
  \A r \in p.at : /\ r.x >= 0 /\ r.x + r.w <= p.box.w
                  /\ r.y >= 0 /\ r.y + r.h <= p.box.h

LEMMA PutInside ==
  ASSUME NEW c, Shows(c), Len(c.page) # 0,
         NEW q, Covers(c, q, Len(c.page))
  PROVE  PictureInside([box |-> q.box, at |-> Dvb!PutInto(c, q.box, q.page)])
<1> DEFINE at == Dvb!PutInto(c, q.box, q.page)  b == q.box
<1>1. /\ q.page \in Seq(Spot) /\ Len(q.page) = Len(c.page) /\ b \in Box
      /\ \A i \in 1 .. Len(c.page) : Within(c, q, i)
  BY DEF Covers, Boxings
<1>2. ASSUME NEW r \in at
      PROVE  \E i \in 1 .. Len(c.page) :
               r = [x |-> q.page[i].x - b.x, y |-> q.page[i].y - b.y,
                    w |-> c.region[q.page[i].region].w, h |-> c.region[q.page[i].region].h]
  BY <1>1 DEF Dvb!PutInto
<1> HIDE DEF at, b
<1>3. ASSUME NEW r \in at
      PROVE  /\ r.x >= 0 /\ r.x + r.w <= b.w
             /\ r.y >= 0 /\ r.y + r.h <= b.h
  <2>1. PICK i \in 1 .. Len(c.page) :
               r = [x |-> q.page[i].x - b.x, y |-> q.page[i].y - b.y,
                    w |-> c.region[q.page[i].region].w, h |-> c.region[q.page[i].region].h]
    BY <1>2
  <2> DEFINE e == q.page[i].x  f == q.page[i].y
             w == RegionOf(c, c.page[i]).w  h == RegionOf(c, c.page[i]).h
  <2>2. q.page[i].region = c.page[i].region /\ Inside(e, f, w, h, b)
    BY <1>1 DEF Within, b
  <2>3. r.x = e - b.x /\ r.y = f - b.y /\ r.w = w /\ r.h = h
    BY <2>1, <2>2 DEF RegionOf
  <2>4. e \in Int /\ f \in Int
    <3>1. q.page[i] \in Spot
      BY <1>1
    <3> QED BY <3>1 DEF Spot
  <2>5. w \in Int /\ h \in Int
    BY DEF Shows, RegionList, Region, RegionOf
  <2>6. b.x \in Int /\ b.y \in Int /\ b.w \in Int /\ b.h \in Int
    BY <1>1 DEF Box
  <2> HIDE DEF e, f, w, h
  <2>7. b.x <= e /\ e + w <= b.x + b.w /\ b.y <= f /\ f + h <= b.y + b.h
    BY <2>2 DEF Inside
  <2>8. e - b.x >= 0 /\ (e - b.x) + w <= b.w
    BY <2>4, <2>5, <2>6, <2>7
  <2>9. f - b.y >= 0 /\ (f - b.y) + h <= b.h
    BY <2>4, <2>5, <2>6, <2>7
  <2> QED BY <2>3, <2>8, <2>9
<1> QED BY <1>3 DEF PictureInside, at, b

\* The end of a display set: the picture is covered, and only places of the page change.
LEMMA Saves ==
  ASSUME NEW c, c = [region |-> c.region, object |-> c.object, clut |-> c.clut, page |-> c.page],
         RegionList(c.region), c.page \in Seq(Spot), Dvb!saveResult2Spu(c)
  PROVE  /\ dvbctx' = [region |-> c.region, object |-> c.object, clut |-> c.clut,
                       page |-> dvbctx'.page]
         /\ dvbctx'.page \in Seq(Spot)
         /\ PictureInside(picture')
<1> DEFINE I == {i \in 1 .. Len(c.page) : c.page[i].region \notin DOMAIN c.region}
           k == Dvb!SelectInSeq(c.page, LAMBDA d : d.region \notin DOMAIN c.region)
<1>0. Len(c.page) \in Nat
  OBVIOUS
<1>1. k = IF I # {} THEN Dvb!Min(I) ELSE 0
  BY Zenon DEF Dvb!SelectInSeq
<1>2. I # {} => Dvb!Min(I) \in I
  <2>1. I \in SUBSET Nat
    BY <1>0
  <2> HIDE DEF I
  <2> QED BY <2>1, LeastThere DEF Dvb!Min
<1>3. Dvb!Known(c) <=> k = 0
  BY Zenon DEF Dvb!Known
<1>4. Dvb!KnownPart(c) = [c EXCEPT !.page = SubSeq(@, 1, k - 1)]
  BY Zenon DEF Dvb!KnownPart
<1> HIDE DEF k
<1>5. PictureInside(Dvb!NoPicture)
  BY DEF PictureInside, Dvb!NoPicture
<1>6. \A v : [c EXCEPT !.page = v] = [region |-> c.region, object |-> c.object,
                                       clut |-> c.clut, page |-> v]
  <2> DEFINE a == c.region  b == c.object  e == c.clut  p == c.page
  <2>1. c = [region |-> a, object |-> b, clut |-> e, page |-> p]
    OBVIOUS
  <2> HIDE DEF a, b, e, p
  <2>2. \A v : [c EXCEPT !.page = v] = [region |-> a, object |-> b, clut |-> e, page |-> v]
    BY <2>1
  <2> QED BY <2>2 DEF a, b, e, p
<1>7. CASE k = 0
  <2> DEFINE s == Dvb!Boxed(c)
  <2>1. Shows(c)
    <3>1. I = {}
      BY <1>1, <1>2, <1>7
    <3> QED BY <3>1 DEF Shows
  <2>2. Covers(c, s, Len(c.page))
    BY <2>1, BoxCovers
  <2>3. /\ dvbctx' = [c EXCEPT !.page = s.page]
        /\ picture' = IF s.box = << >> THEN Dvb!NoPicture
                      ELSE [box |-> s.box, at |-> Dvb!PutInto(c, s.box, s.page)]
    BY <1>3, <1>7, Zenon DEF Dvb!saveResult2Spu
  <2> HIDE DEF s
  <2>4. s.page \in Seq(Spot)
    BY <2>2 DEF Covers, Boxings
  <2>5. PictureInside(picture')
    <3>1. CASE s.box = << >>
      BY <1>5, <2>3, <3>1
    <3>2. CASE s.box # << >>
      <4>1. Len(c.page) # 0
        BY <2>2, <3>2 DEF Covers
      <4>2. PictureInside([box |-> s.box, at |-> Dvb!PutInto(c, s.box, s.page)])
        BY <2>1, <2>2, <4>1, PutInside
      <4> QED BY <2>3, <3>2, <4>2
    <3> QED BY <3>1, <3>2
  <2>6. dvbctx' = [region |-> c.region, object |-> c.object, clut |-> c.clut, page |-> s.page]
    BY <1>6, <2>3
  <2>7. dvbctx'.page = s.page
    BY <2>6
  <2> QED BY <2>4, <2>5, <2>6, <2>7
<1>8. CASE k # 0
  <2> DEFINE part1 == SubSeq(c.page, 1, k - 1)  d == [c EXCEPT !.page = part1]
             moved == Dvb!Boxed(d).page
             new == moved \o SubSeq(c.page, Len(moved) + 1, Len(c.page))
  <2>1. k \in 1 .. Len(c.page) /\ \A i \in 1 .. k - 1 : c.page[i].region \in DOMAIN c.region
    <3>1. I # {} /\ k = Dvb!Min(I)
      BY <1>1, <1>8
    <3>2. k \in I /\ \A i \in I : k <= i
      <4>1. I \in SUBSET Nat
        BY <1>0
      <4> HIDE DEF I
      <4> QED BY <3>1, <4>1, LeastThere DEF Dvb!Min
    <3>3. ASSUME NEW i \in 1 .. k - 1 PROVE c.page[i].region \in DOMAIN c.region
      <4>1. i \in 1 .. Len(c.page) /\ ~(k <= i)
        BY <1>0, <3>2
      <4> QED BY <3>2, <4>1
    <3> QED BY <3>2, <3>3
  <2>2. /\ part1 \in Seq(Spot) /\ Len(part1) = k - 1
        /\ \A i \in 1 .. k - 1 : part1[i] = c.page[i]
    BY <1>0, <2>1
  <2>3. d.region = c.region /\ d.page = part1
    <3> HIDE DEF part1
    <3> QED BY <1>6
  <2>4. Shows(d)
    <3> HIDE DEF d, part1
    <3> QED BY <2>1, <2>2, <2>3 DEF Shows
  <2>5. Covers(d, Dvb!Boxed(d), Len(d.page))
    BY <2>4, BoxCovers
  <2>6. moved \in Seq(Spot) /\ Len(moved) = k - 1
    <3> DEFINE q == Dvb!Boxed(d)
    <3> HIDE DEF q, d, part1
    <3>1. Covers(d, q, Len(d.page))
      BY <2>5 DEF q
    <3>2. q.page \in Seq(Spot) /\ Len(q.page) = k - 1
      BY <2>2, <2>3, <3>1 DEF Covers, Boxings
    <3> QED BY <3>2 DEF q
  <2>7. /\ dvbctx' = [c EXCEPT !.page = moved \o SubSeq(@, Len(moved) + 1, Len(@))]
        /\ picture' = Dvb!NoPicture
    BY <1>3, <1>4, <1>8, Zenon DEF Dvb!saveResult2Spu
  <2> HIDE DEF moved, d, part1
  <2>8. new \in Seq(Spot)
    <3>1. SubSeq(c.page, Len(moved) + 1, Len(c.page)) \in Seq(Spot)
      BY <1>0, <2>1, <2>6
    <3> QED BY <2>6, <3>1
  <2>9. dvbctx' = [c EXCEPT !.page = new]
    BY <2>7
  <2> HIDE DEF new
  <2>10. dvbctx' = [region |-> c.region, object |-> c.object, clut |-> c.clut, page |-> new]
    BY <1>6, <2>9
  <2>11. dvbctx'.page = new
    BY <2>10
  <2> QED BY <1>5, <2>7, <2>8, <2>10, <2>11
<1> QED BY <1>7, <1>8

-----------------------------------------------------------------------------
(* The painting.                                                           *)

InBuffer == {p \in [size : Nat, last : Nat] : p.last < p.size}
Cursor == [x : Nat, y : Nat, wrote : SUBSET InBuffer, ok : BOOLEAN]
Code == [kind : {"pixels", "transparent", "line"}, n : Nat]

\* A place in a line that is not the last one: the whole line is in the buffer.
LEMMA WholeLine ==
  ASSUME NEW w \in Nat, NEW h \in Nat, NEW y \in Nat, y * w < w * h
  PROVE  y * w + w <= w * h
<1>1. y < h
  <2> SUFFICES ASSUME h <= y PROVE FALSE
    OBVIOUS
  <2>1. h * w <= y * w
    OBVIOUS
  <2>2. h * w = w * h
    OBVIOUS
  <2> QED BY <2>1, <2>2
<1>2. (y + 1) * w <= h * w
  <2>1. y + 1 <= h
    BY <1>1
  <2> QED BY <2>1
<1>3. (y + 1) * w = y * w + w /\ h * w = w * h
  OBVIOUS
<1> QED BY <1>2, <1>3

\* A code of a field, wherever the stream has led it.
LEMMA ReadsInside ==
  ASSUME NEW r, r.w \in Nat, r.h \in Nat, NEW link, link.x \in Nat, link.y \in Nat,
         NEW c \in Cursor, NEW code \in Code, NEW left \in Nat
  PROVE  Dvb!Read(r, link, c, code, left) \in Cursor
<1> DEFINE x == c.x  y == c.y  w == r.w  h == r.h  room == w * h - (y * w + x)
           reads == Dvb!Min({left, room})
<1>1. /\ x \in Nat /\ y \in Nat /\ w \in Nat /\ h \in Nat /\ c.wrote \subseteq InBuffer
      /\ c.ok \in BOOLEAN
      /\ c = [x |-> x, y |-> y, wrote |-> c.wrote, ok |-> c.ok]
  BY DEF Cursor
<1>2. code.n \in Nat
  BY DEF Code
<1>3. room \in Int
  BY <1>1
<1>4. Dvb!Room(r, c) = room /\ Dvb!needReads(r, c, left) = reads
      /\ (Dvb!Invalid(r, c, left) <=> x > w \/ y > h \/ reads < 0)
  BY Zenon DEF Dvb!Room, Dvb!needReads, Dvb!Invalid
<1>5. reads \in Int /\ reads <= room
  <2>1. left \in Int /\ reads = Dvb!Min({left, room})
    OBVIOUS
  <2> HIDE DEF room, reads
  <2> QED BY <1>3, <2>1, TwoNumbers
<1> HIDE DEF reads
<1>6. CASE ~c.ok
  BY <1>6 DEF Dvb!Read
<1>7. CASE c.ok /\ Dvb!Invalid(r, c, left)
  <2>1. Dvb!Read(r, link, c, code, left) = [c EXCEPT !.ok = FALSE]
    BY <1>7, Zenon DEF Dvb!Read
  <2>2. [c EXCEPT !.ok = FALSE] \in Cursor
    BY DEF Cursor
  <2> QED BY <2>1, <2>2
<1>8. CASE c.ok /\ ~Dvb!Invalid(r, c, left) /\ code.kind = "line"
  <2>1. Dvb!Read(r, link, c, code, left) = [c EXCEPT !.x = link.x, !.y = @ + 2]
    BY <1>8 DEF Dvb!Read
  <2>2. y + 2 \in Nat
    BY <1>1
  <2>3. [c EXCEPT !.x = link.x, !.y = @ + 2] \in Cursor
    BY <2>2 DEF Cursor
  <2> QED BY <2>1, <2>3
<1>9. CASE c.ok /\ ~Dvb!Invalid(r, c, left) /\ code.kind # "line" /\ (reads = 0 \/ x = w)
  <2>1. Dvb!Read(r, link, c, code, left) = c
    BY <1>4, <1>9 DEF Dvb!Read
  <2> QED BY <2>1
<1>10. CASE c.ok /\ ~Dvb!Invalid(r, c, left) /\ code.kind # "line" /\ reads # 0 /\ x # w
  <2>1. Dvb!Read(r, link, c, code, left) = Dvb!String(r, c, code)
    BY <1>4, <1>10 DEF Dvb!Read
  <2>2. CASE code.kind = "transparent"
    <3>1. Dvb!String(r, c, code) = [c EXCEPT !.x = @ + code.n]
      BY <2>2 DEF Dvb!String
    <3>2. x + code.n \in Nat
      BY <1>1, <1>2
    <3>3. [c EXCEPT !.x = @ + code.n] \in Cursor
      BY <3>2 DEF Cursor
    <3> QED BY <2>1, <3>1, <3>3
  <2>3. CASE code.kind = "pixels"
    <3> DEFINE rest == w - x  n == Dvb!Min({code.n, rest})
               last == y * w + x + n - 1
    <3>1. Dvb!String(r, c, code) = Dvb!Painted(r, c, n)
      BY <2>3 DEF Dvb!String
    <3>2. x < w /\ 1 <= room /\ rest \in Nat
      <4>1. ~(x > w) /\ ~(reads < 0)
        BY <1>4, <1>10
      <4>2. x < w
        BY <1>1, <1>10, <4>1
      <4>3. 1 <= reads
        BY <1>5, <1>10, <4>1
      <4>4. 1 <= room
        <5> HIDE DEF room
        <5> QED BY <1>3, <1>5, <4>3
      <4> QED BY <1>1, <4>2, <4>4
    <3>3. n \in Nat /\ n <= rest
      <4> DEFINE m == code.n
      <4>0. m \in Int /\ rest \in Int /\ n = Dvb!Min({m, rest})
        BY <1>2, <3>2
      <4> HIDE DEF rest, n, m
      <4>1. n \in Int /\ n <= rest /\ n \in {m, rest}
        BY <4>0, TwoNumbers
      <4> USE DEF m
      <4> QED BY <1>2, <3>2, <4>1
    <3> HIDE DEF n
    <3>4. x + n \in Nat
      BY <1>1, <3>3
    <3>5. CASE n = 0
      <4>1. Dvb!Painted(r, c, n) = [c EXCEPT !.x = @ + n]
        BY <1>1, <3>5 DEF Dvb!Painted
      <4>2. [c EXCEPT !.x = @ + n] \in Cursor
        BY <3>4 DEF Cursor
      <4> QED BY <2>1, <3>1, <4>1, <4>2
    <3>6. CASE n # 0
      <4> DEFINE mark == [size |-> w * h, last |-> last]
                 paint == c.wrote \cup {mark}
      <4>1. Dvb!Painted(r, c, n) = [c EXCEPT !.x = @ + n, !.wrote = paint]
        BY <3>6 DEF Dvb!Painted
      <4>2. last \in Nat /\ w * h \in Nat /\ last < w * h
        <5> DEFINE a == y * w  b == w * h
        <5>1. a \in Nat /\ b \in Nat
          BY <1>1
        <5>2. 1 <= b - (a + x)
          BY <3>2
        <5>3. a < b => a + w <= b
          BY <1>1, WholeLine
        <5>4. n <= w - x
          BY <3>3
        <5>5. last = a + x + n - 1
          OBVIOUS
        <5> HIDE DEF a, b, last, x, w
        <5>6. a < b
          BY <1>1, <5>1, <5>2
        <5>7. a + x + n - 1 < b /\ a + x + n - 1 \in Nat
          BY <1>1, <3>3, <3>6, <5>1, <5>3, <5>4, <5>6
        <5> QED BY <5>1, <5>5, <5>7 DEF b
      <4> HIDE DEF last
      <4>3. mark \in InBuffer
        BY <4>2 DEF InBuffer
      <4>4. paint \subseteq InBuffer
        BY <1>1, <4>3
      <4> HIDE DEF paint
      <4>5. [c EXCEPT !.x = @ + n, !.wrote = paint] \in Cursor
        BY <3>4, <4>4 DEF Cursor
      <4> QED BY <2>1, <3>1, <4>1, <4>5
    <3> QED BY <3>5, <3>6
  <2>4. code.kind \in {"pixels", "transparent", "line"}
    BY DEF Code
  <2> QED BY <1>10, <2>2, <2>3, <2>4
<1> QED BY <1>6, <1>7, <1>8, <1>9, <1>10

\* What a segment has painted so far.
Paint == [ok : BOOLEAN, wrote : SUBSET InBuffer]

\* A field of an object, through any link of it.
LEMMA BlockInside ==
  ASSUME NEW s \in Paint, NEW link, link.x \in Nat, link.y \in Nat, NEW codes \in Seq(Code),
         NEW bottom \in {0, 1}, RegionList(dvbctx.region)
  PROVE  Dvb!parsePixelDataBlock(s, link, codes, bottom) \in Paint
<1> DEFINE N == Len(codes)
           r == dvbctx.region[link.region]
           base == [x |-> link.x, y |-> link.y + bottom, wrote |-> s.wrote, ok |-> s.ok]
           Next1(c, n) == Dvb!Read(r, link, c, codes[n], N - n + 1)
           I == [n \in 0 .. N |-> Cursor]
           F == [p \in Cursor \X (1 .. N) |-> Next1(p[1], p[2])]
           Made(k) == k = [n \in 0 .. N |-> IF n = 0 THEN base ELSE Next1(k[n - 1], n)]
           step == CHOOSE k : Made(k)
           result == [ok |-> step[N].ok, wrote |-> step[N].wrote]
<1>1. N \in Nat /\ codes \in [1 .. N -> Code]
  OBVIOUS
<1>2. Dvb!parsePixelDataBlock(s, link, codes, bottom) =
        IF ~s.ok \/ link.region \notin DOMAIN dvbctx.region THEN s ELSE result
  BY Zenon DEF Dvb!parsePixelDataBlock
<1> HIDE DEF N
<1>3. CASE ~s.ok \/ link.region \notin DOMAIN dvbctx.region
  <2> HIDE DEF result
  <2> QED BY <1>2, <1>3
<1>4. CASE s.ok /\ link.region \in DOMAIN dvbctx.region
  <2>1. r.w \in Nat /\ r.h \in Nat
    BY <1>4 DEF RegionList, Region
  <2> HIDE DEF r, step
  <2>2. \A n \in 1 .. N : \A c \in Cursor : Next1(c, n) \in Cursor
    <3> SUFFICES ASSUME NEW n \in 1 .. N, NEW c \in Cursor PROVE Next1(c, n) \in Cursor
      OBVIOUS
    <3>1. codes[n] \in Code /\ N - n + 1 \in Nat
      BY <1>1
    <3> QED BY <2>1, <3>1, ReadsInside
  <2>3. base \in Cursor
    <3>1. link.y + bottom \in Nat
      OBVIOUS
    <3>2. s.wrote \subseteq InBuffer /\ s.ok \in BOOLEAN
      BY DEF Paint
    <3> QED BY <3>1, <3>2 DEF Cursor
  <2> HIDE DEF base, Next1
  <2>4. \A n \in 0 .. N : I[n] = Cursor
    OBVIOUS
  <2>5. \A n \in 1 .. N : \A c \in Cursor : F[<<c, n>>] = Next1(c, n)
    OBVIOUS
  <2> HIDE DEF I, F
  <2>6. \A n \in 1 .. N : n - 1 \in 0 .. N /\ n \in 0 .. N
    BY <1>1
  <2>7. Keeps(N, I, base, F)
    <3>1. 0 \in 0 .. N
      BY <1>1
    <3> QED BY <2>2, <2>3, <2>4, <2>5, <2>6, <3>1 DEF Keeps
  <2>8. PICK g : Steps(N, I, base, F, g)
    BY <1>1, <2>7, Iteration
  <2>9. Made(g)
    <3>1. /\ g = [n \in 0 .. N |-> g[n]] /\ g[0] = base
          /\ \A n \in 1 .. N : g[n] = F[<<g[n - 1], n>>]
          /\ \A n \in 0 .. N : g[n] \in I[n]
      BY <2>8 DEF Steps
    <3>2. ASSUME NEW n \in 0 .. N
          PROVE  g[n] = IF n = 0 THEN base ELSE Next1(g[n - 1], n)
      <4>1. CASE n = 0
        BY <3>1, <4>1
      <4>2. CASE n # 0
        <5>1. n \in 1 .. N
          BY <1>1, <4>2
        <5>2. g[n - 1] \in Cursor
          BY <2>4, <2>6, <3>1, <5>1
        <5> QED BY <2>5, <3>1, <4>2, <5>1, <5>2
      <4> QED BY <4>1, <4>2
    <3> QED BY <3>1, <3>2
  <2>10. Made(step)
    <3> HIDE DEF Made
    <3> QED BY <2>9, Zenon DEF step
  <2>11. Runs(N, I, base, F, step)
    <3>1. step[0] = base /\ \A n \in 1 .. N : step[n] = Next1(step[n - 1], n)
      BY <1>1, <2>10
    <3> HIDE DEF Made
    <3> QED BY <2>4, <2>5, <2>6, <3>1 DEF Runs
  <2>12. step[N] \in Cursor
    <3>1. N \in 0 .. N
      BY <1>1
    <3> QED BY <1>1, <2>4, <2>7, <2>11, <3>1, RunsInside
  <2>13. result \in Paint
    BY <2>12 DEF Cursor, Paint
  <2> HIDE DEF result
  <2> QED BY <1>2, <1>4, <2>13
<1> QED BY <1>3, <1>4

\* The data of an object, through all of its links: all that is painted is in the buffers.
LEMMA ObjectInside ==
  ASSUME Linkage(dvbctx), NEW id, NEW top \in Seq(Code), NEW bottom \in Seq(Code),
         NEW after \in Seq(Code), Dvb!parseObjectSegment(id, top, bottom, after)
  PROVE  /\ dvbctx' = dvbctx /\ wrote' \subseteq InBuffer
         /\ picture' = Dvb!NoPicture
<1> DEFINE links == dvbctx.object[id]
           N == Len(links)
           base == [ok |-> TRUE, wrote |-> {}]
           Low(n) == Dvb!Bottom(top, bottom, after, n = 1)
           Block(s, l, f, b) == Dvb!parsePixelDataBlock(s, l, f, b)
           Next1(s, n) == Block(Block(s, links[n], top, 0), links[n], Low(n), 1)
           I == [n \in 0 .. N |-> Paint]
           F == [p \in Paint \X (1 .. N) |-> Next1(p[1], p[2])]
           Made(k) == k = [n \in 0 .. N |-> IF n = 0 THEN base ELSE Next1(k[n - 1], n)]
           through == CHOOSE k : Made(k)
<1>1. /\ id \in DOMAIN dvbctx.object /\ wrote' = through[N].wrote
      /\ picture' = Dvb!NoPicture /\ dvbctx' = dvbctx
  BY Zenon DEF Dvb!parseObjectSegment
<1>2. links \in Seq(Link)
  BY <1>1, ListFacts DEF Linkage
<1>3. RegionList(dvbctx.region)
  BY DEF Linkage
<1> HIDE DEF links
<1>4. N \in Nat /\ \A n \in 1 .. N : links[n] \in Link
  BY <1>2
<1> HIDE DEF N, through
<1>5. \A n : Low(n) \in Seq(Code)
  BY DEF Dvb!Bottom
<1> HIDE DEF Low
<1>6. \A s \in Paint : \A n \in 1 .. N : \A f \in Seq(Code) : \A b \in {0, 1} :
        Block(s, links[n], f, b) \in Paint
  <2> SUFFICES ASSUME NEW s \in Paint, NEW n \in 1 .. N, NEW f \in Seq(Code), NEW b \in {0, 1}
               PROVE  Block(s, links[n], f, b) \in Paint
    OBVIOUS
  <2> DEFINE l == links[n]
  <2>1. l.x \in Nat /\ l.y \in Nat
    BY <1>4 DEF Link
  <2> HIDE DEF l
  <2>2. Dvb!parsePixelDataBlock(s, l, f, b) \in Paint
    BY <1>3, <2>1, BlockInside
  <2> QED BY <2>2 DEF l
<1> HIDE DEF Block
<1>7. \A n \in 1 .. N : \A s \in Paint : Next1(s, n) \in Paint
  <2> SUFFICES ASSUME NEW n \in 1 .. N, NEW s \in Paint PROVE Next1(s, n) \in Paint
    OBVIOUS
  <2>1. Block(s, links[n], top, 0) \in Paint
    BY <1>6
  <2> QED BY <1>5, <1>6, <2>1
<1>8. base \in Paint
  BY DEF Paint
<1> HIDE DEF base, Next1
<1>9. \A n \in 0 .. N : I[n] = Paint
  OBVIOUS
<1>10. \A n \in 1 .. N : \A s \in Paint : F[<<s, n>>] = Next1(s, n)
  OBVIOUS
<1> HIDE DEF I, F
<1>11. \A n \in 1 .. N : n - 1 \in 0 .. N /\ n \in 0 .. N
  BY <1>4
<1>12. Keeps(N, I, base, F)
  <2>1. 0 \in 0 .. N
    BY <1>4
  <2> QED BY <1>7, <1>8, <1>9, <1>10, <1>11, <2>1 DEF Keeps
<1>13. PICK g : Steps(N, I, base, F, g)
  BY <1>4, <1>12, Iteration
<1>14. Made(g)
  <2>1. /\ g = [n \in 0 .. N |-> g[n]] /\ g[0] = base
        /\ \A n \in 1 .. N : g[n] = F[<<g[n - 1], n>>]
        /\ \A n \in 0 .. N : g[n] \in I[n]
    BY <1>13 DEF Steps
  <2>2. ASSUME NEW n \in 0 .. N
        PROVE  g[n] = IF n = 0 THEN base ELSE Next1(g[n - 1], n)
    <3>1. CASE n = 0
      BY <2>1, <3>1
    <3>2. CASE n # 0
      <4>1. n \in 1 .. N
        BY <1>4, <3>2
      <4>2. g[n - 1] \in Paint
        BY <1>9, <1>11, <2>1, <4>1
      <4> QED BY <1>10, <2>1, <3>2, <4>1, <4>2
    <3> QED BY <3>1, <3>2
  <2> QED BY <2>1, <2>2
<1>15. Made(through)
  <2> HIDE DEF Made
  <2> QED BY <1>14, Zenon DEF through
<1>16. Runs(N, I, base, F, through)
  <2>1. through[0] = base /\ \A n \in 1 .. N : through[n] = Next1(through[n - 1], n)
    BY <1>4, <1>15
  <2> HIDE DEF Made
  <2> QED BY <1>9, <1>10, <1>11, <2>1 DEF Runs
<1>17. through[N] \in Paint
  <2>1. N \in 0 .. N
    BY <1>4
  <2> QED BY <1>4, <1>9, <1>12, <1>16, <2>1, RunsInside
<1>18. through[N].wrote \subseteq InBuffer
  BY <1>17 DEF Paint
<1> QED BY <1>1, <1>18

-----------------------------------------------------------------------------
(* The DVB page, step by step.                                             *)

PageInvariant ==
  /\ dvbctx = [region |-> dvbctx.region, object |-> dvbctx.object,
               clut |-> dvbctx.clut, page |-> dvbctx.page]
  /\ Linkage(dvbctx) /\ dvbctx.page \in Seq(Spot)
  /\ PictureInside(picture) /\ wrote \subseteq InBuffer

LEMMA CodesGiven ==
  ASSUME NEW n \in Nat, NEW codes \in Dvb!UpTo(Codes, n)
  PROVE  codes \in Seq(Code)
<1>1. Dvb!UpTo(Codes, n) = UNION {[1 .. k -> Codes] : k \in 0 .. n}
  BY UpToIs
<1>2. PICK k \in 0 .. n : codes \in [1 .. k -> Codes]
  BY <1>1
<1>3. Codes \subseteq Code
  BY PageAssumption DEF Code
<1>4. codes \in [1 .. k -> Code] /\ k \in Nat
  BY <1>2, <1>3
<1> QED BY <1>4

LEMMA PageGiven ==
  ASSUME NEW page \in Dvb!Pages
  PROVE  page \in Seq(Spot)
<1> DEFINE S == {[region |-> id, x |-> p.x, y |-> p.y] : id \in Regions, p \in Places}
           n == Dvb!Cardinality(Regions)
<1>1. n \in Nat
  <2>1. n = Cardinality(Regions)
    BY Zenon DEF Dvb!Cardinality, Cardinality
  <2> QED BY <2>1, FS_CardinalityType, PageAssumption
<1>2. Dvb!Pages = UNION {[1 .. k -> S] : k \in 0 .. n}
  <2>1. Dvb!Pages = Dvb!UpTo(S, n)
    BY DEF Dvb!Pages
  <2> HIDE DEF S, n
  <2> QED BY <2>1, UpToIs
<1>3. S \subseteq Spot
  <2> SUFFICES ASSUME NEW id \in Regions, NEW p \in Places
               PROVE  [region |-> id, x |-> p.x, y |-> p.y] \in Spot
    OBVIOUS
  <2>1. p \in [x : Nat, y : Nat]
    BY PageAssumption
  <2>2. p.x \in Int /\ p.y \in Int
    BY <2>1
  <2> QED BY <2>2 DEF Spot
<1> HIDE DEF S, n
<1>4. PICK k \in 0 .. n : page \in [1 .. k -> S]
  BY <1>2
<1>5. page \in [1 .. k -> Spot] /\ k \in Nat
  BY <1>1, <1>3, <1>4
<1> QED BY <1>5

LEMMA NoLinkage ==
  ASSUME NEW c, c.region = << >>, c.object = << >>
  PROVE  Linkage(c)
<1>1. DOMAIN << >> = {}
  OBVIOUS
<1>2. RegionList(c.region)
  BY <1>1 DEF RegionList
<1>3. LinkLists(c.object)
  <2> DEFINE o == c.object
  <2>1. DOMAIN o = {} /\ o = [id \in {} |-> o[id]]
    BY <1>1
  <2> HIDE DEF o
  <2>2. LinkLists(o)
    <3>1. {} \in SUBSET Objects
      OBVIOUS
    <3>2. \A id \in {} : o[id] \in Seq(Link) /\ \A i \in 1 .. Len(o[id]) : o[id][i].object = id
      OBVIOUS
    <3> QED BY <2>1, <3>1, <3>2, MakesLinkLists
  <2> QED BY <2>2 DEF o
<1>4. \A l : Dvb!InObject(c.object, l) = 0 /\ Dvb!InRegion(c.region, l) = 0
  BY <1>1 DEF Dvb!InObject, Dvb!InRegion
<1> QED BY <1>2, <1>3, <1>4 DEF Linkage

LEMMA PageInit == Dvb!Init => PageInvariant
<1> SUFFICES ASSUME Dvb!Init PROVE PageInvariant
  OBVIOUS
<1>1. /\ dvbctx = [region |-> << >>, object |-> << >>, clut |-> {}, page |-> << >>]
      /\ wrote = {} /\ picture = Dvb!NoPicture
  BY DEF Dvb!Init
<1>2. Linkage(dvbctx)
  <2>1. dvbctx.region = << >> /\ dvbctx.object = << >>
    BY <1>1
  <2> QED BY <2>1, NoLinkage
<1>3. PictureInside(picture)
  BY <1>1 DEF PictureInside, Dvb!NoPicture
<1>4. dvbctx.page \in Seq(Spot)
  BY <1>1
<1>5. dvbctx = [region |-> dvbctx.region, object |-> dvbctx.object,
                clut |-> dvbctx.clut, page |-> dvbctx.page]
  BY <1>1
<1> QED BY <1>1, <1>2, <1>3, <1>4, <1>5 DEF PageInvariant

\* The end of a display set leaves the lists of c.
LEMMA SavesSound ==
  ASSUME NEW c, c = [region |-> c.region, object |-> c.object, clut |-> c.clut, page |-> c.page],
         Linkage(c), c.page \in Seq(Spot), Dvb!saveResult2Spu(c), wrote' = {}
  PROVE  PageInvariant'
<1>1. RegionList(c.region)
  BY DEF Linkage
<1>2. /\ dvbctx' = [region |-> c.region, object |-> c.object, clut |-> c.clut,
                    page |-> dvbctx'.page]
      /\ dvbctx'.page \in Seq(Spot)
      /\ PictureInside(picture')
  BY <1>1, Saves
<1> DEFINE p == dvbctx'.page
<1> HIDE DEF p
<1>3. dvbctx' = [region |-> c.region, object |-> c.object, clut |-> c.clut, page |-> p]
  BY <1>2 DEF p
<1>4. dvbctx'.region = c.region /\ dvbctx'.object = c.object /\ dvbctx'.clut = c.clut
  BY <1>3
<1>5. Linkage(dvbctx')
  BY <1>4 DEF Linkage
<1>6. dvbctx' = [region |-> dvbctx'.region, object |-> dvbctx'.object,
                 clut |-> dvbctx'.clut, page |-> dvbctx'.page]
  BY <1>2, <1>4
<1>7. wrote' \subseteq InBuffer
  OBVIOUS
<1> QED BY <1>2, <1>5, <1>6, <1>7 DEF PageInvariant, PictureInside

LEMMA PageSegment ==
  ASSUME PageInvariant, NEW fresh \in BOOLEAN, NEW page \in Dvb!Pages,
         Dvb!parsePageSegment(fresh, page)
  PROVE  PageInvariant'
<1> DEFINE b == IF fresh THEN Dvb!Emptied(dvbctx) ELSE dvbctx
           rev == Dvb!Reverse(page)
           c == [b EXCEPT !.page = rev]
<1>1. Dvb!saveResult2Spu(c) /\ wrote' = {}
  BY Zenon DEF Dvb!parsePageSegment
<1>2. rev \in Seq(Spot)
  BY PageGiven, Reverses
<1>3. dvbctx = [region |-> dvbctx.region, object |-> dvbctx.object,
                clut |-> dvbctx.clut, page |-> dvbctx.page] /\ Linkage(dvbctx)
  BY DEF PageInvariant
<1> HIDE DEF rev
<1>4. b = [region |-> b.region, object |-> b.object, clut |-> b.clut, page |-> b.page]
      /\ (b = dvbctx \/ (b.region = << >> /\ b.object = << >>))
  <2>1. CASE fresh
    <3>1. b = [dvbctx EXCEPT !.region = << >>, !.object = << >>, !.clut = {}]
      BY <2>1 DEF Dvb!Emptied
    <3>2. b = [region |-> << >>, object |-> << >>, clut |-> {}, page |-> dvbctx.page]
      BY <1>3, <3>1
    <3> HIDE DEF b
    <3> QED BY <3>2
  <2>2. CASE ~fresh
    BY <1>3, <2>2
  <2> QED BY <2>1, <2>2
<1> HIDE DEF b
<1>5. c = [region |-> b.region, object |-> b.object, clut |-> b.clut, page |-> rev]
  BY <1>4
<1> HIDE DEF c
<1>6. c.region = b.region /\ c.object = b.object /\ c.clut = b.clut /\ c.page = rev
  BY <1>5
<1>7. c = [region |-> c.region, object |-> c.object, clut |-> c.clut, page |-> c.page]
  BY <1>5, <1>6
<1>8. Linkage(c)
  <2>1. CASE b = dvbctx
    BY <1>3, <1>6, <2>1 DEF Linkage
  <2>2. CASE b.region = << >> /\ b.object = << >>
    BY <1>6, <2>2, NoLinkage
  <2> QED BY <1>4, <2>1, <2>2
<1>9. c.page \in Seq(Spot)
  BY <1>2, <1>6
<1> QED BY <1>1, <1>7, <1>8, <1>9, SavesSound

LEMMA RegionSegment ==
  ASSUME PageInvariant, NEW id \in Regions, NEW size \in Sizes, NEW clut,
         NEW links \in Dvb!Links, Dvb!parseRegionSegment(id, size, clut, links)
  PROVE  PageInvariant'
<1>1. /\ dvbctx = [region |-> dvbctx.region, object |-> dvbctx.object,
                   clut |-> dvbctx.clut, page |-> dvbctx.page]
      /\ Linkage(dvbctx) /\ dvbctx.page \in Seq(Spot)
  BY DEF PageInvariant
<1>2. /\ Linkage(dvbctx')
      /\ dvbctx' = [region |-> dvbctx'.region, object |-> dvbctx'.object,
                    clut |-> dvbctx.clut, page |-> dvbctx.page]
  BY <1>1, RegionSegmentLinks
<1>3. wrote' = {} /\ picture' = Dvb!NoPicture
  BY DEF Dvb!parseRegionSegment
<1>4. PictureInside(picture')
  BY <1>3 DEF PictureInside, Dvb!NoPicture
<1> DEFINE g == dvbctx'.region  o == dvbctx'.object
<1> HIDE DEF g, o
<1>5. dvbctx' = [region |-> g, object |-> o, clut |-> dvbctx.clut, page |-> dvbctx.page]
  BY <1>2 DEF g, o
<1>6. dvbctx'.clut = dvbctx.clut /\ dvbctx'.page = dvbctx.page
  BY <1>5
<1>7. dvbctx' = [region |-> dvbctx'.region, object |-> dvbctx'.object,
                 clut |-> dvbctx'.clut, page |-> dvbctx'.page]
  BY <1>2, <1>6
<1>8. dvbctx'.page \in Seq(Spot)
  BY <1>1, <1>6
<1>9. wrote' \subseteq InBuffer
  BY <1>3
<1> QED BY <1>2, <1>4, <1>7, <1>8, <1>9 DEF PageInvariant, PictureInside, Linkage

LEMMA ClutSegment ==
  ASSUME PageInvariant, NEW id, Dvb!parseClutSegment(id)
  PROVE  PageInvariant'
<1>1. /\ dvbctx = [region |-> dvbctx.region, object |-> dvbctx.object,
                   clut |-> dvbctx.clut, page |-> dvbctx.page]
      /\ Linkage(dvbctx) /\ dvbctx.page \in Seq(Spot)
  BY DEF PageInvariant
<1>2. dvbctx' = [dvbctx EXCEPT !.clut = @ \cup {id}] /\ wrote' = {} /\ picture' = Dvb!NoPicture
  BY DEF Dvb!parseClutSegment
<1>3. PictureInside(picture') /\ wrote' \subseteq InBuffer
  BY <1>2 DEF PictureInside, Dvb!NoPicture
<1> DEFINE k == dvbctx.clut \cup {id}
<1> HIDE DEF k
<1>4. dvbctx' = [region |-> dvbctx.region, object |-> dvbctx.object, clut |-> k,
                 page |-> dvbctx.page]
  BY <1>1, <1>2 DEF k
<1>5. /\ dvbctx'.region = dvbctx.region /\ dvbctx'.object = dvbctx.object
      /\ dvbctx'.clut = k /\ dvbctx'.page = dvbctx.page
  BY <1>4
<1>6. dvbctx' = [region |-> dvbctx'.region, object |-> dvbctx'.object,
                 clut |-> dvbctx'.clut, page |-> dvbctx'.page]
  BY <1>4, <1>5
<1>7. Linkage(dvbctx')
  BY <1>1, <1>5 DEF Linkage
<1>8. dvbctx'.page \in Seq(Spot)
  BY <1>1, <1>5
<1> QED BY <1>3, <1>6, <1>7, <1>8 DEF PageInvariant, PictureInside, Linkage

LEMMA ObjectSegment ==
  ASSUME PageInvariant, NEW id, NEW top \in Dvb!UpTo(Codes, MaxCodes),
         NEW bottom \in Dvb!UpTo(Codes, 1), NEW after \in Dvb!UpTo(Codes, 1),
         Dvb!parseObjectSegment(id, top, bottom, after)
  PROVE  PageInvariant'
<1>1. top \in Seq(Code) /\ bottom \in Seq(Code) /\ after \in Seq(Code)
  <2>1. MaxCodes \in Nat /\ 1 \in Nat
    BY PageAssumption
  <2> QED BY <2>1, CodesGiven
<1>2. Linkage(dvbctx)
  BY DEF PageInvariant
<1>3. /\ dvbctx' = dvbctx /\ wrote' \subseteq InBuffer
      /\ picture' = Dvb!NoPicture
  BY <1>1, <1>2, ObjectInside
<1>4. PictureInside(picture')
  BY <1>3 DEF PictureInside, Dvb!NoPicture
<1> QED BY <1>3, <1>4 DEF PageInvariant, Linkage, PictureInside

LEMMA PageNext == PageInvariant /\ Dvb!Next => PageInvariant'
<1> SUFFICES ASSUME PageInvariant, Dvb!Next PROVE PageInvariant'
  OBVIOUS
<1>1. ASSUME NEW fresh \in BOOLEAN, NEW page \in Dvb!Pages, Dvb!parsePageSegment(fresh, page)
      PROVE  PageInvariant'
  BY <1>1, PageSegment
<1>2. ASSUME NEW id \in Regions, NEW size \in Sizes, NEW clut \in Cluts, NEW links \in Dvb!Links,
             Dvb!parseRegionSegment(id, size, clut, links)
      PROVE  PageInvariant'
  BY <1>2, RegionSegment
<1>3. ASSUME NEW id \in Cluts, Dvb!parseClutSegment(id)
      PROVE  PageInvariant'
  BY <1>3, ClutSegment
<1>4. ASSUME NEW id \in Objects, NEW top \in Dvb!UpTo(Codes, MaxCodes),
             NEW bottom \in Dvb!UpTo(Codes, 1), NEW after \in Dvb!UpTo(Codes, 1),
             Dvb!parseObjectSegment(id, top, bottom, after)
      PROVE  PageInvariant'
  BY <1>4, ObjectSegment
<1>5. CASE Dvb!displayEndSegment
  <2>1. /\ dvbctx = [region |-> dvbctx.region, object |-> dvbctx.object,
                     clut |-> dvbctx.clut, page |-> dvbctx.page]
        /\ Linkage(dvbctx) /\ dvbctx.page \in Seq(Spot)
    BY DEF PageInvariant
  <2>2. Dvb!saveResult2Spu(dvbctx) /\ wrote' = {}
    BY <1>5 DEF Dvb!displayEndSegment
  <2> QED BY <2>1, <2>2, SavesSound
<1> QED BY <1>1, <1>2, <1>3, <1>4, <1>5, Zenon DEF Dvb!Next

LEMMA PageSafe == PageInvariant => PageSound
<1> SUFFICES ASSUME PageInvariant PROVE Dvb!LinksAgree /\ Dvb!InsideMemory
  BY DEF PageSound
<1>1. Dvb!LinksAgree
  BY LinkageAgrees DEF PageInvariant
<1>2. Dvb!InsideMemory
  BY DEF PageInvariant, PictureInside, InBuffer, Dvb!InsideMemory
<1> QED BY <1>1, <1>2

\* Whatever the segments of a stream say, in whatever order they come: every link that a
\* region has is one of an object that there is, and every link of an object one of a region
\* that there is; the regions that make up a picture are copied inside it, and what objects
\* paint is inside the buffers of their regions (DvbParser.cpp: deleteRegionDisplayList,
\* saveResult2Spu, dvbsub_read_2bit_string, dvbsub_read_4bit_string,
\* dvbsub_read_8bit_string).
THEOREM PageSoundAlways == MCSpec => []PageSound
<1>1. MCInit => PageInvariant
  BY PageInit DEF MCInit
<1>2. PageInvariant /\ [MCNext]_<<part, ttvars, dvb, pgs>> => PageInvariant'
  <2> SUFFICES ASSUME PageInvariant, [MCNext]_<<part, ttvars, dvb, pgs>> PROVE PageInvariant'
    OBVIOUS
  <2>1. CASE Dvb!Next
    BY <2>1, PageNext
  <2>2. CASE UNCHANGED dvb
    <3>1. UNCHANGED <<dvbctx, wrote, picture>>
      BY <2>2 DEF dvb
    <3> QED BY <3>1 DEF PageInvariant, Linkage, PictureInside
  <2> QED BY <2>1, <2>2 DEF MCNext
<1>3. PageInvariant => PageSound
  BY PageSafe
<1> QED BY <1>1, <1>2, <1>3, PTL DEF MCSpec
=============================================================================
