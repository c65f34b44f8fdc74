------------------------- MODULE PresentationProofs -------------------------
(***************************************************************************)
(* Presentation for any items, times and bounds: types, the screen a hide  *)
(* covers, the shown item every picture depends on, and what is shown and  *)
(* hidden when.                                                            *)
(***************************************************************************)
EXTENDS Presentation, SequenceTheorems, TLAPS

\* The same item at another time.
SameBut(i, j) == /\ i \in Item /\ i.session = j.session /\ i.id = j.id
                 /\ i.obj = j.obj /\ i.data = j.data

LEMMA RetimedType ==
  ASSUME NEW i \in Item, NEW p \in Nat, NEW e \in Nat
  PROVE  SameBut(Retimed(i, p, e), i)
<1>1. Retimed(i, p, e) \in Item
  BY DEF Retimed, Item
<1>2. /\ Retimed(i, p, e).session = i.session
      /\ Retimed(i, p, e).id = i.id
      /\ Retimed(i, p, e).obj = i.obj
      /\ Retimed(i, p, e).data = i.data
  BY DEF Retimed, Item
<1> QED
  BY <1>1, <1>2 DEF SameBut

LEMMA PreparedType ==
  ASSUME NEW i \in Item, Timestamp \in Int
  PROVE  SameBut(Prepared(i), i)
<1> DEFINE p == WithPts(i)
           b == WithSameBits(p)
<1>1. InMs \in Nat /\ InMs + DefaultDelay \in Nat
  BY DEF InMs, DefaultDelay
<1>2. SameBut(p, i)
  BY <1>1, RetimedType DEF WithPts, SameBut
<1>3. SameBut(b, i)
  <2> HIDE DEF p
  <2>1. p.pts % Wrap32 \in Nat /\ p.end % Wrap32 \in Nat
    BY <1>2 DEF Item, Wrap32, SameBut
  <2> QED
    BY <1>2, <2>1, RetimedType DEF WithSameBits, SameBut
<1> HIDE DEF b
<1>4. SameBut(WithEnd(b), i)
  <2>1. b.pts + NoPtsDelay \in Nat /\ b.pts \in Nat
    BY <1>3 DEF Item, NoPtsDelay, SameBut
  <2> QED
    BY <1>3, <2>1, RetimedType DEF WithEnd, SameBut
<1> QED
  BY <1>4 DEF Prepared, b

LEMMA FadingTimeType ==
  ASSUME NEW i \in Item, Timestamp \in Int
  PROVE  SameBut(WithFadingTime(i), i)
<1>1. InMs \in Nat /\ InMs + NoPtsDelay \in Nat
  BY DEF InMs, NoPtsDelay
<1>2. i.pts \in Nat /\ i.pts + SmallPtsDelay \in Nat
  BY DEF Item, SmallPtsDelay
<1>3. SameBut(Retimed(i, InMs, InMs + NoPtsDelay), i)
  BY <1>1, RetimedType
<1>4. SameBut(Retimed(i, i.pts, i.pts + SmallPtsDelay), i)
  BY <1>2, RetimedType
<1>5. SameBut(i, i)
  BY DEF SameBut
<1> DEFINE a == Retimed(i, InMs, InMs + NoPtsDelay)
           b == Retimed(i, i.pts, i.pts + SmallPtsDelay)
<1>6. WithFadingTime(i) = a \/ WithFadingTime(i) = b \/ WithFadingTime(i) = i
  BY Zenon DEF WithFadingTime
<1> HIDE DEF a, b
<1> QED
  BY <1>3, <1>4, <1>5, <1>6 DEF a, b

LEMMA BelievedType ==
  ASSUME NEW i \in Item, Timestamp \in Int, -1 <= Timestamp
  PROVE  SameBut(Believed(i), i)
<1>1. Timestamp + 1000 \in Nat /\ Timestamp + 1000 + DefaultDelay \in Nat
  BY DEF DefaultDelay
<1> QED
  BY <1>1, RetimedType DEF Believed, SameBut

-----------------------------------------------------------------------------
(* Sequences.                                                              *)

LEMMA HeadAndTail ==
  ASSUME NEW S, NEW q \in Seq(S), q # <<>>
  PROVE  Head(q) \in S /\ Tail(q) \in Seq(S) /\ Len(Tail(q)) = Len(q) - 1
BY HeadTailProperties

LEMMA RemovedType ==
  ASSUME NEW S, NEW q \in Seq(S), NEW k \in 1..Len(q)
  PROVE  RemoveAt(q, k) \in Seq(S)
<1>1. Len(q) \in Nat
  BY LenProperties
<1>2. SubSeq(q, 1, k - 1) \in Seq(S)
  BY <1>1, SubSeqProperties
<1>3. SubSeq(q, k + 1, Len(q)) \in Seq(S)
  BY <1>1, SubSeqProperties
<1> QED
  BY <1>2, <1>3, ConcatProperties DEF RemoveAt

LEMMA RoomType ==
  ASSUME NEW S, NEW q \in Seq(S), Len(q) <= MaxSpuItems
  PROVE  Room(q) \in Seq(S) /\ Len(Room(q)) < MaxSpuItems
<1>1. Len(q) \in Nat /\ MaxSpuItems \in Nat \ {0}
  BY LenProperties, BoundsAssumption
<1>2. CASE Len(q) < MaxSpuItems
  BY <1>2 DEF Room
<1>3. CASE Len(q) = MaxSpuItems
  <2>1. Room(q) = SubSeq(q, 2, Len(q))
    BY <1>1, <1>3 DEF Room
  <2>2. SubSeq(q, 2, Len(q)) \in Seq(S) /\ Len(SubSeq(q, 2, Len(q))) = Len(q) - 1
    BY <1>1, <1>3, SubSeqProperties
  <2> QED
    BY <1>1, <1>3, <2>1, <2>2
<1> QED
  BY <1>1, <1>2, <1>3

Messages == Seq({"CHECK", "RESET"})

LEMMA QueuedType ==
  ASSUME messages \in Messages, NEW m \in {"CHECK", "RESET"}
  PROVE  Queued(m) \in Messages
BY AppendProperties DEF Queued, Messages

LEMMA WithoutChecksType ==
  ASSUME messages \in Messages
  PROVE  WithoutChecks \in Messages
<1>1. CASE Contains(messages, "CHECK")
  <2> DEFINE k == CHOOSE j \in 1..Len(messages) : messages[j] = "CHECK"
  <2>1. k \in 1..Len(messages)
    BY <1>1 DEF Contains
  <2>2. WithoutChecks = RemoveAt(messages, k)
    BY <1>1 DEF WithoutChecks
  <2> HIDE DEF k
  <2> QED
    BY <2>1, <2>2, RemovedType DEF Messages
<1> QED
  BY <1>1 DEF WithoutChecks

-----------------------------------------------------------------------------
(* The invariant.                                                          *)

\* Items of the sessions so far.
PastItems == {i \in Item : i.session <= session}

\* Types, with the sessions of the items; TypeOK but for the three constants.
Types ==
    /\ TypeOK
    /\ mDecodedSpu \in Seq(PastItems)
    /\ mEmittedShowingSpu \subseteq PastItems
    /\ screen \in [Objects -> PastItems \cup {None}]

\* The parser is stopped before the looper is asked to exit.
ExitOrder == looper # "none" /\ exiting => ~parsing

\* Until its looper runs a session has put nothing on the screen.
Fresh ==
    looper = "starting" \/ (looper = "none" /\ parsing) =>
        \A o \in Objects : screen[o] # None => screen[o].session < session

\* ScreenHasKeeper, during a check too.
Keeper ==
    looper \in {"idle", "checking"} /\ mEmittedFaddingSpu = <<>> =>
        \A o \in Objects : screen[o] # None => screen[o].session < session

Inv == Types /\ ExitOrder /\ Fresh /\ HiddenCovers /\ Keeper

LEMMA KeeperImpliesScreenHasKeeper == Types /\ Keeper => ScreenHasKeeper
<1> SUFFICES ASSUME Types, Keeper, looper = "idle", mEmittedFaddingSpu = <<>>,
                    NEW o \in Objects, screen[o] # None, screen[o].session = session
             PROVE  FALSE
  BY DEF ScreenHasKeeper, Pictures, OfThisSession
<1>1. screen[o].session < session
  BY DEF Keeper
<1>2. session \in Nat
  BY BoundsAssumption DEF Types, TypeOK
<1> QED
  BY <1>1, <1>2

LEMMA ClockType ==
  ASSUME TypeOK
  PROVE  Timestamp \in Int /\ -1 <= Timestamp
BY ClockAssumption DEF TypeOK, Timestamp

LEMMA NewItemType ==
  ASSUME TypeOK, NEW t \in Templates
  PROVE  NewItem(t) \in PastItems
<1>1. decoded + 1 \in Nat /\ session \in Nat
  BY BoundsAssumption DEF TypeOK
<1>2. t \in [pts : Nat, end : Nat, imm : BOOLEAN, keep : BOOLEAN,
              kind : Kinds, data : BOOLEAN, obj : Objects, size : Nat]
  BY TemplatesAssumption
<1>3. NewItem(t) \in Item
  BY <1>1, <1>2 DEF NewItem, Item
<1>4. NewItem(t).session = session
  BY DEF NewItem
<1> QED
  BY <1>1, <1>3, <1>4 DEF PastItems

LEMMA SameButPast ==
  ASSUME NEW i, NEW j \in PastItems, SameBut(i, j)
  PROVE  i \in PastItems
BY DEF SameBut, PastItems

LEMMA CollectedType ==
  ASSUME Types
  PROVE  Collected \subseteq PastItems
<1>1. CASE mDecodedSpu = <<>>
  BY <1>1 DEF Collected, Types
<1>2. CASE mDecodedSpu # <<>>
  <2> DEFINE i == Believed(Head(mDecodedSpu))
             q == mEmittedShowingSpu \cup (IF Admitted(i) THEN {i} ELSE {})
  <2>1. Head(mDecodedSpu) \in PastItems
    BY <1>2, HeadAndTail DEF Types
  <2>2. SameBut(i, Head(mDecodedSpu))
    BY <2>1, ClockType, BelievedType DEF Types, PastItems
  <2>3. i \in PastItems
    BY <2>1, <2>2, SameButPast
  <2> HIDE DEF i
  <2>4. q \subseteq PastItems
    BY <2>3 DEF Types
  <2>5. Collected = WithinMemory(q, i.size)
    BY <1>2 DEF Collected, i
  <2> HIDE DEF q
  <2>6. WithinMemory(q, i.size) \subseteq q
    BY DEF WithinMemory
  <2> QED
    BY <2>4, <2>5, <2>6
<1> QED
  BY <1>1, <1>2

-----------------------------------------------------------------------------
(* The handler.                                                            *)

\* What the invariant asks of a list of shown items, a screen and its highest object.
ShowingOK(fading, scr, top) ==
    /\ fading \in Seq(Item) /\ Len(fading) <= 1
    /\ scr \in [Objects -> PastItems \cup {None}]
    /\ top \in Objects
    /\ \A o \in Objects : scr[o] # None => o <= top
    /\ fading = <<>> => \A o \in Objects : scr[o] # None => scr[o].session < session

LEMMA HiddenAll ==
  ASSUME NEW scr \in [Objects -> PastItems \cup {None}], NEW top \in Objects,
         \A o \in Objects : scr[o] # None => o <= top
  PROVE  /\ HideUpTo(top, scr) \in [Objects -> PastItems \cup {None}]
         /\ \A o \in Objects : HideUpTo(top, scr)[o] = None
BY DEF HideUpTo

LEMMA FadeShowing ==
  ASSUME NEW fading, NEW scr, NEW top, NEW waiting \in BOOLEAN,
         ShowingOK(fading, scr, top), Fade(fading, scr, top, waiting)
  PROVE  /\ ShowingOK(mEmittedFaddingSpu', screen', mCurrentMaxObjectId')
         /\ delayed' \in BOOLEAN
<1>1. delayed' \in BOOLEAN
  BY DEF Fade, LooksAgain
<1>2. CASE Faded(fading)
  <2>1. fading # <<>>
    BY <1>2 DEF Faded
  <2>2. Tail(fading) \in Seq(Item) /\ Len(Tail(fading)) <= 1
    <3>1. Len(fading) \in Nat /\ Len(fading) <= 1
      BY LenProperties DEF ShowingOK
    <3>2. Tail(fading) \in Seq(Item) /\ Len(Tail(fading)) = Len(fading) - 1
      BY <2>1, HeadAndTail DEF ShowingOK
    <3> QED
      BY <3>1, <3>2
  <2>3. /\ mEmittedFaddingSpu' = Tail(fading)
        /\ screen' = HideUpTo(top, scr)
        /\ mCurrentMaxObjectId' = 0
    BY <1>2 DEF Fade
  <2>4. /\ screen' \in [Objects -> PastItems \cup {None}]
        /\ \A o \in Objects : screen'[o] = None
    BY <2>3, HiddenAll DEF ShowingOK
  <2> QED
    BY <1>1, <2>2, <2>3, <2>4, TemplatesAssumption DEF ShowingOK
<1>3. CASE ~Faded(fading)
  BY <1>1, <1>3 DEF Fade, ShowingOK
<1> QED
  BY <1>2, <1>3

\* A shown item leaves a screen that is covered.
LEMMA PresentedShowing ==
  ASSUME Types, HiddenCovers, NEW i \in PastItems, NEW q, NEW f \in Item,
         NEW cached \in Seq(Item), Len(cached) = 0
  PROVE  ShowingOK(Append(cached, f), Presented(i, q), HighestObject(i))
<1>1. /\ i.obj \in Objects
      /\ mCurrentMaxObjectId \in Objects
      /\ screen \in [Objects -> PastItems \cup {None}]
  BY DEF PastItems, Item, Types, TypeOK
<1>2. Append(cached, f) \in Seq(Item) /\ Len(Append(cached, f)) = 1
  BY AppendProperties
<1>3. Append(cached, f) # <<>>
  BY AppendProperties
<1>4. Presented(i, q) \in [Objects -> PastItems \cup {None}]
  BY <1>1 DEF Presented
<1>5. HighestObject(i) \in Objects
  BY <1>1, TemplatesAssumption DEF HighestObject
<1>6. ASSUME NEW o \in Objects, Presented(i, q)[o] # None
      PROVE  o <= HighestObject(i)
  <2>1. o \in Nat /\ i.obj \in Nat /\ mCurrentMaxObjectId \in Nat
    BY <1>1, TemplatesAssumption
  <2>2. CASE o = i.obj /\ i.data
    <3>1. ~HidesAll(i)
      BY <2>2 DEF HidesAll
    <3> QED
      BY <2>1, <2>2, <3>1 DEF HighestObject
  <2>3. CASE ~(o = i.obj /\ i.data)
    <3>1. screen[o] # None /\ ~(HidesAll(i) /\ o <= mCurrentMaxObjectId)
      BY <1>6, <2>3 DEF Presented
    <3>2. o <= mCurrentMaxObjectId
      BY <3>1 DEF HiddenCovers
    <3> QED
      BY <2>1, <3>1, <3>2 DEF HighestObject
  <2> QED
    BY <2>2, <2>3
<1> QED
  BY <1>2, <1>3, <1>4, <1>5, <1>6 DEF ShowingOK

\* During a check the lists and the screen are as the invariant wants them.
LEMMA CheckingShowing ==
  ASSUME Inv, looper = "checking"
  PROVE  ShowingOK(mEmittedFaddingSpu, screen, mCurrentMaxObjectId)
BY DEF Inv, Types, TypeOK, HiddenCovers, Keeper, ShowingOK

LEMMA CheckShowing ==
  ASSUME Inv, check
  PROVE  /\ ShowingOK(mEmittedFaddingSpu', screen', mCurrentMaxObjectId')
         /\ delayed' \in BOOLEAN
         /\ mEmittedShowingSpu' \subseteq PastItems
<1>1. looper = "checking"
  BY DEF check
<1>2. /\ ShowingOK(mEmittedFaddingSpu, screen, mCurrentMaxObjectId)
      /\ Types /\ TypeOK /\ HiddenCovers
  BY <1>1, CheckingShowing DEF Inv, Types
<1>3. Collected \subseteq PastItems
  BY <1>2, CollectedType
<1>4. CASE nothingQueued
  BY <1>2, <1>4, FadeShowing DEF nothingQueued
<1>5. CASE allOutOfDate
  <2>1. /\ mEmittedFaddingSpu' = mEmittedFaddingSpu /\ screen' = screen
        /\ mCurrentMaxObjectId' = mCurrentMaxObjectId /\ delayed' = delayed
        /\ mEmittedShowingSpu' = {}
    BY <1>5 DEF allOutOfDate, renderVars
  <2>2. delayed \in BOOLEAN
    BY <1>2 DEF TypeOK
  <2> QED
    BY <1>2, <2>1, <2>2
<1>6. ASSUME NEW front \in Collected, notYetDue(front) \/ show(front)
      PROVE  /\ ShowingOK(mEmittedFaddingSpu', screen', mCurrentMaxObjectId')
             /\ delayed' \in BOOLEAN
             /\ mEmittedShowingSpu' \subseteq PastItems
  <2> DEFINE spu == Prepared(front)
             queue == Behind(spu, UpToDate(Collected))
             cached == IF mEmittedFaddingSpu = <<>> THEN <<>> ELSE Tail(mEmittedFaddingSpu)
  <2>1. front \in PastItems /\ front \in Item
    BY <1>3 DEF PastItems
  <2>2. SameBut(spu, front)
    BY <1>2, <2>1, ClockType, PreparedType
  <2>3. spu \in PastItems /\ spu \in Item
    BY <2>1, <2>2, SameButPast DEF PastItems
  <2>4. UpToDate(Collected) \subseteq PastItems
    BY <1>3 DEF UpToDate
  <2> HIDE DEF spu
  <2>5. CASE notYetDue(front)
    <3>1. mEmittedShowingSpu' = {IF i = front THEN spu ELSE i : i \in UpToDate(Collected)}
      BY <2>5 DEF notYetDue, spu
    <3>2. mEmittedShowingSpu' \subseteq PastItems
      BY <2>3, <2>4, <3>1
    <3>3. Fade(mEmittedFaddingSpu, screen, mCurrentMaxObjectId, TRUE)
      BY <2>5 DEF notYetDue
    <3> QED
      BY <1>2, <3>2, <3>3, FadeShowing
  <2>6. CASE show(front)
    <3>1. mEmittedShowingSpu' = queue
      BY <2>6 DEF show, spu
    <3>2. queue \subseteq PastItems
      BY <2>4 DEF Behind, Others
    <3>3. cached \in Seq(Item) /\ Len(cached) = 0
      <4>1. mEmittedFaddingSpu \in Seq(Item) /\ Len(mEmittedFaddingSpu) <= 1
        BY <1>2 DEF TypeOK
      <4>2. CASE mEmittedFaddingSpu = <<>>
        BY <4>1, <4>2, EmptySeq
      <4>3. CASE mEmittedFaddingSpu # <<>>
        <5>1. Len(mEmittedFaddingSpu) \in Nat \ {0}
          BY <4>1, <4>3, EmptySeq
        <5>2. cached \in Seq(Item) /\ Len(cached) = Len(mEmittedFaddingSpu) - 1
          BY <4>1, <4>3, HeadAndTail
        <5> QED
          BY <4>1, <5>1, <5>2
      <4> QED
        BY <4>2, <4>3
    <3>4. WithFadingTime(spu) \in Item
      BY <1>2, <2>3, ClockType, FadingTimeType DEF SameBut
    <3>5. Fade(Append(cached, WithFadingTime(spu)), Presented(spu, queue), HighestObject(spu), FALSE)
      BY <2>6 DEF show, spu
    <3> HIDE DEF cached, queue
    <3>6. ShowingOK(Append(cached, WithFadingTime(spu)), Presented(spu, queue), HighestObject(spu))
      BY <1>2, <2>3, <3>3, <3>4, PresentedShowing
    <3>7. ShowingOK(mEmittedFaddingSpu', screen', mCurrentMaxObjectId') /\ delayed' \in BOOLEAN
      BY <3>5, <3>6, FadeShowing
    <3> QED
      BY <3>1, <3>2, <3>7
  <2> QED
    BY <1>6, <2>5, <2>6
<1> QED
  BY <1>4, <1>5, <1>6 DEF check

-----------------------------------------------------------------------------
(* The invariant is inductive.                                             *)

LEMMA InvInit == Init => Inv
<1> SUFFICES ASSUME Init PROVE Inv
  OBVIOUS
<1> USE BoundsAssumption, TemplatesAssumption DEF Init
<1>1. /\ mDecodedSpu \in Seq(Item) /\ mDecodedSpu \in Seq(PastItems) /\ Len(mDecodedSpu) = 0
      /\ mEmittedFaddingSpu \in Seq(Item) /\ Len(mEmittedFaddingSpu) = 0
      /\ messages \in Seq({"CHECK", "RESET"})
  BY EmptySeq
<1>2. Types
  BY <1>1 DEF Types, TypeOK
<1>3. HiddenCovers /\ Fresh /\ Keeper /\ ExitOrder
  BY DEF HiddenCovers, Fresh, Keeper, ExitOrder
<1> QED
  BY <1>2, <1>3 DEF Inv

\* Steps of other threads than the looper's leave lists, screen and session alone.
Aside == UNCHANGED <<listVars, renderVars, session>>

LEMMA AsideKeeps ==
  ASSUME Inv, Aside
  PROVE  /\ PastItems' = PastItems
         /\ mEmittedShowingSpu' \subseteq PastItems'
         /\ screen' \in [Objects -> PastItems' \cup {None}]
         /\ HiddenCovers'
BY DEF Aside, Inv, Types, PastItems, HiddenCovers, listVars, renderVars

LEMMA ParserStep ==
  ASSUME Inv, addDecodedItem
  PROVE  Inv'
<1>1. Aside
  BY DEF addDecodedItem, Aside, lifeVars
<1>2. PICK t \in Templates : mDecodedSpu' = Append(Room(mDecodedSpu), NewItem(t))
  BY DEF addDecodedItem
<1>3. /\ mDecodedSpu \in Seq(PastItems) /\ Len(mDecodedSpu) <= MaxSpuItems
      /\ mDecodedSpu \in Seq(Item) /\ TypeOK /\ messages \in Messages
  BY DEF Inv, Types, TypeOK, Messages
<1>4. NewItem(t) \in PastItems /\ NewItem(t) \in Item
  BY <1>3, NewItemType DEF PastItems
<1>5. Room(mDecodedSpu) \in Seq(PastItems) /\ Room(mDecodedSpu) \in Seq(Item)
      /\ Len(Room(mDecodedSpu)) < MaxSpuItems
  BY <1>3, RoomType
<1>6. /\ mDecodedSpu' \in Seq(PastItems) /\ mDecodedSpu' \in Seq(Item)
      /\ Len(mDecodedSpu') = Len(Room(mDecodedSpu)) + 1
  BY <1>2, <1>4, <1>5, AppendProperties
<1>7. Len(mDecodedSpu') <= MaxSpuItems
  <2>1. Len(Room(mDecodedSpu)) \in Nat /\ MaxSpuItems \in Nat
    BY <1>5, LenProperties, BoundsAssumption
  <2> QED
    BY <1>5, <1>6, <2>1
<1>8. messages' \in Seq({"CHECK", "RESET"})
  BY <1>3, QueuedType DEF addDecodedItem, notifyMessage, Messages
<1>9. decoded' \in 0..MaxItems
  BY <1>3, BoundsAssumption DEF addDecodedItem, TypeOK
<1>10. Types'
  BY <1>1, <1>3, <1>6, <1>7, <1>8, <1>9, AsideKeeps
     DEF addDecodedItem, Types, TypeOK, clockVars, listVars, renderVars, lifeVars
<1>11. ExitOrder' /\ Fresh' /\ Keeper'
  BY DEF addDecodedItem, Inv, ExitOrder, Fresh, Keeper, listVars, renderVars, lifeVars
<1> QED
  BY <1>1, <1>10, <1>11, AsideKeeps DEF Inv

LEMMA PlayerStep ==
  ASSUME Inv, Player
  PROVE  Inv'
<1>1. Aside /\ now' \in Times \cup {0} /\ startTime' \in StartTimes \cup {0} /\ seeks' \in 0..MaxSeeks
  BY BoundsAssumption
     DEF Inv, Types, TypeOK, Player, syncCurrentPresentTime, notifyStartTimeStamp, Aside, lifeVars
<1>2. UNCHANGED <<parserVars, listVars, renderVars, lifeVars, messages, delayed, resets>>
  BY DEF Player, syncCurrentPresentTime, notifyStartTimeStamp
<1>3. Types'
  BY <1>1, <1>2, AsideKeeps DEF Inv, Types, TypeOK, parserVars, listVars, renderVars, lifeVars
<1>4. ExitOrder' /\ Fresh' /\ Keeper'
  BY <1>2 DEF Inv, ExitOrder, Fresh, Keeper, parserVars, listVars, renderVars, lifeVars
<1> QED
  BY <1>1, <1>3, <1>4, AsideKeeps DEF Inv

LEMMA EmptyQueue == \A S : <<>> \in Seq(S) /\ Len(<<>>) = 0
BY EmptySeq

LEMMA StartParserStep ==
  ASSUME Inv, startParser
  PROVE  Inv'
<1>1. /\ session \in Nat /\ session' = session + 1 /\ session' \in 0..MaxSessions
      /\ \A o \in Objects : screen[o] \in PastItems \cup {None}
  BY BoundsAssumption DEF Inv, Types, TypeOK, startParser
<1>2. PastItems \subseteq PastItems'
  BY <1>1 DEF PastItems, Item
<1>3. UNCHANGED <<decoded, looper, exiting, clockVars, listVars, renderVars, messages, delayed, resets>>
  BY DEF startParser
<1>4. mDecodedSpu' = <<>> /\ parsing' = TRUE /\ looper = "none"
  BY DEF startParser
<1>5. /\ mEmittedShowingSpu' \subseteq PastItems'
      /\ screen' \in [Objects -> PastItems' \cup {None}]
  BY <1>2, <1>3 DEF Inv, Types, listVars, renderVars
<1>6. TypeOK'
  BY <1>1, <1>3, <1>4, EmptyQueue, BoundsAssumption
     DEF Inv, Types, TypeOK, clockVars, listVars, renderVars
<1>7. Types'
  BY <1>4, <1>5, <1>6, EmptyQueue DEF Types
<1>8. ASSUME NEW o \in Objects, screen'[o] # None PROVE screen'[o].session < session'
  <2>1. screen[o] \in PastItems
    BY <1>1, <1>3, <1>8 DEF renderVars
  <2>2. screen[o].session \in Nat /\ screen[o].session <= session
    BY <2>1 DEF PastItems, Item
  <2> QED
    BY <1>1, <1>3, <2>2 DEF renderVars
<1>9. Fresh' /\ Keeper'
  BY <1>8 DEF Fresh, Keeper
<1>10. ExitOrder' /\ HiddenCovers'
  BY <1>3, <1>4 DEF Inv, ExitOrder, HiddenCovers, renderVars
<1> QED
  BY <1>7, <1>9, <1>10 DEF Inv

LEMMA RunThreadStep ==
  ASSUME Inv, startPresent \/ stopParser \/ stopPresent \/ resetForSeek
  PROVE  Inv'
<1>1. Aside /\ UNCHANGED <<decoded, clockVars, session>>
  BY DEF startPresent, stopParser, stopPresent, resetForSeek, Aside, lifeVars, parserVars
<1>2. messages' \in Seq({"CHECK", "RESET"})
  <2>1. messages \in Messages
    BY DEF Inv, Types, TypeOK, Messages
  <2> QED
    BY <2>1, QueuedType, WithoutChecksType
       DEF startPresent, stopParser, stopPresent, resetForSeek, notifyMessage, Messages
<1>3. /\ mDecodedSpu' \in Seq(Item) /\ mDecodedSpu' \in Seq(PastItems)
      /\ Len(mDecodedSpu') <= MaxSpuItems
  <2>1. mDecodedSpu' = mDecodedSpu \/ mDecodedSpu' = <<>>
    BY DEF startPresent, stopParser, stopPresent, resetForSeek, parserVars
  <2>2. /\ mDecodedSpu \in Seq(Item) /\ mDecodedSpu \in Seq(PastItems)
        /\ Len(mDecodedSpu) <= MaxSpuItems
    BY DEF Inv, Types, TypeOK
  <2>3. CASE mDecodedSpu' = mDecodedSpu
    BY <2>2, <2>3
  <2>4. CASE mDecodedSpu' = <<>>
    BY <2>4, EmptyQueue, BoundsAssumption
  <2> QED
    BY <2>1, <2>3, <2>4
<1>4. /\ parsing' \in BOOLEAN /\ exiting' \in BOOLEAN /\ delayed' \in BOOLEAN
      /\ looper' \in {"none", "starting", "idle", "checking"}
      /\ resets' \in 0..MaxResets
  <2>1. /\ parsing \in BOOLEAN /\ exiting \in BOOLEAN /\ delayed \in BOOLEAN
        /\ looper \in {"none", "starting", "idle", "checking"}
        /\ resets \in 0..MaxResets
    BY DEF Inv, Types, TypeOK
  <2>2. CASE startPresent
    BY <2>1, <2>2 DEF startPresent, parserVars
  <2>3. CASE stopParser
    BY <2>1, <2>3 DEF stopParser, lifeVars
  <2>4. CASE stopPresent
    BY <2>1, <2>4 DEF stopPresent, parserVars
  <2>5. CASE resetForSeek
    <3>1. resets' = resets + 1 /\ resets < MaxResets
      BY <2>5 DEF resetForSeek
    <3>2. resets' \in 0..MaxResets
      BY <2>1, <3>1, BoundsAssumption
    <3> QED
      BY <2>1, <2>5, <3>2 DEF resetForSeek, parserVars, lifeVars
  <2> QED
    BY <2>2, <2>3, <2>4, <2>5
<1>5. Types'
  BY <1>1, <1>2, <1>3, <1>4, AsideKeeps DEF Inv, Types, TypeOK, Aside, clockVars, listVars, renderVars
<1>6. ExitOrder'
  BY DEF Inv, ExitOrder, startPresent, stopParser, stopPresent, resetForSeek, lifeVars, parserVars
<1>7. Fresh' /\ Keeper'
  BY <1>1 DEF Inv, Fresh, Keeper, Aside, startPresent, stopParser, stopPresent, resetForSeek,
              lifeVars, parserVars, listVars, renderVars
<1> QED
  BY <1>1, <1>5, <1>6, <1>7, AsideKeeps DEF Inv

LEMMA IdleLooperStep ==
  ASSUME Inv, looperExit \/ waitForVideo \/ beginCheck
  PROVE  Inv'
<1>1. Aside /\ UNCHANGED <<parserVars, clockVars, exiting, resets>>
  BY DEF looperExit, waitForVideo, beginCheck, Aside, lifeVars
<1>2. messages' \in Seq({"CHECK", "RESET"})
  <2>1. messages \in Messages
    BY DEF Inv, Types, TypeOK, Messages
  <2>2. messages # <<>> => Tail(messages) \in Messages
    BY <2>1, HeadAndTail DEF Messages
  <2> QED
    BY <2>1, <2>2, WithoutChecksType, EmptyQueue DEF looperExit, waitForVideo, beginCheck, Messages
<1>3. delayed' \in BOOLEAN /\ looper' \in {"none", "starting", "idle", "checking"}
  BY DEF looperExit, waitForVideo, beginCheck, Inv, Types, TypeOK, lifeVars
<1>4. Types'
  BY <1>1, <1>2, <1>3, AsideKeeps
     DEF Inv, Types, TypeOK, Aside, parserVars, clockVars, listVars, renderVars
<1>5. ExitOrder' /\ Fresh' /\ Keeper'
  BY <1>1 DEF Inv, ExitOrder, Fresh, Keeper, Aside, looperExit, waitForVideo, beginCheck,
              lifeVars, parserVars, listVars, renderVars
<1> QED
  BY <1>1, <1>4, <1>5, AsideKeeps DEF Inv

LEMMA LooperLoopStep ==
  ASSUME Inv, looperLoop
  PROVE  Inv'
<1>1. UNCHANGED <<exiting, session, parserVars, clockVars, renderVars, messages, resets>>
  BY DEF looperLoop
<1>2. /\ looper = "starting" /\ looper' = "idle" /\ delayed' = TRUE
      /\ mEmittedShowingSpu' = {} /\ mEmittedFaddingSpu' = <<>>
  BY DEF looperLoop, ForgetLists
<1>3. PastItems' = PastItems
  BY <1>1 DEF PastItems
<1>4. Types'
  BY <1>1, <1>2, <1>3, EmptyQueue DEF Inv, Types, TypeOK, parserVars, clockVars, renderVars
<1>5. ExitOrder' /\ Fresh' /\ Keeper' /\ HiddenCovers'
  BY <1>1, <1>2 DEF Inv, ExitOrder, Fresh, Keeper, HiddenCovers, parserVars, renderVars
<1> QED
  BY <1>4, <1>5 DEF Inv

LEMMA ResetStep ==
  ASSUME Inv, handleReset
  PROVE  Inv'
<1>1. UNCHANGED <<shown, parserVars, clockVars, lifeVars, delayed, resets>>
  BY DEF handleReset
<1>2. /\ looper = "idle" /\ mEmittedShowingSpu' = {} /\ mEmittedFaddingSpu' = <<>>
      /\ messages' = Tail(messages) /\ messages # <<>>
      /\ mCurrentMaxObjectId' = 0 /\ screen' = HideUpTo(mCurrentMaxObjectId, screen)
  BY DEF handleReset, NextIs
<1>3. PastItems' = PastItems /\ session' = session
  BY <1>1 DEF PastItems, lifeVars
<1>4. messages' \in Seq({"CHECK", "RESET"})
  BY <1>2, HeadAndTail DEF Inv, Types, TypeOK
<1>5. /\ screen' \in [Objects -> PastItems \cup {None}]
      /\ \A o \in Objects : screen'[o] = None
  BY <1>2, HiddenAll DEF Inv, Types, TypeOK, HiddenCovers
<1>6. screen' \in [Objects -> Item \cup {None}]
  BY <1>5 DEF PastItems
<1>7. Types'
  BY <1>1, <1>2, <1>3, <1>4, <1>5, <1>6, EmptyQueue, TemplatesAssumption
     DEF Inv, Types, TypeOK, parserVars, clockVars, lifeVars
<1>8. ExitOrder' /\ Fresh' /\ Keeper' /\ HiddenCovers'
  BY <1>1, <1>5 DEF Inv, ExitOrder, Fresh, Keeper, HiddenCovers, parserVars, lifeVars
<1> QED
  BY <1>7, <1>8 DEF Inv

LEMMA CheckStep ==
  ASSUME Inv, check
  PROVE  Inv'
<1>1. UNCHANGED <<parsing, decoded, clockVars, exiting, session, messages, resets>>
  BY DEF check
<1>2. /\ ShowingOK(mEmittedFaddingSpu', screen', mCurrentMaxObjectId')
      /\ delayed' \in BOOLEAN
      /\ mEmittedShowingSpu' \subseteq PastItems
  BY CheckShowing
<1>3. looper' = "idle" /\ looper = "checking"
  BY DEF check
<1>4. PastItems' = PastItems
  BY <1>1 DEF PastItems
<1>5. /\ mDecodedSpu' \in Seq(Item) /\ mDecodedSpu' \in Seq(PastItems)
      /\ Len(mDecodedSpu') <= MaxSpuItems
  <2>1. /\ mDecodedSpu \in Seq(Item) /\ mDecodedSpu \in Seq(PastItems)
        /\ Len(mDecodedSpu) <= MaxSpuItems
    BY DEF Inv, Types, TypeOK
  <2>2. CASE mDecodedSpu = <<>>
    BY <2>1, <2>2 DEF check
  <2>3. CASE mDecodedSpu # <<>>
    <3>1. mDecodedSpu' = Tail(mDecodedSpu)
      BY <2>3 DEF check
    <3>2. /\ Tail(mDecodedSpu) \in Seq(Item) /\ Tail(mDecodedSpu) \in Seq(PastItems)
          /\ Len(Tail(mDecodedSpu)) = Len(mDecodedSpu) - 1
      BY <2>1, <2>3, HeadAndTail
    <3>3. Len(mDecodedSpu) \in Nat /\ MaxSpuItems \in Nat
      BY <2>1, LenProperties, BoundsAssumption
    <3> QED
      BY <2>1, <3>1, <3>2, <3>3
  <2> QED
    BY <2>2, <2>3
<1>6. /\ mEmittedShowingSpu' \subseteq Item
      /\ screen' \in [Objects -> PastItems \cup {None}]
      /\ screen' \in [Objects -> Item \cup {None}]
  BY <1>2 DEF ShowingOK, PastItems
<1>7. TypeOK'
  BY <1>1, <1>2, <1>3, <1>5, <1>6 DEF Inv, Types, TypeOK, ShowingOK, clockVars
<1>8. Types'
  BY <1>2, <1>4, <1>5, <1>6, <1>7 DEF Types
<1>9. HiddenCovers' /\ Keeper' /\ Fresh'
  BY <1>1, <1>2, <1>3 DEF ShowingOK, HiddenCovers, Keeper, Fresh
<1>10. ExitOrder'
  BY <1>1, <1>3 DEF Inv, ExitOrder
<1> QED
  BY <1>8, <1>9, <1>10 DEF Inv

LEMMA InvStep == Inv /\ [Next]_vars => Inv'
<1> SUFFICES ASSUME Inv, [Next]_vars PROVE Inv'
  OBVIOUS
<1>1. CASE addDecodedItem
  BY <1>1, ParserStep
<1>2. CASE Player
  BY <1>2, PlayerStep
<1>3. CASE RunThread \/ resetForSeek
  BY <1>3, StartParserStep, RunThreadStep DEF RunThread
<1>4. CASE Looper
  BY <1>4, LooperLoopStep, IdleLooperStep, ResetStep, CheckStep DEF Looper
<1>5. CASE UNCHANGED vars
  <2>1. Aside /\ UNCHANGED <<parserVars, clockVars, lifeVars, messages, delayed, resets>>
    BY <1>5 DEF vars, Aside, lifeVars
  <2>2. Types'
    BY <2>1, AsideKeeps DEF Inv, Types, TypeOK, Aside, parserVars, clockVars, listVars, renderVars, lifeVars
  <2>3. ExitOrder' /\ Fresh' /\ Keeper'
    BY <2>1 DEF Inv, ExitOrder, Fresh, Keeper, Aside, parserVars, listVars, renderVars, lifeVars
  <2> QED
    BY <2>1, <2>2, <2>3, AsideKeeps DEF Inv
<1> QED
  BY <1>1, <1>2, <1>3, <1>4, <1>5 DEF Next

\* The inductive invariant holds in every reachable state.
THEOREM Invariance == Spec => []Inv
<1> QED
  BY InvInit, InvStep, PTL DEF Spec

\* The variables have their types: the bounds of the queues and of the list of shown
\* items hold for any items and any capacity (Parser.h:187-196, Presentation.cpp:899-905).
THEOREM TypeCorrect == Spec => []TypeOK
<1>1. Inv => TypeOK
  BY DEF Inv, Types
<1> QED
  BY <1>1, Invariance, PTL

\* Hiding everything covers what is shown (AndroidHidlRemoteRender.cpp:66-79 and 111).
THEOREM HideCovers == Spec => []HiddenCovers
<1>1. Inv => HiddenCovers
  BY DEF Inv
<1> QED
  BY <1>1, Invariance, PTL

\* A picture of the running session is never without an item that takes it down
\* (Presentation.cpp:899-905 and 928-990).
THEOREM PictureKept == Spec => []ScreenHasKeeper
<1>1. Inv => ScreenHasKeeper
  BY KeeperImpliesScreenHasKeeper DEF Inv
<1> QED
  BY <1>1, Invariance, PTL

-----------------------------------------------------------------------------
(* The numbers of the items: what is in the decoded queue is younger than   *)
(* whatever was taken over from it, and nothing is in the list twice or     *)
(* still in the list when it has been shown.                                *)

\* The items of q are numbered in order, above all of past and up to last.
Numbered(q, past, last) ==
    /\ \A k \in 1..Len(q) : q[k].id <= last /\ \A n \in past : n < q[k].id
    /\ \A j, k \in 1..Len(q) : j < k => q[j].id < q[k].id

\* The numbers of the items taken over so far, as far as they are remembered.
Taken == {i.id : i \in mEmittedShowingSpu} \cup shown

Ids == /\ Numbered(mDecodedSpu, Taken, decoded)
       /\ \A n \in Taken : n \in Nat /\ n <= decoded
       /\ \A i \in mEmittedShowingSpu : i.id \notin shown
       /\ \A i, j \in mEmittedShowingSpu : i.id = j.id => i = j

\* The last items of q, in order.
LastOf(r, q) == \E d \in Nat : Len(r) + d <= Len(q) /\ \A k \in 1..Len(r) : r[k] = q[k + d]

LEMMA NumberedLast ==
  ASSUME NEW q \in Seq(Item), NEW r \in Seq(Item), LastOf(r, q),
         NEW past, NEW last, Numbered(q, past, last)
  PROVE  Numbered(r, past, last)
<1>1. PICK d \in Nat : Len(r) + d <= Len(q) /\ \A k \in 1..Len(r) : r[k] = q[k + d]
  BY DEF LastOf
<1>2. Len(r) \in Nat /\ Len(q) \in Nat
  BY LenProperties
<1>3. \A k \in 1..Len(r) : k + d \in 1..Len(q)
  BY <1>1, <1>2
<1>4. \A j, k \in 1..Len(r) : j < k => j + d < k + d
  BY <1>2
<1> QED
  BY <1>1, <1>3, <1>4 DEF Numbered

LEMMA RoomLast ==
  ASSUME NEW q \in Seq(Item), Len(q) <= MaxSpuItems
  PROVE  LastOf(Room(q), q)
<1>1. Len(q) \in Nat /\ MaxSpuItems \in Nat \ {0}
  BY LenProperties, BoundsAssumption
<1>2. CASE Len(q) < MaxSpuItems
  <2>1. Room(q) = q /\ 0 \in Nat /\ Len(q) + 0 <= Len(q)
    BY <1>1, <1>2 DEF Room
  <2>2. \A k \in 1..Len(q) : q[k] = q[k + 0]
    BY <1>1
  <2> QED
    BY <2>1, <2>2 DEF LastOf
<1>3. CASE Len(q) = MaxSpuItems
  <2>1. Room(q) = SubSeq(q, 2, Len(q))
    BY <1>1, <1>3 DEF Room
  <2>2. Len(SubSeq(q, 2, Len(q))) = Len(q) - 1
    BY <1>1, <1>3, SubSeqProperties
  <2>3. \A k \in 1..(Len(q) - 1) : SubSeq(q, 2, Len(q))[k] = q[k + 1]
    BY <1>1, <1>3, SubSeqProperties
  <2>4. Len(Room(q)) + 1 <= Len(q) /\ \A k \in 1..Len(Room(q)) : Room(q)[k] = q[k + 1]
    BY <1>1, <2>1, <2>2, <2>3
  <2> QED
    BY <2>4 DEF LastOf
<1> QED
  BY <1>1, <1>2, <1>3

LEMMA TailLast ==
  ASSUME NEW q \in Seq(Item), q # <<>>
  PROVE  /\ LastOf(Tail(q), q)
         /\ \A k \in 1..Len(Tail(q)) : Tail(q)[k] = q[k + 1]
         /\ Head(q) = q[1] /\ 1 \in 1..Len(q)
<1>1. Len(q) \in Nat \ {0}
  BY LenProperties, EmptySeq
<1>2. Len(Tail(q)) = Len(q) - 1 /\ Head(q) = q[1]
  BY HeadTailProperties
<1>3. \A k \in 1..Len(Tail(q)) : Tail(q)[k] = q[k + 1]
  BY HeadTailProperties
<1>4. Len(Tail(q)) + 1 <= Len(q) /\ 1 \in 1..Len(q)
  BY <1>1, <1>2
<1> QED
  BY <1>2, <1>3, <1>4 DEF LastOf

LEMMA NumberedAppend ==
  ASSUME NEW q \in Seq(Item), NEW i \in Item, NEW past \in SUBSET Nat, NEW last \in Nat,
         Numbered(q, past, last), i.id = last + 1, \A n \in past : n <= last
  PROVE  Numbered(Append(q, i), past, last + 1)
<1> DEFINE r == Append(q, i)
<1>1. Len(q) \in Nat /\ Len(r) = Len(q) + 1
  BY LenProperties, AppendProperties
<1>2. \A k \in 1..Len(q) : r[k] = q[k] /\ q[k] \in Item
  BY AppendProperties, ElementOfSeq
<1>3. r[Len(q) + 1] = i
  BY AppendProperties
<1> HIDE DEF r
<1>4. ASSUME NEW k \in 1..Len(r) PROVE r[k].id <= last + 1 /\ \A n \in past : n < r[k].id
  <2>1. CASE k \in 1..Len(q)
    <3>1. q[k].id \in Nat
      BY <1>2, <2>1 DEF Item
    <3> QED
      BY <1>2, <2>1, <3>1 DEF Numbered
  <2>2. CASE k = Len(q) + 1
    BY <1>3, <2>2
  <2> QED
    BY <1>1, <2>1, <2>2
<1>5. ASSUME NEW j \in 1..Len(r), NEW k \in 1..Len(r), j < k PROVE r[j].id < r[k].id
  <2>1. j \in 1..Len(q)
    BY <1>1, <1>5
  <2>2. q[j].id \in Nat
    BY <1>2, <2>1 DEF Item
  <2>3. CASE k \in 1..Len(q)
    BY <1>2, <1>5, <2>1, <2>3 DEF Numbered
  <2>4. CASE k = Len(q) + 1
    BY <1>2, <1>3, <2>1, <2>2, <2>4 DEF Numbered
  <2> QED
    BY <1>1, <2>3, <2>4
<1> QED
  BY <1>4, <1>5 DEF Numbered, r

LEMMA NumberedNone == \A past, last : Numbered(<<>>, past, last)
BY EmptyQueue DEF Numbered

\* What a check has before it: the list and, if there is one, the item taken over.
LEMMA CollectedFrom ==
  ASSUME NEW c \in Collected
  PROVE  \/ c \in mEmittedShowingSpu
         \/ mDecodedSpu # <<>> /\ c = Believed(Head(mDecodedSpu))
<1>1. CASE mDecodedSpu = <<>>
  BY <1>1 DEF Collected
<1>2. CASE mDecodedSpu # <<>>
  <2> DEFINE i == Believed(Head(mDecodedSpu))
             q == mEmittedShowingSpu \cup (IF Admitted(i) THEN {i} ELSE {})
  <2>1. Collected = WithinMemory(q, i.size)
    BY <1>2 DEF Collected
  <2> HIDE DEF q
  <2>2. c \in q
    BY <2>1 DEF WithinMemory
  <2> QED
    BY <1>2, <2>2 DEF q
<1> QED
  BY <1>1, <1>2

LEMMA HeadIds ==
  ASSUME Inv, Ids, mDecodedSpu # <<>>
  PROVE  /\ Head(mDecodedSpu) \in Item /\ SameBut(Believed(Head(mDecodedSpu)), Head(mDecodedSpu))
         /\ Head(mDecodedSpu).id <= decoded
         /\ \A n \in Taken : n < Head(mDecodedSpu).id
         /\ Numbered(Tail(mDecodedSpu), Taken \cup {Head(mDecodedSpu).id}, decoded)
<1>1. mDecodedSpu \in Seq(Item) /\ TypeOK
  BY DEF Inv, Types, TypeOK
<1>2. Head(mDecodedSpu) \in Item /\ Tail(mDecodedSpu) \in Seq(Item)
  BY <1>1, HeadAndTail
<1>3. SameBut(Believed(Head(mDecodedSpu)), Head(mDecodedSpu))
  BY <1>1, <1>2, ClockType, BelievedType
<1>4. /\ Head(mDecodedSpu) = mDecodedSpu[1] /\ 1 \in 1..Len(mDecodedSpu)
      /\ LastOf(Tail(mDecodedSpu), mDecodedSpu)
      /\ \A k \in 1..Len(Tail(mDecodedSpu)) : Tail(mDecodedSpu)[k] = mDecodedSpu[k + 1]
  BY <1>1, TailLast
<1>5. Head(mDecodedSpu).id <= decoded /\ \A n \in Taken : n < Head(mDecodedSpu).id
  BY <1>4 DEF Ids, Numbered
<1>6. Numbered(Tail(mDecodedSpu), Taken, decoded)
  BY <1>1, <1>2, <1>4, NumberedLast DEF Ids
<1>7. ASSUME NEW k \in 1..Len(Tail(mDecodedSpu))
      PROVE  Head(mDecodedSpu).id < Tail(mDecodedSpu)[k].id
  <2>1. Len(Tail(mDecodedSpu)) = Len(mDecodedSpu) - 1 /\ Len(mDecodedSpu) \in Nat
    BY <1>1, HeadAndTail, LenProperties
  <2>2. k + 1 \in 1..Len(mDecodedSpu) /\ 1 < k + 1
    BY <2>1
  <2> QED
    BY <1>4, <2>2 DEF Ids, Numbered
<1>8. Numbered(Tail(mDecodedSpu), Taken \cup {Head(mDecodedSpu).id}, decoded)
  BY <1>6, <1>7 DEF Numbered
<1> QED
  BY <1>2, <1>3, <1>5, <1>8

LEMMA CollectedIds ==
  ASSUME Inv, Ids
  PROVE  /\ Collected \subseteq Item
         /\ \A c \in Collected : c.id \notin shown
         /\ \A c \in Collected :
               c.id \in Taken \/ (mDecodedSpu # <<>> /\ c.id = Head(mDecodedSpu).id)
         /\ \A c, d \in Collected : c.id = d.id => c = d
<1>1. Collected \subseteq Item
  BY CollectedType DEF Inv, PastItems
<1>2. ASSUME NEW c \in Collected, c \notin mEmittedShowingSpu
      PROVE  /\ mDecodedSpu # <<>> /\ c = Believed(Head(mDecodedSpu))
             /\ c.id = Head(mDecodedSpu).id /\ c.id \notin Taken /\ c.id \in Nat
  <2>1. mDecodedSpu # <<>> /\ c = Believed(Head(mDecodedSpu))
    BY <1>2, CollectedFrom
  <2>2. c.id = Head(mDecodedSpu).id /\ \A n \in Taken : n < Head(mDecodedSpu).id
    BY <2>1, HeadIds DEF SameBut
  <2>3. c.id \in Nat
    BY <1>1 DEF Item
  <2>4. c.id \notin Taken
    BY <2>2, <2>3
  <2> QED
    BY <2>1, <2>2, <2>3, <2>4
<1>3. ASSUME NEW c \in Collected PROVE c.id \notin shown
  BY <1>2 DEF Ids, Taken
<1>4. ASSUME NEW c \in Collected, NEW d \in Collected, c.id = d.id PROVE c = d
  <2>1. \A e \in mEmittedShowingSpu : e.id \in Taken
    BY DEF Taken
  <2>2. CASE c \in mEmittedShowingSpu /\ d \in mEmittedShowingSpu
    BY <1>4, <2>2 DEF Ids
  <2>3. CASE c \notin mEmittedShowingSpu /\ d \notin mEmittedShowingSpu
    BY <1>2, <2>3
  <2> QED
    BY <1>2, <1>4, <2>1, <2>2, <2>3
<1>5. ASSUME NEW c \in Collected
      PROVE  c.id \in Taken \/ (mDecodedSpu # <<>> /\ c.id = Head(mDecodedSpu).id)
  BY <1>2 DEF Taken
<1> QED
  BY <1>1, <1>3, <1>4, <1>5

LEMMA IdsInit == Init => Ids
<1> SUFFICES ASSUME Init PROVE Ids
  OBVIOUS
<1>1. Taken = {}
  BY DEF Init, Taken
<1> QED
  BY <1>1, NumberedNone DEF Init, Ids

\* Queue and list stay as they are or are emptied.
LEMMA IdsKept ==
  ASSUME Ids, UNCHANGED <<shown, decoded>>,
         mDecodedSpu' = mDecodedSpu \/ mDecodedSpu' = <<>>,
         mEmittedShowingSpu' = mEmittedShowingSpu \/ mEmittedShowingSpu' = {}
  PROVE  Ids'
<1>1. Taken' \subseteq Taken
  BY DEF Taken
<1>2. Numbered(mDecodedSpu', Taken', decoded')
  <2>1. CASE mDecodedSpu' = <<>>
    BY <2>1, NumberedNone
  <2>2. CASE mDecodedSpu' = mDecodedSpu
    BY <1>1, <2>2 DEF Ids, Numbered
  <2> QED
    BY <2>1, <2>2
<1>3. \A n \in Taken' : n \in Nat /\ n <= decoded'
  BY <1>1 DEF Ids
<1>4. /\ \A i \in mEmittedShowingSpu' : i.id \notin shown'
      /\ \A i, j \in mEmittedShowingSpu' : i.id = j.id => i = j
  BY DEF Ids
<1> QED
  BY <1>2, <1>3, <1>4 DEF Ids

LEMMA IdsDecoded ==
  ASSUME Inv, Ids, addDecodedItem
  PROVE  Ids'
<1>1. UNCHANGED <<shown, mEmittedShowingSpu>> /\ decoded' = decoded + 1
  BY DEF addDecodedItem, listVars, renderVars
<1>2. Taken' = Taken
  BY <1>1 DEF Taken
<1>3. PICK t \in Templates : mDecodedSpu' = Append(Room(mDecodedSpu), NewItem(t))
  BY DEF addDecodedItem
<1>4. TypeOK /\ mDecodedSpu \in Seq(Item) /\ Len(mDecodedSpu) <= MaxSpuItems /\ decoded \in Nat
  BY BoundsAssumption DEF Inv, Types, TypeOK
<1>5. Room(mDecodedSpu) \in Seq(Item) /\ LastOf(Room(mDecodedSpu), mDecodedSpu)
  BY <1>4, RoomType, RoomLast
<1>6. NewItem(t) \in Item /\ NewItem(t).id = decoded + 1
  BY <1>4, NewItemType DEF PastItems, NewItem
<1>7. Taken \in SUBSET Nat /\ \A n \in Taken : n <= decoded
  BY DEF Ids
<1>8. Numbered(Room(mDecodedSpu), Taken, decoded)
  BY <1>4, <1>5, NumberedLast DEF Ids
<1>9. Numbered(mDecodedSpu', Taken', decoded')
  BY <1>1, <1>2, <1>3, <1>4, <1>5, <1>6, <1>7, <1>8, NumberedAppend
<1>10. \A n \in Taken' : n \in Nat /\ n <= decoded'
  BY <1>1, <1>2, <1>4, <1>7
<1> QED
  BY <1>1, <1>9, <1>10 DEF Ids

\* What a check does with the front of the list.
LEMMA FrontIds ==
  ASSUME Inv, Ids, NEW front \in Collected, notYetDue(front) \/ show(front)
  PROVE  /\ SameBut(Prepared(front), front)
         /\ shown' \subseteq shown \cup {front.id}
         /\ \A j \in mEmittedShowingSpu' :
               /\ j.id \notin shown'
               /\ \E c \in Collected : j.id = c.id
         /\ \A j, k \in mEmittedShowingSpu' : j.id = k.id => j = k
<1> DEFINE spu == Prepared(front)
<1>1. TypeOK /\ front \in Item
  BY CollectedIds DEF Inv, Types
<1>2. SameBut(spu, front)
  BY <1>1, ClockType, PreparedType
<1>3. spu.id = front.id
  BY <1>2 DEF SameBut
<1>4. UpToDate(Collected) \subseteq Collected
  BY DEF UpToDate
<1> HIDE DEF spu
<1>5. CASE notYetDue(front)
  <2>1. /\ mEmittedShowingSpu' = {IF i = front THEN spu ELSE i : i \in UpToDate(Collected)}
        /\ shown' = shown
    BY <1>5 DEF notYetDue, spu
  <2>2. \A j \in mEmittedShowingSpu' : \E c \in Collected :
            j.id = c.id /\ j = IF c = front THEN spu ELSE c
    BY <1>3, <1>4, <2>1
  <2>3. \A j \in mEmittedShowingSpu' : j.id \notin shown'
    BY <2>1, <2>2, CollectedIds
  <2>4. \A j, k \in mEmittedShowingSpu' : j.id = k.id => j = k
    BY <2>2, CollectedIds
  <2> QED
    BY <1>2, <2>1, <2>2, <2>3, <2>4 DEF spu
<1>6. CASE show(front)
  <2>1. /\ mEmittedShowingSpu' = Behind(spu, UpToDate(Collected))
        /\ shown' = IF spu.data THEN shown \cup {spu.id} ELSE shown
    BY <1>6 DEF show, spu
  <2>2. \A j \in mEmittedShowingSpu' : j \in Collected /\ j.id # spu.id
    BY <1>4, <2>1 DEF Behind, Others
  <2>3. \A j \in mEmittedShowingSpu' : j.id \notin shown'
    BY <2>1, <2>2, CollectedIds
  <2>4. \A j, k \in mEmittedShowingSpu' : j.id = k.id => j = k
    BY <2>2, CollectedIds
  <2> QED
    BY <1>2, <1>3, <2>1, <2>2, <2>3, <2>4 DEF spu
<1> QED
  BY <1>5, <1>6

LEMMA IdsChecked ==
  ASSUME Inv, Ids, check
  PROVE  Ids'
<1> DEFINE over == IF mDecodedSpu = <<>> THEN {} ELSE {Head(mDecodedSpu).id}
<1>1. /\ decoded' = decoded
      /\ mDecodedSpu' = IF mDecodedSpu = <<>> THEN <<>> ELSE Tail(mDecodedSpu)
  BY DEF check
<1>2. Numbered(mDecodedSpu', Taken \cup over, decoded)
  <2>1. CASE mDecodedSpu = <<>>
    BY <1>1, <2>1, NumberedNone
  <2>2. CASE mDecodedSpu # <<>>
    BY <1>1, <2>2, HeadIds
  <2> QED
    BY <2>1, <2>2
<1>3. \A n \in Taken \cup over : n \in Nat /\ n <= decoded
  <2>1. ASSUME mDecodedSpu # <<>>
        PROVE  Head(mDecodedSpu).id \in Nat /\ Head(mDecodedSpu).id <= decoded
    BY <2>1, HeadIds DEF Item
  <2> QED
    BY <2>1 DEF Ids
<1>4. \A c \in Collected : c.id \in Taken \cup over
  BY CollectedIds
<1> HIDE DEF over
<1>5. /\ Taken' \subseteq Taken \cup over
      /\ \A j \in mEmittedShowingSpu' : j.id \notin shown'
      /\ \A j, k \in mEmittedShowingSpu' : j.id = k.id => j = k
  <2>1. CASE nothingQueued \/ allOutOfDate
    <3>1. mEmittedShowingSpu' = {} /\ shown' = shown
      BY <2>1 DEF nothingQueued, allOutOfDate, renderVars
    <3> QED
      BY <3>1 DEF Taken
  <2>2. ASSUME NEW front \in Collected, notYetDue(front) \/ show(front)
        PROVE  /\ Taken' \subseteq Taken \cup over
               /\ \A j \in mEmittedShowingSpu' : j.id \notin shown'
               /\ \A j, k \in mEmittedShowingSpu' : j.id = k.id => j = k
    <3>1. /\ shown' \subseteq shown \cup {front.id}
          /\ \A j \in mEmittedShowingSpu' : j.id \notin shown' /\ \E c \in Collected : j.id = c.id
          /\ \A j, k \in mEmittedShowingSpu' : j.id = k.id => j = k
      BY <2>2, FrontIds
    <3>2. shown \subseteq Taken
      BY DEF Taken
    <3>3. Taken' \subseteq Taken \cup over
      BY <1>4, <3>1, <3>2 DEF Taken
    <3> QED
      BY <3>1, <3>3
  <2> QED
    BY <2>1, <2>2 DEF check
<1>6. Numbered(mDecodedSpu', Taken', decoded')
  BY <1>1, <1>2, <1>5 DEF Numbered
<1> QED
  BY <1>1, <1>3, <1>5, <1>6 DEF Ids

\* Only a check sends something to the screen.
LEMMA OnlyChecksShow ==
  ASSUME Inv, [Next]_vars, ~check
  PROVE  /\ shown' = shown
         /\ \A o \in Objects : screen'[o] \in {screen[o], None}
<1>1. CASE handleReset
  <2>1. screen' = HideUpTo(mCurrentMaxObjectId, screen) /\ shown' = shown
    BY <1>1 DEF handleReset
  <2> QED
    BY <2>1 DEF HideUpTo
<1>2. CASE UNCHANGED renderVars
  BY <1>2 DEF renderVars
<1>3. handleReset \/ UNCHANGED renderVars
  BY DEF Next, vars, Player, RunThread, Looper, addDecodedItem, syncCurrentPresentTime,
         notifyStartTimeStamp, startParser, startPresent, stopParser, stopPresent,
         resetForSeek, looperLoop, looperExit, waitForVideo, beginCheck
<1> QED
  BY <1>1, <1>2, <1>3

LEMMA IdsStep == Inv /\ Ids /\ [Next]_vars => Ids'
<1> SUFFICES ASSUME Inv, Ids, [Next]_vars PROVE Ids'
  OBVIOUS
<1>1. CASE addDecodedItem
  BY <1>1, IdsDecoded
<1>2. CASE check
  BY <1>2, IdsChecked
<1>3. CASE ~addDecodedItem /\ ~check
  <2>1. shown' = shown
    BY <1>3, OnlyChecksShow
  <2>2. /\ decoded' = decoded
        /\ mDecodedSpu' = mDecodedSpu \/ mDecodedSpu' = <<>>
        /\ mEmittedShowingSpu' = mEmittedShowingSpu \/ mEmittedShowingSpu' = {}
    BY <1>3 DEF Next, vars, Player, RunThread, Looper, syncCurrentPresentTime,
                notifyStartTimeStamp, startParser, startPresent, stopParser, stopPresent,
                resetForSeek, looperLoop, looperExit, waitForVideo, beginCheck, handleReset,
                ForgetLists, parserVars, listVars
  <2> QED
    BY <2>1, <2>2, IdsKept
<1> QED
  BY <1>1, <1>2, <1>3

LEMMA Numbering == Spec => [](Inv /\ Ids)
<1>1. Init => Inv /\ Ids
  BY InvInit, IdsInit
<1>2. (Inv /\ Ids) /\ [Next]_vars => (Inv /\ Ids)'
  BY InvStep, IdsStep
<1> QED
  BY <1>1, <1>2, PTL DEF Spec

\* The fading part of a check puts nothing on the screen.
LEMMA FadeScreen ==
  ASSUME NEW fading, NEW scr, NEW top, NEW waiting, Fade(fading, scr, top, waiting),
         NEW o \in Objects, screen'[o] # None
  PROVE  screen'[o] = scr[o]
<1>1. screen' = scr \/ screen' = HideUpTo(top, scr)
  BY DEF Fade
<1> QED
  BY <1>1 DEF HideUpTo

LEMMA CheckScreen ==
  ASSUME Inv, check, NEW o \in Objects, screen'[o] \notin {screen[o], None}
  PROVE  \E front \in Collected : show(front) /\ screen'[o] = Prepared(front)
<1>1. CASE nothingQueued
  BY <1>1, FadeScreen DEF nothingQueued
<1>2. CASE allOutOfDate
  BY <1>2 DEF allOutOfDate, renderVars
<1>3. ASSUME NEW front \in Collected, notYetDue(front)
      PROVE  FALSE
  BY <1>3, FadeScreen DEF notYetDue
<1>4. ASSUME NEW front \in Collected, show(front)
      PROVE  screen'[o] = Prepared(front)
  <2> DEFINE spu == Prepared(front)
             queue == Behind(spu, UpToDate(Collected))
             cached == IF mEmittedFaddingSpu = <<>> THEN <<>> ELSE Tail(mEmittedFaddingSpu)
  <2>1. Fade(Append(cached, WithFadingTime(spu)), Presented(spu, queue), HighestObject(spu), FALSE)
    BY <1>4 DEF show
  <2> HIDE DEF spu, queue, cached
  <2>2. screen'[o] = Presented(spu, queue)[o]
    BY <2>1, FadeScreen
  <2>3. Presented(spu, queue)[o] \in {spu, None, screen[o]}
    BY DEF Presented
  <2> QED
    BY <2>2, <2>3 DEF spu
<1> QED
  BY <1>1, <1>2, <1>3, <1>4 DEF check

\* Whatever is decoded, however the video time jumps and however often the session is
\* started anew, no item is sent to the renderer a second time: the list and the queue
\* are never so changed that an item is in them twice or stays behind
\* (Presentation.cpp:711-890).
THEOREM ItemsShownOnce == Spec => ShownOnce
<1>1. ASSUME Inv, Ids, [Next]_vars, NEW o \in Objects, screen'[o] \notin {screen[o], None}
      PROVE  screen'[o].id \notin shown
  <2>1. check
    BY <1>1, OnlyChecksShow
  <2>2. PICK front \in Collected : show(front) /\ screen'[o] = Prepared(front)
    BY <1>1, <2>1, CheckScreen
  <2>3. SameBut(Prepared(front), front)
    BY <1>1, <2>2, FrontIds
  <2>4. front.id \notin shown
    BY <1>1, CollectedIds
  <2> QED
    BY <2>2, <2>3, <2>4 DEF SameBut
<1>2. Inv /\ Ids /\ [Next]_vars =>
        [\A o \in Objects : screen'[o] \notin {screen[o], None} => screen'[o].id \notin shown]_vars
  BY <1>1
<1> QED
  BY <1>2, Numbering, PTL DEF Spec, ShownOnce

-----------------------------------------------------------------------------
(* The time of an item.                                                     *)

\* The preparation of an item that has a time on the side of 2^32 ticks of the video.
LEMMA PreparedTime ==
  ASSUME NEW i \in Item, Timestamp \in Int, -1 <= Timestamp,
         ~i.imm, ~OtherBits(i), Due(Prepared(i))
  PROVE  i.pts <= Timestamp + Tolerance
<1>1. CASE i.pts = 0
  BY <1>1 DEF Tolerance
<1>2. CASE i.pts # 0
  <2>1. WithPts(i) = i
    BY <1>2 DEF WithPts
  <2>2. WithSameBits(WithPts(i)) = i
    BY <2>1 DEF WithSameBits
  <2>3. Prepared(i) = WithEnd(i)
    BY <2>2 DEF Prepared
  <2>4. WithEnd(i).pts = i.pts /\ ~WithEnd(i).imm
    <3>1. CASE i.end = 0
      <4>1. WithEnd(i) = Retimed(i, i.pts, i.pts + NoPtsDelay)
        BY <3>1 DEF WithEnd
      <4> QED
        BY <4>1 DEF Retimed, Item
    <3>2. CASE i.end # 0
      BY <3>2 DEF WithEnd
    <3> QED
      BY <3>1, <3>2
  <2>5. Prepared(i).pts <= Timestamp + Tolerance
    BY <2>3, <2>4 DEF Due
  <2> QED
    BY <2>3, <2>4, <2>5
<1> QED
  BY <1>1, <1>2

\* An item that waits and has the number of one the check takes up is that one.
LEMMA SameNumber ==
  ASSUME Inv, Ids, NEW i \in Waiting, Distance(i.pts, Timestamp) < FarAway,
         NEW front \in Collected, front.id = i.id
  PROVE  front = i
<1>1. /\ mDecodedSpu \in Seq(Item)
      /\ \A j \in mEmittedShowingSpu : j.id \in Taken
      /\ \A n \in Taken : n \in Nat
  BY DEF Inv, Types, TypeOK, Ids, Taken
<1>2. ASSUME NEW k \in 1..Len(mDecodedSpu)
      PROVE  mDecodedSpu[k].id \in Nat /\ \A n \in Taken : n < mDecodedSpu[k].id
  <2>1. mDecodedSpu[k] \in Item
    BY <1>1, ElementOfSeq
  <2> QED
    BY <2>1 DEF Ids, Numbered, Item
<1>3. i \in mEmittedShowingSpu \/ \E k \in 1..Len(mDecodedSpu) : i = mDecodedSpu[k]
  BY DEF Waiting, ToSet
<1>4. CASE front \in mEmittedShowingSpu
  <2>1. i \in mEmittedShowingSpu
    BY <1>1, <1>2, <1>3, <1>4
  <2> QED
    BY <1>4, <2>1 DEF Ids
<1>5. CASE mDecodedSpu # <<>> /\ front = Believed(Head(mDecodedSpu))
  <2>1. /\ Head(mDecodedSpu) = mDecodedSpu[1] /\ 1 \in 1..Len(mDecodedSpu)
        /\ front.id = Head(mDecodedSpu).id
    BY <1>1, <1>5, TailLast, HeadIds DEF SameBut
  <2>2. i.id \notin Taken
    BY <1>2, <2>1
  <2>3. PICK k \in 1..Len(mDecodedSpu) : i = mDecodedSpu[k]
    BY <1>1, <1>3, <2>2
  <2>4. k = 1
    <3>1. CASE 1 < k
      <4>1. mDecodedSpu[1].id < mDecodedSpu[k].id
        BY <2>1, <3>1 DEF Ids, Numbered
      <4>2. mDecodedSpu[1].id = mDecodedSpu[k].id
        BY <2>1, <2>3
      <4>3. mDecodedSpu[k].id \in Nat
        BY <1>2, <2>3
      <4> QED
        BY <4>1, <4>2, <4>3
    <3> QED
      BY <3>1
  <2>5. i = Head(mDecodedSpu)
    BY <2>1, <2>3, <2>4
  <2> QED
    BY <1>5, <2>5 DEF Believed
<1> QED
  BY <1>4, <1>5, CollectedFrom

\* A check shows what it found due, and so nothing that is early: whatever the decoder
\* gave and the time did before, no item with a time of its own is shown before it
\* (Presentation.cpp:807-836).  What is due beyond 2^32 ticks is excepted.
THEOREM NeverEarly == Spec => NotBeforeItsTime
<1>1. ASSUME Inv, Ids, [Next]_vars, NEW i \in ShownByItsTime, ~OtherBits(i)
      PROVE  i.pts <= Timestamp + Tolerance
  <2>1. i \in Waiting /\ i.id \in shown' \ shown /\ ~i.imm /\ Distance(i.pts, Timestamp) < FarAway
    BY <1>1 DEF ShownByItsTime
  <2>2. check
    BY <1>1, <2>1, OnlyChecksShow
  <2>3. PICK front \in Collected : show(front) /\ front.id = i.id
    <3>1. ~nothingQueued /\ ~allOutOfDate
      BY <2>1 DEF nothingQueued, allOutOfDate, renderVars
    <3>2. PICK front \in Collected : notYetDue(front) \/ show(front)
      BY <2>2, <3>1 DEF check
    <3>3. ~notYetDue(front)
      BY <2>1 DEF notYetDue
    <3>4. shown' \subseteq shown \cup {front.id}
      BY <1>1, <3>2, FrontIds
    <3> QED
      BY <2>1, <3>2, <3>3, <3>4
  <2>4. front = i
    BY <1>1, <2>1, <2>3, SameNumber
  <2>5. i \in Item /\ Timestamp \in Int /\ -1 <= Timestamp
    BY <1>1, <2>3, <2>4, CollectedIds, ClockType DEF Inv, Types
  <2>6. Due(Prepared(i))
    BY <2>3, <2>4 DEF show
  <2> QED
    BY <1>1, <2>1, <2>5, <2>6, PreparedTime
<1>2. Inv /\ Ids /\ [Next]_vars =>
        [\A i \in ShownByItsTime : ~OtherBits(i) => i.pts <= Timestamp + Tolerance]_vars
  BY <1>1
<1> QED
  BY <1>2, Numbering, PTL DEF Spec, NotBeforeItsTime

-----------------------------------------------------------------------------
(* Sessions.                                                                *)

\* The decoded queue holds the items of this session only, and so does the list of
\* waiting items once the looper of the session runs.
Sessions ==
    /\ \A k \in 1..Len(mDecodedSpu) : mDecodedSpu[k].session = session
    /\ looper \in {"idle", "checking"} =>
          \A i \in mEmittedShowingSpu : i.session = session

LEMMA SessionsDecoded ==
  ASSUME Inv, Sessions, addDecodedItem
  PROVE  Sessions'
<1>1. UNCHANGED <<mEmittedShowingSpu, looper, session>>
  BY DEF addDecodedItem, listVars, lifeVars
<1>2. PICK t \in Templates : mDecodedSpu' = Append(Room(mDecodedSpu), NewItem(t))
  BY DEF addDecodedItem
<1>3. mDecodedSpu \in Seq(Item) /\ Len(mDecodedSpu) <= MaxSpuItems /\ TypeOK
  BY DEF Inv, Types, TypeOK
<1>4. Room(mDecodedSpu) \in Seq(Item) /\ LastOf(Room(mDecodedSpu), mDecodedSpu)
  BY <1>3, RoomType, RoomLast
<1>5. NewItem(t) \in Item /\ NewItem(t).session = session
  BY <1>3, NewItemType DEF PastItems, NewItem
<1>6. ASSUME NEW k \in 1..Len(Room(mDecodedSpu))
      PROVE  Room(mDecodedSpu)[k].session = session
  <2>1. PICK d \in Nat : /\ Len(Room(mDecodedSpu)) + d <= Len(mDecodedSpu)
                         /\ Room(mDecodedSpu)[k] = mDecodedSpu[k + d]
    BY <1>4 DEF LastOf
  <2>2. Len(Room(mDecodedSpu)) \in Nat /\ Len(mDecodedSpu) \in Nat
    BY <1>3, <1>4, LenProperties
  <2>3. k + d \in 1..Len(mDecodedSpu)
    BY <2>1, <2>2
  <2> QED
    BY <2>1, <2>3 DEF Sessions
<1>7. ASSUME NEW k \in 1..Len(mDecodedSpu')
      PROVE  mDecodedSpu'[k].session = session
  <2> DEFINE q == Room(mDecodedSpu)
  <2>1. Len(q) \in Nat /\ Len(mDecodedSpu') = Len(q) + 1
    BY <1>2, <1>4, <1>5, LenProperties, AppendProperties
  <2>2. /\ k \in 1..Len(q) => mDecodedSpu'[k] = q[k]
        /\ mDecodedSpu'[Len(q) + 1] = NewItem(t)
    BY <1>2, <1>4, <1>5, AppendProperties
  <2>3. k \in 1..Len(q) => q[k].session = session
    BY <1>6
  <2> HIDE DEF q
  <2>4. k \in 1..Len(q) \/ k = Len(q) + 1
    BY <2>1
  <2> QED
    BY <1>5, <2>2, <2>3, <2>4
<1> QED
  BY <1>1, <1>7 DEF Sessions

LEMMA SessionsChecked ==
  ASSUME Inv, Ids, Sessions, check
  PROVE  Sessions'
<1>1. /\ session' = session /\ looper = "checking" /\ looper' = "idle"
      /\ mDecodedSpu' = IF mDecodedSpu = <<>> THEN <<>> ELSE Tail(mDecodedSpu)
      /\ mDecodedSpu \in Seq(Item)
  BY DEF check, Inv, Types, TypeOK
<1>2. ASSUME NEW k \in 1..Len(mDecodedSpu')
      PROVE  mDecodedSpu'[k].session = session
  <2>1. mDecodedSpu # <<>>
    BY <1>1, <1>2, EmptyQueue
  <2>2. /\ mDecodedSpu' = Tail(mDecodedSpu)
        /\ Len(Tail(mDecodedSpu)) = Len(mDecodedSpu) - 1 /\ Len(mDecodedSpu) \in Nat
        /\ \A j \in 1..Len(Tail(mDecodedSpu)) : Tail(mDecodedSpu)[j] = mDecodedSpu[j + 1]
    BY <1>1, <2>1, TailLast, HeadAndTail, LenProperties
  <2>3. k + 1 \in 1..Len(mDecodedSpu) /\ mDecodedSpu'[k] = mDecodedSpu[k + 1]
    BY <1>2, <2>2
  <2> QED
    BY <2>3 DEF Sessions
<1>3. ASSUME NEW c \in Collected PROVE c.session = session
  <2>1. CASE c \in mEmittedShowingSpu
    BY <1>1, <2>1 DEF Sessions
  <2>2. CASE mDecodedSpu # <<>> /\ c = Believed(Head(mDecodedSpu))
    <3>1. c.session = Head(mDecodedSpu).session
      BY <2>2, HeadIds DEF SameBut
    <3>2. Head(mDecodedSpu) = mDecodedSpu[1] /\ 1 \in 1..Len(mDecodedSpu)
      BY <1>1, <2>2, TailLast
    <3> QED
      BY <3>1, <3>2 DEF Sessions
  <2> QED
    BY <2>1, <2>2, CollectedFrom
<1>4. ASSUME NEW i \in mEmittedShowingSpu' PROVE i.session = session
  <2>1. CASE nothingQueued \/ allOutOfDate
    BY <1>4, <2>1 DEF nothingQueued, allOutOfDate
  <2>2. ASSUME NEW front \in Collected, notYetDue(front) \/ show(front)
        PROVE  i.session = session
    <3>1. Prepared(front).session = front.session
      BY <2>2, FrontIds DEF SameBut
    <3>2. i \in Collected \/ i = Prepared(front)
      BY <1>4, <2>2 DEF notYetDue, show, UpToDate, Behind, Others
    <3> QED
      BY <1>3, <3>1, <3>2
  <2> QED
    BY <2>1, <2>2 DEF check
<1> QED
  BY <1>1, <1>2, <1>4 DEF Sessions

LEMMA SessionsStep == Inv /\ Ids /\ Sessions /\ [Next]_vars => Sessions'
<1> SUFFICES ASSUME Inv, Ids, Sessions, [Next]_vars PROVE Sessions'
  OBVIOUS
<1>1. CASE addDecodedItem
  BY <1>1, SessionsDecoded
<1>2. CASE check
  BY <1>2, SessionsChecked
<1>3. CASE startParser
  BY <1>3, EmptyQueue DEF startParser, Sessions
<1>4. CASE looperLoop
  BY <1>4 DEF looperLoop, Sessions, ForgetLists, parserVars
<1>5. CASE handleReset
  BY <1>5 DEF handleReset, Sessions, parserVars, lifeVars
<1>6. CASE stopParser
  BY <1>6, EmptyQueue DEF stopParser, Sessions, listVars, lifeVars
<1>7. CASE ~addDecodedItem /\ ~check /\ ~startParser /\ ~looperLoop /\ ~handleReset /\ ~stopParser
  <2>1. /\ UNCHANGED <<mDecodedSpu, mEmittedShowingSpu, session>>
        /\ looper' \in {"idle", "checking"} => looper \in {"idle", "checking"}
    BY <1>7 DEF Next, vars, Player, RunThread, Looper, syncCurrentPresentTime,
                notifyStartTimeStamp, startPresent, stopPresent, resetForSeek, looperExit,
                waitForVideo, beginCheck, parserVars, listVars, lifeVars
  <2> QED
    BY <2>1 DEF Sessions
<1> QED
  BY <1>1, <1>2, <1>3, <1>4, <1>5, <1>6, <1>7

\* Nothing of an earlier session is shown, over any number of sessions: the parser is
\* stopped before the looper, and the looper forgets its lists before it takes the first
\* message (Presentation.cpp:1018-1019, Parser.h:133-150).
THEOREM NothingOld == Spec => OnlyThisSession
<1>1. Init => Sessions
  BY EmptyQueue DEF Init, Sessions
<1>2. ASSUME Inv, Sessions, [Next]_vars, NEW i \in Waiting, i.id \in shown' \ shown
      PROVE  OfThisSession(i)
  <2>1. check
    BY <1>2, OnlyChecksShow
  <2>2. looper = "checking"
    BY <2>1 DEF check
  <2>3. i \in mEmittedShowingSpu \/ \E k \in 1..Len(mDecodedSpu) : i = mDecodedSpu[k]
    BY DEF Waiting, ToSet
  <2> QED
    BY <1>2, <2>2, <2>3 DEF Sessions, OfThisSession
<1>3. Inv /\ Ids /\ Sessions /\ [Next]_vars =>
        [\A i \in Waiting : i.id \in shown' \ shown => OfThisSession(i)]_vars
  BY <1>2
<1>4. Inv /\ Ids /\ Sessions /\ [Next]_vars => Sessions'
  BY SessionsStep
<1> QED
  BY <1>1, <1>3, <1>4, Numbering, PTL DEF Spec, OnlyThisSession

-----------------------------------------------------------------------------
(* The item shown last, and the picture it is.                              *)

\* Where the last item is not PGS, nothing is on the screen or its picture is.
IsLast(fading, scr) ==
    fading # <<>> /\ Head(fading).kind # "pgs" =>
        \/ \A o \in Objects : scr[o] = None
        \/ \E o \in Objects : scr[o] # None /\ scr[o].id = Head(fading).id

LastShown == IsLast(mEmittedFaddingSpu, screen)

LEMMA FadingTimeKind ==
  ASSUME NEW i \in Item
  PROVE  WithFadingTime(i).kind = i.kind
<1>1. \A p, e : Retimed(i, p, e).kind = i.kind
  BY DEF Retimed, Item
<1> QED
  BY <1>1, Zenon DEF WithFadingTime

LEMMA FadeLast ==
  ASSUME NEW fading, NEW scr, NEW top, NEW waiting,
         ShowingOK(fading, scr, top), Fade(fading, scr, top, waiting), IsLast(fading, scr)
  PROVE  LastShown'
<1>1. CASE Faded(fading)
  <2>1. fading # <<>> /\ fading \in Seq(Item) /\ Len(fading) <= 1
    BY <1>1 DEF Faded, ShowingOK
  <2>2. Len(fading) \in Nat /\ Tail(fading) \in Seq(Item) /\ Len(Tail(fading)) = Len(fading) - 1
    BY <2>1, HeadAndTail, LenProperties
  <2>3. Tail(fading) = <<>>
    <3> DEFINE t == Tail(fading)  n == Len(fading)
    <3>1. t \in Seq(Item) /\ Len(t) = n - 1 /\ n \in Nat /\ n <= 1
      BY <2>1, <2>2
    <3> HIDE DEF t, n
    <3>2. Len(t) \in Nat
      BY <3>1, LenProperties
    <3>3. Len(t) = 0
      BY <3>1, <3>2
    <3>4. t = <<>>
      BY <3>1, <3>3, EmptySeq
    <3> QED
      BY <3>4 DEF t
  <2>4. mEmittedFaddingSpu' = <<>>
    BY <1>1, <2>3, Zenon DEF Fade
  <2> QED
    BY <2>4 DEF LastShown, IsLast
<1>2. CASE ~Faded(fading)
  <2>1. mEmittedFaddingSpu' = fading /\ screen' = scr
    BY <1>2 DEF Fade
  <2> QED
    BY <2>1, Zenon DEF LastShown, IsLast
<1> QED
  BY <1>1, <1>2

LEMMA PresentedLast ==
  ASSUME Types, HiddenCovers, NEW i \in PastItems, NEW q, NEW cached \in Seq(Item), Len(cached) = 0
  PROVE  IsLast(Append(cached, WithFadingTime(i)), Presented(i, q))
<1> DEFINE f == WithFadingTime(i)  a == Append(cached, f)
<1>1. /\ i \in Item /\ i.obj \in Objects /\ i # None
      /\ screen \in [Objects -> PastItems \cup {None}]
  BY NoneAssumption DEF PastItems, Item, Types
<1>2. SameBut(f, i) /\ f.kind = i.kind
  BY <1>1, ClockType, FadingTimeType, FadingTimeKind DEF Types
<1>3. f.id = i.id
  BY <1>2 DEF SameBut
<1> HIDE DEF f
<1>4. Head(a) = f
  BY <1>2, AppendProperties DEF SameBut
<1> HIDE DEF a
<1>5. CASE i.data
  <2>1. Presented(i, q)[i.obj] = i
    BY <1>1, <1>5 DEF Presented
  <2> QED
    BY <1>1, <1>3, <1>4, <2>1 DEF IsLast, a, f
<1>6. CASE ~i.data /\ i.kind # "pgs"
  <2>1. ASSUME NEW o \in Objects PROVE Presented(i, q)[o] = None
    BY <1>6 DEF Presented, HidesAll, HiddenCovers
  <2> QED
    BY <2>1 DEF IsLast
<1>7. CASE i.kind = "pgs"
  BY <1>2, <1>4, <1>7 DEF IsLast, a, f
<1> QED
  BY <1>5, <1>6, <1>7

LEMMA LastChecked ==
  ASSUME Inv, LastShown, check
  PROVE  LastShown'
<1>1. /\ looper = "checking" /\ Types /\ TypeOK /\ HiddenCovers
      /\ ShowingOK(mEmittedFaddingSpu, screen, mCurrentMaxObjectId)
  BY CheckingShowing DEF check, Inv, Types
<1>2. CASE nothingQueued
  BY <1>1, <1>2, FadeLast DEF nothingQueued, LastShown
<1>3. CASE allOutOfDate
  <2>1. UNCHANGED <<mEmittedFaddingSpu, screen>>
    BY <1>3 DEF allOutOfDate, renderVars
  <2> QED
    BY <2>1, Zenon DEF LastShown, IsLast
<1>4. ASSUME NEW front \in Collected, notYetDue(front)
      PROVE  LastShown'
  <2>1. Fade(mEmittedFaddingSpu, screen, mCurrentMaxObjectId, TRUE)
    BY <1>4 DEF notYetDue
  <2> QED
    BY <1>1, <2>1, FadeLast DEF LastShown
<1>5. ASSUME NEW front \in Collected, show(front)
      PROVE  LastShown'
  <2> DEFINE spu == Prepared(front)
             queue == Behind(spu, UpToDate(Collected))
             cached == IF mEmittedFaddingSpu = <<>> THEN <<>> ELSE Tail(mEmittedFaddingSpu)
  <2>1. front \in PastItems /\ front \in Item
    BY <1>1, CollectedType DEF PastItems
  <2>2. SameBut(spu, front)
    BY <1>1, <2>1, ClockType, PreparedType
  <2>3. spu \in PastItems /\ spu \in Item
    BY <2>1, <2>2, SameButPast DEF PastItems
  <2>4. Fade(Append(cached, WithFadingTime(spu)), Presented(spu, queue), HighestObject(spu), FALSE)
    BY <1>5 DEF show
  <2> HIDE DEF spu, queue
  <2>5. cached \in Seq(Item) /\ Len(cached) = 0
    <3>1. mEmittedFaddingSpu \in Seq(Item) /\ Len(mEmittedFaddingSpu) <= 1
      BY <1>1 DEF TypeOK
    <3>2. CASE mEmittedFaddingSpu = <<>>
      BY <3>2, EmptySeq
    <3>3. CASE mEmittedFaddingSpu # <<>>
      <4>1. cached \in Seq(Item) /\ Len(cached) = Len(mEmittedFaddingSpu) - 1
        BY <3>1, <3>3, HeadAndTail
      <4>2. Len(mEmittedFaddingSpu) \in Nat /\ Len(cached) \in Nat
        BY <3>1, <4>1, LenProperties
      <4> HIDE DEF cached
      <4> QED
        BY <3>1, <4>1, <4>2
    <3> QED
      BY <3>2, <3>3
  <2> HIDE DEF cached
  <2>6. WithFadingTime(spu) \in Item
    BY <1>1, <2>3, ClockType, FadingTimeType DEF SameBut
  <2>7. ShowingOK(Append(cached, WithFadingTime(spu)), Presented(spu, queue), HighestObject(spu))
    BY <1>1, <2>3, <2>5, <2>6, PresentedShowing
  <2>8. IsLast(Append(cached, WithFadingTime(spu)), Presented(spu, queue))
    BY <1>1, <2>3, <2>5, PresentedLast
  <2> QED
    BY <2>4, <2>7, <2>8, FadeLast
<1> QED
  BY <1>2, <1>3, <1>4, <1>5 DEF check

LEMMA LastStep ==
  ASSUME Inv, LastShown, [Next]_vars
  PROVE  LastShown'
<1>1. CASE check
  BY <1>1, LastChecked
<1>2. CASE looperLoop \/ handleReset
  <2>1. mEmittedFaddingSpu' = <<>>
    BY <1>2 DEF looperLoop, handleReset
  <2> QED
    BY <2>1 DEF LastShown, IsLast
<1>3. CASE ~check /\ ~looperLoop /\ ~handleReset
  <2>1. UNCHANGED <<mEmittedFaddingSpu, screen>>
    BY <1>3 DEF Next, vars, Player, RunThread, Looper, addDecodedItem, syncCurrentPresentTime,
                notifyStartTimeStamp, startParser, startPresent, stopParser, stopPresent,
                resetForSeek, looperExit, waitForVideo, beginCheck, listVars, renderVars
  <2> QED
    BY <2>1, Zenon DEF LastShown, IsLast
<1> QED
  BY <1>1, <1>2, <1>3

\* While a check is under way only the check itself changes the screen.
LEMMA OnlyTheCheck ==
  ASSUME looper = "checking", [Next]_vars, ~check
  PROVE  screen' = screen
BY DEF Next, vars, Player, RunThread, Looper, addDecodedItem, syncCurrentPresentTime,
       notifyStartTimeStamp, startParser, startPresent, stopParser, stopPresent,
       resetForSeek, looperLoop, looperExit, waitForVideo, beginCheck, handleReset, renderVars

\* A check that shows an item has taken its number from those that wait.
LEMMA ShownIsConsumed ==
  ASSUME Inv, Ids, check, NEW front \in Collected, show(front)
  PROVE  /\ \E i \in Waiting : i.id = front.id
         /\ \A i \in Waiting' : i.id # front.id
<1> DEFINE spu == Prepared(front)
<1>1. front \in Item /\ front.id \in Nat
  BY CollectedIds DEF Item
<1>2. spu.id = front.id
  BY FrontIds DEF SameBut
<1>3. mDecodedSpu \in Seq(Item)
  BY DEF Inv, Types, TypeOK
<1>4. \E i \in Waiting : i.id = front.id
  <2>1. CASE front \in mEmittedShowingSpu
    BY <2>1 DEF Waiting
  <2>2. CASE mDecodedSpu # <<>> /\ front = Believed(Head(mDecodedSpu))
    <3>1. Head(mDecodedSpu) = mDecodedSpu[1] /\ 1 \in 1..Len(mDecodedSpu)
      BY <1>3, <2>2, TailLast
    <3>2. front.id = mDecodedSpu[1].id
      BY <2>2, <3>1, HeadIds DEF SameBut
    <3>3. mDecodedSpu[1] \in Waiting
      BY <1>3, <3>1 DEF Waiting, ToSet
    <3> QED
      BY <3>2, <3>3
  <2> QED
    BY <2>1, <2>2, CollectedFrom
<1> HIDE DEF spu
<1>5. ASSUME NEW i \in mEmittedShowingSpu' PROVE i.id # front.id
  <2>1. mEmittedShowingSpu' = Behind(spu, UpToDate(Collected))
    BY DEF show, spu
  <2> QED
    BY <1>2, <2>1 DEF Behind, Others
<1>6. ASSUME NEW i \in ToSet(mDecodedSpu)' PROVE i.id # front.id
  <2>1. CASE mDecodedSpu = <<>>
    <3>1. mDecodedSpu' = <<>>
      BY <2>1 DEF check
    <3> QED
      BY <3>1, EmptyQueue DEF ToSet
  <2>2. CASE mDecodedSpu # <<>>
    <3>1. /\ mDecodedSpu' = Tail(mDecodedSpu)
          /\ Numbered(Tail(mDecodedSpu), Taken \cup {Head(mDecodedSpu).id}, decoded)
      BY <2>2, HeadIds DEF check
    <3>2. Tail(mDecodedSpu) \in Seq(Item)
      BY <1>3, <2>2, HeadAndTail
    <3>3. PICK k \in 1..Len(Tail(mDecodedSpu)) : i = Tail(mDecodedSpu)[k]
      BY <3>1, <3>2 DEF ToSet
    <3>4. front.id \in Taken \cup {Head(mDecodedSpu).id}
      BY CollectedIds
    <3>5. front.id < i.id
      <4> DEFINE r == Tail(mDecodedSpu)  past == Taken \cup {Head(mDecodedSpu).id}
      <4>1. Numbered(r, past, decoded) /\ k \in 1..Len(r) /\ i = r[k] /\ front.id \in past
        BY <3>1, <3>3, <3>4
      <4> HIDE DEF r, past
      <4> QED
        BY <4>1, Zenon DEF Numbered
    <3>6. i \in Item
      BY <3>2, <3>3, ElementOfSeq
    <3>7. i.id \in Nat
      BY <3>6 DEF Item
    <3> QED
      BY <1>1, <3>5, <3>7
  <2> QED
    BY <2>1, <2>2
<1>7. \A i \in Waiting' : i.id # front.id
  BY <1>5, <1>6 DEF Waiting
<1> QED
  BY <1>4, <1>7

\* What a check that consumes nothing takes off the screen goes with the end of the item
\* shown last.
LEMMA CheckHides ==
  ASSUME Inv, Ids, check, {i.id : i \in Waiting'} = {i.id : i \in Waiting},
         NEW o \in Objects, screen[o] # None, screen'[o] = None
  PROVE  Faded(mEmittedFaddingSpu)
<1>1. ASSUME NEW top, NEW waiting, Fade(mEmittedFaddingSpu, screen, top, waiting)
      PROVE  Faded(mEmittedFaddingSpu)
  BY <1>1 DEF Fade
<1>2. CASE nothingQueued
  BY <1>1, <1>2 DEF nothingQueued
<1>3. CASE allOutOfDate
  BY <1>3 DEF allOutOfDate, renderVars
<1>4. ASSUME NEW front \in Collected, notYetDue(front)
      PROVE  Faded(mEmittedFaddingSpu)
  <2>1. Fade(mEmittedFaddingSpu, screen, mCurrentMaxObjectId, TRUE)
    BY <1>4 DEF notYetDue
  <2> QED
    BY <1>1, <2>1
<1>5. ASSUME NEW front \in Collected, show(front)
      PROVE  FALSE
  <2>1. \E i \in Waiting : i.id = front.id
    BY <1>5, ShownIsConsumed
  <2>2. \A i \in Waiting' : i.id # front.id
    BY <1>5, ShownIsConsumed
  <2>3. front.id \in {i.id : i \in Waiting}
    BY <2>1
  <2>4. front.id \notin {i.id : i \in Waiting'}
    BY <2>2
  <2> QED
    BY <2>3, <2>4
<1> QED
  BY <1>2, <1>3, <1>4, <1>5 DEF check

\* The item whose end it is.
LEMMA FadedAtItsEnd ==
  ASSUME Inv, LastShown, Faded(mEmittedFaddingSpu), NEW o \in Objects, screen[o] # None
  PROVE  \E i \in ToSet(mEmittedFaddingSpu) :
            /\ i.kind # "pgs" /\ Pictures = {screen[o]} => i.id = screen[o].id
            /\ i.end <= Timestamp \/ i.end > Timestamp + TooLong
<1> DEFINE h == Head(mEmittedFaddingSpu)
<1>1. mEmittedFaddingSpu # <<>> /\ mEmittedFaddingSpu \in Seq(Item) /\ Over(h) /\ Timestamp \in Int
  BY ClockType DEF Faded, Inv, Types, TypeOK
<1>2. h \in ToSet(mEmittedFaddingSpu) /\ h \in Item
  <2>1. h = mEmittedFaddingSpu[1] /\ 1 \in 1..Len(mEmittedFaddingSpu) /\ h \in Item
    BY <1>1, TailLast, HeadAndTail
  <2> HIDE DEF h
  <2> QED
    BY <1>1, <2>1 DEF ToSet
<1>3. ASSUME h.kind # "pgs", Pictures = {screen[o]}
      PROVE  h.id = screen[o].id
  <2>1. PICK p \in Objects : screen[p] # None /\ screen[p].id = h.id
    BY <1>1, <1>3 DEF LastShown, IsLast
  <2>2. screen[p] \in Pictures
    BY <2>1 DEF Pictures
  <2> QED
    BY <1>3, <2>1, <2>2
<1> HIDE DEF h
<1>4. h.end <= Timestamp \/ h.end > Timestamp + TooLong
  <2>1. h.end \in Nat
    BY <1>2 DEF Item
  <2> QED
    BY <1>1, <2>1 DEF Over, TooLong
<1> QED
  BY <1>2, <1>3, <1>4

\* However the times of the video and of the items jump, a check that takes over no item
\* hides a picture of its session only at the end of the item shown last, and that item
\* is the picture, if it is the only one and not PGS: the screen and the list of shown
\* items, which are kept apart, agree (Presentation.cpp:928-976).
THEOREM HiddenWithItsItem == Spec => HiddenAtItsEnd
<1> DEFINE Hides(o) ==
      /\ looper = "checking" /\ {i.id : i \in Waiting'} = {i.id : i \in Waiting}
      /\ screen[o] # None /\ screen'[o] = None /\ OfThisSession(screen[o])
    Ended(o) ==
      \E i \in ToSet(mEmittedFaddingSpu) :
         /\ i.kind # "pgs" /\ Pictures = {screen[o]} => i.id = screen[o].id
         /\ i.end <= Timestamp \/ i.end > Timestamp + TooLong
<1>1. Init => LastShown
  BY DEF Init, LastShown, IsLast
<1>2. ASSUME Inv, Ids, LastShown, [Next]_vars, NEW o \in Objects, Hides(o)
      PROVE  Ended(o)
  <2>1. check
    BY <1>2, OnlyTheCheck
  <2>2. Faded(mEmittedFaddingSpu)
    BY <1>2, <2>1, CheckHides
  <2> QED
    BY <1>2, <2>2, FadedAtItsEnd
<1>3. Inv /\ Ids /\ LastShown /\ [Next]_vars => [\A o \in Objects : Hides(o) => Ended(o)]_vars
  <2> HIDE DEF Hides, Ended
  <2> QED
    BY <1>2
<1>4. Inv /\ Ids /\ LastShown /\ [Next]_vars => LastShown'
  BY LastStep
<1> QED
  BY <1>1, <1>3, <1>4, Numbering, PTL DEF Spec, HiddenAtItsEnd
=============================================================================
