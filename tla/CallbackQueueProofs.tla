------------------------- MODULE CallbackQueueProofs -------------------------
(***************************************************************************)
(* CallbackQueue for any number of posting threads and any number of       *)
(* posts: types, no lost wake-up, nothing lost or reordered, and the       *)
(* implementation of EventChannel.  And the translation of the texts the   *)
(* looper of the presentation shows: its engine outlives every use.        *)
(***************************************************************************)
EXTENDS TextQueues, SequenceTheorems, TLAPS

\* A thread that has filled its shared memory has begun at least one post.
AllocatedHasPosted == \A p \in Posters : poster[p] = "allocated" => posted[p] >= 1

\* The types, inductively.
Types == TypeOK /\ AllocatedHasPosted

\* Before looperLoop has created the looper nothing is queued.
EmptyUntilArmed ==
    mLooper = "null" => mSubtitleData = <<>> /\ \A p \in Posters : poster[p] = "idle"

\* The inductive invariant.
Inv == Types /\ EmptyUntilArmed /\ NoLostWakeup /\ NothingLost

\* What a push leaves well typed, whichever thread makes it.
LEMMA PushTypes ==
  ASSUME TypeOK, NEW e \in Events, Push(e)
  PROVE  /\ mSubtitleData' \in Seq(Events)
         /\ accepted' \in Seq(Events)
         /\ checks' \subseteq {"now", "later"}
<1>1. mSubtitleData' \in Seq(Events)
  BY AppendProperties DEF Push, Enqueued, TypeOK
<1>2. accepted' \in Seq(Events)
  BY AppendProperties DEF Push, TypeOK
<1>3. checks' \subseteq {"now", "later"}
  BY DEF Push, PostedChecks, TypeOK
<1> QED
  BY <1>1, <1>2, <1>3

LEMMA TypesInit == Init => Types
  BY MaxPostsAssumption DEF Init, Types, TypeOK, AllocatedHasPosted

LEMMA TypesStep == Types /\ [Next]_vars => Types'
<1> SUFFICES ASSUME Types, [Next]_vars PROVE Types'
  OBVIOUS
<1> USE MaxPostsAssumption DEF Types
<1>1. CASE looperLoop
  BY <1>1 DEF looperLoop, TypeOK, AllocatedHasPosted
<1>2. ASSUME NEW p \in Posters, onSubtitleEvent(p) PROVE Types'
  <2>1. posted[p] + 1 \in 1..MaxPosts
    BY <1>2 DEF onSubtitleEvent, TypeOK
  <2>2. <<p, posted[p] + 1>> \in Events
    BY <2>1 DEF Events
  <2>3. Push(<<p, posted[p] + 1>>)
    BY <1>2 DEF onSubtitleEvent
  <2>4. posted' \in [Posters -> 0..MaxPosts]
    BY <1>2, <2>1 DEF onSubtitleEvent, TypeOK
  <2>5. TypeOK'
    BY <1>2, <2>2, <2>3, <2>4, PushTypes DEF onSubtitleEvent, TypeOK
  <2>6. AllocatedHasPosted'
    BY <1>2, <2>1 DEF onSubtitleEvent, TypeOK, AllocatedHasPosted
  <2> QED
    BY <2>5, <2>6
<1>3. ASSUME NEW p \in Posters, allocateMemory(p) PROVE Types'
  <2>1. posted[p] + 1 \in 1..MaxPosts
    BY <1>3 DEF allocateMemory, TypeOK
  <2>2. posted' \in [Posters -> 0..MaxPosts] /\ posted'[p] >= 1
    BY <1>3, <2>1 DEF allocateMemory, TypeOK
  <2>3. poster' \in [Posters -> {"idle", "allocated"}]
    BY <1>3 DEF allocateMemory, TypeOK
  <2>4. TypeOK'
    BY <1>3, <2>2, <2>3 DEF allocateMemory, TypeOK
  <2>5. AllocatedHasPosted'
    BY <1>3, <2>2 DEF allocateMemory, TypeOK, AllocatedHasPosted
  <2> QED
    BY <2>4, <2>5
<1>4. ASSUME NEW p \in Posters, postDisplayData(p) PROVE Types'
  <2>1. posted[p] \in 1..MaxPosts
    BY <1>4 DEF postDisplayData, TypeOK, AllocatedHasPosted
  <2>2. <<p, posted[p]>> \in Events
    BY <2>1 DEF Events
  <2>3. Push(<<p, posted[p]>>)
    BY <1>4 DEF postDisplayData
  <2>4. poster' \in [Posters -> {"idle", "allocated"}]
    BY <1>4 DEF postDisplayData, TypeOK
  <2>5. TypeOK'
    BY <1>4, <2>2, <2>3, <2>4, PushTypes DEF postDisplayData, TypeOK
  <2>6. AllocatedHasPosted'
    BY <1>4 DEF postDisplayData, TypeOK, AllocatedHasPosted
  <2> QED
    BY <2>5, <2>6
<1>5. ASSUME NEW c \in {"now", "later"}, handleMessage(c) PROVE Types'
  <2>1. Popped(mSubtitleData) \in Seq(Events) /\ Len(Popped(mSubtitleData)) <= 1
    BY HeadTailProperties DEF Popped, TypeOK
  <2>2. Remaining(mSubtitleData) \in Seq(Events)
    BY HeadTailProperties DEF Remaining, TypeOK
  <2>3. TypeOK'
    BY <1>5, <2>1, <2>2 DEF handleMessage, Rearm, TypeOK
  <2> QED
    BY <1>5, <2>3 DEF handleMessage, AllocatedHasPosted
<1>6. CASE onSubtitleNotify
  <2>1. delivered' \in Seq(Events)
    BY <1>6, HeadTailProperties, AppendProperties DEF onSubtitleNotify, TypeOK
  <2> QED
    BY <1>6, <2>1 DEF onSubtitleNotify, TypeOK, AllocatedHasPosted
<1>7. CASE UNCHANGED vars
  BY <1>7 DEF vars, TypeOK, AllocatedHasPosted
<1> QED
  BY <1>1, <1>2, <1>3, <1>4, <1>5, <1>6, <1>7 DEF Next, Looper, Poster

-----------------------------------------------------------------------------
LEMMA ArmedInit == Init => EmptyUntilArmed
  BY DEF Init, EmptyUntilArmed

LEMMA ArmedStep == Types /\ EmptyUntilArmed /\ [Next]_vars => EmptyUntilArmed'
<1> SUFFICES ASSUME Types, EmptyUntilArmed, [Next]_vars PROVE EmptyUntilArmed'
  OBVIOUS
<1>1. CASE looperLoop
  BY <1>1 DEF looperLoop, EmptyUntilArmed
<1>2. ASSUME NEW p \in Posters, Poster(p) PROVE EmptyUntilArmed'
  <2>1. mLooper # "null" /\ mLooper' = mLooper
    BY <1>2 DEF Poster, onSubtitleEvent, allocateMemory, postDisplayData, EmptyUntilArmed
  <2> QED
    BY <2>1 DEF EmptyUntilArmed
<1>3. ASSUME NEW c \in {"now", "later"}, handleMessage(c) PROVE EmptyUntilArmed'
  BY <1>3 DEF handleMessage, Remaining, EmptyUntilArmed
<1>4. CASE onSubtitleNotify
  BY <1>4 DEF onSubtitleNotify, EmptyUntilArmed
<1>5. CASE UNCHANGED vars
  BY <1>5 DEF vars, EmptyUntilArmed
<1> QED
  BY <1>1, <1>2, <1>3, <1>4, <1>5 DEF Next, Looper

-----------------------------------------------------------------------------
LEMMA WakeupInit == Init => NoLostWakeup
  BY DEF Init, NoLostWakeup

\* A push leaves a message pending; the handler re-arms with "now" exactly when
\* it leaves entries behind; nobody else touches the queue or the messages.
LEMMA WakeupStep == EmptyUntilArmed /\ NoLostWakeup /\ [Next]_vars => NoLostWakeup'
<1> SUFFICES ASSUME EmptyUntilArmed, NoLostWakeup, [Next]_vars PROVE NoLostWakeup'
  OBVIOUS
<1>1. CASE looperLoop
  <2>1. mSubtitleData = <<>>
    BY <1>1 DEF looperLoop, EmptyUntilArmed
  <2> QED
    BY <1>1, <2>1 DEF looperLoop, NoLostWakeup
<1>2. ASSUME NEW e, Push(e) PROVE NoLostWakeup'
  BY <1>2 DEF Push, PostedChecks, NoLostWakeup
<1>3. ASSUME NEW p \in Posters, allocateMemory(p) PROVE NoLostWakeup'
  BY <1>3 DEF allocateMemory, NoLostWakeup
<1>4. ASSUME NEW c \in {"now", "later"}, handleMessage(c) PROVE NoLostWakeup'
  BY <1>4 DEF handleMessage, Rearm, NoLostWakeup
<1>5. CASE onSubtitleNotify
  BY <1>5 DEF onSubtitleNotify, NoLostWakeup
<1>6. CASE UNCHANGED vars
  BY <1>6 DEF vars, NoLostWakeup
<1> QED
  BY <1>1, <1>2, <1>3, <1>4, <1>5, <1>6
     DEF Next, Looper, Poster, onSubtitleEvent, postDisplayData

-----------------------------------------------------------------------------
LEMMA LostInit == Init => NothingLost
  BY DEF Init, NothingLost

LEMMA LenOfOne ==
  ASSUME NEW S, NEW s \in Seq(S), s # <<>>, Len(s) <= 1
  PROVE  Len(s) = 1
<1>1. Len(s) \in Nat /\ DOMAIN s = 1..Len(s)
  BY LenProperties
<1>2. Len(s) # 0
  BY EmptySeq
<1> QED
  BY <1>1, <1>2

\* The head is the first element.
LEMMA HeadIsFirst ==
  ASSUME NEW S, NEW s \in Seq(S), s # <<>>
  PROVE  Head(s) = s[1]
  BY EmptySeq

\* A sequence is its head followed by its tail.
LEMMA HeadThenTail ==
  ASSUME NEW S, NEW s \in Seq(S), s # <<>>
  PROVE  <<Head(s)>> \o Tail(s) = s
<1>1. Head(s) \in S /\ Tail(s) \in Seq(S) /\ <<Head(s)>> \in Seq(S)
  BY HeadTailProperties
<1>2. Len(s) >= 1 /\ Head(s) = s[1]
  BY EmptySeq, HeadIsFirst
<1>3. /\ <<Head(s)>> \o Tail(s) \in Seq(S)
      /\ Len(<<Head(s)>> \o Tail(s)) = Len(s)
      /\ \A i \in 1..Len(s) : (<<Head(s)>> \o Tail(s))[i] = s[i]
  BY <1>1, <1>2, HeadTailProperties, ConcatProperties
<1> QED
  BY <1>3, SeqEqual

\* A single entry in front of a queue is its head, and the queue its tail.
LEMMA OneThenRest ==
  ASSUME NEW S, NEW a \in Seq(S), NEW b \in Seq(S), Len(a) = 1
  PROVE  /\ a \o b # <<>>
         /\ Head(a \o b) = Head(a)
         /\ Tail(a \o b) = b
<1>1. /\ a \o b \in Seq(S)
      /\ Len(a \o b) = 1 + Len(b)
      /\ \A i \in 1..(1 + Len(b)) : (a \o b)[i] = IF i <= 1 THEN a[i] ELSE b[i - 1]
  <2>1. /\ a \o b \in Seq(S)
        /\ Len(a \o b) = Len(a) + Len(b)
        /\ \A i \in 1..(Len(a) + Len(b)) :
              (a \o b)[i] = IF i <= Len(a) THEN a[i] ELSE b[i - Len(a)]
    BY ConcatProperties
  <2> QED
    BY <2>1
<1>2. Len(b) \in Nat
  BY LenProperties
<1>3. a # <<>> /\ a \o b # <<>>
  BY <1>1, <1>2, EmptySeq
<1>4. Head(a \o b) = (a \o b)[1] /\ Head(a) = a[1]
  BY <1>1, <1>3, HeadIsFirst
<1>5. (a \o b)[1] = a[1]
  BY <1>1, <1>2
<1>6. /\ Tail(a \o b) \in Seq(S)
      /\ Len(Tail(a \o b)) = Len(b)
      /\ \A i \in 1..Len(b) : Tail(a \o b)[i] = b[i]
  BY <1>1, <1>2, <1>3, HeadTailProperties
<1>7. Tail(a \o b) = b
  BY <1>6, SeqEqual
<1> QED
  BY <1>3, <1>4, <1>5, <1>7

\* Joining three sequences, as one fact that is cited without its reasons.
Joins(a, b, c) == (a \o b) \o c = a \o (b \o c)

LEMMA JoinsAnyhow ==
  ASSUME NEW S, NEW a \in Seq(S), NEW b \in Seq(S), NEW c \in Seq(S)
  PROVE  Joins(a, b, c)
BY ConcatAssociative DEF Joins

LEMMA LostStep == Types /\ NothingLost /\ [Next]_vars => NothingLost'
<1> SUFFICES ASSUME Types, NothingLost, [Next]_vars PROVE NothingLost'
  OBVIOUS
<1> USE DEF Types
<1>1. ASSUME NEW e \in Events, Push(e), UNCHANGED <<inFlight, delivered>>
      PROVE  NothingLost'
  <2>1. /\ delivered \in Seq(Events) /\ inFlight \in Seq(Events)
        /\ mSubtitleData \in Seq(Events) /\ accepted \in Seq(Events)
    BY DEF TypeOK
  <2>2. delivered \o inFlight \in Seq(Events) /\ <<e>> \in Seq(Events)
    BY <1>1, <2>1, ConcatProperties
  <2>3. mSubtitleData' = mSubtitleData \o <<e>>
    BY <1>1, <2>1, AppendIsConcat DEF Push, Enqueued
  <2>4. accepted' = accepted \o <<e>>
    BY <1>1, <2>1, AppendIsConcat DEF Push
  <2>5. (delivered \o inFlight) \o mSubtitleData \o <<e>>
          = (delivered \o inFlight) \o (mSubtitleData \o <<e>>)
    <3>1. mSubtitleData \in Seq(Events)
      BY <2>1
    <3>2. Joins(delivered \o inFlight, mSubtitleData, <<e>>)
      BY <2>2, <3>1, JoinsAnyhow
    <3> QED
      BY <3>2 DEF Joins
  <2> QED
    BY <1>1, <2>3, <2>4, <2>5 DEF NothingLost
<1>2. ASSUME NEW p \in Posters, onSubtitleEvent(p) PROVE NothingLost'
  <2>1. <<p, posted[p] + 1>> \in Events
    BY <1>2, MaxPostsAssumption DEF onSubtitleEvent, Events, TypeOK
  <2> QED
    BY <1>1, <1>2, <2>1 DEF onSubtitleEvent
<1>3. ASSUME NEW p \in Posters, postDisplayData(p) PROVE NothingLost'
  <2>1. <<p, posted[p]>> \in Events
    BY <1>3, MaxPostsAssumption DEF postDisplayData, Events, TypeOK, AllocatedHasPosted
  <2> QED
    BY <1>1, <1>3, <2>1 DEF postDisplayData
<1>4. ASSUME NEW c \in {"now", "later"}, handleMessage(c) PROVE NothingLost'
  <2>1. Popped(mSubtitleData) \o Remaining(mSubtitleData) = mSubtitleData
    BY HeadThenTail, ConcatEmptySeq DEF Popped, Remaining, TypeOK
  <2>2. Popped(mSubtitleData) \in Seq(Events) /\ Remaining(mSubtitleData) \in Seq(Events)
    BY HeadTailProperties DEF Popped, Remaining, TypeOK
  <2>3. delivered \o Popped(mSubtitleData) \o Remaining(mSubtitleData)
          = delivered \o (Popped(mSubtitleData) \o Remaining(mSubtitleData))
    <3>1. delivered \in Seq(Events)
      BY DEF TypeOK
    <3> QED
      BY <2>2, <3>1, JoinsAnyhow DEF Joins
  <2>4. delivered \o inFlight = delivered
    BY <1>4, ConcatEmptySeq DEF handleMessage, TypeOK
  <2> QED
    BY <1>4, <2>1, <2>3, <2>4 DEF handleMessage, NothingLost
<1>5. CASE onSubtitleNotify
  <2>1. inFlight = <<Head(inFlight)>> /\ Head(inFlight) \in Events
    <3>1. inFlight \in Seq(Events) /\ inFlight # <<>> /\ Len(inFlight) <= 1
      BY <1>5 DEF onSubtitleNotify, TypeOK
    <3>2. Tail(inFlight) \in Seq(Events) /\ Len(Tail(inFlight)) = Len(inFlight) - 1
      BY <3>1, HeadTailProperties
    <3>3. Tail(inFlight) = <<>>
      BY <3>1, <3>2, LenProperties, EmptySeq
    <3>4. Head(inFlight) \in Events /\ <<Head(inFlight)>> \in Seq(Events)
      BY <3>1, HeadTailProperties
    <3>5. <<Head(inFlight)>> \o <<>> = inFlight
      BY <3>1, <3>3, HeadThenTail
    <3> QED
      BY <3>4, <3>5, ConcatEmptySeq
  <2>2. Append(delivered, Head(inFlight)) = delivered \o inFlight
    BY <2>1, AppendIsConcat DEF TypeOK
  <2>3. delivered \o inFlight \in Seq(Events)
    BY ConcatProperties DEF TypeOK
  <2>4. delivered \o inFlight \o <<>> = delivered \o inFlight
    BY <2>3, ConcatEmptySeq
  <2> QED
    BY <1>5, <2>2, <2>4 DEF onSubtitleNotify, NothingLost
<1>6. ASSUME UNCHANGED <<mSubtitleData, inFlight, accepted, delivered>> PROVE NothingLost'
  BY <1>6 DEF NothingLost
<1> QED
  BY <1>2, <1>3, <1>4, <1>5, <1>6
     DEF Next, Looper, Poster, looperLoop, allocateMemory, vars

-----------------------------------------------------------------------------
LEMMA Invariance == Spec => []Inv
<1>1. Init => Inv
  BY TypesInit, ArmedInit, WakeupInit, LostInit DEF Inv
<1>2. Inv /\ [Next]_vars => Inv'
  BY TypesStep, ArmedStep, WakeupStep, LostStep DEF Inv
<1> QED
  BY <1>1, <1>2, PTL DEF Spec

\* Every reachable state of the callback queue is well typed, and handleMessage
\* never holds more than one entry outside mLock.
THEOREM TypeCorrect == Spec => []TypeOK
  BY Invariance, PTL DEF Inv, Types

\* However many threads post: entries never wait without a message that is due
\* at once, so the looper cannot sleep on them.
THEOREM NoWakeupLost == Spec => []NoLostWakeup
  BY Invariance, PTL DEF Inv

\* What was pushed under mLock is what was delivered, then what handleMessage
\* holds, then what is queued: no entry is lost, doubled or overtaken.
THEOREM FirstInFirstOut == Spec => []NothingLost
  BY Invariance, PTL DEF Inv

-----------------------------------------------------------------------------
LEMMA RefinementInit == Init => Channel!Init
  BY DEF Init, Channel!Init

LEMMA RefinementStep == Types /\ [Next]_vars => [Channel!Next]_(Channel!vars)
<1> SUFFICES ASSUME Types, [Next]_vars PROVE Channel!Next \/ UNCHANGED Channel!vars
  OBVIOUS
<1> USE DEF Types
<1>1. ASSUME NEW e \in Events, Push(e), UNCHANGED <<inFlight, delivered>>
      PROVE  Channel!Next
  <2>1. inFlight \in Seq(Events) /\ mSubtitleData \in Seq(Events) /\ <<e>> \in Seq(Events)
    BY <1>1 DEF TypeOK
  <2>2. inFlight \o mSubtitleData \in Seq(Events)
    BY <2>1, ConcatProperties
  <2>3. mSubtitleData' = mSubtitleData \o <<e>>
    BY <1>1, <2>1, AppendIsConcat DEF Push, Enqueued
  <2>4. inFlight \o (mSubtitleData \o <<e>>) = (inFlight \o mSubtitleData) \o <<e>>
    BY <2>1, JoinsAnyhow DEF Joins
  <2>5. Append(inFlight \o mSubtitleData, e) = (inFlight \o mSubtitleData) \o <<e>>
    BY <1>1, <2>2, AppendIsConcat
  <2>6. (inFlight \o mSubtitleData)' = Append(inFlight \o mSubtitleData, e)
    BY <1>1, <2>3, <2>4, <2>5
  <2> QED
    BY <1>1, <2>6 DEF Channel!Next, Channel!Accept
<1>2. ASSUME NEW p \in Posters, onSubtitleEvent(p) PROVE Channel!Next
  <2>1. <<p, posted[p] + 1>> \in Events
    BY <1>2, MaxPostsAssumption DEF onSubtitleEvent, Events, TypeOK
  <2> QED
    BY <1>1, <1>2, <2>1 DEF onSubtitleEvent
<1>3. ASSUME NEW p \in Posters, postDisplayData(p) PROVE Channel!Next
  <2>1. <<p, posted[p]>> \in Events
    BY <1>3, MaxPostsAssumption DEF postDisplayData, Events, TypeOK, AllocatedHasPosted
  <2> QED
    BY <1>1, <1>3, <2>1 DEF postDisplayData
<1>4. ASSUME NEW c \in {"now", "later"}, handleMessage(c) PROVE UNCHANGED Channel!vars
  <2>1. Popped(mSubtitleData) \o Remaining(mSubtitleData) = mSubtitleData
    BY HeadThenTail, ConcatEmptySeq DEF Popped, Remaining, TypeOK
  <2>2. inFlight \o mSubtitleData = mSubtitleData
    BY <1>4, ConcatEmptySeq DEF handleMessage, TypeOK
  <2> QED
    BY <1>4, <2>1, <2>2 DEF handleMessage, Channel!vars
<1>5. CASE onSubtitleNotify
  <2>1. inFlight \in Seq(Events) /\ inFlight # <<>> /\ Len(inFlight) <= 1
    BY <1>5 DEF onSubtitleNotify, TypeOK
  <2>2. mSubtitleData \in Seq(Events)
    BY DEF TypeOK
  <2>3. Len(inFlight) = 1
    BY <2>1, LenOfOne
  <2>4. /\ inFlight \o mSubtitleData # <<>>
        /\ Head(inFlight \o mSubtitleData) = Head(inFlight)
        /\ Tail(inFlight \o mSubtitleData) = mSubtitleData
    BY <2>1, <2>2, <2>3, OneThenRest
  <2>5. (inFlight \o mSubtitleData)' = mSubtitleData
    BY <1>5, <2>2, ConcatEmptySeq DEF onSubtitleNotify
  <2> QED
    BY <1>5, <2>4, <2>5
       DEF onSubtitleNotify, Channel!Next, Channel!HandOver
<1>6. ASSUME UNCHANGED <<mSubtitleData, inFlight, delivered>> PROVE UNCHANGED Channel!vars
  BY <1>6 DEF Channel!vars
<1> QED
  BY <1>2, <1>3, <1>4, <1>5, <1>6
     DEF Next, Looper, Poster, looperLoop, allocateMemory, vars

\* The queue with its lock, its looper messages and the entry outside the lock
\* implements a plain ordered channel.
THEOREM Refinement == Spec => ImplementsChannel
<1>1. Spec => []Types
  BY Invariance, PTL DEF Inv
<1> QED
  BY <1>1, RefinementInit, RefinementStep, PTL
     DEF Spec, ImplementsChannel, Channel!Spec

-----------------------------------------------------------------------------
(***************************************************************************)
(* The translation of texts, for any number of languages, texts and calls: *)
(* the engine is not unloaded while the worker has it detect, and the      *)
(* looper is there as long as the worker may send it a message.            *)
(*                                                                         *)
(* The binder thread takes both away, when it believes the worker gone.    *)
(* That it is rests on where the end of the worker can come from: a job    *)
(* that only Stop() queues, while the binder thread waits to join.         *)
(***************************************************************************)

Places == {"idle", "load", "clear", "await", "cleared", "stop", "join", "stopped",
           "joinLooper", "start", "queue", "gone"}

\* Any job that is ever queued, whatever the bound on texts.
Jobs == {Steady!Exit} \cup {Steady!Load(l) : l \in Languages \cup {None}}
          \cup {Steady!Text(t) : t \in Nat}

Typed ==
    /\ mJobQueue \in Seq(Jobs)
    /\ pusher \in Nat \cup {None} /\ count.texts \in Nat
    /\ {"texts", "loads", "seeks"} \subseteq DOMAIN count
    /\ {"at", "lang", "ends"} \subseteq DOMAIN ctl
    /\ {"runs", "now", "later"} \subseteq DOMAIN trLooper
    /\ ctl.at \in Places /\ ctl.ends \in BOOLEAN /\ ctl.lang \in Languages \cup {None}
    /\ mRunThread \in BOOLEAN /\ trLooper.runs \in BOOLEAN

\* The job that ends the worker is there only while the binder thread waits for the end.
EndAwaited ==
    /\ \A i \in 1..Len(mJobQueue) : mJobQueue[i] = Steady!Exit => ctl.at = "join"
    /\ (job = Steady!Exit /\ worker = "run") => ctl.at = "join"

\* mRunThread tells whether there is a worker, but for the time it is joined in.
FlagTells ==
    /\ mRunThread => worker \notin {"none", "ended"}
    /\ ~mRunThread => (worker = "none" \/ ctl.at = "join")

\* What the binder thread takes away it takes when the worker is gone.
TakenLate ==
    /\ ctl.at \in {"stopped", "joinLooper", "gone"} => worker = "none"
    /\ ~trLooper.runs => ctl.at \in {"stopped", "joinLooper", "gone"} /\ ctl.ends
    /\ worker = "detect" => engine = "ready"

Guarded == Typed /\ EndAwaited /\ FlagTells /\ TakenLate

LEMMA JobKinds ==
    /\ \A l : Steady!Load(l) # Steady!Exit /\ Steady!Load(l).what = "load"
    /\ \A t : Steady!Text(t) # Steady!Exit /\ Steady!Text(t).what = "text"
    /\ Steady!Exit \in Jobs /\ Steady!Exit.what = "exit"
    /\ \A t \in Nat : Steady!Text(t) \in Jobs
    /\ \A l \in Languages \cup {None} : Steady!Load(l) \in Jobs
<1>1. \A l : Steady!Load(l).what = "load"
  BY DEF Steady!Load
<1>2. \A t : Steady!Text(t).what = "text"
  BY DEF Steady!Text
<1>3. Steady!Exit.what = "exit"
  BY DEF Steady!Exit
<1> QED BY <1>1, <1>2, <1>3 DEF Jobs

\* Another job at the end of the queue, or refused.
LEMMA Queues ==
    ASSUME mJobQueue \in Seq(Jobs), NEW j \in Jobs, Steady!QueueJob(j)
    PROVE  /\ mJobQueue' \in Seq(Jobs)
           /\ \A i \in 1..Len(mJobQueue') :
                \/ i \in 1..Len(mJobQueue) /\ mJobQueue'[i] = mJobQueue[i]
                \/ mRunThread /\ mJobQueue'[i] = j
<1>1. CASE mRunThread
  <2>1. mJobQueue' = Append(mJobQueue, j)
    BY <1>1 DEF Steady!QueueJob
  <2>2. /\ Append(mJobQueue, j) \in Seq(Jobs)
        /\ Len(Append(mJobQueue, j)) = Len(mJobQueue) + 1
        /\ \A i \in 1..(Len(mJobQueue) + 1) :
              Append(mJobQueue, j)[i] = IF i = Len(mJobQueue) + 1 THEN j ELSE mJobQueue[i]
    OBVIOUS
  <2>3. \A i \in 1..(Len(mJobQueue) + 1) : i = Len(mJobQueue) + 1 \/ i \in 1..Len(mJobQueue)
    OBVIOUS
  <2> QED BY <1>1, <2>1, <2>2, <2>3
<1>2. CASE ~mRunThread
  <2>1. mJobQueue' = mJobQueue
    BY <1>2 DEF Steady!QueueJob
  <2> QED BY <2>1
<1> QED BY <1>1, <1>2

LEMMA Deletes ==
    ASSUME Steady!DeleteJobs
    PROVE  mJobQueue' \in Seq(Jobs) /\ Len(mJobQueue') = 0
BY DEF Steady!DeleteJobs

\* Where the binder thread goes, and nothing else of it.
LEMMA Goes ==
    ASSUME Typed, NEW where \in Places, Steady!At(where)
    PROVE  /\ ctl'.at = where /\ ctl'.ends = ctl.ends /\ ctl'.lang = ctl.lang
           /\ {"at", "lang", "ends"} \subseteq DOMAIN ctl'
BY DEF Steady!At, Typed

LEMMA InitGuarded == Steady!Init => Guarded
<1> SUFFICES ASSUME Steady!Init PROVE Guarded
  OBVIOUS
<1>1. mJobQueue = <<>> /\ worker = "none" /\ job = None /\ mRunThread = FALSE
      /\ pusher = None
      /\ ctl = [at |-> "idle", lang |-> None, ends |-> FALSE]
      /\ trLooper = [runs |-> TRUE, now |-> {}, later |-> {}]
      /\ count = [texts |-> 0, loads |-> 0, seeks |-> 0]
  BY DEF Steady!Init
<1>2. mJobQueue \in Seq(Jobs) /\ Len(mJobQueue) = 0
  BY <1>1
<1>3. Typed
  BY <1>1, <1>2 DEF Typed, Places
<1>4. EndAwaited /\ FlagTells /\ TakenLate
  BY <1>1, <1>2 DEF EndAwaited, FlagTells, TakenLate
<1> QED BY <1>3, <1>4 DEF Guarded

\* A step of the binder thread that touches neither the worker nor the jobs.
LEMMA Walks ==
    ASSUME Guarded, NEW where \in Places, Steady!At(where), ctl.at # "join",
           UNCHANGED <<mJobQueue, mRunThread, worker, job, pusher, count, engine, trLooper>>,
           where \in {"stopped", "joinLooper", "gone"} => worker = "none",
           ctl.at \in {"stopped", "joinLooper"} /\ ctl.ends
               => where \in {"stopped", "joinLooper", "gone"},
           ctl.at # "gone"
    PROVE  Guarded'
<1>1. /\ ctl'.at = where /\ ctl'.ends = ctl.ends /\ ctl'.lang = ctl.lang
      /\ {"at", "lang", "ends"} \subseteq DOMAIN ctl'
  BY Goes DEF Guarded
<1>2. Typed'
  BY <1>1 DEF Guarded, Typed
<1>3. EndAwaited'
  BY <1>1 DEF Guarded, EndAwaited
<1>4. FlagTells'
  BY <1>1 DEF Guarded, FlagTells
<1>5. TakenLate'
  BY <1>1 DEF Guarded, TakenLate
<1> QED BY <1>2, <1>3, <1>4, <1>5 DEF Guarded

LEMMA NextGuarded == Guarded /\ [Steady!Next]_(Steady!trvars) => Guarded'
<1> SUFFICES ASSUME Guarded, [Steady!Next]_(Steady!trvars) PROVE Guarded'
  OBVIOUS
<1> USE DEF Steady!trvars, Steady!items, Steady!jobs, Steady!ai, Steady!loopers
<1>1. CASE Steady!push2Translate
  <2>1. count' = [count EXCEPT !.texts = @ + 1] /\ pusher' = count.texts + 1
        /\ UNCHANGED <<mJobQueue, mRunThread, worker, job, engine, trLooper, ctl>>
    BY <1>1 DEF Steady!push2Translate
  <2>2. count'.texts \in Nat /\ pusher' \in Nat
        /\ {"texts", "loads", "seeks"} \subseteq DOMAIN count'
    BY <2>1 DEF Guarded, Typed
  <2> QED BY <2>1, <2>2 DEF Guarded, Typed, EndAwaited, FlagTells, TakenLate
<1>2. CASE Steady!queueText
  <2>1. pusher # None /\ Steady!QueueJob(Steady!Text(pusher)) /\ pusher' = None
        /\ UNCHANGED <<mRunThread, worker, job, engine, trLooper, ctl, count>>
    BY <1>2 DEF Steady!queueText
  <2>2. Steady!Text(pusher) \in Jobs /\ Steady!Text(pusher) # Steady!Exit
    BY <2>1, JobKinds DEF Guarded, Typed
  <2>3. /\ mJobQueue' \in Seq(Jobs)
        /\ \A i \in 1..Len(mJobQueue') :
             \/ i \in 1..Len(mJobQueue) /\ mJobQueue'[i] = mJobQueue[i]
             \/ mRunThread /\ mJobQueue'[i] = Steady!Text(pusher)
    BY <2>1, <2>2, Queues DEF Guarded, Typed
  <2>4. Typed'
    BY <2>1, <2>3 DEF Guarded, Typed
  <2>5. EndAwaited'
    BY <2>1, <2>2, <2>3 DEF Guarded, EndAwaited
  <2> QED BY <2>1, <2>4, <2>5 DEF Guarded, FlagTells, TakenLate
<1>3. CASE Steady!pushUntranslated
  <2>1. count' = [count EXCEPT !.texts = @ + 1]
        /\ UNCHANGED <<pusher, mJobQueue, mRunThread, worker, job, engine, trLooper, ctl>>
    BY <1>3 DEF Steady!pushUntranslated
  <2>2. count'.texts \in Nat /\ {"texts", "loads", "seeks"} \subseteq DOMAIN count'
    BY <2>1 DEF Guarded, Typed
  <2> QED BY <2>1, <2>2 DEF Guarded, Typed, EndAwaited, FlagTells, TakenLate
<1>4. CASE Steady!resetForSeek
  <2>1. count' = [count EXCEPT !.seeks = @ + 1]
        /\ UNCHANGED <<pusher, mJobQueue, mRunThread, worker, job, engine, trLooper, ctl>>
    BY <1>4 DEF Steady!resetForSeek, Steady!Reset
  <2>2. count'.texts \in Nat /\ {"texts", "loads", "seeks"} \subseteq DOMAIN count'
    BY <2>1 DEF Guarded, Typed
  <2> QED BY <2>1, <2>2 DEF Guarded, Typed, EndAwaited, FlagTells, TakenLate
<1>5. ASSUME NEW lang \in Languages \cup {None}, Steady!setSubTranslationLanguage(lang)
      PROVE  Guarded'
  <2>1. /\ ctl.at = "idle" /\ count' = [count EXCEPT !.loads = @ + 1]
        /\ ctl' = [ctl EXCEPT !.at = "load", !.lang = lang]
        /\ UNCHANGED <<pusher, mJobQueue, mRunThread, worker, job, engine, trLooper>>
    BY <1>5 DEF Steady!setSubTranslationLanguage, Steady!Reset
  <2>2. count'.texts \in Nat /\ {"texts", "loads", "seeks"} \subseteq DOMAIN count'
    BY <2>1 DEF Guarded, Typed
  <2>3. /\ ctl'.at = "load" /\ ctl'.lang = lang /\ ctl'.ends = ctl.ends
        /\ {"at", "lang", "ends"} \subseteq DOMAIN ctl'
    BY <2>1 DEF Guarded, Typed
  <2>4. Typed'
    BY <2>1, <2>2, <2>3 DEF Guarded, Typed, Places
  <2> QED BY <2>1, <2>3, <2>4 DEF Guarded, EndAwaited, FlagTells, TakenLate
<1>6. CASE Steady!destroy
  <2>1. /\ ctl.at = "idle" /\ ctl' = [ctl EXCEPT !.at = "stop", !.ends = TRUE]
        /\ UNCHANGED <<count, pusher, mJobQueue, mRunThread, worker, job, engine, trLooper>>
    BY <1>6 DEF Steady!destroy, Steady!Reset
  <2>3. /\ ctl'.at = "stop" /\ ctl'.lang = ctl.lang /\ ctl'.ends = TRUE
        /\ {"at", "lang", "ends"} \subseteq DOMAIN ctl'
    BY <2>1 DEF Guarded, Typed
  <2>4. Typed'
    BY <2>1, <2>3 DEF Guarded, Typed, Places
  <2> QED BY <2>1, <2>3, <2>4 DEF Guarded, EndAwaited, FlagTells, TakenLate
<1>7. CASE Steady!loadAaiLanguage
  <2>1. PICK where \in {"start", "clear", "stop"} : Steady!At(where)
    BY <1>7 DEF Steady!loadAaiLanguage
  <2>2. where \in Places /\ where \notin {"stopped", "joinLooper", "gone"}
    BY <2>1 DEF Places
  <2>3. /\ ctl.at = "load"
        /\ UNCHANGED <<mJobQueue, mRunThread, worker, job, pusher, count, engine, trLooper>>
    BY <1>7 DEF Steady!loadAaiLanguage
  <2> QED BY <2>1, <2>2, <2>3, Walks
<1>8. CASE Steady!ClearJobQueue \/ Steady!ClearUnlocked
  <2>1. PICK where \in {"await", "stop"} : Steady!At(where)
    BY <1>8 DEF Steady!ClearJobQueue, Steady!ClearUnlocked
  <2>2. /\ ctl.at \in {"clear", "cleared"} /\ Steady!DeleteJobs
        /\ UNCHANGED <<mRunThread, worker, job, pusher, count, engine, trLooper>>
    BY <1>8 DEF Steady!ClearJobQueue, Steady!ClearUnlocked
  <2>3. mJobQueue' \in Seq(Jobs) /\ Len(mJobQueue') = 0
    BY <2>2, Deletes
  <2>4. /\ where \in Places
        /\ ctl'.at = where /\ ctl'.ends = ctl.ends /\ ctl'.lang = ctl.lang
        /\ {"at", "lang", "ends"} \subseteq DOMAIN ctl'
    BY <2>1, Goes DEF Guarded, Places
  <2>5. Typed'
    BY <2>2, <2>3, <2>4 DEF Guarded, Typed
  <2> QED BY <2>1, <2>2, <2>3, <2>4, <2>5 DEF Guarded, EndAwaited, FlagTells, TakenLate
<1>9. CASE Steady!WaitForCompletion
  <2>1. /\ ctl.at = "await" /\ Steady!At("cleared") /\ "cleared" \in Places
        /\ UNCHANGED <<mJobQueue, mRunThread, worker, job, pusher, count, engine, trLooper>>
    BY <1>9 DEF Steady!WaitForCompletion, Places
  <2> QED BY <2>1, Walks
<1>10. CASE Steady!Stop
  <2>1. /\ ctl.at = "stop" /\ Steady!QueueJob(Steady!Exit)
        /\ UNCHANGED <<mRunThread, worker, job, pusher, count, engine, trLooper>>
    BY <1>10 DEF Steady!Stop
  <2>2. /\ mJobQueue' \in Seq(Jobs)
        /\ \A i \in 1..Len(mJobQueue') :
             \/ i \in 1..Len(mJobQueue) /\ mJobQueue'[i] = mJobQueue[i]
             \/ mRunThread /\ mJobQueue'[i] = Steady!Exit
    BY <2>1, Queues, JobKinds DEF Guarded, Typed
  <2>3. CASE mRunThread
    <3>1. Steady!At("join") /\ "join" \in Places
      BY <1>10, <2>3 DEF Steady!Stop, Places
    <3>2. /\ ctl'.at = "join" /\ ctl'.ends = ctl.ends /\ ctl'.lang = ctl.lang
          /\ {"at", "lang", "ends"} \subseteq DOMAIN ctl'
      BY <3>1, Goes DEF Guarded
    <3>3. Typed'
      BY <2>1, <2>2, <3>1, <3>2 DEF Guarded, Typed
    <3> QED BY <2>1, <2>2, <2>3, <3>2, <3>3 DEF Guarded, EndAwaited, FlagTells, TakenLate
  <2>4. CASE ~mRunThread
    <3>1. Steady!At("stopped") /\ "stopped" \in Places
      BY <1>10, <2>4 DEF Steady!Stop, Places
    <3>2. mJobQueue' = mJobQueue
      BY <2>1, <2>4 DEF Steady!QueueJob
    <3>3. worker = "none"
      BY <2>1, <2>4 DEF Guarded, FlagTells
    <3> QED BY <2>1, <3>1, <3>2, <3>3, Walks
  <2> QED BY <2>3, <2>4
<1>11. CASE Steady!joinWorker
  <2>1. /\ ctl.at = "join" /\ worker = "ended" /\ worker' = "none"
        /\ Steady!DeleteJobs /\ Steady!At("stopped") /\ "stopped" \in Places
        /\ UNCHANGED <<mRunThread, job, pusher, count, engine, trLooper>>
    BY <1>11 DEF Steady!joinWorker, Steady!Joined, Places
  <2>2. mJobQueue' \in Seq(Jobs) /\ Len(mJobQueue') = 0
    BY <2>1, Deletes
  <2>3. /\ ctl'.at = "stopped" /\ ctl'.ends = ctl.ends /\ ctl'.lang = ctl.lang
        /\ {"at", "lang", "ends"} \subseteq DOMAIN ctl'
    BY <2>1, Goes DEF Guarded
  <2>4. Typed'
    BY <2>1, <2>2, <2>3 DEF Guarded, Typed
  <2> QED BY <2>1, <2>2, <2>3, <2>4 DEF Guarded, EndAwaited, FlagTells, TakenLate
<1>12. CASE Steady!stopLooper
  <2>1. /\ ctl.at = "stopped" /\ ctl.ends
        /\ trLooper' = [runs |-> FALSE, now |-> {}, later |-> {}]
        /\ Steady!At("joinLooper") /\ "joinLooper" \in Places
        /\ UNCHANGED <<mJobQueue, mRunThread, worker, job, pusher, count, engine>>
    BY <1>12 DEF Steady!stopLooper, Places
  <2>2. /\ ctl'.at = "joinLooper" /\ ctl'.ends = ctl.ends /\ ctl'.lang = ctl.lang
        /\ {"at", "lang", "ends"} \subseteq DOMAIN ctl'
    BY <2>1, Goes DEF Guarded
  <2>3. trLooper'.runs = FALSE /\ {"runs", "now", "later"} \subseteq DOMAIN trLooper'
    BY <2>1
  <2>4. Typed'
    BY <2>1, <2>2, <2>3 DEF Guarded, Typed
  <2> QED BY <2>1, <2>2, <2>3, <2>4 DEF Guarded, EndAwaited, FlagTells, TakenLate
<1>13. CASE Steady!joinLooper
  <2>1. /\ ctl.at = "joinLooper" /\ Steady!At("stopped") /\ "stopped" \in Places
        /\ UNCHANGED <<mJobQueue, mRunThread, worker, job, pusher, count, engine, trLooper>>
    BY <1>13 DEF Steady!joinLooper, Places
  <2>2. worker = "none"
    BY <2>1 DEF Guarded, TakenLate
  <2> QED BY <2>1, <2>2, Walks
<1>14. CASE Steady!deInitAai
  <2>1. /\ ctl.at = "stopped" /\ (ctl.ends => ~trLooper.runs) /\ engine' = "none"
        /\ UNCHANGED <<mJobQueue, mRunThread, worker, job, pusher, count, trLooper>>
    BY <1>14 DEF Steady!deInitAai
  <2>2. PICK where \in {"gone", "idle", "start"} : Steady!At(where) /\ (ctl.ends => where = "gone")
                                                  /\ (where = "gone" => ctl.ends)
    BY <1>14 DEF Steady!deInitAai
  <2>3. /\ where \in Places
        /\ ctl'.at = where /\ ctl'.ends = ctl.ends /\ ctl'.lang = ctl.lang
        /\ {"at", "lang", "ends"} \subseteq DOMAIN ctl'
    BY <2>2, Goes DEF Guarded, Places
  <2>4. Typed'
    BY <2>1, <2>3 DEF Guarded, Typed
  <2> QED BY <2>1, <2>2, <2>3, <2>4 DEF Guarded, EndAwaited, FlagTells, TakenLate
<1>15. CASE Steady!Start
  <2>1. /\ ctl.at = "start" /\ mRunThread' = TRUE
        /\ worker' = (IF mRunThread THEN worker ELSE "wait")
        /\ Steady!At("queue") /\ "queue" \in Places
        /\ UNCHANGED <<mJobQueue, job, pusher, count, engine, trLooper>>
    BY <1>15 DEF Steady!Start, Places
  <2>2. /\ ctl'.at = "queue" /\ ctl'.ends = ctl.ends /\ ctl'.lang = ctl.lang
        /\ {"at", "lang", "ends"} \subseteq DOMAIN ctl'
    BY <2>1, Goes DEF Guarded
  <2>3. Typed'
    BY <2>1, <2>2 DEF Guarded, Typed
  <2> QED BY <2>1, <2>2, <2>3 DEF Guarded, EndAwaited, FlagTells, TakenLate
<1>16. CASE Steady!queueLoad
  <2>1. /\ ctl.at = "queue" /\ Steady!QueueJob(Steady!Load(ctl.lang)) /\ Steady!At("idle")
        /\ "idle" \in Places
        /\ UNCHANGED <<mRunThread, worker, job, pusher, count, engine, trLooper>>
    BY <1>16 DEF Steady!queueLoad, Places
  <2>2. Steady!Load(ctl.lang) \in Jobs /\ Steady!Load(ctl.lang) # Steady!Exit
    BY JobKinds DEF Guarded, Typed
  <2>3. /\ mJobQueue' \in Seq(Jobs)
        /\ \A i \in 1..Len(mJobQueue') :
             \/ i \in 1..Len(mJobQueue) /\ mJobQueue'[i] = mJobQueue[i]
             \/ mRunThread /\ mJobQueue'[i] = Steady!Load(ctl.lang)
    BY <2>1, <2>2, Queues DEF Guarded, Typed
  <2>4. /\ ctl'.at = "idle" /\ ctl'.ends = ctl.ends /\ ctl'.lang = ctl.lang
        /\ {"at", "lang", "ends"} \subseteq DOMAIN ctl'
    BY <2>1, Goes DEF Guarded
  <2>5. Typed'
    BY <2>1, <2>3, <2>4 DEF Guarded, Typed
  <2>6. EndAwaited'
    BY <2>1, <2>2, <2>3, <2>4 DEF Guarded, EndAwaited
  <2> QED BY <2>1, <2>4, <2>5, <2>6 DEF Guarded, FlagTells, TakenLate
<1>17. CASE Steady!takeJob
  <2>1. /\ worker = "wait" /\ mJobQueue # <<>> /\ worker' = "run"
        /\ job' = Head(mJobQueue) /\ mJobQueue' = Tail(mJobQueue)
        /\ UNCHANGED <<mRunThread, pusher, count, engine, trLooper, ctl>>
    BY <1>17 DEF Steady!takeJob
  <2>2. /\ mJobQueue \in Seq(Jobs) /\ 1 \in 1..Len(mJobQueue) /\ Head(mJobQueue) = mJobQueue[1]
        /\ Tail(mJobQueue) \in Seq(Jobs)
        /\ \A i \in 1..Len(Tail(mJobQueue)) :
              i + 1 \in 1..Len(mJobQueue) /\ Tail(mJobQueue)[i] = mJobQueue[i + 1]
    BY <2>1 DEF Guarded, Typed
  <2>3. Typed'
    BY <2>1, <2>2 DEF Guarded, Typed
  <2>4. EndAwaited'
    BY <2>1, <2>2 DEF Guarded, EndAwaited
  <2> QED BY <2>1, <2>3, <2>4 DEF Guarded, FlagTells, TakenLate
<1>18. CASE Steady!executeExit
  <2>1. /\ worker = "run" /\ job = Steady!Exit /\ mRunThread' = FALSE /\ worker' = "done"
        /\ UNCHANGED <<mJobQueue, job, pusher, count, engine, trLooper, ctl>>
    BY <1>18 DEF Steady!executeExit
  <2>2. ctl.at = "join"
    BY <2>1 DEF Guarded, EndAwaited
  <2> QED BY <2>1, <2>2 DEF Guarded, Typed, EndAwaited, FlagTells, TakenLate
<1>19. CASE Steady!doLoadAaiLanguage \/ Steady!initEngine
  <2>1. /\ worker \in {"run", "init"} /\ worker' \in {"init", "done"}
        /\ UNCHANGED <<mJobQueue, mRunThread, job, pusher, count, trLooper, ctl>>
    BY <1>19 DEF Steady!doLoadAaiLanguage, Steady!initEngine
  <2> QED BY <2>1 DEF Guarded, Typed, EndAwaited, FlagTells, TakenLate
<1>20. CASE Steady!translateNothing \/ Steady!translateText \/ Steady!detected \/ Steady!hasMore
  <2>1. /\ worker \in {"run", "detect"} /\ worker' \in {"done", "detect"}
        /\ worker' = "detect" => engine = "ready"
        /\ trLooper' = trLooper \/ \E w : trLooper' = [trLooper EXCEPT !.now = @ \cup {w}]
        /\ UNCHANGED <<mJobQueue, mRunThread, job, pusher, count, engine, ctl>>
    BY <1>20 DEF Steady!translateNothing, Steady!translateText, Steady!detected, Steady!hasMore,
             Steady!reportResult,
                 Guarded, TakenLate
  <2>2. trLooper'.runs = trLooper.runs /\ {"runs", "now", "later"} \subseteq DOMAIN trLooper'
    BY <2>1 DEF Guarded, Typed
  <2> QED BY <2>1, <2>2 DEF Guarded, Typed, EndAwaited, FlagTells, TakenLate
<1>21. CASE Steady!jobDone
  <2>1. /\ worker = "done" /\ job' = None
        /\ worker' = (IF mRunThread THEN "wait" ELSE "ended")
        /\ UNCHANGED <<mJobQueue, mRunThread, pusher, count, engine, trLooper, ctl>>
    BY <1>21 DEF Steady!jobDone
  <2> QED BY <2>1 DEF Guarded, Typed, EndAwaited, FlagTells, TakenLate
<1>22. ASSUME NEW what \in {Steady!HAS_MORE, Steady!COMPLETE}, Steady!handleMessage(what) PROVE Guarded'
  <2>1. /\ trLooper' = [trLooper EXCEPT !.now = @ \ {what},
                                      !.later = (@ \ {what}) \cup Steady!Resent(what)]
        /\ UNCHANGED <<mJobQueue, mRunThread, worker, job, pusher, count, engine, ctl>>
    BY <1>22 DEF Steady!handleMessage
  <2>2. trLooper'.runs = trLooper.runs /\ {"runs", "now", "later"} \subseteq DOMAIN trLooper'
    BY <2>1 DEF Guarded, Typed
  <2> QED BY <2>1, <2>2 DEF Guarded, Typed, EndAwaited, FlagTells, TakenLate
<1>23. CASE Steady!HandleMessage
  BY <1>23 DEF Steady!HandleMessage, Guarded, Typed, EndAwaited, FlagTells, TakenLate
<1>24. CASE UNCHANGED Steady!trvars
  BY <1>24 DEF Guarded, Typed, EndAwaited, FlagTells, TakenLate
<1> QED BY <1>1, <1>2, <1>3, <1>4, <1>5, <1>6, <1>7, <1>8, <1>9, <1>10, <1>11, <1>12, <1>13,
           <1>14, <1>15, <1>16, <1>17, <1>18, <1>19, <1>20, <1>21, <1>22, <1>23, <1>24
        DEF Steady!Next, Steady!Call, Steady!Control, Steady!Worker, Steady!Looper

\* The engine is not taken from under a call of it, nor the looper from under the worker,
\* whatever languages there are and however the calls meet
\* (SubtitleAiTranslation.cpp:85-124, SubtitleWorkerThread).
THEOREM EngineOutlivesUseAlways == Steady!Spec => []EngineOutlivesUse
<1>1. Guarded => EngineOutlivesUse
  BY DEF Guarded, FlagTells, TakenLate, EngineOutlivesUse, Steady!EngineOutlivesUse
<1> QED BY <1>1, InitGuarded, NextGuarded, PTL DEF Steady!Spec
=============================================================================
