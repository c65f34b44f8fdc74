--------------------------- MODULE CallbackQueue ---------------------------
(***************************************************************************)
(* AndroidCallbackMessageQueue: the thread every report of the server goes *)
(* through on its way to the registered clients.  Any thread may post (the *)
(* parsers their events, the presentation looper the pictures); one looper *)
(* thread pops one entry per message under mLock and calls the handler     *)
(* outside it.                                                             *)
(*                                                                         *)
(* The Android looper is external: of its message queue only the pending   *)
(* MSG_CHECK_SUBDATA messages matter, and the handler removes all of them  *)
(* before it sends the next one, so a set holds what is pending: "now" for *)
(* sendMessage, "later" for sendMessageDelayed (which may come due at any  *)
(* moment).                                                                *)
(***************************************************************************)
EXTENDS Naturals, Sequences

CONSTANTS Posters,          \* threads that post
          MaxPosts          \* bound: posts of each of them

ASSUME MaxPostsAssumption == MaxPosts \in Nat

VARIABLES mSubtitleData,    \* the queued entries
          mLooper,          \* "null" until looperLoop has run, then "set"
          checks,           \* pending MSG_CHECK_SUBDATA messages
          inFlight,         \* the entry popped by handleMessage, not yet delivered
          poster,           \* per thread: "idle" or "allocated" (postDisplayData)
          posted,           \* per thread: number of posts it has begun
          accepted,         \* history: what was pushed under mLock, in order
          delivered         \* history: what the handler received, in order

vars == <<mSubtitleData, mLooper, checks, inFlight, poster, posted, accepted, delivered>>

\* An entry is identified by who posted it and which of its posts it is.
Events == Posters \X (1..MaxPosts)

\* Types; handleMessage holds at most one entry outside the lock.
TypeOK == /\ mSubtitleData \in Seq(Events)
          /\ mLooper \in {"null", "set"}
          /\ checks \subseteq {"now", "later"}
          /\ inFlight \in Seq(Events) /\ Len(inFlight) <= 1
          /\ poster \in [Posters -> {"idle", "allocated"}]
          /\ posted \in [Posters -> 0..MaxPosts]
          /\ accepted \in Seq(Events)
          /\ delivered \in Seq(Events)

Init == /\ mSubtitleData = <<>>
        /\ mLooper = "null"
        /\ checks = {}
        /\ inFlight = <<>>
        /\ poster = [p \in Posters |-> "idle"]
        /\ posted = [p \in Posters |-> 0]
        /\ accepted = <<>>
        /\ delivered = <<>>

-----------------------------------------------------------------------------
\* Thread entry: create the looper and arm it once.
looperLoop == /\ mLooper = "null"
              /\ mLooper' = "set"
              /\ checks' = {"later"}
              /\ UNCHANGED <<mSubtitleData, inFlight, poster, posted, accepted, delivered>>

\* The message a post leaves pending.
PostedChecks == checks \cup {"now"}
PostedChecksSilent == checks

\* New entries go to the back.
EnqueuedFirst(q, e) == <<e>> \o q
Enqueued(q, e) == Append(q, e)

\* Push an entry and send a message, both under mLock.
Push(e) == /\ mSubtitleData' = Enqueued(mSubtitleData, e)
           /\ accepted' = Append(accepted, e)
           /\ checks' = PostedChecks

\* onSubtitleDataEvent and the other event reports: one critical section.
onSubtitleEvent(p) ==
    /\ mLooper = "set"
    /\ poster[p] = "idle"
    /\ posted[p] < MaxPosts
    /\ posted' = [posted EXCEPT ![p] = @ + 1]
    /\ Push(<<p, posted[p] + 1>>)
    /\ UNCHANGED <<mLooper, inFlight, poster, delivered>>

\* postDisplayData copies the picture to shared memory before it takes mLock ...
allocateMemory(p) ==
    /\ mLooper = "set"
    /\ poster[p] = "idle"
    /\ posted[p] < MaxPosts
    /\ posted' = [posted EXCEPT ![p] = @ + 1]
    /\ \/ poster' = [poster EXCEPT ![p] = "allocated"]
       \/ poster' = poster           \* no memory: logged, and the call returns true
    /\ UNCHANGED <<mSubtitleData, mLooper, checks, inFlight, accepted, delivered>>

\* ... and queues it in a second step.
postDisplayData(p) ==
    /\ poster[p] = "allocated"
    /\ poster' = [poster EXCEPT ![p] = "idle"]
    /\ Push(<<p, posted[p]>>)
    /\ UNCHANGED <<mLooper, inFlight, posted, delivered>>

\* What one handleMessage takes from the queue and what it leaves behind.
Popped(q) == IF q = <<>> THEN <<>> ELSE <<Head(q)>>
RemainingNone(q) == <<>>
Remaining(q) == IF q = <<>> THEN <<>> ELSE Tail(q)

\* removeMessages, then the one message that keeps the looper going.
RearmLater(rest) == {"later"}
RearmOnlyForMore(rest) == IF Len(rest) > 1 THEN {"now"} ELSE {}
Rearm(rest) == IF rest # <<>> THEN {"now"} ELSE {"later"}

\* handleMessage up to mLock.unlock(): pop at most one entry and re-arm.
handleMessage(c) ==
    /\ c \in checks
    /\ inFlight = <<>>
    /\ inFlight' = Popped(mSubtitleData)
    /\ mSubtitleData' = Remaining(mSubtitleData)
    /\ checks' = Rearm(Remaining(mSubtitleData))
    /\ UNCHANGED <<mLooper, poster, posted, accepted, delivered>>

\* handleMessage after the unlock: hand the entry to the callback handler.
onSubtitleNotify == /\ inFlight # <<>>
                    /\ delivered' = Append(delivered, Head(inFlight))
                    /\ inFlight' = <<>>
                    /\ UNCHANGED <<mSubtitleData, mLooper, checks, poster, posted, accepted>>

Looper == \/ looperLoop
          \/ \E c \in {"now", "later"} : handleMessage(c)
          \/ onSubtitleNotify

Poster(p) == onSubtitleEvent(p) \/ allocateMemory(p) \/ postDisplayData(p)

Next == Looper \/ \E p \in Posters : Poster(p)

Spec == Init /\ [][Next]_vars

\* The looper thread never exits and a due message is always handled.
FairSpec == Spec /\ WF_vars(Looper)

-----------------------------------------------------------------------------
\* No wake-up is lost: whenever entries wait, a message that is due at once is
\* pending (posts under mLock, the handler re-arms before it unlocks).
NoLostWakeup == mSubtitleData # <<>> => "now" \in checks

\* Nothing is lost, duplicated or reordered between the push and the handler:
\* what was accepted is what was delivered, then what handleMessage holds, then
\* what is queued.
NothingLost == accepted = delivered \o inFlight \o mSubtitleData

\* Every accepted entry reaches the handler (the looper is never left asleep
\* with entries queued).
EventuallyDelivered ==
    \A p \in Posters : \A n \in 1..MaxPosts :
        (\E i \in 1..Len(accepted) : accepted[i] = <<p, n>>)
            ~> (\E i \in 1..Len(delivered) : delivered[i] = <<p, n>>)

\* The queue and the entry in the looper thread's hands are one FIFO channel.
Channel == INSTANCE EventChannel WITH channel <- inFlight \o mSubtitleData,
                                      out <- delivered
ImplementsChannel == Channel!Spec
=============================================================================
