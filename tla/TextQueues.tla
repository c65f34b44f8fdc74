----------------------------- MODULE TextQueues -----------------------------
(***************************************************************************)
(* The two queues a text goes through behind the scheduler, which share no *)
(* state: its translation (Translation), with one language and with        *)
(* languages that fail to load, and the posting to the clients             *)
(* (CallbackQueue), where one thread can fill its shared memory while      *)
(* another posts and the looper delivers.  A behaviour chooses one of the  *)
(* three at the start.                                                     *)
(***************************************************************************)
EXTENDS CallbackQueue

CONSTANTS
    Languages, LoadFails, MaxTexts, MaxLoads, MaxSeeks, None,   \* of Translation
    MoreTexts, MoreLoads, MoreSeeks     \* its bounds while languages are switched

VARIABLES part,
          mItemQueue, pusher, lost, mJobQueue, mRunThread, worker, job,
          engine, mTargetLanguage, mStopTranslation, trLooper, looper, ctl, count

\* One language, texts and seeks; and languages that change.
Steady == INSTANCE Translation WITH mLooper <- trLooper
Switching == INSTANCE Translation WITH
    mLooper <- trLooper, LoadFails <- TRUE,
    MaxTexts <- MoreTexts, MaxLoads <- MoreLoads, MaxSeeks <- MoreSeeks

translation == <<mItemQueue, pusher, lost, mJobQueue, mRunThread, worker, job,
                 engine, mTargetLanguage, mStopTranslation, trLooper, looper, ctl, count>>

QueuesInit == part \in {"queue", "steady", "switching"} /\ Init /\ Steady!Init

QueuesNext ==
    /\ UNCHANGED part
    /\ \/ part = "queue" /\ Next /\ UNCHANGED translation
       \/ part = "steady" /\ Steady!Next /\ UNCHANGED vars
       \/ part = "switching" /\ Switching!Next /\ UNCHANGED vars

\* Translation.Fairness does not depend on its bounds.
FairQueues == /\ QueuesInit /\ [][QueuesNext]_<<part, vars, translation>>
              /\ WF_vars(part = "queue" /\ Looper) /\ Steady!Fairness

-----------------------------------------------------------------------------
\* Neither the engine nor the looper goes too early (Translation.EngineOutlivesUse).
EngineOutlivesUse == Steady!EngineOutlivesUse

\* Setting a language and the end of the translation return (Translation.CallsReturn).
CallsReturn == Steady!CallsReturn

\* A text that waits is shown in the end (Translation.TextShown).
TextShown == part = "steady" => Steady!TextShown
=============================================================================
