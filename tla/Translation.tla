---------------------------- MODULE Translation ----------------------------
(***************************************************************************)
(* The translation of texts (subtitle/ai_translation): a text that is to   *)
(* be shown waits in mItemQueue while a worker thread, which takes jobs    *)
(* from a queue of its own, has an engine translate it; the result is      *)
(* written into the first item that waits, and a looper thread is sent a   *)
(* message to hand that item to the presentation.  A message is kept       *)
(* coming: every one that is handled is sent again, to come after 10 s.    *)
(*                                                                         *)
(* Four threads meet here: the looper of the presentation pushes texts, a  *)
(* binder thread sets languages, seeks and ends it all, and the worker and *)
(* the looper of this module.  mMutex guards the items, mJobQueueMutex the *)
(* jobs; what the binder thread reads outside of them is read in a step of *)
(* its own.                                                                *)
(*                                                                         *)
(* The engine is a library that is not in the repository: a call of detect *)
(* reports some parts of a text and ends, or fails.  What a text says is   *)
(* left out, and no text is empty.                                         *)
(***************************************************************************)
EXTENDS Naturals, Sequences

CONSTANTS
    Languages,      \* languages that are available
    LoadFails,      \* may the engine refuse a language?
    MaxTexts,       \* bound: texts pushed
    MaxLoads,       \* bound: languages set
    MaxSeeks,       \* bound: seeks
    None

VARIABLES
    mItemQueue,     \* the texts that wait, by number
    mJobQueue,      \* jobs of the worker
    mRunThread,
    worker,         \* where the worker thread is
    job,            \* the job it executes: mProcessingJob, while there is one
    engine,         \* Mt_Handler and mIsAiTranslationReady
    mTargetLanguage,
    mStopTranslation,
    mLooper,        \* the looper: what is to be handled now and after a while
    looper,         \* and what its thread is handling
    pusher,         \* the text that is being pushed, after mMutex was taken
    ctl,            \* where the binder thread is, and the language it sets
    count,          \* texts, languages and seeks so far
    lost            \* history: texts whose job was refused or deleted

items == <<mItemQueue, pusher, lost>>
jobs == <<mJobQueue, mRunThread, worker, job>>
ai == <<engine, mTargetLanguage, mStopTranslation>>
loopers == <<mLooper, looper>>
trvars == <<items, jobs, ai, loopers, ctl, count>>

HAS_MORE == "hasMore"
COMPLETE == "complete"
Texts == 1 .. MaxTexts

Load(lang) == [what |-> "load", of |-> lang]
Text(i) == [what |-> "text", of |-> i]
Exit == [what |-> "exit", of |-> None]

At(where) == ctl' = [ctl EXCEPT !.at = where]

Init ==
    /\ mItemQueue = << >> /\ pusher = None /\ lost = {}
    /\ mJobQueue = << >> /\ mRunThread = FALSE /\ worker = "none" /\ job = None
    /\ engine = "none" /\ mTargetLanguage = None /\ mStopTranslation = FALSE
    /\ mLooper = [runs |-> TRUE, now |-> {}, later |-> {}] /\ looper = None
    /\ ctl = [at |-> "idle", lang |-> None, ends |-> FALSE]
    /\ count = [texts |-> 0, loads |-> 0, seeks |-> 0]

TypeOK ==
    /\ mItemQueue \in Seq(Texts) /\ pusher \in Texts \cup {None} /\ lost \subseteq Texts
    /\ \A i \in DOMAIN mJobQueue :
          mJobQueue[i] \in {Exit} \cup {Load(l) : l \in Languages} \cup {Text(t) : t \in Texts}
    /\ mRunThread \in BOOLEAN
    /\ worker \in {"none", "wait", "run", "init", "detect", "done", "ended"}
    /\ engine \in {"none", "ready"} /\ mTargetLanguage \in Languages \cup {None}
    /\ mLooper.now \cup mLooper.later \subseteq {HAS_MORE, COMPLETE}
    /\ looper \in {None, HAS_MORE, COMPLETE}

mMutexFree == pusher = None

-----------------------------------------------------------------------------
(* SubtitleWorkerThread's queue of jobs.                                   *)

\* The texts of the jobs there are.
Queued == {mJobQueue[i].of : i \in {k \in DOMAIN mJobQueue : mJobQueue[k].what = "text"}}
DeleteJobs == mJobQueue' = << >> /\ lost' = lost \cup Queued

\* QueueJob() refuses a job when the thread does not run.
QueueJob(j) == mJobQueue' = IF mRunThread THEN Append(mJobQueue, j) ELSE mJobQueue

hasUncompletedJob == mJobQueue # << >> \/ job # None

-----------------------------------------------------------------------------
(* The looper of the presentation pushes a text.                           *)

Running == mRunThread

\* It found the thread running, took mMutex and queues the item.
push2Translate ==
    /\ ~ctl.ends /\ mMutexFree /\ count.texts < MaxTexts /\ Running
    /\ count' = [count EXCEPT !.texts = @ + 1]
    /\ mItemQueue' = Append(mItemQueue, count.texts + 1)
    /\ pusher' = count.texts + 1
    /\ UNCHANGED <<lost, jobs, ai, loopers, ctl>>

\* And the job, which is refused if the thread has been stopped meanwhile.
queueText ==
    /\ pusher # None
    /\ QueueJob(Text(pusher))
    /\ lost' = IF mRunThread THEN lost ELSE lost \cup {pusher}
    /\ pusher' = None
    /\ UNCHANGED <<mItemQueue, mRunThread, worker, job, ai, loopers, ctl, count>>

\* Without a thread a text is shown as it is.
pushUntranslated ==
    /\ ~ctl.ends /\ pusher = None /\ count.texts < MaxTexts /\ ~Running
    /\ count' = [count EXCEPT !.texts = @ + 1]
    /\ UNCHANGED <<items, jobs, ai, loopers, ctl>>

-----------------------------------------------------------------------------
(* The binder thread.                                                      *)

\* resetForSeek(), under mMutex.
Reset ==
    /\ mMutexFree
    /\ mStopTranslation' = (mStopTranslation \/ engine = "ready")
    /\ mItemQueue' = << >>
    /\ UNCHANGED <<pusher, lost, jobs, engine, mTargetLanguage, loopers>>

resetForSeek ==
    /\ ctl.at = "idle" /\ count.seeks < MaxSeeks
    /\ count' = [count EXCEPT !.seeks = @ + 1]
    /\ Reset /\ UNCHANGED ctl

\* Presentation::setSubTranslationLanguage(): a reset, then loadAaiLanguage().
setSubTranslationLanguage(lang) ==
    /\ ctl.at = "idle" /\ count.loads < MaxLoads
    /\ count' = [count EXCEPT !.loads = @ + 1]
    /\ Reset /\ ctl' = [ctl EXCEPT !.at = "load", !.lang = lang]

Leaves == ctl.lang = None \/ mTargetLanguage \notin {None, ctl.lang}

loadAaiLanguage ==
    /\ ctl.at = "load"
    /\ At(IF ~Leaves THEN "start" ELSE IF hasUncompletedJob THEN "clear" ELSE "stop")
    /\ UNCHANGED <<items, jobs, ai, loopers, count>>

\* ClearJobQueue(true): take the jobs there are ...
ClearJobQueue ==
    /\ ctl.at = "clear"
    /\ DeleteJobs /\ At("await")
    /\ UNCHANGED <<mItemQueue, pusher, mRunThread, worker, job, ai, loopers, count>>

\* ... wait for the one being executed, and for all that came meanwhile ...
WaitForCompletion ==
    /\ ctl.at = "await" /\ ~(mRunThread /\ hasUncompletedJob)
    /\ At("cleared")
    /\ UNCHANGED <<items, jobs, ai, loopers, count>>

\* ... and clear the queue again, without its lock.
ClearUnlocked ==
    /\ ctl.at = "cleared"
    /\ DeleteJobs /\ At("stop")
    /\ UNCHANGED <<mItemQueue, pusher, mRunThread, worker, job, ai, loopers, count>>

\* The end of the thread is a job that every job before it precedes.
StopByFlag ==
    /\ ctl.at = "stop"
    /\ mRunThread' = FALSE
    /\ At(IF mRunThread THEN "join" ELSE "stopped")
    /\ UNCHANGED <<items, mJobQueue, worker, job, ai, loopers, count>>
Stop ==
    /\ ctl.at = "stop"
    /\ QueueJob(Exit)
    /\ At(IF mRunThread THEN "join" ELSE "stopped")
    /\ UNCHANGED <<items, mRunThread, worker, job, ai, loopers, count>>

NotJoined == TRUE
Joined == worker = "ended"

joinWorker ==
    /\ ctl.at = "join" /\ Joined
    /\ worker' = IF worker = "ended" THEN "none" ELSE worker
    /\ DeleteJobs /\ At("stopped")
    /\ UNCHANGED <<mItemQueue, pusher, mRunThread, job, ai, loopers, count>>

\* Either the engine goes next, or the looper before it: the end.
stopLooper ==
    /\ ctl.at = "stopped" /\ ctl.ends /\ mLooper.runs
    /\ mLooper' = [runs |-> FALSE, now |-> {}, later |-> {}]
    /\ At("joinLooper")
    /\ UNCHANGED <<items, jobs, ai, looper, count>>

joinLooper ==
    /\ ctl.at = "joinLooper" /\ looper = None
    /\ At("stopped")
    /\ UNCHANGED <<items, jobs, ai, loopers, count>>

deInitAai ==
    /\ ctl.at = "stopped" /\ (ctl.ends => ~mLooper.runs)
    /\ engine' = "none" /\ mTargetLanguage' = None
    /\ At(IF ctl.ends THEN "gone" ELSE IF ctl.lang = None THEN "idle" ELSE "start")
    /\ UNCHANGED <<items, jobs, mStopTranslation, loopers, count>>

Start ==
    /\ ctl.at = "start"
    /\ mRunThread' = TRUE
    /\ worker' = IF mRunThread THEN worker ELSE "wait"
    /\ At("queue")
    /\ UNCHANGED <<items, mJobQueue, job, ai, loopers, count>>

queueLoad ==
    /\ ctl.at = "queue"
    /\ QueueJob(Load(ctl.lang)) /\ At("idle")
    /\ UNCHANGED <<items, mRunThread, worker, job, ai, loopers, count>>

\* ~SubtitleAiTranslation(), when no text is being pushed.
destroy ==
    /\ ctl.at = "idle"
    /\ Reset /\ ctl' = [ctl EXCEPT !.at = "stop", !.ends = TRUE]
    /\ UNCHANGED count

Call == \/ resetForSeek
        \/ \E lang \in Languages \cup {None} : setSubTranslationLanguage(lang)
        \/ destroy
Control == \/ loadAaiLanguage
           \/ ClearJobQueue \/ WaitForCompletion \/ ClearUnlocked
           \/ Stop \/ joinWorker \/ stopLooper \/ joinLooper
           \/ deInitAai \/ Start \/ queueLoad

-----------------------------------------------------------------------------
(* The worker.                                                             *)

takeJob ==
    /\ worker = "wait" /\ mJobQueue # << >>
    /\ job' = Head(mJobQueue) /\ mJobQueue' = Tail(mJobQueue) /\ worker' = "run"
    /\ UNCHANGED <<items, mRunThread, ai, loopers, ctl, count>>

executeExit ==
    /\ worker = "run" /\ job = Exit
    /\ mRunThread' = FALSE /\ worker' = "done"
    /\ UNCHANGED <<items, mJobQueue, job, ai, loopers, ctl, count>>

\* doLoadAaiLanguage(): what was there is unloaded before the engine is made.
doLoadAaiLanguage ==
    /\ worker = "run" /\ job.what = "load"
    /\ engine' = "none" /\ mTargetLanguage' = None /\ worker' = "init"
    /\ UNCHANGED <<items, mJobQueue, mRunThread, job, mStopTranslation, loopers, ctl, count>>

initEngine ==
    /\ worker = "init"
    /\ \/ engine' = "ready" /\ mTargetLanguage' = job.of
       \/ LoadFails /\ UNCHANGED <<engine, mTargetLanguage>>
    /\ worker' = "done"
    /\ UNCHANGED <<items, mJobQueue, mRunThread, job, mStopTranslation, loopers, ctl, count>>

\* reportResult(): the first item that waits gets the text, under mMutex.
reportResult(what) ==
    /\ mMutexFree
    /\ mLooper' = IF mItemQueue = << >> THEN mLooper
                  ELSE [mLooper EXCEPT !.now = @ \cup {what}]
    /\ UNCHANGED looper

\* translateText(): "Return original text as AI doesn't work", or begin.
translateNothing ==
    /\ worker = "run" /\ job.what = "text" /\ engine # "ready"
    /\ reportResult(COMPLETE) /\ worker' = "done"
    /\ UNCHANGED <<items, mJobQueue, mRunThread, job, ai, ctl, count>>

translateText ==
    /\ worker = "run" /\ job.what = "text" /\ engine = "ready"
    /\ mStopTranslation' = FALSE /\ worker' = "detect"
    /\ UNCHANGED <<items, mJobQueue, mRunThread, job, engine, mTargetLanguage, loopers, ctl,
                   count>>

\* onAaiCallback(): a part of the text.
hasMore ==
    /\ worker = "detect" /\ ~mStopTranslation
    /\ reportResult(HAS_MORE)
    /\ UNCHANGED <<items, jobs, ai, ctl, count>>

\* The last part, or detect() fails, of itself or since it is told to stop.
detected ==
    /\ worker = "detect"
    /\ reportResult(COMPLETE) /\ worker' = "done"
    /\ UNCHANGED <<items, mJobQueue, mRunThread, job, ai, ctl, count>>

jobDone ==
    /\ worker = "done"
    /\ job' = None /\ worker' = IF mRunThread THEN "wait" ELSE "ended"
    /\ UNCHANGED <<items, mJobQueue, mRunThread, ai, loopers, ctl, count>>

Worker == \/ takeJob \/ executeExit \/ doLoadAaiLanguage \/ initEngine
          \/ translateNothing \/ translateText \/ detected \/ jobDone

-----------------------------------------------------------------------------
(* The looper of this module.                                              *)

NotResent(what) == {}
Resent(what) == {what}
\* LooperMessageProcess::handleMessage(): all messages of the kind go, one comes again.
handleMessage(what) ==
    /\ looper = None /\ mLooper.runs
    /\ what \in mLooper.now \cup mLooper.later
    /\ looper' = what
    /\ mLooper' = [mLooper EXCEPT !.now = @ \ {what},
                                  !.later = (@ \ {what}) \cup Resent(what)]
    /\ UNCHANGED <<items, jobs, ai, ctl, count>>

\* SubtitleAiTranslation::HandleMessage(), under mMutex: the first item is shown, and
\* leaves the queue when it is complete.
HandleMessage ==
    /\ looper # None /\ mMutexFree
    /\ mItemQueue' = IF mItemQueue # << >> /\ ~mStopTranslation /\ looper = COMPLETE
                     THEN Tail(mItemQueue) ELSE mItemQueue
    /\ looper' = None
    /\ UNCHANGED <<pusher, lost, jobs, ai, mLooper, ctl, count>>

Looper == (\E what \in {HAS_MORE, COMPLETE} : handleMessage(what)) \/ HandleMessage

Next == \/ push2Translate \/ queueText \/ pushUntranslated
        \/ Call \/ Control \/ Worker \/ hasMore \/ Looper

Spec == Init /\ [][Next]_trvars

\* Threads go on; a call of the engine ends, and the 10 s of a message pass.  Nobody has
\* to push, to seek or to set a language.
Fairness == /\ WF_trvars(queueText) /\ WF_trvars(Control) /\ WF_trvars(Worker)
            /\ WF_trvars(HandleMessage)
            /\ SF_trvars(handleMessage(COMPLETE))
FairSpec == Spec /\ Fairness

-----------------------------------------------------------------------------
(* Properties.                                                             *)

\* The engine is not taken from under a call of it, nor the looper from under the
\* worker, whoever sets languages and however the end comes
\* (SubtitleAiTranslation.cpp:85-101, 121-124).
EngineOutlivesUse ==
    /\ worker = "detect" => engine = "ready"
    /\ worker \notin {"none", "ended"} => mLooper.runs

\* Every call of the binder thread returns, although it waits for a worker that may be
\* in the middle of a text and may be given more
\* (SubtitleAiTranslation.cpp:114-123).
CallsReturn == ctl.at \notin {"idle", "gone"} ~> ctl.at \in {"idle", "gone"}

\* A text that waits is shown, or a seek removes it, unless its job was lost in a change
\* of languages: "Return original text as AI doesn't work" (SubtitleAiTranslation.cpp:233).
Waits(i) == \E k \in DOMAIN mItemQueue : mItemQueue[k] = i
TextShown == \A i \in Texts : Waits(i) ~> (~Waits(i) \/ i \in lost)
=============================================================================
