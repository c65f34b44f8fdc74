---------------------------- MODULE ClosedCaption ----------------------------
(***************************************************************************)
(* Closed captions: a session's parser (ClosedCaptionParser.cpp) creates   *)
(* the caption decoder (ClosedCaption.c), whose data thread reads packages *)
(* from the user data device and puts the decoded captions on a chain that *)
(* its render thread takes them from when the video has come to them.  The *)
(* monitor of the active format (UserDataAfd.cpp) opens the same device.   *)
(***************************************************************************)
EXTENDS UserdataDevice

CONSTANTS
    cc, afd,        \* the users of the device: data thread and AFD monitor
    MaxSessions,    \* bound: parsers made
    MaxRestarts,    \* bound: starts of the AFD monitor
    ClosesBeside    \* may the monitor stop while the data thread runs?

ASSUME ClosedCaptionAssumption == Users = {cc, afd} /\ cc # afd

VARIABLES
    parser,     \* where the parser thread is
    session,    \* where the thread that starts and stops the session is
    exit,       \* mThreadExitRequested
    decoder,    \* ClosedCaptionDecoder: does it exist, is it running?
    chain,      \* its captions, json_chain_head
    data,       \* where am_cc_data_thread() is
    render,     \* and am_cc_render_thread()
    monitor,    \* UserDataAfd: where it is, whether it exists and subscribes
    sessions, restarts  \* parsers made and monitors started so far
ccvars == <<parser, session, exit, decoder, chain, data, render, monitor, sessions, restarts>>
vars == <<devvars, ccvars>>

NoDecoder == [exists |-> FALSE, running |-> FALSE]

Init ==
    /\ DevInit
    /\ parser = "none" /\ session = "off" /\ exit = FALSE
    /\ decoder = NoDecoder /\ chain = << >>
    /\ data = "none" /\ render = "none"
    /\ monitor = [at |-> "off", exists |-> FALSE, subscribed |-> FALSE, leaving |-> "no"]
    /\ sessions = 0 /\ restarts = 0

Sessions == UNCHANGED <<sessions, restarts>>
SameMonitor == UNCHANGED <<monitor, restarts>>

-----------------------------------------------------------------------------
(* The session: Subtitle makes a parser, starts its thread, and stops and  *)
(* destroys it in the end.                                                 *)

startParser ==
    /\ session = "off" /\ sessions < MaxSessions
    /\ sessions' = sessions + 1
    /\ session' = "on" /\ parser' = "parse" /\ exit' = FALSE
    /\ UNCHANGED <<devvars, decoder, chain, data, render, monitor, restarts>>

stopParser ==
    /\ session = "on"
    /\ session' = "joining" /\ exit' = TRUE
    /\ UNCHANGED <<devvars, parser, decoder, chain, data, render, monitor>> /\ Sessions

ParserJoined == parser = "ended"
joinParser ==
    /\ session = "joining" /\ ParserJoined
    /\ session' = "destroying"
    /\ UNCHANGED <<devvars, parser, exit, decoder, chain, data, render, monitor>> /\ Sessions

\* The parser thread: parse() starts the decoder at its first turn.  The
\* format of the video takes up to two seconds to learn.
parse ==
    /\ parser = "parse"
    /\ parser' = IF exit THEN "ended" ELSE "format"
    /\ UNCHANGED <<devvars, session, exit, decoder, chain, data, render, monitor>> /\ Sessions

\* startAtscCc(): creates the decoder and starts its threads; when that
\* fails the decoder is destroyed.
startAtscCc ==
    /\ parser = "format"
    /\ parser' = "play"
    /\ \/ /\ decoder' = [exists |-> TRUE, running |-> TRUE]
          /\ data' = "open" /\ render' = "wait"
       \/ UNCHANGED <<decoder, data, render>>
    /\ UNCHANGED <<devvars, session, exit, chain, monitor>> /\ Sessions

play ==
    /\ parser = "play" /\ exit
    /\ parser' = "ended"
    /\ UNCHANGED <<devvars, session, exit, decoder, chain, data, render, monitor>> /\ Sessions

\* ~ClosedCaptionParser(), by way of ClosedCaptionStop()
ClosedCaptionStop ==
    /\ session = "destroying"
    /\ session' = "stopping"
    /\ decoder' = [decoder EXCEPT !.running = FALSE]
    /\ UNCHANGED <<devvars, parser, exit, chain, data, render, monitor>> /\ Sessions

\* a mistake that is easily made: only the rendering thread is joined
RenderJoined == render \in {"none", "ended"}
ThreadsJoined == data \in {"none", "ended"} /\ render \in {"none", "ended"}
ClosedCaptionDestroy ==
    /\ session = "stopping" /\ (decoder.exists => ThreadsJoined)
    /\ session' = "off"
    /\ decoder' = NoDecoder /\ chain' = << >>
    /\ data' = IF data = "ended" THEN "none" ELSE data
    /\ render' = IF render = "ended" THEN "none" ELSE render
    /\ UNCHANGED <<devvars, parser, exit, monitor>> /\ Sessions

-----------------------------------------------------------------------------
(* am_cc_data_thread()                                                     *)

SameSession == UNCHANGED <<parser, session, exit, decoder, render, monitor>> /\ Sessions

data_opens ==
    /\ data = "open"
    /\ \/ UserdataOpen(cc) /\ data' = "mode"
       \/ OpenFails(cc) /\ data' = "ended"
    /\ UNCHANGED chain /\ SameSession

data_mode ==
    /\ data = "mode"
    /\ UserdataSetMode(cc, "cc")
    /\ data' = "loop"
    /\ UNCHANGED chain /\ SameSession

\* the head of the loop
data_loop ==
    /\ data = "loop" /\ call[cc] = "idle"
    /\ data' = IF decoder.running THEN "read" ELSE "close"
    /\ UNCHANGED <<devvars, chain>> /\ SameSession

data_reads ==
    /\ data = "read"
    /\ \/ ReadBegins(cc) /\ data' = "reading"
       \* the device is no longer open
       \/ adp = Free /\ dev.count = 0 /\ UNCHANGED devvars /\ data' = "loop"
    /\ UNCHANGED chain /\ SameSession

data_waits ==
    /\ data = "reading"
    /\ ReadLocks(cc) \/ userdata_package_poll(cc) \/ Signalled(cc) \/ TimesOut(cc)
    /\ data' = IF call'[cc] = "idle" THEN "loop" ELSE data
    /\ UNCHANGED chain /\ SameSession

\* What was read is decoded; the handler of the caption's event appends it.
data_decodes ==
    /\ data = "reading" /\ userdata_package_read(cc)
    /\ data' = "loop"
    /\ chain' = IF decoder.running /\ ring # << >> THEN Append(chain, Head(ring)) ELSE chain
    /\ SameSession

data_closes ==
    /\ data = "close"
    /\ \/ UserdataClose(cc) /\ UNCHANGED data
       \/ CloseOfClosed(cc) /\ data' = "ended"
       \/ CloseJoins(cc) /\ data' = "ended"
    /\ UNCHANGED chain /\ SameSession

-----------------------------------------------------------------------------
(* am_cc_render_thread() holds cc->lock but while it waits.                *)

\* Each time it wakes up, for a caption or after 10 ms, it takes what the
\* video has come to - some captions from the front - and looks whether the
\* decoder still runs.  In the end it clears the chain.
render_wakes ==
    /\ render = "wait"
    /\ IF decoder.running
       THEN /\ \E n \in 0 .. Len(chain) : chain' = SubSeq(chain, n + 1, Len(chain))
            /\ UNCHANGED render
       ELSE chain' = << >> /\ render' = "ended"
    /\ UNCHANGED <<devvars, parser, session, exit, decoder, data, monitor>> /\ Sessions

-----------------------------------------------------------------------------
(* UserDataAfd, used by the thread that serves the HIDL calls.             *)

SameCaptions == UNCHANGED <<parser, session, exit, decoder, chain, data, render, sessions>>

\* start() leaves the opening to a thread of its own, run().
monitor_starts ==
    /\ monitor.at = "off" /\ restarts < MaxRestarts
    /\ restarts' = restarts + 1
    /\ monitor' = [monitor EXCEPT !.at = "open", !.exists = TRUE]
    /\ UNCHANGED devvars /\ SameCaptions
monitor_opens ==
    /\ monitor.at = "open"
    /\ \/ UserdataOpen(afd) /\ monitor' = [monitor EXCEPT !.at = "mode"]
       \/ OpenFails(afd) /\ monitor' = [monitor EXCEPT !.at = "on"]
    /\ SameCaptions /\ UNCHANGED restarts
monitor_mode ==
    /\ monitor.at = "mode"
    /\ UserdataSetMode(afd, "afd")
    /\ monitor' = [monitor EXCEPT !.at = "on", !.subscribed = TRUE]
    /\ SameCaptions /\ UNCHANGED restarts

\* stop(), for setPipId() or for userDataClose(), which then destroys it:
\* joins run(), unsubscribes - AmlogicEventUnsubscribe() waits for the
\* callbacks - and closes the device, since the caption mode is always on.
monitor_stops(why) ==
    /\ monitor.at = "on"
    /\ ClosesBeside \/ data \in {"none", "ended"}
    /\ monitor' = [monitor EXCEPT !.at = "unsubscribe", !.leaving = why]
    /\ UNCHANGED devvars /\ SameCaptions /\ UNCHANGED restarts
\* a mistake that is easily made: the callback may still be running
CallbackRuns == FALSE
CallbackRunning == thread = "called"
monitor_unsubscribes ==
    /\ monitor.at = "unsubscribe" /\ ~CallbackRunning
    /\ monitor' = [monitor EXCEPT !.at = "close", !.subscribed = FALSE]
    /\ UNCHANGED devvars /\ SameCaptions /\ UNCHANGED restarts
monitor_closes ==
    /\ monitor.at = "close"
    /\ ClosesBeside \/ data \in {"none", "ended"} \/ call[afd] = "closing"
    /\ \/ UserdataClose(afd) /\ UNCHANGED monitor
       \/ /\ CloseOfClosed(afd) \/ CloseJoins(afd)
          /\ monitor' = [monitor EXCEPT !.at = "off", !.leaving = "no",
                                        !.exists = @ /\ monitor.leaving # "destroy"]
    /\ SameCaptions /\ UNCHANGED restarts

\* The device thread calls back under the lock of AmlogicEvent.c.
thread_calls ==
    /\ thread = "event"
    /\ thread' = IF monitor.subscribed THEN "called" ELSE "poll"
    /\ UNCHANGED <<adp, lock, dev, ring, call, packages, monitor, restarts>> /\ SameCaptions
thread_returns ==
    /\ thread = "called"
    /\ thread' = "poll"
    /\ UNCHANGED <<adp, lock, dev, ring, call, packages, monitor, restarts>> /\ SameCaptions

ThreadTakes == (\E kind \in {"write", "event"} : thread_takes(kind)) /\ UNCHANGED ccvars
ThreadWrites == userdata_package_write /\ UNCHANGED ccvars
ThreadEnds == thread_ends /\ UNCHANGED ccvars
Data == data_opens \/ data_mode \/ data_loop \/ data_reads \/ data_waits \/ data_decodes \/ data_closes
Parser == parse \/ startAtscCc \/ play
Session == joinParser \/ ClosedCaptionStop \/ ClosedCaptionDestroy
Monitor == monitor_opens \/ monitor_mode \/ monitor_unsubscribes \/ monitor_closes

Next ==
    \/ startParser \/ stopParser \/ Session \/ Parser
    \/ Data \/ render_wakes
    \/ ThreadTakes \/ ThreadWrites \/ ThreadEnds \/ thread_calls \/ thread_returns
    \/ monitor_starts \/ (\E why \in {"restart", "destroy"} : monitor_stops(why)) \/ Monitor

\* The threads are scheduled; who waits for a mutex that is free again and
\* again gets it at last.
Fairness ==
    /\ WF_vars(Session) /\ WF_vars(Parser) /\ WF_vars(render_wakes)
    /\ SF_vars(Data) /\ SF_vars(Monitor) /\ SF_vars(ThreadWrites)
    /\ WF_vars(ThreadEnds) /\ WF_vars(thread_calls) /\ WF_vars(thread_returns)
Spec == Init /\ [][Next]_vars
FairSpec == Spec /\ Fairness

-----------------------------------------------------------------------------
(* What captions promise.                                                  *)

TypeOK ==
    /\ DevTypeOK
    /\ parser \in {"none", "parse", "format", "play", "ended"}
    /\ session \in {"off", "on", "joining", "destroying", "stopping"}
    /\ decoder \in [exists : BOOLEAN, running : BOOLEAN]
    /\ chain \in Seq(1 .. MaxPackages)
    /\ data \in {"none", "open", "mode", "loop", "read", "reading", "close", "ended"}
    /\ render \in {"none", "wait", "ended"}
    /\ monitor \in [at : {"off", "open", "mode", "on", "unsubscribe", "close"},
                    exists : BOOLEAN, subscribed : BOOLEAN, leaving : {"no", "restart", "destroy"}]

\* The device thread and a reader use the ring and dev->lock only while they
\* exist: UserdataClose() joins the thread before it destroys them.
RingOutlivesUse ==
    thread \in {"poll", "write"} \/ lock # Free \/ call[cc] \in {"lock", "wait"} => dev.live

\* A callback of the device thread runs only while there is the monitor whose
\* instance it has taken.
CallbackHasMonitor == thread = "called" => monitor.exists /\ monitor.subscribed

\* When the session is over, none of its decoder's threads is left behind:
\* they would use the freed decoder and keep the device open for ever.
NoThreadLeft ==
    session = "off" =>
        /\ data = "none" /\ render = "none" /\ parser \in {"none", "ended"} /\ ~decoder.exists
        /\ monitor.at = "off" => dev.count = 0

\* A session that is stopped is gone in the end, whatever its threads wait for.
StopEnds == session = "joining" ~> session = "off"
=============================================================================
