------------------------------- MODULE Server -------------------------------
(***************************************************************************)
(* The three sides of the server, which share no state here: connections,  *)
(* services and queues (SubtitleServer), the callbacks of the clients      *)
(* (ServerCallbacks), and what clients ask for (SubtitleParams).  A        *)
(* behaviour chooses one of them at the start and the others stay as they  *)
(* are.                                                                    *)
(***************************************************************************)
EXTENDS SubtitleServer

CONSTANTS
    Callbacks, Displays, MaxNotified, DiesInCall, Null,     \* of ServerCallbacks
    Native, Apps, Requests, AppCalls, Spoken, Rapid, MaxAsked   \* of SubtitleParams

VARIABLES part,
          clients, fallback, playing, stage, alive, linked, reports, notified, told,
          handles, held, param, started, source, session, lastOpen, calls, asked, count, aborted

Cb == INSTANCE ServerCallbacks WITH started <- playing
Ask == INSTANCE SubtitleParams WITH service <- held, opened <- lastOpen, call <- calls

callbacks == <<clients, fallback, playing, stage, alive, linked, reports, notified, told>>
parameters == <<handles, held, param, started, source, session, lastOpen, calls, asked, count,
                aborted>>

ServerInit ==
    /\ part \in {"connections", "callbacks", "parameters"}
    /\ Init /\ Cb!Init /\ Ask!Init

ServerNext ==
    /\ UNCHANGED part
    /\ \/ part = "connections" /\ Next /\ UNCHANGED <<callbacks, parameters>>
       \/ part = "callbacks" /\ Cb!Next /\ UNCHANGED <<vars, parameters>>
       \/ part = "parameters" /\ Ask!Next /\ UNCHANGED <<vars, callbacks>>

ServerSpec == ServerInit /\ [][ServerNext]_<<part, vars, callbacks, parameters>>

-----------------------------------------------------------------------------
\* A client that lives keeps its callback (ServerCallbacks.CallbackKept).
CallbackKept == Cb!CallbackKept

\* Holes in the map hide nobody for long (ServerCallbacks.EveryoneIsTold).
EveryoneIsTold == Cb!EveryoneIsTold

\* A native client has what it asked for (SubtitleParams.RequestServed).
RequestServed == Ask!RequestServed
=============================================================================
