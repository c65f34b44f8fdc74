--------------------------- MODULE SubtitleServer ---------------------------
(***************************************************************************)
(* The subtitle server: a process with a pool of binder threads that       *)
(* serves several client processes at once.  It keeps one service          *)
(* (mServiceClients[0], SUPPORT_MULTI is 0) and one message queue          *)
(* (mDataMQ) under mLock; a service keeps a session (its data source and   *)
(* its Subtitle) and the receiver that reads the queue.  close() and       *)
(* closeConnection() first fetch the service under mLock and then use it   *)
(* without the lock or under it again, so that calls of two clients        *)
(* interleave.  What happens inside a session is module Subtitle.          *)
(*                                                                         *)
(* The clients are SubtitleServerClient objects: they connect when they    *)
(* are made, reconnect when the server dies, and may die themselves        *)
(* without a word.  Sources are the contexts of SubtitleReportAPI.cpp,     *)
(* which have the server prepare the queue they write.                     *)
(***************************************************************************)
EXTENDS Naturals, FiniteSets, SequencesExt

CONSTANTS
    Clients,        \* client processes that use SubtitleServerClient
    Middleware,     \* those that open with OpenType::TYPE_MIDDLEWARE
    MaxServices,    \* bound: connections opened during a run
    MaxSessions,    \* bound: sessions started during a run
    MaxPrepares,    \* bound: sources created during a run
    MaxDeaths,      \* bound: deaths of the server and of clients together
    Retries,        \* initRemoteLocked() looks for the server so often again (3)
    PrepareBesideClose, \* may a source be created while a close is under way?
    None

ASSUME ServerAssumption ==
    /\ Middleware \subseteq Clients
    /\ {MaxServices, MaxSessions, MaxPrepares, MaxDeaths} \subseteq Nat
    /\ Retries \in Nat \ {0}
    /\ PrepareBesideClose \in BOOLEAN
    /\ None \notin Nat
    /\ None \notin [queue : Nat, clients : Seq(Nat)]

VARIABLES
    up,         \* is the server process there?
    slot,       \* mServiceClients[0]: a service or None
    service,    \* what each service holds
    services,   \* number of services made so far
    sessions,   \* number of sessions made so far
    dataMQ,     \* mDataMQ: a queue or None
    queues,     \* number of calls of prepareWritingQueue so far
    opened,     \* mOpenCalled and mLastOpenType
    call,       \* the call of each client that a binder thread works on
    client,     \* the SubtitleServerClient of each client
    deaths,     \* deaths so far
    prepared    \* the service and the queue of the last source, as it found them
vars == <<up, slot, service, services, sessions, dataMQ, queues, opened, call,
          client, deaths, prepared>>

Services == 1 .. MaxServices
NoService == [started |-> FALSE, session |-> None, receiver |-> None, stopping |-> FALSE]
NoCall == [at |-> "none", ss |-> None]
Idle == [state |-> "idle", tries |-> 0]

Init ==
    /\ up = TRUE
    /\ slot = None
    /\ service = [s \in Services |-> NoService]
    /\ services = 0
    /\ sessions = 0
    /\ dataMQ = None
    /\ queues = 0
    /\ opened = [called |-> FALSE, middleware |-> FALSE]
    /\ call = [c \in Clients |-> NoCall]
    /\ client = [c \in Clients |-> Idle]
    /\ deaths = 0
    /\ prepared = [service |-> None, queue |-> None]

-----------------------------------------------------------------------------
(* The services: shared pointers, held by the server and by calls.         *)

Holders(s, cl) == {c \in Clients : cl[c].ss = s}
\* a mistake that is easily made: the source refers to its session by a
\* shared instead of a weak pointer, so that neither is ever freed
HeldByListener(s, sl, cl) == sl = s \/ Holders(s, cl) # {} \/ service[s].session # None
Held(s, sl, cl) == sl = s \/ Holders(s, cl) # {}

\* The state of the services when the server keeps sl and the calls cl: a
\* service nobody holds is destroyed, its receiver and its session with it.
Kept(svc, sl, cl) == [s \in Services |-> IF Held(s, sl, cl) THEN svc[s] ELSE NoService]

\* FmqReceiver::unregisterClient() erases the first place of the source.
FirstOf(x, s) == CHOOSE k \in 1..Len(s) : s[k] = x /\ \A j \in 1..(k - 1) : s[j] # x
Without(r, source) ==
    IF r = None THEN None
    ELSE IF Contains(r.clients, source)
    THEN [r EXCEPT !.clients = RemoveAt(@, FirstOf(source, @))]
    ELSE r
With(r, source) ==
    IF r = None \/ source = None THEN r ELSE [r EXCEPT !.clients = Append(@, source)]

\* SubtitleService::stopFmqReceiver(): the receiver goes only if there is a
\* source to take from it.
stopFmqReceiver(v) == IF v.session = None THEN v ELSE [v EXCEPT !.receiver = None]

\* a mistake that is easily made: the receiver that is there is kept
startFmqReceiverOnce(v, q) ==
    IF v.receiver # None THEN v
    ELSE [v EXCEPT !.receiver = With([queue |-> q, clients |-> <<>>], v.session)]
\* SubtitleService::startFmqReceiver() with a reader of queue q
startFmqReceiver(v, q) ==
    [v EXCEPT !.receiver = With([queue |-> q, clients |-> <<>>], v.session)]

\* SubtitleService::stopSubtitle() of a service that was started
stopped(v) ==
    [v EXCEPT !.started = FALSE, !.receiver = Without(@, v.session), !.session = None]

\* a mistake that is easily made: a session started after its queue was
\* prepared is not given to the receiver
startUnheard(v, new, made) ==
    IF v.started THEN v ELSE [v EXCEPT !.started = TRUE, !.session = IF made THEN new ELSE None]
\* SubtitleService::startSubtitle(): refused when started; made says whether
\* the factory knows a source of the kind asked for.
startSubtitle(v, new, made) ==
    CASE v.started -> v
      [] ~v.started /\ ~made -> [v EXCEPT !.started = TRUE]
      [] OTHER -> [v EXCEPT !.started = TRUE, !.session = new, !.receiver = With(@, new)]

-----------------------------------------------------------------------------
(* The client library.                                                     *)

\* SubtitleServer::openConnection() takes the place of any service there is.
openConnection(c) ==
    /\ services < MaxServices
    /\ services' = services + 1
    /\ slot' = services + 1
    /\ service' = Kept(service, services + 1, call)
    /\ client' = [client EXCEPT ![c] = [state |-> "ready", tries |-> 0]]

\* initRemoteLocked() when it finds the server: a new client, one whose
\* server died (serviceDied), or one that tries again
initRemote(c) ==
    /\ up
    /\ call[c] = NoCall
    /\ client[c].state \in {"idle", "orphan", "retry"}
    /\ openConnection(c)
    /\ UNCHANGED <<up, sessions, dataMQ, queues, opened, call, deaths, prepared>>

TriesLeft(c) == IF client[c].state = "retry" THEN client[c].tries - 1 ELSE Retries

\* ... when it does not: it tries again a few times, then mRemote stays null
\* for good, because hasInit is set.
retryRemote(c) ==
    /\ ~up
    /\ client[c].state \in {"idle", "orphan", "retry"}
    /\ client' = [client EXCEPT ![c] = [state |-> IF TriesLeft(c) = 0 THEN "lost" ELSE "retry",
                                        tries |-> TriesLeft(c)]]
    /\ UNCHANGED <<up, slot, service, services, sessions, dataMQ, queues, opened, call, deaths, prepared>>

Ready(c) == client[c].state = "ready" /\ call[c] = NoCall

-----------------------------------------------------------------------------
(* open(): all of it under mLock.                                          *)

\* A middleware player that opens within 200 ms of another kind of player
\* takes the session over (recent: whether the 200 ms have not passed).
TakesOver(c, recent) ==
    opened.called /\ c \in Middleware /\ ~opened.middleware /\ recent

open(c) ==
    /\ Ready(c)
    /\ IF slot = None
       THEN UNCHANGED <<service, sessions, dataMQ, opened>>
       ELSE LET old == service[slot] IN
            /\ ~old.stopping
            /\ sessions < MaxSessions
            /\ \E recent, made \in BOOLEAN :
                 LET over == TakesOver(c, recent)
                     freed == IF ~over THEN old
                              ELSE stopFmqReceiver(IF old.started THEN stopped(old) ELSE old)
                 IN /\ service' = [service EXCEPT ![slot] = startSubtitle(freed, sessions + 1, made)]
                    /\ dataMQ' = IF over THEN None ELSE dataMQ
            /\ sessions' = sessions + 1
            /\ opened' = [called |-> TRUE, middleware |-> c \in Middleware]
    /\ UNCHANGED <<up, slot, services, queues, call, client, deaths, prepared>>

-----------------------------------------------------------------------------
(* close(): the service is fetched under mLock and stopped without it.     *)

Fetch(c, at) == call' = [call EXCEPT ![c] = [at |-> at, ss |-> slot]]
Return(c) ==
    /\ call' = [call EXCEPT ![c] = NoCall]
    /\ service' = Kept(service, slot, call')

\* close() of a client, or the first step of its destructor (leaving)
closeCalled(c) ==
    /\ Ready(c)
    /\ Fetch(c, IF slot = None THEN "closed" ELSE "close")
    /\ \/ UNCHANGED client
       \/ client' = [client EXCEPT ![c].state = "leaving"]
    /\ UNCHANGED <<up, slot, service, services, sessions, dataMQ, queues, opened, deaths, prepared>>

\* stopSubtitle() takes the source from the receiver, under the service's
\* own lock (stopping) ...
stopSubtitle(c) ==
    /\ call[c].at = "close"
    /\ LET s == call[c].ss IN
       /\ ~service[s].stopping
       /\ IF service[s].started
          THEN /\ service' = [service EXCEPT ![s].started = FALSE, ![s].stopping = TRUE,
                                             ![s].receiver = Without(@, service[s].session)]
               /\ call' = [call EXCEPT ![c].at = "stop"]
          ELSE /\ call' = [call EXCEPT ![c].at = "closed"]
               /\ UNCHANGED service
    /\ UNCHANGED <<up, slot, services, sessions, dataMQ, queues, opened, client, deaths, prepared>>

\* ... and then lets the session go.
sessionEnds(c) ==
    /\ call[c].at = "stop"
    /\ service' = [service EXCEPT ![call[c].ss].session = None, ![call[c].ss].stopping = FALSE]
    /\ call' = [call EXCEPT ![c].at = "closed"]
    /\ UNCHANGED <<up, slot, services, sessions, dataMQ, queues, opened, client, deaths, prepared>>

closeReturns(c) ==
    /\ call[c].at = "closed"
    /\ opened' = IF call[c].ss = None THEN opened ELSE [opened EXCEPT !.called = FALSE]
    /\ Return(c)
    /\ UNCHANGED <<up, slot, services, sessions, dataMQ, queues, client, deaths, prepared>>

-----------------------------------------------------------------------------
(* closeConnection(): the last call of ~SubtitleServerClient().            *)

closeConnectionCalled(c) ==
    /\ client[c].state = "leaving"
    /\ call[c] = NoCall
    /\ Fetch(c, "disconnect")
    /\ client' = [client EXCEPT ![c] = Idle]
    /\ UNCHANGED <<up, slot, service, services, sessions, dataMQ, queues, opened, deaths, prepared>>

\* Under mLock: the receiver of the service that was fetched, the queue, and
\* whatever service there is by now.
closeConnection(c) ==
    /\ call[c].at = "disconnect"
    /\ LET s == call[c].ss IN
       IF s = None
       THEN service' = Kept(service, None, call) /\ UNCHANGED dataMQ
       ELSE /\ service' = Kept([service EXCEPT ![s] = stopFmqReceiver(@)], None, call)
            /\ dataMQ' = None
    /\ slot' = None
    /\ call' = [call EXCEPT ![c].at = "disconnected"]
    /\ UNCHANGED <<up, services, sessions, queues, opened, client, deaths, prepared>>

closeConnectionReturns(c) ==
    /\ call[c].at = "disconnected"
    /\ Return(c)
    /\ UNCHANGED <<up, slot, services, sessions, dataMQ, queues, opened, client, deaths, prepared>>

-----------------------------------------------------------------------------
(* prepareWritingQueue(), for SubSource_Create(): all of it under mLock,   *)
(* but not under the lock of the service.                                  *)

NoClose == \A c \in Clients : call[c] = NoCall

prepareWritingQueue ==
    /\ up
    /\ queues < MaxPrepares
    /\ PrepareBesideClose \/ NoClose
    /\ LET q == IF dataMQ = None THEN queues + 1 ELSE dataMQ IN
       /\ dataMQ' = q
       /\ queues' = queues + 1
       /\ prepared' = [service |-> slot, queue |-> q]
       /\ service' = IF slot = None THEN service
                     ELSE [service EXCEPT ![slot] = startFmqReceiver(@, q)]
    /\ UNCHANGED <<up, slot, services, sessions, opened, call, client, deaths>>

-----------------------------------------------------------------------------
(* Deaths.                                                                 *)

\* A client dies: what the server works on for it goes on, its session stays.
clientDies(c) ==
    /\ deaths < MaxDeaths
    /\ client[c] # Idle
    /\ client' = [client EXCEPT ![c] = Idle]
    /\ deaths' = deaths + 1
    /\ UNCHANGED <<up, slot, service, services, sessions, dataMQ, queues, opened, call, prepared>>

\* The server dies: everything it had is gone, calls fail, clients are told.
serverDies ==
    /\ up
    /\ deaths < MaxDeaths
    /\ deaths' = deaths + 1
    /\ up' = FALSE
    /\ slot' = None
    /\ service' = [s \in Services |-> NoService]
    /\ dataMQ' = None
    /\ opened' = [called |-> FALSE, middleware |-> FALSE]
    /\ call' = [c \in Clients |-> NoCall]
    /\ client' = [c \in Clients |->
                    CASE client[c].state = "ready" -> [client[c] EXCEPT !.state = "orphan"]
                      [] client[c].state = "leaving" -> Idle
                      [] OTHER -> client[c]]
    /\ prepared' = [service |-> None, queue |-> None]
    /\ UNCHANGED <<services, sessions, queues>>

serverStarts ==
    /\ ~up
    /\ up' = TRUE
    /\ UNCHANGED <<slot, service, services, sessions, dataMQ, queues, opened, call, client, deaths, prepared>>

Library(c) == initRemote(c) \/ retryRemote(c)
Close(c) == closeCalled(c) \/ stopSubtitle(c) \/ sessionEnds(c) \/ closeReturns(c)
Disconnect(c) == closeConnectionCalled(c) \/ closeConnection(c) \/ closeConnectionReturns(c)

Next ==
    \/ \E c \in Clients : Library(c) \/ open(c) \/ Close(c) \/ Disconnect(c) \/ clientDies(c)
    \/ prepareWritingQueue \/ serverDies \/ serverStarts

Spec == Init /\ [][Next]_vars

-----------------------------------------------------------------------------
(* Properties.                                                             *)

Receivers == {None} \cup [queue : 1 .. MaxPrepares, clients : Seq(1 .. MaxSessions)]

\* Types: a service that is being stopped is in the hands of one call, and a
\* service nobody holds keeps nothing.
TypeOK ==
    /\ up \in BOOLEAN
    /\ slot \in Services \cup {None}
    /\ service \in [Services -> [started : BOOLEAN, session : (1 .. MaxSessions) \cup {None},
                                 receiver : Receivers, stopping : BOOLEAN]]
    /\ services \in 0 .. MaxServices
    /\ sessions \in 0 .. MaxSessions
    /\ dataMQ \in (1 .. MaxPrepares) \cup {None}
    /\ queues \in 0 .. MaxPrepares
    /\ opened \in [called : BOOLEAN, middleware : BOOLEAN]
    /\ call \in [Clients -> [at : {"none", "close", "stop", "closed", "disconnect", "disconnected"},
                             ss : Services \cup {None}]]
    /\ client \in [Clients -> [state : {"idle", "ready", "leaving", "retry", "orphan", "lost"}, tries : 0 .. Retries]]
    /\ deaths \in 0 .. MaxDeaths
    /\ prepared \in [service : Services \cup {None}, queue : (1 .. MaxPrepares) \cup {None}]

\* There is one session at a time: a session of a service that another
\* connection has replaced, or that a client left behind when it died, is
\* only there as long as a call is on its way to end it
\* (SubtitleServer.cpp:153, DataSource.h: the listeners are weak).
OneSession ==
    \A s \in Services :
        service[s].session # None /\ s # slot => Holders(s, call) # {}

\* The session in the slot is never fed from an older queue than the one the
\* server hands out (the first part of SourceHeard).
ReadsLiveQueue ==
    slot # None =>
        LET r == service[slot].receiver IN
        r # None /\ r.clients # <<>> => dataMQ \in {r.queue, None}

\* As long as the service and the queue a source has found are still the
\* server's, that source feeds the session that is open: the session is the
\* front client of the receiver that reads the source's queue, in whatever
\* order the queue was prepared and the session opened, closed and opened
\* again (SubtitleService.cpp:79, 148, 523); and no session reads an older
\* queue after a takeover, which frees the queue under the receiver: the next
\* source brings a receiver of its own (SubtitleServer.cpp:232-236,
\* SubtitleService.cpp:70-75).
SourceHeard ==
    /\ ReadsLiveQueue
    /\ LET s == slot IN
       (/\ s # None
        /\ prepared = [service |-> s, queue |-> dataMQ]
        /\ service[s].session # None
        /\ ~service[s].stopping) =>
           /\ service[s].receiver # None
           /\ service[s].receiver.queue = dataMQ
           /\ service[s].receiver.clients # <<>>
        /\ Head(service[s].receiver.clients) = service[s].session
=============================================================================
