------------------------ MODULE SubtitleServerProofs ------------------------
(***************************************************************************)
(* SubtitleServer for any clients and bounds: one session at a time.       *)
(***************************************************************************)
EXTENDS SubtitleServer, SequenceTheorems, TLAPS

\* A service has the four fields of one.
Whole(v) == {"started", "session", "receiver", "stopping"} \subseteq DOMAIN v
\* ... and a call the two of one.
WholeCall(x) == {"at", "ss"} \subseteq DOMAIN x

\* What the steps of the server keep of the types: a session in a service is not None by
\* accident, and a call is at one place with at most one service.
Shape ==
    /\ service = [s \in Services |-> service[s]]
    /\ \A s \in Services : Whole(service[s])
    /\ slot \in Services \cup {None}
    /\ services \in 0 .. MaxServices
    /\ call = [c \in Clients |-> call[c]]
    /\ \A c \in Clients : /\ WholeCall(call[c])
                          /\ call[c].ss \in Services \cup {None}
                          /\ call[c].at \in {"close", "stop"} => call[c].ss \in Services

Inv == Shape /\ OneSession

LEMMA NobodysService ==
    /\ Whole(NoService) /\ NoService.session = None
    /\ WholeCall(NoCall) /\ NoCall.ss = None /\ NoCall.at = "none"
BY DEF Whole, WholeCall, NoService, NoCall

\* What a service keeps when it is kept.
LEMMA KeptShape ==
  ASSUME NEW svc, NEW sl, NEW cl, \A s \in Services : Whole(svc[s])
  PROVE  /\ Kept(svc, sl, cl) = [s \in Services |-> Kept(svc, sl, cl)[s]]
         /\ \A s \in Services : Whole(Kept(svc, sl, cl)[s])
         /\ \A s \in Services : Kept(svc, sl, cl)[s].session # None => Held(s, sl, cl)
<1>1. \A s \in Services : Kept(svc, sl, cl)[s] = IF Held(s, sl, cl) THEN svc[s] ELSE NoService
  BY DEF Kept
<1>2. Kept(svc, sl, cl) = [s \in Services |-> Kept(svc, sl, cl)[s]]
  BY DEF Kept
<1> QED
  BY <1>1, <1>2, NobodysService

LEMMA InvInit == Init => Inv
<1> SUFFICES ASSUME Init PROVE Inv
  OBVIOUS
<1>1. \A s \in Services : service[s] = NoService
  BY DEF Init
<1>2. \A c \in Clients : call[c] = NoCall
  BY DEF Init
<1>3. Shape
  BY <1>1, <1>2, NobodysService, ServerAssumption DEF Init, Shape
<1>4. OneSession
  BY <1>1, NobodysService DEF OneSession
<1> QED
  BY <1>3, <1>4 DEF Inv

\* The operations of one service leave it one.
LEMMA OperationsWhole ==
  ASSUME NEW v, Whole(v), NEW n, NEW made, NEW q
  PROVE  /\ Whole(stopFmqReceiver(v)) /\ stopFmqReceiver(v).session = v.session
         /\ Whole(stopped(v))
         /\ Whole(startSubtitle(v, n, made))
         /\ Whole(startFmqReceiver(v, q)) /\ startFmqReceiver(v, q).session = v.session
<1> USE DEF Whole
<1>1. Whole(stopFmqReceiver(v)) /\ stopFmqReceiver(v).session = v.session
  BY DEF stopFmqReceiver
<1>2. Whole(stopped(v))
  BY DEF stopped
<1>3. Whole(startSubtitle(v, n, made))
  BY DEF startSubtitle
<1>4. Whole(startFmqReceiver(v, q)) /\ startFmqReceiver(v, q).session = v.session
  BY DEF startFmqReceiver
<1> QED
  BY <1>1, <1>2, <1>3, <1>4

\* One service changes: it is the one in the slot, or it has no other session than before.
LEMMA OneChanges ==
  ASSUME Inv, slot' = slot, services' = services,
         NEW t \in Services, NEW x, Whole(x), service' = [service EXCEPT ![t] = x],
         t = slot \/ x.session = None \/ x.session = service[t].session,
         call' = [c \in Clients |-> call'[c]],
         \A c \in Clients : /\ WholeCall(call'[c])
                            /\ call'[c].ss = call[c].ss
                            /\ call'[c].at \in {"close", "stop"} => call[c].at \in {"close", "stop"}
  PROVE  Inv'
<1>1. Shape
  BY DEF Inv
<1>2. /\ service' = [s \in Services |-> service'[s]]
      /\ \A s \in Services : service'[s] = IF s = t THEN x ELSE service[s]
  BY <1>1 DEF Shape
<1>3. \A s \in Services : Whole(service'[s])
  BY <1>1, <1>2 DEF Shape
<1>4. Shape'
  <2>1. \A c \in Clients : /\ call'[c].ss \in Services \cup {None}
                           /\ call'[c].at \in {"close", "stop"} => call'[c].ss \in Services
    BY <1>1 DEF Shape
  <2>2. slot' \in Services \cup {None} /\ services' \in 0 .. MaxServices
    BY <1>1 DEF Shape
  <2>3. \A s \in Services : Whole(service[s])'
    BY <1>3 DEF Whole
  <2> QED
    BY <1>2, <2>1, <2>2, <2>3 DEF Shape, Services
<1>5. \A s \in Services : Holders(s, call') = Holders(s, call)
  BY DEF Holders
<1>6. ASSUME NEW s \in Services, service'[s].session # None, s # slot'
      PROVE  Holders(s, call') # {}
  <2>1. service[s].session # None
    BY <1>2, <1>6
  <2>2. Holders(s, call) # {}
    BY <1>6, <2>1 DEF Inv, OneSession
  <2> QED
    BY <1>5, <2>2
<1>7. OneSession'
  BY <1>6 DEF OneSession, Services, Holders
<1> QED
  BY <1>4, <1>7 DEF Inv

\* The services that somebody holds are kept.
LEMMA HeldAreKept ==
  ASSUME Inv, NEW svc, \A s \in Services : Whole(svc[s]), NEW cl,
         service' = Kept(svc, slot', cl), slot' \in Services \cup {None},
         services' \in 0 .. MaxServices,
         call' = [c \in Clients |-> call'[c]],
         \A c \in Clients : /\ WholeCall(call'[c])
                            /\ call'[c].ss \in Services \cup {None}
                            /\ call'[c].at \in {"close", "stop"} => call'[c].ss \in Services
                            /\ call'[c].ss = cl[c].ss
  PROVE  Inv'
<1>1. /\ service' = [s \in Services |-> service'[s]]
      /\ \A s \in Services : Whole(service'[s])
      /\ \A s \in Services : service'[s].session # None => Held(s, slot', cl)
  BY KeptShape
<1>2. Shape'
  <2>1. \A s \in Services : Whole(service[s])'
    BY <1>1 DEF Whole
  <2> QED
    BY <1>1, <2>1 DEF Shape, Services
<1>3. \A s \in Services : Holders(s, call') = Holders(s, cl)
  BY DEF Holders
<1>4. \A s \in Services : service'[s].session # None /\ s # slot' => Holders(s, call') # {}
  BY <1>1, <1>3 DEF Held
<1>5. OneSession'
  BY <1>4 DEF OneSession, Services, Holders
<1> QED
  BY <1>2, <1>5 DEF Inv

-----------------------------------------------------------------------------
(* The steps.                                                              *)

LEMMA NothingChanges ==
  ASSUME Inv, UNCHANGED <<slot, service, services, call>>
  PROVE  Inv'
BY DEF Inv, Shape, OneSession, Services, Whole, WholeCall, Holders

\* A call that held nothing holds what is in the slot.
LEMMA CallFetches ==
  ASSUME Inv, NEW c \in Clients, call[c] = NoCall, NEW at, Fetch(c, at),
         at \in {"close", "stop"} => slot # None,
         UNCHANGED <<slot, service, services>>
  PROVE  Inv'
<1>1. Shape /\ None \notin Services
  BY ServerAssumption DEF Inv, Services
<1>2. /\ call' = [x \in Clients |-> call'[x]]
      /\ \A x \in Clients : call'[x] = IF x = c THEN [at |-> at, ss |-> slot] ELSE call[x]
  BY <1>1 DEF Shape, Fetch
<1>3. call[c].ss = None
  BY NobodysService
<1>4. Shape'
  <2>1. \A x \in Clients : /\ WholeCall(call'[x])
                           /\ call'[x].ss \in Services \cup {None}
                           /\ call'[x].at \in {"close", "stop"} => call'[x].ss \in Services
    BY <1>1, <1>2 DEF Shape, WholeCall
  <2>2. \A s \in Services : Whole(service'[s])
    BY <1>1 DEF Shape
  <2> QED
    BY <1>1, <1>2, <2>1, <2>2 DEF Shape, Services
<1>5. \A s \in Services : Holders(s, call) \subseteq Holders(s, call')
  BY <1>1, <1>2, <1>3 DEF Holders
<1>6. \A s \in Services : service'[s].session # None /\ s # slot' => Holders(s, call') # {}
  BY <1>5 DEF Inv, OneSession
<1> QED
  BY <1>4, <1>6 DEF Inv, OneSession, Services, Holders

\* A call goes on, or is over.
LEMMA CallGoesOn ==
  ASSUME Inv, NEW c \in Clients, NEW at, call' = [call EXCEPT ![c].at = at],
         at \in {"close", "stop"} => call[c].at \in {"close", "stop"}
  PROVE  /\ call' = [x \in Clients |-> call'[x]]
         /\ \A x \in Clients :
              /\ WholeCall(call'[x])
              /\ call'[x].ss = call[x].ss
              /\ call'[x].at \in {"close", "stop"} => call[x].at \in {"close", "stop"}
<1>1. call = [x \in Clients |-> call[x]] /\ \A x \in Clients : WholeCall(call[x])
  BY DEF Inv, Shape
<1> QED
  BY <1>1 DEF WholeCall

LEMMA CallReturns ==
  ASSUME Inv, NEW c \in Clients, Return(c), UNCHANGED <<slot, services>>
  PROVE  Inv'
<1>1. Shape
  BY DEF Inv
<1>2. /\ call' = [x \in Clients |-> call'[x]]
      /\ \A x \in Clients : call'[x] = IF x = c THEN NoCall ELSE call[x]
  BY <1>1 DEF Shape, Return
<1>3. \A x \in Clients : /\ WholeCall(call'[x])
                         /\ call'[x].ss \in Services \cup {None}
                         /\ call'[x].at \in {"close", "stop"} => call'[x].ss \in Services
  BY <1>1, <1>2, NobodysService DEF Shape
<1>4. service' = Kept(service, slot', call')
  BY DEF Return
<1>5. (\A s \in Services : Whole(service[s])) /\ slot' \in Services \cup {None} /\ services' \in 0 .. MaxServices
  BY <1>1 DEF Shape
<1> QED
  BY <1>2, <1>3, <1>4, <1>5, HeldAreKept

LEMMA Connects ==
  ASSUME Inv, NEW c \in Clients, openConnection(c), UNCHANGED call
  PROVE  Inv'
<1>1. Shape
  BY DEF Inv
<1>2. services + 1 \in Services /\ services' \in 0 .. MaxServices /\ slot' = services + 1
  BY <1>1, ServerAssumption DEF Shape, Services, openConnection
<1>3. \A s \in Services : Whole(service[s])
  BY <1>1 DEF Shape
<1>4. service' = Kept(service, slot', call)
  BY DEF openConnection
<1>5. /\ call' = [x \in Clients |-> call'[x]]
      /\ \A x \in Clients : /\ WholeCall(call'[x])
                            /\ call'[x].ss \in Services \cup {None}
                            /\ call'[x].at \in {"close", "stop"} => call'[x].ss \in Services
                            /\ call'[x].ss = call[x].ss
  BY <1>1 DEF Shape
<1> QED
  BY <1>2, <1>3, <1>4, <1>5, HeldAreKept

\* The service in the slot changes, and no call.
LEMMA SlotChanges ==
  ASSUME Inv, NEW x, Whole(x), slot # None, service' = [service EXCEPT ![slot] = x],
         UNCHANGED <<slot, services, call>>
  PROVE  Inv'
<1>1. slot \in Services
  BY DEF Inv, Shape
<1>2. /\ call' = [c \in Clients |-> call'[c]]
      /\ \A c \in Clients : /\ WholeCall(call'[c])
                            /\ call'[c].ss = call[c].ss
                            /\ call'[c].at \in {"close", "stop"} => call[c].at \in {"close", "stop"}
  BY DEF Inv, Shape
<1> QED
  BY <1>1, <1>2, OneChanges

LEMMA Opens ==
  ASSUME Inv, NEW c \in Clients, open(c)
  PROVE  Inv'
<1>1. CASE slot = None
  BY <1>1, NothingChanges DEF open
<1>2. CASE slot # None
  <2> DEFINE old == service[slot]
             freed(over) == IF ~over THEN old
                            ELSE stopFmqReceiver(IF old.started THEN stopped(old) ELSE old)
  <2>1. PICK recent \in BOOLEAN, made \in BOOLEAN :
          service' = [service EXCEPT ![slot] =
                        startSubtitle(freed(TakesOver(c, recent)), sessions + 1, made)]
    BY <1>2 DEF open
  <2>2. Whole(old)
    BY <1>2 DEF Inv, Shape
  <2>3. \A over : Whole(freed(over))
    BY <2>2, OperationsWhole
  <2> HIDE DEF freed, old
  <2>4. Whole(startSubtitle(freed(TakesOver(c, recent)), sessions + 1, made))
    BY <2>3, OperationsWhole
  <2>5. UNCHANGED <<slot, services, call>>
    BY DEF open
  <2> QED
    BY <1>2, <2>1, <2>4, <2>5, SlotChanges
<1> QED
  BY <1>1, <1>2

LEMMA Prepares ==
  ASSUME Inv, prepareWritingQueue
  PROVE  Inv'
<1>1. CASE slot = None
  BY <1>1, NothingChanges DEF prepareWritingQueue
<1>2. CASE slot # None
  <2>1. PICK q : service' = [service EXCEPT ![slot] = startFmqReceiver(@, q)]
    BY <1>2 DEF prepareWritingQueue
  <2>2. Whole(service[slot])
    BY <1>2 DEF Inv, Shape
  <2>3. Whole(startFmqReceiver(service[slot], q))
    BY <2>2, OperationsWhole
  <2>4. UNCHANGED <<slot, services, call>>
    BY DEF prepareWritingQueue
  <2> QED
    BY <1>2, <2>1, <2>3, <2>4, SlotChanges
<1> QED
  BY <1>1, <1>2

LEMMA Stops ==
  ASSUME Inv, NEW c \in Clients, stopSubtitle(c)
  PROVE  Inv'
<1> DEFINE s == call[c].ss
           x == [service[s] EXCEPT !.started = FALSE, !.stopping = TRUE,
                                   !.receiver = Without(@, service[s].session)]
<1>1. s \in Services /\ Whole(service[s]) /\ call[c].at = "close"
  BY DEF stopSubtitle, Inv, Shape
<1>2. UNCHANGED <<slot, services>>
  BY DEF stopSubtitle
<1>3. service = [t \in Services |-> service[t]]
  BY DEF Inv, Shape
<1>4. CASE service[s].started
  <2>1. service' = [service EXCEPT ![s] = x]
    BY <1>1, <1>3, <1>4 DEF stopSubtitle, Whole
  <2>2. Whole(x) /\ x.session = service[s].session
    BY <1>1 DEF Whole
  <2>3. call' = [call EXCEPT ![c].at = "stop"]
    BY <1>4 DEF stopSubtitle
  <2> HIDE DEF x, s
  <2> QED
    BY <1>1, <1>2, <2>1, <2>2, <2>3, CallGoesOn, OneChanges
<1>5. CASE ~service[s].started
  <2>1. call' = [call EXCEPT ![c].at = "closed"] /\ service' = service
    BY <1>5 DEF stopSubtitle
  <2>2. service' = [service EXCEPT ![s] = service[s]]
    BY <1>1, <1>3, <2>1
  <2> HIDE DEF s
  <2> QED
    BY <1>1, <1>2, <2>1, <2>2, CallGoesOn, OneChanges
<1> QED
  BY <1>4, <1>5

LEMMA Ends ==
  ASSUME Inv, NEW c \in Clients, sessionEnds(c)
  PROVE  Inv'
<1> DEFINE s == call[c].ss
           x == [service[s] EXCEPT !.session = None, !.stopping = FALSE]
<1>1. s \in Services /\ Whole(service[s]) /\ call[c].at = "stop"
  BY DEF sessionEnds, Inv, Shape
<1>2. service = [t \in Services |-> service[t]]
  BY DEF Inv, Shape
<1>3. service' = [service EXCEPT ![s] = x]
  BY <1>1, <1>2 DEF sessionEnds, Whole
<1>4. Whole(x) /\ x.session = None
  BY <1>1 DEF Whole
<1>5. call' = [call EXCEPT ![c].at = "closed"] /\ UNCHANGED <<slot, services>>
  BY DEF sessionEnds
<1> HIDE DEF x, s
<1> QED
  BY <1>1, <1>3, <1>4, <1>5, CallGoesOn, OneChanges

LEMMA ClosesConnection ==
  ASSUME Inv, NEW c \in Clients, closeConnection(c)
  PROVE  Inv'
<1> DEFINE s == call[c].ss
           svc == IF s = None THEN service ELSE [service EXCEPT ![s] = stopFmqReceiver(@)]
<1>1. /\ s \in Services \cup {None} /\ services \in 0 .. MaxServices
      /\ service = [t \in Services |-> service[t]]
      /\ \A t \in Services : Whole(service[t])
  BY DEF Inv, Shape
<1>2. \A t \in Services : Whole(svc[t])
  <2>1. CASE s = None
    BY <1>1, <2>1
  <2>2. CASE s # None
    <3>1. \A t \in Services : svc[t] = IF t = s THEN stopFmqReceiver(service[s]) ELSE service[t]
      BY <1>1, <2>2
    <3> QED
      BY <1>1, <3>1, <2>2, OperationsWhole
  <2> QED
    BY <2>1, <2>2
<1>3. slot' = None /\ service' = Kept(svc, slot', call) /\ services' = services
  BY DEF closeConnection
<1>4. call' = [call EXCEPT ![c].at = "disconnected"]
  BY DEF closeConnection
<1>5. /\ call' = [x \in Clients |-> call'[x]]
      /\ \A x \in Clients : /\ WholeCall(call'[x])
                            /\ call'[x].ss = call[x].ss
                            /\ call'[x].at \in {"close", "stop"} => call[x].at \in {"close", "stop"}
  BY <1>4, CallGoesOn
<1>6. \A x \in Clients : /\ call'[x].ss \in Services \cup {None}
                         /\ call'[x].at \in {"close", "stop"} => call'[x].ss \in Services
  BY <1>5 DEF Inv, Shape
<1> HIDE DEF svc
<1> QED
  BY <1>1, <1>2, <1>3, <1>5, <1>6, HeldAreKept

LEMMA Dies ==
  ASSUME Inv, serverDies
  PROVE  Inv'
<1>1. /\ service' = [s \in Services |-> NoService] /\ call' = [c \in Clients |-> NoCall]
      /\ slot' = None /\ services' = services
  BY DEF serverDies
<1>2. Shape'
  <2>1. \A s \in Services : Whole(service'[s])
    BY <1>1, NobodysService
  <2>2. \A c \in Clients : /\ WholeCall(call'[c])
                           /\ call'[c].ss \in Services \cup {None}
                           /\ call'[c].at \in {"close", "stop"} => call'[c].ss \in Services
    BY <1>1, NobodysService
  <2>3. services' \in 0 .. MaxServices
    BY <1>1 DEF Inv, Shape
  <2> QED
    BY <1>1, <2>1, <2>2, <2>3 DEF Shape, Services
<1>3. \A s \in Services : service'[s].session = None
  BY <1>1, NobodysService
<1> QED
  BY <1>2, <1>3 DEF Inv, OneSession, Services, Holders

LEMMA InvStep ==
  ASSUME Inv, [Next]_vars
  PROVE  Inv'
<1>1. ASSUME NEW c \in Clients, Library(c)
      PROVE  Inv'
  <2>1. CASE initRemote(c)
    BY <2>1, Connects DEF initRemote
  <2>2. CASE retryRemote(c)
    BY <2>2, NothingChanges DEF retryRemote
  <2> QED
    BY <1>1, <2>1, <2>2 DEF Library
<1>2. ASSUME NEW c \in Clients, Close(c)
      PROVE  Inv'
  <2>1. CASE closeCalled(c)
    BY <2>1, CallFetches DEF closeCalled, Ready
  <2>2. CASE closeReturns(c)
    BY <2>2, CallReturns DEF closeReturns
  <2> QED
    BY <1>2, <2>1, <2>2, Stops, Ends DEF Close
<1>3. ASSUME NEW c \in Clients, Disconnect(c)
      PROVE  Inv'
  <2>1. CASE closeConnectionCalled(c)
    BY <2>1, CallFetches DEF closeConnectionCalled
  <2>2. CASE closeConnectionReturns(c)
    BY <2>2, CallReturns DEF closeConnectionReturns
  <2> QED
    BY <1>3, <2>1, <2>2, ClosesConnection DEF Disconnect
<1>4. ASSUME NEW c \in Clients, clientDies(c)
      PROVE  Inv'
  BY <1>4, NothingChanges DEF clientDies
<1>5. CASE serverStarts
  BY <1>5, NothingChanges DEF serverStarts
<1>6. CASE UNCHANGED vars
  BY <1>6, NothingChanges DEF vars
<1> QED
  BY <1>1, <1>2, <1>3, <1>4, <1>5, <1>6, Opens, Prepares, Dies DEF Next

\* A session that is not the server's is only there while a call is on its
\* way to end it, whatever the clients do and whoever dies
\* (SubtitleServer.cpp:153, 207-247, 274-320).
THEOREM OneSessionAlways == Spec => []OneSession
<1>1. Init => Inv
  BY InvInit
<1>2. Inv /\ [Next]_vars => Inv'
  BY InvStep
<1>3. Inv => OneSession
  BY DEF Inv
<1> QED
  BY <1>1, <1>2, <1>3, PTL DEF Spec

-----------------------------------------------------------------------------
(* The session and its source: a source is prepared beside no close.       *)

Readers == [queue : Nat, clients : Seq(Nat)]

\* Who a receiver tells: the session, until a stop has begun.
Heard(v) == IF v.session = None \/ v.stopping THEN <<>> ELSE <<v.session>>

\* A service that was not started has no session, unless it is being stopped, and its
\* receiver tells the session it has and no other.
Fed(v) ==
    /\ v.session \in Nat \cup {None}
    /\ v.session # None => v.started \/ v.stopping
    /\ v.receiver # None => v.receiver \in Readers /\ v.receiver.clients = Heard(v)

Counted ==
    /\ sessions \in Nat /\ queues \in Nat
    /\ dataMQ \in Nat \cup {None}
    /\ prepared.service # None => prepared.service \in 1 .. services /\ prepared.queue \in Nat
    /\ slot # None => slot \in 1 .. services
    /\ \A c \in Clients : call[c].ss # None => call[c].ss \in 1 .. services

\* One call at most stops a service, and a service that is stopping has one.
StoppingIn(svc, cl) ==
    /\ \A c \in Clients : cl[c].at = "stop" => svc[cl[c].ss].stopping
    /\ \A c, d \in Clients :
          cl[c].at = "stop" /\ cl[d].at = "stop" /\ cl[c].ss = cl[d].ss => c = d
    /\ \A s \in Services :
          svc[s].stopping => \E c \in Clients : cl[c].at = "stop" /\ cl[c].ss = s
Stopping == StoppingIn(service, call)

\* The receiver of the service in the slot reads the queue of the server if that has one,
\* and it is there if a source has been prepared with both.
Live ==
    slot # None =>
      /\ service[slot].receiver # None => dataMQ \in {service[slot].receiver.queue, None}
      /\ prepared.service = slot /\ prepared.queue = dataMQ => service[slot].receiver # None

Unused == \A s \in Services : s > services => service[s].receiver = None

Hears == /\ \A s \in Services : Fed(service[s])
         /\ Counted /\ Stopping /\ Live /\ Unused

LEMMA NoServiceFed == Fed(NoService) /\ NoService.receiver = None /\ ~NoService.stopping
BY DEF Fed, NoService

LEMMA OnePlace ==
  ASSUME NEW x, NEW s \in Seq(Nat), s = <<>> \/ s = <<x>>, Contains(s, x)
  PROVE  RemoveAt(s, FirstOf(x, s)) = <<>>
<1>1. s = <<x>> /\ x \in Nat
  BY DEF Contains
<1>2. FirstOf(x, s) = 1
  BY <1>1 DEF FirstOf
<1>3. SubSeq(s, 1, 0) = <<>> /\ SubSeq(s, 2, 1) = <<>>
  BY <1>1
<1> QED
  BY <1>1, <1>2, <1>3 DEF RemoveAt

LEMMA OtherClients ==
  ASSUME NEW r \in Readers, NEW l \in Seq(Nat)
  PROVE  /\ [r EXCEPT !.clients = l] \in Readers
         /\ [r EXCEPT !.clients = l].clients = l
         /\ [r EXCEPT !.clients = l].queue = r.queue
<1>1. [r EXCEPT !.clients = l].clients = l /\ [r EXCEPT !.clients = l].queue = r.queue
  BY DEF Readers
<1>2. [r EXCEPT !.clients = l] \in Readers
  BY DEF Readers
<1> QED
  BY <1>1, <1>2

LEMMA WithoutIt ==
  ASSUME NEW r \in Readers, NEW x, r.clients = <<>> \/ r.clients = <<x>>
  PROVE  /\ Without(r, x) \in Readers
         /\ Without(r, x).clients = <<>>
         /\ Without(r, x).queue = r.queue
<1>0. r # None
  BY ServerAssumption DEF Readers
<1>1. CASE Contains(r.clients, x)
  <2>1. RemoveAt(r.clients, FirstOf(x, r.clients)) = <<>>
    BY <1>1, OnePlace DEF Readers
  <2>2. Without(r, x) = [r EXCEPT !.clients = <<>>]
    BY <1>0, <1>1, <2>1 DEF Without
  <2> DEFINE l == <<>>
  <2>3. l \in Seq(Nat)
    OBVIOUS
  <2>4. Without(r, x) = [r EXCEPT !.clients = l] /\ l = <<>>
    BY <2>2
  <2> HIDE DEF l
  <2> DEFINE w == [r EXCEPT !.clients = l]
  <2>5. w \in Readers /\ w.clients = l /\ w.queue = r.queue
    BY <2>3, OtherClients
  <2> HIDE DEF w
  <2> QED
    BY <2>4, <2>5 DEF w
<1>2. CASE ~Contains(r.clients, x)
  <2>1. Without(r, x) = r
    BY <1>0, <1>2 DEF Without
  <2>2. r.clients # <<x>>
    BY <1>2 DEF Contains
  <2> QED
    BY <2>1, <2>2
<1> QED
  BY <1>1, <1>2

LEMMA WithIt ==
  ASSUME NEW r \in Readers, NEW x \in Nat \cup {None}, r.clients = <<>>
  PROVE  /\ With(r, x) \in Readers
         /\ With(r, x).queue = r.queue
         /\ With(r, x).clients = IF x = None THEN <<>> ELSE <<x>>
<1>0. r # None
  BY ServerAssumption DEF Readers
<1>1. CASE x = None
  BY <1>0, <1>1 DEF With
<1>2. CASE x # None
  <2>1. <<x>> \in Seq(Nat) /\ Append(<<>>, x) = <<x>>
    BY <1>2
  <2> DEFINE l == <<x>>  w == [r EXCEPT !.clients = l]
  <2>2. With(r, x) = w
    BY <1>0, <1>2, <2>1 DEF With
  <2>3. l \in Seq(Nat) /\ (IF x = None THEN <<>> ELSE l) = l
    BY <1>2, <2>1
  <2> HIDE DEF l
  <2>4. w \in Readers /\ w.queue = r.queue /\ w.clients = l
    BY <2>3, OtherClients
  <2> HIDE DEF w
  <2>5. With(r, x) \in Readers /\ With(r, x).queue = r.queue /\ With(r, x).clients = l
    BY <2>2, <2>4
  <2> QED
    BY <2>3, <2>5 DEF l
<1> QED
  BY <1>1, <1>2

\* A receiver of a service is a reader.
LEMMA FedReceiver ==
  ASSUME NEW v, Fed(v), v.receiver # None
  PROVE  v.receiver \in Readers /\ v.receiver.clients = Heard(v)
BY DEF Fed

\* A new receiver.
Reader(q) == [queue |-> q, clients |-> <<>>]

LEMMA NewReceiver ==
  ASSUME NEW q \in Nat
  PROVE  Reader(q) \in Readers /\ Reader(q).queue = q /\ Reader(q).clients = <<>>
<1>1. <<>> \in Seq(Nat)
  OBVIOUS
<1> QED
  BY <1>1 DEF Reader, Readers

LEMMA StopReceiverFed ==
  ASSUME NEW v, Whole(v), Fed(v)
  PROVE  LET w == stopFmqReceiver(v)
         IN  Fed(w) /\ w.stopping = v.stopping /\ (v.receiver = None => w.receiver = None)
<1>1. CASE v.session = None
  BY <1>1 DEF stopFmqReceiver
<1>2. CASE v.session # None
  <2> DEFINE w == stopFmqReceiver(v)
  <2>1. /\ w.receiver = None /\ w.session = v.session
        /\ w.started = v.started /\ w.stopping = v.stopping
    BY <1>2 DEF stopFmqReceiver, Whole
  <2> HIDE DEF w
  <2>2. Fed(w)
    BY <2>1 DEF Fed
  <2> QED
    BY <2>1, <2>2 DEF w
<1> QED
  BY <1>1, <1>2

LEMMA StoppedFed ==
  ASSUME NEW v, Whole(v), Fed(v), ~v.stopping
  PROVE  LET w == stopped(v)
         IN  Fed(w) /\ w.stopping = v.stopping /\ ~w.started /\ w.session = None
<1> DEFINE w == stopped(v)
<1>1. /\ w.receiver = Without(v.receiver, v.session) /\ w.session = None
      /\ w.started = FALSE /\ w.stopping = v.stopping
  BY DEF stopped, Whole
<1>2. w.receiver # None => w.receiver \in Readers /\ w.receiver.clients = <<>>
  <2>1. CASE v.receiver = None
    BY <1>1, <2>1 DEF Without
  <2>2. CASE v.receiver # None
    <3>1. v.receiver \in Readers /\ v.receiver.clients \in {<<>>, <<v.session>>}
      BY <2>2 DEF Fed, Heard
    <3> QED
      BY <1>1, <3>1, WithoutIt
  <2> QED
    BY <2>1, <2>2
<1> HIDE DEF w
<1>3. Fed(w)
  BY <1>1, <1>2 DEF Fed, Heard
<1> QED
  BY <1>1, <1>3 DEF w

LEMMA StartedFed ==
  ASSUME NEW v, Whole(v), Fed(v), ~v.stopping, NEW n \in Nat, NEW made \in BOOLEAN
  PROVE  LET w == startSubtitle(v, n, made)
         IN  /\ Fed(w) /\ w.stopping = v.stopping
             /\ w.receiver = None <=> v.receiver = None
             /\ v.receiver # None => w.receiver.queue = v.receiver.queue
<1> DEFINE w == startSubtitle(v, n, made)
<1>1. CASE v.started
  BY <1>1 DEF startSubtitle
<1>2. CASE ~v.started /\ ~made
  <2>1. w = [v EXCEPT !.started = TRUE]
    BY <1>2 DEF startSubtitle
  <2>2. /\ w.receiver = v.receiver /\ w.session = v.session
        /\ w.started = TRUE /\ w.stopping = v.stopping
    BY <2>1 DEF Whole
  <2> HIDE DEF w
  <2>3. Fed(w)
    BY <2>2 DEF Fed, Heard
  <2> QED
    BY <2>2, <2>3 DEF w
<1>3. CASE ~v.started /\ made
  <2>1. w = [v EXCEPT !.started = TRUE, !.session = n, !.receiver = With(@, n)]
    BY <1>3 DEF startSubtitle
  <2>2. /\ w.receiver = With(v.receiver, n) /\ w.session = n
        /\ w.started = TRUE /\ w.stopping = v.stopping
    BY <2>1 DEF Whole
  <2>3. n # None
    BY ServerAssumption
  <2>4. v.session = None
    BY <1>3 DEF Fed
  <2>5. CASE v.receiver = None
    <3>1. w.receiver = None
      BY <2>2, <2>5 DEF With
    <3> HIDE DEF w
    <3>2. Fed(w)
      BY <2>2, <3>1 DEF Fed
    <3> QED
      BY <2>2, <2>5, <3>1, <3>2 DEF w
  <2>6. CASE v.receiver # None
    <3>1. v.receiver \in Readers /\ v.receiver.clients = <<>>
      BY <2>4, <2>6 DEF Fed, Heard
    <3> HIDE DEF w
    <3>0. /\ With(v.receiver, n) \in Readers
          /\ With(v.receiver, n).queue = v.receiver.queue
          /\ With(v.receiver, n).clients = <<n>>
      <4>1. n \in Nat \cup {None}
        OBVIOUS
      <4> QED
        BY <2>3, <3>1, <4>1, WithIt
    <3>2. /\ w.receiver \in Readers /\ w.receiver.clients = <<n>>
          /\ w.receiver.queue = v.receiver.queue
      BY <2>2, <3>0
    <3>3. w.receiver # None
      BY <3>2, ServerAssumption DEF Readers
    <3>4. Fed(w)
      BY <2>2, <2>3, <3>2 DEF Fed, Heard
    <3> QED
      BY <2>2, <2>6, <3>2, <3>3, <3>4 DEF w
  <2> QED
    BY <2>5, <2>6
<1> QED
  BY <1>1, <1>2, <1>3

LEMMA ReceiverFed ==
  ASSUME NEW v, Whole(v), Fed(v), ~v.stopping, NEW q \in Nat
  PROVE  LET w == startFmqReceiver(v, q)
         IN  Fed(w) /\ w.stopping = v.stopping /\ w.receiver # None /\ w.receiver.queue = q
<1> DEFINE w == startFmqReceiver(v, q)
<1>1. /\ w.receiver = With(Reader(q), v.session)
      /\ w.session = v.session /\ w.started = v.started /\ w.stopping = v.stopping
  BY DEF startFmqReceiver, Whole, Reader
<1>2. v.session \in Nat \cup {None}
  BY DEF Fed
<1> HIDE DEF w
<1>3. /\ w.receiver \in Readers /\ w.receiver.queue = q
      /\ w.receiver.clients = IF v.session = None THEN <<>> ELSE <<v.session>>
  BY <1>1, <1>2, NewReceiver, WithIt
<1>4. w.receiver # None
  BY <1>3, ServerAssumption DEF Readers
<1>5. Fed(w)
  BY <1>1, <1>2, <1>3 DEF Fed, Heard
<1> QED
  BY <1>1, <1>3, <1>4, <1>5 DEF w

\* The slot has no unused service.
LEMMA SlotUsed ==
  ASSUME Inv, Hears, slot # None
  PROVE  slot \in Services /\ services \in Nat /\ ~(slot > services)
BY DEF Inv, Shape, Hears, Counted

LEMMA SameHears ==
  ASSUME Hears, UNCHANGED <<slot, service, services, sessions, dataMQ, queues, call, prepared>>
  PROVE  Hears'
BY DEF Hears, Fed, Heard, Counted, Stopping, StoppingIn, Live, Unused, Services, Readers

\* Services that nobody holds take nothing along that is still in use.
LEMMA KeptFed ==
  ASSUME Inv', NEW svc, \A s \in Services : Fed(svc[s]), StoppingIn(svc, call'),
         NEW cl, \A c \in Clients : call'[c].ss = cl[c].ss, service' = Kept(svc, slot', cl)
  PROVE  /\ \A s \in Services : Fed(service'[s])
         /\ Stopping'
         /\ \A s \in Services : service'[s] = svc[s] \/ service'[s].receiver = None
         /\ slot' # None => service'[slot'] = svc[slot']
<1>1. \A s \in Services : service'[s] = IF Held(s, slot', cl) THEN svc[s] ELSE NoService
  BY DEF Kept
<1>2. \A s \in Services : service'[s] = svc[s] \/ service'[s] = NoService
  BY <1>1
<1>3. \A c \in Clients : call'[c].at = "stop" =>
         call'[c].ss \in Services /\ service'[call'[c].ss] = svc[call'[c].ss]
  <2> SUFFICES ASSUME NEW c \in Clients, call'[c].at = "stop"
               PROVE  call'[c].ss \in Services /\ service'[call'[c].ss] = svc[call'[c].ss]
    OBVIOUS
  <2>1. call'[c].ss \in Services
    BY DEF Inv, Shape, Services
  <2>2. c \in Holders(call'[c].ss, cl)
    BY DEF Holders
  <2>3. Held(call'[c].ss, slot', cl)
    BY <2>2 DEF Held
  <2> QED
    BY <1>1, <2>1, <2>3
<1>4. Stopping'
  <2>1. \A c \in Clients : call'[c].at = "stop" => service'[call'[c].ss].stopping
    BY <1>3 DEF StoppingIn
  <2>2. \A s \in Services : service'[s].stopping => svc[s].stopping
    BY <1>2, NoServiceFed
  <2> QED
    BY <2>1, <2>2 DEF StoppingIn, Stopping, Services
<1>5. slot' # None => service'[slot'] = svc[slot']
  <2>1. slot' # None => slot' \in Services
    BY DEF Inv, Shape, Services
  <2>2. slot' # None => Held(slot', slot', cl)
    BY DEF Held
  <2> QED
    BY <1>1, <2>1, <2>2
<1> QED
  BY <1>2, <1>4, <1>5, NoServiceFed

\* One service changes, and nobody begins or ends to stop it.
LEMMA OneFed ==
  ASSUME Inv, Hears, NEW t \in Services, NEW x, Fed(x), x.stopping = service[t].stopping,
         service' = [service EXCEPT ![t] = x], UNCHANGED call
  PROVE  /\ \A s \in Services : service'[s] = IF s = t THEN x ELSE service[s]
         /\ \A s \in Services : Fed(service'[s])
         /\ Stopping'
<1>1. \A s \in Services : service'[s] = IF s = t THEN x ELSE service[s]
  BY DEF Inv, Shape
<1>2. \A s \in Services : Fed(service'[s])
  BY <1>1 DEF Hears
<1>3. \A s \in Services : service'[s].stopping = service[s].stopping
  BY <1>1
<1>4. \A c \in Clients : call[c].at = "stop" => call[c].ss \in Services
  BY DEF Inv, Shape
<1>5. Stopping'
  BY <1>3, <1>4 DEF Hears, Stopping, StoppingIn, Services
<1> QED
  BY <1>1, <1>2, <1>5

LEMMA HearsConnects ==
  ASSUME Inv, Hears, Inv', NEW c \in Clients, initRemote(c)
  PROVE  Hears'
<1>1. /\ slot' = services + 1 /\ services' = services + 1
      /\ service' = Kept(service, slot', call) /\ services \in Nat /\ services + 1 \in Services
      /\ UNCHANGED <<call, sessions, queues, dataMQ, prepared>>
  BY ServerAssumption DEF initRemote, openConnection, Inv, Shape, Services
<1>2. /\ \A s \in Services : Fed(service'[s])
      /\ Stopping'
      /\ \A s \in Services : service'[s] = service[s] \/ service'[s].receiver = None
  <2>1. StoppingIn(service, call') /\ \A x \in Clients : call'[x].ss = call[x].ss
    BY <1>1 DEF Hears, Stopping
  <2> QED
    BY <1>1, <2>1, KeptFed DEF Hears
<1>3. Unused'
  BY <1>1, <1>2 DEF Hears, Unused, Services
<1>4. service'[slot'].receiver = None
  BY <1>1, <1>2 DEF Hears, Unused, Services
<1>5. Counted'
  BY <1>1 DEF Hears, Counted
<1>6. prepared'.service # slot'
  BY <1>1, <1>4, ServerAssumption DEF Hears, Counted
<1>7. Live'
  BY <1>4, <1>6 DEF Live
<1> QED
  BY <1>2, <1>3, <1>5, <1>7 DEF Hears, Services

LEMMA HearsOpens ==
  ASSUME Inv, Hears, NEW c \in Clients, open(c)
  PROVE  Hears'
<1>1. CASE slot = None
  BY <1>1, SameHears DEF open
<1>2. CASE slot # None
  <2> DEFINE old == service[slot]
             freed(over) == IF ~over THEN old
                            ELSE stopFmqReceiver(IF old.started THEN stopped(old) ELSE old)
  <2>1. PICK recent \in BOOLEAN, made \in BOOLEAN :
          /\ service' = [service EXCEPT ![slot] =
                           startSubtitle(freed(TakesOver(c, recent)), sessions + 1, made)]
          /\ dataMQ' = IF TakesOver(c, recent) THEN None ELSE dataMQ
    BY <1>2 DEF open
  <2> DEFINE over == TakesOver(c, recent)
             f == freed(over)
             x == startSubtitle(f, sessions + 1, made)
  <2>2. /\ ~old.stopping /\ sessions' = sessions + 1
        /\ UNCHANGED <<slot, services, queues, call, prepared>>
    BY <1>2 DEF open
  <2>3. slot \in Services /\ Whole(old) /\ Fed(old) /\ sessions + 1 \in Nat
    BY <1>2 DEF Inv, Shape, Hears, Counted
  <2>4. Whole(f) /\ Fed(f) /\ f.stopping = old.stopping /\ (~over => f = old)
    <3>1. CASE ~over
      BY <2>3, <3>1
    <3>2. CASE over
      <4> DEFINE w == IF old.started THEN stopped(old) ELSE old
      <4>1. Whole(w) /\ Fed(w) /\ w.stopping = old.stopping
        BY <2>2, <2>3, OperationsWhole, StoppedFed
      <4>2. f = stopFmqReceiver(w)
        BY <3>2
      <4> HIDE DEF w, f
      <4> QED
        BY <3>2, <4>1, <4>2, OperationsWhole, StopReceiverFed
    <3> QED
      BY <3>1, <3>2
  <2> HIDE DEF f, over, old, freed
  <2>5. /\ Fed(x) /\ x.stopping = old.stopping
        /\ x.receiver = None <=> f.receiver = None
        /\ f.receiver # None => x.receiver.queue = f.receiver.queue
    BY <2>2, <2>3, <2>4, StartedFed
  <2>6. service' = [service EXCEPT ![slot] = x] /\ dataMQ' = IF over THEN None ELSE dataMQ
    BY <2>1 DEF f, over
  <2> HIDE DEF x
  <2>7. /\ \A s \in Services : service'[s] = IF s = slot THEN x ELSE service[s]
        /\ \A s \in Services : Fed(service'[s])
        /\ Stopping'
    BY <2>2, <2>3, <2>5, <2>6, OneFed DEF old
  <2>8. Counted'
    BY <2>2, <2>3, <2>6 DEF Hears, Counted
  <2>9. Unused'
    BY <1>2, <2>2, <2>7, SlotUsed DEF Hears, Unused, Services
  <2>10. Live'
    <3>1. service'[slot'] = x
      BY <2>2, <2>3, <2>7
    <3>2. CASE over
      <4>1. dataMQ' = None
        BY <2>6, <3>2
      <4>2. prepared.service = slot => prepared.queue # None
        BY <1>2, ServerAssumption DEF Hears, Counted
      <4> QED
        BY <2>2, <3>1, <4>1, <4>2 DEF Live
    <3>3. CASE ~over
      <4>1. f = service[slot] /\ dataMQ' = dataMQ
        BY <2>4, <2>6, <3>3 DEF old
      <4> QED
        BY <1>2, <2>2, <2>5, <3>1, <4>1 DEF Live, Hears
    <3> QED
      BY <3>2, <3>3
  <2> QED
    BY <2>7, <2>8, <2>9, <2>10 DEF Hears, Services
<1> QED
  BY <1>1, <1>2

LEMMA HearsPrepares ==
  ASSUME PrepareBesideClose = FALSE, Inv, Hears, prepareWritingQueue
  PROVE  Hears'
<1> DEFINE q == IF dataMQ = None THEN queues + 1 ELSE dataMQ
<1>1. /\ dataMQ' = q /\ queues' = queues + 1
      /\ prepared' = [service |-> slot, queue |-> q]
      /\ service' = IF slot = None THEN service
                    ELSE [service EXCEPT ![slot] = startFmqReceiver(@, q)]
      /\ UNCHANGED <<slot, services, sessions, call>>
  BY DEF prepareWritingQueue
<1>2. q \in Nat
  BY DEF Hears, Counted
<1> HIDE DEF q
<1>3. Counted'
  BY <1>1, <1>2 DEF Hears, Counted
<1>4. CASE slot = None
  <2>1. service' = service
    BY <1>1, <1>4
  <2> QED
    BY <1>1, <1>3, <1>4, <2>1 DEF Hears, Fed, Heard, Readers, Services, Stopping, StoppingIn,
                                  Live, Unused
<1>5. CASE slot # None
  <2> DEFINE x == startFmqReceiver(service[slot], q)
  <2>1. slot \in Services /\ Whole(service[slot]) /\ Fed(service[slot])
    BY <1>5 DEF Inv, Shape, Hears
  <2>2. ~service[slot].stopping
    <3>1. \A c \in Clients : call[c].at # "stop"
      BY NobodysService DEF prepareWritingQueue, NoClose
    <3> QED
      BY <2>1, <3>1 DEF Hears, Stopping, StoppingIn
  <2>3. /\ Fed(x) /\ x.stopping = service[slot].stopping
        /\ x.receiver # None /\ x.receiver.queue = q
    BY <1>2, <2>1, <2>2, ReceiverFed
  <2>4. service' = [service EXCEPT ![slot] = x]
    BY <1>1, <1>5
  <2> HIDE DEF x
  <2>5. /\ \A s \in Services : service'[s] = IF s = slot THEN x ELSE service[s]
        /\ \A s \in Services : Fed(service'[s])
        /\ Stopping'
    BY <1>1, <2>1, <2>3, <2>4, OneFed
  <2>6. Unused'
    BY <1>1, <1>5, <2>5, SlotUsed DEF Hears, Unused, Services
  <2>7. Live'
    BY <1>1, <2>1, <2>3, <2>5 DEF Live
  <2> QED
    BY <1>3, <2>5, <2>6, <2>7 DEF Hears, Services
<1> QED
  BY <1>4, <1>5

LEMMA HearsFetches ==
  ASSUME Inv, Hears, NEW c \in Clients, call[c] = NoCall, NEW at, at # "stop", Fetch(c, at),
         UNCHANGED <<slot, service, services, sessions, dataMQ, queues, prepared>>
  PROVE  Hears'
<1>1. \A x \in Clients : call'[x] = IF x = c THEN [at |-> at, ss |-> slot] ELSE call[x]
  BY DEF Inv, Shape, Fetch
<1>2. call'[c].at # "stop" /\ call[c].at # "stop" /\ call'[c].ss = slot
  BY <1>1, NobodysService
<1>3. Counted'
  BY <1>1, <1>2 DEF Hears, Counted
<1>4. Stopping'
  <2>1. \A x \in Clients : /\ call'[x].at = "stop" <=> call[x].at = "stop"
                           /\ call[x].at = "stop" => call'[x] = call[x]
    BY <1>1, <1>2
  <2> QED
    BY <2>1 DEF Hears, Stopping, StoppingIn, Services
<1> QED
  BY <1>3, <1>4 DEF Hears, Fed, Heard, Readers, Services, Live, Unused

LEMMA HearsStops ==
  ASSUME Inv, Hears, NEW c \in Clients, stopSubtitle(c)
  PROVE  Hears'
<1> DEFINE s == call[c].ss
           v == service[s]
           x == [v EXCEPT !.started = FALSE, !.stopping = TRUE, !.receiver = Without(@, v.session)]
<1>1. /\ call[c].at = "close" /\ ~v.stopping /\ s \in Services /\ Whole(v) /\ Fed(v)
      /\ UNCHANGED <<slot, services, sessions, dataMQ, queues, prepared>>
  BY DEF stopSubtitle, Inv, Shape, Hears
<1>2. \A d \in Clients : WholeCall(call[d])
  BY DEF Inv, Shape
<1>3. CASE ~v.started
  <2>1. call' = [call EXCEPT ![c].at = "closed"] /\ service' = service
    BY <1>3 DEF stopSubtitle
  <2>2. \A d \in Clients : /\ call'[d].ss = call[d].ss
                           /\ call'[d].at = "stop" <=> call[d].at = "stop"
    BY <1>1, <1>2, <2>1 DEF Inv, Shape, WholeCall
  <2>3. Stopping'
    BY <2>1, <2>2 DEF Hears, Stopping, StoppingIn, Services
  <2>4. Counted'
    BY <1>1, <2>2 DEF Hears, Counted
  <2> HIDE DEF s, v
  <2> QED
    BY <1>1, <2>1, <2>3, <2>4 DEF Hears, Fed, Heard, Readers, Services, Live, Unused
<1>4. CASE v.started
  <2>1. service' = [service EXCEPT ![s] = x] /\ call' = [call EXCEPT ![c].at = "stop"]
    BY <1>1, <1>4 DEF stopSubtitle, Whole, Inv, Shape
  <2>2. \A d \in Clients : /\ call'[d].ss = call[d].ss
                           /\ call'[d].at = "stop" <=> d = c \/ call[d].at = "stop"
    BY <1>2, <2>1 DEF Inv, Shape, WholeCall
  <2>3. /\ x.receiver = Without(v.receiver, v.session) /\ x.session = v.session
        /\ x.started = FALSE /\ x.stopping = TRUE
    BY <1>1 DEF Whole
  <2>4. /\ v.receiver = None => x.receiver = None
        /\ v.receiver # None => /\ x.receiver \in Readers /\ x.receiver.clients = <<>>
                                /\ x.receiver # None /\ x.receiver.queue = v.receiver.queue
    <3>1. CASE v.receiver = None
      BY <2>3, <3>1 DEF Without
    <3>2. CASE v.receiver # None
      <4>1. v.receiver \in Readers /\ v.receiver.clients \in {<<>>, <<v.session>>}
        BY <1>1, <3>2 DEF Fed, Heard
      <4>2. LET w == Without(v.receiver, v.session)
            IN  w \in Readers /\ w.clients = <<>> /\ w.queue = v.receiver.queue
        BY <4>1, WithoutIt
      <4> HIDE DEF x
      <4> QED
        BY <2>3, <3>2, <4>2, ServerAssumption DEF Readers
    <3> QED
      BY <3>1, <3>2
  <2>5. Fed(x)
    BY <1>1, <2>3, <2>4 DEF Fed, Heard
  <2>6. \A t \in Services : service'[t] = IF t = s THEN x ELSE service[t]
    BY <2>1 DEF Inv, Shape
  <2>7. \A t \in Services : Fed(service'[t])
    BY <2>5, <2>6 DEF Hears
  <2>8. Stopping'
    <3>1. \A d \in Clients : call[d].at = "stop" => call[d].ss \in Services /\ call[d].ss # s
      BY <1>1 DEF Inv, Shape, Hears, Stopping, StoppingIn
    <3>2. x.stopping
      BY <2>3
    <3> HIDE DEF x, v
    <3>3. \A d \in Clients : call'[d].at = "stop" => service'[call'[d].ss].stopping
      BY <1>1, <2>2, <2>6, <3>1, <3>2 DEF Hears, Stopping, StoppingIn
    <3>4. \A d, e \in Clients :
             call'[d].at = "stop" /\ call'[e].at = "stop" /\ call'[d].ss = call'[e].ss => d = e
      BY <2>2, <3>1 DEF Hears, Stopping, StoppingIn
    <3>5. \A t \in Services :
             service'[t].stopping => \E d \in Clients : call'[d].at = "stop" /\ call'[d].ss = t
      BY <2>2, <2>6 DEF Hears, Stopping, StoppingIn
    <3> QED
      BY <3>3, <3>4, <3>5 DEF Stopping, StoppingIn, Services
  <2>9. Counted'
    BY <1>1, <2>2 DEF Hears, Counted
  <2> HIDE DEF x
  <2>10. Unused'
    BY <1>1, <2>4, <2>6 DEF Hears, Unused, Services
  <2>11. Live'
    BY <1>1, <2>4, <2>6 DEF Hears, Live, Inv, Shape
  <2> QED
    BY <2>7, <2>8, <2>9, <2>10, <2>11 DEF Hears, Services
<1> QED
  BY <1>3, <1>4

LEMMA HearsEnds ==
  ASSUME Inv, Hears, NEW c \in Clients, sessionEnds(c)
  PROVE  Hears'
<1> DEFINE s == call[c].ss
           v == service[s]
           x == [v EXCEPT !.session = None, !.stopping = FALSE]
<1>1. /\ call[c].at = "stop" /\ v.stopping /\ s \in Services /\ Whole(v) /\ Fed(v)
      /\ UNCHANGED <<slot, services, sessions, dataMQ, queues, prepared>>
  BY DEF sessionEnds, Inv, Shape, Hears, Stopping, StoppingIn
<1>2. \A d \in Clients : WholeCall(call[d])
  BY DEF Inv, Shape
<1>3. service' = [service EXCEPT ![s] = x] /\ call' = [call EXCEPT ![c].at = "closed"]
  BY <1>1 DEF sessionEnds, Whole, Inv, Shape
<1>4. \A d \in Clients : /\ call'[d].ss = call[d].ss
                         /\ call'[d].at = "stop" <=> d # c /\ call[d].at = "stop"
  BY <1>2, <1>3 DEF Inv, Shape, WholeCall
<1>5. x.receiver = v.receiver /\ x.session = None /\ x.started = v.started /\ x.stopping = FALSE
  BY <1>1 DEF Whole
<1>6. \A t \in Services : service'[t] = IF t = s THEN x ELSE service[t]
  BY <1>3 DEF Inv, Shape
<1> HIDE DEF x, v
<1>7. Fed(x)
  BY <1>1, <1>5 DEF Fed, Heard
<1>8. \A t \in Services : Fed(service'[t])
  BY <1>6, <1>7 DEF Hears
<1>9. Stopping'
  <2>1. \A d \in Clients : call'[d].at = "stop" => call[d].ss \in Services /\ call[d].ss # s
    BY <1>1, <1>4 DEF Inv, Shape, Hears, Stopping, StoppingIn
  <2>2. \A d \in Clients : call'[d].at = "stop" => service'[call'[d].ss].stopping
    BY <1>4, <1>6, <2>1 DEF Hears, Stopping, StoppingIn
  <2>3. \A d, e \in Clients :
           call'[d].at = "stop" /\ call'[e].at = "stop" /\ call'[d].ss = call'[e].ss => d = e
    BY <1>4 DEF Hears, Stopping, StoppingIn
  <2>4. ASSUME NEW t \in Services, service'[t].stopping
        PROVE  \E d \in Clients : call'[d].at = "stop" /\ call'[d].ss = t
    <3>1. t # s /\ service[t].stopping
      BY <1>5, <1>6, <2>4
    <3>2. PICK d \in Clients : call[d].at = "stop" /\ call[d].ss = t
      BY <3>1 DEF Hears, Stopping, StoppingIn
    <3>3. d # c
      BY <3>1, <3>2
    <3> QED
      BY <1>4, <3>2, <3>3
  <2> QED
    BY <2>2, <2>3, <2>4 DEF Stopping, StoppingIn, Services
<1>10. Counted'
  BY <1>1, <1>4 DEF Hears, Counted
<1>11. \A t \in Services : service'[t].receiver = service[t].receiver
  BY <1>5, <1>6 DEF v
<1>12. Unused'
  BY <1>1, <1>11 DEF Hears, Unused, Services
<1>13. Live'
  BY <1>1, <1>11 DEF Hears, Live, Inv, Shape
<1> QED
  BY <1>8, <1>9, <1>10, <1>12, <1>13 DEF Hears, Services

LEMMA HearsReturns ==
  ASSUME Inv, Hears, Inv', NEW c \in Clients, call[c].at # "stop", Return(c),
         UNCHANGED <<slot, services, sessions, dataMQ, queues, prepared>>
  PROVE  Hears'
<1>1. \A x \in Clients : call'[x] = IF x = c THEN NoCall ELSE call[x]
  BY DEF Inv, Shape, Return
<1>2. StoppingIn(service, call')
  <2>1. call'[c].at # "stop"
    BY <1>1, NobodysService
  <2> QED
    BY <1>1, <2>1 DEF Hears, Stopping, StoppingIn
<1>3. /\ \A s \in Services : Fed(service'[s])
      /\ Stopping'
      /\ \A s \in Services : service'[s] = service[s] \/ service'[s].receiver = None
      /\ slot' # None => service'[slot'] = service[slot']
  <2>1. /\ service' = Kept(service, slot', call') /\ \A s \in Services : Fed(service[s])
        /\ \A x \in Clients : call'[x].ss = call'[x].ss
    BY DEF Return, Hears
  <2> QED
    BY <1>2, <2>1, KeptFed
<1>4. Counted'
  BY <1>1, NobodysService DEF Hears, Counted
<1>5. Unused'
  BY <1>3 DEF Hears, Unused, Services
<1>6. Live'
  BY <1>3 DEF Hears, Live
<1> QED
  BY <1>3, <1>4, <1>5, <1>6 DEF Hears, Services

LEMMA HearsClosesConnection ==
  ASSUME Inv, Hears, Inv', NEW c \in Clients, closeConnection(c)
  PROVE  Hears'
<1> DEFINE s == call[c].ss
           svc == IF s = None THEN service ELSE [service EXCEPT ![s] = stopFmqReceiver(@)]
<1>1. /\ s \in Services \cup {None} /\ service = [t \in Services |-> service[t]]
      /\ \A t \in Services : Whole(service[t]) /\ Fed(service[t])
  BY DEF Inv, Shape, Hears
<1>2. /\ service' = Kept(svc, slot', call) /\ slot' = None /\ call[c].at = "disconnect"
      /\ call' = [call EXCEPT ![c].at = "disconnected"] /\ dataMQ' \in {dataMQ, None}
      /\ UNCHANGED <<services, sessions, queues, prepared>>
  BY DEF closeConnection
<1>3. \A t \in Services : /\ Fed(svc[t]) /\ svc[t].stopping = service[t].stopping
                          /\ service[t].receiver = None => svc[t].receiver = None
  <2>1. CASE s = None
    BY <1>1, <2>1
  <2>2. CASE s # None
    <3>1. \A t \in Services : svc[t] = IF t = s THEN stopFmqReceiver(service[s]) ELSE service[t]
      BY <1>1, <2>2
    <3> HIDE DEF svc
    <3> QED
      BY <1>1, <2>2, <3>1, StopReceiverFed
  <2> QED
    BY <2>1, <2>2
<1> HIDE DEF svc
<1>4. \A x \in Clients : /\ call'[x].ss = call[x].ss
                         /\ call'[x].at = "stop" <=> call[x].at = "stop"
                         /\ call[x].at = "stop" => call[x].ss \in Services
  BY <1>2 DEF Inv, Shape, WholeCall
<1>5. StoppingIn(svc, call')
  BY <1>3, <1>4 DEF Hears, Stopping, StoppingIn
<1>6. /\ \A t \in Services : Fed(service'[t])
      /\ Stopping'
      /\ \A t \in Services : service'[t] = svc[t] \/ service'[t].receiver = None
  BY <1>2, <1>3, <1>4, <1>5, KeptFed
<1>7. Counted'
  BY <1>2, <1>4 DEF Hears, Counted
<1>8. Unused'
  BY <1>2, <1>3, <1>6 DEF Hears, Unused, Services
<1>9. Live'
  BY <1>2 DEF Live
<1> QED
  BY <1>6, <1>7, <1>8, <1>9 DEF Hears, Services

LEMMA HearsDies ==
  ASSUME Inv, Hears, serverDies
  PROVE  Hears'
<1>1. /\ service' = [s \in Services |-> NoService] /\ call' = [c \in Clients |-> NoCall]
      /\ slot' = None /\ dataMQ' = None /\ prepared' = [service |-> None, queue |-> None]
      /\ UNCHANGED <<services, sessions, queues>>
  BY DEF serverDies
<1>2. \A s \in Services : Fed(service'[s]) /\ service'[s].receiver = None /\ ~service'[s].stopping
  BY <1>1, NoServiceFed
<1>3. \A c \in Clients : call'[c].at # "stop" /\ call'[c].ss = None
  BY <1>1, NobodysService
<1> QED
  BY <1>1, <1>2, <1>3 DEF Hears, Counted, Stopping, StoppingIn, Live, Unused, Services

LEMMA HearsInit == Init => Hears
<1> SUFFICES ASSUME Init PROVE Hears
  OBVIOUS
<1>1. \A s \in Services : Fed(service[s]) /\ service[s].receiver = None /\ ~service[s].stopping
  BY NoServiceFed DEF Init
<1>2. \A c \in Clients : call[c].at # "stop" /\ call[c].ss = None
  BY NobodysService DEF Init
<1> QED
  BY <1>1, <1>2 DEF Init, Hears, Counted, Stopping, StoppingIn, Live, Unused

LEMMA HearsStep ==
  ASSUME PrepareBesideClose = FALSE, Inv, Hears, [Next]_vars
  PROVE  Hears'
<1>0. Inv'
  BY InvStep
<1>1. ASSUME NEW c \in Clients, Library(c)
      PROVE  Hears'
  <2>1. CASE initRemote(c)
    BY <1>0, <2>1, HearsConnects
  <2>2. CASE retryRemote(c)
    BY <2>2, SameHears DEF retryRemote
  <2> QED
    BY <1>1, <2>1, <2>2 DEF Library
<1>2. ASSUME NEW c \in Clients, Close(c)
      PROVE  Hears'
  <2>1. CASE closeCalled(c)
    BY <2>1, HearsFetches DEF closeCalled, Ready
  <2>2. CASE closeReturns(c)
    BY <1>0, <2>2, HearsReturns DEF closeReturns
  <2> QED
    BY <1>2, <2>1, <2>2, HearsStops, HearsEnds DEF Close
<1>3. ASSUME NEW c \in Clients, Disconnect(c)
      PROVE  Hears'
  <2>1. CASE closeConnectionCalled(c)
    BY <2>1, HearsFetches DEF closeConnectionCalled
  <2>2. CASE closeConnectionReturns(c)
    BY <1>0, <2>2, HearsReturns DEF closeConnectionReturns
  <2> QED
    BY <1>0, <1>3, <2>1, <2>2, HearsClosesConnection DEF Disconnect
<1>4. ASSUME NEW c \in Clients, clientDies(c)
      PROVE  Hears'
  BY <1>4, SameHears DEF clientDies
<1>5. CASE serverStarts
  BY <1>5, SameHears DEF serverStarts
<1>6. CASE UNCHANGED vars
  BY <1>6, SameHears DEF vars
<1> QED
  BY <1>1, <1>2, <1>3, <1>4, <1>5, <1>6, HearsOpens, HearsPrepares, HearsDies DEF Next

LEMMA HearsIsHeard == Inv /\ Hears => SourceHeard
<1> SUFFICES ASSUME Inv, Hears PROVE SourceHeard
  OBVIOUS
<1>1. ReadsLiveQueue
  BY DEF Hears, Live, ReadsLiveQueue
<1>2. ASSUME slot # None, prepared = [service |-> slot, queue |-> dataMQ],
             service[slot].session # None, ~service[slot].stopping
      PROVE  /\ service[slot].receiver # None
             /\ service[slot].receiver.queue = dataMQ
             /\ service[slot].receiver.clients = <<service[slot].session>>
  <2>1. prepared.service = slot /\ prepared.queue = dataMQ /\ dataMQ # None
    BY <1>2, ServerAssumption DEF Hears, Counted
  <2>2. Fed(service[slot])
    BY <1>2 DEF Hears, Inv, Shape
  <2>3. service[slot].receiver # None /\ dataMQ \in {service[slot].receiver.queue, None}
    BY <1>2, <2>1 DEF Hears, Live
  <2> QED
    BY <1>2, <2>1, <2>2, <2>3 DEF Fed, Heard
<1> QED
  BY <1>1, <1>2 DEF SourceHeard

\* As long as no source is created beside a close, the source that has found the server's
\* service and its queue feeds the session that is open, in whatever order clients open,
\* close, take over and die, and however often the queue is prepared; and no session reads
\* an older queue (SubtitleService.cpp:70-79, 148, 523, SubtitleServer.cpp:232-236).
THEOREM SourceHeardAlways ==
  ASSUME PrepareBesideClose = FALSE
  PROVE  Spec => []SourceHeard
<1>1. Init => Inv /\ Hears
  BY InvInit, HearsInit
<1>2. Inv /\ Hears /\ [Next]_vars => (Inv /\ Hears)'
  BY InvStep, HearsStep
<1>3. Inv /\ Hears => SourceHeard
  BY HearsIsHeard
<1> QED
  BY <1>1, <1>2, <1>3, PTL DEF Spec
=============================================================================
