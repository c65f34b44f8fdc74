---------------------------- MODULE ClientProofs ----------------------------
(***************************************************************************)
(* Proofs about what the server keeps for its clients: their callbacks     *)
(* (ServerCallbacks), and what a native client asked for (SubtitleParams), *)
(* both as instances of the module Server that puts them together.         *)
(*                                                                         *)
(* A callback stays where its cookie says (Placed).  A claim is followed   *)
(* through the calls its client has still to make (Claim): what it has     *)
(* made has left its mark in mSubParam, and after open() the source and    *)
(* the session are of that kind until someone else calls.                  *)
(***************************************************************************)
EXTENDS Server, FiniteSetTheorems, WellFoundedInduction, TLAPS

LEMMA SameSize == \A S : Cb!Cardinality(S) = Cardinality(S)
BY Zenon DEF Cb!Cardinality, Cardinality

\* The least of some natural numbers is one of them.
LEMMA LeastOfAll ==
    ASSUME NEW S \in SUBSET Nat, S # {}
    PROVE  Cb!Least(S) \in S
<1> DEFINE R == {ss \in Nat \X Nat : ss[1] < ss[2]}
<1>1. IsWellFoundedOn(R, Nat)
  BY NatLessThanWellFounded DEF OpToRel
<1> HIDE DEF R
<1>2. PICK x \in S : \A y \in S : ~(<<y, x>> \in R)
  BY <1>1, WFMin
<1>3. \A y \in S : x <= y
  <2> TAKE y \in S
  <2>1. x \in Nat /\ y \in Nat
    OBVIOUS
  <2>2. y < x => <<y, x>> \in R
    BY <2>1 DEF R
  <2> QED BY <1>2, <2>1, <2>2
<1> QED BY <1>3 DEF Cb!Least

Callers(m) == /\ m \in [DOMAIN m -> Callbacks \cup {Null}]
              /\ DOMAIN m \subseteq Nat /\ IsFiniteSet(DOMAIN m)

\* The number a new callback is given has none.
LEMMA CookieIsUnused ==
    ASSUME NEW m, Callers(m)
    PROVE  /\ Cb!Cookie(m) \in Nat
           /\ Cb!Cookie(m) \in DOMAIN m => m[Cb!Cookie(m)] = Null
<1> DEFINE n == Cardinality(DOMAIN m)
<1>1. n \in Nat
  BY FS_CardinalityType DEF Callers
<1>2. CASE Cb!Unused(m) # {}
  <2>1. Cb!Unused(m) \subseteq Nat
    BY <1>1, SameSize DEF Cb!Unused, Cb!Size
  <2>2. Cb!Least(Cb!Unused(m)) \in Cb!Unused(m)
    BY <1>2, <2>1, LeastOfAll
  <2>3. Cb!Cookie(m) \in Cb!Unused(m)
    BY <1>2, <2>2 DEF Cb!Cookie
  <2> QED BY <2>1, <2>3 DEF Cb!Unused
<1>3. CASE Cb!Unused(m) = {}
  <2>1. Cb!Cookie(m) = n
    BY <1>3, SameSize DEF Cb!Cookie, Cb!Size
  <2>2. 0 .. n - 1 \subseteq DOMAIN m
    BY <1>1, <1>3, SameSize DEF Cb!Unused, Cb!Size
  <2>3. IsFiniteSet(0 .. n - 1) /\ Cardinality(0 .. n - 1) = n
    BY <1>1, FS_Interval
  <2>4. DOMAIN m = 0 .. n - 1
    BY <2>2, <2>3, FS_Subset DEF Callers
  <2> QED BY <1>1, <2>1, <2>4
<1> QED BY <1>2, <1>3

\* What holds of the callbacks: a callback is where its link says; the entry whose death is to
\* be handled is still that of the dead, whose link is gone; who is dead has not left.
Stages == {"new", "set", "leaving", "gone"}
Placed ==
    /\ Callers(clients)
    /\ stage \in [Callbacks -> Stages] /\ alive \subseteq Callbacks
    /\ DOMAIN linked = Callbacks
    /\ \A c \in Callbacks : linked[c] # Null =>
         linked[c] \in DOMAIN clients /\ clients[linked[c]] = c
    /\ \A i \in reports :
         /\ i \in DOMAIN clients /\ clients[i] \in Callbacks \ alive
         /\ linked[clients[i]] = Null
    /\ \A c \in Callbacks \ alive : stage[c] = "set"

Keeps == \A c \in Cb!Registered \cap alive : stage'[c] # "gone" => c \in Cb!Registered'

LEMMA InitPlaced == Cb!Init => Placed
<1> SUFFICES ASSUME Cb!Init PROVE Placed
  OBVIOUS
<1>1. Callers(clients)
  BY FS_EmptySet DEF Cb!Init, Callers
<1> QED BY <1>1 DEF Cb!Init, Placed, Stages

\* Entries made for numbers that had none are empty.
LEMMA TouchedCallers ==
    ASSUME NEW m, Callers(m), NEW S \in SUBSET Nat, IsFiniteSet(S)
    PROVE  /\ Callers(Cb!Touched(m, S))
           /\ DOMAIN Cb!Touched(m, S) = DOMAIN m \cup S
           /\ \A i \in DOMAIN m : Cb!Touched(m, S)[i] = m[i]
           /\ \A i \in S \ DOMAIN m : Cb!Touched(m, S)[i] = Null
<1>1. IsFiniteSet(DOMAIN m \cup S)
  BY FS_Union DEF Callers
<1> QED BY <1>1 DEF Callers, Cb!Touched

\* A notification changes no more than that.
LEMMA TouchKeeps ==
    ASSUME Placed, NEW S \in SUBSET Nat, IsFiniteSet(S), clients' = Cb!Touched(clients, S),
           UNCHANGED <<stage, alive, linked, reports>>
    PROVE  Placed' /\ Keeps
<1>1. /\ Callers(clients') /\ DOMAIN clients' = DOMAIN clients \cup S
      /\ \A i \in DOMAIN clients : clients'[i] = clients[i]
  <2> DEFINE m == Cb!Touched(clients, S)
  <2>1. Callers(clients)
    BY DEF Placed
  <2>2. /\ Callers(m) /\ DOMAIN m = DOMAIN clients \cup S
        /\ \A i \in DOMAIN clients : m[i] = clients[i]
    BY <2>1, TouchedCallers
  <2>3. clients' = m
    OBVIOUS
  <2> HIDE DEF m
  <2> QED BY <2>2, <2>3
<1>2. Placed'
  BY <1>1 DEF Placed
<1>3. Keeps
  BY <1>1 DEF Keeps, Cb!Registered
<1> QED BY <1>2, <1>3

LEMMA NextPlaced ==
    ASSUME DiesInCall = FALSE, IsFiniteSet(Callbacks), Null \notin Callbacks,
           Placed, [Cb!Next]_(Cb!cbvars)
    PROVE  Placed' /\ Keeps
<1>1. ASSUME NEW c \in Callbacks, Cb!setCallback(c) PROVE Placed' /\ Keeps
  <2> DEFINE at == Cb!Cookie(clients)
             m == Cb!Touched(clients, 0 .. at)
  <2>1. at \in Nat /\ (at \in DOMAIN clients => clients[at] = Null)
    BY CookieIsUnused DEF Placed
  <2>2. 0 .. at \subseteq Nat /\ IsFiniteSet(0 .. at)
    BY <2>1, FS_Interval
  <2>3. /\ Callers(m) /\ DOMAIN m = DOMAIN clients \cup 0 .. at
        /\ \A i \in DOMAIN clients : m[i] = clients[i]
    <3>1. Callers(clients)
      BY DEF Placed
    <3> QED BY <2>2, <3>1, TouchedCallers
  <2>4. clients' = [m EXCEPT ![at] = c]
    BY <1>1 DEF Cb!setCallback
  <2>5. /\ linked' = [linked EXCEPT ![c] = at] /\ stage' = [stage EXCEPT ![c] = "set"]
        /\ c \in alive /\ UNCHANGED <<alive, reports>>
    BY <1>1 DEF Cb!setCallback
  <2> HIDE DEF at, m
  <2>6. at \in DOMAIN m
    BY <2>1, <2>3
  <2>7. /\ Callers(clients') /\ clients'[at] = c /\ DOMAIN clients \subseteq DOMAIN clients'
        /\ at \in DOMAIN clients'
        /\ \A i \in DOMAIN clients \ {at} : clients'[i] = clients[i]
    BY <2>3, <2>4, <2>6 DEF Callers
  <2>8. /\ DOMAIN linked' = Callbacks /\ linked'[c] = at
        /\ \A d \in Callbacks \ {c} : linked'[d] = linked[d]
    BY <2>5 DEF Placed
  <2>9. stage' \in [Callbacks -> Stages] /\ \A d \in Callbacks \ {c} : stage'[d] = stage[d]
    BY <2>5 DEF Placed, Stages
  <2>10. \A d \in Callbacks : linked'[d] # Null =>
           linked'[d] \in DOMAIN clients' /\ clients'[linked'[d]] = d
    BY <2>1, <2>7, <2>8 DEF Placed
  <2>11. \A i \in reports' :
           /\ i \in DOMAIN clients' /\ clients'[i] \in Callbacks \ alive'
           /\ linked'[clients'[i]] = Null
    BY <2>1, <2>5, <2>7, <2>8 DEF Placed
  <2>12. \A d \in Callbacks \ alive' : stage'[d] = "set"
    BY <2>5, <2>9 DEF Placed
  <2>13. Placed'
    BY <2>5, <2>7, <2>8, <2>9, <2>10, <2>11, <2>12 DEF Placed
  <2>14. Keeps
    BY <2>1, <2>7 DEF Keeps, Cb!Registered
  <2> QED BY <2>13, <2>14
<1>2. ASSUME NEW c \in Callbacks, Cb!setFallbackCallback(c) PROVE Placed' /\ Keeps
  <2>1. /\ c \in alive /\ stage' = [stage EXCEPT ![c] = "set"]
        /\ UNCHANGED <<clients, alive, linked, reports>>
    BY <1>2 DEF Cb!setFallbackCallback
  <2> QED BY <2>1 DEF Placed, Keeps, Cb!Registered, Stages
<1>3. ASSUME NEW c \in Callbacks, Cb!leave(c) PROVE Placed' /\ Keeps
  <2>1. /\ c \in alive /\ stage' = [stage EXCEPT ![c] = "leaving"]
        /\ UNCHANGED <<clients, alive, linked, reports>>
    BY <1>3 DEF Cb!leave
  <2> QED BY <2>1 DEF Placed, Keeps, Cb!Registered, Stages
<1>4. ASSUME NEW c \in Callbacks, Cb!removeCallback(c) PROVE Placed' /\ Keeps
  <2> DEFINE kept == {j \in DOMAIN clients : clients[j] # c}
  <2>1. /\ stage[c] = "leaving" /\ stage' = [stage EXCEPT ![c] = "gone"]
        /\ clients' = [i \in kept |-> clients[i]] /\ linked' = [linked EXCEPT ![c] = Null]
        /\ UNCHANGED <<alive, reports>>
    BY <1>4 DEF Cb!removeCallback
  <2>2. c \in alive
    BY <2>1 DEF Placed
  <2>3. IsFiniteSet(kept)
    BY FS_Subset DEF Placed, Callers
  <2>4. Callers(clients')
    BY <2>1, <2>3 DEF Placed, Callers
  <2>5. /\ DOMAIN linked' = Callbacks /\ linked'[c] = Null
        /\ \A d \in Callbacks \ {c} : linked'[d] = linked[d]
    BY <2>1 DEF Placed
  <2>6. stage' \in [Callbacks -> Stages] /\ stage'[c] = "gone"
        /\ \A d \in Callbacks \ {c} : stage'[d] = stage[d]
    BY <2>1 DEF Placed, Stages
  <2>7. \A d \in Callbacks : linked'[d] # Null =>
           linked'[d] \in DOMAIN clients' /\ clients'[linked'[d]] = d
    BY <2>1, <2>5 DEF Placed
  <2>8. \A i \in reports' :
           /\ i \in DOMAIN clients' /\ clients'[i] \in Callbacks \ alive'
           /\ linked'[clients'[i]] = Null
    BY <2>1, <2>2, <2>5 DEF Placed
  <2>9. Placed'
    BY <2>1, <2>2, <2>4, <2>5, <2>6, <2>7, <2>8 DEF Placed
  <2>10. Keeps
    BY <2>1, <2>6 DEF Keeps, Cb!Registered
  <2> QED BY <2>9, <2>10
<1>5. ASSUME NEW c \in Callbacks, Cb!die(c) PROVE Placed' /\ Keeps
  <2>1. /\ stage[c] = "set" /\ alive' = alive \ {c}
        /\ UNCHANGED <<clients, stage, linked, reports>>
    BY <1>5 DEF Cb!die
  <2> QED BY <2>1 DEF Placed, Keeps, Cb!Registered
<1>6. ASSUME NEW c \in Callbacks, Cb!deathReported(c) PROVE Placed' /\ Keeps
  <2>1. /\ c \notin alive /\ linked[c] # Null /\ reports' = reports \cup {linked[c]}
        /\ linked' = [linked EXCEPT ![c] = Null] /\ UNCHANGED <<clients, alive, stage>>
    BY <1>6 DEF Cb!deathReported
  <2>2. /\ DOMAIN linked' = Callbacks /\ linked'[c] = Null
        /\ \A d \in Callbacks \ {c} : linked'[d] = linked[d]
    BY <2>1 DEF Placed
  <2>3. Placed'
    BY <2>1, <2>2 DEF Placed
  <2>4. Keeps
    BY <2>1 DEF Keeps, Cb!Registered
  <2> QED BY <2>3, <2>4
<1>7. ASSUME NEW i \in reports, Cb!handleServiceDeath(i) PROVE Placed' /\ Keeps
  <2> DEFINE m == Cb!Touched(clients, {i})
  <2>1. /\ reports' = reports \ {i} /\ clients' = [m EXCEPT ![i] = Null]
        /\ UNCHANGED <<stage, alive, linked>>
    BY <1>7 DEF Cb!handleServiceDeath
  <2>2. /\ i \in DOMAIN clients /\ clients[i] \in Callbacks \ alive
        /\ linked[clients[i]] = Null /\ i \in Nat
    BY DEF Placed, Callers
  <2>3. {i} \subseteq Nat /\ IsFiniteSet({i})
    BY <2>2, FS_Singleton
  <2>4. /\ Callers(m) /\ DOMAIN m = DOMAIN clients \cup {i}
        /\ \A j \in DOMAIN clients : m[j] = clients[j]
    <3>1. Callers(clients)
      BY DEF Placed
    <3> QED BY <2>3, <3>1, TouchedCallers
  <2> HIDE DEF m
  <2>5. /\ Callers(clients') /\ DOMAIN clients' = DOMAIN clients
        /\ \A j \in DOMAIN clients \ {i} : clients'[j] = clients[j]
    BY <2>1, <2>2, <2>4 DEF Callers
  <2>6. \A d \in Callbacks : linked[d] # Null => linked[d] # i
    BY <2>2 DEF Placed
  <2>7. Placed'
    BY <2>1, <2>2, <2>5, <2>6 DEF Placed
  <2>8. Keeps
    BY <2>1, <2>2, <2>5 DEF Keeps, Cb!Registered
  <2> QED BY <2>7, <2>8
<1>8. CASE Cb!displayNotify \/ Cb!eventNotify
  <2>1. UNCHANGED <<stage, alive, linked, reports>>
    BY <1>8 DEF Cb!displayNotify, Cb!eventNotify
  <2> DEFINE n == Cb!Size(clients)
             all == Cardinality(Callbacks)
  <2>2. n \in Nat /\ all \in Nat
    BY FS_CardinalityType, SameSize DEF Placed, Callers, Cb!Size
  <2>3. CASE UNCHANGED clients
    BY <2>1, <2>3 DEF Placed, Keeps, Cb!Registered
  <2>4. CASE clients' = Cb!Touched(clients, Cb!Walked(clients))
    <3>1. Cb!Walked(clients) \subseteq 0 .. n + all
      BY SameSize DEF Cb!Walked
    <3> HIDE DEF n, all
    <3>2. 0 .. n + all \subseteq Nat /\ IsFiniteSet(0 .. n + all)
      BY <2>2, FS_Interval
    <3>3. Cb!Walked(clients) \in SUBSET Nat /\ IsFiniteSet(Cb!Walked(clients))
      BY <3>1, <3>2, FS_Subset
    <3> QED BY <2>1, <2>4, <3>3, TouchKeeps
  <2>5. CASE clients' = Cb!Touched(clients, Cb!EventRange(clients))
    <3>1. Cb!EventRange(clients) = 0 .. n - 1
      BY DEF Cb!EventRange
    <3> HIDE DEF n
    <3>2. Cb!EventRange(clients) \in SUBSET Nat /\ IsFiniteSet(Cb!EventRange(clients))
      BY <2>2, <3>1, FS_Interval
    <3> QED BY <2>1, <2>5, <3>2, TouchKeeps
  <2> QED BY <1>8, <2>3, <2>4, <2>5 DEF Cb!displayNotify, Cb!eventNotify
<1>9. CASE (\E s \in BOOLEAN : Cb!uiCommand(s)) \/ UNCHANGED Cb!cbvars
  <2>1. UNCHANGED <<clients, stage, alive, linked, reports>>
    BY <1>9 DEF Cb!uiCommand, Cb!cbvars
  <2> QED BY <2>1 DEF Placed, Keeps, Cb!Registered
<1> QED BY <1>1, <1>2, <1>3, <1>4, <1>5, <1>6, <1>7, <1>8, <1>9 DEF Cb!Next

LEMMA CallbacksGoOn == ServerSpec => Cb!Spec
<1>1. ServerInit => Cb!Init
  BY DEF ServerInit
<1>2. [ServerNext]_<<part, vars, callbacks, parameters>> => [Cb!Next]_(Cb!cbvars)
  BY DEF ServerNext, callbacks, Cb!cbvars
<1> QED BY <1>1, <1>2, PTL DEF ServerSpec, Cb!Spec

\* A client that lives keeps its callback until it takes it back, however many callbacks there
\* are and in whatever order they come, go and die (SubtitleServer.cpp:558-573, 606-612, 956),
\* as long as no client dies in the middle of taking it back.
THEOREM CallbackKeptAlways ==
    ASSUME DiesInCall = FALSE, IsFiniteSet(Callbacks), Null \notin Callbacks
    PROVE  ServerSpec => CallbackKept
<1>1. Cb!Init => Placed
  BY InitPlaced
<1>2. Placed /\ [Cb!Next]_(Cb!cbvars) => Placed' /\ Keeps
  BY NextPlaced
<1>3. Placed /\ [Cb!Next]_(Cb!cbvars) =>
        [\A c \in Cb!Registered \cap alive : stage'[c] # "gone" => c \in Cb!Registered']_(Cb!cbvars)
  BY <1>2 DEF Keeps
<1> QED BY <1>1, <1>2, <1>3, CallbacksGoOn, PTL DEF Cb!Spec, CallbackKept, Cb!CallbackKept

-----------------------------------------------------------------------------
(* What clients ask for and get.                                           *)

\* The types whose numbers are the same for the client library and the server.
Agreed == {"CC", "SCTE27", "DVB"}
\* That the literals are strings is more than the provers know.
Words == STRING \cup {"none", "fmq", "close", "closeConnection", "setPipId", "ttControl", "setChannelId",
                     "setSubType", "setPageId", "setSubPid", "setSecureLevel", "configure", "open"}
Asking == [type : Agreed, pid : Int, flag : Int, channel : Int, dmx : Int, io : Words]
Callings == [op : Words, arg : Int, io : Words]
ClientsAsk ==
    /\ Native \cap Apps = {} /\ Rapid = FALSE
    /\ Requests \subseteq Asking /\ AppCalls \subseteq [op : STRING, arg : Int, io : STRING]

Subs == Ask!Broadcast \cup {"CC", Ask!Invalid}
Triples == [demuxId : Int, pid : Int, flag : Int]
SubParams == [dtv : Int, sub : Subs, channel : Int, mediaId : Int, of : [Ask!Broadcast -> Triples]]
Typed == param \in SubParams /\ calls \in [Ask!Users -> Seq(Callings)]

LEMMA NumbersAgree == \A t \in Agreed : Ask!ApiType[t] \in Int /\ Ask!Named(Ask!ApiType[t]) = {t}
<1>1. Ask!ApiType["CC"] = 2 /\ Ask!ApiType["SCTE27"] = 3 /\ Ask!ApiType["DVB"] = 4
  BY DEF Ask!ApiType
<1>2. Ask!Named(2) = {"CC"} /\ Ask!Named(3) = {"SCTE27"} /\ Ask!Named(4) = {"DVB"}
  BY DEF Ask!Named, Ask!DtvSubtitleType
<1> QED BY <1>1, <1>2 DEF Agreed

LEMMA NumbersSent ==
    ASSUME NEW t \in Agreed
    PROVE  Ask!mapApiType2SubtitleType(t) = Ask!ApiType[t]
BY DEF Agreed, Ask!mapApiType2SubtitleType, Ask!ApiType

\* update() changes the type and nothing else.
LEMMA Updated ==
    ASSUME NEW p \in SubParams
    PROVE  /\ Ask!update(p) \in SubParams
           /\ Ask!update(p).dtv = p.dtv /\ Ask!update(p).channel = p.channel /\ Ask!update(p).of = p.of
           /\ \A t \in Agreed : p.dtv = Ask!ApiType[t] => Ask!update(p).sub = t
<1> DEFINE t == IF Ask!Named(p.dtv) = {} THEN p.sub ELSE CHOOSE u \in Ask!Named(p.dtv) : TRUE
<1>1. Ask!update(p) = [p EXCEPT !.sub = t]
  BY DEF Ask!update
<1>2. \A n : Ask!Named(n) \subseteq Subs
  BY DEF Ask!Named, Ask!DtvSubtitleType, Subs, Ask!Broadcast
<1>3. t \in Subs
  <2>1. CASE Ask!Named(p.dtv) = {}
    BY <2>1 DEF SubParams
  <2>2. CASE Ask!Named(p.dtv) # {}
    BY <1>2, <2>2
  <2> QED BY <2>1, <2>2
<1>4. \A u \in Agreed : p.dtv = Ask!ApiType[u] => t = u
  BY NumbersAgree
<1> HIDE DEF t
<1> QED BY <1>1, <1>3, <1>4 DEF SubParams

\* What is stored goes into the record of the type that is set.
LEMMA StoredOnce ==
    ASSUME NEW p \in SubParams, NEW field \in {"demuxId", "pid", "flag"}, NEW v \in Int
    PROVE  /\ Ask!Stored(p, field, v) \in SubParams
           /\ Ask!Stored(p, field, v).dtv = p.dtv /\ Ask!Stored(p, field, v).sub = p.sub
           /\ Ask!Stored(p, field, v).channel = p.channel
           /\ \A t \in Ask!Broadcast : Ask!Stored(p, field, v).of[t] =
                IF t \in Ask!Named(p.dtv) THEN [p.of[t] EXCEPT ![field] = v] ELSE p.of[t]
<1> DEFINE ts == Ask!Named(p.dtv) \cap Ask!Broadcast
           of == [t \in Ask!Broadcast |-> IF t \in ts THEN [p.of[t] EXCEPT ![field] = v] ELSE p.of[t]]
<1>1. Ask!Stored(p, field, v) = [p EXCEPT !.of = of]
  BY DEF Ask!Stored
<1>2. \A t \in Ask!Broadcast : [p.of[t] EXCEPT ![field] = v] \in Triples
  BY DEF SubParams, Triples
<1>3. of \in [Ask!Broadcast -> Triples]
  BY <1>2 DEF SubParams
<1>4. \A t \in Ask!Broadcast : of[t] = IF t \in Ask!Named(p.dtv) THEN [p.of[t] EXCEPT ![field] = v] ELSE p.of[t]
  OBVIOUS
<1> HIDE DEF of
<1>5. Ask!Stored(p, field, v) \in SubParams /\ Ask!Stored(p, field, v).of = of
  BY <1>1, <1>3 DEF SubParams
<1>6. /\ Ask!Stored(p, field, v).dtv = p.dtv /\ Ask!Stored(p, field, v).sub = p.sub
      /\ Ask!Stored(p, field, v).channel = p.channel
  BY <1>1 DEF SubParams
<1> QED BY <1>4, <1>5, <1>6

\* A field of the type that is set becomes v, the two others stay.
LEMMA StoredThere ==
    ASSUME NEW p \in SubParams, NEW t \in Agreed \cap Ask!Broadcast, p.dtv = Ask!ApiType[t], NEW v \in Int
    PROVE  LET d == Ask!Stored(p, "demuxId", v).of[t]
               i == Ask!Stored(p, "pid", v).of[t]
               f == Ask!Stored(p, "flag", v).of[t] IN
           /\ d.demuxId = v /\ d.pid = p.of[t].pid /\ d.flag = p.of[t].flag
           /\ i.demuxId = p.of[t].demuxId /\ i.pid = v /\ i.flag = p.of[t].flag
           /\ f.demuxId = p.of[t].demuxId /\ f.pid = p.of[t].pid /\ f.flag = v
<1>1. t \in Ask!Named(p.dtv) /\ t \in Ask!Broadcast
  BY NumbersAgree
<1>2. p.of[t] \in Triples
  BY DEF SubParams
<1>3. /\ Ask!Stored(p, "demuxId", v).of[t] = [p.of[t] EXCEPT !["demuxId"] = v]
      /\ Ask!Stored(p, "pid", v).of[t] = [p.of[t] EXCEPT !["pid"] = v]
      /\ Ask!Stored(p, "flag", v).of[t] = [p.of[t] EXCEPT !["flag"] = v]
  BY <1>1, StoredOnce
<1> QED BY <1>2, <1>3 DEF Triples

\* A call made is the head of those a client has to make.
LEMMA CallMade ==
    ASSUME Typed, NEW c \in Ask!Users, NEW op, Ask!Calls(c, op)
    PROVE  /\ Ask!Next1(c) \in Callings /\ Ask!Next1(c).op = op
           /\ Tail(calls[c]) \in Seq(Callings)
           /\ Ask!Made(c) => calls' \in [Ask!Users -> Seq(Callings)]
<1>1. calls[c] \in Seq(Callings) /\ calls[c] # <<>> /\ Ask!Next1(c).op = op
  BY DEF Typed, Ask!Calls
<1>2. Head(calls[c]) \in Callings /\ Tail(calls[c]) \in Seq(Callings)
  BY <1>1
<1> QED BY <1>1, <1>2 DEF Typed, Ask!Made, Ask!Next1

LEMMA ForgottenTyped == ASSUME NEW p \in SubParams PROVE Ask!Forgotten(p) \in SubParams
<1>1. Ask!Invalid \in Subs /\ -1 \in Int
  BY DEF Subs
<1>2. Ask!Forgotten(p) = [p EXCEPT !.dtv = -1, !.sub = Ask!Invalid]
  BY DEF Ask!Forgotten
<1> QED BY <1>1, <1>2 DEF SubParams

LEMMA NewTyped == Ask!NewParam \in SubParams
BY DEF Ask!NewParam, SubParams, Subs, Triples, Ask!Broadcast

LEMMA CallsTyped ==
    ASSUME NEW op \in Words, NEW arg \in Int
    PROVE  Ask!Op(op, arg) \in Callings /\ Ask!Open(op, arg) \in Callings
<1>1. "none" \in Words /\ "open" \in Words
  BY DEF Words
<1> QED BY <1>1 DEF Ask!Op, Ask!Open, Callings

LEMMA ScriptTyped ==
    ASSUME Typed, NEW c \in Ask!Users, NEW script \in Seq(Callings), Ask!Asks(c, script)
    PROVE  Typed'
BY DEF Typed, Ask!Asks

LEMMA OperationTyped ==
    ASSUME ClientsAsk, Typed, NEW c \in Ask!Users, Ask!Operation(c)
    PROVE  Typed'
<1>1. CASE Ask!amlsub_Create(c)
  BY <1>1, NewTyped DEF Typed, Ask!amlsub_Create
<1>2. /\ Ask!Op("close", 0) \in Callings /\ Ask!Op("closeConnection", 0) \in Callings
      /\ Ask!Op("setPipId", 1) \in Callings /\ Ask!Op("ttControl", 0) \in Callings
      /\ Ask!Op("setChannelId", 1) \in Callings /\ Ask!Op("setSubType", 2) \in Callings
      /\ Ask!Op("setPageId", 0) \in Callings /\ Ask!Open("fmq", 0) \in Callings
  BY CallsTyped DEF Words
<1>3. CASE Ask!amlsub_Destroy(c)
  <2>1. <<Ask!Op("close", 0), Ask!Op("closeConnection", 0)>> \in Seq(Callings)
    BY <1>2
  <2> QED BY <1>3, <2>1, ScriptTyped DEF Ask!amlsub_Destroy
<1>4. CASE Ask!amlsub_Close(c) \/ Ask!amlsub_SetPip(c) \/ Ask!amlsub_TeletextControl(c)
  <2>1. /\ <<Ask!Op("close", 0)>> \in Seq(Callings) /\ <<Ask!Op("setPipId", 1)>> \in Seq(Callings)
        /\ <<Ask!Op("ttControl", 0)>> \in Seq(Callings)
    BY <1>2
  <2> QED BY <1>4, <2>1, ScriptTyped DEF Ask!amlsub_Close, Ask!amlsub_SetPip,
                                         Ask!amlsub_TeletextControl
<1>5. CASE Ask!selectCcChannel(c, 1)
  <2>1. <<Ask!Op("close", 0), Ask!Op("setChannelId", 1), Ask!Op("setSubType", 2), Ask!Open("fmq", 0)>> \in Seq(Callings)
    BY <1>2
  <2> QED BY <1>5, <2>1, ScriptTyped DEF Ask!selectCcChannel
<1>6. CASE Ask!appCalls(c)
  <2>1. PICK x \in AppCalls : Ask!Asks(c, <<x>>)
    BY <1>6 DEF Ask!appCalls
  <2>2. x \in Callings
    BY DEF ClientsAsk, Callings, Words
  <2>3. <<x>> \in Seq(Callings)
    BY <2>2
  <2> QED BY <2>1, <2>3, ScriptTyped
<1>7. ASSUME NEW r \in Requests, Ask!amlsub_Open(c, r) PROVE Typed'
  <2>1. r \in Asking
    BY DEF ClientsAsk
  <2>2. Ask!mapApiType2SubtitleType(r.type) \in Int
    BY <2>1, NumbersSent, NumbersAgree DEF Asking
  <2>3. /\ Ask!Op("setSubType", Ask!mapApiType2SubtitleType(r.type)) \in Callings
        /\ Ask!Op("setSubPid", r.pid) \in Callings /\ Ask!Op("setSecureLevel", r.flag) \in Callings
        /\ Ask!Op("setChannelId", r.channel) \in Callings /\ Ask!Open(r.io, r.dmx) \in Callings
    <3>1. r.pid \in Int /\ r.flag \in Int /\ r.channel \in Int /\ r.dmx \in Int /\ r.io \in Words
      BY <2>1 DEF Asking
    <3>2. /\ "setSubType" \in Words /\ "setSubPid" \in Words /\ "setSecureLevel" \in Words
          /\ "setChannelId" \in Words
      BY DEF Words
    <3> QED BY <2>2, <3>1, <3>2, CallsTyped
  <2>4. <<Ask!Op("setSubType", Ask!mapApiType2SubtitleType(r.type)), Ask!Op("setSubPid", r.pid),
          Ask!Op("setSecureLevel", r.flag), Ask!Op("setChannelId", r.channel),
          Ask!Op("setPageId", 0), Ask!Op("setPageId", 0), Ask!Open(r.io, r.dmx)>> \in Seq(Callings)
    BY <1>2, <2>3
  <2> QED BY <1>7, <2>4, ScriptTyped DEF Ask!amlsub_Open
<1> QED BY <1>1, <1>3, <1>4, <1>5, <1>6, <1>7 DEF Ask!Operation

LEMMA ServerTyped ==
    ASSUME ClientsAsk, Typed, NEW c \in Ask!Users, Ask!Server(c)
    PROVE  Typed'
<1>1. param \in SubParams
  BY DEF Typed
<1>2. CASE Ask!setSubType(c)
  <2>1. Ask!Next1(c) \in Callings /\ calls' \in [Ask!Users -> Seq(Callings)]
    BY <1>2, CallMade DEF Ask!setSubType
  <2>2. [param EXCEPT !.dtv = Ask!Next1(c).arg] \in SubParams
    BY <1>1, <2>1 DEF SubParams, Callings
  <2> QED BY <1>1, <1>2, <2>1, <2>2, Updated DEF Typed, Ask!setSubType
<1>3. CASE Ask!setSubPid(c) \/ Ask!setSecureLevel(c)
  <2>1. Ask!Next1(c) \in Callings /\ calls' \in [Ask!Users -> Seq(Callings)]
    BY <1>3, CallMade DEF Ask!setSubPid, Ask!setSecureLevel
  <2>2. Ask!Next1(c).arg \in Int
    BY <2>1 DEF Callings
  <2>3. Ask!Stored(param, "pid", Ask!Next1(c).arg) \in SubParams /\ Ask!Stored(param, "flag", Ask!Next1(c).arg) \in SubParams
    BY <1>1, <2>2, StoredOnce
  <2> QED BY <1>1, <1>3, <2>1, <2>3 DEF Typed, Ask!setSubPid, Ask!setSecureLevel
<1>4. CASE Ask!setChannelId(c) \/ Ask!setPipId(c) \/ Ask!ttControl(c)
  <2>1. Ask!Next1(c) \in Callings /\ calls' \in [Ask!Users -> Seq(Callings)]
    BY <1>4, CallMade DEF Ask!setChannelId, Ask!setPipId, Ask!ttControl
  <2>2. /\ [param EXCEPT !.channel = Ask!Next1(c).arg] \in SubParams
        /\ [param EXCEPT !.mediaId = Ask!Next1(c).arg] \in SubParams
        /\ [param EXCEPT !.sub = "TELETEXT"] \in SubParams
    BY <1>1, <2>1 DEF SubParams, Callings, Subs, Ask!Broadcast
  <2> QED BY <1>1, <1>4, <2>1, <2>2 DEF Typed, Ask!setChannelId, Ask!setPipId, Ask!ttControl
<1>5. CASE Ask!setSubPageId(c) \/ Ask!configure(c)
  BY <1>1, <1>5, CallMade DEF Typed, Ask!setSubPageId, Ask!configure
<1>6. CASE Ask!close(c)
  BY <1>1, <1>6, CallMade, ForgottenTyped DEF Typed, Ask!close
<1>7. CASE Ask!closeConnection(c)
  BY <1>7, CallMade, NewTyped DEF Typed, Ask!closeConnection
<1>8. CASE Ask!open(c)
  <2> DEFINE arg == Ask!Next1(c)
             p0 == IF Ask!TakesOver(c) THEN Ask!Forgotten(param) ELSE param
             p == Ask!WithDemux(p0, arg)
  <2>1. /\ arg \in Callings /\ Tail(calls[c]) \in Seq(Callings)
        /\ Ask!Made(c) => calls' \in [Ask!Users -> Seq(Callings)]
    BY <1>8, CallMade DEF Ask!open
  <2>2. p0 \in SubParams
    BY <1>1, ForgottenTyped
  <2>3. arg.arg \in Int
    BY <2>1 DEF Callings
  <2> HIDE DEF p0
  <2>4. p \in SubParams
    BY <2>2, <2>3, StoredOnce DEF Ask!WithDemux
  <2>5. param' = param \/ param' = p
    BY <1>8 DEF Ask!open, p0
  <2>6. Ask!Made(c) \/ calls' = [calls EXCEPT ![c] = <<Ask!Op("configure", 0)>> \o Tail(@)]
    BY <1>8 DEF Ask!open, Ask!refuse, Ask!start
  <2>7. <<Ask!Op("configure", 0)>> \o Tail(calls[c]) \in Seq(Callings)
    <3>1. Ask!Op("configure", 0) \in Callings
      BY CallsTyped DEF Words
    <3> QED BY <2>1, <3>1
  <2>8. calls' \in [Ask!Users -> Seq(Callings)]
    BY <2>1, <2>6, <2>7 DEF Typed
  <2> QED BY <1>1, <2>4, <2>5, <2>8 DEF Typed
<1> QED BY <1>2, <1>3, <1>4, <1>5, <1>6, <1>7, <1>8 DEF Ask!Server

-----------------------------------------------------------------------------
(* The claim of the client that asked last, and what it has of it so far.  *)

OpenScript(r) ==
    <<Ask!Op("setSubType", Ask!mapApiType2SubtitleType(r.type)), Ask!Op("setSubPid", r.pid),
      Ask!Op("setSecureLevel", r.flag), Ask!Op("setChannelId", r.channel),
      Ask!Op("setPageId", 0), Ask!Op("setPageId", 0), Ask!Open(r.io, r.dmx)>>
SelectScript == <<Ask!Op("close", 0), Ask!Op("setChannelId", 1), Ask!Op("setSubType", 2), Ask!Open("fmq", 0)>>

TypeSet(r) == param.dtv = Ask!ApiType[r.type] /\ param.sub = r.type
OfType(r, field, v) == r.type \in Ask!Broadcast => param.of[r.type][field] = v

\* It is in the middle of the calls of amlsub_Open(), or of selectCcChannel().
Opening(c, r) ==
    \E k \in 0 .. 6 :
        /\ calls[c] = SubSeq(OpenScript(r), k + 1, 7)
        /\ held => /\ k >= 1 => TypeSet(r)
                   /\ k >= 2 => OfType(r, "pid", r.pid)
                   /\ k >= 3 => OfType(r, "flag", r.flag)
                   /\ k >= 4 => param.channel = r.channel
Selecting(c, r) ==
    /\ r = Ask!ByChannel(1)
    /\ \E k \in 0 .. 3 :
        /\ calls[c] = SubSeq(SelectScript, k + 1, 4)
        /\ held => /\ k >= 2 => param.channel = 1
                   /\ k >= 3 => TypeSet(r)

\* What it may still call without asking for something else.
Afterwards == {<<Ask!Op("configure", 0)>>, <<>>, <<Ask!Op("setPipId", 1)>>, <<Ask!Op("ttControl", 0)>>,
               <<Ask!Op("close", 0)>>, <<Ask!Op("close", 0), Ask!Op("closeConnection", 0)>>}
SessionFields == {"sub", "current", "pending", "channel", "parser"}
ServedBy(s, r) ==
    /\ DOMAIN s = SessionFields
    /\ r.io = "demux" \/ s.current = Ask!Invalid =>
        /\ s.pending # "none" => s.sub = r.type /\ (r.type = "CC" => s.channel = r.channel)
        /\ s.parser # None => /\ s.parser.type = r.type
                              /\ r.type = "CC" => s.parser.channel = r.channel
Served(c, r) ==
    /\ calls[c] \in Afterwards
    /\ held /\ started
    /\ param.dtv = Ask!ApiType[r.type] /\ param.channel = r.channel
    /\ source.io = r.io /\ Ask!SourceAsAsked(r) /\ ServedBy(session, r)

Claims == [by : Native, request : Asking, accepted : BOOLEAN]
Claim ==
    asked # None =>
        /\ asked \in Claims
        /\ ~asked.accepted => Opening(asked.by, asked.request) \/ Selecting(asked.by, asked.request)
        /\ asked.accepted => Served(asked.by, asked.request)

LEMMA ScriptStep ==
    ASSUME NEW s \in Seq(Callings), NEW n \in Nat, Len(s) = n, NEW k \in 0 .. n - 1
    PROVE  /\ SubSeq(s, k + 1, n) # <<>> /\ Head(SubSeq(s, k + 1, n)) = s[k + 1]
           /\ Tail(SubSeq(s, k + 1, n)) = SubSeq(s, k + 2, n)
           /\ SubSeq(s, 1, n) = s /\ SubSeq(s, n + 1, n) = <<>>
<1> DEFINE t == SubSeq(s, k + 1, n)
<1>1. t \in Seq(Callings) /\ Len(t) = n - k /\ \A i \in 1 .. n - k : t[i] = s[k + i]
  OBVIOUS
<1>2. t # <<>> /\ Head(t) = s[k + 1]
  BY <1>1
<1>3. Tail(t) = SubSeq(s, k + 2, n)
  <2>1. Tail(t) \in Seq(Callings) /\ Len(Tail(t)) = n - k - 1 /\ \A i \in 1 .. n - k - 1 : Tail(t)[i] = s[k + 1 + i]
    BY <1>1, <1>2
  <2>2. /\ SubSeq(s, k + 2, n) \in Seq(Callings) /\ Len(SubSeq(s, k + 2, n)) = n - k - 1
        /\ \A i \in 1 .. n - k - 1 : SubSeq(s, k + 2, n)[i] = s[k + 1 + i]
    OBVIOUS
  <2> QED BY <2>1, <2>2
<1> QED BY <1>2, <1>3

LEMMA LastCall ==
    ASSUME NEW t \in Seq(Callings), t # <<>>, Tail(t) = <<>>
    PROVE  t = <<Head(t)>>
<1>1. Len(t) = 1 /\ t[1] = Head(t) /\ t[1] \in Callings
  <2>1. Len(Tail(t)) = Len(t) - 1 /\ Len(t) \in Nat
    BY t \in Seq(Callings), t # <<>>
  <2>2. Len(<<>>) = 0
    OBVIOUS
  <2>3. Len(Tail(t)) = 0
    BY <2>2, Zenon
  <2>4. Len(t) = 1
    BY <2>1, <2>3
  <2> QED BY <2>4
<1>2. <<t[1]>> \in Seq(Callings) /\ Len(<<t[1]>>) = 1 /\ <<t[1]>>[1] = t[1]
  BY <1>1
<1> QED BY <1>1, <1>2

LEMMA ScriptsTyped ==
    ASSUME NEW r \in Asking
    PROVE  OpenScript(r) \in Seq(Callings) /\ SelectScript \in Seq(Callings)
<1>1. r.pid \in Int /\ r.flag \in Int /\ r.channel \in Int /\ r.dmx \in Int /\ r.io \in Words
  BY DEF Asking, Words
<1>2. Ask!mapApiType2SubtitleType(r.type) \in Int
  BY NumbersSent, NumbersAgree DEF Asking
<1>3. /\ Ask!Op("setSubType", Ask!mapApiType2SubtitleType(r.type)) \in Callings
      /\ Ask!Op("setSubPid", r.pid) \in Callings /\ Ask!Op("setSecureLevel", r.flag) \in Callings
      /\ Ask!Op("setChannelId", r.channel) \in Callings /\ Ask!Open(r.io, r.dmx) \in Callings
      /\ Ask!Op("setPageId", 0) \in Callings /\ Ask!Op("close", 0) \in Callings
      /\ Ask!Op("setChannelId", 1) \in Callings /\ Ask!Op("setSubType", 2) \in Callings
      /\ Ask!Open("fmq", 0) \in Callings
  <2>1. /\ "setSubType" \in Words /\ "setSubPid" \in Words /\ "setSecureLevel" \in Words
        /\ "setChannelId" \in Words /\ "setPageId" \in Words /\ "close" \in Words /\ "fmq" \in Words
    BY DEF Words
  <2> QED BY <1>1, <1>2, <2>1, CallsTyped
<1> QED BY <1>3 DEF OpenScript, SelectScript

\* Parameters of the type and the channel asked for leave a session that serves one that does.
LEMMA SetServes ==
    ASSUME NEW s, NEW r \in Asking, ServedBy(s, r),
           NEW p \in SubParams, p.dtv = Ask!ApiType[r.type], p.channel = r.channel
    PROVE  ServedBy(Ask!setParameter(s, p), r)
<1> DEFINE pending == IF Ask!update(p).sub = Ask!Invalid THEN "RECEIVED_SUBTYPE" ELSE "SET_PARAM"
<1>1. Ask!update(p).sub = r.type /\ Ask!update(p).channel = r.channel
  BY Updated DEF Asking
<1>2. Ask!setParameter(s, p) = [s EXCEPT !.sub = r.type, !.channel = r.channel, !.pending = pending]
  BY <1>1 DEF Ask!setParameter
<1> HIDE DEF pending
<1> QED BY <1>2 DEF ServedBy, SessionFields

LEMMA AnnouncedServes ==
    ASSUME NEW s, NEW r \in Asking, ServedBy(s, r), NEW t, r.io # "demux"
    PROVE  ServedBy(Ask!onTypeChanged(s, t), r)
BY DEF ServedBy, SessionFields, Ask!onTypeChanged

LEMMA TickServes ==
    ASSUME NEW r \in Asking, ServedBy(session, r), Ask!tick
    PROVE  ServedBy(session', r)
<1> DEFINE parser == IF session.parser = None \/ session.pending = "RECEIVED_SUBTYPE" THEN Ask!NewParser(session)
                     ELSE IF session.parser.type = "CC" /\ session.sub = "CC" THEN Ask!NewParser(session)
                     ELSE session.parser
<1>1. session' = [session EXCEPT !.pending = "none", !.parser = parser] /\ session.pending # "none"
  BY DEF Ask!tick
<1>2. r.io = "demux" \/ session.current = Ask!Invalid =>
        (parser # None => parser.type = r.type /\ (r.type = "CC" => parser.channel = r.channel))
  <2>1. r.type # Ask!Invalid
    BY DEF Asking, Agreed, Ask!Invalid
  <2> QED BY <1>1, <2>1 DEF ServedBy, Ask!NewParser
<1> HIDE DEF parser
<1> QED BY <1>1, <1>2 DEF ServedBy, SessionFields

\* A call of another client takes the claim away.
LEMMA OthersForget ==
    ASSUME NEW c \in Ask!Users, Ask!Server(c), asked = None \/ asked.by # c
    PROVE  asked' = None
<1>1. CASE Ask!open(c)
  BY <1>1 DEF Ask!open, Ask!refuse, Ask!start, Ask!Told
<1>2. CASE Ask!close(c)
  BY <1>2 DEF Ask!close, Ask!Told
<1> QED BY <1>1, <1>2 DEF Ask!Server, Ask!Told, Ask!setSubType, Ask!setSubPid, Ask!setSecureLevel,
                          Ask!setChannelId,
           Ask!setSubPageId, Ask!setPipId, Ask!ttControl, Ask!configure, Ask!closeConnection

LEMMA ClaimStays ==
    ASSUME NEW c \in Native, NEW r \in Asking, asked \in Claims, asked.by = c, asked.request = r,
           \/ asked' = None
           \/ asked' = asked /\ ~asked.accepted /\ (Opening(c, r)' \/ Selecting(c, r)')
           \/ asked' = asked /\ asked.accepted /\ Served(c, r)'
           \/ asked' = [asked EXCEPT !.accepted = TRUE] /\ Served(c, r)'
    PROVE  Claim'
<1>1. CASE asked' = None
  BY <1>1 DEF Claim
<1>2. CASE asked' = asked
  BY <1>2 DEF Claim, Claims
<1>3. CASE asked' = [asked EXCEPT !.accepted = TRUE] /\ Served(c, r)'
  <2>1. asked' \in Claims /\ asked'.by = c /\ asked'.request = r /\ asked'.accepted
    BY <1>3 DEF Claims
  <2> QED BY <1>3, <2>1 DEF Claim
<1> QED BY <1>1, <1>2, <1>3

\* The open() that ends the calls of a claim is accepted with all that was asked for.
LEMMA OpenServes ==
    ASSUME ClientsAsk, Typed, NEW c \in Native, NEW r \in Asking, asked # None, asked.by = c, Ask!open(c),
           calls[c] = <<Ask!Open(r.io, r.dmx)>>, held => TypeSet(r) /\ param.channel = r.channel,
           held => OfType(r, "pid", r.pid) /\ OfType(r, "flag", r.flag)
    PROVE  \/ asked' = None
           \/ asked' = [asked EXCEPT !.accepted = TRUE] /\ Served(c, r)'
<1> DEFINE arg == Ask!Open(r.io, r.dmx)
           p == Ask!WithDemux(param, arg)
           new == Ask!NewSource(r.io)
           informed == IF r.io = "demux" /\ p.sub \in Ask!Given THEN Ask!Informed(new, p) ELSE new
<1>1. Ask!Next1(c) = arg /\ Tail(calls[c]) = <<>> /\ arg.io = r.io /\ arg.arg = r.dmx
  BY DEF Ask!Next1, Ask!Open
<1>2. ~Ask!TakesOver(c)
  BY DEF Ask!TakesOver, ClientsAsk
<1>3. CASE ~held
  BY <1>3 DEF Ask!open
<1>4. CASE held /\ started
  BY <1>2, <1>4 DEF Ask!open, Ask!refuse
<1>5. CASE held /\ ~started
  <2>1. param' = p /\ Ask!start(c, p, arg) /\ held' = held
    BY <1>1, <1>2, <1>5 DEF Ask!open
  <2>2. /\ started' = TRUE /\ asked' = [asked EXCEPT !.accepted = TRUE]
        /\ source' \in {[s EXCEPT !.on = TRUE] : s \in IF r.io = "demux" THEN Ask!Opens(informed) ELSE {informed}}
        /\ session' = IF source'.filter = None THEN Ask!NewSession ELSE Ask!onTypeChanged(Ask!NewSession, informed.type)
        /\ calls' = [calls EXCEPT ![c] = <<Ask!Op("configure", 0)>> \o Tail(@)]
    BY <1>1, <2>1 DEF Ask!start
  <2>3. calls'[c] = <<Ask!Op("configure", 0)>>
    <3>1. c \in DOMAIN calls
      BY DEF Typed, Ask!Users
    <3> QED BY <1>1, <2>2, <3>1
  <2>4. /\ p.dtv = Ask!ApiType[r.type] /\ p.sub = r.type /\ p.channel = r.channel
        /\ r.io = "demux" /\ r.type \in Ask!Broadcast =>
             p.of[r.type] = [demuxId |-> r.dmx, pid |-> r.pid, flag |-> r.flag]
    <3>1. param \in SubParams /\ r.dmx \in Int /\ r.type \in Agreed
      BY DEF Typed, Asking
    <3>2. /\ param.dtv = Ask!ApiType[r.type] /\ param.sub = r.type /\ param.channel = r.channel
          /\ r.type \in Ask!Broadcast => param.of[r.type].pid = r.pid /\ param.of[r.type].flag = r.flag
      BY <1>5 DEF TypeSet, OfType
    <3>3. CASE r.io # "demux"
      BY <1>1, <3>2, <3>3 DEF Ask!WithDemux
    <3>4. CASE r.io = "demux"
      <4>1. p = Ask!Stored(param, "demuxId", r.dmx)
        BY <1>1, <3>4 DEF Ask!WithDemux
      <4> HIDE DEF p
      <4>2. /\ p \in SubParams /\ p.dtv = Ask!ApiType[r.type] /\ p.sub = r.type /\ p.channel = r.channel
            /\ r.type \in Ask!Broadcast => /\ p.of[r.type].demuxId = r.dmx
                                           /\ p.of[r.type].pid = r.pid /\ p.of[r.type].flag = r.flag
        <5>1. /\ p \in SubParams /\ p.dtv = Ask!ApiType[r.type] /\ p.sub = r.type /\ p.channel = r.channel
          BY <3>1, <3>2, <4>1, StoredOnce
        <5>2. ASSUME r.type \in Ask!Broadcast
              PROVE  /\ p.of[r.type].demuxId = r.dmx /\ p.of[r.type].pid = param.of[r.type].pid
                     /\ p.of[r.type].flag = param.of[r.type].flag
          <6>1. r.type \in Agreed \cap Ask!Broadcast /\ param.dtv = Ask!ApiType[r.type]
            BY <3>1, <3>2, <5>2
          <6>2. LET d == Ask!Stored(param, "demuxId", r.dmx).of[r.type] IN
                d.demuxId = r.dmx /\ d.pid = param.of[r.type].pid /\ d.flag = param.of[r.type].flag
            BY <3>1, <6>1, StoredThere
          <6> QED BY <4>1, <6>2
        <5> QED BY <3>2, <5>1, <5>2
      <4>3. r.type \in Ask!Broadcast => p.of[r.type] \in Triples
        BY <4>2 DEF SubParams
      <4> QED BY <4>2, <4>3 DEF Triples
    <3> QED BY <3>3, <3>4
  <2> HIDE DEF p
  <2>5. PICK s \in IF r.io = "demux" THEN Ask!Opens(informed) ELSE {informed} : source' = [s EXCEPT !.on = TRUE]
    BY <2>2
  <2>6. /\ DOMAIN informed = {"io", "on", "type", "to", "filter"} /\ informed.io = r.io /\ informed.filter = None
        /\ informed.type = IF r.io = "demux" /\ r.type # "CC" THEN r.type ELSE Ask!Invalid
        /\ r.io = "demux" => informed.to = IF r.type = "CC" THEN [demuxId |-> -1, pid |-> -1, flag |-> 0]
                                       ELSE p.of[r.type]
    BY <2>4 DEF Ask!Informed, Ask!NewSource, Ask!Given, Ask!Taken, Ask!Broadcast, Asking, Agreed
  <2> HIDE DEF informed
  <2>7. /\ DOMAIN s = {"io", "on", "type", "to", "filter"} /\ s.io = informed.io /\ s.type = informed.type
        /\ s.to = informed.to /\ s.filter \in {None, [type |-> informed.type, to |-> informed.to]}
        /\ s.filter # None => r.io = "demux" /\ informed.to.demuxId # -1
    BY <2>5, <2>6 DEF Ask!Opens, Ask!Filtering
  <2>8. /\ source'.io = informed.io /\ source'.type = informed.type
        /\ source'.to = informed.to /\ source'.filter = s.filter
    BY <2>5, <2>7
  <2>9. source'.io = r.io /\ Ask!SourceAsAsked(r)'
    BY <2>4, <2>6, <2>7, <2>8 DEF Ask!SourceAsAsked, Ask!Broadcast
  <2>10. ServedBy(session', r)
    <3>1. CASE source'.filter = None
      BY <2>2, <3>1 DEF ServedBy, SessionFields, Ask!NewSession
    <3>2. CASE source'.filter # None
      <4>1. r.type # "CC" /\ informed.type = r.type /\ r.type # Ask!Invalid
        BY <2>6, <2>7, <2>8, <3>2 DEF Asking, Agreed, Ask!Invalid
      <4>2. session' = [Ask!NewSession EXCEPT !.current = r.type, !.sub = r.type, !.pending = "RECEIVED_SUBTYPE"]
        BY <2>2, <3>2, <4>1 DEF Ask!onTypeChanged, Ask!NewSession
      <4> QED BY <4>1, <4>2 DEF ServedBy, SessionFields, Ask!NewSession
    <3> QED BY <3>1, <3>2
  <2> QED BY <1>5, <2>1, <2>2, <2>3, <2>4, <2>9, <2>10 DEF Served, Afterwards
<1> QED BY <1>3, <1>4, <1>5

\* While the calls of a claim are under way its client makes them, one after the other.
LEMMA OpeningGoesOn ==
    ASSUME ClientsAsk, Typed, NEW c \in Native, NEW r \in Asking,
           asked # None, asked.by = c, ~asked.accepted, Opening(c, r), Ask!Server(c)
    PROVE  \/ asked' = None
           \/ asked' = asked /\ Opening(c, r)'
           \/ asked' = [asked EXCEPT !.accepted = TRUE] /\ Served(c, r)'
<1> DEFINE s == OpenScript(r)
<1>1. PICK k \in 0 .. 6 :
        /\ calls[c] = SubSeq(s, k + 1, 7)
        /\ held => /\ k >= 1 => TypeSet(r)
                   /\ k >= 2 => OfType(r, "pid", r.pid)
                   /\ k >= 3 => OfType(r, "flag", r.flag)
                   /\ k >= 4 => param.channel = r.channel
  BY DEF Opening
<1>2. s \in Seq(Callings) /\ Len(s) = 7
  BY ScriptsTyped DEF OpenScript
<1>3. /\ s[1] = Ask!Op("setSubType", Ask!mapApiType2SubtitleType(r.type)) /\ s[2] = Ask!Op("setSubPid", r.pid)
      /\ s[3] = Ask!Op("setSecureLevel", r.flag) /\ s[4] = Ask!Op("setChannelId", r.channel)
      /\ s[5] = Ask!Op("setPageId", 0) /\ s[6] = Ask!Op("setPageId", 0) /\ s[7] = Ask!Open(r.io, r.dmx)
  BY DEF OpenScript
<1> HIDE DEF s
<1>4. Ask!Next1(c) = s[k + 1] /\ Tail(calls[c]) = SubSeq(s, k + 2, 7)
  BY <1>1, <1>2, ScriptStep DEF Ask!Next1
<1>5. c \in DOMAIN calls /\ param \in SubParams /\ r.type \in Agreed
  BY DEF Typed, Ask!Users, Asking
<1>6. Ask!Made(c) => calls'[c] = SubSeq(s, k + 2, 7)
  BY <1>4, <1>5 DEF Ask!Made
<1>7. Ask!Told(c) => asked' = asked
  BY DEF Ask!Told
<1>8. ASSUME k < 6, Ask!Made(c), Ask!Told(c), held' = held,
             held => /\ TypeSet(r)'
                     /\ k >= 1 => OfType(r, "pid", r.pid)'
                     /\ k >= 2 => OfType(r, "flag", r.flag)'
                     /\ k >= 3 => param'.channel = r.channel
      PROVE  asked' = asked /\ Opening(c, r)'
  <2>1. calls'[c] = SubSeq(s, (k + 1) + 1, 7)
    BY <1>6, <1>8
  <2>2. k + 1 \in 0 .. 6
    BY <1>8
  <2>3. OpenScript(r)' = OpenScript(r)
    BY DEF OpenScript, Ask!Op, Ask!Open, Ask!mapApiType2SubtitleType, Ask!ApiType
  <2>4. calls'[c] = SubSeq(OpenScript(r)', (k + 1) + 1, 7)
    BY <2>1, <2>3 DEF s
  <2>5. held' => /\ k + 1 >= 1 => TypeSet(r)'
                 /\ k + 1 >= 2 => OfType(r, "pid", r.pid)'
                 /\ k + 1 >= 3 => OfType(r, "flag", r.flag)'
                 /\ k + 1 >= 4 => param'.channel = r.channel
    BY <1>8
  <2>6. Opening(c, r)'
    BY <2>2, <2>4, <2>5 DEF Opening
  <2> QED BY <1>7, <1>8, <2>6
<1>9. CASE Ask!setSubType(c)
  <2>1. k = 0
    BY <1>3, <1>4, <1>9 DEF Ask!setSubType, Ask!Calls, Ask!Op, Ask!Open
  <2>2. Ask!Next1(c).arg = Ask!ApiType[r.type]
    BY <1>3, <1>4, <1>5, <2>1, NumbersSent DEF Ask!Op
  <2>3. held => TypeSet(r)'
    <3> DEFINE q == [param EXCEPT !.dtv = Ask!ApiType[r.type]]
    <3>1. q \in SubParams /\ q.dtv = Ask!ApiType[r.type]
      BY <1>5, NumbersAgree DEF SubParams
    <3>2. held => param' = Ask!update(q)
      BY <1>9, <2>2 DEF Ask!setSubType
    <3> HIDE DEF q
    <3> QED BY <1>5, <3>1, <3>2, Updated DEF TypeSet
  <2> QED BY <1>8, <1>9, <2>1, <2>3 DEF Ask!setSubType
<1>10. CASE Ask!setSubPid(c)
  <2>1. k = 1
    BY <1>3, <1>4, <1>10 DEF Ask!setSubPid, Ask!Calls, Ask!Op, Ask!Open
  <2>2. Ask!Next1(c).arg = r.pid /\ r.pid \in Int
    BY <1>3, <1>4, <2>1 DEF Ask!Op, Asking
  <2>3. held => param' = Ask!Stored(param, "pid", r.pid)
    BY <1>10, <2>2 DEF Ask!setSubPid
  <2>4. held => TypeSet(r)'
    <3>1. "pid" \in {"demuxId", "pid", "flag"}
      OBVIOUS
    <3>2. LET q == Ask!Stored(param, "pid", r.pid) IN q.dtv = param.dtv /\ q.sub = param.sub
      BY <1>5, <2>2, <3>1, StoredOnce
    <3>3. held => TypeSet(r)
      BY <1>1, <2>1
    <3> QED BY <2>3, <3>2, <3>3 DEF TypeSet
  <2>5. held => OfType(r, "pid", r.pid)'
    <3> SUFFICES ASSUME held, r.type \in Ask!Broadcast PROVE param'.of[r.type].pid = r.pid
      BY DEF OfType
    <3>1. r.type \in Agreed \cap Ask!Broadcast /\ param.dtv = Ask!ApiType[r.type]
      BY <1>1, <1>5, <2>1 DEF TypeSet
    <3>2. LET i == Ask!Stored(param, "pid", r.pid).of[r.type] IN i.pid = r.pid
      BY <1>5, <2>2, <3>1, StoredThere
    <3> QED BY <2>3, <3>2
  <2> QED BY <1>8, <1>10, <2>1, <2>4, <2>5 DEF Ask!setSubPid
<1>11. CASE Ask!setSecureLevel(c)
  <2>1. k = 2
    BY <1>3, <1>4, <1>11 DEF Ask!setSecureLevel, Ask!Calls, Ask!Op, Ask!Open
  <2>2. Ask!Next1(c).arg = r.flag /\ r.flag \in Int
    BY <1>3, <1>4, <2>1 DEF Ask!Op, Asking
  <2>3. held => param' = Ask!Stored(param, "flag", r.flag)
    BY <1>11, <2>2 DEF Ask!setSecureLevel
  <2>4. held => TypeSet(r)'
    <3>1. "flag" \in {"demuxId", "pid", "flag"}
      OBVIOUS
    <3>2. LET q == Ask!Stored(param, "flag", r.flag) IN q.dtv = param.dtv /\ q.sub = param.sub
      BY <1>5, <2>2, <3>1, StoredOnce
    <3>3. held => TypeSet(r)
      BY <1>1, <2>1
    <3> QED BY <2>3, <3>2, <3>3 DEF TypeSet
  <2>5. held => OfType(r, "pid", r.pid)' /\ OfType(r, "flag", r.flag)'
    <3> SUFFICES ASSUME held, r.type \in Ask!Broadcast
                 PROVE  param'.of[r.type].pid = r.pid /\ param'.of[r.type].flag = r.flag
      BY DEF OfType
    <3>1. r.type \in Agreed \cap Ask!Broadcast /\ param.dtv = Ask!ApiType[r.type] /\ param.of[r.type].pid = r.pid
      BY <1>1, <1>5, <2>1 DEF TypeSet, OfType
    <3>2. LET f == Ask!Stored(param, "flag", r.flag).of[r.type] IN
          f.flag = r.flag /\ f.pid = param.of[r.type].pid
      BY <1>5, <2>2, <3>1, StoredThere
    <3> QED BY <2>3, <3>1, <3>2
  <2> QED BY <1>8, <1>11, <2>1, <2>4, <2>5 DEF Ask!setSecureLevel
<1>12. CASE Ask!setChannelId(c)
  <2>1. k = 3
    BY <1>3, <1>4, <1>12 DEF Ask!setChannelId, Ask!Calls, Ask!Op, Ask!Open
  <2>2. Ask!Next1(c).arg = r.channel
    BY <1>3, <1>4, <2>1 DEF Ask!Op
  <2>3. held => param' = [param EXCEPT !.channel = r.channel]
    BY <1>12, <2>2 DEF Ask!setChannelId
  <2>4. held => /\ param'.dtv = param.dtv /\ param'.sub = param.sub /\ param'.of = param.of
                /\ param'.channel = r.channel
    BY <1>5, <2>3 DEF SubParams
  <2> QED BY <1>1, <1>8, <1>12, <2>1, <2>4 DEF Ask!setChannelId, TypeSet, OfType
<1>13. CASE Ask!setSubPageId(c)
  <2>1. k \in {4, 5}
    BY <1>3, <1>4, <1>13 DEF Ask!setSubPageId, Ask!Calls, Ask!Op, Ask!Open
  <2> QED BY <1>1, <1>8, <1>13, <2>1 DEF Ask!setSubPageId, TypeSet, OfType
<1>14. CASE Ask!open(c)
  <2>1. k = 6
    BY <1>3, <1>4, <1>14 DEF Ask!open, Ask!Calls, Ask!Op, Ask!Open
  <2>2. calls[c] = <<Ask!Open(r.io, r.dmx)>>
    <3>1. calls[c] \in Seq(Callings) /\ calls[c] # <<>> /\ Tail(calls[c]) = <<>>
      BY <1>1, <1>2, <1>4, <2>1, ScriptStep DEF Typed, Ask!Users
    <3>2. calls[c] = <<Head(calls[c])>>
      BY <3>1, LastCall
    <3> QED BY <1>3, <1>4, <2>1, <3>2 DEF Ask!Next1
  <2> QED BY <1>1, <1>14, <2>1, <2>2, OpenServes
<1>15. CASE Ask!setPipId(c) \/ Ask!ttControl(c) \/ Ask!configure(c) \/ Ask!close(c) \/ Ask!closeConnection(c)
  BY <1>3, <1>4, <1>15 DEF Ask!setPipId, Ask!ttControl, Ask!configure, Ask!close,
                           Ask!closeConnection, Ask!Calls, Ask!Op, Ask!Open
<1> QED BY <1>9, <1>10, <1>11, <1>12, <1>13, <1>14, <1>15 DEF Ask!Server

LEMMA SelectingGoesOn ==
    ASSUME ClientsAsk, Typed, NEW c \in Native, NEW r \in Asking,
           asked # None, asked.by = c, ~asked.accepted, Selecting(c, r), Ask!Server(c)
    PROVE  \/ asked' = None
           \/ asked' = asked /\ Selecting(c, r)'
           \/ asked' = [asked EXCEPT !.accepted = TRUE] /\ Served(c, r)'
<1> DEFINE s == SelectScript
<1>1. PICK k \in 0 .. 3 :
        /\ calls[c] = SubSeq(s, k + 1, 4)
        /\ held => /\ k >= 2 => param.channel = 1
                   /\ k >= 3 => TypeSet(r)
  BY DEF Selecting
<1>2. s \in Seq(Callings) /\ Len(s) = 4
  BY ScriptsTyped DEF SelectScript
<1>3. /\ s[1] = Ask!Op("close", 0) /\ s[2] = Ask!Op("setChannelId", 1) /\ s[3] = Ask!Op("setSubType", 2)
      /\ s[4] = Ask!Open("fmq", 0)
  BY DEF SelectScript
<1> HIDE DEF s
<1>4. Ask!Next1(c) = s[k + 1] /\ Tail(calls[c]) = SubSeq(s, k + 2, 4)
  BY <1>1, <1>2, ScriptStep DEF Ask!Next1
<1>5. c \in DOMAIN calls /\ param \in SubParams
  BY DEF Typed, Ask!Users
<1>6. Ask!Made(c) => calls'[c] = SubSeq(s, k + 2, 4)
  BY <1>4, <1>5 DEF Ask!Made
<1>7. /\ r = Ask!ByChannel(1) /\ r.type = "CC" /\ r.channel = 1 /\ r.io = "fmq" /\ r.dmx = 0
      /\ r.type \in Agreed /\ Ask!ApiType[r.type] = 2 /\ r.type \notin Ask!Broadcast
  BY DEF Selecting, Ask!ByChannel, Agreed, Ask!ApiType, Ask!Broadcast
<1>8. ASSUME k < 3, Ask!Made(c), asked' = asked,
             held' => /\ k >= 1 => param'.channel = 1
                      /\ k >= 2 => TypeSet(r)'
      PROVE  asked' = asked /\ Selecting(c, r)'
  <2>1. calls'[c] = SubSeq(s, (k + 1) + 1, 4)
    BY <1>6, <1>8
  <2>2. k + 1 \in 0 .. 3
    BY <1>8
  <2>3. SelectScript' = SelectScript /\ Ask!ByChannel(1)' = Ask!ByChannel(1)
    BY DEF SelectScript, Ask!Op, Ask!Open, Ask!ByChannel
  <2>4. calls'[c] = SubSeq(SelectScript', (k + 1) + 1, 4)
    BY <2>1, <2>3 DEF s
  <2>5. held' => /\ k + 1 >= 2 => param'.channel = 1
                 /\ k + 1 >= 3 => TypeSet(r)'
    BY <1>8
  <2>6. (r = Ask!ByChannel(1))'
    BY <1>7, <2>3
  <2>7. Selecting(c, r)'
    BY <2>2, <2>4, <2>5, <2>6 DEF Selecting
  <2> QED BY <1>8, <2>7
<1>9. CASE Ask!close(c)
  <2>1. k = 0
    BY <1>3, <1>4, <1>9 DEF Ask!close, Ask!Calls, Ask!Op, Ask!Open
  <2>2. asked' = asked /\ Ask!Made(c)
    BY <1>9 DEF Ask!close, Ask!Told
  <2> QED BY <1>8, <2>1, <2>2
<1>10. CASE Ask!setChannelId(c)
  <2>1. k = 1 /\ Ask!Next1(c).arg = 1
    BY <1>3, <1>4, <1>10 DEF Ask!setChannelId, Ask!Calls, Ask!Op, Ask!Open
  <2>2. held => param'.channel = 1
    BY <1>5, <1>10, <2>1 DEF Ask!setChannelId, SubParams
  <2> QED BY <1>8, <1>10, <2>1, <2>2 DEF Ask!setChannelId, Ask!Told
<1>11. CASE Ask!setSubType(c)
  <2>1. k = 2 /\ Ask!Next1(c).arg = 2
    BY <1>3, <1>4, <1>11 DEF Ask!setSubType, Ask!Calls, Ask!Op, Ask!Open
  <2> DEFINE q == [param EXCEPT !.dtv = 2]
  <2>2. q \in SubParams /\ q.dtv = 2 /\ q.channel = param.channel
    BY <1>5 DEF SubParams
  <2>3. held => param' = Ask!update(q)
    BY <1>11, <2>1 DEF Ask!setSubType
  <2> HIDE DEF q
  <2>4. held => TypeSet(r)' /\ param'.channel = 1
    BY <1>1, <1>7, <2>1, <2>2, <2>3, Updated DEF TypeSet
  <2> QED BY <1>8, <1>11, <2>1, <2>4 DEF Ask!setSubType, Ask!Told
<1>12. CASE Ask!open(c)
  <2>1. k = 3
    BY <1>3, <1>4, <1>12 DEF Ask!open, Ask!Calls, Ask!Op, Ask!Open
  <2>2. calls[c] = <<Ask!Open(r.io, r.dmx)>>
    <3>1. calls[c] \in Seq(Callings) /\ calls[c] # <<>> /\ Tail(calls[c]) = <<>>
      BY <1>1, <1>2, <1>4, <2>1, ScriptStep DEF Typed, Ask!Users
    <3>2. calls[c] = <<Head(calls[c])>>
      BY <3>1, LastCall
    <3> QED BY <1>3, <1>4, <1>7, <2>1, <3>2 DEF Ask!Next1
  <2>3. held => TypeSet(r) /\ param.channel = r.channel
    BY <1>1, <1>7, <2>1
  <2>4. OfType(r, "pid", r.pid) /\ OfType(r, "flag", r.flag)
    BY <1>7 DEF OfType
  <2> QED BY <1>12, <2>2, <2>3, <2>4, OpenServes
<1>13. CASE \/ Ask!setSubPid(c) \/ Ask!setSecureLevel(c) \/ Ask!setSubPageId(c) \/ Ask!setPipId(c) \/ Ask!ttControl(c)
           \/ Ask!configure(c) \/ Ask!closeConnection(c)
  BY <1>3, <1>4, <1>13 DEF Ask!setSubPid, Ask!setSecureLevel, Ask!setSubPageId, Ask!setPipId,
                           Ask!ttControl, Ask!configure,
     Ask!closeConnection, Ask!Calls, Ask!Op, Ask!Open
<1> QED BY <1>9, <1>10, <1>11, <1>12, <1>13 DEF Ask!Server

LEMMA ServedGoesOn ==
    ASSUME ClientsAsk, Typed, NEW c \in Native, NEW r \in Asking,
           asked # None, asked.by = c, asked.accepted, Served(c, r), Ask!Server(c)
    PROVE  asked' = None \/ (asked' = asked /\ Served(c, r)')
<1>1. c \in DOMAIN calls /\ param \in SubParams /\ param.dtv = Ask!ApiType[r.type] /\ param.channel = r.channel
  BY DEF Typed, Ask!Users, Served
<1>2. calls[c] # <<>> => /\ Ask!Next1(c).op \in {"configure", "setPipId", "ttControl", "close"}
                         /\ Ask!Next1(c).op # "close" => Tail(calls[c]) = <<>>
  <2>1. CASE calls[c] \in {<<Ask!Op("configure", 0)>>, <<Ask!Op("setPipId", 1)>>, <<Ask!Op("ttControl", 0)>>}
    <3>1. Ask!Next1(c).op \in {"configure", "setPipId", "ttControl"}
      BY <2>1 DEF Ask!Next1, Ask!Op
    <3>2. PICK x : calls[c] = <<x>>
      BY <2>1
    <3>3. Tail(calls[c]) = <<>>
      BY <3>2
    <3> QED BY <3>1, <3>3
  <2>2. CASE calls[c] \in {<<Ask!Op("close", 0)>>, <<Ask!Op("close", 0), Ask!Op("closeConnection", 0)>>}
    BY <2>2 DEF Ask!Next1, Ask!Op
  <2> QED BY <2>1, <2>2 DEF Served, Afterwards
<1>3. Ask!Made(c) => calls'[c] = Tail(calls[c])
  BY <1>1 DEF Ask!Made
<1>4. Ask!Told(c) => asked' = asked
  BY DEF Ask!Told
<1>5. \A p \in SubParams : p.dtv = Ask!ApiType[r.type] /\ p.channel = r.channel =>
        ServedBy(Ask!setParameter(session, p), r)
  <2>1. ServedBy(session, r)
    BY DEF Served
  <2> QED BY <2>1, SetServes
<1>6. ASSUME Ask!Made(c), Ask!Told(c), Ask!Next1(c).op # "close", calls[c] # <<>>, UNCHANGED <<held, started, source>>,
             param'.dtv = param.dtv, param'.channel = param.channel, ServedBy(session', r)
      PROVE  asked' = asked /\ Served(c, r)'
  <2>1. calls'[c] = <<>>
    BY <1>2, <1>3, <1>6
  <2> QED BY <1>4, <1>6, <2>1 DEF Served, Ask!SourceAsAsked, Afterwards
<1>7. CASE Ask!configure(c)
  <2>1. ServedBy(session', r)
    BY <1>1, <1>5, <1>7 DEF Ask!configure, Served
  <2> QED BY <1>6, <1>7, <2>1 DEF Ask!configure, Ask!Calls
<1>8. CASE Ask!setPipId(c)
  <2>1. param' = [param EXCEPT !.mediaId = Ask!Next1(c).arg]
    BY <1>8 DEF Ask!setPipId, Served
  <2>2. Ask!Next1(c).arg \in Int
    BY <1>8, CallMade DEF Ask!setPipId, Ask!Users, Callings
  <2>3. param' \in SubParams /\ param'.dtv = param.dtv /\ param'.channel = param.channel
    BY <1>1, <2>1, <2>2 DEF SubParams
  <2>4. session' = Ask!setParameter(session, param') \/ session' = session
    BY <1>8 DEF Ask!setPipId, Ask!mSubtiles, Served
  <2>5. ServedBy(session', r)
    BY <1>1, <1>5, <2>3, <2>4 DEF Served
  <2> QED BY <1>6, <1>8, <2>3, <2>5 DEF Ask!setPipId, Ask!Calls
<1>9. CASE Ask!ttControl(c)
  <2>1. param' = [param EXCEPT !.sub = "TELETEXT"]
    BY <1>9 DEF Ask!ttControl, Served
  <2>2. param' \in SubParams /\ param'.dtv = param.dtv /\ param'.channel = param.channel
    BY <1>1, <2>1 DEF SubParams, Subs, Ask!Broadcast
  <2>3. session' = Ask!setParameter(session, param') \/ session' = session
    BY <1>9 DEF Ask!ttControl, Ask!mSubtiles, Served
  <2>4. ServedBy(session', r)
    BY <1>1, <1>5, <2>2, <2>3 DEF Served
  <2> QED BY <1>6, <1>9, <2>2, <2>4 DEF Ask!ttControl, Ask!Calls
<1>10. CASE Ask!close(c)
  BY <1>10 DEF Ask!close, Served
<1>11. CASE \/ Ask!setSubType(c) \/ Ask!setSubPid(c) \/ Ask!setSecureLevel(c) \/ Ask!setChannelId(c) \/ Ask!setSubPageId(c)
            \/ Ask!open(c) \/ Ask!closeConnection(c)
  BY <1>2, <1>11 DEF Ask!setSubType, Ask!setSubPid, Ask!setSecureLevel, Ask!setChannelId,
                     Ask!setSubPageId, Ask!open,
     Ask!closeConnection, Ask!Calls
<1> QED BY <1>7, <1>8, <1>9, <1>10, <1>11 DEF Ask!Server

-----------------------------------------------------------------------------
(* The claim in every step.                                                *)

LEMMA ServerClaims ==
    ASSUME ClientsAsk, Typed, Claim, NEW c \in Ask!Users, Ask!Server(c)
    PROVE  Claim'
<1>1. CASE asked = None \/ asked.by # c
  BY <1>1, OthersForget DEF Claim
<1>2. CASE asked # None /\ asked.by = c
  <2>1. PICK r \in Asking : asked.request = r
    BY <1>2 DEF Claim, Claims
  <2>2. asked \in Claims /\ c \in Native
    BY <1>2 DEF Claim, Claims
  <2>3. CASE asked.accepted
    BY <1>2, <2>1, <2>2, <2>3, ServedGoesOn, ClaimStays DEF Claim
  <2>4. CASE ~asked.accepted /\ Opening(c, r)
    BY <1>2, <2>1, <2>2, <2>4, OpeningGoesOn, ClaimStays
  <2>5. CASE ~asked.accepted /\ Selecting(c, r)
    BY <1>2, <2>1, <2>2, <2>5, SelectingGoesOn, ClaimStays
  <2> QED BY <1>2, <2>1, <2>3, <2>4, <2>5 DEF Claim
<1> QED BY <1>1, <1>2

\* Operations of others, and those after which the client still has what it asked for.
LEMMA AsksKeeps ==
    ASSUME ClientsAsk, Typed, Claim, NEW c \in Ask!Users, NEW script, Ask!Asks(c, script), calls[c] = <<>>,
           UNCHANGED asked, c \in Apps \/ script \in Afterwards
    PROVE  Claim'
<1> SUFFICES ASSUME asked # None PROVE Claim'
  BY DEF Claim
<1>1. PICK d \in Native, r \in Asking : asked.by = d /\ asked.request = r
  BY DEF Claim, Claims
<1>2. /\ calls' = [calls EXCEPT ![c] = script]
      /\ UNCHANGED <<held, param, started, source, session>>
  BY DEF Ask!Asks
<1>3. DOMAIN calls = Ask!Users /\ d \in Ask!Users
  BY DEF Typed, Ask!Users
<1>4. CASE d # c
  <2>1. calls'[d] = calls[d]
    BY <1>2, <1>3, <1>4
  <2> QED BY <1>1, <1>2, <2>1 DEF Claim, Opening, Selecting, Served, TypeSet, OfType,
                                  Ask!SourceAsAsked
<1>5. CASE d = c
  <2>1. script \in Afterwards /\ calls'[d] = script
    BY <1>2, <1>3, <1>5 DEF ClientsAsk
  <2>2. ~Opening(d, r) /\ ~Selecting(d, r)
    BY <1>5, ScriptsTyped, ScriptStep DEF Opening, Selecting, OpenScript, SelectScript
  <2> QED BY <1>1, <1>2, <2>1, <2>2 DEF Claim, Served, Ask!SourceAsAsked
<1> QED BY <1>4, <1>5

LEMMA OperationClaims ==
    ASSUME ClientsAsk, Typed, Claim, NEW c \in Ask!Users, Ask!Operation(c)
    PROVE  Claim'
<1>1. CASE Ask!amlsub_Create(c)
  BY <1>1 DEF Ask!amlsub_Create, Claim
<1>2. CASE Ask!amlsub_Destroy(c) \/ Ask!amlsub_Close(c) \/ Ask!amlsub_SetPip(c) \/ Ask!amlsub_TeletextControl(c)
  <2>1. PICK script \in Afterwards : Ask!Asks(c, script)
    BY <1>2 DEF Ask!amlsub_Destroy, Ask!amlsub_Close, Ask!amlsub_SetPip,
                Ask!amlsub_TeletextControl, Afterwards
  <2>2. calls[c] = <<>> /\ UNCHANGED asked
    BY <1>2 DEF Ask!amlsub_Destroy, Ask!amlsub_Close, Ask!amlsub_SetPip,
                Ask!amlsub_TeletextControl, Ask!Valid, Ask!Idle
  <2> QED BY <2>1, <2>2, AsksKeeps
<1>3. CASE Ask!appCalls(c)
  <2>1. PICK script : Ask!Asks(c, script)
    BY <1>3 DEF Ask!appCalls
  <2>2. calls[c] = <<>> /\ UNCHANGED asked /\ c \in Apps
    BY <1>3 DEF Ask!appCalls, Ask!Valid, Ask!Idle
  <2> QED BY <2>1, <2>2, AsksKeeps
<1>4. CASE Ask!selectCcChannel(c, 1)
  <2> DEFINE r == Ask!ByChannel(1)
  <2>1. r \in Asking
    <3>1. "fmq" \in Words
      BY DEF Words
    <3> QED BY <3>1 DEF Ask!ByChannel, Asking, Agreed
  <2>2. c \in Native /\ asked' = [by |-> c, request |-> r, accepted |-> FALSE]
    BY <1>4 DEF Ask!selectCcChannel, Ask!NewClaim
  <2>3. asked' \in Claims /\ asked'.by = c /\ asked'.request = r /\ ~asked'.accepted
    BY <2>1, <2>2 DEF Claims
  <2>4. calls'[c] = SubSeq(SelectScript, 0 + 1, 4)
    <3>1. calls' = [calls EXCEPT ![c] = SelectScript]
      BY <1>4 DEF Ask!selectCcChannel, Ask!Asks, SelectScript
    <3>2. calls'[c] = SelectScript
      BY <3>1 DEF Typed
    <3>3. SelectScript \in Seq(Callings) /\ Len(SelectScript) = 4
      BY <2>1, ScriptsTyped DEF SelectScript
    <3> QED BY <3>2, <3>3, ScriptStep
  <2>5. Selecting(c, r)'
    BY <2>4 DEF Selecting
  <2> QED BY <2>3, <2>5 DEF Claim
<1>5. ASSUME NEW r \in Requests, Ask!amlsub_Open(c, r) PROVE Claim'
  <2>1. r \in Asking
    BY DEF ClientsAsk
  <2>2. c \in Native /\ asked' = [by |-> c, request |-> r, accepted |-> FALSE]
    BY <1>5 DEF Ask!amlsub_Open, Ask!NewClaim
  <2>3. asked' \in Claims /\ asked'.by = c /\ asked'.request = r /\ ~asked'.accepted
    BY <2>1, <2>2 DEF Claims
  <2>4. calls'[c] = SubSeq(OpenScript(r), 0 + 1, 7)
    <3>1. calls' = [calls EXCEPT ![c] = OpenScript(r)]
      BY <1>5 DEF Ask!amlsub_Open, Ask!Asks, OpenScript
    <3>2. calls'[c] = OpenScript(r)
      BY <3>1 DEF Typed
    <3>3. OpenScript(r) \in Seq(Callings) /\ Len(OpenScript(r)) = 7
      BY <2>1, ScriptsTyped DEF OpenScript
    <3> QED BY <3>2, <3>3, ScriptStep
  <2>5. Opening(c, r)'
    BY <2>4 DEF Opening
  <2> QED BY <2>3, <2>5 DEF Claim
<1> QED BY <1>1, <1>2, <1>3, <1>4, <1>5 DEF Ask!Operation

LEMMA TickClaims ==
    ASSUME Claim, Ask!tick \/ \E t \in Spoken : Ask!announce(t)
    PROVE  Claim'
<1>1. UNCHANGED <<held, param, started, source, calls, asked>>
  BY DEF Ask!tick, Ask!announce
<1>2. ASSUME NEW r \in Asking, ServedBy(session, r), source.io = r.io PROVE ServedBy(session', r)
  <2>1. CASE Ask!tick
    BY <1>2, <2>1, TickServes
  <2>2. ASSUME NEW t \in Spoken, Ask!announce(t) PROVE ServedBy(session', r)
    BY <1>2, <2>2, AnnouncedServes DEF Ask!announce
  <2> QED BY <2>1, <2>2
<1> QED BY <1>1, <1>2 DEF Claim, Claims, Opening, Selecting, Served, TypeSet, OfType,
                          Ask!SourceAsAsked

LEMMA NextClaims ==
    ASSUME ClientsAsk, Typed, Claim, [Ask!Next]_(Ask!pvars)
    PROVE  Typed' /\ Claim'
<1>1. ASSUME NEW c \in Ask!Users, Ask!Operation(c) PROVE Typed' /\ Claim'
  BY <1>1, OperationTyped, OperationClaims
<1>2. ASSUME NEW c \in Ask!Users, Ask!Server(c) PROVE Typed' /\ Claim'
  BY <1>2, ServerTyped, ServerClaims
<1>3. CASE Ask!tick \/ \E t \in Spoken : Ask!announce(t)
  BY <1>3, TickClaims DEF Typed, Ask!tick, Ask!announce
<1>4. CASE UNCHANGED Ask!pvars
  BY <1>4 DEF Ask!pvars, Typed, Claim, Opening, Selecting, Served, TypeSet, OfType,
              Ask!SourceAsAsked
<1> QED BY <1>1, <1>2, <1>3, <1>4 DEF Ask!Next

LEMMA RequestsGoOn == ServerSpec => Ask!Spec
<1>1. ServerInit => Ask!Init
  BY DEF ServerInit
<1>2. [ServerNext]_<<part, vars, callbacks, parameters>> => [Ask!Next]_(Ask!pvars)
  BY DEF ServerNext, parameters, Ask!pvars
<1> QED BY <1>1, <1>2, PTL DEF ServerSpec, Ask!Spec

\* What a native client was accepted with it has, the source that filters and the parser, until
\* it or another asks for something else, for any number of clients of either API that call in
\* any order (SubtitleNativeAPI.cpp:297-321, SubtitleService.cpp:119-154, 529-530).  Native
\* clients ask for types that both sides number alike, and no player takes over from another
\* within 200 ms of its open().
THEOREM RequestServedAlways ==
    ASSUME Native \cap Apps = {}, Rapid = FALSE,
           Requests \subseteq [type : {"CC", "SCTE27", "DVB"}, pid : Int, flag : Int, channel : Int,
                              dmx : Int, io : STRING],
           AppCalls \subseteq [op : STRING, arg : Int, io : STRING]
    PROVE  ServerSpec => []RequestServed
<1>1. ClientsAsk
  <2>1. STRING \subseteq Words
    BY DEF Words
  <2>2. Requests \subseteq Asking
    BY <2>1 DEF Asking, Agreed
  <2> QED BY <2>2 DEF ClientsAsk
<1>2. Ask!Init => Typed /\ Claim
  <2>1. Ask!Init => calls \in [Ask!Users -> Seq(Callings)]
    BY DEF Ask!Init
  <2> QED BY <2>1, NewTyped DEF Ask!Init, Typed, Claim
<1>3. Typed /\ Claim /\ [Ask!Next]_(Ask!pvars) => Typed' /\ Claim'
  BY <1>1, NextClaims
<1>4. Claim => RequestServed
  BY DEF Claim, RequestServed, Ask!RequestServed, Served, ServedBy, Ask!ParserAsAsked
<1> QED BY <1>2, <1>3, <1>4, RequestsGoOn, PTL DEF Ask!Spec
=============================================================================
