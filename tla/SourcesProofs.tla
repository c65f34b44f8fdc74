---------------------------- MODULE SourcesProofs ----------------------------
(***************************************************************************)
(* What reads a broadcast, for any number of sessions, sources, settings,  *)
(* subscribers and signals, any size of the rings and any devices.         *)
(*                                                                         *)
(* The captions and the monitor of the active format over one user data    *)
(* device: types, that a session leaves no thread and no opened device     *)
(* behind, that no callback outlives its monitor, and - as long as nobody  *)
(* closes the device beside a read - that no ring is freed in use.  The    *)
(* source of the demux: what is open is its own, and the data thread finds *)
(* it.  The sources that read a device: their threads are gone with them,  *)
(* and the parser has the bytes in order.  The events of a device: given   *)
(* once, to who has subscribed.  The captions of the video: given on once, *)
(* in the order of showing, for any number of pictures and groups.         *)
(***************************************************************************)
EXTENDS Sources, SequenceTheorems, FiniteSetTheorems, WellFoundedInduction, TLAPS

(* Captions and the monitor over the user data device.                     *)

LEMMA Constants ==
    /\ RingSize \in Nat /\ RingSize > 0 /\ MaxPackages \in Nat
    /\ cc \in Users /\ afd \in Users /\ cc # afd /\ Free # cc /\ Free # afd
    /\ \A u \in Users : u = cc \/ u = afd
BY UserdataAssumption, ClosedCaptionAssumption

\* Who has opened the device, and not closed it since.
DataHolds == data \in {"mode", "loop", "read", "reading", "close"}
MonitorHolds == monitor.at \in {"mode", "on", "unsubscribe", "close"}
Holders == (IF DataHolds THEN 1 ELSE 0) + (IF MonitorHolds THEN 1 ELSE 0)
Opened == dev.count <= Holders

\* The decoder and its threads are there from the start of the parser to the end of the
\* session.
DecoderOwned ==
    /\ ~decoder.exists => data = "none" /\ render = "none"
    /\ parser \in {"none", "parse", "format"} => ~decoder.exists
    /\ session \in {"destroying", "stopping", "off"} => parser \in {"none", "ended"}
    /\ session = "off" => ~decoder.exists

\* The monitor is called only while it subscribes, which it does only while it exists; what
\* the device thread writes it has been given.
Subscribes ==
    /\ monitor.at # "off" => monitor.exists
    /\ monitor.subscribed => monitor.at \in {"on", "unsubscribe"}
    /\ thread = "called" => monitor.subscribed
    /\ thread = "write" => packages > 0

\* Who holds the mutexes, and where in its calls each user is.
Locks ==
    /\ call[cc] \in {"closing", "wait"} => adp = cc
    /\ call[afd] = "closing" => adp = afd
    /\ call[afd] \in {"idle", "closing"}
    /\ call[afd] = "closing" => monitor.at = "close"
    /\ call[cc] \in {"lock", "poll", "wait", "package"} => data = "reading"
    /\ call[cc] = "closing" => data = "close"
    /\ call[cc] \in {"poll", "package"} <=> lock = cc
    /\ lock \in {cc, Free}

Kept == TypeOK /\ Opened /\ DecoderOwned /\ Subscribes /\ Locks

LEMMA InitKept == Init => Kept
<1> SUFFICES ASSUME Init PROVE Kept
  OBVIOUS
<1> USE DEF Init, DevInit, Closed, NoDecoder
<1>1. TypeOK
  <2>1. DevTypeOK
    BY Constants DEF DevTypeOK
  <2> QED BY <2>1 DEF TypeOK
<1>2. Opened
  BY DEF Opened, Holders, DataHolds, MonitorHolds
<1>3. DecoderOwned /\ Subscribes
  BY DEF DecoderOwned, Subscribes
<1>4. Locks
  BY Constants DEF Locks
<1> QED BY <1>1, <1>2, <1>3, <1>4 DEF Kept

LEMMA Typing ==
    ASSUME Kept
    PROVE  /\ adp \in Users \cup {Free} /\ lock \in Users \cup {Free}
           /\ dev.count \in 0..2 /\ dev.running \in BOOLEAN /\ dev.live \in BOOLEAN
           /\ dev \in [count : 0 .. 2, running : BOOLEAN, mode : SUBSET {"cc", "afd"},
                       live : BOOLEAN]
           /\ call \in [Users -> {"idle", "lock", "poll", "wait", "package", "closing"}]
           /\ decoder \in [exists : BOOLEAN, running : BOOLEAN]
           /\ monitor \in [at : {"off", "open", "mode", "on", "unsubscribe", "close"},
                           exists : BOOLEAN, subscribed : BOOLEAN,
                           leaving : {"no", "restart", "destroy"}]
           /\ ring \in Seq(1..MaxPackages) /\ chain \in Seq(1..MaxPackages)
BY DEF Kept, TypeOK, DevTypeOK

-----------------------------------------------------------------------------
(* The record of the monitor when one, two or three of its fields change.  *)

MonitorAts == {"off", "open", "mode", "on", "unsubscribe", "close"}
Monitors == [at : MonitorAts, exists : BOOLEAN, subscribed : BOOLEAN,
             leaving : {"no", "restart", "destroy"}]

LEMMA MonitorGoes ==
    ASSUME NEW m \in Monitors, NEW a \in MonitorAts
    PROVE  /\ [m EXCEPT !.at = a] \in Monitors /\ [m EXCEPT !.at = a].at = a
           /\ [m EXCEPT !.at = a].exists = m.exists
           /\ [m EXCEPT !.at = a].subscribed = m.subscribed
BY DEF Monitors

LEMMA MonitorExists ==
    ASSUME NEW m \in Monitors, NEW e \in BOOLEAN
    PROVE  /\ [m EXCEPT !.exists = e] \in Monitors /\ [m EXCEPT !.exists = e].at = m.at
           /\ [m EXCEPT !.exists = e].exists = e
           /\ [m EXCEPT !.exists = e].subscribed = m.subscribed
BY DEF Monitors

LEMMA MonitorSubscribes ==
    ASSUME NEW m \in Monitors, NEW s \in BOOLEAN
    PROVE  /\ [m EXCEPT !.subscribed = s] \in Monitors /\ [m EXCEPT !.subscribed = s].at = m.at
           /\ [m EXCEPT !.subscribed = s].exists = m.exists
           /\ [m EXCEPT !.subscribed = s].subscribed = s
BY DEF Monitors

LEMMA MonitorLeaves ==
    ASSUME NEW m \in Monitors, NEW l \in {"no", "restart", "destroy"}
    PROVE  /\ [m EXCEPT !.leaving = l] \in Monitors /\ [m EXCEPT !.leaving = l].at = m.at
           /\ [m EXCEPT !.leaving = l].exists = m.exists
           /\ [m EXCEPT !.leaving = l].subscribed = m.subscribed
BY DEF Monitors

-----------------------------------------------------------------------------
(* What the functions of the device do to it, whoever calls them.          *)

Places == {"idle", "lock", "poll", "wait", "package", "closing"}

\* A user goes to another place in a function, the other one stays where it is.
LEMMA GoesThere ==
    ASSUME NEW u \in Users, NEW at \in Places, call \in [Users -> Places], Goes(u, at)
    PROVE  /\ call' \in [Users -> Places] /\ call'[u] = at
           /\ \A w \in Users : w # u => call'[w] = call[w]
BY DEF Goes

\* An opening is counted; the first one makes the ring and the thread.
LEMMA Opens ==
    ASSUME DevTypeOK, NEW u \in Users, UserdataOpen(u), dev.count <= 1
    PROVE  /\ DevTypeOK' /\ dev'.count = dev.count + 1
           /\ dev.count = 0 => thread' = "poll" /\ dev'.live
           /\ dev.count > 0 => thread' = thread /\ dev'.live = dev.live
           /\ UNCHANGED <<adp, lock, call, packages>>
<1> DEFINE Devices == [count : 0 .. 2, running : BOOLEAN, mode : SUBSET {"cc", "afd"}, live : BOOLEAN]
<1>1. dev \in Devices /\ dev.count \in 0..2 /\ dev.live \in BOOLEAN
  BY DEF DevTypeOK
<1>2. UNCHANGED <<adp, lock, call, packages>>
  BY DEF UserdataOpen
<1>3. CASE dev.count > 0
  <2>1. dev' = [dev EXCEPT !.count = @ + 1] /\ UNCHANGED <<ring, thread>>
    BY <1>3 DEF UserdataOpen
  <2>2. dev' \in Devices
    BY <1>1, <2>1
  <2>3. dev'.count = dev.count + 1 /\ dev'.live = dev.live
    BY <1>1, <2>1
  <2>4. DevTypeOK'
    BY <1>2, <2>1, <2>2 DEF DevTypeOK
  <2> QED BY <1>1, <1>2, <1>3, <2>1, <2>3, <2>4
<1>4. CASE dev.count = 0
  <2>1. /\ dev' = [count |-> 1, running |-> TRUE, mode |-> {"cc"}, live |-> TRUE]
        /\ ring' = << >> /\ thread' = "poll"
    BY <1>4 DEF UserdataOpen
  <2>2. dev' \in Devices /\ dev'.count = 1 /\ dev'.live = TRUE
    BY <2>1
  <2>3. DevTypeOK'
    BY <1>2, <2>1, <2>2, Constants DEF DevTypeOK
  <2> QED BY <1>2, <1>4, <2>1, <2>2, <2>3
<1> QED BY <1>1, <1>3, <1>4

\* A mode is set in an opened device, or in none.
LEMMA SetsMode ==
    ASSUME DevTypeOK, NEW u \in Users, NEW bit \in {"cc", "afd"}, UserdataSetMode(u, bit)
    PROVE  /\ DevTypeOK' /\ dev'.count = dev.count /\ dev'.live = dev.live
           /\ UNCHANGED <<adp, lock, ring, thread, call, packages>>
<1> DEFINE Devices == [count : 0 .. 2, running : BOOLEAN, mode : SUBSET {"cc", "afd"}, live : BOOLEAN]
<1>1. dev \in Devices
  BY DEF DevTypeOK
<1>2. UNCHANGED <<adp, lock, ring, thread, call, packages>>
  BY DEF UserdataSetMode
<1>3. dev' = dev \/ dev' = [dev EXCEPT !.mode = @ \cup {bit}]
  BY DEF UserdataSetMode
<1>4. dev' \in Devices /\ dev'.count = dev.count /\ dev'.live = dev.live
  BY <1>1, <1>3
<1> QED BY <1>2, <1>4 DEF DevTypeOK

\* A close forgets all openings and holds am_gAdpLock ...
LEMMA Closes ==
    ASSUME DevTypeOK, NEW u \in Users, UserdataClose(u)
    PROVE  /\ DevTypeOK' /\ dev'.count = 0 /\ dev'.live = dev.live
           /\ adp = Free /\ adp' = u /\ call[u] = "idle" /\ call'[u] = "closing"
           /\ \A w \in Users : w # u => call'[w] = call[w]
           /\ UNCHANGED <<lock, ring, thread, packages>>
<1> DEFINE Devices == [count : 0 .. 2, running : BOOLEAN, mode : SUBSET {"cc", "afd"}, live : BOOLEAN]
<1>1. dev \in Devices /\ call \in [Users -> Places]
  BY DEF DevTypeOK, Places
<1>2. call' \in [Users -> Places] /\ call'[u] = "closing"
      /\ \A w \in Users : w # u => call'[w] = call[w]
  BY <1>1, GoesThere DEF UserdataClose, Places
<1>3. dev' = [dev EXCEPT !.count = 0, !.running = FALSE]
      /\ adp = Free /\ adp' = u /\ call[u] = "idle" /\ UNCHANGED <<lock, ring, thread, packages>>
  BY DEF UserdataClose
<1>4. dev' \in Devices /\ dev'.count = 0 /\ dev'.live = dev.live
  <2> DEFINE Emptied == [dev EXCEPT !.count = 0]
  <2>1. Emptied \in Devices /\ Emptied.count = 0 /\ Emptied.live = dev.live
    BY <1>1
  <2>2. dev' = [Emptied EXCEPT !.running = FALSE]
    BY <1>3
  <2> HIDE DEF Emptied
  <2> QED BY <2>1, <2>2
<1>5. DevTypeOK'
  BY <1>2, <1>3, <1>4 DEF DevTypeOK, Places
<1> QED BY <1>2, <1>3, <1>4, <1>5

\* ... until it has joined the thread and freed the ring.
LEMMA Joins ==
    ASSUME DevTypeOK, NEW u \in Users, CloseJoins(u)
    PROVE  /\ DevTypeOK' /\ dev'.count = 0 /\ adp' = Free
           /\ call[u] = "closing" /\ call'[u] = "idle"
           /\ \A w \in Users : w # u => call'[w] = call[w]
           /\ thread = "ended" /\ thread' = "none" /\ UNCHANGED <<lock, packages>>
<1>1. call \in [Users -> Places]
  BY DEF DevTypeOK, Places
<1>2. call' \in [Users -> Places] /\ call'[u] = "idle"
      /\ \A w \in Users : w # u => call'[w] = call[w]
  BY <1>1, GoesThere DEF CloseJoins, Places
<1>3. dev' = Closed /\ ring' = << >> /\ thread = "ended" /\ thread' = "none" /\ adp' = Free
      /\ call[u] = "closing" /\ UNCHANGED <<lock, packages>>
  BY DEF CloseJoins, Joined
<1>4. DevTypeOK' /\ dev'.count = 0
  BY <1>2, <1>3, Constants DEF DevTypeOK, Places, Closed
<1> QED BY <1>2, <1>3, <1>4

\* Whoever closes a device that is closed, or fails to open it, leaves it as it is.
LEMMA Refused ==
    ASSUME NEW u \in Users, OpenFails(u) \/ CloseOfClosed(u)
    PROVE  UNCHANGED devvars /\ dev.count = 0
BY DEF OpenFails, CloseOfClosed

-----------------------------------------------------------------------------
(* Every step keeps the invariant.                                         *)

LEMMA NextKept == Kept /\ [Next]_vars => Kept'
<1> SUFFICES ASSUME Kept, [Next]_vars PROVE Kept'
  OBVIOUS
<1> USE DEF vars, devvars, ccvars, Sessions, SameMonitor, SameSession, SameCaptions
<1>0. /\ TypeOK /\ DevTypeOK /\ Opened /\ DecoderOwned /\ Subscribes /\ Locks
      /\ dev.count \in 0..2 /\ call \in [Users -> Places]
  BY Typing DEF Kept, TypeOK, Places
<1>m. monitor \in Monitors
  BY Typing DEF Monitors, MonitorAts
<1>1. CASE startParser
  BY <1>1 DEF startParser, Kept, TypeOK, DevTypeOK, Opened, Holders, DataHolds, MonitorHolds,
              DecoderOwned, Subscribes, Locks
<1>2. CASE stopParser
  BY <1>2 DEF stopParser, Kept, TypeOK, DevTypeOK, Opened, Holders, DataHolds, MonitorHolds,
              DecoderOwned, Subscribes, Locks
<1>3. CASE joinParser
  BY <1>3 DEF joinParser, ParserJoined, Kept, TypeOK, DevTypeOK, Opened, Holders, DataHolds,
              MonitorHolds, DecoderOwned, Subscribes, Locks
<1>4. CASE parse
  BY <1>4 DEF parse, Kept, TypeOK, DevTypeOK, Opened, Holders, DataHolds, MonitorHolds,
              DecoderOwned, Subscribes, Locks
<1>5. CASE play
  BY <1>5 DEF play, Kept, TypeOK, DevTypeOK, Opened, Holders, DataHolds, MonitorHolds,
              DecoderOwned, Subscribes, Locks
<1>6. CASE startAtscCc
  <2>1. decoder' \in [exists : BOOLEAN, running : BOOLEAN]
    <3>1. decoder' = [exists |-> TRUE, running |-> TRUE] \/ decoder' = decoder
      BY <1>6 DEF startAtscCc
    <3>2. decoder \in [exists : BOOLEAN, running : BOOLEAN]
      BY Typing
    <3>3. [exists |-> TRUE, running |-> TRUE] \in [exists : BOOLEAN, running : BOOLEAN]
      OBVIOUS
    <3> HIDE DEF vars, devvars, ccvars
    <3> QED BY <3>1, <3>2, <3>3
  <2>2. DevTypeOK'
    BY <1>0, <1>6 DEF startAtscCc, DevTypeOK
  <2>6. TypeOK'
    BY <1>0, <1>6, <2>1, <2>2 DEF startAtscCc, TypeOK
  <2>7. Opened'
    BY <1>0, <1>6 DEF startAtscCc, DecoderOwned, Opened, Holders, DataHolds, MonitorHolds
  <2>8. DecoderOwned' /\ Subscribes'
    BY <1>0, <1>6 DEF startAtscCc, DecoderOwned, Subscribes
  <2>9. Locks'
    BY <1>0, <1>6 DEF startAtscCc, DecoderOwned, Locks
  <2> QED BY <2>6, <2>7, <2>8, <2>9 DEF Kept
<1>7. CASE ClosedCaptionStop
  <2>1. decoder' \in [exists : BOOLEAN, running : BOOLEAN] /\ decoder'.exists = decoder.exists
    BY <1>7, Typing DEF ClosedCaptionStop
  <2>6. TypeOK'
    BY <1>0, <1>7, <2>1 DEF ClosedCaptionStop, TypeOK, DevTypeOK
  <2>7. Opened'
    BY <1>0, <1>7 DEF ClosedCaptionStop, Opened, Holders, DataHolds, MonitorHolds
  <2>8. DecoderOwned' /\ Subscribes'
    BY <1>0, <1>7, <2>1 DEF ClosedCaptionStop, DecoderOwned, Subscribes
  <2>9. Locks'
    BY <1>0, <1>7 DEF ClosedCaptionStop, Locks
  <2> QED BY <2>6, <2>7, <2>8, <2>9 DEF Kept
<1>8. CASE ClosedCaptionDestroy
  BY <1>8 DEF ClosedCaptionDestroy, ThreadsJoined, NoDecoder, Kept, TypeOK, DevTypeOK, Opened,
              Holders, DataHolds, MonitorHolds, DecoderOwned, Subscribes, Locks
<1>9. CASE data_opens
  <2>1. CASE UserdataOpen(cc) /\ data' = "mode"
    <3>1. dev.count <= 1
      BY <1>0, <1>9 DEF data_opens, Opened, Holders, DataHolds, MonitorHolds
    <3>2. /\ DevTypeOK' /\ dev'.count = dev.count + 1
          /\ thread' = "poll" \/ thread' = thread
          /\ UNCHANGED <<adp, lock, call, packages>>
      BY <1>0, <2>1, <3>1, Opens, Constants
    <3>3. TypeOK'
      BY <1>0, <1>9, <2>1, <3>2 DEF data_opens, TypeOK
    <3>4. Opened'
      BY <1>0, <1>9, <2>1, <3>2 DEF data_opens, Opened, Holders, DataHolds, MonitorHolds
    <3>5. DecoderOwned' /\ Subscribes'
      BY <1>0, <1>9, <2>1, <3>2 DEF data_opens, DecoderOwned, Subscribes
    <3>6. Locks'
      BY <1>0, <1>9, <2>1, <3>2 DEF data_opens, Locks
    <3> QED BY <3>3, <3>4, <3>5, <3>6 DEF Kept
  <2>2. CASE OpenFails(cc) /\ data' = "ended"
    <3>1. UNCHANGED devvars
      BY <2>2, Refused, Constants
    <3> QED BY <1>0, <1>9, <2>2, <3>1 DEF data_opens, Kept, TypeOK, DevTypeOK, Opened, Holders,
               DataHolds, MonitorHolds, DecoderOwned, Subscribes, Locks
  <2> QED BY <1>9, <2>1, <2>2 DEF data_opens
<1>10. CASE data_mode
  <2>1. /\ DevTypeOK' /\ dev'.count = dev.count
        /\ UNCHANGED <<adp, lock, ring, thread, call, packages>>
    BY <1>0, <1>10, SetsMode, Constants DEF data_mode
  <2>2. TypeOK'
    BY <1>0, <1>10, <2>1 DEF data_mode, TypeOK
  <2>3. Opened'
    BY <1>0, <1>10, <2>1 DEF data_mode, Opened, Holders, DataHolds, MonitorHolds
  <2>4. DecoderOwned' /\ Subscribes'
    BY <1>0, <1>10, <2>1 DEF data_mode, DecoderOwned, Subscribes
  <2>5. Locks'
    BY <1>0, <1>10, <2>1, Constants DEF data_mode, Locks
  <2> QED BY <2>2, <2>3, <2>4, <2>5 DEF Kept
<1>11. CASE data_loop
  BY <1>11 DEF data_loop, Kept, TypeOK, DevTypeOK, Opened, Holders, DataHolds, MonitorHolds,
              DecoderOwned, Subscribes, Locks
<1>12. CASE data_reads
  <2>1. CASE ReadBegins(cc)
    <3>1. /\ call' \in [Users -> Places] /\ call'[cc] = "lock" /\ call'[afd] = call[afd]
          /\ data' = "reading"
      BY <1>0, <1>12, <2>1, GoesThere, Constants DEF data_reads, ReadBegins, Places
    <3>2. call[cc] = "idle" /\ UNCHANGED <<adp, lock, dev, ring, thread, packages>>
      BY <2>1 DEF ReadBegins
    <3>3. TypeOK'
      BY <1>0, <1>12, <3>1, <3>2 DEF data_reads, TypeOK, DevTypeOK, Places
    <3>4. Opened'
      BY <1>0, <1>12, <3>1, <3>2 DEF data_reads, Opened, Holders, DataHolds, MonitorHolds
    <3>5. DecoderOwned' /\ Subscribes'
      BY <1>0, <1>12, <3>1, <3>2 DEF data_reads, DecoderOwned, Subscribes
    <3>6. Locks'
      BY <1>0, <1>12, <3>1, <3>2 DEF data_reads, Locks
    <3> QED BY <3>3, <3>4, <3>5, <3>6 DEF Kept
  <2>2. CASE UNCHANGED devvars /\ data' = "loop"
    BY <1>0, <1>12, <2>2 DEF data_reads, Kept, TypeOK, DevTypeOK, Opened, Holders,
       DataHolds, MonitorHolds, DecoderOwned, Subscribes, Locks
  <2> QED BY <1>12, <2>1, <2>2 DEF data_reads
<1>13. CASE data_waits
  <2>1. /\ call' \in [Users -> Places] /\ call'[afd] = call[afd]
        /\ \/ call[cc] = "lock" /\ call'[cc] = "poll" /\ lock = Free /\ lock' = cc /\ adp' = adp
           \/ call[cc] = "poll" /\ call'[cc] = "idle" /\ adp = Free /\ lock' = Free /\ adp' = adp
           \/ call[cc] = "poll" /\ call'[cc] = "package" /\ adp = Free /\ UNCHANGED <<adp, lock>>
           \/ call[cc] = "poll" /\ call'[cc] = "wait" /\ adp = Free /\ lock' = Free /\ adp' = cc
           \/ call[cc] = "wait" /\ call'[cc] = "package" /\ lock = Free /\ lock' = cc /\ adp' = Free
           \/ call[cc] = "wait" /\ call'[cc] = "idle" /\ lock = Free /\ lock' = Free /\ adp' = Free
    <3>1. CASE ReadLocks(cc)
      BY <1>0, <3>1, GoesThere, Constants DEF ReadLocks, Places
    <3>2. CASE userdata_package_poll(cc)
      BY <1>0, <3>2, GoesThere, Constants DEF userdata_package_poll, Places
    <3>3. CASE Signalled(cc)
      BY <1>0, <3>3, GoesThere, Constants DEF Signalled, Places
    <3>4. CASE TimesOut(cc)
      BY <1>0, <3>4, GoesThere, Constants DEF TimesOut, MayTimeOut, Places
    <3> QED BY <1>13, <3>1, <3>2, <3>3, <3>4 DEF data_waits
  <2>2. UNCHANGED <<dev, ring, thread, packages>>
    BY <1>13 DEF data_waits, ReadLocks, userdata_package_poll, Signalled, TimesOut
  <2>3. data = "reading" /\ data' = (IF call'[cc] = "idle" THEN "loop" ELSE data)
        /\ UNCHANGED <<parser, session, exit, decoder, chain, render, monitor>>
    BY <1>13 DEF data_waits
  <2>4. TypeOK'
    <3>1. DevTypeOK'
      BY <1>0, <2>1, <2>2, Constants DEF DevTypeOK, Places
    <3> QED BY <1>0, <2>3, <3>1 DEF TypeOK
  <2>5. Opened'
    BY <1>0, <2>2, <2>3 DEF Opened, Holders, DataHolds, MonitorHolds
  <2>6. DecoderOwned' /\ Subscribes'
    BY <1>0, <2>2, <2>3 DEF DecoderOwned, Subscribes
  <2>7. Locks'
    BY <1>0, <2>1, <2>3, Constants DEF Locks
  <2> QED BY <2>4, <2>5, <2>6, <2>7 DEF Kept
<1>14. CASE data_decodes
  <2>1. /\ call' \in [Users -> Places] /\ call'[afd] = call[afd] /\ call'[cc] = "idle"
        /\ call[cc] = "package" /\ lock' = Free /\ data = "reading" /\ data' = "loop"
        /\ UNCHANGED <<adp, dev, thread, packages>>
    BY <1>0, <1>14, GoesThere, Constants DEF data_decodes, userdata_package_read, Places
  <2>2. ring' \in Seq(1..MaxPackages) /\ Len(ring') <= RingSize
    <3> DEFINE Numbers == 1..MaxPackages
    <3>1. ring' = ring \/ (ring # << >> /\ ring' = Tail(ring))
      BY <1>14 DEF data_decodes, userdata_package_read
    <3>2. ring \in Seq(Numbers) /\ Len(ring) <= RingSize
      BY <1>0 DEF DevTypeOK
    <3>3. ring # << >> => Tail(ring) \in Seq(Numbers) /\ Len(Tail(ring)) = Len(ring) - 1
      <4> HIDE DEF Numbers
      <4> QED BY <3>2
    <3>4. RingSize \in Nat /\ Len(ring) \in Nat
      BY <3>2, Constants
    <3> QED BY <3>1, <3>2, <3>3, <3>4
  <2>3. chain' \in Seq(1..MaxPackages)
    <3>1. chain' = chain \/ (ring # << >> /\ chain' = Append(chain, Head(ring)))
      BY <1>14 DEF data_decodes
    <3>2. ring \in Seq(1..MaxPackages) /\ chain \in Seq(1..MaxPackages)
      BY Typing
    <3> QED BY <3>1, <3>2
  <2>4. UNCHANGED <<parser, session, exit, decoder, render, monitor>>
    BY <1>14 DEF data_decodes
  <2>5. TypeOK'
    <3>1. DevTypeOK'
      BY <1>0, <2>1, <2>2 DEF DevTypeOK, Places
    <3> QED BY <1>0, <2>1, <2>3, <2>4, <3>1 DEF TypeOK
  <2>6. Opened'
    BY <1>0, <2>1, <2>4 DEF Opened, Holders, DataHolds, MonitorHolds
  <2>7. DecoderOwned' /\ Subscribes'
    BY <1>0, <2>1, <2>4 DEF DecoderOwned, Subscribes
  <2>8. Locks'
    BY <1>0, <2>1, <2>4, Constants DEF Locks
  <2> QED BY <2>5, <2>6, <2>7, <2>8 DEF Kept
<1>15. CASE data_closes
  <2>1. data = "close" /\ UNCHANGED <<parser, session, exit, decoder, chain, render, monitor>>
    BY <1>15 DEF data_closes
  <2>2. CASE UserdataClose(cc) /\ UNCHANGED data
    <3>1. /\ DevTypeOK' /\ dev'.count = 0 /\ adp = Free /\ adp' = cc
          /\ call'[cc] = "closing" /\ call'[afd] = call[afd]
          /\ UNCHANGED <<lock, thread, packages>>
      BY <1>0, <2>2, Closes, Constants
    <3>2. TypeOK'
      BY <1>0, <2>1, <2>2, <3>1 DEF TypeOK
    <3>3. Opened'
      BY <3>1 DEF Opened, Holders
    <3>4. DecoderOwned' /\ Subscribes'
      BY <1>0, <2>1, <2>2, <3>1 DEF DecoderOwned, Subscribes
    <3>5. Locks'
      BY <1>0, <2>1, <2>2, <3>1, Constants DEF Locks
    <3> QED BY <3>2, <3>3, <3>4, <3>5 DEF Kept
  <2>3. CASE CloseOfClosed(cc) /\ data' = "ended"
    <3>1. UNCHANGED devvars /\ dev.count = 0 /\ call[cc] = "idle"
      BY <2>3 DEF CloseOfClosed
    <3> QED BY <1>0, <2>1, <2>3, <3>1 DEF Kept, TypeOK, DevTypeOK, Opened, Holders,
               DataHolds, MonitorHolds, DecoderOwned, Subscribes, Locks
  <2>4. CASE CloseJoins(cc) /\ data' = "ended"
    <3>1. /\ DevTypeOK' /\ dev'.count = 0 /\ adp' = Free
          /\ call[cc] = "closing" /\ call'[cc] = "idle" /\ call'[afd] = call[afd]
          /\ thread' = "none" /\ UNCHANGED <<lock, packages>>
      BY <1>0, <2>4, Joins, Constants
    <3>2. TypeOK'
      BY <1>0, <2>1, <2>4, <3>1 DEF TypeOK
    <3>3. Opened'
      BY <3>1 DEF Opened, Holders
    <3>4. DecoderOwned' /\ Subscribes'
      BY <1>0, <2>1, <2>4, <3>1 DEF DecoderOwned, Subscribes
    <3>5. Locks'
      BY <1>0, <2>1, <2>4, <3>1, Constants DEF Locks
    <3> QED BY <3>2, <3>3, <3>4, <3>5 DEF Kept
  <2> QED BY <1>15, <2>2, <2>3, <2>4 DEF data_closes
<1>16. CASE render_wakes
  <2>1. chain' \in Seq(1..MaxPackages)
    <3>1. chain \in Seq(1..MaxPackages)
      BY Typing
    <3>2. chain' = << >> \/ \E n \in 0 .. Len(chain) : chain' = SubSeq(chain, n + 1, Len(chain))
      BY <1>16 DEF render_wakes
    <3>3. CASE chain' = << >>
      BY <3>3
    <3>4. ASSUME NEW n \in 0 .. Len(chain), chain' = SubSeq(chain, n + 1, Len(chain))
          PROVE  chain' \in Seq(1..MaxPackages)
      <4> DEFINE Numbers == 1..MaxPackages
      <4>1. chain \in Seq(Numbers) /\ Len(chain) \in Nat /\ n + 1 \in 1 .. Len(chain) + 1
        BY <3>1
      <4> HIDE DEF Numbers
      <4>2. SubSeq(chain, n + 1, Len(chain)) \in Seq(Numbers)
        BY <4>1
      <4> QED BY <3>4, <4>2 DEF Numbers
    <3> QED BY <3>2, <3>3, <3>4
  <2>2. /\ render = "wait" /\ render' \in {"wait", "ended"}
        /\ UNCHANGED <<adp, lock, dev, ring, thread, call, packages, parser, session, exit, decoder,
                       data, monitor>>
    BY <1>16 DEF render_wakes
  <2> HIDE DEF vars, devvars, ccvars
  <2> QED BY <1>0, <2>1, <2>2 DEF Kept, TypeOK, DevTypeOK, Opened, Holders, DataHolds,
             MonitorHolds, DecoderOwned, Subscribes, Locks
<1>17. CASE ThreadTakes \/ ThreadEnds
  <2>1. /\ thread' \in {"write", "event", "ended"} /\ packages' \in 0..MaxPackages
        /\ thread' = "write" => packages' > 0
        /\ UNCHANGED <<adp, lock, dev, ring, call>> /\ UNCHANGED ccvars
    <3>1. packages \in 0..MaxPackages
      BY <1>0 DEF DevTypeOK
    <3> QED BY <1>17, <3>1, Constants DEF ThreadTakes, thread_takes, ThreadEnds, thread_ends
  <2> QED BY <1>0, <2>1 DEF Kept, TypeOK, DevTypeOK, Opened, Holders, DataHolds, MonitorHolds,
             DecoderOwned, Subscribes, Locks
<1>18. CASE ThreadWrites
  <2>1. /\ thread' = "poll" /\ UNCHANGED <<adp, lock, dev, call, packages>> /\ UNCHANGED ccvars
    BY <1>18 DEF ThreadWrites, userdata_package_write
  <2>2. ring' \in Seq(1..MaxPackages) /\ Len(ring') <= RingSize
    <3>0. ring \in Seq(1..MaxPackages) /\ Len(ring) <= RingSize /\ packages \in 0..MaxPackages
      BY <1>0 DEF DevTypeOK
    <3>1. packages \in 1..MaxPackages
      BY <1>0, <1>18, <3>0 DEF ThreadWrites, userdata_package_write, Subscribes
    <3>2. ring' = ring \/ (Len(ring) < RingSize /\ ring' = Append(ring, packages))
      BY <1>18 DEF ThreadWrites, userdata_package_write, HasRoom
    <3> QED BY <3>0, <3>1, <3>2, Constants
  <2> QED BY <1>0, <2>1, <2>2 DEF Kept, TypeOK, DevTypeOK, Opened, Holders, DataHolds, MonitorHolds,
             DecoderOwned, Subscribes, Locks
<1>19. CASE thread_calls \/ thread_returns
  BY <1>19 DEF thread_calls, thread_returns, Kept, TypeOK, DevTypeOK, Opened, Holders,
              DataHolds, MonitorHolds, DecoderOwned, Subscribes, Locks
<1>20. CASE monitor_starts
  <2>1. /\ DevTypeOK' /\ UNCHANGED <<adp, lock, dev, ring, thread, call, packages>>
        /\ UNCHANGED <<parser, session, exit, decoder, chain, data, render>>
    BY <1>0, <1>20 DEF monitor_starts, DevTypeOK
  <2>2. monitor.at = "off"
    BY <1>20 DEF monitor_starts
  <2>3. monitor' \in Monitors /\ monitor'.at = "open" /\ monitor'.exists
        /\ monitor'.subscribed = monitor.subscribed
    <3> DEFINE One == [monitor EXCEPT !.at = "open"]
    <3>1. One \in Monitors /\ One.at = "open" /\ One.exists = monitor.exists
           /\ One.subscribed = monitor.subscribed
      BY <1>m, MonitorGoes DEF MonitorAts
    <3>2. monitor' = [One EXCEPT !.exists = TRUE]
      BY <1>20 DEF monitor_starts
    <3> HIDE DEF One
    <3> QED BY <1>m, <3>1, <3>2, MonitorExists DEF MonitorAts
  <2>4. TypeOK'
    BY <1>0, <2>1, <2>2, <2>3 DEF TypeOK, Monitors, MonitorAts
  <2>5. Opened'
    BY <1>0, <2>1, <2>2, <2>3 DEF Opened, Holders, DataHolds, MonitorHolds
  <2>6. DecoderOwned' /\ Subscribes'
    BY <1>0, <2>1, <2>2, <2>3 DEF DecoderOwned, Subscribes
  <2>7. Locks'
    BY <1>0, <2>1, <2>2, <2>3, Constants DEF Locks
  <2> QED BY <2>4, <2>5, <2>6, <2>7 DEF Kept
<1>21. CASE monitor_opens
  <2>1. monitor.at = "open" /\ UNCHANGED <<parser, session, exit, decoder, chain, data, render>>
    BY <1>21 DEF monitor_opens
  <2>2. CASE UserdataOpen(afd) /\ monitor' = [monitor EXCEPT !.at = "mode"]
    <3>1. dev.count <= 1
      BY <1>0, <2>1 DEF Opened, Holders, DataHolds, MonitorHolds
    <3>2. /\ DevTypeOK' /\ dev'.count = dev.count + 1
          /\ thread' = "poll" \/ thread' = thread
          /\ UNCHANGED <<adp, lock, call, packages>>
      BY <1>0, <2>2, <3>1, Opens, Constants
    <3>3. monitor' \in Monitors /\ monitor'.at = "mode" /\ monitor'.exists = monitor.exists
          /\ monitor'.subscribed = monitor.subscribed
      BY <1>m, <2>2, MonitorGoes DEF MonitorAts
    <3>4. TypeOK'
      BY <1>0, <2>1, <3>2, <3>3 DEF TypeOK, Monitors, MonitorAts
    <3>5. Opened'
      BY <1>0, <2>1, <3>2, <3>3 DEF Opened, Holders, DataHolds, MonitorHolds
    <3>6. DecoderOwned' /\ Subscribes'
      BY <1>0, <2>1, <3>2, <3>3 DEF DecoderOwned, Subscribes
    <3>7. Locks'
      BY <1>0, <2>1, <3>2, <3>3, Constants DEF Locks
    <3> QED BY <3>4, <3>5, <3>6, <3>7 DEF Kept
  <2>3. CASE OpenFails(afd) /\ monitor' = [monitor EXCEPT !.at = "on"]
    <3>1. DevTypeOK' /\ UNCHANGED devvars /\ dev.count = 0
      BY <1>0, <2>3, Refused, Constants DEF DevTypeOK
    <3>2. monitor' \in Monitors /\ monitor'.at = "on" /\ monitor'.exists = monitor.exists
          /\ monitor'.subscribed = monitor.subscribed
      BY <1>m, <2>3, MonitorGoes DEF MonitorAts
    <3>3. TypeOK'
      BY <1>0, <2>1, <3>1, <3>2 DEF TypeOK, Monitors, MonitorAts
    <3>4. Opened'
      BY <1>0, <2>1, <3>1, <3>2 DEF Opened, Holders, DataHolds, MonitorHolds
    <3>5. DecoderOwned' /\ Subscribes'
      BY <1>0, <2>1, <3>1, <3>2 DEF DecoderOwned, Subscribes
    <3>6. Locks'
      BY <1>0, <2>1, <3>1, <3>2, Constants DEF Locks
    <3> QED BY <3>3, <3>4, <3>5, <3>6 DEF Kept
  <2> QED BY <1>21, <2>2, <2>3 DEF monitor_opens
<1>22. CASE monitor_mode
  <2>1. /\ DevTypeOK' /\ dev'.count = dev.count
        /\ UNCHANGED <<adp, lock, ring, thread, call, packages>>
    BY <1>0, <1>22, SetsMode, Constants DEF monitor_mode
  <2>2. monitor.at = "mode" /\ UNCHANGED <<parser, session, exit, decoder, chain, data, render>>
    BY <1>22 DEF monitor_mode
  <2>3. monitor' \in Monitors /\ monitor'.at = "on" /\ monitor'.exists = monitor.exists
        /\ monitor'.subscribed
    <3> DEFINE One == [monitor EXCEPT !.at = "on"]
    <3>1. One \in Monitors /\ One.at = "on" /\ One.exists = monitor.exists
           /\ One.subscribed = monitor.subscribed
      BY <1>m, MonitorGoes DEF MonitorAts
    <3>2. monitor' = [One EXCEPT !.subscribed = TRUE]
      BY <1>22 DEF monitor_mode
    <3> HIDE DEF One
    <3> QED BY <1>m, <3>1, <3>2, MonitorSubscribes DEF MonitorAts
  <2>4. TypeOK'
    BY <1>0, <2>1, <2>2, <2>3 DEF TypeOK, Monitors, MonitorAts
  <2>5. Opened'
    BY <1>0, <2>1, <2>2, <2>3 DEF Opened, Holders, DataHolds, MonitorHolds
  <2>6. DecoderOwned' /\ Subscribes'
    BY <1>0, <2>1, <2>2, <2>3 DEF DecoderOwned, Subscribes
  <2>7. Locks'
    BY <1>0, <2>1, <2>2, <2>3, Constants DEF Locks
  <2> QED BY <2>4, <2>5, <2>6, <2>7 DEF Kept
<1>23. ASSUME NEW why \in {"restart", "destroy"}, monitor_stops(why) PROVE Kept'
  <2>1. /\ DevTypeOK' /\ UNCHANGED <<adp, lock, dev, ring, thread, call, packages>>
        /\ UNCHANGED <<parser, session, exit, decoder, chain, data, render>>
    BY <1>0, <1>23 DEF monitor_stops, DevTypeOK
  <2>2. monitor.at = "on"
    BY <1>23 DEF monitor_stops
  <2>3. monitor' \in Monitors /\ monitor'.at = "unsubscribe" /\ monitor'.exists = monitor.exists
        /\ monitor'.subscribed = monitor.subscribed
    <3> DEFINE One == [monitor EXCEPT !.at = "unsubscribe"]
    <3>1. One \in Monitors /\ One.at = "unsubscribe" /\ One.exists = monitor.exists
           /\ One.subscribed = monitor.subscribed
      BY <1>m, MonitorGoes DEF MonitorAts
    <3>2. monitor' = [One EXCEPT !.leaving = why]
      BY <1>23 DEF monitor_stops
    <3> HIDE DEF One
    <3> QED BY <1>m, <3>1, <3>2, MonitorLeaves DEF MonitorAts
  <2>4. TypeOK'
    BY <1>0, <2>1, <2>2, <2>3 DEF TypeOK, Monitors, MonitorAts
  <2>5. Opened'
    BY <1>0, <2>1, <2>2, <2>3 DEF Opened, Holders, DataHolds, MonitorHolds
  <2>6. DecoderOwned' /\ Subscribes'
    BY <1>0, <2>1, <2>2, <2>3 DEF DecoderOwned, Subscribes
  <2>7. Locks'
    BY <1>0, <2>1, <2>2, <2>3, Constants DEF Locks
  <2> QED BY <2>4, <2>5, <2>6, <2>7 DEF Kept
<1>24. CASE monitor_unsubscribes
  <2>1. /\ DevTypeOK' /\ UNCHANGED <<adp, lock, dev, ring, thread, call, packages>>
        /\ UNCHANGED <<parser, session, exit, decoder, chain, data, render>>
    BY <1>0, <1>24 DEF monitor_unsubscribes, DevTypeOK
  <2>2. monitor.at = "unsubscribe" /\ thread # "called"
    BY <1>24 DEF monitor_unsubscribes, CallbackRunning
  <2>3. monitor' \in Monitors /\ monitor'.at = "close" /\ monitor'.exists = monitor.exists
        /\ ~monitor'.subscribed
    <3> DEFINE One == [monitor EXCEPT !.at = "close"]
    <3>1. One \in Monitors /\ One.at = "close" /\ One.exists = monitor.exists
           /\ One.subscribed = monitor.subscribed
      BY <1>m, MonitorGoes DEF MonitorAts
    <3>2. monitor' = [One EXCEPT !.subscribed = FALSE]
      BY <1>24 DEF monitor_unsubscribes
    <3> HIDE DEF One
    <3> QED BY <1>m, <3>1, <3>2, MonitorSubscribes DEF MonitorAts
  <2>4. TypeOK'
    BY <1>0, <2>1, <2>2, <2>3 DEF TypeOK, Monitors, MonitorAts
  <2>5. Opened'
    BY <1>0, <2>1, <2>2, <2>3 DEF Opened, Holders, DataHolds, MonitorHolds
  <2>6. DecoderOwned' /\ Subscribes'
    BY <1>0, <2>1, <2>2, <2>3 DEF DecoderOwned, Subscribes
  <2>7. Locks'
    BY <1>0, <2>1, <2>2, <2>3, Constants DEF Locks
  <2> QED BY <2>4, <2>5, <2>6, <2>7 DEF Kept
<1>25. CASE monitor_closes
  <2>1. monitor.at = "close" /\ UNCHANGED <<parser, session, exit, decoder, chain, data, render>>
    BY <1>25 DEF monitor_closes
  <2>2. CASE UserdataClose(afd) /\ UNCHANGED monitor
    <3>1. /\ DevTypeOK' /\ dev'.count = 0 /\ adp = Free /\ adp' = afd
          /\ call'[afd] = "closing" /\ call'[cc] = call[cc]
          /\ UNCHANGED <<lock, thread, packages>>
      BY <1>0, <2>2, Closes, Constants
    <3>2. monitor' = monitor /\ monitor' \in Monitors
      BY <1>m, <2>2
    <3>3. TypeOK'
      BY <1>0, <2>1, <3>1, <3>2 DEF TypeOK, Monitors, MonitorAts
    <3>4. Opened'
      BY <1>0, <2>1, <3>1, <3>2 DEF Opened, Holders, DataHolds, MonitorHolds
    <3>5. DecoderOwned' /\ Subscribes'
      BY <1>0, <2>1, <3>1, <3>2 DEF DecoderOwned, Subscribes
    <3>6. Locks'
      BY <1>0, <2>1, <3>1, <3>2, Constants DEF Locks
    <3> QED BY <3>3, <3>4, <3>5, <3>6 DEF Kept
  <2>3. CASE /\ CloseOfClosed(afd) \/ CloseJoins(afd)
             /\ monitor' = [monitor EXCEPT !.at = "off", !.leaving = "no",
                                           !.exists = @ /\ monitor.leaving # "destroy"]
    <3>1. /\ DevTypeOK' /\ dev'.count = 0 /\ call'[afd] = "idle" /\ call'[cc] = call[cc]
          /\ thread' = "none" \/ thread' = thread
          /\ adp' = adp \/ adp = afd
          /\ UNCHANGED <<lock, packages>>
      <4>1. CASE CloseOfClosed(afd)
        BY <1>0, <4>1 DEF CloseOfClosed, DevTypeOK
      <4>2. CASE CloseJoins(afd)
        BY <1>0, <4>2, Joins, Constants DEF Locks
      <4> QED BY <2>3, <4>1, <4>2
    <3>2. monitor' \in Monitors /\ monitor'.at = "off"
          /\ monitor'.subscribed = monitor.subscribed
      <4> DEFINE One == [monitor EXCEPT !.at = "off"]
      <4> DEFINE Two == [One EXCEPT !.leaving = "no"]
      <4>1. One \in Monitors /\ One.at = "off" /\ One.exists = monitor.exists
             /\ One.subscribed = monitor.subscribed
        BY <1>m, MonitorGoes DEF MonitorAts
      <4>2. Two \in Monitors /\ Two.at = One.at /\ Two.exists = One.exists
             /\ Two.subscribed = One.subscribed
        BY <4>1, MonitorLeaves DEF MonitorAts
      <4>3. monitor' = [Two EXCEPT !.exists = (monitor.exists /\ monitor.leaving # "destroy")]
        BY <2>3
      <4> HIDE DEF One, Two
      <4> QED BY <1>m, <4>1, <4>2, <4>3, MonitorExists DEF MonitorAts
    <3>3. TypeOK'
      BY <1>0, <2>1, <3>1, <3>2 DEF TypeOK, Monitors, MonitorAts
    <3>4. Opened'
      BY <1>0, <2>1, <3>1, <3>2 DEF Opened, Holders, DataHolds, MonitorHolds
    <3>5. DecoderOwned' /\ Subscribes'
      BY <1>0, <2>1, <3>1, <3>2 DEF DecoderOwned, Subscribes
    <3>6. Locks'
      BY <1>0, <2>1, <3>1, <3>2, Constants DEF Locks
    <3> QED BY <3>3, <3>4, <3>5, <3>6 DEF Kept
  <2> QED BY <1>25, <2>2, <2>3 DEF monitor_closes
<1>26. CASE UNCHANGED vars
  BY <1>26 DEF Kept, TypeOK, DevTypeOK, Opened, Holders, DataHolds, MonitorHolds,
              DecoderOwned, Subscribes, Locks
<1> QED BY <1>1, <1>2, <1>3, <1>4, <1>5, <1>6, <1>7, <1>8, <1>9, <1>10, <1>11, <1>12, <1>13,
           <1>14, <1>15, <1>16, <1>17, <1>18, <1>19, <1>20, <1>21, <1>22, <1>23, <1>24,
           <1>25, <1>26
        DEF Next, Session, Parser, Data, Monitor

-----------------------------------------------------------------------------
(* Nobody closes the device beside a read: the caption decoder's data      *)
(* thread runs only while the monitor does not stop.                       *)

\* Whoever uses the ring - the device thread, a reader - does so while there is one, and a
\* monitor that closes the device finds no caption decoder at a read.
Ringed ==
    /\ thread # "none" => dev.live
    /\ dev.count > 0 => dev.live
    /\ call[cc] \in {"lock", "poll", "wait", "package"} => dev.live
    /\ call[afd] = "closing" => data \in {"none", "ended", "open"}

LEMMA NextRinged ==
    ASSUME ClosesBeside = FALSE
    PROVE  Kept /\ Ringed /\ [Next]_vars => Ringed'
<1> SUFFICES ASSUME Kept, Ringed, [Next]_vars PROVE Ringed'
  OBVIOUS
<1> USE DEF vars, devvars, ccvars, Sessions, SameMonitor, SameSession, SameCaptions
<1>0. /\ DevTypeOK /\ DecoderOwned /\ Locks /\ Opened
      /\ dev.count \in 0..2 /\ call \in [Users -> Places]
  BY Typing DEF Kept, TypeOK, Places
<1>1. CASE UNCHANGED <<dev, thread, call>> /\ (data' = data \/ data' \in {"none", "ended", "open"})
  BY <1>1 DEF Ringed
<1>2. CASE data_opens
  <2>1. data = "open" /\ data' \in {"mode", "ended"}
    BY <1>2 DEF data_opens
  <2>2. CASE UserdataOpen(cc)
    <3>1. dev.count <= 1
      BY <1>0, <2>1 DEF Opened, Holders, DataHolds, MonitorHolds
    <3>2. /\ dev.count = 0 => dev'.live
          /\ dev.count > 0 => dev'.live = dev.live
          /\ call' = call
      BY <1>0, <2>2, <3>1, Opens, Constants
    <3>3. call[afd] # "closing"
      BY <1>0, <2>2, Constants DEF UserdataOpen, Locks
    <3>4. dev'.live
      BY <1>0, <3>2 DEF Ringed
    <3> QED BY <3>2, <3>3, <3>4 DEF Ringed
  <2>3. CASE OpenFails(cc) /\ data' = "ended"
    BY <2>3 DEF OpenFails, Ringed
  <2> QED BY <1>2, <2>2, <2>3 DEF data_opens
<1>3. CASE data_mode
  <2>1. dev'.count = dev.count /\ dev'.live = dev.live /\ UNCHANGED <<thread, call>>
    BY <1>0, <1>3, SetsMode, Constants DEF data_mode
  <2>2. call[afd] # "closing"
    BY <1>3 DEF data_mode, Ringed
  <2> QED BY <2>1, <2>2 DEF Ringed
<1>4. CASE data_loop
  <2>1. UNCHANGED <<dev, thread, call>> /\ data = "loop"
    BY <1>4 DEF data_loop
  <2> QED BY <2>1 DEF Ringed
<1>5. CASE data_reads
  <2>1. CASE ReadBegins(cc)
    <3>1. call'[cc] = "lock" /\ call'[afd] = call[afd] /\ dev.count > 0 /\ UNCHANGED <<dev, thread>>
      BY <1>0, <2>1, GoesThere, Constants DEF ReadBegins, Places
    <3>2. data = "read"
      BY <1>5 DEF data_reads
    <3> QED BY <3>1, <3>2 DEF Ringed
  <2>2. CASE UNCHANGED devvars
    <3>1. data = "read"
      BY <1>5 DEF data_reads
    <3> QED BY <2>2, <3>1 DEF Ringed
  <2> QED BY <1>5, <2>1, <2>2 DEF data_reads
<1>6. CASE data_waits \/ data_decodes
  <2>1. /\ data = "reading" /\ call'[afd] = call[afd] /\ UNCHANGED <<dev, thread>>
        /\ call[cc] \in {"lock", "poll", "wait", "package"}
    <3>1. CASE ReadLocks(cc)
      BY <1>0, <1>6, <3>1, GoesThere, Constants DEF data_waits, data_decodes, ReadLocks, Places
    <3>2. CASE userdata_package_poll(cc)
      BY <1>0, <1>6, <3>2, GoesThere, Constants
         DEF data_waits, data_decodes, userdata_package_poll, Places
    <3>3. CASE Signalled(cc)
      BY <1>0, <1>6, <3>3, GoesThere, Constants DEF data_waits, data_decodes, Signalled, Places
    <3>4. CASE TimesOut(cc)
      BY <1>0, <1>6, <3>4, GoesThere, Constants
         DEF data_waits, data_decodes, TimesOut, MayTimeOut, Places
    <3>5. CASE data_decodes
      BY <1>0, <3>5, GoesThere, Constants DEF data_decodes, userdata_package_read, Places
    <3> QED BY <1>6, <3>1, <3>2, <3>3, <3>4, <3>5 DEF data_waits
  <2> QED BY <2>1 DEF Ringed
<1>7. CASE data_closes
  <2>1. data = "close" /\ data' \in {"close", "ended"}
    BY <1>7 DEF data_closes
  <2>2. CASE UserdataClose(cc)
    <3>1. /\ dev'.count = 0 /\ dev'.live = dev.live /\ thread' = thread
          /\ call'[cc] = "closing" /\ call'[afd] = call[afd]
      BY <1>0, <2>2, Closes, Constants
    <3> QED BY <2>1, <3>1 DEF Ringed
  <2>3. CASE CloseOfClosed(cc)
    BY <2>1, <2>3 DEF CloseOfClosed, Ringed
  <2>4. CASE CloseJoins(cc)
    <3>1. /\ dev'.count = 0 /\ thread' = "none"
          /\ call'[cc] = "idle" /\ call'[afd] = call[afd]
      BY <1>0, <2>4, Joins, Constants
    <3> QED BY <2>1, <3>1 DEF Ringed
  <2> QED BY <1>7, <2>2, <2>3, <2>4 DEF data_closes
<1>8. CASE ThreadTakes \/ ThreadWrites \/ ThreadEnds \/ thread_calls \/ thread_returns
  <2>1. thread # "none" /\ UNCHANGED <<dev, call, data>>
    BY <1>8 DEF ThreadTakes, thread_takes, ThreadWrites, userdata_package_write, ThreadEnds,
                thread_ends, thread_calls, thread_returns
  <2> QED BY <2>1 DEF Ringed
<1>9. CASE monitor_opens
  <2>1. monitor.at = "open" /\ data' = data
    BY <1>9 DEF monitor_opens
  <2>2. CASE UserdataOpen(afd)
    <3>1. dev.count <= 1
      BY <1>0, <2>1 DEF Opened, Holders, DataHolds, MonitorHolds
    <3>2. /\ dev.count = 0 => dev'.live
          /\ dev.count > 0 => dev'.live = dev.live
          /\ call' = call
      BY <1>0, <2>2, <3>1, Opens, Constants
    <3>3. dev'.live
      BY <1>0, <3>2 DEF Ringed
    <3> QED BY <2>1, <3>2, <3>3 DEF Ringed
  <2>3. CASE OpenFails(afd)
    BY <2>1, <2>3 DEF OpenFails, Ringed
  <2> QED BY <1>9, <2>2, <2>3 DEF monitor_opens
<1>10. CASE monitor_mode
  <2>1. dev'.count = dev.count /\ dev'.live = dev.live /\ UNCHANGED <<thread, call>>
    BY <1>0, <1>10, SetsMode, Constants DEF monitor_mode
  <2>2. data' = data
    BY <1>10 DEF monitor_mode
  <2> QED BY <2>1, <2>2 DEF Ringed
<1>11. CASE monitor_closes
  <2>1. data' = data
    BY <1>11 DEF monitor_closes
  <2>2. CASE UserdataClose(afd)
    <3>1. /\ dev'.count = 0 /\ dev'.live = dev.live /\ thread' = thread
          /\ call[afd] = "idle" /\ call'[cc] = call[cc]
      BY <1>0, <2>2, Closes, Constants
    <3>2. data \in {"none", "ended"}
      BY <1>11, <3>1 DEF monitor_closes
    <3> QED BY <2>1, <3>1, <3>2 DEF Ringed
  <2>3. CASE CloseOfClosed(afd)
    BY <2>1, <2>3 DEF CloseOfClosed, Ringed
  <2>4. CASE CloseJoins(afd)
    <3>1. /\ dev'.count = 0 /\ thread' = "none"
          /\ call[afd] = "closing" /\ call'[afd] = "idle" /\ call'[cc] = call[cc]
      BY <1>0, <2>4, Joins, Constants
    <3>2. call[cc] \notin {"lock", "poll", "wait", "package"}
      BY <1>0, <3>1 DEF Locks, Ringed
    <3> QED BY <2>1, <3>1, <3>2 DEF Ringed
  <2> QED BY <1>11, <2>2, <2>3, <2>4 DEF monitor_closes
<1>12. CASE \/ startParser \/ stopParser \/ Session \/ Parser \/ render_wakes \/ monitor_starts
            \/ (\E why \in {"restart", "destroy"} : monitor_stops(why)) \/ monitor_unsubscribes
            \/ UNCHANGED vars
  <2>1. UNCHANGED <<dev, thread, call>> /\ (data' = data \/ data' \in {"none", "ended", "open"})
    BY <1>12 DEF startParser, stopParser, Session, joinParser, ClosedCaptionStop,
                 ClosedCaptionDestroy, Parser, parse, startAtscCc, play, render_wakes,
                 monitor_starts, monitor_stops, monitor_unsubscribes
  <2> QED BY <1>1, <2>1
<1> QED BY <1>2, <1>3, <1>4, <1>5, <1>6, <1>7, <1>8, <1>9, <1>10, <1>11, <1>12
        DEF Next, Data, Monitor

-----------------------------------------------------------------------------
(* The theorems.                                                           *)

LEMMA KeptAlways == Spec => []Kept
<1>1. Init => Kept
  BY InitKept
<1>2. Kept /\ [Next]_vars => Kept'
  BY NextKept
<1> QED BY <1>1, <1>2, PTL DEF Spec

\* The device, its users and the threads of the captions are in states of their types: the
\* device is never opened more than twice, its ring never holds more than it has room for.
THEOREM TypeCorrect == Spec => []TypeOK
<1>1. Kept => TypeOK
  BY DEF Kept
<1> QED BY <1>1, KeptAlways, PTL

\* When the session of ClosedCaptionParser is over, none of the threads of its decoder is left
\* (ClosedCaptionDestroy() joins them), and the device is open only for the monitor.
THEOREM NoThreadLeftAlways == Spec => []NoThreadLeft
<1>1. Kept => NoThreadLeft
  <2> SUFFICES ASSUME Kept, session = "off" PROVE NoThreadLeft
    BY DEF NoThreadLeft
  <2>1. data = "none" /\ render = "none" /\ parser \in {"none", "ended"} /\ ~decoder.exists
    BY DEF Kept, DecoderOwned
  <2>2. monitor.at = "off" => dev.count = 0
    BY <2>1, Typing DEF Kept, Opened, Holders, DataHolds, MonitorHolds
  <2> QED BY <2>1, <2>2 DEF NoThreadLeft
<1> QED BY <1>1, KeptAlways, PTL

\* A callback of the device thread runs only while the monitor of the active format exists
\* and subscribes: UserDataAfd's stop() unsubscribes before the monitor is destroyed.
THEOREM CallbackHasMonitorAlways == Spec => []CallbackHasMonitor
<1>1. Kept => CallbackHasMonitor
  BY DEF Kept, Subscribes, CallbackHasMonitor
<1> QED BY <1>1, KeptAlways, PTL

\* The device thread and a reader use ring and mutex only while they exist, as long as the
\* monitor is not stopped beside a running caption decoder: UserdataClose() joins the thread,
\* but knows of no reader.
THEOREM RingOutlivesUseAlways ==
    ASSUME ClosesBeside = FALSE
    PROVE  Spec => []RingOutlivesUse
<1>1. Init => Ringed
  BY Constants DEF Init, DevInit, Closed, Ringed
<1>2. Kept /\ Ringed /\ [Next]_vars => Ringed'
  BY NextRinged
<1>3. Kept /\ Ringed => RingOutlivesUse
  BY Constants DEF Kept, Locks, Ringed, RingOutlivesUse
<1>4. Spec => []Ringed
  BY <1>1, <1>2, KeptAlways, PTL DEF Spec
<1> QED BY <1>3, <1>4, KeptAlways, PTL

-----------------------------------------------------------------------------
(* The source of the demux.                                                *)

\* The calls of the driver that the source makes, in the order of each of its methods; where
\* there is nothing to free or to close the first ones are left out.
CallNames == {"open", "allocate", "buffer", "filter", "callback", "start",
              "stop", "free", "nocallback", "end", "close", "reset", "gone"}

ClosingList == <<"stop", "free", "nocallback", "end", "close">>
EndingList == <<"stop", "free", "nocallback", "end", "close", "gone">>
OpeningList == <<"stop", "free", "nocallback", "end", "close", "reset",
             "open", "allocate", "buffer", "filter", "callback", "start">>
UndoingList == <<"free", "end", "close">>

CallLists == {ClosingList, EndingList, OpeningList, UndoingList}

\* The k-th call of the list is the next.
AtCall(list, k) == k \in 1 .. Len(list) /\ ctl.todo = SubSeq(list, k, Len(list))

LEMMA ListsOfCalls ==
  /\ ClosingList \in Seq(CallNames) /\ Len(ClosingList) = 5
  /\ EndingList \in Seq(CallNames) /\ Len(EndingList) = 6
  /\ OpeningList \in Seq(CallNames) /\ Len(OpeningList) = 12
  /\ UndoingList \in Seq(CallNames) /\ Len(UndoingList) = 3
BY DEF ClosingList, EndingList, OpeningList, UndoingList, CallNames

LEMMA CallsLeft ==
  ASSUME NEW list \in Seq(CallNames), NEW k \in 1 .. Len(list)
  PROVE  /\ SubSeq(list, k, Len(list)) # << >>
         /\ Head(SubSeq(list, k, Len(list))) = list[k]
         /\ k < Len(list) => /\ Tail(SubSeq(list, k, Len(list))) = SubSeq(list, k + 1, Len(list))
                             /\ Tail(SubSeq(list, k, Len(list))) # << >>
         /\ k = Len(list) => Tail(SubSeq(list, k, Len(list))) = << >>
<1> DEFINE n == Len(list)
           t == SubSeq(list, k, n)
           u == SubSeq(list, k + 1, n)
<1>1. n \in Nat /\ k \in Nat /\ k <= n
  OBVIOUS
<1>2. /\ t \in Seq(CallNames) /\ Len(t) = n - k + 1
      /\ \A i \in 1 .. (n - k + 1) : t[i] = list[k + i - 1]
  OBVIOUS
<1>3. k < n => /\ u \in Seq(CallNames) /\ Len(u) = n - k
               /\ \A i \in 1 .. (n - k) : u[i] = list[k + i]
  BY <1>1
<1> HIDE DEF t, u, n
<1>4. t # << >> /\ Head(t) = list[k]
  BY <1>1, <1>2
<1>5. /\ Tail(t) \in Seq(CallNames) /\ Len(Tail(t)) = n - k
      /\ \A i \in 1 .. (n - k) : Tail(t)[i] = list[k + i]
  BY <1>1, <1>2, <1>4
<1>6. ASSUME k < n PROVE Tail(t) = u /\ Tail(t) # << >>
  BY <1>1, <1>3, <1>5, <1>6
<1>7. ASSUME k = n PROVE Tail(t) = << >>
  BY <1>1, <1>5, <1>7
<1> QED BY <1>2, <1>4, <1>6, <1>7 DEF t, u, n

LEMMA ListParts ==
  /\ (<< >> \o << >>) \o <<"gone">> = SubSeq(EndingList, 6, 6)
  /\ (<< >> \o <<"end", "close">>) \o <<"gone">> = SubSeq(EndingList, 4, 6)
  /\ (<<"stop", "free", "nocallback">> \o <<"end", "close">>) \o <<"gone">>
       = SubSeq(EndingList, 1, 6)
  /\ << >> \o << >> = << >>
  /\ << >> \o <<"end", "close">> = SubSeq(ClosingList, 4, 5)
  /\ <<"stop", "free", "nocallback">> \o <<"end", "close">> = SubSeq(ClosingList, 1, 5)
  /\ (<< >> \o << >>) \o <<"reset">> \o Dmx!OpenCalls = SubSeq(OpeningList, 6, 12)
  /\ (<< >> \o <<"end", "close">>) \o <<"reset">> \o Dmx!OpenCalls = SubSeq(OpeningList, 4, 12)
  /\ (<<"stop", "free", "nocallback">> \o <<"end", "close">>) \o <<"reset">> \o Dmx!OpenCalls
       = SubSeq(OpeningList, 1, 12)
  /\ Dmx!OpenCalls = SubSeq(OpeningList, 7, 12)
  /\ <<"end", "close">> = SubSeq(UndoingList, 2, 3)
  /\ <<"free", "end", "close">> = SubSeq(UndoingList, 1, 3)
BY DEF ClosingList, EndingList, OpeningList, UndoingList, Dmx!OpenCalls

\* The demux is not changed while a source is there.
DemuxHypotheses ==
  /\ MovesWhileOpen = FALSE
  /\ Demuxes \in SUBSET Nat /\ Demuxes # {} /\ Filters \in SUBSET Nat
  /\ Null \notin Demuxes \cup Filters \cup {"pes_data_cb"}

LEMMA LeastNumber ==
  ASSUME NEW S \in SUBSET Nat, S # {}
  PROVE  \E x \in S : \A y \in S : x <= y
<1> DEFINE R == {ss \in Nat \X Nat : ss[1] < ss[2]}
<1>1. IsWellFoundedOn(R, Nat)
  BY NatLessThanWellFounded DEF OpToRel
<1> HIDE DEF R
<1>2. PICK x \in S : \A y \in S : ~(<<y, x>> \in R)
  BY <1>1, WFMin
<1>3. \A y \in S : x <= y
  <2> TAKE y \in S
  <2>1. x \in Nat /\ y \in Nat
    OBVIOUS
  <2>2. y < x => <<y, x>> \in R
    BY <2>1 DEF R
  <2> QED BY <1>2, <2>1, <2>2
<1> QED BY <1>3

-----------------------------------------------------------------------------
FilterRecords == [used : BOOLEAN, enable : BOOLEAN, cb : {"pes_data_cb", Null},
                  pid : Pids \cup {Null}]
DeviceRecords == [count : {0, 1}, enable : BOOLEAN,
                  thread : {"none", "poll", "called", "ended"},
                  cb : {"pes_data_cb", Null}, filters : [Filters -> FilterRecords]]
SourceRecords == [alive : BOOLEAN, state : {"invalid", "started", "stopped"},
                  demuxId : Demuxes \cup {Null}, pid : Pids \cup {Null},
                  dmx : Demuxes \cup {Null}, handle : Filters \cup {Null}]

DemuxTyped ==
  /\ device \in [Demuxes -> DeviceRecords] /\ source \in SourceRecords
  /\ params \in [demuxId : Demuxes, pid : Pids \cup {Null}]
  /\ aborted \in BOOLEAN

\* A device that is closed has no thread and no filter in use, and one that is not used is
\* not enabled; only a thread that is about to call has a callback.
TidyDevice(d) ==
  /\ \A f \in Filters : d.filters[f].enable => d.filters[f].used
  /\ d.count = 0 => d.thread = "none" /\ \A f \in Filters : ~d.filters[f].used
  /\ d.cb # Null => d.thread = "called"

\* The demux the source has is the one of the parameters, if it was told of one.
DemuxKnown ==
  /\ ~source.alive => source = Dmx!NoSource
  /\ source.demuxId \in {Null, params.demuxId}
  /\ source.dmx \in {Null, source.demuxId}
  /\ source.state = "invalid" => source.dmx = Null
  /\ source.handle # Null => source.dmx # Null

\* What is open is open for the source, which knows its only filter.
OwnedBy(s, d, id) ==
  /\ TidyDevice(d)
  /\ d.count # 0 => s.alive /\ s.dmx = id
  /\ \A f \in Filters : d.filters[f].used => f = s.handle

TheirOwn == \A id \in Demuxes : OwnedBy(source, device[id], id)

AllClosed == \A id \in Demuxes : device[id].count = 0
NoneEnabled == \A id \in Demuxes, f \in Filters : ~device[id].filters[f].enable
OwnPid == \A id \in Demuxes, f \in Filters :
            device[id].filters[f].enable => device[id].filters[f].pid = source.pid

\* Between the methods, and at each call of one.
Resting == ctl = Dmx!Nothing /\ (source.state = "started" /\ ~aborted => OwnPid)

StopsAt(k) ==
  /\ ctl.what = "stop" /\ AtCall(ClosingList, k)
  /\ source.state = "stopped"

EndsAt(k) ==
  /\ ctl.what = "destroy" /\ AtCall(EndingList, k)
  /\ source.state = "stopped"
  /\ IF k < 6 THEN ctl.dev = source.dmx ELSE AllClosed

OpensAt(k) ==
  /\ ctl.what \in {"start", "restart"} /\ AtCall(OpeningList, k)
  /\ source.state = "started"
  /\ ctl.dev = source.demuxId
  /\ k # 6 => ctl.dev = source.dmx
  /\ k \in {6, 7} => AllClosed
  /\ k > 6 => NoneEnabled
  /\ k \in {7, 8} => source.handle = Null
  /\ k > 10 /\ source.handle # Null => device[ctl.dev].filters[source.handle].pid = source.pid

UndoesAt(k) ==
  /\ ctl.what = "failed" /\ AtCall(UndoingList, k)
  /\ source.state = "started"
  /\ ctl.dev = source.dmx /\ NoneEnabled

BusyAt(k) == StopsAt(k) \/ EndsAt(k) \/ OpensAt(k) \/ UndoesAt(k)

AtItsCall ==
  \/ Resting
  \/ /\ ~aborted /\ source.alive
     /\ DOMAIN ctl = {"what", "dev", "todo"}
     /\ ctl.dev \in Demuxes \/ (ctl.what = "destroy" /\ ctl.todo = SubSeq(EndingList, 6, 6))
     /\ \E k \in 1 .. 12 : BusyAt(k)

Owned == DemuxTyped /\ DemuxKnown /\ TheirOwn /\ AtItsCall

LEMMA OwnedIsSafe ==
  ASSUME DemuxHypotheses, Owned
  PROVE  Dmx!FiltersAreItsOwn /\ Dmx!CallbackHasTarget
<1>1. Dmx!CallbackHasTarget
  BY DEF DemuxHypotheses, Owned, DemuxTyped, DemuxKnown, TheirOwn, OwnedBy, TidyDevice, Dmx!CallbackHasTarget,
         DeviceRecords, SourceRecords
<1>2. ~source.alive => \A d \in Demuxes : ~Dmx!Opened(device[d])
  BY DEF Owned, DemuxTyped, TheirOwn, OwnedBy, Dmx!Opened, DeviceRecords
<1>3. ASSUME Dmx!Idle, source.alive, source.state = "started",
             NEW d \in Demuxes, NEW f \in Filters, device[d].filters[f].enable
      PROVE  d = source.demuxId /\ device[d].filters[f].pid = source.pid
  <2>1. Resting
    <3>1. ctl = Dmx!Nothing
      BY <1>3 DEF Dmx!Idle
    <3>2. ASSUME NEW k, BusyAt(k) PROVE FALSE
      BY <3>1, <3>2 DEF BusyAt, StopsAt, EndsAt, OpensAt, UndoesAt, Dmx!Nothing, Dmx!Doing
    <3> QED BY <3>2 DEF Owned, AtItsCall
  <2>2. device[d].filters[f].pid = source.pid
    BY <1>3, <2>1 DEF Resting, Dmx!Idle, OwnPid
  <2>3. device[d].filters[f].used
    BY <1>3 DEF Owned, TheirOwn, OwnedBy, TidyDevice
  <2>4. device[d].count # 0
    BY <2>3 DEF Owned, TheirOwn, OwnedBy, TidyDevice
  <2>5. source.dmx = d
    BY <2>4 DEF Owned, TheirOwn, OwnedBy
  <2>6. d = source.demuxId
    BY <2>5 DEF DemuxHypotheses, Owned, DemuxKnown
  <2> QED BY <2>2, <2>6
<1> QED BY <1>1, <1>2, <1>3 DEF Dmx!FiltersAreItsOwn

LEMMA InitOwned ==
  ASSUME DemuxHypotheses, Dmx!Init
  PROVE  Owned
<1>1. device = [d \in Demuxes |-> Dmx!Closed] /\ source = Dmx!NoSource /\ aborted = FALSE
  BY DEF Dmx!Init
<1>2. PICK d \in Demuxes : \A e \in Demuxes : d <= e
  BY LeastNumber DEF DemuxHypotheses
<1>3. params \in [demuxId : Demuxes, pid : Pids \cup {Null}]
  BY <1>2 DEF Dmx!Init
<1>4. Dmx!Closed \in DeviceRecords
  BY DEF Dmx!Closed, Dmx!NoFilter, DeviceRecords, FilterRecords
<1>5. DemuxTyped
  BY <1>1, <1>3, <1>4 DEF DemuxTyped, Dmx!NoSource, SourceRecords
<1>6. DemuxKnown
  BY <1>1 DEF DemuxKnown, Dmx!NoSource
<1>7. ASSUME NEW id \in Demuxes PROVE OwnedBy(source, device[id], id)
  BY <1>1 DEF OwnedBy, TidyDevice, Dmx!Closed, Dmx!NoFilter
<1>8. AtItsCall
  BY <1>1 DEF Dmx!Init, AtItsCall, Resting, Dmx!NoSource
<1> QED BY <1>5, <1>6, <1>7, <1>8 DEF Owned, TheirOwn

-----------------------------------------------------------------------------
(* The methods begin.                                                      *)

\* Where its three closing calls begin, and after them.
FirstAt(from) == IF source.handle # Null THEN 1 ELSE IF source.dmx # Null THEN 4 ELSE from

LEMMA CallsToClose ==
  ASSUME DemuxKnown
  PROVE  /\ Dmx!CloseCalls = (IF source.dmx = Null THEN << >>
                              ELSE SubSeq(ClosingList, FirstAt(6), 5))
         /\ Dmx!CloseCalls \o <<"gone">> = SubSeq(EndingList, FirstAt(6), 6)
         /\ Dmx!CloseCalls \o <<"reset">> \o Dmx!OpenCalls = SubSeq(OpeningList, FirstAt(6), 12)
<1>1. CASE source.handle # Null
  <2>1. source.dmx # Null
    BY <1>1 DEF DemuxKnown
  <2>2. Dmx!CloseCalls = <<"stop", "free", "nocallback">> \o <<"end", "close">>
    BY <1>1, <2>1 DEF Dmx!CloseCalls
  <2> QED BY <1>1, <2>1, <2>2, ListParts DEF FirstAt
<1>2. CASE source.handle = Null /\ source.dmx # Null
  <2>1. Dmx!CloseCalls = << >> \o <<"end", "close">>
    BY <1>2 DEF Dmx!CloseCalls
  <2> QED BY <1>2, <2>1, ListParts DEF FirstAt
<1>3. CASE source.handle = Null /\ source.dmx = Null
  <2>1. Dmx!CloseCalls = << >> \o << >>
    BY <1>3 DEF Dmx!CloseCalls
  <2> QED BY <1>3, <2>1, ListParts DEF FirstAt
<1> QED BY <1>1, <1>2, <1>3

LEMMA IdleRests ==
  ASSUME Owned, Dmx!Idle
  PROVE  Resting
<1>1. ctl = Dmx!Nothing
  BY DEF Dmx!Idle
<1>2. ASSUME NEW k, BusyAt(k) PROVE FALSE
  BY <1>1, <1>2 DEF BusyAt, StopsAt, EndsAt, OpensAt, UndoesAt, Dmx!Nothing, Dmx!Doing
<1> QED BY <1>2 DEF Owned, AtItsCall

\* Nothing is open for a source that is not there or has no demux.
LEMMA NoneOpen ==
  ASSUME Owned, ~source.alive \/ source.dmx = Null, DemuxHypotheses
  PROVE  AllClosed
BY DEF Owned, TheirOwn, OwnedBy, AllClosed, DemuxHypotheses

LEMMA ClosedNone ==
  ASSUME Owned, AllClosed
  PROVE  /\ NoneEnabled
         /\ \A id \in Demuxes, f \in Filters : ~device[id].filters[f].used
BY DEF Owned, TheirOwn, OwnedBy, AllClosed, NoneEnabled, TidyDevice

\* A step of the source alone: what is open for it is what was.
LEMMA DevicesStay ==
  ASSUME Owned, UNCHANGED device,
         AllClosed \/ (source'.alive = source.alive /\ source'.dmx = source.dmx),
         (AllClosed \/ source'.handle = source.handle)
  PROVE  TheirOwn'
<1> SUFFICES ASSUME NEW id \in Demuxes PROVE OwnedBy(source', device[id], id)
  BY DEF TheirOwn
<1>1. OwnedBy(source, device[id], id)
  BY DEF Owned, TheirOwn
<1>2. CASE AllClosed
  BY <1>1, <1>2, ClosedNone DEF AllClosed, OwnedBy
<1>3. CASE source'.alive = source.alive /\ source'.dmx = source.dmx /\ source'.handle = source.handle
  BY <1>1, <1>3 DEF OwnedBy
<1> QED BY <1>2, <1>3

LEMMA SourceMade ==
  ASSUME DemuxHypotheses, Owned, NEW typed \in BOOLEAN, Dmx!create(typed)
  PROVE  Owned'
<1>1. /\ Dmx!Idle /\ ~source.alive /\ UNCHANGED <<device, params, ctl, aborted>>
      /\ source' = IF typed
                   THEN [Dmx!NoSource EXCEPT !.alive = TRUE, !.demuxId = params.demuxId,
                                             !.pid = params.pid]
                   ELSE [Dmx!NoSource EXCEPT !.alive = TRUE]
  BY DEF Dmx!create
<1>2. params.demuxId \in Demuxes /\ params.pid \in Pids \cup {Null}
  BY DEF Owned, DemuxTyped
<1>3. /\ source' \in SourceRecords /\ source'.alive /\ source'.state = "invalid"
      /\ source'.handle = Null /\ source'.dmx = Null
      /\ source'.demuxId \in {Null, params.demuxId}
  BY <1>1, <1>2 DEF Dmx!NoSource, SourceRecords
<1>4. DemuxTyped' /\ DemuxKnown'
  BY <1>1, <1>3 DEF Owned, DemuxTyped, DemuxKnown
<1>5. TheirOwn'
  BY <1>1, <1>3, NoneOpen, DevicesStay
<1>6. AtItsCall'
  <2>1. ctl = Dmx!Nothing
    BY <1>1 DEF Dmx!Idle
  <2> QED BY <1>1, <1>3, <2>1 DEF AtItsCall, Resting, Dmx!Nothing, Dmx!Doing
<1> QED BY <1>4, <1>5, <1>6 DEF Owned

LEMMA SourceStarts ==
  ASSUME DemuxHypotheses, Owned, Dmx!start
  PROVE  Owned'
<1>1. /\ Dmx!Idle /\ source.alive /\ source.state = "invalid"
      /\ source' = [source EXCEPT !.state = "started", !.dmx = source.demuxId]
      /\ ctl' = IF source.demuxId = Null THEN Dmx!Nothing
                ELSE Dmx!Doing("start", source.demuxId, Dmx!OpenCalls)
      /\ UNCHANGED <<device, params, aborted>>
  BY DEF Dmx!start
<1>2. source.dmx = Null /\ source.handle = Null /\ AllClosed /\ NoneEnabled
  BY <1>1, NoneOpen, ClosedNone DEF Owned, DemuxKnown
<1>3. /\ source' \in SourceRecords /\ source'.alive /\ source'.state = "started"
      /\ source'.handle = Null /\ source'.dmx = source.demuxId
      /\ source'.demuxId = source.demuxId /\ source'.pid = source.pid
  BY <1>1, <1>2 DEF Owned, DemuxTyped, SourceRecords
<1>4. DemuxTyped' /\ DemuxKnown'
  BY <1>1, <1>3 DEF Owned, DemuxTyped, DemuxKnown
<1>5. TheirOwn'
  BY <1>1, <1>2, <1>3, DevicesStay
<1>6. AtItsCall'
  <2>0. NoneEnabled' /\ AllClosed'
    BY <1>1, <1>2 DEF NoneEnabled, AllClosed
  <2>1. CASE source.demuxId = Null
    BY <1>1, <1>2, <2>1 DEF AtItsCall, Resting, OwnPid, NoneEnabled, Dmx!Nothing, Dmx!Doing
  <2>2. CASE source.demuxId # Null
    <3>1. ctl' = Dmx!Doing("start", source.demuxId, SubSeq(OpeningList, 7, 12))
      BY <1>1, <2>2, ListParts
    <3>2. ctl'.what = "start" /\ ctl'.dev = source.demuxId /\ DOMAIN ctl' = {"what", "dev", "todo"}
      BY <3>1 DEF Dmx!Doing
    <3>3. AtCall(OpeningList, 7)'
      BY <3>1, ListsOfCalls DEF AtCall, Dmx!Doing
    <3>4. OpensAt(7)'
      BY <1>3, <2>0, <3>2, <3>3 DEF OpensAt
    <3>5. ctl'.dev \in Demuxes /\ ~aborted'
      BY <1>1, <2>2, <3>2 DEF Owned, DemuxTyped, SourceRecords, Dmx!Idle
    <3> QED BY <1>3, <3>2, <3>4, <3>5 DEF AtItsCall, BusyAt
  <2> QED BY <2>1, <2>2
<1> QED BY <1>4, <1>5, <1>6 DEF Owned

LEMMA FirstCall ==
  ASSUME DemuxKnown, DemuxHypotheses
  PROVE  /\ FirstAt(6) \in {1, 4, 6}
         /\ FirstAt(6) # 6 => source.dmx # Null
         /\ FirstAt(6) = 6 => source.dmx = Null
BY DEF FirstAt, DemuxKnown

LEMMA SetsPid ==
  ASSUME DemuxHypotheses, Owned, NEW p \in Pids, Dmx!setSubPid(p)
  PROVE  Owned'
<1>1. /\ Dmx!Idle /\ UNCHANGED <<device, aborted>>
      /\ params' = [params EXCEPT !.pid = p]
  BY DEF Dmx!setSubPid
<1>2. /\ params' \in [demuxId : Demuxes, pid : Pids \cup {Null}]
      /\ params'.demuxId = params.demuxId /\ params.demuxId \in Demuxes
  BY <1>1 DEF Owned, DemuxTyped
<1>3. Resting /\ ctl = Dmx!Nothing /\ ~aborted
  BY <1>1, IdleRests DEF Dmx!Idle
<1>4. CASE ~source.alive
  <2>1. UNCHANGED <<source, ctl>>
    BY <1>4 DEF Dmx!setSubPid
  <2>2. DemuxTyped' /\ DemuxKnown'
    BY <1>1, <1>2, <2>1 DEF Owned, DemuxTyped, DemuxKnown
  <2>3. TheirOwn'
    BY <1>1, <2>1, DevicesStay
  <2>4. AtItsCall'
    BY <1>1, <1>3, <2>1 DEF AtItsCall, Resting, OwnPid
  <2> QED BY <2>2, <2>3, <2>4 DEF Owned
<1>5. CASE source.alive
  <2>1. /\ source' = [source EXCEPT !.pid = p, !.demuxId = params.demuxId]
        /\ ctl' = IF Dmx!Restarts(p)
                  THEN Dmx!Doing("restart", params.demuxId,
                                 Dmx!CloseCalls \o <<"reset">> \o Dmx!OpenCalls)
                  ELSE ctl
    BY <1>5 DEF Dmx!setSubPid
  <2>2. /\ source' \in SourceRecords /\ source'.alive /\ source'.state = source.state
        /\ source'.handle = source.handle /\ source'.dmx = source.dmx
        /\ source'.demuxId = params.demuxId /\ source'.pid = p
    BY <1>2, <1>5, <2>1 DEF Owned, DemuxTyped, SourceRecords
  <2>3. source.dmx \in {Null, params.demuxId}
    BY DEF Owned, DemuxKnown
  <2>4. DemuxTyped' /\ DemuxKnown'
    BY <1>1, <1>2, <2>2, <2>3 DEF Owned, DemuxTyped, DemuxKnown
  <2>5. TheirOwn'
    BY <1>1, <1>5, <2>2, DevicesStay
  <2>6. CASE Dmx!Restarts(p)
    <3>1. ctl' = Dmx!Doing("restart", params.demuxId, SubSeq(OpeningList, FirstAt(6), 12))
      BY <2>1, <2>6, CallsToClose DEF Owned
    <3>2. ctl'.what = "restart" /\ ctl'.dev = params.demuxId /\ DOMAIN ctl' = {"what", "dev", "todo"}
      BY <3>1 DEF Dmx!Doing
    <3>0. PICK k \in 1 .. 12 : k = FirstAt(6)
      BY FirstCall DEF Owned
    <3>3. k \in {1, 4, 6} /\ (k # 6 => source.dmx # Null) /\ (k = 6 => source.dmx = Null)
      BY <3>0, FirstCall DEF Owned
    <3>4. ctl'.todo = SubSeq(OpeningList, k, 12)
      BY <3>0, <3>1 DEF Dmx!Doing
    <3>5. AtCall(OpeningList, k)'
      BY <3>3, <3>4, ListsOfCalls DEF AtCall
    <3>6. k = 6 => AllClosed'
      BY <1>1, <3>3, NoneOpen DEF AllClosed
    <3>7. OpensAt(k)'
      BY <2>2, <2>3, <2>6, <3>2, <3>3, <3>5, <3>6 DEF OpensAt, Dmx!Restarts
    <3> QED BY <1>1, <1>2, <1>3, <2>2, <3>2, <3>7, <2>4, <2>5 DEF AtItsCall, BusyAt, Owned
  <2>7. CASE ~Dmx!Restarts(p)
    <3>1. source.state = "started" => source.pid = p
      BY <2>7 DEF Dmx!Restarts
    <3>2. UNCHANGED ctl
      BY <2>1, <2>7
    <3>3. Resting'
      BY <1>1, <1>3, <2>2, <3>1, <3>2 DEF Resting, OwnPid
    <3> QED BY <2>4, <2>5, <3>3 DEF Owned, AtItsCall
  <2> QED BY <2>6, <2>7
<1> QED BY <1>4, <1>5

LEMMA SetsDemux ==
  ASSUME DemuxHypotheses, Owned, NEW d \in Demuxes, Dmx!setDemuxId(d)
  PROVE  Owned'
<1>1. /\ Dmx!Idle /\ ~source.alive /\ UNCHANGED <<device, source, ctl, aborted>>
      /\ params' = [params EXCEPT !.demuxId = d]
  BY DEF Dmx!setDemuxId, DemuxHypotheses
<1>2. source = Dmx!NoSource
  BY <1>1 DEF Owned, DemuxKnown
<1>3. DemuxTyped'
  BY <1>1 DEF Owned, DemuxTyped
<1>4. DemuxKnown'
  BY <1>1, <1>2 DEF DemuxKnown, Dmx!NoSource
<1>5. TheirOwn'
  BY <1>1, DevicesStay
<1>6. Resting
  BY <1>1, IdleRests
<1>7. AtItsCall'
  BY <1>1, <1>6 DEF AtItsCall, Resting, OwnPid
<1> QED BY <1>3, <1>4, <1>5, <1>7 DEF Owned

LEMMA FirstDemux ==
  ASSUME DemuxHypotheses
  PROVE  Dmx!DEMUX_SOURCE_ID \in Demuxes
<1>1. PICK d \in Demuxes : \A e \in Demuxes : d <= e
  BY LeastNumber DEF DemuxHypotheses
<1> QED BY <1>1 DEF Dmx!DEMUX_SOURCE_ID

LEMMA SourceStops ==
  ASSUME DemuxHypotheses, Owned, Dmx!stop
  PROVE  Owned'
<1>1. /\ Dmx!Idle /\ source.alive /\ source.state = "started"
      /\ source' = [source EXCEPT !.state = "stopped"]
      /\ ctl' = IF Dmx!CloseCalls = << >> THEN Dmx!Nothing
                ELSE Dmx!Doing("stop", Dmx!DEMUX_SOURCE_ID, Dmx!CloseCalls)
      /\ UNCHANGED <<device, params, aborted>>
  BY DEF Dmx!stop
<1>2. /\ source' \in SourceRecords /\ source'.alive /\ source'.state = "stopped"
      /\ source'.handle = source.handle /\ source'.dmx = source.dmx
      /\ source'.demuxId = source.demuxId
  BY <1>1 DEF Owned, DemuxTyped, SourceRecords
<1>3. DemuxTyped' /\ DemuxKnown'
  BY <1>1, <1>2 DEF Owned, DemuxTyped, DemuxKnown
<1>4. TheirOwn'
  BY <1>1, <1>2, DevicesStay
<1>5. CASE source.dmx = Null
  <2>1. ctl' = Dmx!Nothing
    BY <1>1, <1>5, CallsToClose DEF Owned
  <2> QED BY <1>2, <1>3, <1>4, <2>1 DEF Owned, AtItsCall, Resting, Dmx!Nothing, Dmx!Doing
<1>6. CASE source.dmx # Null
  <2>0. PICK k \in 1 .. 12 : k = FirstAt(6)
    BY FirstCall DEF Owned
  <2>1. Dmx!CloseCalls = SubSeq(ClosingList, k, 5) /\ k \in {1, 4}
    BY <1>6, <2>0, CallsToClose, FirstCall DEF Owned
  <2>2. SubSeq(ClosingList, k, 5) # << >>
    <3>1. k \in 1 .. Len(ClosingList) /\ 5 = Len(ClosingList)
      BY <2>1, ListsOfCalls
    <3>2. SubSeq(ClosingList, k, Len(ClosingList)) # << >>
      BY <3>1, ListsOfCalls, CallsLeft
    <3> QED BY <3>1, <3>2
  <2>3. ctl' = Dmx!Doing("stop", Dmx!DEMUX_SOURCE_ID, SubSeq(ClosingList, k, 5))
    BY <1>1, <2>1, <2>2
  <2>4. /\ ctl'.what = "stop" /\ ctl'.dev \in Demuxes /\ ctl'.todo = SubSeq(ClosingList, k, 5)
        /\ DOMAIN ctl' = {"what", "dev", "todo"}
    BY <2>3, FirstDemux DEF Dmx!Doing
  <2>5. StopsAt(k)'
    BY <1>2, <2>1, <2>4, ListsOfCalls DEF StopsAt, AtCall
  <2>6. ~aborted'
    BY <1>1 DEF Dmx!Idle
  <2> QED BY <1>2, <1>3, <1>4, <2>4, <2>5, <2>6 DEF Owned, AtItsCall, BusyAt
<1> QED BY <1>5, <1>6

LEMMA SourceEnds ==
  ASSUME DemuxHypotheses, Owned, Dmx!destroy
  PROVE  Owned'
<1>1. /\ Dmx!Idle /\ source.alive /\ source.state = "stopped"
      /\ ctl' = Dmx!Doing("destroy", source.demuxId, Dmx!CloseCalls \o <<"gone">>)
      /\ UNCHANGED <<device, source, params, aborted>>
  BY DEF Dmx!destroy, Dmx!ClosedAtLast
<1>2. DemuxTyped' /\ DemuxKnown'
  BY <1>1 DEF Owned, DemuxTyped, DemuxKnown
<1>3. TheirOwn'
  BY <1>1, DevicesStay
<1>0. PICK k \in 1 .. 12 : k = FirstAt(6)
  BY FirstCall DEF Owned
<1>4. k \in {1, 4, 6} /\ (k # 6 => source.dmx # Null) /\ (k = 6 => source.dmx = Null)
  BY <1>0, FirstCall DEF Owned
<1>5. ctl' = Dmx!Doing("destroy", source.demuxId, SubSeq(EndingList, k, 6))
  BY <1>0, <1>1, CallsToClose DEF Owned
<1>6. /\ ctl'.what = "destroy" /\ ctl'.dev = source.demuxId /\ ctl'.todo = SubSeq(EndingList, k, 6)
      /\ DOMAIN ctl' = {"what", "dev", "todo"}
  BY <1>5 DEF Dmx!Doing
<1>7. IF k < 6 THEN ctl'.dev = source'.dmx ELSE AllClosed'
  BY <1>1, <1>4, <1>6, NoneOpen DEF Owned, DemuxKnown, AllClosed
<1>8. EndsAt(k)'
  BY <1>1, <1>4, <1>6, <1>7, ListsOfCalls DEF EndsAt, AtCall
<1>9. ~aborted'
  BY <1>1 DEF Dmx!Idle
<1>10. (ctl'.dev \in Demuxes \/ (ctl'.what = "destroy" /\ ctl'.todo = SubSeq(EndingList, 6, 6)))
  BY <1>1, <1>4, <1>6 DEF Owned, DemuxTyped, DemuxKnown, SourceRecords
<1> QED BY <1>1, <1>2, <1>3, <1>6, <1>8, <1>9, <1>10 DEF Owned, AtItsCall, BusyAt

-----------------------------------------------------------------------------
(* The calls one by one.                                                   *)

CallFields == {"what", "dev", "todo"}

\* The list goes on with its next call, or is through.
CallsGoOn(list, k) ==
  IF k < Len(list)
  THEN /\ DOMAIN ctl' = CallFields /\ ctl'.what = ctl.what /\ ctl'.dev = ctl.dev
       /\ AtCall(list, k + 1)' /\ aborted' = FALSE
  ELSE ctl' = Dmx!Nothing /\ aborted' = (ctl.what = "restart")

LEMMA NextCall ==
  ASSUME NEW list \in CallLists, NEW k \in Nat, AtCall(list, k), DOMAIN ctl = CallFields
  PROVE  /\ \A x : Dmx!Call(x) => list[k] = x
         /\ Dmx!Ok => CallsGoOn(list, k)
<1>1. list \in Seq(CallNames) /\ k \in 1 .. Len(list) /\ Len(list) \in Nat
  BY ListsOfCalls DEF CallLists, AtCall
<1> DEFINE n == Len(list)
<1>2. ctl.todo = SubSeq(list, k, n)
  BY DEF AtCall
<1>3. /\ ctl.todo # << >> /\ Head(ctl.todo) = list[k]
      /\ k < n => Tail(ctl.todo) = SubSeq(list, k + 1, n) /\ Tail(ctl.todo) # << >>
      /\ k = n => Tail(ctl.todo) = << >>
  <2>1. /\ SubSeq(list, k, Len(list)) # << >>
        /\ Head(SubSeq(list, k, Len(list))) = list[k]
        /\ k < Len(list) => /\ Tail(SubSeq(list, k, Len(list))) = SubSeq(list, k + 1, Len(list))
                            /\ Tail(SubSeq(list, k, Len(list))) # << >>
        /\ k = Len(list) => Tail(SubSeq(list, k, Len(list))) = << >>
    BY <1>1, CallsLeft
  <2> QED BY <1>2, <2>1
<1>4. ASSUME Dmx!Ok PROVE CallsGoOn(list, k)
  <2>1. CASE k < n
    <3>1. ctl' = [ctl EXCEPT !.todo = SubSeq(list, k + 1, n)] /\ aborted' = FALSE
      BY <1>3, <1>4, <2>1 DEF Dmx!Ok, Dmx!Done
    <3>2. DOMAIN ctl' = CallFields /\ ctl'.what = ctl.what /\ ctl'.dev = ctl.dev
          /\ ctl'.todo = SubSeq(list, k + 1, n)
      BY <3>1 DEF CallFields
    <3>3. k + 1 \in 1 .. n
      BY <1>1, <2>1
    <3> QED BY <2>1, <3>1, <3>2, <3>3 DEF CallsGoOn, AtCall
  <2>2. CASE k = n
    BY <1>3, <1>4, <2>2 DEF Dmx!Ok, Dmx!Done, CallsGoOn
  <2> QED BY <1>1, <2>1, <2>2
<1>5. ASSUME NEW x, Dmx!Call(x) PROVE list[k] = x
  BY <1>3, <1>5 DEF Dmx!Call
<1> QED BY <1>4, <1>5

LEMMA NamesOfOpening ==
  \A k \in 1 .. 12 :
    /\ OpeningList[k] = "stop" <=> k = 1
    /\ OpeningList[k] = "free" <=> k = 2
    /\ OpeningList[k] = "nocallback" <=> k = 3
    /\ OpeningList[k] = "end" <=> k = 4
    /\ OpeningList[k] = "close" <=> k = 5
    /\ OpeningList[k] = "reset" <=> k = 6
    /\ OpeningList[k] = "open" <=> k = 7
    /\ OpeningList[k] = "allocate" <=> k = 8
    /\ OpeningList[k] = "buffer" <=> k = 9
    /\ OpeningList[k] = "filter" <=> k = 10
    /\ OpeningList[k] = "callback" <=> k = 11
    /\ OpeningList[k] = "start" <=> k = 12
    /\ OpeningList[k] # "gone"
BY DEF OpeningList

ClosingCalls == {"stop", "free", "nocallback", "end", "close"}

LEMMA NamesOfCalls ==
  /\ \A k \in 1 .. 5 : ClosingList[k] \in ClosingCalls
  /\ \A k \in 1 .. 6 : /\ EndingList[k] \in ClosingCalls \cup {"gone"}
                       /\ EndingList[k] = "gone" <=> k = 6
                       /\ EndingList[k] = "close" <=> k = 5
  /\ \A k \in 1 .. 3 : UndoingList[k] \in ClosingCalls
BY DEF ClosingList, EndingList, UndoingList, ClosingCalls

\* Somewhere in a method: its list and its next call.
LEMMA Underway ==
  ASSUME Owned, NEW x, Dmx!Call(x)
  PROVE  /\ ~aborted /\ source.alive /\ DOMAIN ctl = CallFields
         /\ ctl.dev \in Demuxes \/ (ctl.what = "destroy" /\ ctl.todo = SubSeq(EndingList, 6, 6))
         /\ \E k \in 1 .. 12 : BusyAt(k)
<1>1. ctl.todo # << >>
  BY DEF Dmx!Call
<1>2. ~Resting
  BY <1>1 DEF Resting, Dmx!Nothing, Dmx!Doing
<1> QED BY <1>2 DEF Owned, AtItsCall, CallFields

\* The calls that close go on whatever they find, in every method.
LEMMA CloseGoesOn ==
  ASSUME DemuxHypotheses, Owned, NEW x \in ClosingCalls, Dmx!Call(x), Dmx!Ok,
         UNCHANGED source, NoneEnabled => NoneEnabled',
         x = "close" /\ ctl.dev = source.dmx => AllClosed'
  PROVE  AtItsCall'
<1>1. /\ ~aborted /\ source.alive /\ DOMAIN ctl = CallFields
      /\ ctl.dev \in Demuxes \/ (ctl.what = "destroy" /\ ctl.todo = SubSeq(EndingList, 6, 6))
  BY Underway
<1>2. PICK k \in 1 .. 12 : BusyAt(k)
  BY Underway
<1>3. /\ ClosingList \in CallLists /\ EndingList \in CallLists /\ OpeningList \in CallLists /\ UndoingList \in CallLists
      /\ Len(ClosingList) = 5 /\ Len(EndingList) = 6 /\ Len(OpeningList) = 12 /\ Len(UndoingList) = 3
  BY ListsOfCalls DEF CallLists
<1>4. CASE StopsAt(k)
  <2>1. AtCall(ClosingList, k) /\ ctl.what = "stop" /\ source.state = "stopped"
    BY <1>4 DEF StopsAt
  <2>2. CallsGoOn(ClosingList, k) /\ ctl.dev \in Demuxes
    BY <1>1, <1>3, <2>1, NextCall
  <2>3. CASE k < 5
    <3>1. DOMAIN ctl' = CallFields /\ ctl'.dev \in Demuxes /\ ~aborted'
      BY <1>3, <2>2, <2>3 DEF CallsGoOn
    <3>2. StopsAt(k + 1)' /\ k + 1 \in 1 .. 12
      BY <1>3, <2>1, <2>2, <2>3 DEF CallsGoOn, StopsAt
    <3> QED BY <1>1, <3>1, <3>2 DEF AtItsCall, BusyAt, CallFields
  <2>4. CASE ~(k < 5)
    BY <1>3, <2>1, <2>2, <2>4 DEF CallsGoOn, AtItsCall, Resting
  <2> QED BY <2>3, <2>4
<1>5. CASE EndsAt(k)
  <2>1. /\ AtCall(EndingList, k) /\ ctl.what = "destroy" /\ source.state = "stopped"
        /\ k \in 1 .. 6 /\ (k < 6 => ctl.dev = source.dmx)
    BY <1>3, <1>5 DEF EndsAt, AtCall
  <2>2. CallsGoOn(EndingList, k) /\ EndingList[k] = x
    BY <1>1, <1>3, <2>1, NextCall
  <2>3. k # 6 /\ (k = 5 => x = "close")
    BY <2>1, <2>2, NamesOfCalls DEF ClosingCalls
  <2>4. /\ DOMAIN ctl' = CallFields /\ ctl'.what = "destroy" /\ ctl'.dev = ctl.dev
        /\ AtCall(EndingList, k + 1)' /\ ~aborted' /\ k + 1 \in 1 .. 6
    BY <1>3, <2>1, <2>2, <2>3 DEF CallsGoOn
  <2>5. IF k + 1 < 6 THEN ctl'.dev = source'.dmx ELSE AllClosed'
    BY <2>1, <2>3, <2>4
  <2>6. EndsAt(k + 1)'
    BY <2>1, <2>4, <2>5 DEF EndsAt
  <2>7. ctl'.dev \in Demuxes \/ (ctl'.what = "destroy" /\ ctl'.todo = SubSeq(EndingList, 6, 6))
    <3>1. k + 1 = 6 \/ ctl.dev \in Demuxes
      <4>1. SubSeq(EndingList, k, 6) = SubSeq(EndingList, 6, 6) => EndingList[k] = EndingList[6]
        <5>1. /\ k \in 1 .. Len(EndingList) /\ 6 \in 1 .. Len(EndingList) /\ 6 = Len(EndingList)
              /\ EndingList \in Seq(CallNames)
          BY <1>3, <2>1, ListsOfCalls
        <5>2. Head(SubSeq(EndingList, k, 6)) = EndingList[k]
          BY <5>1, CallsLeft
        <5>3. Head(SubSeq(EndingList, 6, 6)) = EndingList[6]
          BY <5>1, CallsLeft
        <5> QED BY <5>2, <5>3
      <4>2. ctl.todo = SubSeq(EndingList, k, 6)
        BY <1>3, <2>1 DEF AtCall
      <4>3. EndingList[k] # "gone" /\ EndingList[6] = "gone"
        BY <2>1, <2>3, NamesOfCalls
      <4> QED BY <1>1, <4>1, <4>2, <4>3
    <3>2. k + 1 = 6 => ctl'.todo = SubSeq(EndingList, 6, 6)
      BY <1>3, <2>4 DEF AtCall
    <3> QED BY <2>4, <3>1, <3>2
  <2>8. k + 1 \in 1 .. 12
    BY <2>4
  <2> QED BY <1>1, <2>1, <2>3, <2>4, <2>6, <2>7 DEF AtItsCall, BusyAt, CallFields
<1>6. CASE OpensAt(k)
  <2>1. /\ AtCall(OpeningList, k) /\ ctl.what \in {"start", "restart"} /\ source.state = "started"
        /\ ctl.dev = source.demuxId /\ (k # 6 => ctl.dev = source.dmx)
    BY <1>6 DEF OpensAt
  <2>2. CallsGoOn(OpeningList, k) /\ OpeningList[k] = x /\ ctl.dev \in Demuxes
    BY <1>1, <1>3, <2>1, NextCall
  <2>3. k \in 1 .. 5 /\ (k = 5 => x = "close")
    BY <2>2, NamesOfOpening DEF ClosingCalls
  <2>4. /\ DOMAIN ctl' = CallFields /\ ctl'.what = ctl.what /\ ctl'.dev = ctl.dev
        /\ AtCall(OpeningList, k + 1)' /\ ~aborted' /\ k + 1 \in 1 .. 6
    BY <1>3, <2>2, <2>3 DEF CallsGoOn
  <2>5. k + 1 = 6 => AllClosed'
    BY <2>1, <2>3
  <2>6. OpensAt(k + 1)'
    BY <2>1, <2>3, <2>4, <2>5 DEF OpensAt
  <2> QED BY <1>1, <2>2, <2>4, <2>6 DEF AtItsCall, BusyAt, CallFields
<1>7. CASE UndoesAt(k)
  <2>1. /\ AtCall(UndoingList, k) /\ ctl.what = "failed" /\ source.state = "started"
        /\ ctl.dev = source.dmx /\ NoneEnabled
    BY <1>7 DEF UndoesAt
  <2>2. CallsGoOn(UndoingList, k) /\ ctl.dev \in Demuxes
    BY <1>1, <1>3, <2>1, NextCall
  <2>3. NoneEnabled'
    BY <2>1
  <2>4. CASE k < 3
    <3>1. DOMAIN ctl' = CallFields /\ ctl'.dev \in Demuxes /\ ~aborted'
      BY <1>3, <2>2, <2>4 DEF CallsGoOn
    <3>2. UndoesAt(k + 1)' /\ k + 1 \in 1 .. 12
      BY <1>3, <2>1, <2>2, <2>3, <2>4 DEF CallsGoOn, UndoesAt
    <3> QED BY <1>1, <3>1, <3>2 DEF AtItsCall, BusyAt, CallFields
  <2>5. CASE ~(k < 3)
    BY <1>3, <2>1, <2>2, <2>3, <2>5 DEF CallsGoOn, AtItsCall, Resting, NoneEnabled, OwnPid
  <2> QED BY <2>4, <2>5
<1> QED BY <1>2, <1>4, <1>5, <1>6, <1>7 DEF BusyAt

\* A step of one device, which its source goes on to own.
LEMMA OneDevice ==
  ASSUME Owned, NEW id \in Demuxes, NEW d \in DeviceRecords,
         device' = [device EXCEPT ![id] = d],
         UNCHANGED source, OwnedBy(source, d, id)
  PROVE  /\ device' \in [Demuxes -> DeviceRecords] /\ TheirOwn'
         /\ device'[id] = d /\ \A e \in Demuxes : e # id => device'[e] = device[e]
<1>1. device \in [Demuxes -> DeviceRecords]
  BY DEF Owned, DemuxTyped
<1>2. /\ device' \in [Demuxes -> DeviceRecords] /\ device'[id] = d
      /\ \A e \in Demuxes : e # id => device'[e] = device[e]
  BY <1>1
<1>3. ASSUME NEW e \in Demuxes PROVE OwnedBy(source', device'[e], e)
  BY <1>2 DEF Owned, TheirOwn
<1> QED BY <1>2, <1>3 DEF TheirOwn

\* No filter is enabled that was not.
Quieter(d, e) == \A f \in Filters : e.filters[f].enable => d.filters[f].enable

LEMMA FilterFields ==
  ASSUME NEW d \in DeviceRecords, NEW f \in Filters
  PROVE  /\ d.filters[f] \in FilterRecords
         /\ d.count \in {0, 1} /\ d.enable \in BOOLEAN
         /\ d.filters \in [Filters -> FilterRecords]
BY DEF DeviceRecords

\* A device whose filter f is replaced.
Refiltered(d, f, x) == [d EXCEPT !.filters = [d.filters EXCEPT ![f] = x]]

LEMMA OneFilter ==
  ASSUME NEW d \in DeviceRecords, NEW f \in Filters, NEW x \in FilterRecords
  PROVE  LET e == Refiltered(d, f, x)
         IN /\ e \in DeviceRecords
            /\ e.count = d.count /\ e.thread = d.thread /\ e.cb = d.cb
            /\ e.filters[f] = x /\ \A g \in Filters : g # f => e.filters[g] = d.filters[g]
<1> DEFINE e == Refiltered(d, f, x)
<1>1. [d.filters EXCEPT ![f] = x] \in [Filters -> FilterRecords]
  BY DEF DeviceRecords
<1>2. /\ [d.filters EXCEPT ![f] = x][f] = x
      /\ \A g \in Filters : g # f => [d.filters EXCEPT ![f] = x][g] = d.filters[g]
  BY DEF DeviceRecords
<1> DEFINE fs == [d.filters EXCEPT ![f] = x]
<1>3. e = [d EXCEPT !.filters = fs]
  BY DEF Refiltered
<1> HIDE DEF fs, e
<1>4. /\ e \in DeviceRecords /\ e.filters = fs
      /\ e.count = d.count /\ e.thread = d.thread /\ e.cb = d.cb
  BY <1>1, <1>3 DEF DeviceRecords, fs
<1> QED BY <1>2, <1>4 DEF fs, e

\* What a call that closes makes of a device.
LEMMA StopsFilter ==
  ASSUME NEW s, NEW id, NEW d \in DeviceRecords, OwnedBy(s, d, id), NEW f
  PROVE  LET e == Dmx!DemuxStopFilter(d, f)
         IN e \in DeviceRecords /\ OwnedBy(s, e, id) /\ Quieter(d, e)
<1> DEFINE e == Dmx!DemuxStopFilter(d, f)
<1>1. CASE Dmx!Used(d, f)
  <2> DEFINE x == [d.filters[f] EXCEPT !.enable = FALSE]
  <2>1. f \in Filters /\ d.filters[f].used
    BY <1>1 DEF Dmx!Used
  <2>2. x \in FilterRecords /\ x.used /\ ~x.enable
    <3> DEFINE y == d.filters[f]
    <3>1. y \in FilterRecords /\ y.used
      BY <2>1, FilterFields
    <3>2. x = [y EXCEPT !.enable = FALSE]
      OBVIOUS
    <3> HIDE DEF x, y
    <3> QED BY <3>1, <3>2 DEF FilterRecords
  <2>3. e = Refiltered(d, f, x)
    BY <1>1 DEF Refiltered, Dmx!DemuxStopFilter
  <2> HIDE DEF x, e
  <2>4. /\ e \in DeviceRecords
        /\ e.count = d.count /\ e.thread = d.thread /\ e.cb = d.cb
        /\ e.filters[f] = x /\ \A g \in Filters : g # f => e.filters[g] = d.filters[g]
    BY <2>1, <2>2, <2>3, OneFilter
  <2>5. OwnedBy(s, e, id) /\ Quieter(d, e)
    BY <2>1, <2>2, <2>4 DEF OwnedBy, TidyDevice, Quieter
  <2> QED BY <2>4, <2>5 DEF e
<1>2. CASE ~Dmx!Used(d, f)
  <2>1. e = d
    BY <1>2 DEF Dmx!DemuxStopFilter
  <2> HIDE DEF e
  <2> QED BY <2>1 DEF Quieter, e
<1> QED BY <1>1, <1>2

LEMMA FreesFilter ==
  ASSUME NEW s, NEW id, NEW d \in DeviceRecords, OwnedBy(s, d, id), NEW f
  PROVE  LET e == Dmx!DemuxFreeFilter(d, f)
         IN e \in DeviceRecords /\ OwnedBy(s, e, id) /\ Quieter(d, e)
<1> DEFINE e == Dmx!DemuxFreeFilter(d, f)
<1>1. CASE Dmx!Used(d, f)
  <2> DEFINE x == Dmx!FreedFilter(d.filters[f])
  <2>1. f \in Filters /\ d.filters[f].used
    BY <1>1 DEF Dmx!Used
  <2>2. x \in FilterRecords /\ ~x.used /\ ~x.enable
    <3> DEFINE y == d.filters[f]
    <3>1. y \in FilterRecords /\ y.used
      BY <2>1, FilterFields
    <3>2. x = [y EXCEPT !.enable = FALSE, !.used = FALSE]
      BY <2>1 DEF Dmx!FreedFilter
    <3> HIDE DEF x, y
    <3> QED BY <3>1, <3>2 DEF FilterRecords
  <2>3. e = Refiltered(d, f, x)
    BY <1>1 DEF Refiltered, Dmx!DemuxFreeFilter
  <2> HIDE DEF x, e
  <2>4. /\ e \in DeviceRecords
        /\ e.count = d.count /\ e.thread = d.thread /\ e.cb = d.cb
        /\ e.filters[f] = x /\ \A g \in Filters : g # f => e.filters[g] = d.filters[g]
    BY <2>1, <2>2, <2>3, OneFilter
  <2>5. OwnedBy(s, e, id) /\ Quieter(d, e)
    BY <2>1, <2>2, <2>4 DEF OwnedBy, TidyDevice, Quieter
  <2> QED BY <2>4, <2>5 DEF e
<1>2. CASE ~Dmx!Used(d, f)
  <2>1. e = d
    BY <1>2 DEF Dmx!DemuxFreeFilter
  <2> HIDE DEF e
  <2> QED BY <2>1 DEF Quieter, e
<1> QED BY <1>1, <1>2

LEMMA SetsCallback ==
  ASSUME NEW s, NEW id, NEW d \in DeviceRecords, OwnedBy(s, d, id), NEW f,
         NEW cb \in {"pes_data_cb", Null}
  PROVE  LET e == Dmx!DemuxSetCallback(d, f, cb)
         IN /\ e \in DeviceRecords /\ OwnedBy(s, e, id) /\ Quieter(d, e)
            /\ \A g \in Filters : e.filters[g].pid = d.filters[g].pid
<1> DEFINE e == Dmx!DemuxSetCallback(d, f, cb)
<1>1. CASE Dmx!Used(d, f)
  <2> DEFINE x == [d.filters[f] EXCEPT !.cb = cb]
  <2>1. f \in Filters /\ d.filters[f].used
    BY <1>1 DEF Dmx!Used
  <2>2. /\ x \in FilterRecords /\ x.used /\ x.enable = d.filters[f].enable
        /\ x.pid = d.filters[f].pid
    BY <2>1, FilterFields DEF FilterRecords
  <2>3. e = Refiltered(d, f, x)
    BY <1>1 DEF Refiltered, Dmx!DemuxSetCallback
  <2> HIDE DEF x, e
  <2>4. /\ e \in DeviceRecords
        /\ e.count = d.count /\ e.thread = d.thread /\ e.cb = d.cb
        /\ e.filters[f] = x /\ \A g \in Filters : g # f => e.filters[g] = d.filters[g]
    BY <2>1, <2>2, <2>3, OneFilter
  <2>5. OwnedBy(s, e, id) /\ Quieter(d, e) /\ \A g \in Filters : e.filters[g].pid = d.filters[g].pid
    BY <2>1, <2>2, <2>4 DEF OwnedBy, TidyDevice, Quieter
  <2> QED BY <2>4, <2>5 DEF e
<1>2. CASE ~Dmx!Used(d, f)
  <2>1. e = d
    BY <1>2 DEF Dmx!DemuxSetCallback
  <2> HIDE DEF e
  <2> QED BY <2>1 DEF Quieter, e
<1> QED BY <1>1, <1>2

LEMMA AsksToEnd ==
  ASSUME NEW s, NEW id, NEW d \in DeviceRecords, OwnedBy(s, d, id)
  PROVE  LET e == Dmx!AskToEnd(d)
         IN e \in DeviceRecords /\ OwnedBy(s, e, id) /\ Quieter(d, e)
<1> DEFINE e == Dmx!AskToEnd(d)
<1>1. /\ e \in DeviceRecords /\ e.count = d.count /\ e.thread = d.thread
      /\ e.cb = d.cb /\ e.filters = d.filters
  BY DEF Dmx!AskToEnd, DeviceRecords
<1> HIDE DEF e
<1> QED BY <1>1 DEF OwnedBy, TidyDevice, Quieter, e

LEMMA ClosesDevice ==
  ASSUME NEW s, NEW id, NEW d \in DeviceRecords, OwnedBy(s, d, id), d.count # 0, Dmx!Joined(d)
  PROVE  LET e == Dmx!DemuxClose(d)
         IN e \in DeviceRecords /\ OwnedBy(s, e, id) /\ Quieter(d, e) /\ e.count = 0
<1> DEFINE e == Dmx!DemuxClose(d)
           fs == [f \in Filters |-> Dmx!FreedFilter(d.filters[f])]
<1>1. d.count = 1 /\ d.thread = "ended"
  BY DEF DeviceRecords, Dmx!Joined
<1>2. \A f \in Filters : /\ Dmx!FreedFilter(d.filters[f]) \in FilterRecords
                         /\ ~Dmx!FreedFilter(d.filters[f]).used
                         /\ ~Dmx!FreedFilter(d.filters[f]).enable
  <2> TAKE f \in Filters
  <2>1. d.filters[f] \in FilterRecords /\ (d.filters[f].enable => d.filters[f].used)
    BY FilterFields DEF OwnedBy, TidyDevice
  <2> QED BY <2>1 DEF FilterRecords, Dmx!FreedFilter
<1>3. fs \in [Filters -> FilterRecords] /\ \A f \in Filters : ~fs[f].used /\ ~fs[f].enable
  BY <1>2
<1>4. e = [d EXCEPT !.count = 0, !.thread = "none", !.filters = fs]
  BY <1>1 DEF Dmx!DemuxClose
<1> HIDE DEF e, fs
<1>5. /\ e \in DeviceRecords /\ e.count = 0 /\ e.thread = "none" /\ e.cb = d.cb
      /\ e.filters = fs
  BY <1>3, <1>4 DEF DeviceRecords
<1>6. OwnedBy(s, e, id)
  BY <1>1, <1>3, <1>5 DEF OwnedBy, TidyDevice
<1>7. Quieter(d, e)
  BY <1>3, <1>5 DEF Quieter
<1> QED BY <1>5, <1>6, <1>7 DEF e

LEMMA DeviceThere ==
  ASSUME Owned, NEW x \in CallNames \ {"gone"}, Dmx!Call(x)
  PROVE  ctl.dev \in Demuxes /\ Dmx!Dev \in DeviceRecords
         /\ OwnedBy(source, Dmx!Dev, ctl.dev)
<1>1. ASSUME ctl.todo = SubSeq(EndingList, 6, 6) PROVE FALSE
  <2>1. 6 \in 1 .. Len(EndingList) /\ 6 = Len(EndingList) /\ EndingList \in Seq(CallNames)
    BY ListsOfCalls
  <2>2. Head(SubSeq(EndingList, 6, 6)) = EndingList[6]
    BY <2>1, CallsLeft
  <2>3. EndingList[6] = "gone"
    BY NamesOfCalls
  <2> QED BY <1>1, <2>2, <2>3 DEF Dmx!Call
<1>2. ctl.dev \in Demuxes
  BY <1>1, Underway
<1> QED BY <1>2 DEF Owned, DemuxTyped, TheirOwn, Dmx!Dev

\* A call that closes makes the device d of its device.
LEMMA ClosingStep ==
  ASSUME DemuxHypotheses, Owned, NEW x \in ClosingCalls, Dmx!Call(x), Dmx!Ok, Dmx!Same,
         UNCHANGED source, NEW d \in DeviceRecords,
         device' = [device EXCEPT ![ctl.dev] = d],
         OwnedBy(source, d, ctl.dev), Quieter(Dmx!Dev, d),
         x = "close" => d.count = 0
  PROVE  Owned'
<1>1. ctl.dev \in Demuxes /\ ~aborted
  BY DeviceThere, Underway DEF ClosingCalls, CallNames
<1>2. PICK id \in Demuxes : id = ctl.dev
  BY <1>1
<1>3. /\ device' \in [Demuxes -> DeviceRecords] /\ TheirOwn'
      /\ device'[id] = d /\ \A e \in Demuxes : e # id => device'[e] = device[e]
  BY <1>2, OneDevice
<1>4. NoneEnabled => NoneEnabled'
  <2> SUFFICES ASSUME NoneEnabled, NEW e \in Demuxes, NEW f \in Filters
               PROVE  ~device'[e].filters[f].enable
    BY DEF NoneEnabled
  <2> QED BY <1>2, <1>3 DEF Quieter, NoneEnabled, Dmx!Dev
<1>5. x = "close" /\ ctl.dev = source.dmx => AllClosed'
  <2> SUFFICES ASSUME x = "close", ctl.dev = source.dmx, NEW e \in Demuxes
               PROVE  device'[e].count = 0
    BY DEF AllClosed
  <2> QED BY <1>2, <1>3 DEF Owned, TheirOwn, OwnedBy
<1>6. AtItsCall'
  BY <1>4, <1>5, CloseGoesOn
<1>7. aborted' \in BOOLEAN
  BY DEF Dmx!Ok, Dmx!Done
<1> QED BY <1>3, <1>6, <1>7 DEF Owned, DemuxTyped, DemuxKnown, Dmx!Same

\* The device stays as it is where it is not open.
LEMMA SameDevice ==
  ASSUME Owned, ctl.dev \in Demuxes, UNCHANGED device
  PROVE  device' = [device EXCEPT ![ctl.dev] = Dmx!Dev]
BY DEF Owned, DemuxTyped, Dmx!Dev

\* The same where the call does nothing to a device that is not open.
LEMMA ClosingCall ==
  ASSUME DemuxHypotheses, Owned, NEW x \in ClosingCalls, Dmx!Call(x), Dmx!Ok, Dmx!Same,
         UNCHANGED source, NEW e,
         device' = IF Dmx!Opened(Dmx!Dev) THEN [device EXCEPT ![ctl.dev] = e] ELSE device,
         Dmx!Opened(Dmx!Dev) => /\ e \in DeviceRecords /\ OwnedBy(source, e, ctl.dev)
                                /\ Quieter(Dmx!Dev, e) /\ (x = "close" => e.count = 0)
  PROVE  Owned'
<1> DEFINE d == Dmx!Dev
<1>1. ctl.dev \in Demuxes /\ d \in DeviceRecords /\ OwnedBy(source, d, ctl.dev)
  BY DeviceThere DEF ClosingCalls, CallNames
<1>2. Dmx!Opened(d) <=> d.count > 0
  BY DEF Dmx!Opened
<1> HIDE DEF d
<1>3. CASE Dmx!Opened(d)
  <2>1. device' = [device EXCEPT ![ctl.dev] = e]
    BY <1>3 DEF d
  <2> QED BY <1>3, <2>1, ClosingStep DEF d
<1>4. CASE ~Dmx!Opened(d)
  <2>1. device' = [device EXCEPT ![ctl.dev] = d]
    BY <1>1, <1>4, SameDevice DEF d
  <2>2. Quieter(d, d) /\ d.count = 0
    BY <1>1, <1>2, <1>4 DEF Quieter, DeviceRecords
  <2> QED BY <1>1, <2>1, <2>2, ClosingStep DEF d
<1> QED BY <1>3, <1>4

LEMMA ClosingCallsOwned ==
  ASSUME DemuxHypotheses, Owned,
         \/ Dmx!stopFilter \/ Dmx!freeFilter \/ Dmx!askToEnd \/ Dmx!close
         \/ Dmx!setCallback /\ Dmx!Call("nocallback")
  PROVE  Owned'
<1> DEFINE d == Dmx!Dev
<1>1. \A x \in ClosingCalls : Dmx!Call(x) => d \in DeviceRecords /\ OwnedBy(source, d, ctl.dev)
  BY DeviceThere DEF ClosingCalls, CallNames
<1>2. {"stop", "free", "nocallback", "end", "close"} = ClosingCalls
  BY DEF ClosingCalls
<1> HIDE DEF d
<1>3. CASE Dmx!stopFilter
  <2> DEFINE e == Dmx!DemuxStopFilter(d, source.handle)
  <2>1. /\ Dmx!Call("stop") /\ Dmx!Ok /\ Dmx!Same /\ UNCHANGED source
        /\ device' = IF Dmx!Opened(d) THEN [device EXCEPT ![ctl.dev] = e] ELSE device
    BY <1>3 DEF Dmx!stopFilter, d
  <2>2. e \in DeviceRecords /\ OwnedBy(source, e, ctl.dev) /\ Quieter(d, e)
    BY <1>1, <1>2, <2>1, StopsFilter
  <2> HIDE DEF e
  <2> QED BY <1>2, <2>1, <2>2, ClosingCall DEF d
<1>4. CASE Dmx!freeFilter
  <2> DEFINE e == Dmx!DemuxFreeFilter(d, source.handle)
  <2>1. /\ Dmx!Call("free") /\ Dmx!Ok /\ Dmx!Same /\ UNCHANGED source
        /\ device' = IF Dmx!Opened(d) THEN [device EXCEPT ![ctl.dev] = e] ELSE device
    BY <1>4 DEF Dmx!freeFilter, d
  <2>2. e \in DeviceRecords /\ OwnedBy(source, e, ctl.dev) /\ Quieter(d, e)
    BY <1>1, <1>2, <2>1, FreesFilter
  <2> HIDE DEF e
  <2> QED BY <1>2, <2>1, <2>2, ClosingCall DEF d
<1>5. CASE Dmx!askToEnd
  <2> DEFINE e == Dmx!AskToEnd(d)
  <2>1. /\ Dmx!Call("end") /\ Dmx!Ok /\ Dmx!Same /\ UNCHANGED source
        /\ device' = IF Dmx!Opened(d) THEN [device EXCEPT ![ctl.dev] = e] ELSE device
    BY <1>5 DEF Dmx!askToEnd, d
  <2>2. e \in DeviceRecords /\ OwnedBy(source, e, ctl.dev) /\ Quieter(d, e)
    BY <1>1, <1>2, <2>1, AsksToEnd
  <2> HIDE DEF e
  <2> QED BY <1>2, <2>1, <2>2, ClosingCall DEF d
<1>6. CASE Dmx!close
  <2> DEFINE e == Dmx!DemuxClose(d)
  <2>1. /\ Dmx!Call("close") /\ Dmx!Ok /\ Dmx!Same /\ UNCHANGED source
        /\ device' = IF Dmx!Opened(d) THEN [device EXCEPT ![ctl.dev] = e] ELSE device
        /\ Dmx!Opened(d) => Dmx!Joined(d)
    BY <1>6 DEF Dmx!close, d
  <2>2. Dmx!Opened(d) => /\ e \in DeviceRecords /\ OwnedBy(source, e, ctl.dev) /\ Quieter(d, e)
                         /\ e.count = 0
    <3>1. Dmx!Opened(d) => d.count # 0
      BY DEF Dmx!Opened
    <3> QED BY <1>1, <1>2, <2>1, <3>1, ClosesDevice
  <2> HIDE DEF e
  <2> QED BY <1>2, <2>1, <2>2, ClosingCall DEF d
<1>7. CASE Dmx!setCallback /\ Dmx!Call("nocallback")
  <2> DEFINE e == Dmx!DemuxSetCallback(d, source.handle, Null)
  <2>1. /\ Dmx!Call("nocallback") /\ Dmx!Ok /\ Dmx!Same /\ UNCHANGED source
        /\ device' = IF Dmx!Opened(d) THEN [device EXCEPT ![ctl.dev] = e] ELSE device
    <3>1. ~Dmx!Call("callback")
      BY <1>7 DEF Dmx!Call
    <3> QED BY <1>7, <3>1 DEF Dmx!setCallback, d
  <2>2. e \in DeviceRecords /\ OwnedBy(source, e, ctl.dev) /\ Quieter(d, e)
    BY <1>1, <1>2, <2>1, SetsCallback
  <2> HIDE DEF e
  <2> QED BY <1>2, <2>1, <2>2, ClosingCall DEF d
<1> QED BY <1>3, <1>4, <1>5, <1>6, <1>7

OpenNames == {"reset", "open", "allocate", "buffer", "filter", "callback", "start"}

LEMMA OpeningAt ==
  ASSUME DemuxHypotheses, Owned, NEW x \in OpenNames, Dmx!Call(x)
  PROVE  /\ ~aborted /\ source.alive /\ DOMAIN ctl = CallFields /\ ctl.dev \in Demuxes
         /\ \E k \in 6 .. 12 : OpensAt(k) /\ OpeningList[k] = x /\ (Dmx!Ok => CallsGoOn(OpeningList, k))
<1>1. ~aborted /\ source.alive /\ DOMAIN ctl = CallFields /\ ctl.dev \in Demuxes
  BY Underway, DeviceThere DEF OpenNames, CallNames
<1>2. PICK k \in 1 .. 12 : BusyAt(k)
  BY Underway
<1>3. /\ ClosingList \in CallLists /\ EndingList \in CallLists /\ OpeningList \in CallLists /\ UndoingList \in CallLists
      /\ Len(ClosingList) = 5 /\ Len(EndingList) = 6 /\ Len(OpeningList) = 12 /\ Len(UndoingList) = 3
  BY ListsOfCalls DEF CallLists
<1>4. x \notin ClosingCalls /\ x # "gone"
  BY DEF ClosingCalls, OpenNames
<1>5. ~StopsAt(k)
  <2> SUFFICES ASSUME StopsAt(k) PROVE FALSE
    OBVIOUS
  <2>1. AtCall(ClosingList, k)
    BY DEF StopsAt
  <2>2. ClosingList[k] = x
    BY <1>1, <1>3, <2>1, NextCall
  <2>3. k \in 1 .. 5
    BY <1>3, <2>1 DEF AtCall
  <2> QED BY <1>4, <2>2, <2>3, NamesOfCalls
<1>6. ~EndsAt(k)
  <2> SUFFICES ASSUME EndsAt(k) PROVE FALSE
    OBVIOUS
  <2>1. AtCall(EndingList, k)
    BY DEF EndsAt
  <2>2. EndingList[k] = x
    BY <1>1, <1>3, <2>1, NextCall
  <2>3. k \in 1 .. 6
    BY <1>3, <2>1 DEF AtCall
  <2> QED BY <1>4, <2>2, <2>3, NamesOfCalls
<1>7. ~UndoesAt(k)
  <2> SUFFICES ASSUME UndoesAt(k) PROVE FALSE
    OBVIOUS
  <2>1. AtCall(UndoingList, k)
    BY DEF UndoesAt
  <2>2. UndoingList[k] = x
    BY <1>1, <1>3, <2>1, NextCall
  <2>3. k \in 1 .. 3
    BY <1>3, <2>1 DEF AtCall
  <2> QED BY <1>4, <2>2, <2>3, NamesOfCalls
<1>8. OpensAt(k)
  BY <1>2, <1>5, <1>6, <1>7 DEF BusyAt
<1>9. OpeningList[k] = x /\ (Dmx!Ok => CallsGoOn(OpeningList, k))
  BY <1>1, <1>3, <1>8, NextCall DEF OpensAt
<1>10. k \in 6 .. 12
  <2>1. k \notin 1 .. 5
    BY <1>4, <1>9, NamesOfOpening DEF ClosingCalls
  <2> QED BY <2>1
<1> QED BY <1>1, <1>8, <1>9, <1>10

LEMMA OpenGoesOn ==
  ASSUME Owned, ~aborted, source.alive, ctl.dev \in Demuxes,
         NEW k \in 6 .. 11, OpensAt(k), CallsGoOn(OpeningList, k),
         source'.alive, source'.state = source.state, source'.demuxId = source.demuxId,
         source'.dmx = ctl.dev, NoneEnabled', k = 6 => AllClosed',
         k \in {6, 7} => source'.handle = Null,
         k >= 10 /\ source'.handle # Null
           => device'[ctl.dev].filters[source'.handle].pid = source'.pid
  PROVE  AtItsCall'
<1>1. /\ DOMAIN ctl' = CallFields /\ ctl'.what = ctl.what /\ ctl'.dev = ctl.dev
      /\ AtCall(OpeningList, k + 1)' /\ ~aborted' /\ k + 1 \in 7 .. 12
  BY ListsOfCalls DEF CallsGoOn
<1>2. ctl.what \in {"start", "restart"} /\ source.state = "started" /\ ctl.dev = source.demuxId
  BY DEF OpensAt
<1>3. k + 1 > 10 => k >= 10
  OBVIOUS
<1>4. k + 1 \in {7, 8} => k \in {6, 7}
  OBVIOUS
<1>5. k + 1 \in {6, 7} => k = 6
  OBVIOUS
<1>6. OpensAt(k + 1)'
  BY <1>1, <1>2, <1>3, <1>4, <1>5 DEF OpensAt
<1>7. k + 1 \in 1 .. 12
  OBVIOUS
<1> QED BY <1>1, <1>6, <1>7 DEF AtItsCall, BusyAt, CallFields

LEMMA FailsAt ==
  ASSUME DemuxHypotheses, Owned, ~aborted, source.alive, ctl.dev \in Demuxes, DOMAIN ctl = CallFields,
         NEW k \in 7 .. 12, OpensAt(k), Dmx!Failed, UNCHANGED <<device, source>>, Dmx!Same
  PROVE  Owned'
<1>1. ctl' = [ctl EXCEPT !.what = "failed", !.todo = Dmx!UndoCalls] /\ UNCHANGED aborted
  BY DEF Dmx!Failed
<1>2. \E j \in 1 .. 3 : Dmx!UndoCalls = SubSeq(UndoingList, j, 3)
  BY ListParts DEF Dmx!UndoCalls
<1>3. PICK j \in 1 .. 3 : Dmx!UndoCalls = SubSeq(UndoingList, j, 3)
  BY <1>2
<1>4. /\ DOMAIN ctl' = CallFields /\ ctl'.what = "failed" /\ ctl'.dev = ctl.dev
      /\ ctl'.todo = SubSeq(UndoingList, j, 3)
  BY <1>1, <1>3 DEF CallFields
<1>5. AtCall(UndoingList, j)'
  BY <1>4, ListsOfCalls DEF AtCall
<1>6. source.state = "started" /\ ctl.dev = source.dmx /\ NoneEnabled
  BY DEF OpensAt
<1>7. UndoesAt(j)'
  BY <1>4, <1>5, <1>6 DEF UndoesAt, NoneEnabled
<1>8. AtItsCall'
  BY <1>1, <1>4, <1>7 DEF AtItsCall, BusyAt, CallFields
<1>9. TheirOwn'
  BY DevicesStay
<1> QED BY <1>1, <1>8, <1>9 DEF Owned, DemuxTyped, DemuxKnown, Dmx!Same

\* A call of an opening source that makes the device d of its device.
LEMMA OpeningStep ==
  ASSUME DemuxHypotheses, Owned, ~aborted, source.alive, ctl.dev \in Demuxes,
         NEW k \in 7 .. 11, OpensAt(k), CallsGoOn(OpeningList, k), Dmx!Same, UNCHANGED source,
         NEW d \in DeviceRecords, device' = [device EXCEPT ![ctl.dev] = d],
         OwnedBy(source, d, ctl.dev), Quieter(Dmx!Dev, d),
         k >= 10 /\ source.handle # Null => d.filters[source.handle].pid = source.pid
  PROVE  Owned'
<1>1. PICK id \in Demuxes : id = ctl.dev
  OBVIOUS
<1>2. /\ device' \in [Demuxes -> DeviceRecords] /\ TheirOwn'
      /\ device'[id] = d /\ \A e \in Demuxes : e # id => device'[e] = device[e]
  BY <1>1, OneDevice
<1>3. NoneEnabled /\ source.dmx = ctl.dev /\ (k = 7 => source.handle = Null)
  BY DEF OpensAt
<1>4. NoneEnabled'
  <2> SUFFICES ASSUME NEW e \in Demuxes, NEW f \in Filters
               PROVE  ~device'[e].filters[f].enable
    BY DEF NoneEnabled
  <2> QED BY <1>1, <1>2, <1>3 DEF Quieter, NoneEnabled, Dmx!Dev
<1>5. AtItsCall'
  BY <1>1, <1>2, <1>3, <1>4, OpenGoesOn
<1>6. aborted' = FALSE
  BY ListsOfCalls DEF CallsGoOn
<1> QED BY <1>2, <1>5, <1>6 DEF Owned, DemuxTyped, DemuxKnown, Dmx!Same

LEMMA OpensDevice ==
  ASSUME DemuxHypotheses, Owned, Dmx!open
  PROVE  Owned'
<1> DEFINE d == Dmx!Dev
           e == Dmx!DemuxOpen(d)
<1>1. /\ Dmx!Call("open") /\ Dmx!Same /\ UNCHANGED source
      /\ \/ device' = [device EXCEPT ![ctl.dev] = e] /\ Dmx!Ok
         \/ Dmx!Failed /\ UNCHANGED device
  BY DEF Dmx!open
<1>2. "open" \in OpenNames /\ "open" \in CallNames \ {"gone"}
  BY DEF OpenNames, CallNames
<1>3. /\ ~aborted /\ source.alive /\ DOMAIN ctl = CallFields /\ ctl.dev \in Demuxes
      /\ \E k \in 6 .. 12 : OpensAt(k) /\ OpeningList[k] = "open" /\ (Dmx!Ok => CallsGoOn(OpeningList, k))
  BY <1>1, <1>2, OpeningAt
<1>4. OpensAt(7) /\ (Dmx!Ok => CallsGoOn(OpeningList, 7))
  BY <1>3, NamesOfOpening
<1>5. d \in DeviceRecords /\ OwnedBy(source, d, ctl.dev) /\ d.count = 0 /\ source.dmx = ctl.dev
  BY <1>1, <1>2, <1>3, <1>4, DeviceThere DEF OpensAt, AllClosed, Dmx!Dev
<1>6. e = [d EXCEPT !.count = 1, !.enable = TRUE, !.thread = "poll"]
  BY <1>5 DEF Dmx!DemuxOpen, Dmx!Opened
<1> HIDE DEF d, e
<1>7. /\ e \in DeviceRecords /\ e.filters = d.filters /\ e.cb = d.cb /\ e.count = 1
      /\ e.thread = "poll"
  BY <1>5, <1>6 DEF DeviceRecords
<1>8. OwnedBy(source, e, ctl.dev) /\ Quieter(d, e)
  BY <1>3, <1>5, <1>7 DEF OwnedBy, TidyDevice, Quieter
<1>9. CASE device' = [device EXCEPT ![ctl.dev] = e] /\ Dmx!Ok
  <2>1. 7 \in 7 .. 11 /\ ~(7 >= 10)
    OBVIOUS
  <2>2. /\ OpensAt(7) /\ CallsGoOn(OpeningList, 7) /\ Dmx!Same /\ UNCHANGED source
        /\ device' = [device EXCEPT ![ctl.dev] = e]
        /\ e \in DeviceRecords /\ OwnedBy(source, e, ctl.dev) /\ Quieter(Dmx!Dev, e)
    BY <1>1, <1>4, <1>7, <1>8, <1>9 DEF d
  <2> QED BY ONLY DemuxHypotheses, Owned, <1>3, <2>1, <2>2, OpeningStep
<1>10. CASE Dmx!Failed /\ UNCHANGED device
  BY <1>1, <1>3, <1>4, <1>10, FailsAt
<1> QED BY <1>1, <1>9, <1>10

LEMMA FreeFilterThere ==
  ASSUME DemuxHypotheses, NEW d, Dmx!Unused(d) # {}
  PROVE  Dmx!FirstFree(d) \in Filters /\ ~d.filters[Dmx!FirstFree(d)].used
<1>1. Dmx!Unused(d) \in SUBSET Nat
  BY DEF DemuxHypotheses, Dmx!Unused
<1>2. PICK f \in Dmx!Unused(d) : \A g \in Dmx!Unused(d) : f <= g
  BY <1>1, LeastNumber
<1>3. Dmx!FirstFree(d) \in Dmx!Unused(d)
  BY <1>2 DEF Dmx!FirstFree
<1> QED BY <1>3 DEF Dmx!Unused

LEMMA Allocates ==
  ASSUME DemuxHypotheses, Owned, Dmx!allocate
  PROVE  Owned'
<1> DEFINE d == Dmx!Dev
           e == Dmx!DemuxAllocateFilter(d)
           f == Dmx!FirstFree(d)
<1>1. /\ Dmx!Call("allocate") /\ Dmx!Same
      /\ \/ /\ Dmx!Opened(d) /\ Dmx!Unused(d) # {}
            /\ device' = [device EXCEPT ![ctl.dev] = e]
            /\ source' = [source EXCEPT !.handle = f] /\ Dmx!Ok
         \/ Dmx!Failed /\ UNCHANGED <<device, source>>
  BY DEF Dmx!allocate
<1>2. "allocate" \in OpenNames /\ "allocate" \in CallNames \ {"gone"}
  BY DEF OpenNames, CallNames
<1>3. /\ ~aborted /\ source.alive /\ DOMAIN ctl = CallFields /\ ctl.dev \in Demuxes
      /\ \E k \in 6 .. 12 : OpensAt(k) /\ OpeningList[k] = "allocate" /\ (Dmx!Ok => CallsGoOn(OpeningList, k))
  BY <1>1, <1>2, OpeningAt
<1>4. OpensAt(8) /\ (Dmx!Ok => CallsGoOn(OpeningList, 8))
  BY <1>3, NamesOfOpening
<1>5. CASE /\ Dmx!Opened(d) /\ Dmx!Unused(d) # {}
           /\ device' = [device EXCEPT ![ctl.dev] = e]
           /\ source' = [source EXCEPT !.handle = f] /\ Dmx!Ok
  <2>1. d \in DeviceRecords /\ OwnedBy(source, d, ctl.dev)
    BY <1>1, <1>2, DeviceThere
  <2>2. f \in Filters /\ ~d.filters[f].used
    BY <1>5, FreeFilterThere
  <2> DEFINE x == [d.filters[f] EXCEPT !.used = TRUE]
  <2>3. e = Refiltered(d, f, x)
    BY DEF Dmx!DemuxAllocateFilter, Refiltered
  <2>4. x \in FilterRecords /\ x.used /\ x.enable = d.filters[f].enable
    BY <2>1, <2>2, FilterFields DEF FilterRecords
  <2> HIDE DEF d, e, f, x
  <2>5. /\ e \in DeviceRecords
        /\ e.count = d.count /\ e.thread = d.thread /\ e.cb = d.cb
        /\ e.filters[f] = x /\ \A g \in Filters : g # f => e.filters[g] = d.filters[g]
    BY <2>1, <2>2, <2>3, <2>4, OneFilter
  <2>6. source.handle = Null /\ source.dmx = ctl.dev /\ NoneEnabled /\ source.state = "started"
    BY <1>4 DEF OpensAt
  <2>7. /\ source' \in SourceRecords /\ source'.alive /\ source'.state = source.state
        /\ source'.demuxId = source.demuxId /\ source'.dmx = source.dmx
        /\ source'.handle = f /\ source'.pid = source.pid
    BY <1>3, <1>5, <2>2 DEF Owned, DemuxTyped, SourceRecords
  <2>8. d.count # 0
    BY <1>5 DEF Dmx!Opened
  <2>9. \A g \in Filters : ~d.filters[g].used
    BY <2>1, <2>6 DEF OwnedBy, DemuxHypotheses
  <2>10. OwnedBy(source', e, ctl.dev) /\ Quieter(d, e)
    BY <2>1, <2>2, <2>4, <2>5, <2>6, <2>7, <2>8, <2>9 DEF OwnedBy, TidyDevice, Quieter
  <2>11. PICK id \in Demuxes : id = ctl.dev
    BY <1>3
  <2>12. /\ device' \in [Demuxes -> DeviceRecords] /\ device'[id] = e
         /\ \A g \in Demuxes : g # id => device'[g] = device[g]
    BY <1>5, <2>5, <2>11 DEF Owned, DemuxTyped
  <2>13. ASSUME NEW g \in Demuxes, g # id PROVE OwnedBy(source', device'[g], g)
    <3>1. OwnedBy(source, device[g], g) /\ device'[g] = device[g]
      BY <2>12, <2>13 DEF Owned, TheirOwn
    <3>2. device[g].count = 0
      BY <2>6, <2>11, <2>13, <3>1 DEF OwnedBy
    <3> QED BY <3>1, <3>2 DEF OwnedBy, TidyDevice
  <2>14. TheirOwn'
    BY <2>10, <2>11, <2>12, <2>13 DEF TheirOwn
  <2>15. NoneEnabled'
    <3> SUFFICES ASSUME NEW g \in Demuxes, NEW h \in Filters
                 PROVE  ~device'[g].filters[h].enable
      BY DEF NoneEnabled
    <3> QED BY <2>6, <2>10, <2>11, <2>12 DEF Quieter, NoneEnabled, Dmx!Dev, d
  <2>16. CallsGoOn(OpeningList, 8) /\ 8 \in 6 .. 11
    BY <1>4, <1>5
  <2>17. AtItsCall'
    BY <1>3, <1>4, <2>6, <2>7, <2>15, <2>16, OpenGoesOn
  <2>18. aborted' = FALSE
    BY <2>16, ListsOfCalls DEF CallsGoOn
  <2>19. DemuxKnown'
    BY <1>1, <1>3, <2>6, <2>7 DEF Owned, DemuxKnown, DemuxHypotheses, Dmx!Same, DemuxTyped
  <2> QED BY <1>1, <2>7, <2>12, <2>14, <2>17, <2>18, <2>19 DEF Owned, DemuxTyped, Dmx!Same
<1>6. CASE Dmx!Failed /\ UNCHANGED <<device, source>>
  BY <1>1, <1>3, <1>4, <1>6, FailsAt
<1> QED BY <1>1, <1>5, <1>6

\* The filter is set up, one call after the other; the last one lets packets through.
LEMMA SetsUp ==
  ASSUME DemuxHypotheses, Owned, Dmx!setUp
  PROVE  Owned'
<1> DEFINE d == Dmx!Dev
           h == source.handle
<1>1. PICK x \in {"buffer", "filter", "start"} : Dmx!Call(x)
  BY DEF Dmx!setUp
<1>2. x \in OpenNames /\ x \in CallNames \ {"gone"}
  BY DEF OpenNames, CallNames
<1>3. /\ ~aborted /\ source.alive /\ DOMAIN ctl = CallFields /\ ctl.dev \in Demuxes
      /\ \E k \in 6 .. 12 : OpensAt(k) /\ OpeningList[k] = x /\ (Dmx!Ok => CallsGoOn(OpeningList, k))
  BY <1>1, <1>2, OpeningAt
<1>4. PICK k \in 6 .. 12 : OpensAt(k) /\ OpeningList[k] = x /\ (Dmx!Ok => CallsGoOn(OpeningList, k))
  BY <1>3
<1>5. /\ x = "buffer" => k = 9
      /\ x = "filter" => k = 10
      /\ x = "start" => k = 12
  <2>1. k \in 1 .. 12
    OBVIOUS
  <2> QED BY <1>4, <2>1, NamesOfOpening
<1>6. \A y : Dmx!Call(y) => y = x
  BY <1>1 DEF Dmx!Call
<1>7. d \in DeviceRecords /\ OwnedBy(source, d, ctl.dev)
  BY <1>1, <1>2, DeviceThere
<1>8. UNCHANGED source /\ Dmx!Same
  BY DEF Dmx!setUp
<1>9. CASE Dmx!Failed /\ UNCHANGED device
  <2>1. k \in 7 .. 12
    BY <1>1, <1>5
  <2> QED BY <1>3, <1>4, <1>8, <1>9, <2>1, FailsAt
<1>10. CASE /\ Dmx!Opened(d) /\ Dmx!Used(d, h) /\ Dmx!Ok
            /\ device' = [device EXCEPT ![ctl.dev] =
                  CASE Dmx!Call("buffer") -> d
                    [] Dmx!Call("filter") -> Dmx!DemuxSetFilter(d, h, source.pid)
                    [] Dmx!Call("start")  -> Dmx!DemuxStartFilter(d, h)]
  <2>1. h \in Filters /\ d.filters[h].used /\ d.filters[h] \in FilterRecords
    BY <1>7, <1>10, FilterFields DEF Dmx!Used
  <2>2. CallsGoOn(OpeningList, k)
    BY <1>4, <1>10
  <2>3. CASE x = "buffer"
    <3>1. device' = [device EXCEPT ![ctl.dev] = d]
      BY <1>1, <1>6, <1>10, <2>3
    <3>2. k \in 7 .. 11 /\ ~(k >= 10)
      BY <1>5, <2>3
    <3>3. Quieter(Dmx!Dev, d)
      BY DEF Quieter
    <3> HIDE DEF d, h
    <3> QED BY <1>3, <1>4, <1>7, <1>8, <2>2, <3>1, <3>2, <3>3, OpeningStep
  <2>4. CASE x = "filter"
    <3> DEFINE y == [d.filters[h] EXCEPT !.enable = FALSE, !.pid = source.pid]
               e == Refiltered(d, h, y)
    <3>1. device' = [device EXCEPT ![ctl.dev] = e]
      <4>1. ~Dmx!Call("buffer") /\ Dmx!Call("filter") /\ ~Dmx!Call("start")
        BY <1>1, <1>6, <2>4
      <4>2. e = Dmx!DemuxSetFilter(d, h, source.pid)
        BY DEF Refiltered, Dmx!DemuxSetFilter
      <4> HIDE DEF e, y, d, h
      <4> QED BY <1>10, <4>1, <4>2
    <3>2. y \in FilterRecords /\ y.used /\ ~y.enable /\ y.pid = source.pid
      <4>1. source.pid \in Pids \cup {Null}
        BY DEF Owned, DemuxTyped, SourceRecords
      <4> HIDE DEF d, h
      <4> QED BY <2>1, <4>1 DEF FilterRecords
    <3> HIDE DEF e, y
    <3>3. /\ e \in DeviceRecords
          /\ e.count = d.count /\ e.thread = d.thread /\ e.cb = d.cb
          /\ e.filters[h] = y /\ \A g \in Filters : g # h => e.filters[g] = d.filters[g]
      BY <1>7, <2>1, <3>2, OneFilter DEF e
    <3>4. OwnedBy(source, e, ctl.dev) /\ Quieter(Dmx!Dev, e)
      BY <1>7, <2>1, <3>2, <3>3 DEF OwnedBy, TidyDevice, Quieter
    <3>5. k \in 7 .. 11 /\ e.filters[source.handle].pid = source.pid
      BY <1>5, <2>4, <3>2, <3>3
    <3> HIDE DEF d, h
    <3> QED BY <1>3, <1>4, <1>8, <2>2, <3>1, <3>3, <3>4, <3>5, OpeningStep
  <2>5. CASE x = "start"
    <3> DEFINE y == [d.filters[h] EXCEPT !.enable = TRUE]
               e == Refiltered(d, h, y)
    <3>1. device' = [device EXCEPT ![ctl.dev] = e]
      <4>1. ~Dmx!Call("buffer") /\ ~Dmx!Call("filter") /\ Dmx!Call("start")
        BY <1>1, <1>6, <2>5
      <4>2. e = Dmx!DemuxStartFilter(d, h)
        BY DEF Refiltered, Dmx!DemuxStartFilter
      <4> HIDE DEF e, y, d, h
      <4> QED BY <1>10, <4>1, <4>2
    <3>2. y \in FilterRecords /\ y.used /\ y.pid = d.filters[h].pid
      BY <2>1 DEF FilterRecords
    <3> HIDE DEF e, y
    <3>3. /\ e \in DeviceRecords
          /\ e.count = d.count /\ e.thread = d.thread /\ e.cb = d.cb
          /\ e.filters[h] = y /\ \A g \in Filters : g # h => e.filters[g] = d.filters[g]
      BY <1>7, <2>1, <3>2, OneFilter DEF e
    <3>4. OwnedBy(source, e, ctl.dev)
      BY <1>7, <2>1, <3>2, <3>3 DEF OwnedBy, TidyDevice
    <3>5. PICK id \in Demuxes : id = ctl.dev
      BY <1>3
    <3>6. /\ device' \in [Demuxes -> DeviceRecords] /\ TheirOwn'
          /\ device'[id] = e /\ \A g \in Demuxes : g # id => device'[g] = device[g]
      BY <1>8, <3>1, <3>3, <3>4, <3>5, OneDevice
    <3>7. NoneEnabled /\ source.state = "started" /\ ctl.what \in {"start", "restart"}
          /\ d.filters[h].pid = source.pid
      <4>1. k > 10 /\ k > 6
        BY <1>5, <2>5
      <4>2. h # Null
        BY <2>1 DEF DemuxHypotheses
      <4> QED BY <1>4, <4>1, <4>2 DEF OpensAt, Dmx!Dev
    <3>8. ctl' = Dmx!Nothing /\ aborted' \in BOOLEAN
      BY <1>5, <2>2, <2>5, ListsOfCalls DEF CallsGoOn
    <3>9. OwnPid'
      <4> SUFFICES ASSUME NEW g \in Demuxes, NEW f \in Filters, device'[g].filters[f].enable
                   PROVE  device'[g].filters[f].pid = source'.pid
        BY DEF OwnPid
      <4>1. g = id /\ f = h
        BY <3>3, <3>5, <3>6, <3>7 DEF NoneEnabled, Dmx!Dev
      <4> QED BY <1>8, <3>2, <3>3, <3>6, <3>7, <4>1
    <3> HIDE DEF d, h
    <3> QED BY <1>8, <3>6, <3>8, <3>9 DEF Owned, DemuxTyped, DemuxKnown, AtItsCall, Resting, Dmx!Same
  <2> QED BY <1>1, <2>3, <2>4, <2>5
<1>11. \/ Dmx!Failed /\ UNCHANGED device
       \/ /\ Dmx!Opened(d) /\ Dmx!Used(d, h) /\ Dmx!Ok
          /\ device' = [device EXCEPT ![ctl.dev] =
                CASE Dmx!Call("buffer") -> d
                  [] Dmx!Call("filter") -> Dmx!DemuxSetFilter(d, h, source.pid)
                  [] Dmx!Call("start")  -> Dmx!DemuxStartFilter(d, h)]
  BY DEF Dmx!setUp
<1> QED BY <1>9, <1>10, <1>11

LEMMA GivesCallback ==
  ASSUME DemuxHypotheses, Owned, Dmx!setCallback, Dmx!Call("callback")
  PROVE  Owned'
<1> DEFINE d == Dmx!Dev
           e == Dmx!DemuxSetCallback(d, source.handle, "pes_data_cb")
<1>1. /\ Dmx!Ok /\ Dmx!Same /\ UNCHANGED source
      /\ device' = IF ~Dmx!Opened(d) THEN device ELSE [device EXCEPT ![ctl.dev] = e]
  BY DEF Dmx!setCallback
<1>2. "callback" \in OpenNames /\ "callback" \in CallNames \ {"gone"}
  BY DEF OpenNames, CallNames
<1>3. /\ ~aborted /\ source.alive /\ DOMAIN ctl = CallFields /\ ctl.dev \in Demuxes
      /\ \E k \in 6 .. 12 : OpensAt(k) /\ OpeningList[k] = "callback" /\ (Dmx!Ok => CallsGoOn(OpeningList, k))
  BY <1>2, OpeningAt
<1>4. PICK k \in 6 .. 12 : OpensAt(k) /\ OpeningList[k] = "callback" /\ CallsGoOn(OpeningList, k)
  BY <1>1, <1>3
<1>5. k = 11
  <2>1. k \in 1 .. 12
    OBVIOUS
  <2> QED BY <1>4, <2>1, NamesOfOpening
<1>6. d \in DeviceRecords /\ OwnedBy(source, d, ctl.dev)
  BY <1>2, DeviceThere
<1>7. /\ e \in DeviceRecords /\ OwnedBy(source, e, ctl.dev) /\ Quieter(d, e)
      /\ \A g \in Filters : e.filters[g].pid = d.filters[g].pid
  BY <1>6, SetsCallback
<1>8. k \in 7 .. 11 /\ k > 10
  BY <1>5
<1>9. source.handle # Null => source.handle \in Filters /\ d.filters[source.handle].pid = source.pid
  BY <1>4, <1>8 DEF OpensAt, Dmx!Dev, Owned, DemuxTyped, SourceRecords
<1>10. Quieter(d, d)
  BY DEF Quieter
<1>11. ~Dmx!Opened(d) => device' = [device EXCEPT ![ctl.dev] = d]
  BY <1>1, <1>3, SameDevice
<1> HIDE DEF d, e
<1>12. CASE Dmx!Opened(d)
  <2>1. source.handle # Null => e.filters[source.handle].pid = source.pid
    BY <1>7, <1>9
  <2>2. device' = [device EXCEPT ![ctl.dev] = e] /\ Quieter(Dmx!Dev, e)
    BY <1>1, <1>7, <1>12 DEF d
  <2> QED BY <1>1, <1>3, <1>4, <1>7, <1>8, <2>1, <2>2, OpeningStep
<1>13. CASE ~Dmx!Opened(d)
  <2>1. device' = [device EXCEPT ![ctl.dev] = d] /\ Quieter(Dmx!Dev, d)
    BY <1>10, <1>11, <1>13 DEF d
  <2> QED BY <1>1, <1>3, <1>4, <1>6, <1>8, <1>9, <2>1, OpeningStep
<1> QED BY <1>12, <1>13

LEMMA ContextReset ==
  ASSUME DemuxHypotheses, Owned, Dmx!resetContext
  PROVE  Owned'
<1>1. /\ Dmx!Call("reset") /\ Dmx!Ok /\ Dmx!Same /\ UNCHANGED device
      /\ source' = [source EXCEPT !.handle = Null, !.dmx = ctl.dev]
  BY DEF Dmx!resetContext
<1>2. "reset" \in OpenNames
  BY DEF OpenNames
<1>3. /\ ~aborted /\ source.alive /\ DOMAIN ctl = CallFields /\ ctl.dev \in Demuxes
      /\ \E k \in 6 .. 12 : OpensAt(k) /\ OpeningList[k] = "reset" /\ (Dmx!Ok => CallsGoOn(OpeningList, k))
  BY <1>1, <1>2, OpeningAt
<1>4. OpensAt(6) /\ CallsGoOn(OpeningList, 6)
  BY <1>1, <1>3, NamesOfOpening
<1>5. AllClosed /\ NoneEnabled /\ ctl.dev = source.demuxId /\ source.state = "started"
  BY <1>4, ClosedNone DEF OpensAt
<1>6. /\ source' \in SourceRecords /\ source'.alive /\ source'.state = source.state
      /\ source'.demuxId = source.demuxId /\ source'.dmx = ctl.dev
      /\ source'.handle = Null /\ source'.pid = source.pid
  BY <1>1, <1>3 DEF Owned, DemuxTyped, SourceRecords
<1>7. AllClosed' /\ NoneEnabled'
  BY <1>1, <1>5 DEF AllClosed, NoneEnabled
<1>8. 6 \in 6 .. 11 /\ ~(6 >= 10)
  OBVIOUS
<1>9. AtItsCall'
  BY <1>3, <1>4, <1>6, <1>7, <1>8, OpenGoesOn
<1>10. TheirOwn'
  BY <1>1, <1>5, DevicesStay
<1>11. DemuxKnown'
  BY <1>1, <1>5, <1>6 DEF Owned, DemuxKnown, Dmx!Same
<1>12. aborted' = FALSE
  BY <1>4, ListsOfCalls DEF CallsGoOn
<1> QED BY <1>1, <1>6, <1>9, <1>10, <1>11, <1>12 DEF Owned, DemuxTyped, Dmx!Same

LEMMA SourceGoes ==
  ASSUME DemuxHypotheses, Owned, Dmx!gone
  PROVE  Owned'
<1>1. Dmx!Call("gone") /\ Dmx!Ok /\ Dmx!Same /\ UNCHANGED device /\ source' = Dmx!NoSource
  BY DEF Dmx!gone
<1>2. ~aborted /\ source.alive /\ DOMAIN ctl = CallFields /\ \E k \in 1 .. 12 : BusyAt(k)
  BY <1>1, Underway
<1>3. PICK k \in 1 .. 12 : BusyAt(k)
  BY <1>2
<1>4. /\ ClosingList \in CallLists /\ EndingList \in CallLists /\ OpeningList \in CallLists /\ UndoingList \in CallLists
      /\ Len(ClosingList) = 5 /\ Len(EndingList) = 6 /\ Len(OpeningList) = 12 /\ Len(UndoingList) = 3
  BY ListsOfCalls DEF CallLists
<1>5. "gone" \notin ClosingCalls
  BY DEF ClosingCalls
<1>6. ~StopsAt(k) /\ ~UndoesAt(k) /\ ~OpensAt(k)
  <2>1. ASSUME StopsAt(k) PROVE FALSE
    <3>1. AtCall(ClosingList, k) /\ k \in 1 .. 5
      BY <1>4, <2>1 DEF StopsAt, AtCall
    <3>2. ClosingList[k] = "gone"
      BY <1>1, <1>2, <1>4, <3>1, NextCall
    <3> QED BY <1>5, <3>1, <3>2, NamesOfCalls
  <2>2. ASSUME UndoesAt(k) PROVE FALSE
    <3>1. AtCall(UndoingList, k) /\ k \in 1 .. 3
      BY <1>4, <2>2 DEF UndoesAt, AtCall
    <3>2. UndoingList[k] = "gone"
      BY <1>1, <1>2, <1>4, <3>1, NextCall
    <3> QED BY <1>5, <3>1, <3>2, NamesOfCalls
  <2>3. ASSUME OpensAt(k) PROVE FALSE
    <3>1. AtCall(OpeningList, k) /\ k \in 1 .. 12
      BY <2>3 DEF OpensAt
    <3>2. OpeningList[k] = "gone"
      BY <1>1, <1>2, <1>4, <3>1, NextCall
    <3> QED BY <3>1, <3>2, NamesOfOpening
  <2> QED BY <2>1, <2>2, <2>3
<1>7. EndsAt(k)
  BY <1>3, <1>6 DEF BusyAt
<1>8. AtCall(EndingList, k) /\ k \in 1 .. 6 /\ ctl.what = "destroy"
  BY <1>4, <1>7 DEF EndsAt, AtCall
<1>9. CallsGoOn(EndingList, k) /\ EndingList[k] = "gone"
  BY <1>1, <1>2, <1>4, <1>8, NextCall
<1>10. k = 6
  BY <1>8, <1>9, NamesOfCalls
<1>11. AllClosed /\ ctl' = Dmx!Nothing /\ aborted' = FALSE
  <2>1. ~(k < 6) /\ ~(k < Len(EndingList))
    BY <1>4, <1>10
  <2>2. AllClosed
    BY <1>7, <2>1 DEF EndsAt
  <2>3. ctl' = Dmx!Nothing /\ aborted' = (ctl.what = "restart")
    BY <1>9, <2>1 DEF CallsGoOn
  <2>4. (ctl.what = "restart") = FALSE
    BY <1>8
  <2> QED BY <2>2, <2>3, <2>4
<1>12. source' \in SourceRecords /\ source'.state = "invalid"
  BY <1>1 DEF Dmx!NoSource, SourceRecords
<1>13. DemuxKnown'
  BY <1>1 DEF DemuxKnown, Dmx!NoSource
<1>14. TheirOwn'
  BY <1>1, <1>11, DevicesStay
<1>15. AtItsCall'
  BY <1>11, <1>12 DEF AtItsCall, Resting
<1> QED BY <1>1, <1>11, <1>12, <1>13, <1>14, <1>15 DEF Owned, DemuxTyped, Dmx!Same

-----------------------------------------------------------------------------
(* The data threads.                                                       *)

LEMMA DataThreadGoesOn ==
  ASSUME DemuxHypotheses, Owned, NEW id \in Demuxes, Dmx!DataThread(id)
  PROVE  Owned'
<1> DEFINE d == device[id]
<1>1. d \in DeviceRecords /\ OwnedBy(source, d, id)
  BY DEF Owned, DemuxTyped, TheirOwn
<1>2. UNCHANGED <<source, params, ctl, aborted>>
  BY DEF Dmx!DataThread
<1>3. \E e \in DeviceRecords :
        /\ device' = [device EXCEPT ![id] = e]
        /\ e.count = d.count /\ e.filters = d.filters /\ OwnedBy(source, e, id)
  <2>1. CASE \E f \in Filters : \E t \in Dmx!Taken(d, f) : device' = [device EXCEPT ![id] = t]
    <3>1. PICK f \in Filters : \E t \in Dmx!Taken(d, f) : device' = [device EXCEPT ![id] = t]
      BY <2>1
    <3> DEFINE e == [d EXCEPT !.thread = "called", !.cb = d.filters[f].cb]
    <3>2. /\ d.thread = "poll" /\ d.filters[f].used
          /\ device' = [device EXCEPT ![id] = e]
      BY <3>1 DEF Dmx!Taken
    <3>3. d.filters[f].cb \in {"pes_data_cb", Null}
      BY <1>1, FilterFields DEF FilterRecords
    <3> HIDE DEF d
    <3>4. /\ e \in DeviceRecords /\ e.count = d.count /\ e.filters = d.filters
          /\ e.thread = "called"
      BY <1>1, <3>3 DEF DeviceRecords
    <3> HIDE DEF e
    <3>5. OwnedBy(source, e, id)
      BY <1>1, <3>2, <3>4 DEF OwnedBy, TidyDevice
    <3> QED BY <3>2, <3>4, <3>5
  <2>2. CASE d.thread = "called" /\ device' = [device EXCEPT ![id] = Dmx!Returned(@)]
    <3> DEFINE e == [d EXCEPT !.thread = "poll", !.cb = Null]
    <3>1. device' = [device EXCEPT ![id] = e]
      BY <2>2 DEF Dmx!Returned, Owned, DemuxTyped
    <3> HIDE DEF d
    <3>2. /\ e \in DeviceRecords /\ e.count = d.count /\ e.filters = d.filters
          /\ e.thread = "poll" /\ e.cb = Null
      BY <1>1 DEF DeviceRecords
    <3> HIDE DEF e
    <3>3. OwnedBy(source, e, id)
      BY <1>1, <2>2, <3>2 DEF OwnedBy, TidyDevice
    <3> QED BY <3>1, <3>2, <3>3
  <2>3. CASE Dmx!Ends(d) /\ device' = [device EXCEPT ![id].thread = "ended"]
    <3> DEFINE e == [d EXCEPT !.thread = "ended"]
    <3>1. d.thread = "poll" /\ device' = [device EXCEPT ![id] = e]
      BY <2>3 DEF Dmx!Ends, Owned, DemuxTyped
    <3> HIDE DEF d
    <3>2. /\ e \in DeviceRecords /\ e.count = d.count /\ e.filters = d.filters
          /\ e.thread = "ended" /\ e.cb = d.cb
      BY <1>1 DEF DeviceRecords
    <3> HIDE DEF e
    <3>3. OwnedBy(source, e, id)
      BY <1>1, <3>1, <3>2 DEF OwnedBy, TidyDevice
    <3> QED BY <3>1, <3>2, <3>3
  <2> QED BY <2>1, <2>2, <2>3 DEF Dmx!DataThread
<1>4. PICK e \in DeviceRecords :
        /\ device' = [device EXCEPT ![id] = e]
        /\ e.count = d.count /\ e.filters = d.filters /\ OwnedBy(source, e, id)
  BY <1>3
<1>5. /\ device' \in [Demuxes -> DeviceRecords] /\ TheirOwn'
      /\ device'[id] = e /\ \A g \in Demuxes : g # id => device'[g] = device[g]
  BY <1>2, <1>4, OneDevice
<1>6. \A g \in Demuxes : device'[g].count = device[g].count /\ device'[g].filters = device[g].filters
  BY <1>4, <1>5
<1>7. /\ AllClosed => AllClosed'
      /\ NoneEnabled => NoneEnabled'
      /\ OwnPid => OwnPid'
  BY <1>2, <1>6 DEF AllClosed, NoneEnabled, OwnPid
<1>8. AtItsCall'
  <2>1. CASE Resting
    BY <1>2, <1>7, <2>1 DEF AtItsCall, Resting
  <2>2. CASE ~Resting
    <3>1. /\ ~aborted /\ source.alive /\ DOMAIN ctl = {"what", "dev", "todo"}
          /\ ctl.dev \in Demuxes \/ (ctl.what = "destroy" /\ ctl.todo = SubSeq(EndingList, 6, 6))
          /\ \E k \in 1 .. 12 : BusyAt(k)
      BY <2>2 DEF Owned, AtItsCall
    <3>2. PICK k \in 1 .. 12 : BusyAt(k)
      BY <3>1
    <3>3. \A list : AtCall(list, k) => AtCall(list, k)'
      BY <1>2 DEF AtCall
    <3>4. StopsAt(k) => StopsAt(k)'
      BY <1>2, <3>3 DEF StopsAt
    <3>5. EndsAt(k) => EndsAt(k)'
      BY <1>2, <1>7, <3>3 DEF EndsAt
    <3>6. OpensAt(k) => OpensAt(k)'
      <4> SUFFICES ASSUME OpensAt(k) PROVE OpensAt(k)'
        OBVIOUS
      <4>1. ctl.dev \in Demuxes
        BY <3>1 DEF OpensAt
      <4>2. device'[ctl.dev].filters = device[ctl.dev].filters
        BY <1>6, <4>1
      <4> QED BY <1>2, <1>7, <3>3, <4>2 DEF OpensAt
    <3>7. UndoesAt(k) => UndoesAt(k)'
      BY <1>2, <1>7, <3>3 DEF UndoesAt
    <3>8. BusyAt(k)'
      BY <3>2, <3>4, <3>5, <3>6, <3>7 DEF BusyAt
    <3>9. (\E m \in 1 .. 12 : BusyAt(m))'
      BY <3>8, Zenon
    <3>10. /\ ~aborted' /\ source'.alive /\ DOMAIN ctl' = {"what", "dev", "todo"}
           /\ ctl'.dev \in Demuxes \/ (ctl'.what = "destroy" /\ ctl'.todo = SubSeq(EndingList, 6, 6))
      BY <1>2, <3>1
    <3> QED BY <3>9, <3>10, Zenon DEF AtItsCall
  <2> QED BY <2>1, <2>2
<1> QED BY <1>2, <1>5, <1>8 DEF Owned, DemuxTyped, DemuxKnown

-----------------------------------------------------------------------------
LEMMA NextOwned ==
  ASSUME DemuxHypotheses, Owned, [Dmx!Next]_(Dmx!dmxvars)
  PROVE  Owned'
<1>1. CASE UNCHANGED Dmx!dmxvars
  <2>1. UNCHANGED <<device, source, params, ctl, aborted>>
    BY <1>1 DEF Dmx!dmxvars
  <2>2. DemuxTyped' /\ DemuxKnown'
    BY <2>1 DEF Owned, DemuxTyped, DemuxKnown
  <2>3. TheirOwn'
    BY <2>1, DevicesStay
  <2>4. AtItsCall'
    <3>1. \A k : StopsAt(k)' <=> StopsAt(k)
      BY <2>1, Zenon DEF StopsAt, AtCall
    <3>2. \A k : EndsAt(k)' <=> EndsAt(k)
      BY <2>1, Zenon DEF EndsAt, AtCall, AllClosed
    <3>3. \A k : OpensAt(k)' <=> OpensAt(k)
      BY <2>1, Zenon DEF OpensAt, AtCall, AllClosed, NoneEnabled
    <3>4. \A k : UndoesAt(k)' <=> UndoesAt(k)
      BY <2>1, Zenon DEF UndoesAt, AtCall, NoneEnabled
    <3>5. \A k : BusyAt(k)' <=> BusyAt(k)
      BY <3>1, <3>2, <3>3, <3>4, Zenon DEF BusyAt
    <3>6. Resting' <=> Resting
      BY <2>1, Zenon DEF Resting, OwnPid
    <3> QED BY <2>1, <3>5, <3>6, Zenon DEF Owned, AtItsCall
  <2> QED BY <2>2, <2>3, <2>4 DEF Owned
<1>2. CASE \E typed \in BOOLEAN : Dmx!create(typed)
  BY <1>2, SourceMade
<1>3. CASE Dmx!start \/ Dmx!stop \/ Dmx!destroy
  BY <1>3, SourceStarts, SourceStops, SourceEnds
<1>4. CASE \E p \in Pids : Dmx!setSubPid(p)
  BY <1>4, SetsPid
<1>5. CASE \E d \in Demuxes : Dmx!setDemuxId(d)
  BY <1>5, SetsDemux
<1>6. CASE Dmx!Calls
  <2>1. Dmx!setCallback => Dmx!Call("callback") \/ Dmx!Call("nocallback")
    BY DEF Dmx!setCallback
  <2> QED BY <1>6, <2>1, OpensDevice, Allocates, SetsUp, GivesCallback, ClosingCallsOwned, ContextReset, SourceGoes
          DEF Dmx!Calls
<1>7. CASE \E d \in Demuxes : Dmx!DataThread(d)
  BY <1>7, DataThreadGoesOn
<1> QED BY <1>1, <1>2, <1>3, <1>4, <1>5, <1>6, <1>7 DEF Dmx!Next

\* When the source is gone no device is open, no filter in use and no thread running, whatever
\* has failed on the way; while it runs only packets of its own pid and device pass
\* (DemuxSource.cpp:206-214, 265, 380-384, 429).
THEOREM FiltersAreItsOwnAlways ==
  ASSUME MovesWhileOpen = FALSE
  PROVE  Dmx!Spec => []FiltersAreItsOwn
<1>0. DemuxHypotheses
  BY SourcesAssumption DEF DemuxHypotheses
<1>1. Dmx!Init => Owned
  BY <1>0, InitOwned
<1>2. Owned /\ [Dmx!Next]_(Dmx!dmxvars) => Owned'
  BY <1>0, NextOwned
<1>3. Owned => FiltersAreItsOwn
  BY <1>0, OwnedIsSafe DEF FiltersAreItsOwn
<1> QED BY <1>1, <1>2, <1>3, PTL DEF Dmx!Spec

\* The data thread that has taken pes_data_cb finds the source through sInstance, which is
\* never reset (DemuxSource.cpp:101, DemuxDriver.c:205, 356).
THEOREM CallbackHasTargetAlways ==
  ASSUME MovesWhileOpen = FALSE
  PROVE  Dmx!Spec => []Dmx!CallbackHasTarget
<1>0. DemuxHypotheses
  BY SourcesAssumption DEF DemuxHypotheses
<1>1. Dmx!Init => Owned
  BY <1>0, InitOwned
<1>2. Owned /\ [Dmx!Next]_(Dmx!dmxvars) => Owned'
  BY <1>0, NextOwned
<1>3. Owned => Dmx!CallbackHasTarget
  BY <1>0, OwnedIsSafe
<1> QED BY <1>1, <1>2, <1>3, PTL DEF Dmx!Spec

-----------------------------------------------------------------------------
(* The sources that read a device.                                         *)

\* The threads are joined one after the other: the parser's, the one that tells the time, and
\* the one that reads the device.
JoinedInTurn ==
  /\ DOMAIN driver = {"at", "chunk", "left"} /\ DOMAIN reader = {"at", "want", "have"}
  /\ timer = "calls" => registered
  /\ owner = "new" => timer = "none" /\ driver.at = "none"
  /\ owner \in {"joinRender", "joinDriver", "gone"} => reader.at = "ended"
  /\ owner \in {"joinDriver", "gone"} => timer \in {"none", "ended"}
  /\ owner = "gone" => driver.at = "ended"

LEMMA InitJoined == Source!Init => JoinedInTurn
BY DEF Source!Init, Source!NoThread, JoinedInTurn

LEMMA NextJoined == JoinedInTurn /\ [Source!Next]_(Source!dsvars) => JoinedInTurn'
<1> SUFFICES ASSUME JoinedInTurn, [Source!Next]_(Source!dsvars) PROVE JoinedInTurn'
  OBVIOUS
<1> USE DEF JoinedInTurn, Source!dsvars, Source!state, Source!segment, Source!threads
<1>1. CASE UNCHANGED Source!dsvars
  BY <1>1
<1>2. CASE Source!start
  BY <1>2 DEF Source!start, Source!RenderThread, Source!NoThread
<1>3. CASE Source!polls
  BY <1>3 DEF Source!polls
<1>4. CASE Source!Driver
  BY <1>4 DEF Source!Driver, Source!readDriverData, Source!readFails, Source!push,
              Source!driverEnds, Source!NoThread, Source!Wakes
<1>5. CASE Source!RenderTime
  BY <1>5 DEF Source!RenderTime, Source!tellsTime, Source!tellsNobody, Source!told,
              Source!renderLoops, Source!renderEnds, Source!Render
<1>6. CASE Source!readBegins
  BY <1>6 DEF Source!readBegins
<1>7. CASE Source!Reads
  BY <1>7 DEF Source!Reads, Source!read_l, Source!itemIsEmpty, Source!pop, Source!popWaits,
              Source!readReturns, Source!Reader
<1>8. CASE Source!dettachDataSource
  BY <1>8 DEF Source!dettachDataSource, Source!Owner, Source!mLockFree
<1>9. CASE Source!Stops
  BY <1>9 DEF Source!Stops, Source!stop, Source!notifyExit, Source!notifyWakes,
              Source!stopParser, Source!joinRender, Source!joinDriver, Source!Owner, Source!Wakes
<1> QED BY <1>1, <1>2, <1>3, <1>4, <1>5, <1>6, <1>7, <1>8, <1>9 DEF Source!Next

\* Nobody is told the time who has left, and when a source is gone so are the threads that
\* read its device, tell the time and parse (DeviceSource.cpp, VbiSource.cpp: the destructors
\* join them; detaching waits for the lock of the listeners).
THEOREM ListenerIsThereAlways ==
  Source!Init /\ [][Source!Next]_(Source!dsvars) => []Source!ListenerIsThere
<1>1. JoinedInTurn => Source!ListenerIsThere
  BY DEF JoinedInTurn, Source!ListenerIsThere
<1> QED BY InitJoined, NextJoined, <1>1, PTL

-----------------------------------------------------------------------------
(* The callbacks of device events.                                         *)

Subscriptions == [type : EventTypes, cb : Users]

\* No callback is twice in the list for a type, and who is in it knows; who is about to add
\* itself is not there yet.
Listed ==
  /\ events \in Seq(Subscriptions)
  /\ Event!IsInjective(events)
  /\ DOMAIN client = Users
  /\ \A s \in Users :
        /\ DOMAIN client[s] = {"at", "type", "on"}
        /\ client[s].on \in SUBSET EventTypes
        /\ \A t \in EventTypes : t \in client[s].on <=> Event!Subscribed(s, t)
        /\ client[s].at = "adding" => /\ client[s].type \in EventTypes
                                      /\ ~Event!Subscribed(s, client[s].type)

\* As far as it has come in the list a signaller has called each callback of its type, once.
Passed(x) == IF x.at = "called" THEN x.pos ELSE x.pos - 1
Walking(x) ==
  /\ x.type \in EventTypes
  /\ x.pos \in 1 .. Len(events) + 1
  /\ x.called \in Seq(Users)
  /\ Event!IsInjective(x.called)
  /\ \A j \in DOMAIN x.called :
       \E i \in 1 .. Passed(x) : events[i] = [type |-> x.type, cb |-> x.called[j]]
  /\ \A i \in 1 .. Passed(x) :
       events[i].type = x.type => \E j \in DOMAIN x.called : x.called[j] = events[i].cb
  /\ x.due = {s \in Users : Event!Subscribed(s, x.type)}
  /\ x.at = "called" =>
       /\ x.pos \in 1 .. Len(events)
       /\ x.called # << >>
       /\ events[x.pos] = [type |-> x.type, cb |-> x.called[Len(x.called)]]

CalledInOrder ==
  /\ DOMAIN signal = Signallers
  /\ \A g \in Signallers :
       \/ signal[g] = Event!Idle
       \/ /\ DOMAIN signal[g] = {"at", "type", "pos", "called", "due"}
          /\ signal[g].at \in {"walk", "called"}
          /\ Walking(signal[g])

LEMMA CalledInOrderIsSafe ==
  ASSUME Listed, CalledInOrder
  PROVE  Event!CalledWhileSubscribed /\ Event!EventGivenOnce
<1>0. Event!Idle.at = "idle" /\ Event!Idle.called = << >>
  BY DEF Event!Idle
<1>1. ASSUME NEW g \in Signallers, signal[g].at = "called"
      PROVE  signal[g].type \in client[Event!Last(signal[g].called)].on
  <2> DEFINE x == signal[g]
  <2>1. Walking(x)
    BY <1>0, <1>1 DEF CalledInOrder
  <2> HIDE DEF x
  <2>2. /\ x.pos \in 1 .. Len(events) /\ x.called # << >> /\ x.called \in Seq(Users)
        /\ events[x.pos] = [type |-> x.type, cb |-> x.called[Len(x.called)]]
        /\ x.type \in EventTypes
    BY <1>1, <2>1 DEF Walking, x
  <2>3. x.called[Len(x.called)] \in Users
    BY <2>2
  <2>4. Event!Subscribed(x.called[Len(x.called)], x.type)
    BY <2>2 DEF Event!Subscribed, Listed
  <2> QED BY <2>2, <2>3, <2>4 DEF Listed, Event!Last, x
<1>2. ASSUME NEW g \in Signallers
      PROVE  /\ Event!IsInjective(signal[g].called)
             /\ signal[g].at = "walk" /\ signal[g].pos > Len(events) =>
                  signal[g].due \subseteq Event!ToSet(signal[g].called)
  <2> DEFINE x == signal[g]
  <2>1. CASE x = Event!Idle
    BY <1>0, <2>1 DEF Event!IsInjective
  <2>2. CASE x # Event!Idle
    <3>1. Walking(x)
      BY <2>2 DEF CalledInOrder
    <3> HIDE DEF x
    <3>2. ASSUME x.at = "walk", x.pos > Len(events), NEW s \in x.due
          PROVE  s \in Event!ToSet(x.called)
      <4>1. Event!Subscribed(s, x.type) /\ x.pos \in 1 .. Len(events) + 1 /\ Len(events) \in Nat
        BY <3>1, <3>2 DEF Walking, Listed
      <4>2. PICK i \in 1 .. Len(events) : events[i] = [type |-> x.type, cb |-> s]
        BY <4>1 DEF Event!Subscribed, Listed
      <4>3. i \in 1 .. Passed(x)
        BY <3>2, <4>1 DEF Passed
      <4>4. events[i].type = x.type /\ events[i].cb = s
        BY <4>2
      <4>5. \E j \in DOMAIN x.called : x.called[j] = s
        BY <3>1, <4>3, <4>4 DEF Walking
      <4> QED BY <4>5 DEF Event!ToSet
    <3>3. Event!IsInjective(x.called)
      BY <3>1 DEF Walking
    <3> QED BY <3>2, <3>3 DEF x
  <2> QED BY <2>1, <2>2
<1> QED BY <1>1, <1>2 DEF Event!CalledWhileSubscribed, Event!EventGivenOnce

LEMMA InitListed == Event!Init => Listed /\ CalledInOrder
<1> SUFFICES ASSUME Event!Init PROVE Listed /\ CalledInOrder
  OBVIOUS
<1>1. /\ events = << >> /\ signal = [g \in Signallers |-> Event!Idle]
      /\ client = [s \in Users |-> [at |-> "idle", type |-> Event!Idle.type, on |-> {}]]
  BY DEF Event!Init
<1>2. CalledInOrder
  BY <1>1 DEF CalledInOrder
<1>3. Listed
  BY <1>1 DEF Listed, Event!IsInjective, Event!Subscribed
<1> QED BY <1>2, <1>3

\* A list with one more at its front, and one without what was in it once.
LEMMA AddedToList ==
  ASSUME NEW list \in Seq(Subscriptions), Event!IsInjective(list), NEW e \in Subscriptions,
         \A i \in DOMAIN list : list[i] # e
  PROVE  LET more == <<e>> \o list
         IN /\ more \in Seq(Subscriptions) /\ Event!IsInjective(more)
            /\ \A f : (\E i \in DOMAIN more : more[i] = f)
                      <=> f = e \/ \E i \in DOMAIN list : list[i] = f
<1> DEFINE more == <<e>> \o list
           n == Len(list)
<1>1. /\ more \in Seq(Subscriptions) /\ Len(more) = n + 1 /\ n \in Nat
      /\ more[1] = e /\ \A i \in 2 .. n + 1 : more[i] = list[i - 1]
  OBVIOUS
<1>2. DOMAIN more = 1 .. n + 1 /\ DOMAIN list = 1 .. n
  BY <1>1
<1> HIDE DEF more, n
<1>3. Event!IsInjective(more)
  <2> SUFFICES ASSUME NEW a \in 1 .. n + 1, NEW b \in 1 .. n + 1, more[a] = more[b]
               PROVE  a = b
    BY <1>2 DEF Event!IsInjective
  <2>0. \A i \in 1 .. n + 1 : i # 1 => i \in 2 .. n + 1 /\ i - 1 \in 1 .. n
    BY <1>1
  <2>1. a # 1 => a - 1 \in 1 .. n /\ more[a] = list[a - 1]
    BY <1>1, <2>0
  <2>2. b # 1 => b - 1 \in 1 .. n /\ more[b] = list[b - 1]
    BY <1>1, <2>0
  <2>3. a # 1 /\ b # 1 => a - 1 = b - 1
    BY <1>2, <2>1, <2>2 DEF Event!IsInjective
  <2>4. (a = 1) <=> (b = 1)
    BY <1>1, <1>2, <2>1, <2>2
  <2> QED BY <1>1, <2>3, <2>4
<1>4. ASSUME NEW f
      PROVE  (\E i \in 1 .. n + 1 : more[i] = f) <=> f = e \/ \E i \in 1 .. n : list[i] = f
  <2>1. ASSUME NEW i \in 1 .. n + 1, more[i] = f, f # e PROVE \E j \in 1 .. n : list[j] = f
    <3>1. i - 1 \in 1 .. n /\ list[i - 1] = f
      BY <1>1, <2>1
    <3> QED BY <3>1
  <2>2. ASSUME NEW i \in 1 .. n, list[i] = f PROVE \E j \in 1 .. n + 1 : more[j] = f
    <3>1. i + 1 \in 2 .. n + 1 /\ more[i + 1] = list[(i + 1) - 1] /\ (i + 1) - 1 = i
      BY <1>1
    <3> QED BY <2>2, <3>1
  <2>3. 1 \in 1 .. n + 1 /\ more[1] = e
    BY <1>1
  <2> QED BY <2>1, <2>2, <2>3
<1> QED BY <1>1, <1>2, <1>3, <1>4 DEF more

LEMMA RemovedFromList ==
  ASSUME NEW list \in Seq(Subscriptions), Event!IsInjective(list), NEW e,
         \E i \in DOMAIN list : list[i] = e
  PROVE  LET less == Event!RemoveFirst(list, e)
         IN /\ less \in Seq(Subscriptions) /\ Event!IsInjective(less)
            /\ \A f : (\E i \in DOMAIN less : less[i] = f)
                      <=> f # e /\ \E i \in DOMAIN list : list[i] = f
<1> DEFINE n == Len(list)
           less == Event!RemoveFirst(list, e)
<1>1. n \in Nat /\ DOMAIN list = 1 .. n
  OBVIOUS
<1>2. PICK k \in 1 .. n : list[k] = e
  BY <1>1
<1>3. {i \in 1 .. n : list[i] = e} = {k}
  BY <1>1, <1>2 DEF Event!IsInjective
<1>4. Event!Min({k}) = k
  BY DEF Event!Min
<1>5. less = SubSeq(list, 1, k - 1) \o SubSeq(list, k + 1, n)
  BY <1>2, <1>3, <1>4 DEF Event!RemoveFirst, Event!SelectInSeq, Event!RemoveAt
<1> HIDE DEF less
<1>6. /\ less \in Seq(Subscriptions) /\ Len(less) = n - 1
      /\ \A i \in 1 .. k - 1 : less[i] = list[i]
      /\ \A i \in k .. n - 1 : less[i] = list[i + 1]
  <2> DEFINE a == SubSeq(list, 1, k - 1)
             b == SubSeq(list, k + 1, n)
  <2>1. /\ a \in Seq(Subscriptions) /\ Len(a) = k - 1
        /\ \A i \in 1 .. k - 1 : a[i] = list[i]
    BY <1>1
  <2>2. /\ b \in Seq(Subscriptions) /\ Len(b) = n - k
        /\ \A i \in 1 .. n - k : b[i] = list[k + i]
    <3>1. k + 1 \in 1 .. Len(list) + 1 /\ n \in (k + 1) - 1 .. Len(list)
      BY <1>1
    <3>2. /\ b \in Seq(Subscriptions) /\ Len(b) = n - (k + 1) + 1
          /\ \A i \in 1 .. n - (k + 1) + 1 : b[i] = list[(k + 1) + i - 1]
      BY <3>1, SubSeqProperties
    <3>3. n - (k + 1) + 1 = n - k /\ \A i \in 1 .. n - k : (k + 1) + i - 1 = k + i
      BY <1>1
    <3> HIDE DEF a, b, n
    <3> QED BY <3>2, <3>3
  <2> HIDE DEF a, b
  <2>3. /\ a \o b \in Seq(Subscriptions) /\ Len(a \o b) = n - 1
        /\ \A i \in 1 .. k - 1 : (a \o b)[i] = a[i]
        /\ \A i \in k .. n - 1 : (a \o b)[i] = b[i - (k - 1)]
    <3>1. Len(a \o b) = Len(a) + Len(b) /\ a \o b \in Seq(Subscriptions)
      BY <2>1, <2>2, ConcatProperties
    <3>2. \A i \in 1 .. Len(a) + Len(b) : (a \o b)[i] = IF i <= Len(a) THEN a[i] ELSE b[i - Len(a)]
      BY <2>1, <2>2, ConcatProperties
    <3> QED BY <1>1, <2>1, <2>2, <3>1, <3>2
  <2>4. \A i \in k .. n - 1 : i - (k - 1) \in 1 .. n - k /\ k + (i - (k - 1)) = i + 1
    BY <1>1
  <2> QED BY <1>5, <2>1, <2>2, <2>3, <2>4 DEF a, b
<1>7. DOMAIN less = 1 .. n - 1
  BY <1>1, <1>6
<1> HIDE DEF n
<1> DEFINE From(i) == IF i < k THEN i ELSE i + 1
<1>8. \A i \in 1 .. n - 1 : From(i) \in 1 .. n /\ From(i) # k /\ less[i] = list[From(i)]
  BY <1>1, <1>2, <1>6
<1>9. \A i, j \in 1 .. n - 1 : From(i) = From(j) => i = j
  BY <1>1
<1>10. ASSUME NEW i \in 1 .. n, i # k PROVE \E j \in 1 .. n - 1 : From(j) = i
  <2>1. CASE i < k
    BY <1>1, <2>1
  <2>2. CASE ~(i < k)
    <3>1. i - 1 \in 1 .. n - 1 /\ ~(i - 1 < k)
      BY <1>1, <1>10, <2>2
    <3>2. From(i - 1) = i
      BY <3>1
    <3> QED BY <3>1, <3>2
  <2> QED BY <2>1, <2>2
<1> HIDE DEF From
<1>11. Event!IsInjective(less)
  BY <1>1, <1>7, <1>8, <1>9 DEF Event!IsInjective
<1>12. ASSUME NEW f
       PROVE  (\E i \in 1 .. n - 1 : less[i] = f) <=> f # e /\ \E i \in 1 .. n : list[i] = f
  <2>1. ASSUME NEW i \in 1 .. n - 1, less[i] = f PROVE f # e /\ \E j \in 1 .. n : list[j] = f
    BY <1>1, <1>2, <1>8, <2>1 DEF Event!IsInjective
  <2>2. ASSUME f # e, NEW i \in 1 .. n, list[i] = f PROVE \E j \in 1 .. n - 1 : less[j] = f
    <3>1. PICK j \in 1 .. n - 1 : From(j) = i
      BY <1>2, <1>10, <2>2
    <3> QED BY <1>8, <2>2, <3>1
  <2> QED BY <2>1, <2>2
<1> QED BY <1>1, <1>6, <1>7, <1>11, <1>12 DEF less

\* While nobody walks through the list it may change.
LEMMA NobodyWalks ==
  ASSUME CalledInOrder, Event!rwlockFree, UNCHANGED signal
  PROVE  CalledInOrder'
<1>1. \A g \in Signallers : signal[g] = Event!Idle
  BY DEF CalledInOrder, Event!rwlockFree
<1> QED BY <1>1 DEF CalledInOrder

\* A signaller goes on while the list stays.
LEMMA SignallerGoesOn ==
  ASSUME Listed, CalledInOrder, UNCHANGED <<events, client>>, NEW g \in Signallers, NEW x,
         signal' = [signal EXCEPT ![g] = x],
         \/ x = Event!Idle
         \/ /\ DOMAIN x = {"at", "type", "pos", "called", "due"}
            /\ x.at \in {"walk", "called"} /\ Walking(x)
  PROVE  Listed' /\ CalledInOrder'
<1>1. DOMAIN signal' = Signallers /\ signal'[g] = x
      /\ \A h \in Signallers : h # g => signal'[h] = signal[h]
  BY DEF CalledInOrder
<1>2. ASSUME NEW y, Walking(y) PROVE Walking(y)'
  BY <1>2 DEF Walking, Passed, Event!Subscribed
<1>3. CalledInOrder'
  <2> SUFFICES ASSUME NEW h \in Signallers
               PROVE  \/ signal'[h] = Event!Idle
                      \/ /\ DOMAIN signal'[h] = {"at", "type", "pos", "called", "due"}
                         /\ signal'[h].at \in {"walk", "called"}
                         /\ Walking(signal[h])'
    BY <1>1 DEF CalledInOrder
  <2>1. CASE h = g
    <3>1. Walking(x) => \A z : z = x => Walking(z)
      OBVIOUS
    <3> QED BY <1>1, <2>1 DEF Walking, Passed, Event!Subscribed
  <2>2. CASE h # g
    BY <1>1, <2>2 DEF CalledInOrder, Walking, Passed, Event!Subscribed
  <2> QED BY <2>1, <2>2
<1>4. Listed'
  BY DEF Listed, Event!Subscribed
<1> QED BY <1>3, <1>4

LEMMA ClientCalls ==
  ASSUME Listed, CalledInOrder,
         \/ \E s \in Users : Event!AddsEvent(s)
         \/ \E s \in Users, t \in EventTypes :
               \/ Event!SubscribedAlready(s, t) \/ Event!AmlogicEventSubscribe(s, t)
               \/ Event!AmlogicEventUnsubscribe(s, t)
  PROVE  Listed' /\ CalledInOrder'
<1>1. CASE \E s \in Users : Event!AddsEvent(s)
  <2>1. PICK s \in Users : Event!AddsEvent(s)
    BY <1>1
  <2> DEFINE t == client[s].type
             e == [type |-> t, cb |-> s]
  <2>2. /\ client[s].at = "adding" /\ Event!rwlockFree /\ UNCHANGED signal
        /\ events' = <<e>> \o events
        /\ client' = [client EXCEPT ![s].at = "idle", ![s].on = @ \cup {t}]
    BY <2>1 DEF Event!AddsEvent
  <2>3. t \in EventTypes /\ ~Event!Subscribed(s, t) /\ events \in Seq(Subscriptions)
        /\ Event!IsInjective(events)
    BY <2>2 DEF Listed
  <2>4. e \in Subscriptions /\ \A i \in DOMAIN events : events[i] # e
    BY <2>3 DEF Event!Subscribed, Subscriptions
  <2>5. /\ DOMAIN client' = Users
        /\ \A w \in Users : w # s => client'[w] = client[w]
        /\ DOMAIN client'[s] = {"at", "type", "on"} /\ client'[s].at = "idle"
        /\ client'[s].on = client[s].on \cup {t}
    BY <2>2 DEF Listed
  <2> HIDE DEF t, e
  <2> DEFINE more == <<e>> \o events
  <2>0. /\ more \in Seq(Subscriptions) /\ Event!IsInjective(more)
        /\ \A f : (\E i \in DOMAIN more : more[i] = f)
                  <=> f = e \/ \E i \in DOMAIN events : events[i] = f
    BY <2>3, <2>4, AddedToList
  <2>9. events' = more
    BY <2>2
  <2> HIDE DEF more
  <2>6. \A w \in Users, u \in EventTypes :
           Event!Subscribed(w, u)' <=> (w = s /\ u = t) \/ Event!Subscribed(w, u)
    <3> TAKE w \in Users, u \in EventTypes
    <3>1. ([type |-> u, cb |-> w] = e) <=> (w = s /\ u = t)
      BY DEF e
    <3> QED BY <2>0, <2>9, <3>1 DEF Event!Subscribed
  <2>7. events' \in Seq(Subscriptions) /\ Event!IsInjective(events')
    BY <2>0, <2>9
  <2>8. \A w \in Users :
          /\ DOMAIN client'[w] = {"at", "type", "on"}
          /\ client'[w].on \in SUBSET EventTypes
          /\ \A u \in EventTypes : u \in client'[w].on <=> Event!Subscribed(w, u)'
          /\ client'[w].at = "adding" => /\ client'[w].type \in EventTypes
                                         /\ ~Event!Subscribed(w, client[w].type)'
    <3> TAKE w \in Users
    <3>1. CASE w = s
      BY <2>3, <2>5, <2>6, <3>1 DEF Listed
    <3>2. CASE w # s
      BY <2>3, <2>5, <2>6, <3>2 DEF Listed
    <3> QED BY <3>1, <3>2
  <2> QED BY <2>2, <2>5, <2>7, <2>8, NobodyWalks DEF Listed, Event!Subscribed, Event!IsInjective
<1>2. CASE \E s \in Users, t \in EventTypes : Event!SubscribedAlready(s, t)
  <2>1. PICK s \in Users, t \in EventTypes : Event!SubscribedAlready(s, t)
    BY <1>2
  <2>2. /\ Event!Subscribed(s, t) /\ UNCHANGED <<events, signal>>
        /\ client' = [client EXCEPT ![s].on = @ \cup {t}]
    BY <2>1 DEF Event!SubscribedAlready
  <2>3. client[s].on \cup {t} = client[s].on
    BY <2>2 DEF Listed
  <2>4. /\ DOMAIN client' = Users
        /\ \A w \in Users : /\ DOMAIN client'[w] = {"at", "type", "on"}
                            /\ client'[w].on = client[w].on /\ client'[w].at = client[w].at
                            /\ client'[w].type = client[w].type
    BY <2>2, <2>3 DEF Listed
  <2>5. Listed'
    BY <2>2, <2>4 DEF Listed, Event!Subscribed
  <2>6. CalledInOrder'
    BY <2>2 DEF CalledInOrder, Walking, Passed, Event!Subscribed
  <2> QED BY <2>5, <2>6
<1>3. CASE \E s \in Users, t \in EventTypes : Event!AmlogicEventSubscribe(s, t)
  <2>1. PICK s \in Users, t \in EventTypes : Event!AmlogicEventSubscribe(s, t)
    BY <1>3
  <2>2. /\ ~Event!Subscribed(s, t) /\ UNCHANGED <<events, signal>>
        /\ client' = [client EXCEPT ![s].at = "adding", ![s].type = t]
    BY <2>1 DEF Event!AmlogicEventSubscribe
  <2>4. /\ DOMAIN client' = Users
        /\ \A w \in Users : /\ DOMAIN client'[w] = {"at", "type", "on"}
                            /\ client'[w].on = client[w].on
                            /\ w # s => client'[w] = client[w]
        /\ client'[s].type = t
    BY <2>2 DEF Listed
  <2>5. Listed'
    BY <2>1, <2>2, <2>4 DEF Listed, Event!Subscribed
  <2>6. CalledInOrder'
    BY <2>2 DEF CalledInOrder, Walking, Passed, Event!Subscribed
  <2> QED BY <2>5, <2>6
<1>4. CASE \E s \in Users, t \in EventTypes : Event!AmlogicEventUnsubscribe(s, t)
  <2>1. PICK s \in Users, t \in EventTypes : Event!AmlogicEventUnsubscribe(s, t)
    BY <1>4
  <2> DEFINE e == [type |-> t, cb |-> s]
  <2>2. /\ client[s].at = "idle" /\ Event!rwlockFree /\ UNCHANGED signal
        /\ events' = IF Event!Subscribed(s, t) THEN Event!RemoveFirst(events, e) ELSE events
        /\ client' = [client EXCEPT ![s].on = @ \ {t}]
    BY <2>1 DEF Event!AmlogicEventUnsubscribe
  <2>3. events \in Seq(Subscriptions) /\ Event!IsInjective(events)
    BY DEF Listed
  <2>4. Event!Subscribed(s, t) <=> \E i \in DOMAIN events : events[i] = e
    BY DEF Event!Subscribed
  <2> HIDE DEF e
  <2>5. /\ events' \in Seq(Subscriptions) /\ Event!IsInjective(events')
        /\ \A f : (\E i \in DOMAIN events' : events'[i] = f)
                  <=> f # e /\ \E i \in DOMAIN events : events[i] = f
    <3>1. CASE Event!Subscribed(s, t)
      <4> DEFINE less == Event!RemoveFirst(events, e)
      <4>1. /\ less \in Seq(Subscriptions) /\ Event!IsInjective(less)
            /\ \A f : (\E i \in DOMAIN less : less[i] = f)
                      <=> f # e /\ \E i \in DOMAIN events : events[i] = f
        BY <2>3, <2>4, <3>1, RemovedFromList
      <4>2. events' = less
        BY <2>2, <3>1
      <4> HIDE DEF less
      <4> QED BY <4>1, <4>2
    <3>2. CASE ~Event!Subscribed(s, t)
      BY <2>2, <2>3, <2>4, <3>2
    <3> QED BY <3>1, <3>2
  <2>6. /\ DOMAIN client' = Users
        /\ \A w \in Users : w # s => client'[w] = client[w]
        /\ DOMAIN client'[s] = {"at", "type", "on"} /\ client'[s].at = "idle"
        /\ client'[s].on = client[s].on \ {t}
    BY <2>2 DEF Listed
  <2>7. \A w \in Users, u \in EventTypes :
           Event!Subscribed(w, u)' <=> ~(w = s /\ u = t) /\ Event!Subscribed(w, u)
    <3> TAKE w \in Users, u \in EventTypes
    <3>1. ([type |-> u, cb |-> w] = e) <=> (w = s /\ u = t)
      BY DEF e
    <3> QED BY <2>5, <3>1 DEF Event!Subscribed
  <2>8. \A w \in Users :
          /\ DOMAIN client'[w] = {"at", "type", "on"}
          /\ client'[w].on \in SUBSET EventTypes
          /\ \A u \in EventTypes : u \in client'[w].on <=> Event!Subscribed(w, u)'
          /\ client'[w].at = "adding" => /\ client'[w].type \in EventTypes
                                         /\ ~Event!Subscribed(w, client[w].type)'
    <3> TAKE w \in Users
    <3>1. CASE w = s
      BY <2>6, <2>7, <3>1 DEF Listed
    <3>2. CASE w # s
      BY <2>6, <2>7, <3>2 DEF Listed
    <3> QED BY <3>1, <3>2
  <2> QED BY <2>2, <2>5, <2>6, <2>8, NobodyWalks DEF Listed, Event!Subscribed, Event!IsInjective
<1> QED BY <1>1, <1>2, <1>3, <1>4

LEMMA SignallerCalls ==
  ASSUME Listed, CalledInOrder, NEW g \in Signallers,
         \/ \E t \in EventTypes : Event!AmlogicEventSignal(g, t)
         \/ Event!Passes(g) \/ Event!Calls(g) \/ Event!CallbackReturns(g)
         \/ Event!SignalReturns(g)
  PROVE  Listed' /\ CalledInOrder'
<1> DEFINE x == signal[g]
<1>0. Event!Idle.at = "idle" /\ Event!Idle.called = << >>
      /\ DOMAIN Event!Idle = {"at", "type", "pos", "called", "due"}
  BY DEF Event!Idle
<1>1. events \in Seq(Subscriptions) /\ Len(events) \in Nat
  BY DEF Listed
<1>2. x.at \in {"walk", "called"}
        => Walking(x) /\ DOMAIN x = {"at", "type", "pos", "called", "due"}
  BY <1>0 DEF CalledInOrder
<1>3. CASE \E t \in EventTypes : Event!AmlogicEventSignal(g, t)
  <2>1. PICK t \in EventTypes : Event!AmlogicEventSignal(g, t)
    BY <1>3
  <2> DEFINE y == [Event!Idle EXCEPT !.at = "walk", !.type = t, !.pos = 1,
                     !.due = {s \in Users : t \in client[s].on}]
  <2>2. signal' = [signal EXCEPT ![g] = y] /\ UNCHANGED <<events, client>>
    BY <2>1 DEF Event!AmlogicEventSignal
  <2>3. /\ DOMAIN y = {"at", "type", "pos", "called", "due"} /\ y.at = "walk" /\ y.type = t
        /\ y.pos = 1 /\ y.called = << >> /\ y.due = {s \in Users : t \in client[s].on}
    BY <1>0
  <2> HIDE DEF y
  <2>4. y.due = {s \in Users : Event!Subscribed(s, t)}
    BY <2>3 DEF Listed
  <2>5. Passed(y) = 0
    BY <2>3 DEF Passed
  <2>6. y.called \in Seq(Users) /\ DOMAIN y.called = {} /\ Event!IsInjective(y.called)
    BY <2>3 DEF Event!IsInjective
  <2>7. y.pos \in 1 .. Len(events) + 1 /\ 1 .. Passed(y) = {}
    BY <1>1, <2>3, <2>5
  <2>8. Walking(y)
    BY <2>3, <2>4, <2>6, <2>7 DEF Walking
  <2> QED BY <2>2, <2>3, <2>8, SignallerGoesOn
<1>4. CASE Event!Passes(g)
  <2> DEFINE y == [x EXCEPT !.pos = @ + 1]
  <2>1. /\ x.at = "walk" /\ x.pos =< Len(events) /\ events[x.pos].type # x.type
        /\ signal' = [signal EXCEPT ![g] = y] /\ UNCHANGED <<events, client>>
    BY <1>4 DEF Event!Passes, CalledInOrder
  <2>2. Walking(x) /\ DOMAIN x = {"at", "type", "pos", "called", "due"}
    BY <1>2, <2>1
  <2>3. /\ DOMAIN y = {"at", "type", "pos", "called", "due"} /\ y.at = "walk"
        /\ y.type = x.type /\ y.pos = x.pos + 1 /\ y.called = x.called /\ y.due = x.due
    BY <2>1, <2>2
  <2> HIDE DEF x, y
  <2>4. /\ x.pos \in 1 .. Len(events) /\ Passed(x) = x.pos - 1 /\ Passed(y) = x.pos
    BY <1>1, <2>1, <2>2, <2>3 DEF Walking, Passed
  <2>5. /\ x.pos + 1 \in 1 .. Len(events) + 1
        /\ \A i \in 1 .. x.pos : (i = x.pos) \/ (i \in 1 .. x.pos - 1)
        /\ \A i \in 1 .. x.pos - 1 : i \in 1 .. x.pos
    BY <1>1, <2>4
  <2>6. \A i \in 1 .. Passed(y) :
          events[i].type = y.type => \E j \in DOMAIN y.called : y.called[j] = events[i].cb
    BY <2>1, <2>2, <2>3, <2>4, <2>5 DEF Walking
  <2>7. \A j \in DOMAIN y.called :
          \E i \in 1 .. Passed(y) : events[i] = [type |-> y.type, cb |-> y.called[j]]
    BY <2>2, <2>3, <2>4, <2>5 DEF Walking
  <2>8. Walking(y)
    BY <2>2, <2>3, <2>5, <2>6, <2>7 DEF Walking
  <2> QED BY <2>1, <2>3, <2>8, SignallerGoesOn
<1>5. CASE Event!Calls(g)
  <2> DEFINE c == events[x.pos].cb
             y == [x EXCEPT !.at = "called", !.called = Append(@, c)]
  <2>1. /\ x.at = "walk" /\ x.pos =< Len(events) /\ events[x.pos].type = x.type
        /\ signal' = [signal EXCEPT ![g] = y] /\ UNCHANGED <<events, client>>
    BY <1>5 DEF Event!Calls, CalledInOrder
  <2>2. Walking(x) /\ DOMAIN x = {"at", "type", "pos", "called", "due"}
    BY <1>2, <2>1
  <2>3. /\ DOMAIN y = {"at", "type", "pos", "called", "due"} /\ y.at = "called"
        /\ y.type = x.type /\ y.pos = x.pos /\ y.called = Append(x.called, c) /\ y.due = x.due
    BY <2>1, <2>2
  <2> HIDE DEF x, y
  <2>4. /\ x.pos \in 1 .. Len(events) /\ Passed(x) = x.pos - 1 /\ Passed(y) = x.pos
    BY <1>1, <2>1, <2>2, <2>3 DEF Walking, Passed
  <2>5. events[x.pos] \in Subscriptions
    BY <1>1, <2>4
  <2>6. c \in Users /\ events[x.pos] = [type |-> x.type, cb |-> c]
    BY <2>1, <2>5 DEF Subscriptions
  <2> DEFINE n == Len(x.called)
  <2>7. x.called \in Seq(Users) /\ n \in Nat /\ DOMAIN x.called = 1 .. n
    BY <2>2 DEF Walking
  <2> HIDE DEF c
  <2>8. /\ y.called \in Seq(Users) /\ Len(y.called) = n + 1 /\ y.called[n + 1] = c
        /\ DOMAIN y.called = 1 .. n + 1
        /\ \A j \in 1 .. n : y.called[j] = x.called[j]
    BY <2>3, <2>6, <2>7
  <2> HIDE DEF n
  <2>9. \A j \in 1 .. n : x.called[j] # c
    <3> SUFFICES ASSUME NEW j \in 1 .. n, x.called[j] = c PROVE FALSE
      OBVIOUS
    <3>1. PICK i \in 1 .. x.pos - 1 : events[i] = [type |-> x.type, cb |-> c]
      BY <2>2, <2>4, <2>7 DEF Walking
    <3>2. i \in DOMAIN events /\ x.pos \in DOMAIN events /\ events[i] = events[x.pos] /\ i # x.pos
      BY <1>1, <2>4, <2>6, <3>1
    <3> QED BY <3>2 DEF Listed, Event!IsInjective
  <2>10. Event!IsInjective(y.called)
    <3> SUFFICES ASSUME NEW a \in 1 .. n + 1, NEW b \in 1 .. n + 1, y.called[a] = y.called[b]
                 PROVE  a = b
      BY <2>8 DEF Event!IsInjective
    <3>1. (a \in 1 .. n \/ a = n + 1) /\ (b \in 1 .. n \/ b = n + 1)
      BY <2>7
    <3>2. \A j, k \in 1 .. n : x.called[j] = x.called[k] => j = k
      BY <2>2, <2>7 DEF Walking, Event!IsInjective
    <3>3. CASE a \in 1 .. n /\ b \in 1 .. n
      BY <2>8, <3>2, <3>3, Zenon
    <3>4. CASE a \in 1 .. n /\ b = n + 1
      BY <2>8, <2>9, <3>4, Zenon
    <3>5. CASE a = n + 1 /\ b \in 1 .. n
      BY <2>8, <2>9, <3>5, Zenon
    <3> QED BY <3>1, <3>3, <3>4, <3>5, Zenon
  <2>11. \A j \in DOMAIN y.called :
           \E i \in 1 .. x.pos : events[i] = [type |-> x.type, cb |-> y.called[j]]
    <3> TAKE j \in DOMAIN y.called
    <3>1. CASE j = n + 1
      BY <2>4, <2>6, <2>8, <3>1
    <3>2. CASE j \in 1 .. n
      <4>1. PICK i \in 1 .. x.pos - 1 : events[i] = [type |-> x.type, cb |-> x.called[j]]
        BY <2>2, <2>4, <2>7, <3>2 DEF Walking
      <4>2. i \in 1 .. x.pos
        BY <1>1, <2>4
      <4> QED BY <2>8, <3>2, <4>1, <4>2
    <3> QED BY <2>7, <2>8, <3>1, <3>2
  <2>12. \A i \in 1 .. x.pos :
           events[i].type = x.type => \E j \in DOMAIN y.called : y.called[j] = events[i].cb
    <3> SUFFICES ASSUME NEW i \in 1 .. x.pos, events[i].type = x.type
                 PROVE  \E j \in DOMAIN y.called : y.called[j] = events[i].cb
      OBVIOUS
    <3>1. CASE i = x.pos
      BY <2>6, <2>7, <2>8, <3>1
    <3>2. CASE i # x.pos
      <4>1. i \in 1 .. x.pos - 1
        BY <1>1, <2>4, <3>2
      <4>2. PICK j \in 1 .. n : x.called[j] = events[i].cb
        BY <2>2, <2>4, <2>7, <4>1 DEF Walking
      <4>3. j \in 1 .. n + 1
        BY <2>7
      <4> QED BY <2>8, <4>2, <4>3
    <3> QED BY <3>1, <3>2
  <2>13. /\ y.called # << >> /\ events[y.pos] = [type |-> y.type, cb |-> y.called[Len(y.called)]]
    <3>1. y.called # << >>
      BY <2>7, <2>8
    <3>2. y.called[Len(y.called)] = c
      BY <2>8
    <3> QED BY <2>3, <2>6, <3>1, <3>2
  <2>14. y.type \in EventTypes /\ y.pos \in 1 .. Len(events) + 1
         /\ y.due = {s \in Users : Event!Subscribed(s, y.type)}
    BY <2>2, <2>3 DEF Walking
  <2>15. /\ \A j \in DOMAIN y.called :
              \E i \in 1 .. Passed(y) : events[i] = [type |-> y.type, cb |-> y.called[j]]
         /\ \A i \in 1 .. Passed(y) :
              events[i].type = y.type => \E j \in DOMAIN y.called : y.called[j] = events[i].cb
    BY <2>3, <2>4, <2>11, <2>12
  <2>16. y.called \in Seq(Users) /\ y.pos \in 1 .. Len(events)
    BY <2>3, <2>4, <2>8
  <2>17. Walking(y)
    BY <2>10, <2>13, <2>14, <2>15, <2>16 DEF Walking
  <2> QED BY <2>1, <2>3, <2>17, SignallerGoesOn
<1>6. CASE Event!CallbackReturns(g)
  <2> DEFINE y == [x EXCEPT !.at = "walk", !.pos = @ + 1]
  <2>1. /\ x.at = "called" /\ signal' = [signal EXCEPT ![g] = y] /\ UNCHANGED <<events, client>>
    BY <1>6 DEF Event!CallbackReturns, CalledInOrder
  <2>2. Walking(x) /\ DOMAIN x = {"at", "type", "pos", "called", "due"}
    BY <1>2, <2>1
  <2>3. /\ DOMAIN y = {"at", "type", "pos", "called", "due"} /\ y.at = "walk"
        /\ y.type = x.type /\ y.pos = x.pos + 1 /\ y.called = x.called /\ y.due = x.due
    BY <2>1, <2>2
  <2> HIDE DEF x, y
  <2>4. /\ x.pos \in 1 .. Len(events) /\ Passed(x) = x.pos /\ Passed(y) = x.pos
    BY <1>1, <2>1, <2>2, <2>3 DEF Walking, Passed
  <2>5. Walking(y)
    BY <1>1, <2>2, <2>3, <2>4 DEF Walking
  <2> QED BY <2>1, <2>3, <2>5, SignallerGoesOn
<1>7. CASE Event!SignalReturns(g)
  BY <1>7, SignallerGoesOn DEF Event!SignalReturns
<1> QED BY <1>3, <1>4, <1>5, <1>6, <1>7

LEMMA NextListed == Listed /\ CalledInOrder /\ [Event!Next]_(Event!aevars) => Listed' /\ CalledInOrder'
<1> SUFFICES ASSUME Listed, CalledInOrder, [Event!Next]_(Event!aevars) PROVE Listed' /\ CalledInOrder'
  OBVIOUS
<1>1. CASE UNCHANGED Event!aevars
  BY <1>1 DEF Event!aevars, Listed, CalledInOrder, Walking, Passed, Event!Subscribed
<1>2. CASE Event!Next
  BY <1>2, ClientCalls, SignallerCalls DEF Event!Next
<1> QED BY <1>1, <1>2

\* An event is given once to each callback that was subscribed when it was signalled, and a
\* callback runs only while it is subscribed, although a subscription looks for itself and
\* adds itself under the lock taken anew (AmlogicEvent.c).
THEOREM EventGivenOnceAlways ==
  Event!Init /\ [][Event!Next]_(Event!aevars)
    => []Event!EventGivenOnce /\ []Event!CalledWhileSubscribed
BY InitListed, NextListed, CalledInOrderIsSafe, PTL

-----------------------------------------------------------------------------
(* The bytes of a device, on their way.                                    *)

\* The bytes after a and up to b.
Bytes(a, b) == [i \in 1 .. b - a |-> a + i]
\* Segments that hold the bytes after a and up to b, each from the end of the one before.
Cuts(ends, s, a, b) ==
  /\ ends \in [0 .. Len(s) -> Nat] /\ ends[0] = a /\ ends[Len(s)] = b
  /\ \A i, j \in 0 .. Len(s) : i <= j => ends[i] <= ends[j]
  /\ \A i \in 1 .. Len(s) : s[i] = Bytes(ends[i - 1], ends[i])
Hold(s, a, b) == s \in Seq(Seq(Nat)) /\ \E ends : Cuts(ends, s, a, b)

LEMMA BytesJoin ==
  ASSUME NEW a \in Nat, NEW b \in Nat, NEW c \in Nat, a <= b, b <= c
  PROVE  /\ Bytes(a, b) \in Seq(Nat) /\ Len(Bytes(a, b)) = b - a
         /\ Bytes(a, b) \o Bytes(b, c) = Bytes(a, c)
<1>1. ASSUME NEW x \in Nat, NEW y \in Nat, x <= y
      PROVE  /\ Bytes(x, y) \in Seq(Nat) /\ Len(Bytes(x, y)) = y - x
             /\ \A i \in 1 .. y - x : Bytes(x, y)[i] = x + i
  <2>1. y - x \in Nat
    BY <1>1
  <2>2. \A i \in 1 .. y - x : x + i \in Nat
    BY <2>1
  <2>3. Bytes(x, y) \in Seq(Nat)
    BY <2>1, <2>2 DEF Bytes
  <2>4. DOMAIN Bytes(x, y) = 1 .. y - x
    BY DEF Bytes
  <2> QED BY <2>1, <2>3, <2>4 DEF Bytes
<1> DEFINE p == Bytes(a, b)  q == Bytes(b, c)  r == Bytes(a, c)
<1>2. /\ p \in Seq(Nat) /\ Len(p) = b - a /\ \A i \in 1 .. b - a : p[i] = a + i
      /\ q \in Seq(Nat) /\ Len(q) = c - b /\ \A i \in 1 .. c - b : q[i] = b + i
      /\ r \in Seq(Nat) /\ Len(r) = c - a /\ \A i \in 1 .. c - a : r[i] = a + i
  <2>1. a <= c
    OBVIOUS
  <2> HIDE DEF p, q, r
  <2> QED BY <1>1, <2>1 DEF p, q, r
<1> HIDE DEF p, q, r
<1>3. /\ p \o q \in Seq(Nat) /\ Len(p \o q) = c - a
      /\ \A i \in 1 .. c - a : (p \o q)[i] = IF i <= b - a THEN p[i] ELSE q[i - (b - a)]
  <2>1. p \in Seq(Nat) /\ q \in Seq(Nat) /\ Len(p) = b - a /\ Len(q) = c - b
        /\ (b - a) + (c - b) = c - a
    BY <1>2
  <2>2. /\ p \o q \in Seq(Nat) /\ Len(p \o q) = Len(p) + Len(q)
        /\ \A i \in 1 .. Len(p) + Len(q) :
             (p \o q)[i] = IF i <= Len(p) THEN p[i] ELSE q[i - Len(p)]
    BY <2>1, ConcatProperties, Zenon
  <2> QED BY <2>1, <2>2
<1>4. \A i \in 1 .. c - a : (p \o q)[i] = r[i]
  <2> TAKE i \in 1 .. c - a
  <2>1. CASE i <= b - a
    <3>1. i \in 1 .. b - a
      BY <2>1
    <3> QED BY <1>2, <1>3, <2>1, <3>1
  <2>2. CASE i > b - a
    <3>1. i - (b - a) \in 1 .. c - b /\ b + (i - (b - a)) = a + i
      BY <2>2
    <3>2. (p \o q)[i] = q[i - (b - a)]
      <4>1. ~(i <= b - a)
        BY <2>2
      <4> QED BY <1>3, <4>1, Zenon
    <3>3. q[i - (b - a)] = b + (i - (b - a)) /\ r[i] = a + i
      BY <1>2, <3>1
    <3> QED BY <3>1, <3>2, <3>3, Zenon
  <2>3. i <= b - a \/ i > b - a
    OBVIOUS
  <2> QED BY <2>1, <2>2, <2>3, Zenon
<1>5. p \o q = r
  BY <1>2, <1>3, <1>4, SeqEqual
<1> QED BY <1>2, <1>5 DEF p, q, r

LEMMA BytesCut ==
  ASSUME NEW a \in Nat, NEW b \in Nat, a <= b, NEW n \in 0 .. b - a
  PROVE  /\ SubSeq(Bytes(a, b), 1, n) = Bytes(a, a + n)
         /\ SubSeq(Bytes(a, b), n + 1, b - a) = Bytes(a + n, b)
<1> DEFINE p == Bytes(a, b)
<1>1. p \in Seq(Nat) /\ Len(p) = b - a
  <2>1. b \in Nat /\ b <= b
    OBVIOUS
  <2> QED BY <2>1, BytesJoin
<1>2. \A i \in 1 .. b - a : p[i] = a + i
  BY DEF Bytes
<1> HIDE DEF p
<1>3. SubSeq(p, 1, n) = Bytes(a, a + n)
  <2>1. SubSeq(p, 1, n) = [i \in 1 .. n |-> p[i]]
    BY <1>1
  <2>2. \A i \in 1 .. n : p[i] = a + i
    BY <1>2
  <2>3. (a + n) - a = n
    OBVIOUS
  <2> QED BY <2>1, <2>2, <2>3 DEF Bytes
<1>4. SubSeq(p, n + 1, b - a) = Bytes(a + n, b)
  <2>1. SubSeq(p, n + 1, b - a) = [i \in 1 .. (b - a) - n |-> p[n + i]]
    BY <1>1
  <2>2. \A i \in 1 .. (b - a) - n : p[n + i] = (a + n) + i
    BY <1>2
  <2>3. b - (a + n) = (b - a) - n
    OBVIOUS
  <2> QED BY <2>1, <2>2, <2>3 DEF Bytes
<1> QED BY <1>3, <1>4 DEF p

LEMMA SegmentAdded ==
  ASSUME NEW s, NEW a \in Nat, NEW b \in Nat, NEW c \in Nat, b <= c, Hold(s, a, b)
  PROVE  Hold(Append(s, Bytes(b, c)), a, c)
<1>1. PICK ends : Cuts(ends, s, a, b)
  BY DEF Hold
<1> DEFINE x == Bytes(b, c)  t == Append(s, x)  n == Len(s)
           new == [i \in 0 .. n + 1 |-> IF i <= n THEN ends[i] ELSE c]
<1>2. s \in Seq(Seq(Nat)) /\ n \in Nat /\ x \in Seq(Nat)
  <2>1. c <= c
    OBVIOUS
  <2>2. x \in Seq(Nat)
    BY <2>1, BytesJoin
  <2> QED BY <2>2 DEF Hold
<1> HIDE DEF x
<1>3. t \in Seq(Seq(Nat)) /\ Len(t) = n + 1 /\ t[n + 1] = x /\ \A i \in 1 .. n : t[i] = s[i]
  BY <1>2
<1>4. /\ ends \in [0 .. n -> Nat] /\ ends[0] = a /\ ends[n] = b
      /\ \A i, j \in 0 .. n : i <= j => ends[i] <= ends[j]
      /\ \A i \in 1 .. n : s[i] = Bytes(ends[i - 1], ends[i])
  BY <1>1 DEF Cuts
<1> HIDE DEF n, t
<1>5. /\ new \in [0 .. n + 1 -> Nat] /\ \A i \in 0 .. n : new[i] = ends[i]
      /\ new[n + 1] = c
  BY <1>2, <1>4
<1> HIDE DEF new
<1>6. ASSUME NEW i \in 0 .. n + 1, NEW j \in 0 .. n + 1, i <= j PROVE new[i] <= new[j]
  <2>1. CASE j <= n
    <3>1. i \in 0 .. n /\ j \in 0 .. n
      BY <1>2, <1>6, <2>1
    <3> QED BY <1>4, <1>5, <1>6, <3>1
  <2>2. CASE j = n + 1 /\ i <= n
    <3>1. i \in 0 .. n /\ n \in 0 .. n
      BY <1>2, <2>2
    <3>2. ends[i] <= ends[n] /\ ends[i] \in Nat
      BY <1>4, <3>1
    <3> QED BY <1>4, <1>5, <2>2, <3>1, <3>2
  <2>3. CASE i = n + 1 /\ j = n + 1
    BY <1>5, <2>3
  <2> QED BY <1>2, <1>6, <2>1, <2>2, <2>3
<1>7. ASSUME NEW i \in 1 .. n + 1 PROVE t[i] = Bytes(new[i - 1], new[i])
  <2>1. CASE i <= n
    <3>1. i \in 1 .. n /\ i \in 0 .. n /\ i - 1 \in 0 .. n
      BY <1>2, <2>1
    <3>2. new[i] = ends[i] /\ new[i - 1] = ends[i - 1] /\ t[i] = s[i]
      BY <1>3, <1>5, <3>1
    <3> QED BY <1>4, <3>1, <3>2
  <2>2. CASE i = n + 1
    <3>1. n \in 0 .. n /\ i - 1 = n
      BY <1>2, <2>2
    <3>2. new[i - 1] = b /\ new[i] = c /\ t[i] = x
      BY <1>3, <1>4, <1>5, <2>2, <3>1
    <3> QED BY <3>2 DEF x
  <2> QED BY <1>2, <2>1, <2>2
<1>8. new[0] = a
  BY <1>2, <1>4, <1>5
<1>9. Cuts(new, t, a, c)
  BY <1>3, <1>5, <1>6, <1>7, <1>8 DEF Cuts
<1> QED BY <1>3, <1>9 DEF Hold, t, x

LEMMA SegmentTaken ==
  ASSUME NEW s, NEW a \in Nat, NEW b \in Nat, Hold(s, a, b), s # << >>
  PROVE  \E e \in Nat : /\ a <= e /\ e <= b
                        /\ Head(s) = Bytes(a, e) /\ Hold(Tail(s), e, b)
<1>1. PICK ends : Cuts(ends, s, a, b)
  BY DEF Hold
<1> DEFINE t == Tail(s)  n == Len(t)  e == ends[1]
           new == [i \in 0 .. n |-> ends[i + 1]]
<1>2. /\ s \in Seq(Seq(Nat)) /\ t \in Seq(Seq(Nat)) /\ n \in Nat /\ Len(s) = n + 1
      /\ Head(s) = s[1] /\ \A i \in 1 .. n : t[i] = s[i + 1]
  BY DEF Hold
<1> HIDE DEF t, n
<1>3. /\ ends \in [0 .. n + 1 -> Nat] /\ ends[0] = a /\ ends[n + 1] = b
      /\ \A i, j \in 0 .. n + 1 : i <= j => ends[i] <= ends[j]
      /\ \A i \in 1 .. n + 1 : s[i] = Bytes(ends[i - 1], ends[i])
  BY <1>1, <1>2 DEF Cuts
<1>4. 0 \in 0 .. n + 1 /\ 1 \in 0 .. n + 1 /\ 1 \in 1 .. n + 1 /\ n + 1 \in 0 .. n + 1 /\ 1 <= n + 1
      /\ 1 - 1 = 0
  BY <1>2
<1>5. e \in Nat /\ a <= e /\ e <= b /\ Head(s) = Bytes(a, e)
  BY <1>2, <1>3, <1>4
<1>6. new \in [0 .. n -> Nat] /\ \A i \in 0 .. n : new[i] = ends[i + 1]
  <2>1. \A i \in 0 .. n : i + 1 \in 0 .. n + 1
    BY <1>2
  <2> QED BY <1>3, <2>1
<1>7. new[0] = e /\ new[n] = b
  BY <1>2, <1>3, <1>6
<1> HIDE DEF new, e
<1>8. ASSUME NEW i \in 0 .. n, NEW j \in 0 .. n, i <= j PROVE new[i] <= new[j]
  <2>1. i + 1 \in 0 .. n + 1 /\ j + 1 \in 0 .. n + 1 /\ i + 1 <= j + 1
    BY <1>2, <1>8
  <2> QED BY <1>3, <1>6, <2>1
<1>9. ASSUME NEW i \in 1 .. n PROVE t[i] = Bytes(new[i - 1], new[i])
  <2>1. i \in 0 .. n /\ i - 1 \in 0 .. n /\ i + 1 \in 1 .. n + 1 /\ (i - 1) + 1 = i /\ (i + 1) - 1 = i
    BY <1>2
  <2>2. new[i] = ends[i + 1] /\ new[i - 1] = ends[i] /\ t[i] = s[i + 1]
    BY <1>2, <1>6, <2>1
  <2>3. s[i + 1] = Bytes(ends[i], ends[i + 1])
    BY <1>3, <2>1
  <2> QED BY <2>2, <2>3
<1>10. Cuts(new, t, e, b)
  BY <1>6, <1>7, <1>8, <1>9 DEF Cuts, n
<1> QED BY <1>2, <1>5, <1>10 DEF Hold, t

LEMMA Flattened ==
  ASSUME NEW s, NEW a \in Nat, NEW b \in Nat, Hold(s, a, b)
  PROVE  a <= b /\ Source!FlattenSeq(s) = Bytes(a, b)
<1>1. PICK ends : Cuts(ends, s, a, b)
  BY DEF Hold
<1> DEFINE n == Len(s)
<1>2. s \in Seq(Seq(Nat)) /\ n \in Nat
  BY DEF Hold
<1>3. /\ ends \in [0 .. n -> Nat] /\ ends[0] = a /\ ends[n] = b
      /\ \A i, j \in 0 .. n : i <= j => ends[i] <= ends[j]
      /\ \A i \in 1 .. n : s[i] = Bytes(ends[i - 1], ends[i])
  BY <1>1 DEF Cuts
<1>4. a <= b
  BY <1>2, <1>3
<1>5. CASE n = 0
  <2>1. s = << >> /\ a = b
    BY <1>2, <1>3, <1>5
  <2>2. Bytes(a, b) = << >>
    BY <2>1 DEF Bytes
  <2> QED BY <1>4, <1>5, <2>1, <2>2 DEF Source!FlattenSeq
<1>6. CASE n # 0
  <2> DEFINE Made(f) == f = [i \in 1 .. Len(s) |-> IF i = 1 THEN s[i] ELSE f[i - 1] \o s[i]]
             flatten == CHOOSE f : Made(f)
             g == [i \in 1 .. n |-> Bytes(a, ends[i])]
  <2>1. Source!FlattenSeq(s) = flatten[Len(s)]
    BY <1>6, Zenon DEF Source!FlattenSeq
  <2>2. ASSUME NEW i \in 1 .. n
        PROVE  g[i] = IF i = 1 THEN s[i] ELSE g[i - 1] \o s[i]
    <3>1. i \in 0 .. n /\ 0 \in 0 .. n /\ i - 1 \in 0 .. n /\ g[i] = Bytes(a, ends[i])
      BY <1>2
    <3>2. CASE i = 1
      BY <1>3, <3>1, <3>2
    <3>3. CASE i # 1
      <4>1. i - 1 \in 1 .. n /\ g[i - 1] = Bytes(a, ends[i - 1])
        BY <1>2, <3>3
      <4>2. /\ ends[i - 1] \in Nat /\ ends[i] \in Nat
            /\ a <= ends[i - 1] /\ ends[i - 1] <= ends[i]
        <5> HIDE DEF n, g
        <5>1. ends[i - 1] \in Nat /\ ends[i] \in Nat
          BY <1>3, <3>1
        <5>2. 0 <= i - 1 /\ i - 1 <= i
          BY <3>1
        <5>3. ends[0] <= ends[i - 1] /\ ends[i - 1] <= ends[i]
          BY <1>3, <3>1, <5>2, Zenon
        <5> QED BY <1>3, <5>1, <5>3
      <4>3. s[i] = Bytes(ends[i - 1], ends[i])
        BY <1>3
      <4> HIDE DEF g
      <4>4. Bytes(a, ends[i - 1]) \o Bytes(ends[i - 1], ends[i]) = Bytes(a, ends[i])
        BY <4>2, BytesJoin
      <4> QED BY <3>1, <3>3, <4>1, <4>3, <4>4
    <3> QED BY <3>2, <3>3
  <2>3. Made(g)
    <3>1. DOMAIN g = 1 .. n /\ g = [i \in 1 .. n |-> g[i]]
      OBVIOUS
    <3> HIDE DEF g
    <3> QED BY <2>2, <3>1
  <2> HIDE DEF g, Made
  <2>4. Made(flatten)
    BY <2>3, Zenon
  <2> HIDE DEF flatten
  <2>5. \A i \in 1 .. n : flatten[i] = IF i = 1 THEN s[i] ELSE flatten[i - 1] \o s[i]
    BY <2>4 DEF Made
  <2> DEFINE P == {i \in Nat : i + 1 \in 1 .. n => flatten[i + 1] = Bytes(a, ends[i + 1])}
  <2>6. 0 \in P
    <3>1. 1 \in 1 .. n /\ 0 + 1 = 1 /\ 1 - 1 = 0
      BY <1>2, <1>6
    <3>2. flatten[1] = s[1] /\ s[1] = Bytes(ends[0], ends[1])
      BY <1>3, <2>5, <3>1
    <3> QED BY <1>3, <3>1, <3>2
  <2>7. ASSUME NEW i \in P PROVE i + 1 \in P
    <3> SUFFICES ASSUME (i + 1) + 1 \in 1 .. n
                 PROVE  flatten[(i + 1) + 1] = Bytes(a, ends[(i + 1) + 1])
      OBVIOUS
    <3> DEFINE k == (i + 1) + 1
    <3>1. /\ i \in Nat /\ k \in 1 .. n /\ k # 1 /\ k - 1 = i + 1 /\ k - 1 \in 1 .. n
          /\ k \in 0 .. n /\ k - 1 \in 0 .. n /\ 0 \in 0 .. n /\ k - 1 <= k /\ 0 <= k - 1
      BY <1>2
    <3>2. flatten[k - 1] = Bytes(a, ends[k - 1])
      BY <3>1
    <3> HIDE DEF k
    <3>3. flatten[k] = flatten[k - 1] \o s[k] /\ s[k] = Bytes(ends[k - 1], ends[k])
      BY <1>3, <2>5, <3>1
    <3>4. /\ ends[k - 1] \in Nat /\ ends[k] \in Nat
          /\ a <= ends[k - 1] /\ ends[k - 1] <= ends[k]
      BY <1>3, <3>1
    <3>5. Bytes(a, ends[k - 1]) \o Bytes(ends[k - 1], ends[k]) = Bytes(a, ends[k])
      BY <3>4, BytesJoin
    <3>6. flatten[k] = Bytes(a, ends[k])
      BY <3>2, <3>3, <3>5
    <3> QED BY <3>6 DEF k
  <2>8. n - 1 \in P
    <3>1. P \in SUBSET Nat /\ n - 1 \in Nat
      BY <1>2, <1>6
    <3> HIDE DEF P
    <3>2. P = Nat
      <4> DEFINE Q == Nat \ P
      <4>1. SUFFICES ASSUME Q # {} PROVE FALSE
        BY <3>1
      <4>2. PICK x \in Q : \A y \in Q : x <= y
        BY <4>1, LeastNumber
      <4>3. x \in Nat /\ x # 0 /\ x - 1 \in Nat /\ ~(x <= x - 1)
        BY <2>6
      <4>4. x - 1 \in P
        BY <4>2, <4>3
      <4>5. (x - 1) + 1 \in P
        BY <2>7, <4>4
      <4> QED BY <4>3, <4>5
    <3> QED BY <3>1, <3>2
  <2>9. flatten[n] = Bytes(a, b)
    <3>1. (n - 1) + 1 = n /\ n \in 1 .. n
      BY <1>2, <1>6
    <3> QED BY <1>3, <2>8, <3>1
  <2> QED BY <1>4, <2>1, <2>9
<1> QED BY <1>5, <1>6

\* The segments are closed only of a source that was stopped, and the device after that.
ClosedInTurn ==
  /\ mRdFd \in {"open", "closed"}
  /\ mState = "STARTED" => owner \in {"on", "stop"}
  /\ mEnabled => owner \in {"new", "on", "stop", "notify"}
  /\ mRdFd = "closed" => owner \in {"joinDriver", "gone"}

\* What was read, the rest of the item, the segments - up to the byte c and the byte q - and
\* the chunk that is being read hold all that was given.
Held(c, q) ==
  /\ c \in Nat /\ q \in Nat /\ Len(got) <= c /\ c <= q /\ q <= given
  /\ mCurrentItem = Bytes(Len(got), c) /\ Hold(mSegments, c, q)
  /\ driver.chunk = Bytes(q, given)
  /\ mEnabled => mAvailableDataSize = q - c
Conveyed ==
  /\ DOMAIN driver = {"at", "chunk", "left"} /\ driver.left \in Nat
  /\ driver.at # "read" => driver.chunk = << >>
  /\ DOMAIN reader = {"at", "want", "have"}
  /\ reader.want \in Nat /\ reader.have \in 0 .. reader.want
  /\ reader.at \in {"pop", "wait"} => mCurrentItem = << >>
  /\ given \in Nat /\ got \in Seq(Nat) /\ got = Bytes(0, Len(got))
  /\ mRdFd = "open" => \E c, q : Held(c, q)

LEMMA NoBytes ==
  ASSUME NEW a \in Nat, NEW b \in Nat, a <= b
  PROVE  /\ Bytes(a, a) = << >>
         /\ Bytes(a, b) = << >> => a = b
<1>1. Bytes(a, a) = << >>
  BY DEF Bytes
<1>2. Len(Bytes(a, b)) = b - a
  <2>1. b <= b
    OBVIOUS
  <2> QED BY <2>1, BytesJoin
<1>3. Bytes(a, b) = << >> => b - a = 0
  BY <1>2
<1> QED BY <1>1, <1>3

LEMMA ConveyedIsInOrder ==
  ASSUME ClosedInTurn, Conveyed
  PROVE  Source!BytesInOrder
<1> DEFINE n == Len(got)
<1>1. n \in Nat /\ got = Bytes(0, n) /\ given \in Nat
  BY DEF Conveyed
<1>2. got = [i \in DOMAIN got |-> i]
  <2>1. DOMAIN got = 1 .. n
    BY DEF Conveyed
  <2>2. Bytes(0, n) = [i \in 1 .. n |-> i]
    BY <1>1 DEF Bytes
  <2> QED BY <1>1, <2>1, <2>2
<1>3. ASSUME NEW c, NEW q, Held(c, q)
      PROVE  /\ got \o mCurrentItem \o Source!FlattenSeq(mSegments) \o driver.chunk
                    = [i \in 1 .. given |-> i]
             /\ Len(Source!FlattenSeq(mSegments)) = q - c
  <2>1. /\ c \in Nat /\ q \in Nat /\ n <= c /\ c <= q /\ q <= given
        /\ mCurrentItem = Bytes(n, c) /\ Hold(mSegments, c, q) /\ driver.chunk = Bytes(q, given)
    BY <1>3 DEF Held
  <2>2. Source!FlattenSeq(mSegments) = Bytes(c, q)
    BY <2>1, Flattened
  <2> HIDE DEF n
  <2>3. Bytes(0, n) \o Bytes(n, c) = Bytes(0, c)
    <3>1. 0 \in Nat /\ 0 <= n
      BY <1>1
    <3> QED BY <1>1, <2>1, <3>1, BytesJoin
  <2>4. Bytes(0, c) \o Bytes(c, q) = Bytes(0, q)
    <3>1. 0 \in Nat /\ 0 <= c
      BY <2>1
    <3> QED BY <2>1, <3>1, BytesJoin
  <2>5. Bytes(0, q) \o Bytes(q, given) = Bytes(0, given)
    <3>1. 0 \in Nat /\ 0 <= q
      BY <2>1
    <3> QED BY <1>1, <2>1, <3>1, BytesJoin
  <2>6. Len(Bytes(c, q)) = q - c
    <3>1. q <= q
      BY <2>1
    <3> QED BY <2>1, <3>1, BytesJoin
  <2>7. Bytes(0, given) = [i \in 1 .. given |-> i]
    BY <1>1 DEF Bytes
  <2> QED BY <1>1, <2>1, <2>2, <2>3, <2>4, <2>5, <2>6, <2>7, Zenon
<1>4. mState = "STARTED" => mRdFd = "open"
  BY DEF ClosedInTurn
<1>5. mEnabled => mRdFd = "open"
  BY DEF ClosedInTurn
<1>6. ASSUME mState = "STARTED"
      PROVE  got \o mCurrentItem \o Source!FlattenSeq(mSegments) \o driver.chunk
                 = [i \in 1 .. given |-> i]
  <2>1. PICK c, q : Held(c, q)
    BY <1>4, <1>6 DEF Conveyed
  <2> QED BY <1>3, <2>1, Zenon
<1>7. ASSUME mEnabled
      PROVE  mAvailableDataSize = Len(Source!FlattenSeq(mSegments))
  <2>1. PICK c, q : Held(c, q)
    BY <1>5, <1>7 DEF Conveyed
  <2>2. Len(Source!FlattenSeq(mSegments)) = q - c
    BY <1>3, <2>1, Zenon
  <2>3. mAvailableDataSize = q - c
    BY <1>7, <2>1 DEF Held
  <2> QED BY <2>2, <2>3, Zenon
<1> QED BY <1>2, <1>6, <1>7, Zenon DEF Source!BytesInOrder

LEMMA InitConveyed == Source!Init => ClosedInTurn /\ Conveyed
<1> SUFFICES ASSUME Source!Init PROVE ClosedInTurn /\ Conveyed
  OBVIOUS
<1>1. ClosedInTurn
  BY DEF Source!Init, ClosedInTurn
<1>2. /\ DOMAIN driver = {"at", "chunk", "left"} /\ driver.left = 0 /\ driver.chunk = << >>
      /\ DOMAIN reader = {"at", "want", "have"} /\ reader.want = 0 /\ reader.have = 0
      /\ reader.at = "idle" /\ given = 0 /\ got = << >> /\ mCurrentItem = << >>
      /\ mSegments = << >> /\ mAvailableDataSize = 0
  BY DEF Source!Init, Source!NoThread
<1>3. Bytes(0, 0) = << >>
  BY NoBytes
<1>4. Len(got) = 0 /\ got \in Seq(Nat)
  BY <1>2
<1>5. Hold(mSegments, 0, 0)
  <2> DEFINE ends == [i \in 0 .. 0 |-> 0]
  <2>1. Len(mSegments) = 0 /\ mSegments \in Seq(Seq(Nat))
    BY <1>2
  <2>2. Cuts(ends, mSegments, 0, 0)
    BY <2>1 DEF Cuts
  <2> HIDE DEF ends
  <2> QED BY <2>1, <2>2 DEF Hold
<1>6. Held(0, 0)
  BY <1>2, <1>3, <1>4, <1>5 DEF Held
<1>7. Conveyed
  BY <1>2, <1>3, <1>4, <1>6 DEF Conveyed
<1> QED BY <1>1, <1>7

LEMMA NextClosed == ClosedInTurn /\ [Source!Next]_(Source!dsvars) => ClosedInTurn'
<1> SUFFICES ASSUME ClosedInTurn, [Source!Next]_(Source!dsvars) PROVE ClosedInTurn'
  OBVIOUS
<1> USE DEF ClosedInTurn, Source!dsvars, Source!state, Source!segment, Source!threads
<1>1. CASE UNCHANGED <<owner, mState, mEnabled, mRdFd>>
  BY <1>1
<1>2. CASE Source!start
  BY <1>2 DEF Source!start
<1>3. CASE Source!polls
  BY <1>1, <1>3 DEF Source!polls
<1>4. CASE Source!Driver
  BY <1>1, <1>4 DEF Source!Driver, Source!readDriverData, Source!readFails, Source!push,
              Source!driverEnds
<1>5. CASE Source!RenderTime
  BY <1>1, <1>5 DEF Source!RenderTime, Source!tellsTime, Source!tellsNobody, Source!told,
              Source!renderLoops, Source!renderEnds, Source!Render
<1>6. CASE Source!readBegins
  BY <1>1, <1>6 DEF Source!readBegins
<1>7. CASE Source!Reads
  BY <1>1, <1>7 DEF Source!Reads, Source!read_l, Source!itemIsEmpty, Source!pop, Source!popWaits,
              Source!readReturns
<1>8. CASE Source!dettachDataSource
  BY <1>8 DEF Source!dettachDataSource, Source!Owner
<1>9. CASE Source!Stops
  BY <1>9 DEF Source!Stops, Source!stop, Source!notifyExit, Source!notifyWakes,
              Source!stopParser, Source!joinRender, Source!joinDriver, Source!Owner
<1>10. CASE UNCHANGED Source!dsvars
  BY <1>1, <1>10
<1> QED BY <1>2, <1>3, <1>4, <1>5, <1>6, <1>7, <1>8, <1>9, <1>10 DEF Source!Next

LEMMA LessOf ==
  ASSUME NEW x \in Nat, NEW y \in Nat
  PROVE  Source!Min({x, y}) \in 0 .. x /\ Source!Min({x, y}) \in 0 .. y
<1> DEFINE Least(z) == z \in {x, y} /\ \A w \in {x, y} : z <= w
<1>1. \E z : Least(z)
  <2>1. Least(x) \/ Least(y)
    OBVIOUS
  <2> QED BY <2>1
<1>2. Source!Min({x, y}) = CHOOSE z \in {x, y} : \A w \in {x, y} : z <= w
  BY DEF Source!Min
<1>3. Least(Source!Min({x, y}))
  BY <1>1, <1>2
<1> QED BY <1>3

\* What does not touch the bytes keeps them.
LEMMA BytesRest ==
  ASSUME Conveyed, UNCHANGED <<mCurrentItem, mSegments, given, got>>,
         driver'.chunk = driver.chunk, mRdFd' = "open" => mRdFd = "open",
         mEnabled' => mEnabled /\ mAvailableDataSize' = mAvailableDataSize
  PROVE  mRdFd' = "open" => \E c, q : Held(c, q)'
<1> SUFFICES ASSUME mRdFd' = "open" PROVE \E c, q : Held(c, q)'
  OBVIOUS
<1>1. PICK c, q : Held(c, q)
  BY DEF Conveyed
<1>2. Held(c, q)'
  BY <1>1 DEF Held
<1> QED BY <1>2

LEMMA SourceRests ==
  ASSUME Conveyed, UNCHANGED <<mCurrentItem, mSegments, given, got, driver, reader>>,
         mRdFd' = "open" => mRdFd = "open",
         mEnabled' => mEnabled /\ mAvailableDataSize' = mAvailableDataSize
  PROVE  Conveyed'
<1>1. mRdFd' = "open" => \E c, q : Held(c, q)'
  BY BytesRest
<1>2. (\E c, q : Held(c, q)') => (\E c, q : Held(c, q))'
  OBVIOUS
<1> QED BY <1>1, <1>2, Zenon DEF Conveyed

LEMMA DriverGivesBytes ==
  ASSUME Conveyed, Source!readDriverData
  PROVE  Conveyed'
<1>1. PICK n \in IF kind = "device" THEN 1 .. driver.left ELSE {driver.left} :
        /\ driver' = [driver EXCEPT !.chunk = @ \o Source!Given(n), !.left = @ - n]
        /\ given' = given + n
  BY DEF Source!readDriverData
<1>2. /\ driver.at = "read" /\ driver.left > 0 /\ mRdFd = "open"
      /\ UNCHANGED <<kind, owner, mState, mExitRequested, mRdFd, registered, mEnabled, mSegments,
                     mAvailableDataSize, reader, mCurrentItem, got>>
  BY DEF Source!readDriverData, Source!state, Source!segment
<1>3. PICK c, q : Held(c, q)
  BY <1>2 DEF Conveyed
<1>4. /\ c \in Nat /\ q \in Nat /\ Len(got) <= c /\ c <= q /\ q <= given /\ given \in Nat
      /\ driver.left \in Nat /\ DOMAIN driver = {"at", "chunk", "left"}
      /\ driver.chunk = Bytes(q, given)
  BY <1>3 DEF Conveyed, Held
<1>5. n \in 1 .. driver.left
  BY <1>1, <1>2, <1>4
<1>6. /\ given' \in Nat /\ given <= given' /\ Source!Given(n) = Bytes(given, given')
      /\ driver.left - n \in Nat
  <2>1. (given + n) - given = n
    BY <1>4, <1>5
  <2> QED BY <1>1, <1>4, <1>5, <2>1 DEF Source!Given, Bytes
<1>7. /\ DOMAIN driver' = {"at", "chunk", "left"} /\ driver'.at = "read"
      /\ driver'.left \in Nat /\ driver'.chunk = driver.chunk \o Source!Given(n)
  BY <1>1, <1>2, <1>4, <1>6
<1>8. Bytes(q, given) \o Bytes(given, given') = Bytes(q, given')
  BY <1>4, <1>6, BytesJoin
<1>9. driver'.chunk = Bytes(q, given')
  BY <1>4, <1>6, <1>7, <1>8, Zenon
<1>10. Held(c, q)'
  <2>1. q <= given'
    BY <1>4, <1>6
  <2> QED BY <1>2, <1>3, <1>9, <2>1 DEF Held
<1> QED BY <1>2, <1>6, <1>7, <1>10 DEF Conveyed

LEMMA ChunkPushed ==
  ASSUME Conveyed, Source!push
  PROVE  Conveyed'
<1>1. /\ driver.at = "read" /\ driver' = [at |-> "loop", chunk |-> << >>, left |-> 0]
      /\ UNCHANGED <<kind, owner, mState, mExitRequested, mRdFd, registered, mEnabled, given, timer,
                     mCurrentItem, got>>
  BY DEF Source!push, Source!NoThread, Source!state
<1>2. /\ DOMAIN reader' = {"at", "want", "have"} /\ reader'.want = reader.want
      /\ reader'.have = reader.have
      /\ reader'.at \in {"pop", "wait"} => reader.at \in {"pop", "wait"}
  BY DEF Source!push, Source!Wakes, Conveyed
<1>3. /\ DOMAIN driver' = {"at", "chunk", "left"} /\ driver'.left = 0 /\ driver'.chunk = << >>
  BY <1>1
<1>4. ASSUME NEW c, NEW q, Held(c, q) PROVE Held(c, given)'
  <2>1. /\ c \in Nat /\ q \in Nat /\ Len(got) <= c /\ c <= q /\ q <= given /\ given \in Nat
        /\ mCurrentItem = Bytes(Len(got), c) /\ Hold(mSegments, c, q)
        /\ driver.chunk = Bytes(q, given) /\ (mEnabled => mAvailableDataSize = q - c)
    BY <1>4 DEF Conveyed, Held
  <2>2. Bytes(given, given) = << >> /\ given <= given /\ c <= given
    BY <2>1, NoBytes
  <2>3. Hold(mSegments', c, given) /\ (mEnabled => mAvailableDataSize' = given - c)
    <3>1. CASE driver.chunk = << >>
      <4>1. q = given
        BY <2>1, <3>1, NoBytes
      <4>2. UNCHANGED <<mSegments, mAvailableDataSize>>
        BY <3>1 DEF Source!push
      <4> QED BY <2>1, <4>1, <4>2
    <3>2. CASE driver.chunk # << >>
      <4>1. /\ mSegments' = Append(mSegments, Bytes(q, given))
            /\ mAvailableDataSize' = mAvailableDataSize + Len(Bytes(q, given))
        BY <2>1, <3>2 DEF Source!push
      <4>2. Len(Bytes(q, given)) = given - q
        BY <2>1, <2>2, BytesJoin
      <4>3. Hold(mSegments', c, given)
        BY <2>1, <4>1, SegmentAdded
      <4>4. mEnabled => mAvailableDataSize' = (q - c) + (given - q)
        BY <2>1, <4>1, <4>2
      <4>5. (q - c) + (given - q) = given - c
        BY <2>1
      <4> QED BY <4>3, <4>4, <4>5
    <3> QED BY <3>1, <3>2
  <2> QED BY <1>1, <1>3, <2>1, <2>2, <2>3 DEF Held
<1>5. mRdFd' = "open" => \E c, q : Held(c, q)'
  <2> SUFFICES ASSUME mRdFd' = "open" PROVE \E c, q : Held(c, q)'
    OBVIOUS
  <2>1. PICK c, q : Held(c, q)
    BY <1>1 DEF Conveyed
  <2>2. Held(c, given)'
    BY <1>4, <2>1
  <2>3. PICK x : x = given
    OBVIOUS
  <2>4. Held(c, x)'
    BY <1>1, <2>2, <2>3 DEF Held
  <2> QED BY <2>4
<1> QED BY <1>1, <1>2, <1>3, <1>5 DEF Conveyed

LEMMA ParserReads ==
  ASSUME Conveyed, ClosedInTurn, Source!read_l
  PROVE  Conveyed'
<1> DEFINE n == Source!Min({Len(mCurrentItem), reader.want - reader.have})
<1>1. /\ got' = got \o SubSeq(mCurrentItem, 1, n)
      /\ mCurrentItem' = SubSeq(mCurrentItem, n + 1, Len(mCurrentItem))
      /\ reader' = [reader EXCEPT !.have = @ + n]
      /\ reader.at = "read" /\ mState = "STARTED"
      /\ UNCHANGED <<kind, owner, mState, mExitRequested, mRdFd, registered, mEnabled, mSegments,
                     mAvailableDataSize, driver, given>>
  BY DEF Source!read_l, Source!MoreToRead, Source!state, Source!segment
<1>2. mRdFd = "open"
  BY <1>1 DEF ClosedInTurn
<1>3. PICK c, q : Held(c, q)
  BY <1>2 DEF Conveyed
<1>4. /\ c \in Nat /\ q \in Nat /\ Len(got) <= c /\ c <= q /\ q <= given
      /\ mCurrentItem = Bytes(Len(got), c) /\ Hold(mSegments, c, q)
      /\ driver.chunk = Bytes(q, given) /\ (mEnabled => mAvailableDataSize = q - c)
  BY <1>3 DEF Held
<1>5. /\ got \in Seq(Nat) /\ Len(got) \in Nat /\ got = Bytes(0, Len(got))
      /\ DOMAIN reader = {"at", "want", "have"} /\ reader.want \in Nat
      /\ reader.have \in 0 .. reader.want
  BY DEF Conveyed
<1>6. PICK g : g = Len(got)
  OBVIOUS
<1>7. /\ g \in Nat /\ g <= c /\ got = Bytes(0, g) /\ mCurrentItem = Bytes(g, c)
      /\ c <= c /\ 0 \in Nat /\ 0 <= g
  BY <1>4, <1>5, <1>6
<1>8. Len(mCurrentItem) = c - g /\ c - g \in Nat /\ reader.want - reader.have \in Nat
  <2>1. Len(Bytes(g, c)) = c - g
    BY <1>4, <1>7, BytesJoin
  <2> QED BY <1>4, <1>5, <1>7, <2>1
<1>9. n \in 0 .. c - g /\ n \in 0 .. reader.want - reader.have
  BY <1>8, LessOf
<1> HIDE DEF n
<1>10. PICK m : m = g + n
  OBVIOUS
<1>11. m \in Nat /\ g <= m /\ m <= c
  BY <1>4, <1>7, <1>9, <1>10
<1>12. SubSeq(mCurrentItem, 1, n) = Bytes(g, m) /\ mCurrentItem' = Bytes(m, c)
  <2>1. /\ SubSeq(Bytes(g, c), 1, n) = Bytes(g, g + n)
        /\ SubSeq(Bytes(g, c), n + 1, c - g) = Bytes(g + n, c)
    BY <1>4, <1>7, <1>9, BytesCut
  <2> QED BY <1>1, <1>7, <1>8, <1>10, <2>1
<1>13. got' = Bytes(0, m) /\ got' \in Seq(Nat) /\ Len(got') = m
  <2>1. Bytes(0, g) \o Bytes(g, m) = Bytes(0, m)
    BY <1>7, <1>11, BytesJoin
  <2>2. Bytes(0, m) \in Seq(Nat) /\ Len(Bytes(0, m)) = m - 0
    <3>1. m <= m /\ 0 <= m
      BY <1>11
    <3> QED BY <1>7, <1>11, <3>1, BytesJoin
  <2>3. m - 0 = m
    BY <1>11
  <2> QED BY <1>1, <1>7, <1>12, <2>1, <2>2, <2>3, Zenon
<1>14. Held(c, q)'
  BY <1>1, <1>4, <1>11, <1>12, <1>13 DEF Held
<1>15. /\ DOMAIN reader' = {"at", "want", "have"} /\ reader'.want = reader.want
       /\ reader'.have = reader.have + n /\ reader'.at = "read"
  BY <1>1, <1>5
<1>16. reader.have + n \in 0 .. reader.want
  BY <1>5, <1>9
<1> QED BY <1>1, <1>5, <1>13, <1>14, <1>15, <1>16 DEF Conveyed

LEMMA ParserPops ==
  ASSUME Conveyed, Source!pop
  PROVE  Conveyed'
<1>1. /\ reader.at = "pop" /\ mSegments # << >>
      /\ mCurrentItem' = Head(mSegments) /\ mSegments' = Tail(mSegments)
      /\ mAvailableDataSize' = mAvailableDataSize - Len(Head(mSegments))
      /\ reader' = [reader EXCEPT !.at = "read"]
      /\ UNCHANGED <<kind, owner, mState, mExitRequested, mRdFd, registered, mEnabled, driver,
                     given, got>>
  BY DEF Source!pop, Source!Reader, Source!state
<1>2. /\ DOMAIN reader' = {"at", "want", "have"} /\ reader'.want = reader.want
      /\ reader'.have = reader.have /\ reader'.at = "read"
  BY <1>1 DEF Conveyed
<1>3. ASSUME mRdFd' = "open" PROVE \E c, q : Held(c, q)'
  <2>1. PICK c, q : Held(c, q)
    BY <1>1, <1>3 DEF Conveyed
  <2>2. /\ c \in Nat /\ q \in Nat /\ Len(got) <= c /\ c <= q /\ q <= given
        /\ mCurrentItem = Bytes(Len(got), c) /\ Hold(mSegments, c, q)
        /\ driver.chunk = Bytes(q, given) /\ (mEnabled => mAvailableDataSize = q - c)
        /\ Len(got) \in Nat
    BY <2>1 DEF Held, Conveyed
  <2>3. Len(got) = c
    <3>1. mCurrentItem = << >>
      BY <1>1 DEF Conveyed
    <3>2. Bytes(Len(got), c) = << >>
      BY <2>2, <3>1
    <3> QED BY <2>2, <3>2, NoBytes
  <2>4. PICK e \in Nat : /\ c <= e /\ e <= q /\ Head(mSegments) = Bytes(c, e)
                         /\ Hold(Tail(mSegments), e, q)
    BY <1>1, <2>2, SegmentTaken
  <2>5. Len(Bytes(c, e)) = e - c
    <3>1. e <= e
      OBVIOUS
    <3> QED BY <2>2, <2>4, <3>1, BytesJoin
  <2>6. mEnabled => mAvailableDataSize' = q - e
    <3>1. (q - c) - (e - c) = q - e
      BY <2>2, <2>4
    <3> QED BY <1>1, <2>2, <2>4, <2>5, <3>1
  <2>7. Len(got') <= e
    BY <1>1, <2>3, <2>4
  <2>8. Held(e, q)'
    BY <1>1, <2>2, <2>3, <2>4, <2>6, <2>7 DEF Held
  <2> QED BY <2>8
<1> QED BY <1>1, <1>2, <1>3 DEF Conveyed

LEMMA NextConveyed ==
  ASSUME Sizes \in SUBSET Nat, Wants \in SUBSET Nat
  PROVE  Conveyed /\ ClosedInTurn /\ JoinedInTurn /\ [Source!Next]_(Source!dsvars) => Conveyed'
<1> SUFFICES ASSUME Conveyed, ClosedInTurn, JoinedInTurn, [Source!Next]_(Source!dsvars) PROVE Conveyed'
  OBVIOUS
<1> DEFINE SameBytes == UNCHANGED <<mRdFd, mEnabled, mAvailableDataSize, mCurrentItem, mSegments,
                                    given, got>>
           DriverKept == /\ DOMAIN driver' = {"at", "chunk", "left"} /\ driver'.left \in Nat
                         /\ driver'.chunk = driver.chunk
                         /\ driver'.at # "read" => driver'.chunk = << >>
           ReaderKept == /\ DOMAIN reader' = {"at", "want", "have"}
                         /\ reader'.want \in Nat /\ reader'.have \in 0 .. reader'.want
                         /\ reader'.at \in {"pop", "wait"} => mCurrentItem = << >>
<1>0. SameBytes /\ DriverKept /\ ReaderKept => Conveyed'
  <2> SUFFICES ASSUME SameBytes, DriverKept, ReaderKept PROVE Conveyed'
    OBVIOUS
  <2>1. mRdFd' = "open" => \E c, q : Held(c, q)'
    BY BytesRest
  <2> QED BY <2>1 DEF Conveyed
<1>00. (driver' = driver => DriverKept) /\ (reader' = reader => ReaderKept)
  BY DEF Conveyed
<1>01. DOMAIN driver = {"at", "chunk", "left"} /\ DOMAIN reader = {"at", "want", "have"}
  BY DEF Conveyed
<1>1. CASE UNCHANGED Source!dsvars
  <2>1. SameBytes /\ driver' = driver /\ reader' = reader
    BY <1>1 DEF Source!dsvars, Source!state, Source!segment, Source!threads
  <2> QED BY <1>0, <1>00, <2>1
<1>2. CASE Source!start
  <2>1. SameBytes /\ reader' = reader /\ driver' = [at |-> "loop", chunk |-> << >>, left |-> 0]
        /\ owner = "new"
    BY <1>2 DEF Source!start, Source!segment, Source!NoThread
  <2>2. driver.chunk = << >>
    BY <2>1 DEF JoinedInTurn, Conveyed
  <2>3. DriverKept
    BY <2>1, <2>2
  <2> QED BY <1>0, <1>00, <2>1, <2>3
<1>3. CASE Source!polls
  <2>1. PICK size \in Sizes : driver' = [at |-> "read", chunk |-> << >>, left |-> size]
    BY <1>3 DEF Source!polls
  <2>2. SameBytes /\ reader' = reader /\ driver.chunk = << >>
    BY <1>3 DEF Source!polls, Source!segment, Source!state, Conveyed
  <2>3. DriverKept
    BY <2>1, <2>2
  <2> QED BY <1>0, <1>00, <2>2, <2>3
<1>4. CASE Source!readFails
  <2>1. /\ driver' = [at |-> "loop", chunk |-> << >>, left |-> 0] /\ reader' = reader
        /\ mRdFd' = "closed" /\ UNCHANGED <<mCurrentItem, given, got>>
    BY <1>4 DEF Source!readFails, Source!state, Source!segment, Source!NoThread
  <2>2. mRdFd' # "open"
    BY <2>1
  <2> QED BY <2>1, <2>2 DEF Conveyed
<1>5. CASE Source!driverEnds
  <2>1. SameBytes /\ reader' = reader /\ driver' = [driver EXCEPT !.at = "ended"]
        /\ driver.at = "loop"
    BY <1>5 DEF Source!driverEnds, Source!segment, Source!state
  <2>2. DriverKept
    BY <2>1 DEF Conveyed
  <2> QED BY <1>0, <1>00, <2>1, <2>2
<1>6. CASE Source!RenderTime
  <2>1. SameBytes /\ driver' = driver /\ reader' = reader
    BY <1>6 DEF Source!RenderTime, Source!tellsTime, Source!tellsNobody, Source!told,
                Source!renderLoops, Source!renderEnds, Source!Render, Source!state, Source!segment
  <2> QED BY <1>0, <1>00, <2>1
<1>7. CASE Source!readBegins
  <2>1. PICK want \in Wants : reader' = [at |-> "read", want |-> want, have |-> 0]
    BY <1>7 DEF Source!readBegins
  <2>2. SameBytes /\ driver' = driver
    BY <1>7 DEF Source!readBegins, Source!segment, Source!state
  <2>3. ReaderKept
    BY <2>1
  <2> QED BY <1>0, <1>00, <2>2, <2>3
<1>8. CASE Source!itemIsEmpty \/ Source!popWaits \/ Source!readReturns
  <2>1. SameBytes /\ driver' = driver
    BY <1>8 DEF Source!itemIsEmpty, Source!popWaits, Source!readReturns, Source!segment,
                Source!state
  <2>2. /\ \E at : reader' = [reader EXCEPT !.at = at]
        /\ reader'.at \in {"pop", "wait"} => mCurrentItem = << >>
    BY <1>8 DEF Source!itemIsEmpty, Source!popWaits, Source!readReturns, Source!Reader, Conveyed
  <2>3. ReaderKept
    BY <2>2 DEF Conveyed
  <2> QED BY <1>0, <1>00, <2>1, <2>3
<1>9. CASE Source!dettachDataSource \/ Source!stop \/ Source!joinDriver
  <2>1. SameBytes /\ driver' = driver /\ reader' = reader
    BY <1>9 DEF Source!dettachDataSource, Source!stop, Source!joinDriver, Source!state,
                Source!segment, Source!threads
  <2> QED BY <1>0, <1>00, <2>1
<1>10. CASE Source!notifyExit \/ Source!joinRender
  <2>1. /\ UNCHANGED <<mCurrentItem, mSegments, given, got, driver, reader, mAvailableDataSize>>
        /\ mRdFd' = "open" => mRdFd = "open"
        /\ mEnabled' => mEnabled
    BY <1>10 DEF Source!notifyExit, Source!joinRender, Source!state, Source!segment, Source!threads
  <2> QED BY <2>1, SourceRests
<1>11. CASE Source!notifyWakes \/ Source!stopParser
  <2>1. /\ UNCHANGED <<mCurrentItem, mSegments, given, got, driver, mRdFd, mEnabled>>
        /\ mEnabled => mAvailableDataSize' = mAvailableDataSize
    BY <1>11 DEF Source!notifyWakes, Source!stopParser, Source!Owner, Source!state,
                 Source!segment, ClosedInTurn
  <2>2. ReaderKept
    <3>1. CASE Source!notifyWakes
      BY <3>1 DEF Source!notifyWakes, Source!Wakes, Conveyed
    <3>2. CASE Source!stopParser
      BY <3>2 DEF Source!stopParser, Conveyed
    <3> QED BY <1>11, <3>1, <3>2
  <2>3. mRdFd' = "open" => \E c, q : Held(c, q)'
    BY <2>1, BytesRest
  <2> QED BY <1>00, <2>1, <2>2, <2>3 DEF Conveyed
<1> HIDE DEF SameBytes, DriverKept, ReaderKept
<1> QED BY <1>1, <1>2, <1>3, <1>4, <1>5, <1>6, <1>7, <1>8, <1>9, <1>10, <1>11, DriverGivesBytes,
           ChunkPushed, ParserReads, ParserPops
        DEF Source!Next, Source!Driver, Source!Reads, Source!Stops

LEMMA SizesWhole == Sizes \in SUBSET Nat /\ Wants \in SUBSET Nat
BY SourcesAssumption

\* Whatever sizes the bytes of a device come and are read in, the parser has them once and in
\* their order, and until the source is stopped none is lost (DeviceSource.cpp, VbiSource.cpp,
\* Segment.h).
THEOREM BytesInOrderAlways ==
  Source!Init /\ [][Source!Next]_(Source!dsvars) => []Source!BytesInOrder
<1>1. JoinedInTurn /\ ClosedInTurn /\ Conveyed /\ [Source!Next]_(Source!dsvars)
        => JoinedInTurn' /\ ClosedInTurn' /\ Conveyed'
  BY SizesWhole, NextJoined, NextClosed, NextConveyed
<1> QED BY InitJoined, InitConveyed, ConveyedIsInOrder, <1>1, PTL

-----------------------------------------------------------------------------
(* The order of captions: sequences that are taken apart and put together. *)

\* t is s with x put in at place p.
Grown(s, t, p, x) ==
  /\ p \in 1 .. Len(s) + 1 /\ Len(t) = Len(s) + 1 /\ t[p] = x
  /\ \A i \in 1 .. Len(s) : (i < p => t[i] = s[i]) /\ (p <= i => t[i + 1] = s[i])

\* w is a with b behind it.
Chained(w, a, b) ==
  /\ Len(w) = Len(a) + Len(b)
  /\ \A i \in 1 .. Len(a) : w[i] = a[i]
  /\ \A i \in 1 .. Len(b) : w[Len(a) + i] = b[i]

LEMMA JoinedParts ==
  ASSUME NEW S, NEW a \in Seq(S), NEW b \in Seq(S)
  PROVE  a \o b \in Seq(S) /\ Chained(a \o b, a, b)
<1>1. /\ a \o b \in Seq(S) /\ Len(a \o b) = Len(a) + Len(b)
      /\ \A i \in 1 .. Len(a) + Len(b) :
           (a \o b)[i] = IF i <= Len(a) THEN a[i] ELSE b[i - Len(a)]
  BY ConcatProperties, Zenon
<1> DEFINE w == a \o b  m == Len(a)  n == Len(b)
<1>2. m \in Nat /\ n \in Nat
  OBVIOUS
<1>3. \A i \in 1 .. m + n : w[i] = IF i <= m THEN a[i] ELSE b[i - m]
  BY <1>1
<1> HIDE DEF w, m, n
<1>4. \A i \in 1 .. m : w[i] = a[i]
  BY <1>2, <1>3
<1>5. \A i \in 1 .. n : w[m + i] = b[i]
  <2> TAKE i \in 1 .. n
  <2>1. m + i \in 1 .. m + n /\ ~(m + i <= m) /\ (m + i) - m = i
    BY <1>2
  <2> QED BY <1>3, <2>1
<1> QED BY <1>1, <1>4, <1>5 DEF w, m, n, Chained

\* c is the first n of b, and d the others.
Parted(b, n, c, d) ==
  /\ Len(c) = n /\ \A i \in 1 .. n : c[i] = b[i]
  /\ Len(d) = Len(b) - n /\ \A i \in 1 .. Len(b) - n : d[i] = b[n + i]

\* The two parts are of S, and c joined to a and d to that are b joined to a.
Rejoins(S, a, b, n, c, d) ==
  /\ c \in Seq(S) /\ d \in Seq(S) /\ Parted(b, n, c, d)
  /\ a \o c \in Seq(S) /\ (a \o c) \o d = a \o b

\* The first n of the second one join the first one.
LEMMA PartMoved ==
  ASSUME NEW S, NEW a \in Seq(S), NEW b \in Seq(S), NEW n \in 0 .. Len(b)
  PROVE  Rejoins(S, a, b, n, SubSeq(b, 1, n), SubSeq(b, n + 1, Len(b)))
<1> DEFINE c == SubSeq(b, 1, n)  d == SubSeq(b, n + 1, Len(b))
<1>1. Len(a) \in Nat /\ Len(b) \in Nat
  OBVIOUS
<1>2. c \in Seq(S) /\ Len(c) = n /\ \A i \in 1 .. n : c[i] = b[i]
  BY <1>1
<1>3. d \in Seq(S) /\ Len(d) = Len(b) - n /\ \A i \in 1 .. Len(b) - n : d[i] = b[n + i]
  BY <1>1
<1> HIDE DEF c, d
<1> DEFINE ac == a \o c
<1>4. /\ ac \in Seq(S) /\ Len(ac) = Len(a) + n
      /\ \A i \in 1 .. Len(a) : ac[i] = a[i]
      /\ \A i \in 1 .. n : ac[Len(a) + i] = c[i]
  <2>1. /\ ac \in Seq(S) /\ Len(ac) = Len(a) + Len(c)
        /\ \A i \in 1 .. Len(a) : ac[i] = a[i]
        /\ \A i \in 1 .. Len(c) : ac[Len(a) + i] = c[i]
    <3>1. ac \in Seq(S) /\ Chained(ac, a, c)
      BY <1>2, JoinedParts
    <3> HIDE DEF ac
    <3> QED BY <3>1 DEF Chained
  <2> QED BY <1>2, <2>1, Zenon
<1> HIDE DEF ac
<1> DEFINE l == ac \o d  r == a \o b
<1>5. /\ l \in Seq(S) /\ Len(l) = Len(ac) + Len(d)
      /\ \A i \in 1 .. Len(ac) : l[i] = ac[i]
      /\ \A i \in 1 .. Len(d) : l[Len(ac) + i] = d[i]
  <2>1. l \in Seq(S) /\ Chained(l, ac, d)
    BY <1>3, <1>4, JoinedParts
  <2> HIDE DEF l
  <2> QED BY <2>1 DEF Chained
<1>6. /\ r \in Seq(S) /\ Len(r) = Len(a) + Len(b)
      /\ \A i \in 1 .. Len(a) : r[i] = a[i]
      /\ \A i \in 1 .. Len(b) : r[Len(a) + i] = b[i]
  <2>1. r \in Seq(S) /\ Chained(r, a, b)
    BY JoinedParts
  <2> HIDE DEF r
  <2> QED BY <2>1 DEF Chained
<1> HIDE DEF l, r
<1>7. Len(l) = Len(r)
  BY <1>1, <1>3, <1>4, <1>5, <1>6
<1>8. ASSUME NEW i \in 1 .. Len(l) PROVE l[i] = r[i]
  <2>1. CASE i <= Len(a)
    <3>1. i \in 1 .. Len(a) /\ i \in 1 .. Len(ac)
      BY <1>1, <1>4, <2>1
    <3>2. l[i] = ac[i]
      BY <1>5, <3>1, Zenon
    <3>3. ac[i] = a[i]
      BY <1>4, <3>1, Zenon
    <3>4. r[i] = a[i]
      BY <1>6, <3>1, Zenon
    <3> QED BY <3>2, <3>3, <3>4
  <2>2. CASE i > Len(a) /\ i <= Len(a) + n
    <3>1. PICK j \in 1 .. n : i = Len(a) + j
      <4>1. i - Len(a) \in 1 .. n /\ i = Len(a) + (i - Len(a))
        BY <1>1, <2>2
      <4> QED BY <4>1
    <3>2. i \in 1 .. Len(ac) /\ j \in 1 .. Len(b)
      BY <1>1, <1>4, <3>1
    <3>3. l[i] = ac[i]
      BY <1>5, <3>2, Zenon
    <3>4. ac[Len(a) + j] = c[j] /\ c[j] = b[j]
      BY <1>2, <1>4, <3>1, Zenon
    <3>5. r[Len(a) + j] = b[j]
      BY <1>6, <3>2, Zenon
    <3> QED BY <3>1, <3>3, <3>4, <3>5, Zenon
  <2>3. CASE i > Len(a) + n
    <3>1. PICK j \in 1 .. Len(d) : i = Len(ac) + j
      <4> DEFINE k == i - Len(ac)
      <4>1. Len(ac) \in Nat /\ Len(d) \in Nat /\ i \in Nat /\ i <= Len(ac) + Len(d) /\ i > Len(ac)
        BY <1>1, <1>3, <1>4, <1>5, <2>3
      <4>2. k \in 1 .. Len(d) /\ i = Len(ac) + k
        BY <4>1
      <4> HIDE DEF k
      <4> QED BY <4>2
    <3>2. n + j \in 1 .. Len(b) /\ i = Len(a) + (n + j) /\ j \in 1 .. Len(b) - n
      BY <1>1, <1>3, <1>4, <3>1
    <3>3. l[Len(ac) + j] = d[j]
      BY <1>5, <3>1, Zenon
    <3>4. d[j] = b[n + j]
      BY <1>3, <3>2, Zenon
    <3>5. r[Len(a) + (n + j)] = b[n + j]
      BY <1>6, <3>2, Zenon
    <3> QED BY <3>1, <3>2, <3>3, <3>4, <3>5, Zenon
  <2>4. i \in Nat /\ Len(a) + n \in Nat
    BY <1>1, <1>5
  <2> QED BY <1>1, <2>1, <2>2, <2>3, <2>4
<1>9. l = r
  BY <1>5, <1>6, <1>7, <1>8, SeqEqual
<1>10. Parted(b, n, c, d)
  BY <1>2, <1>3 DEF Parted
<1>11. Rejoins(S, a, b, n, c, d)
  BY <1>2, <1>3, <1>4, <1>9, <1>10 DEF Rejoins, ac, l, r
<1> QED BY <1>11 DEF c, d

LEMMA PutIn ==
  ASSUME NEW S, NEW s \in Seq(S), NEW p \in 1 .. Len(s) + 1, NEW x \in S
  PROVE  Order!InsertAt(s, p, x) \in Seq(S) /\ Grown(s, Order!InsertAt(s, p, x), p, x)
<1> DEFINE c == SubSeq(s, 1, p - 1)  d == SubSeq(s, p, Len(s))  e == <<x>>
           ce == c \o e  t == ce \o d
<1>1. Len(s) \in Nat /\ e \in Seq(S) /\ Len(e) = 1 /\ e[1] = x
  OBVIOUS
<1>2. c \in Seq(S) /\ Len(c) = p - 1 /\ \A i \in 1 .. p - 1 : c[i] = s[i]
  BY <1>1
<1>3. d \in Seq(S) /\ Len(d) = Len(s) - (p - 1)
      /\ \A i \in 1 .. Len(s) - (p - 1) : d[i] = s[(p - 1) + i]
  BY <1>1
<1> HIDE DEF c, d, e
<1>4. /\ ce \in Seq(S) /\ Len(ce) = p
      /\ \A i \in 1 .. p - 1 : ce[i] = c[i]
      /\ ce[p] = x
  <2>1. /\ ce \in Seq(S) /\ Len(ce) = Len(c) + Len(e)
        /\ \A i \in 1 .. Len(c) : ce[i] = c[i]
        /\ \A i \in 1 .. Len(e) : ce[Len(c) + i] = e[i]
    <3>1. ce \in Seq(S) /\ Chained(ce, c, e)
      BY <1>1, <1>2, JoinedParts
    <3> HIDE DEF ce
    <3> QED BY <3>1 DEF Chained
  <2> HIDE DEF ce
  <2>2. (p - 1) + 1 = p /\ 1 \in 1 .. 1
    OBVIOUS
  <2> QED BY <1>1, <1>2, <2>1, <2>2
<1> HIDE DEF ce
<1>5. /\ t \in Seq(S) /\ Len(t) = Len(ce) + Len(d)
      /\ \A i \in 1 .. Len(ce) : t[i] = ce[i]
      /\ \A i \in 1 .. Len(d) : t[Len(ce) + i] = d[i]
  <2>1. t \in Seq(S) /\ Chained(t, ce, d)
    BY <1>3, <1>4, JoinedParts
  <2> HIDE DEF t
  <2> QED BY <2>1 DEF Chained
<1> HIDE DEF t
<1>6. Len(t) = Len(s) + 1 /\ t[p] = x
  BY <1>1, <1>3, <1>4, <1>5
<1>7. ASSUME NEW i \in 1 .. Len(s), i < p PROVE t[i] = s[i]
  <2>1. i \in 1 .. p - 1 /\ i \in 1 .. Len(ce)
    BY <1>4, <1>7
  <2> QED BY <1>2, <1>4, <1>5, <2>1
<1>8. ASSUME NEW i \in 1 .. Len(s), p <= i PROVE t[i + 1] = s[i]
  <2>1. PICK j \in 1 .. Len(s) - (p - 1) : i = (p - 1) + j
    <3>1. i - (p - 1) \in 1 .. Len(s) - (p - 1) /\ i = (p - 1) + (i - (p - 1))
      BY <1>1, <1>8
    <3> QED BY <3>1
  <2>2. j \in 1 .. Len(d) /\ i + 1 = Len(ce) + j
    BY <1>3, <1>4, <2>1
  <2> QED BY <1>3, <1>5, <2>1, <2>2
<1>9. Order!InsertAt(s, p, x) = t
  BY DEF Order!InsertAt, t, ce, c, d, e
<1> QED BY <1>5, <1>6, <1>7, <1>8, <1>9 DEF Grown

LEMMA GrownBehind ==
  ASSUME NEW S, NEW a \in Seq(S), NEW s \in Seq(S), NEW t \in Seq(S), NEW p, NEW x,
         Grown(s, t, p, x)
  PROVE  Grown(a \o s, a \o t, Len(a) + p, x)
<1> DEFINE l == a \o s  r == a \o t  m == Len(a)  n == Len(s)
<1>1. /\ m \in Nat /\ n \in Nat /\ p \in 1 .. n + 1 /\ Len(t) = n + 1 /\ t[p] = x
      /\ \A i \in 1 .. n : (i < p => t[i] = s[i]) /\ (p <= i => t[i + 1] = s[i])
  BY DEF Grown
<1>2. /\ Len(l) = m + n /\ \A i \in 1 .. m : l[i] = a[i]
      /\ \A i \in 1 .. n : l[m + i] = s[i]
  <2>1. l \in Seq(S) /\ Chained(l, a, s)
    BY JoinedParts
  <2> HIDE DEF l
  <2> QED BY <2>1 DEF Chained
<1>3. /\ Len(r) = m + (n + 1) /\ \A i \in 1 .. m : r[i] = a[i]
      /\ \A i \in 1 .. n + 1 : r[m + i] = t[i]
  <2>1. /\ Len(r) = m + Len(t) /\ \A i \in 1 .. m : r[i] = a[i]
        /\ \A i \in 1 .. Len(t) : r[m + i] = t[i]
    <3>1. r \in Seq(S) /\ Chained(r, a, t)
      BY JoinedParts
    <3> HIDE DEF r
    <3> QED BY <3>1 DEF Chained
  <2> QED BY <1>1, <2>1, Zenon
<1> HIDE DEF l, r, m, n
<1>4. ASSUME NEW i \in 1 .. m + n
      PROVE  (i < m + p => r[i] = l[i]) /\ (m + p <= i => r[i + 1] = l[i])
  <2>1. CASE i <= m
    <3>1. i \in 1 .. m /\ ~(m + p <= i)
      BY <1>1, <2>1
    <3> QED BY <1>2, <1>3, <3>1
  <2>2. CASE i > m
    <3>1. PICK j \in 1 .. n : i = m + j
      <4>1. i - m \in 1 .. n /\ i = m + (i - m)
        BY <1>1, <2>2
      <4> QED BY <4>1
    <3>2. j \in 1 .. n + 1 /\ j + 1 \in 1 .. n + 1 /\ i + 1 = m + (j + 1)
          /\ (i < m + p <=> j < p) /\ (m + p <= i <=> p <= j)
      BY <1>1, <3>1
    <3>3. l[i] = s[j] /\ r[i] = t[j] /\ r[i + 1] = t[j + 1]
      BY <1>2, <1>3, <3>1, <3>2
    <3> QED BY <1>1, <3>2, <3>3
  <2> QED BY <1>1, <2>1, <2>2
<1>5. m + p \in 1 .. (m + n) + 1 /\ (m + n) + 1 = m + (n + 1)
  BY <1>1
<1>6. r[m + p] = x
  BY <1>1, <1>3
<1> QED BY <1>2, <1>3, <1>4, <1>5, <1>6 DEF Grown, l, r, m, n

-----------------------------------------------------------------------------
(* Packets of captions, and the driver's list and output as one line.      *)

Captions == {x \in [kind : {"mpeg", "scte", "h264"}, intra : BOOLEAN, group : Nat,
                    poc : Pictures, pts : Nat] :
               x.pts = IF x.kind = "scte" THEN 0 ELSE Order!Pts(x.group, x.poc)}
Name(x) == <<x.group, x.poc>>

\* x is shown before y.  What may be written after x, when R has been read.
Precedes(x, y) == x.group < y.group \/ (x.group = y.group /\ x.poc < y.poc)
Exempt(x, R) == x.kind = "h264" /\ <<x.group, 0>> \notin R
Shown == {w \in Captions \X Captions : Precedes(w[1], w[2])}
Given(R) == {w \in Captions \X Captions :
               \/ Precedes(w[1], w[2])
               \/ w[1].group = w[2].group /\ Exempt(w[1], R)}
Ascends(s, T) == \A i, j \in 1 .. Len(s) : i < j => <<s[i], s[j]>> \in T
Named(s, K) ==
  /\ \A i \in 1 .. Len(s) : Name(s[i]) \in K
  /\ \A k \in K : \E i \in 1 .. Len(s) : Name(s[i]) = k
  /\ IsFiniteSet(K) /\ Len(s) = Cardinality(K)

LEMMA PictureNumbers ==
  /\ Order!Max(Pictures) \in Nat /\ Pictures \in SUBSET (0 .. Order!Max(Pictures))
  /\ Pictures \in SUBSET Nat
  /\ MAX_CC_NUM \in Nat /\ Back \in Nat /\ Back < MAX_CC_NUM /\ MAX_CC_NUM > 0
<1>1. /\ Order!Max(Pictures) \in Nat /\ Pictures \in SUBSET (0 .. Order!Max(Pictures))
      /\ MAX_CC_NUM \in Nat /\ Back \in Nat /\ Back < MAX_CC_NUM
  BY SourcesAssumption
<1> QED BY <1>1

LEMMA GroupsApart ==
  ASSUME NEW m \in Nat, NEW g \in Nat, NEW h \in Nat, g < h, NEW p \in 0 .. m, NEW q \in 0 .. m
  PROVE  g * (1 + m) + p < h * (1 + m) + q
<1> DEFINE w == 1 + m
<1>1. w \in Nat /\ p < w /\ q >= 0 /\ p \in Nat /\ q \in Nat
  OBVIOUS
<1> HIDE DEF w
<1>2. PICK d \in Nat : h = (g + 1) + d
  <2>1. h - (g + 1) \in Nat /\ h = (g + 1) + (h - (g + 1))
    OBVIOUS
  <2> QED BY <2>1
<1>3. h * w = g * w + w + d * w
  BY <1>1, <1>2
<1>4. d * w \in Nat /\ g * w \in Nat
  BY <1>1
<1>5. g * w + p < h * w + q
  <2> DEFINE gw == g * w  dw == d * w  hw == h * w
  <2>1. gw \in Nat /\ dw \in Nat /\ hw = gw + w + dw
    BY <1>3, <1>4
  <2> HIDE DEF gw, dw, hw
  <2>2. gw + p < hw + q
    BY <1>1, <2>1
  <2> QED BY <2>2 DEF gw, hw
<1> QED BY <1>5 DEF w

LEMMA TimesInOrder ==
  ASSUME NEW x \in Captions, NEW y \in Captions, x.kind # "scte", y.kind # "scte"
  PROVE  /\ x.pts < y.pts <=> Precedes(x, y)
         /\ x.pts = y.pts <=> Name(x) = Name(y)
<1> DEFINE m == Order!Max(Pictures)
<1>1. /\ m \in Nat /\ x.group \in Nat /\ y.group \in Nat /\ x.poc \in 0 .. m /\ y.poc \in 0 .. m
      /\ x.pts = x.group * (1 + m) + x.poc /\ y.pts = y.group * (1 + m) + y.poc
      /\ x.pts \in Nat /\ y.pts \in Nat
  BY PictureNumbers DEF Captions, Order!Pts
<1> HIDE DEF m
<1>2. CASE x.group < y.group
  <2>1. x.pts < y.pts
    BY <1>1, <1>2, GroupsApart
  <2> QED BY <1>1, <1>2, <2>1 DEF Precedes, Name
<1>3. CASE y.group < x.group
  <2>1. y.pts < x.pts
    BY <1>1, <1>3, GroupsApart
  <2> QED BY <1>1, <1>3, <2>1 DEF Precedes, Name
<1>4. CASE x.group = y.group
  <2> DEFINE b == x.group * (1 + m)
  <2>1. b \in Nat /\ x.pts = b + x.poc /\ y.pts = b + y.poc
    BY <1>1, <1>4
  <2> HIDE DEF b
  <2>2. (x.pts < y.pts <=> x.poc < y.poc) /\ (x.pts = y.pts <=> x.poc = y.poc)
    <3>1. x.poc \in Nat /\ y.poc \in Nat
      BY <1>1
    <3>2. \A c \in Nat, p \in Nat, q \in Nat :
             (c + p < c + q <=> p < q) /\ (c + p = c + q <=> p = q)
      OBVIOUS
    <3> QED BY <2>1, <3>1, <3>2
  <2>3. ~(x.group < y.group)
    BY <1>1, <1>4
  <2> QED BY <1>4, <2>2, <2>3 DEF Precedes, Name
<1> QED BY <1>1, <1>2, <1>3, <1>4

LEMMA GrownPlaces ==
  ASSUME NEW S, NEW s \in Seq(S), NEW t, NEW p, NEW x, Grown(s, t, p, x),
         NEW a \in 1 .. Len(t)
  PROVE  \/ a < p /\ a \in 1 .. Len(s) /\ t[a] = s[a]
         \/ a = p /\ t[a] = x
         \/ a > p /\ a - 1 \in 1 .. Len(s) /\ p <= a - 1 /\ t[a] = s[a - 1]
<1>1. /\ Len(s) \in Nat /\ p \in 1 .. Len(s) + 1 /\ Len(t) = Len(s) + 1 /\ t[p] = x
      /\ \A i \in 1 .. Len(s) : (i < p => t[i] = s[i]) /\ (p <= i => t[i + 1] = s[i])
  BY DEF Grown
<1>2. CASE a < p
  <2>1. a \in 1 .. Len(s)
    BY <1>1, <1>2
  <2> QED BY <1>1, <1>2, <2>1
<1>3. CASE a = p
  BY <1>1, <1>3
<1>4. CASE a > p
  <2>1. a - 1 \in 1 .. Len(s) /\ p <= a - 1 /\ (a - 1) + 1 = a
    BY <1>1, <1>4
  <2>2. t[(a - 1) + 1] = s[a - 1]
    BY <1>1, <2>1
  <2> QED BY <1>4, <2>1, <2>2
<1> QED BY <1>1, <1>2, <1>3, <1>4

LEMMA GrownAscends ==
  ASSUME NEW S, NEW s \in Seq(S), NEW t, NEW T, NEW p, NEW x, Grown(s, t, p, x), Ascends(s, T),
         \A i \in 1 .. Len(s) : (i < p => <<s[i], x>> \in T) /\ (p <= i => <<x, s[i]>> \in T)
  PROVE  Ascends(t, T)
<1> SUFFICES ASSUME NEW a \in 1 .. Len(t), NEW b \in 1 .. Len(t), a < b
             PROVE  <<t[a], t[b]>> \in T
  BY DEF Ascends
<1>1. /\ Len(s) \in Nat /\ p \in 1 .. Len(s) + 1
      /\ \A i, j \in 1 .. Len(s) : i < j => <<s[i], s[j]>> \in T
  BY DEF Grown, Ascends
<1>2. \/ a < p /\ a \in 1 .. Len(s) /\ t[a] = s[a]
      \/ a = p /\ t[a] = x
      \/ a > p /\ a - 1 \in 1 .. Len(s) /\ p <= a - 1 /\ t[a] = s[a - 1]
  BY GrownPlaces
<1>3. \/ b < p /\ b \in 1 .. Len(s) /\ t[b] = s[b]
      \/ b = p /\ t[b] = x
      \/ b > p /\ b - 1 \in 1 .. Len(s) /\ p <= b - 1 /\ t[b] = s[b - 1]
  BY GrownPlaces
<1>4. a \in Nat /\ b \in Nat /\ p \in Nat
  BY <1>1, <1>2, <1>3
<1>5. CASE a < p /\ a \in 1 .. Len(s) /\ t[a] = s[a]
  <2>1. CASE b < p /\ b \in 1 .. Len(s) /\ t[b] = s[b]
    BY <1>1, <1>5, <2>1
  <2>2. CASE b = p /\ t[b] = x
    BY <1>5, <2>2
  <2>3. CASE b > p /\ b - 1 \in 1 .. Len(s) /\ p <= b - 1 /\ t[b] = s[b - 1]
    <3>1. a < b - 1
      BY <1>4, <1>5, <2>3
    <3> QED BY <1>1, <1>5, <2>3, <3>1
  <2> QED BY <1>3, <2>1, <2>2, <2>3
<1>6. CASE a = p /\ t[a] = x
  <2>1. b > p /\ b - 1 \in 1 .. Len(s) /\ p <= b - 1 /\ t[b] = s[b - 1]
    BY <1>3, <1>4, <1>6
  <2> QED BY <1>6, <2>1
<1>7. CASE a > p /\ a - 1 \in 1 .. Len(s) /\ p <= a - 1 /\ t[a] = s[a - 1]
  <2>1. b > p /\ b - 1 \in 1 .. Len(s) /\ t[b] = s[b - 1] /\ a - 1 < b - 1
    BY <1>3, <1>4, <1>7
  <2> QED BY <1>1, <1>7, <2>1
<1> QED BY <1>2, <1>5, <1>6, <1>7

LEMMA GrownNamed ==
  ASSUME NEW S, NEW s \in Seq(S), NEW t, NEW p, NEW x, Grown(s, t, p, x),
         NEW K, Named(s, K), Name(x) \notin K
  PROVE  Named(t, K \cup {Name(x)})
<1>1. /\ \A i \in 1 .. Len(s) : Name(s[i]) \in K
      /\ \A k \in K : \E i \in 1 .. Len(s) : Name(s[i]) = k
      /\ IsFiniteSet(K) /\ Len(s) = Cardinality(K)
  BY DEF Named
<1>2. /\ Len(s) \in Nat /\ p \in 1 .. Len(s) + 1 /\ Len(t) = Len(s) + 1 /\ t[p] = x
      /\ \A i \in 1 .. Len(s) : (i < p => t[i] = s[i]) /\ (p <= i => t[i + 1] = s[i])
  BY DEF Grown
<1> DEFINE new == K \cup {Name(x)}
<1>3. IsFiniteSet(new) /\ Cardinality(new) = Cardinality(K) + 1
  BY <1>1, FS_AddElement
<1>4. \A a \in 1 .. Len(t) : Name(t[a]) \in new
  <2> TAKE a \in 1 .. Len(t)
  <2>1. t[a] = x \/ \E i \in 1 .. Len(s) : t[a] = s[i]
    BY GrownPlaces
  <2> QED BY <1>1, <2>1
<1>5. \A k \in new : \E a \in 1 .. Len(t) : Name(t[a]) = k
  <2> TAKE k \in new
  <2>1. CASE k = Name(x)
    <3>1. p \in 1 .. Len(t)
      BY <1>2
    <3> QED BY <1>2, <2>1, <3>1
  <2>2. CASE k \in K
    <3>1. PICK i \in 1 .. Len(s) : Name(s[i]) = k
      BY <1>1, <2>2
    <3>2. i \in 1 .. Len(t) /\ i + 1 \in 1 .. Len(t) /\ (i < p \/ p <= i)
      BY <1>2
    <3>3. t[i] = s[i] \/ t[i + 1] = s[i]
      BY <1>2, <3>2
    <3> QED BY <3>1, <3>2, <3>3
  <2> QED BY <2>1, <2>2
<1>6. Len(t) = Cardinality(new)
  BY <1>1, <1>2, <1>3
<1> HIDE DEF new
<1> QED BY <1>3, <1>4, <1>5, <1>6 DEF Named, new

-----------------------------------------------------------------------------
(* The functions of the driver on its state s, a record [u, o].            *)

Shaped(s) ==
  /\ DOMAIN s = {"u", "o"} /\ DOMAIN s.u = {"list", "num", "poc", "scte"}
  /\ s.u.num \in Int /\ s.u.poc \in Int
DriverState(s) == Shaped(s) /\ s.u.list \in Seq(Captions) /\ s.o \in Seq(Captions)
Line(s) == s.o \o s.u.list
Waits(s) == {s.u.list[i] : i \in 1 .. Len(s.u.list)}
Written(s) == {s.o[i] : i \in 1 .. Len(s.o)}
First(s, n) == {s.u.list[i] : i \in 1 .. n}
InLine(s, R) == Ascends(Line(s), Given(R)) /\ Ascends(s.u.list, Shown)
\* The first n that wait are written.
Moves(s, r, n) ==
  /\ Shaped(r) /\ n \in 0 .. Len(s.u.list)
  /\ r.o = s.o \o SubSeq(s.u.list, 1, n)
  /\ r.u.list = SubSeq(s.u.list, n + 1, Len(s.u.list))
\* x takes its place among those that wait.
Enlists(s, r, x) ==
  /\ Waits(r) = Waits(s) \cup {x} /\ r.o = s.o
  /\ Len(r.u.list) = Len(s.u.list) + 1
  /\ r.u.num = s.u.num + 1 /\ r.u.poc = s.u.poc /\ r.u.scte = s.u.scte

LEMMA MovesKeep ==
  ASSUME NEW s, NEW r, NEW n, NEW R, NEW K,
         DriverState(s), Moves(s, r, n), InLine(s, R), Named(Line(s), K)
  PROVE  /\ DriverState(r) /\ InLine(r, R) /\ Named(Line(r), K)
         /\ Waits(r) \subseteq Waits(s)
         /\ Written(r) \subseteq Written(s) \cup First(s, n)
         /\ Len(r.u.list) = Len(s.u.list) - n
         /\ \A i \in 1 .. Len(r.u.list) : n + i \in 1 .. Len(s.u.list)
                                          /\ r.u.list[i] = s.u.list[n + i]
<1> DEFINE a == s.o  b == s.u.list  c == SubSeq(b, 1, n)  d == SubSeq(b, n + 1, Len(b))
<1>1. a \in Seq(Captions) /\ b \in Seq(Captions) /\ n \in 0 .. Len(b) /\ Len(b) \in Nat
  BY DEF DriverState, Moves
<1>2. /\ c \in Seq(Captions) /\ Len(c) = n /\ \A i \in 1 .. n : c[i] = b[i]
      /\ d \in Seq(Captions) /\ Len(d) = Len(b) - n
      /\ \A i \in 1 .. Len(b) - n : d[i] = b[n + i]
      /\ a \o c \in Seq(Captions) /\ (a \o c) \o d = a \o b
  <2>1. /\ c \in Seq(Captions) /\ d \in Seq(Captions) /\ Parted(b, n, c, d)
        /\ a \o c \in Seq(Captions) /\ (a \o c) \o d = a \o b
    <3> HIDE DEF a, b
    <3>1. Rejoins(Captions, a, b, n, SubSeq(b, 1, n), SubSeq(b, n + 1, Len(b)))
      BY <1>1, PartMoved
    <3> HIDE DEF c, d
    <3>2. Rejoins(Captions, a, b, n, c, d)
      BY <3>1, Zenon DEF c, d
    <3> QED BY <3>2, Zenon DEF Rejoins
  <2> HIDE DEF a, b, c, d
  <2> QED BY <2>1 DEF Parted
<1>3. r.o = a \o c /\ r.u.list = d
  BY DEF Moves
<1>4. DriverState(r)
  BY <1>2, <1>3 DEF DriverState, Moves
<1>5. Line(r) = Line(s)
  BY <1>2, <1>3 DEF Line
<1>6. Len(r.u.list) = Len(b) - n
      /\ \A i \in 1 .. Len(r.u.list) : n + i \in 1 .. Len(b) /\ r.u.list[i] = b[n + i]
  BY <1>1, <1>2, <1>3
<1>7. Waits(r) \subseteq Waits(s)
  BY <1>6 DEF Waits
<1>8. Written(r) \subseteq Written(s) \cup First(s, n)
  <2>1. Chained(a \o c, a, c)
    BY <1>1, <1>2, JoinedParts
  <2> HIDE DEF a, b, c, d
  <2> DEFINE w == a \o c
  <2>2. /\ Len(w) = Len(a) + n /\ Len(a) \in Nat
        /\ \A i \in 1 .. Len(a) : w[i] = a[i]
        /\ \A i \in 1 .. n : w[Len(a) + i] = b[i]
    BY <1>1, <1>2, <2>1 DEF Chained
  <2> HIDE DEF w
  <2>3. ASSUME NEW i \in 1 .. Len(w)
        PROVE  (\E j \in 1 .. Len(a) : w[i] = a[j]) \/ (\E j \in 1 .. n : w[i] = b[j])
    <3>1. CASE i <= Len(a)
      <4>1. i \in 1 .. Len(a)
        BY <2>2, <3>1
      <4> QED BY <2>2, <4>1
    <3>2. CASE i > Len(a)
      <4>1. i - Len(a) \in 1 .. n /\ i = Len(a) + (i - Len(a))
        BY <1>1, <2>2, <3>2
      <4>2. PICK j \in 1 .. n : i = Len(a) + j
        BY <4>1
      <4> QED BY <2>2, <4>2
    <3> QED BY <2>2, <3>1, <3>2
  <2>4. r.o = w
    BY <1>3 DEF w
  <2> QED BY <2>3, <2>4 DEF Written, First, a, b
<1>9. Ascends(r.u.list, Shown)
  <2> SUFFICES ASSUME NEW i \in 1 .. Len(r.u.list), NEW j \in 1 .. Len(r.u.list), i < j
               PROVE  <<r.u.list[i], r.u.list[j]>> \in Shown
    BY DEF Ascends
  <2>1. n + i \in 1 .. Len(b) /\ n + j \in 1 .. Len(b) /\ n + i < n + j
    BY <1>1, <1>6
  <2>2. <<b[n + i], b[n + j]>> \in Shown
    BY <2>1 DEF InLine, Ascends
  <2> QED BY <1>6, <2>2
<1> QED BY <1>4, <1>5, <1>6, <1>7, <1>8, <1>9 DEF InLine

LEMMA AllAndNone ==
  ASSUME NEW S, NEW b \in Seq(S)
  PROVE  /\ Len(b) \in 0 .. Len(b)
         /\ SubSeq(b, 1, Len(b)) = b /\ SubSeq(b, Len(b) + 1, Len(b)) = << >>
         /\ SubSeq(b, 1, 0) = << >> /\ SubSeq(b, 1, Len(b)) = b
<1>1. Len(b) \in Nat
  OBVIOUS
<1>2. SubSeq(b, 1, Len(b)) = b
  <2>1. SubSeq(b, 1, Len(b)) \in Seq(S) /\ Len(SubSeq(b, 1, Len(b))) = Len(b)
        /\ \A i \in 1 .. Len(b) : SubSeq(b, 1, Len(b))[i] = b[i]
    BY <1>1
  <2> QED BY <2>1, SeqEqual
<1>3. SubSeq(b, Len(b) + 1, Len(b)) = << >> /\ SubSeq(b, 1, 0) = << >>
  BY <1>1
<1> QED BY <1>1, <1>2, <1>3

LEMMA FlushMoves ==
  ASSUME NEW s, DriverState(s)
  PROVE  LET r == Order!aml_flush_cc_data(s)
         IN /\ Moves(s, r, Len(s.u.list)) /\ r.u.list = << >>
            /\ r.u.num = 0 /\ r.u.poc = -1 /\ r.u.scte = s.u.scte
<1> DEFINE r == Order!aml_flush_cc_data(s)  b == s.u.list
<1>1. b \in Seq(Captions)
  BY DEF DriverState
<1>2. /\ DOMAIN r = {"u", "o"} /\ DOMAIN r.u = {"list", "num", "poc", "scte"}
      /\ r.o = s.o \o b /\ r.u.list = << >> /\ r.u.num = 0 /\ r.u.poc = -1
      /\ r.u.scte = s.u.scte
  BY DEF Order!aml_flush_cc_data, Order!Write, DriverState, Shaped
<1>3. Len(b) \in 0 .. Len(b) /\ SubSeq(b, 1, Len(b)) = b /\ SubSeq(b, Len(b) + 1, Len(b)) = << >>
  BY <1>1, AllAndNone
<1>4. Shaped(r)
  BY <1>2 DEF Shaped
<1> HIDE DEF r, b
<1> QED BY <1>2, <1>3, <1>4 DEF Moves, r, b

LEMMA RoomMoves ==
  ASSUME NEW s, DriverState(s), s.u.list # << >>, Order!Full(s)
  PROVE  LET r == Order!MakeRoom(s)
         IN Moves(s, r, 1) /\ r.u.num = s.u.num - 1 /\ r.u.poc = s.u.poc /\ r.u.scte = s.u.scte
<1> DEFINE r == Order!MakeRoom(s)  b == s.u.list
<1>1. b \in Seq(Captions) /\ b # << >> /\ Len(b) \in Nat /\ Len(b) >= 1 /\ 1 \in 0 .. Len(b)
  BY DEF DriverState
<1>2. /\ DOMAIN r = {"u", "o"} /\ DOMAIN r.u = {"list", "num", "poc", "scte"}
      /\ r.o = s.o \o <<Head(b)>> /\ r.u.list = Tail(b) /\ r.u.num = s.u.num - 1
      /\ r.u.poc = s.u.poc /\ r.u.scte = s.u.scte
  BY DEF Order!MakeRoom, Order!Write, DriverState, Shaped
<1>3. SubSeq(b, 1, 1) = <<Head(b)>> /\ SubSeq(b, 1 + 1, Len(b)) = Tail(b)
  <2> HIDE DEF b
  <2> DEFINE c == SubSeq(b, 1, 1)  h == <<Head(b)>>
  <2>1. c \in Seq(Captions) /\ Len(c) = 1 /\ c[1] = b[1]
    BY <1>1
  <2>2. h \in Seq(Captions) /\ Len(h) = 1 /\ h[1] = b[1]
    BY <1>1
  <2> HIDE DEF c, h
  <2>3. \A i \in 1 .. 1 : c[i] = h[i]
    BY <2>1, <2>2
  <2>4. c = h
    BY <2>1, <2>2, <2>3, SeqEqual
  <2>5. SubSeq(b, 2, Len(b)) = Tail(b)
    BY <1>1
  <2> QED BY <2>4, <2>5 DEF c, h
<1>4. Shaped(r)
  BY <1>2 DEF Shaped, DriverState
<1> HIDE DEF r, b
<1> QED BY <1>1, <1>2, <1>3, <1>4 DEF Moves, r, b

LEMMA PlaceInList ==
  ASSUME NEW b \in Seq(Captions), NEW x
  PROVE  LET p == Order!Place(b, x)
         IN /\ p \in 1 .. Len(b) + 1
            /\ \A i \in 1 .. Len(b) : i < p => ~Order!Goes(x, b[i])
            /\ p \in 1 .. Len(b) => Order!Goes(x, b[p])
<1> DEFINE T == {Len(b) + 1} \cup {i \in DOMAIN b : Order!Goes(x, b[i])}
<1>1. T \in SUBSET (1 .. Len(b) + 1) /\ T # {} /\ Len(b) \in Nat /\ DOMAIN b = 1 .. Len(b)
  OBVIOUS
<1>2. PICK e \in T : \A y \in T : e <= y
  <2>1. T \in SUBSET Nat
    BY <1>1
  <2> HIDE DEF T
  <2> QED BY <1>1, <2>1, LeastNumber
<1> DEFINE p == Order!Min(T)
<1>3. p \in T /\ \A y \in T : p <= y
  <2> HIDE DEF T
  <2>1. p = CHOOSE z \in T : \A w \in T : z <= w
    BY DEF Order!Min
  <2> QED BY <1>2, <2>1
<1>4. Order!Place(b, x) = p
  BY DEF Order!Place
<1> HIDE DEF p
<1>5. p \in 1 .. Len(b) + 1
  BY <1>1, <1>3
<1>6. \A i \in 1 .. Len(b) : i < p => ~Order!Goes(x, b[i])
  <2> SUFFICES ASSUME NEW i \in 1 .. Len(b), i < p, Order!Goes(x, b[i]) PROVE FALSE
    OBVIOUS
  <2>1. i \in T
    BY <1>1
  <2>2. p <= i
    BY <1>3, <2>1
  <2> QED BY <1>5, <2>2
<1>7. p \in 1 .. Len(b) => Order!Goes(x, b[p])
  BY <1>1, <1>3
<1> QED BY <1>4, <1>5, <1>6, <1>7

LEMMA NameOrder ==
  ASSUME NEW x \in Captions, NEW y \in Captions, Name(x) # Name(y), ~Precedes(x, y)
  PROVE  Precedes(y, x)
<1>1. x.group \in Nat /\ y.group \in Nat /\ x.poc \in Nat /\ y.poc \in Nat
  BY PictureNumbers DEF Captions
<1> QED BY <1>1 DEF Name, Precedes

LEMMA PrecedesOn ==
  ASSUME NEW x \in Captions, NEW y \in Captions, NEW z \in Captions, Precedes(x, y), Precedes(y, z)
  PROVE  Precedes(x, z)
<1>1. /\ x.group \in Nat /\ y.group \in Nat /\ x.poc \in Nat /\ y.poc \in Nat
      /\ z.group \in Nat /\ z.poc \in Nat
  BY PictureNumbers DEF Captions
<1> QED BY <1>1 DEF Precedes

LEMMA LineHas ==
  ASSUME NEW s, DriverState(s), NEW K, Named(Line(s), K)
  PROVE  \A y \in Waits(s) \cup Written(s) : y \in Captions /\ Name(y) \in K
<1>1. s.o \in Seq(Captions) /\ s.u.list \in Seq(Captions)
  BY DEF DriverState
<1>2. Chained(Line(s), s.o, s.u.list)
  BY <1>1, JoinedParts DEF Line
<1> DEFINE l == Line(s)  a == s.o  b == s.u.list
<1>4. \A i \in 1 .. Len(l) : Name(l[i]) \in K
  BY DEF Named
<1> HIDE DEF l, a, b
<1>7. a \in Seq(Captions) /\ b \in Seq(Captions) /\ Chained(l, a, b)
  BY <1>1, <1>2 DEF l, a, b
<1>8. /\ Len(a) \in Nat /\ Len(b) \in Nat
      /\ \A i \in 1 .. Len(a) : a[i] \in Captions
      /\ \A i \in 1 .. Len(b) : b[i] \in Captions
  BY <1>7
<1>3. /\ Len(a) \in Nat /\ Len(b) \in Nat /\ Len(l) = Len(a) + Len(b)
      /\ \A i \in 1 .. Len(a) : l[i] = a[i] /\ a[i] \in Captions
      /\ \A i \in 1 .. Len(b) : l[Len(a) + i] = b[i] /\ b[i] \in Captions
  BY <1>7, <1>8 DEF Chained
<1>5. \A i \in 1 .. Len(a) : a[i] \in Captions /\ Name(a[i]) \in K
  <2> TAKE i \in 1 .. Len(a)
  <2>1. i \in 1 .. Len(l)
    BY <1>3
  <2> QED BY <1>3, <1>4, <2>1
<1>6. \A i \in 1 .. Len(b) : b[i] \in Captions /\ Name(b[i]) \in K
  <2> TAKE i \in 1 .. Len(b)
  <2>1. Len(a) + i \in 1 .. Len(l)
    BY <1>3
  <2> QED BY <1>3, <1>4, <2>1
<1> QED BY <1>5, <1>6 DEF Waits, Written, a, b

LEMMA ShownIsGiven == ASSUME NEW R PROVE Shown \subseteq Given(R)
BY DEF Shown, Given

LEMMA InsertKeeps ==
  ASSUME NEW s, NEW x \in Captions, NEW R, NEW K,
         DriverState(s), InLine(s, R), Named(Line(s), K), Name(x) \notin K,
         \A y \in Written(s) : <<y, x>> \in Given(R),
         \A y \in Waits(s) : Order!Goes(x, y) <=> Precedes(x, y)
  PROVE  LET r == Order!Insert(s, x)
         IN DriverState(r) /\ Enlists(s, r, x) /\ InLine(r, R) /\ Named(Line(r), K \cup {Name(x)})
<1> DEFINE r == Order!Insert(s, x)  a == s.o  b == s.u.list  p == Order!Place(b, x)
           c == Order!InsertAt(b, p, x)
<1>1. a \in Seq(Captions) /\ b \in Seq(Captions)
  BY DEF DriverState
<1>2. /\ DOMAIN r = {"u", "o"} /\ DOMAIN r.u = {"list", "num", "poc", "scte"}
      /\ r.o = a /\ r.u.list = c /\ r.u.num = s.u.num + 1 /\ r.u.poc = s.u.poc
      /\ r.u.scte = s.u.scte
  BY DEF Order!Insert, DriverState, Shaped
<1>3. Shaped(r)
  BY <1>2 DEF Shaped, DriverState
<1>4. /\ p \in 1 .. Len(b) + 1
      /\ \A i \in 1 .. Len(b) : i < p => ~Order!Goes(x, b[i])
      /\ p \in 1 .. Len(b) => Order!Goes(x, b[p])
  <2> HIDE DEF b
  <2> QED BY <1>1, PlaceInList
<1> HIDE DEF p
<1>5. c \in Seq(Captions) /\ Grown(b, c, p, x)
  <2> HIDE DEF b
  <2> QED BY <1>1, <1>4, PutIn
<1> HIDE DEF c, r
<1>6. DriverState(r)
  BY <1>1, <1>2, <1>3, <1>5 DEF DriverState
<1>7. \A i \in 1 .. Len(b) : b[i] \in Waits(s) /\ b[i] \in Captions /\ Name(b[i]) \in K
  <2>1. \A i \in 1 .. Len(b) : b[i] \in Waits(s)
    BY DEF Waits
  <2> QED BY <2>1, LineHas
<1>8. \A i \in 1 .. Len(b) : (i < p => <<b[i], x>> \in Shown) /\ (p <= i => <<x, b[i]>> \in Shown)
  <2> TAKE i \in 1 .. Len(b)
  <2>1. b[i] \in Waits(s) /\ b[i] \in Captions /\ Name(b[i]) # Name(x)
    BY <1>7
  <2>2. ASSUME i < p PROVE <<b[i], x>> \in Shown
    <3>1. ~Precedes(x, b[i])
      BY <1>4, <2>1, <2>2
    <3>2. Precedes(b[i], x)
      BY <2>1, <3>1, NameOrder
    <3> QED BY <2>1, <3>2 DEF Shown
  <2>3. ASSUME p <= i PROVE <<x, b[i]>> \in Shown
    <3>1. Len(b) \in Nat /\ p \in 1 .. Len(b)
      BY <1>1, <1>4, <2>3
    <3>2. b[p] \in Waits(s) /\ b[p] \in Captions /\ Precedes(x, b[p])
      BY <1>4, <1>7, <3>1
    <3>3. CASE p = i
      BY <2>1, <3>2, <3>3 DEF Shown
    <3>4. CASE p < i
      <4>1. <<b[p], b[i]>> \in Shown
        BY <3>1, <3>4 DEF InLine, Ascends
      <4>2. Precedes(b[p], b[i])
        BY <4>1 DEF Shown
      <4>3. Precedes(x, b[i])
        BY <2>1, <3>2, <4>2, PrecedesOn
      <4> QED BY <2>1, <4>3 DEF Shown
    <3> QED BY <2>3, <3>1, <3>3, <3>4
  <2> QED BY <2>2, <2>3
<1>9. Ascends(c, Shown)
  <2>1. Ascends(b, Shown)
    BY DEF InLine
  <2> HIDE DEF b
  <2> QED BY <1>1, <1>5, <1>8, <2>1, GrownAscends
<1> DEFINE l == a \o b  m == a \o c
<1>10. /\ l \in Seq(Captions) /\ Chained(l, a, b) /\ Grown(l, m, Len(a) + p, x)
  <2> HIDE DEF a, b
  <2> QED BY <1>1, <1>5, JoinedParts, GrownBehind
<1>11. Line(s) = l /\ Line(r) = m
  BY <1>2 DEF Line
<1> HIDE DEF l, m
<1>12. \A i \in 1 .. Len(l) : /\ i < Len(a) + p => <<l[i], x>> \in Given(R)
                              /\ Len(a) + p <= i => <<x, l[i]>> \in Given(R)
  <2> TAKE i \in 1 .. Len(l)
  <2>4. Len(a) \in Nat /\ Len(b) \in Nat /\ p \in Nat /\ p >= 1
    <3> HIDE DEF a, b
    <3> QED BY <1>1, <1>4
  <2>5. /\ Len(l) = Len(a) + Len(b) /\ \A j \in 1 .. Len(a) : l[j] = a[j]
        /\ \A j \in 1 .. Len(b) : l[Len(a) + j] = b[j]
    <3> HIDE DEF a, b
    <3> QED BY <1>10 DEF Chained
  <2>1. /\ Len(a) \in Nat /\ Len(b) \in Nat /\ Len(l) = Len(a) + Len(b) /\ p \in Nat /\ p >= 1
        /\ \A j \in 1 .. Len(a) : l[j] = a[j]
        /\ \A j \in 1 .. Len(b) : l[Len(a) + j] = b[j]
    BY <2>4, <2>5, Zenon
  <2>2. CASE i <= Len(a)
    <3>1. i \in 1 .. Len(a) /\ ~(Len(a) + p <= i)
      BY <2>1, <2>2
    <3>2. a[i] \in Written(s)
      BY <3>1 DEF Written
    <3> QED BY <2>1, <3>1, <3>2
  <2>3. CASE i > Len(a)
    <3> HIDE DEF a, b
    <3>1. i - Len(a) \in 1 .. Len(b) /\ i = Len(a) + (i - Len(a))
      BY <2>1, <2>3
    <3>2. PICK j \in 1 .. Len(b) : i = Len(a) + j
      BY <3>1
    <3>3. (i < Len(a) + p <=> j < p) /\ (Len(a) + p <= i <=> p <= j) /\ l[i] = b[j]
      BY <2>1, <3>2
    <3> QED BY <1>8, <3>3, ShownIsGiven
  <2> QED BY <2>1, <2>2, <2>3
<1>13. Ascends(m, Given(R))
  <2>1. Ascends(l, Given(R))
    BY <1>11 DEF InLine
  <2> QED BY <1>10, <1>12, <2>1, GrownAscends
<1>14. Named(m, K \cup {Name(x)})
  BY <1>10, <1>11, GrownNamed
<1>15. Enlists(s, r, x)
  <2>1. /\ Len(b) \in Nat /\ Len(c) = Len(b) + 1 /\ c[p] = x
        /\ \A i \in 1 .. Len(b) : (i < p => c[i] = b[i]) /\ (p <= i => c[i + 1] = b[i])
    BY <1>1, <1>5 DEF Grown
  <2>2. \A i \in 1 .. Len(c) : c[i] = x \/ \E j \in 1 .. Len(b) : c[i] = b[j]
    BY <1>1, <1>5, GrownPlaces
  <2>3. \A j \in 1 .. Len(b) : \E i \in 1 .. Len(c) : c[i] = b[j]
    <3> TAKE j \in 1 .. Len(b)
    <3>1. j \in 1 .. Len(c) /\ j + 1 \in 1 .. Len(c) /\ (j < p \/ p <= j)
      BY <1>4, <2>1
    <3> QED BY <2>1, <3>1
  <2>4. p \in 1 .. Len(c)
    BY <1>4, <2>1
  <2>5. Waits(r) = {c[i] : i \in 1 .. Len(c)} /\ Waits(s) = {b[i] : i \in 1 .. Len(b)}
    BY <1>2 DEF Waits
  <2>6. Waits(r) = Waits(s) \cup {x}
    <3>1. \A y \in Waits(r) : y = x \/ y \in Waits(s)
      BY <2>2, <2>5, Zenon
    <3>2. \A y \in Waits(s) : y \in Waits(r)
      BY <2>3, <2>5, Zenon
    <3>3. x \in Waits(r)
      BY <2>1, <2>4, <2>5, Zenon
    <3> QED BY <3>1, <3>2, <3>3, Zenon
  <2> QED BY <1>2, <2>1, <2>6 DEF Enlists
<1>16. InLine(r, R)
  BY <1>2, <1>9, <1>11, <1>13 DEF InLine
<1>17. Named(Line(r), K \cup {Name(x)})
  BY <1>11, <1>14
<1> QED BY <1>6, <1>15, <1>16, <1>17 DEF r

\* A packet in its turn is written past those that wait.
LEMMA WriteKeeps ==
  ASSUME NEW s, NEW x \in Captions, NEW R, NEW K,
         DriverState(s), InLine(s, R), Named(Line(s), K), Name(x) \notin K,
         \A y \in Written(s) : <<y, x>> \in Given(R),
         \A y \in Waits(s) : Precedes(x, y)
  PROVE  LET r == [Order!Write(s, <<x>>) EXCEPT !.u.poc = x.poc]
         IN /\ DriverState(r) /\ InLine(r, R) /\ Named(Line(r), K \cup {Name(x)})
            /\ Waits(r) = Waits(s) /\ Written(r) = Written(s) \cup {x}
            /\ r.u.list = s.u.list
            /\ r.u.num = s.u.num /\ r.u.poc = x.poc /\ r.u.scte = s.u.scte
<1> DEFINE r == [Order!Write(s, <<x>>) EXCEPT !.u.poc = x.poc]
           a == s.o  b == s.u.list  e == <<x>>  ax == a \o e  l == a \o b  m == ax \o b
<1>1. a \in Seq(Captions) /\ b \in Seq(Captions) /\ e \in Seq(Captions) /\ Len(e) = 1 /\ e[1] = x
  BY DEF DriverState
<1>2. /\ DOMAIN r = {"u", "o"} /\ DOMAIN r.u = {"list", "num", "poc", "scte"}
      /\ r.o = ax /\ r.u.list = b /\ r.u.num = s.u.num /\ r.u.poc = x.poc
      /\ r.u.scte = s.u.scte
  BY DEF Order!Write, DriverState, Shaped
<1>3. x.poc \in Int
  <2>1. x.poc \in Pictures
    BY DEF Captions
  <2> HIDE DEF r, a, b, e, ax, l, m
  <2>2. x.poc \in Nat
    BY <2>1, PictureNumbers, Zenon
  <2> QED BY <2>2
<1>4. Shaped(r)
  BY <1>2, <1>3 DEF Shaped, DriverState
<1> HIDE DEF r, a, b, e
<1>5. ax \in Seq(Captions) /\ Chained(ax, a, e) /\ l \in Seq(Captions) /\ Chained(l, a, b)
  BY <1>1, JoinedParts
<1> HIDE DEF ax, l
<1>6. Chained(m, ax, b)
  BY <1>1, <1>5, JoinedParts
<1> HIDE DEF m
<1>7. DriverState(r)
  BY <1>1, <1>2, <1>4, <1>5 DEF DriverState
<1>8. /\ Len(a) \in Nat /\ Len(b) \in Nat
      /\ Len(ax) = Len(a) + 1 /\ ax[Len(a) + 1] = x /\ \A i \in 1 .. Len(a) : ax[i] = a[i]
      /\ Len(l) = Len(a) + Len(b) /\ \A i \in 1 .. Len(a) : l[i] = a[i]
      /\ \A i \in 1 .. Len(b) : l[Len(a) + i] = b[i]
  BY <1>1, <1>5 DEF Chained
<1>9. /\ Len(m) = Len(ax) + Len(b) /\ \A i \in 1 .. Len(ax) : m[i] = ax[i]
      /\ \A i \in 1 .. Len(b) : m[Len(ax) + i] = b[i]
  BY <1>6 DEF Chained
<1> DEFINE p == Len(a) + 1
<1>10. Grown(l, m, p, x)
  <2>1. p \in 1 .. Len(l) + 1 /\ Len(m) = Len(l) + 1
    BY <1>8, <1>9
  <2>2. m[p] = x
    <3>1. p \in 1 .. Len(ax)
      BY <1>8
    <3> QED BY <1>8, <1>9, <3>1
  <2>3. ASSUME NEW i \in 1 .. Len(l)
        PROVE  (i < p => m[i] = l[i]) /\ (p <= i => m[i + 1] = l[i])
    <3>1. CASE i < p
      <4>1. i \in 1 .. Len(a) /\ i \in 1 .. Len(ax)
        BY <1>8, <3>1
      <4> QED BY <1>8, <1>9, <3>1, <4>1
    <3>2. CASE p <= i
      <4>1. i - Len(a) \in 1 .. Len(b) /\ i = Len(a) + (i - Len(a))
        BY <1>8, <3>2
      <4>2. PICK j \in 1 .. Len(b) : i = Len(a) + j
        BY <4>1
      <4>3. i + 1 = Len(ax) + j
        BY <1>8, <4>2
      <4> QED BY <1>8, <1>9, <3>2, <4>2, <4>3
    <3> QED BY <1>8, <3>1, <3>2
  <2> QED BY <2>1, <2>2, <2>3 DEF Grown
<1>11. Line(s) = l /\ Line(r) = m
  BY <1>2 DEF Line, l, m, a, b
<1>12. \A i \in 1 .. Len(l) : /\ i < p => <<l[i], x>> \in Given(R)
                              /\ p <= i => <<x, l[i]>> \in Given(R)
  <2> TAKE i \in 1 .. Len(l)
  <2>1. CASE i < p
    <3>1. i \in 1 .. Len(a)
      BY <1>8, <2>1
    <3>2. a[i] \in Written(s)
      BY <3>1 DEF Written, a
    <3> QED BY <1>8, <2>1, <3>1, <3>2
  <2>2. CASE p <= i
    <3>1. i - Len(a) \in 1 .. Len(b) /\ i = Len(a) + (i - Len(a))
      BY <1>8, <2>2
    <3>2. PICK j \in 1 .. Len(b) : i = Len(a) + j
      BY <3>1
    <3>3. b[j] \in Waits(s) /\ b[j] \in Captions /\ l[i] = b[j]
      BY <1>1, <1>8, <3>2 DEF Waits, b
    <3>4. <<x, b[j]>> \in Shown
      BY <3>3 DEF Shown
    <3> QED BY <2>2, <3>3, <3>4, ShownIsGiven
  <2> QED BY <1>8, <2>1, <2>2
<1>13. Ascends(m, Given(R)) /\ Named(m, K \cup {Name(x)})
  <2>1. Ascends(l, Given(R)) /\ Named(l, K)
    BY <1>11 DEF InLine
  <2> HIDE DEF p
  <2> QED BY <1>5, <1>10, <1>12, <2>1, GrownAscends, GrownNamed
<1>14. InLine(r, R)
  BY <1>2, <1>11, <1>13 DEF InLine, b
<1>15. Waits(r) = Waits(s)
  BY <1>2 DEF Waits, b
<1>16. Written(r) = Written(s) \cup {x}
  <2>1. \A i \in 1 .. Len(ax) : i = p \/ i \in 1 .. Len(a)
    BY <1>8
  <2>2. p \in 1 .. Len(ax) /\ \A i \in 1 .. Len(a) : i \in 1 .. Len(ax)
    BY <1>8
  <2>3. Written(r) = {ax[i] : i \in 1 .. Len(ax)} /\ Written(s) = {a[i] : i \in 1 .. Len(a)}
    BY <1>2 DEF Written, a
  <2> QED BY <1>8, <2>1, <2>2, <2>3
<1> QED BY <1>2, <1>7, <1>11, <1>13, <1>14, <1>15, <1>16 DEF r, b

LEMMA GreatestNumber ==
  ASSUME NEW N \in Nat, NEW T \in SUBSET (0 .. N), T # {}
  PROVE  Order!Max(T) \in T /\ \A y \in T : Order!Max(T) >= y
<1> DEFINE D == {N - t : t \in T}
<1>1. D \in SUBSET Nat /\ D # {}
  <2>1. \A t \in T : N - t \in Nat
    OBVIOUS
  <2>2. PICK e \in T : TRUE
    OBVIOUS
  <2>3. N - e \in D
    OBVIOUS
  <2> QED BY <2>1, <2>3
<1>2. PICK d \in D : \A y \in D : d <= y
  BY <1>1, LeastNumber
<1>3. PICK m \in T : d = N - m
  OBVIOUS
<1>4. \A t \in T : m >= t
  <2> TAKE t \in T
  <2>1. N - t \in D /\ d <= N - t
    BY <1>2
  <2> QED BY <1>3, <2>1
<1>5. Order!Max(T) = CHOOSE x \in T : \A y \in T : x >= y
  BY DEF Order!Max
<1> QED BY <1>4, <1>5

LEMMA FollowingPlaces ==
  ASSUME NEW u, u.list \in Seq(Captions)
  PROVE  LET n == Order!Following(u)
         IN /\ n \in 0 .. Len(u.list)
            /\ \A i \in 1 .. n : u.list[i].poc = u.poc + i
<1> DEFINE b == u.list
           T == {n \in 0 .. Len(b) : \A i \in 1 .. n : b[i].poc = u.poc + i}
<1>1. Order!Following(u) = Order!Max(T)
  BY DEF Order!Following
<1>2. Len(b) \in Nat /\ T \in SUBSET (0 .. Len(b)) /\ 0 \in T
  OBVIOUS
<1>3. Order!Max(T) \in T
  <2> HIDE DEF T, b
  <2> QED BY <1>2, GreatestNumber
<1> QED BY <1>1, <1>3

LEMMA DrainMoves ==
  ASSUME NEW s, DriverState(s)
  PROVE  LET r == Order!Drain(s)
             n == Order!Following(s.u)
         IN /\ Moves(s, r, n) /\ r.u.num = s.u.num /\ r.u.scte = s.u.scte
            /\ r.u.poc = s.u.poc + n
            /\ \A i \in 1 .. n : s.u.list[i].poc = s.u.poc + i
<1> DEFINE r == Order!Drain(s)  n == Order!Following(s.u)  b == s.u.list
<1>1. n \in 0 .. Len(b) /\ (\A i \in 1 .. n : b[i].poc = s.u.poc + i) /\ s.u.poc \in Int
  BY FollowingPlaces DEF DriverState, Shaped
<1> HIDE DEF n
<1>2. /\ DOMAIN r = {"u", "o"} /\ DOMAIN r.u = {"list", "num", "poc", "scte"}
      /\ r.o = s.o \o SubSeq(b, 1, n) /\ r.u.list = SubSeq(b, n + 1, Len(b))
      /\ r.u.num = s.u.num /\ r.u.poc = s.u.poc + n /\ r.u.scte = s.u.scte
  BY DEF Order!Drain, Order!Write, DriverState, Shaped, n
<1> HIDE DEF r, b
<1>3. n \in Int /\ s.u.poc + n \in Int /\ s.u.num \in Int
  <2>1. n \in Int
    BY <1>1
  <2>2. s.u.num \in Int
    BY DEF DriverState, Shaped
  <2> QED BY <1>1, <2>1, <2>2
<1>4. Shaped(r)
  BY <1>2, <1>3 DEF Shaped
<1> QED BY <1>1, <1>2, <1>4 DEF Moves, r, b, n

LEMMA OneMore ==
  ASSUME NEW S, NEW b \in Seq(S), NEW lo \in 0 .. Len(b), NEW i \in 1 .. Len(b), lo < i
  PROVE  Append(SubSeq(b, lo + 1, i - 1), b[i]) = SubSeq(b, lo + 1, i)
<1> DEFINE c == SubSeq(b, lo + 1, i - 1)  d == SubSeq(b, lo + 1, i)  e == Append(c, b[i])
<1>1. Len(b) \in Nat /\ lo \in Nat /\ i \in Nat /\ b[i] \in S
  OBVIOUS
<1>2. c \in Seq(S) /\ Len(c) = (i - 1) - lo /\ \A j \in 1 .. (i - 1) - lo : c[j] = b[lo + j]
  BY <1>1
<1>3. d \in Seq(S) /\ Len(d) = i - lo /\ \A j \in 1 .. i - lo : d[j] = b[lo + j]
  BY <1>1
<1> HIDE DEF c, d
<1>4. e \in Seq(S) /\ Len(e) = Len(c) + 1 /\ e[Len(c) + 1] = b[i]
      /\ \A j \in 1 .. Len(c) : e[j] = c[j]
  BY <1>1, <1>2
<1> HIDE DEF e
<1>5. Len(e) = i - lo
  BY <1>1, <1>2, <1>4
<1>6. ASSUME NEW j \in 1 .. Len(e) PROVE e[j] = d[j]
  <2>1. CASE j = i - lo
    <3>1. j = Len(c) + 1 /\ lo + j = i /\ j \in 1 .. i - lo
      BY <1>1, <1>2, <1>5, <2>1
    <3> QED BY <1>3, <1>4, <3>1
  <2>2. CASE j # i - lo
    <3>1. j \in 1 .. (i - 1) - lo /\ j \in 1 .. i - lo
      BY <1>1, <1>5, <2>2
    <3> QED BY <1>2, <1>3, <1>4, <3>1
  <2> QED BY <2>1, <2>2
<1> QED BY <1>3, <1>4, <1>5, <1>6, SeqEqual DEF c, d, e

LEMMA PickedFromTo ==
  ASSUME NEW S, NEW b \in Seq(S), NEW places,
         NEW lo \in 0 .. Len(b), NEW hi \in lo .. Len(b),
         \A i \in 1 .. Len(b) : i \in places <=> lo < i /\ i <= hi
  PROVE  Order!Picked(b, places) = SubSeq(b, lo + 1, hi)
<1> DEFINE n == Len(b)
           Cut(i) == IF i <= lo THEN lo ELSE IF i <= hi THEN i ELSE hi
           Made(f) == f = [i \in 0 .. Len(b) |->
                             IF i = 0 THEN << >>
                             ELSE IF i \in places THEN Append(f[i - 1], b[i]) ELSE f[i - 1]]
           picked == CHOOSE f : Made(f)
           g == [i \in 0 .. n |-> SubSeq(b, lo + 1, Cut(i))]
<1>1. n \in Nat /\ lo \in Nat /\ hi \in Nat /\ lo <= hi /\ hi <= n
  OBVIOUS
<1>2. Order!Picked(b, places) = picked[Len(b)]
  BY Zenon DEF Order!Picked
<1>3. SubSeq(b, lo + 1, lo) = << >>
  BY <1>1
<1>4. ASSUME NEW i \in 0 .. n
      PROVE  g[i] = IF i = 0 THEN << >>
                    ELSE IF i \in places THEN Append(g[i - 1], b[i]) ELSE g[i - 1]
  <2>1. g[i] = SubSeq(b, lo + 1, Cut(i))
    OBVIOUS
  <2>2. CASE i = 0
    <3>1. Cut(i) = lo
      BY <1>1, <2>2
    <3> QED BY <1>3, <2>1, <2>2, <3>1
  <2>3. CASE i # 0
    <3>1. i \in 1 .. n /\ i - 1 \in 0 .. n
      BY <1>1, <2>3
    <3>2. g[i - 1] = SubSeq(b, lo + 1, Cut(i - 1))
      BY <3>1
    <3>3. CASE i \in places
      <4>1. lo < i /\ i <= hi
        BY <3>1, <3>3
      <4>2. Cut(i) = i /\ Cut(i - 1) = i - 1
        BY <1>1, <3>1, <4>1
      <4>3. Append(SubSeq(b, lo + 1, i - 1), b[i]) = SubSeq(b, lo + 1, i)
        BY <3>1, <4>1, OneMore
      <4> HIDE DEF g, Cut
      <4> QED BY <2>1, <2>3, <3>2, <3>3, <4>2, <4>3
    <3>4. CASE i \notin places
      <4>1. i <= lo \/ i > hi
        BY <1>1, <3>1, <3>4
      <4>2. Cut(i) = Cut(i - 1)
        BY <1>1, <3>1, <4>1
      <4> HIDE DEF g, Cut
      <4> QED BY <2>1, <2>3, <3>2, <3>4, <4>2
    <3> QED BY <3>3, <3>4
  <2> QED BY <2>2, <2>3
<1>5. Made(g)
  <2>1. DOMAIN g = 0 .. n /\ g = [i \in 0 .. n |-> g[i]]
    OBVIOUS
  <2> HIDE DEF g
  <2> QED BY <1>4, <2>1
<1> HIDE DEF Made
<1>6. Made(picked)
  BY <1>5, Zenon
<1> HIDE DEF picked
<1>7. \A i \in 0 .. n : picked[i] = IF i = 0 THEN << >>
                          ELSE IF i \in places THEN Append(picked[i - 1], b[i]) ELSE picked[i - 1]
  BY <1>6 DEF Made
<1> DEFINE Q == {i \in 0 .. n : picked[i] # g[i]}
<1>8. Q = {}
  <2> SUFFICES ASSUME Q # {} PROVE FALSE
    OBVIOUS
  <2>1. Q \in SUBSET Nat
    OBVIOUS
  <2>2. PICK i \in Q : \A y \in Q : i <= y
    <3> HIDE DEF Q
    <3> QED BY <2>1, LeastNumber
  <2> HIDE DEF g
  <2>3. i \in 0 .. n /\ picked[i] # g[i]
    OBVIOUS
  <2>4. i # 0
    BY <1>4, <1>7, <2>3
  <2>5. i - 1 \in 0 .. n /\ ~(i <= i - 1)
    BY <1>1, <2>3, <2>4
  <2>6. picked[i - 1] = g[i - 1]
    BY <2>2, <2>5
  <2> QED BY <1>4, <1>7, <2>3, <2>4, <2>6
<1>9. n \in 0 .. n /\ Cut(n) = hi
  BY <1>1
<1>10. g[n] = SubSeq(b, lo + 1, hi)
  BY <1>9
<1> HIDE DEF g
<1> QED BY <1>2, <1>8, <1>9, <1>10

LEMMA PassedFirst ==
  ASSUME NEW b \in Seq(Captions), Ascends(b, Shown), \A i \in 1 .. Len(b) : b[i].kind # "scte",
         clock \in Nat
  PROVE  \E k \in 0 .. Len(b) : \A i \in 1 .. Len(b) : i \in Order!Passed(b) <=> i <= k
<1> DEFINE T == Order!Passed(b)  n == Len(b)
<1>1. n \in Nat /\ T = {i \in 1 .. n : clock > b[i].pts}
  BY DEF Order!Passed
<1>2. CASE T = {}
  <2>1. 0 \in 0 .. n /\ \A i \in 1 .. n : i \in T <=> i <= 0
    <3> HIDE DEF T
    <3> QED BY <1>1, <1>2
  <2> QED BY <2>1
<1>3. CASE T # {}
  <2> DEFINE k == Order!Max(T)
  <2>1. k \in T /\ \A y \in T : k >= y
    <3> HIDE DEF T
    <3>1. T \in SUBSET (0 .. n)
      BY <1>1
    <3> QED BY <1>1, <1>3, <3>1, GreatestNumber
  <2> HIDE DEF k
  <2>2. k \in 1 .. n /\ k \in 0 .. n /\ clock > b[k].pts
    BY <1>1, <2>1
  <2>3. ASSUME NEW i \in 1 .. n PROVE i \in T <=> i <= k
    <3>1. ASSUME i \in T PROVE i <= k
      BY <1>1, <2>1, <2>2, <3>1
    <3>2. ASSUME i < k PROVE i \in T
      <4>1. <<b[i], b[k]>> \in Shown
        BY <2>2, <3>2 DEF Ascends
      <4>2. b[i] \in Captions /\ b[k] \in Captions /\ Precedes(b[i], b[k])
        BY <4>1 DEF Shown
      <4>3. b[i].pts < b[k].pts
        BY <2>2, <4>2, TimesInOrder
      <4>4. b[i].pts \in Nat /\ b[k].pts \in Nat
        BY <4>2 DEF Captions
      <4>5. clock > b[i].pts
        BY <2>2, <4>3, <4>4
      <4> QED BY <1>1, <4>5
    <3> HIDE DEF T
    <3>3. i = k => i \in T
      BY <2>1
    <3>4. i \in Nat /\ k \in Nat
      BY <1>1, <2>2
    <3> QED BY <3>1, <3>2, <3>3, <3>4
  <2> HIDE DEF T
  <2>4. \E j \in 0 .. n : \A i \in 1 .. n : i \in T <=> i <= j
    BY <2>2, <2>3
  <2> QED BY <2>4 DEF T
<1> QED BY <1>2, <1>3

LEMMA DueMoves ==
  ASSUME NEW s, NEW x,
         DriverState(Order!aml_add_cc_data(s, x)),
         Ascends(Order!aml_add_cc_data(s, x).u.list, Shown),
         \A y \in Waits(Order!aml_add_cc_data(s, x)) : y.kind # "scte",
         clock \in Nat
  PROVE  LET a == Order!aml_add_cc_data(s, x)
             r == Order!aml_h264_userdata_package(s, x)
         IN \E k \in 0 .. Len(a.u.list) :
              /\ Moves(a, r, k) /\ r.u.num = a.u.num - k /\ r.u.scte = a.u.scte
              /\ \A i \in 1 .. k : a.u.list[i].pts < clock
<1> DEFINE a == Order!aml_add_cc_data(s, x)
           r == Order!aml_h264_userdata_package(s, x)
           b == a.u.list
           due == Order!Picked(b, Order!Passed(b))
           rest == Order!Picked(b, DOMAIN b \ Order!Passed(b))
<1>1. b \in Seq(Captions) /\ Len(b) \in Nat
  BY DEF DriverState
<1>11. DriverState(a)
  OBVIOUS
<1>2. \A i \in 1 .. Len(b) : b[i].kind # "scte"
  BY DEF Waits
<1>3. Ascends(b, Shown)
  OBVIOUS
<1>4. PICK k \in 0 .. Len(b) : \A i \in 1 .. Len(b) : i \in Order!Passed(b) <=> i <= k
  <2> HIDE DEF b
  <2> QED BY <1>1, <1>2, <1>3, PassedFirst
<1>5. r = IF due = << >> THEN a
          ELSE [Order!Write(a, due) EXCEPT !.u.list = rest,
                          !.u.num = @ - Len(due), !.u.poc = Order!Last(due).poc]
  <2> HIDE DEF b, due, rest
  <2>1. r = IF due = << >> THEN a
            ELSE [Order!Write(a, due) EXCEPT
                    !.u.list = Order!Picked(@, DOMAIN @ \ Order!Passed(@)),
                    !.u.num = @ - Len(due), !.u.poc = Order!Last(due).poc]
    BY DEF Order!aml_h264_userdata_package, due, b
  <2>2. Order!Write(a, due).u.list = b
    BY DEF Order!Write, b, DriverState, Shaped
  <2> QED BY <2>1, <2>2 DEF rest
<1>6. due = SubSeq(b, 1, k) /\ rest = SubSeq(b, k + 1, Len(b))
  <2>1. due = SubSeq(b, 0 + 1, k)
    <3>1. 0 \in 0 .. Len(b) /\ k \in 0 .. Len(b)
          /\ \A i \in 1 .. Len(b) : i \in Order!Passed(b) <=> 0 < i /\ i <= k
      BY <1>1, <1>4
    <3> HIDE DEF b
    <3> QED BY <1>1, <3>1, PickedFromTo
  <2>2. rest = SubSeq(b, k + 1, Len(b))
    <3> DEFINE places == DOMAIN b \ Order!Passed(b)
    <3>1. Len(b) \in k .. Len(b) /\ DOMAIN b = 1 .. Len(b)
      BY <1>1
    <3>2. \A i \in 1 .. Len(b) : i \in places <=> k < i /\ i <= Len(b)
      <4> TAKE i \in 1 .. Len(b)
      <4>1. i \in places <=> ~(i <= k)
        BY <1>4, <3>1
      <4> HIDE DEF places
      <4> QED BY <1>1, <4>1
    <3>3. Order!Picked(b, places) = SubSeq(b, k + 1, Len(b))
      <4> HIDE DEF b, places
      <4> QED BY <1>1, <1>4, <3>1, <3>2, PickedFromTo
    <3> QED BY <3>3
  <2>3. 0 + 1 = 1
    OBVIOUS
  <2> HIDE DEF due, rest, b
  <2> QED BY <2>1, <2>2, <2>3, Zenon
<1>7. \A i \in 1 .. k : b[i].pts < clock
  <2> TAKE i \in 1 .. k
  <2>1. i \in 1 .. Len(b) /\ i <= k
    BY <1>1
  <2>2. i \in Order!Passed(b)
    BY <1>4, <2>1
  <2>3. clock > b[i].pts
    BY <2>2 DEF Order!Passed
  <2>4. b[i] \in Captions
    <3> HIDE DEF b
    <3> QED BY <1>1, <2>1
  <2>5. b[i].pts \in Nat
    BY <2>4 DEF Captions
  <2> QED BY <2>3, <2>5
<1> DEFINE Due == \E j \in 0 .. Len(a.u.list) :
                    /\ Moves(a, r, j) /\ r.u.num = a.u.num - j /\ r.u.scte = a.u.scte
                    /\ \A i \in 1 .. j : a.u.list[i].pts < clock
<1>8. ASSUME k = 0 PROVE Due
  <2>1. due = << >>
    <3> HIDE DEF b
    <3> QED BY <1>1, <1>6, <1>8
  <2>2. r = a
    BY <1>5, <2>1
  <2>3. Moves(a, a, 0)
    <3> HIDE DEF a
    <3>1. a.o \in Seq(Captions) /\ Shaped(a) /\ b \in Seq(Captions)
      BY <1>1, <1>11 DEF DriverState
    <3>2. SubSeq(b, 1, 0) = << >> /\ SubSeq(b, 0 + 1, Len(b)) = b /\ 0 \in 0 .. Len(b)
      <4> HIDE DEF b
      <4>1. SubSeq(b, 1, 0) = << >> /\ SubSeq(b, 1, Len(b)) = b
        BY <1>1, AllAndNone
      <4> QED BY <1>1, <4>1
    <3>3. a.o \o << >> = a.o
      <4> DEFINE c == a.o
      <4>1. c \in Seq(Captions)
        BY <3>1
      <4> HIDE DEF c
      <4>2. c \o << >> = c
        BY <4>1
      <4> QED BY <4>2 DEF c
    <3> QED BY <3>1, <3>2, <3>3 DEF Moves
  <2>4. a.u.num \in Int /\ a.u.num - 0 = a.u.num
    BY DEF DriverState, Shaped
  <2> HIDE DEF a, r
  <2> QED BY <1>4, <1>7, <1>8, <2>2, <2>3, <2>4 DEF b
<1>9. ASSUME k # 0 PROVE Due
  <2>1. Len(due) = k /\ due \in Seq(Captions) /\ due # << >>
    <3> HIDE DEF b, due
    <3>1. due \in Seq(Captions) /\ Len(due) = k
      BY <1>1, <1>4, <1>6
    <3>2. Len(<< >>) = 0
      OBVIOUS
    <3> QED BY <1>9, <3>1, <3>2, Zenon
  <2>2. Order!Last(due).poc \in Int
    <3> HIDE DEF due
    <3>1. Order!Last(due) = due[Len(due)] /\ Len(due) \in 1 .. Len(due)
      BY <1>4, <1>9, <2>1 DEF Order!Last
    <3>2. Order!Last(due) \in Captions
      BY <2>1, <3>1
    <3>3. Order!Last(due).poc \in Pictures
      BY <3>2 DEF Captions
    <3>4. Order!Last(due).poc \in Nat
      BY <3>3, PictureNumbers, Zenon
    <3> QED BY <3>4
  <2> HIDE DEF due, rest
  <2>3. /\ DOMAIN r = {"u", "o"} /\ DOMAIN r.u = {"list", "num", "poc", "scte"}
        /\ r.o = a.o \o due /\ r.u.list = rest /\ r.u.num = a.u.num - Len(due)
        /\ r.u.poc = Order!Last(due).poc /\ r.u.scte = a.u.scte
    <3> HIDE DEF r
    <3>1. r = [Order!Write(a, due) EXCEPT !.u.list = rest,
                          !.u.num = @ - Len(due), !.u.poc = Order!Last(due).poc]
      BY <1>5, <2>1
    <3>2. DOMAIN a = {"u", "o"} /\ DOMAIN a.u = {"list", "num", "poc", "scte"}
      BY DEF DriverState, Shaped
    <3> HIDE DEF a
    <3> QED BY <3>1, <3>2 DEF Order!Write
  <2>4. a.u.num \in Int /\ a.u.num - Len(due) \in Int /\ a.u.num - Len(due) = a.u.num - k
    <3>1. a.u.num \in Int
      BY DEF DriverState, Shaped
    <3> HIDE DEF a
    <3> QED BY <1>4, <2>1, <3>1
  <2> HIDE DEF a, r, b
  <2>5. Shaped(r)
    BY <2>2, <2>3, <2>4 DEF Shaped
  <2>6. Moves(a, r, k)
    BY <1>4, <1>6, <2>3, <2>5 DEF Moves, b
  <2> QED BY <1>4, <1>7, <2>3, <2>4, <2>6 DEF b
<1> HIDE DEF a, r
<1>10. Due
  <2> HIDE DEF Due
  <2> QED BY <1>8, <1>9
<1> QED BY <1>10 DEF a, r

LEMMA OfOneGroup ==
  ASSUME NEW b \in Seq(Captions), Ascends(b, Shown), NEW g, \A i \in 1 .. Len(b) : b[i].group = g
  PROVE  \A i \in 1 .. Len(b) : b[i].poc >= b[1].poc + (i - 1)
<1> DEFINE P(i) == b[i].poc >= b[1].poc + (i - 1)
           Q == {i \in 1 .. Len(b) : ~P(i)}
<1>1. \A i \in 1 .. Len(b) : b[i] \in Captions /\ b[i].poc \in Nat /\ b[i].group \in Nat
  <2> TAKE i \in 1 .. Len(b)
  <2>1. b[i] \in Captions
    OBVIOUS
  <2>2. b[i].poc \in Pictures /\ b[i].group \in Nat
    BY <2>1 DEF Captions
  <2>3. b[i].poc \in Nat
    BY <2>2, PictureNumbers, Zenon
  <2> QED BY <2>1, <2>2, <2>3
<1>2. Q = {}
  <2> SUFFICES ASSUME Q # {} PROVE FALSE
    OBVIOUS
  <2>1. Q \in SUBSET Nat /\ Len(b) \in Nat
    OBVIOUS
  <2>2. PICK i \in Q : \A y \in Q : i <= y
    <3> HIDE DEF Q
    <3> QED BY <2>1, LeastNumber
  <2>3. i \in 1 .. Len(b) /\ ~P(i)
    OBVIOUS
  <2>4. 1 \in 1 .. Len(b)
    BY <2>1, <2>3
  <2>5. i # 1
    <3>1. b[1].poc \in Nat /\ 1 - 1 = 0 /\ b[1].poc >= b[1].poc + 0
      BY <1>1, <2>4
    <3> QED BY <2>3, <3>1
  <2>6. i - 1 \in 1 .. Len(b) /\ i - 1 < i /\ ~(i <= i - 1)
    BY <2>1, <2>3, <2>5
  <2>7. P(i - 1)
    <3>1. i - 1 \notin Q
      BY <2>2, <2>6
    <3> HIDE DEF P
    <3> QED BY <2>6, <3>1
  <2>8. <<b[i - 1], b[i]>> \in Shown
    BY <2>3, <2>6 DEF Ascends
  <2>9. Precedes(b[i - 1], b[i])
    BY <2>8 DEF Shown
  <2>10. b[i - 1].poc < b[i].poc
    <3> DEFINE x == b[i - 1]  y == b[i]
    <3>1. x.group = y.group /\ x.group \in Nat
      BY <1>1, <2>3, <2>6
    <3>2. Precedes(x, y)
      BY <2>9
    <3> HIDE DEF x, y
    <3>3. ~(x.group < y.group)
      BY <3>1
    <3>4. x.poc < y.poc
      BY <3>2, <3>3, Zenon DEF Precedes
    <3> QED BY <3>4 DEF x, y
  <2>11. b[i - 1].poc \in Nat /\ b[i].poc \in Nat /\ b[1].poc \in Nat /\ i \in Nat
    BY <1>1, <2>3, <2>4, <2>6
  <2> DEFINE u == b[i - 1].poc  v == b[i].poc  w == b[1].poc
  <2>12. u \in Nat /\ v \in Nat /\ w \in Nat /\ i \in Nat /\ u < v
    BY <2>10, <2>11
  <2>13. u >= w + ((i - 1) - 1)
    <3> HIDE DEF Q
    <3> QED BY <2>7
  <2>14. ~(v >= w + (i - 1))
    BY <2>3
  <2> HIDE DEF u, v, w, P, Q
  <2> QED BY <2>12, <2>13, <2>14
<1> HIDE DEF P
<1>3. \A i \in 1 .. Len(b) : P(i)
  BY <1>2
<1> QED BY <1>3 DEF P

LEMMA PacketIs ==
  ASSUME NEW what \in {"mpeg", "scte", "h264"}, NEW intra \in BOOLEAN,
         NEW g \in Nat, NEW poc \in Pictures
  PROVE  LET x == Order!Packet(what, intra, g, poc)
         IN /\ x \in Captions /\ x.kind = what /\ x.group = g /\ x.poc = poc
            /\ Name(x) = <<g, poc>>
            /\ what # "scte" => x.pts = Order!Pts(g, poc)
<1>1. poc \in Nat /\ Order!Max(Pictures) \in Nat
  BY PictureNumbers, Zenon
<1>2. Order!Pts(g, poc) \in Nat
  <2> DEFINE m == 1 + Order!Max(Pictures)
  <2>1. m \in Nat
    BY <1>1
  <2> HIDE DEF m
  <2> DEFINE b == g * m
  <2>2. b \in Nat
    BY <2>1
  <2> HIDE DEF b
  <2>3. b + poc \in Nat
    BY <1>1, <2>2
  <2> QED BY <2>3 DEF Order!Pts, b, m
<1> DEFINE q == Order!Pts(g, poc)  x == Order!Packet(what, intra, g, poc)
<1>3. q = Order!Pts(g, poc) /\ q \in Nat
  BY <1>2
<1>4. x = [kind |-> what, intra |-> intra, group |-> g, poc |-> poc,
           pts |-> IF what = "scte" THEN 0 ELSE q]
  BY DEF Order!Packet
<1> HIDE DEF q, x
<1>5. x \in Captions
  BY <1>3, <1>4 DEF Captions
<1> QED BY <1>3, <1>4, <1>5 DEF Name, x

LEMMA LineOf ==
  ASSUME NEW s, DriverState(s)
  PROVE  /\ Line(s) \in Seq(Captions)
         /\ \A i \in 1 .. Len(Line(s)) : Line(s)[i] \in Waits(s) \cup Written(s)
<1> DEFINE l == Line(s)  a == s.o  b == s.u.list
<1>1. a \in Seq(Captions) /\ b \in Seq(Captions)
  BY DEF DriverState
<1>2. l \in Seq(Captions) /\ Chained(l, a, b)
  <2>1. l = a \o b
    BY DEF Line
  <2> HIDE DEF l, a, b
  <2> QED BY <1>1, <2>1, JoinedParts
<1> HIDE DEF l, a, b
<1>3. Len(a) \in Nat /\ Len(b) \in Nat
  BY <1>1
<1>4. /\ Len(l) = Len(a) + Len(b) /\ \A i \in 1 .. Len(a) : l[i] = a[i]
      /\ \A i \in 1 .. Len(b) : l[Len(a) + i] = b[i]
  BY <1>2 DEF Chained
<1>5. ASSUME NEW i \in 1 .. Len(l) PROVE l[i] \in Waits(s) \cup Written(s)
  <2>1. CASE i <= Len(a)
    <3>1. i \in 1 .. Len(a)
      BY <1>3, <2>1
    <3>2. a[i] \in Written(s)
      BY <3>1 DEF Written, a
    <3> QED BY <1>4, <3>1, <3>2
  <2>2. CASE i > Len(a)
    <3>1. i - Len(a) \in 1 .. Len(b) /\ i = Len(a) + (i - Len(a))
      BY <1>3, <1>4, <2>2
    <3>2. PICK j \in 1 .. Len(b) : i = Len(a) + j
      BY <3>1
    <3>3. b[j] \in Waits(s)
      BY <3>2 DEF Waits, b
    <3> QED BY <1>4, <3>2, <3>3
  <2> QED BY <1>3, <2>1, <2>2
<1> QED BY <1>2, <1>5 DEF l

\* A name that is read later changes nothing for what is in the line, unless it is that of a
\* first picture of a group in it.
LEMMA LaterRead ==
  ASSUME NEW s, DriverState(s), NEW R, InLine(s, R), NEW n,
         \A y \in Waits(s) \cup Written(s) : <<y.group, 0>> # n
  PROVE  InLine(s, R \cup {n})
<1> DEFINE l == Line(s)
<1>1. ASSUME NEW i \in 1 .. Len(l), NEW j \in 1 .. Len(l), i < j
      PROVE  <<l[i], l[j]>> \in Given(R \cup {n})
  <2>1. <<l[i], l[j]>> \in Given(R)
    BY <1>1 DEF InLine, Ascends
  <2>2. <<l[i].group, 0>> # n
    BY LineOf
  <2> HIDE DEF l
  <2> QED BY <2>1, <2>2 DEF Given, Exempt
<1> QED BY <1>1 DEF InLine, Ascends

LEMMA SomePictures ==
  ASSUME NEW seen \in SUBSET Pictures
  PROVE  /\ IsFiniteSet(seen) /\ Cardinality(seen) \in Nat
         /\ \A p : p \notin seen => Cardinality(seen \cup {p}) = Cardinality(seen) + 1
         /\ \A p : Cardinality({p}) = 1
<1>1. Order!Max(Pictures) \in Nat /\ seen \in SUBSET (0 .. Order!Max(Pictures))
  BY PictureNumbers, Zenon
<1>2. IsFiniteSet(0 .. Order!Max(Pictures))
  BY <1>1, FS_Interval
<1>3. IsFiniteSet(seen)
  BY <1>1, <1>2, FS_Subset
<1> QED BY <1>3, FS_AddElement, FS_CardinalityType, FS_Singleton

-----------------------------------------------------------------------------
(* H.264: K is what the line holds, R what has been read, of the pictures  *)
(* seen of group g and of the groups before it.                            *)

All(s) == Waits(s) \cup Written(s)
Behind(o, g, seen, R) ==
  o.group < g \/ Exempt(o, R) \/ o.pts < clock \/ \E p \in seen : o.poc + Back <= p
\* What is in the line is of the pictures that were decoded.
Reads(s, g, seen) == \A y \in All(s) : y.group < g \/ (y.group = g /\ y.poc \in seen)
OneKind(s) == \A y \in All(s) : y.kind = "h264"
Counted(s) == s.u.num = Len(s.u.list) /\ s.u.num <= MAX_CC_NUM
Past(s, g, seen, R) == \A o \in Written(s) : Behind(o, g, seen, R)
\* Before a packet of a group that was flushed for, only packets of that group wait.
Levelled(s, R) ==
  \A y, z \in Waits(s) : ~Exempt(y, R) /\ Precedes(z, y) => z.group = y.group
Own(s, g, R) == <<g, 0>> \in R => \A y \in Waits(s) : y.group = g
Orderly(s, g, seen, R) ==
  Reads(s, g, seen) /\ OneKind(s) /\ Counted(s) /\ Past(s, g, seen, R) /\ Levelled(s, R)
  /\ Own(s, g, R)
Holds(s, K, g, seen, R) ==
  DriverState(s) /\ InLine(s, R) /\ Named(Line(s), K) /\ Orderly(s, g, seen, R)

LEMMA NameThere ==
  ASSUME NEW s, NEW K, DriverState(s), Named(Line(s), K), NEW k \in K
  PROVE  \E y \in All(s) : y \in Captions /\ Name(y) = k
<1>1. PICK i \in 1 .. Len(Line(s)) : Name(Line(s)[i]) = k
  BY DEF Named
<1>2. Line(s)[i] \in All(s) /\ Line(s)[i] \in Captions
  BY LineOf DEF All
<1> QED BY <1>1, <1>2

LEMMA AllCaptions ==
  ASSUME NEW s, NEW K, DriverState(s), Named(Line(s), K), NEW y \in All(s)
  PROVE  /\ y \in Captions /\ Name(y) \in K /\ y.group \in Nat /\ y.poc \in Pictures
         /\ y.poc \in Nat /\ y.pts \in Nat
<1>1. y \in Captions /\ Name(y) \in K
  BY LineHas DEF All
<1>2. y.group \in Nat /\ y.poc \in Pictures /\ y.pts \in Nat
  BY <1>1 DEF Captions
<1>3. y.poc \in Nat
  BY <1>2, PictureNumbers, Zenon
<1> QED BY <1>1, <1>2, <1>3

\* What has been behind stays behind when some of those that wait are written.
LEMMA HoldsMoves ==
  ASSUME NEW s, NEW r, NEW n, NEW K, NEW R, NEW g, NEW seen,
         Holds(s, K, g, seen, R), Moves(s, r, n), Counted(r),
         \A y \in First(s, n) : Behind(y, g, seen, R)
  PROVE  Holds(r, K, g, seen, R)
<1>1. DriverState(s) /\ InLine(s, R) /\ Named(Line(s), K) /\ Orderly(s, g, seen, R)
  BY DEF Holds
<1>2. /\ DriverState(r) /\ InLine(r, R) /\ Named(Line(r), K)
      /\ Waits(r) \subseteq Waits(s) /\ Written(r) \subseteq Written(s) \cup First(s, n)
  BY <1>1, MovesKeep
<1>3. First(s, n) \subseteq Waits(s)
  <2>1. s.u.list \in Seq(Captions) /\ n \in 0 .. Len(s.u.list)
    BY <1>1 DEF DriverState, Moves
  <2> DEFINE b == s.u.list
  <2>2. b \in Seq(Captions) /\ n \in 0 .. Len(b)
    BY <2>1
  <2> HIDE DEF b
  <2>3. \A i \in 1 .. n : i \in 1 .. Len(b)
    BY <2>2
  <2> QED BY <2>3 DEF First, Waits, b
<1>4. All(r) \subseteq All(s)
  BY <1>2, <1>3 DEF All
<1>5. Reads(r, g, seen) /\ OneKind(r)
  BY <1>1, <1>4 DEF Orderly, Reads, OneKind
<1>6. Past(r, g, seen, R)
  BY <1>1, <1>2 DEF Orderly, Past
<1>7. Levelled(r, R) /\ Own(r, g, R)
  BY <1>1, <1>2 DEF Orderly, Levelled, Own
<1> QED BY <1>2, <1>5, <1>6, <1>7 DEF Holds, Orderly

\* The first one that waits, when all wait that may, is behind.
LEMMA FullIsBehind ==
  ASSUME NEW s, NEW K, NEW R, NEW g \in Nat, NEW seen \in SUBSET Pictures,
         Holds(s, K, g, seen, R), Order!Full(s)
  PROVE  /\ s.u.list # << >>
         /\ \A y \in First(s, 1) : Behind(y, g, seen, R)
<1> DEFINE b == s.u.list  n == Len(b)
<1>1. /\ DriverState(s) /\ Named(Line(s), K) /\ Reads(s, g, seen) /\ Counted(s)
      /\ Ascends(b, Shown) /\ b \in Seq(Captions)
  BY DEF Holds, Orderly, InLine, DriverState
<1>2. /\ n = MAX_CC_NUM /\ n \in Nat /\ n > 0 /\ Back \in Nat /\ Back < n
      /\ 1 \in 1 .. n /\ n \in 1 .. n
  <2>1. s.u.num >= MAX_CC_NUM /\ s.u.num = n /\ s.u.num <= MAX_CC_NUM
    BY <1>1 DEF Order!Full, Counted
  <2>2. MAX_CC_NUM \in Nat /\ MAX_CC_NUM > 0 /\ Back \in Nat /\ Back < MAX_CC_NUM
    BY PictureNumbers
  <2>3. n \in Nat
    <3> HIDE DEF b
    <3> QED BY <1>1
  <2> HIDE DEF n
  <2>4. n = MAX_CC_NUM
    BY <2>1, <2>2, <2>3
  <2> QED BY <2>2, <2>3, <2>4
<1>3. \A i \in 1 .. n : /\ b[i] \in All(s) /\ b[i] \in Captions /\ b[i].group \in Nat
                        /\ b[i].poc \in Nat
  <2> TAKE i \in 1 .. n
  <2>1. b[i] \in All(s)
    BY DEF All, Waits
  <2> HIDE DEF b
  <2> QED BY <1>1, <2>1, AllCaptions
<1>4. \A i \in 1 .. n : b[i].group < g \/ (b[i].group = g /\ b[i].poc \in seen)
  BY <1>1, <1>3 DEF Reads
<1> HIDE DEF b
<1>5. Behind(b[1], g, seen, R)
  <2>1. CASE b[1].group < g
    BY <2>1 DEF Behind
  <2>2. CASE b[1].group = g
    <3>1. \A i \in 1 .. n : b[i].group = g
      <4> TAKE i \in 1 .. n
      <4>1. CASE i = 1
        BY <2>2, <4>1
      <4>2. CASE i # 1
        <5>1. 1 < i
          BY <1>2, <4>2
        <5>2. <<b[1], b[i]>> \in Shown
          BY <1>1, <1>2, <5>1 DEF Ascends
        <5>3. Precedes(b[1], b[i])
          BY <5>2 DEF Shown
        <5>4. b[1].group <= b[i].group
          BY <1>2, <1>3, <5>3 DEF Precedes
        <5>5. b[i].group \in Nat /\ ~(b[i].group < g)
          BY <1>3, <2>2, <5>4
        <5> QED BY <1>4, <5>5
      <4> QED BY <4>1, <4>2
    <3>2. b[n].poc >= b[1].poc + (n - 1)
      <4>1. \A i \in 1 .. n : b[i].poc >= b[1].poc + (i - 1)
        BY <1>1, <3>1, OfOneGroup
      <4> QED BY <1>2, <4>1
    <3>3. b[n].poc \in seen
      <4>1. b[n].group = g /\ ~(b[n].group < g)
        BY <1>2, <3>1
      <4> QED BY <1>2, <1>4, <4>1
    <3>4. b[1].poc + Back <= b[n].poc
      <4>1. b[1].poc \in Nat /\ b[n].poc \in Nat
        BY <1>2, <1>3
      <4> HIDE DEF n
      <4> QED BY <1>2, <3>2, <4>1
    <3> QED BY <3>3, <3>4 DEF Behind
  <2> QED BY <1>2, <1>4, <2>1, <2>2
<1>6. b # << >>
  BY <1>2
<1>7. First(s, 1) = {b[1]}
  <2>1. \A i : i \in 1 .. 1 <=> i = 1
    OBVIOUS
  <2> QED BY <2>1 DEF First, b
<1> QED BY <1>5, <1>6, <1>7 DEF b

\* Those that wait are all behind when a picture comes that is far behind the first of them.
LEMMA BackIsBehind ==
  ASSUME NEW s, NEW K, NEW R, NEW g \in Nat, NEW seen \in SUBSET Pictures,
         Holds(s, K, g, seen, R), NEW x \in Captions,
         \A p \in seen : x.poc >= p - Back,
         s.u.list # << >>, x.poc < Order!Head(s.u.list).poc - Back
  PROVE  \A y \in First(s, Len(s.u.list)) : Behind(y, g, seen, R)
<1> DEFINE b == s.u.list  n == Len(b)
<1>1. /\ DriverState(s) /\ Named(Line(s), K) /\ Reads(s, g, seen) /\ Levelled(s, R)
      /\ Ascends(b, Shown) /\ b \in Seq(Captions) /\ b # << >>
  BY DEF Holds, Orderly, InLine, DriverState
<1>2. n \in Nat /\ 1 \in 1 .. n /\ Order!Head(b) = b[1]
  <2> HIDE DEF b
  <2> QED BY <1>1
<1>3. \A i \in 1 .. n : b[i] \in Waits(s) /\ b[i] \in All(s)
  BY DEF All, Waits
<1>4. \A i \in 1 .. n : /\ b[i] \in Captions /\ b[i].group \in Nat /\ b[i].poc \in Nat
  <2> HIDE DEF b
  <2> QED BY <1>1, <1>3, AllCaptions
<1>5. \A i \in 1 .. n : b[i].group < g \/ (b[i].group = g /\ b[i].poc \in seen)
  BY <1>1, <1>3 DEF Reads
<1>6. x.poc < b[1].poc - Back
  BY <1>2
<1> HIDE DEF b
<1>7. x.poc \in Nat /\ Back \in Nat
  <2>1. x.poc \in Pictures
    BY DEF Captions
  <2> QED BY <2>1, PictureNumbers, Zenon
<1>8. b[1].group < g
  <2>1. b[1].poc \notin seen
    <3> SUFFICES ASSUME b[1].poc \in seen PROVE FALSE
      OBVIOUS
    <3>1. x.poc >= b[1].poc - Back
      OBVIOUS
    <3>2. b[1].poc \in Nat
      BY <1>2, <1>4
    <3> QED BY <1>6, <1>7, <3>1, <3>2
  <2> QED BY <1>2, <1>5, <2>1
<1>9. ASSUME NEW i \in 1 .. n PROVE Behind(b[i], g, seen, R)
  <2>1. CASE b[i].group < g
    BY <2>1 DEF Behind
  <2>2. CASE b[i].group = g
    <3>1. b[1].group \in Nat /\ b[i].group # b[1].group /\ i # 1
      BY <1>2, <1>4, <1>8, <2>2
    <3>2. 1 < i
      BY <1>2, <3>1
    <3>3. <<b[1], b[i]>> \in Shown
      BY <1>1, <1>2, <3>2 DEF Ascends
    <3>4. Precedes(b[1], b[i])
      BY <3>3 DEF Shown
    <3>5. Exempt(b[i], R)
      BY <1>1, <1>2, <1>3, <3>1, <3>4 DEF Levelled
    <3> QED BY <3>5 DEF Behind
  <2> QED BY <1>5, <2>1, <2>2
<1>10. First(s, n) = {b[i] : i \in 1 .. n}
  BY DEF First, b
<1> QED BY <1>9, <1>10 DEF b

\* A packet that comes after all that is behind.
LEMMA AfterBehind ==
  ASSUME NEW o \in Captions, NEW x \in Captions, NEW g \in Nat, NEW seen \in SUBSET Pictures,
         NEW R, Behind(o, g, seen, R), o.group < g \/ o.group = g, x.group = g,
         o.kind = "h264", x.kind = "h264", clock \in Nat, x.pts >= clock,
         \A p \in seen : x.poc >= p - Back, Name(o) # Name(x)
  PROVE  <<o, x>> \in Given(R)
<1>1. /\ o.group \in Nat /\ o.poc \in Pictures /\ x.poc \in Pictures /\ o.pts \in Nat
      /\ x.pts \in Nat
  BY DEF Captions
<1>2. o.poc \in Nat /\ x.poc \in Nat /\ Back \in Nat /\ \A p \in seen : p \in Nat
  BY <1>1, PictureNumbers, Zenon
<1>3. CASE o.group < g
  BY <1>3 DEF Given, Precedes
<1>4. CASE o.group = g /\ Exempt(o, R)
  BY <1>4 DEF Given
<1>5. CASE o.pts < clock
  <2>1. o.pts < x.pts
    BY <1>1, <1>5
  <2>2. Precedes(o, x)
    BY <2>1, TimesInOrder
  <2> QED BY <2>2 DEF Given
<1>6. CASE o.group = g /\ \E p \in seen : o.poc + Back <= p
  <2>1. PICK p \in seen : o.poc + Back <= p
    BY <1>6
  <2>2. o.poc <= x.poc
    <3>1. x.poc >= p - Back /\ p \in Nat
      BY <1>2
    <3> QED BY <1>2, <2>1, <3>1
  <2>3. o.poc # x.poc
    BY <1>6 DEF Name
  <2>4. Precedes(o, x)
    BY <1>2, <1>6, <2>2, <2>3 DEF Precedes
  <2> QED BY <2>4 DEF Given
<1> QED BY <1>3, <1>4, <1>5, <1>6 DEF Behind

LEMMA GoesByName ==
  ASSUME NEW x \in Captions, NEW y \in Captions, x.kind # "scte", y.kind # "scte",
         Name(x) # Name(y)
  PROVE  Order!Goes(x, y) <=> Precedes(x, y)
<1>1. x.pts # y.pts /\ (x.pts < y.pts <=> Precedes(x, y))
  BY TimesInOrder
<1> QED BY <1>1 DEF Order!Goes

LEMMA InsertHolds ==
  ASSUME NEW s, NEW K, NEW g \in Nat, NEW seen \in SUBSET Pictures, NEW x \in Captions,
         Holds(s, K, g, seen, K \cup {Name(x)}), s.u.num < MAX_CC_NUM,
         x.kind = "h264", x.group = g, x.poc \in seen, Name(x) \notin K,
         clock \in Nat, x.pts >= clock, \A p \in seen : x.poc >= p - Back
  PROVE  Holds(Order!Insert(s, x), K \cup {Name(x)}, g, seen, K \cup {Name(x)})
<1> DEFINE r == Order!Insert(s, x)  R == K \cup {Name(x)}
<1>1. /\ DriverState(s) /\ InLine(s, R) /\ Named(Line(s), K) /\ Reads(s, g, seen)
      /\ OneKind(s) /\ Counted(s) /\ Past(s, g, seen, R) /\ Levelled(s, R) /\ Own(s, g, R)
  BY DEF Holds, Orderly
<1>2. \A y \in All(s) : /\ y \in Captions /\ Name(y) # Name(x) /\ y.kind = "h264"
                        /\ y.group < g \/ y.group = g
  <2> TAKE y \in All(s)
  <2>1. y \in Captions /\ Name(y) \in K
    BY <1>1, AllCaptions
  <2> QED BY <1>1, <2>1 DEF OneKind, Reads
<1>3. \A y \in Written(s) : <<y, x>> \in Given(R)
  <2> TAKE y \in Written(s)
  <2>1. y \in All(s) /\ Behind(y, g, seen, R)
    BY <1>1 DEF All, Past
  <2> HIDE DEF R
  <2> QED BY <1>2, <2>1, AfterBehind
<1>4. \A y \in Waits(s) : Order!Goes(x, y) <=> Precedes(x, y)
  <2> TAKE y \in Waits(s)
  <2>1. y \in All(s)
    BY DEF All
  <2>2. y \in Captions /\ x.kind # "scte" /\ y.kind # "scte" /\ Name(x) # Name(y)
    BY <1>2, <2>1
  <2> QED BY <2>2, GoesByName
<1>5. DriverState(r) /\ Enlists(s, r, x) /\ InLine(r, R) /\ Named(Line(r), K \cup {Name(x)})
  <2> HIDE DEF R
  <2> QED BY <1>1, <1>3, <1>4, InsertKeeps
<1> HIDE DEF r
<1>6. /\ Waits(r) = Waits(s) \cup {x} /\ Written(r) = Written(s)
      /\ Len(r.u.list) = Len(s.u.list) + 1 /\ r.u.num = s.u.num + 1
  BY <1>5 DEF Enlists, Written
<1>7. Counted(r)
  <2>1. s.u.num = Len(s.u.list) /\ s.u.num \in Int /\ MAX_CC_NUM \in Nat
    BY <1>1, PictureNumbers DEF Counted, DriverState, Shaped
  <2>2. s.u.num + 1 <= MAX_CC_NUM
    BY <2>1
  <2> QED BY <1>6, <2>1, <2>2 DEF Counted
<1>8. Reads(r, g, seen) /\ OneKind(r)
  <2>1. All(r) = All(s) \cup {x}
    BY <1>6 DEF All
  <2> QED BY <1>1, <2>1 DEF Reads, OneKind
<1>9. Past(r, g, seen, R)
  BY <1>1, <1>6 DEF Past
<1>10. Own(r, g, R)
  BY <1>1, <1>6 DEF Own
<1>11. Levelled(r, R)
  <2> SUFFICES ASSUME NEW y \in Waits(r), NEW z \in Waits(r), ~Exempt(y, R), Precedes(z, y)
               PROVE  z.group = y.group
    BY DEF Levelled
  <2>1. CASE y = x
    <3>1. <<g, 0>> \in R
      BY <2>1 DEF Exempt
    <3>2. z.group = g
      BY <1>10, <3>1 DEF Own
    <3> QED BY <2>1, <3>2
  <2>2. CASE y \in Waits(s) /\ z = x
    <3>1. y \in All(s)
      BY <2>2 DEF All
    <3>2. y.group \in Nat /\ (y.group < g \/ y.group = g)
      BY <1>1, <1>2, <3>1, AllCaptions
    <3> QED BY <2>2, <3>2 DEF Precedes
  <2>3. CASE y \in Waits(s) /\ z \in Waits(s)
    BY <1>1, <2>3 DEF Levelled
  <2> QED BY <1>6, <2>1, <2>2, <2>3
<1> QED BY <1>5, <1>7, <1>8, <1>9, <1>10, <1>11 DEF Holds, Orderly, r

\* What has been seen when a picture comes.
Comes(x, g, seen, g2, seen2) ==
  \/ g2 = g + 1 /\ seen2 = {x.poc}
  \/ /\ g2 = g /\ seen2 = seen \cup {x.poc}
     /\ x.poc \notin seen /\ \A p \in seen : x.poc >= p - Back

LEMMA ComesAfter ==
  ASSUME NEW s, NEW K, NEW g \in Nat, NEW seen, DriverState(s), Named(Line(s), K),
         Reads(s, g, seen), NEW x, NEW g2, NEW seen2, Comes(x, g, seen, g2, seen2), x.group = g2
  PROVE  Name(x) \notin K
<1> SUFFICES ASSUME Name(x) \in K PROVE FALSE
  OBVIOUS
<1>1. PICK y \in All(s) : Name(y) = Name(x)
  BY NameThere
<1>2. y.group = x.group /\ y.poc = x.poc /\ y.group \in Nat
  BY <1>1, AllCaptions DEF Name
<1>3. y.group < g \/ (y.group = g /\ y.poc \in seen)
  BY DEF Reads
<1> QED BY <1>2, <1>3 DEF Comes

LEMMA ReadsOn ==
  ASSUME NEW s, NEW K, NEW g \in Nat, NEW seen, DriverState(s), Named(Line(s), K),
         Reads(s, g, seen), NEW x, NEW g2, NEW seen2, Comes(x, g, seen, g2, seen2)
  PROVE  /\ Reads(s, g2, seen2)
         /\ g2 = g + 1 => \A y \in All(s) : y.group < g2
<1> SUFFICES ASSUME NEW y \in All(s)
             PROVE  /\ y.group < g2 \/ (y.group = g2 /\ y.poc \in seen2)
                    /\ g2 = g + 1 => y.group < g2
  BY DEF Reads
<1>1. y.group \in Nat /\ (y.group < g \/ (y.group = g /\ y.poc \in seen))
  BY AllCaptions DEF Reads
<1> QED BY <1>1 DEF Comes

\* A picture that flushes nothing.
LEMMA ComesHolds ==
  ASSUME NEW s, NEW K, NEW g \in Nat, NEW seen \in SUBSET Pictures, Holds(s, K, g, seen, K),
         NEW x \in Captions, NEW g2, NEW seen2, Comes(x, g, seen, g2, seen2), x.group = g2,
         x.poc # 0
  PROVE  Holds(s, K, g2, seen2, K \cup {Name(x)})
<1> DEFINE R == K \cup {Name(x)}
<1>1. /\ DriverState(s) /\ InLine(s, K) /\ Named(Line(s), K) /\ Reads(s, g, seen)
      /\ OneKind(s) /\ Counted(s) /\ Past(s, g, seen, K) /\ Levelled(s, K) /\ Own(s, g, K)
  BY DEF Holds, Orderly
<1>2. \A h : <<h, 0>> # Name(x)
  BY DEF Name
<1>3. InLine(s, R)
  BY <1>1, <1>2, LaterRead
<1>4. \A y : Exempt(y, R) <=> Exempt(y, K)
  BY <1>2 DEF Exempt
<1>5. Reads(s, g2, seen2) /\ (g2 = g + 1 => \A y \in All(s) : y.group < g2)
  BY <1>1, ReadsOn
<1>6. Past(s, g2, seen2, R)
  <2> SUFFICES ASSUME NEW o \in Written(s) PROVE Behind(o, g2, seen2, R)
    BY DEF Past
  <2>1. CASE g2 = g + 1
    <3>1. o \in All(s)
      BY DEF All
    <3> QED BY <1>5, <2>1, <3>1 DEF Behind
  <2>2. CASE g2 = g /\ seen \subseteq seen2
    <3>1. Behind(o, g, seen, K)
      BY <1>1 DEF Past
    <3> QED BY <1>4, <2>2, <3>1 DEF Behind
  <2> QED BY <2>1, <2>2 DEF Comes
<1>7. Levelled(s, R)
  BY <1>1, <1>4 DEF Levelled
<1>8. Own(s, g2, R)
  <2> SUFFICES ASSUME <<g2, 0>> \in R, NEW y \in Waits(s) PROVE y.group = g2
    BY DEF Own
  <2>1. <<g2, 0>> \in K
    BY <1>2
  <2>2. CASE g2 = g
    BY <1>1, <2>1, <2>2 DEF Own
  <2>3. CASE g2 = g + 1
    <3>1. PICK z \in All(s) : z \in Captions /\ Name(z) = <<g2, 0>>
      BY <1>1, <2>1, NameThere
    <3>2. z.group = g2 /\ z.group < g2 /\ z.group \in Nat
      BY <1>5, <2>3, <3>1 DEF Name, Captions
    <3> QED BY <3>2
  <2> QED BY <2>2, <2>3 DEF Comes
<1> QED BY <1>1, <1>3, <1>5, <1>6, <1>7, <1>8 DEF Holds, Orderly

\* The first picture of a group flushes.
LEMMA FlushHolds ==
  ASSUME NEW s, NEW K, NEW g \in Nat, NEW seen \in SUBSET Pictures, Holds(s, K, g, seen, K),
         NEW x \in Captions, NEW g2, NEW seen2, Comes(x, g, seen, g2, seen2), x.group = g2,
         g2 = g + 1
  PROVE  Holds(Order!aml_flush_cc_data(s), K, g2, seen2, K \cup {Name(x)})
<1> DEFINE r == Order!aml_flush_cc_data(s)  R == K \cup {Name(x)}  n == Len(s.u.list)
<1>1. /\ DriverState(s) /\ InLine(s, K) /\ Named(Line(s), K) /\ Reads(s, g, seen)
      /\ OneKind(s)
  BY DEF Holds, Orderly
<1>2. /\ Moves(s, r, n) /\ r.u.list = << >> /\ r.u.num = 0
  BY <1>1, FlushMoves
<1> HIDE DEF r
<1>3. g2 = g + 1
  OBVIOUS
<1>4. Reads(s, g2, seen2) /\ \A y \in All(s) : y.group < g2
  BY <1>1, <1>3, ReadsOn
<1>5. /\ DriverState(r) /\ InLine(r, K) /\ Named(Line(r), K)
      /\ Waits(r) \subseteq Waits(s) /\ Written(r) \subseteq Written(s) \cup First(s, n)
  BY <1>1, <1>2, MovesKeep
<1>6. First(s, n) = Waits(s)
  BY DEF First, Waits
<1>7. All(r) \subseteq All(s)
  BY <1>5, <1>6 DEF All
<1>8. Waits(r) = {}
  <2>1. \A i : i \notin 1 .. Len(r.u.list)
    <3>1. Len(r.u.list) = 0
      BY <1>2
    <3> QED BY <3>1
  <2> QED BY <2>1 DEF Waits
<1>9. InLine(r, R)
  <2>1. \A y \in All(r) : <<y.group, 0>> # Name(x)
    <3> TAKE y \in All(r)
    <3>1. y.group < g2 /\ y.group \in Nat /\ x.group = g2 /\ g2 \in Nat
      BY <1>1, <1>3, <1>4, <1>7, AllCaptions
    <3> QED BY <3>1 DEF Name
  <2> QED BY <1>5, <2>1, LaterRead DEF All
<1>10. Reads(r, g2, seen2) /\ OneKind(r)
  BY <1>1, <1>4, <1>7 DEF Reads, OneKind
<1>11. Counted(r)
  <2>1. Len(r.u.list) = 0 /\ 0 <= MAX_CC_NUM
    BY <1>2, PictureNumbers
  <2> QED BY <1>2, <2>1 DEF Counted
<1>12. Past(r, g2, seen2, R)
  <2> SUFFICES ASSUME NEW o \in Written(r) PROVE Behind(o, g2, seen2, R)
    BY DEF Past
  <2>1. o.group < g2
    BY <1>4, <1>7 DEF All
  <2> QED BY <2>1 DEF Behind
<1>13. Levelled(r, R) /\ Own(r, g2, R)
  BY <1>8 DEF Levelled, Own
<1> QED BY <1>5, <1>9, <1>10, <1>11, <1>12, <1>13 DEF Holds, Orderly, r

LEMMA RoomHolds ==
  ASSUME NEW s, NEW K, NEW R, NEW g \in Nat, NEW seen \in SUBSET Pictures, Holds(s, K, g, seen, R)
  PROVE  Holds(Order!MakeRoom(s), K, g, seen, R) /\ Order!MakeRoom(s).u.num < MAX_CC_NUM
<1> DEFINE r == Order!MakeRoom(s)
<1>1. DriverState(s) /\ Counted(s) /\ s.u.num \in Int /\ MAX_CC_NUM \in Nat
  BY PictureNumbers DEF Holds, Orderly, DriverState, Shaped
<1>2. CASE ~Order!Full(s)
  <2>1. r = s
    BY <1>2 DEF Order!MakeRoom
  <2>2. s.u.num < MAX_CC_NUM
    BY <1>1, <1>2 DEF Order!Full
  <2> HIDE DEF r
  <2> QED BY <2>1, <2>2 DEF r
<1>3. CASE Order!Full(s)
  <2>1. s.u.list # << >> /\ \A y \in First(s, 1) : Behind(y, g, seen, R)
    BY <1>3, FullIsBehind
  <2>2. Moves(s, r, 1) /\ r.u.num = s.u.num - 1
    BY <1>1, <1>3, <2>1, RoomMoves
  <2> HIDE DEF r
  <2>3. Len(r.u.list) = Len(s.u.list) - 1
    <3>1. InLine(s, R) /\ Named(Line(s), K)
      BY DEF Holds
    <3> QED BY <1>1, <2>2, <3>1, MovesKeep
  <2>4. Counted(r) /\ r.u.num < MAX_CC_NUM
    BY <1>1, <2>2, <2>3 DEF Counted
  <2>5. Holds(r, K, g, seen, R)
    BY <2>1, <2>2, <2>4, HoldsMoves
  <2> QED BY <2>4, <2>5 DEF r
<1> QED BY <1>2, <1>3

LEMMA BackHolds ==
  ASSUME NEW s, NEW K, NEW R, NEW g \in Nat, NEW seen \in SUBSET Pictures, Holds(s, K, g, seen, R),
         s.u.num < MAX_CC_NUM, NEW x \in Captions, \A p \in seen : x.poc >= p - Back
  PROVE  Holds(Order!FlushIfBack(s, x), K, g, seen, R) /\ Order!FlushIfBack(s, x).u.num < MAX_CC_NUM
<1> DEFINE r == Order!FlushIfBack(s, x)
           back == s.u.list # << >> /\ x.poc < Order!Head(s.u.list).poc - Back
<1>1. r = IF back THEN Order!aml_flush_cc_data(s) ELSE s
  BY DEF Order!FlushIfBack
<1>2. CASE ~back
  <2>1. r = s
    BY <1>1, <1>2
  <2> HIDE DEF r
  <2> QED BY <2>1 DEF r
<1>3. CASE back
  <2>1. \A y \in First(s, Len(s.u.list)) : Behind(y, g, seen, R)
    BY <1>3, BackIsBehind
  <2>2. DriverState(s)
    BY DEF Holds
  <2>3. Moves(s, r, Len(s.u.list)) /\ r.u.num = 0 /\ r.u.list = << >>
    <3> HIDE DEF r, back
    <3> QED BY <1>1, <1>3, <2>2, FlushMoves
  <2> HIDE DEF r, back
  <2>4. Len(<< >>) = 0 /\ 0 <= MAX_CC_NUM /\ 0 < MAX_CC_NUM
    BY PictureNumbers
  <2>5. Counted(r) /\ r.u.num < MAX_CC_NUM
    BY <2>3, <2>4 DEF Counted
  <2>6. Holds(r, K, g, seen, R)
    BY <2>1, <2>3, <2>5, HoldsMoves
  <2> QED BY <2>5, <2>6 DEF r
<1> HIDE DEF back
<1> QED BY <1>2, <1>3

LEMMA AddHolds ==
  ASSUME NEW s, NEW K, NEW g \in Nat, NEW seen \in SUBSET Pictures, NEW x \in Captions,
         Holds(s, K, g, seen, K \cup {Name(x)}),
         x.kind = "h264", x.group = g, x.poc \in seen, Name(x) \notin K,
         clock \in Nat, x.pts >= clock, \A p \in seen : x.poc >= p - Back
  PROVE  Holds(Order!aml_add_cc_data(s, x), K \cup {Name(x)}, g, seen, K \cup {Name(x)})
<1> DEFINE R == K \cup {Name(x)}  m == Order!MakeRoom(s)  f == Order!FlushIfBack(m, x)
<1>1. Holds(m, K, g, seen, R) /\ m.u.num < MAX_CC_NUM
  <2> HIDE DEF R
  <2> QED BY RoomHolds DEF R
<1> HIDE DEF m
<1>2. Holds(f, K, g, seen, R) /\ f.u.num < MAX_CC_NUM
  <2> HIDE DEF R
  <2> QED BY <1>1, BackHolds
<1> HIDE DEF f
<1>3. Holds(Order!Insert(f, x), R, g, seen, R)
  BY <1>2, InsertHolds
<1> QED BY <1>3 DEF Order!aml_add_cc_data, f, m

LEMMA PackageHolds ==
  ASSUME NEW s, NEW K, NEW g \in Nat, NEW seen \in SUBSET Pictures, NEW x \in Captions,
         Holds(s, K, g, seen, K \cup {Name(x)}),
         x.kind = "h264", x.group = g, x.poc \in seen, Name(x) \notin K,
         clock \in Nat, x.pts >= clock, \A p \in seen : x.poc >= p - Back
  PROVE  Holds(Order!aml_h264_userdata_package(s, x), K \cup {Name(x)}, g, seen, K \cup {Name(x)})
<1> DEFINE R == K \cup {Name(x)}  a == Order!aml_add_cc_data(s, x)
           r == Order!aml_h264_userdata_package(s, x)
<1>1. Holds(a, R, g, seen, R)
  BY AddHolds
<1> HIDE DEF R
<1>2. /\ DriverState(a) /\ Ascends(a.u.list, Shown) /\ OneKind(a) /\ Counted(a)
      /\ InLine(a, R) /\ Named(Line(a), R)
  BY <1>1 DEF Holds, Orderly, InLine
<1>3. \A y \in Waits(a) : y.kind # "scte"
  BY <1>2 DEF OneKind, All
<1>4. PICK k \in 0 .. Len(a.u.list) :
        /\ Moves(a, r, k) /\ r.u.num = a.u.num - k
        /\ \A i \in 1 .. k : a.u.list[i].pts < clock
  BY <1>2, <1>3, DueMoves
<1> HIDE DEF a, r
<1>5. Len(r.u.list) = Len(a.u.list) - k
  BY <1>2, <1>4, MovesKeep
<1>6. Counted(r)
  <2> DEFINE n == Len(a.u.list)
  <2>1. a.u.num = n /\ n <= MAX_CC_NUM /\ n \in Int /\ MAX_CC_NUM \in Nat /\ k \in 0 .. n
    BY <1>2, PictureNumbers DEF Counted, DriverState, Shaped
  <2>2. Len(r.u.list) = n - k /\ r.u.num = n - k
    BY <1>4, <1>5, <2>1
  <2> HIDE DEF n
  <2>3. n - k <= MAX_CC_NUM
    BY <2>1
  <2> QED BY <2>2, <2>3 DEF Counted
<1>7. \A y \in First(a, k) : Behind(y, g, seen, R)
  BY <1>4 DEF First, Behind
<1>8. Holds(r, R, g, seen, R)
  BY <1>1, <1>4, <1>6, <1>7, HoldsMoves
<1> QED BY <1>8 DEF r, R

\* What the handler of an H.264 picture has before it takes x in.
Flushed(s, x) == IF x.poc = 0 THEN Order!aml_flush_cc_data(s) ELSE s

\* The handler of an H.264 picture.
LEMMA PictureHolds ==
  ASSUME NEW s, NEW K, NEW g \in Nat, NEW seen \in SUBSET Pictures, Holds(s, K, g, seen, K),
         NEW x \in Captions, NEW g2, NEW seen2, Comes(x, g, seen, g2, seen2), x.group = g2,
         x.kind = "h264", clock \in Nat, x.pts >= clock, x.poc = 0 => g2 = g + 1
  PROVE  /\ ~Order!NullHead(Flushed(s, x))
         /\ Holds(Order!aml_h264_userdata_package(Flushed(s, x), x),
                  K \cup {Name(x)}, g2, seen2, K \cup {Name(x)})
<1> DEFINE f == Flushed(s, x)  R == K \cup {Name(x)}
<1>1. x.poc \in Pictures /\ x.poc \in Nat /\ Back \in Nat /\ \A p \in Pictures : p \in Nat
  <2>1. x.poc \in Pictures
    BY DEF Captions
  <2> QED BY <2>1, PictureNumbers, Zenon
<1>2. g2 \in Nat /\ seen2 \in SUBSET Pictures /\ x.poc \in seen2
  BY <1>1 DEF Comes
<1>3. \A p \in seen2 : x.poc >= p - Back
  <2> TAKE p \in seen2
  <2>1. CASE p = x.poc
    BY <1>1, <2>1
  <2>2. CASE p \in seen /\ \A q \in seen : x.poc >= q - Back
    BY <2>2
  <2> QED BY <2>1, <2>2 DEF Comes
<1>4. Name(x) \notin K
  <2>1. DriverState(s) /\ Named(Line(s), K) /\ Reads(s, g, seen)
    BY DEF Holds, Orderly
  <2> QED BY <2>1, ComesAfter
<1>5. Holds(f, K, g2, seen2, R)
  <2>1. CASE x.poc = 0
    BY <2>1, FlushHolds DEF Flushed
  <2>2. CASE x.poc # 0
    BY <2>2, ComesHolds DEF Flushed
  <2> QED BY <2>1, <2>2
<1> HIDE DEF f
<1>6. ~Order!NullHead(f)
  <2>1. Order!Full(f) => f.u.list # << >>
    <3> HIDE DEF R
    <3> QED BY <1>2, <1>5, FullIsBehind
  <2> QED BY <2>1 DEF Order!NullHead
<1>7. Holds(Order!aml_h264_userdata_package(f, x), R, g2, seen2, R)
  BY <1>2, <1>3, <1>4, <1>5, PackageHolds
<1> QED BY <1>6, <1>7 DEF f

-----------------------------------------------------------------------------
(* MPEG-2 and SCTE-20: what was seen of group g before the picture.        *)

NotH264(s) == \A y \in All(s) : y.kind # "h264"
Base(s, K, g, seen) ==
  DriverState(s) /\ InLine(s, {}) /\ Named(Line(s), K) /\ Reads(s, g, seen) /\ NotH264(s)
UpTo(s, g, p) == \A o \in Written(s) : o.group < g \/ (o.group = g /\ o.poc <= p)
Counts(s, seen) == s.u.num <= Cardinality(seen) /\ Cardinality(seen) <= MAX_CC_NUM
MpegCount(s, g, seen) ==
  /\ s.u.scte = FALSE /\ s.u.poc >= -1 /\ (0 .. s.u.poc) \subseteq seen
  /\ Counts(s, seen) /\ UpTo(s, g, s.u.poc)
  /\ \A y \in Waits(s) : y.group = g /\ y.kind = "mpeg" /\ y.poc > s.u.poc
ScteCount(s, g, seen) ==
  /\ Counts(s, seen) /\ UpTo(s, g, -1)
  /\ \A y \in Waits(s) : y.group = g /\ y.kind = "scte"

LEMMA FlushPlain ==
  ASSUME NEW s, NEW K, NEW g \in Nat, NEW seen, Base(s, K, g, seen)
  PROVE  LET r == Order!aml_flush_cc_data(s)
         IN /\ Base(r, K, g + 1, {}) /\ Waits(r) = {} /\ UpTo(r, g + 1, -1)
            /\ r.u.num = 0 /\ r.u.poc = -1 /\ r.u.scte = s.u.scte
            /\ Counts(r, {}) /\ Cardinality({}) < MAX_CC_NUM
<1> DEFINE r == Order!aml_flush_cc_data(s)  n == Len(s.u.list)
<1>1. DriverState(s) /\ InLine(s, {}) /\ Named(Line(s), K) /\ Reads(s, g, seen) /\ NotH264(s)
  BY DEF Base
<1>2. /\ Moves(s, r, n) /\ r.u.list = << >> /\ r.u.num = 0 /\ r.u.poc = -1
      /\ r.u.scte = s.u.scte
  BY <1>1, FlushMoves
<1> HIDE DEF r
<1>3. /\ DriverState(r) /\ InLine(r, {}) /\ Named(Line(r), K)
      /\ Waits(r) \subseteq Waits(s) /\ Written(r) \subseteq Written(s) \cup First(s, n)
  BY <1>1, <1>2, MovesKeep
<1>4. First(s, n) = Waits(s)
  BY DEF First, Waits
<1>5. All(r) \subseteq All(s)
  BY <1>3, <1>4 DEF All
<1>6. Waits(r) = {}
  <2>1. \A i : i \notin 1 .. Len(r.u.list)
    <3>1. Len(r.u.list) = 0
      BY <1>2
    <3> QED BY <3>1
  <2> QED BY <2>1 DEF Waits
<1>7. \A y \in All(r) : y.group < g + 1 /\ y.kind # "h264"
  <2> TAKE y \in All(r)
  <2>1. y \in All(s)
    BY <1>5
  <2>2. y.group \in Nat /\ (y.group < g \/ y.group = g)
    BY <1>1, <2>1, AllCaptions DEF Reads
  <2> QED BY <1>1, <2>1, <2>2 DEF NotH264
<1>8. Base(r, K, g + 1, {})
  BY <1>3, <1>7 DEF Base, Reads, NotH264
<1>9. UpTo(r, g + 1, -1)
  BY <1>7 DEF UpTo, All
<1>10. Counts(r, {}) /\ Cardinality({}) < MAX_CC_NUM
  <2>1. Cardinality({}) = 0 /\ MAX_CC_NUM > 0 /\ MAX_CC_NUM \in Nat
    BY PictureNumbers, FS_EmptySet
  <2> QED BY <1>2, <2>1 DEF Counts
<1> QED BY <1>2, <1>6, <1>8, <1>9, <1>10 DEF r

LEMMA NewName ==
  ASSUME NEW s, NEW K, NEW g \in Nat, NEW seen, Base(s, K, g, seen),
         NEW x, x.group = g, x.poc \notin seen
  PROVE  Name(x) \notin K
<1> SUFFICES ASSUME Name(x) \in K PROVE FALSE
  OBVIOUS
<1>1. DriverState(s) /\ Named(Line(s), K) /\ Reads(s, g, seen)
  BY DEF Base
<1>2. PICK y \in All(s) : Name(y) = Name(x)
  BY <1>1, NameThere
<1>3. y.group = g /\ y.poc \notin seen
  BY <1>2 DEF Name
<1>4. y.group < g
  BY <1>1, <1>3 DEF Reads
<1> QED BY <1>3, <1>4

LEMMA AfterWritten ==
  ASSUME NEW s, NEW K, NEW g \in Nat, NEW seen, Base(s, K, g, seen),
         NEW p \in Int, UpTo(s, g, p), NEW x \in Captions, x.group = g, p < x.poc,
         NEW o \in Written(s)
  PROVE  <<o, x>> \in Given({})
<1>1. o \in All(s)
  BY DEF All
<1>2. DriverState(s) /\ Named(Line(s), K)
  BY DEF Base
<1>3. o \in Captions /\ o.poc \in Nat
  BY <1>1, <1>2, AllCaptions
<1>4. x.poc \in Nat
  <2>1. x.poc \in Pictures
    BY DEF Captions
  <2> QED BY <2>1, PictureNumbers, Zenon
<1>5. Precedes(o, x)
  <2>1. o.group < g \/ (o.group = g /\ o.poc <= p)
    BY DEF UpTo
  <2> QED BY <1>3, <1>4, <2>1 DEF Precedes
<1> QED BY <1>3, <1>5 DEF Given

LEMMA GoesInGroup ==
  ASSUME NEW x \in Captions, NEW y \in Captions, x.kind = y.kind, x.group = y.group,
         Name(x) # Name(y), x.kind # "h264"
  PROVE  Order!Goes(x, y) <=> Precedes(x, y)
<1>1. CASE x.kind = "scte"
  <2>1. x.pts = 0 /\ y.pts = 0 /\ x.group \in Nat
    BY <1>1 DEF Captions
  <2> QED BY <2>1 DEF Order!Goes, Precedes
<1>2. CASE x.kind # "scte"
  BY <1>2, GoesByName
<1> QED BY <1>1, <1>2

\* A packet that finds its place among those of its group that wait.
LEMMA AddPlain ==
  ASSUME NEW s, NEW K, NEW g \in Nat, NEW seen \in SUBSET Pictures, Base(s, K, g, seen),
         NEW x \in Captions, x.group = g, x.poc \notin seen, x.kind # "h264",
         \A q \in seen : x.poc >= q - Back, s.u.num < MAX_CC_NUM,
         \A y \in Waits(s) : y.group = g /\ y.kind = x.kind,
         NEW p \in Int, UpTo(s, g, p), p < x.poc
  PROVE  /\ ~Order!NullHead(s)
         /\ Enlists(s, Order!aml_add_cc_data(s, x), x)
         /\ Base(Order!aml_add_cc_data(s, x), K \cup {Name(x)}, g, seen \cup {x.poc})
<1> DEFINE r == Order!aml_add_cc_data(s, x)
<1>1. DriverState(s) /\ InLine(s, {}) /\ Named(Line(s), K) /\ Reads(s, g, seen) /\ NotH264(s)
  BY DEF Base
<1>2. ~Order!Full(s)
  BY <1>1, PictureNumbers DEF Order!Full, DriverState, Shaped
<1>3. ~Order!NullHead(s) /\ Order!MakeRoom(s) = s
  BY <1>2 DEF Order!NullHead, Order!MakeRoom
<1>4. \A y \in Waits(s) : y \in Captions /\ y.poc \in seen /\ y.poc \in Nat /\ Name(y) \in K
  <2> TAKE y \in Waits(s)
  <2>1. y \in All(s)
    BY DEF All
  <2>2. y \in Captions /\ y.poc \in Nat /\ Name(y) \in K
    BY <1>1, <2>1, AllCaptions
  <2>3. ~(y.group < g) /\ (y.group < g \/ (y.group = g /\ y.poc \in seen))
    BY <1>1, <2>1 DEF Reads
  <2> QED BY <2>2, <2>3
<1>5. Order!FlushIfBack(s, x) = s
  <2>1. CASE s.u.list = << >>
    BY <2>1 DEF Order!FlushIfBack
  <2>2. CASE s.u.list # << >>
    <3> DEFINE b == s.u.list  h == Order!Head(b)
    <3>1. b \in Seq(Captions) /\ b # << >>
      BY <1>1, <2>2 DEF DriverState
    <3>2. h = b[1] /\ 1 \in 1 .. Len(b)
      <4> HIDE DEF b
      <4> QED BY <3>1
    <3>3. h \in Waits(s)
      BY <3>2 DEF Waits
    <3>4. h.poc \in seen /\ h.poc \in Nat
      BY <1>4, <3>3
    <3>5. x.poc >= h.poc - Back
      BY <3>4
    <3>6. x.poc \in Nat /\ Back \in Nat
      <4>1. x.poc \in Pictures
        BY DEF Captions
      <4> QED BY <4>1, PictureNumbers, Zenon
    <3>7. ~(x.poc < h.poc - Back)
      <4> HIDE DEF h, b
      <4> QED BY <3>4, <3>5, <3>6
    <3> QED BY <3>7 DEF Order!FlushIfBack
  <2> QED BY <2>1, <2>2
<1>6. r = Order!Insert(s, x)
  BY <1>3, <1>5 DEF Order!aml_add_cc_data
<1>7. Name(x) \notin K
  BY NewName
<1>8. \A y \in Written(s) : <<y, x>> \in Given({})
  <2> TAKE y \in Written(s)
  <2> HIDE DEF r
  <2> QED BY AfterWritten
<1>9. \A y \in Waits(s) : Order!Goes(x, y) <=> Precedes(x, y)
  <2> TAKE y \in Waits(s)
  <2>1. y \in Captions /\ x.kind = y.kind /\ x.group = y.group /\ Name(x) # Name(y)
    BY <1>4, <1>7
  <2> QED BY <2>1, GoesInGroup
<1>10. DriverState(r) /\ Enlists(s, r, x) /\ InLine(r, {}) /\ Named(Line(r), K \cup {Name(x)})
  <2>1. LET q == Order!Insert(s, x)
        IN DriverState(q) /\ Enlists(s, q, x) /\ InLine(q, {}) /\ Named(Line(q), K \cup {Name(x)})
    BY <1>1, <1>7, <1>8, <1>9, InsertKeeps
  <2> QED BY <1>6, <2>1
<1> HIDE DEF r
<1>11. All(r) = All(s) \cup {x}
  BY <1>10 DEF Enlists, All, Written
<1>12. Reads(r, g, seen \cup {x.poc}) /\ NotH264(r)
  BY <1>1, <1>11 DEF Reads, NotH264
<1> QED BY <1>3, <1>10, <1>12 DEF Base, r

LEMMA CountsOn ==
  ASSUME NEW s, DriverState(s), NEW r, NEW seen \in SUBSET Pictures, NEW p, p \notin seen,
         Counts(s, seen), Cardinality(seen) < MAX_CC_NUM, r.u.num = s.u.num \/ r.u.num = s.u.num + 1
  PROVE  Counts(r, seen \cup {p}) /\ s.u.num < MAX_CC_NUM
<1> DEFINE c == Cardinality(seen)  d == Cardinality(seen \cup {p})
<1>1. c \in Nat /\ d = c + 1 /\ s.u.num \in Int /\ MAX_CC_NUM \in Nat
  BY SomePictures, PictureNumbers DEF DriverState, Shaped
<1>2. s.u.num <= c /\ c < MAX_CC_NUM
  BY DEF Counts
<1> HIDE DEF c, d
<1>3. r.u.num <= d /\ d <= MAX_CC_NUM /\ s.u.num < MAX_CC_NUM
  BY <1>1, <1>2
<1> QED BY <1>3 DEF Counts, d

\* A packet that is not in its turn.
LEMMA MpegWaits ==
  ASSUME NEW s, NEW K, NEW g \in Nat, NEW seen \in SUBSET Pictures, Base(s, K, g, seen),
         MpegCount(s, g, seen), Cardinality(seen) < MAX_CC_NUM,
         NEW x \in Captions, x.group = g, x.poc \notin seen, x.kind = "mpeg",
         \A q \in seen : x.poc >= q - Back
  PROVE  /\ ~Order!NullHead(s)
         /\ LET r == Order!aml_add_cc_data(s, x)
            IN Base(r, K \cup {Name(x)}, g, seen \cup {x.poc}) /\ MpegCount(r, g, seen \cup {x.poc})
<1> DEFINE r == Order!aml_add_cc_data(s, x)
<1>1. /\ DriverState(s) /\ s.u.poc \in Int /\ s.u.poc >= -1 /\ (0 .. s.u.poc) \subseteq seen
      /\ Counts(s, seen) /\ UpTo(s, g, s.u.poc) /\ s.u.scte = FALSE
      /\ \A y \in Waits(s) : y.group = g /\ y.kind = "mpeg" /\ y.poc > s.u.poc
  BY DEF MpegCount, Base, DriverState, Shaped
<1>2. s.u.poc < x.poc
  <2>1. x.poc \in Nat
    <3>1. x.poc \in Pictures
      BY DEF Captions
    <3> QED BY <3>1, PictureNumbers, Zenon
  <2>2. x.poc \notin 0 .. s.u.poc
    BY <1>1
  <2> QED BY <1>1, <2>1, <2>2
<1>3. s.u.num < MAX_CC_NUM
  BY <1>1, CountsOn
<1>4. /\ ~Order!NullHead(s) /\ Enlists(s, r, x) /\ Base(r, K \cup {Name(x)}, g, seen \cup {x.poc})
  <2>1. x.kind # "h264" /\ \A y \in Waits(s) : y.group = g /\ y.kind = x.kind
    BY <1>1
  <2> HIDE DEF r
  <2> QED BY <1>1, <1>2, <1>3, <2>1, AddPlain DEF r
<1> HIDE DEF r
<1>5. /\ Waits(r) = Waits(s) \cup {x} /\ Written(r) = Written(s) /\ r.u.num = s.u.num + 1
      /\ r.u.poc = s.u.poc /\ r.u.scte = s.u.scte
  BY <1>4 DEF Enlists, Written
<1>6. Counts(r, seen \cup {x.poc})
  BY <1>1, <1>5, CountsOn
<1>7. UpTo(r, g, r.u.poc)
  BY <1>1, <1>5 DEF UpTo
<1>8. \A y \in Waits(r) : y.group = g /\ y.kind = "mpeg" /\ y.poc > r.u.poc
  <2>1. s.u.poc < x.poc => x.poc > s.u.poc
    OBVIOUS
  <2> QED BY <1>1, <1>2, <1>5, <2>1
<1>9. (0 .. r.u.poc) \subseteq seen \cup {x.poc}
  <2>1. (0 .. s.u.poc) \subseteq seen
    BY <1>1
  <2> QED BY <1>5, <2>1, Zenon
<1>10. r.u.poc >= -1 /\ r.u.scte = FALSE
  BY <1>1, <1>5
<1>11. MpegCount(r, g, seen \cup {x.poc})
  BY <1>6, <1>7, <1>8, <1>9, <1>10 DEF MpegCount
<1> QED BY <1>4, <1>11 DEF r

\* A packet in its turn, and those that follow on it.
LEMMA MpegGoesOn ==
  ASSUME NEW s, NEW K, NEW g \in Nat, NEW seen \in SUBSET Pictures, Base(s, K, g, seen),
         MpegCount(s, g, seen), Cardinality(seen) < MAX_CC_NUM,
         NEW x \in Captions, x.group = g, x.poc \notin seen, x.kind = "mpeg",
         Order!InTurn(s.u, x)
  PROVE  LET r == Order!Drain([Order!Write(s, <<x>>) EXCEPT !.u.poc = x.poc])
         IN Base(r, K \cup {Name(x)}, g, seen \cup {x.poc}) /\ MpegCount(r, g, seen \cup {x.poc})
<1> DEFINE w == [Order!Write(s, <<x>>) EXCEPT !.u.poc = x.poc]  r == Order!Drain(w)
           new == K \cup {Name(x)}  now == seen \cup {x.poc}
           n == Order!Following(w.u)  b == s.u.list
<1>1. /\ DriverState(s) /\ InLine(s, {}) /\ Named(Line(s), K) /\ Reads(s, g, seen) /\ NotH264(s)
      /\ s.u.poc \in Int /\ s.u.poc >= -1 /\ (0 .. s.u.poc) \subseteq seen
      /\ Counts(s, seen) /\ UpTo(s, g, s.u.poc) /\ s.u.scte = FALSE
      /\ \A y \in Waits(s) : y.group = g /\ y.kind = "mpeg" /\ y.poc > s.u.poc
  BY DEF MpegCount, Base, DriverState, Shaped
<1>2. x.poc \in Nat
  <2>1. x.poc \in Pictures
    BY DEF Captions
  <2> QED BY <2>1, PictureNumbers, Zenon
<1>3. x.poc = s.u.poc + 1
  <2>1. x.poc = s.u.poc \/ x.poc = s.u.poc + 1
    BY DEF Order!InTurn
  <2>2. x.poc \notin 0 .. s.u.poc
    BY <1>1
  <2> QED BY <1>1, <1>2, <2>1, <2>2
<1>4. Name(x) \notin K
  BY NewName
<1>5. \A y \in Written(s) : <<y, x>> \in Given({})
  <2> TAKE y \in Written(s)
  <2>1. s.u.poc < x.poc
    BY <1>1, <1>3
  <2> HIDE DEF w, r, new, now, n, b
  <2> QED BY <1>1, <2>1, AfterWritten
<1>6. \A y \in Waits(s) : y \in Captions /\ y.poc \in Nat /\ Precedes(x, y)
  <2> TAKE y \in Waits(s)
  <2>1. y \in Captions /\ y.poc \in Nat /\ Name(y) # Name(x)
    <3>1. y \in All(s)
      BY DEF All
    <3> QED BY <1>1, <1>4, <3>1, AllCaptions
  <2>2. y.group = g /\ y.poc > s.u.poc
    BY <1>1
  <2>3. y.poc # x.poc
    BY <2>1, <2>2 DEF Name
  <2>4. x.poc < y.poc
    BY <1>1, <1>2, <1>3, <2>1, <2>2, <2>3
  <2> QED BY <2>1, <2>2, <2>4 DEF Precedes
<1>7. /\ DriverState(w) /\ InLine(w, {}) /\ Named(Line(w), new)
      /\ Waits(w) = Waits(s) /\ Written(w) = Written(s) \cup {x} /\ w.u.list = b
      /\ w.u.num = s.u.num /\ w.u.poc = x.poc /\ w.u.scte = s.u.scte
  BY <1>1, <1>4, <1>5, <1>6, WriteKeeps
<1> HIDE DEF w
<1>8. /\ Moves(w, r, n) /\ r.u.num = w.u.num /\ r.u.scte = w.u.scte
      /\ r.u.poc = w.u.poc + n /\ \A i \in 1 .. n : w.u.list[i].poc = w.u.poc + i
  BY <1>7, DrainMoves
<1> HIDE DEF r, n, new, now
<1>9. /\ DriverState(r) /\ InLine(r, {}) /\ Named(Line(r), new)
      /\ Waits(r) \subseteq Waits(w) /\ Written(r) \subseteq Written(w) \cup First(w, n)
      /\ \A i \in 1 .. Len(r.u.list) : n + i \in 1 .. Len(w.u.list)
                                       /\ r.u.list[i] = w.u.list[n + i]
  BY <1>7, <1>8, MovesKeep
<1>10. /\ b \in Seq(Captions) /\ Len(b) \in Nat /\ n \in 0 .. Len(b) /\ n \in Nat
       /\ r.u.poc = x.poc + n /\ \A i \in 1 .. n : b[i].poc = x.poc + i
  <2>1. b \in Seq(Captions) /\ n \in 0 .. Len(b)
    BY <1>1, <1>7, <1>8 DEF DriverState, Moves
  <2>2. r.u.poc = x.poc + n /\ \A i \in 1 .. n : b[i].poc = x.poc + i
    BY <1>7, <1>8
  <2> HIDE DEF b
  <2> QED BY <2>1, <2>2
<1>11. \A i \in 1 .. Len(b) : b[i] \in Waits(s)
  BY DEF Waits
<1> HIDE DEF b
<1>12. First(w, n) \subseteq Waits(s)
       /\ \A y \in First(w, n) : y.poc <= r.u.poc
  <2>1. First(w, n) = {b[i] : i \in 1 .. n}
    BY <1>7 DEF First
  <2>2. \A i \in 1 .. n : i \in 1 .. Len(b) /\ b[i].poc <= r.u.poc
    <3> TAKE i \in 1 .. n
    <3>1. b[i].poc = x.poc + i
      BY <1>10
    <3> QED BY <1>2, <1>10, <3>1
  <2> QED BY <1>11, <2>1, <2>2
<1>13. All(r) \subseteq All(s) \cup {x}
  BY <1>7, <1>9, <1>12 DEF All
<1>14. Reads(r, g, now) /\ NotH264(r)
  BY <1>1, <1>13 DEF Reads, NotH264, now
<1>15. Base(r, new, g, now)
  BY <1>9, <1>14 DEF Base
<1>16. Counts(r, now)
  BY <1>1, <1>7, <1>8, CountsOn DEF now
<1>17. UpTo(r, g, r.u.poc)
  <2> SUFFICES ASSUME NEW o \in Written(r)
               PROVE  o.group < g \/ (o.group = g /\ o.poc <= r.u.poc)
    BY DEF UpTo
  <2>1. CASE o \in Written(s)
    <3>1. o.group < g \/ (o.group = g /\ o.poc <= s.u.poc)
      BY <1>1, <2>1 DEF UpTo
    <3>2. o.poc \in Nat
      <4>1. o \in All(s)
        BY <2>1 DEF All
      <4> QED BY <1>1, <4>1, AllCaptions
    <3> QED BY <1>1, <1>2, <1>3, <1>10, <3>1, <3>2
  <2>2. CASE o = x
    BY <1>2, <1>10, <2>2
  <2>3. CASE o \in First(w, n)
    <3>1. o \in Waits(s) /\ o.poc <= r.u.poc
      BY <1>12, <2>3
    <3> QED BY <1>1, <3>1
  <2> QED BY <1>7, <1>9, <2>1, <2>2, <2>3
<1>18. ASSUME NEW y \in Waits(r) PROVE y.group = g /\ y.kind = "mpeg" /\ y.poc > r.u.poc
  <2>1. y \in Waits(s)
    BY <1>7, <1>9
  <2>2. PICK i \in 1 .. Len(r.u.list) : y = r.u.list[i]
    BY DEF Waits
  <2>3. n + i \in 1 .. Len(b) /\ y = b[n + i] /\ i \in Nat /\ i >= 1
    <3>1. Len(r.u.list) \in Nat
      BY <1>9 DEF DriverState
    <3> QED BY <1>7, <1>9, <2>2, <3>1
  <2>4. y.poc > r.u.poc
    <3>1. CASE n = 0
      <4>1. x.poc < y.poc
        <5>1. y.group = g /\ Precedes(x, y) /\ x.group = g
          BY <1>1, <1>6, <2>1
        <5> QED BY <5>1 DEF Precedes
      <4>2. y.poc \in Nat
        BY <1>6, <2>1
      <4> QED BY <1>2, <1>10, <3>1, <4>1, <4>2
    <3>2. CASE n # 0
      <4>1. n \in 1 .. Len(b) /\ n < n + i /\ n \in 1 .. n
        BY <1>10, <2>3, <3>2
      <4>2. <<b[n], b[n + i]>> \in Shown
        BY <1>1, <2>3, <4>1 DEF InLine, Ascends, b
      <4>3. Precedes(b[n], y) /\ b[n] \in Waits(s)
        BY <1>11, <2>3, <4>1, <4>2 DEF Shown
      <4>4. b[n].group = g /\ y.group = g /\ b[n].poc = r.u.poc
        BY <1>1, <1>10, <2>1, <4>1, <4>3
      <4>5. b[n].poc < y.poc /\ b[n].poc \in Nat /\ y.poc \in Nat
        BY <1>6, <2>1, <4>3, <4>4 DEF Precedes
      <4> QED BY <4>4, <4>5
    <3> QED BY <3>1, <3>2
  <2> QED BY <1>1, <2>1, <2>4
<1>19. (0 .. r.u.poc) \subseteq now
  <2> SUFFICES ASSUME NEW q \in 0 .. x.poc + n PROVE q \in now
    BY <1>10
  <2>1. CASE q <= s.u.poc
    <3>1. q \in 0 .. s.u.poc
      BY <1>1, <1>2, <1>10, <2>1
    <3> QED BY <1>1, <3>1 DEF now
  <2>2. CASE q = x.poc
    BY <2>2 DEF now
  <2>3. CASE q > x.poc
    <3>1. q - x.poc \in 1 .. n /\ q = x.poc + (q - x.poc)
      BY <1>2, <1>10, <2>3
    <3>2. PICK i \in 1 .. n : q = x.poc + i
      BY <3>1
    <3>3. i \in 1 .. Len(b) /\ b[i].poc = q
      BY <1>10, <3>2
    <3>4. b[i] \in Waits(s) /\ b[i] \in All(s)
      BY <1>11, <3>3 DEF All
    <3>5. b[i].group = g
      BY <1>1, <3>4
    <3>6. b[i].poc \in seen
      BY <1>1, <3>4, <3>5 DEF Reads
    <3> QED BY <3>3, <3>6 DEF now
  <2>4. q \in Nat
    BY <1>2, <1>10
  <2> QED BY <1>1, <1>2, <1>3, <2>1, <2>2, <2>3, <2>4
<1>20. r.u.poc >= -1 /\ r.u.scte = FALSE
  BY <1>1, <1>2, <1>7, <1>8, <1>10
<1>21. MpegCount(r, g, now)
  BY <1>16, <1>17, <1>18, <1>19, <1>20 DEF MpegCount
<1> QED BY <1>15, <1>21 DEF r, w, new, now

LEMMA ScteWaits ==
  ASSUME NEW s, NEW K, NEW g \in Nat, NEW seen \in SUBSET Pictures, Base(s, K, g, seen),
         ScteCount(s, g, seen), Cardinality(seen) < MAX_CC_NUM,
         NEW x \in Captions, x.group = g, x.poc \notin seen, x.kind = "scte",
         \A q \in seen : x.poc >= q - Back
  PROVE  /\ ~Order!NullHead(s)
         /\ LET r == Order!aml_add_cc_data(s, x)
            IN /\ Base(r, K \cup {Name(x)}, g, seen \cup {x.poc})
               /\ ScteCount(r, g, seen \cup {x.poc}) /\ r.u.scte = s.u.scte
<1> DEFINE r == Order!aml_add_cc_data(s, x)
<1>1. /\ DriverState(s) /\ Counts(s, seen) /\ UpTo(s, g, -1) /\ -1 \in Int
      /\ \A y \in Waits(s) : y.group = g /\ y.kind = "scte"
  BY DEF ScteCount, Base
<1>2. -1 < x.poc
  <2>1. x.poc \in Nat
    <3>1. x.poc \in Pictures
      BY DEF Captions
    <3> QED BY <3>1, PictureNumbers, Zenon
  <2> QED BY <2>1
<1>3. s.u.num < MAX_CC_NUM
  BY <1>1, CountsOn
<1>4. /\ ~Order!NullHead(s) /\ Enlists(s, r, x) /\ Base(r, K \cup {Name(x)}, g, seen \cup {x.poc})
  <2>1. x.kind # "h264" /\ \A y \in Waits(s) : y.group = g /\ y.kind = x.kind
    BY <1>1
  <2> HIDE DEF r
  <2> QED BY <1>1, <1>2, <1>3, <2>1, AddPlain DEF r
<1> HIDE DEF r
<1>5. /\ Waits(r) = Waits(s) \cup {x} /\ Written(r) = Written(s) /\ r.u.num = s.u.num + 1
      /\ r.u.scte = s.u.scte
  BY <1>4 DEF Enlists, Written
<1>6. Counts(r, seen \cup {x.poc})
  BY <1>1, <1>5, CountsOn
<1>7. UpTo(r, g, -1)
  BY <1>1, <1>5 DEF UpTo
<1>8. \A y \in Waits(r) : y.group = g /\ y.kind = "scte"
  BY <1>1, <1>5
<1>9. ScteCount(r, g, seen \cup {x.poc})
  BY <1>6, <1>7, <1>8 DEF ScteCount
<1> QED BY <1>4, <1>5, <1>9 DEF r

-----------------------------------------------------------------------------
(* The driver at work.                                                     *)

Now == Order!At(ud, out)
Streamed ==
  /\ DOMAIN stream = {"vfmt", "kind", "group", "seen", "read"}
  /\ stream.vfmt \in {"mpeg", "h264"}
  /\ stream.group \in Nat /\ stream.seen \in SUBSET Pictures
  /\ clock \in Nat /\ crashed = FALSE
H264Kept == Holds(Now, stream.read, stream.group, stream.seen, stream.read)
Missed(s, g) == \A y \in All(s) : y.group < g
MpegKept ==
  /\ Base(Now, stream.read, stream.group, stream.seen)
  /\ stream.kind = "mpeg" => MpegCount(Now, stream.group, stream.seen)
  /\ stream.kind = "scte" => IF ud.scte THEN ScteCount(Now, stream.group, stream.seen)
                             ELSE Missed(Now, stream.group)
OrderKept ==
  /\ Streamed
  /\ stream.vfmt = "h264" => H264Kept
  /\ stream.vfmt = "mpeg" => MpegKept

\* The state of the driver is its fields.
LEMMA SameFields ==
  ASSUME NEW s, NEW r, DriverState(s), Shaped(r), r.o = s.o, r.u.list = s.u.list
  PROVE  /\ DriverState(r) /\ Line(r) = Line(s) /\ Waits(r) = Waits(s) /\ Written(r) = Written(s)
         /\ All(r) = All(s)
         /\ \A R : InLine(s, R) => InLine(r, R)
         /\ \A K, g, seen : Base(s, K, g, seen) => Base(r, K, g, seen)
<1>1. /\ DriverState(r) /\ Line(r) = Line(s) /\ Waits(r) = Waits(s) /\ Written(r) = Written(s)
      /\ All(r) = All(s)
  BY DEF DriverState, Line, Waits, Written, All
<1>2. \A R : InLine(s, R) => InLine(r, R)
  BY <1>1 DEF InLine
<1>3. \A K, g, seen : Base(s, K, g, seen) => Base(r, K, g, seen)
  BY <1>1, <1>2 DEF Base, Reads, NotH264
<1> QED BY <1>1, <1>2, <1>3

LEMMA AtFields ==
  ASSUME NEW s, DriverState(s)
  PROVE  LET r == Order!At(s.u, s.o)
         IN Shaped(r) /\ r.u = s.u /\ r.o = s.o
BY DEF Order!At, DriverState, Shaped

LEMMA CountFields ==
  ASSUME NEW s, DriverState(s), NEW g, NEW seen
  PROVE  LET r == Order!At(s.u, s.o)
         IN /\ MpegCount(s, g, seen) => MpegCount(r, g, seen)
            /\ ScteCount(s, g, seen) => ScteCount(r, g, seen)
            /\ Missed(s, g) => Missed(r, g)
            /\ \A K, h, now : Base(s, K, h, now) => Base(r, K, h, now)
<1> DEFINE r == Order!At(s.u, s.o)
<1>1. Shaped(r) /\ r.u = s.u /\ r.o = s.o
  BY AtFields
<1> HIDE DEF r
<1>2. /\ DriverState(r) /\ Waits(r) = Waits(s) /\ Written(r) = Written(s) /\ All(r) = All(s)
      /\ \A K, h, now : Base(s, K, h, now) => Base(r, K, h, now)
  BY <1>1, SameFields
<1>3. MpegCount(s, g, seen) => MpegCount(r, g, seen)
  BY <1>1, <1>2 DEF MpegCount, Counts, UpTo
<1>4. ScteCount(s, g, seen) => ScteCount(r, g, seen)
  BY <1>1, <1>2 DEF ScteCount, Counts, UpTo
<1>5. Missed(s, g) => Missed(r, g)
  BY <1>2 DEF Missed
<1> QED BY <1>2, <1>3, <1>4, <1>5 DEF r

LEMMA HoldsFields ==
  ASSUME NEW s, NEW K, NEW g, NEW seen, NEW R, Holds(s, K, g, seen, R)
  PROVE  Holds(Order!At(s.u, s.o), K, g, seen, R)
<1> DEFINE r == Order!At(s.u, s.o)
<1>1. DriverState(s) /\ InLine(s, R) /\ Named(Line(s), K) /\ Orderly(s, g, seen, R)
  BY DEF Holds
<1>2. Shaped(r) /\ r.u = s.u /\ r.o = s.o
  BY <1>1, AtFields
<1> HIDE DEF r
<1>3. /\ DriverState(r) /\ Line(r) = Line(s) /\ Waits(r) = Waits(s) /\ Written(r) = Written(s)
      /\ All(r) = All(s) /\ InLine(r, R)
  BY <1>1, <1>2, SameFields
<1>4. Orderly(r, g, seen, R)
  <2>1. Reads(r, g, seen) /\ OneKind(r) /\ Past(r, g, seen, R)
    BY <1>1, <1>3 DEF Orderly, Reads, OneKind, Past
  <2>2. Counted(r) /\ Levelled(r, R) /\ Own(r, g, R)
    BY <1>1, <1>2, <1>3 DEF Orderly, Counted, Levelled, Own
  <2> QED BY <2>1, <2>2 DEF Orderly
<1> QED BY <1>1, <1>3, <1>4 DEF Holds, r

LEMMA SameNumber == \A S : Order!Cardinality(S) = Cardinality(S)
BY Zenon DEF Order!Cardinality, Cardinality

\* What a picture does to the stream.
Taken(what, intra, poc, before) ==
  /\ DOMAIN stream' = DOMAIN stream /\ stream'.vfmt = stream.vfmt
  /\ stream'.kind = what /\ stream'.seen = before \cup {poc}
  /\ stream'.read = stream.read \cup Order!Wanted(what, stream'.group, poc)
  /\ intra => stream'.group = stream.group + 1
  /\ ~intra => /\ stream'.group = stream.group /\ stream.kind = what
               /\ what # "h264" => Cardinality(stream.seen) < MAX_CC_NUM
  /\ poc \notin before /\ \A q \in before : poc >= q - Back
  /\ Order!Pts(stream'.group, poc) >= clock

LEMMA DecodedIs ==
  ASSUME Streamed, NEW what, NEW intra \in BOOLEAN, NEW poc \in Pictures,
         Order!Decoded(what, intra, poc)
  PROVE  Taken(what, intra, poc, IF intra THEN {} ELSE stream.seen)
<1>1. CASE intra
  <2>1. Order!Begins(what, poc)
    BY <1>1 DEF Order!Decoded
  <2>2. /\ DOMAIN stream' = DOMAIN stream /\ stream'.vfmt = stream.vfmt
        /\ stream'.kind = what /\ stream'.seen = {poc}
        /\ stream'.read = stream.read \cup Order!Wanted(what, stream.group + 1, poc)
        /\ stream'.group = stream.group + 1
    BY <2>1 DEF Order!Begins, Streamed
  <2> QED BY <1>1, <2>2 DEF Order!Decoded, Taken
<1>2. CASE ~intra
  <2>1. Order!Continues(what, poc)
    BY <1>2 DEF Order!Decoded
  <2>2. /\ DOMAIN stream' = DOMAIN stream /\ stream'.vfmt = stream.vfmt
        /\ stream'.kind = stream.kind /\ stream'.seen = stream.seen \cup {poc}
        /\ stream'.read = stream.read \cup Order!Wanted(what, stream.group, poc)
        /\ stream'.group = stream.group
    BY <2>1 DEF Order!Continues, Streamed
  <2>3. /\ stream.kind = what /\ poc \notin stream.seen
        /\ what # "h264" => Cardinality(stream.seen) < MAX_CC_NUM
        /\ \A q \in stream.seen : poc >= q - Back
    BY <2>1, SameNumber DEF Order!Continues
  <2> QED BY <1>2, <2>2, <2>3 DEF Order!Decoded, Taken
<1> QED BY <1>1, <1>2

\* How far the driver is when a packet is worked on: what was seen of its group before.
LEMMA MpegBefore ==
  ASSUME NEW s, NEW K, NEW g \in Nat, NEW seen \in SUBSET Pictures, Base(s, K, g, seen),
         NEW x, NEW intra \in BOOLEAN, x.intra = intra, s.u.scte = FALSE,
         ~intra => MpegCount(s, g, seen) /\ Cardinality(seen) < MAX_CC_NUM
  PROVE  LET f == Order!FlushAtIntra(s, x)
             before == IF intra THEN {} ELSE seen
             h == IF intra THEN g + 1 ELSE g
         IN Base(f, K, h, before) /\ MpegCount(f, h, before) /\ Cardinality(before) < MAX_CC_NUM
<1>1. CASE intra
  <2> DEFINE r == Order!aml_flush_cc_data(s)
  <2>1. /\ Base(r, K, g + 1, {}) /\ Waits(r) = {} /\ UpTo(r, g + 1, -1)
        /\ r.u.poc = -1 /\ r.u.scte = FALSE
        /\ Counts(r, {}) /\ Cardinality({}) < MAX_CC_NUM
    BY FlushPlain
  <2>2. Order!FlushAtIntra(s, x) = r
    BY <1>1 DEF Order!FlushAtIntra
  <2> HIDE DEF r
  <2>3. 0 .. r.u.poc = {} /\ r.u.poc >= -1
    BY <2>1
  <2>4. MpegCount(r, g + 1, {})
    BY <2>1, <2>3 DEF MpegCount
  <2> QED BY <1>1, <2>1, <2>2, <2>4
<1>2. CASE ~intra
  BY <1>2 DEF Order!FlushAtIntra
<1> QED BY <1>1, <1>2

LEMMA MpegPicture ==
  ASSUME OrderKept, NEW intra \in BOOLEAN, NEW poc \in Pictures,
         Order!aml_process_mpeg_userdata(intra, poc)
  PROVE  OrderKept'
<1> DEFINE g2 == stream'.group  x == Order!Packet("mpeg", intra, g2, poc)
           s == Order!At([ud EXCEPT !.scte = FALSE], out)
           f == Order!FlushAtIntra(s, x)
           before == IF intra THEN {} ELSE stream.seen
           R == stream.read
           now == before \cup {poc}  new == R \cup {Name(x)}
<1>1. Streamed /\ stream.vfmt = "mpeg" /\ MpegKept
  BY DEF OrderKept, Order!aml_process_mpeg_userdata
<1>2. Order!Decoded("mpeg", intra, poc) /\ clock' = clock
      /\ IF ~Order!InTurn(f.u, x) /\ Order!NullHead(f)
         THEN crashed' = TRUE /\ UNCHANGED <<ud, out>>
         ELSE Order!Becomes(Order!aml_mpeg_userdata_package(f, x)) /\ UNCHANGED crashed
  BY DEF Order!aml_process_mpeg_userdata
<1> HIDE DEF f, s, x
<1>3. /\ DOMAIN stream' = DOMAIN stream /\ stream'.vfmt = stream.vfmt
      /\ stream'.kind = "mpeg" /\ stream'.seen = now
      /\ stream'.read = R \cup Order!Wanted("mpeg", g2, poc)
      /\ intra => g2 = stream.group + 1
      /\ ~intra => /\ g2 = stream.group /\ stream.kind = "mpeg"
                   /\ Cardinality(stream.seen) < MAX_CC_NUM
      /\ poc \notin before /\ \A q \in before : poc >= q - Back
  <2>1. Taken("mpeg", intra, poc, before)
    BY <1>1, <1>2, DecodedIs
  <2> HIDE DEF before
  <2> QED BY <2>1 DEF Taken
<1> HIDE DEF g2
<1>4. g2 \in Nat /\ stream.group \in Nat /\ stream.seen \in SUBSET Pictures
  BY <1>1, <1>3 DEF Streamed
<1>5. /\ x \in Captions /\ x.kind = "mpeg" /\ x.group = g2 /\ x.poc = poc
      /\ Name(x) = <<g2, poc>> /\ x.intra = intra
  <2>1. x.intra = intra
    BY DEF x, Order!Packet
  <2> QED BY <1>4, <2>1, PacketIs DEF x
<1>6. stream'.read = new
  BY <1>3, <1>5 DEF Order!Wanted
<1>7. /\ Base(s, R, stream.group, stream.seen) /\ s.u.scte = FALSE
      /\ stream.kind = "mpeg" => MpegCount(s, stream.group, stream.seen)
  <2> DEFINE t == Now
  <2>1. /\ Base(t, R, stream.group, stream.seen) /\ DriverState(t)
        /\ stream.kind = "mpeg" => MpegCount(t, stream.group, stream.seen)
    BY <1>1 DEF MpegKept, Base
  <2>2. /\ Shaped(s) /\ s.o = t.o /\ s.u.list = t.u.list /\ s.u.num = t.u.num
        /\ s.u.poc = t.u.poc /\ s.u.scte = FALSE
    BY <2>1 DEF s, Now, Order!At, DriverState, Shaped
  <2> HIDE DEF t
  <2>3. /\ Waits(s) = Waits(t) /\ Written(s) = Written(t)
        /\ Base(s, R, stream.group, stream.seen)
    BY <2>1, <2>2, SameFields
  <2>4. MpegCount(t, stream.group, stream.seen) => MpegCount(s, stream.group, stream.seen)
    BY <2>2, <2>3 DEF MpegCount, Counts, UpTo
  <2> QED BY <2>1, <2>2, <2>3, <2>4
<1>8. Base(f, R, g2, before) /\ MpegCount(f, g2, before) /\ Cardinality(before) < MAX_CC_NUM
  <2>1. LET h == IF intra THEN stream.group + 1 ELSE stream.group
        IN Base(f, R, h, before) /\ MpegCount(f, h, before) /\ Cardinality(before) < MAX_CC_NUM
    BY <1>3, <1>4, <1>5, <1>7, MpegBefore DEF f
  <2>2. g2 = IF intra THEN stream.group + 1 ELSE stream.group
    BY <1>3
  <2> QED BY <2>1, <2>2
<1>9. before \in SUBSET Pictures
  BY <1>4
<1> DEFINE r == Order!aml_mpeg_userdata_package(f, x)
<1>10. /\ ~(~Order!InTurn(f.u, x) /\ Order!NullHead(f))
       /\ Base(r, new, g2, now) /\ MpegCount(r, g2, now)
  <2> HIDE DEF before, R
  <2>1. CASE Order!InTurn(f.u, x)
    <3>1. r = Order!Drain([Order!Write(f, <<x>>) EXCEPT !.u.poc = x.poc])
      BY <2>1 DEF Order!aml_mpeg_userdata_package
    <3> HIDE DEF r
    <3>2. Base(r, R \cup {Name(x)}, g2, before \cup {x.poc}) /\ MpegCount(r, g2, before \cup {x.poc})
      BY <1>3, <1>4, <1>5, <1>8, <1>9, <2>1, <3>1, MpegGoesOn
    <3> QED BY <1>5, <2>1, <3>2
  <2>2. CASE ~Order!InTurn(f.u, x)
    <3>1. r = Order!aml_add_cc_data(f, x)
      BY <2>2 DEF Order!aml_mpeg_userdata_package
    <3> HIDE DEF r
    <3>2. /\ Base(r, R \cup {Name(x)}, g2, before \cup {x.poc})
          /\ MpegCount(r, g2, before \cup {x.poc}) /\ ~Order!NullHead(f)
      BY <1>3, <1>4, <1>5, <1>8, <1>9, <2>2, <3>1, MpegWaits
    <3> QED BY <1>5, <3>2
  <2> QED BY <2>1, <2>2
<1>11. ud' = r.u /\ out' = r.o /\ crashed' = crashed
  BY <1>2, <1>10 DEF Order!Becomes
<1> HIDE DEF r
<1>12. Base(Order!At(r.u, r.o), new, g2, now) /\ MpegCount(Order!At(r.u, r.o), g2, now)
  <2>1. DriverState(r)
    BY <1>10 DEF Base
  <2> QED BY <1>10, <2>1, CountFields
<1>13. Streamed'
  <2>1. now \in SUBSET Pictures
    BY <1>9
  <2> QED BY <1>1, <1>2, <1>3, <1>4, <1>11, <2>1 DEF Streamed, g2
<1>14. Now' = Order!At(r.u, r.o)
  BY <1>11 DEF Now, Order!At
<1>15. MpegKept'
  BY <1>3, <1>6, <1>12, <1>14 DEF MpegKept, g2
<1>16. (stream.vfmt)' = "mpeg"
  BY <1>1, <1>3
<1> QED BY <1>13, <1>15, <1>16 DEF OrderKept

LEMMA SctePicture ==
  ASSUME OrderKept, NEW intra \in BOOLEAN, NEW poc \in Pictures,
         Order!aml_process_scte_userdata(intra, poc)
  PROVE  OrderKept'
<1> DEFINE g2 == stream'.group  x == Order!Packet("scte", intra, g2, poc)
           s == Now
           f == Order!FlushAtIntra(s, x)
           before == IF intra THEN {} ELSE stream.seen
           R == stream.read
           now == before \cup {poc}  new == R \cup {Name(x)}
<1>1. Streamed /\ stream.vfmt = "mpeg" /\ MpegKept
  BY DEF OrderKept, Order!aml_process_scte_userdata
<1>2. Order!Decoded("scte", intra, poc) /\ clock' = clock
      /\ IF ~ud.scte THEN UNCHANGED <<ud, out, crashed>>
         ELSE IF Order!NullHead(f) THEN crashed' = TRUE /\ UNCHANGED <<ud, out>>
         ELSE Order!Becomes(Order!aml_add_cc_data(f, x)) /\ UNCHANGED crashed
  BY DEF Order!aml_process_scte_userdata, Now
<1> HIDE DEF f, s, x
<1>3. /\ DOMAIN stream' = DOMAIN stream /\ stream'.vfmt = stream.vfmt
      /\ stream'.kind = "scte" /\ stream'.seen = now
      /\ stream'.read = R \cup Order!Wanted("scte", g2, poc)
      /\ intra => g2 = stream.group + 1
      /\ ~intra => /\ g2 = stream.group /\ stream.kind = "scte"
                   /\ Cardinality(stream.seen) < MAX_CC_NUM
      /\ poc \notin before /\ \A q \in before : poc >= q - Back
  <2>1. Taken("scte", intra, poc, before)
    BY <1>1, <1>2, DecodedIs
  <2> HIDE DEF before
  <2> QED BY <2>1 DEF Taken
<1> HIDE DEF g2
<1>4. g2 \in Nat /\ stream.group \in Nat /\ stream.seen \in SUBSET Pictures
  BY <1>1, <1>3 DEF Streamed
<1>5. /\ x \in Captions /\ x.kind = "scte" /\ x.group = g2 /\ x.poc = poc
      /\ Name(x) = <<g2, poc>> /\ x.intra = intra
  <2>1. x.intra = intra
    BY DEF x, Order!Packet
  <2> QED BY <1>4, <2>1, PacketIs DEF x
<1>6. /\ Base(s, R, stream.group, stream.seen) /\ DriverState(s) /\ s.u = ud
      /\ stream.kind = "scte" => IF ud.scte THEN ScteCount(s, stream.group, stream.seen)
                                 ELSE Missed(s, stream.group)
  BY <1>1 DEF MpegKept, Base, s, Now, Order!At
<1>7. before \in SUBSET Pictures
  BY <1>4
<1>8. (stream.vfmt)' = "mpeg"
  BY <1>1, <1>3
<1>9. now \in SUBSET Pictures
  BY <1>7
<1>10. CASE ~ud.scte
  <2>1. ud' = ud /\ out' = out /\ crashed' = crashed
    BY <1>2, <1>10
  <2>2. stream'.read = R
    BY <1>3, <1>10 DEF Order!Wanted
  <2>3. Base(s, R, g2, now) /\ Missed(s, g2)
    <3>1. \A y \in All(s) : y.group < g2 \/ (y.group = g2 /\ y.poc \in now)
      <4> TAKE y \in All(s)
      <4>1. y.group \in Nat /\ (y.group < stream.group \/ (y.group = stream.group /\ y.poc \in stream.seen))
        BY <1>6, AllCaptions DEF Base, Reads
      <4> QED BY <1>3, <1>4, <4>1
    <3>2. \A y \in All(s) : y.group < g2
      <4> TAKE y \in All(s)
      <4>1. y.group \in Nat /\ (y.group < stream.group \/ (y.group = stream.group /\ y.poc \in stream.seen))
        BY <1>6, AllCaptions DEF Base, Reads
      <4>2. ~intra => y.group < stream.group
        BY <1>3, <1>6, <1>10 DEF Missed
      <4> QED BY <1>3, <1>4, <4>1, <4>2
    <3> QED BY <1>6, <3>1, <3>2 DEF Base, Reads, Missed
  <2>4. Streamed'
    BY <1>1, <1>2, <1>3, <1>4, <1>9, <2>1 DEF Streamed, g2
  <2>5. Now' = s
    BY <2>1 DEF Now, s
  <2>6. MpegKept'
    BY <1>3, <1>10, <2>1, <2>2, <2>3, <2>5 DEF MpegKept, g2
  <2> QED BY <1>8, <2>4, <2>6 DEF OrderKept
<1>11. CASE ud.scte
  <2> HIDE DEF before
  <2>1. stream'.read = new
    BY <1>3, <1>5, <1>11 DEF Order!Wanted
  <2>2. /\ Base(f, R, g2, before) /\ ScteCount(f, g2, before) /\ Cardinality(before) < MAX_CC_NUM
        /\ f.u.scte = ud.scte
    <3>1. CASE intra
      <4> DEFINE r == Order!aml_flush_cc_data(s)
      <4>1. /\ Base(r, R, stream.group + 1, {}) /\ Waits(r) = {} /\ UpTo(r, stream.group + 1, -1)
            /\ Counts(r, {}) /\ Cardinality({}) < MAX_CC_NUM /\ r.u.scte = s.u.scte
        BY <1>4, <1>6, FlushPlain
      <4>2. f = r
        BY <1>5, <3>1 DEF Order!FlushAtIntra, f
      <4> HIDE DEF r
      <4>3. ScteCount(r, stream.group + 1, {})
        BY <4>1 DEF ScteCount
      <4>4. before = {} /\ g2 = stream.group + 1
        BY <1>3, <3>1 DEF before
      <4> QED BY <1>6, <4>1, <4>2, <4>3, <4>4
    <3>2. CASE ~intra
      <4>1. f = s /\ before = stream.seen
        BY <1>5, <3>2 DEF Order!FlushAtIntra, f, before
      <4> QED BY <1>3, <1>6, <1>11, <3>2, <4>1
    <3> QED BY <3>1, <3>2
  <2> DEFINE r == Order!aml_add_cc_data(f, x)
  <2>3. ~Order!NullHead(f) /\ Base(r, new, g2, now) /\ ScteCount(r, g2, now) /\ r.u.scte = ud.scte
    <3>1. LET q == Order!aml_add_cc_data(f, x)
          IN /\ ~Order!NullHead(f)
             /\ Base(q, R \cup {Name(x)}, g2, before \cup {x.poc})
             /\ ScteCount(q, g2, before \cup {x.poc}) /\ q.u.scte = f.u.scte
      <4>1. x.poc \notin before /\ \A q \in before : x.poc >= q - Back
        BY <1>3, <1>5
      <4>2. x \in Captions /\ x.kind = "scte" /\ x.group = g2
        BY <1>5
      <4> HIDE DEF r, R
      <4> QED BY <1>4, <1>7, <2>2, <4>1, <4>2, ScteWaits
    <3> QED BY <1>5, <2>2, <3>1
  <2>4. ud' = r.u /\ out' = r.o /\ crashed' = crashed
    BY <1>2, <1>11, <2>3 DEF Order!Becomes
  <2> HIDE DEF r
  <2>5. Base(Order!At(r.u, r.o), new, g2, now) /\ ScteCount(Order!At(r.u, r.o), g2, now)
    <3>1. DriverState(r)
      BY <2>3 DEF Base
    <3> QED BY <2>3, <3>1, CountFields
  <2>6. Streamed'
    BY <1>1, <1>2, <1>3, <1>4, <1>9, <2>4 DEF Streamed, g2
  <2>7. Now' = Order!At(r.u, r.o)
    BY <2>4 DEF Now, Order!At
  <2>8. ud'.scte
    BY <1>11, <2>3, <2>4
  <2>9. MpegKept'
    BY <1>3, <2>1, <2>5, <2>7, <2>8 DEF MpegKept, g2
  <2> QED BY <1>8, <2>6, <2>9 DEF OrderKept
<1> QED BY <1>10, <1>11

LEMMA H264Picture ==
  ASSUME OrderKept, NEW intra \in BOOLEAN, NEW poc \in Pictures,
         Order!aml_process_h264_userdata(intra, poc)
  PROVE  OrderKept'
<1> DEFINE g2 == stream'.group  x == Order!Packet("h264", intra, g2, poc)
           f == IF poc = 0 THEN Order!aml_flush_cc_data(Now) ELSE Now
           before == IF intra THEN {} ELSE stream.seen
           R == stream.read
           now == before \cup {poc}  new == R \cup {Name(x)}
           r == Order!aml_h264_userdata_package(f, x)
<1>1. Streamed /\ stream.vfmt = "h264" /\ H264Kept
  BY DEF OrderKept, Order!aml_process_h264_userdata
<1>2. Order!Decoded("h264", intra, poc) /\ clock' = clock /\ (poc = 0 => intra)
      /\ IF Order!NullHead(f)
         THEN crashed' = TRUE /\ UNCHANGED <<ud, out>>
         ELSE Order!Becomes(r) /\ UNCHANGED crashed
  BY DEF Order!aml_process_h264_userdata, Now
<1> HIDE DEF r, f, x
<1>3. /\ DOMAIN stream' = DOMAIN stream /\ stream'.vfmt = stream.vfmt
      /\ stream'.kind = "h264" /\ stream'.seen = now
      /\ stream'.read = R \cup Order!Wanted("h264", g2, poc)
      /\ intra => g2 = stream.group + 1
      /\ ~intra => g2 = stream.group
      /\ poc \notin before /\ \A q \in before : poc >= q - Back
      /\ Order!Pts(g2, poc) >= clock
  <2>1. Taken("h264", intra, poc, before)
    BY <1>1, <1>2, DecodedIs
  <2> HIDE DEF before
  <2> QED BY <2>1 DEF Taken
<1> HIDE DEF g2
<1>4. g2 \in Nat /\ stream.group \in Nat /\ stream.seen \in SUBSET Pictures /\ clock \in Nat
  BY <1>1, <1>3 DEF Streamed
<1>5. /\ x \in Captions /\ x.kind = "h264" /\ x.group = g2 /\ x.poc = poc
      /\ Name(x) = <<g2, poc>> /\ x.pts = Order!Pts(g2, poc)
  <2>1. "h264" # "scte"
    OBVIOUS
  <2> QED BY <1>4, <2>1, PacketIs DEF x
<1>6. stream'.read = new
  BY <1>3, <1>5 DEF Order!Wanted
<1>7. now \in SUBSET Pictures
  BY <1>4
<1>8. Comes(x, stream.group, stream.seen, g2, now)
  <2>1. CASE intra
    BY <1>3, <1>5, <2>1 DEF Comes
  <2>2. CASE ~intra
    BY <1>3, <1>5, <2>2 DEF Comes
  <2> QED BY <2>1, <2>2
<1>9. x.poc = 0 => g2 = stream.group + 1
  BY <1>2, <1>3, <1>5
<1>10. Holds(Now, R, stream.group, stream.seen, R) /\ x.pts >= clock
  BY <1>1, <1>3, <1>5 DEF H264Kept
<1> HIDE DEF now, R
<1>11. ~Order!NullHead(f) /\ Holds(r, R \cup {Name(x)}, g2, now, R \cup {Name(x)})
  <2>1. /\ ~Order!NullHead(Flushed(Now, x))
        /\ Holds(Order!aml_h264_userdata_package(Flushed(Now, x), x),
                 R \cup {Name(x)}, g2, now, R \cup {Name(x)})
    BY <1>4, <1>5, <1>8, <1>9, <1>10, PictureHolds
  <2>2. f = Flushed(Now, x)
    BY <1>5 DEF f, Flushed
  <2> QED BY <2>1, <2>2 DEF r
<1>12. ud' = r.u /\ out' = r.o /\ crashed' = crashed
  BY <1>2, <1>11 DEF Order!Becomes
<1> DEFINE t == Order!At(r.u, r.o)
<1>13. Holds(t, new, g2, now, new)
  BY <1>11, HoldsFields
<1>14. Now' = t
  BY <1>12 DEF Now, Order!At
<1> HIDE DEF t, new
<1>15. H264Kept'
  <2>1. /\ DriverState(t) /\ InLine(t, new) /\ Named(Line(t), new) /\ Reads(t, g2, now)
        /\ OneKind(t) /\ Counted(t) /\ Past(t, g2, now, new) /\ Levelled(t, new) /\ Own(t, g2, new)
    BY <1>13 DEF Holds, Orderly
  <2>2. Past(Now, stream.group, stream.seen, stream.read)'
    BY <1>2, <1>3, <1>6, <1>14, <2>1 DEF Past, Behind, g2
  <2>3. /\ DriverState(Now)' /\ InLine(Now, stream.read)' /\ Named(Line(Now), stream.read)'
        /\ Reads(Now, stream.group, stream.seen)' /\ OneKind(Now)' /\ Counted(Now)'
        /\ Levelled(Now, stream.read)' /\ Own(Now, stream.group, stream.read)'
    BY <1>3, <1>6, <1>14, <2>1 DEF g2
  <2> QED BY <2>2, <2>3 DEF H264Kept, Holds, Orderly
<1>16. Streamed'
  BY <1>1, <1>2, <1>3, <1>4, <1>7, <1>12 DEF Streamed, g2
<1>17. (stream.vfmt)' = "h264"
  BY <1>1, <1>3
<1> QED BY <1>15, <1>16, <1>17 DEF OrderKept

LEMMA InitOrder == Order!Init => OrderKept
<1> SUFFICES ASSUME Order!Init PROVE OrderKept
  OBVIOUS
<1>1. /\ ud = [list |-> << >>, num |-> 0, poc |-> -1, scte |-> TRUE] /\ out = << >>
      /\ stream \in [vfmt : {"mpeg", "h264"}, kind : {"none"}, group : {0}, seen : {{}},
                     read : {{}}]
      /\ clock = 0 /\ crashed = FALSE
  BY DEF Order!Init
<1>2. /\ stream.kind = "none" /\ stream.group = 0 /\ stream.seen = {} /\ stream.read = {}
      /\ stream.vfmt \in {"mpeg", "h264"}
      /\ DOMAIN stream = {"vfmt", "kind", "group", "seen", "read"}
  BY <1>1
<1>3. Streamed
  BY <1>1, <1>2 DEF Streamed
<1> DEFINE s == Now
<1>4. /\ Shaped(s) /\ s.u.list = << >> /\ s.o = << >> /\ s.u.num = 0
  BY <1>1 DEF Shaped, Now, Order!At
<1> HIDE DEF s
<1>5. /\ DriverState(s) /\ Line(s) = << >> /\ Len(Line(s)) = 0 /\ Len(s.u.list) = 0 /\ Len(s.o) = 0
  BY <1>4 DEF DriverState, Line
<1>6. Waits(s) = {} /\ Written(s) = {} /\ All(s) = {}
  <2>1. \A i : i \notin 1 .. 0
    OBVIOUS
  <2> QED BY <1>5, <2>1 DEF Waits, Written, All
<1>7. InLine(s, {})
  <2>1. \A i : i \notin 1 .. 0
    OBVIOUS
  <2> QED BY <1>5, <2>1 DEF InLine, Ascends
<1>8. Named(Line(s), {})
  <2>1. IsFiniteSet({}) /\ Cardinality({}) = 0
    BY FS_EmptySet
  <2>2. \A i : i \notin 1 .. 0
    OBVIOUS
  <2> QED BY <1>5, <2>1, <2>2 DEF Named
<1>9. Base(s, {}, 0, {})
  BY <1>5, <1>6, <1>7, <1>8 DEF Base, Reads, NotH264
<1>10. Holds(s, {}, 0, {}, {})
  <2>1. Counted(s)
    BY <1>4, <1>5, PictureNumbers DEF Counted
  <2>2. Orderly(s, 0, {}, {})
    BY <1>6, <2>1 DEF Orderly, Reads, OneKind, Past, Levelled, Own
  <2> QED BY <1>5, <1>7, <1>8, <2>2 DEF Holds
<1>11. H264Kept /\ MpegKept
  <2>1. stream.kind # "mpeg" /\ stream.kind # "scte"
    BY <1>2
  <2> QED BY <1>2, <1>9, <1>10, <2>1 DEF H264Kept, MpegKept, s
<1> QED BY <1>3, <1>11 DEF OrderKept

LEMMA ClockGoesOn ==
  ASSUME OrderKept, Order!VideoPlays
  PROVE  OrderKept'
<1>1. /\ stream.vfmt = "h264" /\ clock' = clock + 1 /\ UNCHANGED <<ud, out, stream, crashed>>
      /\ clock \in Nat
  BY DEF Order!VideoPlays, OrderKept, Streamed
<1>2. Holds(Now, stream.read, stream.group, stream.seen, stream.read)
  BY <1>1 DEF OrderKept, H264Kept
<1>3. Now' = Now
  BY <1>1 DEF Now, Order!At
<1>4. Past(Now, stream.group, stream.seen, stream.read)'
  <2>1. \A y \in Written(Now) : Behind(y, stream.group, stream.seen, stream.read) /\ y.pts \in Nat
    <3> TAKE y \in Written(Now)
    <3>1. y \in All(Now) /\ Past(Now, stream.group, stream.seen, stream.read)
          /\ DriverState(Now) /\ Named(Line(Now), stream.read)
      BY <1>2 DEF Holds, Orderly, All
    <3> QED BY <3>1, AllCaptions DEF Past
  <2>2. \A y : y.pts \in Nat /\ y.pts < clock => y.pts < clock'
    BY <1>1
  <2> QED BY <1>1, <1>3, <2>1, <2>2 DEF Past, Behind
<1>5. H264Kept'
  BY <1>1, <1>2, <1>3, <1>4 DEF H264Kept, Holds, Orderly
<1>6. Streamed'
  BY <1>1 DEF OrderKept, Streamed
<1> QED BY <1>1, <1>5, <1>6 DEF OrderKept

LEMMA OrderRests ==
  ASSUME OrderKept, UNCHANGED Order!udvars
  PROVE  OrderKept'
<1>1. ud' = ud /\ out' = out /\ stream' = stream /\ clock' = clock /\ crashed' = crashed
  BY DEF Order!udvars
<1>2. Now' = Now
  BY <1>1 DEF Now, Order!At
<1>3. Streamed'
  BY <1>1 DEF OrderKept, Streamed
<1>4. (stream.vfmt = "h264" => H264Kept)'
  <2> SUFFICES ASSUME stream.vfmt = "h264" PROVE H264Kept'
    BY <1>1
  <2>1. Holds(Now, stream.read, stream.group, stream.seen, stream.read)
    BY DEF OrderKept, H264Kept
  <2>2. Past(Now, stream.group, stream.seen, stream.read)'
    BY <1>1, <1>2, <2>1 DEF Holds, Orderly, Past, Behind
  <2> QED BY <1>1, <1>2, <2>1, <2>2 DEF H264Kept, Holds, Orderly
<1>5. (stream.vfmt = "mpeg" => MpegKept)'
  BY <1>1, <1>2 DEF OrderKept, MpegKept
<1> QED BY <1>3, <1>4, <1>5 DEF OrderKept

LEMMA NextOrder == OrderKept /\ [Order!Next]_(Order!udvars) => OrderKept'
<1> SUFFICES ASSUME OrderKept, [Order!Next]_(Order!udvars) PROVE OrderKept'
  OBVIOUS
<1>1. CASE UNCHANGED Order!udvars
  BY <1>1, OrderRests
<1>2. CASE Order!VideoPlays
  BY <1>2, ClockGoesOn
<1>3. ASSUME NEW intra \in BOOLEAN, NEW poc \in Pictures,
             \/ Order!aml_process_mpeg_userdata(intra, poc)
             \/ Order!aml_process_scte_userdata(intra, poc)
             \/ Order!aml_process_h264_userdata(intra, poc)
      PROVE  OrderKept'
  BY <1>3, MpegPicture, SctePicture, H264Picture
<1> QED BY <1>1, <1>2, <1>3 DEF Order!Next

LEMMA ElementsOf ==
  ASSUME NEW a \in Seq(Captions), NEW b \in Seq(Captions)
  PROVE  LET w == a \o b
         IN /\ Len(w) = Len(a) + Len(b) /\ DOMAIN w = 1 .. Len(w)
            /\ \A i \in 1 .. Len(w) : \/ \E j \in 1 .. Len(a) : w[i] = a[j]
                                      \/ \E j \in 1 .. Len(b) : w[i] = b[j]
            /\ \A j \in 1 .. Len(a) : \E i \in 1 .. Len(w) : w[i] = a[j]
            /\ \A j \in 1 .. Len(b) : \E i \in 1 .. Len(w) : w[i] = b[j]
<1> DEFINE w == a \o b
<1>1. w \in Seq(Captions) /\ Chained(w, a, b)
  BY JoinedParts
<1>2. Len(a) \in Nat /\ Len(b) \in Nat
  OBVIOUS
<1> HIDE DEF w
<1>3. /\ Len(w) = Len(a) + Len(b) /\ \A i \in 1 .. Len(a) : w[i] = a[i]
      /\ \A i \in 1 .. Len(b) : w[Len(a) + i] = b[i]
  BY <1>1 DEF Chained
<1>4. DOMAIN w = 1 .. Len(w)
  BY <1>1
<1>5. ASSUME NEW i \in 1 .. Len(w)
      PROVE  (\E j \in 1 .. Len(a) : w[i] = a[j]) \/ (\E j \in 1 .. Len(b) : w[i] = b[j])
  <2>1. CASE i <= Len(a)
    <3>1. i \in 1 .. Len(a)
      BY <1>2, <2>1
    <3> QED BY <1>3, <3>1
  <2>2. CASE i > Len(a)
    <3>1. i - Len(a) \in 1 .. Len(b) /\ i = Len(a) + (i - Len(a))
      BY <1>2, <1>3, <2>2
    <3>2. PICK j \in 1 .. Len(b) : i = Len(a) + j
      BY <3>1
    <3> QED BY <1>3, <3>2
  <2> QED BY <1>2, <2>1, <2>2
<1>6. \A j \in 1 .. Len(a) : j \in 1 .. Len(w)
  BY <1>2, <1>3
<1>7. \A j \in 1 .. Len(b) : Len(a) + j \in 1 .. Len(w)
  BY <1>2, <1>3
<1> QED BY <1>3, <1>4, <1>5, <1>6, <1>7 DEF w

LEMMA KeptIsLine ==
  ASSUME OrderKept
  PROVE  /\ DriverState(Now) /\ InLine(Now, stream.read) /\ Named(Line(Now), stream.read)
<1> DEFINE s == Now  R == stream.read
<1>1. CASE stream.vfmt = "h264"
  BY <1>1 DEF OrderKept, H264Kept, Holds
<1>2. CASE stream.vfmt = "mpeg"
  <2>1. Base(s, R, stream.group, stream.seen)
    BY <1>2 DEF OrderKept, MpegKept
  <2> HIDE DEF s, R
  <2>2. DriverState(s) /\ InLine(s, {}) /\ Named(Line(s), R) /\ NotH264(s)
    BY <2>1 DEF Base
  <2>3. InLine(s, R)
    <3> DEFINE l == Line(s)
    <3>1. ASSUME NEW i \in 1 .. Len(l), NEW j \in 1 .. Len(l), i < j
          PROVE  <<l[i], l[j]>> \in Given(R)
      <4>1. <<l[i], l[j]>> \in Given({})
        BY <2>2, <3>1 DEF InLine, Ascends
      <4>2. l[i].kind # "h264"
        BY <2>2, LineOf DEF NotH264, All
      <4> HIDE DEF l
      <4> QED BY <4>1, <4>2 DEF Given, Exempt
    <3> QED BY <2>2, <3>1 DEF InLine, Ascends
  <2> QED BY <2>2, <2>3 DEF s, R
<1> QED BY <1>1, <1>2 DEF OrderKept, Streamed

LEMMA KeptIsInOrder == OrderKept => Order!CaptionsInOrder
<1> SUFFICES ASSUME OrderKept PROVE Order!CaptionsInOrder
  OBVIOUS
<1> DEFINE R == stream.read  b == ud.list
<1>1. /\ DriverState(Now) /\ InLine(Now, R) /\ Named(Line(Now), R)
  BY KeptIsLine
<1>2. out \in Seq(Captions) /\ b \in Seq(Captions) /\ Line(Now) = out \o b
  BY <1>1 DEF DriverState, Now, Order!At, Line
<1>3. All(Now) = {b[i] : i \in 1 .. Len(b)} \cup {out[i] : i \in 1 .. Len(out)}
  BY DEF All, Waits, Written, Now, Order!At
<1> HIDE DEF b, R
<1>4. Order!InShowingOrder
  <2> SUFFICES ASSUME NEW i \in DOMAIN out, NEW j \in DOMAIN out, i < j
               PROVE  \/ out[i].group < out[j].group
                      \/ /\ out[i].group = out[j].group
                         /\ out[i].poc < out[j].poc \/ Order!Late(out[i])
    BY DEF Order!InShowingOrder
  <2> DEFINE l == Line(Now)
  <2>1. Chained(l, out, b) /\ Len(out) \in Nat /\ Len(b) \in Nat /\ DOMAIN out = 1 .. Len(out)
    BY <1>2, JoinedParts
  <2>2. Ascends(l, Given(R))
    BY <1>1 DEF InLine
  <2> HIDE DEF l
  <2>3. i \in 1 .. Len(l) /\ j \in 1 .. Len(l) /\ l[i] = out[i] /\ l[j] = out[j]
    <3>1. Len(l) = Len(out) + Len(b) /\ \A k \in 1 .. Len(out) : l[k] = out[k]
      BY <2>1 DEF Chained
    <3> QED BY <2>1, <3>1
  <2>4. <<out[i], out[j]>> \in Given(R)
    BY <2>2, <2>3 DEF Ascends
  <2> QED BY <2>4 DEF Given, Precedes, Exempt, Order!Late, R
<1>5. Order!NothingLost
  <2> DEFINE w == b \o out
  <2>1. /\ Len(w) = Len(b) + Len(out) /\ DOMAIN w = 1 .. Len(w)
        /\ \A i \in 1 .. Len(w) : \/ \E j \in 1 .. Len(b) : w[i] = b[j]
                                  \/ \E j \in 1 .. Len(out) : w[i] = out[j]
        /\ \A j \in 1 .. Len(b) : \E i \in 1 .. Len(w) : w[i] = b[j]
        /\ \A j \in 1 .. Len(out) : \E i \in 1 .. Len(w) : w[i] = out[j]
    BY <1>2, ElementsOf
  <2>2. Len(w) = Cardinality(R)
    <3>1. Chained(Line(Now), out, b) /\ Len(out) \in Nat /\ Len(b) \in Nat
      BY <1>2, JoinedParts
    <3>2. Len(Line(Now)) = Len(out) + Len(b) /\ Len(Line(Now)) = Cardinality(R)
      BY <1>1, <3>1 DEF Chained, Named
    <3> HIDE DEF w
    <3>3. Len(w) = Len(b) + Len(out)
      BY <2>1, Zenon
    <3>4. \A m, n \in Nat : m + n = n + m
      OBVIOUS
    <3>5. Len(out) \in Nat /\ Len(b) \in Nat
      BY <3>1
    <3>6. Len(b) + Len(out) = Len(out) + Len(b)
      BY <3>4, <3>5
    <3> QED BY <3>2, <3>3, <3>6, Zenon
  <2> HIDE DEF w
  <2>3. \A i \in 1 .. Len(w) : Name(w[i]) \in R
    <3> TAKE i \in 1 .. Len(w)
    <3>1. w[i] \in All(Now)
      BY <1>3, <2>1
    <3> QED BY <1>1, <3>1, AllCaptions
  <2>4. \A k \in R : \E i \in 1 .. Len(w) : Name(w[i]) = k
    <3> TAKE k \in R
    <3>1. PICK y \in All(Now) : Name(y) = k
      BY <1>1, NameThere
    <3>2. \E i \in 1 .. Len(w) : w[i] = y
      BY <1>3, <2>1, <3>1
    <3> QED BY <3>1, <3>2
  <2>5. {<<w[i].group, w[i].poc>> : i \in DOMAIN w} = R
    <3>1. {<<w[i].group, w[i].poc>> : i \in DOMAIN w} = {Name(w[i]) : i \in 1 .. Len(w)}
      BY <2>1, Zenon DEF Name
    <3>2. {Name(w[i]) : i \in 1 .. Len(w)} \subseteq R
      BY <2>3, Zenon
    <3>3. R \subseteq {Name(w[i]) : i \in 1 .. Len(w)}
      BY <2>4, Zenon
    <3> QED BY <3>1, <3>2, <3>3, Zenon
  <2>6. ~crashed
    BY DEF OrderKept, Streamed
  <2>7. Order!Cardinality(R) = Cardinality(R)
    BY SameNumber
  <2> QED BY <2>2, <2>5, <2>6, <2>7 DEF Order!NothingLost, w, b, R
<1> QED BY <1>4, <1>5 DEF Order!CaptionsInOrder

\* The captions that come with the video are given on once, in the order the pictures are
\* shown (io/Userdata.c).
THEOREM CaptionsInOrderAlways == Order!Spec => []Order!CaptionsInOrder
BY InitOrder, NextOrder, KeptIsInOrder, PTL DEF Order!Spec

-----------------------------------------------------------------------------
(* The parts beside each other.                                            *)

LEMMA PartsGoOn ==
  SourcesSpec => /\ Spec /\ Dmx!Spec /\ Order!Spec
                 /\ Source!Init /\ [][Source!Next]_(Source!dsvars)
                 /\ Event!Init /\ [][Event!Next]_(Event!aevars)
<1> DEFINE all == <<part, vars, order, demux, reads, calls>>
<1>1. SourcesInit => Init /\ Dmx!Init /\ Order!Init /\ Source!Init /\ Event!Init
  BY DEF SourcesInit
<1>2. [SourcesNext]_all => [Next]_vars
  BY DEF SourcesNext
<1>3. [SourcesNext]_all => [Dmx!Next]_(Dmx!dmxvars)
  BY DEF SourcesNext, demux, Dmx!dmxvars
<1>4. [SourcesNext]_all => [Source!Next]_(Source!dsvars)
  BY DEF SourcesNext, reads, Source!dsvars, Source!state, Source!segment, Source!threads
<1>5. [SourcesNext]_all => [Event!Next]_(Event!aevars)
  BY DEF SourcesNext, calls, Event!aevars
<1>6. [SourcesNext]_all => [Order!Next]_(Order!udvars)
  BY DEF SourcesNext, order, Order!udvars
<1> QED BY <1>1, <1>2, <1>3, <1>4, <1>5, <1>6, PTL DEF SourcesSpec, Spec, Dmx!Spec, Order!Spec

\* Whatever a thread of a device uses is there: ring, monitor, source, listener, subscriber
\* (UserdataDriver.c, UserDataAfd.cpp, DemuxSource.cpp, DeviceSource.cpp, AmlogicEvent.c).
THEOREM UsedWhileThereAlways ==
  ASSUME ClosesBeside = FALSE, MovesWhileOpen = FALSE
  PROVE  SourcesSpec => []UsedWhileThere
<1>1. RingOutlivesUse /\ CallbackHasMonitor /\ Dmx!CallbackHasTarget /\ Source!ListenerIsThere
        /\ Event!CalledWhileSubscribed => UsedWhileThere
  BY DEF UsedWhileThere
<1>2. /\ Spec => []RingOutlivesUse
      /\ Spec => []CallbackHasMonitor
      /\ Dmx!Spec => []Dmx!CallbackHasTarget
  BY RingOutlivesUseAlways, CallbackHasMonitorAlways, CallbackHasTargetAlways
<1> QED BY <1>1, <1>2, ListenerIsThereAlways, EventGivenOnceAlways, PartsGoOn, PTL

\* What comes from a device is given on once and in order: captions, bytes, events
\* (io/Userdata.c, DeviceSource.cpp, AmlogicEvent.c).
THEOREM GivenOnceInOrderAlways == SourcesSpec => []GivenOnceInOrder
<1>1. Order!CaptionsInOrder /\ Source!BytesInOrder /\ Event!EventGivenOnce => GivenOnceInOrder
  BY DEF GivenOnceInOrder
<1> QED BY <1>1, BytesInOrderAlways, CaptionsInOrderAlways, EventGivenOnceAlways, PartsGoOn, PTL
=============================================================================
