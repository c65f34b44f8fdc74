--------------------------- MODULE SubtitleProofs ---------------------------
(***************************************************************************)
(* Subtitle for any types, any parameters and any number of messages and   *)
(* requests: types, never two parser threads at a time, the presentation   *)
(* follows the parser, and a session that is gone leaves nothing behind.   *)
(***************************************************************************)
EXTENDS Subtitle, SequenceTheorems, TLAPS

\* Every chunk queued came with a message.
SegmentsReceived == mSegments <= messages

\* Only the last parser's thread may still run; the run thread only joins a parser
\* there is, and presents the last one.
Threads ==
    /\ \A k \in 1..Len(parsers) : k # Len(parsers) => parsers[k].at = "ended"
    /\ run = "joining" => HasParser
    /\ presented # 0 => presented = Len(parsers)
    /\ run \in {"waiting", "joining"} /\ HasParser => presented = Len(parsers)

\* The stages of stopSubtitle, each with those that come after it.
FromJoinParser == {"joinParser", "gone"}
FromStopSource == FromJoinParser \cup {"stopSource", "notifyExit", "stopParser"}
FromJoinRun == FromStopSource \cup {"joinRun"}
FromUnregister == FromJoinRun \cup {"unregister"}

\* What the service thread has taken down by each stage stays down.
Life ==
    /\ run = "none" <=> service = "closed"
    /\ run = "none" => ~HasParser
    /\ service \in FromUnregister => ~listener
    /\ service \in FromJoinRun => ~client /\ receiver = "idle"
    /\ service \in FromStopSource => run = "ended"
    /\ service = "gone" => Joined /\ presented = 0

\* The inductive invariant.
Inv == TypeOK /\ SegmentsReceived /\ Threads /\ Life

-----------------------------------------------------------------------------
(* What the steps do to the parsers.                                       *)

States == {"parsing", "reading", "asleep", "ended"}

\* The same parsers, those that have ended included.
Kept == /\ parsers' \in Seq(Parser)
        /\ Len(parsers') = Len(parsers)
        /\ \A k \in 1..Len(parsers) : parsers[k].at = "ended" => parsers'[k].at = "ended"

\* One more, presented.
Added == /\ parsers' \in Seq(Parser)
         /\ Len(parsers') = Len(parsers) + 1
         /\ \A k \in 1..Len(parsers) : parsers'[k] = parsers[k]
         /\ presented' = Len(parsers')

LEMMA HasParserLen ==
  ASSUME NEW ps \in Seq(Parser)
  PROVE  /\ Len(ps) \in Nat /\ DOMAIN ps = 1..Len(ps)
         /\ ps # <<>> <=> Len(ps) >= 1
         /\ \A k \in 1..Len(ps) : ps[k] \in Parser
BY LenProperties, EmptySeq, ElementOfSeq

LEMMA UnchangedKept ==
  ASSUME parsers \in Seq(Parser), UNCHANGED parsers
  PROVE  Kept
BY DEF Kept

LEMMA AtKept ==
  ASSUME parsers \in Seq(Parser), NEW k \in 1..Len(parsers), NEW from \in States, NEW to \in States,
         from # "ended", At(k, from, to)
  PROVE  Kept
<1> DEFINE p == [parsers[k] EXCEPT !.at = to]
<1>1. parsers[k] \in Parser
  BY ElementOfSeq
<1>2. p \in Parser /\ p.at = to
  BY <1>1 DEF Parser, States
<1>3. parsers' = [parsers EXCEPT ![k] = p]
  BY DEF At
<1> HIDE DEF p
<1>4. /\ parsers' \in Seq(Parser)
      /\ Len(parsers') = Len(parsers)
      /\ \A j \in 1..Len(parsers) : parsers'[j] = IF j = k THEN p ELSE parsers[j]
  BY <1>2, <1>3, ExceptSeq
<1> QED
  BY <1>4 DEF At, Kept

LEMMA AskToStopKept ==
  ASSUME parsers \in Seq(Parser), HasParser, AskToStop
  PROVE  Kept
<1> DEFINE n == Len(parsers)
           p == [parsers[n] EXCEPT !.stop = TRUE]
<1>1. n \in 1..Len(parsers) /\ parsers[n] \in Parser
  BY HasParserLen DEF HasParser
<1>2. p \in Parser /\ p.at = parsers[n].at
  BY <1>1 DEF Parser
<1>3. parsers' = [parsers EXCEPT ![n] = p]
  BY DEF AskToStop
<1> HIDE DEF p, n
<1>4. /\ parsers' \in Seq(Parser)
      /\ Len(parsers') = Len(parsers)
      /\ \A j \in 1..Len(parsers) : parsers'[j] = IF j = n THEN p ELSE parsers[j]
  BY <1>1, <1>2, <1>3, ExceptSeq
<1> QED
  BY <1>2, <1>4 DEF Kept

LEMMA WokenKept ==
  ASSUME parsers \in Seq(Parser), parsers' = Woken
  PROVE  Kept
<1>1. /\ Len(parsers) \in Nat /\ DOMAIN parsers = 1..Len(parsers)
      /\ \A k \in 1..Len(parsers) : parsers[k] \in Parser
  BY HasParserLen
<1>2. \A k \in 1..Len(parsers) : [parsers[k] EXCEPT !.at = "reading"] \in Parser
  BY <1>1 DEF Parser
<1>3. Woken \in [1..Len(parsers) -> Parser]
  BY <1>1, <1>2 DEF Woken
<1>4. \A k \in 1..Len(parsers) : parsers[k].at = "ended" => Woken[k] = parsers[k]
  BY <1>1 DEF Woken
<1> HIDE DEF Woken
<1>5. Woken \in Seq(Parser) /\ Len(Woken) = Len(parsers)
  BY <1>1, <1>3
<1> QED
  BY <1>4, <1>5 DEF Kept

LEMMA StartAdded ==
  ASSUME parsers \in Seq(Parser), NEW t \in Types \cup {Invalid}, Start(t)
  PROVE  Added
<1>1. Created(t) \in Parser
  BY TypesAssumption DEF Created, Parser
<1> QED
  BY <1>1, AppendProperties, HasParserLen DEF Start, Added

-----------------------------------------------------------------------------
(* Every step keeps the parsers or adds one.                               *)

\* A parser thread's step.
LEMMA ParserThreadKept ==
  ASSUME parsers \in Seq(Parser), NEW k \in DOMAIN parsers, ParserThread(k)
  PROVE  Kept
<1>1. k \in 1..Len(parsers)
  BY HasParserLen
<1>2. PICK from \in States, to \in States : from # "ended" /\ At(k, from, to)
  BY DEF ParserThread, parserEnds, parse, readReturns, pop, popWaits, States
<1> QED
  BY <1>1, <1>2, AtKept

\* A new parser, of whatever type is asked for.
LEMMA NewParserAdded ==
  ASSUME TypeOK, startExternal \/ startNewParser \/ startFirstParser
  PROVE  Added
<1> USE TypesAssumption DEF TypeOK
<1>1. CASE startExternal
  BY <1>1, StartAdded DEF startExternal
<1>2. CASE startNewParser
  <2> DEFINE t == IF ReplacesDefault THEN External ELSE subType
  <2>1. t \in Types \cup {Invalid} /\ Start(t)
    BY <1>2 DEF startNewParser
  <2> QED
    BY <2>1, StartAdded
<1>3. CASE startFirstParser
  BY <1>3, StartAdded DEF startFirstParser
<1> QED
  BY <1>1, <1>2, <1>3

\* What any other step may do.
Elsewhere == \/ runExit \/ stopOldParser \/ updateParameter
             \/ \E k \in DOMAIN parsers : ParserThread(k)
             \/ onData \/ onTotal \/ onType \/ Delivery
             \/ Starting \/ setParameter \/ stopSubtitle \/ Stopping
             \/ UNCHANGED vars

LEMMA ElsewhereKept ==
  ASSUME parsers \in Seq(Parser), Elsewhere
  PROVE  Kept
<1>1. ASSUME NEW k \in DOMAIN parsers, ParserThread(k) PROVE Kept
  BY <1>1, ParserThreadKept
<1>2. CASE stopOldParser
  BY <1>2, AskToStopKept DEF stopOldParser, Tick
<1>3. CASE onData
  BY <1>3, WokenKept, UnchangedKept DEF onData
<1>4. CASE notifyExit
  BY <1>4, WokenKept DEF notifyExit
<1>5. CASE stopParser
  BY <1>5, AskToStopKept, UnchangedKept DEF stopParser
<1>6. CASE UNCHANGED parsers
  BY <1>6, UnchangedKept
<1>7. \/ UNCHANGED parsers \/ stopOldParser \/ onData \/ notifyExit \/ stopParser
      \/ \E k \in DOMAIN parsers : ParserThread(k)
  BY DEF Elsewhere, runExit, updateParameter, onTotal, onType, Delivery, notifyInfoChange,
         onTypeChanged, Starting, startSubtitle, registClient, setParameter, stopSubtitle,
         Stopping, dettachDataSource, unregisterClient, joinRun, stopSource, stopPresent,
         runVars, vars
<1> QED
  BY <1>1, <1>2, <1>3, <1>4, <1>5, <1>6, <1>7

LEMMA StepCases ==
  ASSUME [Next]_vars
  PROVE  startExternal \/ startNewParser \/ startFirstParser \/ Elsewhere
BY DEF Next, RunThread, Elsewhere

-----------------------------------------------------------------------------
(* Types.                                                                  *)

LEMMA TypesInit == Init => TypeOK /\ SegmentsReceived
<1> SUFFICES ASSUME Init PROVE TypeOK /\ SegmentsReceived
  OBVIOUS
<1>1. parsers \in Seq(Parser) /\ presented \in 0..Len(parsers)
  BY EmptySeq DEF Init
<1>2. mSegments \in 0..MaxMessages /\ messages \in 0..MaxMessages /\ params \in Nat
      /\ mIsExtSub \in BOOLEAN
  BY TypesAssumption DEF Init
<1>3. mSegments <= messages
  BY DEF Init
<1> QED
  BY <1>1, <1>2, <1>3 DEF Init, TypeOK, SegmentsReceived, ServiceStates

\* The part of TypeOK about the parsers.
ParsersOK == parsers \in Seq(Parser) /\ presented \in 0..Len(parsers)

LEMMA ParsersOKStep ==
  ASSUME TypeOK, [Next]_vars
  PROVE  ParsersOK'
<1>1. parsers \in Seq(Parser) /\ Len(parsers) \in Nat /\ presented \in 0..Len(parsers)
  BY HasParserLen DEF TypeOK
<1>2. CASE startExternal \/ startNewParser \/ startFirstParser
  BY <1>1, <1>2, NewParserAdded DEF Added, ParsersOK
<1>3. CASE Elsewhere
  <2>1. presented' \in {presented, 0}
    BY <1>3 DEF Elsewhere, runExit, stopOldParser, updateParameter, ParserThread, parserEnds, parse,
           readReturns, pop, popWaits, onData, onTotal, onType, Delivery, notifyInfoChange,
           onTypeChanged, Starting, startSubtitle, registClient, setParameter, stopSubtitle,
           Stopping, dettachDataSource, unregisterClient, joinRun, stopSource, notifyExit,
           stopParser, stopPresent, runVars, vars
  <2> QED
    BY <1>1, <1>3, <2>1, ElsewhereKept DEF Kept, ParsersOK
<1> QED
  BY <1>2, <1>3, StepCases

LEMMA TypesStep ==
  ASSUME TypeOK, SegmentsReceived, [Next]_vars
  PROVE  TypeOK' /\ SegmentsReceived'
<1> DEFINE Goal == TypeOK' /\ SegmentsReceived'
<1>p. ParsersOK'
  BY ParsersOKStep
<1> USE <1>p, TypesAssumption DEF TypeOK, ParsersOK, SegmentsReceived, runVars, requestVars,
        receiverVars, sourceVars, linkVars, sessionVars
<1>1. CASE RunThread
  <2>1. CASE runExit
    BY <2>1 DEF runExit
  <2>2. CASE startExternal
    BY <2>2 DEF startExternal, Tick
  <2>3. CASE stopOldParser
    BY <2>3 DEF stopOldParser
  <2>4. CASE startNewParser
    BY <2>4 DEF startNewParser
  <2>5. CASE startFirstParser
    BY <2>5 DEF startFirstParser, Tick
  <2>6. CASE updateParameter
    BY <2>6 DEF updateParameter
  <2> QED
    BY <1>1, <2>1, <2>2, <2>3, <2>4, <2>5, <2>6 DEF RunThread
<1>2. ASSUME NEW k \in DOMAIN parsers, ParserThread(k) PROVE Goal
  <2>1. CASE pop(k)
    BY <2>1 DEF pop, HasData
  <2>2. CASE parserEnds(k) \/ parse(k) \/ readReturns(k) \/ popWaits(k)
    BY <2>2 DEF parserEnds, parse, readReturns, popWaits
  <2> QED
    BY <1>2, <2>1, <2>2 DEF ParserThread
<1>3. CASE onData
  BY <1>3 DEF onData, Receives
<1>4. CASE onTotal
  BY <1>4 DEF onTotal, Receives
<1>5. CASE onType
  BY <1>5 DEF onType, Receives
<1>6. CASE notifyInfoChange
  BY <1>6 DEF notifyInfoChange
<1>7. CASE onTypeChanged
  BY <1>7 DEF onTypeChanged
<1>8. CASE startSubtitle
  BY <1>8 DEF startSubtitle, Serves, ServiceStates
<1>9. CASE registClient
  BY <1>9 DEF registClient, Requested, Request, Serves, ServiceStates
<1>10. CASE setParameter
  BY <1>10 DEF setParameter, Requested, Request
<1>11. CASE stopSubtitle \/ Stopping
  <2>s. service' \in ServiceStates
    BY <1>11 DEF stopSubtitle, Stopping, dettachDataSource, unregisterClient, joinRun, stopSource,
                 notifyExit, stopParser, stopPresent, Serves, ServiceStates
  <2>1. CASE stopSubtitle
    BY <2>s, <2>1 DEF stopSubtitle
  <2>2. CASE dettachDataSource
    <3>1. listener' \in BOOLEAN
      BY <2>2 DEF dettachDataSource
    <3>2. UNCHANGED <<client, runVars, requestVars, receiverVars, sourceVars, sessionVars>>
      BY <2>2 DEF dettachDataSource
    <3> QED
      BY <2>s, <3>1, <3>2
  <2>3. CASE unregisterClient
    <3>1. client' \in BOOLEAN /\ mExitRequested' \in BOOLEAN
      BY <2>3 DEF unregisterClient
    <3>2. UNCHANGED <<run, listener, requestVars, receiverVars, sourceVars, sessionVars>>
      BY <2>3 DEF unregisterClient
    <3> QED
      BY <2>s, <3>1, <3>2
  <2>4. CASE joinRun
    BY <2>s, <2>4 DEF joinRun
  <2>5. CASE stopSource
    <3>1. mEnabled' \in BOOLEAN /\ mState' \in {"INV", "STARTED", "STOPPED"}
      BY <2>5 DEF stopSource
    <3>2. UNCHANGED <<mSegments, runVars, requestVars, receiverVars, linkVars, sessionVars>>
      BY <2>5 DEF stopSource
    <3> QED
      BY <2>s, <3>1, <3>2
  <2>6. CASE notifyExit
    BY <2>s, <2>6 DEF notifyExit
  <2>7. CASE stopParser
    BY <2>s, <2>7 DEF stopParser
  <2>8. CASE stopPresent
    BY <2>s, <2>8 DEF stopPresent
  <2> QED
    BY <1>11, <2>1, <2>2, <2>3, <2>4, <2>5, <2>6, <2>7, <2>8 DEF Stopping
<1>12. CASE UNCHANGED vars
  BY <1>12 DEF vars
<1> QED
  BY <1>1, <1>2, <1>3, <1>4, <1>5, <1>6, <1>7, <1>8, <1>9, <1>10, <1>11, <1>12
     DEF Next, Delivery, Starting

-----------------------------------------------------------------------------
(* The parser threads, the run thread and the presentation.                *)

LEMMA ThreadsInit == Init => Threads
BY EmptySeq DEF Init, Threads

\* When the last parser has been joined every parser has ended, so one may be added.
LEMMA AddedToJoined ==
  ASSUME TypeOK, Threads, Joined, Added, run' = "waiting"
  PROVE  Threads'
<1>1. Len(parsers) \in Nat /\ (HasParser <=> Len(parsers) >= 1)
  BY HasParserLen DEF TypeOK, HasParser
<1>2. \A k \in 1..Len(parsers) : parsers[k].at = "ended"
  BY <1>1 DEF Threads, Joined, mParser
<1>3. \A k \in 1..Len(parsers') : k # Len(parsers') => parsers'[k].at = "ended"
  BY <1>1, <1>2 DEF Added
<1> QED
  BY <1>3 DEF Added, Threads

LEMMA KeptThreads ==
  ASSUME TypeOK, Threads, Kept,
         presented' = presented \/ (presented' = 0 /\ run' = "ended"),
         run' = run \/ run' = "ended" \/ (run = "waiting" /\ run' = "joining" /\ HasParser)
                    \/ (run = "none" /\ ~HasParser /\ run' = "waiting")
  PROVE  Threads'
<1>1. Len(parsers) \in Nat /\ (HasParser <=> Len(parsers) >= 1)
  BY HasParserLen DEF TypeOK, HasParser
<1>2. HasParser' <=> HasParser
  BY <1>1, HasParserLen DEF Kept, HasParser
<1>3. \A k \in 1..Len(parsers') : k # Len(parsers') => parsers'[k].at = "ended"
  BY DEF Threads, Kept
<1>4. presented' # 0 => presented' = Len(parsers')
  BY DEF Threads, Kept
<1>5. run' = "joining" => HasParser'
  BY <1>2 DEF Threads
<1>6. run' \in {"waiting", "joining"} /\ HasParser' => presented' = Len(parsers')
  BY <1>2 DEF Threads, Kept
<1> QED
  BY <1>3, <1>4, <1>5, <1>6 DEF Threads

LEMMA ThreadsStep ==
  ASSUME TypeOK, Threads, Life, [Next]_vars
  PROVE  Threads'
<1>1. CASE startExternal \/ startNewParser \/ startFirstParser
  <2>1. Joined /\ run' = "waiting"
    BY <1>1 DEF startExternal, startNewParser, startFirstParser, Tick, Joined
  <2> QED
    BY <1>1, <2>1, NewParserAdded, AddedToJoined
<1>2. CASE Elsewhere
  <2>1. Kept
    BY <1>2, ElsewhereKept DEF TypeOK
  <2>2. presented' = presented \/ (presented' = 0 /\ run' = "ended")
    BY <1>2 DEF Elsewhere, runExit, stopOldParser, updateParameter, ParserThread, parserEnds, parse,
           readReturns, pop, popWaits, onData, onTotal, onType, Delivery, notifyInfoChange,
           onTypeChanged, Starting, startSubtitle, registClient, setParameter, stopSubtitle,
           Stopping, dettachDataSource, unregisterClient, joinRun, stopSource, notifyExit,
           stopParser, stopPresent, Life, FromStopSource, FromJoinParser, Serves, runVars, vars
  <2>3. run' = run \/ run' = "ended" \/ (run = "waiting" /\ run' = "joining" /\ HasParser)
                   \/ (run = "none" /\ ~HasParser /\ run' = "waiting")
    BY <1>2 DEF Elsewhere, runExit, stopOldParser, Tick, updateParameter, ParserThread, parserEnds,
           parse, readReturns, pop, popWaits, onData, onTotal, onType, Delivery, notifyInfoChange,
           onTypeChanged, Starting, startSubtitle, registClient, setParameter, stopSubtitle,
           Stopping, dettachDataSource, unregisterClient, joinRun, stopSource, notifyExit,
           stopParser, stopPresent, Life, Serves, runVars, vars
  <2> QED
    BY <2>1, <2>2, <2>3, KeptThreads
<1> QED
  BY <1>1, <1>2, StepCases

-----------------------------------------------------------------------------
(* What the service thread has taken down.                                 *)

LEMMA LifeInit == Init => Life
BY DEF Init, Life, HasParser, FromUnregister, FromJoinRun, FromStopSource, FromJoinParser

\* The parser of a session that is gone stays joined.
LEMMA KeptJoined ==
  ASSUME TypeOK, Joined, Kept
  PROVE  Joined'
<1>1. Len(parsers) \in Nat /\ (HasParser <=> Len(parsers) >= 1)
  BY HasParserLen DEF TypeOK, HasParser
<1>2. HasParser' <=> HasParser
  BY <1>1, HasParserLen DEF Kept, HasParser
<1> QED
  BY <1>1, <1>2 DEF Joined, mParser, Kept

\* A parser is only added while the session runs.
LEMMA AddedLife ==
  ASSUME TypeOK, Life, startExternal \/ startNewParser \/ startFirstParser
  PROVE  Life'
<1>1. run \in {"waiting", "joining"} /\ run' = "waiting"
  BY DEF startExternal, startNewParser, startFirstParser, Tick
<1>2. UNCHANGED <<service, listener, client, receiver>>
  BY DEF startExternal, startNewParser, startFirstParser, receiverVars, linkVars
<1>3. service \notin FromStopSource
  BY <1>1 DEF Life
<1> QED
  BY <1>1, <1>2, <1>3 DEF Life, FromStopSource, FromJoinParser

\* The service thread's steps.
LEMMA ServiceLife ==
  ASSUME TypeOK, Life, Starting \/ setParameter \/ stopSubtitle \/ Stopping
  PROVE  Life'
<1> USE DEF Serves, Life, FromUnregister, FromJoinRun, FromStopSource, FromJoinParser, runVars,
        receiverVars, linkVars
<1>1. Kept
  BY ElsewhereKept DEF Elsewhere, TypeOK
<1>2. HasParser' <=> HasParser
  BY <1>1, HasParserLen DEF TypeOK, Kept, HasParser
<1>3. CASE startSubtitle
  BY <1>2, <1>3 DEF startSubtitle
<1>4. CASE registClient
  BY <1>2, <1>4 DEF registClient
<1>5. CASE setParameter
  BY <1>2, <1>5 DEF setParameter
<1>6. CASE stopSubtitle
  BY <1>2, <1>6 DEF stopSubtitle
<1>7. CASE dettachDataSource
  BY <1>2, <1>7 DEF dettachDataSource
<1>8. CASE unregisterClient
  BY <1>2, <1>8 DEF unregisterClient, receiverLockFree
<1>9. CASE joinRun
  BY <1>2, <1>9 DEF joinRun
<1>10. CASE stopSource
  BY <1>2, <1>10 DEF stopSource
<1>11. CASE notifyExit
  BY <1>2, <1>11 DEF notifyExit
<1>12. CASE stopParser
  BY <1>2, <1>12 DEF stopParser
<1>13. CASE stopPresent
  BY <1>1, <1>2, <1>13, KeptJoined DEF stopPresent
<1> QED
  BY <1>3, <1>4, <1>5, <1>6, <1>7, <1>8, <1>9, <1>10, <1>11, <1>12, <1>13 DEF Starting, Stopping

\* The steps of the other threads.
LEMMA OtherLife ==
  ASSUME TypeOK, Life,
         \/ runExit \/ stopOldParser \/ updateParameter
         \/ \E k \in DOMAIN parsers : ParserThread(k)
         \/ onData \/ onTotal \/ onType \/ Delivery
         \/ UNCHANGED vars
  PROVE  Life'
<1>1. Kept
  BY ElsewhereKept DEF Elsewhere, TypeOK
<1>2. HasParser' <=> HasParser
  BY <1>1, HasParserLen DEF TypeOK, Kept, HasParser
<1>3. UNCHANGED <<service, listener, client, presented>>
  BY DEF runExit, stopOldParser, updateParameter, ParserThread, parserEnds, parse, readReturns,
         pop, popWaits, onData, onTotal, onType, Delivery, notifyInfoChange, onTypeChanged,
         runVars, linkVars, vars
<1>4. receiver' = receiver \/ (client /\ receiver = "idle") \/ receiver # "idle"
  BY DEF runExit, stopOldParser, updateParameter, ParserThread, parserEnds, parse, readReturns,
         pop, popWaits, onData, onTotal, onType, Receives, Delivery, notifyInfoChange,
         onTypeChanged, receiverVars, vars
<1>5. run' = run \/ (run = "waiting" /\ run' \in {"joining", "ended"})
  BY DEF runExit, stopOldParser, Tick, updateParameter, ParserThread, parserEnds, parse,
         readReturns, pop, popWaits, onData, onTotal, onType, Delivery, notifyInfoChange,
         onTypeChanged, runVars, vars
<1>6. service' \in FromJoinRun => ~client' /\ receiver' = "idle"
  BY <1>3, <1>4 DEF Life
<1>7. service' = "gone" => Joined' /\ presented' = 0
  BY <1>1, <1>3, KeptJoined DEF Life
<1>8. service' \in FromStopSource => run' = "ended"
  BY <1>3, <1>5 DEF Life
<1> QED
  BY <1>2, <1>3, <1>5, <1>6, <1>7, <1>8 DEF Life

LEMMA LifeStep ==
  ASSUME TypeOK, Life, [Next]_vars
  PROVE  Life'
BY StepCases, AddedLife, ServiceLife, OtherLife DEF Elsewhere

-----------------------------------------------------------------------------
(* The theorems.                                                           *)

\* The inductive invariant holds in every reachable state.
THEOREM Invariance == Spec => []Inv
<1>1. Init => Inv
  BY TypesInit, ThreadsInit, LifeInit DEF Inv
<1>2. Inv /\ [Next]_vars => Inv'
  BY TypesStep, ThreadsStep, LifeStep DEF Inv
<1> QED
  BY <1>1, <1>2, PTL DEF Spec

\* Every variable keeps its type, whatever the threads do and in whatever order.
THEOREM TypeCorrect == Spec => []TypeOK
<1>1. Inv => TypeOK
  BY DEF Inv
<1> QED
  BY <1>1, Invariance, PTL

\* read() needs no lock: of all the parsers a session starts one after the other, one
\* thread at most is alive (Subtitle::run joins the old one before it makes the next).
THEOREM OneReaderAlways == Spec => []OneReader
<1>1. Inv => OneReader
  <2> SUFFICES ASSUME Inv, NEW j \in DOMAIN parsers, NEW k \in DOMAIN parsers, Alive(j), Alive(k)
               PROVE  j = k
    BY DEF OneReader
  <2>1. j \in 1..Len(parsers) /\ k \in 1..Len(parsers)
    BY HasParserLen DEF Inv, TypeOK
  <2> QED
    BY <2>1 DEF Inv, Threads, Alive
<1> QED
  BY <1>1, Invariance, PTL

\* The presentation takes its items from the parser that runs, never from one that was
\* stopped.
THEOREM PresentsRunningAlways == Spec => []PresentsRunning
<1>1. Inv => PresentsRunning
  BY DEF Inv, Threads, PresentsRunning
<1> QED
  BY <1>1, Invariance, PTL

\* ~Subtitle leaves no thread, no listener and no presentation behind.
THEOREM NothingLeftAlways == Spec => []NothingLeft
<1>1. Inv => NothingLeft
  <2> SUFFICES ASSUME Inv, service = "gone" PROVE NothingLeft
    BY DEF NothingLeft
  <2>1. Joined /\ presented = 0 /\ run = "ended" /\ receiver = "idle" /\ ~listener
    BY DEF Inv, Life, FromUnregister, FromJoinRun, FromStopSource, FromJoinParser
  <2>2. /\ DOMAIN parsers = 1..Len(parsers) /\ Len(parsers) \in Nat
        /\ HasParser <=> Len(parsers) >= 1
    BY HasParserLen DEF Inv, TypeOK, HasParser
  <2>3. \A k \in DOMAIN parsers : ~Alive(k)
    <3> SUFFICES ASSUME NEW k \in 1..Len(parsers) PROVE parsers[k].at = "ended"
      BY <2>2 DEF Alive
    <3>1. CASE k = Len(parsers)
      BY <2>1, <2>2, <3>1 DEF Joined, mParser
    <3>2. CASE k # Len(parsers)
      BY <3>2 DEF Inv, Threads
    <3> QED
      BY <3>1, <3>2
  <2> QED
    BY <2>1, <2>3 DEF NothingLeft
<1> QED
  BY <1>1, Invariance, PTL
=============================================================================
