---------------------------- MODULE AmlogicEvent ----------------------------
(***************************************************************************)
(* utils/AmlogicEvent.c: callbacks that are subscribed to the events of a  *)
(* device and called by whatever thread signals one, under a lock that     *)
(* many readers or one writer may have.  Every subscriber has a callback   *)
(* of its own and calls from one thread; a callback neither subscribes nor *)
(* unsubscribes, which the code forbids.                                   *)
(***************************************************************************)
EXTENDS Naturals, Sequences, SequencesExt

CONSTANTS Subscribers, Signallers, EventTypes

VARIABLES
    events,      \* the list of subscriptions [type, cb], the latest first
    client,      \* of a subscriber: [at, type, on], on the types it was told it has
    signal       \* of a signaller: [at, type, pos, called, due]; called and due are history

aevars == <<events, client, signal>>

Idle == [at |-> "idle", type |-> CHOOSE t \in EventTypes : TRUE, pos |-> 0,
         called |-> <<>>, due |-> {}]
Init ==
    /\ events = <<>>
    /\ client = [s \in Subscribers |->
                    [at |-> "idle", type |-> Idle.type, on |-> {}]]
    /\ signal = [g \in Signallers |-> Idle]

\* pthread_rwlock_wrlock(): nobody reads the list.  No call keeps the lock as a writer.
rwlockFree == \A g \in Signallers : signal[g].at = "idle"
Subscribed(s, t) == \E i \in DOMAIN events : events[i] = [type |-> t, cb |-> s]

(* AmlogicEventSubscribe() looks for the same subscription, and adds one      *)
(* under the lock it takes anew.                                              *)
SubscribedAlready(s, t) ==
    /\ client[s].at = "idle" /\ Subscribed(s, t)
    /\ client' = [client EXCEPT ![s].on = @ \cup {t}]
    /\ UNCHANGED <<events, signal>>
AmlogicEventSubscribe(s, t) ==
    /\ client[s].at = "idle" /\ ~Subscribed(s, t)
    /\ client' = [client EXCEPT ![s].at = "adding", ![s].type = t]
    /\ UNCHANGED <<events, signal>>
AddsEvent(s) ==
    /\ client[s].at = "adding" /\ rwlockFree
    /\ events' = <<[type |-> client[s].type, cb |-> s]>> \o events
    /\ client' = [client EXCEPT ![s].at = "idle", ![s].on = @ \cup {client[s].type}]
    /\ UNCHANGED signal

\* The latest subscription is removed, when no callback runs.
AmlogicEventUnsubscribe(s, t) ==
    /\ client[s].at = "idle" /\ rwlockFree
    /\ events' = IF Subscribed(s, t)
                 THEN RemoveFirst(events, [type |-> t, cb |-> s]) ELSE events
    /\ client' = [client EXCEPT ![s].on = @ \ {t}]
    /\ UNCHANGED signal

(* AmlogicEventSignal() goes through the list as a reader and calls.          *)
AmlogicEventSignal(g, t) ==
    /\ signal[g].at = "idle"
    /\ signal' = [signal EXCEPT ![g] = [Idle EXCEPT !.at = "walk", !.type = t, !.pos = 1,
                                 !.due = {s \in Subscribers : t \in client[s].on}]]
    /\ UNCHANGED <<events, client>>
Passes(g) ==
    /\ signal[g].at = "walk" /\ signal[g].pos =< Len(events)
    /\ events[signal[g].pos].type # signal[g].type
    /\ signal' = [signal EXCEPT ![g].pos = @ + 1]
    /\ UNCHANGED <<events, client>>
Calls(g) ==
    /\ signal[g].at = "walk" /\ signal[g].pos =< Len(events)
    /\ events[signal[g].pos].type = signal[g].type
    /\ signal' = [signal EXCEPT ![g].at = "called",
                                ![g].called = Append(@, events[signal[g].pos].cb)]
    /\ UNCHANGED <<events, client>>
CallbackReturns(g) ==
    /\ signal[g].at = "called"
    /\ signal' = [signal EXCEPT ![g].at = "walk", ![g].pos = @ + 1]
    /\ UNCHANGED <<events, client>>
SignalReturns(g) ==
    /\ signal[g].at = "walk" /\ signal[g].pos > Len(events)
    /\ signal' = [signal EXCEPT ![g] = Idle]
    /\ UNCHANGED <<events, client>>

Next ==
    \/ \E s \in Subscribers : AddsEvent(s)
    \/ \E s \in Subscribers, t \in EventTypes :
          SubscribedAlready(s, t) \/ AmlogicEventSubscribe(s, t) \/ AmlogicEventUnsubscribe(s, t)
    \/ \E g \in Signallers, t \in EventTypes : AmlogicEventSignal(g, t)
    \/ \E g \in Signallers : Passes(g) \/ Calls(g) \/ CallbackReturns(g) \/ SignalReturns(g)

-----------------------------------------------------------------------------
(* A callback runs only while it is subscribed: who has unsubscribed may       *)
(* free what it works on.                                                     *)
CalledWhileSubscribed ==
    \A g \in Signallers : signal[g].at = "called" =>
        signal[g].type \in client[Last(signal[g].called)].on

(* An event is given once to each callback that was subscribed when it was     *)
(* signalled, however often it had been, and whatever else goes on.            *)
EventGivenOnce ==
    \A g \in Signallers :
        /\ IsInjective(signal[g].called)
        /\ signal[g].at = "walk" /\ signal[g].pos > Len(events) =>
              signal[g].due \subseteq ToSet(signal[g].called)
=============================================================================
