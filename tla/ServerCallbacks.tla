-------------------------- MODULE ServerCallbacks --------------------------
(***************************************************************************)
(* The callbacks of the subtitle server's clients: mCallbackClients, a     *)
(* std::map from small numbers (the cookies of the death notifications) to *)
(* callbacks, and the one callback of the fallback display.  The map is    *)
(* walked with mCallbackClients[i], which makes an entry for every number  *)
(* it is asked for.  All methods hold mLock; what overlaps is a client's   *)
(* death, which a binder thread reports when it likes.                     *)
(***************************************************************************)
EXTENDS Naturals, FiniteSets

CONSTANTS
    Callbacks,      \* ISubtitleCallback objects: a client makes one per connection
    Displays,       \* those of the fallback display (mIsFallback)
    MaxNotified,    \* bound: notifications sent
    DiesInCall,     \* may a client die while its removeCallback() is under way?
    Null

VARIABLES
    clients,    \* mCallbackClients
    fallback,   \* mFallbackCallback
    started,    \* mFallbackPlayStarted
    stage,      \* per callback: "new", "set", "leaving" or "gone"
    alive,      \* the callbacks whose process lives
    linked,     \* the cookie mDeathRecipient is linked to the callback with
    reports,    \* cookies of deaths that binder threads are about to handle
    notified,   \* notifications sent so far
    told        \* what the last step told whom
cbvars == <<clients, fallback, started, stage, alive, linked, reports, notified, told>>

Nobody == [what |-> "nothing", to |-> {}]

Init ==
    /\ clients = << >>
    /\ fallback = Null
    /\ started = FALSE
    /\ stage = [c \in Callbacks |-> "new"]
    /\ alive = Callbacks
    /\ linked = [c \in Callbacks |-> Null]
    /\ reports = {}
    /\ notified = 0
    /\ told = Nobody

-----------------------------------------------------------------------------
(* The map.                                                                *)

Size(m) == Cardinality(DOMAIN m)

\* m after mCallbackClients[i] was read for the numbers in s
Touched(m, s) == [i \in DOMAIN m \cup s |-> IF i \in DOMAIN m THEN m[i] ELSE Null]

Least(s) == CHOOSE i \in s : \A j \in s : i <= j

\* The numbers below the size that have no callback; the loop of
\* setCallback() stops at the first.
Unused(m) == {i \in 0 .. Size(m) - 1 : i \notin DOMAIN m \/ m[i] = Null}

\* a mistake that is easily made: the next number is the size
CookieBySize(m) == Size(m)
Cookie(m) == IF Unused(m) = {} THEN Size(m) ELSE Least(Unused(m))

\* A loop whose bound is the size of the map at each turn makes the entries
\* it misses and so walks on until every number below the size has one.
\* a mistake that is easily made: the bound is the size at the first turn
WalkedOnce(m) == 0 .. Size(m) - 1
Walked(m) == {n \in 0 .. Size(m) + Cardinality(Callbacks) :
                \A k \in 0 .. n : k < Cardinality(DOMAIN m \cup 0 .. k - 1)}

Live(m, s) == {m[i] : i \in DOMAIN m \cap s} \ {Null}

-----------------------------------------------------------------------------
(* Requests of clients.                                                    *)

setCallback(c) ==
    /\ c \notin Displays
    /\ stage[c] = "new" /\ c \in alive
    /\ clients' = [Touched(clients, 0 .. Cookie(clients)) EXCEPT ![Cookie(clients)] = c]
    /\ linked' = [linked EXCEPT ![c] = Cookie(clients)]
    /\ stage' = [stage EXCEPT ![c] = "set"]
    /\ told' = Nobody
    /\ UNCHANGED <<fallback, started, alive, reports, notified>>

setFallbackCallback(c) ==
    /\ c \in Displays
    /\ stage[c] = "new" /\ c \in alive
    /\ fallback' = c
    /\ stage' = [stage EXCEPT ![c] = "set"]
    /\ told' = Nobody
    /\ UNCHANGED <<clients, started, alive, linked, reports, notified>>

\* A client calls removeCallback() when it goes ...
leave(c) ==
    /\ stage[c] = "set" /\ c \in alive
    /\ stage' = [stage EXCEPT ![c] = "leaving"]
    /\ told' = Nobody
    /\ UNCHANGED <<clients, fallback, started, alive, linked, reports, notified>>

\* ... and a binder thread carries it out, erasing the entry.
removeCallback(c) ==
    /\ stage[c] = "leaving"
    /\ stage' = [stage EXCEPT ![c] = "gone"]
    /\ fallback' = IF fallback = c THEN Null ELSE fallback
    /\ clients' = [i \in {j \in DOMAIN clients : clients[j] # c} |-> clients[i]]
    /\ linked' = [linked EXCEPT ![c] = Null]
    /\ told' = Nobody
    /\ UNCHANGED <<started, alive, reports, notified>>

\* show() and hide() start and stop the fallback display; with the setters of
\* colour, size and place they are passed on to it and to nobody else.
uiCommand(s) ==
    /\ started' = s
    /\ told' = [what |-> "ui", to |-> {fallback} \ {Null}]
    /\ UNCHANGED <<clients, fallback, stage, alive, linked, reports, notified>>

-----------------------------------------------------------------------------
(* Notifications, sent by the looper of the callback queue.                *)

ToFallback == started /\ fallback # Null

\* sendSubtitleDisplayNotify(): to the fallback display alone if it plays
displayNotify ==
    /\ notified < MaxNotified
    /\ notified' = notified + 1
    /\ IF ToFallback
       THEN told' = [what |-> "display", to |-> {fallback}] /\ UNCHANGED clients
       ELSE /\ told' = [what |-> "display", to |-> Live(clients, Walked(clients))]
            /\ clients' = Touched(clients, Walked(clients))
    /\ UNCHANGED <<fallback, started, stage, alive, linked, reports>>

\* sendSubtitleEventNotify(): to the fallback display as well; the numbers
\* below the size the map has at first.
EventRange(m) == 0 .. Size(m) - 1

eventNotify ==
    /\ notified < MaxNotified
    /\ notified' = notified + 1
    /\ told' = [what |-> "event",
                to |-> Live(clients, EventRange(clients)) \cup (IF ToFallback THEN {fallback} ELSE {})]
    /\ clients' = Touched(clients, EventRange(clients))
    /\ UNCHANGED <<fallback, started, stage, alive, linked, reports>>

-----------------------------------------------------------------------------
(* Deaths.                                                                 *)

die(c) ==
    /\ c \in alive
    /\ stage[c] = "set" \/ (DiesInCall /\ stage[c] = "leaving")
    /\ alive' = alive \ {c}
    /\ told' = Nobody
    /\ UNCHANGED <<clients, fallback, started, stage, linked, reports, notified>>

deathReported(c) ==
    /\ c \notin alive
    /\ linked[c] # Null
    /\ reports' = reports \cup {linked[c]}
    /\ linked' = [linked EXCEPT ![c] = Null]
    /\ told' = Nobody
    /\ UNCHANGED <<clients, fallback, started, stage, alive, notified>>

\* The entry is there: a client that dies has not taken its callback back,
\* unless it dies in that very call (DiesInCall), and then line 956 follows a
\* null pointer.
handleServiceDeath(cookie) ==
    /\ cookie \in reports
    /\ reports' = reports \ {cookie}
    /\ clients' = [Touched(clients, {cookie}) EXCEPT ![cookie] = Null]
    /\ told' = Nobody
    /\ UNCHANGED <<fallback, started, stage, alive, linked, notified>>

Next ==
    \/ \E c \in Callbacks :
         \/ setCallback(c) \/ setFallbackCallback(c) \/ leave(c) \/ removeCallback(c)
         \/ die(c) \/ deathReported(c)
    \/ \E s \in BOOLEAN : uiCommand(s)
    \/ displayNotify \/ eventNotify
    \/ \E cookie \in reports : handleServiceDeath(cookie)

Spec == Init /\ [][Next]_cbvars

-----------------------------------------------------------------------------
(* Properties.                                                             *)

\* Types: a callback is in the map once at most, and as many numbers as there
\* are callbacks are enough.
TypeOK ==
    /\ DOMAIN clients \subseteq 0 .. Cardinality(Callbacks) - 1
    /\ \A i \in DOMAIN clients : clients[i] \in Callbacks \cup {Null}
    /\ \A i, j \in DOMAIN clients : clients[i] = clients[j] /\ clients[i] # Null => i = j
    /\ fallback \in Displays \cup {Null}
    /\ started \in BOOLEAN
    /\ stage \in [Callbacks -> {"new", "set", "leaving", "gone"}]
    /\ alive \subseteq Callbacks
    /\ linked \in [Callbacks -> 0 .. Cardinality(Callbacks) - 1 \cup {Null}]
    /\ reports \subseteq 0 .. Cardinality(Callbacks) - 1
    /\ notified \in 0 .. MaxNotified
    /\ told.to \subseteq Callbacks

Registered == {c \in Callbacks : \E i \in DOMAIN clients : clients[i] = c}

\* A client that lives keeps its callback until it takes it back: neither the
\* coming of another, nor the removal or the death of another, whose number
\* may have been given away again, costs it its place
\* (SubtitleServer.cpp:558-573, 606-612, 956).
CallbackKept ==
    [][\A c \in Registered \cap alive : stage'[c] # "gone" => c \in Registered']_cbvars

Missing(m) == {i \in 0 .. Cardinality(Callbacks) : i \notin DOMAIN m /\ \E j \in DOMAIN m : i < j}

\* Whatever holes removals have left in the map, a picture that is not for the
\* fallback display reaches every client there is, and an event ("send
\* DisplayEvent to clients", SubtitleServer.cpp:807) that misses one leaves
\* fewer holes, so that the clients are not missed for ever
\* (SubtitleServer.cpp:771-780, 793, 808-810).
EveryoneIsTold ==
    [][/\ told'.what = "display" /\ ~ToFallback => told'.to = Registered
       /\ told'.what = "event" /\ ~(Registered \subseteq told'.to)
            => Cardinality(Missing(clients')) < Cardinality(Missing(clients))]_cbvars
=============================================================================
