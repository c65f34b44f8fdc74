---------------------------- MODULE DemuxSource ----------------------------
(***************************************************************************)
(* The data source of broadcast subtitles (io/DemuxSource.cpp) over the    *)
(* demultiplexer driver: it opens a device, sets up a filter for a pid and *)
(* is given the packets by the driver's data thread, which finds the       *)
(* source through the static sInstance.  The source's methods are called   *)
(* by one thread at a time: SubtitleService, which hands down the          *)
(* parameters it keeps (mSubParam), across sessions, in updateParameter(). *)
(*                                                                         *)
(* The driver (io/DemuxDriver.c over io/Demux.c) has devices with a count  *)
(* of openings, a few filters each and one data thread that polls them,    *)
(* takes the callback of a filter under dev->lock and calls it without.    *)
(* Every call of it is an operator from a device to a device; am_gAdpLock, *)
(* am_gHwDmxLock and dev->lock make each of them one step, but for         *)
(* DemuxClose, which waits for the thread in the middle.                   *)
(***************************************************************************)
EXTENDS Integers, FiniteSets, Sequences

CONSTANTS
    Filters,        \* ids of the filters of a device: 0 .. DEMUX_FILTER_COUNT - 1
    Null,
    Devices,        \* demux ids
    Pids,
    MaxSources,     \* bound: sources made during a run
    MaxSettings,    \* bound: parameters set during a run
    MovesWhileOpen  \* may setDemuxId() come while a source is there?

VARIABLES
    device,     \* the driver's devices
    source,     \* the DemuxSource there is, sInstance
    params,     \* demuxId and pid of mSubParam
    ctl,        \* what the controlling thread is in the middle of
    made, set,  \* sources made and parameters set so far
    aborted     \* the process is gone: std::terminate()
dmxvars == <<device, source, params, ctl, made, set, aborted>>

-----------------------------------------------------------------------------
(* The driver's devices.                                                   *)

NoFilter == [used |-> FALSE, enable |-> FALSE, cb |-> Null, pid |-> Null]

\* open_count, enable_thread, the data thread and the callback it has taken
Closed == [count |-> 0, enable |-> FALSE, thread |-> "none", cb |-> Null,
           filters |-> [f \in Filters |-> NoFilter]]

Opened(d) == d.count > 0

\* dmx_get_used_filter()
Used(d, f) == f \in Filters /\ d.filters[f].used

\* DemuxOpen(): the first opening starts the data thread.
DemuxOpen(d) ==
    IF Opened(d) THEN [d EXCEPT !.count = @ + 1]
    ELSE [d EXCEPT !.count = 1, !.enable = TRUE, !.thread = "poll"]

\* DemuxAllocateFilter() takes the first filter that is not used.
Unused(d) == {f \in Filters : ~d.filters[f].used}
FirstFree(d) == CHOOSE f \in Unused(d) : \A g \in Unused(d) : f <= g
DemuxAllocateFilter(d) == [d EXCEPT !.filters[FirstFree(d)].used = TRUE]

\* DemuxSetPesFilter(), DemuxSetSecFilter(): a running filter is stopped.
DemuxSetFilter(d, f, pid) ==
    [d EXCEPT !.filters[f].enable = FALSE, !.filters[f].pid = pid]

\* DemuxSetCallback(): only for a filter that is used
DemuxSetCallback(d, f, cb) == IF Used(d, f) THEN [d EXCEPT !.filters[f].cb = cb] ELSE d

DemuxStartFilter(d, f) == [d EXCEPT !.filters[f].enable = TRUE]

DemuxStopFilter(d, f) == IF Used(d, f) THEN [d EXCEPT !.filters[f].enable = FALSE] ELSE d

\* dmx_free_filter() stops the filter; its callback stays where it is.
FreedFilter(x) == IF x.used THEN [x EXCEPT !.enable = FALSE, !.used = FALSE] ELSE x
DemuxFreeFilter(d, f) == IF Used(d, f) THEN [d EXCEPT !.filters[f] = FreedFilter(@)] ELSE d

\* DemuxClose(): the last one asks the thread to end ...
AskToEnd(d) == IF d.count = 1 THEN [d EXCEPT !.enable = FALSE] ELSE d
\* ... waits for it ...
Joined(d) == d.count = 1 => d.thread = "ended"
\* ... and frees all filters.
DemuxClose(d) ==
    IF d.count = 1
    THEN [d EXCEPT !.count = 0, !.thread = IF @ = "ended" THEN "none" ELSE @,
                   !.filters = [f \in Filters |-> FreedFilter(d.filters[f])]]
    ELSE [d EXCEPT !.count = @ - 1]

(* dmx_data_thread()                                                       *)

\* Once a poll has returned, enable_thread is not looked at again.
Taken(d, f) ==
    IF d.thread = "poll" /\ d.filters[f].used /\ d.filters[f].enable
    THEN {[d EXCEPT !.thread = "called", !.cb = d.filters[f].cb]}
    ELSE {}
Returned(d) == [d EXCEPT !.thread = "poll", !.cb = Null]
Ends(d) == d.thread = "poll" /\ ~d.enable

-----------------------------------------------------------------------------
(* The source.                                                             *)

NoSource == [alive |-> FALSE, state |-> "invalid", demuxId |-> Null, pid |-> Null,
             dmx |-> Null, handle |-> Null]
Doing(what, dev, todo) == [what |-> what, dev |-> dev, todo |-> todo]
Nothing == Doing("nothing", Null, << >>)

Init ==
    /\ device = [d \in Devices |-> Closed]
    /\ source = NoSource
    /\ params = [demuxId |-> CHOOSE d \in Devices : \A e \in Devices : d <= e, pid |-> Null]
    /\ ctl = Nothing
    /\ made = 0 /\ set = 0
    /\ aborted = FALSE

-----------------------------------------------------------------------------
(* What the methods do, as calls of the driver.                            *)

\* open_dvb_dmx()
OpenCalls == <<"open", "allocate", "buffer", "filter", "callback", "start">>
\* its error path
UndoCalls == IF source.handle = Null THEN <<"end", "close">> ELSE <<"free", "end", "close">>
\* close_dvb_dmx(), which asks for the handle and the device of the context
CloseCalls ==
    (IF source.handle = Null THEN << >> ELSE <<"stop", "free", "nocallback">>)
        \o (IF source.dmx = Null THEN << >> ELSE <<"end", "close">>)

DEMUX_SOURCE_ID == CHOOSE d \in Devices : \A e \in Devices : d <= e

\* a mistake that is easily made: the destructor closes what stop() closes
ClosedByMistake == DEMUX_SOURCE_ID
ClosedAtLast == source.demuxId

Idle == ctl = Nothing /\ ~aborted

\* startSubtitle(): the factory makes the source; if the type of subtitle has
\* been set, updateParameter() gives it what the service has kept.
create(typed) ==
    /\ Idle /\ ~source.alive
    /\ made < MaxSources
    /\ made' = made + 1
    /\ source' = IF typed
                 THEN [NoSource EXCEPT !.alive = TRUE, !.demuxId = params.demuxId, !.pid = params.pid]
                 ELSE [NoSource EXCEPT !.alive = TRUE]
    /\ UNCHANGED <<device, params, ctl, set, aborted>>

\* start(): open_dvb_dmx() refuses a source that has no device.
start ==
    /\ Idle /\ source.alive /\ source.state = "invalid"
    /\ source' = [source EXCEPT !.state = "started", !.dmx = source.demuxId]
    /\ ctl' = IF source.demuxId = Null THEN Nothing ELSE Doing("start", source.demuxId, OpenCalls)
    /\ UNCHANGED <<device, params, made, set, aborted>>

Restarts(p) == source.state = "started" /\ source.pid # p

\* setSubPid() reaches a source that is there; if it runs with another pid
\* its device is closed and opened again.
setSubPid(p) ==
    /\ Idle /\ set < MaxSettings
    /\ set' = set + 1
    /\ params' = [params EXCEPT !.pid = p]
    /\ IF ~source.alive THEN UNCHANGED <<source, ctl>>
       ELSE /\ source' = [source EXCEPT !.pid = p, !.demuxId = params.demuxId]
            /\ ctl' = IF Restarts(p)
                      THEN Doing("restart", params.demuxId, CloseCalls \o <<"reset">> \o OpenCalls)
                      ELSE ctl
    /\ UNCHANGED <<device, made, aborted>>

setDemuxId(d) ==
    /\ Idle /\ set < MaxSettings
    /\ source.alive => MovesWhileOpen
    /\ set' = set + 1
    /\ params' = [params EXCEPT !.demuxId = d]
    /\ source' = IF source.alive THEN [source EXCEPT !.demuxId = d] ELSE source
    /\ UNCHANGED <<device, ctl, made, aborted>>

stop ==
    /\ Idle /\ source.alive /\ source.state = "started"
    /\ source' = [source EXCEPT !.state = "stopped"]
    /\ ctl' = IF CloseCalls = << >> THEN Nothing ELSE Doing("stop", DEMUX_SOURCE_ID, CloseCalls)
    /\ UNCHANGED <<device, params, made, set, aborted>>

\* ~DemuxSource(), after stop()
destroy ==
    /\ Idle /\ source.alive /\ source.state = "stopped"
    /\ ctl' = Doing("destroy", ClosedAtLast, CloseCalls \o <<"gone">>)
    /\ UNCHANGED <<device, source, params, made, set, aborted>>

-----------------------------------------------------------------------------
(* The calls one by one.                                                   *)

Call(x) == ctl.todo # << >> /\ Head(ctl.todo) = x
Dev == device[ctl.dev]

\* After the last call: a restart that succeeded assigns a new time thread
\* over the one that runs, whose std::thread is destroyed while joinable.
Done(rest) ==
    /\ ctl' = IF rest = << >> THEN Nothing ELSE [ctl EXCEPT !.todo = rest]
    /\ aborted' = (rest = << >> /\ ctl.what = "restart")
Failed == ctl' = [ctl EXCEPT !.what = "failed", !.todo = UndoCalls] /\ UNCHANGED aborted
Ok == Done(Tail(ctl.todo))
Same == UNCHANGED <<params, made, set>>

open ==
    /\ Call("open")
    /\ \/ device' = [device EXCEPT ![ctl.dev] = DemuxOpen(Dev)] /\ Ok
       \/ ~Opened(Dev) /\ Failed /\ UNCHANGED device
    /\ Same /\ UNCHANGED source

allocate ==
    /\ Call("allocate")
    /\ \/ /\ Opened(Dev) /\ Unused(Dev) # {}
          /\ device' = [device EXCEPT ![ctl.dev] = DemuxAllocateFilter(Dev)]
          /\ source' = [source EXCEPT !.handle = FirstFree(Dev)]
          /\ Ok
       \/ Failed /\ UNCHANGED <<device, source>>
    /\ Same

\* DemuxSetBufferSize() and the setting of the filter may fail in the kernel.
setUp ==
    /\ Call("buffer") \/ Call("filter") \/ Call("start")
    /\ \/ Failed /\ UNCHANGED device
       \/ /\ Opened(Dev) /\ Used(Dev, source.handle)
          /\ device' = [device EXCEPT ![ctl.dev] =
                CASE Call("buffer") -> Dev
                  [] Call("filter") -> DemuxSetFilter(Dev, source.handle, source.pid)
                  [] Call("start")  -> DemuxStartFilter(Dev, source.handle)]
          /\ Ok
    /\ Same /\ UNCHANGED source

setCallback ==
    /\ Call("callback") \/ Call("nocallback")
    /\ device' = IF ~Opened(Dev) THEN device
                 ELSE [device EXCEPT ![ctl.dev] =
                        DemuxSetCallback(Dev, source.handle, IF Call("callback") THEN "pes_data_cb" ELSE Null)]
    /\ Ok /\ Same /\ UNCHANGED source

stopFilter ==
    /\ Call("stop")
    /\ device' = IF Opened(Dev) THEN [device EXCEPT ![ctl.dev] = DemuxStopFilter(Dev, source.handle)] ELSE device
    /\ Ok /\ Same /\ UNCHANGED source

freeFilter ==
    /\ Call("free")
    /\ device' = IF Opened(Dev) THEN [device EXCEPT ![ctl.dev] = DemuxFreeFilter(Dev, source.handle)] ELSE device
    /\ Ok /\ Same /\ UNCHANGED source

askToEnd ==
    /\ Call("end")
    /\ device' = IF Opened(Dev) THEN [device EXCEPT ![ctl.dev] = AskToEnd(Dev)] ELSE device
    /\ Ok /\ Same /\ UNCHANGED source

close ==
    /\ Call("close")
    /\ IF Opened(Dev)
       THEN Joined(Dev) /\ device' = [device EXCEPT ![ctl.dev] = DemuxClose(Dev)]
       ELSE UNCHANGED device
    /\ Ok /\ Same /\ UNCHANGED source

\* open_dvb_dmx() begins by forgetting the context's handle and device.
resetContext ==
    /\ Call("reset")
    /\ source' = [source EXCEPT !.handle = Null, !.dmx = ctl.dev]
    /\ Ok /\ Same /\ UNCHANGED device

gone ==
    /\ Call("gone")
    /\ source' = NoSource
    /\ Ok /\ Same /\ UNCHANGED device

Calls ==
    \/ open \/ allocate \/ setUp \/ setCallback \/ stopFilter \/ freeFilter
    \/ askToEnd \/ close \/ resetContext \/ gone

-----------------------------------------------------------------------------
(* The data threads.                                                       *)

DataThread(d) ==
    /\ ~aborted
    /\ \/ \E f \in Filters : \E t \in Taken(device[d], f) : device' = [device EXCEPT ![d] = t]
       \/ device[d].thread = "called" /\ device' = [device EXCEPT ![d] = Returned(@)]
       \/ Ends(device[d]) /\ device' = [device EXCEPT ![d].thread = "ended"]
    /\ UNCHANGED <<source, params, ctl, made, set, aborted>>

Next ==
    \/ \E typed \in BOOLEAN : create(typed)
    \/ start \/ stop \/ destroy
    \/ \E p \in Pids : setSubPid(p)
    \/ \E d \in Devices : setDemuxId(d)
    \/ ~aborted /\ Calls
    \/ \E d \in Devices : DataThread(d)

Spec == Init /\ [][Next]_dmxvars

-----------------------------------------------------------------------------
(* Properties.                                                             *)

\* Types; a device that nobody has open has no thread and no filter in use.
TypeOK ==
    /\ \A d \in Devices :
        /\ device[d].count \in 0 .. 1
        /\ device[d].thread \in {"none", "poll", "called", "ended"}
        /\ ~Opened(device[d]) => device[d].thread = "none" /\ \A f \in Filters : ~device[d].filters[f].used
    /\ source.state \in {"invalid", "started", "stopped"}
    /\ source.demuxId \in Devices \cup {Null}
    /\ source.handle \in Filters \cup {Null}

\* The callback finds the source through sInstance, which is never reset: no
\* data thread is ever between taking pes_data_cb and returning from it when
\* the source is gone (DemuxSource.cpp:101, DemuxDriver.c:205, 356).
CallbackHasTarget ==
    ~aborted => \A d \in Devices : device[d].cb # Null => source.alive /\ source.state # "invalid"

\* Filters belong to the source.  When it is gone, whether its device could be opened, whatever failed
\* on the way and however often its pid was changed, no device is left open,
\* no filter in use and no thread running; while it runs and no call is under
\* way, packets come from its own pid and device only
\* (DemuxSource.cpp:206-214, 265, 380-384, 429).
FiltersAreItsOwn ==
    /\ ~source.alive => \A d \in Devices : ~Opened(device[d])
    /\ Idle /\ source.alive /\ source.state = "started" =>
        \A d \in Devices, f \in Filters :
            device[d].filters[f].enable => d = source.demuxId /\ device[d].filters[f].pid = source.pid
=============================================================================
