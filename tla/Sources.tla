------------------------------- MODULE Sources -------------------------------
(***************************************************************************)
(* What reads a broadcast beside the sources of the session, put beside    *)
(* each other: the captions of the video with the device, its users and    *)
(* their threads (ClosedCaption over UserdataDevice), the order of these   *)
(* captions (UserData), the section filters of the demux (DemuxSource),    *)
(* the sources that read a device (DeviceSource), and the callbacks of     *)
(* device events (AmlogicEvent).  They share no state: a behaviour chooses *)
(* one of them at the start and the others stay as they begin.             *)
(***************************************************************************)
EXTENDS ClosedCaption

CONSTANTS
    Pictures, Groups, MAX_CC_NUM, Back,     \* of UserData
    Filters, Demuxes, Pids, Null, MaxSources, MaxSettings, MovesWhileOpen,  \* of DemuxSource
    Sizes, Wants, MaxBytes,                 \* of DeviceSource
    Signallers, EventTypes                  \* of AmlogicEvent, where Users subscribe

VARIABLES part,
          ud, out, stream, clock, crashed,
          device, source, params, ctl, made, set, aborted,
          kind, owner, mState, mExitRequested, mRdFd, registered,
          mEnabled, mSegments, mAvailableDataSize, driver, given, timer,
          reader, mCurrentItem, got,
          events, client, signal

Order == INSTANCE UserData
Dmx == INSTANCE DemuxSource WITH Devices <- Demuxes
Source == INSTANCE DeviceSource WITH render <- timer
Event == INSTANCE AmlogicEvent WITH Subscribers <- Users

\* Devices and filters are numbered, and neither a number nor a callback is the null pointer;
\* sizes are whole; a group of pictures has a last one, and no picture comes out of its turn by as
\* many as may wait (30 and 64 in Userdata.c).
ASSUME SourcesAssumption ==
    /\ Demuxes \in SUBSET Nat /\ Demuxes # {} /\ Filters \in SUBSET Nat
    /\ Null \notin Demuxes /\ Null \notin Filters /\ Null # "pes_data_cb"
    /\ Sizes \in SUBSET Nat /\ Wants \in SUBSET Nat
    /\ Order!Max(Pictures) \in Nat /\ Pictures \in SUBSET (0 .. Order!Max(Pictures))
    /\ MAX_CC_NUM \in Nat /\ Back \in Nat /\ Back < MAX_CC_NUM

order == <<ud, out, stream, clock, crashed>>
demux == <<device, source, params, ctl, made, set, aborted>>
reads == <<kind, owner, mState, mExitRequested, mRdFd, registered, mEnabled, mSegments,
           mAvailableDataSize, driver, given, timer, reader, mCurrentItem, got>>
calls == <<events, client, signal>>

SourcesInit ==
    /\ part \in {"captions", "order", "demux", "reads", "calls"}
    /\ Init /\ Order!Init /\ Dmx!Init /\ Source!Init /\ Event!Init
    /\ part # "reads" => kind = "device"
    /\ part # "order" => stream.vfmt = "mpeg"

SourcesNext ==
    /\ UNCHANGED part
    /\ \/ part = "captions" /\ Next /\ UNCHANGED <<order, demux, reads, calls>>
       \/ part = "order" /\ Order!Next /\ UNCHANGED <<vars, demux, reads, calls>>
       \/ part = "demux" /\ Dmx!Next /\ UNCHANGED <<vars, order, reads, calls>>
       \/ part = "reads" /\ Source!Next /\ UNCHANGED <<vars, order, demux, calls>>
       \/ part = "calls" /\ Event!Next /\ UNCHANGED <<vars, order, demux, reads>>

SourcesSpec == SourcesInit /\ [][SourcesNext]_<<part, vars, order, demux, reads, calls>>
FairSources == SourcesSpec /\ Fairness /\ Source!Fairness

-----------------------------------------------------------------------------
\* What a thread of a device uses is there: the ring a user reads
\* (UserdataDevice.RingOutlivesUse), the monitor of the active format that a callback calls
\* (ClosedCaption.CallbackHasMonitor), the source of a filter (DemuxSource.CallbackHasTarget),
\* who is told the time (DeviceSource.ListenerIsThere), and who has subscribed to an event
\* (AmlogicEvent.CalledWhileSubscribed).
UsedWhileThere == /\ RingOutlivesUse /\ CallbackHasMonitor /\ Dmx!CallbackHasTarget
                  /\ Source!ListenerIsThere /\ Event!CalledWhileSubscribed

\* What comes from a device is given on once and in order: captions in the order of showing
\* (UserData.CaptionsInOrder), the bytes of a device to its parser (DeviceSource.BytesInOrder),
\* and an event to whoever has subscribed (AmlogicEvent.EventGivenOnce).
GivenOnceInOrder == Order!CaptionsInOrder /\ Source!BytesInOrder /\ Event!EventGivenOnce

\* No filter outlives its source, and only packets of the pid asked for pass
\* (DemuxSource.FiltersAreItsOwn).
FiltersAreItsOwn == Dmx!FiltersAreItsOwn

\* A stop comes to its end, of the caption decoder (ClosedCaption.StopEnds) and of a source
\* that reads a device (DeviceSource.SourceEnds), wherever their threads are.
StopsEnd == StopEnds /\ Source!SourceEnds
=============================================================================
