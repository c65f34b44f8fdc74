--------------------------- MODULE UserdataDevice ---------------------------
(***************************************************************************)
(* The user data device (io/UserdataDriver.c, and the thread and the life  *)
(* of io/Userdata.c): one device with a count of openings, a ring of       *)
(* packages that its thread writes and UserdataRead() reads, and two       *)
(* mutexes: am_gAdpLock, held while the device is opened and closed and    *)
(* while a reader waits, and dev->lock, which guards the ring and which    *)
(* the waiting reader gives up.                                            *)
(***************************************************************************)
EXTENDS Naturals, Sequences

CONSTANTS
    Users,          \* threads that call the device's functions
    RingSize,       \* packages the ring has room for
    MaxPackages,    \* bound: packages the device thread is given
    Free            \* nobody holds the mutex

ASSUME UserdataAssumption ==
    RingSize \in Nat \ {0} /\ MaxPackages \in Nat /\ Free \notin Users

VARIABLES
    adp,        \* who holds am_gAdpLock
    lock,       \* who holds dev->lock
    dev,        \* open_cnt, running, mode, and whether ring and lock exist
    ring,       \* pkg_buf: packages, by number
    thread,     \* where aml_userdata_thread() is
    call,       \* where each user is in a function of the device
    packages    \* packages the thread has been given so far
devvars == <<adp, lock, dev, ring, thread, call, packages>>

Closed == [count |-> 0, running |-> FALSE, mode |-> {}, live |-> FALSE]

DevInit ==
    /\ adp = Free /\ lock = Free
    /\ dev = Closed
    /\ ring = << >>
    /\ thread = "none"
    /\ call = [u \in Users |-> "idle"]
    /\ packages = 0

DevTypeOK ==
    /\ adp \in Users \cup {Free} /\ lock \in Users \cup {Free}
    /\ dev \in [count : 0 .. 2, running : BOOLEAN, mode : SUBSET {"cc", "afd"}, live : BOOLEAN]
    /\ ring \in Seq(1 .. MaxPackages) /\ Len(ring) <= RingSize
    /\ thread \in {"none", "poll", "write", "event", "called", "ended"}
    /\ call \in [Users -> {"idle", "lock", "poll", "wait", "package", "closing"}]
    /\ packages \in 0 .. MaxPackages

Goes(u, at) == call' = [call EXCEPT ![u] = at]

-----------------------------------------------------------------------------
(* UserdataOpen(), the setting of the mode and UserdataClose().            *)

\* Only the first opening makes the ring and the thread; the caption mode is
\* on from the start.
UserdataOpen(u) ==
    /\ call[u] = "idle" /\ adp = Free
    /\ IF dev.count > 0
       THEN dev' = [dev EXCEPT !.count = @ + 1] /\ UNCHANGED <<ring, thread>>
       ELSE /\ dev' = [count |-> 1, running |-> TRUE, mode |-> {"cc"}, live |-> TRUE]
            /\ ring' = << >> /\ thread' = "poll"
    /\ UNCHANGED <<adp, lock, call, packages>>

\* aml_open() has no device, or no thread
OpenFails(u) == call[u] = "idle" /\ adp = Free /\ dev.count = 0 /\ UNCHANGED devvars

UserdataSetMode(u, bit) ==
    /\ call[u] = "idle" /\ adp = Free
    /\ IF dev.count = 0 THEN UNCHANGED dev
       ELSE lock = Free /\ dev' = [dev EXCEPT !.mode = @ \cup {bit}]
    /\ UNCHANGED <<adp, lock, ring, thread, call, packages>>

\* The first close undoes all openings, whoever made them.  am_gAdpLock is
\* held until the thread has been joined.
UserdataClose(u) ==
    /\ call[u] = "idle" /\ adp = Free /\ dev.count > 0
    /\ adp' = u
    /\ dev' = [dev EXCEPT !.count = 0, !.running = FALSE]
    /\ Goes(u, "closing")
    /\ UNCHANGED <<lock, ring, thread, packages>>
CloseOfClosed(u) == call[u] = "idle" /\ adp = Free /\ dev.count = 0 /\ UNCHANGED devvars

\* a mistake that is easily made: the thread is left to end by itself
NotJoined == TRUE
Joined == thread = "ended"
CloseJoins(u) ==
    /\ call[u] = "closing" /\ Joined
    /\ dev' = Closed /\ ring' = << >>
    /\ thread' = IF thread = "ended" THEN "none" ELSE thread
    /\ adp' = Free
    /\ Goes(u, "idle")
    /\ UNCHANGED <<lock, packages>>

-----------------------------------------------------------------------------
(* UserdataRead(): the waiting reader holds am_gAdpLock.                   *)

ReadBegins(u) ==
    /\ call[u] = "idle" /\ adp = Free /\ dev.count > 0
    /\ Goes(u, "lock")
    /\ UNCHANGED <<adp, lock, dev, ring, thread, packages>>

ReadLocks(u) ==
    /\ call[u] = "lock" /\ lock = Free
    /\ lock' = u
    /\ Goes(u, "poll")
    /\ UNCHANGED <<adp, dev, ring, thread, packages>>

userdata_package_poll(u) ==
    /\ call[u] = "poll" /\ adp = Free
    /\ IF dev.count = 0 THEN lock' = Free /\ Goes(u, "idle") /\ UNCHANGED adp
       ELSE IF ring # << >> THEN Goes(u, "package") /\ UNCHANGED <<adp, lock>>
       ELSE lock' = Free /\ adp' = u /\ Goes(u, "wait")
    /\ UNCHANGED <<dev, ring, thread, packages>>

\* The wait ends with the signal of a writer ...
Signalled(u) ==
    /\ call[u] = "wait" /\ lock = Free /\ ring # << >>
    /\ lock' = u /\ adp' = Free
    /\ Goes(u, "package")
    /\ UNCHANGED <<dev, ring, thread, packages>>
\* ... or after the timeout.
\* a mistake that is easily made: the wait has no timeout
WaitsForSignal(u) == FALSE
MayTimeOut(u) == call[u] = "wait" /\ lock = Free
TimesOut(u) ==
    /\ MayTimeOut(u)
    /\ adp' = Free
    /\ Goes(u, "idle")
    /\ UNCHANGED <<lock, dev, ring, thread, packages>>

userdata_package_read(u) ==
    /\ call[u] = "package"
    /\ ring' = IF ring = << >> THEN ring ELSE Tail(ring)
    /\ lock' = Free
    /\ Goes(u, "idle")
    /\ UNCHANGED <<adp, dev, thread, packages>>

-----------------------------------------------------------------------------
(* aml_userdata_thread()                                                   *)

\* A packet is a caption, when captions are on, or an active format.
thread_takes(kind) ==
    /\ thread = "poll" /\ dev.running
    /\ kind = "write" => "cc" \in dev.mode
    /\ kind = "event" => "afd" \in dev.mode
    /\ packages < MaxPackages
    /\ packages' = packages + 1
    /\ thread' = kind
    /\ UNCHANGED <<adp, lock, dev, ring, call>>

\* userdata_package_write() drops what has no room.
HasRoom == Len(ring) < RingSize
userdata_package_write ==
    /\ thread = "write" /\ lock = Free
    /\ ring' = IF HasRoom THEN Append(ring, packages) ELSE ring
    /\ thread' = "poll"
    /\ UNCHANGED <<adp, lock, dev, call, packages>>

thread_ends ==
    /\ thread = "poll" /\ ~dev.running
    /\ thread' = "ended"
    /\ UNCHANGED <<adp, lock, dev, ring, call, packages>>
=============================================================================
