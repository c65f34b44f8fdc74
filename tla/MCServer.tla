------------------------------ MODULE MCServer ------------------------------
(* Requests of a native client of three types, one with a source that is no *)
(* demux, and the calls of an application that disturb them.                *)
EXTENDS Server

Want(t, pid, flag, channel, dmx, io) ==
    [type |-> t, pid |-> pid, flag |-> flag, channel |-> channel, dmx |-> dmx, io |-> io]
MCRequests == {Want("DVB", 10, 0, 0, 0, "demux"), Want("SCTE27", 20, 1, 0, 1, "demux"),
               Want("CC", 0, 0, 2, 0, "fmq")}
MCCall(op, arg, io) == [op |-> op, arg |-> arg, io |-> io]
MCAppCalls == {MCCall("setSubType", 4, "none"), MCCall("setSubPid", 30, "none"),
               MCCall("setPipId", 2, "none"), MCCall("open", 0, "fmq"), MCCall("close", 0, "none")}
=============================================================================
