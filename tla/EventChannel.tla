---------------------------- MODULE EventChannel ----------------------------
(***************************************************************************)
(* What the callback queue of the subtitle server promises its users: an   *)
(* event that was accepted is handed to the callback handler once, and     *)
(* events are handed over in the order in which they were accepted.        *)
(***************************************************************************)
EXTENDS Naturals, Sequences

CONSTANT Events             \* everything that can be posted

VARIABLES channel,          \* accepted, not yet handed over
          out               \* handed over, in order (history)

vars == <<channel, out>>

TypeOK == /\ channel \in Seq(Events)
          /\ out \in Seq(Events)

Init == /\ channel = <<>>
        /\ out = <<>>

Accept == /\ \E e \in Events : channel' = Append(channel, e)
          /\ UNCHANGED out

HandOver == /\ channel # <<>>
            /\ out' = Append(out, Head(channel))
            /\ channel' = Tail(channel)

Next == Accept \/ HandOver

Spec == Init /\ [][Next]_vars
=============================================================================
