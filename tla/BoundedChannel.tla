---------------------------- MODULE BoundedChannel ----------------------------
(***************************************************************************)
(* What pipeline/pipeline.h promises: a first-in first-out channel of at   *)
(* most Depth items.  The item sent is chosen by the sender.               *)
(***************************************************************************)
EXTENDS Naturals, Sequences

CONSTANTS Item, Depth

VARIABLE channel

Init == channel = <<>>

Send == /\ Len(channel) < Depth
        /\ \E x \in Item : channel' = Append(channel, x)

Receive == /\ channel # <<>>
           /\ channel' = Tail(channel)

Next == Send \/ Receive

Spec == Init /\ [][Next]_channel
=============================================================================
