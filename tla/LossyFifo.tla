------------------------------ MODULE LossyFifo ------------------------------
(***************************************************************************)
(* What a chain of bounded queues between producers and one consumer        *)
(* promises: values come out in the order they went in.  Any value may be   *)
(* lost on the way; none is duplicated, altered or overtaken.  What else    *)
(* travels through the same queues, the noise, may turn up and vanish       *)
(* anywhere between the values and is never delivered.                      *)
(***************************************************************************)
EXTENDS Naturals, Sequences, SequencesExt

CONSTANTS Values, Noise, Nothing

VARIABLES channel,    \* the values and the noise in transit, oldest first
          delivered   \* the value handed to the consumer, until it is used

Init == channel = <<>> /\ delivered = Nothing

Send(v) == channel' = Append(channel, v) /\ UNCHANGED delivered

Disturb(n) == /\ \E i \in 1..Len(channel) + 1 : channel' = InsertAt(channel, i, n)
              /\ UNCHANGED delivered

Deliver == /\ channel # <<>>
           /\ Head(channel) \in Values
           /\ delivered = Nothing
           /\ delivered' = Head(channel)
           /\ channel' = Tail(channel)

Use == delivered' = Nothing /\ UNCHANGED channel

Lose == /\ \E i \in 1..Len(channel) : channel' = RemoveAt(channel, i)
        /\ UNCHANGED delivered

Next == \/ Use \/ Deliver
        \/ \E v \in Values : Send(v)
        \/ \E n \in Noise : Disturb(n)
        \/ Lose

Spec == Init /\ [][Next]_<<channel, delivered>>
==============================================================================
