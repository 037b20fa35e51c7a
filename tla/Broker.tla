------------------------------- MODULE Broker -------------------------------
(* The event broker as one consumer group sees it (transport.py): an        *)
(* append-only stream, the group's read cursor, and the entries that were   *)
(* handed out and not acknowledged yet.  An entry's position in the stream  *)
(* is its delivery id.  Events are the positions 1..N of a scenario.        *)
EXTENDS Integers, Sequences

CONSTANT BatchSize          \* the count a consumer asks for in one read

ASSUME BatchSizeAssumption == BatchSize \in Nat \ {0}

VARIABLES
    stream,                 \* what was published, in arrival order
    cursor,                 \* the last position handed to the group
    pending                 \* positions handed out and not acknowledged

brokerVars == <<stream, cursor, pending>>

BrokerInit == stream = <<>> /\ cursor = 0 /\ pending = {}

Publish(events) == stream' = stream \o events

\* Slip: the end of a batch is not clipped to the end of the stream.
UnclippedBatchEnd == cursor + BatchSize

\* A read hands out at most BatchSize new entries, and they become pending.
BatchEnd == IF cursor + BatchSize <= Len(stream) THEN cursor + BatchSize ELSE Len(stream)

Consume ==
    /\ cursor' = BatchEnd
    /\ pending' = pending \cup (cursor + 1 .. BatchEnd)
    /\ UNCHANGED stream

\* Slip: acknowledging is cumulative, up to and including a position.
AckUpTo(delivery) == pending' = {d \in pending : d > delivery}

\* Slip: the acknowledgement names the last position read, not the delivery.
AckLastRead(delivery) == pending' = pending \ {cursor}

Ack(delivery) == pending' = pending \ {delivery}

\* Taking over what was never acknowledged: every pending entry of one event.
Reclaimed(event) == {d \in pending : stream[d] = event}

----------------------------------------------------------------------------
(* The group as a specification of its own, for whoever implements it.      *)

BrokerStep ==
    \/ \E d \in DOMAIN stream' : Publish(<<stream'[d]>>) /\ UNCHANGED <<cursor, pending>>
    \/ Consume
    \/ \E d \in pending : Ack(d) /\ UNCHANGED <<stream, cursor>>

BrokerSpec == BrokerInit /\ [][BrokerStep]_brokerVars
=============================================================================
