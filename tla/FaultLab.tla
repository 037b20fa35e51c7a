------------------------------ MODULE FaultLab ------------------------------
(* The fault-injecting edge in front of the broker (faultlab.py).  The      *)
(* schedule gives each event at most one fault; a publish is lost, held     *)
(* back, refused, doubled or plain according to it, and a publish that goes *)
(* through releases everything held back so far.                            *)
EXTENDS Broker

FaultKinds == {"drop_event", "duplicate_event", "reorder_event", "transport_outage",
               "delay_evaluation", "evaluator_crash", "evaluator_disagree",
               "enforcement_fail", "telemetry_lie", "retry_double"}

NoFault == "none"

VARIABLES
    schedule,               \* event -> its fault, or NoFault; never changes
    held,                   \* the reorder buffer, oldest first
    edge                    \* the lists of dropped, duplicated and outaged events

labVars == <<held, edge>>

LabInit == held = <<>> /\ edge = [dropped |-> <<>>, duplicated |-> <<>>, outaged |-> <<>>]

Drop(event) ==
    /\ schedule[event] = "drop_event"
    /\ edge' = [edge EXCEPT !.dropped = Append(@, event)]
    /\ UNCHANGED <<stream, held>>

\* The publish raises: its caller sees a TransportError.
Outage(event) ==
    /\ schedule[event] = "transport_outage"
    /\ edge' = [edge EXCEPT !.outaged = Append(@, event)]
    /\ UNCHANGED <<stream, held>>

Hold(event) ==
    /\ schedule[event] = "reorder_event"
    /\ held' = Append(held, event)
    /\ UNCHANGED <<stream, edge>>

Copies(event) ==
    IF schedule[event] = "duplicate_event" THEN <<event, event>> ELSE <<event>>

\* Slip: a publish that goes through does not release what is held back.
SendHoldsOn(event) ==
    /\ schedule[event] \notin {"drop_event", "transport_outage", "reorder_event"}
    /\ Publish(Copies(event))
    /\ edge' = IF schedule[event] = "duplicate_event"
               THEN [edge EXCEPT !.duplicated = Append(@, event)]
               ELSE edge
    /\ UNCHANGED held

Send(event) ==
    /\ schedule[event] \notin {"drop_event", "transport_outage", "reorder_event"}
    /\ Publish(Copies(event) \o held)
    /\ held' = <<>>
    /\ edge' = IF schedule[event] = "duplicate_event"
               THEN [edge EXCEPT !.duplicated = Append(@, event)]
               ELSE edge

\* Slip: the buffer is cleared before it is published.
FlushForgets == held' = <<>> /\ UNCHANGED <<stream, edge>>

FlushReorderBuffer ==
    /\ Publish(held)
    /\ held' = <<>>
    /\ UNCHANGED edge
=============================================================================
