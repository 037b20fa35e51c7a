--------------------------- MODULE EffectorCaller ---------------------------
(* The effector alone, under a caller that may ask it to act on any event   *)
(* at any time, as a loop with retries and redeliveries could.  A caller    *)
(* that does not permit an action reports BLOCK; one that permits it may    *)
(* report anything, BLOCK included when enforcement failed.                 *)
EXTENDS Effector, FiniteSets

CONSTANT MaxCalls           \* bound on the calls for one event

ASSUME CallerAssumption ==
    /\ MaxCalls \in Nat
    /\ \A m \in Modes : m.idempotent \in BOOLEAN /\ m.singleWriter \in BOOLEAN

Reports == Decisions \cup {"(none yet)"}

Calls == [permitted : {TRUE}, reported : Reports] \cup [permitted : {FALSE}, reported : {"BLOCK"}]

CallerVars == <<mode, effectVars>>

Init == mode \in Modes /\ EffectorInit

Call(e, call) ==
    /\ asked[e] < MaxCalls
    /\ Execute(e, call.permitted, call.reported)
    /\ UNCHANGED mode

Next == \E e \in Events, call \in Calls : Call(e, call)

Spec == Init /\ [][Next]_CallerVars

----------------------------------------------------------------------------
EffectRecords == [event : Events, executed : BOOLEAN, deliveries : Nat, executions : Nat]

(* The two counters count per event, the chain holds effect records         *)
(* (arms.py, Effector fields).                                              *)
TypeOK ==
    /\ mode \in Modes
    /\ asked \in [Events -> Nat] /\ ran \in [Events -> Nat]
    /\ effects \in Seq(EffectRecords)

(* With dedup on, an action runs at most once however often, and with       *)
(* whatever decisions, the effector is asked (arms.py 86-89).               *)
RunsAtMostOnce == \A e \in Events : mode.idempotent => ran[e] <= 1

(* The effect chain alone tells how often an action ran: every execution is *)
(* one executed record, the last record carries the running total, and the  *)
(* record of an absorbed call is the only one missing (arms.py 97-113).     *)
RecordsOf(e) == {i \in DOMAIN effects : effects[i].event = e}

ChainTellsExecutions ==
    \A e \in Events :
        /\ Cardinality({i \in RecordsOf(e) : effects[i].executed}) = ran[e]
        /\ \A i \in RecordsOf(e) :
              (\A j \in RecordsOf(e) : j <= i) => effects[i].executions = ran[e]
        /\ Cardinality(RecordsOf(e)) =
              IF mode.idempotent /\ asked[e] > 0 THEN 1 ELSE asked[e]

\* With dedup off the gate is left out of the picture: nothing is ever settled.
Answer(e) ==
    IF ~mode.idempotent THEN "open"
    ELSE IF ran[e] > 0 THEN "ran"
    ELSE IF asked[e] > 0 THEN "refused"
    ELSE "open"

Gate == INSTANCE ActionGate WITH
            outcome <- [e \in Events |-> Answer(e)],
            mayRun <- Events

(* With dedup on, the first call settles an event for good: an action       *)
(* refused once never runs later, whatever a retry permits, and an action   *)
(* that ran is not run again (arms.py 83-89).                               *)
FirstCallSettles == Gate!Spec
=============================================================================
