----------------------------- MODULE ActionGate -----------------------------
(* What an arm promises, with the broker, the evaluator, the deadline and   *)
(* the fault injection taken away: every attempted action is settled once,  *)
(* it either runs or is refused, and it runs only if its position, fail     *)
(* mode and fault allow that.                                               *)
CONSTANT Events

VARIABLES
    outcome,                \* "open", "ran" or "refused", per event
    mayRun                  \* the events that something permits to run

gateVars == <<outcome, mayRun>>

Init ==
    /\ outcome = [e \in Events |-> "open"]
    /\ mayRun \in SUBSET Events

Run(e) ==
    /\ outcome[e] = "open"
    /\ e \in mayRun
    /\ outcome' = [outcome EXCEPT ![e] = "ran"]
    /\ UNCHANGED mayRun

Refuse(e) ==
    /\ outcome[e] = "open"
    /\ outcome' = [outcome EXCEPT ![e] = "refused"]
    /\ UNCHANGED mayRun

Next == \E e \in Events : Run(e) \/ Refuse(e)

Spec == Init /\ [][Next]_gateVars
=============================================================================
