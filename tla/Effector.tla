------------------------------ MODULE Effector ------------------------------
(* The simulated agent environment (arms.py, class Effector): the second,   *)
(* independent writer.  It counts how often it was asked to act on an event *)
(* apart from how often the action ran, and keeps its own effect chain.     *)
EXTENDS Substrate, Sequences

CONSTANTS
    N,                      \* the scenario has the events 1..N
    Modes                   \* the configurations a run may be started with

ASSUME NAssumption == N \in Nat \ {0}

Events == 1..N

VARIABLES
    mode,                   \* the run's configuration; never changes
    asked,                  \* event -> calls of execute
    ran,                    \* event -> calls that executed the action
    effects                 \* the effect chain

effectVars == <<asked, ran, effects>>

EffectorInit ==
    /\ asked = [e \in Events |-> 0]
    /\ ran = [e \in Events |-> 0]
    /\ effects = <<>>

\* Slip: the call is counted after the comparison instead of before.
AbsorbsLate(e) == mode.idempotent /\ asked[e] > 1

\* Slip: only a call after an execution is redundant, not one after a refusal.
AbsorbsRunsOnly(e) == mode.idempotent /\ ran[e] > 0

\* Idempotency suppresses every call for an event after its first.
Absorbs(e) == mode.idempotent /\ asked[e] > 0

\* Slip: single writing is ignored.
ExecutesAsPermitted(permitted, reported) == permitted

\* In single-writer mode the effect is derived from the reported decision.
Executes(permitted, reported) ==
    IF mode.singleWriter THEN reported # "BLOCK" ELSE permitted

Execute(e, permitted, reported) ==
    /\ asked' = [asked EXCEPT ![e] = @ + 1]
    /\ IF Absorbs(e)
       THEN UNCHANGED <<ran, effects>>
       ELSE LET executed == Executes(permitted, reported)
                runs == ran[e] + (IF executed THEN 1 ELSE 0)
            IN /\ ran' = [ran EXCEPT ![e] = runs]
               /\ effects' = Append(effects, [event |-> e, executed |-> executed,
                                              deliveries |-> asked[e] + 1,
                                              executions |-> runs])

\* What the run reports about the effector once it ends.
DoubleExecutions == {e \in Events : ran[e] > 1}
AbsorbedDuplicates == {e \in Events : asked[e] > 1}
=============================================================================
