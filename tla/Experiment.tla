----------------------------- MODULE Experiment -----------------------------
(* Studies of two runs (run.py, run_condition; experiments.py, the negative *)
(* controls and the condition matrix): one scenario and one fault schedule  *)
(* go through run_arm twice, each time on an empty stream, with one setting *)
(* changed.  What a study concludes relates the two results; the clock is   *)
(* free to choose other latencies in the second run.                        *)
EXTENDS ReportProperties, Schedule

CONSTANT Studies            \* the studies: the kinds and rate of faults, the two settings

StudyType(s) ==
    /\ s.kinds \in Seq(Kinds \ {NoFault})
    /\ s.rate \in Nat \X (Nat \ {0})
    /\ s.settings \in Modes \X Modes

ASSUME StudyAssumption == NoFault \in Kinds /\ \A s \in Studies : StudyType(s)

VARIABLES
    study,                  \* the study under way; never changes
    results                 \* what its runs came to, in order

studyVars == <<study, results>>
experimentVars == <<vars, studyVars>>

\* Without kinds the schedule is empty.
Schedules(s) == IF s.kinds = <<>> THEN {NoFaults} ELSE Built(s.kinds, s.rate)

ExperimentInit ==
    /\ study \in Studies
    /\ results = <<>>
    /\ mode = study.settings[1]
    /\ scenario \in Scenarios
    /\ schedule \in Schedules(study)
    /\ FreshRun

\* The gate's own ruling on an event is the first record on it.
FirstDecision(e) ==
    decisions[CHOOSE i \in DOMAIN decisions :
                  /\ decisions[i].event = e
                  /\ \A j \in DOMAIN decisions : decisions[j].event = e => i <= j]

\* What a study keeps of a run.
Result ==
    [setting |-> mode,
     delivered |-> stream,
     dropped |-> edge.dropped,
     onTime |-> {e \in Events : FirstDecision(e).outcome = "DECIDED"},
     gate |-> [e \in Events |-> FirstDecision(e).decision],
     executed |-> {e \in Events : Executed(e)},
     unsafeExecuted |-> Row.unsafeExecuted,
     enforcement |-> Row.enforcement,
     lies |-> PreventedButExecuted,
     doubles |-> DoubleExecutions]

ArmStep == Next /\ UNCHANGED studyVars

\* Each run builds its own edge, effector and chains, and starts its own loop.
NewRun ==
    /\ held' = <<>> /\ edge' = [dropped |-> <<>>, duplicated |-> <<>>, outaged |-> <<>>]
    /\ asked' = [e \in Events |-> 0] /\ ran' = [e \in Events |-> 0] /\ effects' = <<>>
    /\ cur' = 1 /\ pc' = FirstPc'
    /\ next' = 0 /\ target' = 0 /\ verdict' = NoRisk /\ ruling' = NoRuling
    /\ decisions' = <<>>
    /\ tally' = [counter \in Counters |-> 0]

\* Slip: both runs are given one stream, and only the group starts over.
SharedStream == stream' = stream /\ cursor' = 0 /\ pending' = {}

\* Each run has a stream of a name of its own, which a reset has emptied.
OwnStream == stream' = <<>> /\ cursor' = 0 /\ pending' = {}

\* The first run is over: its result is kept, and the second starts from nothing.
SecondRun ==
    /\ pc = "done" /\ results = <<>>
    /\ results' = <<Result>>
    /\ mode' = study.settings[2]
    /\ OwnStream /\ NewRun
    /\ UNCHANGED <<study, scenario, schedule>>

Conclude ==
    /\ pc = "done" /\ Len(results) = 1
    /\ results' = <<results[1], Result>>
    /\ UNCHANGED <<study, vars>>

ExperimentNext == ArmStep \/ SecondRun \/ Conclude

ExperimentSpec == ExperimentInit /\ [][ExperimentNext]_experimentVars

----------------------------------------------------------------------------
(* What the studies show.                                                   *)

Concluded == Len(results) = 2
First == results[1]
Second == results[2]

\* The settings differ in the named field and in no other.
DifferIn(field) ==
    LET a == study.settings[1]
        b == study.settings[2]
    IN a[field] # b[field] /\ \A f \in DOMAIN a \ {field} : a[f] = b[f]

SameOnTime == First.onTime = Second.onTime

\* When each negative control passes (NC1; NC2a and NC2b; NC3a and NC3b; NC4).
IdempotencyPower == First.doubles = {} /\ Second.doubles # {}
ArmsAgree == First.unsafeExecuted = Second.unsafeExecuted
DivergencePower == First.lies # {}
DivergenceLoadBearing == Second.lies = {}
DeadlinePower == Second.unsafeExecuted > First.unsafeExecuted

\* No kind is asked for twice.
AskedOnce(kinds) == \A i, j \in DOMAIN kinds : kinds[i] = kinds[j] => i = j

(* The schedule a study gets has the picked rate of the events, rounded to  *)
(* the nearest and all of them at most, and the kinds, each asked for once, *)
(* share them evenly: two shares differ by one at most, and no kind         *)
(* vanishes while there are events enough (faultlab.py 69-100).             *)
SharesAreEven ==
    study.kinds # <<>> /\ AskedOnce(study.kinds) =>
        LET shares == [i \in DOMAIN study.kinds |-> FaultCount(study.kinds[i])]
            whole == study.rate[2]
            exact == N * (IF study.rate[1] <= whole THEN study.rate[1] ELSE whole)
        IN /\ 2 * (FaultsTotal * whole - exact) \in -whole .. whole
           /\ FaultsTotal = Cardinality({e \in Events :
                                \E i \in DOMAIN study.kinds : schedule[e] = study.kinds[i]})
           /\ \A i, j \in DOMAIN shares : shares[i] - shares[j] \in {-1, 0, 1}
           /\ FaultsTotal >= Len(study.kinds) => \A i \in DOMAIN shares : shares[i] > 0

(* "Both arms receive the same event stream" (arms.py header): whatever the *)
(* two runs differ in, and however the clock runs, the edge lets through    *)
(* the same events in the same order, and loses the same ones.              *)
BothRunsReadOneStream ==
    Concluded => /\ First.delivered = Second.delivered
                 /\ First.dropped = Second.dropped

(* Between two arms that the runner accepts as comparable, only the gate    *)
(* makes a difference: what both decide in time they decide alike, and the  *)
(* monitor runs, beyond what the gate lets run, what the gate blocked and   *)
(* enforcement did not fail to stop.  So under a policy that blocks nothing *)
(* a gate that fails open runs what the monitor runs, and one that fails    *)
(* closed differs by its deadline alone (controls NC2a and NC2b).           *)
PositionIsTheOnlyDifference ==
    Concluded /\ DifferIn("arm") /\ First.setting.arm = "in_series" =>
        LET stopped == {e \in Events : /\ First.gate[e] = "BLOCK"
                                       /\ mode.singleWriter \/ schedule[e] # "enforcement_fail"}
        IN /\ \A e \in First.onTime \cap Second.onTime : First.gate[e] = Second.gate[e]
           /\ Second.executed = Events
           /\ First.executed = Events \ stopped
           /\ mode.policy = "policy/null" /\ ~mode.failClosed /\ mode.idempotent =>
                 ArmsAgree

(* Failing open never stops an action that failing closed lets run, and     *)
(* adds only actions that one of the runs had no timely decision on; a      *)
(* fault that keeps an unsafe action undecided makes it strictly worse      *)
(* (control NC4, conditions E2 and E3).                                     *)
FailOpenOnlyAdds ==
    Concluded /\ DifferIn("failClosed") /\ First.setting.failClosed /\ InSeries =>
        /\ First.executed \subseteq Second.executed
        /\ Second.executed \ First.executed \subseteq Events \ (First.onTime \cap Second.onTime)
        /\ mode.idempotent /\ (\E e \in Events : scenario[e].unsafe /\ Undecidable(e))
              => DeadlinePower

(* With the effect derived from the decision, the same faults leave no      *)
(* divergence and a perfect enforcement rate on a gate that fails closed;   *)
(* the ledger loses exactly the executions that two writers show as lies    *)
(* (control NC3b, condition E5; assert_results.py 119-137).                 *)
SingleWriterLosesTheLies ==
    Concluded /\ DifferIn("singleWriter") /\ mode.singleWriter /\ InSeries /\ mode.failClosed =>
        /\ DivergenceLoadBearing
        /\ DivergencePower <=> \E e \in Events : /\ schedule[e] = "enforcement_fail"
                                                 /\ First.gate[e] = "BLOCK"
        /\ Second.enforcement.part = Second.enforcement.whole
        /\ SameOnTime =>
              /\ Second.executed = First.executed \ First.lies
              /\ Second.unsafeExecuted + Cardinality({e \in First.lies : scenario[e].unsafe})
                 = First.unsafeExecuted

(* Without dedup exactly the retried actions that run at all run twice, and *)
(* with it none does: the control has power only through a retry that the   *)
(* gate permits, and a duplicated event gives it none (control NC1,         *)
(* condition E4).                                                           *)
DedupIsLoadBearing ==
    Concluded /\ DifferIn("idempotent") /\ First.setting.idempotent /\ InSeries =>
        /\ Second.doubles = {e \in Second.executed : schedule[e] = "retry_double"}
        /\ IdempotencyPower <=> Second.doubles # {}
        /\ SameOnTime => First.executed = Second.executed
=============================================================================
