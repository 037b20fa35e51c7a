-------------------------- MODULE ReportProperties --------------------------
(* What the reports made of a run promise: the rates of the runner, the row *)
(* of the experiment matrix, and the replay of what was decided.            *)
EXTENDS ArmProperties, Metrics, Replay

Reliable == mode.idempotent /\ mode.failClosed

(* With dedup on and a gate that fails closed, every rate the runner prints *)
(* is one: its numerator counts a part of what its denominator counts.  The *)
(* late blocks are counted while the loop runs and the blocks from the      *)
(* chain at the end; executions are counted per effect record and attempts  *)
(* per action (run.py 51-105, metrics.py 22-29).                            *)
RatesAreProper == Finished /\ Reliable => \A rate \in Rates : Proper(rate)

(* Two reports of one run agree: the runner takes an event for executed if  *)
(* any effect record says so, the experiment matrix looks at the last one,  *)
(* and both reach the same enforcement rate and leave the same blocks       *)
(* unconfirmed (run.py 59-72, experiments.py 284-292).                      *)
ReportsAgree ==
    Finished => /\ Row.enforcement = EnforcementGivenBlock
                /\ Row.unconfirmable = Cardinality(Unconfirmable)

(* Replay at the versions on record reproduces every decision that can be   *)
(* replayed, in the backlog or at the gate, with or without a second        *)
(* evaluator; and with one of them altered it finds that one and no other   *)
(* (replay.py 62-111, experiments.py 198-214).                              *)
PinnedReplayFindsTheAltered ==
    /\ Pinned(decisions) = {}
    /\ \A i \in Replayable(decisions) : Pinned(Altered(decisions, i)) = {i}

(* A disagreement under two changed versions is one under the first alone   *)
(* or under the second alone, never under both: the strata of the skew      *)
(* study add up.  And a verdict that comes late takes at most one decision  *)
(* out of the replay, and so at most one disagreement off a stratum: no     *)
(* event is replayed twice (replay.py 91-100, assert_results.py 97-117).    *)
Strata == {"eval/1.0", "eval/1.1"} \X {"policy/1.0", "policy/1.1"}

StrataAddUp ==
    /\ mode.evaluator = "eval/1.0" /\ mode.policy = "policy/1.0" =>
          LET byPolicy == Disagreements(decisions, "eval/1.0", "policy/1.1")
              byEvaluator == Disagreements(decisions, "eval/1.1", "policy/1.0")
          IN /\ Disagreements(decisions, "eval/1.1", "policy/1.1") = byPolicy \cup byEvaluator
             /\ byPolicy \cap byEvaluator = {}
    /\ Finished => \A stratum \in Strata :
          LET expected == Counted(LAMBDA e :
                  Decide(stratum[2], Evaluate(stratum[1], scenario[e]))
                  # Decide(mode.policy, Score(e)))
              missing == N - Cardinality(Replayable(decisions))
          IN Cardinality(Disagreements(decisions, stratum[1], stratum[2]))
             \in expected - missing .. expected
=============================================================================
