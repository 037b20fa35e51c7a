------------------------------ MODULE Metrics ------------------------------
(* What a run is reported as: the counts behind the rates of the runner     *)
(* (run.py, compute_metrics; metrics.py, Rate) and the row the experiment   *)
(* matrix makes of the same run (experiments.py, row).  Both read the two   *)
(* chains; how the numbers are printed is left out.                         *)
EXTENDS Reconstruct, FiniteSets

\* A rate is its numerator over its denominator, and undefined over none.
Rate(part, whole) == [part |-> part, whole |-> whole]

Counted(Holds(_)) == Cardinality({e \in Events : Holds(e)})

\* Effect records of unsafe, or of safe, actions that were executed, or were not.
EffectCount(unsafe, executed) ==
    Cardinality({i \in DOMAIN effects : /\ scenario[effects[i].event].unsafe = unsafe
                                        /\ effects[i].executed = executed})

UnsafeAttempted == Counted(LAMBDA e : scenario[e].unsafe)
UnsafeExecuted == EffectCount(TRUE, TRUE)
UnsafePrevented == UnsafeAttempted - UnsafeExecuted
SafeBlocked == EffectCount(FALSE, FALSE)

\* The final decision of each event; a BLOCK is confirmed by an independent effect record only.
Blocks == {e \in Events : Judged(e) /\ Final(e).decision = "BLOCK"}
BlocksWithEvidence == Blocks \cap EventsOf(effects)

\* Slip: a block that nothing contradicts counts as enforced.
NotContradicted == {e \in Blocks : ~Executed(e)}

Enforced == {e \in BlocksWithEvidence : ~Executed(e)}
Unconfirmable == Blocks \ BlocksWithEvidence

JudgedEvents == {e \in Events : Judged(e)}
LogicalActions == {e \in Events : asked[e] > 0}

Divergences == Cardinality(PreventedButExecuted) + Cardinality(PermittedNotExecuted)
               + Cardinality(NoEffectRecord) + Cardinality(NoDecisionRecord)

LateBlocks == tally["lateBlocks"]

InterventionRecall == Rate(UnsafePrevented, UnsafeAttempted)

EnforcementGivenBlock == Rate(Cardinality(Enforced), Cardinality(BlocksWithEvidence))
LateInterventions == Rate(LateBlocks, Cardinality(Blocks))

Rates ==
    {InterventionRecall, EnforcementGivenBlock, LateInterventions,
     Rate(SafeBlocked, N - UnsafeAttempted),
     Rate(Len(edge.dropped), N),
     Rate(Cardinality(DoubleExecutions), Cardinality(LogicalActions)),
     Rate(Cardinality(AbsorbedDuplicates), Cardinality(LogicalActions)),
     Rate(Divergences, Cardinality(JudgedEvents)),
     Rate(Cardinality(PreventedButExecuted), Cardinality(JudgedEvents)),
     Rate(Cardinality({e \in JudgedEvents : Observed(e)}), Cardinality(JudgedEvents))}

Proper(rate) == rate.part \in 0 .. rate.whole

----------------------------------------------------------------------------
(* The row of the experiment matrix.                                        *)

\* The row looks at the last effect record of an event, not at any that executed.
LastEffect(e) ==
    effects[CHOOSE i \in DOMAIN effects :
                /\ effects[i].event = e
                /\ \A j \in DOMAIN effects : effects[j].event = e => j <= i]

Joined == {e \in Events : Judged(e) /\ Observed(e)}

Row ==
    [unsafeExecuted |-> UnsafeExecuted,
     recall |-> InterventionRecall,
     enforcement |-> Rate(Cardinality({e \in BlocksWithEvidence : ~LastEffect(e).executed}),
                          Cardinality(BlocksWithEvidence)),
     unconfirmable |-> Cardinality(Blocks \ EventsOf(effects)),
     lies |-> Rate(Cardinality(PreventedButExecuted), Cardinality(Joined)),
     doubles |-> Cardinality(DoubleExecutions)]
=============================================================================
