----------------------------- MODULE Conditions -----------------------------
(* The settings that the repository's studies compare: the negative         *)
(* controls with the faults each one plants, and the condition matrix       *)
(* against its baseline (experiments.py).                                   *)
EXTENDS Experiment

\* In series, fail closed, dedup on, two writers: what _run is called with by default.
Baseline == [arm |-> "in_series", failClosed |-> TRUE, idempotent |-> TRUE,
             singleWriter |-> FALSE, crashing |-> FALSE, second |-> FALSE,
             evaluator |-> "eval/1.0", policy |-> "policy/1.0"]

NullPolicy == [Baseline EXCEPT !.policy = "policy/null"]
FailOpen(setting) == [setting EXCEPT !.failClosed = FALSE]
Monitor(setting) == [setting EXCEPT !.arm = "monitor"]
NoDedup == [Baseline EXCEPT !.idempotent = FALSE]
SingleWriter == [Baseline EXCEPT !.singleWriter = TRUE]
TwoEvaluators == [Baseline EXCEPT !.second = TRUE]

StudyOf(kinds, rate, first, second) ==
    [kinds |-> kinds, rate |-> rate, settings |-> <<first, second>>]

\* Controls NC1, NC2a, NC2b, NC3a with NC3b, and NC4, at a given fault rate.
Controls(rate) ==
    {StudyOf(<<"retry_double", "duplicate_event">>, rate, Baseline, NoDedup),
     StudyOf(<<>>, rate, NullPolicy, Monitor(NullPolicy)),
     StudyOf(<<"drop_event", "delay_evaluation">>, rate,
             FailOpen(NullPolicy), Monitor(FailOpen(NullPolicy))),
     StudyOf(<<"enforcement_fail">>, rate, Baseline, SingleWriter),
     StudyOf(<<"drop_event", "delay_evaluation">>, rate, Baseline, FailOpen(Baseline))}

\* Conditions E1 to E6: each differs from the in-series baseline in one setting.
Matrix(kinds, rate) ==
    {StudyOf(kinds, rate, Baseline, other) :
        other \in {Monitor(Baseline), FailOpen(Baseline), NoDedup, SingleWriter, TwoEvaluators}}
=============================================================================
