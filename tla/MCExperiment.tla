---------------------------- MODULE MCExperiment ----------------------------
(* The studies for TLC: on three events a schedule has two faults, so the   *)
(* matrix is run without faults, with each kind alone, and with every two   *)
(* kinds in the order in which they go round.                               *)
EXTENDS Conditions

Half == <<1, 2>>
FiveSixths == <<5, 6>>

KindOrder == <<"drop_event", "duplicate_event", "reorder_event", "transport_outage",
               "delay_evaluation", "evaluator_crash", "evaluator_disagree",
               "enforcement_fail", "telemetry_lie", "retry_double">>

Lists == {<<>>} \cup {<<k>> : k \in FaultKinds}
         \cup {<<KindOrder[p[1]], KindOrder[p[2]]>> :
                  p \in {q \in (1..10) \X (1..10) : q[1] < q[2]}}

TheStudies == Controls(Half) \cup UNION {Matrix(kinds, FiveSixths) : kinds \in Lists}
TheSettings == {s.settings[i] : s \in TheStudies, i \in {1, 2}}
TwoActions == {Harmful("exec_shell", {"curl", "/etc/"}), Harmful("send_email", {"attachment"})}
AllKinds == FaultKinds \cup {NoFault}
=============================================================================
