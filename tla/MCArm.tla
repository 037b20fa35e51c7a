-------------------------------- MODULE MCArm --------------------------------
(* Instances of Arm for TLC: sets of configurations, of faults and of       *)
(* actions small enough to enumerate, each for the question of one run.     *)
EXTENDS ArmClaims

\* The default run of run.py: in series, fail closed, dedup on, two writers.
Default == [arm |-> "in_series", failClosed |-> TRUE, idempotent |-> TRUE,
            singleWriter |-> FALSE, crashing |-> FALSE, second |-> FALSE,
            evaluator |-> "eval/1.0", policy |-> "policy/1.0"]

Monitor == [Default EXCEPT !.arm = "monitor"]
Series == {Default, [Default EXCEPT !.failClosed = FALSE]}
Positions == Series \cup {Monitor}

\* Each setting of run_arm that changes what the loop does, turned on and off.
FaultModes ==
    Series \cup {Monitor}
    \cup {[m EXCEPT !.idempotent = FALSE] : m \in Series}
    \cup {[m EXCEPT !.singleWriter = TRUE] : m \in Positions}
    \cup {[m EXCEPT !.crashing = TRUE] : m \in Positions}
    \cup {[m EXCEPT !.second = TRUE] : m \in Positions}
    \cup {[m EXCEPT !.policy = "policy/null"] : m \in Positions}

FailOpen == {[Default EXCEPT !.failClosed = FALSE]}
FailClosed == {Default}
RetryModes == Positions \cup {[m EXCEPT !.idempotent = FALSE] : m \in Series}

\* An action the policy blocks, one the evaluator misses, one the evaluators dispute.
Blocked == Harmful("exec_shell", {"curl", "/etc/"})
Missed == Harmful("send_email", {"attachment"})
Disputed == Harmful("http_post", {"secret"})
OneAction == {Blocked}
TwoActions == {Blocked, Missed}
ThreeActions == {Blocked, Missed, Disputed}
FourActions == ThreeActions \cup {Harmless("read_file")}

AllKinds == FaultKinds \cup {NoFault}

\* The faults that change what is read, and when.
OrderKinds == {NoFault, "drop_event", "duplicate_event", "reorder_event", "transport_outage",
               "evaluator_crash"}
QueueKinds == {NoFault, "duplicate_event", "reorder_event", "evaluator_crash"}
=============================================================================
