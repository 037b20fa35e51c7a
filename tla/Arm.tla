--------------------------------- MODULE Arm ---------------------------------
(* One run of one arm (arms.py, run_arm): the loop that takes each event of *)
(* the scenario through publish, consume, evaluate, decide, enforce and     *)
(* record, over the faulty edge, the broker and the effector.  The loop is  *)
(* one thread; pc names the point it has reached, so that every state       *)
(* between two chain records it writes is a state of the model.  What the   *)
(* thread does not control is the clock: how long a pass takes is chosen.   *)
EXTENDS Effector, FaultLab

CONSTANTS
    Kinds,                  \* the faults a schedule may hold
    Actions,                \* the actions a scenario may hold
    Latencies,              \* the times one pass up to the deadline may take
    DeadlineMs,             \* how long the gate waits for a decision
    DelayMs                 \* what a delayed evaluation adds to the latency

AllModes ==
    [arm : {"in_series", "monitor"}, failClosed : BOOLEAN, idempotent : BOOLEAN,
     singleWriter : BOOLEAN, crashing : BOOLEAN, second : BOOLEAN,
     evaluator : {"eval/1.0", "eval/1.1"}, policy : PolicyVersions]

ASSUME ArmAssumption ==
    /\ Modes \subseteq AllModes
    /\ Kinds \subseteq FaultKinds \cup {NoFault}
    /\ Actions \subseteq Catalogue
    /\ Latencies \subseteq Nat
    /\ DeadlineMs \in Nat
    /\ DelayMs \in Nat

VARIABLES
    scenario,               \* event -> the action it attempts; never changes
    cur,                    \* the event the loop is at
    pc,                     \* where in the loop's body it is
    next,                   \* the next delivery of the batch to look at
    target,                 \* the delivery of cur, or 0 when there is none
    verdict,                \* the risk the evaluator returned, or NoRisk
    ruling,                 \* what was decided for cur
    decisions,              \* the decision chain
    tally                   \* the counters of the run's result

inputVars == <<mode, scenario, schedule>>
loopVars == <<next, target, verdict, ruling>>
vars == <<inputVars, brokerVars, labVars, effectVars, cur, pc, loopVars, decisions, tally>>

Counters == {"lateBlocks", "outageRefusals", "crashes", "redelivered", "disagreements",
             "noDecision", "timed"}

NoRisk == -1
NoRuling == [decision |-> "ALLOW", outcome |-> "none", permitted |-> FALSE, alt |-> NoRisk]

InSeries == mode.arm = "in_series"
Fault == schedule[cur]

\* The monitor acts before the safeguard sees the event.
FirstPc == IF InSeries THEN "publish" ELSE "act"

\* A run begins with new chains, a new effector and an empty broker.
FreshRun ==
    /\ BrokerInit /\ LabInit /\ EffectorInit
    /\ cur = 1 /\ pc = FirstPc
    /\ next = 0 /\ target = 0 /\ verdict = NoRisk /\ ruling = NoRuling
    /\ decisions = <<>>
    /\ tally = [counter \in Counters |-> 0]

\* Each event attempts an action of its own, drawn from the grammar by the seed.
Scenarios == [Events -> Actions]

Init ==
    /\ mode \in Modes
    /\ scenario \in Scenarios
    /\ schedule \in [Events -> Kinds]
    /\ FreshRun

Count(condition) == IF condition THEN 1 ELSE 0
Add(counts, counter, n) == [counts EXCEPT ![counter] = @ + n]

\* The end of the loop's body: the locals are gone, the next event is up.
NextEvent ==
    /\ cur' = cur + 1
    /\ pc' = IF cur = N THEN "flush" ELSE FirstPc
    /\ next' = 0 /\ target' = 0 /\ verdict' = NoRisk /\ ruling' = NoRuling

\* Slip: without a verdict there is nothing to record.
RecordIfScored(e, risk, decision, outcome, note, alt) ==
    IF risk = NoRisk
    THEN UNCHANGED decisions
    ELSE decisions' = Append(decisions, [event |-> e, risk |-> risk, decision |-> decision,
                                         outcome |-> outcome, note |-> note, alt |-> alt])

Record(e, risk, decision, outcome, note, alt) ==
    decisions' = Append(decisions, [event |-> e, risk |-> risk, decision |-> decision,
                                    outcome |-> outcome, note |-> note, alt |-> alt])

\* Slip: the decision on record without a verdict ignores the fail mode.
AllowOnRecord == "ALLOW"

FailModeDecision == IF mode.failClosed THEN "BLOCK" ELSE "ALLOW"

\* The evaluator on an event: it either crashes or scores the action.
Score(e) == Evaluate(mode.evaluator, scenario[e])

----------------------------------------------------------------------------
(* Acting first, and publishing.                                            *)

MonitorActs ==
    /\ pc = "act"
    /\ Execute(cur, TRUE, "(none yet)")
    /\ pc' = "publish"
    /\ UNCHANGED <<inputVars, brokerVars, labVars, cur, loopVars, decisions, tally>>

\* Dropped or held back: nothing to read for this event, straight to the decision.
PublishLost ==
    /\ pc = "publish"
    /\ Drop(cur) \/ Hold(cur)
    /\ pc' = "decide"
    /\ UNCHANGED <<inputVars, cursor, pending, effectVars, cur, loopVars, decisions, tally>>

PublishSent ==
    /\ pc = "publish"
    /\ Send(cur)
    /\ pc' = "consume"
    /\ UNCHANGED <<inputVars, cursor, pending, effectVars, cur, loopVars, decisions, tally>>

\* Slip: after refusing an outage the loop's body goes on.
OutageFallsThrough ==
    /\ pc = "publish" /\ InSeries
    /\ Outage(cur)
    /\ tally' = Add(tally, "outageRefusals", 1)
    /\ Record(cur, NoRisk, FailModeDecision, "REFUSED_TRANSPORT_DOWN", "outage", NoRisk)
    /\ pc' = IF mode.failClosed THEN "decide" ELSE "failopen"
    /\ UNCHANGED <<inputVars, cursor, pending, effectVars, cur, loopVars>>

\* In series the fail mode rules on an outage: refused, or recorded as allowed and then run.
RefuseOnOutage ==
    /\ pc = "publish" /\ InSeries
    /\ Outage(cur)
    /\ tally' = Add(tally, "outageRefusals", 1)
    /\ Record(cur, NoRisk, FailModeDecision, "REFUSED_TRANSPORT_DOWN", "outage", NoRisk)
    /\ IF mode.failClosed THEN NextEvent ELSE pc' = "failopen" /\ UNCHANGED <<cur, loopVars>>
    /\ UNCHANGED <<inputVars, cursor, pending, effectVars>>

\* Slip: failing open on an outage skips the effector.
FailOpenUnasked ==
    /\ pc = "failopen"
    /\ NextEvent
    /\ UNCHANGED <<inputVars, brokerVars, labVars, effectVars, decisions, tally>>

FailOpenOnOutage ==
    /\ pc = "failopen"
    /\ Execute(cur, TRUE, "ALLOW")
    /\ NextEvent
    /\ UNCHANGED <<inputVars, brokerVars, labVars, decisions, tally>>

\* The monitor has acted already: an outage only leaves it without a verdict.
OutageUnseen ==
    /\ pc = "publish" /\ ~InSeries
    /\ Outage(cur)
    /\ pc' = "decide"
    /\ UNCHANGED <<inputVars, cursor, pending, effectVars, cur, loopVars, decisions, tally>>

----------------------------------------------------------------------------
(* Reading a batch, one delivery after another.                             *)

ConsumeBatch ==
    /\ pc = "consume"
    /\ Consume
    /\ next' = cursor + 1
    /\ pc' = "drain"
    /\ UNCHANGED <<inputVars, labVars, effectVars, cur, target, verdict, ruling, decisions, tally>>

\* The last delivery of the event itself is the one the gate waits on.
FindTarget ==
    /\ pc = "drain" /\ next <= cursor
    /\ stream[next] = cur
    /\ target' = next
    /\ next' = next + 1
    /\ UNCHANGED <<inputVars, brokerVars, labVars, effectVars, cur, pc, verdict, ruling,
                   decisions, tally>>

\* Any other delivery is judged and acknowledged on the spot; a crash loses the record.
DrainBacklog ==
    /\ pc = "drain" /\ next <= cursor
    /\ stream[next] # cur
    /\ IF mode.crashing
       THEN UNCHANGED decisions
       ELSE Record(stream[next], Score(stream[next]),
                   Decide(mode.policy, Score(stream[next])), "DECIDED_BACKLOG", "backlog", NoRisk)
    /\ Ack(next)
    /\ next' = next + 1
    /\ UNCHANGED <<inputVars, stream, cursor, labVars, effectVars, cur, pc, target, verdict,
                   ruling, tally>>

BatchRead == pc = "drain" /\ next > cursor

TargetMissing ==
    /\ BatchRead /\ target = 0
    /\ pc' = "decide"
    /\ UNCHANGED <<inputVars, brokerVars, labVars, effectVars, cur, loopVars, decisions, tally>>

ScoreOrCrash == verdict' = IF mode.crashing THEN NoRisk ELSE Score(cur)

\* A crash of the evaluator itself is counted, and the delivery acknowledged all the same.
EvaluateTarget ==
    /\ BatchRead /\ target # 0
    /\ Fault # "evaluator_crash"
    /\ ScoreOrCrash
    /\ tally' = Add(tally, "crashes", Count(mode.crashing))
    /\ Ack(target)
    /\ pc' = "decide"
    /\ UNCHANGED <<inputVars, stream, cursor, labVars, effectVars, cur, next, target, ruling,
                   decisions>>

\* The recovery consumer judges the first entry it took over that is this event.
JudgeFirst ==
    /\ \E d \in Reclaimed(cur) : (\A other \in Reclaimed(cur) : d <= other) /\ Ack(d)
    /\ ScoreOrCrash

\* An injected crash leaves the delivery pending, and a recovery consumer takes over
\* whatever is; if this event is not among it, the pass goes on without a verdict.
CrashAndRedeliver ==
    /\ BatchRead /\ target # 0
    /\ Fault = "evaluator_crash"
    /\ IF Reclaimed(cur) = {}
       THEN /\ tally' = Add(tally, "crashes", 1)
            /\ UNCHANGED <<pending, verdict>>
       ELSE /\ tally' = Add(Add(tally, "crashes", 1), "redelivered", 1)
            /\ JudgeFirst
    /\ pc' = "decide"
    /\ UNCHANGED <<inputVars, stream, cursor, labVars, effectVars, cur, next, target, ruling,
                   decisions>>

----------------------------------------------------------------------------
(* Deciding.                                                                *)

AltRisk ==
    IF mode.second /\ verdict # NoRisk THEN Evaluate("eval/1.0-alt", scenario[cur]) ELSE NoRisk

Disagrees ==
    AltRisk # NoRisk /\ Decide(mode.policy, AltRisk) # Decide(mode.policy, verdict)

DelayOf(e) == IF schedule[e] = "delay_evaluation" THEN DelayMs ELSE 0

\* Slip: the deadline is checked before the delay is added.
PastDeadlineUndelayed(latency) == latency > DeadlineMs

PastDeadline(latency) == latency + DelayOf(cur) > DeadlineMs

\* The evaluator answered in time: the policy rules.
RuleByPolicy ==
    LET decision == Decide(mode.policy, verdict)
    IN ruling' = [decision |-> decision, outcome |-> "DECIDED",
                  permitted |-> decision # "BLOCK", alt |-> AltRisk]

\* Slip: without a timely verdict the action is let through whatever the fail mode.
RuleFailsOpen ==
    ruling' = [decision |-> FailModeDecision,
               outcome |-> IF verdict # NoRisk THEN "LATE" ELSE "NO_DECISION",
               permitted |-> TRUE, alt |-> AltRisk]

\* It did not: the fail mode rules.
RuleByFailMode ==
    ruling' = [decision |-> FailModeDecision,
               outcome |-> IF verdict # NoRisk THEN "LATE" ELSE "NO_DECISION",
               permitted |-> ~mode.failClosed, alt |-> AltRisk]

AfterDecision == pc' = IF InSeries THEN "enforce" ELSE "record"

DecideOnTime ==
    /\ pc = "decide" /\ verdict # NoRisk
    /\ \E latency \in Latencies : ~PastDeadline(latency)
    /\ RuleByPolicy
    /\ tally' = Add(tally, "disagreements", Count(Disagrees))
    /\ AfterDecision
    /\ UNCHANGED <<inputVars, brokerVars, labVars, effectVars, cur, next, target, verdict,
                   decisions>>

\* Slip: the gate waits for a verdict that may never come.
WaitsForVerdict == verdict # NoRisk /\ \E latency \in Latencies : PastDeadline(latency)

NoVerdictInTime == verdict = NoRisk \/ \E latency \in Latencies : PastDeadline(latency)

\* Slip: what the fail mode blocked is counted as a block that came late.
LateByFailMode == verdict # NoRisk /\ FailModeDecision = "BLOCK"

LateBlock == verdict # NoRisk /\ Decide(mode.policy, verdict) = "BLOCK"

DecideWithout ==
    /\ pc = "decide"
    /\ NoVerdictInTime
    /\ RuleByFailMode
    /\ tally' = Add(Add(Add(tally, "noDecision", 1), "lateBlocks", Count(LateBlock)),
                    "disagreements", Count(Disagrees))
    /\ AfterDecision
    /\ UNCHANGED <<inputVars, brokerVars, labVars, effectVars, cur, next, target, verdict,
                   decisions>>

----------------------------------------------------------------------------
(* Enforcing, retrying and recording.                                       *)

\* Slip: a telemetry lie is injected like an enforcement failure.
LiesAreInjected == Fault \in {"enforcement_fail", "telemetry_lie"}

EnforcementFails == Fault = "enforcement_fail"

Enforce ==
    /\ pc = "enforce"
    /\ Execute(cur, ruling.permitted \/ EnforcementFails, ruling.decision)
    /\ pc' = IF Fault = "retry_double" THEN "retry" ELSE "record"
    /\ UNCHANGED <<inputVars, brokerVars, labVars, cur, loopVars, decisions, tally>>

RetryDouble ==
    /\ pc = "retry"
    /\ Execute(cur, ruling.permitted, ruling.decision)
    /\ pc' = "record"
    /\ UNCHANGED <<inputVars, brokerVars, labVars, cur, loopVars, decisions, tally>>

RecordDecision ==
    /\ pc = "record"
    /\ Record(cur, verdict, ruling.decision, ruling.outcome,
              IF EnforcementFails THEN "enforcement_failed" ELSE "none", ruling.alt)
    /\ tally' = Add(tally, "timed", 1)
    /\ NextEvent
    /\ UNCHANGED <<inputVars, brokerVars, labVars, effectVars>>

\* After the loop, what the edge still holds is published; nobody reads it.
Flush ==
    /\ pc = "flush"
    /\ FlushReorderBuffer
    /\ pc' = "done"
    /\ UNCHANGED <<inputVars, cursor, pending, effectVars, cur, loopVars, decisions, tally>>

Next ==
    \/ MonitorActs \/ PublishLost \/ PublishSent \/ RefuseOnOutage \/ FailOpenOnOutage
    \/ OutageUnseen
    \/ ConsumeBatch \/ FindTarget \/ DrainBacklog
    \/ TargetMissing \/ EvaluateTarget \/ CrashAndRedeliver
    \/ DecideOnTime \/ DecideWithout \/ Enforce \/ RetryDouble \/ RecordDecision
    \/ Flush

Spec == Init /\ [][Next]_vars

\* The loop is one thread that no step of it blocks.
FairSpec == Spec /\ WF_vars(Next)
=============================================================================
