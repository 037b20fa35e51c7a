------------------------------ MODULE ArmProofs ------------------------------
(* Theorems about a run of an arm, for every scenario length, batch size,   *)
(* configuration, schedule, scenario and clock.                             *)
EXTENDS ArmProperties, TLAPS

----------------------------------------------------------------------------
(* The pure parts.                                                          *)

(* Every weight an evaluator may find is one of five (evaluator.py RULES). *)
LEMMA WeightsAreFew ==
    ASSUME NEW v, NEW a
    PROVE  Weights(v, a) \subseteq {0, 75, 80, 85, 90} /\ 0 \in Weights(v, a)
<1>1. ASSUME NEW r \in RulesV2 PROVE r.weight \in {75, 80, 85, 90}
  <2>1. \E tool, needle : \E weight \in {75, 80, 85, 90} : r = Rule(tool, needle, weight)
    BY Zenon DEF RulesV2, RulesV1
  <2> QED BY <2>1 DEF Rule
<1>2. Rules(v) \subseteq RulesV2
  BY DEF Rules, RulesV2
<1> QED BY <1>1, <1>2 DEF Weights

(* So the largest weight exists, and it is one of the five                  *)
(* (evaluator.py 51-60).                                                    *)
LEMMA RuleRiskType ==
    ASSUME NEW v, NEW a
    PROVE  RuleRisk(v, a) \in {0, 75, 80, 85, 90}
<1> DEFINE W == Weights(v, a)
<1>1. \E w \in W : \A x \in W : x <= w
  BY WeightsAreFew
<1>2. RuleRisk(v, a) \in W
  BY <1>1 DEF RuleRisk
<1> QED BY <1>2, WeightsAreFew

(* An evaluator's verdict is a risk between 0 and 1 (evaluator.py).         *)
LEMMA EvaluateType ==
    ASSUME NEW v, NEW a
    PROVE  Evaluate(v, a) \in Risks
  BY RuleRiskType DEF Evaluate, Downweight, Risks

\* Whatever the policy and the risk, there is a decision (policy.py 43-50).
LEMMA DecideType ==
    ASSUME NEW p, NEW r
    PROVE  Decide(p, r) \in Decisions
  BY DEF Decide, Decisions

(* What a scored event yields: a risk, and a decision on it.                *)
LEMMA ScoreType ==
    ASSUME NEW e
    PROVE  Score(e) \in Risks
  BY EvaluateType DEF Score

----------------------------------------------------------------------------
(* Types.                                                                   *)

\* A call of the effector keeps the types of its counters and its chain.
LEMMA ExecuteType ==
    ASSUME TypeOK, NEW e \in Events, NEW permitted \in BOOLEAN, NEW reported,
           Execute(e, permitted, reported)
    PROVE  /\ asked' \in [Events -> Nat]
           /\ ran' \in [Events -> Nat]
           /\ effects' \in Seq(EffectRecords)
<1>1. Executes(permitted, reported) \in BOOLEAN
  BY DEF Executes
<1>2. CASE Absorbs(e)
  <2>1. asked' = [asked EXCEPT ![e] = @ + 1] /\ ran' = ran /\ effects' = effects
    BY <1>2 DEF Execute
  <2> QED BY <2>1 DEF TypeOK
<1>3. CASE ~Absorbs(e)
  <2> DEFINE runs == ran[e] + (IF Executes(permitted, reported) THEN 1 ELSE 0)
  <2> DEFINE record == [event |-> e, executed |-> Executes(permitted, reported),
                        deliveries |-> asked[e] + 1, executions |-> runs]
  <2>1. asked' = [asked EXCEPT ![e] = @ + 1] /\ ran' = [ran EXCEPT ![e] = runs]
        /\ effects' = Append(effects, record)
    BY <1>3 DEF Execute
  <2>2. runs \in Nat /\ asked[e] + 1 \in Nat
    BY DEF TypeOK
  <2>3. record \in EffectRecords
    BY <1>1, <2>2 DEF EffectRecords
  <2> HIDE DEF runs, record
  <2> QED BY <2>1, <2>2, <2>3 DEF TypeOK
<1> QED BY <1>2, <1>3

\* A well-formed record keeps the decision chain well-formed.
LEMMA RecordType ==
    ASSUME TypeOK, NEW e \in Events, NEW risk \in Risks \cup {NoRisk},
           NEW decision \in Decisions, NEW outcome \in Outcomes,
           NEW note \in {"none", "outage", "backlog", "enforcement_failed"},
           NEW alt \in Risks \cup {NoRisk},
           Record(e, risk, decision, outcome, note, alt)
    PROVE  decisions' \in Seq(DecisionRecords)
<1> DEFINE record == [event |-> e, risk |-> risk, decision |-> decision,
                      outcome |-> outcome, note |-> note, alt |-> alt]
<1>1. record \in DecisionRecords
  BY DEF DecisionRecords
<1>2. decisions' = Append(decisions, record)
  BY DEF Record
<1> HIDE DEF record
<1> QED BY <1>1, <1>2 DEF TypeOK

\* The fields of a configuration.
LEMMA ModeType ==
    ASSUME mode \in Modes
    PROVE  /\ mode.failClosed \in BOOLEAN /\ mode.idempotent \in BOOLEAN
           /\ mode.singleWriter \in BOOLEAN /\ mode.crashing \in BOOLEAN
           /\ mode.second \in BOOLEAN
  BY ArmAssumption DEF AllModes

\* Adding an event to one of the edge's lists.
LEMMA EdgeType ==
    ASSUME edge \in EdgeLists, NEW e \in Events
    PROVE  /\ [edge EXCEPT !.dropped = Append(@, e)] \in EdgeLists
           /\ [edge EXCEPT !.duplicated = Append(@, e)] \in EdgeLists
           /\ [edge EXCEPT !.outaged = Append(@, e)] \in EdgeLists
<1>1. /\ Append(edge.dropped, e) \in Seq(Events)
      /\ Append(edge.duplicated, e) \in Seq(Events)
      /\ Append(edge.outaged, e) \in Seq(Events)
  BY DEF EdgeLists
<1> QED BY <1>1 DEF EdgeLists

\* The end of the loop's body keeps the types and the shape of the loop.
LEMMA NextEventType ==
    ASSUME cur \in Events, cursor' \in Nat, NextEvent, UNCHANGED mode
    PROVE  /\ cur' \in 1..N + 1 /\ pc' \in PcValues
           /\ next' \in Nat /\ target' \in 0..cursor'
           /\ verdict' \in Risks \cup {NoRisk} /\ ruling' \in Rulings
           /\ LoopShape'
<1>1. NoRuling \in Rulings /\ NoRisk \in Risks \cup {NoRisk}
  BY DEF NoRuling, Rulings, Decisions
<1>2. cur' \in 1..N + 1 /\ (cur = N \/ cur' \in Events)
  BY NAssumption DEF NextEvent, Events
<1>3. pc' \in {"act", "publish", "flush"} /\ (pc' = "flush" <=> cur = N)
  BY DEF NextEvent, FirstPc
<1>4. pc' = "act" => ~InSeries'
  BY <1>3 DEF NextEvent, FirstPc, InSeries
<1>5. LoopShape'
  BY <1>2, <1>3, <1>4 DEF NextEvent, LoopShape
<1>6. next' = 0 /\ target' = 0 /\ verdict' = NoRisk /\ ruling' = NoRuling
  BY DEF NextEvent
<1>7. pc' \in PcValues
  BY <1>3 DEF PcValues
<1>8. next' \in Nat /\ target' \in 0..cursor'
  BY <1>6
<1>9. verdict' \in Risks \cup {NoRisk} /\ ruling' \in Rulings
  BY <1>1, <1>6
<1> QED BY <1>2, <1>5, <1>7, <1>8, <1>9

\* The second opinion is a risk or none (arms.py 234-238).
LEMMA AltType == AltRisk \in Risks \cup {NoRisk}
  BY EvaluateType DEF AltRisk

\* Adding to one counter leaves every counter a number.
LEMMA AddType ==
    ASSUME NEW counts \in [Counters -> Nat], NEW counter \in Counters, NEW n \in Nat
    PROVE  Add(counts, counter, n) \in [Counters -> Nat]
  BY DEF Add

\* What a condition adds to a counter is a number.
LEMMA CountType == \A condition : Count(condition) \in Nat
  BY DEF Count

\* Every step keeps the types and the shape of the loop.
LEMMA ShapeStep ==
    ASSUME TypeOK, LoopShape, [Next]_vars
    PROVE  TypeOK' /\ LoopShape'
<1> USE DEF inputVars, brokerVars, labVars, effectVars, loopVars
<1>1. CASE MonitorActs
  <2>1. cur \in Events
    BY <1>1 DEF MonitorActs, LoopShape
  <2>2. /\ asked' \in [Events -> Nat] /\ ran' \in [Events -> Nat]
        /\ effects' \in Seq(EffectRecords)
    BY <1>1, <2>1, ExecuteType DEF MonitorActs
  <2> QED BY <1>1, <2>2 DEF MonitorActs, TypeOK, LoopShape, PcValues, InSeries
<1>2. CASE PublishLost
  <2>1. cur \in Events
    BY <1>2 DEF PublishLost, LoopShape
  <2>2. stream' = stream /\ held' \in Seq(Events) /\ edge' \in EdgeLists
    <3>1. CASE Drop(cur)
      BY <3>1, <2>1, EdgeType DEF Drop, TypeOK
    <3>2. CASE Hold(cur)
      BY <3>2, <2>1 DEF Hold, TypeOK
    <3> QED BY <1>2, <3>1, <3>2 DEF PublishLost
  <2> QED BY <1>2, <2>2 DEF PublishLost, TypeOK, LoopShape, PcValues, InSeries
<1>3. CASE PublishSent
  <2>1. cur \in Events
    BY <1>3 DEF PublishSent, LoopShape
  <2>2. Copies(cur) \in Seq(Events)
    BY <2>1 DEF Copies
  <2>3. stream' \in Seq(Events) /\ Len(stream') >= Len(stream) /\ held' \in Seq(Events)
    BY <1>3, <2>2 DEF PublishSent, Send, Publish, TypeOK
  <2>4. edge' \in EdgeLists
    BY <1>3, <2>1, EdgeType DEF PublishSent, Send, TypeOK
  <2>5. cursor \in 0..Len(stream')
    BY <2>3 DEF TypeOK
  <2>6. TypeOK'
    BY <1>3, <2>3, <2>4, <2>5 DEF PublishSent, TypeOK, PcValues
  <2> QED BY <1>3, <2>6 DEF PublishSent, LoopShape, InSeries
<1>4. CASE RefuseOnOutage
  <2>1. cur \in Events /\ InSeries
    BY <1>4 DEF RefuseOnOutage, LoopShape
  <2>2. stream' = stream /\ held' = held /\ edge' \in EdgeLists
    BY <1>4, <2>1, EdgeType DEF RefuseOnOutage, Outage, TypeOK
  <2>3. decisions' \in Seq(DecisionRecords)
    <3>1. FailModeDecision \in Decisions
      BY DEF FailModeDecision, Decisions
    <3> QED BY <1>4, <2>1, <3>1, RecordType DEF RefuseOnOutage, Outcomes
  <2>4. tally' \in [Counters -> Nat]
    BY <1>4, AddType, CountType DEF RefuseOnOutage, TypeOK, Counters
  <2>5. CASE mode.failClosed
    <3>1. NextEvent /\ cursor' = cursor /\ mode' = mode
      BY <1>4, <2>5 DEF RefuseOnOutage
    <3>2. cursor' \in Nat
      BY <3>1 DEF TypeOK
    <3>3. /\ cur' \in 1..N + 1 /\ pc' \in PcValues /\ next' \in Nat /\ target' \in 0..cursor'
          /\ verdict' \in Risks \cup {NoRisk} /\ ruling' \in Rulings /\ LoopShape'
      BY <2>1, <3>1, <3>2, NextEventType
    <3> QED BY <1>4, <2>2, <2>3, <2>4, <3>3 DEF RefuseOnOutage, TypeOK
  <2>6. CASE ~mode.failClosed
    <3>1. pc' = "failopen" /\ UNCHANGED <<cur, loopVars>>
      BY <1>4, <2>6 DEF RefuseOnOutage
    <3>2. TypeOK'
      BY <1>4, <2>2, <2>3, <2>4, <3>1 DEF RefuseOnOutage, TypeOK, PcValues
    <3> QED BY <1>4, <2>1, <2>6, <3>1, <3>2 DEF RefuseOnOutage, LoopShape, InSeries
  <2> QED BY <2>5, <2>6
<1>5. CASE FailOpenOnOutage
  <2>1. cur \in Events
    BY <1>5 DEF FailOpenOnOutage, LoopShape
  <2>2. /\ asked' \in [Events -> Nat] /\ ran' \in [Events -> Nat]
        /\ effects' \in Seq(EffectRecords)
    BY <1>5, <2>1, ExecuteType DEF FailOpenOnOutage
  <2>3. NextEvent /\ cursor' = cursor /\ mode' = mode
    BY <1>5 DEF FailOpenOnOutage
  <2>4. cursor' \in Nat
    BY <2>3 DEF TypeOK
  <2>5. /\ cur' \in 1..N + 1 /\ pc' \in PcValues /\ next' \in Nat /\ target' \in 0..cursor'
        /\ verdict' \in Risks \cup {NoRisk} /\ ruling' \in Rulings /\ LoopShape'
    BY <2>1, <2>3, <2>4, NextEventType
  <2> QED BY <1>5, <2>2, <2>5 DEF FailOpenOnOutage, TypeOK
<1>6. CASE OutageUnseen
  <2>1. cur \in Events
    BY <1>6 DEF OutageUnseen, LoopShape
  <2>2. stream' = stream /\ held' = held /\ edge' \in EdgeLists
    BY <1>6, <2>1, EdgeType DEF OutageUnseen, Outage, TypeOK
  <2> QED BY <1>6, <2>2 DEF OutageUnseen, TypeOK, LoopShape, PcValues, InSeries
<1>7. CASE ConsumeBatch
  <2>1. cursor \in Nat /\ Len(stream) \in Nat /\ BatchSize \in Nat /\ cursor <= Len(stream)
    BY BatchSizeAssumption DEF TypeOK
  <2>2. BatchEnd \in cursor..Len(stream)
    BY <2>1 DEF BatchEnd
  <2>3. cursor' = BatchEnd /\ stream' = stream /\ pending' = pending \cup (cursor + 1 .. BatchEnd)
    BY <1>7 DEF ConsumeBatch, Consume
  <2>4. cursor' \in 0..Len(stream') /\ pending' \subseteq 1..cursor' /\ target \in 0..cursor'
    BY <2>1, <2>2, <2>3 DEF TypeOK
  <2>5. next' \in Nat /\ next' >= 1
    BY <1>7, <2>1 DEF ConsumeBatch
  <2> QED BY <1>7, <2>3, <2>4, <2>5 DEF ConsumeBatch, TypeOK, LoopShape, PcValues, InSeries
<1>8. CASE FindTarget
  BY <1>8 DEF FindTarget, TypeOK, LoopShape, PcValues, InSeries
<1>9. CASE DrainBacklog
  <2>1. next \in 1..Len(stream)
    BY <1>9 DEF DrainBacklog, TypeOK, LoopShape
  <2>2. stream[next] \in Events
    BY <2>1 DEF TypeOK
  <2>3. decisions' \in Seq(DecisionRecords)
    <3> DEFINE e == stream[next]
    <3>1. CASE mode.crashing
      BY <1>9, <3>1 DEF DrainBacklog, TypeOK
    <3>2. CASE ~mode.crashing
      <4>1. Score(e) \in Risks /\ Decide(mode.policy, Score(e)) \in Decisions
        BY ScoreType, DecideType
      <4>2. Record(e, Score(e), Decide(mode.policy, Score(e)), "DECIDED_BACKLOG", "backlog", NoRisk)
        BY <1>9, <3>2 DEF DrainBacklog
      <4> QED BY <2>2, <4>1, <4>2, RecordType DEF Outcomes
    <3> QED BY <3>1, <3>2
  <2>4. pending' \subseteq 1..cursor
    BY <1>9 DEF DrainBacklog, Ack, TypeOK
  <2>5. next' \in Nat /\ next' >= 1
    BY <1>9 DEF DrainBacklog, TypeOK
  <2> QED BY <1>9, <2>3, <2>4, <2>5 DEF DrainBacklog, TypeOK, LoopShape, PcValues, InSeries
<1>10. CASE TargetMissing
  BY <1>10 DEF TargetMissing, BatchRead, TypeOK, LoopShape, PcValues, InSeries
<1>11. CASE EvaluateTarget
  <2>1. verdict' \in Risks \cup {NoRisk}
    BY <1>11, ScoreType DEF EvaluateTarget, ScoreOrCrash
  <2>2. tally' \in [Counters -> Nat]
    BY <1>11, AddType, CountType DEF EvaluateTarget, TypeOK, Counters
  <2>3. pending' \subseteq 1..cursor
    BY <1>11 DEF EvaluateTarget, Ack, TypeOK
  <2> QED BY <1>11, <2>1, <2>2, <2>3
          DEF EvaluateTarget, BatchRead, TypeOK, LoopShape, PcValues, InSeries
<1>12. CASE CrashAndRedeliver
  <2>1. verdict' \in Risks \cup {NoRisk}
    BY <1>12, ScoreType DEF CrashAndRedeliver, JudgeFirst, ScoreOrCrash, TypeOK
  <2>2. tally' \in [Counters -> Nat]
    <3>1. Add(tally, "crashes", 1) \in [Counters -> Nat]
      BY AddType DEF TypeOK, Counters
    <3>2. Add(Add(tally, "crashes", 1), "redelivered", 1) \in [Counters -> Nat]
      BY <3>1, AddType DEF Counters
    <3> QED BY <1>12, <3>1, <3>2 DEF CrashAndRedeliver
  <2>3. pending' \subseteq 1..cursor
    BY <1>12 DEF CrashAndRedeliver, JudgeFirst, Ack, TypeOK
  <2> QED BY <1>12, <2>1, <2>2, <2>3
          DEF CrashAndRedeliver, BatchRead, TypeOK, LoopShape, PcValues, InSeries
<1>13. CASE DecideOnTime
  <2>1. ruling' \in Rulings
    BY <1>13, AltType, DecideType DEF DecideOnTime, RuleByPolicy, Rulings, Outcomes
  <2>2. tally' \in [Counters -> Nat]
    BY <1>13, AddType, CountType DEF DecideOnTime, TypeOK, Counters
  <2>3. pc' \in {"enforce", "record"} /\ (pc' = "enforce" => InSeries)
    BY <1>13 DEF DecideOnTime, AfterDecision
  <2>4. ruling'.outcome # "none"
    BY <1>13 DEF DecideOnTime, RuleByPolicy
  <2>5. TypeOK'
    BY <1>13, <2>1, <2>2, <2>3 DEF DecideOnTime, TypeOK, PcValues
  <2> QED BY <1>13, <2>3, <2>4, <2>5 DEF DecideOnTime, LoopShape, InSeries
<1>14. CASE DecideWithout
  <2>1. ruling' \in Rulings
    <3>1. FailModeDecision \in Decisions /\ (~mode.failClosed) \in BOOLEAN
      BY DEF FailModeDecision, Decisions
    <3> QED BY <1>14, <3>1, AltType DEF DecideWithout, RuleByFailMode, Rulings, Outcomes
  <2>2. tally' \in [Counters -> Nat]
    BY <1>14, AddType, CountType DEF DecideWithout, TypeOK, Counters
  <2>3. pc' \in {"enforce", "record"} /\ (pc' = "enforce" => InSeries)
    BY <1>14 DEF DecideWithout, AfterDecision
  <2>4. ruling'.outcome # "none"
    BY <1>14 DEF DecideWithout, RuleByFailMode
  <2>5. TypeOK'
    BY <1>14, <2>1, <2>2, <2>3 DEF DecideWithout, TypeOK, PcValues
  <2> QED BY <1>14, <2>3, <2>4, <2>5 DEF DecideWithout, LoopShape, InSeries
<1>15. CASE Enforce
  <2>1. cur \in Events
    BY <1>15 DEF Enforce, LoopShape
  <2>2. ruling.permitted \/ EnforcementFails \in BOOLEAN
    BY DEF TypeOK, Rulings, EnforcementFails
  <2>3. /\ asked' \in [Events -> Nat] /\ ran' \in [Events -> Nat]
        /\ effects' \in Seq(EffectRecords)
    BY <1>15, <2>1, <2>2, ExecuteType DEF Enforce
  <2>4. pc' = (IF schedule[cur] = "retry_double" THEN "retry" ELSE "record")
    BY <1>15 DEF Enforce, Fault
  <2> QED BY <1>15, <2>3, <2>4 DEF Enforce, TypeOK, LoopShape, PcValues, InSeries
<1>16. CASE RetryDouble
  <2>1. cur \in Events /\ ruling.permitted \in BOOLEAN
    BY <1>16 DEF RetryDouble, LoopShape, TypeOK, Rulings
  <2>2. /\ asked' \in [Events -> Nat] /\ ran' \in [Events -> Nat]
        /\ effects' \in Seq(EffectRecords)
    BY <1>16, <2>1, ExecuteType DEF RetryDouble
  <2> QED BY <1>16, <2>2 DEF RetryDouble, TypeOK, LoopShape, PcValues, InSeries
<1>17. CASE RecordDecision
  <2>1. cur \in Events
    BY <1>17 DEF RecordDecision, LoopShape
  <2>2. decisions' \in Seq(DecisionRecords)
    <3>1. /\ ruling.decision \in Decisions /\ ruling.outcome \in Outcomes
          /\ ruling.alt \in Risks \cup {NoRisk} /\ verdict \in Risks \cup {NoRisk}
      BY <1>17 DEF RecordDecision, TypeOK, LoopShape, Rulings
    <3> QED BY <1>17, <2>1, <3>1, RecordType DEF RecordDecision
  <2>3. tally' \in [Counters -> Nat]
    BY <1>17, AddType, CountType DEF RecordDecision, TypeOK, Counters
  <2>4. NextEvent /\ cursor' = cursor /\ mode' = mode
    BY <1>17 DEF RecordDecision
  <2>5. cursor' \in Nat
    BY <2>4 DEF TypeOK
  <2>6. /\ cur' \in 1..N + 1 /\ pc' \in PcValues /\ next' \in Nat /\ target' \in 0..cursor'
        /\ verdict' \in Risks \cup {NoRisk} /\ ruling' \in Rulings /\ LoopShape'
    BY <2>1, <2>4, <2>5, NextEventType
  <2> QED BY <1>17, <2>2, <2>3, <2>6 DEF RecordDecision, TypeOK
<1>18. CASE Flush
  <2>1. stream' \in Seq(Events) /\ Len(stream') >= Len(stream) /\ held' \in Seq(Events)
    BY <1>18 DEF Flush, FlushReorderBuffer, Publish, TypeOK
  <2>2. cursor \in 0..Len(stream')
    BY <2>1 DEF TypeOK
  <2>3. edge' = edge
    BY <1>18 DEF Flush, FlushReorderBuffer
  <2> QED BY <1>18, <2>1, <2>2, <2>3 DEF Flush, TypeOK, LoopShape, PcValues, InSeries
<1>19. CASE UNCHANGED vars
  BY <1>19 DEF vars, TypeOK, LoopShape, InSeries
<1> QED BY <1>1, <1>2, <1>3, <1>4, <1>5, <1>6, <1>7, <1>8, <1>9, <1>10, <1>11, <1>12,
           <1>13, <1>14, <1>15, <1>16, <1>17, <1>18, <1>19 DEF Next

\* The initial states have the types and the shape.
LEMMA ShapeInit == Init => TypeOK /\ LoopShape
<1> SUFFICES ASSUME Init PROVE TypeOK /\ LoopShape
  OBVIOUS
<1>1. /\ stream = <<>> /\ held = <<>> /\ effects = <<>> /\ decisions = <<>>
      /\ cursor = 0 /\ pending = {} /\ next = 0 /\ target = 0
  BY DEF Init, FreshRun, Scenarios, BrokerInit, LabInit, EffectorInit
<1>2. edge \in EdgeLists /\ ruling \in Rulings /\ verdict \in Risks \cup {NoRisk}
  BY DEF Init, FreshRun, Scenarios, LabInit, EdgeLists, NoRuling, Rulings, Decisions
<1>3. tally \in [Counters -> Nat] /\ asked \in [Events -> Nat] /\ ran \in [Events -> Nat]
  BY DEF Init, FreshRun, Scenarios, EffectorInit
<1>4. cur = 1 /\ cur \in Events /\ cur \in 1..N + 1
  BY NAssumption DEF Init, FreshRun, Scenarios, Events
<1>5. pc \in {"act", "publish"} /\ (pc = "act" => ~InSeries)
  BY DEF Init, FreshRun, Scenarios, FirstPc
<1>6. /\ mode \in Modes /\ scenario \in [Events -> Actions] /\ schedule \in [Events -> Kinds]
  BY DEF Init, FreshRun, Scenarios
<1>7. TypeOK
  BY <1>1, <1>2, <1>3, <1>4, <1>5, <1>6 DEF TypeOK, PcValues
<1>8. LoopShape
  BY <1>4, <1>5 DEF LoopShape
<1> QED BY <1>7, <1>8

(* A run of an arm keeps every variable in its type, whatever the scenario, *)
(* the schedule, the configuration and the batch size (arms.run_arm).       *)
THEOREM TypeCorrect == Spec => []TypeOK
<1>1. Init => TypeOK /\ LoopShape
  BY ShapeInit
<1>2. TypeOK /\ LoopShape /\ [Next]_vars => TypeOK' /\ LoopShape'
  BY ShapeStep
<1> QED BY <1>1, <1>2, PTL DEF Spec

----------------------------------------------------------------------------
(* The gate.                                                                *)

\* No step changes the configuration, the scenario or the schedule.
LEMMA InputsRigid ==
    ASSUME [Next]_vars
    PROVE  mode' = mode /\ scenario' = scenario /\ schedule' = schedule
  BY DEF Next, vars, inputVars, MonitorActs, PublishLost, PublishSent, RefuseOnOutage,
         FailOpenOnOutage, OutageUnseen, ConsumeBatch, FindTarget, DrainBacklog, TargetMissing,
         EvaluateTarget, CrashAndRedeliver, DecideOnTime, DecideWithout, Enforce, RetryDouble,
         RecordDecision, Flush

\* A score is never taken for the absence of one.
LEMMA ScoreIsSome == \A e : Score(e) # NoRisk
  BY ScoreType DEF Risks, NoRisk

\* A verdict is earned at every step.
LEMMA VerdictStep ==
    ASSUME LoopShape, VerdictIsEarned, [Next]_vars
    PROVE  VerdictIsEarned'
<1>1. mode' = mode /\ scenario' = scenario /\ schedule' = schedule
  BY InputsRigid
<1>2. \A e : Score(e)' = Score(e)
  BY <1>1 DEF Score
<1>3. CASE MonitorActs \/ PublishLost \/ OutageUnseen
  BY <1>1, <1>2, <1>3 DEF MonitorActs, PublishLost, OutageUnseen, VerdictIsEarned, loopVars
<1>4. CASE PublishSent
  BY <1>1, <1>4 DEF PublishSent, Send, VerdictIsEarned, loopVars
<1>5. CASE RefuseOnOutage \/ FailOpenOnOutage \/ RecordDecision
  <2>1. pc' \in {"act", "publish", "flush", "failopen"} /\ (verdict' = NoRisk \/ verdict' = verdict)
    BY <1>5 DEF RefuseOnOutage, FailOpenOnOutage, RecordDecision, NextEvent, FirstPc, loopVars
  <2>2. verdict' = NoRisk
    BY <1>5, <2>1 DEF RefuseOnOutage, FailOpenOnOutage, RecordDecision, NextEvent,
                      VerdictIsEarned, loopVars
  <2> QED BY <2>1, <2>2 DEF VerdictIsEarned
<1>6. CASE ConsumeBatch \/ FindTarget \/ DrainBacklog \/ TargetMissing
  BY <1>1, <1>6 DEF ConsumeBatch, FindTarget, DrainBacklog, TargetMissing, BatchRead,
                    VerdictIsEarned, loopVars
<1>7. CASE EvaluateTarget \/ CrashAndRedeliver
  <2>1. pc = "drain" /\ pc' = "decide" /\ cur' = cur /\ (ScoreOrCrash \/ verdict' = verdict)
    BY <1>7 DEF EvaluateTarget, CrashAndRedeliver, JudgeFirst, BatchRead
  <2> QED BY <1>1, <1>2, <2>1 DEF ScoreOrCrash, VerdictIsEarned
<1>8. CASE DecideOnTime \/ DecideWithout \/ Enforce \/ RetryDouble
  <2>1. /\ pc \in {"decide", "enforce", "retry"} /\ pc' \in {"enforce", "retry", "record"}
        /\ cur' = cur /\ verdict' = verdict
    BY <1>8 DEF DecideOnTime, DecideWithout, Enforce, RetryDouble, AfterDecision, loopVars
  <2> QED BY <1>1, <1>2, <2>1 DEF VerdictIsEarned
<1>9. CASE Flush \/ UNCHANGED vars
  <2>1. cur' = cur /\ verdict' = verdict /\ (pc' = pc \/ (pc = "flush" /\ pc' = "done"))
    BY <1>9 DEF Flush, vars, loopVars
  <2> QED BY <1>1, <1>2, <2>1 DEF VerdictIsEarned
<1> QED BY <1>3, <1>4, <1>5, <1>6, <1>7, <1>8, <1>9 DEF Next

\* A verdict decided in time is one that no delay spoiled.
LEMMA InTime ==
    ASSUME NEW latency \in Latencies, ~PastDeadline(latency)
    PROVE  ~(DelayOf(cur) > DeadlineMs)
<1>1. DelayOf(cur) \in Nat /\ latency \in Nat /\ DeadlineMs \in Nat
  BY ArmAssumption DEF DelayOf
<1> QED BY <1>1 DEF PastDeadline

\* A ruling is sound at every step.
LEMMA RulingStep ==
    ASSUME TypeOK, LoopShape, VerdictIsEarned, RulingIsSound, [Next]_vars
    PROVE  RulingIsSound'
<1>1. mode' = mode /\ scenario' = scenario /\ schedule' = schedule
  BY InputsRigid
<1>2. \A e : Permits(e)' = Permits(e) /\ Undecidable(e)' = Undecidable(e)
  BY <1>1 DEF Permits, Score, Undecidable, DelayOf
<1>3. CASE DecideOnTime
  <2>1. PICK latency \in Latencies : ~PastDeadline(latency)
    BY <1>3 DEF DecideOnTime
  <2>2. ~Undecidable(cur)
    BY <1>3, <2>1, InTime DEF DecideOnTime, VerdictIsEarned, Undecidable
  <2>3. verdict = Score(cur) /\ ~mode.crashing
    BY <1>3 DEF DecideOnTime, VerdictIsEarned
  <2>4. /\ ruling'.decision = Decide(mode.policy, verdict)
        /\ ruling'.permitted = (Decide(mode.policy, verdict) # "BLOCK")
    BY <1>3 DEF DecideOnTime, RuleByPolicy
  <2>5. cur' = cur
    BY <1>3 DEF DecideOnTime
  <2>6. ruling'.permitted = (ruling'.decision # "BLOCK") /\ (ruling'.permitted => Permits(cur))
    BY <2>3, <2>4 DEF Permits
  <2> QED BY <1>2, <2>2, <2>5, <2>6 DEF RulingIsSound
<1>4. CASE DecideWithout
  <2>1. ruling'.decision = FailModeDecision /\ ruling'.permitted = ~mode.failClosed
    BY <1>4 DEF DecideWithout, RuleByFailMode
  <2>2. FailModeDecision # "BLOCK" <=> ~mode.failClosed
    BY DEF FailModeDecision
  <2>3. mode.failClosed \in BOOLEAN
    BY ModeType DEF TypeOK
  <2> QED BY <1>1, <2>1, <2>2, <2>3 DEF RulingIsSound
<1>5. CASE Enforce \/ RetryDouble
  <2>1. pc \in {"enforce", "retry"} /\ cur' = cur /\ ruling' = ruling
    BY <1>5 DEF Enforce, RetryDouble, loopVars
  <2> QED BY <1>1, <1>2, <2>1 DEF RulingIsSound
<1>6. CASE ~(DecideOnTime \/ DecideWithout \/ Enforce \/ RetryDouble \/ UNCHANGED vars)
  <2>1. pc' \notin {"enforce", "retry"}
    BY <1>6 DEF Next, MonitorActs, PublishLost, PublishSent, RefuseOnOutage,
         FailOpenOnOutage, OutageUnseen, ConsumeBatch, FindTarget, DrainBacklog, TargetMissing,
         EvaluateTarget, CrashAndRedeliver, RecordDecision, Flush, NextEvent, FirstPc, BatchRead
  <2> QED BY <2>1 DEF RulingIsSound
<1>7. CASE UNCHANGED vars
  BY <1>2, <1>7 DEF vars, inputVars, loopVars, RulingIsSound
<1> QED BY <1>3, <1>4, <1>5, <1>6, <1>7

\* What one call of the effector does to its counters.
LEMMA ExecuteCounts ==
    ASSUME TypeOK, NEW e \in Events, NEW permitted, NEW reported,
           Execute(e, permitted, reported)
    PROVE  /\ asked'[e] = asked[e] + 1
           /\ Absorbs(e) => ran'[e] = ran[e]
           /\ ~Absorbs(e) /\ Executes(permitted, reported) => ran'[e] = ran[e] + 1
           /\ ~Executes(permitted, reported) => ran'[e] = ran[e]
           /\ \A d \in Events : d # e => asked'[d] = asked[d] /\ ran'[d] = ran[d]
<1>1. CASE Absorbs(e)
  <2>1. asked' = [asked EXCEPT ![e] = @ + 1] /\ ran' = ran
    BY <1>1 DEF Execute
  <2> QED BY <1>1, <2>1 DEF TypeOK
<1>2. CASE ~Absorbs(e)
  <2>1. asked' = [asked EXCEPT ![e] = @ + 1]
        /\ ran' = [ran EXCEPT ![e] = ran[e] + (IF Executes(permitted, reported) THEN 1 ELSE 0)]
    BY <1>2 DEF Execute
  <2> QED BY <1>2, <2>1 DEF TypeOK
<1> QED BY <1>1, <1>2

\* The steps that do not call the effector, and what they do to the turns.
LEMMA QuietStep ==
    ASSUME TypeOK, LoopShape, [Next]_vars,
           ~(MonitorActs \/ FailOpenOnOutage \/ Enforce \/ RetryDouble)
    PROVE  /\ UNCHANGED <<asked, ran>>
           /\ \A e \in Events : Unasked(e)' => Unasked(e)
           /\ pc' = "retry" => UNCHANGED vars
<1>1. UNCHANGED <<asked, ran>>
  BY DEF Next, vars, effectVars, PublishLost, PublishSent, RefuseOnOutage, OutageUnseen,
         ConsumeBatch, FindTarget, DrainBacklog, TargetMissing, EvaluateTarget,
         CrashAndRedeliver, DecideOnTime, DecideWithout, RecordDecision, Flush
<1>2. pc' = "retry" => UNCHANGED vars
  BY DEF Next, PublishLost, PublishSent, RefuseOnOutage, OutageUnseen, ConsumeBatch, FindTarget,
         DrainBacklog, TargetMissing, EvaluateTarget, CrashAndRedeliver, DecideOnTime,
         DecideWithout, AfterDecision, RecordDecision, Flush, NextEvent, FirstPc, BatchRead
<1>3. mode' = mode
  BY InputsRigid
<1>4. (cur' = cur /\ (pc' \in BeforeEffector => pc \in BeforeEffector)) \/ cur' = cur + 1
  <2>1. CASE RefuseOnOutage \/ RecordDecision
    BY <2>1 DEF RefuseOnOutage, RecordDecision, NextEvent, BeforeEffector
  <2>2. CASE UNCHANGED vars
    BY <2>2 DEF vars
  <2>3. CASE ~(RefuseOnOutage \/ RecordDecision \/ UNCHANGED vars)
    BY <2>3 DEF Next, PublishLost, PublishSent, OutageUnseen, ConsumeBatch, FindTarget,
         DrainBacklog, TargetMissing, EvaluateTarget, CrashAndRedeliver, DecideOnTime,
         DecideWithout, AfterDecision, Flush, BatchRead, BeforeEffector
  <2> QED BY <2>1, <2>2, <2>3
<1>5. \A e \in Events : Unasked(e)' => Unasked(e)
  <2> SUFFICES ASSUME NEW e \in Events, Unasked(e)' PROVE Unasked(e)
    OBVIOUS
  <2>1. e \in Int /\ cur \in Int
    BY NAssumption DEF Events, TypeOK
  <2>2. e > cur' \/ (e = cur' /\ pc' \in BeforeEffector')
    BY DEF Unasked
  <2>3. BeforeEffector' = BeforeEffector
    BY <1>3 DEF BeforeEffector, InSeries
  <2> QED BY <1>4, <2>1, <2>2, <2>3 DEF Unasked
<1> QED BY <1>1, <1>2, <1>5

\* Where a call of the effector finds the current event, and leaves it.
LEMMA CallStep ==
    ASSUME TypeOK, LoopShape, AskedInTurn,
           MonitorActs \/ FailOpenOnOutage \/ Enforce \/ RetryDouble
    PROVE  /\ cur \in Events /\ mode' = mode /\ schedule' = schedule
           /\ pc # "retry" => asked[cur] = 0 /\ ran[cur] = 0
           /\ pc = "retry" => asked[cur] = 1 /\ schedule[cur] = "retry_double"
           /\ \A e \in Events : Unasked(e)' => Unasked(e) /\ e # cur
           /\ pc' = "retry" => Enforce /\ cur' = cur
<1>1. cur \in Events /\ mode' = mode /\ schedule' = schedule
  BY DEF MonitorActs, FailOpenOnOutage, Enforce, RetryDouble, LoopShape, inputVars
<1>2. pc \in {"act", "failopen", "enforce", "retry"}
  BY DEF MonitorActs, FailOpenOnOutage, Enforce, RetryDouble
<1>3. pc # "retry" => asked[cur] = 0 /\ ran[cur] = 0
  <2> SUFFICES ASSUME pc # "retry" PROVE asked[cur] = 0 /\ ran[cur] = 0
    OBVIOUS
  <2>1. Unasked(cur)
    BY <1>2 DEF Unasked, BeforeEffector
  <2>2. asked[cur] = 0 /\ ran[cur] <= asked[cur] /\ ran[cur] \in Nat
    BY <1>1, <2>1 DEF AskedInTurn, TypeOK
  <2> QED BY <2>2
<1>4. pc = "retry" => asked[cur] = 1 /\ schedule[cur] = "retry_double"
  BY <1>1 DEF AskedInTurn, LoopShape
<1>5. pc' = "retry" => Enforce /\ cur' = cur
  BY DEF MonitorActs, FailOpenOnOutage, Enforce, RetryDouble, NextEvent, FirstPc
<1>6. (cur' = cur /\ pc' \notin BeforeEffector) \/ cur' = cur + 1
  <2>1. CASE MonitorActs
    BY <2>1 DEF MonitorActs, LoopShape, BeforeEffector
  <2>2. CASE FailOpenOnOutage
    BY <2>2 DEF FailOpenOnOutage, NextEvent
  <2>3. CASE Enforce \/ RetryDouble
    BY <2>3 DEF Enforce, RetryDouble, BeforeEffector
  <2> QED BY <2>1, <2>2, <2>3
<1>7. \A e \in Events : Unasked(e)' => Unasked(e) /\ e # cur
  <2> SUFFICES ASSUME NEW e \in Events, Unasked(e)' PROVE Unasked(e) /\ e # cur
    OBVIOUS
  <2>1. e \in Int /\ cur \in Int
    BY NAssumption DEF Events, TypeOK
  <2>2. e > cur' \/ (e = cur' /\ pc' \in BeforeEffector')
    BY DEF Unasked
  <2>3. BeforeEffector' = BeforeEffector
    BY <1>1 DEF BeforeEffector, InSeries
  <2> QED BY <1>6, <2>1, <2>2, <2>3 DEF Unasked
<1> QED BY <1>1, <1>3, <1>4, <1>5, <1>7

\* Every event is put to the effector in its turn, at every step.
LEMMA TurnStep ==
    ASSUME TypeOK, LoopShape, AskedInTurn, [Next]_vars
    PROVE  AskedInTurn'
<1>1. mode' = mode /\ schedule' = schedule
  BY InputsRigid
<1>2. CASE ~(MonitorActs \/ FailOpenOnOutage \/ Enforce \/ RetryDouble)
  <2>1. /\ UNCHANGED <<asked, ran>>
        /\ \A e \in Events : Unasked(e)' => Unasked(e)
        /\ pc' = "retry" => UNCHANGED vars
    BY <1>2, QuietStep
  <2>2. pc' = "retry" => pc = "retry" /\ cur' = cur /\ ruling' = ruling
    BY <2>1 DEF vars, loopVars
  <2>3. Executes(ruling.permitted, ruling.decision)' =
            Executes(ruling'.permitted, ruling'.decision)
    BY <1>1 DEF Executes
  <2> QED BY <1>1, <2>1, <2>2, <2>3 DEF AskedInTurn
<1>3. CASE MonitorActs \/ FailOpenOnOutage \/ Enforce \/ RetryDouble
  <2>1. /\ cur \in Events
        /\ pc # "retry" => asked[cur] = 0 /\ ran[cur] = 0
        /\ pc = "retry" => asked[cur] = 1 /\ schedule[cur] = "retry_double"
        /\ \A e \in Events : Unasked(e)' => Unasked(e) /\ e # cur
        /\ pc' = "retry" => Enforce /\ cur' = cur
    BY <1>3, CallStep
  <2>2. \E permitted, reported : Execute(cur, permitted, reported)
    BY <1>3 DEF MonitorActs, FailOpenOnOutage, Enforce, RetryDouble
  <2>3. PICK permitted, reported : Execute(cur, permitted, reported)
    BY <2>2
  <2>4. /\ asked'[cur] = asked[cur] + 1
        /\ ran'[cur] = ran[cur] \/ ran'[cur] = ran[cur] + 1
        /\ Absorbs(cur) => ran'[cur] = ran[cur]
        /\ \A d \in Events : d # cur => asked'[d] = asked[d] /\ ran'[d] = ran[d]
    BY <2>1, <2>3, ExecuteCounts
  <2>5. asked[cur] \in Nat /\ ran[cur] \in Nat
    BY <2>1 DEF TypeOK
  <2>6. pc' = "retry" => /\ asked'[cur] = 1
                         /\ (ran'[cur] > 0) = Executes(ruling.permitted, ruling.decision)'
    <3> SUFFICES ASSUME pc' = "retry"
                 PROVE  /\ asked'[cur] = 1
                        /\ (ran'[cur] > 0) = Executes(ruling.permitted, ruling.decision)'
      OBVIOUS
    <3>1. /\ pc = "enforce" /\ schedule[cur] = "retry_double" /\ ruling' = ruling
          /\ Execute(cur, ruling.permitted \/ EnforcementFails, ruling.decision)
      BY <2>1 DEF Enforce, Fault, loopVars
    <3>2. ~EnforcementFails
      BY <3>1 DEF EnforcementFails, Fault
    <3>3. ruling.permitted \in BOOLEAN
      BY DEF TypeOK, Rulings
    <3>4. Execute(cur, ruling.permitted, ruling.decision)
      <4>1. (ruling.permitted \/ EnforcementFails) = ruling.permitted
        BY <3>2, <3>3
      <4> QED BY <3>1, <4>1
    <3>5. asked[cur] = 0 /\ ran[cur] = 0 /\ ~Absorbs(cur)
      BY <2>1, <3>1 DEF Absorbs
    <3>6. asked'[cur] = 1 /\ (ran'[cur] > 0 <=> Executes(ruling.permitted, ruling.decision))
      BY <2>1, <3>4, <3>5, ExecuteCounts
    <3>7. Executes(ruling.permitted, ruling.decision) \in BOOLEAN
      BY <3>3 DEF Executes
    <3>8. Executes(ruling.permitted, ruling.decision)' = Executes(ruling.permitted, ruling.decision)
      BY <1>1, <3>1 DEF Executes
    <3> QED BY <3>6, <3>7, <3>8
  <2>7. ASSUME NEW e \in Events, e = cur
        PROVE  /\ ~Unasked(e)' /\ (asked'[e] > 1 => schedule[e] = "retry_double")
               /\ ran'[e] <= asked'[e] /\ (mode.idempotent => ran'[e] <= 1)
    <3>1. ran[cur] <= asked[cur]
      BY <2>1 DEF AskedInTurn
    <3>2. asked'[cur] > 1 => schedule[cur] = "retry_double"
      BY <2>1, <2>4
    <3>3. ran'[cur] <= asked'[cur]
      BY <2>4, <2>5, <3>1
    <3>4. mode.idempotent => ran'[cur] <= 1
      BY <2>1, <2>4, <2>5, <3>1 DEF Absorbs
    <3> QED BY <2>1, <2>7, <3>2, <3>3, <3>4
  <2>8. ASSUME NEW e \in Events, e # cur
        PROVE  /\ Unasked(e)' => asked'[e] = 0
               /\ asked'[e] > 1 => schedule[e] = "retry_double"
               /\ ran'[e] <= asked'[e] /\ (mode.idempotent => ran'[e] <= 1)
    BY <2>1, <2>4, <2>8 DEF AskedInTurn
  <2> QED BY <1>1, <2>1, <2>6, <2>7, <2>8 DEF AskedInTurn
<1> QED BY <1>2, <1>3

\* What a call executes is what the gate's mode and fault allow.
LEMMA CallAllowed ==
    ASSUME TypeOK, LoopShape, RulingIsSound, NEW permitted, NEW reported,
           Execute(cur, permitted, reported), Executes(permitted, reported),
           \/ MonitorActs /\ permitted = TRUE /\ reported = "(none yet)"
           \/ FailOpenOnOutage /\ permitted = TRUE /\ reported = "ALLOW"
           \/ /\ Enforce /\ permitted = (ruling.permitted \/ EnforcementFails)
              /\ reported = ruling.decision
           \/ RetryDouble /\ permitted = ruling.permitted /\ reported = ruling.decision
    PROVE  MayRun(cur)
<1>1. CASE MonitorActs \/ FailOpenOnOutage
  BY <1>1 DEF MonitorActs, FailOpenOnOutage, LoopShape, MayRun
<1>2. CASE Enforce \/ RetryDouble
  <2>1. /\ ruling.permitted = (ruling.decision # "BLOCK")
        /\ ruling.permitted /\ mode.failClosed => Permits(cur) /\ ~Undecidable(cur)
    BY <1>2 DEF Enforce, RetryDouble, RulingIsSound
  <2>2. permitted => ruling.permitted \/ schedule[cur] = "enforcement_fail"
    BY <1>2 DEF Enforce, RetryDouble, EnforcementFails, Fault, MonitorActs, FailOpenOnOutage
  <2>3. reported = ruling.decision
    BY <1>2 DEF Enforce, RetryDouble, MonitorActs, FailOpenOnOutage
  <2>4. CASE mode.singleWriter
    BY <2>1, <2>3, <2>4 DEF Executes, MayRun
  <2>5. CASE ~mode.singleWriter
    BY <2>1, <2>2, <2>5 DEF Executes, MayRun, TwoWriters
  <2> QED BY <2>4, <2>5
<1> QED BY <1>1, <1>2

\* Nothing runs that is not allowed, at every step.
LEMMA AllowedStep ==
    ASSUME TypeOK, LoopShape, RulingIsSound, AskedInTurn, RanOnlyIfAllowed, [Next]_vars
    PROVE  RanOnlyIfAllowed'
<1>1. mode' = mode /\ scenario' = scenario /\ schedule' = schedule
  BY InputsRigid
<1>2. \A e : MayRun(e)' <=> MayRun(e)
  BY <1>1 DEF MayRun, InSeries, TwoWriters, Permits, Score, Undecidable, DelayOf
<1>3. CASE ~(MonitorActs \/ FailOpenOnOutage \/ Enforce \/ RetryDouble)
  BY <1>2, <1>3, QuietStep DEF RanOnlyIfAllowed
<1>4. CASE MonitorActs \/ FailOpenOnOutage \/ Enforce \/ RetryDouble
  <2>1. PICK permitted, reported :
           /\ Execute(cur, permitted, reported)
           /\ \/ MonitorActs /\ permitted = TRUE /\ reported = "(none yet)"
              \/ FailOpenOnOutage /\ permitted = TRUE /\ reported = "ALLOW"
              \/ /\ Enforce /\ permitted = (ruling.permitted \/ EnforcementFails)
                 /\ reported = ruling.decision
              \/ RetryDouble /\ permitted = ruling.permitted /\ reported = ruling.decision
    BY <1>4 DEF MonitorActs, FailOpenOnOutage, Enforce, RetryDouble
  <2>2. cur \in Events
    BY <1>4, CallStep
  <2>3. \A e \in Events : e # cur => ran'[e] = ran[e]
    BY <2>1, <2>2, ExecuteCounts
  <2>4. CASE Executes(permitted, reported)
    <3>1. MayRun(cur)
      BY <2>1, <2>4, CallAllowed
    <3> QED BY <1>2, <2>3, <3>1 DEF RanOnlyIfAllowed
  <2>5. CASE ~Executes(permitted, reported)
    <3>1. ran'[cur] = ran[cur]
      BY <2>1, <2>2, <2>5, ExecuteCounts
    <3> QED BY <1>2, <2>3, <3>1 DEF RanOnlyIfAllowed
  <2> QED BY <2>4, <2>5
<1> QED BY <1>3, <1>4

\* The gate invariant holds at the start.
LEMMA GateInit == Init => GateInvariant
<1> SUFFICES ASSUME Init PROVE GateInvariant
  OBVIOUS
<1>1. LoopShape
  BY ShapeInit
<1>2. pc \in {"act", "publish"} /\ verdict = NoRisk
  BY DEF Init, FreshRun, Scenarios, FirstPc
<1>3. \A e \in Events : asked[e] = 0 /\ ran[e] = 0
  BY DEF Init, FreshRun, Scenarios, EffectorInit
<1>4. VerdictIsEarned /\ RulingIsSound
  BY <1>2 DEF VerdictIsEarned, RulingIsSound
<1>5. AskedInTurn /\ RanOnlyIfAllowed
  BY <1>2, <1>3 DEF AskedInTurn, RanOnlyIfAllowed
<1> QED BY <1>1, <1>4, <1>5 DEF GateInvariant

(* At every point of every run, a verdict was earned by a publish that went *)
(* through, a permission by a timely verdict, and an execution by the       *)
(* event's turn and by what its mode and fault allow (arms.run_arm).        *)
THEOREM GateHolds == Spec => [](TypeOK /\ GateInvariant)
<1>1. Init => TypeOK /\ GateInvariant
  BY ShapeInit, GateInit
<1>2. TypeOK /\ GateInvariant /\ [Next]_vars => TypeOK' /\ GateInvariant'
  BY ShapeStep, VerdictStep, RulingStep, TurnStep, AllowedStep DEF GateInvariant
<1> QED BY <1>1, <1>2, PTL DEF Spec

(* A fail-closed gate with an honest effector lets run only what the policy *)
(* permits in time, or what an injected enforcement failure forces.         *)
THEOREM FailClosedIsSafe == Spec => []FailClosedHolds
<1>1. TypeOK /\ GateInvariant => FailClosedHolds
  <2> SUFFICES ASSUME TypeOK, GateInvariant, NEW e \in Events, InSeries, mode.failClosed,
                      TwoWriters, ran[e] > 0
               PROVE  schedule[e] = "enforcement_fail" \/ (Permits(e) /\ ~Undecidable(e))
    BY DEF FailClosedHolds
  <2>1. MayRun(e)
    BY DEF GateInvariant, RanOnlyIfAllowed
  <2> QED BY <2>1 DEF MayRun
<1> QED BY <1>1, GateHolds, PTL

(* Nothing runs twice but a retry without dedup.                            *)
THEOREM EffectsAreOnce == Spec => []OnlyRetriesRunTwice
<1>1. TypeOK /\ GateInvariant => OnlyRetriesRunTwice
  <2> SUFFICES ASSUME TypeOK, GateInvariant, NEW e \in Events, ran[e] > 1
               PROVE  ~mode.idempotent /\ schedule[e] = "retry_double"
    BY DEF OnlyRetriesRunTwice, DoubleExecutions
  <2>1. /\ asked[e] > 1 => schedule[e] = "retry_double"
        /\ ran[e] <= asked[e] /\ (mode.idempotent => ran[e] <= 1)
    BY DEF GateInvariant, AskedInTurn
  <2>2. ran[e] \in Nat /\ asked[e] \in Nat
    BY DEF TypeOK
  <2> QED BY <2>1, <2>2
<1> QED BY <1>1, GateHolds, PTL

----------------------------------------------------------------------------
(* The abstract gate.                                                       *)

\* A step settles at most the current event, and never one that is settled.
LEMMA OutcomeStep ==
    ASSUME TypeOK, GateInvariant, TypeOK', GateInvariant', [Next]_vars
    PROVE  \/ \A e \in Events : GateOutcome(e)' = GateOutcome(e)
           \/ \E c \in Events :
                 /\ GateOutcome(c) = "open"
                 /\ \A e \in Events : e # c => GateOutcome(e)' = GateOutcome(e)
                 /\ \/ GateOutcome(c)' = "ran" /\ MayRun(c)
                    \/ GateOutcome(c)' = "refused"
<1> USE DEF GateInvariant
<1>1. \A e \in Events : asked[e] \in Nat /\ ran[e] \in Nat /\ asked'[e] \in Nat /\ ran'[e] \in Nat
  BY DEF TypeOK
<1>2. cur \in Int /\ \A e \in Events : e \in Int
  BY NAssumption DEF TypeOK, Events
<1>3. CASE ~(MonitorActs \/ FailOpenOnOutage \/ Enforce \/ RetryDouble)
  <2>1. UNCHANGED <<asked, ran>>
    BY <1>3, QuietStep
  <2>2. CASE cur' = cur
    BY <2>1, <2>2 DEF GateOutcome
  <2>3. CASE cur' # cur
    <3>1. cur' = cur + 1 /\ cur \in Events
      BY <1>3, <2>3 DEF Next, vars, PublishLost, PublishSent, RefuseOnOutage, OutageUnseen,
         ConsumeBatch, FindTarget, DrainBacklog, TargetMissing, EvaluateTarget,
         CrashAndRedeliver, DecideOnTime, DecideWithout, RecordDecision, Flush, NextEvent,
         LoopShape
    <3>0. PICK c \in Events : c = cur
      BY <3>1
    <3>2. \A e \in Events : e # c => (e < cur' <=> e < cur)
      BY <3>0, <1>2, <3>1
    <3>3. \A e \in Events : e # c => GateOutcome(e)' = GateOutcome(e)
      BY <2>1, <3>2 DEF GateOutcome
    <3>4. CASE asked[c] > 0 \/ ran[c] > 0
      <4>1. GateOutcome(c)' = GateOutcome(c)
        <5>1. GateOutcome(c) = (IF ran[c] > 0 THEN "ran" ELSE "refused")
          BY <3>4 DEF GateOutcome
        <5>2. GateOutcome(c)' = (IF ran[c] > 0 THEN "ran" ELSE "refused")
          BY <3>0, <1>2, <2>1, <3>1, <3>4 DEF GateOutcome
        <5> QED BY <5>1, <5>2
      <4> QED BY <3>3, <4>1
    <3>5. CASE ~(asked[c] > 0 \/ ran[c] > 0)
      <4>1. GateOutcome(c) = "open"
        BY <3>0, <1>2, <3>5 DEF GateOutcome
      <4>2. GateOutcome(c)' = "refused"
        BY <3>0, <1>2, <2>1, <3>1, <3>5 DEF GateOutcome
      <4> QED BY <3>1, <3>3, <4>1, <4>2
    <3> QED BY <3>4, <3>5
  <2> QED BY <2>2, <2>3
<1>4. CASE MonitorActs \/ FailOpenOnOutage \/ Enforce \/ RetryDouble
  <2>1. /\ cur \in Events
        /\ pc # "retry" => asked[cur] = 0 /\ ran[cur] = 0
        /\ pc = "retry" => asked[cur] = 1
    BY <1>4, CallStep
  <2>2. cur' = cur \/ cur' = cur + 1
    BY <1>4 DEF MonitorActs, FailOpenOnOutage, Enforce, RetryDouble, NextEvent
  <2>3. PICK permitted, reported : Execute(cur, permitted, reported)
    BY <1>4 DEF MonitorActs, FailOpenOnOutage, Enforce, RetryDouble
  <2>4. /\ asked'[cur] = asked[cur] + 1
        /\ \A d \in Events : d # cur => asked'[d] = asked[d] /\ ran'[d] = ran[d]
    BY <2>1, <2>3, ExecuteCounts
  <2>0. PICK c \in Events : c = cur
    BY <2>1
  <2>5. \A e \in Events : e # c => (e < cur' <=> e < cur)
    BY <2>0, <1>2, <2>2
  <2>6. \A e \in Events : e # c => GateOutcome(e)' = GateOutcome(e)
    BY <2>0, <2>4, <2>5 DEF GateOutcome
  <2>7. GateOutcome(c)' = IF ran'[c] > 0 THEN "ran" ELSE "refused"
    <3>1. GateOutcome(c)' = IF ran'[c] > 0 THEN "ran"
                              ELSE IF asked'[c] > 0 \/ c < cur' THEN "refused" ELSE "open"
      BY DEF GateOutcome
    <3>2. asked'[c] > 0
      BY <2>0, <1>1, <2>1, <2>4
    <3> QED BY <3>1, <3>2
  <2>8. CASE pc # "retry"
    <3>1. GateOutcome(c) = "open"
      BY <2>0, <1>2, <2>1, <2>8 DEF GateOutcome
    <3>2. ran'[c] > 0 => MayRun(c)
      <4>1. mode' = mode /\ scenario' = scenario /\ schedule' = schedule
        BY InputsRigid
      <4>2. MayRun(c)' <=> MayRun(c)
        BY <4>1 DEF MayRun, InSeries, TwoWriters, Permits, Score, Undecidable, DelayOf
      <4>3. ran'[c] > 0 => MayRun(c)'
        BY DEF RanOnlyIfAllowed
      <4> QED BY <4>2, <4>3
    <3> QED BY <2>1, <2>6, <2>7, <3>1, <3>2
  <2>9. CASE pc = "retry"
    <3>1. Execute(cur, ruling.permitted, ruling.decision)
      BY <1>4, <2>9 DEF MonitorActs, FailOpenOnOutage, Enforce, RetryDouble
    <3>2. (ran[c] > 0) = Executes(ruling.permitted, ruling.decision)
      BY <2>0, <2>9 DEF AskedInTurn
    <3>3. ran'[c] > 0 <=> ran[c] > 0
      <4>1. CASE Executes(ruling.permitted, ruling.decision)
        <5>1. ran[c] > 0
          BY <3>2, <4>1
        <5>2. ran'[c] = ran[c] \/ ran'[c] = ran[c] + 1
          BY <2>0, <2>1, <3>1, <4>1, ExecuteCounts
        <5> QED BY <1>1, <5>1, <5>2
      <4>2. CASE ~Executes(ruling.permitted, ruling.decision)
        BY <2>0, <2>1, <3>1, <4>2, ExecuteCounts
      <4> QED BY <4>1, <4>2
    <3>4. GateOutcome(c) = IF ran[c] > 0 THEN "ran" ELSE "refused"
      BY <2>0, <2>1, <2>9 DEF GateOutcome
    <3>5. GateOutcome(c)' = GateOutcome(c)
      BY <2>7, <3>3, <3>4
    <3> QED BY <2>6, <3>5
  <2> QED BY <2>8, <2>9
<1> QED BY <1>3, <1>4

(* Every run of an arm is a run of the abstract gate: each attempted action *)
(* is settled once, by running or by being refused, and runs only if its    *)
(* position, fail mode and fault allow it.                                  *)
THEOREM ArmImplementsGate == Spec => ImplementsGate
<1>1. Init => Gate!Init
  <2> SUFFICES ASSUME Init PROVE Gate!Init
    OBVIOUS
  <2>1. cur = 1 /\ \A e \in Events : asked[e] = 0 /\ ran[e] = 0
    BY DEF Init, FreshRun, Scenarios, EffectorInit
  <2>2. \A e \in Events : ~(e < cur)
    BY <2>1, NAssumption DEF Events
  <2>3. \A e \in Events : GateOutcome(e) = "open"
    BY <2>1, <2>2 DEF GateOutcome
  <2> QED BY <2>3 DEF Gate!Init
<1>2. TypeOK /\ GateInvariant /\ TypeOK' /\ GateInvariant' /\ [Next]_vars
      => [Gate!Next]_(Gate!gateVars)
  <2> SUFFICES ASSUME TypeOK, GateInvariant, TypeOK', GateInvariant', [Next]_vars
               PROVE  [Gate!Next]_(Gate!gateVars)
    OBVIOUS
  <2> DEFINE result == [e \in Events |-> GateOutcome(e)]
  <2> DEFINE allowed == {e \in Events : MayRun(e)}
  <2>1. allowed' = allowed
    <3>1. mode' = mode /\ scenario' = scenario /\ schedule' = schedule
      BY InputsRigid
    <3>2. \A e \in Events : MayRun(e)' <=> MayRun(e)
      BY <3>1 DEF MayRun, InSeries, TwoWriters, Permits, Score, Undecidable, DelayOf
    <3> QED BY <3>2
  <2>2. CASE \A e \in Events : GateOutcome(e)' = GateOutcome(e)
    <3>1. result' = result
      BY <2>2
    <3> QED BY <2>1, <3>1 DEF Gate!gateVars
  <2>3. CASE \E c \in Events :
               /\ GateOutcome(c) = "open"
               /\ \A e \in Events : e # c => GateOutcome(e)' = GateOutcome(e)
               /\ \/ GateOutcome(c)' = "ran" /\ MayRun(c)
                  \/ GateOutcome(c)' = "refused"
    <3>1. PICK c \in Events :
               /\ GateOutcome(c) = "open"
               /\ \A e \in Events : e # c => GateOutcome(e)' = GateOutcome(e)
               /\ \/ GateOutcome(c)' = "ran" /\ MayRun(c)
                  \/ GateOutcome(c)' = "refused"
      BY <2>3
    <3>2. result[c] = "open"
      BY <3>1
    <3>3. CASE GateOutcome(c)' = "ran" /\ MayRun(c)
      <4>1. result' = [result EXCEPT ![c] = "ran"]
        BY <3>1, <3>3
      <4>2. Gate!Run(c)
        BY <2>1, <3>2, <3>3, <4>1 DEF Gate!Run
      <4> QED BY <4>2 DEF Gate!Next
    <3>4. CASE GateOutcome(c)' = "refused"
      <4>1. result' = [result EXCEPT ![c] = "refused"]
        BY <3>1, <3>4
      <4>2. Gate!Refuse(c)
        BY <2>1, <3>2, <4>1 DEF Gate!Refuse
      <4> QED BY <4>2 DEF Gate!Next
    <3> QED BY <3>1, <3>3, <3>4
  <2> QED BY <2>2, <2>3, OutcomeStep
<1> QED BY <1>1, <1>2, GateHolds, PTL DEF Spec, ImplementsGate, Gate!Spec
=============================================================================
