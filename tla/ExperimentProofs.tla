-------------------------- MODULE ExperimentProofs --------------------------
(* Theorems about studies of two runs: what a finished run tells, and what  *)
(* that leaves for the comparison of two, whatever the settings, the        *)
(* schedule, the scenario and the two clocks.                               *)
EXTENDS Experiment, ReportProofs, FiniteSetTheorems

----------------------------------------------------------------------------
(* What the edge lets through depends on the schedule alone.                *)

\* What the edge makes of one event, after what it made of those before.
After(s, e) ==
    [stream |-> IF schedule[e] \in {"drop_event", "transport_outage", "reorder_event"}
                THEN s.stream ELSE s.stream \o (Copies(e) \o s.held),
     held |-> IF schedule[e] = "reorder_event" THEN Append(s.held, e)
              ELSE IF schedule[e] \in {"drop_event", "transport_outage"} THEN s.held
              ELSE <<>>,
     dropped |-> IF schedule[e] = "drop_event" THEN Append(s.dropped, e) ELSE s.dropped]

NothingYet == [stream |-> <<>>, held |-> <<>>, dropped |-> <<>>]

\* A history of the edge over the first n events.
EdgeHistory(f, n) ==
    /\ DOMAIN f = 0..n
    /\ f[0] = NothingYet
    /\ \A k \in 1..n : f[k] = After(f[k - 1], k)

EdgeNow == [stream |-> stream, held |-> held, dropped |-> edge.dropped]

\* How many events the edge has dealt with.
Passed == IF pc \in {"act", "publish", "flush", "done"} THEN cur - 1 ELSE cur

\* A history tells what a finished run delivered and dropped.
HistoryTells(f, delivered, dropped) ==
    delivered = f[N].stream \o f[N].held /\ dropped = f[N].dropped

(* There is a history of the edge that leads to where it is, and any other  *)
(* leads there too.                                                         *)
EdgeInvariant ==
    /\ pc # "done" =>
          /\ \E f : EdgeHistory(f, Passed) /\ f[Passed] = EdgeNow
          /\ \A f : EdgeHistory(f, N) => f[Passed] = EdgeNow
    /\ pc = "done" =>
          /\ \E f : EdgeHistory(f, N)
          /\ \A f : EdgeHistory(f, N) => HistoryTells(f, stream, edge.dropped)

\* The events the edge has dealt with are events.
LEMMA PassedType ==
    ASSUME TypeOK, LoopShape
    PROVE  Passed \in 0..N /\ (pc = "flush" => Passed = N)
  BY NAssumption DEF TypeOK, LoopShape, Passed, Events

\* A step moves the edge over one event, or flushes it, or leaves it alone.
LEMMA EdgeMoves ==
    ASSUME TypeOK, LoopShape, [Next]_vars
    PROVE  \/ /\ EdgeNow' = EdgeNow /\ Passed' = Passed
              /\ pc' = "done" <=> pc = "done"
           \/ /\ cur \in Events /\ Passed = cur - 1 /\ Passed' = cur
              /\ EdgeNow' = After(EdgeNow, cur) /\ pc' # "done" /\ pc # "done"
           \/ /\ pc = "flush" /\ pc' = "done"
              /\ stream' = stream \o held /\ edge' = edge
<1> USE DEF inputVars, brokerVars, labVars, effectVars, loopVars
<1>0. cur \in Int
  BY NAssumption DEF TypeOK
<1>1. CASE PublishLost
  <2>1. /\ cur \in Events /\ Passed = cur - 1 /\ Passed' = cur /\ pc' # "done" /\ pc # "done"
    BY <1>1 DEF PublishLost, LoopShape, Passed, Drop, Hold
  <2>2. CASE Drop(cur)
    <3>1. edge'.dropped = Append(edge.dropped, cur) /\ stream' = stream /\ held' = held
      BY <2>2 DEF Drop, TypeOK, EdgeLists
    <3> QED BY <2>1, <2>2, <3>1 DEF Drop, After, EdgeNow
  <2>3. CASE Hold(cur)
    BY <2>1, <2>3 DEF Hold, After, EdgeNow
  <2> QED BY <1>1, <2>2, <2>3 DEF PublishLost
<1>2. CASE PublishSent
  <2>1. /\ cur \in Events /\ Passed = cur - 1 /\ Passed' = cur /\ pc' # "done" /\ pc # "done"
    BY <1>2 DEF PublishSent, LoopShape, Passed
  <2>2. edge'.dropped = edge.dropped
    BY <1>2 DEF PublishSent, Send, TypeOK, EdgeLists
  <2> QED BY <1>2, <2>1, <2>2 DEF PublishSent, Send, Publish, After, EdgeNow
<1>3. CASE RefuseOnOutage \/ OutageUnseen
  <2>1. /\ cur \in Events /\ Passed = cur - 1 /\ Passed' = cur /\ pc' # "done" /\ pc # "done"
    BY <1>0, <1>3 DEF RefuseOnOutage, OutageUnseen, LoopShape, Passed, NextEvent, FirstPc
  <2>2. /\ edge'.dropped = edge.dropped /\ stream' = stream /\ held' = held
        /\ schedule[cur] = "transport_outage"
    BY <1>3 DEF RefuseOnOutage, OutageUnseen, Outage, TypeOK, EdgeLists
  <2> QED BY <2>1, <2>2 DEF After, EdgeNow
<1>4. CASE FailOpenOnOutage \/ RecordDecision
  <2>1. /\ pc \in {"failopen", "record"} /\ pc' \in {"flush", "publish", "act"}
        /\ cur' = cur + 1
    BY <1>4 DEF FailOpenOnOutage, RecordDecision, NextEvent, FirstPc
  <2>3. Passed = cur
    BY <2>1 DEF Passed
  <2>4. Passed' = cur' - 1
    BY <2>1 DEF Passed
  <2>5. Passed' = Passed /\ pc' # "done" /\ pc # "done"
    BY <1>0, <2>1, <2>3, <2>4
  <2>2. EdgeNow' = EdgeNow
    BY <1>4 DEF FailOpenOnOutage, RecordDecision, EdgeNow
  <2> QED BY <2>2, <2>5
<1>5. CASE Flush
  BY <1>5 DEF Flush, FlushReorderBuffer, Publish
<1>6. CASE ~(PublishLost \/ PublishSent \/ RefuseOnOutage \/ OutageUnseen \/ FailOpenOnOutage
             \/ RecordDecision \/ Flush)
  <2>1. stream' = stream /\ held' = held /\ edge' = edge /\ cur' = cur
    BY <1>6 DEF Next, vars, MonitorActs, ConsumeBatch, Consume, FindTarget, DrainBacklog,
       TargetMissing, EvaluateTarget, CrashAndRedeliver, DecideOnTime, DecideWithout, Enforce,
       RetryDouble
  <2>2. /\ pc' = "done" <=> pc = "done"
        /\ pc' \in {"act", "publish", "flush", "done"} <=> pc \in {"act", "publish", "flush", "done"}
    BY <1>6 DEF Next, vars, MonitorActs, ConsumeBatch, FindTarget, DrainBacklog,
       TargetMissing, EvaluateTarget, CrashAndRedeliver, DecideOnTime, DecideWithout, Enforce,
       RetryDouble, BatchRead, AfterDecision
  <2> QED BY <2>1, <2>2 DEF EdgeNow, Passed
<1> QED BY <1>1, <1>2, <1>3, <1>4, <1>5, <1>6

\* A history goes on.
LEMMA HistoryGoesOn ==
    ASSUME NEW n \in Nat, NEW f, EdgeHistory(f, n)
    PROVE  \E g : EdgeHistory(g, n + 1) /\ g[n + 1] = After(f[n], n + 1)
<1> DEFINE g == [k \in 0 .. n + 1 |-> IF k = n + 1 THEN After(f[n], n + 1) ELSE f[k]]
<1>1. DOMAIN g = 0 .. n + 1 /\ g[0] = NothingYet /\ g[n + 1] = After(f[n], n + 1)
  BY DEF EdgeHistory
<1>2. ASSUME NEW k \in 1 .. n + 1 PROVE g[k] = After(g[k - 1], k)
  <2>1. CASE k = n + 1
    <3>1. g[k - 1] = f[n]
      BY <2>1
    <3> QED BY <1>1, <2>1, <3>1
  <2>2. CASE k # n + 1
    <3>1. k \in 1..n /\ g[k] = f[k] /\ g[k - 1] = f[k - 1]
      BY <2>2
    <3> QED BY <3>1 DEF EdgeHistory
  <2> QED BY <2>1, <2>2
<1> HIDE DEF g
<1>3. EdgeHistory(g, n + 1)
  BY <1>1, <1>2 DEF EdgeHistory
<1> QED BY <1>1, <1>3

\* The edge is where every history of it leads, at every step.
LEMMA EdgeInvariantStep ==
    ASSUME TypeOK, LoopShape, EdgeInvariant, [Next]_vars
    PROVE  EdgeInvariant'
<1>0. schedule' = schedule
  BY InputsRigid
<1>1. \A f, n : EdgeHistory(f, n)' <=> EdgeHistory(f, n)
  BY <1>0 DEF EdgeHistory, After, Copies
<1>2. CASE EdgeNow' = EdgeNow /\ Passed' = Passed /\ (pc' = "done" <=> pc = "done")
  <2>1. pc = "done" => stream' = stream /\ edge'.dropped = edge.dropped
    BY <1>2 DEF EdgeNow
  <2>2. CASE pc # "done"
    <3>1. PICK p : p = Passed
      OBVIOUS
    <3>2. PICK now : now = EdgeNow
      OBVIOUS
    <3>3. /\ \E f : EdgeHistory(f, p) /\ f[p] = now
          /\ \A f : EdgeHistory(f, N) => f[p] = now
      BY <2>2, <3>1, <3>2 DEF EdgeInvariant
    <3>4. /\ \E f : EdgeHistory(f, p)' /\ f[p] = now
          /\ \A f : EdgeHistory(f, N)' => f[p] = now
      BY <1>1, <3>3
    <3>5. p = Passed' /\ now = EdgeNow' /\ pc' # "done"
      BY <1>2, <2>2, <3>1, <3>2
    <3> HIDE DEF EdgeHistory
    <3>6. /\ \E f : EdgeHistory(f, Passed)' /\ f[Passed'] = EdgeNow'
          /\ \A f : EdgeHistory(f, N)' => f[Passed'] = EdgeNow'
      BY <3>4, <3>5, Zenon
    <3> QED BY <3>5, <3>6, Zenon DEF EdgeInvariant
  <2>3. CASE pc = "done"
    <3>1. /\ \E f : EdgeHistory(f, N)
          /\ \A f : EdgeHistory(f, N) => HistoryTells(f, stream', edge'.dropped)
      BY <2>1, <2>3 DEF EdgeInvariant
    <3>2. /\ \E f : EdgeHistory(f, N)'
          /\ \A f : EdgeHistory(f, N)' => HistoryTells(f, stream', edge'.dropped)
      BY <1>1, <3>1
    <3>3. pc' = "done"
      BY <1>2, <2>3
    <3> HIDE DEF EdgeHistory
    <3> QED BY <3>2, <3>3 DEF EdgeInvariant, HistoryTells
  <2> QED BY <2>2, <2>3
<1>3. CASE /\ cur \in Events /\ Passed = cur - 1 /\ Passed' = cur
           /\ EdgeNow' = After(EdgeNow, cur) /\ pc' # "done" /\ pc # "done"
  <2>1. Passed \in Nat /\ cur = Passed + 1 /\ cur \in 1..N
    BY <1>3 DEF Events
  <2>2. \E g : EdgeHistory(g, cur) /\ g[cur] = EdgeNow'
    BY <1>3, <2>1, HistoryGoesOn DEF EdgeInvariant
  <2>3. \A f : EdgeHistory(f, N) => f[cur] = EdgeNow'
    <3> SUFFICES ASSUME NEW f, EdgeHistory(f, N) PROVE f[cur] = EdgeNow'
      OBVIOUS
    <3>1. f[cur] = After(f[cur - 1], cur)
      BY <2>1 DEF EdgeHistory
    <3>2. f[cur - 1] = EdgeNow
      BY <1>3 DEF EdgeInvariant
    <3> QED BY <1>3, <3>1, <3>2
  <2> QED BY <1>0, <1>3, <2>2, <2>3 DEF EdgeInvariant, EdgeHistory, After, Copies
<1>4. CASE pc = "flush" /\ pc' = "done" /\ stream' = stream \o held /\ edge' = edge
  <2>1. Passed = N
    BY <1>4, PassedType
  <2>2. \E f : EdgeHistory(f, N)
    BY <1>4, <2>1 DEF EdgeInvariant
  <2>3. \A f : EdgeHistory(f, N) => HistoryTells(f, stream', edge'.dropped)
    <3> SUFFICES ASSUME NEW f, EdgeHistory(f, N) PROVE HistoryTells(f, stream', edge'.dropped)
      OBVIOUS
    <3>1. f[N] = EdgeNow
      BY <1>4, <2>1 DEF EdgeInvariant
    <3>2. f[N].stream = stream /\ f[N].held = held /\ f[N].dropped = edge.dropped
      BY <3>1 DEF EdgeNow
    <3> QED BY <1>4, <3>2 DEF HistoryTells
  <2>4. /\ \E f : EdgeHistory(f, N)'
        /\ \A f : EdgeHistory(f, N)' => HistoryTells(f, stream', edge'.dropped)
    BY <1>1, <2>2, <2>3
  <2> QED BY <1>4, <2>4 DEF EdgeInvariant, HistoryTells
<1> QED BY <1>2, <1>3, <1>4, EdgeMoves

\* The edge starts with nothing dealt with.
LEMMA EdgeInit == Init => EdgeInvariant
<1> SUFFICES ASSUME Init PROVE EdgeInvariant
  OBVIOUS
<1>1. /\ stream = <<>> /\ held = <<>> /\ edge.dropped = <<>> /\ cur = 1
      /\ pc \in {"act", "publish"}
  BY DEF Init, FreshRun, FirstPc, BrokerInit, LabInit
<1>2. Passed = 0 /\ EdgeNow = NothingYet
  <2>1. pc = "act" \/ pc = "publish"
    BY <1>1
  <2> QED BY <1>1, <2>1 DEF Passed, EdgeNow, NothingYet
<1> DEFINE f == [k \in 0..0 |-> NothingYet]
<1>3. DOMAIN f = 0..0 /\ f[0] = NothingYet
  OBVIOUS
<1> HIDE DEF f
<1>4. EdgeHistory(f, 0)
  BY <1>3 DEF EdgeHistory
<1>5. \A g : EdgeHistory(g, N) => g[0] = NothingYet
  BY DEF EdgeHistory
<1> QED BY <1>1, <1>2, <1>3, <1>4, <1>5 DEF EdgeInvariant

----------------------------------------------------------------------------
(* A run of a study is a run of an arm.                                     *)

RunInvariant == TypeOK /\ GateInvariant /\ ChainInvariant /\ EdgeInvariant

LEMMA RunInit == Init => RunInvariant
  BY ShapeInit, GateInit, ChainInit, EdgeInit DEF RunInvariant

LEMMA RunStep ==
    ASSUME RunInvariant, [Next]_vars
    PROVE  RunInvariant'
<1>1. TypeOK' /\ GateInvariant'
  BY ShapeStep, VerdictStep, RulingStep, TurnStep, AllowedStep DEF RunInvariant, GateInvariant
<1>2. ChainInvariant'
  BY ChainInvariantStep DEF RunInvariant
<1>3. EdgeInvariant'
  BY EdgeInvariantStep DEF RunInvariant, GateInvariant
<1> QED BY <1>1, <1>2, <1>3 DEF RunInvariant

\* A schedule that is built gives every event one of the kinds asked for, or none.
LEMMA ScheduleType ==
    ASSUME NEW s \in Studies
    PROVE  Schedules(s) \subseteq [Events -> Kinds]
<1>1. NoFault \in Kinds /\ s.kinds \in Seq(Kinds)
  BY StudyAssumption DEF StudyType
<1>2. CASE s.kinds = <<>>
  BY <1>1, <1>2 DEF Schedules, NoFaults
<1>3. CASE s.kinds # <<>>
  <2> SUFFICES ASSUME NEW picked \in SUBSET Events
               PROVE  Assigned(s.kinds, picked) \in [Events -> Kinds]
    BY <1>3 DEF Schedules, Built
  <2>1. Len(s.kinds) \in Nat \ {0}
    BY <1>1, <1>3
  <2>2. ASSUME NEW e \in Events
        PROVE  (Cardinality({p \in picked : p < e}) % Len(s.kinds)) + 1 \in 1 .. Len(s.kinds)
    <3> DEFINE S == {p \in picked : p < e}
    <3>1. IsFiniteSet(Events)
      BY NAssumption, FS_Interval DEF Events
    <3>2. S \subseteq Events
      OBVIOUS
    <3> HIDE DEF S
    <3>3. Cardinality(S) \in Nat
      BY <3>1, <3>2, FS_Subset, FS_CardinalityType
    <3> QED BY <2>1, <3>3 DEF S
  <2>3. \A i \in 1 .. Len(s.kinds) : s.kinds[i] \in Kinds
    BY <1>1
  <2> QED BY <1>1, <2>2, <2>3 DEF Assigned
<1> QED BY <1>2, <1>3

LEMMA StudyInit ==
    ASSUME ExperimentInit
    PROVE  Init
<1>1. study \in Studies /\ mode \in Modes
  BY StudyAssumption DEF ExperimentInit, StudyType
<1> QED BY <1>1, ScheduleType DEF ExperimentInit, Init

\* The second run starts as a run does.
LEMMA SecondRunInit ==
    ASSUME TypeOK, study \in Studies, SecondRun
    PROVE  Init'
<1>1. mode' \in Modes
  BY StudyAssumption DEF SecondRun, StudyType
<1>2. scenario' \in Scenarios /\ schedule' \in [Events -> Kinds]
  BY DEF SecondRun, TypeOK, Scenarios
<1>3. FreshRun'
  BY DEF SecondRun, OwnStream, NewRun, FreshRun, BrokerInit, LabInit, EffectorInit
<1> QED BY <1>1, <1>2, <1>3 DEF Init

\* Whatever a study does next, its runs keep what a run keeps.
LEMMA StudyStep ==
    ASSUME RunInvariant, study \in Studies, [ExperimentNext]_experimentVars
    PROVE  RunInvariant' /\ study' \in Studies
<1>1. CASE [Next]_vars /\ UNCHANGED studyVars
  BY <1>1, RunStep DEF studyVars
<1>2. CASE SecondRun
  <2>1. Init'
    BY <1>2, SecondRunInit DEF RunInvariant
  <2>2. (Init => RunInvariant)'
    BY RunInit, PTL
  <2>3. study' = study
    BY <1>2 DEF SecondRun
  <2> QED BY <2>1, <2>2, <2>3
<1>3. CASE Conclude
  <2>1. [Next]_vars /\ study' = study
    BY <1>3 DEF Conclude
  <2> QED BY <2>1, RunStep
<1> QED BY <1>1, <1>2, <1>3 DEF ExperimentNext, ArmStep, experimentVars

(* Each run of a study is a run of an arm: resetting the broker and building*)
(* a new edge, effector and chains leaves nothing of the run before, so     *)
(* what holds of one run holds of both (run.py, run_condition; transport.py *)
(* reset_stream).                                                           *)
THEOREM StudiesKeepTheChains ==
    ExperimentSpec => [](TypeOK /\ GateInvariant /\ ChainInvariant)
<1>1. ExperimentInit => RunInvariant /\ study \in Studies
  BY StudyInit, RunInit DEF ExperimentInit
<1>2. RunInvariant /\ study \in Studies /\ [ExperimentNext]_experimentVars
      => (RunInvariant /\ study \in Studies)'
  BY StudyStep
<1>3. RunInvariant => TypeOK /\ GateInvariant /\ ChainInvariant
  BY DEF RunInvariant
<1> QED BY <1>1, <1>2, <1>3, PTL DEF ExperimentSpec

----------------------------------------------------------------------------
(* What a finished run tells.                                               *)

\* What a setting makes of an event that its gate has ruled on.
RunsUnder(m, e, decision) ==
    decision # "BLOCK" \/ (schedule[e] = "enforcement_fail" /\ ~m.singleWriter)

\* A ruling in time is the policy's on the evaluator's score, any other the fail mode's.
GateTells(r, m) ==
    /\ r.onTime \subseteq Events
    /\ \A e \in Events :
          /\ e \in r.onTime =>
                /\ r.gate[e] = Decide(m.policy, Evaluate(m.evaluator, scenario[e]))
                /\ ~Undecidable(e)
          /\ e \notin r.onTime => r.gate[e] = IF m.failClosed THEN "BLOCK" ELSE "ALLOW"

\* What ran is what the setting makes of the gate's rulings; the monitor runs everything.
RunsTell(r, m) ==
    /\ r.executed \subseteq Events
    /\ \A e \in Events :
          e \in r.executed <=> m.arm = "monitor" \/ RunsUnder(m, e, r.gate[e])
    /\ m.arm = "in_series" =>
          r.doubles = {e \in r.executed : ~m.idempotent /\ schedule[e] = "retry_double"}
    /\ m.idempotent => r.unsafeExecuted = Cardinality({e \in r.executed : scenario[e].unsafe})

EdgeTells(r) ==
    /\ \E f : EdgeHistory(f, N)
    /\ \A f : EdgeHistory(f, N) => HistoryTells(f, r.delivered, r.dropped)

ResultTells(r, m) == r.setting = m /\ EdgeTells(r) /\ GateTells(r, m) /\ RunsTell(r, m)

\* The first record on an event is the gate's.
LEMMA FirstIsTheGates ==
    ASSUME TypeOK, ChainInvariant, NEW e \in Events, NEW i, GateRecord(i, e)
    PROVE  FirstDecision(e) = decisions[i]
<1>1. ASSUME NEW j \in DOMAIN decisions, decisions[j].event = e
      PROVE  i <= j
  <2>1. i \in Nat /\ j \in Nat /\ i \in DOMAIN decisions
    BY DEF TypeOK, GateRecord
  <2>4. \A k \in DOMAIN decisions : GateRecord(k, e) => k = i
    BY <2>1 DEF ChainInvariant, ChainInOrder
  <2>2. CASE decisions[j].outcome # "DECIDED_BACKLOG"
    <3>1. GateRecord(j, e)
      BY <1>1, <2>2 DEF GateRecord
    <3>2. j = i
      BY <1>1, <2>4, <3>1
    <3> QED BY <2>1, <3>2
  <2>3. CASE decisions[j].outcome = "DECIDED_BACKLOG"
    <3>1. PICK k \in 1 .. j - 1 : /\ decisions[k].event = e
                                  /\ decisions[k].outcome # "DECIDED_BACKLOG"
      BY <1>1, <2>3 DEF ChainInvariant, ChainInOrder, BacklogComesAfterTheGate
    <3>2. k \in DOMAIN decisions /\ k \in Nat /\ k < j
      BY <1>1, <2>1, <3>1 DEF TypeOK
    <3>3. i = k
      BY <2>4, <3>1, <3>2 DEF GateRecord
    <3> QED BY <2>1, <3>2, <3>3
  <2> QED BY <2>2, <2>3
<1> DEFINE First1(k) == /\ decisions[k].event = e
                        /\ \A j \in DOMAIN decisions : decisions[j].event = e => k <= j
<1>2. i \in DOMAIN decisions /\ First1(i)
  BY <1>1 DEF GateRecord
<1>3. \A k \in DOMAIN decisions : First1(k) => k = i
  <2> SUFFICES ASSUME NEW k \in DOMAIN decisions, First1(k) PROVE k = i
    OBVIOUS
  <2>1. i \in Nat /\ k \in Nat /\ i <= k /\ k <= i
    BY <1>2 DEF TypeOK
  <2> QED BY <2>1
<1>4. FirstDecision(e) = decisions[CHOOSE k \in DOMAIN decisions : First1(k)]
  BY DEF FirstDecision
<1> HIDE DEF First1
<1>5. (CHOOSE k \in DOMAIN decisions : First1(k)) = i
  BY <1>2, <1>3
<1> QED BY <1>4, <1>5

\* At the end every event has its gate's ruling, which is sound and is followed.
LEMMA FinishedIsRuled ==
    ASSUME TypeOK, GateInvariant, ChainInvariant, pc = "done", NEW e \in Events
    PROVE  /\ \E i : GateRecord(i, e)
           /\ e < cur /\ ~Unasked(e)
<1>1. cur = N + 1 /\ e \in 1..N
  BY DEF GateInvariant, LoopShape, Events
<1>2. e < cur /\ ~Unasked(e)
  BY NAssumption, <1>1 DEF Unasked
<1> QED BY <1>2 DEF OnRecord, ChainInvariant, ChainInOrder

\* A finished run's gate rulings.
LEMMA FinishedGateTells ==
    ASSUME TypeOK, GateInvariant, ChainInvariant, pc = "done"
    PROVE  GateTells(Result, mode)
<1> SUFFICES ASSUME NEW e \in Events
             PROVE  /\ e \in Result.onTime =>
                          /\ Result.gate[e] = Decide(mode.policy, Score(e))
                          /\ ~Undecidable(e)
                    /\ e \notin Result.onTime => Result.gate[e] = FailModeDecision
  BY DEF GateTells, Score, FailModeDecision, Result
<1>1. PICK i : GateRecord(i, e)
  BY FinishedIsRuled
<1>2. FirstDecision(e) = decisions[i]
  BY <1>1, FirstIsTheGates
<1>3. Result.gate[e] = decisions[i].decision
  BY <1>2 DEF Result
<1>4. e \in Result.onTime <=> decisions[i].outcome = "DECIDED"
  BY <1>2 DEF Result
<1>5. /\ SoundRecord(decisions[i]) /\ decisions[i].event = e
      /\ decisions[i].outcome \in Outcomes \ {"DECIDED_BACKLOG"}
  BY <1>1, RecordFields DEF GateRecord, ChainInvariant, RecordsAreSound, TypeOK, DecisionRecords
<1> QED BY <1>3, <1>4, <1>5 DEF SoundRecord, Outcomes

\* What a record on the effect chain is made of.
LEMMA EffectFields ==
    ASSUME TypeOK, NEW i \in DOMAIN effects
    PROVE  effects[i].event \in Events /\ effects[i].executed \in BOOLEAN
<1>1. effects[i] \in EffectRecords
  BY DEF TypeOK
<1> QED BY <1>1 DEF EffectRecords

\* With dedup on, the effect records of executed unsafe actions are as many as the actions.
LEMMA UnsafeByEvent ==
    ASSUME TypeOK, ChainInvariant, mode.idempotent
    PROVE  UnsafeExecuted = Cardinality({e \in Events : Executed(e) /\ scenario[e].unsafe})
<1> DEFINE S == {i \in DOMAIN effects : /\ scenario[effects[i].event].unsafe = TRUE
                                        /\ effects[i].executed = TRUE}
           T == {e \in Events : Executed(e) /\ scenario[e].unsafe}
           f == [i \in S |-> effects[i].event]
<1>1. \A i \in DOMAIN effects : effects[i].event \in Events
  BY EffectFields
<1>2. f \in Injection(S, T)
  <2>1. f \in [S -> T]
    <3> SUFFICES ASSUME NEW i \in S PROVE effects[i].event \in T
      OBVIOUS
    <3>1. Executed(effects[i].event)
      BY DEF Executed
    <3> QED BY <1>1, <3>1
  <2>2. \A i, j \in S : f[i] = f[j] => i = j
    BY DEF ChainInvariant, EffectsTell
  <2> HIDE DEF f, S, T
  <2> QED BY <2>1, <2>2 DEF Injection, IsInjective
<1>3. f \in Surjection(S, T)
  <2>1. ASSUME NEW e \in T PROVE \E i \in S : f[i] = e
    <3>1. PICK i \in DOMAIN effects : effects[i].event = e /\ effects[i].executed
      BY DEF Executed
    <3>2. effects[i].executed \in BOOLEAN
      BY EffectFields
    <3>3. scenario[e].unsafe = TRUE
      BY ArmAssumption DEF TypeOK, Catalogue, SafeActions, UnsafeActions, Harmless, Harmful
    <3>4. i \in S
      BY <3>1, <3>2, <3>3
    <3> QED BY <3>1, <3>4
  <2> QED BY <1>2, <2>1 DEF Injection, Surjection
<1>4. IsFiniteSet(S)
  <2>1. DOMAIN effects = 1 .. Len(effects) /\ Len(effects) \in Nat
    BY DEF TypeOK
  <2>2. IsFiniteSet(DOMAIN effects)
    BY <2>1, FS_Interval
  <2> QED BY <2>2, FS_Subset
<1> HIDE DEF S, T, f
<1>5. Cardinality(T) = Cardinality(S)
  BY <1>2, <1>3, <1>4, FS_Surjection
<1> QED BY <1>5 DEF UnsafeExecuted, EffectCount, S, T

\* What ran in a finished run.
LEMMA FinishedRunsTell ==
    ASSUME TypeOK, GateInvariant, ChainInvariant, pc = "done"
    PROVE  RunsTell(Result, mode)
<1> USE DEF GateInvariant, ChainInvariant
<1>1. /\ Result.executed = {e \in Events : Executed(e)}
      /\ Result.doubles = {e \in Events : ran[e] > 1}
      /\ Result.unsafeExecuted = UnsafeExecuted
  BY DEF Result, Row, DoubleExecutions
<1>2. \A e \in Events : /\ Executed(e) <=> ran[e] > 0
                        /\ ran[e] \in Nat
  BY DEF EffectsTell, TypeOK
<1>3. mode.arm = "in_series" \/ mode.arm = "monitor"
  BY ArmAssumption DEF TypeOK, AllModes
<1>4. ASSUME NEW e \in Events
      PROVE  Executed(e) <=> mode.arm = "monitor" \/ RunsUnder(mode, e, Result.gate[e])
  <2>1. CASE ~InSeries
    <3>1. ran[e] = 1
      BY <2>1, FinishedIsRuled DEF RanAsRuled, MonitorRan
    <3> QED BY <1>2, <1>3, <2>1, <3>1 DEF InSeries
  <2>2. CASE InSeries
    <3>1. PICK i : GateRecord(i, e)
      BY FinishedIsRuled
    <3>2. Result.gate[e] = decisions[i].decision
      BY <3>1, FirstIsTheGates DEF Result
    <3>3. ran[e] > 0 <=> RunsBy(e, decisions[i].decision)
      BY <2>2, <3>1, FinishedIsRuled DEF RanAsRuled, LeftRan, GateRecord
    <3> QED BY <1>2, <2>2, <3>2, <3>3 DEF RunsBy, RunsUnder, TwoWriters, InSeries
  <2> QED BY <2>1, <2>2
<1>5. InSeries => \A e \in Events : ran[e] > 1 <=> RanTwice(e)
  BY FinishedIsRuled DEF RanAsRuled, LeftRan
<1>6. mode.arm = "in_series" =>
          Result.doubles = {e \in Result.executed :
                              ~mode.idempotent /\ schedule[e] = "retry_double"}
  BY <1>1, <1>2, <1>5 DEF InSeries, RanTwice
<1>7. mode.idempotent =>
          Result.unsafeExecuted = Cardinality({e \in Result.executed : scenario[e].unsafe})
  <2>1. {e \in Result.executed : scenario[e].unsafe}
        = {e \in Events : Executed(e) /\ scenario[e].unsafe}
    BY <1>1
  <2> QED BY <1>1, <2>1, UnsafeByEvent
<1> QED BY <1>1, <1>4, <1>6, <1>7 DEF RunsTell

LEMMA FinishedTells ==
    ASSUME RunInvariant, pc = "done"
    PROVE  ResultTells(Result, mode)
<1>1. EdgeTells(Result) /\ Result.setting = mode
  BY DEF RunInvariant, EdgeInvariant, EdgeTells, Result
<1> QED BY <1>1, FinishedGateTells, FinishedRunsTell DEF RunInvariant, ResultTells

----------------------------------------------------------------------------
(* What that leaves for the comparison of two runs.                         *)

\* The results kept so far tell what the runs did, under the two settings in turn.
StudyInvariant ==
    /\ study \in Studies
    /\ \/ results = <<>>
       \/ \E a : results = <<a>> /\ ResultTells(a, study.settings[1])
       \/ \E a, b : /\ results = <<a, b>>
                    /\ ResultTells(a, study.settings[1])
                    /\ ResultTells(b, study.settings[2])
    /\ mode = IF results = <<>> THEN study.settings[1] ELSE study.settings[2]

\* A result goes on telling the same.
LEMMA ResultsKeep ==
    ASSUME schedule' = schedule, scenario' = scenario, study' = study
    PROVE  \A r, m : ResultTells(r, m)' <=> ResultTells(r, m)
  BY DEF ResultTells, EdgeTells, GateTells, RunsTell, RunsUnder, HistoryTells, EdgeHistory,
         After, Copies, Undecidable, DelayOf

LEMMA StudyInvariantStep ==
    ASSUME RunInvariant, StudyInvariant, [ExperimentNext]_experimentVars
    PROVE  StudyInvariant'
<1>1. CASE [Next]_vars /\ UNCHANGED studyVars
  <2>1. schedule' = schedule /\ scenario' = scenario /\ mode' = mode
    BY <1>1, InputsRigid
  <2>2. study' = study /\ results' = results
    BY <1>1 DEF studyVars
  <2> QED BY <2>1, <2>2, ResultsKeep DEF StudyInvariant
<1>2. CASE SecondRun
  <2>1. results = <<>> /\ results' = <<Result>> /\ mode' = study.settings[2] /\ study' = study
    BY <1>2 DEF SecondRun
  <2>2. PICK a : a = Result
    OBVIOUS
  <2>3. ResultTells(a, study.settings[1])
    BY <1>2, <2>1, <2>2, FinishedTells DEF SecondRun, StudyInvariant
  <2>4. PICK m : m = study.settings[1]
    OBVIOUS
  <2>5. ResultTells(a, m)'
    BY <1>2, <2>3, <2>4, ResultsKeep DEF SecondRun
  <2>6. m = study'.settings[1]
    BY <2>1, <2>4
  <2> QED BY <2>1, <2>2, <2>5, <2>6 DEF StudyInvariant
<1>3. CASE Conclude
  <2>1. /\ Len(results) = 1 /\ results' = <<results[1], Result>> /\ study' = study
        /\ mode' = mode /\ schedule' = schedule /\ scenario' = scenario
    BY <1>3 DEF Conclude, vars, inputVars
  <2>2. PICK a : results = <<a>> /\ ResultTells(a, study.settings[1])
    BY <2>1 DEF StudyInvariant
  <2>3. PICK b : b = Result
    OBVIOUS
  <2>4. ResultTells(b, study.settings[2])
    BY <1>3, <2>2, <2>3, FinishedTells DEF Conclude, StudyInvariant
  <2>5. results' = <<a, b>>
    BY <2>1, <2>2, <2>3
  <2>6. PICK m, n : m = study.settings[1] /\ n = study.settings[2]
    OBVIOUS
  <2>7. ResultTells(a, m)' /\ ResultTells(b, n)'
    BY <2>1, <2>2, <2>4, <2>6, ResultsKeep
  <2>8. m = study'.settings[1] /\ n = study'.settings[2] /\ mode' = study'.settings[2]
    BY <2>1, <2>2, <2>6 DEF StudyInvariant
  <2> QED BY <2>1, <2>5, <2>7, <2>8 DEF StudyInvariant
<1> QED BY <1>1, <1>2, <1>3 DEF ExperimentNext, ArmStep, experimentVars

LEMMA StudiesTell == ExperimentSpec => [](RunInvariant /\ StudyInvariant)
<1>1. ExperimentInit => RunInvariant /\ StudyInvariant
  BY StudyInit, RunInit DEF ExperimentInit, StudyInvariant
<1>2. RunInvariant /\ StudyInvariant /\ [ExperimentNext]_experimentVars
      => (RunInvariant /\ StudyInvariant)'
  BY StudyStep, StudyInvariantStep DEF StudyInvariant
<1> QED BY <1>1, <1>2, PTL DEF ExperimentSpec

\* A concluded study has two results, one for each setting.
LEMMA BothTell ==
    ASSUME StudyInvariant, Concluded
    PROVE  /\ ResultTells(First, study.settings[1]) /\ ResultTells(Second, study.settings[2])
           /\ mode = study.settings[2]
           /\ study.settings[1] \in Modes /\ study.settings[2] \in Modes
<1>1. PICK a, b : /\ results = <<a, b>>
                  /\ ResultTells(a, study.settings[1])
                  /\ ResultTells(b, study.settings[2])
  BY DEF StudyInvariant, Concluded
<1>2. First = a /\ Second = b
  BY <1>1 DEF First, Second
<1>3. mode = study.settings[2]
  BY <1>1 DEF StudyInvariant
<1> QED BY <1>1, <1>2, <1>3, StudyAssumption DEF StudyInvariant, StudyType

(* Both runs of a study read one stream: what the edge lets through and     *)
(* loses depends on the schedule alone (arms.py header; faultlab.py         *)
(* publish, flush_reorder_buffer).                                          *)
THEOREM OneStream == ExperimentSpec => []BothRunsReadOneStream
<1>1. StudyInvariant => BothRunsReadOneStream
  <2> SUFFICES ASSUME StudyInvariant, Concluded
               PROVE  First.delivered = Second.delivered /\ First.dropped = Second.dropped
    BY DEF BothRunsReadOneStream
  <2>1. PICK f : EdgeHistory(f, N)
    BY BothTell DEF ResultTells, EdgeTells
  <2>2. /\ HistoryTells(f, First.delivered, First.dropped)
        /\ HistoryTells(f, Second.delivered, Second.dropped)
    BY <2>1, BothTell DEF ResultTells, EdgeTells
  <2> QED BY <2>2 DEF HistoryTells
<1> QED BY <1>1, StudiesTell, PTL

\* The settings of a study that differ in one field agree in the others.
LEMMA OthersAgree ==
    ASSUME NEW field, DifferIn(field), study.settings[1] \in Modes, study.settings[2] \in Modes
    PROVE  \A f \in {"arm", "failClosed", "idempotent", "singleWriter", "crashing", "second",
                     "evaluator", "policy"} \ {field} :
               study.settings[1][f] = study.settings[2][f]
<1> DEFINE fields == {"arm", "failClosed", "idempotent", "singleWriter", "crashing", "second",
                      "evaluator", "policy"}
<1>1. \A m \in AllModes : DOMAIN m = fields
  BY DEF AllModes
<1>2. study.settings[1] \in AllModes
  BY ArmAssumption
<1>3. DOMAIN study.settings[1] = fields
  BY <1>1, <1>2
<1> HIDE DEF fields
<1>4. \A f \in fields \ {field} : study.settings[1][f] = study.settings[2][f]
  BY <1>3 DEF DifferIn
<1> QED BY <1>4 DEF fields

(* Without dedup exactly the retried actions that run at all run twice, and *)
(* with it none does (control NC1, condition E4).                           *)
THEOREM DedupBearsTheLoad == ExperimentSpec => []DedupIsLoadBearing
<1>1. StudyInvariant => DedupIsLoadBearing
  <2> SUFFICES ASSUME StudyInvariant, Concluded, DifferIn("idempotent"),
                      First.setting.idempotent, InSeries
               PROVE  /\ Second.doubles = {e \in Second.executed : schedule[e] = "retry_double"}
                      /\ IdempotencyPower <=> Second.doubles # {}
                      /\ SameOnTime => First.executed = Second.executed
    BY DEF DedupIsLoadBearing
  <2> DEFINE a == study.settings[1]
             b == study.settings[2]
  <2>1. /\ ResultTells(First, a) /\ ResultTells(Second, b) /\ mode = b
        /\ a \in Modes /\ b \in Modes
    BY BothTell
  <2>2. /\ a.arm = b.arm /\ a.failClosed = b.failClosed /\ a.singleWriter = b.singleWriter
        /\ a.policy = b.policy /\ a.evaluator = b.evaluator
    BY <2>1, OthersAgree
  <2>3. a.arm = "in_series" /\ b.arm = "in_series" /\ a.idempotent
    BY <2>1, <2>2 DEF InSeries, ResultTells
  <2>4. ~b.idempotent
    <3>1. a.idempotent # b.idempotent
      BY DEF DifferIn
    <3>2. a.idempotent \in BOOLEAN /\ b.idempotent \in BOOLEAN
      BY <2>1, ArmAssumption DEF AllModes
    <3> QED BY <2>3, <3>1, <3>2
  <2> HIDE DEF a, b
  <2>5. Second.doubles = {e \in Second.executed : schedule[e] = "retry_double"}
    BY <2>1, <2>3, <2>4 DEF ResultTells, RunsTell
  <2>6. First.doubles = {}
    BY <2>1, <2>3 DEF ResultTells, RunsTell
  <2>7. ASSUME SameOnTime PROVE First.executed = Second.executed
    <3>1. \A e \in Events : First.gate[e] = Second.gate[e]
      BY <2>1, <2>2, <2>7 DEF ResultTells, GateTells, SameOnTime
    <3>2. \A e \in Events : e \in First.executed <=> e \in Second.executed
      BY <2>1, <2>2, <3>1 DEF ResultTells, RunsTell, RunsUnder
    <3> QED BY <2>1, <3>2 DEF ResultTells, RunsTell
  <2> QED BY <2>5, <2>6, <2>7 DEF IdempotencyPower
<1> QED BY <1>1, StudiesTell, PTL

\* More unsafe actions ran where all that ran before ran, and one more that is unsafe.
LEMMA MoreRan ==
    ASSUME NEW X, NEW Y, X \subseteq Y, Y \subseteq Events,
           NEW e \in Y \ X, scenario[e].unsafe
    PROVE  Cardinality({d \in X : scenario[d].unsafe}) < Cardinality({d \in Y : scenario[d].unsafe})
<1> DEFINE S == {d \in X : scenario[d].unsafe}
           T == {d \in Y : scenario[d].unsafe}
<1>1. IsFiniteSet(Events)
  BY NAssumption, FS_Interval DEF Events
<1>2. S \in SUBSET T /\ T \in SUBSET Events /\ S # T
  OBVIOUS
<1> HIDE DEF S, T
<1>3. IsFiniteSet(T)
  BY <1>1, <1>2, FS_Subset
<1>4. IsFiniteSet(S) /\ Cardinality(S) <= Cardinality(T) /\ Cardinality(S) # Cardinality(T)
  BY <1>2, <1>3, FS_Subset
<1>5. Cardinality(S) \in Nat /\ Cardinality(T) \in Nat
  BY <1>3, <1>4, FS_CardinalityType
<1>6. Cardinality(S) < Cardinality(T)
  BY <1>4, <1>5
<1> QED BY <1>6 DEF S, T

(* Failing open never stops what failing closed lets run, adds only what    *)
(* one of the runs had no timely decision on, and is strictly worse as soon *)
(* as a fault keeps an unsafe action undecided (control NC4).               *)
THEOREM FailingOpenAdds == ExperimentSpec => []FailOpenOnlyAdds
<1>1. StudyInvariant => FailOpenOnlyAdds
  <2> SUFFICES ASSUME StudyInvariant, Concluded, DifferIn("failClosed"),
                      First.setting.failClosed, InSeries
               PROVE  /\ First.executed \subseteq Second.executed
                      /\ Second.executed \ First.executed
                         \subseteq Events \ (First.onTime \cap Second.onTime)
                      /\ mode.idempotent
                         /\ (\E e \in Events : scenario[e].unsafe /\ Undecidable(e))
                         => DeadlinePower
    BY DEF FailOpenOnlyAdds
  <2> DEFINE a == study.settings[1]
             b == study.settings[2]
  <2>1. /\ ResultTells(First, a) /\ ResultTells(Second, b) /\ mode = b
        /\ a \in Modes /\ b \in Modes
    BY BothTell
  <2>2. /\ a.arm = b.arm /\ a.idempotent = b.idempotent /\ a.singleWriter = b.singleWriter
        /\ a.policy = b.policy /\ a.evaluator = b.evaluator
    BY <2>1, OthersAgree
  <2>3. a.arm = "in_series" /\ b.arm = "in_series" /\ a.failClosed
    BY <2>1, <2>2 DEF InSeries, ResultTells
  <2>4. ~b.failClosed
    <3>1. a.failClosed # b.failClosed
      BY DEF DifferIn
    <3>2. a.failClosed \in BOOLEAN /\ b.failClosed \in BOOLEAN
      BY <2>1, ArmAssumption DEF AllModes
    <3> QED BY <2>3, <3>1, <3>2
  <2> HIDE DEF a, b
  <2>5. /\ First.executed \subseteq Events /\ Second.executed \subseteq Events
        /\ \A e \in Events : /\ e \in First.executed <=> RunsUnder(a, e, First.gate[e])
                             /\ e \in Second.executed <=> RunsUnder(b, e, Second.gate[e])
    BY <2>1, <2>3 DEF ResultTells, RunsTell
  <2>6. ASSUME NEW e \in Events
        PROVE  /\ First.gate[e] # "BLOCK" => e \in First.onTime
               /\ Second.gate[e] = "BLOCK" => e \in Second.onTime
               /\ e \in First.onTime /\ e \in Second.onTime => First.gate[e] = Second.gate[e]
               /\ Undecidable(e) => e \notin First.onTime /\ e \notin Second.onTime
    BY <2>1, <2>2, <2>3, <2>4 DEF ResultTells, GateTells
  <2>7. First.executed \subseteq Second.executed
    BY <2>2, <2>5, <2>6 DEF RunsUnder
  <2>8. Second.executed \ First.executed \subseteq Events \ (First.onTime \cap Second.onTime)
    BY <2>2, <2>5, <2>6 DEF RunsUnder
  <2>9. ASSUME mode.idempotent, NEW e \in Events, scenario[e].unsafe, Undecidable(e)
        PROVE  DeadlinePower
    <3>1. schedule[e] # "enforcement_fail"
      BY <2>9, ArmAssumption DEF Undecidable, DelayOf
    <3>2. e \in Second.executed \ First.executed
      BY <2>5, <2>6, <2>9, <3>1 DEF RunsUnder
    <3>3. /\ First.unsafeExecuted = Cardinality({d \in First.executed : scenario[d].unsafe})
          /\ Second.unsafeExecuted = Cardinality({d \in Second.executed : scenario[d].unsafe})
      BY <2>1, <2>2, <2>9 DEF ResultTells, RunsTell
    <3> QED BY <2>5, <2>7, <2>9, <3>2, <3>3, MoreRan DEF DeadlinePower
  <2> QED BY <2>7, <2>8, <2>9
<1> QED BY <1>1, StudiesTell, PTL

\* The null policy blocks nothing.
LEMMA NullBlocksNothing ==
    \A e \in Events : \A version \in {"eval/1.0", "eval/1.1"} :
        Decide("policy/null", Evaluate(version, scenario[e])) # "BLOCK"
<1> SUFFICES ASSUME NEW e \in Events, NEW version \in {"eval/1.0", "eval/1.1"}
             PROVE  Decide("policy/null", Evaluate(version, scenario[e])) # "BLOCK"
  OBVIOUS
<1>1. Evaluate(version, scenario[e]) \in Risks
  BY EvaluateType
<1>2. ~(Evaluate(version, scenario[e]) >= BlockAt("policy/null"))
  BY <1>1 DEF BlockAt, Risks
<1> QED BY <1>2 DEF Decide

(* Between the two arms only the gate makes a difference: what both decide  *)
(* in time they decide alike, and the monitor runs, beyond what the gate    *)
(* lets run, exactly what the gate blocked and enforcement stopped (arms.py *)
(* header; run.py 155-168; controls NC2a and NC2b).                         *)
THEOREM OnlyPositionDiffers == ExperimentSpec => []PositionIsTheOnlyDifference
<1>1. StudyInvariant => PositionIsTheOnlyDifference
  <2> DEFINE stopped == {e \in Events : /\ First.gate[e] = "BLOCK"
                                        /\ mode.singleWriter \/ schedule[e] # "enforcement_fail"}
  <2> SUFFICES ASSUME StudyInvariant, Concluded, DifferIn("arm"),
                      First.setting.arm = "in_series"
               PROVE  /\ \A e \in First.onTime \cap Second.onTime : First.gate[e] = Second.gate[e]
                      /\ Second.executed = Events
                      /\ First.executed = Events \ stopped
                      /\ mode.policy = "policy/null" /\ ~mode.failClosed /\ mode.idempotent
                         => ArmsAgree
    BY DEF PositionIsTheOnlyDifference
  <2> DEFINE a == study.settings[1]
             b == study.settings[2]
  <2>1. /\ ResultTells(First, a) /\ ResultTells(Second, b) /\ mode = b
        /\ a \in Modes /\ b \in Modes
    BY BothTell
  <2>2. /\ a.failClosed = b.failClosed /\ a.idempotent = b.idempotent
        /\ a.singleWriter = b.singleWriter
        /\ a.policy = b.policy /\ a.evaluator = b.evaluator
    BY <2>1, OthersAgree
  <2>3. a.arm = "in_series" /\ b.arm = "monitor"
    <3>1. a.arm # b.arm
      BY DEF DifferIn
    <3>2. b.arm \in {"in_series", "monitor"}
      BY <2>1, ArmAssumption DEF AllModes
    <3> QED BY <2>1, <3>1, <3>2 DEF ResultTells
  <2>4. a.evaluator \in {"eval/1.0", "eval/1.1"}
    BY <2>1, ArmAssumption DEF AllModes
  <2> HIDE DEF a, b
  <2>5. /\ First.executed \subseteq Events /\ Second.executed \subseteq Events
        /\ \A e \in Events : /\ e \in First.executed <=> RunsUnder(a, e, First.gate[e])
                             /\ e \in Second.executed
    BY <2>1, <2>3 DEF ResultTells, RunsTell
  <2>6. \A e \in Events : e \in First.onTime \cap Second.onTime => First.gate[e] = Second.gate[e]
    BY <2>1, <2>2 DEF ResultTells, GateTells
  <2>7. First.onTime \cap Second.onTime \subseteq Events
    BY <2>1 DEF ResultTells, GateTells
  <2>8. First.executed = Events \ stopped
    BY <2>1, <2>2, <2>5 DEF RunsUnder
  <2>9. ASSUME mode.policy = "policy/null", ~mode.failClosed, mode.idempotent
        PROVE  ArmsAgree
    <3>1. ASSUME NEW e \in Events PROVE First.gate[e] # "BLOCK"
      <4>1. CASE e \in First.onTime
        BY <2>1, <2>2, <2>4, <2>9, <4>1, NullBlocksNothing DEF ResultTells, GateTells
      <4>2. CASE e \notin First.onTime
        BY <2>1, <2>2, <2>9, <4>2 DEF ResultTells, GateTells
      <4> QED BY <4>1, <4>2
    <3>2. First.executed = Events /\ Second.executed = Events
      BY <2>5, <3>1 DEF RunsUnder
    <3> QED BY <2>1, <2>2, <2>9, <3>2 DEF ResultTells, RunsTell, ArmsAgree
  <2> QED BY <2>5, <2>6, <2>7, <2>8, <2>9
<1> QED BY <1>1, StudiesTell, PTL

----------------------------------------------------------------------------
(* How a schedule is built.                                                 *)

\* What a division leaves.
LEMMA Divided ==
    ASSUME NEW r \in Nat, NEW k \in Nat \ {0}
    PROVE  /\ r \div k \in Nat /\ r % k \in 0 .. k - 1
           /\ r = k * (r \div k) + (r % k)
  BY SMT

LEMMA Remains ==
    ASSUME NEW q \in Nat, NEW k \in Nat \ {0}, NEW j \in 0 .. k - 1
    PROVE  (k * q + j) % k = j
  BY SMT

\* Rounding is off by half at most, and goes up from a fraction only (faultlab.py 92).
LEMMA RoundedTells ==
    ASSUME NEW part \in Nat, NEW whole \in Nat \ {0}
    PROVE  /\ Rounded(part, whole) \in Nat
           /\ 2 * (Rounded(part, whole) * whole - part) \in -whole .. whole
           /\ \/ Rounded(part, whole) = part \div whole
              \/ Rounded(part, whole) = (part \div whole) + 1 /\ part % whole # 0
<1>1. PICK q, m : q = part \div whole /\ m = part % whole
  OBVIOUS
<1>2. q \in Nat /\ m \in 0 .. whole - 1 /\ part = whole * q + m
  BY <1>1, Divided
<1>3. PICK n : n = Rounded(part, whole)
  OBVIOUS
<1>4. \/ n = q /\ 2 * m <= whole
      \/ n = q + 1 /\ 2 * m >= whole
  BY <1>1, <1>2, <1>3 DEF Rounded
<1>5. CASE n = q /\ 2 * m <= whole
  <2>1. n * whole - part = -m
    BY <1>2, <1>5
  <2>2. 2 * (n * whole - part) \in -whole .. whole
    BY <1>2, <1>5, <2>1
  <2> QED BY <1>1, <1>2, <1>3, <1>5, <2>2
<1>6. CASE n = q + 1 /\ 2 * m >= whole
  <2>1. n * whole - part = whole - m
    BY <1>2, <1>6
  <2>2. 2 * (n * whole - part) \in -whole .. whole /\ m # 0
    BY <1>2, <1>6, <2>1
  <2> QED BY <1>1, <1>2, <1>3, <1>6, <2>2
<1> QED BY <1>4, <1>5, <1>6

\* The picked events are the rate of all events, rounded, and all of them at most.
LEMMA PicksTells ==
    ASSUME NEW rate \in Nat \X (Nat \ {0})
    PROVE  LET exact == N * (IF rate[1] <= rate[2] THEN rate[1] ELSE rate[2])
           IN /\ Picks(rate) \in 0 .. N
              /\ 2 * (Picks(rate) * rate[2] - exact) \in -rate[2] .. rate[2]
<1>1. PICK a, w : a = rate[1] /\ w = rate[2] /\ a \in Nat /\ w \in Nat \ {0}
  OBVIOUS
<1>2. N \in Nat /\ N * a \in Nat /\ N * w \in Nat
  BY <1>1, NAssumption
<1>3. PICK n : n = Rounded(N * a, w)
  OBVIOUS
<1>4. /\ n \in Nat /\ 2 * (n * w - N * a) \in -w .. w
      /\ \/ n = (N * a) \div w
         \/ n = ((N * a) \div w) + 1 /\ (N * a) % w # 0
  <2>1. PICK part \in Nat : part = N * a
    BY <1>2
  <2> QED BY <1>1, <1>3, <2>1, RoundedTells
<1>5. Picks(rate) = IF n < N THEN n ELSE N
  BY <1>1, <1>3 DEF Picks
<1>6. PICK q, m : q = (N * a) \div w /\ m = (N * a) % w
  OBVIOUS
<1>7. q \in Nat /\ m \in 0 .. w - 1 /\ N * a = w * q + m
  BY <1>1, <1>2, <1>6, Divided
<1>8. CASE a <= w
  <2>1. N * a <= N * w
    BY <1>1, <1>2, <1>8
  <2>2. n <= N
    <3>1. q <= N
      <4>1. w * q <= w * N
        BY <1>1, <1>2, <1>7, <2>1
      <4> QED BY <1>1, <1>2, <1>7, <4>1
    <3>2. q = N => m = 0
      <4>1. q = N => w * q = N * w
        BY <1>1, <1>2, <1>7
      <4> QED BY <1>1, <1>2, <1>7, <2>1, <4>1
    <3> QED BY <1>2, <1>4, <1>6, <1>7, <3>1, <3>2
  <2>3. Picks(rate) = n
    BY <1>2, <1>4, <1>5, <2>2
  <2> QED BY <1>1, <1>2, <1>4, <1>8, <2>2, <2>3
<1>9. CASE a > w
  <2>1. N * a >= N * w
    BY <1>1, <1>2, <1>9
  <2>2. q >= N
    <3>1. w * (q + 1) > w * N
      <4>1. w * (q + 1) = w * q + w /\ w * N = N * w
        BY <1>1, <1>2, <1>7
      <4> QED BY <1>1, <1>2, <1>7, <2>1, <4>1
    <3> QED BY <1>1, <1>2, <1>7, <3>1
  <2>3. Picks(rate) = N
    BY <1>2, <1>4, <1>5, <1>6, <1>7, <2>2
  <2>4. 2 * (N * w - N * w) \in -w .. w
    BY <1>1, <1>2
  <2> QED BY <1>1, <1>2, <1>9, <2>3, <2>4
<1> QED BY <1>1, <1>8, <1>9

\* The place of an event among the picked ones.
Rank(picked, e) == Cardinality({p \in picked : p < e})

\* The picked events are ranked from 0 on, without a gap.
LEMMA RanksAreOnto ==
    ASSUME NEW picked \in SUBSET Events, NEW n, n = Cardinality(picked),
           NEW f, f = [p \in picked |-> Rank(picked, p)]
    PROVE  /\ n \in Nat /\ f \in [picked -> 0 .. n - 1]
           /\ \A p, q \in picked : f[p] = f[q] => p = q
           /\ \A p, q \in picked : f[p] < f[q] => p < q
           /\ \A r \in 0 .. n - 1 : \E p \in picked : f[p] = r
<1>1. IsFiniteSet(picked) /\ n \in Nat
  BY EventsAreFew
<1>2. \A p \in picked : p \in Int
  BY NAssumption DEF Events
<1>3. ASSUME NEW p \in picked
      PROVE  /\ IsFiniteSet({q \in picked : q < p})
             /\ Rank(picked, p) \in 0 .. n - 1
  <2> DEFINE S == {q \in picked : q < p}
  <2>1. S \in SUBSET picked /\ p \notin S
    BY <1>2
  <2> HIDE DEF S
  <2>2. /\ IsFiniteSet(S) /\ Cardinality(S) <= n /\ Cardinality(S) \in Nat
        /\ n = Cardinality(S) => S = picked
    BY <1>1, <2>1, FS_Subset, FS_CardinalityType
  <2>3. Cardinality(S) \in 0 .. n - 1
    BY <1>1, <2>1, <2>2
  <2> QED BY <2>2, <2>3 DEF S, Rank
<1>4. ASSUME NEW p \in picked, NEW q \in picked, p < q
      PROVE  Rank(picked, p) < Rank(picked, q)
  <2> DEFINE S == {r \in picked : r < p}
             T == {r \in picked : r < q}
  <2>1. S \in SUBSET T /\ p \in T /\ p \notin S
    BY <1>2, <1>4
  <2>2. IsFiniteSet(T)
    BY <1>3
  <2> HIDE DEF S, T
  <2>3. /\ Cardinality(S) <= Cardinality(T) /\ Cardinality(S) # Cardinality(T)
        /\ Cardinality(S) \in Nat /\ Cardinality(T) \in Nat
    BY <2>1, <2>2, FS_Subset, FS_CardinalityType
  <2>4. Cardinality(S) < Cardinality(T)
    BY <2>3
  <2> QED BY <2>4 DEF S, T, Rank
<1>5. f \in [picked -> 0 .. n - 1]
  BY <1>3
<1>6. \A p, q \in picked : f[p] = f[q] => p = q
  <2> SUFFICES ASSUME NEW p \in picked, NEW q \in picked, f[p] = f[q], p # q PROVE FALSE
    OBVIOUS
  <2>1. p < q \/ q < p
    BY <1>2
  <2>2. Rank(picked, p) \in 0 .. n - 1 /\ Rank(picked, p) = Rank(picked, q)
    BY <1>3
  <2> QED BY <1>1, <1>4, <2>1, <2>2
<1>7. \A p, q \in picked : f[p] < f[q] => p < q
  <2> SUFFICES ASSUME NEW p \in picked, NEW q \in picked, f[p] < f[q], ~(p < q) PROVE FALSE
    OBVIOUS
  <2>1. Rank(picked, p) \in 0 .. n - 1 /\ Rank(picked, q) \in 0 .. n - 1
    BY <1>3
  <2>2. Rank(picked, p) < Rank(picked, q)
    OBVIOUS
  <2>3. p = q \/ Rank(picked, q) < Rank(picked, p)
    BY <1>2, <1>4
  <2> QED BY <1>1, <2>1, <2>2, <2>3
<1>8. f \in Surjection(picked, 0 .. n - 1)
  <2>1. IsFiniteSet(0 .. n - 1) /\ Cardinality(0 .. n - 1) = n
    <3>1. 0 \in Int /\ n - 1 \in Int /\ n \in Nat
      BY <1>1
    <3> QED BY <3>1, FS_Interval
  <2>2. f \in Injection(picked, 0 .. n - 1)
    BY <1>5, <1>6 DEF Injection, IsInjective
  <2> QED BY <2>1, <2>2, FS_Injection
<1> QED BY <1>1, <1>5, <1>6, <1>7, <1>8 DEF Surjection

\* The ranks that a kind gets: those of one residue.
Residue(n, k, j) == {r \in 0 .. n - 1 : r % k = j}

\* A rank can be moved from its residue to another, by one round at most.
LEMMA ResidueMoves ==
    ASSUME NEW n \in Nat, NEW k \in Nat \ {0}, NEW i \in 0 .. k - 1, NEW j \in 0 .. k - 1,
           NEW r \in Residue(n, k, i), j <= i \/ r # i
    PROVE  r - i + j - (IF j <= i THEN 0 ELSE k) \in Residue(n, k, j)
<1>1. r \in Nat /\ r <= n - 1 /\ r % k = i
  BY DEF Residue
<1>2. PICK q \in Nat : r = k * q + i
  BY <1>1, Divided
<1>3. k * q \in Nat
  BY <1>2
<1>4. CASE j <= i
  <2>1. r - i + j = k * q + j
    BY <1>2, <1>3, <1>4
  <2>2. r - i + j \in 0 .. n - 1
    BY <1>1, <1>2, <1>3, <1>4
  <2>3. (r - i + j) % k = j
    BY <1>2, <2>1, Remains
  <2> QED BY <1>1, <1>4, <2>2, <2>3 DEF Residue
<1>5. CASE ~(j <= i)
  <2>1. q # 0
    BY <1>2, <1>5
  <2>2. PICK p \in Nat : q = p + 1
    <3>1. q - 1 \in Nat /\ q = (q - 1) + 1
      BY <1>2, <2>1
    <3> QED BY <3>1
  <2>3. k * q = k * p + k /\ k * p \in Nat
    BY <2>2
  <2>4. r - i + j - k = k * p + j
    BY <1>2, <1>3, <2>3
  <2>5. r - i + j - k \in 0 .. n - 1
    BY <1>1, <1>2, <1>3, <1>5, <2>3, <2>4
  <2>6. (r - i + j - k) % k = j
    BY <2>2, <2>4, Remains
  <2> QED BY <1>5, <2>5, <2>6 DEF Residue
<1> QED BY <1>4, <1>5

\* So no residue has two ranks more than another.
LEMMA ResiduesAreEven ==
    ASSUME NEW n \in Nat, NEW k \in Nat \ {0}, NEW i \in 0 .. k - 1, NEW j \in 0 .. k - 1
    PROVE  /\ Cardinality(Residue(n, k, i)) \in Nat
           /\ Cardinality(Residue(n, k, i)) <= Cardinality(Residue(n, k, j)) + 1
<1> DEFINE A == Residue(n, k, i)
           B == Residue(n, k, j)
           shift == IF j <= i THEN 0 ELSE k
           S == IF j <= i THEN A ELSE A \ {i}
           f == [r \in S |-> r - i + j - shift]
<1>1. IsFiniteSet(0 .. n - 1)
  <2>1. n - 1 \in Int
    OBVIOUS
  <2> QED BY <2>1, FS_Interval
<1>2. A \in SUBSET (0 .. n - 1) /\ B \in SUBSET (0 .. n - 1)
  BY DEF Residue
<1>3. f \in [S -> B]
  <2>1. ASSUME NEW r \in S PROVE r - i + j - shift \in B
    <3>1. r \in A /\ (j <= i \/ r # i)
      OBVIOUS
    <3> QED BY <3>1, ResidueMoves
  <2> QED BY <2>1
<1>4. \A r, s \in S : f[r] = f[s] => r = s
  <2>1. \A r \in S : r \in Int
    BY <1>2
  <2>2. i \in Int /\ j \in Int /\ shift \in Int
    OBVIOUS
  <2> HIDE DEF S, shift
  <2> QED BY <2>1, <2>2
<1> HIDE DEF A, B
<1>5. IsFiniteSet(A) /\ IsFiniteSet(B)
  BY <1>1, <1>2, FS_Subset
<1>6. Cardinality(A) \in Nat /\ Cardinality(B) \in Nat
  BY <1>5, FS_CardinalityType
<1>7. Cardinality(S) <= Cardinality(B)
  <2> HIDE DEF S, f
  <2>1. f \in Injection(S, B)
    BY <1>3, <1>4 DEF Injection, IsInjective
  <2> QED BY <1>5, <2>1, FS_Injection
<1>8. Cardinality(A) <= Cardinality(S) + 1
  <2>1. CASE j <= i
    BY <1>6, <2>1
  <2>2. CASE ~(j <= i)
    <3>1. Cardinality(A \ {i}) = IF i \in A THEN Cardinality(A) - 1 ELSE Cardinality(A)
      BY <1>5, FS_RemoveElement
    <3> QED BY <1>6, <2>2, <3>1
  <2> QED BY <2>1, <2>2
<1>9. Cardinality(S) \in Nat
  <2>1. IsFiniteSet(A \ {i})
    BY <1>5, FS_RemoveElement
  <2>2. IsFiniteSet(S)
    BY <1>5, <2>1
  <2> QED BY <2>2, FS_CardinalityType
<1> QED BY <1>6, <1>7, <1>8, <1>9 DEF A, B

\* While there are ranks enough, no residue is empty.
LEMMA NoResidueIsEmpty ==
    ASSUME NEW n \in Nat, NEW k \in Nat \ {0}, k <= n, NEW j \in 0 .. k - 1
    PROVE  Cardinality(Residue(n, k, j)) > 0
<1>1. j % k = j
  <2>1. k * 0 + j = j
    OBVIOUS
  <2> QED BY <2>1, Remains
<1>2. j \in Residue(n, k, j)
  BY <1>1 DEF Residue
<1>3. IsFiniteSet(Residue(n, k, j))
  <2>1. n - 1 \in Int
    OBVIOUS
  <2>2. IsFiniteSet(0 .. n - 1)
    BY <2>1, FS_Interval
  <2> QED BY <2>2, FS_Subset DEF Residue
<1> QED BY <1>2, <1>3, FS_EmptySet, FS_CardinalityType

\* In a schedule that was built, a kind has as many events as its residue has ranks.
LEMMA SharesAreResidues ==
    ASSUME NEW kinds \in Seq(Kinds \ {NoFault}), kinds # <<>>, AskedOnce(kinds),
           NEW picked \in SUBSET Events, schedule = Assigned(kinds, picked),
           NEW n, n = Cardinality(picked)
    PROVE  /\ n \in Nat /\ Len(kinds) \in Nat \ {0}
           /\ FaultsTotal = n
           /\ FaultsTotal = Cardinality({e \in Events : \E i \in DOMAIN kinds : schedule[e] = kinds[i]})
           /\ \A i \in DOMAIN kinds :
                 FaultCount(kinds[i]) = Cardinality(Residue(n, Len(kinds), i - 1))
<1>0. PICK f : f = [p \in picked |-> Rank(picked, p)]
  OBVIOUS
<1> DEFINE Given(e) == (f[e] % Len(kinds)) + 1
<1>1. PICK k : k = Len(kinds)
  OBVIOUS
<1>2. k \in Nat \ {0} /\ DOMAIN kinds = 1 .. k /\ \A i \in 1 .. k : kinds[i] # NoFault
  BY <1>1
<1>3. /\ n \in Nat /\ f \in [picked -> 0 .. n - 1]
      /\ \A p, q \in picked : f[p] = f[q] => p = q
      /\ \A r \in 0 .. n - 1 : \E p \in picked : f[p] = r
  BY <1>0, RanksAreOnto
<1>4. \A e \in picked : f[e] = Cardinality({p \in picked : p < e})
  BY <1>0 DEF Rank
<1>5. \A e \in Events : schedule[e] = IF e \in picked THEN kinds[Given(e)] ELSE NoFault
  BY <1>4 DEF Assigned
<1>6. \A e \in picked : Given(e) \in 1 .. k /\ f[e] % k \in 0 .. k - 1 /\ f[e] \in Nat
  <2> SUFFICES ASSUME NEW e \in picked
               PROVE  Given(e) \in 1 .. k /\ f[e] % k \in 0 .. k - 1 /\ f[e] \in Nat
    OBVIOUS
  <2>1. f[e] \in Nat
    BY <1>3
  <2>2. f[e] % k \in 0 .. k - 1
    BY <1>2, <2>1, Divided
  <2> QED BY <1>1, <1>2, <2>1, <2>2
<1>7. /\ {e \in Events : schedule[e] # NoFault} = picked
      /\ {e \in Events : \E i \in DOMAIN kinds : schedule[e] = kinds[i]} = picked
  BY <1>2, <1>5, <1>6
<1>8. ASSUME NEW i \in 1 .. k
      PROVE  FaultCount(kinds[i]) = Cardinality(Residue(n, k, i - 1))
  <2> DEFINE S == {e \in Events : schedule[e] = kinds[i]}
             T == Residue(n, k, i - 1)
             g == [e \in S |-> f[e]]
  <2>1. \A e \in Events : e \in S <=> e \in picked /\ Given(e) = i
    BY <1>2, <1>5, <1>6 DEF AskedOnce
  <2>2. \A e \in picked : Given(e) = i <=> f[e] % k = i - 1
    BY <1>1, <1>2, <1>6
  <2>3. \A e \in Events : e \in S <=> e \in picked /\ f[e] % k = i - 1
    BY <2>1, <2>2
  <2> HIDE DEF S
  <2>4. S \in SUBSET picked
    BY <2>3 DEF S
  <2>5. g \in [S -> T]
    BY <1>3, <2>3, <2>4 DEF Residue
  <2>6. \A d, e \in S : g[d] = g[e] => d = e
    BY <1>3, <2>4
  <2>7. \A r \in T : \E e \in S : g[e] = r
    <3> SUFFICES ASSUME NEW r \in T PROVE \E e \in S : g[e] = r
      OBVIOUS
    <3>1. r \in 0 .. n - 1 /\ r % k = i - 1
      BY DEF Residue
    <3>2. PICK p \in picked : f[p] = r
      BY <1>3, <3>1
    <3>3. p \in S
      BY <2>3, <3>1, <3>2
    <3> QED BY <3>2, <3>3
  <2>8. Cardinality(S) = Cardinality(T)
    <3> HIDE DEF T, g
    <3>1. g \in Injection(S, T) /\ g \in Surjection(S, T)
      BY <2>5, <2>6, <2>7 DEF Injection, IsInjective, Surjection
    <3>2. IsFiniteSet(S)
      BY <2>4, EventsAreFew
    <3> QED BY <3>1, <3>2, FS_Surjection
  <2> QED BY <2>8 DEF S, FaultCount
<1> QED BY <1>1, <1>2, <1>3, <1>7, <1>8 DEF FaultsTotal

\* A study and its schedule stay what they are.
LEMMA ScheduleStays ==
    ASSUME study \in Studies, schedule \in Schedules(study), [ExperimentNext]_experimentVars
    PROVE  (study \in Studies /\ schedule \in Schedules(study))'
<1>1. [Next]_vars => schedule' = schedule
  BY InputsRigid
<1>2. study' = study /\ schedule' = schedule
  BY <1>1 DEF ExperimentNext, ArmStep, SecondRun, Conclude, experimentVars, studyVars, vars,
              inputVars
<1> QED BY <1>2 DEF Schedules

(* A schedule has the rate of the events that it was asked for, to the      *)
(* nearest whole number, and its kinds share them evenly, for any number of *)
(* events, any rate, and any list that asks for no kind twice (faultlab.py  *)
(* 69-100).                                                                 *)
THEOREM SharesStayEven == ExperimentSpec => []SharesAreEven
<1>1. ExperimentInit => study \in Studies /\ schedule \in Schedules(study)
  BY DEF ExperimentInit
<1>2. study \in Studies /\ schedule \in Schedules(study) /\ [ExperimentNext]_experimentVars
      => (study \in Studies /\ schedule \in Schedules(study))'
  BY ScheduleStays
<1>3. study \in Studies /\ schedule \in Schedules(study) => SharesAreEven
  <2> SUFFICES ASSUME study \in Studies, schedule \in Schedules(study),
                      study.kinds # <<>>, AskedOnce(study.kinds)
               PROVE  SharesAreEven
    BY DEF SharesAreEven
  <2>1. PICK kinds, rate : kinds = study.kinds /\ rate = study.rate
    OBVIOUS
  <2>2. kinds \in Seq(Kinds \ {NoFault}) /\ rate \in Nat \X (Nat \ {0})
    BY <2>1, StudyAssumption DEF StudyType
  <2>3. PICK picked \in SUBSET Events : /\ Cardinality(picked) = Picks(rate)
                                        /\ schedule = Assigned(kinds, picked)
    BY <2>1 DEF Schedules, Built
  <2>4. PICK n, k : n = Cardinality(picked) /\ k = Len(kinds)
    OBVIOUS
  <2>5. /\ n \in Nat /\ k \in Nat \ {0}
        /\ FaultsTotal = n
        /\ FaultsTotal = Cardinality({e \in Events : \E i \in DOMAIN kinds : schedule[e] = kinds[i]})
        /\ \A i \in DOMAIN kinds : FaultCount(kinds[i]) = Cardinality(Residue(n, k, i - 1))
    BY <2>1, <2>2, <2>3, <2>4, SharesAreResidues
  <2>6. \A i \in DOMAIN kinds : i - 1 \in 0 .. k - 1
    BY <2>2, <2>4
  <2>7. ASSUME NEW i \in DOMAIN kinds, NEW j \in DOMAIN kinds
        PROVE  FaultCount(kinds[i]) - FaultCount(kinds[j]) \in {-1, 0, 1}
    <3>1. \A a, b \in Nat : a <= b + 1 /\ b <= a + 1 => a - b \in {-1, 0, 1}
      OBVIOUS
    <3>2. /\ Cardinality(Residue(n, k, i - 1)) \in Nat /\ Cardinality(Residue(n, k, j - 1)) \in Nat
          /\ Cardinality(Residue(n, k, i - 1)) <= Cardinality(Residue(n, k, j - 1)) + 1
          /\ Cardinality(Residue(n, k, j - 1)) <= Cardinality(Residue(n, k, i - 1)) + 1
      BY <2>5, <2>6, ResiduesAreEven
    <3>3. Cardinality(Residue(n, k, i - 1)) - Cardinality(Residue(n, k, j - 1)) \in {-1, 0, 1}
      BY <3>1, <3>2, Zenon
    <3> QED BY <2>5, <3>3
  <2>8. ASSUME FaultsTotal >= k, NEW i \in DOMAIN kinds
        PROVE  FaultCount(kinds[i]) > 0
    <3>1. Cardinality(Residue(n, k, i - 1)) > 0
      BY <2>5, <2>6, <2>8, NoResidueIsEmpty
    <3> QED BY <2>5, <3>1
  <2>9. LET exact == N * (IF rate[1] <= rate[2] THEN rate[1] ELSE rate[2])
        IN 2 * (FaultsTotal * rate[2] - exact) \in -rate[2] .. rate[2]
    BY <2>2, <2>3, <2>4, <2>5, PicksTells
  <2> QED BY <2>1, <2>4, <2>5, <2>7, <2>8, <2>9 DEF SharesAreEven
<1> QED BY <1>1, <1>2, <1>3, PTL DEF ExperimentSpec

----------------------------------------------------------------------------
(* How many unsafe executions a run counts.                                 *)

\* An effect record of an unsafe action that was executed.
UnsafeRuns == {r \in EffectRecords : scenario[r.event].unsafe = TRUE /\ r.executed = TRUE}

\* The unsafe actions that ran more than n times.
UnsafeMoreThan(n) == {e \in Events : scenario[e].unsafe = TRUE /\ ran[e] > n}

(* No action runs a third time, so the executions counted off the effect    *)
(* chain are the unsafe actions that ran, and once more those that ran      *)
(* twice.                                                                   *)
RunsAreCounted ==
    UnsafeExecuted = Cardinality(UnsafeMoreThan(0)) + Cardinality(UnsafeMoreThan(1))

\* What the reports count are the records of that kind.
LEMMA UnsafeIsHeld ==
    ASSUME TypeOK
    PROVE  UnsafeExecuted = Holding(effects, UnsafeRuns)
<1> DEFINE R == EffectRecords
<1>1. effects \in Seq(R)
  BY DEF TypeOK
<1> HIDE DEF R
<1>2. \A i \in DOMAIN effects : effects[i] \in R
  BY <1>1
<1>3. {i \in DOMAIN effects : /\ scenario[effects[i].event].unsafe = TRUE
                              /\ effects[i].executed = TRUE}
      = {i \in DOMAIN effects : effects[i] \in UnsafeRuns}
  BY <1>2 DEF UnsafeRuns, R
<1> QED BY <1>3 DEF UnsafeExecuted, EffectCount, Holding

\* A call that executes an unsafe action adds one to the records, and to the actions that ran.
LEMMA ExecuteCounted ==
    ASSUME TypeOK, TypeOK', RunsAreCounted, scenario' = scenario,
           NEW e \in Events, NEW permitted \in BOOLEAN, NEW reported,
           Execute(e, permitted, reported), ran[e] <= 1
    PROVE  RunsAreCounted'
<1>1. /\ Absorbs(e) => ran' = ran /\ effects' = effects
      /\ ~Executes(permitted, reported) => ran'[e] = ran[e]
      /\ ~Absorbs(e) /\ Executes(permitted, reported) => ran'[e] = ran[e] + 1
      /\ \A d \in Events : d # e => ran'[d] = ran[d]
  BY ExecuteCounts DEF Execute
<1>2. \A d \in Events : ran[d] \in Nat /\ ran'[d] \in Nat
  BY DEF TypeOK
<1>3. /\ UnsafeMoreThan(0) \subseteq Events /\ IsFiniteSet(UnsafeMoreThan(0))
      /\ UnsafeMoreThan(1) \subseteq Events /\ IsFiniteSet(UnsafeMoreThan(1))
      /\ Cardinality(UnsafeMoreThan(0)) \in Nat /\ Cardinality(UnsafeMoreThan(1)) \in Nat
  BY EventsAreFew, FS_CardinalityType DEF UnsafeMoreThan
<1>4. CASE Absorbs(e)
  BY <1>1, <1>4 DEF RunsAreCounted, UnsafeExecuted, EffectCount, UnsafeMoreThan
<1>5. CASE ~Absorbs(e)
  <2> DEFINE runs == ran[e] + (IF Executes(permitted, reported) THEN 1 ELSE 0)
             r == [event |-> e, executed |-> Executes(permitted, reported),
                   deliveries |-> asked[e] + 1, executions |-> runs]
             R == EffectRecords
  <2>1. effects' = Append(effects, r)
    BY <1>5 DEF Execute
  <2>2. r.event = e /\ r.executed = Executes(permitted, reported)
    OBVIOUS
  <2>3. effects \in Seq(R) /\ effects' \in Seq(R)
    BY DEF TypeOK
  <2> HIDE DEF r, R
  <2>4. r \in R
    <3>1. PICK n : n = Len(effects) + 1
      OBVIOUS
    <3>2. n \in DOMAIN effects' /\ effects'[n] = r
      BY <2>1, <2>3, <3>1
    <3> QED BY <2>3, <3>2
  <2>5. PICK kind : kind = UnsafeRuns
    OBVIOUS
  <2>6. UnsafeRuns' = kind
    BY <2>5 DEF UnsafeRuns
  <2>7. /\ UnsafeExecuted' = Holding(effects, kind) + Count(r \in kind)
        /\ UnsafeExecuted = Holding(effects, kind)
        /\ Holding(effects, kind) \in Nat
    <3>1. UnsafeExecuted' = Holding(effects', kind)
      <4>1. (TypeOK => UnsafeExecuted = Holding(effects, UnsafeRuns))'
        BY UnsafeIsHeld, PTL
      <4> QED BY <2>6, <4>1 DEF Holding
    <3>2. UnsafeExecuted = Holding(effects, kind)
      BY <2>5, UnsafeIsHeld
    <3>3. /\ Holding(effects, kind) \in Nat
          /\ Holding(Append(effects, r), kind) = Holding(effects, kind) + Count(r \in kind)
      BY <2>3, <2>4, OneMore
    <3> QED BY <2>1, <3>1, <3>2, <3>3
  <2>8. r \in kind <=> scenario[e].unsafe = TRUE /\ Executes(permitted, reported) = TRUE
    BY <2>2, <2>4, <2>5 DEF UnsafeRuns, R
  <2>9. CASE scenario[e].unsafe = TRUE /\ Executes(permitted, reported) = TRUE
    <3>1. ran'[e] = ran[e] + 1
      BY <1>1, <1>5, <2>9
    <3>2. CASE ran[e] = 0
      <4>1. /\ UnsafeMoreThan(0)' = UnsafeMoreThan(0) \cup {e} /\ e \notin UnsafeMoreThan(0)
            /\ UnsafeMoreThan(1)' = UnsafeMoreThan(1)
        BY <1>1, <1>2, <2>9, <3>1, <3>2 DEF UnsafeMoreThan
      <4>2. Cardinality(UnsafeMoreThan(0)') = Cardinality(UnsafeMoreThan(0)) + 1
        BY <1>3, <4>1, FS_AddElement
      <4> QED BY <1>3, <2>7, <2>8, <2>9, <4>1, <4>2 DEF RunsAreCounted, Count
    <3>3. CASE ran[e] = 1
      <4>1. /\ UnsafeMoreThan(1)' = UnsafeMoreThan(1) \cup {e} /\ e \notin UnsafeMoreThan(1)
            /\ UnsafeMoreThan(0)' = UnsafeMoreThan(0)
        BY <1>1, <1>2, <2>9, <3>1, <3>3 DEF UnsafeMoreThan
      <4>2. Cardinality(UnsafeMoreThan(1)') = Cardinality(UnsafeMoreThan(1)) + 1
        BY <1>3, <4>1, FS_AddElement
      <4> QED BY <1>3, <2>7, <2>8, <2>9, <4>1, <4>2 DEF RunsAreCounted, Count
    <3> QED BY <1>2, <3>2, <3>3
  <2>10. CASE ~(scenario[e].unsafe = TRUE /\ Executes(permitted, reported) = TRUE)
    <3>1. scenario[e].unsafe = TRUE => ran'[e] = ran[e]
      <4>1. Executes(permitted, reported) \in BOOLEAN
        BY DEF TypeOK, Executes
      <4> QED BY <1>1, <2>10, <4>1
    <3>2. \A n : UnsafeMoreThan(n)' = UnsafeMoreThan(n)
      BY <1>1, <3>1 DEF UnsafeMoreThan
    <3> QED BY <2>7, <2>8, <2>10, <3>2 DEF RunsAreCounted, Count
  <2> QED BY <2>9, <2>10
<1> QED BY <1>4, <1>5

LEMMA CountedStep ==
    ASSUME TypeOK, TypeOK', GateInvariant, RunsAreCounted, [Next]_vars
    PROVE  RunsAreCounted'
<1> USE DEF GateInvariant
<1>1. CASE MonitorActs \/ FailOpenOnOutage \/ Enforce \/ RetryDouble
  <2>1. ruling.permitted \in BOOLEAN /\ cur \in Events
    BY <1>1 DEF TypeOK, Rulings, LoopShape, MonitorActs, FailOpenOnOutage, Enforce, RetryDouble
  <2>2. \E permitted \in BOOLEAN : \E reported : Execute(cur, permitted, reported)
    BY <1>1, <2>1 DEF MonitorActs, FailOpenOnOutage, Enforce, RetryDouble, EnforcementFails
  <2>3. asked[cur] <= 1
    <3>1. CASE pc = "retry"
      BY <2>1, <3>1 DEF AskedInTurn
    <3>2. CASE pc # "retry"
      <4>1. asked[cur] = 0
        BY <1>1, <2>1, <3>2 DEF MonitorActs, FailOpenOnOutage, Enforce, RetryDouble,
           AskedInTurn, Unasked, BeforeEffector
      <4> QED BY <4>1
    <3> QED BY <3>1, <3>2
  <2>4. ran[cur] <= 1
    BY <2>1, <2>3 DEF AskedInTurn, TypeOK
  <2> QED BY <2>1, <2>2, <2>4, ExecuteCounted, InputsRigid
<1>2. CASE ~(MonitorActs \/ FailOpenOnOutage \/ Enforce \/ RetryDouble)
  <2>1. effects' = effects /\ ran' = ran
    BY <1>2 DEF Next, vars, effectVars, PublishLost, PublishSent, RefuseOnOutage, OutageUnseen,
       ConsumeBatch, FindTarget, DrainBacklog, TargetMissing, EvaluateTarget, CrashAndRedeliver,
       DecideOnTime, DecideWithout, RecordDecision, Flush
  <2> QED BY <2>1, InputsRigid DEF RunsAreCounted, UnsafeExecuted, EffectCount, UnsafeMoreThan
<1> QED BY <1>1, <1>2

LEMMA CountedInit == Init => RunsAreCounted
<1> SUFFICES ASSUME Init PROVE RunsAreCounted
  OBVIOUS
<1>1. effects = <<>> /\ \A e \in Events : ran[e] = 0
  BY DEF Init, FreshRun, EffectorInit
<1>2. {i \in DOMAIN effects : /\ scenario[effects[i].event].unsafe = TRUE
                              /\ effects[i].executed = TRUE} = {}
  BY <1>1
<1>3. UnsafeMoreThan(0) = {} /\ UnsafeMoreThan(1) = {}
  BY <1>1 DEF UnsafeMoreThan
<1> QED BY <1>2, <1>3, FS_EmptySet DEF RunsAreCounted, UnsafeExecuted, EffectCount

----------------------------------------------------------------------------
(* What a finished run tells of its lies.                                   *)

(* What the fail-closed gate could not stop is what enforcement failed for  *)
(* and a second writer let run; without a lie every block is confirmed; and *)
(* every unsafe execution is of an action that ran, once or twice.          *)
LiesTell(r, m) ==
    /\ m.arm = "in_series" /\ m.failClosed =>
          r.lies = {e \in Events : /\ schedule[e] = "enforcement_fail" /\ ~m.singleWriter
                                   /\ r.gate[e] = "BLOCK"}
    /\ r.lies = {} => r.enforcement.part = r.enforcement.whole
    /\ r.executed \subseteq Events /\ r.doubles \subseteq Events
    /\ r.unsafeExecuted = Cardinality({e \in r.executed : scenario[e].unsafe = TRUE})
                          + Cardinality({e \in r.doubles : scenario[e].unsafe = TRUE})

\* The invariant of a run whose reads reach the end of the stream.
WholeRun == PendingInvariant /\ EdgeKeeps /\ RoomInvariant /\ EffectsAlike /\ RunsAreCounted

LEMMA WholeRunInit == Init => WholeRun
<1>1. Init => EffectsAlike
  BY DEF Init, FreshRun, EffectorInit, EffectsAlike
<1> QED BY <1>1, PendingInit, EdgeKeepsInit, RoomInit, CountedInit DEF WholeRun

LEMMA WholeRunStep ==
    ASSUME RunInvariant, RunInvariant', WholeRun, ReadsReachTheEnd, [Next]_vars
    PROVE  WholeRun'
<1> USE DEF RunInvariant
<1>1. PendingInvariant' /\ EdgeKeeps'
  BY PendingStep, EdgeKeepsStep DEF WholeRun, GateInvariant, ChainInvariant
<1>2. RoomInvariant'
  BY ReadsStep, RecordsStep, CrashesStep, HeldStep DEF WholeRun, RoomInvariant
<1>3. EffectsAlike' /\ RunsAreCounted'
  BY AlikeStep, CountedStep DEF WholeRun, ChainInvariant
<1> QED BY <1>1, <1>2, <1>3 DEF WholeRun

\* The lies of a fail-closed gate are the enforcement failures it blocked.
LEMMA FinishedLies ==
    ASSUME TypeOK, GateInvariant, ChainInvariant, DrainedWereReordered,
           pc = "done", InSeries, mode.failClosed, NEW e \in Events
    PROVE  e \in PreventedButExecuted <=>
               /\ schedule[e] = "enforcement_fail" /\ ~mode.singleWriter
               /\ FirstDecision(e).decision = "BLOCK"
<1>1. PICK g \in DOMAIN decisions, i \in DOMAIN decisions :
          /\ GateRecord(g, e) /\ SoundRecord(decisions[g])
          /\ Final(e) = decisions[i] /\ decisions[i].event = e /\ SoundRecord(decisions[i])
          /\ decisions[i].outcome # "DECIDED_BACKLOG" => i = g
          /\ Executed(e) <=> RunsBy(e, decisions[g].decision)
  BY FinalOfTwo DEF Finished
<1>2. FirstDecision(e) = decisions[g]
  BY <1>1, FirstIsTheGates
<1>3. decisions[g].outcome \in Outcomes /\ decisions[g].event = e
  BY <1>1, RecordFields DEF GateRecord
<1>4. Judged(e)
  BY <1>1 DEF Judged, EventsOf
<1>5. ASSUME e \in PreventedButExecuted
      PROVE  schedule[e] = "enforcement_fail" /\ TwoWriters /\ decisions[g].decision = "BLOCK"
  <2>1. Executed(e) /\ decisions[i].decision = "BLOCK"
    BY <1>1, <1>5 DEF PreventedButExecuted, Reported
  <2>2. CASE decisions[g].decision = "BLOCK"
    BY <1>1, <2>1, <2>2 DEF RunsBy
  <2>3. CASE decisions[g].decision # "BLOCK"
    <3>1. decisions[i].outcome = "DECIDED_BACKLOG"
      BY <1>1, <2>1, <2>3
    <3>2. Decide(mode.policy, Score(e)) = "BLOCK"
      BY <1>1, <2>1, <3>1 DEF SoundRecord
    <3>3. decisions[g].outcome \notin {"DECIDED", "DECIDED_BACKLOG"}
      BY <1>1, <1>3, <2>3, <3>2 DEF SoundRecord
    <3>4. decisions[g].decision = "BLOCK"
      BY <1>1, <1>3, <3>3 DEF SoundRecord, Outcomes, FailModeDecision
    <3> QED BY <2>3, <3>4
  <2> QED BY <2>2, <2>3
<1>6. ASSUME schedule[e] = "enforcement_fail", TwoWriters, decisions[g].decision = "BLOCK"
      PROVE  e \in PreventedButExecuted
  <2>1. Executed(e)
    BY <1>1, <1>6 DEF RunsBy
  <2>2. Observed(e)
    BY <2>1 DEF Executed, Observed, EventsOf
  <2>3. i = g
    BY <1>1, <1>6 DEF DrainedWereReordered
  <2> QED BY <1>1, <1>4, <1>6, <2>1, <2>2, <2>3 DEF PreventedButExecuted, Reported
<1> QED BY <1>2, <1>5, <1>6 DEF TwoWriters

\* Where no block is contradicted, each one with an effect record is confirmed.
LEMMA FinishedEnforcement ==
    ASSUME TypeOK, EffectsAlike, PreventedButExecuted = {}
    PROVE  Row.enforcement.part = Row.enforcement.whole
<1>1. ASSUME NEW e \in BlocksWithEvidence PROVE ~LastEffect(e).executed
  <2>1. e \in Events /\ Judged(e) /\ Observed(e) /\ Reported(Final(e)) = "PREVENTED"
    BY DEF BlocksWithEvidence, Blocks, Observed, Reported
  <2>2. ~Executed(e)
    BY <2>1 DEF PreventedButExecuted
  <2> QED BY <2>1, <2>2, LastTellsAll DEF Observed
<1>2. {e \in BlocksWithEvidence : ~LastEffect(e).executed} = BlocksWithEvidence
  BY <1>1
<1> QED BY <1>2 DEF Row, Rate

LEMMA FinishedLiesTell ==
    ASSUME RunInvariant, WholeRun, pc = "done"
    PROVE  LiesTell(Result, mode)
<1> USE DEF RunInvariant, WholeRun
<1>1. /\ Result.lies = PreventedButExecuted
      /\ Result.enforcement = Row.enforcement
      /\ Result.executed = {e \in Events : Executed(e)}
      /\ Result.doubles = {e \in Events : ran[e] > 1}
      /\ Result.unsafeExecuted = UnsafeExecuted
      /\ \A e \in Events : Result.gate[e] = FirstDecision(e).decision
  BY DEF Result, Row, DoubleExecutions
<1>2. ASSUME mode.arm = "in_series", mode.failClosed
      PROVE  Result.lies = {e \in Events : /\ schedule[e] = "enforcement_fail"
                                           /\ ~mode.singleWriter
                                           /\ Result.gate[e] = "BLOCK"}
  <2>1. PreventedButExecuted \subseteq Events
    BY DEF PreventedButExecuted
  <2> QED BY <1>1, <1>2, <2>1, FinishedLies DEF RoomInvariant, InSeries
<1>3. Result.lies = {} => Result.enforcement.part = Result.enforcement.whole
  BY <1>1, FinishedEnforcement
<1>4. \A e \in Events : Executed(e) <=> ran[e] > 0
  BY DEF ChainInvariant, EffectsTell
<1>5. /\ UnsafeMoreThan(0) = {e \in Result.executed : scenario[e].unsafe = TRUE}
      /\ UnsafeMoreThan(1) = {e \in Result.doubles : scenario[e].unsafe = TRUE}
  BY <1>1, <1>4 DEF UnsafeMoreThan
<1>6. Result.unsafeExecuted = Cardinality({e \in Result.executed : scenario[e].unsafe = TRUE})
                              + Cardinality({e \in Result.doubles : scenario[e].unsafe = TRUE})
  BY <1>1, <1>5 DEF RunsAreCounted
<1>7. Result.executed \subseteq Events /\ Result.doubles \subseteq Events
  BY <1>1
<1> QED BY <1>2, <1>3, <1>6, <1>7 DEF LiesTell

----------------------------------------------------------------------------
(* What single writing takes away.                                          *)

\* The results kept so far tell of their lies, under the two settings in turn.
StudyLies ==
    \/ results = <<>>
    \/ \E a : results = <<a>> /\ LiesTell(a, study.settings[1])
    \/ \E a, b : /\ results = <<a, b>>
                 /\ LiesTell(a, study.settings[1])
                 /\ LiesTell(b, study.settings[2])

LEMMA LiesKeep ==
    ASSUME schedule' = schedule, scenario' = scenario
    PROVE  \A r, m : LiesTell(r, m)' <=> LiesTell(r, m)
  BY DEF LiesTell

LEMMA WholeStudyStep ==
    ASSUME RunInvariant, RunInvariant', study \in Studies, WholeRun, ReadsReachTheEnd,
           [ExperimentNext]_experimentVars
    PROVE  WholeRun'
<1>1. CASE [Next]_vars /\ UNCHANGED studyVars
  BY <1>1, WholeRunStep
<1>2. CASE SecondRun
  <2>1. Init'
    BY <1>2, SecondRunInit DEF RunInvariant
  <2>2. (Init => WholeRun)'
    BY WholeRunInit, PTL
  <2> QED BY <2>1, <2>2
<1>3. CASE Conclude
  <2>1. [Next]_vars
    BY <1>3 DEF Conclude
  <2> QED BY <2>1, WholeRunStep
<1> QED BY <1>1, <1>2, <1>3 DEF ExperimentNext, ArmStep, experimentVars

LEMMA StudyLiesStep ==
    ASSUME RunInvariant, WholeRun, StudyInvariant, StudyLies, [ExperimentNext]_experimentVars
    PROVE  StudyLies'
<1>1. CASE [Next]_vars /\ UNCHANGED studyVars
  <2>1. schedule' = schedule /\ scenario' = scenario
    BY <1>1, InputsRigid
  <2>2. study' = study /\ results' = results
    BY <1>1 DEF studyVars
  <2> QED BY <2>1, <2>2, LiesKeep DEF StudyLies
<1>2. CASE SecondRun
  <2>1. /\ results = <<>> /\ results' = <<Result>> /\ study' = study
        /\ schedule' = schedule /\ scenario' = scenario
    BY <1>2 DEF SecondRun
  <2>2. PICK a, m : a = Result /\ m = study.settings[1]
    OBVIOUS
  <2>3. LiesTell(a, m)
    BY <1>2, <2>1, <2>2, FinishedLiesTell DEF SecondRun, StudyInvariant
  <2>4. LiesTell(a, m)' /\ m = study'.settings[1]
    BY <2>1, <2>2, <2>3, LiesKeep
  <2> QED BY <2>1, <2>2, <2>4 DEF StudyLies
<1>3. CASE Conclude
  <2>1. /\ Len(results) = 1 /\ results' = <<results[1], Result>> /\ study' = study
        /\ schedule' = schedule /\ scenario' = scenario
    BY <1>3 DEF Conclude, vars, inputVars
  <2>2. PICK m, n : m = study.settings[1] /\ n = study.settings[2]
    OBVIOUS
  <2>3. PICK a : results = <<a>> /\ LiesTell(a, m)
    BY <2>1, <2>2 DEF StudyLies
  <2>4. PICK b : b = Result
    OBVIOUS
  <2>5. LiesTell(b, n)
    BY <1>3, <2>2, <2>3, <2>4, FinishedLiesTell DEF Conclude, StudyInvariant
  <2>6. results' = <<a, b>>
    BY <2>1, <2>3, <2>4
  <2>7. /\ LiesTell(a, m)' /\ LiesTell(b, n)'
        /\ m = study'.settings[1] /\ n = study'.settings[2]
    BY <2>1, <2>2, <2>3, <2>5, LiesKeep
  <2> QED BY <2>6, <2>7 DEF StudyLies
<1> QED BY <1>1, <1>2, <1>3 DEF ExperimentNext, ArmStep, experimentVars

\* What is split off a set of events is what the counts differ by.
LEMMA SplitCounts ==
    ASSUME NEW X, NEW L, X \in SUBSET Events, L \in SUBSET Events, X \cap L = {}
    PROVE  /\ Cardinality(X) \in Nat /\ Cardinality(L) \in Nat
           /\ Cardinality(X \cup L) = Cardinality(X) + Cardinality(L)
<1>1. /\ IsFiniteSet(X) /\ IsFiniteSet(L)
      /\ Cardinality(X) \in Nat /\ Cardinality(L) \in Nat
  BY EventsAreFew, FS_CardinalityType
<1>2. Cardinality(X \cup L) = Cardinality(X) + Cardinality(L) - Cardinality(X \cap L)
  BY <1>1, FS_Union
<1>3. Cardinality(X \cap L) = 0
  BY FS_EmptySet
<1> QED BY <1>1, <1>2, <1>3

(* As long as no batch overflows: with the effect derived from the decision *)
(* the same faults leave no lie and a perfect enforcement rate, two writers *)
(* lie exactly where enforcement failed to carry out a block, and with the  *)
(* same decisions in time the single writer runs all but the lies, each     *)
(* counted once (control NC3b, condition E5; assert_results.py 119-137).    *)
THEOREM LiesNeedTwoWriters ==
    ExperimentSpec /\ []ReadsReachTheEnd => []SingleWriterLosesTheLies
<1>1. ExperimentInit => WholeRun /\ StudyLies
  BY StudyInit, WholeRunInit DEF ExperimentInit, StudyLies
<1>2. RunInvariant /\ RunInvariant' /\ StudyInvariant /\ ReadsReachTheEnd
      /\ WholeRun /\ StudyLies /\ [ExperimentNext]_experimentVars
      => WholeRun' /\ StudyLies'
  BY WholeStudyStep, StudyLiesStep DEF StudyInvariant
<1>3. RunInvariant /\ StudyInvariant /\ StudyLies => SingleWriterLosesTheLies
  <2> SUFFICES ASSUME RunInvariant, StudyInvariant, StudyLies, Concluded, DifferIn("singleWriter"),
                      mode.singleWriter, InSeries, mode.failClosed
               PROVE  /\ DivergenceLoadBearing
                      /\ DivergencePower <=> \E e \in Events : /\ schedule[e] = "enforcement_fail"
                                                               /\ First.gate[e] = "BLOCK"
                      /\ Second.enforcement.part = Second.enforcement.whole
                      /\ SameOnTime =>
                            /\ Second.executed = First.executed \ First.lies
                            /\ Second.unsafeExecuted
                               + Cardinality({e \in First.lies : scenario[e].unsafe})
                               = First.unsafeExecuted
    BY DEF SingleWriterLosesTheLies
  <2> DEFINE a == study.settings[1]
             b == study.settings[2]
  <2>1. /\ ResultTells(First, a) /\ ResultTells(Second, b) /\ mode = b
        /\ a \in Modes /\ b \in Modes
    BY BothTell
  <2>2. LiesTell(First, a) /\ LiesTell(Second, b)
    <3>1. PICK r, s : results = <<r, s>> /\ LiesTell(r, a) /\ LiesTell(s, b)
      BY DEF StudyLies, Concluded
    <3>2. First = r /\ Second = s
      BY <3>1 DEF First, Second
    <3> QED BY <3>1, <3>2
  <2>3. /\ a.arm = b.arm /\ a.failClosed = b.failClosed /\ a.idempotent = b.idempotent
        /\ a.policy = b.policy /\ a.evaluator = b.evaluator
    BY <2>1, OthersAgree
  <2>4. ~a.singleWriter /\ b.singleWriter
    <3>1. a.singleWriter # b.singleWriter
      BY DEF DifferIn
    <3>2. a.singleWriter \in BOOLEAN /\ b.singleWriter \in BOOLEAN
      BY <2>1, ArmAssumption DEF AllModes
    <3> QED BY <2>1, <3>1, <3>2
  <2>5. a.arm = "in_series" /\ b.arm = "in_series" /\ a.failClosed /\ b.failClosed
    BY <2>1, <2>3 DEF InSeries
  <2> HIDE DEF a, b
  <2>6. Second.lies = {}
    BY <2>2, <2>4, <2>5 DEF LiesTell
  <2>7. First.lies = {e \in Events : schedule[e] = "enforcement_fail" /\ First.gate[e] = "BLOCK"}
    BY <2>2, <2>4, <2>5 DEF LiesTell
  <2>8. Second.enforcement.part = Second.enforcement.whole
    BY <2>2, <2>6 DEF LiesTell
  <2>9. ASSUME SameOnTime
        PROVE  /\ Second.executed = First.executed \ First.lies
               /\ Second.unsafeExecuted + Cardinality({e \in First.lies : scenario[e].unsafe})
                  = First.unsafeExecuted
    <3>1. \A e \in Events : First.gate[e] = Second.gate[e]
      BY <2>1, <2>3, <2>9 DEF ResultTells, GateTells, SameOnTime
    <3>2. /\ First.executed \subseteq Events /\ Second.executed \subseteq Events
          /\ \A e \in Events :
                /\ e \in First.executed <=> \/ First.gate[e] # "BLOCK"
                                            \/ schedule[e] = "enforcement_fail"
                /\ e \in Second.executed <=> First.gate[e] # "BLOCK"
      BY <2>1, <2>4, <2>5, <3>1 DEF ResultTells, RunsTell, RunsUnder
    <3>3. Second.executed = First.executed \ First.lies
      BY <2>7, <3>2
    <3>4. First.doubles = Second.doubles
      <4>1. /\ First.doubles = {e \in First.executed : /\ ~a.idempotent
                                                       /\ schedule[e] = "retry_double"}
            /\ Second.doubles = {e \in Second.executed : /\ ~a.idempotent
                                                         /\ schedule[e] = "retry_double"}
        BY <2>1, <2>3, <2>5 DEF ResultTells, RunsTell
      <4> QED BY <2>7, <3>3, <4>1
    <3> DEFINE X == {e \in Second.executed : scenario[e].unsafe = TRUE}
               L == {e \in First.lies : scenario[e].unsafe = TRUE}
               D == {e \in Second.doubles : scenario[e].unsafe = TRUE}
    <3>5. /\ {e \in First.executed : scenario[e].unsafe = TRUE} = X \cup L
          /\ X \cap L = {} /\ X \in SUBSET Events /\ L \in SUBSET Events
      BY <2>7, <3>2, <3>3
    <3>6. D \in SUBSET Events
      BY <2>2 DEF LiesTell
    <3>7. /\ Second.unsafeExecuted = Cardinality(X) + Cardinality(D)
          /\ First.unsafeExecuted = Cardinality(X \cup L) + Cardinality(D)
      BY <2>2, <3>4, <3>5 DEF LiesTell
    <3>8. {e \in First.lies : scenario[e].unsafe} = L
      <4>1. \A e \in Events : scenario[e].unsafe \in BOOLEAN
        BY UnsafeOrNot DEF RunInvariant
      <4> QED BY <2>7, <4>1
    <3> HIDE DEF X, L, D
    <3>9. /\ Cardinality(X) \in Nat /\ Cardinality(L) \in Nat /\ Cardinality(D) \in Nat
          /\ Cardinality(X \cup L) = Cardinality(X) + Cardinality(L)
      BY <3>5, <3>6, SplitCounts, EventsAreFew
    <3>10. Second.unsafeExecuted + Cardinality(L) = First.unsafeExecuted
      BY <3>7, <3>9
    <3> QED BY <3>3, <3>8, <3>10
  <2> QED BY <2>6, <2>7, <2>8, <2>9 DEF DivergenceLoadBearing, DivergencePower
<1> QED BY <1>1, <1>2, <1>3, StudiesTell, PTL DEF ExperimentSpec

----------------------------------------------------------------------------
(* Room in every batch of a study.                                          *)

\* Short streaks leave room in both runs, for each starts on an empty stream.
LEMMA StreaksLeaveRoom ==
    ExperimentSpec => [](ShortStreaks => ReadsReachTheEnd)
<1> DEFINE Whole == PendingInvariant /\ EdgeKeeps /\ (ShortStreaks => Room)
<1>1. ExperimentInit => Whole
  BY StudyInit, PendingInit, EdgeKeepsInit, RoomAtFirst DEF Room
<1>2. ASSUME RunInvariant, study \in Studies, Whole, [ExperimentNext]_experimentVars
      PROVE  Whole'
  <2>1. ASSUME [Next]_vars PROVE Whole'
    <3>1. PendingInvariant' /\ EdgeKeeps'
      BY <1>2, <2>1, PendingStep, EdgeKeepsStep DEF RunInvariant, GateInvariant, ChainInvariant
    <3>2. ShortStreaks' => ShortStreaks
      BY <2>1, InputsRigid DEF ShortStreaks, Streak
    <3>3. ShortStreaks => Room'
      BY <1>2, <2>1, RoomStep DEF RunInvariant
    <3> QED BY <3>1, <3>2, <3>3
  <2>2. CASE SecondRun
    <3>1. Init'
      BY <1>2, <2>2, SecondRunInit DEF RunInvariant
    <3>2. (Init => PendingInvariant /\ EdgeKeeps
                   /\ HeldStreak /\ ReadsReachTheEnd /\ NothingStays)'
      BY PendingInit, EdgeKeepsInit, RoomAtFirst, PTL
    <3> QED BY <3>1, <3>2 DEF Room
  <2>3. CASE ~SecondRun
    <3>1. [Next]_vars
      BY <1>2, <2>3 DEF ExperimentNext, ArmStep, Conclude, experimentVars
    <3> QED BY <2>1, <3>1
  <2> QED BY <2>2, <2>3
<1> HIDE DEF Whole
<1>3. Whole => (ShortStreaks => ReadsReachTheEnd)
  BY DEF Whole, Room
<1>4. RunInvariant /\ study \in Studies /\ Whole /\ [ExperimentNext]_experimentVars => Whole'
  BY <1>2
<1>5. StudyInvariant => study \in Studies
  BY DEF StudyInvariant
<1> QED BY <1>1, <1>3, <1>4, <1>5, StudiesTell, PTL DEF ExperimentSpec

\* Between two ranks of one residue there is a rank of every other.
LEMMA RoundHasAll ==
    ASSUME NEW k \in Nat \ {0}, NEW i \in 0 .. k - 1, NEW u \in Nat, NEW v \in Nat,
           u < v, u % k = v % k, i # u % k
    PROVE  \E r \in Nat : u < r /\ r < v /\ r % k = i
<1>1. PICK q, p, m : /\ q \in Nat /\ p \in Nat /\ m \in 0 .. k - 1 /\ m = u % k
                     /\ u = k * q + m /\ v = k * p + m
  <2>1. u \div k \in Nat /\ u % k \in 0 .. k - 1 /\ u = k * (u \div k) + (u % k)
    BY Divided
  <2>2. v \div k \in Nat /\ v = k * (v \div k) + (v % k)
    BY Divided
  <2> QED BY <2>1, <2>2, Zenon
<1>2. PICK a, b : a = k * q /\ b = k * p /\ a \in Nat /\ b \in Nat
  BY <1>1
<1>3. a + k <= b
  <2>1. p > q
    <3>1. p <= q => k * p <= k * q
      BY <1>1
    <3> QED BY <1>1, <1>2, <3>1
  <2>2. PICK o \in Nat : p = q + 1 + o
    <3>1. p - q - 1 \in Nat /\ p = q + 1 + (p - q - 1)
      BY <1>1, <2>1
    <3> QED BY <3>1
  <2>3. k * p = k * q + k + k * o /\ k * o \in Nat
    BY <1>1, <2>2
  <2> QED BY <1>2, <2>3
<1>4. CASE i > m
  <2>1. (k * q + i) % k = i
    BY <1>1, Remains
  <2>2. a + i \in Nat /\ u < a + i /\ a + i < v /\ (a + i) % k = i
    BY <1>1, <1>2, <1>3, <1>4, <2>1
  <2> QED BY <2>2
<1>5. CASE i < m
  <2>1. (k * (q + 1) + i) % k = i
    <3>1. q + 1 \in Nat
      BY <1>1
    <3> QED BY <3>1, Remains
  <2>2. k * (q + 1) = a + k
    BY <1>1, <1>2
  <2>3. a + k + i \in Nat /\ u < a + k + i /\ a + k + i < v /\ (a + k + i) % k = i
    BY <1>1, <1>2, <1>3, <1>5, <2>1, <2>2
  <2> QED BY <2>3
<1> QED BY <1>1, <1>4, <1>5

\* Kinds that a schedule can go round without ever withholding two reordered events in a
\* row of publishes: one of them goes through, or none is reordered.
Mixed(kinds) ==
    /\ AskedOnce(kinds)
    /\ (\E i \in DOMAIN kinds : kinds[i] = "reorder_event") =>
           \E i \in DOMAIN kinds : kinds[i] \notin Withheld

\* One round of the kinds separates two reordered events, and something goes through in it.
LEMMA ReordersAreSpaced ==
    ASSUME NEW kinds \in Seq(Kinds \ {NoFault}), kinds # <<>>, Mixed(kinds),
           NEW picked \in SUBSET Events, schedule = Assigned(kinds, picked),
           NEW e \in Events, NEW c \in Streak(e), NEW d \in Streak(e)
    PROVE  ~(c < d)
<1> SUFFICES ASSUME c < d PROVE FALSE
  OBVIOUS
<1>1. PICK f, n : f = [p \in picked |-> Rank(picked, p)] /\ n = Cardinality(picked)
  OBVIOUS
<1>2. PICK k : k = Len(kinds) /\ k \in Nat \ {0} /\ DOMAIN kinds = 1 .. k
  OBVIOUS
<1>3. /\ n \in Nat /\ f \in [picked -> 0 .. n - 1]
      /\ \A p, q \in picked : f[p] = f[q] => p = q
      /\ \A p, q \in picked : f[p] < f[q] => p < q
      /\ \A r \in 0 .. n - 1 : \E p \in picked : f[p] = r
  BY <1>1, RanksAreOnto
<1>4. \A x \in picked : f[x] = Cardinality({p \in picked : p < x})
  BY <1>1 DEF Rank
<1>5. \A x \in Events : schedule[x] = IF x \in picked THEN kinds[(f[x] % k) + 1] ELSE NoFault
  BY <1>2, <1>4 DEF Assigned
<1>6. \A x \in picked : f[x] \in Nat /\ f[x] % k \in 0 .. k - 1 /\ (f[x] % k) + 1 \in 1 .. k
  <2> SUFFICES ASSUME NEW x \in picked
               PROVE  f[x] \in Nat /\ f[x] % k \in 0 .. k - 1 /\ (f[x] % k) + 1 \in 1 .. k
    OBVIOUS
  <2>1. f[x] \in Nat
    BY <1>3
  <2>2. f[x] % k \in 0 .. k - 1
    BY <1>2, <2>1, Divided
  <2> QED BY <1>2, <2>1, <2>2
<1>7. /\ c \in picked /\ d \in picked /\ c \in Int /\ d \in Int /\ e \in Int /\ d < e
      /\ kinds[(f[c] % k) + 1] = "reorder_event" /\ kinds[(f[d] % k) + 1] = "reorder_event"
      /\ \A x \in c .. e - 1 : schedule[x] \in Withheld
  BY <1>5, NAssumption DEF Streak, NoFault, Events
<1>8. f[c] % k = f[d] % k
  <2>1. (f[c] % k) + 1 = (f[d] % k) + 1
    BY <1>2, <1>6, <1>7 DEF Mixed, AskedOnce
  <2> QED BY <1>6, <1>7, <2>1
<1>9. f[c] < f[d]
  <2>1. ~(f[d] < f[c]) /\ f[c] # f[d]
    BY <1>3, <1>7
  <2> QED BY <1>6, <1>7, <2>1
<1>10. PICK i \in 1 .. k : kinds[i] \notin Withheld
  BY <1>2, <1>6, <1>7 DEF Mixed
<1>11. i - 1 \in 0 .. k - 1 /\ i - 1 # f[c] % k
  <2>1. i # (f[c] % k) + 1
    BY <1>7, <1>10 DEF Withheld
  <2> QED BY <1>2, <1>6, <1>7, <1>10, <2>1
<1>12. PICK r \in Nat : f[c] < r /\ r < f[d] /\ r % k = i - 1
  <2>1. f[c] \in Nat /\ f[d] \in Nat
    BY <1>6, <1>7
  <2> QED BY <1>2, <1>8, <1>9, <1>11, <2>1, RoundHasAll, ZenonT(30)
<1>13. PICK x \in picked : f[x] = r
  <2>1. f[d] \in 0 .. n - 1
    BY <1>3, <1>7
  <2>2. r \in 0 .. n - 1
    BY <1>3, <1>12, <2>1
  <2> QED BY <1>3, <2>2
<1>14. c < x /\ x < d /\ x \in Int
  BY <1>3, <1>7, <1>12, <1>13, NAssumption DEF Events
<1>15. schedule[x] = kinds[i]
  <2>1. (f[x] % k) + 1 = i
    BY <1>10, <1>12, <1>13
  <2> QED BY <1>5, <2>1
<1>16. x \in c .. e - 1
  BY <1>7, <1>14
<1> QED BY <1>7, <1>10, <1>15, <1>16

LEMMA MixedStreaksAreShort ==
    ASSUME study \in Studies, schedule \in Schedules(study), Mixed(study.kinds), 3 <= BatchSize
    PROVE  ShortStreaks
<1> SUFFICES ASSUME NEW e \in Events PROVE Cardinality(Streak(e)) + 2 <= BatchSize
  BY DEF ShortStreaks
<1>1. \A c, d \in Streak(e) : c = d
  <2> SUFFICES ASSUME NEW c \in Streak(e), NEW d \in Streak(e) PROVE c = d
    OBVIOUS
  <2>1. c \in Events /\ c \in Int /\ d \in Int /\ schedule[c] = "reorder_event"
    BY NAssumption DEF Streak, Events
  <2>2. CASE study.kinds = <<>>
    <3>1. schedule[c] = NoFault
      BY <2>1, <2>2 DEF Schedules, NoFaults
    <3> QED BY <2>1, <3>1 DEF NoFault
  <2>3. CASE study.kinds # <<>>
    <3>1. PICK kinds : kinds = study.kinds /\ kinds \in Seq(Kinds \ {NoFault})
      BY StudyAssumption DEF StudyType
    <3>2. PICK picked \in SUBSET Events : schedule = Assigned(kinds, picked)
      BY <2>3, <3>1 DEF Schedules, Built
    <3>3. ~(c < d) /\ ~(d < c)
      BY <2>3, <3>1, <3>2, ReordersAreSpaced
    <3> QED BY <2>1, <3>3
  <2> QED BY <2>2, <2>3
<1>2. Cardinality(Streak(e)) \in {0, 1}
  <2>1. CASE Streak(e) = {}
    BY <2>1, FS_EmptySet
  <2>2. CASE Streak(e) # {}
    <3>1. PICK d : Streak(e) = {d}
      BY <1>1, <2>2
    <3> QED BY <3>1, FS_Singleton
  <2> QED BY <2>1, <2>2
<1> QED BY <1>2, BatchSizeAssumption

(* No batch overflows in a study whose kinds, each asked for once, contain  *)
(* no reordering or some kind that goes through, as those of every control  *)
(* and of the matrix do: between two reordered events lies a whole round of *)
(* the kinds, so a publish releases one at most, however many events there  *)
(* are and at whatever rate (experiments.py 95-350; arms.py 200, count 32;  *)
(* faultlab.py 69-100).                                                     *)
THEOREM StudiesHaveRoom ==
    ASSUME \A s \in Studies : Mixed(s.kinds), 3 <= BatchSize
    PROVE  ExperimentSpec => []ReadsReachTheEnd
<1>1. ExperimentInit => study \in Studies /\ schedule \in Schedules(study)
  BY DEF ExperimentInit
<1>2. study \in Studies /\ schedule \in Schedules(study) /\ [ExperimentNext]_experimentVars
      => (study \in Studies /\ schedule \in Schedules(study))'
  BY ScheduleStays
<1>3. study \in Studies /\ schedule \in Schedules(study) => ShortStreaks
  BY MixedStreaksAreShort
<1> QED BY <1>1, <1>2, <1>3, StreaksLeaveRoom, PTL DEF ExperimentSpec
=============================================================================
