----------------------------- MODULE ChainProofs -----------------------------
(* Theorems about the two chains of a run, and about what the join and the  *)
(* reconstruction read off them, for every scenario length, batch size,     *)
(* configuration, schedule, scenario and clock.                             *)
EXTENDS ArmProofs, WellFoundedInduction

----------------------------------------------------------------------------
(* The inductive invariant.                                                 *)

\* The events that were handed to the edge.
Offered(e) == e < cur \/ (e = cur /\ pc \notin {"act", "publish"})

\* The events the gate has put on record.
OnRecord(e) == e < cur \/ (e = cur /\ pc = "failopen")

GateRecord(i, e) ==
    /\ i \in DOMAIN decisions
    /\ decisions[i].event = e
    /\ decisions[i].outcome # "DECIDED_BACKLOG"

\* What is published or held back is an event the loop has come to.
EdgeBehind ==
    /\ \A d \in DOMAIN stream : Offered(stream[d])
    /\ \A i \in DOMAIN held : Offered(held[i])

\* The gate records each event once, as the loop leaves it, and before any drain does.
ChainInOrder ==
    /\ \A i \in DOMAIN decisions : OnRecord(decisions[i].event)
    /\ \A e \in Events : OnRecord(e) => \E i \in DOMAIN decisions : GateRecord(i, e)
    /\ \A e \in Events : \A i, j \in DOMAIN decisions :
          GateRecord(i, e) /\ GateRecord(j, e) => i = j
    /\ BacklogComesAfterTheGate

\* Until it is recorded, the ruling tells whether the evaluator answered in time.
RulingTells ==
    pc \in {"enforce", "retry", "record"} =>
        /\ ruling.outcome \in {"DECIDED", "LATE", "NO_DECISION"}
        /\ ruling.outcome = "NO_DECISION" <=> verdict = NoRisk
        /\ ruling.decision = IF ruling.outcome = "DECIDED" THEN Decide(mode.policy, verdict)
                                                           ELSE FailModeDecision
        /\ ruling.outcome = "DECIDED" => ~Undecidable(cur)

\* A record is the policy's ruling on the evaluator's score, or else the fail mode's.
SoundRecord(r) ==
    /\ r.outcome \in {"DECIDED", "DECIDED_BACKLOG"} =>
          r.risk = Score(r.event) /\ ~mode.crashing /\ r.decision = Decide(mode.policy, r.risk)
    /\ r.outcome = "DECIDED" => ~Undecidable(r.event)
    /\ r.outcome \in {"LATE", "NO_DECISION", "REFUSED_TRANSPORT_DOWN"} =>
          r.decision = FailModeDecision
    /\ r.risk = NoRisk => r.outcome \in {"NO_DECISION", "REFUSED_TRANSPORT_DOWN"}

RecordsAreSound == \A i \in DOMAIN decisions : SoundRecord(decisions[i])

\* The effect chain shows which events were asked for, and which of them ran; with
\* dedup on, by one record each.
EffectsTell ==
    /\ \A e \in Events : /\ Observed(e) <=> asked[e] > 0
                         /\ Executed(e) <=> ran[e] > 0
    /\ mode.idempotent => \A i, j \in DOMAIN effects : effects[i].event = effects[j].event => i = j

\* In series, what a decision makes of an event.
RunsBy(e, decision) == decision # "BLOCK" \/ (schedule[e] = "enforcement_fail" /\ TwoWriters)

RefusedOutage(e) == InSeries /\ mode.failClosed /\ schedule[e] = "transport_outage"

RanTwice(e) == ~mode.idempotent /\ schedule[e] = "retry_double" /\ ran[e] > 0

\* The monitor runs every event once.
MonitorRan == ~InSeries => \A e \in Events : ~Unasked(e) => ran[e] = 1

\* In series, the body of the loop goes on after a publish only if there was no outage.
OutageIsSettled ==
    /\ InSeries /\ pc \in {"consume", "drain", "decide", "enforce", "retry", "record"} =>
          schedule[cur] # "transport_outage"
    /\ pc = "failopen" =>
          /\ schedule[cur] = "transport_outage"
          /\ \A i \in DOMAIN decisions : GateRecord(i, cur) => decisions[i].decision = "ALLOW"

\* In series, what ran of the event at hand is what its ruling calls for.
CurrentRan ==
    InSeries /\ pc \in {"retry", "record"} =>
        /\ asked[cur] > 0
        /\ ran[cur] > 0 <=> RunsBy(cur, ruling.decision)
        /\ pc = "record" => (ran[cur] > 1 <=> RanTwice(cur))

\* In series, what ran of an event the loop has left is what its gate record calls for.
LeftRan ==
    InSeries => \A e \in Events : e < cur =>
        /\ asked[e] = 0 <=> RefusedOutage(e)
        /\ ran[e] > 1 <=> RanTwice(e)
        /\ \A i \in DOMAIN decisions : GateRecord(i, e) =>
              (ran[e] > 0 <=> RunsBy(e, decisions[i].decision))

RanAsRuled == MonitorRan /\ OutageIsSettled /\ CurrentRan /\ LeftRan

(* The chains tell what happened: every event the loop has left has one     *)
(* record of the gate and what a drain adds comes after it, a record is     *)
(* what the evaluator and the policy say, or the fail mode, and what ran is *)
(* what the record and the schedule call for.                               *)
ChainInvariant ==
    EdgeBehind /\ ChainInOrder /\ RulingTells /\ RecordsAreSound /\ EffectsTell /\ RanAsRuled

----------------------------------------------------------------------------
(* What a step may do to the two chains.                                    *)

\* The same after a step.
OnRecordNext(e) == e < cur' \/ (e = cur' /\ pc' = "failopen")

\* What a step leaves the decision chain with: nothing new, a drain's record on an
\* event that is behind the loop, or the gate's record on the event the loop is at.
ChainUnchanged ==
    /\ decisions' = decisions
    /\ \A e \in Events : OnRecordNext(e) <=> OnRecord(e)

DrainRecords(r) ==
    /\ decisions' = Append(decisions, r)
    /\ r.event \in Events /\ r.event < cur /\ r.outcome = "DECIDED_BACKLOG"
    /\ r.risk = Score(r.event) /\ ~mode.crashing /\ r.decision = Decide(mode.policy, r.risk)
    /\ cur' = cur /\ pc' = pc /\ ran' = ran
    /\ \A e \in Events : OnRecordNext(e) <=> OnRecord(e)

GateRecords(r) ==
    /\ decisions' = Append(decisions, r)
    /\ r.event = cur /\ cur \in Events /\ ~OnRecord(cur)
    /\ r.outcome \in {"DECIDED", "LATE", "NO_DECISION", "REFUSED_TRANSPORT_DOWN"}
    /\ \A e \in Events : OnRecordNext(e) <=> (OnRecord(e) \/ e = cur)

\* The end of the loop's body leaves the current event behind.
LEMMA NextEventLeaves ==
    ASSUME TypeOK, LoopShape, NextEvent
    PROVE  /\ \A e \in Events : e < cur' <=> (e < cur \/ e = cur)
           /\ pc' \in {"act", "publish", "flush"}
           /\ \A e \in Events : OnRecordNext(e) <=> (e < cur \/ e = cur)
<1>1. cur \in Int /\ \A e \in Events : e \in Int
  BY NAssumption DEF TypeOK, Events
<1>2. cur' = cur + 1 /\ pc' \in {"act", "publish", "flush"}
  BY DEF NextEvent, FirstPc
<1> QED BY <1>1, <1>2 DEF OnRecord, OnRecordNext

\* Each step does one of the three to the decision chain.
LEMMA ChainStep ==
    ASSUME TypeOK, LoopShape, EdgeBehind, RulingTells, [Next]_vars
    PROVE  ChainUnchanged \/ (\E r : DrainRecords(r)) \/ (\E r : GateRecords(r))
<1> USE DEF inputVars, brokerVars, labVars, effectVars, loopVars
<1>0. cur \in Int /\ \A e \in Events : e \in Int
  BY NAssumption DEF TypeOK, Events
<1>1. CASE RefuseOnOutage
  <2> DEFINE r == [event |-> cur, risk |-> NoRisk, decision |-> FailModeDecision,
                   outcome |-> "REFUSED_TRANSPORT_DOWN", note |-> "outage", alt |-> NoRisk]
  <2>1. decisions' = Append(decisions, r) /\ cur \in Events /\ pc = "publish"
    BY <1>1 DEF RefuseOnOutage, Record, LoopShape
  <2>2. ~OnRecord(cur)
    BY <1>0, <2>1 DEF OnRecord, OnRecordNext
  <2>3. \A e \in Events : OnRecordNext(e) <=> (OnRecord(e) \/ e = cur)
    <3>1. CASE mode.failClosed
      BY <1>1, <2>1, <3>1, NextEventLeaves DEF RefuseOnOutage, OnRecord, OnRecordNext
    <3>2. CASE ~mode.failClosed
      BY <1>1, <2>1, <3>2 DEF RefuseOnOutage, OnRecord, OnRecordNext
    <3> QED BY <3>1, <3>2
  <2>4. r.event = cur /\ r.outcome = "REFUSED_TRANSPORT_DOWN"
    OBVIOUS
  <2> HIDE DEF r
  <2>5. GateRecords(r)
    BY <2>1, <2>2, <2>3, <2>4 DEF GateRecords
  <2> QED BY <2>5
<1>2. CASE RecordDecision
  <2> DEFINE r == [event |-> cur, risk |-> verdict, decision |-> ruling.decision,
                   outcome |-> ruling.outcome,
                   note |-> IF EnforcementFails THEN "enforcement_failed" ELSE "none",
                   alt |-> ruling.alt]
  <2>1. decisions' = Append(decisions, r) /\ cur \in Events /\ pc = "record" /\ NextEvent
    BY <1>2 DEF RecordDecision, Record, LoopShape
  <2>2. ~OnRecord(cur) /\ \A e \in Events : OnRecord(e) <=> e < cur
    BY <1>0, <2>1 DEF OnRecord, OnRecordNext
  <2>3. \A e \in Events : OnRecordNext(e) <=> (OnRecord(e) \/ e = cur)
    BY <2>1, <2>2, NextEventLeaves
  <2>4. r.event = cur /\ r.outcome \in {"DECIDED", "LATE", "NO_DECISION"}
    BY <2>1 DEF RulingTells
  <2> HIDE DEF r
  <2>5. GateRecords(r)
    BY <2>1, <2>2, <2>3, <2>4 DEF GateRecords
  <2> QED BY <2>5
<1>3. CASE DrainBacklog
  <2> DEFINE e == stream[next]
  <2>1. next \in DOMAIN stream /\ e \in Events /\ e # cur
    BY <1>3 DEF DrainBacklog, TypeOK, LoopShape
  <2>2. e < cur
    BY <1>0, <2>1 DEF EdgeBehind, Offered
  <2>3. cur' = cur /\ pc' = pc /\ ran' = ran
    BY <1>3 DEF DrainBacklog
  <2>4. \A d \in Events : OnRecordNext(d) <=> OnRecord(d)
    BY <2>3 DEF OnRecord, OnRecordNext
  <2>5. CASE mode.crashing
    BY <1>3, <2>4, <2>5 DEF DrainBacklog, ChainUnchanged
  <2>6. CASE ~mode.crashing
    <3> DEFINE r == [event |-> e, risk |-> Score(e), decision |-> Decide(mode.policy, Score(e)),
                     outcome |-> "DECIDED_BACKLOG", note |-> "backlog", alt |-> NoRisk]
    <3>1. decisions' = Append(decisions, r)
      BY <1>3, <2>6 DEF DrainBacklog, Record
    <3>2. /\ r.event = e /\ r.outcome = "DECIDED_BACKLOG" /\ r.risk = Score(r.event)
          /\ r.decision = Decide(mode.policy, r.risk)
      OBVIOUS
    <3> HIDE DEF r
    <3>3. DrainRecords(r)
      BY <2>1, <2>2, <2>3, <2>4, <2>6, <3>1, <3>2 DEF DrainRecords
    <3> QED BY <3>3
  <2> QED BY <2>5, <2>6
<1>4. CASE FailOpenOnOutage
  <2>1. decisions' = decisions /\ NextEvent /\ pc = "failopen"
    BY <1>4 DEF FailOpenOnOutage
  <2>2. \A e \in Events : OnRecord(e) <=> (e < cur \/ e = cur)
    BY <2>1 DEF OnRecord, OnRecordNext
  <2> QED BY <2>1, <2>2, NextEventLeaves DEF ChainUnchanged
<1>5. CASE ~(RefuseOnOutage \/ RecordDecision \/ DrainBacklog \/ FailOpenOnOutage)
  <2>1. /\ decisions' = decisions /\ cur' = cur
        /\ pc' = "failopen" <=> pc = "failopen"
    BY <1>5 DEF Next, vars, MonitorActs, PublishLost, PublishSent, OutageUnseen, ConsumeBatch,
       FindTarget, TargetMissing, EvaluateTarget, CrashAndRedeliver, DecideOnTime, DecideWithout,
       AfterDecision, Enforce, RetryDouble, Flush, BatchRead
  <2> QED BY <2>1 DEF ChainUnchanged, OnRecord, OnRecordNext
<1> QED BY <1>1, <1>2, <1>3, <1>4, <1>5

\* What is on the stream or held back stays behind the loop.
LEMMA EdgeStep ==
    ASSUME TypeOK, LoopShape, EdgeBehind, [Next]_vars
    PROVE  EdgeBehind'
<1> USE DEF inputVars, brokerVars, labVars, effectVars, loopVars
<1>0. cur \in Int /\ \A e \in Events : e \in Int
  BY NAssumption DEF TypeOK, Events
<1> DEFINE Later(e) == e < cur' \/ (e = cur' /\ pc' \notin {"act", "publish"})
<1>1. \A e \in Events : Offered(e) => Later(e)
  <2>1. \/ cur' = cur + 1
        \/ cur' = cur /\ (pc \notin {"act", "publish"} => pc' \notin {"act", "publish"})
    BY DEF Next, vars, MonitorActs, PublishLost, PublishSent, RefuseOnOutage,
       FailOpenOnOutage, OutageUnseen, ConsumeBatch, FindTarget, DrainBacklog, TargetMissing,
       EvaluateTarget, CrashAndRedeliver, DecideOnTime, DecideWithout, AfterDecision, Enforce,
       RetryDouble, RecordDecision, Flush, NextEvent, BatchRead
  <2> QED BY <1>0, <2>1 DEF Offered
<1>2. CASE PublishLost
  <2>1. cur \in Events /\ cur' = cur /\ pc' = "decide" /\ stream' = stream
    BY <1>2 DEF PublishLost, LoopShape, Drop, Hold
  <2>2. held' = held \/ held' = Append(held, cur)
    BY <1>2 DEF PublishLost, Drop, Hold
  <2>3. Later(cur)
    BY <2>1, <1>0
  <2>4. \A i \in DOMAIN held' : held'[i] = cur \/ (i \in DOMAIN held /\ held'[i] = held[i])
    <3>1. held \in Seq(Events)
      BY DEF TypeOK
    <3>2. CASE held' = Append(held, cur)
      BY <2>1, <3>1, <3>2
    <3> QED BY <2>2, <3>2
  <2>5. /\ \A d \in DOMAIN stream : stream[d] \in Events
        /\ \A i \in DOMAIN held : held[i] \in Events
    BY DEF TypeOK
  <2>6. \A i \in DOMAIN held' : Later(held'[i])
    BY <1>1, <2>1, <2>3, <2>4, <2>5 DEF EdgeBehind
  <2>7. \A d \in DOMAIN stream' : Later(stream'[d])
    BY <1>1, <2>1, <2>5 DEF EdgeBehind
  <2> QED BY <2>6, <2>7 DEF EdgeBehind, Offered
<1>3. CASE PublishSent
  <2>1. cur \in Events /\ cur' = cur /\ pc' = "consume" /\ held' = <<>>
        /\ stream' = stream \o (Copies(cur) \o held)
    BY <1>3 DEF PublishSent, LoopShape, Send, Publish
  <2>2. Later(cur)
    BY <2>1, <1>0
  <2>3. \A d \in DOMAIN stream' : \/ stream'[d] = cur
                                  \/ \E i \in DOMAIN stream : stream'[d] = stream[i]
                                  \/ \E i \in DOMAIN held : stream'[d] = held[i]
    <3>1. \A c : c \in Seq({cur}) =>
             \A d \in DOMAIN (stream \o (c \o held)) :
                \/ (stream \o (c \o held))[d] = cur
                \/ \E i \in DOMAIN stream : (stream \o (c \o held))[d] = stream[i]
                \/ \E i \in DOMAIN held : (stream \o (c \o held))[d] = held[i]
      <4> TAKE c
      <4> HAVE c \in Seq({cur})
      <4> TAKE d \in DOMAIN (stream \o (c \o held))
      <4>1. stream \in Seq(Events) /\ held \in Seq(Events)
        BY DEF TypeOK
      <4>2. CASE d <= Len(stream)
        BY <4>1, <4>2
      <4>3. CASE d > Len(stream) /\ d <= Len(stream) + Len(c)
        <5>1. (stream \o (c \o held))[d] = c[d - Len(stream)] /\ d - Len(stream) \in 1..Len(c)
          BY <4>1, <4>3
        <5> QED BY <5>1
      <4>4. CASE d > Len(stream) + Len(c)
        <5>1. /\ (stream \o (c \o held))[d] = held[d - Len(stream) - Len(c)]
              /\ d - Len(stream) - Len(c) \in DOMAIN held
          BY <4>1, <4>4
        <5> QED BY <5>1
      <4>5. d \in Nat /\ Len(stream) \in Nat /\ Len(c) \in Nat
        BY <4>1
      <4> QED BY <4>2, <4>3, <4>4, <4>5
    <3>2. Copies(cur) \in Seq({cur})
      <4> DEFINE S == {cur}
      <4>1. cur \in S
        OBVIOUS
      <4> HIDE DEF S
      <4>2. <<cur, cur>> \in Seq(S) /\ <<cur>> \in Seq(S)
        BY <4>1
      <4>3. Copies(cur) \in Seq(S)
        BY <4>2 DEF Copies
      <4> QED BY <4>3 DEF S
    <3> QED BY <2>1, <3>1, <3>2
  <2>4. /\ \A d \in DOMAIN stream : stream[d] \in Events
        /\ \A i \in DOMAIN held : held[i] \in Events
    BY DEF TypeOK
  <2>5. \A d \in DOMAIN stream' : Later(stream'[d])
    BY <1>1, <2>2, <2>1, <2>3, <2>4 DEF EdgeBehind
  <2> QED BY <2>1, <2>5 DEF EdgeBehind, Offered
<1>4. CASE Flush
  <2>1. held' = <<>> /\ stream' = stream \o held
    BY <1>4 DEF Flush, FlushReorderBuffer, Publish
  <2>2. /\ \A d \in DOMAIN stream : stream[d] \in Events
        /\ \A i \in DOMAIN held : held[i] \in Events
        /\ stream \in Seq(Events) /\ held \in Seq(Events)
    BY DEF TypeOK
  <2>3. \A d \in DOMAIN stream' : \/ \E i \in DOMAIN stream : stream'[d] = stream[i]
                                  \/ \E i \in DOMAIN held : stream'[d] = held[i]
    <3> TAKE d \in DOMAIN stream'
    <3>1. CASE d <= Len(stream)
      BY <2>1, <2>2, <3>1
    <3>2. CASE d > Len(stream)
      <4>1. stream'[d] = held[d - Len(stream)] /\ d - Len(stream) \in DOMAIN held
        BY <2>1, <2>2, <3>2
      <4> QED BY <4>1
    <3>3. d \in Nat /\ Len(stream) \in Nat
      BY <2>1, <2>2
    <3> QED BY <3>1, <3>2, <3>3
  <2>4. \A d \in DOMAIN stream' : Later(stream'[d])
    BY <1>1, <2>2, <2>3 DEF EdgeBehind
  <2> QED BY <2>1, <2>4 DEF EdgeBehind, Offered
<1>5. CASE ~(PublishLost \/ PublishSent \/ Flush)
  <2>1. stream' = stream /\ held' = held
    BY <1>5 DEF Next, vars, MonitorActs, RefuseOnOutage, FailOpenOnOutage, OutageUnseen,
       ConsumeBatch, Consume, Outage, FindTarget, DrainBacklog, TargetMissing, EvaluateTarget,
       CrashAndRedeliver, DecideOnTime, DecideWithout, Enforce, RetryDouble, RecordDecision
  <2>2. /\ \A d \in DOMAIN stream : stream[d] \in Events
        /\ \A i \in DOMAIN held : held[i] \in Events
    BY DEF TypeOK
  <2>3. \A d \in DOMAIN stream' : Later(stream'[d])
    BY <1>1, <2>1, <2>2 DEF EdgeBehind
  <2>4. \A i \in DOMAIN held' : Later(held'[i])
    BY <1>1, <2>1, <2>2 DEF EdgeBehind
  <2> QED BY <2>3, <2>4 DEF EdgeBehind, Offered
<1> QED BY <1>2, <1>3, <1>4, <1>5

\* A record more on the decision chain, and nothing else moved.
LEMMA ChainGrows ==
    ASSUME TypeOK, NEW r, decisions' = Append(decisions, r)
    PROVE  /\ Len(decisions) + 1 \in DOMAIN decisions' /\ decisions'[Len(decisions) + 1] = r
           /\ \A i \in DOMAIN decisions :
                 /\ i \in DOMAIN decisions' /\ decisions'[i] = decisions[i]
                 /\ i \in Nat /\ i < Len(decisions) + 1
           /\ \A i \in DOMAIN decisions' :
                 i \in Nat /\ (i \in DOMAIN decisions \/ i = Len(decisions) + 1)
  BY DEF TypeOK

\* What a record on the decision chain is made of.
LEMMA RecordFields ==
    ASSUME TypeOK, NEW i \in DOMAIN decisions
    PROVE  /\ decisions[i] \in DecisionRecords
           /\ decisions[i].event \in Events /\ decisions[i].decision \in Decisions
           /\ decisions[i].outcome \in Outcomes
<1>1. decisions[i] \in DecisionRecords
  BY DEF TypeOK
<1> QED BY <1>1 DEF DecisionRecords

\* The gate records in order, and drains after it, at every step.
LEMMA OrderStep ==
    ASSUME TypeOK, LoopShape, EdgeBehind, RulingTells, ChainInOrder, [Next]_vars
    PROVE  ChainInOrder'
<1>0. \A i \in DOMAIN decisions : decisions[i].event \in Events /\ OnRecord(decisions[i].event)
  BY RecordFields DEF ChainInOrder
<1>1. CASE ChainUnchanged
  <2>1. decisions' = decisions /\ \A e \in Events : OnRecordNext(e) <=> OnRecord(e)
    BY <1>1 DEF ChainUnchanged
  <2>2. \A i \in DOMAIN decisions' : OnRecordNext(decisions'[i].event)
    BY <1>0, <2>1
  <2>3. \A i, e : GateRecord(i, e)' <=> GateRecord(i, e)
    BY <2>1 DEF GateRecord
  <2>4. \A e \in Events : OnRecordNext(e) => \E i \in DOMAIN decisions' : GateRecord(i, e)'
    BY <2>1, <2>3 DEF ChainInOrder
  <2>5. \A e \in Events : \A i, j \in DOMAIN decisions' :
           GateRecord(i, e)' /\ GateRecord(j, e)' => i = j
    BY <2>1, <2>3 DEF ChainInOrder
  <2>6. BacklogComesAfterTheGate'
    BY <2>1 DEF ChainInOrder, BacklogComesAfterTheGate
  <2> QED BY <2>2, <2>4, <2>5, <2>6 DEF ChainInOrder, OnRecord, OnRecordNext
<1>2. ASSUME NEW r, DrainRecords(r) PROVE ChainInOrder'
  <2> DEFINE n == Len(decisions) + 1
  <2>1. /\ n \in DOMAIN decisions' /\ decisions'[n] = r
        /\ \A i \in DOMAIN decisions : /\ i \in DOMAIN decisions' /\ decisions'[i] = decisions[i]
                                       /\ i \in Nat /\ i < n
        /\ \A i \in DOMAIN decisions' : i \in Nat /\ (i \in DOMAIN decisions \/ i = n)
    BY <1>2, ChainGrows DEF DrainRecords
  <2> HIDE DEF n
  <2>2. /\ r.event \in Events /\ r.outcome = "DECIDED_BACKLOG" /\ OnRecord(r.event)
        /\ \A e \in Events : OnRecordNext(e) <=> OnRecord(e)
    BY <1>2 DEF DrainRecords, OnRecord
  <2>3. \A i \in DOMAIN decisions' : OnRecordNext(decisions'[i].event)
    BY <1>0, <2>1, <2>2
  <2>4. \A e \in Events : OnRecordNext(e) => \E i \in DOMAIN decisions : GateRecord(i, e)
    BY <2>2 DEF ChainInOrder
  <2>5. \A i \in DOMAIN decisions', e \in Events : GateRecord(i, e)' <=> GateRecord(i, e)
    BY <2>1, <2>2 DEF GateRecord
  <2>6. \A i \in DOMAIN decisions' : decisions'[i].outcome = "DECIDED_BACKLOG" =>
           \E j \in 1 .. i - 1 : /\ decisions'[j].event = decisions'[i].event
                                 /\ decisions'[j].outcome # "DECIDED_BACKLOG"
    <3> SUFFICES ASSUME NEW i \in DOMAIN decisions', decisions'[i].outcome = "DECIDED_BACKLOG"
                 PROVE  \E j \in 1 .. i - 1 : /\ decisions'[j].event = decisions'[i].event
                                              /\ decisions'[j].outcome # "DECIDED_BACKLOG"
      OBVIOUS
    <3>1. CASE i \in DOMAIN decisions
      <4>1. PICK j \in 1 .. i - 1 : /\ decisions[j].event = decisions[i].event
                                    /\ decisions[j].outcome # "DECIDED_BACKLOG"
        BY <2>1, <3>1 DEF ChainInOrder, BacklogComesAfterTheGate
      <4>2. j \in DOMAIN decisions
        BY <3>1 DEF TypeOK
      <4> QED BY <2>1, <3>1, <4>1, <4>2
    <3>2. CASE i = n
      <4>1. PICK j \in DOMAIN decisions : GateRecord(j, r.event)
        BY <2>2 DEF ChainInOrder
      <4>2. j \in 1 .. i - 1
        BY <2>1, <3>2 DEF TypeOK
      <4> QED BY <2>1, <3>2, <4>1, <4>2 DEF GateRecord
    <3> QED BY <2>1, <3>1, <3>2
  <2>7. \A e \in Events : OnRecordNext(e) => \E i \in DOMAIN decisions' : GateRecord(i, e)'
    BY <2>1, <2>4, <2>5
  <2>8. \A e \in Events : \A i, j \in DOMAIN decisions' :
           GateRecord(i, e)' /\ GateRecord(j, e)' => i = j
    <3> SUFFICES ASSUME NEW e \in Events, NEW i \in DOMAIN decisions', NEW j \in DOMAIN decisions',
                        GateRecord(i, e)', GateRecord(j, e)'
                 PROVE  i = j
      OBVIOUS
    <3>1. GateRecord(i, e) /\ GateRecord(j, e)
      BY <2>5
    <3>2. i \in DOMAIN decisions /\ j \in DOMAIN decisions
      BY <3>1 DEF GateRecord
    <3> QED BY <3>1, <3>2 DEF ChainInOrder
  <2> QED BY <2>3, <2>6, <2>7, <2>8 DEF ChainInOrder, BacklogComesAfterTheGate, OnRecord, OnRecordNext
<1>3. ASSUME NEW r, GateRecords(r) PROVE ChainInOrder'
  <2> DEFINE n == Len(decisions) + 1
  <2>1. /\ n \in DOMAIN decisions' /\ decisions'[n] = r
        /\ \A i \in DOMAIN decisions : /\ i \in DOMAIN decisions' /\ decisions'[i] = decisions[i]
                                       /\ i \in Nat /\ i < n
        /\ \A i \in DOMAIN decisions' : i \in Nat /\ (i \in DOMAIN decisions \/ i = n)
    BY <1>3, ChainGrows DEF GateRecords
  <2> HIDE DEF n
  <2>2. /\ r.event = cur /\ r.outcome # "DECIDED_BACKLOG" /\ ~OnRecord(cur) /\ cur \in Events
        /\ \A e \in Events : OnRecordNext(e) <=> (OnRecord(e) \/ e = cur)
    BY <1>3 DEF GateRecords
  <2>3. \A i \in DOMAIN decisions' : OnRecordNext(decisions'[i].event)
    BY <1>0, <2>1, <2>2
  <2>4. \A i \in DOMAIN decisions', e \in Events :
           GateRecord(i, e)' <=> (GateRecord(i, e) \/ (i = n /\ e = cur))
    BY <2>1, <2>2 DEF GateRecord
  <2>5. \A i \in DOMAIN decisions : ~GateRecord(i, cur)
    BY <1>0, <2>2 DEF GateRecord
  <2>6. \A i \in DOMAIN decisions' : decisions'[i].outcome = "DECIDED_BACKLOG" =>
           \E j \in 1 .. i - 1 : /\ decisions'[j].event = decisions'[i].event
                                 /\ decisions'[j].outcome # "DECIDED_BACKLOG"
    <3> SUFFICES ASSUME NEW i \in DOMAIN decisions', decisions'[i].outcome = "DECIDED_BACKLOG"
                 PROVE  \E j \in 1 .. i - 1 : /\ decisions'[j].event = decisions'[i].event
                                              /\ decisions'[j].outcome # "DECIDED_BACKLOG"
      OBVIOUS
    <3>1. i \in DOMAIN decisions
      BY <2>1, <2>2
    <3>2. PICK j \in 1 .. i - 1 : /\ decisions[j].event = decisions[i].event
                                  /\ decisions[j].outcome # "DECIDED_BACKLOG"
      BY <2>1, <3>1 DEF ChainInOrder, BacklogComesAfterTheGate
    <3>3. j \in DOMAIN decisions
      BY <3>1 DEF TypeOK
    <3> QED BY <2>1, <3>1, <3>2, <3>3
  <2>7. \A e \in Events : OnRecordNext(e) => \E i \in DOMAIN decisions' : GateRecord(i, e)'
    BY <2>1, <2>2, <2>4 DEF ChainInOrder
  <2>8. \A e \in Events : \A i, j \in DOMAIN decisions' :
           GateRecord(i, e)' /\ GateRecord(j, e)' => i = j
    <3> SUFFICES ASSUME NEW e \in Events, NEW i \in DOMAIN decisions', NEW j \in DOMAIN decisions',
                        GateRecord(i, e)', GateRecord(j, e)'
                 PROVE  i = j
      OBVIOUS
    <3>1. /\ GateRecord(i, e) \/ (i = n /\ e = cur)
          /\ GateRecord(j, e) \/ (j = n /\ e = cur)
      BY <2>4
    <3>2. GateRecord(i, e) => i \in DOMAIN decisions
      BY DEF GateRecord
    <3>3. GateRecord(j, e) => j \in DOMAIN decisions
      BY DEF GateRecord
    <3> QED BY <2>5, <3>1, <3>2, <3>3 DEF ChainInOrder
  <2> QED BY <2>3, <2>6, <2>7, <2>8 DEF ChainInOrder, BacklogComesAfterTheGate, OnRecord, OnRecordNext
<1> QED BY <1>1, <1>2, <1>3, ChainStep

\* The ruling says whether there was a verdict in time, at every step.
LEMMA RulingTellsStep ==
    ASSUME TypeOK, LoopShape, VerdictIsEarned, RulingTells, [Next]_vars
    PROVE  RulingTells'
<1>1. mode' = mode /\ schedule' = schedule
  BY InputsRigid
<1>2. CASE DecideOnTime
  <2>1. ruling'.outcome = "DECIDED" /\ ruling'.decision = Decide(mode.policy, verdict)
        /\ verdict' = verdict /\ verdict # NoRisk /\ cur' = cur
    BY <1>2 DEF DecideOnTime, RuleByPolicy
  <2>2. PICK latency \in Latencies : ~PastDeadline(latency)
    BY <1>2 DEF DecideOnTime
  <2>3. ~Undecidable(cur)
    BY <1>2, <2>2, InTime DEF DecideOnTime, VerdictIsEarned, Undecidable
  <2> QED BY <1>1, <2>1, <2>3 DEF RulingTells, Undecidable, DelayOf
<1>3. CASE DecideWithout
  <2>1. /\ ruling'.outcome = (IF verdict # NoRisk THEN "LATE" ELSE "NO_DECISION")
        /\ ruling'.decision = FailModeDecision /\ verdict' = verdict
    BY <1>3 DEF DecideWithout, RuleByFailMode
  <2> QED BY <1>1, <2>1 DEF RulingTells, FailModeDecision
<1>4. CASE Enforce \/ RetryDouble \/ UNCHANGED vars
  <2>1. ruling' = ruling /\ verdict' = verdict /\ cur' = cur
        /\ (pc' \in {"enforce", "retry", "record"} => pc \in {"enforce", "retry", "record"})
    BY <1>4 DEF Enforce, RetryDouble, vars, loopVars
  <2> QED BY <1>1, <2>1 DEF RulingTells, FailModeDecision, Undecidable, DelayOf
<1>5. CASE ~(DecideOnTime \/ DecideWithout \/ Enforce \/ RetryDouble \/ UNCHANGED vars)
  <2>1. pc' \notin {"enforce", "retry", "record"}
    BY <1>5 DEF Next, MonitorActs, PublishLost, PublishSent, RefuseOnOutage,
         FailOpenOnOutage, OutageUnseen, ConsumeBatch, FindTarget, DrainBacklog, TargetMissing,
         EvaluateTarget, CrashAndRedeliver, RecordDecision, Flush, NextEvent, FirstPc, BatchRead
  <2> QED BY <2>1 DEF RulingTells
<1> QED BY <1>2, <1>3, <1>4, <1>5

\* A record more is a sound record.
LEMMA SoundStep ==
    ASSUME TypeOK, LoopShape, VerdictIsEarned, EdgeBehind, RulingTells, RecordsAreSound,
           [Next]_vars
    PROVE  RecordsAreSound'
<1>1. mode' = mode /\ scenario' = scenario /\ schedule' = schedule
  BY InputsRigid
<1>2. \A r : SoundRecord(r)' <=> SoundRecord(r)
  BY <1>1 DEF SoundRecord, Score, FailModeDecision, Undecidable, DelayOf
<1>3. decisions' = decisions \/ \E r : SoundRecord(r) /\ decisions' = Append(decisions, r)
  <2>1. CASE RefuseOnOutage
    <3> DEFINE r == [event |-> cur, risk |-> NoRisk, decision |-> FailModeDecision,
                     outcome |-> "REFUSED_TRANSPORT_DOWN", note |-> "outage", alt |-> NoRisk]
    <3>1. decisions' = Append(decisions, r)
      BY <2>1 DEF RefuseOnOutage, Record
    <3>2. SoundRecord(r)
      BY DEF SoundRecord
    <3> QED BY <3>1, <3>2
  <2>2. CASE RecordDecision
    <3> DEFINE r == [event |-> cur, risk |-> verdict, decision |-> ruling.decision,
                     outcome |-> ruling.outcome,
                     note |-> IF EnforcementFails THEN "enforcement_failed" ELSE "none",
                     alt |-> ruling.alt]
    <3>1. decisions' = Append(decisions, r) /\ pc = "record"
      BY <2>2 DEF RecordDecision, Record
    <3>2. SoundRecord(r)
      BY <3>1 DEF SoundRecord, RulingTells, VerdictIsEarned
    <3> QED BY <3>1, <3>2
  <2>3. CASE DrainBacklog
    <3> DEFINE e == stream[next]
    <3> DEFINE r == [event |-> e, risk |-> Score(e), decision |-> Decide(mode.policy, Score(e)),
                     outcome |-> "DECIDED_BACKLOG", note |-> "backlog", alt |-> NoRisk]
    <3>1. decisions' = decisions \/ (~mode.crashing /\ decisions' = Append(decisions, r))
      BY <2>3 DEF DrainBacklog, Record
    <3>2. ~mode.crashing => SoundRecord(r)
      BY ScoreIsSome DEF SoundRecord
    <3> QED BY <3>1, <3>2
  <2>4. CASE ~(RefuseOnOutage \/ RecordDecision \/ DrainBacklog)
    BY <2>4 DEF Next, vars, MonitorActs, PublishLost, PublishSent, OutageUnseen, ConsumeBatch,
       FailOpenOnOutage, FindTarget, TargetMissing, EvaluateTarget, CrashAndRedeliver,
       DecideOnTime, DecideWithout, Enforce, RetryDouble, Flush
  <2> QED BY <2>1, <2>2, <2>3, <2>4
<1>4. CASE decisions' = decisions
  BY <1>2, <1>4 DEF RecordsAreSound, SoundRecord, Score, FailModeDecision, Undecidable,
                    DelayOf
<1>5. ASSUME NEW r, SoundRecord(r), decisions' = Append(decisions, r) PROVE RecordsAreSound'
  <2>1. \A i \in DOMAIN decisions' : SoundRecord(decisions'[i])
    BY <1>5, ChainGrows DEF RecordsAreSound
  <2> QED BY <1>1, <2>1 DEF RecordsAreSound, SoundRecord, Score, FailModeDecision, Undecidable,
                    DelayOf
<1> QED BY <1>3, <1>4, <1>5

\* A call of the effector keeps the effect chain telling what was asked and what ran.
LEMMA ExecuteTells ==
    ASSUME TypeOK, EffectsTell, NEW e \in Events, NEW permitted \in BOOLEAN, NEW reported,
           Execute(e, permitted, reported), UNCHANGED mode
    PROVE  EffectsTell'
<1>0. effects \in Seq(EffectRecords) /\ \A d \in Events : asked[d] \in Nat /\ ran[d] \in Nat
  BY DEF TypeOK
<1>1. /\ asked'[e] = asked[e] + 1
      /\ Absorbs(e) => ran'[e] = ran[e]
      /\ ~Absorbs(e) /\ Executes(permitted, reported) => ran'[e] = ran[e] + 1
      /\ ~Executes(permitted, reported) => ran'[e] = ran[e]
      /\ \A d \in Events : d # e => asked'[d] = asked[d] /\ ran'[d] = ran[d]
  BY ExecuteCounts
<1>2. CASE Absorbs(e)
  <2>1. effects' = effects /\ asked[e] > 0
    BY <1>2 DEF Execute, Absorbs
  <2>2. \A d \in Events : (asked'[d] > 0 <=> asked[d] > 0) /\ ran'[d] = ran[d]
    BY <1>0, <1>1, <1>2, <2>1
  <2> QED BY <2>1, <2>2 DEF EffectsTell, Observed, Executed, EventsOf
<1>3. CASE ~Absorbs(e)
  <2> DEFINE runs == ran[e] + (IF Executes(permitted, reported) THEN 1 ELSE 0)
  <2> DEFINE r == [event |-> e, executed |-> Executes(permitted, reported),
                   deliveries |-> asked[e] + 1, executions |-> runs]
  <2> DEFINE n == Len(effects) + 1
  <2>1. effects' = Append(effects, r)
    BY <1>3 DEF Execute
  <2>2. r.event = e /\ r.executed = Executes(permitted, reported)
    OBVIOUS
  <2> HIDE DEF r
  <2>3. /\ n \in DOMAIN effects' /\ effects'[n] = r
        /\ \A i \in DOMAIN effects : i \in DOMAIN effects' /\ effects'[i] = effects[i]
        /\ \A i \in DOMAIN effects' : i \in DOMAIN effects \/ i = n
    BY <1>0, <2>1
  <2> HIDE DEF n
  <2>4. \A d \in Events : Observed(d)' <=> (Observed(d) \/ d = e)
    BY <2>2, <2>3 DEF Observed, EventsOf
  <2>5. \A d \in Events :
           Executed(d)' <=> (Executed(d) \/ (d = e /\ Executes(permitted, reported)))
    BY <2>2, <2>3 DEF Executed
  <2>6. \A d \in Events : asked'[d] > 0 <=> (asked[d] > 0 \/ d = e)
    BY <1>0, <1>1
  <2>7. \A d \in Events :
           ran'[d] > 0 <=> (ran[d] > 0 \/ (d = e /\ Executes(permitted, reported)))
    BY <1>0, <1>1, <1>3
  <2>8. \A d \in Events : (Observed(d)' <=> asked'[d] > 0) /\ (Executed(d)' <=> ran'[d] > 0)
    BY <2>4, <2>5, <2>6, <2>7 DEF EffectsTell
  <2>9. mode.idempotent => \A i, j \in DOMAIN effects' :
           effects'[i].event = effects'[j].event => i = j
    <3> SUFFICES ASSUME mode.idempotent, NEW i \in DOMAIN effects', NEW j \in DOMAIN effects',
                        effects'[i].event = effects'[j].event
                 PROVE  i = j
      OBVIOUS
    <3>1. asked[e] = 0
      BY <1>0, <1>3 DEF Absorbs
    <3>2. \A k \in DOMAIN effects : effects[k].event # e
      BY <3>1 DEF EffectsTell, Observed, EventsOf
    <3>3. \A k \in DOMAIN effects' : k = n \/ (k \in DOMAIN effects /\ effects'[k] = effects[k])
      BY <2>3
    <3> QED BY <2>2, <2>3, <3>2, <3>3 DEF EffectsTell
  <2> QED BY <2>8, <2>9 DEF EffectsTell
<1> QED BY <1>2, <1>3

\* The effect chain tells what was asked and what ran, at every step.
LEMMA TellsStep ==
    ASSUME TypeOK, EffectsTell, LoopShape, [Next]_vars
    PROVE  EffectsTell'
<1>1. CASE MonitorActs \/ FailOpenOnOutage \/ Enforce \/ RetryDouble
  <2>1. ruling.permitted \in BOOLEAN /\ cur \in Events
    BY <1>1 DEF TypeOK, Rulings, LoopShape, MonitorActs, FailOpenOnOutage, Enforce, RetryDouble
  <2>2. mode' = mode /\ \E permitted \in BOOLEAN : \E reported : Execute(cur, permitted, reported)
    BY <1>1, InputsRigid, <2>1 DEF MonitorActs, FailOpenOnOutage, Enforce, RetryDouble, EnforcementFails
  <2> QED BY <2>1, <2>2, ExecuteTells
<1>2. CASE ~(MonitorActs \/ FailOpenOnOutage \/ Enforce \/ RetryDouble)
  <2>1. UNCHANGED <<asked, ran, effects>>
    BY <1>2 DEF Next, vars, effectVars, PublishLost, PublishSent, RefuseOnOutage, OutageUnseen,
       ConsumeBatch, FindTarget, DrainBacklog, TargetMissing, EvaluateTarget, CrashAndRedeliver,
       DecideOnTime, DecideWithout, RecordDecision, Flush
  <2> QED BY <2>1, InputsRigid DEF EffectsTell, Observed, Executed, EventsOf
<1> QED BY <1>1, <1>2

\* Gate records are kept, and a step adds none but on the event the loop is at.
LEMMA GateRecordsKept ==
    ASSUME TypeOK, LoopShape, EdgeBehind, RulingTells, ChainInOrder, [Next]_vars,
           NEW e \in Events, NEW i, GateRecord(i, e)', e # cur \/ OnRecord(e)
    PROVE  GateRecord(i, e) /\ decisions'[i] = decisions[i]
<1>1. CASE ChainUnchanged
  BY <1>1 DEF ChainUnchanged, GateRecord
<1>2. ASSUME NEW r, DrainRecords(r) \/ GateRecords(r)
      PROVE  GateRecord(i, e) /\ decisions'[i] = decisions[i]
  <2>1. decisions' = Append(decisions, r)
    BY <1>2 DEF DrainRecords, GateRecords
  <2>2. /\ decisions'[Len(decisions) + 1] = r
        /\ \A j \in DOMAIN decisions : decisions'[j] = decisions[j]
        /\ \A j \in DOMAIN decisions' : j \in DOMAIN decisions \/ j = Len(decisions) + 1
    BY <2>1, ChainGrows
  <2>3. ~(r.event = e /\ r.outcome # "DECIDED_BACKLOG")
    BY <1>2 DEF DrainRecords, GateRecords
  <2>4. i \in DOMAIN decisions
    BY <2>2, <2>3 DEF GateRecord
  <2> QED BY <2>2, <2>4 DEF GateRecord
<1> QED BY <1>1, <1>2, ChainStep

\* The gate's record on the event at hand is new, and is what the ruling says.
LEMMA GateRecordAdded ==
    ASSUME TypeOK, LoopShape, ChainInOrder, RefuseOnOutage \/ RecordDecision,
           NEW e \in Events, e = cur, NEW i, GateRecord(i, e)'
    PROVE  decisions'[i].decision = IF pc = "record" THEN ruling.decision ELSE FailModeDecision
<1> USE DEF inputVars, brokerVars, labVars, effectVars, loopVars
<1>0. cur \in Int /\ cur \in Events
  BY NAssumption DEF TypeOK, Events, LoopShape, RefuseOnOutage, RecordDecision
<1>1. ~OnRecord(cur)
  BY <1>0 DEF OnRecord, RefuseOnOutage, RecordDecision
<1>2. \A j \in DOMAIN decisions : decisions[j].event # cur
  BY <1>0, <1>1 DEF ChainInOrder
<1>3. \E risk, outcome, note, alt :
         Record(cur, risk, IF pc = "record" THEN ruling.decision ELSE FailModeDecision,
                outcome, note, alt)
  BY DEF RefuseOnOutage, RecordDecision
<1>4. PICK risk, outcome, note, alt :
         Record(cur, risk, IF pc = "record" THEN ruling.decision ELSE FailModeDecision,
                outcome, note, alt)
  BY <1>3
<1> DEFINE r == [event |-> cur, risk |-> risk,
                 decision |-> IF pc = "record" THEN ruling.decision ELSE FailModeDecision,
                 outcome |-> outcome, note |-> note, alt |-> alt]
<1>5. decisions' = Append(decisions, r)
  BY <1>4 DEF Record
<1>6. r.decision = IF pc = "record" THEN ruling.decision ELSE FailModeDecision
  OBVIOUS
<1> HIDE DEF r
<1>7. i \in DOMAIN decisions' /\ decisions'[i].event = cur
  BY DEF GateRecord
<1>8. i = Len(decisions) + 1 /\ decisions'[i] = r
  BY <1>2, <1>5, <1>7, ChainGrows
<1> QED BY <1>6, <1>8

\* The monitor runs every event once, at every step.
LEMMA MonitorRanStep ==
    ASSUME TypeOK, LoopShape, AskedInTurn, MonitorRan, [Next]_vars
    PROVE  MonitorRan'
<1>0. mode' = mode
  BY InputsRigid
<1>1. CASE InSeries
  BY <1>0, <1>1 DEF MonitorRan, InSeries
<1>2. CASE ~InSeries /\ MonitorActs
  <2>1. cur \in Events /\ Unasked(cur) /\ cur' = cur /\ Execute(cur, TRUE, "(none yet)")
    BY <1>2 DEF MonitorActs, LoopShape, Unasked, BeforeEffector
  <2>2. asked[cur] = 0 /\ ran[cur] = 0
    <3>1. asked[cur] = 0 /\ ran[cur] <= asked[cur]
      BY <2>1 DEF AskedInTurn
    <3>2. ran[cur] \in Nat
      BY <2>1 DEF TypeOK
    <3> QED BY <3>1, <3>2
  <2>3. ~Absorbs(cur) /\ Executes(TRUE, "(none yet)")
    BY <2>2 DEF Absorbs, Executes
  <2>4. ran'[cur] = 1 /\ \A e \in Events : e # cur => ran'[e] = ran[e]
    <3>1. /\ ran'[cur] = ran[cur] + 1
          /\ \A e \in Events : e # cur => ran'[e] = ran[e]
      BY <2>1, <2>3, ExecuteCounts
    <3> QED BY <2>2, <3>1
  <2>5. \A e \in Events : e # cur => (Unasked(e)' <=> Unasked(e))
    BY <1>0, <2>1 DEF Unasked, BeforeEffector
  <2> QED BY <1>2, <2>4, <2>5 DEF MonitorRan
<1>3. CASE ~InSeries /\ ~MonitorActs
  <2>1. ~(FailOpenOnOutage \/ Enforce \/ RetryDouble)
    BY <1>3 DEF LoopShape, FailOpenOnOutage, Enforce, RetryDouble
  <2>2. ran' = ran
    BY <1>3, <2>1, QuietStep
  <2>3. BeforeEffector = {"act", "failopen", "enforce"} /\ BeforeEffector' = BeforeEffector
    BY <1>0, <1>3 DEF BeforeEffector, InSeries
  <2>4. \/ cur' = cur /\ (pc' \notin BeforeEffector => pc \notin BeforeEffector)
        \/ /\ cur' = cur + 1 /\ cur \in Events /\ pc \notin BeforeEffector
           /\ pc' \in BeforeEffector \/ cur = N
    <3>1. CASE RecordDecision
      BY <1>3, <2>3, <3>1 DEF RecordDecision, NextEvent, FirstPc, LoopShape
    <3>2. CASE ~RecordDecision
      BY <1>3, <2>1, <2>3, <3>2 DEF Next, vars, PublishLost, PublishSent, RefuseOnOutage,
         OutageUnseen, ConsumeBatch, FindTarget, DrainBacklog, TargetMissing, EvaluateTarget,
         CrashAndRedeliver, DecideOnTime, DecideWithout, AfterDecision, Flush, BatchRead
    <3> QED BY <3>1, <3>2
  <2>5. cur \in Int /\ N \in Int /\ \A e \in Events : e \in Int /\ e <= N
    BY NAssumption DEF TypeOK, Events
  <2>6. \A e \in Events : ~Unasked(e)' => ~Unasked(e)
    BY <2>3, <2>4, <2>5 DEF Unasked
  <2> QED BY <1>0, <1>3, <2>2, <2>6 DEF MonitorRan, InSeries
<1> QED BY <1>1, <1>2, <1>3

\* An outage is settled before the body of the loop goes on, at every step.
LEMMA OutageStep ==
    ASSUME TypeOK, LoopShape, EdgeBehind, RulingTells, ChainInOrder, OutageIsSettled, [Next]_vars
    PROVE  OutageIsSettled'
<1> USE DEF inputVars, loopVars
<1>0. mode' = mode /\ schedule' = schedule
  BY InputsRigid
<1>1. CASE RefuseOnOutage /\ ~mode.failClosed
  <2>1. cur \in Events /\ cur' = cur /\ pc = "publish" /\ pc' = "failopen"
        /\ schedule[cur] = "transport_outage"
    BY <1>1 DEF RefuseOnOutage, LoopShape, Outage
  <2>2. \A e \in Events : e = cur =>
           \A i : GateRecord(i, e)' => decisions'[i].decision = "ALLOW"
    BY <1>1, <2>1, GateRecordAdded DEF FailModeDecision
  <2> QED BY <1>0, <2>1, <2>2 DEF OutageIsSettled
<1>2. CASE UNCHANGED vars
  BY <1>2 DEF vars, OutageIsSettled, GateRecord, InSeries
<1>3. CASE ~(RefuseOnOutage /\ ~mode.failClosed) /\ ~UNCHANGED vars
  <2>1. pc' # "failopen"
    BY <1>3 DEF Next, MonitorActs, PublishLost, PublishSent, RefuseOnOutage, FailOpenOnOutage,
       OutageUnseen, ConsumeBatch, FindTarget, DrainBacklog, TargetMissing, EvaluateTarget,
       CrashAndRedeliver, DecideOnTime, DecideWithout, AfterDecision, Enforce, RetryDouble,
       RecordDecision, Flush, NextEvent, FirstPc, BatchRead
  <2>2. InSeries /\ pc' \in {"consume", "drain", "decide", "enforce", "retry", "record"} =>
           /\ cur' = cur
           /\ \/ pc \in {"consume", "drain", "decide", "enforce", "retry", "record"}
              \/ schedule[cur] # "transport_outage"
    BY <1>3 DEF Next, MonitorActs, PublishLost, PublishSent, Drop, Hold, Send, RefuseOnOutage,
       FailOpenOnOutage, OutageUnseen, ConsumeBatch, FindTarget, DrainBacklog, TargetMissing,
       EvaluateTarget, CrashAndRedeliver, DecideOnTime, DecideWithout, AfterDecision, Enforce,
       RetryDouble, RecordDecision, Flush, NextEvent, FirstPc, BatchRead, LoopShape
  <2> QED BY <1>0, <2>1, <2>2 DEF OutageIsSettled, InSeries
<1> QED BY <1>1, <1>2, <1>3

\* In series, what the effector makes of a request is what the ruling calls for.
LEMMA ExecutesByRuling ==
    ASSUME TypeOK, RulingIsSound, pc \in {"enforce", "retry"}
    PROVE  /\ Executes(ruling.permitted \/ EnforcementFails, ruling.decision)
              <=> RunsBy(cur, ruling.decision)
           /\ schedule[cur] = "retry_double" =>
                (Executes(ruling.permitted, ruling.decision) <=> RunsBy(cur, ruling.decision))
<1>1. ruling.permitted = (ruling.decision # "BLOCK")
  BY DEF RulingIsSound
<1>2. ruling.permitted \in BOOLEAN /\ mode.singleWriter \in BOOLEAN
  BY ModeType DEF TypeOK, Rulings
<1>3. CASE mode.singleWriter
  BY <1>3 DEF Executes, RunsBy, TwoWriters
<1>4. CASE ~mode.singleWriter
  <2>1. Executes(ruling.permitted \/ EnforcementFails, ruling.decision)
        <=> (ruling.decision # "BLOCK" \/ schedule[cur] = "enforcement_fail")
    BY <1>1, <1>4 DEF Executes, EnforcementFails, Fault
  <2>2. Executes(ruling.permitted, ruling.decision) <=> ruling.decision # "BLOCK"
    BY <1>1, <1>4 DEF Executes
  <2>3. RunsBy(cur, ruling.decision)
        <=> (ruling.decision # "BLOCK" \/ schedule[cur] = "enforcement_fail")
    BY <1>4 DEF RunsBy, TwoWriters
  <2> QED BY <2>1, <2>2, <2>3
<1> QED BY <1>2, <1>3, <1>4

\* What ran of the event at hand is what its ruling calls for, at every step.
LEMMA CurrentStep ==
    ASSUME TypeOK, LoopShape, RulingIsSound, AskedInTurn, CurrentRan, [Next]_vars
    PROVE  CurrentRan'
<1>0. mode' = mode /\ schedule' = schedule
  BY InputsRigid
<1>1. CASE Enforce
  <2>1. /\ cur \in Events /\ Unasked(cur) /\ cur' = cur /\ ruling' = ruling /\ pc = "enforce"
        /\ Execute(cur, ruling.permitted \/ EnforcementFails, ruling.decision)
        /\ pc' = "record" => schedule[cur] # "retry_double"
    BY <1>1 DEF Enforce, LoopShape, Unasked, BeforeEffector, loopVars, Fault
  <2>2. asked[cur] = 0 /\ ran[cur] = 0
    <3>1. asked[cur] = 0 /\ ran[cur] <= asked[cur]
      BY <2>1 DEF AskedInTurn
    <3>2. ran[cur] \in Nat
      BY <2>1 DEF TypeOK
    <3> QED BY <3>1, <3>2
  <2>3. ~Absorbs(cur)
    BY <2>2 DEF Absorbs
  <2>4. asked'[cur] = 1 /\ ran'[cur] = IF RunsBy(cur, ruling.decision) THEN 1 ELSE 0
    <3>1. /\ asked'[cur] = asked[cur] + 1
          /\ Executes(ruling.permitted \/ EnforcementFails, ruling.decision) =>
                ran'[cur] = ran[cur] + 1
          /\ ~Executes(ruling.permitted \/ EnforcementFails, ruling.decision) =>
                ran'[cur] = ran[cur]
      BY <2>1, <2>3, ExecuteCounts
    <3>2. Executes(ruling.permitted \/ EnforcementFails, ruling.decision)
          <=> RunsBy(cur, ruling.decision)
      BY <2>1, ExecutesByRuling
    <3> QED BY <2>2, <3>1, <3>2
  <2> QED BY <1>0, <2>1, <2>4 DEF CurrentRan, RunsBy, RanTwice, TwoWriters
<1>2. CASE RetryDouble
  <2>1. /\ cur \in Events /\ InSeries /\ cur' = cur /\ ruling' = ruling /\ pc = "retry"
        /\ Execute(cur, ruling.permitted, ruling.decision)
        /\ pc' = "record" /\ schedule[cur] = "retry_double"
    BY <1>2 DEF RetryDouble, LoopShape, loopVars
  <2>2. asked[cur] = 1 /\ ran[cur] = IF RunsBy(cur, ruling.decision) THEN 1 ELSE 0
    <3>1. /\ asked[cur] = 1 /\ ran[cur] <= asked[cur]
          /\ ran[cur] > 0 <=> RunsBy(cur, ruling.decision)
      BY <2>1 DEF AskedInTurn, CurrentRan
    <3>2. ran[cur] \in Nat
      BY <2>1 DEF TypeOK
    <3> QED BY <3>1, <3>2
  <2>3. Absorbs(cur) <=> mode.idempotent
    BY <2>2 DEF Absorbs
  <2>4. /\ asked'[cur] = 2
        /\ mode.idempotent => ran'[cur] = ran[cur]
        /\ ~mode.idempotent => ran'[cur] = IF RunsBy(cur, ruling.decision) THEN 2 ELSE 0
    <3>1. /\ asked'[cur] = asked[cur] + 1
          /\ Absorbs(cur) => ran'[cur] = ran[cur]
          /\ ~Absorbs(cur) /\ Executes(ruling.permitted, ruling.decision) =>
                ran'[cur] = ran[cur] + 1
          /\ ~Executes(ruling.permitted, ruling.decision) => ran'[cur] = ran[cur]
      BY <2>1, ExecuteCounts
    <3>2. Executes(ruling.permitted, ruling.decision) <=> RunsBy(cur, ruling.decision)
      BY <2>1, ExecutesByRuling
    <3> QED BY <2>2, <2>3, <3>1, <3>2
  <2>5. mode.idempotent \in BOOLEAN
    BY ModeType DEF TypeOK
  <2> QED BY <1>0, <2>1, <2>2, <2>4, <2>5 DEF CurrentRan, RunsBy, RanTwice, TwoWriters
<1>3. CASE UNCHANGED vars
  BY <1>3 DEF vars, inputVars, effectVars, loopVars, CurrentRan, RunsBy, RanTwice, TwoWriters,
              InSeries
<1>4. CASE ~(Enforce \/ RetryDouble \/ UNCHANGED vars)
  <2>1. ~(InSeries /\ pc' \in {"retry", "record"})
    BY <1>4 DEF Next, MonitorActs, PublishLost, PublishSent, RefuseOnOutage, FailOpenOnOutage,
       OutageUnseen, ConsumeBatch, FindTarget, DrainBacklog, TargetMissing, EvaluateTarget,
       CrashAndRedeliver, DecideOnTime, DecideWithout, AfterDecision, RecordDecision, Flush,
       NextEvent, FirstPc, BatchRead
  <2> QED BY <1>0, <2>1 DEF CurrentRan, InSeries
<1> QED BY <1>1, <1>2, <1>3, <1>4

\* What an event left behind came to does not change any more.
LEMMA LeftKept ==
    ASSUME TypeOK, LoopShape, EdgeBehind, RulingTells, ChainInOrder, AskedInTurn, LeftRan,
           [Next]_vars, InSeries, NEW e \in Events, e < cur
    PROVE  /\ asked'[e] = 0 <=> RefusedOutage(e)
           /\ ran'[e] > 1 <=> (~mode.idempotent /\ schedule[e] = "retry_double" /\ ran'[e] > 0)
           /\ \A i : GateRecord(i, e)' => (ran'[e] > 0 <=> RunsBy(e, decisions'[i].decision))
<1>0. cur \in Int /\ e \in Int
  BY NAssumption DEF TypeOK, Events
<1>1. asked'[e] = asked[e] /\ ran'[e] = ran[e]
  <2>1. CASE MonitorActs \/ FailOpenOnOutage \/ Enforce \/ RetryDouble
    <3>1. cur \in Events /\ \E permitted, reported : Execute(cur, permitted, reported)
      BY <2>1 DEF MonitorActs, FailOpenOnOutage, Enforce, RetryDouble, LoopShape
    <3>2. e # cur
      BY <1>0
    <3> QED BY <3>1, <3>2, ExecuteCounts
  <2>2. CASE ~(MonitorActs \/ FailOpenOnOutage \/ Enforce \/ RetryDouble)
    BY <2>2, QuietStep
  <2> QED BY <2>1, <2>2
<1>2. OnRecord(e)
  BY DEF OnRecord
<1>3. \A i : GateRecord(i, e)' => GateRecord(i, e) /\ decisions'[i] = decisions[i]
  BY <1>2, GateRecordsKept
<1>4. /\ asked[e] = 0 <=> RefusedOutage(e)
      /\ ran[e] > 1 <=> RanTwice(e)
      /\ \A i \in DOMAIN decisions : GateRecord(i, e) =>
              (ran[e] > 0 <=> RunsBy(e, decisions[i].decision))
  BY DEF LeftRan
<1>5. \A i : GateRecord(i, e) => i \in DOMAIN decisions
  BY DEF GateRecord
<1> QED BY <1>1, <1>3, <1>4, <1>5 DEF RanTwice

\* What the event at hand has come to when the loop leaves it.
LEMMA LeavesAsRuled ==
    ASSUME TypeOK, LoopShape, EdgeBehind, RulingTells, RulingIsSound, ChainInOrder, AskedInTurn,
           OutageIsSettled, CurrentRan, [Next]_vars, InSeries,
           NEW e \in Events, e = cur, cur' # cur
    PROVE  /\ asked'[e] = 0 <=> RefusedOutage(e)
           /\ ran'[e] > 1 <=> (~mode.idempotent /\ schedule[e] = "retry_double" /\ ran'[e] > 0)
           /\ \A i : GateRecord(i, e)' => (ran'[e] > 0 <=> RunsBy(e, decisions'[i].decision))
<1> USE DEF inputVars, effectVars, loopVars
<1>0. asked[e] \in Nat /\ ran[e] \in Nat /\ cur \in Int /\ ran[e] <= asked[e]
  BY NAssumption DEF TypeOK, Events, AskedInTurn
<1>1. RefuseOnOutage \/ FailOpenOnOutage \/ RecordDecision
  BY DEF Next, vars, MonitorActs, PublishLost, PublishSent, OutageUnseen, ConsumeBatch,
     FindTarget, DrainBacklog, TargetMissing, EvaluateTarget, CrashAndRedeliver, DecideOnTime,
     DecideWithout, Enforce, RetryDouble, Flush
<1>2. CASE RefuseOnOutage
  <2>1. /\ mode.failClosed /\ schedule[e] = "transport_outage" /\ Unasked(e) /\ pc = "publish"
        /\ asked' = asked /\ ran' = ran
    BY <1>2 DEF RefuseOnOutage, Outage, Unasked, BeforeEffector
  <2>2. asked[e] = 0 /\ ran[e] = 0
    BY <1>0, <2>1 DEF AskedInTurn
  <2>3. \A i : GateRecord(i, e)' => decisions'[i].decision = "BLOCK"
    BY <1>2, <2>1, GateRecordAdded DEF FailModeDecision
  <2> QED BY <2>1, <2>2, <2>3 DEF RefusedOutage, RunsBy
<1>3. CASE FailOpenOnOutage
  <2>1. /\ Unasked(e) /\ pc = "failopen" /\ Execute(e, TRUE, "ALLOW")
        /\ schedule[e] = "transport_outage" /\ ~mode.failClosed /\ OnRecord(e)
    BY <1>3 DEF FailOpenOnOutage, Unasked, BeforeEffector, OutageIsSettled, LoopShape, OnRecord
  <2>2. asked[e] = 0 /\ ran[e] = 0
    BY <1>0, <2>1 DEF AskedInTurn
  <2>3. ~Absorbs(e) /\ Executes(TRUE, "ALLOW")
    BY <2>2 DEF Absorbs, Executes
  <2>4. asked'[e] = asked[e] + 1 /\ ran'[e] = ran[e] + 1
    BY <2>1, <2>3, ExecuteCounts
  <2>5. \A i : GateRecord(i, e)' => GateRecord(i, e) /\ decisions'[i] = decisions[i]
    BY <2>1, GateRecordsKept
  <2>6. \A i : GateRecord(i, e) => decisions[i].decision = "ALLOW"
    BY <2>1 DEF OutageIsSettled, GateRecord
  <2>7. \A i : GateRecord(i, e)' => RunsBy(e, decisions'[i].decision)
    BY <2>5, <2>6 DEF RunsBy
  <2> QED BY <2>1, <2>2, <2>4, <2>7 DEF RefusedOutage
<1>4. CASE RecordDecision
  <2>1. pc = "record" /\ asked' = asked /\ ran' = ran
    BY <1>4 DEF RecordDecision
  <2>2. /\ asked[e] > 0 /\ schedule[e] # "transport_outage"
        /\ ran[e] > 0 <=> RunsBy(e, ruling.decision)
        /\ ran[e] > 1 <=> RanTwice(e)
    BY <2>1 DEF CurrentRan, OutageIsSettled
  <2>3. \A i : GateRecord(i, e)' => decisions'[i].decision = ruling.decision
    BY <1>4, <2>1, GateRecordAdded
  <2> QED BY <1>0, <2>1, <2>2, <2>3 DEF RefusedOutage, RanTwice
<1> QED BY <1>1, <1>2, <1>3, <1>4

\* What ran is what the gate recorded, at every step.
LEMMA LeftStep ==
    ASSUME TypeOK, LoopShape, EdgeBehind, RulingTells, RulingIsSound, ChainInOrder, AskedInTurn,
           OutageIsSettled, CurrentRan, LeftRan, [Next]_vars
    PROVE  LeftRan'
<1>0. mode' = mode /\ schedule' = schedule
  BY InputsRigid
<1>1. cur' = cur \/ cur' = cur + 1
  BY DEF Next, vars, loopVars, MonitorActs, PublishLost, PublishSent, RefuseOnOutage,
     FailOpenOnOutage, OutageUnseen, ConsumeBatch, FindTarget, DrainBacklog, TargetMissing,
     EvaluateTarget, CrashAndRedeliver, DecideOnTime, DecideWithout, Enforce, RetryDouble,
     RecordDecision, Flush, NextEvent
<1>2. cur \in Int /\ \A e \in Events : e \in Int
  BY NAssumption DEF TypeOK, Events
<1>3. ASSUME InSeries, NEW e \in Events, e < cur'
      PROVE  /\ asked'[e] = 0 <=> RefusedOutage(e)
             /\ ran'[e] > 1 <=> (~mode.idempotent /\ schedule[e] = "retry_double" /\ ran'[e] > 0)
             /\ \A i : GateRecord(i, e)' => (ran'[e] > 0 <=> RunsBy(e, decisions'[i].decision))
  <2>1. CASE e < cur
    BY <1>3, <2>1, LeftKept
  <2>2. CASE ~(e < cur)
    <3>1. e = cur /\ cur' # cur
      BY <1>1, <1>2, <1>3, <2>2
    <3> QED BY <1>3, <3>1, LeavesAsRuled
  <2> QED BY <2>1, <2>2
<1> QED BY <1>0, <1>3 DEF LeftRan, InSeries, RefusedOutage, RanTwice, RunsBy, TwoWriters, GateRecord

\* The chain invariant holds at the start.
LEMMA ChainInit == Init => ChainInvariant
<1> SUFFICES ASSUME Init PROVE ChainInvariant
  OBVIOUS
<1>1. /\ stream = <<>> /\ held = <<>> /\ decisions = <<>> /\ effects = <<>>
      /\ cur = 1 /\ pc \in {"act", "publish"} /\ (InSeries => pc = "publish")
      /\ (~InSeries => pc = "act")
      /\ \A e \in Events : asked[e] = 0 /\ ran[e] = 0
  BY DEF Init, FreshRun, FirstPc, BrokerInit, LabInit, EffectorInit
<1>2. \A e \in Events : e \in Int /\ e >= 1
  BY NAssumption DEF Events
<1>3. \A e \in Events : ~OnRecord(e) /\ ~(e < cur)
  BY <1>1, <1>2 DEF OnRecord
<1>4. EdgeBehind /\ ChainInOrder /\ RulingTells /\ RecordsAreSound
  BY <1>1, <1>3 DEF EdgeBehind, ChainInOrder, RulingTells, RecordsAreSound, BacklogComesAfterTheGate
<1>5. EffectsTell
  BY <1>1 DEF EffectsTell, Observed, Executed, EventsOf
<1>6. \A e \in Events : Unasked(e)
  <2>1. pc \in BeforeEffector
    BY <1>1 DEF BeforeEffector
  <2>2. \A e \in Events : e > cur \/ e = cur
    BY <1>1, <1>2
  <2> QED BY <2>1, <2>2 DEF Unasked
<1>7. RanAsRuled
  BY <1>1, <1>3, <1>6 DEF RanAsRuled, MonitorRan, OutageIsSettled, CurrentRan, LeftRan
<1> QED BY <1>4, <1>5, <1>7 DEF ChainInvariant

\* The chain invariant is kept by every step.
LEMMA ChainInvariantStep ==
    ASSUME TypeOK, GateInvariant, ChainInvariant, [Next]_vars
    PROVE  ChainInvariant'
<1> USE DEF GateInvariant, ChainInvariant, RanAsRuled
<1>1. EdgeBehind' /\ ChainInOrder' /\ RulingTells' /\ RecordsAreSound' /\ EffectsTell'
  BY EdgeStep, OrderStep, RulingTellsStep, SoundStep, TellsStep
<1>2. MonitorRan' /\ OutageIsSettled' /\ CurrentRan' /\ LeftRan'
  BY MonitorRanStep, OutageStep, CurrentStep, LeftStep
<1> QED BY <1>1, <1>2

(* At every point of every run the chains tell what happened: each event    *)
(* the loop has left has one record of the gate, which what ran of it       *)
(* follows; a drain's record comes later and says what the policy says.     *)
THEOREM ChainsTell == Spec => [](TypeOK /\ GateInvariant /\ ChainInvariant)
<1>1. Init => ChainInvariant
  BY ChainInit
<1>2. TypeOK /\ GateInvariant /\ ChainInvariant /\ [Next]_vars => ChainInvariant'
  BY ChainInvariantStep
<1> QED BY <1>1, <1>2, GateHolds, PTL DEF Spec

----------------------------------------------------------------------------
(* What follows for the reports.                                            *)

(* No backlog decision comes before the gate's own (arms.py 207-210).       *)
THEOREM GateDecidesFirst == Spec => []BacklogComesAfterTheGate
<1>1. ChainInvariant => BacklogComesAfterTheGate
  BY DEF ChainInvariant, ChainInOrder
<1> QED BY <1>1, ChainsTell, PTL

\* The final record of an event that has one is the latest on it.
LEMMA FinalIsLatest ==
    ASSUME TypeOK, NEW e, NEW i, IsLatest(i, e)
    PROVE  Final(e) = decisions[i] /\ Judged(e)
<1>1. \A j : IsLatest(j, e) => j = i
  <2> SUFFICES ASSUME NEW j, IsLatest(j, e) PROVE j = i
    OBVIOUS
  <2>1. i \in Nat /\ j \in Nat /\ i <= j /\ j <= i
    BY DEF IsLatest, TypeOK
  <2> QED BY <2>1
<1>2. \E k : k \in DOMAIN decisions /\ IsLatest(k, e)
  BY DEF IsLatest
<1>3. (CHOOSE k \in DOMAIN decisions : IsLatest(k, e)) = i
  BY <1>1, <1>2 DEF IsLatest
<1> QED BY <1>3 DEF Final, Judged, EventsOf, IsLatest

\* A non-empty set of numbers up to a bound has a largest.
LEMMA LargestExists ==
    ASSUME NEW n \in Nat, NEW S, S \subseteq 1..n, S # {}
    PROVE  \E i \in S : \A j \in S : j <= i
<1> DEFINE T == {n - i : i \in S}
<1>0. \A i \in S : i \in Nat /\ n - i \in Nat
  OBVIOUS
<1>1. T \subseteq Nat /\ T # {}
  BY <1>0
<1> DEFINE R == OpToRel(<, Nat)
<1>2. \A x, y \in Nat : <<y, x>> \in R <=> y < x
  BY DEF OpToRel
<1>3. IsWellFoundedOn(R, Nat)
  BY NatLessThanWellFounded
<1> HIDE DEF R
<1>4. \E x \in T : \A y \in T : ~(<<y, x>> \in R)
  <2> HIDE DEF T
  <2> QED BY <1>1, <1>3, WFMin
<1>5. PICK i \in S : \A j \in S : ~(<<n - j, n - i>> \in R)
  BY <1>4
<1>6. \A j \in S : ~(n - j < n - i)
  BY <1>0, <1>2, <1>5
<1> QED BY <1>0, <1>6

\* An event that was judged has a latest record.
LEMMA LatestExists ==
    ASSUME TypeOK, NEW e, Judged(e)
    PROVE  \E i \in DOMAIN decisions : IsLatest(i, e)
<1> DEFINE S == {i \in DOMAIN decisions : decisions[i].event = e}
<1>1. S \subseteq 1..Len(decisions) /\ S # {} /\ Len(decisions) \in Nat
  BY DEF TypeOK, Judged, EventsOf
<1>2. \E i \in S : \A j \in S : j <= i
  BY <1>1, LargestExists
<1> QED BY <1>2 DEF IsLatest

\* Its final record is that one, and is its own.
LEMMA FinalRecord ==
    ASSUME TypeOK, NEW e, Judged(e)
    PROVE  \E i \in DOMAIN decisions : Final(e) = decisions[i] /\ decisions[i].event = e
  BY LatestExists, FinalIsLatest DEF IsLatest

\* An event the loop has left was judged, and its final record is the gate's or a drain's.
LEMMA LeftIsJudged ==
    ASSUME TypeOK, ChainInvariant, NEW e \in Events, e < cur
    PROVE  /\ Judged(e)
           /\ \E i \in DOMAIN decisions : GateRecord(i, e)
           /\ \E i \in DOMAIN decisions :
                 Final(e) = decisions[i] /\ decisions[i].event = e /\ SoundRecord(decisions[i])
<1>1. \E i \in DOMAIN decisions : GateRecord(i, e)
  BY DEF OnRecord, ChainInvariant, ChainInOrder
<1>2. Judged(e)
  BY <1>1 DEF GateRecord, Judged, EventsOf
<1> QED BY <1>1, <1>2, FinalRecord DEF ChainInvariant, RecordsAreSound

(* At most the event the loop is at has run without a decision on record,   *)
(* so the reconstruction says "unknown" of no other (reconstruct.py 73-77). *)
THEOREM OnlyCurrentIsUndecided == Spec => []OnlyCurrentUndecided
<1>1. TypeOK /\ GateInvariant /\ ChainInvariant => OnlyCurrentUndecided
  <2> SUFFICES ASSUME TypeOK, GateInvariant, ChainInvariant, NEW e \in Events,
                      Cause(e) = "unknown", Executed(e), e # cur
               PROVE  FALSE
    BY DEF OnlyCurrentUndecided
  <2>1. e \in Int /\ cur \in Int /\ asked[e] \in Nat /\ ran[e] \in Nat
    BY NAssumption DEF TypeOK, Events
  <2>2. ran[e] > 0 /\ ran[e] <= asked[e] /\ (Unasked(e) => asked[e] = 0)
    BY DEF ChainInvariant, EffectsTell, GateInvariant, AskedInTurn
  <2>3. e < cur
    BY <2>1, <2>2 DEF Unasked
  <2>4. PICK i \in DOMAIN decisions :
           Final(e) = decisions[i] /\ decisions[i].event = e /\ SoundRecord(decisions[i])
    BY <2>3, LeftIsJudged
  <2>5. Judged(e)
    BY <2>3, LeftIsJudged
  <2>6. /\ InSeries /\ decisions[i].risk = NoRisk
        /\ decisions[i].outcome \notin {"NO_DECISION", "LATE", "REFUSED_TRANSPORT_DOWN"}
    BY <2>4, <2>5 DEF Cause
  <2> QED BY <2>4, <2>6 DEF SoundRecord
<1> QED BY <1>1, ChainsTell, PTL

(* When a run ends the chains join on every event but the outages that a    *)
(* gate that fails closed refused (divergence.py 85-92).                    *)
THEOREM JoinIsComplete == Spec => []JoinGapsAreRefusedOutages
<1>1. TypeOK /\ GateInvariant /\ ChainInvariant => JoinGapsAreRefusedOutages
  <2> SUFFICES ASSUME TypeOK, GateInvariant, ChainInvariant, Finished
               PROVE  /\ NoDecisionRecord = {}
                      /\ NoEffectRecord = {e \in Events : InSeries /\ mode.failClosed
                                                         /\ schedule[e] = "transport_outage"}
    BY DEF JoinGapsAreRefusedOutages
  <2>1. \A e \in Events : e < cur /\ e \in Int
    BY NAssumption DEF GateInvariant, LoopShape, Finished, Events
  <2>2. \A e \in Events : Judged(e)
    BY <2>1, LeftIsJudged
  <2>3. \A e \in Events : Observed(e) <=> asked[e] > 0
    BY DEF ChainInvariant, EffectsTell
  <2>4. \A e \in Events : asked[e] > 0 <=> ~RefusedOutage(e)
    <3>1. CASE InSeries
      BY <2>1, <3>1 DEF ChainInvariant, RanAsRuled, LeftRan, TypeOK
    <3>2. CASE ~InSeries
      <4>1. pc = "done" /\ cur = N + 1
        BY DEF GateInvariant, LoopShape, Finished
      <4>2. \A e \in Events : ~Unasked(e)
        BY <2>1, <4>1 DEF Unasked
      <4>3. \A e \in Events : ran[e] = 1 /\ ran[e] <= asked[e] /\ asked[e] \in Nat
        BY <3>2, <4>2 DEF ChainInvariant, RanAsRuled, MonitorRan, GateInvariant, AskedInTurn, TypeOK
      <4> QED BY <3>2, <4>3 DEF RefusedOutage
    <3> QED BY <3>1, <3>2
  <2> QED BY <2>2, <2>3, <2>4 DEF NoDecisionRecord, NoEffectRecord, RefusedOutage
<1> QED BY <1>1, ChainsTell, PTL

(* A permission on record that did not take effect is always a refusal that *)
(* a drain rewrote (divergence.py REPORTED_PERMITTED_BUT_NOT_EXECUTED).     *)
THEOREM NoPermissionIsLost == Spec => []PermittedNotRunIsRewritten
<1>1. TypeOK /\ GateInvariant /\ ChainInvariant => PermittedNotRunIsRewritten
  <2> SUFFICES ASSUME TypeOK, GateInvariant, ChainInvariant, Finished,
                      NEW e \in Events, e \in PermittedNotExecuted
               PROVE  Superseded(e) /\ InSeries /\ mode.failClosed
    BY DEF PermittedNotRunIsRewritten, PermittedNotExecuted
  <2>1. e < cur /\ ran[e] \in Nat /\ ~Unasked(e) /\ e \in Int
    BY NAssumption DEF GateInvariant, LoopShape, Finished, Events, TypeOK, Unasked
  <2>2. Judged(e) /\ ran[e] = 0 /\ Final(e).decision # "BLOCK"
    BY <2>1 DEF PermittedNotExecuted, Reported, ChainInvariant, EffectsTell
  <2>3. InSeries
    BY <2>1, <2>2 DEF ChainInvariant, RanAsRuled, MonitorRan
  <2>4. PICK i \in DOMAIN decisions :
           Final(e) = decisions[i] /\ decisions[i].event = e /\ SoundRecord(decisions[i])
    BY <2>1, LeftIsJudged
  <2>5. PICK g \in DOMAIN decisions : GateRecord(g, e)
    BY <2>1, LeftIsJudged
  <2>6. decisions[g].decision = "BLOCK"
    BY <2>1, <2>2, <2>3, <2>5 DEF ChainInvariant, RanAsRuled, LeftRan, RunsBy
  <2>7. i # g
    BY <2>2, <2>4, <2>6
  <2>8. decisions[i].outcome = "DECIDED_BACKLOG"
    BY <2>4, <2>5, <2>7 DEF ChainInvariant, ChainInOrder, GateRecord
  <2>9. Superseded(e)
    BY <2>2, <2>4, <2>8 DEF Superseded
  <2>10. ~mode.failClosed => FALSE
    <3> SUFFICES ASSUME ~mode.failClosed PROVE FALSE
      OBVIOUS
    <3>1. SoundRecord(decisions[g]) /\ decisions[g].event = e
      BY <2>5 DEF ChainInvariant, RecordsAreSound, GateRecord
    <3>2. decisions[g].outcome \in Outcomes
      BY <2>5, RecordFields
    <3>3. decisions[g].outcome = "DECIDED"
      BY <2>5, <2>6, <3>1, <3>2 DEF SoundRecord, FailModeDecision, Outcomes, GateRecord
    <3>4. Decide(mode.policy, Score(e)) = "BLOCK"
      BY <2>6, <3>1, <3>3 DEF SoundRecord
    <3> QED BY <2>2, <2>4, <2>8, <3>4 DEF SoundRecord
  <2> QED BY <2>3, <2>9, <2>10
<1> QED BY <1>1, ChainsTell, PTL

\* After a step, too, the final record of an event is the latest on it.
LEMMA FinalIsLatestNext ==
    ASSUME TypeOK', NEW e, NEW i, IsLatest(i, e)'
    PROVE  Final(e)' = decisions'[i]
<1>1. \A j : IsLatest(j, e)' => j = i
  <2> SUFFICES ASSUME NEW j, IsLatest(j, e)' PROVE j = i
    OBVIOUS
  <2>1. i \in Nat /\ j \in Nat /\ i <= j /\ j <= i
    BY DEF IsLatest, TypeOK
  <2> QED BY <2>1
<1>2. \E k : k \in DOMAIN decisions' /\ IsLatest(k, e)'
  BY DEF IsLatest
<1>3. (CHOOSE k \in DOMAIN decisions : IsLatest(k, e))' = i
  BY <1>1, <1>2 DEF IsLatest
<1> QED BY <1>3 DEF Final

\* A step rewrites the record of a judged event in a drain only, and then nothing runs.
LEMMA RewriteStep ==
    ASSUME TypeOK, TypeOK', LoopShape, ChainInvariant, [Next]_vars,
           NEW e \in Events, Judged(e), Final(e)' # Final(e)
    PROVE  Final(e)'.outcome = "DECIDED_BACKLOG" /\ ran' = ran
<1> USE DEF ChainInvariant
<1>1. PICK i \in DOMAIN decisions : IsLatest(i, e)
  BY LatestExists
<1>2. Final(e) = decisions[i] /\ decisions[i].event = e
  BY <1>1, FinalIsLatest DEF IsLatest
<1>3. OnRecord(e)
  BY <1>2 DEF ChainInOrder
<1>4. CASE ChainUnchanged
  BY <1>4 DEF ChainUnchanged, Final, IsLatest
<1>5. ASSUME NEW r, decisions' = Append(decisions, r), r.event # e PROVE FALSE
  <2>1. IsLatest(i, e)' /\ decisions'[i] = decisions[i]
    BY <1>1, <1>5, ChainGrows DEF IsLatest
  <2> QED BY <1>2, <2>1, FinalIsLatestNext
<1>6. ASSUME NEW r, DrainRecords(r) PROVE Final(e)'.outcome = "DECIDED_BACKLOG" /\ ran' = ran
  <2>1. /\ decisions' = Append(decisions, r) /\ r.outcome = "DECIDED_BACKLOG" /\ ran' = ran
        /\ r.event = e
    BY <1>5, <1>6 DEF DrainRecords
  <2>2. PICK n : n = Len(decisions) + 1
    OBVIOUS
  <2>3. /\ n \in DOMAIN decisions' /\ decisions'[n] = r
        /\ \A j \in DOMAIN decisions' : j <= n
    BY <2>1, <2>2, ChainGrows
  <2>4. IsLatest(n, e)'
    BY <2>1, <2>3 DEF IsLatest
  <2> QED BY <2>1, <2>3, <2>4, FinalIsLatestNext
<1>7. ASSUME NEW r, GateRecords(r) PROVE FALSE
  BY <1>3, <1>5, <1>7 DEF GateRecords
<1> QED BY <1>4, <1>6, <1>7, ChainStep

(* Once an event is on record, only a drain rewrites it, and what has run   *)
(* does not move with it (divergence.py 65-68).                             *)
THEOREM RewritesChangeNothing == Spec => RewritesAreAfterTheFact
<1>1. TypeOK /\ TypeOK' /\ GateInvariant /\ ChainInvariant /\ [Next]_vars
      => [\A e \in Events :
             Judged(e) /\ Final(e)' # Final(e)
             => /\ Final(e)'.outcome = "DECIDED_BACKLOG"
                /\ UNCHANGED ran]_vars
  BY RewriteStep DEF GateInvariant
<1> QED BY <1>1, ChainsTell, PTL DEF Spec, RewritesAreAfterTheFact
=============================================================================
