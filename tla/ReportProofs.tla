---------------------------- MODULE ReportProofs ----------------------------
(* Theorems about what is made of a run when it is over: the replay of its  *)
(* decisions, the two reports of its executions, and its counters.          *)
EXTENDS ReportProperties, PendingProofs, FiniteSetTheorems

----------------------------------------------------------------------------
(* Replay.                                                                  *)

\* An altered record differs in its decision, and only there.
LEMMA AlteredRecord ==
    ASSUME TypeOK, NEW i \in DOMAIN decisions
    PROVE  /\ DOMAIN Altered(decisions, i) = DOMAIN decisions
           /\ \A j \in DOMAIN decisions :
                 /\ Altered(decisions, i)[j].event = decisions[j].event
                 /\ Altered(decisions, i)[j].outcome = decisions[j].outcome
                 /\ Altered(decisions, i)[j].decision = decisions[j].decision <=> j # i
<1> DEFINE other == IF decisions[i].decision = "BLOCK" THEN "ALLOW" ELSE "BLOCK"
           r == [decisions[i] EXCEPT !.decision = other]
<1>1. decisions \in Seq(DecisionRecords) /\ decisions[i] \in DecisionRecords
  BY DEF TypeOK
<1>2. /\ r.event = decisions[i].event /\ r.outcome = decisions[i].outcome
      /\ r.decision = other /\ other # decisions[i].decision
  BY <1>1 DEF DecisionRecords
<1> HIDE DEF r
<1>3. Altered(decisions, i) = [decisions EXCEPT ![i] = r]
  BY <1>1 DEF Altered, r
<1>4. /\ DOMAIN Altered(decisions, i) = DOMAIN decisions
      /\ \A j \in DOMAIN decisions :
            Altered(decisions, i)[j] = IF j = i THEN r ELSE decisions[j]
  BY <1>1, <1>3
<1> QED BY <1>2, <1>4

(* Replayed at the versions on record every decision comes out as it is on  *)
(* record, and an altered one is found, alone (replay.py 62-111).           *)
THEOREM PinnedReplayFinds == Spec => []PinnedReplayFindsTheAltered
<1>1. TypeOK /\ ChainInvariant => PinnedReplayFindsTheAltered
  <2> SUFFICES ASSUME TypeOK, ChainInvariant PROVE PinnedReplayFindsTheAltered
    OBVIOUS
  <2>1. ASSUME NEW i \in Replayable(decisions)
        PROVE  Replayed(decisions, i, mode.evaluator, mode.policy) = decisions[i].decision
    BY <2>1 DEF Replayable, Replayed, ChainInvariant, RecordsAreSound, SoundRecord, Score
  <2>2. Pinned(decisions) = {}
    BY <2>1 DEF Pinned, Disagreements
  <2>3. ASSUME NEW i \in Replayable(decisions)
        PROVE  Pinned(Altered(decisions, i)) = {i}
    <3>0. i \in DOMAIN decisions
      BY <2>3 DEF Replayable
    <3>1. PICK chain : chain = Altered(decisions, i)
      OBVIOUS
    <3>2. /\ DOMAIN chain = DOMAIN decisions
          /\ \A j \in DOMAIN decisions :
                /\ chain[j].event = decisions[j].event
                /\ chain[j].outcome = decisions[j].outcome
                /\ chain[j].decision = decisions[j].decision <=> j # i
      BY <3>0, <3>1, AlteredRecord
    <3>3. Replayable(chain) = Replayable(decisions)
      BY <3>2 DEF Replayable
    <3>4. \A j \in Replayable(decisions) :
             Replayed(chain, j, mode.evaluator, mode.policy) # chain[j].decision <=> j = i
      BY <2>1, <3>2 DEF Replayed, Replayable
    <3>5. Pinned(chain) = {i}
      BY <2>3, <3>3, <3>4 DEF Pinned, Disagreements
    <3> QED BY <3>1, <3>5
  <2> QED BY <2>2, <2>3 DEF PinnedReplayFindsTheAltered
<1> QED BY <1>1, ChainsTell, PTL

----------------------------------------------------------------------------
(* Two reports of the executions.                                           *)

(* The effect records of one event agree on whether it was executed: only   *)
(* a retry without dedup makes a second one, under the ruling of the first. *)
EffectsAlike ==
    \A i, j \in DOMAIN effects :
        effects[i].event = effects[j].event => effects[i].executed = effects[j].executed

\* An effect record says yes or no.
LEMMA EffectSays ==
    ASSUME TypeOK, NEW i \in DOMAIN effects
    PROVE  effects[i].executed \in BOOLEAN
<1> DEFINE R == EffectRecords
<1>1. effects \in Seq(R)
  BY DEF TypeOK
<1> HIDE DEF R
<1>2. effects[i] \in R
  BY <1>1
<1> QED BY <1>2 DEF R, EffectRecords

\* A call keeps the records alike if what it executes agrees with those before it.
LEMMA ExecuteAlike ==
    ASSUME TypeOK, EffectsAlike, NEW e \in Events, NEW permitted \in BOOLEAN, NEW reported,
           Execute(e, permitted, reported),
           \A i \in DOMAIN effects :
               effects[i].event = e => effects[i].executed = Executes(permitted, reported)
    PROVE  EffectsAlike'
<1>0. effects \in Seq(EffectRecords)
  BY DEF TypeOK
<1>1. CASE Absorbs(e)
  BY <1>1 DEF Execute, EffectsAlike
<1>2. CASE ~Absorbs(e)
  <2> DEFINE runs == ran[e] + (IF Executes(permitted, reported) THEN 1 ELSE 0)
             r == [event |-> e, executed |-> Executes(permitted, reported),
                   deliveries |-> asked[e] + 1, executions |-> runs]
  <2>1. effects' = Append(effects, r)
    BY <1>2 DEF Execute
  <2>2. r.event = e /\ r.executed = Executes(permitted, reported)
    OBVIOUS
  <2> HIDE DEF r
  <2>3. \A i \in DOMAIN effects' : \/ i \in DOMAIN effects /\ effects'[i] = effects[i]
                                   \/ effects'[i] = r
    BY <1>0, <2>1
  <2> QED BY <2>2, <2>3 DEF EffectsAlike
<1> QED BY <1>1, <1>2

LEMMA AlikeStep ==
    ASSUME TypeOK, GateInvariant, EffectsTell, EffectsAlike, [Next]_vars
    PROVE  EffectsAlike'
<1> USE DEF GateInvariant
<1>1. CASE MonitorActs \/ FailOpenOnOutage \/ Enforce
  <2>1. ruling.permitted \in BOOLEAN /\ cur \in Events
    BY <1>1 DEF TypeOK, Rulings, LoopShape, MonitorActs, FailOpenOnOutage, Enforce
  <2>2. \E permitted \in BOOLEAN : \E reported : Execute(cur, permitted, reported)
    BY <1>1, <2>1 DEF MonitorActs, FailOpenOnOutage, Enforce, EnforcementFails
  <2>3. asked[cur] = 0
    BY <1>1, <2>1 DEF MonitorActs, FailOpenOnOutage, Enforce, AskedInTurn, Unasked,
       BeforeEffector
  <2>4. \A i \in DOMAIN effects : effects[i].event # cur
    BY <2>1, <2>3 DEF EffectsTell, Observed, EventsOf
  <2> QED BY <2>1, <2>2, <2>4, ExecuteAlike
<1>2. CASE RetryDouble
  <2>1. ruling.permitted \in BOOLEAN /\ cur \in Events /\ pc = "retry"
        /\ Execute(cur, ruling.permitted, ruling.decision)
    BY <1>2 DEF TypeOK, Rulings, LoopShape, RetryDouble
  <2>2. (ran[cur] > 0) = Executes(ruling.permitted, ruling.decision)
    BY <2>1 DEF AskedInTurn
  <2>3. ASSUME NEW i \in DOMAIN effects, effects[i].event = cur
        PROVE  effects[i].executed = Executes(ruling.permitted, ruling.decision)
    <3>1. effects[i].executed \in BOOLEAN
      BY EffectSays
    <3>2. effects[i].executed <=> Executed(cur)
      BY <2>3, <3>1 DEF EffectsAlike, Executed
    <3>3. Executed(cur) <=> ran[cur] > 0
      BY <2>1 DEF EffectsTell
    <3>4. effects[i].executed = (ran[cur] > 0)
      BY <3>1, <3>2, <3>3
    <3> QED BY <2>2, <3>4
  <2> QED BY <2>1, <2>3, ExecuteAlike
<1>3. CASE ~(MonitorActs \/ FailOpenOnOutage \/ Enforce \/ RetryDouble)
  <2>1. effects' = effects
    BY <1>3 DEF Next, vars, effectVars, PublishLost, PublishSent, RefuseOnOutage, OutageUnseen,
       ConsumeBatch, FindTarget, DrainBacklog, TargetMissing, EvaluateTarget, CrashAndRedeliver,
       DecideOnTime, DecideWithout, RecordDecision, Flush
  <2> QED BY <2>1 DEF EffectsAlike
<1> QED BY <1>1, <1>2, <1>3

\* So the last record of an event says what any of them says.
LEMMA LastTellsAll ==
    ASSUME TypeOK, EffectsAlike, NEW e, e \in EventsOf(effects)
    PROVE  LastEffect(e).executed <=> Executed(e)
<1> DEFINE S == {i \in DOMAIN effects : effects[i].event = e}
           Last(i) == /\ effects[i].event = e
                      /\ \A j \in DOMAIN effects : effects[j].event = e => j <= i
<1>0. \A i \in DOMAIN effects : effects[i].executed \in BOOLEAN
  BY EffectSays
<1>1. S \subseteq 1..Len(effects) /\ S # {} /\ Len(effects) \in Nat
  BY DEF TypeOK, EventsOf
<1>2. \E i \in S : \A j \in S : j <= i
  BY <1>1, LargestExists
<1>3. \E i \in DOMAIN effects : Last(i)
  BY <1>2
<1>4. PICK k : k = CHOOSE i \in DOMAIN effects : Last(i)
  OBVIOUS
<1>5. k \in DOMAIN effects /\ effects[k].event = e
  BY <1>3, <1>4
<1>6. LastEffect(e) = effects[k]
  BY <1>4 DEF LastEffect
<1> QED BY <1>0, <1>5, <1>6 DEF EffectsAlike, Executed

(* The runner and the matrix report one enforcement rate for one run,       *)
(* though one asks for any execution of an event and the other for the last *)
(* record on it (run.py 59-72, experiments.py 284-292).                     *)
THEOREM TwoReportsAgree == Spec => []ReportsAgree
<1>1. Init => EffectsAlike
  BY DEF Init, FreshRun, EffectorInit, EffectsAlike
<1>2. TypeOK /\ GateInvariant /\ ChainInvariant /\ EffectsAlike /\ [Next]_vars => EffectsAlike'
  BY AlikeStep DEF ChainInvariant
<1>3. TypeOK /\ EffectsAlike => ReportsAgree
  <2> SUFFICES ASSUME TypeOK, EffectsAlike
               PROVE  /\ Row.enforcement = EnforcementGivenBlock
                      /\ Row.unconfirmable = Cardinality(Unconfirmable)
    BY DEF ReportsAgree
  <2>1. {e \in BlocksWithEvidence : ~LastEffect(e).executed} = Enforced
    BY LastTellsAll DEF Enforced, BlocksWithEvidence
  <2>2. Row.enforcement = EnforcementGivenBlock
    BY <2>1 DEF Row, EnforcementGivenBlock
  <2>3. Blocks \ EventsOf(effects) = Unconfirmable
    BY DEF Unconfirmable, BlocksWithEvidence
  <2>4. Row.unconfirmable = Cardinality(Unconfirmable)
    BY <2>3 DEF Row
  <2> QED BY <2>2, <2>4
<1> QED BY <1>1, <1>2, <1>3, ChainsTell, PTL DEF Spec

----------------------------------------------------------------------------
(* The counters.                                                            *)

\* How many records of a chain are of a kind.
Holding(chain, kind) == Cardinality({i \in DOMAIN chain : chain[i] \in kind})

Refused == {r \in DecisionRecords : r.outcome = "REFUSED_TRANSPORT_DOWN"}
Undecided == {r \in DecisionRecords : r.outcome \in {"LATE", "NO_DECISION"}}
BlockedLate(policy) ==
    {r \in DecisionRecords : r.outcome = "LATE" /\ Decide(policy, r.risk) = "BLOCK"}
Disputed(policy) ==
    {r \in DecisionRecords : r.alt # NoRisk /\ Decide(policy, r.alt) # Decide(policy, r.risk)}

\* A ruling is counted when it is made, and on record at the end of the pass.
Owed(condition) == Count(pc \in {"enforce", "retry", "record"} /\ condition)

TallyInvariant ==
    /\ tally["outageRefusals"] = Holding(decisions, Refused)
    /\ tally["noDecision"] = Holding(decisions, Undecided)
                             + Owed(ruling.outcome \in {"LATE", "NO_DECISION"})
    /\ tally["lateBlocks"] = Holding(decisions, BlockedLate(mode.policy))
          + Owed(ruling.outcome = "LATE" /\ Decide(mode.policy, verdict) = "BLOCK")
    /\ tally["disagreements"] = Holding(decisions, Disputed(mode.policy))
          + Owed(/\ ruling.alt # NoRisk
                 /\ Decide(mode.policy, ruling.alt) # Decide(mode.policy, verdict))

\* A chain holds one more of a kind when one of the kind is appended.
LEMMA OneMore ==
    ASSUME NEW T, NEW s \in Seq(T), NEW r \in T, NEW kind
    PROVE  /\ Holding(s, kind) \in Nat
           /\ Holding(Append(s, r), kind) = Holding(s, kind) + Count(r \in kind)
<1> DEFINE P == {i \in DOMAIN s : s[i] \in kind}
           t == Append(s, r)
           n == Len(s) + 1
<1>1. IsFiniteSet(P)
  <2>1. P \subseteq 1..Len(s) /\ IsFiniteSet(1..Len(s))
    BY FS_Interval
  <2> QED BY <2>1, FS_Subset
<1>2. /\ DOMAIN t = DOMAIN s \cup {n} /\ t[n] = r
      /\ \A i \in DOMAIN s : t[i] = s[i] /\ i # n
  OBVIOUS
<1>5. Holding(s, kind) = Cardinality(P) /\ Holding(t, kind) = Cardinality({i \in DOMAIN t : t[i] \in kind})
  BY DEF Holding
<1>6. Cardinality(P) \in Nat
  BY <1>1, FS_CardinalityType
<1> HIDE DEF t, n, P
<1>3. CASE r \in kind
  <2>1. {i \in DOMAIN t : t[i] \in kind} = P \cup {n} /\ n \notin P
    BY <1>2, <1>3 DEF P
  <2>2. Cardinality(P \cup {n}) = Cardinality(P) + 1
    BY <1>1, <2>1, FS_AddElement
  <2>3. Holding(t, kind) = Holding(s, kind) + Count(r \in kind)
    BY <1>3, <1>5, <1>6, <2>1, <2>2 DEF Count
  <2> QED BY <1>5, <1>6, <2>3 DEF t
<1>4. CASE r \notin kind
  <2>1. {i \in DOMAIN t : t[i] \in kind} = P
    BY <1>2, <1>4 DEF P
  <2>3. Holding(t, kind) = Cardinality(P)
    BY <1>5, <2>1, Zenon
  <2>2. Holding(t, kind) = Holding(s, kind) + Count(r \in kind)
    BY <1>4, <1>5, <1>6, <2>3 DEF Count
  <2> QED BY <1>5, <1>6, <2>2 DEF t
<1> QED BY <1>3, <1>4

\* What is appended to the chain is a record, and is held once more.
LEMMA HeldOnceMore ==
    ASSUME TypeOK, TypeOK', NEW r, decisions' = Append(decisions, r)
    PROVE  /\ r \in DecisionRecords
           /\ \A kind : /\ Holding(decisions, kind) \in Nat
                        /\ Holding(decisions', kind) = Holding(decisions, kind) + Count(r \in kind)
<1> DEFINE R == DecisionRecords
<1>1. decisions \in Seq(R) /\ decisions' \in Seq(R)
  BY DEF TypeOK
<1> HIDE DEF R
<1>2. PICK n : n = Len(decisions) + 1
  OBVIOUS
<1>3. n \in DOMAIN decisions' /\ decisions'[n] = r
  BY <1>2, ChainGrows
<1>4. r \in R
  BY <1>1, <1>3
<1> QED BY <1>1, <1>4, OneMore DEF R

\* The gate's record is of the kinds that its ruling was counted as.
LEMMA RecordCounted ==
    ASSUME TypeOK, TypeOK', TallyInvariant, RulingTells, RecordDecision
    PROVE  TallyInvariant'
<1> DEFINE r == [event |-> cur, risk |-> verdict, decision |-> ruling.decision,
                 outcome |-> ruling.outcome,
                 note |-> IF EnforcementFails THEN "enforcement_failed" ELSE "none",
                 alt |-> ruling.alt]
<1>1. /\ decisions' = Append(decisions, r) /\ mode' = mode /\ pc = "record"
      /\ pc' \notin {"enforce", "retry", "record"} /\ tally' = Add(tally, "timed", 1)
  BY DEF RecordDecision, Record, NextEvent, FirstPc, inputVars
<1>2. r.risk = verdict /\ r.outcome = ruling.outcome /\ r.alt = ruling.alt
  OBVIOUS
<1> HIDE DEF r
<1>3. /\ r \in DecisionRecords
      /\ \A kind : /\ Holding(decisions, kind) \in Nat
                   /\ Holding(decisions', kind) = Holding(decisions, kind) + Count(r \in kind)
  BY <1>1, HeldOnceMore
<1>4. /\ tally'["outageRefusals"] = tally["outageRefusals"]
      /\ tally'["noDecision"] = tally["noDecision"]
      /\ tally'["lateBlocks"] = tally["lateBlocks"]
      /\ tally'["disagreements"] = tally["disagreements"]
  BY <1>1 DEF Add, TypeOK, Counters
<1>5. /\ Count(r \in Refused) = 0
      /\ Count(r \in Undecided) = Owed(ruling.outcome \in {"LATE", "NO_DECISION"})
      /\ Count(r \in BlockedLate(mode.policy))
            = Owed(ruling.outcome = "LATE" /\ Decide(mode.policy, verdict) = "BLOCK")
      /\ Count(r \in Disputed(mode.policy))
            = Owed(/\ ruling.alt # NoRisk
                   /\ Decide(mode.policy, ruling.alt) # Decide(mode.policy, verdict))
  BY <1>1, <1>2, <1>3 DEF RulingTells, Owed, Count, Refused, Undecided, BlockedLate, Disputed
<1>6. /\ tally'["outageRefusals"] = Holding(decisions', Refused)
      /\ tally'["noDecision"] = Holding(decisions', Undecided)
      /\ tally'["lateBlocks"] = Holding(decisions', BlockedLate(mode'.policy))
      /\ tally'["disagreements"] = Holding(decisions', Disputed(mode'.policy))
  <2>1. /\ Holding(decisions', Refused) = Holding(decisions, Refused) + 0
        /\ Holding(decisions, Refused) \in Nat
    BY <1>3, <1>5
  <2>2. Holding(decisions', Undecided)
        = Holding(decisions, Undecided) + Owed(ruling.outcome \in {"LATE", "NO_DECISION"})
    BY <1>3, <1>5
  <2>3. Holding(decisions', BlockedLate(mode.policy)) = Holding(decisions, BlockedLate(mode.policy))
        + Owed(ruling.outcome = "LATE" /\ Decide(mode.policy, verdict) = "BLOCK")
    BY <1>3, <1>5
  <2>4. Holding(decisions', Disputed(mode.policy)) = Holding(decisions, Disputed(mode.policy))
        + Owed(/\ ruling.alt # NoRisk
               /\ Decide(mode.policy, ruling.alt) # Decide(mode.policy, verdict))
    BY <1>3, <1>5
  <2>5. tally'["outageRefusals"] = Holding(decisions', Refused)
    BY <1>4, <2>1 DEF TallyInvariant
  <2>6. tally'["noDecision"] = Holding(decisions', Undecided)
    BY <1>4, <2>2, Zenon DEF TallyInvariant
  <2>7. tally'["lateBlocks"] = Holding(decisions', BlockedLate(mode.policy))
    BY <1>4, <2>3, Zenon DEF TallyInvariant
  <2>8. tally'["disagreements"] = Holding(decisions', Disputed(mode.policy))
    BY <1>4, <2>4, Zenon DEF TallyInvariant
  <2> QED BY <1>1, <2>5, <2>6, <2>7, <2>8
<1>7. \A kind : Holding(decisions', kind) \in Nat
  BY <1>3 DEF Count
<1> QED BY <1>1, <1>6, <1>7 DEF TallyInvariant, Owed, Count

\* How many it holds is a number.
LEMMA HoldingType ==
    ASSUME TypeOK
    PROVE  \A kind : Holding(decisions, kind) \in Nat
<1> DEFINE T == DecisionRecords
<1>1. decisions \in Seq(T)
  BY DEF TypeOK
<1> HIDE DEF T
<1>2. IsFiniteSet(1..Len(decisions)) /\ DOMAIN decisions = 1..Len(decisions)
  BY <1>1, FS_Interval
<1>3. ASSUME NEW kind PROVE Holding(decisions, kind) \in Nat
  <2>1. IsFiniteSet({i \in DOMAIN decisions : decisions[i] \in kind})
    BY <1>2, FS_Subset
  <2> QED BY <2>1, FS_CardinalityType DEF Holding
<1> QED BY <1>3

\* A refused outage is counted as one, a drain's record as nothing.
LEMMA AppendCounted ==
    ASSUME TypeOK, TypeOK', TallyInvariant, RefuseOnOutage \/ (DrainBacklog /\ ~mode.crashing)
    PROVE  TallyInvariant'
<1>1. CASE RefuseOnOutage
  <2> DEFINE r == [event |-> cur, risk |-> NoRisk, decision |-> FailModeDecision,
                   outcome |-> "REFUSED_TRANSPORT_DOWN", note |-> "outage", alt |-> NoRisk]
  <2>1. /\ decisions' = Append(decisions, r) /\ mode' = mode
        /\ pc = "publish" /\ pc' \notin {"enforce", "retry", "record"}
        /\ tally' = Add(tally, "outageRefusals", 1)
    BY <1>1 DEF RefuseOnOutage, Record, NextEvent, FirstPc, inputVars
  <2>2. r.risk = NoRisk /\ r.outcome = "REFUSED_TRANSPORT_DOWN" /\ r.alt = NoRisk
    OBVIOUS
  <2> HIDE DEF r
  <2>3. /\ r \in DecisionRecords
        /\ \A kind : /\ Holding(decisions, kind) \in Nat
                     /\ Holding(decisions', kind) = Holding(decisions, kind) + Count(r \in kind)
    BY <2>1, HeldOnceMore
  <2>4. /\ r \in Refused /\ r \notin Undecided /\ r \notin BlockedLate(mode.policy)
        /\ r \notin Disputed(mode.policy)
    BY <2>2, <2>3 DEF Refused, Undecided, BlockedLate, Disputed
  <2>5. /\ Holding(decisions', Refused) = Holding(decisions, Refused) + 1
        /\ Holding(decisions', Undecided) = Holding(decisions, Undecided)
        /\ Holding(decisions', BlockedLate(mode.policy)) = Holding(decisions, BlockedLate(mode.policy))
        /\ Holding(decisions', Disputed(mode.policy)) = Holding(decisions, Disputed(mode.policy))
    BY <2>3, <2>4 DEF Count
  <2>6. /\ tally'["outageRefusals"] = tally["outageRefusals"] + 1
        /\ tally'["noDecision"] = tally["noDecision"]
        /\ tally'["lateBlocks"] = tally["lateBlocks"]
        /\ tally'["disagreements"] = tally["disagreements"]
    BY <2>1 DEF Add, TypeOK, Counters
  <2> QED BY <2>1, <2>5, <2>6 DEF TallyInvariant, Owed, Count
<1>2. CASE DrainBacklog /\ ~mode.crashing
  <2> DEFINE r == [event |-> stream[next], risk |-> Score(stream[next]),
                   decision |-> Decide(mode.policy, Score(stream[next])),
                   outcome |-> "DECIDED_BACKLOG", note |-> "backlog", alt |-> NoRisk]
  <2>1. /\ decisions' = Append(decisions, r) /\ mode' = mode /\ tally' = tally
        /\ pc = "drain" /\ pc' = pc
    BY <1>2 DEF DrainBacklog, Record, inputVars
  <2>2. r.outcome = "DECIDED_BACKLOG" /\ r.alt = NoRisk
    OBVIOUS
  <2> HIDE DEF r
  <2>3. /\ r \in DecisionRecords
        /\ \A kind : /\ Holding(decisions, kind) \in Nat
                     /\ Holding(decisions', kind) = Holding(decisions, kind) + Count(r \in kind)
    BY <2>1, HeldOnceMore
  <2>4. /\ r \notin Refused /\ r \notin Undecided /\ r \notin BlockedLate(mode.policy)
        /\ r \notin Disputed(mode.policy)
    BY <2>2, <2>3 DEF Refused, Undecided, BlockedLate, Disputed
  <2>5. /\ Holding(decisions', Refused) = Holding(decisions, Refused)
        /\ Holding(decisions', Undecided) = Holding(decisions, Undecided)
        /\ Holding(decisions', BlockedLate(mode.policy)) = Holding(decisions, BlockedLate(mode.policy))
        /\ Holding(decisions', Disputed(mode.policy)) = Holding(decisions, Disputed(mode.policy))
    BY <2>3, <2>4 DEF Count
  <2> QED BY <2>1, <2>5 DEF TallyInvariant, Owed, Count
<1> QED BY <1>1, <1>2

\* A decision is counted as the kinds of record it will leave.
LEMMA DecisionCounted ==
    ASSUME TypeOK, TallyInvariant, DecideOnTime \/ DecideWithout
    PROVE  TallyInvariant'
<1>1. /\ pc = "decide" /\ pc' \in {"enforce", "record"} /\ verdict' = verdict
      /\ decisions' = decisions /\ mode' = mode
  BY DEF DecideOnTime, DecideWithout, AfterDecision, inputVars
<1>2. /\ tally["outageRefusals"] = Holding(decisions, Refused)
      /\ tally["noDecision"] = Holding(decisions, Undecided)
      /\ tally["lateBlocks"] = Holding(decisions, BlockedLate(mode.policy))
      /\ tally["disagreements"] = Holding(decisions, Disputed(mode.policy))
      /\ \A c \in Counters : tally[c] \in Nat
  <2>1. \A c \in Counters : tally[c] \in Nat
    BY DEF TypeOK
  <2>2. \A k \in {"noDecision", "lateBlocks", "disagreements"} : tally[k] \in Nat
    BY <2>1 DEF Counters
  <2>3. \A kind : Holding(decisions, kind) \in Nat
    BY HoldingType
  <2> QED BY <1>1, <2>1, <2>3 DEF TallyInvariant, Owed, Count
<1>3. CASE DecideOnTime
  <2>1. /\ ruling'.outcome = "DECIDED" /\ ruling'.alt = AltRisk
        /\ tally' = Add(tally, "disagreements", Count(Disagrees))
    BY <1>3 DEF DecideOnTime, RuleByPolicy
  <2>2. /\ tally'["outageRefusals"] = tally["outageRefusals"]
        /\ tally'["noDecision"] = tally["noDecision"]
        /\ tally'["lateBlocks"] = tally["lateBlocks"]
        /\ tally'["disagreements"] = tally["disagreements"] + Count(Disagrees)
    BY <2>1 DEF Add, TypeOK, Counters
  <2> QED BY <1>1, <1>2, <2>1, <2>2 DEF TallyInvariant, Owed, Count, Disagrees, Counters
<1>4. CASE DecideWithout
  <2>1. /\ ruling'.outcome = IF verdict # NoRisk THEN "LATE" ELSE "NO_DECISION"
        /\ ruling'.alt = AltRisk
        /\ tally' = Add(Add(Add(tally, "noDecision", 1), "lateBlocks", Count(LateBlock)),
                        "disagreements", Count(Disagrees))
    BY <1>4 DEF DecideWithout, RuleByFailMode
  <2>2. /\ tally'["outageRefusals"] = tally["outageRefusals"]
        /\ tally'["noDecision"] = tally["noDecision"] + 1
        /\ tally'["lateBlocks"] = tally["lateBlocks"] + Count(LateBlock)
        /\ tally'["disagreements"] = tally["disagreements"] + Count(Disagrees)
    BY <2>1 DEF Add, TypeOK, Counters
  <2> QED BY <1>1, <1>2, <2>1, <2>2
          DEF TallyInvariant, Owed, Count, Disagrees, LateBlock, Counters
<1> QED BY <1>3, <1>4

\* The other steps neither count nor record, nor make or end a ruling.
LEMMA OthersUncounted ==
    ASSUME TypeOK, TallyInvariant, [Next]_vars,
           ~(RefuseOnOutage \/ (DrainBacklog /\ ~mode.crashing) \/ DecideOnTime \/ DecideWithout
             \/ RecordDecision)
    PROVE  TallyInvariant'
<1>1. decisions' = decisions /\ mode' = mode
  BY InputsRigid DEF Next, vars, MonitorActs, PublishLost, PublishSent, FailOpenOnOutage,
     OutageUnseen, ConsumeBatch, FindTarget, DrainBacklog, TargetMissing, EvaluateTarget,
     CrashAndRedeliver, Enforce, RetryDouble, Flush
<1>2. \/ tally' = tally
      \/ \E n : tally' = Add(tally, "crashes", n)
      \/ tally' = Add(Add(tally, "crashes", 1), "redelivered", 1)
  BY DEF Next, vars, MonitorActs, PublishLost, PublishSent, FailOpenOnOutage,
     OutageUnseen, ConsumeBatch, FindTarget, DrainBacklog, TargetMissing, EvaluateTarget,
     CrashAndRedeliver, Enforce, RetryDouble, Flush
<1>3. /\ tally'["outageRefusals"] = tally["outageRefusals"]
      /\ tally'["noDecision"] = tally["noDecision"]
      /\ tally'["lateBlocks"] = tally["lateBlocks"]
      /\ tally'["disagreements"] = tally["disagreements"]
  BY <1>2 DEF Add, TypeOK, Counters
<1>4. \/ pc \in {"enforce", "retry", "record"} /\ pc' \in {"enforce", "retry", "record"}
         /\ ruling' = ruling /\ verdict' = verdict
      \/ pc \notin {"enforce", "retry", "record"} /\ pc' \notin {"enforce", "retry", "record"}
  BY DEF Next, vars, loopVars, MonitorActs, PublishLost, PublishSent, FailOpenOnOutage,
     OutageUnseen, ConsumeBatch, FindTarget, DrainBacklog, TargetMissing, EvaluateTarget,
     BatchRead, CrashAndRedeliver, Enforce, RetryDouble, Flush, NextEvent, FirstPc
<1> QED BY <1>1, <1>3, <1>4 DEF TallyInvariant, Owed, Count

LEMMA TallyInit == Init => TallyInvariant
<1> SUFFICES ASSUME Init PROVE TallyInvariant
  OBVIOUS
<1>1. /\ decisions = <<>> /\ pc \in {"act", "publish"}
      /\ tally = [counter \in Counters |-> 0]
  BY DEF Init, FreshRun, FirstPc
<1>2. \A kind : Holding(decisions, kind) = 0
  <2>1. \A kind : {i \in DOMAIN decisions : decisions[i] \in kind} = {}
    BY <1>1
  <2> QED BY <2>1, FS_EmptySet DEF Holding
<1> QED BY <1>1, <1>2 DEF TallyInvariant, Owed, Count, Counters

(* The counters a run reports say what its chain says: each refusal, late   *)
(* block, missing decision and disagreement of the evaluators is counted    *)
(* once, by the record that shows it (arms.py 233-250).                     *)
THEOREM CountersMatch == Spec => []TalliesMatchTheChain
<1>1. Init => TallyInvariant
  BY TallyInit
<1>2. TypeOK /\ TypeOK' /\ ChainInvariant /\ TallyInvariant /\ [Next]_vars => TallyInvariant'
  BY RecordCounted, AppendCounted, DecisionCounted, OthersUncounted DEF ChainInvariant
<1>3. TypeOK /\ TallyInvariant => TalliesMatchTheChain
  <2> SUFFICES ASSUME TypeOK, TallyInvariant PROVE TalliesMatchTheChain
    OBVIOUS
  <2>1. \A i \in DOMAIN decisions : decisions[i] \in DecisionRecords
    <3> DEFINE T == DecisionRecords
    <3>1. decisions \in Seq(T)
      BY DEF TypeOK
    <3> HIDE DEF T
    <3>2. \A i \in DOMAIN decisions : decisions[i] \in T
      BY <3>1
    <3> QED BY <3>2 DEF T
  <2>2. /\ {i \in DOMAIN decisions : decisions[i].outcome = "REFUSED_TRANSPORT_DOWN"}
           = {i \in DOMAIN decisions : decisions[i] \in Refused}
        /\ {i \in DOMAIN decisions : decisions[i].outcome \in {"LATE", "NO_DECISION"}}
           = {i \in DOMAIN decisions : decisions[i] \in Undecided}
        /\ {i \in DOMAIN decisions : decisions[i].outcome = "LATE"
                                     /\ Decide(mode.policy, decisions[i].risk) = "BLOCK"}
           = {i \in DOMAIN decisions : decisions[i] \in BlockedLate(mode.policy)}
        /\ {i \in DOMAIN decisions :
               decisions[i].alt # NoRisk
               /\ Decide(mode.policy, decisions[i].alt) # Decide(mode.policy, decisions[i].risk)}
           = {i \in DOMAIN decisions : decisions[i] \in Disputed(mode.policy)}
    BY <2>1 DEF Refused, Undecided, BlockedLate, Disputed
  <2>3. /\ Number(LAMBDA r : r.outcome = "REFUSED_TRANSPORT_DOWN") = Holding(decisions, Refused)
        /\ Number(LAMBDA r : r.outcome \in {"LATE", "NO_DECISION"}) = Holding(decisions, Undecided)
        /\ Number(LAMBDA r : r.outcome = "LATE" /\ Decide(mode.policy, r.risk) = "BLOCK")
           = Holding(decisions, BlockedLate(mode.policy))
        /\ Number(LAMBDA r : r.alt # NoRisk
                             /\ Decide(mode.policy, r.alt) # Decide(mode.policy, r.risk))
           = Holding(decisions, Disputed(mode.policy))
    BY <2>2 DEF Number, Holding
  <2>4. \A kind : Holding(decisions, kind) \in Nat
    BY HoldingType
  <2>5. AtLoopTop => pc \notin {"enforce", "retry", "record"}
    BY DEF AtLoopTop, FirstPc
  <2> QED BY <2>3, <2>4, <2>5 DEF TalliesMatchTheChain, TallyInvariant, Owed, Count
<1> QED BY <1>1, <1>2, <1>3, ChainsTell, PTL DEF Spec

----------------------------------------------------------------------------
(* The rates.                                                               *)

(* A verdict that came late is on record with the score it came with.       *)
LateIsScored ==
    \A i \in DOMAIN decisions :
        decisions[i].outcome = "LATE" => decisions[i].risk = Score(decisions[i].event)

\* The edge drops an event once, when the loop publishes it.
DroppedInTurn ==
    /\ \A i \in DOMAIN edge.dropped : Offered(edge.dropped[i])
    /\ \A i, j \in DOMAIN edge.dropped : edge.dropped[i] = edge.dropped[j] => i = j

RateInvariant == LateIsScored /\ DroppedInTurn

LEMMA LateStep ==
    ASSUME TypeOK, VerdictIsEarned, RulingTells, LateIsScored, [Next]_vars
    PROVE  LateIsScored'
<1>1. mode' = mode /\ scenario' = scenario
  BY InputsRigid
<1>2. \A e : Score(e)' = Score(e)
  BY <1>1 DEF Score
<1>3. CASE decisions' = decisions
  <2>1. \A i \in DOMAIN decisions : decisions'[i] = decisions[i]
    BY <1>3
  <2> QED BY <1>2, <1>3, <2>1 DEF LateIsScored
<1>4. ASSUME NEW r, decisions' = Append(decisions, r),
             r.outcome = "LATE" => r.risk = Score(r.event)
      PROVE  LateIsScored'
  <2>1. \A i \in DOMAIN decisions' :
           \/ i \in DOMAIN decisions /\ decisions'[i] = decisions[i]
           \/ decisions'[i] = r
    BY <1>4, ChainGrows
  <2> QED BY <1>2, <1>4, <2>1 DEF LateIsScored
<1>5. CASE RefuseOnOutage
  BY <1>4, <1>5 DEF RefuseOnOutage, Record
<1>6. CASE DrainBacklog /\ ~mode.crashing
  BY <1>4, <1>6 DEF DrainBacklog, Record
<1>7. CASE RecordDecision
  <2>1. ruling.outcome = "LATE" => verdict = Score(cur)
    BY <1>7 DEF RecordDecision, RulingTells, VerdictIsEarned
  <2> QED BY <1>4, <1>7, <2>1 DEF RecordDecision, Record
<1>8. CASE ~(RefuseOnOutage \/ (DrainBacklog /\ ~mode.crashing) \/ RecordDecision)
  <2>1. decisions' = decisions
    BY <1>8 DEF Next, vars, MonitorActs, PublishLost, PublishSent, FailOpenOnOutage,
       OutageUnseen, ConsumeBatch, FindTarget, DrainBacklog, TargetMissing, EvaluateTarget,
       CrashAndRedeliver, DecideOnTime, DecideWithout, Enforce, RetryDouble, Flush
  <2> QED BY <1>3, <2>1
<1> QED BY <1>5, <1>6, <1>7, <1>8

\* An event that was offered to the edge stays so.
LEMMA OfferedStays ==
    ASSUME TypeOK, [Next]_vars
    PROVE  \A e \in Events : Offered(e) => Offered(e)'
<1>0. cur \in Int /\ \A e \in Events : e \in Int
  BY NAssumption DEF TypeOK, Events
<1>1. \/ cur' = cur + 1
      \/ cur' = cur /\ (pc \in {"act", "publish"} \/ pc' \notin {"act", "publish"})
  BY DEF Next, vars, loopVars, MonitorActs, PublishLost, PublishSent, RefuseOnOutage,
     FailOpenOnOutage, OutageUnseen, ConsumeBatch, FindTarget, DrainBacklog, TargetMissing,
     EvaluateTarget, BatchRead, CrashAndRedeliver, DecideOnTime, DecideWithout, AfterDecision,
     Enforce, RetryDouble, RecordDecision, Flush, NextEvent
<1>2. \A e \in Events : Offered(e)' <=> (e < cur' \/ (e = cur' /\ pc' \notin {"act", "publish"}))
  BY DEF Offered
<1> QED BY <1>0, <1>1, <1>2 DEF Offered

LEMMA DroppedStep ==
    ASSUME TypeOK, LoopShape, DroppedInTurn, [Next]_vars
    PROVE  DroppedInTurn'
<1>1. \A e \in Events : Offered(e) => Offered(e)'
  BY OfferedStays
<1>2. edge.dropped \in Seq(Events)
  BY DEF TypeOK, EdgeLists
<1>3. CASE edge'.dropped = edge.dropped
  <2>1. \A i \in DOMAIN edge.dropped : edge.dropped[i] \in Events
    BY <1>2
  <2> QED BY <1>1, <1>3, <2>1 DEF DroppedInTurn
<1>4. CASE PublishLost /\ Drop(cur)
  <2>1. edge'.dropped = Append(edge.dropped, cur) /\ pc = "publish" /\ pc' = "decide" /\ cur' = cur
    BY <1>4 DEF PublishLost, Drop, TypeOK, EdgeLists
  <2>2. cur \in Events /\ cur \in Int
    BY <2>1, NAssumption DEF LoopShape, Events
  <2>3. \A i \in DOMAIN edge.dropped : edge.dropped[i] \in Events /\ edge.dropped[i] # cur
    BY <1>2, <2>1, <2>2 DEF DroppedInTurn, Offered
  <2>4. Offered(cur)'
    BY <2>1, <2>2 DEF Offered
  <2>5. \A i \in DOMAIN edge'.dropped :
           \/ i \in DOMAIN edge.dropped /\ edge'.dropped[i] = edge.dropped[i]
           \/ i = Len(edge.dropped) + 1 /\ edge'.dropped[i] = cur
    BY <1>2, <2>1, <2>2
  <2> QED BY <1>1, <2>1, <2>3, <2>4, <2>5 DEF DroppedInTurn
<1>5. edge'.dropped = edge.dropped \/ (PublishLost /\ Drop(cur))
  BY DEF Next, vars, labVars, MonitorActs, PublishLost, Drop, Hold, PublishSent, Send,
     RefuseOnOutage, Outage, FailOpenOnOutage, OutageUnseen, ConsumeBatch, FindTarget,
     DrainBacklog, TargetMissing, EvaluateTarget, CrashAndRedeliver, DecideOnTime,
     DecideWithout, Enforce, RetryDouble, RecordDecision, Flush, FlushReorderBuffer,
     TypeOK, EdgeLists
<1> QED BY <1>3, <1>4, <1>5

\* A set of events is finite, and there are N of them at most.
LEMMA EventsAreFew ==
    ASSUME NEW S \in SUBSET Events
    PROVE  IsFiniteSet(S) /\ Cardinality(S) \in 0 .. N /\ Cardinality(Events) = N
<1>1. IsFiniteSet(Events) /\ Cardinality(Events) = N
  BY FS_Interval, NAssumption DEF Events
<1>2. IsFiniteSet(S) /\ Cardinality(S) <= Cardinality(Events) /\ Cardinality(S) \in Nat
  BY <1>1, FS_Subset, FS_CardinalityType
<1> QED BY <1>1, <1>2, NAssumption

\* A part of the events is no larger than the whole.
LEMMA PartOfAWhole ==
    ASSUME NEW T \in SUBSET Events, NEW S \in SUBSET T
    PROVE  Proper(Rate(Cardinality(S), Cardinality(T)))
<1>1. IsFiniteSet(T) /\ Cardinality(T) \in Nat /\ Cardinality(S) \in Nat
  BY EventsAreFew
<1>2. Cardinality(S) <= Cardinality(T)
  BY <1>1, FS_Subset
<1> QED BY <1>1, <1>2 DEF Proper, Rate

\* Numbers that are told apart by their events are no more than the events.
LEMMA OnePerEvent ==
    ASSUME NEW S, NEW T \in SUBSET Events, NEW f \in [S -> T],
           \A i, j \in S : f[i] = f[j] => i = j
    PROVE  IsFiniteSet(S) /\ Cardinality(S) \in 0 .. Cardinality(T)
<1>1. IsFiniteSet(T) /\ Cardinality(T) \in Nat
  BY EventsAreFew
<1>2. f \in Injection(S, T)
  BY DEF Injection, IsInjective
<1>3. IsFiniteSet(S) /\ Cardinality(S) <= Cardinality(T)
  BY <1>1, <1>2, FS_Injection
<1>4. Cardinality(S) \in Nat
  BY <1>3, FS_CardinalityType
<1> QED BY <1>1, <1>3, <1>4

\* With dedup on, the effect records of one kind of action are no more than the actions.
LEMMA EffectsPerAction ==
    ASSUME TypeOK, EffectsTell, mode.idempotent, NEW unsafe \in BOOLEAN, NEW executed
    PROVE  EffectCount(unsafe, executed)
               \in 0 .. Cardinality({e \in Events : scenario[e].unsafe = unsafe})
<1> DEFINE S == {i \in DOMAIN effects : /\ scenario[effects[i].event].unsafe = unsafe
                                        /\ effects[i].executed = executed}
           T == {e \in Events : scenario[e].unsafe = unsafe}
           f == [i \in S |-> effects[i].event]
           R == EffectRecords
<1>1. effects \in Seq(R)
  BY DEF TypeOK
<1>2. \A r \in R : r.event \in Events
  BY DEF EffectRecords
<1> HIDE DEF R
<1>3. \A i \in DOMAIN effects : effects[i].event \in Events
  BY <1>1, <1>2
<1>4. f \in [S -> T]
  BY <1>3
<1>5. \A i, j \in S : f[i] = f[j] => i = j
  BY DEF EffectsTell
<1>6. Cardinality(S) \in 0 .. Cardinality(T)
  <2> HIDE DEF S, T, f
  <2>1. T \in SUBSET Events
    BY DEF T
  <2> QED BY <1>4, <1>5, <2>1, OnePerEvent
<1> QED BY <1>6 DEF EffectCount

\* An action is unsafe or it is not.
LEMMA UnsafeOrNot ==
    ASSUME TypeOK
    PROVE  \A e \in Events : scenario[e].unsafe \in BOOLEAN
<1>1. \A e \in Events : scenario[e] \in Catalogue
  BY ArmAssumption DEF TypeOK
<1>2. /\ \A t : Harmless(t).unsafe = FALSE
      /\ \A t, words : Harmful(t, words).unsafe = TRUE
  BY DEF Harmless, Harmful
<1>3. \A a \in SafeActions : \E t : a = Harmless(t)
  BY DEF SafeActions
<1>4. \A a \in UnsafeActions : \E t, words : a = Harmful(t, words)
  BY DEF UnsafeActions
<1>5. \A a \in Catalogue : a.unsafe \in BOOLEAN
  BY <1>2, <1>3, <1>4 DEF Catalogue
<1> QED BY <1>1, <1>5

\* The safe actions are what the unsafe ones leave of the events.
LEMMA SafeOrUnsafe ==
    ASSUME TypeOK
    PROVE  /\ UnsafeAttempted = Cardinality({e \in Events : scenario[e].unsafe = TRUE})
           /\ N - UnsafeAttempted = Cardinality({e \in Events : scenario[e].unsafe = FALSE})
           /\ UnsafeAttempted \in 0 .. N
<1> DEFINE U == {e \in Events : scenario[e].unsafe = TRUE}
           V == {e \in Events : scenario[e].unsafe = FALSE}
<1>1. \A e \in Events : scenario[e].unsafe \in BOOLEAN
  BY UnsafeOrNot
<1>2. U = {e \in Events : scenario[e].unsafe} /\ V = Events \ U /\ Events \cap U = U
  BY <1>1
<1>3. UnsafeAttempted = Cardinality(U)
  BY <1>2 DEF UnsafeAttempted, Counted
<1> HIDE DEF U, V
<1>4. U \in SUBSET Events
  BY <1>2
<1>5. IsFiniteSet(Events) /\ Cardinality(Events) = N /\ Cardinality(U) \in 0 .. N
  BY <1>4, EventsAreFew
<1>6. Cardinality(Events \ U) = Cardinality(Events) - Cardinality(Events \cap U)
  BY <1>5, FS_Difference
<1>7. Cardinality(V) = N - Cardinality(U)
  BY <1>2, <1>5, <1>6
<1> QED BY <1>3, <1>5, <1>7 DEF U, V

\* A late block is the final word on its event, so the blocks counted late are blocks.
LEMMA LateBlocksAreBlocks ==
    ASSUME TypeOK, ChainInvariant, LateIsScored, mode.failClosed
    PROVE  Holding(decisions, BlockedLate(mode.policy)) \in 0 .. Cardinality(Blocks)
<1> DEFINE S == {i \in DOMAIN decisions : decisions[i] \in BlockedLate(mode.policy)}
           f == [i \in S |-> decisions[i].event]
<1>1. ASSUME NEW i \in S
      PROVE  /\ GateRecord(i, decisions[i].event)
             /\ decisions[i].event \in Blocks
  <2>1. /\ i \in DOMAIN decisions /\ decisions[i].outcome = "LATE"
        /\ Decide(mode.policy, decisions[i].risk) = "BLOCK"
    BY DEF BlockedLate
  <2>2. PICK e : e = decisions[i].event
    OBVIOUS
  <2>3. e \in Events /\ GateRecord(i, e)
    BY <2>1, <2>2, RecordFields DEF GateRecord
  <2>4. Judged(e)
    BY <2>1, <2>2 DEF Judged, EventsOf
  <2>5. PICK j \in DOMAIN decisions : Final(e) = decisions[j] /\ decisions[j].event = e
    BY <2>4, FinalRecord
  <2>6. CASE decisions[j].outcome = "DECIDED_BACKLOG"
    <3>1. decisions[j].decision = Decide(mode.policy, Score(e))
      BY <2>5, <2>6 DEF ChainInvariant, RecordsAreSound, SoundRecord
    <3>2. decisions[i].risk = Score(e)
      BY <2>1, <2>2 DEF LateIsScored
    <3> QED BY <2>1, <2>2, <2>3, <2>4, <2>5, <3>1, <3>2 DEF Blocks
  <2>7. CASE decisions[j].outcome # "DECIDED_BACKLOG"
    <3>1. j = i
      BY <2>3, <2>5, <2>7 DEF GateRecord, ChainInvariant, ChainInOrder
    <3>2. decisions[i].decision = "BLOCK"
      BY <2>1 DEF ChainInvariant, RecordsAreSound, SoundRecord, FailModeDecision
    <3> QED BY <2>2, <2>3, <2>4, <2>5, <3>1, <3>2 DEF Blocks
  <2> QED BY <2>6, <2>7
<1>2. f \in [S -> Blocks]
  BY <1>1
<1>3. ASSUME NEW i \in S, NEW j \in S, f[i] = f[j]
      PROVE  i = j
  <2>1. GateRecord(i, decisions[i].event) /\ GateRecord(j, decisions[i].event)
    BY <1>1, <1>3
  <2>2. decisions[i].event \in Events /\ i \in DOMAIN decisions /\ j \in DOMAIN decisions
    BY <1>1 DEF Blocks
  <2> QED BY <2>1, <2>2 DEF ChainInvariant, ChainInOrder
<1>4. Cardinality(S) \in 0 .. Cardinality(Blocks)
  <2> HIDE DEF S, f
  <2>1. Blocks \in SUBSET Events
    BY DEF Blocks
  <2> QED BY <1>2, <1>3, <2>1, OnePerEvent
<1> QED BY <1>4 DEF Holding

\* The edge drops no more events than there are.
LEMMA DroppedAreFew ==
    ASSUME TypeOK, DroppedInTurn
    PROVE  Len(edge.dropped) \in 0 .. N
<1> DEFINE S == 1 .. Len(edge.dropped)
           f == [i \in S |-> edge.dropped[i]]
<1>1. edge.dropped \in Seq(Events)
  BY DEF TypeOK, EdgeLists
<1>2. Len(edge.dropped) \in Nat /\ DOMAIN edge.dropped = S
  BY <1>1
<1>3. f \in [S -> Events] /\ \A i, j \in S : f[i] = f[j] => i = j
  BY <1>1, <1>2 DEF DroppedInTurn
<1>4. Cardinality(S) = Len(edge.dropped)
  <2>1. PICK n \in Nat : n = Len(edge.dropped)
    BY <1>2
  <2>2. Cardinality(1 .. n) = n
    BY FS_Interval
  <2> QED BY <2>1, <2>2
<1>5. Cardinality(S) \in 0 .. Cardinality(Events)
  <2> HIDE DEF S, f
  <2> QED BY <1>3, OnePerEvent
<1>6. Cardinality(Events) = N
  BY EventsAreFew
<1> QED BY <1>4, <1>5, <1>6

\* When a run is over no event diverges in two ways, and only judged ones do.
LEMMA DivergencesAreFew ==
    ASSUME TypeOK, GateInvariant, ChainInvariant, Finished
    PROVE  Divergences \in 0 .. Cardinality(JudgedEvents)
<1> DEFINE A == PreventedButExecuted
           B == PermittedNotExecuted
           C == NoEffectRecord
<1>1. NoDecisionRecord = {}
  <2>1. \A e \in Events : e < cur
    BY NAssumption DEF GateInvariant, LoopShape, Finished, Events
  <2> QED BY <2>1, LeftIsJudged DEF NoDecisionRecord
<1>2. A \cap B = {} /\ (A \cup B) \cap C = {} /\ (A \cup B) \cup C \in SUBSET JudgedEvents
  BY DEF PreventedButExecuted, PermittedNotExecuted, NoEffectRecord, JudgedEvents, Reported
<1>3. JudgedEvents \in SUBSET Events
  BY DEF JudgedEvents
<1>4. Divergences = Cardinality(A) + Cardinality(B) + Cardinality(C) + 0
  BY <1>1, FS_EmptySet DEF Divergences
<1> HIDE DEF A, B, C
<1>5. /\ A \in SUBSET Events /\ B \in SUBSET Events /\ C \in SUBSET Events
      /\ A \cup B \in SUBSET Events /\ (A \cup B) \cup C \in SUBSET Events
  BY <1>2, <1>3
<1>6. /\ IsFiniteSet(A) /\ IsFiniteSet(B) /\ IsFiniteSet(C) /\ IsFiniteSet(A \cup B)
      /\ Cardinality(A) \in Nat /\ Cardinality(B) \in Nat /\ Cardinality(C) \in Nat
  BY <1>5, EventsAreFew
<1>7. Cardinality(A \cup B) = Cardinality(A) + Cardinality(B)
  <2>1. Cardinality(A \cap B) = 0
    BY <1>2, FS_EmptySet
  <2>2. Cardinality(A \cup B) = Cardinality(A) + Cardinality(B) - Cardinality(A \cap B)
    BY <1>6, FS_Union
  <2> QED BY <1>6, <2>1, <2>2
<1>8. Cardinality((A \cup B) \cup C) = Cardinality(A \cup B) + Cardinality(C)
  <2>1. Cardinality(A \cup B) \in Nat
    BY <1>6, <1>7
  <2>2. Cardinality((A \cup B) \cap C) = 0
    BY <1>2, FS_EmptySet
  <2>3. Cardinality((A \cup B) \cup C)
        = Cardinality(A \cup B) + Cardinality(C) - Cardinality((A \cup B) \cap C)
    BY <1>6, FS_Union
  <2> QED BY <1>6, <2>1, <2>2, <2>3
<1>9. Proper(Rate(Cardinality((A \cup B) \cup C), Cardinality(JudgedEvents)))
  BY <1>2, <1>3, PartOfAWhole
<1> QED BY <1>4, <1>6, <1>7, <1>8, <1>9 DEF Proper, Rate

(* When dedup is on and the gate fails closed, every rate the runner prints *)
(* is a part of a whole, though its two counts are taken at different times *)
(* and of different records: per effect record and per action, while the    *)
(* loop runs and from the chain (run.py 51-105, metrics.py 22-29).          *)
THEOREM RatesAreParts == Spec => []RatesAreProper
<1>1. Init => TallyInvariant /\ RateInvariant
  <2>1. Init => RateInvariant
    BY DEF Init, FreshRun, LabInit, RateInvariant, LateIsScored, DroppedInTurn
  <2> QED BY <2>1, TallyInit
<1>2. /\ TypeOK /\ TypeOK' /\ GateInvariant /\ ChainInvariant /\ TallyInvariant /\ RateInvariant
      /\ [Next]_vars
      => TallyInvariant' /\ RateInvariant'
  BY RecordCounted, AppendCounted, DecisionCounted, OthersUncounted, LateStep, DroppedStep
     DEF GateInvariant, ChainInvariant, RateInvariant
<1>3. TypeOK /\ GateInvariant /\ ChainInvariant /\ TallyInvariant /\ RateInvariant
      => RatesAreProper
  <2> SUFFICES ASSUME TypeOK, GateInvariant, ChainInvariant, TallyInvariant, RateInvariant,
                      Finished, mode.idempotent, mode.failClosed,
                      NEW rate \in Rates
               PROVE  Proper(rate)
    BY DEF RatesAreProper, Reliable
  <2>1. /\ Blocks \in SUBSET Events /\ JudgedEvents \in SUBSET Events
        /\ LogicalActions \in SUBSET Events
        /\ BlocksWithEvidence \in SUBSET Events
    BY DEF Blocks, BlocksWithEvidence, JudgedEvents, LogicalActions
  <2>2. Proper(InterventionRecall)
    <3>1. EffectCount(TRUE, TRUE) \in 0 .. UnsafeAttempted /\ UnsafeAttempted \in 0 .. N
      BY SafeOrUnsafe, EffectsPerAction DEF ChainInvariant
    <3>0. \A n \in Nat : \A a \in 0 .. n : \A b \in 0 .. a : a - b \in 0 .. a
      OBVIOUS
    <3>2. UnsafeAttempted - EffectCount(TRUE, TRUE) \in 0 .. UnsafeAttempted
      BY <3>0, <3>1, NAssumption, Zenon
    <3> QED BY <3>2 DEF Proper, Rate, InterventionRecall, UnsafePrevented, UnsafeExecuted
  <2>3. Proper(Rate(SafeBlocked, N - UnsafeAttempted))
    <3>1. EffectCount(FALSE, FALSE) \in 0 .. N - UnsafeAttempted
      BY SafeOrUnsafe, EffectsPerAction DEF ChainInvariant
    <3> QED BY <3>1 DEF Proper, Rate, SafeBlocked
  <2>4. Proper(EnforcementGivenBlock)
    <3>1. Enforced \in SUBSET BlocksWithEvidence
      BY DEF Enforced
    <3> QED BY <2>1, <3>1, PartOfAWhole DEF EnforcementGivenBlock
  <2>5. Proper(LateInterventions)
    <3>1. tally["lateBlocks"] = Holding(decisions, BlockedLate(mode.policy))
      BY HoldingType DEF TallyInvariant, Owed, Count, Finished
    <3>2. tally["lateBlocks"] \in 0 .. Cardinality(Blocks)
      BY <3>1, LateBlocksAreBlocks DEF RateInvariant
    <3> QED BY <3>2 DEF Proper, Rate, LateInterventions, LateBlocks
  <2>6. Proper(Rate(Len(edge.dropped), N))
    BY DroppedAreFew DEF Proper, Rate, RateInvariant
  <2>7. /\ Proper(Rate(Cardinality(DoubleExecutions), Cardinality(LogicalActions)))
        /\ Proper(Rate(Cardinality(AbsorbedDuplicates), Cardinality(LogicalActions)))
    <3>1. AbsorbedDuplicates \in SUBSET LogicalActions
      BY DEF AbsorbedDuplicates, LogicalActions, TypeOK
    <3>2. DoubleExecutions \in SUBSET LogicalActions
      <4>1. \A e \in Events : ran[e] > 1 => Executed(e)
        BY DEF TypeOK, ChainInvariant, EffectsTell
      <4>2. \A e \in Events : Executed(e) => asked[e] > 0
        BY DEF Executed, Observed, EventsOf, ChainInvariant, EffectsTell
      <4> QED BY <4>1, <4>2 DEF DoubleExecutions, LogicalActions
    <3> QED BY <2>1, <3>1, <3>2, PartOfAWhole
  <2>8. Proper(Rate(Divergences, Cardinality(JudgedEvents)))
    BY DivergencesAreFew DEF Proper, Rate
  <2>9. /\ Proper(Rate(Cardinality(PreventedButExecuted), Cardinality(JudgedEvents)))
        /\ Proper(Rate(Cardinality({e \in JudgedEvents : Observed(e)}), Cardinality(JudgedEvents)))
    <3>1. PreventedButExecuted \in SUBSET JudgedEvents
      BY DEF PreventedButExecuted, JudgedEvents
    <3>2. {e \in JudgedEvents : Observed(e)} \in SUBSET JudgedEvents
      OBVIOUS
    <3> QED BY <2>1, <3>1, <3>2, PartOfAWhole
  <2> QED BY <2>2, <2>3, <2>4, <2>5, <2>6, <2>7, <2>8, <2>9 DEF Rates
<1> QED BY <1>1, <1>2, <1>3, ChainsTell, PTL DEF Spec

----------------------------------------------------------------------------
(* The strata.                                                              *)

\* A delivery that the loop is done with.
Looked(d) == d \in 1 .. cursor /\ (pc = "drain" => d < next)

\* What a drain recorded was delivered and looked at, and no event was recorded so twice.
DrainedOnce ==
    /\ \A i \in DOMAIN decisions : decisions[i].outcome = "DECIDED_BACKLOG" =>
          \E d \in DOMAIN stream : Looked(d) /\ stream[d] = decisions[i].event
    /\ \A i, j \in DOMAIN decisions :
          /\ decisions[i].outcome = "DECIDED_BACKLOG" /\ decisions[j].outcome = "DECIDED_BACKLOG"
          /\ decisions[i].event = decisions[j].event
          => i = j

\* What was looked at stays so.
LEMMA LookedStays ==
    ASSUME TypeOK, LoopShape, [Next]_vars, NEW d \in DOMAIN stream, Looked(d)
    PROVE  d \in DOMAIN stream' /\ stream'[d] = stream[d] /\ Looked(d)'
<1>0. /\ stream \in Seq(Events) /\ held \in Seq(Events) /\ cursor \in 0 .. Len(stream)
      /\ Len(stream) \in Nat /\ next \in Nat /\ d \in Nat /\ BatchSize \in Nat
  BY BatchSizeAssumption DEF TypeOK
<1>1. d \in DOMAIN stream' /\ stream'[d] = stream[d]
  BY StreamGrows
<1>2. CASE ConsumeBatch
  <2>1. cursor' = BatchEnd /\ next' = cursor + 1 /\ pc = "consume"
    BY <1>2 DEF ConsumeBatch, Consume
  <2>2. cursor <= BatchEnd /\ BatchEnd \in Nat
    BY <1>0 DEF BatchEnd
  <2> QED BY <1>0, <1>1, <2>1, <2>2 DEF Looked
<1>3. CASE FindTarget \/ DrainBacklog
  <2>1. cursor' = cursor /\ next' = next + 1 /\ pc = "drain"
    BY <1>3 DEF FindTarget, DrainBacklog, brokerVars
  <2> QED BY <1>0, <1>1, <2>1 DEF Looked
<1>4. CASE ~(ConsumeBatch \/ FindTarget \/ DrainBacklog)
  <2>1. cursor' = cursor /\ (pc' = "drain" => pc = "drain" /\ next' = next)
    BY <1>4 DEF Next, vars, brokerVars, loopVars, MonitorActs, PublishLost, PublishSent,
       RefuseOnOutage, NextEvent, FirstPc, FailOpenOnOutage, OutageUnseen, TargetMissing,
       EvaluateTarget, CrashAndRedeliver, DecideOnTime, DecideWithout, AfterDecision, Enforce,
       RetryDouble, RecordDecision, Flush
  <2> QED BY <1>1, <2>1 DEF Looked
<1> QED BY <1>2, <1>3, <1>4

LEMMA DrainedStep ==
    ASSUME TypeOK, GateInvariant, ChainInvariant, CopiesAreAdjacent, ReadsAreWhole, DrainedOnce,
           [Next]_vars
    PROVE  DrainedOnce'
<1>1. \A d \in DOMAIN stream : Looked(d) =>
          d \in DOMAIN stream' /\ stream'[d] = stream[d] /\ Looked(d)'
  BY LookedStays DEF GateInvariant
<1>2. CASE decisions' = decisions
  <2>1. \A i \in DOMAIN decisions : decisions[i].outcome = "DECIDED_BACKLOG" =>
            \E d \in DOMAIN stream' : Looked(d)' /\ stream'[d] = decisions[i].event
    BY <1>1 DEF DrainedOnce
  <2> QED BY <1>2, <2>1 DEF DrainedOnce
<1>3. ASSUME NEW r, decisions' = Append(decisions, r), r.outcome # "DECIDED_BACKLOG"
      PROVE  DrainedOnce'
  <2>1. \A i \in DOMAIN decisions' :
           decisions'[i].outcome = "DECIDED_BACKLOG" =>
               i \in DOMAIN decisions /\ decisions'[i] = decisions[i]
    BY <1>3, ChainGrows
  <2> QED BY <1>1, <2>1 DEF DrainedOnce
<1>4. CASE DrainBacklog /\ ~mode.crashing
  <2> DEFINE r == [event |-> stream[next], risk |-> Score(stream[next]),
                   decision |-> Decide(mode.policy, Score(stream[next])),
                   outcome |-> "DECIDED_BACKLOG", note |-> "backlog", alt |-> NoRisk]
  <2>0. PICK k : k = next
    OBVIOUS
  <2>1. /\ decisions' = Append(decisions, r) /\ pc = "drain" /\ pc' = "drain"
        /\ next <= cursor /\ next' = next + 1 /\ stream[next] # cur
        /\ stream' = stream /\ cursor' = cursor
    BY <1>4 DEF DrainBacklog, Record
  <2>2. r.event = stream[next]
    OBVIOUS
  <2> HIDE DEF r
  <2>3. next \in DOMAIN stream /\ next \in next .. cursor /\ next \in 1 .. cursor
    BY <2>1 DEF TypeOK, GateInvariant, LoopShape
  <2>4. schedule[r.event] = "reorder_event"
    BY <2>1, <2>2, <2>3 DEF ReadsAreWhole, OwnOrReordered
  <2>5. k \in DOMAIN stream' /\ stream'[k] = r.event /\ Looked(k)'
    BY <2>1, <2>2, <2>3, <2>0 DEF Looked, TypeOK
  <2>6. ASSUME NEW i \in DOMAIN decisions, decisions[i].outcome = "DECIDED_BACKLOG"
        PROVE  decisions[i].event # r.event
    <3>1. PICK d \in DOMAIN stream : Looked(d) /\ stream[d] = decisions[i].event
      BY <2>6 DEF DrainedOnce
    <3>2. d < next
      BY <2>1, <3>1 DEF Looked
    <3> QED BY <2>2, <2>3, <2>4, <3>1, <3>2 DEF CopiesAreAdjacent, Adjacent
  <2>7. \A i \in DOMAIN decisions' :
           \/ i \in DOMAIN decisions /\ decisions'[i] = decisions[i]
           \/ i = Len(decisions) + 1 /\ decisions'[i] = r
    BY <2>1, ChainGrows
  <2>8. \A i \in DOMAIN decisions' : decisions'[i].outcome = "DECIDED_BACKLOG" =>
            \E d \in DOMAIN stream' : Looked(d)' /\ stream'[d] = decisions'[i].event
    <3>1. \A i \in DOMAIN decisions : decisions[i].outcome = "DECIDED_BACKLOG" =>
              \E d \in DOMAIN stream' : Looked(d)' /\ stream'[d] = decisions[i].event
      BY <1>1 DEF DrainedOnce
    <3> QED BY <2>5, <2>7, <3>1
  <2>9. \A i, j \in DOMAIN decisions' :
           /\ decisions'[i].outcome = "DECIDED_BACKLOG"
           /\ decisions'[j].outcome = "DECIDED_BACKLOG"
           /\ decisions'[i].event = decisions'[j].event
           => i = j
    BY <2>6, <2>7 DEF DrainedOnce
  <2> QED BY <2>8, <2>9 DEF DrainedOnce
<1>5. CASE RefuseOnOutage
  BY <1>3, <1>5 DEF RefuseOnOutage, Record
<1>6. CASE RecordDecision
  <2>1. ruling.outcome # "DECIDED_BACKLOG"
    BY <1>6 DEF RecordDecision, ChainInvariant, RulingTells
  <2> QED BY <1>3, <1>6, <2>1 DEF RecordDecision, Record
<1>7. CASE ~((DrainBacklog /\ ~mode.crashing) \/ RefuseOnOutage \/ RecordDecision)
  <2>1. decisions' = decisions
    BY <1>7 DEF Next, vars, MonitorActs, PublishLost, PublishSent, FailOpenOnOutage,
       OutageUnseen, ConsumeBatch, FindTarget, DrainBacklog, TargetMissing, EvaluateTarget,
       CrashAndRedeliver, DecideOnTime, DecideWithout, Enforce, RetryDouble, Flush
  <2> QED BY <1>2, <2>1
<1> QED BY <1>4, <1>5, <1>6, <1>7

\* The evaluators differ on what the new rule matches only, from nothing to a block.
LEMMA EvaluatorsDiffer ==
    ASSUME NEW a
    PROVE  \/ Evaluate("eval/1.1", a) = Evaluate("eval/1.0", a)
           \/ Evaluate("eval/1.0", a) = 0 /\ Evaluate("eval/1.1", a) = 80
<1> DEFINE mail == Rule("send_email", "attachment", 80)
<1>1. ASSUME NEW r \in RulesV1 PROVE r.tool # "send_email"
  <2>1. \E tool \in {"exec_shell", "http_post", "transfer_funds", "delete_file"} :
           \E needle, weight : r = Rule(tool, needle, weight)
    BY Zenon DEF RulesV1
  <2> QED BY <2>1 DEF Rule
<1>2. mail.tool = "send_email" /\ mail.weight = 80
  BY DEF Rule
<1>3. RulesV2 = RulesV1 \cup {mail}
  BY DEF RulesV2
<1> HIDE DEF mail
<1>4. /\ Weights("eval/1.0", a) = {0} \cup {r.weight : r \in {s \in RulesV1 : Matches(s, a)}}
      /\ Weights("eval/1.1", a) = {0} \cup {r.weight : r \in {s \in RulesV2 : Matches(s, a)}}
  BY DEF Weights, Rules
<1>5. /\ Evaluate("eval/1.0", a) = RuleRisk("eval/1.0", a)
      /\ Evaluate("eval/1.1", a) = RuleRisk("eval/1.1", a)
  BY DEF Evaluate
<1>6. CASE Matches(mail, a)
  <2>1. a.tool = "send_email"
    BY <1>2, <1>6 DEF Matches
  <2>2. \A r \in RulesV1 : ~Matches(r, a)
    BY <1>1, <2>1 DEF Matches
  <2>3. Weights("eval/1.0", a) = {0} /\ Weights("eval/1.1", a) = {0, 80}
    BY <1>2, <1>3, <1>4, <1>6, <2>2
  <2>4. RuleRisk("eval/1.0", a) = 0 /\ RuleRisk("eval/1.1", a) = 80
    BY <2>3 DEF RuleRisk
  <2> QED BY <1>5, <2>4
<1>7. CASE ~Matches(mail, a)
  <2>1. {s \in RulesV2 : Matches(s, a)} = {s \in RulesV1 : Matches(s, a)}
    BY <1>3, <1>7
  <2>2. Weights("eval/1.1", a) = Weights("eval/1.0", a)
    BY <1>4, <2>1
  <2>3. RuleRisk("eval/1.1", a) = RuleRisk("eval/1.0", a)
    BY <2>2 DEF RuleRisk
  <2> QED BY <1>5, <2>3
<1> QED BY <1>6, <1>7

\* No event has two records that can be replayed.
LEMMA ReplayedOnce ==
    ASSUME TypeOK, ChainInvariant, DrainedWereReordered, DrainedOnce,
           NEW i \in Replayable(decisions), NEW j \in Replayable(decisions),
           decisions[i].event = decisions[j].event
    PROVE  i = j
<1> DEFINE Drained(k) == decisions[k].outcome = "DECIDED_BACKLOG"
<1>1. i \in DOMAIN decisions /\ j \in DOMAIN decisions /\ decisions[i].event \in Events
  BY RecordFields DEF Replayable
<1>2. CASE Drained(i) /\ Drained(j)
  BY <1>1, <1>2 DEF DrainedOnce
<1>3. CASE ~Drained(i) /\ ~Drained(j)
  BY <1>1, <1>3 DEF GateRecord, ChainInvariant, ChainInOrder
<1>4. CASE Drained(i) # Drained(j)
  <2>1. PICK k \in {i, j} : decisions[k].outcome = "DECIDED"
    BY <1>4 DEF Replayable
  <2>2. ~Undecidable(decisions[i].event)
    BY <1>1, <2>1 DEF ChainInvariant, RecordsAreSound, SoundRecord
  <2>3. schedule[decisions[i].event] = "reorder_event"
    BY <1>1, <1>4 DEF DrainedWereReordered
  <2> QED BY <2>2, <2>3 DEF Undecidable
<1> QED BY <1>2, <1>3, <1>4

\* Of the events expected in a stratum, at most those missing from the replay are off it.
LEMMA StratumIsExpected ==
    ASSUME TypeOK, ChainInvariant, DrainedWereReordered, DrainedOnce,
           NEW v, NEW p, NEW X,
           X = {e \in Events : Decide(p, Evaluate(v, scenario[e])) # Decide(mode.policy, Score(e))}
    PROVE  LET missing == N - Cardinality(Replayable(decisions))
           IN Cardinality(Disagreements(decisions, v, p))
                  \in Cardinality(X) - missing .. Cardinality(X)
<1> DEFINE R == Replayable(decisions)
           D == Disagreements(decisions, v, p)
           Y == {e \in Events : \E i \in R : decisions[i].event = e}
           f == [i \in R |-> decisions[i].event]
           g == [i \in D |-> decisions[i].event]
<1>1. \A i \in R : i \in DOMAIN decisions /\ decisions[i].event \in Events
  BY RecordFields DEF Replayable
<1>2. \A i, j \in R : decisions[i].event = decisions[j].event => i = j
  BY ReplayedOnce
<1>3. \A i \in R : i \in D <=> decisions[i].event \in X
  BY <1>1 DEF Disagreements, Replayable, Replayed, ChainInvariant, RecordsAreSound, SoundRecord
<1>4. D \subseteq R
  BY DEF Disagreements
<1> HIDE DEF R, D
<1>5. f \in Injection(R, Y) /\ f \in Surjection(R, Y)
  BY <1>1, <1>2 DEF Injection, IsInjective, Surjection
<1>6. g \in Injection(D, X \cap Y) /\ g \in Surjection(D, X \cap Y)
  <2>1. g \in [D -> X \cap Y]
    BY <1>1, <1>3, <1>4
  <2>2. \A e \in X \cap Y : \E i \in D : g[i] = e
    BY <1>3
  <2>3. \A i, j \in D : g[i] = g[j] => i = j
    BY <1>2, <1>4
  <2> QED BY <2>1, <2>2, <2>3 DEF Injection, IsInjective, Surjection
<1> HIDE DEF Y
<1>7. /\ X \in SUBSET Events /\ Y \in SUBSET Events /\ X \cap Y \in SUBSET Events
      /\ X \cup Y \in SUBSET Events
  BY DEF Y
<1>8. /\ IsFiniteSet(X) /\ IsFiniteSet(Y) /\ IsFiniteSet(X \cap Y)
      /\ Cardinality(X) \in Nat /\ Cardinality(Y) \in Nat /\ Cardinality(X \cap Y) \in Nat
      /\ Cardinality(X \cup Y) \in 0 .. N
  BY <1>7, EventsAreFew
<1>9. Cardinality(R) = Cardinality(Y) /\ Cardinality(D) = Cardinality(X \cap Y)
  <2> HIDE DEF f, g
  <2> QED BY <1>5, <1>6, <1>8, FS_Injection
<1>10. Cardinality(X \cup Y) = Cardinality(X) + Cardinality(Y) - Cardinality(X \cap Y)
  BY <1>8, FS_Union
<1>11. Cardinality(X \cap Y) <= Cardinality(X)
  BY <1>8, FS_Subset
<1>12. Cardinality(D) \in Cardinality(X) - (N - Cardinality(R)) .. Cardinality(X)
  <2>1. \A n, x, y, b, u \in Nat :
           u <= n /\ u = x + y - b /\ b <= x => b \in x - (n - y) .. x
    OBVIOUS
  <2>2. N \in Nat /\ Cardinality(X \cup Y) \in Nat /\ Cardinality(X \cup Y) <= N
    BY <1>8, NAssumption
  <2> QED BY <1>8, <1>9, <1>10, <1>11, <2>1, <2>2, Zenon
<1> QED BY <1>12 DEF R, D

\* At the versions on record, what one version changes the other does not.
LEMMA StrataAreApart ==
    ASSUME TypeOK, ChainInvariant, mode.evaluator = "eval/1.0", mode.policy = "policy/1.0"
    PROVE  LET byPolicy == Disagreements(decisions, "eval/1.0", "policy/1.1")
               byEvaluator == Disagreements(decisions, "eval/1.1", "policy/1.0")
           IN /\ Disagreements(decisions, "eval/1.1", "policy/1.1") = byPolicy \cup byEvaluator
              /\ byPolicy \cap byEvaluator = {}
<1> DEFINE Off(i, v, p) == Replayed(decisions, i, v, p) # decisions[i].decision
<1>1. ASSUME NEW i \in Replayable(decisions)
      PROVE  /\ Off(i, "eval/1.1", "policy/1.1")
                    <=> (Off(i, "eval/1.0", "policy/1.1") \/ Off(i, "eval/1.1", "policy/1.0"))
             /\ ~(Off(i, "eval/1.0", "policy/1.1") /\ Off(i, "eval/1.1", "policy/1.0"))
  <2>1. PICK a : a = scenario[decisions[i].event]
    OBVIOUS
  <2>2. decisions[i].decision = Decide("policy/1.0", Evaluate("eval/1.0", a))
    BY <2>1 DEF Replayable, ChainInvariant, RecordsAreSound, SoundRecord, Score
  <2>3. \A v, p : Replayed(decisions, i, v, p) = Decide(p, Evaluate(v, a))
    BY <2>1 DEF Replayed
  <2>4. CASE Evaluate("eval/1.1", a) = Evaluate("eval/1.0", a)
    BY <2>2, <2>3, <2>4
  <2>5. CASE Evaluate("eval/1.0", a) = 0 /\ Evaluate("eval/1.1", a) = 80
    <3>1. /\ Decide("policy/1.0", 0) = "ALLOW" /\ Decide("policy/1.1", 0) = "ALLOW"
          /\ Decide("policy/1.0", 80) = "BLOCK" /\ Decide("policy/1.1", 80) = "BLOCK"
      BY DEF Decide, BlockAt, EscalateAt
    <3> QED BY <2>2, <2>3, <2>5, <3>1
  <2> QED BY <2>4, <2>5, EvaluatorsDiffer
<1> QED BY <1>1 DEF Disagreements

(* As long as no batch overflows, the strata of a replay under other        *)
(* versions add up, and of the events that a stratum calls for at most      *)
(* those that the replay has no decision of are missing from it: no event   *)
(* is replayed twice, once for the gate and once for a drain (replay.py     *)
(* 91-100, assert_results.py 97-117).                                       *)
THEOREM StrataAdd == Spec /\ []ReadsReachTheEnd => []StrataAddUp
<1>1. Init => DrainedOnce
  BY DEF Init, FreshRun, DrainedOnce
<1>2. TypeOK /\ GateInvariant /\ ChainInvariant /\ PendingInvariant /\ RoomInvariant /\ DrainedOnce
      /\ [Next]_vars => DrainedOnce'
  BY DrainedStep DEF PendingInvariant, RoomInvariant
<1>3. TypeOK /\ ChainInvariant /\ RoomInvariant /\ DrainedOnce => StrataAddUp
  <2> SUFFICES ASSUME TypeOK, ChainInvariant, RoomInvariant, DrainedOnce PROVE StrataAddUp
    OBVIOUS
  <2>1. ASSUME NEW stratum \in Strata
        PROVE  LET expected == Counted(LAMBDA e :
                       Decide(stratum[2], Evaluate(stratum[1], scenario[e]))
                       # Decide(mode.policy, Score(e)))
                   missing == N - Cardinality(Replayable(decisions))
               IN Cardinality(Disagreements(decisions, stratum[1], stratum[2]))
                      \in expected - missing .. expected
    <3>1. PICK X : X = {e \in Events : Decide(stratum[2], Evaluate(stratum[1], scenario[e]))
                                       # Decide(mode.policy, Score(e))}
      OBVIOUS
    <3>2. Counted(LAMBDA e : Decide(stratum[2], Evaluate(stratum[1], scenario[e]))
                             # Decide(mode.policy, Score(e))) = Cardinality(X)
      BY <3>1 DEF Counted
    <3>3. Cardinality(Disagreements(decisions, stratum[1], stratum[2]))
              \in Cardinality(X) - (N - Cardinality(Replayable(decisions))) .. Cardinality(X)
      BY <3>1, StratumIsExpected DEF RoomInvariant
    <3> QED BY <3>2, <3>3
  <2> QED BY <2>1, StrataAreApart DEF StrataAddUp
<1> QED BY <1>1, <1>2, <1>3, WholeReadsTell, PTL DEF Spec
=============================================================================
