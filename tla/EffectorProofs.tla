--------------------------- MODULE EffectorProofs ---------------------------
(* Theorems about the effector under any caller, for every number of events *)
(* and calls.                                                               *)
EXTENDS EffectorCaller, FiniteSetTheorems, TLAPS

\* The types and the at-most-once bound survive a call.
LEMMA CallStep ==
    ASSUME TypeOK, RunsAtMostOnce, NEW e \in Events, NEW call \in Calls, Call(e, call),
           \A d \in Events : ran[d] <= asked[d]
    PROVE  TypeOK' /\ RunsAtMostOnce' /\ \A d \in Events : ran'[d] <= asked'[d]
<1> DEFINE executed == Executes(call.permitted, call.reported)
<1> DEFINE runs == ran[e] + (IF executed THEN 1 ELSE 0)
<1> DEFINE record == [event |-> e, executed |-> executed,
                      deliveries |-> asked[e] + 1, executions |-> runs]
<1>1. mode' = mode /\ asked' = [asked EXCEPT ![e] = @ + 1]
  BY DEF Call, Execute
<1>2. CASE Absorbs(e)
  <2>1. ran' = ran /\ effects' = effects
    BY <1>2 DEF Call, Execute
  <2> QED BY <1>1, <2>1 DEF TypeOK, RunsAtMostOnce
<1>3. CASE ~Absorbs(e)
  <2>1. ran' = [ran EXCEPT ![e] = runs] /\ effects' = Append(effects, record)
    BY <1>3 DEF Call, Execute
  <2>2. executed \in BOOLEAN
    BY DEF Executes, Calls
  <2>3. runs \in Nat /\ runs <= ran[e] + 1 /\ asked[e] + 1 \in Nat
    BY DEF TypeOK
  <2>4. record \in EffectRecords
    BY <2>2, <2>3 DEF EffectRecords
  <2> HIDE DEF runs, record
  <2>5. TypeOK'
    BY <1>1, <2>1, <2>3, <2>4 DEF TypeOK
  <2>6. mode.idempotent => runs <= 1
    <3>1. mode.idempotent => ~(asked[e] > 0)
      BY <1>3 DEF Absorbs
    <3>2. asked[e] \in Nat /\ ran[e] \in Nat /\ ran[e] <= asked[e]
      BY DEF TypeOK
    <3> QED BY <2>3, <3>1, <3>2
  <2>7. RunsAtMostOnce'
    BY <1>1, <2>1, <2>6 DEF TypeOK, RunsAtMostOnce
  <2>8. \A d \in Events : ran'[d] <= asked'[d]
    BY <1>1, <2>1, <2>3 DEF TypeOK
  <2> QED BY <2>5, <2>7, <2>8
<1> QED BY <1>2, <1>3

\* What holds between calls: the types, the bound, and no run without a request.
EffectorInvariant == TypeOK /\ RunsAtMostOnce /\ \A d \in Events : ran[d] <= asked[d]

\* It holds before the first call.
LEMMA EffectorInit0 == Init => EffectorInvariant
<1> SUFFICES ASSUME Init PROVE EffectorInvariant
  OBVIOUS
<1>1. \A e \in Events : asked[e] = 0 /\ ran[e] = 0
  BY DEF Init, EffectorInit
<1>2. TypeOK
  BY DEF Init, EffectorInit, TypeOK
<1> QED BY <1>1, <1>2 DEF EffectorInvariant, RunsAtMostOnce

\* And every call, or none, keeps it.
LEMMA EffectorStep ==
    EffectorInvariant /\ [Next]_CallerVars => EffectorInvariant'
<1> SUFFICES ASSUME EffectorInvariant, [Next]_CallerVars PROVE EffectorInvariant'
  OBVIOUS
<1>1. CASE Next
  BY <1>1, CallStep DEF Next, EffectorInvariant
<1>2. CASE UNCHANGED CallerVars
  BY <1>2 DEF CallerVars, effectVars, EffectorInvariant, TypeOK, RunsAtMostOnce
<1> QED BY <1>1, <1>2

(* With dedup on, an action runs at most once, whoever calls the effector   *)
(* and however often.                                                       *)
THEOREM EffectorRunsOnce == Spec => [](TypeOK /\ RunsAtMostOnce)
<1>1. EffectorInvariant => TypeOK /\ RunsAtMostOnce
  BY DEF EffectorInvariant
<1> QED BY EffectorInit0, EffectorStep, <1>1, PTL DEF Spec

(* With dedup on, the effector is an abstract gate: the first call settles  *)
(* an event for good, whatever later calls permit.                          *)
THEOREM EffectorSettles == Spec => FirstCallSettles
<1> DEFINE answer == [e \in Events |-> Answer(e)]
<1>1. Init => Gate!Init
  <2> SUFFICES ASSUME Init PROVE Gate!Init
    OBVIOUS
  <2>1. \A e \in Events : asked[e] = 0 /\ ran[e] = 0
    BY DEF Init, EffectorInit
  <2> QED BY <2>1 DEF Gate!Init, Answer
<1>2. EffectorInvariant /\ [Next]_CallerVars => [Gate!Next]_(Gate!gateVars)
  <2> SUFFICES ASSUME EffectorInvariant, [Next]_CallerVars PROVE [Gate!Next]_(Gate!gateVars)
    OBVIOUS
  <2>1. CASE UNCHANGED CallerVars
    BY <2>1 DEF CallerVars, effectVars, Gate!gateVars, Answer
  <2>2. CASE Next
    <3>1. PICK e \in Events, call \in Calls : Call(e, call)
      BY <2>2 DEF Next
    <3>2. asked' = [asked EXCEPT ![e] = @ + 1] /\ mode' = mode
      BY <3>1 DEF Call, Execute
    <3>3. /\ asked \in [Events -> Nat] /\ ran \in [Events -> Nat]
          /\ \A d \in Events : ran[d] <= asked[d]
      BY DEF EffectorInvariant, TypeOK
    <3>4. CASE ~mode.idempotent
      <4>1. answer' = answer
        BY <3>2, <3>4 DEF Answer
      <4> QED BY <4>1 DEF Gate!gateVars
    <3>5. CASE mode.idempotent /\ Absorbs(e)
      <4>1. ran' = ran /\ asked[e] > 0
        BY <3>1, <3>5 DEF Call, Execute, Absorbs
      <4>2. \A d \in Events : asked'[d] > 0 <=> asked[d] > 0
        BY <3>2, <3>3, <4>1
      <4>3. answer' = answer
        BY <3>2, <4>1, <4>2 DEF Answer
      <4> QED BY <4>3 DEF Gate!gateVars
    <3>6. CASE mode.idempotent /\ ~Absorbs(e)
      <4>1. asked[e] = 0 /\ ran[e] = 0
        BY <3>3, <3>6 DEF Absorbs
      <4>2. answer[e] = "open"
        BY <4>1 DEF Answer
      <4>3. ran' = [ran EXCEPT ![e] =
                      ran[e] + (IF Executes(call.permitted, call.reported) THEN 1 ELSE 0)]
        BY <3>1, <3>6 DEF Call, Execute
      <4>4. \A d \in Events : d # e => ran'[d] = ran[d] /\ asked'[d] = asked[d]
        BY <3>2, <3>3, <4>3
      <4>5. asked'[e] = 1
        BY <3>2, <3>3, <4>1
      <4>6. \A d \in Events : d # e => Answer(d)' = Answer(d)
        BY <3>2, <4>4 DEF Answer
      <4>7. CASE Executes(call.permitted, call.reported)
        <5>1. ran'[e] = 1
          BY <3>3, <4>1, <4>3, <4>7
        <5>2. Answer(e)' = "ran"
          BY <3>2, <3>6, <5>1 DEF Answer
        <5>3. answer' = [answer EXCEPT ![e] = "ran"]
          BY <4>6, <5>2
        <5> QED BY <3>1, <4>2, <5>3 DEF Gate!Next, Gate!Run
      <4>8. CASE ~Executes(call.permitted, call.reported)
        <5>1. ran'[e] = 0
          BY <3>3, <4>1, <4>3, <4>8
        <5>2. Answer(e)' = "refused"
          BY <3>2, <3>6, <4>5, <5>1 DEF Answer
        <5>3. answer' = [answer EXCEPT ![e] = "refused"]
          BY <4>6, <5>2
        <5> QED BY <3>1, <4>2, <5>3 DEF Gate!Next, Gate!Refuse
      <4> QED BY <4>7, <4>8
    <3> QED BY <3>4, <3>5, <3>6
  <2> QED BY <2>1, <2>2
<1> QED BY <1>1, <1>2, EffectorInit0, EffectorStep, PTL DEF Spec, FirstCallSettles, Gate!Spec

----------------------------------------------------------------------------
(* Counting the records.                                                    *)

\* A set of positions of the chain is finite, and so its size is a number.
LEMMA PositionsCount ==
    ASSUME TypeOK, NEW P, P \subseteq DOMAIN effects
    PROVE  IsFiniteSet(P) /\ Cardinality(P) \in Nat
<1> DEFINE R == EffectRecords
<1>1. effects \in Seq(R)
  BY DEF TypeOK
<1> HIDE DEF R
<1>2. IsFiniteSet(1..Len(effects)) /\ DOMAIN effects = 1..Len(effects)
  BY <1>1, FS_Interval
<1>3. IsFiniteSet(P)
  BY <1>2, FS_Subset
<1> QED BY <1>3, FS_CardinalityType

\* A call that is not absorbed adds one record, and its execution if it ran.
LEMMA CallCounts ==
    ASSUME TypeOK, ChainTellsExecutions, NEW e \in Events, NEW call \in Calls, Call(e, call)
    PROVE  ChainTellsExecutions'
<1> DEFINE executed == Executes(call.permitted, call.reported)
           runs == ran[e] + (IF executed THEN 1 ELSE 0)
           record == [event |-> e, executed |-> executed,
                      deliveries |-> asked[e] + 1, executions |-> runs]
           Ran(d) == {i \in RecordsOf(d) : effects[i].executed}
<1>0. /\ mode' = mode /\ mode.idempotent \in BOOLEAN /\ executed \in BOOLEAN
      /\ \A d \in Events : asked[d] \in Nat /\ ran[d] \in Nat
      /\ \A d \in Events : asked'[d] = IF d = e THEN asked[e] + 1 ELSE asked[d]
  BY CallerAssumption DEF TypeOK, Call, Execute, Executes, Calls
<1>1. CASE Absorbs(e)
  <2>1. ran' = ran /\ effects' = effects
    BY <1>1 DEF Call, Execute
  <2>2. mode.idempotent /\ asked[e] > 0
    BY <1>1 DEF Absorbs
  <2>3. RecordsOf(e)' = RecordsOf(e) /\ \A d : RecordsOf(d)' = RecordsOf(d)
    BY <2>1 DEF RecordsOf
  <2> QED BY <1>0, <2>1, <2>2, <2>3 DEF ChainTellsExecutions
<1>2. CASE ~Absorbs(e)
  <2>1. effects' = Append(effects, record)
        /\ \A d \in Events : ran'[d] = IF d = e THEN runs ELSE ran[d]
    BY <1>2 DEF Call, Execute, TypeOK
  <2>2. record.event = e /\ record.executed = executed /\ record.executions = runs
    OBVIOUS
  <2> HIDE DEF record
  <2>3. PICK n : n = Len(effects) + 1
    OBVIOUS
  <2>4. /\ DOMAIN effects' = DOMAIN effects \cup {n} /\ effects'[n] = record
        /\ \A i \in DOMAIN effects : effects'[i] = effects[i] /\ i # n /\ i <= n
    <3> DEFINE R == EffectRecords
    <3>1. effects \in Seq(R)
      BY DEF TypeOK
    <3> HIDE DEF R
    <3> QED BY <2>1, <2>3, <3>1
  <2>5. n \notin RecordsOf(e) /\ n \notin Ran(e)
    BY <2>4 DEF RecordsOf
  <2>6. /\ RecordsOf(e)' = RecordsOf(e) \cup {n}
        /\ \A d \in Events \ {e} : RecordsOf(d)' = RecordsOf(d)
    BY <2>2, <2>4 DEF RecordsOf
  <2>7. /\ {i \in RecordsOf(e)' : effects'[i].executed}
              = IF executed THEN Ran(e) \cup {n} ELSE Ran(e)
        /\ \A d \in Events \ {e} : {i \in RecordsOf(d)' : effects'[i].executed} = Ran(d)
    BY <2>2, <2>4, <2>6 DEF RecordsOf
  <2>8. /\ Cardinality(RecordsOf(e) \cup {n}) = Cardinality(RecordsOf(e)) + 1
        /\ Cardinality(Ran(e) \cup {n}) = Cardinality(Ran(e)) + 1
    <3>1. RecordsOf(e) \subseteq DOMAIN effects /\ Ran(e) \subseteq DOMAIN effects
      BY DEF RecordsOf
    <3>2. IsFiniteSet(RecordsOf(e)) /\ IsFiniteSet(Ran(e))
      BY <3>1, PositionsCount
    <3> QED BY <2>5, <3>2, FS_AddElement
  <2>9. /\ Cardinality(Ran(e)) = ran[e]
        /\ Cardinality(RecordsOf(e)) = IF mode.idempotent /\ asked[e] > 0 THEN 1 ELSE asked[e]
    BY DEF ChainTellsExecutions
  <2>10. Cardinality({i \in RecordsOf(e)' : effects'[i].executed}) = ran'[e]
    <3>1. CASE executed
      <4>1. {i \in RecordsOf(e)' : effects'[i].executed} = Ran(e) \cup {n}
        BY <2>7, <3>1
      <4>2. ran'[e] = ran[e] + 1
        BY <1>0, <2>1, <3>1
      <4>3. Cardinality(Ran(e) \cup {n}) = ran[e] + 1
        BY <2>8, <2>9
      <4> QED BY ONLY <4>1, <4>2, <4>3
    <3>2. CASE ~executed
      <4>1. {i \in RecordsOf(e)' : effects'[i].executed} = Ran(e)
        BY <2>7, <3>2
      <4>2. ran'[e] = ran[e]
        BY <1>0, <2>1, <3>2
      <4>3. Cardinality(Ran(e)) = ran[e]
        BY <2>9
      <4> QED BY ONLY <4>1, <4>2, <4>3
    <3> QED BY <3>1, <3>2
  <2>11. Cardinality(RecordsOf(e)') = IF mode.idempotent /\ asked'[e] > 0 THEN 1 ELSE asked'[e]
    <3>1. mode.idempotent => asked[e] = 0
      BY <1>0, <1>2 DEF Absorbs
    <3> QED BY <1>0, <2>6, <2>8, <2>9, <3>1
  <2>12. ASSUME NEW i \in RecordsOf(e)', \A j \in RecordsOf(e)' : j <= i
         PROVE  effects'[i].executions = ran'[e]
    <3>1. n \in RecordsOf(e)' /\ n <= i
      BY <2>6, <2>12
    <3>2. i = n
      <4>1. i = n \/ (i \in DOMAIN effects /\ i <= n)
        BY <2>4, <2>6 DEF RecordsOf
      <4>2. i \in Int /\ n \in Int
        <5> DEFINE R == EffectRecords
        <5>1. effects \in Seq(R)
          BY DEF TypeOK
        <5> HIDE DEF R
        <5> QED BY <2>3, <4>1, <5>1
      <4> QED BY <3>1, <4>1, <4>2
    <3> QED BY <2>1, <2>2, <2>4, <3>2
  <2>13. ASSUME NEW d \in Events \ {e}
         PROVE  /\ Cardinality({i \in RecordsOf(d)' : effects'[i].executed}) = ran'[d]
                /\ \A i \in RecordsOf(d)' :
                      (\A j \in RecordsOf(d)' : j <= i) => effects'[i].executions = ran'[d]
                /\ Cardinality(RecordsOf(d)')
                   = IF mode.idempotent /\ asked'[d] > 0 THEN 1 ELSE asked'[d]
    <3>1. /\ Cardinality(Ran(d)) = ran[d]
          /\ \A i \in RecordsOf(d) :
                (\A j \in RecordsOf(d) : j <= i) => effects[i].executions = ran[d]
          /\ Cardinality(RecordsOf(d))
             = IF mode.idempotent /\ asked[d] > 0 THEN 1 ELSE asked[d]
      BY DEF ChainTellsExecutions
    <3>2. ran'[d] = ran[d] /\ asked'[d] = asked[d]
      BY <1>0, <2>1
    <3>3. \A i \in RecordsOf(d) : effects'[i] = effects[i]
      BY <2>4 DEF RecordsOf
    <3> QED BY <2>6, <2>7, <3>1, <3>2, <3>3
  <2> QED BY <1>0, <2>10, <2>11, <2>12, <2>13 DEF ChainTellsExecutions
<1> QED BY <1>1, <1>2

(* Under any caller the chain tells the executions: their number, the       *)
(* running total in the last record, and which calls left no record         *)
(* (arms.py 97-113).                                                        *)
THEOREM ChainCounts == Spec => []ChainTellsExecutions
<1>1. Init => ChainTellsExecutions
  <2> SUFFICES ASSUME Init PROVE ChainTellsExecutions
    OBVIOUS
  <2>1. effects = <<>> /\ \A e \in Events : asked[e] = 0 /\ ran[e] = 0
    BY DEF Init, EffectorInit
  <2>2. \A e \in Events : RecordsOf(e) = {} /\ {i \in RecordsOf(e) : effects[i].executed} = {}
    BY <2>1 DEF RecordsOf
  <2>3. Cardinality({}) = 0
    BY FS_EmptySet
  <2>4. ASSUME NEW e \in Events
        PROVE  /\ Cardinality({i \in RecordsOf(e) : effects[i].executed}) = ran[e]
               /\ \A i \in RecordsOf(e) :
                     (\A j \in RecordsOf(e) : j <= i) => effects[i].executions = ran[e]
               /\ Cardinality(RecordsOf(e))
                  = IF mode.idempotent /\ asked[e] > 0 THEN 1 ELSE asked[e]
    <3>1. asked[e] = 0 /\ ran[e] = 0
      BY <2>1
    <3>2. RecordsOf(e) = {} /\ {i \in RecordsOf(e) : effects[i].executed} = {}
      BY <2>2
    <3>3. Cardinality({i \in RecordsOf(e) : effects[i].executed}) = ran[e]
      BY ONLY <2>3, <3>1, <3>2, Zenon
    <3>4. Cardinality(RecordsOf(e)) = 0
      BY ONLY <2>3, <3>2, Zenon
    <3>5. ~(asked[e] > 0)
      BY <3>1
    <3> QED BY <3>1, <3>2, <3>3, <3>4, <3>5
  <2> QED BY <2>4 DEF ChainTellsExecutions
<1>2. TypeOK /\ ChainTellsExecutions /\ [Next]_CallerVars => ChainTellsExecutions'
  <2> SUFFICES ASSUME TypeOK, ChainTellsExecutions, [Next]_CallerVars
               PROVE  ChainTellsExecutions'
    OBVIOUS
  <2>1. CASE UNCHANGED CallerVars
    BY <2>1 DEF CallerVars, effectVars, ChainTellsExecutions, RecordsOf
  <2>2. CASE Next
    BY <2>2, CallCounts DEF Next
  <2> QED BY <2>1, <2>2
<1> QED BY <1>1, <1>2, EffectorRunsOnce, PTL DEF Spec
=============================================================================
