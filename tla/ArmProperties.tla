---------------------------- MODULE ArmProperties ----------------------------
(* What a run of an arm promises: the invariants, step properties and       *)
(* liveness properties of Arm.tla, and the abstract gate it implements.     *)
EXTENDS Reconstruct, FiniteSets

TwoWriters == ~mode.singleWriter
Finished == pc = "done"

\* Between two passes of the loop, or after the last.
AtLoopTop == pc \in {FirstPc, "flush", "done"}

\* The pinned evaluator and policy would let the action pass.
Permits(e) == ~mode.crashing /\ Decide(mode.policy, Score(e)) # "BLOCK"

\* A fault that keeps the gate from having a verdict in time.
Undecidable(e) ==
    \/ schedule[e] \in {"drop_event", "reorder_event", "transport_outage"}
    \/ DelayOf(e) > DeadlineMs

Superseded(e) == Judged(e) /\ Final(e).outcome = "DECIDED_BACKLOG"

----------------------------------------------------------------------------
(* Types.                                                                   *)

Outcomes == {"DECIDED", "LATE", "NO_DECISION", "DECIDED_BACKLOG", "REFUSED_TRANSPORT_DOWN"}

Risks == 0..100

DecisionRecords ==
    [event : Events, risk : Risks \cup {NoRisk}, decision : Decisions, outcome : Outcomes,
     note : {"none", "outage", "backlog", "enforcement_failed"}, alt : Risks \cup {NoRisk}]

EffectRecords == [event : Events, executed : BOOLEAN, deliveries : Nat, executions : Nat]

EdgeLists == [dropped : Seq(Events), duplicated : Seq(Events), outaged : Seq(Events)]

Rulings ==
    [decision : Decisions, outcome : Outcomes \cup {"none"}, permitted : BOOLEAN,
     alt : Risks \cup {NoRisk}]

PcValues == {"act", "publish", "failopen", "consume", "drain", "decide", "enforce", "retry",
             "record", "flush", "done"}

(* Every variable of a run holds a value of its type: chains of well-formed *)
(* records, a stream of events of the scenario, a cursor inside the stream, *)
(* and a delivery handed out only once it was published (arms.run_arm).     *)
TypeOK ==
    /\ mode \in Modes
    /\ scenario \in [Events -> Actions]
    /\ schedule \in [Events -> Kinds]
    /\ stream \in Seq(Events) /\ held \in Seq(Events)
    /\ cursor \in 0..Len(stream)
    /\ pending \subseteq 1..cursor
    /\ edge \in EdgeLists
    /\ asked \in [Events -> Nat] /\ ran \in [Events -> Nat]
    /\ effects \in Seq(EffectRecords)
    /\ decisions \in Seq(DecisionRecords)
    /\ cur \in 1..N + 1
    /\ pc \in PcValues
    /\ next \in Nat /\ target \in 0..cursor
    /\ verdict \in Risks \cup {NoRisk}
    /\ ruling \in Rulings
    /\ tally \in [Counters -> Nat]

----------------------------------------------------------------------------
(* The gate and the effector.                                               *)

(* The fail-closed in-series gate with an honest effector lets an action    *)
(* run only if enforcement was made to fail, or if the policy permits the   *)
(* action and no fault kept its verdict from arriving in time: whatever is  *)
(* dropped, delayed, held back or down is refused (arms.py header A, D, L). *)
FailClosedHolds ==
    \A e \in Events :
        InSeries /\ mode.failClosed /\ TwoWriters /\ ran[e] > 0
        => schedule[e] = "enforcement_fail" \/ (Permits(e) /\ ~Undecidable(e))

(* An action runs twice only when dedup is off and the schedule retries it: *)
(* neither a duplicated publish, nor a redelivery after a crash, nor a late *)
(* copy of a reordered event makes an action run again (arms.py header K).  *)
OnlyRetriesRunTwice ==
    \A e \in DoubleExecutions : ~mode.idempotent /\ schedule[e] = "retry_double"

----------------------------------------------------------------------------
(* Delivery.                                                                *)

(* Between two passes, the only entries left unacknowledged are the earlier *)
(* copies of a duplicated publish whose later copy was acknowledged: no     *)
(* crash, backlog drain or reordering leaks an entry (arms.py 202-231).     *)
PendingAreDuplicates ==
    AtLoopTop => \A d \in pending :
        /\ schedule[stream[d]] = "duplicate_event"
        /\ d + 1 <= cursor /\ stream[d + 1] = stream[d] /\ d + 1 \notin pending

(* When a run ends, the broker has as many copies of each event as the edge *)
(* admitted, none for a lost one, two for a doubled one, and nothing is     *)
(* held any more: no event is stuck, lost or multiplied on the way through  *)
(* the reorder buffer (faultlab.py publish, flush_reorder_buffer).          *)
Copied(e) == Cardinality({d \in DOMAIN stream : stream[d] = e})

EdgeConservesEvents ==
    Finished => \A e \in Events :
        Copied(e) = CASE schedule[e] \in {"drop_event", "transport_outage"} -> 0
                      [] schedule[e] = "duplicate_event" -> 2
                      [] OTHER -> 1

(* A run whose batches never overflow leaves unread only what the final     *)
(* flush published: a trailing streak of reordered events.                  *)
OnlyTrailingReordersUnread ==
    Finished => \A d \in cursor + 1 .. Len(stream) :
        /\ schedule[stream[d]] = "reorder_event"
        /\ \A e \in stream[d] .. N :
              schedule[e] \in {"reorder_event", "drop_event", "transport_outage"}

(* An injected evaluator crash costs no verdict: whatever else is pending,  *)
(* and whatever was acknowledged before, the recovery finds the delivery of *)
(* this event, so that with a working evaluator each crash is made good by  *)
(* one redelivery and the event is not left undecided for it (arms.py       *)
(* header E and 213-224, where a recovery that finds nothing goes on).      *)
CrashesAreRedelivered ==
    /\ ~mode.crashing => tally["crashes"] = tally["redelivered"]
    /\ \A i \in DOMAIN decisions :
          /\ schedule[decisions[i].event] = "evaluator_crash"
          /\ decisions[i].outcome = "NO_DECISION"
          => mode.crashing

----------------------------------------------------------------------------
(* What the ledger lets a reader conclude.                                  *)

(* At every point of a pass, its early exits included, at most the event    *)
(* the loop is at has run without a decision on record: the reconstructor   *)
(* answers "unknown" for no event the loop has left (arms.py 187-197,       *)
(* 264-286; reconstruct.py 73-77).                                          *)
OnlyCurrentUndecided ==
    \A e \in Events : Cause(e) = "unknown" /\ Executed(e) => e = cur

(* When a run ends, the two chains join on every event, except the outages  *)
(* that a fail-closed gate refused: those have a decision and no effect, so *)
(* the detector counts each of them as a divergence (divergence.py 85-92).  *)
JoinGapsAreRefusedOutages ==
    Finished =>
        /\ NoDecisionRecord = {}
        /\ NoEffectRecord = {e \in Events : InSeries /\ mode.failClosed
                                             /\ schedule[e] = "transport_outage"}

(* The dashboard of a fail-closed in-series run with an honest effector     *)
(* claims a prevention that did not happen only for an enforcement failure; *)
(* and every enforcement failure against a decision to block is on record   *)
(* as such: the join shows it, and reconstruction names it (arms.py header  *)
(* I, J; divergence.py REPORTED_PREVENTED_BUT_EXECUTED).                    *)
LiesAreEnforcementFailures ==
    Finished /\ InSeries /\ TwoWriters =>
        /\ mode.failClosed =>
              \A e \in PreventedButExecuted : schedule[e] = "enforcement_fail"
        /\ \A e \in Events :
              /\ schedule[e] = "enforcement_fail" /\ scenario[e].unsafe
              /\ Final(e).decision = "BLOCK"
              => e \in PreventedButExecuted /\ Cause(e) = "enforcement_failed"

(* An in-series gate blames the deadline for an incident only where the     *)
(* fail mode let it through.  "not detected" stands for an action that the  *)
(* policy permits, or for a block that a backlog drain recorded after a     *)
(* gate that fails open had let the action run (reconstruct.py 95-101).     *)
CausesNameTheFailMode ==
    Finished /\ InSeries => \A e \in Incidents :
        /\ Cause(e) = "no_decision_in_time" => ~mode.failClosed
        /\ Cause(e) = "not_detected" =>
              Permits(e) \/ (~mode.failClosed /\ Superseded(e))

(* A permission that did not take effect is always a refusal of the gate    *)
(* that a backlog drain rewrote afterwards, never a lost execution          *)
(* (divergence.py REPORTED_PERMITTED_BUT_NOT_EXECUTED).                     *)
PermittedNotRunIsRewritten ==
    Finished => \A e \in PermittedNotExecuted :
        Superseded(e) /\ InSeries /\ mode.failClosed

(* A backlog decision never comes first: the gate has settled the event     *)
(* before any drain judges it, so no drain decides whether an action runs   *)
(* (arms.py 207-210).                                                       *)
BacklogComesAfterTheGate ==
    \A i \in DOMAIN decisions : decisions[i].outcome = "DECIDED_BACKLOG" =>
        \E j \in 1 .. i - 1 : /\ decisions[j].event = decisions[i].event
                              /\ decisions[j].outcome # "DECIDED_BACKLOG"

(* The counters the run reports agree with the chain it sealed: undecided   *)
(* events, refusals, late blocks and second opinions are counted once per   *)
(* record that shows them (arms.py 233-250, run.py context).                *)
Number(Test(_)) == Cardinality({i \in DOMAIN decisions : Test(decisions[i])})

TalliesMatchTheChain ==
    /\ Number(LAMBDA r : r.outcome = "REFUSED_TRANSPORT_DOWN") = tally["outageRefusals"]
    /\ AtLoopTop =>
        /\ Number(LAMBDA r : r.outcome \in {"LATE", "NO_DECISION"}) = tally["noDecision"]
        /\ Number(LAMBDA r : r.outcome = "LATE" /\ Decide(mode.policy, r.risk) = "BLOCK")
           = tally["lateBlocks"]
        /\ Number(LAMBDA r : r.alt # NoRisk
                             /\ Decide(mode.policy, r.alt) # Decide(mode.policy, r.risk))
           = tally["disagreements"]

----------------------------------------------------------------------------
(* Steps.                                                                   *)

(* Once an event has a decision on record, only a backlog drain rewrites    *)
(* it, and a rewrite changes nothing that has run: what the dashboard shows *)
(* may move after the fact, what happened may not (divergence.py 65-68).    *)
RewritesAreAfterTheFact ==
    [][\A e \in Events :
          Judged(e) /\ Final(e)' # Final(e)
          => /\ Final(e)'.outcome = "DECIDED_BACKLOG"
             /\ UNCHANGED ran]_vars

(* Nothing is acknowledged before it is judged: an entry leaves the pending *)
(* list in a step that records a decision on its event, or that hands the   *)
(* verdict to the gate, unless the evaluator is the one that crashes        *)
(* (arms.py 212-231, 306-315).                                              *)
AcknowledgedIsJudged ==
    [][\A d \in pending \ pending' :
          \/ mode.crashing
          \/ verdict' # NoRisk /\ stream[d] = cur
          \/ Judged(stream[d])' /\ Final(stream[d])'.risk # NoRisk]_vars

----------------------------------------------------------------------------
(* Progress.                                                                *)

(* The loop of a run ends, whatever the faults (arms.py 170-288).           *)
RunEnds == <>Finished

----------------------------------------------------------------------------
(* The abstract gate.                                                       *)

\* What may make an action run, by position, fail mode and fault.
MayRun(e) ==
    \/ ~InSeries
    \/ ~mode.failClosed
    \/ schedule[e] = "enforcement_fail" /\ TwoWriters
    \/ Permits(e) /\ ~Undecidable(e)

\* An event is settled by the effector, or by the loop leaving it unasked.
GateOutcome(e) ==
    IF ran[e] > 0 THEN "ran"
    ELSE IF asked[e] > 0 \/ e < cur THEN "refused"
    ELSE "open"

Gate == INSTANCE ActionGate WITH
            outcome <- [e \in Events |-> GateOutcome(e)],
            mayRun <- {e \in Events : MayRun(e)}

(* An arm implements the abstract gate: each event is settled once and for  *)
(* good, and runs only if its position, fail mode and fault allow it        *)
(* (arms.py header A, D, I, L; ARM_S and ARM_M).                            *)
ImplementsGate == Gate!Spec

----------------------------------------------------------------------------
(* The inductive invariant behind the gate's properties.                    *)

\* Where in the loop which event and which delivery can be current.
LoopShape ==
    /\ pc \notin {"flush", "done"} => cur \in Events
    /\ pc \in {"flush", "done"} => cur = N + 1
    /\ pc = "act" => ~InSeries
    /\ pc \in {"failopen", "enforce", "retry"} => InSeries
    /\ pc = "failopen" => ~mode.failClosed
    /\ pc = "retry" => schedule[cur] = "retry_double"
    /\ pc = "drain" => next >= 1
    /\ pc \in {"enforce", "retry", "record"} => ruling.outcome # "none"

\* A verdict is the pinned evaluator's on an event that was published, and in time.
VerdictIsEarned ==
    /\ pc \in {"consume", "drain"} =>
           schedule[cur] \notin {"drop_event", "reorder_event", "transport_outage"}
    /\ verdict # NoRisk =>
           /\ pc \in {"decide", "enforce", "retry", "record"}
           /\ verdict = Score(cur) /\ ~mode.crashing
           /\ schedule[cur] \notin {"drop_event", "reorder_event", "transport_outage"}

\* A ruling permits exactly when it does not block, and fails closed without a verdict.
RulingIsSound ==
    pc \in {"enforce", "retry"} =>
        /\ ruling.permitted = (ruling.decision # "BLOCK")
        /\ ruling.permitted /\ mode.failClosed => Permits(cur) /\ ~Undecidable(cur)

\* The events whose turn at the effector has not come.
BeforeEffector ==
    {"act", "failopen", "enforce"}
    \cup (IF InSeries THEN {"publish", "consume", "drain", "decide"} ELSE {})

Unasked(e) == e > cur \/ (e = cur /\ pc \in BeforeEffector)

\* How often each event was put to the effector, and what came of it.
AskedInTurn ==
    \A e \in Events :
        /\ Unasked(e) => asked[e] = 0
        /\ asked[e] > 1 => schedule[e] = "retry_double"
        /\ ran[e] <= asked[e]
        /\ mode.idempotent => ran[e] <= 1
        /\ e = cur /\ pc = "retry" =>
              asked[e] = 1 /\ (ran[e] > 0) = Executes(ruling.permitted, ruling.decision)

\* Nothing ran that the gate's mode and fault do not allow.
RanOnlyIfAllowed == \A e \in Events : ran[e] > 0 => MayRun(e)

(* The gate at every point of the loop: no verdict without a publish that   *)
(* went through, no permission without a timely verdict, no second request  *)
(* without a retry, and no execution that nothing allows (arms.py 170-286). *)
GateInvariant ==
    LoopShape /\ VerdictIsEarned /\ RulingIsSound /\ AskedInTurn /\ RanOnlyIfAllowed
=============================================================================
