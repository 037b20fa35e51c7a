# Safeguards control plane: TLA+ verification project

This project models the safeguards control plane (`src/src/scp`): two safeguard
arms that judge the actions of a simulated agent, a broker with injected faults
between them and the agent, an effector that records on its own what really ran,
the tools that join the two records, the reports made of a run, and the
experiments that compare two runs. The question the program exists for is
whether *the report matches reality*; most properties here relate what the
decision chain says to what the effect chain, or the model's own count of
executions, shows.

## 1. Inventory

| Part | Source | State | Operations | Makes it correct |
|---|---|---|---|---|
| Run loop of an arm | `arms.py` `run_arm`, `_evaluate_and_ack`, `_record_decision` | the event at hand, target delivery, verdict, decision chain, counters | act (monitor), publish, consume, drain backlog, evaluate, crash and reclaim, decide, enforce, retry, record, flush | fails closed; every event settled once; nothing left undecided or unacknowledged by accident |
| Effector | `arms.py` `Effector` | per event: times asked, times run; effect chain | `execute` | at most one execution with dedup; chain tells the executions |
| Transport | `transport.py` | stream, group, cursor, pending entries and who holds them | publish, ensure group, read, ack, reclaim in pages, reset | entries handed out in order, once; what a consumer died with is taken over |
| Fault lab | `faultlab.py` | schedule, reorder buffer, lists of what was dropped, doubled, outaged | `build`, faulty publish, flush | what the edge admits reaches the broker, the right number of times; shares are even |
| Evaluators, policies | `evaluator.py`, `policy.py` | none | `evaluate`, `decide` | pure functions, pinned by version |
| Scenario, events | `scenario.py`, `events.py` | events with ground truth | `generate`, `to_wire`, `from_wire`, `event_id` | one id per action |
| Divergence detector | `divergence.py` | none (reads both chains) | `detect` | names every lie of the dashboard, and no other |
| Reconstruction | `reconstruct.py` | none (reads both chains) | `reconstruct` | one cause per unsafe execution |
| Ledger | `ledger.py` | sealed records, in memory and in a file | `append`, `verify`, `tamper`, dump, load | an altered record is found where it is |
| Replay | `replay.py` | none | `replay` | pinned replay agrees; a disagreement is attributed |
| Metrics | `metrics.py`, `run.py` `compute_metrics`, `experiments.py` `row` | none | rates with denominators | numerator within denominator; two reports agree |
| Harness | `run.py` `run_condition`, `experiments.py` | pairs of runs, each on an empty stream of its own | run, change a setting, run again; conclude | the two runs differ in the one setting |
| CI assertions | `.github/assert_results.py` | none | reads result files | asserts what does not depend on the clock |

How they interact. The loop is one thread and calls everything else. For each
event of the scenario it asks the schedule for a fault, publishes through the
fault lab to the broker, reads a batch back, evaluates and acknowledges every
delivery in it, rules by policy or by fail mode, puts the event to the
effector, and appends to the decision chain. The effector appends to the
effect chain. After the run, detector, reconstruction, metrics and replay read
the chains only. An experiment repeats the run with another setting on another,
empty stream, and compares the two results.

Where it is hard. A run is one thread, so most hazards are of order and of
partial failure. A held-back event is judged during the pass of another. A
duplicate or a released reorder shares a batch with its successor, or overflows
it. A crash leaves a delivery to be taken over. A deadline passes with a verdict
in hand. Two runs have two clocks. A takeover goes through the broker page by
page. The repository runs one consumer at a time; the interface of the transport
offers itself to several, which may read, settle and take over between those
pages, and `Delivery` covers that. `PROJECT.json` lists each hazard at its line
with the properties aimed at it.

## 2. Modules

| Module | Models | State and correspondence |
|---|---|---|
| `Substrate` | `scenario.py` grammar, `evaluator.py`, `policy.py` | operators only. Risks are hundredths. Of an action's arguments only the needles the rules look for are kept. |
| `Broker` | `transport.py` as a run uses it: one group, one consumer at a time | `stream`, `cursor`, `pending`; a position in the stream is the delivery id |
| `FaultLab` (extends `Broker`) | `FaultyTransport` | `schedule`, `held` (the reorder buffer), `edge` (the three lists) |
| `Schedule` (extends `FaultLab`, `Effector`) | `FaultSchedule.build`, its counts | operators: half-even rounding of the rate, kinds going round over the picked events |
| `Effector` | class `Effector` | `asked` is `_delivered`, `ran` is `_executed`, `effects` is its chain |
| `Arm` (extends `FaultLab`, `Effector`) | `run_arm` and its two helpers | `pc` is the place in the loop body; `next`, `target`, `verdict`, `ruling` are the locals; `decisions` the decision chain; `tally` the counters of `ArmResult` |
| `Divergence`, `Reconstruct` | `detect`, `reconstruct` | operators over the two chains |
| `Metrics` | `compute_metrics`, `Rate`, the row of the matrix | operators: the counts over and under each rate |
| `Replay` | `replay`, attribution, the altered record of the control | operators over a decision chain |
| `ArmProperties`, `ReportProperties` | | the properties of a run and of its reports, the refinement mapping, the gate invariant |
| `ArmClaims` | | statements of the docs and the CI that runs refute |
| `ActionGate` | | abstract specification: each event is open, then ran or refused, for good; it runs only if something permits it |
| `EffectorCaller` | `Effector` under any caller | a caller may ask for any event at any time with any report |
| `Experiment` (extends `ReportProperties`, `Schedule`) | `run_condition`, the shape of every control and condition | `study` (kinds, rate, two settings); `results` (what each run came to); `SecondRun` starts over on an empty stream (`OwnStream`) |
| `Conditions` | `experiments.py` NC1 to NC4 and E1 to E6 | the studies themselves |
| `Ledger` | `ledger.py` with its fallback sealer | `records`, `file`; a digest is the value it was taken of. `honest` is history |
| `Delivery` | `transport.py` with consumers told apart | `pel` (pending, fresh or idle), `hand` (what a consumer holds), `scan` (the cursor of a paged takeover). `owed` is history |
| `MC*` | | instances for TLC |
| `*Proofs` | | theorems: see section 4 |

`Broker` serves twice: the arm is composed with it, and `Delivery`, which has
many consumers, is shown to implement it. So what is shown of the arm against one
consumer carries over to whatever the group does around it.

`run_arm` is split into actions at every call that another component could
observe: one action per publish outcome, per delivery of a batch, per ruling,
per call of the effector, per append. So every state between two records is a
state of the model. `CrashAndRedeliver` counts the crash first and has both
outcomes of the search that follows, as the loop has: the entry is found, judged
and acknowledged, or nothing matches and the loop goes on without a verdict.
Which of the two can happen is a question for a property
(`CrashesAreRedelivered`), not for the action. An
outage in a fail-open gate, which records first and executes afterwards, takes
two actions for that reason. The loop's early exit (`continue` after an outage)
is the `NextEvent` in `RefuseOnOutage` and `FailOpenOnOutage`. A takeover is
split into its pages, since others act between two calls of the broker.

What is chosen rather than computed: the configuration, the scenario and the
schedule, in `Init`; which events `build` picks, the seed's choice; and the time
a pass takes, by `Latencies` at the decision, anew in each run. A latency above
`DeadlineMs` without an injected delay is a loaded machine, which
`LIMITATIONS.md` section 11 reports.

Abstractions. In a run an event is its position, which stands for `event_id`:
stable across redelivery and distinct per action, as `scenario.generate` makes
it; the id's hash and the form of an event on the wire are not modelled (section
5). A record of a run keeps the fields that the
detector, the reconstruction, the replay or a counter reads; the seals are in
`Ledger`. An injected crash is not a failure of the evaluator but a decision of
the loop not to acknowledge, and a recovery that searches what it takes
over; `mode.crashing` is the evaluator that raises
(`evaluator.crashing`). Two executions of one event are one incident in
`Reconstruct`; `reconstruct` in the code makes one for each executed effect
record, though its docstring says one per action. Comments that begin with
"Slip" mark small, plausible bugs: variants of the definition that follows, used
to test that a property notices them and not part of any specification.

## 3. Runs

| Run | Instance | Question |
|---|---|---|
| `arm_faults` | N=2, 17 configurations, 11 fault values, 4 actions, 750k states | every pair of faults: gate, once-only effects, join, causes, counters, reports, replay |
| `arm_order` | N=3, 5 configurations, 6 fault values, 2 actions, 320k states | read, pending, rewritten, left over |
| `arm_overflow` | N=4, BatchSize=1, 4 fault values, 2 actions, 1.5M states | a read that does not reach the event |
| `arm_progress` | N=2, fair, 15k states | the loop ends, the gate is implemented |
| `effector_calls` | N=2, at most 3 calls per event | effector under any caller; the first call settles |
| `ledger` | 3 records of 3 fields, 2 values and None, altered up to twice | what verification finds |
| `delivery` | 2 consumers, 3 entries, batches of 2, pages of 1, one crash, fair | the group is a broker; takeovers, and that they end |
| `experiment` | N=3, the controls and the matrix under every kind and pair of kinds, 2.8M states | what one changed setting changes |
| `claim_lies`, `claim_enforcement`, `claim_ci` | N=2 | three statements of docs and CI, each refuted |

Bounds. Two events are enough for every interaction of two faults in one batch;
the third lets a released reorder share a batch with an event and be followed by
another; the fourth, with reads of one entry, lets backlog build up twice.
`BatchSize` is 32 in the code (`arms.py` 200). A read of 32 stops short only
behind a streak of more than 30 reordered events among which nothing goes through
(`RoomSuffices`, section 4); how many are reordered in all does not matter. The
schedules the code makes are far from it: `run.py` by default (5000 events, rate
0.10, seed 1234) reorders 50 events, `experiments.py` (10000 events, rate 0.12,
all kinds, seeds 101 and 37) 120, and the longest streak, as counted on the
schedules that the repository's own `FaultSchedule.build` returns, is 1.
`StudiesHaveRoom` proves that it never is more for such kinds. BatchSize=1 shows
what happens when a read does stop short, as early as possible. The latencies 1
and 30 lie on both sides of the deadline of 25; with the delay of 50 both are
late. The four actions are one that the policy blocks, one that the evaluator
misses, one on which the two evaluators differ, and a safe one; the remaining
catalogue differs from these only in the weight of its rule. The configurations
take each setting of `run_arm` alone, and dedup and fail mode together, over both
arms. MaxCalls=3 is one more than the loop ever makes. In `experiment` a rate of
one half of three events is rounded to the even whole number, two, and of five
sixths also to two, so every list of kinds that matters is empty, of one kind or
of two. In `ledger` three records are a first, a middle and a last; `extra` is a
field no writer sets. In `delivery` pages of one and a scan limit of two make a
takeover of three entries go through several pages and meet the end of its scan.
Two crashes by one consumer show no more than one: a consumer that comes back
holds nothing. `TakeoversEnd` is checked on a stream that ends, as that of a run
does; that a takeover never returns to an entry, on a stream of any length, is
`PagesMoveOn`. There is no symmetry: events are ordered, and temporal properties
are checked over the consumers.

Deadlock checking is off where a run ends (`pc = "done"`, a study concluded,
everything published) or callers reach their bound; `RunEnds` shows that the
loop stops nowhere else.

Fairness. `FairSpec` is weak fairness of the whole loop: it is one thread, no
step of it waits for another actor (reads time out), and a choice of latency is
always possible. `Delivery` has weak fairness of one step only: the next page of a
takeover that has begun, which is a loop of the consumer that asks for it and
waits for nobody (`transport.py` 91). Nothing makes a consumer read, acknowledge
or start a takeover, and indeed `run_arm` takes over only after an injected
crash, leaves the earlier copies of duplicates pending and stops reading after
the last event. No fairness is assumed of publishers, of crashes, of time
passing, or of the effector's callers.

### What the runs show

* Gate: fail-closed in series with two writers, an action runs only if it was
  permitted in time or enforcement was made to fail (`FailClosedHolds`). A fault
  of delivery or timing never opens the gate.
* Once-only: only a scheduled retry without dedup runs an action twice
  (`OnlyRetriesRunTwice`). Duplicate publishes and redeliveries do not, whatever
  dedup is set to, since the loop hands an event to the effector once per pass.
* Delivery: between two passes the only pending entries are the earlier copies
  of duplicates (`PendingAreDuplicates`), the recovery after a crash finds the
  event among them (`CrashesAreRedelivered`), nothing is acknowledged before it is
  judged, that is before the loop has its verdict in hand or a scored record of it,
  and only a trailing streak of reorders is never read.
* Transport: any number of consumers that crash and take over from each other
  are the broker of the arm (`ConsumersShareABroker`). A takeover that asks for
  no idle time misses nothing; one that does can stop early, at an empty page,
  but only behind as many fresh entries as a page looks at
  (`TakeoversMissNothing`). A takeover comes to an end, whatever the others do
  between its pages (`TakeoversEnd`).
* Records: a recorded decision is rewritten only by a backlog drain, and that
  changes nothing that ran. Every lie of a fail-closed dashboard is an
  enforcement failure, and every enforcement failure against a BLOCK is seen.
  At every point of a run at most the current event has run undecided.
* Reports: with dedup and a gate that fails closed every rate the runner prints
  is one (`RatesAreProper`), and the runner and the matrix reach the same
  enforcement rate. Without dedup an execution is counted twice; and with a gate
  that fails open late blocks can outnumber blocks on record (`run.py` 99),
  which is why the property asks for both.
* Replay: pinned replay finds exactly the record that was altered; the strata of
  a two-version skew are the sum of the two one-version ones; a late verdict
  takes its event out of a stratum, and no event is in one twice.
* Ledger: an honest chain verifies, and so does any chain cut off from its end;
  an accepted alteration is found at its record, with one exception: writing
  None where no field was passes the guard and is not sealed.
* Experiments: the two runs of a study read the same stream, whatever the
  settings and the clocks. Each control passes for the reason it states:
  `DedupIsLoadBearing`, `FailOpenOnlyAdds`, `PositionIsTheOnlyDifference`,
  `SingleWriterLosesTheLies` say which executions differ, and when a verdict
  that only the clock delayed accounts for it. The control NC2a (a null policy
  makes the arms equal) depends on the clock when the gate fails closed, which
  is its default: a late verdict blocks.

### Where documents and code disagree

Three runs each refute one statement of the repository; `findings` in
`PROJECT.json` quotes it.

* `claim_lies`: the dashboard can lie without an enforcement failure. The
  backlog drain records a decision for an event that is already settled, and the
  detector treats it as the decision of the gate. In a fail-open run the
  reconstruction then calls such an event "not detected", although its recorded
  risk is over the threshold. None of this opens the fail-closed gate.
* `claim_enforcement`: an enforcement failure is given as the cause even if the
  policy allowed the action.
* `claim_ci`: the CI asserts that no disagreement is left unattributed under a key
  that `replay` never writes. Two more notes, for which there is no run.
  `assert_arms_comparable` (`run.py` 166) is evaluated after both arms have run
  and compares five keys; `experiments.py` does not call it.
  `PositionIsTheOnlyDifference` shows what its condition, that the settings differ
  in the arm alone, gives. And the header of `events.py` (line 5) says that
  `event_id` hashes the logical action only, while line 51 hashes the schema
  version with it. That has no effect on any run: `migrate_v10_to_v11` is called
  nowhere, and the effector is always handed the event of the scenario, never one
  read off the wire.

## 4. Proofs

All theorems are for every number of events, every batch size, every subset of
the configurations, faults and actions, every set of latencies, studies,
consumers, fields and values; the assumptions are the named `ASSUME`s of the
modules (`NAssumption`, `BatchSizeAssumption`, `ArmAssumption`,
`CallerAssumption`, `StudyAssumption`, `LedgerAssumption`,
`DeliveryAssumption`), which type the constants and ask for at least one event
and a batch of at least one.

**`ArmProofs`.** `TypeCorrect` proves `TypeOK` with `LoopShape`, by one step
lemma with a case per action. `GateHolds` proves `GateInvariant`, the inductive
invariant. `FailClosedHolds` alone is not inductive: that nothing ran against
the rules follows from the ruling in force when the effector was called, which
follows from the verdict the ruling was made from, which follows from a publish
that went through. So the invariant has five parts: where the loop may be
(`LoopShape`), what a verdict and a ruling stand for (`VerdictIsEarned`,
`RulingIsSound`), whose turn at the effector has come (`AskedInTurn`), and what
ran (`RanOnlyIfAllowed`). Each is preserved by a lemma of its own that uses the
earlier ones; `arm_faults` checks it as an invariant. `FailClosedIsSafe` and
`EffectsAreOnce` follow. `ArmImplementsGate`: initial states map to initial
states of `ActionGate`, and a step of the loop settles at most the current
event, or maps to a stutter. An event counts as refused once the effector
refused it, or once the loop left it without asking.

**`ChainProofs`.** What a reader of the chains may conclude, with batches that
overflow included. The invariant `ChainInvariant` says: what is on the stream or
held back is of an event the loop has come to (`EdgeBehind`); each event the loop
has left has one record of the gate, which precedes every record a drain makes of
it (`ChainInOrder`); the ruling tells whether there was a verdict in time
(`RulingTells`); each record is the policy's on the evaluator's score or the fail
mode's (`RecordsAreSound`); the effect chain tells what was asked and what ran
(`EffectsTell`); and what ran is what the ruling called for (`RanAsRuled`).
From it: `GateDecidesFirst`, `OnlyCurrentIsUndecided`, `JoinIsComplete`,
`NoPermissionIsLost`, `RewritesChangeNothing`. The first of these is why the
others hold: if a drain could come first, the gate would rewrite its record.

**`PendingProofs`.** `PendingInvariant` says that copies of an event are adjacent
on the stream and only if it is doubled, that the target is a pending delivery of
the event at hand, that the rest of the batch is pending, and that any other
pending entry has a later twin that is settled or is the target. Hence
`OnlyDuplicatesStay` and `NothingIsAckedUnjudged`, again with overflow. That the
entry a recovery finds is the target, and not a leftover of an earlier pass, is
where adjacency is needed: an event that crashes is not doubled. That it finds one
at all is `RecoveryNeverMisses`: the target is pending and of this event
(`TargetIsHeld`), so what is reclaimed is never empty, the branch of the search
that finds nothing is not taken, and crashes and redeliveries stay equally many,
again with overflow. `EdgeConserves` adds `EdgeKeeps`: what was offered is on the
stream, held back, or lost on purpose; counting copies then needs adjacency once
more.

The second half of the module is about reads that reach the end of the stream
(`ReadsReachTheEnd`: what there is to read is no more than `BatchSize`). Some
properties are false without that: when a read stops short of an event, the gate
goes without its verdict and a later drain judges it, whatever its fault, which
is what `arm_overflow` explores. So they are proved under the hypothesis that every
read of the behaviour does, `Spec /\ []ReadsReachTheEnd => []...`, and
`RoomSuffices` shows when it holds: `ShortStreaks`, no streak of reordered
events longer than `BatchSize - 2`, where a streak ends as soon as anything goes
through. A publish that goes through releases what is held back, and the loop
reads the stream out before the next one. So at each publish what is held back is
part of the current streak (`HeldStreak`, `Streak`), each event once, and the
publish adds two copies at most: that is all there is to read (`Room`). Reordered
events without number are covered as long as something goes through in between.
The hypothesis makes
`RoomInvariant` inductive: a batch holds the event at hand and reordered events
only (`ReadsAreWhole`), so what a drain records was reordered
(`DrainedWereReordered`), the gate notes every enforcement failure
(`FailuresAreNoted`), a crash is followed by a redelivery with a verdict
(`CrashesAreMadeGood`), and since an event was held back nothing was published
(`HeldSince`). Hence `CrashesCostNoVerdict`, `OnlyTheLastFlushIsUnread`,
`LiesComeFromEnforcement` and `CausesAreRight`.

**`ExperimentProofs`.** Two runs are compared through a function of the schedule
alone: a history of the edge (`EdgeHistory`) gives what it holds and has let
through after each event. `StudyInvariant` says that a history leads to where the
run is, and that each result kept tells of its run what the chain invariant says.
Hence `OneStream`, and with the invariant of the chains
`DedupBearsTheLoad`, `FailingOpenAdds`, `OnlyPositionDiffers`. `LiesNeedTwoWriters`
needs more of a run (`WholeRun`: room in the batches, effect records alike, and
`RunsAreCounted`): no action runs a third time, so the executions a run counts
are the unsafe actions that ran and once more those that ran twice. `LiesTell`
carries that to the results, and what the two runs differ by is then counted as
the disjoint union it is. Its hypothesis, again `[]ReadsReachTheEnd`, is discharged
by `StudiesHaveRoom` for any number of events and any rate, from what the kinds of
a study are and a read of at least three entries. The kinds go round over the
picked events, so between two reordered events lies a whole round of them
(`RoundHasAll`). If the kinds are `Mixed`, each asked for once and with some kind
that goes through wherever there is reordering, something goes through in that
round (`ReordersAreSpaced`), and so a streak has one event at most
(`MixedStreaksAreShort`). Every control and the matrix are of that sort.

`SharesStayEven` is about the schedule `build` makes. Ranks number the picked
events from 0 without a gap (`RanksAreOnto`), so the share of the i-th kind is the
number of ranks that leave i - 1 when divided by the number of kinds
(`SharesAreResidues`). Two residue classes of 0 .. n - 1 differ by one at most,
since a shift carries one class into the other and leaves out one rank at most
(`ResidueMoves`, `ResiduesAreEven`), and none is empty if n is as large as the
divisor (`NoResidueIsEmpty`). Proving it corrected the property: a kind asked for
twice gets two shares, and a rate above one picks every event.

**`ReportProofs`.** What the reports made of a run say of it. `PinnedReplayFinds`
follows from `RecordsAreSound`: a record is what its versions decide, so a replay
disagrees with it only if it was altered. `TwoReportsAgree` needs `EffectsAlike`:
all the effect records of an event agree on whether it ran, since only a retry
without dedup makes a second one, and under the ruling of the first. `CountersMatch`
needs `TallyInvariant`: the loop counts a ruling when it is made, and puts it on
record at the end of the pass; `Owed` is what is counted and not yet on record.

`RatesAreParts` says that each rate counts a part of its denominator, and counts
by maps that keep apart: late records are one per event and are blocks of a
gate that fails closed, an effect record of an event is the only one with dedup
on, dropped events are dropped in turn and so once each, and no event shows two
kinds of divergence. `RateInvariant` is what the chains do not say: a late record
keeps the score it came with, and drops are in turn. `StrataAdd` rests on
`DrainedOnce`: a position of the stream is looked at by one batch only, and a
reordered event has one copy, so an event has at most one record that replay can
take. Then the strata are sets of events, and the two evaluators differ on one
rule, for mail, and the two policies on one threshold, never on the same action.
It needs whole reads: with overflow a doubled event could be drained twice.

**`EffectorProofs`**: `EffectorRunsOnce`, `EffectorSettles`, the same two ideas as
in the arm for the effector alone under any caller; and `ChainCounts`, by induction
over the calls: each adds at most one record, at the end of the chain.

**`LedgerProofs`**: `HonestChains`, from the invariant that an honest chain and
file are sound at every position; `NothingRepairs`, `TampersAreFound`,
`ForgeriesAreFound` from the definitions of a sound record. Digests need no more
than that equal digests have equal contents, which the model builds in.
`OnlyTheLastIsMissed` is about one record dropped from a chain that verifies; what
alterations verification accepts is `TampersAreFound`. It needs that in a chain
that verifies no record has the seal it is linked to (`NoSealRepeats`). Of the
records that have, take the first: its seal is its predecessor's, so both seal the
same content, so the predecessor is linked to its own seal too, and it comes
earlier. A least counterexample does here what an induction over nested digests
would.

**`DeliveryProofs`**: `DeliveryImplementsBroker`, one case per operation; pages,
crashes and the passage of time are stutters of the broker. `NothingIsMissed`
needs `TakeoverInvariant`: while a takeover is under way, what it still owes is
pending, idle, and lies where its next page begins or behind, so that nothing is
owed any more when it has come to the end. A takeover that asks for idle time may
also stop at a page that claims nothing, which needs as many fresh entries in
front of what it still owes as a page looks at; the theorem says so, and that
there is no other exception. `PagesMoveOn`: the entry a page begins with is among
those the page looks at (`FirstIsExamined`), so the next page begins behind it.

What rests on `[]ReadsReachTheEnd` is marked in `theorems` by "where every read
reaches the end of the stream"; `ShortStreaks` implies it for a run, and `Mixed`
kinds imply it for a study. `StudiesHaveRoom` assumes only of its constants: kinds
that are `Mixed` and a read of at least three entries. The other theorems have no
hypothesis but the specification.

Only model-checked:

* liveness (`RunEnds`, `TakeoversEnd`), which is outside the proof system;
* the statements that the `claim_*` runs refute;
* that the hypothesis on reads is needed: with N=3 and BatchSize=1 TLC finds a
  counterexample to `CrashesAreRedelivered`, `LiesAreEnforcementFailures`,
  `CausesNameTheFailMode`, `OnlyTrailingReordersUnread` and `StrataAddUp` each,
  which is why no run checks them so.

## 5. Not modelled, and why

* The form of an event on the wire, the hash that its id is, and the migration
  between schemas: a run reads its deliveries back for their event and arguments
  only, an id is a position here, and nothing in the repository calls the
  migration.
* The latency distribution and its quantiles, all printing, formatting, argument
  parsing and result files: nothing later in the program depends on them.
* The external `omega_seal` package that `ledger.py` prefers if it is installed:
  it is not in the repository; the fallback is modelled.
* Redis itself. `Delivery` is written from the commands `RedisTransport` issues
  and from `InMemoryTransport`; delivery counts and consumer names, which nothing
  reads, are left out, and so are connection errors.
* Control NC6 and the incident study. NC6 deletes the decision record of an
  incident and asks for the cause "unknown": `Cause` answers so for any event
  without a record, by its first line. The incident study counts and times what
  `Reconstruct` says.
* The counts that `assert_results.py` pins for one seed: they are facts about one
  sequence of pseudo-random draws. What it asserts for every seed is stated as
  properties (`StrataAddUp`, `SingleWriterLosesTheLies`) or refuted (`claim_ci`).
* Seeded draws themselves: the model takes every scenario over its actions and
  every pick of events.
