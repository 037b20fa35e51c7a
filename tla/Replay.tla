------------------------------- MODULE Replay -------------------------------
(* Replaying the decisions on record (replay.py): each one is computed      *)
(* again from its event by an evaluator and a policy, and compared.  A      *)
(* disagreement is put down to the versions that changed.                   *)
EXTENDS Divergence, FiniteSets

\* Slip: whatever has a verdict is replayed, a late one too.
ReplayableIfScored(chain) == {i \in DOMAIN chain : chain[i].risk # NoRisk}

\* Only what the policy ruled on can be replayed; the fail mode's rulings cannot.
Replayable(chain) ==
    {i \in DOMAIN chain : chain[i].outcome \in {"DECIDED", "DECIDED_BACKLOG"}}

Replayed(chain, i, evaluator, policy) ==
    Decide(policy, Evaluate(evaluator, scenario[chain[i].event]))

\* Slip: agreement is reported, not computed.
AgreesAlways(chain, evaluator, policy) == {}

Disagreements(chain, evaluator, policy) ==
    {i \in Replayable(chain) : Replayed(chain, i, evaluator, policy) # chain[i].decision}

Pinned(chain) == Disagreements(chain, mode.evaluator, mode.policy)

Changed(evaluator, policy) ==
    (IF evaluator # mode.evaluator THEN {"evaluator"} ELSE {})
    \cup (IF policy # mode.policy THEN {"policy"} ELSE {})

\* The key a disagreement is counted under.
Unattributed == {"UNATTRIBUTED (versions identical)"}

Attribution(evaluator, policy) ==
    IF Changed(evaluator, policy) # {} THEN Changed(evaluator, policy) ELSE Unattributed

\* How many disagreements are counted under a key.
AttributedTo(key, chain, evaluator, policy) ==
    IF key = Attribution(evaluator, policy)
    THEN Cardinality(Disagreements(chain, evaluator, policy))
    ELSE 0

\* The negative control alters one decision on record.
Altered(chain, i) ==
    [chain EXCEPT ![i].decision = IF @ = "BLOCK" THEN "ALLOW" ELSE "BLOCK"]

\* The reader of the results asks for this key, and takes none for zero.
UnattributedInResults(chain, evaluator, policy) ==
    AttributedTo({"UNATTRIBUTED"}, chain, evaluator, policy)
=============================================================================
