----------------------------- MODULE Divergence -----------------------------
(* The join of what the safeguard said with what the effector did           *)
(* (divergence.py, detect), computed over the two chains of a run.  The     *)
(* join has no access to the run: it reads the records only.                *)
EXTENDS Arm

EventsOf(chain) == {chain[i].event : i \in DOMAIN chain}

\* A later decision for the same event supersedes an earlier one.
IsLatest(i, e) ==
    /\ i \in DOMAIN decisions /\ decisions[i].event = e
    /\ \A j \in DOMAIN decisions : decisions[j].event = e => j <= i

Judged(e) == e \in EventsOf(decisions)
Final(e) == decisions[CHOOSE i \in DOMAIN decisions : IsLatest(i, e)]

Reported(decision) == IF decision.decision = "BLOCK" THEN "PREVENTED" ELSE "PERMITTED"

\* Any execution wins: if the action ran at all, it was executed.
Observed(e) == e \in EventsOf(effects)
Executed(e) == \E i \in DOMAIN effects : effects[i].event = e /\ effects[i].executed

PreventedButExecuted ==
    {e \in Events : Judged(e) /\ Observed(e)
                    /\ Reported(Final(e)) = "PREVENTED" /\ Executed(e)}

PermittedNotExecuted ==
    {e \in Events : Judged(e) /\ Observed(e)
                    /\ Reported(Final(e)) = "PERMITTED" /\ ~Executed(e)}

NoEffectRecord == {e \in Events : Judged(e) /\ ~Observed(e)}
NoDecisionRecord == {e \in Events : Observed(e) /\ ~Judged(e)}
=============================================================================
