------------------------------ MODULE ArmClaims ------------------------------
(* What the repository's documents and comments say of a run and the code   *)
(* does not do.  Each claim is checked alone, by a run that TLC refutes.    *)
EXTENDS ReportProperties

(* "It is not a separate injected fault -- it is what I is observed as":    *)
(* the in-series dashboard lies only for an injected enforcement failure    *)
(* (THREAT_MODEL.md, failure J).  A fail-open gate lets a reordered action  *)
(* run, and the backlog drain then records BLOCK for it.                    *)
EveryLieIsAnEnforcementFailure ==
    Finished /\ InSeries => \A e \in PreventedButExecuted : schedule[e] = "enforcement_fail"

(* "enforcement_failed" means that the "decision was BLOCK, action ran      *)
(* anyway" (reconstruct.py).  A failure injected on an action the gate      *)
(* allowed is reported so too, and hides the detection gap.                 *)
EnforcementFailedMeansBlocked ==
    Finished => \A e \in Incidents :
        Cause(e) = "enforcement_failed" => Final(e).decision = "BLOCK"

(* The reader of the results requires every stratum to be "fully            *)
(* attributed" (assert_results.py).  It looks for a key under which replay  *)
(* counts nothing, so that an unattributed disagreement, as the altered     *)
(* record of the replay control is one, counts as none.                     *)
UnattributedIsSeen ==
    Finished => \A i \in Replayable(decisions) :
        Attribution(mode.evaluator, mode.policy) = Unattributed
        => UnattributedInResults(Altered(decisions, i), mode.evaluator, mode.policy)
           = Cardinality(Pinned(Altered(decisions, i)))
=============================================================================
