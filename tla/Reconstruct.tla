----------------------------- MODULE Reconstruct -----------------------------
(* Incident reconstruction from the two chains only (reconstruct.py): an    *)
(* unsafe action that executed is an incident, and the final decision       *)
(* record on its event says why it could run.                               *)
EXTENDS Divergence

Incidents == {e \in Events : scenario[e].unsafe /\ Executed(e)}

\* Slip: the deadline is blamed before enforcement is looked at.
CauseDeadlineFirst(e) ==
    IF ~Judged(e) THEN "unknown"
    ELSE IF ~InSeries THEN "monitor_cannot_prevent"
    ELSE IF Final(e).outcome \in {"NO_DECISION", "LATE", "REFUSED_TRANSPORT_DOWN"}
    THEN "no_decision_in_time"
    ELSE IF Final(e).note = "enforcement_failed" THEN "enforcement_failed"
    ELSE IF Final(e).risk = NoRisk THEN "unknown"
    ELSE "not_detected"

Cause(e) ==
    IF ~Judged(e) THEN "unknown"
    ELSE IF ~InSeries THEN "monitor_cannot_prevent"
    ELSE IF \/ Final(e).note = "enforcement_failed"
            \/ Final(e).decision = "BLOCK" /\ Final(e).outcome = "DECIDED"
    THEN "enforcement_failed"
    ELSE IF Final(e).outcome \in {"NO_DECISION", "LATE", "REFUSED_TRANSPORT_DOWN"}
    THEN "no_decision_in_time"
    ELSE IF Final(e).risk = NoRisk THEN "unknown"
    ELSE "not_detected"
=============================================================================
