------------------------------ MODULE Schedule ------------------------------
(* How a fault schedule is built (faultlab.py, FaultSchedule): a rate of    *)
(* the events is picked, and the kinds asked for go round over the picked   *)
(* events in order.  Which events are picked is the seed's choice.          *)
EXTENDS Effector, FaultLab, FiniteSets

\* To the nearest whole number, a half to the even one.
Rounded(part, whole) ==
    LET floor == part \div whole
        twice == 2 * (part % whole)
    IN IF twice < whole \/ (twice = whole /\ floor % 2 = 0) THEN floor ELSE floor + 1

\* A rate is a pair: so many out of so many.
Picks(rate) ==
    LET n == Rounded(N * rate[1], rate[2]) IN IF n < N THEN n ELSE N

\* Slip: the kind goes by the event's position, not by its place among the picked.
AssignedByPosition(kinds, picked) ==
    [e \in Events |-> IF e \in picked THEN kinds[((e - 1) % Len(kinds)) + 1] ELSE NoFault]

Assigned(kinds, picked) ==
    [e \in Events |-> IF e \in picked
                      THEN kinds[(Cardinality({p \in picked : p < e}) % Len(kinds)) + 1]
                      ELSE NoFault]

Built(kinds, rate) ==
    {Assigned(kinds, picked) : picked \in {p \in SUBSET Events : Cardinality(p) = Picks(rate)}}

NoFaults == [e \in Events |-> NoFault]

\* What the schedule reports of itself.
FaultCount(kind) == Cardinality({e \in Events : schedule[e] = kind})
FaultsTotal == Cardinality({e \in Events : schedule[e] # NoFault})
=============================================================================
