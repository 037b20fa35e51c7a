------------------------------ MODULE MCLedger ------------------------------
(* Decision records with a decision, a risk that may be None, and a field   *)
(* that no writer sets.                                                     *)
EXTENDS Ledger

RecordFields == {"decision", "risk", "extra"}
FieldValues == {"ALLOW", "BLOCK"}

\* Decided, or refused without a verdict.
Appended ==
    {[decision |-> "ALLOW", risk |-> "BLOCK", extra |-> Absent],
     [decision |-> "BLOCK", risk |-> None, extra |-> Absent]}
=============================================================================
