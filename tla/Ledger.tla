------------------------------- MODULE Ledger -------------------------------
(* A sealed, append-only chain (ledger.py, class Chain, with the sealer it  *)
(* falls back to): records that carry their own seal and the seal of the    *)
(* record before, what a reader does to them (tamper, cut, dump and load,   *)
(* drop one), and the walk that verifies them.  A digest is the value it    *)
(* was taken of, so that two digests are equal for equal contents only.     *)
EXTENDS Integers, Sequences

CONSTANTS
    Fields,                 \* the fields a record may carry
    Values,                 \* what a field may hold besides None
    Contents,               \* what writers append
    MaxLength,              \* bound: records in a chain
    MaxTampers              \* bound: how often a record is altered or taken out

None == "None"
Absent == "absent"

ASSUME LedgerAssumption ==
    /\ None \notin Values /\ Absent \notin Values
    /\ Contents \subseteq [Fields -> Values \cup {None, Absent}]
    /\ MaxLength \in Nat /\ MaxTampers \in Nat

VARIABLES
    records,                \* the chain in memory
    file,                   \* the chain as last dumped
    tampers,                \* how often a record was altered or taken out
    honest,                 \* nothing but append, dump and load has touched the chain
    honestFile              \* nor the one in the file

ledgerVars == <<records, file, tampers, honest, honestFile>>

----------------------------------------------------------------------------
(* Sealing and verifying.                                                   *)

Digest(body) == <<"sha256", body>>
NoLink == <<>>

\* A field that holds None is left out of what is sealed.
Present(fields) == {f \in Fields : fields[f] \notin {None, Absent}}

Body(previous, fields) ==
    [previous |-> previous, fields |-> [f \in Present(fields) |-> fields[f]]]

Seal(previous, fields) ==
    [previous |-> previous, fields |-> fields, seal |-> Digest(Body(previous, fields))]

\* What the i-th record has to name as the seal of the record before.
Link(chain, i) == IF i = 1 THEN NoLink ELSE chain[i - 1].seal

\* Slip: a record without a seal has nothing to check.
HoldsIfSealed(r) == r.seal = NoLink \/ r.seal = Digest(Body(r.previous, r.fields))

SealHolds(r) == r.seal = Digest(Body(r.previous, r.fields))

\* Slip: verification recomputes the seals and does not follow the links.
SealsOnly(chain, i) == SealHolds(chain[i])

Sound(chain, i) == SealHolds(chain[i]) /\ chain[i].previous = Link(chain, i)

Unsound(chain) == {i \in DOMAIN chain : ~Sound(chain, i)}

\* Verification walks from the first record and stops at the first that fails.
Verifies(chain) == Unsound(chain) = {}

StopsAt(chain, i) == i \in Unsound(chain) /\ \A j \in Unsound(chain) : i <= j

----------------------------------------------------------------------------
(* Operations.                                                              *)

LedgerInit ==
    /\ records = <<>> /\ file = <<>>
    /\ tampers = 0
    /\ honest = TRUE /\ honestFile = TRUE

\* Slip: a record takes over the link of the record before it.
AppendBeside(fields) ==
    /\ Len(records) < MaxLength
    /\ records' = Append(records, Seal(Link(records, IF records = <<>> THEN 1 ELSE Len(records)),
                                       fields))
    /\ UNCHANGED <<file, tampers, honest, honestFile>>

\* Slip: the last record is sealed again before the next one is linked to it.
AppendReseals(fields) ==
    /\ Len(records) < MaxLength
    /\ LET last == Len(records)
           sealed == [i \in DOMAIN records |->
                          IF i = last THEN Seal(records[i].previous, records[i].fields)
                          ELSE records[i]]
       IN records' = Append(sealed, Seal(Link(sealed, last + 1), fields))
    /\ UNCHANGED <<file, tampers, honest, honestFile>>

AppendRecord(fields) ==
    /\ Len(records) < MaxLength
    /\ records' = Append(records, Seal(Link(records, Len(records) + 1), fields))
    /\ UNCHANGED <<file, tampers, honest, honestFile>>

\* Slip: an alteration that changes nothing is accepted.
TamperAnyway(i, f, v) ==
    /\ tampers < MaxTampers
    /\ records' = [records EXCEPT ![i].fields[f] = v]
    /\ tampers' = tampers + 1
    /\ honest' = FALSE
    /\ UNCHANGED <<file, honestFile>>

\* An altered record keeps its seal; writing what is there already is refused.
TamperField(i, f, v) ==
    /\ tampers < MaxTampers
    /\ records[i].fields[f] # v
    /\ records' = [records EXCEPT ![i].fields[f] = v]
    /\ tampers' = tampers + 1
    /\ honest' = FALSE
    /\ UNCHANGED <<file, honestFile>>

\* The link and the seal are fields like any other.
TamperLink(i, seal) ==
    /\ tampers < MaxTampers
    /\ records[i].previous # seal
    /\ records' = [records EXCEPT ![i].previous = seal]
    /\ tampers' = tampers + 1
    /\ honest' = FALSE
    /\ UNCHANGED <<file, honestFile>>

TamperSeal(i, seal) ==
    /\ tampers < MaxTampers
    /\ records[i].seal # seal
    /\ records' = [records EXCEPT ![i].seal = seal]
    /\ tampers' = tampers + 1
    /\ honest' = FALSE
    /\ UNCHANGED <<file, honestFile>>

\* One record is taken out, as a control does to destroy the evidence of an incident.
Without(chain, i) == SubSeq(chain, 1, i - 1) \o SubSeq(chain, i + 1, Len(chain))

Strip(i) ==
    /\ tampers < MaxTampers
    /\ records' = Without(records, i)
    /\ tampers' = tampers + 1
    /\ honest' = FALSE
    /\ UNCHANGED <<file, honestFile>>

\* Records are written a line each; a writer that stops early leaves the lines so far.
Dump(n) ==
    /\ file' = SubSeq(records, 1, n)
    /\ honestFile' = honest
    /\ UNCHANGED <<records, tampers, honest>>

Load ==
    /\ records' = file
    /\ honest' = honestFile
    /\ UNCHANGED <<file, tampers, honestFile>>

Seals == {NoLink} \cup {records[i].seal : i \in DOMAIN records}

LedgerNext ==
    \/ \E fields \in Contents : AppendRecord(fields)
    \/ \E i \in DOMAIN records :
          \/ \E f \in Fields, v \in Values \cup {None} : TamperField(i, f, v)
          \/ \E seal \in Seals : TamperLink(i, seal) \/ TamperSeal(i, seal)
          \/ Strip(i)
    \/ \E n \in 0 .. Len(records) : Dump(n)
    \/ Load

LedgerSpec == LedgerInit /\ [][LedgerNext]_ledgerVars

----------------------------------------------------------------------------
(* Properties.                                                              *)

(* A chain that only append, dump and load have touched verifies, and so    *)
(* does every chain cut off from it at the end of a line: a dump that did   *)
(* not complete cannot be told from a shorter run (ledger.py 50-59, 124).   *)
HonestChainsVerify ==
    /\ honest => \A n \in 0 .. Len(records) : Verifies(SubSeq(records, 1, n))
    /\ honestFile => Verifies(file)

(* Whatever was altered stays visible: a writer that goes on appending to a *)
(* chain that does not verify never repairs it, and never moves the record  *)
(* the verification stops at (ledger.py append, _verify_chain).             *)
AppendingNeverRepairs ==
    [][\A fields \in Contents, i \in DOMAIN records :
          AppendRecord(fields) /\ StopsAt(records, i) => StopsAt(records', i)]_ledgerVars

(* An accepted alteration of one field of a verified chain is found, at the *)
(* record altered.  The only one that is not writes None where there was no *)
(* field: its guard lets it pass as a change, and the seal does not see it  *)
(* (ledger.py 47, 107-118).                                                 *)
TamperIsFound ==
    [][\A i \in DOMAIN records, f \in Fields, v \in Values \cup {None} :
          TamperField(i, f, v) /\ Verifies(records) =>
              IF v = None /\ records[i].fields[f] = Absent
              THEN Verifies(records')
              ELSE StopsAt(records', i)]_ledgerVars

(* An altered link or seal is found where it is: no record of a chain can   *)
(* be passed off for another one's predecessor (ledger.py 54-57).           *)
ForgedSealIsFound ==
    [][\A i \in DOMAIN records, seal \in Seals :
          (TamperLink(i, seal) \/ TamperSeal(i, seal)) /\ Verifies(records)
          => StopsAt(records', i)]_ledgerVars

(* A record taken out of a verified chain is missed by the record after it, *)
(* and only the last one can go unnoticed (experiments.py 232-234,          *)
(* ledger.py 56-57).                                                        *)
OnlyTheLastGoesUnnoticed ==
    [][\A i \in DOMAIN records :
          Strip(i) /\ Verifies(records) =>
              IF i = Len(records) THEN Verifies(records') ELSE StopsAt(records', i)]_ledgerVars
=============================================================================
