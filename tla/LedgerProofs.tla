---------------------------- MODULE LedgerProofs ----------------------------
(* What the sealed chain of Ledger.tla promises, for chains of any length,  *)
(* fields and contents.                                                     *)
EXTENDS Ledger, WellFoundedInduction, TLAPS

\* The records of a chain, whatever they link to, and chains of them.
IsRecord(r) ==
    /\ r = [previous |-> r.previous, fields |-> r.fields, seal |-> r.seal]
    /\ r.fields \in [Fields -> Values \cup {None, Absent}]

IsChain(chain) ==
    /\ chain \in Seq({chain[i] : i \in DOMAIN chain})
    /\ \A i \in DOMAIN chain : IsRecord(chain[i])

(* The inductive invariant: two chains of well-formed records, each of them *)
(* sound at every record while nothing has altered it.                      *)
ChainInvariant ==
    /\ IsChain(records) /\ IsChain(file)
    /\ honest \in BOOLEAN /\ honestFile \in BOOLEAN
    /\ honest => \A i \in DOMAIN records : Sound(records, i)
    /\ honestFile => \A i \in DOMAIN file : Sound(file, i)

----------------------------------------------------------------------------
(* Chains.                                                                  *)

\* A chain is a sequence: its length counts its records.
LEMMA ChainIsSequence ==
    ASSUME NEW chain, IsChain(chain)
    PROVE  /\ Len(chain) \in Nat /\ DOMAIN chain = 1 .. Len(chain)
           /\ chain = [i \in 1 .. Len(chain) |-> chain[i]]
  BY DEF IsChain

\* Anything sequence-like with well-formed records is a chain.
LEMMA RecordsMakeChain ==
    ASSUME NEW chain, NEW n \in Nat, chain = [i \in 1 .. n |-> chain[i]],
           \A i \in 1 .. n : IsRecord(chain[i])
    PROVE  IsChain(chain) /\ Len(chain) = n
<1> DEFINE S == {chain[i] : i \in DOMAIN chain}
<1>1. DOMAIN chain = 1 .. n OBVIOUS
<1>2. chain \in [1 .. n -> S] BY <1>1
<1>3. chain \in Seq(S) BY <1>2
<1> QED BY <1>1, <1>2, <1>3 DEF IsChain

\* Appending leaves the records there are and puts one more behind them.
LEMMA AppendedChain ==
    ASSUME NEW chain, IsChain(chain), NEW r, IsRecord(r)
    PROVE  /\ IsChain(Append(chain, r))
           /\ Len(Append(chain, r)) = Len(chain) + 1
           /\ \A i \in 1 .. Len(chain) : Append(chain, r)[i] = chain[i]
           /\ Append(chain, r)[Len(chain) + 1] = r
<1> DEFINE S == {chain[i] : i \in DOMAIN chain}
           longer == Append(chain, r)
<1>1. chain \in Seq(S) /\ chain \in Seq(S \cup {r}) BY DEF IsChain
<1>2. /\ Len(longer) = Len(chain) + 1
      /\ \A i \in 1 .. Len(chain) : longer[i] = chain[i]
      /\ longer[Len(chain) + 1] = r
      /\ longer \in Seq(S \cup {r})
  BY <1>1
<1>3. longer = [i \in 1 .. Len(chain) + 1 |-> longer[i]]
  <2> HIDE DEF longer, S
  <2> QED BY <1>2
<1>4. \A i \in 1 .. Len(chain) + 1 : IsRecord(longer[i])
  BY <1>2, ChainIsSequence DEF IsChain
<1>5. Len(chain) + 1 \in Nat BY ChainIsSequence
<1> HIDE DEF longer
<1>6. IsChain(longer) BY <1>3, <1>4, <1>5, RecordsMakeChain
<1> QED BY <1>2, <1>6 DEF longer

\* Cutting a chain leaves a chain of the records before the cut.
LEMMA CutChain ==
    ASSUME NEW chain, IsChain(chain), NEW n \in 0 .. Len(chain)
    PROVE  /\ IsChain(SubSeq(chain, 1, n))
           /\ Len(SubSeq(chain, 1, n)) = n
           /\ \A i \in 1 .. n : SubSeq(chain, 1, n)[i] = chain[i]
<1> DEFINE S == {chain[i] : i \in DOMAIN chain}
           cut == SubSeq(chain, 1, n)
<1>1. chain \in Seq(S) BY DEF IsChain
<1>2. /\ Len(cut) = n /\ \A i \in 1 .. n : cut[i] = chain[i]
      /\ cut = [i \in 1 .. n |-> cut[i]]
  BY <1>1
<1>3. \A i \in 1 .. n : IsRecord(cut[i])
  BY <1>2, ChainIsSequence DEF IsChain
<1> HIDE DEF cut
<1>4. IsChain(cut) BY <1>2, <1>3, RecordsMakeChain
<1> QED BY <1>2, <1>4 DEF cut

\* A sealed record is well formed and its seal holds.
LEMMA SealedRecord ==
    ASSUME NEW previous, NEW fields \in [Fields -> Values \cup {None, Absent}]
    PROVE  IsRecord(Seal(previous, fields)) /\ SealHolds(Seal(previous, fields))
  BY DEF IsRecord, Seal, SealHolds

\* Whether a record is sound depends on it and the record before it alone.
LEMMA SoundIsLocal ==
    ASSUME NEW one, NEW other, NEW i \in Nat \ {0}, one[i] = other[i],
           i > 1 => one[i - 1] = other[i - 1]
    PROVE  Sound(one, i) <=> Sound(other, i)
<1>1. Link(one, i) = Link(other, i) BY DEF Link
<1> QED BY <1>1 DEF Sound

----------------------------------------------------------------------------
(* Chains that nobody altered.                                              *)

\* Every operation keeps the invariant.
LEMMA ChainStep ==
    ASSUME ChainInvariant, [LedgerNext]_ledgerVars
    PROVE  ChainInvariant'
<1> USE DEF ChainInvariant
<1>1. ASSUME NEW fields \in Contents, AppendRecord(fields)
      PROVE  ChainInvariant'
  <2> DEFINE r == Seal(Link(records, Len(records) + 1), fields)
  <2>1. fields \in [Fields -> Values \cup {None, Absent}] BY LedgerAssumption
  <2>2. IsRecord(r) /\ SealHolds(r) BY <2>1, SealedRecord
  <2>3. r.previous = Link(records, Len(records) + 1) BY DEF Seal
  <2>4. records' = Append(records, r) /\ UNCHANGED <<file, honest, honestFile>>
    BY <1>1 DEF AppendRecord
  <2> HIDE DEF r
  <2>5. /\ IsChain(records') /\ Len(records') = Len(records) + 1
        /\ \A i \in 1 .. Len(records) : records'[i] = records[i]
        /\ records'[Len(records) + 1] = r
    BY <2>2, <2>4, AppendedChain
  <2>6. Len(records) \in Nat /\ DOMAIN records = 1 .. Len(records) BY ChainIsSequence
  <2>7. ASSUME honest, NEW i \in 1 .. Len(records) + 1
        PROVE  Sound(records', i)
    <3>1. CASE i <= Len(records)
      BY <2>5, <2>6, <2>7, <3>1, SoundIsLocal
    <3>2. CASE i = Len(records) + 1
      <4>1. Link(records', i) = Link(records, i) BY <2>5, <2>6, <3>2 DEF Link
      <4> QED BY <2>2, <2>3, <2>5, <3>2, <4>1 DEF Sound
    <3> QED BY <2>6, <3>1, <3>2
  <2>8. DOMAIN records' = 1 .. Len(records) + 1 BY <2>5, ChainIsSequence
  <2> QED BY <2>4, <2>5, <2>7, <2>8
<1>2. ASSUME NEW i \in DOMAIN records, NEW f \in Fields, NEW v \in Values \cup {None},
             TamperField(i, f, v)
      PROVE  ChainInvariant'
  <2>1. Len(records) \in Nat /\ DOMAIN records = 1 .. Len(records)
        /\ records = [j \in 1 .. Len(records) |-> records[j]]
    BY ChainIsSequence
  <2>2. records' = [records EXCEPT ![i].fields[f] = v] /\ honest' = FALSE
        /\ UNCHANGED <<file, honestFile>>
    BY <1>2 DEF TamperField
  <2>3. records' = [j \in 1 .. Len(records) |-> records'[j]] BY <2>1, <2>2
  <2>4. ASSUME NEW j \in 1 .. Len(records)
        PROVE  IsRecord(records'[j])
    <3>1. IsRecord(records[j]) BY <2>1 DEF IsChain
    <3>2. CASE j # i BY <2>1, <2>2, <3>1, <3>2
    <3>3. CASE j = i
      <4>1. records'[j] = [records[j] EXCEPT !.fields = [@ EXCEPT ![f] = v]]
        BY <2>1, <2>2, <3>3
      <4> QED BY <3>1, <4>1 DEF IsRecord
    <3> QED BY <3>2, <3>3
  <2>5. IsChain(records') BY <2>1, <2>3, <2>4, RecordsMakeChain
  <2> QED BY <2>2, <2>5
<1>3. ASSUME NEW i \in DOMAIN records, NEW seal, TamperLink(i, seal) \/ TamperSeal(i, seal)
      PROVE  ChainInvariant'
  <2>1. Len(records) \in Nat /\ DOMAIN records = 1 .. Len(records)
        /\ records = [j \in 1 .. Len(records) |-> records[j]]
    BY ChainIsSequence
  <2>2. /\ \/ records' = [records EXCEPT ![i].previous = seal]
           \/ records' = [records EXCEPT ![i].seal = seal]
        /\ honest' = FALSE /\ UNCHANGED <<file, honestFile>>
    BY <1>3 DEF TamperLink, TamperSeal
  <2>3. records' = [j \in 1 .. Len(records) |-> records'[j]] BY <2>1, <2>2
  <2>4. ASSUME NEW j \in 1 .. Len(records)
        PROVE  IsRecord(records'[j])
    <3>1. IsRecord(records[j]) BY <2>1 DEF IsChain
    <3>2. \/ records'[j] = records[j]
          \/ records'[j] = [records[j] EXCEPT !.previous = seal]
          \/ records'[j] = [records[j] EXCEPT !.seal = seal]
      BY <2>1, <2>2
    <3> QED BY <3>1, <3>2 DEF IsRecord
  <2>5. IsChain(records') BY <2>1, <2>3, <2>4, RecordsMakeChain
  <2> QED BY <2>2, <2>5
<1>4. ASSUME NEW i \in DOMAIN records, Strip(i)
      PROVE  ChainInvariant'
  <2> DEFINE S == {records[j] : j \in DOMAIN records}
  <2>1. Len(records) \in Nat /\ DOMAIN records = 1 .. Len(records) /\ records \in Seq(S)
    BY ChainIsSequence DEF IsChain
  <2>2. records' = Without(records, i) /\ honest' = FALSE /\ UNCHANGED <<file, honestFile>>
    BY <1>4 DEF Strip
  <2>3. Without(records, i) \in Seq(S) BY <2>1 DEF Without
  <2>4. \A r \in S : IsRecord(r) BY DEF IsChain
  <2> HIDE DEF S
  <2>5. /\ Len(records') \in Nat
        /\ records' = [j \in 1 .. Len(records') |-> records'[j]]
        /\ \A j \in 1 .. Len(records') : IsRecord(records'[j])
    BY <2>2, <2>3, <2>4
  <2>6. IsChain(records') BY <2>5, RecordsMakeChain
  <2> QED BY <2>2, <2>6
<1>5. ASSUME NEW n \in 0 .. Len(records), Dump(n)
      PROVE  ChainInvariant'
  <2>1. file' = SubSeq(records, 1, n) /\ honestFile' = honest /\ UNCHANGED <<records, honest>>
    BY <1>5 DEF Dump
  <2>2. Len(records) \in Nat /\ DOMAIN records = 1 .. Len(records) BY ChainIsSequence
  <2>3. IsChain(file') /\ Len(file') = n /\ \A i \in 1 .. n : file'[i] = records[i]
    BY <2>1, CutChain
  <2>4. DOMAIN file' = 1 .. n BY <2>3, ChainIsSequence
  <2>5. ASSUME honest, NEW i \in 1 .. n
        PROVE  Sound(file', i)
    BY <2>2, <2>3, <2>5, SoundIsLocal
  <2> QED BY <2>1, <2>3, <2>4, <2>5
<1>6. CASE Load
  BY <1>6 DEF Load
<1>7. CASE UNCHANGED ledgerVars
  BY <1>7 DEF ledgerVars
<1> QED BY <1>1, <1>2, <1>3, <1>4, <1>5, <1>6, <1>7 DEF LedgerNext

\* A chain that is sound at every record verifies, and so does every cut of it.
LEMMA SoundChainsVerify ==
    ASSUME NEW chain, IsChain(chain), \A i \in DOMAIN chain : Sound(chain, i)
    PROVE  /\ Verifies(chain)
           /\ \A n \in 0 .. Len(chain) : Verifies(SubSeq(chain, 1, n))
<1>1. Verifies(chain) BY DEF Verifies, Unsound
<1>2. ASSUME NEW n \in 0 .. Len(chain)
      PROVE  Verifies(SubSeq(chain, 1, n))
  <2> DEFINE cut == SubSeq(chain, 1, n)
  <2>1. /\ IsChain(cut) /\ Len(cut) = n /\ \A i \in 1 .. n : cut[i] = chain[i] BY CutChain
  <2> HIDE DEF cut
  <2>2. DOMAIN cut = 1 .. n BY <2>1, ChainIsSequence
  <2>3. Len(chain) \in Nat /\ DOMAIN chain = 1 .. Len(chain) BY ChainIsSequence
  <2>4. \A i \in 1 .. n : Sound(cut, i) BY <2>1, <2>3, SoundIsLocal
  <2>5. Verifies(cut) BY <2>2, <2>4 DEF Verifies, Unsound
  <2> QED BY <2>5 DEF cut
<1> QED BY <1>1, <1>2

\* The invariant holds in every state.
LEMMA ChainsAreChains == LedgerSpec => []ChainInvariant
<1>1. LedgerInit => ChainInvariant
  <2> SUFFICES ASSUME LedgerInit PROVE ChainInvariant OBVIOUS
  <2>1. records = <<>> /\ file = <<>> /\ honest = TRUE /\ honestFile = TRUE
    BY DEF LedgerInit
  <2>2. IsChain(<<>>) BY DEF IsChain
  <2> QED BY <2>1, <2>2 DEF ChainInvariant
<1>2. ChainInvariant /\ [LedgerNext]_ledgerVars => ChainInvariant' BY ChainStep
<1> QED BY <1>1, <1>2, PTL DEF LedgerSpec

(* Chains of any length, with any fields and contents, verify as long as    *)
(* only append, dump and load have touched them, and so do their prefixes   *)
(* (ledger.py 50-59, 124).                                                  *)
THEOREM HonestChains == LedgerSpec => []HonestChainsVerify
<1>1. ChainInvariant => HonestChainsVerify
  BY SoundChainsVerify DEF ChainInvariant, HonestChainsVerify
<1> QED BY <1>1, ChainsAreChains, PTL

----------------------------------------------------------------------------
(* Chains that were altered.                                                *)

(* Whatever is appended to a chain that does not verify, verification goes  *)
(* on stopping at the same record (ledger.py append, _verify_chain).        *)
THEOREM NothingRepairs == LedgerSpec => AppendingNeverRepairs
<1>1. ASSUME ChainInvariant, [LedgerNext]_ledgerVars
      PROVE  [\A fields \in Contents, i \in DOMAIN records :
                 AppendRecord(fields) /\ StopsAt(records, i)
                 => StopsAt(records', i)]_ledgerVars
  <2> SUFFICES ASSUME NEW fields \in Contents, NEW i \in DOMAIN records,
                      AppendRecord(fields), StopsAt(records, i)
               PROVE  StopsAt(records', i)
    OBVIOUS
  <2> DEFINE r == Seal(Link(records, Len(records) + 1), fields)
  <2>1. IsChain(records) BY <1>1 DEF ChainInvariant
  <2>2. IsRecord(r) BY SealedRecord, LedgerAssumption
  <2>3. records' = Append(records, r) BY DEF AppendRecord
  <2> HIDE DEF r
  <2>4. /\ IsChain(records') /\ Len(records') = Len(records) + 1
        /\ \A j \in 1 .. Len(records) : records'[j] = records[j]
    BY <2>1, <2>2, <2>3, AppendedChain
  <2>5. /\ Len(records) \in Nat /\ DOMAIN records = 1 .. Len(records)
        /\ DOMAIN records' = 1 .. Len(records) + 1
    BY <2>1, <2>4, ChainIsSequence
  <2>6. \A j \in 1 .. Len(records) : Sound(records', j) <=> Sound(records, j)
    BY <2>4, <2>5, SoundIsLocal
  <2> QED BY <2>5, <2>6 DEF StopsAt, Unsound
<1> QED BY <1>1, ChainsAreChains, PTL DEF LedgerSpec, AppendingNeverRepairs

\* Altering one record of a chain leaves the others, and the links up to it.
LEMMA OneAltered ==
    ASSUME NEW chain, IsChain(chain), NEW other, NEW i \in DOMAIN chain,
           DOMAIN other = DOMAIN chain,
           \A j \in DOMAIN chain \ {i} : other[j] = chain[j],
           Verifies(chain), ~Sound(other, i)
    PROVE  StopsAt(other, i)
<1>1. Len(chain) \in Nat /\ DOMAIN chain = 1 .. Len(chain) BY ChainIsSequence
<1>2. ASSUME NEW j \in DOMAIN chain, j < i
      PROVE  Sound(other, j)
  <2>1. Sound(chain, j) BY DEF Verifies, Unsound
  <2>2. other[j] = chain[j] /\ (j > 1 => other[j - 1] = chain[j - 1]) BY <1>1, <1>2
  <2> QED BY <1>1, <2>1, <2>2, SoundIsLocal
<1> QED BY <1>1, <1>2 DEF StopsAt, Unsound

(* One altered field of a verified chain is found at its record, but for a  *)
(* None written where there was no field, which changes nothing that was    *)
(* sealed (ledger.py 47, 107-118).                                          *)
THEOREM TampersAreFound == LedgerSpec => TamperIsFound
<1>1. ASSUME ChainInvariant, [LedgerNext]_ledgerVars
      PROVE  [\A i \in DOMAIN records, f \in Fields, v \in Values \cup {None} :
                 TamperField(i, f, v) /\ Verifies(records) =>
                     IF v = None /\ records[i].fields[f] = Absent
                     THEN Verifies(records')
                     ELSE StopsAt(records', i)]_ledgerVars
  <2> SUFFICES ASSUME NEW i \in DOMAIN records, NEW f \in Fields,
                      NEW v \in Values \cup {None},
                      TamperField(i, f, v), Verifies(records)
               PROVE  IF v = None /\ records[i].fields[f] = Absent
                      THEN Verifies(records')
                      ELSE StopsAt(records', i)
    OBVIOUS
  <2> DEFINE old == records[i].fields
             new == records'[i].fields
  <2>1. IsChain(records) BY <1>1 DEF ChainInvariant
  <2>2. Len(records) \in Nat /\ DOMAIN records = 1 .. Len(records)
        /\ records = [j \in 1 .. Len(records) |-> records[j]]
    BY <2>1, ChainIsSequence
  <2>3. records' = [records EXCEPT ![i].fields[f] = v] /\ old[f] # v
    BY DEF TamperField
  <2>4. IsRecord(records[i]) BY <2>1 DEF IsChain
  <2>5. /\ old \in [Fields -> Values \cup {None, Absent}]
        /\ new = [old EXCEPT ![f] = v]
        /\ records'[i].previous = records[i].previous /\ records'[i].seal = records[i].seal
    BY <2>2, <2>3, <2>4 DEF IsRecord
  <2>6. /\ DOMAIN records' = DOMAIN records
        /\ \A j \in DOMAIN records \ {i} : records'[j] = records[j]
    BY <2>2, <2>3
  <2>7. \A j \in DOMAIN records : Sound(records, j) BY DEF Verifies, Unsound
  <2> HIDE DEF old, new
  <2>8. CASE v = None /\ old[f] = Absent
    <3>1. Present(new) = Present(old) /\ \A g \in Present(old) : new[g] = old[g]
      BY <2>5, <2>8, LedgerAssumption DEF Present, None, Absent
    <3>2. Body(records'[i].previous, new) = Body(records[i].previous, old)
      BY <2>5, <3>1 DEF Body
    <3>3. SealHolds(records'[i])
      BY <2>5, <2>7, <3>2 DEF Sound, SealHolds, old, new
    <3>4. \A j \in DOMAIN records :
             /\ SealHolds(records'[j]) <=> SealHolds(records[j])
             /\ records'[j].previous = records[j].previous
             /\ records'[j].seal = records[j].seal
      BY <2>5, <2>6, <2>7, <3>3 DEF Sound
    <3>5. \A j \in DOMAIN records : Link(records', j) = Link(records, j)
      BY <2>2, <3>4 DEF Link
    <3>6. Verifies(records')
      BY <2>6, <2>7, <3>4, <3>5 DEF Verifies, Unsound, Sound
    <3> QED BY <2>8, <3>6 DEF old
  <2>9. CASE ~(v = None /\ old[f] = Absent)
    <3>1. f \in Present(old) \/ f \in Present(new)
      BY <2>3, <2>5, <2>9, LedgerAssumption DEF Present, None, Absent, old
    <3>2. f \in Present(old) /\ f \in Present(new) => old[f] # new[f]
      BY <2>3, <2>5 DEF old
    <3>3. [g \in Present(new) |-> new[g]] # [g \in Present(old) |-> old[g]]
      <4> DEFINE shown == [g \in Present(new) |-> new[g]]
                 sealed == [g \in Present(old) |-> old[g]]
      <4>1. DOMAIN shown = Present(new) /\ DOMAIN sealed = Present(old) OBVIOUS
      <4>2. f \in Present(new) => shown[f] = new[f] OBVIOUS
      <4>3. f \in Present(old) => sealed[f] = old[f] OBVIOUS
      <4> HIDE DEF shown, sealed
      <4>4. shown # sealed BY <3>1, <3>2, <4>1, <4>2, <4>3
      <4> QED BY <4>4 DEF shown, sealed
    <3>4. Body(records'[i].previous, new).fields # Body(records[i].previous, old).fields
      BY <3>3 DEF Body
    <3>5. Digest(Body(records'[i].previous, new)) # Digest(Body(records[i].previous, old))
      BY <3>4 DEF Digest
    <3>6. ~SealHolds(records'[i])
      BY <2>5, <2>7, <3>5 DEF Sound, SealHolds, old, new
    <3>7. StopsAt(records', i) BY <2>1, <2>6, <3>6, OneAltered DEF Sound
    <3> QED BY <2>9, <3>7 DEF old
  <2> QED BY <2>8, <2>9
<1> QED BY <1>1, ChainsAreChains, PTL DEF LedgerSpec, TamperIsFound

(* An altered link or seal of a verified chain is found at its record       *)
(* (ledger.py 54-57).                                                       *)
THEOREM ForgeriesAreFound == LedgerSpec => ForgedSealIsFound
<1>1. ASSUME ChainInvariant, [LedgerNext]_ledgerVars
      PROVE  [\A i \in DOMAIN records, seal \in Seals :
                 (TamperLink(i, seal) \/ TamperSeal(i, seal)) /\ Verifies(records)
                 => StopsAt(records', i)]_ledgerVars
  <2> SUFFICES ASSUME NEW i \in DOMAIN records, NEW seal \in Seals,
                      TamperLink(i, seal) \/ TamperSeal(i, seal), Verifies(records)
               PROVE  StopsAt(records', i)
    OBVIOUS
  <2>1. IsChain(records) BY <1>1 DEF ChainInvariant
  <2>2. Len(records) \in Nat /\ DOMAIN records = 1 .. Len(records)
        /\ records = [j \in 1 .. Len(records) |-> records[j]]
    BY <2>1, ChainIsSequence
  <2>3. IsRecord(records[i]) /\ Sound(records, i) BY <2>1 DEF IsChain, Verifies, Unsound
  <2>4. CASE TamperLink(i, seal)
    <3>1. records' = [records EXCEPT ![i].previous = seal] /\ records[i].previous # seal
      BY <2>4 DEF TamperLink
    <3>2. /\ records'[i].previous = seal /\ records'[i].fields = records[i].fields
          /\ records'[i].seal = records[i].seal
          /\ DOMAIN records' = DOMAIN records
          /\ \A j \in DOMAIN records \ {i} : records'[j] = records[j]
      BY <2>2, <2>3, <3>1 DEF IsRecord
    <3>3. Body(seal, records[i].fields).previous
          # Body(records[i].previous, records[i].fields).previous
      BY <3>1 DEF Body
    <3>4. Digest(Body(seal, records[i].fields))
          # Digest(Body(records[i].previous, records[i].fields))
      BY <3>3 DEF Digest
    <3>5. ~Sound(records', i) BY <2>3, <3>2, <3>4 DEF Sound, SealHolds
    <3> QED BY <2>1, <3>2, <3>5, OneAltered
  <2>5. CASE TamperSeal(i, seal)
    <3>1. records' = [records EXCEPT ![i].seal = seal] /\ records[i].seal # seal
      BY <2>5 DEF TamperSeal
    <3>2. /\ records'[i].previous = records[i].previous
          /\ records'[i].fields = records[i].fields /\ records'[i].seal = seal
          /\ DOMAIN records' = DOMAIN records
          /\ \A j \in DOMAIN records \ {i} : records'[j] = records[j]
      BY <2>2, <2>3, <3>1 DEF IsRecord
    <3>3. ~Sound(records', i) BY <2>3, <3>1, <3>2 DEF Sound, SealHolds
    <3> QED BY <2>1, <3>2, <3>3, OneAltered
  <2> QED BY <2>4, <2>5
<1> QED BY <1>1, ChainsAreChains, PTL DEF LedgerSpec, ForgedSealIsFound

----------------------------------------------------------------------------
(* Chains that a record was taken out of.                                   *)

\* A non-empty set of numbers has a smallest.
LEMMA SmallestExists ==
    ASSUME NEW S, S \subseteq Nat, S # {}
    PROVE  \E i \in S : \A j \in S : i <= j
<1> DEFINE R == OpToRel(<, Nat)
<1>1. \A x, y \in Nat : <<y, x>> \in R <=> y < x
  BY DEF OpToRel
<1>2. IsWellFoundedOn(R, Nat)
  BY NatLessThanWellFounded
<1> HIDE DEF R
<1>3. PICK i \in S : \A j \in S : ~(<<j, i>> \in R)
  BY <1>2, WFMin
<1>4. \A j \in S : i \in Nat /\ j \in Nat /\ ~(j < i) BY <1>1, <1>3
<1> QED BY <1>4

\* No record of a verified chain bears the seal it links to: it would seal the same as
\* the record before it, which would then bear the seal that it links to itself, down to
\* the first record, which links to none.
LEMMA NoSealRepeats ==
    ASSUME NEW chain, IsChain(chain), Verifies(chain), NEW i \in DOMAIN chain
    PROVE  chain[i].seal # Link(chain, i)
<1> DEFINE Repeats == {j \in DOMAIN chain : chain[j].seal = Link(chain, j)}
<1>1. Len(chain) \in Nat /\ DOMAIN chain = 1 .. Len(chain) BY ChainIsSequence
<1>2. Repeats \subseteq Nat BY <1>1
<1> SUFFICES ASSUME Repeats # {} PROVE FALSE OBVIOUS
<1>3. PICK j \in Repeats : \A k \in Repeats : j <= k BY <1>2, SmallestExists
<1>4. \A k \in DOMAIN chain : /\ chain[k].seal = Digest(Body(Link(chain, k), chain[k].fields))
                              /\ chain[k].previous = Link(chain, k)
  BY DEF Verifies, Unsound, Sound, SealHolds
<1>5. CASE j = 1
  <2>1. Link(chain, j) = <<>> BY <1>5 DEF Link, NoLink
  <2>2. chain[j].seal = <<"sha256", Body(Link(chain, j), chain[j].fields)>>
    BY <1>3, <1>4 DEF Digest
  <2>3. \A b : <<"sha256", b>> # <<>> OBVIOUS
  <2> QED BY <1>3, <2>1, <2>2, <2>3
<1>6. CASE j # 1
  <2>1. j - 1 \in DOMAIN chain /\ j \in Nat BY <1>1, <1>3, <1>6
  <2>2. Link(chain, j) = chain[j - 1].seal BY <1>6 DEF Link
  <2>3. Digest(Body(Link(chain, j), chain[j].fields))
        = Digest(Body(Link(chain, j - 1), chain[j - 1].fields))
    BY <1>3, <1>4, <2>1, <2>2
  <2>4. Body(Link(chain, j), chain[j].fields) = Body(Link(chain, j - 1), chain[j - 1].fields)
    BY <2>3 DEF Digest
  <2>5. Link(chain, j) = Link(chain, j - 1)
    <3>1. \A p, f : Body(p, f).previous = p BY DEF Body
    <3> QED BY <2>4, <3>1
  <2>6. j - 1 \in Repeats BY <2>1, <2>2, <2>5
  <2> QED BY <1>3, <2>1, <2>6
<1> QED BY <1>5, <1>6

\* What is left of a chain without one of its records.
LEMMA WithoutOne ==
    ASSUME NEW chain, IsChain(chain), NEW i \in DOMAIN chain
    PROVE  /\ DOMAIN Without(chain, i) = 1 .. Len(chain) - 1
           /\ \A j \in 1 .. i - 1 : Without(chain, i)[j] = chain[j]
           /\ \A j \in i .. Len(chain) - 1 : Without(chain, i)[j] = chain[j + 1]
<1> DEFINE S == {chain[j] : j \in DOMAIN chain}
<1>1. chain \in Seq(S) BY DEF IsChain
<1>2. Len(chain) \in Nat /\ i \in 1 .. Len(chain) BY ChainIsSequence
<1> HIDE DEF S
<1>3. PICK head : head = SubSeq(chain, 1, i - 1) OBVIOUS
<1>4. PICK rest : rest = SubSeq(chain, i + 1, Len(chain)) OBVIOUS
<1>5. /\ head \in Seq(S) /\ Len(head) = i - 1
      /\ \A j \in 1 .. i - 1 : head[j] = chain[j]
  BY <1>1, <1>2, <1>3
<1>6. /\ rest \in Seq(S) /\ Len(rest) = Len(chain) - i
      /\ \A j \in 1 .. Len(chain) - i : rest[j] = chain[j + i]
  BY <1>1, <1>2, <1>4
<1>7. PICK t : t = head \o rest OBVIOUS
<1>8. /\ DOMAIN t = 1 .. Len(head) + Len(rest)
      /\ \A j \in 1 .. Len(head) : t[j] = head[j]
      /\ \A j \in 1 .. Len(rest) : t[Len(head) + j] = rest[j]
  BY <1>5, <1>6, <1>7
<1>9. DOMAIN t = 1 .. Len(chain) - 1 BY <1>2, <1>5, <1>6, <1>8
<1>10. ASSUME NEW j \in i .. Len(chain) - 1 PROVE t[j] = chain[j + 1]
  <2> DEFINE k == j - (i - 1)
  <2>1. k \in 1 .. Len(chain) - i /\ i - 1 + k = j /\ k + i = j + 1 BY <1>2
  <2> HIDE DEF k
  <2>2. t[i - 1 + k] = rest[k] BY <1>2, <1>5, <1>6, <1>8, <2>1
  <2>3. rest[k] = chain[k + i] BY <1>6, <2>1
  <2> QED BY <2>1, <2>2, <2>3
<1> QED BY <1>3, <1>4, <1>5, <1>7, <1>8, <1>9, <1>10 DEF Without

(* A record taken out of a verified chain of any length is missed by the    *)
(* record after it; the last one leaves no trace (ledger.py 56-57,          *)
(* experiments.py 232-234).                                                 *)
THEOREM OnlyTheLastIsMissed == LedgerSpec => OnlyTheLastGoesUnnoticed
<1>1. ASSUME ChainInvariant, [LedgerNext]_ledgerVars
      PROVE  [\A i \in DOMAIN records :
                 Strip(i) /\ Verifies(records) =>
                     IF i = Len(records) THEN Verifies(records')
                                         ELSE StopsAt(records', i)]_ledgerVars
  <2> SUFFICES ASSUME NEW i \in DOMAIN records, Strip(i), Verifies(records)
               PROVE  IF i = Len(records) THEN Verifies(records') ELSE StopsAt(records', i)
    OBVIOUS
  <2>1. IsChain(records) BY <1>1 DEF ChainInvariant
  <2>2. Len(records) \in Nat /\ DOMAIN records = 1 .. Len(records) BY <2>1, ChainIsSequence
  <2>3. /\ DOMAIN records' = 1 .. Len(records) - 1
        /\ \A j \in 1 .. i - 1 : records'[j] = records[j]
        /\ \A j \in i .. Len(records) - 1 : records'[j] = records[j + 1]
    BY <2>1, WithoutOne DEF Strip
  <2>4. \A j \in DOMAIN records : Sound(records, j) BY DEF Verifies, Unsound
  <2>5. ASSUME NEW j \in 1 .. i - 1 PROVE Sound(records', j)
    <3>1. j \in DOMAIN records /\ j \in Nat \ {0} /\ records'[j] = records[j]
      BY <2>2, <2>3
    <3>2. j > 1 => records'[j - 1] = records[j - 1]
      BY <2>2, <2>3
    <3> QED BY <2>4, <3>1, <3>2, SoundIsLocal
  <2>6. CASE i = Len(records)
    <3>1. Unsound(records') = {} BY <2>2, <2>3, <2>5, <2>6 DEF Unsound
    <3> QED BY <2>6, <3>1 DEF Verifies
  <2>7. CASE i # Len(records)
    <3>1. /\ i \in DOMAIN records' /\ i + 1 \in DOMAIN records
          /\ records'[i] = records[i + 1]
      BY <2>2, <2>3, <2>7
    <3>2. records[i + 1].previous = records[i].seal
      <4>1. Link(records, i + 1) = records[i].seal BY <2>2 DEF Link
      <4> QED BY <2>4, <3>1, <4>1 DEF Sound
    <3>3. Link(records', i) = Link(records, i)
      BY <2>2, <2>3 DEF Link
    <3>4. ~Sound(records', i)
      BY <2>1, <3>1, <3>2, <3>3, NoSealRepeats DEF Sound
    <3>5. \A j \in Unsound(records') : i <= j
      BY <2>2, <2>3, <2>5 DEF Unsound
    <3> QED BY <2>7, <3>1, <3>4, <3>5 DEF StopsAt, Unsound
  <2> QED BY <2>6, <2>7
<1> QED BY <1>1, ChainsAreChains, PTL DEF LedgerSpec, OnlyTheLastGoesUnnoticed
=============================================================================
