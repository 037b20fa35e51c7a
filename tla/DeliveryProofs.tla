--------------------------- MODULE DeliveryProofs ---------------------------
(* The transport's consumers, seen together, are the broker of Broker.tla,  *)
(* for any number of consumers, entries, pages and crashes.                 *)
EXTENDS Delivery, FiniteSetTheorems, WellFoundedInduction, TLAPS

(* What a step of the group leaves true: there is nothing to hand out       *)
(* before the group exists, and nothing is handed out that was not          *)
(* published.                                                               *)
GroupShape ==
    /\ stream \in Seq(Items)
    /\ cursor \in 0 .. Len(stream)
    /\ group \in BOOLEAN
    /\ ~group => cursor = 0

\* The pending list a takeover leaves is the one it found.
LEMMA TakeoverKeepsPending ==
    ASSUME NEW entries, entries \subseteq Pending, pel' = HandedOut(entries)
    PROVE  Pending' = Pending
  BY DEF Pending, HandedOut

\* The end of a batch lies between the cursor and the end of the stream.
LEMMA BatchType ==
    ASSUME GroupShape
    PROVE  BatchEnd \in cursor .. Len(stream) /\ BatchEnd = Group!BatchEnd
<1>1. Len(stream) \in Nat /\ cursor \in 0 .. Len(stream) /\ Count \in Nat \ {0}
  BY DeliveryAssumption DEF GroupShape
<1> QED BY <1>1 DEF BatchEnd, Group!BatchEnd

\* Every step of the transport is a step of the group, or changes nothing it can see.
LEMMA StepIsBrokerStep ==
    ASSUME GroupShape, [DeliveryNext]_deliveryVars
    PROVE  GroupShape' /\ [Group!BrokerStep]_(Group!brokerVars)
<1> USE DEF Group!brokerVars
<1>1. CASE EnsureGroup
  <2>1. cursor' = cursor /\ group' = TRUE /\ UNCHANGED <<stream, pel>>
    BY <1>1 DEF EnsureGroup, GroupShape
  <2> QED BY <2>1 DEF GroupShape, Pending
<1>2. ASSUME NEW item \in Items, Publish(item)
      PROVE  GroupShape' /\ [Group!BrokerStep]_(Group!brokerVars)
  <2>1. stream' = Append(stream, item) /\ UNCHANGED <<group, cursor, pel>>
    BY <1>2 DEF Publish
  <2>2. /\ stream' \in Seq(Items) /\ Len(stream') = Len(stream) + 1
        /\ stream' = stream \o <<item>> /\ stream'[Len(stream) + 1] = item
        /\ Len(stream) + 1 \in DOMAIN stream'
    BY <2>1 DEF GroupShape
  <2>3. Group!Publish(<<stream'[Len(stream) + 1]>>) BY <2>2 DEF Group!Publish
  <2>4. Group!BrokerStep BY <2>1, <2>2, <2>3 DEF Group!BrokerStep, Pending
  <2> QED BY <2>1, <2>2, <2>4 DEF GroupShape
<1>3. ASSUME NEW c \in Consumers, Consume(c)
      PROVE  GroupShape' /\ [Group!BrokerStep]_(Group!brokerVars)
  <2>1. /\ group' = TRUE /\ cursor' = BatchEnd /\ UNCHANGED stream
        /\ pel' = HandedOut(Batch)
    BY <1>3 DEF Consume
  <2>2. Pending' = Pending \cup Batch BY <2>1 DEF Pending, HandedOut
  <2>3. Group!Consume BY <2>1, <2>2, BatchType DEF Group!Consume, Batch
  <2>4. Group!BrokerStep BY <2>3 DEF Group!BrokerStep
  <2>5. Len(stream) \in Nat /\ cursor \in Nat BY DEF GroupShape
  <2>6. cursor' \in 0 .. Len(stream') BY <2>1, <2>5, BatchType
  <2> QED BY <2>1, <2>4, <2>6 DEF GroupShape
<1>4. ASSUME NEW c \in Consumers, NEW d \in hand[c], Ack(c, d)
      PROVE  GroupShape' /\ [Group!BrokerStep]_(Group!brokerVars)
  <2>1. pel' = [x \in Pending \ {d} |-> pel[x]] /\ UNCHANGED <<stream, group, cursor>>
    BY <1>4 DEF Ack
  <2>2. Pending' = Pending \ {d} BY <2>1 DEF Pending
  <2>3. CASE d \in Pending
    BY <2>1, <2>2, <2>3 DEF Group!BrokerStep, Group!Ack, GroupShape
  <2>4. CASE d \notin Pending
    BY <2>1, <2>2, <2>4 DEF GroupShape
  <2> QED BY <2>3, <2>4
<1>5. ASSUME NEW c \in Consumers, Crash(c) \/ StartReclaim(c) \/ ReclaimInMemory(c)
      PROVE  GroupShape' /\ [Group!BrokerStep]_(Group!brokerVars)
  BY <1>5 DEF Crash, StartReclaim, ReclaimInMemory, GroupShape, Pending
<1>6. ASSUME NEW c \in Consumers, ReclaimPage(c)
      PROVE  GroupShape' /\ [Group!BrokerStep]_(Group!brokerVars)
  <2>1. /\ pel' = HandedOut(Examined(scan[c].from) \cap Eligible)
        /\ UNCHANGED <<stream, group, cursor>>
    BY <1>6 DEF ReclaimPage
  <2>2. Eligible \subseteq Pending BY DEF Eligible
  <2>3. Pending' = Pending BY <2>1, <2>2, TakeoverKeepsPending
  <2> QED BY <2>1, <2>3 DEF GroupShape
<1>7. ASSUME NEW d \in Pending, Age(d)
      PROVE  GroupShape' /\ [Group!BrokerStep]_(Group!brokerVars)
  <2>1. pel' = [pel EXCEPT ![d] = "idle"] /\ UNCHANGED <<stream, group, cursor>>
    BY <1>7 DEF Age
  <2>2. Pending' = Pending BY <2>1 DEF Pending
  <2> QED BY <2>1, <2>2 DEF GroupShape
<1>8. CASE UNCHANGED deliveryVars
  BY <1>8 DEF deliveryVars, GroupShape, Pending
<1> QED BY <1>1, <1>2, <1>3, <1>4, <1>5, <1>6, <1>7, <1>8 DEF DeliveryNext

(* However many consumers share a group, crash and take over from each      *)
(* other, the group as a whole behaves as the broker that an arm is written *)
(* against (transport.py 61-104, 126-151).                                  *)
THEOREM DeliveryImplementsBroker == DeliverySpec => ConsumersShareABroker
<1>1. DeliveryInit => GroupShape /\ Group!BrokerInit
  <2> SUFFICES ASSUME DeliveryInit PROVE GroupShape /\ Group!BrokerInit OBVIOUS
  <2>1. stream = <<>> /\ group = FALSE /\ cursor = 0 /\ pel = [d \in {} |-> 0]
    BY DEF DeliveryInit
  <2>2. Pending = {} BY <2>1 DEF Pending
  <2>3. GroupShape
    <3>1. stream \in Seq(Items) /\ Len(stream) = 0 BY <2>1
    <3>2. cursor = 0 /\ group = FALSE BY <2>1
    <3>3. cursor \in 0 .. Len(stream) BY <3>1, <3>2
    <3> QED BY <3>1, <3>2, <3>3 DEF GroupShape
  <2> QED BY <2>1, <2>2, <2>3 DEF Group!BrokerInit
<1>2. GroupShape /\ [DeliveryNext]_deliveryVars
      => GroupShape' /\ [Group!BrokerStep]_(Group!brokerVars)
  BY StepIsBrokerStep
<1> QED BY <1>1, <1>2, PTL DEF DeliverySpec, ConsumersShareABroker, Group!BrokerSpec

----------------------------------------------------------------------------
(* Takeovers.                                                               *)

(* The inductive invariant: what a takeover still owes is pending, has been *)
(* idle for long enough, and lies where its next page begins or behind.     *)
TakeoverShape ==
    /\ cursor \in Nat /\ Pending \subseteq 1 .. cursor
    /\ pel \in [Pending -> {"fresh", "idle"}]
    /\ scan \in [Consumers -> [from : Nat, taken : SUBSET Nat]]
    /\ owed \in [Consumers -> SUBSET Nat]

Ahead(c) ==
    /\ scan[c].from >= 1
    /\ \A d \in owed[c] : d \in Eligible /\ d >= scan[c].from

OwedIsAhead == \A c \in Consumers : Scanning(c) => Ahead(c)

TakeoverInvariant == GroupShape /\ TakeoverShape /\ OwedIsAhead

\* A non-empty set of numbers has a smallest.
LEMMA SmallestExists ==
    ASSUME NEW S, S \subseteq Nat, S # {}
    PROVE  \E i \in S : \A j \in S : i <= j
<1> DEFINE R == OpToRel(<, Nat)
<1>1. \A x, y \in Nat : <<y, x>> \in R <=> y < x
  BY DEF OpToRel
<1>2. IsWellFoundedOn(R, Nat)
  BY NatLessThanWellFounded
<1> HIDE DEF R
<1>3. PICK i \in S : \A j \in S : ~(<<j, i>> \in R)
  BY <1>2, WFMin
<1>4. \A j \in S : i \in Nat /\ j \in Nat /\ ~(j < i) BY <1>1, <1>3
<1> QED BY <1>4

\* What an event of the pending list does to those who owe something of it: nothing, as
\* long as what they owe stays pending and idle.
LEMMA OwedStays ==
    ASSUME TakeoverInvariant, UNCHANGED patient, NEW c \in Consumers,
           scan'[c] = scan[c], owed'[c] \subseteq owed[c],
           \A d \in owed'[c] : d \in Pending' /\ (pel'[d] = pel[d] \/ pel'[d] = "idle"),
           Scanning(c)'
    PROVE  Ahead(c)'
<1>1. Scanning(c) BY DEF Scanning, NoScan
<1>2. Ahead(c) BY <1>1 DEF TakeoverInvariant, OwedIsAhead
<1>3. ASSUME NEW d \in owed'[c] PROVE d \in Eligible' /\ d >= scan'[c].from
  <2>1. d \in Eligible /\ d >= scan[c].from BY <1>2 DEF Ahead
  <2> QED BY <2>1 DEF Eligible
<1> QED BY <1>2, <1>3 DEF Ahead

\* A page hands its consumer what it claims, and leaves the rest where it was.
LEMMA PageStep ==
    ASSUME TakeoverInvariant, NEW c \in Consumers, ReclaimPage(c)
    PROVE  TakeoverShape' /\ OwedIsAhead'
<1> DEFINE claimed == Examined(scan[c].from) \cap Eligible
           left == Left(scan[c].from)
           taken == scan[c].taken \cup claimed
<1>0. /\ cursor \in Nat /\ Pending \subseteq 1 .. cursor /\ Pending \subseteq Nat
      /\ pel \in [Pending -> {"fresh", "idle"}]
      /\ scan \in [Consumers -> [from : Nat, taken : SUBSET Nat]]
      /\ owed \in [Consumers -> SUBSET Nat]
  BY DEF TakeoverInvariant, TakeoverShape
<1>1. /\ pel' = HandedOut(claimed) /\ owed' = Settled(claimed)
      /\ \/ scan' = [scan EXCEPT ![c] = NoScan]
         \/ /\ left # {}
            /\ scan' = [scan EXCEPT ![c] =
                           [from |-> CHOOSE d \in left : \A x \in left : d <= x, taken |-> taken]]
      /\ UNCHANGED <<patient, stream, cursor>> /\ Scanning(c)
  BY DEF ReclaimPage
<1>2. claimed \subseteq Pending /\ left \subseteq Pending /\ left \subseteq From(scan[c].from)
  BY DEF Eligible, Left, From
<1>3. Pending' = Pending
  BY <1>1, <1>2, TakeoverKeepsPending
<1>4. \A d \in Pending : pel'[d] = IF d \in claimed THEN "fresh" ELSE pel[d]
  BY <1>1 DEF HandedOut
<1>5. pel' \in [Pending -> {"fresh", "idle"}]
  BY <1>0, <1>1, <1>2 DEF HandedOut
<1>6. /\ owed' \in [Consumers -> SUBSET Nat]
      /\ \A k \in Consumers : owed'[k] = owed[k] \ claimed
  BY <1>0, <1>1 DEF Settled
<1>7. taken \in SUBSET Nat
  BY <1>0, <1>2
<1>8. Ahead(c)
  BY <1>1 DEF TakeoverInvariant, OwedIsAhead
<1>9. \A d \in owed[c] \ claimed : d \in left
  BY <1>8 DEF Left, Ahead, From, Eligible
<1> HIDE DEF claimed, left, taken
<1>10. ASSUME NEW k \in Consumers, k # c, Scanning(k)'
       PROVE  Ahead(k)'
  <2>1. scan'[k] = scan[k] BY <1>0, <1>1, <1>10
  <2>2. \A d \in owed[k] : d \in Eligible
    BY <1>10, <2>1 DEF TakeoverInvariant, OwedIsAhead, Ahead, Scanning, NoScan
  <2>3. \A d \in owed'[k] : d \in Pending' /\ pel'[d] = pel[d]
    BY <1>3, <1>4, <1>6, <2>2 DEF Eligible
  <2> QED BY <1>1, <1>6, <1>10, <2>1, <2>3, OwedStays
<1>11. CASE scan' = [scan EXCEPT ![c] = NoScan]
  <2>1. scan' \in [Consumers -> [from : Nat, taken : SUBSET Nat]]
    BY <1>0, <1>11 DEF NoScan
  <2>2. ~Scanning(c)' BY <1>0, <1>11 DEF Scanning
  <2> QED BY <1>0, <1>1, <1>3, <1>5, <1>6, <1>10, <2>1, <2>2 DEF TakeoverShape, OwedIsAhead
<1>12. CASE /\ left # {}
            /\ scan' = [scan EXCEPT ![c] =
                           [from |-> CHOOSE d \in left : \A x \in left : d <= x, taken |-> taken]]
  <2>1. PICK m : m = CHOOSE d \in left : \A x \in left : d <= x OBVIOUS
  <2>2. m \in left /\ \A x \in left : m <= x
    <3>1. left \subseteq Nat BY <1>0, <1>2
    <3>2. \E d \in left : \A x \in left : d <= x BY <1>12, <3>1, SmallestExists
    <3> QED BY <2>1, <3>2
  <2>3. m \in Nat /\ m >= 1 BY <1>0, <1>2, <2>2
  <2>4. scan' \in [Consumers -> [from : Nat, taken : SUBSET Nat]] /\ scan'[c].from = m
    BY <1>0, <1>7, <1>12, <2>1, <2>3
  <2>5. Ahead(c)'
    <3> SUFFICES ASSUME NEW d \in owed[c] \ claimed
                 PROVE  d \in Eligible' /\ d >= m
      BY <1>6, <2>3, <2>4 DEF Ahead
    <3>1. d \in Eligible /\ d \in left BY <1>8, <1>9 DEF Ahead
    <3>2. d \in Pending /\ pel'[d] = pel[d] BY <1>2, <1>4, <3>1
    <3>3. d >= m BY <1>0, <2>2, <2>3, <3>1, <3>2
    <3> QED BY <1>1, <1>3, <3>1, <3>2, <3>3 DEF Eligible
  <2> QED BY <1>0, <1>1, <1>3, <1>5, <1>6, <1>10, <2>3, <2>4, <2>5
          DEF TakeoverShape, OwedIsAhead
<1> QED BY <1>1, <1>11, <1>12

LEMMA TakeoverStep ==
    ASSUME TakeoverInvariant, [DeliveryNext]_deliveryVars
    PROVE  TakeoverInvariant'
<1>0. /\ cursor \in Nat /\ Pending \subseteq 1 .. cursor /\ Pending \subseteq Nat
      /\ pel \in [Pending -> {"fresh", "idle"}]
      /\ scan \in [Consumers -> [from : Nat, taken : SUBSET Nat]]
      /\ owed \in [Consumers -> SUBSET Nat]
      /\ \A c \in Consumers : Scanning(c) => owed[c] \subseteq Eligible
      /\ Eligible \subseteq Pending
  BY DEF TakeoverInvariant, TakeoverShape, OwedIsAhead, Ahead, Eligible
<1>1. GroupShape'
  BY StepIsBrokerStep DEF TakeoverInvariant
<1>2. CASE EnsureGroup \/ (\E item \in Items : Publish(item)) \/ UNCHANGED deliveryVars
           \/ (\E c \in Consumers : ReclaimInMemory(c))
  <2>1. UNCHANGED <<patient, pel, scan, owed>>
    BY <1>2 DEF EnsureGroup, Publish, ReclaimInMemory, deliveryVars, consumerVars
  <2>2. cursor' = cursor
    BY <1>2 DEF EnsureGroup, Publish, ReclaimInMemory, deliveryVars, consumerVars, GroupShape,
       TakeoverInvariant
  <2>3. TakeoverShape' BY <1>0, <2>1, <2>2 DEF TakeoverShape, Pending
  <2>4. OwedIsAhead'
    BY <2>1 DEF TakeoverInvariant, OwedIsAhead, Ahead, Scanning, NoScan, Eligible, Pending
  <2> QED BY <1>1, <2>3, <2>4 DEF TakeoverInvariant
<1>3. ASSUME NEW c \in Consumers, Consume(c)
      PROVE  TakeoverInvariant'
  <2>1. cursor' = BatchEnd /\ pel' = HandedOut(Batch) /\ UNCHANGED <<patient, scan, owed>>
    BY <1>3 DEF Consume
  <2>2. BatchEnd \in Nat /\ cursor <= BatchEnd
    <3>1. BatchEnd \in cursor .. Len(stream) /\ Len(stream) \in Nat
      BY BatchType DEF TakeoverInvariant, GroupShape
    <3> QED BY <1>0, <3>1
  <2>3. Pending' = Pending \cup Batch /\ \A d \in Pending : pel'[d] = pel[d]
    <3>1. \A d \in Pending : d \notin Batch BY <1>0, <2>2 DEF Batch
    <3> QED BY <2>1, <3>1 DEF Pending, HandedOut
  <2>4. pel' \in [Pending' -> {"fresh", "idle"}]
    BY <1>0, <2>1, <2>3 DEF HandedOut
  <2>5. Pending' \subseteq 1 .. cursor' BY <1>0, <2>1, <2>2, <2>3 DEF Batch
  <2>6. TakeoverShape' BY <1>0, <2>1, <2>2, <2>4, <2>5 DEF TakeoverShape
  <2>7. \A k \in Consumers : Scanning(k)' =>
            \A d \in owed'[k] : d \in Pending' /\ pel'[d] = pel[d]
    BY <1>0, <2>1, <2>3 DEF Scanning, NoScan
  <2>8. OwedIsAhead' BY <2>1, <2>7, OwedStays DEF OwedIsAhead
  <2> QED BY <1>1, <2>6, <2>8 DEF TakeoverInvariant
<1>4. ASSUME NEW c \in Consumers, NEW d \in hand[c], Ack(c, d)
      PROVE  TakeoverInvariant'
  <2>1. /\ pel' = [x \in Pending \ {d} |-> pel[x]] /\ owed' = Settled({d})
        /\ UNCHANGED <<patient, cursor, scan>>
    BY <1>4 DEF Ack
  <2>2. /\ Pending' = Pending \ {d} /\ \A x \in Pending' : pel'[x] = pel[x]
        /\ owed' \in [Consumers -> SUBSET Nat]
        /\ \A k \in Consumers : owed'[k] = owed[k] \ {d}
    BY <1>0, <2>1 DEF Pending, Settled
  <2>3. TakeoverShape' BY <1>0, <2>1, <2>2 DEF TakeoverShape
  <2>4. \A k \in Consumers : Scanning(k)' =>
            \A x \in owed'[k] : x \in Pending' /\ pel'[x] = pel[x]
    BY <1>0, <2>1, <2>2 DEF Scanning, NoScan
  <2>5. OwedIsAhead' BY <2>1, <2>2, <2>4, OwedStays DEF OwedIsAhead
  <2> QED BY <1>1, <2>3, <2>5 DEF TakeoverInvariant
<1>5. ASSUME NEW c \in Consumers, Crash(c)
      PROVE  TakeoverInvariant'
  <2>1. /\ scan' = [scan EXCEPT ![c] = NoScan] /\ owed' = [owed EXCEPT ![c] = {}]
        /\ UNCHANGED <<patient, cursor, pel>>
    BY <1>5 DEF Crash
  <2>2. Pending' = Pending BY <2>1 DEF Pending
  <2>3. TakeoverShape' BY <1>0, <2>1, <2>2 DEF TakeoverShape, NoScan
  <2>4. \A k \in Consumers : Scanning(k)' => k # c /\ scan'[k] = scan[k] /\ owed'[k] = owed[k]
    BY <1>0, <2>1 DEF Scanning
  <2>5. \A k \in Consumers : Scanning(k)' =>
            \A x \in owed'[k] : x \in Pending' /\ pel'[x] = pel[x]
    BY <1>0, <2>1, <2>2, <2>4 DEF Scanning, NoScan
  <2>6. OwedIsAhead' BY <2>1, <2>4, <2>5, OwedStays DEF OwedIsAhead
  <2> QED BY <1>1, <2>3, <2>6 DEF TakeoverInvariant
<1>6. ASSUME NEW c \in Consumers, StartReclaim(c)
      PROVE  TakeoverInvariant'
  <2>1. /\ scan' = [scan EXCEPT ![c] = [from |-> 1, taken |-> {}]]
        /\ owed' = [owed EXCEPT ![c] = Eligible]
        /\ UNCHANGED <<patient, cursor, pel>>
    BY <1>6 DEF StartReclaim
  <2>2. Pending' = Pending /\ Eligible' = Eligible BY <2>1 DEF Pending, Eligible
  <2>3. TakeoverShape' BY <1>0, <2>1, <2>2 DEF TakeoverShape
  <2>4. ASSUME NEW k \in Consumers, Scanning(k)'
        PROVE  Ahead(k)'
    <3>1. CASE k = c
      <4>1. scan'[k].from = 1 /\ owed'[k] = Eligible BY <1>0, <2>1, <3>1
      <4>2. \A d \in Eligible : d \in Pending /\ d >= 1 BY <1>0
      <4> QED BY <2>2, <4>1, <4>2 DEF Ahead
    <3>2. CASE k # c
      <4>1. scan'[k] = scan[k] /\ owed'[k] = owed[k] BY <1>0, <2>1, <3>2
      <4>2. \A d \in owed'[k] : d \in Pending' /\ pel'[d] = pel[d]
        BY <1>0, <2>1, <2>2, <2>4, <4>1 DEF Scanning, NoScan
      <4> QED BY <2>1, <2>4, <4>1, <4>2, OwedStays
    <3> QED BY <3>1, <3>2
  <2> QED BY <1>1, <2>3, <2>4 DEF TakeoverInvariant, OwedIsAhead
<1>7. ASSUME NEW c \in Consumers, ReclaimPage(c)
      PROVE  TakeoverInvariant'
  BY <1>1, <1>7, PageStep DEF TakeoverInvariant
<1>8. ASSUME NEW d \in Pending, Age(d)
      PROVE  TakeoverInvariant'
  <2>1. pel' = [pel EXCEPT ![d] = "idle"] /\ UNCHANGED <<patient, cursor, scan, owed>>
    BY <1>8 DEF Age, consumerVars
  <2>2. /\ Pending' = Pending /\ pel' \in [Pending -> {"fresh", "idle"}]
        /\ \A x \in Pending : pel'[x] = pel[x] \/ pel'[x] = "idle"
    BY <1>0, <2>1 DEF Pending
  <2>3. TakeoverShape' BY <1>0, <2>1, <2>2 DEF TakeoverShape
  <2>4. \A k \in Consumers : Scanning(k)' =>
            \A x \in owed'[k] : x \in Pending' /\ (pel'[x] = pel[x] \/ pel'[x] = "idle")
    BY <1>0, <2>1, <2>2 DEF Scanning, NoScan
  <2>5. OwedIsAhead' BY <2>1, <2>4, OwedStays DEF OwedIsAhead
  <2> QED BY <1>1, <2>3, <2>5 DEF TakeoverInvariant
<1> QED BY <1>2, <1>3, <1>4, <1>5, <1>6, <1>7, <1>8 DEF DeliveryNext

LEMMA TakeoverHolds == DeliverySpec => []TakeoverInvariant
<1>1. DeliveryInit => TakeoverInvariant
  <2> SUFFICES ASSUME DeliveryInit PROVE TakeoverInvariant OBVIOUS
  <2>1. /\ stream = <<>> /\ group = FALSE /\ cursor = 0 /\ pel = [d \in {} |-> 0]
        /\ scan = [c \in Consumers |-> NoScan] /\ owed = [c \in Consumers |-> {}]
    BY DEF DeliveryInit
  <2>2. Pending = {} BY <2>1 DEF Pending
  <2>3. stream \in Seq(Items) /\ Len(stream) = 0 BY <2>1
  <2>4. GroupShape
    <3>1. cursor \in 0 .. Len(stream) BY <2>1, <2>3
    <3> QED BY <2>1, <2>3, <3>1 DEF GroupShape
  <2>5. TakeoverShape BY <2>1, <2>2 DEF TakeoverShape, NoScan
  <2>6. OwedIsAhead BY <2>1 DEF OwedIsAhead, Scanning
  <2> QED BY <2>4, <2>5, <2>6 DEF TakeoverInvariant
<1>2. TakeoverInvariant /\ [DeliveryNext]_deliveryVars => TakeoverInvariant'
  BY TakeoverStep
<1> QED BY <1>1, <1>2, PTL DEF DeliverySpec

\* A page that claims nothing of what it could have looked at as many entries as a page
\* may before the first that it could have claimed.
LEMMA EmptyPage ==
    ASSUME TakeoverShape, NEW p \in Nat, Examined(p) \cap Eligible = {},
           NEW d \in From(p) \cap Eligible
    PROVE  patient /\ Cardinality({x \in Pending \ Eligible : x < d}) >= ScanLimit
<1> DEFINE S == From(p) \cap Eligible
<1>1. Pending \subseteq Nat /\ IsFiniteSet(Pending)
  <2>1. cursor \in Nat /\ Pending \subseteq 1 .. cursor BY DEF TakeoverShape
  <2>2. IsFiniteSet(1 .. cursor) BY <2>1, FS_Interval
  <2>3. IsFiniteSet(Pending) BY <2>1, <2>2, FS_Subset
  <2>4. 1 .. cursor \subseteq Nat BY <2>1
  <2> QED BY <2>1, <2>3, <2>4
<1>2. S \subseteq Pending /\ S # {} /\ S \subseteq Nat BY <1>1 DEF From
<1>3. PICK m \in S : \A x \in S : m <= x BY <1>2, SmallestExists
<1> DEFINE Before == {x \in From(p) : x < m}
           Claimable == {x \in S : x < m}
           Fresh == {x \in Pending \ Eligible : x < d}
<1>4. Claimable = {} BY <1>2, <1>3
<1>5. Cardinality(Claimable) < PageSize
  BY <1>4, FS_EmptySet, DeliveryAssumption
<1>6. ~(Cardinality(Before) < ScanLimit)
  BY <1>2, <1>3, <1>5 DEF Examined
<1>7. Before \subseteq Fresh
  <2> SUFFICES ASSUME NEW x \in Before PROVE x \in Fresh OBVIOUS
  <2>1. x \in Pending /\ x \in Nat /\ m \in Nat /\ d \in Nat /\ m <= d
    BY <1>1, <1>2, <1>3 DEF From
  <2>2. x \notin Eligible BY <1>4
  <2> QED BY <2>1, <2>2
<1>8. IsFiniteSet(Fresh) /\ IsFiniteSet(Before) BY <1>1, FS_Subset DEF From
<1> HIDE DEF Before, Fresh
<1>9. Cardinality(Before) <= Cardinality(Fresh) BY <1>7, <1>8, FS_Subset
<1>10. Cardinality(Fresh) >= ScanLimit
  BY <1>6, <1>8, <1>9, FS_CardinalityType, DeliveryAssumption
<1>11. patient
  <2> SUFFICES ASSUME ~patient PROVE FALSE OBVIOUS
  <2>1. Eligible = Pending BY DEF Eligible
  <2>2. Fresh = {} BY <2>1 DEF Fresh
  <2> QED BY <1>10, <2>2, FS_EmptySet, DeliveryAssumption
<1> QED BY <1>10, <1>11 DEF Fresh

(* Whatever crashes, reads, acknowledges and takes over meanwhile, a        *)
(* takeover that ends owes nothing, unless it asks for idle time and the    *)
(* rest lies behind more fresh entries than a page looks at                 *)
(* (transport.py 90-101).                                                   *)
THEOREM NothingIsMissed == DeliverySpec => TakeoversMissNothing
<1>1. TakeoverInvariant /\ [DeliveryNext]_deliveryVars
      => [\A c \in Consumers :
             Scanning(c) /\ ReclaimPage(c) /\ scan'[c] = NoScan =>
                 \/ owed'[c] = {}
                 \/ patient /\ \A d \in owed'[c] :
                       Cardinality({x \in Pending \ Eligible : x < d}) >= ScanLimit]_deliveryVars
  <2> SUFFICES ASSUME TakeoverInvariant, NEW c \in Consumers,
                      Scanning(c), ReclaimPage(c), scan'[c] = NoScan, owed'[c] # {}
               PROVE  patient /\ \A d \in owed'[c] :
                          Cardinality({x \in Pending \ Eligible : x < d}) >= ScanLimit
    OBVIOUS
  <2> DEFINE p == scan[c].from
             claimed == Examined(p) \cap Eligible
             left == Left(p)
             taken == scan[c].taken \cup claimed
  <2>1. /\ scan \in [Consumers -> [from : Nat, taken : SUBSET Nat]] /\ p \in Nat
        /\ Pending \subseteq Nat /\ TakeoverShape
    BY DEF TakeoverInvariant, TakeoverShape
  <2>2. /\ owed'[c] = owed[c] \ claimed
        /\ \/ left = {} \/ claimed = {}
           \/ scan' = [scan EXCEPT ![c] =
                          [from |-> CHOOSE d \in left : \A x \in left : d <= x, taken |-> taken]]
    BY DEF ReclaimPage, Settled
  <2>3. \A d \in owed[c] : d \in Eligible /\ d \in From(p)
    BY DEF TakeoverInvariant, OwedIsAhead, Ahead, From, Eligible
  <2>4. \A d \in owed'[c] : d \in left /\ d \in From(p) \cap Eligible
    BY <2>2, <2>3 DEF Left
  <2>5. left # {} BY <2>4
  <2>6. claimed = {}
    <3> SUFFICES ASSUME claimed # {} PROVE FALSE OBVIOUS
    <3>1. left \subseteq Pending BY DEF Left, From
    <3>2. PICK m : m = CHOOSE d \in left : \A x \in left : d <= x OBVIOUS
    <3>3. m \in left
      <4>1. left \subseteq Nat BY <2>1, <3>1
      <4> HIDE DEF left
      <4>2. \E d \in left : \A x \in left : d <= x BY <2>5, <4>1, SmallestExists
      <4> QED BY <3>2, <4>2
    <3>4. m >= 1
      <4>1. Pending \subseteq 1 .. cursor BY <2>1 DEF TakeoverShape
      <4>2. m \in 1 .. cursor BY <3>1, <3>3, <4>1
      <4> QED BY <4>2
    <3> HIDE DEF left, claimed, taken, p
    <3>5. scan'[c].from = m BY <2>1, <2>2, <2>5, <3>2
    <3> QED BY <3>4, <3>5 DEF NoScan
  <2> QED BY <2>1, <2>4, <2>6, EmptyPage
<1> QED BY <1>1, TakeoverHolds, PTL DEF DeliverySpec, TakeoversMissNothing
\* The first entry a page may look at is looked at.
LEMMA FirstIsExamined ==
    ASSUME NEW p \in Nat, p \in Pending, Pending \subseteq Nat
    PROVE  p \in Examined(p)
<1>1. {x \in From(p) : x < p} = {} /\ {x \in From(p) \cap Eligible : x < p} = {}
  <2>1. \A x \in From(p) : ~(x < p)
    BY DEF From
  <2> QED BY <2>1
<1>2. Cardinality({}) < ScanLimit /\ Cardinality({}) < PageSize
  BY FS_EmptySet, DeliveryAssumption
<1>3. p \in From(p)
  BY DEF From
<1> QED BY <1>1, <1>2, <1>3 DEF Examined

(* Each page of a takeover begins behind the page before it, so the loop    *)
(* never goes over the same entries twice, however long the stream: others  *)
(* can draw a takeover out only by being handed new entries                 *)
(* (transport.py 90-103).                                                   *)
THEOREM PagesMoveOn ==
    DeliverySpec =>
        [][\A c \in Consumers :
              Scanning(c) /\ ReclaimPage(c) /\ scan'[c] # NoScan =>
                  scan'[c].from > scan[c].from]_deliveryVars
<1>1. TakeoverInvariant /\ [DeliveryNext]_deliveryVars
      => [\A c \in Consumers :
             Scanning(c) /\ ReclaimPage(c) /\ scan'[c] # NoScan =>
                 scan'[c].from > scan[c].from]_deliveryVars
  <2> SUFFICES ASSUME TakeoverInvariant, NEW c \in Consumers,
                      ReclaimPage(c), scan'[c] # NoScan
               PROVE  scan'[c].from > scan[c].from
    OBVIOUS
  <2> DEFINE p == scan[c].from
             claimed == Examined(p) \cap Eligible
             left == Left(p)
             taken == scan[c].taken \cup claimed
  <2>1. /\ scan \in [Consumers -> [from : Nat, taken : SUBSET Nat]] /\ p \in Nat
        /\ Pending \subseteq Nat
    BY DEF TakeoverInvariant, TakeoverShape
  <2>2. /\ left # {}
        /\ scan' = [scan EXCEPT ![c] =
                       [from |-> CHOOSE d \in left : \A x \in left : d <= x, taken |-> taken]]
    BY <2>1 DEF ReclaimPage
  <2>3. PICK m : m = CHOOSE d \in left : \A x \in left : d <= x
    OBVIOUS
  <2>4. m \in left
    <3>1. left \subseteq Nat BY <2>1 DEF Left, From
    <3> HIDE DEF left
    <3>2. \E d \in left : \A x \in left : d <= x BY <2>2, <3>1, SmallestExists
    <3> QED BY <2>3, <3>2
  <2>5. m > p
    <3>1. m \in Pending /\ m >= p /\ m \notin Examined(p) BY <2>4 DEF Left, From
    <3>2. m # p BY <2>1, <3>1, FirstIsExamined
    <3> QED BY <2>1, <3>1, <3>2
  <2>6. scan'[c].from = m
    <3> HIDE DEF left, taken, p
    <3> QED BY <2>1, <2>2, <2>3
  <2> QED BY <2>5, <2>6
<1> QED BY <1>1, TakeoverHolds, PTL DEF DeliverySpec
=============================================================================
