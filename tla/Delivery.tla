------------------------------ MODULE Delivery ------------------------------
(* The transport with the consumers of a group told apart (transport.py):   *)
(* who holds an entry and whether it has been idle long enough, consumers   *)
(* that crash with entries in their hands, and a takeover that goes page by *)
(* page while the others work on.  The in-memory double hands out what is   *)
(* pending in one piece.                                                    *)
EXTENDS Integers, Sequences, FiniteSets

CONSTANTS
    Items,                  \* what is published
    Consumers,
    Count,                  \* the count a consumer asks for in one read
    PageSize,               \* entries one page of a takeover may claim
    ScanLimit,              \* pending entries one page looks at, at most
    MaxStream,              \* bound: entries published
    MaxCrashes              \* bound: crashes of a consumer

ASSUME DeliveryAssumption ==
    /\ Count \in Nat \ {0} /\ PageSize \in Nat \ {0} /\ ScanLimit \in Nat \ {0}
    /\ MaxStream \in Nat /\ MaxCrashes \in Nat

VARIABLES
    backend,                \* "redis", or the double of the tests, "memory"
    patient,                \* whether takeovers ask for a minimum idle time
    stream,                 \* what was published, in arrival order
    group,                  \* whether the consumer group exists
    cursor,                 \* the last position handed to the group
    pel,                    \* pending position -> "fresh", or "idle" for long enough
    hand,                   \* consumer -> the positions it holds
    scan,                   \* consumer -> its takeover: where the next page starts, what it has
    crashes,
    owed                    \* history: consumer -> what its takeover still owes

consumerVars == <<hand, scan, crashes, owed>>
deliveryVars == <<backend, patient, stream, group, cursor, pel, consumerVars>>

Pending == DOMAIN pel
NoScan == [from |-> 0, taken |-> {}]
Scanning(c) == scan[c] # NoScan

\* What a reset leaves: no stream, and no group.
DeliveryInit ==
    /\ backend \in {"redis", "memory"}
    /\ patient \in BOOLEAN
    /\ stream = <<>> /\ group = FALSE /\ cursor = 0
    /\ pel = [d \in {} |-> 0]
    /\ hand = [c \in Consumers |-> {}]
    /\ scan = [c \in Consumers |-> NoScan]
    /\ crashes = 0
    /\ owed = [c \in Consumers |-> {}]

----------------------------------------------------------------------------
(* Publishing, reading and acknowledging.                                   *)

\* Slip: the group starts at what is published from now on.
GroupFromNow ==
    /\ ~group
    /\ group' = TRUE /\ cursor' = Len(stream)
    /\ UNCHANGED <<backend, patient, stream, pel, consumerVars>>

\* The group starts at the first entry; a group that exists is left alone.
EnsureGroup ==
    /\ ~group
    /\ group' = TRUE /\ cursor' = 0
    /\ UNCHANGED <<backend, patient, stream, pel, consumerVars>>

Publish(item) ==
    /\ Len(stream) < MaxStream
    /\ stream' = Append(stream, item)
    /\ UNCHANGED <<backend, patient, group, cursor, pel, consumerVars>>

BatchEnd == IF cursor + Count <= Len(stream) THEN cursor + Count ELSE Len(stream)
Batch == cursor + 1 .. BatchEnd

\* Entries handed out, for the first time or again, are pending and fresh.
HandedOut(entries) ==
    [d \in Pending \cup entries |-> IF d \in entries THEN "fresh" ELSE pel[d]]

\* A batch read; the test double makes the group it reads from.
Consume(c) ==
    /\ group \/ backend = "memory"
    /\ ~Scanning(c) /\ Batch # {}
    /\ group' = TRUE
    /\ cursor' = BatchEnd
    /\ pel' = HandedOut(Batch)
    /\ hand' = [hand EXCEPT ![c] = @ \cup Batch]
    /\ UNCHANGED <<backend, patient, stream, scan, crashes, owed>>

\* Nobody owes an entry that was acknowledged or that somebody took over.
Settled(entries) == [c \in Consumers |-> owed[c] \ entries]

\* Whoever holds an entry acknowledges it, whoever was handed it since.
Ack(c, d) ==
    /\ ~Scanning(c) /\ d \in hand[c]
    /\ pel' = [x \in Pending \ {d} |-> pel[x]]
    /\ hand' = [hand EXCEPT ![c] = @ \ {d}]
    /\ owed' = Settled({d})
    /\ UNCHANGED <<backend, patient, stream, group, cursor, scan, crashes>>

\* A consumer dies and comes back with nothing in its hands.
Crash(c) ==
    /\ crashes < MaxCrashes
    /\ hand[c] # {} \/ Scanning(c)
    /\ hand' = [hand EXCEPT ![c] = {}]
    /\ scan' = [scan EXCEPT ![c] = NoScan]
    /\ owed' = [owed EXCEPT ![c] = {}]
    /\ crashes' = crashes + 1
    /\ UNCHANGED <<backend, patient, stream, group, cursor, pel>>

\* Time passes: a pending entry has been idle long enough.
Age(d) ==
    /\ patient /\ pel[d] = "fresh"
    /\ pel' = [pel EXCEPT ![d] = "idle"]
    /\ UNCHANGED <<backend, patient, stream, group, cursor, consumerVars>>

----------------------------------------------------------------------------
(* Taking over what was never acknowledged.                                 *)

Eligible == {d \in Pending : patient => pel[d] = "idle"}

\* One page: entries from a position on, in order, until enough were looked at or claimed.
From(position) == {d \in Pending : d >= position}

Examined(position) ==
    {d \in From(position) :
        /\ Cardinality({x \in From(position) : x < d}) < ScanLimit
        /\ Cardinality({x \in From(position) \cap Eligible : x < d}) < PageSize}

\* Slip: where the next page starts is forgotten.
LeftOfFirst(position) == {}

\* Slip: the next page starts over wherever the ones before have been.
LeftAnywhere(position) == Pending \ Examined(position)

Left(position) == From(position) \ Examined(position)

StartReclaim(c) ==
    /\ backend = "redis" /\ group /\ ~Scanning(c)
    /\ scan' = [scan EXCEPT ![c] = [from |-> 1, taken |-> {}]]
    /\ owed' = [owed EXCEPT ![c] = Eligible]
    /\ UNCHANGED <<backend, patient, stream, group, cursor, pel, hand, crashes>>

\* The loop ends when the broker has no more, or a page came back empty.
ReclaimPage(c) ==
    /\ Scanning(c)
    /\ LET claimed == Examined(scan[c].from) \cap Eligible
           left == Left(scan[c].from)
           taken == scan[c].taken \cup claimed
       IN /\ pel' = HandedOut(claimed)
          /\ owed' = Settled(claimed)
          /\ IF left = {} \/ claimed = {}
             THEN /\ scan' = [scan EXCEPT ![c] = NoScan]
                  /\ hand' = [hand EXCEPT ![c] = @ \cup taken]
             ELSE /\ scan' = [scan EXCEPT ![c] =
                                 [from |-> CHOOSE d \in left : \A x \in left : d <= x,
                                  taken |-> taken]]
                  /\ UNCHANGED hand
    /\ UNCHANGED <<backend, patient, stream, group, cursor, crashes>>

\* The test double hands out everything pending, fresh or not.
ReclaimInMemory(c) ==
    /\ backend = "memory"
    /\ Pending \ hand[c] # {}
    /\ hand' = [hand EXCEPT ![c] = @ \cup Pending]
    /\ UNCHANGED <<backend, patient, stream, group, cursor, pel, scan, crashes, owed>>

DeliveryNext ==
    \/ EnsureGroup
    \/ \E item \in Items : Publish(item)
    \/ \E c \in Consumers :
          \/ Consume(c) \/ Crash(c)
          \/ StartReclaim(c) \/ ReclaimPage(c) \/ ReclaimInMemory(c)
          \/ \E d \in hand[c] : Ack(c, d)
    \/ \E d \in Pending : Age(d)

DeliverySpec == DeliveryInit /\ [][DeliveryNext]_deliveryVars

\* A takeover is one loop of its consumer: between two pages it waits for nobody.
Fairness == \A c \in Consumers : WF_deliveryVars(ReclaimPage(c))

FairDelivery == DeliverySpec /\ Fairness

----------------------------------------------------------------------------
(* Properties.                                                              *)

Group == INSTANCE Broker WITH BatchSize <- Count, pending <- Pending

(* However many consumers share a group, crash and take over from each      *)
(* other, the group as a whole is the broker an arm is written against:     *)
(* entries are handed out once each in order, and leave the pending list    *)
(* one by one, when acknowledged (transport.py 61-104, 126-151).            *)
ConsumersShareABroker == Group!BrokerSpec

(* A takeover that asks for no idle time, as the recovery of an arm does,   *)
(* takes everything that was pending when it began and that nobody settled  *)
(* or took over meanwhile; one that asks for idle time can only miss an     *)
(* entry behind more fresh ones than a page looks at (transport.py 90-101). *)
TakeoversMissNothing ==
    [][\A c \in Consumers :
          Scanning(c) /\ ReclaimPage(c) /\ scan'[c] = NoScan =>
              \/ owed'[c] = {}
              \/ patient /\ \A d \in owed'[c] :
                    Cardinality({x \in Pending \ Eligible : x < d}) >= ScanLimit]_deliveryVars

(* Once no more is published, a takeover that has begun comes to its end,   *)
(* though others read, settle and take over entries between its pages: its  *)
(* loop neither starts over nor waits for them (transport.py 90-101).       *)
TakeoversEnd == \A c \in Consumers : Scanning(c) ~> ~Scanning(c)
=============================================================================
