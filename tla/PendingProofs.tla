---------------------------- MODULE PendingProofs ----------------------------
(* Theorems about what is read and acknowledged: whatever the batch size,   *)
(* the schedule and the length of a run, an entry leaves the pending list   *)
(* only when it was judged, and stays on it only as the earlier copy of a   *)
(* duplicate.                                                               *)
EXTENDS ChainProofs, FiniteSetTheorems

----------------------------------------------------------------------------
(* The inductive invariant.                                                 *)

\* An event is on the stream once, or twice in a row if it is doubled; what is held
\* back is held once, and is not on the stream.
Adjacent(s) ==
    \A c, d \in DOMAIN s :
        c < d /\ s[c] = s[d] => d = c + 1 /\ schedule[s[c]] = "duplicate_event"

CopiesAreAdjacent ==
    /\ Adjacent(stream)
    /\ \A i, j \in DOMAIN held : held[i] = held[j] => i = j
    /\ \A i \in DOMAIN held : \A d \in DOMAIN stream : stream[d] # held[i]

\* The target is a delivery of the event at hand, read and not acknowledged yet.
TargetIsHeld ==
    target # 0 =>
        /\ pc \in {"drain", "decide", "enforce", "retry", "record"}
        /\ stream[target] = cur
        /\ pc = "drain" => target < next /\ target \in pending

\* Of the batch, what was not looked at is pending.
BatchIsHeld == pc = "drain" => next <= cursor + 1 /\ next .. cursor \subseteq pending

\* The earlier copy of a duplicate whose later copy is settled, or is the target.
Twin(d) ==
    /\ schedule[stream[d]] = "duplicate_event"
    /\ d + 1 <= cursor /\ stream[d + 1] = stream[d]
    /\ d + 1 \notin pending \/ (pc = "drain" /\ d + 1 = target)

PendingIsKnown ==
    \A d \in pending : Twin(d) \/ (pc = "drain" /\ (d = target \/ d >= next))

PendingInvariant == CopiesAreAdjacent /\ TargetIsHeld /\ BatchIsHeld /\ PendingIsKnown

----------------------------------------------------------------------------
(* The stream.                                                              *)

\* The positions of a sequence made of three.
LEMMA ThreeParts ==
    ASSUME NEW S, NEW s \in Seq(S), NEW c \in Seq(S), NEW h \in Seq(S)
    PROVE  LET t == s \o (c \o h)
           IN /\ DOMAIN t = 1 .. Len(s) + Len(c) + Len(h)
              /\ \A d \in 1 .. Len(s) : t[d] = s[d]
              /\ \A d \in 1 .. Len(c) : t[Len(s) + d] = c[d]
              /\ \A d \in 1 .. Len(h) : t[Len(s) + Len(c) + d] = h[d]
<1> DEFINE u == c \o h
           t == s \o u
<1>1. /\ u \in Seq(S) /\ Len(u) = Len(c) + Len(h)
      /\ \A d \in 1 .. Len(c) : u[d] = c[d]
      /\ \A d \in 1 .. Len(h) : u[Len(c) + d] = h[d]
  OBVIOUS
<1>2. Len(s) \in Nat /\ Len(c) \in Nat /\ Len(h) \in Nat
  OBVIOUS
<1>7. u \in Seq(S)
  BY <1>1
<1> HIDE DEF u
<1>3. /\ DOMAIN t = 1 .. Len(s) + Len(u)
      /\ \A d \in 1 .. Len(s) : t[d] = s[d]
      /\ \A d \in 1 .. Len(u) : t[Len(s) + d] = u[d]
  BY <1>7
<1> HIDE DEF t
<1>4. DOMAIN t = 1 .. Len(s) + Len(c) + Len(h)
  BY <1>1, <1>2, <1>3
<1>5. ASSUME NEW d \in 1 .. Len(c) PROVE t[Len(s) + d] = c[d]
  BY <1>1, <1>2, <1>3
<1>6. ASSUME NEW d \in 1 .. Len(h) PROVE t[Len(s) + Len(c) + d] = h[d]
  <2>1. Len(c) + d \in 1 .. Len(u) /\ Len(s) + (Len(c) + d) = Len(s) + Len(c) + d
    BY <1>1, <1>2
  <2> QED BY <1>1, <1>3, <2>1
<1> QED BY <1>3, <1>4, <1>5, <1>6 DEF t, u

\* The copies of the event at hand.
LEMMA CopiesType ==
    ASSUME NEW e \in Events
    PROVE  /\ Copies(e) \in Seq(Events) /\ Len(Copies(e)) \in 1..2
           /\ Len(Copies(e)) = 2 => schedule[e] = "duplicate_event"
           /\ \A d \in 1 .. Len(Copies(e)) : Copies(e)[d] = e
<1> DEFINE S == Events
<1>1. e \in S
  OBVIOUS
<1> HIDE DEF S
<1>2. CASE schedule[e] = "duplicate_event"
  <2>1. <<e, e>> \in Seq(S) /\ Len(<<e, e>>) = 2 /\ \A d \in 1..2 : <<e, e>>[d] = e
    BY <1>1
  <2> QED BY <1>2, <2>1 DEF Copies, S
<1>3. CASE schedule[e] # "duplicate_event"
  <2>1. <<e>> \in Seq(S) /\ Len(<<e>>) = 1 /\ \A d \in 1..1 : <<e>>[d] = e
    BY <1>1
  <2> QED BY <1>3, <2>1 DEF Copies, S
<1> QED BY <1>2, <1>3

\* A publish that goes through adds the copies of one new event and what was held back.
Apart(s, h, e) ==
    /\ \A i, j \in DOMAIN h : h[i] = h[j] => i = j
    /\ \A i \in DOMAIN h : h[i] # e /\ \A d \in DOMAIN s : s[d] # h[i]
    /\ \A d \in DOMAIN s : s[d] # e

LEMMA PublishAdds ==
    ASSUME NEW s \in Seq(Events), NEW h \in Seq(Events), NEW e \in Events,
           Adjacent(s), Apart(s, h, e)
    PROVE  Adjacent(s \o (Copies(e) \o h))
<1> DEFINE t == s \o (Copies(e) \o h)
<1> DEFINE m == Copies(e)
<1>1. /\ m \in Seq(Events) /\ Len(m) \in 1..2
      /\ Len(m) = 2 => schedule[e] = "duplicate_event"
      /\ \A d \in 1 .. Len(m) : m[d] = e
  BY CopiesType
<1> HIDE DEF m
<1>2. /\ DOMAIN t = 1 .. Len(s) + Len(m) + Len(h)
      /\ \A d \in 1 .. Len(s) : t[d] = s[d]
      /\ \A d \in 1 .. Len(m) : t[Len(s) + d] = m[d]
      /\ \A d \in 1 .. Len(h) : t[Len(s) + Len(m) + d] = h[d]
  BY <1>1, ThreeParts DEF m
<1> HIDE DEF t
<1>9. ASSUME NEW c \in DOMAIN t, NEW d \in DOMAIN t, c < d, t[c] = t[d]
      PROVE  d = c + 1 /\ schedule[t[c]] = "duplicate_event"
  <2>3. Len(s) \in Nat /\ Len(m) \in Nat /\ Len(h) \in Nat
        /\ DOMAIN s = 1 .. Len(s) /\ DOMAIN h = 1 .. Len(h)
    BY <1>1
  <2>4. c \in Nat /\ d \in Nat /\ c >= 1 /\ d <= Len(s) + Len(m) + Len(h)
    BY <1>2, <2>3
  <2>5. ASSUME NEW k \in DOMAIN t
        PROVE  /\ k <= Len(s) => k \in DOMAIN s /\ t[k] = s[k]
               /\ k > Len(s) /\ k <= Len(s) + Len(m) => t[k] = e
               /\ k > Len(s) + Len(m) =>
                     k - Len(s) - Len(m) \in DOMAIN h /\ t[k] = h[k - Len(s) - Len(m)]
    <3>1. k \in Nat /\ k >= 1 /\ k <= Len(s) + Len(m) + Len(h)
      BY <1>2, <2>3
    <3>2. CASE k <= Len(s)
      BY <1>2, <2>3, <3>1, <3>2
    <3>3. CASE k > Len(s) /\ k <= Len(s) + Len(m)
      <4>1. k - Len(s) \in 1 .. Len(m) /\ Len(s) + (k - Len(s)) = k
        BY <2>3, <3>1, <3>3
      <4>2. t[k] = e
        BY <1>1, <1>2, <4>1
      <4> QED BY <2>3, <3>3, <4>2
    <3>4. CASE k > Len(s) + Len(m)
      <4>1. /\ k - Len(s) - Len(m) \in 1 .. Len(h)
            /\ Len(s) + Len(m) + (k - Len(s) - Len(m)) = k
        BY <2>3, <3>1, <3>4
      <4>2. t[k] = h[k - Len(s) - Len(m)]
        BY <1>2, <4>1
      <4> QED BY <2>3, <3>1, <3>4, <4>1, <4>2
    <3> QED BY <2>3, <3>1, <3>2, <3>3, <3>4
  <2> USE <1>9 DEF Adjacent, Apart
  <2>6. CASE d <= Len(s)
    BY <2>3, <2>4, <2>5, <2>6
  <2>7. CASE d > Len(s) /\ d <= Len(s) + Len(m)
    <3>1. t[c] = e /\ c > Len(s)
      BY <2>3, <2>4, <2>5, <2>7
    <3>4. Len(m) = 1 \/ Len(m) = 2
      BY <1>1
    <3>5. \A k, x, y \in Nat : \A n \in {1, 2} :
             k < x /\ x < y /\ y <= k + n => n = 2 /\ y = x + 1
      OBVIOUS
    <3>6. Len(s) < c /\ d <= Len(s) + Len(m) /\ Len(m) \in {1, 2} /\ Len(s) \in Nat
      BY <2>3, <2>4, <2>7, <3>1, <3>4
    <3>2. Len(m) = 2 /\ d = c + 1
      BY <2>4, <3>5, <3>6
    <3> QED BY <1>1, <3>1, <3>2
  <2>8. CASE d > Len(s) + Len(m)
    <3> DEFINE j == d - Len(s) - Len(m)
               i == c - Len(s) - Len(m)
    <3>1. j \in DOMAIN h /\ t[d] = h[j]
      BY <2>5, <2>8
    <3>5. t[c] = h[j]
      BY <3>1
    <3>6. ~(c <= Len(s))
      <4> SUFFICES ASSUME c <= Len(s) PROVE FALSE
        OBVIOUS
      <4>1. c \in DOMAIN s /\ s[c] = h[j]
        BY <2>5, <3>5
      <4> QED BY <3>1, <4>1
    <3>7. ~(c > Len(s) /\ c <= Len(s) + Len(m))
      BY <2>5, <3>1, <3>5
    <3>2. c > Len(s) + Len(m)
      BY <2>3, <2>4, <3>6, <3>7
    <3>3. i \in DOMAIN h /\ t[c] = h[i]
      BY <2>5, <3>2
    <3>4. i = j
      BY <3>1, <3>3
    <3> QED BY <2>3, <2>4, <3>4
  <2> QED BY <2>3, <2>4, <2>6, <2>7, <2>8
<1> QED BY <1>9 DEF Adjacent, t

\* Copies stay adjacent at every step.
LEMMA CopiesStep ==
    ASSUME TypeOK, LoopShape, EdgeBehind, CopiesAreAdjacent, [Next]_vars
    PROVE  CopiesAreAdjacent'
<1> USE DEF inputVars, brokerVars, labVars, effectVars, loopVars
<1>0. /\ schedule' = schedule /\ cur \in Int
      /\ stream \in Seq(Events) /\ held \in Seq(Events)
  BY NAssumption, InputsRigid DEF TypeOK
<1>1. pc = "publish" => /\ cur \in Events
                        /\ \A d \in DOMAIN stream : stream[d] # cur
                        /\ \A i \in DOMAIN held : held[i] # cur
  BY <1>0 DEF LoopShape, EdgeBehind, Offered
<1>2. CASE PublishLost
  <2>1. cur \in Events /\ stream' = stream
    BY <1>1, <1>2 DEF PublishLost, Drop, Hold
  <2>2. CASE held' = held
    BY <1>0, <2>1, <2>2 DEF CopiesAreAdjacent, Adjacent
  <2>3. CASE held' = Append(held, cur)
    <3>1. \A i \in DOMAIN held' : \/ i \in DOMAIN held /\ held'[i] = held[i]
                                  \/ i = Len(held) + 1 /\ held'[i] = cur
      BY <1>0, <2>1, <2>3
    <3>2. /\ \A d \in DOMAIN stream : stream[d] # cur
          /\ \A i \in DOMAIN held : held[i] # cur
      BY <1>1, <1>2 DEF PublishLost
    <3> QED BY <1>0, <2>1, <3>1, <3>2 DEF CopiesAreAdjacent, Adjacent
  <2> QED BY <1>2, <2>2, <2>3 DEF PublishLost, Drop, Hold
<1>3. CASE PublishSent
  <2>1. stream' = stream \o (Copies(cur) \o held) /\ held' = <<>> /\ pc = "publish"
    BY <1>3 DEF PublishSent, Send, Publish
  <2>2. Apart(stream, held, cur) /\ cur \in Events
    BY <1>1, <2>1 DEF CopiesAreAdjacent, Apart
  <2>3. Adjacent(stream \o (Copies(cur) \o held))
    BY <1>0, <2>2, PublishAdds DEF CopiesAreAdjacent
  <2>4. PICK t : t = stream' /\ Adjacent(t)
    BY <2>1, <2>3
  <2>5. Adjacent(stream)'
    BY <1>0, <2>4 DEF Adjacent
  <2> QED BY <2>1, <2>5 DEF CopiesAreAdjacent
<1>4. CASE Flush
  <2>1. stream' = stream \o held /\ held' = <<>>
    BY <1>4 DEF Flush, FlushReorderBuffer, Publish
  <2>2. PICK t : t = stream'
    OBVIOUS
  <2>3. \A d \in DOMAIN t : /\ d <= Len(stream) => d \in DOMAIN stream /\ t[d] = stream[d]
                            /\ d > Len(stream) => /\ d - Len(stream) \in DOMAIN held
                                                  /\ t[d] = held[d - Len(stream)]
                            /\ d \in Nat
    BY <1>0, <2>1, <2>2
  <2>4. ASSUME NEW c \in DOMAIN t, NEW d \in DOMAIN t, c < d, t[c] = t[d]
        PROVE  d = c + 1 /\ schedule[t[c]] = "duplicate_event"
    <3>0. c \in Nat /\ d \in Nat /\ Len(stream) \in Nat
      BY <1>0, <2>3
    <3>1. CASE d <= Len(stream)
      <4>1. c <= Len(stream)
        BY <2>4, <3>0, <3>1
      <4> QED BY <2>3, <2>4, <3>1, <4>1 DEF CopiesAreAdjacent, Adjacent
    <3>2. CASE c <= Len(stream) /\ d > Len(stream)
      BY <2>3, <2>4, <3>2 DEF CopiesAreAdjacent, Adjacent
    <3>3. CASE c > Len(stream) /\ d > Len(stream)
      <4>1. c - Len(stream) = d - Len(stream)
        BY <2>3, <2>4, <3>3 DEF CopiesAreAdjacent, Adjacent
      <4> QED BY <2>4, <3>0, <4>1
    <3> QED BY <3>0, <3>1, <3>2, <3>3
  <2> QED BY <1>0, <2>1, <2>2, <2>4 DEF CopiesAreAdjacent, Adjacent
<1>5. CASE ~(PublishLost \/ PublishSent \/ Flush)
  <2>1. stream' = stream /\ held' = held
    BY <1>5 DEF Next, vars, MonitorActs, RefuseOnOutage, FailOpenOnOutage, OutageUnseen,
       ConsumeBatch, Consume, Outage, FindTarget, DrainBacklog, TargetMissing, EvaluateTarget,
       CrashAndRedeliver, DecideOnTime, DecideWithout, Enforce, RetryDouble, RecordDecision
  <2> QED BY <1>0, <2>1 DEF CopiesAreAdjacent, Adjacent
<1> QED BY <1>2, <1>3, <1>4, <1>5

\* What is on the stream stays where it is.
LEMMA StreamGrows ==
    ASSUME TypeOK, LoopShape, [Next]_vars
    PROVE  /\ \A d \in DOMAIN stream : d \in DOMAIN stream' /\ stream'[d] = stream[d]
           /\ stream' # stream => pc \in {"publish", "flush"}
<1> USE DEF inputVars, brokerVars, labVars, effectVars, loopVars
<1>0. stream \in Seq(Events) /\ held \in Seq(Events)
  BY DEF TypeOK
<1>1. CASE PublishSent
  <2>1. stream' = stream \o (Copies(cur) \o held) /\ pc = "publish" /\ cur \in Events
    BY <1>1 DEF PublishSent, Send, Publish, LoopShape
  <2>2. Copies(cur) \in Seq(Events)
    BY <2>1, CopiesType
  <2>3. Copies(cur) \o held \in Seq(Events)
    BY <1>0, <2>2
  <2> QED BY <1>0, <2>1, <2>3
<1>2. CASE Flush
  BY <1>0, <1>2 DEF Flush, FlushReorderBuffer, Publish
<1>3. CASE ~(PublishSent \/ Flush)
  <2>1. stream' = stream
    BY <1>3 DEF Next, vars, MonitorActs, PublishLost, Drop, Hold, RefuseOnOutage,
       FailOpenOnOutage, OutageUnseen, ConsumeBatch, Consume, Outage, FindTarget, DrainBacklog,
       TargetMissing, EvaluateTarget, CrashAndRedeliver, DecideOnTime, DecideWithout, Enforce,
       RetryDouble, RecordDecision
  <2> QED BY <2>1
<1> QED BY <1>1, <1>2, <1>3

----------------------------------------------------------------------------
(* The pending list.                                                        *)

\* The steps that touch no delivery, but the one that gives up on a target.
Aside ==
    /\ pending' = pending /\ cursor' = cursor
    /\ pc' # "drain"
    /\ pc = "drain" => next > cursor /\ target = 0
    /\ target' # 0 => /\ target' = target /\ cur' = cur /\ pc \in {"decide", "enforce", "retry"}
                      /\ pc' \in {"decide", "enforce", "retry", "record"}

LEMMA AsideStep ==
    ASSUME TypeOK, LoopShape, TargetIsHeld, [Next]_vars,
           ~(ConsumeBatch \/ FindTarget \/ DrainBacklog \/ EvaluateTarget \/ CrashAndRedeliver),
           ~UNCHANGED vars
    PROVE  Aside
<1> USE DEF inputVars, brokerVars, labVars, effectVars, loopVars
<1>1. CASE MonitorActs \/ PublishLost \/ PublishSent \/ OutageUnseen \/ Flush
  <2>1. /\ pc \in {"act", "publish", "flush"} /\ target' = target
        /\ pc' \in {"publish", "decide", "consume", "done"}
        /\ pending' = pending /\ cursor' = cursor
    BY <1>1 DEF MonitorActs, PublishLost, Drop, Hold, PublishSent, OutageUnseen, Flush
  <2> QED BY <2>1 DEF Aside, TargetIsHeld
<1>2. CASE RefuseOnOutage \/ FailOpenOnOutage \/ RecordDecision
  <2>1. /\ pc \in {"publish", "failopen", "record"} /\ pending' = pending /\ cursor' = cursor
        /\ NextEvent \/ (pc' = "failopen" /\ target' = target /\ pc = "publish")
    BY <1>2 DEF RefuseOnOutage, FailOpenOnOutage, RecordDecision
  <2>2. CASE NextEvent
    <3>1. target' = 0 /\ pc' # "drain"
      BY <2>2 DEF NextEvent, FirstPc
    <3> QED BY <2>1, <3>1 DEF Aside
  <2>3. CASE pc' = "failopen" /\ target' = target /\ pc = "publish"
    BY <2>1, <2>3 DEF Aside, TargetIsHeld
  <2> QED BY <2>1, <2>2, <2>3
<1>3. CASE TargetMissing
  <2>1. pc = "drain" /\ next > cursor /\ target = 0 /\ pc' = "decide" /\ target' = target
        /\ pending' = pending /\ cursor' = cursor
    BY <1>3 DEF TargetMissing, BatchRead
  <2> QED BY <2>1 DEF Aside
<1>4. CASE DecideOnTime \/ DecideWithout \/ Enforce \/ RetryDouble
  <2>1. /\ pc \in {"decide", "enforce", "retry"} /\ target' = target /\ cur' = cur
        /\ pc' \in {"enforce", "retry", "record"}
        /\ pending' = pending /\ cursor' = cursor
    BY <1>4 DEF DecideOnTime, DecideWithout, AfterDecision, Enforce, RetryDouble
  <2> QED BY <2>1 DEF Aside
<1> QED BY <1>1, <1>2, <1>3, <1>4 DEF Next

\* A step aside leaves the pending list as it is understood.
LEMMA AsideKeeps ==
    ASSUME TypeOK, LoopShape, TargetIsHeld, PendingIsKnown, [Next]_vars, Aside
    PROVE  TargetIsHeld' /\ BatchIsHeld' /\ PendingIsKnown'
<1>0. /\ cursor \in Nat /\ target \in 0 .. cursor /\ next \in Nat
      /\ DOMAIN stream = 1 .. Len(stream) /\ cursor <= Len(stream) /\ Len(stream) \in Nat
      /\ pending \subseteq 1 .. cursor /\ schedule' = schedule
  BY InputsRigid DEF TypeOK
<1>1. \A d \in DOMAIN stream : stream'[d] = stream[d]
  BY StreamGrows
<1>2. TargetIsHeld'
  BY <1>0, <1>1 DEF TargetIsHeld, Aside
<1>3. BatchIsHeld'
  BY DEF BatchIsHeld, Aside
<1>4. PendingIsKnown'
  <2> SUFFICES ASSUME NEW d \in pending
               PROVE  /\ schedule'[stream'[d]] = "duplicate_event"
                      /\ d + 1 <= cursor' /\ stream'[d + 1] = stream'[d]
                      /\ d + 1 \notin pending'
    BY DEF PendingIsKnown, Twin, Aside
  <2>1. d \in 1 .. cursor /\ d \in DOMAIN stream
    BY <1>0
  <2>2. Twin(d)
    BY <1>0, <2>1 DEF PendingIsKnown, Aside
  <2>3. d + 1 \notin pending
    BY <1>0, <2>1, <2>2 DEF Twin, Aside
  <2>4. d + 1 <= cursor /\ d + 1 \in DOMAIN stream
    BY <1>0, <2>1, <2>2 DEF Twin
  <2> QED BY <1>0, <1>1, <2>1, <2>2, <2>3, <2>4 DEF Twin, Aside
<1> QED BY <1>2, <1>3, <1>4

\* A read hands out what comes next.
LEMMA ReadKeeps ==
    ASSUME TypeOK, TargetIsHeld, PendingIsKnown, ConsumeBatch
    PROVE  TargetIsHeld' /\ BatchIsHeld' /\ PendingIsKnown'
<1> USE DEF inputVars, brokerVars, labVars, effectVars, loopVars
<1>0. /\ cursor \in Nat /\ target \in 0 .. cursor
      /\ DOMAIN stream = 1 .. Len(stream) /\ cursor <= Len(stream) /\ Len(stream) \in Nat
      /\ pending \subseteq 1 .. cursor
  BY DEF TypeOK
<1>1. /\ pc = "consume" /\ pc' = "drain" /\ target' = target /\ next' = cursor + 1
      /\ stream' = stream /\ schedule' = schedule
      /\ cursor' = BatchEnd /\ pending' = pending \cup (cursor + 1 .. BatchEnd)
  BY DEF ConsumeBatch, Consume
<1>2. target = 0
  BY <1>1 DEF TargetIsHeld
<1>3. BatchEnd \in Nat /\ cursor <= BatchEnd
  BY <1>0, BatchSizeAssumption DEF BatchEnd
<1>4. TargetIsHeld' /\ BatchIsHeld'
  BY <1>0, <1>1, <1>2, <1>3 DEF TargetIsHeld, BatchIsHeld
<1>5. PendingIsKnown'
  <2> SUFFICES ASSUME NEW d \in pending'
               PROVE  \/ d >= next'
                      \/ /\ schedule'[stream'[d]] = "duplicate_event"
                         /\ d + 1 <= cursor' /\ stream'[d + 1] = stream'[d]
                         /\ d + 1 \notin pending'
    BY <1>1 DEF PendingIsKnown, Twin
  <2>1. CASE d \in cursor + 1 .. BatchEnd
    BY <1>0, <1>1, <1>3, <2>1
  <2>2. CASE d \in pending
    <3>1. Twin(d) /\ d \in Nat
      BY <1>0, <1>1, <2>2 DEF PendingIsKnown
    <3>2. d + 1 \notin pending /\ d + 1 <= cursor
      BY <1>1, <3>1 DEF Twin
    <3>3. d + 1 \notin pending' /\ d + 1 <= cursor'
      BY <1>0, <1>1, <1>3, <3>1, <3>2
    <3> QED BY <1>1, <3>1, <3>3 DEF Twin
  <2> QED BY <1>1, <2>1, <2>2
<1> QED BY <1>4, <1>5

\* A later delivery of the event at hand takes the target's place.
LEMMA FindKeeps ==
    ASSUME TypeOK, CopiesAreAdjacent, PendingInvariant, FindTarget
    PROVE  TargetIsHeld' /\ BatchIsHeld' /\ PendingIsKnown'
<1> USE DEF inputVars, brokerVars, labVars, effectVars, loopVars, PendingInvariant
<1>0. /\ cursor \in Nat /\ target \in 0 .. cursor /\ next \in Nat
      /\ DOMAIN stream = 1 .. Len(stream) /\ cursor <= Len(stream) /\ Len(stream) \in Nat
      /\ pending \subseteq 1 .. cursor
  BY DEF TypeOK
<1>1. /\ pc = "drain" /\ pc' = "drain" /\ next <= cursor /\ stream[next] = cur
      /\ target' = next /\ next' = next + 1 /\ cur' = cur
      /\ UNCHANGED <<stream, cursor, pending, schedule>>
  BY DEF FindTarget
<1>2. next \in pending
  BY <1>0, <1>1 DEF BatchIsHeld
<1>3. next \in 1 .. cursor /\ next \in DOMAIN stream
  BY <1>0, <1>2
<1>4. TargetIsHeld' /\ BatchIsHeld'
  BY <1>0, <1>1, <1>2 DEF TargetIsHeld, BatchIsHeld
<1>5. PendingIsKnown'
  <2> SUFFICES ASSUME NEW d \in pending, d # next, ~(d >= next + 1)
               PROVE  /\ schedule[stream[d]] = "duplicate_event"
                      /\ d + 1 <= cursor /\ stream[d + 1] = stream[d]
                      /\ d + 1 \notin pending \/ d + 1 = next
    BY <1>1 DEF PendingIsKnown, Twin
  <2>1. d \in DOMAIN stream /\ d \in Nat /\ d < next
    BY <1>0
  <2>2. CASE d = target
    <3>1. stream[d] = stream[next]
      BY <1>0, <1>1, <2>1, <2>2 DEF TargetIsHeld
    <3>2. next = d + 1 /\ schedule[stream[d]] = "duplicate_event"
      BY <1>3, <2>1, <3>1 DEF CopiesAreAdjacent, Adjacent
    <3> QED BY <1>1, <3>1, <3>2
  <2>3. CASE d # target
    <3>1. Twin(d)
      BY <1>0, <2>1, <2>3 DEF PendingIsKnown
    <3>2. CASE d + 1 = target
      <4>1. stream[d] = stream[next]
        BY <1>0, <1>1, <2>1, <3>1, <3>2 DEF TargetIsHeld, Twin
      <4>2. next = d + 1
        BY <1>3, <2>1, <4>1 DEF CopiesAreAdjacent, Adjacent
      <4> QED BY <3>1, <4>2 DEF Twin
    <3> QED BY <3>1, <3>2 DEF Twin
  <2> QED BY <2>2, <2>3
<1> QED BY <1>4, <1>5

\* A drain settles the delivery it looks at.
LEMMA DrainKeeps ==
    ASSUME TypeOK, PendingInvariant, DrainBacklog
    PROVE  TargetIsHeld' /\ BatchIsHeld' /\ PendingIsKnown'
<1> USE DEF inputVars, brokerVars, labVars, effectVars, loopVars, PendingInvariant
<1>0. /\ cursor \in Nat /\ target \in 0 .. cursor /\ next \in Nat
      /\ pending \subseteq 1 .. cursor
  BY DEF TypeOK
<1>1. /\ pc = "drain" /\ pc' = "drain" /\ next <= cursor
      /\ pending' = pending \ {next}
      /\ next' = next + 1 /\ UNCHANGED <<stream, cursor, schedule, target, cur>>
  BY DEF DrainBacklog, Ack
<1>2. TargetIsHeld' /\ BatchIsHeld'
  BY <1>0, <1>1 DEF TargetIsHeld, BatchIsHeld
<1>3. PendingIsKnown'
  <2> SUFFICES ASSUME NEW d \in pending, d # next
               PROVE  \/ d = target \/ d >= next + 1
                      \/ /\ schedule[stream[d]] = "duplicate_event"
                         /\ d + 1 <= cursor /\ stream[d + 1] = stream[d]
                         /\ d + 1 \notin pending' \/ d + 1 = target
    BY <1>1 DEF PendingIsKnown, Twin
  <2>1. d \in Nat
    BY <1>0
  <2>2. Twin(d) \/ d = target \/ d >= next
    BY DEF PendingIsKnown
  <2> QED BY <1>0, <1>1, <2>1, <2>2 DEF Twin
<1> QED BY <1>2, <1>3

\* The recovery consumer finds what the event is held under: the crash left it pending.
LEMMA RecoveryFinds ==
    ASSUME TypeOK, PendingInvariant, CrashAndRedeliver
    PROVE  /\ JudgeFirst
           /\ tally' = Add(Add(tally, "crashes", 1), "redelivered", 1)
<1>1. target \in pending /\ stream[target] = cur
  BY DEF CrashAndRedeliver, BatchRead, PendingInvariant, TargetIsHeld
<1>2. Reclaimed(cur) # {}
  BY <1>1 DEF Reclaimed
<1> QED BY <1>2 DEF CrashAndRedeliver

\* The evaluation settles the target, be it after a crash.
LEMMA SettleKeeps ==
    ASSUME TypeOK, PendingInvariant, EvaluateTarget \/ CrashAndRedeliver
    PROVE  /\ TargetIsHeld' /\ BatchIsHeld' /\ PendingIsKnown'
           /\ pending' = pending \ {target} /\ stream[target] = cur
<1> USE DEF inputVars, brokerVars, labVars, effectVars, loopVars, PendingInvariant
<1>0. /\ cursor \in Nat /\ target \in 0 .. cursor /\ next \in Nat
      /\ DOMAIN stream = 1 .. Len(stream) /\ cursor <= Len(stream) /\ Len(stream) \in Nat
      /\ pending \subseteq 1 .. cursor
  BY DEF TypeOK
<1>1. /\ pc = "drain" /\ pc' = "decide" /\ next > cursor /\ target # 0
      /\ UNCHANGED <<stream, cursor, schedule, target, cur, next>>
  BY DEF EvaluateTarget, CrashAndRedeliver, BatchRead
<1>2. stream[target] = cur /\ target \in pending
  BY <1>1 DEF TargetIsHeld
<1>3. pending' = pending \ {target}
  <2>1. CASE EvaluateTarget
    BY <2>1 DEF EvaluateTarget, Ack
  <2>2. CASE CrashAndRedeliver
    <3>1. PICK d \in Reclaimed(cur) : pending' = pending \ {d}
      BY <2>2, RecoveryFinds DEF JudgeFirst, Ack
    <3>2. d \in pending /\ stream[d] = stream[target]
      BY <1>2, <3>1 DEF Reclaimed
    <3>3. schedule[cur] = "evaluator_crash"
      BY <2>2 DEF CrashAndRedeliver, Fault
    <3>4. d \in DOMAIN stream /\ target \in DOMAIN stream
      BY <1>0, <1>2, <3>2
    <3>5. ~(d < target) /\ ~(target < d)
      BY <1>2, <3>2, <3>3, <3>4 DEF CopiesAreAdjacent, Adjacent
    <3> QED BY <1>0, <3>1, <3>4, <3>5
  <2> QED BY <2>1, <2>2
<1>4. TargetIsHeld' /\ BatchIsHeld'
  BY <1>1, <1>2 DEF TargetIsHeld, BatchIsHeld
<1>5. PendingIsKnown'
  <2> SUFFICES ASSUME NEW d \in pending, d # target
               PROVE  /\ schedule[stream[d]] = "duplicate_event"
                      /\ d + 1 <= cursor /\ stream[d + 1] = stream[d]
                      /\ d + 1 \notin pending \ {target}
    BY <1>1, <1>3 DEF PendingIsKnown, Twin
  <2>1. Twin(d)
    BY <1>0, <1>1 DEF PendingIsKnown
  <2> QED BY <2>1 DEF Twin
<1> QED BY <1>2, <1>3, <1>4, <1>5

LEMMA PendingInit == Init => PendingInvariant
<1> SUFFICES ASSUME Init PROVE PendingInvariant
  OBVIOUS
<1>1. stream = <<>> /\ held = <<>> /\ pending = {} /\ target = 0 /\ pc # "drain"
  BY DEF Init, FreshRun, FirstPc, BrokerInit, LabInit
<1> QED BY <1>1 DEF PendingInvariant, CopiesAreAdjacent, Adjacent, TargetIsHeld, BatchIsHeld,
                    PendingIsKnown

LEMMA PendingStep ==
    ASSUME TypeOK, LoopShape, EdgeBehind, PendingInvariant, [Next]_vars
    PROVE  PendingInvariant'
<1>1. CopiesAreAdjacent'
  BY CopiesStep DEF PendingInvariant
<1>2. CASE UNCHANGED vars
  BY <1>2 DEF vars, inputVars, brokerVars, labVars, loopVars, PendingInvariant,
     CopiesAreAdjacent, Adjacent, TargetIsHeld, BatchIsHeld, PendingIsKnown, Twin
<1>3. CASE ConsumeBatch
  BY <1>1, <1>3, ReadKeeps DEF PendingInvariant
<1>4. CASE FindTarget
  BY <1>1, <1>4, FindKeeps DEF PendingInvariant
<1>5. CASE DrainBacklog
  BY <1>1, <1>5, DrainKeeps DEF PendingInvariant
<1>6. CASE EvaluateTarget \/ CrashAndRedeliver
  BY <1>1, <1>6, SettleKeeps DEF PendingInvariant
<1>7. CASE ~(ConsumeBatch \/ FindTarget \/ DrainBacklog \/ EvaluateTarget
             \/ CrashAndRedeliver) /\ ~UNCHANGED vars
  <2>1. Aside
    BY <1>7, AsideStep DEF PendingInvariant
  <2> QED BY <1>1, <2>1, AsideKeeps DEF PendingInvariant
<1> QED BY <1>2, <1>3, <1>4, <1>5, <1>6, <1>7

LEMMA PendingHolds ==
    Spec => [](TypeOK /\ GateInvariant /\ ChainInvariant /\ PendingInvariant)
<1>1. Init => PendingInvariant
  BY PendingInit
<1>2. TypeOK /\ GateInvariant /\ ChainInvariant /\ PendingInvariant /\ [Next]_vars
      => PendingInvariant'
  BY PendingStep DEF GateInvariant, ChainInvariant
<1> QED BY <1>1, <1>2, ChainsTell, PTL DEF Spec

(* Between two passes of the loop, and after the last, nothing is left      *)
(* unacknowledged but the earlier copy of a duplicate, whether or not the   *)
(* batches overflow (arms.py 202-231).                                      *)
THEOREM OnlyDuplicatesStay == Spec => []PendingAreDuplicates
<1>1. TypeOK /\ PendingInvariant => PendingAreDuplicates
  <2> SUFFICES ASSUME TypeOK, PendingInvariant, AtLoopTop, NEW d \in pending
               PROVE  /\ schedule[stream[d]] = "duplicate_event"
                      /\ d + 1 <= cursor /\ stream[d + 1] = stream[d] /\ d + 1 \notin pending
    BY DEF PendingAreDuplicates
  <2>1. pc # "drain"
    BY DEF AtLoopTop, FirstPc
  <2> QED BY <2>1 DEF PendingInvariant, PendingIsKnown, Twin
<1> QED BY <1>1, PendingHolds, PTL

\* An entry leaves the list judged: a drain records it, or the gate has its verdict.
LEMMA AckedStep ==
    ASSUME TypeOK, TypeOK', LoopShape, PendingInvariant, [Next]_vars, ~mode.crashing,
           NEW d \in pending \ pending', NEW e, e = stream[d]
    PROVE  \/ verdict' # NoRisk /\ e = cur
           \/ \E i \in DOMAIN decisions' :
                 /\ decisions'[i].event = e /\ decisions'[i].risk # NoRisk
                 /\ \A j \in DOMAIN decisions' : j <= i
<1> USE DEF inputVars, brokerVars, labVars, effectVars, loopVars
<1>1. CASE EvaluateTarget \/ CrashAndRedeliver
  <2>1. d = target /\ stream[target] = cur
    BY <1>1, SettleKeeps
  <2>2. verdict' = Score(cur)
    BY <1>1, RecoveryFinds DEF EvaluateTarget, JudgeFirst, ScoreOrCrash
  <2> QED BY <2>1, <2>2, ScoreIsSome
<1>2. CASE DrainBacklog
  <2> DEFINE r == [event |-> stream[next], risk |-> Score(stream[next]),
                   decision |-> Decide(mode.policy, Score(stream[next])),
                   outcome |-> "DECIDED_BACKLOG", note |-> "backlog", alt |-> NoRisk]
  <2>1. d = next /\ decisions' = Append(decisions, r)
    BY <1>2 DEF DrainBacklog, Ack, Record
  <2>2. r.event = e /\ r.risk # NoRisk
    BY <2>1, ScoreIsSome
  <2> HIDE DEF r
  <2>3. PICK n : n = Len(decisions) + 1
    OBVIOUS
  <2>4. /\ n \in DOMAIN decisions' /\ decisions'[n] = r
        /\ \A j \in DOMAIN decisions' : j <= n
    BY <2>1, <2>3, ChainGrows
  <2> QED BY <2>2, <2>4
<1>3. CASE ConsumeBatch
  BY <1>3 DEF ConsumeBatch, Consume
<1>4. CASE FindTarget
  BY <1>4 DEF FindTarget
<1>5. CASE UNCHANGED vars
  BY <1>5 DEF vars
<1>6. CASE ~(ConsumeBatch \/ FindTarget \/ DrainBacklog \/ EvaluateTarget
             \/ CrashAndRedeliver) /\ ~UNCHANGED vars
  BY <1>6, AsideStep DEF Aside, PendingInvariant
<1> QED BY <1>1, <1>2, <1>3, <1>4, <1>5, <1>6

(* Nothing is acknowledged before it is judged, but by an evaluator that    *)
(* crashes itself (arms.py 212-231, 306-315).                               *)
THEOREM NothingIsAckedUnjudged == Spec => AcknowledgedIsJudged
<1>1. TypeOK /\ TypeOK' /\ GateInvariant /\ PendingInvariant /\ [Next]_vars
      => [\A d \in pending \ pending' :
             \/ mode.crashing
             \/ verdict' # NoRisk /\ stream[d] = cur
             \/ Judged(stream[d])' /\ Final(stream[d])'.risk # NoRisk]_vars
  <2> SUFFICES ASSUME TypeOK, TypeOK', GateInvariant, PendingInvariant, [Next]_vars,
                      NEW d \in pending \ pending', ~mode.crashing,
                      ~(verdict' # NoRisk /\ stream[d] = cur)
               PROVE  Judged(stream[d])' /\ Final(stream[d])'.risk # NoRisk
    OBVIOUS
  <2>1. PICK e : e = stream[d]
    OBVIOUS
  <2>2. PICK i \in DOMAIN decisions' :
            /\ decisions'[i].event = e /\ decisions'[i].risk # NoRisk
            /\ \A j \in DOMAIN decisions' : j <= i
    BY <2>1, AckedStep DEF GateInvariant
  <2>3. IsLatest(i, e)'
    BY <2>2 DEF IsLatest
  <2>4. Final(e)' = decisions'[i]
    BY <2>3, FinalIsLatestNext
  <2>5. Judged(e)'
    BY <2>2 DEF Judged, EventsOf
  <2>6. e = stream'[d]
    <3>1. d \in DOMAIN stream
      BY DEF TypeOK
    <3> QED BY <2>1, <3>1, StreamGrows DEF GateInvariant
  <2> QED BY <2>2, <2>4, <2>5, <2>6
<1> QED BY <1>1, PendingHolds, PTL DEF Spec, AcknowledgedIsJudged

----------------------------------------------------------------------------
(* What the edge lets through.                                              *)

Lost == {"drop_event", "transport_outage"}

OnStream(e) == \E d \in DOMAIN stream : stream[d] = e
HeldBack(e) == \E i \in DOMAIN held : held[i] = e
Doubled(e) == \E d \in DOMAIN stream : d + 1 \in DOMAIN stream /\ stream[d] = e /\ stream[d + 1] = e

\* What was offered is on the stream, or held back to be reordered, or lost on purpose.
EdgeKeeps ==
    /\ \A e \in Events :
          /\ OnStream(e) => schedule[e] \notin Lost
          /\ HeldBack(e) => schedule[e] = "reorder_event"
          /\ Offered(e) /\ schedule[e] \notin Lost => OnStream(e) \/ HeldBack(e)
          /\ Offered(e) /\ schedule[e] = "duplicate_event" => Doubled(e)
    /\ pc = "done" => held = <<>>

\* An event is newly offered only by its publish.
LEMMA OfferedStep ==
    ASSUME TypeOK, LoopShape, [Next]_vars
    PROVE  \A e \in Events : Offered(e)' => Offered(e) \/ (e = cur /\ pc = "publish")
<1> USE DEF inputVars, brokerVars, labVars, effectVars, loopVars
<1>0. cur \in Int /\ \A e \in Events : e \in Int
  BY NAssumption DEF TypeOK, Events
<1>1. CASE RefuseOnOutage \/ FailOpenOnOutage \/ RecordDecision
  <2>1. \/ NextEvent /\ pc # "act"
        \/ cur' = cur /\ pc # "act"
    BY <1>1 DEF RefuseOnOutage, FailOpenOnOutage, RecordDecision
  <2>2. CASE NextEvent /\ pc # "act"
    <3>1. \A e \in Events : e < cur' <=> (e < cur \/ e = cur)
      BY <2>2, NextEventLeaves
    <3>2. pc' \in {"act", "publish"} \/ cur' = N + 1
      BY <2>2 DEF NextEvent, FirstPc
    <3>3. \A e \in Events : e # N + 1
      BY NAssumption DEF Events
    <3> QED BY <2>2, <3>1, <3>2, <3>3 DEF Offered
  <2>3. CASE cur' = cur /\ pc # "act"
    BY <2>3 DEF Offered
  <2> QED BY <2>1, <2>2, <2>3
<1>2. CASE ~(RefuseOnOutage \/ FailOpenOnOutage \/ RecordDecision)
  <2>1. cur' = cur /\ (pc = "act" => pc' \in {"act", "publish"})
    BY <1>2 DEF Next, vars, MonitorActs, PublishLost, PublishSent, OutageUnseen, ConsumeBatch,
       FindTarget, DrainBacklog, TargetMissing, EvaluateTarget, CrashAndRedeliver, DecideOnTime,
       DecideWithout, Enforce, RetryDouble, Flush, BatchRead
  <2> QED BY <2>1 DEF Offered
<1> QED BY <1>1, <1>2

\* What was on the stream or held back stays on one of them, and a doubled event doubled.
LEMMA EdgeStays ==
    ASSUME TypeOK, LoopShape, [Next]_vars
    PROVE  \A e \in Events :
               /\ OnStream(e) => OnStream(e)'
               /\ HeldBack(e) => OnStream(e)' \/ HeldBack(e)'
               /\ Doubled(e) => Doubled(e)'
<1> USE DEF inputVars, brokerVars, labVars, effectVars, loopVars
<1>0. stream \in Seq(Events) /\ held \in Seq(Events)
  BY DEF TypeOK
<1> SUFFICES ASSUME NEW e \in Events
             PROVE  /\ OnStream(e) => OnStream(e)'
                    /\ HeldBack(e) => OnStream(e)' \/ HeldBack(e)'
                    /\ Doubled(e) => Doubled(e)'
  OBVIOUS
<1>1. (OnStream(e) => OnStream(e)') /\ (Doubled(e) => Doubled(e)')
  BY StreamGrows DEF OnStream, Doubled
<1>2. ASSUME HeldBack(e) PROVE OnStream(e)' \/ HeldBack(e)'
  <2>1. PICK i \in DOMAIN held : held[i] = e
    BY <1>2 DEF HeldBack
  <2>2. CASE PublishSent
    <3>1. stream' = stream \o (Copies(cur) \o held) /\ cur \in Events
      BY <2>2 DEF PublishSent, Send, Publish, LoopShape
    <3>2. PICK m : m = Copies(cur)
      OBVIOUS
    <3>3. m \in Seq(Events)
      BY <3>1, <3>2, CopiesType
    <3>4. i \in 1 .. Len(held)
      BY <1>0, <2>1
    <3>5. PICK k : k = Len(stream) + Len(m) + i
      OBVIOUS
    <3>6. (stream \o (m \o held))[k] = e /\ k \in DOMAIN (stream \o (m \o held))
      <4>1. k \in 1 .. Len(stream) + Len(m) + Len(held)
        BY <1>0, <3>3, <3>4, <3>5
      <4> QED BY <1>0, <2>1, <3>3, <3>4, <3>5, <4>1, ThreeParts
    <3>7. stream'[k] = e /\ k \in DOMAIN stream'
      BY <3>1, <3>2, <3>6
    <3> QED BY <3>7 DEF OnStream
  <2>3. CASE Flush
    <3>1. stream' = stream \o held
      BY <2>3 DEF Flush, FlushReorderBuffer, Publish
    <3>2. /\ (stream \o held)[Len(stream) + i] = e
          /\ Len(stream) + i \in DOMAIN (stream \o held)
      BY <1>0, <2>1
    <3>3. PICK k : k = Len(stream) + i
      OBVIOUS
    <3>4. stream'[k] = e /\ k \in DOMAIN stream'
      BY <3>1, <3>2, <3>3
    <3> QED BY <3>4 DEF OnStream
  <2>4. CASE PublishLost
    <3>1. held' = held \/ held' = Append(held, cur)
      BY <2>4 DEF PublishLost, Drop, Hold
    <3>2. i \in DOMAIN held' /\ held'[i] = e
      BY <1>0, <2>1, <3>1
    <3> QED BY <3>2 DEF HeldBack
  <2>5. CASE ~(PublishSent \/ Flush \/ PublishLost)
    <3>1. held' = held
      BY <2>5 DEF Next, vars, MonitorActs, RefuseOnOutage, FailOpenOnOutage, OutageUnseen,
         ConsumeBatch, Consume, Outage, FindTarget, DrainBacklog, TargetMissing, EvaluateTarget,
         CrashAndRedeliver, DecideOnTime, DecideWithout, Enforce, RetryDouble, RecordDecision
    <3> QED BY <2>1, <3>1 DEF HeldBack
  <2> QED BY <2>2, <2>3, <2>4, <2>5
<1> QED BY <1>1, <1>2

\* Only the event at hand comes new to the stream or to the buffer, and as its fault has it.
LEMMA EdgeAdds ==
    ASSUME TypeOK, LoopShape, [Next]_vars
    PROVE  \A e \in Events :
               /\ OnStream(e)' => OnStream(e) \/ HeldBack(e) \/ schedule[e] \notin Lost
               /\ HeldBack(e)' => HeldBack(e) \/ schedule[e] = "reorder_event"
<1> USE DEF inputVars, brokerVars, labVars, effectVars, loopVars
<1>0. stream \in Seq(Events) /\ held \in Seq(Events)
  BY DEF TypeOK
<1> SUFFICES ASSUME NEW e \in Events
             PROVE  /\ OnStream(e)' => OnStream(e) \/ HeldBack(e) \/ schedule[e] \notin Lost
                    /\ HeldBack(e)' => HeldBack(e) \/ schedule[e] = "reorder_event"
  OBVIOUS
<1>1. CASE PublishSent
  <2>1. /\ stream' = stream \o (Copies(cur) \o held) /\ held' = <<>> /\ cur \in Events
        /\ schedule[cur] \notin Lost
    BY <1>1 DEF PublishSent, Send, Publish, LoopShape, Lost
  <2>2. ~HeldBack(e)'
    BY <2>1 DEF HeldBack
  <2>3. ASSUME OnStream(e)' PROVE OnStream(e) \/ HeldBack(e) \/ e = cur
    <3>1. PICK m : m = Copies(cur)
      OBVIOUS
    <3>2. m \in Seq(Events) /\ \A d \in 1 .. Len(m) : m[d] = cur
      BY <2>1, <3>1, CopiesType
    <3>3. PICK d \in DOMAIN (stream \o (m \o held)) : (stream \o (m \o held))[d] = e
      BY <2>1, <2>3, <3>1 DEF OnStream
    <3>4. PICK t : t = stream \o (m \o held)
      OBVIOUS
    <3>5. /\ DOMAIN t = 1 .. Len(stream) + Len(m) + Len(held)
          /\ \A k \in 1 .. Len(stream) : t[k] = stream[k]
          /\ \A k \in 1 .. Len(m) : t[Len(stream) + k] = m[k]
          /\ \A k \in 1 .. Len(held) : t[Len(stream) + Len(m) + k] = held[k]
      BY <1>0, <3>2, <3>4, ThreeParts
    <3>6. /\ Len(stream) \in Nat /\ Len(m) \in Nat /\ Len(held) \in Nat
          /\ DOMAIN stream = 1 .. Len(stream) /\ DOMAIN held = 1 .. Len(held)
      BY <1>0, <3>2
    <3>7. d \in DOMAIN t /\ t[d] = e
      BY <3>3, <3>4
    <3>8. CASE d <= Len(stream)
      BY <3>5, <3>6, <3>7, <3>8 DEF OnStream
    <3>9. CASE d > Len(stream) /\ d <= Len(stream) + Len(m)
      <4>1. d - Len(stream) \in 1 .. Len(m) /\ Len(stream) + (d - Len(stream)) = d
        BY <3>5, <3>6, <3>7, <3>9
      <4> QED BY <3>2, <3>5, <3>7, <4>1
    <3>10. CASE d > Len(stream) + Len(m)
      <4>1. /\ d - Len(stream) - Len(m) \in 1 .. Len(held)
            /\ Len(stream) + Len(m) + (d - Len(stream) - Len(m)) = d
        BY <3>5, <3>6, <3>7, <3>10
      <4>2. held[d - Len(stream) - Len(m)] = e
        BY <3>5, <3>7, <4>1
      <4> QED BY <3>6, <4>1, <4>2 DEF HeldBack
    <3>11. d \in Nat
      BY <3>5, <3>6, <3>7
    <3> QED BY <3>6, <3>8, <3>9, <3>10, <3>11
  <2> QED BY <2>1, <2>2, <2>3
<1>2. CASE Flush
  <2>1. stream' = stream \o held /\ held' = <<>>
    BY <1>2 DEF Flush, FlushReorderBuffer, Publish
  <2>2. PICK t : t = stream'
    OBVIOUS
  <2>3. \A d \in DOMAIN t : /\ d <= Len(stream) => d \in DOMAIN stream /\ t[d] = stream[d]
                            /\ d > Len(stream) => /\ d - Len(stream) \in DOMAIN held
                                                  /\ t[d] = held[d - Len(stream)]
                            /\ d \in Nat /\ Len(stream) \in Nat
    BY <1>0, <2>1, <2>2
  <2>4. OnStream(e)' => OnStream(e) \/ HeldBack(e)
    <3> SUFFICES ASSUME NEW d \in DOMAIN t, t[d] = e PROVE OnStream(e) \/ HeldBack(e)
      BY <2>2 DEF OnStream
    <3>1. d <= Len(stream) \/ d > Len(stream)
      BY <2>3
    <3> QED BY <2>3, <3>1 DEF OnStream, HeldBack
  <2> QED BY <2>1, <2>4 DEF HeldBack
<1>3. CASE PublishLost
  <2>1. /\ stream' = stream /\ cur \in Events
        /\ \/ held' = held
           \/ held' = Append(held, cur) /\ schedule[cur] = "reorder_event"
    BY <1>3 DEF PublishLost, Drop, Hold, LoopShape
  <2>2. CASE held' = Append(held, cur) /\ schedule[cur] = "reorder_event"
    <3>1. \A i \in DOMAIN held' : \/ i \in DOMAIN held /\ held'[i] = held[i]
                                  \/ held'[i] = cur
      BY <1>0, <2>1, <2>2
    <3> QED BY <2>1, <2>2, <3>1 DEF HeldBack, OnStream
  <2> QED BY <2>1, <2>2 DEF HeldBack, OnStream
<1>4. CASE ~(PublishSent \/ Flush \/ PublishLost)
  <2>1. held' = held /\ stream' = stream
    BY <1>4 DEF Next, vars, MonitorActs, RefuseOnOutage, FailOpenOnOutage, OutageUnseen,
       ConsumeBatch, Consume, Outage, FindTarget, DrainBacklog, TargetMissing, EvaluateTarget,
       CrashAndRedeliver, DecideOnTime, DecideWithout, Enforce, RetryDouble, RecordDecision
  <2> QED BY <2>1 DEF HeldBack, OnStream
<1> QED BY <1>1, <1>2, <1>3, <1>4

\* The publish puts the event at hand where its fault has it.
LEMMA PublishedAs ==
    ASSUME TypeOK, LoopShape, Next, pc = "publish"
    PROVE  /\ schedule[cur] \notin Lost => OnStream(cur)' \/ HeldBack(cur)'
           /\ schedule[cur] = "duplicate_event" => Doubled(cur)'
<1> USE DEF inputVars, brokerVars, labVars, effectVars, loopVars
<1>0. stream \in Seq(Events) /\ held \in Seq(Events) /\ cur \in Events
  BY DEF TypeOK, LoopShape
<1>1. \/ PublishLost \/ PublishSent \/ schedule[cur] = "transport_outage"
  BY DEF Next, MonitorActs, RefuseOnOutage, FailOpenOnOutage, OutageUnseen,
     ConsumeBatch, Outage, FindTarget, DrainBacklog, TargetMissing, EvaluateTarget, BatchRead,
     CrashAndRedeliver, DecideOnTime, DecideWithout, Enforce, RetryDouble, RecordDecision, Flush
<1>2. CASE PublishSent
  <2>1. stream' = stream \o (Copies(cur) \o held)
    BY <1>2 DEF PublishSent, Send, Publish
  <2>2. PICK m : m = Copies(cur)
    OBVIOUS
  <2>3. /\ m \in Seq(Events) /\ Len(m) \in 1..2 /\ \A d \in 1 .. Len(m) : m[d] = cur
        /\ schedule[cur] = "duplicate_event" => Len(m) = 2
    BY <1>0, <2>2, CopiesType DEF Copies
  <2>4. PICK t : t = stream'
    OBVIOUS
  <2>5. /\ DOMAIN t = 1 .. Len(stream) + Len(m) + Len(held)
        /\ \A k \in 1 .. Len(m) : t[Len(stream) + k] = m[k]
    BY <1>0, <2>1, <2>2, <2>3, <2>4, ThreeParts
  <2>6. Len(stream) \in Nat /\ Len(m) \in Nat /\ Len(held) \in Nat
    BY <1>0, <2>3
  <2>7. \A k \in 1 .. Len(m) : Len(stream) + k \in DOMAIN t /\ t[Len(stream) + k] = cur
    BY <2>3, <2>5, <2>6
  <2>8. OnStream(cur)'
    <3>1. 1 \in 1 .. Len(m)
      BY <2>3
    <3>2. PICK k : k = Len(stream) + 1
      OBVIOUS
    <3>3. k \in DOMAIN t /\ t[k] = cur
      BY <2>7, <3>1, <3>2
    <3>4. cur' = cur
      BY <1>2 DEF PublishSent
    <3> QED BY <2>4, <3>3, <3>4 DEF OnStream
  <2>9. schedule[cur] = "duplicate_event" => Doubled(cur)'
    <3> SUFFICES ASSUME schedule[cur] = "duplicate_event" PROVE Doubled(cur)'
      OBVIOUS
    <3>1. Len(m) = 2
      BY <2>3
    <3>2. PICK k : k = Len(stream) + 1
      OBVIOUS
    <3>3. Len(stream) + 2 = k + 1
      BY <2>6, <3>2
    <3>4. 1 \in 1 .. Len(m) /\ 2 \in 1 .. Len(m)
      BY <3>1
    <3>6. k \in DOMAIN t /\ t[k] = cur /\ k + 1 \in DOMAIN t /\ t[k + 1] = cur
      BY <2>7, <3>2, <3>3, <3>4
    <3>5. cur' = cur
      BY <1>2 DEF PublishSent
    <3> QED BY <2>4, <3>5, <3>6 DEF Doubled
  <2> QED BY <2>8, <2>9
<1>3. CASE PublishLost
  <2>1. CASE Drop(cur)
    BY <2>1 DEF Drop, Lost
  <2>2. CASE Hold(cur)
    <3>1. held' = Append(held, cur) /\ schedule[cur] = "reorder_event" /\ cur' = cur
      BY <1>3, <2>2 DEF Hold, PublishLost
    <3>2. PICK k : k = Len(held) + 1
      OBVIOUS
    <3>3. k \in DOMAIN held' /\ held'[k] = cur'
      BY <1>0, <3>1, <3>2
    <3> QED BY <3>1, <3>3 DEF HeldBack
  <2> QED BY <1>3, <2>1, <2>2 DEF PublishLost
<1>4. CASE schedule[cur] = "transport_outage"
  BY <1>4 DEF Lost
<1> QED BY <1>1, <1>2, <1>3, <1>4

LEMMA EdgeKeepsInit == Init => EdgeKeeps
<1> SUFFICES ASSUME Init PROVE EdgeKeeps
  OBVIOUS
<1>1. /\ stream = <<>> /\ held = <<>> /\ cur = 1 /\ pc \in {"act", "publish"}
  BY DEF Init, FreshRun, FirstPc, BrokerInit, LabInit
<1>2. \A e \in Events : ~(e < 1)
  BY NAssumption DEF Events
<1> QED BY <1>1, <1>2 DEF EdgeKeeps, OnStream, HeldBack, Offered

LEMMA EdgeKeepsStep ==
    ASSUME TypeOK, LoopShape, EdgeKeeps, [Next]_vars
    PROVE  EdgeKeeps'
<1>1. CASE UNCHANGED vars
  BY <1>1 DEF EdgeKeeps, OnStream, HeldBack, Offered, Doubled, vars, inputVars, brokerVars,
     labVars
<1>2. CASE ~UNCHANGED vars
  <2>1. schedule' = schedule
    BY InputsRigid
  <2>2. ASSUME NEW e \in Events
        PROVE  /\ OnStream(e)' => schedule[e] \notin Lost
               /\ HeldBack(e)' => schedule[e] = "reorder_event"
               /\ Offered(e)' /\ schedule[e] \notin Lost => OnStream(e)' \/ HeldBack(e)'
               /\ Offered(e)' /\ schedule[e] = "duplicate_event" => Doubled(e)'
    <3>1. /\ OnStream(e) => schedule[e] \notin Lost
          /\ HeldBack(e) => schedule[e] = "reorder_event"
          /\ Offered(e) /\ schedule[e] \notin Lost => OnStream(e) \/ HeldBack(e)
          /\ Offered(e) /\ schedule[e] = "duplicate_event" => Doubled(e)
      BY DEF EdgeKeeps
    <3>2. /\ OnStream(e)' => schedule[e] \notin Lost
          /\ HeldBack(e)' => schedule[e] = "reorder_event"
      BY <3>1, EdgeAdds DEF Lost
    <3>3. CASE Offered(e)
      BY <3>1, <3>2, <3>3, EdgeStays
    <3>4. CASE ~Offered(e) /\ Offered(e)'
      <4>1. e = cur /\ pc = "publish"
        BY <3>4, OfferedStep
      <4>2. CASE cur' = cur
        <5>1. /\ schedule[cur] \notin Lost => OnStream(cur)' \/ HeldBack(cur)'
              /\ schedule[cur] = "duplicate_event" => Doubled(cur)'
          BY <1>2, <4>1, PublishedAs
        <5> QED BY <3>2, <4>1, <4>2, <5>1 DEF OnStream, HeldBack, Doubled
      <4>3. CASE cur' # cur
        <5>1. RefuseOnOutage
          BY <1>2, <4>1, <4>3 DEF Next, MonitorActs, PublishLost, PublishSent,
             FailOpenOnOutage, OutageUnseen, ConsumeBatch, FindTarget, DrainBacklog, BatchRead,
             TargetMissing, EvaluateTarget, CrashAndRedeliver, DecideOnTime, DecideWithout,
             Enforce, RetryDouble, RecordDecision, Flush
        <5>2. schedule[cur] = "transport_outage"
          BY <5>1 DEF RefuseOnOutage, Outage
        <5> QED BY <3>2, <4>1, <5>2 DEF Lost
      <4> QED BY <4>2, <4>3
    <3> QED BY <3>2, <3>3, <3>4
  <2>3. pc' = "done" => held' = <<>>
    BY <1>2 DEF Next, MonitorActs, PublishLost, PublishSent, RefuseOnOutage, NextEvent,
       FirstPc, FailOpenOnOutage, OutageUnseen, ConsumeBatch, FindTarget, DrainBacklog,
       BatchRead, TargetMissing, EvaluateTarget, CrashAndRedeliver, DecideOnTime,
       DecideWithout, AfterDecision, Enforce, RetryDouble, RecordDecision, Flush,
       FlushReorderBuffer
  <2> QED BY <2>1, <2>2, <2>3 DEF EdgeKeeps
<1> QED BY <1>1, <1>2

\* How often an event is on the stream when nothing is held back any more.
LEMMA CopiesCounted ==
    ASSUME TypeOK, CopiesAreAdjacent, EdgeKeeps, NEW e \in Events, Offered(e), held = <<>>
    PROVE  Copied(e) = CASE schedule[e] \in {"drop_event", "transport_outage"} -> 0
                         [] schedule[e] = "duplicate_event" -> 2
                         [] OTHER -> 1
<1>0. \A d \in DOMAIN stream : d \in Nat
  <2>1. stream \in Seq(Events)
    BY DEF TypeOK
  <2> QED BY <2>1
<1>1. ~HeldBack(e)
  BY DEF HeldBack
<1> DEFINE P == {d \in DOMAIN stream : stream[d] = e}
<1>2. CASE schedule[e] \in Lost
  <2>1. P = {}
    BY <1>2 DEF EdgeKeeps, OnStream
  <2> QED BY <1>2, <2>1, FS_EmptySet DEF Copied, Lost
<1>3. CASE schedule[e] = "duplicate_event"
  <2>1. PICK d \in DOMAIN stream : d + 1 \in DOMAIN stream /\ stream[d] = e /\ stream[d + 1] = e
    BY <1>3 DEF EdgeKeeps, Doubled
  <2>2. ASSUME NEW c \in P PROVE c = d \/ c = d + 1
    <3>1. c \in DOMAIN stream /\ stream[c] = e /\ c \in Nat /\ d \in Nat
      BY <1>0, <2>1
    <3>2. CASE c > d
      BY <2>1, <3>1, <3>2 DEF CopiesAreAdjacent, Adjacent
    <3>3. CASE c < d
      <4>1. c < d + 1 /\ d # c
        BY <3>1, <3>3
      <4>2. d + 1 = c + 1
        BY <2>1, <3>1, <4>1 DEF CopiesAreAdjacent, Adjacent
      <4> QED BY <3>1, <4>1, <4>2
    <3> QED BY <3>1, <3>2, <3>3
  <2>3. P = {d} \cup {d + 1}
    BY <2>1, <2>2
  <2>4. d + 1 \notin {d}
    BY <1>0
  <2>5. IsFiniteSet({d}) /\ Cardinality({d}) = 1
    BY FS_Singleton
  <2>6. Cardinality({d} \cup {d + 1}) = 2
    BY <2>4, <2>5, FS_AddElement
  <2> QED BY <1>3, <2>3, <2>6 DEF Copied
<1>4. CASE schedule[e] \notin Lost /\ schedule[e] # "duplicate_event"
  <2>1. PICK d \in DOMAIN stream : stream[d] = e
    BY <1>1, <1>4 DEF EdgeKeeps, OnStream
  <2>2. ASSUME NEW c \in P PROVE c = d
    <3>1. c \in DOMAIN stream /\ stream[c] = e /\ c \in Nat /\ d \in Nat
      BY <1>0, <2>1
    <3>2. ~(c < d) /\ ~(d < c)
      BY <1>4, <2>1, <3>1 DEF CopiesAreAdjacent, Adjacent
    <3> QED BY <3>1, <3>2
  <2>3. P = {d}
    BY <2>1, <2>2
  <2>4. Cardinality({d}) = 1
    BY FS_Singleton
  <2> QED BY <1>4, <2>3, <2>4 DEF Copied, Lost
<1> QED BY <1>2, <1>3, <1>4 DEF Lost

(* When a run ends every event is on the broker as often as its fault has   *)
(* it, and nothing is held back (faultlab.py publish, flush_reorder_buffer).*)
THEOREM EdgeConserves == Spec => []EdgeConservesEvents
<1>1. Init => EdgeKeeps
  BY EdgeKeepsInit
<1>2. TypeOK /\ GateInvariant /\ EdgeKeeps /\ [Next]_vars => EdgeKeeps'
  BY EdgeKeepsStep DEF GateInvariant
<1>3. TypeOK /\ GateInvariant /\ PendingInvariant /\ EdgeKeeps => EdgeConservesEvents
  <2> SUFFICES ASSUME TypeOK, GateInvariant, PendingInvariant, EdgeKeeps, Finished,
                      NEW e \in Events
               PROVE  Copied(e) = CASE schedule[e] \in {"drop_event", "transport_outage"} -> 0
                                    [] schedule[e] = "duplicate_event" -> 2
                                    [] OTHER -> 1
    BY DEF EdgeConservesEvents
  <2>1. cur = N + 1 /\ held = <<>>
    BY DEF Finished, EdgeKeeps, GateInvariant, LoopShape
  <2>2. Offered(e)
    BY <2>1, NAssumption DEF Offered, Events
  <2> QED BY <2>1, <2>2, CopiesCounted DEF PendingInvariant
<1> QED BY <1>1, <1>2, <1>3, PendingHolds, PTL DEF Spec

----------------------------------------------------------------------------
(* Reads that reach the end of the stream.                                  *)

\* A read asks for no less than there is to read: no batch overflows.
ReadsReachTheEnd == pc = "consume" => Len(stream) - cursor <= BatchSize

\* What does not go through when it is published, nor releases what is held back.
Withheld == {"reorder_event", "drop_event", "transport_outage"}

\* The events reordered since anything last went through, when e is published.
Streak(e) ==
    {d \in Events : /\ d < e /\ schedule[d] = "reorder_event"
                    /\ \A x \in d .. e - 1 : schedule[x] \in Withheld}

\* A read takes as much as an event, doubled, and the streak before it.
ShortStreaks == \A e \in Events : Cardinality(Streak(e)) + 2 <= BatchSize

\* Nothing stays behind, and what is still to be looked at is of the event at hand, or
\* was held back to be reordered; the event at hand is there, or was found.
OwnOrReordered(d) == stream[d] = cur \/ schedule[stream[d]] = "reorder_event"

NothingStays == pc \notin {"consume", "done"} => cursor = Len(stream)

ReadsAreWhole ==
    /\ NothingStays
    /\ pc = "consume" => /\ \A d \in cursor + 1 .. Len(stream) : OwnOrReordered(d)
                         /\ cursor + 1 \in DOMAIN stream /\ stream[cursor + 1] = cur
    /\ pc = "drain" => /\ \A d \in next .. cursor : OwnOrReordered(d)
                       /\ target # 0 \/ \E d \in next .. cursor : stream[d] = cur

\* What a drain recorded was held back to be reordered.
DrainedWereReordered ==
    \A i \in DOMAIN decisions : decisions[i].outcome = "DECIDED_BACKLOG" =>
        schedule[decisions[i].event] = "reorder_event"

\* The gate notes that its enforcement was made to fail.
FailuresAreNoted ==
    \A i \in DOMAIN decisions :
        schedule[decisions[i].event] = "enforcement_fail" =>
            decisions[i].outcome = "DECIDED_BACKLOG" \/ decisions[i].note = "enforcement_failed"

\* An injected crash is followed by a redelivery that has the verdict.
CrashesAreMadeGood ==
    ~mode.crashing =>
        /\ tally["crashes"] = tally["redelivered"]
        /\ pc \in {"decide", "enforce", "retry", "record"} /\ schedule[cur] = "evaluator_crash"
              => verdict # NoRisk
        /\ \A i \in DOMAIN decisions : schedule[decisions[i].event] = "evaluator_crash" =>
              decisions[i].outcome # "NO_DECISION"

\* Since something was held back, nothing went through that would have released it.
HeldStreak == \A i \in DOMAIN held : \A e \in held[i] .. N : Offered(e) => schedule[e] \in Withheld

HeldSince ==
    /\ HeldStreak
    /\ pc = "done" => \A d \in cursor + 1 .. Len(stream) :
          /\ schedule[stream[d]] = "reorder_event"
          /\ \A e \in stream[d] .. N : schedule[e] \in Withheld

(* While no batch overflows, a read takes all there is: the event at hand   *)
(* and what its publish released.  So a drain judges only reordered events, *)
(* a crash is made good, and only the last flush is left unread.            *)
RoomInvariant ==
    ReadsAreWhole /\ DrainedWereReordered /\ FailuresAreNoted /\ CrashesAreMadeGood /\ HeldSince

LEMMA EdgeKeepsHolds ==
    Spec => [](TypeOK /\ GateInvariant /\ ChainInvariant /\ PendingInvariant /\ EdgeKeeps)
<1>1. Init => EdgeKeeps
  BY EdgeKeepsInit
<1>2. TypeOK /\ GateInvariant /\ EdgeKeeps /\ [Next]_vars => EdgeKeeps'
  BY EdgeKeepsStep DEF GateInvariant
<1> QED BY <1>1, <1>2, PendingHolds, PTL DEF Spec

\* What a publish adds are the copies of the event at hand, and what was held back.
LEMMA PublishLengthens ==
    ASSUME TypeOK, LoopShape, PublishSent
    PROVE  /\ Len(stream') <= Len(stream) + 2 + Len(held) /\ Len(stream') > Len(stream)
           /\ Len(stream) + 1 \in DOMAIN stream' /\ stream'[Len(stream) + 1] = cur
           /\ \A d \in Len(stream) + 1 .. Len(stream') :
                 stream'[d] = cur \/ \E i \in DOMAIN held : stream'[d] = held[i]
<1>0. stream \in Seq(Events) /\ held \in Seq(Events) /\ cur \in Events
  BY DEF TypeOK, LoopShape, PublishSent
<1>1. PICK m : m = Copies(cur)
  OBVIOUS
<1>2. m \in Seq(Events) /\ Len(m) \in 1..2 /\ \A d \in 1 .. Len(m) : m[d] = cur
  BY <1>0, <1>1, CopiesType
<1>3. PICK t : t = stream' /\ t = stream \o (m \o held)
  BY <1>1 DEF PublishSent, Send, Publish
<1>4. /\ DOMAIN t = 1 .. Len(stream) + Len(m) + Len(held)
      /\ \A k \in 1 .. Len(m) : t[Len(stream) + k] = m[k]
      /\ \A k \in 1 .. Len(held) : t[Len(stream) + Len(m) + k] = held[k]
  BY <1>0, <1>2, <1>3, ThreeParts
<1>5. /\ Len(stream) \in Nat /\ Len(m) \in Nat /\ Len(held) \in Nat
      /\ DOMAIN held = 1 .. Len(held)
  BY <1>0, <1>2
<1>6. Len(t) = Len(stream) + Len(m) + Len(held)
  BY <1>0, <1>2, <1>3
<1>7. Len(stream) + 1 \in DOMAIN t /\ t[Len(stream) + 1] = cur
  <2>1. 1 \in 1 .. Len(m)
    BY <1>2
  <2>2. Len(m) >= 1
    BY <1>2
  <2>3. Len(stream) + 1 \in 1 .. Len(stream) + Len(m) + Len(held)
    BY <1>5, <2>2
  <2> QED BY <1>2, <1>4, <2>1, <2>3
<1>8. ASSUME NEW d \in Len(stream) + 1 .. Len(t)
      PROVE  t[d] = cur \/ \E i \in DOMAIN held : t[d] = held[i]
  <2>1. CASE d <= Len(stream) + Len(m)
    <3>1. d - Len(stream) \in 1 .. Len(m) /\ Len(stream) + (d - Len(stream)) = d
      BY <1>5, <1>6, <2>1
    <3> QED BY <1>2, <1>4, <3>1
  <2>2. CASE d > Len(stream) + Len(m)
    <3>1. /\ d - Len(stream) - Len(m) \in 1 .. Len(held)
          /\ Len(stream) + Len(m) + (d - Len(stream) - Len(m)) = d
      BY <1>5, <1>6, <2>2
    <3> QED BY <1>4, <1>5, <3>1
  <2> QED BY <1>5, <2>1, <2>2
<1>9. Len(t) <= Len(stream) + 2 + Len(held) /\ Len(t) > Len(stream)
  BY <1>2, <1>5, <1>6
<1> QED BY <1>3, <1>7, <1>8, <1>9

\* A read takes all there is, and nothing is published but for a read.
LEMMA NothingStaysStep ==
    ASSUME TypeOK, LoopShape, ReadsReachTheEnd, NothingStays, [Next]_vars
    PROVE  NothingStays'
<1> USE DEF inputVars, brokerVars, labVars, effectVars, loopVars
<1>0. Len(stream) \in Nat /\ cursor \in 0 .. Len(stream)
  BY DEF TypeOK
<1>1. CASE PublishSent \/ Flush
  BY <1>1 DEF PublishSent, Flush, NothingStays
<1>2. CASE ConsumeBatch
  <2>1. stream' = stream /\ cursor' = BatchEnd /\ Len(stream) - cursor <= BatchSize
    BY <1>2 DEF ConsumeBatch, Consume, ReadsReachTheEnd
  <2>2. BatchEnd = Len(stream)
    BY <1>0, <2>1, BatchSizeAssumption DEF BatchEnd
  <2> QED BY <2>1, <2>2 DEF NothingStays
<1>3. CASE ~(PublishSent \/ Flush \/ ConsumeBatch)
  <2>1. /\ stream' = stream /\ cursor' = cursor
        /\ pc' \notin {"consume", "done"} => pc \notin {"consume", "done"}
    BY <1>3 DEF Next, vars, MonitorActs, PublishLost, Drop, Hold, RefuseOnOutage, NextEvent,
       FailOpenOnOutage, OutageUnseen, Outage, FindTarget, DrainBacklog, TargetMissing, BatchRead,
       EvaluateTarget, CrashAndRedeliver, DecideOnTime, DecideWithout, Enforce, RetryDouble,
       RecordDecision
  <2> QED BY <2>1 DEF NothingStays
<1> QED BY <1>1, <1>2, <1>3

\* What is read is the event at hand and what its publish released.
LEMMA ReadsStep ==
    ASSUME TypeOK, GateInvariant, PendingInvariant, EdgeKeeps, ReadsReachTheEnd, ReadsAreWhole,
           [Next]_vars
    PROVE  ReadsAreWhole'
<1> USE DEF inputVars, brokerVars, labVars, effectVars, loopVars
<1>0. /\ Len(stream) \in Nat /\ cursor \in 0 .. Len(stream) /\ next \in Nat
      /\ DOMAIN stream = 1 .. Len(stream) /\ schedule' = schedule
  BY InputsRigid DEF TypeOK
<1>1. NothingStays'
  BY NothingStaysStep DEF ReadsAreWhole, GateInvariant
<1>2. CASE PublishSent
  <2>1. /\ pc = "publish" /\ pc' = "consume" /\ cursor' = cursor /\ cur' = cur
        /\ cursor = Len(stream)
    BY <1>2 DEF PublishSent, ReadsAreWhole, NothingStays
  <2>2. /\ Len(stream') > Len(stream) /\ stream'[Len(stream) + 1] = cur
        /\ \A d \in Len(stream) + 1 .. Len(stream') :
              stream'[d] = cur \/ \E i \in DOMAIN held : stream'[d] = held[i]
    BY <1>2, PublishLengthens DEF GateInvariant
  <2>3. \A i \in DOMAIN held : schedule[held[i]] = "reorder_event"
    BY DEF EdgeKeeps, HeldBack, TypeOK
  <2>4. \A d \in cursor' + 1 .. Len(stream') : OwnOrReordered(d)'
    BY <1>0, <2>1, <2>2, <2>3 DEF OwnOrReordered
  <2>5. cursor' + 1 \in DOMAIN stream' /\ stream'[cursor' + 1] = cur'
    BY <1>2, <2>1, PublishLengthens DEF GateInvariant
  <2> QED BY <1>1, <2>1, <2>4, <2>5 DEF ReadsAreWhole
<1>3. CASE ConsumeBatch
  <2>1. /\ pc = "consume" /\ pc' = "drain" /\ stream' = stream /\ cur' = cur
        /\ next' = cursor + 1 /\ cursor' = Len(stream)
    BY <1>1, <1>3 DEF ConsumeBatch, Consume, NothingStays
  <2> QED BY <1>0, <1>1, <2>1 DEF ReadsAreWhole, OwnOrReordered
<1>4. CASE FindTarget
  <2>1. /\ pc = "drain" /\ pc' = "drain" /\ stream' = stream /\ cur' = cur /\ cursor' = cursor
        /\ next <= cursor /\ next' = next + 1 /\ target' = next
    BY <1>4 DEF FindTarget
  <2>2. next >= 1
    BY <2>1 DEF GateInvariant, LoopShape
  <2> QED BY <1>0, <1>1, <2>1, <2>2 DEF ReadsAreWhole, OwnOrReordered
<1>5. CASE DrainBacklog
  <2>1. /\ pc = "drain" /\ pc' = "drain" /\ stream' = stream /\ cur' = cur /\ cursor' = cursor
        /\ next' = next + 1 /\ target' = target /\ stream[next] # cur
    BY <1>5 DEF DrainBacklog
  <2>2. \A d \in next' .. cursor' : OwnOrReordered(d)'
    BY <1>0, <2>1 DEF ReadsAreWhole, OwnOrReordered
  <2>3. target' # 0 \/ \E d \in next' .. cursor' : stream'[d] = cur'
    BY <1>0, <2>1 DEF ReadsAreWhole
  <2> QED BY <1>1, <2>1, <2>2, <2>3 DEF ReadsAreWhole
<1>6. CASE UNCHANGED vars
  BY <1>1, <1>6 DEF vars, ReadsAreWhole, OwnOrReordered
<1>7. CASE ~(PublishSent \/ ConsumeBatch \/ FindTarget \/ DrainBacklog) /\ ~UNCHANGED vars
  <2>1. pc' \notin {"consume", "drain"}
    BY <1>7 DEF Next, MonitorActs, PublishLost, RefuseOnOutage, NextEvent, FirstPc,
       FailOpenOnOutage, OutageUnseen, TargetMissing, EvaluateTarget, CrashAndRedeliver,
       DecideOnTime, DecideWithout, AfterDecision, Enforce, RetryDouble, RecordDecision, Flush
  <2> QED BY <1>1, <2>1 DEF ReadsAreWhole
<1> QED BY <1>2, <1>3, <1>4, <1>5, <1>6, <1>7

\* A drain judges what was reordered only; the gate notes an enforcement failure, and
\* has a verdict in spite of a crash.
LEMMA RecordsStep ==
    ASSUME TypeOK, GateInvariant, ChainInvariant, PendingInvariant, ReadsAreWhole,
           DrainedWereReordered, FailuresAreNoted, CrashesAreMadeGood, [Next]_vars
    PROVE  /\ DrainedWereReordered' /\ FailuresAreNoted'
           /\ ~mode.crashing => \A i \in DOMAIN decisions' :
                 schedule[decisions'[i].event] = "evaluator_crash" =>
                     decisions'[i].outcome # "NO_DECISION"
<1> USE DEF inputVars, brokerVars, labVars, effectVars, loopVars
<1>0. schedule' = schedule /\ mode' = mode
  BY InputsRigid
<1>1. ASSUME NEW r, decisions' = Append(decisions, r),
             r.outcome = "DECIDED_BACKLOG" => schedule[r.event] = "reorder_event",
             schedule[r.event] = "enforcement_fail" =>
                 r.outcome = "DECIDED_BACKLOG" \/ r.note = "enforcement_failed",
             ~mode.crashing /\ schedule[r.event] = "evaluator_crash"
                 => r.outcome # "NO_DECISION"
      PROVE  /\ DrainedWereReordered' /\ FailuresAreNoted'
             /\ ~mode.crashing => \A i \in DOMAIN decisions' :
                   schedule[decisions'[i].event] = "evaluator_crash" =>
                       decisions'[i].outcome # "NO_DECISION"
  <2>1. \A i \in DOMAIN decisions' :
            \/ i \in DOMAIN decisions /\ decisions'[i] = decisions[i]
            \/ decisions'[i] = r
    BY <1>1, ChainGrows
  <2> QED BY <1>0, <1>1, <2>1
          DEF DrainedWereReordered, FailuresAreNoted, CrashesAreMadeGood
<1>2. CASE DrainBacklog /\ ~mode.crashing
  <2> DEFINE r == [event |-> stream[next], risk |-> Score(stream[next]),
                   decision |-> Decide(mode.policy, Score(stream[next])),
                   outcome |-> "DECIDED_BACKLOG", note |-> "backlog", alt |-> NoRisk]
  <2>1. /\ decisions' = Append(decisions, r)
        /\ pc = "drain" /\ next <= cursor /\ stream[next] # cur
    BY <1>2 DEF DrainBacklog, Record
  <2>2. next \in next .. cursor
    BY <2>1 DEF TypeOK
  <2>3. schedule[r.event] = "reorder_event" /\ r.outcome = "DECIDED_BACKLOG"
    BY <2>1, <2>2 DEF ReadsAreWhole, OwnOrReordered
  <2> HIDE DEF r
  <2> QED BY <1>1, <2>1, <2>3
<1>3. CASE RefuseOnOutage
  <2> DEFINE r == [event |-> cur, risk |-> NoRisk, decision |-> FailModeDecision,
                   outcome |-> "REFUSED_TRANSPORT_DOWN", note |-> "outage", alt |-> NoRisk]
  <2>1. decisions' = Append(decisions, r)
    BY <1>3 DEF RefuseOnOutage, Record
  <2>2. schedule[r.event] = "transport_outage" /\ r.outcome = "REFUSED_TRANSPORT_DOWN"
    BY <1>3 DEF RefuseOnOutage, Outage
  <2> HIDE DEF r
  <2> QED BY <1>1, <2>1, <2>2
<1>4. CASE RecordDecision
  <2> DEFINE r == [event |-> cur, risk |-> verdict, decision |-> ruling.decision,
                   outcome |-> ruling.outcome,
                   note |-> IF EnforcementFails THEN "enforcement_failed" ELSE "none",
                   alt |-> ruling.alt]
  <2>1. decisions' = Append(decisions, r) /\ pc = "record"
    BY <1>4 DEF RecordDecision, Record
  <2>2. /\ r.event = cur /\ r.outcome = ruling.outcome
        /\ schedule[cur] = "enforcement_fail" => r.note = "enforcement_failed"
    BY DEF EnforcementFails, Fault
  <2>3. /\ ruling.outcome \in {"DECIDED", "LATE", "NO_DECISION"}
        /\ ruling.outcome = "NO_DECISION" <=> verdict = NoRisk
    BY <2>1 DEF ChainInvariant, RulingTells
  <2>4. ~mode.crashing /\ schedule[cur] = "evaluator_crash" => verdict # NoRisk
    BY <2>1 DEF CrashesAreMadeGood
  <2> HIDE DEF r
  <2> QED BY <1>1, <2>1, <2>2, <2>3, <2>4
<1>5. CASE ~((DrainBacklog /\ ~mode.crashing) \/ RefuseOnOutage \/ RecordDecision)
  <2>1. decisions' = decisions
    BY <1>5 DEF Next, vars, MonitorActs, PublishLost, PublishSent, FailOpenOnOutage, OutageUnseen,
       ConsumeBatch, FindTarget, DrainBacklog, TargetMissing, EvaluateTarget, CrashAndRedeliver,
       DecideOnTime, DecideWithout, Enforce, RetryDouble, Flush
  <2> QED BY <1>0, <2>1 DEF DrainedWereReordered, FailuresAreNoted, CrashesAreMadeGood
<1> QED BY <1>2, <1>3, <1>4, <1>5

\* A crash of an evaluation is counted with its redelivery: it is always found.
LEMMA RecoveriesStep ==
    ASSUME TypeOK, PendingInvariant, ~mode.crashing => tally["crashes"] = tally["redelivered"],
           [Next]_vars
    PROVE  ~mode.crashing' => tally'["crashes"] = tally'["redelivered"]
<1> USE DEF inputVars, brokerVars, labVars, effectVars, loopVars
<1>0. /\ schedule' = schedule /\ mode' = mode
      /\ tally \in [Counters -> Nat]
      /\ \A c, d \in Counters : \A n \in Nat : Add(tally, c, n)[d] =
             IF c = d THEN tally[d] + n ELSE tally[d]
      /\ \A c \in Counters : \A n \in Nat : Add(tally, c, n) \in [Counters -> Nat]
  BY InputsRigid DEF TypeOK, Add
<1> SUFFICES ASSUME ~mode.crashing PROVE tally'["crashes"] = tally'["redelivered"]
  BY <1>0
<1>1. tally["crashes"] = tally["redelivered"]
  OBVIOUS
<1>2. CASE EvaluateTarget
  <2>1. tally' = Add(tally, "crashes", 0)
    BY <1>2 DEF EvaluateTarget, Count
  <2> QED BY <1>0, <1>1, <2>1 DEF Counters
<1>3. CASE CrashAndRedeliver
  <2>1. tally' = Add(Add(tally, "crashes", 1), "redelivered", 1)
    BY <1>3, RecoveryFinds
  <2> QED BY <1>0, <1>1, <2>1 DEF Counters, Add
<1>4. CASE ~(EvaluateTarget \/ CrashAndRedeliver)
  <2>1. \/ tally' = tally
        \/ \E m, n \in Nat : \/ tally' = Add(tally, "outageRefusals", 1)
                           \/ tally' = Add(tally, "timed", 1)
                           \/ tally' = Add(tally, "disagreements", m)
                           \/ tally' = Add(Add(Add(tally, "noDecision", 1), "lateBlocks", m),
                                          "disagreements", n)
    <3>1. Count(Disagrees) \in Nat /\ Count(LateBlock) \in Nat
      BY DEF Count
    <3> QED BY <1>4, <3>1 DEF Next, vars, MonitorActs, PublishLost, PublishSent,
           RefuseOnOutage, FailOpenOnOutage, OutageUnseen, ConsumeBatch, FindTarget,
           DrainBacklog, TargetMissing, DecideOnTime, DecideWithout, Enforce, RetryDouble,
           RecordDecision, Flush
  <2>2. tally'["crashes"] = tally["crashes"] /\ tally'["redelivered"] = tally["redelivered"]
    <3>0. tally \in [Counters -> Nat] /\ 1 \in Nat
      BY DEF TypeOK
    <3>1. PICK m \in Nat, n \in Nat :
              \/ tally' = tally
              \/ tally' = Add(tally, "outageRefusals", 1)
              \/ tally' = Add(tally, "timed", 1)
              \/ tally' = Add(tally, "disagreements", m)
              \/ tally' = Add(Add(Add(tally, "noDecision", 1), "lateBlocks", m),
                             "disagreements", n)
      BY <2>1
    <3>2. CASE tally' = Add(Add(Add(tally, "noDecision", 1), "lateBlocks", m),
                            "disagreements", n)
      BY <3>0, <3>2 DEF Counters, Add
    <3>3. CASE tally' = Add(tally, "outageRefusals", 1)
      BY <3>0, <3>3 DEF Counters, Add
    <3>4. CASE tally' = Add(tally, "timed", 1)
      BY <3>0, <3>4 DEF Counters, Add
    <3>5. CASE tally' = Add(tally, "disagreements", m)
      BY <3>0, <3>5 DEF Counters, Add
    <3> QED BY <3>1, <3>2, <3>3, <3>4, <3>5
  <2> QED BY <1>1, <2>2
<1> QED BY <1>2, <1>3, <1>4

\* A crash of an evaluation is counted with its redelivery, and leaves a verdict.
LEMMA CrashesStep ==
    ASSUME TypeOK, GateInvariant, ChainInvariant, PendingInvariant, ReadsAreWhole,
           DrainedWereReordered, FailuresAreNoted, CrashesAreMadeGood, [Next]_vars
    PROVE  CrashesAreMadeGood'
<1> USE DEF inputVars, brokerVars, labVars, effectVars, loopVars
<1>0. /\ schedule' = schedule /\ mode' = mode
      /\ tally \in [Counters -> Nat]
      /\ \A c, d \in Counters : \A n \in Nat : Add(tally, c, n)[d] =
             IF c = d THEN tally[d] + n ELSE tally[d]
      /\ \A c \in Counters : \A n \in Nat : Add(tally, c, n) \in [Counters -> Nat]
  BY InputsRigid DEF TypeOK, Add
<1> SUFFICES ASSUME ~mode.crashing PROVE CrashesAreMadeGood'
  BY <1>0 DEF CrashesAreMadeGood
<1>1. \A i \in DOMAIN decisions' :
          schedule[decisions'[i].event] = "evaluator_crash" => decisions'[i].outcome # "NO_DECISION"
  BY RecordsStep
<1>2. tally'["crashes"] = tally'["redelivered"]
  BY <1>0, RecoveriesStep DEF CrashesAreMadeGood
<1>3. ASSUME pc' \in {"decide", "enforce", "retry", "record"}, schedule[cur'] = "evaluator_crash"
      PROVE  verdict' # NoRisk
  <2>1. CASE EvaluateTarget \/ CrashAndRedeliver
    BY <2>1, RecoveryFinds, ScoreIsSome DEF EvaluateTarget, JudgeFirst, ScoreOrCrash
  <2>2. CASE TargetMissing
    <3>1. pc = "drain" /\ next > cursor /\ target = 0 /\ next \in Nat /\ cursor \in Nat
      BY <2>2 DEF TargetMissing, BatchRead, TypeOK
    <3>2. \A d \in next .. cursor : FALSE
      BY <3>1
    <3> QED BY <3>1, <3>2 DEF ReadsAreWhole
  <2>3. CASE PublishLost \/ OutageUnseen
    BY <1>3, <2>3 DEF PublishLost, Drop, Hold, OutageUnseen, Outage
  <2>4. CASE ~(EvaluateTarget \/ CrashAndRedeliver \/ TargetMissing \/ PublishLost \/ OutageUnseen)
    <3>1. /\ pc \in {"decide", "enforce", "retry", "record"}
          /\ verdict' = verdict /\ cur' = cur
      BY <1>3, <2>4 DEF Next, vars, MonitorActs, PublishSent, RefuseOnOutage, NextEvent, FirstPc,
         FailOpenOnOutage, ConsumeBatch, FindTarget, DrainBacklog, DecideOnTime, DecideWithout,
         Enforce, RetryDouble, RecordDecision, Flush
    <3> QED BY <1>3, <3>1 DEF CrashesAreMadeGood
  <2> QED BY <2>1, <2>2, <2>3, <2>4
<1> QED BY <1>0, <1>1, <1>2, <1>3 DEF CrashesAreMadeGood

\* What is held back stays so only while nothing goes through.
LEMMA HeldStreakStep ==
    ASSUME TypeOK, GateInvariant, HeldStreak, [Next]_vars
    PROVE  HeldStreak'
<1> USE DEF inputVars, brokerVars, labVars, effectVars, loopVars
<1>0. /\ schedule' = schedule /\ held \in Seq(Events)
      /\ \A i \in DOMAIN held : held[i] \in Events
      /\ \A e \in Events : e \in Nat /\ e .. N \subseteq Events
      /\ \A e \in Events : Offered(e)' => Offered(e) \/ (e = cur /\ pc = "publish")
  <2>1. schedule' = schedule /\ held \in Seq(Events) /\ \A i \in DOMAIN held : held[i] \in Events
    BY InputsRigid DEF TypeOK
  <2>2. \A e \in Events : e \in Nat /\ e .. N \subseteq Events
    BY NAssumption DEF Events
  <2> QED BY <2>1, <2>2, OfferedStep DEF GateInvariant
<1>1. CASE PublishSent \/ Flush
  BY <1>1 DEF PublishSent, Send, Flush, FlushReorderBuffer, HeldStreak
<1>2. CASE PublishLost \/ RefuseOnOutage \/ OutageUnseen
  <2>1. /\ cur \in Events /\ schedule[cur] \in Withheld
        /\ held' = held \/ held' = Append(held, cur)
    BY <1>2 DEF PublishLost, Drop, Hold, RefuseOnOutage, OutageUnseen, Outage, GateInvariant,
       LoopShape, Withheld
  <2>2. \A i \in DOMAIN held' : (i \in DOMAIN held /\ held'[i] = held[i]) \/ held'[i] = cur
    <3>1. CASE held' = Append(held, cur)
      <4>1. PICK h : h = held' /\ h = Append(held, cur)
        BY <3>1
      <4>2. \A i \in DOMAIN h : (i \in DOMAIN held /\ h[i] = held[i]) \/ h[i] = cur
        BY <1>0, <2>1, <4>1
      <4> QED BY <4>1, <4>2
    <3> QED BY <2>1, <3>1
  <2>3. ASSUME NEW i \in DOMAIN held', NEW e \in held'[i] .. N, Offered(e)'
        PROVE  schedule[e] \in Withheld
    <3>1. CASE i \in DOMAIN held /\ held'[i] = held[i]
      BY <1>0, <2>1, <2>3, <3>1 DEF HeldStreak
    <3>2. CASE held'[i] = cur
      <4>1. e \in Events /\ cur <= e
        BY <1>0, <2>1, <2>3, <3>2
      <4>2. Offered(e) => e = cur
        BY <1>0, <2>1, <4>1 DEF Offered
      <4> QED BY <1>0, <2>1, <2>3, <4>1, <4>2
    <3> QED BY <2>2, <3>1, <3>2
  <2> QED BY <1>0, <2>3 DEF HeldStreak
<1>3. CASE ~(PublishSent \/ Flush \/ PublishLost \/ RefuseOnOutage \/ OutageUnseen)
  <2>1. /\ cur' = cur \/ pc # "publish"
        /\ held' = held
        /\ pc = "publish" => pc' = "publish" /\ cur' = cur
    BY <1>3 DEF Next, vars, MonitorActs, NextEvent, FirstPc, FailOpenOnOutage, ConsumeBatch,
       FindTarget, DrainBacklog, TargetMissing, EvaluateTarget, CrashAndRedeliver,
       BatchRead, DecideOnTime, DecideWithout, AfterDecision, Enforce, RetryDouble, RecordDecision
  <2>2. \A e \in Events : Offered(e)' => Offered(e)
    BY <1>0, <2>1 DEF Offered
  <2> QED BY <1>0, <2>1, <2>2 DEF HeldStreak
<1> QED BY <1>1, <1>2, <1>3

\* The last flush publishes what was held back since anything went through.
LEMMA HeldStep ==
    ASSUME TypeOK, GateInvariant, EdgeKeeps, ReadsAreWhole, HeldSince, [Next]_vars
    PROVE  HeldSince'
<1> USE DEF inputVars, brokerVars, labVars, effectVars, loopVars
<1>0. schedule' = schedule /\ HeldStreak'
  BY InputsRigid, HeldStreakStep DEF HeldSince
<1>1. CASE Flush
  <2>1. /\ stream' = stream \o held /\ cursor' = cursor /\ cur = N + 1 /\ cursor = Len(stream)
    BY <1>1 DEF Flush, FlushReorderBuffer, Publish, GateInvariant, LoopShape, ReadsAreWhole,
       NothingStays
  <2>2. PICK t : t = stream'
    OBVIOUS
  <2>3. stream \in Seq(Events) /\ Len(stream) \in Nat /\ held \in Seq(Events)
    BY DEF TypeOK
  <2>4. \A d \in cursor + 1 .. Len(t) :
            d - Len(stream) \in DOMAIN held /\ t[d] = held[d - Len(stream)]
    BY <2>1, <2>2, <2>3
  <2>5. \A i \in DOMAIN held : /\ schedule[held[i]] = "reorder_event"
                               /\ \A e \in held[i] .. N : schedule[e] \in Withheld
    <3>1. \A e \in Events : Offered(e) /\ e .. N \subseteq Events
      BY <2>1, NAssumption DEF Offered, Events
    <3>2. \A i \in DOMAIN held : held[i] \in Events
      BY DEF TypeOK
    <3> QED BY <3>1, <3>2 DEF HeldSince, HeldStreak, EdgeKeeps, HeldBack
  <2>6. \A d \in cursor + 1 .. Len(t) :
            /\ schedule[t[d]] = "reorder_event"
            /\ \A e \in t[d] .. N : schedule[e] \in Withheld
    BY <2>4, <2>5
  <2> QED BY <1>0, <2>1, <2>2, <2>6 DEF HeldSince
<1>2. CASE PublishSent \/ PublishLost \/ RefuseOnOutage \/ OutageUnseen
  BY <1>0, <1>2 DEF PublishSent, PublishLost, RefuseOnOutage, OutageUnseen, NextEvent, FirstPc,
     HeldSince
<1>3. CASE ~(PublishSent \/ Flush \/ PublishLost \/ RefuseOnOutage \/ OutageUnseen)
  <2>1. stream' = stream /\ (pc' = "done" => pc = "done" /\ cursor' = cursor)
    BY <1>3 DEF Next, vars, MonitorActs, NextEvent, FirstPc, FailOpenOnOutage, ConsumeBatch,
       Consume, FindTarget, DrainBacklog, TargetMissing, EvaluateTarget, CrashAndRedeliver,
       BatchRead, DecideOnTime, DecideWithout, AfterDecision, Enforce, RetryDouble, RecordDecision
  <2> QED BY <1>0, <2>1 DEF HeldSince
<1> QED BY <1>1, <1>2, <1>3

LEMMA RoomInit == Init => RoomInvariant
<1> SUFFICES ASSUME Init PROVE RoomInvariant
  OBVIOUS
<1>1. /\ stream = <<>> /\ held = <<>> /\ cursor = 0 /\ decisions = <<>> /\ pc \in {"act", "publish"}
      /\ tally["crashes"] = 0 /\ tally["redelivered"] = 0
  BY DEF Init, FreshRun, FirstPc, BrokerInit, LabInit, Counters
<1> QED BY <1>1 DEF RoomInvariant, ReadsAreWhole, NothingStays, DrainedWereReordered,
                    FailuresAreNoted, CrashesAreMadeGood, HeldSince, HeldStreak

(* As long as no batch overflows, what is read is the event at hand and     *)
(* what its publish released, and the rest follows (arms.py 200-231).       *)
THEOREM WholeReadsTell ==
    Spec /\ []ReadsReachTheEnd =>
        [](TypeOK /\ GateInvariant /\ ChainInvariant /\ PendingInvariant /\ RoomInvariant)
<1>1. Init => RoomInvariant
  BY RoomInit
<1>2. TypeOK /\ GateInvariant /\ ChainInvariant /\ PendingInvariant /\ EdgeKeeps
      /\ ReadsReachTheEnd /\ RoomInvariant /\ [Next]_vars => RoomInvariant'
  BY ReadsStep, RecordsStep, CrashesStep, HeldStep DEF RoomInvariant
<1> QED BY <1>1, <1>2, EdgeKeepsHolds, PTL DEF Spec

\* What is held back when an event goes through is the streak of reordered ones before it.
LEMMA FewAreHeld ==
    ASSUME TypeOK, GateInvariant, ChainInvariant, PendingInvariant, EdgeKeeps, HeldStreak,
           PublishSent
    PROVE  /\ cur \in Events /\ IsFiniteSet(Streak(cur))
           /\ Len(held) <= Cardinality(Streak(cur))
<1> DEFINE S == 1 .. Len(held)
           f == [i \in S |-> held[i]]
<1>1. /\ held \in Seq(Events) /\ Len(held) \in Nat /\ DOMAIN held = S
      /\ pc = "publish" /\ cur \in Events
  BY DEF TypeOK, PublishSent, GateInvariant, LoopShape
<1>2. IsFiniteSet(Streak(cur))
  <2>1. IsFiniteSet(Events) /\ Streak(cur) \subseteq Events
    BY FS_Interval, NAssumption DEF Events, Streak
  <2> QED BY <2>1, FS_Subset
<1>3. IsFiniteSet(S) /\ Cardinality(S) = Len(held)
  BY <1>1, FS_Interval
<1>4. ASSUME NEW i \in S PROVE held[i] \in Streak(cur)
  <2>1. held[i] \in Events /\ schedule[held[i]] = "reorder_event" /\ Offered(held[i])
    BY <1>1 DEF EdgeKeeps, HeldBack, ChainInvariant, EdgeBehind
  <2>2. schedule[cur] # "reorder_event"
    BY DEF PublishSent, Send
  <2>3. held[i] < cur
    BY <1>1, <2>1, <2>2 DEF Offered
  <2>4. \A x \in held[i] .. cur - 1 : x \in held[i] .. N /\ Offered(x)
    BY <1>1, <2>1, <2>3, NAssumption DEF Offered, Events
  <2>5. \A x \in held[i] .. cur - 1 : schedule[x] \in Withheld
    BY <1>1, <2>4 DEF HeldStreak
  <2> QED BY <2>1, <2>3, <2>5 DEF Streak
<1>5. \A i, j \in S : held[i] = held[j] => i = j
  BY <1>1 DEF PendingInvariant, CopiesAreAdjacent
<1> HIDE DEF S
<1>6. f \in Injection(S, Streak(cur))
  BY <1>4, <1>5 DEF Injection, IsInjective
<1>7. Cardinality(S) <= Cardinality(Streak(cur))
  BY <1>2, <1>3, <1>6, FS_Injection
<1> QED BY <1>1, <1>2, <1>3, <1>7

\* A run begins with nothing to read.
LEMMA RoomAtFirst == Init => HeldStreak /\ ReadsReachTheEnd /\ NothingStays
<1> SUFFICES ASSUME Init PROVE HeldStreak /\ ReadsReachTheEnd /\ NothingStays
  OBVIOUS
<1>1. stream = <<>> /\ held = <<>> /\ cursor = 0 /\ pc \in {"act", "publish"}
  BY DEF Init, FreshRun, FirstPc, BrokerInit, LabInit
<1> QED BY <1>1 DEF HeldStreak, ReadsReachTheEnd, NothingStays

\* Short streaks leave room in every batch: a publish adds two copies and a streak.
Room == ShortStreaks /\ HeldStreak /\ ReadsReachTheEnd /\ NothingStays

LEMMA RoomStep ==
    ASSUME TypeOK, GateInvariant, ChainInvariant, PendingInvariant, EdgeKeeps, Room, [Next]_vars
    PROVE  Room'
<1> USE DEF inputVars, brokerVars, labVars, effectVars, loopVars
<1>1. ShortStreaks'
  BY InputsRigid DEF Room, ShortStreaks, Streak
<1>2. NothingStays' /\ HeldStreak'
  BY NothingStaysStep, HeldStreakStep DEF Room, GateInvariant
<1>3. CASE PublishSent
  <2>1. cursor' = cursor /\ cursor = Len(stream)
    BY <1>3 DEF PublishSent, Room, NothingStays
  <2>2. Len(stream') <= Len(stream) + 2 + Len(held)
    BY <1>3, PublishLengthens DEF GateInvariant
  <2>3. PICK n : n = Cardinality(Streak(cur))
    OBVIOUS
  <2>4. n \in Nat /\ Len(held) <= n /\ n + 2 <= BatchSize
    BY <1>3, <2>3, FewAreHeld, FS_CardinalityType DEF Room, ShortStreaks
  <2>5. Len(stream) \in Nat /\ Len(held) \in Nat /\ Len(stream') \in Nat
    <3>1. stream \in Seq(Events) /\ held \in Seq(Events) /\ cur \in Events
      BY <1>3 DEF TypeOK, GateInvariant, LoopShape, PublishSent
    <3>2. PICK m : m = Copies(cur)
      OBVIOUS
    <3>3. m \in Seq(Events)
      BY <3>1, <3>2, CopiesType
    <3>4. stream' = stream \o (m \o held)
      BY <1>3, <3>2 DEF PublishSent, Send, Publish
    <3> QED BY <3>1, <3>3, <3>4
  <2>6. Len(stream') - cursor' <= BatchSize
    BY <2>1, <2>2, <2>4, <2>5, BatchSizeAssumption
  <2> QED BY <1>1, <1>2, <2>6 DEF Room, ReadsReachTheEnd
<1>4. CASE UNCHANGED vars
  BY <1>1, <1>2, <1>4 DEF vars, Room, ReadsReachTheEnd
<1>5. CASE ~PublishSent /\ ~UNCHANGED vars
  <2>1. pc' # "consume"
    BY <1>5 DEF Next, MonitorActs, PublishLost, RefuseOnOutage, NextEvent, FirstPc,
       FailOpenOnOutage, OutageUnseen, ConsumeBatch, FindTarget, DrainBacklog, TargetMissing,
       EvaluateTarget, CrashAndRedeliver, BatchRead, DecideOnTime, DecideWithout, AfterDecision,
       Enforce, RetryDouble, RecordDecision, Flush
  <2> QED BY <1>1, <1>2, <2>1 DEF Room, ReadsReachTheEnd
<1> QED BY <1>3, <1>4, <1>5

(* A schedule of short streaks never makes a batch overflow, however many   *)
(* events it reorders in all: a publish releases the reordered events since *)
(* anything last went through, and adds two copies at most (arms.py 200,    *)
(* count 32; faultlab.py publish).                                          *)
THEOREM RoomSuffices == Spec /\ ShortStreaks => []ReadsReachTheEnd
<1>1. Init /\ ShortStreaks => Room
  BY RoomAtFirst DEF Room
<1>2. TypeOK /\ GateInvariant /\ ChainInvariant /\ PendingInvariant /\ EdgeKeeps
      /\ Room /\ [Next]_vars => Room'
  BY RoomStep
<1>3. Room => ReadsReachTheEnd
  BY DEF Room
<1> QED BY <1>1, <1>2, <1>3, EdgeKeepsHolds, PTL DEF Spec

(* An injected crash is never without its redelivery, even in a run whose   *)
(* batches overflow: what the event is held under is still pending when the *)
(* recovery consumer looks for it (arms.py 214-224).                        *)
THEOREM RecoveryNeverMisses ==
    Spec => [](~mode.crashing => tally["crashes"] = tally["redelivered"])
<1> DEFINE Even == ~mode.crashing => tally["crashes"] = tally["redelivered"]
<1>1. Init => Even
  BY DEF Init, FreshRun, Counters
<1>2. TypeOK /\ PendingInvariant /\ Even /\ [Next]_vars => Even'
  BY RecoveriesStep
<1> QED BY <1>1, <1>2, PendingHolds, PTL DEF Spec

(* As long as no batch overflows, an injected crash costs no verdict        *)
(* (arms.py header E, transport.py reclaim).                                *)
THEOREM CrashesCostNoVerdict == Spec /\ []ReadsReachTheEnd => []CrashesAreRedelivered
<1>1. RoomInvariant => CrashesAreRedelivered
  BY DEF RoomInvariant, CrashesAreMadeGood, CrashesAreRedelivered
<1> QED BY <1>1, WholeReadsTell, PTL

(* As long as no batch overflows, what a run leaves unread is what its last *)
(* flush published: a trailing streak of reordered events (arms.py 289).    *)
THEOREM OnlyTheLastFlushIsUnread ==
    Spec /\ []ReadsReachTheEnd => []OnlyTrailingReordersUnread
<1>1. RoomInvariant => OnlyTrailingReordersUnread
  BY DEF RoomInvariant, HeldSince, OnlyTrailingReordersUnread, Finished, Withheld
<1> QED BY <1>1, WholeReadsTell, PTL

\* The final record of an event whose gate record is known, when a run has ended.
LEMMA FinalOfTwo ==
    ASSUME TypeOK, GateInvariant, ChainInvariant, Finished, InSeries, NEW e \in Events
    PROVE  \E g, i \in DOMAIN decisions :
               /\ GateRecord(g, e) /\ SoundRecord(decisions[g])
               /\ Final(e) = decisions[i] /\ decisions[i].event = e /\ SoundRecord(decisions[i])
               /\ decisions[i].outcome # "DECIDED_BACKLOG" => i = g
               /\ Executed(e) <=> RunsBy(e, decisions[g].decision)
<1>1. e < cur
  BY NAssumption DEF GateInvariant, LoopShape, Finished, Events
<1>2. PICK g \in DOMAIN decisions : GateRecord(g, e)
  BY <1>1, LeftIsJudged
<1>3. PICK i \in DOMAIN decisions :
          Final(e) = decisions[i] /\ decisions[i].event = e /\ SoundRecord(decisions[i])
  BY <1>1, LeftIsJudged
<1>4. decisions[i].outcome # "DECIDED_BACKLOG" => i = g
  BY <1>2, <1>3 DEF ChainInvariant, ChainInOrder, GateRecord
<1>5. SoundRecord(decisions[g])
  BY <1>2 DEF ChainInvariant, RecordsAreSound
<1>6. Executed(e) <=> RunsBy(e, decisions[g].decision)
  BY <1>1, <1>2 DEF ChainInvariant, EffectsTell, RanAsRuled, LeftRan
<1> QED BY <1>2, <1>3, <1>4, <1>5, <1>6

(* As long as no batch overflows, a fail-closed gate's dashboard is wrong   *)
(* about a prevention only where enforcement failed, and says so where it   *)
(* did (arms.py header I, J; divergence.py).                                *)
THEOREM LiesComeFromEnforcement ==
    Spec /\ []ReadsReachTheEnd => []LiesAreEnforcementFailures
<1>1. TypeOK /\ GateInvariant /\ ChainInvariant /\ RoomInvariant => LiesAreEnforcementFailures
  <2> SUFFICES ASSUME TypeOK, GateInvariant, ChainInvariant, RoomInvariant,
                      Finished, InSeries, TwoWriters, NEW e \in Events
               PROVE  /\ mode.failClosed /\ e \in PreventedButExecuted
                            => schedule[e] = "enforcement_fail"
                      /\ schedule[e] = "enforcement_fail" /\ Final(e).decision = "BLOCK"
                            => e \in PreventedButExecuted /\ Cause(e) = "enforcement_failed"
    BY DEF LiesAreEnforcementFailures, PreventedButExecuted
  <2>1. PICK g \in DOMAIN decisions, i \in DOMAIN decisions :
            /\ GateRecord(g, e) /\ SoundRecord(decisions[g])
            /\ Final(e) = decisions[i] /\ decisions[i].event = e /\ SoundRecord(decisions[i])
            /\ decisions[i].outcome # "DECIDED_BACKLOG" => i = g
            /\ Executed(e) <=> RunsBy(e, decisions[g].decision)
    BY FinalOfTwo
  <2>2. decisions[g].outcome \in Outcomes /\ decisions[g].event = e
    BY <2>1, RecordFields DEF GateRecord
  <2>3. Judged(e)
    BY <2>1 DEF Judged, EventsOf
  <2>4. ASSUME mode.failClosed, e \in PreventedButExecuted PROVE schedule[e] = "enforcement_fail"
    <3>1. Executed(e) /\ decisions[i].decision = "BLOCK"
      BY <2>1, <2>4 DEF PreventedButExecuted, Reported
    <3>2. CASE decisions[g].decision = "BLOCK"
      BY <2>1, <3>1, <3>2 DEF RunsBy
    <3>3. CASE decisions[g].decision # "BLOCK"
      <4>1. decisions[i].outcome = "DECIDED_BACKLOG"
        BY <2>1, <3>1, <3>3
      <4>2. Decide(mode.policy, Score(e)) = "BLOCK"
        BY <2>1, <3>1, <4>1 DEF SoundRecord
      <4>3. decisions[g].outcome \notin {"DECIDED", "DECIDED_BACKLOG"}
        BY <2>1, <2>2, <3>3, <4>2 DEF SoundRecord
      <4>4. decisions[g].decision = "BLOCK"
        BY <2>1, <2>2, <2>4, <4>3 DEF SoundRecord, Outcomes, FailModeDecision
      <4> QED BY <3>3, <4>4
    <3> QED BY <3>2, <3>3
  <2>5. ASSUME schedule[e] = "enforcement_fail", Final(e).decision = "BLOCK"
        PROVE  e \in PreventedButExecuted /\ Cause(e) = "enforcement_failed"
    <3>1. Executed(e)
      BY <2>1, <2>5 DEF RunsBy
    <3>2. Observed(e)
      BY <3>1 DEF Executed, Observed, EventsOf
    <3>3. decisions[i].outcome # "DECIDED_BACKLOG"
      BY <2>1, <2>5 DEF RoomInvariant, DrainedWereReordered
    <3>4. Final(e).note = "enforcement_failed"
      BY <2>1, <2>5, <3>3 DEF RoomInvariant, FailuresAreNoted
    <3> QED BY <2>3, <2>5, <3>1, <3>2, <3>4 DEF PreventedButExecuted, Reported, Cause
  <2> QED BY <2>4, <2>5
<1> QED BY <1>1, WholeReadsTell, PTL

(* As long as no batch overflows, the deadline is blamed only for what the  *)
(* fail mode let through, and "not detected" stands for what the policy     *)
(* permits, or what a drain judged after the fact (reconstruct.py 95-101).  *)
THEOREM CausesAreRight == Spec /\ []ReadsReachTheEnd => []CausesNameTheFailMode
<1>1. TypeOK /\ GateInvariant /\ ChainInvariant /\ RoomInvariant => CausesNameTheFailMode
  <2> SUFFICES ASSUME TypeOK, GateInvariant, ChainInvariant, RoomInvariant,
                      Finished, InSeries, NEW e \in Incidents
               PROVE  /\ Cause(e) = "no_decision_in_time" => ~mode.failClosed
                      /\ Cause(e) = "not_detected" =>
                            Permits(e) \/ (~mode.failClosed /\ Superseded(e))
    BY DEF CausesNameTheFailMode
  <2>0. e \in Events /\ Executed(e)
    BY DEF Incidents
  <2>1. PICK g \in DOMAIN decisions, i \in DOMAIN decisions :
            /\ GateRecord(g, e) /\ SoundRecord(decisions[g])
            /\ Final(e) = decisions[i] /\ decisions[i].event = e /\ SoundRecord(decisions[i])
            /\ decisions[i].outcome # "DECIDED_BACKLOG" => i = g
            /\ Executed(e) <=> RunsBy(e, decisions[g].decision)
    BY <2>0, FinalOfTwo
  <2>2. /\ decisions[g].outcome \in Outcomes /\ decisions[g].event = e
        /\ decisions[i].outcome \in Outcomes
    BY <2>1, RecordFields DEF GateRecord
  <2>3. Judged(e)
    BY <2>1 DEF Judged, EventsOf
  <2>4. ASSUME Cause(e) = "no_decision_in_time", mode.failClosed PROVE FALSE
    <3>1. /\ decisions[i].outcome \in {"NO_DECISION", "LATE", "REFUSED_TRANSPORT_DOWN"}
          /\ decisions[i].note # "enforcement_failed"
      BY <2>1, <2>3, <2>4 DEF Cause
    <3>2. i = g /\ decisions[g].decision = "BLOCK"
      BY <2>1, <2>4, <3>1 DEF SoundRecord, FailModeDecision
    <3>3. schedule[e] = "enforcement_fail"
      BY <2>0, <2>1, <3>2 DEF RunsBy
    <3> QED BY <2>1, <3>1, <3>3 DEF RoomInvariant, FailuresAreNoted
  <2>5. ASSUME Cause(e) = "not_detected", ~Permits(e)
        PROVE  ~mode.failClosed /\ Superseded(e)
    <3>1. /\ decisions[i].outcome \in {"DECIDED", "DECIDED_BACKLOG"}
          /\ ~(decisions[i].decision = "BLOCK" /\ decisions[i].outcome = "DECIDED")
      BY <2>1, <2>2, <2>3, <2>5 DEF Cause, Outcomes
    <3>2. Decide(mode.policy, Score(e)) = "BLOCK" /\ decisions[i].outcome = "DECIDED_BACKLOG"
      BY <2>1, <2>5, <3>1 DEF SoundRecord, Permits
    <3>3. Superseded(e)
      BY <2>1, <2>3, <3>2 DEF Superseded
    <3>4. schedule[e] = "reorder_event"
      BY <2>1, <3>2 DEF RoomInvariant, DrainedWereReordered
    <3>5. decisions[g].decision # "BLOCK"
      BY <2>0, <2>1, <3>4 DEF RunsBy
    <3>6. decisions[g].outcome \in {"LATE", "NO_DECISION", "REFUSED_TRANSPORT_DOWN"}
      BY <2>1, <2>2, <3>2, <3>5 DEF SoundRecord, Outcomes
    <3>7. ~mode.failClosed
      BY <2>1, <3>5, <3>6 DEF SoundRecord, FailModeDecision
    <3> QED BY <3>3, <3>7
  <2> QED BY <2>4, <2>5
<1> QED BY <1>1, WholeReadsTell, PTL
=============================================================================
